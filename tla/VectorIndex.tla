---------------------------- MODULE VectorIndex -----------------------------
(***************************************************************************)
(* The Qdrant collections of the bot and who works on them: indexing jobs  *)
(* that write points in batches (app/indexing), the promotion of a checked *)
(* product collection to the active alias, the calibration of the document *)
(* baseline (app/evals/document_retrieval.py), and servers that check both *)
(* indexes page by page when they start and trust the result for as long   *)
(* as they live (app/main.py).  A release is one state of the local        *)
(* catalog and documents, with the versions and checksums that a point     *)
(* carries; text, vectors and their settings are left out.                 *)
(***************************************************************************)
EXTENDS Integers

CONSTANTS
  Products,  \* names of product collections given to the tools
  Active,    \* the name they and the servers use otherwise (config.py:41)
  Docs,      \* the document collection, indexed in place
  Releases,
  LastItem,  \* items are 1 .. LastItem, in the order of their point ids
  ItemsOf,   \* the items of each release
  Targets,   \* bound on the releases indexed under a name ...
  Calibrated,\* ... and on those the baseline is calibrated for
  Jobs,      \* runs of the command line tools
  Servers,
  None

Collections == Products \cup {Active, Docs}
Items == 1 .. LastItem

ASSUME IndexAssumption ==
  /\ LastItem \in Nat
  /\ ItemsOf \in [Releases -> (SUBSET Items) \ {{}}]
  /\ Targets \in [Collections -> SUBSET Releases]
  /\ Calibrated \subseteq Releases
  /\ Active \notin Products /\ Docs \notin Products \cup {Active}
  /\ None \notin Releases \cup Collections

VARIABLES
  points,    \* the release of each item's point in each collection, or None
  alias,     \* the collection the active alias names; Active when there is a
             \* collection of that name instead, None when there is neither
  baseline,  \* the release whose checksum the document baseline carries
  job,       \* the jobs; undisturbed, of a promotion or a document index: since
             \* it began, no job for another release has written where it works
  server,    \* the servers, and what they found when they started; undisturbed:
             \* the same for the collection they search
  promoted   \* the release of the last promotion, None once a job for another
             \* release has written in its collection

indexVars == <<points, alias, baseline, job, server, promoted>>

Over == [pc |-> "over", coll |-> Docs, rel |-> None, todo |-> {}, stale |-> {},
         from |-> 1, agrees |-> TRUE, undisturbed |-> TRUE]

Down == [pc |-> "down", rel |-> None, from |-> 1, agrees |-> TRUE, undisturbed |-> TRUE,
         products |-> FALSE, docs |-> FALSE, baseline |-> FALSE]

JobStates ==
  [pc : {"over", "failed", "write", "list", "delete", "check", "verify", "swap",
         "measure", "calibrate"},
   coll : Collections, rel : Releases \cup {None}, todo : SUBSET Items,
   stale : SUBSET Items, from : 1 .. LastItem + 1, agrees : BOOLEAN,
   undisturbed : BOOLEAN]

ServerStates ==
  [pc : {"down", "products", "documents", "baseline", "serving"},
   rel : Releases \cup {None}, from : 1 .. LastItem + 1, agrees : BOOLEAN,
   undisturbed : BOOLEAN, products : BOOLEAN, docs : BOOLEAN, baseline : BOOLEAN]

IndexTypeOK ==
  /\ points \in [Collections -> [Items -> Releases \cup {None}]]
  /\ alias \in Products \cup {Active, None}
  /\ baseline \in Releases \cup {None}
  /\ job \in [Jobs -> JobStates]
  /\ server \in [Servers -> ServerStates]
  /\ promoted \in Releases \cup {None}

InitIndex ==
  /\ points = [c \in Collections |-> [i \in Items |-> None]]
  /\ alias = None
  /\ baseline = None
  /\ job = [j \in Jobs |-> Over]
  /\ server = [s \in Servers |-> Down]
  /\ promoted = None

-----------------------------------------------------------------------------
\* The collection that answers to a name, resolved by Qdrant at every call.
Where(name) == IF name = Active /\ alias # None THEN alias ELSE name

\* What a collection holds that is ready for release r.
Expected(r) == [i \in Items |-> IF i \in ItemsOf[r] THEN r ELSE None]

Complete(c, r) == points[c] = Expected(r)

\* Mutant: the ids are compared, the versions are not.
AgreesById(c, r, from, to) ==
  \A i \in from .. to : (points[c][i] = None) = (Expected(r)[i] = None)

\* What status.ready finds out from the page of items from .. to: nothing
\* missing, nothing extra, only the versions and checksums of the release.
Agrees(c, r, from, to) == \A i \in from .. to : points[c][i] = Expected(r)[i]

\* A scroll reads points in the order of their ids and goes on behind the last
\* one, whatever is written meanwhile: where the next page of a scan may end.
Ends(x) == x.from .. LastItem

\* Mutant: only the last page decides.
ScannedLast(x, c, to) ==
  [x EXCEPT !.agrees = Agrees(c, x.rel, x.from, to), !.from = to + 1]

\* A scan x of collection c goes on by one page.
Scanned(x, c, to) ==
  [x EXCEPT !.agrees = @ /\ Agrees(c, x.rel, x.from, to), !.from = to + 1]

\* x has read its last page and starts its next scan, if any, from the first.
Read(x) == x.from > LastItem
Rewound(x) == [x EXCEPT !.from = 1, !.agrees = TRUE]

-----------------------------------------------------------------------------
Idle(j) == job[j].pc \in {"over", "failed"}

Begin(j, task, c, r) ==
  [Over EXCEPT !.pc = task, !.coll = c, !.rel = r,
               !.todo = IF task = "write" THEN ItemsOf[r] ELSE {}]

\* index_catalog or index_documents: the vectors are computed, and if nothing
\* answers to the name, ensure_collection has created a collection of it.
StartIndex(j, c, r) ==
  /\ Idle(j)
  /\ r \in Targets[c]
  /\ alias' = IF c = Active /\ alias = None THEN Active ELSE alias
  /\ job' = [job EXCEPT ![j] = Begin(j, "write", c, r)]
  /\ UNCHANGED <<points, baseline, server, promoted>>

\* Whom it concerns that a job for release r writes in collection c: who
\* relies on that collection for another release.
ConcernsJob(k, c, r) ==
  /\ job[k].coll = c /\ job[k].rel # r
  /\ job[k].pc \in IF c = Docs THEN {"write", "list", "delete", "check"} ELSE {"verify", "swap"}

ConcernsServer(s, c, r) ==
  /\ Where(Active) = c /\ server[s].rel # r
  /\ server[s].pc = "products" \/ server[s].products

\* Job j, which goes on as next, has written in the collection it works on.
Disturb(j, next) ==
  LET c == Where(job[j].coll)
      r == job[j].rel
  IN  /\ job' = [k \in Jobs |->
           IF k = j THEN next
           ELSE [job[k] EXCEPT !.undisturbed = @ /\ ~ConcernsJob(k, c, r)]]
      /\ server' = [s \in Servers |->
           [server[s] EXCEPT !.undisturbed = @ /\ ~ConcernsServer(s, c, r)]]
      /\ promoted' = IF Where(Active) = c /\ promoted # r THEN None ELSE promoted

\* One batch of upserts; point ids depend on the item only.  Documents are
\* then swept, products only checked: points of another release stay.
Upsert(j, batch) ==
  LET left == job[j].todo \ batch
      next == IF left # {} THEN "write" ELSE IF job[j].coll = Docs THEN "list" ELSE "check"
  IN  /\ job[j].pc = "write"
      /\ batch \subseteq job[j].todo
      /\ points' = [points EXCEPT ![Where(job[j].coll)] =
           [i \in Items |-> IF i \in batch THEN job[j].rel ELSE @[i]]]
      /\ Disturb(j, [job[j] EXCEPT !.todo = left, !.pc = next])
      /\ UNCHANGED <<alias, baseline>>

\* Mutant: points of other releases are taken for somebody else's.
StaleOfOthers(j, to) ==
  {i \in (job[j].from .. to) \ ItemsOf[job[j].rel] : points[job[j].coll][i] = job[j].rel}

Stale(j, to) ==
  {i \in (job[j].from .. to) \ ItemsOf[job[j].rel] : points[job[j].coll][i] # None}

\* sync_chunks lists the points page by page ...
ListPage(j, to) ==
  LET next == [job[j] EXCEPT !.stale = @ \cup Stale(j, to), !.from = to + 1]
  IN  /\ job[j].pc = "list"
      /\ to \in Ends(job[j])
      /\ job' = [job EXCEPT ![j] = IF Read(next)
                                   THEN [Rewound(next) EXCEPT !.pc = "delete"] ELSE next]
      /\ UNCHANGED <<points, alias, baseline, server, promoted>>

\* ... and deletes those that are no chunk of this release.
DeleteStale(j) ==
  /\ job[j].pc = "delete"
  /\ points' = [points EXCEPT ![job[j].coll] =
       [i \in Items |-> IF i \in job[j].stale THEN None ELSE @[i]]]
  /\ Disturb(j, [job[j] EXCEPT !.stale = {}, !.pc = "check"])
  /\ UNCHANGED <<alias, baseline>>

\* promote, from whatever release the operator has checked out.
StartPromote(j, c, r) ==
  /\ Idle(j)
  /\ c \in Products
  /\ job' = [job EXCEPT ![j] = Begin(j, "verify", c, r)]
  /\ UNCHANGED <<points, alias, baseline, server, promoted>>

\* document_retrieval --update-baseline
StartCalibrate(j, r) ==
  /\ Idle(j)
  /\ r \in Calibrated
  /\ job' = [job EXCEPT ![j] = Begin(j, "measure", Docs, r)]
  /\ UNCHANGED <<points, alias, baseline, server, promoted>>

\* What follows a check that ends in ready, and one that does not.
Passed == [check |-> "over", verify |-> "swap", measure |-> "calibrate"]
Rejected == [check |-> "failed", verify |-> "over", measure |-> "over"]

\* Every tool checks the collection before it goes on.
CheckPage(j, to) ==
  LET next == Scanned(job[j], Where(job[j].coll), to)
      then == IF next.agrees THEN Passed[next.pc] ELSE Rejected[next.pc]
  IN  /\ job[j].pc \in DOMAIN Passed
      /\ to \in Ends(job[j])
      /\ job' = [job EXCEPT ![j] =
           IF ~Read(next) THEN next
           ELSE IF then = "over" THEN Over
           ELSE [Rewound(next) EXCEPT !.pc = then]]
      /\ UNCHANGED <<points, alias, baseline, server, promoted>>

\* Delete and create in one call, which Qdrant refuses while a collection has
\* the name.
SwapAlias(j) ==
  LET r == IF job[j].undisturbed THEN job[j].rel ELSE None
  IN  /\ job[j].pc = "swap"
      /\ alias # Active
      /\ alias' = job[j].coll
      /\ job' = [job EXCEPT ![j] = Over]
      /\ server' = [s \in Servers |->
           [server[s] EXCEPT !.undisturbed = @ /\ ~ConcernsServer(s, Where(Active), r)]]
      /\ promoted' = r
      /\ UNCHANGED <<points, baseline>>

\* The gate passed; the baseline carries the checksum of the local documents.
WriteBaseline(j) ==
  /\ job[j].pc = "calibrate"
  /\ baseline' = job[j].rel
  /\ job' = [job EXCEPT ![j] = Over]
  /\ UNCHANGED <<points, alias, server, promoted>>

\* The tool dies, a remote call fails, or the gate does not pass: what was
\* done stays.
Abort(j) ==
  /\ ~Idle(j)
  /\ job' = [job EXCEPT ![j] = Over]
  /\ UNCHANGED <<points, alias, baseline, server, promoted>>

-----------------------------------------------------------------------------
\* The lifespan begins with the release on the server's disk.
StartServer(s, r) ==
  /\ server[s].pc = "down"
  /\ server' = [server EXCEPT ![s] = [Down EXCEPT !.pc = "products", !.rel = r]]
  /\ UNCHANGED <<points, alias, baseline, job, promoted>>

\* Documents are looked at only with the embeddings that the product index
\* has left open.
AfterProducts(x, ready) ==
  [Rewound(x) EXCEPT !.products = ready, !.undisturbed = @ \/ ~ready,
                     !.pc = IF ready THEN "documents" ELSE "serving"]

\* The alias is resolved anew for every page.
ScanProducts(s, to) ==
  LET next == Scanned(server[s], alias, to)
  IN  /\ server[s].pc = "products"
      /\ alias # None
      /\ to \in Ends(server[s])
      /\ server' = [server EXCEPT ![s] =
           IF Read(next) THEN AfterProducts(next, next.agrees) ELSE next]
      /\ UNCHANGED <<points, alias, baseline, job, promoted>>

\* The check times out or fails, or there is no collection.
NoProducts(s) ==
  /\ server[s].pc = "products"
  /\ server' = [server EXCEPT ![s] = AfterProducts(@, FALSE)]
  /\ UNCHANGED <<points, alias, baseline, job, promoted>>

ScanDocs(s, to) ==
  LET next == Scanned(server[s], Docs, to)
  IN  /\ server[s].pc = "documents"
      /\ to \in Ends(server[s])
      /\ server' = [server EXCEPT ![s] =
           IF Read(next)
           THEN [Rewound(next) EXCEPT !.docs = next.agrees,
                                      !.pc = IF next.agrees THEN "baseline" ELSE "serving"]
           ELSE next]
      /\ UNCHANGED <<points, alias, baseline, job, promoted>>

NoDocs(s) ==
  /\ server[s].pc = "documents"
  /\ server' = [server EXCEPT ![s] = [Rewound(@) EXCEPT !.pc = "serving"]]
  /\ UNCHANGED <<points, alias, baseline, job, promoted>>

\* load_document_baseline accepts the baseline of this release only.
LoadBaseline(s) ==
  /\ server[s].pc = "baseline"
  /\ server' = [server EXCEPT ![s].pc = "serving", ![s].baseline = baseline = server[s].rel]
  /\ UNCHANGED <<points, alias, baseline, job, promoted>>

\* Shutdown or crash.
Stop(s) ==
  /\ server[s].pc # "down"
  /\ server' = [server EXCEPT ![s] = Down]
  /\ UNCHANGED <<points, alias, baseline, job, promoted>>

-----------------------------------------------------------------------------
JobStep(j) ==
  \/ \E c \in Collections, r \in Releases : StartIndex(j, c, r) \/ StartPromote(j, c, r)
  \/ \E r \in Releases : StartCalibrate(j, r)
  \/ \E batch \in (SUBSET Items) \ {{}} : Upsert(j, batch)
  \/ \E to \in Ends(job[j]) : ListPage(j, to) \/ CheckPage(j, to)
  \/ DeleteStale(j) \/ SwapAlias(j) \/ WriteBaseline(j) \/ Abort(j)

ServerStep(s) ==
  \/ \E r \in Releases : StartServer(s, r)
  \/ \E to \in Ends(server[s]) : ScanProducts(s, to) \/ ScanDocs(s, to)
  \/ NoProducts(s) \/ NoDocs(s) \/ LoadBaseline(s) \/ Stop(s)

NextIndex ==
  \/ \E j \in Jobs : JobStep(j)
  \/ \E s \in Servers : ServerStep(s)

IndexSpec == InitIndex /\ [][NextIndex]_indexVars

-----------------------------------------------------------------------------
\* The active alias names a complete collection of the release promoted, until
\* a job for another release writes a batch in it, by its own name or by the
\* active one.  The check takes several reads, tools die half way, collections
\* hold what earlier jobs left, and jobs for the same release write between
\* the reads, before the swap and after it (indexing/products.py:144).
AliasComplete == promoted # None => Complete(alias, promoted)

\* A server that enabled product search has a complete collection of its own
\* release under the active name, even when the alias moved between two pages
\* of its check, until a job for another release writes in it or the alias is
\* moved for another release (main.py:161).
ReadyBacked ==
  \A s \in Servers :
    server[s].products /\ server[s].undisturbed => Complete(alias, server[s].rel)

\* Indexing the documents again repairs what an earlier job left when it died:
\* unless a job for another release writes or sweeps in between, it never fails
\* its own check, whatever the collection held before
\* (vectorstores/documents.py:205).
RerunRepairs ==
  \A j \in Jobs : job[j].pc = "failed" /\ job[j].coll = Docs => ~job[j].undisturbed

=============================================================================
