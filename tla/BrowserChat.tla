---------------------------- MODULE BrowserChat -----------------------------
(***************************************************************************)
(* The chat page (frontend/components/ChatApp.tsx) in the tabs of one      *)
(* browser, and the storage they share (frontend/lib/chatStorage.ts).      *)
(* Every tab keeps the list of chats it loaded and writes the whole of it  *)
(* back after each change, without reading what another tab wrote.  A      *)
(* submission is a coroutine with a copy of its chat: it creates a backend *)
(* session if the chat has none, sends, and appends what comes back.       *)
(* A chat is named by its first message; titles and texts are left out.    *)
(***************************************************************************)
EXTENDS Naturals, FiniteSets, SequencesExt

CONSTANTS
  Tabs,
  NoBackend,     \* null
  MaxStored,     \* MAX_STORED_SESSIONS
  MaxMessages,   \* MAX_MESSAGES_PER_SESSION
  MaxSends,      \* bound on the messages submitted
  MaxClock,      \* bound on the clock
  MaxReloads     \* bound on the reloads of a tab

ASSUME BoundsAssumption == {MaxStored, MaxMessages} \subseteq Nat \ {0}
ASSUME NoBackendAssumption == NoBackend \notin Nat \ {0}

VARIABLES
  storage,     \* localStorage: the stored chats
  sessions,    \* the list each tab shows
  active,      \* the chat open in each tab
  busy,        \* whether a tab takes no input
  flights,     \* the submissions under way in each tab
  reloads,     \* how often each tab was loaded anew
  sent,        \* messages submitted so far, the last being its number
  opened,      \* backend sessions created so far
  clock        \* the time, which all tabs read

vars == <<storage, sessions, active, busy, flights, reloads, sent, opened, clock>>

\* An answer with the cards of a comparison names a product it recommends only
\* when it was asked for one: the field is else missing from the response
\* (exclude_none).  All other answers, with cards or without, are "other".
Replies == {"other", "comparison"}

Question(n) == [kind |-> "user", of |-> n, from |-> NoBackend]
Reply(kind, n, backend) == [kind |-> kind, of |-> n, from |-> backend]

EmptyChat == [id |-> 0, backend |-> NoBackend, updated |-> 0, messages |-> <<>>]

-----------------------------------------------------------------------------
\* chatStorage.ts

Recent(messages) ==
  SubSeq(messages, IF Len(messages) > MaxMessages THEN Len(messages) - MaxMessages + 1 ELSE 1,
         Len(messages))

\* The chat at i goes before the one at j: the later change first, and the sort
\* is stable.
Before(chats, i, j) ==
  \/ chats[i].updated > chats[j].updated
  \/ chats[i].updated = chats[j].updated /\ i < j

\* The chats a filter leaves, which are those at the positions shown, sorted.
ByRecency(chats, shown) ==
  [k \in 1 .. Cardinality(shown) |->
     chats[CHOOSE i \in shown : Cardinality({j \in shown : Before(chats, j, i)}) = k - 1]]

\* Mutant: the oldest chats are kept.
KeptOldest(sorted) ==
  SubSeq(Reverse(sorted), 1, IF Len(sorted) > MaxStored THEN MaxStored ELSE Len(sorted))

Kept(sorted) ==
  SubSeq(sorted, 1, IF Len(sorted) > MaxStored THEN MaxStored ELSE Len(sorted))

Trimmed(chats, shown) ==
  LET nonempty == {i \in shown : chats[i].messages # <<>>}
      recent == [i \in DOMAIN chats |-> [chats[i] EXCEPT !.messages = Recent(@)]]
  IN  Kept(ByRecency(recent, nonempty))

\* isSession and isProductCardsPresentation: cards have to say what they
\* recommend, if only null.
IsMessage(m) == m.kind # "comparison"
IsSession(chat) == \A m \in ToSet(chat.messages) : IsMessage(m)

loadSessions == Trimmed(storage, {i \in DOMAIN storage : IsSession(storage[i])})

-----------------------------------------------------------------------------
\* ChatApp.tsx

Init ==
  /\ storage = <<>>
  /\ sessions = [t \in Tabs |-> <<>>]
  /\ active = [t \in Tabs |-> EmptyChat]
  /\ busy = [t \in Tabs |-> FALSE]
  /\ flights = [t \in Tabs |-> {}]
  /\ reloads = [t \in Tabs |-> 0]
  /\ sent = 0 /\ opened = 0 /\ clock = 1

\* A change is stamped with the time, which may have moved on.
Now(now) == /\ now \in {clock, clock + 1} /\ now <= MaxClock
            /\ clock' = now

\* The list with the chat put first, in place of its earlier copy, as it is saved.
Merged(chat, list) ==
  LET merged == <<chat>> \o list
      others == {i \in 2 .. Len(merged) : merged[i].id # chat.id}
  IN  Trimmed(merged, {1} \cup others)

\* commitSession: the chat is opened, merged into the tab's list, and the list
\* is saved over whatever is stored.
CommitSession(t, chat) ==
  /\ active' = [active EXCEPT ![t] = chat]
  /\ sessions' = [sessions EXCEPT ![t] = Merged(chat, @)]
  /\ storage' = sessions'[t]

\* A chat with one message more.
WithMessage(chat, m, now) ==
  [chat EXCEPT !.updated = now, !.messages = Recent(Append(@, m))]

Flight(n, stage, chat) == [of |-> n, stage |-> stage, chat |-> chat]

\* Mutant: a message may be submitted while another is being answered.
MaySubmitAnytime(t) == sent < MaxSends

MaySubmit(t) == sent < MaxSends /\ ~busy[t]

SubmitMessage(t) ==
  /\ MaySubmit(t)
  /\ \E now \in {clock, clock + 1} :
       LET n == sent + 1
           begun == [active[t] EXCEPT !.id = IF @ = 0 THEN n ELSE @]
           chat == WithMessage(begun, Question(n), now)
           stage == IF chat.backend = NoBackend THEN "create" ELSE "send"
       IN  /\ Now(now)
           /\ sent' = n
           /\ busy' = [busy EXCEPT ![t] = TRUE]
           /\ flights' = [flights EXCEPT ![t] = @ \cup {Flight(n, stage, chat)}]
           /\ CommitSession(t, chat)
  /\ UNCHANGED <<reloads, opened>>

\* Mutant: the session is stored but the submission goes on without it.
WithSessionStored(f, backend) == f.chat

\* The copy of the chat the submission goes on with.
WithSession(f, backend) == [f.chat EXCEPT !.backend = backend]

SessionCreated(t) ==
  /\ \E f \in flights[t] :
       /\ f.stage = "create"
       /\ opened' = opened + 1
       /\ flights' = [flights EXCEPT ![t] =
                        (@ \ {f}) \cup {Flight(f.of, "send", WithSession(f, opened'))}]
       /\ CommitSession(t, [f.chat EXCEPT !.backend = opened'])
  /\ UNCHANGED <<busy, reloads, sent, clock>>

\* The end of a submission, with an answer or with the text of an error.
EndSubmission(t, f, reply) ==
  /\ \E now \in {clock, clock + 1} :
       /\ Now(now)
       /\ CommitSession(t, WithMessage(f.chat, reply, now))
  /\ flights' = [flights EXCEPT ![t] = @ \ {f}]
  /\ busy' = [busy EXCEPT ![t] = FALSE]
  /\ UNCHANGED <<reloads, sent, opened>>

\* The backend the message went to is the flight's own until it is over.
MessageAnswered(t) ==
  \E f \in flights[t], kind \in Replies :
    f.stage = "send" /\ EndSubmission(t, f, Reply(kind, f.of, f.chat.backend))

SubmissionFailed(t) ==
  \E f \in flights[t] : EndSubmission(t, f, Reply("error", f.of, NoBackend))

MayLeave(t) == ~busy[t]

HandleNewChat(t) ==
  /\ MayLeave(t)
  /\ active' = [active EXCEPT ![t] = EmptyChat]
  /\ UNCHANGED <<storage, sessions, busy, flights, reloads, sent, opened, clock>>

SelectSession(t) ==
  /\ MayLeave(t)
  /\ \E chat \in ToSet(sessions[t]) : active' = [active EXCEPT ![t] = chat]
  /\ UNCHANGED <<storage, sessions, busy, flights, reloads, sent, opened, clock>>

\* The page is loaded anew, whatever it was waiting for.
Reload(t) ==
  /\ reloads[t] < MaxReloads
  /\ reloads' = [reloads EXCEPT ![t] = @ + 1]
  /\ sessions' = [sessions EXCEPT ![t] = loadSessions]
  /\ active' = [active EXCEPT ![t] = EmptyChat]
  /\ busy' = [busy EXCEPT ![t] = FALSE]
  /\ flights' = [flights EXCEPT ![t] = {}]
  /\ UNCHANGED <<storage, sent, opened, clock>>

Next ==
  \E t \in Tabs :
    \/ SubmitMessage(t) \/ SessionCreated(t) \/ MessageAnswered(t) \/ SubmissionFailed(t)
    \/ HandleNewChat(t) \/ SelectSession(t) \/ Reload(t)

Spec == Init /\ [][Next]_vars
-----------------------------------------------------------------------------
\* Properties.

\* Every copy of a chat: stored, listed, open and in the hands of a submission.
Copies ==
  ToSet(storage)
  \cup UNION {ToSet(sessions[t]) \cup {active[t]} \cup {f.chat : f \in flights[t]} : t \in Tabs}

\* However tabs overwrite each other's lists, every copy of a chat is one
\* conversation: an answer follows the message it answers, and all answers
\* come from the backend session of the copy, which no other chat has.
OneConversation ==
  \A c \in Copies :
    /\ \A i \in DOMAIN c.messages :
         LET m == c.messages[i]
         IN  m.kind # "user" =>
               /\ i > 1 => c.messages[i - 1] = Question(m.of)
               /\ m.kind # "error" => m.from = c.backend
    /\ \A d \in Copies : c.backend # NoBackend /\ c.backend = d.backend => c.id = d.id

\* What a tab has shown of a chat it does not take back before the page is
\* loaded anew: messages are only added, the oldest give way only when the
\* chat is full, and its backend session stays.
Extends(new, old) ==
  /\ old.backend \in {NoBackend, new.backend}
  /\ \E k \in 0 .. Len(old.messages) :
       /\ IsPrefix(SubSeq(old.messages, k + 1, Len(old.messages)), new.messages)
       /\ k > 0 => Len(new.messages) = MaxMessages
       /\ k <= 1

NothingTakenBack ==
  [][\A t \in Tabs : reloads'[t] = reloads[t] =>
       \A old \in ToSet(sessions[t]), new \in ToSet(sessions'[t]) :
         old.id = new.id => Extends(new, old)]_vars

\* The chat on the screen is in the list that is saved, with all it shows:
\* it is not the one given up when the list is full, and an answer does not
\* arrive in a chat the user has left.
ActiveKept ==
  \A t \in Tabs :
    /\ active[t].messages # <<>> => active[t] \in ToSet(sessions[t])
    /\ \A f \in flights[t] : f.chat.id = active[t].id

\* README.md:104: "The frontend restores recent local chats after React
\* hydration."  What is stored is what a reload would show.  It fails: a chat
\* with a comparison is stored, and left out of every load.
StoredIsRestored == loadSessions = storage
=============================================================================
