-------------------------- MODULE ExpressionProofs --------------------------
(***************************************************************************)
(* What the list and the expression operators of the product search        *)
(* compute, for lists of any length and expressions of any shape: the      *)
(* steps of their recursion, the predicates an expression says, and those  *)
(* that its rewritings keep.                                               *)
(***************************************************************************)
EXTENDS Expression, FiniteSetTheorems, SequenceTheorems, TLAPS

-----------------------------------------------------------------------------
(***************************************************************************)
(* Lists                                                                   *)
(***************************************************************************)

\* A list is done after all shorter ones.
LEMMA Shorter ==
  ASSUME NEW n \in Nat
  PROVE  LET height == [m \in 0 .. n |-> m]
         IN  /\ n \in UpTo(n)
             /\ \A x \in UpTo(n) : height[x] \in Nat /\ height[x] < n + 1
             /\ \A x \in UpTo(n) : \A i \in DOMAIN Lower(x) :
                  /\ Lower(x)[i] \in UpTo(n)
                  /\ height[Lower(x)[i]] < height[x]
             /\ \A x \in UpTo(n) :
                  /\ x \in UpTo(x)
                  /\ UpTo(x) \subseteq UpTo(n)
                  /\ \A y \in UpTo(x) : \A i \in DOMAIN Lower(y) : Lower(y)[i] \in UpTo(x)
<1> DEFINE height == [m \in 0 .. n |-> m]
<1>1. \A x \in Nat : \A i \in DOMAIN Lower(x) : x > 0 /\ i = 1 /\ Lower(x)[i] = x - 1
  BY DEF Lower
<1>2. \A x \in UpTo(n) : x \in Nat /\ x <= n /\ height[x] = x
  BY DEF UpTo
<1>3. \A x \in UpTo(n) : \A i \in DOMAIN Lower(x) :
         /\ Lower(x)[i] \in UpTo(n)
         /\ height[Lower(x)[i]] < height[x]
  <2>1. SUFFICES ASSUME NEW x \in UpTo(n), NEW i \in DOMAIN Lower(x)
                 PROVE  Lower(x)[i] \in UpTo(n) /\ height[Lower(x)[i]] < height[x]
    BY Zenon
  <2>2. x \in Nat /\ x <= n /\ x > 0 /\ Lower(x)[i] = x - 1
    BY <1>1, <1>2
  <2>3. Lower(x)[i] \in UpTo(n)
    BY <2>2 DEF UpTo
  <2>4. QED
    BY <1>2, <2>2, <2>3
<1>4. \A x \in UpTo(n) :
         /\ x \in UpTo(x)
         /\ UpTo(x) \subseteq UpTo(n)
         /\ \A y \in UpTo(x) : \A i \in DOMAIN Lower(y) : Lower(y)[i] \in UpTo(x)
  BY <1>1, <1>2 DEF UpTo
<1>5. n \in UpTo(n) /\ \A x \in UpTo(n) : height[x] \in Nat /\ height[x] < n + 1
  BY <1>2 DEF UpTo
<1>6. QED
  BY <1>3, <1>4, <1>5, Zenon

LEMMA LowerZero == DOMAIN Lower(0) = {}
BY DEF Lower

\* The number before the next.
LEMMA LowerNext ==
  ASSUME NEW n \in Nat
  PROVE  /\ n + 1 \in Nat /\ n + 1 # 0
         /\ 1 \in DOMAIN Lower(n + 1) /\ Lower(n + 1)[1] = n
BY DEF Lower

\* What is chosen of the first elements of a list.
LEMMA ChoosingNext ==
  ASSUME NEW n \in Nat, NEW c
  PROVE  /\ Choosing!Value(0, c) = <<>>
         /\ Choosing!Value(n + 1, c) =
           IF n + 1 \in c.at THEN Append(Choosing!Value(n, c), c.list[n + 1])
           ELSE Choosing!Value(n, c)
<1>1. ASSUME NEW k \in Nat
      PROVE  Choosing!Value(k, c)
               = ChosenAt([i \in DOMAIN Lower(k) |-> Choosing!Value(Lower(k)[i], c)], k, c)
  <2> DEFINE height == [m \in 0 .. k |-> m]
  <2>1. /\ k \in UpTo(k)
        /\ \A x \in UpTo(k) : height[x] \in Nat /\ height[x] < k + 1
        /\ \A x \in UpTo(k) : \A i \in DOMAIN Lower(x) :
             /\ Lower(x)[i] \in UpTo(k)
             /\ height[Lower(x)[i]] < height[x]
        /\ \A x \in UpTo(k) :
             /\ x \in UpTo(x)
             /\ UpTo(x) \subseteq UpTo(k)
             /\ \A y \in UpTo(x) : \A i \in DOMAIN Lower(y) : Lower(y)[i] \in UpTo(x)
    BY Shorter, Zenon
  <2> HIDE DEF height
  <2>2. QED
    BY <2>1, Choosing!Unfolds
<1>2. Choosing!Value(0, c) = <<>>
  BY <1>1 DEF ChosenAt
<1> DEFINE done == [i \in DOMAIN Lower(n + 1) |-> Choosing!Value(Lower(n + 1)[i], c)]
<1>3. done[1] = Choosing!Value(n, c) /\ n + 1 # 0
  BY LowerNext
<1>4. Choosing!Value(n + 1, c) = ChosenAt(done, n + 1, c)
  BY <1>1, LowerNext
<1> HIDE DEF done
<1>5. QED
  BY <1>2, <1>3, <1>4 DEF ChosenAt

\* The sum of the first numbers.
LEMMA AddingNext ==
  ASSUME NEW n \in Nat, NEW c
  PROVE  /\ Adding!Value(0, c) = 0
         /\ Adding!Value(n + 1, c) =
           Adding!Value(n, c) + c[n + 1]
<1>1. ASSUME NEW k \in Nat
      PROVE  Adding!Value(k, c)
               = TotalAt([i \in DOMAIN Lower(k) |-> Adding!Value(Lower(k)[i], c)], k, c)
  <2> DEFINE height == [m \in 0 .. k |-> m]
  <2>1. /\ k \in UpTo(k)
        /\ \A x \in UpTo(k) : height[x] \in Nat /\ height[x] < k + 1
        /\ \A x \in UpTo(k) : \A i \in DOMAIN Lower(x) :
             /\ Lower(x)[i] \in UpTo(k)
             /\ height[Lower(x)[i]] < height[x]
        /\ \A x \in UpTo(k) :
             /\ x \in UpTo(x)
             /\ UpTo(x) \subseteq UpTo(k)
             /\ \A y \in UpTo(x) : \A i \in DOMAIN Lower(y) : Lower(y)[i] \in UpTo(x)
    BY Shorter, Zenon
  <2> HIDE DEF height
  <2>2. QED
    BY <2>1, Adding!Unfolds
<1>2. Adding!Value(0, c) = 0
  BY <1>1 DEF TotalAt
<1> DEFINE done == [i \in DOMAIN Lower(n + 1) |-> Adding!Value(Lower(n + 1)[i], c)]
<1>3. done[1] = Adding!Value(n, c) /\ n + 1 # 0
  BY LowerNext
<1>4. Adding!Value(n + 1, c) = TotalAt(done, n + 1, c)
  BY <1>1, LowerNext
<1> HIDE DEF done
<1>5. QED
  BY <1>2, <1>3, <1>4 DEF TotalAt

\* The first lists one after the other.
LEMMA JoiningNext ==
  ASSUME NEW n \in Nat, NEW c
  PROVE  /\ Joining!Value(0, c) = <<>>
         /\ Joining!Value(n + 1, c) =
           Joining!Value(n, c) \o c[n + 1]
<1>1. ASSUME NEW k \in Nat
      PROVE  Joining!Value(k, c)
               = JoinedAt([i \in DOMAIN Lower(k) |-> Joining!Value(Lower(k)[i], c)], k, c)
  <2> DEFINE height == [m \in 0 .. k |-> m]
  <2>1. /\ k \in UpTo(k)
        /\ \A x \in UpTo(k) : height[x] \in Nat /\ height[x] < k + 1
        /\ \A x \in UpTo(k) : \A i \in DOMAIN Lower(x) :
             /\ Lower(x)[i] \in UpTo(k)
             /\ height[Lower(x)[i]] < height[x]
        /\ \A x \in UpTo(k) :
             /\ x \in UpTo(x)
             /\ UpTo(x) \subseteq UpTo(k)
             /\ \A y \in UpTo(x) : \A i \in DOMAIN Lower(y) : Lower(y)[i] \in UpTo(x)
    BY Shorter, Zenon
  <2> HIDE DEF height
  <2>2. QED
    BY <2>1, Joining!Unfolds
<1>2. Joining!Value(0, c) = <<>>
  BY <1>1 DEF JoinedAt
<1> DEFINE done == [i \in DOMAIN Lower(n + 1) |-> Joining!Value(Lower(n + 1)[i], c)]
<1>3. done[1] = Joining!Value(n, c) /\ n + 1 # 0
  BY LowerNext
<1>4. Joining!Value(n + 1, c) = JoinedAt(done, n + 1, c)
  BY <1>1, LowerNext
<1> HIDE DEF done
<1>5. QED
  BY <1>2, <1>3, <1>4, Zenon DEF JoinedAt

\* The ways to pick from the first lists.
LEMMA PickingNext ==
  ASSUME NEW n \in Nat, NEW c
  PROVE  /\ Picking!Value(0, c) = << <<>> >>
         /\ Picking!Value(n + 1, c) =
           Joined([j \in DOMAIN Picking!Value(n, c) |->
             [i \in DOMAIN c[n + 1] |-> Append(Picking!Value(n, c)[j], c[n + 1][i])]])
<1>1. ASSUME NEW k \in Nat
      PROVE  Picking!Value(k, c)
               = PicksAt([i \in DOMAIN Lower(k) |-> Picking!Value(Lower(k)[i], c)], k, c)
  <2> DEFINE height == [m \in 0 .. k |-> m]
  <2>1. /\ k \in UpTo(k)
        /\ \A x \in UpTo(k) : height[x] \in Nat /\ height[x] < k + 1
        /\ \A x \in UpTo(k) : \A i \in DOMAIN Lower(x) :
             /\ Lower(x)[i] \in UpTo(k)
             /\ height[Lower(x)[i]] < height[x]
        /\ \A x \in UpTo(k) :
             /\ x \in UpTo(x)
             /\ UpTo(x) \subseteq UpTo(k)
             /\ \A y \in UpTo(x) : \A i \in DOMAIN Lower(y) : Lower(y)[i] \in UpTo(x)
    BY Shorter, Zenon
  <2> HIDE DEF height
  <2>2. QED
    BY <2>1, Picking!Unfolds
<1>2. Picking!Value(0, c) = << <<>> >>
  BY <1>1 DEF PicksAt
<1> DEFINE done == [i \in DOMAIN Lower(n + 1) |-> Picking!Value(Lower(n + 1)[i], c)]
<1>3. done[1] = Picking!Value(n, c) /\ n + 1 # 0
  BY LowerNext
<1>4. Picking!Value(n + 1, c) = PicksAt(done, n + 1, c)
  BY <1>1, LowerNext
<1> HIDE DEF done
<1>5. QED
  BY <1>2, <1>3, <1>4 DEF PicksAt

\* The first elements without repetitions.
LEMMA UnitingNext ==
  ASSUME NEW n \in Nat, NEW c
  PROVE  /\ Uniting!Value(0, c) = <<>>
         /\ Uniting!Value(n + 1, c) =
           IF c[n + 1] \in ToSet(Uniting!Value(n, c)) THEN Uniting!Value(n, c)
           ELSE Append(Uniting!Value(n, c), c[n + 1])
<1>1. ASSUME NEW k \in Nat
      PROVE  Uniting!Value(k, c)
               = OnceAt([i \in DOMAIN Lower(k) |-> Uniting!Value(Lower(k)[i], c)], k, c)
  <2> DEFINE height == [m \in 0 .. k |-> m]
  <2>1. /\ k \in UpTo(k)
        /\ \A x \in UpTo(k) : height[x] \in Nat /\ height[x] < k + 1
        /\ \A x \in UpTo(k) : \A i \in DOMAIN Lower(x) :
             /\ Lower(x)[i] \in UpTo(k)
             /\ height[Lower(x)[i]] < height[x]
        /\ \A x \in UpTo(k) :
             /\ x \in UpTo(x)
             /\ UpTo(x) \subseteq UpTo(k)
             /\ \A y \in UpTo(x) : \A i \in DOMAIN Lower(y) : Lower(y)[i] \in UpTo(x)
    BY Shorter, Zenon
  <2> HIDE DEF height
  <2>2. QED
    BY <2>1, Uniting!Unfolds
<1>2. Uniting!Value(0, c) = <<>>
  BY <1>1 DEF OnceAt
<1> DEFINE done == [i \in DOMAIN Lower(n + 1) |-> Uniting!Value(Lower(n + 1)[i], c)]
<1>3. done[1] = Uniting!Value(n, c) /\ n + 1 # 0
  BY LowerNext
<1>4. Uniting!Value(n + 1, c) = OnceAt(done, n + 1, c)
  BY <1>1, LowerNext
<1> HIDE DEF done
<1>5. QED
  BY <1>2, <1>3, <1>4 DEF OnceAt

\* The level below the last.
LEMMA DescendingNext ==
  ASSUME NEW n \in Nat, NEW c
  PROVE  /\ Descending!Value(0, c) = {c}
         /\ Descending!Value(n + 1, c) =
           UNION {ToSet(Kids(x)) : x \in Descending!Value(n, c)}
<1>1. ASSUME NEW k \in Nat
      PROVE  Descending!Value(k, c)
               = LevelAt([i \in DOMAIN Lower(k) |-> Descending!Value(Lower(k)[i], c)], k, c)
  <2> DEFINE height == [m \in 0 .. k |-> m]
  <2>1. /\ k \in UpTo(k)
        /\ \A x \in UpTo(k) : height[x] \in Nat /\ height[x] < k + 1
        /\ \A x \in UpTo(k) : \A i \in DOMAIN Lower(x) :
             /\ Lower(x)[i] \in UpTo(k)
             /\ height[Lower(x)[i]] < height[x]
        /\ \A x \in UpTo(k) :
             /\ x \in UpTo(x)
             /\ UpTo(x) \subseteq UpTo(k)
             /\ \A y \in UpTo(x) : \A i \in DOMAIN Lower(y) : Lower(y)[i] \in UpTo(x)
    BY Shorter, Zenon
  <2> HIDE DEF height
  <2>2. QED
    BY <2>1, Descending!Unfolds
<1>2. Descending!Value(0, c) = {c}
  BY <1>1 DEF LevelAt
<1> DEFINE done == [i \in DOMAIN Lower(n + 1) |-> Descending!Value(Lower(n + 1)[i], c)]
<1>3. done[1] = Descending!Value(n, c) /\ n + 1 # 0
  BY LowerNext
<1>4. Descending!Value(n + 1, c) = LevelAt(done, n + 1, c)
  BY <1>1, LowerNext
<1> HIDE DEF done
<1>5. QED
  BY <1>2, <1>3, <1>4 DEF LevelAt

\* What holds of 0 and of every next number holds up to any number.
LEMMA Climb ==
  ASSUME NEW N \in Nat, NEW T, 0 \in T,
         \A n \in Nat : n < N /\ n \in T => n + 1 \in T
  PROVE  \A n \in 0 .. N : n \in T
<1> DEFINE Bad == {n \in 0 .. N : n \notin T}
<1>1. SUFFICES ASSUME Bad # {} PROVE FALSE
  OBVIOUS
<1>2. PICK n \in Bad : \A m \in Bad : n <= m
  <2>1. Bad \subseteq Nat
    OBVIOUS
  <2>2. QED
    BY <1>1, <2>1, Choosing!LeastOne, Zenon
<1>3. n # 0 /\ n \in 0 .. N /\ n \notin T
  BY <1>2
<1>4. n - 1 \in Nat /\ n - 1 < N /\ n - 1 \in 0 .. N
  BY <1>3
<1>5. n - 1 \in T
  BY <1>2, <1>3, <1>4
<1>6. (n - 1) + 1 \in T
  BY <1>4, <1>5
<1>7. QED
  BY <1>3, <1>6

LEMMA ToSetAppend ==
  ASSUME NEW S, NEW s \in Seq(S), NEW x \in S
  PROVE  Append(s, x) \in Seq(S) /\ ToSet(Append(s, x)) = ToSet(s) \cup {x}
         /\ Len(Append(s, x)) = Len(s) + 1
<1>1. /\ Append(s, x) \in Seq(S)
      /\ Len(Append(s, x)) = Len(s) + 1
      /\ \A i \in 1 .. Len(s) : Append(s, x)[i] = s[i]
      /\ Append(s, x)[Len(s) + 1] = x
      /\ DOMAIN Append(s, x) = 1 .. Len(s) + 1 /\ DOMAIN s = 1 .. Len(s) /\ Len(s) \in Nat
  BY AppendProperties
<1>2. ToSet(Append(s, x)) \subseteq ToSet(s) \cup {x}
  BY <1>1 DEF ToSet
<1>3. x \in ToSet(Append(s, x))
  BY <1>1 DEF ToSet
<1>4. ToSet(s) \subseteq ToSet(Append(s, x))
  BY <1>1 DEF ToSet
<1>5. QED
  BY <1>1, <1>2, <1>3, <1>4

LEMMA ToSetEmpty ==
  ASSUME NEW S
  PROVE  <<>> \in Seq(S) /\ ToSet(<<>>) = {} /\ Len(<<>>) = 0
BY EmptySeq DEF ToSet

LEMMA ToSetMember ==
  ASSUME NEW S, NEW s \in Seq(S)
  PROVE  /\ ToSet(s) \subseteq S /\ s \in Seq(ToSet(s))
         /\ Len(s) \in Nat /\ DOMAIN s = 1 .. Len(s)
         /\ s = <<>> <=> ToSet(s) = {}
         /\ \A i \in DOMAIN s : s[i] \in ToSet(s)
<1>1. Len(s) \in Nat /\ DOMAIN s = 1 .. Len(s) /\ \A i \in 1 .. Len(s) : s[i] \in S
  BY LenProperties, ElementOfSeq
<1>2. \A i \in DOMAIN s : s[i] \in ToSet(s)
  BY DEF ToSet
<1>3. ToSet(s) \subseteq S
  BY <1>1 DEF ToSet
<1>4. s \in Seq(ToSet(s))
  BY <1>1, <1>2
<1>5. s = <<>> <=> ToSet(s) = {}
  <2>1. s = <<>> <=> Len(s) = 0
    BY EmptySeq
  <2>2. Len(s) # 0 => s[1] \in ToSet(s)
    BY <1>1, <1>2
  <2>3. Len(s) = 0 => ToSet(s) = {}
    BY <1>1 DEF ToSet
  <2>4. QED
    BY <2>1, <2>2, <2>3
<1>6. QED
  BY <1>1, <1>2, <1>3, <1>4, <1>5

\* What is chosen of a list are its elements at the positions asked for.
LEMMA ChosenFacts ==
  ASSUME NEW S, NEW s \in Seq(S), NEW at
  PROVE  /\ Chosen(s, at) \in Seq(S)
         /\ ToSet(Chosen(s, at)) = {s[i] : i \in at \cap DOMAIN s}
         /\ Len(Chosen(s, at)) <= Len(s)
<1> DEFINE c == [list |-> s, at |-> at]
           V(n) == Choosing!Value(n, c)
           Of(n) == {s[i] : i \in {j \in 1 .. n : j \in at}}
           T == {n \in 0 .. Len(s) : V(n) \in Seq(S) /\ ToSet(V(n)) = Of(n) /\ Len(V(n)) <= n}
<1>1. /\ V(0) = <<>>
      /\ \A n \in Nat : V(n + 1) = IF n + 1 \in at THEN Append(V(n), s[n + 1]) ELSE V(n)
  BY ChoosingNext
<1> HIDE DEF V
<1>2. Len(s) \in Nat /\ DOMAIN s = 1 .. Len(s) /\ \A i \in 1 .. Len(s) : s[i] \in S
  BY LenProperties, ElementOfSeq
<1>3. 0 \in T
  <2>1. Of(0) = {}
    OBVIOUS
  <2>a. V(0) = <<>>
    BY <1>1
  <2>b. V(0) \in Seq(S)
    BY <2>a, ToSetEmpty
  <2>c. ToSet(V(0)) = {}
    BY <2>a, ToSetEmpty
  <2>d. Len(V(0)) <= 0
    BY <2>a, ToSetEmpty
  <2>2. V(0) \in Seq(S) /\ ToSet(V(0)) = {} /\ Len(V(0)) <= 0
    BY <2>b, <2>c, <2>d
  <2>3. QED
    BY <1>2, <2>1, <2>2
<1>4. ASSUME NEW n \in Nat, n < Len(s), n \in T
      PROVE  n + 1 \in T
  <2>1. V(n) \in Seq(S) /\ ToSet(V(n)) = Of(n) /\ Len(V(n)) <= n /\ s[n + 1] \in S
        /\ Len(V(n)) \in Nat
    BY <1>2, <1>4
  <2>2. CASE n + 1 \in at
    <3>1. V(n + 1) = Append(V(n), s[n + 1])
      BY <1>1, <2>2
    <3>2. Of(n + 1) = Of(n) \cup {s[n + 1]}
      BY <2>2
    <3>3. /\ Append(V(n), s[n + 1]) \in Seq(S)
          /\ ToSet(Append(V(n), s[n + 1])) = ToSet(V(n)) \cup {s[n + 1]}
          /\ Len(Append(V(n), s[n + 1])) = Len(V(n)) + 1
      <4>1. V(n) \in Seq(S)
        BY <2>1
      <4>2. s[n + 1] \in S
        BY <2>1
      <4>3. QED
        BY <4>1, <4>2, ToSetAppend
    <3>4. V(n + 1) \in Seq(S) /\ ToSet(V(n + 1)) = Of(n + 1)
      BY <2>1, <3>1, <3>2, <3>3
    <3>5. Len(V(n + 1)) <= n + 1 /\ n + 1 \in 0 .. Len(s)
      BY <1>2, <1>4, <2>1, <3>1, <3>3
    <3>6. QED
      BY <3>4, <3>5
  <2>3. CASE n + 1 \notin at
    <3>1. V(n + 1) = V(n)
      BY <1>1, <2>3
    <3>2. {j \in 1 .. n + 1 : j \in at} = {j \in 1 .. n : j \in at}
      BY <2>3
    <3>3. QED
      BY <1>2, <1>4, <2>1, <3>1, <3>2
  <2>4. QED
    BY <2>2, <2>3
<1>5. Len(s) \in T
  <2> HIDE DEF T
  <2>1. \A n \in 0 .. Len(s) : n \in T
    BY <1>2, <1>3, <1>4, Climb
  <2>2. QED
    BY <1>2, <2>1
<1>6. Of(Len(s)) = {s[i] : i \in at \cap DOMAIN s}
  BY <1>2
<1>7. Chosen(s, at) = V(Len(s))
  BY DEF Chosen, V
<1>8. QED
  BY <1>5, <1>6, <1>7

\* A sum of integers is an integer, and of natural numbers a natural number.
LEMMA TotalFacts ==
  ASSUME NEW S, S \in {Int, Nat}, NEW s \in Seq(S)
  PROVE  Total(s) \in S
<1> DEFINE V(n) == Adding!Value(n, s)
           T == {n \in 0 .. Len(s) : V(n) \in S}
<1>1. V(0) = 0 /\ \A n \in Nat : V(n + 1) = V(n) + s[n + 1]
  BY AddingNext
<1> HIDE DEF V
<1>2. Len(s) \in Nat /\ \A i \in 1 .. Len(s) : s[i] \in S
  BY LenProperties, ElementOfSeq
<1>3. 0 \in T
  <2>1. 0 \in S
    OBVIOUS
  <2>2. V(0) \in S
    BY <1>1, <2>1
  <2>3. QED
    BY <1>2, <2>2
<1>4. ASSUME NEW n \in Nat, n < Len(s), n \in T
      PROVE  n + 1 \in T
  <2>1. V(n) \in S /\ s[n + 1] \in S /\ V(n + 1) = V(n) + s[n + 1]
    BY <1>1, <1>2, <1>4
  <2>2. V(n) + s[n + 1] \in S
    BY <2>1
  <2>3. QED
    BY <1>2, <1>4, <2>1, <2>2
<1>5. Len(s) \in T
  <2> HIDE DEF T
  <2>1. \A n \in 0 .. Len(s) : n \in T
    BY <1>2, <1>3, <1>4, Climb
  <2>2. QED
    BY <1>2, <2>1
<1>6. QED
  BY <1>5 DEF Total, V

LEMMA ToSetConcat ==
  ASSUME NEW S, NEW s \in Seq(S), NEW t \in Seq(S)
  PROVE  s \o t \in Seq(S) /\ ToSet(s \o t) = ToSet(s) \cup ToSet(t)
         /\ Len(s \o t) = Len(s) + Len(t)
<1>1. /\ s \o t \in Seq(S)
      /\ Len(s \o t) = Len(s) + Len(t)
      /\ \A i \in 1 .. Len(s) + Len(t) :
           (s \o t)[i] = IF i <= Len(s) THEN s[i] ELSE t[i - Len(s)]
  BY ConcatProperties
<1>2. /\ Len(s) \in Nat /\ Len(t) \in Nat /\ DOMAIN s = 1 .. Len(s) /\ DOMAIN t = 1 .. Len(t)
      /\ DOMAIN (s \o t) = 1 .. Len(s) + Len(t)
  BY <1>1, LenProperties
<1> DEFINE st == s \o t
<1>3. /\ \A i \in 1 .. Len(s) + Len(t) : st[i] = IF i <= Len(s) THEN s[i] ELSE t[i - Len(s)]
      /\ DOMAIN st = 1 .. Len(s) + Len(t)
  BY <1>1, <1>2
<1> HIDE DEF st
<1>4. ToSet(st) \subseteq ToSet(s) \cup ToSet(t)
  <2>1. SUFFICES ASSUME NEW i \in 1 .. Len(s) + Len(t) PROVE st[i] \in ToSet(s) \cup ToSet(t)
    BY <1>3 DEF ToSet
  <2>2. CASE i <= Len(s)
    <3>1. i \in DOMAIN s /\ st[i] = s[i]
      BY <1>2, <1>3, <2>2
    <3>2. QED
      BY <3>1 DEF ToSet
  <2>3. CASE ~ (i <= Len(s))
    <3>1. i - Len(s) \in DOMAIN t /\ st[i] = t[i - Len(s)]
      BY <1>2, <1>3, <2>3
    <3>2. QED
      BY <3>1 DEF ToSet
  <2>4. QED
    BY <2>2, <2>3
<1>5. ToSet(s) \subseteq ToSet(st)
  <2>1. SUFFICES ASSUME NEW i \in 1 .. Len(s) PROVE s[i] \in ToSet(st)
    BY <1>2 DEF ToSet
  <2>2. i \in DOMAIN st /\ st[i] = s[i]
    BY <1>2, <1>3
  <2>3. QED
    BY <2>2 DEF ToSet
<1>6. ToSet(t) \subseteq ToSet(st)
  <2>1. SUFFICES ASSUME NEW i \in 1 .. Len(t) PROVE t[i] \in ToSet(st)
    BY <1>2 DEF ToSet
  <2>2. Len(s) + i \in 1 .. Len(s) + Len(t) /\ ~ (Len(s) + i <= Len(s)) /\ (Len(s) + i) - Len(s) = i
    BY <1>2
  <2>3. Len(s) + i \in DOMAIN st /\ st[Len(s) + i] = t[i]
    BY <1>3, <2>2
  <2>4. QED
    BY <2>3 DEF ToSet
<1>7. ToSet(s \o t) = ToSet(s) \cup ToSet(t)
  BY <1>4, <1>5, <1>6 DEF st
<1>8. QED
  BY <1>1, <1>7

\* Lists one after the other have the elements of all.
LEMMA JoinedFacts ==
  ASSUME NEW S, NEW ss \in Seq(Seq(S))
  PROVE  /\ Joined(ss) \in Seq(S)
         /\ ToSet(Joined(ss)) = UNION {ToSet(ss[i]) : i \in DOMAIN ss}
<1> DEFINE V(n) == Joining!Value(n, ss)
           Of(n) == UNION {ToSet(ss[i]) : i \in 1 .. n}
           T == {n \in 0 .. Len(ss) : V(n) \in Seq(S) /\ ToSet(V(n)) = Of(n)}
<1>1. V(0) = <<>> /\ \A n \in Nat : V(n + 1) = V(n) \o ss[n + 1]
  BY JoiningNext, Zenon
<1> HIDE DEF V
<1>2. Len(ss) \in Nat /\ DOMAIN ss = 1 .. Len(ss) /\ \A i \in 1 .. Len(ss) : ss[i] \in Seq(S)
  BY LenProperties, ElementOfSeq
<1>3. 0 \in T
  <2>1. Of(0) = {}
    OBVIOUS
  <2>2. V(0) \in Seq(S)
    BY <1>1, ToSetEmpty
  <2>3. ToSet(V(0)) = {}
    BY <1>1, ToSetEmpty
  <2>4. QED
    BY <1>2, <2>1, <2>2, <2>3
<1>4. ASSUME NEW n \in Nat, n < Len(ss), n \in T
      PROVE  n + 1 \in T
  <2>1. V(n) \in Seq(S)
    BY <1>4
  <2>2. ss[n + 1] \in Seq(S)
    BY <1>2, <1>4
  <2>3. /\ V(n) \o ss[n + 1] \in Seq(S)
        /\ ToSet(V(n) \o ss[n + 1]) = ToSet(V(n)) \cup ToSet(ss[n + 1])
    BY <2>1, <2>2, ToSetConcat
  <2>4. V(n + 1) = V(n) \o ss[n + 1]
    BY <1>1, Zenon
  <2>5. V(n + 1) \in Seq(S) /\ ToSet(V(n + 1)) = ToSet(V(n)) \cup ToSet(ss[n + 1])
    BY <2>3, <2>4, Zenon
  <2>6. Of(n + 1) = Of(n) \cup ToSet(ss[n + 1])
    <3>1. 1 .. n + 1 = (1 .. n) \cup {n + 1}
      OBVIOUS
    <3>2. QED
      BY <3>1
  <2>7. ToSet(V(n)) = Of(n) /\ n + 1 \in 0 .. Len(ss)
    BY <1>2, <1>4
  <2>8. QED
    BY <2>5, <2>6, <2>7
<1>5. Len(ss) \in T
  <2> HIDE DEF T
  <2>1. \A n \in 0 .. Len(ss) : n \in T
    BY <1>2, <1>3, <1>4, Climb
  <2>2. QED
    BY <1>2, <2>1
<1>6. Joined(ss) = V(Len(ss))
  BY DEF Joined, V
<1>7. QED
  BY <1>2, <1>5, <1>6

\* What occurs in a list occurs in the list without repetitions.
LEMMA OnceFacts ==
  ASSUME NEW S, NEW s \in Seq(S)
  PROVE  /\ Once(s) \in Seq(S)
         /\ ToSet(Once(s)) = ToSet(s)
         /\ Len(Once(s)) <= Len(s)
<1> DEFINE V(n) == Uniting!Value(n, s)
           Of(n) == {s[i] : i \in 1 .. n}
           T == {n \in 0 .. Len(s) : V(n) \in Seq(S) /\ ToSet(V(n)) = Of(n) /\ Len(V(n)) <= n}
<1>1. /\ V(0) = <<>>
      /\ \A n \in Nat : V(n + 1) = IF s[n + 1] \in ToSet(V(n)) THEN V(n) ELSE Append(V(n), s[n + 1])
  BY UnitingNext
<1> HIDE DEF V
<1>2. Len(s) \in Nat /\ DOMAIN s = 1 .. Len(s) /\ \A i \in 1 .. Len(s) : s[i] \in S
  BY LenProperties, ElementOfSeq
<1>3. 0 \in T
  <2>1. Of(0) = {}
    OBVIOUS
  <2>2. V(0) \in Seq(S)
    BY <1>1, ToSetEmpty
  <2>3. ToSet(V(0)) = {} /\ Len(V(0)) = 0
    BY <1>1, ToSetEmpty
  <2>4. QED
    BY <1>2, <2>1, <2>2, <2>3
<1>4. ASSUME NEW n \in Nat, n < Len(s), n \in T
      PROVE  n + 1 \in T
  <2>1. V(n) \in Seq(S)
    BY <1>4
  <2>2. s[n + 1] \in S
    BY <1>2, <1>4
  <2>3. /\ ToSet(V(n)) = Of(n) /\ Len(V(n)) <= n /\ n + 1 \in 0 .. Len(s) /\ Len(V(n)) \in Nat
    BY <1>2, <1>4, <2>1, LenProperties
  <2>4. Of(n + 1) = Of(n) \cup {s[n + 1]}
    <3>1. 1 .. n + 1 = (1 .. n) \cup {n + 1}
      OBVIOUS
    <3>2. QED
      BY <3>1
  <2>5. CASE s[n + 1] \in ToSet(V(n))
    <3>1. V(n + 1) = V(n)
      BY <1>1, <2>5
    <3>2. Of(n + 1) = Of(n)
      BY <2>3, <2>4, <2>5
    <3>3. V(n + 1) \in Seq(S) /\ ToSet(V(n + 1)) = Of(n + 1)
      BY <2>1, <2>3, <3>1, <3>2
    <3>4. Len(V(n + 1)) <= n + 1
      BY <2>3, <3>1
    <3>5. QED
      BY <2>3, <3>3, <3>4
  <2>6. CASE s[n + 1] \notin ToSet(V(n))
    <3>1. V(n + 1) = Append(V(n), s[n + 1])
      BY <1>1, <2>6
    <3>2. /\ Append(V(n), s[n + 1]) \in Seq(S)
          /\ ToSet(Append(V(n), s[n + 1])) = ToSet(V(n)) \cup {s[n + 1]}
          /\ Len(Append(V(n), s[n + 1])) = Len(V(n)) + 1
      BY <2>1, <2>2, ToSetAppend
    <3>3. V(n + 1) \in Seq(S) /\ ToSet(V(n + 1)) = Of(n + 1)
      BY <2>3, <2>4, <3>1, <3>2
    <3>4. Len(V(n + 1)) <= n + 1
      BY <2>3, <3>1, <3>2
    <3>5. QED
      BY <2>3, <3>3, <3>4
  <2>7. QED
    BY <2>5, <2>6
<1>5. Len(s) \in T
  <2> HIDE DEF T
  <2>1. \A n \in 0 .. Len(s) : n \in T
    BY <1>2, <1>3, <1>4, Climb
  <2>2. QED
    BY <1>2, <2>1
<1>6. Once(s) = V(Len(s)) /\ Of(Len(s)) = ToSet(s)
  BY <1>2 DEF Once, V, ToSet
<1>7. QED
  BY <1>5, <1>6

-----------------------------------------------------------------------------
(***************************************************************************)
(* Expressions and what is below them                                      *)
(***************************************************************************)

LEMMA LevelNext ==
  ASSUME NEW e, NEW n \in Nat
  PROVE  /\ Level(e, 0) = {e}
         /\ Level(e, n + 1) = UNION {ToSet(Kids(x)) : x \in Level(e, n)}
BY DescendingNext DEF Level

\* A level below an expression is made of levels below its kids.
LEMMA LevelOfKids ==
  ASSUME NEW e, NEW N \in Nat
  PROVE  Level(e, N + 1) = UNION {Level(k, N) : k \in ToSet(Kids(e))}
<1> DEFINE T == {n \in 0 .. N : Level(e, n + 1) = UNION {Level(k, n) : k \in ToSet(Kids(e))}}
<1>1. 0 \in T
  <2>1. \A k : Level(k, 0) = {k}
    BY LevelNext
  <2>2. Level(e, 0 + 1) = UNION {ToSet(Kids(x)) : x \in Level(e, 0)}
    BY LevelNext
  <2>3. Level(e, 0 + 1) = ToSet(Kids(e))
    BY <2>1, <2>2
  <2>4. UNION {Level(k, 0) : k \in ToSet(Kids(e))} = ToSet(Kids(e))
    BY <2>1
  <2>5. QED
    BY <2>3, <2>4
<1>2. ASSUME NEW n \in Nat, n < N, n \in T
      PROVE  n + 1 \in T
  <2>1. Level(e, (n + 1) + 1) = UNION {ToSet(Kids(x)) : x \in Level(e, n + 1)}
    <3>1. n + 1 \in Nat
      OBVIOUS
    <3>2. QED
      BY <3>1, LevelNext
  <2>2. \A k : Level(k, n + 1) = UNION {ToSet(Kids(x)) : x \in Level(k, n)}
    BY LevelNext
  <2>3. Level(e, n + 1) = UNION {Level(k, n) : k \in ToSet(Kids(e))}
    BY <1>2
  <2>4. Level(e, (n + 1) + 1) = UNION {Level(k, n + 1) : k \in ToSet(Kids(e))}
    <3> DEFINE K == ToSet(Kids(e))
    <3>1. UNION {ToSet(Kids(x)) : x \in UNION {Level(k, n) : k \in K}}
            = UNION {UNION {ToSet(Kids(x)) : x \in Level(k, n)} : k \in K}
      OBVIOUS
    <3>2. UNION {UNION {ToSet(Kids(x)) : x \in Level(k, n)} : k \in K}
            = UNION {Level(k, n + 1) : k \in K}
      BY <2>2
    <3>3. QED
      BY <2>1, <2>3, <3>1, <3>2
  <2>5. n + 1 \in 0 .. N
    BY <1>2
  <2>6. QED
    BY <2>4, <2>5
<1>3. \A n \in 0 .. N : n \in T
  <2> HIDE DEF T
  <2>1. QED
    BY <1>1, <1>2, Climb
<1>4. QED
  BY <1>3

\* What is below a part is below the whole.
LEMMA LevelOfLevel ==
  ASSUME NEW e, NEW m \in Nat, NEW x \in Level(e, m), NEW N \in Nat
  PROVE  Level(x, N) \subseteq Level(e, m + N)
<1> DEFINE T == {n \in 0 .. N : Level(x, n) \subseteq Level(e, m + n)}
<1>1. 0 \in T
  <2>1. Level(x, 0) = {x} /\ m + 0 = m
    BY LevelNext
  <2>2. QED
    BY <2>1
<1>2. ASSUME NEW n \in Nat, n < N, n \in T
      PROVE  n + 1 \in T
  <2>1. m + n \in Nat /\ (m + n) + 1 = m + (n + 1) /\ n + 1 \in 0 .. N
    BY <1>2
  <2>2. /\ Level(x, n + 1) = UNION {ToSet(Kids(y)) : y \in Level(x, n)}
        /\ Level(e, (m + n) + 1) = UNION {ToSet(Kids(y)) : y \in Level(e, m + n)}
    BY <2>1, LevelNext
  <2>3. Level(x, n) \subseteq Level(e, m + n)
    BY <1>2
  <2>4. Level(x, n + 1) \subseteq Level(e, (m + n) + 1)
    BY <2>2, <2>3
  <2>5. QED
    BY <2>1, <2>4
<1>3. \A n \in 0 .. N : n \in T
  <2> HIDE DEF T
  <2>1. QED
    BY <1>1, <1>2, Climb
<1>4. QED
  BY <1>3

\* Below an empty level there is nothing.
LEMMA WithinMore ==
  ASSUME NEW e, NEW n \in Nat, Within(e, n), NEW m \in Nat, n <= m
  PROVE  Within(e, m)
<1> DEFINE N == m - n
           T == {k \in 0 .. N : Level(e, n + k) = {}}
<1>1. N \in Nat /\ n + N = m
  OBVIOUS
<1>2. 0 \in T
  <2>1. n + 0 = n
    OBVIOUS
  <2>2. QED
    BY <2>1, <1>1 DEF Within
<1>3. ASSUME NEW k \in Nat, k < N, k \in T
      PROVE  k + 1 \in T
  <2>1. n + k \in Nat /\ (n + k) + 1 = n + (k + 1) /\ k + 1 \in 0 .. N
    BY <1>1, <1>3
  <2>2. Level(e, (n + k) + 1) = UNION {ToSet(Kids(y)) : y \in Level(e, n + k)}
    BY <2>1, LevelNext
  <2>3. Level(e, n + k) = {}
    BY <1>3
  <2>4. Level(e, (n + k) + 1) = {}
    BY <2>2, <2>3
  <2>5. QED
    BY <2>1, <2>4
<1>4. \A k \in 0 .. N : k \in T
  <2> HIDE DEF T, N
  <2>1. QED
    BY <1>1, <1>2, <1>3, Climb
<1>5. QED
  BY <1>1, <1>4 DEF Within

\* The kids of an expression go less deep.
LEMMA WithinKids ==
  ASSUME NEW e, NEW n \in Nat
  PROVE  /\ ~ Within(e, 0)
         /\ Within(e, n + 1) <=> \A k \in ToSet(Kids(e)) : Within(k, n)
<1>1. ~ Within(e, 0)
  BY LevelNext DEF Within
<1>2. Level(e, n + 1) = UNION {Level(k, n) : k \in ToSet(Kids(e))}
  BY LevelOfKids
<1>3. QED
  BY <1>1, <1>2 DEF Within

LEMMA DepthNat == MaxDepth \in Nat /\ MaxDepth = 10
BY DEF MaxDepth

\* What is part of a part is part of the whole.
LEMMA PartsClosed ==
  ASSUME NEW e, Within(e, MaxDepth)
  PROVE  /\ e \in Parts(e)
         /\ \A x \in Parts(e) :
              /\ Within(x, MaxDepth)
              /\ Parts(x) \subseteq Parts(e)
              /\ \A i \in DOMAIN Kids(x) : Kids(x)[i] \in Parts(e)
<1>1. \A y, m : m \in 0 .. MaxDepth => Level(y, m) \subseteq Parts(y)
  BY DEF Parts
<1>2. e \in Parts(e)
  BY <1>1, LevelNext, DepthNat
<1>3. \A m \in Nat : Level(e, m) \subseteq Parts(e)
  <2>1. SUFFICES ASSUME NEW m \in Nat PROVE Level(e, m) \subseteq Parts(e)
    OBVIOUS
  <2>2. CASE m \in 0 .. MaxDepth
    BY <1>1, <2>2
  <2>3. CASE m \notin 0 .. MaxDepth
    <3>1. MaxDepth \in Nat /\ MaxDepth <= m
      BY <2>3, DepthNat
    <3>2. Within(e, m)
      BY <3>1, WithinMore
    <3>3. QED
      BY <3>2 DEF Within
  <2>4. QED
    BY <2>2, <2>3
<1>4. ASSUME NEW x \in Parts(e)
      PROVE  /\ Within(x, MaxDepth)
             /\ Parts(x) \subseteq Parts(e)
             /\ \A i \in DOMAIN Kids(x) : Kids(x)[i] \in Parts(e)
  <2>1. PICK m \in 0 .. MaxDepth : x \in Level(e, m)
    BY DEF Parts
  <2>2. m \in Nat /\ m <= MaxDepth
    BY <2>1, DepthNat
  <2>3. \A n \in Nat : Level(x, n) \subseteq Level(e, m + n) /\ m + n \in Nat
    BY <2>1, <2>2, LevelOfLevel
  <2>4. \A n \in Nat : Level(x, n) \subseteq Parts(e)
    BY <1>3, <2>3
  <2>5. Parts(x) \subseteq Parts(e)
    BY <2>4, DepthNat DEF Parts
  <2>6. Within(x, MaxDepth)
    <3>1. m + MaxDepth \in Nat /\ MaxDepth <= m + MaxDepth
      BY <2>2, DepthNat
    <3>2. Within(e, m + MaxDepth)
      BY <3>1, DepthNat, WithinMore
    <3>3. Level(x, MaxDepth) \subseteq Level(e, m + MaxDepth)
      BY <2>3, DepthNat
    <3>4. QED
      BY <3>2, <3>3 DEF Within
  <2>7. \A i \in DOMAIN Kids(x) : Kids(x)[i] \in Parts(e)
    <3>1. Level(e, m + 1) = UNION {ToSet(Kids(y)) : y \in Level(e, m)}
      BY <2>2, LevelNext
    <3>2. m + 1 \in Nat
      BY <2>2
    <3>3. \A i \in DOMAIN Kids(x) : Kids(x)[i] \in Level(e, m + 1)
      BY <2>1, <3>1 DEF ToSet
    <3>4. QED
      BY <1>3, <3>2, <3>3
  <2>8. QED
    BY <2>5, <2>6, <2>7
<1>5. QED
  BY <1>2, <1>4

\* The least depth an expression is within.
Height(x) ==
  CHOOSE n \in 0 .. MaxDepth :
    Within(x, n) /\ \A m \in 0 .. MaxDepth : Within(x, m) => n <= m

LEMMA HeightFacts ==
  ASSUME NEW x, Within(x, MaxDepth)
  PROVE  /\ Height(x) \in 0 .. MaxDepth /\ Within(x, Height(x))
         /\ \A m \in 0 .. MaxDepth : Within(x, m) => Height(x) <= m
<1> DEFINE T == {n \in 0 .. MaxDepth : Within(x, n)}
<1>1. T \subseteq Nat /\ T # {}
  BY DepthNat
<1>2. PICK n \in T : \A m \in T : n <= m
  BY <1>1, Choosing!LeastOne, Zenon
<1>3. \E k \in 0 .. MaxDepth :
        Within(x, k) /\ \A m \in 0 .. MaxDepth : Within(x, m) => k <= m
  BY <1>2
<1>4. QED
  BY <1>3, Zenon DEF Height

\* Every kid is lower than its expression.
LEMMA Graded ==
  ASSUME NEW e, Within(e, MaxDepth)
  PROVE  LET height == [x \in Parts(e) |-> Height(x)]
         IN  /\ e \in Parts(e)
             /\ \A x \in Parts(e) : height[x] \in Nat /\ height[x] < MaxDepth + 1
             /\ \A x \in Parts(e) : \A i \in DOMAIN Kids(x) :
                  /\ Kids(x)[i] \in Parts(e)
                  /\ height[Kids(x)[i]] < height[x]
             /\ \A x \in Parts(e) :
                  /\ x \in Parts(x)
                  /\ Parts(x) \subseteq Parts(e)
                  /\ \A y \in Parts(x) : \A i \in DOMAIN Kids(y) : Kids(y)[i] \in Parts(x)
<1> DEFINE height == [x \in Parts(e) |-> Height(x)]
<1>1. /\ e \in Parts(e)
      /\ \A x \in Parts(e) :
           /\ Within(x, MaxDepth)
           /\ Parts(x) \subseteq Parts(e)
           /\ \A i \in DOMAIN Kids(x) : Kids(x)[i] \in Parts(e)
  BY PartsClosed
<1>2. \A x \in Parts(e) : height[x] \in Nat /\ height[x] < MaxDepth + 1
  BY <1>1, HeightFacts, DepthNat
<1>3. ASSUME NEW x \in Parts(e), NEW i \in DOMAIN Kids(x)
      PROVE  height[Kids(x)[i]] < height[x]
  <2> DEFINE k == Kids(x)[i]
  <2>1. k \in Parts(e) /\ k \in ToSet(Kids(x))
    BY <1>1 DEF ToSet
  <2> HIDE DEF k
  <2>2. Within(x, MaxDepth) /\ Within(k, MaxDepth)
    BY <1>1, <2>1
  <2>3. /\ Height(x) \in 0 .. MaxDepth /\ Within(x, Height(x))
    BY <2>2, HeightFacts
  <2>4. Height(x) # 0
    BY <2>3, WithinKids
  <2>5. Height(x) - 1 \in Nat /\ (Height(x) - 1) + 1 = Height(x)
        /\ Height(x) - 1 \in 0 .. MaxDepth
    BY <2>3, <2>4, DepthNat
  <2>6. Within(k, Height(x) - 1)
    BY <2>1, <2>3, <2>5, WithinKids
  <2>7. Height(k) \in 0 .. MaxDepth /\ \A m \in 0 .. MaxDepth : Within(k, m) => Height(k) <= m
    BY <2>2, HeightFacts
  <2>8. Height(k) <= Height(x) - 1
    BY <2>5, <2>6, <2>7
  <2>9. Height(k) < Height(x)
    BY <2>3, <2>7, <2>8, DepthNat
  <2>10. QED
    BY <2>1, <2>9 DEF k
<1>4. \A x \in Parts(e) :
        /\ x \in Parts(x)
        /\ Parts(x) \subseteq Parts(e)
        /\ \A y \in Parts(x) : \A i \in DOMAIN Kids(y) : Kids(y)[i] \in Parts(x)
  BY <1>1, PartsClosed
<1>5. \A x \in Parts(e) : \A i \in DOMAIN Kids(x) :
        Kids(x)[i] \in Parts(e) /\ height[Kids(x)[i]] < height[x]
  BY <1>1, <1>3
<1> HIDE DEF height
<1>6. QED
  BY <1>1, <1>2, <1>4, <1>5 DEF height

\* What holds of an expression whenever it holds of its kids holds of every
\* part.
LEMMA ByParts ==
  ASSUME NEW e, Within(e, MaxDepth), NEW T,
         \A x \in Parts(e) : (\A i \in DOMAIN Kids(x) : Kids(x)[i] \in T) => x \in T
  PROVE  Parts(e) \subseteq T
<1> DEFINE height == [x \in Parts(e) |-> Height(x)]
           Bad == {n \in Nat : \E x \in Parts(e) : x \notin T /\ height[x] = n}
<1>1. /\ \A x \in Parts(e) : height[x] \in Nat
      /\ \A x \in Parts(e) : \A i \in DOMAIN Kids(x) :
           /\ Kids(x)[i] \in Parts(e)
           /\ height[Kids(x)[i]] < height[x]
  BY Graded
<1> HIDE DEF height
<1>2. SUFFICES ASSUME NEW y \in Parts(e), y \notin T PROVE FALSE
  OBVIOUS
<1>3. Bad \subseteq Nat /\ Bad # {}
  BY <1>1, <1>2
<1>4. PICK n \in Bad : \A m \in Bad : n <= m
  BY <1>3, Choosing!LeastOne, Zenon
<1>5. PICK x \in Parts(e) : x \notin T /\ height[x] = n
  BY <1>4
<1>6. \A i \in DOMAIN Kids(x) : Kids(x)[i] \in T
  <2>1. SUFFICES ASSUME NEW i \in DOMAIN Kids(x), Kids(x)[i] \notin T PROVE FALSE
    OBVIOUS
  <2>2. Kids(x)[i] \in Parts(e) /\ height[Kids(x)[i]] < n /\ height[Kids(x)[i]] \in Nat
    BY <1>1, <1>5
  <2>3. height[Kids(x)[i]] \in Bad
    BY <2>1, <2>2
  <2>4. n \in Nat /\ n <= height[Kids(x)[i]]
    BY <1>4, <2>3
  <2>5. QED
    BY <2>2, <2>4
<1>7. QED
  BY <1>5, <1>6

\* The count of predicates, by kids.
LEMMA CountingUnfolds ==
  ASSUME NEW e, NEW c, Within(e, MaxDepth)
  PROVE  Counting!Value(e, c)
           = PredicateCountAt([i \in DOMAIN Kids(e) |-> Counting!Value(Kids(e)[i], c)], e, c)
<1> DEFINE height == [x \in Parts(e) |-> Height(x)]
           n == MaxDepth + 1
<1>1. /\ e \in Parts(e)
      /\ \A x \in Parts(e) : height[x] \in Nat /\ height[x] < n
      /\ \A x \in Parts(e) : \A i \in DOMAIN Kids(x) :
           /\ Kids(x)[i] \in Parts(e)
           /\ height[Kids(x)[i]] < height[x]
      /\ \A x \in Parts(e) :
           /\ x \in Parts(x)
           /\ Parts(x) \subseteq Parts(e)
           /\ \A y \in Parts(x) : \A i \in DOMAIN Kids(y) : Kids(y)[i] \in Parts(x)
  BY Graded, Zenon
<1>2. n \in Nat
  BY DepthNat
<1> HIDE DEF height, n
<1>3. QED
  BY <1>1, <1>2, Counting!Unfolds

\* expression_matches, by kids.
LEMMA MatchingUnfolds ==
  ASSUME NEW e, NEW c, Within(e, MaxDepth)
  PROVE  Matching!Value(e, c)
           = MatchesAt([i \in DOMAIN Kids(e) |-> Matching!Value(Kids(e)[i], c)], e, c)
<1> DEFINE height == [x \in Parts(e) |-> Height(x)]
           n == MaxDepth + 1
<1>1. /\ e \in Parts(e)
      /\ \A x \in Parts(e) : height[x] \in Nat /\ height[x] < n
      /\ \A x \in Parts(e) : \A i \in DOMAIN Kids(x) :
           /\ Kids(x)[i] \in Parts(e)
           /\ height[Kids(x)[i]] < height[x]
      /\ \A x \in Parts(e) :
           /\ x \in Parts(x)
           /\ Parts(x) \subseteq Parts(e)
           /\ \A y \in Parts(x) : \A i \in DOMAIN Kids(y) : Kids(y)[i] \in Parts(x)
  BY Graded, Zenon
<1>2. n \in Nat
  BY DepthNat
<1> HIDE DEF height, n
<1>3. QED
  BY <1>1, <1>2, Matching!Unfolds

\* preference_score, by kids.
LEMMA ScoringUnfolds ==
  ASSUME NEW e, NEW c, Within(e, MaxDepth)
  PROVE  Scoring!Value(e, c)
           = PreferenceScoreAt([i \in DOMAIN Kids(e) |-> Scoring!Value(Kids(e)[i], c)], e, c)
<1> DEFINE height == [x \in Parts(e) |-> Height(x)]
           n == MaxDepth + 1
<1>1. /\ e \in Parts(e)
      /\ \A x \in Parts(e) : height[x] \in Nat /\ height[x] < n
      /\ \A x \in Parts(e) : \A i \in DOMAIN Kids(x) :
           /\ Kids(x)[i] \in Parts(e)
           /\ height[Kids(x)[i]] < height[x]
      /\ \A x \in Parts(e) :
           /\ x \in Parts(x)
           /\ Parts(x) \subseteq Parts(e)
           /\ \A y \in Parts(x) : \A i \in DOMAIN Kids(y) : Kids(y)[i] \in Parts(x)
  BY Graded, Zenon
<1>2. n \in Nat
  BY DepthNat
<1> HIDE DEF height, n
<1>3. QED
  BY <1>1, <1>2, Scoring!Unfolds

\* _semantic_condition, by kids.
LEMMA AskingUnfolds ==
  ASSUME NEW e, NEW c, Within(e, MaxDepth)
  PROVE  Asking!Value(e, c)
           = ConditionAt([i \in DOMAIN Kids(e) |-> Asking!Value(Kids(e)[i], c)], e, c)
<1> DEFINE height == [x \in Parts(e) |-> Height(x)]
           n == MaxDepth + 1
<1>1. /\ e \in Parts(e)
      /\ \A x \in Parts(e) : height[x] \in Nat /\ height[x] < n
      /\ \A x \in Parts(e) : \A i \in DOMAIN Kids(x) :
           /\ Kids(x)[i] \in Parts(e)
           /\ height[Kids(x)[i]] < height[x]
      /\ \A x \in Parts(e) :
           /\ x \in Parts(x)
           /\ Parts(x) \subseteq Parts(e)
           /\ \A y \in Parts(x) : \A i \in DOMAIN Kids(y) : Kids(y)[i] \in Parts(x)
  BY Graded, Zenon
<1>2. n \in Nat
  BY DepthNat
<1> HIDE DEF height, n
<1>3. QED
  BY <1>1, <1>2, Asking!Unfolds

\* _fallback_branches, by kids.
LEMMA BranchingUnfolds ==
  ASSUME NEW e, NEW c, Within(e, MaxDepth)
  PROVE  Branching!Value(e, c)
           = BranchesAt([i \in DOMAIN Kids(e) |-> Branching!Value(Kids(e)[i], c)], e, c)
<1> DEFINE height == [x \in Parts(e) |-> Height(x)]
           n == MaxDepth + 1
<1>1. /\ e \in Parts(e)
      /\ \A x \in Parts(e) : height[x] \in Nat /\ height[x] < n
      /\ \A x \in Parts(e) : \A i \in DOMAIN Kids(x) :
           /\ Kids(x)[i] \in Parts(e)
           /\ height[Kids(x)[i]] < height[x]
      /\ \A x \in Parts(e) :
           /\ x \in Parts(x)
           /\ Parts(x) \subseteq Parts(e)
           /\ \A y \in Parts(x) : \A i \in DOMAIN Kids(y) : Kids(y)[i] \in Parts(x)
  BY Graded, Zenon
<1>2. n \in Nat
  BY DepthNat
<1> HIDE DEF height, n
<1>3. QED
  BY <1>1, <1>2, Branching!Unfolds

\* The conjuncts, by kids.
LEMMA CopyingUnfolds ==
  ASSUME NEW e, NEW c, Within(e, MaxDepth)
  PROVE  Copying!Value(e, c)
           = ConjunctsAt([i \in DOMAIN Kids(e) |-> Copying!Value(Kids(e)[i], c)], e, c)
<1> DEFINE height == [x \in Parts(e) |-> Height(x)]
           n == MaxDepth + 1
<1>1. /\ e \in Parts(e)
      /\ \A x \in Parts(e) : height[x] \in Nat /\ height[x] < n
      /\ \A x \in Parts(e) : \A i \in DOMAIN Kids(x) :
           /\ Kids(x)[i] \in Parts(e)
           /\ height[Kids(x)[i]] < height[x]
      /\ \A x \in Parts(e) :
           /\ x \in Parts(x)
           /\ Parts(x) \subseteq Parts(e)
           /\ \A y \in Parts(x) : \A i \in DOMAIN Kids(y) : Kids(y)[i] \in Parts(x)
  BY Graded, Zenon
<1>2. n \in Nat
  BY DepthNat
<1> HIDE DEF height, n
<1>3. QED
  BY <1>1, <1>2, Copying!Unfolds

\* The pruned selection, by kids.
LEMMA PruningUnfolds ==
  ASSUME NEW e, NEW c, Within(e, MaxDepth)
  PROVE  Pruning!Value(e, c)
           = PrunedAt([i \in DOMAIN Kids(e) |-> Pruning!Value(Kids(e)[i], c)], e, c)
<1> DEFINE height == [x \in Parts(e) |-> Height(x)]
           n == MaxDepth + 1
<1>1. /\ e \in Parts(e)
      /\ \A x \in Parts(e) : height[x] \in Nat /\ height[x] < n
      /\ \A x \in Parts(e) : \A i \in DOMAIN Kids(x) :
           /\ Kids(x)[i] \in Parts(e)
           /\ height[Kids(x)[i]] < height[x]
      /\ \A x \in Parts(e) :
           /\ x \in Parts(x)
           /\ Parts(x) \subseteq Parts(e)
           /\ \A y \in Parts(x) : \A i \in DOMAIN Kids(y) : Kids(y)[i] \in Parts(x)
  BY Graded, Zenon
<1>2. n \in Nat
  BY DepthNat
<1> HIDE DEF height, n
<1>3. QED
  BY <1>1, <1>2, Pruning!Unfolds

\* An expression of the shape the code accepts, of at most n levels.
Tree(e, n) == n \in 1 .. MaxDepth /\ Within(e, n) /\ WellShaped(e)

LEMMA PartsOf ==
  ASSUME NEW e, Within(e, MaxDepth)
  PROVE  Parts(e) = {e} \cup UNION {Parts(k) : k \in ToSet(Kids(e))}
<1>1. Parts(e) \subseteq {e} \cup UNION {Parts(k) : k \in ToSet(Kids(e))}
  <2>1. SUFFICES ASSUME NEW x \in Parts(e), x # e
                 PROVE  \E k \in ToSet(Kids(e)) : x \in Parts(k)
    BY Zenon
  <2>2. PICK m \in 0 .. MaxDepth : x \in Level(e, m)
    BY DEF Parts
  <2>3. m # 0
    BY <2>1, <2>2, LevelNext
  <2>4. m - 1 \in Nat /\ (m - 1) + 1 = m /\ m - 1 \in 0 .. MaxDepth
    BY <2>3, DepthNat
  <2>5. Level(e, m) = UNION {Level(k, m - 1) : k \in ToSet(Kids(e))}
    BY <2>4, LevelOfKids
  <2>6. PICK k \in ToSet(Kids(e)) : x \in Level(k, m - 1)
    BY <2>2, <2>5
  <2>7. QED
    BY <2>4, <2>6 DEF Parts
<1>2. e \in Parts(e) /\ \A k \in ToSet(Kids(e)) : k \in Parts(e)
  BY PartsClosed DEF ToSet
<1>3. \A k \in ToSet(Kids(e)) : Parts(k) \subseteq Parts(e)
  BY <1>2, PartsClosed
<1>4. QED
  BY <1>1, <1>2, <1>3

LEMMA TreeMore ==
  ASSUME NEW e, NEW n, Tree(e, n), NEW m \in 1 .. MaxDepth, n <= m
  PROVE  Tree(e, m)
<1>1. n \in Nat /\ m \in Nat
  BY DEF Tree
<1>2. QED
  BY <1>1, WithinMore DEF Tree

LEMMA TreeFits ==
  ASSUME NEW e, NEW n, Tree(e, n)
  PROVE  Within(e, MaxDepth)
<1>1. n \in Nat /\ MaxDepth \in Nat /\ n <= MaxDepth
  BY DepthNat DEF Tree
<1>2. QED
  BY <1>1, WithinMore DEF Tree

LEMMA TreeBelow ==
  ASSUME NEW e, NEW n, Tree(e, n)
  PROVE  /\ Within(e, MaxDepth) /\ Shaped(e)
         /\ \A k \in ToSet(Kids(e)) : n - 1 \in 1 .. MaxDepth /\ Tree(k, n - 1)
<1>1. Within(e, MaxDepth) /\ n \in 1 .. MaxDepth
  BY TreeFits DEF Tree
<1>2. Shaped(e)
  BY <1>1, PartsClosed DEF Tree, WellShaped
<1>3. ASSUME NEW k \in ToSet(Kids(e))
      PROVE  n - 1 \in 1 .. MaxDepth /\ Tree(k, n - 1)
  <2>1. n - 1 \in Nat /\ (n - 1) + 1 = n /\ n - 1 <= MaxDepth
    BY <1>1, DepthNat
  <2>2. Within(k, n - 1)
    BY <2>1, WithinKids DEF Tree
  <2>3. n - 1 # 0
    BY <2>2, WithinKids
  <2>4. Parts(k) \subseteq Parts(e)
    BY <1>1, PartsOf
  <2>5. n - 1 \in 1 .. MaxDepth
    BY <2>1, <2>3
  <2>6. QED
    BY <2>2, <2>4, <2>5 DEF Tree, WellShaped
<1>4. QED
  BY <1>1, <1>2, <1>3

LEMMA TreeBuilt ==
  ASSUME NEW e, NEW n \in 1 .. MaxDepth, Shaped(e),
         \A k \in ToSet(Kids(e)) : Tree(k, n - 1)
  PROVE  Tree(e, n)
<1>1. n - 1 \in Nat /\ (n - 1) + 1 = n
  BY DepthNat
<1>2. Within(e, n)
  BY <1>1, WithinKids DEF Tree
<1>3. Within(e, MaxDepth)
  <2>1. n \in Nat /\ MaxDepth \in Nat /\ n <= MaxDepth
    BY DepthNat
  <2>2. QED
    BY <1>2, <2>1, WithinMore
<1>4. WellShaped(e)
  BY <1>3, PartsOf DEF WellShaped, Tree
<1>5. QED
  BY <1>2, <1>4 DEF Tree

LEMMA NodeKids ==
  ASSUME NEW kind, NEW kids
  PROVE  Node(kind, kids).kind = kind /\ Kids(Node(kind, kids)) = kids
BY DEF Node, Kids

LEMMA LeafKids ==
  ASSUME NEW p
  PROVE  Leaf(p).kind = "predicate" /\ Leaf(p).pred = p /\ Kids(Leaf(p)) = <<>>
BY DEF Leaf, Kids

LEMMA NoKids == NoExpr.kind = "none" /\ Kids(NoExpr) = <<>>
BY DEF NoExpr, Kids

LEMMA LeafTree ==
  ASSUME NEW p, IsPredicate(p)
  PROVE  Tree(Leaf(p), 1)
<1>1. Shaped(Leaf(p)) /\ ToSet(Kids(Leaf(p))) = {}
  BY LeafKids, ToSetEmpty DEF Shaped
<1>2. 1 \in 1 .. MaxDepth
  BY DepthNat
<1>3. QED
  BY <1>1, <1>2, TreeBuilt

\* How many kids a kind of node has.
Fits(kind, kids) ==
  \/ kind \in {"all_of", "any_of"} /\ kids # <<>>
  \/ kind \in {"not", "prefer"} /\ Len(kids) = 1
  \/ kind = "fallback" /\ Len(kids) = 2

LEMMA NodeTree ==
  ASSUME NEW kind, NEW S, NEW kids \in Seq(S), Fits(kind, kids),
         NEW n \in 1 .. MaxDepth, n < MaxDepth,
         \A k \in ToSet(kids) : Tree(k, n)
  PROVE  Tree(Node(kind, kids), n + 1)
<1>1. kids \in Seq(ToSet(kids))
  BY ToSetMember
<1>2. Shaped(Node(kind, kids))
  BY <1>1, NodeKids DEF Shaped, Fits
<1>3. n + 1 \in 1 .. MaxDepth /\ (n + 1) - 1 = n
  BY DepthNat
<1>4. \A k \in ToSet(Kids(Node(kind, kids))) : Tree(k, (n + 1) - 1)
  BY <1>3, NodeKids
<1>5. QED
  BY <1>2, <1>3, <1>4, TreeBuilt

\* An inner node has the kids its kind asks for, and a leaf has none.
LEMMA TreeKinds ==
  ASSUME NEW e, NEW n, Tree(e, n)
  PROVE  /\ Kids(e) \in Seq(ToSet(Kids(e)))
         /\ Kids(e) # <<>> => Fits(e.kind, Kids(e))
         /\ Kids(e) = <<>> => e.kind \in {"predicate", "entity_ref"}
         /\ e.kind \in {"predicate", "entity_ref"} => Kids(e) = <<>>
         /\ e.kind = "predicate" => IsPredicate(e.pred)
         /\ e.kind \in {"all_of", "any_of", "not", "prefer", "fallback", "predicate", "entity_ref"}
<1>1. Shaped(e)
  BY TreeBelow
<1>2. Len(<<>>) = 0
  BY EmptySeq
<1>3. QED
  BY <1>1, <1>2 DEF Shaped, Fits

\* What is said by the parts of an expression is said by it or by its kids.
LEMMA PartsSay ==
  ASSUME NEW e, Within(e, MaxDepth)
  PROVE  /\ PredicatesOf(e) = (IF e.kind = "predicate" THEN {e.pred} ELSE {})
                                \cup UNION {PredicatesOf(k) : k \in ToSet(Kids(e))}
         /\ EntityRefs(e) = (IF e.kind = "entity_ref" THEN {e.entity} ELSE {})
                              \cup UNION {EntityRefs(k) : k \in ToSet(Kids(e))}
<1> DEFINE K == ToSet(Kids(e))
<1>1. Parts(e) = {e} \cup UNION {Parts(k) : k \in K}
  BY PartsOf
<1> HIDE DEF K
<1>2. PredicatesOf(e) = (IF e.kind = "predicate" THEN {e.pred} ELSE {})
                          \cup UNION {PredicatesOf(k) : k \in K}
  BY <1>1 DEF PredicatesOf
<1>3. EntityRefs(e) = (IF e.kind = "entity_ref" THEN {e.entity} ELSE {})
                        \cup UNION {EntityRefs(k) : k \in K}
  BY <1>1 DEF EntityRefs
<1>4. QED
  BY <1>2, <1>3 DEF K

LEMMA NothingSaid ==
  /\ Within(NoExpr, MaxDepth) /\ Parts(NoExpr) = {NoExpr}
  /\ PredicatesOf(NoExpr) = {} /\ EntityRefs(NoExpr) = {}
<1>1. ToSet(Kids(NoExpr)) = {}
  BY NoKids, ToSetEmpty
<1>2. Within(NoExpr, 0 + 1)
  BY <1>1, WithinKids
<1>3. Within(NoExpr, MaxDepth)
  BY <1>2, WithinMore, DepthNat
<1>4. Parts(NoExpr) = {NoExpr}
  BY <1>1, <1>3, PartsOf
<1>5. QED
  BY <1>3, <1>4, NoKids DEF PredicatesOf, EntityRefs

LEMMA PredicatesTyped ==
  ASSUME NEW e, NEW n, Tree(e, n)
  PROVE  \A p \in PredicatesOf(e) : IsPredicate(p)
BY DEF Tree, WellShaped, Shaped, PredicatesOf

\* A list of lists put together is as long as any of them, and as the list
\* of those that are not empty.
LEMMA JoinedLength ==
  ASSUME NEW S, NEW ss \in Seq(Seq(S))
  PROVE  /\ \A i \in DOMAIN ss : Len(ss[i]) <= Len(Joined(ss))
         /\ (\A i \in DOMAIN ss : ss[i] # <<>>) => Len(ss) <= Len(Joined(ss))
<1> DEFINE V(n) == Joining!Value(n, ss)
           Long(n) == /\ \A i \in 1 .. n : Len(ss[i]) <= Len(V(n))
                      /\ (\A i \in DOMAIN ss : ss[i] # <<>>) => n <= Len(V(n))
           T == {n \in 0 .. Len(ss) : V(n) \in Seq(S) /\ Long(n)}
<1>1. V(0) = <<>> /\ \A n \in Nat : V(n + 1) = V(n) \o ss[n + 1]
  BY JoiningNext, Zenon
<1> HIDE DEF V
<1>2. Len(ss) \in Nat /\ DOMAIN ss = 1 .. Len(ss) /\ \A i \in 1 .. Len(ss) : ss[i] \in Seq(S)
  BY LenProperties, ElementOfSeq
<1>3. 0 \in T
  <2>1. V(0) \in Seq(S)
    BY <1>1, ToSetEmpty
  <2>2. Len(V(0)) = 0
    BY <1>1, ToSetEmpty
  <2>3. QED
    BY <1>2, <2>1, <2>2
<1>4. ASSUME NEW n \in Nat, n < Len(ss), n \in T
      PROVE  n + 1 \in T
  <2>1. V(n) \in Seq(S) /\ Len(V(n)) \in Nat /\ Long(n)
    BY <1>4, LenProperties
  <2>2. n + 1 \in DOMAIN ss /\ ss[n + 1] \in Seq(S) /\ Len(ss[n + 1]) \in Nat
    BY <1>2, <1>4, LenProperties
  <2>3. /\ V(n) \o ss[n + 1] \in Seq(S)
        /\ Len(V(n) \o ss[n + 1]) = Len(V(n)) + Len(ss[n + 1])
    BY <2>1, <2>2, ToSetConcat
  <2>4. V(n + 1) = V(n) \o ss[n + 1]
    BY <1>1, Zenon
  <2>5. V(n + 1) \in Seq(S) /\ Len(V(n + 1)) = Len(V(n)) + Len(ss[n + 1])
    BY <2>3, <2>4, Zenon
  <2>6. \A i \in 1 .. n + 1 : Len(ss[i]) <= Len(V(n + 1))
    <3>1. SUFFICES ASSUME NEW i \in 1 .. n + 1 PROVE Len(ss[i]) <= Len(V(n + 1))
      OBVIOUS
    <3>2. CASE i = n + 1
      BY <2>1, <2>2, <2>5, <3>2
    <3>3. CASE i # n + 1
      <4>1. i \in 1 .. n /\ Len(ss[i]) \in Nat
        BY <1>2, <1>4, <3>3, LenProperties
      <4>2. Len(ss[i]) <= Len(V(n))
        BY <2>1, <4>1
      <4>3. QED
        BY <2>1, <2>2, <2>5, <4>1, <4>2
    <3>4. QED
      BY <3>2, <3>3
  <2>7. ASSUME \A i \in DOMAIN ss : ss[i] # <<>>
        PROVE  n + 1 <= Len(V(n + 1))
    <3>1. Len(ss[n + 1]) # 0
      BY <2>2, <2>7, EmptySeq
    <3>2. n <= Len(V(n))
      BY <2>1, <2>7
    <3>3. QED
      BY <2>1, <2>2, <2>5, <3>1, <3>2
  <2>8. n + 1 \in 0 .. Len(ss)
    BY <1>2, <1>4
  <2>9. QED
    BY <2>5, <2>6, <2>7, <2>8
<1>5. Len(ss) \in T
  <2> HIDE DEF T
  <2>1. \A n \in 0 .. Len(ss) : n \in T
    BY <1>2, <1>3, <1>4, Climb
  <2>2. QED
    BY <1>2, <2>1
<1>6. Joined(ss) = V(Len(ss))
  BY DEF Joined, V
<1>7. QED
  BY <1>2, <1>5, <1>6

\* A way to pick takes one element of each list, and every such way is there.
LEMMA PicksFacts ==
  ASSUME NEW S, NEW ss \in Seq(Seq(S)), \A i \in DOMAIN ss : ss[i] # <<>>
  PROVE  /\ Picks(ss) \in Seq(Seq(S)) /\ Picks(ss) # <<>>
         /\ \A p \in ToSet(Picks(ss)) :
              /\ p \in Seq(S) /\ Len(p) = Len(ss)
              /\ \A i \in DOMAIN ss : p[i] \in ToSet(ss[i])
         /\ \A p \in Seq(S) :
              Len(p) = Len(ss) /\ (\A i \in DOMAIN ss : p[i] \in ToSet(ss[i]))
                => p \in ToSet(Picks(ss))
         /\ \A i \in DOMAIN ss : Len(ss[i]) <= Len(Picks(ss))
<1> DEFINE V(n) == Picking!Value(n, ss)
           Ways(n) == {p \in Seq(S) : Len(p) = n /\ \A i \in 1 .. n : p[i] \in ToSet(ss[i])}
           Holds(n) == /\ V(n) \in Seq(Seq(S)) /\ V(n) # <<>> /\ ToSet(V(n)) = Ways(n)
                       /\ \A i \in 1 .. n : Len(ss[i]) <= Len(V(n))
           T == {n \in 0 .. Len(ss) : Holds(n)}
           Rows(n) == [j \in DOMAIN V(n) |-> [i \in DOMAIN ss[n + 1] |-> Append(V(n)[j], ss[n + 1][i])]]
<1>1. V(0) = << <<>> >> /\ \A n \in Nat : V(n + 1) = Joined(Rows(n))
  BY PickingNext
<1> HIDE DEF V, Rows
<1>2. Len(ss) \in Nat /\ DOMAIN ss = 1 .. Len(ss) /\ \A i \in 1 .. Len(ss) : ss[i] \in Seq(S)
  BY LenProperties, ElementOfSeq
<1>3. 0 \in T
  <2>1. V(0) \in Seq(Seq(S)) /\ V(0) # <<>> /\ ToSet(V(0)) = {<<>>}
    <3>1. V(0) = Append(<<>>, <<>>)
      BY <1>1
    <3>2. <<>> \in Seq(S)
      BY ToSetEmpty
    <3>3. <<>> \in Seq(Seq(S))
      BY ToSetEmpty
    <3>4. ToSet(<<>>) = {} /\ Len(<<>>) = 0
      BY ToSetEmpty
    <3> DEFINE Q == Seq(S)
    <3>5. \A x \in Q : /\ Append(<<>>, x) \in Seq(Q)
                       /\ ToSet(Append(<<>>, x)) = {x} /\ Len(Append(<<>>, x)) = 1
      <4> HIDE DEF Q
      <4>1. <<>> \in Seq(Q)
        BY <3>3 DEF Q
      <4>2. SUFFICES ASSUME NEW x \in Q
                     PROVE  /\ Append(<<>>, x) \in Seq(Q)
                            /\ ToSet(Append(<<>>, x)) = {x} /\ Len(Append(<<>>, x)) = 1
        BY Zenon
      <4>3. /\ Append(<<>>, x) \in Seq(Q)
            /\ ToSet(Append(<<>>, x)) = ToSet(<<>>) \cup {x}
            /\ Len(Append(<<>>, x)) = Len(<<>>) + 1
        BY <4>1, ToSetAppend
      <4>4. QED
        BY <3>4, <4>3
    <3>6. /\ V(0) \in Seq(Q) /\ ToSet(V(0)) = {<<>>} /\ Len(V(0)) = 1
      BY <3>1, <3>2, <3>5, Zenon
    <3>7. QED
      BY <3>4, <3>6
  <2>2. Ways(0) = {<<>>}
    <3>1. \A p \in Seq(S) : Len(p) = 0 <=> p = <<>>
      BY EmptySeq
    <3>2. <<>> \in Seq(S) /\ 1 .. 0 = {}
      BY EmptySeq
    <3>3. QED
      BY <3>1, <3>2
  <2>3. QED
    BY <1>2, <2>1, <2>2
<1>4. ASSUME NEW n \in Nat, n < Len(ss), n \in T
      PROVE  n + 1 \in T
  <2> DEFINE s == ss[n + 1]
             v == V(n)
  <2>1. /\ v \in Seq(Seq(S)) /\ v # <<>> /\ ToSet(v) = Ways(n)
        /\ \A i \in 1 .. n : Len(ss[i]) <= Len(v)
    BY <1>4
  <2>2. s \in Seq(S) /\ s # <<>> /\ n + 1 \in DOMAIN ss /\ n + 1 \in 0 .. Len(ss)
    BY <1>2, <1>4
  <2>3. /\ DOMAIN v = 1 .. Len(v) /\ Len(v) \in Nat /\ Len(v) # 0 /\ \A j \in DOMAIN v : v[j] \in Seq(S)
        /\ DOMAIN s = 1 .. Len(s) /\ Len(s) \in Nat /\ Len(s) # 0 /\ \A i \in DOMAIN s : s[i] \in S
    BY <2>1, <2>2, LenProperties, ElementOfSeq, EmptySeq
  <2>4. Rows(n) = [j \in 1 .. Len(v) |-> [i \in 1 .. Len(s) |-> Append(v[j], s[i])]]
    BY <2>3 DEF Rows
  <2> HIDE DEF v, s
  <2> DEFINE r == [j \in 1 .. Len(v) |-> [i \in 1 .. Len(s) |-> Append(v[j], s[i])]]
  <2>5. \A j \in 1 .. Len(v), i \in 1 .. Len(s) : Append(v[j], s[i]) \in Seq(S)
    BY <2>3, AppendProperties
  <2>6. /\ r \in Seq(Seq(Seq(S))) /\ Len(r) = Len(v) /\ DOMAIN r = 1 .. Len(v)
        /\ \A j \in DOMAIN r : /\ r[j] \in Seq(Seq(S)) /\ Len(r[j]) = Len(s) /\ r[j] # <<>>
                               /\ ToSet(r[j]) = {Append(v[j], s[i]) : i \in 1 .. Len(s)}
    <3>1. ASSUME NEW j \in 1 .. Len(v)
          PROVE  /\ r[j] \in Seq(Seq(S)) /\ Len(r[j]) = Len(s) /\ r[j] # <<>>
                 /\ ToSet(r[j]) = {Append(v[j], s[i]) : i \in 1 .. Len(s)}
      <4>1. r[j] = [i \in 1 .. Len(s) |-> Append(v[j], s[i])]
        OBVIOUS
      <4> HIDE DEF r
      <4>2. r[j] \in Seq(Seq(S)) /\ Len(r[j]) = Len(s)
        BY <2>3, <2>5, <4>1
      <4>3. r[j] # <<>>
        BY <2>3, <4>2, EmptySeq
      <4>4. DOMAIN r[j] = 1 .. Len(s) /\ \A i \in 1 .. Len(s) : r[j][i] = Append(v[j], s[i])
        BY <4>1
      <4>5. ToSet(r[j]) = {Append(v[j], s[i]) : i \in 1 .. Len(s)}
        BY <4>4 DEF ToSet
      <4>6. QED
        BY <4>2, <4>3, <4>5
    <3>2. DOMAIN r = 1 .. Len(v)
      OBVIOUS
    <3>3. r \in Seq(Seq(Seq(S))) /\ Len(r) = Len(v)
      BY <2>3, <3>1
    <3>4. QED
      BY <3>1, <3>2, <3>3
  <2>7. V(n + 1) = Joined(r)
    BY <1>1, <2>4
  <2> HIDE DEF r
  <2>8. /\ Joined(r) \in Seq(Seq(S))
        /\ ToSet(Joined(r)) = UNION {ToSet(r[j]) : j \in DOMAIN r}
        /\ \A j \in DOMAIN r : Len(r[j]) <= Len(Joined(r))
        /\ Len(r) <= Len(Joined(r))
    BY <2>6, JoinedFacts, JoinedLength
  <2>9. Len(Joined(r)) \in Nat
    BY <2>8, LenProperties
  <2>10. V(n + 1) \in Seq(Seq(S)) /\ V(n + 1) # <<>>
    <3>1. Len(Joined(r)) # 0
      BY <2>3, <2>6, <2>8, <2>9
    <3>2. QED
      BY <2>7, <2>8, <3>1, EmptySeq
  <2>11. \A i \in 1 .. n + 1 : Len(ss[i]) <= Len(V(n + 1))
    <3>1. SUFFICES ASSUME NEW i \in 1 .. n + 1 PROVE Len(ss[i]) <= Len(V(n + 1))
      OBVIOUS
    <3>2. CASE i = n + 1
      <4>1. 1 \in DOMAIN r
        BY <2>3, <2>6
      <4>2. Len(r[1]) = Len(s)
        BY <2>6, <4>1
      <4>3. Len(s) <= Len(V(n + 1))
        BY <2>7, <2>8, <4>1, <4>2
      <4>4. QED
        BY <3>2, <4>3 DEF s
    <3>3. CASE i # n + 1
      <4>1. i \in 1 .. n /\ i \in 1 .. Len(ss)
        BY <1>2, <1>4, <3>3
      <4>2. ss[i] \in Seq(S)
        BY <1>2, <4>1
      <4>3. Len(ss[i]) \in Nat
        BY <4>2, LenProperties
      <4>4. Len(ss[i]) <= Len(v)
        BY <2>1, <4>1
      <4>5. Len(v) <= Len(V(n + 1))
        BY <2>6, <2>7, <2>8
      <4>6. QED
        BY <2>3, <2>7, <2>9, <4>3, <4>4, <4>5
    <3>4. QED
      BY <3>2, <3>3
  <2>12. ToSet(V(n + 1)) = Ways(n + 1)
    <3>1. /\ \A q \in ToSet(V(n + 1)) : \E p \in Ways(n), x \in ToSet(s) : q = Append(p, x)
          /\ \A p \in Ways(n), x \in ToSet(s) : Append(p, x) \in ToSet(V(n + 1))
      <4>1. ToSet(V(n + 1)) = UNION {ToSet(r[j]) : j \in DOMAIN r}
        BY <2>7, <2>8
      <4>2. DOMAIN r = 1 .. Len(v)
        BY <2>6
      <4>3. \A j \in 1 .. Len(v) : ToSet(r[j]) = {Append(v[j], s[i]) : i \in 1 .. Len(s)}
        BY <2>6, <4>2
      <4>4. ToSet(v) = {v[j] : j \in 1 .. Len(v)}
        BY <2>3 DEF ToSet
      <4>5. ToSet(s) = {s[i] : i \in 1 .. Len(s)}
        BY <2>3 DEF ToSet
      <4>6. ToSet(v) = Ways(n)
        BY <2>1
      <4>7. ASSUME NEW q \in ToSet(V(n + 1))
            PROVE  \E p \in Ways(n), x \in ToSet(s) : q = Append(p, x)
        <5>1. PICK j \in 1 .. Len(v) : q \in ToSet(r[j])
          BY <4>1, <4>2, <4>7
        <5>2. PICK i \in 1 .. Len(s) : q = Append(v[j], s[i])
          BY <4>3, <5>1
        <5>3. v[j] \in Ways(n)
          BY <4>4, <4>6
        <5>4. s[i] \in ToSet(s)
          BY <4>5
        <5>5. QED
          BY <5>2, <5>3, <5>4, Zenon
      <4>8. ASSUME NEW p \in Ways(n), NEW x \in ToSet(s)
            PROVE  Append(p, x) \in ToSet(V(n + 1))
        <5>1. PICK j \in 1 .. Len(v) : p = v[j]
          BY <4>4, <4>6
        <5>2. PICK i \in 1 .. Len(s) : x = s[i]
          BY <4>5
        <5>3. Append(p, x) \in ToSet(r[j])
          BY <4>3, <5>1, <5>2
        <5>4. QED
          BY <4>1, <4>2, <5>3
      <4>9. QED
        BY <4>7, <4>8, Zenon
    <3>2. ASSUME NEW p \in Ways(n), NEW x \in ToSet(s)
          PROVE  Append(p, x) \in Ways(n + 1)
      <4>1. p \in Seq(S) /\ Len(p) = n /\ x \in S
        BY <2>2, ToSetMember
      <4>2. /\ Append(p, x) \in Seq(S) /\ Len(Append(p, x)) = n + 1
            /\ \A i \in 1 .. n : Append(p, x)[i] = p[i]
            /\ Append(p, x)[n + 1] = x
        BY <4>1, AppendProperties
      <4>3. \A i \in 1 .. n + 1 : Append(p, x)[i] \in ToSet(ss[i])
        <5>1. SUFFICES ASSUME NEW i \in 1 .. n + 1 PROVE Append(p, x)[i] \in ToSet(ss[i])
          OBVIOUS
        <5>2. CASE i = n + 1
          BY <4>2, <5>2 DEF s
        <5>3. CASE i # n + 1
          <6>1. i \in 1 .. n
            BY <5>3
          <6>2. QED
            BY <4>2, <6>1
        <5>4. QED
          BY <5>2, <5>3
      <4>4. QED
        BY <4>2, <4>3
    <3>3. ASSUME NEW q \in Ways(n + 1)
          PROVE  \E p \in Ways(n), x \in ToSet(s) : q = Append(p, x)
      <4>1. q \in Seq(S) /\ Len(q) = n + 1 /\ \A i \in 1 .. n + 1 : q[i] \in ToSet(ss[i])
        OBVIOUS
      <4> DEFINE p == SubSeq(q, 1, n)
      <4>2. /\ p \in Seq(S) /\ Len(p) = n
            /\ \A i \in 1 .. n : p[i] = q[i]
        BY <4>1
      <4>3. q[n + 1] \in ToSet(s) /\ q[n + 1] \in S
        BY <4>1, ElementOfSeq DEF s
      <4> HIDE DEF p
      <4>4. p \in Ways(n)
        BY <4>1, <4>2
      <4>5. q = Append(p, q[n + 1])
        <5>1. /\ Append(p, q[n + 1]) \in Seq(S) /\ Len(Append(p, q[n + 1])) = n + 1
              /\ \A i \in 1 .. n : Append(p, q[n + 1])[i] = p[i]
              /\ Append(p, q[n + 1])[n + 1] = q[n + 1]
          BY <4>2, <4>3, AppendProperties
        <5>2. \A i \in 1 .. n + 1 : Append(p, q[n + 1])[i] = q[i]
          BY <4>2, <5>1
        <5>3. QED
          BY <4>1, <5>1, <5>2, SeqEqual
      <4>6. QED
        BY <4>3, <4>4, <4>5
    <3>4. ToSet(V(n + 1)) \subseteq Ways(n + 1)
      <4>1. SUFFICES ASSUME NEW q \in ToSet(V(n + 1)) PROVE q \in Ways(n + 1)
        BY Zenon
      <4> HIDE DEF Ways
      <4>2. PICK p \in Ways(n), x \in ToSet(s) : q = Append(p, x)
        BY <3>1, Zenon
      <4>3. QED
        BY <3>2, <4>2, Zenon
    <3>5. Ways(n + 1) \subseteq ToSet(V(n + 1))
      <4>1. SUFFICES ASSUME NEW q \in Ways(n + 1) PROVE q \in ToSet(V(n + 1))
        BY Zenon
      <4> HIDE DEF Ways
      <4>2. PICK p \in Ways(n), x \in ToSet(s) : q = Append(p, x)
        BY <3>3, Zenon
      <4>3. QED
        BY <3>1, <4>2, Zenon
    <3>6. QED
      BY <3>4, <3>5, Zenon
  <2>13. QED
    BY <2>2, <2>10, <2>11, <2>12
<1>5. Len(ss) \in T
  <2> HIDE DEF T
  <2>1. \A n \in 0 .. Len(ss) : n \in T
    BY <1>2, <1>3, <1>4, Climb
  <2>2. QED
    BY <1>2, <2>1
<1>6. Picks(ss) = V(Len(ss))
  BY DEF Picks, V
<1>7. QED
  BY <1>2, <1>5, <1>6

-----------------------------------------------------------------------------
(***************************************************************************)
(* Rewriting of expressions                                                *)
(***************************************************************************)

\* A list made element by element from another.
LEMMA ListOver ==
  ASSUME NEW S, NEW s \in Seq(S), NEW t, t = [i \in DOMAIN s |-> t[i]]
  PROVE  /\ t \in Seq(ToSet(t)) /\ Len(t) = Len(s) /\ DOMAIN t = DOMAIN s
         /\ DOMAIN t = 1 .. Len(t) /\ Len(t) \in Nat
         /\ \A x \in ToSet(t) : \E i \in DOMAIN s : x = t[i]
         /\ \A i \in DOMAIN s : t[i] \in ToSet(t)
         /\ s = <<>> <=> t = <<>>
<1>1. DOMAIN t = DOMAIN s
  BY Zenon
<1>2. DOMAIN s = 1 .. Len(s) /\ Len(s) \in Nat
  BY LenProperties
<1>3. \A i \in DOMAIN t : t[i] \in ToSet(t)
  BY DEF ToSet
<1>4. t \in Seq(ToSet(t))
  BY <1>1, <1>2, <1>3, SeqDef
<1>5. Len(t) \in Nat /\ DOMAIN t = 1 .. Len(t)
  BY <1>4, LenProperties
<1>6. Len(t) = Len(s)
  BY <1>1, <1>2, <1>5
<1>7. s = <<>> <=> Len(s) = 0
  BY EmptySeq
<1>8. t = <<>> <=> Len(t) = 0
  BY <1>4, EmptySeq
<1>9. \A x \in ToSet(t) : \E i \in DOMAIN s : x = t[i]
  BY <1>1 DEF ToSet
<1>10. QED
  BY <1>1, <1>2, <1>3, <1>4, <1>5, <1>6, <1>7, <1>8, <1>9

\* An expression or none.
Opt(e, n) == e = NoExpr \/ Tree(e, n)

LEMMA OptFits ==
  ASSUME NEW e, NEW n, Opt(e, n)
  PROVE  Within(e, MaxDepth)
BY TreeFits, NothingSaid DEF Opt

LEMMA OptMore ==
  ASSUME NEW e, NEW n, Opt(e, n), NEW m \in 1 .. MaxDepth, n <= m
  PROVE  Opt(e, m)
BY TreeMore DEF Opt

\* No expression of a plan is the absent one.
LEMMA TreeThere ==
  ASSUME NEW e, NEW n, Tree(e, n)
  PROVE  e # NoExpr /\ e.kind # "none"
BY TreeKinds, NoKids

\* The predicates of a node are those of its kids.
LEMMA NodeSays ==
  ASSUME NEW kind, NEW kids, kind \notin {"predicate", "entity_ref"},
         Within(Node(kind, kids), MaxDepth)
  PROVE  /\ PredicatesOf(Node(kind, kids)) = UNION {PredicatesOf(k) : k \in ToSet(kids)}
         /\ EntityRefs(Node(kind, kids)) = UNION {EntityRefs(k) : k \in ToSet(kids)}
<1>1. Node(kind, kids).kind = kind /\ Kids(Node(kind, kids)) = kids
  BY NodeKids
<1> DEFINE e == Node(kind, kids)
<1>2. e.kind # "predicate" /\ e.kind # "entity_ref"
  BY <1>1
<1>3. Kids(e) = kids
  BY <1>1
<1> HIDE DEF e
<1>4. /\ PredicatesOf(e) = (IF e.kind = "predicate" THEN {e.pred} ELSE {})
                                \cup UNION {PredicatesOf(k) : k \in ToSet(Kids(e))}
      /\ EntityRefs(e) = (IF e.kind = "entity_ref" THEN {e.entity} ELSE {})
                              \cup UNION {EntityRefs(k) : k \in ToSet(Kids(e))}
  BY PartsSay DEF e
<1>5. PredicatesOf(e) = {} \cup UNION {PredicatesOf(k) : k \in ToSet(kids)}
  BY <1>2, <1>3, <1>4, Zenon
<1>6. EntityRefs(e) = {} \cup UNION {EntityRefs(k) : k \in ToSet(kids)}
  BY <1>2, <1>3, <1>4, Zenon
<1>7. QED
  BY <1>5, <1>6 DEF e

LEMMA LeafSays ==
  ASSUME NEW p
  PROVE  /\ Within(Leaf(p), MaxDepth) /\ Parts(Leaf(p)) = {Leaf(p)}
         /\ PredicatesOf(Leaf(p)) = {p} /\ EntityRefs(Leaf(p)) = {}
<1> DEFINE e == Leaf(p)
<1>1. e.kind = "predicate" /\ e.pred = p /\ Kids(e) = <<>>
  BY LeafKids
<1> HIDE DEF e
<1>2. ToSet(Kids(e)) = {}
  BY <1>1, ToSetEmpty
<1>3. Within(e, 0 + 1)
  BY <1>2, WithinKids
<1>4. Within(e, MaxDepth)
  BY <1>3, WithinMore, DepthNat
<1>5. Parts(e) = {e}
  BY <1>2, <1>4, PartsOf
<1>6. PredicatesOf(e) = {p} /\ EntityRefs(e) = {}
  BY <1>1, <1>5 DEF PredicatesOf, EntityRefs
<1>7. QED
  BY <1>4, <1>5, <1>6 DEF e

\* A conjunction is one level deeper at most and says what its halves say.
LEMMA ConjoinFacts ==
  ASSUME NEW l, NEW r, NEW n \in 1 .. MaxDepth, n < MaxDepth, Opt(l, n), Opt(r, n)
  PROVE  /\ Opt(Conjoin(l, r), n + 1)
         /\ PredicatesOf(Conjoin(l, r)) = PredicatesOf(l) \cup PredicatesOf(r)
         /\ l # NoExpr => Conjoin(l, r) # NoExpr
         /\ r # NoExpr => Conjoin(l, r) # NoExpr
<1> DEFINE parts(e) == IF e.kind = "all_of" THEN Kids(e) ELSE <<e>>
<1>1. n + 1 \in 1 .. MaxDepth /\ n <= n + 1
  BY DepthNat
<1>2. CASE l = NoExpr
  <2>1. Conjoin(l, r) = r
    BY <1>2 DEF Conjoin
  <2>2. QED
    BY <1>1, <1>2, <2>1, OptMore, NothingSaid
<1>3. CASE l # NoExpr /\ r = NoExpr
  <2>1. Conjoin(l, r) = l
    BY <1>3 DEF Conjoin
  <2>2. QED
    BY <1>1, <1>3, <2>1, OptMore, NothingSaid
<1>4. CASE l # NoExpr /\ r # NoExpr
  <2>1. Tree(l, n) /\ Tree(r, n)
    BY <1>4 DEF Opt
  <2>2. ASSUME NEW e, Tree(e, n)
        PROVE  /\ parts(e) \in Seq(ToSet(parts(e))) /\ parts(e) # <<>>
               /\ \A k \in ToSet(parts(e)) : Tree(k, n)
               /\ UNION {PredicatesOf(k) : k \in ToSet(parts(e))} = PredicatesOf(e)
    <3>1. CASE e.kind = "all_of"
      <4>1. parts(e) = Kids(e)
        BY <3>1
      <4>2. Kids(e) \in Seq(ToSet(Kids(e))) /\ Kids(e) # <<>>
        BY <2>2, <3>1, TreeKinds
      <4>3. ASSUME NEW k \in ToSet(Kids(e)) PROVE Tree(k, n)
        <5>1. n - 1 \in 1 .. MaxDepth /\ Tree(k, n - 1)
          BY <2>2, TreeBelow
        <5>2. n - 1 <= n
          BY DepthNat
        <5>3. QED
          BY <5>1, <5>2, TreeMore
      <4>4. PredicatesOf(e) = (IF e.kind = "predicate" THEN {e.pred} ELSE {})
                                \cup UNION {PredicatesOf(k) : k \in ToSet(Kids(e))}
        BY <2>2, TreeFits, PartsSay
      <4>5. PredicatesOf(e) = UNION {PredicatesOf(k) : k \in ToSet(Kids(e))}
        BY <3>1, <4>4
      <4> HIDE DEF parts
      <4>6. QED
        BY <4>1, <4>2, <4>3, <4>5
    <3>2. CASE e.kind # "all_of"
      <4>1. parts(e) = <<e>>
        BY <3>2
      <4>2. <<e>> \in Seq({e}) /\ ToSet(<<e>>) = {e} /\ <<e>> # <<>>
        BY DEF ToSet
      <4> HIDE DEF parts
      <4>3. QED
        BY <2>2, <4>1, <4>2
    <3>3. QED
      BY <3>1, <3>2
  <2>3. Conjoin(l, r) = Node("all_of", parts(l) \o parts(r))
    BY <1>4 DEF Conjoin
  <2> DEFINE a == parts(l)
             b == parts(r)
             S == ToSet(a) \cup ToSet(b)
  <2>4. a \in Seq(ToSet(a)) /\ b \in Seq(ToSet(b)) /\ a # <<>>
    BY <2>1, <2>2
  <2>5. \A k \in ToSet(a) : Tree(k, n)
    BY <2>1, <2>2
  <2>6. \A k \in ToSet(b) : Tree(k, n)
    BY <2>1, <2>2
  <2>7. UNION {PredicatesOf(k) : k \in ToSet(a)} = PredicatesOf(l)
    BY <2>1, <2>2
  <2>8. UNION {PredicatesOf(k) : k \in ToSet(b)} = PredicatesOf(r)
    BY <2>1, <2>2
  <2> HIDE DEF parts
  <2>9. Conjoin(l, r) = Node("all_of", a \o b)
    BY <2>3
  <2> HIDE DEF a, b
  <2>10. a \in Seq(S) /\ b \in Seq(S)
    BY <2>4, SeqMonotonic
  <2> HIDE DEF S
  <2>11. a \o b \in Seq(S) /\ ToSet(a \o b) = ToSet(a) \cup ToSet(b)
    BY <2>10, ToSetConcat
  <2>12. a \o b # <<>>
    BY <2>4, <2>10, <2>11, ToSetMember
  <2>13. Fits("all_of", a \o b)
    BY <2>12 DEF Fits
  <2>14. \A k \in ToSet(a \o b) : Tree(k, n)
    BY <2>5, <2>6, <2>11
  <2>15. Tree(Node("all_of", a \o b), n + 1)
    BY <2>11, <2>13, <2>14, NodeTree
  <2>16. Within(Node("all_of", a \o b), MaxDepth)
    BY <2>15, TreeFits
  <2>17. PredicatesOf(Node("all_of", a \o b)) = UNION {PredicatesOf(k) : k \in ToSet(a \o b)}
    BY <2>16, NodeSays
  <2>18. PredicatesOf(Node("all_of", a \o b)) = PredicatesOf(l) \cup PredicatesOf(r)
    BY <2>7, <2>8, <2>11, <2>17
  <2>19. Node("all_of", a \o b) # NoExpr
    BY <2>15, TreeThere
  <2>20. QED
    BY <2>9, <2>15, <2>18, <2>19 DEF Opt
<1>5. QED
  BY <1>2, <1>3, <1>4

\* What is left without the references that are not selected says no more.
LEMMA PrunedFacts ==
  ASSUME NEW e, NEW n, Tree(e, n), NEW selected
  PROVE  /\ Opt(Pruned(e, selected), n)
         /\ PredicatesOf(Pruned(e, selected)) \subseteq PredicatesOf(e)
<1> DEFINE P(x) == Pruned(x, selected)
           Good(x, m) == Opt(P(x), m) /\ PredicatesOf(P(x)) \subseteq PredicatesOf(x)
           T == {x \in Parts(e) : \A m \in 1 .. MaxDepth : Tree(x, m) => Good(x, m)}
<1>1. Within(e, MaxDepth)
  BY TreeFits
<1>2. ASSUME NEW x \in Parts(e), \A i \in DOMAIN Kids(x) : Kids(x)[i] \in T,
             NEW m \in 1 .. MaxDepth, Tree(x, m)
      PROVE  Good(x, m)
  <2> DEFINE ps == [i \in DOMAIN Kids(x) |-> P(Kids(x)[i])]
             kids == Chosen(ps, {i \in DOMAIN ps : ps[i] # NoExpr})
  <2>1. P(x) = PrunedAt(ps, x, selected)
    BY <1>2, TreeFits, PruningUnfolds DEF Pruned
  <2>2. /\ Kids(x) \in Seq(ToSet(Kids(x)))
        /\ Kids(x) # <<>> => Fits(x.kind, Kids(x))
        /\ x.kind \in {"all_of", "any_of", "not", "prefer", "fallback", "predicate", "entity_ref"}
    BY <1>2, TreeKinds
  <2>3. ASSUME NEW i \in DOMAIN Kids(x)
        PROVE  m - 1 \in 1 .. MaxDepth /\ Good(Kids(x)[i], m - 1)
    <3>1. Kids(x)[i] \in ToSet(Kids(x))
      BY <2>2, ToSetMember
    <3>2. m - 1 \in 1 .. MaxDepth /\ Tree(Kids(x)[i], m - 1)
      BY <1>2, <3>1, TreeBelow
    <3>3. Kids(x)[i] \in T
      BY <1>2
    <3>4. QED
      BY <3>2, <3>3
  <2>4. PredicatesOf(x) = (IF x.kind = "predicate" THEN {x.pred} ELSE {})
                            \cup UNION {PredicatesOf(k) : k \in ToSet(Kids(x))}
    BY <1>2, TreeFits, PartsSay
  <2>5. ps = [i \in DOMAIN Kids(x) |-> ps[i]]
    OBVIOUS
  <2>6. \A i \in DOMAIN Kids(x) : ps[i] = P(Kids(x)[i])
    OBVIOUS
  <2> HIDE DEF ps, T
  <2>7. /\ ps \in Seq(ToSet(ps)) /\ DOMAIN ps = DOMAIN Kids(x) /\ Len(ps) = Len(Kids(x))
        /\ \A y \in ToSet(ps) : \E i \in DOMAIN Kids(x) : y = ps[i]
    <3>1. Kids(x) \in Seq(ToSet(Kids(x)))
      BY <2>2
    <3> HIDE DEF kids, Good, P
    <3>2. QED
      BY <2>5, <3>1, ListOver
  <2>8. /\ kids \in Seq(ToSet(ps)) /\ Len(kids) <= Len(ps)
        /\ ToSet(kids) = {ps[i] : i \in {i \in DOMAIN ps : ps[i] # NoExpr} \cap DOMAIN ps}
    BY <2>7, ChosenFacts
  <2> HIDE DEF kids
  <2>9. ASSUME NEW k \in ToSet(kids)
        PROVE  /\ m - 1 \in 1 .. MaxDepth /\ Tree(k, m - 1)
               /\ PredicatesOf(k) \subseteq PredicatesOf(x)
    <3>1. PICK i \in DOMAIN ps : k = ps[i] /\ ps[i] # NoExpr
      BY <2>8
    <3>2. i \in DOMAIN Kids(x) /\ k = P(Kids(x)[i])
      BY <2>6, <2>7, <3>1
    <3>3. /\ m - 1 \in 1 .. MaxDepth /\ Opt(k, m - 1)
          /\ PredicatesOf(k) \subseteq PredicatesOf(Kids(x)[i])
      BY <2>3, <3>2
    <3>4. Tree(k, m - 1)
      BY <3>1, <3>3 DEF Opt
    <3>5. Kids(x)[i] \in ToSet(Kids(x))
      BY <2>2, <3>2, ToSetMember
    <3>6. PredicatesOf(Kids(x)[i]) \subseteq PredicatesOf(x)
      BY <2>4, <3>5
    <3>7. QED
      BY <3>3, <3>4, <3>6
  <2>10. ASSUME NEW kind, kind \notin {"predicate", "entity_ref"}, Fits(kind, kids), kids # <<>>
         PROVE  /\ Tree(Node(kind, kids), m)
                /\ PredicatesOf(Node(kind, kids)) \subseteq PredicatesOf(x)
    <3>1. PICK k \in ToSet(kids) : TRUE
      BY <2>8, <2>10, ToSetMember
    <3>2. m - 1 \in 1 .. MaxDepth /\ m - 1 < MaxDepth /\ (m - 1) + 1 = m
      BY <2>9, <3>1, DepthNat
    <3>3. \A y \in ToSet(kids) : Tree(y, m - 1)
      BY <2>9
    <3>4. Tree(Node(kind, kids), (m - 1) + 1)
      BY <2>8, <2>10, <3>2, <3>3, NodeTree
    <3>5. Tree(Node(kind, kids), m)
      BY <3>2, <3>4
    <3>6. PredicatesOf(Node(kind, kids)) = UNION {PredicatesOf(y) : y \in ToSet(kids)}
      BY <2>10, <3>5, TreeFits, NodeSays
    <3>7. QED
      BY <2>9, <3>5, <3>6
  <2>11. P(x) = CASE x.kind = "entity_ref" -> IF x.entity \in selected THEN x ELSE NoExpr
                  [] x.kind \in {"all_of", "any_of", "fallback"} ->
                       IF kids = <<>> THEN NoExpr
                       ELSE IF Len(kids) = 1 THEN kids[1]
                       ELSE Node(x.kind, kids)
                  [] x.kind \in {"not", "prefer"} ->
                       IF kids = <<>> THEN NoExpr ELSE Node(x.kind, kids)
                  [] OTHER -> x
    BY <2>1 DEF PrunedAt, kids
  <2> HIDE DEF P
  <2>12. CASE P(x) = NoExpr
    BY <2>12, NothingSaid DEF Opt
  <2>13. CASE P(x) = x
    BY <1>2, <2>13 DEF Opt
  <2>14. CASE P(x) # NoExpr /\ P(x) # x
    <3>1. x.kind \in {"all_of", "any_of", "fallback", "not", "prefer"} /\ kids # <<>>
      BY <2>2, <2>11, <2>14
    <3>2. Len(kids) \in Nat /\ Len(kids) # 0
      BY <2>8, <3>1, LenProperties, EmptySeq
    <3>3. CASE x.kind \in {"all_of", "any_of", "fallback"} /\ Len(kids) = 1
      <4>1. P(x) = kids[1]
        BY <2>11, <3>1, <3>3
      <4>2. 1 \in DOMAIN kids
        BY <2>8, <3>3, LenProperties
      <4>3. kids[1] \in ToSet(kids)
        BY <2>8, <4>2, ToSetMember
      <4>4. m - 1 \in 1 .. MaxDepth /\ Tree(P(x), m - 1) /\ m - 1 <= m
        BY <2>9, <4>1, <4>3, DepthNat
      <4>5. Tree(P(x), m)
        BY <4>4, TreeMore
      <4>6. QED
        BY <2>9, <4>1, <4>3, <4>5 DEF Opt
    <3>4. CASE ~ (x.kind \in {"all_of", "any_of", "fallback"} /\ Len(kids) = 1)
      <4>1. P(x) = Node(x.kind, kids)
        BY <2>11, <3>1, <3>4
      <4>2. Kids(x) # <<>>
        BY <1>2, <3>1, TreeKinds
      <4>3. Fits(x.kind, Kids(x)) /\ Len(kids) <= Len(Kids(x)) /\ Len(Kids(x)) \in Nat
        BY <2>2, <2>7, <2>8, <4>2, LenProperties
      <4> DEFINE a == Len(kids)
                 b == Len(Kids(x))
      <4>7. a <= b /\ a \in Nat /\ b \in Nat /\ a # 0
        BY <3>2, <4>3
      <4>8. (b = 1 => a = 1) /\ (b = 2 /\ a # 1 => a = 2)
        <5> HIDE DEF a, b
        <5>1. QED
          BY <4>7
      <4>4. Fits(x.kind, kids)
        <5>1. CASE x.kind \in {"all_of", "any_of"}
          BY <3>1, <5>1 DEF Fits
        <5>2. CASE x.kind \in {"not", "prefer"}
          <6>1. Len(Kids(x)) = 1
            BY <4>3, <5>2 DEF Fits
          <6>2. Len(kids) = 1
            BY <4>8, <6>1
          <6>3. QED
            BY <5>2, <6>2 DEF Fits
        <5>3. CASE x.kind = "fallback"
          <6>1. Len(Kids(x)) = 2
            BY <4>3, <5>3 DEF Fits
          <6>2. Len(kids) # 1
            BY <3>4, <5>3
          <6>3. Len(kids) = 2
            BY <4>8, <6>1, <6>2
          <6>4. QED
            BY <5>3, <6>3 DEF Fits
        <5>4. QED
          BY <3>1, <5>1, <5>2, <5>3
      <4>5. x.kind \notin {"predicate", "entity_ref"}
        BY <3>1
      <4>6. QED
        BY <2>10, <3>1, <4>1, <4>4, <4>5 DEF Opt
    <3>5. QED
      BY <3>3, <3>4
  <2>15. QED
    BY <2>12, <2>13, <2>14
<1>3. \A x \in Parts(e) : (\A i \in DOMAIN Kids(x) : Kids(x)[i] \in T) => x \in T
  <2>1. SUFFICES ASSUME NEW x \in Parts(e), \A i \in DOMAIN Kids(x) : Kids(x)[i] \in T
                 PROVE  x \in T
    BY Zenon
  <2>2. \A m \in 1 .. MaxDepth : Tree(x, m) => Good(x, m)
    BY <1>2, <2>1, Zenon
  <2>3. QED
    BY <2>2
<1> HIDE DEF T
<1>4. Parts(e) \subseteq T
  BY <1>1, <1>3, ByParts
<1>5. e \in T
  BY <1>1, <1>4, PartsClosed
<1>6. n \in 1 .. MaxDepth
  BY DEF Tree
<1>7. QED
  BY <1>5, <1>6 DEF T

LEMMA PrunedNothing ==
  ASSUME NEW selected
  PROVE  Pruned(NoExpr, selected) = NoExpr
<1>1. Pruned(NoExpr, selected)
        = PrunedAt([i \in DOMAIN Kids(NoExpr) |-> Pruned(Kids(NoExpr)[i], selected)], NoExpr, selected)
  BY NothingSaid, PruningUnfolds DEF Pruned
<1>2. QED
  BY <1>1 DEF PrunedAt, NoExpr

\* A list cut off is a list of elements of it, as long as it was if it was
\* not too long.
LEMMA CutFacts ==
  ASSUME NEW S, NEW s \in Seq(S)
  PROVE  /\ Cut(s) \in Seq(S) /\ ToSet(Cut(s)) \subseteq ToSet(s)
         /\ Len(Cut(s)) = IF Len(s) <= MaxBranches THEN Len(s) ELSE MaxBranches
         /\ \A i \in DOMAIN Cut(s) : i \in DOMAIN s /\ Cut(s)[i] = s[i]
         /\ s # <<>> => Cut(s) # <<>>
         /\ Len(Cut(s)) < MaxBranches => Cut(s) = s
<1> DEFINE n == Min({Len(s), MaxBranches})
<1>1. Len(s) \in Nat /\ DOMAIN s = 1 .. Len(s) /\ MaxBranches = 8
  BY LenProperties DEF MaxBranches
<1>2. n = IF Len(s) <= MaxBranches THEN Len(s) ELSE MaxBranches
  BY <1>1 DEF Min
<1>3. n \in 0 .. Len(s)
  BY <1>1, <1>2
<1>4. Cut(s) = SubSeq(s, 1, n)
  BY DEF Cut
<1> HIDE DEF n
<1>5. /\ Cut(s) \in Seq(S) /\ Len(Cut(s)) = n
      /\ \A i \in 1 .. n : Cut(s)[i] = s[i]
  BY <1>1, <1>3, <1>4
<1>6. DOMAIN Cut(s) = 1 .. n
  BY <1>5, LenProperties
<1>7. \A i \in DOMAIN Cut(s) : i \in DOMAIN s /\ Cut(s)[i] = s[i]
  BY <1>1, <1>3, <1>5, <1>6
<1>8. ToSet(Cut(s)) \subseteq ToSet(s)
  BY <1>7 DEF ToSet
<1>9. ASSUME s # <<>> PROVE Cut(s) # <<>>
  <2>1. Len(s) # 0
    BY <1>9, EmptySeq
  <2>2. Len(Cut(s)) # 0
    BY <1>1, <1>2, <1>5, <2>1
  <2>3. QED
    BY <1>5, <2>2, EmptySeq
<1>10. ASSUME Len(Cut(s)) < MaxBranches PROVE Cut(s) = s
  <2>1. n = Len(s)
    BY <1>1, <1>2, <1>5, <1>10
  <2>2. QED
    BY <1>4, <2>1, SubSeqFull
<1>11. QED
  BY <1>2, <1>5, <1>7, <1>8, <1>9, <1>10

\* The kids of a node and the ways to take one branch of each.
Ways(e) == [i \in DOMAIN Kids(e) |-> FallbackBranches(Kids(e)[i])]

LEMMA BranchesNext ==
  ASSUME NEW e, NEW n, Tree(e, n)
  PROVE  /\ FallbackBranches(e) = BranchesAt(Ways(e), e, {})
         /\ \A i \in DOMAIN Kids(e) : Ways(e)[i] = FallbackBranches(Kids(e)[i])
         /\ DOMAIN Ways(e) = DOMAIN Kids(e)
BY TreeFits, BranchingUnfolds DEF FallbackBranches, Ways

\* A list of expressions that are all of the same depth is tried in turn.
IsBranches(s, e, n) ==
  /\ s \in Seq(ToSet(s))
  /\ s # <<>>
  /\ \A b \in ToSet(s) : /\ Tree(b, n)
                         /\ PredicatesOf(b) \subseteq PredicatesOf(e)
                         /\ \A y \in Parts(b) : y.kind # "fallback"

\* The nodes made of one branch of each kid.
LEMMA NodeBranches ==
  ASSUME NEW e, NEW n, Tree(e, n), Kids(e) # <<>>, e.kind # "fallback",
         n - 1 \in 1 .. MaxDepth,
         \A i \in DOMAIN Kids(e) : IsBranches(FallbackBranches(Kids(e)[i]), Kids(e)[i], n - 1)
  PROVE  LET nodes == [i \in DOMAIN Picks(Ways(e)) |-> Node(e.kind, Picks(Ways(e))[i])]
         IN  /\ FallbackBranches(e) = Cut(nodes)
             /\ Ways(e) \in Seq(Seq(UNION {ToSet(w) : w \in ToSet(Ways(e))}))
             /\ \A i \in DOMAIN Ways(e) : Ways(e)[i] # <<>>
             /\ DOMAIN Ways(e) = DOMAIN Kids(e) /\ Len(Ways(e)) = Len(Kids(e))
             /\ nodes \in Seq(ToSet(nodes)) /\ nodes # <<>> /\ Len(nodes) = Len(Picks(Ways(e)))
             /\ \A b \in ToSet(nodes) : \E p \in ToSet(Picks(Ways(e))) :
                  /\ b = Node(e.kind, p) /\ DOMAIN p = DOMAIN Kids(e)
                  /\ \A i \in DOMAIN Kids(e) : p[i] \in ToSet(FallbackBranches(Kids(e)[i]))
                  /\ Tree(b, n) /\ Kids(b) = p /\ b.kind = e.kind
             /\ \A p \in ToSet(Picks(Ways(e))) : Node(e.kind, p) \in ToSet(nodes)
             /\ IsBranches(nodes, e, n)
<1> DEFINE ws == Ways(e)
           W == UNION {ToSet(w) : w \in ToSet(ws)}
           picks == Picks(ws)
           nodes == [i \in DOMAIN picks |-> Node(e.kind, picks[i])]
<1>1. FallbackBranches(e) = Cut(nodes)
  BY BranchesNext DEF BranchesAt
<1>2. Kids(e) \in Seq(ToSet(Kids(e)))
  BY TreeKinds
<1>3. /\ Fits(e.kind, Kids(e)) /\ e.kind \notin {"predicate", "entity_ref"}
  BY TreeKinds
<1>4. ws = [i \in DOMAIN Kids(e) |-> ws[i]]
  BY DEF Ways
<1>5. \A i \in DOMAIN Kids(e) : ws[i] = FallbackBranches(Kids(e)[i])
  BY BranchesNext
<1> HIDE DEF ws
<1>6. /\ ws \in Seq(ToSet(ws)) /\ Len(ws) = Len(Kids(e)) /\ DOMAIN ws = DOMAIN Kids(e)
      /\ DOMAIN ws = 1 .. Len(ws) /\ Len(ws) \in Nat
      /\ \A w \in ToSet(ws) : \E i \in DOMAIN Kids(e) : w = ws[i]
      /\ \A i \in DOMAIN Kids(e) : ws[i] \in ToSet(ws)
  BY <1>2, <1>4, ListOver
<1>7. \A w \in ToSet(ws) : w \in Seq(ToSet(w)) /\ w # <<>>
  <2>1. SUFFICES ASSUME NEW w \in ToSet(ws) PROVE w \in Seq(ToSet(w)) /\ w # <<>>
    OBVIOUS
  <2>2. PICK i \in DOMAIN Kids(e) : w = ws[i]
    BY <1>6
  <2>3. IsBranches(w, Kids(e)[i], n - 1)
    BY <1>5, <2>2
  <2>4. QED
    BY <2>3 DEF IsBranches
<1>8. \A w \in ToSet(ws) : w \in Seq(W)
  BY <1>7, SeqMonotonic
<1> HIDE DEF W
<1>9. ToSet(ws) \subseteq Seq(W)
  BY <1>8
<1>10. ws \in Seq(Seq(W))
  BY <1>6, <1>9, SeqMonotonic
<1>11. \A i \in DOMAIN ws : ws[i] # <<>>
  BY <1>6, <1>7
<1>12. /\ picks \in Seq(Seq(W)) /\ picks # <<>>
       /\ \A p \in ToSet(picks) : /\ p \in Seq(W) /\ Len(p) = Len(ws)
                                  /\ \A i \in DOMAIN ws : p[i] \in ToSet(ws[i])
  <2> HIDE DEF nodes
  <2>1. QED
    BY <1>10, <1>11, PicksFacts
<1>13. nodes = [i \in DOMAIN picks |-> nodes[i]]
  OBVIOUS
<1>14. \A i \in DOMAIN picks : nodes[i] = Node(e.kind, picks[i])
  OBVIOUS
<1> HIDE DEF nodes, picks
<1>15. /\ nodes \in Seq(ToSet(nodes)) /\ Len(nodes) = Len(picks) /\ DOMAIN nodes = DOMAIN picks
       /\ \A x \in ToSet(nodes) : \E i \in DOMAIN picks : x = nodes[i]
       /\ \A i \in DOMAIN picks : nodes[i] \in ToSet(nodes)
       /\ picks = <<>> <=> nodes = <<>>
  <2>1. picks \in Seq(Seq(W))
    BY <1>12
  <2>2. QED
    BY <1>13, <2>1, ListOver
<1>16. ASSUME NEW p \in ToSet(picks)
       PROVE  /\ DOMAIN p = DOMAIN Kids(e)
              /\ \A i \in DOMAIN Kids(e) : p[i] \in ToSet(FallbackBranches(Kids(e)[i]))
              /\ Tree(Node(e.kind, p), n)
              /\ PredicatesOf(Node(e.kind, p)) \subseteq PredicatesOf(e)
              /\ \A y \in Parts(Node(e.kind, p)) : y.kind # "fallback"
  <2>1. p \in Seq(W) /\ Len(p) = Len(ws)
    BY <1>12
  <2>2. DOMAIN p = DOMAIN Kids(e)
    BY <1>6, <2>1, LenProperties
  <2>3. \A i \in DOMAIN Kids(e) : p[i] \in ToSet(FallbackBranches(Kids(e)[i]))
    BY <1>5, <1>6, <1>12
  <2>4. ASSUME NEW k \in ToSet(p)
        PROVE  /\ Tree(k, n - 1) /\ PredicatesOf(k) \subseteq PredicatesOf(e)
               /\ \A y \in Parts(k) : y.kind # "fallback"
    <3>1. PICK i \in DOMAIN Kids(e) : k = p[i]
      BY <2>2 DEF ToSet
    <3>2. IsBranches(FallbackBranches(Kids(e)[i]), Kids(e)[i], n - 1)
      OBVIOUS
    <3>3. k \in ToSet(FallbackBranches(Kids(e)[i]))
      BY <2>3, <3>1
    <3>4. /\ Tree(k, n - 1) /\ PredicatesOf(k) \subseteq PredicatesOf(Kids(e)[i])
          /\ \A y \in Parts(k) : y.kind # "fallback"
      BY <3>2, <3>3 DEF IsBranches
    <3>5. Kids(e)[i] \in ToSet(Kids(e))
      BY <1>2, ToSetMember
    <3>6. PredicatesOf(e) = (IF e.kind = "predicate" THEN {e.pred} ELSE {})
                              \cup UNION {PredicatesOf(y) : y \in ToSet(Kids(e))}
      BY TreeFits, PartsSay
    <3>7. PredicatesOf(Kids(e)[i]) \subseteq PredicatesOf(e)
      BY <3>5, <3>6
    <3>8. QED
      BY <3>4, <3>7
  <2>5. Fits(e.kind, p)
    <3>1. Len(p) = Len(Kids(e))
      BY <1>6, <2>1
    <3>2. p # <<>>
      BY <1>2, <2>1, <3>1, EmptySeq
    <3>3. QED
      BY <1>3, <3>1, <3>2 DEF Fits
  <2>6. n - 1 < MaxDepth /\ (n - 1) + 1 = n
    BY DepthNat DEF Tree
  <2>7. \A k \in ToSet(p) : Tree(k, n - 1)
    BY <2>4
  <2>8. Tree(Node(e.kind, p), (n - 1) + 1)
    BY <2>1, <2>5, <2>6, <2>7, NodeTree
  <2>9. Tree(Node(e.kind, p), n)
    BY <2>6, <2>8
  <2>10. Within(Node(e.kind, p), MaxDepth)
    BY <2>9, TreeFits
  <2>11. PredicatesOf(Node(e.kind, p)) = UNION {PredicatesOf(k) : k \in ToSet(p)}
    BY <1>3, <2>10, NodeSays
  <2>12. Parts(Node(e.kind, p)) = {Node(e.kind, p)} \cup UNION {Parts(k) : k \in ToSet(p)}
    BY <2>10, PartsOf, NodeKids
  <2>13. \A y \in Parts(Node(e.kind, p)) : y.kind # "fallback"
    BY <2>4, <2>12, NodeKids
  <2>14. PredicatesOf(Node(e.kind, p)) \subseteq PredicatesOf(e)
    BY <2>4, <2>11
  <2>15. QED
    BY <2>2, <2>3, <2>9, <2>13, <2>14
<1>17. ASSUME NEW b \in ToSet(nodes)
       PROVE  \E p \in ToSet(picks) : b = Node(e.kind, p)
  <2>1. PICK i \in DOMAIN picks : b = nodes[i]
    BY <1>15
  <2>2. picks[i] \in ToSet(picks)
    BY <1>12, ToSetMember
  <2>3. QED
    BY <1>14, <2>1, <2>2
<1>18. ASSUME NEW p \in ToSet(picks)
       PROVE  Node(e.kind, p) \in ToSet(nodes)
  <2>1. PICK i \in DOMAIN picks : p = picks[i]
    BY DEF ToSet
  <2>2. nodes[i] \in ToSet(nodes) /\ nodes[i] = Node(e.kind, p)
    BY <1>14, <1>15, <2>1
  <2>3. QED
    BY <2>2
<1>19. nodes # <<>>
  BY <1>12, <1>15
<1>20. IsBranches(nodes, e, n)
  <2>1. ASSUME NEW b \in ToSet(nodes)
        PROVE  /\ Tree(b, n) /\ PredicatesOf(b) \subseteq PredicatesOf(e)
               /\ \A y \in Parts(b) : y.kind # "fallback"
    BY <1>16, <1>17
  <2>2. QED
    BY <1>15, <1>19, <2>1 DEF IsBranches
<1>21. ASSUME NEW b \in ToSet(nodes)
       PROVE  \E p \in ToSet(picks) :
                  /\ b = Node(e.kind, p) /\ DOMAIN p = DOMAIN Kids(e)
                  /\ \A i \in DOMAIN Kids(e) : p[i] \in ToSet(FallbackBranches(Kids(e)[i]))
                  /\ Tree(b, n) /\ Kids(b) = p /\ b.kind = e.kind
  <2>1. PICK p \in ToSet(picks) : b = Node(e.kind, p)
    BY <1>17
  <2>2. Kids(b) = p /\ b.kind = e.kind
    BY <2>1, NodeKids
  <2>3. QED
    BY <1>16, <2>1, <2>2
<1>22. QED
  BY <1>1, <1>6, <1>10, <1>11, <1>15, <1>18, <1>19, <1>20, <1>21 DEF nodes, picks, ws, W

\* The branches of a fallback are those of its first option, then those of
\* its second.
LEMMA FallbackKids ==
  ASSUME NEW e, NEW n, Tree(e, n), e.kind = "fallback"
  PROVE  /\ 1 \in DOMAIN Kids(e) /\ 2 \in DOMAIN Kids(e)
         /\ DOMAIN Kids(e) = {1, 2} /\ ToSet(Kids(e)) = {Kids(e)[1], Kids(e)[2]}
         /\ FallbackBranches(e)
              = Cut(FallbackBranches(Kids(e)[1]) \o FallbackBranches(Kids(e)[2]))
<1>1. Kids(e) \in Seq(ToSet(Kids(e))) /\ Kids(e) # <<>> /\ Fits(e.kind, Kids(e))
  BY TreeKinds
<1>2. Len(Kids(e)) = 2
  BY <1>1 DEF Fits
<1>3. DOMAIN Kids(e) = 1 .. 2
  BY <1>1, <1>2, LenProperties
<1>4. DOMAIN Kids(e) = {1, 2}
  BY <1>3
<1>5. ToSet(Kids(e)) = {Kids(e)[1], Kids(e)[2]}
  BY <1>4 DEF ToSet
<1>6. FallbackBranches(e) = Cut(Ways(e)[1] \o Ways(e)[2])
  BY <1>1, BranchesNext DEF BranchesAt
<1>7. Ways(e)[1] = FallbackBranches(Kids(e)[1]) /\ Ways(e)[2] = FallbackBranches(Kids(e)[2])
  BY <1>4, BranchesNext
<1>8. QED
  BY <1>4, <1>5, <1>6, <1>7

\* The branches of an expression are expressions without a fallback that
\* say nothing it does not say.
LEMMA BranchesFacts ==
  ASSUME NEW e, NEW n, Tree(e, n)
  PROVE  IsBranches(FallbackBranches(e), e, n)
<1> DEFINE T == {x \in Parts(e) : \A m \in 1 .. MaxDepth :
                   Tree(x, m) => IsBranches(FallbackBranches(x), x, m)}
<1>1. Within(e, MaxDepth)
  BY TreeFits
<1>2. ASSUME NEW x \in Parts(e), \A i \in DOMAIN Kids(x) : Kids(x)[i] \in T,
             NEW m \in 1 .. MaxDepth, Tree(x, m)
      PROVE  IsBranches(FallbackBranches(x), x, m)
  <2>1. CASE Kids(x) = <<>>
    <3>1. FallbackBranches(x) = <<x>>
      BY <1>2, <2>1, BranchesNext DEF BranchesAt
    <3>2. x.kind \in {"predicate", "entity_ref"}
      BY <1>2, <2>1, TreeKinds
    <3>3. ToSet(Kids(x)) = {}
      BY <2>1, ToSetEmpty
    <3>4. Parts(x) = {x}
      BY <1>2, <3>3, TreeFits, PartsOf
    <3>5. <<x>> \in Seq({x}) /\ ToSet(<<x>>) = {x} /\ <<x>> # <<>>
      BY DEF ToSet
    <3>6. QED
      BY <1>2, <3>1, <3>2, <3>4, <3>5 DEF IsBranches
  <2>2. CASE Kids(x) # <<>>
    <3>1. Kids(x) \in Seq(ToSet(Kids(x)))
      BY <1>2, TreeKinds
    <3>2. ASSUME NEW i \in DOMAIN Kids(x)
          PROVE  /\ m - 1 \in 1 .. MaxDepth /\ Tree(Kids(x)[i], m - 1)
                 /\ IsBranches(FallbackBranches(Kids(x)[i]), Kids(x)[i], m - 1)
      <4>1. Kids(x)[i] \in ToSet(Kids(x))
        BY <3>1, ToSetMember
      <4>2. m - 1 \in 1 .. MaxDepth /\ Tree(Kids(x)[i], m - 1)
        BY <1>2, <4>1, TreeBelow
      <4>3. Kids(x)[i] \in T
        BY <1>2
      <4>4. QED
        BY <4>2, <4>3
    <3>3. 1 \in DOMAIN Kids(x)
      BY <2>2, <3>1, LenProperties, EmptySeq
    <3>4. m - 1 \in 1 .. MaxDepth
      BY <3>2, <3>3
    <3>5. CASE x.kind # "fallback"
      <4> DEFINE nodes == [i \in DOMAIN Picks(Ways(x)) |-> Node(x.kind, Picks(Ways(x))[i])]
      <4>1. \A i \in DOMAIN Kids(x) : IsBranches(FallbackBranches(Kids(x)[i]), Kids(x)[i], m - 1)
        BY <3>2
      <4>2. FallbackBranches(x) = Cut(nodes) /\ IsBranches(nodes, x, m)
        BY <1>2, <2>2, <3>4, <3>5, <4>1, NodeBranches
      <4> HIDE DEF nodes
      <4>3. nodes \in Seq(ToSet(nodes)) /\ nodes # <<>>
        BY <4>2 DEF IsBranches
      <4>4. /\ Cut(nodes) \in Seq(ToSet(nodes)) /\ ToSet(Cut(nodes)) \subseteq ToSet(nodes)
            /\ Cut(nodes) # <<>>
        BY <4>3, CutFacts
      <4>5. Cut(nodes) \in Seq(ToSet(Cut(nodes)))
        BY <4>4, ToSetMember
      <4>6. QED
        BY <4>2, <4>4, <4>5 DEF IsBranches
    <3>6. CASE x.kind = "fallback"
      <4> DEFINE a == FallbackBranches(Kids(x)[1])
                 b == FallbackBranches(Kids(x)[2])
                 S == ToSet(a) \cup ToSet(b)
      <4>1. /\ 1 \in DOMAIN Kids(x) /\ 2 \in DOMAIN Kids(x)
            /\ FallbackBranches(x) = Cut(a \o b)
            /\ ToSet(Kids(x)) = {Kids(x)[1], Kids(x)[2]}
        BY <1>2, <3>6, FallbackKids
      <4>2. IsBranches(a, Kids(x)[1], m - 1) /\ IsBranches(b, Kids(x)[2], m - 1)
        BY <3>2, <4>1
      <4> HIDE DEF a, b
      <4>3. PredicatesOf(x) = (IF x.kind = "predicate" THEN {x.pred} ELSE {})
                                \cup UNION {PredicatesOf(k) : k \in ToSet(Kids(x))}
        BY <1>2, TreeFits, PartsSay
      <4>4. PredicatesOf(Kids(x)[1]) \subseteq PredicatesOf(x)
            /\ PredicatesOf(Kids(x)[2]) \subseteq PredicatesOf(x)
        BY <4>1, <4>3
      <4>5. a \in Seq(ToSet(a)) /\ b \in Seq(ToSet(b)) /\ a # <<>>
        BY <4>2 DEF IsBranches
      <4>6. a \in Seq(S) /\ b \in Seq(S)
        BY <4>5, SeqMonotonic
      <4> HIDE DEF S
      <4>7. a \o b \in Seq(S) /\ ToSet(a \o b) = ToSet(a) \cup ToSet(b)
        BY <4>6, ToSetConcat
      <4>8. a \o b # <<>>
        BY <4>5, <4>6, <4>7, ToSetMember
      <4>9. /\ Cut(a \o b) \in Seq(S) /\ ToSet(Cut(a \o b)) \subseteq ToSet(a \o b)
            /\ Cut(a \o b) # <<>>
        BY <4>7, <4>8, CutFacts
      <4>10. Cut(a \o b) \in Seq(ToSet(Cut(a \o b)))
        BY <4>9, ToSetMember
      <4>11. ASSUME NEW y \in ToSet(a) \cup ToSet(b)
             PROVE  /\ Tree(y, m) /\ PredicatesOf(y) \subseteq PredicatesOf(x)
                    /\ \A z \in Parts(y) : z.kind # "fallback"
        <5>1. /\ Tree(y, m - 1) /\ PredicatesOf(y) \subseteq PredicatesOf(x)
              /\ \A z \in Parts(y) : z.kind # "fallback"
          BY <4>2, <4>4 DEF IsBranches
        <5>2. m - 1 <= m
          BY DepthNat
        <5>3. Tree(y, m)
          BY <5>1, <5>2, TreeMore
        <5>4. QED
          BY <5>1, <5>3
      <4>12. QED
        BY <4>1, <4>7, <4>9, <4>10, <4>11 DEF IsBranches
    <3>7. QED
      BY <3>5, <3>6
  <2>3. QED
    BY <2>1, <2>2
<1>3. \A x \in Parts(e) : (\A i \in DOMAIN Kids(x) : Kids(x)[i] \in T) => x \in T
  <2>1. SUFFICES ASSUME NEW x \in Parts(e), \A i \in DOMAIN Kids(x) : Kids(x)[i] \in T
                 PROVE  x \in T
    BY Zenon
  <2>2. \A m \in 1 .. MaxDepth : Tree(x, m) => IsBranches(FallbackBranches(x), x, m)
    BY <1>2, <2>1, Zenon
  <2>3. QED
    BY <2>2
<1> HIDE DEF T
<1>4. Parts(e) \subseteq T
  BY <1>1, <1>3, ByParts
<1>5. e \in T
  BY <1>1, <1>4, PartsClosed
<1>6. n \in 1 .. MaxDepth
  BY DEF Tree
<1>7. QED
  BY <1>5, <1>6 DEF T

LEMMA BranchesNothing == FallbackBranches(NoExpr) = <<NoExpr>>
<1>1. FallbackBranches(NoExpr)
        = BranchesAt([i \in DOMAIN Kids(NoExpr) |-> FallbackBranches(Kids(NoExpr)[i])], NoExpr, {})
  BY NothingSaid, BranchingUnfolds DEF FallbackBranches
<1>2. QED
  BY <1>1, NoKids DEF BranchesAt

-----------------------------------------------------------------------------
(***************************************************************************)
(* What Qdrant is asked, against what the expression says.                 *)
(***************************************************************************)

\* Whether a product matches, by the kids.
LEMMA MatchesKinds ==
  ASSUME NEW e, NEW n, Tree(e, n), NEW x
  PROVE  /\ e.kind = "predicate" => (Matches(e, x) <=> PredicateMatches(e.pred, x))
         /\ e.kind \in {"any_of", "fallback"} =>
              (Matches(e, x) <=> \E i \in DOMAIN Kids(e) : Matches(Kids(e)[i], x))
         /\ e.kind = "all_of" =>
              (Matches(e, x) <=> \A i \in DOMAIN Kids(e) : Matches(Kids(e)[i], x))
         /\ e.kind = "not" =>
              (Matches(e, x) <=> ~ \E i \in DOMAIN Kids(e) : Matches(Kids(e)[i], x))
<1> DEFINE of == [i \in DOMAIN Kids(e) |-> Matches(Kids(e)[i], x)]
<1>1. Matches(e, x) = MatchesAt(of, e, x)
  BY TreeFits, MatchingUnfolds, Zenon DEF Matches
<1>2. DOMAIN of = DOMAIN Kids(e) /\ \A i \in DOMAIN Kids(e) : of[i] = Matches(Kids(e)[i], x)
  OBVIOUS
<1> HIDE DEF of
<1>3. (\E i \in DOMAIN of : of[i]) <=> \E i \in DOMAIN Kids(e) : Matches(Kids(e)[i], x)
  BY <1>2, Zenon
<1>4. (\A i \in DOMAIN of : of[i]) <=> \A i \in DOMAIN Kids(e) : Matches(Kids(e)[i], x)
  BY <1>2, Zenon
<1>5. e.kind = "predicate" => (Matches(e, x) <=> PredicateMatches(e.pred, x))
  BY <1>1 DEF MatchesAt
<1>6. e.kind \in {"any_of", "fallback"} => (Matches(e, x) <=> \E i \in DOMAIN of : of[i])
  BY <1>1 DEF MatchesAt
<1>7. e.kind = "all_of" => (Matches(e, x) <=> \A i \in DOMAIN of : of[i])
  BY <1>1 DEF MatchesAt
<1>8. e.kind = "not" => (Matches(e, x) <=> ~ \E i \in DOMAIN of : of[i])
  BY <1>1 DEF MatchesAt
<1>9. QED
  BY <1>3, <1>4, <1>5, <1>6, <1>7, <1>8, Zenon

\* Qdrant is told what a predicate says of a product.
Agrees(p, x) ==
  PredicateMatches(p, x) <=> IF p.op \in {"not_eq", "not_in"} THEN ~ PointMeets(p, x)
                             ELSE PointMeets(p, x)

\* The condition of an expression says of a product what the expression says.
Heard(e, x) ==
  /\ Condition(e, x) \subseteq BOOLEAN
  /\ TRUE \in Condition(e, x) <=> Matches(e, x)
  /\ FALSE \in Condition(e, x) <=> ~ Matches(e, x)

\* What the condition of a node is made of.
LEMMA ConditionKinds ==
  ASSUME NEW e, NEW n, Tree(e, n), NEW x, NEW heard,
         heard = UNION {Condition(Kids(e)[i], x) : i \in DOMAIN Kids(e)}
  PROVE  /\ e.kind = "predicate" =>
              Condition(e, x) = IF e.pred.strength # "hard" THEN {}
                                ELSE {IF e.pred.op \in {"not_eq", "not_in"}
                                      THEN ~ PointMeets(e.pred, x) ELSE PointMeets(e.pred, x)}
         /\ e.kind = "all_of" /\ heard = {} => Condition(e, x) = {}
         /\ e.kind = "all_of" /\ heard # {} =>
              Condition(e, x) = IF FALSE \in heard THEN {FALSE} ELSE {TRUE}
         /\ e.kind = "any_of" /\ heard # {} =>
              Condition(e, x) = IF TRUE \in heard THEN {TRUE} ELSE {FALSE}
         /\ e.kind = "not" => Condition(e, x) = {~ b : b \in heard}
<1> DEFINE of == [i \in DOMAIN Kids(e) |-> Condition(Kids(e)[i], x)]
<1>1. Condition(e, x) = ConditionAt(of, e, x)
  BY TreeFits, AskingUnfolds, Zenon DEF Condition
<1>2. UNION ToSet(of) = heard
  BY DEF ToSet
<1> HIDE DEF of
<1>3. e.kind = "predicate" =>
        Condition(e, x) = IF e.pred.strength # "hard" THEN {}
                          ELSE {IF e.pred.op \in {"not_eq", "not_in"}
                                THEN ~ PointMeets(e.pred, x) ELSE PointMeets(e.pred, x)}
  BY <1>1 DEF ConditionAt
<1> DEFINE all == UNION ToSet(of)
<1>4. e.kind = "all_of" => Condition(e, x) = IF all = {} THEN {} ELSE {FALSE \notin all}
  BY <1>1 DEF ConditionAt
<1>5. e.kind = "any_of" => Condition(e, x) = IF all = {} THEN {} ELSE {TRUE \in all}
  BY <1>1 DEF ConditionAt
<1>6. e.kind = "not" => Condition(e, x) = {~ b : b \in all}
  BY <1>1 DEF ConditionAt
<1>7. all = heard
  BY <1>2
<1> HIDE DEF all
<1>8. e.kind = "all_of" /\ heard = {} => Condition(e, x) = {}
  BY <1>4, <1>7
<1>9. e.kind = "all_of" /\ heard # {} =>
        Condition(e, x) = IF FALSE \in heard THEN {FALSE} ELSE {TRUE}
  BY <1>4, <1>7
<1>10. e.kind = "any_of" /\ heard # {} =>
         Condition(e, x) = IF TRUE \in heard THEN {TRUE} ELSE {FALSE}
  <2> DEFINE told == TRUE \in heard
  <2>1. e.kind = "any_of" /\ heard # {} => Condition(e, x) = {told}
    BY <1>5, <1>7, Zenon
  <2>2. told = (TRUE \in heard) /\ told \in BOOLEAN
    OBVIOUS
  <2>3. told = IF TRUE \in heard THEN TRUE ELSE FALSE
    BY <2>2, Zenon
  <2> HIDE DEF told
  <2>4. QED
    BY <2>1, <2>3
<1>11. e.kind = "not" => Condition(e, x) = {~ b : b \in heard}
  BY <1>6, <1>7
<1>12. QED
  BY <1>3, <1>8, <1>9, <1>10, <1>11, Zenon

\* A node whose kids are heard is heard.
LEMMA NodeHeard ==
  ASSUME NEW e, NEW n, Tree(e, n), NEW x,
         e.kind \in {"predicate", "all_of", "any_of", "not"},
         e.kind = "predicate" => e.pred.strength = "hard" /\ Agrees(e.pred, x),
         \A i \in DOMAIN Kids(e) : Heard(Kids(e)[i], x)
  PROVE  Heard(e, x)
<1> DEFINE heard == UNION {Condition(Kids(e)[i], x) : i \in DOMAIN Kids(e)}
           hit == \E i \in DOMAIN Kids(e) : Matches(Kids(e)[i], x)
           miss == \E i \in DOMAIN Kids(e) : ~ Matches(Kids(e)[i], x)
<1>1. heard \subseteq BOOLEAN
  BY Zenon DEF Heard
<1>2. TRUE \in heard <=> hit
  BY Zenon DEF Heard
<1>3. FALSE \in heard <=> miss
  BY Zenon DEF Heard
<1>4. e.kind # "predicate" => hit \/ miss
  <2>1. SUFFICES ASSUME e.kind # "predicate" PROVE \E i \in DOMAIN Kids(e) : TRUE
    BY Zenon
  <2>2. Kids(e) # <<>> /\ Kids(e) \in Seq(ToSet(Kids(e)))
    BY <2>1, TreeKinds, Zenon
  <2>3. QED
    BY <2>2
<1>5. e.kind # "predicate" => heard # {}
  BY <1>2, <1>3, <1>4, Zenon
<1>6. /\ e.kind = "all_of" =>
           Condition(e, x) = IF FALSE \in heard THEN {FALSE} ELSE {TRUE}
      /\ e.kind = "any_of" =>
           Condition(e, x) = IF TRUE \in heard THEN {TRUE} ELSE {FALSE}
      /\ e.kind = "not" => Condition(e, x) = {~ b : b \in heard}
  <2>1. heard = UNION {Condition(Kids(e)[i], x) : i \in DOMAIN Kids(e)}
    OBVIOUS
  <2> HIDE DEF heard
  <2>2. e.kind = "all_of" =>
          Condition(e, x) = IF FALSE \in heard THEN {FALSE} ELSE {TRUE}
    BY <2>1, <1>5, ConditionKinds
  <2>3. e.kind = "any_of" =>
          Condition(e, x) = IF TRUE \in heard THEN {TRUE} ELSE {FALSE}
    BY <2>1, <1>5, ConditionKinds
  <2>4. e.kind = "not" => Condition(e, x) = {~ b : b \in heard}
    BY <2>1, ConditionKinds
  <2>5. QED
    BY <2>2, <2>3, <2>4, Zenon
<1>7. /\ e.kind = "any_of" => (Matches(e, x) <=> hit)
      /\ e.kind = "all_of" => (Matches(e, x) <=> ~ miss)
      /\ e.kind = "not" => (Matches(e, x) <=> ~ hit)
  BY MatchesKinds, Zenon
<1> HIDE DEF heard, hit, miss
<1>8. CASE e.kind = "predicate"
  <2> DEFINE told == IF e.pred.op \in {"not_eq", "not_in"}
                     THEN ~ PointMeets(e.pred, x) ELSE PointMeets(e.pred, x)
  <2>1. Condition(e, x) = {told}
    BY <1>8, ConditionKinds, Zenon
  <2>2. Matches(e, x) <=> told
    BY <1>8, MatchesKinds, Zenon DEF Agrees
  <2>3. told \in BOOLEAN
    BY Zenon DEF PointMeets
  <2> HIDE DEF told
  <2>4. QED
    BY <2>1, <2>2, <2>3 DEF Heard
<1>9. CASE e.kind = "all_of"
  <2>1. Condition(e, x) = IF FALSE \in heard THEN {FALSE} ELSE {TRUE}
    BY <1>6, <1>9
  <2>2. Matches(e, x) <=> FALSE \notin heard
    BY <1>3, <1>7, <1>9, Zenon
  <2>3. QED
    BY <2>1, <2>2 DEF Heard
<1>10. CASE e.kind = "any_of"
  <2>1. Condition(e, x) = IF TRUE \in heard THEN {TRUE} ELSE {FALSE}
    BY <1>6, <1>10
  <2>2. Matches(e, x) <=> TRUE \in heard
    BY <1>2, <1>7, <1>10, Zenon
  <2>3. QED
    BY <2>1, <2>2 DEF Heard
<1>11. CASE e.kind = "not"
  <2>1. Condition(e, x) = {~ b : b \in heard}
    BY <1>6, <1>11
  <2>2. TRUE \in Condition(e, x) <=> FALSE \in heard
    BY <2>1, <1>1
  <2>3. FALSE \in Condition(e, x) <=> TRUE \in heard
    BY <2>1, <1>1
  <2>4. hit <=> ~ miss
    <3>1. DOMAIN Kids(e) = {1}
      <4>1. Kids(e) # <<>>
        BY <1>11, TreeKinds, Zenon
      <4>2. Kids(e) \in Seq(ToSet(Kids(e))) /\ Len(Kids(e)) = 1
        BY <1>11, <4>1, TreeKinds DEF Fits
      <4>3. QED
        BY <4>2
    <3>2. QED
      BY <3>1 DEF hit, miss
  <2>5. Condition(e, x) \subseteq BOOLEAN
    BY <2>1
  <2>6. QED
    BY <2>2, <2>3, <2>4, <2>5, <1>2, <1>3, <1>7, <1>11, Zenon DEF Heard
<1>12. QED
  BY <1>8, <1>9, <1>10, <1>11

\* An expression Qdrant can be told, and is told as it is.
Plain(e, x) ==
  \A y \in Parts(e) :
    /\ y.kind \in {"predicate", "all_of", "any_of", "not"}
    /\ y.kind = "predicate" => y.pred.strength = "hard" /\ Agrees(y.pred, x)

\* The parts of a well-shaped expression are well-shaped.
LEMMA TreeParts ==
  ASSUME NEW e, NEW n, Tree(e, n)
  PROVE  \A y \in Parts(e) : Tree(y, MaxDepth) /\ Parts(y) \subseteq Parts(e)
<1>1. Within(e, MaxDepth) /\ WellShaped(e)
  BY TreeFits DEF Tree
<1>2. \A y \in Parts(e) : Within(y, MaxDepth) /\ Parts(y) \subseteq Parts(e)
  BY <1>1, PartsClosed, Zenon
<1>3. \A y \in Parts(e) : WellShaped(y)
  BY <1>1, <1>2, Zenon DEF WellShaped
<1>4. MaxDepth \in 1 .. MaxDepth
  BY DepthNat
<1>5. QED
  BY <1>2, <1>3, <1>4, Zenon DEF Tree

LEMMA PlainHeard ==
  ASSUME NEW e, NEW n, Tree(e, n), NEW x, Plain(e, x)
  PROVE  Heard(e, x)
<1> DEFINE T == {y \in Parts(e) : Heard(y, x)}
<1>1. Within(e, MaxDepth)
  BY TreeFits
<1>2. ASSUME NEW y \in Parts(e), \A i \in DOMAIN Kids(y) : Kids(y)[i] \in T
      PROVE  y \in T
  <2>1. Tree(y, MaxDepth)
    BY TreeParts
  <2>2. \A i \in DOMAIN Kids(y) : Heard(Kids(y)[i], x)
    BY <1>2
  <2>3. /\ y.kind \in {"predicate", "all_of", "any_of", "not"}
        /\ y.kind = "predicate" => y.pred.strength = "hard" /\ Agrees(y.pred, x)
    BY DEF Plain
  <2>4. Heard(y, x)
    BY <2>1, <2>2, <2>3, NodeHeard
  <2>5. QED
    BY <2>4
<1> HIDE DEF T
<1>3. Parts(e) \subseteq T
  BY <1>1, <1>2, ByParts
<1>4. e \in Parts(e)
  BY <1>1, PartsClosed
<1>5. QED
  BY <1>3, <1>4 DEF T

\* A branch of an expression is told as it is, and says at least as much.
Tells(e, b, x) ==
  /\ Plain(b, x)
  /\ Matches(b, x) => Matches(e, x)
  /\ (\A y \in Parts(e) : y.kind # "fallback") => (Matches(e, x) => Matches(b, x))

\* The kids of an inner node of such an expression.
LEMMA AskedKids ==
  ASSUME NEW e, NEW n, Tree(e, n), AskedInFull(e), NEW y \in Parts(e)
  PROVE  /\ y.kind \in {"predicate", "all_of", "any_of", "not", "fallback"}
         /\ y.kind = "not" => \A z \in Parts(y) : z.kind # "fallback"
         /\ y.kind = "predicate" => y.pred.strength = "hard" /\ y.pred \in PredicatesOf(e)
<1>1. Tree(y, MaxDepth)
  BY TreeParts
<1>2. y.kind \in {"all_of", "any_of", "not", "prefer", "fallback", "predicate", "entity_ref"}
  BY <1>1, TreeKinds, Zenon
<1>3. y.kind \notin {"prefer", "entity_ref"}
  BY DEF AskedInFull
<1>4. y.kind = "not" => \A z \in Parts(y) : z.kind # "fallback"
  BY DEF AskedInFull, NegatesFallback
<1>5. y.kind = "predicate" => y.pred.strength = "hard" /\ y.pred \in PredicatesOf(e)
  BY DEF AskedInFull, PredicatesOf
<1>6. QED
  BY <1>2, <1>3, <1>4, <1>5

\* A node of branches of the kids.
LEMMA NodeTells ==
  ASSUME NEW e, NEW n, Tree(e, n), NEW x, e.kind \in {"all_of", "any_of", "not"},
         e.kind = "not" => \A z \in Parts(e) : z.kind # "fallback",
         NEW b, Tree(b, n), b.kind = e.kind, DOMAIN Kids(b) = DOMAIN Kids(e),
         \A i \in DOMAIN Kids(e) : Tells(Kids(e)[i], Kids(b)[i], x)
  PROVE  Tells(e, b, x)
<1>1. Within(e, MaxDepth) /\ Within(b, MaxDepth)
  BY TreeFits
<1>2. Parts(b) = {b} \cup UNION {Parts(k) : k \in ToSet(Kids(b))}
  BY <1>1, PartsOf, Zenon
<1>3. Plain(b, x)
  <2>1. SUFFICES ASSUME NEW y \in Parts(b)
                 PROVE  /\ y.kind \in {"predicate", "all_of", "any_of", "not"}
                        /\ y.kind = "predicate" => y.pred.strength = "hard" /\ Agrees(y.pred, x)
    BY Zenon DEF Plain
  <2>2. CASE y = b
    BY <2>2
  <2>3. CASE y # b
    <3>1. PICK i \in DOMAIN Kids(b) : y \in Parts(Kids(b)[i])
      BY <1>2, <2>3 DEF ToSet
    <3>2. Plain(Kids(b)[i], x)
      BY DEF Tells
    <3>3. QED
      BY <3>1, <3>2, Zenon DEF Plain
  <2>4. QED
    BY <2>2, <2>3
<1>4. \A i \in DOMAIN Kids(e) : Matches(Kids(b)[i], x) => Matches(Kids(e)[i], x)
  BY Zenon DEF Tells
<1>5. (\A y \in Parts(e) : y.kind # "fallback") =>
        \A i \in DOMAIN Kids(e) : Matches(Kids(e)[i], x) => Matches(Kids(b)[i], x)
  <2>1. SUFFICES ASSUME \A y \in Parts(e) : y.kind # "fallback", NEW i \in DOMAIN Kids(e)
                 PROVE  Matches(Kids(e)[i], x) => Matches(Kids(b)[i], x)
    BY Zenon
  <2>2. Kids(e)[i] \in Parts(e)
    BY <1>1, PartsClosed, Zenon
  <2>3. Parts(Kids(e)[i]) \subseteq Parts(e)
    BY <1>1, <2>2, PartsClosed, Zenon
  <2>4. Tells(Kids(e)[i], Kids(b)[i], x)
    OBVIOUS
  <2>5. QED
    BY <2>1, <2>3, <2>4, Zenon DEF Tells
<1>6. /\ e.kind = "any_of" => (Matches(e, x) <=> \E i \in DOMAIN Kids(e) : Matches(Kids(e)[i], x))
      /\ e.kind = "all_of" => (Matches(e, x) <=> \A i \in DOMAIN Kids(e) : Matches(Kids(e)[i], x))
      /\ e.kind = "not" => (Matches(e, x) <=> ~ \E i \in DOMAIN Kids(e) : Matches(Kids(e)[i], x))
  BY MatchesKinds
<1>7. /\ b.kind = "any_of" => (Matches(b, x) <=> \E i \in DOMAIN Kids(b) : Matches(Kids(b)[i], x))
      /\ b.kind = "all_of" => (Matches(b, x) <=> \A i \in DOMAIN Kids(b) : Matches(Kids(b)[i], x))
      /\ b.kind = "not" => (Matches(b, x) <=> ~ \E i \in DOMAIN Kids(b) : Matches(Kids(b)[i], x))
  BY MatchesKinds
<1>8. CASE e.kind = "any_of"
  <2>1. b.kind = "any_of"
    BY <1>8
  <2>2. QED
    BY <2>1, <1>3, <1>4, <1>5, <1>6, <1>7, <1>8, Zenon DEF Tells
<1>9. CASE e.kind = "all_of"
  <2>1. b.kind = "all_of"
    BY <1>9
  <2>2. QED
    BY <2>1, <1>3, <1>4, <1>5, <1>6, <1>7, <1>9, Zenon DEF Tells
<1>10. CASE e.kind = "not"
  <2>1. b.kind = "not"
    BY <1>10
  <2>2. \A i \in DOMAIN Kids(e) : Matches(Kids(e)[i], x) => Matches(Kids(b)[i], x)
    BY <1>5, <1>10, Zenon
  <2>3. QED
    BY <2>1, <2>2, <1>3, <1>4, <1>6, <1>7, <1>10, Zenon DEF Tells
<1>11. QED
  BY <1>8, <1>9, <1>10

\* The branches of an expression Qdrant is asked in full.
LEMMA BranchesTell ==
  ASSUME NEW e, NEW n, Tree(e, n), AskedInFull(e), NEW x,
         \A p \in PredicatesOf(e) : Agrees(p, x)
  PROVE  \A b \in ToSet(FallbackBranches(e)) : Tells(e, b, x)
<1> DEFINE T == {y \in Parts(e) : \A b \in ToSet(FallbackBranches(y)) : Tells(y, b, x)}
<1>1. Within(e, MaxDepth) /\ MaxDepth \in Nat
  BY TreeFits, DepthNat
<1>2. ASSUME NEW y \in Parts(e), \A i \in DOMAIN Kids(y) : Kids(y)[i] \in T
      PROVE  y \in T
  <2>1. Tree(y, MaxDepth)
    BY TreeParts
  <2>2. /\ y.kind \in {"predicate", "all_of", "any_of", "not", "fallback"}
        /\ y.kind = "not" => \A z \in Parts(y) : z.kind # "fallback"
        /\ y.kind = "predicate" => y.pred.strength = "hard" /\ y.pred \in PredicatesOf(e)
    BY AskedKids
  <2>3. \A i \in DOMAIN Kids(y) : \A b \in ToSet(FallbackBranches(Kids(y)[i])) :
          Tells(Kids(y)[i], b, x)
    BY <1>2
  <2>4. SUFFICES ASSUME NEW b \in ToSet(FallbackBranches(y)) PROVE Tells(y, b, x)
    BY DEF T
  <2>5. CASE Kids(y) = <<>>
    <3>1. FallbackBranches(y) = <<y>>
      BY <2>1, <2>5, BranchesNext DEF BranchesAt
    <3>2. b = y
      BY <3>1 DEF ToSet
    <3>3. y.kind = "predicate"
      BY <2>1, <2>2, <2>5, TreeKinds
    <3>4. Parts(y) = {y}
      BY <2>1, <2>5, TreeFits, PartsOf DEF ToSet
    <3>5. y.pred.strength = "hard" /\ Agrees(y.pred, x)
      BY <2>2, <3>3
    <3>6. Plain(y, x)
      BY <3>3, <3>4, <3>5 DEF Plain
    <3>7. QED
      BY <3>2, <3>6 DEF Tells
  <2>6. CASE y.kind = "fallback"
    <3>1. /\ 1 \in DOMAIN Kids(y) /\ 2 \in DOMAIN Kids(y)
          /\ FallbackBranches(y)
               = Cut(FallbackBranches(Kids(y)[1]) \o FallbackBranches(Kids(y)[2]))
      BY <2>1, <2>6, FallbackKids
    <3>2. \A i \in DOMAIN Kids(y) : Tree(Kids(y)[i], MaxDepth)
      <4>1. \A i \in DOMAIN Kids(y) : Kids(y)[i] \in Parts(e)
        BY <1>1, PartsClosed, Zenon
      <4>2. QED
        BY <4>1, TreeParts, Zenon
    <3> DEFINE s == FallbackBranches(Kids(y)[1])
               t == FallbackBranches(Kids(y)[2])
    <3>3. s \in Seq(ToSet(s)) /\ t \in Seq(ToSet(t))
      BY <3>1, <3>2, BranchesFacts DEF IsBranches
    <3>4. b \in ToSet(s) \/ b \in ToSet(t)
      <4>1. b \in ToSet(Cut(s \o t))
        BY <3>1
      <4> HIDE DEF s, t
      <4> DEFINE S == ToSet(s) \cup ToSet(t)
      <4>2. s \in Seq(S) /\ t \in Seq(S)
        BY <3>3
      <4> HIDE DEF S
      <4>3. s \o t \in Seq(S) /\ ToSet(s \o t) = ToSet(s) \cup ToSet(t)
        BY <4>2, ToSetConcat
      <4>4. ToSet(Cut(s \o t)) \subseteq ToSet(s \o t)
        BY <4>3, CutFacts
      <4>5. QED
        BY <4>1, <4>3, <4>4
    <3>5. PICK i \in DOMAIN Kids(y) : b \in ToSet(FallbackBranches(Kids(y)[i]))
      BY <3>1, <3>4
    <3>6. Tells(Kids(y)[i], b, x)
      BY <2>3, <3>5
    <3>7. Matches(Kids(y)[i], x) => Matches(y, x)
      BY <2>1, <2>6, MatchesKinds
    <3>8. \E z \in Parts(y) : z.kind = "fallback"
      <4>1. y \in Parts(y)
        BY <2>1, TreeFits, PartsClosed, Zenon
      <4>2. QED
        BY <2>6, <4>1
    <3>9. QED
      BY <3>6, <3>7, <3>8, Zenon DEF Tells
  <2>7. CASE Kids(y) # <<>> /\ y.kind # "fallback"
    <3>1. y.kind \in {"all_of", "any_of", "not"}
      BY <2>1, <2>2, <2>7, TreeKinds
    <3>2. \A i \in DOMAIN Kids(y) : MaxDepth - 1 \in 1 .. MaxDepth /\ Tree(Kids(y)[i], MaxDepth - 1)
      <4>1. \A k \in ToSet(Kids(y)) : MaxDepth - 1 \in 1 .. MaxDepth /\ Tree(k, MaxDepth - 1)
        BY <2>1, TreeBelow
      <4>2. QED
        BY <4>1 DEF ToSet
    <3>3. \A i \in DOMAIN Kids(y) :
            IsBranches(FallbackBranches(Kids(y)[i]), Kids(y)[i], MaxDepth - 1)
      BY <3>2, BranchesFacts
    <3>4. MaxDepth - 1 \in 1 .. MaxDepth
      BY DepthNat
    <3> DEFINE nodes == [i \in DOMAIN Picks(Ways(y)) |-> Node(y.kind, Picks(Ways(y))[i])]
    <3>5. /\ FallbackBranches(y) = Cut(nodes)
          /\ nodes \in Seq(ToSet(nodes))
          /\ \A c \in ToSet(nodes) : \E p \in ToSet(Picks(Ways(y))) :
               /\ c = Node(y.kind, p) /\ DOMAIN p = DOMAIN Kids(y)
               /\ \A i \in DOMAIN Kids(y) : p[i] \in ToSet(FallbackBranches(Kids(y)[i]))
               /\ Tree(c, MaxDepth) /\ Kids(c) = p /\ c.kind = y.kind
      BY <2>1, <2>7, <3>3, <3>4, NodeBranches
    <3> HIDE DEF nodes
    <3>6. b \in ToSet(nodes)
      <4>1. ToSet(Cut(nodes)) \subseteq ToSet(nodes)
        BY <3>5, CutFacts
      <4>2. QED
        BY <3>5, <4>1
    <3>7. PICK p \in ToSet(Picks(Ways(y))) :
            /\ DOMAIN p = DOMAIN Kids(y)
            /\ \A i \in DOMAIN Kids(y) : p[i] \in ToSet(FallbackBranches(Kids(y)[i]))
            /\ Tree(b, MaxDepth) /\ Kids(b) = p /\ b.kind = y.kind
      BY <3>5, <3>6, Zenon
    <3>8. \A i \in DOMAIN Kids(y) : Tells(Kids(y)[i], Kids(b)[i], x)
      BY <2>3, <3>7, Zenon
    <3>9. DOMAIN Kids(b) = DOMAIN Kids(y)
      BY <3>7, Zenon
    <3>10. Tree(b, MaxDepth) /\ b.kind = y.kind
      BY <3>7, Zenon
    <3>11. QED
      BY <2>1, <2>2, <3>1, <3>8, <3>9, <3>10, NodeTells
  <2>8. QED
    BY <2>5, <2>6, <2>7
<1> HIDE DEF T
<1>3. Parts(e) \subseteq T
  BY <1>1, <1>2, ByParts
<1>4. e \in Parts(e)
  BY <1>1, PartsClosed
<1>5. QED
  BY <1>3, <1>4 DEF T

\* What an expression demands, one by one.
Demands(e) ==
  IF e = NoExpr THEN {} ELSE IF e.kind = "all_of" THEN ToSet(Kids(e)) ELSE {e}

\* A conjunction demands what its halves demand.
LEMMA ConjoinDemands ==
  ASSUME NEW l, NEW r, NEW n, Opt(l, n), Opt(r, n)
  PROVE  /\ Demands(Conjoin(l, r)) = Demands(l) \cup Demands(r)
         /\ l # NoExpr /\ r # NoExpr =>
              Conjoin(l, r).kind = "all_of" /\ Conjoin(l, r) # NoExpr
<1>1. CASE l = NoExpr
  BY <1>1 DEF Conjoin, Demands
<1>2. CASE l # NoExpr /\ r = NoExpr
  BY <1>2 DEF Conjoin, Demands
<1>3. CASE l # NoExpr /\ r # NoExpr
  <2> DEFINE parts(e) == IF e.kind = "all_of" THEN Kids(e) ELSE <<e>>
  <2>1. Tree(l, n) /\ Tree(r, n)
    BY <1>3 DEF Opt
  <2>2. ASSUME NEW e, Tree(e, n)
        PROVE  parts(e) \in Seq(ToSet(parts(e))) /\ ToSet(parts(e)) = Demands(e)
    <3>1. e # NoExpr
      BY <2>2, TreeThere
    <3>2. CASE e.kind = "all_of"
      <4>1. Kids(e) \in Seq(ToSet(Kids(e)))
        BY <2>2, TreeKinds
      <4>2. QED
        BY <3>1, <3>2, <4>1 DEF Demands
    <3>3. CASE e.kind # "all_of"
      <4>1. parts(e) = <<e>> /\ <<e>> \in Seq({e}) /\ ToSet(<<e>>) = {e}
        BY <3>3 DEF ToSet
      <4>2. Demands(e) = {e}
        BY <3>1, <3>3 DEF Demands
      <4> HIDE DEF parts
      <4>3. QED
        BY <4>1, <4>2
    <3>4. QED
      BY <3>2, <3>3
  <2> DEFINE a == parts(l)
             b == parts(r)
             S == ToSet(a) \cup ToSet(b)
  <2>3. Conjoin(l, r) = Node("all_of", a \o b)
    BY <1>3 DEF Conjoin
  <2>4. a \in Seq(ToSet(a)) /\ ToSet(a) = Demands(l)
    BY <2>1, <2>2
  <2>5. b \in Seq(ToSet(b)) /\ ToSet(b) = Demands(r)
    BY <2>1, <2>2
  <2> HIDE DEF parts, a, b
  <2>6. a \in Seq(S) /\ b \in Seq(S)
    BY <2>4, <2>5
  <2> HIDE DEF S
  <2>7. ToSet(a \o b) = ToSet(a) \cup ToSet(b)
    BY <2>6, ToSetConcat
  <2>8. Conjoin(l, r).kind = "all_of" /\ Kids(Conjoin(l, r)) = a \o b
    BY <2>3, NodeKids
  <2>9. Conjoin(l, r) # NoExpr
    BY <2>8, NoKids
  <2>10. Demands(Conjoin(l, r)) = ToSet(a \o b)
    BY <2>8, <2>9 DEF Demands
  <2>11. QED
    BY <2>4, <2>5, <2>7, <2>8, <2>9, <2>10
<1>4. QED
  BY <1>1, <1>2, <1>3

\* A product that Qdrant accepts.
Passes(e, x) == FALSE \notin Condition(e, x)

\* What passes a conjunction passes all it demands.
LEMMA DemandsPass ==
  ASSUME NEW e, NEW n, Opt(e, n), NEW x, Passes(e, x)
  PROVE  \A k \in Demands(e) : Passes(k, x)
<1>1. SUFFICES ASSUME NEW k \in Demands(e) PROVE Passes(k, x)
  OBVIOUS
<1>2. CASE e.kind # "all_of"
  BY <1>1, <1>2 DEF Demands
<1>3. CASE e.kind = "all_of"
  <2> DEFINE heard == UNION {Condition(Kids(e)[i], x) : i \in DOMAIN Kids(e)}
  <2>1. Tree(e, n) /\ k \in ToSet(Kids(e))
    BY <1>1, <1>3 DEF Opt, Demands
  <2>2. FALSE \in Condition(k, x) => FALSE \in heard
    BY <2>1 DEF ToSet
  <2>3. heard = UNION {Condition(Kids(e)[i], x) : i \in DOMAIN Kids(e)}
    OBVIOUS
  <2> HIDE DEF heard
  <2>4. heard # {} => Condition(e, x) = IF FALSE \in heard THEN {FALSE} ELSE {TRUE}
    BY <1>3, <2>1, <2>3, ConditionKinds
  <2>5. QED
    BY <2>2, <2>4 DEF Passes
<1>4. QED
  BY <1>2, <1>3

\* What passes everything a conjunction demands passes it.
LEMMA PassesDemands ==
  ASSUME NEW e, NEW n, Opt(e, n), NEW x, \A k \in Demands(e) : Passes(k, x)
  PROVE  Passes(e, x)
<1>1. CASE e = NoExpr
  <2>1. Condition(e, x) = ConditionAt([i \in DOMAIN Kids(e) |-> Asking!Value(Kids(e)[i], x)], e, x)
    BY OptFits, AskingUnfolds DEF Condition
  <2>2. e.kind = "none"
    BY <1>1, NoKids
  <2>3. QED
    BY <2>1, <2>2 DEF ConditionAt, Passes
<1>2. CASE e # NoExpr /\ e.kind # "all_of"
  BY <1>2 DEF Demands
<1>3. CASE e # NoExpr /\ e.kind = "all_of"
  <2> DEFINE heard == UNION {Condition(Kids(e)[i], x) : i \in DOMAIN Kids(e)}
  <2>1. Tree(e, n)
    BY <1>3 DEF Opt
  <2>2. \A i \in DOMAIN Kids(e) : Passes(Kids(e)[i], x)
    BY <1>3 DEF Demands, ToSet
  <2>3. FALSE \notin heard
    BY <2>2 DEF Passes
  <2>4. heard = UNION {Condition(Kids(e)[i], x) : i \in DOMAIN Kids(e)}
    OBVIOUS
  <2> HIDE DEF heard
  <2>5. heard = {} => Condition(e, x) = {}
    BY <1>3, <2>1, <2>4, ConditionKinds
  <2>6. heard # {} => Condition(e, x) = IF FALSE \in heard THEN {FALSE} ELSE {TRUE}
    BY <1>3, <2>1, <2>4, ConditionKinds
  <2>7. QED
    BY <2>3, <2>5, <2>6 DEF Passes
<1>4. QED
  BY <1>1, <1>2, <1>3

\* What passes a branch of an expression passes a branch of all it demands.
BranchPasses(e, x) == \E b \in ToSet(FallbackBranches(e)) : Passes(b, x)

LEMMA BranchDemands ==
  ASSUME NEW e, NEW n, Opt(e, n), NEW x, BranchPasses(e, x)
  PROVE  \A k \in Demands(e) : BranchPasses(k, x)
<1>1. SUFFICES ASSUME NEW k \in Demands(e) PROVE BranchPasses(k, x)
  OBVIOUS
<1>2. CASE e.kind # "all_of"
  BY <1>1, <1>2 DEF Demands
<1>3. CASE e.kind = "all_of"
  <2>1. Tree(e, n) /\ k \in ToSet(Kids(e)) /\ e # NoExpr
    BY <1>1, <1>3 DEF Opt, Demands
  <2>2. PICK b \in ToSet(FallbackBranches(e)) : Passes(b, x)
    BY DEF BranchPasses
  <2>3. \A j \in ToSet(Kids(e)) : n - 1 \in 1 .. MaxDepth /\ Tree(j, n - 1)
    BY <2>1, TreeBelow
  <2>4. \A i \in DOMAIN Kids(e) : Tree(Kids(e)[i], n - 1)
    BY <2>3 DEF ToSet
  <2>5. \A i \in DOMAIN Kids(e) :
          IsBranches(FallbackBranches(Kids(e)[i]), Kids(e)[i], n - 1)
    BY <2>4, BranchesFacts
  <2>6. n - 1 \in 1 .. MaxDepth /\ Kids(e) # <<>>
    <3>1. Kids(e) # <<>>
      BY <1>3, <2>1, TreeKinds
    <3>2. QED
      BY <2>1, <2>3, <3>1
  <2> DEFINE nodes == [i \in DOMAIN Picks(Ways(e)) |-> Node(e.kind, Picks(Ways(e))[i])]
  <2>7. /\ FallbackBranches(e) = Cut(nodes)
        /\ nodes \in Seq(ToSet(nodes))
        /\ \A c \in ToSet(nodes) : \E p \in ToSet(Picks(Ways(e))) :
             /\ c = Node(e.kind, p) /\ DOMAIN p = DOMAIN Kids(e)
             /\ \A i \in DOMAIN Kids(e) : p[i] \in ToSet(FallbackBranches(Kids(e)[i]))
             /\ Tree(c, n) /\ Kids(c) = p /\ c.kind = e.kind
    BY <1>3, <2>1, <2>5, <2>6, NodeBranches
  <2> HIDE DEF nodes
  <2>8. b \in ToSet(nodes)
    <3>1. ToSet(Cut(nodes)) \subseteq ToSet(nodes)
      BY <2>7, CutFacts
    <3>2. QED
      BY <2>7, <3>1
  <2>9. PICK p \in ToSet(Picks(Ways(e))) :
          /\ DOMAIN p = DOMAIN Kids(e)
          /\ \A i \in DOMAIN Kids(e) : p[i] \in ToSet(FallbackBranches(Kids(e)[i]))
          /\ Tree(b, n) /\ Kids(b) = p /\ b.kind = e.kind
    BY <2>7, <2>8, Zenon
  <2>10. PICK i \in DOMAIN Kids(e) : k = Kids(e)[i]
    BY <2>1 DEF ToSet
  <2>11. Tree(b, n) /\ b.kind = "all_of" /\ Opt(b, n) /\ b # NoExpr
    BY <1>3, <2>9, TreeThere DEF Opt
  <2>12. p[i] \in Demands(b)
    BY <2>9, <2>11 DEF Demands, ToSet
  <2>13. Passes(p[i], x)
    BY <2>2, <2>11, <2>12, DemandsPass
  <2>14. QED
    BY <2>9, <2>10, <2>13 DEF BranchPasses
<1>4. QED
  BY <1>2, <1>3

\* A part of what is asked in full is asked in full.
LEMMA AskedParts ==
  ASSUME NEW e, NEW n, Tree(e, n), AskedInFull(e), NEW y \in Parts(e)
  PROVE  AskedInFull(y) /\ PredicatesOf(y) \subseteq PredicatesOf(e)
<1>1. Parts(y) \subseteq Parts(e)
  BY TreeParts
<1>2. ~ NegatesFallback(y)
  BY <1>1 DEF AskedInFull, NegatesFallback
<1>3. QED
  BY <1>1, <1>2 DEF AskedInFull, PredicatesOf

\* A product that passes a branch of everything an expression demands
\* matches the expression, if Qdrant is asked for it in full.
LEMMA AskedMatches ==
  ASSUME NEW e, NEW n, Opt(e, n), AskedInFull(e), NEW x,
         \A p \in PredicatesOf(e) : Agrees(p, x),
         \A k \in Demands(e) : BranchPasses(k, x)
  PROVE  Matches(e, x)
<1>1. CASE e = NoExpr
  <2>1. Matches(e, x) = MatchesAt([i \in DOMAIN Kids(e) |-> Matching!Value(Kids(e)[i], x)], e, x)
    BY OptFits, MatchingUnfolds DEF Matches
  <2>2. e.kind = "none"
    BY <1>1, NoKids
  <2>3. QED
    BY <2>1, <2>2 DEF MatchesAt
<1>2. ASSUME NEW k, Tree(k, MaxDepth), AskedInFull(k), \A p \in PredicatesOf(k) : Agrees(p, x),
             BranchPasses(k, x)
      PROVE  Matches(k, x)
  <2>1. PICK b \in ToSet(FallbackBranches(k)) : Passes(b, x)
    BY <1>2 DEF BranchPasses
  <2>2. Tells(k, b, x)
    BY <1>2, <2>1, BranchesTell
  <2>3. Tree(b, MaxDepth)
    BY <1>2, <2>1, BranchesFacts DEF IsBranches
  <2>4. Heard(b, x)
    BY <2>2, <2>3, PlainHeard DEF Tells
  <2>5. QED
    BY <2>1, <2>2, <2>4 DEF Passes, Heard, Tells
<1>3. CASE e # NoExpr
  <2>1. Tree(e, n) /\ Within(e, MaxDepth)
    BY <1>3, OptFits DEF Opt
  <2>2. CASE e.kind # "all_of"
    <3>1. e \in Parts(e)
      BY <2>1, PartsClosed
    <3>2. Tree(e, MaxDepth)
      BY <2>1, <3>1, TreeParts
    <3>3. BranchPasses(e, x)
      BY <1>3, <2>2 DEF Demands
    <3>4. QED
      BY <1>2, <3>2, <3>3
  <2>3. CASE e.kind = "all_of"
    <3>1. ASSUME NEW i \in DOMAIN Kids(e) PROVE Matches(Kids(e)[i], x)
      <4>1. Kids(e)[i] \in Parts(e)
        <5>1. e \in Parts(e)
          BY <2>1, PartsClosed
        <5>2. QED
          BY <2>1, <5>1, PartsClosed
      <4>2. Tree(Kids(e)[i], MaxDepth)
        BY <2>1, <4>1, TreeParts
      <4>3. AskedInFull(Kids(e)[i]) /\ PredicatesOf(Kids(e)[i]) \subseteq PredicatesOf(e)
        BY <2>1, <4>1, AskedParts
      <4>4. BranchPasses(Kids(e)[i], x)
        BY <1>3, <2>3 DEF Demands, ToSet
      <4>5. \A p \in PredicatesOf(Kids(e)[i]) : Agrees(p, x)
        BY <4>3
      <4>6. QED
        BY <1>2, <4>2, <4>3, <4>4, <4>5
    <3>2. Matches(e, x) <=> \A i \in DOMAIN Kids(e) : Matches(Kids(e)[i], x)
      BY <2>1, <2>3, MatchesKinds
    <3>3. QED
      BY <3>1, <3>2
  <2>4. QED
    BY <2>2, <2>3
<1>4. QED
  BY <1>1, <1>3
=============================================================================
