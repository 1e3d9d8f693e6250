------------------------------- MODULE Lists -------------------------------
(***************************************************************************)
(* The loops over lists of the product search, by recursion on the number  *)
(* of elements done (Recursion), so that the provers can follow them.      *)
(***************************************************************************)
EXTENDS Integers, Sequences, FiniteSets, SequencesExt, FiniteSetsExt

Lower(n) == IF n = 0 THEN <<>> ELSE <<n - 1>>
UpTo(n) == 0 .. n

\* The elements of a list at some of its positions, in order.
ChosenAt(done, n, c) ==
  IF n = 0 THEN <<>>
  ELSE IF n \in c.at THEN Append(done[1], c.list[n]) ELSE done[1]

Choosing == INSTANCE Recursion WITH Kids <- Lower, Parts <- UpTo, Step <- ChosenAt
Chosen(s, at) == Choosing!Value(Len(s), [list |-> s, at |-> at])

\* The sum of a list of numbers.
TotalAt(done, n, s) == IF n = 0 THEN 0 ELSE done[1] + s[n]

Adding == INSTANCE Recursion WITH Kids <- Lower, Parts <- UpTo, Step <- TotalAt
Total(s) == Adding!Value(Len(s), s)

\* The lists of a list one after the other.
JoinedAt(done, n, ss) == IF n = 0 THEN <<>> ELSE done[1] \o ss[n]

Joining == INSTANCE Recursion WITH Kids <- Lower, Parts <- UpTo, Step <- JoinedAt
Joined(ss) == Joining!Value(Len(ss), ss)

\* Every way to pick one element of each list, the last varying fastest.
PicksAt(done, n, ss) ==
  IF n = 0 THEN << <<>> >>
  ELSE Joined([j \in DOMAIN done[1] |->
                 [i \in DOMAIN ss[n] |-> Append(done[1][j], ss[n][i])]])

Picking == INSTANCE Recursion WITH Kids <- Lower, Parts <- UpTo, Step <- PicksAt
Picks(ss) == Picking!Value(Len(ss), ss)

\* A list without repetitions, each element at its first place.
OnceAt(done, n, s) ==
  IF n = 0 THEN <<>>
  ELSE IF s[n] \in ToSet(done[1]) THEN done[1] ELSE Append(done[1], s[n])

Uniting == INSTANCE Recursion WITH Kids <- Lower, Parts <- UpTo, Step <- OnceAt
Once(s) == Uniting!Value(Len(s), s)
=============================================================================
