----------------------------- MODULE Recursion -----------------------------
(***************************************************************************)
(* The value of a term by recursion on its parts.  The code walks the      *)
(* expressions of a plan with functions that call themselves; here each of *)
(* them is an instance of this module, whose Step makes the value of a     *)
(* term from the values of its immediate parts.                            *)
(***************************************************************************)
EXTENDS Integers, WellFoundedInduction, TLAPS

CONSTANTS
  Kids(_),        \* the immediate parts of a term, a sequence
  Parts(_),       \* the term and everything below it
  Step(_, _, _)   \* the value, from those of the kids, the term and an argument

Value(e, c) ==
  LET of[x \in Parts(e)] == Step([i \in DOMAIN Kids(x) |-> of[Kids(x)[i]]], x, c)
  IN  of[e]

-----------------------------------------------------------------------------
\* A set of natural numbers has a least element.
LEMMA LeastOne ==
  ASSUME NEW T, T \subseteq Nat, T # {}
  PROVE  \E n \in T : \A m \in T : n <= m
<1>1. IsWellFoundedOn(OpToRel(<, Nat), Nat)
  BY NatLessThanWellFounded
<1>2. PICK n \in T : \A m \in T : ~ (<<m, n>> \in OpToRel(<, Nat))
  BY <1>1, WFMin
<1>3. \A m \in T : ~ (m < n)
  BY <1>2 DEF OpToRel
<1>4. QED
  BY <1>3

\* The equations of the recursion on the parts of a term below a height.
Solves(of, e, c, height, n) ==
  of = [x \in {y \in Parts(e) : height[y] < n} |->
          Step([i \in DOMAIN Kids(x) |-> of[Kids(x)[i]]], x, c)]

\* Where every kid is lower than its term, the equations have a solution up
\* to every height.
LEMMA Solvable ==
  ASSUME NEW e, NEW c, NEW height, NEW n \in Nat,
         \A x \in Parts(e) : height[x] \in Nat,
         \A x \in Parts(e) : \A i \in DOMAIN Kids(x) :
           Kids(x)[i] \in Parts(e) /\ height[Kids(x)[i]] < height[x]
  PROVE  \E of : Solves(of, e, c, height, n)
<1> DEFINE Bad == {m \in Nat : ~ \E of : Solves(of, e, c, height, m)}
<1>1. SUFFICES ASSUME Bad # {} PROVE FALSE
  OBVIOUS
<1>2. PICK m \in Bad : \A k \in Bad : m <= k
  BY <1>1, LeastOne, Zenon
<1>3. m # 0
  <2> DEFINE none == [x \in {y \in Parts(e) : height[y] < 0} |->
                        Step([i \in DOMAIN Kids(x) |-> x], x, c)]
  <2>1. {y \in Parts(e) : height[y] < 0} = {}
    OBVIOUS
  <2>2. Solves(none, e, c, height, 0)
    BY <2>1 DEF Solves
  <2>3. QED
    BY <2>2
<1>4. m \in Nat /\ m - 1 \in Nat /\ m - 1 < m
  BY <1>3
<1>5. m - 1 \notin Bad
  BY <1>2, <1>4
<1>6. PICK f : Solves(f, e, c, height, m - 1)
  BY <1>4, <1>5
<1> DEFINE At(x) == Step([i \in DOMAIN Kids(x) |-> f[Kids(x)[i]]], x, c)
           g == [x \in {y \in Parts(e) : height[y] < m} |-> At(x)]
<1>7. \A x \in Parts(e) : height[x] < m - 1 => g[x] = f[x]
  <2>1. SUFFICES ASSUME NEW x \in Parts(e), height[x] < m - 1 PROVE g[x] = f[x]
    OBVIOUS
  <2>2. height[x] < m
    BY <2>1, <1>4
  <2>3. f[x] = At(x)
    BY <1>6, <2>1 DEF Solves
  <2>4. QED
    BY <2>2, <2>3
<1>8. \A x \in Parts(e) : height[x] < m => \A i \in DOMAIN Kids(x) : g[Kids(x)[i]] = f[Kids(x)[i]]
  <2>1. SUFFICES ASSUME NEW x \in Parts(e), height[x] < m, NEW i \in DOMAIN Kids(x)
                 PROVE  g[Kids(x)[i]] = f[Kids(x)[i]]
    BY Zenon
  <2>2. Kids(x)[i] \in Parts(e) /\ height[Kids(x)[i]] < m - 1
    BY <2>1, <1>4
  <2>3. QED
    BY <1>7, <2>2, Zenon
<1> HIDE DEF g
<1>9. \A x \in Parts(e) : height[x] < m =>
        Step([i \in DOMAIN Kids(x) |-> g[Kids(x)[i]]], x, c) = At(x)
  <2>1. SUFFICES ASSUME NEW x \in Parts(e), height[x] < m
                 PROVE  [i \in DOMAIN Kids(x) |-> g[Kids(x)[i]]]
                          = [i \in DOMAIN Kids(x) |-> f[Kids(x)[i]]]
    BY Zenon
  <2>2. QED
    BY <1>8, <2>1
<1>10. Solves(g, e, c, height, m)
  <2>1. [x \in {y \in Parts(e) : height[y] < m} |->
           Step([i \in DOMAIN Kids(x) |-> g[Kids(x)[i]]], x, c)]
        = [x \in {y \in Parts(e) : height[y] < m} |-> At(x)]
    BY <1>9
  <2>2. QED
    BY <2>1, Zenon DEF Solves, g
<1>11. QED
  BY <1>2, <1>10, Zenon

\* Two solutions agree on what is part of both terms.
LEMMA Agree ==
  ASSUME NEW e, NEW k, NEW c, NEW height, NEW n \in Nat, NEW f, NEW g,
         Parts(k) \subseteq Parts(e),
         \A x \in Parts(e) : height[x] \in Nat,
         \A x \in Parts(e) : \A i \in DOMAIN Kids(x) :
           Kids(x)[i] \in Parts(e) /\ height[Kids(x)[i]] < height[x],
         \A x \in Parts(k) : \A i \in DOMAIN Kids(x) : Kids(x)[i] \in Parts(k),
         Solves(f, e, c, height, n), Solves(g, k, c, height, n)
  PROVE  \A x \in Parts(k) : height[x] < n => f[x] = g[x]
<1> DEFINE Bad == {m \in Nat : \E x \in Parts(k) : height[x] = m /\ m < n /\ f[x] # g[x]}
<1>1. SUFFICES ASSUME NEW y \in Parts(k), height[y] < n, f[y] # g[y]
               PROVE  FALSE
  OBVIOUS
<1>2. height[y] \in Bad
  BY <1>1
<1>3. PICK m \in Bad : \A j \in Bad : m <= j
  <2>1. Bad \subseteq Nat /\ Bad # {}
    BY <1>2
  <2>2. QED
    BY <2>1, LeastOne, Zenon
<1>4. PICK x \in Parts(k) : height[x] = m /\ m < n /\ f[x] # g[x]
  BY <1>3
<1>5. m \in Nat /\ x \in Parts(e)
  BY <1>3
<1>6. \A i \in DOMAIN Kids(x) : f[Kids(x)[i]] = g[Kids(x)[i]]
  <2>1. SUFFICES ASSUME NEW i \in DOMAIN Kids(x) PROVE f[Kids(x)[i]] = g[Kids(x)[i]]
    OBVIOUS
  <2>2. Kids(x)[i] \in Parts(k) /\ Kids(x)[i] \in Parts(e)
        /\ height[Kids(x)[i]] \in Nat /\ height[Kids(x)[i]] < m
    BY <1>4, <1>5
  <2>3. height[Kids(x)[i]] \notin Bad /\ height[Kids(x)[i]] < n
    BY <1>3, <1>4, <1>5, <2>2
  <2>4. QED
    BY <2>2, <2>3
<1>7. f[x] = Step([i \in DOMAIN Kids(x) |-> f[Kids(x)[i]]], x, c)
  BY <1>4, <1>5 DEF Solves
<1>8. g[x] = Step([i \in DOMAIN Kids(x) |-> g[Kids(x)[i]]], x, c)
  BY <1>4, <1>5 DEF Solves
<1>9. [i \in DOMAIN Kids(x) |-> f[Kids(x)[i]]] = [i \in DOMAIN Kids(x) |-> g[Kids(x)[i]]]
  BY <1>6
<1>10. QED
  BY <1>4, <1>7, <1>8, <1>9, Zenon

\* The value is the one of the solution for all parts.
LEMMA ValueSolves ==
  ASSUME NEW e, NEW c, NEW height, NEW n \in Nat,
         \A x \in Parts(e) : height[x] \in Nat /\ height[x] < n,
         \A x \in Parts(e) : \A i \in DOMAIN Kids(x) :
           Kids(x)[i] \in Parts(e) /\ height[Kids(x)[i]] < height[x]
  PROVE  \E of : Solves(of, e, c, height, n) /\ Value(e, c) = of[e]
<1> DEFINE F(of) == [x \in Parts(e) |-> Step([i \in DOMAIN Kids(x) |-> of[Kids(x)[i]]], x, c)]
           v == CHOOSE of : of = F(of)
<1>1. {y \in Parts(e) : height[y] < n} = Parts(e)
  OBVIOUS
<1>2. \A of : Solves(of, e, c, height, n) <=> of = F(of)
  BY <1>1, Zenon DEF Solves
<1>3. \E of : Solves(of, e, c, height, n)
  BY Solvable
<1>4. \E of : of = F(of)
  BY <1>2, <1>3, Zenon
<1>5. v = F(v)
  BY <1>4, Zenon
<1>6. Value(e, c) = v[e]
  BY DEF Value
<1>7. Solves(v, e, c, height, n)
  BY <1>2, <1>5, Zenon
<1>8. QED
  BY <1>6, <1>7, Zenon

\* Where every kid is lower than its term and the parts of a part are parts,
\* the value of a term is made from the values of its kids.
THEOREM Unfolds ==
  ASSUME NEW e, NEW c, NEW height, NEW n \in Nat,
         e \in Parts(e),
         \A x \in Parts(e) : height[x] \in Nat /\ height[x] < n,
         \A x \in Parts(e) : \A i \in DOMAIN Kids(x) :
           /\ Kids(x)[i] \in Parts(e)
           /\ height[Kids(x)[i]] < height[x],
         \A x \in Parts(e) :
           /\ x \in Parts(x)
           /\ Parts(x) \subseteq Parts(e)
           /\ \A y \in Parts(x) : \A i \in DOMAIN Kids(y) : Kids(y)[i] \in Parts(x)
  PROVE  Value(e, c) = Step([i \in DOMAIN Kids(e) |-> Value(Kids(e)[i], c)], e, c)
<1>1. PICK f : Solves(f, e, c, height, n) /\ Value(e, c) = f[e]
  BY ValueSolves
<1>2. f[e] = Step([i \in DOMAIN Kids(e) |-> f[Kids(e)[i]]], e, c)
  BY <1>1 DEF Solves
<1>3. \A i \in DOMAIN Kids(e) : Value(Kids(e)[i], c) = f[Kids(e)[i]]
  <2>1. SUFFICES ASSUME NEW i \in DOMAIN Kids(e) PROVE Value(Kids(e)[i], c) = f[Kids(e)[i]]
    OBVIOUS
  <2> DEFINE k == Kids(e)[i]
  <2>2. /\ k \in Parts(e) /\ k \in Parts(k) /\ Parts(k) \subseteq Parts(e)
        /\ \A y \in Parts(k) : \A j \in DOMAIN Kids(y) : Kids(y)[j] \in Parts(k)
    OBVIOUS
  <2> HIDE DEF k
  <2>3. /\ \A x \in Parts(k) : height[x] \in Nat /\ height[x] < n
        /\ \A x \in Parts(k) : \A j \in DOMAIN Kids(x) :
             Kids(x)[j] \in Parts(k) /\ height[Kids(x)[j]] < height[x]
    BY <2>2
  <2>4. PICK g : Solves(g, k, c, height, n) /\ Value(k, c) = g[k]
    BY <2>3, ValueSolves
  <2>5. \A x \in Parts(k) : height[x] < n => f[x] = g[x]
    <3>1. /\ \A x \in Parts(e) : height[x] \in Nat
          /\ \A x \in Parts(e) : \A j \in DOMAIN Kids(x) :
               Kids(x)[j] \in Parts(e) /\ height[Kids(x)[j]] < height[x]
      OBVIOUS
    <3>2. Solves(f, e, c, height, n) /\ Solves(g, k, c, height, n)
      BY <1>1, <2>4
    <3>3. QED
      BY <2>2, <3>1, <3>2, Agree
  <2>6. QED
    BY <2>2, <2>3, <2>4, <2>5 DEF k
<1>4. [i \in DOMAIN Kids(e) |-> Value(Kids(e)[i], c)] = [i \in DOMAIN Kids(e) |-> f[Kids(e)[i]]]
  BY <1>3
<1>5. QED
  BY <1>1, <1>2, <1>4, Zenon
=============================================================================
