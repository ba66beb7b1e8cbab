----------------------------- MODULE FoldFacts -----------------------------
(***************************************************************************)
(* Induction over the natural numbers, put as a fact about a set, and what *)
(* FoldLeft of the community modules is for an operator Op with a context: *)
(* the last of the values that follow one another from the first to the    *)
(* last element of the sequence. A module that folds takes an instance     *)
(* with its own operator for Op.                                           *)
(***************************************************************************)
EXTENDS Integers, Sequences, SequencesExt, NaturalsInduction, WellFoundedInduction, TLAPS

CONSTANT Op(_, _, _)

\* A set of numbers that has 0, and with each number the next, has them all.
LEMMA SetInduction ==
    ASSUME NEW T, 0 \in T, \A n \in Nat : n \in T => n + 1 \in T
    PROVE  Nat \subseteq T
<1>1. SUFFICES ASSUME Nat \ T # {} PROVE FALSE
  OBVIOUS
<1>2. IsWellFoundedOn(OpToRel(<, Nat), Nat)
  BY NatLessThanWellFounded
<1>3. PICK m \in Nat \ T : \A k \in Nat \ T : ~(<<k, m>> \in OpToRel(<, Nat))
  BY <1>1, <1>2, WFMin
<1>4. m - 1 \in Nat /\ m - 1 < m /\ (m - 1) + 1 = m
  OBVIOUS
<1>5. m - 1 \in T
  BY <1>3, <1>4 DEF OpToRel
<1> QED
  BY <1>4, <1>5

-----------------------------------------------------------------------------
\* What the fold computes for each set of the first k places.
IsTable(it, c, b, s, k) ==
    it = [t \in SUBSET (1..k) |-> IF t = {} THEN b ELSE Op(c, it[t \ {Max(t)}], s[Max(t)])]

Table(c, b, s, S) ==
    CHOOSE it : it = [t \in SUBSET S |-> IF t = {} THEN b ELSE Op(c, it[t \ {Max(t)}], s[Max(t)])]

LEMMA MaxOf ==
    ASSUME NEW n \in Nat
    PROVE  \A t \in SUBSET (1..n) : t # {} => Max(t) \in t /\ \A x \in t : x <= Max(t)
<1> DEFINE T == {k \in Nat : \A t \in SUBSET (1..k) : t # {} => \E x \in t : \A y \in t : x >= y}
<1>1. 0 \in T
  <2>1. 1..0 = {}
    OBVIOUS
  <2> QED
    BY <2>1
<1>2. ASSUME NEW k \in Nat, k \in T
      PROVE  k + 1 \in T
  <2>1. SUFFICES ASSUME NEW t \in SUBSET (1..(k + 1)), t # {}
                 PROVE  \E x \in t : \A y \in t : x >= y
    OBVIOUS
  <2>2. CASE k + 1 \in t
    <3>1. \A y \in t : k + 1 >= y
      OBVIOUS
    <3> QED
      BY <2>2, <3>1
  <2>3. CASE k + 1 \notin t
    <3>1. t \in SUBSET (1..k)
      BY <2>3
    <3> QED
      BY <3>1, <2>1, <1>2
  <2> QED
    BY <2>2, <2>3
<1>3. n \in T
  <2> HIDE DEF T
  <2> QED
    BY <1>1, <1>2, SetInduction
<1>4. \A t \in SUBSET (1..n) : t # {} => \E x \in t : \A y \in t : x >= y
  BY <1>3
<1> QED
  BY <1>4 DEF Max

LEMMA OneMorePlace ==
    ASSUME NEW c, NEW b, NEW s, NEW k \in Nat, NEW it, IsTable(it, c, b, s, k)
    PROVE  \E new : IsTable(new, c, b, s, k + 1)
<1>1. PICK new : new = [t \in SUBSET (1..(k + 1)) |->
                           IF k + 1 \in t THEN Op(c, it[t \ {k + 1}], s[k + 1]) ELSE it[t]]
  OBVIOUS
<1>2. ASSUME NEW t \in SUBSET (1..(k + 1))
      PROVE  new[t] = IF t = {} THEN b ELSE Op(c, new[t \ {Max(t)}], s[Max(t)])
  <2>0. t # {} => Max(t) \in t /\ \A x \in t : x <= Max(t)
    BY MaxOf, k + 1 \in Nat
  <2>1. CASE k + 1 \in t
    <3>1. Max(t) = k + 1
      <4>1. Max(t) \in 1..(k + 1) /\ k + 1 <= Max(t)
        BY <2>0, <2>1
      <4> QED
        BY <4>1
    <3>2. t \ {k + 1} \in SUBSET (1..(k + 1)) /\ k + 1 \notin t \ {k + 1}
      OBVIOUS
    <3>3. new[t \ {k + 1}] = it[t \ {k + 1}]
      BY <1>1, <3>2
    <3>4. new[t] = Op(c, it[t \ {k + 1}], s[k + 1])
      BY <1>1, <2>1
    <3> QED
      BY <3>1, <3>3, <3>4, <2>1
  <2>2. CASE k + 1 \notin t
    <3>1. t \in SUBSET (1..k)
      BY <2>2
    <3>2. new[t] = it[t]
      BY <2>2, <1>1
    <3>3. it[t] = IF t = {} THEN b ELSE Op(c, it[t \ {Max(t)}], s[Max(t)])
      BY <3>1 DEF IsTable
    <3>4. t \ {Max(t)} \in SUBSET (1..(k + 1)) /\ k + 1 \notin t \ {Max(t)}
      BY <2>2
    <3>5. new[t \ {Max(t)}] = it[t \ {Max(t)}]
      BY <3>4, <1>1
    <3> QED
      BY <3>2, <3>3, <3>5
  <2> QED
    BY <2>1, <2>2
<1>3. new = [t \in SUBSET (1..(k + 1)) |->
                IF t = {} THEN b ELSE Op(c, new[t \ {Max(t)}], s[Max(t)])]
  BY <1>1, <1>2
<1> QED
  BY <1>3 DEF IsTable

LEMMA TableExists ==
    ASSUME NEW c, NEW b, NEW s, NEW n \in Nat
    PROVE  IsTable(Table(c, b, s, 1..n), c, b, s, n)
<1> DEFINE T == {k \in Nat : \E it : IsTable(it, c, b, s, k)}
<1>1. 0 \in T
  <2>1. SUBSET (1..0) = {{}}
    OBVIOUS
  <2>2. IsTable([t \in SUBSET (1..0) |-> b], c, b, s, 0)
    BY <2>1 DEF IsTable
  <2> QED
    BY <2>2
<1>2. ASSUME NEW k \in Nat, k \in T
      PROVE  k + 1 \in T
  <2>1. PICK it : IsTable(it, c, b, s, k)
    BY <1>2
  <2>2. \E new : IsTable(new, c, b, s, k + 1)
    BY <2>1, OneMorePlace
  <2> QED
    BY <2>2
<1>3. n \in T
  <2> HIDE DEF T
  <2> QED
    BY <1>1, <1>2, SetInduction
<1>4. \E it : IsTable(it, c, b, s, n)
  BY <1>3
<1> QED
  BY <1>4 DEF Table, IsTable

Folded(c, b, s) == FoldLeft(LAMBDA x, e : Op(c, x, e), b, s)

LEMMA FoldIsTable ==
    ASSUME NEW c, NEW b, NEW s
    PROVE  Folded(c, b, s) = Table(c, b, s, DOMAIN s)[DOMAIN s]
BY DEF Folded, FoldLeft, MapThenFoldSet, Table

\* The values between the first and the last.
Leads(f, c, b, s, n) == f[0] = b /\ \A i \in 1..n : f[i] = Op(c, f[i - 1], s[i])

LEMMA FoldIsIteration ==
    ASSUME NEW c, NEW b, NEW s, NEW n \in Nat, DOMAIN s = 1..n
    PROVE  \E f : Leads(f, c, b, s, n) /\ f[n] = Folded(c, b, s)
<1>1. PICK it : it = Table(c, b, s, 1..n)
  OBVIOUS
<1>2. it = [t \in SUBSET (1..n) |-> IF t = {} THEN b ELSE Op(c, it[t \ {Max(t)}], s[Max(t)])]
  <2>1. IsTable(it, c, b, s, n)
    BY <1>1, TableExists
  <2> QED
    BY <2>1 DEF IsTable
<1>3. PICK f : f = [k \in 0..n |-> it[1..k]]
  OBVIOUS
<1>4. f[0] = b
  BY <1>2, <1>3
<1>5. ASSUME NEW i \in 1..n
      PROVE  f[i] = Op(c, f[i - 1], s[i])
  <2>1. (1..i) \in SUBSET (1..n) /\ 1..i # {} /\ i \in 1..i
    OBVIOUS
  <2>2. Max(1..i) = i
    <3>1. Max(1..i) \in 1..i /\ \A x \in 1..i : x <= Max(1..i)
      BY <2>1, MaxOf
    <3> QED
      BY <3>1, <2>1
  <2>3. (1..i) \ {i} = 1..(i - 1)
    OBVIOUS
  <2>4. it[1..i] = Op(c, it[(1..i) \ {i}], s[i])
    BY <1>2, <2>1, <2>2
  <2>5. f[i] = it[1..i] /\ f[i - 1] = it[1..(i - 1)]
    BY <1>3
  <2> QED
    BY <2>3, <2>4, <2>5
<1>6. f[n] = Folded(c, b, s)
  <2>1. f[n] = it[1..n] /\ n \in 0..n
    BY <1>3
  <2> QED
    BY <2>1, <1>1, FoldIsTable
<1> QED
  BY <1>4, <1>5, <1>6 DEF Leads

\* What holds of the first value and is kept by each step holds of the last.
LEMMA FoldStays ==
    ASSUME NEW c, NEW b, NEW s, NEW n \in Nat, DOMAIN s = 1..n,
           NEW D, b \in D[0], \A i \in 1..n : \A x \in D[i - 1] : Op(c, x, s[i]) \in D[i]
    PROVE  Folded(c, b, s) \in D[n]
<1>1. PICK f : Leads(f, c, b, s, n) /\ f[n] = Folded(c, b, s)
  BY FoldIsIteration
<1> DEFINE T == {k \in Nat : k <= n => f[k] \in D[k]}
<1>2. 0 \in T
  BY <1>1 DEF Leads
<1>3. ASSUME NEW k \in Nat, k \in T
      PROVE  k + 1 \in T
  <2>1. SUFFICES ASSUME k + 1 <= n PROVE f[k + 1] \in D[k + 1]
    OBVIOUS
  <2>2. k + 1 \in 1..n /\ (k + 1) - 1 = k /\ f[k] \in D[k]
    BY <2>1, <1>3
  <2>3. f[k + 1] = Op(c, f[k], s[k + 1])
    BY <1>1, <2>2 DEF Leads
  <2> QED
    BY <2>2, <2>3
<1>4. n \in T
  <2> HIDE DEF T
  <2> QED
    BY <1>2, <1>3, SetInduction
<1> QED
  BY <1>1, <1>4

LEMMA FoldStaysIn ==
    ASSUME NEW c, NEW b, NEW s, NEW n \in Nat, DOMAIN s = 1..n,
           NEW D, b \in D, \A i \in 1..n : \A x \in D : Op(c, x, s[i]) \in D
    PROVE  Folded(c, b, s) \in D
<1>1. PICK E : E = [i \in 0..n |-> D]
  OBVIOUS
<1>2. b \in E[0] /\ \A i \in 1..n : \A x \in E[i - 1] : Op(c, x, s[i]) \in E[i]
  BY <1>1
<1>3. Folded(c, b, s) \in E[n]
  BY <1>2, FoldStays
<1> QED
  BY <1>1, <1>3

\* No value follows where there is no element.
LEMMA FoldOfNone ==
    ASSUME NEW c, NEW b, NEW s, DOMAIN s = 1..0
    PROVE  Folded(c, b, s) = b
<1>1. PICK f : Leads(f, c, b, s, 0) /\ f[0] = Folded(c, b, s)
  BY FoldIsIteration, 0 \in Nat
<1> QED
  BY <1>1 DEF Leads

\* An element more at the end is a step more.
LEMMA FoldOneMore ==
    ASSUME NEW c, NEW b, NEW s, NEW n \in Nat, DOMAIN s = 1..n,
           NEW t, DOMAIN t = 1..(n + 1), \A i \in 1..n : t[i] = s[i]
    PROVE  Folded(c, b, t) = Op(c, Folded(c, b, s), t[n + 1])
<1>1. PICK f : Leads(f, c, b, s, n) /\ f[n] = Folded(c, b, s)
  BY FoldIsIteration
<1>2. PICK g : Leads(g, c, b, t, n + 1) /\ g[n + 1] = Folded(c, b, t)
  BY FoldIsIteration, n + 1 \in Nat
<1> DEFINE T == {k \in Nat : k <= n => f[k] = g[k]}
<1>3. 0 \in T
  BY <1>1, <1>2 DEF Leads
<1>4. ASSUME NEW k \in Nat, k \in T
      PROVE  k + 1 \in T
  <2>1. SUFFICES ASSUME k + 1 <= n PROVE f[k + 1] = g[k + 1]
    OBVIOUS
  <2>2. /\ k + 1 \in 1..n /\ k + 1 \in 1..(n + 1) /\ (k + 1) - 1 = k
        /\ f[k] = g[k] /\ t[k + 1] = s[k + 1]
    BY <2>1, <1>4
  <2>3. f[k + 1] = Op(c, f[k], s[k + 1]) /\ g[k + 1] = Op(c, g[k], t[k + 1])
    BY <1>1, <1>2, <2>2 DEF Leads
  <2> QED
    BY <2>2, <2>3
<1>5. n \in T
  <2> HIDE DEF T
  <2> QED
    BY <1>3, <1>4, SetInduction
<1>6. n + 1 \in 1..(n + 1) /\ (n + 1) - 1 = n
  OBVIOUS
<1>7. g[n + 1] = Op(c, g[n], t[n + 1])
  BY <1>2, <1>6 DEF Leads
<1> QED
  BY <1>1, <1>2, <1>5, <1>7

\* Induction up to a number.
LEMMA InductionTo ==
    ASSUME NEW n \in Nat, NEW G, 0 \in G, \A i \in 1..n : i - 1 \in G => i \in G
    PROVE  n \in G
<1> DEFINE T == {k \in Nat : k <= n => k \in G}
<1>1. 0 \in T
  OBVIOUS
<1>2. ASSUME NEW k \in Nat, k \in T
      PROVE  k + 1 \in T
  <2>1. SUFFICES ASSUME k + 1 <= n PROVE k + 1 \in G
    OBVIOUS
  <2>2. k + 1 \in 1..n /\ (k + 1) - 1 = k /\ k \in G
    BY <1>2, <2>1
  <2> QED
    BY <2>2
<1>3. n \in T
  <2> HIDE DEF T
  <2> QED
    BY <1>1, <1>2, SetInduction
<1> QED
  BY <1>3
=============================================================================
