-------------------------------- MODULE Induction --------------------------------
(***************************************************************************)
(* Induction on the natural numbers for the proofs of the other modules,   *)
(* with a set in the place of a predicate: what the models compute line by *)
(* line, event by event or character by character is a recursive function, *)
(* and its values are reasoned about one number after the other.           *)
(***************************************************************************)
EXTENDS Naturals, TLAPS, WellFoundedInduction

\* Every non-empty set of numbers has a least element.
LEMMA HasLeast ==
  ASSUME NEW S, S \subseteq Nat, S # {}
  PROVE  \E k \in S : \A j \in S : k <= j
<1>1. PICK k \in S : \A j \in S : <<j, k>> \notin OpToRel(<, Nat)
  BY NatLessThanWellFounded, WFMin
<1>2. \A j \in S : ~(j < k)
  BY <1>1 DEF OpToRel
<1>3. k \in S
  BY <1>1
<1>. QED
  BY <1>2, <1>3

\* A set of numbers that has a bound has a greatest element.
LEMMA HasGreatest ==
  ASSUME NEW S, S \subseteq Nat, S # {}, NEW m \in Nat, \A x \in S : x <= m
  PROVE  \E k \in S : \A j \in S : j <= k
<1>. DEFINE T == {m - x : x \in S}
<1>1. T \subseteq Nat /\ T # {}
  <2>1. T \subseteq Nat
    OBVIOUS
  <2>2. PICK x \in S : x = x
    OBVIOUS
  <2>3. m - x \in T
    OBVIOUS
  <2>. QED
    BY <2>1, <2>3
<1>2. PICK t \in T : \A u \in T : t <= u
  <2>. HIDE DEF T
  <2>. QED
    BY <1>1, HasLeast
<1>3. PICK k \in S : t = m - k
  BY <1>2
<1>4. ASSUME NEW j \in S PROVE j <= k
  <2>1. m - j \in T
    OBVIOUS
  <2>2. m - k <= m - j
    BY <1>2, <1>3, <2>1
  <2>. QED
    BY <2>2
<1>. QED
  BY <1>4

\* A set that holds 0 and with each number the next one holds all of them.
LEMMA UpTo ==
  ASSUME NEW m \in Nat, NEW S, 0 \in S, \A n \in 0 .. m - 1 : n \in S => n + 1 \in S
  PROVE  \A n \in 0 .. m : n \in S
<1>. DEFINE out == {n \in 0 .. m : n \notin S}
<1>1. SUFFICES ASSUME out # {} PROVE FALSE
  OBVIOUS
<1>2. PICK k \in out : \A j \in out : k <= j
  <2>1. out \subseteq Nat
    OBVIOUS
  <2>. HIDE DEF out
  <2>. QED
    BY <1>1, <2>1, HasLeast
<1>3. k # 0 /\ k - 1 \in 0 .. m - 1 /\ k - 1 \in 0 .. m
  BY <1>2
<1>4. k - 1 \in S
  BY <1>2, <1>3
<1>. QED
  BY <1>2, <1>3, <1>4

\* A first value and, for each number up to m, a step from a value to the next; and a function that
\* follows them.
Steps(m, V, first, step) == m \in Nat /\ first \in V /\ step \in [1 .. m -> [V -> V]]
Follows(f, m, V, first, step) ==
  f \in [0 .. m -> V] /\ f[0] = first /\ \A n \in 1 .. m : f[n] = step[n][f[n - 1]]

\* What is defined step by step from a first value exists: a recursive function on 0 .. m whose
\* values stay in V is such a function.
LEMMA StepByStep ==
  ASSUME NEW m, NEW V, NEW first, NEW step, Steps(m, V, first, step)
  PROVE  \E f : Follows(f, m, V, first, step)
<1>. USE DEF Steps
<1>. DEFINE Good(k, f) == f[0] = first /\ \A n \in 1 .. k : f[n] = step[n][f[n - 1]]
            S == {k \in 0 .. m : \E f \in [0 .. m -> V] : Good(k, f)}
<1>1. 0 \in S
  <2>1. Good(0, [n \in 0 .. m |-> first])
    OBVIOUS
  <2>2. [n \in 0 .. m |-> first] \in [0 .. m -> V] /\ 0 \in 0 .. m
    OBVIOUS
  <2>. HIDE DEF Good
  <2>. QED
    BY <2>1, <2>2
<1>2. ASSUME NEW n \in 0 .. m - 1, n \in S PROVE n + 1 \in S
  <2>1. PICK f \in [0 .. m -> V] : Good(n, f)
    BY <1>2
  <2>. DEFINE g == [f EXCEPT ![n + 1] = step[n + 1][f[n]]]
  <2>2. n \in 0 .. m /\ n + 1 \in 1 .. m /\ f[n] \in V
    OBVIOUS
  <2>3. g \in [0 .. m -> V]
    BY <2>2
  <2>4. g[0] = first
    BY <2>1, <2>2
  <2>5. ASSUME NEW j \in 1 .. n + 1 PROVE g[j] = step[j][g[j - 1]]
    <3>1. CASE j = n + 1
      BY <2>2, <3>1
    <3>2. CASE j # n + 1
      <4>1. j \in 1 .. n /\ j - 1 # n + 1 /\ j \in 0 .. m /\ j - 1 \in 0 .. m
        BY <3>2
      <4>. QED
        BY <2>1, <4>1
    <3>. QED
      BY <3>1, <3>2
  <2>6. Good(n + 1, g)
    BY <2>4, <2>5
  <2>. HIDE DEF g, Good
  <2>. QED
    BY <2>2, <2>3, <2>6
<1>3. m \in S
  <2>1. \A n \in 0 .. m - 1 : n \in S => n + 1 \in S
    BY <1>2
  <2>. HIDE DEF S, Good
  <2>2. \A n \in 0 .. m : n \in S
    BY <1>1, <2>1, UpTo
  <2>. QED
    BY <2>2
<1>4. PICK f \in [0 .. m -> V] : Good(m, f)
  BY <1>3 DEF S
<1>. QED
  BY <1>4 DEF Follows
=============================================================================
