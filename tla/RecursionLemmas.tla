--------------------------- MODULE RecursionLemmas ---------------------------
(***************************************************************************)
(* Induction and recursion on the natural numbers up to a bound, as facts     *)
(* about sets and functions: the loops of the models are recursive functions  *)
(* (the arguments exec and query append, the chain of connections SQLite      *)
(* follows).                                                                *)
(***************************************************************************)
EXTENDS Naturals, WellFoundedInduction, TLAPS

\* A set of natural numbers has a least element.
LEMMA Least ==
  ASSUME NEW T, T \subseteq Nat, T # {}
  PROVE  \E x \in T : \A y \in T : x <= y
<1>1. IsWellFoundedOn(OpToRel(<, Nat), Nat)
  BY NatLessThanWellFounded
<1>2. PICK x \in T : \A y \in T : <<y, x>> \notin OpToRel(<, Nat)
  BY <1>1, WFMin
<1>3. \A y \in T : ~(y < x)
  BY <1>2 DEF OpToRel
<1>4. QED
  BY <1>3

\* A bounded one has a greatest.
LEMMA Greatest ==
  ASSUME NEW N \in Nat, NEW T, T \subseteq 0..N, T # {}
  PROVE  \E x \in T : \A y \in T : x >= y
<1> DEFINE U == {N - x : x \in T}
<1>1. U \subseteq Nat /\ U # {}
  <2>1. \A x \in T : N - x \in Nat
    OBVIOUS
  <2>2. QED
    BY <2>1
<1>2. PICK u \in U : \A v \in U : u <= v
  BY <1>1, Least
<1>3. PICK x \in T : u = N - x
  OBVIOUS
<1>4. ASSUME NEW y \in T PROVE x >= y
  <2>1. N - x <= N - y
    BY <1>2, <1>3
  <2>2. QED
    BY <2>1
<1>5. QED
  BY <1>4

\* Induction up to N.
LEMMA UpTo ==
  ASSUME NEW N \in Nat, NEW P, 0 \in P, \A n \in 0..N : n \in P /\ n < N => n + 1 \in P
  PROVE  0..N \subseteq P
<1> SUFFICES ASSUME (0..N) \ P # {} PROVE FALSE
  OBVIOUS
<1>1. PICK m \in (0..N) \ P : \A y \in (0..N) \ P : m <= y
  <2>1. (0..N) \ P \subseteq Nat
    OBVIOUS
  <2>2. QED
    BY <2>1, Least
<1>2. m # 0 /\ m - 1 \in 0..N /\ m - 1 < N
  OBVIOUS
<1>3. m - 1 \in P
  BY <1>1, <1>2
<1>4. (m - 1) + 1 \in P /\ (m - 1) + 1 = m
  BY <1>2, <1>3
<1>5. QED
  BY <1>4

\* f is made from a first value and a step.
Iterates(f, N, A, a, s) ==
  f \in [0..N -> A] /\ f[0] = a /\ \A n \in 1..N : f[n] = s[<<n, f[n - 1]>>]

\* A function can be defined by recursion, from its first value and a step.
LEMMA Recursive ==
  ASSUME NEW N \in Nat, NEW A, NEW a \in A, NEW s \in [(1..N) \X A -> A]
  PROVE  \E f : Iterates(f, N, A, a, s)
<1> DEFINE P == {k \in 0..N : \E f \in [0..k -> A] :
                   f[0] = a /\ \A n \in 1..k : f[n] = s[<<n, f[n - 1]>>]}
<1>1. 0 \in P
  <2> DEFINE f == [n \in 0..0 |-> a]
  <2>1. f \in [0..0 -> A] /\ f[0] = a /\ \A n \in 1..0 : f[n] = s[<<n, f[n - 1]>>]
    OBVIOUS
  <2> HIDE DEF f
  <2>2. QED
    BY <2>1
<1>2. ASSUME NEW k \in 0..N, k \in P, k < N PROVE k + 1 \in P
  <2>1. PICK f \in [0..k -> A] : f[0] = a /\ \A n \in 1..k : f[n] = s[<<n, f[n - 1]>>]
    BY <1>2
  <2> DEFINE g == [n \in 0..(k + 1) |-> IF n = k + 1 THEN s[<<k + 1, f[k]>>] ELSE f[n]]
  <2>2. s[<<k + 1, f[k]>>] \in A
    BY <1>2
  <2>3. g \in [0..(k + 1) -> A] /\ g[0] = a
    BY <1>2, <2>1, <2>2
  <2>4. ASSUME NEW n \in 1..(k + 1) PROVE g[n] = s[<<n, g[n - 1]>>]
    <3>1. CASE n = k + 1
      <4>1. k \in 0..(k + 1) /\ k # k + 1 /\ n - 1 = k
        BY <1>2, <3>1
      <4>2. g[k] = f[k] /\ g[k + 1] = s[<<k + 1, f[k]>>]
        BY <1>2, <4>1
      <4>3. QED
        BY <3>1, <4>1, <4>2
    <3>2. CASE n # k + 1
      <4>1. n \in 1..k /\ n - 1 \in 0..k /\ n - 1 # k + 1
        BY <1>2, <3>2
      <4>2. g[n] = f[n] /\ g[n - 1] = f[n - 1]
        BY <1>2, <4>1
      <4>3. QED
        BY <2>1, <4>1, <4>2
    <3>3. QED
      BY <3>1, <3>2
  <2>5. k + 1 \in 0..N
    BY <1>2
  <2> HIDE DEF g
  <2>6. QED
    BY <2>3, <2>4, <2>5
<1> HIDE DEF P
<1>3. 0..N \subseteq P
  BY <1>1, <1>2, UpTo
<1>4. N \in P
  BY <1>3
<1>5. QED
  BY <1>4 DEF P, Iterates
=============================================================================
