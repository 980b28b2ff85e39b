------------------------------- MODULE Recursion -------------------------------
(***************************************************************************)
(* Induction over the naturals and recursive functions, stated for sets    *)
(* and functions so that every prover can use them. Nothing here is about  *)
(* one component; the proof modules cite it.                               *)
(***************************************************************************)
EXTENDS Integers, WellFoundedInduction, TLAPS

(* A nonempty set of naturals has a least element.                         *)
LEMMA LeastNat ==
    ASSUME NEW T, T \subseteq Nat, T # {}
    PROVE  \E x \in T : \A y \in T : x <= y
<1> DEFINE R == {ss \in Nat \X Nat : ss[1] < ss[2]}
<1>1. IsWellFoundedOn(R, Nat)
  BY NatLessThanWellFounded, Zenon DEF OpToRel
<1>2. PICK x \in T : \A y \in T : ~(<<y, x>> \in R)
  <2> HIDE DEF R
  <2> QED  BY <1>1, WFMin, Zenon
<1>3. ASSUME NEW y \in T PROVE x <= y
  <2>1. <<y, x>> \notin R
    BY <1>2
  <2> QED  BY <2>1
<1> QED  BY <1>2, <1>3

(* Induction, for a property given as the set of numbers that have it.     *)
LEMMA SetInduction ==
    ASSUME NEW S, 0 \in S, \A n \in Nat : n \in S => n + 1 \in S
    PROVE  Nat \subseteq S
<1> SUFFICES ASSUME ~(Nat \subseteq S) PROVE FALSE
  OBVIOUS
<1> DEFINE T == {n \in Nat : n \notin S}
<1>1. PICK x \in T : \A y \in T : x <= y
  BY LeastNat
<1>2. x # 0
  BY <1>1
<1>3. x - 1 \in Nat /\ x - 1 \notin T
  BY <1>1, <1>2
<1> QED  BY <1>1, <1>2, <1>3

(* A set of naturals with an element and an upper bound has a greatest     *)
(* element.                                                                *)
LEMMA GreatestNat ==
    ASSUME NEW n \in Nat, NEW T, T \subseteq 0 .. n, T # {}
    PROVE  \E x \in T : \A y \in T : y <= x
<1> DEFINE U == {n - y : y \in T}
<1>1. U \subseteq Nat
  OBVIOUS
<1>0. U # {}
  <2>1. PICK y : y \in T
    OBVIOUS
  <2>2. n - y \in U
    BY <2>1
  <2> QED  BY <2>2
<1>2. PICK u \in U : \A v \in U : u <= v
  <2> HIDE DEF U
  <2> QED  BY <1>0, <1>1, LeastNat
<1>3. PICK x \in T : u = n - x
  OBVIOUS
<1>4. ASSUME NEW y \in T PROVE y <= x
  <2>1. n - y \in U /\ y \in 0 .. n /\ x \in 0 .. n
    OBVIOUS
  <2>2. u <= n - y
    BY <1>2, <2>1
  <2> HIDE DEF U
  <2> QED  BY <1>3, <2>1, <2>2
<1> QED  BY <1>3, <1>4

(* Functions on 0 .. m that start at c and take step n with G.             *)
Recursive(S, c, G, m) ==
    {f \in [0 .. m -> S] : f[0] = c /\ \A n \in 1 .. m : f[n] = G[<<f[n - 1], n>>]}

(* There is such a function.                                               *)
LEMMA RecursionExists ==
    ASSUME NEW S, NEW c \in S, NEW m \in Nat, NEW G \in [S \X (1 .. m) -> S]
    PROVE  Recursive(S, c, G, m) # {}
<1> DEFINE Upto == {n \in Nat : n <= m => Recursive(S, c, G, n) # {}}
<1>1. 0 \in Upto
  <2>1. [i \in 0 .. 0 |-> c] \in Recursive(S, c, G, 0)
    BY DEF Recursive
  <2> QED  BY <2>1
<1>2. ASSUME NEW n \in Nat, n \in Upto PROVE n + 1 \in Upto
  <2> SUFFICES ASSUME n + 1 <= m PROVE Recursive(S, c, G, n + 1) # {}
    OBVIOUS
  <2>1. PICK f : f \in Recursive(S, c, G, n)
    BY <1>2
  <2>2. f \in [0 .. n -> S] /\ f[0] = c /\ \A i \in 1 .. n : f[i] = G[<<f[i - 1], i>>]
    BY <2>1 DEF Recursive
  <2> DEFINE g == [i \in 0 .. n + 1 |-> IF i = n + 1 THEN G[<<f[n], n + 1>>] ELSE f[i]]
  <2>3. f[n] \in S /\ n + 1 \in 1 .. m
    BY <2>2
  <2>4. G[<<f[n], n + 1>>] \in S
    BY <2>3
  <2>5. g \in [0 .. n + 1 -> S] /\ g[0] = c
    BY <2>2, <2>4
  <2>6. ASSUME NEW i \in 1 .. n + 1 PROVE g[i] = G[<<g[i - 1], i>>]
    <3>1. CASE i = n + 1
      <4>1. g[n + 1] = G[<<f[n], n + 1>>] /\ g[n] = f[n] /\ i - 1 = n
        BY <3>1
      <4> HIDE DEF g
      <4> QED  BY <3>1, <4>1
    <3>2. CASE i \in 1 .. n
      <4>1. g[i] = f[i] /\ g[i - 1] = f[i - 1]
        BY <3>2
      <4> QED  BY <2>2, <3>2, <4>1
    <3> QED  BY <3>1, <3>2
  <2>7. g \in Recursive(S, c, G, n + 1)
    <3> HIDE DEF g
    <3> QED  BY <2>5, <2>6 DEF Recursive
  <2> QED  BY <2>7
<1>3. Nat \subseteq Upto
  <2> HIDE DEF Upto
  <2> QED  BY <1>1, <1>2, SetInduction
<1> QED  BY <1>3
=============================================================================
