------------------------------ MODULE Recursion ------------------------------
(***************************************************************************)
(* Induction and recursion over the naturals, for proofs about loops and   *)
(* codecs that are recursive functions.  Induction is by a set of naturals *)
(* and recursion by a step function, so that no theorem has an operator as *)
(* a parameter.                                                            *)
(***************************************************************************)
EXTENDS Naturals, WellFoundedInduction, TLAPS

LEMMA SetInduction ==
  ASSUME NEW S, 0 \in S, \A n \in Nat : n \in S => n + 1 \in S
  PROVE  \A n \in Nat : n \in S
<1> SUFFICES ASSUME Nat \ S # {} PROVE FALSE
  OBVIOUS
<1> DEFINE R == OpToRel(<, Nat)
<1>1. \E x \in Nat \ S : \A y \in Nat \ S : ~(<<y, x>> \in R)
  <2>1. IsWellFoundedOn(R, Nat)
    BY NatLessThanWellFounded
  <2>2. Nat \ S \subseteq Nat
    OBVIOUS
  <2> HIDE DEF R
  <2> QED BY <2>1, <2>2, WFMin
<1>2. PICK x \in Nat \ S : \A y \in Nat \ S : ~(<<y, x>> \in R)
  BY <1>1
<1>3. \A y \in Nat \ S : ~(y < x)
  BY <1>2 DEF OpToRel
<1>4. x # 0 /\ x - 1 \in Nat
  OBVIOUS
<1>5. x - 1 \in S
  BY <1>3, <1>4
<1> QED BY <1>4, <1>5

Iterates(f, T, base, step) ==
  f \in [Nat -> T] /\ f[0] = base /\ \A n \in Nat : f[n + 1] = step[<<n, f[n]>>]

LEMMA NatRecursion ==
  ASSUME NEW T, NEW base \in T, NEW step \in [Nat \X T -> T]
  PROVE  \E f : Iterates(f, T, base, step)
<1> DEFINE Up(n, g) == g[0] = base /\ \A i \in 0 .. n - 1 : g[i + 1] = step[<<i, g[i]>>]
           S == {n \in Nat : \E g \in [0 .. n -> T] : Up(n, g)}
<1>1. 0 \in S
  <2> DEFINE g == [i \in 0 .. 0 |-> base]
  <2>1. g \in [0 .. 0 -> T] /\ Up(0, g)
    OBVIOUS
  <2> QED BY <2>1
<1>2. ASSUME NEW n \in Nat, n \in S
      PROVE  n + 1 \in S
  <2>1. PICK g \in [0 .. n -> T] : Up(n, g)
    BY <1>2
  <2> DEFINE h == [i \in 0 .. n + 1 |-> IF i = n + 1 THEN step[<<n, g[n]>>] ELSE g[i]]
  <2>2. h \in [0 .. n + 1 -> T]
    OBVIOUS
  <2>3. h[0] = base
    BY <2>1
  <2>4. ASSUME NEW i \in 0 .. n
        PROVE  h[i + 1] = step[<<i, h[i]>>]
    <3>1. CASE i = n
      <4>1. h[n + 1] = step[<<n, g[n]>>] /\ h[n] = g[n]
        OBVIOUS
      <4> HIDE DEF h
      <4> QED BY <3>1, <4>1
    <3>2. CASE i # n
      <4>1. i \in 0 .. n - 1 /\ i + 1 \in 0 .. n /\ i + 1 # n + 1 /\ i # n + 1
        BY <3>2
      <4>2. h[i + 1] = g[i + 1] /\ h[i] = g[i]
        BY <4>1
      <4> HIDE DEF h
      <4> QED BY <2>1, <4>1, <4>2
    <3> QED BY <3>1, <3>2
  <2>5. (n + 1) - 1 = n
    OBVIOUS
  <2> HIDE DEF h
  <2>6. Up(n + 1, h)
    BY <2>3, <2>4, <2>5
  <2> QED BY <2>2, <2>6
<1>3. \A n \in Nat : n \in S
  <2> HIDE DEF S
  <2> QED BY <1>1, <1>2, SetInduction
<1> DEFINE c == [n \in Nat |-> CHOOSE g \in [0 .. n -> T] : Up(n, g)]
<1>4. \A n \in Nat : c[n] \in [0 .. n -> T] /\ Up(n, c[n])
  BY <1>3
<1> HIDE DEF c
<1>5. ASSUME NEW n \in Nat
      PROVE  c[n + 1][n] = c[n][n]
  <2> DEFINE A == {i \in Nat : i <= n => c[n + 1][i] = c[n][i]}
  <2>0. Up(n, c[n]) /\ Up(n + 1, c[n + 1])
    BY <1>4
  <2>1. 0 \in A
    BY <2>0
  <2>2. ASSUME NEW i \in Nat, i \in A
        PROVE  i + 1 \in A
    <3> SUFFICES ASSUME i + 1 <= n
                 PROVE  c[n + 1][i + 1] = c[n][i + 1]
      OBVIOUS
    <3>1. i \in 0 .. n - 1 /\ i \in 0 .. (n + 1) - 1 /\ i <= n
      OBVIOUS
    <3>2. c[n + 1][i] = c[n][i]
      BY <2>2, <3>1
    <3> QED BY <2>0, <3>1, <3>2
  <2>3. \A i \in Nat : i \in A
    <3> HIDE DEF A
    <3> QED BY <2>1, <2>2, SetInduction
  <2> QED BY <2>3
<1> DEFINE f == [n \in Nat |-> c[n][n]]
<1>6. f \in [Nat -> T]
  BY <1>4
<1>7. f[0] = base
  BY <1>4
<1>8. ASSUME NEW n \in Nat
      PROVE  f[n + 1] = step[<<n, f[n]>>]
  <2>1. Up(n + 1, c[n + 1]) /\ n \in 0 .. (n + 1) - 1
    BY <1>4
  <2>2. c[n + 1][n + 1] = step[<<n, c[n + 1][n]>>]
    BY <2>1
  <2> QED BY <2>2, <1>5
<1> HIDE DEF f
<1>9. Iterates(f, T, base, step)
  BY <1>6, <1>7, <1>8 DEF Iterates
<1> QED BY <1>9

RunsTo(g, m, T, base, step) ==
  g \in [0 .. m -> T] /\ g[0] = base /\ \A i \in 1 .. m : g[i] = step[<<i, g[i - 1]>>]

LEMMA BoundedRecursion ==
  ASSUME NEW T, NEW base \in T, NEW m \in Nat, NEW step \in [(1 .. m) \X T -> T]
  PROVE  \E g : RunsTo(g, m, T, base, step)
<1> DEFINE all == [p \in Nat \X T |-> IF p[1] + 1 <= m THEN step[<<p[1] + 1, p[2]>>] ELSE base]
<1>1. all \in [Nat \X T -> T]
  <2> SUFFICES ASSUME NEW p \in Nat \X T, p[1] + 1 <= m
               PROVE  step[<<p[1] + 1, p[2]>>] \in T
    OBVIOUS
  <2>1. <<p[1] + 1, p[2]>> \in (1 .. m) \X T
    OBVIOUS
  <2> HIDE DEF all
  <2> QED BY <2>1
<1>2. PICK f : Iterates(f, T, base, all)
  <2> HIDE DEF all
  <2> QED BY <1>1, NatRecursion
<1> DEFINE g == [i \in 0 .. m |-> f[i]]
<1>3. f \in [Nat -> T] /\ f[0] = base /\ \A n \in Nat : f[n + 1] = all[<<n, f[n]>>]
  BY <1>2 DEF Iterates
<1>4. ASSUME NEW i \in 1 .. m
      PROVE  g[i] = step[<<i, g[i - 1]>>]
  <2>1. i - 1 \in Nat /\ (i - 1) + 1 = i /\ i <= m /\ i - 1 \in 0 .. m /\ i \in 0 .. m
    OBVIOUS
  <2>2. f[i] = all[<<i - 1, f[i - 1]>>]
    <3> HIDE DEF all
    <3> QED BY <1>3, <2>1
  <2>3. <<i - 1, f[i - 1]>> \in Nat \X T
    BY <1>3, <2>1
  <2>4. all[<<i - 1, f[i - 1]>>] = step[<<i, f[i - 1]>>]
    BY <2>1, <2>3
  <2> HIDE DEF all
  <2> QED BY <2>1, <2>2, <2>4
<1>5. RunsTo(g, m, T, base, step)
  <2>1. g \in [0 .. m -> T] /\ g[0] = base
    BY <1>3
  <2> HIDE DEF g, all
  <2> QED BY <1>4, <2>1 DEF RunsTo
<1> HIDE DEF g
<1> QED BY <1>5

Follows(g, h, m) ==
  g[0] = h[0] /\ \A i \in 1 .. m : g[i - 1] = h[i - 1] => g[i] = h[i]

LEMMA SameRun ==
  ASSUME NEW g, NEW h, NEW m \in Nat, Follows(g, h, m)
  PROVE  \A i \in 0 .. m : g[i] = h[i]
<1> USE DEF Follows
<1> DEFINE S == {i \in Nat : i <= m => g[i] = h[i]}
<1>1. 0 \in S
  OBVIOUS
<1>2. ASSUME NEW i \in Nat, i \in S
      PROVE  i + 1 \in S
  <2>1. i + 1 <= m => i + 1 \in 1 .. m /\ (i + 1) - 1 = i
    OBVIOUS
  <2> QED BY <1>2, <2>1
<1>3. \A i \in Nat : i \in S
  <2> HIDE DEF S
  <2> QED BY <1>1, <1>2, SetInduction
<1> QED BY <1>3
=============================================================================
