----------------------------- MODULE FramingProofs -----------------------------
(***************************************************************************)
(* Proofs about Framing, for every size of a byte, of the headers, of the  *)
(* messages and of the streams: the codec of the lengths is exact, readers *)
(* lose and invent no byte whatever the segments, and what a peer frames   *)
(* is what is read.                                                        *)
(*                                                                         *)
(* The lengths and FlattenSeq are recursive functions; what they compute   *)
(* is proved with the lemmas of Recursion.                                 *)
(***************************************************************************)
EXTENDS Framing, Recursion, SequenceTheorems, TLAPS

-----------------------------------------------------------------------------
(* Numbers as bytes.                                                       *)

LEMMA PowerStep ==
  /\ Power \in [Nat -> Nat]
  /\ Power[0] = 1
  /\ \A n \in Nat : Power[n + 1] = Base * Power[n]
<1>0. Base \in Nat
  BY FramingAssumption
<1> DEFINE Defines(f) == f = [n \in Nat |-> IF n = 0 THEN 1 ELSE Base * f[n - 1]]
           step == [p \in Nat \X Nat |-> Base * p[2]]
<1>1. step \in [Nat \X Nat -> Nat]
  BY <1>0
<1>2. PICK f : Iterates(f, Nat, 1, step)
  <2> HIDE DEF step
  <2> QED BY <1>1, NatRecursion
<1>3. \A n \in Nat : f[n + 1] = Base * f[n]
  BY <1>2 DEF Iterates
<1>4. ASSUME NEW n \in Nat
      PROVE  f[n] = IF n = 0 THEN 1 ELSE Base * f[n - 1]
  <2>1. n # 0 => n - 1 \in Nat /\ (n - 1) + 1 = n
    OBVIOUS
  <2> HIDE DEF step
  <2> QED BY <1>2, <1>3, <2>1 DEF Iterates
<1>5. Defines(f)
  <2> HIDE DEF step
  <2>1. f = [n \in Nat |-> f[n]]
    BY <1>2 DEF Iterates
  <2> QED BY <2>1, <1>4
<1>6. Power = CHOOSE g : Defines(g)
  BY DEF Power
<1>7. Defines(Power)
  <2> HIDE DEF Defines
  <2> QED BY <1>5, <1>6
<1>8. \A n \in Nat : Power[n] = IF n = 0 THEN 1 ELSE Base * Power[n - 1]
  BY <1>7
<1>9. Power[0] = 1 /\ \A n \in Nat : Power[n + 1] = Base * Power[n]
  <2>1. \A n \in Nat : n + 1 \in Nat /\ n + 1 # 0 /\ (n + 1) - 1 = n
    OBVIOUS
  <2> HIDE DEF Defines
  <2> QED BY <1>8, <2>1
<1>10. \A n \in Nat : Power[n] \in Nat
  <2> DEFINE S == {n \in Nat : Power[n] \in Nat}
  <2>1. 0 \in S /\ \A n \in Nat : n \in S => n + 1 \in S
    BY <1>0, <1>9
  <2>2. \A n \in Nat : n \in S
    <3> HIDE DEF S
    <3> QED BY <2>1, SetInduction
  <2> QED BY <2>2
<1> QED BY <1>7, <1>9, <1>10

\* What from_be_bytes computes.
ValueOf(bytes, v) ==
  v = [i \in 0 .. Len(bytes) |-> IF i = 0 THEN 0 ELSE v[i - 1] * Base + bytes[i]]

LEMMA FromBytes ==
  ASSUME NEW bytes \in Seq(Bytes)
  PROVE  \E v \in [0 .. Len(bytes) -> Nat] :
           ValueOf(bytes, v) /\ from_be_bytes(bytes) = v[Len(bytes)]
<1>0. Base \in Nat /\ \A i \in 1 .. Len(bytes) : bytes[i] \in Nat
  <2>1. Base \in Nat /\ Bytes \subseteq Nat
    BY FramingAssumption DEF Bytes
  <2>2. \A i \in 1 .. Len(bytes) : bytes[i] \in Bytes
    OBVIOUS
  <2> QED BY <2>1, <2>2
<1> DEFINE m == Len(bytes)
           step == [p \in (1 .. m) \X Nat |-> p[2] * Base + bytes[p[1]]]
<1>1. m \in Nat
  OBVIOUS
<1>2. step \in [(1 .. m) \X Nat -> Nat]
  <2> SUFFICES ASSUME NEW p \in (1 .. m) \X Nat
               PROVE  p[2] * Base + bytes[p[1]] \in Nat
    OBVIOUS
  <2>1. p[2] \in Nat /\ bytes[p[1]] \in Nat
    BY <1>0
  <2>2. p[2] * Base \in Nat
    BY <1>0, <2>1
  <2> QED BY <2>1, <2>2
<1>3. PICK g : RunsTo(g, m, Nat, 0, step)
  <2> HIDE DEF step, m
  <2> QED BY <1>1, <1>2, BoundedRecursion
<1>4. ASSUME NEW i \in 0 .. m
      PROVE  g[i] = IF i = 0 THEN 0 ELSE g[i - 1] * Base + bytes[i]
  <2>1. CASE i = 0
    BY <1>3, <2>1 DEF RunsTo
  <2>2. CASE i # 0
    <3>1. i \in 1 .. m /\ i - 1 \in 0 .. m
      BY <2>2
    <3>2. g[i] = step[<<i, g[i - 1]>>] /\ g[i - 1] \in Nat
      <4> HIDE DEF step
      <4> QED BY <1>3, <3>1 DEF RunsTo
    <3> QED BY <2>2, <3>1, <3>2
  <2> QED BY <2>1, <2>2
<1>5. g \in [0 .. m -> Nat]
  BY <1>3 DEF RunsTo
<1>6. ValueOf(bytes, g)
  <2>1. g = [i \in 0 .. m |-> g[i]]
    BY <1>5
  <2> QED BY <1>4, <2>1 DEF ValueOf
<1>7. from_be_bytes(bytes) = (CHOOSE v : ValueOf(bytes, v))[Len(bytes)]
  BY DEF from_be_bytes, ValueOf
<1> DEFINE c == CHOOSE v : ValueOf(bytes, v)
<1>8. ValueOf(bytes, c)
  BY <1>6
<1> HIDE DEF c
<1>9. c = g
  <2>1. \A i \in 0 .. m : c[i] = IF i = 0 THEN 0 ELSE c[i - 1] * Base + bytes[i]
    BY <1>8 DEF ValueOf
  <2>2. Follows(c, g, m)
    BY <1>4, <2>1 DEF Follows
  <2>3. \A i \in 0 .. m : c[i] = g[i]
    <3> HIDE DEF m
    <3> QED BY <1>1, <2>2, SameRun
  <2>4. c = [i \in 0 .. m |-> c[i]] /\ g = [i \in 0 .. m |-> g[i]]
    BY <1>5, <1>8 DEF ValueOf
  <2> HIDE DEF m
  <2> QED BY <2>3, <2>4
<1> QED BY <1>5, <1>6, <1>7, <1>9 DEF c

\* What the shifts of to_be_bytes compute.
ShiftsOf(n, size, v) ==
  v = [i \in 0 .. size |-> IF i = 0 THEN n ELSE v[i - 1] \div Base]

LEMMA ToBytes ==
  ASSUME NEW n \in Nat, NEW size \in Nat
  PROVE  \E v \in [0 .. size -> Nat] :
           /\ ShiftsOf(n, size, v)
           /\ to_be_bytes(n, size) = [i \in 1 .. size |-> v[size - i] % Base]
<1>0. Base \in Nat \ {0}
  BY FramingAssumption
<1>1. \A x \in Nat : x \div Base \in Nat
  BY <1>0
<1> DEFINE step == [p \in (1 .. size) \X Nat |-> p[2] \div Base]
<1>2. step \in [(1 .. size) \X Nat -> Nat]
  BY <1>1
<1>3. PICK g : RunsTo(g, size, Nat, n, step)
  <2> HIDE DEF step
  <2> QED BY <1>2, BoundedRecursion
<1>4. ASSUME NEW i \in 0 .. size
      PROVE  g[i] = IF i = 0 THEN n ELSE g[i - 1] \div Base
  <2>1. CASE i = 0
    BY <1>3, <2>1 DEF RunsTo
  <2>2. CASE i # 0
    <3>1. i \in 1 .. size /\ i - 1 \in 0 .. size
      BY <2>2
    <3>2. g[i] = step[<<i, g[i - 1]>>] /\ g[i - 1] \in Nat
      <4> HIDE DEF step
      <4> QED BY <1>3, <3>1 DEF RunsTo
    <3> QED BY <2>2, <3>1, <3>2
  <2> QED BY <2>1, <2>2
<1>5. g \in [0 .. size -> Nat]
  BY <1>3 DEF RunsTo
<1>6. ShiftsOf(n, size, g)
  <2>1. g = [i \in 0 .. size |-> g[i]]
    BY <1>5
  <2> QED BY <1>4, <2>1 DEF ShiftsOf
<1> DEFINE c == CHOOSE v : ShiftsOf(n, size, v)
<1>7. to_be_bytes(n, size) = [i \in 1 .. size |-> c[size - i] % Base]
  BY DEF to_be_bytes, ShiftsOf
<1>8. ShiftsOf(n, size, c)
  BY <1>6
<1> HIDE DEF c
<1>9. c = g
  <2>1. \A i \in 0 .. size : c[i] = IF i = 0 THEN n ELSE c[i - 1] \div Base
    BY <1>8 DEF ShiftsOf
  <2>2. Follows(c, g, size)
    BY <1>4, <2>1 DEF Follows
  <2>3. \A i \in 0 .. size : c[i] = g[i]
    BY <2>2, SameRun
  <2>4. c = [i \in 0 .. size |-> c[i]] /\ g = [i \in 0 .. size |-> g[i]]
    BY <1>5, <1>8 DEF ShiftsOf
  <2> QED BY <2>3, <2>4
<1> QED BY <1>5, <1>6, <1>7, <1>9

LEMMA DivMod ==
  ASSUME NEW x \in Nat, NEW b \in Nat \ {0}
  PROVE  /\ x \div b \in Nat /\ x % b \in 0 .. b - 1
         /\ (x \div b) * b + (x % b) = x
OBVIOUS

LEMMA DivBound ==
  ASSUME NEW x \in Nat, NEW b \in Nat \ {0}, NEW p \in Nat, x < b * p
  PROVE  x \div b < p
<1> DEFINE d == x \div b
<1>1. d \in Nat /\ d * b <= x
  BY DivMod
<1> HIDE DEF d
<1>2. ASSUME p <= d PROVE FALSE
  <2>1. b * p <= d * b
    BY <1>1, <1>2
  <2> QED BY <1>1, <2>1
<1> QED BY <1>1, <1>2 DEF d

LEMMA LengthsSurvive ==
  ASSUME NEW n \in Nat, NEW size \in Nat, n < Power[size]
  PROVE  /\ to_be_bytes(n, size) \in Seq(Bytes)
         /\ Len(to_be_bytes(n, size)) = size
         /\ from_be_bytes(to_be_bytes(n, size)) = n
<1>0. Base \in Nat \ {0}
  BY FramingAssumption
<1> DEFINE bytes == to_be_bytes(n, size)
<1>1. PICK v \in [0 .. size -> Nat] :
        ShiftsOf(n, size, v) /\ bytes = [i \in 1 .. size |-> v[size - i] % Base]
  BY ToBytes
<1>2. \A i \in 1 .. size : size - i \in 0 .. size
  OBVIOUS
<1>3. \A i \in 1 .. size : v[size - i] % Base \in Bytes
  BY <1>0, <1>2, DivMod DEF Bytes
<1>4. bytes \in Seq(Bytes) /\ Len(bytes) = size
  <2>1. bytes \in [1 .. size -> Bytes]
    BY <1>1, <1>3
  <2> HIDE DEF bytes
  <2> QED BY <2>1
<1> HIDE DEF bytes
<1>5. v[0] = n /\ \A i \in 1 .. size : v[i] = v[i - 1] \div Base
  BY <1>1 DEF ShiftsOf
<1>6. v[size] = 0
  <2> DEFINE S == {j \in Nat : j <= size => v[j] < Power[size - j]}
  <2>1. 0 \in S
    BY <1>5
  <2>2. ASSUME NEW j \in Nat, j \in S
        PROVE  j + 1 \in S
    <3> SUFFICES ASSUME j + 1 <= size PROVE v[j + 1] < Power[size - (j + 1)]
      OBVIOUS
    <3>1. /\ j + 1 \in 1 .. size /\ (j + 1) - 1 = j /\ j <= size /\ j \in 0 .. size
          /\ size - (j + 1) \in Nat /\ (size - (j + 1)) + 1 = size - j
      OBVIOUS
    <3>2. v[j] < Power[size - j]
      BY <2>2, <3>1
    <3>3. Power[size - j] = Base * Power[size - (j + 1)] /\ Power[size - (j + 1)] \in Nat
      BY <3>1, PowerStep
    <3>4. v[j] \in Nat /\ v[j] < Base * Power[size - (j + 1)]
      BY <3>1, <3>2, <3>3
    <3>5. v[j + 1] = v[j] \div Base
      BY <1>5, <3>1
    <3> QED BY <1>0, <3>3, <3>4, <3>5, DivBound
  <2>3. \A j \in Nat : j \in S
    <3> HIDE DEF S
    <3> QED BY <2>1, <2>2, SetInduction
  <2>4. v[size] < Power[size - size] /\ size - size = 0 /\ v[size] \in Nat
    BY <2>3
  <2> QED BY <2>4, PowerStep
<1>7. PICK w \in [0 .. Len(bytes) -> Nat] :
        ValueOf(bytes, w) /\ from_be_bytes(bytes) = w[Len(bytes)]
  BY <1>4, FromBytes
<1>8. w[0] = 0 /\ \A i \in 1 .. size : w[i] = w[i - 1] * Base + bytes[i]
  BY <1>4, <1>7 DEF ValueOf
<1> DEFINE digits == [i \in 0 .. size |-> v[size - i]]
<1>9. ASSUME NEW i \in 1 .. size, w[i - 1] = digits[i - 1]
      PROVE  w[i] = digits[i]
  <2>1. /\ i - 1 \in 0 .. size /\ i \in 0 .. size /\ size - i \in 0 .. size
        /\ size - (i - 1) \in 1 .. size /\ (size - (i - 1)) - 1 = size - i
    OBVIOUS
  <2>2. digits[i - 1] = v[size - (i - 1)] /\ digits[i] = v[size - i]
    BY <2>1
  <2> HIDE DEF digits
  <2>3. v[size - (i - 1)] = v[size - i] \div Base
    BY <1>5, <2>1
  <2>4. w[i] = (v[size - i] \div Base) * Base + (v[size - i] % Base)
    BY <1>1, <1>8, <1>9, <2>2, <2>3
  <2>5. v[size - i] \in Nat
    BY <2>1
  <2> QED BY <1>0, <2>2, <2>4, <2>5, DivMod
<1>10. w[0] = digits[0]
  <2>1. digits[0] = v[size]
    OBVIOUS
  <2> QED BY <2>1, <1>6, <1>8
<1>11. w[size] = digits[size] /\ digits[size] = n
  <2>1. digits[size] = n
    BY <1>5
  <2> HIDE DEF digits
  <2>2. Follows(w, digits, size)
    BY <1>9, <1>10 DEF Follows
  <2>3. \A i \in 0 .. size : w[i] = digits[i]
    BY <2>2, SameRun
  <2> QED BY <2>1, <2>3
<1> QED BY <1>4, <1>7, <1>11 DEF bytes

-----------------------------------------------------------------------------
(* FlattenSeq.                                                             *)

FlatTo(s, n, g) == g = [i \in 1 .. n |-> IF i = 1 THEN s[i] ELSE g[i - 1] \o s[i]]

LEMMA FlatExists ==
  ASSUME NEW X, NEW s \in Seq(Seq(X))
  PROVE  \A n \in Nat : n <= Len(s) => \E g \in [1 .. n -> Seq(X)] : FlatTo(s, n, g)
<1> DEFINE S == {n \in Nat : n <= Len(s) => \E g \in [1 .. n -> Seq(X)] : FlatTo(s, n, g)}
<1>1. 0 \in S
  <2> DEFINE g == [i \in 1 .. 0 |-> <<>>]
  <2>1. g \in [1 .. 0 -> Seq(X)]
    OBVIOUS
  <2>2. g = [i \in 1 .. 0 |-> IF i = 1 THEN s[i] ELSE g[i - 1] \o s[i]]
    OBVIOUS
  <2> QED BY <2>1, <2>2 DEF FlatTo
<1>2. ASSUME NEW n \in Nat, n \in S
      PROVE  n + 1 \in S
  <2> SUFFICES ASSUME n + 1 <= Len(s)
               PROVE  \E g \in [1 .. n + 1 -> Seq(X)] : FlatTo(s, n + 1, g)
    OBVIOUS
  <2>1. PICK g \in [1 .. n -> Seq(X)] : FlatTo(s, n, g)
    BY <1>2
  <2> DEFINE last == IF n = 0 THEN s[1] ELSE g[n] \o s[n + 1]
             h == [i \in 1 .. n + 1 |-> IF i = n + 1 THEN last ELSE g[i]]
  <2>2. last \in Seq(X)
    BY DEF FlatTo
  <2>3. h \in [1 .. n + 1 -> Seq(X)]
    BY <2>2
  <2>4. ASSUME NEW i \in 1 .. n + 1
        PROVE  h[i] = IF i = 1 THEN s[i] ELSE h[i - 1] \o s[i]
    <3>1. CASE i = n + 1
      BY <3>1
    <3>2. CASE i # n + 1
      <4>1. i \in 1 .. n /\ (i # 1 => i - 1 \in 1 .. n /\ i - 1 # n + 1 /\ i - 1 \in 1 .. n + 1)
        BY <3>2
      <4>2. g[i] = IF i = 1 THEN s[i] ELSE g[i - 1] \o s[i]
        BY <2>1, <4>1 DEF FlatTo
      <4> QED BY <3>2, <4>1, <4>2
    <3> QED BY <3>1, <3>2
  <2>5. FlatTo(s, n + 1, h)
    <3> HIDE DEF last
    <3>1. h = [i \in 1 .. n + 1 |-> h[i]]
      OBVIOUS
    <3> HIDE DEF h
    <3> QED BY <3>1, <2>4 DEF FlatTo
  <2> HIDE DEF h
  <2> QED BY <2>3, <2>5
<1>3. \A n \in Nat : n \in S
  <2> HIDE DEF S
  <2> QED BY <1>1, <1>2, SetInduction
<1> QED BY <1>3

LEMMA FlatUnique ==
  ASSUME NEW s, NEW m \in Nat, NEW g, NEW h, FlatTo(s, m, g), FlatTo(s, m, h)
  PROVE  g = h
<1> DEFINE S == {n \in Nat : n \in 1 .. m => g[n] = h[n]}
<1>1. 0 \in S
  OBVIOUS
<1>2. ASSUME NEW n \in Nat, n \in S
      PROVE  n + 1 \in S
  <2> SUFFICES ASSUME n + 1 \in 1 .. m PROVE g[n + 1] = h[n + 1]
    OBVIOUS
  <2>1. g[n + 1] = IF n + 1 = 1 THEN s[n + 1] ELSE g[(n + 1) - 1] \o s[n + 1]
    BY DEF FlatTo
  <2>2. h[n + 1] = IF n + 1 = 1 THEN s[n + 1] ELSE h[(n + 1) - 1] \o s[n + 1]
    BY DEF FlatTo
  <2>3. n # 0 => g[n] = h[n]
    BY <1>2
  <2> QED BY <2>1, <2>2, <2>3
<1>3. \A n \in Nat : n \in S
  <2> HIDE DEF S
  <2> QED BY <1>1, <1>2, SetInduction
<1>4. \A i \in 1 .. m : g[i] = h[i]
  BY <1>3
<1> QED BY <1>4 DEF FlatTo

LEMMA FlattenIs ==
  ASSUME NEW X, NEW s \in Seq(Seq(X)), NEW g, FlatTo(s, Len(s), g), s # <<>>
  PROVE  FlattenSeq(s) = g[Len(s)]
<1>1. Len(s) # 0
  OBVIOUS
<1>2. FlattenSeq(s) = (CHOOSE f : FlatTo(s, Len(s), f))[Len(s)]
  BY <1>1 DEF FlattenSeq, FlatTo
<1>3. FlatTo(s, Len(s), CHOOSE f : FlatTo(s, Len(s), f))
  OBVIOUS
<1> QED BY <1>2, <1>3, FlatUnique

LEMMA FlattenEmpty == FlattenSeq(<<>>) = <<>>
BY DEF FlattenSeq

LEMMA FlattenAppend ==
  ASSUME NEW X, NEW s \in Seq(Seq(X)), NEW x \in Seq(X)
  PROVE  /\ FlattenSeq(s) \in Seq(X)
         /\ FlattenSeq(Append(s, x)) = FlattenSeq(s) \o x
<1> DEFINE t == Append(s, x)
<1>1. /\ t \in Seq(Seq(X)) /\ Len(t) = Len(s) + 1 /\ t[Len(s) + 1] = x
      /\ \A i \in 1 .. Len(s) : t[i] = s[i]
  OBVIOUS
<1> HIDE DEF t
<1>2. PICK h \in [1 .. Len(t) -> Seq(X)] : FlatTo(t, Len(t), h)
  <2>1. Len(t) \in Nat /\ Len(t) <= Len(t)
    BY <1>1
  <2> QED BY <1>1, <2>1, FlatExists
<1>3. FlattenSeq(t) = h[Len(t)]
  BY <1>1, <1>2, FlattenIs
<1>4. CASE s = <<>>
  <2>1. h[1] = x
    BY <1>1, <1>2, <1>4 DEF FlatTo
  <2>2. Len(t) = 1 /\ FlattenSeq(s) = <<>>
    BY <1>1, <1>4, FlattenEmpty
  <2>3. <<>> \in Seq(X) /\ <<>> \o x = x
    OBVIOUS
  <2> QED BY <2>1, <2>2, <2>3, <1>3 DEF t
<1>5. CASE s # <<>>
  <2>1. PICK g \in [1 .. Len(s) -> Seq(X)] : FlatTo(s, Len(s), g)
    BY FlatExists
  <2>2. FlattenSeq(s) = g[Len(s)]
    BY <2>1, <1>5, FlattenIs
  <2> DEFINE r == [i \in 1 .. Len(s) |-> h[i]]
  <2>3. FlatTo(s, Len(s), r)
    <3>1. ASSUME NEW i \in 1 .. Len(s)
          PROVE  r[i] = IF i = 1 THEN s[i] ELSE r[i - 1] \o s[i]
      <4>1. h[i] = IF i = 1 THEN t[i] ELSE h[i - 1] \o t[i]
        <5>1. i \in 1 .. Len(t)
          BY <1>1
        <5>2. h = [j \in 1 .. Len(t) |-> IF j = 1 THEN t[j] ELSE h[j - 1] \o t[j]]
          BY <1>2 DEF FlatTo
        <5> HIDE DEF r
        <5> QED BY <5>1, <5>2
      <4> QED BY <4>1, <1>1
    <3>2. r = [i \in 1 .. Len(s) |-> r[i]]
      OBVIOUS
    <3> HIDE DEF r
    <3> QED BY <3>1, <3>2 DEF FlatTo
  <2>4. r = g
    <3> HIDE DEF r
    <3> QED BY <2>1, <2>3, FlatUnique
  <2>5. Len(s) \in 1 .. Len(s) /\ Len(t) \in 1 .. Len(t) /\ Len(t) # 1 /\ Len(t) - 1 = Len(s)
    BY <1>1, <1>5
  <2>6. h[Len(t)] = h[Len(t) - 1] \o t[Len(t)]
    BY <1>2, <2>5 DEF FlatTo
  <2>7. h[Len(s)] = g[Len(s)]
    BY <2>4, <2>5
  <2> QED BY <2>2, <2>5, <2>6, <2>7, <1>1, <1>3 DEF t
<1> QED BY <1>4, <1>5

\* One more element of s is one more piece of the flattened sequence, and the
\* whole goes on from there.
LEMMA FlattenPrefix ==
  ASSUME NEW X, NEW s \in Seq(Seq(X)), NEW k \in 0 .. Len(s) - 1
  PROVE  \E rest \in Seq(X) :
           FlattenSeq(s) = (FlattenSeq(SubSeq(s, 1, k)) \o s[k + 1]) \o rest
<1> DEFINE Pre(m) == SubSeq(s, 1, m)
           A == FlattenSeq(Pre(k)) \o s[k + 1]
           GoesOn(m) == \E rest \in Seq(X) : FlattenSeq(Pre(m)) = A \o rest
           S == {j \in Nat : (k + 1) + j <= Len(s) => GoesOn((k + 1) + j)}
<1>1. ASSUME NEW m \in Nat, m + 1 <= Len(s)
      PROVE  /\ Pre(m) \in Seq(Seq(X)) /\ s[m + 1] \in Seq(X)
             /\ FlattenSeq(Pre(m)) \in Seq(X)
             /\ FlattenSeq(Pre(m + 1)) = FlattenSeq(Pre(m)) \o s[m + 1]
  <2>1. Pre(m) \in Seq(Seq(X)) /\ s[m + 1] \in Seq(X)
    BY <1>1
  <2>2. Pre(m + 1) = Append(Pre(m), s[m + 1])
    BY <1>1
  <2> HIDE DEF Pre
  <2> QED BY <2>1, <2>2, FlattenAppend
<1>2. A \in Seq(X) /\ FlattenSeq(Pre(k + 1)) = A
  <2>1. k \in Nat /\ k + 1 <= Len(s)
    OBVIOUS
  <2> HIDE DEF Pre
  <2> QED BY <1>1, <2>1
<1> HIDE DEF A, Pre
<1>3. 0 \in S
  <2>1. <<>> \in Seq(X) /\ A \o <<>> = A
    BY <1>2
  <2>2. GoesOn(k + 1)
    BY <1>2, <2>1
  <2>3. (k + 1) + 0 = k + 1
    OBVIOUS
  <2> HIDE DEF GoesOn
  <2> QED BY <2>2, <2>3
<1>4. ASSUME NEW j \in Nat, j \in S
      PROVE  j + 1 \in S
  <2> DEFINE m == (k + 1) + j
  <2> SUFFICES ASSUME m + 1 <= Len(s)
               PROVE  GoesOn(m + 1)
    <3>1. (k + 1) + (j + 1) = m + 1
      OBVIOUS
    <3> HIDE DEF GoesOn, m
    <3> QED BY <3>1
  <2>1. m \in Nat /\ m <= Len(s)
    OBVIOUS
  <2>2. GoesOn(m)
    <3> HIDE DEF GoesOn
    <3> QED BY <1>4, <2>1
  <2> HIDE DEF m
  <2>3. PICK rest \in Seq(X) : FlattenSeq(Pre(m)) = A \o rest
    BY <2>2
  <2> DEFINE last == s[m + 1]
             next == FlattenSeq(Pre(m + 1))
             now == FlattenSeq(Pre(m))
  <2>4. last \in Seq(X) /\ next = now \o last /\ now = A \o rest
    BY <1>1, <2>1, <2>3
  <2> HIDE DEF last, next, now
  <2>5. \E r \in Seq(X) : next = A \o r
    <3>1. A \in Seq(X)
      BY <1>2
    <3>2. now = A \o rest /\ next = now \o last /\ last \in Seq(X)
      BY <2>4
    <3> HIDE DEF S, GoesOn
    <3>3. (A \o rest) \o last = A \o (rest \o last)
      BY ONLY <3>1, <3>2, rest \in Seq(X)
    <3>4. rest \o last \in Seq(X)
      BY <3>2
    <3> QED BY <3>2, <3>3, <3>4
  <2> QED BY <2>5 DEF next
<1>5. \A j \in Nat : j \in S
  <2> HIDE DEF S
  <2> QED BY <1>3, <1>4, SetInduction
<1>6. Pre(Len(s)) = s
  BY DEF Pre
<1>7. Len(s) - (k + 1) \in Nat /\ (k + 1) + (Len(s) - (k + 1)) = Len(s)
  OBVIOUS
<1>8. GoesOn(Len(s))
  <2> DEFINE j == Len(s) - (k + 1)
  <2>1. (k + 1) + j = Len(s) /\ Len(s) <= Len(s)
    BY <1>7
  <2>2. j \in S
    <3> HIDE DEF S, GoesOn
    <3> QED BY <1>5, <1>7
  <2> HIDE DEF GoesOn, j
  <2> QED BY <2>1, <2>2
<1> QED BY <1>6, <1>8 DEF A, Pre

-----------------------------------------------------------------------------
(* The readers.                                                            *)

\* The reader has taken what has arrived and no more, and what it has taken
\* is what it has returned or is collecting.
FrameInv ==
  /\ stream \in Seq(Bytes)
  /\ arrived \in 0 .. Len(stream) /\ taken \in 0 .. arrived
  /\ fin => arrived = Len(stream)
  /\ frame \in Seq(Bytes) /\ frames \in Seq(Seq(Bytes))
  /\ FramesCoverStream

LEMMA HeaderSizes ==
  /\ Header(1) = HandshakeHeader /\ Maximum(1) = MaxHandshake
  /\ \A i \in Nat : Header(i) \in Nat \ {0} /\ Maximum(i) \in Nat /\ Maximum(i) < Power[Header(i)]
BY FramingAssumption DEF Header, Maximum

LEMMA LengthType ==
  ASSUME NEW bytes \in Seq(Bytes)
  PROVE  from_be_bytes(bytes) \in Nat
<1>1. PICK v \in [0 .. Len(bytes) -> Nat] : from_be_bytes(bytes) = v[Len(bytes)]
  BY FromBytes
<1> QED BY <1>1

LEMMA PieceOf ==
  ASSUME NEW X, NEW s \in Seq(X), NEW m \in Nat, NEW n \in Nat, m + n <= Len(s)
  PROVE  /\ SubSeq(s, m + 1, m + n) \in Seq(X)
         /\ Len(SubSeq(s, m + 1, m + n)) = n
         /\ \A i \in 1 .. n : SubSeq(s, m + 1, m + n)[i] = s[m + i]
<1> DEFINE p == SubSeq(s, m + 1, m + n)
<1>1. \A i \in m + 1 .. m + n : s[i] \in X
  OBVIOUS
<1>2. /\ p \in Seq(X)
      /\ Len(p) = IF m + 1 <= m + n THEN (m + n) - (m + 1) + 1 ELSE 0
      /\ \A i \in 1 .. (m + n) - (m + 1) + 1 : p[i] = s[(m + 1) + i - 1]
  <2>1. m + 1 \in Int /\ m + n \in Int
    OBVIOUS
  <2> QED BY <1>1, <2>1, SubSeqProperties
<1> HIDE DEF p
<1>3. Len(p) = n /\ \A i \in 1 .. n : p[i] = s[m + i]
  <2>1. \A i \in 1 .. n : i \in 1 .. (m + n) - (m + 1) + 1 /\ (m + 1) + i - 1 = m + i
    OBVIOUS
  <2> QED BY <1>2, <2>1
<1> QED BY <1>2, <1>3 DEF p

LEMMA TwoParts ==
  ASSUME NEW X, NEW s \in Seq(X), NEW t \in Seq(X)
  PROVE  /\ s \o t \in Seq(X) /\ Len(s \o t) = Len(s) + Len(t)
         /\ SubSeq(s \o t, 1, Len(s)) = s
         /\ SubSeq(s \o t, Len(s) + 1, Len(s) + Len(t)) = t
<1> DEFINE u == s \o t
<1>1. /\ u \in Seq(X) /\ Len(u) = Len(s) + Len(t)
      /\ \A i \in 1 .. Len(s) : u[i] = s[i]
      /\ \A i \in 1 .. Len(t) : u[Len(s) + i] = t[i]
  OBVIOUS
<1>2. Len(s) \in Nat /\ Len(t) \in Nat
  OBVIOUS
<1> HIDE DEF u
<1>0. u \in Seq(X)
  BY <1>1
<1>3. SubSeq(u, 1, Len(s)) = s
  <2>1. /\ SubSeq(u, 0 + 1, 0 + Len(s)) \in Seq(X)
        /\ Len(SubSeq(u, 0 + 1, 0 + Len(s))) = Len(s)
        /\ \A i \in 1 .. Len(s) : SubSeq(u, 0 + 1, 0 + Len(s))[i] = u[0 + i]
    <3>1. 0 \in Nat /\ 0 + Len(s) <= Len(u)
      BY <1>1, <1>2
    <3> QED BY ONLY <1>0, <1>2, <3>1, PieceOf
  <2> DEFINE p == SubSeq(u, 0 + 1, 0 + Len(s))
  <2>2. p = SubSeq(u, 1, Len(s))
    BY <1>2
  <2> HIDE DEF p
  <2>3. p \in Seq(X) /\ Len(p) = Len(s) /\ \A i \in 1 .. Len(s) : p[i] = s[i]
    <3>1. \A i \in 1 .. Len(s) : 0 + i = i
      BY <1>2
    <3> QED BY <1>1, <2>1, <3>1, Zenon DEF p
  <2>4. p = s
    BY <2>3, SeqEqual
  <2> QED BY <2>2, <2>4
<1>4. SubSeq(u, Len(s) + 1, Len(s) + Len(t)) = t
  <2> DEFINE p == SubSeq(u, Len(s) + 1, Len(s) + Len(t))
  <2>1. Len(s) + Len(t) <= Len(u)
    BY <1>1, <1>2
  <2>2. p \in Seq(X) /\ Len(p) = Len(t) /\ \A i \in 1 .. Len(t) : p[i] = u[Len(s) + i]
    BY ONLY <1>0, <1>2, <2>1, PieceOf
  <2> HIDE DEF p
  <2>3. \A i \in 1 .. Len(t) : p[i] = t[i]
    BY <1>1, <2>2, Zenon
  <2>4. p = t
    BY <2>2, <2>3, SeqEqual
  <2> QED BY <2>4 DEF p
<1> QED BY <1>1, <1>3, <1>4, Zenon DEF u

LEMMA EncodeType ==
  ASSUME NEW payload \in Seq(Bytes), NEW i \in Nat, Len(payload) <= Maximum(i)
  PROVE  /\ to_be_bytes(Len(payload), Header(i)) \in Seq(Bytes)
         /\ Len(to_be_bytes(Len(payload), Header(i))) = Header(i)
         /\ from_be_bytes(to_be_bytes(Len(payload), Header(i))) = Len(payload)
         /\ Encode(payload, Header(i)) \in Seq(Bytes)
         /\ Len(Encode(payload, Header(i))) = Header(i) + Len(payload)
         /\ SubSeq(Encode(payload, Header(i)), 1, Header(i))
              = to_be_bytes(Len(payload), Header(i))
         /\ SubSeq(Encode(payload, Header(i)), Header(i) + 1, Header(i) + Len(payload)) = payload
<1> DEFINE h == to_be_bytes(Len(payload), Header(i))
<1>1. Header(i) \in Nat \ {0} /\ Len(payload) \in Nat /\ Len(payload) < Power[Header(i)]
  <2>1. Header(i) \in Nat \ {0} /\ Maximum(i) \in Nat /\ Maximum(i) < Power[Header(i)]
    BY HeaderSizes
  <2>2. Power[Header(i)] \in Nat
    <3>1. \A n \in Nat : Power[n] \in Nat
      BY PowerStep, Zenon
    <3>2. Header(i) \in Nat
      BY <2>1
    <3> QED BY <3>1, <3>2, Zenon
  <2>3. Len(payload) \in Nat
    OBVIOUS
  <2> QED BY <2>1, <2>2, <2>3
<1>2. h \in Seq(Bytes) /\ Len(h) = Header(i) /\ from_be_bytes(h) = Len(payload)
  BY <1>1, LengthsSurvive
<1> HIDE DEF h
<1>3. /\ h \o payload \in Seq(Bytes) /\ Len(h \o payload) = Len(h) + Len(payload)
      /\ SubSeq(h \o payload, 1, Len(h)) = h
      /\ SubSeq(h \o payload, Len(h) + 1, Len(h) + Len(payload)) = payload
  <2>1. h \in Seq(Bytes) /\ payload \in Seq(Bytes)
    BY <1>2
  <2> QED BY ONLY <2>1, TwoParts
<1> QED BY <1>2, <1>3 DEF Encode, h

LEMMA ConversationType ==
  ASSUME Converses
  PROVE  /\ sent \in Seq(Seq(Bytes)) /\ sent # <<>>
         /\ \A i \in 1 .. Len(sent) : LengthAccepted(i, Len(sent[i]))
<1>0. /\ PayloadBytes \subseteq Bytes
      /\ MaxHandshake \in Nat /\ MaxRecord \in Nat /\ MaxRecords \in Nat
  BY FramingAssumption
<1>1. ASSUME NEW low \in Nat, NEW high \in Nat, NEW p \in Payloads(low .. high)
      PROVE  p \in Seq(Bytes) /\ low <= Len(p) /\ Len(p) <= high
  <2>1. PICK k \in low .. high : p \in [1 .. k -> PayloadBytes]
    BY <1>1 DEF Payloads
  <2>2. k \in Nat /\ p \in [1 .. k -> Bytes]
    BY <1>0, <2>1
  <2>3. p \in Seq(Bytes) /\ Len(p) = k
    BY <2>2
  <2> QED BY <2>3
<1>2. PICK h \in Payloads(0 .. MaxHandshake) : \E n \in 0 .. MaxRecords :
        \E r \in [1 .. n -> Payloads(1 .. MaxRecord)] : sent = <<h>> \o r
  BY DEF Converses
<1>n. PICK n \in 0 .. MaxRecords :
        \E r \in [1 .. n -> Payloads(1 .. MaxRecord)] : sent = <<h>> \o r
  BY <1>2
<1>r. PICK r \in [1 .. n -> Payloads(1 .. MaxRecord)] : sent = <<h>> \o r
  BY <1>n
<1>3. h \in Seq(Bytes) /\ Len(h) <= MaxHandshake
  BY <1>0, <1>1, <1>2
<1>4. \A i \in 1 .. n : r[i] \in Seq(Bytes) /\ 1 <= Len(r[i]) /\ Len(r[i]) <= MaxRecord
  BY <1>0, <1>1, <1>r
<1>5. n \in Nat /\ r \in Seq(Seq(Bytes)) /\ Len(r) = n
  <2>1. n \in Nat /\ r \in [1 .. n -> Seq(Bytes)]
    BY <1>0, <1>r, <1>4
  <2> QED BY <2>1
<1>6. /\ sent \in Seq(Seq(Bytes)) /\ Len(sent) = 1 + n /\ sent[1] = h
      /\ \A i \in 2 .. Len(sent) : sent[i] = r[i - 1] /\ i - 1 \in 1 .. n
  BY <1>r, <1>3, <1>5
<1>7. ASSUME NEW i \in 1 .. Len(sent)
      PROVE  LengthAccepted(i, Len(sent[i]))
  <2>1. CASE i = 1
    BY <1>3, <1>6, <2>1 DEF LengthAccepted, Maximum
  <2>2. CASE i # 1
    <3>1. i \in 2 .. Len(sent) /\ i > 1
      BY <2>2
    <3>2. Len(sent[i]) \in Nat /\ 1 <= Len(sent[i]) /\ Len(sent[i]) <= MaxRecord
      BY <1>4, <1>6, <3>1
    <3> QED BY <2>2, <3>2 DEF LengthAccepted, Maximum
  <2> QED BY <2>1, <2>2
<1>8. sent # <<>>
  BY <1>5, <1>6
<1> QED BY <1>6, <1>7, <1>8

LEMMA FlattenType ==
  ASSUME NEW X, NEW s \in Seq(Seq(X))
  PROVE  FlattenSeq(s) \in Seq(X)
BY FlattenAppend, <<>> \in Seq(X)

LEMMA WireType ==
  ASSUME sent \in Seq(Seq(Bytes)), \A i \in 1 .. Len(sent) : LengthAccepted(i, Len(sent[i]))
  PROVE  /\ Wire \in Seq(Seq(Bytes)) /\ Len(Wire) = Len(sent)
         /\ \A i \in 1 .. Len(sent) :
              /\ Wire[i] = Encode(sent[i], Header(i))
              /\ sent[i] \in Seq(Bytes) /\ Len(sent[i]) <= Maximum(i)
<1>1. ASSUME NEW i \in 1 .. Len(sent)
      PROVE  /\ sent[i] \in Seq(Bytes) /\ Len(sent[i]) <= Maximum(i)
             /\ Encode(sent[i], Header(i)) \in Seq(Bytes)
  <2>1. i \in Nat /\ sent[i] \in Seq(Bytes) /\ Len(sent[i]) <= Maximum(i)
    BY DEF LengthAccepted
  <2> QED BY <2>1, EncodeType
<1>2. Wire \in [1 .. Len(sent) -> Seq(Bytes)] /\ Len(sent) \in Nat
  BY <1>1 DEF Wire
<1>3. Wire \in Seq(Seq(Bytes)) /\ Len(Wire) = Len(sent)
  <2>1. \A w, m : m \in Nat /\ w \in [1 .. m -> Seq(Bytes)]
                => w \in Seq(Seq(Bytes)) /\ Len(w) = m
    OBVIOUS
  <2> QED BY <1>2, <2>1
<1> QED BY <1>1, <1>3 DEF Wire

LEMMA FrameInvInit == FrameInit => FrameInv
<1> SUFFICES ASSUME FrameInit PROVE FrameInv
  OBVIOUS
<1>1. stream \in Seq(Bytes)
  <2>1. CASE stream \in BytesUpTo(MaxStream)
    <3>1. PICK k \in 0 .. MaxStream : stream \in [1 .. k -> Bytes]
      BY <2>1 DEF BytesUpTo
    <3>2. k \in Nat
      BY FramingAssumption
    <3> QED BY <3>1, <3>2
  <2>2. CASE Converses /\ stream = FlattenSeq(Wire)
    BY <2>2, ConversationType, WireType, FlattenType
  <2> QED BY <2>1, <2>2 DEF FrameInit
<1>2. FlattenSeq(frames) \o frame = SubSeq(stream, 1, taken)
  <2>1. FlattenSeq(frames) = <<>> /\ frame = <<>> /\ taken = 0
    BY FlattenEmpty DEF FrameInit
  <2>2. <<>> \o <<>> = <<>> /\ SubSeq(stream, 1, 0) = <<>>
    BY <1>1
  <2> QED BY <2>1, <2>2
<1>3. FramesCoverStream
  BY <1>2 DEF FrameInit, FramesCoverStream
<1> QED BY <1>1, <1>3 DEF FrameInit, FrameInv

\* A frame that a reader returns is one that decode_frame takes.
LEMMA ReturnedDecodes ==
  ASSUME FrameInv, ReturnFrame
  PROVE  decode_frame(frame, Header(Current), Maximum(Current)) # {}
<1>1. Current \in Nat /\ Header(Current) \in Nat \ {0}
  <2>1. Current \in Nat
    BY DEF FrameInv, Current
  <2> QED BY <2>1, HeaderSizes
<1>2. SubSeq(frame, 1, Header(Current)) \in Seq(Bytes)
  <2>1. frame \in Seq(Bytes) /\ Header(Current) <= Len(frame)
    BY <1>1 DEF FrameInv, ReturnFrame, HeaderRead
  <2> QED BY <1>1, <2>1
<1>3. Length \in Nat
  BY <1>2, LengthType DEF Length
<1>4. Len(frame) \in Nat /\ Len(frame) >= Header(Current)
      /\ Header(Current) + Length - Len(frame) = 0 /\ Length <= Maximum(Current)
  BY <1>1 DEF FrameInv, ReturnFrame, HeaderRead, Wanted, LengthAccepted
<1>5. Len(frame) = Header(Current) + Length /\ ~(Len(frame) < Header(Current))
      /\ ~(Length > Maximum(Current))
  <2>1. Maximum(Current) \in Nat
    BY <1>1, HeaderSizes
  <2> QED BY <1>1, <1>3, <1>4, <2>1
<1> QED BY <1>5 DEF decode_frame, Length

LEMMA FrameInvNext == FrameInv /\ [FrameNext]_framevars => FrameInv'
<1> SUFFICES ASSUME FrameInv, [FrameNext]_framevars
             PROVE  FrameInv'
  OBVIOUS
<1>t. FlattenSeq(frames) \in Seq(Bytes)
  BY FlattenType DEF FrameInv
<1>1. CASE Read
  <2>1. PICK n \in 1 .. Wanted :
          /\ taken + n <= arrived /\ taken' = taken + n
          /\ frame' = frame \o SubSeq(stream, taken + 1, taken + n)
    BY <1>1 DEF Read
  <2>2. n \in Nat /\ taken \in Nat /\ taken + n <= Len(stream) /\ taken' \in 0 .. arrived
    BY <2>1 DEF FrameInv
  <2>3. frame' \in Seq(Bytes) /\ FlattenSeq(frames) \o frame' = SubSeq(stream, 1, taken')
    <3> DEFINE a == FlattenSeq(frames)
               c == SubSeq(stream, taken + 1, taken + n)
    <3>1. /\ stream \in Seq(Bytes) /\ a \in Seq(Bytes) /\ frame \in Seq(Bytes)
          /\ a \o frame = SubSeq(stream, 1, taken)
      BY <1>t DEF FrameInv, FramesCoverStream
    <3> HIDE DEF a
    <3>2. frame \o c \in Seq(Bytes) /\ a \o (frame \o c) = SubSeq(stream, 1, taken + n)
      <4>1. SubSeq(stream, 1, taken) \in Seq(Bytes) /\ c \in Seq(Bytes)
            /\ SubSeq(stream, 1, taken) \o c = SubSeq(stream, 1, taken + n)
        BY <2>2, <3>1
      <4> HIDE DEF c
      <4>2. a \o (frame \o c) = (a \o frame) \o c
        <5>1. a \in Seq(Bytes) /\ frame \in Seq(Bytes) /\ c \in Seq(Bytes)
          BY <3>1, <4>1
        <5> QED BY ONLY <5>1
      <4>3. frame \o c \in Seq(Bytes)
        BY <3>1, <4>1
      <4> QED BY <3>1, <4>1, <4>2, <4>3
    <3> HIDE DEF c
    <3> QED BY <2>1, <3>2 DEF a, c
  <2>4. /\ status = "reading" /\ UNCHANGED <<stream, sent, arrived, fin, frames, status>>
    BY <1>1 DEF Read
  <2>5. FramesCoverStream'
    BY <2>3, <2>4 DEF FrameInv, FramesCoverStream, Payload
  <2> QED BY <2>2, <2>3, <2>4, <2>5 DEF FrameInv
<1>2. CASE RefuseLength
  BY <1>2 DEF RefuseLength, FrameInv, FramesCoverStream, Payload
<1>3. CASE ReturnFrame
  <2>1. /\ frames' = Append(frames, frame) /\ frame' = <<>> /\ status = "reading"
        /\ UNCHANGED <<stream, sent, arrived, fin, taken, status>>
    BY <1>3 DEF ReturnFrame
  <2>2. FlattenSeq(frames') = FlattenSeq(frames) \o frame
    BY <2>1, FlattenAppend DEF FrameInv
  <2>3. FlattenSeq(frames') \o frame' = SubSeq(stream, 1, taken)
    <3>1. FlattenSeq(frames') \in Seq(Bytes) /\ FlattenSeq(frames') = SubSeq(stream, 1, taken)
      BY <1>t, <2>2 DEF FrameInv, FramesCoverStream
    <3>2. \A x \in Seq(Bytes) : x \o <<>> = x
      OBVIOUS
    <3> QED BY <2>1, <3>1, <3>2
  <2>4. ASSUME NEW i \in 1 .. Len(frames')
        PROVE  decode_frame(frames'[i], Header(i), Maximum(i)) # {}
    <3>1. CASE i = Len(frames) + 1
      <4>1. frames'[i] = frame /\ i = Current
        BY <2>1, <3>1 DEF FrameInv, Current
      <4> QED BY <1>3, <4>1, ReturnedDecodes
    <3>2. CASE i # Len(frames) + 1
      <4>1. i \in 1 .. Len(frames) /\ frames'[i] = frames[i]
        BY <2>1, <3>2 DEF FrameInv
      <4> QED BY <4>1 DEF FrameInv, FramesCoverStream, Payload
    <3> QED BY <3>1, <3>2
  <2>5. frames' \in Seq(Seq(Bytes)) /\ frame' \in Seq(Bytes)
    BY <2>1 DEF FrameInv
  <2>6. FramesCoverStream'
    BY <2>1, <2>3, <2>4 DEF FramesCoverStream, Payload
  <2> QED BY <2>1, <2>5, <2>6 DEF FrameInv
<1>4. CASE ReadEof
  BY <1>4 DEF ReadEof, EndsBetweenRecords, FrameInv, FramesCoverStream, Payload
<1>5. CASE Arrive
  <2>1. UNCHANGED <<stream, sent, taken, frame, frames, status>>
    BY <1>5 DEF Arrive
  <2>2. FramesCoverStream'
    BY <2>1 DEF FrameInv, FramesCoverStream, Payload
  <2>3. /\ arrived' \in 0 .. Len(stream) /\ taken \in 0 .. arrived'
        /\ fin' => arrived' = Len(stream)
    BY <1>5 DEF Arrive, FrameInv
  <2> QED BY <2>1, <2>2, <2>3 DEF FrameInv
<1>6. CASE UNCHANGED framevars
  BY <1>6 DEF framevars, FrameInv, FramesCoverStream, Payload
<1> QED BY <1>1, <1>2, <1>3, <1>4, <1>5, <1>6 DEF FrameNext

LEMMA FrameInvariant == FrameSpec => []FrameInv
<1> QED BY FrameInvInit, FrameInvNext, PTL DEF FrameSpec

\* read_length_framed and read_record_frame, whatever segments TCP delivers
\* and whatever the bytes: the frames returned and the one begun are the
\* bytes taken from the stream, decode_frame takes every one of them, and an
\* orderly end is an end between records at the last byte of the stream.
THEOREM FramesCover == FrameSpec => []FramesCoverStream
<1>1. FrameInv => FramesCoverStream
  BY DEF FrameInv
<1> QED BY <1>1, FrameInvariant, PTL

-----------------------------------------------------------------------------
(* What a peer frames is read back.                                        *)

\* The frame begun is the beginning of the one the peer framed.
Begun ==
  Len(frame) <= Len(Wire[Current]) /\ frame = SubSeq(Wire[Current], 1, Len(frame))

\* The frames returned are those the peer framed, the one begun is the next.
PeerInv ==
  sent # <<>> =>
    /\ sent \in Seq(Seq(Bytes))
    /\ \A i \in 1 .. Len(sent) : LengthAccepted(i, Len(sent[i]))
    /\ stream = FlattenSeq(Wire)
    /\ Len(frames) <= Len(sent)
    /\ \A i \in 1 .. Len(frames) : frames[i] = Wire[i]
    /\ Len(frames) = Len(sent) => frame = <<>>
    /\ Len(frames) < Len(sent) => Begun
    /\ status \notin {"truncated", "invalid"}
    /\ status = "eof" => Len(frames) = Len(sent)

LEMMA PeerInvInit == FrameInit => PeerInv
<1> SUFFICES ASSUME FrameInit, sent # <<>> PROVE PeerInv
  BY DEF PeerInv
<1>1. Converses /\ stream = FlattenSeq(Wire)
  BY DEF FrameInit
<1>2. /\ sent \in Seq(Seq(Bytes)) /\ sent # <<>>
      /\ \A i \in 1 .. Len(sent) : LengthAccepted(i, Len(sent[i]))
  BY <1>1, ConversationType
<1>3. frames = <<>> /\ frame = <<>> /\ status = "reading" /\ Len(frames) = 0 /\ Len(frame) = 0
  BY DEF FrameInit
<1>4. 1 \in 1 .. Len(sent) /\ Len(sent) \in Nat
  BY <1>2
<1>5. Wire[1] \in Seq(Bytes)
  BY <1>2, <1>4, WireType
<1>6. Begun
  <2>1. Current = 1
    BY <1>3 DEF Current
  <2>2. SubSeq(Wire[1], 1, 0) = <<>> /\ 0 <= Len(Wire[1])
    BY <1>5
  <2> QED BY <1>3, <2>1, <2>2 DEF Begun
<1> QED BY <1>1, <1>2, <1>3, <1>4, <1>6 DEF PeerInv

\* All frames have been returned: nothing is left of the stream.
LEMMA AllReturned ==
  ASSUME FrameInv, PeerInv, sent # <<>>, Len(frames) = Len(sent)
  PROVE  taken = Len(stream)
<1>1. /\ Wire \in Seq(Seq(Bytes)) /\ Len(Wire) = Len(sent)
      /\ frames \in Seq(Seq(Bytes)) /\ \A i \in 1 .. Len(frames) : frames[i] = Wire[i]
  BY WireType DEF PeerInv, FrameInv
<1>2. frames = Wire
  BY <1>1, SeqEqual
<1>3. stream \o <<>> = SubSeq(stream, 1, taken) /\ stream \in Seq(Bytes) /\ taken \in 0 .. Len(stream)
  BY <1>2 DEF PeerInv, FrameInv, FramesCoverStream
<1>4. stream \o <<>> = stream
  BY <1>3
<1>5. Len(SubSeq(stream, 1, taken)) = taken
  BY <1>3
<1> QED BY <1>3, <1>4, <1>5

\* Where the reader is in the stream of a peer that has more frames.
LEMMA BetweenFrames ==
  ASSUME FrameInv, PeerInv, sent # <<>>, Len(frames) < Len(sent)
  PROVE  \E rest \in Seq(Bytes) :
           /\ stream = (FlattenSeq(frames) \o Wire[Current]) \o rest
           /\ taken = Len(FlattenSeq(frames)) + Len(frame)
<1>1. /\ Wire \in Seq(Seq(Bytes)) /\ Len(Wire) = Len(sent)
      /\ frames \in Seq(Seq(Bytes)) /\ \A i \in 1 .. Len(frames) : frames[i] = Wire[i]
  BY WireType DEF PeerInv, FrameInv
<1>2. SubSeq(Wire, 1, Len(frames)) = frames
  <2> DEFINE x == SubSeq(Wire, 1, Len(frames))
  <2>1. x \in Seq(Seq(Bytes)) /\ Len(x) = Len(frames) /\ \A i \in 1 .. Len(frames) : x[i] = Wire[i]
    BY <1>1
  <2> HIDE DEF x
  <2>2. x = frames
    BY <1>1, <2>1, SeqEqual
  <2> QED BY <2>2 DEF x
<1>3. Len(frames) \in 0 .. Len(Wire) - 1
  BY <1>1
<1>4. PICK rest \in Seq(Bytes) :
        FlattenSeq(Wire) = (FlattenSeq(SubSeq(Wire, 1, Len(frames))) \o Wire[Len(frames) + 1]) \o rest
  BY <1>1, <1>3, FlattenPrefix
<1>5. stream = (FlattenSeq(frames) \o Wire[Current]) \o rest
  BY <1>2, <1>4 DEF PeerInv, Current
<1>6. taken = Len(FlattenSeq(frames)) + Len(frame)
  <2>1. FlattenSeq(frames) \in Seq(Bytes) /\ frame \in Seq(Bytes) /\ stream \in Seq(Bytes)
    BY FlattenType DEF FrameInv
  <2>2. Len(FlattenSeq(frames) \o frame) = Len(FlattenSeq(frames)) + Len(frame)
    BY <2>1
  <2>3. Len(SubSeq(stream, 1, taken)) = taken
    BY <2>1 DEF FrameInv
  <2> QED BY <2>2, <2>3 DEF FrameInv, FramesCoverStream
<1> QED BY <1>5, <1>6

\* The length that the reader finds in a header is the one the peer wrote.
LEMMA LengthRead ==
  ASSUME FrameInv, PeerInv, sent # <<>>, Len(frames) < Len(sent)
  PROVE  /\ Current \in 1 .. Len(sent) /\ Header(Current) \in Nat \ {0}
         /\ Wire[Current] \in Seq(Bytes) /\ sent[Current] \in Seq(Bytes)
         /\ Len(Wire[Current]) = Header(Current) + Len(sent[Current])
         /\ SubSeq(Wire[Current], Header(Current) + 1, Len(Wire[Current])) = sent[Current]
         /\ HeaderRead => Length = Len(sent[Current])
<1>1. Current \in 1 .. Len(sent) /\ Current \in Nat
  BY DEF PeerInv, FrameInv, Current
<1>2. /\ Wire[Current] = Encode(sent[Current], Header(Current))
      /\ sent[Current] \in Seq(Bytes) /\ Len(sent[Current]) <= Maximum(Current)
  BY <1>1, WireType DEF PeerInv
<1>3. Header(Current) \in Nat \ {0}
  BY <1>1, HeaderSizes
<1> DEFINE W == Wire[Current]
           H == Header(Current)
           head == to_be_bytes(Len(sent[Current]), H)
<1>4. /\ head \in Seq(Bytes) /\ Len(head) = H /\ from_be_bytes(head) = Len(sent[Current])
      /\ W \in Seq(Bytes) /\ Len(W) = H + Len(sent[Current]) /\ SubSeq(W, 1, H) = head
      /\ SubSeq(W, H + 1, H + Len(sent[Current])) = sent[Current]
  BY <1>1, <1>2, EncodeType
<1>5. ASSUME HeaderRead
      PROVE  Length = Len(sent[Current])
  <2>1. frame \in Seq(Bytes) /\ Len(frame) >= H /\ Len(frame) <= Len(W) /\ frame = SubSeq(W, 1, Len(frame))
    BY <1>5 DEF PeerInv, FrameInv, Begun, HeaderRead
  <2> HIDE DEF W, H, head
  <2>2. \A n \in Nat, w \in Seq(Bytes) : H <= n /\ n <= Len(w) => SubSeq(SubSeq(w, 1, n), 1, H) = SubSeq(w, 1, H)
    BY <1>3 DEF H
  <2>3. SubSeq(frame, 1, H) = head
    BY <1>4, <2>1, <2>2
  <2> QED BY <1>4, <2>3 DEF Length, H
<1> QED BY <1>1, <1>2, <1>3, <1>4, <1>5

\* A read never asks for more than the rest of the peer's frame.
LEMMA WantsThisFrame ==
  ASSUME FrameInv, PeerInv, sent # <<>>, Len(frames) < Len(sent), NEW n \in 1 .. Wanted
  PROVE  n \in Nat /\ Len(frame) + n <= Len(Wire[Current])
<1> DEFINE W == Wire[Current]
           H == Header(Current)
<1>1. /\ H \in Nat \ {0} /\ Len(W) = H + Len(sent[Current])
      /\ Len(sent[Current]) \in Nat /\ Len(frame) \in Nat
      /\ HeaderRead => Length = Len(sent[Current])
  BY LengthRead DEF FrameInv
<1>2. n \in Int /\ 1 <= n /\ n <= Wanted
  BY DEF Wanted
<1>3. CASE HeaderRead
  <2>1. Wanted = H + Length - Len(frame)
    BY <1>3 DEF Wanted
  <2> HIDE DEF H, W
  <2> QED BY <1>1, <1>2, <1>3, <2>1 DEF W
<1>4. CASE ~HeaderRead
  <2>1. Len(frame) < H
    BY <1>1, <1>4 DEF HeaderRead
  <2>2. Wanted <= H - Len(frame)
    <3>1. CASE frame = <<>> /\ Current > 1
      <4>1. Wanted = 1 /\ Len(frame) = 0
        BY <1>4, <3>1 DEF Wanted
      <4> QED BY <1>1, <4>1
    <3>2. CASE ~(frame = <<>> /\ Current > 1)
      <4>1. Wanted = H - Len(frame)
        BY <1>4, <3>2 DEF Wanted
      <4> QED BY <1>1, <4>1
    <3> QED BY <3>1, <3>2
  <2>3. Wanted \in Int
    BY <1>1, <1>4 DEF Wanted
  <2> HIDE DEF H, W
  <2> QED BY <1>1, <1>2, <2>1, <2>2, <2>3 DEF W
<1> QED BY <1>3, <1>4

\* After k bytes of w, the next n bytes of a stream that holds w after a are
\* the next n bytes of w.
Continues(a, w, rest, k, n) ==
  SubSeq(w, 1, k) \o SubSeq((a \o w) \o rest, (Len(a) + k) + 1, (Len(a) + k) + n)
    = SubSeq(w, 1, k + n)

LEMMA NextBytes ==
  ASSUME NEW X, NEW a \in Seq(X), NEW w \in Seq(X), NEW rest \in Seq(X),
         NEW k \in Nat, NEW n \in Nat, k + n <= Len(w)
  PROVE  Continues(a, w, rest, k, n)
<1> DEFINE b == a \o w
           st == b \o rest
           piece == SubSeq(st, (Len(a) + k) + 1, (Len(a) + k) + n)
           pre == SubSeq(w, 1, k)
           x == pre \o piece
           y == SubSeq(w, 1, k + n)
<1>1. /\ b \in Seq(X) /\ Len(b) = Len(a) + Len(w)
      /\ \A i \in 1 .. Len(w) : b[Len(a) + i] = w[i]
  OBVIOUS
<1> HIDE DEF b
<1>2. /\ st \in Seq(X) /\ Len(st) = Len(b) + Len(rest)
      /\ \A i \in 1 .. Len(b) : st[i] = b[i]
  <2>1. b \in Seq(X)
    BY <1>1
  <2> QED BY ONLY <2>1, rest \in Seq(X)
<1> HIDE DEF st
<1>3. /\ piece \in Seq(X) /\ Len(piece) = n
      /\ \A i \in 1 .. n : piece[i] = st[(Len(a) + k) + i]
  <2> DEFINE m == Len(a) + k
  <2>1. Len(a) \in Nat /\ Len(w) \in Nat /\ Len(rest) \in Nat
    OBVIOUS
  <2>2. Len(st) = (Len(a) + Len(w)) + Len(rest) /\ st \in Seq(X)
    BY <1>1, <1>2
  <2>3. m \in Nat /\ m + n <= Len(st)
    BY <2>1, <2>2
  <2> HIDE DEF m
  <2>4. /\ SubSeq(st, m + 1, m + n) \in Seq(X)
        /\ Len(SubSeq(st, m + 1, m + n)) = n
        /\ \A i \in 1 .. n : SubSeq(st, m + 1, m + n)[i] = st[m + i]
    BY ONLY <2>2, <2>3, n \in Nat, PieceOf, Zenon
  <2> QED BY <2>4, Zenon DEF m
<1> HIDE DEF piece
<1>4. \A i \in 1 .. n : piece[i] = w[k + i]
  <2> SUFFICES ASSUME NEW i \in 1 .. n PROVE piece[i] = w[k + i]
    OBVIOUS
  <2>1. (Len(a) + k) + i \in 1 .. Len(b) /\ k + i \in 1 .. Len(w) /\ (Len(a) + k) + i = Len(a) + (k + i)
    BY <1>1
  <2> QED BY <1>1, <1>2, <1>3, <2>1
<1>5. y \in Seq(X) /\ Len(y) = k + n /\ \A i \in 1 .. k + n : y[i] = w[i]
  OBVIOUS
<1>6. /\ x \in Seq(X) /\ Len(x) = k + n
      /\ \A i \in 1 .. k : x[i] = w[i]
      /\ \A i \in 1 .. n : x[k + i] = piece[i]
  <2>1. pre \in Seq(X) /\ Len(pre) = k
    OBVIOUS
  <2>2. \A i \in 1 .. k : pre[i] = w[i]
    OBVIOUS
  <2>3. piece \in Seq(X) /\ Len(piece) = n
    BY <1>3
  <2> HIDE DEF pre
  <2>4. x \in Seq(X) /\ Len(x) = k + n
    <3>1. pre \in Seq(X) /\ piece \in Seq(X)
      BY <2>1, <2>3
    <3>2. x \in Seq(X) /\ Len(x) = Len(pre) + Len(piece)
      BY ONLY <3>1
    <3> HIDE DEF x
    <3> QED BY <2>1, <2>3, <3>2
  <2>6. \A i \in 1 .. k : x[i] = pre[i]
    BY ONLY <2>1, <2>3, k \in Nat, n \in Nat
  <2>5. \A i \in 1 .. n : x[k + i] = piece[i]
    <3>1. pre \in Seq(X) /\ piece \in Seq(X)
      BY <2>1, <2>3
    <3>2. \A i \in 1 .. Len(piece) : (pre \o piece)[Len(pre) + i] = piece[i]
      BY ONLY <3>1
    <3> QED BY <2>1, <2>3, <3>2, Zenon
  <2> QED BY <2>2, <2>4, <2>5, <2>6
<1> HIDE DEF x, y
<1>7. \A i \in 1 .. k + n : x[i] = y[i]
  <2> SUFFICES ASSUME NEW i \in 1 .. k + n PROVE x[i] = w[i]
    BY <1>5
  <2>1. CASE i <= k
    BY <1>6, <2>1
  <2>2. CASE i > k
    <3>1. i - k \in 1 .. n /\ k + (i - k) = i
      BY <2>2
    <3> QED BY <1>4, <1>6, <3>1
  <2> QED BY <2>1, <2>2
<1>8. x = y
  BY <1>5, <1>6, <1>7, SeqEqual
<1> QED BY <1>8 DEF Continues, x, y, pre, piece, st, b

LEMMA PeerRead ==
  ASSUME FrameInv, PeerInv, sent # <<>>, Read
  PROVE  PeerInv'
<1>1. PICK n \in 1 .. Wanted :
        /\ taken + n <= arrived
        /\ frame' = frame \o SubSeq(stream, taken + 1, taken + n)
  BY DEF Read
<1>2. UNCHANGED <<stream, sent, arrived, fin, frames, status>>
  BY DEF Read
<1>3. Len(frames) < Len(sent)
  <2>1. n \in Int /\ 1 <= n /\ taken \in Nat /\ arrived \in Nat /\ arrived <= Len(stream)
        /\ Len(stream) \in Nat
    BY <1>1 DEF FrameInv
  <2>2. taken # Len(stream)
    BY <1>1, <2>1
  <2>3. Len(frames) # Len(sent)
    BY <2>2, AllReturned
  <2>4. Len(frames) \in Nat /\ Len(sent) \in Nat /\ Len(frames) <= Len(sent)
    BY DEF PeerInv, FrameInv
  <2> QED BY <2>3, <2>4
<1> DEFINE a == FlattenSeq(frames)
           w == Wire[Current]
           k == Len(frame)
<1>4. n \in Nat /\ k + n <= Len(w)
  BY <1>3, WantsThisFrame
<1>5. PICK rest \in Seq(Bytes) : stream = (a \o w) \o rest /\ taken = Len(a) + k
  BY <1>3, BetweenFrames
<1>6. a \in Seq(Bytes) /\ w \in Seq(Bytes) /\ k \in Nat /\ frame = SubSeq(w, 1, k)
  <2>1. a \in Seq(Bytes)
    BY FlattenType DEF FrameInv
  <2>2. w \in Seq(Bytes)
    BY <1>3, LengthRead
  <2>3. k \in Nat /\ frame = SubSeq(w, 1, k)
    BY <1>3 DEF FrameInv, PeerInv, Begun
  <2> QED BY <2>1, <2>2, <2>3
<1> HIDE DEF a, w, k
<1>7. SubSeq(w, 1, k) \o SubSeq((a \o w) \o rest, (Len(a) + k) + 1, (Len(a) + k) + n)
        = SubSeq(w, 1, k + n)
  <2>1. a \in Seq(Bytes) /\ w \in Seq(Bytes) /\ rest \in Seq(Bytes) /\ k \in Nat /\ n \in Nat
        /\ k + n <= Len(w)
    BY <1>4, <1>6
  <2>2. Continues(a, w, rest, k, n)
    BY <2>1, NextBytes
  <2> QED BY <2>2 DEF Continues
<1>8. frame' = SubSeq(w, 1, k + n)
  BY <1>1, <1>5, <1>6, <1>7
<1>9. Len(frame') = k + n
  BY <1>4, <1>6, <1>8
<1>10. Wire' = Wire /\ Current' = Current
  BY <1>2 DEF Wire, Current
<1>11. Begun'
  BY <1>4, <1>8, <1>9, <1>10 DEF Begun, w
<1>12. ~(Len(frames) = Len(sent))
  BY <1>3 DEF FrameInv, PeerInv
<1> QED BY <1>2, <1>10, <1>11, <1>12 DEF PeerInv

LEMMA PeerRefuse ==
  ASSUME FrameInv, PeerInv, sent # <<>>, RefuseLength
  PROVE  FALSE
<1>1. Current \in Nat /\ Len(frame) = Header(Current)
  BY DEF RefuseLength, FrameInv, Current
<1>2. Header(Current) \in Nat \ {0}
  BY <1>1, HeaderSizes
<1>3. frame # <<>>
  BY <1>1, <1>2
<1>4. Len(frames) < Len(sent)
  BY <1>3 DEF PeerInv, FrameInv
<1>5. HeaderRead
  BY <1>1, <1>2 DEF HeaderRead
<1>6. Current \in 1 .. Len(sent) /\ Length = Len(sent[Current])
  BY <1>4, <1>5, LengthRead
<1> QED BY <1>6 DEF PeerInv, RefuseLength

LEMMA PeerReturn ==
  ASSUME FrameInv, PeerInv, sent # <<>>, ReturnFrame
  PROVE  PeerInv'
<1>0. /\ frames' = Append(frames, frame) /\ frame' = <<>>
      /\ UNCHANGED <<stream, sent, arrived, fin, taken, status>> /\ status = "reading"
      /\ HeaderRead /\ Wanted = 0
  BY DEF ReturnFrame
<1>1. Current \in Nat /\ Current = Len(frames) + 1 /\ Len(frame) \in Nat
  BY DEF FrameInv, Current
<1>2. Header(Current) \in Nat \ {0} /\ Len(frame) >= Header(Current)
  BY <1>0, <1>1, HeaderSizes DEF HeaderRead
<1>3. frame # <<>>
  BY <1>1, <1>2
<1>4. Len(frames) < Len(sent) /\ Len(frames) \in Nat /\ Len(sent) \in Nat
  BY <1>3 DEF PeerInv, FrameInv
<1>5. /\ Length = Len(sent[Current]) /\ sent[Current] \in Seq(Bytes)
      /\ Wire[Current] \in Seq(Bytes) /\ Len(Wire[Current]) = Header(Current) + Len(sent[Current])
  BY <1>0, <1>4, LengthRead
<1>6. Len(frame) = Len(Wire[Current])
  <2>1. Header(Current) + Length - Len(frame) = 0 /\ Length \in Nat
    BY <1>0, <1>5 DEF Wanted
  <2> QED BY <1>1, <1>2, <1>5, <2>1
<1>7. frame = Wire[Current]
  <2>1. frame = SubSeq(Wire[Current], 1, Len(Wire[Current]))
    BY <1>4, <1>6 DEF PeerInv, Begun
  <2>2. \A x \in Seq(Bytes) : SubSeq(x, 1, Len(x)) = x
    OBVIOUS
  <2> QED BY <1>5, <2>1, <2>2
<1>8. Wire' = Wire
  BY <1>0 DEF Wire
<1>9. Len(frames') = Len(frames) + 1 /\ frames'[Len(frames) + 1] = frame
      /\ \A i \in 1 .. Len(frames) : frames'[i] = frames[i]
  BY <1>0 DEF FrameInv
<1>10. \A i \in 1 .. Len(frames') : frames'[i] = Wire'[i]
  <2> SUFFICES ASSUME NEW i \in 1 .. Len(frames')
               PROVE  frames'[i] = Wire[i]
    BY <1>8
  <2>1. CASE i = Len(frames) + 1
    BY <1>1, <1>7, <1>9, <2>1
  <2>2. CASE i # Len(frames) + 1
    <3>1. i \in 1 .. Len(frames)
      BY <1>4, <1>9, <2>2
    <3> QED BY <1>9, <3>1 DEF PeerInv
  <2> QED BY <2>1, <2>2
<1>11. ASSUME Len(frames') < Len(sent)
       PROVE  Begun'
  <2>1. Current' = Len(frames) + 2 /\ Len(frames) + 2 \in 1 .. Len(sent)
    BY <1>4, <1>9, <1>11 DEF Current
  <2>2. Wire \in Seq(Seq(Bytes)) /\ Len(Wire) = Len(sent)
    BY WireType DEF PeerInv
  <2>3. Wire[Len(frames) + 2] \in Seq(Bytes)
    BY <2>1, <2>2
  <2>4. \A x \in Seq(Bytes) : SubSeq(x, 1, 0) = <<>> /\ 0 <= Len(x)
    OBVIOUS
  <2>5. Len(frame') = 0
    BY <1>0
  <2> QED BY <1>0, <1>8, <2>1, <2>3, <2>4, <2>5 DEF Begun
<1>12. Len(frames') <= Len(sent)
  BY <1>4, <1>9
<1>13. sent' = sent /\ stream' = FlattenSeq(Wire')
  BY <1>0, <1>8 DEF PeerInv
<1> QED BY <1>0, <1>10, <1>11, <1>12, <1>13 DEF PeerInv

LEMMA PeerEof ==
  ASSUME FrameInv, PeerInv, sent # <<>>, ReadEof
  PROVE  PeerInv'
<1>0. UNCHANGED <<stream, sent, arrived, fin, taken, frame, frames>> /\ Wanted > 0
      /\ status' = IF EndsBetweenRecords THEN "eof" ELSE "truncated"
  BY DEF ReadEof
<1>1. taken = Len(stream)
  BY DEF ReadEof, FrameInv
<1>2. Len(frames) \in Nat /\ Len(sent) \in Nat /\ Len(frames) <= Len(sent) /\ Len(frame) \in Nat
  BY DEF FrameInv, PeerInv
<1>3. ASSUME Len(frames) < Len(sent)
      PROVE  FALSE
  <2> DEFINE a == FlattenSeq(frames)
             w == Wire[Current]
  <2>1. PICK rest \in Seq(Bytes) : stream = (a \o w) \o rest /\ taken = Len(a) + Len(frame)
    BY <1>3, BetweenFrames
  <2>2. /\ Header(Current) \in Nat \ {0} /\ w \in Seq(Bytes) /\ sent[Current] \in Seq(Bytes)
        /\ Len(w) = Header(Current) + Len(sent[Current])
        /\ HeaderRead => Length = Len(sent[Current])
    BY <1>3, LengthRead
  <2>3. Len(frame) <= Len(w)
    BY <1>3 DEF PeerInv, Begun
  <2>4. a \in Seq(Bytes)
    BY FlattenType DEF FrameInv
  <2> HIDE DEF a, w
  <2>5. Len(stream) = (Len(a) + Len(w)) + Len(rest)
    <3>1. a \o w \in Seq(Bytes) /\ Len(a \o w) = Len(a) + Len(w)
      <4>1. a \in Seq(Bytes) /\ w \in Seq(Bytes)
        BY <2>2, <2>4
      <4> QED BY ONLY <4>1
    <3>2. \A x, y \in Seq(Bytes) : Len(x \o y) = Len(x) + Len(y)
      OBVIOUS
    <3> QED BY <2>1, <3>1, <3>2
  <2>6. Len(a) \in Nat /\ Len(w) \in Nat /\ Len(rest) \in Nat /\ Len(sent[Current]) \in Nat
    BY <2>2, <2>4
  <2>7. Len(frame) = Len(w)
    BY <1>1, <1>2, <2>1, <2>3, <2>5, <2>6
  <2>8. HeaderRead
    BY <2>2, <2>6, <2>7 DEF HeaderRead
  <2>9. Wanted = Header(Current) + Length - Len(frame)
    BY <2>8 DEF Wanted
  <2> QED BY <1>0, <2>2, <2>6, <2>7, <2>8, <2>9
<1>4. Len(frames) = Len(sent) /\ frame = <<>>
  BY <1>2, <1>3 DEF PeerInv
<1>5. frames # <<>>
  BY <1>4 DEF PeerInv, FrameInv
<1>6. status' = "eof"
  BY <1>0, <1>4, <1>5 DEF EndsBetweenRecords
<1>7. Wire' = Wire
  BY <1>0 DEF Wire
<1>8. ~(Len(frames) < Len(sent))
  BY <1>3
<1> QED BY <1>0, <1>4, <1>6, <1>7, <1>8 DEF PeerInv

LEMMA PeerInvNext == FrameInv /\ PeerInv /\ [FrameNext]_framevars => PeerInv'
<1> SUFFICES ASSUME FrameInv, PeerInv, [FrameNext]_framevars
             PROVE  PeerInv'
  OBVIOUS
<1>0. sent' = sent
  BY DEF FrameNext, framevars, Read, RefuseLength, ReturnFrame, ReadEof, Arrive
<1>1. CASE sent = <<>>
  BY <1>0, <1>1 DEF PeerInv
<1>2. CASE sent # <<>>
  <2>1. CASE UNCHANGED <<stream, sent, taken, frame, frames, status>>
    <3>1. Wire' = Wire /\ Current' = Current
      BY <2>1 DEF Wire, Current
    <3> QED BY <2>1, <3>1 DEF PeerInv, Begun
  <2>2. CASE Arrive
    BY <2>1, <2>2 DEF Arrive
  <2>3. CASE UNCHANGED framevars
    BY <2>1, <2>3 DEF framevars
  <2> QED BY <1>2, <2>2, <2>3, PeerRead, PeerRefuse, PeerReturn, PeerEof DEF FrameNext
<1> QED BY <1>1, <1>2

\* encode_handshake_frame and seal_record against read_length_framed and
\* read_record_frame: for every message length up to the maximum, every
\* number of records and every segmentation, what a peer frames is read back
\* payload by payload, nothing of it is refused, and the stream ends cleanly
\* after the last record and not before.
THEOREM SentReadBack == FrameSpec => []SentIsReadBack
<1>1. FrameSpec => [](FrameInv /\ PeerInv)
  BY FrameInvInit, FrameInvNext, PeerInvInit, PeerInvNext, PTL DEF FrameSpec
<1>2. FrameInv /\ PeerInv => SentIsReadBack
  <2> SUFFICES ASSUME FrameInv, PeerInv, sent # <<>>
               PROVE  SentIsReadBack
    BY DEF SentIsReadBack
  <2>1. ASSUME NEW i \in 1 .. Len(frames)
        PROVE  Payload(i) = {sent[i]}
    <3>1. i \in 1 .. Len(sent) /\ i \in Nat /\ frames[i] = Wire[i]
      BY DEF PeerInv, FrameInv
    <3> DEFINE W == Wire[i]
               H == Header(i)
               p == sent[i]
    <3>2. W = Encode(p, H) /\ p \in Seq(Bytes) /\ Len(p) <= Maximum(i)
      BY <3>1, WireType DEF PeerInv
    <3>3. H \in Nat \ {0} /\ Maximum(i) \in Nat
      BY <3>1, HeaderSizes
    <3>e. /\ from_be_bytes(to_be_bytes(Len(sent[i]), Header(i))) = Len(sent[i])
          /\ Len(Encode(sent[i], Header(i))) = Header(i) + Len(sent[i])
          /\ SubSeq(Encode(sent[i], Header(i)), 1, Header(i)) = to_be_bytes(Len(sent[i]), Header(i))
          /\ SubSeq(Encode(sent[i], Header(i)), Header(i) + 1, Header(i) + Len(sent[i])) = sent[i]
      BY <3>1, <3>2, EncodeType
    <3>4. /\ Len(W) = H + Len(p) /\ from_be_bytes(SubSeq(W, 1, H)) = Len(p)
          /\ SubSeq(W, H + 1, H + Len(p)) = p
      BY ONLY <3>2, <3>e, Zenon
    <3>5. Len(p) \in Nat
      BY <3>2
    <3> HIDE DEF W, H, p
    <3>6. ~(Len(W) < H) /\ ~(Len(p) > Maximum(i))
      BY <3>2, <3>3, <3>4, <3>5
    <3>7. decode_frame(W, H, Maximum(i)) = {p}
      BY <3>4, <3>6 DEF decode_frame
    <3> QED BY <3>1, <3>7 DEF Payload, W, H, p
  <2> QED BY <2>1 DEF PeerInv, SentIsReadBack
<1> QED BY <1>1, <1>2, PTL
=============================================================================
