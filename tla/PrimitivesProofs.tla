-------------------------- MODULE PrimitivesProofs --------------------------
(***************************************************************************)
(* What to_writer writes from_reader reads, and size says how long it is:  *)
(* for every type composed of integers, bytes, bool, Option, arrays,       *)
(* tuples and boxes, and for integers and byte arrays of any width.        *)
(*                                                                         *)
(* The calls still to make are a path: from what has been read so far to   *)
(* one value of the type, each call by what it must leave (`Path`).  Two   *)
(* relations are followed along it: `Handles`, of depths and sizes, which  *)
(* also holds for the bytes of a peer, and `Means`, of the values the      *)
(* writer still had to write.  SizesAccounted and BodyKept are the         *)
(* invariants; a composed type keeps them because its calls lead where the *)
(* call for the type itself did (CallsHandle, CallsMean).                  *)
(***************************************************************************)
EXTENDS Primitives, Integers, TLAPS, NaturalsInduction, WellFoundedInduction, SequenceTheorems

\* Induction on the natural numbers, over a set: the least number outside it
\* would follow one inside it.
LEMMA Induction ==
    ASSUME NEW S, 0 \in S, \A n \in Nat : n \in S => n + 1 \in S
    PROVE  \A n \in Nat : n \in S
<1>. DEFINE T == Nat \ S
           R == OpToRel(<, Nat)
<1>1. SUFFICES ASSUME T # {} PROVE FALSE
    OBVIOUS
<1>2. \E x \in T : \A y \in T : <<y, x>> \notin R
  <2>1. IsWellFoundedOn(R, Nat)
    BY NatLessThanWellFounded
  <2>2. T \subseteq Nat
    OBVIOUS
  <2>. HIDE DEF T, R
  <2>. QED  BY <1>1, <2>1, <2>2, WFMin
<1>3. PICK x \in T : \A y \in T : <<y, x>> \notin R
    BY <1>2
<1>4. \A y \in T : ~(y < x)
    BY <1>3 DEF OpToRel
<1>5. x # 0 /\ x \in Nat
    OBVIOUS
<1>6. x - 1 \in Nat /\ x - 1 \in S
    BY <1>4, <1>5
<1>. QED  BY <1>6, <1>5

-----------------------------------------------------------------------------
\* Quotient and remainder.
LEMMA DivMod ==
    ASSUME NEW a \in Nat, NEW b \in Nat, b >= 1
    PROVE  /\ a \div b \in Nat /\ a % b \in Nat /\ a % b < b
           /\ a = (a \div b) * b + (a % b)
<1>1. a \div b \in Int /\ a % b \in Int /\ a % b < b /\ a % b >= 0
    OBVIOUS
<1>2. a = (a \div b) * b + (a % b)
    OBVIOUS
<1>3. a \div b >= 0
  <2>1. SUFFICES ASSUME a \div b <= -1 PROVE FALSE
     BY <1>1
  <2>2. (a \div b) * b <= -b
     BY <1>1, <2>1
  <2>. QED  BY <2>2, <1>1, <1>2
<1>. QED  BY <1>1, <1>2, <1>3

\* They are the only ones.
LEMMA DivUnique ==
    ASSUME NEW b \in Nat, b >= 1, NEW q \in Nat, NEW r \in Nat, r < b,
           NEW a \in Nat, a = b * q + r
    PROVE  a \div b = q /\ a % b = r
OBVIOUS

\* Two functions that start alike and go on alike are alike.
LEMMA GoOnAlike ==
    ASSUME NEW n \in Nat, NEW f, NEW g, f[0] = g[0],
           \A i \in 1..n : f[i - 1] = g[i - 1] => f[i] = g[i]
    PROVE  \A i \in 0..n : f[i] = g[i]
<1>. DEFINE S == {i \in Nat : i <= n => f[i] = g[i]}
<1>1. 0 \in S
    OBVIOUS
<1>2. ASSUME NEW i \in Nat, i \in S PROVE i + 1 \in S
  <2>1. SUFFICES ASSUME i + 1 <= n PROVE f[i + 1] = g[i + 1]
    OBVIOUS
  <2>2. i + 1 \in 1..n /\ (i + 1) - 1 = i /\ f[i] = g[i]
    BY <1>2, <2>1
  <2>. QED  BY <2>2
<1>. HIDE DEF S
<1>3. \A i \in Nat : i \in S
    BY <1>1, <1>2, Induction
<1>. QED  BY <1>3 DEF S

-----------------------------------------------------------------------------
(* Sizes. *)

\* A sequence of things that have sizes, and its running totals.
Sized(s) == (\E S : s \in Seq(S)) /\ \A i \in 1..Len(s) : s[i].size \in Nat
Totals(s, f) == /\ f \in [0..Len(s) -> Nat] /\ f[0] = 0
                /\ \A i \in 1..Len(s) : f[i] = f[i - 1] + s[i].size

\* Every sequence has totals.
LEMMA TotalsExist == ASSUME NEW s, Sized(s) PROVE \E f : Totals(s, f)
<1>. DEFINE Part(n, f) == /\ f \in [0..n -> Nat] /\ f[0] = 0
                          /\ \A i \in 1..n : f[i] = f[i - 1] + s[i].size
           S == {n \in Nat : n <= Len(s) => \E f : Part(n, f)}
<1>1. Len(s) \in Nat
    BY LenProperties DEF Sized
<1>2. 0 \in S
  <2>1. Part(0, [i \in 0..0 |-> 0])
    OBVIOUS
  <2>. HIDE DEF Part
  <2>. QED  BY <2>1
<1>3. ASSUME NEW n \in Nat, n \in S PROVE n + 1 \in S
  <2>. HIDE DEF Part
  <2>1. SUFFICES ASSUME n + 1 <= Len(s) PROVE \E f : Part(n + 1, f)
    OBVIOUS
  <2>2. PICK f : Part(n, f)
    BY <1>1, <1>3, <2>1
  <2>3. PICK d \in Nat : d = s[n + 1].size
    BY <1>1, <2>1 DEF Sized
  <2>4. /\ f \in [0..n -> Nat] /\ f[0] = 0
        /\ \A i \in 1..n : f[i] = f[i - 1] + s[i].size
    BY <2>2 DEF Part
  <2>5. PICK g : g = [i \in 0..(n + 1) |-> IF i = n + 1 THEN f[n] + d ELSE f[i]]
    OBVIOUS
  <2>6. /\ g \in [0..(n + 1) -> Nat] /\ g[n + 1] = f[n] + d
        /\ \A i \in 0..n : g[i] = f[i]
    BY <2>4, <2>5
  <2>7. \A i \in 1..(n + 1) : g[i] = g[i - 1] + s[i].size
    <3>1. ASSUME NEW i \in 1..(n + 1) PROVE g[i] = g[i - 1] + s[i].size
        <4>1. CASE i = n + 1
            BY <2>3, <2>6, <4>1
        <4>2. CASE i # n + 1
            <5>1. i \in 1..n /\ i \in 0..n /\ i - 1 \in 0..n
                BY <4>2
            <5>. QED  BY <2>4, <2>6, <5>1
        <4>. QED  BY <4>1, <4>2
    <3>. QED  BY <3>1
  <2>8. g[0] = 0
    BY <2>4, <2>6
  <2>. QED  BY <2>6, <2>7, <2>8 DEF Part
<1>. HIDE DEF S
<1>4. \A n \in Nat : n \in S
    BY <1>2, <1>3, Induction
<1>5. \E f : Part(Len(s), f)
  <2>1. PICK n \in Nat : n = Len(s)
    BY <1>1
  <2>2. n \in S
    BY <1>4
  <2>. HIDE DEF Part
  <2>. QED  BY <2>1, <2>2 DEF S
<1>. QED  BY <1>5 DEF Totals

\* size of a sequence is the last of its totals.
LEMMA SizeOfIs == ASSUME NEW s, Sized(s), NEW f, Totals(s, f) PROVE SizeOf(s) = f[Len(s)]
<1>1. Len(s) \in Nat
    BY LenProperties DEF Sized
<1>. DEFINE Solves(g) ==
        g = [i \in 0..Len(s) |-> IF i = 0 THEN 0 ELSE g[i - 1] + s[i].size]
           total == CHOOSE g : Solves(g)
<1>2. f = [i \in 0..Len(s) |-> f[i]]
    BY DEF Totals
<1>3. Solves(f)
  <2>1. \A i \in 0..Len(s) : f[i] = IF i = 0 THEN 0 ELSE f[i - 1] + s[i].size
    BY <1>1 DEF Totals
  <2>. QED  BY <1>2, <2>1
<1>4. Solves(total)
  <2>. HIDE DEF Solves
  <2>. QED  BY <1>3
<1>. HIDE DEF total
<1>5. \A i \in 0..Len(s) : total[i] = IF i = 0 THEN 0 ELSE total[i - 1] + s[i].size
    BY <1>4
<1>6. \A i \in 0..Len(s) : total[i] = f[i]
  <2>1. total[0] = f[0]
    BY <1>1, <1>5 DEF Totals
  <2>2. ASSUME NEW i \in 1..Len(s), total[i - 1] = f[i - 1] PROVE total[i] = f[i]
    BY <1>1, <1>5, <2>2 DEF Totals
  <2>3. PICK g : g = total
    OBVIOUS
  <2>4. PICK n \in Nat : n = Len(s)
    BY <1>1
  <2>5. g[0] = f[0] /\ \A i \in 1..n : g[i - 1] = f[i - 1] => g[i] = f[i]
    BY <2>1, <2>2, <2>3, <2>4
  <2>6. \A i \in 0..n : g[i] = f[i]
    BY <2>5, GoOnAlike
  <2>. QED  BY <2>3, <2>4, <2>6
<1>7. SizeOf(s) = total[Len(s)]
    BY DEF SizeOf, total
<1>. QED  BY <1>1, <1>6, <1>7

\* The sizes of nothing, of one thing, and of two sequences in a row.
LEMMA SizeOfNone == SizeOf(<<>>) = 0
<1>1. Sized(<<>>)
  <2>1. <<>> \in Seq({})
    OBVIOUS
  <2>. QED  BY <2>1 DEF Sized
<1>2. Totals(<<>>, [i \in 0..0 |-> 0])
    BY DEF Totals
<1>. QED  BY <1>1, <1>2, SizeOfIs

\* The size of one value alone, and of two sequences one after the other.
LEMMA SizedOne == ASSUME NEW x, x.size \in Nat PROVE Sized(<<x>>) /\ SizeOf(<<x>>) = x.size
<1>1. Sized(<<x>>)
  <2>1. <<x>> \in Seq({x}) /\ Len(<<x>>) = 1 /\ <<x>>[1] = x
    OBVIOUS
  <2>2. \A i \in 1..Len(<<x>>) : <<x>>[i].size \in Nat
    BY <2>1
  <2>. QED  BY <2>1, <2>2 DEF Sized
<1>2. PICK d \in Nat : d = x.size
    OBVIOUS
<1>3. Totals(<<x>>, [i \in 0..1 |-> IF i = 0 THEN 0 ELSE d])
    BY <1>2 DEF Totals
<1>. QED  BY <1>1, <1>2, <1>3, SizeOfIs, SMTT(30)

\* Sizes of a concatenation add up.
LEMMA SizedConcat ==
    ASSUME NEW s, NEW t, Sized(s), Sized(t)
    PROVE  /\ Sized(s \o t) /\ SizeOf(s \o t) = SizeOf(s) + SizeOf(t)
           /\ SizeOf(s) \in Nat /\ SizeOf(t) \in Nat
<1>1. PICK S : s \in Seq(S)
    BY DEF Sized
<1>2. PICK T : t \in Seq(T)
    BY DEF Sized
<1>3. PICK m, n \in Nat : m = Len(s) /\ n = Len(t)
    BY <1>1, <1>2, LenProperties
<1>4. PICK U : U = S \union T
    OBVIOUS
<1>5. s \in Seq(U) /\ t \in Seq(U)
    BY <1>1, <1>2, <1>4
<1>6. /\ s \o t \in Seq(U) /\ Len(s \o t) = m + n
      /\ \A i \in 1..(m + n) : (s \o t)[i] = IF i <= m THEN s[i] ELSE t[i - m]
    BY <1>3, <1>5, ConcatProperties
<1>7. Sized(s \o t)
  <2>1. ASSUME NEW i \in 1..(m + n) PROVE (s \o t)[i].size \in Nat
    <3>1. CASE i <= m
        BY <1>3, <1>6, <3>1 DEF Sized
    <3>2. CASE ~(i <= m)
        <4>1. i - m \in 1..n
            BY <3>2
        <4>. QED  BY <1>3, <1>6, <3>2, <4>1 DEF Sized
    <3>. QED  BY <3>1, <3>2
  <2>. QED  BY <1>6, <2>1 DEF Sized
<1>8. PICK f : Totals(s, f)
    BY TotalsExist
<1>9. PICK g : Totals(t, g)
    BY TotalsExist
<1>. DEFINE h == [i \in 0..(m + n) |-> IF i <= m THEN f[i] ELSE f[m] + g[i - m]]
<1>10. f[m] \in Nat /\ g[n] \in Nat /\ g[0] = 0
    BY <1>3, <1>8, <1>9 DEF Totals
<1>15. /\ h = [i \in 0..(m + n) |-> h[i]]
       /\ \A i \in 0..(m + n) : h[i] = IF i <= m THEN f[i] ELSE f[m] + g[i - m]
    OBVIOUS
<1>. HIDE DEF h
<1>11. Totals(s \o t, h)
  <2>1. h \in [0..(m + n) -> Nat]
    <3>1. ASSUME NEW i \in 0..(m + n) PROVE h[i] \in Nat
      <4>1. CASE i <= m
        BY <1>3, <1>8, <1>15, <4>1 DEF Totals
      <4>2. CASE ~(i <= m)
        <5>1. i - m \in 0..n
            BY <4>2
        <5>2. g[i - m] \in Nat
            BY <1>3, <1>9, <5>1 DEF Totals
        <5>. QED  BY <1>10, <1>15, <4>2, <5>2
      <4>. QED  BY <4>1, <4>2
    <3>. QED  BY <1>15, <3>1
  <2>2. h[0] = 0
    BY <1>8, <1>15 DEF Totals
  <2>3. ASSUME NEW i \in 1..(m + n) PROVE h[i] = h[i - 1] + (s \o t)[i].size
    <3>1. CASE i <= m
      <4>1. h[i] = f[i] /\ h[i - 1] = f[i - 1] /\ (s \o t)[i] = s[i] /\ i \in 1..m
        BY <1>6, <1>15, <3>1
      <4>. QED  BY <1>3, <1>8, <4>1 DEF Totals
    <3>2. CASE i = m + 1
      <4>1. h[i] = f[m] + g[1] /\ h[i - 1] = f[m] /\ (s \o t)[i] = t[1] /\ 1 \in 1..n
        <5>1. i - m = 1 /\ ~(i <= m) /\ i - 1 = m /\ m \in 0..(m + n) /\ 1 \in 1..n
            BY <3>2
        <5>2. h[i] = f[m] + g[i - m] /\ (s \o t)[i] = t[i - m]
            BY <1>6, <1>15, <5>1, SMTT(30)
        <5>3. h[m] = f[m]
            BY <1>15, <5>1
        <5>. QED  BY <5>1, <5>2, <5>3
      <4>2. g[1] = g[1 - 1] + t[1].size
        BY <1>3, <1>9, <4>1 DEF Totals
      <4>3. g[1 - 1] = 0 /\ t[1].size \in Nat
        BY <1>3, <1>10, <4>1 DEF Sized
      <4>. QED  BY <1>10, <4>1, <4>2, <4>3
    <3>3. CASE i > m + 1
      <4>1. PICK j \in 1..n : j = i - m /\ j - 1 \in 0..n /\ j - 1 = (i - 1) - m
        BY <3>3
      <4>2. h[i] = f[m] + g[j] /\ h[i - 1] = f[m] + g[j - 1] /\ (s \o t)[i] = t[j]
        <5>1. /\ i \in 0..(m + n) /\ i - 1 \in 0..(m + n) /\ ~(i <= m) /\ ~(i - 1 <= m)
              /\ i - m = j /\ (i - 1) - m = j - 1
            BY <3>3, <4>1
        <5>2. h[i] = f[m] + g[j] /\ h[i - 1] = f[m] + g[j - 1]
            BY <1>15, <5>1
        <5>3. (s \o t)[i] = t[j]
            BY <1>6, <5>1
        <5>. QED  BY <5>2, <5>3
      <4>3. g[j] = g[j - 1] + t[j].size /\ g[j - 1] \in Nat /\ t[j].size \in Nat
        BY <1>3, <1>9, <4>1 DEF Totals, Sized
      <4>. QED  BY <1>10, <4>2, <4>3
    <3>4. i <= m \/ i = m + 1 \/ i > m + 1
        OBVIOUS
    <3>. QED  BY <3>1, <3>2, <3>3, <3>4, Zenon
  <2>. QED  BY <1>6, <2>1, <2>2, <2>3 DEF Totals
<1>12. h[m + n] = f[m] + g[n]
  <2>1. CASE n = 0
    BY <1>10, <1>15, <2>1
  <2>2. CASE n # 0
    BY <1>15, <2>2
  <2>. QED  BY <2>1, <2>2
<1>13. SizeOf(s \o t) = h[m + n]
    BY <1>6, <1>7, <1>11, SizeOfIs
<1>14. SizeOf(s) = f[m] /\ SizeOf(t) = g[n]
    BY <1>3, <1>8, <1>9, SizeOfIs
<1>. QED  BY <1>7, <1>10, <1>12, <1>13, <1>14

\* The order of the parts does not matter.
LEMMA SizedReverse ==
    ASSUME NEW s, Sized(s), NEW n \in Nat, n = Len(s)
    PROVE  LET r == [i \in 1..n |-> s[n + 1 - i]] IN Sized(r) /\ SizeOf(r) = SizeOf(s)
<1>. DEFINE r == [i \in 1..n |-> s[n + 1 - i]]
<1>1. PICK S : s \in Seq(S)
    BY DEF Sized
<1>2. \A i \in 1..n : n + 1 - i \in 1..n
    OBVIOUS
<1>3. r \in Seq(S) /\ Len(r) = n
  <2>1. \A i \in 1..n : s[n + 1 - i] \in S
    BY <1>1, <1>2, ElementOfSeq
  <2>2. r \in [1..n -> S]
    BY <2>1
  <2>. HIDE DEF r
  <2>. QED  BY <2>2
<1>4. \A i \in 1..n : r[i] = s[n + 1 - i]
    OBVIOUS
<1>. HIDE DEF r
<1>5. Sized(r)
    BY <1>2, <1>3, <1>4 DEF Sized
<1>6. PICK f : Totals(s, f)
    BY TotalsExist
<1>7. f \in [0..n -> Nat] /\ f[0] = 0 /\ \A i \in 1..n : f[i] = f[i - 1] + s[i].size
    BY <1>6 DEF Totals
<1>8. \A i \in 0..n : f[i] <= f[n]
  <2>. DEFINE T == {k \in Nat : k <= n => f[n - k] <= f[n]}
  <2>1. 0 \in T
    BY <1>7
  <2>2. ASSUME NEW k \in Nat, k \in T PROVE k + 1 \in T
    <3>1. SUFFICES ASSUME k + 1 <= n PROVE f[n - (k + 1)] <= f[n]
        OBVIOUS
    <3>2. PICK j \in 1..n : j = n - k /\ j - 1 = n - (k + 1)
        BY <3>1
    <3>3. f[j] = f[j - 1] + s[j].size /\ s[j].size \in Nat
        BY <1>7, <3>2 DEF Sized
    <3>4. f[j] <= f[n] /\ f[j] \in Nat /\ f[j - 1] \in Nat /\ f[n] \in Nat
      <4>1. f[n - k] <= f[n]
        BY <2>2, <3>1
      <4>2. j \in 0..n /\ j - 1 \in 0..n /\ n \in 0..n
        OBVIOUS
      <4>3. f[j] \in Nat /\ f[j - 1] \in Nat /\ f[n] \in Nat
        BY <1>7, <4>2
      <4>. QED  BY <3>2, <4>1, <4>3
    <3>. QED  BY <3>2, <3>3, <3>4
  <2>. HIDE DEF T
  <2>3. \A k \in Nat : k \in T
    BY <2>1, <2>2, Induction
  <2>4. ASSUME NEW i \in 0..n PROVE f[i] <= f[n]
    <3>1. n - i \in Nat /\ n - i <= n /\ n - (n - i) = i
        OBVIOUS
    <3>. QED  BY <2>3, <3>1 DEF T
  <2>. QED  BY <2>4
<1>. DEFINE h == [i \in 0..n |-> f[n] - f[n - i]]
<1>9. Totals(r, h)
  <2>1. ASSUME NEW i \in 0..n PROVE h[i] \in Nat
    <3>1. n - i \in 0..n /\ n \in 0..n
        OBVIOUS
    <3>2. f[n - i] \in Nat /\ f[n] \in Nat /\ f[n - i] <= f[n]
        BY <1>7, <1>8, <3>1
    <3>. QED  BY <3>2
  <2>2. h[0] = 0
    BY <1>7
  <2>3. ASSUME NEW i \in 1..n PROVE h[i] = h[i - 1] + r[i].size
    <3>1. PICK j \in 1..n : j = n + 1 - i /\ j = n - (i - 1) /\ j - 1 = n - i
        BY SMTT(30)
    <3>2. f[j] = f[j - 1] + s[j].size /\ s[j].size \in Nat /\ r[i] = s[j]
        BY <1>4, <1>7, <3>1 DEF Sized
    <3>3. f[j] \in Nat /\ f[j - 1] \in Nat /\ f[n] \in Nat
        BY <1>7
    <3>4. h[i] = f[n] - f[j - 1] /\ h[i - 1] = f[n] - f[j]
        BY <3>1
    <3>. QED  BY <3>2, <3>3, <3>4, SMTT(30)
  <2>4. h \in [0..n -> Nat]
    BY <2>1
  <2>. HIDE DEF h
  <2>. QED  BY <1>3, <2>2, <2>3, <2>4 DEF Totals
<1>10. h[n] = f[n]
    BY <1>7
<1>11. SizeOf(r) = h[n]
  <2>. HIDE DEF h
  <2>. QED  BY <1>3, <1>5, <1>9, SizeOfIs
<1>12. SizeOf(s) = f[n]
    BY <1>6, SizeOfIs
<1>. QED  BY <1>5, <1>10, <1>11, <1>12 DEF r

-----------------------------------------------------------------------------
(* Powers. *)

\* A table of the powers of b up to n.
Upto(b, n, g) == g \in [0..n -> Nat] /\ g[0] = 1 /\ \A k \in 1..n : g[k] = b * g[k - 1]

\* The recursion of the powers has a solution: there are tables of every length,
\* they agree, and together they are a function that satisfies it.
LEMMA PowersExist ==
    ASSUME NEW b \in Nat
    PROVE  \E f : f = [n \in Nat |-> IF n = 0 THEN 1 ELSE b * f[n - 1]]
<1>. DEFINE Has == {n \in Nat : \E g : Upto(b, n, g)}
<1>1. \A n \in Nat : n \in Has
  <2>1. 0 \in Has
    <3>1. Upto(b, 0, [k \in 0..0 |-> 1])
        BY DEF Upto
    <3>. QED  BY <3>1
  <2>2. ASSUME NEW n \in Nat, n \in Has PROVE n + 1 \in Has
    <3>1. PICK g : Upto(b, n, g)
        BY <2>2
    <3>2. PICK d \in Nat : d = b * g[n]
        BY <3>1 DEF Upto
    <3>. DEFINE e == [k \in 0..(n + 1) |-> IF k = n + 1 THEN d ELSE g[k]]
    <3>3. e \in [0..(n + 1) -> Nat] /\ e[0] = 1
        BY <3>1, <3>2 DEF Upto
    <3>4. \A k \in 1..(n + 1) : e[k] = IF k = n + 1 THEN d ELSE g[k]
        OBVIOUS
    <3>5. \A k \in 1..(n + 1) : e[k - 1] = g[k - 1]
        OBVIOUS
    <3>. HIDE DEF e
    <3>6. ASSUME NEW k \in 1..(n + 1) PROVE e[k] = b * e[k - 1]
      <4>1. CASE k = n + 1
        <5>1. e[k] = d /\ e[k - 1] = g[n]
            BY <3>4, <3>5, <4>1
        <5>. QED  BY <3>2, <5>1
      <4>2. CASE k # n + 1
        <5>1. k \in 1..n /\ e[k] = g[k] /\ e[k - 1] = g[k - 1]
            BY <3>4, <3>5, <4>2
        <5>. QED  BY <3>1, <5>1 DEF Upto
      <4>. QED  BY <4>1, <4>2
    <3>. QED  BY <3>3, <3>6, SMTT(30) DEF Upto
  <2>. HIDE DEF Has
  <2>. QED  BY <2>1, <2>2, Induction
<1>. DEFINE G(n) == CHOOSE g : Upto(b, n, g)
           h == [n \in Nat |-> G(n)[n]]
<1>2. \A n \in Nat : Upto(b, n, G(n))
    BY <1>1
<1>. DEFINE Same == {n \in Nat : \A m \in Nat : n <= m => G(m)[n] = h[n]}
<1>3. \A n \in Nat : n \in Same
  <2>1. 0 \in Same
    <3>1. \A m \in Nat : G(m)[0] = 1
        BY <1>2 DEF Upto
    <3>. HIDE DEF G
    <3>. QED  BY <3>1
  <2>2. ASSUME NEW n \in Nat, n \in Same PROVE n + 1 \in Same
    <3>1. \A m \in Nat : n + 1 <= m => G(m)[n + 1] = b * G(m)[n]
      <4>. TAKE m \in Nat
      <4>. HAVE n + 1 <= m
      <4>. HIDE DEF G
      <4>. QED  BY <1>2 DEF Upto
    <3>. HIDE DEF G
    <3>2. \A m \in Nat : n + 1 <= m => G(m)[n] = h[n]
        BY <2>2
    <3>. QED  BY <3>1, <3>2
  <2>. HIDE DEF Same
  <2>. QED  BY <2>1, <2>2, Induction
<1>4. h = [n \in Nat |-> IF n = 0 THEN 1 ELSE b * h[n - 1]]
  <2>. HIDE DEF G
  <2>1. \A n \in Nat : h[n] = IF n = 0 THEN 1 ELSE b * h[n - 1]
    <3>. TAKE n \in Nat
    <3>1. CASE n = 0
        BY <3>1, <1>2 DEF Upto
    <3>2. CASE n # 0
      <4>1. G(n)[n] = b * G(n)[n - 1]
        BY <3>2, <1>2 DEF Upto
      <4>2. G(n)[n - 1] = h[n - 1]
        BY <3>2, <1>3
      <4>. QED  BY <3>2, <4>1, <4>2
    <3>. QED  BY <3>1, <3>2
  <2>. QED  BY <2>1
<1>. HIDE DEF h
<1>. QED  BY <1>4

\* Powers start at 1, go on by their base and are never 0.
LEMMA PowersOf ==
    ASSUME NEW b \in Nat, b >= 1, NEW f,
           \A n \in Nat : f[n] = IF n = 0 THEN 1 ELSE b * f[n - 1]
    PROVE  /\ f[0] = 1
           /\ \A n \in Nat : f[n] \in Nat /\ f[n] >= 1 /\ f[n + 1] = b * f[n]
<1>. DEFINE S == {n \in Nat : f[n] \in Nat /\ f[n] >= 1}
<1>1. \A n \in Nat : f[n] = IF n = 0 THEN 1 ELSE b * f[n - 1]
    OBVIOUS
<1>2. f[0] = 1
    BY <1>1
<1>3. \A n \in Nat : f[n + 1] = b * f[n]
  <2>. TAKE n \in Nat
  <2>1. n + 1 \in Nat /\ n + 1 # 0 /\ (n + 1) - 1 = n
    OBVIOUS
  <2>. QED  BY <1>1, <2>1
<1>4. \A n \in Nat : n \in S
  <2>1. 0 \in S
    BY <1>2
  <2>2. ASSUME NEW n \in Nat, n \in S PROVE n + 1 \in S
    <3>1. f[n] \in Nat /\ f[n] >= 1
        BY <2>2
    <3>2. b * f[n] \in Nat /\ b * f[n] >= 1
        BY <3>1
    <3>. QED  BY <1>3, <3>2
  <2>. HIDE DEF S
  <2>. QED  BY <2>1, <2>2, Induction
<1>. QED  BY <1>2, <1>3, <1>4

\* The weights of an integer's bytes.
LEMMA BytePowers ==
    /\ ByteBase \in Nat /\ ByteBase >= 2
    /\ BytePower[0] = 1
    /\ \A n \in Nat : /\ BytePower[n] \in Nat /\ BytePower[n] >= 1
                      /\ BytePower[n + 1] = ByteBase * BytePower[n]
<1>1. ByteBase \in Nat /\ ByteBase >= 2
    BY ByteBaseAssumption
<1>2. \E f : f = [n \in Nat |-> IF n = 0 THEN 1 ELSE ByteBase * f[n - 1]]
    BY <1>1, PowersExist
<1>3. BytePower = [n \in Nat |-> IF n = 0 THEN 1 ELSE ByteBase * BytePower[n - 1]]
    BY <1>2 DEF BytePower
<1>4. PICK b, f : b \in Nat /\ b = ByteBase /\ f = BytePower
    BY <1>1
<1>7. \A n \in Nat : BytePower[n] = IF n = 0 THEN 1 ELSE ByteBase * BytePower[n - 1]
    BY <1>3
<1>5. b >= 1 /\ \A n \in Nat : f[n] = IF n = 0 THEN 1 ELSE b * f[n - 1]
    BY <1>1, <1>4, <1>7
<1>6. f[0] = 1 /\ \A n \in Nat : f[n] \in Nat /\ f[n] >= 1 /\ f[n + 1] = b * f[n]
    BY <1>4, <1>5, PowersOf
<1>. QED  BY <1>1, <1>4, <1>6

\* A number without its lower digits, in two steps or in one.
LEMMA DivTwice ==
    ASSUME NEW n \in Nat, NEW w \in Nat, w >= 1, NEW b \in Nat, b >= 1
    PROVE  n \div (b * w) = (n \div w) \div b
<1>1. PICK q, r \in Nat : q = n \div w /\ r < w /\ n = q * w + r
    BY DivMod
<1>2. PICK k, d \in Nat : k = q \div b /\ d < b /\ q = k * b + d
    BY DivMod
<1>3. d * w + r \in Nat /\ d * w + r < b * w
  <2>1. (d + 1) * w <= b * w
    BY <1>2
  <2>2. (d + 1) * w = d * w + w
    OBVIOUS
  <2>. QED  BY <1>1, <2>1, <2>2
<1>4. n = (b * w) * k + (d * w + r)
  <2>1. q * w = (k * b) * w + d * w
    BY <1>2
  <2>2. (k * b) * w = (b * w) * k
    OBVIOUS
  <2>. QED  BY <1>1, <2>1, <2>2
<1>5. PICK c \in Nat : c = b * w /\ c >= 1
    OBVIOUS
<1>6. PICK e \in Nat : e = d * w + r
    BY <1>3
<1>7. n = c * k + e /\ e < c
    BY <1>3, <1>4, <1>5, <1>6
<1>8. n \div c = k
    BY <1>5, <1>7, DivUnique
<1>. QED  BY <1>1, <1>2, <1>5, <1>8

\* What from_be_bytes has after each byte.
Readings(s, f) == /\ f \in [0..Len(s) -> Nat] /\ f[0] = 0
                  /\ \A i \in 1..Len(s) : f[i] = f[i - 1] * ByteBase + s[i]

\* from_be_bytes of a sequence is the last of them.
LEMMA FromBigEndianIs ==
    ASSUME NEW s, Len(s) \in Nat, NEW f, Readings(s, f)
    PROVE  FromBigEndian(s) = f[Len(s)]
<1>. DEFINE Solves(g) ==
        g = [i \in 0..Len(s) |-> IF i = 0 THEN 0 ELSE g[i - 1] * ByteBase + s[i]]
           total == CHOOSE g : Solves(g)
<1>1. f = [i \in 0..Len(s) |-> f[i]]
    BY DEF Readings
<1>2. Solves(f)
  <2>1. \A i \in 0..Len(s) : f[i] = IF i = 0 THEN 0 ELSE f[i - 1] * ByteBase + s[i]
    BY DEF Readings
  <2>. QED  BY <1>1, <2>1
<1>3. Solves(total)
  <2>. HIDE DEF Solves
  <2>. QED  BY <1>2
<1>. HIDE DEF total
<1>4. \A i \in 0..Len(s) : total[i] = IF i = 0 THEN 0 ELSE total[i - 1] * ByteBase + s[i]
    BY <1>3
<1>5. total[Len(s)] = f[Len(s)]
  <2>1. PICK g : g = total
    OBVIOUS
  <2>2. g[0] = f[0]
    BY <1>4, <2>1 DEF Readings
  <2>3. \A i \in 1..Len(s) : g[i - 1] = f[i - 1] => g[i] = f[i]
    BY <1>4, <2>1 DEF Readings
  <2>4. PICK n \in Nat : n = Len(s)
    BY LenProperties
  <2>5. g[0] = f[0] /\ \A i \in 1..n : g[i - 1] = f[i - 1] => g[i] = f[i]
    BY <2>2, <2>3, <2>4
  <2>6. \A i \in 0..n : g[i] = f[i]
    BY <2>5, GoOnAlike, SMTT(30)
  <2>. QED  BY <2>1, <2>4, <2>6
<1>6. FromBigEndian(s) = total[Len(s)]
    BY DEF FromBigEndian, total
<1>. QED  BY <1>5, <1>6

\* from_be_bytes undoes to_be_bytes, for integers of any number of bytes.
LEMMA BigEndianRoundTrip ==
    ASSUME NEW w \in Nat, NEW n \in Nat, n < BytePower[w]
    PROVE  /\ BigEndian(w, n) \in Seq(Nat) /\ Len(BigEndian(w, n)) = w
           /\ FromBigEndian(BigEndian(w, n)) = n
<1>. DEFINE P(i) == BytePower[w - i]
           s == BigEndian(w, n)
           f == [i \in 0..w |-> n \div P(i)]
<1>1. ASSUME NEW i \in 0..w PROVE P(i) \in Nat /\ P(i) >= 1 /\ n \div P(i) \in Nat
  <2>1. w - i \in Nat
    OBVIOUS
  <2>2. P(i) \in Nat /\ P(i) >= 1
    BY <2>1, BytePowers
  <2>. HIDE DEF P
  <2>. QED  BY <2>2, DivMod
<1>2. \A i \in 1..w : s[i] = (n \div P(i)) % ByteBase
    BY DEF BigEndian
<1>3. s \in Seq(Nat) /\ Len(s) = w
  <2>1. ASSUME NEW i \in 1..w PROVE (n \div P(i)) % ByteBase \in Nat
    <3>1. PICK q \in Nat : q = n \div P(i)
        BY <1>1
    <3>2. ByteBase \in Nat /\ ByteBase >= 1
        BY BytePowers
    <3>3. q % ByteBase \in Nat
        BY <3>2, DivMod
    <3>. QED  BY <3>1, <3>3
  <2>2. s = [i \in 1..w |-> (n \div P(i)) % ByteBase]
    BY DEF BigEndian
  <2>3. s \in [1..w -> Nat]
    BY <2>1, <2>2
  <2>. HIDE DEF s
  <2>. QED  BY <2>3
<1>4. f \in [0..w -> Nat]
    BY <1>1
<1>5. f[0] = 0
  <2>1. PICK p \in Nat : p = BytePower[w] /\ p >= 1 /\ n < p
    BY BytePowers
  <2>2. n = p * 0 + n
    BY <2>1
  <2>3. n \div p = 0
    BY <2>1, <2>2, DivUnique
  <2>. QED  BY <2>1, <2>3
<1>6. ASSUME NEW i \in 1..w PROVE f[i] = f[i - 1] * ByteBase + s[i]
  <2>1. w - i \in Nat /\ w - (i - 1) = (w - i) + 1 /\ i \in 0..w /\ i - 1 \in 0..w
    OBVIOUS
  <2>2. PICK p \in Nat : p = P(i) /\ p >= 1 /\ P(i - 1) = ByteBase * p
    BY <2>1, BytePowers
  <2>3. PICK q \in Nat : q = n \div p
    BY <1>1, <2>1, <2>2
  <2>4. ByteBase \in Nat /\ ByteBase >= 1
    BY BytePowers
  <2>5. n \div (ByteBase * p) = q \div ByteBase
    BY <2>2, <2>3, <2>4, DivTwice
  <2>6. q = (q \div ByteBase) * ByteBase + (q % ByteBase)
    BY <2>4, DivMod
  <2>7. f[i] = q /\ f[i - 1] = q \div ByteBase /\ s[i] = q % ByteBase
    BY <1>2, <2>1, <2>2, <2>3, <2>5
  <2>. QED  BY <2>6, <2>7
<1>7. f[w] = n
  <2>1. P(w) = 1
    BY BytePowers
  <2>2. n \div 1 = n
    OBVIOUS
  <2>. QED  BY <2>1, <2>2
<1>. HIDE DEF f, s
<1>8. FromBigEndian(s) = f[w]
  <2>1. Readings(s, f)
    BY <1>3, <1>4, <1>5, <1>6 DEF Readings
  <2>. QED  BY <1>3, <2>1, FromBigEndianIs
<1>. QED  BY <1>3, <1>7, <1>8 DEF s

-----------------------------------------------------------------------------
(* Types and their values. *)

\* What from_reader is called for, and which values it may make of it: those of
\* the shapes, and those of the bytes inside a bool and an Option.
Types == {s.type : s \in Shapes} \union {IntType(1), BoolType}
OfType(v, t) ==
    \/ \E s \in Shapes : t = s.type /\ v \in s.values
    \/ t = IntType(1) /\ v \in {IntValue(1, 0), IntValue(1, 1)}
    \/ t = BoolType /\ v \in {BoolValue(0), BoolValue(1)}
ShapeValues == UNION {s.values : s \in Shapes}
AllValues == ShapeValues \union {IntValue(1, 0), IntValue(1, 1), BoolValue(0), BoolValue(1)}

\* Every type is made of types.
LEMMA TypeCases ==
    ASSUME NEW t \in Types
    PROVE  \/ \E w \in Nat : t = IntType(w)
           \/ \E w \in Nat : t = BytesType(w)
           \/ t = BoolType
           \/ \E u \in Types : t = OptionOf(u)
           \/ \E n \in Nat, u \in Types : t = ArrayOf(n, u)
           \/ \E q, u \in Types : t = PairOf(q, u)
           \/ \E u \in Types : t = Owned(u)
<1>1. CASE \E s \in Shapes : t = s.type
  <2>1. PICK s \in Shapes : t = s.type
    BY <1>1
  <2>2. \A r \in Shapes : r.type \in Types
    BY DEF Types
  <2>3. CASE IntShape(s)
    BY <2>1, <2>3 DEF IntShape
  <2>4. CASE BytesShape(s)
    BY <2>1, <2>4 DEF BytesShape
  <2>5. CASE BoolShape(s)
    BY <2>1, <2>5 DEF BoolShape
  <2>6. CASE OptionShape(s)
    BY <2>1, <2>2, <2>6 DEF OptionShape
  <2>7. CASE ArrayShape(s)
    BY <2>1, <2>2, <2>7 DEF ArrayShape
  <2>8. CASE TupleShape(s)
    BY <2>1, <2>2, <2>8 DEF TupleShape
  <2>9. CASE OwnedShape(s)
    BY <2>1, <2>2, <2>9 DEF OwnedShape
  <2>. QED  BY <2>3, <2>4, <2>5, <2>6, <2>7, <2>8, <2>9, ShapesAssumption
<1>2. CASE t = IntType(1)
    BY <1>2
<1>3. CASE t = BoolType
    BY <1>3
<1>. QED  BY <1>1, <1>2, <1>3 DEF Types

\* The values, and where they come from.
LEMMA AmongValues ==
    \A v : v \in AllValues <=> \/ \E s \in Shapes : v \in s.values
                             \/ v \in {IntValue(1, 0), IntValue(1, 1)}
                             \/ v \in {BoolValue(0), BoolValue(1)}
<1>1. \A v : v \in ShapeValues <=> \E s \in Shapes : v \in s.values
    BY Zenon DEF ShapeValues
<1>. QED  BY <1>1 DEF AllValues

\* And every value of a type of values of those.
LEMMA ValueCases ==
    ASSUME NEW t, NEW v, OfType(v, t)
    PROVE  \/ \E w, n \in Nat : t = IntType(w) /\ v = IntValue(w, n) /\ n < BytePower[w]
           \/ \E w \in Nat : \E b \in [1..w -> 0..(ByteBase - 1)] :
                  t = BytesType(w) /\ v = Value("bytes", w, <<b>>, w)
           \/ t = BoolType /\ v \in {BoolValue(0), BoolValue(1)}
           \/ \E u \in Types : /\ t = OptionOf(u)
                               /\ v = NoneValue \/ \E x : OfType(x, u) /\ v = SomeValue(x)
           \/ \E n \in Nat, u \in Types : \E items \in Seq(AllValues) :
                  /\ t = ArrayOf(n, u) /\ v = ManyValue("array", items)
                  /\ Len(items) = n /\ \A i \in 1..n : OfType(items[i], u)
           \/ \E q, u \in Types : \E x, y : /\ t = PairOf(q, u) /\ v = ManyValue("tuple", <<x, y>>)
                                            /\ OfType(x, q) /\ OfType(y, u)
           \/ \E u \in Types : t = Owned(u) /\ OfType(v, u)
<1>1. ASSUME NEW s \in Shapes, t = s.type, v \in s.values
      PROVE  \/ \E w, n \in Nat : t = IntType(w) /\ v = IntValue(w, n) /\ n < BytePower[w]
             \/ \E w \in Nat : \E b \in [1..w -> 0..(ByteBase - 1)] :
                    t = BytesType(w) /\ v = Value("bytes", w, <<b>>, w)
             \/ t = BoolType /\ v \in {BoolValue(0), BoolValue(1)}
             \/ \E u \in Types : /\ t = OptionOf(u)
                                 /\ v = NoneValue \/ \E x : OfType(x, u) /\ v = SomeValue(x)
             \/ \E n \in Nat, u \in Types : \E items \in Seq(AllValues) :
                    /\ t = ArrayOf(n, u) /\ v = ManyValue("array", items)
                    /\ Len(items) = n /\ \A i \in 1..n : OfType(items[i], u)
             \/ \E q, u \in Types : \E x, y :
                    /\ t = PairOf(q, u) /\ v = ManyValue("tuple", <<x, y>>)
                    /\ OfType(x, q) /\ OfType(y, u)
             \/ \E u \in Types : t = Owned(u) /\ OfType(v, u)
  <2>1. \A r \in Shapes : r.type \in Types /\ \A x \in r.values : OfType(x, r.type) /\ x \in AllValues
    BY AmongValues DEF Types, OfType
  <2>2. CASE IntShape(s)
    <3>1. PICK w \in Nat : t = IntType(w) /\ v \in {IntValue(w, n) : n \in 0..(BytePower[w] - 1)}
        BY <1>1, <2>2 DEF IntShape
    <3>2. PICK n \in 0..(BytePower[w] - 1) : v = IntValue(w, n)
        BY <3>1
    <3>3. n \in Nat /\ n < BytePower[w]
        BY BytePowers
    <3>. QED  BY <3>1, <3>2, <3>3
  <2>3. CASE BytesShape(s)
    BY <1>1, <2>3 DEF BytesShape
  <2>4. CASE BoolShape(s)
    BY <1>1, <2>4 DEF BoolShape
  <2>5. CASE OptionShape(s)
    BY <1>1, <2>1, <2>5 DEF OptionShape
  <2>6. CASE ArrayShape(s)
    <3>1. PICK n \in Nat, r \in Shapes :
              /\ t = ArrayOf(n, r.type)
              /\ v \in {ManyValue("array", items) : items \in [1..n -> r.values]}
        BY <1>1, <2>6 DEF ArrayShape
    <3>2. PICK items \in [1..n -> r.values] : v = ManyValue("array", items)
        BY <3>1
    <3>3. items \in [1..n -> AllValues]
        BY <2>1
    <3>4. items \in Seq(AllValues) /\ Len(items) = n
        BY <3>3
    <3>5. \A i \in 1..n : OfType(items[i], r.type)
        BY <2>1
    <3>6. PICK u \in Types : u = r.type
        BY <2>1
    <3>. QED  BY <3>1, <3>2, <3>4, <3>5, <3>6
  <2>7. CASE TupleShape(s)
    <3>1. PICK q, r \in Shapes :
              /\ t = PairOf(q.type, r.type)
              /\ v \in {ManyValue("tuple", <<x, y>>) : x \in q.values, y \in r.values}
        BY <1>1, <2>7 DEF TupleShape
    <3>2. PICK x \in q.values, y \in r.values : v = ManyValue("tuple", <<x, y>>)
        BY <3>1
    <3>. QED  BY <2>1, <3>1, <3>2
  <2>8. CASE OwnedShape(s)
    BY <1>1, <2>1, <2>8 DEF OwnedShape
  <2>. QED  BY <2>2, <2>3, <2>4, <2>5, <2>6, <2>7, <2>8, ShapesAssumption
<1>2. ASSUME t = IntType(1), v \in {IntValue(1, 0), IntValue(1, 1)}
      PROVE  \E w, n \in Nat : t = IntType(w) /\ v = IntValue(w, n) /\ n < BytePower[w]
  <2>1. BytePower[1] >= 2
    <3>1. BytePower[0 + 1] = ByteBase * BytePower[0]
        BY BytePowers
    <3>. QED  BY <3>1, BytePowers
  <2>2. BytePower[1] \in Nat
    BY BytePowers
  <2>. QED  BY <1>2, <2>1, <2>2
<1>. QED  BY <1>1, <1>2 DEF OfType

\* A value of a type is one of the values, and has a size.
LEMMA ValueSized ==
    /\ \A v, t : OfType(v, t) => v \in AllValues
    /\ \A v \in AllValues : v.size \in Nat
    /\ \A v \in AllValues : \E t : OfType(v, t)
<1>1. ASSUME NEW v \in AllValues PROVE v.size \in Nat /\ \E t : OfType(v, t)
  <2>1. CASE \E s \in Shapes : v \in s.values
    <3>1. PICK s \in Shapes : v \in s.values
        BY <2>1
    <3>2. OfType(v, s.type)
        BY <3>1 DEF OfType
    <3>. QED  BY <3>1, <3>2, SizesAssumption
  <2>2. CASE v \in {IntValue(1, 0), IntValue(1, 1)}
    <3>1. OfType(v, IntType(1))
        BY <2>2 DEF OfType
    <3>2. v.size = 1
        BY <2>2 DEF IntValue, Value
    <3>. QED  BY <3>1, <3>2
  <2>3. CASE v \in {BoolValue(0), BoolValue(1)}
    <3>1. OfType(v, BoolType)
        BY <2>3 DEF OfType
    <3>2. v.size = 1
        BY <2>3 DEF BoolValue, Value
    <3>. QED  BY <3>1, <3>2
  <2>. QED  BY AmongValues, <2>1, <2>2, <2>3
<1>2. ASSUME NEW v, NEW t, OfType(v, t) PROVE v \in AllValues
    BY AmongValues, <1>2 DEF OfType
<1>. QED  BY <1>1, <1>2

-----------------------------------------------------------------------------
(* Calls still to make. *)

\* The calls lead from x to y, where R has what each may do.
Path(R, calls, x, y) ==
    \E f : /\ f[0] = x /\ f[Len(calls)] = y
           /\ \A j \in 1..Len(calls) : <<calls[j], f[j - 1], f[j]>> \in R

\* Nothing left to call, one call, the first of several, and calls in a row.
LEMMA PathNone == ASSUME NEW R, NEW x, NEW y, Path(R, <<>>, x, y) PROVE x = y
BY DEF Path

\* No call leaves things as they are.
LEMMA PathNothing == ASSUME NEW R, NEW x PROVE Path(R, <<>>, x, x)
<1>. DEFINE f == [j \in 0..0 |-> x]
<1>1. f[0] = x /\ Len(<<>>) = 0
    OBVIOUS
<1>. HIDE DEF f
<1>2. \A j \in 1..Len(<<>>) : <<<<>>[j], f[j - 1], f[j]>> \in R
    BY <1>1
<1>. QED  BY <1>1, <1>2 DEF Path

\* One call takes one step.
LEMMA PathOne ==
    ASSUME NEW R, NEW c, NEW x, NEW y, <<c, x, y>> \in R
    PROVE  Path(R, <<c>>, x, y)
<1>. DEFINE f == [j \in 0..1 |-> IF j = 0 THEN x ELSE y]
<1>1. f[0] = x /\ f[1] = y
    OBVIOUS
<1>2. Len(<<c>>) = 1 /\ <<c>>[1] = c
    OBVIOUS
<1>. HIDE DEF f
<1>3. \A j \in 1..Len(<<c>>) : <<<<c>>[j], f[j - 1], f[j]>> \in R
    BY <1>1, <1>2
<1>. QED  BY <1>1, <1>2, <1>3 DEF Path

\* The first call takes the first step, the others the rest of the way.
LEMMA PathFirst ==
    ASSUME NEW R, NEW S, NEW calls \in Seq(S), calls # <<>>, NEW x, NEW y, Path(R, calls, x, y)
    PROVE  \E z : <<Head(calls), x, z>> \in R /\ Path(R, Tail(calls), z, y)
<1>1. PICK f : /\ f[0] = x /\ f[Len(calls)] = y
               /\ \A j \in 1..Len(calls) : <<calls[j], f[j - 1], f[j]>> \in R
    BY DEF Path
<1>2. PICK n \in Nat : /\ Len(calls) = n + 1 /\ Len(Tail(calls)) = n /\ Head(calls) = calls[1]
                       /\ \A j \in 1..n : Tail(calls)[j] = calls[j + 1]
  <2>1. Len(calls) \in Nat /\ Len(calls) >= 1
    BY EmptySeq, LenProperties
  <2>2. Len(calls) - 1 \in Nat /\ Len(calls) = (Len(calls) - 1) + 1
    BY <2>1
  <2>3. Len(Tail(calls)) = Len(calls) - 1 /\ Head(calls) = calls[1]
        /\ \A j \in 1..(Len(calls) - 1) : Tail(calls)[j] = calls[j + 1]
    BY <2>1
  <2>. QED  BY <2>2, <2>3
<1>3. <<Head(calls), x, f[1]>> \in R
    BY <1>1, <1>2
<1>. DEFINE g == [j \in 0..n |-> f[j + 1]]
<1>4. \A j \in 0..n : g[j] = f[j + 1]
    OBVIOUS
<1>. HIDE DEF g
<1>5. g[0] = f[1] /\ g[n] = y
    BY <1>1, <1>2, <1>4
<1>6. ASSUME NEW j \in 1..n PROVE <<Tail(calls)[j], g[j - 1], g[j]>> \in R
  <2>1. j - 1 \in 0..n /\ (j - 1) + 1 = j /\ (j + 1) - 1 = j /\ j \in 0..n /\ j + 1 \in 1..Len(calls)
    BY <1>2
  <2>2. <<calls[j + 1], f[(j + 1) - 1], f[j + 1]>> \in R
    BY <1>1, <2>1
  <2>3. g[j - 1] = f[(j - 1) + 1] /\ g[j] = f[j + 1]
    BY <1>4, <2>1
  <2>. QED  BY <1>2, <2>1, <2>2, <2>3
<1>7. Path(R, Tail(calls), f[1], y)
    BY <1>2, <1>5, <1>6 DEF Path
<1>. QED  BY <1>3, <1>7

\* Ways that meet are one way.
LEMMA PathConcat ==
    ASSUME NEW R, NEW S, NEW a \in Seq(S), NEW b \in Seq(S), NEW x, NEW y, NEW z,
           Path(R, a, x, y), Path(R, b, y, z)
    PROVE  Path(R, a \o b, x, z)
<1>1. PICK f : /\ f[0] = x /\ f[Len(a)] = y
               /\ \A j \in 1..Len(a) : <<a[j], f[j - 1], f[j]>> \in R
    BY DEF Path
<1>2. PICK g : /\ g[0] = y /\ g[Len(b)] = z
               /\ \A j \in 1..Len(b) : <<b[j], g[j - 1], g[j]>> \in R
    BY DEF Path
<1>3. PICK m, n \in Nat : m = Len(a) /\ n = Len(b)
    BY LenProperties
<1>4. /\ Len(a \o b) = m + n
      /\ \A j \in 1..(m + n) : (a \o b)[j] = IF j <= m THEN a[j] ELSE b[j - m]
    BY <1>3, ConcatProperties
<1>. DEFINE h == [j \in 0..(m + n) |-> IF j <= m THEN f[j] ELSE g[j - m]]
<1>5. \A j \in 0..(m + n) : h[j] = IF j <= m THEN f[j] ELSE g[j - m]
    OBVIOUS
<1>. HIDE DEF h
<1>6. \A j \in m..(m + n) : h[j] = g[j - m]
  <2>1. h[m] = y
    BY <1>1, <1>3, <1>5
  <2>. TAKE j \in m..(m + n)
  <2>2. CASE j = m
    <3>1. j - m = 0
        BY <2>2
    <3>. QED  BY <1>2, <2>1, <2>2, <3>1
  <2>3. CASE j # m
    <3>1. j \in 0..(m + n) /\ ~(j <= m)
        BY <2>3
    <3>. QED  BY <1>5, <3>1
  <2>. QED  BY <2>2, <2>3
<1>7. h[0] = x /\ h[m + n] = z
  <2>1. m + n \in m..(m + n) /\ (m + n) - m = n /\ 0 \in 0..(m + n) /\ 0 <= m
    OBVIOUS
  <2>2. h[m + n] = g[(m + n) - m] /\ h[0] = f[0]
    BY <1>5, <1>6, <2>1
  <2>. QED  BY <1>1, <1>2, <1>3, <2>1, <2>2
<1>8. ASSUME NEW j \in 1..(m + n) PROVE <<(a \o b)[j], h[j - 1], h[j]>> \in R
  <2>1. CASE j <= m
    <3>1. j \in 1..m /\ j - 1 \in 0..(m + n) /\ j - 1 <= m /\ j \in 0..(m + n)
        BY <2>1
    <3>2. (a \o b)[j] = a[j] /\ h[j - 1] = f[j - 1] /\ h[j] = f[j]
        BY <1>4, <1>5, <2>1, <3>1
    <3>. QED  BY <1>1, <1>3, <3>1, <3>2
  <2>2. CASE ~(j <= m)
    <3>1. PICK k \in 1..n : k = j - m /\ k - 1 = (j - 1) - m
        BY <2>2
    <3>2. j \in m..(m + n) /\ j - 1 \in m..(m + n)
        BY <2>2
    <3>3. (a \o b)[j] = b[k] /\ h[j - 1] = g[k - 1] /\ h[j] = g[k]
        BY <1>4, <1>6, <2>2, <3>1, <3>2
    <3>. QED  BY <1>2, <1>3, <3>1, <3>3
  <2>. QED  BY <2>1, <2>2
<1>. QED  BY <1>4, <1>7, <1>8 DEF Path

\* A value is of a type that is no box.
LEMMA ValueForms == ASSUME NEW v \in AllValues PROVE \E t : OfType(v, t) /\ t.kind # "owned"
<1>1. CASE \E s \in Shapes : v \in s.values
  <2>1. PICK s \in Shapes : v \in s.values
    BY <1>1
  <2>2. OfType(v, s.type)
    BY <2>1 DEF OfType
  <2>3. CASE OwnedShape(s)
    <3>1. PICK r \in Shapes : r.type.kind # "owned" /\ v \in r.values
        BY <2>1, <2>3 DEF OwnedShape
    <3>2. OfType(v, r.type)
        BY <3>1 DEF OfType
    <3>. QED  BY <3>1, <3>2
  <2>4. CASE ~OwnedShape(s)
    <3>. DEFINE Unboxed == s.type.kind # "owned"
    <3>1. IntShape(s) => Unboxed
        BY DEF IntShape, IntType, Type
    <3>2. BytesShape(s) => Unboxed
        BY DEF BytesShape, BytesType, Type
    <3>3. BoolShape(s) => Unboxed
        BY DEF BoolShape, BoolType, Type
    <3>4. OptionShape(s) => Unboxed
        BY DEF OptionShape, OptionOf, Type
    <3>5. ArrayShape(s) => Unboxed
        BY DEF ArrayShape, ArrayOf, Type
    <3>6. TupleShape(s) => Unboxed
        BY DEF TupleShape, PairOf, Type
    <3>7. Unboxed
      <4>. HIDE DEF Unboxed
      <4>. QED  BY <2>4, <3>1, <3>2, <3>3, <3>4, <3>5, <3>6, ShapesAssumption
    <3>. QED  BY <2>2, <3>7
  <2>. QED  BY <2>3, <2>4
<1>2. CASE v \in {IntValue(1, 0), IntValue(1, 1)}
  <2>1. OfType(v, IntType(1)) /\ IntType(1).kind # "owned"
    BY <1>2 DEF OfType, IntType, Type
  <2>. QED  BY <2>1
<1>3. CASE v \in {BoolValue(0), BoolValue(1)}
  <2>1. OfType(v, BoolType) /\ BoolType.kind # "owned"
    BY <1>3 DEF OfType, BoolType, Type
  <2>. QED  BY <2>1
<1>. QED  BY <1>1, <1>2, <1>3, AmongValues

-----------------------------------------------------------------------------
(* to_writer. *)

\* What each kind of value writes itself, goes on with, and has for its size.
LEMMA Concats ==
    ASSUME NEW a, NEW b
    PROVE  <<a>> \o <<b>> = <<a, b>> /\ <<a>> \o <<>> = <<a>>
<1>. DEFINE S == {a, b}
<1>1. <<a>> \in Seq(S) /\ <<b>> \in Seq(S) /\ <<a, b>> \in Seq(S)
    OBVIOUS
<1>. HIDE DEF S
<1>2. <<a>> \o <<b>> \in Seq(S) /\ <<a>> \o <<>> = <<a>>
    BY <1>1, ConcatEmptySeq, ConcatProperties
<1>3. Len(<<a>> \o <<b>>) = 2 /\ (<<a>> \o <<b>>)[1] = a /\ (<<a>> \o <<b>>)[2] = b
    BY <1>1, ConcatProperties
<1>4. Len(<<a, b>>) = 2 /\ <<a, b>>[1] = a /\ <<a, b>>[2] = b
    OBVIOUS
<1>5. PICK p, q \in Seq(S) : p = <<a>> \o <<b>> /\ q = <<a, b>>
    BY <1>1, <1>2
<1>6. Len(p) = 2 /\ Len(q) = 2 /\ p[1] = q[1] /\ p[2] = q[2]
    BY <1>3, <1>4, <1>5
<1>7. p = q
  <2>1. \A i \in 1..Len(p) : p[i] = q[i]
    BY <1>6
  <2>. QED  BY <1>6, <2>1, SeqEqual
<1>. QED  BY <1>2, <1>5, <1>7

\* What each kind of value writes itself and goes on with: an integer,
LEMMA IntWrites ==
    ASSUME NEW w, NEW n
    PROVE  /\ Direct(IntValue(w, n)) = BigEndian(w, n) /\ Parts(IntValue(w, n)) = <<>>
           /\ IntValue(w, n).size = w
BY DEF Direct, Parts, IntValue, Value

\* a byte array,
LEMMA BytesWrites ==
    ASSUME NEW w, NEW b
    PROVE  LET v == Value("bytes", w, <<b>>, w)
           IN  Direct(v) = b /\ Parts(v) = <<>> /\ v.size = w
BY DEF Direct, Parts, Value

\* a bool, as one byte,
LEMMA BoolWrites ==
    ASSUME NEW n
    PROVE  /\ Direct(BoolValue(n)) = <<>> /\ Parts(BoolValue(n)) = <<IntValue(1, n)>>
           /\ BoolValue(n).size = 1
BY DEF Direct, Parts, BoolValue, Value

\* None, as a tag,
LEMMA NoneWrites ==
    Direct(NoneValue) = <<>> /\ Parts(NoneValue) = <<BoolValue(0)>> /\ NoneValue.size = 1
<1>1. Parts(NoneValue) = <<BoolValue(0)>> \o <<>>
    BY DEF Parts, NoneValue, Value
<1>2. <<BoolValue(0)>> \o <<>> = <<BoolValue(0)>>
    BY Concats
<1>. QED  BY <1>1, <1>2 DEF Direct, NoneValue, Value

\* Some, as a tag and the value,
LEMMA SomeWrites ==
    ASSUME NEW x
    PROVE  /\ Direct(SomeValue(x)) = <<>> /\ Parts(SomeValue(x)) = <<BoolValue(1), x>>
           /\ SomeValue(x).size = 1 + x.size
<1>1. Parts(SomeValue(x)) = <<BoolValue(1)>> \o <<x>>
    BY DEF Parts, SomeValue, Value
<1>2. <<BoolValue(1)>> \o <<x>> = <<BoolValue(1), x>>
    BY Concats
<1>. QED  BY <1>1, <1>2 DEF Direct, SomeValue, SomeSize, Value

\* an array or a tuple, as its items.
LEMMA ManyWrites ==
    ASSUME NEW kind \in {"array", "tuple"}, NEW items
    PROVE  /\ Direct(ManyValue(kind, items)) = <<>> /\ Parts(ManyValue(kind, items)) = items
           /\ ManyValue(kind, items).size = SizeOf(items)
BY DEF Direct, Parts, ManyValue, Value

\* Values have sizes.
LEMMA ValuesSized == ASSUME NEW s \in Seq(AllValues) PROVE Sized(s)
<1>1. \A i \in 1..Len(s) : s[i] \in AllValues
    BY ElementOfSeq
<1>. QED  BY <1>1, ValueSized DEF Sized

\* size of a value is what it writes itself and the sizes of what it goes on with.
LEMMA WritesItsSize ==
    ASSUME NEW v \in AllValues
    PROVE  /\ Direct(v) \in Seq(Nat) /\ Parts(v) \in Seq(AllValues)
           /\ v.size = Len(Direct(v)) + SizeOf(Parts(v))
<1>1. PICK t : OfType(v, t) /\ t.kind # "owned"
    BY ValueForms
<1>2. ASSUME NEW w \in Nat, NEW n \in Nat, v = IntValue(w, n), n < BytePower[w]
      PROVE  Parts(v) = <<>> /\ Direct(v) \in Seq(Nat) /\ Len(Direct(v)) = w /\ v.size = w
  <2>1. Direct(v) = BigEndian(w, n)
    BY <1>2, IntWrites
  <2>2. BigEndian(w, n) \in Seq(Nat) /\ Len(BigEndian(w, n)) = w
    BY <1>2, BigEndianRoundTrip
  <2>. QED  BY <1>2, <2>1, <2>2, IntWrites
<1>3. ASSUME NEW w \in Nat, NEW b \in [1..w -> 0..(ByteBase - 1)],
             v = Value("bytes", w, <<b>>, w)
      PROVE  Parts(v) = <<>> /\ Direct(v) \in Seq(Nat) /\ Len(Direct(v)) = w /\ v.size = w
  <2>1. 0..(ByteBase - 1) \subseteq Nat
    BY ByteBaseAssumption
  <2>2. b \in [1..w -> Nat]
    BY <2>1
  <2>3. b \in Seq(Nat) /\ Len(b) = w
    BY <2>2
  <2>. QED  BY <1>3, <2>3, BytesWrites
<1>. DEFINE Goal == /\ Direct(v) \in Seq(Nat) /\ Parts(v) \in Seq(AllValues)
                    /\ v.size = Len(Direct(v)) + SizeOf(Parts(v))
<1>14. ASSUME NEW w \in Nat, Parts(v) = <<>>, Direct(v) \in Seq(Nat), Len(Direct(v)) = w, v.size = w
      PROVE  Goal
  <2>1. SizeOf(Parts(v)) = 0
    BY <1>14, SizeOfNone
  <2>2. Parts(v) \in Seq(AllValues)
    BY <1>14
  <2>. QED  BY <1>14, <2>1, <2>2
<1>15. ASSUME Direct(v) = <<>>, NEW s \in Seq(AllValues), Parts(v) = s, v.size = SizeOf(s)
      PROVE  Goal
  <2>1. PICK d \in Nat : d = SizeOf(s)
    BY ValuesSized, SizedConcat
  <2>2. Len(Direct(v)) = 0 /\ Direct(v) \in Seq(Nat)
    BY <1>15
  <2>. QED  BY <1>15, <2>1, <2>2
<1>. HIDE DEF Goal
<1>4. ASSUME NEW n \in {0, 1}, v = BoolValue(n) PROVE Goal
  <2>1. IntValue(1, n) \in AllValues
    BY AmongValues
  <2>2. IntValue(1, n).size = 1
    BY IntWrites
  <2>3. <<IntValue(1, n)>> \in Seq(AllValues) /\ SizeOf(<<IntValue(1, n)>>) = 1
    BY <2>1, <2>2, SizedOne
  <2>4. Direct(v) = <<>> /\ Parts(v) = <<IntValue(1, n)>> /\ v.size = 1
    BY <1>4, BoolWrites
  <2>. QED  BY <1>15, <2>3, <2>4
<1>5. ASSUME v = NoneValue PROVE Goal
  <2>1. BoolValue(0) \in AllValues
    BY AmongValues
  <2>2. BoolValue(0).size = 1
    BY BoolWrites
  <2>3. <<BoolValue(0)>> \in Seq(AllValues) /\ SizeOf(<<BoolValue(0)>>) = 1
    BY <2>1, <2>2, SizedOne
  <2>4. Direct(v) = <<>> /\ Parts(v) = <<BoolValue(0)>> /\ v.size = 1
    BY <1>5, NoneWrites
  <2>. QED  BY <1>15, <2>3, <2>4
<1>6. ASSUME NEW x \in AllValues, v = SomeValue(x) PROVE Goal
  <2>1. BoolValue(1) \in AllValues
    BY AmongValues
  <2>2. BoolValue(1).size = 1 /\ x.size \in Nat
    BY BoolWrites, ValueSized
  <2>3. <<BoolValue(1)>> \o <<x>> = <<BoolValue(1), x>>
    BY Concats
  <2>4. Sized(<<BoolValue(1)>>) /\ SizeOf(<<BoolValue(1)>>) = 1
    BY <2>2, SizedOne
  <2>5. Sized(<<x>>) /\ SizeOf(<<x>>) = x.size
    BY <2>2, SizedOne
  <2>6. SizeOf(<<BoolValue(1), x>>) = 1 + x.size
    BY <2>3, <2>4, <2>5, SizedConcat
  <2>7. <<BoolValue(1), x>> \in Seq(AllValues)
    BY <2>1
  <2>8. Direct(v) = <<>> /\ Parts(v) = <<BoolValue(1), x>> /\ v.size = 1 + x.size
    BY <1>6, SomeWrites
  <2>. QED  BY <1>15, <2>6, <2>7, <2>8
<1>7. ASSUME NEW kind \in {"array", "tuple"}, NEW items \in Seq(AllValues),
             v = ManyValue(kind, items)
      PROVE  Goal
  <2>1. Direct(v) = <<>> /\ Parts(v) = items /\ v.size = SizeOf(items)
    BY <1>7, ManyWrites
  <2>. QED  BY <1>15, <2>1
<1>8. ASSUME NEW x, NEW y, NEW q, NEW u, OfType(x, q), OfType(y, u),
             v = ManyValue("tuple", <<x, y>>)
      PROVE  Goal
  <2>1. x \in AllValues /\ y \in AllValues
    BY <1>8, ValueSized
  <2>2. <<x, y>> \in Seq(AllValues)
    BY <2>1
  <2>. QED  BY <1>7, <1>8, <2>2
<1>10. ASSUME NEW u \in Types, t = Owned(u) PROVE FALSE
    BY <1>1, <1>10 DEF Owned, Type
<1>16. ASSUME NEW w \in Nat, NEW n \in Nat, v = IntValue(w, n), n < BytePower[w] PROVE Goal
    BY <1>2, <1>14, <1>16
<1>17. ASSUME NEW w \in Nat, NEW b \in [1..w -> 0..(ByteBase - 1)],
             v = Value("bytes", w, <<b>>, w)
      PROVE  Goal
    BY <1>3, <1>14, <1>17
<1>18. ASSUME v \in {BoolValue(0), BoolValue(1)} PROVE Goal
    BY <1>4, <1>18
<1>19. ASSUME NEW x, NEW u, OfType(x, u), v = SomeValue(x) PROVE Goal
    BY <1>6, <1>19, ValueSized
<1>20. ASSUME NEW n \in Nat, NEW u, NEW items \in Seq(AllValues), v = ManyValue("array", items)
       PROVE  Goal
    BY <1>7, <1>20
<1>21. ASSUME \E w, n \in Nat : t = IntType(w) /\ v = IntValue(w, n) /\ n < BytePower[w] PROVE Goal
    BY <1>16, <1>21
<1>22. ASSUME \E w \in Nat : \E b \in [1..w -> 0..(ByteBase - 1)] :
                  t = BytesType(w) /\ v = Value("bytes", w, <<b>>, w)
       PROVE  Goal
    BY <1>17, <1>22
<1>23. ASSUME \E u \in Types : /\ t = OptionOf(u)
                               /\ v = NoneValue \/ \E x : OfType(x, u) /\ v = SomeValue(x)
       PROVE  Goal
    BY <1>5, <1>19, <1>23
<1>24. ASSUME \E n \in Nat, u \in Types : \E items \in Seq(AllValues) :
                  /\ t = ArrayOf(n, u) /\ v = ManyValue("array", items)
                  /\ Len(items) = n /\ \A i \in 1..n : OfType(items[i], u)
       PROVE  Goal
    BY <1>20, <1>24
<1>25. ASSUME \E q, u \in Types : \E x, y : /\ t = PairOf(q, u) /\ v = ManyValue("tuple", <<x, y>>)
                                            /\ OfType(x, q) /\ OfType(y, u)
       PROVE  Goal
    BY <1>8, <1>25
<1>11. Goal
    BY <1>1, <1>10, <1>18, <1>21, <1>22, <1>23, <1>24, <1>25, ValueCases
<1>. QED  BY <1>11 DEF Goal

\* A sequence that is not empty is its head and its tail.
LEMMA HeadThenTail ==
    ASSUME NEW S, NEW s \in Seq(S), s # <<>>
    PROVE  Head(s) \in S /\ Tail(s) \in Seq(S) /\ s = <<Head(s)>> \o Tail(s)
<1>1. Head(s) \in S /\ Tail(s) \in Seq(S) /\ Len(s) \in Nat /\ Len(s) >= 1
    BY EmptySeq, LenProperties
<1>2. PICK h \in S, r \in Seq(S) : h = Head(s) /\ r = Tail(s)
    BY <1>1
<1>3. Len(r) = Len(s) - 1 /\ h = s[1] /\ \A i \in 1..Len(r) : r[i] = s[i + 1]
    BY <1>1, <1>2
<1>4. PICK q : q = <<h>> \o r
    OBVIOUS
<1>5. <<h>> \in Seq(S) /\ Len(<<h>>) = 1 /\ <<h>>[1] = h
    OBVIOUS
<1>6. /\ q \in Seq(S) /\ Len(q) = Len(s)
      /\ \A i \in 1..Len(s) : q[i] = IF i <= 1 THEN <<h>>[i] ELSE r[i - 1]
  <2>1. /\ q \in Seq(S) /\ Len(q) = 1 + Len(r)
        /\ \A i \in 1..(1 + Len(r)) : q[i] = IF i <= 1 THEN <<h>>[i] ELSE r[i - 1]
    BY <1>4, <1>5, ConcatProperties
  <2>2. 1 + Len(r) = Len(s)
    BY <1>1, <1>3
  <2>. QED  BY <2>1, <2>2
<1>7. ASSUME NEW i \in 1..Len(s) PROVE s[i] = q[i]
  <2>1. CASE i = 1
    BY <1>3, <1>5, <1>6, <2>1
  <2>2. CASE i # 1
    <3>1. i - 1 \in 1..Len(r) /\ (i - 1) + 1 = i /\ ~(i <= 1)
        BY <1>1, <1>3, <2>2
    <3>. QED  BY <1>3, <1>6, <3>1
  <2>. QED  BY <2>1, <2>2
<1>8. s = q
    BY <1>6, <1>7, SeqEqual
<1>. QED  BY <1>1, <1>2, <1>4, <1>8

\* The size of the first item and of the rest.
LEMMA SizedHead ==
    ASSUME NEW s, Sized(s), s # <<>>
    PROVE  /\ Sized(Tail(s)) /\ Head(s).size \in Nat /\ SizeOf(Tail(s)) \in Nat
           /\ SizeOf(s) = Head(s).size + SizeOf(Tail(s)) /\ Len(Tail(s)) = Len(s) - 1
<1>1. PICK S : s \in Seq(S)
    BY DEF Sized
<1>2. PICK h, r : h = Head(s) /\ r = Tail(s) /\ r \in Seq(S) /\ s = <<h>> \o r
    BY <1>1, HeadThenTail
<1>3. Len(s) \in Nat /\ Len(s) >= 1 /\ h = s[1] /\ Len(r) = Len(s) - 1
      /\ \A i \in 1..Len(r) : r[i] = s[i + 1]
  <2>1. Len(s) \in Nat /\ Len(s) >= 1
    BY <1>1, EmptySeq, LenProperties
  <2>. QED  BY <1>1, <1>2, <2>1
<1>4. h.size \in Nat
    BY <1>3 DEF Sized
<1>5. Sized(r)
  <2>1. ASSUME NEW i \in 1..Len(r) PROVE r[i].size \in Nat
    <3>1. i + 1 \in 1..Len(s)
        BY <1>3
    <3>. QED  BY <1>3, <3>1 DEF Sized
  <2>. QED  BY <1>2, <2>1 DEF Sized
<1>6. Sized(<<h>>) /\ SizeOf(<<h>>) = h.size
    BY <1>4, SizedOne
<1>7. SizeOf(s) = h.size + SizeOf(r) /\ SizeOf(r) \in Nat
    BY <1>2, <1>5, <1>6, SizedConcat
<1>. QED  BY <1>2, <1>3, <1>4, <1>5, <1>7

\* One more in front.
LEMMA SizedMore ==
    ASSUME NEW s, Sized(s), NEW x, x.size \in Nat
    PROVE  /\ Sized(<<x>> \o s) /\ SizeOf(<<x>> \o s) = x.size + SizeOf(s) /\ SizeOf(s) \in Nat
           /\ Len(<<x>> \o s) = Len(s) + 1 /\ Head(<<x>> \o s) = x /\ <<x>> \o s # <<>>
<1>1. Sized(<<x>>) /\ SizeOf(<<x>>) = x.size
    BY SizedOne
<1>2. Sized(<<x>> \o s) /\ SizeOf(<<x>> \o s) = x.size + SizeOf(s) /\ SizeOf(s) \in Nat
    BY <1>1, SizedConcat
<1>3. PICK S : s \in Seq(S)
    BY DEF Sized
<1>4. PICK T : T = S \union {x}
    OBVIOUS
<1>5. s \in Seq(T) /\ <<x>> \in Seq(T) /\ Len(<<x>>) = 1 /\ <<x>>[1] = x /\ Len(s) \in Nat
    BY <1>3, <1>4, LenProperties
<1>6. PICK q : q = <<x>> \o s
    OBVIOUS
<1>7. q \in Seq(T) /\ Len(q) = 1 + Len(s) /\ q[1] = x
    BY <1>5, <1>6, ConcatProperties
<1>8. Head(q) = x /\ q # <<>>
    BY <1>5, <1>7
<1>. QED  BY <1>2, <1>5, <1>6, <1>7, <1>8

\* The last values read, taken in the order they were read, and the others.
LEMMA SizedCollected ==
    ASSUME NEW s, Sized(s), NEW n \in Nat, n <= Len(s)
    PROVE  LET items == [i \in 1..n |-> s[n + 1 - i]]
               rest == SubSeq(s, n + 1, Len(s))
           IN  /\ Sized(items) /\ Sized(rest) /\ Len(rest) = Len(s) - n
               /\ SizeOf(items) \in Nat /\ SizeOf(rest) \in Nat
               /\ SizeOf(s) = SizeOf(items) + SizeOf(rest)
<1>1. PICK S : s \in Seq(S)
    BY DEF Sized
<1>2. PICK m \in Nat : m = Len(s)
    BY <1>1, LenProperties
<1>3. PICK a, b : a = SubSeq(s, 1, n) /\ b = SubSeq(s, n + 1, m)
    OBVIOUS
<1>4. /\ a \in Seq(S) /\ Len(a) = n /\ \A i \in 1..n : a[i] = s[i]
      /\ b \in Seq(S) /\ Len(b) = m - n /\ \A i \in 1..(m - n) : b[i] = s[n + i]
  <2>1. \A i \in 1..n : s[i] \in S
    BY <1>1, <1>2, ElementOfSeq
  <2>2. \A i \in (n + 1)..m : s[i] \in S
    BY <1>1, <1>2, ElementOfSeq
  <2>3. a \in Seq(S) /\ Len(a) = n /\ \A i \in 1..n : a[i] = s[i]
    BY <1>1, <1>2, <1>3, <2>1, SubSeqProperties
  <2>4. b \in Seq(S) /\ Len(b) = m - n /\ \A i \in 1..(m - n) : b[i] = s[n + i]
    <3>1. \A i \in (n + 1)..m : i \in 1..Len(s)
        BY <1>2
    <3>2. PICK k \in 1..(Len(s) + 1) : k = n + 1
        BY <1>2
    <3>3. /\ b \in Seq(S) /\ Len(b) = IF k <= m THEN m - k + 1 ELSE 0
          /\ \A i \in 1..(m - k + 1) : b[i] = s[k + i - 1]
        BY <1>1, <1>2, <1>3, <3>2, SubSeqProperties
    <3>4. b \in Seq(S) /\ Len(b) = m - n
        BY <1>2, <3>2, <3>3
    <3>5. ASSUME NEW i \in 1..(m - n) PROVE b[i] = s[n + i]
      <4>1. i \in 1..(m - k + 1) /\ k + i - 1 = n + i
        BY <3>2
      <4>2. b[i] = s[k + i - 1]
        BY <3>3, <4>1
      <4>. QED  BY <4>1, <4>2
    <3>. QED  BY <3>4, <3>5
  <2>. QED  BY <2>3, <2>4
<1>5. Sized(a)
    BY <1>2, <1>4 DEF Sized
<1>6. Sized(b)
  <2>1. ASSUME NEW i \in 1..(m - n) PROVE b[i].size \in Nat
    <3>1. n + i \in 1..m
        BY <1>2
    <3>. QED  BY <1>2, <1>4, <3>1 DEF Sized
  <2>. QED  BY <1>4, <2>1 DEF Sized
<1>7. s = a \o b
  <2>1. PICK q : q = a \o b
    OBVIOUS
  <2>2. /\ q \in Seq(S) /\ Len(q) = n + (m - n)
        /\ \A i \in 1..(n + (m - n)) : q[i] = IF i <= n THEN a[i] ELSE b[i - n]
    BY <1>4, <2>1, ConcatProperties
  <2>3. Len(q) = m /\ \A i \in 1..m : q[i] = IF i <= n THEN a[i] ELSE b[i - n]
    BY <1>2, <2>2
  <2>4. ASSUME NEW i \in 1..m PROVE s[i] = q[i]
    <3>1. CASE i <= n
        BY <1>4, <2>3, <3>1
    <3>2. CASE ~(i <= n)
        <4>1. i - n \in 1..(m - n) /\ n + (i - n) = i
            BY <3>2
        <4>. QED  BY <1>4, <2>3, <3>2, <4>1
    <3>. QED  BY <3>1, <3>2
  <2>5. s = q
    BY <1>1, <1>2, <2>2, <2>3, <2>4, SeqEqual
  <2>. QED  BY <2>1, <2>5
<1>8. SizeOf(s) = SizeOf(a) + SizeOf(b) /\ SizeOf(a) \in Nat /\ SizeOf(b) \in Nat
    BY <1>5, <1>6, <1>7, SizedConcat
<1>9. PICK r : r = [i \in 1..n |-> a[n + 1 - i]]
    OBVIOUS
<1>10. Sized(r) /\ SizeOf(r) = SizeOf(a)
    BY <1>4, <1>5, <1>9, SizedReverse
<1>11. r = [i \in 1..n |-> s[n + 1 - i]]
    BY <1>4, <1>9
<1>. QED  BY <1>2, <1>3, <1>4, <1>6, <1>8, <1>10, <1>11

-----------------------------------------------------------------------------
\* Every call of a path is one that R knows.
LEMMA PathCalls ==
    ASSUME NEW R, NEW calls, NEW x, NEW y, Path(R, calls, x, y)
    PROVE  \A j \in 1..Len(calls) : \E u, z : <<calls[j], u, z>> \in R
BY DEF Path

\* A path by fewer steps is a path by more.
LEMMA PathMore ==
    ASSUME NEW R, NEW Q, R \subseteq Q, NEW calls, NEW x, NEW y, Path(R, calls, x, y)
    PROVE  Path(Q, calls, x, y)
BY DEF Path

\* One call in turn with another that changes nothing.
LEMMA PathInTurn ==
    ASSUME NEW R, NEW n \in Nat, NEW a, NEW b, NEW f,
           \A k \in 1..n : <<a, f[k - 1], f[k]>> \in R /\ <<b, f[k], f[k]>> \in R
    PROVE  Path(R, [i \in 1..(2 * n) |-> IF i % 2 = 1 THEN a ELSE b], f[0], f[n])
<1>. DEFINE g == [j \in 0..(2 * n) |-> f[(j + 1) \div 2]]
           calls == [i \in 1..(2 * n) |-> IF i % 2 = 1 THEN a ELSE b]
<1>1. \A j \in 0..(2 * n) : g[j] = f[(j + 1) \div 2]
    OBVIOUS
<1>2. \A i \in 1..(2 * n) : calls[i] = IF i % 2 = 1 THEN a ELSE b
    OBVIOUS
<1>3. Len(calls) = 2 * n
  <2>1. calls \in [1..(2 * n) -> {a, b}]
    OBVIOUS
  <2>. HIDE DEF calls
  <2>. QED  BY <2>1
<1>. HIDE DEF g, calls
<1>4. g[0] = f[0] /\ g[2 * n] = f[n]
  <2>1. (0 + 1) \div 2 = 0 /\ (2 * n + 1) \div 2 = n /\ 0 \in 0..(2 * n) /\ 2 * n \in 0..(2 * n)
    OBVIOUS
  <2>. QED  BY <1>1, <2>1
<1>5. ASSUME NEW j \in 1..(2 * n) PROVE <<calls[j], g[j - 1], g[j]>> \in R
  <2>1. j \in 0..(2 * n) /\ j - 1 \in 0..(2 * n) /\ (j - 1) + 1 = j
    OBVIOUS
  <2>2. g[j] = f[(j + 1) \div 2] /\ g[j - 1] = f[j \div 2]
    BY <1>1, <2>1
  <2>3. CASE j % 2 = 1
    <3>1. PICK k \in 1..n : j \div 2 = k - 1 /\ (j + 1) \div 2 = k
      <4>1. PICK q \in Nat : j = 2 * q + 1
        BY <2>3
      <4>2. j \div 2 = q /\ (j + 1) \div 2 = q + 1 /\ q + 1 \in 1..n
        BY <4>1
      <4>. QED  BY <4>1, <4>2
    <3>. QED  BY <1>2, <2>2, <2>3, <3>1
  <2>4. CASE j % 2 # 1
    <3>1. PICK k \in 1..n : j \div 2 = k /\ (j + 1) \div 2 = k
      <4>1. PICK q \in Nat : j = 2 * q
        BY <2>4
      <4>2. j \div 2 = q /\ (j + 1) \div 2 = q /\ q \in 1..n
        BY <4>1
      <4>. QED  BY <4>2
    <3>. QED  BY <1>2, <2>2, <2>4, <3>1
  <2>. QED  BY <2>3, <2>4
<1>6. Path(R, calls, f[0], f[n])
    BY <1>3, <1>4, <1>5 DEF Path
<1>. QED  BY <1>6 DEF calls

-----------------------------------------------------------------------------
(* from_reader of any bytes. *)

\* The calls of the reader.
Ops == {"read", "nonzero", "some", "wrap", "assign", "collect"}
Tasks == [op : Ops, of : Types]

\* What they find and leave: how many values were read, whether the last one is
\* of one byte, and how many bytes read are in none of the values.
Loads == [depth : Nat, unit : {0, 1}, owed : Nat]
Load(depth, unit, owed) == [depth |-> depth, unit |-> unit, owed |-> owed]

\* What each call does to them; `frag` where items that own may be assigned.
Handles(frag, c, x, y) ==
    \/ /\ c.op = "read"
       /\ c.of.fragile => frag
       /\ y.depth = x.depth + 1 /\ y.owed = x.owed
       /\ y.unit = 1 => c.of \in {IntType(1), BoolType}
    \/ /\ c.op = "nonzero"
       /\ x.depth >= 1 /\ x.unit = 1 /\ y.depth = x.depth /\ y.owed = x.owed
    \/ /\ c.op = "some"
       /\ \E u \in Types : c.of = OptionOf(u) /\ (u.fragile => frag)
       /\ x.depth >= 1 /\ x.unit = 1 /\ y.depth = x.depth /\ y.owed = x.owed /\ y.unit = 0
    \/ /\ c.op = "wrap"
       /\ x.depth >= 1 /\ x.owed = y.owed + 1 /\ y.depth = x.depth /\ y.unit = 0
    \/ /\ c.op = "assign"
       /\ c.of.owns => frag
       /\ y.depth = x.depth /\ y.owed = x.owed /\ y.unit = 0
    \/ /\ c.op = "collect"
       /\ c.of.width \in Nat /\ x.depth >= c.of.width
       /\ y.depth = (x.depth - c.of.width) + 1 /\ y.owed = x.owed /\ y.unit = 0
Handling(frag) == {m \in Tasks \X Loads \X Loads : Handles(frag, m[1], m[2], m[3])}

\* What it is to be among the handled calls.
LEMMA Handled ==
    ASSUME NEW frag, NEW c, NEW x, NEW y
    PROVE  <<c, x, y>> \in Handling(frag)
             <=> c \in Tasks /\ x \in Loads /\ y \in Loads /\ Handles(frag, c, x, y)
BY DEF Handling

\* A call has its operation and its type.
LEMMA TasksAre ==
    ASSUME NEW op \in Ops, NEW t \in Types
    PROVE  Task(op, t) \in Tasks /\ Task(op, t).op = op /\ Task(op, t).of = t
BY DEF Task, Tasks

\* A load has its three parts.
LEMMA LoadsAre ==
    ASSUME NEW d \in Nat, NEW u \in {0, 1}, NEW o \in Nat
    PROVE  /\ Load(d, u, o) \in Loads /\ Load(d, u, o).depth = d
           /\ Load(d, u, o).unit = u /\ Load(d, u, o).owed = o
BY DEF Load, Loads

\* The calls a composed type makes, by what it is.
LEMMA CallsAre ==
    /\ Calls(BoolType) = <<Task("read", IntType(1)), Task("nonzero", BoolType)>>
    /\ \A u : Calls(OptionOf(u)) = <<Task("read", BoolType), Task("some", OptionOf(u))>>
    /\ \A u : Calls(Owned(u)) = <<Task("read", u)>>
<1>1. Calls(BoolType) = <<Task("read", IntType(1)), Task("nonzero", BoolType)>>
    BY DEF Calls, BoolType, Type
<1>2. ASSUME NEW u
      PROVE  Calls(OptionOf(u)) = <<Task("read", BoolType), Task("some", OptionOf(u))>>
  <2>1. OptionOf(u).kind = "option"
    BY DEF OptionOf, Type
  <2>. QED  BY <2>1 DEF Calls
<1>3. ASSUME NEW u PROVE Calls(Owned(u)) = <<Task("read", u)>>
  <2>1. Owned(u).kind = "owned" /\ Owned(u).of[1] = u
    BY DEF Owned, Type
  <2>. QED  BY <2>1 DEF Calls
<1>. QED  BY <1>1, <1>2, <1>3

\* The calls of an array: for each item a read and an assignment.
LEMMA ArrayCalls ==
    ASSUME NEW n \in Nat, NEW u \in Types
    PROVE  LET each == [i \in 1..(2 * n) |-> IF i % 2 = 1 THEN Task("read", u)
                                             ELSE Task("assign", u)]
           IN  /\ Calls(ArrayOf(n, u)) = each \o <<Task("collect", ArrayOf(n, u))>>
               /\ each \in Seq(Tasks)
<1>1. PICK t : t = ArrayOf(n, u)
    OBVIOUS
<1>2. t.kind = "array" /\ t.width = n /\ t.of[1] = u
    BY <1>1 DEF ArrayOf, Type
<1>. DEFINE each == [i \in 1..(2 * n) |-> IF i % 2 = 1 THEN Task("read", u) ELSE Task("assign", u)]
<1>3. [i \in 1..(2 * n) |-> Task(IF i % 2 = 1 THEN "read" ELSE "assign", u)] = each
    OBVIOUS
<1>4. Calls(t) = [i \in 1..(2 * n) |-> Task(IF i % 2 = 1 THEN "read" ELSE "assign", u)]
                   \o <<Task("collect", t)>>
    BY <1>2 DEF Calls
<1>5. each \in Seq(Tasks)
  <2>1. Task("read", u) \in Tasks /\ Task("assign", u) \in Tasks
    BY TasksAre DEF Ops
  <2>2. each \in [1..(2 * n) -> Tasks]
    BY <2>1
  <2>. HIDE DEF each
  <2>3. 2 * n \in Nat
    OBVIOUS
  <2>. QED  BY <2>2, <2>3
<1>. QED  BY <1>1, <1>3, <1>4, <1>5

\* The calls of a tuple: one read for each item.
LEMMA PairCalls ==
    ASSUME NEW q, NEW u
    PROVE  Calls(PairOf(q, u)) =
             <<Task("read", q), Task("read", u)>> \o <<Task("collect", PairOf(q, u))>>
<1>1. PICK t : t = PairOf(q, u)
    OBVIOUS
<1>2. t.kind = "tuple" /\ t.width = 2 /\ t.of = <<q, u>>
    BY <1>1 DEF PairOf, Type
<1>3. PICK a, b : a = Task("read", q) /\ b = Task("read", u)
    OBVIOUS
<1>4. [i \in 1..2 |-> Task("read", <<q, u>>[i])] = <<a, b>>
  <2>1. Task("read", <<q, u>>[1]) = a /\ Task("read", <<q, u>>[2]) = b
    BY <1>3
  <2>. QED  BY <2>1
<1>5. Calls(t) = [i \in 1..2 |-> Task("read", <<q, u>>[i])] \o <<Task("collect", t)>>
    BY <1>2 DEF Calls
<1>. QED  BY <1>1, <1>3, <1>4, <1>5

\* One more value, of a type that is no byte.
LEMMA ReadsOneMore ==
    ASSUME NEW frag, NEW t \in Types, t.fragile => frag, NEW x \in Loads, NEW v \in {0, 1},
           v = 1 => t \in {IntType(1), BoolType}
    PROVE  <<Task("read", t), x, Load(x.depth + 1, v, x.owed)>> \in Handling(frag)
<1>1. x.depth \in Nat /\ x.depth + 1 \in Nat /\ x.owed \in Nat
    BY DEF Loads
<1>2. PICK y : y = Load(x.depth + 1, v, x.owed)
    OBVIOUS
<1>3. y \in Loads /\ y.depth = x.depth + 1 /\ y.unit = v /\ y.owed = x.owed
    BY <1>1, <1>2, LoadsAre
<1>4. PICK c \in Tasks : c = Task("read", t) /\ c.op = "read" /\ c.of = t
    BY TasksAre DEF Ops
<1>5. Handles(frag, c, x, y)
    BY <1>3, <1>4 DEF Handles
<1>. QED  BY <1>2, <1>3, <1>4, <1>5, Handled

\* Reading any type leaves one value more.
LEMMA ReadsMore ==
    ASSUME NEW frag, NEW t \in Types, t.fragile => frag, NEW x \in Loads,
           NEW y, y = Load(x.depth + 1, 0, x.owed)
    PROVE  <<Task("read", t), x, y>> \in Handling(frag)
<1>1. PICK v : v = 0
    OBVIOUS
<1>2. v \in {0, 1} /\ (v = 1 => t \in {IntType(1), BoolType})
    BY <1>1
<1>3. <<Task("read", t), x, Load(x.depth + 1, v, x.owed)>> \in Handling(frag)
    BY <1>2, ReadsOneMore
<1>. QED  BY <1>1, <1>3

\* The kinds of the byte and of the bool it is read for.
LEMMA ByteKinds == IntType(1).kind = "int" /\ BoolType.kind = "bool"
BY DEF IntType, BoolType, Type

\* Loads with the same parts are the same.
LEMMA SameLoad ==
    ASSUME NEW x \in Loads, NEW y \in Loads,
           x.depth = y.depth, x.unit = y.unit, x.owed = y.owed
    PROVE  x = y
BY DEF Loads

\* A composed type's calls do what reading a value of it does.
LEMMA CallsHandle ==
    ASSUME NEW frag, NEW t \in Types, t.kind \notin {"int", "bytes"}, NEW x, NEW y,
           <<Task("read", t), x, y>> \in Handling(frag)
    PROVE  Calls(t) \in Seq(Tasks) /\ Path(Handling(frag), Calls(t), x, y)
<1>. DEFINE R == Handling(frag)
           Goal == Calls(t) \in Seq(Tasks) /\ Path(R, Calls(t), x, y)
<1>1. /\ x \in Loads /\ y \in Loads /\ (t.fragile => frag)
      /\ y.depth = x.depth + 1 /\ y.owed = x.owed
      /\ y.unit = 1 => t \in {IntType(1), BoolType}
  <2>1. PICK c \in Tasks : c = Task("read", t) /\ c.op = "read" /\ c.of = t
    BY TasksAre DEF Ops
  <2>2. x \in Loads /\ y \in Loads /\ Handles(frag, c, x, y)
    BY <2>1, Handled
  <2>. QED  BY <2>1, <2>2 DEF Handles
<1>2. PICK d, o \in Nat : d = x.depth /\ o = x.owed
    BY <1>1 DEF Loads
<1>3. y.unit \in {0, 1}
    BY <1>1 DEF Loads
<1>4. y = Load(d + 1, y.unit, o)
  <2>1. PICK v \in {0, 1} : v = y.unit
    BY <1>3
  <2>2. PICK z \in Loads : z = Load(d + 1, v, o) /\ z.depth = d + 1 /\ z.unit = v /\ z.owed = o
    BY LoadsAre
  <2>3. y.depth = z.depth /\ y.unit = z.unit /\ y.owed = z.owed
    BY <1>1, <1>2, <2>1, <2>2
  <2>4. y = z
    BY <1>1, <2>3, SameLoad
  <2>. QED  BY <2>1, <2>2, <2>4
<1>. HIDE DEF Goal, R
<1>5. ASSUME t = BoolType PROVE Goal
  <2>1. PICK a : a = Task("read", IntType(1)) /\ a \in Tasks
    BY TasksAre DEF Ops, Types
  <2>2. PICK b : b = Task("nonzero", BoolType) /\ b \in Tasks /\ b.op = "nonzero"
    BY TasksAre DEF Ops, Types
  <2>3. PICK z \in Loads : z = Load(d + 1, 1, o) /\ z.depth = d + 1 /\ z.unit = 1 /\ z.owed = o
    BY LoadsAre
  <2>4. IntType(1) \in Types /\ IntType(1).fragile = FALSE
    BY DEF Types, IntType, Type
  <2>5. <<a, x, z>> \in R
    BY <1>1, <1>2, <2>1, <2>3, <2>4, ReadsOneMore DEF R
  <2>6. Handles(frag, b, z, y)
    BY <1>1, <1>2, <2>2, <2>3 DEF Handles
  <2>7. <<b, z, y>> \in R
    BY <1>1, <2>2, <2>3, <2>6, Handled DEF R
  <2>8. Path(R, <<a>>, x, z) /\ Path(R, <<b>>, z, y)
    BY <2>5, <2>7, PathOne
  <2>9. <<a>> \in Seq(Tasks) /\ <<b>> \in Seq(Tasks) /\ <<a, b>> \in Seq(Tasks)
    BY <2>1, <2>2
  <2>10. Path(R, <<a>> \o <<b>>, x, y)
    BY <2>8, <2>9, PathConcat
  <2>11. Calls(t) = <<a, b>> /\ <<a>> \o <<b>> = <<a, b>>
    BY <1>5, <2>1, <2>2, CallsAre, Concats
  <2>. QED  BY <2>9, <2>10, <2>11 DEF Goal
<1>6. ASSUME NEW u \in Types, t = OptionOf(u) PROVE Goal
  <2>0. t.fragile = u.fragile /\ t # IntType(1) /\ t # BoolType
    BY <1>6 DEF OptionOf, IntType, BoolType, Type
  <2>1. PICK a : a = Task("read", BoolType) /\ a \in Tasks
    BY TasksAre DEF Ops, Types
  <2>2. PICK b : b = Task("some", t) /\ b \in Tasks /\ b.op = "some" /\ b.of = t
    BY TasksAre DEF Ops
  <2>3. PICK z \in Loads : z = Load(d + 1, 1, o) /\ z.depth = d + 1 /\ z.unit = 1 /\ z.owed = o
    BY LoadsAre
  <2>4. BoolType \in Types /\ BoolType.fragile = FALSE
    BY DEF Types, BoolType, Type
  <2>5. <<a, x, z>> \in R
    BY <1>1, <1>2, <2>1, <2>3, <2>4, ReadsOneMore DEF R
  <2>6. Handles(frag, b, z, y)
    BY <1>1, <1>2, <1>3, <1>6, <2>0, <2>2, <2>3 DEF Handles
  <2>7. <<b, z, y>> \in R
    BY <1>1, <2>2, <2>3, <2>6, Handled DEF R
  <2>8. Path(R, <<a>>, x, z) /\ Path(R, <<b>>, z, y)
    BY <2>5, <2>7, PathOne
  <2>9. <<a>> \in Seq(Tasks) /\ <<b>> \in Seq(Tasks) /\ <<a, b>> \in Seq(Tasks)
    BY <2>1, <2>2
  <2>10. Path(R, <<a>> \o <<b>>, x, y)
    BY <2>8, <2>9, PathConcat
  <2>11. Calls(t) = <<a, b>> /\ <<a>> \o <<b>> = <<a, b>>
    BY <1>6, <2>1, <2>2, CallsAre, Concats
  <2>. QED  BY <2>9, <2>10, <2>11 DEF Goal
<1>7. ASSUME NEW u \in Types, t = Owned(u) PROVE Goal
  <2>1. t.fragile = u.fragile /\ t # IntType(1) /\ t # BoolType
    BY <1>7 DEF Owned, IntType, BoolType, Type
  <2>2. PICK a : a = Task("read", u) /\ a \in Tasks
    BY TasksAre DEF Ops
  <2>4. y.unit = 0
    BY <1>1, <1>3, <2>1
  <2>3. <<a, x, y>> \in R
    BY <1>1, <1>2, <1>4, <2>1, <2>2, <2>4, ReadsMore DEF R
  <2>5. Path(R, <<a>>, x, y)
    BY <2>3, PathOne
  <2>6. Calls(t) = <<a>> /\ <<a>> \in Seq(Tasks)
    BY <1>7, <2>2, CallsAre
  <2>. QED  BY <2>5, <2>6 DEF Goal
<1>8. ASSUME NEW n \in Nat, NEW u \in Types, t = ArrayOf(n, u) PROVE Goal
  <2>1. /\ n > 0 => (u.fragile => frag) /\ (u.owns => frag)
        /\ t # IntType(1) /\ t # BoolType /\ t.width = n
    <3>1. t.fragile = ((u.owns /\ n > 0) \/ u.fragile) /\ t.kind = "array" /\ t.width = n
        BY <1>8 DEF ArrayOf, Type
    <3>. QED  BY <1>1, <3>1, ByteKinds
  <2>2. PICK a \in Tasks, b \in Tasks, c \in Tasks :
            /\ a = Task("read", u) /\ b = Task("assign", u) /\ c = Task("collect", t)
            /\ b.op = "assign" /\ b.of = u /\ c.op = "collect" /\ c.of = t
    BY TasksAre DEF Ops
  <2>3. PICK each : each = [i \in 1..(2 * n) |-> IF i % 2 = 1 THEN a ELSE b]
    OBVIOUS
  <2>4. Calls(t) = each \o <<c>> /\ each \in Seq(Tasks)
    BY <1>8, <2>2, <2>3, ArrayCalls
  <2>. DEFINE f == [k \in 0..n |-> IF k = 0 THEN x ELSE Load(d + k, 0, o)]
  <2>5. \A k \in 0..n : f[k] = IF k = 0 THEN x ELSE Load(d + k, 0, o)
    OBVIOUS
  <2>. HIDE DEF f
  <2>6. \A k \in 0..n : f[k] \in Loads /\ f[k].depth = d + k /\ f[k].owed = o
    <3>. TAKE k \in 0..n
    <3>1. Load(d + k, 0, o) \in Loads /\ Load(d + k, 0, o).depth = d + k /\ Load(d + k, 0, o).owed = o
        BY LoadsAre
    <3>2. CASE k = 0
        BY <1>1, <1>2, <2>5, <3>2
    <3>3. CASE k # 0
        BY <2>5, <3>1, <3>3
    <3>. QED  BY <3>2, <3>3
  <2>7. ASSUME NEW k \in 1..n PROVE <<a, f[k - 1], f[k]>> \in R /\ <<b, f[k], f[k]>> \in R
    <3>1. k \in 0..n /\ k - 1 \in 0..n /\ n > 0 /\ (d + (k - 1)) + 1 = d + k
        OBVIOUS
    <3>2. PICK p, q \in Loads : /\ p = f[k - 1] /\ q = f[k] /\ p.depth = d + (k - 1) /\ p.owed = o
                                /\ q.depth = d + k /\ q.owed = o
        BY <2>6, <3>1
    <3>3. q = Load(p.depth + 1, 0, p.owed)
        BY <2>5, <3>1, <3>2
    <3>4. <<a, p, q>> \in R
        BY <2>1, <2>2, <3>1, <3>3, ReadsMore DEF R
    <3>5. q.unit = 0
        BY <3>3 DEF Load
    <3>6. Handles(frag, b, q, q)
        BY <2>1, <2>2, <3>1, <3>5 DEF Handles
    <3>7. <<b, q, q>> \in R
        BY <2>2, <3>6, Handled DEF R
    <3>. QED  BY <3>2, <3>4, <3>7
  <2>8. Path(R, each, f[0], f[n])
    BY <2>3, <2>7, PathInTurn
  <2>9. f[0] = x
    BY <2>5
  <2>10. PICK z \in Loads : z = f[n] /\ z.depth = d + n /\ z.owed = o
    BY <2>6
  <2>11. Handles(frag, c, z, y)
    BY <1>1, <1>2, <1>3, <2>1, <2>2, <2>10 DEF Handles
  <2>12. <<c, z, y>> \in R
    BY <1>1, <2>2, <2>11, Handled DEF R
  <2>13. Path(R, <<c>>, z, y) /\ <<c>> \in Seq(Tasks)
    BY <2>2, <2>12, PathOne
  <2>14. Path(R, each \o <<c>>, x, y)
    BY <2>4, <2>8, <2>9, <2>10, <2>13, PathConcat
  <2>15. each \o <<c>> \in Seq(Tasks)
    BY <2>4, <2>13, ConcatProperties
  <2>. QED  BY <2>4, <2>14, <2>15 DEF Goal
<1>9. ASSUME NEW q \in Types, NEW u \in Types, t = PairOf(q, u) PROVE Goal
  <2>1. /\ (q.fragile => frag) /\ (u.fragile => frag)
        /\ t # IntType(1) /\ t # BoolType /\ t.width = 2
    <3>1. t.fragile = (q.fragile \/ u.fragile) /\ t.kind = "tuple" /\ t.width = 2
        BY <1>9 DEF PairOf, Type
    <3>. QED  BY <1>1, <3>1, ByteKinds
  <2>2. PICK a \in Tasks, b \in Tasks, c \in Tasks :
            /\ a = Task("read", q) /\ b = Task("read", u) /\ c = Task("collect", t)
            /\ c.op = "collect" /\ c.of = t
    BY TasksAre DEF Ops
  <2>3. PICK w \in Loads : w = Load(d + 1, 0, o) /\ w.depth = d + 1 /\ w.owed = o
    BY LoadsAre
  <2>4. PICK z \in Loads : z = Load(w.depth + 1, 0, w.owed) /\ z.depth = d + 2 /\ z.owed = o
    BY <2>3, LoadsAre
  <2>5. <<a, x, w>> \in R /\ <<b, w, z>> \in R
    BY <1>1, <1>2, <2>1, <2>2, <2>3, <2>4, ReadsMore DEF R
  <2>6. Handles(frag, c, z, y)
    BY <1>1, <1>2, <1>3, <2>1, <2>2, <2>4 DEF Handles
  <2>7. <<c, z, y>> \in R
    BY <1>1, <2>2, <2>6, Handled DEF R
  <2>8. Path(R, <<a>>, x, w) /\ Path(R, <<b>>, w, z) /\ Path(R, <<c>>, z, y)
    BY <2>5, <2>7, PathOne
  <2>9. <<a>> \in Seq(Tasks) /\ <<b>> \in Seq(Tasks) /\ <<c>> \in Seq(Tasks) /\ <<a, b>> \in Seq(Tasks)
    BY <2>2
  <2>10. <<a>> \o <<b>> = <<a, b>>
    BY Concats
  <2>11. Path(R, <<a, b>>, x, z)
    BY <2>8, <2>9, <2>10, PathConcat
  <2>12. Path(R, <<a, b>> \o <<c>>, x, y)
    BY <2>8, <2>9, <2>11, PathConcat
  <2>13. <<a, b>> \o <<c>> \in Seq(Tasks)
    BY <2>9, ConcatProperties
  <2>14. Calls(t) = <<a, b>> \o <<c>>
    BY <1>9, <2>2, PairCalls
  <2>. QED  BY <2>12, <2>13, <2>14 DEF Goal
<1>10. ASSUME NEW w, t = IntType(w) \/ t = BytesType(w) PROVE FALSE
    BY <1>10 DEF IntType, BytesType, Type
<1>11. Goal
    BY <1>5, <1>6, <1>7, <1>8, <1>9, <1>10, TypeCases
<1>. QED  BY <1>11 DEF Goal, R

-----------------------------------------------------------------------------
(* The reader's invariant: the calls still to make account for the values     *)
(* read and for the bytes.                                                    *)

\* What x says of the values read and of the bytes taken for them.
Fits(x, s, a) ==
    /\ x \in Loads /\ Sized(s) /\ x.depth = Len(s)
    /\ x.unit = 1 => Head(s).size = 1
    /\ a = SizeOf(s) + x.owed

ReadAccounts ==
    /\ tasks \in Seq(Tasks)
    /\ \E x : Fits(x, stack, at) /\ Path(Handling(type.fragile), tasks, x, Load(1, 0, 0))

SizesAccounted ==
    /\ type \in Types
    /\ junk => type.fragile
    /\ step \in {"none", "write"} => stack = <<>>
    /\ step = "none" => at = 0 /\ ~junk
    /\ step = "write" => tasks \in Seq(AllValues) /\ at \in Nat /\ body.size = at + SizeOf(tasks)
    /\ step = "read" => ReadAccounts
    /\ step = "done" => at = Head(stack).size

\* Nothing read fits no load.
LEMMA FitsNothing == Fits(Load(0, 0, 0), <<>>, 0)
<1>1. <<>> \in Seq({}) /\ Len(<<>>) = 0
    OBVIOUS
<1>2. Sized(<<>>)
    BY <1>1 DEF Sized
<1>3. PICK x \in Loads : x = Load(0, 0, 0) /\ x.depth = 0 /\ x.unit = 0 /\ x.owed = 0
    BY LoadsAre
<1>. QED  BY <1>1, <1>2, <1>3, SizeOfNone DEF Fits

\* What fits has the length and the size the load says.
LEMMA FitsLength == ASSUME NEW x, NEW s, NEW a, Fits(x, s, a)
                    PROVE  /\ x \in Loads /\ x.depth \in Nat /\ x.owed \in Nat /\ x.unit \in {0, 1}
                           /\ Sized(s) /\ Len(s) = x.depth /\ SizeOf(s) \in Nat
                           /\ x.depth >= 1 => s # <<>>
<1>1. x \in Loads /\ x.depth \in Nat /\ x.owed \in Nat /\ x.unit \in {0, 1}
    BY DEF Fits, Loads
<1>2. Sized(s) /\ Len(s) = x.depth
    BY DEF Fits
<1>3. SizeOf(s) \in Nat
    BY <1>2, SizedConcat
<1>4. x.depth >= 1 => s # <<>>
    BY <1>1, <1>2
<1>. QED  BY <1>1, <1>2, <1>3, <1>4

\* A value read, of w bytes.
LEMMA FitsRead ==
    ASSUME NEW x, NEW s, NEW a, Fits(x, s, a), NEW y \in Loads,
           y.depth = x.depth + 1, y.owed = x.owed,
           NEW w \in Nat, NEW v, v.size = w, y.unit = 1 => w = 1
    PROVE  Fits(y, <<v>> \o s, a + w)
<1>1. PICK r : r = <<v>> \o s
    OBVIOUS
<1>2. Sized(r) /\ SizeOf(r) = w + SizeOf(s) /\ SizeOf(s) \in Nat /\ Len(r) = Len(s) + 1 /\ Head(r) = v
    BY <1>1, SizedMore DEF Fits
<1>3. x.owed \in Nat /\ Len(s) = x.depth /\ a = SizeOf(s) + x.owed
    BY FitsLength DEF Fits
<1>4. a + w = SizeOf(r) + y.owed
    BY <1>2, <1>3
<1>. QED  BY <1>1, <1>2, <1>3, <1>4 DEF Fits

\* The last value becomes another.
LEMMA FitsTop ==
    ASSUME NEW x, NEW s, NEW a, Fits(x, s, a), NEW y \in Loads, x.depth >= 1, y.depth = x.depth,
           NEW v, v.size \in Nat, v.size + y.owed = Head(s).size + x.owed, y.unit = 1 => v.size = 1
    PROVE  Fits(y, <<v>> \o Tail(s), a)
<1>1. PICK q, r : q = Tail(s) /\ r = <<v>> \o q
    OBVIOUS
<1>2. /\ Sized(q) /\ Head(s).size \in Nat /\ SizeOf(q) \in Nat
      /\ SizeOf(s) = Head(s).size + SizeOf(q) /\ Len(q) = Len(s) - 1
    BY <1>1, FitsLength, SizedHead
<1>3. Sized(r) /\ SizeOf(r) = v.size + SizeOf(q) /\ Len(r) = Len(q) + 1 /\ Head(r) = v
    BY <1>1, <1>2, SizedMore
<1>4. x.owed \in Nat /\ Len(s) = x.depth /\ x.depth \in Nat /\ a = SizeOf(s) + x.owed /\ y.owed \in Nat
    BY FitsLength DEF Fits, Loads
<1>5. PICK h, k, p, e, d, w \in Nat :
          /\ h = Head(s).size /\ k = SizeOf(q) /\ p = x.owed /\ e = y.owed /\ d = Len(s)
          /\ SizeOf(s) = h + k /\ Len(q) = d - 1 /\ y.depth = d /\ a = SizeOf(s) + p
          /\ w = v.size /\ w + e = h + p
    BY <1>2, <1>4
<1>6. a = (w + k) + e /\ (d - 1) + 1 = d
  <2>1. a = (h + k) + p /\ w + e = h + p
    BY <1>5
  <2>2. (h + k) + p = (w + k) + e
    BY <2>1
  <2>. QED  BY <2>1, <2>2
<1>7. a = SizeOf(r) + y.owed /\ y.depth = Len(r)
    BY <1>3, <1>5, <1>6
<1>. QED  BY <1>1, <1>3, <1>7 DEF Fits

\* The tag of an Option that has a value is taken off.
LEMMA FitsTag ==
    ASSUME NEW x, NEW s, NEW a, Fits(x, s, a), x.depth >= 1, x.unit = 1
    PROVE  Fits(Load(x.depth - 1, 0, x.owed + 1), Tail(s), a)
<1>1. PICK q : q = Tail(s)
    OBVIOUS
<1>2. /\ Sized(q) /\ SizeOf(q) \in Nat /\ SizeOf(s) = Head(s).size + SizeOf(q) /\ Len(q) = Len(s) - 1
    BY <1>1, FitsLength, SizedHead
<1>3. x.owed \in Nat /\ Len(s) = x.depth /\ x.depth \in Nat /\ a = SizeOf(s) + x.owed /\ Head(s).size = 1
    BY FitsLength DEF Fits
<1>4. x.depth - 1 \in Nat /\ x.owed + 1 \in Nat
    BY <1>3
<1>5. PICK y \in Loads : /\ y = Load(x.depth - 1, 0, x.owed + 1)
                         /\ y.depth = x.depth - 1 /\ y.unit = 0 /\ y.owed = x.owed + 1
    BY <1>4, LoadsAre
<1>7. PICK k, p, d \in Nat :
          /\ k = SizeOf(q) /\ p = x.owed /\ d = Len(s)
          /\ SizeOf(s) = 1 + k /\ Len(q) = d - 1 /\ y.depth = d - 1 /\ a = SizeOf(s) + p
          /\ y.owed = p + 1
    BY <1>2, <1>3, <1>5
<1>6. a = SizeOf(q) + y.owed /\ y.depth = Len(q)
  <2>1. a = k + (p + 1)
    BY <1>7, SMTT(30)
  <2>. QED  BY <1>7, <2>1
<1>. QED  BY <1>1, <1>2, <1>5, <1>6 DEF Fits

\* The last n values become one that has their sizes.
LEMMA FitsCollected ==
    ASSUME NEW x, NEW s, NEW a, Fits(x, s, a), NEW n \in Nat, x.depth >= n, NEW y \in Loads,
           y.depth = (x.depth - n) + 1, y.unit = 0, y.owed = x.owed,
           NEW v, v.size = SizeOf([i \in 1..n |-> s[n + 1 - i]])
    PROVE  Fits(y, <<v>> \o SubSeq(s, n + 1, Len(s)), a)
<1>1. PICK q, r : q = SubSeq(s, n + 1, Len(s)) /\ r = <<v>> \o q
    OBVIOUS
<1>2. x.owed \in Nat /\ Len(s) = x.depth /\ x.depth \in Nat /\ a = SizeOf(s) + x.owed /\ Sized(s)
    BY FitsLength DEF Fits
<1>3. /\ Sized(q) /\ Len(q) = Len(s) - n /\ v.size \in Nat /\ SizeOf(q) \in Nat
      /\ SizeOf(s) = v.size + SizeOf(q)
  <2>1. PICK items : items = [i \in 1..n |-> s[n + 1 - i]]
    OBVIOUS
  <2>2. n <= Len(s)
    BY <1>2
  <2>3. /\ Sized(q) /\ Len(q) = Len(s) - n /\ SizeOf(items) \in Nat /\ SizeOf(q) \in Nat
        /\ SizeOf(s) = SizeOf(items) + SizeOf(q)
    BY <1>1, <1>2, <2>1, <2>2, SizedCollected
  <2>. QED  BY <2>1, <2>3
<1>4. Sized(r) /\ SizeOf(r) = v.size + SizeOf(q) /\ Len(r) = Len(q) + 1
    BY <1>1, <1>3, SizedMore
<1>5. a = SizeOf(r) + y.owed /\ y.depth = Len(r)
    BY <1>2, <1>3, <1>4
<1>. QED  BY <1>1, <1>4, <1>5 DEF Fits

\* The read of a type is a path to one value.
LEMMA ReadLeads ==
    ASSUME NEW t \in Types
    PROVE  /\ <<Task("read", t)>> \in Seq(Tasks)
           /\ Path(Handling(t.fragile), <<Task("read", t)>>, Load(0, 0, 0), Load(1, 0, 0))
<1>1. PICK c \in Tasks : c = Task("read", t)
    BY TasksAre DEF Ops
<1>2. PICK x \in Loads : x = Load(0, 0, 0) /\ x.depth = 0 /\ x.owed = 0
    BY LoadsAre
<1>3. PICK y : y = Load(1, 0, 0) /\ y = Load(x.depth + 1, 0, x.owed)
    BY <1>2
<1>4. <<c, x, y>> \in Handling(t.fragile)
    BY <1>1, <1>3, ReadsMore
<1>5. Path(Handling(t.fragile), <<c>>, x, y)
    BY <1>4, PathOne
<1>. QED  BY <1>1, <1>2, <1>3, <1>5

\* The next call of the reader: what it is, and that the others lead on from it.
LEMMA NextCall ==
    ASSUME ReadAccounts, tasks # <<>>
    PROVE  \E c \in Tasks, x, y \in Loads :
               /\ c = Head(tasks) /\ Fits(x, stack, at) /\ Handles(type.fragile, c, x, y)
               /\ <<c, x, y>> \in Handling(type.fragile)
               /\ Tail(tasks) \in Seq(Tasks)
               /\ Path(Handling(type.fragile), Tail(tasks), y, Load(1, 0, 0))
<1>1. PICK x : Fits(x, stack, at) /\ Path(Handling(type.fragile), tasks, x, Load(1, 0, 0))
    BY DEF ReadAccounts
<1>2. tasks \in Seq(Tasks)
    BY DEF ReadAccounts
<1>3. Head(tasks) \in Tasks /\ Tail(tasks) \in Seq(Tasks)
    BY <1>2, HeadThenTail
<1>4. PICK R : R = Handling(type.fragile)
    OBVIOUS
<1>5. PICK y : <<Head(tasks), x, y>> \in R /\ Path(R, Tail(tasks), y, Load(1, 0, 0))
    BY <1>1, <1>2, <1>4, PathFirst
<1>6. PICK c : c = Head(tasks)
    OBVIOUS
<1>7. c \in Tasks /\ x \in Loads /\ y \in Loads /\ Handles(type.fragile, c, x, y)
    BY <1>4, <1>5, <1>6, Handled
<1>. QED  BY <1>1, <1>3, <1>4, <1>5, <1>6, <1>7

\* Calls put before those that are left.
LEMMA CallsBefore ==
    ASSUME NEW R, NEW calls \in Seq(Tasks), NEW rest \in Seq(Tasks), NEW x, NEW y, NEW z,
           Path(R, calls, x, y), Path(R, rest, y, z)
    PROVE  calls \o rest \in Seq(Tasks) /\ Path(R, calls \o rest, x, z)
BY PathConcat, ConcatProperties

\* No call before the rest is the rest.
LEMMA NoCallsBefore == ASSUME NEW rest \in Seq(Tasks) PROVE <<>> \o rest = rest
BY ConcatEmptySeq

\* read_exact.
LEMMA ReadBytesAccounts ==
    ASSUME SizesAccounted, ReadBytes PROVE SizesAccounted'
<1>1. step = "read" /\ tasks # <<>> /\ ReadAccounts /\ type \in Types
    BY DEF ReadBytes, Reading, SizesAccounted
<1>2. PICK c \in Tasks, x \in Loads, y \in Loads :
          /\ c = Head(tasks) /\ Fits(x, stack, at) /\ Handles(type.fragile, c, x, y)
          /\ <<c, x, y>> \in Handling(type.fragile)
          /\ Tail(tasks) \in Seq(Tasks)
          /\ Path(Handling(type.fragile), Tail(tasks), y, Load(1, 0, 0))
    BY <1>1, NextCall
<1>3. c.op = "read" /\ c.of.kind \in {"int", "bytes"} /\ type' = type
    BY <1>2 DEF ReadBytes, Reading, Then
<1>4. y.depth = x.depth + 1 /\ y.owed = x.owed /\ (y.unit = 1 => c.of \in {IntType(1), BoolType})
    BY <1>2, <1>3 DEF Handles
<1>5. PICK t \in Types, w \in Nat : t = c.of /\ w = t.width /\ (t = IntType(1) => w = 1) /\ t # BoolType
  <2>1. c.of \in Types
    BY DEF Tasks
  <2>2. c.of.kind \in {"int", "bytes"} /\ c.of # BoolType
    BY <1>3, ByteKinds
  <2>3. \A u : OptionOf(u).kind = "option" /\ Owned(u).kind = "owned"
    BY DEF OptionOf, Owned, Type
  <2>4. \A n, u : ArrayOf(n, u).kind = "array" /\ PairOf(n, u).kind = "tuple"
    BY DEF ArrayOf, PairOf, Type
  <2>5. \A w : IntType(w).width = w /\ BytesType(w).width = w
    BY DEF IntType, BytesType, Type
  <2>6. \E w \in Nat : c.of = IntType(w) \/ c.of = BytesType(w)
    <3>. PICK u \in Types : u = c.of
        BY <2>1
    <3>1. u.kind \in {"int", "bytes"} /\ u # BoolType
        BY <2>2
    <3>. QED  BY <2>3, <2>4, <3>1, TypeCases
  <2>7. c.of.width \in Nat
    BY <2>5, <2>6
  <2>8. c.of = IntType(1) => c.of.width = 1
    BY <2>5
  <2>. QED  BY <2>1, <2>2, <2>7, <2>8
<1>6. CASE at + w <= Len(stream)
  <2>1. PICK v : v.size = w /\ stack' = <<v>> \o stack
    <3>1. PICK v : /\ v = IF c.of.kind = "int" THEN IntValue(c.of.width, FromBigEndian(Take(c.of.width)))
                          ELSE Value("bytes", c.of.width, <<Take(c.of.width)>>, c.of.width)
                   /\ stack' = <<v>> \o stack
        BY <1>2, <1>5, <1>6 DEF ReadBytes, Then
    <3>2. v.size = c.of.width
        BY <3>1 DEF IntValue, Value
    <3>. QED  BY <1>5, <3>1, <3>2
  <2>2. at' = at + w /\ tasks' = <<>> \o Tail(tasks) /\ step' = step /\ junk' = junk
    BY <1>2, <1>5, <1>6 DEF ReadBytes, Then
  <2>3. tasks' = Tail(tasks)
    BY <1>2, <2>2, NoCallsBefore
  <2>4. y.unit = 1 => w = 1
    BY <1>4, <1>5
  <2>5. Fits(y, <<v>> \o stack, at + w)
    BY <1>2, <1>4, <2>1, <2>4, FitsRead
  <2>6. ReadAccounts'
    BY <1>2, <1>3, <2>1, <2>2, <2>3, <2>5 DEF ReadAccounts
  <2>. QED  BY <1>1, <1>3, <2>2, <2>6 DEF SizesAccounted
<1>7. CASE ~(at + w <= Len(stream))
  <2>1. step' = "eof" /\ junk' = (junk \/ Unfilled)
    BY <1>2, <1>5, <1>7 DEF ReadBytes
  <2>2. Unfilled => type.fragile
    <3>1. SUFFICES ASSUME NEW i \in DOMAIN tasks, tasks[i].op = "assign", tasks[i].of.owns
                   PROVE  type.fragile
        BY DEF Unfilled
    <3>2. PICK z : Path(Handling(type.fragile), tasks, z, Load(1, 0, 0)) /\ tasks \in Seq(Tasks)
        BY <1>1 DEF ReadAccounts
    <3>3. i \in 1..Len(tasks)
        BY <3>2
    <3>4. PICK p, q : <<tasks[i], p, q>> \in Handling(type.fragile)
        BY <3>2, <3>3, PathCalls
    <3>5. Handles(type.fragile, tasks[i], p, q)
        BY <3>4, Handled
    <3>. QED  BY <3>1, <3>5 DEF Handles
  <2>3. junk' => type.fragile
    BY <2>1, <2>2 DEF SizesAccounted
  <2>. QED  BY <1>1, <1>3, <2>1, <2>3 DEF SizesAccounted
<1>. QED  BY <1>6, <1>7

\* A composed type is read by the calls it makes.
LEMMA ReadComposedAccounts ==
    ASSUME SizesAccounted, ReadComposed PROVE SizesAccounted'
<1>1. step = "read" /\ tasks # <<>> /\ ReadAccounts /\ type \in Types
    BY DEF ReadComposed, Reading, SizesAccounted
<1>2. PICK c \in Tasks, x \in Loads, y \in Loads :
          /\ c = Head(tasks) /\ Fits(x, stack, at) /\ Handles(type.fragile, c, x, y)
          /\ <<c, x, y>> \in Handling(type.fragile)
          /\ Tail(tasks) \in Seq(Tasks)
          /\ Path(Handling(type.fragile), Tail(tasks), y, Load(1, 0, 0))
    BY <1>1, NextCall
<1>3. /\ c.op = "read" /\ c.of.kind \notin {"int", "bytes"}
      /\ tasks' = Calls(c.of) \o Tail(tasks) /\ stack' = stack
      /\ type' = type /\ step' = step /\ at' = at /\ junk' = junk
    BY <1>2 DEF ReadComposed, Reading, Then
<1>4. PICK t \in Types : t = c.of /\ c = Task("read", t)
    BY <1>3 DEF Tasks, Task
<1>5. /\ Calls(t) \in Seq(Tasks)
      /\ Path(Handling(type.fragile), Calls(t), x, y)
    BY <1>2, <1>3, <1>4, CallsHandle
<1>6. /\ Calls(t) \o Tail(tasks) \in Seq(Tasks)
      /\ Path(Handling(type.fragile), Calls(t) \o Tail(tasks), x, Load(1, 0, 0))
    BY <1>2, <1>5, CallsBefore
<1>7. ReadAccounts'
    BY <1>2, <1>3, <1>4, <1>6 DEF ReadAccounts
<1>. QED  BY <1>1, <1>3, <1>7 DEF SizesAccounted

\* The last call is done when its value is on top.
LEMMA AccountsGoOn ==
    ASSUME SizesAccounted, step = "read", NEW x, Tail(tasks) \in Seq(Tasks),
           Path(Handling(type.fragile), Tail(tasks), x, Load(1, 0, 0)),
           type' = type, step' = step, at' = at, tasks' = <<>> \o Tail(tasks),
           Fits(x, stack', at), junk' => type.fragile
    PROVE  SizesAccounted'
<1>1. tasks' = Tail(tasks)
    BY NoCallsBefore
<1>2. ReadAccounts'
    BY <1>1 DEF ReadAccounts
<1>. QED  BY <1>2 DEF SizesAccounted

\* An array or a tuple is as large as its items.
LEMMA ManySize == ASSUME NEW kind, NEW items PROVE ManyValue(kind, items).size = SizeOf(items)
BY DEF ManyValue, Value

\* A bool, from its byte.
LEMMA ReadNonzeroAccounts ==
    ASSUME SizesAccounted, ReadNonzero PROVE SizesAccounted'
<1>1. step = "read" /\ tasks # <<>> /\ ReadAccounts
    BY DEF ReadNonzero, Reading, SizesAccounted
<1>2. PICK c \in Tasks, x \in Loads, y \in Loads :
          /\ c = Head(tasks) /\ Fits(x, stack, at) /\ Handles(type.fragile, c, x, y)
          /\ <<c, x, y>> \in Handling(type.fragile)
          /\ Tail(tasks) \in Seq(Tasks)
          /\ Path(Handling(type.fragile), Tail(tasks), y, Load(1, 0, 0))
    BY <1>1, NextCall
<1>3. x.depth >= 1 /\ x.unit = 1 /\ y.depth = x.depth /\ y.owed = x.owed
    BY <1>2 DEF ReadNonzero, Reading, Handles
<1>4. PICK v : v = BoolValue(Truth(Head(stack).n)) /\ v.size = 1
    BY BoolWrites
<1>5. /\ tasks' = <<>> \o Tail(tasks) /\ stack' = <<v>> \o Tail(stack)
      /\ type' = type /\ step' = step /\ at' = at /\ junk' = junk
    BY <1>4 DEF ReadNonzero, Then
<1>6. Head(stack).size = 1
    BY <1>2, <1>3 DEF Fits
<1>7. v.size + y.owed = Head(stack).size + x.owed
    BY <1>3, <1>4, <1>6
<1>8. v.size \in Nat
    BY <1>4
<1>9. Fits(y, <<v>> \o Tail(stack), at)
    BY <1>2, <1>3, <1>4, <1>7, <1>8, FitsTop
<1>10. junk' => type.fragile
    BY <1>5 DEF SizesAccounted
<1>. QED  BY <1>1, <1>2, <1>5, <1>9, <1>10, AccountsGoOn

\* None, or the value of a Some is next.
LEMMA ReadOptionAccounts ==
    ASSUME SizesAccounted, ReadOption PROVE SizesAccounted'
<1>1. step = "read" /\ tasks # <<>> /\ ReadAccounts
    BY DEF ReadOption, Reading, SizesAccounted
<1>2. PICK c \in Tasks, x \in Loads, y \in Loads :
          /\ c = Head(tasks) /\ Fits(x, stack, at) /\ Handles(type.fragile, c, x, y)
          /\ <<c, x, y>> \in Handling(type.fragile)
          /\ Tail(tasks) \in Seq(Tasks)
          /\ Path(Handling(type.fragile), Tail(tasks), y, Load(1, 0, 0))
    BY <1>1, NextCall
<1>3. /\ x.depth >= 1 /\ x.unit = 1 /\ y.depth = x.depth /\ y.owed = x.owed /\ y.unit = 0
      /\ \E u \in Types : c.of = OptionOf(u) /\ (u.fragile => type.fragile)
    BY <1>2 DEF ReadOption, Reading, Handles
<1>4. Head(stack).size = 1
    BY <1>2, <1>3 DEF Fits
<1>5. type' = type /\ step' = step /\ at' = at /\ junk' = junk
    BY DEF ReadOption, Then
<1>6. junk' => type.fragile
    BY <1>5 DEF SizesAccounted
<1>7. CASE Head(stack).n = 0
  <2>1. PICK v : v = NoneValue /\ v.size = 1
    BY NoneWrites
  <2>2. tasks' = <<>> \o Tail(tasks) /\ stack' = <<v>> \o Tail(stack)
    BY <1>7, <2>1 DEF ReadOption, Then
  <2>3. v.size + y.owed = Head(stack).size + x.owed
    BY <1>3, <1>4, <2>1
  <2>4. v.size \in Nat
    BY <2>1
  <2>5. Fits(y, <<v>> \o Tail(stack), at)
    BY <1>2, <1>3, <2>1, <2>3, <2>4, FitsTop
  <2>. QED  BY <1>1, <1>2, <1>5, <1>6, <2>2, <2>5, AccountsGoOn
<1>8. CASE Head(stack).n # 0
  <2>1. PICK u \in Types : c.of = OptionOf(u) /\ (u.fragile => type.fragile)
    BY <1>3
  <2>2. OptionOf(u).of[1] = u /\ OptionOf(u) \in Types
    BY <2>1 DEF OptionOf, Type, Tasks
  <2>3. PICK a \in Tasks, b \in Tasks :
            a = Task("read", u) /\ b = Task("wrap", c.of) /\ b.op = "wrap"
    BY <2>1, <2>2, TasksAre DEF Ops
  <2>4. tasks' = <<a, b>> \o Tail(tasks) /\ stack' = Tail(stack)
    BY <1>2, <1>8, <2>1, <2>2, <2>3 DEF ReadOption, Then
  <2>5. PICK d, o \in Nat : x.depth = d + 1 /\ o = x.owed
    <3>1. x.depth \in Nat /\ x.owed \in Nat /\ x.depth - 1 \in Nat
        BY <1>3 DEF Loads
    <3>. QED  BY <3>1
  <2>6. x.depth - 1 = d
    BY <2>5
  <2>7. PICK w \in Loads : w = Load(d, 0, o + 1) /\ w.depth = d /\ w.owed = o + 1
    BY LoadsAre
  <2>8. Fits(w, stack', at)
    <3>1. Fits(Load(x.depth - 1, 0, x.owed + 1), Tail(stack), at)
        BY <1>2, <1>3, FitsTag
    <3>. QED  BY <2>4, <2>5, <2>6, <2>7, <3>1
  <2>9. PICK z \in Loads : z = Load(w.depth + 1, 0, w.owed) /\ z.depth = d + 1 /\ z.owed = o + 1
    BY <2>7, LoadsAre
  <2>10. PICK R : R = Handling(type.fragile)
    OBVIOUS
  <2>11. <<a, w, z>> \in R
    BY <2>1, <2>3, <2>7, <2>9, <2>10, ReadsMore
  <2>12. Handles(type.fragile, b, z, y)
    BY <1>3, <2>3, <2>5, <2>9 DEF Handles
  <2>13. <<b, z, y>> \in R
    BY <2>3, <2>9, <2>10, <2>12, Handled
  <2>14. Path(R, <<a>>, w, z) /\ Path(R, <<b>>, z, y)
    BY <2>11, <2>13, PathOne
  <2>15. <<a>> \in Seq(Tasks) /\ <<b>> \in Seq(Tasks) /\ <<a, b>> \in Seq(Tasks)
    BY <2>3
  <2>16. Path(R, <<a, b>>, w, y)
    BY <2>14, <2>15, PathConcat, Concats
  <2>17. /\ <<a, b>> \o Tail(tasks) \in Seq(Tasks)
         /\ Path(R, <<a, b>> \o Tail(tasks), w, Load(1, 0, 0))
    BY <1>2, <2>10, <2>15, <2>16, CallsBefore
  <2>18. ReadAccounts'
    BY <1>5, <2>4, <2>8, <2>10, <2>17 DEF ReadAccounts
  <2>. QED  BY <1>1, <1>5, <1>6, <2>18 DEF SizesAccounted
<1>. QED  BY <1>7, <1>8

\* Some.
LEMMA WrapSomeAccounts ==
    ASSUME SizesAccounted, WrapSome PROVE SizesAccounted'
<1>1. step = "read" /\ tasks # <<>> /\ ReadAccounts
    BY DEF WrapSome, Reading, SizesAccounted
<1>2. PICK c \in Tasks, x \in Loads, y \in Loads :
          /\ c = Head(tasks) /\ Fits(x, stack, at) /\ Handles(type.fragile, c, x, y)
          /\ <<c, x, y>> \in Handling(type.fragile)
          /\ Tail(tasks) \in Seq(Tasks)
          /\ Path(Handling(type.fragile), Tail(tasks), y, Load(1, 0, 0))
    BY <1>1, NextCall
<1>3. x.depth >= 1 /\ x.owed = y.owed + 1 /\ y.depth = x.depth /\ y.unit = 0
    BY <1>2 DEF WrapSome, Reading, Handles
<1>4. PICK v : v = SomeValue(Head(stack)) /\ v.size = 1 + Head(stack).size
    BY SomeWrites
<1>5. /\ tasks' = <<>> \o Tail(tasks) /\ stack' = <<v>> \o Tail(stack)
      /\ type' = type /\ step' = step /\ at' = at /\ junk' = junk
    BY <1>4 DEF WrapSome, Then
<1>6. Head(stack).size \in Nat
    BY <1>2, <1>3, FitsLength, SizedHead
<1>7. y.owed \in Nat
    BY DEF Loads
<1>8. v.size \in Nat /\ v.size + y.owed = Head(stack).size + x.owed
    BY <1>3, <1>4, <1>6, <1>7
<1>9. Fits(y, <<v>> \o Tail(stack), at)
    BY <1>2, <1>3, <1>8, FitsTop
<1>10. junk' => type.fragile
    BY <1>5 DEF SizesAccounted
<1>. QED  BY <1>1, <1>2, <1>5, <1>9, <1>10, AccountsGoOn

\* An item goes into its slot.
LEMMA AssignItemAccounts ==
    ASSUME SizesAccounted, AssignItem PROVE SizesAccounted'
<1>1. step = "read" /\ tasks # <<>> /\ ReadAccounts
    BY DEF AssignItem, Reading, SizesAccounted
<1>2. PICK c \in Tasks, x \in Loads, y \in Loads :
          /\ c = Head(tasks) /\ Fits(x, stack, at) /\ Handles(type.fragile, c, x, y)
          /\ <<c, x, y>> \in Handling(type.fragile)
          /\ Tail(tasks) \in Seq(Tasks)
          /\ Path(Handling(type.fragile), Tail(tasks), y, Load(1, 0, 0))
    BY <1>1, NextCall
<1>3. c.of.owns => type.fragile
    BY <1>2 DEF AssignItem, Reading, Handles
<1>4. y.depth = x.depth /\ y.owed = x.owed /\ y.unit = 0
    BY <1>2 DEF AssignItem, Reading, Handles
<1>5. /\ tasks' = <<>> \o Tail(tasks) /\ stack' = stack
      /\ type' = type /\ step' = step /\ at' = at /\ junk' = (junk \/ c.of.owns)
    BY <1>2 DEF AssignItem, Then, Drops
<1>6. Fits(y, stack', at)
    BY <1>2, <1>4, <1>5 DEF Fits
<1>7. junk' => type.fragile
    BY <1>3, <1>5 DEF SizesAccounted
<1>. QED  BY <1>1, <1>2, <1>5, <1>6, <1>7, AccountsGoOn

\* An array or a tuple is complete.
LEMMA CollectAccounts ==
    ASSUME SizesAccounted, Collect PROVE SizesAccounted'
<1>1. step = "read" /\ tasks # <<>> /\ ReadAccounts
    BY DEF Collect, Reading, SizesAccounted
<1>2. PICK c \in Tasks, x \in Loads, y \in Loads :
          /\ c = Head(tasks) /\ Fits(x, stack, at) /\ Handles(type.fragile, c, x, y)
          /\ <<c, x, y>> \in Handling(type.fragile)
          /\ Tail(tasks) \in Seq(Tasks)
          /\ Path(Handling(type.fragile), Tail(tasks), y, Load(1, 0, 0))
    BY <1>1, NextCall
<1>3. /\ c.of.width \in Nat /\ x.depth >= c.of.width
      /\ y.depth = (x.depth - c.of.width) + 1 /\ y.owed = x.owed /\ y.unit = 0
    BY <1>2 DEF Collect, Reading, Handles
<1>4. PICK n \in Nat : n = c.of.width
    BY <1>3
<1>5. PICK v : v = ManyValue(c.of.kind, Collected(n)) /\ v.size = SizeOf(Collected(n))
    BY ManySize
<1>6. /\ tasks' = <<>> \o Tail(tasks) /\ stack' = <<v>> \o SubSeq(stack, n + 1, Len(stack))
      /\ type' = type /\ step' = step /\ at' = at /\ junk' = junk
    BY <1>2, <1>4, <1>5 DEF Collect, Then
<1>7. v.size = SizeOf([i \in 1..n |-> stack[n + 1 - i]])
    BY <1>5 DEF Collected
<1>8. Fits(y, <<v>> \o SubSeq(stack, n + 1, Len(stack)), at)
    BY <1>2, <1>3, <1>4, <1>7, FitsCollected
<1>9. junk' => type.fragile
    BY <1>6 DEF SizesAccounted
<1>. QED  BY <1>1, <1>2, <1>6, <1>8, <1>9, AccountsGoOn

\* The value is there.
LEMMA BodyReadAccounts ==
    ASSUME SizesAccounted, BodyRead PROVE SizesAccounted'
<1>1. step = "read" /\ tasks = <<>> /\ ReadAccounts /\ step' = "done"
      /\ type' = type /\ at' = at /\ junk' = junk /\ stack' = stack
    BY DEF BodyRead, SizesAccounted
<1>2. PICK x : Fits(x, stack, at) /\ Path(Handling(type.fragile), <<>>, x, Load(1, 0, 0))
    BY <1>1 DEF ReadAccounts
<1>3. x = Load(1, 0, 0)
    BY <1>2, PathNone
<1>4. x.depth = 1 /\ x.owed = 0
    BY <1>3 DEF Load
<1>5. Sized(stack) /\ Len(stack) = 1 /\ stack # <<>> /\ SizeOf(stack) \in Nat
  <2>1. PICK s, a : s = stack /\ a = at
    OBVIOUS
  <2>2. Fits(x, s, a)
    BY <1>2, <2>1
  <2>3. Sized(s) /\ Len(s) = x.depth /\ SizeOf(s) \in Nat /\ (x.depth >= 1 => s # <<>>)
    BY <2>2, FitsLength
  <2>. QED  BY <1>4, <2>1, <2>3
<1>6. at = SizeOf(stack)
    BY <1>2, <1>4, <1>5 DEF Fits
<1>7. PICK h, r : h = Head(stack) /\ r = Tail(stack)
    OBVIOUS
<1>9. Sized(r) /\ Len(r) = Len(stack) - 1 /\ SizeOf(stack) = h.size + SizeOf(r) /\ h.size \in Nat
    BY <1>5, <1>7, SizedHead
<1>10. Len(r) = 0
    BY <1>5, <1>9
<1>11. SizeOf(r) = 0
  <2>1. r = <<>>
    BY <1>9, <1>10, EmptySeq DEF Sized
  <2>. QED  BY <2>1, SizeOfNone
<1>8. at = Head(stack).size
    BY <1>6, <1>7, <1>9, <1>11
<1>. QED  BY <1>1, <1>8 DEF SizesAccounted

-----------------------------------------------------------------------------
\* to_writer: what is written and what is left are the size.
LEMMA WriteValueAccounts ==
    ASSUME SizesAccounted, WriteValue PROVE SizesAccounted'
<1>1. /\ step = "write" /\ tasks # <<>> /\ stack = <<>> /\ at \in Nat
      /\ tasks \in Seq(AllValues) /\ body.size = at + SizeOf(tasks)
    BY DEF WriteValue, SizesAccounted
<1>2. PICK v \in AllValues, r \in Seq(AllValues) :
          v = Head(tasks) /\ r = Tail(tasks) /\ tasks = <<v>> \o r
    BY <1>1, HeadThenTail
<1>3. /\ at' = at + Len(Direct(v)) /\ tasks' = Parts(v) \o r
      /\ UNCHANGED <<type, body, stack, step, junk>>
    BY <1>2 DEF WriteValue
<1>4. /\ Direct(v) \in Seq(Nat) /\ Parts(v) \in Seq(AllValues)
      /\ v.size = Len(Direct(v)) + SizeOf(Parts(v))
    BY WritesItsSize
<1>5. PICK p : p = Parts(v)
    OBVIOUS
<1>6. p \o r \in Seq(AllValues) /\ SizeOf(p \o r) = SizeOf(p) + SizeOf(r)
      /\ SizeOf(p) \in Nat /\ SizeOf(r) \in Nat
    BY <1>4, <1>5, ValuesSized, SizedConcat, ConcatProperties
<1>7. SizeOf(tasks) = v.size + SizeOf(r)
    BY <1>2, ValueSized, ValuesSized, SizedMore
<1>8. PICK l \in Nat : l = Len(Direct(v))
    BY <1>4, LenProperties
<1>9. /\ at' \in Nat /\ tasks' \in Seq(AllValues) /\ body'.size = at' + SizeOf(tasks')
  <2>1. body.size = at + ((l + SizeOf(p)) + SizeOf(r))
    BY <1>1, <1>4, <1>5, <1>7, <1>8
  <2>2. at' = at + l /\ SizeOf(tasks') = SizeOf(p) + SizeOf(r)
    BY <1>3, <1>5, <1>6, <1>8
  <2>. QED  BY <1>1, <1>3, <1>5, <1>6, <2>1, <2>2
<1>. QED  BY <1>1, <1>3, <1>9 DEF SizesAccounted

\* The value is sent, all of it written.
LEMMA BodySentAccounts ==
    ASSUME SizesAccounted, BodySent PROVE SizesAccounted'
<1>1. /\ step = "write" /\ stack = <<>> /\ type \in Types
      /\ at' = 0 /\ step' = "read" /\ tasks' = <<Task("read", type)>>
      /\ type' = type /\ stack' = stack /\ junk' = junk
    BY DEF BodySent, SizesAccounted
<1>2. ReadAccounts'
    BY <1>1, FitsNothing, ReadLeads DEF ReadAccounts
<1>. QED  BY <1>1, <1>2 DEF SizesAccounted

\* A body begins, with a value to write or with bytes of a peer.
LEMMA BodyBeginAccounts ==
    ASSUME SizesAccounted, BodyBegin PROVE SizesAccounted'
<1>1. /\ step = "none" /\ stack = <<>> /\ at = 0 /\ ~junk
      /\ stack' = <<>> /\ at' = 0 /\ junk' = junk
    BY DEF BodyBegin, SizesAccounted
<1>2. PICK shape \in Shapes :
          /\ type' = shape.type
          /\ \/ \E v \in shape.values :
                    body' = v /\ tasks' = <<v>> /\ stream' = <<>> /\ step' = "write"
             \/ body' = Nothing /\ tasks' = <<Task("read", shape.type)>> /\ step' = "read"
    BY DEF BodyBegin
<1>3. shape.type \in Types
    BY DEF Types
<1>4. ASSUME NEW v \in shape.values, body' = v, tasks' = <<v>>, step' = "write"
      PROVE  SizesAccounted'
  <2>1. v \in AllValues
    BY AmongValues
  <2>2. v.size \in Nat /\ SizeOf(<<v>>) = v.size /\ <<v>> \in Seq(AllValues)
    BY <2>1, ValueSized, SizedOne
  <2>3. body'.size = at' + SizeOf(tasks')
    BY <1>1, <1>4, <2>2
  <2>. QED  BY <1>1, <1>2, <1>3, <1>4, <2>2, <2>3 DEF SizesAccounted
<1>5. ASSUME tasks' = <<Task("read", shape.type)>>, step' = "read" PROVE SizesAccounted'
  <2>1. ReadAccounts'
    BY <1>1, <1>2, <1>3, <1>5, FitsNothing, ReadLeads DEF ReadAccounts
  <2>. QED  BY <1>1, <1>2, <1>3, <1>5, <2>1 DEF SizesAccounted
<1>. QED  BY <1>2, <1>4, <1>5

\* The invariant holds before a body, and no step of a body ends it.
LEMMA NoBodyAccounts == BodyNone => SizesAccounted
BY DEF BodyNone, SizesAccounted, Types

\* Every step of a body keeps its sizes in account.
LEMMA BodyAccounts ==
    ASSUME SizesAccounted, BodyBegin \/ BodyStep \/ UNCHANGED bodyVars
    PROVE  SizesAccounted'
<1>1. CASE UNCHANGED bodyVars
    BY <1>1 DEF bodyVars, SizesAccounted, ReadAccounts
<1>2. CASE BodyBegin
    BY <1>2, BodyBeginAccounts
<1>3. CASE BodyStep
    BY <1>3, WriteValueAccounts, BodySentAccounts, ReadBytesAccounts, ReadComposedAccounts,
       ReadNonzeroAccounts, ReadOptionAccounts, WrapSomeAccounts, AssignItemAccounts,
       CollectAccounts, BodyReadAccounts DEF BodyStep
<1>. QED  BY <1>1, <1>2, <1>3

\* What the invariant is for.
LEMMA AccountsSuffice == SizesAccounted => DropsOnlyOwners /\ BodySizeIsExact
<1>. SUFFICES ASSUME SizesAccounted PROVE DropsOnlyOwners /\ BodySizeIsExact
    OBVIOUS
<1>1. DropsOnlyOwners
    BY DEF SizesAccounted, DropsOnlyOwners
<1>2. ASSUME step = "write", tasks = <<>> PROVE at = body.size
    BY <1>2, SizeOfNone DEF SizesAccounted
<1>3. ASSUME step = "done" PROVE at = Head(stack).size
    BY <1>3 DEF SizesAccounted
<1>. QED  BY <1>1, <1>2, <1>3 DEF BodySizeIsExact

-----------------------------------------------------------------------------
(* from_reader of what to_writer wrote. *)

\* A sequence with one in front.
LEMMA InFront ==
    ASSUME NEW S, NEW a \in S, NEW r \in Seq(S)
    PROVE  /\ <<a>> \o r \in Seq(S) /\ <<a>> \o r # <<>>
           /\ Head(<<a>> \o r) = a /\ Tail(<<a>> \o r) = r
<1>1. PICK q : q = <<a>> \o r
    OBVIOUS
<1>2. <<a>> \in Seq(S) /\ Len(<<a>>) = 1 /\ <<a>>[1] = a /\ Len(r) \in Nat
    BY LenProperties
<1>3. /\ q \in Seq(S) /\ Len(q) = 1 + Len(r)
      /\ \A i \in 1..(1 + Len(r)) : q[i] = IF i <= 1 THEN <<a>>[i] ELSE r[i - 1]
    BY <1>1, <1>2, ConcatProperties
<1>4. q # <<>> /\ Head(q) = a
    BY <1>2, <1>3
<1>5. PICK t \in Seq(S) : t = Tail(q) /\ q = <<a>> \o t
    BY <1>3, <1>4, HeadThenTail
<1>6. t = r
  <2>1. Len(t) = Len(q) - 1 /\ \A i \in 1..Len(t) : t[i] = q[i + 1]
    BY <1>3, <1>4, <1>5
  <2>2. Len(t) = Len(r)
    BY <1>2, <1>3, <2>1
  <2>3. ASSUME NEW i \in 1..Len(r) PROVE t[i] = r[i]
    <3>1. i + 1 \in 1..(1 + Len(r)) /\ ~(i + 1 <= 1) /\ (i + 1) - 1 = i
        BY <1>2
    <3>2. q[i + 1] = r[(i + 1) - 1]
        BY <1>3, <3>1
    <3>. QED  BY <2>1, <2>2, <3>1, <3>2
  <2>. QED  BY <1>5, <2>2, <2>3, SeqEqual
<1>. QED  BY <1>1, <1>3, <1>4, <1>5, <1>6

\* One in front of a concatenation is in front of its first part.
LEMMA InFrontFirst ==
    ASSUME NEW a \in AllValues, NEW r \in Seq(AllValues), NEW s \in Seq(AllValues),
           NEW q, q = <<a>> \o r
    PROVE  q \o s = <<a>> \o (r \o s)
<1>1. <<a>> \in Seq(AllValues)
    OBVIOUS
<1>2. PICK h \in Seq(AllValues) : h = <<a>>
    BY <1>1
<1>3. (h \o r) \o s = h \o (r \o s)
    BY ConcatAssociative
<1>. QED  BY <1>2, <1>3

\* The first k of some values as they lie on the stack, and those after them.
Upturned(items, k) == [i \in 1..k |-> items[k + 1 - i]]
After(items, k) == SubSeq(items, k + 1, Len(items))

\* One item more upturned is one less after it.
LEMMA UpturnedNext ==
    ASSUME NEW S, NEW items \in Seq(S), NEW k \in 1..Len(items)
    PROVE  /\ items[k] \in S
           /\ Upturned(items, k - 1) \in Seq(S) /\ Upturned(items, k) \in Seq(S)
           /\ Upturned(items, k) = <<items[k]>> \o Upturned(items, k - 1)
           /\ After(items, k - 1) \in Seq(S) /\ After(items, k) \in Seq(S)
           /\ After(items, k - 1) = <<items[k]>> \o After(items, k)
<1>1. items[k] \in S
    BY ElementOfSeq
<1>2. ASSUME NEW j \in 0..Len(items)
      PROVE  /\ Upturned(items, j) \in Seq(S) /\ Len(Upturned(items, j)) = j
             /\ \A i \in 1..j : Upturned(items, j)[i] = items[j + 1 - i]
  <2>1. PICK u : u = Upturned(items, j)
    OBVIOUS
  <2>2. \A i \in 1..j : items[j + 1 - i] \in S
    BY ElementOfSeq
  <2>3. u = [i \in 1..j |-> items[j + 1 - i]]
    BY <2>1 DEF Upturned
  <2>4. u \in [1..j -> S] /\ \A i \in 1..j : u[i] = items[j + 1 - i]
    BY <2>2, <2>3
  <2>5. u \in Seq(S) /\ Len(u) = j
    BY <2>4
  <2>. QED  BY <2>1, <2>4, <2>5
<1>3. PICK a, b, x : a = Upturned(items, k - 1) /\ b = Upturned(items, k) /\ x = items[k]
    OBVIOUS
<1>4. k \in 0..Len(items) /\ k - 1 \in 0..Len(items)
    OBVIOUS
<1>5. /\ a \in Seq(S) /\ Len(a) = k - 1 /\ \A i \in 1..(k - 1) : a[i] = items[(k - 1) + 1 - i]
      /\ b \in Seq(S) /\ Len(b) = k /\ \A i \in 1..k : b[i] = items[k + 1 - i]
    BY <1>2, <1>3, <1>4
<1>6. PICK q : q = <<x>> \o a
    OBVIOUS
<1>7. <<x>> \in Seq(S) /\ Len(<<x>>) = 1 /\ <<x>>[1] = x
    BY <1>1, <1>3
<1>8. /\ q \in Seq(S) /\ Len(q) = 1 + (k - 1)
      /\ \A i \in 1..(1 + (k - 1)) : q[i] = IF i <= 1 THEN <<x>>[i] ELSE a[i - 1]
    BY <1>5, <1>6, <1>7, ConcatProperties
<1>9. ASSUME NEW i \in 1..k PROVE b[i] = q[i]
  <2>1. i \in 1..(1 + (k - 1))
    OBVIOUS
  <2>2. CASE i = 1
    <3>1. b[i] = items[k] /\ q[i] = x
        BY <1>5, <1>7, <1>8, <2>1, <2>2
    <3>. QED  BY <1>3, <3>1
  <2>3. CASE i # 1
    <3>1. i - 1 \in 1..(k - 1) /\ (k - 1) + 1 - (i - 1) = k + 1 - i /\ ~(i <= 1)
        BY <2>3
    <3>2. q[i] = a[i - 1]
        BY <1>8, <2>1, <3>1
    <3>. QED  BY <1>5, <3>1, <3>2
  <2>. QED  BY <2>2, <2>3
<1>10. b = q
  <2>1. Len(b) = Len(q)
    BY <1>5, <1>8
  <2>2. \A i \in 1..Len(b) : b[i] = q[i]
    BY <1>5, <1>9
  <2>. QED  BY <1>5, <1>8, <2>1, <2>2, SeqEqual
<1>11. ASSUME NEW j \in 0..Len(items) PROVE After(items, j) \in Seq(S)
  <2>1. \A i \in (j + 1)..Len(items) : items[i] \in S
    <3>1. \A i \in (j + 1)..Len(items) : i \in 1..Len(items)
        OBVIOUS
    <3>. QED  BY <3>1, ElementOfSeq
  <2>2. j + 1 \in Int /\ Len(items) \in Int
    BY LenProperties
  <2>. QED  BY <2>1, <2>2, SubSeqProperties DEF After
<1>12. After(items, k - 1) = <<items[k]>> \o After(items, k)
  <2>1. Len(items) \in k..Len(items) /\ (k - 1) + 1 = k
    BY LenProperties
  <2>. QED  BY <2>1, SubSeqRecursiveFirst DEF After
<1>. QED  BY <1>1, <1>3, <1>4, <1>5, <1>6, <1>10, <1>11, <1>12

\* At first none is upturned, in the end all are.
LEMMA UpturnedEnds ==
    ASSUME NEW S, NEW items \in Seq(S)
    PROVE  /\ Upturned(items, 0) = <<>> /\ After(items, 0) = items
           /\ After(items, Len(items)) = <<>> /\ Upturned(items, Len(items)) \in Seq(S)
           /\ Len(Upturned(items, Len(items))) = Len(items)
<1>1. After(items, 0) = items
    BY SubSeqFull DEF After
<1>2. After(items, Len(items)) = <<>>
  <2>1. Len(items) \in Int /\ Len(items) + 1 \in Int /\ Len(items) < Len(items) + 1
    BY LenProperties
  <2>. QED  BY <2>1, SubSeqEmpty DEF After
<1>3. Upturned(items, 0) = <<>>
    BY DEF Upturned
<1>4. Upturned(items, Len(items)) \in Seq(S) /\ Len(Upturned(items, Len(items))) = Len(items)
  <2>1. PICK n \in Nat : n = Len(items)
    BY LenProperties
  <2>2. PICK u : u = Upturned(items, n)
    OBVIOUS
  <2>3. u \in [1..n -> S]
    <3>1. \A i \in 1..n : items[n + 1 - i] \in S
        BY <2>1, ElementOfSeq
    <3>. QED  BY <2>2, <3>1 DEF Upturned
  <2>4. u \in Seq(S) /\ Len(u) = n
    BY <2>3
  <2>. QED  BY <2>1, <2>2, <2>4
<1>. QED  BY <1>1, <1>2, <1>3, <1>4

\* What Collect takes off a stack that ends with the upturned items.
TakenOff(st, n) == [i \in 1..n |-> st[n + 1 - i]]
LeftOn(st, n) == SubSeq(st, n + 1, Len(st))
\* It is the items and what lay below them.
LEMMA CollectsItems ==
    ASSUME NEW S, NEW items \in Seq(S), NEW s \in Seq(S), NEW st,
           st = Upturned(items, Len(items)) \o s
    PROVE  TakenOff(st, Len(items)) = items /\ LeftOn(st, Len(items)) = s
<1>1. PICK m, l \in Nat : l = Len(s) /\ Len(items) = m
    BY LenProperties
<1>2. PICK u \in Seq(S) : u = Upturned(items, m) /\ Len(u) = m /\ \A i \in 1..m : u[i] = items[m + 1 - i]
  <2>1. Upturned(items, m) \in Seq(S) /\ Len(Upturned(items, m)) = m
    BY <1>1, UpturnedEnds
  <2>. QED  BY <2>1 DEF Upturned
<1>3. PICK p : p = st /\ p = u \o s
    BY <1>1, <1>2
<1>4. /\ p \in Seq(S) /\ Len(p) = m + l
      /\ \A i \in 1..(m + l) : p[i] = IF i <= m THEN u[i] ELSE s[i - m]
  <2>1. p \in Seq(S) /\ Len(p) = Len(u) + Len(s)
        /\ \A i \in 1..(Len(u) + Len(s)) : p[i] = IF i <= Len(u) THEN u[i] ELSE s[i - Len(u)]
    <3>1. p = u \o s /\ u \in Seq(S) /\ s \in Seq(S)
        BY <1>3
    <3>. QED  BY <3>1, ConcatProperties, Zenon
  <2>. QED  BY <1>1, <1>2, <2>1
<1>5. [i \in 1..m |-> p[m + 1 - i]] = items
  <2>1. ASSUME NEW i \in 1..m PROVE p[m + 1 - i] = items[i]
    <3>1. m + 1 - i \in 1..m /\ m + 1 - (m + 1 - i) = i
        OBVIOUS
    <3>2. m + 1 - i \in 1..(m + l) /\ m + 1 - i <= m
        BY <3>1
    <3>3. p[m + 1 - i] = u[m + 1 - i]
        BY <1>4, <3>2
    <3>. QED  BY <1>2, <3>1, <3>3
  <2>2. PICK q : q = [i \in 1..m |-> p[m + 1 - i]]
    OBVIOUS
  <2>3. q = [i \in 1..m |-> items[i]]
    BY <2>1, <2>2
  <2>4. q \in Seq(S) /\ Len(q) = m /\ \A i \in 1..m : q[i] = items[i]
    <3>1. \A i \in 1..m : items[i] \in S
        BY <1>1, ElementOfSeq
    <3>2. q \in [1..m -> S] /\ \A i \in 1..m : q[i] = items[i]
        BY <2>3, <3>1
    <3>. QED  BY <3>2
  <2>5. q = items
    BY <1>1, <2>4, SeqEqual
  <2>. QED  BY <2>2, <2>5
<1>6. SubSeq(p, m + 1, m + l) = s
  <2>1. PICK q : q = SubSeq(p, m + 1, m + l)
    OBVIOUS
  <2>2. \A i \in (m + 1)..(m + l) : p[i] \in S
    BY <1>4, ElementOfSeq
  <2>3. /\ q \in Seq(S) /\ Len(q) = IF m + 1 <= m + l THEN m + l - (m + 1) + 1 ELSE 0
        /\ \A i \in 1..(m + l - (m + 1) + 1) : q[i] = p[(m + 1) + i - 1]
    <3>1. PICK a, b \in Int : a = m + 1 /\ b = m + l
        OBVIOUS
    <3>2. \A i \in a..b : p[i] \in S
        BY <2>2, <3>1
    <3>3. q = SubSeq(p, a, b)
        BY <2>1, <3>1
    <3>4. /\ q \in Seq(S) /\ Len(q) = IF a <= b THEN b - a + 1 ELSE 0
          /\ \A i \in 1..(b - a + 1) : q[i] = p[a + i - 1]
        BY <3>2, <3>3, SubSeqProperties
    <3>. QED  BY <3>1, <3>4
  <2>4. Len(q) = l
    BY <2>3
  <2>5. ASSUME NEW i \in 1..l PROVE q[i] = s[i]
    <3>1. i \in 1..(m + l - (m + 1) + 1) /\ (m + 1) + i - 1 = m + i
        OBVIOUS
    <3>2. m + i \in 1..(m + l) /\ ~(m + i <= m) /\ (m + i) - m = i
        OBVIOUS
    <3>3. q[i] = p[m + i]
        BY <2>3, <3>1
    <3>. QED  BY <1>4, <3>2, <3>3
  <2>6. q = s
    BY <1>1, <2>3, <2>4, <2>5, SeqEqual
  <2>. QED  BY <2>1, <2>6
<1>7. Len(st) = m + l
    BY <1>1, <1>3, <1>4
<1>8. TakenOff(p, m) = items /\ LeftOn(p, m) = s
    BY <1>3, <1>5, <1>6, <1>7 DEF TakenOff, LeftOn
<1>. QED  BY <1>1, <1>3, <1>8

-----------------------------------------------------------------------------
\* What the reader has read, and what the writer has gone on with.
Halves == Seq(AllValues) \X Seq(AllValues)

\* What each call makes of both: it reads the value the writer wrote.
Means(c, x, y) ==
    \/ /\ c.op = "read"
       /\ \E v \in AllValues : OfType(v, c.of) /\ x[2] = <<v>> \o y[2] /\ y[1] = <<v>> \o x[1]
    \/ /\ c.op = "nonzero"
       /\ \E n \in {0, 1}, s \in Seq(AllValues) :
              x[1] = <<IntValue(1, n)>> \o s /\ y[1] = <<BoolValue(n)>> \o s /\ y[2] = x[2]
    \/ /\ c.op = "some"
       /\ \/ \E s \in Seq(AllValues) :
                 x[1] = <<BoolValue(0)>> \o s /\ y[1] = <<NoneValue>> \o s /\ y[2] = x[2]
          \/ \E u \in Types, v \in AllValues, s \in Seq(AllValues) :
                 /\ c.of = OptionOf(u) /\ OfType(v, u)
                 /\ x[1] = <<BoolValue(1)>> \o s /\ x[2] = <<v>> \o y[2]
                 /\ y[1] = <<SomeValue(v)>> \o s
    \/ /\ c.op = "wrap"
       /\ \E v \in AllValues, s \in Seq(AllValues) :
              x[1] = <<v>> \o s /\ y[1] = <<SomeValue(v)>> \o s /\ y[2] = x[2]
    \/ c.op = "assign" /\ y = x
    \/ /\ c.op = "collect"
       /\ \E items, s \in Seq(AllValues) :
              /\ Len(items) = c.of.width
              /\ x[1] = Upturned(items, Len(items)) \o s
              /\ y[1] = <<ManyValue(c.of.kind, items)>> \o s /\ y[2] = x[2]
Meaning == {m \in Tasks \X Halves \X Halves : Means(m[1], m[2], m[3])}

\* What it is to be among the meanings.
LEMMA Meant ==
    ASSUME NEW c, NEW x, NEW y
    PROVE  <<c, x, y>> \in Meaning <=> c \in Tasks /\ x \in Halves /\ y \in Halves /\ Means(c, x, y)
BY DEF Meaning

\* Two sequences of values are halves.
LEMMA HalvesAre ==
    ASSUME NEW s \in Seq(AllValues), NEW w \in Seq(AllValues)
    PROVE  <<s, w>> \in Halves
BY DEF Halves

\* The next value is read.
LEMMA ReadsNext ==
    ASSUME NEW t \in Types, NEW v, OfType(v, t),
           NEW s \in Seq(AllValues), NEW w \in Seq(AllValues), NEW x, NEW y,
           x = <<s, <<v>> \o w>>, y = <<<<v>> \o s, w>>
    PROVE  <<Task("read", t), x, y>> \in Meaning
<1>1. v \in AllValues
    BY ValueSized
<1>2. PICK c \in Tasks : c = Task("read", t) /\ c.op = "read" /\ c.of = t
    BY TasksAre DEF Ops
<1>3. PICK p, q : p = <<v>> \o w /\ q = <<v>> \o s
    OBVIOUS
<1>4. p \in Seq(AllValues) /\ q \in Seq(AllValues)
    BY <1>1, <1>3, InFront
<1>5. x = <<s, p>> /\ y = <<q, w>>
    BY <1>3
<1>6. x \in Halves /\ y \in Halves
    BY <1>4, <1>5, HalvesAre
<1>7. Means(c, x, y)
  <2>1. x[2] = <<v>> \o y[2] /\ y[1] = <<v>> \o x[1]
    BY <1>3, <1>5
  <2>. QED  BY <1>1, <1>2, <2>1 DEF Means
<1>. QED  BY <1>2, <1>6, <1>7, Meant

\* Items in turn: after k of them, those are read and the others are left.
Turn(items, s, w, k) == <<Upturned(items, k) \o s, After(items, k) \o w>>

\* The first turn and the last.
LEMMA TurnNone ==
    ASSUME NEW items \in Seq(AllValues), NEW s \in Seq(AllValues), NEW w \in Seq(AllValues)
    PROVE  Turn(items, s, w, 0) = <<s, items \o w>>
<1>1. Upturned(items, 0) = <<>> /\ After(items, 0) = items
    BY UpturnedEnds
<1>2. <<>> \o s = s
    BY ConcatEmptySeq
<1>. QED  BY <1>1, <1>2 DEF Turn

LEMMA TurnAll ==
    ASSUME NEW items \in Seq(AllValues), NEW s \in Seq(AllValues), NEW w \in Seq(AllValues)
    PROVE  Turn(items, s, w, Len(items)) = <<Upturned(items, Len(items)) \o s, w>>
<1>1. After(items, Len(items)) = <<>>
    BY UpturnedEnds
<1>2. <<>> \o w = w
    BY ConcatEmptySeq
<1>. QED  BY <1>1, <1>2 DEF Turn

\* An item is read in its turn.
LEMMA ReadsItem ==
    ASSUME NEW items \in Seq(AllValues), NEW s \in Seq(AllValues), NEW w \in Seq(AllValues),
           NEW t \in Types, NEW k \in 1..Len(items), OfType(items[k], t)
    PROVE  /\ <<Task("read", t), Turn(items, s, w, k - 1), Turn(items, s, w, k)>> \in Meaning
           /\ Turn(items, s, w, k) \in Halves
<1>1. PICK v : v = items[k]
    OBVIOUS
<1>2. PICK a, b, p, q : /\ a = Upturned(items, k - 1) /\ b = Upturned(items, k)
                        /\ p = After(items, k - 1) /\ q = After(items, k)
    OBVIOUS
<1>3. /\ v \in AllValues
      /\ a \in Seq(AllValues) /\ b \in Seq(AllValues) /\ b = <<v>> \o a
      /\ p \in Seq(AllValues) /\ q \in Seq(AllValues) /\ p = <<v>> \o q
    BY <1>1, <1>2, UpturnedNext
<1>4. PICK x, y : x = Turn(items, s, w, k - 1) /\ y = Turn(items, s, w, k)
    OBVIOUS
<1>5. x = <<a \o s, p \o w>> /\ y = <<b \o s, q \o w>>
    BY <1>2, <1>4 DEF Turn
<1>6. PICK c, d \in Seq(AllValues) : c = a \o s /\ d = q \o w
    BY <1>3, ConcatProperties
<1>7. p \o w = <<v>> \o d /\ b \o s = <<v>> \o c
  <2>1. p \o w = <<v>> \o (q \o w)
    BY <1>3, InFrontFirst, SMTT(30)
  <2>2. b \o s = <<v>> \o (a \o s)
    BY <1>3, InFrontFirst, SMTT(30)
  <2>. QED  BY <1>6, <2>1, <2>2
<1>8. x = <<c, <<v>> \o d>> /\ y = <<<<v>> \o c, d>>
    BY <1>5, <1>6, <1>7
<1>9. <<Task("read", t), x, y>> \in Meaning
    BY <1>1, <1>8, ReadsNext
<1>. QED  BY <1>4, <1>9, Meant

\* Then they become one value.
LEMMA CollectsNext ==
    ASSUME NEW t \in Types, NEW items \in Seq(AllValues), Len(items) = t.width,
           NEW s \in Seq(AllValues), NEW w \in Seq(AllValues), NEW y,
           ManyValue(t.kind, items) \in AllValues, y = <<<<ManyValue(t.kind, items)>> \o s, w>>
    PROVE  <<Task("collect", t), Turn(items, s, w, Len(items)), y>> \in Meaning
<1>1. PICK v \in AllValues : v = ManyValue(t.kind, items)
    OBVIOUS
<1>2. PICK c \in Tasks : c = Task("collect", t) /\ c.op = "collect" /\ c.of = t
    BY TasksAre DEF Ops
<1>3. PICK a \in Seq(AllValues) : a = Upturned(items, Len(items)) \o s
    BY UpturnedEnds, ConcatProperties
<1>4. PICK x : x = Turn(items, s, w, Len(items)) /\ x = <<a, w>>
  <2>1. Turn(items, s, w, Len(items)) = <<Upturned(items, Len(items)) \o s, w>>
    BY TurnAll
  <2>. QED  BY <1>3, <2>1
<1>5. PICK b \in Seq(AllValues) : b = <<v>> \o s
    BY InFront
<1>6. y = <<b, w>>
    BY <1>1, <1>5
<1>7. x \in Halves /\ y \in Halves
    BY <1>4, <1>6, HalvesAre
<1>8. Means(c, x, y)
  <2>1. x[1] = Upturned(items, Len(items)) \o s /\ y[1] = <<ManyValue(c.of.kind, items)>> \o s
        /\ y[2] = x[2] /\ Len(items) = c.of.width
    BY <1>1, <1>2, <1>3, <1>4, <1>5, <1>6
  <2>. QED  BY <1>2, <2>1 DEF Means
<1>. QED  BY <1>2, <1>4, <1>7, <1>8, Meant

\* The calls of a composed type are calls.
LEMMA CallsAreTasks == ASSUME NEW t \in Types, t.kind \notin {"int", "bytes"} PROVE Calls(t) \in Seq(Tasks)
<1>1. PICK x \in Loads : x = Load(0, 0, 0)
    BY LoadsAre
<1>2. PICK y : y = Load(x.depth + 1, 0, x.owed)
    OBVIOUS
<1>3. <<Task("read", t), x, y>> \in Handling(TRUE)
    BY <1>2, ReadsMore
<1>. QED  BY <1>3, CallsHandle

\* Two calls, one after the other.
LEMMA PathTwo ==
    ASSUME NEW R, NEW a, NEW b, NEW x, NEW y, NEW z, <<a, x, y>> \in R, <<b, y, z>> \in R
    PROVE  Path(R, <<a, b>>, x, z)
<1>1. Path(R, <<a>>, x, y) /\ Path(R, <<b>>, y, z)
    BY PathOne
<1>2. PICK S : S = {a, b}
    OBVIOUS
<1>3. <<a>> \in Seq(S) /\ <<b>> \in Seq(S)
    BY <1>2
<1>4. Path(R, <<a>> \o <<b>>, x, z)
    BY <1>1, <1>3, PathConcat
<1>. QED  BY <1>4, Concats

\* A composed type's calls read what a composed value goes on with.
LEMMA BoolMeans ==
    ASSUME NEW n \in {0, 1}, NEW s \in Seq(AllValues), NEW w \in Seq(AllValues),
           NEW y, y = <<<<BoolValue(n)>> \o s, w>>
    PROVE  Path(Meaning, Calls(BoolType), <<s, <<IntValue(1, n)>> \o w>>, y)
<1>1. PICK i, v \in AllValues : i = IntValue(1, n) /\ v = BoolValue(n)
    BY AmongValues
<1>2. OfType(i, IntType(1)) /\ IntType(1) \in Types /\ BoolType \in Types
    BY <1>1 DEF OfType, Types
<1>3. PICK p, q \in Seq(AllValues) : p = <<i>> \o s /\ q = <<v>> \o s
    BY InFront
<1>4. PICK x, z : x = <<s, <<i>> \o w>> /\ z = <<<<i>> \o s, w>>
    OBVIOUS
<1>5. <<Task("read", IntType(1)), x, z>> \in Meaning
    BY <1>2, <1>4, ReadsNext
<1>6. z = <<p, w>> /\ y = <<q, w>>
    BY <1>1, <1>3, <1>4
<1>7. PICK c \in Tasks : c = Task("nonzero", BoolType) /\ c.op = "nonzero"
    BY <1>2, TasksAre DEF Ops
<1>8. Means(c, z, y)
  <2>1. z[1] = <<IntValue(1, n)>> \o s /\ y[1] = <<BoolValue(n)>> \o s /\ y[2] = z[2]
    BY <1>1, <1>3, <1>6
  <2>. QED  BY <1>7, <2>1 DEF Means
<1>9. <<c, z, y>> \in Meaning
    BY <1>6, <1>7, <1>8, HalvesAre, Meant
<1>10. Path(Meaning, <<Task("read", IntType(1)), c>>, x, y)
    BY <1>5, <1>9, PathTwo
<1>. QED  BY <1>1, <1>4, <1>7, <1>10, CallsAre

\* The tag of an Option, and what its other call makes of it.
LEMMA OptionMeans ==
    ASSUME NEW t \in Types, NEW n \in {0, 1},
           NEW s \in Seq(AllValues), NEW w \in Seq(AllValues), NEW u, t = OptionOf(u),
           NEW y, Means(Task("some", t), <<<<BoolValue(n)>> \o s, w>>, y), y \in Halves
    PROVE  Path(Meaning, Calls(t), <<s, <<BoolValue(n)>> \o w>>, y)
<1>1. PICK v \in AllValues : v = BoolValue(n)
    BY AmongValues
<1>2. OfType(v, BoolType) /\ BoolType \in Types
    BY <1>1 DEF OfType, Types
<1>3. PICK x, z : x = <<s, <<v>> \o w>> /\ z = <<<<v>> \o s, w>>
    OBVIOUS
<1>4. <<Task("read", BoolType), x, z>> \in Meaning
    BY <1>2, <1>3, ReadsNext
<1>5. z \in Halves
    BY <1>4, Meant
<1>6. PICK c \in Tasks : c = Task("some", t)
    BY TasksAre DEF Ops
<1>7. <<c, z, y>> \in Meaning
    BY <1>1, <1>3, <1>5, <1>6, Meant
<1>8. Path(Meaning, <<Task("read", BoolType), c>>, x, y)
    BY <1>4, <1>7, PathTwo
<1>. QED  BY <1>1, <1>3, <1>6, <1>8, CallsAre

\* A tag 0 is read as None.
LEMMA NoneMeans ==
    ASSUME NEW t \in Types, NEW u, t = OptionOf(u), NoneValue \in AllValues,
           NEW s \in Seq(AllValues), NEW w \in Seq(AllValues), NEW y, y = <<<<NoneValue>> \o s, w>>
    PROVE  Path(Meaning, Calls(t), <<s, <<BoolValue(0)>> \o w>>, y)
<1>1. PICK q \in Seq(AllValues) : q = <<NoneValue>> \o s
    BY InFront
<1>2. y = <<q, w>> /\ y \in Halves
    BY <1>1, HalvesAre
<1>3. PICK p : p = <<BoolValue(0)>> \o s
    OBVIOUS
<1>4. PICK c : c = Task("some", t) /\ c.op = "some"
    BY TasksAre DEF Ops
<1>5. PICK z : z = <<p, w>>
    OBVIOUS
<1>6. z[1] = <<BoolValue(0)>> \o s /\ y[1] = <<NoneValue>> \o s /\ y[2] = z[2]
    BY <1>1, <1>2, <1>3, <1>5
<1>7. Means(c, z, y)
    BY <1>4, <1>6 DEF Means
<1>8. PICK n \in {0, 1} : n = 0
    OBVIOUS
<1>9. Means(Task("some", t), <<<<BoolValue(n)>> \o s, w>>, y)
    BY <1>3, <1>4, <1>5, <1>7, <1>8
<1>. QED  BY <1>2, <1>8, <1>9, OptionMeans

\* A tag 1 and a value are read as Some.
LEMMA SomeMeans ==
    ASSUME NEW t \in Types, NEW u \in Types, t = OptionOf(u), NEW x, OfType(x, u),
           SomeValue(x) \in AllValues,
           NEW s \in Seq(AllValues), NEW w \in Seq(AllValues), NEW y, y = <<<<SomeValue(x)>> \o s, w>>
    PROVE  Path(Meaning, Calls(t), <<s, <<BoolValue(1), x>> \o w>>, y)
<1>1. PICK q \in Seq(AllValues) : q = <<SomeValue(x)>> \o s
    BY InFront
<1>2. y = <<q, w>> /\ y \in Halves
    BY <1>1, HalvesAre
<1>3. x \in AllValues
    BY ValueSized
<1>4. PICK r \in Seq(AllValues) : r = <<x>> \o w
    BY <1>3, InFront
<1>5. PICK c : c = Task("some", t) /\ c.op = "some" /\ c.of = OptionOf(u)
    BY TasksAre DEF Ops
<1>6. PICK z, p : p = <<BoolValue(1)>> \o s /\ z = <<p, r>>
    OBVIOUS
<1>7. /\ z[1] = <<BoolValue(1)>> \o s /\ z[2] = <<x>> \o y[2]
      /\ y[1] = <<SomeValue(x)>> \o s
    BY <1>1, <1>2, <1>4, <1>6
<1>8. Means(c, z, y)
    BY <1>3, <1>5, <1>7 DEF Means
<1>9. PICK n \in {0, 1} : n = 1
    OBVIOUS
<1>10. Means(Task("some", t), <<<<BoolValue(n)>> \o s, r>>, y)
    BY <1>5, <1>6, <1>8, <1>9
<1>11. Path(Meaning, Calls(t), <<s, <<BoolValue(n)>> \o r>>, y)
    BY <1>2, <1>10, OptionMeans
<1>12. <<BoolValue(1), x>> \o w = <<BoolValue(1)>> \o r
  <2>1. PICK b \in AllValues : b = BoolValue(1)
    BY AmongValues
  <2>2. PICK a : a = <<x>>
    OBVIOUS
  <2>3. a \in Seq(AllValues)
    BY <1>3, <2>2
  <2>4. PICK m : m = <<b>> \o a /\ m = <<b, x>>
    BY <2>2, Concats
  <2>5. m \o w = <<b>> \o (a \o w)
    BY <2>3, <2>4, InFrontFirst
  <2>. QED  BY <1>4, <2>1, <2>2, <2>4, <2>5
<1>. QED  BY <1>9, <1>11, <1>12

\* The items of an array are read in turn and collected.
LEMMA ArrayMeans ==
    ASSUME NEW t \in Types, NEW u \in Types, NEW items \in Seq(AllValues),
           t = ArrayOf(Len(items), u), \A i \in 1..Len(items) : OfType(items[i], u),
           ManyValue("array", items) \in AllValues,
           NEW s \in Seq(AllValues), NEW w \in Seq(AllValues),
           NEW y, y = <<<<ManyValue("array", items)>> \o s, w>>
    PROVE  Path(Meaning, Calls(t), <<s, items \o w>>, y)
<1>1. t.kind = "array" /\ t.width = Len(items) /\ Len(items) \in Nat
    BY LenProperties DEF ArrayOf, Type
<1>2. PICK a \in Tasks, b \in Tasks, c \in Tasks :
          a = Task("read", u) /\ b = Task("assign", u) /\ b.op = "assign" /\ c = Task("collect", t)
    BY TasksAre DEF Ops
<1>13. PICK n \in Nat : n = Len(items)
    BY <1>1
<1>3. PICK each : each = [i \in 1..(2 * n) |-> IF i % 2 = 1 THEN a ELSE b]
    OBVIOUS
<1>4. Calls(t) = each \o <<c>> /\ each \in Seq(Tasks)
    BY <1>1, <1>2, <1>3, <1>13, ArrayCalls
<1>. DEFINE f == [k \in 0..n |-> Turn(items, s, w, k)]
<1>5. \A k \in 0..n : f[k] = Turn(items, s, w, k)
    OBVIOUS
<1>. HIDE DEF f
<1>6. ASSUME NEW k \in 1..n PROVE <<a, f[k - 1], f[k]>> \in Meaning /\ <<b, f[k], f[k]>> \in Meaning
  <2>1. k \in 1..Len(items) /\ OfType(items[k], u)
    BY <1>13
  <2>6. k \in 0..n /\ k - 1 \in 0..n
    OBVIOUS
  <2>2. PICK p, q : p = Turn(items, s, w, k - 1) /\ q = Turn(items, s, w, k)
    OBVIOUS
  <2>3. <<a, p, q>> \in Meaning /\ q \in Halves
    BY <1>2, <2>1, <2>2, ReadsItem
  <2>4. Means(b, q, q)
    BY <1>2 DEF Means
  <2>5. <<b, q, q>> \in Meaning
    BY <1>2, <2>3, <2>4, Meant
  <2>. QED  BY <1>5, <2>2, <2>3, <2>5, <2>6
<1>7. Path(Meaning, each, f[0], f[n])
    BY <1>3, <1>6, PathInTurn
<1>8. f[0] = <<s, items \o w>> /\ f[n] = Turn(items, s, w, Len(items))
  <2>1. f[0] = Turn(items, s, w, 0) /\ f[n] = Turn(items, s, w, n)
    BY <1>5
  <2>. QED  BY <1>13, <2>1, TurnNone
<1>9. <<c, f[n], y>> \in Meaning
    BY <1>1, <1>2, <1>8, CollectsNext
<1>10. Path(Meaning, <<c>>, f[n], y) /\ <<c>> \in Seq(Tasks)
  <2>1. <<c>> \in Seq(Tasks)
    BY <1>2
  <2>. QED  BY <1>9, <2>1, PathOne
<1>11. Path(Meaning, each \o <<c>>, f[0], y)
    BY <1>4, <1>7, <1>10, PathConcat
<1>. QED  BY <1>4, <1>8, <1>11

\* So are the two of a tuple.
LEMMA PairMeans ==
    ASSUME NEW t \in Types, NEW q \in Types, NEW u \in Types, t = PairOf(q, u),
           NEW a, NEW b, OfType(a, q), OfType(b, u), ManyValue("tuple", <<a, b>>) \in AllValues,
           NEW s \in Seq(AllValues), NEW w \in Seq(AllValues),
           NEW y, y = <<<<ManyValue("tuple", <<a, b>>)>> \o s, w>>
    PROVE  Path(Meaning, Calls(t), <<s, <<a, b>> \o w>>, y)
<1>1. t.kind = "tuple" /\ t.width = 2
    BY DEF PairOf, Type
<1>2. PICK c \in Tasks, d \in Tasks, e \in Tasks :
          c = Task("read", q) /\ d = Task("read", u) /\ e = Task("collect", t)
    BY TasksAre DEF Ops
<1>3. Calls(t) = <<c, d>> \o <<e>>
    BY <1>2, PairCalls
<1>4. a \in AllValues /\ b \in AllValues
    BY ValueSized
<1>14. PICK items : items = <<a, b>>
    OBVIOUS
<1>5. /\ items \in Seq(AllValues) /\ items = <<a, b>>
      /\ Len(items) = 2 /\ items[1] = a /\ items[2] = b
    BY <1>4, <1>14
<1>6. PICK x, z, r : /\ x = Turn(items, s, w, 0) /\ z = Turn(items, s, w, 1)
                     /\ r = Turn(items, s, w, 2)
    OBVIOUS
<1>7. <<c, x, z>> \in Meaning
  <2>1. PICK k \in 1..Len(items) : k = 1 /\ k - 1 = 0 /\ OfType(items[k], q)
    BY <1>5
  <2>2. <<Task("read", q), Turn(items, s, w, k - 1), Turn(items, s, w, k)>> \in Meaning
    BY <1>5, <2>1, ReadsItem
  <2>. QED  BY <1>2, <1>6, <2>1, <2>2
<1>8. <<d, z, r>> \in Meaning
  <2>1. PICK k \in 1..Len(items) : k = 2 /\ k - 1 = 1 /\ OfType(items[k], u)
    BY <1>5
  <2>2. <<Task("read", u), Turn(items, s, w, k - 1), Turn(items, s, w, k)>> \in Meaning
    BY <1>5, <2>1, ReadsItem
  <2>. QED  BY <1>2, <1>6, <2>1, <2>2
<1>9. <<e, r, y>> \in Meaning
  <2>1. Len(items) = t.width /\ ManyValue(t.kind, items) \in AllValues
        /\ y = <<<<ManyValue(t.kind, items)>> \o s, w>>
    BY <1>1, <1>5
  <2>. QED  BY <1>2, <1>5, <1>6, <2>1, CollectsNext
<1>10. Path(Meaning, <<c, d>>, x, r) /\ Path(Meaning, <<e>>, r, y)
    BY <1>7, <1>8, <1>9, PathTwo, PathOne
<1>11. <<c, d>> \in Seq(Tasks) /\ <<e>> \in Seq(Tasks)
    BY <1>2
<1>12. Path(Meaning, <<c, d>> \o <<e>>, x, y)
    BY <1>10, <1>11, PathConcat
<1>13. x = <<s, <<a, b>> \o w>>
    BY <1>5, <1>6, TurnNone
<1>. QED  BY <1>3, <1>12, <1>13

\* The calls of a composed type read what the writer of its value goes on with.
LEMMA CallsMean ==
    ASSUME NEW t \in Types, t.kind \notin {"int", "bytes"}, NEW v, OfType(v, t),
           NEW s \in Seq(AllValues), NEW w \in Seq(AllValues), NEW y, y = <<<<v>> \o s, w>>
    PROVE  \/ Path(Meaning, Calls(t), <<s, <<v>> \o w>>, y)
           \/ Direct(v) = <<>> /\ Path(Meaning, Calls(t), <<s, Parts(v) \o w>>, y)
<1>. DEFINE Goal == \/ Path(Meaning, Calls(t), <<s, <<v>> \o w>>, y)
                    \/ Direct(v) = <<>> /\ Path(Meaning, Calls(t), <<s, Parts(v) \o w>>, y)
<1>1. v \in AllValues
    BY ValueSized
<1>2. ASSUME NEW p, Direct(v) = <<>>, Parts(v) = p, Path(Meaning, Calls(t), <<s, p \o w>>, y)
      PROVE  Goal
    BY <1>2
<1>12. ASSUME Path(Meaning, Calls(t), <<s, <<v>> \o w>>, y) PROVE Goal
    BY <1>12
<1>. HIDE DEF Goal
<1>3. ASSUME t = BoolType, v \in {BoolValue(0), BoolValue(1)} PROVE Goal
  <2>1. PICK n \in {0, 1} : v = BoolValue(n)
    BY <1>3
  <2>2. Direct(v) = <<>> /\ Parts(v) = <<IntValue(1, n)>>
    BY <2>1, BoolWrites
  <2>3. Path(Meaning, Calls(t), <<s, <<IntValue(1, n)>> \o w>>, y)
    BY <1>3, <2>1, BoolMeans
  <2>. QED  BY <1>2, <2>2, <2>3
<1>4. ASSUME NEW u \in Types, t = OptionOf(u), v = NoneValue PROVE Goal
  <2>1. Direct(v) = <<>> /\ Parts(v) = <<BoolValue(0)>>
    BY <1>4, NoneWrites
  <2>2. Path(Meaning, Calls(t), <<s, <<BoolValue(0)>> \o w>>, y)
    BY <1>1, <1>4, NoneMeans
  <2>. QED  BY <1>2, <2>1, <2>2
<1>5. ASSUME NEW u \in Types, NEW x, t = OptionOf(u), OfType(x, u), v = SomeValue(x) PROVE Goal
  <2>1. Direct(v) = <<>> /\ Parts(v) = <<BoolValue(1), x>>
    BY <1>5, SomeWrites
  <2>2. Path(Meaning, Calls(t), <<s, <<BoolValue(1), x>> \o w>>, y)
    BY <1>1, <1>5, SomeMeans
  <2>. QED  BY <1>2, <2>1, <2>2
<1>6. ASSUME NEW n \in Nat, NEW u \in Types, NEW items \in Seq(AllValues),
             t = ArrayOf(n, u), v = ManyValue("array", items),
             Len(items) = n, \A i \in 1..n : OfType(items[i], u)
      PROVE  Goal
  <2>1. Direct(v) = <<>> /\ Parts(v) = items
    BY <1>6, ManyWrites
  <2>2. t = ArrayOf(Len(items), u) /\ \A i \in 1..Len(items) : OfType(items[i], u)
    BY <1>6
  <2>3. Path(Meaning, Calls(t), <<s, items \o w>>, y)
    BY <1>1, <1>6, <2>2, ArrayMeans
  <2>. QED  BY <1>2, <2>1, <2>3
<1>7. ASSUME NEW q \in Types, NEW u \in Types, NEW a, NEW b,
             t = PairOf(q, u), v = ManyValue("tuple", <<a, b>>), OfType(a, q), OfType(b, u)
      PROVE  Goal
  <2>1. Direct(v) = <<>> /\ Parts(v) = <<a, b>>
    BY <1>7, ManyWrites
  <2>2. Path(Meaning, Calls(t), <<s, <<a, b>> \o w>>, y)
    BY <1>1, <1>7, PairMeans
  <2>. QED  BY <1>2, <2>1, <2>2
<1>8. ASSUME NEW u \in Types, t = Owned(u), OfType(v, u) PROVE Goal
  <2>1. Calls(t) = <<Task("read", u)>>
    BY <1>8, CallsAre
  <2>2. PICK x : x = <<s, <<v>> \o w>>
    OBVIOUS
  <2>3. <<Task("read", u), x, y>> \in Meaning
    BY <1>8, <2>2, ReadsNext
  <2>4. Path(Meaning, Calls(t), x, y)
    BY <2>1, <2>3, PathOne
  <2>. QED  BY <1>12, <2>2, <2>4
<1>9. ASSUME NEW w1, t = IntType(w1) \/ t = BytesType(w1) PROVE FALSE
    BY <1>9 DEF IntType, BytesType, Type
<1>10. ASSUME \E u \in Types : /\ t = OptionOf(u)
                               /\ v = NoneValue \/ \E x : OfType(x, u) /\ v = SomeValue(x)
       PROVE  Goal
    BY <1>4, <1>5, <1>10
<1>13. ASSUME \E n \in Nat, u \in Types : \E items \in Seq(AllValues) :
                  /\ t = ArrayOf(n, u) /\ v = ManyValue("array", items)
                  /\ Len(items) = n /\ \A i \in 1..n : OfType(items[i], u)
       PROVE  Goal
    BY <1>6, <1>13
<1>14. ASSUME \E q, u \in Types : \E a, b : /\ t = PairOf(q, u) /\ v = ManyValue("tuple", <<a, b>>)
                                            /\ OfType(a, q) /\ OfType(b, u)
       PROVE  Goal
    BY <1>7, <1>14
<1>11. Goal
    BY <1>3, <1>8, <1>9, <1>10, <1>13, <1>14, ValueCases
<1>. QED  BY <1>11 DEF Goal

-----------------------------------------------------------------------------
\* The writer's steps over the bytes F: values still to write, and where it is.
Stages == Seq(AllValues) \X Nat
Written(F, x, y) ==
    /\ x[1] # <<>>
    /\ y[1] = Parts(Head(x[1])) \o Tail(x[1])
    /\ y[2] = x[2] + Len(Direct(Head(x[1]))) /\ y[2] <= Len(F)
    /\ Direct(Head(x[1])) = SubSeq(F, x[2] + 1, y[2])
WriterSteps(F) == {m \in {"write"} \X Stages \X Stages : Written(F, m[2], m[3])}
Ran(F, x, y) == \E turns \in Seq({"write"}) : Path(WriterSteps(F), turns, x, y)

\* What it is to be among the writer's steps.
LEMMA Wrote ==
    ASSUME NEW F, NEW c, NEW x, NEW y
    PROVE  <<c, x, y>> \in WriterSteps(F)
             <=> c = "write" /\ x \in Stages /\ y \in Stages /\ Written(F, x, y)
BY DEF WriterSteps

\* It has run nowhere from the start, and one step farther after each.
LEMMA RanNowhere == ASSUME NEW F, NEW x PROVE Ran(F, x, x)
<1>1. <<>> \in Seq({"write"})
    OBVIOUS
<1>2. PICK R : R = WriterSteps(F)
    OBVIOUS
<1>3. Path(R, <<>>, x, x)
    BY PathNothing
<1>. QED  BY <1>1, <1>2, <1>3 DEF Ran

\* One step farther.
LEMMA RanFarther ==
    ASSUME NEW F, NEW x, NEW y, NEW z, Ran(F, x, y), y \in Stages, z \in Stages, Written(F, y, z)
    PROVE  Ran(F, x, z)
<1>1. PICK R : R = WriterSteps(F)
    OBVIOUS
<1>2. PICK turns \in Seq({"write"}) : Path(R, turns, x, y)
    BY <1>1 DEF Ran
<1>3. PICK c : c = "write"
    OBVIOUS
<1>4. <<c, y, z>> \in R
    BY <1>1, <1>3, Wrote
<1>5. Path(R, <<c>>, y, z) /\ <<c>> \in Seq({"write"})
    BY <1>3, <1>4, PathOne
<1>6. Path(R, turns \o <<c>>, x, z) /\ turns \o <<c>> \in Seq({"write"})
    BY <1>2, <1>5, PathConcat, ConcatProperties
<1>. QED  BY <1>1, <1>6 DEF Ran

\* Its first step is the only one it can have made; with nothing left to write
\* it has made none.
LEMMA RanFirst ==
    ASSUME NEW F, NEW x, NEW y, Ran(F, x, y)
    PROVE  \/ x = y
           \/ \E z : x \in Stages /\ z \in Stages /\ Written(F, x, z) /\ Ran(F, z, y)
<1>1. PICK R : R = WriterSteps(F)
    OBVIOUS
<1>2. PICK turns \in Seq({"write"}) : Path(R, turns, x, y)
    BY <1>1 DEF Ran
<1>3. CASE turns = <<>>
    BY <1>2, <1>3, PathNone
<1>4. CASE turns # <<>>
  <2>1. PICK z : <<Head(turns), x, z>> \in R /\ Path(R, Tail(turns), z, y)
    BY <1>2, <1>4, PathFirst
  <2>2. Tail(turns) \in Seq({"write"})
    BY <1>4, HeadThenTail
  <2>3. Ran(F, z, y)
    BY <1>1, <2>1, <2>2 DEF Ran
  <2>4. x \in Stages /\ z \in Stages /\ Written(F, x, z)
    BY <1>1, <2>1, Wrote
  <2>. QED  BY <2>3, <2>4
<1>. QED  BY <1>3, <1>4

\* More bytes at the end do not change what it did.
LEMMA RanOver ==
    ASSUME NEW F \in Seq(Nat), NEW G \in Seq(Nat), NEW x, NEW y, Ran(F, x, y)
    PROVE  Ran(F \o G, x, y)
<1>1. PICK H : H = F \o G
    OBVIOUS
<1>2. PICK m, n \in Nat : m = Len(F) /\ n = Len(G)
    BY LenProperties
<1>3. /\ H \in Seq(Nat) /\ Len(H) = m + n
      /\ \A i \in 1..(m + n) : H[i] = IF i <= m THEN F[i] ELSE G[i - m]
    BY <1>1, <1>2, ConcatProperties
<1>4. ASSUME NEW a \in Nat, NEW b \in Nat, b <= m
      PROVE  SubSeq(H, a + 1, b) = SubSeq(F, a + 1, b)
  <2>1. PICK k \in Int : k = a + 1
    OBVIOUS
  <2>2. \A i \in k..b : H[i] = F[i] /\ F[i] \in Nat /\ H[i] \in Nat
    <3>1. \A i \in k..b : i \in 1..Len(F) /\ i \in 1..(m + n) /\ i <= m
        BY <1>2, <1>4, <2>1
    <3>2. \A i \in k..b : F[i] \in Nat
        BY <3>1, ElementOfSeq
    <3>. QED  BY <1>3, <3>1, <3>2
  <2>3. PICK p, q : p = SubSeq(H, k, b) /\ q = SubSeq(F, k, b)
    OBVIOUS
  <2>4. b \in Int
    OBVIOUS
  <2>5. /\ p \in Seq(Nat) /\ Len(p) = IF k <= b THEN b - k + 1 ELSE 0
        /\ \A i \in 1..(b - k + 1) : p[i] = H[k + i - 1]
    BY <2>2, <2>3, <2>4, SubSeqProperties
  <2>6. /\ q \in Seq(Nat) /\ Len(q) = IF k <= b THEN b - k + 1 ELSE 0
        /\ \A i \in 1..(b - k + 1) : q[i] = F[k + i - 1]
    BY <2>2, <2>3, <2>4, SubSeqProperties
  <2>7. ASSUME NEW i \in 1..Len(p) PROVE p[i] = q[i]
    <3>1. i \in 1..(b - k + 1) /\ k + i - 1 \in k..b
        BY <2>5
    <3>. QED  BY <2>2, <2>5, <2>6, <3>1
  <2>8. p = q
    BY <2>5, <2>6, <2>7, SeqEqual
  <2>. QED  BY <2>1, <2>3, <2>8
<1>5. ASSUME NEW u \in Stages, NEW z \in Stages, Written(F, u, z) PROVE Written(H, u, z)
  <2>1. u[2] \in Nat /\ z[2] \in Nat /\ z[2] <= m
    BY <1>2, <1>5 DEF Stages, Written
  <2>2. SubSeq(H, u[2] + 1, z[2]) = SubSeq(F, u[2] + 1, z[2])
    BY <1>4, <2>1
  <2>3. z[2] <= Len(H)
    BY <1>2, <1>3, <2>1
  <2>. QED  BY <1>5, <2>2, <2>3 DEF Written
<1>6. PICK R, Q : R = WriterSteps(F) /\ Q = WriterSteps(H)
    OBVIOUS
<1>7. R \subseteq Q
    BY <1>5, <1>6 DEF WriterSteps
<1>8. PICK turns \in Seq({"write"}) : Path(R, turns, x, y)
    BY <1>6 DEF Ran
<1>9. Path(Q, turns, x, y)
    BY <1>7, <1>8, PathMore
<1>. QED  BY <1>1, <1>6, <1>9 DEF Ran

-----------------------------------------------------------------------------
(* The round trip's invariant: what is read is what was written, and what is  *)
(* still to be read is what the writer wrote from there on.                   *)

\* The bytes delivered are those written, as far as both go.
Agrees(s, F) == \A i \in 1..Len(s) : i <= Len(F) => s[i] = F[i]

ReadsBack ==
    /\ tasks \in Seq(Tasks) /\ at \in Nat /\ stack \in Seq(AllValues)
    /\ \E F \in Seq(Nat), w \in Seq(AllValues) :
           /\ Len(F) = body.size /\ Agrees(stream, F)
           /\ Ran(F, <<w, at>>, <<<<>>, Len(F)>>)
           /\ Path(Meaning, tasks, <<stack, w>>, <<<<body>>, <<>>>>)

BodyKept ==
    /\ step = "none" => body = Nothing
    /\ body # Nothing =>
           /\ body \in AllValues /\ stream \in Seq(Nat)
           /\ step = "write" => /\ OfType(body, type) /\ tasks \in Seq(AllValues)
                                /\ at = Len(stream) /\ Ran(stream, <<<<body>>, 0>>, <<tasks, at>>)
           /\ step = "read" => ReadsBack
           /\ step = "done" => Head(stack) = body /\ at = body.size
           /\ step = "eof" => Len(stream) < body.size

\* to_writer of a value, and then of what it goes on with.
LEMMA WriteValueKeeps ==
    ASSUME SizesAccounted, BodyKept, WriteValue, body # Nothing PROVE BodyKept'
<1>1. /\ step = "write" /\ tasks # <<>> /\ tasks \in Seq(AllValues) /\ stream \in Seq(Nat)
      /\ at = Len(stream) /\ Ran(stream, <<<<body>>, 0>>, <<tasks, at>>)
      /\ OfType(body, type) /\ body \in AllValues
    BY DEF WriteValue, BodyKept
<1>2. PICK v \in AllValues, r \in Seq(AllValues) : v = Head(tasks) /\ r = Tail(tasks)
    BY <1>1, HeadThenTail
<1>3. PICK d \in Seq(Nat), p \in Seq(AllValues) : d = Direct(v) /\ p = Parts(v)
    BY WritesItsSize
<1>4. /\ stream' = stream \o d /\ at' = at + Len(d) /\ tasks' = p \o r
      /\ UNCHANGED <<type, body, step>>
    BY <1>2, <1>3 DEF WriteValue
<1>5. PICK F \in Seq(Nat) : F = stream'
    BY <1>1, <1>4, ConcatProperties
<1>6. PICK a, l \in Nat : a = at /\ l = Len(d)
    BY <1>1, LenProperties
<1>7. Len(F) = a + l /\ \A i \in 1..(a + l) : F[i] = IF i <= a THEN stream[i] ELSE d[i - a]
  <2>1. /\ Len(F) = Len(stream) + Len(d)
        /\ \A i \in 1..(Len(stream) + Len(d)) :
               F[i] = IF i <= Len(stream) THEN stream[i] ELSE d[i - Len(stream)]
    BY <1>1, <1>4, <1>5, ConcatProperties
  <2>. QED  BY <1>1, <1>6, <2>1
<1>8. d = SubSeq(F, a + 1, a + l)
  <2>1. PICK k, b \in Int : k = a + 1 /\ b = a + l
    OBVIOUS
  <2>2. PICK q : q = SubSeq(F, k, b)
    OBVIOUS
  <2>3. \A i \in k..b : F[i] \in Nat
    <3>1. \A i \in k..b : i \in 1..Len(F)
        BY <1>7, <2>1
    <3>. QED  BY <3>1, ElementOfSeq
  <2>4. /\ q \in Seq(Nat) /\ Len(q) = IF k <= b THEN b - k + 1 ELSE 0
        /\ \A i \in 1..(b - k + 1) : q[i] = F[k + i - 1]
    BY <2>2, <2>3, SubSeqProperties
  <2>5. Len(q) = l
    BY <2>1, <2>4
  <2>6. ASSUME NEW i \in 1..l PROVE q[i] = d[i]
    <3>1. i \in 1..(b - k + 1) /\ k + i - 1 = a + i
        BY <2>1
    <3>2. a + i \in 1..(a + l) /\ ~(a + i <= a) /\ (a + i) - a = i
        OBVIOUS
    <3>3. q[i] = F[a + i]
        BY <2>4, <3>1
    <3>. QED  BY <1>7, <3>2, <3>3
  <2>7. q = d
    BY <1>6, <2>4, <2>5, <2>6, SeqEqual
  <2>. QED  BY <2>1, <2>2, <2>7
<1>9. PICK y, z : y = <<tasks, a>> /\ z = <<p \o r, a + l>>
    OBVIOUS
<1>10. y \in Stages /\ z \in Stages
  <2>1. p \o r \in Seq(AllValues) /\ a + l \in Nat
    BY ConcatProperties
  <2>. QED  BY <1>1, <1>9, <2>1 DEF Stages
<1>11. Written(F, y, z)
  <2>1. y[1] = tasks /\ y[2] = a /\ z[1] = p \o r /\ z[2] = a + l
    BY <1>9
  <2>2. z[2] <= Len(F)
    BY <1>7, <2>1
  <2>. QED  BY <1>1, <1>2, <1>3, <1>6, <1>8, <2>1, <2>2 DEF Written
<1>12. PICK x : x = <<<<body>>, 0>>
    OBVIOUS
<1>13. Ran(F, x, y)
    BY <1>1, <1>4, <1>5, <1>6, <1>9, <1>12, RanOver
<1>14. Ran(F, x, z)
    BY <1>10, <1>11, <1>13, RanFarther
<1>15. at' = Len(stream') /\ tasks' \in Seq(AllValues) /\ <<tasks', at'>> = z
  <2>1. at' = a + l
    BY <1>4, <1>6
  <2>. QED  BY <1>4, <1>5, <1>7, <1>9, <2>1, ConcatProperties
<1>. QED  BY <1>1, <1>4, <1>5, <1>12, <1>14, <1>15 DEF BodyKept

\* What arrives is a beginning of what was sent, or all of it and more.
LEMMA DeliveredAgrees ==
    ASSUME NEW F \in Seq(Nat), NEW s \in Delivered(F)
    PROVE  s \in Seq(Nat) /\ Agrees(s, F)
<1>1. PICK m \in Nat : m = Len(F)
    BY LenProperties
<1>2. ASSUME NEW n \in 0..m, s = SubSeq(F, 1, n) PROVE s \in Seq(Nat) /\ Agrees(s, F)
  <2>1. PICK q : q = SubSeq(F, 1, n)
    OBVIOUS
  <2>2. \A i \in 1..n : F[i] \in Nat
    BY <1>1, ElementOfSeq
  <2>3. PICK k, b \in Int : k = 1 /\ b = n
    OBVIOUS
  <2>4. /\ q \in Seq(Nat) /\ Len(q) = IF k <= b THEN b - k + 1 ELSE 0
        /\ \A i \in 1..(b - k + 1) : q[i] = F[k + i - 1]
    BY <2>1, <2>2, <2>3, SubSeqProperties
  <2>5. Len(q) = n /\ \A i \in 1..n : q[i] = F[i]
    <3>1. Len(q) = n
        BY <2>3, <2>4
    <3>2. ASSUME NEW i \in 1..n PROVE q[i] = F[i]
      <4>1. i \in 1..(b - k + 1) /\ k + i - 1 = i
        BY <2>3
      <4>. QED  BY <2>4, <4>1
    <3>. QED  BY <3>1, <3>2
  <2>6. Agrees(q, F)
    BY <2>5 DEF Agrees
  <2>. QED  BY <1>2, <2>1, <2>4, <2>6
<1>3. ASSUME NEW e \in {0, 1}, s = Append(F, e) PROVE s \in Seq(Nat) /\ Agrees(s, F)
  <2>1. PICK q : q = Append(F, e)
    OBVIOUS
  <2>2. q \in Seq(Nat) /\ \A i \in 1..m : q[i] = F[i]
    BY <1>1, <2>1, AppendProperties
  <2>3. Agrees(q, F)
    BY <1>1, <2>2 DEF Agrees
  <2>. QED  BY <1>3, <2>1, <2>2, <2>3
<1>. QED  BY <1>1, <1>2, <1>3 DEF Delivered

\* The reader starts on what the writer wrote for the whole body.
LEMMA BodySentKeeps ==
    ASSUME SizesAccounted, BodyKept, BodySent, body # Nothing PROVE BodyKept'
<1>1. /\ step = "write" /\ tasks = <<>> /\ stream \in Seq(Nat) /\ at \in Nat
      /\ at = Len(stream) /\ Ran(stream, <<<<body>>, 0>>, <<tasks, at>>)
      /\ OfType(body, type) /\ body \in AllValues /\ type \in Types
      /\ body.size = at + SizeOf(tasks) /\ stack = <<>>
    BY DEF BodySent, BodyKept, SizesAccounted
<1>2. /\ stream' \in Delivered(stream) /\ at' = 0 /\ step' = "read"
      /\ tasks' = <<Task("read", type)>> /\ UNCHANGED <<type, body, stack>>
    BY DEF BodySent
<1>3. PICK F \in Seq(Nat) : F = stream
    BY <1>1
<1>4. Len(F) = body.size /\ Ran(F, <<<<body>>, 0>>, <<<<>>, Len(F)>>)
    BY <1>1, <1>3, SizeOfNone
<1>5. stream' \in Seq(Nat) /\ Agrees(stream', F)
    BY <1>2, <1>3, DeliveredAgrees
<1>18. <<>> \in Seq(AllValues) /\ <<body>> \in Seq(AllValues)
    BY <1>1
<1>6. PICK e \in Seq(AllValues) : e = <<>>
    BY <1>18
<1>7. PICK w \in Seq(AllValues) : w = <<body>>
    BY <1>18
<1>8. PICK v : v = body
    OBVIOUS
<1>9. <<v>> \o e = w
    BY <1>6, <1>7, <1>8, Concats
<1>10. PICK x, y : x = <<e, w>> /\ y = <<w, e>>
    OBVIOUS
<1>11. <<Task("read", type), x, y>> \in Meaning
  <2>1. x = <<e, <<v>> \o e>> /\ y = <<<<v>> \o e, e>>
    BY <1>9, <1>10
  <2>2. OfType(v, type)
    BY <1>1, <1>8
  <2>. QED  BY <1>1, <2>1, <2>2, ReadsNext
<1>12. PICK c \in Tasks : c = Task("read", type)
    BY <1>1, TasksAre DEF Ops
<1>13. Path(Meaning, <<c>>, x, y) /\ <<c>> \in Seq(Tasks)
    BY <1>11, <1>12, PathOne
<1>14. tasks' \in Seq(Tasks) /\ at' \in Nat /\ stack' \in Seq(AllValues)
    BY <1>1, <1>2, <1>12, <1>13
<1>15. Path(Meaning, tasks', <<stack', w>>, <<<<body'>>, <<>>>>)
    BY <1>1, <1>2, <1>6, <1>7, <1>10, <1>12, <1>13
<1>16. Ran(F, <<w, at'>>, <<<<>>, Len(F)>>)
    BY <1>2, <1>4, <1>7
<1>17. ReadsBack'
    BY <1>2, <1>4, <1>5, <1>14, <1>15, <1>16 DEF ReadsBack
<1>. QED  BY <1>1, <1>2, <1>5, <1>17 DEF BodyKept

\* The next call of the reader, and the rest of both ways.
LEMMA NextMeans ==
    ASSUME BodyKept, body # Nothing, step = "read", tasks # <<>>
    PROVE  \E c \in Tasks, F \in Seq(Nat), w \in Seq(AllValues), y \in Halves :
               /\ c = Head(tasks) /\ at \in Nat /\ stack \in Seq(AllValues)
               /\ Len(F) = body.size /\ Agrees(stream, F)
               /\ Ran(F, <<w, at>>, <<<<>>, Len(F)>>)
               /\ Means(c, <<stack, w>>, y) /\ <<c, <<stack, w>>, y>> \in Meaning
               /\ Tail(tasks) \in Seq(Tasks)
               /\ Path(Meaning, Tail(tasks), y, <<<<body>>, <<>>>>)
<1>1. PICK F \in Seq(Nat), w \in Seq(AllValues) :
          /\ Len(F) = body.size /\ Agrees(stream, F)
          /\ Ran(F, <<w, at>>, <<<<>>, Len(F)>>)
          /\ Path(Meaning, tasks, <<stack, w>>, <<<<body>>, <<>>>>)
    BY DEF BodyKept, ReadsBack
<1>2. tasks \in Seq(Tasks) /\ at \in Nat /\ stack \in Seq(AllValues)
    BY DEF BodyKept, ReadsBack
<1>3. Head(tasks) \in Tasks /\ Tail(tasks) \in Seq(Tasks)
    BY <1>2, HeadThenTail
<1>4. PICK x, z : x = <<stack, w>> /\ z = <<<<body>>, <<>>>>
    OBVIOUS
<1>5. PICK y : <<Head(tasks), x, y>> \in Meaning /\ Path(Meaning, Tail(tasks), y, z)
    BY <1>1, <1>2, <1>4, PathFirst
<1>6. PICK c : c = Head(tasks)
    OBVIOUS
<1>7. y \in Halves /\ Means(c, x, y)
    BY <1>5, <1>6, Meant
<1>. QED  BY <1>1, <1>2, <1>3, <1>4, <1>5, <1>6, <1>7

\* The call is done when it left what it means.
LEMMA GoesOn ==
    ASSUME BodyKept, step = "read", body # Nothing,
           NEW F \in Seq(Nat), NEW w \in Seq(AllValues), NEW y \in Halves, at' \in Nat,
           Len(F) = body.size, Agrees(stream, F), Ran(F, <<w, at'>>, <<<<>>, Len(F)>>),
           Tail(tasks) \in Seq(Tasks), Path(Meaning, Tail(tasks), y, <<<<body>>, <<>>>>),
           y[2] = w, stack' = y[1], tasks' = <<>> \o Tail(tasks),
           type' = type, body' = body, stream' = stream, step' = step
    PROVE  BodyKept'
<1>1. tasks' = Tail(tasks)
    BY NoCallsBefore
<1>2. y = <<stack', w>> /\ stack' \in Seq(AllValues)
    BY DEF Halves
<1>3. ReadsBack'
    BY <1>1, <1>2 DEF ReadsBack
<1>. QED  BY <1>3 DEF BodyKept

\* The same where no byte is read.
LEMMA KeepsOn ==
    ASSUME BodyKept, step = "read", body # Nothing,
           NEW F \in Seq(Nat), NEW w \in Seq(AllValues), NEW y \in Halves, at \in Nat,
           Len(F) = body.size, Agrees(stream, F), Ran(F, <<w, at>>, <<<<>>, Len(F)>>),
           Tail(tasks) \in Seq(Tasks), Path(Meaning, Tail(tasks), y, <<<<body>>, <<>>>>),
           y[2] = w, stack' = y[1], at' = at, tasks' = <<>> \o Tail(tasks),
           type' = type, body' = body, stream' = stream, step' = step
    PROVE  BodyKept'
<1>1. Ran(F, <<w, at'>>, <<<<>>, Len(F)>>) /\ at' \in Nat
    OBVIOUS
<1>. QED  BY <1>1, GoesOn

\* A sequence one value in front of s.
LEMMA TopAre ==
    ASSUME NEW v \in AllValues, NEW s \in Seq(AllValues), NEW q, q = <<v>> \o s
    PROVE  Head(q) = v /\ Tail(q) = s /\ q \in Seq(AllValues)
BY InFront

\* The byte of a bool becomes the bool it was written for.
LEMMA ReadNonzeroKeeps ==
    ASSUME BodyKept, ReadNonzero, body # Nothing PROVE BodyKept'
<1>1. step = "read" /\ tasks # <<>> /\ Head(tasks).op = "nonzero"
    BY DEF ReadNonzero, Reading
<1>2. PICK c \in Tasks, F \in Seq(Nat), w \in Seq(AllValues), y \in Halves :
          /\ c = Head(tasks) /\ at \in Nat /\ stack \in Seq(AllValues)
          /\ Len(F) = body.size /\ Agrees(stream, F)
          /\ Ran(F, <<w, at>>, <<<<>>, Len(F)>>)
          /\ Means(c, <<stack, w>>, y)
          /\ Tail(tasks) \in Seq(Tasks)
          /\ Path(Meaning, Tail(tasks), y, <<<<body>>, <<>>>>)
    BY <1>1, NextMeans
<1>3. PICK n \in {0, 1}, s \in Seq(AllValues) :
          stack = <<IntValue(1, n)>> \o s /\ y[1] = <<BoolValue(n)>> \o s /\ y[2] = w
    BY <1>1, <1>2 DEF Means
<1>8. IntValue(1, n) \in AllValues
    BY AmongValues
<1>9. IntValue(1, n).n = n
    BY DEF IntValue, Value
<1>4. PICK i \in AllValues : i = IntValue(1, n) /\ i.n = n
    BY <1>8, <1>9
<1>5. Head(stack) = i /\ Tail(stack) = s
    BY <1>3, <1>4, TopAre
<1>6. Truth(Head(stack).n) = n
    BY <1>4, <1>5 DEF Truth
<1>7. /\ tasks' = <<>> \o Tail(tasks) /\ stack' = y[1] /\ at' = at
      /\ type' = type /\ body' = body /\ stream' = stream /\ step' = step
    BY <1>3, <1>5, <1>6 DEF ReadNonzero, Then
<1>. QED  BY <1>1, <1>2, <1>3, <1>7, KeepsOn

\* A value read for an Option becomes Some of it.
LEMMA WrapSomeKeeps ==
    ASSUME BodyKept, WrapSome, body # Nothing PROVE BodyKept'
<1>1. step = "read" /\ tasks # <<>> /\ Head(tasks).op = "wrap"
    BY DEF WrapSome, Reading
<1>2. PICK c \in Tasks, F \in Seq(Nat), w \in Seq(AllValues), y \in Halves :
          /\ c = Head(tasks) /\ at \in Nat /\ stack \in Seq(AllValues)
          /\ Len(F) = body.size /\ Agrees(stream, F)
          /\ Ran(F, <<w, at>>, <<<<>>, Len(F)>>)
          /\ Means(c, <<stack, w>>, y)
          /\ Tail(tasks) \in Seq(Tasks)
          /\ Path(Meaning, Tail(tasks), y, <<<<body>>, <<>>>>)
    BY <1>1, NextMeans
<1>3. PICK v \in AllValues, s \in Seq(AllValues) :
          stack = <<v>> \o s /\ y[1] = <<SomeValue(v)>> \o s /\ y[2] = w
    BY <1>1, <1>2 DEF Means
<1>4. Head(stack) = v /\ Tail(stack) = s
    BY <1>3, TopAre
<1>5. /\ tasks' = <<>> \o Tail(tasks) /\ stack' = y[1] /\ at' = at
      /\ type' = type /\ body' = body /\ stream' = stream /\ step' = step
    BY <1>3, <1>4 DEF WrapSome, Then
<1>. QED  BY <1>1, <1>2, <1>3, <1>5, KeepsOn

\* An assignment leaves the values read as they are.
LEMMA AssignItemKeeps ==
    ASSUME BodyKept, AssignItem, body # Nothing PROVE BodyKept'
<1>1. step = "read" /\ tasks # <<>> /\ Head(tasks).op = "assign"
    BY DEF AssignItem, Reading
<1>2. PICK c \in Tasks, F \in Seq(Nat), w \in Seq(AllValues), y \in Halves :
          /\ c = Head(tasks) /\ at \in Nat /\ stack \in Seq(AllValues)
          /\ Len(F) = body.size /\ Agrees(stream, F)
          /\ Ran(F, <<w, at>>, <<<<>>, Len(F)>>)
          /\ Means(c, <<stack, w>>, y)
          /\ Tail(tasks) \in Seq(Tasks)
          /\ Path(Meaning, Tail(tasks), y, <<<<body>>, <<>>>>)
    BY <1>1, NextMeans
<1>3. y = <<stack, w>>
    BY <1>1, <1>2 DEF Means
<1>4. /\ tasks' = <<>> \o Tail(tasks) /\ stack' = y[1] /\ at' = at
      /\ type' = type /\ body' = body /\ stream' = stream /\ step' = step
    BY <1>3 DEF AssignItem, Then
<1>. QED  BY <1>1, <1>2, <1>3, <1>4, KeepsOn

\* The items collected are those written, in their order.
LEMMA CollectKeeps ==
    ASSUME BodyKept, Collect, body # Nothing PROVE BodyKept'
<1>1. step = "read" /\ tasks # <<>> /\ Head(tasks).op = "collect"
    BY DEF Collect, Reading
<1>2. PICK c \in Tasks, F \in Seq(Nat), w \in Seq(AllValues), y \in Halves :
          /\ c = Head(tasks) /\ at \in Nat /\ stack \in Seq(AllValues)
          /\ Len(F) = body.size /\ Agrees(stream, F)
          /\ Ran(F, <<w, at>>, <<<<>>, Len(F)>>)
          /\ Means(c, <<stack, w>>, y)
          /\ Tail(tasks) \in Seq(Tasks)
          /\ Path(Meaning, Tail(tasks), y, <<<<body>>, <<>>>>)
    BY <1>1, NextMeans
<1>3. PICK items \in Seq(AllValues), s \in Seq(AllValues) :
          /\ Len(items) = c.of.width
          /\ stack = Upturned(items, Len(items)) \o s
          /\ y[1] = <<ManyValue(c.of.kind, items)>> \o s /\ y[2] = w
    BY <1>1, <1>2 DEF Means
<1>4. PICK n : n = Len(items) /\ n = c.of.width
    BY <1>3
<1>7. PICK st : st = stack
    OBVIOUS
<1>8. st = Upturned(items, Len(items)) \o s
    BY <1>3, <1>7
<1>5. Collected(n) = items /\ SubSeq(stack, n + 1, Len(stack)) = s
  <2>1. TakenOff(st, Len(items)) = items /\ LeftOn(st, Len(items)) = s
    BY <1>8, CollectsItems
  <2>. QED  BY <1>4, <1>7, <2>1 DEF Collected, TakenOff, LeftOn
<1>6. /\ tasks' = <<>> \o Tail(tasks) /\ stack' = y[1] /\ at' = at
      /\ type' = type /\ body' = body /\ stream' = stream /\ step' = step
    BY <1>2, <1>3, <1>4, <1>5 DEF Collect, Then
<1>. QED  BY <1>1, <1>2, <1>3, <1>6, KeepsOn

\* What a value of a type of bytes is of the bytes it writes.
LEMMA BytesForm ==
    ASSUME NEW t, NEW v, OfType(v, t), t.kind \in {"int", "bytes"}
    PROVE  /\ Parts(v) = <<>> /\ t.width = Len(Direct(v))
           /\ t.kind = "int" => v = IntValue(t.width, FromBigEndian(Direct(v)))
           /\ t.kind # "int" => v = Value("bytes", t.width, <<Direct(v)>>, t.width)
<1>. DEFINE Goal == /\ Parts(v) = <<>> /\ t.width = Len(Direct(v))
                    /\ (t.kind = "int" => v = IntValue(t.width, FromBigEndian(Direct(v))))
                    /\ (t.kind # "int" => v = Value("bytes", t.width, <<Direct(v)>>, t.width))
<1>1. ASSUME NEW w \in Nat, NEW n \in Nat, t = IntType(w), v = IntValue(w, n), n < BytePower[w]
      PROVE  Goal
  <2>1. PICK d : d = Direct(v)
    OBVIOUS
  <2>2. d = BigEndian(w, n) /\ Parts(v) = <<>>
    BY <1>1, <2>1, IntWrites
  <2>3. Len(d) = w /\ FromBigEndian(d) = n
    BY <1>1, <2>2, BigEndianRoundTrip
  <2>4. t.width = w /\ t.kind = "int"
    BY <1>1 DEF IntType, Type
  <2>. QED  BY <1>1, <2>1, <2>2, <2>3, <2>4
<1>2. ASSUME NEW w \in Nat, NEW b \in [1..w -> 0..(ByteBase - 1)],
             t = BytesType(w), v = Value("bytes", w, <<b>>, w)
      PROVE  Goal
  <2>1. Direct(v) = b /\ Parts(v) = <<>>
    BY <1>2, BytesWrites
  <2>2. Len(b) = w
    <3>1. PICK S : S = 0..(ByteBase - 1)
        OBVIOUS
    <3>2. b \in [1..w -> S]
        BY <3>1
    <3>. QED  BY <3>2
  <2>3. t.width = w /\ t.kind = "bytes"
    BY <1>2 DEF BytesType, Type
  <2>. QED  BY <1>2, <2>1, <2>2, <2>3
<1>. HIDE DEF Goal
<1>3. ASSUME t = BoolType PROVE FALSE
    BY <1>3 DEF BoolType, Type
<1>4. ASSUME NEW u, t = OptionOf(u) \/ t = Owned(u) PROVE FALSE
    BY <1>4 DEF OptionOf, Owned, Type
<1>8. ASSUME NEW n, NEW u, t = ArrayOf(n, u) \/ t = PairOf(n, u) PROVE FALSE
    BY <1>8 DEF ArrayOf, PairOf, Type
<1>5. ASSUME \E w, n \in Nat : t = IntType(w) /\ v = IntValue(w, n) /\ n < BytePower[w] PROVE Goal
    BY <1>1, <1>5
<1>6. ASSUME \E w \in Nat : \E b \in [1..w -> 0..(ByteBase - 1)] :
                 t = BytesType(w) /\ v = Value("bytes", w, <<b>>, w)
      PROVE  Goal
    BY <1>2, <1>6
<1>9. ASSUME \E u \in Types : /\ t = OptionOf(u)
                              /\ v = NoneValue \/ \E x : OfType(x, u) /\ v = SomeValue(x)
      PROVE  Goal
    BY <1>4, <1>9
<1>10. ASSUME \E n \in Nat, u \in Types : \E items \in Seq(AllValues) :
                  /\ t = ArrayOf(n, u) /\ v = ManyValue("array", items)
                  /\ Len(items) = n /\ \A i \in 1..n : OfType(items[i], u)
       PROVE  Goal
    BY <1>8, <1>10
<1>11. ASSUME \E q, u \in Types : \E x, y : /\ t = PairOf(q, u) /\ v = ManyValue("tuple", <<x, y>>)
                                            /\ OfType(x, q) /\ OfType(y, u)
       PROVE  Goal
    BY <1>8, <1>11
<1>12. ASSUME \E u \in Types : t = Owned(u) /\ OfType(v, u) PROVE Goal
    BY <1>4, <1>12
<1>7. Goal
    BY <1>3, <1>5, <1>6, <1>9, <1>10, <1>11, <1>12, ValueCases
<1>. QED  BY <1>7 DEF Goal

\* The writer's next value v over all of F, and where it went on from there.
WritesNext(F, v, r, a) ==
    \E d \in Seq(Nat), l \in Nat, p \in Seq(AllValues) :
        /\ d = Direct(v) /\ l = Len(d) /\ p = Parts(v) /\ a + l <= Len(F)
        /\ d = SubSeq(F, a + 1, a + l)
        /\ Ran(F, <<p \o r, a + l>>, <<<<>>, Len(F)>>)

LEMMA NextWritten ==
    ASSUME NEW F, NEW v \in AllValues, NEW r \in Seq(AllValues), NEW a \in Nat,
           NEW w, w = <<v>> \o r, Ran(F, <<w, a>>, <<<<>>, Len(F)>>)
    PROVE  WritesNext(F, v, r, a)
<1>1. PICK d \in Seq(Nat), p \in Seq(AllValues) : d = Direct(v) /\ p = Parts(v)
    BY WritesItsSize
<1>2. PICK l \in Nat : l = Len(d)
    BY <1>1, LenProperties
<1>3. w # <<>> /\ Head(w) = v /\ Tail(w) = r
    BY InFront
<1>4. PICK x, y : x = <<w, a>> /\ y = <<<<>>, Len(F)>>
    OBVIOUS
<1>5. x # y
    BY <1>3, <1>4
<1>6. PICK z : x \in Stages /\ z \in Stages /\ Written(F, x, z) /\ Ran(F, z, y)
    BY <1>4, <1>5, RanFirst
<1>7. z[1] = p \o r /\ z[2] = a + l /\ z[2] <= Len(F) /\ d = SubSeq(F, a + 1, z[2])
  <2>1. x[1] = w /\ x[2] = a
    BY <1>4
  <2>. QED  BY <1>1, <1>2, <1>3, <1>6, <2>1 DEF Written
<1>8. z = <<p \o r, a + l>>
    BY <1>6, <1>7, SMTT(30) DEF Stages
<1>. QED  BY <1>1, <1>2, <1>4, <1>6, <1>7, <1>8 DEF WritesNext

\* Bytes of the stream are those written.
LEMMA AgreeOn ==
    ASSUME NEW F \in Seq(Nat), NEW s \in Seq(Nat), Agrees(s, F), NEW a \in Nat, NEW l \in Nat,
           a + l <= Len(F), a + l <= Len(s)
    PROVE  SubSeq(s, a + 1, a + l) = SubSeq(F, a + 1, a + l)
<1>1. PICK k, b \in Int : k = a + 1 /\ b = a + l
    OBVIOUS
<1>2. \A i \in k..b : s[i] = F[i] /\ s[i] \in Nat /\ F[i] \in Nat
  <2>1. \A i \in k..b : i \in 1..Len(F) /\ i \in 1..Len(s)
    BY <1>1, LenProperties
  <2>2. \A i \in k..b : s[i] = F[i]
    BY <2>1 DEF Agrees
  <2>. QED  BY <2>1, <2>2, ElementOfSeq
<1>3. PICK p, q : p = SubSeq(s, k, b) /\ q = SubSeq(F, k, b)
    OBVIOUS
<1>4. /\ p \in Seq(Nat) /\ Len(p) = IF k <= b THEN b - k + 1 ELSE 0
      /\ \A i \in 1..(b - k + 1) : p[i] = s[k + i - 1]
    BY <1>2, <1>3, SubSeqProperties
<1>5. /\ q \in Seq(Nat) /\ Len(q) = IF k <= b THEN b - k + 1 ELSE 0
      /\ \A i \in 1..(b - k + 1) : q[i] = F[k + i - 1]
    BY <1>2, <1>3, SubSeqProperties
<1>6. ASSUME NEW i \in 1..Len(p) PROVE p[i] = q[i]
  <2>1. i \in 1..(b - k + 1) /\ k + i - 1 \in k..b
    BY <1>4
  <2>. QED  BY <1>2, <1>4, <1>5, <2>1
<1>7. p = q
    BY <1>4, <1>5, <1>6, SeqEqual
<1>. QED  BY <1>1, <1>3, <1>7

\* read_exact of the bytes of an integer or of Bytes<N>.
LEMMA ReadBytesKeeps ==
    ASSUME BodyKept, ReadBytes, body # Nothing PROVE BodyKept'
<1>1. /\ step = "read" /\ tasks # <<>> /\ Head(tasks).op = "read"
      /\ Head(tasks).of.kind \in {"int", "bytes"} /\ stream \in Seq(Nat) /\ body \in AllValues
    BY DEF ReadBytes, Reading, BodyKept
<1>2. PICK c \in Tasks, F \in Seq(Nat), w \in Seq(AllValues), y \in Halves :
          /\ c = Head(tasks) /\ at \in Nat /\ stack \in Seq(AllValues)
          /\ Len(F) = body.size /\ Agrees(stream, F)
          /\ Ran(F, <<w, at>>, <<<<>>, Len(F)>>)
          /\ Means(c, <<stack, w>>, y)
          /\ Tail(tasks) \in Seq(Tasks)
          /\ Path(Meaning, Tail(tasks), y, <<<<body>>, <<>>>>)
    BY <1>1, NextMeans
<1>3. PICK v \in AllValues : OfType(v, c.of) /\ w = <<v>> \o y[2] /\ y[1] = <<v>> \o stack
    BY <1>1, <1>2 DEF Means
<1>4. PICK r \in Seq(AllValues) : r = y[2]
    BY DEF Halves
<1>13. PICK x : x = w
    OBVIOUS
<1>5. PICK a \in Nat : x = w /\ a = at
    BY <1>2, <1>13
<1>6. Ran(F, <<x, a>>, <<<<>>, Len(F)>>) /\ x = <<v>> \o r
    BY <1>2, <1>3, <1>4, <1>5
<1>7. PICK d \in Seq(Nat), l \in Nat, p \in Seq(AllValues) :
          /\ d = Direct(v) /\ l = Len(d) /\ p = Parts(v) /\ a + l <= Len(F)
          /\ d = SubSeq(F, a + 1, a + l)
          /\ Ran(F, <<p \o r, a + l>>, <<<<>>, Len(F)>>)
  <2>1. WritesNext(F, v, r, a)
    BY <1>6, NextWritten
  <2>. QED  BY <2>1 DEF WritesNext
<1>8. /\ p = <<>> /\ c.of.width = l
      /\ c.of.kind = "int" => v = IntValue(l, FromBigEndian(d))
      /\ c.of.kind # "int" => v = Value("bytes", l, <<d>>, l)
    BY <1>1, <1>2, <1>3, <1>7, BytesForm
<1>9. Ran(F, <<r, a + l>>, <<<<>>, Len(F)>>)
  <2>1. p \o r = r
    BY <1>8, ConcatEmptySeq
  <2>. QED  BY <1>7, <2>1
<1>12. PICK s \in Seq(Nat) : s = stream
    BY <1>1
<1>10. CASE at + l <= Len(stream)
  <2>4. a + l <= Len(s) /\ a + l <= Len(F) /\ Agrees(s, F)
    BY <1>2, <1>5, <1>7, <1>10, <1>12
  <2>5. SubSeq(s, a + 1, a + l) = SubSeq(F, a + 1, a + l)
    BY <2>4, AgreeOn
  <2>1. Take(l) = d
    BY <1>5, <1>7, <1>12, <2>5 DEF Take
  <2>2. /\ tasks' = <<>> \o Tail(tasks) /\ stack' = y[1] /\ at' = a + l
        /\ type' = type /\ body' = body /\ stream' = stream /\ step' = step
    BY <1>2, <1>3, <1>5, <1>8, <1>10, <2>1 DEF ReadBytes, Then
  <2>3. Ran(F, <<r, at'>>, <<<<>>, Len(F)>>) /\ at' \in Nat
    BY <1>9, <2>2
  <2>. QED  BY <1>1, <1>2, <1>4, <2>2, <2>3, GoesOn
<1>11. CASE ~(at + l <= Len(stream))
  <2>1. /\ step' = "eof" /\ UNCHANGED <<body, stream>>
    BY <1>2, <1>8, <1>11 DEF ReadBytes
  <2>3. PICK m, n \in Nat : m = Len(s) /\ n = Len(F)
    BY LenProperties
  <2>4. a + l <= n /\ ~(a + l <= m)
    BY <1>5, <1>7, <1>11, <1>12, <2>3
  <2>2. Len(stream) < body.size
    BY <1>2, <1>12, <2>3, <2>4
  <2>. QED  BY <1>1, <2>1, <2>2 DEF BodyKept
<1>. QED  BY <1>10, <1>11

\* The call makes calls of its own that together leave what it means.
LEMMA CallsOn ==
    ASSUME BodyKept, step = "read", body # Nothing,
           NEW F \in Seq(Nat), NEW w \in Seq(AllValues), NEW y, at \in Nat,
           Len(F) = body.size, Agrees(stream, F), Ran(F, <<w, at>>, <<<<>>, Len(F)>>),
           NEW calls \in Seq(Tasks), stack' \in Seq(AllValues), Path(Meaning, calls, <<stack', w>>, y),
           Tail(tasks) \in Seq(Tasks), Path(Meaning, Tail(tasks), y, <<<<body>>, <<>>>>),
           at' = at, tasks' = calls \o Tail(tasks),
           type' = type, body' = body, stream' = stream, step' = step
    PROVE  BodyKept'
<1>1. PICK rest, x, z :
          /\ rest = Tail(tasks) /\ rest \in Seq(Tasks)
          /\ x = <<stack', w>> /\ z = <<<<body>>, <<>>>>
    OBVIOUS
<1>2. calls \o rest \in Seq(Tasks) /\ Path(Meaning, calls \o rest, x, z)
    BY <1>1, CallsBefore
<1>3. ReadsBack'
    BY <1>1, <1>2 DEF ReadsBack
<1>. QED  BY <1>3 DEF BodyKept

\* A composed type's calls are made in place of its own.
LEMMA ReadComposedKeeps ==
    ASSUME BodyKept, ReadComposed, body # Nothing PROVE BodyKept'
<1>1. /\ step = "read" /\ tasks # <<>> /\ Head(tasks).op = "read"
      /\ Head(tasks).of.kind \notin {"int", "bytes"}
    BY DEF ReadComposed, Reading
<1>2. PICK c \in Tasks, F \in Seq(Nat), w \in Seq(AllValues), y \in Halves :
          /\ c = Head(tasks) /\ at \in Nat /\ stack \in Seq(AllValues)
          /\ Len(F) = body.size /\ Agrees(stream, F)
          /\ Ran(F, <<w, at>>, <<<<>>, Len(F)>>)
          /\ Means(c, <<stack, w>>, y)
          /\ Tail(tasks) \in Seq(Tasks)
          /\ Path(Meaning, Tail(tasks), y, <<<<body>>, <<>>>>)
    BY <1>1, NextMeans
<1>3. PICK v \in AllValues : OfType(v, c.of) /\ w = <<v>> \o y[2] /\ y[1] = <<v>> \o stack
    BY <1>1, <1>2 DEF Means
<1>4. PICK r \in Seq(AllValues), s \in Seq(AllValues) : r = y[2] /\ s = stack
    BY <1>2 DEF Halves
<1>5. y = <<<<v>> \o s, r>>
    BY <1>3, <1>4 DEF Halves
<1>6. PICK t \in Types : t = c.of
    BY DEF Tasks
<1>7. t.kind \notin {"int", "bytes"} /\ OfType(v, t)
    BY <1>1, <1>2, <1>3, <1>6
<1>8. PICK calls \in Seq(Tasks) : calls = Calls(t)
    BY <1>7, CallsAreTasks
<1>9. \/ Path(Meaning, calls, <<s, <<v>> \o r>>, y)
      \/ Direct(v) = <<>> /\ Path(Meaning, calls, <<s, Parts(v) \o r>>, y)
    BY <1>5, <1>7, <1>8, CallsMean
<1>10. /\ tasks' = calls \o Tail(tasks) /\ stack' = s /\ at' = at
       /\ type' = type /\ body' = body /\ stream' = stream /\ step' = step
    BY <1>2, <1>4, <1>6, <1>8 DEF ReadComposed, Then
<1>11. ASSUME Path(Meaning, calls, <<s, <<v>> \o r>>, y) PROVE BodyKept'
  <2>1. Path(Meaning, calls, <<stack', w>>, y) /\ stack' \in Seq(AllValues)
    BY <1>3, <1>4, <1>10, <1>11
  <2>. QED  BY <1>1, <1>2, <1>10, <2>1, CallsOn
<1>12. ASSUME Direct(v) = <<>>, Path(Meaning, calls, <<s, Parts(v) \o r>>, y) PROVE BodyKept'
  <2>1. PICK x : x = w
    OBVIOUS
  <2>2. PICK a \in Nat : a = at
    BY <1>2
  <2>3. Ran(F, <<x, a>>, <<<<>>, Len(F)>>) /\ x = <<v>> \o r
    BY <1>2, <1>3, <1>4, <2>1, <2>2
  <2>4. PICK d \in Seq(Nat), l \in Nat, p \in Seq(AllValues) :
            /\ d = Direct(v) /\ l = Len(d) /\ p = Parts(v)
            /\ Ran(F, <<p \o r, a + l>>, <<<<>>, Len(F)>>)
    <3>1. WritesNext(F, v, r, a)
        BY <2>3, NextWritten
    <3>. QED  BY <3>1 DEF WritesNext
  <2>5. a + l = at
    BY <1>12, <2>2, <2>4
  <2>6. PICK u \in Seq(AllValues) : u = p \o r
    BY ConcatProperties
  <2>7. Ran(F, <<u, at>>, <<<<>>, Len(F)>>)
    BY <2>4, <2>5, <2>6
  <2>8. Path(Meaning, calls, <<stack', u>>, y) /\ stack' \in Seq(AllValues)
    BY <1>4, <1>10, <1>12, <2>4, <2>6
  <2>. QED  BY <1>1, <1>2, <1>10, <2>7, <2>8, CallsOn
<1>. QED  BY <1>9, <1>11, <1>12

\* After its tag, the value of a Some is read and becomes one.
ReadsAndWraps(t, u, x, y) ==
    \E calls \in Seq(Tasks) : /\ calls = <<Task("read", u), Task("wrap", t)>>
                              /\ Path(Meaning, calls, x, y)

LEMMA SomeAfterTag ==
    ASSUME NEW t \in Types, NEW u \in Types, t = OptionOf(u), NEW v, OfType(v, u),
           NEW s \in Seq(AllValues), NEW r \in Seq(AllValues), NEW w, w = <<v>> \o r,
           NEW y \in Halves, y[1] = <<SomeValue(v)>> \o s, y[2] = r
    PROVE  ReadsAndWraps(t, u, <<s, w>>, y)
<1>1. v \in AllValues
    BY ValueSized
<1>2. PICK a \in Tasks : a = Task("read", u)
    BY TasksAre DEF Ops
<1>3. PICK b \in Tasks : b = Task("wrap", t) /\ b.op = "wrap"
    BY TasksAre DEF Ops
<1>4. PICK p \in Seq(AllValues) : p = <<v>> \o s
    BY <1>1, InFront
<1>5. PICK x, z : x = <<s, <<v>> \o r>> /\ z = <<<<v>> \o s, r>>
    OBVIOUS
<1>6. <<a, x, z>> \in Meaning
    BY <1>2, <1>5, ReadsNext
<1>7. z \in Halves
    BY <1>6, Meant
<1>8. z[1] = <<v>> \o s /\ y[2] = z[2]
    BY <1>4, <1>5
<1>9. Means(b, z, y)
    BY <1>1, <1>3, <1>8 DEF Means
<1>10. <<b, z, y>> \in Meaning
    BY <1>7, <1>9, Meant
<1>11. Path(Meaning, <<a, b>>, x, y)
    BY <1>6, <1>10, PathTwo
<1>12. <<a, b>> \in Seq(Tasks)
    OBVIOUS
<1>13. ReadsAndWraps(t, u, x, y)
    BY <1>2, <1>3, <1>11, <1>12 DEF ReadsAndWraps
<1>. QED  BY <1>5, <1>13

\* A tag is read as None, or goes on to the value of Some.
LEMMA ReadOptionKeeps ==
    ASSUME BodyKept, ReadOption, body # Nothing PROVE BodyKept'
<1>1. step = "read" /\ tasks # <<>> /\ Head(tasks).op = "some"
    BY DEF ReadOption, Reading
<1>2. PICK c \in Tasks, F \in Seq(Nat), w \in Seq(AllValues), y \in Halves :
          /\ c = Head(tasks) /\ at \in Nat /\ stack \in Seq(AllValues)
          /\ Len(F) = body.size /\ Agrees(stream, F)
          /\ Ran(F, <<w, at>>, <<<<>>, Len(F)>>)
          /\ Means(c, <<stack, w>>, y)
          /\ Tail(tasks) \in Seq(Tasks)
          /\ Path(Meaning, Tail(tasks), y, <<<<body>>, <<>>>>)
    BY <1>1, NextMeans
<1>3. \/ \E s \in Seq(AllValues) :
             stack = <<BoolValue(0)>> \o s /\ y[1] = <<NoneValue>> \o s /\ y[2] = w
      \/ \E u \in Types, v \in AllValues, s \in Seq(AllValues) :
             /\ c.of = OptionOf(u) /\ OfType(v, u)
             /\ stack = <<BoolValue(1)>> \o s /\ w = <<v>> \o y[2]
             /\ y[1] = <<SomeValue(v)>> \o s
    BY <1>1, <1>2 DEF Means
<1>4. BoolValue(0) \in AllValues /\ BoolValue(1) \in AllValues
    BY AmongValues
<1>5. BoolValue(0).n = 0 /\ BoolValue(1).n = 1
    BY DEF BoolValue, Value
<1>6. ASSUME NEW s \in Seq(AllValues),
             stack = <<BoolValue(0)>> \o s, y[1] = <<NoneValue>> \o s, y[2] = w
      PROVE  BodyKept'
  <2>1. PICK b \in AllValues : b = BoolValue(0) /\ b.n = 0
    BY <1>4, <1>5
  <2>2. Head(stack) = b /\ Tail(stack) = s
    BY <1>6, <2>1, TopAre
  <2>3. /\ tasks' = <<>> \o Tail(tasks) /\ stack' = y[1] /\ at' = at
        /\ type' = type /\ body' = body /\ stream' = stream /\ step' = step
    BY <1>6, <2>1, <2>2 DEF ReadOption, Then
  <2>. QED  BY <1>1, <1>2, <1>6, <2>3, KeepsOn
<1>7. ASSUME NEW u \in Types, NEW v \in AllValues, NEW s \in Seq(AllValues),
             c.of = OptionOf(u), OfType(v, u), stack = <<BoolValue(1)>> \o s,
             w = <<v>> \o y[2], y[1] = <<SomeValue(v)>> \o s
      PROVE  BodyKept'
  <2>1. PICK b \in AllValues : b = BoolValue(1) /\ b.n = 1
    BY <1>4, <1>5
  <2>2. Head(stack) = b /\ Tail(stack) = s
    BY <1>7, <2>1, TopAre
  <2>3. PICK t \in Types : t = c.of
    BY DEF Tasks
  <2>4. t = OptionOf(u) /\ t.of[1] = u
    BY <1>7, <2>3 DEF OptionOf, Type
  <2>5. PICK r \in Seq(AllValues) : r = y[2]
    BY DEF Halves
  <2>6. PICK x : x = w /\ x = <<v>> \o r
    BY <1>7, <2>5
  <2>7. PICK calls \in Seq(Tasks) : /\ calls = <<Task("read", u), Task("wrap", t)>>
                                    /\ Path(Meaning, calls, <<s, x>>, y)
    <3>1. ReadsAndWraps(t, u, <<s, x>>, y)
        BY <1>7, <2>4, <2>5, <2>6, SomeAfterTag
    <3>. QED  BY <3>1 DEF ReadsAndWraps
  <2>10. Head(stack).n # 0
    BY <2>1, <2>2
  <2>11. calls = <<Task("read", Head(tasks).of.of[1]), Task("wrap", Head(tasks).of)>>
    BY <1>2, <2>3, <2>4, <2>7
  <2>8. /\ tasks' = calls \o Tail(tasks) /\ stack' = s /\ at' = at
        /\ type' = type /\ body' = body /\ stream' = stream /\ step' = step
    BY <2>2, <2>10, <2>11 DEF ReadOption, Then
  <2>9. Path(Meaning, calls, <<stack', w>>, y) /\ stack' \in Seq(AllValues)
    BY <2>6, <2>7, <2>8
  <2>. QED  BY <1>1, <1>2, <2>8, <2>9, CallsOn
<1>. QED  BY <1>3, <1>6, <1>7

\* With no call left, the value is the one written, all its bytes read.
LEMMA BodyReadKeeps ==
    ASSUME BodyKept, BodyRead, body # Nothing PROVE BodyKept'
<1>1. step = "read" /\ tasks = <<>> /\ step' = "done" /\ UNCHANGED <<body, stream, at, stack>>
    BY DEF BodyRead
<1>2. ReadsBack /\ body \in AllValues /\ stream \in Seq(Nat)
    BY <1>1 DEF BodyKept
<1>3. PICK F \in Seq(Nat), w \in Seq(AllValues) :
           /\ Len(F) = body.size /\ Ran(F, <<w, at>>, <<<<>>, Len(F)>>)
           /\ Path(Meaning, <<>>, <<stack, w>>, <<<<body>>, <<>>>>)
    BY <1>1, <1>2 DEF ReadsBack
<1>4. <<stack, w>> = <<<<body>>, <<>>>>
  <2>1. PICK x, y : x = <<stack, w>> /\ y = <<<<body>>, <<>>>>
    OBVIOUS
  <2>2. x = y
    BY <1>3, <2>1, PathNone
  <2>. QED  BY <2>1, <2>2
<1>5. stack = <<body>> /\ w = <<>>
    BY <1>4
<1>6. at = Len(F)
  <2>1. PICK x, y : x = <<<<>>, at>> /\ y = <<<<>>, Len(F)>>
    OBVIOUS
  <2>2. Ran(F, x, y)
    BY <1>3, <1>5, <2>1
  <2>3. ~\E z : Written(F, x, z)
    BY <2>1 DEF Written
  <2>4. x = y
    BY <2>2, <2>3, RanFirst
  <2>. QED  BY <2>1, <2>4
<1>7. Head(stack) = body
    BY <1>5
<1>. QED  BY <1>1, <1>2, <1>3, <1>6, <1>7 DEF BodyKept

\* A body begins with nothing written or read.
LEMMA BodyBeginKeeps ==
    ASSUME SizesAccounted, BodyBegin PROVE BodyKept'
<1>1. at' = 0 /\ step' # "none"
    BY DEF BodyBegin, SizesAccounted
<1>2. PICK shape \in Shapes :
          /\ type' = shape.type
          /\ \/ \E v \in shape.values :
                    body' = v /\ tasks' = <<v>> /\ stream' = <<>> /\ step' = "write"
             \/ body' = Nothing
    BY DEF BodyBegin
<1>3. ASSUME NEW v \in shape.values, body' = v, tasks' = <<v>>, stream' = <<>>, step' = "write"
      PROVE  BodyKept'
  <2>1. v \in AllValues
    BY AmongValues
  <2>2. OfType(v, type')
    BY <1>2 DEF OfType
  <2>3. PICK x : x = <<<<v>>, 0>>
    OBVIOUS
  <2>4. PICK F : F = stream'
    OBVIOUS
  <2>5. Ran(F, x, x)
    BY RanNowhere
  <2>6. Ran(stream', <<<<body'>>, 0>>, <<tasks', at'>>)
    BY <1>1, <1>3, <2>3, <2>4, <2>5
  <2>. QED  BY <1>1, <1>3, <2>1, <2>2, <2>6 DEF BodyKept
<1>4. ASSUME body' = Nothing PROVE BodyKept'
    BY <1>1, <1>4 DEF BodyKept
<1>. QED  BY <1>2, <1>3, <1>4

\* The invariant holds before a body, and no step of a body ends it.
LEMMA NoBodyKept == BodyNone => BodyKept
BY DEF BodyNone, BodyKept

\* Every step of a body keeps the two sides in step.
LEMMA BodyKeeps ==
    ASSUME SizesAccounted, BodyKept, BodyBegin \/ BodyStep \/ UNCHANGED bodyVars
    PROVE  BodyKept'
<1>1. CASE UNCHANGED bodyVars
    BY <1>1 DEF bodyVars, BodyKept, ReadsBack
<1>2. CASE BodyBegin
    BY <1>2, BodyBeginKeeps
<1>3. CASE BodyStep /\ body = Nothing
  <2>1. body' = body /\ step' # "none"
    BY <1>3 DEF BodyStep, WriteValue, BodySent, ReadBytes, ReadComposed, ReadNonzero, ReadOption,
       WrapSome, AssignItem, Collect, BodyRead, Then, Reading
  <2>. QED  BY <1>3, <2>1 DEF BodyKept
<1>4. CASE BodyStep /\ body # Nothing
    BY <1>4, WriteValueKeeps, BodySentKeeps, ReadBytesKeeps, ReadComposedKeeps,
       ReadNonzeroKeeps, ReadOptionKeeps, WrapSomeKeeps, AssignItemKeeps,
       CollectKeeps, BodyReadKeeps DEF BodyStep
<1>. QED  BY <1>1, <1>2, <1>3, <1>4

\* What the invariant is for.
LEMMA KeptSuffices == BodyKept => BodyRoundTrip
BY DEF BodyKept, BodyRoundTrip
=============================================================================
