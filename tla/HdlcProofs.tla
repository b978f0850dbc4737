---------------------------- MODULE HdlcProofs ----------------------------
(***************************************************************************)
(* Proofs about Hdlc, for frames of any length and number: what is         *)
(* unpacked is what was packed, with the same verdict on the FCS.          *)
(***************************************************************************)
EXTENDS Hdlc, SequenceTheorems, NaturalsInduction, WellFoundedInduction, TLAPS

Bit == {0, 1}

(* Induction over the natural numbers, with the set of those for which it   *)
(* holds in the place of a formula: the least number outside of it would    *)
(* be 0 or the successor of one inside.                                     *)
LEMMA SetInduction ==
  ASSUME NEW T, 0 \in T, \A n \in Nat : n \in T => n + 1 \in T
  PROVE  \A n \in Nat : n \in T
<1> DEFINE R == OpToRel(<, Nat)
           F == {n \in Nat : n \notin T}
<1>1. IsWellFoundedOn(R, Nat)
  BY NatLessThanWellFounded
<1>2. ASSUME F # {} PROVE FALSE
  <2>1. \E x \in F : \A y \in F : ~(<<y, x>> \in R)
    <3>1. F \subseteq Nat
      OBVIOUS
    <3> HIDE DEF R, F
    <3> QED BY <1>1, <1>2, <3>1, WFMin
  <2>2. PICK x \in F : \A y \in F : ~(<<y, x>> \in R)
    BY <2>1
  <2>3. x # 0 /\ x \in Nat /\ x - 1 \in Nat
    OBVIOUS
  <2>4. x - 1 \in F
    <3>1. x - 1 + 1 = x
      BY <2>3
    <3> QED BY <2>3, <3>1
  <2>5. <<x - 1, x>> \in R
    BY <2>3, SMT DEF OpToRel
  <2> QED BY <2>2, <2>4, <2>5
<1> QED BY <1>2

(* The loop of Pack.  There is a function that satisfies its equation,    *)
(* for every number of passes.                                              *)
LEMMA PackLoops ==
  ASSUME NEW p, NEW s \in Seq(Bit)
  PROVE  \E f : /\ f[0] = p
                /\ \A n \in 1..Len(s) : f[n] = PackBit(f[n - 1], s[n])
                /\ Pack(p, s) = f[Len(s)]
<1> DEFINE x == p
           Loop(k, g) == g = [n \in 0..k |-> IF n = 0 THEN x ELSE PackBit(g[n - 1], s[n])]
           T == {k \in Nat : \E g : Loop(k, g)}
           N == Len(s)
           f == CHOOSE g : Loop(N, g)
<1>1. Pack(p, s) = f[N]
  BY DEF Pack
<1> HIDE DEF x
<1>2. 0 \in T
  <2> DEFINE g == [n \in 0..0 |-> x]
  <2>1. Loop(0, g)
    OBVIOUS
  <2> QED BY <2>1
<1>3. ASSUME NEW k \in Nat, k \in T PROVE k + 1 \in T
  <2>1. PICK g : Loop(k, g)
    BY <1>3
  <2> DEFINE h == [n \in 0..(k + 1) |-> IF n <= k THEN g[n] ELSE PackBit(g[k], s[n])]
  <2>2. ASSUME NEW n \in 0..(k + 1)
        PROVE  h[n] = IF n = 0 THEN x ELSE PackBit(h[n - 1], s[n])
    <3>1. CASE n = 0
      <4>1. 0 \in 0..k /\ 0 \in 0..(k + 1)
        OBVIOUS
      <4> QED BY <2>1, <3>1, <4>1
    <3>2. CASE n # 0 /\ n <= k
      <4>1. n \in 0..k /\ n - 1 \in 0..k /\ n - 1 \in 0..(k + 1) /\ n - 1 <= k
        BY <3>2
      <4>2. h[n] = g[n] /\ h[n - 1] = g[n - 1]
        BY <3>2, <4>1
      <4> HIDE DEF h
      <4> QED BY <2>1, <3>2, <4>1, <4>2
    <3>3. CASE n = k + 1
      <4>1. n - 1 = k /\ k \in 0..(k + 1) /\ ~(n <= k) /\ n # 0
        BY <3>3
      <4>2. h[n] = PackBit(g[k], s[n]) /\ h[k] = g[k]
        BY <4>1
      <4> HIDE DEF h
      <4> QED BY <4>1, <4>2
    <3>4. n = 0 \/ (n # 0 /\ n <= k) \/ n = k + 1
      OBVIOUS
    <3> QED BY <3>1, <3>2, <3>3, <3>4, Zenon
  <2>3. Loop(k + 1, h)
    <3>1. h = [n \in 0..(k + 1) |-> h[n]]
      OBVIOUS
    <3> HIDE DEF h
    <3> QED BY <2>2, <3>1
  <2>4. k + 1 \in Nat
    OBVIOUS
  <2> HIDE DEF Loop
  <2> QED BY <2>3, <2>4
<1>4. N \in T
  <2>1. N \in Nat
    OBVIOUS
  <2> HIDE DEF T, N
  <2> QED BY <1>2, <1>3, <2>1, SetInduction
<1>5. Loop(N, f)
  <2> HIDE DEF Loop
  <2> QED BY <1>4, Zenon
<1> HIDE DEF f
<1>6. f[0] = x /\ \A n \in 1..N : f[n] = PackBit(f[n - 1], s[n])
  BY <1>5
<1> QED BY <1>1, <1>6 DEF x

(* No pass.                                                                 *)
LEMMA PackZero ==
  ASSUME NEW p
  PROVE  Pack(p, <<>>) = p
<1>1. <<>> \in Seq(Bit) /\ Len(<<>>) = 0
  OBVIOUS
<1> QED BY <1>1, PackLoops

(* One pass more.                                                           *)
LEMMA PackNext ==
  ASSUME NEW p, NEW s \in Seq(Bit), NEW e \in Bit
  PROVE  Pack(p, Append(s, e)) = PackBit(Pack(p, s), e)
<1> DEFINE N == Len(s)
           t == Append(s, e)
<1>0. t \in Seq(Bit) /\ Len(t) = N + 1 /\ t[N + 1] = e /\ \A n \in 1..N : t[n] = s[n]
  OBVIOUS
<1>1. PICK f : /\ f[0] = p
               /\ \A n \in 1..N : f[n] = PackBit(f[n - 1], s[n])
               /\ Pack(p, s) = f[N]
  BY PackLoops
<1>2. PICK g : /\ g[0] = p
               /\ \A n \in 1..(N + 1) : g[n] = PackBit(g[n - 1], t[n])
               /\ Pack(p, t) = g[N + 1]
  <2>1. t \in Seq(Bit) /\ Len(t) = N + 1
    BY <1>0
  <2> HIDE DEF N, t
  <2>2. \E g : /\ g[0] = p
               /\ \A n \in 1..Len(t) : g[n] = PackBit(g[n - 1], t[n])
               /\ Pack(p, t) = g[Len(t)]
    BY <2>1, PackLoops
  <2> QED BY <2>1, <2>2
<1>3. N \in Nat
  OBVIOUS
<1> HIDE DEF N, t
<1> DEFINE T == {k \in Nat : k <= N => f[k] = g[k]}
<1>4. 0 \in T
  BY <1>1, <1>2
<1>5. ASSUME NEW k \in Nat, k \in T PROVE k + 1 \in T
  <2>1. CASE k + 1 <= N
    <3>1. k + 1 \in 1..N /\ k + 1 \in 1..(N + 1) /\ (k + 1) - 1 = k /\ f[k] = g[k]
      BY <1>3, <1>5, <2>1
    <3>2. f[k + 1] = PackBit(f[(k + 1) - 1], s[k + 1])
      BY <1>1, <3>1, Zenon
    <3>3. g[k + 1] = PackBit(g[(k + 1) - 1], t[k + 1])
      BY <1>2, <3>1, Zenon
    <3>4. t[k + 1] = s[k + 1]
      BY <1>0, <3>1, Zenon
    <3> QED BY <3>1, <3>2, <3>3, <3>4
  <2>2. CASE ~(k + 1 <= N)
    BY <2>2
  <2> QED BY <2>1, <2>2
<1>6. N \in T
  <2> HIDE DEF T
  <2> QED BY <1>3, <1>4, <1>5, SetInduction
<1>7. f[N] = g[N]
  BY <1>3, <1>6
<1>8. N + 1 \in 1..(N + 1) /\ (N + 1) - 1 = N
  BY <1>3
<1>9. g[N + 1] = PackBit(g[(N + 1) - 1], t[N + 1])
  BY <1>2, <1>8, Zenon
<1> QED BY <1>1, <1>2, <1>7, <1>8, <1>9, <1>0 DEF N, t

(* The loop of PackFlags.  There is a function that satisfies its equation,    *)
(* for every number of passes.                                              *)
LEMMA PackFlagsLoops ==
  ASSUME NEW p, NEW count \in Nat
  PROVE  \E f : /\ f[0] = p
                /\ \A n \in 1..count : f[n] = PackFlag(f[n - 1])
                /\ PackFlags(p, count) = f[count]
<1> DEFINE x == p
           Loop(k, g) == g = [n \in 0..k |-> IF n = 0 THEN x ELSE PackFlag(g[n - 1])]
           T == {k \in Nat : \E g : Loop(k, g)}
           N == count
           f == CHOOSE g : Loop(N, g)
<1>1. PackFlags(p, count) = f[N]
  BY DEF PackFlags
<1> HIDE DEF x
<1>2. 0 \in T
  <2> DEFINE g == [n \in 0..0 |-> x]
  <2>1. Loop(0, g)
    OBVIOUS
  <2> QED BY <2>1
<1>3. ASSUME NEW k \in Nat, k \in T PROVE k + 1 \in T
  <2>1. PICK g : Loop(k, g)
    BY <1>3
  <2> DEFINE h == [n \in 0..(k + 1) |-> IF n <= k THEN g[n] ELSE PackFlag(g[k])]
  <2>2. ASSUME NEW n \in 0..(k + 1)
        PROVE  h[n] = IF n = 0 THEN x ELSE PackFlag(h[n - 1])
    <3>1. CASE n = 0
      <4>1. 0 \in 0..k /\ 0 \in 0..(k + 1)
        OBVIOUS
      <4> QED BY <2>1, <3>1, <4>1
    <3>2. CASE n # 0 /\ n <= k
      <4>1. n \in 0..k /\ n - 1 \in 0..k /\ n - 1 \in 0..(k + 1) /\ n - 1 <= k
        BY <3>2
      <4>2. h[n] = g[n] /\ h[n - 1] = g[n - 1]
        BY <3>2, <4>1
      <4> HIDE DEF h
      <4> QED BY <2>1, <3>2, <4>1, <4>2
    <3>3. CASE n = k + 1
      <4>1. n - 1 = k /\ k \in 0..(k + 1) /\ ~(n <= k) /\ n # 0
        BY <3>3
      <4>2. h[n] = PackFlag(g[k]) /\ h[k] = g[k]
        BY <4>1
      <4> HIDE DEF h
      <4> QED BY <4>1, <4>2
    <3>4. n = 0 \/ (n # 0 /\ n <= k) \/ n = k + 1
      OBVIOUS
    <3> QED BY <3>1, <3>2, <3>3, <3>4, Zenon
  <2>3. Loop(k + 1, h)
    <3>1. h = [n \in 0..(k + 1) |-> h[n]]
      OBVIOUS
    <3> HIDE DEF h
    <3> QED BY <2>2, <3>1
  <2>4. k + 1 \in Nat
    OBVIOUS
  <2> HIDE DEF Loop
  <2> QED BY <2>3, <2>4
<1>4. N \in T
  <2>1. N \in Nat
    OBVIOUS
  <2> HIDE DEF T, N
  <2> QED BY <1>2, <1>3, <2>1, SetInduction
<1>5. Loop(N, f)
  <2> HIDE DEF Loop
  <2> QED BY <1>4, Zenon
<1> HIDE DEF f
<1>6. f[0] = x /\ \A n \in 1..N : f[n] = PackFlag(f[n - 1])
  BY <1>5
<1> QED BY <1>1, <1>6 DEF x

(* No pass.                                                                 *)
LEMMA PackFlagsZero ==
  ASSUME NEW p
  PROVE  PackFlags(p, 0) = p
<1>1. 0 \in Nat
  OBVIOUS
<1> QED BY <1>1, PackFlagsLoops

(* One pass more.                                                           *)
LEMMA PackFlagsNext ==
  ASSUME NEW p, NEW count \in Nat
  PROVE  PackFlags(p, count + 1) = PackFlag(PackFlags(p, count))
<1> DEFINE N == count
<1>1. PICK f : /\ f[0] = p
               /\ \A n \in 1..N : f[n] = PackFlag(f[n - 1])
               /\ PackFlags(p, count) = f[N]
  BY PackFlagsLoops
<1>2. PICK g : /\ g[0] = p
               /\ \A n \in 1..(N + 1) : g[n] = PackFlag(g[n - 1])
               /\ PackFlags(p, count + 1) = g[N + 1]
  <2>1. count + 1 \in Nat
    OBVIOUS
  <2> QED BY <2>1, PackFlagsLoops
<1>3. N \in Nat
  OBVIOUS
<1> HIDE DEF N
<1> DEFINE T == {k \in Nat : k <= N => f[k] = g[k]}
<1>4. 0 \in T
  BY <1>1, <1>2
<1>5. ASSUME NEW k \in Nat, k \in T PROVE k + 1 \in T
  <2>1. CASE k + 1 <= N
    <3>1. k + 1 \in 1..N /\ k + 1 \in 1..(N + 1) /\ (k + 1) - 1 = k /\ f[k] = g[k]
      BY <1>3, <1>5, <2>1
    <3>2. f[k + 1] = PackFlag(f[(k + 1) - 1])
      BY <1>1, <3>1, Zenon
    <3>3. g[k + 1] = PackFlag(g[(k + 1) - 1])
      BY <1>2, <3>1, Zenon
    <3> QED BY <3>1, <3>2, <3>3
  <2>2. CASE ~(k + 1 <= N)
    BY <2>2
  <2> QED BY <2>1, <2>2
<1>6. N \in T
  <2> HIDE DEF T
  <2> QED BY <1>3, <1>4, <1>5, SetInduction
<1>7. f[N] = g[N]
  BY <1>3, <1>6
<1>8. N + 1 \in 1..(N + 1) /\ (N + 1) - 1 = N
  BY <1>3
<1>9. g[N + 1] = PackFlag(g[(N + 1) - 1])
  BY <1>2, <1>8, Zenon
<1> QED BY <1>1, <1>2, <1>7, <1>8, <1>9 DEF N

(* The loop of UnpackFirst.  There is a function that satisfies its equation,    *)
(* for every number of passes.                                              *)
LEMMA UnpackFirstLoops ==
  ASSUME NEW u, NEW w, NEW count \in Nat
  PROVE  \E f : /\ f[0] = u
                /\ \A n \in 1..count : f[n] = UnpackBit(f[n - 1], w[n])
                /\ UnpackFirst(u, w, count) = f[count]
<1> DEFINE x == u
           Loop(k, g) == g = [n \in 0..k |-> IF n = 0 THEN x ELSE UnpackBit(g[n - 1], w[n])]
           T == {k \in Nat : \E g : Loop(k, g)}
           N == count
           f == CHOOSE g : Loop(N, g)
<1>1. UnpackFirst(u, w, count) = f[N]
  BY DEF UnpackFirst
<1> HIDE DEF x
<1>2. 0 \in T
  <2> DEFINE g == [n \in 0..0 |-> x]
  <2>1. Loop(0, g)
    OBVIOUS
  <2> QED BY <2>1
<1>3. ASSUME NEW k \in Nat, k \in T PROVE k + 1 \in T
  <2>1. PICK g : Loop(k, g)
    BY <1>3
  <2> DEFINE h == [n \in 0..(k + 1) |-> IF n <= k THEN g[n] ELSE UnpackBit(g[k], w[n])]
  <2>2. ASSUME NEW n \in 0..(k + 1)
        PROVE  h[n] = IF n = 0 THEN x ELSE UnpackBit(h[n - 1], w[n])
    <3>1. CASE n = 0
      <4>1. 0 \in 0..k /\ 0 \in 0..(k + 1)
        OBVIOUS
      <4> QED BY <2>1, <3>1, <4>1
    <3>2. CASE n # 0 /\ n <= k
      <4>1. n \in 0..k /\ n - 1 \in 0..k /\ n - 1 \in 0..(k + 1) /\ n - 1 <= k
        BY <3>2
      <4>2. h[n] = g[n] /\ h[n - 1] = g[n - 1]
        BY <3>2, <4>1
      <4> HIDE DEF h
      <4> QED BY <2>1, <3>2, <4>1, <4>2
    <3>3. CASE n = k + 1
      <4>1. n - 1 = k /\ k \in 0..(k + 1) /\ ~(n <= k) /\ n # 0
        BY <3>3
      <4>2. h[n] = UnpackBit(g[k], w[n]) /\ h[k] = g[k]
        BY <4>1
      <4> HIDE DEF h
      <4> QED BY <4>1, <4>2
    <3>4. n = 0 \/ (n # 0 /\ n <= k) \/ n = k + 1
      OBVIOUS
    <3> QED BY <3>1, <3>2, <3>3, <3>4, Zenon
  <2>3. Loop(k + 1, h)
    <3>1. h = [n \in 0..(k + 1) |-> h[n]]
      OBVIOUS
    <3> HIDE DEF h
    <3> QED BY <2>2, <3>1
  <2>4. k + 1 \in Nat
    OBVIOUS
  <2> HIDE DEF Loop
  <2> QED BY <2>3, <2>4
<1>4. N \in T
  <2>1. N \in Nat
    OBVIOUS
  <2> HIDE DEF T, N
  <2> QED BY <1>2, <1>3, <2>1, SetInduction
<1>5. Loop(N, f)
  <2> HIDE DEF Loop
  <2> QED BY <1>4, Zenon
<1> HIDE DEF f
<1>6. f[0] = x /\ \A n \in 1..N : f[n] = UnpackBit(f[n - 1], w[n])
  BY <1>5
<1> QED BY <1>1, <1>6 DEF x

(* No pass.                                                                 *)
LEMMA UnpackFirstZero ==
  ASSUME NEW u, NEW w
  PROVE  UnpackFirst(u, w, 0) = u
<1>1. 0 \in Nat
  OBVIOUS
<1> QED BY <1>1, UnpackFirstLoops

(* One pass more.                                                           *)
LEMMA UnpackFirstNext ==
  ASSUME NEW u, NEW w, NEW count \in Nat
  PROVE  UnpackFirst(u, w, count + 1) = UnpackBit(UnpackFirst(u, w, count), w[count + 1])
<1> DEFINE N == count
<1>1. PICK f : /\ f[0] = u
               /\ \A n \in 1..N : f[n] = UnpackBit(f[n - 1], w[n])
               /\ UnpackFirst(u, w, count) = f[N]
  BY UnpackFirstLoops
<1>2. PICK g : /\ g[0] = u
               /\ \A n \in 1..(N + 1) : g[n] = UnpackBit(g[n - 1], w[n])
               /\ UnpackFirst(u, w, count + 1) = g[N + 1]
  <2>1. count + 1 \in Nat
    OBVIOUS
  <2> QED BY <2>1, UnpackFirstLoops
<1>3. N \in Nat
  OBVIOUS
<1> HIDE DEF N
<1> DEFINE T == {k \in Nat : k <= N => f[k] = g[k]}
<1>4. 0 \in T
  BY <1>1, <1>2
<1>5. ASSUME NEW k \in Nat, k \in T PROVE k + 1 \in T
  <2>1. CASE k + 1 <= N
    <3>1. k + 1 \in 1..N /\ k + 1 \in 1..(N + 1) /\ (k + 1) - 1 = k /\ f[k] = g[k]
      BY <1>3, <1>5, <2>1
    <3>2. f[k + 1] = UnpackBit(f[(k + 1) - 1], w[k + 1])
      BY <1>1, <3>1, Zenon
    <3>3. g[k + 1] = UnpackBit(g[(k + 1) - 1], w[k + 1])
      BY <1>2, <3>1, Zenon
    <3> QED BY <3>1, <3>2, <3>3
  <2>2. CASE ~(k + 1 <= N)
    BY <2>2
  <2> QED BY <2>1, <2>2
<1>6. N \in T
  <2> HIDE DEF T
  <2> QED BY <1>3, <1>4, <1>5, SetInduction
<1>7. f[N] = g[N]
  BY <1>3, <1>6
<1>8. N + 1 \in 1..(N + 1) /\ (N + 1) - 1 = N
  BY <1>3
<1>9. g[N + 1] = UnpackBit(g[(N + 1) - 1], w[N + 1])
  BY <1>2, <1>8, Zenon
<1> QED BY <1>1, <1>2, <1>7, <1>8, <1>9 DEF N

(* The loop of FcsOf.  There is a function that satisfies its equation,    *)
(* for every number of passes.                                              *)
LEMMA FcsOfLoops ==
  ASSUME NEW s \in Seq(Bit)
  PROVE  \E f : /\ f[0] = [i \in 1..16 |-> 1]
                /\ \A n \in 1..Len(s) : f[n] = FcsBit(f[n - 1], s[n])
                /\ FcsOf(s) = [i \in 1..16 |-> 1 - f[Len(s)][i]]
<1> DEFINE x == [i \in 1..16 |-> 1]
           Loop(k, g) == g = [n \in 0..k |-> IF n = 0 THEN x ELSE FcsBit(g[n - 1], s[n])]
           T == {k \in Nat : \E g : Loop(k, g)}
           N == Len(s)
           f == CHOOSE g : Loop(N, g)
<1>1. FcsOf(s) = [i \in 1..16 |-> 1 - f[N][i]]
  BY DEF FcsOf
<1> HIDE DEF x
<1>2. 0 \in T
  <2> DEFINE g == [n \in 0..0 |-> x]
  <2>1. Loop(0, g)
    OBVIOUS
  <2> QED BY <2>1
<1>3. ASSUME NEW k \in Nat, k \in T PROVE k + 1 \in T
  <2>1. PICK g : Loop(k, g)
    BY <1>3
  <2> DEFINE h == [n \in 0..(k + 1) |-> IF n <= k THEN g[n] ELSE FcsBit(g[k], s[n])]
  <2>2. ASSUME NEW n \in 0..(k + 1)
        PROVE  h[n] = IF n = 0 THEN x ELSE FcsBit(h[n - 1], s[n])
    <3>1. CASE n = 0
      <4>1. 0 \in 0..k /\ 0 \in 0..(k + 1)
        OBVIOUS
      <4> QED BY <2>1, <3>1, <4>1
    <3>2. CASE n # 0 /\ n <= k
      <4>1. n \in 0..k /\ n - 1 \in 0..k /\ n - 1 \in 0..(k + 1) /\ n - 1 <= k
        BY <3>2
      <4>2. h[n] = g[n] /\ h[n - 1] = g[n - 1]
        BY <3>2, <4>1
      <4> HIDE DEF h
      <4> QED BY <2>1, <3>2, <4>1, <4>2
    <3>3. CASE n = k + 1
      <4>1. n - 1 = k /\ k \in 0..(k + 1) /\ ~(n <= k) /\ n # 0
        BY <3>3
      <4>2. h[n] = FcsBit(g[k], s[n]) /\ h[k] = g[k]
        BY <4>1
      <4> HIDE DEF h
      <4> QED BY <4>1, <4>2
    <3>4. n = 0 \/ (n # 0 /\ n <= k) \/ n = k + 1
      OBVIOUS
    <3> QED BY <3>1, <3>2, <3>3, <3>4, Zenon
  <2>3. Loop(k + 1, h)
    <3>1. h = [n \in 0..(k + 1) |-> h[n]]
      OBVIOUS
    <3> HIDE DEF h
    <3> QED BY <2>2, <3>1
  <2>4. k + 1 \in Nat
    OBVIOUS
  <2> HIDE DEF Loop
  <2> QED BY <2>3, <2>4
<1>4. N \in T
  <2>1. N \in Nat
    OBVIOUS
  <2> HIDE DEF T, N
  <2> QED BY <1>2, <1>3, <2>1, SetInduction
<1>5. Loop(N, f)
  <2> HIDE DEF Loop
  <2> QED BY <1>4, Zenon
<1> HIDE DEF f
<1>6. f[0] = x /\ \A n \in 1..N : f[n] = FcsBit(f[n - 1], s[n])
  BY <1>5
<1> QED BY <1>1, <1>6 DEF x

-----------------------------------------------------------------------------
(* Induction over sequences, with a set in the place of a formula.          *)
LEMMA SeqInduction ==
  ASSUME NEW S, NEW T, <<>> \in T, \A s \in Seq(S) : \A e \in S : s \in T => Append(s, e) \in T
  PROVE  \A s \in Seq(S) : s \in T
<1> DEFINE U == {n \in Nat : \A s \in Seq(S) : Len(s) = n => s \in T}
<1>1. 0 \in U
  <2>1. \A s \in Seq(S) : Len(s) = 0 => s = <<>>
    OBVIOUS
  <2> QED BY <2>1
<1>2. ASSUME NEW n \in Nat, n \in U PROVE n + 1 \in U
  <2>1. ASSUME NEW s \in Seq(S), Len(s) = n + 1 PROVE s \in T
    <3> DEFINE t == SubSeq(s, 1, n)
               e == s[n + 1]
    <3>1. t \in Seq(S) /\ Len(t) = n /\ e \in S
      BY <2>1
    <3>2. Append(t, e) = s
      <4>1. Append(t, e) \in Seq(S) /\ Len(Append(t, e)) = n + 1
        BY <3>1
      <4>2. \A i \in 1..(n + 1) : Append(t, e)[i] = s[i]
        BY <2>1, <3>1
      <4> HIDE DEF t, e
      <4> QED BY <2>1, <4>1, <4>2, SeqEqual
    <3>3. t \in T
      BY <1>2, <3>1
    <3> QED BY <3>1, <3>2, <3>3
  <2> QED BY <2>1
<1>3. \A n \in Nat : n \in U
  <2> HIDE DEF U
  <2> QED BY <1>1, <1>2, SetInduction
<1> QED BY <1>3

(* Append is concatenation.                                                 *)
LEMMA SeqAppend ==
  ASSUME NEW S, NEW s \in Seq(S), NEW e \in S
  PROVE  Append(s, e) = s \o <<e>> /\ <<e>> \in Seq(S) /\ Append(s, e) \in Seq(S)
         /\ Len(<<e>>) = 1 /\ Len(Append(s, e)) = Len(s) + 1
OBVIOUS

(* Concatenations and parts of sequences of bits.                           *)
LEMMA CatIs ==
  ASSUME NEW s \in Seq(Bit), NEW t \in Seq(Bit)
  PROVE  /\ s \o t \in Seq(Bit) /\ Len(s \o t) = Len(s) + Len(t)
         /\ Len(s) \in Nat /\ Len(t) \in Nat
         /\ \A i \in 1..(Len(s) + Len(t)) :
              (s \o t)[i] = IF i <= Len(s) THEN s[i] ELSE t[i - Len(s)]
BY ConcatProperties, LenProperties

(* Parts put together in any order are the same.                            *)
LEMMA CatCat ==
  ASSUME NEW s \in Seq(Bit), NEW t \in Seq(Bit), NEW u \in Seq(Bit)
  PROVE  (s \o t) \o u = s \o (t \o u)
BY ConcatAssociative

(* The bits of a part.                                                      *)
LEMMA PartIs ==
  ASSUME NEW s \in Seq(Bit), NEW m \in Nat, NEW n \in Nat, 1 <= m, m <= n + 1, n <= Len(s)
  PROVE  /\ SubSeq(s, m, n) \in Seq(Bit) /\ Len(SubSeq(s, m, n)) = n + 1 - m
         /\ \A i \in 1..(n + 1 - m) : SubSeq(s, m, n)[i] = s[m + i - 1]
<1>1. Len(s) \in Nat
  BY LenProperties
<1>2. \A i \in m..n : s[i] \in Bit
  BY <1>1, ElementOfSeq
<1>3. /\ SubSeq(s, m, n) \in Seq(Bit)
      /\ Len(SubSeq(s, m, n)) = IF m <= n THEN n - m + 1 ELSE 0
      /\ \A i \in 1..(n - m + 1) : SubSeq(s, m, n)[i] = s[m + i - 1]
  BY <1>2, SubSeqProperties
<1>4. n - m + 1 = n + 1 - m /\ (~(m <= n) => n + 1 - m = 0)
  OBVIOUS
<1> QED BY <1>3, <1>4

(* A sequence of bits is its first n and the rest.                          *)
LEMMA Split ==
  ASSUME NEW s \in Seq(Bit), NEW n \in Nat, n <= Len(s)
  PROVE  /\ SubSeq(s, 1, n) \in Seq(Bit) /\ Len(SubSeq(s, 1, n)) = n
         /\ SubSeq(s, n + 1, Len(s)) \in Seq(Bit) /\ Len(SubSeq(s, n + 1, Len(s))) = Len(s) - n
         /\ s = SubSeq(s, 1, n) \o SubSeq(s, n + 1, Len(s))
<1> DEFINE a == SubSeq(s, 1, n)
           b == SubSeq(s, n + 1, Len(s))
<1>1. Len(s) \in Nat
  BY LenProperties
<1>2. /\ a \in Seq(Bit) /\ Len(a) = n
      /\ \A i \in 1..n : a[i] = s[i]
  <2>1. /\ a \in Seq(Bit) /\ Len(a) = n + 1 - 1
        /\ \A i \in 1..(n + 1 - 1) : a[i] = s[1 + i - 1]
    BY <1>1, PartIs
  <2> HIDE DEF a
  <2> QED BY <2>1
<1>3. /\ b \in Seq(Bit) /\ Len(b) = Len(s) - n
      /\ \A i \in 1..(Len(s) - n) : b[i] = s[n + i]
  <2>1. /\ b \in Seq(Bit) /\ Len(b) = Len(s) + 1 - (n + 1)
        /\ \A i \in 1..(Len(s) + 1 - (n + 1)) : b[i] = s[n + 1 + i - 1]
    <3>1. n + 1 \in Nat /\ 1 <= n + 1 /\ n + 1 <= Len(s) + 1 /\ Len(s) <= Len(s)
      BY <1>1
    <3> QED BY <1>1, <3>1, PartIs
  <2> HIDE DEF b
  <2> QED BY <1>1, <2>1
<1> HIDE DEF a, b
<1>4. /\ a \o b \in Seq(Bit) /\ Len(a \o b) = Len(s)
      /\ \A i \in 1..Len(s) : (a \o b)[i] = IF i <= n THEN a[i] ELSE b[i - n]
  BY <1>1, <1>2, <1>3, CatIs
<1>5. \A i \in 1..Len(s) : s[i] = (a \o b)[i]
  BY <1>1, <1>2, <1>3, <1>4
<1>6. s = a \o b
  BY <1>4, <1>5, SeqEqual
<1> QED BY <1>2, <1>3, <1>6 DEF a, b

(* Two ways to divide the same bits.                                        *)
LEMMA FrontOf ==
  ASSUME NEW s \in Seq(Bit), NEW t \in Seq(Bit), NEW n \in Nat, n <= Len(s)
  PROVE  SubSeq(s \o t, 1, n) = SubSeq(s, 1, n)
<1>1. /\ Len(s) \in Nat /\ Len(t) \in Nat /\ s \o t \in Seq(Bit) /\ Len(s \o t) = Len(s) + Len(t)
      /\ \A i \in 1..(Len(s) + Len(t)) :
           (s \o t)[i] = IF i <= Len(s) THEN s[i] ELSE t[i - Len(s)]
  BY CatIs
<1> DEFINE a == SubSeq(s \o t, 1, n)
           b == SubSeq(s, 1, n)
<1>2. a \in Seq(Bit) /\ Len(a) = n /\ \A i \in 1..n : a[i] = (s \o t)[i]
  <2>1. n <= Len(s \o t)
    BY <1>1
  <2>2. /\ a \in Seq(Bit) /\ Len(a) = n + 1 - 1
        /\ \A i \in 1..(n + 1 - 1) : a[i] = (s \o t)[1 + i - 1]
    BY <1>1, <2>1, PartIs
  <2> HIDE DEF a
  <2> QED BY <2>2
<1>3. b \in Seq(Bit) /\ Len(b) = n /\ \A i \in 1..n : b[i] = s[i]
  <2>1. /\ b \in Seq(Bit) /\ Len(b) = n + 1 - 1
        /\ \A i \in 1..(n + 1 - 1) : b[i] = s[1 + i - 1]
    BY <1>1, PartIs
  <2> HIDE DEF b
  <2> QED BY <2>1
<1> HIDE DEF a, b
<1>4. \A i \in 1..n : a[i] = b[i]
  BY <1>1, <1>2, <1>3
<1> QED BY <1>2, <1>3, <1>4, SeqEqual DEF a, b

(* Two parts put together can be taken apart again.                         *)
LEMMA RestOf ==
  ASSUME NEW s \in Seq(Bit), NEW t \in Seq(Bit)
  PROVE  /\ SubSeq(s \o t, 1, Len(s)) = s
         /\ SubSeq(s \o t, Len(s) + 1, Len(s \o t)) = t
<1> DEFINE u == s \o t
           b == SubSeq(u, Len(s) + 1, Len(u))
<1>1. /\ Len(s) \in Nat /\ Len(t) \in Nat /\ u \in Seq(Bit) /\ Len(u) = Len(s) + Len(t)
      /\ SubSeq(s, 1, Len(s)) = s
  BY CatIs, SubSeqFull
<1>2. SubSeq(u, 1, Len(s)) = s
  BY <1>1, FrontOf
<1>3. u = s \o b /\ b \in Seq(Bit)
  <2> HIDE DEF u
  <2>1. u = SubSeq(u, 1, Len(s)) \o b /\ b \in Seq(Bit)
    <3>1. Len(s) <= Len(u)
      BY <1>1
    <3> QED BY <1>1, <3>1, Split
  <2> QED BY <1>2, <2>1
<1>4. b = t
  <2>1. \A x, y, z \in Seq(Bit) : x \o y = x \o z => y = z
    BY ConcatSimplifications
  <2> HIDE DEF b
  <2> QED BY <1>3, <2>1
<1> QED BY <1>2, <1>4

-----------------------------------------------------------------------------
(* The bits of a byte are its bits, and their value is the byte.            *)
LEMMA BitsAre ==
  ASSUME NEW v \in 0..255
  PROVE  /\ Bits(v) \in Seq(Bit) /\ Len(Bits(v)) = 8
         /\ Value(Bits(v)) = v
<1>1. \A x \in Nat : x % 2 \in Bit
  BY DEF Bit
<1>2. /\ v \div 128 \in Nat /\ v \div 64 \in Nat /\ v \div 32 \in Nat /\ v \div 16 \in Nat
      /\ v \div 8 \in Nat /\ v \div 4 \in Nat /\ v \div 2 \in Nat /\ v \in Nat
  OBVIOUS
<1>3. Bits(v) \in Seq(Bit) /\ Len(Bits(v)) = 8
  BY <1>1, <1>2 DEF Bits
<1>4. Value(Bits(v)) = v
  BY DEF Bits, Value
<1> QED BY <1>3, <1>4

(* Eight bits are the bits of their value.                                  *)
LEMMA ValueIs ==
  ASSUME NEW b \in Seq(Bit), Len(b) = 8
  PROVE  Value(b) \in 0..255 /\ Bits(Value(b)) = b
<1>1. \A i \in 1..8 : b[i] \in 0..1
  <2>1. ASSUME NEW i \in 1..8 PROVE b[i] \in Bit
    BY ElementOfSeq
  <2> QED BY <2>1 DEF Bit
<1>2. /\ b[1] \in 0..1 /\ b[2] \in 0..1 /\ b[3] \in 0..1 /\ b[4] \in 0..1
      /\ b[5] \in 0..1 /\ b[6] \in 0..1 /\ b[7] \in 0..1 /\ b[8] \in 0..1
  BY <1>1
<1> DEFINE v == Value(b)
<1>3. v = 128 * b[1] + 64 * b[2] + 32 * b[3] + 16 * b[4] + 8 * b[5] + 4 * b[6] + 2 * b[7]
            + b[8]
  BY DEF Value
<1> HIDE DEF v
<1>4. /\ v \in 0..255
      /\ (v \div 128) % 2 = b[1] /\ (v \div 64) % 2 = b[2] /\ (v \div 32) % 2 = b[3]
      /\ (v \div 16) % 2 = b[4] /\ (v \div 8) % 2 = b[5] /\ (v \div 4) % 2 = b[6]
      /\ (v \div 2) % 2 = b[7] /\ v % 2 = b[8]
  <2> DEFINE b1 == b[1]
             b2 == b[2]
             b3 == b[3]
             b4 == b[4]
             b5 == b[5]
             b6 == b[6]
             b7 == b[7]
             b8 == b[8]
  <2>1. /\ b1 \in 0..1 /\ b2 \in 0..1 /\ b3 \in 0..1 /\ b4 \in 0..1
        /\ b5 \in 0..1 /\ b6 \in 0..1 /\ b7 \in 0..1 /\ b8 \in 0..1
        /\ v = 128 * b1 + 64 * b2 + 32 * b3 + 16 * b4 + 8 * b5 + 4 * b6 + 2 * b7 + b8
    BY <1>2, <1>3
  <2> HIDE DEF b1, b2, b3, b4, b5, b6, b7, b8
  <2>2. /\ v \in 0..255
        /\ (v \div 128) % 2 = b1 /\ (v \div 64) % 2 = b2 /\ (v \div 32) % 2 = b3
        /\ (v \div 16) % 2 = b4 /\ (v \div 8) % 2 = b5 /\ (v \div 4) % 2 = b6
        /\ (v \div 2) % 2 = b7 /\ v % 2 = b8
    BY <2>1
  <2> QED BY <2>2 DEF b1, b2, b3, b4, b5, b6, b7, b8
<1>5. Bits(v) = <<b[1], b[2], b[3], b[4], b[5], b[6], b[7], b[8]>>
  BY <1>4 DEF Bits
<1>6. b = <<b[1], b[2], b[3], b[4], b[5], b[6], b[7], b[8]>>
  OBVIOUS
<1> QED BY <1>4, <1>5, <1>6 DEF v

(* The flag.                                                                *)
LEMMA FlagIs ==
  /\ Flag = <<0, 1, 1, 1, 1, 1, 1, 0>>
  /\ Flag \in Seq(Bit) /\ Len(Flag) = 8
<1>1. Flag = <<0, 1, 1, 1, 1, 1, 1, 0>>
  BY DEF Flag, Bits
<1> QED BY <1>1 DEF Bit

-----------------------------------------------------------------------------
(* The bits of a sequence of bytes.                                         *)
LEMMA PlaceOfBit ==
  ASSUME NEW n \in Nat, NEW i \in 1..(8 * n)
  PROVE  ((i - 1) \div 8) + 1 \in 1..n /\ ((i - 1) % 8) + 1 \in 1..8
OBVIOUS

(* They are bits, eight for each byte.                                      *)
LEMMA BitsOfIs ==
  ASSUME NEW bytes \in Seq(0..255)
  PROVE  /\ BitsOf(bytes) \in Seq(Bit) /\ Len(BitsOf(bytes)) = 8 * Len(bytes)
         /\ \A i \in 1..(8 * Len(bytes)) :
              BitsOf(bytes)[i] = Bits(bytes[((i - 1) \div 8) + 1])[((i - 1) % 8) + 1]
<1> DEFINE n == Len(bytes)
<1>1. n \in Nat /\ 8 * n \in Nat /\ \A j \in 1..n : bytes[j] \in 0..255
  BY LenProperties, ElementOfSeq
<1> HIDE DEF n
<1>2. ASSUME NEW i \in 1..(8 * n)
      PROVE  Bits(bytes[((i - 1) \div 8) + 1])[((i - 1) % 8) + 1] \in Bit
  <2> DEFINE j == ((i - 1) \div 8) + 1
             k == ((i - 1) % 8) + 1
             b == Bits(bytes[j])
  <2>1. j \in 1..n /\ k \in 1..8
    BY <1>1, PlaceOfBit
  <2> HIDE DEF j, k
  <2>2. b \in Seq(Bit) /\ Len(b) = 8
    BY <1>1, <2>1, BitsAre
  <2> HIDE DEF b
  <2>3. b[k] \in Bit
    BY <2>1, <2>2, ElementOfSeq
  <2> QED BY <2>3 DEF j, k, b
<1>3. BitsOf(bytes) \in [1..(8 * n) -> Bit]
  BY <1>2 DEF BitsOf, n
<1>4. BitsOf(bytes) \in Seq(Bit) /\ Len(BitsOf(bytes)) = 8 * n
  BY <1>1, <1>3
<1> QED BY <1>4 DEF BitsOf, n

(* There are none without bytes.                                            *)
LEMMA BitsOfNone ==
  BitsOf(<<>>) = <<>>
<1>1. <<>> \in Seq(0..255) /\ Len(<<>>) = 0
  OBVIOUS
<1> DEFINE e == <<>>
<1> HIDE DEF e
<1>2. BitsOf(e) \in Seq(Bit) /\ Len(BitsOf(e)) = 0
  <2>1. e \in Seq(0..255) /\ Len(e) = 0
    BY <1>1 DEF e
  <2>2. BitsOf(e) \in Seq(Bit) /\ Len(BitsOf(e)) = 8 * Len(e)
    BY <2>1, BitsOfIs, Zenon
  <2> QED BY <2>1, <2>2
<1>3. BitsOf(e) = <<>>
  BY <1>2, EmptySeq
<1> QED BY <1>3 DEF e

(* The bits of one more byte come after the others.                         *)
LEMMA BitsOfAppend ==
  ASSUME NEW bytes \in Seq(0..255), NEW v \in 0..255
  PROVE  BitsOf(Append(bytes, v)) = BitsOf(bytes) \o Bits(v)
<1> DEFINE n == Len(bytes)
           more == Append(bytes, v)
           x == BitsOf(more)
           y == BitsOf(bytes)
           b == Bits(v)
<1>1. /\ n \in Nat /\ more \in Seq(0..255) /\ Len(more) = n + 1 /\ more[n + 1] = v
      /\ \A j \in 1..n : more[j] = bytes[j]
  OBVIOUS
<1>2. /\ y \in Seq(Bit) /\ Len(y) = 8 * n
      /\ \A i \in 1..(8 * n) : y[i] = Bits(bytes[((i - 1) \div 8) + 1])[((i - 1) % 8) + 1]
  BY BitsOfIs
<1>3. /\ x \in Seq(Bit) /\ Len(x) = 8 * (n + 1)
      /\ \A i \in 1..(8 * (n + 1)) :
           x[i] = Bits(more[((i - 1) \div 8) + 1])[((i - 1) % 8) + 1]
  <2> HIDE DEF n, more
  <2>1. /\ x \in Seq(Bit) /\ Len(x) = 8 * Len(more)
        /\ \A i \in 1..(8 * Len(more)) :
             x[i] = Bits(more[((i - 1) \div 8) + 1])[((i - 1) % 8) + 1]
    BY <1>1, BitsOfIs
  <2> QED BY <1>1, <2>1
<1>4. b \in Seq(Bit) /\ Len(b) = 8
  BY BitsAre
<1> HIDE DEF n, more, x, y
<1>5. ASSUME NEW i \in 1..(8 * (n + 1))
      PROVE  x[i] = (y \o b)[i]
  <2> DEFINE j == ((i - 1) \div 8) + 1
             k == ((i - 1) % 8) + 1
  <2>1. x[i] = Bits(more[j])[k]
    BY <1>3, Zenon
  <2>2. CASE i <= 8 * n
    <3>1. i \in 1..(8 * n) /\ j \in 1..n
      BY <1>1, <2>2
    <3>2. y[i] = Bits(bytes[j])[k]
      BY <1>2, <3>1, Zenon
    <3> HIDE DEF j, k, b
    <3>3. (y \o b)[i] = y[i]
      <4>1. i \in 1..(Len(y) + Len(b)) /\ i <= Len(y)
        BY <1>1, <1>2, <1>4, <3>1
      <4>2. (y \o b)[i] = IF i <= Len(y) THEN y[i] ELSE b[i - Len(y)]
        BY <1>2, <1>4, <4>1, CatIs, Zenon
      <4> QED BY <4>1, <4>2
    <3> QED BY <1>1, <2>1, <3>1, <3>2, <3>3, Zenon
  <2>3. CASE ~(i <= 8 * n)
    <3>1. j = n + 1 /\ k = i - 8 * n /\ k \in 1..8
      BY <1>1, <2>3
    <3>2. Bits(more[j])[k] = b[k]
      BY <1>1, <3>1
    <3> HIDE DEF j, k, b
    <3>3. (y \o b)[i] = b[i - 8 * n]
      <4>1. i \in 1..(Len(y) + Len(b)) /\ ~(i <= Len(y))
        BY <1>1, <1>2, <1>4, <2>3
      <4>2. (y \o b)[i] = IF i <= Len(y) THEN y[i] ELSE b[i - Len(y)]
        BY <1>2, <1>4, <4>1, CatIs, Zenon
      <4> QED BY <1>2, <4>1, <4>2
    <3> QED BY <2>1, <3>1, <3>2, <3>3
  <2> QED BY <2>2, <2>3
<1> HIDE DEF b
<1>6. y \o b \in Seq(Bit) /\ Len(y \o b) = 8 * (n + 1)
  <2>1. y \o b \in Seq(Bit) /\ Len(y \o b) = Len(y) + Len(b)
    BY <1>2, <1>4, CatIs, Zenon
  <2> QED BY <1>1, <1>2, <1>4, <2>1
<1>7. x = y \o b
  BY <1>3, <1>5, <1>6, SeqEqual
<1> QED BY <1>7 DEF x, y, b, more

(* Bytes whose bits come first are first.                                   *)
LEMMA BitsOfPrefix ==
  ASSUME NEW bytes \in Seq(0..255), NEW more \in Seq(0..255), Len(bytes) <= Len(more),
         \A i \in 1..(8 * Len(bytes)) : BitsOf(bytes)[i] = BitsOf(more)[i]
  PROVE  bytes = SubSeq(more, 1, Len(bytes))
<1> DEFINE n == Len(bytes)
           m == Len(more)
           x == BitsOf(bytes)
           y == BitsOf(more)
<1>1. n \in Nat /\ m \in Nat /\ n <= m
  OBVIOUS
<1>2. \A i \in 1..(8 * n) : x[i] = Bits(bytes[((i - 1) \div 8) + 1])[((i - 1) % 8) + 1]
  BY BitsOfIs
<1>3. \A i \in 1..(8 * m) : y[i] = Bits(more[((i - 1) \div 8) + 1])[((i - 1) % 8) + 1]
  BY BitsOfIs
<1>4. \A i \in 1..(8 * n) : x[i] = y[i]
  OBVIOUS
<1>5. (\A j \in 1..n : bytes[j] \in 0..255) /\ \A j \in 1..m : more[j] \in 0..255
  BY ElementOfSeq
<1> HIDE DEF n, m, x, y
<1>6. ASSUME NEW j \in 1..n
      PROVE  bytes[j] = more[j]
  <2> DEFINE b == Bits(bytes[j])
             c == Bits(more[j])
  <2>1. j \in 1..m /\ bytes[j] \in 0..255 /\ more[j] \in 0..255
    BY <1>1, <1>5
  <2>2. /\ b \in Seq(Bit) /\ Len(b) = 8 /\ Value(b) = bytes[j]
        /\ c \in Seq(Bit) /\ Len(c) = 8 /\ Value(c) = more[j]
    BY <2>1, BitsAre
  <2>3. ASSUME NEW k \in 1..8 PROVE b[k] = c[k]
    <3> DEFINE i == 8 * (j - 1) + k
    <3>1. /\ i \in 1..(8 * n) /\ i \in 1..(8 * m)
          /\ ((i - 1) \div 8) + 1 = j /\ ((i - 1) % 8) + 1 = k
      BY <1>1
    <3> HIDE DEF i
    <3>2. x[i] = b[k]
      <4>1. x[i] = Bits(bytes[((i - 1) \div 8) + 1])[((i - 1) % 8) + 1]
        BY <1>2, <3>1, Zenon
      <4> QED BY <3>1, <4>1, Zenon
    <3>3. y[i] = c[k]
      <4>1. y[i] = Bits(more[((i - 1) \div 8) + 1])[((i - 1) % 8) + 1]
        BY <1>3, <3>1, Zenon
      <4> QED BY <3>1, <4>1, Zenon
    <3> QED BY <1>4, <3>1, <3>2, <3>3, Zenon
  <2> HIDE DEF b, c
  <2>4. b = c
    BY <2>2, <2>3, SeqEqual
  <2> QED BY <2>2, <2>4
<1>7. /\ SubSeq(more, 1, n) \in Seq(0..255) /\ Len(SubSeq(more, 1, n)) = n
      /\ \A j \in 1..n : SubSeq(more, 1, n)[j] = more[j]
  <2>1. \A j \in 1..n : more[j] \in 0..255
    BY <1>1, <1>5
  <2>2. /\ SubSeq(more, 1, n) \in Seq(0..255)
        /\ Len(SubSeq(more, 1, n)) = IF 1 <= n THEN n - 1 + 1 ELSE 0
        /\ \A j \in 1..(n - 1 + 1) : SubSeq(more, 1, n)[j] = more[1 + j - 1]
    BY <1>1, <2>1, SubSeqProperties
  <2> QED BY <1>1, <2>2
<1>8. \A j \in 1..n : bytes[j] = SubSeq(more, 1, n)[j]
  BY <1>6, <1>7
<1> QED BY <1>7, <1>8, SeqEqual DEF n

-----------------------------------------------------------------------------
(* The same bits, divided in two ways.                                      *)
Same(r, y, w, z) == r \o y = w \o z
Overlap(s, r, x, y) == \E z \in Seq(Bit) : x = s \o z /\ r = z \o y

(* Of two ways to divide the same bits, the one with the shorter first part *)
(* has the rest of the longer one before its second part.                   *)
LEMMA Prefix ==
  ASSUME NEW s \in Seq(Bit), NEW r \in Seq(Bit), NEW x \in Seq(Bit), NEW y \in Seq(Bit),
         Same(s, r, x, y), Len(s) <= Len(x)
  PROVE  Overlap(s, r, x, y)
<1> DEFINE n == Len(s)
           z == SubSeq(x, n + 1, Len(x))
<1>1. n \in Nat /\ Len(x) \in Nat /\ n <= Len(x)
  BY CatIs
<1>2. z \in Seq(Bit) /\ x = SubSeq(x, 1, n) \o z
  BY <1>1, Split
<1>3. SubSeq(x, 1, n) = s
  <2>1. SubSeq(x \o y, 1, n) = SubSeq(x, 1, n)
    BY <1>1, FrontOf
  <2>2. SubSeq(s \o r, 1, Len(s)) = s
    BY RestOf
  <2> QED BY <2>1, <2>2 DEF Same
<1> HIDE DEF z, n
<1>4. x = s \o z
  BY <1>2, <1>3
<1>5. s \o r = s \o (z \o y)
  BY <1>2, <1>4, CatCat DEF Same
<1>6. z \o y \in Seq(Bit)
  BY <1>2, CatIs
<1>7. r = z \o y
  <2>1. \A a, b, c \in Seq(Bit) : a \o b = a \o c => b = c
    BY ConcatSimplifications
  <2> QED BY <1>5, <1>6, <2>1
<1> QED BY <1>2, <1>4, <1>7 DEF Overlap

(* Equal lengths make equal parts.                                          *)
LEMMA SameParts ==
  ASSUME NEW s \in Seq(Bit), NEW r \in Seq(Bit), NEW x \in Seq(Bit), NEW y \in Seq(Bit),
         Same(s, r, x, y), Len(s) = Len(x)
  PROVE  s = x /\ r = y
<1>1. s = x
  <2>1. SubSeq(s \o r, 1, Len(s)) = s /\ SubSeq(x \o y, 1, Len(x)) = x
    BY RestOf
  <2> QED BY <2>1 DEF Same
<1>2. \A a, b, c \in Seq(Bit) : a \o b = a \o c => b = c
  BY ConcatSimplifications
<1> QED BY <1>1, <1>2 DEF Same

-----------------------------------------------------------------------------
Packing == [bits : Seq(Bit), ones : 0..4]
Fresh(o) == [bits |-> <<>>, ones |-> o]
Stuffed(d) == Pack(Fresh(0), d)

(* The two fields of a packer.                                              *)
LEMMA PackingIs ==
  /\ \A b \in Seq(Bit), o \in 0..4 : /\ [bits |-> b, ones |-> o] \in Packing
                                     /\ [bits |-> b, ones |-> o].bits = b
                                     /\ [bits |-> b, ones |-> o].ones = o
  /\ \A p \in Packing : /\ p.bits \in Seq(Bit) /\ p.ones \in 0..4
                         /\ p = [bits |-> p.bits, ones |-> p.ones]
  /\ \A o \in 0..4 : /\ Fresh(o) \in Packing /\ Fresh(o).bits = <<>> /\ Fresh(o).ones = o
<1>1. <<>> \in Seq(Bit)
  BY EmptySeq
<1> QED BY <1>1 DEF Packing, Fresh

(* A bit is packed, with a zero after five ones.                            *)
LEMMA PackBitIs ==
  ASSUME NEW p \in Packing, NEW e \in Bit, NEW n, n = IF e = 1 THEN p.ones + 1 ELSE 0
  PROVE  /\ PackBit(p, e) \in Packing /\ n \in 0..5
         /\ n # 5 => PackBit(p, e) = [bits |-> p.bits \o <<e>>, ones |-> n]
         /\ n = 5 => e = 1 /\ PackBit(p, e) = [bits |-> p.bits \o <<e, 0>>, ones |-> 0]
         /\ p.bits \in Seq(Bit) /\ <<e>> \in Seq(Bit) /\ <<e, 0>> \in Seq(Bit)
         /\ Len(<<e>>) = 1 /\ Len(<<e, 0>>) = 2
<1>1. p.bits \in Seq(Bit) /\ p.ones \in 0..4
  BY DEF Packing
<1>2. /\ <<e>> \in Seq(Bit) /\ <<e, 0>> \in Seq(Bit)
      /\ Len(<<e>>) = 1 /\ Len(<<e, 0>>) = 2
  BY DEF Bit
<1>3. Append(p.bits, e) = p.bits \o <<e>>
  BY <1>1, AppendIsConcat
<1>4. p.bits \o <<e>> \in Seq(Bit) /\ p.bits \o <<e, 0>> \in Seq(Bit)
  BY <1>1, <1>2, CatIs
<1>5. n \in 0..5 /\ (n = 5 => e = 1)
  BY <1>1 DEF Bit
<1>6. /\ n # 5 => PackBit(p, e) = [bits |-> p.bits \o <<e>>, ones |-> n]
      /\ n = 5 => PackBit(p, e) = [bits |-> p.bits \o <<e, 0>>, ones |-> 0]
  BY <1>3 DEF PackBit
<1>7. PackBit(p, e) \in Packing
  <2>1. CASE n # 5
    <3>1. n \in 0..4
      BY <1>5, <2>1
    <3> DEFINE b == p.bits \o <<e>>
    <3>2. b \in Seq(Bit) /\ PackBit(p, e) = [bits |-> b, ones |-> n]
      BY <1>4, <1>6, <2>1
    <3> HIDE DEF b
    <3>3. [bits |-> b, ones |-> n] \in Packing
      BY <3>1, <3>2 DEF Packing
    <3> QED BY <3>2, <3>3
  <2>2. CASE n = 5
    <3>1. 0 \in 0..4
      OBVIOUS
    <3> DEFINE b == p.bits \o <<e, 0>>
    <3>2. b \in Seq(Bit) /\ PackBit(p, e) = [bits |-> b, ones |-> 0]
      BY <1>4, <1>6, <2>2
    <3> HIDE DEF b
    <3>3. [bits |-> b, ones |-> 0] \in Packing
      BY <3>1, <3>2 DEF Packing
    <3> QED BY <3>2, <3>3
  <2> QED BY <2>1, <2>2
<1> QED BY <1>1, <1>2, <1>5, <1>6, <1>7

(* Nothing that was packed before is changed.                               *)
LEMMA PackBitAdds ==
  ASSUME NEW p \in Packing, NEW e \in Bit, NEW a \in Seq(Bit)
  PROVE  PackBit([bits |-> a \o p.bits, ones |-> p.ones], e)
           = [bits |-> a \o PackBit(p, e).bits, ones |-> PackBit(p, e).ones]
<1> DEFINE n == IF e = 1 THEN p.ones + 1 ELSE 0
           q == [bits |-> a \o p.bits, ones |-> p.ones]
<1>1. /\ p.bits \in Seq(Bit) /\ p.ones \in 0..4
      /\ <<e>> \in Seq(Bit) /\ <<e, 0>> \in Seq(Bit)
  BY DEF Packing, Bit
<1>2. q \in Packing /\ q.ones = p.ones /\ q.bits = a \o p.bits
  BY <1>1, CatIs DEF Packing
<1>3. /\ n # 5 => PackBit(p, e) = [bits |-> p.bits \o <<e>>, ones |-> n]
      /\ n = 5 => PackBit(p, e) = [bits |-> p.bits \o <<e, 0>>, ones |-> 0]
  BY PackBitIs
<1>4. /\ n # 5 => PackBit(q, e) = [bits |-> q.bits \o <<e>>, ones |-> n]
      /\ n = 5 => PackBit(q, e) = [bits |-> q.bits \o <<e, 0>>, ones |-> 0]
  <2> HIDE DEF q
  <2>1. n = IF e = 1 THEN q.ones + 1 ELSE 0
    BY <1>2
  <2> HIDE DEF n
  <2> QED BY <1>2, <2>1, PackBitIs
<1>5. /\ q.bits \o <<e>> = a \o (p.bits \o <<e>>)
      /\ q.bits \o <<e, 0>> = a \o (p.bits \o <<e, 0>>)
  BY <1>1, <1>2, CatCat
<1>6. n \in Nat
  BY <1>1
<1> HIDE DEF n, q
<1>7. CASE n # 5
  <2>1. PackBit(p, e).bits = p.bits \o <<e>> /\ PackBit(p, e).ones = n
    BY <1>3, <1>7
  <2> QED BY <1>4, <1>5, <1>7, <2>1, Zenon DEF q
<1>8. CASE n = 5
  <2>1. PackBit(p, e).bits = p.bits \o <<e, 0>> /\ PackBit(p, e).ones = 0
    BY <1>3, <1>8
  <2> QED BY <1>4, <1>5, <1>8, <2>1, Zenon DEF q
<1> QED BY <1>7, <1>8

(* The same for a sequence of bits.                                         *)
LEMMA PackAdds ==
  ASSUME NEW p \in Packing, NEW a \in Seq(Bit), NEW s \in Seq(Bit)
  PROVE  /\ Pack(p, s) \in Packing
         /\ Pack([bits |-> a \o p.bits, ones |-> p.ones], s)
              = [bits |-> a \o Pack(p, s).bits, ones |-> Pack(p, s).ones]
<1> DEFINE q == [bits |-> a \o p.bits, ones |-> p.ones]
           T == {x \in Seq(Bit) : /\ Pack(p, x) \in Packing
                                  /\ Pack(q, x) = [bits |-> a \o Pack(p, x).bits,
                                                   ones |-> Pack(p, x).ones]}
<1>1. <<>> \in T
  <2>1. Pack(p, <<>>) = p /\ Pack(q, <<>>) = q
    BY PackZero
  <2>2. <<>> \in Seq(Bit)
    BY EmptySeq
  <2> QED BY <2>1, <2>2, Zenon
<1>2. ASSUME NEW x \in Seq(Bit), NEW e \in Bit, x \in T PROVE Append(x, e) \in T
  <2>1. Append(x, e) \in Seq(Bit)
    BY AppendProperties
  <2> DEFINE y == Pack(p, x)
  <2>2. Pack(p, Append(x, e)) = PackBit(y, e)
    BY PackNext
  <2>3. Pack(q, Append(x, e)) = PackBit(Pack(q, x), e)
    BY PackNext
  <2>4. y \in Packing /\ Pack(q, x) = [bits |-> a \o y.bits, ones |-> y.ones]
    BY <1>2
  <2> HIDE DEF y, q
  <2>5. PackBit(y, e) \in Packing
    BY <2>4, PackBitIs
  <2>6. PackBit([bits |-> a \o y.bits, ones |-> y.ones], e)
          = [bits |-> a \o PackBit(y, e).bits, ones |-> PackBit(y, e).ones]
    BY <2>4, PackBitAdds
  <2> QED BY <2>1, <2>2, <2>3, <2>4, <2>5, <2>6
<1>3. \A x \in Seq(Bit) : x \in T
  <2> HIDE DEF T
  <2> QED BY <1>1, <1>2, SeqInduction
<1> QED BY <1>3

(* Bits that are packed in two parts.                                       *)
LEMMA PackCat ==
  ASSUME NEW p, NEW s \in Seq(Bit), NEW t \in Seq(Bit)
  PROVE  Pack(p, s \o t) = Pack(Pack(p, s), t)
<1> DEFINE q == Pack(p, s)
           T == {x \in Seq(Bit) : Pack(p, s \o x) = Pack(q, x)}
<1>1. <<>> \in T
  <2>1. Pack(q, <<>>) = q
    BY PackZero
  <2>2. s \o <<>> = s /\ <<>> \in Seq(Bit)
    BY ConcatEmptySeq
  <2> QED BY <2>1, <2>2
<1>2. ASSUME NEW x \in Seq(Bit), NEW e \in Bit, x \in T PROVE Append(x, e) \in T
  <2>1. /\ Append(x, e) \in Seq(Bit) /\ Append(x, e) = x \o <<e>> /\ <<e>> \in Seq(Bit)
        /\ s \o x \in Seq(Bit)
    BY AppendProperties, AppendIsConcat, CatIs
  <2>2. s \o Append(x, e) = Append(s \o x, e)
    <3>1. s \o (x \o <<e>>) = (s \o x) \o <<e>>
      BY <2>1, CatCat
    <3>2. Append(s \o x, e) = (s \o x) \o <<e>>
      BY <2>1, AppendIsConcat
    <3> QED BY <2>1, <3>1, <3>2
  <2>3. Pack(p, Append(s \o x, e)) = PackBit(Pack(p, s \o x), e)
    BY <2>1, PackNext
  <2>4. Pack(q, Append(x, e)) = PackBit(Pack(q, x), e)
    BY PackNext
  <2> QED BY <1>2, <2>1, <2>2, <2>3, <2>4
<1>3. \A x \in Seq(Bit) : x \in T
  <2> HIDE DEF T
  <2> QED BY <1>1, <1>2, SeqInduction
<1> QED BY <1>3

(* What is added to the bits of a packer depends on its ones only.          *)
LEMMA PackIs ==
  ASSUME NEW p \in Packing, NEW s \in Seq(Bit)
  PROVE  /\ Pack(p, s) \in Packing /\ Pack(Fresh(p.ones), s) \in Packing
         /\ Pack(p, s).bits = p.bits \o Pack(Fresh(p.ones), s).bits
         /\ Pack(p, s).ones = Pack(Fresh(p.ones), s).ones
<1> DEFINE f == Fresh(p.ones)
<1>1. f \in Packing /\ f.bits = <<>> /\ f.ones = p.ones /\ p.bits \in Seq(Bit)
  BY EmptySeq DEF Fresh, Packing
<1>2. p = [bits |-> p.bits \o f.bits, ones |-> f.ones]
  <2>1. p = [bits |-> p.bits, ones |-> p.ones]
    BY DEF Packing
  <2>2. p.bits \o <<>> = p.bits
    BY <1>1, ConcatEmptySeq
  <2> QED BY <1>1, <2>1, <2>2
<1> HIDE DEF f
<1>3. Pack(p, s) = [bits |-> p.bits \o Pack(f, s).bits, ones |-> Pack(f, s).ones]
  <2>1. Pack([bits |-> p.bits \o f.bits, ones |-> f.ones], s)
          = [bits |-> p.bits \o Pack(f, s).bits, ones |-> Pack(f, s).ones]
    BY <1>1, PackAdds
  <2> QED BY <1>2, <2>1
<1>4. Pack(p, s) \in Packing /\ Pack(f, s) \in Packing
  BY <1>1, PackAdds
<1>5. /\ Pack(p, s).bits = p.bits \o Pack(f, s).bits
      /\ Pack(p, s).ones = Pack(f, s).ones
  <2> DEFINE b == p.bits \o Pack(f, s).bits
             o == Pack(f, s).ones
  <2>1. Pack(p, s) = [bits |-> b, ones |-> o]
    BY <1>3
  <2> HIDE DEF b, o
  <2>2. Pack(p, s).bits = b /\ Pack(p, s).ones = o
    BY <2>1
  <2> QED BY <2>2 DEF b, o
<1> QED BY <1>4, <1>5 DEF f

(* A frame of which more is packed.                                         *)
LEMMA StuffedCat ==
  ASSUME NEW d \in Seq(Bit), NEW t \in Seq(Bit)
  PROVE  /\ Stuffed(d) \in Packing /\ Stuffed(d \o t) \in Packing
         /\ Stuffed(d \o t) = Pack(Stuffed(d), t)
         /\ Stuffed(d \o t).bits = Stuffed(d).bits \o Pack(Fresh(Stuffed(d).ones), t).bits
<1>1. Fresh(0) \in Packing
  BY EmptySeq DEF Fresh, Packing
<1>2. Stuffed(d) \in Packing
  BY <1>1, PackAdds DEF Stuffed
<1>3. Stuffed(d \o t) = Pack(Stuffed(d), t)
  BY PackCat DEF Stuffed
<1>4. Pack(Stuffed(d), t) \in Packing
  BY <1>2, PackAdds
<1> QED BY <1>2, <1>3, <1>4, PackIs

-----------------------------------------------------------------------------
(* What is packed has no six ones in a row, and no more ones at its end     *)
(* than were counted.                                                       *)
NoSix(b) == \A i \in Nat : i + 6 <= Len(b) => \E j \in 1..6 : b[i + j] = 0
EndOnes(b, o) == \A m \in 0..Len(b) : (\A i \in (m + 1)..Len(b) : b[i] = 1) => Len(b) <= m + o

(* A bit more keeps six ones from following each other, if it is no one after *)
(* five.                                                                    *)
LEMMA OnesAppend ==
  ASSUME NEW b \in Seq(Bit), NEW o \in 0..5, NEW e \in Bit, NoSix(b), EndOnes(b, o),
         e = 1 => o <= 4, NEW n, n = IF e = 1 THEN o + 1 ELSE 0
  PROVE  NoSix(b \o <<e>>) /\ EndOnes(b \o <<e>>, n)
<1> DEFINE c == b \o <<e>>
           k == Len(b)
<1>1. /\ k \in Nat /\ c \in Seq(Bit) /\ Len(c) = k + 1 /\ c[k + 1] = e
      /\ \A i \in 1..k : c[i] = b[i]
  <2>1. c = Append(b, e)
    BY AppendIsConcat
  <2>2. /\ Append(b, e) \in Seq(Bit) /\ Len(Append(b, e)) = Len(b) + 1
        /\ \A i \in 1..Len(b) : Append(b, e)[i] = b[i]
        /\ Append(b, e)[Len(b) + 1] = e
    BY AppendProperties
  <2>3. k \in Nat
    BY LenProperties
  <2> HIDE DEF c
  <2> QED BY <2>1, <2>2, <2>3
<1>2. e = 0 \/ e = 1
  BY DEF Bit
<1> HIDE DEF c, k
<1>3. \A m \in 0..k : (\A i \in (m + 1)..k : b[i] = 1) => k <= m + o
  BY DEF EndOnes, k
<1>4. \A i \in Nat : i + 6 <= k => \E j \in 1..6 : b[i + j] = 0
  BY DEF NoSix, k
<1>5. ASSUME NEW m \in 0..(k + 1), \A i \in (m + 1)..(k + 1) : c[i] = 1
      PROVE  k + 1 <= m + n
  <2>1. CASE m = k + 1
    BY <1>1, <1>2, <2>1
  <2>2. CASE m <= k
    <3>1. k + 1 \in (m + 1)..(k + 1) /\ m \in 0..k
      BY <1>1, <2>2
    <3>2. e = 1 /\ n = o + 1
      BY <1>1, <1>5, <3>1
    <3>3. \A i \in (m + 1)..k : b[i] = 1
      <4>1. ASSUME NEW i \in (m + 1)..k PROVE b[i] = 1
        <5>1. i \in 1..k /\ i \in (m + 1)..(k + 1)
          BY <1>1, <3>1
        <5> QED BY <1>1, <1>5, <5>1
      <4> QED BY <4>1
    <3>4. k <= m + o
      BY <1>3, <3>1, <3>3
    <3> QED BY <1>1, <3>1, <3>2, <3>4
  <2> QED BY <1>1, <2>1, <2>2
<1>6. ASSUME NEW i \in Nat, i + 6 <= k + 1
      PROVE  \E j \in 1..6 : c[i + j] = 0
  <2>1. CASE i + 6 <= k
    <3>1. PICK j \in 1..6 : b[i + j] = 0
      BY <1>4, <2>1
    <3>2. i + j \in 1..k
      BY <1>1, <2>1
    <3> QED BY <1>1, <3>1, <3>2
  <2>2. CASE i + 6 = k + 1
    <3> SUFFICES ASSUME \A j \in 1..6 : c[i + j] # 0 PROVE FALSE
      BY Zenon
    <3>1. \A x \in 1..(k + 1) : c[x] \in Bit
      BY <1>1, ElementOfSeq
    <3>2. ASSUME NEW x \in (i + 1)..(k + 1) PROVE c[x] = 1
      <4>1. x - i \in 1..6 /\ i + (x - i) = x /\ x \in 1..(k + 1)
        BY <1>1, <2>2
      <4>2. c[x] # 0
        BY <4>1
      <4> QED BY <3>1, <4>1, <4>2 DEF Bit
    <3>3. k + 1 <= i + n
      <4>1. i \in 0..(k + 1)
        BY <1>1, <2>2
      <4> QED BY <1>5, <3>2, <4>1
    <3>4. e = 1
      BY <1>1, <3>2, <2>2
    <3> QED BY <1>1, <2>2, <3>3, <3>4
  <2> QED BY <1>1, <1>6, <2>1, <2>2
<1>7. EndOnes(c, n)
  BY <1>1, <1>5 DEF EndOnes
<1>8. NoSix(c)
  BY <1>1, <1>6 DEF NoSix
<1> QED BY <1>7, <1>8 DEF c

(* Two bits put together.                                                   *)
LEMMA OneTwo ==
  ASSUME NEW e, NEW f
  PROVE  <<e>> \o <<f>> = <<e, f>>
<1> DEFINE S == {e, f}
           a == <<e>>
           b == <<f>>
           c == <<e, f>>
<1>1. /\ a \in Seq(S) /\ Len(a) = 1 /\ a[1] = e
      /\ b \in Seq(S) /\ Len(b) = 1 /\ b[1] = f
      /\ c \in Seq(S) /\ Len(c) = 2 /\ c[1] = e /\ c[2] = f
  OBVIOUS
<1> HIDE DEF S, a, b, c
<1>2. /\ a \o b \in Seq(S) /\ Len(a \o b) = Len(a) + Len(b)
      /\ \A i \in 1..(Len(a) + Len(b)) : (a \o b)[i] = IF i <= Len(a) THEN a[i] ELSE b[i - Len(a)]
  BY <1>1, ConcatProperties
<1>3. \A i \in 1..2 : (a \o b)[i] = c[i]
  BY <1>1, <1>2
<1>4. a \o b = c
  BY <1>1, <1>2, <1>3, SeqEqual
<1> QED BY <1>4 DEF a, b, c

(* So it is in every frame.                                                 *)
LEMMA StuffedOnes ==
  \A d \in Seq(Bit) : NoSix(Stuffed(d).bits) /\ EndOnes(Stuffed(d).bits, Stuffed(d).ones)
<1> DEFINE T == {d \in Seq(Bit) : /\ NoSix(Stuffed(d).bits)
                                  /\ EndOnes(Stuffed(d).bits, Stuffed(d).ones)}
<1>1. <<>> \in T
  <2>1. Stuffed(<<>>) = Fresh(0)
    BY PackZero DEF Stuffed
  <2>2. <<>> \in Seq(Bit) /\ Len(<<>>) = 0 /\ Fresh(0).bits = <<>> /\ Fresh(0).ones = 0
    BY EmptySeq DEF Fresh
  <2>3. NoSix(<<>>) /\ EndOnes(<<>>, 0)
    BY <2>2 DEF NoSix, EndOnes
  <2> QED BY <2>1, <2>2, <2>3
<1>2. ASSUME NEW d \in Seq(Bit), NEW e \in Bit, d \in T PROVE Append(d, e) \in T
  <2> DEFINE p == Stuffed(d)
             n == IF e = 1 THEN p.ones + 1 ELSE 0
             q == Stuffed(Append(d, e))
  <2>1. Append(d, e) \in Seq(Bit)
    BY AppendProperties
  <2>2. p \in Packing
    BY <1>2, StuffedCat
  <2>3. q = PackBit(p, e)
    BY PackNext DEF Stuffed
  <2>4. NoSix(p.bits) /\ EndOnes(p.bits, p.ones)
    BY <1>2
  <2> HIDE DEF p, q
  <2>9. p.ones \in 0..4 /\ p.bits \in Seq(Bit)
    BY <2>2, PackingIs
  <2>5. /\ n \in 0..5
        /\ n # 5 => q = [bits |-> p.bits \o <<e>>, ones |-> n]
        /\ n = 5 => e = 1 /\ q = [bits |-> p.bits \o <<e, 0>>, ones |-> 0]
        /\ p.bits \in Seq(Bit) /\ <<e>> \in Seq(Bit) /\ p.ones \in 0..5 /\ p.ones <= 4
    <3>1. n = IF e = 1 THEN p.ones + 1 ELSE 0
      OBVIOUS
    <3> HIDE DEF n
    <3>2. /\ n \in 0..5
          /\ n # 5 => PackBit(p, e) = [bits |-> p.bits \o <<e>>, ones |-> n]
          /\ n = 5 => e = 1 /\ PackBit(p, e) = [bits |-> p.bits \o <<e, 0>>, ones |-> 0]
          /\ <<e>> \in Seq(Bit)
      BY <2>2, <3>1, PackBitIs
    <3>3. p.ones \in 0..5 /\ p.ones <= 4
      BY <2>9
    <3> QED BY <2>3, <2>9, <3>2, <3>3
  <2>6. NoSix(p.bits \o <<e>>) /\ EndOnes(p.bits \o <<e>>, n)
    BY <2>4, <2>5, OnesAppend
  <2>7. CASE n # 5
    <3> DEFINE b == p.bits \o <<e>>
    <3>2. q = [bits |-> b, ones |-> n]
      BY <2>5, <2>7
    <3> HIDE DEF b, n
    <3>3. q.bits = b /\ q.ones = n
      BY <3>2
    <3>1. q.bits = p.bits \o <<e>> /\ q.ones = n
      BY <3>3 DEF b
    <3> QED BY <2>1, <2>6, <3>1 DEF q
  <2>8. CASE n = 5
    <3> DEFINE b == p.bits \o <<e>>
    <3>1. b \in Seq(Bit) /\ 0 \in Bit /\ 5 \in 0..5 /\ 0 # 1
      BY <2>5, CatIs DEF Bit
    <3>2. NoSix(b) /\ EndOnes(b, 5)
      BY <2>6, <2>8
    <3>3. p.bits \o <<e, 0>> = b \o <<0>>
      <4>1. <<0>> \in Seq(Bit) /\ <<e>> \o <<0>> = <<e, 0>>
        BY OneTwo DEF Bit
      <4>2. (p.bits \o <<e>>) \o <<0>> = p.bits \o (<<e>> \o <<0>>)
        BY <2>5, <4>1, CatCat
      <4> QED BY <4>1, <4>2
    <3> HIDE DEF b, n
    <3>4. NoSix(b \o <<0>>) /\ EndOnes(b \o <<0>>, 0)
      BY <3>1, <3>2, OnesAppend
    <3>5. q.bits = b \o <<0>> /\ q.ones = 0
      <4> DEFINE c == p.bits \o <<e, 0>>
      <4>1. q = [bits |-> c, ones |-> 0] /\ c = b \o <<0>>
        BY <2>5, <2>8, <3>3
      <4> HIDE DEF c, q
      <4>2. q.bits = c /\ q.ones = 0
        BY <4>1
      <4> QED BY <4>1, <4>2, Zenon
    <3> QED BY <2>1, <3>4, <3>5 DEF q
  <2> QED BY <2>7, <2>8
<1>3. \A d \in Seq(Bit) : d \in T
  <2> HIDE DEF T
  <2> QED BY <1>1, <1>2, SeqInduction
<1> QED BY <1>3

-----------------------------------------------------------------------------
(* A flag is not in a frame, nor across its end.                            *)
Ends == {<<>>, Flag \o Flag}

(* What may follow a stuffed frame: nothing, or two flags, which begin with a *)
(* zero.                                                                    *)
LEMMA EndsAre ==
  /\ Ends \subseteq Seq(Bit)
  /\ \A y \in Ends : y # <<>> => /\ y = Flag \o Flag /\ Len(y) = 16 /\ y[1] = 0
                                 /\ y # <<>>
<1>1. Flag \o Flag \in Seq(Bit) /\ Len(Flag \o Flag) = 16 /\ (Flag \o Flag)[1] = Flag[1]
  <2>1. Flag \in Seq(Bit) /\ Len(Flag) = 8
    BY FlagIs
  <2>2. /\ Flag \o Flag \in Seq(Bit) /\ Len(Flag \o Flag) = Len(Flag) + Len(Flag)
        /\ \A i \in 1..(Len(Flag) + Len(Flag)) :
             (Flag \o Flag)[i] = IF i <= Len(Flag) THEN Flag[i] ELSE Flag[i - Len(Flag)]
    BY <2>1, CatIs
  <2> QED BY <2>1, <2>2
<1>2. Flag[1] = 0
  BY FlagIs
<1>3. <<>> \in Seq(Bit)
  BY EmptySeq
<1> HIDE DEF Flag
<1> QED BY <1>1, <1>2, <1>3 DEF Ends

(* Where a flag is, six ones are.                                           *)
LEMMA FlagAtIs ==
  ASSUME NEW w \in Seq(Bit), NEW o
  PROVE  o \in FlagAt(w) <=> /\ o \in Nat /\ o + 8 <= Len(w)
                             /\ \A k \in 1..8 : w[o + k] = Flag[k]
<1>1. Len(w) \in Nat /\ Flag \in Seq(Bit) /\ Len(Flag) = 8
  BY LenProperties, FlagIs
<1>2. o \in FlagAt(w) <=> o \in 0..(Len(w) - 8) /\ SubSeq(w, o + 1, o + 8) = Flag
  BY DEF FlagAt
<1>3. o \in 0..(Len(w) - 8) <=> o \in Nat /\ o + 8 <= Len(w)
  BY <1>1
<1>4. ASSUME o \in Nat, o + 8 <= Len(w)
      PROVE  SubSeq(w, o + 1, o + 8) = Flag <=> \A k \in 1..8 : w[o + k] = Flag[k]
  <2> DEFINE f == SubSeq(w, o + 1, o + 8)
  <2>1. /\ f \in Seq(Bit) /\ Len(f) = 8
        /\ \A k \in 1..8 : f[k] = w[o + k]
    <3>1. /\ o + 1 \in Nat /\ o + 8 \in Nat /\ 1 <= o + 1 /\ o + 1 <= o + 8 + 1
      BY <1>4
    <3>2. /\ f \in Seq(Bit) /\ Len(f) = o + 8 + 1 - (o + 1)
          /\ \A k \in 1..(o + 8 + 1 - (o + 1)) : f[k] = w[o + 1 + k - 1]
      BY <1>4, <3>1, PartIs
    <3> HIDE DEF f
    <3>3. o + 8 + 1 - (o + 1) = 8 /\ \A k \in 1..8 : o + 1 + k - 1 = o + k
      BY <1>4
    <3> QED BY <3>2, <3>3
  <2> HIDE DEF f
  <2>2. ASSUME \A k \in 1..8 : w[o + k] = Flag[k] PROVE f = Flag
    <3>1. \A k \in 1..Len(f) : f[k] = Flag[k]
      BY <2>1, <2>2
    <3>2. Len(f) = Len(Flag)
      BY <1>1, <2>1
    <3> QED BY <1>1, <2>1, <3>1, <3>2, SeqEqual, Zenon
  <2>3. f = Flag => \A k \in 1..8 : w[o + k] = Flag[k]
    BY <2>1
  <2> QED BY <2>2, <2>3 DEF f
<1> QED BY <1>2, <1>3, <1>4

(* The six ones of a flag at o are not before the end m of what has no six. *)
LEMMA SixOnes ==
  ASSUME NEW x, NEW m \in Nat, NEW n \in Nat, NEW o \in Nat, o + 8 <= m + n,
         \A k \in 2..7 : x[o + k] = 1, n # 0 => x[m + 1] = 0,
         \A i \in Nat : i + 6 <= m => \E j \in 1..6 : x[i + j] = 0
  PROVE  m <= o
<1> SUFFICES ASSUME o < m PROVE FALSE
  OBVIOUS
<1>1. CASE o + 7 <= m
  <2>1. o + 1 \in Nat /\ o + 1 + 6 <= m
    BY <1>1
  <2>2. PICK j \in 1..6 : x[o + 1 + j] = 0
    BY <2>1
  <2>3. 1 + j \in 2..7 /\ o + 1 + j = o + (1 + j)
    OBVIOUS
  <2> QED BY <2>2, <2>3
<1>2. CASE ~(o + 7 <= m)
  <2>1. m + 1 - o \in 2..7 /\ o + (m + 1 - o) = m + 1 /\ n # 0
    BY <1>2
  <2> QED BY <2>1
<1> QED BY <1>1, <1>2

(* A part of a frame has no six ones in a row either.                       *)
LEMMA NoSixRest ==
  ASSUME NEW s \in Seq(Bit), NEW r \in Seq(Bit), NoSix(s \o r)
  PROVE  NoSix(r)
<1> DEFINE h == Len(s)
           m == Len(r)
           x == s \o r
<1>1. /\ h \in Nat /\ m \in Nat /\ Len(x) = h + m
      /\ \A i \in 1..(h + m) : x[i] = IF i <= h THEN s[i] ELSE r[i - h]
  BY CatIs
<1>2. \A i \in Nat : i + 6 <= Len(x) => \E j \in 1..6 : x[i + j] = 0
  BY DEF NoSix
<1> HIDE DEF h, m, x
<1>3. ASSUME NEW i \in Nat, i + 6 <= m PROVE \E j \in 1..6 : r[i + j] = 0
  <2>1. h + i \in Nat /\ h + i + 6 <= Len(x)
    BY <1>1, <1>3
  <2>2. PICK j \in 1..6 : x[h + i + j] = 0
    BY <1>2, <2>1
  <2>3. h + i + j \in 1..(h + m) /\ ~(h + i + j <= h) /\ h + i + j - h = i + j
    BY <1>1, <1>3
  <2>4. x[h + i + j] = r[i + j]
    BY <1>1, <2>3
  <2> QED BY <2>2, <2>4
<1> QED BY <1>3 DEF NoSix, m

(* A flag that is found begins at the end of the frame or after it.         *)
LEMMA NoFlag ==
  ASSUME NEW s \in Seq(Bit), NEW r \in Seq(Bit), NoSix(s \o r), NEW y \in Ends,
         NEW w \in Seq(Bit), NEW z \in Seq(Bit), Same(r, y, w, z), NEW o \in FlagAt(w)
  PROVE  o \in Nat /\ o + 8 <= Len(w) /\ Len(r) <= o
<1> DEFINE m == Len(r)
           n == Len(y)
           x == r \o y
<1>1. y \in Seq(Bit) /\ (y # <<>> => y[1] = 0) /\ (y = <<>> => n = 0)
  BY EndsAre, EmptySeq
<1>2. /\ m \in Nat /\ n \in Nat /\ Len(w) \in Nat /\ Len(z) \in Nat
      /\ Len(x) = m + n
      /\ \A i \in 1..(m + n) : x[i] = IF i <= m THEN r[i] ELSE y[i - m]
  BY <1>1, CatIs
<1>3. /\ Len(x) = Len(w) + Len(z)
      /\ \A i \in 1..(Len(w) + Len(z)) : x[i] = IF i <= Len(w) THEN w[i] ELSE z[i - Len(w)]
  <2>1. x = w \o z
    BY DEF Same
  <2> HIDE DEF x
  <2> QED BY <2>1, CatIs
<1>4. /\ o \in Nat /\ o + 8 <= Len(w)
      /\ \A k \in 1..8 : w[o + k] = Flag[k]
  BY FlagAtIs
<1>5. \A k \in 2..7 : Flag[k] = 1
  BY FlagIs
<1>11. o \in Nat /\ o + 8 <= Len(w)
  BY <1>4
<1>12. Len(w) \in Nat /\ Len(z) \in Nat /\ m \in Nat /\ n \in Nat
  BY <1>2
<1> HIDE DEF m, n, x
<1>6. ASSUME NEW k \in 2..7 PROVE x[o + k] = 1
  <2>1. k \in 1..8 /\ o + k \in 1..(Len(w) + Len(z)) /\ o + k <= Len(w)
    BY <1>11, <1>12
  <2>2. x[o + k] = w[o + k]
    BY <1>3, <2>1
  <2> QED BY <1>4, <1>5, <2>1, <2>2
<1>7. n # 0 => x[m + 1] = 0
  <2>1. n # 0 => m + 1 \in 1..(m + n) /\ ~(m + 1 <= m) /\ m + 1 - m = 1
    BY <1>2
  <2>2. n # 0 => x[m + 1] = y[1]
    BY <1>2, <2>1
  <2> QED BY <1>1, <2>2
<1>8. ASSUME NEW i \in Nat, i + 6 <= m PROVE \E j \in 1..6 : x[i + j] = 0
  <2>1. NoSix(r)
    BY NoSixRest
  <2>2. PICK j \in 1..6 : r[i + j] = 0
    BY <1>8, <2>1 DEF NoSix, m
  <2>3. i + j \in 1..(m + n) /\ i + j <= m
    BY <1>2, <1>8
  <2>4. x[i + j] = r[i + j]
    BY <1>2, <2>3
  <2> QED BY <2>2, <2>4
<1>9. o + 8 <= m + n
  BY <1>2, <1>3, <1>4
<1>10. m <= o
  <2>1. /\ \A k \in 2..7 : x[o + k] = 1
        /\ \A i \in Nat : i + 6 <= m => \E j \in 1..6 : x[i + j] = 0
    BY <1>6, <1>8
  <2> QED BY <1>7, <1>9, <1>11, <1>12, <2>1, SixOnes, Zenon
<1> QED BY <1>4, <1>10 DEF m

-----------------------------------------------------------------------------
(* Unpacking: what was unpacked is the bits of the bytes that are out and   *)
(* those of the chunk, which keeps the last two bytes for the FCS.          *)
States == {"stSync", "stSkipFlags", "stData"}
Unpacking == [raw : Seq(Bit), ones : Nat, chunk : Seq(Bit), out : Seq(0..255), state : States]
Data(u) == BitsOf(u.out) \o u.chunk
Fine(u) == /\ u \in Unpacking /\ Len(u.chunk) <= 23
           /\ u.out # <<>> => 16 <= Len(u.chunk)
Alike(u, v) == u.ones = v.ones /\ u.chunk = v.chunk /\ u.out = v.out

(* An unpacker with three of its parts changed.                             *)
LEMMA ExceptIs ==
  ASSUME NEW u \in Unpacking, NEW n, NEW o, NEW k
  PROVE  [u EXCEPT !.ones = n, !.out = o, !.chunk = k]
           = [raw |-> u.raw, ones |-> n, chunk |-> k, out |-> o, state |-> u.state]
<1> DEFINE r == u.raw
           s == u.state
           v == [u EXCEPT !.ones = n, !.out = o, !.chunk = k]
<1>1. v \in [raw : {r}, ones : {n}, chunk : {k}, out : {o}, state : {s}]
  BY DEF Unpacking
<1> HIDE DEF v, r, s
<1>2. v = [raw |-> r, ones |-> n, chunk |-> k, out |-> o, state |-> s]
  BY <1>1
<1> QED BY <1>2 DEF v, r, s

(* The fields of an unpacker after a bit.                                   *)
LEMMA UnpackBitIs ==
  ASSUME NEW u \in Unpacking, NEW e \in Bit, NEW c,
         c = IF e = 0 /\ u.ones = 5 THEN u.chunk ELSE Append(u.chunk, e)
  PROVE  UnpackBit(u, e) =
           [raw |-> u.raw, ones |-> IF e = 1 THEN u.ones + 1 ELSE 0,
            chunk |-> IF Len(c) = 24 THEN SubSeq(c, 9, 24) ELSE c,
            out |-> IF Len(c) = 24 THEN Append(u.out, Value(SubSeq(c, 1, 8))) ELSE u.out,
            state |-> u.state]
<1> DEFINE c1 == IF e = 0 /\ u.ones = 5 THEN u.chunk ELSE Append(u.chunk, e)
           n1 == IF e = 1 THEN u.ones + 1 ELSE 0
           k1 == IF Len(c) = 24 THEN SubSeq(c, 9, 24) ELSE c
           o1 == IF Len(c) = 24 THEN Append(u.out, Value(SubSeq(c, 1, 8))) ELSE u.out
<1>1. UnpackBit(u, e) = [u EXCEPT !.ones = n1, !.out = o1, !.chunk = k1]
  BY DEF UnpackBit
<1> HIDE DEF n1, k1, o1
<1>2. [u EXCEPT !.ones = n1, !.out = o1, !.chunk = k1]
        = [raw |-> u.raw, ones |-> n1, chunk |-> k1, out |-> o1, state |-> u.state]
  BY ExceptIs
<1> QED BY <1>1, <1>2 DEF n1, k1, o1

(* A bit is added to the data, or was stuffed.                              *)
LEMMA UnpackBitAdds ==
  ASSUME NEW u, Fine(u), NEW e \in Bit
  PROVE  /\ Fine(UnpackBit(u, e))
         /\ UnpackBit(u, e).ones = IF e = 1 THEN u.ones + 1 ELSE 0
         /\ e = 0 /\ u.ones = 5 => Data(UnpackBit(u, e)) = Data(u)
         /\ ~(e = 0 /\ u.ones = 5) => Data(UnpackBit(u, e)) = Data(u) \o <<e>>
<1> DEFINE drop == e = 0 /\ u.ones = 5
           c == IF drop THEN u.chunk ELSE Append(u.chunk, e)
           n == IF e = 1 THEN u.ones + 1 ELSE 0
           c2 == IF Len(c) = 24 THEN SubSeq(c, 9, 24) ELSE c
           o2 == IF Len(c) = 24 THEN Append(u.out, Value(SubSeq(c, 1, 8))) ELSE u.out
           v == UnpackBit(u, e)
<1>1. /\ u.raw \in Seq(Bit) /\ u.ones \in Nat /\ u.chunk \in Seq(Bit)
      /\ u.out \in Seq(0..255) /\ u.state \in States /\ u \in Unpacking
      /\ Len(u.chunk) <= 23 /\ (u.out # <<>> => 16 <= Len(u.chunk))
      /\ Len(u.chunk) \in Nat
  <2>1. u \in Unpacking
    BY DEF Fine
  <2>2. u.chunk \in Seq(Bit)
    BY <2>1 DEF Unpacking
  <2> QED BY <2>1, <2>2, LenProperties DEF Fine, Unpacking
<1>14. Len(u.chunk) \in Nat /\ Len(u.chunk) <= 23 /\ (u.out # <<>> => 16 <= Len(u.chunk))
  BY <1>1
<1>2. v = [raw |-> u.raw, ones |-> n, chunk |-> c2, out |-> o2, state |-> u.state]
  <2>1. c = IF e = 0 /\ u.ones = 5 THEN u.chunk ELSE Append(u.chunk, e)
    OBVIOUS
  <2> HIDE DEF c, drop
  <2> QED BY <1>1, <2>1, UnpackBitIs
<1>3. n \in Nat
  BY <1>1
<1>4. /\ v.raw = u.raw /\ v.ones = n /\ v.chunk = c2 /\ v.out = o2 /\ v.state = u.state
  <2> HIDE DEF n, c2, o2, v
  <2> QED BY <1>2
<1>5. ASSUME c2 \in Seq(Bit), o2 \in Seq(0..255) PROVE v \in Unpacking
  <2> HIDE DEF n, c2, o2, v
  <2> QED BY <1>1, <1>2, <1>3, <1>5 DEF Unpacking
<1>6. BitsOf(u.out) \in Seq(Bit)
  BY <1>1, BitsOfIs
<1>7. drop => c = u.chunk
  OBVIOUS
<1>8. ~drop => c = u.chunk \o <<e>> /\ c \in Seq(Bit) /\ Len(c) = Len(u.chunk) + 1
  <2>1. Append(u.chunk, e) = u.chunk \o <<e>>
    BY <1>1, AppendIsConcat
  <2>2. Append(u.chunk, e) \in Seq(Bit) /\ Len(Append(u.chunk, e)) = Len(u.chunk) + 1
    BY <1>1, AppendProperties
  <2> QED BY <2>1, <2>2
<1>9. Len(c) # 24 => c2 = c /\ o2 = u.out
  OBVIOUS
<1>10. Len(c) = 24 => /\ c2 = SubSeq(c, 9, 24)
                      /\ o2 = Append(u.out, Value(SubSeq(c, 1, 8)))
  OBVIOUS
<1>11. v.ones = IF e = 1 THEN u.ones + 1 ELSE 0
  BY <1>4
<1> HIDE DEF c, c2, o2, n, v
<1>12. CASE drop
  <2>1. Len(c) # 24
    <3>1. c = u.chunk
      BY <1>7, <1>12
    <3> DEFINE l == Len(u.chunk)
    <3>2. l \in Nat /\ l <= 23 /\ Len(c) = l
      BY <1>14, <3>1
    <3> HIDE DEF l
    <3>3. l # 24
      BY <3>2
    <3> QED BY <3>2, <3>3
  <2>2. c2 = u.chunk /\ o2 = u.out
    BY <1>7, <1>9, <1>12, <2>1
  <2>3. Data(v) = Data(u)
    BY <1>4, <2>2 DEF Data
  <2>4. Fine(v)
    BY <1>1, <1>4, <1>5, <2>2 DEF Fine
  <2> QED BY <1>11, <1>12, <2>3, <2>4 DEF v
<1>13. CASE ~drop
  <2>1. BitsOf(u.out) \o c = Data(u) \o <<e>>
    <3>1. <<e>> \in Seq(Bit)
      BY DEF Bit
    <3>2. (BitsOf(u.out) \o u.chunk) \o <<e>> = BitsOf(u.out) \o (u.chunk \o <<e>>)
      BY <1>1, <1>6, <3>1, CatCat
    <3> QED BY <1>8, <1>13, <3>2 DEF Data
  <2>2. CASE Len(c) # 24
    <3>1. c2 = c /\ o2 = u.out
      BY <1>9, <2>2
    <3>2. Data(v) = BitsOf(u.out) \o c
      BY <1>4, <3>1 DEF Data
    <3>3. Len(c) <= 23 /\ (u.out # <<>> => 16 <= Len(c))
      <4> DEFINE l == Len(u.chunk)
                 k == Len(c)
      <4>1. l \in Nat /\ l <= 23 /\ (u.out # <<>> => 16 <= l) /\ k # 24
        BY <1>14, <2>2
      <4>2. k = l + 1
        BY <1>8, <1>13
      <4> HIDE DEF l, k
      <4>3. k <= 23 /\ (u.out # <<>> => 16 <= k)
        BY <4>1, <4>2
      <4> QED BY <4>3 DEF k
    <3>4. Fine(v)
      BY <1>1, <1>4, <1>5, <1>8, <1>13, <3>1, <3>3 DEF Fine
    <3> QED BY <1>11, <1>13, <2>1, <3>2, <3>4 DEF v
  <2>3. CASE Len(c) = 24
    <3> DEFINE a == SubSeq(c, 1, 8)
               b == SubSeq(c, 9, 24)
    <3>1. /\ a \in Seq(Bit) /\ Len(a) = 8 /\ b \in Seq(Bit) /\ Len(b) = 16
          /\ c = a \o b
      <4>1. c \in Seq(Bit) /\ 8 \in Nat /\ 8 <= Len(c) /\ 8 + 1 = 9 /\ Len(c) = 24
        BY <1>8, <1>13, <2>3
      <4>2. /\ SubSeq(c, 1, 8) \in Seq(Bit) /\ Len(SubSeq(c, 1, 8)) = 8
            /\ SubSeq(c, 8 + 1, Len(c)) \in Seq(Bit) /\ Len(SubSeq(c, 8 + 1, Len(c))) = Len(c) - 8
            /\ c = SubSeq(c, 1, 8) \o SubSeq(c, 8 + 1, Len(c))
        BY <4>1, Split
      <4> QED BY <4>1, <4>2
    <3>2. c2 = b /\ o2 = Append(u.out, Value(a))
      BY <1>10, <2>3
    <3> HIDE DEF a, b
    <3>3. Value(a) \in 0..255 /\ Bits(Value(a)) = a
      BY <3>1, ValueIs
    <3>4. o2 \in Seq(0..255)
      BY <1>1, <3>2, <3>3, AppendProperties
    <3>5. Fine(v)
      <4>1. v \in Unpacking
        BY <1>5, <3>1, <3>2, <3>4
      <4>2. Len(v.chunk) = 16
        BY <1>4, <3>1, <3>2
      <4>3. 16 <= 23 /\ 16 <= 16
        OBVIOUS
      <4> QED BY <4>1, <4>2, <4>3 DEF Fine
    <3>6. BitsOf(o2) = BitsOf(u.out) \o a
      BY <1>1, <3>2, <3>3, BitsOfAppend
    <3>7. (BitsOf(u.out) \o a) \o b = BitsOf(u.out) \o (a \o b)
      BY <1>6, <3>1, CatCat
    <3>8. Data(v) = BitsOf(u.out) \o c
      BY <1>4, <3>1, <3>2, <3>6, <3>7 DEF Data
    <3> QED BY <1>11, <1>13, <2>1, <3>5, <3>8 DEF v
  <2> QED BY <2>2, <2>3
<1> QED BY <1>12, <1>13

(* Unpackers that have unpacked the same go on alike.                       *)
LEMMA AlikeBit ==
  ASSUME NEW u, NEW v, Fine(u), Fine(v), Alike(u, v), NEW e \in Bit
  PROVE  Alike(UnpackBit(u, e), UnpackBit(v, e))
<1> DEFINE c == IF e = 0 /\ u.ones = 5 THEN u.chunk ELSE Append(u.chunk, e)
<1>1. u \in Unpacking /\ v \in Unpacking
  BY DEF Fine
<1>2. u.ones = v.ones /\ u.chunk = v.chunk /\ u.out = v.out
  BY DEF Alike
<1>3. /\ c = IF e = 0 /\ u.ones = 5 THEN u.chunk ELSE Append(u.chunk, e)
      /\ c = IF e = 0 /\ v.ones = 5 THEN v.chunk ELSE Append(v.chunk, e)
  BY <1>2
<1> HIDE DEF c
<1> DEFINE n == IF e = 1 THEN u.ones + 1 ELSE 0
           c2 == IF Len(c) = 24 THEN SubSeq(c, 9, 24) ELSE c
           o2 == IF Len(c) = 24 THEN Append(u.out, Value(SubSeq(c, 1, 8))) ELSE u.out
<1>4. UnpackBit(u, e) = [raw |-> u.raw, ones |-> n, chunk |-> c2, out |-> o2, state |-> u.state]
  BY <1>1, <1>3, UnpackBitIs
<1>5. UnpackBit(v, e) = [raw |-> v.raw, ones |-> n, chunk |-> c2, out |-> o2, state |-> v.state]
  <2>1. UnpackBit(v, e) =
           [raw |-> v.raw, ones |-> IF e = 1 THEN v.ones + 1 ELSE 0,
            chunk |-> IF Len(c) = 24 THEN SubSeq(c, 9, 24) ELSE c,
            out |-> IF Len(c) = 24 THEN Append(v.out, Value(SubSeq(c, 1, 8))) ELSE v.out,
            state |-> v.state]
    BY <1>1, <1>3, UnpackBitIs
  <2> QED BY <1>2, <2>1, Zenon
<1> HIDE DEF n, c2, o2
<1> QED BY <1>4, <1>5 DEF Alike

-----------------------------------------------------------------------------
(* What is unpacked depends on the bits that are unpacked only.             *)
LEMMA UnpackSame ==
  ASSUME NEW u, NEW v, NEW w, NEW n \in Nat, \A i \in 1..n : v[i] = w[i]
  PROVE  UnpackFirst(u, v, n) = UnpackFirst(u, w, n)
<1> DEFINE T == {k \in Nat : k <= n => UnpackFirst(u, v, k) = UnpackFirst(u, w, k)}
<1>1. 0 \in T
  <2>1. UnpackFirst(u, v, 0) = u /\ UnpackFirst(u, w, 0) = u
    BY UnpackFirstZero
  <2> QED BY <2>1
<1>2. ASSUME NEW k \in Nat, k \in T PROVE k + 1 \in T
  <2>1. UnpackFirst(u, v, k + 1) = UnpackBit(UnpackFirst(u, v, k), v[k + 1])
    BY UnpackFirstNext
  <2>2. UnpackFirst(u, w, k + 1) = UnpackBit(UnpackFirst(u, w, k), w[k + 1])
    BY UnpackFirstNext
  <2>3. ASSUME k + 1 <= n PROVE UnpackFirst(u, v, k + 1) = UnpackFirst(u, w, k + 1)
    <3>1. k <= n /\ k + 1 \in 1..n
      BY <2>3
    <3>2. UnpackFirst(u, v, k) = UnpackFirst(u, w, k) /\ v[k + 1] = w[k + 1]
      BY <1>2, <3>1
    <3> QED BY <2>1, <2>2, <3>2
  <2> QED BY <2>3
<1>3. n \in T
  <2> HIDE DEF T
  <2> QED BY <1>1, <1>2, SetInduction
<1> QED BY <1>3

(* What an unpacker has unpacked of a frame that began with these bits.     *)
Parsed(s) == UnpackFirst(HdlcStart("stSync", <<>>), s, Len(s))
After(u, s) == Fine(u) /\ Alike(u, Parsed(s))

(* An unpacker that starts has unpacked nothing.                            *)
LEMMA StartIs ==
  ASSUME NEW state \in States, NEW raw \in Seq(Bit)
  PROVE  /\ Fine(HdlcStart(state, raw)) /\ Data(HdlcStart(state, raw)) = <<>>
         /\ After(HdlcStart(state, raw), <<>>) /\ HdlcStart(state, raw).ones = 0
         /\ HdlcStart(state, raw).out = <<>> /\ HdlcStart(state, raw).raw = raw
         /\ HdlcStart(state, raw).state = state
<1> DEFINE u == HdlcStart(state, raw)
           v == HdlcStart("stSync", <<>>)
<1>1. <<>> \in Seq(Bit) /\ <<>> \in Seq(0..255) /\ Len(<<>>) = 0 /\ "stSync" \in States
  BY EmptySeq DEF States
<1>2. /\ u.ones = 0 /\ u.chunk = <<>> /\ u.out = <<>> /\ u.raw = raw /\ u.state = state
      /\ v.ones = 0 /\ v.chunk = <<>> /\ v.out = <<>>
  BY DEF HdlcStart
<1>3. u \in Unpacking
  BY <1>1 DEF HdlcStart, Unpacking
<1>4. Parsed(<<>>) = v
  BY <1>1, UnpackFirstZero DEF Parsed
<1> HIDE DEF u, v
<1>5. Fine(u)
  BY <1>1, <1>2, <1>3 DEF Fine
<1>6. Data(u) = <<>>
  <2>1. <<>> \o <<>> = <<>>
    BY <1>1, ConcatEmptySeq
  <2> QED BY <1>2, <2>1, BitsOfNone DEF Data
<1>7. After(u, <<>>)
  BY <1>2, <1>4, <1>5 DEF After, Alike
<1> QED BY <1>2, <1>5, <1>6, <1>7 DEF u

(* One more bit is unpacked after the others.                               *)
LEMMA ParsedNext ==
  ASSUME NEW s \in Seq(Bit), NEW e \in Bit
  PROVE  Parsed(s \o <<e>>) = UnpackBit(Parsed(s), e)
<1> DEFINE t == s \o <<e>>
           u == HdlcStart("stSync", <<>>)
           n == Len(s)
<1>1. t = Append(s, e)
  BY AppendIsConcat
<1>2. n \in Nat /\ Len(t) = n + 1 /\ t[n + 1] = e /\ \A i \in 1..n : s[i] = t[i]
  BY <1>1, AppendProperties, LenProperties
<1> HIDE DEF t, u, n
<1>3. UnpackFirst(u, t, n + 1) = UnpackBit(UnpackFirst(u, t, n), t[n + 1])
  BY <1>2, UnpackFirstNext
<1>4. UnpackFirst(u, s, n) = UnpackFirst(u, t, n)
  BY <1>2, UnpackSame
<1> QED BY <1>2, <1>3, <1>4 DEF Parsed, t, u, n

(* Whatever the bits, the unpacker stays in its bounds.                     *)
LEMMA FineParsed ==
  \A s \in Seq(Bit) : Fine(Parsed(s))
<1> DEFINE T == {s \in Seq(Bit) : Fine(Parsed(s))}
<1>1. <<>> \in T
  <2>1. <<>> \in Seq(Bit) /\ "stSync" \in States /\ Len(<<>>) = 0
    BY EmptySeq DEF States
  <2>2. Parsed(<<>>) = HdlcStart("stSync", <<>>)
    BY <2>1, UnpackFirstZero DEF Parsed
  <2>3. Fine(HdlcStart("stSync", <<>>))
    BY <2>1, StartIs
  <2> QED BY <2>1, <2>2, <2>3
<1>2. ASSUME NEW s \in Seq(Bit), NEW e \in Bit, s \in T PROVE Append(s, e) \in T
  <2>1. Append(s, e) \in Seq(Bit) /\ Append(s, e) = s \o <<e>>
    BY AppendProperties, AppendIsConcat
  <2>2. Fine(Parsed(s))
    BY <1>2
  <2>3. Fine(UnpackBit(Parsed(s), e))
    BY <2>2, UnpackBitAdds
  <2>4. Parsed(s \o <<e>>) = UnpackBit(Parsed(s), e)
    BY ParsedNext
  <2> QED BY <2>1, <2>3, <2>4
<1>3. \A s \in Seq(Bit) : s \in T
  <2> HIDE DEF T
  <2> QED BY <1>1, <1>2, SeqInduction
<1> QED BY <1>3

(* Unpacking goes on where it was.                                          *)
LEMMA AfterMany ==
  ASSUME NEW u, NEW s \in Seq(Bit), After(u, s), NEW w \in Seq(Bit), NEW n \in Nat, n <= Len(w)
  PROVE  After(UnpackFirst(u, w, n), s \o SubSeq(w, 1, n))
<1> DEFINE T == {k \in Nat : k <= Len(w) => After(UnpackFirst(u, w, k), s \o SubSeq(w, 1, k))}
<1>0. Len(w) \in Nat
  BY LenProperties
<1>1. 0 \in T
  <2>1. UnpackFirst(u, w, 0) = u
    BY UnpackFirstZero
  <2>2. SubSeq(w, 1, 0) = <<>>
    BY SubSeqEmpty
  <2>3. s \o <<>> = s
    BY ConcatEmptySeq
  <2> QED BY <2>1, <2>2, <2>3
<1>2. ASSUME NEW k \in Nat, k \in T PROVE k + 1 \in T
  <2>1. ASSUME k + 1 <= Len(w)
        PROVE  After(UnpackFirst(u, w, k + 1), s \o SubSeq(w, 1, k + 1))
    <3> DEFINE v == UnpackFirst(u, w, k)
               a == SubSeq(w, 1, k)
               e == w[k + 1]
    <3>1. k <= Len(w) /\ k + 1 \in 1..Len(w) /\ (k + 1) - 1 = k /\ 1 \in 1..Len(w)
          /\ k + 1 \in 1..Len(w)
      BY <1>0, <2>1
    <3>2. After(v, s \o a)
      BY <1>2, <3>1
    <3>3. e \in Bit /\ a \in Seq(Bit) /\ <<e>> \in Seq(Bit)
      <4>1. e \in Bit
        BY <3>1, ElementOfSeq
      <4>2. a \in Seq(Bit)
        BY <3>1, Split
      <4>3. <<e>> \in Seq(Bit)
        BY <4>1
      <4> QED BY <4>1, <4>2, <4>3
    <3>4. SubSeq(w, 1, k + 1) = a \o <<e>>
      <4>1. SubSeq(w, 1, k + 1) = SubSeq(w, 1, (k + 1) - 1) \o <<w[k + 1]>>
        BY <3>1, SubSeqRecursiveSecond
      <4> QED BY <3>1, <4>1
    <3>5. UnpackFirst(u, w, k + 1) = UnpackBit(v, e)
      BY UnpackFirstNext
    <3> HIDE DEF v, a, e
    <3>6. s \o a \in Seq(Bit) /\ (s \o a) \o <<e>> = s \o (a \o <<e>>)
      BY <3>3, CatIs, CatCat
    <3>7. Parsed((s \o a) \o <<e>>) = UnpackBit(Parsed(s \o a), e)
      BY <3>3, <3>6, ParsedNext
    <3>8. Fine(v) /\ Fine(Parsed(s \o a)) /\ Alike(v, Parsed(s \o a))
      BY <3>2, <3>6, FineParsed DEF After
    <3>9. Fine(UnpackBit(v, e)) /\ Alike(UnpackBit(v, e), UnpackBit(Parsed(s \o a), e))
      BY <3>3, <3>8, UnpackBitAdds, AlikeBit
    <3> QED BY <3>4, <3>5, <3>6, <3>7, <3>9 DEF After
  <2> QED BY <2>1
<1>3. n \in T
  <2> HIDE DEF T
  <2> QED BY <1>1, <1>2, SetInduction
<1> QED BY <1>3

-----------------------------------------------------------------------------
(* All of what was packed is unpacked, without the zeros that were stuffed, *)
(* and of what is unpacked at any moment nothing was not packed.            *)
PrefixOf(a, d) == \E e \in Seq(Bit) : d = a \o e
Begins(s, b) == \E r \in Seq(Bit) : b = s \o r
Restored(d) == /\ Parsed(Stuffed(d).bits).ones = Stuffed(d).ones
               /\ Data(Parsed(Stuffed(d).bits)) = d
               /\ \A s \in Seq(Bit) : Begins(s, Stuffed(d).bits) => PrefixOf(Data(Parsed(s)), d)

(* What begins a part begins what it is the beginning of.                   *)
LEMMA PrefixOfMore ==
  ASSUME NEW a \in Seq(Bit), NEW d \in Seq(Bit), PrefixOf(a, d), NEW t \in Seq(Bit)
  PROVE  PrefixOf(a, d \o t)
<1>1. PICK e \in Seq(Bit) : d = a \o e
  BY DEF PrefixOf
<1>2. d \o t = a \o (e \o t) /\ e \o t \in Seq(Bit)
  BY <1>1, CatCat, CatIs
<1> QED BY <1>2 DEF PrefixOf

(* All of a part begins it.                                                 *)
LEMMA PrefixOfSelf ==
  ASSUME NEW d \in Seq(Bit)
  PROVE  PrefixOf(d, d)
<1>1. <<>> \in Seq(Bit) /\ d = d \o <<>>
  BY EmptySeq, ConcatEmptySeq
<1> QED BY <1>1 DEF PrefixOf

(* What begins two parts and is not longer than the first begins that.      *)
LEMMA BeginsPart ==
  ASSUME NEW s \in Seq(Bit), NEW b \in Seq(Bit), NEW t \in Seq(Bit), Begins(s, b \o t),
         Len(s) <= Len(b)
  PROVE  Begins(s, b)
<1>1. PICK r \in Seq(Bit) : Same(s, r, b, t)
  BY DEF Begins, Same
<1>2. Overlap(s, r, b, t)
  BY <1>1, Prefix
<1> QED BY <1>2 DEF Begins, Overlap

(* What begins a sequence with one bit more is all of it or begins it.      *)
LEMMA BeginsMore ==
  ASSUME NEW s \in Seq(Bit), NEW b \in Seq(Bit), NEW e \in Bit, Begins(s, b \o <<e>>)
  PROVE  s = b \o <<e>> \/ Begins(s, b)
<1>1. PICK r \in Seq(Bit) : b \o <<e>> = s \o r
  BY DEF Begins
<1>2. <<e>> \in Seq(Bit) /\ Len(<<e>>) = 1
  OBVIOUS
<1>3. /\ Len(s) \in Nat /\ Len(b) \in Nat /\ Len(r) \in Nat
      /\ Len(s \o r) = Len(s) + Len(r) /\ Len(b \o <<e>>) = Len(b) + 1
  BY <1>2, CatIs
<1>4. Len(b) + 1 = Len(s) + Len(r)
  BY <1>1, <1>3
<1>5. CASE Len(s) <= Len(b)
  <2> DEFINE t == <<e>>
  <2>1. t \in Seq(Bit) /\ Begins(s, b \o t)
    BY <1>2
  <2> HIDE DEF t
  <2> QED BY <1>5, <2>1, BeginsPart
<1>6. CASE ~(Len(s) <= Len(b))
  <2>1. Len(r) = 0
    BY <1>3, <1>4, <1>6
  <2>2. r = <<>>
    BY <2>1, EmptySeq
  <2>3. s \o <<>> = s
    BY ConcatEmptySeq
  <2> QED BY <1>1, <2>2, <2>3
<1> QED BY <1>5, <1>6

(* The lengths of what was unpacked, in bytes and bits.                     *)
LEMMA DataIs ==
  ASSUME NEW u, Fine(u)
  PROVE  /\ Data(u) \in Seq(Bit) /\ BitsOf(u.out) \in Seq(Bit)
         /\ Len(Data(u)) = 8 * Len(u.out) + Len(u.chunk)
         /\ Len(BitsOf(u.out)) = 8 * Len(u.out) /\ Len(u.out) \in Nat /\ Len(u.chunk) \in Nat
         /\ u.out \in Seq(0..255) /\ u.chunk \in Seq(Bit) /\ u.raw \in Seq(Bit)
         /\ u.state \in States /\ u.ones \in Nat
<1>1. /\ u.out \in Seq(0..255) /\ u.chunk \in Seq(Bit) /\ u.raw \in Seq(Bit)
      /\ u.state \in States /\ u.ones \in Nat
  BY DEF Fine, Unpacking
<1>2. BitsOf(u.out) \in Seq(Bit) /\ Len(BitsOf(u.out)) = 8 * Len(u.out)
  BY <1>1, BitsOfIs
<1>3. Len(u.out) \in Nat /\ Len(u.chunk) \in Nat
  BY <1>1, LenProperties
<1>4. Data(u) \in Seq(Bit) /\ Len(Data(u)) = Len(BitsOf(u.out)) + Len(u.chunk)
  BY <1>1, <1>2, CatIs DEF Data
<1> QED BY <1>1, <1>2, <1>3, <1>4

(* Nothing packed gives nothing.                                            *)
LEMMA RestoredNone ==
  Restored(<<>>)
<1>1. /\ <<>> \in Seq(Bit) /\ "stSync" \in States /\ Len(<<>>) = 0
      /\ Fresh(0).bits = <<>> /\ Fresh(0).ones = 0
  BY EmptySeq DEF States, Fresh
<1>2. Stuffed(<<>>) = Fresh(0)
  BY PackZero DEF Stuffed
<1>3. Parsed(<<>>) = HdlcStart("stSync", <<>>)
  BY <1>1, UnpackFirstZero DEF Parsed
<1>4. Parsed(<<>>).ones = 0 /\ Data(Parsed(<<>>)) = <<>>
  <2> DEFINE e == <<>>
  <2>1. e \in Seq(Bit) /\ Parsed(<<>>) = HdlcStart("stSync", e)
    BY <1>1, <1>3
  <2> HIDE DEF e
  <2>2. HdlcStart("stSync", e).ones = 0 /\ Data(HdlcStart("stSync", e)) = <<>>
    BY <1>1, <2>1, StartIs
  <2> QED BY <2>1, <2>2
<1>5. ASSUME NEW s \in Seq(Bit), Begins(s, <<>>) PROVE PrefixOf(Data(Parsed(s)), <<>>)
  <2>1. PICK r \in Seq(Bit) : <<>> = s \o r
    BY <1>5 DEF Begins
  <2>2. s = <<>>
    <3>1. Len(s \o r) = Len(s) + Len(r) /\ Len(s) \in Nat /\ Len(r) \in Nat
      BY CatIs
    <3>2. Len(s) = 0
      BY <1>1, <2>1, <3>1
    <3> QED BY <3>2, EmptySeq
  <2>3. PrefixOf(<<>>, <<>>)
    BY <1>1, PrefixOfSelf
  <2> QED BY <1>4, <2>2, <2>3
<1> QED BY <1>1, <1>2, <1>4, <1>5 DEF Restored

(* If unpacking undoes stuffing, it does with one bit more: with a one after *)
(* four the stuffed zero follows, and it is the one that is left out.       *)
LEMMA RestoredNext ==
  ASSUME NEW d \in Seq(Bit), Restored(d), NEW e \in Bit
  PROVE  Restored(d \o <<e>>)
<1> DEFINE p == Stuffed(d)
           n == IF e = 1 THEN p.ones + 1 ELSE 0
           t == <<e>>
           q == Stuffed(d \o t)
           b == p.bits \o t
<1>1. p \in Packing /\ p.bits \in Seq(Bit) /\ p.ones \in 0..4
  <2>1. p \in Packing
    <3>1. <<>> \in Seq(Bit)
      BY EmptySeq
    <3> QED BY <3>1, StuffedCat
  <2> HIDE DEF p
  <2> QED BY <2>1, PackingIs
<1>2. t \in Seq(Bit) /\ Len(t) = 1 /\ d \o t \in Seq(Bit) /\ t = <<e>>
  <2>1. t \in Seq(Bit) /\ Len(t) = 1
    OBVIOUS
  <2> HIDE DEF t
  <2>2. d \o t \in Seq(Bit)
    BY <2>1, CatIs
  <2> QED BY <2>1, <2>2 DEF t
<1>3. q = PackBit(p, e)
  <2>1. Append(d, e) = d \o t
    BY AppendIsConcat
  <2>2. Pack(Fresh(0), Append(d, e)) = PackBit(Pack(Fresh(0), d), e)
    BY PackNext
  <2> QED BY <2>1, <2>2 DEF Stuffed
<1>4. /\ Parsed(p.bits).ones = p.ones /\ Data(Parsed(p.bits)) = d
      /\ \A s \in Seq(Bit) : Begins(s, p.bits) => PrefixOf(Data(Parsed(s)), d)
  BY DEF Restored
<1> HIDE DEF p, t
<1>5. b \in Seq(Bit)
  BY <1>1, <1>2, CatIs
<1>6. Parsed(b) = UnpackBit(Parsed(p.bits), e)
  BY <1>1, <1>2, ParsedNext
<1>7. Fine(Parsed(p.bits)) /\ Fine(Parsed(b))
  BY <1>1, <1>5, FineParsed
<1>8. Parsed(b).ones = n /\ Data(Parsed(b)) = d \o t
  <2>1. /\ UnpackBit(Parsed(p.bits), e).ones = IF e = 1 THEN Parsed(p.bits).ones + 1 ELSE 0
        /\ ~(e = 0 /\ Parsed(p.bits).ones = 5) =>
             Data(UnpackBit(Parsed(p.bits), e)) = Data(Parsed(p.bits)) \o <<e>>
    BY <1>7, UnpackBitAdds
  <2>2. p.ones # 5
    BY <1>1
  <2> QED BY <1>2, <1>4, <1>6, <2>1, <2>2
<1>9. ASSUME NEW s \in Seq(Bit), Begins(s, b) PROVE PrefixOf(Data(Parsed(s)), d \o t)
  <2>1. s = b \/ Begins(s, p.bits)
    BY <1>1, <1>2, <1>9, BeginsMore
  <2>2. CASE s = b
    BY <1>2, <1>8, <2>2, PrefixOfSelf
  <2>3. CASE Begins(s, p.bits)
    <3>1. Data(Parsed(s)) \in Seq(Bit)
      BY FineParsed, DataIs
    <3>2. PrefixOf(Data(Parsed(s)), d)
      BY <1>4, <2>3
    <3> QED BY <1>2, <3>1, <3>2, PrefixOfMore
  <2> QED BY <2>1, <2>2, <2>3
<1>10. /\ n # 5 => q = [bits |-> b, ones |-> n]
       /\ n = 5 => e = 1 /\ q = [bits |-> p.bits \o <<e, 0>>, ones |-> 0]
  <2>1. n = IF e = 1 THEN p.ones + 1 ELSE 0
    OBVIOUS
  <2> HIDE DEF n
  <2>2. /\ n # 5 => PackBit(p, e) = [bits |-> p.bits \o <<e>>, ones |-> n]
        /\ n = 5 => e = 1 /\ PackBit(p, e) = [bits |-> p.bits \o <<e, 0>>, ones |-> 0]
    BY <1>1, <2>1, PackBitIs
  <2> QED BY <1>2, <1>3, <2>2
<1> HIDE DEF n, q
<1>11. CASE n # 5
  <2>1. q.bits = b /\ q.ones = n
    <3> HIDE DEF b
    <3> QED BY <1>10, <1>11
  <2> HIDE DEF b
  <2> QED BY <1>2, <1>8, <1>9, <2>1 DEF Restored, q
<1>12. CASE n = 5
  <2> DEFINE z == <<0>>
             c == b \o z
  <2>1. z \in Seq(Bit) /\ 0 \in Bit
    BY DEF Bit
  <2>2. p.bits \o <<e, 0>> = c
    <3>1. <<e>> \o <<0>> = <<e, 0>>
      BY OneTwo
    <3>2. t \o z = <<e, 0>>
      BY <1>2, <3>1
    <3> HIDE DEF z
    <3>3. (p.bits \o t) \o z = p.bits \o (t \o z)
      BY <1>1, <1>2, <2>1, CatCat
    <3> QED BY <3>2, <3>3
  <2>3. q = [bits |-> c, ones |-> 0]
    BY <1>10, <1>12, <2>2
  <2>4. Parsed(c) = UnpackBit(Parsed(b), 0)
    BY <1>5, <2>1, ParsedNext
  <2> HIDE DEF b, c, z
  <2>5. q.bits = c /\ q.ones = 0
    BY <2>3
  <2>6. c \in Seq(Bit)
    BY <1>5, <2>1, CatIs DEF c
  <2>7. Parsed(c).ones = 0 /\ Data(Parsed(c)) = d \o t
    <3>1. /\ UnpackBit(Parsed(b), 0).ones = IF 0 = 1 THEN Parsed(b).ones + 1 ELSE 0
          /\ 0 = 0 /\ Parsed(b).ones = 5 => Data(UnpackBit(Parsed(b), 0)) = Data(Parsed(b))
      BY <1>7, <2>1, UnpackBitAdds
    <3> QED BY <1>8, <1>12, <2>4, <3>1
  <2>8. ASSUME NEW s \in Seq(Bit), Begins(s, c) PROVE PrefixOf(Data(Parsed(s)), d \o t)
    <3>1. s = c \/ Begins(s, b)
      BY <1>5, <2>1, <2>8, BeginsMore DEF c, z
    <3>2. CASE s = c
      BY <1>2, <2>7, <3>2, PrefixOfSelf
    <3> QED BY <1>9, <3>1, <3>2
  <2> QED BY <1>2, <2>5, <2>7, <2>8 DEF Restored, q
<1> QED BY <1>11, <1>12

(* Unpacking undoes stuffing.                                               *)
LEMMA RestoredAll ==
  \A d \in Seq(Bit) : Restored(d)
<1> DEFINE T == {d \in Seq(Bit) : Restored(d)}
<1>1. <<>> \in T
  BY EmptySeq, RestoredNone
<1>2. ASSUME NEW d \in Seq(Bit), NEW e \in Bit, d \in T PROVE Append(d, e) \in T
  <2>1. Append(d, e) \in Seq(Bit) /\ Append(d, e) = d \o <<e>>
    BY AppendProperties, AppendIsConcat
  <2>2. Restored(d \o <<e>>)
    BY <1>2, RestoredNext
  <2> QED BY <2>1, <2>2
<1>3. \A d \in Seq(Bit) : d \in T
  <2> HIDE DEF T
  <2> QED BY <1>1, <1>2, SeqInduction
<1> QED BY <1>3

-----------------------------------------------------------------------------
(* The FCS is sixteen bits.                                                 *)
LEMMA FcsBitIs ==
  ASSUME NEW fcs \in [1..16 -> Bit], NEW e \in Bit
  PROVE  FcsBit(fcs, e) \in [1..16 -> Bit]
<1> DEFINE x == (fcs[1] + e) % 2
           F(i) == CASE i = 16       -> x
                     [] i \in {4, 11} -> (fcs[i + 1] + x) % 2
                     [] OTHER        -> fcs[i + 1]
<1>1. \A a, b \in Bit : (a + b) % 2 \in Bit
  BY DEF Bit
<1>2. x \in Bit
  <2>1. fcs[1] \in Bit
    OBVIOUS
  <2> QED BY <1>1, <2>1
<1> HIDE DEF x
<1>3. ASSUME NEW i \in 1..16 PROVE F(i) \in Bit
  <2>1. CASE i = 16
    BY <1>2, <2>1
  <2>2. CASE i # 16
    <3>1. fcs[i + 1] \in Bit
      <4>1. i + 1 \in 1..16
        BY <2>2
      <4> QED BY <4>1
    <3>2. (fcs[i + 1] + x) % 2 \in Bit
      BY <1>1, <1>2, <3>1
    <3>3. CASE i \in {4, 11}
      BY <2>2, <3>2, <3>3
    <3>4. CASE i \notin {4, 11}
      BY <2>2, <3>1, <3>4
    <3> QED BY <3>3, <3>4
  <2> QED BY <2>1, <2>2
<1>4. FcsBit(fcs, e) = [i \in 1..16 |-> F(i)]
  BY DEF FcsBit, x
<1> HIDE DEF F
<1> QED BY <1>3, <1>4

(* An FCS has 16 bits.                                                      *)
LEMMA FcsIs ==
  ASSUME NEW bits \in Seq(Bit)
  PROVE  FcsOf(bits) \in Seq(Bit) /\ Len(FcsOf(bits)) = 16
<1> DEFINE m == Len(bits)
<1>1. PICK f : /\ f[0] = [i \in 1..16 |-> 1]
               /\ \A n \in 1..m : f[n] = FcsBit(f[n - 1], bits[n])
               /\ FcsOf(bits) = [i \in 1..16 |-> 1 - f[m][i]]
  BY FcsOfLoops
<1>2. m \in Nat /\ \A n \in 1..m : bits[n] \in Bit
  BY LenProperties, ElementOfSeq
<1> HIDE DEF m
<1> DEFINE T == {n \in Nat : n <= m => f[n] \in [1..16 -> Bit]}
<1>3. 0 \in T
  <2>1. [i \in 1..16 |-> 1] \in [1..16 -> Bit]
    BY DEF Bit
  <2> QED BY <1>1, <2>1
<1>4. ASSUME NEW n \in Nat, n \in T PROVE n + 1 \in T
  <2>1. ASSUME n + 1 <= m PROVE f[n + 1] \in [1..16 -> Bit]
    <3>1. n <= m /\ n + 1 \in 1..m /\ (n + 1) - 1 = n
      BY <1>2, <2>1
    <3>2. f[n] \in [1..16 -> Bit] /\ bits[n + 1] \in Bit
      BY <1>2, <1>4, <3>1
    <3>3. f[n + 1] = FcsBit(f[(n + 1) - 1], bits[n + 1])
      BY <1>1, <3>1, Zenon
    <3> QED BY <3>1, <3>2, <3>3, FcsBitIs
  <2> QED BY <2>1
<1>5. m \in T
  <2> HIDE DEF T
  <2> QED BY <1>2, <1>3, <1>4, SetInduction
<1>6. f[m] \in [1..16 -> Bit]
  BY <1>2, <1>5
<1>7. [i \in 1..16 |-> 1 - f[m][i]] \in [1..16 -> Bit]
  <2>1. ASSUME NEW i \in 1..16 PROVE 1 - f[m][i] \in Bit
    <3>1. f[m][i] \in Bit
      BY <1>6
    <3> QED BY <3>1 DEF Bit
  <2> QED BY <2>1
<1> HIDE DEF T
<1> DEFINE g == FcsOf(bits)
<1>8. g \in [1..16 -> Bit]
  BY <1>1, <1>7
<1> HIDE DEF g
<1>9. g \in Seq(Bit) /\ Len(g) = 16
  <2> DEFINE n == 16
  <2>1. n \in Nat /\ g \in [1..n -> Bit]
    BY <1>8
  <2> HIDE DEF n
  <2>2. g \in Seq(Bit) /\ Len(g) = n
    BY <2>1
  <2> QED BY <2>2 DEF n
<1> QED BY <1>9 DEF g

(* The one that is sent is it, or is not it for a frame with errors.        *)
LEMMA FcsSentIs ==
  ASSUME NEW bytes \in Seq(0..255), NEW bad \in BOOLEAN
  PROVE  /\ FcsSent(bytes, bad) \in Seq(Bit) /\ Len(FcsSent(bytes, bad)) = 16
         /\ (FcsSent(bytes, bad) = Fcs(bytes)) = ~bad
<1> DEFINE fcs == Fcs(bytes)
           a == SubSeq(fcs, 1, 8)
           b == SubSeq(fcs, 9, 16)
           h == (Value(a) + IF bad THEN 1 ELSE 0) % 256
<1>1. fcs \in Seq(Bit) /\ Len(fcs) = 16
  BY BitsOfIs, FcsIs DEF Fcs
<1>2. FcsSent(bytes, bad) = Bits(h) \o b
  BY DEF FcsSent
<1> HIDE DEF fcs
<1>3. /\ a \in Seq(Bit) /\ Len(a) = 8 /\ b \in Seq(Bit) /\ Len(b) = 8
      /\ fcs = a \o b
  <2>1. 8 \in Nat /\ 8 <= Len(fcs) /\ 8 + 1 = 9 /\ 16 - 8 = 8
    BY <1>1
  <2>2. /\ SubSeq(fcs, 1, 8) \in Seq(Bit) /\ Len(SubSeq(fcs, 1, 8)) = 8
        /\ SubSeq(fcs, 8 + 1, Len(fcs)) \in Seq(Bit)
        /\ Len(SubSeq(fcs, 8 + 1, Len(fcs))) = Len(fcs) - 8
        /\ fcs = SubSeq(fcs, 1, 8) \o SubSeq(fcs, 8 + 1, Len(fcs))
    BY <1>1, <2>1, Split
  <2> QED BY <1>1, <2>1, <2>2
<1> HIDE DEF a, b
<1>4. Value(a) \in 0..255 /\ Bits(Value(a)) = a
  BY <1>3, ValueIs
<1>5. h \in 0..255 /\ (h = Value(a)) = ~bad
  <2> DEFINE x == Value(a)
  <2>1. x \in 0..255
    BY <1>4
  <2> HIDE DEF x
  <2>2. CASE bad = TRUE
    <3>1. h = (x + 1) % 256
      BY <2>2 DEF x
    <3>2. (x + 1) % 256 \in 0..255 /\ (x + 1) % 256 # x
      BY <2>1
    <3> QED BY <2>2, <3>1, <3>2 DEF x
  <2>3. CASE bad = FALSE
    <3>1. h = (x + 0) % 256
      BY <2>3 DEF x
    <3>2. (x + 0) % 256 = x
      BY <2>1
    <3> QED BY <2>1, <2>3, <3>1, <3>2 DEF x
  <2> QED BY <2>2, <2>3
<1> HIDE DEF h
<1>6. Bits(h) \in Seq(Bit) /\ Len(Bits(h)) = 8 /\ Value(Bits(h)) = h
  BY <1>5, BitsAre
<1>7. Bits(h) \o b \in Seq(Bit) /\ Len(Bits(h) \o b) = 16
  <2> DEFINE c == Bits(h)
  <2>1. c \in Seq(Bit) /\ Len(c) = 8
    BY <1>6
  <2> HIDE DEF c
  <2>2. c \o b \in Seq(Bit) /\ Len(c \o b) = Len(c) + Len(b)
    BY <1>3, <2>1, CatIs
  <2>3. 8 + 8 = 16
    OBVIOUS
  <2> QED BY <1>3, <2>1, <2>2, <2>3 DEF c
<1>8. Bits(h) \o b = fcs => h = Value(a)
  <2>1. ASSUME Bits(h) \o b = fcs PROVE Bits(h) = a
    <3>1. Same(Bits(h), b, a, b)
      BY <1>3, <2>1 DEF Same
    <3> QED BY <1>3, <1>6, <3>1, SameParts
  <2> QED BY <1>6, <2>1
<1>9. h = Value(a) => Bits(h) \o b = fcs
  BY <1>3, <1>4
<1>10. (Bits(h) \o b = fcs) = ~bad
  BY <1>5, <1>8, <1>9
<1> QED BY <1>2, <1>7, <1>10 DEF fcs

-----------------------------------------------------------------------------
(* Flags.                                                                   *)
Run(j) == PackFlags(Fresh(0), j).bits

(* A run of flags can be made longer at either end.                         *)
LEMMA RunIs ==
  \A j \in Nat : PackFlags(Fresh(0), j) = [bits |-> Run(j), ones |-> 0] /\ Run(j) \in Seq(Bit)
                 /\ Run(j + 1) = Run(j) \o Flag /\ Run(j + 1) = Flag \o Run(j)
                 /\ Run(0) = <<>> /\ Run(1) = Flag
<1>1. PackFlags(Fresh(0), 0) = Fresh(0) /\ Fresh(0) = [bits |-> <<>>, ones |-> 0]
      /\ Run(0) = <<>> /\ <<>> \in Seq(Bit)
  <2>1. PackFlags(Fresh(0), 0) = Fresh(0)
    BY PackFlagsZero
  <2>2. Fresh(0) = [bits |-> <<>>, ones |-> 0] /\ Fresh(0).bits = <<>>
    BY DEF Fresh
  <2> QED BY <2>1, <2>2, EmptySeq DEF Run
<1>2. \A j \in Nat : PackFlags(Fresh(0), j + 1) = [bits |-> Run(j) \o Flag, ones |-> 0]
  BY PackFlagsNext DEF PackFlag, Run
<1>3. \A j \in Nat : Run(j + 1) = Run(j) \o Flag
  <2>1. ASSUME NEW j \in Nat PROVE Run(j + 1) = Run(j) \o Flag
    <3> DEFINE b == Run(j) \o Flag
    <3>1. PackFlags(Fresh(0), j + 1) = [bits |-> b, ones |-> 0]
      BY <1>2
    <3> HIDE DEF b
    <3>2. PackFlags(Fresh(0), j + 1).bits = b
      BY <3>1
    <3>3. Run(j + 1) = PackFlags(Fresh(0), j + 1).bits
      BY DEF Run
    <3> QED BY <3>2, <3>3 DEF b
  <2> QED BY <2>1
<1> DEFINE T == {j \in Nat : /\ PackFlags(Fresh(0), j) = [bits |-> Run(j), ones |-> 0]
                             /\ Run(j) \in Seq(Bit) /\ Run(j) \o Flag = Flag \o Run(j)}
<1>4. Flag \in Seq(Bit)
  BY FlagIs
<1>5. 0 \in T
  <2>1. <<>> \o Flag = Flag \o <<>> /\ <<>> \o Flag = Flag
    BY <1>4, ConcatEmptySeq
  <2>2. PackFlags(Fresh(0), 0) = [bits |-> Run(0), ones |-> 0]
    BY <1>1
  <2>3. Run(0) \in Seq(Bit) /\ Run(0) \o Flag = Flag \o Run(0)
    BY <1>1, <2>1
  <2>4. 0 \in Nat
    OBVIOUS
  <2> QED BY <2>2, <2>3, <2>4, Zenon
<1>6. ASSUME NEW j \in Nat, j \in T PROVE j + 1 \in T
  <2> DEFINE b == Run(j)
             c == Run(j + 1)
  <2>1. b \in Seq(Bit) /\ b \o Flag = Flag \o b
    BY <1>6
  <2>2. c = b \o Flag /\ PackFlags(Fresh(0), j + 1) = [bits |-> c, ones |-> 0]
    BY <1>2, <1>3
  <2> HIDE DEF b, c
  <2>3. c \in Seq(Bit)
    BY <1>4, <2>1, <2>2, CatIs
  <2>4. c \o Flag = Flag \o c
    <3>1. (Flag \o b) \o Flag = Flag \o (b \o Flag)
      BY <1>4, <2>1, CatCat
    <3> QED BY <2>1, <2>2, <3>1
  <2>5. j + 1 \in Nat
    OBVIOUS
  <2> QED BY <2>2, <2>3, <2>4, <2>5, Zenon DEF c
<1>7. \A j \in Nat : j \in T
  <2> HIDE DEF T
  <2> QED BY <1>5, <1>6, SetInduction
<1>8. \A j \in Nat : /\ PackFlags(Fresh(0), j) = [bits |-> Run(j), ones |-> 0]
                     /\ Run(j) \in Seq(Bit) /\ Run(j) \o Flag = Flag \o Run(j)
  BY <1>7, Zenon
<1>9. Run(1) = Flag
  <2>3. 0 \in Nat /\ 0 + 1 = 1
    OBVIOUS
  <2>4. Run(0 + 1) = Run(0) \o Flag
    BY <1>3, <2>3, Zenon
  <2>1. Run(0 + 1) = Run(0) \o Flag /\ 0 + 1 = 1
    BY <2>3, <2>4
  <2>2. <<>> \o Flag = Flag
    BY <1>4, ConcatEmptySeq
  <2> QED BY <1>1, <2>1, <2>2
<1> HIDE DEF T
<1> QED BY <1>1, <1>3, <1>8, <1>9, Zenon

(* What of a packer goes out and what stays is what was in it.              *)
LEMMA PutRawIs ==
  ASSUME NEW p \in Packing, line = <<>>, PutRaw(p)
  PROVE  /\ packer' \in Packing /\ Len(packer'.bits) <= 7 /\ packer'.ones = p.ones
         /\ line' \in Seq(Bit) /\ (\E k \in Nat : Len(line') = 8 * k)
         /\ line' \o packer'.bits = p.bits
<1> DEFINE m == Len(p.bits)
           k == m \div 8
           n == 8 * k
           a == SubSeq(p.bits, 1, n)
           b == SubSeq(p.bits, n + 1, m)
<1>1. p.bits \in Seq(Bit) /\ p.ones \in 0..4 /\ p = [bits |-> p.bits, ones |-> p.ones]
  BY PackingIs
<1>2. m \in Nat
  BY <1>1, LenProperties
<1>3. line' = <<>> \o a /\ packer' = [p EXCEPT !.bits = b]
  BY DEF PutRaw
<1> HIDE DEF m
<1>4. k \in Nat /\ n \in Nat /\ n <= m /\ m - n <= 7
  BY <1>2
<1> HIDE DEF k
<1>5. /\ a \in Seq(Bit) /\ Len(a) = n /\ b \in Seq(Bit) /\ Len(b) = m - n
      /\ p.bits = a \o b
  BY <1>1, <1>4, Split DEF m
<1> HIDE DEF n, a, b
<1>6. line' = a
  BY <1>3, <1>5, ConcatEmptySeq
<1>7. packer' \in [bits : {b}, ones : {p.ones}]
  <2>1. [p EXCEPT !.bits = b] \in [bits : {b}, ones : {p.ones}]
    BY DEF Packing
  <2> QED BY <1>3, <2>1
<1>8. packer'.bits = b /\ packer'.ones = p.ones /\ packer' \in Packing
  <2>1. packer'.bits = b /\ packer'.ones = p.ones
    BY <1>7
  <2>2. packer' \in Packing
    BY <1>1, <1>5, <1>7 DEF Packing
  <2> QED BY <2>1, <2>2
<1> QED BY <1>4, <1>5, <1>6, <1>8 DEF n

(* A flag that comes first is found first and taken away.                   *)
LEMMA TakeFlag ==
  ASSUME NEW x \in Seq(Bit), NEW w \in Seq(Bit), NEW z \in Seq(Bit), Same(Flag, x, w, z),
         8 <= Len(w)
  PROVE  /\ 0 \in FlagAt(w) /\ First(w) = 0
         /\ Rest(w) \in Seq(Bit) /\ Len(Rest(w)) = Len(w) - 8 /\ x = Rest(w) \o z
<1>1. Flag \in Seq(Bit) /\ Len(Flag) = 8
  BY FlagIs
<1>2. PICK v \in Seq(Bit) : w = Flag \o v /\ x = v \o z
  <2>1. Overlap(Flag, x, w, z)
    BY <1>1, Prefix
  <2> QED BY <2>1 DEF Overlap
<1>3. /\ Len(w) = 8 + Len(v) /\ Len(v) \in Nat
      /\ SubSeq(w, 9, Len(w)) = v
  <2>1. Len(Flag \o v) = Len(Flag) + Len(v) /\ Len(v) \in Nat
    BY <1>1, CatIs
  <2>2. SubSeq(Flag \o v, Len(Flag) + 1, Len(Flag \o v)) = v
    BY <1>1, RestOf
  <2>3. 8 + 1 = 9
    OBVIOUS
  <2> QED BY <1>1, <1>2, <2>1, <2>2, <2>3
<1>4. 0 \in FlagAt(w)
  <2>1. \A k \in 1..8 : w[0 + k] = Flag[k]
    <3>1. \A i \in 1..(Len(Flag) + Len(v)) :
             (Flag \o v)[i] = IF i <= Len(Flag) THEN Flag[i] ELSE v[i - Len(Flag)]
      BY <1>1, CatIs
    <3>2. \A k \in 1..8 : k \in 1..(8 + Len(v)) /\ k <= 8 /\ 0 + k = k
      BY <1>3
    <3>3. ASSUME NEW k \in 1..8 PROVE w[0 + k] = Flag[k]
      <4>1. (Flag \o v)[k] = Flag[k]
        BY <1>1, <3>1, <3>2
      <4> QED BY <1>2, <3>2, <4>1
    <3> QED BY <3>3
  <2>2. 0 \in Nat /\ 0 + 8 <= Len(w)
    BY <1>3
  <2> QED BY <2>1, <2>2, FlagAtIs
<1>5. First(w) = 0
  <2>1. \A o \in FlagAt(w) : o \in Nat
    BY FlagAtIs
  <2>2. \A o \in FlagAt(w) : 0 <= o
    BY <2>1
  <2> DEFINE o == CHOOSE o \in FlagAt(w) : \A p \in FlagAt(w) : o <= p
  <2>3. o \in FlagAt(w) /\ \A p \in FlagAt(w) : o <= p
    BY <1>4, <2>2
  <2>4. First(w) = o
    BY <1>4 DEF First
  <2> HIDE DEF o
  <2>5. o \in Nat /\ o <= 0
    BY <1>4, <2>1, <2>3
  <2> QED BY <2>4, <2>5
<1>6. Rest(w) = v
  <2>1. Rest(w) = SubSeq(w, First(w) + 9, Len(w))
    BY <1>4 DEF Rest
  <2>2. 0 + 9 = 9
    OBVIOUS
  <2> QED BY <1>3, <1>5, <2>1, <2>2
<1> QED BY <1>2, <1>3, <1>4, <1>5, <1>6

-----------------------------------------------------------------------------
(* The bits between the packer and the unpacker are flags, and of a frame   *)
(* what is not unpacked of what was packed, with two flags when all of it   *)
(* was packed.                                                              *)
Sent == [bytes : Seq(0..255), ok : BOOLEAN]
Wire == unpacker.raw \o (line \o packer.bits)
StuffedAs(d, s, r) == Stuffed(d).bits = s \o r

Types ==
  /\ packer \in Packing /\ Len(packer.bits) <= 7
  /\ frame \in Seq(0..255)
  /\ line \in Seq(Bit) /\ \E k \in Nat : Len(line) = 8 * k
  /\ Fine(unpacker) /\ Len(unpacker.raw) <= 7
  /\ sentFrames \in Seq(Sent) /\ gotFrames \in Seq(Sent)

(* Nothing of the signal was packed.                                        *)
Idle ==
  /\ packer = Fresh(0) /\ frame = <<>> /\ line = <<>>
  /\ unpacker = HdlcStart("stSync", <<>>) /\ sentFrames = <<>> /\ gotFrames = <<>>

(* There are j flags, and then a frame: of its bits d, stuffed, those in s  *)
(* are unpacked and those in r are not; y follows.                          *)
Coming(r, y, j) == Wire = Run(j) \o (r \o y)
Place(s, j) ==
  /\ After(unpacker, s)
  /\ unpacker.state = "stSync" => s = <<>> /\ unpacker.raw = <<>> /\ j > 0
  /\ unpacker.state = "stSkipFlags" => s = <<>>
  /\ unpacker.state = "stData" => j = 0
Reading(d, s, r, y, j) == StuffedAs(d, s, r) /\ Coming(r, y, j) /\ Place(s, j)

(* The frame that is read is the one being packed, or the last that was.    *)
OfFrame(d, y) ==
  /\ y = <<>> /\ d = BitsOf(frame) /\ gotFrames = sentFrames
  /\ packer.ones = Stuffed(d).ones
  /\ frame = <<>> => sentFrames # <<>> /\ unpacker.state = "stSkipFlags"
OfSent(d, y) ==
  /\ y = Flag \o Flag /\ frame = <<>> /\ packer.ones = 0
  /\ \E f \in Sent : /\ f.bytes # <<>> /\ sentFrames = Append(gotFrames, f)
                     /\ d = BitsOf(f.bytes) \o FcsSent(f.bytes, ~f.ok)

Passing == \E d, s, r \in Seq(Bit), y \in Ends, j \in Nat :
             Reading(d, s, r, y, j) /\ (OfFrame(d, y) \/ OfSent(d, y))
FramesInv == Types /\ (Idle \/ Passing)

-----------------------------------------------------------------------------
(* The empty frame.                                                         *)
LEMMA NoneIs ==
  /\ \A S : <<>> \in Seq(S)
  /\ Len(<<>>) = 0 /\ <<>> \in Ends
  /\ Fresh(0) \in Packing /\ Fresh(0).bits = <<>> /\ Fresh(0).ones = 0
  /\ Stuffed(<<>>) = Fresh(0)
  /\ StuffedAs(<<>>, <<>>, <<>>)
<1>1. (\A S : <<>> \in Seq(S)) /\ Len(<<>>) = 0
  BY EmptySeq
<1>2. <<>> \in Ends
  BY DEF Ends
<1>3. 0 \in 0..4
  OBVIOUS
<1>4. Fresh(0) \in Packing /\ Fresh(0).bits = <<>> /\ Fresh(0).ones = 0
  BY <1>3, PackingIs
<1>5. Stuffed(<<>>) = Fresh(0)
  BY PackZero DEF Stuffed
<1>6. <<>> \o <<>> = <<>>
  BY <1>1, ConcatEmptySeq
<1> QED BY <1>1, <1>2, <1>4, <1>5, <1>6 DEF StuffedAs

(* The invariant holds at the start,                                        *)
LEMMA FramesInit ==
  ASSUME HdlcInit
  PROVE  FramesInv
<1> DEFINE e == <<>>
<1>1. /\ packer = [bits |-> <<>>, ones |-> 0] /\ frame = <<>> /\ line = <<>>
      /\ unpacker = HdlcStart("stSync", <<>>) /\ sentFrames = <<>> /\ gotFrames = <<>>
  BY DEF HdlcInit
<1>2. packer = Fresh(0)
  BY <1>1 DEF Fresh
<1>3. Idle
  BY <1>1, <1>2 DEF Idle
<1>4. packer \in Packing /\ Len(packer.bits) = 0
  BY <1>2, NoneIs
<1>5. e \in Seq(Bit) /\ "stSync" \in States /\ Len(e) = 0 /\ unpacker = HdlcStart("stSync", e)
  BY <1>1, NoneIs DEF States
<1> HIDE DEF e
<1>6. Fine(unpacker) /\ unpacker.raw = e
  BY <1>5, StartIs
<1>7. Len(line) = 8 * 0 /\ 0 \in Nat /\ 0 <= 7
  BY <1>1, NoneIs
<1>8. /\ frame \in Seq(0..255) /\ line \in Seq(Bit)
      /\ sentFrames \in Seq(Sent) /\ gotFrames \in Seq(Sent)
  BY <1>1, NoneIs
<1>9. Types
  BY <1>4, <1>5, <1>6, <1>7, <1>8 DEF Types
<1> QED BY <1>3, <1>9 DEF FramesInv

(* and when the next signal starts.                                         *)
LEMMA FramesNextSignal ==
  ASSUME FramesInv, NextSignal
  PROVE  FramesInv'
<1> DEFINE e == <<>>
<1>1. /\ packer' = [bits |-> <<>>, ones |-> 0] /\ frame' = <<>> /\ line' = <<>>
      /\ unpacker' = HdlcStart("stSync", <<>>) /\ sentFrames' = <<>> /\ gotFrames' = <<>>
  BY DEF NextSignal
<1>2. packer' = Fresh(0)
  BY <1>1 DEF Fresh
<1>3. Idle'
  BY <1>1, <1>2 DEF Idle
<1>4. packer' \in Packing /\ Len(packer'.bits) = 0
  BY <1>2, NoneIs
<1>5. e \in Seq(Bit) /\ "stSync" \in States /\ Len(e) = 0 /\ unpacker' = HdlcStart("stSync", e)
  BY <1>1, NoneIs DEF States
<1> HIDE DEF e
<1>6. Fine(unpacker') /\ unpacker'.raw = e
  BY <1>5, StartIs
<1>7. Len(line') = 8 * 0 /\ 0 \in Nat /\ 0 <= 7
  BY <1>1, NoneIs
<1>8. /\ frame' \in Seq(0..255) /\ line' \in Seq(Bit)
      /\ sentFrames' \in Seq(Sent) /\ gotFrames' \in Seq(Sent)
  BY <1>1, NoneIs
<1>9. Types'
  BY <1>4, <1>5, <1>6, <1>7, <1>8 DEF Types
<1> QED BY <1>3, <1>9 DEF FramesInv

(* The raw data put after what there is.                                    *)
LEMMA WireAfterPut ==
  ASSUME Types, line = <<>>, NEW p \in Packing, PutRaw(p), unpacker' = unpacker
  PROVE  /\ packer' \in Packing /\ Len(packer'.bits) <= 7 /\ packer'.ones = p.ones
         /\ line' \in Seq(Bit) /\ (\E k \in Nat : Len(line') = 8 * k)
         /\ Wire' = unpacker.raw \o p.bits /\ Wire = unpacker.raw \o packer.bits
         /\ unpacker.raw \in Seq(Bit) /\ packer.bits \in Seq(Bit) /\ packer \in Packing
<1>1. /\ packer' \in Packing /\ Len(packer'.bits) <= 7 /\ packer'.ones = p.ones
      /\ line' \in Seq(Bit) /\ (\E k \in Nat : Len(line') = 8 * k)
      /\ line' \o packer'.bits = p.bits
  BY PutRawIs
<1>2. unpacker.raw \in Seq(Bit)
  BY DataIs DEF Types
<1>3. packer.bits \in Seq(Bit) /\ packer \in Packing
  BY PackingIs DEF Types
<1>4. Wire' = unpacker.raw \o p.bits
  BY <1>1 DEF Wire
<1>5. Wire = unpacker.raw \o packer.bits
  <2>1. <<>> \o packer.bits = packer.bits
    BY <1>3, ConcatEmptySeq
  <2> QED BY <2>1 DEF Wire
<1> QED BY <1>1, <1>2, <1>3, <1>4, <1>5

(* Three concatenations.                                                    *)
LEMMA CatSame ==
  ASSUME NEW s \in Seq(Bit), NEW t \in Seq(Bit), NEW u \in Seq(Bit)
  PROVE  Same(s \o t, u, s, t \o u) /\ t \o u \in Seq(Bit)
BY CatCat, CatIs DEF Same

(* The same bits with more after them are the same.                         *)
LEMMA SameMore ==
  ASSUME NEW v \in Seq(Bit), NEW b \in Seq(Bit), NEW g \in Seq(Bit), NEW r \in Seq(Bit),
         NEW a \in Seq(Bit), Same(v, b, g, r)
  PROVE  Same(v, b \o a, g, r \o a)
<1>1. Same(v \o b, a, v, b \o a) /\ Same(g \o r, a, g, r \o a)
  BY CatSame, Zenon
<1> QED BY <1>1, Zenon DEF Same

(* More of a frame is packed.                                               *)
MorePacked(p, t, raw, g, d, s) ==
  \E x \in Seq(Bit) : /\ StuffedAs(d \o t, s, x) /\ Same(raw, Pack(p, t).bits, g, x)
                      /\ Pack(p, t).ones = Stuffed(d \o t).ones

(* Packing more bits of a frame stuffs the longer frame.                    *)
LEMMA PackMore ==
  ASSUME NEW p \in Packing, NEW raw \in Seq(Bit), NEW g \in Seq(Bit),
         NEW d \in Seq(Bit), NEW s \in Seq(Bit), NEW r \in Seq(Bit), NEW t \in Seq(Bit),
         StuffedAs(d, s, r), Same(raw, p.bits, g, r), p.ones = Stuffed(d).ones
  PROVE  MorePacked(p, t, raw, g, d, s)
<1> DEFINE a == Pack(Fresh(p.ones), t).bits
           q == Stuffed(d)
           x == r \o a
<1>1. /\ Pack(p, t).bits = p.bits \o a /\ Pack(Fresh(p.ones), t) \in Packing
      /\ Pack(p, t).ones = Pack(Fresh(p.ones), t).ones
  BY PackIs
<1>2. a \in Seq(Bit) /\ p.bits \in Seq(Bit)
  BY <1>1, PackingIs
<1>3. q \in Packing /\ Stuffed(d \o t) = Pack(q, t)
  BY StuffedCat
<1>4. /\ Pack(q, t).bits = q.bits \o Pack(Fresh(q.ones), t).bits
      /\ Pack(q, t).ones = Pack(Fresh(q.ones), t).ones
  <2> HIDE DEF q
  <2> QED BY <1>3, PackIs
<1>5. Stuffed(d \o t).bits = (s \o r) \o a /\ Stuffed(d \o t).ones = Pack(p, t).ones
  <2>1. q.bits = s \o r /\ q.ones = p.ones
    BY DEF StuffedAs
  <2> HIDE DEF q
  <2> QED BY <1>1, <1>3, <1>4, <2>1
<1> HIDE DEF a, q
<1>6. x \in Seq(Bit) /\ Same(raw, p.bits \o a, g, x) /\ Stuffed(d \o t).bits = s \o x
  <2> DEFINE b == p.bits
  <2>1. b \in Seq(Bit) /\ a \in Seq(Bit) /\ Same(raw, b, g, r)
    BY <1>2
  <2> HIDE DEF b, x
  <2>2. Same(raw, b \o a, g, r \o a)
    BY <2>1, SameMore, Zenon
  <2>3. Same(s \o r, a, s, r \o a) /\ r \o a \in Seq(Bit)
    BY <2>1, CatSame, Zenon
  <2>4. Stuffed(d \o t).bits = s \o (r \o a)
    BY <1>5, <2>3, Zenon DEF Same
  <2> QED BY <2>2, <2>3, <2>4 DEF b, x
<1> HIDE DEF x
<1> QED BY <1>1, <1>5, <1>6 DEF StuffedAs, MorePacked

-----------------------------------------------------------------------------
(* The bits that were packed are on the way.                                *)
LEMMA ReadingPut ==
  ASSUME Types, line = <<>>, NEW p \in Packing, PutRaw(p), unpacker' = unpacker,
         NEW d \in Seq(Bit), NEW s \in Seq(Bit), NEW x \in Seq(Bit), NEW y \in Ends, NEW j \in Nat,
         StuffedAs(d, s, x), Same(unpacker.raw, p.bits, Run(j), x \o y), Place(s, j)
  PROVE  Reading(d, s, x, y, j)'
<1>1. Wire' = unpacker.raw \o p.bits
  BY WireAfterPut
<1>2. Coming(x, y, j)'
  <2>1. unpacker.raw \o p.bits = Run(j) \o (x \o y)
    BY Zenon DEF Same
  <2>2. Wire' = Run(j) \o (x \o y)
    BY <1>1, <2>1, Zenon
  <2> QED BY <2>2, Zenon DEF Coming
<1>3. Place(s, j)'
  BY Zenon DEF Place
<1> QED BY <1>2, <1>3, Zenon DEF Reading

(* With no raw data on the way, what is packed was unpacked but for 14 bits. *)
LEMMA NotOfSent ==
  ASSUME Types, line = <<>>, NEW d \in Seq(Bit), NEW s \in Seq(Bit), NEW r \in Seq(Bit),
         NEW y \in Ends, NEW j \in Nat, Reading(d, s, r, y, j)
  PROVE  ~OfSent(d, y)
<1> SUFFICES ASSUME OfSent(d, y) PROVE FALSE
  OBVIOUS
<1> DEFINE u == unpacker.raw
           b == packer.bits
           e == r \o y
           c == Run(j)
<1>1. u \in Seq(Bit) /\ b \in Seq(Bit) /\ Len(u) <= 7 /\ Len(b) <= 7
  <2>1. Fine(unpacker) /\ packer \in Packing /\ Len(u) <= 7 /\ Len(b) <= 7
    BY DEF Types
  <2> QED BY <2>1, DataIs, PackingIs
<1>2. y \in Seq(Bit) /\ Len(y) = 16
  <2>1. y = Flag \o Flag
    BY DEF OfSent
  <2>2. Flag \in Seq(Bit) /\ Len(Flag) = 8
    BY FlagIs
  <2>3. Flag \o Flag \in Seq(Bit) /\ Len(Flag \o Flag) = Len(Flag) + Len(Flag)
    BY <2>2, CatIs
  <2> QED BY <2>1, <2>2, <2>3
<1>3. e \in Seq(Bit) /\ Len(e) = Len(r) + Len(y) /\ Len(r) \in Nat
  BY <1>2, CatIs
<1>4. c \in Seq(Bit)
  BY RunIs
<1>5. u \o b = c \o e
  <2>1. Wire = u \o (<<>> \o b)
    BY DEF Wire
  <2>2. <<>> \o b = b
    BY <1>1, ConcatEmptySeq
  <2>3. Wire = c \o e
    BY DEF Reading, Coming
  <2> QED BY <2>1, <2>2, <2>3
<1> HIDE DEF u, b, c, e
<1>6. Len(u \o b) = Len(u) + Len(b) /\ Len(u) \in Nat /\ Len(b) \in Nat
  BY <1>1, CatIs
<1>7. Len(c \o e) = Len(c) + Len(e) /\ Len(c) \in Nat /\ Len(e) \in Nat
  BY <1>3, <1>4, CatIs
<1> QED BY <1>1, <1>2, <1>3, <1>5, <1>6, <1>7

-----------------------------------------------------------------------------
(* Types after a packer has put its raw data.                               *)
LEMMA TypesPut ==
  ASSUME Types, line = <<>>, NEW p \in Packing, PutRaw(p), unpacker' = unpacker,
         frame' \in Seq(0..255), sentFrames' \in Seq(Sent), gotFrames' = gotFrames
  PROVE  Types' /\ packer'.ones = p.ones
<1>1. /\ packer' \in Packing /\ Len(packer'.bits) <= 7 /\ packer'.ones = p.ones
      /\ line' \in Seq(Bit) /\ (\E k \in Nat : Len(line') = 8 * k)
  BY WireAfterPut
<1>2. Fine(unpacker') /\ Len(unpacker'.raw) <= 7
  BY DEF Types
<1>3. gotFrames' \in Seq(Sent)
  BY DEF Types
<1> QED BY <1>1, <1>2, <1>3 DEF Types

(* A packer to which more of the frame can be given: what was packed of it  *)
(* is what the unpacker reads, after flags.                                 *)
Packs(p) ==
  /\ p \in Packing /\ gotFrames = sentFrames /\ p.ones = Stuffed(BitsOf(frame)).ones
  /\ \E s, r \in Seq(Bit), j \in Nat :
        /\ StuffedAs(BitsOf(frame), s, r) /\ Place(s, j)
        /\ Same(unpacker.raw, p.bits, Run(j), r)

(* After its first flags a packer can be given a frame,                     *)
LEMMA PacksStart ==
  ASSUME Idle
  PROVE  Packs(Flags(packer))
<1> DEFINE e == <<>>
           c == Run(StartFlags)
           p == [bits |-> c, ones |-> 0]
<1>1. packer = Fresh(0) /\ sentFrames = <<>> /\ gotFrames = <<>> /\ frame = <<>>
      /\ unpacker = HdlcStart("stSync", e)
  BY DEF Idle
<1>2. StartFlags \in Nat /\ StartFlags > 0
  BY HdlcAssumption
<1>3. c \in Seq(Bit) /\ PackFlags(Fresh(0), StartFlags) = p
  BY <1>2, RunIs
<1>4. Flags(packer) = p
  BY <1>1, <1>3 DEF Flags
<1>5. BitsOf(frame) = e
  BY <1>1, BitsOfNone
<1>6. e \in Seq(Bit) /\ Stuffed(e).ones = 0 /\ StuffedAs(e, e, e)
  BY NoneIs
<1>7. e \o c = c \o e
  BY <1>3, ConcatEmptySeq
<1>8. e = <<>>
  OBVIOUS
<1> HIDE DEF e, c
<1>9. p \in Packing /\ p.bits = c /\ p.ones = 0
  <2>1. 0 \in 0..4
    OBVIOUS
  <2> QED BY <1>3, <2>1, PackingIs
<1> HIDE DEF p
<1>10. "stSync" \in States
  BY DEF States
<1>11. unpacker.raw = e /\ After(unpacker, e) /\ unpacker.state = "stSync"
  BY <1>1, <1>6, <1>8, <1>10, StartIs
<1>12. Place(e, StartFlags)
  BY <1>2, <1>8, <1>11 DEF Place
<1>13. Same(unpacker.raw, p.bits, Run(StartFlags), e)
  BY <1>7, <1>9, <1>11 DEF Same, c
<1>14. Packs(p)
  BY <1>1, <1>2, <1>5, <1>6, <1>9, <1>12, <1>13 DEF Packs
<1> QED BY <1>4, <1>14, Zenon

(* and when the line is empty, the frame that was begun or the next one.    *)
LEMMA PacksMore ==
  ASSUME Types, line = <<>>, Passing
  PROVE  Packs(packer) /\ (frame = <<>> => sentFrames # <<>>)
<1>1. PICK d, s, r \in Seq(Bit), y \in Ends, j \in Nat :
        Reading(d, s, r, y, j) /\ (OfFrame(d, y) \/ OfSent(d, y))
  BY DEF Passing
<1>2. OfFrame(d, y)
  BY <1>1, NotOfSent
<1>3. /\ y = <<>> /\ d = BitsOf(frame) /\ gotFrames = sentFrames
      /\ packer.ones = Stuffed(d).ones /\ (frame = <<>> => sentFrames # <<>>)
  BY <1>2 DEF OfFrame
<1>4. packer \in Packing /\ packer.bits \in Seq(Bit)
  BY PackingIs DEF Types
<1>5. Same(unpacker.raw, packer.bits, Run(j), r)
  <2>1. <<>> \o packer.bits = packer.bits
    BY <1>4, ConcatEmptySeq
  <2>2. r \o <<>> = r
    BY ConcatEmptySeq
  <2>3. Wire = unpacker.raw \o packer.bits
    BY <2>1 DEF Wire
  <2>4. Wire = Run(j) \o r
    BY <1>1, <1>3, <2>2 DEF Reading, Coming
  <2> QED BY <2>3, <2>4 DEF Same
<1>6. StuffedAs(d, s, r) /\ Place(s, j)
  BY <1>1 DEF Reading
<1>7. Packs(packer)
  BY <1>3, <1>4, <1>5, <1>6 DEF Packs
<1> QED BY <1>3, <1>7

(* So PackByte and PackEnd find a packer to which bytes can be given.       *)
LEMMA PacksNow ==
  ASSUME FramesInv, line = <<>>
  PROVE  Packs(IF frame = <<>> THEN Flags(packer) ELSE packer)
<1>1. Types /\ (Idle \/ Passing)
  BY DEF FramesInv
<1>2. CASE Idle
  <2>1. frame = <<>>
    BY <1>2 DEF Idle
  <2> QED BY <1>2, <2>1, PacksStart
<1>3. CASE Passing
  <2>1. Packs(packer) /\ (frame = <<>> => sentFrames # <<>>)
    BY <1>1, <1>3, PacksMore
  <2>2. sentFrames # <<>> => Flags(packer) = packer
    BY DEF Flags
  <2> QED BY <2>1, <2>2
<1> QED BY <1>1, <1>2, <1>3

-----------------------------------------------------------------------------
(* What was packed is of the frame, or of the frame that was sent.          *)
LEMMA FramesPut ==
  ASSUME Types, line = <<>>, NEW q \in Packing, PutRaw(q), unpacker' = unpacker,
         frame' \in Seq(0..255), sentFrames' \in Seq(Sent), gotFrames' = gotFrames,
         NEW e \in Seq(Bit), NEW s \in Seq(Bit), NEW x \in Seq(Bit), NEW y \in Ends, NEW j \in Nat,
         StuffedAs(e, s, x), Same(unpacker.raw, q.bits, Run(j), x \o y), Place(s, j),
         packer'.ones = q.ones => OfFrame(e, y)' \/ OfSent(e, y)'
  PROVE  FramesInv'
<1>1. Reading(e, s, x, y, j)'
  BY ReadingPut
<1>2. Types' /\ packer'.ones = q.ones
  BY TypesPut
<1>3. Passing'
  BY <1>1, <1>2 DEF Passing
<1> QED BY <1>2, <1>3 DEF FramesInv

(* More of the frame is in the packer.                                      *)
LEMMA PacksAfter ==
  ASSUME Types, NEW p, Packs(p), NEW t \in Seq(Bit)
  PROVE  /\ Pack(p, t) \in Packing /\ gotFrames = sentFrames
         /\ \E d, s, x \in Seq(Bit), j \in Nat :
              /\ d = BitsOf(frame) \o t /\ StuffedAs(d, s, x) /\ Place(s, j)
              /\ Same(unpacker.raw, Pack(p, t).bits, Run(j), x)
              /\ Pack(p, t).ones = Stuffed(d).ones
<1> DEFINE d == BitsOf(frame)
           e == d \o t
           u == unpacker.raw
<1>1. d \in Seq(Bit) /\ e \in Seq(Bit)
  <2>1. d \in Seq(Bit)
    BY BitsOfIs DEF Types
  <2> QED BY <2>1, CatSame, Zenon
<1>2. PICK s, r \in Seq(Bit), j \in Nat :
        /\ p \in Packing /\ gotFrames = sentFrames /\ p.ones = Stuffed(d).ones
        /\ StuffedAs(d, s, r) /\ Place(s, j) /\ Same(u, p.bits, Run(j), r)
  BY DEF Packs
<1>3. Pack(p, t) \in Packing
  BY <1>2, PackIs
<1>4. u \in Seq(Bit) /\ Run(j) \in Seq(Bit)
  BY DataIs, RunIs DEF Types
<1> HIDE DEF d, u
<1>5. PICK x \in Seq(Bit) : /\ StuffedAs(d \o t, s, x) /\ Same(u, Pack(p, t).bits, Run(j), x)
                            /\ Pack(p, t).ones = Stuffed(d \o t).ones
  <2> DEFINE g == Run(j)
  <2>1. /\ g \in Seq(Bit) /\ Same(u, p.bits, g, r) /\ p \in Packing /\ u \in Seq(Bit)
        /\ d \in Seq(Bit) /\ StuffedAs(d, s, r) /\ p.ones = Stuffed(d).ones
    BY <1>1, <1>2, <1>4
  <2> HIDE DEF g, e
  <2>2. MorePacked(p, t, u, g, d, s)
    BY <2>1, PackMore
  <2> QED BY <2>2 DEF g, MorePacked
<1>6. /\ StuffedAs(e, s, x) /\ Same(u, Pack(p, t).bits, Run(j), x)
      /\ Pack(p, t).ones = Stuffed(e).ones
  BY <1>5
<1>7. e = BitsOf(frame) \o t
  BY DEF d
<1> HIDE DEF e
<1> QED BY <1>1, <1>2, <1>3, <1>6, <1>7 DEF u

(* A byte of a frame.                                                       *)
LEMMA FramesPackByte ==
  ASSUME FramesInv, NEW v \in FrameByte, PackByte(v)
  PROVE  FramesInv'
<1> DEFINE p == IF frame = <<>> THEN Flags(packer) ELSE packer
           t == Bits(v)
           q == Pack(p, t)
<1>1. /\ line = <<>> /\ PutRaw(q) /\ frame' = Append(frame, v)
      /\ unpacker' = unpacker /\ sentFrames' = sentFrames /\ gotFrames' = gotFrames
  BY DEF PackByte
<1>2. Packs(p)
  BY <1>1, PacksNow
<1>3. v \in 0..255 /\ Types
  BY HdlcAssumption DEF FramesInv
<1>4. frame \in Seq(0..255) /\ sentFrames \in Seq(Sent)
  BY <1>3 DEF Types
<1>5. frame' \in Seq(0..255) /\ frame' # <<>> /\ sentFrames' \in Seq(Sent)
  BY <1>1, <1>3, <1>4, AppendProperties
<1>6. t \in Seq(Bit)
  BY <1>3, BitsAre
<1>7. BitsOf(frame') = BitsOf(frame) \o t
  BY <1>1, <1>3, <1>4, BitsOfAppend
<1> HIDE DEF p, t
<1>8. PICK d, s, x \in Seq(Bit), j \in Nat :
        /\ q \in Packing /\ gotFrames = sentFrames
        /\ d = BitsOf(frame) \o t /\ StuffedAs(d, s, x) /\ Place(s, j)
        /\ Same(unpacker.raw, q.bits, Run(j), x) /\ q.ones = Stuffed(d).ones
  BY <1>2, <1>3, <1>6, PacksAfter
<1> HIDE DEF q
<1>9. PICK y \in Ends : y = <<>> /\ x \o y = x
  BY ConcatEmptySeq DEF Ends
<1>10. packer'.ones = q.ones => OfFrame(d, y)'
  <2>1. d = BitsOf(frame')
    BY <1>7, <1>8, Zenon
  <2>2. gotFrames' = sentFrames'
    BY <1>1, <1>8
  <2> QED BY <1>5, <1>8, <1>9, <2>1, <2>2 DEF OfFrame
<1>11. Same(unpacker.raw, q.bits, Run(j), x \o y)
  BY <1>8, <1>9
<1> QED BY <1>1, <1>3, <1>5, <1>8, <1>10, <1>11, FramesPut

(* Two flags.                                                               *)
LEMMA TwoFlags ==
  ASSUME NEW q \in Packing
  PROVE  /\ PackFlag(PackFlag(q)) \in Packing /\ PackFlag(PackFlag(q)).ones = 0
         /\ PackFlag(PackFlag(q)).bits = q.bits \o (Flag \o Flag)
         /\ q.bits \in Seq(Bit) /\ Flag \o Flag \in Seq(Bit) /\ Flag \o Flag \in Ends
<1> DEFINE a == q.bits
           b == a \o Flag
           c == b \o Flag
<1>1. a \in Seq(Bit) /\ Flag \in Seq(Bit) /\ 0 \in 0..4
  BY PackingIs, FlagIs
<1>2. PackFlag(q) = [bits |-> b, ones |-> 0]
  BY DEF PackFlag
<1>3. c = a \o (Flag \o Flag) /\ Flag \o Flag \in Seq(Bit) /\ b \in Seq(Bit) /\ c \in Seq(Bit)
  <2> HIDE DEF a
  <2>1. Same(a \o Flag, Flag, a, Flag \o Flag) /\ Flag \o Flag \in Seq(Bit)
    BY <1>1, CatSame, Zenon
  <2>2. b \in Seq(Bit)
    BY <1>1, CatSame, Zenon
  <2> HIDE DEF b
  <2>3. c \in Seq(Bit)
    BY <1>1, <2>2, CatSame, Zenon
  <2> QED BY <2>1, <2>2, <2>3, Zenon DEF Same, b
<1> HIDE DEF a, b
<1>4. PackFlag(PackFlag(q)) = [bits |-> c, ones |-> 0]
  <2>1. PackFlag(q).bits = b
    BY <1>2
  <2> QED BY <2>1 DEF PackFlag
<1> HIDE DEF c
<1>5. /\ [bits |-> c, ones |-> 0] \in Packing /\ [bits |-> c, ones |-> 0].bits = c
      /\ [bits |-> c, ones |-> 0].ones = 0
  BY <1>1, <1>3, PackingIs
<1> QED BY <1>1, <1>3, <1>4, <1>5, Zenon DEF Ends, a

(* The end of a frame.                                                      *)
LEMMA FramesPackEnd ==
  ASSUME FramesInv, NEW diagError \in BOOLEAN, PackEnd(diagError)
  PROVE  FramesInv'
<1> DEFINE t == FcsSent(frame, diagError)
           q == Pack(packer, t)
           z == PackFlag(PackFlag(q))
           f == [bytes |-> frame, ok |-> ~diagError]
           y == Flag \o Flag
<1>1. /\ line = <<>> /\ frame # <<>> /\ PutRaw(z) /\ frame' = <<>>
      /\ unpacker' = unpacker /\ sentFrames' = Append(sentFrames, f) /\ gotFrames' = gotFrames
  BY DEF PackEnd
<1>2. Packs(packer)
  <2>1. Packs(IF frame = <<>> THEN Flags(packer) ELSE packer)
    BY <1>1, PacksNow
  <2> QED BY <1>1, <2>1
<1>3. Types
  BY DEF FramesInv
<1>4. frame \in Seq(0..255) /\ sentFrames \in Seq(Sent)
  BY <1>3 DEF Types
<1>5. f \in Sent /\ f.bytes = frame /\ (~f.ok) = diagError
  BY <1>4 DEF Sent
<1> HIDE DEF f
<1>6. frame' \in Seq(0..255) /\ sentFrames' \in Seq(Sent)
  BY <1>1, <1>4, <1>5, AppendProperties, NoneIs
<1>7. t \in Seq(Bit)
  BY <1>4, FcsSentIs
<1>8. t = FcsSent(f.bytes, ~f.ok)
  BY <1>5
<1> HIDE DEF t
<1>9. PICK d, s, x \in Seq(Bit), j \in Nat :
        /\ q \in Packing /\ gotFrames = sentFrames
        /\ d = BitsOf(frame) \o t /\ StuffedAs(d, s, x) /\ Place(s, j)
        /\ Same(unpacker.raw, q.bits, Run(j), x) /\ q.ones = Stuffed(d).ones
  BY <1>2, <1>3, <1>7, PacksAfter
<1> HIDE DEF q
<1>10. /\ z \in Packing /\ z.ones = 0 /\ z.bits = q.bits \o y
       /\ q.bits \in Seq(Bit) /\ y \in Seq(Bit) /\ y \in Ends
  BY <1>9, TwoFlags
<1> HIDE DEF z
<1>11. packer'.ones = z.ones => OfSent(d, Flag \o Flag)'
  <2>1. d = BitsOf(f.bytes) \o FcsSent(f.bytes, ~f.ok)
    BY <1>5, <1>8, <1>9
  <2>2. sentFrames' = Append(gotFrames', f) /\ f.bytes # <<>>
    BY <1>1, <1>5, <1>9
  <2> QED BY <1>1, <1>5, <1>10, <2>1, <2>2 DEF OfSent
<1>12. Same(unpacker.raw, z.bits, Run(j), x \o y)
  <2> DEFINE u == unpacker.raw
             g == Run(j)
             b == q.bits
  <2>1. /\ u \in Seq(Bit) /\ g \in Seq(Bit) /\ b \in Seq(Bit) /\ y \in Seq(Bit)
        /\ Same(u, b, g, x)
    BY <1>3, <1>9, <1>10, DataIs, RunIs DEF Types
  <2>2. z.bits = b \o y
    BY <1>10
  <2> HIDE DEF u, g, b, y
  <2>3. Same(u, b \o y, g, x \o y)
    BY <2>1, SameMore, Zenon
  <2> QED BY <2>2, <2>3 DEF u, g
<1>13. PICK w \in Ends : w = Flag \o Flag
  BY <1>10
<1>14. packer'.ones = z.ones => OfSent(d, w)'
  BY <1>11, <1>13
<1>15. Same(unpacker.raw, z.bits, Run(j), x \o w)
  BY <1>12, <1>13
<1> QED BY <1>1, <1>3, <1>6, <1>9, <1>10, <1>14, <1>15, FramesPut

-----------------------------------------------------------------------------
(* A raw byte is taken: what is looked at, and what comes after it.         *)
Taken == unpacker.raw \o SubSeq(line, 1, 8)

(* A whole byte is taken of the line, and the wire stays what it is.        *)
LEMMA TakenIs ==
  ASSUME Types, GetHdlcData
  PROVE  /\ line' \in Seq(Bit) /\ (\E k \in Nat : Len(line') = 8 * k)
         /\ Taken \in Seq(Bit) /\ Len(Taken) \in 8..15 /\ Len(Taken) = Len(unpacker.raw) + 8
         /\ line' \o packer.bits \in Seq(Bit)
         /\ Wire = Taken \o (line' \o packer.bits)
<1> DEFINE u == unpacker.raw
           b == packer.bits
           a == SubSeq(line, 1, 8)
           c == SubSeq(line, 9, Len(line))
<1>1. line' = c /\ line # <<>>
  BY DEF GetHdlcData
<1>2. u \in Seq(Bit) /\ b \in Seq(Bit) /\ Len(u) <= 7
  <2>1. Fine(unpacker) /\ packer \in Packing /\ Len(u) <= 7
    BY DEF Types
  <2> QED BY <2>1, DataIs, PackingIs
<1>3. PICK k \in Nat : line \in Seq(Bit) /\ Len(line) = 8 * k
  BY DEF Types
<1>4. Len(line) # 0 /\ k # 0 /\ k - 1 \in Nat /\ 8 <= Len(line)
  <2>1. Len(line) # 0
    BY <1>1, <1>3, EmptySeq
  <2> QED BY <1>3, <2>1
<1>5. /\ a \in Seq(Bit) /\ Len(a) = 8 /\ c \in Seq(Bit) /\ Len(c) = 8 * (k - 1)
      /\ line = a \o c
  <2>1. /\ SubSeq(line, 1, 8) \in Seq(Bit) /\ Len(SubSeq(line, 1, 8)) = 8
        /\ SubSeq(line, 8 + 1, Len(line)) \in Seq(Bit)
        /\ Len(SubSeq(line, 8 + 1, Len(line))) = Len(line) - 8
        /\ line = SubSeq(line, 1, 8) \o SubSeq(line, 8 + 1, Len(line))
    BY <1>3, <1>4, Split
  <2>2. 8 + 1 = 9 /\ Len(line) - 8 = 8 * (k - 1)
    BY <1>3, <1>4
  <2> QED BY <2>1, <2>2
<1>6. Taken = u \o a
  BY DEF Taken
<1>7. Wire = u \o ((a \o c) \o b)
  BY <1>5 DEF Wire
<1> HIDE DEF u, a, b, c
<1>8. u \o a \in Seq(Bit) /\ Len(u \o a) = Len(u) + Len(a) /\ Len(u) \in Nat
  BY <1>2, <1>5, CatIs
<1>9. u \o ((a \o c) \o b) = (u \o a) \o (c \o b) /\ c \o b \in Seq(Bit)
  <2>1. Same(a \o c, b, a, c \o b) /\ c \o b \in Seq(Bit)
    BY <1>2, <1>5, CatSame, Zenon
  <2>2. Same(u \o a, c \o b, u, a \o (c \o b))
    BY <1>2, <1>5, <2>1, CatSame, Zenon
  <2> QED BY <2>1, <2>2, Zenon DEF Same
<1>10. Len(Taken) \in 8..15 /\ Len(Taken) = Len(u) + 8
  BY <1>2, <1>5, <1>6, <1>8
<1> QED BY <1>1, <1>4, <1>5, <1>6, <1>7, <1>8, <1>9, <1>10, Zenon DEF u, b

(* The raw bits and the state are not what was unpacked.                    *)
Changed(v, u, a, b) == v = [u EXCEPT !.raw = a, !.state = b]

(* With other raw bits and another state an unpacker has the same data,     *)
LEMMA ChangedIs ==
  ASSUME NEW u, Fine(u), NEW a \in Seq(Bit), NEW b \in States, NEW v, Changed(v, u, a, b)
  PROVE  /\ Fine(v) /\ Alike(v, u) /\ v.raw = a /\ v.state = b
         /\ Data(v) = Data(u)
<1>1. u \in Unpacking /\ Len(u.chunk) <= 23 /\ (u.out # <<>> => 16 <= Len(u.chunk))
  BY DEF Fine
<1>2. v \in [raw : {a}, ones : {u.ones}, chunk : {u.chunk}, out : {u.out}, state : {b}]
  BY <1>1 DEF Unpacking, Changed
<1>3. v.raw = a /\ v.ones = u.ones /\ v.chunk = u.chunk /\ v.out = u.out /\ v.state = b
  BY <1>2
<1>4. u.ones \in Nat /\ u.chunk \in Seq(Bit) /\ u.out \in Seq(0..255)
  BY <1>1 DEF Unpacking
<1>5. v \in Unpacking
  BY <1>2, <1>4 DEF Unpacking
<1> QED BY <1>1, <1>3, <1>5 DEF Fine, Alike, Data

(* and is after the same bits.                                              *)
LEMMA ChangedAfter ==
  ASSUME NEW u, NEW s \in Seq(Bit), After(u, s), NEW a \in Seq(Bit), NEW b \in States, NEW v,
         Changed(v, u, a, b)
  PROVE  After(v, s) /\ v.raw = a /\ v.state = b /\ Data(v) = Data(u)
<1>1. Fine(u) /\ Alike(u, Parsed(s))
  BY DEF After
<1>2. Fine(v) /\ Alike(v, u) /\ v.raw = a /\ v.state = b /\ Data(v) = Data(u)
  BY <1>1, ChangedIs
<1>3. Alike(v, Parsed(s))
  BY <1>1, <1>2 DEF Alike
<1> QED BY <1>2, <1>3 DEF After

(* After all of a frame, the bits of the frame.                             *)
LEMMA AfterAll ==
  ASSUME NEW u, NEW d \in Seq(Bit), NEW s \in Seq(Bit), NEW r \in Seq(Bit), StuffedAs(d, s, r),
         After(u, s \o r)
  PROVE  Fine(u) /\ Data(u) = d
<1>1. Data(Parsed(s \o r)) = d
  BY RestoredAll DEF StuffedAs, Restored
<1> QED BY <1>1 DEF After, Alike, Data

(* The flag after a frame is found when it is there.                        *)
LEMMA FlagAtEnd ==
  ASSUME NEW r \in Seq(Bit), NEW w \in Seq(Bit), NEW z \in Seq(Bit),
         Same(r, Flag \o Flag, w, z), Len(r) + 8 <= Len(w)
  PROVE  /\ Len(r) \in FlagAt(w) /\ SubSeq(w, 1, Len(r)) = r
         /\ \E v \in Seq(Bit) : /\ SubSeq(w, Len(r) + 9, Len(w)) = v /\ Flag = v \o z
                                /\ Len(v) = Len(w) - 8 - Len(r)
<1> DEFINE y == Flag \o Flag
           n == Len(r)
<1>1. Flag \in Seq(Bit) /\ Len(Flag) = 8 /\ y \in Seq(Bit) /\ n \in Nat
  BY FlagIs, CatSame, CatIs
<1>2. Same(r, y, w, z) /\ Len(r) <= Len(w)
  <2>1. Len(w) \in Nat
    BY CatIs
  <2> QED BY <1>1, <2>1
<1> HIDE DEF y
<1>3. PICK q \in Seq(Bit) : w = r \o q /\ y = q \o z
  <2>1. Overlap(r, y, w, z)
    BY <1>1, <1>2, Prefix
  <2> QED BY <2>1 DEF Overlap
<1>4. Len(w) = n + Len(q) /\ Len(q) \in Nat /\ 8 <= Len(q)
  <2>1. Len(r \o q) = Len(r) + Len(q) /\ Len(q) \in Nat
    BY <1>3, CatIs
  <2> QED BY <1>1, <1>3, <2>1
<1>5. PICK v \in Seq(Bit) : q = Flag \o v /\ Flag = v \o z
  <2>1. Same(Flag, Flag, q, z)
    BY <1>3 DEF y, Same
  <2>2. Overlap(Flag, Flag, q, z)
    BY <1>1, <1>4, <2>1, Prefix
  <2> QED BY <2>2 DEF Overlap
<1>6. Len(q) = 8 + Len(v) /\ Len(v) \in Nat
  <2>1. Len(Flag \o v) = Len(Flag) + Len(v) /\ Len(v) \in Nat
    BY <1>1, CatIs
  <2> QED BY <1>1, <1>5, <2>1
<1>7. SubSeq(w, 1, n) = r
  BY <1>3, RestOf
<1>8. SubSeq(w, n + 9, Len(w)) = v
  <2> DEFINE c == r \o Flag
  <2>1. c \in Seq(Bit) /\ Len(c) = n + 8
    <3>1. r \o Flag \in Seq(Bit) /\ Len(r \o Flag) = Len(r) + Len(Flag)
      BY <1>1, CatIs
    <3> QED BY <1>1, <3>1
  <2>2. w = c \o v
    <3>1. Same(r \o Flag, v, r, Flag \o v)
      BY <1>1, CatSame, Zenon
    <3> QED BY <1>3, <1>5, <3>1, Zenon DEF Same
  <2> HIDE DEF c
  <2>3. SubSeq(c \o v, Len(c) + 1, Len(c \o v)) = v
    BY <2>1, RestOf
  <2>4. Len(c) + 1 = n + 9
    BY <1>1, <2>1
  <2> QED BY <2>2, <2>3, <2>4
<1>9. n \in FlagAt(w)
  <2>1. ASSUME NEW k \in 1..8 PROVE w[n + k] = Flag[k]
    <3>1. /\ n + k \in 1..(Len(r) + Len(q)) /\ ~(n + k <= Len(r)) /\ (n + k) - Len(r) = k
          /\ k \in 1..(Len(Flag) + Len(v)) /\ k <= Len(Flag)
      BY <1>1, <1>4, <1>6
    <3>2. (r \o q)[n + k] = IF n + k <= Len(r) THEN r[n + k] ELSE q[(n + k) - Len(r)]
      BY <3>1, CatIs, Zenon
    <3>3. (Flag \o v)[k] = IF k <= Len(Flag) THEN Flag[k] ELSE v[k - Len(Flag)]
      BY <1>1, <3>1, CatIs, Zenon
    <3>4. (r \o q)[n + k] = q[k]
      BY <3>1, <3>2
    <3>5. (Flag \o v)[k] = Flag[k]
      BY <3>1, <3>3
    <3> QED BY <1>3, <1>5, <3>4, <3>5, Zenon
  <2>2. n + 8 <= Len(w)
    BY <1>1
  <2> QED BY <1>1, <2>1, <2>2, FlagAtIs
<1>10. Len(v) = Len(w) - 8 - n
  BY <1>1, <1>4, <1>6
<1> QED BY <1>5, <1>7, <1>8, <1>9, <1>10

(* The frame that was sent.                                                 *)
LEMMA FrameIs ==
  ASSUME NEW f \in Sent, f.bytes # <<>>, NEW v, Fine(v),
         Data(v) = BitsOf(f.bytes) \o FcsSent(f.bytes, ~f.ok)
  PROVE  v.out # <<>> /\ [bytes |-> v.out, ok |-> isFcsOK(v)] = f
<1> DEFINE a == BitsOf(f.bytes)
           b == FcsSent(f.bytes, ~f.ok)
           m == Len(f.bytes)
           x == BitsOf(v.out)
           c == v.chunk
           n == Len(v.out)
<1>1. /\ f.bytes \in Seq(0..255) /\ f.ok \in BOOLEAN /\ f = [bytes |-> f.bytes, ok |-> f.ok]
  BY DEF Sent
<1>2. a \in Seq(Bit) /\ Len(a) = 8 * m /\ m \in Nat /\ m # 0
  BY <1>1, BitsOfIs, LenProperties, EmptySeq
<1>3. b \in Seq(Bit) /\ Len(b) = 16 /\ (b = Fcs(f.bytes)) = f.ok
  <2>1. (~f.ok) \in BOOLEAN
    <3>1. CASE f.ok = TRUE
      BY <3>1
    <3>2. CASE f.ok = FALSE
      BY <3>2
    <3> QED BY <1>1, <3>1, <3>2
  <2>2. b \in Seq(Bit) /\ Len(b) = 16 /\ (b = Fcs(f.bytes)) = ~~f.ok
    BY <1>1, <2>1, FcsSentIs
  <2> QED BY <1>1, <2>2
<1>4. /\ x \in Seq(Bit) /\ Len(x) = 8 * n /\ n \in Nat /\ c \in Seq(Bit) /\ Len(c) \in Nat
      /\ v.out \in Seq(0..255) /\ Len(c) <= 23 /\ (v.out # <<>> => 16 <= Len(c))
      /\ Len(Data(v)) = 8 * n + Len(c)
  BY DataIs DEF Fine
<1>5. Same(x, c, a, b)
  BY DEF Same, Data
<1>6. v.out = <<>> => n = 0
  BY EmptySeq
<1>7. Len(Data(v)) = 8 * m + 16
  <2>1. Data(v) = a \o b
    OBVIOUS
  <2> HIDE DEF a, b
  <2>2. Len(a \o b) = Len(a) + Len(b)
    BY <1>2, <1>3, CatIs
  <2> QED BY <1>2, <1>3, <2>1, <2>2
<1> HIDE DEF a, b, c, x, m, n
<1>8. n = m /\ Len(x) = Len(a) /\ v.out # <<>>
  BY <1>2, <1>4, <1>6, <1>7
<1>9. x = a /\ c = b
  BY <1>2, <1>3, <1>4, <1>5, <1>8, SameParts
<1>10. v.out = f.bytes
  <2>1. Len(v.out) <= Len(f.bytes)
    BY <1>2, <1>8 DEF m, n
  <2>2. \A i \in 1..(8 * Len(v.out)) : BitsOf(v.out)[i] = BitsOf(f.bytes)[i]
    BY <1>9 DEF x, a
  <2>3. v.out = SubSeq(f.bytes, 1, Len(v.out))
    BY <1>1, <1>4, <2>1, <2>2, BitsOfPrefix
  <2>4. SubSeq(f.bytes, 1, Len(f.bytes)) = f.bytes
    BY <1>1, SMT
  <2> QED BY <1>8, <2>3, <2>4 DEF m, n
<1>11. isFcsOK(v) = f.ok
  <2>1. v.chunk = b /\ isFcsOK(v) = (v.chunk = Fcs(v.out))
    BY <1>9 DEF isFcsOK, c
  <2> QED BY <1>3, <1>10, <2>1
<1> QED BY <1>1, <1>8, <1>10, <1>11

-----------------------------------------------------------------------------
(* A raw byte is read: what remains to be shown.                            *)
LEMMA GetDone ==
  ASSUME Types, GetHdlcData, Fine(unpacker'), Len(unpacker'.raw) <= 7, gotFrames' \in Seq(Sent),
         NEW d \in Seq(Bit), NEW s \in Seq(Bit), NEW r \in Seq(Bit), NEW y \in Ends, NEW j \in Nat,
         Reading(d, s, r, y, j)', OfFrame(d, y)' \/ OfSent(d, y)'
  PROVE  FramesInv'
<1>1. packer' = packer /\ frame' = frame /\ sentFrames' = sentFrames
  BY DEF GetHdlcData
<1>2. line' \in Seq(Bit) /\ (\E k \in Nat : Len(line') = 8 * k)
  BY TakenIs
<1>3. Types'
  BY <1>1, <1>2 DEF Types
<1>4. Passing'
  BY DEF Passing
<1> QED BY <1>3, <1>4 DEF FramesInv

(* The steps of GetHdlcData: to a flag, past a flag, and through a frame.   *)
Unpacked == Unpack(unpacker, Taken)
Got == IF Unpacked.out = <<>> THEN gotFrames
       ELSE Append(gotFrames, [bytes |-> Unpacked.out, ok |-> isFcsOK(Unpacked)])

(* The cases of GetHdlcData.                                                *)
LEMMA GetSteps ==
  ASSUME GetHdlcData
  PROVE  \/ /\ unpacker.state = "stSync" /\ gotFrames' = gotFrames
            /\ unpacker' = [unpacker EXCEPT !.raw = Rest(Taken),
                              !.state = IF FlagAt(Taken) = {} THEN @ ELSE "stSkipFlags"]
         \/ /\ unpacker.state = "stSkipFlags" /\ 0 \in FlagAt(Taken) /\ gotFrames' = gotFrames
            /\ unpacker' = [unpacker EXCEPT !.raw = Rest(Taken)]
         \/ /\ \/ unpacker.state = "stData"
               \/ unpacker.state = "stSkipFlags" /\ 0 \notin FlagAt(Taken)
            /\ \/ /\ FlagAt(Taken) = {} /\ gotFrames' = gotFrames
                  /\ unpacker' = [Unpacked EXCEPT !.state = "stData"]
               \/ /\ FlagAt(Taken) # {} /\ unpacker' = HdlcStart("stSkipFlags", Unpacked.raw)
                  /\ gotFrames' = Got
BY DEF GetHdlcData, Unpacked, Taken, Got

(* A flag is taken.                                                         *)
LEMMA GetFlag ==
  ASSUME Types, GetHdlcData, NEW d \in Seq(Bit), NEW s \in Seq(Bit), NEW r \in Seq(Bit),
         NEW y \in Ends, NEW j \in Nat, Reading(d, s, r, y, j), j > 0,
         OfFrame(d, y) \/ OfSent(d, y)
  PROVE  FramesInv'
<1> DEFINE w == Taken
           z == line' \o packer.bits
           x == Run(j - 1) \o (r \o y)
<1>1. /\ w \in Seq(Bit) /\ Len(w) \in 8..15 /\ Len(w) = Len(unpacker.raw) + 8
      /\ z \in Seq(Bit) /\ Wire = w \o z
  BY TakenIs
<1>2. /\ packer' = packer /\ frame' = frame /\ sentFrames' = sentFrames
  BY DEF GetHdlcData
<1>3. Len(unpacker.raw) <= 7 /\ Fine(unpacker) /\ gotFrames \in Seq(Sent)
  BY DEF Types
<1>4. j - 1 \in Nat /\ (j - 1) + 1 = j
  OBVIOUS
<1>5. x \in Seq(Bit) /\ Same(Flag, x, w, z)
  <2> DEFINE c == Run(j - 1)
             e == r \o y
  <2>1. c \in Seq(Bit) /\ Run((j - 1) + 1) = Flag \o c
    BY <1>4, RunIs
  <2>2. e \in Seq(Bit)
    <3>1. y \in Seq(Bit)
      BY EndsAre
    <3> QED BY <3>1, CatSame, Zenon
  <2>3. Wire = (Flag \o c) \o e
    BY <1>4, <2>1 DEF Reading, Coming
  <2>4. Flag \in Seq(Bit)
    BY FlagIs
  <2> HIDE DEF c, e, w, z
  <2>5. Same(Flag \o c, e, Flag, c \o e) /\ c \o e \in Seq(Bit)
    BY <2>1, <2>2, <2>4, CatSame, Zenon
  <2>6. Flag \o (c \o e) = w \o z
    BY <1>1, <2>3, <2>5, Zenon DEF Same
  <2> QED BY <2>5, <2>6, Zenon DEF Same, c, e
<1>6. After(unpacker, s) /\ StuffedAs(d, s, r) /\ unpacker.state # "stData"
      /\ s = <<>>
  <2>1. unpacker.state \in States
    BY <1>3, DataIs
  <2> QED BY <2>1 DEF Reading, Place, States
<1> HIDE DEF w, z, x
<1>7. /\ 0 \in FlagAt(w) /\ First(w) = 0
      /\ Rest(w) \in Seq(Bit) /\ Len(Rest(w)) = Len(w) - 8 /\ x = Rest(w) \o z
  <2>1. 8 <= Len(w)
    BY <1>1
  <2> QED BY <1>1, <1>5, <2>1, TakeFlag
<1>8. /\ gotFrames' = gotFrames
      /\ \/ unpacker' = [unpacker EXCEPT !.raw = Rest(w), !.state = "stSkipFlags"]
         \/ unpacker.state = "stSkipFlags" /\ unpacker' = [unpacker EXCEPT !.raw = Rest(w)]
  BY <1>6, <1>7, GetSteps DEF w
<1>9. Changed(unpacker', unpacker, Rest(w), "stSkipFlags")
  <2>1. CASE unpacker' = [unpacker EXCEPT !.raw = Rest(w), !.state = "stSkipFlags"]
    BY <2>1 DEF Changed
  <2>2. CASE unpacker.state = "stSkipFlags" /\ unpacker' = [unpacker EXCEPT !.raw = Rest(w)]
    <3> DEFINE a == Rest(w)
    <3>1. unpacker \in Unpacking
      BY <1>3 DEF Fine
    <3> HIDE DEF a
    <3>2. [unpacker EXCEPT !.raw = a] = [unpacker EXCEPT !.raw = a, !.state = "stSkipFlags"]
      BY <2>2, <3>1 DEF Unpacking
    <3> QED BY <2>2, <3>2, Zenon DEF Changed, a
  <2> QED BY <1>8, <2>1, <2>2
<1>10. /\ After(unpacker', s) /\ unpacker'.raw = Rest(w) /\ unpacker'.state = "stSkipFlags"
  <2> DEFINE b == "stSkipFlags"
  <2>1. b \in States
    BY DEF States
  <2>2. Changed(unpacker', unpacker, Rest(w), b)
    BY <1>9
  <2>3. After(unpacker, s) /\ Rest(w) \in Seq(Bit)
    BY <1>6, <1>7
  <2> HIDE DEF b
  <2>4. After(unpacker', s) /\ unpacker'.raw = Rest(w) /\ unpacker'.state = b
    BY <2>1, <2>2, <2>3, ChangedAfter
  <2> QED BY <2>4 DEF b
<1>11. Reading(d, s, r, y, j - 1)'
  <2>1. Wire' = x
    BY <1>2, <1>7, <1>10 DEF Wire, z
  <2>2. Coming(r, y, j - 1)'
    BY <2>1 DEF Coming, x
  <2>3. Place(s, j - 1)'
    BY <1>6, <1>10 DEF Place
  <2> QED BY <1>6, <2>2, <2>3 DEF Reading
<1>12. OfFrame(d, y)' \/ OfSent(d, y)'
  <2>1. OfFrame(d, y) => OfFrame(d, y)'
    BY <1>2, <1>8, <1>10 DEF OfFrame
  <2>2. OfSent(d, y) => OfSent(d, y)'
    BY <1>2, <1>8 DEF OfSent
  <2> QED BY <2>1, <2>2
<1>13. Fine(unpacker') /\ Len(unpacker'.raw) <= 7
  <2>1. Fine(unpacker')
    BY <1>10 DEF After
  <2>2. Len(Rest(w)) <= 7
    <3> DEFINE m == Len(w)
               n == Len(Rest(w))
    <3>1. m \in 8..15 /\ n = m - 8
      BY <1>1, <1>7
    <3> HIDE DEF m, n
    <3>2. n <= 7
      BY <3>1
    <3> QED BY <3>2 DEF n
  <2> QED BY <1>10, <2>1, <2>2
<1>14. PICK k \in Nat : k = j - 1
  BY <1>4
<1>15. Reading(d, s, r, y, k)'
  BY <1>11, <1>14
<1> QED BY <1>3, <1>8, <1>12, <1>13, <1>15, GetDone

-----------------------------------------------------------------------------
(* Nothing of a frame is no frame.                                          *)
LEMMA NothingIs ==
  ASSUME NEW d \in Seq(Bit), StuffedAs(d, <<>>, <<>>)
  PROVE  d = <<>>
<1> DEFINE e == <<>>
           u == HdlcStart("stSync", e)
<1>1. e \in Seq(Bit) /\ e \o e = e /\ "stSync" \in States /\ e = <<>>
  BY NoneIs, ConcatEmptySeq DEF States
<1>2. StuffedAs(d, e, e)
  OBVIOUS
<1> HIDE DEF e
<1>3. After(u, e) /\ Data(u) = e
  BY <1>1, StartIs
<1> HIDE DEF u
<1>4. Data(u) = d
  BY <1>1, <1>2, <1>3, AfterAll
<1> QED BY <1>1, <1>3, <1>4

(* A frame that was sent has bytes, so that it has bits to read.            *)
LEMMA SentIs ==
  ASSUME NEW d \in Seq(Bit), NEW y, OfSent(d, y)
  PROVE  /\ y = Flag \o Flag /\ d # <<>> /\ frame = <<>> /\ packer.ones = 0
         /\ \E f \in Sent : /\ f.bytes # <<>> /\ sentFrames = Append(gotFrames, f)
                            /\ d = BitsOf(f.bytes) \o FcsSent(f.bytes, ~f.ok)
<1>1. PICK f \in Sent : /\ f.bytes # <<>> /\ sentFrames = Append(gotFrames, f)
                        /\ d = BitsOf(f.bytes) \o FcsSent(f.bytes, ~f.ok)
  BY DEF OfSent
<1> DEFINE a == BitsOf(f.bytes)
           b == FcsSent(f.bytes, ~f.ok)
<1>2. a \in Seq(Bit)
  BY BitsOfIs DEF Sent
<1>3. b \in Seq(Bit) /\ Len(b) = 16
  <2>1. (~f.ok) \in BOOLEAN
    BY DEF Sent
  <2> QED BY <2>1, FcsSentIs DEF Sent
<1>4. d = a \o b
  BY <1>1
<1> HIDE DEF a, b
<1>5. Len(d) = Len(a) + 16 /\ Len(a) \in Nat
  <2>1. Len(a \o b) = Len(a) + Len(b) /\ Len(a) \in Nat
    BY <1>2, <1>3, CatIs, Zenon
  <2>2. Len(d) = Len(a \o b)
    BY <1>4, Zenon
  <2> QED BY <1>3, <2>1, <2>2
<1>6. d # <<>>
  BY <1>5, NoneIs
<1> QED BY <1>1, <1>6 DEF OfSent

(* In a frame, where it goes on.                                            *)
InFrame(d, s, r, y) ==
  /\ StuffedAs(d, s, r) /\ After(unpacker, s) /\ Same(r, y, Taken, line' \o packer.bits)
  /\ \/ unpacker.state = "stData"
     \/ unpacker.state = "stSkipFlags" /\ 0 \notin FlagAt(Taken)
  /\ \/ OfFrame(d, y) /\ y = <<>> /\ frame # <<>> /\ FlagAt(Taken) = {} /\ Len(Taken) <= Len(r)
     \/ OfSent(d, y) /\ \A o \in FlagAt(Taken) : o \in Nat /\ Len(r) <= o /\ o + 8 <= Len(Taken)

(* When no flag comes first, GetHdlcData is in the frame: no flag is found while *)
(* it is packed, and none before its end afterwards.                        *)
LEMMA InFrameIs ==
  ASSUME Types, GetHdlcData, NEW d \in Seq(Bit), NEW s \in Seq(Bit), NEW r \in Seq(Bit),
         NEW y \in Ends, Reading(d, s, r, y, 0), OfFrame(d, y) \/ OfSent(d, y)
  PROVE  InFrame(d, s, r, y)
<1> DEFINE w == Taken
           z == line' \o packer.bits
<1>1. w \in Seq(Bit) /\ Len(w) \in 8..15 /\ z \in Seq(Bit) /\ Wire = w \o z
  BY TakenIs
<1>2. y \in Seq(Bit)
  BY EndsAre
<1>3. Same(r, y, w, z)
  <2> DEFINE e == r \o y
  <2>1. e \in Seq(Bit)
    BY <1>2, CatSame, Zenon
  <2>2. Wire = Run(0) \o e
    BY DEF Reading, Coming
  <2>3. Run(0) = <<>>
    BY RunIs
  <2> HIDE DEF e, w, z
  <2>4. <<>> \o e = e
    BY <2>1, ConcatEmptySeq
  <2>5. w \o z = e
    BY <1>1, <2>2, <2>3, <2>4
  <2> QED BY <2>5 DEF Same, e
<1>4. /\ StuffedAs(d, s, r) /\ After(unpacker, s) /\ unpacker.state # "stSync"
      /\ (unpacker.state = "stSkipFlags" => s = <<>>)
  BY DEF Reading, Place
<1>5. unpacker.state \in States
  BY DataIs DEF Types
<1> HIDE DEF w, z
<1>6. Len(r) + Len(y) = Len(w) + Len(z) /\ Len(r) \in Nat /\ Len(y) \in Nat /\ Len(z) \in Nat
  <2> DEFINE a == r \o y
             b == w \o z
  <2>1. a = b
    BY <1>3 DEF Same
  <2>2. Len(a) = Len(r) + Len(y) /\ Len(r) \in Nat /\ Len(y) \in Nat
    BY <1>2, CatIs
  <2>3. Len(b) = Len(w) + Len(z) /\ Len(z) \in Nat
    BY <1>1, CatIs
  <2> HIDE DEF a, b
  <2> QED BY <2>1, <2>2, <2>3
<1>7. ASSUME NEW o \in FlagAt(w) PROVE o \in Nat /\ o + 8 <= Len(w) /\ Len(r) <= o
  <2>1. NoSix(s \o r)
    BY <1>4, StuffedOnes DEF StuffedAs
  <2> QED BY <1>1, <1>3, <2>1, NoFlag
<1>8. y = <<>> => Len(w) <= Len(r) /\ FlagAt(w) = {}
  <2> DEFINE m == Len(r)
             n == Len(w)
             k == Len(z)
  <2>1. ASSUME y = <<>> PROVE n <= m
    <3>1. Len(y) = 0
      BY <2>1, NoneIs
    <3> QED BY <1>1, <1>6, <3>1
  <2>2. n \in Nat
    BY <1>1
  <2>3. ASSUME y = <<>>, NEW o \in FlagAt(w) PROVE FALSE
    <3>1. o \in Nat /\ o + 8 <= n /\ m <= o /\ n <= m /\ m \in Nat
      BY <1>6, <1>7, <2>1, <2>3
    <3> HIDE DEF m, n
    <3> QED BY <2>2, <3>1
  <2> HIDE DEF m, n
  <2>4. y = <<>> => FlagAt(w) = {}
    BY <2>3
  <2> QED BY <2>1, <2>4 DEF m, n
<1>9. r = <<>> => d # <<>> \/ s # <<>>
  <2>1. ASSUME r = <<>>, s = <<>>, d = <<>> PROVE FALSE
    <3>1. ~OfSent(d, y)
      BY <2>1, SentIs
    <3>2. y = <<>>
      BY <3>1 DEF OfFrame
    <3>3. Len(w) <= 0
      BY <1>8, <2>1, <3>2, NoneIs
    <3>4. Len(w) \in 8..15
      BY <1>1, Zenon
    <3> DEFINE n == Len(w)
    <3>5. n <= 0 /\ n \in 8..15
      BY <3>3, <3>4
    <3> HIDE DEF n
    <3> QED BY <3>5
  <2> QED BY <2>1
<1>10. r = <<>> /\ s = <<>> => FALSE
  <2>1. r = <<>> /\ s = <<>> => d = <<>>
    BY <1>4, NothingIs
  <2> QED BY <1>9, <2>1
<1>11. unpacker.state = "stSkipFlags" => 0 \notin FlagAt(w)
  <2>1. ASSUME unpacker.state = "stSkipFlags", 0 \in FlagAt(w) PROVE FALSE
    <3>1. Len(r) <= 0
      BY <1>7, <2>1
    <3>2. Len(r) = 0
      BY <1>6, <3>1
    <3>3. r = <<>>
      BY <3>2, EmptySeq
    <3> QED BY <1>4, <1>10, <2>1, <3>3
  <2> QED BY <2>1
<1>12. OfFrame(d, y) => y = <<>> /\ frame # <<>>
  <2>1. OfFrame(d, y) => y = <<>>
    BY DEF OfFrame
  <2>2. ASSUME OfFrame(d, y), frame = <<>> PROVE FALSE
    <3>1. d = <<>>
      BY <2>2, BitsOfNone DEF OfFrame
    <3>2. Stuffed(d).bits = <<>>
      BY <3>1, NoneIs
    <3>3. Len(s \o r) = 0
      BY <1>4, <3>2, NoneIs DEF StuffedAs
    <3>4. Len(s \o r) = Len(s) + Len(r) /\ Len(s) \in Nat /\ Len(r) \in Nat
      BY CatIs
    <3>5. Len(s) = 0 /\ Len(r) = 0
      BY <3>3, <3>4
    <3>6. s = <<>> /\ r = <<>>
      BY <3>5, EmptySeq
    <3> QED BY <1>10, <3>6
  <2> QED BY <2>1, <2>2
<1>13. \/ unpacker.state = "stData"
       \/ unpacker.state = "stSkipFlags" /\ 0 \notin FlagAt(w)
  BY <1>4, <1>5, <1>11 DEF States
<1>14. \/ OfFrame(d, y) /\ y = <<>> /\ frame # <<>> /\ FlagAt(w) = {} /\ Len(w) <= Len(r)
       \/ OfSent(d, y) /\ \A o \in FlagAt(w) : o \in Nat /\ Len(r) <= o /\ o + 8 <= Len(w)
  BY <1>7, <1>8, <1>12
<1> QED BY <1>3, <1>4, <1>13, <1>14, Zenon DEF InFrame, w, z

-----------------------------------------------------------------------------
(* No flag is found.                                                        *)
LEMMA NoFlagIs ==
  ASSUME NEW w \in Seq(Bit), Len(w) \in 8..15, FlagAt(w) = {}
  PROVE  /\ First(w) \in 1..8 /\ First(w) = Len(w) - 7
         /\ SubSeq(w, 1, First(w)) \in Seq(Bit) /\ Rest(w) \in Seq(Bit)
         /\ Len(SubSeq(w, 1, First(w))) = First(w) /\ Len(Rest(w)) = 7
         /\ w = SubSeq(w, 1, First(w)) \o Rest(w)
<1> DEFINE n == Len(w) - 7
<1>1. First(w) = n /\ Rest(w) = SubSeq(w, First(w) + 1, Len(w))
  BY DEF First, Rest
<1>2. n \in 1..8 /\ n \in Nat /\ n <= Len(w) /\ Len(w) - n = 7
  <2> DEFINE k == Len(w)
  <2>1. k \in 8..15 /\ n = k - 7
    OBVIOUS
  <2> HIDE DEF k, n
  <2>2. n \in 1..8 /\ n \in Nat /\ n <= k /\ k - n = 7
    BY <2>1
  <2> QED BY <2>2 DEF k
<1> HIDE DEF n
<1>3. /\ SubSeq(w, 1, n) \in Seq(Bit) /\ Len(SubSeq(w, 1, n)) = n
      /\ SubSeq(w, n + 1, Len(w)) \in Seq(Bit) /\ Len(SubSeq(w, n + 1, Len(w))) = Len(w) - n
      /\ w = SubSeq(w, 1, n) \o SubSeq(w, n + 1, Len(w))
  BY <1>2, Split
<1>4. Rest(w) = SubSeq(w, n + 1, Len(w))
  BY <1>1
<1>5. n = Len(w) - 7
  BY DEF n
<1> QED BY <1>1, <1>2, <1>3, <1>4, <1>5, Zenon

(* What is unpacked with no flag in sight is a part of the frame.           *)
LEMMA GetData ==
  ASSUME Types, GetHdlcData, NEW d \in Seq(Bit), NEW s \in Seq(Bit), NEW r \in Seq(Bit),
         NEW y \in Ends, InFrame(d, s, r, y), FlagAt(Taken) = {}
  PROVE  FramesInv'
<1> DEFINE w == Taken
           z == line' \o packer.bits
           n == First(w)
           a == SubSeq(w, 1, n)
           b == Rest(w)
           u == UnpackFirst(unpacker, w, n)
<1>1. w \in Seq(Bit) /\ Len(w) \in 8..15 /\ z \in Seq(Bit)
  BY TakenIs
<1>2. packer' = packer /\ frame' = frame /\ sentFrames' = sentFrames
  BY DEF GetHdlcData
<1>3. /\ StuffedAs(d, s, r) /\ After(unpacker, s) /\ Same(r, y, w, z)
      /\ unpacker.state # "stSync"
      /\ \/ OfFrame(d, y) /\ y = <<>> /\ frame # <<>> /\ Len(w) <= Len(r)
         \/ OfSent(d, y)
  BY DEF InFrame
<1>4. gotFrames' = gotFrames /\ unpacker' = [Unpacked EXCEPT !.state = "stData"]
  BY <1>3, GetSteps
<1>5. Unpacked = [u EXCEPT !.raw = b]
  BY DEF Unpacked, Unpack
<1>6. /\ n \in 1..8 /\ n = Len(w) - 7 /\ a \in Seq(Bit) /\ b \in Seq(Bit)
      /\ Len(a) = n /\ Len(b) = 7
  BY <1>1, NoFlagIs
<1>7. w = a \o b
  BY <1>1, NoFlagIs
<1>8. y \in Seq(Bit)
  BY EndsAre
<1> HIDE DEF w, z, a, b
<1>9. Len(a) <= Len(r)
  <2>1. Len(r) \in Nat
    BY LenProperties
  <2>2. CASE Len(w) <= Len(r)
    <3> DEFINE k == Len(w)
               m == Len(r)
    <3>1. k \in 8..15 /\ n = k - 7 /\ k <= m /\ m \in Nat /\ Len(a) = n
      BY <1>1, <1>6, <2>1, <2>2
    <3> HIDE DEF k, m, n
    <3>2. n <= m
      BY <3>1
    <3> QED BY <3>1, <3>2 DEF m
  <2>3. CASE OfSent(d, y)
    <3>1. Same(r, Flag \o Flag, w, z)
      BY <1>3, <2>3 DEF OfSent
    <3>2. Len(r) + 8 <= Len(w) => Len(r) \in FlagAt(w)
      BY <1>1, <3>1, FlagAtEnd
    <3>3. ~(Len(r) + 8 <= Len(w))
      BY <3>2 DEF w
    <3> DEFINE k == Len(w)
               m == Len(r)
    <3>4. k \in 8..15 /\ n = k - 7 /\ ~(m + 8 <= k) /\ m \in Nat /\ Len(a) = n
      BY <1>1, <1>6, <2>1, <3>3
    <3> HIDE DEF k, m, n
    <3>5. n <= m
      BY <3>4
    <3> QED BY <3>4, <3>5 DEF m
  <2> QED BY <1>3, <2>2, <2>3
<1>10. b \o z \in Seq(Bit) /\ Same(a, b \o z, r, y)
  <2>1. Same(a \o b, z, a, b \o z) /\ b \o z \in Seq(Bit)
    BY <1>1, <1>6, CatSame, Zenon
  <2> QED BY <1>3, <1>7, <2>1, Zenon DEF Same
<1>11. PICK v \in Seq(Bit) : r = a \o v /\ b \o z = v \o y
  <2> DEFINE c == b \o z
  <2>1. c \in Seq(Bit) /\ Same(a, c, r, y)
    BY <1>10
  <2> HIDE DEF c
  <2>2. Overlap(a, c, r, y)
    BY <1>6, <1>8, <1>9, <2>1, Prefix
  <2> QED BY <2>2 DEF Overlap, c
<1>12. s \o a \in Seq(Bit) /\ StuffedAs(d, s \o a, v)
  <2>1. Same(s \o a, v, s, a \o v) /\ s \o a \in Seq(Bit)
    BY <1>6, CatSame, Zenon
  <2>2. Stuffed(d).bits = s \o (a \o v)
    BY <1>3, <1>11 DEF StuffedAs
  <2> QED BY <2>1, <2>2, Zenon DEF StuffedAs, Same
<1>13. After(u, s \o a)
  <2>1. n \in Nat /\ n <= Len(w)
    <3> DEFINE k == Len(w)
    <3>1. k \in 8..15 /\ n = k - 7
      BY <1>1, <1>6
    <3> HIDE DEF k, n
    <3>2. n \in Nat /\ n <= k
      BY <3>1
    <3> QED BY <3>2 DEF k
  <2> HIDE DEF n
  <2>2. After(UnpackFirst(unpacker, w, n), s \o SubSeq(w, 1, n))
    BY <1>1, <1>3, <2>1, AfterMany
  <2> QED BY <2>2 DEF a
<1> HIDE DEF u
<1>14. Changed(unpacker', u, b, "stData")
  BY <1>4, <1>5 DEF Changed
<1>15. After(unpacker', s \o a) /\ unpacker'.raw = b /\ unpacker'.state = "stData"
  <2> DEFINE c == s \o a
             e == "stData"
  <2>1. c \in Seq(Bit) /\ After(u, c) /\ e \in States /\ Changed(unpacker', u, b, e)
    BY <1>12, <1>13, <1>14 DEF States
  <2> HIDE DEF c, e
  <2>2. After(unpacker', c) /\ unpacker'.raw = b /\ unpacker'.state = e
    BY <1>6, <2>1, ChangedAfter
  <2> QED BY <2>2 DEF c, e
<1>16. Coming(v, y, 0)'
  <2>1. Wire' = b \o z
    BY <1>2, <1>15 DEF Wire, z
  <2> DEFINE e == v \o y
  <2>2. e \in Seq(Bit)
    BY <1>8, CatSame, Zenon
  <2> HIDE DEF e
  <2>3. <<>> \o e = e /\ Run(0) = <<>>
    BY <2>2, ConcatEmptySeq, RunIs
  <2> QED BY <1>11, <2>1, <2>3 DEF Coming, e
<1>17. PICK g \in Seq(Bit) : g = s \o a
  BY <1>12
<1>18. Reading(d, g, v, y, 0)'
  <2>1. Place(g, 0)'
    BY <1>15, <1>17 DEF Place
  <2> QED BY <1>12, <1>16, <1>17, <2>1 DEF Reading
<1>19. OfFrame(d, y)' \/ OfSent(d, y)'
  <2>1. OfFrame(d, y) /\ frame # <<>> => OfFrame(d, y)'
    BY <1>2, <1>4 DEF OfFrame
  <2>2. OfSent(d, y) => OfSent(d, y)'
    BY <1>2, <1>4 DEF OfSent
  <2> QED BY <1>3, <2>1, <2>2
<1>20. /\ Fine(unpacker') /\ Len(unpacker'.raw) <= 7 /\ gotFrames' \in Seq(Sent) /\ 0 \in Nat
  <2>1. Fine(unpacker')
    BY <1>15 DEF After
  <2>2. Len(unpacker'.raw) = 7
    BY <1>6, <1>15, Zenon
  <2>4. 7 <= 7
    OBVIOUS
  <2>3. gotFrames' \in Seq(Sent)
    BY <1>4 DEF Types
  <2> QED BY <2>1, <2>2, <2>3, <2>4, SMT
<1> QED BY <1>18, <1>19, <1>20, GetDone

-----------------------------------------------------------------------------
(* The first flag.                                                          *)
LEMMA FlagIsFirst ==
  ASSUME NEW w, NEW n \in FlagAt(w), n \in Nat, \A o \in FlagAt(w) : o \in Nat /\ n <= o
  PROVE  First(w) = n /\ Rest(w) = SubSeq(w, n + 9, Len(w))
<1> DEFINE F == FlagAt(w)
           m == CHOOSE o \in F : \A p \in F : o <= p
<1>1. First(w) = m /\ Rest(w) = SubSeq(w, First(w) + 9, Len(w))
  BY DEF First, Rest
<1>2. n \in F /\ \A o \in F : o \in Nat /\ n <= o
  OBVIOUS
<1> HIDE DEF F
<1>3. m \in F /\ \A p \in F : m <= p
  BY <1>2
<1> HIDE DEF m
<1>4. m = n
  BY <1>2, <1>3
<1> QED BY <1>1, <1>4

(* At the flag after the frame all of it was unpacked.                      *)
LEMMA GetEnd ==
  ASSUME Types, GetHdlcData, NEW d \in Seq(Bit), NEW s \in Seq(Bit), NEW r \in Seq(Bit),
         NEW y \in Ends, InFrame(d, s, r, y), FlagAt(Taken) # {}
  PROVE  FramesInv'
<1> DEFINE w == Taken
           z == line' \o packer.bits
           n == Len(r)
           u == UnpackFirst(unpacker, w, n)
<1>1. w \in Seq(Bit) /\ Len(w) \in 8..15 /\ z \in Seq(Bit)
  BY TakenIs
<1>2. packer' = packer /\ frame' = frame /\ sentFrames' = sentFrames
  BY DEF GetHdlcData
<1>3. /\ StuffedAs(d, s, r) /\ After(unpacker, s) /\ Same(r, y, w, z)
      /\ \/ unpacker.state = "stData"
         \/ unpacker.state = "stSkipFlags" /\ 0 \notin FlagAt(w)
      /\ OfSent(d, y)
      /\ \A o \in FlagAt(w) : o \in Nat /\ n <= o /\ o + 8 <= Len(w)
  BY DEF InFrame
<1>4. PICK f \in Sent : /\ f.bytes # <<>> /\ sentFrames = Append(gotFrames, f)
                        /\ d = BitsOf(f.bytes) \o FcsSent(f.bytes, ~f.ok)
  BY <1>3, SentIs
<1>5. y = Flag \o Flag /\ frame = <<>> /\ packer.ones = 0
  BY <1>3, SentIs
<1>6. unpacker' = HdlcStart("stSkipFlags", Unpacked.raw) /\ gotFrames' = Got
  BY <1>3, GetSteps
<1>7. n \in Nat
  BY LenProperties
<1> HIDE DEF w, z
<1>8. n + 8 <= Len(w)
  <2>1. PICK o \in FlagAt(w) : o \in Nat /\ n <= o /\ o + 8 <= Len(w)
    BY <1>3 DEF w
  <2> DEFINE k == Len(w)
  <2>2. k \in 8..15 /\ o + 8 <= k
    BY <1>1, <2>1
  <2> HIDE DEF k, n
  <2>3. n + 8 <= k
    BY <1>7, <2>1, <2>2
  <2> QED BY <2>3 DEF k
<1>9. /\ n \in FlagAt(w) /\ SubSeq(w, 1, n) = r
      /\ \E v \in Seq(Bit) : /\ SubSeq(w, n + 9, Len(w)) = v /\ Flag = v \o z
                             /\ Len(v) = Len(w) - 8 - n
  <2>1. Same(r, Flag \o Flag, w, z)
    BY <1>3, <1>5
  <2> QED BY <1>1, <1>8, <2>1, FlagAtEnd
<1>10. PICK v \in Seq(Bit) : /\ SubSeq(w, n + 9, Len(w)) = v /\ Flag = v \o z
                             /\ Len(v) = Len(w) - 8 - n
  BY <1>9
<1>11. First(w) = n /\ Rest(w) = v
  <2>1. First(w) = n /\ Rest(w) = SubSeq(w, n + 9, Len(w))
    BY <1>3, <1>7, <1>9, FlagIsFirst
  <2> QED BY <1>10, <2>1
<1>12. Len(v) <= 7
  <2> DEFINE k == Len(w)
             m == Len(v)
  <2>1. k \in 8..15 /\ m = k - 8 - n
    BY <1>1, <1>10
  <2> HIDE DEF k, m, n
  <2>2. m <= 7
    BY <1>7, <2>1
  <2> QED BY <2>2 DEF m
<1>13. After(u, s \o r)
  <2> HIDE DEF n
  <2>1. n <= Len(w)
    <3> DEFINE k == Len(w)
    <3>1. k \in 8..15 /\ n + 8 <= k
      BY <1>1, <1>8
    <3> HIDE DEF k
    <3>2. n <= k
      BY <1>7, <3>1
    <3> QED BY <3>2 DEF k
  <2>2. After(UnpackFirst(unpacker, w, n), s \o SubSeq(w, 1, n))
    BY <1>1, <1>3, <1>7, <2>1, AfterMany
  <2> QED BY <1>9, <2>2
<1>14. Fine(u) /\ Data(u) = d
  <2> HIDE DEF u
  <2> QED BY <1>3, <1>13, AfterAll
<1>15. Unpacked = [u EXCEPT !.raw = v]
  BY <1>11 DEF Unpacked, Unpack, w
<1> HIDE DEF u, n
<1>16. Unpacked.raw = v /\ Fine(Unpacked) /\ Data(Unpacked) = d
  <2> DEFINE b == u.state
  <2>1. b \in States
    BY <1>14, DataIs
  <2>2. Changed(Unpacked, u, v, b)
    <3>1. u \in Unpacking
      BY <1>14 DEF Fine
    <3>2. [u EXCEPT !.raw = v] = [u EXCEPT !.raw = v, !.state = b]
      BY <3>1 DEF Unpacking
    <3> QED BY <1>15, <3>2 DEF Changed
  <2> HIDE DEF b
  <2>3. Fine(Unpacked) /\ Unpacked.raw = v /\ Data(Unpacked) = Data(u)
    BY <1>14, <2>1, <2>2, ChangedIs
  <2> QED BY <1>14, <2>3
<1>17. Unpacked.out # <<>> /\ [bytes |-> Unpacked.out, ok |-> isFcsOK(Unpacked)] = f
  <2> DEFINE x == Unpacked
  <2>1. Fine(x) /\ Data(x) = BitsOf(f.bytes) \o FcsSent(f.bytes, ~f.ok)
    BY <1>4, <1>16
  <2> HIDE DEF x
  <2>2. x.out # <<>> /\ [bytes |-> x.out, ok |-> isFcsOK(x)] = f
    BY <1>4, <2>1, FrameIs
  <2> QED BY <2>2 DEF x
<1>18. gotFrames' = sentFrames' /\ sentFrames' # <<>> /\ gotFrames' \in Seq(Sent)
  <2>1. gotFrames' = Append(gotFrames, f)
    BY <1>6, <1>17 DEF Got
  <2>2. gotFrames \in Seq(Sent)
    BY DEF Types
  <2>3. Append(gotFrames, f) # <<>> /\ Append(gotFrames, f) \in Seq(Sent)
    BY <2>2, AppendProperties
  <2> QED BY <1>2, <1>4, <2>1, <2>3
<1>19. PICK e \in Seq(Bit) : e = <<>>
  BY NoneIs
<1>20. /\ Fine(unpacker') /\ After(unpacker', e) /\ unpacker'.raw = v
       /\ unpacker'.state = "stSkipFlags"
  <2> DEFINE b == "stSkipFlags"
  <2>1. b \in States /\ unpacker' = HdlcStart(b, v)
    BY <1>6, <1>16 DEF States
  <2> HIDE DEF b
  <2>2. Fine(HdlcStart(b, v)) /\ After(HdlcStart(b, v), <<>>) /\ HdlcStart(b, v).raw = v
        /\ HdlcStart(b, v).state = b
    BY <2>1, StartIs
  <2> QED BY <1>19, <2>1, <2>2 DEF b
<1>21. Coming(e, e, 1)'
  <2>1. Wire' = v \o z
    BY <1>2, <1>20 DEF Wire, z
  <2>2. Flag \in Seq(Bit)
    BY FlagIs
  <2>3. e \o e = e
    BY <1>19, ConcatEmptySeq
  <2>4. Flag \o e = Flag
    BY <1>19, <2>2, ConcatEmptySeq
  <2>5. Run(1) = Flag
    BY RunIs
  <2> QED BY <1>10, <2>1, <2>3, <2>4, <2>5 DEF Coming
<1>22. Reading(e, e, e, e, 1)'
  <2>1. Place(e, 1)'
    BY <1>19, <1>20 DEF Place
  <2>2. StuffedAs(e, e, e)
    BY <1>19, NoneIs
  <2> QED BY <1>21, <2>1, <2>2 DEF Reading
<1>23. OfFrame(e, e)'
  <2>1. BitsOf(frame') = e
    BY <1>2, <1>5, <1>19, BitsOfNone
  <2>2. packer'.ones = Stuffed(e).ones
    BY <1>2, <1>5, <1>19, NoneIs
  <2> QED BY <1>18, <1>19, <1>20, <2>1, <2>2 DEF OfFrame
<1>24. e \in Ends /\ 1 \in Nat /\ Len(unpacker'.raw) <= 7
  BY <1>12, <1>19, <1>20 DEF Ends
<1> QED BY <1>18, <1>20, <1>22, <1>23, <1>24, GetDone

(* A raw byte is taken.                                                     *)
LEMMA FramesGet ==
  ASSUME FramesInv, GetHdlcData
  PROVE  FramesInv'
<1>1. Types /\ line # <<>> /\ ~Idle
  BY DEF FramesInv, GetHdlcData, Idle
<1>2. Passing
  BY <1>1 DEF FramesInv
<1>3. PICK d, s, r \in Seq(Bit), y \in Ends, j \in Nat :
        Reading(d, s, r, y, j) /\ (OfFrame(d, y) \/ OfSent(d, y))
  BY <1>2 DEF Passing
<1>4. CASE j > 0
  BY <1>1, <1>3, <1>4, GetFlag
<1>5. CASE j = 0
  <2>1. InFrame(d, s, r, y)
    BY <1>1, <1>3, <1>5, InFrameIs
  <2>2. CASE FlagAt(Taken) = {}
    BY <1>1, <2>1, <2>2, GetData
  <2>3. CASE FlagAt(Taken) # {}
    BY <1>1, <2>1, <2>3, GetEnd
  <2> QED BY <2>2, <2>3
<1>6. j > 0 \/ j = 0
  OBVIOUS
<1> QED BY <1>4, <1>5, <1>6

-----------------------------------------------------------------------------
(* What a prefix of the bits of a frame, and of its FCS, has out.           *)
LEMMA PrefixBegins ==
  ASSUME NEW a \in Seq(Bit), NEW c \in Seq(Bit), NEW d \in Seq(Bit), PrefixOf(a \o c, d)
  PROVE  Begins(a, d)
<1>1. PICK e \in Seq(Bit) : d = (a \o c) \o e
  BY DEF PrefixOf
<1>2. Same(a \o c, e, a, c \o e) /\ c \o e \in Seq(Bit)
  BY CatSame, Zenon
<1>3. d = a \o (c \o e)
  BY <1>1, <1>2, Zenon DEF Same
<1> QED BY <1>2, <1>3, Zenon DEF Begins

(* If the bits of bytes begin the bits of others, the bytes begin the others. *)
LEMMA PrefixIs ==
  ASSUME NEW x \in Seq(0..255), NEW y \in Seq(0..255), Begins(BitsOf(x), BitsOf(y))
  PROVE  Len(x) <= Len(y) /\ x = SubSeq(y, 1, Len(x))
<1> DEFINE a == BitsOf(x)
           b == BitsOf(y)
           m == Len(x)
           n == Len(y)
<1>1. /\ a \in Seq(Bit) /\ Len(a) = 8 * m /\ b \in Seq(Bit) /\ Len(b) = 8 * n
      /\ m \in Nat /\ n \in Nat
  BY BitsOfIs, LenProperties
<1>3. PICK g \in Seq(Bit) : b = a \o g
  BY DEF Begins
<1> HIDE DEF a, b, m, n
<1>4. Len(b) = Len(a) + Len(g) /\ Len(g) \in Nat /\ Len(a) \in Nat
  BY <1>1, <1>3, CatIs
<1>5. m <= n
  <2> DEFINE k == Len(g)
  <2>1. 8 * n = 8 * m + k /\ k \in Nat
    BY <1>1, <1>4
  <2> HIDE DEF k
  <2> QED BY <1>1, <2>1
<1>6. ASSUME NEW i \in 1..(8 * m) PROVE a[i] = b[i]
  <2>1. i \in 1..(Len(a) + Len(g)) /\ i <= Len(a)
    BY <1>1, <1>4
  <2>2. (a \o g)[i] = IF i <= Len(a) THEN a[i] ELSE g[i - Len(a)]
    BY <1>1, <2>1, CatIs, Zenon
  <2> QED BY <1>3, <2>1, <2>2
<1>7. x = SubSeq(y, 1, Len(x))
  <2>1. Len(x) <= Len(y)
    BY <1>5 DEF m, n
  <2>2. \A i \in 1..(8 * Len(x)) : BitsOf(x)[i] = BitsOf(y)[i]
    BY <1>6 DEF m, a, b
  <2> QED BY <2>1, <2>2, BitsOfPrefix
<1> QED BY <1>5, <1>7 DEF m, n

(* What is out is of the frame.                                             *)
LEMMA OutIs ==
  ASSUME NEW u, Fine(u), NEW f \in Seq(0..255), NEW t \in Seq(Bit), Len(t) = 16 \/ t = <<>>,
         PrefixOf(Data(u), BitsOf(f) \o t)
  PROVE  Len(u.out) <= Len(f) /\ u.out = SubSeq(f, 1, Len(u.out))
<1> DEFINE a == BitsOf(u.out)
           c == u.chunk
           b == BitsOf(f)
           d == b \o t
           m == Len(u.out)
           n == Len(f)
           k == Len(c)
<1>1. /\ a \in Seq(Bit) /\ Len(a) = 8 * m /\ m \in Nat /\ c \in Seq(Bit) /\ k \in Nat
      /\ u.out \in Seq(0..255) /\ (u.out # <<>> => 16 <= k)
      /\ Data(u) \in Seq(Bit) /\ Len(Data(u)) = 8 * m + k
  BY DataIs DEF Fine
<1>2. b \in Seq(Bit) /\ Len(b) = 8 * n /\ n \in Nat
  BY BitsOfIs, LenProperties
<1>3. m = 0 \/ 16 <= k
  BY <1>1, EmptySeq
<1>4. Data(u) = a \o c
  BY DEF Data
<1>5. d \in Seq(Bit) /\ Len(d) = Len(b) + Len(t) /\ Len(t) \in Nat
  <2> HIDE DEF b
  <2> QED BY <1>2, CatIs
<1>6. Len(t) = 16 \/ Len(t) = 0
  BY NoneIs
<1>7. PICK e \in Seq(Bit) : d = Data(u) \o e
  BY DEF PrefixOf
<1> HIDE DEF a, b, c, d, k, m, n
<1>8. Len(d) = Len(Data(u)) + Len(e) /\ Len(e) \in Nat
  BY <1>1, <1>7, CatIs
<1>9. 8 * m <= 8 * n
  <2> DEFINE l == Len(t)
             i == Len(e)
  <2>1. 8 * n + l = 8 * m + k + i /\ l \in Nat /\ i \in Nat /\ (l = 16 \/ l = 0)
    BY <1>1, <1>2, <1>5, <1>6, <1>8
  <2> HIDE DEF l, i
  <2> QED BY <1>1, <1>2, <1>3, <2>1
<1>10. Begins(a, b)
  <2>1. Begins(a, d)
    <3>1. PrefixOf(a \o c, d)
      BY <1>4 DEF d, b
    <3> QED BY <1>1, <1>5, <3>1, PrefixBegins
  <2>2. Begins(a, b \o t)
    BY <2>1 DEF d
  <2>3. Len(a) <= Len(b)
    BY <1>1, <1>2, <1>9
  <2> QED BY <1>1, <1>2, <2>2, <2>3, BeginsPart
<1> QED BY <1>1, <1>10, PrefixIs DEF a, b

-----------------------------------------------------------------------------
(* Of a frame that is read, the bytes that are out.                         *)
LEMMA ReadIs ==
  ASSUME Types, NEW d \in Seq(Bit), NEW s \in Seq(Bit), NEW r \in Seq(Bit), StuffedAs(d, s, r),
         After(unpacker, s), NEW f \in Seq(0..255), NEW t \in Seq(Bit),
         Len(t) = 16 \/ t = <<>>, d = BitsOf(f) \o t
  PROVE  Len(unpacker.out) <= Len(f) /\ unpacker.out = SubSeq(f, 1, Len(unpacker.out))
<1>1. Begins(s, Stuffed(d).bits)
  BY DEF Begins, StuffedAs
<1>2. PrefixOf(Data(Parsed(s)), d)
  BY <1>1, RestoredAll DEF Restored
<1>3. Data(unpacker) = Data(Parsed(s)) /\ Fine(unpacker)
  BY DEF After, Alike, Data
<1> DEFINE u == unpacker
<1>4. Fine(u) /\ PrefixOf(Data(u), BitsOf(f) \o t)
  BY <1>2, <1>3
<1> HIDE DEF u
<1>5. Len(u.out) <= Len(f) /\ u.out = SubSeq(f, 1, Len(u.out))
  BY <1>4, OutIs
<1> QED BY <1>5 DEF u

(* The frames that were sent, and the one that is packed.                   *)
LEMMA AllIs ==
  ASSUME NEW S, NEW a \in Seq(S), NEW e
  PROVE  Append(a, e)[Len(a) + 1] = e /\ SubSeq(a, 1, Len(a)) = a /\ Len(a) \in Nat
OBVIOUS

(* A frame was sent after those of a, and g is the next one.                *)
LEMMA FirstAre ==
  ASSUME NEW S, NEW a \in Seq(S), NEW e \in S, NEW g
  PROVE  /\ Append(Append(a, e), g)[Len(a) + 1] = e /\ SubSeq(Append(a, e), 1, Len(a)) = a
         /\ Len(Append(a, e)) = Len(a) + 1 /\ Len(a) \in Nat
OBVIOUS

Next(n) == (Append(sentFrames, [bytes |-> frame, ok |-> TRUE]))[n + 1].bytes
KeptAs(n, f) ==
  /\ n = Len(gotFrames) /\ n <= Len(sentFrames) /\ gotFrames = SubSeq(sentFrames, 1, n)
  /\ Next(n) = f
  /\ Len(unpacker.out) <= Len(f) /\ unpacker.out = SubSeq(f, 1, Len(unpacker.out))
  /\ line = <<>> /\ frame = <<>> => gotFrames = sentFrames

(* FramesKept, with the next frame named.                                   *)
LEMMA KeptIs ==
  ASSUME NEW n, NEW f, KeptAs(n, f)
  PROVE  FramesKept
BY DEF KeptAs, FramesKept, Next

(* FramesKept when nothing was packed,                                      *)
LEMMA KeptIdle ==
  ASSUME Types, Idle
  PROVE  FramesKept
<1> DEFINE n == Len(gotFrames)
           f == frame
<1>1. /\ gotFrames \in Seq(Sent) /\ gotFrames = sentFrames /\ f = <<>>
      /\ unpacker = HdlcStart("stSync", <<>>)
  BY DEF Idle, Types
<1>2. n \in Nat /\ n <= Len(sentFrames) /\ gotFrames = SubSeq(sentFrames, 1, n)
  BY <1>1, AllIs
<1>3. Next(n) = f
  <2> DEFINE g == [bytes |-> frame, ok |-> TRUE]
  <2>1. g.bytes = f
    OBVIOUS
  <2> HIDE DEF g
  <2>2. Append(sentFrames, g)[Len(sentFrames) + 1] = g
    BY <1>1, AllIs
  <2> QED BY <1>1, <2>1, <2>2 DEF Next, g
<1>4. unpacker.out = <<>> /\ Len(unpacker.out) = 0
  BY <1>1, NoneIs DEF HdlcStart
<1>5. Len(f) = 0 /\ SubSeq(f, 1, 0) = <<>>
  <2>1. <<>> \in Seq(Bit) /\ Len(<<>>) = 0
    BY NoneIs
  <2>2. SubSeq(<<>>, 1, Len(<<>>)) = <<>>
    BY <2>1, AllIs
  <2> QED BY <1>1, <2>1, <2>2
<1>6. unpacker.out = SubSeq(f, 1, Len(unpacker.out))
  BY <1>4, <1>5, Zenon
<1>7. Len(unpacker.out) <= Len(f)
  BY <1>4, <1>5
<1> HIDE DEF n, f
<1>8. KeptAs(n, f)
  BY <1>1, <1>2, <1>3, <1>6, <1>7 DEF KeptAs, n
<1> QED BY <1>8, KeptIs

(* while the frame that is read is being packed,                            *)
LEMMA KeptOfFrame ==
  ASSUME Types, NEW d \in Seq(Bit), NEW s \in Seq(Bit), NEW r \in Seq(Bit), NEW y \in Ends,
         NEW j \in Nat, Reading(d, s, r, y, j), OfFrame(d, y)
  PROVE  FramesKept
<1> DEFINE n == Len(gotFrames)
           f == frame
           e == <<>>
<1>1. /\ gotFrames \in Seq(Sent) /\ gotFrames = sentFrames /\ d = BitsOf(f)
      /\ StuffedAs(d, s, r) /\ After(unpacker, s) /\ f \in Seq(0..255)
  BY DEF OfFrame, Types, Reading, Place
<1>2. n \in Nat /\ n <= Len(sentFrames) /\ gotFrames = SubSeq(sentFrames, 1, n)
  BY <1>1, AllIs
<1>3. Next(n) = f
  <2> DEFINE g == [bytes |-> frame, ok |-> TRUE]
  <2>1. g.bytes = f
    OBVIOUS
  <2> HIDE DEF g
  <2>2. Append(sentFrames, g)[Len(sentFrames) + 1] = g
    BY <1>1, AllIs
  <2> QED BY <1>1, <2>1, <2>2 DEF Next, g
<1>4. e \in Seq(Bit) /\ e = <<>> /\ d = BitsOf(f) \o e
  <2>1. d \o <<>> = d
    BY ConcatEmptySeq
  <2> QED BY <1>1, <2>1, NoneIs
<1> HIDE DEF e, f, n
<1>5. Len(unpacker.out) <= Len(f) /\ unpacker.out = SubSeq(f, 1, Len(unpacker.out))
  BY <1>1, <1>4, ReadIs
<1>6. KeptAs(n, f)
  BY <1>1, <1>2, <1>3, <1>5 DEF KeptAs, n
<1> QED BY <1>6, KeptIs

(* while the frame that is read was sent,                                   *)
LEMMA KeptOfSent ==
  ASSUME Types, NEW d \in Seq(Bit), NEW s \in Seq(Bit), NEW r \in Seq(Bit), NEW y \in Ends,
         NEW j \in Nat, Reading(d, s, r, y, j), OfSent(d, y)
  PROVE  FramesKept
<1>1. PICK h \in Sent : /\ h.bytes # <<>> /\ sentFrames = Append(gotFrames, h)
                        /\ d = BitsOf(h.bytes) \o FcsSent(h.bytes, ~h.ok)
  BY SentIs
<1> DEFINE n == Len(gotFrames)
           f == h.bytes
           t == FcsSent(h.bytes, ~h.ok)
<1>2. gotFrames \in Seq(Sent) /\ StuffedAs(d, s, r) /\ After(unpacker, s) /\ f \in Seq(0..255)
  BY DEF Types, Reading, Place, Sent
<1>3. t \in Seq(Bit) /\ Len(t) = 16 /\ d = BitsOf(f) \o t
  <2>1. (~h.ok) \in BOOLEAN
    BY DEF Sent
  <2> QED BY <1>1, <1>2, <2>1, FcsSentIs
<1>4. n \in Nat /\ n <= Len(sentFrames) /\ gotFrames = SubSeq(sentFrames, 1, n)
  <2>1. Len(sentFrames) = n + 1 /\ n \in Nat /\ gotFrames = SubSeq(sentFrames, 1, n)
    BY <1>1, <1>2, FirstAre
  <2> HIDE DEF n
  <2>2. n <= n + 1
    BY <2>1
  <2> QED BY <2>1, <2>2
<1>5. Next(n) = f
  <2> DEFINE g == [bytes |-> frame, ok |-> TRUE]
  <2> HIDE DEF g
  <2>1. Append(Append(gotFrames, h), g)[Len(gotFrames) + 1] = h
    BY <1>1, <1>2, FirstAre
  <2> QED BY <1>1, <2>1 DEF Next, g
<1> HIDE DEF f, n, t
<1>6. Len(unpacker.out) <= Len(f) /\ unpacker.out = SubSeq(f, 1, Len(unpacker.out))
  BY <1>2, <1>3, ReadIs
<1>7. line # <<>>
  BY NotOfSent
<1>8. KeptAs(n, f)
  BY <1>4, <1>5, <1>6, <1>7 DEF KeptAs, n
<1> QED BY <1>8, KeptIs

(* and so whenever the invariant holds.                                     *)
LEMMA KeptNow ==
  ASSUME FramesInv
  PROVE  FramesKept
<1>1. Types /\ (Idle \/ Passing)
  BY DEF FramesInv
<1>2. CASE Idle
  BY <1>1, <1>2, KeptIdle
<1>3. CASE Passing
  <2>1. PICK d, s, r \in Seq(Bit), y \in Ends, j \in Nat :
          Reading(d, s, r, y, j) /\ (OfFrame(d, y) \/ OfSent(d, y))
    BY <1>3 DEF Passing
  <2> QED BY <1>1, <2>1, KeptOfFrame, KeptOfSent
<1> QED BY <1>1, <1>2, <1>3

-----------------------------------------------------------------------------
(* Nothing changes.                                                         *)
LEMMA FramesStay ==
  ASSUME FramesInv, UNCHANGED hdlcVars
  PROVE  FramesInv'
<1>1. /\ packer' = packer /\ frame' = frame /\ line' = line /\ unpacker' = unpacker
      /\ sentFrames' = sentFrames /\ gotFrames' = gotFrames
  BY DEF hdlcVars
<1>2. Types'
  BY <1>1 DEF FramesInv, Types
<1>3. Idle => Idle'
  BY <1>1, Zenon DEF Idle
<1>4. ASSUME Passing PROVE Passing'
  <2>1. PICK d, s, r \in Seq(Bit), y \in Ends, j \in Nat :
          Reading(d, s, r, y, j) /\ (OfFrame(d, y) \/ OfSent(d, y))
    BY <1>4 DEF Passing
  <2>2. Reading(d, s, r, y, j)'
    BY <1>1, <2>1, Zenon DEF Reading, Coming, Place, Wire
  <2>3. OfFrame(d, y) => OfFrame(d, y)'
    BY <1>1, Zenon DEF OfFrame
  <2>4. OfSent(d, y) => OfSent(d, y)'
    BY <1>1, Zenon DEF OfSent
  <2> QED BY <2>1, <2>2, <2>3, <2>4 DEF Passing
<1> QED BY <1>2, <1>3, <1>4 DEF FramesInv

(* Every step keeps the invariant.                                          *)
LEMMA FramesNext ==
  ASSUME FramesInv, [HdlcNext]_hdlcVars
  PROVE  FramesInv'
<1>1. ASSUME NEW v \in FrameByte, PackByte(v) PROVE FramesInv'
  BY <1>1, FramesPackByte
<1>2. ASSUME NEW diagError \in BOOLEAN, PackEnd(diagError) PROVE FramesInv'
  BY <1>2, FramesPackEnd
<1>3. CASE GetHdlcData
  BY <1>3, FramesGet
<1>4. CASE NextSignal
  BY <1>4, FramesNextSignal
<1>5. CASE UNCHANGED hdlcVars
  BY <1>5, FramesStay
<1> QED BY <1>1, <1>2, <1>3, <1>4, <1>5 DEF HdlcNext

(* The raw bits on the way are, in every state, flags, the rest of a frame  *)
(* with the zeros stuffed in, and the flags after it (HDLC::pack, sync and  *)
(* unpack in hdlc.cxx); the unpacker has unpacked what came before.         *)
THEOREM HdlcInvariant == HdlcSpec => []FramesInv
<1>1. HdlcInit => FramesInv
  BY FramesInit
<1>2. FramesInv /\ [HdlcNext]_hdlcVars => FramesInv'
  BY FramesNext
<1> QED BY <1>1, <1>2, PTL DEF HdlcSpec

(* The frames PreparePacket gets from GetHdlcData are the ones GetRawData   *)
(* packed, with the same verdict on the FCS, whatever their bytes, their    *)
(* length, their number, and the flags before the first.                    *)
THEOREM HdlcFramesKept == HdlcSpec => []FramesKept
<1>1. FramesInv => FramesKept
  BY KeptNow
<1> QED BY <1>1, HdlcInvariant, PTL
=============================================================================
