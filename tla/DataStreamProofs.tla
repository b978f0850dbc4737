------------------------- MODULE DataStreamProofs -------------------------
(***************************************************************************)
(* Proofs about DataStream, for every size of the chunks and of the calls  *)
(* and any number of bytes: a DataStream implements ByteQueue, reaches no  *)
(* chunk that was deleted and loses none, and the DLE codes of the DTE     *)
(* stand for the bytes of the engine.                                      *)
(*                                                                         *)
(* The loops of the code are recursive functions over the numbers of       *)
(* passes.  That such a function exists is shown once for each of them     *)
(* (the lemmas named Loops); what it computes is then shown by induction   *)
(* over a set of numbers (SetInduction).                                   *)
(***************************************************************************)
EXTENDS DataStream, FiniteSetTheorems, SequenceTheorems, NaturalsInduction,
        WellFoundedInduction, TLAPS

(* Induction over the natural numbers, with the set of those for which it   *)
(* holds in the place of a formula: the least number outside of it would    *)
(* be 0 or the successor of one inside.                                     *)
LEMMA SetInduction ==
  ASSUME NEW T, 0 \in T, \A n \in Nat : n \in T => n + 1 \in T
  PROVE  \A n \in Nat : n \in T
<1> DEFINE R == OpToRel(<, Nat)
           F == {n \in Nat : n \notin T}
<1>1. IsWellFoundedOn(R, Nat)
  BY NatLessThanWellFounded
<1>2. ASSUME F # {} PROVE FALSE
  <2>1. \E x \in F : \A y \in F : ~(<<y, x>> \in R)
    <3>1. F \subseteq Nat
      OBVIOUS
    <3> HIDE DEF R, F
    <3> QED BY <1>1, <1>2, <3>1, WFMin
  <2>2. PICK x \in F : \A y \in F : ~(<<y, x>> \in R)
    BY <2>1
  <2>3. x # 0 /\ x \in Nat /\ x - 1 \in Nat
    OBVIOUS
  <2>4. x - 1 \in F
    <3>1. x - 1 + 1 = x
      BY <2>3
    <3> QED BY <2>3, <3>1
  <2>5. <<x - 1, x>> \in R
    BY <2>3, SMT DEF OpToRel
  <2> QED BY <2>2, <2>4, <2>5
<1> QED BY <1>2

-----------------------------------------------------------------------------
(* Chunks have room for a byte.                                             *)
LEMMA ChunkSizeIs == ChunkSize \in Nat \ {0}
BY StreamAssumption

(* Where byte p of a chain of full chunks is.                               *)
LEMMA Place ==
  ASSUME NEW p \in Nat
  PROVE  /\ p \div ChunkSize \in Nat
         /\ p % ChunkSize \in Nat /\ p % ChunkSize < ChunkSize
BY ChunkSizeIs

(* In the first chunk it is where it says.                                  *)
LEMMA PlaceFirst ==
  ASSUME NEW p \in Nat, p < ChunkSize
  PROVE  p \div ChunkSize = 0 /\ p % ChunkSize = p
BY ChunkSizeIs

(* A place whose number of chunks is 0 is in the first one.                *)
LEMMA PlaceZero ==
  ASSUME NEW p \in Nat, p \div ChunkSize = 0
  PROVE  p % ChunkSize = p
BY ChunkSizeIs

(* The next byte is in the same chunk or begins the next one.               *)
LEMMA PlaceNext ==
  ASSUME NEW p \in Nat
  PROVE  /\ (p % ChunkSize) + 1 < ChunkSize =>
              /\ (p + 1) \div ChunkSize = p \div ChunkSize
              /\ (p + 1) % ChunkSize = (p % ChunkSize) + 1
         /\ (p % ChunkSize) + 1 = ChunkSize =>
              /\ (p + 1) \div ChunkSize = (p \div ChunkSize) + 1
              /\ (p + 1) % ChunkSize = 0
<1>1. CASE (p % ChunkSize) + 1 < ChunkSize
  BY <1>1, ChunkSizeIs
<1>2. CASE (p % ChunkSize) + 1 = ChunkSize
  <2>1. ASSUME NEW c \in Nat, c > 0, (p % c) + 1 = c
        PROVE  (p + 1) \div c = (p \div c) + 1 /\ (p + 1) % c = 0
    BY <2>1
  <2>2. ~((p % ChunkSize) + 1 < ChunkSize)
    BY <1>2, ChunkSizeIs
  <2> QED BY <1>2, <2>1, <2>2, ChunkSizeIs
<1> QED BY <1>1, <1>2, Place

(* It is one chunk nearer when the first chunk is gone.                     *)
LEMMA PlaceShift ==
  ASSUME NEW p \in Nat
  PROVE  /\ (p + ChunkSize) \div ChunkSize = (p \div ChunkSize) + 1
         /\ (p + ChunkSize) % ChunkSize = p % ChunkSize
<1>1. ASSUME NEW c \in Nat, c > 0
      PROVE  (p + c) \div c = (p \div c) + 1 /\ (p + c) % c = p % c
  BY <1>1
<1> QED BY <1>1, ChunkSizeIs

(* A byte before another is in the same chunk, before it, or in an earlier  *)
(* one.                                                                     *)
LEMMA PlaceOrder ==
  ASSUME NEW p \in Nat, NEW q \in Nat, p <= q
  PROVE  /\ p \div ChunkSize <= q \div ChunkSize
         /\ p \div ChunkSize = q \div ChunkSize => p % ChunkSize <= q % ChunkSize
<1>1. p \div ChunkSize <= q \div ChunkSize
  BY ChunkSizeIs
<1>2. ASSUME p \div ChunkSize = q \div ChunkSize
      PROVE  p % ChunkSize <= q % ChunkSize
  <2>1. p = ChunkSize * (p \div ChunkSize) + (p % ChunkSize)
    BY ChunkSizeIs
  <2>2. q = ChunkSize * (q \div ChunkSize) + (q % ChunkSize)
    BY ChunkSizeIs
  <2> QED BY <1>2, <2>1, <2>2, ChunkSizeIs
<1> QED BY <1>1, <1>2

-----------------------------------------------------------------------------
(* The states of a DataStream between two bytes.                            *)
Address == Nat \ {NULL}
Chunk == [data : Seq(Byte), first : Nat]
Heap == UNION {[A -> Chunk] : A \in SUBSET Address}
Stream == [heap : Heap, firstBuf : Nat, bufQ : Seq(Address), lastBuf : Nat,
           busy : Nat, eof : BOOLEAN]

At(d, i) == d.heap[Chain(d)[i]]

(* The chunks of the chain are the ones that are not deleted, each is in it *)
(* once, and lastBuf is the last.                                           *)
Linked(d) ==
  LET n == Len(Chain(d))
  IN /\ \A i, j \in 1..n : Chain(d)[i] = Chain(d)[j] => i = j
     /\ DOMAIN d.heap = {Chain(d)[i] : i \in 1..n}
     /\ n = 0 => d.lastBuf = NULL
     /\ n > 0 => d.lastBuf = Chain(d)[n]

(* All of them but the last are full, and only firstBuf was read from.      *)
Filled(d) ==
  LET n == Len(Chain(d))
  IN \A i \in 1..n :
       /\ At(d, i).first <= Len(At(d, i).data)
       /\ i < n => Len(At(d, i).data) = ChunkSize
       /\ i > 1 \/ d.firstBuf = NULL => At(d, i).first = 0

(* busy is the number of bytes from the first unread one to the last.       *)
EndOf(d) == StartOf(d) + d.busy
Counted(d) ==
  LET n == Len(Chain(d))
  IN /\ n = 0 => d.busy = 0
     /\ n > 0 => /\ EndOf(d) > 0
                 /\ n = ((EndOf(d) - 1) \div ChunkSize) + 1
                 /\ Len(At(d, n).data) = ((EndOf(d) - 1) % ChunkSize) + 1

StreamOK(d) == d \in Stream /\ Linked(d) /\ Filled(d) /\ Counted(d)

(* A heap is a function from addresses to chunks.                           *)
LEMMA HeapIs ==
  ASSUME NEW h \in Heap
  PROVE  /\ DOMAIN h \subseteq Address
         /\ \A a \in DOMAIN h : h[a] \in Chunk
         /\ h \in [DOMAIN h -> Chunk]
<1>1. PICK A \in SUBSET Address : h \in [A -> Chunk]
  BY DEF Heap
<1> QED BY <1>1

(* Chunks at a set of addresses are a heap.                                 *)
LEMMA HeapMade ==
  ASSUME NEW A \in SUBSET Address, NEW h \in [A -> Chunk]
  PROVE  h \in Heap
BY DEF Heap

(* The chain is firstBuf, if there is one, and bufQ.                        *)
LEMMA ChainIs ==
  ASSUME NEW d \in Stream
  PROVE  /\ Chain(d) \in Seq(Address)
         /\ d.firstBuf = NULL => Chain(d) = d.bufQ
         /\ d.firstBuf # NULL =>
              /\ Len(Chain(d)) = Len(d.bufQ) + 1
              /\ Chain(d)[1] = d.firstBuf
              /\ \A i \in 1..Len(d.bufQ) : Chain(d)[i + 1] = d.bufQ[i]
<1>1. d.bufQ \in Seq(Address) /\ d.firstBuf \in Nat
  BY DEF Stream
<1>2. CASE d.firstBuf = NULL
  BY <1>1, <1>2 DEF Chain
<1>3. CASE d.firstBuf # NULL
  <2>1. <<d.firstBuf>> \in Seq(Address) /\ Len(<<d.firstBuf>>) = 1
    BY <1>1, <1>3 DEF Address
  <2>2. Chain(d) = <<d.firstBuf>> \o d.bufQ
    BY <1>3 DEF Chain
  <2> QED BY <1>1, <1>3, <2>1, <2>2
<1> QED BY <1>2, <1>3

(* What is at a place of the chain is a chunk.                              *)
LEMMA ChunkAt ==
  ASSUME NEW d, StreamOK(d), NEW i \in 1..Len(Chain(d))
  PROVE  /\ Chain(d)[i] \in DOMAIN d.heap
         /\ Chain(d)[i] \in Address
         /\ At(d, i) \in Chunk
         /\ At(d, i).data \in Seq(Byte) /\ At(d, i).first \in Nat
<1>1. d.heap \in Heap /\ d \in Stream
  BY DEF StreamOK, Stream
<1>2. Chain(d)[i] \in DOMAIN d.heap
  BY DEF StreamOK, Linked
<1>3. Chain(d)[i] \in Address
  BY <1>1, ChainIs
<1>4. At(d, i) \in Chunk
  BY <1>1, <1>2, HeapIs DEF At
<1> QED BY <1>2, <1>3, <1>4 DEF Chunk

-----------------------------------------------------------------------------
(* PutByte writes to lastBuf while it has room ...                          *)
LEMMA PutByteRoom ==
  ASSUME NEW d \in Stream, NEW b \in Byte, d.lastBuf # NULL, d.lastBuf \in DOMAIN d.heap,
         Len(d.heap[d.lastBuf].data) # ChunkSize
  PROVE  LET e == PutByte(d, b)
             l == d.lastBuf
         IN /\ e \in Stream
            /\ e.firstBuf = d.firstBuf /\ e.bufQ = d.bufQ /\ e.lastBuf = l
            /\ e.busy = d.busy + 1 /\ e.eof = d.eof
            /\ DOMAIN e.heap = DOMAIN d.heap
            /\ e.heap[l].data = Append(d.heap[l].data, b) /\ e.heap[l].first = d.heap[l].first
            /\ \A a \in DOMAIN d.heap : a # l => e.heap[a] = d.heap[a]
<1> DEFINE l == d.lastBuf
           c == d.heap[l]
           w == [c EXCEPT !.data = Append(@, b)]
           h == [d.heap EXCEPT ![l] = w]
           e == [d EXCEPT !.heap = h, !.busy = @ + 1]
<1>1. PutByte(d, b) = e
  BY DEF PutByte, Stream
<1>2. d.heap \in [DOMAIN d.heap -> Chunk] /\ DOMAIN d.heap \in SUBSET Address
  BY HeapIs DEF Stream
<1>3. c \in Chunk /\ c.data \in Seq(Byte) /\ c.first \in Nat
  BY <1>2 DEF Chunk
<1> HIDE DEF c
<1>4. w \in Chunk /\ w.data = Append(c.data, b) /\ w.first = c.first
  BY <1>3 DEF Chunk
<1> HIDE DEF w
<1>5. /\ h \in [DOMAIN d.heap -> Chunk] /\ h[l] = w
      /\ \A a \in DOMAIN d.heap : a # l => h[a] = d.heap[a]
  BY <1>2, <1>4
<1>6. h \in Heap /\ DOMAIN h = DOMAIN d.heap
  BY <1>2, <1>5, HeapMade
<1> HIDE DEF h
<1>7. e \in Stream
  <2>1. d.busy + 1 \in Nat
    BY DEF Stream
  <2> QED BY <1>6, <2>1, Zenon DEF Stream
<1>8. /\ e.heap = h
      /\ e.firstBuf = d.firstBuf /\ e.bufQ = d.bufQ /\ e.lastBuf = l
      /\ e.busy = d.busy + 1 /\ e.eof = d.eof
  BY <1>6 DEF Stream
<1> HIDE DEF e
<1> QED BY <1>1, <1>4, <1>5, <1>6, <1>7, <1>8 DEF c

(* ... and begins a chunk at a free address otherwise.                      *)
LEMMA PutByteFull ==
  ASSUME NEW d \in Stream, NEW b \in Byte,
         d.lastBuf = NULL \/ Len(d.heap[d.lastBuf].data) = ChunkSize,
         \E x \in 1..(Len(d.bufQ) + 2) : x \notin DOMAIN d.heap
  PROVE  LET e == PutByte(d, b)
             a == e.lastBuf
         IN /\ e \in Stream /\ a \in Address /\ a \notin DOMAIN d.heap
            /\ e.firstBuf = d.firstBuf /\ e.bufQ = Append(d.bufQ, a)
            /\ e.busy = d.busy + 1 /\ e.eof = d.eof
            /\ DOMAIN e.heap = DOMAIN d.heap \cup {a}
            /\ e.heap[a].data = <<b>> /\ e.heap[a].first = 0
            /\ \A x \in DOMAIN d.heap : e.heap[x] = d.heap[x]
<1> DEFINE a == CHOOSE a \in 1..(Len(d.bufQ) + 2) : a \notin DOMAIN d.heap
           c == [data |-> <<>>, first |-> 0]
           h == [x \in DOMAIN d.heap \cup {a} |-> IF x = a THEN c ELSE d.heap[x]]
           f == [d EXCEPT !.heap = h, !.bufQ = Append(@, a), !.lastBuf = a]
           w == [c EXCEPT !.data = Append(@, b)]
           k == [h EXCEPT ![a] = w]
           e == [f EXCEPT !.heap = k, !.busy = @ + 1]
<1>1. a \in 1..(Len(d.bufQ) + 2) /\ a \notin DOMAIN d.heap
  BY Zenon
<1>2. d.bufQ \in Seq(Address) /\ d.heap \in Heap
  BY DEF Stream
<1>3. a \in Address
  BY <1>1, <1>2 DEF Address, NULL
<1>4. NewChunk(d) = f
  BY DEF NewChunk
<1> HIDE DEF a
<1>5. d.heap \in [DOMAIN d.heap -> Chunk] /\ DOMAIN d.heap \in SUBSET Address
  BY <1>2, HeapIs
<1>6. c \in Chunk /\ c.data = <<>> /\ c.first = 0
  BY DEF Chunk
<1>7. w \in Chunk /\ w.data = <<b>> /\ w.first = 0
  <2>1. Append(<<>>, b) = <<b>> /\ <<b>> \in Seq(Byte)
    OBVIOUS
  <2> QED BY <1>6, <2>1 DEF Chunk
<1> HIDE DEF w
<1>8. /\ h \in [DOMAIN d.heap \cup {a} -> Chunk] /\ h[a] = c
      /\ \A x \in DOMAIN d.heap : h[x] = d.heap[x]
  BY <1>1, <1>5, <1>6
<1> HIDE DEF h
<1>9. /\ k \in [DOMAIN d.heap \cup {a} -> Chunk] /\ k[a] = w
      /\ \A x \in DOMAIN d.heap : k[x] = d.heap[x]
  BY <1>1, <1>7, <1>8
<1>10. k \in Heap /\ h \in Heap /\ DOMAIN k = DOMAIN d.heap \cup {a}
  BY <1>3, <1>5, <1>8, <1>9, HeapMade
<1>11. f \in Stream
  <2>1. a \in Nat /\ Append(d.bufQ, a) \in Seq(Address)
    BY <1>2, <1>3 DEF Address
  <2> QED BY <1>10, <2>1, Zenon DEF Stream
<1>12. /\ f.heap = h /\ f.lastBuf = a /\ f.bufQ = Append(d.bufQ, a)
       /\ f.busy = d.busy /\ f.firstBuf = d.firstBuf /\ f.eof = d.eof
  BY DEF Stream
<1>13. PutByte(d, b) = e
  <2>1. PutByte(d, b) = [f EXCEPT !.heap[f.lastBuf].data = Append(@, b), !.busy = @ + 1]
    BY <1>4 DEF PutByte
  <2>2. [f EXCEPT !.heap[f.lastBuf].data = Append(@, b), !.busy = @ + 1]
          = [f EXCEPT !.heap = [h EXCEPT ![a] = [c EXCEPT !.data = Append(@, b)]], !.busy = @ + 1]
    <3> HIDE DEF f, c
    <3> QED BY <1>8, <1>11, <1>12 DEF Stream
  <2> QED BY <2>1, <2>2 DEF w
<1> HIDE DEF f, k
<1>14. e \in Stream
  <2>1. f.busy + 1 \in Nat
    BY <1>11 DEF Stream
  <2> QED BY <1>10, <1>11, <2>1, Zenon DEF Stream
<1>15. /\ e.heap = k /\ e.lastBuf = a /\ e.bufQ = Append(d.bufQ, a)
       /\ e.busy = d.busy + 1 /\ e.firstBuf = d.firstBuf /\ e.eof = d.eof
  BY <1>11, <1>12 DEF Stream
<1> HIDE DEF e
<1> QED BY <1>1, <1>3, <1>7, <1>9, <1>10, <1>13, <1>14, <1>15

(* There are n numbers from 1 to n.                                         *)
LEMMA IntervalSize ==
  ASSUME NEW n \in Nat
  PROVE  IsFiniteSet(1..n) /\ Cardinality(1..n) = n
<1>1. 1 \in Int /\ n \in Int
  OBVIOUS
<1>2. /\ IsFiniteSet(1..n)
      /\ Cardinality(1..n) = IF 1 > n THEN 0 ELSE n - 1 + 1
  BY <1>1, FS_Interval, Zenon
<1> QED BY <1>2

(* A function on 1..n is a sequence of length n.                            *)
LEMMA SeqMade ==
  ASSUME NEW S, NEW n \in Nat, NEW f \in [1..n -> S]
  PROVE  f \in Seq(S) /\ Len(f) = n
OBVIOUS

(* A sequence and one more element.                                         *)
LEMMA SeqAppend ==
  ASSUME NEW S, NEW s \in Seq(S), NEW b \in S
  PROVE  /\ Append(s, b) \in Seq(S) /\ Append(s, b) # <<>>
         /\ Len(Append(s, b)) = Len(s) + 1 /\ Len(s) \in Nat
         /\ Append(s, b) = s \o <<b>> /\ <<b>> \in Seq(S)
         /\ \A t \in Seq(S) : Append(s, b) \o t = s \o (<<b>> \o t)
<1>1. /\ Append(s, b) \in Seq(S) /\ Append(s, b) # <<>>
      /\ Len(Append(s, b)) = Len(s) + 1 /\ Len(s) \in Nat
  OBVIOUS
<1>2. Append(s, b) = s \o <<b>> /\ <<b>> \in Seq(S)
  OBVIOUS
<1>3. ASSUME NEW t \in Seq(S) PROVE Append(s, b) \o t = s \o (<<b>> \o t)
  BY <1>2, ConcatAssociative
<1> QED BY <1>1, <1>2, <1>3

(* There is always a free address: the chain is no longer than bufQ and     *)
(* firstBuf.                                                                *)
LEMMA FreeAddress ==
  ASSUME NEW d, StreamOK(d)
  PROVE  \E x \in 1..(Len(d.bufQ) + 2) : x \notin DOMAIN d.heap
<1> DEFINE n == Len(Chain(d))
           m == Len(d.bufQ)
<1>1. d \in Stream /\ DOMAIN d.heap = {Chain(d)[i] : i \in 1..n}
  BY DEF StreamOK, Linked
<1>2. n \in Nat /\ m \in Nat /\ n <= m + 1
  <2>1. d.bufQ \in Seq(Address) /\ Chain(d) \in Seq(Address)
    BY <1>1, ChainIs DEF Stream
  <2> QED BY <1>1, <2>1, ChainIs
<1>3. IsFiniteSet(1..n) /\ Cardinality(1..n) = n
  BY <1>2, IntervalSize
<1>4. IsFiniteSet(1..(m + 2)) /\ Cardinality(1..(m + 2)) = m + 2
  <2>1. m + 2 \in Nat
    BY <1>2
  <2> QED BY <2>1, IntervalSize
<1>5. IsFiniteSet(DOMAIN d.heap) /\ Cardinality(DOMAIN d.heap) <= n
  <2> DEFINE f == [i \in 1..n |-> Chain(d)[i]]
  <2>1. f \in Surjection(1..n, DOMAIN d.heap)
    BY <1>1 DEF Surjection
  <2> HIDE DEF f, n
  <2> QED BY <1>3, <2>1, FS_Surjection
<1>6. ASSUME 1..(m + 2) \subseteq DOMAIN d.heap PROVE FALSE
  <2>1. Cardinality(1..(m + 2)) <= Cardinality(DOMAIN d.heap)
    BY <1>5, <1>6, FS_Subset
  <2>2. Cardinality(DOMAIN d.heap) \in Nat
    BY <1>5, FS_CardinalityType
  <2> QED BY <1>2, <1>4, <1>5, <2>1, <2>2
<1> QED BY <1>6

(* Where the first unread byte is.                                          *)
LEMMA StartIs ==
  ASSUME NEW d, StreamOK(d)
  PROVE  /\ StartOf(d) \in Nat /\ EndOf(d) \in Nat /\ d.busy \in Nat
         /\ Len(Chain(d)) \in Nat
         /\ Len(Chain(d)) = 0 => Chain(d) = <<>> /\ StartOf(d) = 0 /\ d.busy = 0
         /\ Len(Chain(d)) > 0 => StartOf(d) = At(d, 1).first
         /\ EndOf(d) = StartOf(d) + d.busy
<1>1. Chain(d) \in Seq(Address) /\ d.busy \in Nat
  BY ChainIs DEF StreamOK, Stream
<1>2. Len(Chain(d)) = 0 => Chain(d) = <<>> /\ StartOf(d) = 0 /\ d.busy = 0
  BY <1>1 DEF StartOf, StreamOK, Counted
<1>3. Len(Chain(d)) > 0 => StartOf(d) = At(d, 1).first /\ StartOf(d) \in Nat
  <2> SUFFICES ASSUME Len(Chain(d)) > 0
               PROVE  StartOf(d) = At(d, 1).first /\ StartOf(d) \in Nat
    OBVIOUS
  <2>1. 1 \in 1..Len(Chain(d)) /\ Chain(d) # <<>>
    BY <1>1
  <2> QED BY <2>1, ChunkAt DEF StartOf, At
<1> QED BY <1>1, <1>2, <1>3 DEF EndOf

(* An unread byte is in a chunk of the chain.                               *)
LEMMA ByteIs ==
  ASSUME NEW d, StreamOK(d), NEW p \in Nat, p < EndOf(d)
  PROVE  LET k == (p \div ChunkSize) + 1
         IN /\ k \in 1..Len(Chain(d))
            /\ (p % ChunkSize) + 1 \in 1..Len(At(d, k).data)
            /\ ByteAt(d, p) = At(d, k).data[(p % ChunkSize) + 1]
            /\ ByteAt(d, p) \in Byte
<1> DEFINE k == (p \div ChunkSize) + 1
           o == (p % ChunkSize) + 1
           n == Len(Chain(d))
           q == EndOf(d) - 1
<1>1. n \in Nat /\ n > 0 /\ EndOf(d) \in Nat /\ q \in Nat /\ p <= q
  BY StartIs
<1>2. n = (q \div ChunkSize) + 1 /\ Len(At(d, n).data) = (q % ChunkSize) + 1
  BY <1>1 DEF StreamOK, Counted
<1>3. /\ p \div ChunkSize \in Nat /\ p % ChunkSize \in Nat /\ p % ChunkSize < ChunkSize
      /\ q \div ChunkSize \in Nat /\ q % ChunkSize \in Nat
  BY <1>1, Place
<1>4. /\ p \div ChunkSize <= q \div ChunkSize
      /\ p \div ChunkSize = q \div ChunkSize => p % ChunkSize <= q % ChunkSize
  BY <1>1, PlaceOrder
<1>5. k \in 1..n /\ (k = n => o <= Len(At(d, n).data)) /\ o \in Nat /\ o >= 1 /\ o <= ChunkSize
  <2> HIDE DEF q
  <2> QED BY <1>1, <1>2, <1>3, <1>4, ChunkSizeIs
<1>6. At(d, k).data \in Seq(Byte)
  BY <1>5, ChunkAt
<1>7. k < n => Len(At(d, k).data) = ChunkSize
  BY <1>5 DEF StreamOK, Filled
<1>8. o \in 1..Len(At(d, k).data)
  <2> HIDE DEF k, o, n, q
  <2> QED BY <1>1, <1>5, <1>6, <1>7
<1>9. ByteAt(d, p) = At(d, k).data[o]
  BY DEF ByteAt, At
<1> HIDE DEF k, o
<1> QED BY <1>5, <1>6, <1>8, <1>9 DEF k, o

(* The content is a sequence of bytes, busy of them.                        *)
LEMMA ContentIs ==
  ASSUME NEW d, StreamOK(d)
  PROVE  /\ Content(d) \in Seq(Byte) /\ Len(Content(d)) = d.busy /\ d.busy \in Nat
         /\ \A i \in 1..d.busy : Content(d)[i] = ByteAt(d, StartOf(d) + i - 1)
<1>1. d.busy \in Nat /\ StartOf(d) \in Nat /\ EndOf(d) = StartOf(d) + d.busy
  BY StartIs
<1>2. ASSUME NEW i \in 1..d.busy PROVE ByteAt(d, StartOf(d) + i - 1) \in Byte
  <2>1. StartOf(d) + i - 1 \in Nat /\ StartOf(d) + i - 1 < EndOf(d)
    BY <1>1
  <2> QED BY <2>1, ByteIs
<1>3. Content(d) \in [1..d.busy -> Byte]
  BY <1>2 DEF Content
<1> QED BY <1>1, <1>3, SeqMade DEF Content

-----------------------------------------------------------------------------
(* The content has grown by a byte when the bytes before it are unchanged.  *)
LEMMA ContentGrows ==
  ASSUME NEW d, StreamOK(d), NEW e, StreamOK(e), NEW b \in Byte,
         e.busy = d.busy + 1, StartOf(e) = StartOf(d),
         \A i \in 1..d.busy : ByteAt(e, StartOf(d) + i - 1) = ByteAt(d, StartOf(d) + i - 1),
         ByteAt(e, StartOf(d) + d.busy) = b
  PROVE  Content(e) = Append(Content(d), b)
<1>1. /\ Content(d) \in Seq(Byte) /\ Len(Content(d)) = d.busy /\ d.busy \in Nat
      /\ \A i \in 1..d.busy : Content(d)[i] = ByteAt(d, StartOf(d) + i - 1)
  BY ContentIs
<1>2. /\ Content(e) \in Seq(Byte) /\ Len(Content(e)) = d.busy + 1
      /\ \A i \in 1..(d.busy + 1) : Content(e)[i] = ByteAt(e, StartOf(d) + i - 1)
  BY ContentIs
<1>3. ASSUME NEW i \in 1..(d.busy + 1) PROVE Content(e)[i] = Append(Content(d), b)[i]
  <2>1. CASE i \in 1..d.busy
    <3>1. Content(e)[i] = ByteAt(d, StartOf(d) + i - 1)
      BY <1>2, <2>1
    <3>2. Append(Content(d), b)[i] = Content(d)[i]
      BY <1>1, <2>1
    <3> QED BY <1>1, <2>1, <3>1, <3>2
  <2>2. CASE i = d.busy + 1
    <3>1. StartOf(d) + i - 1 = StartOf(d) + d.busy
      BY <1>1, <2>2, StartIs
    <3>2. Content(e)[i] = b
      BY <1>2, <3>1
    <3>3. Append(Content(d), b)[i] = b
      BY <1>1, <2>2
    <3> QED BY <3>2, <3>3
  <2>3. i \in 1..d.busy \/ i = d.busy + 1
    BY <1>1
  <2> QED BY <2>1, <2>2, <2>3, Zenon
<1>4. Append(Content(d), b) \in Seq(Byte) /\ Len(Append(Content(d), b)) = d.busy + 1
  BY <1>1
<1> QED BY <1>2, <1>3, <1>4

(* A byte put where lastBuf has room is the last of the content.            *)
LEMMA PutRoom ==
  ASSUME NEW d, StreamOK(d), NEW b \in Byte,
         d.lastBuf # NULL, Len(d.heap[d.lastBuf].data) # ChunkSize
  PROVE  /\ StreamOK(PutByte(d, b))
         /\ PutByte(d, b).eof = d.eof
         /\ Content(PutByte(d, b)) = Append(Content(d), b)
<1> DEFINE e == PutByte(d, b)
           q == Chain(d)
           n == Len(q)
           l == d.lastBuf
           p == EndOf(d) - 1
<1>1. d \in Stream /\ Linked(d) /\ Filled(d) /\ Counted(d)
  BY DEF StreamOK
<1>2. /\ n \in Nat /\ n > 0 /\ EndOf(d) \in Nat /\ p \in Nat /\ StartOf(d) \in Nat
      /\ d.busy \in Nat /\ EndOf(d) = StartOf(d) + d.busy
  BY <1>1, StartIs DEF Linked, Counted
<1>3. n \in 1..n /\ 1 \in 1..n /\ l = q[n] /\ l \in DOMAIN d.heap
  BY <1>1, <1>2 DEF Linked
<1>4. /\ e \in Stream
      /\ e.firstBuf = d.firstBuf /\ e.bufQ = d.bufQ /\ e.lastBuf = l
      /\ e.busy = d.busy + 1 /\ e.eof = d.eof
      /\ DOMAIN e.heap = DOMAIN d.heap
      /\ e.heap[l].data = Append(d.heap[l].data, b) /\ e.heap[l].first = d.heap[l].first
      /\ \A a \in DOMAIN d.heap : a # l => e.heap[a] = d.heap[a]
  BY <1>1, <1>3, PutByteRoom
<1> HIDE DEF e
<1>5. Chain(e) = q
  BY <1>4 DEF Chain
<1>6. /\ At(e, n).data = Append(At(d, n).data, b) /\ At(e, n).first = At(d, n).first
      /\ \A i \in 1..n : i # n => At(e, i) = At(d, i)
  <2>1. ASSUME NEW i \in 1..n, i # n PROVE At(e, i) = At(d, i)
    <3>1. q[i] # l /\ q[i] \in DOMAIN d.heap
      BY <1>1, <1>3, <2>1 DEF Linked
    <3> QED BY <1>4, <1>5, <3>1 DEF At
  <2> QED BY <1>3, <1>4, <1>5, <2>1 DEF At
<1>7. At(d, n).data \in Seq(Byte) /\ At(d, n).data = d.heap[l].data
  BY <1>3, ChunkAt DEF At
<1>8. Len(At(e, n).data) = Len(At(d, n).data) + 1
  BY <1>6, <1>7
<1>9. \A i \in 1..n : At(e, i).first = At(d, i).first
  BY <1>6
<1>10. StartOf(e) = StartOf(d) /\ EndOf(e) = EndOf(d) + 1
  <2>1. q # <<>>
    BY <1>1, <1>2
  <2>2. StartOf(e) = StartOf(d)
    BY <1>3, <1>5, <1>9, <2>1 DEF StartOf, At
  <2> QED BY <1>2, <1>4, <2>2 DEF EndOf
<1>11. /\ n = (p \div ChunkSize) + 1 /\ Len(At(d, n).data) = (p % ChunkSize) + 1
       /\ p % ChunkSize \in Nat /\ (p % ChunkSize) + 1 < ChunkSize
  <2>1. n = (p \div ChunkSize) + 1 /\ Len(At(d, n).data) = (p % ChunkSize) + 1
    BY <1>1, <1>2 DEF Counted
  <2>2. p % ChunkSize \in Nat /\ p % ChunkSize < ChunkSize
    BY <1>2, Place
  <2>3. (p % ChunkSize) + 1 # ChunkSize
    BY <1>7, <2>1
  <2> HIDE DEF p, n
  <2> QED BY <2>1, <2>2, <2>3, ChunkSizeIs
<1>12. /\ (p + 1) \div ChunkSize = p \div ChunkSize
       /\ (p + 1) % ChunkSize = (p % ChunkSize) + 1
  BY <1>2, <1>11, PlaceNext
<1>13. p + 1 = EndOf(d) /\ p + 1 = EndOf(e) - 1
  BY <1>2, <1>10
<1>14. Linked(e)
  BY <1>1, <1>4, <1>5 DEF Linked
<1>15. Filled(e)
  <2> SUFFICES ASSUME NEW i \in 1..n
               PROVE  /\ At(e, i).first <= Len(At(e, i).data)
                      /\ i < n => Len(At(e, i).data) = ChunkSize
                      /\ i > 1 \/ e.firstBuf = NULL => At(e, i).first = 0
    BY <1>5 DEF Filled
  <2>1. /\ At(d, i).first <= Len(At(d, i).data)
        /\ i < n => Len(At(d, i).data) = ChunkSize
        /\ i > 1 \/ d.firstBuf = NULL => At(d, i).first = 0
    BY <1>1 DEF Filled
  <2>2. At(d, i).first \in Nat /\ At(d, i).data \in Seq(Byte)
    BY ChunkAt
  <2>3. At(e, i).first = At(d, i).first /\ e.firstBuf = d.firstBuf
    BY <1>4, <1>9
  <2>4. CASE i = n
    BY <1>2, <1>8, <2>1, <2>2, <2>3, <2>4
  <2>5. CASE i # n
    BY <1>6, <2>1, <2>3, <2>5
  <2> QED BY <2>4, <2>5
<1>16. Counted(e)
  <2>1. EndOf(e) > 0
    BY <1>2, <1>10
  <2> HIDE DEF p, n
  <2> QED BY <1>2, <1>5, <1>8, <1>11, <1>12, <1>13, <2>1 DEF Counted, n
<1>17. StreamOK(e)
  BY <1>4, <1>14, <1>15, <1>16 DEF StreamOK
<1>18. ASSUME NEW i \in 1..d.busy
       PROVE  ByteAt(e, StartOf(d) + i - 1) = ByteAt(d, StartOf(d) + i - 1)
  <2> DEFINE r == StartOf(d) + i - 1
             k == (r \div ChunkSize) + 1
             o == (r % ChunkSize) + 1
  <2>1. r \in Nat /\ r < EndOf(d) /\ r < EndOf(e)
    BY <1>2, <1>10
  <2>2. k \in 1..n /\ o \in 1..Len(At(d, k).data) /\ ByteAt(d, r) = At(d, k).data[o]
    BY <2>1, ByteIs
  <2>3. ByteAt(e, r) = At(e, k).data[o]
    BY <1>17, <2>1, ByteIs
  <2>4. At(d, k).data \in Seq(Byte)
    BY <2>2, ChunkAt
  <2> HIDE DEF k, o, r
  <2>5. CASE k = n
    BY <1>6, <2>2, <2>3, <2>4, <2>5 DEF r
  <2>6. CASE k # n
    BY <1>6, <2>2, <2>3, <2>6 DEF r
  <2> QED BY <2>5, <2>6
<1>19. ByteAt(e, StartOf(d) + d.busy) = b
  <2>1. StartOf(d) + d.busy = p + 1
    BY <1>2
  <2>2. ByteAt(e, p + 1) = At(e, n).data[(p % ChunkSize) + 2]
    <3>1. ByteAt(e, p + 1) = At(e, ((p + 1) \div ChunkSize) + 1).data[((p + 1) % ChunkSize) + 1]
      BY DEF ByteAt, At
    <3>2. ((p + 1) % ChunkSize) + 1 = (p % ChunkSize) + 2
      BY <1>11, <1>12
    <3>3. ((p + 1) \div ChunkSize) + 1 = n
      BY <1>11, <1>12
    <3> QED BY <3>1, <3>2, <3>3
  <2>3. (p % ChunkSize) + 2 = Len(At(d, n).data) + 1
    BY <1>11
  <2> QED BY <1>6, <1>7, <2>1, <2>2, <2>3
<1>20. Content(e) = Append(Content(d), b)
  BY <1>2, <1>4, <1>10, <1>17, <1>18, <1>19, ContentGrows
<1> QED BY <1>4, <1>17, <1>20 DEF e

(* A byte put in a new chunk is the last of the content.                    *)
LEMMA PutFull ==
  ASSUME NEW d, StreamOK(d), NEW b \in Byte,
         d.lastBuf = NULL \/ Len(d.heap[d.lastBuf].data) = ChunkSize
  PROVE  /\ StreamOK(PutByte(d, b))
         /\ PutByte(d, b).eof = d.eof
         /\ Content(PutByte(d, b)) = Append(Content(d), b)
<1> DEFINE e == PutByte(d, b)
           q == Chain(d)
           n == Len(q)
           a == e.lastBuf
<1>1. d \in Stream /\ Linked(d) /\ Filled(d) /\ Counted(d)
  BY DEF StreamOK
<1>2. /\ n \in Nat /\ EndOf(d) \in Nat /\ StartOf(d) \in Nat /\ q \in Seq(Address)
      /\ d.busy \in Nat /\ EndOf(d) = StartOf(d) + d.busy /\ d.bufQ \in Seq(Address)
  BY <1>1, StartIs, ChainIs DEF Stream
<1>3. /\ e \in Stream /\ a \in Address /\ a \notin DOMAIN d.heap
      /\ e.firstBuf = d.firstBuf /\ e.bufQ = Append(d.bufQ, a)
      /\ e.busy = d.busy + 1 /\ e.eof = d.eof
      /\ DOMAIN e.heap = DOMAIN d.heap \cup {a}
      /\ e.heap[a].data = <<b>> /\ e.heap[a].first = 0
      /\ \A x \in DOMAIN d.heap : e.heap[x] = d.heap[x]
  BY <1>1, FreeAddress, PutByteFull
<1> HIDE DEF e
<1>4. /\ Chain(e) \in Seq(Address) /\ Len(Chain(e)) = n + 1 /\ Chain(e)[n + 1] = a
      /\ \A i \in 1..n : Chain(e)[i] = q[i]
  <2>1. CASE d.firstBuf = NULL
    BY <1>2, <1>3, <2>1 DEF Chain
  <2>2. CASE d.firstBuf # NULL
    <3>1. /\ Len(q) = Len(d.bufQ) + 1 /\ q[1] = d.firstBuf
          /\ \A i \in 1..Len(d.bufQ) : q[i + 1] = d.bufQ[i]
      BY <1>1, <2>2, ChainIs
    <3>2. /\ Chain(e) \in Seq(Address)
          /\ Len(Chain(e)) = Len(e.bufQ) + 1 /\ Chain(e)[1] = d.firstBuf
          /\ \A i \in 1..Len(e.bufQ) : Chain(e)[i + 1] = e.bufQ[i]
      BY <1>3, <2>2, ChainIs
    <3>3. /\ Len(e.bufQ) = n /\ e.bufQ[n] = a
          /\ \A i \in 1..Len(d.bufQ) : e.bufQ[i] = d.bufQ[i]
      BY <1>2, <1>3, <3>1
    <3>4. ASSUME NEW i \in 1..n PROVE Chain(e)[i] = q[i]
      <4>1. CASE i = 1
        BY <3>1, <3>2, <4>1
      <4>2. CASE i # 1
        <5>1. i - 1 \in 1..Len(d.bufQ) /\ i - 1 \in 1..Len(e.bufQ) /\ (i - 1) + 1 = i
          BY <1>2, <3>1, <3>3, <4>2
        <5> QED BY <3>1, <3>2, <3>3, <5>1
      <4> QED BY <4>1, <4>2
    <3>5. n \in 1..Len(e.bufQ)
      BY <1>2, <3>1, <3>3
    <3> QED BY <3>2, <3>3, <3>4, <3>5
  <2> QED BY <2>1, <2>2
<1>5. /\ At(e, n + 1).data = <<b>> /\ At(e, n + 1).first = 0 /\ Len(At(e, n + 1).data) = 1
      /\ \A i \in 1..n : At(e, i) = At(d, i) /\ Chain(d)[i] \in DOMAIN d.heap
  <2>1. ASSUME NEW i \in 1..n PROVE At(e, i) = At(d, i) /\ Chain(d)[i] \in DOMAIN d.heap
    BY <1>3, <1>4, ChunkAt DEF At
  <2>2. At(e, n + 1) = e.heap[a]
    BY <1>4 DEF At
  <2>3. Len(<<b>>) = 1
    OBVIOUS
  <2> HIDE DEF n, a
  <2> QED BY <1>3, <2>1, <2>2, <2>3
<1>6. \A i \in 1..n : Len(At(d, i).data) = ChunkSize
  <2> SUFFICES ASSUME NEW i \in 1..n PROVE Len(At(d, i).data) = ChunkSize
    OBVIOUS
  <2>1. CASE i < n
    BY <1>1, <2>1 DEF Filled
  <2>2. CASE i = n
    <3>1. d.lastBuf = q[n] /\ q[n] \in Address
      BY <1>1, <1>2, <2>2 DEF Linked
    <3> QED BY <2>2, <3>1 DEF At, Address
  <2> QED BY <1>2, <2>1, <2>2
<1>7. StartOf(e) = StartOf(d)
  <2>1. Chain(e) # <<>> /\ StartOf(e) = At(e, 1).first
    BY <1>2, <1>4 DEF StartOf, At
  <2>2. CASE n = 0
    BY <1>5, <2>1, <2>2, StartIs
  <2>3. CASE n > 0
    BY <1>2, <1>5, <2>1, <2>3, StartIs
  <2> QED BY <1>2, <2>2, <2>3
<1>8. EndOf(e) = EndOf(d) + 1
  BY <1>2, <1>3, <1>7 DEF EndOf
<1>9. EndOf(d) \div ChunkSize = n /\ EndOf(d) % ChunkSize = 0
  <2>1. CASE n = 0
    <3>1. EndOf(d) = 0
      BY <1>2, <2>1, StartIs
    <3> QED BY <2>1, <3>1, PlaceFirst, ChunkSizeIs
  <2>2. CASE n > 0
    <3> DEFINE p == EndOf(d) - 1
    <3>1. /\ p \in Nat /\ p + 1 = EndOf(d)
          /\ n = (p \div ChunkSize) + 1 /\ Len(At(d, n).data) = (p % ChunkSize) + 1
      BY <1>1, <1>2, <2>2 DEF Counted
    <3>2. (p % ChunkSize) + 1 = ChunkSize
      BY <1>2, <1>6, <2>2, <3>1
    <3> HIDE DEF p
    <3> QED BY <3>1, <3>2, PlaceNext
  <2> QED BY <1>2, <2>1, <2>2
<1>10. Linked(e)
  <2>1. DOMAIN e.heap = {Chain(e)[i] : i \in 1..(n + 1)}
    <3>1. DOMAIN d.heap = {q[i] : i \in 1..n}
      BY <1>1 DEF Linked
    <3>2. 1..(n + 1) = (1..n) \cup {n + 1}
      BY <1>2
    <3> QED BY <1>3, <1>4, <3>1, <3>2
  <2>2. ASSUME NEW i \in 1..(n + 1), NEW j \in 1..(n + 1), Chain(e)[i] = Chain(e)[j]
        PROVE  i = j
    <3>1. CASE i \in 1..n /\ j \in 1..n
      BY <1>1, <1>4, <2>2, <3>1 DEF Linked
    <3>2. CASE i = n + 1 /\ j \in 1..n
      BY <1>3, <1>4, <1>5, <2>2, <3>2
    <3>3. CASE i \in 1..n /\ j = n + 1
      BY <1>3, <1>4, <1>5, <2>2, <3>3
    <3>4. (i \in 1..n \/ i = n + 1) /\ (j \in 1..n \/ j = n + 1)
      BY <1>2
    <3> QED BY <3>1, <3>2, <3>3, <3>4, Zenon
  <2> HIDE DEF n
  <2> QED BY <1>2, <1>4, <2>1, <2>2 DEF Linked
<1>11. Filled(e)
  <2> SUFFICES ASSUME NEW i \in 1..(n + 1)
               PROVE  /\ At(e, i).first <= Len(At(e, i).data)
                      /\ i < n + 1 => Len(At(e, i).data) = ChunkSize
                      /\ i > 1 \/ e.firstBuf = NULL => At(e, i).first = 0
    BY <1>4 DEF Filled
  <2>1. CASE i = n + 1
    BY <1>2, <1>5, <2>1
  <2>2. CASE i \in 1..n
    BY <1>1, <1>3, <1>5, <1>6, <2>2 DEF Filled
  <2>3. i = n + 1 \/ i \in 1..n
    BY <1>2
  <2> QED BY <2>1, <2>2, <2>3
<1>12. Counted(e)
  <2>1. EndOf(e) > 0 /\ EndOf(e) - 1 = EndOf(d)
    BY <1>2, <1>8
  <2>2. Len(Chain(e)) = ((EndOf(e) - 1) \div ChunkSize) + 1
    BY <1>4, <1>9, <2>1
  <2>3. Len(At(e, Len(Chain(e))).data) = ((EndOf(e) - 1) % ChunkSize) + 1
    <3>1. Len(At(e, Len(Chain(e))).data) = 1
      BY <1>4, <1>5
    <3>2. (EndOf(e) - 1) % ChunkSize = 0
      BY <1>9, <2>1
    <3> QED BY <3>1, <3>2
  <2>4. Len(Chain(e)) # 0
    BY <1>2, <1>4
  <2> QED BY <2>1, <2>2, <2>3, <2>4 DEF Counted
<1>13. StreamOK(e)
  BY <1>3, <1>10, <1>11, <1>12 DEF StreamOK
<1>14. ASSUME NEW i \in 1..d.busy
       PROVE  ByteAt(e, StartOf(d) + i - 1) = ByteAt(d, StartOf(d) + i - 1)
  <2> DEFINE r == StartOf(d) + i - 1
             k == (r \div ChunkSize) + 1
             o == (r % ChunkSize) + 1
  <2>1. r \in Nat /\ r < EndOf(d) /\ r < EndOf(e)
    BY <1>2, <1>8
  <2>2. k \in 1..n /\ ByteAt(d, r) = At(d, k).data[o]
    BY <2>1, ByteIs
  <2>3. ByteAt(e, r) = At(e, k).data[o]
    BY <1>13, <2>1, ByteIs
  <2> HIDE DEF k, o, r
  <2> QED BY <1>5, <2>2, <2>3 DEF r
<1>15. ByteAt(e, StartOf(d) + d.busy) = b
  <2>1. ByteAt(e, EndOf(d)) = At(e, n + 1).data[1]
    BY <1>9 DEF ByteAt, At
  <2> QED BY <1>2, <1>5, <2>1
<1>16. Content(e) = Append(Content(d), b)
  BY <1>2, <1>3, <1>7, <1>13, <1>14, <1>15, ContentGrows
<1> QED BY <1>3, <1>13, <1>16 DEF e

(* PutByte adds a byte at the end of the content.                           *)
LEMMA PutByteAdds ==
  ASSUME NEW d, StreamOK(d), NEW b \in Byte
  PROVE  /\ StreamOK(PutByte(d, b))
         /\ PutByte(d, b).eof = d.eof
         /\ Content(PutByte(d, b)) = Append(Content(d), b)
<1>1. CASE d.lastBuf = NULL \/ Len(d.heap[d.lastBuf].data) = ChunkSize
  BY <1>1, PutFull
<1>2. CASE ~(d.lastBuf = NULL \/ Len(d.heap[d.lastBuf].data) = ChunkSize)
  BY <1>2, PutRoom
<1> QED BY <1>1, <1>2

-----------------------------------------------------------------------------
(* Dequeue: the chain stays as it is, bufQ's first chunk is now firstBuf.   *)
LEMMA DequeueKeeps ==
  ASSUME NEW d, StreamOK(d), d.firstBuf = NULL, d.bufQ # <<>>
  PROVE  LET e == Dequeue(d)
         IN /\ StreamOK(e) /\ Content(e) = Content(d)
            /\ e.eof = d.eof /\ e.firstBuf # NULL /\ e.heap[e.firstBuf].first = 0
<1> DEFINE e == Dequeue(d)
           n == Len(d.bufQ)
<1>1. d \in Stream /\ Linked(d) /\ Filled(d) /\ Counted(d) /\ d.bufQ \in Seq(Address)
  BY DEF StreamOK, Stream
<1>2. n \in Nat /\ n > 0 /\ Head(d.bufQ) = d.bufQ[1] /\ Tail(d.bufQ) \in Seq(Address)
      /\ Len(Tail(d.bufQ)) = n - 1 /\ Head(d.bufQ) \in Address
      /\ \A i \in 1..(n - 1) : Tail(d.bufQ)[i] = d.bufQ[i + 1]
  BY <1>1
<1>3. e \in Stream
  <2>1. Head(d.bufQ) \in Nat
    BY <1>2 DEF Address
  <2> QED BY <1>1, <1>2, <2>1, Zenon DEF Dequeue, Stream
<1>4. /\ e.firstBuf = Head(d.bufQ) /\ e.bufQ = Tail(d.bufQ) /\ e.heap = d.heap
      /\ e.lastBuf = d.lastBuf /\ e.busy = d.busy /\ e.eof = d.eof
  BY <1>1 DEF Dequeue, Stream
<1> HIDE DEF e
<1>5. e.firstBuf # NULL
  BY <1>2, <1>4 DEF Address
<1>6. Chain(d) = d.bufQ
  BY DEF Chain
<1>7. Chain(e) = Chain(d)
  <2>1. /\ Chain(e) \in Seq(Address) /\ Len(Chain(e)) = Len(e.bufQ) + 1
        /\ Chain(e)[1] = e.firstBuf
        /\ \A i \in 1..Len(e.bufQ) : Chain(e)[i + 1] = e.bufQ[i]
    BY <1>3, <1>5, ChainIs
  <2>2. Len(Chain(e)) = n
    BY <1>2, <1>4, <2>1
  <2>3. ASSUME NEW i \in 1..n PROVE Chain(e)[i] = d.bufQ[i]
    <3>1. CASE i = 1
      BY <1>2, <1>4, <2>1, <3>1
    <3>2. CASE i # 1
      <4>1. i - 1 \in 1..(n - 1) /\ (i - 1) + 1 = i /\ Len(e.bufQ) = n - 1
        BY <1>2, <1>4, <3>2
      <4> QED BY <1>2, <1>4, <2>1, <4>1
    <3> QED BY <3>1, <3>2
  <2> QED BY <1>1, <1>6, <2>1, <2>2, <2>3
<1>8. \A i : At(e, i) = At(d, i)
  BY <1>4, <1>7 DEF At
<1>9. StartOf(e) = StartOf(d) /\ EndOf(e) = EndOf(d)
  BY <1>4, <1>7 DEF StartOf, EndOf
<1>10. StreamOK(e)
  <2>1. Linked(e)
    BY <1>1, <1>4, <1>7 DEF Linked
  <2>2. Filled(e)
    BY <1>1, <1>7, <1>8 DEF Filled
  <2>3. Counted(e)
    BY <1>1, <1>4, <1>7, <1>8, <1>9 DEF Counted
  <2> QED BY <1>3, <2>1, <2>2, <2>3 DEF StreamOK
<1>11. Content(e) = Content(d)
  BY <1>4, <1>7, <1>9 DEF Content, ByteAt
<1>12. e.heap[e.firstBuf].first = 0
  <2>1. 1 \in 1..Len(Chain(d)) /\ e.heap[e.firstBuf] = At(d, 1)
    BY <1>2, <1>4, <1>6 DEF At
  <2> QED BY <1>1, <2>1 DEF Filled
<1> QED BY <1>4, <1>5, <1>10, <1>11, <1>12 DEF e

(* Delete: what is left of a chunk that was read out is not in the content. *)
LEMMA DeleteIs ==
  ASSUME NEW d, StreamOK(d), d.firstBuf # NULL
  PROVE  LET e == Delete(d)
         IN /\ e \in Stream /\ e.firstBuf = NULL /\ e.bufQ = d.bufQ /\ e.lastBuf = d.lastBuf
            /\ e.busy = d.busy /\ e.eof = d.eof
            /\ DOMAIN e.heap = DOMAIN d.heap \ {d.firstBuf}
            /\ \A a \in DOMAIN e.heap : e.heap[a] = d.heap[a]
<1> DEFINE e == Delete(d)
           h == [a \in DOMAIN d.heap \ {d.firstBuf} |-> d.heap[a]]
<1>1. d \in Stream /\ d.heap \in Heap
  BY DEF StreamOK, Stream
<1>2. h \in [DOMAIN d.heap \ {d.firstBuf} -> Chunk] /\ DOMAIN d.heap \ {d.firstBuf} \in SUBSET Address
  BY <1>1, HeapIs
<1>3. h \in Heap
  BY <1>2, HeapMade
<1>4. /\ DOMAIN h = DOMAIN d.heap \ {d.firstBuf}
      /\ \A a \in DOMAIN h : h[a] = d.heap[a]
  OBVIOUS
<1>5. e = [d EXCEPT !.heap = h, !.firstBuf = NULL]
  BY DEF Delete
<1> HIDE DEF h
<1>6. e \in Stream
  <2>1. NULL \in Nat
    BY DEF NULL
  <2> QED BY <1>1, <1>3, <1>5, <2>1, Zenon DEF Stream
<1>7. /\ e.heap = h /\ e.firstBuf = NULL /\ e.bufQ = d.bufQ /\ e.lastBuf = d.lastBuf
      /\ e.busy = d.busy /\ e.eof = d.eof
  BY <1>1, <1>5 DEF Stream
<1> HIDE DEF e
<1> QED BY <1>4, <1>6, <1>7 DEF e

(* GetData deletes firstBuf when all of it was written and read: no byte is *)
(* lost, and bufQ goes on with the next one.                                *)
LEMMA DeleteKeeps ==
  ASSUME NEW d, StreamOK(d), d.firstBuf # NULL, d.heap[d.firstBuf].first = ChunkSize,
         d.bufQ # <<>>
  PROVE  LET e == Delete(d)
         IN /\ StreamOK(e) /\ Content(e) = Content(d)
            /\ e.eof = d.eof /\ e.firstBuf = NULL /\ e.bufQ = d.bufQ
<1> DEFINE e == Delete(d)
           n == Len(d.bufQ)
<1>1. d \in Stream /\ Linked(d) /\ Filled(d) /\ Counted(d) /\ d.bufQ \in Seq(Address)
  BY DEF StreamOK, Stream
<1>2. n \in Nat /\ n > 0
  BY <1>1
<1>3. /\ e \in Stream /\ e.firstBuf = NULL /\ e.bufQ = d.bufQ /\ e.lastBuf = d.lastBuf
      /\ e.busy = d.busy /\ e.eof = d.eof
      /\ DOMAIN e.heap = DOMAIN d.heap \ {d.firstBuf}
      /\ \A a \in DOMAIN e.heap : e.heap[a] = d.heap[a]
  BY DeleteIs
<1> HIDE DEF e
<1>4. /\ Chain(d) \in Seq(Address) /\ Len(Chain(d)) = n + 1 /\ Chain(d)[1] = d.firstBuf
      /\ \A i \in 1..n : Chain(d)[i + 1] = d.bufQ[i]
      /\ Chain(e) = d.bufQ
  BY <1>1, <1>3, ChainIs
<1>5. ASSUME NEW i \in 1..n
      PROVE  /\ i + 1 \in 1..(n + 1) /\ Chain(e)[i] = Chain(d)[i + 1]
             /\ Chain(e)[i] \in DOMAIN e.heap /\ At(e, i) = At(d, i + 1)
  <2>1. i + 1 \in 1..(n + 1) /\ 1 \in 1..(n + 1) /\ Chain(e)[i] = Chain(d)[i + 1]
    BY <1>2, <1>4
  <2>2. Chain(d)[i + 1] \in DOMAIN d.heap
    BY <1>4, <2>1, ChunkAt
  <2>3. Chain(d)[i + 1] # d.firstBuf
    BY <1>1, <1>4, <2>1 DEF Linked
  <2> QED BY <1>3, <2>1, <2>2, <2>3 DEF At
<1>6. Linked(e)
  <2>1. DOMAIN e.heap = {Chain(e)[i] : i \in 1..n}
    <3>1. DOMAIN d.heap = {Chain(d)[i] : i \in 1..(n + 1)}
      BY <1>1, <1>4 DEF Linked
    <3>2. ASSUME NEW a \in DOMAIN e.heap PROVE \E i \in 1..n : a = Chain(e)[i]
      <4>1. PICK j \in 1..(n + 1) : a = Chain(d)[j]
        BY <1>3, <3>1
      <4>2. j # 1
        BY <1>3, <1>4, <4>1
      <4>3. j - 1 \in 1..n /\ (j - 1) + 1 = j
        BY <1>2, <4>2
      <4> QED BY <1>5, <4>1, <4>3
    <3> QED BY <1>5, <3>2
  <2>2. \A i, j \in 1..n : Chain(e)[i] = Chain(e)[j] => i = j
    <3> SUFFICES ASSUME NEW i \in 1..n, NEW j \in 1..n, Chain(e)[i] = Chain(e)[j]
                 PROVE  i = j
      OBVIOUS
    <3>1. i + 1 = j + 1
      BY <1>1, <1>4, <1>5 DEF Linked
    <3> QED BY <3>1
  <2>3. e.lastBuf = Chain(e)[n]
    <3>1. d.lastBuf = Chain(d)[n + 1]
      BY <1>1, <1>2, <1>4 DEF Linked
    <3> QED BY <1>2, <1>3, <1>4, <3>1
  <2> HIDE DEF n
  <2> QED BY <1>2, <1>4, <2>1, <2>2, <2>3 DEF Linked, n
<1>7. \A i \in 1..n : At(e, i).first = 0
  <2> SUFFICES ASSUME NEW i \in 1..n PROVE At(e, i).first = 0
    OBVIOUS
  <2>1. At(d, i + 1).first = 0
    BY <1>1, <1>4, <1>5 DEF Filled
  <2> QED BY <1>5, <2>1
<1>8. Filled(e)
  <2> SUFFICES ASSUME NEW i \in 1..n
               PROVE  /\ At(e, i).first <= Len(At(e, i).data)
                      /\ i < n => Len(At(e, i).data) = ChunkSize
                      /\ i > 1 \/ e.firstBuf = NULL => At(e, i).first = 0
    BY <1>4 DEF Filled
  <2>1. /\ At(d, i + 1).first <= Len(At(d, i + 1).data)
        /\ i + 1 < n + 1 => Len(At(d, i + 1).data) = ChunkSize
    BY <1>1, <1>4, <1>5 DEF Filled
  <2> QED BY <1>2, <1>5, <1>7, <2>1
<1>9. /\ StartOf(d) = ChunkSize /\ StartOf(e) = 0 /\ d.busy \in Nat
      /\ EndOf(d) = ChunkSize + d.busy /\ EndOf(e) = d.busy
  <2>1. StartOf(d) = ChunkSize
    BY <1>2, <1>4 DEF StartOf
  <2>2. Chain(e) # <<>> /\ 1 \in 1..n
    BY <1>2, <1>4
  <2>3. StartOf(e) = 0
    BY <1>7, <2>2 DEF StartOf, At
  <2> QED BY <1>1, <1>3, <2>1, <2>3 DEF EndOf, Stream
<1>10. /\ d.busy > 0 /\ n = ((d.busy - 1) \div ChunkSize) + 1
       /\ Len(At(e, n).data) = ((d.busy - 1) % ChunkSize) + 1
  <2> DEFINE p == EndOf(d) - 1
  <2>1. /\ n + 1 = (p \div ChunkSize) + 1
        /\ Len(At(d, n + 1).data) = (p % ChunkSize) + 1
    BY <1>1, <1>2, <1>4 DEF Counted
  <2>2. p \in Nat /\ p = ChunkSize + d.busy - 1
    BY <1>9, ChunkSizeIs
  <2>3. d.busy > 0
    <3> SUFFICES ASSUME d.busy = 0 PROVE FALSE
      BY <1>9
    <3>1. p < ChunkSize
      BY <2>2, ChunkSizeIs
    <3>2. p \div ChunkSize = 0
      BY <2>2, <3>1, PlaceFirst
    <3> QED BY <1>2, <2>1, <3>2
  <2>4. d.busy - 1 \in Nat /\ p = (d.busy - 1) + ChunkSize
    BY <1>9, <2>2, <2>3, ChunkSizeIs
  <2>5. p \div ChunkSize = ((d.busy - 1) \div ChunkSize) + 1
        /\ p % ChunkSize = (d.busy - 1) % ChunkSize
    BY <2>4, PlaceShift
  <2>6. n \in 1..n
    BY <1>2
  <2>7. (d.busy - 1) \div ChunkSize \in Nat
    BY <2>4, Place
  <2> HIDE DEF p, n
  <2> QED BY <1>2, <1>5, <2>1, <2>3, <2>5, <2>6, <2>7
<1>11. Counted(e)
  BY <1>2, <1>3, <1>4, <1>9, <1>10 DEF Counted
<1>12. StreamOK(e)
  BY <1>3, <1>6, <1>8, <1>11 DEF StreamOK
<1>13. ASSUME NEW i \in 1..d.busy
       PROVE  ByteAt(e, StartOf(e) + i - 1) = ByteAt(d, StartOf(d) + i - 1)
  <2> DEFINE r == i - 1
             k == (r \div ChunkSize) + 1
             o == (r % ChunkSize) + 1
  <2>1. r \in Nat /\ r < EndOf(e) /\ StartOf(e) + i - 1 = r /\ StartOf(d) + i - 1 = r + ChunkSize
    BY <1>9, ChunkSizeIs
  <2>2. k \in 1..n /\ ByteAt(e, r) = At(e, k).data[o]
    BY <1>4, <1>12, <2>1, ByteIs
  <2>3. /\ (r + ChunkSize) \div ChunkSize = (r \div ChunkSize) + 1
        /\ (r + ChunkSize) % ChunkSize = r % ChunkSize
    BY <2>1, PlaceShift
  <2>4. ByteAt(d, r + ChunkSize) = At(d, k + 1).data[o]
    BY <2>3 DEF ByteAt, At
  <2> HIDE DEF k, o, r
  <2> QED BY <1>5, <2>1, <2>2, <2>4
<1>14. Content(e) = Content(d)
  BY <1>3, <1>13 DEF Content
<1> QED BY <1>3, <1>12, <1>14 DEF e

(* NoMore, after the last chunk: the stream is empty.                       *)
LEMMA EmptyOK ==
  ASSUME NEW e \in Stream, e.firstBuf = NULL, e.bufQ = <<>>, e.lastBuf = NULL,
         DOMAIN e.heap = {}, e.busy = 0
  PROVE  StreamOK(e) /\ Content(e) = <<>>
<1>1. Chain(e) = <<>> /\ Len(Chain(e)) = 0
  BY DEF Chain
<1>2. StreamOK(e)
  BY <1>1 DEF StreamOK, Linked, Filled, Counted
<1>3. Content(e) \in Seq(Byte) /\ Len(Content(e)) = 0
  BY <1>2, ContentIs
<1> QED BY <1>2, <1>3

(* What is left when GetData forgets lastBuf.                               *)
LEMMA NoMoreIs ==
  ASSUME NEW d \in Stream
  PROVE  LET e == NoMore(d)
         IN /\ e \in Stream /\ e.heap = d.heap /\ e.firstBuf = d.firstBuf /\ e.bufQ = d.bufQ
            /\ e.lastBuf = NULL /\ e.busy = d.busy /\ e.eof = d.eof
<1>1. NULL \in Nat
  BY DEF NULL
<1>2. NoMore(d) \in Stream
  BY <1>1, Zenon DEF NoMore, Stream
<1> QED BY <1>2 DEF NoMore, Stream

(* The chunk that GetData looks at: firstBuf, unless it was read out, or    *)
(* else the next one.                                                       *)
LEMMA ToReadKeeps ==
  ASSUME NEW d, StreamOK(d)
  PROVE  LET e == ToRead(d)
         IN /\ StreamOK(e) /\ Content(e) = Content(d) /\ e.eof = d.eof
            /\ e.firstBuf = NULL => Content(e) = <<>>
            /\ e.firstBuf # NULL => e.heap[e.firstBuf].first # ChunkSize
<1>1. /\ d \in Stream /\ Linked(d) /\ Filled(d) /\ Counted(d) /\ d.bufQ \in Seq(Address)
      /\ d.firstBuf \in Nat /\ d.busy \in Nat
  BY DEF StreamOK, Stream
<1>2. CASE d.firstBuf # NULL /\ d.heap[d.firstBuf].first # ChunkSize
  <2>1. ToRead(d) = d
    BY <1>2 DEF ToRead
  <2> QED BY <1>2, <2>1
<1>3. CASE d.firstBuf # NULL /\ d.heap[d.firstBuf].first = ChunkSize /\ d.bufQ # <<>>
  <2> DEFINE x == Delete(d)
             e == Dequeue(x)
  <2>1. /\ StreamOK(x) /\ Content(x) = Content(d)
        /\ x.eof = d.eof /\ x.firstBuf = NULL /\ x.bufQ = d.bufQ
    BY <1>3, DeleteKeeps
  <2>2. ToRead(d) = e
    BY <1>3, <2>1 DEF ToRead
  <2>3. /\ StreamOK(e) /\ Content(e) = Content(x)
        /\ e.eof = x.eof /\ e.firstBuf # NULL /\ e.heap[e.firstBuf].first = 0
    <3> HIDE DEF x
    <3> QED BY <1>3, <2>1, DequeueKeeps
  <2> HIDE DEF x, e
  <2> QED BY <2>1, <2>2, <2>3, ChunkSizeIs
<1>4. CASE d.firstBuf # NULL /\ d.heap[d.firstBuf].first = ChunkSize /\ d.bufQ = <<>>
  <2> DEFINE x == Delete(d)
             e == NoMore(x)
  <2>1. /\ x \in Stream /\ x.firstBuf = NULL /\ x.bufQ = d.bufQ /\ x.busy = d.busy
        /\ x.eof = d.eof /\ DOMAIN x.heap = DOMAIN d.heap \ {d.firstBuf}
    BY <1>4, DeleteIs
  <2>2. ToRead(d) = e
    BY <1>4, <2>1 DEF ToRead
  <2>3. /\ e \in Stream /\ e.heap = x.heap /\ e.firstBuf = NULL /\ e.bufQ = <<>>
        /\ e.lastBuf = NULL /\ e.busy = d.busy /\ e.eof = d.eof
    <3> HIDE DEF x
    <3> QED BY <1>4, <2>1, NoMoreIs
  <2> HIDE DEF x, e
  <2>4. Len(Chain(d)) = 1 /\ Chain(d)[1] = d.firstBuf /\ StartOf(d) = ChunkSize
    <3>1. Len(d.bufQ) = 0
      BY <1>4
    <3>2. Len(Chain(d)) = 1 /\ Chain(d)[1] = d.firstBuf
      <4>1. Len(Chain(d)) = Len(d.bufQ) + 1 /\ Chain(d)[1] = d.firstBuf
        BY <1>1, <1>4, ChainIs
      <4> QED BY <3>1, <4>1
    <3>3. Chain(d) # <<>>
      BY <3>2
    <3> QED BY <1>4, <3>2, <3>3 DEF StartOf
  <2>5. DOMAIN e.heap = {}
    <3>1. DOMAIN d.heap = {Chain(d)[i] : i \in 1..1}
      BY <1>1, <2>4 DEF Linked
    <3> QED BY <2>1, <2>3, <2>4, <3>1
  <2>6. d.busy = 0
    <3> DEFINE p == EndOf(d) - 1
    <3>1. p = ChunkSize + d.busy - 1 /\ p \in Nat
      BY <1>1, <2>4, ChunkSizeIs DEF EndOf
    <3>2. 1 = (p \div ChunkSize) + 1 /\ p \div ChunkSize \in Nat
      <4>1. 1 = (p \div ChunkSize) + 1
        BY <1>1, <2>4 DEF Counted
      <4> QED BY <3>1, <4>1, Place
    <3> SUFFICES ASSUME d.busy > 0 PROVE FALSE
      BY <1>1
    <3>3. d.busy - 1 \in Nat /\ p = (d.busy - 1) + ChunkSize
      BY <1>1, <3>1, ChunkSizeIs
    <3>4. p \div ChunkSize = ((d.busy - 1) \div ChunkSize) + 1
          /\ (d.busy - 1) \div ChunkSize \in Nat
      BY <3>3, PlaceShift, Place
    <3> HIDE DEF p
    <3> QED BY <3>2, <3>4
  <2>7. StreamOK(e) /\ Content(e) = <<>>
    BY <2>3, <2>5, <2>6, EmptyOK
  <2>8. Content(d) = <<>>
    <3>1. Content(d) \in Seq(Byte) /\ Len(Content(d)) = 0
      BY <2>6, ContentIs
    <3> QED BY <3>1
  <2> QED BY <2>2, <2>3, <2>7, <2>8
<1>5. CASE d.firstBuf = NULL /\ d.bufQ # <<>>
  <2>1. ToRead(d) = Dequeue(d)
    BY <1>5 DEF ToRead
  <2> HIDE DEF Dequeue
  <2> QED BY <1>5, <2>1, DequeueKeeps, ChunkSizeIs
<1>6. CASE d.firstBuf = NULL /\ d.bufQ = <<>>
  <2> DEFINE e == NoMore(d)
  <2>1. ToRead(d) = e
    BY <1>6 DEF ToRead
  <2>2. /\ e \in Stream /\ e.heap = d.heap /\ e.firstBuf = NULL /\ e.bufQ = <<>>
        /\ e.lastBuf = NULL /\ e.busy = d.busy /\ e.eof = d.eof
    BY <1>1, <1>6, NoMoreIs
  <2> HIDE DEF e
  <2>3. Chain(d) = <<>> /\ Len(Chain(d)) = 0
    BY <1>6 DEF Chain
  <2>4. DOMAIN e.heap = {} /\ d.busy = 0
    BY <1>1, <2>2, <2>3 DEF Linked, Counted
  <2>5. StreamOK(e) /\ Content(e) = <<>>
    BY <2>2, <2>4, EmptyOK
  <2>6. Content(d) = <<>>
    <3>1. Content(d) \in Seq(Byte) /\ Len(Content(d)) = 0
      BY <2>4, ContentIs
    <3> QED BY <3>1
  <2> QED BY <2>1, <2>2, <2>5, <2>6
<1> QED BY <1>2, <1>3, <1>4, <1>5, <1>6

(* A byte that is taken from firstBuf is the first of the content.          *)
LEMMA TakeByte ==
  ASSUME NEW d, StreamOK(d), d.firstBuf # NULL,
         d.heap[d.firstBuf].first # Len(d.heap[d.firstBuf].data)
  PROVE  LET c == d.heap[d.firstBuf]
             e == [d EXCEPT !.heap[d.firstBuf].first = @ + 1, !.busy = @ - 1]
         IN /\ StreamOK(e) /\ e.eof = d.eof /\ c.data[c.first + 1] \in Byte
            /\ Content(d) = <<c.data[c.first + 1]>> \o Content(e)
<1> DEFINE f == d.firstBuf
           c == d.heap[f]
           w == [c EXCEPT !.first = @ + 1]
           h == [d.heap EXCEPT ![f] = w]
           e == [d EXCEPT !.heap = h, !.busy = @ - 1]
           q == Chain(d)
           n == Len(q)
           p == EndOf(d) - 1
           b == c.data[c.first + 1]
<1>1. d \in Stream /\ Linked(d) /\ Filled(d) /\ Counted(d)
  BY DEF StreamOK
<1>2. /\ n \in Nat /\ n > 0 /\ q[1] = f /\ 1 \in 1..n /\ n \in 1..n /\ q # <<>>
      /\ q \in Seq(Address)
  <2>1. d.bufQ \in Seq(Address) /\ q \in Seq(Address)
    BY <1>1, ChainIs DEF Stream
  <2>2. n = Len(d.bufQ) + 1 /\ q[1] = f
    BY <1>1, ChainIs
  <2> QED BY <2>1, <2>2
<1>3. c = At(d, 1) /\ f \in DOMAIN d.heap /\ c \in Chunk /\ c.data \in Seq(Byte) /\ c.first \in Nat
  BY <1>2, ChunkAt DEF At
<1>4. /\ StartOf(d) = c.first /\ EndOf(d) \in Nat /\ d.busy \in Nat /\ p \in Nat
      /\ EndOf(d) = StartOf(d) + d.busy /\ p = c.first + d.busy - 1
  BY <1>1, <1>2, <1>3, StartIs DEF Counted
<1>5. /\ p \div ChunkSize \in Nat /\ p % ChunkSize \in Nat /\ p % ChunkSize < ChunkSize
      /\ n = (p \div ChunkSize) + 1 /\ Len(At(d, n).data) = (p % ChunkSize) + 1
  BY <1>1, <1>2, <1>4, Place DEF Counted
<1>6. c.first < Len(c.data) /\ c.first < ChunkSize
  <2>1. c.first <= Len(c.data) /\ (1 < n => Len(c.data) = ChunkSize)
    BY <1>1, <1>2, <1>3 DEF Filled
  <2>2. Len(c.data) <= ChunkSize
    <3>1. CASE n = 1
      <4>1. Len(c.data) = (p % ChunkSize) + 1
        BY <1>3, <1>5, <3>1
      <4> DEFINE r == p % ChunkSize
                 l == Len(c.data)
      <4>2. r \in Nat /\ r < ChunkSize /\ l = r + 1
        BY <1>5, <4>1
      <4> HIDE DEF r, l
      <4>3. l <= ChunkSize
        BY <4>2, ChunkSizeIs
      <4> QED BY <4>3 DEF l
    <3>2. CASE n > 1
      BY <2>1, <3>2, ChunkSizeIs
    <3>3. n = 1 \/ n > 1
      <4> HIDE DEF n, q, f
      <4> QED BY <1>2
    <3> QED BY <3>1, <3>2, <3>3, Zenon
  <2> QED BY <1>3, <2>1, <2>2, ChunkSizeIs
<1>7. d.busy > 0
  <2> SUFFICES ASSUME d.busy = 0 PROVE FALSE
    BY <1>4
  <2>1. p = c.first - 1 /\ p < ChunkSize
    BY <1>3, <1>4, <1>6, ChunkSizeIs
  <2>2. p \div ChunkSize = 0 /\ p % ChunkSize = p
    BY <1>4, <2>1, PlaceFirst
  <2>3. n = 1 /\ Len(c.data) = p + 1
    BY <1>3, <1>5, <2>2
  <2> HIDE DEF p
  <2> QED BY <1>3, <1>6, <2>1, <2>3
<1>8. [d EXCEPT !.heap[d.firstBuf].first = @ + 1, !.busy = @ - 1] = e
  BY DEF Stream
<1>9. d.heap \in [DOMAIN d.heap -> Chunk] /\ DOMAIN d.heap \in SUBSET Address
  BY <1>1, HeapIs DEF Stream
<1> HIDE DEF c
<1>10. w \in Chunk /\ w.data = c.data /\ w.first = c.first + 1
  BY <1>3 DEF Chunk
<1> HIDE DEF w
<1>11. /\ h \in [DOMAIN d.heap -> Chunk] /\ h[f] = w
       /\ \A a \in DOMAIN d.heap : a # f => h[a] = d.heap[a]
  BY <1>3, <1>9, <1>10
<1>12. h \in Heap /\ DOMAIN h = DOMAIN d.heap
  BY <1>9, <1>11, HeapMade
<1> HIDE DEF h
<1>13. e \in Stream
  <2>1. d.busy - 1 \in Nat
    BY <1>4, <1>7
  <2> QED BY <1>1, <1>12, <2>1, Zenon DEF Stream
<1>14. /\ e.heap = h /\ e.firstBuf = f /\ e.bufQ = d.bufQ /\ e.lastBuf = d.lastBuf
       /\ e.busy = d.busy - 1 /\ e.eof = d.eof
  BY <1>1 DEF Stream
<1> HIDE DEF e
<1>15. Chain(e) = q
  BY <1>14 DEF Chain
<1>16. At(e, 1) = w /\ \A i \in 1..n : i # 1 => At(e, i) = At(d, i)
  <2>1. ASSUME NEW i \in 1..n, i # 1 PROVE At(e, i) = At(d, i)
    <3>1. q[i] # f /\ q[i] \in DOMAIN d.heap
      BY <1>1, <1>2, <2>1 DEF Linked
    <3> QED BY <1>11, <1>14, <1>15, <3>1 DEF At
  <2> QED BY <1>2, <1>11, <1>14, <1>15, <2>1 DEF At
<1>17. \A i \in 1..n : At(e, i).data = At(d, i).data
  BY <1>3, <1>10, <1>16
<1>18. StartOf(e) = StartOf(d) + 1 /\ EndOf(e) = EndOf(d)
  <2>1. StartOf(e) = StartOf(d) + 1
    BY <1>2, <1>4, <1>10, <1>15, <1>16 DEF StartOf, At
  <2> QED BY <1>3, <1>4, <1>7, <1>14, <2>1 DEF EndOf
<1>19. Linked(e)
  BY <1>1, <1>12, <1>14, <1>15 DEF Linked
<1>20. Filled(e)
  <2> SUFFICES ASSUME NEW i \in 1..n
               PROVE  /\ At(e, i).first <= Len(At(e, i).data)
                      /\ i < n => Len(At(e, i).data) = ChunkSize
                      /\ i > 1 \/ e.firstBuf = NULL => At(e, i).first = 0
    BY <1>15 DEF Filled
  <2>1. /\ At(d, i).first <= Len(At(d, i).data)
        /\ i < n => Len(At(d, i).data) = ChunkSize
        /\ i > 1 \/ d.firstBuf = NULL => At(d, i).first = 0
    BY <1>1 DEF Filled
  <2>2. CASE i = 1
    <3>1. At(e, 1).first = c.first + 1 /\ At(e, 1).data = c.data
      BY <1>10, <1>16
    <3>2. c.first + 1 <= Len(c.data)
      BY <1>3, <1>6
    <3> QED BY <1>3, <1>14, <2>1, <2>2, <3>1, <3>2
  <2>3. CASE i # 1
    BY <1>14, <1>16, <2>1, <2>3
  <2> QED BY <2>2, <2>3
<1>21. Counted(e)
  BY <1>1, <1>2, <1>15, <1>17, <1>18 DEF Counted
<1>22. StreamOK(e)
  BY <1>13, <1>19, <1>20, <1>21 DEF StreamOK
<1>23. b \in Byte
  BY <1>3, <1>6
<1>24. ByteAt(d, c.first) = b
  <2>1. c.first \div ChunkSize = 0 /\ c.first % ChunkSize = c.first
    BY <1>3, <1>6, PlaceFirst
  <2> QED BY <1>3, <2>1 DEF ByteAt, At
<1>25. ASSUME NEW i \in 1..(d.busy - 1)
       PROVE  ByteAt(e, StartOf(e) + i - 1) = ByteAt(d, StartOf(d) + (i + 1) - 1)
  <2> DEFINE r == StartOf(d) + i
             k == (r \div ChunkSize) + 1
             o == (r % ChunkSize) + 1
  <2>1. /\ r \in Nat /\ r < EndOf(d) /\ r < EndOf(e)
        /\ StartOf(e) + i - 1 = r /\ StartOf(d) + (i + 1) - 1 = r
    <3>1. StartOf(d) \in Nat /\ d.busy \in Nat /\ i \in Nat /\ i < d.busy
      BY <1>3, <1>4
    <3> QED BY <1>4, <1>18, <3>1
  <2>2. k \in 1..n /\ ByteAt(d, r) = At(d, k).data[o]
    BY <2>1, ByteIs
  <2>3. ByteAt(e, r) = At(e, k).data[o]
    BY <1>22, <2>1, ByteIs
  <2> HIDE DEF k, o, r
  <2> QED BY <1>17, <2>1, <2>2, <2>3
<1>26. Content(d) = <<b>> \o Content(e)
  <2>1. /\ Content(d) \in Seq(Byte) /\ Len(Content(d)) = d.busy
        /\ \A i \in 1..d.busy : Content(d)[i] = ByteAt(d, StartOf(d) + i - 1)
    BY ContentIs
  <2>2. /\ Content(e) \in Seq(Byte) /\ Len(Content(e)) = d.busy - 1
        /\ \A i \in 1..(d.busy - 1) : Content(e)[i] = ByteAt(e, StartOf(e) + i - 1)
    BY <1>14, <1>22, ContentIs
  <2> HIDE DEF b
  <2>3. /\ <<b>> \o Content(e) \in Seq(Byte) /\ Len(<<b>> \o Content(e)) = d.busy
        /\ (<<b>> \o Content(e))[1] = b
        /\ \A i \in 1..(d.busy - 1) : (<<b>> \o Content(e))[i + 1] = Content(e)[i]
    BY <1>4, <1>7, <1>23, <2>2
  <2>4. ASSUME NEW i \in 1..d.busy PROVE Content(d)[i] = (<<b>> \o Content(e))[i]
    <3>1. CASE i = 1
      <4>1. StartOf(d) + i - 1 = c.first
        BY <1>3, <1>4, <3>1
      <4> QED BY <1>24, <2>1, <2>3, <3>1, <4>1
    <3>2. CASE i # 1
      <4> DEFINE j == i - 1
      <4>1. j \in 1..(d.busy - 1) /\ j + 1 = i
        BY <1>4, <3>2
      <4> HIDE DEF j
      <4>2. Content(e)[j] = ByteAt(d, StartOf(d) + (j + 1) - 1)
        BY <1>25, <2>2, <4>1
      <4>3. Content(e)[j] = Content(d)[i]
        BY <2>1, <4>1, <4>2
      <4> QED BY <2>3, <4>1, <4>3
    <3> QED BY <3>1, <3>2
  <2> QED BY <2>1, <2>3, <2>4, SeqEqual
<1> QED BY <1>8, <1>14, <1>22, <1>23, <1>26 DEF b, c

(* ReadByte moves the first byte of the content, if there is one.           *)
LEMMA ReadByteTakes ==
  ASSUME NEW r, StreamOK(r.d), r.bytes \in Seq(Byte)
  PROVE  LET s == ReadByte(r)
         IN /\ StreamOK(s.d) /\ s.d.eof = r.d.eof /\ s.bytes \in Seq(Byte)
            /\ s.bytes \o Content(s.d) = r.bytes \o Content(r.d)
            /\ Content(r.d) # <<>> \/ r.bytes # <<>> => s.bytes # <<>>
            /\ Len(s.bytes) <= Len(r.bytes) + 1
<1> DEFINE d == ToRead(r.d)
           c == d.heap[d.firstBuf]
           e == [d EXCEPT !.heap[d.firstBuf].first = @ + 1, !.busy = @ - 1]
           b == c.data[c.first + 1]
           s == ReadByte(r)
<1>1. /\ StreamOK(d) /\ Content(d) = Content(r.d) /\ d.eof = r.d.eof
      /\ d.firstBuf = NULL => Content(d) = <<>>
      /\ d.firstBuf # NULL => c.first # ChunkSize
  BY ToReadKeeps
<1>2. CASE d.firstBuf = NULL \/ c.first = Len(c.data)
  <2>1. s = [d |-> d, bytes |-> r.bytes]
    BY <1>2 DEF ReadByte
  <2> HIDE DEF d
  <2>2. Content(d) = <<>>
    <3> SUFFICES ASSUME d.firstBuf # NULL, c.first = Len(c.data), c.first # ChunkSize
                 PROVE  Content(d) = <<>>
      BY <1>1, <1>2
    <3> DEFINE n == Len(Chain(d))
               p == EndOf(d) - 1
    <3>1. d \in Stream /\ Filled(d) /\ Counted(d) /\ d.bufQ \in Seq(Address)
      BY <1>1 DEF StreamOK, Stream
    <3>2. n = Len(d.bufQ) + 1 /\ Chain(d)[1] = d.firstBuf
      BY <3>1, ChainIs
    <3>3. n \in Nat /\ n > 0 /\ 1 \in 1..n
      BY <3>1, <3>2
    <3>4. c = At(d, 1)
      BY <3>2 DEF At
    <3>5. n = 1
      <4>1. 1 < n => Len(At(d, 1).data) = ChunkSize
        BY <3>1, <3>3 DEF Filled
      <4>2. ~(1 < n)
        BY <3>4, <4>1
      <4> HIDE DEF n
      <4> QED BY <3>3, <4>2
    <3>6. /\ StartOf(d) = c.first /\ StartOf(d) \in Nat /\ EndOf(d) \in Nat
          /\ d.busy \in Nat /\ EndOf(d) = StartOf(d) + d.busy
      BY <1>1, <3>3, <3>4, StartIs
    <3>7. p \in Nat /\ 1 = (p \div ChunkSize) + 1 /\ c.first = (p % ChunkSize) + 1
      BY <3>1, <3>3, <3>4, <3>5, <3>6 DEF Counted
    <3>8. p \div ChunkSize = 0
      <4>1. p \div ChunkSize \in Nat
        BY <3>7, Place
      <4> HIDE DEF p
      <4> QED BY <3>7, <4>1
    <3>9. p % ChunkSize = p
      BY <3>7, <3>8, PlaceZero
    <3>10. d.busy = 0
      BY <3>6, <3>7, <3>9
    <3>11. Content(d) \in Seq(Byte) /\ Len(Content(d)) = 0
      BY <1>1, <3>10, ContentIs
    <3> QED BY <3>11
  <2> QED BY <1>1, <2>1, <2>2
<1>3. CASE ~(d.firstBuf = NULL \/ c.first = Len(c.data))
  <2>1. s = [d |-> e, bytes |-> Append(r.bytes, b)]
    BY <1>3 DEF ReadByte
  <2> HIDE DEF d
  <2>2. StreamOK(e) /\ e.eof = d.eof /\ b \in Byte /\ Content(d) = <<b>> \o Content(e)
    BY <1>1, <1>3, TakeByte
  <2>3. Content(e) \in Seq(Byte) /\ b \in Byte
    BY <2>2, ContentIs
  <2>4. s.d = e /\ s.bytes = Append(r.bytes, b)
    BY <2>1
  <2> HIDE DEF e, b, s
  <2>5. /\ Append(r.bytes, b) \in Seq(Byte) /\ Append(r.bytes, b) # <<>>
        /\ Len(Append(r.bytes, b)) = Len(r.bytes) + 1 /\ Len(r.bytes) \in Nat
        /\ Append(r.bytes, b) \o Content(e) = r.bytes \o (<<b>> \o Content(e))
    <3> DEFINE t == r.bytes
               u == Content(e)
    <3>1. t \in Seq(Byte) /\ u \in Seq(Byte) /\ b \in Byte
      BY <2>3
    <3> HIDE DEF t, u
    <3>2. /\ Append(t, b) \in Seq(Byte) /\ Append(t, b) # <<>>
          /\ Len(Append(t, b)) = Len(t) + 1 /\ Len(t) \in Nat
          /\ Append(t, b) \o u = t \o (<<b>> \o u)
      BY <3>1, SeqAppend
    <3> QED BY <3>2 DEF t, u
  <2>6. Len(s.bytes) <= Len(r.bytes) + 1
    BY <2>4, <2>5
  <2> QED BY <1>1, <2>2, <2>4, <2>5, <2>6 DEF s
<1> QED BY <1>2, <1>3

-----------------------------------------------------------------------------
(* The loops.  A function that is defined by recursion satisfies its        *)
(* equation because there is one that does, for every length.               *)
LEMMA PutDataLoops ==
  ASSUME NEW d, NEW bytes \in Seq(Byte), ~d.eof
  PROVE  \E put : /\ put[0] = d
                  /\ \A n \in 1..Len(bytes) : put[n] = PutByte(put[n - 1], bytes[n])
                  /\ PutData(d, bytes) = put[Len(bytes)]
<1> DEFINE Loop(k, g) == g = [n \in 0..k |-> IF n = 0 THEN d ELSE PutByte(g[n - 1], bytes[n])]
           T == {k \in Nat : \E g : Loop(k, g)}
           N == Len(bytes)
<1>1. 0 \in T
  <2> DEFINE g == [n \in 0..0 |-> d]
  <2>1. Loop(0, g)
    OBVIOUS
  <2> QED BY <2>1
<1>2. ASSUME NEW k \in Nat, k \in T PROVE k + 1 \in T
  <2>1. PICK g : Loop(k, g)
    BY <1>2
  <2> DEFINE h == [n \in 0..(k + 1) |-> IF n <= k THEN g[n] ELSE PutByte(g[k], bytes[n])]
  <2>2. ASSUME NEW n \in 0..(k + 1)
        PROVE  h[n] = IF n = 0 THEN d ELSE PutByte(h[n - 1], bytes[n])
    <3>1. CASE n = 0
      <4>1. 0 \in 0..k /\ 0 \in 0..(k + 1)
        OBVIOUS
      <4> QED BY <2>1, <3>1, <4>1
    <3>2. CASE n # 0 /\ n <= k
      <4>1. n \in 0..k /\ n - 1 \in 0..k /\ n - 1 \in 0..(k + 1) /\ n - 1 <= k
        BY <3>2
      <4>2. h[n] = g[n] /\ h[n - 1] = g[n - 1]
        BY <3>2, <4>1
      <4> HIDE DEF h
      <4> QED BY <2>1, <3>2, <4>1, <4>2
    <3>3. CASE n = k + 1
      <4>1. n - 1 = k /\ k \in 0..(k + 1) /\ ~(n <= k) /\ n # 0
        BY <3>3
      <4>2. h[n] = PutByte(g[k], bytes[n]) /\ h[k] = g[k]
        BY <4>1
      <4> HIDE DEF h
      <4> QED BY <4>1, <4>2
    <3>4. n = 0 \/ (n # 0 /\ n <= k) \/ n = k + 1
      OBVIOUS
    <3> QED BY <3>1, <3>2, <3>3, <3>4, Zenon
  <2>3. Loop(k + 1, h)
    <3>1. h = [n \in 0..(k + 1) |-> h[n]]
      OBVIOUS
    <3> HIDE DEF h
    <3> QED BY <2>2, <3>1
  <2>4. k + 1 \in Nat
    OBVIOUS
  <2> HIDE DEF Loop
  <2> QED BY <2>3, <2>4
<1>3. N \in T
  <2>1. N \in Nat
    OBVIOUS
  <2> HIDE DEF T, N
  <2> QED BY <1>1, <1>2, <2>1, SetInduction
<1> DEFINE put == CHOOSE g : Loop(N, g)
<1>4. Loop(N, put)
  <2> HIDE DEF Loop
  <2> QED BY <1>3, Zenon
<1>5. PutData(d, bytes) = put[N]
  BY DEF PutData
<1> HIDE DEF put
<1>6. put[0] = d /\ \A n \in 1..N : put[n] = PutByte(put[n - 1], bytes[n])
  BY <1>4
<1> QED BY <1>5, <1>6

(* PutData adds its bytes at the end of the content.                        *)
LEMMA PutDataAdds ==
  ASSUME NEW d, StreamOK(d), ~d.eof, NEW bytes \in Seq(Byte)
  PROVE  /\ StreamOK(PutData(d, bytes))
         /\ PutData(d, bytes).eof = d.eof
         /\ Content(PutData(d, bytes)) = Content(d) \o bytes
<1> DEFINE N == Len(bytes)
<1>1. PICK put : /\ put[0] = d
                 /\ \A n \in 1..N : put[n] = PutByte(put[n - 1], bytes[n])
                 /\ PutData(d, bytes) = put[N]
  BY PutDataLoops
<1> DEFINE Good(n) == /\ StreamOK(put[n]) /\ put[n].eof = d.eof
                      /\ Content(put[n]) = Content(d) \o SubSeq(bytes, 1, n)
           T == {n \in Nat : n <= N => Good(n)}
<1>2. Content(d) \in Seq(Byte) /\ N \in Nat
  BY ContentIs
<1>3. 0 \in T
  <2>1. SubSeq(bytes, 1, 0) = <<>>
    OBVIOUS
  <2>2. Content(d) \o <<>> = Content(d)
    BY <1>2
  <2> QED BY <1>1, <2>1, <2>2
<1>4. ASSUME NEW n \in Nat, n \in T PROVE n + 1 \in T
  <2> SUFFICES ASSUME n + 1 <= N PROVE Good(n + 1)
    OBVIOUS
  <2> DEFINE b == bytes[n + 1]
             s == SubSeq(bytes, 1, n)
  <2>1. Good(n)
    BY <1>2, <1>4
  <2>2. n + 1 \in 1..N /\ (n + 1) - 1 = n /\ b \in Byte
    BY <1>2
  <2>3. put[n + 1] = PutByte(put[n], b)
    BY <1>1, <2>2
  <2>4. SubSeq(bytes, 1, n + 1) = Append(s, b) /\ s \in Seq(Byte)
    BY <1>2, <2>2
  <2> HIDE DEF b, s
  <2>5. Append(Content(d) \o s, b) = Content(d) \o Append(s, b)
    <3> DEFINE u == Content(d)
    <3>1. u \in Seq(Byte)
      BY <1>2
    <3> HIDE DEF u
    <3>2. Append(u \o s, b) = u \o Append(s, b)
      <4>1. Append(s, b) = s \o <<b>> /\ <<b>> \in Seq(Byte)
        BY <2>2, <2>4, SeqAppend
      <4>2. u \o s \in Seq(Byte)
        BY <2>4, <3>1
      <4>3. Append(u \o s, b) = (u \o s) \o <<b>>
        BY <2>2, <4>2, SeqAppend
      <4> QED BY <2>4, <3>1, <4>1, <4>3, ConcatAssociative
    <3> QED BY <3>2 DEF u
  <2>6. /\ StreamOK(put[n + 1]) /\ put[n + 1].eof = put[n].eof
        /\ Content(put[n + 1]) = Append(Content(put[n]), b)
    BY <2>1, <2>2, <2>3, PutByteAdds
  <2> QED BY <2>1, <2>4, <2>5, <2>6 DEF s
<1>5. N \in T
  <2> HIDE DEF T, N
  <2> QED BY <1>2, <1>3, <1>4, SetInduction
<1>6. SubSeq(bytes, 1, N) = bytes
  OBVIOUS
<1> QED BY <1>1, <1>2, <1>5, <1>6

(* The loop of Read, from its first state to its last.                      *)
LEMMA ReadLoops ==
  ASSUME NEW d, NEW count \in Nat
  PROVE  \E read : /\ read[0] = [d |-> d, bytes |-> <<>>]
                   /\ \A n \in 1..count : read[n] = ReadByte(read[n - 1])
                   /\ Read(d, count) = read[count]
<1> DEFINE x == [d |-> d, bytes |-> <<>>]
           Loop(k, g) == g = [n \in 0..k |-> IF n = 0 THEN x ELSE ReadByte(g[n - 1])]
           T == {k \in Nat : \E g : Loop(k, g)}
           read == CHOOSE g : Loop(count, g)
<1>1. Read(d, count) = read[count]
  BY DEF Read
<1> HIDE DEF x
<1>2. 0 \in T
  <2> DEFINE g == [n \in 0..0 |-> x]
  <2>1. Loop(0, g)
    OBVIOUS
  <2> QED BY <2>1
<1>3. ASSUME NEW k \in Nat, k \in T PROVE k + 1 \in T
  <2>1. PICK g : Loop(k, g)
    BY <1>3
  <2> DEFINE h == [n \in 0..(k + 1) |-> IF n <= k THEN g[n] ELSE ReadByte(g[k])]
  <2>2. ASSUME NEW n \in 0..(k + 1)
        PROVE  h[n] = IF n = 0 THEN x ELSE ReadByte(h[n - 1])
    <3>1. CASE n = 0
      <4>1. 0 \in 0..k /\ 0 \in 0..(k + 1)
        OBVIOUS
      <4> QED BY <2>1, <3>1, <4>1
    <3>2. CASE n # 0 /\ n <= k
      <4>1. n \in 0..k /\ n - 1 \in 0..k /\ n - 1 \in 0..(k + 1) /\ n - 1 <= k
        BY <3>2
      <4>2. h[n] = g[n] /\ h[n - 1] = g[n - 1]
        BY <3>2, <4>1
      <4> HIDE DEF h
      <4> QED BY <2>1, <3>2, <4>1, <4>2
    <3>3. CASE n = k + 1
      <4>1. n - 1 = k /\ k \in 0..(k + 1) /\ ~(n <= k) /\ n # 0
        BY <3>3
      <4>2. h[n] = ReadByte(g[k]) /\ h[k] = g[k]
        BY <4>1
      <4> HIDE DEF h
      <4> QED BY <4>1, <4>2
    <3>4. n = 0 \/ (n # 0 /\ n <= k) \/ n = k + 1
      OBVIOUS
    <3> QED BY <3>1, <3>2, <3>3, <3>4, Zenon
  <2>3. Loop(k + 1, h)
    <3>1. h = [n \in 0..(k + 1) |-> h[n]]
      OBVIOUS
    <3> HIDE DEF h
    <3> QED BY <2>2, <3>1
  <2>4. k + 1 \in Nat
    OBVIOUS
  <2> HIDE DEF Loop
  <2> QED BY <2>3, <2>4
<1>4. count \in T
  <2> HIDE DEF T
  <2> QED BY <1>2, <1>3, SetInduction
<1>5. Loop(count, read)
  <2> HIDE DEF Loop
  <2> QED BY <1>4, Zenon
<1> HIDE DEF read
<1>6. read[0] = x /\ \A n \in 1..count : read[n] = ReadByte(read[n - 1])
  BY <1>5
<1> QED BY <1>1, <1>6 DEF x

(* GetData takes bytes from the front of the content, at least one of them  *)
(* if there are any, and tells the end when there are none.                 *)
LEMMA GetDataTakes ==
  ASSUME NEW d, StreamOK(d), NEW count \in Nat, count > 0
  PROVE  LET r == GetData(d, count)
         IN /\ StreamOK(r.d) /\ r.d.eof = d.eof
            /\ Content(d) = <<>> => /\ r.d = d
                                    /\ d.eof => r.bytes = EndOfData
                                    /\ ~d.eof => r.bytes = <<>>
            /\ Content(d) # <<>> => /\ r.bytes \in Seq(Byte) /\ r.bytes # <<>>
                                    /\ r.bytes \o Content(r.d) = Content(d)
                                    /\ Len(r.bytes) <= count
<1>1. Content(d) \in Seq(Byte) /\ Len(Content(d)) = d.busy /\ d.busy \in Nat
  BY ContentIs
<1>2. CASE d.busy = 0
  <2>1. Content(d) = <<>>
    BY <1>1, <1>2
  <2>2. GetData(d, count) = [d |-> d, bytes |-> IF d.eof THEN EndOfData ELSE <<>>]
    BY <1>2 DEF GetData
  <2> QED BY <2>1, <2>2
<1>3. CASE d.busy # 0
  <2>1. Content(d) # <<>>
    BY <1>1, <1>3
  <2>2. GetData(d, count) = Read(d, count)
    BY <1>3 DEF GetData
  <2>3. PICK read : /\ read[0] = [d |-> d, bytes |-> <<>>]
                    /\ \A n \in 1..count : read[n] = ReadByte(read[n - 1])
                    /\ Read(d, count) = read[count]
    BY ReadLoops
  <2> DEFINE Good(n) == /\ StreamOK(read[n].d) /\ read[n].d.eof = d.eof
                        /\ read[n].bytes \in Seq(Byte) /\ Len(read[n].bytes) <= n
                        /\ read[n].bytes \o Content(read[n].d) = Content(d)
                        /\ n > 0 => read[n].bytes # <<>>
             T == {n \in Nat : n <= count => Good(n)}
  <2>4. 0 \in T
    <3>1. read[0].d = d /\ read[0].bytes = <<>>
      BY <2>3
    <3>2. <<>> \o Content(d) = Content(d) /\ <<>> \in Seq(Byte) /\ Len(<<>>) = 0
      BY <1>1
    <3>3. Good(0)
      BY <3>1, <3>2
    <3> HIDE DEF Good
    <3> QED BY <3>3
  <2>5. ASSUME NEW n \in Nat, n \in T PROVE n + 1 \in T
    <3> HIDE DEF Good
    <3> SUFFICES ASSUME n + 1 <= count PROVE Good(n + 1)
      OBVIOUS
    <3>1. Good(n)
      BY <2>5
    <3> USE DEF Good
    <3>2. n + 1 \in 1..count /\ (n + 1) - 1 = n
      OBVIOUS
    <3>3. read[n + 1] = ReadByte(read[n])
      BY <2>3, <3>2
    <3> DEFINE r == read[n]
               s == read[n + 1]
    <3>4. r.bytes # <<>> \/ Content(r.d) # <<>>
      <4> SUFFICES ASSUME r.bytes = <<>> PROVE Content(r.d) # <<>>
        OBVIOUS
      <4>1. Content(r.d) \in Seq(Byte)
        BY <3>1, ContentIs
      <4>2. <<>> \o Content(r.d) = Content(r.d)
        BY <4>1
      <4> QED BY <2>1, <3>1, <4>2
    <3>5. /\ StreamOK(s.d) /\ s.d.eof = r.d.eof /\ s.bytes \in Seq(Byte)
          /\ s.bytes \o Content(s.d) = r.bytes \o Content(r.d)
          /\ Content(r.d) # <<>> \/ r.bytes # <<>> => s.bytes # <<>>
          /\ Len(s.bytes) <= Len(r.bytes) + 1
      <4>1. StreamOK(r.d) /\ r.bytes \in Seq(Byte)
        BY <3>1
      <4>2. s = ReadByte(r)
        BY <3>3
      <4> HIDE DEF r, s
      <4> QED BY <4>1, <4>2, ReadByteTakes
    <3>6. Len(s.bytes) <= n + 1
      <4>1. Len(r.bytes) \in Nat /\ Len(s.bytes) \in Nat /\ Len(r.bytes) <= n
        BY <3>1, <3>5
      <4> HIDE DEF r, s
      <4> QED BY <3>5, <4>1
    <3> QED BY <3>1, <3>4, <3>5, <3>6
  <2>6. count \in T
    <3> HIDE DEF T
    <3> QED BY <2>4, <2>5, SetInduction
  <2>7. Good(count)
    <3> HIDE DEF Good
    <3> QED BY <2>6
  <2> QED BY <2>1, <2>2, <2>3, <2>7
<1> QED BY <1>2, <1>3

(* The loop of PutDleFrom.                                                  *)
LEMMA PutDleLoops ==
  ASSUME NEW rev, NEW p, NEW bytes \in Seq(Byte)
  PROVE  \E put : /\ put[0] = p
                  /\ \A n \in 1..Len(bytes) :
                       put[n] = PutDleByte(rev, put[n - 1], bytes[n])
                  /\ PutDleFrom(rev, p, bytes) = put[Len(bytes)]
<1> DEFINE x == p
           Loop(k, g) == g = [n \in 0..k |->
                                IF n = 0 THEN x ELSE PutDleByte(rev, g[n - 1], bytes[n])]
           T == {k \in Nat : \E g : Loop(k, g)}
           N == Len(bytes)
           put == CHOOSE g : Loop(N, g)
<1>1. PutDleFrom(rev, p, bytes) = put[N]
  BY DEF PutDleFrom
<1> HIDE DEF x
<1>2. 0 \in T
  <2> DEFINE g == [n \in 0..0 |-> x]
  <2>1. Loop(0, g)
    OBVIOUS
  <2> QED BY <2>1
<1>3. ASSUME NEW k \in Nat, k \in T PROVE k + 1 \in T
  <2>1. PICK g : Loop(k, g)
    BY <1>3
  <2> DEFINE h == [n \in 0..(k + 1) |->
                     IF n <= k THEN g[n] ELSE PutDleByte(rev, g[k], bytes[n])]
  <2>2. ASSUME NEW n \in 0..(k + 1)
        PROVE  h[n] = IF n = 0 THEN x ELSE PutDleByte(rev, h[n - 1], bytes[n])
    <3>1. CASE n = 0
      <4>1. 0 \in 0..k /\ 0 \in 0..(k + 1)
        OBVIOUS
      <4> QED BY <2>1, <3>1, <4>1
    <3>2. CASE n # 0 /\ n <= k
      <4>1. n \in 0..k /\ n - 1 \in 0..k /\ n - 1 \in 0..(k + 1) /\ n - 1 <= k
        BY <3>2
      <4>2. h[n] = g[n] /\ h[n - 1] = g[n - 1]
        BY <3>2, <4>1
      <4> HIDE DEF h
      <4> QED BY <2>1, <3>2, <4>1, <4>2
    <3>3. CASE n = k + 1
      <4>1. n - 1 = k /\ k \in 0..(k + 1) /\ ~(n <= k) /\ n # 0
        BY <3>3
      <4>2. h[n] = PutDleByte(rev, g[k], bytes[n]) /\ h[k] = g[k]
        BY <4>1
      <4> HIDE DEF h
      <4> QED BY <4>1, <4>2
    <3>4. n = 0 \/ (n # 0 /\ n <= k) \/ n = k + 1
      OBVIOUS
    <3> QED BY <3>1, <3>2, <3>3, <3>4, Zenon
  <2>3. Loop(k + 1, h)
    <3>1. h = [n \in 0..(k + 1) |-> h[n]]
      OBVIOUS
    <3> HIDE DEF h
    <3> QED BY <2>2, <3>1
  <2>4. k + 1 \in Nat
    OBVIOUS
  <2> HIDE DEF Loop
  <2> QED BY <2>3, <2>4
<1>4. N \in T
  <2>1. N \in Nat
    OBVIOUS
  <2> HIDE DEF T, N
  <2> QED BY <1>2, <1>3, <2>1, SetInduction
<1>5. Loop(N, put)
  <2> HIDE DEF Loop
  <2> QED BY <1>4, Zenon
<1> HIDE DEF put
<1>6. put[0] = x /\ \A n \in 1..N : put[n] = PutDleByte(rev, put[n - 1], bytes[n])
  BY <1>5
<1> QED BY <1>1, <1>6 DEF x

(* The loop of Doubled.                                                     *)
LEMMA DoubledLoops ==
  ASSUME NEW rev, NEW bytes \in Seq(Byte)
  PROVE  \E out : /\ out[0] = <<>>
                  /\ \A n \in 1..Len(bytes) :
                       out[n] = Encode(rev, out[n - 1], bytes[n])
                  /\ Doubled(rev, bytes) = out[Len(bytes)]
<1> DEFINE x == <<>>
           Loop(k, g) == g = [n \in 0..k |->
                                IF n = 0 THEN x ELSE Encode(rev, g[n - 1], bytes[n])]
           T == {k \in Nat : \E g : Loop(k, g)}
           N == Len(bytes)
           out == CHOOSE g : Loop(N, g)
<1>1. Doubled(rev, bytes) = out[N]
  BY DEF Doubled
<1> HIDE DEF x
<1>2. 0 \in T
  <2> DEFINE g == [n \in 0..0 |-> x]
  <2>1. Loop(0, g)
    OBVIOUS
  <2> QED BY <2>1
<1>3. ASSUME NEW k \in Nat, k \in T PROVE k + 1 \in T
  <2>1. PICK g : Loop(k, g)
    BY <1>3
  <2> DEFINE h == [n \in 0..(k + 1) |->
                     IF n <= k THEN g[n] ELSE Encode(rev, g[k], bytes[n])]
  <2>2. ASSUME NEW n \in 0..(k + 1)
        PROVE  h[n] = IF n = 0 THEN x ELSE Encode(rev, h[n - 1], bytes[n])
    <3>1. CASE n = 0
      <4>1. 0 \in 0..k /\ 0 \in 0..(k + 1)
        OBVIOUS
      <4> QED BY <2>1, <3>1, <4>1
    <3>2. CASE n # 0 /\ n <= k
      <4>1. n \in 0..k /\ n - 1 \in 0..k /\ n - 1 \in 0..(k + 1) /\ n - 1 <= k
        BY <3>2
      <4>2. h[n] = g[n] /\ h[n - 1] = g[n - 1]
        BY <3>2, <4>1
      <4> HIDE DEF h
      <4> QED BY <2>1, <3>2, <4>1, <4>2
    <3>3. CASE n = k + 1
      <4>1. n - 1 = k /\ k \in 0..(k + 1) /\ ~(n <= k) /\ n # 0
        BY <3>3
      <4>2. h[n] = Encode(rev, g[k], bytes[n]) /\ h[k] = g[k]
        BY <4>1
      <4> HIDE DEF h
      <4> QED BY <4>1, <4>2
    <3>4. n = 0 \/ (n # 0 /\ n <= k) \/ n = k + 1
      OBVIOUS
    <3> QED BY <3>1, <3>2, <3>3, <3>4, Zenon
  <2>3. Loop(k + 1, h)
    <3>1. h = [n \in 0..(k + 1) |-> h[n]]
      OBVIOUS
    <3> HIDE DEF h
    <3> QED BY <2>2, <3>1
  <2>4. k + 1 \in Nat
    OBVIOUS
  <2> HIDE DEF Loop
  <2> QED BY <2>3, <2>4
<1>4. N \in T
  <2>1. N \in Nat
    OBVIOUS
  <2> HIDE DEF T, N
  <2> QED BY <1>2, <1>3, <2>1, SetInduction
<1>5. Loop(N, out)
  <2> HIDE DEF Loop
  <2> QED BY <1>4, Zenon
<1> HIDE DEF out
<1>6. out[0] = x /\ \A n \in 1..N : out[n] = Encode(rev, out[n - 1], bytes[n])
  BY <1>5
<1> QED BY <1>1, <1>6 DEF x

(* The loop of GetDleFrom.                                                  *)
LEMMA GetDleLoops ==
  ASSUME NEW rev, NEW g0, NEW count \in Nat
  PROVE  \E get : /\ get[0] = g0
                  /\ \A n \in 1..count :
                       get[n] = GetDleSome(rev, get[n - 1], count)
                  /\ GetDleFrom(rev, g0, count) = get[count]
<1> DEFINE x == g0
           Loop(k, g) == g = [n \in 0..k |->
                                IF n = 0 THEN x ELSE GetDleSome(rev, g[n - 1], count)]
           T == {k \in Nat : \E g : Loop(k, g)}
           N == count
           get == CHOOSE g : Loop(N, g)
<1>1. GetDleFrom(rev, g0, count) = get[N]
  BY DEF GetDleFrom
<1> HIDE DEF x
<1>2. 0 \in T
  <2> DEFINE g == [n \in 0..0 |-> x]
  <2>1. Loop(0, g)
    OBVIOUS
  <2> QED BY <2>1
<1>3. ASSUME NEW k \in Nat, k \in T PROVE k + 1 \in T
  <2>1. PICK g : Loop(k, g)
    BY <1>3
  <2> DEFINE h == [n \in 0..(k + 1) |->
                     IF n <= k THEN g[n] ELSE GetDleSome(rev, g[k], count)]
  <2>2. ASSUME NEW n \in 0..(k + 1)
        PROVE  h[n] = IF n = 0 THEN x ELSE GetDleSome(rev, h[n - 1], count)
    <3>1. CASE n = 0
      <4>1. 0 \in 0..k /\ 0 \in 0..(k + 1)
        OBVIOUS
      <4> QED BY <2>1, <3>1, <4>1
    <3>2. CASE n # 0 /\ n <= k
      <4>1. n \in 0..k /\ n - 1 \in 0..k /\ n - 1 \in 0..(k + 1) /\ n - 1 <= k
        BY <3>2
      <4>2. h[n] = g[n] /\ h[n - 1] = g[n - 1]
        BY <3>2, <4>1
      <4> HIDE DEF h
      <4> QED BY <2>1, <3>2, <4>1, <4>2
    <3>3. CASE n = k + 1
      <4>1. n - 1 = k /\ k \in 0..(k + 1) /\ ~(n <= k) /\ n # 0
        BY <3>3
      <4>2. h[n] = GetDleSome(rev, g[k], count) /\ h[k] = g[k]
        BY <4>1
      <4> HIDE DEF h
      <4> QED BY <4>1, <4>2
    <3>4. n = 0 \/ (n # 0 /\ n <= k) \/ n = k + 1
      OBVIOUS
    <3> QED BY <3>1, <3>2, <3>3, <3>4, Zenon
  <2>3. Loop(k + 1, h)
    <3>1. h = [n \in 0..(k + 1) |-> h[n]]
      OBVIOUS
    <3> HIDE DEF h
    <3> QED BY <2>2, <3>1
  <2>4. k + 1 \in Nat
    OBVIOUS
  <2> HIDE DEF Loop
  <2> QED BY <2>3, <2>4
<1>4. N \in T
  <2>1. N \in Nat
    OBVIOUS
  <2> HIDE DEF T, N
  <2> QED BY <1>2, <1>3, <2>1, SetInduction
<1>5. Loop(N, get)
  <2> HIDE DEF Loop
  <2> QED BY <1>4, Zenon
<1> HIDE DEF get
<1>6. get[0] = x /\ \A n \in 1..N : get[n] = GetDleSome(rev, get[n - 1], count)
  BY <1>5
<1> QED BY <1>1, <1>6 DEF x

-----------------------------------------------------------------------------
(* What DLE codes stand for, for the last k codes, by their first and        *)
(* second one.                                                              *)
FirstOf(codes, k) == codes[Len(codes) - k + 1]
SecondOf(codes, k) == codes[Len(codes) - k + 2]
IsDle == [Nothing EXCEPT !.dle = TRUE]
IsEnd == [Nothing EXCEPT !.end = TRUE]

(* The cases of MeaningOfLast.                                              *)
LEMMA MeaningCases ==
  ASSUME NEW rev, NEW codes, NEW k \in Nat, NEW rest, NEW rest2
  PROVE  /\ k = 0 => MeaningOfLast(rev, codes, k, rest, rest2) = Nothing
         /\ k > 0 /\ FirstOf(codes, k) # "DLE" =>
              MeaningOfLast(rev, codes, k, rest, rest2) = After(Rev(rev, FirstOf(codes, k)), rest)
         /\ k = 1 /\ FirstOf(codes, k) = "DLE" =>
              MeaningOfLast(rev, codes, k, rest, rest2) = IsDle
         /\ k > 1 /\ FirstOf(codes, k) = "DLE" /\ SecondOf(codes, k) = "DLE" =>
              MeaningOfLast(rev, codes, k, rest, rest2) = After(Rev(rev, "DLE"), rest2)
         /\ k > 1 /\ FirstOf(codes, k) = "DLE" /\ SecondOf(codes, k) = "ETX" =>
              MeaningOfLast(rev, codes, k, rest, rest2) = IsEnd
         /\ k > 1 /\ FirstOf(codes, k) = "DLE" /\ SecondOf(codes, k) \notin {"DLE", "ETX"} =>
              MeaningOfLast(rev, codes, k, rest, rest2) = rest2
<1> DEFINE m == MeaningOfLast(rev, codes, k, rest, rest2)
           c == FirstOf(codes, k)
           second == SecondOf(codes, k)
<1>1. m = CASE k = 0 -> Nothing
            [] k > 0 /\ c # "DLE" -> After(Rev(rev, c), rest)
            [] k = 1 /\ c = "DLE" -> IsDle
            [] k > 1 /\ c = "DLE" /\ second = "DLE" -> After(Rev(rev, "DLE"), rest2)
            [] k > 1 /\ c = "DLE" /\ second = "ETX" -> IsEnd
            [] k > 1 /\ c = "DLE" /\ second \notin {"DLE", "ETX"} -> rest2
  BY DEF MeaningOfLast, FirstOf, SecondOf, IsDle, IsEnd
<1> HIDE DEF m, c, second
<1>2. k = 0 => m = Nothing
  BY <1>1
<1>3. k > 0 /\ c # "DLE" => m = After(Rev(rev, c), rest)
  BY <1>1
<1>4. k = 1 /\ c = "DLE" => m = IsDle
  BY <1>1
<1>5. k > 1 /\ c = "DLE" /\ second = "DLE" => m = After(Rev(rev, "DLE"), rest2)
  BY <1>1
<1>6. k > 1 /\ c = "DLE" /\ second = "ETX" => m = IsEnd
  BY <1>1
<1>7. k > 1 /\ c = "DLE" /\ second \notin {"DLE", "ETX"} => m = rest2
  BY <1>1
<1> QED BY <1>2, <1>3, <1>4, <1>5, <1>6, <1>7 DEF m, c, second

(* A DLE that is the last code.                                             *)
LEMMA MeaningOfDle ==
  ASSUME NEW rev, NEW codes, NEW k \in Nat, NEW rest, NEW rest2,
         k = 1, FirstOf(codes, k) = "DLE"
  PROVE  MeaningOfLast(rev, codes, k, rest, rest2) = IsDle
BY MeaningCases

(* The end.                                                                 *)
LEMMA MeaningOfEnd ==
  ASSUME NEW rev, NEW codes, NEW k \in Nat, NEW rest, NEW rest2,
         k > 1, FirstOf(codes, k) = "DLE", SecondOf(codes, k) = "ETX"
  PROVE  MeaningOfLast(rev, codes, k, rest, rest2) = IsEnd
BY MeaningCases

(* A code that is dropped.                                                  *)
LEMMA MeaningOfNone ==
  ASSUME NEW rev, NEW codes, NEW k \in Nat, NEW rest, NEW rest2,
         k > 1, FirstOf(codes, k) = "DLE", SecondOf(codes, k) \notin {"DLE", "ETX"}
  PROVE  MeaningOfLast(rev, codes, k, rest, rest2) = rest2
<1> DEFINE c == FirstOf(codes, k)
           second == SecondOf(codes, k)
           e1 == After(Rev(rev, c), rest)
           e2 == After(Rev(rev, "DLE"), rest2)
<1>1. MeaningOfLast(rev, codes, k, rest, rest2) =
        CASE k = 0 -> Nothing
          [] k > 0 /\ c # "DLE" -> e1
          [] k = 1 /\ c = "DLE" -> IsDle
          [] k > 1 /\ c = "DLE" /\ second = "DLE" -> e2
          [] k > 1 /\ c = "DLE" /\ second = "ETX" -> IsEnd
          [] k > 1 /\ c = "DLE" /\ second \notin {"DLE", "ETX"} -> rest2
  BY DEF MeaningOfLast, FirstOf, SecondOf, IsDle, IsEnd
<1>2. k > 1 /\ c = "DLE" /\ second \notin {"DLE", "ETX"}
  OBVIOUS
<1> HIDE DEF c, second, e1, e2
<1> QED BY <1>1, <1>2

(* The loop of Meaning.                                                     *)
LEMMA MeaningLoops ==
  ASSUME NEW rev, NEW codes \in Seq(Byte)
  PROVE  \E last : /\ \A k \in 0..Len(codes) :
                        last[k] = MeaningOfLast(rev, codes, k, last[k - 1], last[k - 2])
                   /\ Meaning(rev, codes) = last[Len(codes)]
<1> DEFINE Of(k, rest, rest2) == MeaningOfLast(rev, codes, k, rest, rest2)
           Loop(k, g) == g = [n \in 0..k |-> Of(n, g[n - 1], g[n - 2])]
           T == {k \in Nat : \E g : Loop(k, g)}
           N == Len(codes)
           last == CHOOSE g : Loop(N, g)
<1>1. Meaning(rev, codes) = last[N]
  BY DEF Meaning
<1>2. ASSUME NEW k \in Nat, NEW a, NEW b, NEW a2, NEW b2
      PROVE  (k = 0 => Of(k, a, b) = Of(k, a2, b2)) /\ (k = 1 => Of(k, a, b) = Of(k, a, b2))
  <2>1. k = 0 => Of(k, a, b) = Nothing /\ Of(k, a2, b2) = Nothing
    BY MeaningCases
  <2>2. ASSUME k = 1 PROVE Of(k, a, b) = Of(k, a, b2)
    <3> DEFINE c == FirstOf(codes, k)
    <3>1. k > 0
      BY <2>2
    <3>2. CASE c = "DLE"
      <4>1. \A z : Of(k, a, z) = IsDle
        BY <2>2, <3>2, MeaningCases
      <4> QED BY <4>1, Zenon
    <3>3. CASE c # "DLE"
      <4>1. \A z : Of(k, a, z) = After(Rev(rev, c), a)
        BY <3>1, <3>3, MeaningCases
      <4> QED BY <4>1, Zenon
    <3> QED BY <3>2, <3>3, Zenon
  <2> QED BY <2>1, <2>2, Zenon
<1> HIDE DEF Of
<1>3. 0 \in T
  <2> DEFINE g == [n \in 0..0 |-> Of(0, 0, 0)]
  <2>1. Loop(0, g)
    <3>1. g = [n \in 0..0 |-> Of(n, g[n - 1], g[n - 2])]
      <4>1. ASSUME NEW n \in 0..0 PROVE g[n] = Of(n, g[n - 1], g[n - 2])
        <5>1. n = 0 /\ g[n] = Of(0, 0, 0)
          OBVIOUS
        <5> HIDE DEF g
        <5> QED BY <1>2, <5>1
      <4>2. g = [n \in 0..0 |-> g[n]]
        OBVIOUS
      <4> HIDE DEF g
      <4> QED BY <4>1, <4>2
    <3> QED BY <3>1
  <2> HIDE DEF Loop, g
  <2> QED BY <2>1
<1>4. ASSUME NEW k \in Nat, k \in T PROVE k + 1 \in T
  <2>1. PICK g : Loop(k, g)
    <3> HIDE DEF Loop
    <3> QED BY <1>4
  <2>2. \A n \in 0..k : g[n] = Of(n, g[n - 1], g[n - 2])
    BY <2>1
  <2> HIDE DEF Loop
  <2> DEFINE h == [n \in 0..(k + 1) |-> IF n <= k THEN g[n] ELSE Of(k + 1, g[k], g[k - 1])]
  <2>3. \A n \in 0..k : h[n] = g[n]
    OBVIOUS
  <2>4. h[k + 1] = Of(k + 1, g[k], g[k - 1])
    OBVIOUS
  <2>5. h = [n \in 0..(k + 1) |-> h[n]]
    OBVIOUS
  <2> HIDE DEF h
  <2>6. ASSUME NEW n \in 0..(k + 1) PROVE h[n] = Of(n, h[n - 1], h[n - 2])
    <3>1. CASE n = 0
      <4>1. h[0] = g[0] /\ g[0] = Of(0, g[0 - 1], g[0 - 2])
        BY <2>2, <2>3
      <4> QED BY <1>2, <3>1, <4>1
    <3>2. CASE n = 1 /\ n <= k
      <4>1. h[1] = g[1] /\ h[0] = g[0] /\ g[1] = Of(1, g[0], g[1 - 2])
        BY <2>2, <2>3, <3>2
      <4> QED BY <1>2, <3>2, <4>1
    <3>3. CASE n > 1 /\ n <= k
      <4>1. n \in 0..k /\ n - 1 \in 0..k /\ n - 2 \in 0..k
        BY <3>3
      <4> QED BY <2>2, <2>3, <4>1
    <3>4. CASE n = k + 1 /\ k = 0
      <4>1. h[1] = Of(1, g[0], g[0 - 1]) /\ h[0] = g[0]
        BY <2>3, <2>4, <3>4
      <4> QED BY <1>2, <3>4, <4>1
    <3>5. CASE n = k + 1 /\ k > 0
      <4>1. n - 1 = k /\ n - 2 = k - 1 /\ k \in 0..k /\ k - 1 \in 0..k
        BY <3>5
      <4> QED BY <2>3, <2>4, <3>5, <4>1
    <3>6. \/ n = 0 \/ (n = 1 /\ n <= k) \/ (n > 1 /\ n <= k)
          \/ (n = k + 1 /\ k = 0) \/ (n = k + 1 /\ k > 0)
      OBVIOUS
    <3> QED BY <3>1, <3>2, <3>3, <3>4, <3>5, <3>6, Zenon
  <2>7. Loop(k + 1, h)
    BY <2>5, <2>6 DEF Loop
  <2>8. k + 1 \in Nat
    OBVIOUS
  <2> QED BY <2>7, <2>8
<1>5. N \in T
  <2>1. N \in Nat
    OBVIOUS
  <2> HIDE DEF T, N
  <2> QED BY <1>3, <1>4, <2>1, SetInduction
<1>6. Loop(N, last)
  <2> HIDE DEF Loop
  <2> QED BY <1>5, Zenon
<1> HIDE DEF last
<1>7. \A k \in 0..N : last[k] = Of(k, last[k - 1], last[k - 2])
  BY <1>6
<1> QED BY <1>1, <1>7 DEF Of

Told == [bytes : Seq(Byte), end : BOOLEAN, dle : BOOLEAN]

(* The reversed byte of a byte is a byte, and its own reverse.              *)
LEMMA RevIs ==
  ASSUME NEW rev, NEW b \in Byte
  PROVE  Rev(rev, b) \in Byte /\ Rev(rev, Rev(rev, b)) = b
BY DEF Rev, Byte, BitRevTable

(* The meanings of no code, of a DLE alone, and of the end.                 *)
LEMMA ToldIs ==
  /\ Nothing \in Told /\ Nothing.bytes = <<>> /\ ~Nothing.end /\ ~Nothing.dle
  /\ IsDle \in Told /\ IsDle.bytes = <<>> /\ ~IsDle.end /\ IsDle.dle
  /\ IsEnd \in Told /\ IsEnd.bytes = <<>> /\ IsEnd.end /\ ~IsEnd.dle
<1>1. <<>> \in Seq(Byte)
  OBVIOUS
<1>2. Nothing \in Told /\ IsDle \in Told /\ IsEnd \in Told
  BY <1>1, Zenon DEF Told, Nothing, IsDle, IsEnd
<1>3. Nothing.bytes = <<>> /\ ~Nothing.end /\ ~Nothing.dle
  BY DEF Nothing
<1>4. IsDle.bytes = <<>> /\ ~IsDle.end /\ IsDle.dle
  BY DEF Nothing, IsDle
<1>5. IsEnd.bytes = <<>> /\ IsEnd.end /\ ~IsEnd.dle
  BY DEF Nothing, IsEnd
<1> QED BY <1>2, <1>3, <1>4, <1>5

(* A byte before the rest.                                                 *)
LEMMA AfterIs ==
  ASSUME NEW rest \in Told, NEW b \in Byte
  PROVE  /\ After(b, rest) \in Told /\ After(b, rest).bytes = <<b>> \o rest.bytes
         /\ (After(b, rest).end <=> rest.end) /\ (After(b, rest).dle <=> rest.dle)
<1>1. <<b>> \o rest.bytes \in Seq(Byte)
  BY DEF Told
<1>2. After(b, rest) \in Told
  BY <1>1, Zenon DEF Told, After
<1>3. After(b, rest).bytes = <<b>> \o rest.bytes
  BY DEF Told, After
<1>4. (After(b, rest).end <=> rest.end) /\ (After(b, rest).dle <=> rest.dle)
  BY DEF Told, After
<1> QED BY <1>2, <1>3, <1>4

(* A meaning has the types of its fields, if that of the rest has.           *)
LEMMA MeaningOfLastIs ==
  ASSUME NEW rev, NEW codes \in Seq(Byte), NEW k \in 0..Len(codes), NEW rest, NEW rest2,
         k > 0 => rest \in Told, k > 1 => rest2 \in Told
  PROVE  MeaningOfLast(rev, codes, k, rest, rest2) \in Told
<1> DEFINE c == FirstOf(codes, k)
           second == SecondOf(codes, k)
           m == MeaningOfLast(rev, codes, k, rest, rest2)
<1>1. k \in Nat /\ k <= Len(codes) /\ Len(codes) \in Nat
  OBVIOUS
<1> SUFFICES m \in Told
  OBVIOUS
<1>2. CASE k = 0
  <2>1. m = Nothing
    BY <1>1, <1>2, MeaningCases, Zenon
  <2> HIDE DEF m
  <2> QED BY <2>1, ToldIs
<1>3. CASE k > 0 /\ c # "DLE"
  <2>1. m = After(Rev(rev, c), rest)
    BY <1>1, <1>3, MeaningCases
  <2>2. c \in Byte
    <3>1. Len(codes) - k + 1 \in 1..Len(codes)
      BY <1>1, <1>3
    <3> QED BY <3>1 DEF FirstOf
  <2> HIDE DEF c, m
  <2> QED BY <1>3, <2>1, <2>2, RevIs, AfterIs
<1>4. CASE k = 1 /\ c = "DLE"
  <2>1. m = IsDle
    BY <1>1, <1>4, MeaningCases, Zenon
  <2> HIDE DEF m
  <2> QED BY <2>1, ToldIs
<1>5. CASE k > 1 /\ c = "DLE"
  <2>1. CASE second = "DLE"
    <3>1. m = After(Rev(rev, "DLE"), rest2)
      BY <1>1, <1>5, <2>1, MeaningCases
    <3>2. "DLE" \in Byte
      BY DEF Byte
    <3> HIDE DEF m
    <3> QED BY <1>5, <3>1, <3>2, RevIs, AfterIs
  <2>2. CASE second = "ETX"
    <3>1. m = IsEnd
      BY <1>1, <1>5, <2>2, MeaningOfEnd
    <3> HIDE DEF m
    <3> QED BY <3>1, ToldIs
  <2>3. CASE second \notin {"DLE", "ETX"}
    <3>1. m = rest2
      BY <1>1, <1>5, <2>3, MeaningOfNone
    <3> HIDE DEF m
    <3> QED BY <1>5, <3>1
  <2> HIDE DEF m, second
  <2> QED BY <2>1, <2>2, <2>3
<1> HIDE DEF m, c
<1>6. k = 0 \/ (k > 0 /\ c # "DLE") \/ (k = 1 /\ c = "DLE") \/ (k > 1 /\ c = "DLE")
  BY <1>1
<1> QED BY <1>2, <1>3, <1>4, <1>5, <1>6, Zenon

(* So has that of every tail of the codes.                                  *)
LEMMA MeaningIs ==
  ASSUME NEW rev, NEW codes \in Seq(Byte), NEW last,
         \A k \in 0..Len(codes) :
           last[k] = MeaningOfLast(rev, codes, k, last[k - 1], last[k - 2])
  PROVE  \A k \in 0..Len(codes) : last[k] \in Told
<1> DEFINE N == Len(codes)
           T == {k \in Nat : \A j \in 0..k : j <= N => last[j] \in Told}
<1>1. N \in Nat
  OBVIOUS
<1>2. ASSUME NEW k \in 0..N, \A j \in 0..N : j < k => last[j] \in Told
      PROVE  last[k] \in Told
  <2> DEFINE y == last[k - 1]
             z == last[k - 2]
  <2>1. last[k] = MeaningOfLast(rev, codes, k, y, z)
    OBVIOUS
  <2>2. (k > 0 => y \in Told) /\ (k > 1 => z \in Told)
    BY <1>1, <1>2
  <2> HIDE DEF y, z
  <2> QED BY <2>1, <2>2, MeaningOfLastIs
<1>3. 0 \in T
  BY <1>1, <1>2
<1>4. ASSUME NEW k \in Nat, k \in T PROVE k + 1 \in T
  <2>1. k + 1 <= N => last[k + 1] \in Told
    BY <1>1, <1>2, <1>4
  <2> QED BY <1>4, <2>1
<1>5. N \in T
  <2> HIDE DEF T, N
  <2> QED BY <1>1, <1>3, <1>4, SetInduction
<1> QED BY <1>1, <1>5

(* w is what codes with meaning m stand for with c after them: the byte, the *)
(* end, or a DLE that waits; nothing counts after the end.                  *)
Extends(rev, m, c, w) ==
  /\ (~m.end /\ (m.dle <=> c = "DLE")) => w.bytes = Append(m.bytes, Rev(rev, c))
  /\ ~(~m.end /\ (m.dle <=> c = "DLE")) => w.bytes = m.bytes
  /\ w.end <=> (m.end \/ (m.dle /\ c = "ETX"))
  /\ w.dle <=> (~m.end /\ ~m.dle /\ c = "DLE")

(* A byte before both.                                                      *)
LEMMA ExtendsAfter ==
  ASSUME NEW rev, NEW c \in Byte, NEW b \in Byte, NEW m \in Told, NEW w \in Told,
         Extends(rev, m, c, w)
  PROVE  Extends(rev, After(b, m), c, After(b, w))
<1> DEFINE x == Rev(rev, c)
           s == m.bytes
           t == w.bytes
           m2 == After(b, m)
           w2 == After(b, w)
<1>1. /\ m2.bytes = <<b>> \o s /\ (m2.end <=> m.end) /\ (m2.dle <=> m.dle)
      /\ w2.bytes = <<b>> \o t /\ (w2.end <=> w.end) /\ (w2.dle <=> w.dle)
  BY AfterIs
<1>2. s \in Seq(Byte) /\ t \in Seq(Byte) /\ x \in Byte
  BY RevIs DEF Told
<1>3. /\ (~m.end /\ (m.dle <=> c = "DLE")) => t = Append(s, x)
      /\ ~(~m.end /\ (m.dle <=> c = "DLE")) => t = s
      /\ w.end <=> (m.end \/ (m.dle /\ c = "ETX"))
      /\ w.dle <=> (~m.end /\ ~m.dle /\ c = "DLE")
  BY DEF Extends
<1> HIDE DEF x, s, t, m2, w2
<1>4. <<b>> \o Append(s, x) = Append(<<b>> \o s, x)
  <2>1. Append(s, x) = s \o <<x>> /\ <<x>> \in Seq(Byte)
    BY <1>2, SeqAppend
  <2>2. <<b>> \o s \in Seq(Byte) /\ <<b>> \in Seq(Byte)
    BY <1>2
  <2>3. Append(<<b>> \o s, x) = (<<b>> \o s) \o <<x>>
    BY <1>2, <2>2, SeqAppend
  <2> QED BY <1>2, <2>1, <2>2, <2>3, ConcatAssociative
<1>5. /\ (~m2.end /\ (m2.dle <=> c = "DLE")) => w2.bytes = Append(m2.bytes, x)
      /\ ~(~m2.end /\ (m2.dle <=> c = "DLE")) => w2.bytes = m2.bytes
  BY <1>1, <1>3, <1>4
<1>6. /\ w2.end <=> (m2.end \/ (m2.dle /\ c = "ETX"))
      /\ w2.dle <=> (~m2.end /\ ~m2.dle /\ c = "DLE")
  BY <1>1, <1>3
<1> QED BY <1>5, <1>6 DEF Extends, x, m2, w2

(* One code after the last k ones.                                          *)
LEMMA MeaningStep ==
  ASSUME NEW rev, NEW codes \in Seq(Byte), NEW c \in Byte, NEW k \in 0..Len(codes),
         NEW rest, NEW rest2, NEW more, NEW more2,
         k > 0 => rest \in Told /\ more \in Told /\ Extends(rev, rest, c, more),
         k > 1 => rest2 \in Told /\ more2 \in Told /\ Extends(rev, rest2, c, more2),
         k = 0 => more = Nothing, k = 1 => more2 = Nothing
  PROVE  Extends(rev, MeaningOfLast(rev, codes, k, rest, rest2), c,
                 MeaningOfLast(rev, Append(codes, c), k + 1, more, more2))
<1> DEFINE codes2 == Append(codes, c)
           m == MeaningOfLast(rev, codes, k, rest, rest2)
           w == MeaningOfLast(rev, codes2, k + 1, more, more2)
           a == FirstOf(codes, k)
           b == SecondOf(codes, k)
           a2 == FirstOf(codes2, k + 1)
           b2 == SecondOf(codes2, k + 1)
<1> SUFFICES Extends(rev, m, c, w)
  OBVIOUS
<1>1. k \in Nat /\ k <= Len(codes) /\ k + 1 \in Nat /\ Len(codes) \in Nat
  OBVIOUS
<1>2. /\ Len(codes2) = Len(codes) + 1 /\ codes2 \in Seq(Byte)
      /\ codes2[Len(codes) + 1] = c
      /\ \A i \in 1..Len(codes) : codes2[i] = codes[i] /\ codes[i] \in Byte
  OBVIOUS
<1>3. /\ a2 = codes2[Len(codes) - k + 1] /\ b2 = codes2[Len(codes) - k + 2]
      /\ a = codes[Len(codes) - k + 1] /\ b = codes[Len(codes) - k + 2]
  <2>1. /\ Len(codes) + 1 - (k + 1) + 1 = Len(codes) - k + 1
        /\ Len(codes) + 1 - (k + 1) + 2 = Len(codes) - k + 2
    BY <1>1
  <2> QED BY <1>2, <2>1 DEF FirstOf, SecondOf
<1> DEFINE n == Len(codes)
<1> HIDE DEF codes2, n
<1>4. k = 0 => a2 = c
  BY <1>1, <1>2, <1>3 DEF n
<1>5. k > 0 => a2 = a /\ a \in Byte
  <2>1. k > 0 => Len(codes) - k + 1 \in 1..Len(codes)
    BY <1>1
  <2> QED BY <1>2, <1>3, <2>1
<1>6. k = 1 => b2 = c
  <2>1. k = 1 => Len(codes) - k + 2 = Len(codes) + 1
    BY <1>1
  <2> QED BY <1>2, <1>3, <2>1
<1>7. k > 1 => b2 = b /\ b \in Byte
  <2>1. k > 1 => Len(codes) - k + 2 \in 1..Len(codes)
    BY <1>1
  <2> QED BY <1>2, <1>3, <2>1
<1>8. CASE k = 0
  <2>1. m = Nothing
    BY <1>1, <1>8, MeaningCases
  <2>2. CASE c = "DLE"
    <3>1. w = IsDle
      <4>1. k + 1 = 1 /\ a2 = "DLE"
        BY <1>4, <1>8, <2>2
      <4> DEFINE j == k + 1
      <4>2. j \in Nat /\ j = 1 /\ FirstOf(codes2, j) = "DLE"
        BY <1>1, <4>1
      <4> HIDE DEF j
      <4>3. MeaningOfLast(rev, codes2, j, more, more2) = IsDle
        BY <4>2, MeaningOfDle
      <4> QED BY <4>3 DEF j
    <3> HIDE DEF m, w
    <3> QED BY <2>1, <2>2, <3>1, ToldIs DEF Extends
  <2>3. CASE c # "DLE"
    <3>1. w = After(Rev(rev, c), Nothing)
      <4>1. k + 1 > 0 /\ a2 # "DLE" /\ a2 = c /\ more = Nothing
        BY <1>4, <1>8, <2>3
      <4> QED BY <1>1, <4>1, MeaningCases
    <3>2. Rev(rev, c) \in Byte
      BY RevIs
    <3> HIDE DEF m, w
    <3>3. w.bytes = <<Rev(rev, c)>> \o <<>> /\ ~w.end /\ ~w.dle
      <4> DEFINE x == Rev(rev, c)
      <4> HIDE DEF x
      <4>1. /\ After(x, Nothing).bytes = <<x>> \o Nothing.bytes
            /\ (After(x, Nothing).end <=> Nothing.end)
            /\ (After(x, Nothing).dle <=> Nothing.dle)
        BY <3>2, ToldIs, AfterIs DEF x
      <4> QED BY <3>1, <4>1, ToldIs DEF x
    <3>4. w.bytes = Append(<<>>, Rev(rev, c))
      BY <3>2, <3>3
    <3> QED BY <2>1, <2>3, <3>3, <3>4, ToldIs DEF Extends
  <2> QED BY <2>2, <2>3
<1>9. CASE k > 0 /\ a # "DLE"
  <2>1. m = After(Rev(rev, a), rest)
    BY <1>1, <1>9, MeaningCases
  <2>2. w = After(Rev(rev, a), more)
    <3>1. k + 1 > 0 /\ a2 # "DLE" /\ a2 = a
      BY <1>1, <1>5, <1>9
    <3> QED BY <1>1, <3>1, MeaningCases
  <2>3. Rev(rev, a) \in Byte
    BY <1>5, <1>9, RevIs
  <2> HIDE DEF m, w, a
  <2> QED BY <1>9, <2>1, <2>2, <2>3, ExtendsAfter
<1>10. CASE k = 1 /\ a = "DLE"
  <2>1. m = IsDle
    BY <1>1, <1>10, MeaningCases, Zenon
  <2>2. k + 1 > 1 /\ a2 = "DLE" /\ b2 = c /\ more2 = Nothing
    BY <1>1, <1>5, <1>6, <1>10
  <2>3. CASE c = "DLE"
    <3>1. w = After(Rev(rev, c), Nothing)
      BY <1>1, <2>2, <2>3, MeaningCases
    <3>2. Rev(rev, c) \in Byte
      BY RevIs
    <3> HIDE DEF m, w
    <3>3. w.bytes = <<Rev(rev, c)>> \o <<>> /\ ~w.end /\ ~w.dle
      <4> DEFINE x == Rev(rev, c)
      <4> HIDE DEF x
      <4>1. /\ After(x, Nothing).bytes = <<x>> \o Nothing.bytes
            /\ (After(x, Nothing).end <=> Nothing.end)
            /\ (After(x, Nothing).dle <=> Nothing.dle)
        BY <3>2, ToldIs, AfterIs DEF x
      <4> QED BY <3>1, <4>1, ToldIs DEF x
    <3>4. w.bytes = Append(<<>>, Rev(rev, c))
      BY <3>2, <3>3
    <3> QED BY <2>1, <2>3, <3>3, <3>4, ToldIs DEF Extends
  <2>4. CASE c = "ETX"
    <3>1. w = IsEnd
      BY <1>1, <2>2, <2>4, MeaningOfEnd
    <3> HIDE DEF m, w
    <3> QED BY <2>1, <2>4, <3>1, ToldIs DEF Extends
  <2>5. CASE c \notin {"DLE", "ETX"}
    <3>1. w = Nothing
      BY <1>1, <2>2, <2>5, MeaningOfNone
    <3> HIDE DEF m, w
    <3> QED BY <2>1, <2>5, <3>1, ToldIs DEF Extends
  <2> HIDE DEF m, w
  <2> QED BY <2>3, <2>4, <2>5
<1>11. CASE k > 1 /\ a = "DLE"
  <2>1. k + 1 > 1 /\ a2 = "DLE" /\ b2 = b /\ b \in Byte
    BY <1>1, <1>5, <1>7, <1>11
  <2>2. CASE b = "DLE"
    <3>1. m = After(Rev(rev, "DLE"), rest2)
      BY <1>1, <1>11, <2>2, MeaningCases
    <3>2. w = After(Rev(rev, "DLE"), more2)
      BY <1>1, <2>1, <2>2, MeaningCases
    <3>3. Rev(rev, "DLE") \in Byte
      BY <2>1, <2>2, RevIs
    <3> HIDE DEF m, w
    <3> QED BY <1>11, <3>1, <3>2, <3>3, ExtendsAfter
  <2>3. CASE b = "ETX"
    <3>1. m = IsEnd /\ w = IsEnd
      BY <1>1, <1>11, <2>1, <2>3, MeaningOfEnd
    <3> HIDE DEF m, w
    <3> QED BY <3>1, ToldIs DEF Extends
  <2>4. CASE b \notin {"DLE", "ETX"}
    <3>1. m = rest2 /\ w = more2
      BY <1>1, <1>11, <2>1, <2>4, MeaningOfNone
    <3> HIDE DEF m, w
    <3> QED BY <1>11, <3>1
  <2> HIDE DEF m, w, b
  <2> QED BY <2>2, <2>3, <2>4
<1> HIDE DEF m, w, a
<1>12. k = 0 \/ (k > 0 /\ a # "DLE") \/ (k = 1 /\ a = "DLE") \/ (k > 1 /\ a = "DLE")
  BY <1>1
<1> QED BY <1>8, <1>9, <1>10, <1>11, <1>12, Zenon

(* What codes stand for with one more code after them.                      *)
LEMMA MeaningAppend ==
  ASSUME NEW rev, NEW codes \in Seq(Byte), NEW c \in Byte
  PROVE  /\ Meaning(rev, codes) \in Told /\ Meaning(rev, Append(codes, c)) \in Told
         /\ Extends(rev, Meaning(rev, codes), c, Meaning(rev, Append(codes, c)))
<1> DEFINE codes2 == Append(codes, c)
           N == Len(codes)
<1>1. codes2 \in Seq(Byte) /\ Len(codes2) = N + 1 /\ N \in Nat
  OBVIOUS
<1>2. PICK last : /\ \A k \in 0..N :
                       last[k] = MeaningOfLast(rev, codes, k, last[k - 1], last[k - 2])
                  /\ Meaning(rev, codes) = last[N]
  BY MeaningLoops
<1>3. PICK more : /\ \A k \in 0..(N + 1) :
                       more[k] = MeaningOfLast(rev, codes2, k, more[k - 1], more[k - 2])
                  /\ Meaning(rev, codes2) = more[N + 1]
  <2> HIDE DEF codes2, N
  <2> QED BY <1>1, MeaningLoops
<1>4. \A k \in 0..N : last[k] \in Told
  BY <1>2, MeaningIs
<1>5. \A k \in 0..(N + 1) : more[k] \in Told
  <2> HIDE DEF codes2, N
  <2> QED BY <1>1, <1>3, MeaningIs
<1> DEFINE Good(k) == Extends(rev, last[k], c, more[k + 1])
           T == {k \in Nat : \A j \in 0..k : j <= N => Good(j)}
<1>6. more[0] = Nothing
  <2> DEFINE y == more[0 - 1]
             z == more[0 - 2]
  <2>1. more[0] = MeaningOfLast(rev, codes2, 0, y, z)
    BY <1>1, <1>3
  <2> HIDE DEF y, z, codes2
  <2> QED BY <2>1, MeaningCases
<1> HIDE DEF codes2, N
<1>7. ASSUME NEW k \in 0..N, \A j \in 0..N : j < k => Good(j) PROVE Good(k)
  <2> DEFINE x == last[k - 1]
             x2 == last[k - 2]
             y == more[k]
             y2 == more[k - 1]
  <2>1. k \in 0..(N + 1) /\ k + 1 \in 0..(N + 1) /\ k + 1 - 1 = k /\ k + 1 - 2 = k - 1
    BY <1>1
  <2>2. last[k] = MeaningOfLast(rev, codes, k, x, x2)
    BY <1>2
  <2>3. more[k + 1] = MeaningOfLast(rev, codes2, k + 1, y, y2)
    BY <1>3, <2>1
  <2>4. k > 0 => x \in Told /\ y \in Told /\ Extends(rev, x, c, y)
    <3> SUFFICES ASSUME k > 0 PROVE x \in Told /\ y \in Told /\ Extends(rev, x, c, y)
      OBVIOUS
    <3>1. k - 1 \in 0..N /\ k - 1 < k /\ k - 1 + 1 = k
      BY <1>1
    <3>2. Good(k - 1)
      BY <1>7, <3>1
    <3> QED BY <1>4, <1>5, <2>1, <3>1, <3>2
  <2>5. k > 1 => x2 \in Told /\ y2 \in Told /\ Extends(rev, x2, c, y2)
    <3> SUFFICES ASSUME k > 1 PROVE x2 \in Told /\ y2 \in Told /\ Extends(rev, x2, c, y2)
      OBVIOUS
    <3>1. k - 2 \in 0..N /\ k - 2 < k /\ k - 2 + 1 = k - 1 /\ k - 1 \in 0..(N + 1)
      BY <1>1
    <3>2. Good(k - 2)
      BY <1>7, <3>1
    <3> QED BY <1>4, <1>5, <3>1, <3>2
  <2>6. (k = 0 => y = Nothing) /\ (k = 1 => y2 = Nothing)
    BY <1>6
  <2> HIDE DEF x, x2, y, y2
  <2> QED BY <2>2, <2>3, <2>4, <2>5, <2>6, MeaningStep DEF codes2, N
<1> HIDE DEF Good
<1>8. 0 \in T
  BY <1>1, <1>7
<1>9. ASSUME NEW k \in Nat, k \in T PROVE k + 1 \in T
  <2>1. k + 1 <= N => Good(k + 1)
    BY <1>1, <1>7, <1>9
  <2> QED BY <1>9, <2>1
<1>10. N \in T
  <2> HIDE DEF T
  <2> QED BY <1>1, <1>8, <1>9, SetInduction
<1>11. Good(N) /\ N \in 0..N /\ N + 1 \in 0..(N + 1)
  BY <1>1, <1>10
<1> QED BY <1>2, <1>3, <1>4, <1>5, <1>11 DEF Good, codes2, N

(* No codes stand for nothing.                                              *)
LEMMA MeaningEmpty ==
  ASSUME NEW rev
  PROVE  /\ Meaning(rev, <<>>).bytes = <<>>
         /\ ~Meaning(rev, <<>>).end /\ ~Meaning(rev, <<>>).dle
<1>1. <<>> \in Seq(Byte) /\ Len(<<>>) = 0
  OBVIOUS
<1>2. PICK last : /\ \A k \in 0..Len(<<>>) :
                       last[k] = MeaningOfLast(rev, <<>>, k, last[k - 1], last[k - 2])
                  /\ Meaning(rev, <<>>) = last[Len(<<>>)]
  BY <1>1, MeaningLoops
<1> DEFINE y == last[0 - 1]
           z == last[0 - 2]
<1>3. last[0] = MeaningOfLast(rev, <<>>, 0, y, z) /\ Meaning(rev, <<>>) = last[0]
  BY <1>1, <1>2
<1> HIDE DEF y, z
<1>4. Meaning(rev, <<>>) = Nothing
  BY <1>3, MeaningCases
<1> QED BY <1>4, ToldIs

-----------------------------------------------------------------------------
(* Bytes, other ones, and one more.                                         *)
LEMMA ConcatAppend ==
  ASSUME NEW s \in Seq(Byte), NEW t \in Seq(Byte), NEW b \in Byte
  PROVE  Append(s \o t, b) = s \o Append(t, b) /\ s \o t \in Seq(Byte)
<1>1. Append(t, b) = t \o <<b>> /\ <<b>> \in Seq(Byte) /\ s \o t \in Seq(Byte)
  BY SeqAppend
<1>2. Append(s \o t, b) = (s \o t) \o <<b>>
  BY <1>1, SeqAppend
<1> QED BY <1>1, <1>2, ConcatAssociative

(* PutEof: only eof is new.                                                 *)
LEMMA PutEofIs ==
  ASSUME NEW d, StreamOK(d)
  PROVE  StreamOK(PutEof(d)) /\ Content(PutEof(d)) = Content(d) /\ PutEof(d).eof
<1> DEFINE e == PutEof(d)
<1>1. d \in Stream
  BY DEF StreamOK
<1>2. e \in Stream
  BY <1>1, Zenon DEF PutEof, Stream
<1>3. /\ e.heap = d.heap /\ e.firstBuf = d.firstBuf /\ e.bufQ = d.bufQ
      /\ e.lastBuf = d.lastBuf /\ e.busy = d.busy
  BY <1>1 DEF PutEof, Stream
<1>4. e.eof
  BY <1>1 DEF PutEof, Stream
<1> HIDE DEF e
<1>5. Chain(e) = Chain(d)
  BY <1>3 DEF Chain
<1>6. \A i : At(e, i) = At(d, i)
  BY <1>3, <1>5 DEF At
<1>7. StartOf(e) = StartOf(d) /\ EndOf(e) = EndOf(d)
  BY <1>3, <1>5 DEF StartOf, EndOf
<1>8. StreamOK(e)
  <2>1. Linked(e)
    BY <1>3, <1>5 DEF StreamOK, Linked
  <2>2. Filled(e)
    BY <1>3, <1>5, <1>6 DEF StreamOK, Filled
  <2>3. Counted(e)
    BY <1>3, <1>5, <1>6, <1>7 DEF StreamOK, Counted
  <2> QED BY <1>2, <2>1, <2>2, <2>3 DEF StreamOK
<1>9. \A p : ByteAt(e, p) = ByteAt(d, p)
  BY <1>3, <1>5 DEF ByteAt
<1>10. Content(e) = Content(d)
  BY <1>3, <1>7, <1>9 DEF Content
<1> QED BY <1>4, <1>8, <1>10 DEF e

(* EmptyStream, after Clean.                                                *)
LEMMA EmptyStreamIs ==
  StreamOK(EmptyStream) /\ Content(EmptyStream) = <<>> /\ ~EmptyStream.eof
<1> DEFINE e == EmptyStream
<1>1. e \in Stream
  <2>1. <<>> \in Heap
    <3>1. <<>> \in [{} -> Chunk] /\ {} \in SUBSET Address
      OBVIOUS
    <3> QED BY <3>1, HeapMade
  <2>2. <<>> \in Seq(Address) /\ 0 \in Nat
    OBVIOUS
  <2> QED BY <2>1, <2>2, Zenon DEF EmptyStream, Stream, NULL
<1>2. /\ e.firstBuf = NULL /\ e.bufQ = <<>> /\ e.lastBuf = NULL /\ e.busy = 0
      /\ e.heap = <<>>
  BY DEF EmptyStream
<1>3. ~e.eof
  BY DEF EmptyStream
<1>4. DOMAIN e.heap = {}
  BY <1>2
<1> QED BY <1>1, <1>2, <1>3, <1>4, EmptyOK

(* What the codes before and what is in the stream tell: all that was sent. *)
Sent(rev, codes, out, p) ==
  /\ StreamOK(p.d)
  /\ Meaning(rev, codes).bytes = out \o Content(p.d)
  /\ Meaning(rev, codes).end <=> p.d.eof
  /\ Meaning(rev, codes).dle <=> p.dle

(* A code is put: the count, the dle that waits, and the stream.            *)
LEMMA PutDleByteIs ==
  ASSUME NEW rev, NEW p, NEW b \in Byte, ~p.d.eof
  PROVE  LET q == PutDleByte(rev, p, b)
         IN /\ q.n = p.n + 1 /\ (q.dle <=> (~p.dle /\ b = "DLE"))
            /\ q.d = CASE p.dle /\ b = "ETX"   -> PutEof(p.d)
                       [] p.dle <=> b = "DLE" -> PutByte(p.d, Rev(rev, b))
                       [] OTHER               -> p.d
<1> DEFINE q == PutDleByte(rev, p, b)
           x == Rev(rev, b)
           y == CASE p.dle /\ b = "ETX"   -> PutEof(p.d)
                  [] p.dle <=> b = "DLE" -> PutByte(p.d, x)
                  [] OTHER               -> p.d
<1>1. q = [n |-> p.n + 1, dle |-> ~p.dle /\ b = "DLE", d |-> y]
  BY DEF PutDleByte
<1> HIDE DEF q, y
<1>2. q.n = p.n + 1 /\ (q.dle <=> (~p.dle /\ b = "DLE")) /\ q.d = y
  BY <1>1
<1> QED BY <1>2 DEF q, y

(* The stream gets no more than the byte.                                   *)
LEMMA PutDleByteKeeps ==
  ASSUME NEW rev, NEW p, NEW b \in Byte, ~p.d.eof, StreamOK(p.d)
  PROVE  \/ Content(PutDleByte(rev, p, b).d) = Content(p.d)
         \/ Content(PutDleByte(rev, p, b).d) = Append(Content(p.d), Rev(rev, b))
<1> DEFINE q == PutDleByte(rev, p, b)
           x == Rev(rev, b)
<1>1. q.d = CASE p.dle /\ b = "ETX"   -> PutEof(p.d)
              [] p.dle <=> b = "DLE" -> PutByte(p.d, x)
              [] OTHER               -> p.d
  BY PutDleByteIs
<1>2. x \in Byte
  BY RevIs
<1> HIDE DEF q, x
<1>3. q.d = PutEof(p.d) \/ q.d = PutByte(p.d, x) \/ q.d = p.d
  BY <1>1
<1>4. /\ Content(PutEof(p.d)) = Content(p.d)
      /\ Content(PutByte(p.d, x)) = Append(Content(p.d), x)
  BY <1>2, PutByteAdds, PutEofIs
<1>5. Content(q.d) = Content(p.d) \/ Content(q.d) = Append(Content(p.d), x)
  BY <1>3, <1>4, Zenon
<1> QED BY <1>5 DEF q, x

(* It gets what the code stands for.                                        *)
LEMMA PutDleByteMeans ==
  ASSUME NEW rev, NEW codes \in Seq(Byte), NEW out \in Seq(Byte), NEW p, NEW b \in Byte,
         Sent(rev, codes, out, p), ~p.d.eof
  PROVE  Sent(rev, Append(codes, b), out, PutDleByte(rev, p, b))
<1> DEFINE m == Meaning(rev, codes)
           w == Meaning(rev, Append(codes, b))
           q == PutDleByte(rev, p, b)
           x == Rev(rev, b)
           u == Content(p.d)
<1>1. StreamOK(p.d) /\ m.bytes = out \o u /\ ~m.end /\ (m.dle <=> p.dle)
  BY DEF Sent
<1>2. Extends(rev, m, b, w) /\ x \in Byte /\ u \in Seq(Byte)
  BY <1>1, MeaningAppend, RevIs, ContentIs
<1>3. (q.dle <=> (~p.dle /\ b = "DLE"))
  BY PutDleByteIs
<1>4. q.d = CASE p.dle /\ b = "ETX"   -> PutEof(p.d)
              [] p.dle <=> b = "DLE" -> PutByte(p.d, x)
              [] OTHER               -> p.d
  BY PutDleByteIs
<1> HIDE DEF m, w, q, x
<1>6. (w.dle <=> q.dle) /\ (w.end <=> (m.dle /\ b = "ETX"))
  BY <1>1, <1>2, <1>3 DEF Extends
<1>7. CASE p.dle /\ b = "ETX"
  <2>1. q.d = PutEof(p.d)
    BY <1>4, <1>7
  <2>2. StreamOK(q.d) /\ Content(q.d) = u /\ q.d.eof
    BY <1>1, <2>1, PutEofIs
  <2>3. w.bytes = m.bytes
    BY <1>1, <1>2, <1>7 DEF Extends
  <2> QED BY <1>1, <1>6, <1>7, <2>2, <2>3 DEF Sent, w, q
<1>8. CASE ~(p.dle /\ b = "ETX") /\ (p.dle <=> b = "DLE")
  <2>1. q.d = PutByte(p.d, x)
    BY <1>4, <1>8
  <2>2. StreamOK(q.d) /\ Content(q.d) = Append(u, x) /\ q.d.eof = p.d.eof
    BY <1>1, <1>2, <2>1, PutByteAdds
  <2>3. w.bytes = Append(out \o u, x)
    BY <1>1, <1>2, <1>8 DEF Extends, x
  <2> HIDE DEF u
  <2>4. Append(out \o u, x) = out \o Append(u, x)
    BY <1>2, ConcatAppend
  <2>5. ~w.end /\ ~q.d.eof
    BY <1>1, <1>6, <1>8, <2>2
  <2> QED BY <1>6, <2>2, <2>3, <2>4, <2>5 DEF Sent, w, q, u
<1>9. CASE ~(p.dle /\ b = "ETX") /\ ~(p.dle <=> b = "DLE")
  <2>1. q.d = p.d
    BY <1>4, <1>9
  <2>2. w.bytes = m.bytes
    BY <1>1, <1>2, <1>9 DEF Extends
  <2>3. ~w.end
    BY <1>1, <1>6, <1>9
  <2> QED BY <1>1, <1>6, <2>1, <2>2, <2>3 DEF Sent, w, q
<1> QED BY <1>7, <1>8, <1>9, Zenon

(* q is p after those of the bytes up to the end.                           *)
PutFrom(rev, codes, out, p, bytes, q) ==
  /\ Sent(rev, codes \o SubSeq(bytes, 1, q.n), out, q)
  /\ q.n \in 0..Len(bytes)
  /\ \E t \in Seq(Byte) : Content(q.d) = Content(p.d) \o t

(* PutDleData's loop: the stream gets what its bytes stand for after those  *)
(* of earlier calls, up to the end.                                         *)
LEMMA PutDleMeans ==
  ASSUME NEW rev, NEW codes \in Seq(Byte), NEW out \in Seq(Byte), NEW bytes \in Seq(Byte),
         NEW p, Sent(rev, codes, out, p), NEW q, q = PutDleFrom(rev, p, bytes), p.n = 0
  PROVE  PutFrom(rev, codes, out, p, bytes, q)
<1>1. PICK put : /\ put[0] = p
                 /\ \A n \in 1..Len(bytes) :
                      put[n] = PutDleByte(rev, put[n - 1], bytes[n])
                 /\ PutDleFrom(rev, p, bytes) = put[Len(bytes)]
  BY PutDleLoops
<1> DEFINE N == Len(bytes)
           u == Content(p.d)
<1>2. u \in Seq(Byte) /\ N \in Nat
  <2>1. StreamOK(p.d)
    BY DEF Sent
  <2> QED BY <2>1, ContentIs
<1> DEFINE Good(n) == /\ put[n].n \in 0..n /\ (~put[n].d.eof => put[n].n = n)
                      /\ Sent(rev, codes \o SubSeq(bytes, 1, put[n].n), out, put[n])
                      /\ \E t \in Seq(Byte) : Content(put[n].d) = u \o t
           T == {n \in Nat : n <= N => Good(n)}
<1>3. Good(0)
  <2>1. SubSeq(bytes, 1, 0) = <<>> /\ <<>> \in Seq(Byte)
    OBVIOUS
  <2>2. codes \o <<>> = codes /\ u \o <<>> = u
    BY <1>2
  <2>3. \E t \in Seq(Byte) : u = u \o t
    BY <2>1, <2>2
  <2>4. p.n \in 0..0 /\ p.n = 0
    OBVIOUS
  <2>5. Sent(rev, codes \o SubSeq(bytes, 1, p.n), out, p)
    BY <2>1, <2>2, <2>4
  <2> HIDE DEF u
  <2> DEFINE p0 == put[0]
  <2>6. /\ p0.n \in 0..0 /\ p0.n = 0
        /\ Sent(rev, codes \o SubSeq(bytes, 1, p0.n), out, p0)
        /\ Content(p0.d) = u
    BY <1>1, <2>4, <2>5 DEF u
  <2> HIDE DEF p0
  <2> QED BY <2>3, <2>6 DEF p0
<1> HIDE DEF Good
<1>4. ASSUME NEW n \in Nat, n + 1 <= N, Good(n) PROVE Good(n + 1)
  <2> DEFINE r == put[n]
             q1 == put[n + 1]
             b == bytes[n + 1]
             sofar == codes \o SubSeq(bytes, 1, r.n)
  <2>1. n + 1 \in 1..N /\ (n + 1) - 1 = n
    BY <1>2, <1>4
  <2>2. q1 = PutDleByte(rev, r, b) /\ b \in Byte
    BY <1>1, <2>1
  <2>3. PICK t \in Seq(Byte) : Content(r.d) = u \o t
    BY <1>4 DEF Good
  <2>4. r.n \in 0..n /\ (~r.d.eof => r.n = n) /\ Sent(rev, sofar, out, r)
    BY <1>4 DEF Good
  <2> SUFFICES /\ q1.n \in 0..(n + 1) /\ (~q1.d.eof => q1.n = n + 1)
               /\ Sent(rev, codes \o SubSeq(bytes, 1, q1.n), out, q1)
               /\ \E s \in Seq(Byte) : Content(q1.d) = u \o s
    BY DEF Good
  <2>5. CASE r.d.eof
    <3> HIDE DEF r, q1, b, u
    <3>1. q1 = r
      BY <2>2, <2>5 DEF PutDleByte
    <3>2. r.n \in 0..(n + 1)
      BY <2>4
    <3> HIDE DEF N
    <3> QED BY <2>3, <2>4, <2>5, <3>1, <3>2
  <2>6. CASE ~r.d.eof
    <3> DEFINE sub == SubSeq(bytes, 1, n)
    <3>1. SubSeq(bytes, 1, n + 1) = Append(sub, b) /\ sub \in Seq(Byte)
      BY <1>2, <2>1
    <3>2. r.n = n /\ r.n \in Nat
      BY <2>4, <2>6
    <3>3. sofar = codes \o sub
      BY <3>2
    <3> HIDE DEF b, u, N
    <3>4. Append(sofar, b) = codes \o SubSeq(bytes, 1, n + 1) /\ sofar \in Seq(Byte)
      <4> HIDE DEF sub, sofar
      <4>1. b \in Byte /\ sub \in Seq(Byte)
        BY <2>2, <3>1
      <4>2. Append(codes \o sub, b) = codes \o Append(sub, b) /\ codes \o sub \in Seq(Byte)
        BY <4>1, ConcatAppend
      <4> QED BY <3>1, <3>3, <4>2, Zenon
    <3> HIDE DEF sofar, r, q1, sub
    <3>5. /\ Sent(rev, Append(sofar, b), out, q1) /\ q1.n = r.n + 1
          /\ \/ Content(q1.d) = Content(r.d)
             \/ Content(q1.d) = Append(Content(r.d), Rev(rev, b))
      <4>1. StreamOK(r.d)
        BY <2>4 DEF Sent
      <4>2. Sent(rev, Append(sofar, b), out, q1)
        BY <2>2, <2>4, <2>6, <3>4, PutDleByteMeans
      <4>3. q1.n = r.n + 1
        BY <2>2, <2>6, PutDleByteIs
      <4>4. \/ Content(q1.d) = Content(r.d)
            \/ Content(q1.d) = Append(Content(r.d), Rev(rev, b))
        BY <2>2, <2>6, <4>1, PutDleByteKeeps
      <4> QED BY <4>2, <4>3, <4>4, Zenon
    <3>6. q1.n = n + 1 /\ q1.n \in 0..(n + 1)
      BY <3>2, <3>5
    <3>7. \E s \in Seq(Byte) : Content(q1.d) = u \o s
      <4> DEFINE x == Rev(rev, b)
      <4>1. x \in Byte
        BY <2>2, RevIs
      <4> HIDE DEF x
      <4>2. Append(u \o t, x) = u \o Append(t, x) /\ Append(t, x) \in Seq(Byte)
        BY <1>2, <2>3, <4>1, ConcatAppend, SeqAppend
      <4>3. Content(q1.d) = u \o t \/ Content(q1.d) = u \o Append(t, x)
        BY <2>3, <3>5, <4>2 DEF x
      <4> QED BY <2>3, <4>2, <4>3
    <3>8. codes \o SubSeq(bytes, 1, q1.n) = Append(sofar, b)
      BY <3>4, <3>6
    <3> QED BY <3>5, <3>6, <3>7, <3>8
  <2> QED BY <2>5, <2>6
<1>5. 0 \in T
  BY <1>3
<1>6. ASSUME NEW n \in Nat, n \in T PROVE n + 1 \in T
  <2> HIDE DEF N
  <2> QED BY <1>2, <1>4, <1>6
<1>7. N \in T
  <2> HIDE DEF T, N
  <2> QED BY <1>2, <1>5, <1>6, SetInduction
<1>8. Good(N)
  <2> HIDE DEF N
  <2> QED BY <1>2, <1>7
<1> QED BY <1>1, <1>8 DEF Good, PutFrom

-----------------------------------------------------------------------------
(* Codes that stand for bytes, and nothing waits after them.                *)
Plain(rev, codes, bytes) ==
  /\ Meaning(rev, codes).bytes = bytes
  /\ ~Meaning(rev, codes).end /\ ~Meaning(rev, codes).dle

(* Another code that is no DLE.                                             *)
LEMMA OneCode ==
  ASSUME NEW rev, NEW codes \in Seq(Byte), NEW bytes \in Seq(Byte), Plain(rev, codes, bytes),
         NEW c \in Byte, c # "DLE"
  PROVE  Plain(rev, Append(codes, c), Append(bytes, Rev(rev, c)))
<1> DEFINE m == Meaning(rev, codes)
           z == Meaning(rev, Append(codes, c))
<1>1. m.bytes = bytes /\ ~m.end /\ ~m.dle
  BY DEF Plain
<1>2. Extends(rev, m, c, z)
  BY MeaningAppend
<1> HIDE DEF m, z
<1>3. z.bytes = Append(bytes, Rev(rev, c)) /\ ~z.end /\ ~z.dle
  BY <1>1, <1>2 DEF Extends
<1> QED BY <1>3 DEF Plain, z

(* A DLE, and the code after it.                                            *)
LEMMA TwoCodes ==
  ASSUME NEW rev, NEW codes \in Seq(Byte), NEW bytes \in Seq(Byte), Plain(rev, codes, bytes)
  PROVE  /\ Plain(rev, Append(Append(codes, "DLE"), "DLE"), Append(bytes, Rev(rev, "DLE")))
         /\ Meaning(rev, Append(Append(codes, "DLE"), "ETX")).bytes = bytes
         /\ Meaning(rev, Append(Append(codes, "DLE"), "ETX")).end
         /\ ~Meaning(rev, Append(Append(codes, "DLE"), "ETX")).dle
<1> DEFINE m == Meaning(rev, codes)
           x == Append(codes, "DLE")
           v == Meaning(rev, x)
           w1 == Meaning(rev, Append(x, "DLE"))
           w2 == Meaning(rev, Append(x, "ETX"))
<1>1. m.bytes = bytes /\ ~m.end /\ ~m.dle
  BY DEF Plain
<1>2. "DLE" \in Byte /\ "ETX" \in Byte
  BY DEF Byte
<1>3. x \in Seq(Byte)
  BY <1>2
<1>4. Extends(rev, m, "DLE", v)
  BY <1>2, MeaningAppend
<1>5. Extends(rev, v, "DLE", w1) /\ Extends(rev, v, "ETX", w2)
  <2> HIDE DEF x
  <2> QED BY <1>2, <1>3, MeaningAppend
<1> HIDE DEF m, x, v, w1, w2
<1>6. v.bytes = bytes /\ ~v.end /\ v.dle
  BY <1>1, <1>4 DEF Extends
<1>7. w1.bytes = Append(bytes, Rev(rev, "DLE")) /\ ~w1.end /\ ~w1.dle
  BY <1>5, <1>6 DEF Extends
<1>8. w2.bytes = bytes /\ w2.end /\ ~w2.dle
  BY <1>5, <1>6 DEF Extends
<1> QED BY <1>7, <1>8 DEF Plain, x, w1, w2

(* A byte is encoded: the codes stand for it too.                           *)
LEMMA EncodeMeans ==
  ASSUME NEW rev, NEW codes \in Seq(Byte), NEW bytes \in Seq(Byte), Plain(rev, codes, bytes),
         NEW b \in Byte
  PROVE  Plain(rev, Encode(rev, codes, b), Append(bytes, b))
<1> DEFINE c == Rev(rev, b)
           D == "DLE"
<1>1. c \in Byte /\ Rev(rev, c) = b /\ D \in Byte
  BY RevIs DEF Byte
<1>2. Encode(rev, codes, b) = codes \o (IF c = D THEN <<c, c>> ELSE <<c>>)
  BY DEF Encode
<1> HIDE DEF c
<1>3. CASE c = D
  <2>1. Encode(rev, codes, b) = codes \o <<D, D>>
    BY <1>2, <1>3
  <2> HIDE DEF D
  <2>2. codes \o <<D, D>> = Append(Append(codes, D), D)
    BY <1>1
  <2>3. Plain(rev, Append(Append(codes, D), D), Append(bytes, Rev(rev, D)))
    BY TwoCodes DEF D
  <2> QED BY <1>1, <1>3, <2>1, <2>2, <2>3
<1>4. CASE c # D
  <2>1. Encode(rev, codes, b) = codes \o <<c>>
    BY <1>2, <1>4
  <2>2. codes \o <<c>> = Append(codes, c)
    BY <1>1, SeqAppend
  <2>3. Plain(rev, Append(codes, c), Append(bytes, Rev(rev, c)))
    BY <1>1, <1>4, OneCode
  <2> QED BY <1>1, <2>1, <2>2, <2>3
<1> QED BY <1>3, <1>4

(* The codes of a byte: one, or two.                                        *)
LEMMA EncodeIs ==
  ASSUME NEW rev, NEW out \in Seq(Byte), NEW b \in Byte
  PROVE  /\ Encode(rev, out, b) \in Seq(Byte)
         /\ Len(Encode(rev, out, b)) <= Len(out) + 2
         /\ \A codes \in Seq(Byte) :
              codes \o Encode(rev, out, b) = Encode(rev, codes \o out, b)
<1> DEFINE c == Rev(rev, b)
           t == IF c = "DLE" THEN <<c, c>> ELSE <<c>>
<1>1. c \in Byte
  BY RevIs
<1>2. Encode(rev, out, b) = out \o t
  BY DEF Encode
<1>3. \A codes \in Seq(Byte) : Encode(rev, codes \o out, b) = (codes \o out) \o t
  BY DEF Encode
<1> HIDE DEF c
<1>4. t \in Seq(Byte) /\ Len(t) <= 2
  BY <1>1
<1> HIDE DEF t
<1>5. \A codes \in Seq(Byte) : codes \o (out \o t) = (codes \o out) \o t
  BY <1>4, ConcatAssociative
<1>6. out \o t \in Seq(Byte) /\ Len(out \o t) = Len(out) + Len(t)
  BY <1>4
<1>7. Len(out \o t) <= Len(out) + 2
  BY <1>4, <1>6
<1>8. \A codes \in Seq(Byte) : codes \o Encode(rev, out, b) = Encode(rev, codes \o out, b)
  BY <1>2, <1>3, <1>5, Zenon
<1> QED BY <1>2, <1>6, <1>7, <1>8, Zenon

(* So are the bytes that GetData gave.                                      *)
LEMMA DoubledMeans ==
  ASSUME NEW rev, NEW codes \in Seq(Byte), NEW known \in Seq(Byte), Plain(rev, codes, known),
         NEW bytes \in Seq(Byte)
  PROVE  /\ Doubled(rev, bytes) \in Seq(Byte)
         /\ Len(Doubled(rev, bytes)) <= 2 * Len(bytes)
         /\ Plain(rev, codes \o Doubled(rev, bytes), known \o bytes)
<1>1. PICK out : /\ out[0] = <<>>
                 /\ \A n \in 1..Len(bytes) : out[n] = Encode(rev, out[n - 1], bytes[n])
                 /\ Doubled(rev, bytes) = out[Len(bytes)]
  BY DoubledLoops
<1> DEFINE N == Len(bytes)
           Good(n) == /\ out[n] \in Seq(Byte) /\ Len(out[n]) <= 2 * n
                      /\ Plain(rev, codes \o out[n], known \o SubSeq(bytes, 1, n))
           T == {n \in Nat : n <= N => Good(n)}
<1>2. N \in Nat
  OBVIOUS
<1>3. Good(0)
  <2>1. SubSeq(bytes, 1, 0) = <<>> /\ <<>> \in Seq(Byte) /\ Len(<<>>) = 0
    OBVIOUS
  <2>2. codes \o <<>> = codes /\ known \o <<>> = known
    OBVIOUS
  <2>3. 0 <= 2 * 0
    OBVIOUS
  <2>4. Len(out[0]) = 0 /\ out[0] \in Seq(Byte)
    BY <1>1, <2>1
  <2>5. Plain(rev, codes \o out[0], known \o SubSeq(bytes, 1, 0))
    BY <1>1, <2>1, <2>2, Zenon
  <2> QED BY <2>3, <2>4, <2>5
<1> HIDE DEF Good
<1>4. ASSUME NEW n \in Nat, n + 1 <= N, Good(n) PROVE Good(n + 1)
  <2> DEFINE s == out[n]
             b == bytes[n + 1]
             sub == SubSeq(bytes, 1, n)
             x == Encode(rev, s, b)
  <2>1. n + 1 \in 1..N /\ (n + 1) - 1 = n
    BY <1>2, <1>4
  <2>2. out[n + 1] = x /\ b \in Byte
    BY <1>1, <2>1
  <2>3. s \in Seq(Byte) /\ Len(s) <= 2 * n /\ Plain(rev, codes \o s, known \o sub)
    BY <1>4 DEF Good
  <2>4. SubSeq(bytes, 1, n + 1) = Append(sub, b) /\ sub \in Seq(Byte)
    BY <1>2, <2>1
  <2> HIDE DEF s, b, sub, x
  <2>5. /\ x \in Seq(Byte) /\ Len(x) <= Len(s) + 2
        /\ codes \o x = Encode(rev, codes \o s, b)
    BY <2>2, <2>3, EncodeIs DEF x
  <2>6. codes \o s \in Seq(Byte) /\ known \o sub \in Seq(Byte)
    BY <2>3, <2>4
  <2>7. Append(known \o sub, b) = known \o Append(sub, b)
    BY <2>2, <2>4, ConcatAppend
  <2>8. Plain(rev, codes \o x, known \o Append(sub, b))
    <3> DEFINE cs == codes \o s
               ks == known \o sub
    <3>1. cs \in Seq(Byte) /\ ks \in Seq(Byte) /\ Plain(rev, cs, ks)
      BY <2>3, <2>6
    <3> HIDE DEF cs, ks
    <3>2. Plain(rev, Encode(rev, cs, b), Append(ks, b))
      BY <2>2, <3>1, EncodeMeans
    <3> QED BY <2>5, <2>7, <3>2 DEF cs, ks
  <2>9. Len(x) <= 2 * (n + 1)
    <3>1. Len(x) \in Nat /\ Len(s) \in Nat
      BY <2>3, <2>5
    <3> QED BY <2>3, <2>5, <3>1
  <2> QED BY <2>2, <2>4, <2>5, <2>8, <2>9 DEF Good
<1>5. 0 \in T
  BY <1>3
<1>6. ASSUME NEW n \in Nat, n \in T PROVE n + 1 \in T
  <2> HIDE DEF N
  <2> QED BY <1>2, <1>4, <1>6
<1>7. N \in T
  <2> HIDE DEF T, N
  <2> QED BY <1>2, <1>5, <1>6, SetInduction
<1>8. Good(N)
  <2> HIDE DEF N
  <2> QED BY <1>2, <1>7
<1>9. SubSeq(bytes, 1, N) = bytes
  OBVIOUS
<1> QED BY <1>1, <1>8, <1>9 DEF Good

(* The end is told apart from bytes.                                        *)
LEMMA EndIsNoData ==
  EndOfData \notin Seq(Byte) /\ EndOfData # <<>>
<1>1. EndOfData = <<"-1">> /\ Len(EndOfData) = 1 /\ EndOfData[1] = "-1"
  BY DEF EndOfData
<1>2. "-1" \notin Byte
  BY DEF Byte
<1>3. ASSUME EndOfData \in Seq(Byte) PROVE FALSE
  <2>1. EndOfData[1] \in Byte
    BY <1>1, <1>3
  <2> QED BY <1>1, <1>2, <2>1
<1> QED BY <1>1, <1>3

(* GetData when there are no bytes.                                         *)
LEMMA GetDataNone ==
  ASSUME NEW d, StreamOK(d), NEW count, Content(d) = <<>>
  PROVE  GetData(d, count) = [d |-> d, bytes |-> IF d.eof THEN EndOfData ELSE <<>>]
<1>1. Len(Content(d)) = d.busy
  BY ContentIs
<1>2. d.busy = 0
  BY <1>1
<1> QED BY <1>2 DEF GetData

(* One turn of GetDleData's loop: none, the end, or the codes of some bytes. *)
NoTurn(g, h, count) == (g.etx \/ count - Len(g.out) < 4) /\ h = g
EndTurn(g, h, count) ==
  /\ ~g.etx /\ count - Len(g.out) >= 4 /\ Content(g.d) = <<>> /\ g.d.eof
  /\ h.d = g.d /\ h.raw = g.raw /\ h.etx /\ h.out = g.out \o <<"DLE", "ETX">>
DataTurn(rev, g, h, count, r) ==
  /\ ~g.etx /\ count - Len(g.out) >= 4
  /\ StreamOK(r.d) /\ r.d.eof = g.d.eof /\ r.bytes \in Seq(Byte)
  /\ r.bytes \o Content(r.d) = Content(g.d)
  /\ Content(g.d) # <<>> => r.bytes # <<>>
  /\ Content(g.d) = <<>> => ~g.d.eof
  /\ Len(g.out) + 2 * Len(r.bytes) <= count - 2
  /\ h.d = r.d /\ h.raw = g.raw \o r.bytes /\ ~h.etx
  /\ h.out = g.out \o Doubled(rev, r.bytes)

(* The three cases of GetDleSome.                                           *)
LEMMA GetDleSomeIs ==
  ASSUME NEW rev, NEW g, StreamOK(g.d), Len(g.out) \in Nat, NEW count \in Nat
  PROVE  \/ NoTurn(g, GetDleSome(rev, g, count), count)
         \/ EndTurn(g, GetDleSome(rev, g, count), count)
         \/ \E r : DataTurn(rev, g, GetDleSome(rev, g, count), count, r)
<1> DEFINE room == count - Len(g.out)
           k == GetRoom(room)
           r == GetData(g.d, k)
           h == GetDleSome(rev, g, count)
           e == [d |-> g.d, raw |-> g.raw, etx |-> TRUE, out |-> g.out \o <<"DLE", "ETX">>]
           f == [d |-> r.d, raw |-> g.raw \o r.bytes, etx |-> FALSE,
                 out |-> g.out \o Doubled(rev, r.bytes)]
<1>1. h = CASE g.etx \/ room < 4 -> g
            [] ~g.etx /\ room >= 4 /\ r.bytes = EndOfData -> e
            [] OTHER -> f
  BY DEF GetDleSome
<1>2. e.d = g.d /\ e.raw = g.raw /\ e.etx /\ e.out = g.out \o <<"DLE", "ETX">>
  OBVIOUS
<1>3. /\ f.d = r.d /\ f.raw = g.raw \o r.bytes /\ ~f.etx
      /\ f.out = g.out \o Doubled(rev, r.bytes)
  OBVIOUS
<1>4. room \in Int
  OBVIOUS
<1> HIDE DEF room, r, h, e, f
<1>5. CASE g.etx \/ room < 4
  BY <1>1, <1>5 DEF NoTurn, room, h
<1>6. CASE ~g.etx /\ room >= 4
  <2>1. k \in Nat /\ k > 0 /\ 2 * k <= room - 2
    <3> DEFINE n == (room - 2) \div 2
    <3>1. n \in Nat /\ n > 0 /\ 2 * n <= room - 2
      BY <1>4, <1>6
    <3>2. k = IF n > TmpSize THEN TmpSize ELSE n
      BY DEF GetRoom, AtMost
    <3> HIDE DEF n, k
    <3>3. TmpSize \in Nat /\ TmpSize > 0
      BY StreamAssumption
    <3> QED BY <1>4, <3>1, <3>2, <3>3
  <2>2. /\ StreamOK(r.d) /\ r.d.eof = g.d.eof
        /\ Content(g.d) = <<>> => /\ r.d = g.d
                                  /\ g.d.eof => r.bytes = EndOfData
                                  /\ ~g.d.eof => r.bytes = <<>>
        /\ Content(g.d) # <<>> => /\ r.bytes \in Seq(Byte) /\ r.bytes # <<>>
                                  /\ r.bytes \o Content(r.d) = Content(g.d)
                                  /\ Len(r.bytes) <= k
    <3> HIDE DEF k
    <3>1. StreamOK(r.d) /\ r.d.eof = g.d.eof
      BY <2>1, GetDataTakes DEF r
    <3>2. Content(g.d) = <<>> => /\ r.d = g.d
                                 /\ g.d.eof => r.bytes = EndOfData
                                 /\ ~g.d.eof => r.bytes = <<>>
      <4> SUFFICES ASSUME Content(g.d) = <<>>
                   PROVE  /\ r.d = g.d
                          /\ g.d.eof => r.bytes = EndOfData
                          /\ ~g.d.eof => r.bytes = <<>>
        OBVIOUS
      <4>1. r = [d |-> g.d, bytes |-> IF g.d.eof THEN EndOfData ELSE <<>>]
        BY GetDataNone DEF r
      <4>2. r.d = g.d /\ r.bytes = IF g.d.eof THEN EndOfData ELSE <<>>
        BY <4>1
      <4> QED BY <4>2
    <3>3. Content(g.d) # <<>> => /\ r.bytes \in Seq(Byte) /\ r.bytes # <<>>
                                 /\ r.bytes \o Content(r.d) = Content(g.d)
                                 /\ Len(r.bytes) <= k
      BY <2>1, GetDataTakes DEF r
    <3> QED BY <3>1, <3>2, <3>3
  <2> HIDE DEF k
  <2>3. CASE r.bytes = EndOfData
    <3>1. h = e
      BY <1>1, <1>4, <1>6, <2>3
    <3>2. Content(g.d) = <<>> /\ g.d.eof
      BY <2>2, <2>3, EndIsNoData
    <3> QED BY <1>2, <1>6, <3>1, <3>2 DEF EndTurn, room, h
  <2>4. CASE r.bytes # EndOfData
    <3>1. h = f
      BY <1>1, <1>4, <1>6, <2>4
    <3>2. /\ r.bytes \in Seq(Byte) /\ r.bytes \o Content(r.d) = Content(g.d)
          /\ Content(g.d) # <<>> => r.bytes # <<>>
          /\ Content(g.d) = <<>> => ~g.d.eof
          /\ Len(r.bytes) <= k
      <4>1. CASE Content(g.d) = <<>>
        <5>1. r.d = g.d /\ r.bytes = <<>> /\ ~g.d.eof
          BY <2>2, <2>4, <4>1
        <5>2. <<>> \in Seq(Byte) /\ <<>> \o <<>> = <<>> /\ Len(<<>>) = 0
          OBVIOUS
        <5> QED BY <2>1, <4>1, <5>1, <5>2
      <4>2. CASE Content(g.d) # <<>>
        BY <2>2, <4>2
      <4> QED BY <4>1, <4>2
    <3>3. Len(g.out) + 2 * Len(r.bytes) <= count - 2
      <4>1. Len(r.bytes) \in Nat
        BY <3>2
      <4> DEFINE a == Len(g.out)
                 n == Len(r.bytes)
      <4>2. a \in Nat /\ n \in Nat /\ n <= k /\ 2 * k <= (count - a) - 2
        BY <2>1, <3>2, <4>1 DEF room
      <4> HIDE DEF a, n
      <4>3. a + 2 * n <= count - 2
        BY <2>1, <4>2
      <4> QED BY <4>3 DEF a, n
    <3>4. DataTurn(rev, g, h, count, r)
      BY <1>3, <1>6, <2>2, <3>1, <3>2, <3>3 DEF DataTurn, room
    <3> QED BY <3>4 DEF h
  <2> QED BY <2>3, <2>4
<1>7. (g.etx \/ room < 4) \/ (~g.etx /\ room >= 4)
  BY <1>4
<1> QED BY <1>5, <1>6, <1>7, Zenon

(* The codes of bytes are codes, at most two for each.                      *)
LEMMA DoubledIs ==
  ASSUME NEW rev, NEW bytes \in Seq(Byte)
  PROVE  Doubled(rev, bytes) \in Seq(Byte) /\ Len(Doubled(rev, bytes)) <= 2 * Len(bytes)
<1>1. <<>> \in Seq(Byte) /\ Plain(rev, <<>>, <<>>)
  BY MeaningEmpty DEF Plain
<1> QED BY <1>1, DoubledMeans

(* What GetDleData has taken of the stream d, and the codes it has made.     *)
Taken(d, g) ==
  /\ StreamOK(g.d) /\ g.d.eof = d.eof /\ g.raw \in Seq(Byte) /\ g.out \in Seq(Byte)
  /\ g.raw \o Content(g.d) = Content(d)
  /\ g.etx => d.eof /\ Content(g.d) = <<>>
Coded(rev, codes, known, g) ==
  /\ Meaning(rev, codes \o g.out).bytes = known \o g.raw
  /\ Meaning(rev, codes \o g.out).end <=> g.etx
  /\ ~Meaning(rev, codes \o g.out).dle
Begun(d, g) ==
  /\ Content(d) # <<>> => g.raw # <<>>
  /\ Content(d) = <<>> => (g.etx <=> d.eof)

(* A turn takes bytes from the front, and tells the end after the last one. *)
LEMMA TurnTakes ==
  ASSUME NEW d, NEW rev, NEW g, NEW count \in Nat, Taken(d, g)
  PROVE  Taken(d, GetDleSome(rev, g, count))
<1> DEFINE h == GetDleSome(rev, g, count)
<1>1. /\ StreamOK(g.d) /\ g.d.eof = d.eof /\ g.raw \in Seq(Byte) /\ g.out \in Seq(Byte)
      /\ g.raw \o Content(g.d) = Content(d)
      /\ g.etx => d.eof /\ Content(g.d) = <<>>
  BY DEF Taken
<1>2. Len(g.out) \in Nat
  BY <1>1
<1>3. NoTurn(g, h, count) \/ EndTurn(g, h, count) \/ \E r : DataTurn(rev, g, h, count, r)
  BY <1>1, <1>2, GetDleSomeIs
<1> HIDE DEF h
<1>4. CASE NoTurn(g, h, count)
  BY <1>4 DEF NoTurn, h
<1>5. CASE EndTurn(g, h, count)
  <2>1. /\ Content(g.d) = <<>> /\ g.d.eof
        /\ h.d = g.d /\ h.raw = g.raw /\ h.out = g.out \o <<"DLE", "ETX">>
    BY <1>5 DEF EndTurn
  <2>2. <<"DLE", "ETX">> \in Seq(Byte)
    BY DEF Byte
  <2>3. h.out \in Seq(Byte)
    BY <1>1, <2>1, <2>2
  <2> QED BY <1>1, <2>1, <2>3 DEF Taken, h
<1>6. CASE \E r : DataTurn(rev, g, h, count, r)
  <2>1. PICK r : DataTurn(rev, g, h, count, r)
    BY <1>6
  <2>2. /\ StreamOK(r.d) /\ r.d.eof = g.d.eof /\ r.bytes \in Seq(Byte)
        /\ r.bytes \o Content(r.d) = Content(g.d)
        /\ h.d = r.d /\ h.raw = g.raw \o r.bytes /\ ~h.etx
        /\ h.out = g.out \o Doubled(rev, r.bytes)
    BY <2>1 DEF DataTurn
  <2> DEFINE a == g.raw
             b == r.bytes
             c == Content(r.d)
             x == Doubled(rev, b)
             y == g.out
  <2>3. /\ a \in Seq(Byte) /\ b \in Seq(Byte) /\ c \in Seq(Byte)
        /\ a \o (b \o c) = Content(d)
    <3>1. c \in Seq(Byte)
      BY <2>2, ContentIs
    <3>2. a \o (b \o c) = Content(d)
      BY <1>1, <2>2, Zenon
    <3> QED BY <1>1, <2>2, <3>1, <3>2
  <2>4. x \in Seq(Byte) /\ y \in Seq(Byte)
    BY <1>1, <2>2, DoubledIs
  <2> HIDE DEF a, b, c, x, y
  <2>5. (a \o b) \o c = a \o (b \o c) /\ a \o b \in Seq(Byte)
    <3>1. a \in Seq(Byte) /\ b \in Seq(Byte) /\ c \in Seq(Byte)
      BY <2>3
    <3>2. (a \o b) \o c = a \o (b \o c)
      BY <3>1, ConcatAssociative
    <3>3. a \o b \in Seq(Byte)
      BY <3>1
    <3> QED BY <3>2, <3>3
  <2>6. y \o x \in Seq(Byte)
    BY <2>4
  <2>7. h.raw \o Content(h.d) = Content(d) /\ h.raw \in Seq(Byte) /\ h.out \in Seq(Byte)
    BY <2>2, <2>3, <2>5, <2>6 DEF a, b, c, x, y
  <2> QED BY <1>1, <2>2, <2>7 DEF Taken, h
<1> QED BY <1>3, <1>4, <1>5, <1>6, Zenon

(* The first turn takes a byte if there is one, or tells the end.           *)
LEMMA TurnBegins ==
  ASSUME NEW d, NEW rev, NEW g, NEW count \in Nat, Taken(d, g),
         Begun(d, g) \/ (~g.etx /\ count - Len(g.out) >= 4)
  PROVE  Begun(d, GetDleSome(rev, g, count))
<1> DEFINE h == GetDleSome(rev, g, count)
<1>1. /\ StreamOK(g.d) /\ g.d.eof = d.eof /\ g.raw \in Seq(Byte) /\ g.out \in Seq(Byte)
      /\ g.raw \o Content(g.d) = Content(d)
      /\ g.etx => d.eof /\ Content(g.d) = <<>>
  BY DEF Taken
<1>2. Len(g.out) \in Nat /\ Content(g.d) \in Seq(Byte)
  BY <1>1, ContentIs
<1>3. NoTurn(g, h, count) \/ EndTurn(g, h, count) \/ \E r : DataTurn(rev, g, h, count, r)
  BY <1>1, <1>2, GetDleSomeIs
<1> HIDE DEF h
<1> DEFINE a == g.raw
           c == Content(g.d)
           s == Content(d)
<1>4. a \in Seq(Byte) /\ c \in Seq(Byte) /\ a \o c = s
  BY <1>1, <1>2
<1>5. (s # <<>> => a # <<>> \/ c # <<>>) /\ (s = <<>> => a = <<>> /\ c = <<>>)
  <2> HIDE DEF a, c, s
  <2>1. Len(s) = Len(a) + Len(c) /\ Len(a) \in Nat /\ Len(c) \in Nat
    BY <1>4
  <2>2. a = <<>> /\ c = <<>> => s = <<>>
    BY <1>4
  <2>3. s = <<>> => Len(s) = 0
    OBVIOUS
  <2>4. s = <<>> => Len(a) = 0 /\ Len(c) = 0
    BY <2>1, <2>3
  <2> QED BY <1>4, <2>2, <2>4
<1>6. CASE NoTurn(g, h, count)
  <2>1. h = g /\ (g.etx \/ count - Len(g.out) < 4)
    BY <1>6 DEF NoTurn
  <2>2. Begun(d, g)
    BY <1>2, <2>1
  <2> QED BY <2>1, <2>2 DEF h
<1>7. CASE EndTurn(g, h, count)
  <2>1. c = <<>> /\ g.d.eof /\ h.raw = a /\ h.etx
    BY <1>7 DEF EndTurn
  <2>2. s # <<>> => h.raw # <<>>
    BY <1>5, <2>1
  <2>3. h.etx <=> d.eof
    BY <1>1, <2>1
  <2> QED BY <2>2, <2>3 DEF Begun, h
<1>8. CASE \E r : DataTurn(rev, g, h, count, r)
  <2>1. PICK r : DataTurn(rev, g, h, count, r)
    BY <1>8
  <2>2. /\ r.bytes \in Seq(Byte) /\ (c # <<>> => r.bytes # <<>>) /\ (c = <<>> => ~g.d.eof)
        /\ h.raw = a \o r.bytes /\ ~h.etx
    BY <2>1 DEF DataTurn
  <2> DEFINE b == r.bytes
  <2>3. s # <<>> => a \o b # <<>>
    <3>1. s # <<>> => a # <<>> \/ b # <<>>
      BY <1>5, <2>2
    <3>2. b \in Seq(Byte) /\ a \in Seq(Byte)
      BY <1>4, <2>2
    <3> HIDE DEF a, b, s
    <3>3. Len(a \o b) = Len(a) + Len(b) /\ Len(a) \in Nat /\ Len(b) \in Nat
      BY <3>2
    <3>4. (a # <<>> => Len(a) > 0) /\ (b # <<>> => Len(b) > 0)
      BY <3>2
    <3>5. s # <<>> => Len(a \o b) > 0
      BY <3>1, <3>3, <3>4
    <3> QED BY <3>5
  <2>4. s = <<>> => ~d.eof
    BY <1>1, <1>5, <2>2
  <2> QED BY <2>2, <2>3, <2>4 DEF Begun, h
<1> QED BY <1>3, <1>6, <1>7, <1>8, Zenon

(* A turn leaves room in the buffer.                                        *)
LEMMA TurnFits ==
  ASSUME NEW d, NEW rev, NEW g, NEW count \in Nat, Taken(d, g), Len(g.out) <= count
  PROVE  Len(GetDleSome(rev, g, count).out) <= count
<1> DEFINE h == GetDleSome(rev, g, count)
<1>1. StreamOK(g.d) /\ g.out \in Seq(Byte) /\ Len(g.out) \in Nat
  BY DEF Taken
<1>2. NoTurn(g, h, count) \/ EndTurn(g, h, count) \/ \E r : DataTurn(rev, g, h, count, r)
  BY <1>1, GetDleSomeIs
<1> HIDE DEF h
<1>3. CASE NoTurn(g, h, count)
  BY <1>3 DEF NoTurn, h
<1>4. CASE EndTurn(g, h, count)
  <2> DEFINE y == g.out
             x == <<"DLE", "ETX">>
  <2>1. count - Len(y) >= 4 /\ h.out = y \o x
    BY <1>4 DEF EndTurn
  <2>2. x \in Seq(Byte) /\ Len(x) = 2
    BY DEF Byte
  <2>5. y \in Seq(Byte) /\ Len(y) \in Nat
    BY <1>1
  <2> HIDE DEF x, y
  <2>3. Len(y \o x) = Len(y) + 2
    <3>1. x \in Seq(Byte)
      BY <2>2
    <3>2. Len(y \o x) = Len(y) + Len(x)
      BY <2>5, <3>1
    <3> QED BY <2>2, <3>2
  <2>4. Len(y \o x) <= count
    <3> DEFINE n == Len(y)
    <3>1. n \in Nat /\ count - n >= 4
      BY <2>1, <2>5
    <3> HIDE DEF n
    <3>2. n + 2 <= count
      BY <3>1
    <3> QED BY <2>3, <3>2 DEF n
  <2> QED BY <2>1, <2>4 DEF h
<1>5. CASE \E r : DataTurn(rev, g, h, count, r)
  <2>1. PICK r : DataTurn(rev, g, h, count, r)
    BY <1>5
  <2> DEFINE y == g.out
             b == r.bytes
             x == Doubled(rev, b)
  <2>2. b \in Seq(Byte) /\ Len(y) + 2 * Len(b) <= count - 2 /\ h.out = y \o x
    BY <2>1 DEF DataTurn
  <2>3. x \in Seq(Byte) /\ Len(x) <= 2 * Len(b) /\ Len(b) \in Nat
    BY <2>2, DoubledIs
  <2>4. y \in Seq(Byte) /\ Len(y) \in Nat
    BY <1>1
  <2> HIDE DEF x, b, y
  <2>5. Len(y \o x) = Len(y) + Len(x) /\ Len(x) \in Nat
    BY <2>3, <2>4
  <2>6. Len(y \o x) <= count
    BY <2>2, <2>3, <2>4, <2>5
  <2> QED BY <2>2, <2>6 DEF h
<1> QED BY <1>2, <1>3, <1>4, <1>5, Zenon

(* The codes of a turn stand for the bytes it took.                         *)
LEMMA TurnMeans ==
  ASSUME NEW d, NEW rev, NEW codes \in Seq(Byte), NEW known \in Seq(Byte), NEW g,
         NEW count \in Nat, Taken(d, g), Coded(rev, codes, known, g)
  PROVE  Coded(rev, codes, known, GetDleSome(rev, g, count))
<1> DEFINE h == GetDleSome(rev, g, count)
           y == g.out
           a == g.raw
           cs == codes \o y
           ks == known \o a
<1>1. StreamOK(g.d) /\ a \in Seq(Byte) /\ y \in Seq(Byte) /\ Len(g.out) \in Nat
  BY DEF Taken
<1>2. cs \in Seq(Byte) /\ ks \in Seq(Byte)
  BY <1>1
<1>3. NoTurn(g, h, count) \/ EndTurn(g, h, count) \/ \E r : DataTurn(rev, g, h, count, r)
  BY <1>1, GetDleSomeIs
<1>4. ~g.etx => Plain(rev, cs, ks)
  BY DEF Coded, Plain
<1> HIDE DEF h
<1>5. CASE NoTurn(g, h, count)
  BY <1>5 DEF NoTurn, h
<1>6. CASE EndTurn(g, h, count)
  <2> DEFINE D == "DLE"
             E == "ETX"
             w == Meaning(rev, Append(Append(cs, D), E))
  <2>1. ~g.etx /\ h.raw = a /\ h.etx /\ h.out = y \o <<D, E>>
    BY <1>6 DEF EndTurn
  <2>2. Plain(rev, cs, ks)
    BY <1>4, <2>1
  <2>3. w.bytes = ks /\ w.end /\ ~w.dle
    <3> HIDE DEF cs, ks
    <3> QED BY <1>2, <2>2, TwoCodes
  <2>4. D \in Byte /\ E \in Byte
    BY DEF Byte
  <2> HIDE DEF D, E, y, a
  <2>5. codes \o (y \o <<D, E>>) = Append(Append(cs, D), E)
    <3>1. y \o <<D, E>> = Append(Append(y, D), E)
      BY <1>1, <2>4
    <3>2. Append(y, D) \in Seq(Byte)
      BY <1>1, <2>4
    <3>3. codes \o Append(Append(y, D), E) = Append(codes \o Append(y, D), E)
      BY <2>4, <3>2, ConcatAppend
    <3>4. codes \o Append(y, D) = Append(cs, D)
      BY <1>1, <2>4, ConcatAppend
    <3> QED BY <3>1, <3>3, <3>4, Zenon
  <2>6. Meaning(rev, codes \o h.out) = w
    BY <2>1, <2>5
  <2> HIDE DEF w
  <2>7. w.bytes = known \o h.raw /\ (w.end <=> h.etx)
    BY <2>1, <2>3
  <2> QED BY <2>3, <2>6, <2>7 DEF Coded, h
<1>7. CASE \E r : DataTurn(rev, g, h, count, r)
  <2>1. PICK r : DataTurn(rev, g, h, count, r)
    BY <1>7
  <2> DEFINE b == r.bytes
             x == Doubled(rev, b)
  <2>2. ~g.etx /\ b \in Seq(Byte) /\ h.raw = a \o b /\ ~h.etx /\ h.out = y \o x
    BY <2>1 DEF DataTurn
  <2>3. Plain(rev, cs, ks)
    BY <1>4, <2>2
  <2>4. x \in Seq(Byte) /\ Plain(rev, cs \o x, ks \o b)
    <3> HIDE DEF cs, ks, b
    <3> QED BY <1>2, <2>2, <2>3, DoubledMeans
  <2> HIDE DEF a, b, x, y
  <2>5. cs \o x = codes \o (y \o x)
    <3>1. y \in Seq(Byte) /\ x \in Seq(Byte)
      BY <1>1, <2>4
    <3> QED BY <3>1, ConcatAssociative
  <2>6. ks \o b = known \o (a \o b)
    <3>1. a \in Seq(Byte) /\ b \in Seq(Byte)
      BY <1>1, <2>2
    <3> QED BY <3>1, ConcatAssociative
  <2>7. Plain(rev, codes \o h.out, known \o h.raw)
    BY <2>2, <2>4, <2>5, <2>6, Zenon
  <2> QED BY <2>2, <2>7 DEF Coded, Plain, h
<1> QED BY <1>3, <1>5, <1>6, <1>7, Zenon

(* GetDleData: the bytes that were in front of the stream, doubled, the end  *)
(* after the last of them, in the room that there is.                       *)
LEMMA GetDleTakes ==
  ASSUME NEW d, StreamOK(d), NEW rev, NEW codes \in Seq(Byte), NEW known \in Seq(Byte),
         Plain(rev, codes, known), NEW count \in Nat, count >= 4,
         NEW g0, g0 = [d |-> d, raw |-> <<>>, etx |-> FALSE, out |-> <<>>]
  PROVE  /\ Taken(d, GetDleFrom(rev, g0, count)) /\ Begun(d, GetDleFrom(rev, g0, count))
         /\ Coded(rev, codes, known, GetDleFrom(rev, g0, count))
         /\ Len(GetDleFrom(rev, g0, count).out) <= count
<1>1. PICK get : /\ get[0] = g0
                 /\ \A n \in 1..count : get[n] = GetDleSome(rev, get[n - 1], count)
                 /\ GetDleFrom(rev, g0, count) = get[count]
  BY GetDleLoops
<1> DEFINE Good(n) == /\ Taken(d, get[n]) /\ Coded(rev, codes, known, get[n])
                      /\ Len(get[n].out) <= count
                      /\ n > 0 => Begun(d, get[n])
           T == {n \in Nat : n <= count => Good(n)}
<1>2. g0.d = d /\ g0.raw = <<>> /\ ~g0.etx /\ g0.out = <<>>
  OBVIOUS
<1>3. Good(0)
  <2>1. <<>> \in Seq(Byte) /\ Len(<<>>) = 0 /\ codes \o <<>> = codes /\ known \o <<>> = known
    OBVIOUS
  <2>2. Content(d) \in Seq(Byte)
    BY ContentIs
  <2>3. <<>> \o Content(d) = Content(d)
    BY <2>2
  <2>4. Taken(d, g0)
    BY <1>2, <2>1, <2>3, Zenon DEF Taken
  <2>5. Coded(rev, codes, known, g0)
    <3>1. codes \o g0.out = codes /\ known \o g0.raw = known
      BY <1>2, <2>1
    <3> QED BY <1>2, <3>1 DEF Coded, Plain
  <2>6. Len(g0.out) <= count
    BY <1>2, <2>1
  <2> QED BY <1>1, <2>4, <2>5, <2>6
<1>4. ASSUME NEW n \in Nat, n + 1 <= count, Good(n) PROVE Good(n + 1)
  <2> DEFINE g == get[n]
             h == get[n + 1]
  <2>1. n + 1 \in 1..count /\ (n + 1) - 1 = n
    BY <1>4
  <2>2. h = GetDleSome(rev, g, count)
    BY <1>1, <2>1
  <2>3. /\ Taken(d, g) /\ Coded(rev, codes, known, g) /\ Len(g.out) <= count
        /\ n > 0 => Begun(d, g)
    BY <1>4
  <2>4. n = 0 => ~g.etx /\ count - Len(g.out) >= 4
    <3>1. Len(<<>>) = 0
      OBVIOUS
    <3> QED BY <1>1, <1>2, <3>1
  <2>5. n = 0 \/ n > 0
    OBVIOUS
  <2> HIDE DEF g, h
  <2>6. Taken(d, h)
    BY <2>2, <2>3, TurnTakes
  <2>7. Coded(rev, codes, known, h)
    BY <2>2, <2>3, TurnMeans
  <2>8. Len(h.out) <= count
    BY <2>2, <2>3, TurnFits
  <2>9. Begun(d, h)
    <3>1. Begun(d, g) \/ (~g.etx /\ count - Len(g.out) >= 4)
      BY <2>3, <2>4, <2>5, Zenon
    <3> QED BY <2>2, <2>3, <3>1, TurnBegins
  <2> QED BY <2>6, <2>7, <2>8, <2>9 DEF h
<1> HIDE DEF Good
<1>5. 0 \in T
  BY <1>3
<1>6. ASSUME NEW n \in Nat, n \in T PROVE n + 1 \in T
  BY <1>4, <1>6
<1>7. count \in T
  <2> HIDE DEF T
  <2> QED BY <1>5, <1>6, SetInduction
<1>8. Good(count)
  BY <1>7
<1> QED BY <1>1, <1>8 DEF Good

-----------------------------------------------------------------------------
(* The front and the rest of bytes.                                         *)
LEMMA FrontOf ==
  ASSUME NEW s \in Seq(Byte), NEW t \in Seq(Byte)
  PROVE  /\ s \o t \in Seq(Byte) /\ Len(s) \in 0..Len(s \o t) /\ Len(s \o t) \in Nat
         /\ SubSeq(s \o t, 1, Len(s)) = s
         /\ SubSeq(s \o t, Len(s) + 1, Len(s \o t)) = t
<1> DEFINE u == s \o t
           m == Len(s)
           n == Len(t)
<1>1. /\ u \in Seq(Byte) /\ Len(u) = m + n /\ m \in Nat /\ n \in Nat
      /\ \A i \in 1..m : u[i] = s[i]
      /\ \A i \in 1..n : u[m + i] = t[i]
  OBVIOUS
<1>2. SubSeq(u, 1, m) = s
  <2> HIDE DEF u
  <2>1. SubSeq(u, 1, m) \in Seq(Byte) /\ Len(SubSeq(u, 1, m)) = m
    BY <1>1
  <2>2. \A i \in 1..m : SubSeq(u, 1, m)[i] = s[i]
    BY <1>1
  <2> QED BY <1>1, <2>1, <2>2, SeqEqual
<1>3. SubSeq(u, m + 1, m + n) = t
  <2> HIDE DEF u, m
  <2>1. SubSeq(u, m + 1, m + n) \in Seq(Byte) /\ Len(SubSeq(u, m + 1, m + n)) = n
    BY <1>1
  <2>2. \A i \in 1..n : SubSeq(u, m + 1, m + n)[i] = t[i]
    BY <1>1
  <2> QED BY <1>1, <2>1, <2>2, SeqEqual
<1> QED BY <1>1, <1>2, <1>3

(* What a step does to the queue: nothing is lost of what was added, and    *)
(* what is taken was in front.                                              *)
LEMMA QueueAdds ==
  ASSUME NEW t \in Seq(Byte), StreamOK(ds), ~ds.eof,
         Content(ds') = Content(ds) \o t, got' = got
  PROVE  Queue!Add
<1> DEFINE s == Content(ds)
<1>1. s \in Seq(Byte) /\ Len(s) \in Nat
  BY ContentIs
<1>2. Content(ds)' = s \o t
  OBVIOUS
<1> HIDE DEF s
<1>3. s \o t \in Seq(Byte) /\ Len(s \o t) >= Len(s) /\ SubSeq(s \o t, 1, Len(s)) = s
  BY <1>1, FrontOf
<1> QED BY <1>2, <1>3 DEF Queue!Add, s

(* Bytes are taken.                                                         *)
LEMMA QueueTakes ==
  ASSUME NEW t \in Seq(Byte), t # <<>>, StreamOK(ds), StreamOK(ds'), ds'.eof = ds.eof,
         t \o Content(ds') = Content(ds), got' = t
  PROVE  Queue!Take
<1> DEFINE s == Content(ds')
           u == Content(ds)
           n == Len(t)
<1>1. s \in Seq(Byte) /\ u \in Seq(Byte) /\ t \o s = u
  BY ContentIs
<1>2. Content(ds)' = s /\ ds.eof' = ds.eof
  OBVIOUS
<1> HIDE DEF s, u
<1>3. /\ n \in 0..Len(u) /\ SubSeq(u, 1, n) = t /\ SubSeq(u, n + 1, Len(u)) = s
      /\ Len(u) \in Nat
  BY <1>1, FrontOf
<1>4. n \in 1..Len(u) /\ u # <<>>
  <2>1. n \in Nat /\ n # 0
    OBVIOUS
  <2>2. n \in 1..Len(u)
    BY <1>3, <2>1
  <2>3. u = <<>> => Len(u) = 0
    OBVIOUS
  <2> QED BY <1>3, <2>2, <2>3
<1> HIDE DEF n
<1> QED BY <1>2, <1>3, <1>4 DEF Queue!Take, s, u

-----------------------------------------------------------------------------
(* The inductive invariant.                                                 *)
StreamInv ==
  /\ StreamOK(ds) /\ input \in Seq(Byte) /\ output \in Seq(Byte)
  /\ DleTransparent

(* The bytes of a call.                                                     *)
LEMMA CallIs ==
  ASSUME NEW bytes \in Calls
  PROVE  bytes \in Seq(Byte)
<1>1. PICK n \in 1..MaxCount : bytes \in [1..n -> Byte]
  BY DEF Calls
<1>2. n \in Nat
  BY ChunkSizeIs
<1> QED BY <1>1, <1>2, SeqMade

(* What codes stand for are bytes.                                          *)
LEMMA MeaningBytes ==
  ASSUME NEW rev, NEW codes \in Seq(Byte)
  PROVE  Meaning(rev, codes).bytes \in Seq(Byte)
<1>1. "DLE" \in Byte
  BY DEF Byte
<1>2. Meaning(rev, codes) \in Told
  BY <1>1, MeaningAppend
<1> QED BY <1>2 DEF Told

(* A new transfer.                                                          *)
LEMMA CleanInv ==
  ASSUME ds = EmptyStream, dle = FALSE, recvEtx = FALSE, way \in {"send", "recv"},
         input = <<>>, output = <<>>
  PROVE  StreamInv
<1>1. StreamOK(ds) /\ Content(ds) = <<>> /\ ~ds.eof
  BY EmptyStreamIs
<1>2. <<>> \in Seq(Byte) /\ <<>> \o <<>> = <<>>
  OBVIOUS
<1> DEFINE m == Meaning(bitRev, <<>>)
<1>3. m.bytes = <<>> /\ ~m.end /\ ~m.dle
  BY MeaningEmpty
<1> HIDE DEF m
<1>4. SentAlike
  BY <1>1, <1>2, <1>3 DEF SentAlike, m
<1>5. ReceivedAlike
  BY <1>1, <1>2, <1>3 DEF ReceivedAlike, m
<1> QED BY <1>1, <1>2, <1>4, <1>5 DEF StreamInv, DleTransparent

(* PutDleData.                                                              *)
LEMMA PutDleDataStep ==
  ASSUME StreamInv, NEW bytes \in Seq(Byte), PutDleData(bytes)
  PROVE  StreamInv' /\ Queue!Add
<1> DEFINE p == [d |-> ds, dle |-> dle, n |-> 0]
           q == PutDleFrom(bitRev, p, bytes)
           codes == input \o SubSeq(bytes, 1, q.n)
<1>1. /\ way = "send" /\ ~ds.eof /\ ds' = q.d /\ dle' = q.dle /\ input' = codes
      /\ bitRev' = bitRev /\ way' = way /\ got' = got /\ output' = output
  BY DEF PutDleData, PutDle
<1>2. StreamOK(ds) /\ input \in Seq(Byte) /\ output \in Seq(Byte) /\ SentAlike
  BY <1>1 DEF StreamInv, DleTransparent
<1>3. p.d = ds /\ (p.dle <=> dle) /\ p.n = 0
  OBVIOUS
<1> HIDE DEF p
<1>4. Sent(bitRev, input, output, p)
  BY <1>2, <1>3 DEF Sent, SentAlike
<1>5. /\ Sent(bitRev, codes, output, q) /\ q.n \in 0..Len(bytes)
      /\ \E t \in Seq(Byte) : Content(q.d) = Content(p.d) \o t
  <2>1. PutFrom(bitRev, input, output, p, bytes, q)
    BY <1>2, <1>3, <1>4, PutDleMeans
  <2> HIDE DEF q
  <2> QED BY <2>1 DEF PutFrom
<1>6. codes \in Seq(Byte)
  <2>1. SubSeq(bytes, 1, q.n) \in Seq(Byte)
    <3> HIDE DEF q
    <3> QED BY <1>5
  <2> QED BY <1>2, <2>1
<1> HIDE DEF q, codes
<1>7. SentAlike'
  BY <1>1, <1>5 DEF Sent, SentAlike
<1>8. StreamInv'
  <2>1. StreamOK(ds')
    BY <1>1, <1>5 DEF Sent
  <2>2. input' \in Seq(Byte) /\ output' \in Seq(Byte) /\ way' = "send"
    BY <1>1, <1>2, <1>6
  <2> QED BY <1>7, <2>1, <2>2 DEF StreamInv, DleTransparent
<1>9. PICK t \in Seq(Byte) : Content(ds') = Content(ds) \o t
  BY <1>1, <1>3, <1>5
<1> QED BY <1>1, <1>2, <1>8, <1>9, QueueAdds

(* EngineGet: HandleData.                                                   *)
LEMMA EngineGetStep ==
  ASSUME StreamInv, NEW count \in Nat, count > 0, EngineGet(count)
  PROVE  StreamInv' /\ (Queue!Take \/ Queue!TakeNone)
<1> DEFINE r == GetData(ds, count)
<1>1. /\ way = "send" /\ ds' = r.d /\ got' = r.bytes
      /\ output' = IF r.bytes = EndOfData THEN output ELSE output \o r.bytes
      /\ dle' = dle /\ bitRev' = bitRev /\ way' = way /\ input' = input
  BY DEF EngineGet, dleVars
<1>2. StreamOK(ds) /\ input \in Seq(Byte) /\ output \in Seq(Byte) /\ SentAlike
  BY <1>1 DEF StreamInv, DleTransparent
<1>3. CASE Content(ds) = <<>>
  <2>1. r = [d |-> ds, bytes |-> IF ds.eof THEN EndOfData ELSE <<>>]
    BY <1>2, <1>3, GetDataNone
  <2>2. r.d = ds /\ r.bytes = IF ds.eof THEN EndOfData ELSE <<>>
    BY <2>1
  <2>3. output' = output
    <3>1. output \o <<>> = output
      BY <1>2
    <3> QED BY <1>1, <2>2, <3>1
  <2> HIDE DEF r
  <2>4. ds' = ds /\ got' = IF ds.eof THEN EndOfData ELSE <<>>
    BY <1>1, <2>2
  <2>5. StreamInv'
    BY <1>1, <1>2, <2>3, <2>4 DEF StreamInv, DleTransparent, SentAlike
  <2>6. Queue!TakeNone
    BY <1>3, <2>4 DEF Queue!TakeNone
  <2> QED BY <2>5, <2>6
<1>4. CASE Content(ds) # <<>>
  <2> DEFINE b == r.bytes
             c == Content(r.d)
  <2>1. StreamOK(r.d) /\ r.d.eof = ds.eof
    BY <1>2, GetDataTakes
  <2>2. b \in Seq(Byte) /\ b # <<>> /\ b \o c = Content(ds)
    BY <1>2, <1>4, GetDataTakes
  <2>3. c \in Seq(Byte)
    BY <2>1, ContentIs
  <2>4. output' = output \o b
    BY <1>1, <2>2, EndIsNoData
  <2> HIDE DEF r, b, c
  <2>5. (output \o b) \o c = output \o (b \o c) /\ output \o b \in Seq(Byte)
    <3>1. output \in Seq(Byte) /\ b \in Seq(Byte) /\ c \in Seq(Byte)
      BY <1>2, <2>2, <2>3
    <3>2. (output \o b) \o c = output \o (b \o c)
      BY <3>1, ConcatAssociative
    <3>3. output \o b \in Seq(Byte)
      BY <3>1
    <3> QED BY <3>2, <3>3
  <2>6. output' \o Content(ds') = output \o Content(ds)
    BY <1>1, <2>2, <2>4, <2>5 DEF c
  <2>7. SentAlike'
    BY <1>1, <1>2, <2>1, <2>6 DEF SentAlike
  <2>8. StreamInv'
    BY <1>1, <1>2, <2>1, <2>4, <2>5, <2>7 DEF StreamInv, DleTransparent
  <2>9. Queue!Take
    BY <1>1, <1>2, <2>1, <2>2, QueueTakes DEF b, c
  <2> QED BY <2>8, <2>9
<1> QED BY <1>3, <1>4

(* EnginePut.                                                               *)
LEMMA EnginePutStep ==
  ASSUME StreamInv, NEW bytes \in Seq(Byte), EnginePut(bytes)
  PROVE  StreamInv' /\ Queue!Add
<1> DEFINE m == Meaning(bitRev, output)
           a == m.bytes
           c == Content(ds)
<1>1. /\ way = "recv" /\ ~ds.eof /\ ds' = PutData(ds, bytes) /\ input' = input \o bytes
      /\ recvEtx' = recvEtx /\ bitRev' = bitRev /\ way' = way /\ got' = got
      /\ output' = output
  BY DEF EnginePut, dleVars
<1>2. StreamOK(ds) /\ input \in Seq(Byte) /\ output \in Seq(Byte) /\ ReceivedAlike
  BY <1>1 DEF StreamInv, DleTransparent
<1>3. a \o c = input /\ (m.end <=> recvEtx) /\ ~m.dle /\ (recvEtx => ds.eof)
  BY <1>2 DEF ReceivedAlike
<1>4. StreamOK(ds') /\ Content(ds') = c \o bytes
  BY <1>1, <1>2, PutDataAdds
<1>5. a \in Seq(Byte) /\ c \in Seq(Byte)
  BY <1>2, MeaningBytes, ContentIs
<1> HIDE DEF m, a, c
<1>6. a \o (c \o bytes) = (a \o c) \o bytes
  BY <1>5, ConcatAssociative
<1>7. input \o bytes \in Seq(Byte)
  BY <1>2
<1>8. a \o Content(ds') = input'
  BY <1>1, <1>3, <1>4, <1>6
<1>9. ReceivedAlike'
  BY <1>1, <1>3, <1>8 DEF ReceivedAlike, m, a
<1>10. StreamInv'
  BY <1>1, <1>2, <1>4, <1>7, <1>9 DEF StreamInv, DleTransparent
<1> QED BY <1>1, <1>2, <1>4, <1>10, QueueAdds DEF c

(* EnginePutEof.                                                            *)
LEMMA EnginePutEofStep ==
  ASSUME StreamInv, EnginePutEof
  PROVE  StreamInv' /\ Queue!Add
<1>1. /\ way = "recv" /\ ~ds.eof /\ ds' = PutEof(ds) /\ input' = input
      /\ recvEtx' = recvEtx /\ bitRev' = bitRev /\ way' = way /\ got' = got
      /\ output' = output
  BY DEF EnginePutEof, dleVars
<1>2. StreamOK(ds) /\ input \in Seq(Byte) /\ output \in Seq(Byte) /\ ReceivedAlike
  BY <1>1 DEF StreamInv, DleTransparent
<1>3. StreamOK(ds') /\ Content(ds') = Content(ds)
  BY <1>1, <1>2, PutEofIs
<1>4. ReceivedAlike'
  BY <1>1, <1>2, <1>3 DEF ReceivedAlike
<1>5. StreamInv'
  BY <1>1, <1>2, <1>3, <1>4 DEF StreamInv, DleTransparent
<1>6. <<>> \in Seq(Byte) /\ Content(ds') = Content(ds) \o <<>>
  <2>1. Content(ds) \in Seq(Byte)
    BY <1>2, ContentIs
  <2> QED BY <1>3, <2>1
<1> QED BY <1>1, <1>2, <1>5, <1>6, QueueAdds

(* GetDleData.                                                              *)
LEMMA GetDleDataStep ==
  ASSUME StreamInv, NEW count \in Nat, count >= 4, GetDleData(count)
  PROVE  /\ StreamInv' /\ (Queue!Take \/ Queue!TakeNone)
         /\ Len(output') <= Len(output) + count
<1> DEFINE g0 == [d |-> ds, raw |-> <<>>, etx |-> FALSE, out |-> <<>>]
           g == GetDleFrom(bitRev, g0, count)
           m == Meaning(bitRev, output)
           a == m.bytes
           b == g.raw
           c == Content(g.d)
           y == g.out
<1>1. /\ way = "recv" /\ ~recvEtx /\ ds' = g.d /\ recvEtx' = g.etx /\ output' = output \o y
      /\ got' = IF g.etx /\ b = <<>> THEN EndOfData ELSE b
      /\ bitRev' = bitRev /\ way' = way /\ input' = input
  BY DEF GetDleData, GetDle
<1>2. StreamOK(ds) /\ input \in Seq(Byte) /\ output \in Seq(Byte) /\ ReceivedAlike
  BY <1>1 DEF StreamInv, DleTransparent
<1>3. a \o Content(ds) = input /\ Plain(bitRev, output, a) /\ a \in Seq(Byte)
  BY <1>1, <1>2, MeaningBytes DEF ReceivedAlike, Plain
<1>4. Taken(ds, g) /\ Begun(ds, g) /\ Coded(bitRev, output, a, g) /\ Len(y) <= count
  <2> HIDE DEF a
  <2>1. g0 = [d |-> ds, raw |-> <<>>, etx |-> FALSE, out |-> <<>>]
    OBVIOUS
  <2> HIDE DEF g0
  <2> QED BY <1>2, <1>3, <2>1, GetDleTakes
<1> HIDE DEF g, m, a
<1>5. /\ StreamOK(g.d) /\ g.d.eof = ds.eof /\ b \in Seq(Byte) /\ y \in Seq(Byte)
      /\ b \o c = Content(ds) /\ (g.etx => ds.eof /\ c = <<>>)
  BY <1>4 DEF Taken
<1>6. c \in Seq(Byte)
  BY <1>5, ContentIs
<1>7. /\ Meaning(bitRev, output \o y).bytes = a \o b
      /\ Meaning(bitRev, output \o y).end <=> g.etx
      /\ ~Meaning(bitRev, output \o y).dle
  BY <1>4 DEF Coded
<1> HIDE DEF b, c, y
<1>8. (a \o b) \o c = a \o (b \o c)
  <2>1. a \in Seq(Byte) /\ b \in Seq(Byte) /\ c \in Seq(Byte)
    BY <1>3, <1>5, <1>6
  <2> QED BY <2>1, ConcatAssociative
<1>9. output \o y \in Seq(Byte) /\ Len(output \o y) = Len(output) + Len(y)
  BY <1>2, <1>5
<1>10. ReceivedAlike'
  <2>1. (a \o b) \o c = input
    BY <1>3, <1>5, <1>8
  <2>2. Content(ds') = c /\ (recvEtx' <=> g.etx) /\ (recvEtx' => ds'.eof /\ c = <<>>)
    BY <1>1, <1>5 DEF c
  <2>3. Meaning(bitRev', output') = Meaning(bitRev, output \o y)
    BY <1>1
  <2>4. input' = input
    BY <1>1
  <2> QED BY <1>7, <2>1, <2>2, <2>3, <2>4 DEF ReceivedAlike
<1>11. StreamInv'
  BY <1>1, <1>2, <1>5, <1>9, <1>10 DEF StreamInv, DleTransparent
<1>12. Queue!Take \/ Queue!TakeNone
  <2>1. CASE Content(ds) # <<>>
    <3>1. b # <<>>
      BY <1>4, <2>1 DEF Begun, b
    <3>2. got' = b
      BY <1>1, <3>1
    <3>3. Queue!Take
      BY <1>1, <1>2, <1>5, <3>1, <3>2, QueueTakes DEF c
    <3> QED BY <3>3
  <2>2. CASE Content(ds) = <<>>
    <3>1. g.etx <=> ds.eof
      BY <1>4, <2>2 DEF Begun
    <3>2. b = <<>> /\ c = <<>>
      <4>1. Len(b \o c) = Len(b) + Len(c) /\ Len(b) \in Nat /\ Len(c) \in Nat
        BY <1>5, <1>6
      <4>2. Len(b \o c) = 0
        BY <1>5, <2>2
      <4>3. Len(b) = 0 /\ Len(c) = 0
        BY <4>1, <4>2
      <4> QED BY <1>5, <1>6, <4>3
    <3>3. got' = IF ds.eof THEN EndOfData ELSE <<>>
      BY <1>1, <3>1, <3>2
    <3>4. Content(ds') = Content(ds) /\ ds'.eof = ds.eof
      BY <1>1, <1>5, <2>2, <3>2 DEF c
    <3>5. Queue!TakeNone
      BY <2>2, <3>3, <3>4 DEF Queue!TakeNone
    <3> QED BY <3>5
  <2> QED BY <2>1, <2>2
<1>13. Len(output') <= Len(output) + count
  <2>1. Len(output) \in Nat /\ Len(y) \in Nat /\ Len(y) <= count
    BY <1>2, <1>4, <1>5 DEF y
  <2>2. Len(output') = Len(output) + Len(y)
    BY <1>1, <1>9
  <2> QED BY <2>1, <2>2
<1> QED BY <1>11, <1>12, <1>13

(* Clean.                                                                   *)
LEMMA CleanStep ==
  ASSUME Clean
  PROVE  StreamInv' /\ Queue!Clear
<1>1. StreamInv'
  <2>1. /\ ds' = EmptyStream /\ dle' = FALSE /\ recvEtx' = FALSE /\ way' \in {"send", "recv"}
        /\ input' = <<>> /\ output' = <<>>
    BY DEF Clean
  <2>2. StreamOK(ds') /\ Content(ds') = <<>> /\ ~ds'.eof
    BY <2>1, EmptyStreamIs
  <2>3. <<>> \in Seq(Byte) /\ <<>> \o <<>> = <<>>
    OBVIOUS
  <2> DEFINE m == Meaning(bitRev', <<>>)
  <2>4. m.bytes = <<>> /\ ~m.end /\ ~m.dle
    BY MeaningEmpty
  <2> HIDE DEF m
  <2>5. SentAlike'
    BY <2>1, <2>2, <2>3, <2>4 DEF SentAlike, m
  <2>6. ReceivedAlike'
    BY <2>1, <2>2, <2>3, <2>4 DEF ReceivedAlike, m
  <2> QED BY <2>1, <2>2, <2>3, <2>5, <2>6 DEF StreamInv, DleTransparent
<1>2. Queue!Clear
  BY EmptyStreamIs DEF Clean, Queue!Clear
<1> QED BY <1>1, <1>2

(* Every step keeps the invariant and is a step of the queue.               *)
LEMMA StreamStep ==
  ASSUME StreamInv, [StreamNext]_streamVars
  PROVE  StreamInv' /\ [Queue!QueueNext]_<<Content(ds), ds.eof, got>>
<1>1. CASE \E bytes \in Calls :
             /\ Len(input) + Len(bytes) <= MaxInput
             /\ PutDleData(bytes) \/ EnginePut(bytes)
  <2>1. PICK bytes \in Calls : PutDleData(bytes) \/ EnginePut(bytes)
    BY <1>1
  <2>2. bytes \in Seq(Byte)
    BY CallIs
  <2>3. StreamInv' /\ Queue!Add
    BY <2>1, <2>2, PutDleDataStep, EnginePutStep
  <2> QED BY <2>3 DEF Queue!QueueNext
<1>2. CASE \E count \in 1..MaxCount : EngineGet(count) \/ GetDleData(4 * count)
  <2>1. PICK count \in 1..MaxCount : EngineGet(count) \/ GetDleData(4 * count)
    BY <1>2
  <2>2. /\ count \in Nat /\ count > 0
        /\ 4 * count \in Nat /\ 4 * count >= 4
    BY StreamAssumption
  <2>3. CASE EngineGet(count)
    <3>1. StreamInv' /\ (Queue!Take \/ Queue!TakeNone)
      BY <2>2, <2>3, EngineGetStep
    <3> QED BY <3>1 DEF Queue!QueueNext
  <2>4. CASE GetDleData(4 * count)
    <3> DEFINE room == 4 * count
    <3>1. room \in Nat /\ room >= 4 /\ GetDleData(room)
      BY <2>2, <2>4
    <3> HIDE DEF room
    <3>2. StreamInv' /\ (Queue!Take \/ Queue!TakeNone)
      BY <3>1, GetDleDataStep
    <3> QED BY <3>2 DEF Queue!QueueNext
  <2> QED BY <2>1, <2>3, <2>4
<1>3. CASE EnginePutEof
  <2>1. StreamInv' /\ Queue!Add
    BY <1>3, EnginePutEofStep
  <2> QED BY <2>1 DEF Queue!QueueNext
<1>4. CASE Clean
  <2>1. StreamInv' /\ Queue!Clear
    BY <1>4, CleanStep
  <2> QED BY <2>1 DEF Queue!QueueNext
<1>5. CASE UNCHANGED streamVars
  <2>1. /\ ds' = ds /\ dle' = dle /\ recvEtx' = recvEtx /\ bitRev' = bitRev /\ way' = way
        /\ got' = got /\ input' = input /\ output' = output
    BY <1>5 DEF streamVars, dleVars
  <2>2. StreamInv'
    BY <2>1 DEF StreamInv, DleTransparent, SentAlike, ReceivedAlike
  <2>3. UNCHANGED <<Content(ds), ds.eof, got>>
    BY <2>1
  <2> QED BY <2>2, <2>3
<1> QED BY <1>1, <1>2, <1>3, <1>4, <1>5 DEF StreamNext

(* A stream starts empty, as a queue does.                                  *)
LEMMA StreamStarts ==
  ASSUME StreamInit
  PROVE  StreamInv /\ Queue!QueueInit
<1>1. StreamInv
  BY CleanInv DEF StreamInit
<1>2. ds = EmptyStream /\ got = <<>>
  BY DEF StreamInit
<1>3. ds.eof = FALSE
  BY <1>2 DEF EmptyStream
<1> QED BY <1>1, <1>2, <1>3, EmptyStreamIs DEF Queue!QueueInit

(* The pointers of a stream that is linked are live.                        *)
LEMMA LinkedLive ==
  ASSUME StreamInv
  PROVE  ChunksLive
<1> DEFINE chain == Chain(ds)
           addresses == {chain[i] : i \in 1..Len(chain)}
<1>1. chain \in Seq(Address) /\ Linked(ds)
  BY ChainIs DEF StreamInv, StreamOK
<1>2. DOMAIN ds.heap = addresses
  BY <1>1 DEF Linked
<1>3. Len(chain) = 0 => ds.lastBuf = NULL
  BY <1>1 DEF Linked
<1>4. Len(chain) > 0 => ds.lastBuf = chain[Len(chain)]
  BY <1>1 DEF Linked
<1>5. Len(chain) \in Nat
  BY <1>1
<1> HIDE DEF chain
<1>6. Len(chain) > 0 => chain[Len(chain)] \in addresses
  BY <1>5
<1>7. ds.lastBuf # NULL => ds.lastBuf \in addresses
  BY <1>3, <1>4, <1>5, <1>6
<1> QED BY <1>2, <1>7 DEF ChunksLive, chain

-----------------------------------------------------------------------------
(* The invariant holds in every state of a stream: see StreamInv.           *)
THEOREM StreamInvariant == StreamSpec => []StreamInv
<1>1. StreamInit => StreamInv
  BY StreamStarts
<1>2. StreamInv /\ [StreamNext]_streamVars => StreamInv'
  BY StreamStep
<1> QED BY <1>1, <1>2, PTL DEF StreamSpec

(* DataStream::PutData and GetData use no chunk that was deleted and lose   *)
(* none: lastBuf is firstBuf or in bufQ whenever it is not NULL, and the    *)
(* chunks that exist are those of the chain, whatever the size of a chunk   *)
(* and of the calls.                                                        *)
THEOREM StreamChunksLive == StreamSpec => []ChunksLive
<1>1. StreamInv => ChunksLive
  BY LinkedLive
<1> QED BY <1>1, StreamInvariant, PTL

(* PutDleData and GetDleData are transparent: the bytes the DTE means with  *)
(* its DLE codes are those the engine gets, and the other way about,        *)
(* wherever a call or a chunk ends, with bits reversed or not; the end is   *)
(* told once and after the last byte.                                       *)
THEOREM StreamDleTransparent == StreamSpec => []DleTransparent
<1>1. StreamInv => DleTransparent
  BY DEF StreamInv
<1> QED BY <1>1, StreamInvariant, PTL

(* A DataStream is a queue of bytes: every call is a step of ByteQueue.     *)
THEOREM StreamImplementsQueue == StreamSpec => StreamIsQueue
<1>1. StreamInit => Queue!QueueInit
  BY StreamStarts
<1>2. StreamInv /\ [StreamNext]_streamVars
        => [Queue!QueueNext]_<<Content(ds), ds.eof, got>>
  BY StreamStep
<1> QED BY <1>1, <1>2, StreamInvariant, PTL DEF StreamSpec, StreamIsQueue, Queue!QueueSpec

(* GetDleData never writes past the buffer of its caller: the DLE bytes it  *)
(* doubles and the <DLE><ETX> it adds fit in the count bytes of a call.     *)
THEOREM GetDleFits == StreamSpec => RoomKept
<1> DEFINE Fits == \A count \in 1..MaxCount :
                     Len(output') <= Len(output) + 4 * count \/ ~GetDleData(4 * count)
<1>1. StreamInv /\ [StreamNext]_streamVars => [Fits]_streamVars
  <2> SUFFICES ASSUME StreamInv, NEW count \in 1..MaxCount, GetDleData(4 * count)
               PROVE  Len(output') <= Len(output) + 4 * count
    OBVIOUS
  <2> DEFINE room == 4 * count
  <2>1. count \in Nat /\ room \in Nat /\ room >= 4
    BY StreamAssumption
  <2>2. GetDleData(room) /\ Len(output) \in Nat
    BY DEF StreamInv
  <2> HIDE DEF room
  <2>3. Len(output') <= Len(output) + room
    BY <2>1, <2>2, GetDleDataStep
  <2> QED BY <2>1, <2>2, <2>3 DEF room
<1> QED BY <1>1, StreamInvariant, PTL DEF StreamSpec, RoomKept
=============================================================================
