---------------------------- MODULE FramesProofs ----------------------------
(***************************************************************************)
(* Proofs about Frames, for whatever frames clients send and however       *)
(* recv() cuts their bytes.  Every variable keeps its type.  Of a client   *)
(* that sends every message in one frame, the parser reads the frames as   *)
(* they were encoded, and every message is handled once, in order and      *)
(* unmasked; what is copied of it fits into the buffer.                    *)
(***************************************************************************)
EXTENDS Frames, TLAPS, WellFoundedInduction

-----------------------------------------------------------------------------
(* The inductive invariant.                                                *)

\* All the bytes that the client sends.
All == FlattenSeq([i \in DOMAIN sent |-> Encode(sent[i])])

\* A frame's masking key has four bytes, before and after it was received.
KeyInv == \A i \in DOMAIN chain : Len(chain[i].key) = 4

\* A message ends where the payload of the frame that is parsed ends.
EndInv == pc = "done" => chain[cur].end = last

\* Only while the connection is open is anything parsed, and what is in the buffer fits.
RoomInv == (pc # "idle" => open) /\ (~ overrun => Len(buf) <= BufSize)

\* The bytes behind buffer.last and those which were not received yet are the client's,
\* as it sent them.
StreamInv ==
    /\ Consumed >= 0
    /\ \A k \in 1 .. Len(buf) - last : buf[last + k] = All[Consumed + k]
    /\ \A k \in 1 .. Len(rest) : rest[k] = All[Len(All) - Len(rest) + k]

\* The bit that says that a frame is masked.
MaskBit(f) == IF f.key = <<>> THEN 0 ELSE 1

\* How many bytes of the frame f are parsed in a state.
Offset(f, s) ==
    IF s = "fin" THEN 0 ELSE
    IF s = "mask" THEN 1 ELSE
    IF s \in {"extended_2", "extended_8"} THEN 2 ELSE
    IF s = "masking_key" THEN 1 + Len(Size(f)) ELSE 1 + Len(Size(f)) + Len(f.key)

\* The frame c is f, as far as it is parsed in a state.
Parsed(f, c, s) ==
    /\ s # "fin" => c.fin = f.fin /\ c.opcode = f.opcode
    /\ s \in {"extended_2", "extended_8", "masking_key", "payload_data"} => c.mask = MaskBit(f)
    /\ s = "extended_2" => f.form = 16
    /\ s = "extended_8" => f.form = 64
    /\ s = "masking_key" => f.key # <<>>
    /\ s \in {"masking_key", "payload_data"} => c.extended = Len(f.data)
    /\ s = "payload_data" /\ f.key # <<>> => c.key = f.key

\* n frames are parsed, and the next one as far as the state says.
At(n) ==
    /\ n \in 0 .. Len(sent)
    /\ state = "fin" => Consumed = LengthOf(n)
    /\ state # "fin" =>
          /\ n < Len(sent)
          /\ Consumed = LengthOf(n) + Offset(sent[n + 1], state)
          /\ Parsed(sent[n + 1], chain[1], state)

\* The last of the n frames is parsed, and is to be handled.
Ended(n) ==
    /\ state = "fin" /\ n > 0
    /\ chain[1].opcode = sent[n].opcode
    /\ chain[1].end = chain[1].start + Len(sent[n].data)
    /\ IsData(sent[n]) => \A i \in 1 .. Len(sent[n].data) : buf[chain[1].start + i] = sent[n].data[i]

\* Of n frames the messages are handled.  A close frame is the last that is handled.
Handled(n) ==
    /\ delivered = Messages(IF pc = "done" THEN n - 1 ELSE n)
    /\ \A i \in 1 .. n : sent[i].opcode = CLOSE => i = n /\ (pc = "done" \/ ~ open)

\* What is in the buffer while the thread waits does not suffice for a step.
Waiting == pc = "idle" /\ open => last = Len(buf) \/ Len(buf) - last < Needs

\* A client that sends every message in one frame uses the first frame of the list only.
OneFrame ==
    /\ Len(chain) = 1 /\ cur = 1 /\ pc # "next"
    /\ Waiting
    /\ \E n \in 0 .. Len(sent) : At(n) /\ (pc = "done" => Ended(n)) /\ Handled(n)

IInv == KeyInv /\ EndInv /\ RoomInv /\ StreamInv /\ (Unfragmented => OneFrame)
Ind == TypeOK /\ IInv

-----------------------------------------------------------------------------
(* Sequences.                                                              *)

\* Every set of naturals that is not empty has a least element: with it one can do
\* induction, for the smallest counterexample.
LEMMA Least ==
    ASSUME NEW S, S \subseteq Nat, S # {}
    PROVE  \E n \in S : \A m \in S : n <= m
<1> DEFINE R == OpToRel(<, Nat)
<1>1. IsWellFoundedOn(R, Nat)
  BY NatLessThanWellFounded
<1>2. PICK n \in S : \A m \in S : ~ (<<m, n>> \in R)
  <2> HIDE DEF R
  <2> QED BY <1>1, WFMin
<1>3. \A m, n1 \in Nat : m < n1 => <<m, n1>> \in R
  BY DEF OpToRel
<1> HIDE DEF R
<1>4. ASSUME NEW m \in S PROVE n <= m
  <2>1. m \in Nat /\ n \in Nat /\ ~ (<<m, n>> \in R)
    BY <1>2
  <2>2. ~ (m < n)
    BY <1>3, <2>1
  <2> QED
    BY <2>1, <2>2
<1> QED
  BY <1>4

\* What SubSeq, \o and Append return.
LEMMA SubSeqRight ==
    ASSUME NEW S, NEW s \in Seq(S), NEW m \in 1 .. Len(s) + 1, NEW n \in 0 .. Len(s), m <= n + 1
    PROVE  /\ SubSeq(s, m, n) \in Seq(S) /\ Len(SubSeq(s, m, n)) = n - m + 1
           /\ \A i \in 1 .. n - m + 1 : SubSeq(s, m, n)[i] = s[m + i - 1]
OBVIOUS

LEMMA ConcatRight ==
    ASSUME NEW S, NEW s \in Seq(S), NEW t \in Seq(S)
    PROVE  /\ s \o t \in Seq(S) /\ Len(s \o t) = Len(s) + Len(t)
           /\ \A i \in 1 .. Len(s) : (s \o t)[i] = s[i]
           /\ \A i \in 1 .. Len(t) : (s \o t)[Len(s) + i] = t[i]
OBVIOUS

LEMMA SeqEqual ==
    ASSUME NEW S, NEW s \in Seq(S), NEW t \in Seq(S), Len(s) = Len(t),
           \A i \in 1 .. Len(s) : s[i] = t[i]
    PROVE  s = t
OBVIOUS

\* The concatenations that FlattenSeq is defined by exist.
LEMMA FlattenExists ==
    ASSUME NEW N \in Nat, NEW ss
    PROVE  \E g : g = [i \in 1 .. N |-> IF i = 1 THEN ss[i] ELSE g[i - 1] \o ss[i]]
<1> DEFINE Flat(n) == \E g : g = [i \in 1 .. n |-> IF i = 1 THEN ss[i] ELSE g[i - 1] \o ss[i]]
           Bad == {n \in 0 .. N : ~ Flat(n)}
<1>1. SUFFICES ASSUME ~ Flat(N) PROVE FALSE
  OBVIOUS
<1> HIDE DEF Flat
<1>2. PICK n \in Bad : \A m \in Bad : n <= m
  <2>1. Bad \subseteq Nat /\ N \in Bad
    BY <1>1
  <2> HIDE DEF Bad
  <2> QED
    BY <2>1, Least
<1>3. Flat(0)
  <2>1. [i \in 1 .. 0 |-> 0] = [i \in 1 .. 0 |-> IF i = 1 THEN ss[i] ELSE [j \in 1 .. 0 |-> 0][i - 1] \o ss[i]]
    OBVIOUS
  <2> QED
    BY <2>1 DEF Flat
<1>4. n \in 1 .. N /\ n - 1 \in 0 .. N /\ ~ Flat(n) /\ Flat(n - 1)
  <2>1. n \in 0 .. N /\ ~ Flat(n)
    OBVIOUS
  <2>2. n # 0
    BY <1>3, <2>1
  <2>3. n - 1 \in 0 .. N /\ n - 1 < n
    BY <2>1, <2>2
  <2>4. n - 1 \notin Bad
    <3> HIDE DEF Bad
    <3>1. n - 1 \in Bad => n <= n - 1
      BY <1>2
    <3> QED
      BY <2>1, <2>3, <3>1
  <2> QED
    BY <2>1, <2>2, <2>3, <2>4
<1>5. PICK g : g = [i \in 1 .. n - 1 |-> IF i = 1 THEN ss[i] ELSE g[i - 1] \o ss[i]]
  BY <1>4 DEF Flat
<1> DEFINE h == [i \in 1 .. n |-> IF i = n THEN IF n = 1 THEN ss[n] ELSE g[n - 1] \o ss[n] ELSE g[i]]
<1>6. \A i \in 1 .. n : h[i] = IF i = 1 THEN ss[i] ELSE h[i - 1] \o ss[i]
  <2> SUFFICES ASSUME NEW i \in 1 .. n PROVE h[i] = IF i = 1 THEN ss[i] ELSE h[i - 1] \o ss[i]
    OBVIOUS
  <2>1. i > 1 => i - 1 \in 1 .. n /\ i - 1 # n
    BY <1>4
  <2>2. CASE i = n
    <3>1. n > 1 => h[n - 1] = g[n - 1]
      BY <2>1, <2>2
    <3> QED
      BY <1>4, <2>2, <3>1
  <2>3. CASE i # n
    <3>1. i \in 1 .. n - 1 /\ i \in 1 .. n
      BY <1>4, <2>3
    <3>2. g[i] = IF i = 1 THEN ss[i] ELSE g[i - 1] \o ss[i]
      BY <1>5, <3>1
    <3>3. h[i] = g[i] /\ (i > 1 => h[i - 1] = g[i - 1])
      BY <2>1, <2>3
    <3> QED
      BY <3>1, <3>2, <3>3
  <2> QED
    BY <2>2, <2>3
<1>7. h = [i \in 1 .. n |-> h[i]]
  OBVIOUS
<1> HIDE DEF h
<1>8. h = [i \in 1 .. n |-> IF i = 1 THEN ss[i] ELSE h[i - 1] \o ss[i]]
  BY <1>6, <1>7
<1> QED
  BY <1>4, <1>8 DEF Flat

\* What FlattenSeq computes for the first n sequences.
Part(ss, n) == FlattenSeq([i \in 1 .. n |-> ss[i]])

\* The first N of ss are sequences over S.
SeqsOf(S, N, ss) == \A i \in 1 .. N : ss[i] \in Seq(S)

\* FlattenSeq appends the last sequence to what it makes of the others.
LEMMA PartStep ==
    ASSUME NEW S, NEW N \in Nat, NEW ss, SeqsOf(S, N, ss)
    PROVE  /\ Part(ss, 0) = <<>>
           /\ \A n \in 1 .. N : Part(ss, n) = Part(ss, n - 1) \o ss[n]
<1> DEFINE P(n) == [i \in 1 .. n |-> ss[i]]
           Flat(p, g) == g = [i \in 1 .. Len(p) |-> IF i = 1 THEN p[i] ELSE g[i - 1] \o p[i]]
           F(n) == CHOOSE g : Flat(P(n), g)
<1>1. \A n \in Nat : Len(P(n)) = n
  OBVIOUS
<1>2. Part(ss, 0) = <<>>
  <2>1. P(0) = <<>> /\ Len(P(0)) = 0
    OBVIOUS
  <2> HIDE DEF P
  <2>2. FlattenSeq(P(0)) = P(0)
    BY <2>1 DEF FlattenSeq
  <2>3. Part(ss, 0) = FlattenSeq(P(0))
    BY DEF Part, P
  <2> QED
    BY <2>1, <2>2, <2>3
<1>3. ASSUME NEW n \in 1 .. N
      PROVE  /\ Part(ss, n) = F(n)[n]
             /\ \A i \in 1 .. n : F(n)[i] = IF i = 1 THEN ss[i] ELSE F(n)[i - 1] \o ss[i]
  <2>1. Len(P(n)) = n /\ n \in Nat /\ n # 0
    BY <1>1
  <2>2. \A i \in 1 .. n : P(n)[i] = ss[i]
    OBVIOUS
  <2>3. Part(ss, n) = FlattenSeq(P(n))
    BY DEF Part
  <2> HIDE DEF P
  <2>4. FlattenSeq(P(n)) = F(n)[Len(P(n))]
    <3> DEFINE p == P(n)
    <3>1. Len(p) # 0
      BY <2>1
    <3> HIDE DEF p
    <3>2. FlattenSeq(p) = (CHOOSE g : Flat(p, g))[Len(p)]
      BY Zenon, <3>1 DEF FlattenSeq
    <3> QED
      BY <3>2 DEF p
  <2>5. \E g : Flat(P(n), g)
    <3> DEFINE p == P(n)
    <3>1. Len(p) \in Nat
      BY <2>1
    <3> HIDE DEF p
    <3>2. \E g : g = [i \in 1 .. Len(p) |-> IF i = 1 THEN p[i] ELSE g[i - 1] \o p[i]]
      BY Zenon, <3>1, FlattenExists
    <3> QED
      BY <3>2 DEF p
  <2> HIDE DEF Flat
  <2>6. Flat(P(n), F(n))
    BY Zenon, <2>5
  <2> HIDE DEF F
  <2>7. F(n) = [i \in 1 .. n |-> IF i = 1 THEN P(n)[i] ELSE F(n)[i - 1] \o P(n)[i]]
    BY <2>1, <2>6 DEF Flat
  <2>8. ASSUME NEW i \in 1 .. n PROVE F(n)[i] = IF i = 1 THEN ss[i] ELSE F(n)[i - 1] \o ss[i]
    BY <2>2, <2>7
  <2> QED
    BY <2>1, <2>3, <2>4, <2>8
<1> HIDE DEF F
<1>4. ASSUME NEW n \in 1 .. N, NEW m \in 1 .. n, NEW k \in 1 .. m
      PROVE  F(n)[k] = F(m)[k]
  <2> DEFINE Bad == {j \in 1 .. m : F(n)[j] # F(m)[j]}
  <2>1. SUFFICES ASSUME Bad # {} PROVE FALSE
    OBVIOUS
  <2>2. PICK j \in Bad : \A x \in Bad : j <= x
    <3>1. Bad \subseteq Nat
      OBVIOUS
    <3> HIDE DEF Bad
    <3> QED
      BY <2>1, <3>1, Least
  <2>3. j \in 1 .. m /\ F(n)[j] # F(m)[j]
    OBVIOUS
  <2>4. /\ j \in 1 .. n /\ m \in 1 .. N
        /\ F(n)[j] = IF j = 1 THEN ss[j] ELSE F(n)[j - 1] \o ss[j]
        /\ F(m)[j] = IF j = 1 THEN ss[j] ELSE F(m)[j - 1] \o ss[j]
    BY <1>3, <2>3
  <2>5. j # 1 /\ j - 1 \in 1 .. m /\ ~ (j <= j - 1)
    BY <2>3, <2>4
  <2>6. j - 1 \notin Bad
    <3> HIDE DEF Bad
    <3> QED
      BY <2>2, <2>5
  <2> QED
    BY <2>3, <2>4, <2>5, <2>6
<1>5. ASSUME NEW n \in 1 .. N PROVE Part(ss, n) = Part(ss, n - 1) \o ss[n]
  <2>1. Part(ss, n) = F(n)[n] /\ F(n)[n] = IF n = 1 THEN ss[n] ELSE F(n)[n - 1] \o ss[n]
    BY <1>3
  <2>2. CASE n = 1
    <3>1. <<>> \o ss[1] = ss[1]
      <4>1. ss[1] \in Seq(S)
        BY <2>2 DEF SeqsOf
      <4>2. <<>> \in Seq(S) /\ Len(<<>>) = 0
        OBVIOUS
      <4> QED
        BY <4>1, <4>2, ConcatRight, SeqEqual
    <3>2. n - 1 = 0
      BY <2>2
    <3> QED
      BY <1>2, <2>1, <2>2, <3>1, <3>2
  <2>3. CASE n # 1
    <3>1. n - 1 \in 1 .. N /\ n - 1 \in 1 .. n /\ n - 1 \in 1 .. n - 1
      BY <2>3
    <3>2. F(n)[n - 1] = F(n - 1)[n - 1]
      BY <1>4, <3>1
    <3>3. Part(ss, n - 1) = F(n - 1)[n - 1]
      BY <1>3, <3>1
    <3> QED
      BY <2>1, <2>3, <3>2, <3>3
  <2> QED
    BY <2>2, <2>3
<1> QED
  BY <1>2, <1>5

\* FlattenSeq returns a sequence.
LEMMA PartType ==
    ASSUME NEW S, NEW N \in Nat, NEW ss, SeqsOf(S, N, ss), NEW n \in 0 .. N
    PROVE  Part(ss, n) \in Seq(S)
<1>1. Part(ss, 0) = <<>> /\ \A m \in 1 .. N : Part(ss, m) = Part(ss, m - 1) \o ss[m]
  BY PartStep
<1>2. \A m \in 0 .. N : Part(ss, m) \in Seq(S)
  <2> DEFINE Bad == {x \in 0 .. N : Part(ss, x) \notin Seq(S)}
  <2>1. SUFFICES ASSUME Bad # {} PROVE FALSE
    OBVIOUS
  <2>2. PICK k \in Bad : \A x \in Bad : k <= x
    <3>1. Bad \subseteq Nat
      OBVIOUS
    <3> HIDE DEF Bad
    <3> QED
      BY <2>1, <3>1, Least
  <2>3. k \in 0 .. N /\ Part(ss, k) \notin Seq(S)
    OBVIOUS
  <2>4. k # 0
    <3>1. <<>> \in Seq(S)
      OBVIOUS
    <3> QED
      BY <1>1, <2>3, <3>1
  <2>5. k \in 1 .. N /\ k - 1 \in 0 .. N /\ ~ (k <= k - 1)
    BY <2>3, <2>4
  <2>6. k - 1 \notin Bad
    <3> HIDE DEF Bad
    <3> QED
      BY <2>2, <2>5
  <2>7. Part(ss, k - 1) \in Seq(S) /\ ss[k] \in Seq(S) /\ Part(ss, k) = Part(ss, k - 1) \o ss[k]
    BY <1>1, <2>5, <2>6 DEF SeqsOf
  <2> QED
    BY <2>3, <2>7, ConcatRight
<1> QED
  BY <1>2

\* What it returns for the first of the sequences is a prefix of what it returns for
\* all of them.
LEMMA PartPrefix ==
    ASSUME NEW S, NEW N \in Nat, NEW ss, SeqsOf(S, N, ss),
           NEW n \in 0 .. N, NEW m \in 0 .. n
    PROVE  /\ Len(Part(ss, m)) <= Len(Part(ss, n))
           /\ \A k \in 1 .. Len(Part(ss, m)) : Part(ss, n)[k] = Part(ss, m)[k]
<1>1. \A x \in 1 .. N : Part(ss, x) = Part(ss, x - 1) \o ss[x]
  BY PartStep
<1>2. \A x \in 0 .. N : Part(ss, x) \in Seq(S)
  BY PartType
<1>3. \A x \in 0 .. N : Len(Part(ss, x)) \in Nat
  BY <1>2
<1>4. ASSUME NEW x \in 1 .. N
      PROVE  /\ Len(Part(ss, x)) = Len(Part(ss, x - 1)) + Len(ss[x])
             /\ \A k \in 1 .. Len(Part(ss, x - 1)) : Part(ss, x)[k] = Part(ss, x - 1)[k]
             /\ Len(ss[x]) \in Nat
  <2>1. x - 1 \in 0 .. N
    OBVIOUS
  <2>2. Part(ss, x - 1) \in Seq(S) /\ ss[x] \in Seq(S) /\ Part(ss, x) = Part(ss, x - 1) \o ss[x]
    BY <1>1, <1>2, <2>1 DEF SeqsOf
  <2> QED
    BY <2>2, ConcatRight
<1>5. /\ Len(Part(ss, m)) <= Len(Part(ss, n))
      /\ \A k \in 1 .. Len(Part(ss, m)) : Part(ss, n)[k] = Part(ss, m)[k]
  <2> DEFINE Good(x) == /\ Len(Part(ss, m)) <= Len(Part(ss, x))
                        /\ \A k \in 1 .. Len(Part(ss, m)) : Part(ss, x)[k] = Part(ss, m)[k]
             Bad == {x \in m .. N : ~ Good(x)}
  <2>1. SUFFICES ASSUME Bad # {} PROVE FALSE
    OBVIOUS
  <2>2. PICK x \in Bad : \A y \in Bad : x <= y
    <3>1. Bad \subseteq Nat
      OBVIOUS
    <3> HIDE DEF Bad
    <3> QED
      BY <2>1, <3>1, Least
  <2>3. x \in m .. N /\ ~ Good(x)
    OBVIOUS
  <2>4. x # m
    BY <1>3, <2>3
  <2>5. x \in 1 .. N /\ x - 1 \in m .. N /\ x - 1 \in 0 .. N /\ ~ (x <= x - 1)
    BY <2>3, <2>4
  <2>6. Good(x - 1)
    <3>1. x - 1 \notin Bad
      <4> HIDE DEF Bad
      <4> QED
        BY <2>2, <2>5
    <3> QED
      BY <2>5, <3>1
  <2>7. /\ Len(Part(ss, x)) = Len(Part(ss, x - 1)) + Len(ss[x]) /\ Len(ss[x]) \in Nat
        /\ \A k \in 1 .. Len(Part(ss, x - 1)) : Part(ss, x)[k] = Part(ss, x - 1)[k]
    BY <1>4, <2>5
  <2>8. Len(Part(ss, m)) \in Nat /\ Len(Part(ss, x - 1)) \in Nat
    BY <1>3, <2>5
  <2>9. Len(Part(ss, m)) <= Len(Part(ss, x))
    <3>1. Len(Part(ss, m)) <= Len(Part(ss, x - 1))
      BY <2>6
    <3>2. Len(Part(ss, x)) = Len(Part(ss, x - 1)) + Len(ss[x]) /\ Len(ss[x]) \in Nat
      BY <2>7
    <3> DEFINE a == Len(Part(ss, m))
               b == Len(Part(ss, x - 1))
               c == Len(Part(ss, x))
               d == Len(ss[x])
    <3>3. a \in Nat /\ b \in Nat /\ d \in Nat /\ a <= b /\ c = b + d
      BY <2>8, <3>1, <3>2
    <3> HIDE DEF a, b, c, d
    <3>4. a <= c
      BY <3>3
    <3> QED
      BY <3>4 DEF a, c
  <2>10. ASSUME NEW k \in 1 .. Len(Part(ss, m)) PROVE Part(ss, x)[k] = Part(ss, m)[k]
    <3>1. k \in 1 .. Len(Part(ss, x - 1))
      BY <2>6, <2>8
    <3> QED
      BY <2>6, <2>7, <3>1
  <2> QED
    BY <2>3, <2>9, <2>10
<1> QED
  BY <1>5

-----------------------------------------------------------------------------
(* The bytes of a frame.                                                   *)

\* The byte of a payload as it is sent.
SentByte(f, i) == IF f.key = <<>> THEN f.data[i] ELSE Xor(f.data[i], f.key[((i - 1) % 4) + 1])

\* Masking is undone by masking again.
LEMMA XorRight ==
    /\ \A a, b \in {0, 1} : Xor(a, b) \in {0, 1} /\ Xor(Xor(a, b), b) = a
    /\ \A a, b \in Bytes : Xor(a, b) \in {0, 1}
<1>1. \A a, b \in {0, 1} : Xor(a, b) \in {0, 1} /\ Xor(Xor(a, b), b) = a
  BY DEF Xor
<1>2. \A a, b \in Bytes : Xor(a, b) \in {0, 1}
  <2>1. \A n \in Nat : n % 2 \in {0, 1}
    OBVIOUS
  <2> QED
    BY <2>1 DEF Xor, Bytes
<1> QED
  BY <1>1, <1>2

LEMMA SentFrameType ==
    ASSUME NEW f \in SentFrame
    PROVE  /\ f.fin \in {0, 1} /\ f.opcode \in 0 .. 15 /\ f.form \in {7, 16, 64}
           /\ f.key \in Seq({0, 1}) /\ f.data \in Seq({0, 1}) /\ Len(f.key) \in {0, 4}
           /\ Len(f.data) \in Bytes /\ (f.form = 7 => Len(f.data) <= 125)
           /\ f.key = <<>> <=> Len(f.key) = 0
           /\ f.data = <<>> <=> Len(f.data) = 0
<1>1. /\ f \in [fin : {0, 1}, opcode : 0 .. 15, form : {7, 16, 64}, key : Seq({0, 1}), data : Seq({0, 1})]
      /\ Len(f.key) \in {0, 4}
      /\ Len(f.data) <= IF f.form = 7 THEN 125 ELSE 255
  BY DEF SentFrame
<1>2. \A s \in Seq({0, 1}) : Len(s) \in Nat /\ (s = <<>> <=> Len(s) = 0)
  OBVIOUS
<1>3. f.key \in Seq({0, 1}) /\ f.data \in Seq({0, 1})
  BY <1>1
<1> HIDE DEF SentFrame
<1>4. Len(f.data) \in Nat /\ Len(f.data) <= 255 /\ (f.form = 7 => Len(f.data) <= 125)
  BY <1>1, <1>3
<1>5. Len(f.data) \in Bytes
  <2>1. \A n \in Nat : n <= 255 => n \in Bytes
    BY DEF Bytes
  <2> QED
    BY <1>4, <2>1
<1>6. (f.key = <<>> <=> Len(f.key) = 0) /\ (f.data = <<>> <=> Len(f.data) = 0)
  BY <1>2, <1>3
<1> QED
  BY <1>1, <1>3, <1>4, <1>5, <1>6

\* How the length of a frame is written.
LEMMA SizeRight ==
    ASSUME NEW f \in SentFrame
    PROVE  /\ Size(f) \in Seq(Bytes)
           /\ f.form = 7  => /\ Len(Size(f)) = 1
                             /\ Size(f)[1] = 128 * MaskBit(f) + Len(f.data)
           /\ f.form = 16 => /\ Len(Size(f)) = 3
                             /\ Size(f)[1] = 128 * MaskBit(f) + 126
                             /\ Size(f)[2] = 0 /\ Size(f)[3] = Len(f.data)
           /\ f.form = 64 => /\ Len(Size(f)) = 9
                             /\ Size(f)[1] = 128 * MaskBit(f) + 127
                             /\ Size(f)[8] = 0 /\ Size(f)[9] = Len(f.data)
<1> DEFINE m == IF f.key = <<>> THEN 0 ELSE 128
           l == Len(f.data)
<1>1. /\ f.form \in {7, 16, 64} /\ l \in 0 .. 255 /\ (f.form = 7 => l <= 125)
      /\ m \in {0, 128} /\ m = 128 * MaskBit(f)
  BY SMTT(40), SentFrameType DEF Bytes, MaskBit
<1>2. Size(f) = IF f.form = 7 THEN <<m + l>> ELSE IF f.form = 16 THEN <<m + 126, 0, l>>
                ELSE <<m + 127, 0, 0, 0, 0, 0, 0, 0, l>>
  BY DEF Size
<1> HIDE DEF m, l
<1>3. CASE f.form = 7
  <2>1. m + l \in Bytes
    BY <1>1, <1>3 DEF Bytes
  <2>2. <<m + l>> \in Seq(Bytes) /\ Len(<<m + l>>) = 1 /\ <<m + l>>[1] = m + l
    BY <2>1
  <2> QED
    BY <1>1, <1>2, <1>3, <2>2 DEF l
<1>4. CASE f.form = 16
  <2> DEFINE s == <<m + 126, 0, l>>
  <2>1. m + 126 \in Bytes /\ 0 \in Bytes /\ l \in Bytes
    BY <1>1 DEF Bytes
  <2>2. s \in Seq(Bytes) /\ Len(s) = 3 /\ s[1] = m + 126 /\ s[2] = 0 /\ s[3] = l
    BY <2>1
  <2> QED
    BY <1>1, <1>2, <1>4, <2>2 DEF l
<1>5. CASE f.form = 64
  <2> DEFINE s == <<m + 127, 0, 0, 0, 0, 0, 0, 0, l>>
  <2>1. m + 127 \in Bytes /\ 0 \in Bytes /\ l \in Bytes
    BY <1>1 DEF Bytes
  <2>2. s \in Seq(Bytes) /\ Len(s) = 9 /\ s[1] = m + 127 /\ s[8] = 0 /\ s[9] = l
    BY <2>1
  <2> QED
    BY <1>1, <1>2, <1>5, <2>2 DEF l
<1> QED
  BY <1>1, <1>3, <1>4, <1>5

\* What the bytes of a frame are, one part after another.
LEMMA EncodeRight ==
    ASSUME NEW f \in SentFrame
    PROVE  /\ Encode(f) \in Seq(Bytes)
           /\ Len(Encode(f)) = 1 + Len(Size(f)) + Len(f.key) + Len(f.data)
           /\ Encode(f)[1] = 128 * f.fin + f.opcode
           /\ \A i \in 1 .. Len(Size(f)) : Encode(f)[1 + i] = Size(f)[i]
           /\ \A i \in 1 .. Len(f.key) : Encode(f)[1 + Len(Size(f)) + i] = f.key[i]
           /\ \A i \in 1 .. Len(f.data) :
                 Encode(f)[1 + Len(Size(f)) + Len(f.key) + i] = SentByte(f, i)
<1> DEFINE h == <<128 * f.fin + f.opcode>>
           s == Size(f)
           k == f.key
           d == IF f.key = <<>> THEN f.data ELSE Mask(f.data, f.key)
           a == h \o s
           b == a \o k
           e == b \o d
<1>1. h \in Seq(Bytes) /\ Len(h) = 1 /\ h[1] = 128 * f.fin + f.opcode
  <2>1. f.fin \in {0, 1} /\ f.opcode \in 0 .. 15
    BY SentFrameType
  <2>2. 128 * f.fin + f.opcode \in Bytes
    BY <2>1 DEF Bytes
  <2> QED
    BY <2>2
<1>2. s \in Seq(Bytes)
  BY SizeRight
<1>3. k \in Seq(Bytes)
  <2>1. k \in Seq({0, 1}) /\ {0, 1} \subseteq Bytes
    BY SentFrameType DEF Bytes
  <2> QED
    BY <2>1
<1>4. d \in Seq(Bytes) /\ Len(d) = Len(f.data) /\ \A i \in 1 .. Len(f.data) : d[i] = SentByte(f, i)
  <2>1. f.data \in Seq({0, 1}) /\ Len(f.data) \in Nat /\ {0, 1} \subseteq Bytes
    <3>1. f.data \in Seq({0, 1})
      BY SentFrameType
    <3>2. {0, 1} \subseteq Bytes
      BY DEF Bytes
    <3> QED
      BY <3>1, <3>2
  <2>2. CASE f.key = <<>>
    <3>1. d = f.data /\ \A i \in 1 .. Len(f.data) : SentByte(f, i) = f.data[i]
      BY <2>2 DEF SentByte
    <3> HIDE DEF d
    <3> QED
      BY <2>1, <3>1
  <2>3. CASE f.key # <<>>
    <3>1. Len(f.key) = 4 /\ f.key \in Seq({0, 1})
      BY <2>3, SentFrameType
    <3>2. \A i \in 1 .. Len(f.data) : f.data[i] \in {0, 1} /\ f.key[((i - 1) % 4) + 1] \in {0, 1}
      <4>1. ASSUME NEW i \in 1 .. Len(f.data) PROVE ((i - 1) % 4) + 1 \in 1 .. 4
        BY <2>1
      <4> QED
        BY <2>1, <3>1, <4>1
    <3>3. DOMAIN f.data = 1 .. Len(f.data)
      BY <2>1
    <3>4. d = [i \in 1 .. Len(f.data) |-> SentByte(f, i)]
      BY <2>3, <3>3 DEF Mask, SentByte
    <3>5. \A i \in 1 .. Len(f.data) : SentByte(f, i) \in Bytes
      BY <2>1, <2>3, <3>2, XorRight DEF SentByte
    <3> HIDE DEF d
    <3> QED
      BY <2>1, <3>4, <3>5
  <2> QED
    BY <2>2, <2>3
<1>5. Encode(f) = e
  BY DEF Encode
<1> HIDE DEF h, s, k, d
<1>6. a \in Seq(Bytes) /\ Len(a) = 1 + Len(s) /\ a[1] = h[1] /\ \A i \in 1 .. Len(s) : a[1 + i] = s[i]
  BY <1>1, <1>2, ConcatRight
<1> HIDE DEF a
<1>7. /\ b \in Seq(Bytes) /\ Len(b) = 1 + Len(s) + Len(k) /\ b[1] = h[1]
      /\ \A i \in 1 .. Len(s) : b[1 + i] = s[i]
      /\ \A i \in 1 .. Len(k) : b[1 + Len(s) + i] = k[i]
  <2>1. /\ b \in Seq(Bytes) /\ Len(b) = Len(a) + Len(k) /\ \A i \in 1 .. Len(a) : b[i] = a[i]
        /\ \A i \in 1 .. Len(k) : b[Len(a) + i] = k[i]
    <3>1. a \in Seq(Bytes) /\ k \in Seq(Bytes)
      BY <1>3, <1>6
    <3> QED
      BY <3>1, ConcatRight
  <2>2. Len(s) \in Nat /\ \A i \in 1 .. Len(s) : 1 + i \in 1 .. Len(a)
    BY <1>2, <1>6
  <2> HIDE DEF b
  <2> QED
    BY <1>6, <2>1, <2>2
<1> HIDE DEF b
<1>8. /\ e \in Seq(Bytes) /\ Len(e) = 1 + Len(s) + Len(k) + Len(d) /\ e[1] = h[1]
      /\ \A i \in 1 .. Len(s) : e[1 + i] = s[i]
      /\ \A i \in 1 .. Len(k) : e[1 + Len(s) + i] = k[i]
      /\ \A i \in 1 .. Len(d) : e[1 + Len(s) + Len(k) + i] = d[i]
  <2>1. /\ e \in Seq(Bytes) /\ Len(e) = Len(b) + Len(d) /\ \A i \in 1 .. Len(b) : e[i] = b[i]
        /\ \A i \in 1 .. Len(d) : e[Len(b) + i] = d[i]
    <3>1. b \in Seq(Bytes) /\ d \in Seq(Bytes)
      BY <1>4, <1>7
    <3> QED
      BY <3>1, ConcatRight
  <2>2. /\ Len(s) \in Nat /\ Len(k) \in Nat /\ 1 \in 1 .. Len(b)
        /\ \A i \in 1 .. Len(s) : 1 + i \in 1 .. Len(b)
        /\ \A i \in 1 .. Len(k) : 1 + Len(s) + i \in 1 .. Len(b)
    BY <1>2, <1>3, <1>7
  <2> HIDE DEF e
  <2> QED
    BY <1>7, <2>1, <2>2
<1> QED
  BY ZenonT(60), <1>1, <1>4, <1>5, <1>8 DEF s, k

-----------------------------------------------------------------------------
(* What the client sends.                                                  *)

LEMMA SentType ==
    ASSUME FramesAssumption, sent \in FrameSeqs
    PROVE  /\ sent \in Seq(SentFrame) /\ Len(sent) \in Nat /\ DOMAIN sent = 1 .. Len(sent)
           /\ \A n \in 1 .. Len(sent) : sent[n] \in SentFrame
<1>1. sent \in Seq(SentFrame)
  BY DEF FramesAssumption
<1> QED
  BY <1>1

\* The bytes of the frames follow one another.
LEMMA AllRight ==
    ASSUME FramesAssumption, sent \in FrameSeqs
    PROVE  /\ All \in Seq(Bytes) /\ LengthOf(0) = 0 /\ LengthOf(Len(sent)) = Len(All)
           /\ \A n \in 0 .. Len(sent) : LengthOf(n) \in Nat /\ LengthOf(n) <= Len(All)
           /\ \A n \in 1 .. Len(sent) :
                 /\ LengthOf(n) = LengthOf(n - 1) + Len(Encode(sent[n]))
                 /\ \A k \in 1 .. Len(Encode(sent[n])) :
                       All[LengthOf(n - 1) + k] = Encode(sent[n])[k]
<1> DEFINE N == Len(sent)
           E == [i \in 1 .. N |-> Encode(sent[i])]
<1>1. N \in Nat /\ DOMAIN sent = 1 .. N /\ \A i \in 1 .. N : sent[i] \in SentFrame
  BY SentType
<1>2. \A i \in 1 .. N : E[i] = Encode(sent[i]) /\ E[i] \in Seq(Bytes) /\ Len(E[i]) \in Nat
  <2>1. ASSUME NEW i \in 1 .. N PROVE Encode(sent[i]) \in Seq(Bytes)
    BY <1>1, EncodeRight
  <2>2. \A s \in Seq(Bytes) : Len(s) \in Nat
    OBVIOUS
  <2> QED
    BY <2>1, <2>2
<1>3. All = Part(E, N)
  <2>1. [i \in DOMAIN sent |-> Encode(sent[i])] = [i \in 1 .. N |-> E[i]]
    BY <1>1
  <2> QED
    BY <2>1 DEF All, Part
<1>4. ASSUME NEW n \in 0 .. N PROVE LengthOf(n) = Len(Part(E, n))
  <2>1. [i \in 1 .. n |-> Encode(sent[i])] = [i \in 1 .. n |-> E[i]]
    BY <1>1
  <2> QED
    BY <2>1 DEF LengthOf, Part
<1> HIDE DEF E, N
<1>5. /\ Part(E, 0) = <<>> /\ \A n \in 1 .. N : Part(E, n) = Part(E, n - 1) \o E[n]
  <2>1. SeqsOf(Bytes, N, E)
    BY <1>2 DEF SeqsOf
  <2> QED
    BY ZenonT(60), <1>1, <2>1, PartStep
<1>6. /\ \A n \in 0 .. N : Part(E, n) \in Seq(Bytes) /\ Len(Part(E, n)) \in Nat
      /\ \A n \in 1 .. N : Len(Part(E, n)) = Len(Part(E, n - 1)) + Len(E[n])
      /\ \A n \in 0 .. N : \A m \in 0 .. n :
            /\ Len(Part(E, m)) <= Len(Part(E, n))
            /\ \A k \in 1 .. Len(Part(E, m)) : Part(E, n)[k] = Part(E, m)[k]
  <2>1. N \in Nat /\ \A i \in 1 .. N : E[i] \in Seq(Bytes)
    BY <1>1, <1>2
  <2> QED
    <3>0. SeqsOf(Bytes, N, E)
      BY <2>1 DEF SeqsOf
    <3>1. \A n \in 0 .. N : Part(E, n) \in Seq(Bytes)
      BY <2>1, <3>0, PartType
    <3>2. \A n \in 0 .. N : Len(Part(E, n)) \in Nat
      BY <3>1
    <3>3. ASSUME NEW n \in 1 .. N PROVE Len(Part(E, n)) = Len(Part(E, n - 1)) + Len(E[n])
      <4>1. n - 1 \in 0 .. N
        BY <2>1
      <4>2. Part(E, n - 1) \in Seq(Bytes) /\ E[n] \in Seq(Bytes) /\ Part(E, n) = Part(E, n - 1) \o E[n]
        BY <1>5, <2>1, <3>1, <4>1
      <4> QED
        BY <4>2, ConcatRight
    <3>4. ASSUME NEW n \in 0 .. N, NEW m \in 0 .. n
          PROVE  /\ Len(Part(E, m)) <= Len(Part(E, n))
                 /\ \A k \in 1 .. Len(Part(E, m)) : Part(E, n)[k] = Part(E, m)[k]
      <4>1. Len(Part(E, m)) <= Len(Part(E, n))
        BY <2>1, <3>0, PartPrefix
      <4>2. \A k \in 1 .. Len(Part(E, m)) : Part(E, n)[k] = Part(E, m)[k]
        BY <2>1, <3>0, PartPrefix
      <4> QED
        BY <4>1, <4>2
    <3> QED
      BY <3>1, <3>2, <3>3, <3>4
<1>7. 0 \in 0 .. N /\ N \in 0 .. N /\ \A n \in 0 .. N : n \in Nat
  BY <1>1
<1>8. All \in Seq(Bytes) /\ LengthOf(0) = 0 /\ LengthOf(N) = Len(All)
  <2>1. Len(<<>>) = 0
    OBVIOUS
  <2> QED
    BY <1>3, <1>4, <1>5, <1>6, <1>7, <2>1
<1>9. ASSUME NEW n \in 0 .. N PROVE LengthOf(n) \in Nat /\ LengthOf(n) <= Len(All)
  <2>1. n \in 0 .. N /\ N \in 0 .. N
    BY <1>7
  <2> QED
    BY <1>3, <1>4, <1>6, <2>1
<1>10. ASSUME NEW n \in 1 .. N
       PROVE  /\ LengthOf(n) = LengthOf(n - 1) + Len(Encode(sent[n]))
              /\ \A k \in 1 .. Len(Encode(sent[n])) : All[LengthOf(n - 1) + k] = Encode(sent[n])[k]
  <2>1. n \in 0 .. N /\ n - 1 \in 0 .. N /\ N \in 0 .. N
    BY <1>1
  <2>2. LengthOf(n) = LengthOf(n - 1) + Len(Encode(sent[n]))
    BY <1>2, <1>4, <1>6, <2>1
  <2>3. ASSUME NEW k \in 1 .. Len(Encode(sent[n]))
        PROVE  All[LengthOf(n - 1) + k] = Encode(sent[n])[k]
    <3> DEFINE a == Len(Part(E, n - 1))
               b == Len(Part(E, n))
    <3>1. a \in Nat /\ Len(E[n]) \in Nat /\ b = a + Len(E[n]) /\ k \in 1 .. Len(E[n])
      BY <1>2, <1>6, <2>1, <2>3
    <3>2. (Part(E, n - 1) \o E[n])[a + k] = E[n][k]
      <4>1. Part(E, n - 1) \in Seq(Bytes) /\ E[n] \in Seq(Bytes)
        BY <1>2, <1>6, <2>1
      <4> QED
        BY <3>1, <4>1, ConcatRight
    <3>3. a + k \in 1 .. b
      <4> HIDE DEF a, b
      <4> QED
        BY <3>1
    <3>4. Part(E, N)[a + k] = Part(E, n)[a + k]
      BY <1>6, <2>1, <3>3
    <3>5. LengthOf(n - 1) = a
      BY <1>4, <2>1
    <3> QED
      BY <1>2, <1>3, <1>5, <3>2, <3>4, <3>5
  <2> QED
    BY <2>2, <2>3
<1> QED
  BY <1>8, <1>9, <1>10 DEF N

\* A frame has two bytes at least, and the bytes of the frames before it lie before it.
LEMMA LengthRight ==
    ASSUME FramesAssumption, sent \in FrameSeqs, NEW n \in 0 .. Len(sent) - 1
    PROVE  /\ LengthOf(n) \in Nat /\ LengthOf(n + 1) = LengthOf(n) + Len(Encode(sent[n + 1]))
           /\ LengthOf(n) + 2 <= LengthOf(n + 1) /\ LengthOf(n + 1) <= Len(All)
           /\ sent[n + 1] \in SentFrame
<1>1. n + 1 \in 1 .. Len(sent) /\ n + 1 \in 0 .. Len(sent) /\ (n + 1) - 1 = n /\ n \in 0 .. Len(sent)
  BY SentType
<1>2. /\ LengthOf(n) \in Nat /\ LengthOf(n + 1) <= Len(All)
      /\ LengthOf(n + 1) = LengthOf(n) + Len(Encode(sent[n + 1]))
  BY <1>1, AllRight
<1>3. sent[n + 1] \in SentFrame
  BY <1>1, SentType
<1>4. Len(Encode(sent[n + 1])) \in Nat /\ Len(Encode(sent[n + 1])) >= 2
  <2> DEFINE f == sent[n + 1]
             a == Len(Size(f))
             b == Len(f.key)
             c == Len(f.data)
             e == Len(Encode(f))
  <2>1. f \in SentFrame
    BY <1>3
  <2> HIDE DEF f
  <2>2. e = 1 + a + b + c
    BY <2>1, EncodeRight
  <2>3. a \in {1, 3, 9}
    BY <2>1, SizeRight, SentFrameType
  <2>4. b \in {0, 4} /\ c \in Bytes
    BY <2>1, SentFrameType
  <2> HIDE DEF a, b, c, e
  <2>5. e \in Nat /\ e >= 2
    BY <2>2, <2>3, <2>4 DEF Bytes
  <2> QED
    BY <2>5 DEF e, f
<1> QED
  BY <1>2, <1>3, <1>4

\* The messages of one more frame.
LEMMA MessagesRight ==
    ASSUME FramesAssumption, sent \in FrameSeqs
    PROVE  /\ Messages(0) = <<>>
           /\ \A n \in 0 .. Len(sent) : Messages(n) \in Seq(Seq({0, 1}))
           /\ \A n \in 1 .. Len(sent) :
                 Messages(n) = IF IsData(sent[n]) /\ sent[n].data # <<>>
                               THEN Append(Messages(n - 1), sent[n].data) ELSE Messages(n - 1)
           /\ \A n \in 0 .. Len(sent) : \A m \in 0 .. n : IsPrefix(Messages(m), Messages(n))
<1> DEFINE N == Len(sent)
           M == [i \in 1 .. N |->
                   IF IsData(sent[i]) /\ sent[i].data # <<>> THEN <<sent[i].data>> ELSE <<>>]
           S == Seq({0, 1})
<1>1. N \in Nat /\ \A i \in 1 .. N : sent[i] \in SentFrame
  BY SentType
<1>2. \A i \in 1 .. N : M[i] \in Seq(S)
  <2> SUFFICES ASSUME NEW i \in 1 .. N PROVE M[i] \in Seq(S)
    OBVIOUS
  <2>1. sent[i].data \in S
    BY <1>1, SentFrameType
  <2> HIDE DEF S
  <2>2. <<sent[i].data>> \in Seq(S) /\ <<>> \in Seq(S)
    BY <2>1
  <2> QED
    BY <2>2
<1>3. ASSUME NEW n \in 0 .. N PROVE Messages(n) = Part(M, n)
  <2>1. [i \in 1 .. n |-> IF IsData(sent[i]) /\ sent[i].data # <<>> THEN <<sent[i].data>> ELSE <<>>]
          = [i \in 1 .. n |-> M[i]]
    BY <1>1
  <2> QED
    BY <2>1 DEF Messages, Part
<1>4. \A n \in 1 .. N : M[n] = IF IsData(sent[n]) /\ sent[n].data # <<>> THEN <<sent[n].data>> ELSE <<>>
  OBVIOUS
<1> HIDE DEF M, N, S
<1>0. SeqsOf(S, N, M)
  BY <1>2 DEF SeqsOf
<1>5. /\ Part(M, 0) = <<>> /\ \A n \in 1 .. N : Part(M, n) = Part(M, n - 1) \o M[n]
  BY ZenonT(60), <1>0, <1>1, PartStep
<1>6. /\ \A n \in 0 .. N : Part(M, n) \in Seq(S) /\ Len(Part(M, n)) \in Nat
      /\ \A n \in 0 .. N : \A m \in 0 .. n :
            /\ Len(Part(M, m)) <= Len(Part(M, n))
            /\ \A k \in 1 .. Len(Part(M, m)) : Part(M, n)[k] = Part(M, m)[k]
  <2>1. \A n \in 0 .. N : Part(M, n) \in Seq(S)
    BY <1>0, <1>1, PartType
  <2>2. \A n \in 0 .. N : Len(Part(M, n)) \in Nat
    BY <2>1
  <2>3. ASSUME NEW n \in 0 .. N, NEW m \in 0 .. n
        PROVE  /\ Len(Part(M, m)) <= Len(Part(M, n))
               /\ \A k \in 1 .. Len(Part(M, m)) : Part(M, n)[k] = Part(M, m)[k]
    <3>1. Len(Part(M, m)) <= Len(Part(M, n))
      BY <1>0, <1>1, PartPrefix
    <3>2. \A k \in 1 .. Len(Part(M, m)) : Part(M, n)[k] = Part(M, m)[k]
      BY <1>0, <1>1, PartPrefix
    <3> QED
      BY <3>1, <3>2
  <2> QED
    BY <2>1, <2>2, <2>3
<1>7. 0 \in 0 .. N
  BY <1>1
<1>8. ASSUME NEW n \in 1 .. N
      PROVE  Messages(n) = IF IsData(sent[n]) /\ sent[n].data # <<>>
                           THEN Append(Messages(n - 1), sent[n].data) ELSE Messages(n - 1)
  <2>1. n \in 0 .. N /\ n - 1 \in 0 .. N
    BY <1>1
  <2>2. Messages(n) = Messages(n - 1) \o M[n] /\ Messages(n - 1) \in Seq(S)
    BY <1>3, <1>5, <1>6, <2>1
  <2>3. CASE IsData(sent[n]) /\ sent[n].data # <<>>
    <3>1. sent[n].data \in S
      BY <1>1, SentFrameType DEF S
    <3>2. Messages(n - 1) \o <<sent[n].data>> = Append(Messages(n - 1), sent[n].data)
      BY <2>2, <3>1
    <3> QED
      BY <1>4, <2>2, <2>3, <3>2
  <2>4. CASE ~ (IsData(sent[n]) /\ sent[n].data # <<>>)
    <3>1. Messages(n - 1) \o <<>> = Messages(n - 1)
      BY <2>2
    <3> QED
      BY <1>4, <2>2, <2>4, <3>1
  <2> QED
    BY <2>3, <2>4
<1>9. ASSUME NEW n \in 0 .. N, NEW m \in 0 .. n PROVE IsPrefix(Messages(m), Messages(n))
  <2>1. m \in 0 .. N
    BY <1>1
  <2> DEFINE s == Part(M, m)
             t == Part(M, n)
  <2>2. /\ s \in Seq(S) /\ t \in Seq(S) /\ Len(s) <= Len(t)
        /\ \A k \in 1 .. Len(s) : t[k] = s[k]
    BY <1>6, <2>1
  <2>3. s = Messages(m) /\ t = Messages(n)
    BY <1>3, <2>1
  <2> HIDE DEF s, t
  <2>4. SubSeq(s, 1, Len(s)) = SubSeq(t, 1, Len(s))
    <3>1. Len(s) \in 0 .. Len(s) /\ Len(s) \in 0 .. Len(t) /\ 1 \in 1 .. Len(s) + 1 /\ 1 \in 1 .. Len(t) + 1
          /\ 1 <= Len(s) + 1
      BY <2>2
    <3>2. /\ SubSeq(s, 1, Len(s)) \in Seq(S) /\ Len(SubSeq(s, 1, Len(s))) = Len(s) - 1 + 1
          /\ \A i \in 1 .. Len(s) - 1 + 1 : SubSeq(s, 1, Len(s))[i] = s[1 + i - 1]
      BY <2>2, <3>1, SubSeqRight
    <3>3. /\ SubSeq(t, 1, Len(s)) \in Seq(S) /\ Len(SubSeq(t, 1, Len(s))) = Len(s) - 1 + 1
          /\ \A i \in 1 .. Len(s) - 1 + 1 : SubSeq(t, 1, Len(s))[i] = t[1 + i - 1]
      BY <2>2, <3>1, SubSeqRight
    <3>4. \A i \in 1 .. Len(s) - 1 + 1 : i \in 1 .. Len(s) /\ 1 + i - 1 = i
      BY <2>2
    <3> QED
      BY <2>2, <3>2, <3>3, <3>4, SeqEqual
  <2> QED
    BY <2>2, <2>3, <2>4 DEF IsPrefix
<1> QED
  BY <1>3, <1>5, <1>6, <1>7, <1>8, <1>9 DEF N, S

\* BeforeClose is the client's first close frame.
LEMMA BeforeCloseRight ==
    ASSUME FramesAssumption, sent \in FrameSeqs
    PROVE  /\ BeforeClose \in 0 .. Len(sent)
           /\ BeforeClose = 0 => \A i \in 1 .. Len(sent) : sent[i].opcode # CLOSE
           /\ BeforeClose # 0 => sent[BeforeClose].opcode = CLOSE
           /\ \A i \in 1 .. Len(sent) : i < BeforeClose => sent[i].opcode # CLOSE
<1> DEFINE I == {i \in 1 .. Len(sent) : sent[i].opcode = CLOSE}
<1>1. Len(sent) \in Nat
  BY SentType
<1>2. BeforeClose = IF I # {} THEN CHOOSE x \in I : \A y \in I : x =< y ELSE 0
  BY DEF BeforeClose, SelectInSeq, Min
<1>3. CASE I = {}
  BY <1>1, <1>2, <1>3
<1>4. CASE I # {}
  <2>1. \E x \in I : \A y \in I : x =< y
    <3>1. I \subseteq Nat
      BY <1>1
    <3> HIDE DEF I
    <3> QED
      BY <1>4, <3>1, Least
  <2>2. BeforeClose \in I /\ \A y \in I : BeforeClose =< y
    <3> HIDE DEF I
    <3> QED
      BY <1>2, <1>4, <2>1
  <2> QED
    BY <1>1, <2>2
<1> QED
  BY <1>3, <1>4

-----------------------------------------------------------------------------
(* Steps in general.                                                       *)

LEMMA SentSame ==
    ASSUME sent' = sent
    PROVE  /\ All' = All /\ Unfragmented' = Unfragmented
           /\ \A n : LengthOf(n)' = LengthOf(n)
           /\ \A n : Messages(n)' = Messages(n)
<1>1. All' = All
  BY DEF All
<1>2. Unfragmented' = Unfragmented
  BY DEF Unfragmented
<1>3. \A n : LengthOf(n)' = LengthOf(n)
  BY DEF LengthOf
<1>4. \A n : Messages(n)' = Messages(n)
  BY DEF Messages
<1> QED
  BY <1>1, <1>2, <1>3, <1>4

\* What is parsed, what is in the buffer behind it and what was not received yet are
\* all the client's bytes.
LEMMA ConsumedRight ==
    ASSUME FramesAssumption, TypeOK
    PROVE  /\ sent \in FrameSeqs /\ Len(sent) \in Nat /\ Len(All) \in Nat /\ Len(rest) \in Nat
           /\ Len(buf) \in Nat /\ last \in 0 .. Len(buf) /\ Len(chain) \in Nat /\ 1 \in DOMAIN chain
           /\ Consumed = Len(All) - Len(rest) - (Len(buf) - last) /\ Consumed \in Int
           /\ DOMAIN chain = 1 .. Len(chain)
<1>1. sent \in FrameSeqs /\ rest \in Seq(Bytes) /\ buf \in Seq(Bytes) /\ chain \in Seq(FrameType)
      /\ last \in 0 .. Len(buf) /\ cur \in DOMAIN chain
  BY DEF TypeOK
<1>2. All \in Seq(Bytes) /\ Len(sent) \in Nat
  BY <1>1, AllRight, SentType
<1>3. /\ \A s \in Seq(Bytes) : Len(s) \in Nat
      /\ \A s \in Seq(FrameType) : Len(s) \in Nat /\ DOMAIN s = 1 .. Len(s)
  OBVIOUS
<1>4. Consumed = Len(All) - Len(rest) - (Len(buf) - last)
  BY DEF Consumed, All
<1>5. Len(All) \in Nat /\ Len(rest) \in Nat /\ Len(buf) \in Nat /\ Len(chain) \in Nat
      /\ DOMAIN chain = 1 .. Len(chain)
  BY <1>1, <1>2, <1>3
<1>6. 1 \in DOMAIN chain
  BY <1>1, <1>5
<1>7. Consumed \in Int
  BY <1>1, <1>4, <1>5
<1> QED
  BY <1>1, <1>2, <1>4, <1>5, <1>6, <1>7

\* As long as there are bytes behind buffer.last, they are of a frame of the client's.
LEMMA MoreFrames ==
    ASSUME FramesAssumption, TypeOK, StreamInv, NEW n \in 0 .. Len(sent), At(n), last < Len(buf)
    PROVE  /\ n \in 0 .. Len(sent) - 1 /\ sent[n + 1] \in SentFrame
           /\ Consumed = LengthOf(n) + Offset(sent[n + 1], state)
<1>1. /\ sent \in FrameSeqs /\ Len(sent) \in Nat /\ Len(All) \in Nat /\ Len(rest) \in Nat
      /\ Len(buf) \in Nat /\ last \in 0 .. Len(buf)
      /\ Consumed = Len(All) - Len(rest) - (Len(buf) - last)
  BY ConsumedRight
<1>2. /\ LengthOf(Len(sent)) = Len(All)
      /\ \A m \in 0 .. Len(sent) : LengthOf(m) \in Nat /\ LengthOf(m) <= Len(All)
  BY <1>1, AllRight
<1>3. n < Len(sent) /\ Consumed = LengthOf(n) + Offset(sent[n + 1], state)
  <2>1. CASE state = "fin"
    <3>1. Consumed = LengthOf(n) /\ LengthOf(n) \in Nat
      BY <1>2, <2>1 DEF At
    <3>2. n # Len(sent)
      BY <1>1, <1>2, <3>1
    <3> QED
      BY <1>1, <2>1, <3>1, <3>2 DEF Offset
  <2>2. CASE state # "fin"
    BY <2>2 DEF At
  <2> QED
    BY <2>1, <2>2
<1>4. n \in 0 .. Len(sent) - 1
  BY <1>1, <1>3
<1> QED
  BY <1>1, <1>3, <1>4, LengthRight

\* Those bytes are the next ones of the frame.
LEMMA ByteRight ==
    ASSUME FramesAssumption, TypeOK, StreamInv, NEW n \in 0 .. Len(sent), At(n), last < Len(buf),
           NEW k \in 1 .. Len(buf) - last,
           Offset(sent[n + 1], state) \in Nat,
           Offset(sent[n + 1], state) + k <= Len(Encode(sent[n + 1]))
    PROVE  buf[last + k] = Encode(sent[n + 1])[Offset(sent[n + 1], state) + k]
<1> DEFINE j == Offset(sent[n + 1], state) + k
<1>1. n \in 0 .. Len(sent) - 1 /\ Consumed = LengthOf(n) + Offset(sent[n + 1], state)
  BY MoreFrames
<1>2. sent \in FrameSeqs /\ Len(sent) \in Nat /\ last \in 0 .. Len(buf) /\ Len(buf) \in Nat
  BY ConsumedRight
<1>3. /\ LengthOf(n) \in Nat /\ n + 1 \in 1 .. Len(sent) /\ (n + 1) - 1 = n
  BY <1>1, <1>2, AllRight
<1>4. \A x \in 1 .. Len(Encode(sent[n + 1])) : All[LengthOf(n) + x] = Encode(sent[n + 1])[x]
  BY <1>2, <1>3, AllRight
<1>5. j \in Nat /\ j >= 1 /\ j <= Len(Encode(sent[n + 1]))
  BY <1>2
<1>6. Len(Encode(sent[n + 1])) \in Nat
  <2>1. Encode(sent[n + 1]) \in Seq(Bytes)
    BY <1>1, <1>2, LengthRight, EncodeRight
  <2> QED
    BY <2>1
<1>7. All[LengthOf(n) + j] = Encode(sent[n + 1])[j]
  <2> HIDE DEF j
  <2>1. j \in 1 .. Len(Encode(sent[n + 1]))
    BY <1>5, <1>6
  <2> QED
    BY <1>4, <2>1
<1>8. buf[last + k] = All[Consumed + k]
  BY DEF StreamInv
<1>9. Consumed + k = LengthOf(n) + j
  BY <1>1, <1>2, <1>3
<1> QED
  BY <1>7, <1>8, <1>9

-----------------------------------------------------------------------------
(* The parser.                                                             *)

\* A step that parses d bytes, but for the payload, and writes c to the list.
Parses(d, i, c) ==
    /\ pc = "parse" /\ last + d <= Len(buf) /\ last' = last + d
    /\ state' \in States \ {"fin"}
    /\ i \in DOMAIN chain /\ c \in FrameType /\ Len(c.key) = 4 /\ chain' = [chain EXCEPT ![i] = c]
    /\ UNCHANGED <<sent, rest, buf, cur, pc, delivered, open, overrun>>
    /\ Unfragmented => i = 1 /\ \A n \in 0 .. Len(sent) - 1 : At(n) =>
          /\ Offset(sent[n + 1], state) \in Nat
          /\ Offset(sent[n + 1], state') = Offset(sent[n + 1], state) + d
          /\ Parsed(sent[n + 1], c, state')

LEMMA ParseStep ==
    ASSUME FramesAssumption, Ind, NEW d \in Nat \ {0}, NEW i, NEW c, Parses(d, i, c)
    PROVE  Ind'
<1> USE DEF Ind, IInv
<1>1. /\ sent' = sent /\ rest' = rest /\ buf' = buf /\ cur' = cur /\ pc' = pc
      /\ delivered' = delivered /\ open' = open /\ overrun' = overrun
      /\ pc = "parse" /\ last + d <= Len(buf) /\ last' = last + d /\ state' \in States /\ state' # "fin"
      /\ i \in DOMAIN chain /\ c \in FrameType /\ Len(c.key) = 4 /\ chain' = [chain EXCEPT ![i] = c]
  BY DEF Parses
<1>2. /\ sent \in FrameSeqs /\ Len(sent) \in Nat /\ Len(All) \in Nat /\ Len(rest) \in Nat
      /\ Len(buf) \in Nat /\ last \in 0 .. Len(buf) /\ Len(chain) \in Nat /\ 1 \in DOMAIN chain
      /\ Consumed = Len(All) - Len(rest) - (Len(buf) - last) /\ Consumed \in Int
      /\ DOMAIN chain = 1 .. Len(chain)
  BY ConsumedRight
<1>3. /\ chain' \in Seq(FrameType) /\ DOMAIN chain' = DOMAIN chain /\ Len(chain') = Len(chain)
      /\ chain'[i] = c /\ \A x \in DOMAIN chain \ {i} : chain'[x] = chain[x]
  <2>1. chain \in Seq(FrameType)
    BY DEF TypeOK
  <2> QED
    BY <1>1, <2>1
<1>4. TypeOK'
  <2>1. last' \in 0 .. Len(buf)
    BY <1>1, <1>2
  <2>2. cur' \in DOMAIN chain'
    BY <1>1, <1>3 DEF TypeOK
  <2> QED
    BY <1>1, <1>3, <2>1, <2>2 DEF TypeOK
<1>5. All' = All /\ Unfragmented' = Unfragmented
      /\ (\A n : LengthOf(n)' = LengthOf(n)) /\ (\A n : Messages(n)' = Messages(n))
  BY <1>1, SentSame
<1>6. Consumed' = Consumed + d /\ Consumed >= 0
  <2>1. Consumed' = Len(All') - Len(rest') - (Len(buf') - last')
    BY DEF Consumed, All
  <2> QED
    BY <1>1, <1>2, <1>5, <2>1 DEF StreamInv
<1>7. KeyInv'
  BY <1>1, <1>3 DEF KeyInv
<1>8. EndInv' /\ RoomInv'
  BY <1>1 DEF EndInv, RoomInv
<1>9. StreamInv'
  <2>0. /\ Consumed \in Int /\ Consumed >= 0 /\ Consumed' = Consumed + d
        /\ Len(buf) \in Nat /\ last \in Nat /\ last' = last + d
    BY <1>1, <1>2, <1>6
  <2> DEFINE from == Consumed
             to == Consumed'
             next == last'
             size == Len(buf)
  <2>3. from \in Int /\ from >= 0 /\ to = from + d /\ size \in Nat /\ last \in Nat /\ next = last + d
    BY <2>0
  <2> HIDE DEF from, to, next, size
  <2>1. Consumed' >= 0
    <3>1. to >= 0
      BY <2>3
    <3> QED
      BY <3>1 DEF to
  <2>2. ASSUME NEW k \in 1 .. Len(buf) - last' PROVE buf[last' + k] = All[Consumed' + k]
    <3>0. k \in 1 .. size - next
      BY DEF size, next
    <3>2. d + k \in 1 .. size - last /\ next + k = last + (d + k) /\ to + k = from + (d + k)
      BY <2>3, <3>0
    <3>1. d + k \in 1 .. Len(buf) - last /\ last' + k = last + (d + k) /\ Consumed' + k = Consumed + (d + k)
      BY <3>2 DEF from, to, next, size
    <3> QED
      BY <3>1 DEF StreamInv
  <2> QED
    BY <1>1, <1>5, <2>1, <2>2 DEF StreamInv
<1>10. ASSUME Unfragmented PROVE OneFrame'
  <2>1. PICK n \in 0 .. Len(sent) : At(n) /\ Handled(n)
    BY <1>10 DEF OneFrame
  <2>2. n \in 0 .. Len(sent) - 1 /\ Consumed = LengthOf(n) + Offset(sent[n + 1], state)
    <3>1. last < Len(buf)
      BY <1>1, <1>2
    <3> QED
      BY <2>1, <3>1, MoreFrames
  <2>3. /\ i = 1 /\ Offset(sent[n + 1], state) \in Nat
        /\ Offset(sent[n + 1], state') = Offset(sent[n + 1], state) + d
        /\ Parsed(sent[n + 1], c, state')
    BY <1>10, <2>1, <2>2 DEF Parses
  <2>4. LengthOf(n) \in Nat
    BY <1>2, <2>2, LengthRight
  <2>5. At(n)'
    <3>1. Consumed' = LengthOf(n) + Offset(sent[n + 1], state')
      BY <1>6, <2>2, <2>3, <2>4
    <3>2. n < Len(sent)
      BY <1>2, <2>2
    <3>3. state' # "fin"
      BY <1>1
    <3> QED
      BY <1>1, <1>3, <1>5, <2>1, <2>3, <3>1, <3>2, <3>3 DEF At
  <2>6. Handled(n)'
    BY <1>1, <1>5, <2>1 DEF Handled
  <2>7. Len(chain') = 1 /\ cur' = 1 /\ pc' # "next" /\ pc' # "done" /\ pc' # "idle"
    BY <1>1, <1>3, <1>10 DEF OneFrame
  <2>8. Waiting'
    BY <2>7 DEF Waiting
  <2>9. n \in 0 .. Len(sent')
    BY <1>1
  <2> QED
    BY <2>5, <2>6, <2>7, <2>8, <2>9 DEF OneFrame
<1> QED
  BY <1>4, <1>5, <1>7, <1>8, <1>9, <1>10

\* What a state needs.
LEMMA InStateRight ==
    ASSUME FramesAssumption, TypeOK, NEW s \in States, InState(s)
    PROVE  /\ pc = "parse" /\ state = s /\ last < Len(buf) /\ last + 1 <= Len(buf)
           /\ s = "extended_2"   => last + 2 <= Len(buf)
           /\ s = "extended_8"   => last + 8 <= Len(buf)
           /\ s = "masking_key"  => last + 4 <= Len(buf)
           /\ s = "payload_data" => last + chain[cur].extended <= Len(buf)
           /\ Len(buf) \in Nat /\ last \in 0 .. Len(buf) /\ chain[cur] \in FrameType
           /\ \A k \in 1 .. Len(buf) - last : buf[last + k] \in Bytes
<1>1. Len(buf) \in Nat /\ last \in 0 .. Len(buf)
  BY ConsumedRight
<1>2. chain[cur] \in FrameType
  BY DEF TypeOK
<1>3. pc = "parse" /\ state = s /\ last < Len(buf) /\ Len(buf) - last >= Needs
  BY DEF InState
<1>4. /\ s = "extended_2"   => Needs = 2
      /\ s = "extended_8"   => Needs = 8
      /\ s = "masking_key"  => Needs = 4
      /\ s = "payload_data" => Needs = chain[cur].extended
  <2>1. state = "extended_2" => Needs = 2
    BY DEF Needs
  <2>2. state = "extended_8" => Needs = 8
    BY DEF Needs
  <2>3. state = "masking_key" => Needs = 4
    BY DEF Needs
  <2>4. state = "payload_data" => Needs = chain[cur].extended
    BY DEF Needs
  <2> QED
    BY <1>3, <2>1, <2>2, <2>3, <2>4
<1>5. chain[cur].extended \in Nat
  BY <1>2 DEF FrameType
<1>6. buf \in Seq(Bytes)
  BY DEF TypeOK
<1>7. ASSUME NEW k \in 1 .. Len(buf) - last PROVE buf[last + k] \in Bytes
  <2>1. last + k \in 1 .. Len(buf)
    BY <1>1
  <2> QED
    BY <1>6, <2>1
<1>8. last + 1 <= Len(buf)
  BY <1>1, <1>3
<1>9. s = "extended_2" => last + 2 <= Len(buf)
  BY <1>1, <1>3, <1>4
<1>10. s = "extended_8" => last + 8 <= Len(buf)
  BY <1>1, <1>3, <1>4
<1>11. s = "masking_key" => last + 4 <= Len(buf)
  BY <1>1, <1>3, <1>4
<1>12. s = "payload_data" => last + chain[cur].extended <= Len(buf)
  BY <1>1, <1>3, <1>4, <1>5
<1> QED
  BY <1>1, <1>2, <1>3, <1>7, <1>8, <1>9, <1>10, <1>11, <1>12

\* The first two bytes of a frame, in bits.
LEMMA BitsRight ==
    ASSUME NEW b \in Bytes
    PROVE  b \div 128 \in {0, 1} /\ b % 128 \in 0 .. 127 /\ b % 16 \in 0 .. 15
<1>1. b \in 0 .. 255
  BY DEF Bytes
<1>2. b \div 128 \in {0, 1}
  BY <1>1
<1>3. b % 128 \in 0 .. 127
  BY <1>1
<1>4. b % 16 \in 0 .. 15
  BY <1>1
<1> QED
  BY <1>2, <1>3, <1>4

Bits(b, m, n) == b = 128 * m + n

LEMMA FirstByte ==
    ASSUME NEW b, NEW m \in {0, 1}, NEW o \in 0 .. 15, Bits(b, m, o)
    PROVE  b \div 128 = m /\ b % 16 = o
<1>1. CASE m = 0
  BY <1>1 DEF Bits
<1>2. CASE m = 1
  BY <1>2 DEF Bits
<1> QED
  BY <1>1, <1>2

LEMMA SecondByte ==
    ASSUME NEW b, NEW m \in {0, 1}, NEW l \in 0 .. 127, Bits(b, m, l)
    PROVE  b \div 128 = m /\ b % 128 = l
<1>1. CASE m = 0
  BY <1>1 DEF Bits
<1>2. CASE m = 1
  BY <1>2 DEF Bits
<1> QED
  BY <1>1, <1>2

\* Replacing some fields of one frame of the list.
LEMMA FrameChange ==
    ASSUME TypeOK, KeyInv, NEW i \in DOMAIN chain, NEW c, c = chain[i]
    PROVE  c \in FrameType /\ Len(c.key) = 4
BY DEF TypeOK, KeyInv

LEMMA ParseFinStep ==
    ASSUME FramesAssumption, Ind, ParseFin
    PROVE  Ind'
<1>0. TypeOK /\ KeyInv /\ EndInv /\ RoomInv /\ StreamInv /\ (Unfragmented => OneFrame)
  BY DEF Ind, IInv
<1> DEFINE b == buf[last + 1]
           c == [chain[cur] EXCEPT !.fin = b \div 128, !.opcode = b % 16]
<1>1. /\ InState("fin") /\ state' = "mask" /\ last' = last + 1
      /\ chain' = [chain EXCEPT ![cur].fin = b \div 128, ![cur].opcode = b % 16]
      /\ UNCHANGED <<sent, rest, buf, cur, pc, delivered, open, overrun>>
  BY DEF ParseFin, Byte
<1>2. /\ pc = "parse" /\ state = "fin" /\ last < Len(buf) /\ last + 1 <= Len(buf)
      /\ Len(buf) \in Nat /\ last \in 0 .. Len(buf) /\ cur \in DOMAIN chain
      /\ \A k \in 1 .. Len(buf) - last : buf[last + k] \in Bytes
  BY <1>0, <1>1, InStateRight DEF States, TypeOK
<1>3. chain[cur] \in FrameType /\ Len(chain[cur].key) = 4
  BY <1>0, <1>2, FrameChange
<1>4. b \in Bytes
  BY <1>2
<1>5. b \div 128 \in {0, 1} /\ b % 16 \in 0 .. 15
  BY <1>4, BitsRight
<1> HIDE DEF b
<1>6. c \in FrameType /\ Len(c.key) = 4 /\ c.fin = b \div 128 /\ c.opcode = b % 16
  BY <1>3, <1>5 DEF FrameType
<1>7. chain' = [chain EXCEPT ![cur] = c]
  BY <1>1
<1> HIDE DEF c
<1>8. ASSUME Unfragmented, NEW n \in 0 .. Len(sent) - 1, At(n)
      PROVE  /\ Offset(sent[n + 1], state) \in Nat
             /\ Offset(sent[n + 1], state') = Offset(sent[n + 1], state) + 1
             /\ Parsed(sent[n + 1], c, state')
  <2> DEFINE f == sent[n + 1]
  <2>1. Offset(f, state) = 0 /\ Offset(f, state') = 1
    BY <1>1, <1>2 DEF Offset
  <2>2. f \in SentFrame /\ n \in 0 .. Len(sent)
    BY <1>0, <1>2, <1>8, ConsumedRight, MoreFrames
  <2>3. b = 128 * f.fin + f.opcode
    <3>1. Encode(f) \in Seq(Bytes) /\ Encode(f)[1] = 128 * f.fin + f.opcode
      BY <2>2, EncodeRight
    <3>2. Len(Encode(f)) >= 1
      BY <1>0, <1>2, <1>8, ConsumedRight, LengthRight
    <3>3. 1 \in 1 .. Len(buf) - last
      BY <1>2
    <3>4. Offset(f, state) \in Nat /\ Offset(f, state) + 1 <= Len(Encode(f))
      BY <2>1, <3>2
    <3>5. buf[last + 1] = Encode(f)[Offset(f, state) + 1]
      BY <1>0, <1>2, <1>8, <2>2, <3>3, <3>4, ByteRight
    <3> QED
      BY <2>1, <3>1, <3>5 DEF b
  <2>4. f.fin \in {0, 1} /\ f.opcode \in 0 .. 15
    BY <2>2, SentFrameType
  <2>5. c.fin = f.fin /\ c.opcode = f.opcode
    <3>1. b \div 128 = f.fin /\ b % 16 = f.opcode
      <4>1. Bits(b, f.fin, f.opcode)
        BY <2>3 DEF Bits
      <4> QED
        BY ZenonT(60), <2>4, <4>1, FirstByte
    <3> QED
      BY <1>6, <3>1
  <2> QED
    BY <1>1, <2>1, <2>5 DEF Parsed
<1>9. Unfragmented => cur = 1 /\ \A n \in 0 .. Len(sent) - 1 : At(n) =>
               /\ Offset(sent[n + 1], state) \in Nat
               /\ Offset(sent[n + 1], state') = Offset(sent[n + 1], state) + 1
               /\ Parsed(sent[n + 1], c, state')
  BY <1>0, <1>8 DEF OneFrame
<1>10. state' \in States \ {"fin"}
  BY <1>1 DEF States
<1>11. Parses(1, cur, c)
  BY <1>1, <1>2, <1>6, <1>7, <1>9, <1>10 DEF Parses
<1> QED
  BY <1>11, ParseStep

LEMMA ParseMaskStep ==
    ASSUME FramesAssumption, Ind, ParseMask
    PROVE  Ind'
<1>0. TypeOK /\ KeyInv /\ EndInv /\ RoomInv /\ StreamInv /\ (Unfragmented => OneFrame)
  BY DEF Ind, IInv
<1> DEFINE b == buf[last + 1]
           m == b \div 128
           l == b % 128
           c == [chain[cur] EXCEPT !.mask = m, !.extended = IF l < 126 THEN l ELSE @]
<1>1. /\ InState("mask") /\ last' = last + 1
      /\ chain' = [chain EXCEPT ![cur].mask = m, ![cur].extended = IF l < 126 THEN l ELSE @]
      /\ UNCHANGED <<sent, rest, buf, cur, pc, delivered, open, overrun>>
  BY DEF ParseMask, Byte
<1>2. /\ pc = "parse" /\ state = "mask" /\ last < Len(buf) /\ last + 1 <= Len(buf)
      /\ Len(buf) \in Nat /\ last \in 0 .. Len(buf) /\ cur \in DOMAIN chain
      /\ \A k \in 1 .. Len(buf) - last : buf[last + k] \in Bytes
  BY <1>0, <1>1, InStateRight DEF States, TypeOK
<1>3. chain[cur] \in FrameType /\ Len(chain[cur].key) = 4
  BY <1>0, <1>2, FrameChange
<1>4. b \in Bytes
  BY <1>2
<1>5. m \in {0, 1} /\ l \in 0 .. 127
  BY <1>4, BitsRight
<1>6. /\ l = 126 => state' = "extended_2"
      /\ l = 127 => state' = "extended_8"
      /\ l < 126 => state' = AfterLength(m)
  <2>1. state' = CASE l = 126 -> "extended_2" [] l = 127 -> "extended_8" [] OTHER -> AfterLength(m)
    BY DEF ParseMask, Byte
  <2> HIDE DEF l, m, b
  <2>2. l < 126 => l # 126 /\ l # 127
    BY <1>5
  <2>3. 126 # 127
    OBVIOUS
  <2>4. l = 126 => l # 127
    BY <2>3
  <2>5. l = 126 => state' = "extended_2"
    BY <2>1, <2>4
  <2>6. l = 127 => state' = "extended_8"
    BY <2>1, <2>4
  <2>7. l < 126 => state' = AfterLength(m)
    BY <2>1, <2>2
  <2> QED
    BY <2>5, <2>6, <2>7
<1> HIDE DEF b, m, l
<1>7. c \in FrameType /\ Len(c.key) = 4
  <2>1. (IF l < 126 THEN l ELSE chain[cur].extended) \in Nat
    <3>1. chain[cur].extended \in Nat
      BY <1>3 DEF FrameType
    <3>2. l \in Nat
      BY <1>5
    <3> QED
      BY <3>1, <3>2
  <2> QED
    BY <1>3, <1>5, <2>1 DEF FrameType
<1>8. /\ c.fin = chain[cur].fin /\ c.opcode = chain[cur].opcode /\ c.mask = m
      /\ (l < 126 => c.extended = l)
  BY <1>3 DEF FrameType
<1>9. chain' = [chain EXCEPT ![cur] = c]
  BY <1>1
<1> HIDE DEF c
<1>10. state' \in States \ {"fin"}
  <2>1. AfterLength(m) \in {"masking_key", "payload_data"}
    BY DEF AfterLength
  <2>2. l = 126 \/ l = 127 \/ l < 126
    BY <1>5
  <2> QED
    BY <1>6, <2>1, <2>2 DEF States
<1>11. ASSUME Unfragmented, NEW n \in 0 .. Len(sent) - 1, At(n)
      PROVE  /\ Offset(sent[n + 1], state) \in Nat
             /\ Offset(sent[n + 1], state') = Offset(sent[n + 1], state) + 1
             /\ Parsed(sent[n + 1], c, state')
  <2> DEFINE f == sent[n + 1]
  <2>1. Offset(f, state) = 1
    BY <1>2 DEF Offset
  <2>2. f \in SentFrame /\ n \in 0 .. Len(sent)
    BY <1>0, <1>2, <1>11, ConsumedRight, MoreFrames
  <2>3. /\ f.form \in {7, 16, 64} /\ Len(f.data) \in Bytes /\ (f.form = 7 => Len(f.data) <= 125)
        /\ f.key = <<>> <=> Len(f.key) = 0
    BY <2>2, SentFrameType
  <2>4. /\ Len(Size(f)) \in Nat /\ Len(Size(f)) >= 1
        /\ f.form = 7 => Len(Size(f)) = 1 /\ Size(f)[1] = 128 * MaskBit(f) + Len(f.data)
        /\ f.form = 16 => Size(f)[1] = 128 * MaskBit(f) + 126
        /\ f.form = 64 => Size(f)[1] = 128 * MaskBit(f) + 127
    BY <2>2, <2>3, SizeRight
  <2>5. b = Size(f)[1]
    <3>1. Encode(f)[1 + 1] = Size(f)[1]
      <4>1. 1 \in 1 .. Len(Size(f))
        BY <2>4
      <4> QED
        BY <2>2, <4>1, EncodeRight
    <3>2. Len(Encode(f)) >= 2
      <4>1. sent \in FrameSeqs
        BY <1>0, ConsumedRight
      <4>2. /\ LengthOf(n) \in Nat /\ LengthOf(n + 1) = LengthOf(n) + Len(Encode(f))
            /\ LengthOf(n) + 2 <= LengthOf(n + 1)
        BY <4>1, LengthRight
      <4>3. Len(Encode(f)) \in Nat
        <5>1. Encode(f) \in Seq(Bytes)
          BY <2>2, EncodeRight
        <5> QED
          BY <5>1
      <4> QED
        BY <4>2, <4>3
    <3>3. 1 \in 1 .. Len(buf) - last
      BY <1>2
    <3>4. Offset(f, state) \in Nat /\ Offset(f, state) + 1 <= Len(Encode(f))
      BY <2>1, <3>2
    <3>5. buf[last + 1] = Encode(f)[Offset(f, state) + 1]
      BY <1>0, <1>2, <1>11, <2>2, <3>3, <3>4, ByteRight
    <3> QED
      BY <2>1, <3>1, <3>5 DEF b
  <2> DEFINE w == IF f.form = 7 THEN Len(f.data) ELSE IF f.form = 16 THEN 126 ELSE 127
  <2>6. w \in 0 .. 127 /\ MaskBit(f) \in {0, 1} /\ Bits(b, MaskBit(f), w)
    <3>1. \A x \in Bytes : x <= 125 => x \in 0 .. 127
      BY DEF Bytes
    <3>2. MaskBit(f) \in {0, 1}
      BY DEF MaskBit
    <3>3. w \in 0 .. 127
      <4>1. f.form = 7 => Len(f.data) \in 0 .. 127
        BY <2>3, <3>1
      <4>2. 126 \in 0 .. 127 /\ 127 \in 0 .. 127
        OBVIOUS
      <4> QED
        BY <4>1, <4>2
    <3> QED
      BY <2>3, <2>4, <2>5, <3>2, <3>3 DEF Bits
  <2> HIDE DEF w
  <2>7. m = MaskBit(f) /\ l = w
    BY ZenonT(60), <2>6, SecondByte DEF m, l
  <2>8. /\ f.form = 7 => l < 126 /\ l = Len(f.data)
        /\ f.form = 16 => l = 126
        /\ f.form = 64 => l = 127
    <3>1. f.form = 7 => l = Len(f.data)
      BY <2>7 DEF w
    <3>2. \A x \in Bytes : x <= 125 => x < 126
      BY DEF Bytes
    <3>3. f.form = 7 => l < 126
      BY <2>3, <3>1, <3>2
    <3>4. (f.form = 16 => l = 126) /\ (f.form = 64 => l = 127)
      BY <2>7 DEF w
    <3> QED
      BY <3>1, <3>3, <3>4
  <2>9. c.fin = f.fin /\ c.opcode = f.opcode /\ c.mask = MaskBit(f)
    <3>1. cur = 1 /\ Parsed(f, chain[1], state)
      BY <1>0, <1>2, <1>11 DEF OneFrame, At
    <3> QED
      BY <1>2, <1>8, <2>7, <3>1 DEF Parsed
  <2>10. CASE f.form = 7
    <3>1. state' = IF f.key = <<>> THEN "payload_data" ELSE "masking_key"
      BY <1>6, <2>7, <2>8, <2>10 DEF AfterLength, MaskBit
    <3>2. c.extended = Len(f.data)
      BY <1>8, <2>8, <2>10
    <3>3. Offset(f, state') = 2
      <4>1. Len(Size(f)) = 1
        BY <2>4, <2>10
      <4>2. CASE f.key = <<>>
        <5>1. state' = "payload_data" /\ Len(f.key) = 0
          BY <2>3, <3>1, <4>2
        <5> QED
          BY <4>1, <5>1 DEF Offset
      <4>3. CASE f.key # <<>>
        <5>1. state' = "masking_key"
          BY <3>1, <4>3
        <5> QED
          BY <4>1, <5>1 DEF Offset
      <4> QED
        BY <4>2, <4>3
    <3> QED
      BY <2>1, <2>9, <3>1, <3>2, <3>3 DEF Parsed
  <2>11. CASE f.form = 16
    <3>1. state' = "extended_2"
      BY <1>6, <2>8, <2>11
    <3>2. Offset(f, state') = 2
      BY <3>1 DEF Offset
    <3>3. Parsed(f, c, state')
      BY <2>9, <2>11, <3>1 DEF Parsed
    <3> QED
      BY <2>1, <3>2, <3>3
  <2>12. CASE f.form = 64
    <3>1. state' = "extended_8"
      BY <1>6, <2>8, <2>12
    <3>2. Offset(f, state') = 2
      BY <3>1 DEF Offset
    <3>3. Parsed(f, c, state')
      BY <2>9, <2>12, <3>1 DEF Parsed
    <3> QED
      BY <2>1, <3>2, <3>3
  <2> QED
    BY <2>3, <2>10, <2>11, <2>12
<1>12. Unfragmented => cur = 1 /\ \A n \in 0 .. Len(sent) - 1 : At(n) =>
               /\ Offset(sent[n + 1], state) \in Nat
               /\ Offset(sent[n + 1], state') = Offset(sent[n + 1], state) + 1
               /\ Parsed(sent[n + 1], c, state')
  BY <1>0, <1>11 DEF OneFrame
<1>13. Parses(1, cur, c)
  BY <1>1, <1>2, <1>7, <1>9, <1>10, <1>12 DEF Parses
<1> QED
  BY <1>13, ParseStep

\* The bytes behind the second one of a frame whose length takes more bytes.
LEMMA SizeByte ==
    ASSUME FramesAssumption, TypeOK, StreamInv, NEW n \in 0 .. Len(sent), At(n), last < Len(buf),
           state \in {"extended_2", "extended_8"},
           NEW k \in 1 .. Len(buf) - last, 1 + k <= Len(Size(sent[n + 1]))
    PROVE  buf[last + k] = Size(sent[n + 1])[1 + k]
<1> DEFINE f == sent[n + 1]
<1>1. f \in SentFrame
  BY MoreFrames
<1>2. Offset(f, state) = 2
  BY DEF Offset
<1>3. k \in Nat /\ k >= 1
  BY ConsumedRight
<1>4. Len(Size(f)) \in Nat /\ Len(f.key) \in Nat /\ Len(f.data) \in Nat
  <2>1. Size(f) \in Seq(Bytes) /\ f.key \in Seq({0, 1}) /\ f.data \in Seq({0, 1})
    BY <1>1, SizeRight, SentFrameType
  <2> QED
    BY <2>1
<1>5. Len(Encode(f)) = 1 + Len(Size(f)) + Len(f.key) + Len(f.data)
  BY <1>1, EncodeRight
<1> HIDE DEF f
<1>6. Offset(f, state) \in Nat /\ Offset(f, state) + k <= Len(Encode(f))
  <2>1. 1 + k <= Len(Size(f))
    BY DEF f
  <2> DEFINE a == Len(Size(f))
             p == Len(f.key)
             d == Len(f.data)
             e == Len(Encode(f))
  <2>2. a \in Nat /\ p \in Nat /\ d \in Nat /\ e = 1 + a + p + d /\ 1 + k <= a
    BY <1>4, <1>5, <2>1
  <2> HIDE DEF a, p, d, e
  <2>3. 2 + k <= e
    BY <1>3, <2>2
  <2> QED
    BY <1>2, <2>3 DEF e
<1>7. buf[last + k] = Encode(f)[2 + k]
  BY <1>2, <1>6, ByteRight DEF f
<1>8. Encode(f)[1 + (1 + k)] = Size(f)[1 + k]
  <2>1. 1 + k \in 1 .. Len(Size(f))
    BY <1>3, <1>4 DEF f
  <2> QED
    BY <1>1, <2>1, EncodeRight
<1>9. 1 + (1 + k) = 2 + k
  BY <1>3
<1> QED
  BY <1>7, <1>8, <1>9 DEF f

LEMMA ParseExtended2Step ==
    ASSUME FramesAssumption, Ind, ParseExtended2
    PROVE  Ind'
<1>0. TypeOK /\ KeyInv /\ EndInv /\ RoomInv /\ StreamInv /\ (Unfragmented => OneFrame)
  BY DEF Ind, IInv
<1> DEFINE x == buf[last + 1]
           y == buf[last + 2]
           c == [chain[cur] EXCEPT !.extended = 256 * x + y]
<1>1. /\ InState("extended_2") /\ last' = last + 2 /\ state' = AfterLength(chain[cur].mask)
      /\ chain' = [chain EXCEPT ![cur].extended = 256 * x + y]
      /\ UNCHANGED <<sent, rest, buf, cur, pc, delivered, open, overrun>>
  BY DEF ParseExtended2, Byte
<1>2. /\ pc = "parse" /\ state = "extended_2" /\ last < Len(buf) /\ last + 2 <= Len(buf)
      /\ Len(buf) \in Nat /\ last \in 0 .. Len(buf) /\ cur \in DOMAIN chain
      /\ \A k \in 1 .. Len(buf) - last : buf[last + k] \in Bytes
  BY <1>0, <1>1, InStateRight DEF States, TypeOK
<1>3. chain[cur] \in FrameType /\ Len(chain[cur].key) = 4
  BY <1>0, <1>2, FrameChange
<1>4. 1 \in 1 .. Len(buf) - last /\ 2 \in 1 .. Len(buf) - last
  BY <1>2
<1>5. 256 * x + y \in Nat
  <2>1. x \in Bytes /\ y \in Bytes
    BY <1>2, <1>4
  <2> HIDE DEF x, y
  <2> QED
    BY <2>1 DEF Bytes
<1> HIDE DEF x, y
<1>6. c \in FrameType /\ Len(c.key) = 4
  BY ZenonT(60), <1>3, <1>5 DEF FrameType
<1>7. /\ c.fin = chain[cur].fin /\ c.opcode = chain[cur].opcode /\ c.mask = chain[cur].mask
      /\ c.extended = 256 * x + y
  BY <1>3 DEF FrameType
<1>8. chain' = [chain EXCEPT ![cur] = c]
  BY <1>1
<1> HIDE DEF c
<1>9. state' \in States \ {"fin"}
  BY <1>1 DEF AfterLength, States
<1>10. ASSUME Unfragmented, NEW n \in 0 .. Len(sent) - 1, At(n)
       PROVE  /\ Offset(sent[n + 1], state) \in Nat
              /\ Offset(sent[n + 1], state') = Offset(sent[n + 1], state) + 2
              /\ Parsed(sent[n + 1], c, state')
  <2> DEFINE f == sent[n + 1]
  <2>1. Offset(f, state) = 2
    BY <1>2 DEF Offset
  <2>2. f \in SentFrame /\ n \in 0 .. Len(sent)
    BY <1>0, <1>2, <1>10, ConsumedRight, MoreFrames
  <2>3. cur = 1 /\ Parsed(f, chain[1], state)
    BY <1>0, <1>2, <1>10 DEF OneFrame, At
  <2>4. f.form = 16 /\ c.fin = f.fin /\ c.opcode = f.opcode /\ c.mask = MaskBit(f)
    BY <1>2, <1>7, <2>3 DEF Parsed
  <2>5. Len(Size(f)) = 3 /\ Size(f)[2] = 0 /\ Size(f)[3] = Len(f.data)
    BY <2>2, <2>4, SizeRight
  <2>6. x = 0 /\ y = Len(f.data)
    <3>1. 1 + 1 <= Len(Size(f)) /\ 1 + 2 <= Len(Size(f))
      BY <2>5
    <3>2. state \in {"extended_2", "extended_8"}
      BY <1>2
    <3>3. buf[last + 1] = Size(f)[1 + 1]
      BY <1>0, <1>2, <1>4, <1>10, <2>2, <3>1, <3>2, SizeByte
    <3>4. buf[last + 2] = Size(f)[1 + 2]
      BY <1>0, <1>2, <1>4, <1>10, <2>2, <3>1, <3>2, SizeByte
    <3>5. 1 + 1 = 2 /\ 1 + 2 = 3
      OBVIOUS
    <3> QED
      BY <2>5, <3>3, <3>4, <3>5 DEF x, y
  <2>7. f.key = <<>> <=> Len(f.key) = 0
    BY <2>2, SentFrameType
  <2>8. c.extended = Len(f.data)
    <3>1. Len(f.data) \in Nat
      <4>1. f.data \in Seq({0, 1})
        BY <2>2, SentFrameType
      <4> QED
        BY <4>1
    <3> QED
      BY <1>7, <2>6, <3>1
  <2>9. state' = IF f.key = <<>> THEN "payload_data" ELSE "masking_key"
    BY <1>1, <1>7, <2>4 DEF AfterLength, MaskBit
  <2>10. Offset(f, state') = 2 + 2
    <3>1. CASE f.key = <<>>
      <4>1. state' = "payload_data" /\ Len(f.key) = 0
        BY <2>7, <2>9, <3>1
      <4> QED
        BY <2>5, <4>1 DEF Offset
    <3>2. CASE f.key # <<>>
      <4>1. state' = "masking_key"
        BY <2>9, <3>2
      <4> QED
        BY <2>5, <4>1 DEF Offset
    <3> QED
      BY <3>1, <3>2
  <2>11. Parsed(f, c, state')
    BY <2>4, <2>8, <2>9 DEF Parsed
  <2> QED
    BY <2>1, <2>10, <2>11
<1>11. Unfragmented => cur = 1 /\ \A n \in 0 .. Len(sent) - 1 : At(n) =>
               /\ Offset(sent[n + 1], state) \in Nat
               /\ Offset(sent[n + 1], state') = Offset(sent[n + 1], state) + 2
               /\ Parsed(sent[n + 1], c, state')
  BY <1>0, <1>10 DEF OneFrame
<1>12. Parses(2, cur, c)
  BY <1>1, <1>2, <1>6, <1>8, <1>9, <1>11 DEF Parses
<1> QED
  BY <1>12, ParseStep

LEMMA ParseExtended8Step ==
    ASSUME FramesAssumption, Ind, ParseExtended8
    PROVE  Ind'
<1>0. TypeOK /\ KeyInv /\ EndInv /\ RoomInv /\ StreamInv /\ (Unfragmented => OneFrame)
  BY DEF Ind, IInv
<1> DEFINE x == buf[last + 7]
           y == buf[last + 8]
           c == [chain[cur] EXCEPT !.extended = 256 * x + y]
<1>1. /\ InState("extended_8") /\ last' = last + 8 /\ state' = AfterLength(chain[cur].mask)
      /\ chain' = [chain EXCEPT ![cur].extended = 256 * x + y]
      /\ UNCHANGED <<sent, rest, buf, cur, pc, delivered, open, overrun>>
  BY DEF ParseExtended8, Byte
<1>2. /\ pc = "parse" /\ state = "extended_8" /\ last < Len(buf) /\ last + 8 <= Len(buf)
      /\ Len(buf) \in Nat /\ last \in 0 .. Len(buf) /\ cur \in DOMAIN chain
      /\ \A k \in 1 .. Len(buf) - last : buf[last + k] \in Bytes
  BY <1>0, <1>1, InStateRight DEF States, TypeOK
<1>3. chain[cur] \in FrameType /\ Len(chain[cur].key) = 4
  BY <1>0, <1>2, FrameChange
<1>4. 7 \in 1 .. Len(buf) - last /\ 8 \in 1 .. Len(buf) - last
  BY <1>2
<1>5. 256 * x + y \in Nat
  <2>1. x \in Bytes /\ y \in Bytes
    BY <1>2, <1>4
  <2> HIDE DEF x, y
  <2> QED
    BY <2>1 DEF Bytes
<1> HIDE DEF x, y
<1>6. c \in FrameType /\ Len(c.key) = 4
  BY <1>3, <1>5 DEF FrameType
<1>7. /\ c.fin = chain[cur].fin /\ c.opcode = chain[cur].opcode /\ c.mask = chain[cur].mask
      /\ c.extended = 256 * x + y
  BY <1>3 DEF FrameType
<1>8. chain' = [chain EXCEPT ![cur] = c]
  BY <1>1
<1> HIDE DEF c
<1>9. state' \in States \ {"fin"}
  BY <1>1 DEF AfterLength, States
<1>10. ASSUME Unfragmented, NEW n \in 0 .. Len(sent) - 1, At(n)
       PROVE  /\ Offset(sent[n + 1], state) \in Nat
              /\ Offset(sent[n + 1], state') = Offset(sent[n + 1], state) + 8
              /\ Parsed(sent[n + 1], c, state')
  <2> DEFINE f == sent[n + 1]
  <2>1. Offset(f, state) = 2
    BY <1>2 DEF Offset
  <2>2. f \in SentFrame /\ n \in 0 .. Len(sent)
    BY <1>0, <1>2, <1>10, ConsumedRight, MoreFrames
  <2>3. cur = 1 /\ Parsed(f, chain[1], state)
    BY <1>0, <1>2, <1>10 DEF OneFrame, At
  <2>4. f.form = 64 /\ c.fin = f.fin /\ c.opcode = f.opcode /\ c.mask = MaskBit(f)
    BY <1>2, <1>7, <2>3 DEF Parsed
  <2>5. Len(Size(f)) = 9 /\ Size(f)[8] = 0 /\ Size(f)[9] = Len(f.data)
    BY <2>2, <2>4, SizeRight
  <2>6. x = 0 /\ y = Len(f.data)
    <3>1. 1 + 7 <= Len(Size(f)) /\ 1 + 8 <= Len(Size(f))
      BY <2>5
    <3>2. state \in {"extended_2", "extended_8"}
      BY <1>2
    <3>3. buf[last + 7] = Size(f)[1 + 7]
      BY <1>0, <1>2, <1>4, <1>10, <2>2, <3>1, <3>2, SizeByte
    <3>4. buf[last + 8] = Size(f)[1 + 8]
      BY <1>0, <1>2, <1>4, <1>10, <2>2, <3>1, <3>2, SizeByte
    <3>5. 1 + 7 = 8 /\ 1 + 8 = 9
      OBVIOUS
    <3> QED
      BY <2>5, <3>3, <3>4, <3>5 DEF x, y
  <2>7. f.key = <<>> <=> Len(f.key) = 0
    BY <2>2, SentFrameType
  <2>8. c.extended = Len(f.data)
    <3>1. Len(f.data) \in Nat
      <4>1. f.data \in Seq({0, 1})
        BY <2>2, SentFrameType
      <4> QED
        BY <4>1
    <3> QED
      BY <1>7, <2>6, <3>1
  <2>9. state' = IF f.key = <<>> THEN "payload_data" ELSE "masking_key"
    BY <1>1, <1>7, <2>4 DEF AfterLength, MaskBit
  <2>10. Offset(f, state') = 2 + 8
    <3>1. CASE f.key = <<>>
      <4>1. state' = "payload_data" /\ Len(f.key) = 0
        BY <2>7, <2>9, <3>1
      <4> QED
        BY <2>5, <4>1 DEF Offset
    <3>2. CASE f.key # <<>>
      <4>1. state' = "masking_key"
        BY <2>9, <3>2
      <4> QED
        BY <2>5, <4>1 DEF Offset
    <3> QED
      BY <3>1, <3>2
  <2>11. Parsed(f, c, state')
    BY <2>4, <2>8, <2>9 DEF Parsed
  <2> QED
    BY <2>1, <2>10, <2>11
<1>11. Unfragmented => cur = 1 /\ \A n \in 0 .. Len(sent) - 1 : At(n) =>
               /\ Offset(sent[n + 1], state) \in Nat
               /\ Offset(sent[n + 1], state') = Offset(sent[n + 1], state) + 8
               /\ Parsed(sent[n + 1], c, state')
  BY <1>0, <1>10 DEF OneFrame
<1>12. Parses(8, cur, c)
  BY <1>1, <1>2, <1>6, <1>8, <1>9, <1>11 DEF Parses
<1> QED
  BY <1>12, ParseStep

LEMMA ParseKeyStep ==
    ASSUME FramesAssumption, Ind, ParseKey
    PROVE  Ind'
<1>0. TypeOK /\ KeyInv /\ EndInv /\ RoomInv /\ StreamInv /\ (Unfragmented => OneFrame)
  BY DEF Ind, IInv
<1> DEFINE key == SubSeq(buf, last + 1, last + 4)
           c == [chain[1] EXCEPT !.key = key]
<1>1. /\ InState("masking_key") /\ last' = last + 4 /\ state' = "payload_data"
      /\ chain' = [chain EXCEPT ![1].key = key]
      /\ UNCHANGED <<sent, rest, buf, cur, pc, delivered, open, overrun>>
  BY DEF ParseKey
<1>2. /\ pc = "parse" /\ state = "masking_key" /\ last < Len(buf) /\ last + 4 <= Len(buf)
      /\ Len(buf) \in Nat /\ last \in 0 .. Len(buf)
  BY <1>0, <1>1, InStateRight DEF States
<1>3. 1 \in DOMAIN chain /\ chain[1] \in FrameType
  BY <1>0, ConsumedRight, FrameChange
<1>4. key \in Seq(Bytes) /\ Len(key) = 4 /\ \A j \in 1 .. 4 : key[j] = buf[last + j]
  <2>1. buf \in Seq(Bytes)
    BY <1>0 DEF TypeOK
  <2>2. last + 1 \in 1 .. Len(buf) + 1 /\ last + 4 \in 0 .. Len(buf) /\ last + 1 <= (last + 4) + 1
        /\ (last + 4) - (last + 1) + 1 = 4
    BY <1>2
  <2>3. /\ key \in Seq(Bytes) /\ Len(key) = (last + 4) - (last + 1) + 1
        /\ \A j \in 1 .. (last + 4) - (last + 1) + 1 : key[j] = buf[(last + 1) + j - 1]
    BY <2>1, <2>2, SubSeqRight
  <2>4. \A j \in 1 .. 4 : (last + 1) + j - 1 = last + j
    BY <1>2
  <2> QED
    BY <2>2, <2>3, <2>4
<1> HIDE DEF key
<1>5. c \in FrameType /\ Len(c.key) = 4
  BY <1>3, <1>4 DEF FrameType
<1>6. /\ c.fin = chain[1].fin /\ c.opcode = chain[1].opcode /\ c.mask = chain[1].mask
      /\ c.extended = chain[1].extended /\ c.key = key
  BY <1>3 DEF FrameType
<1>7. chain' = [chain EXCEPT ![1] = c]
  BY <1>1
<1> HIDE DEF c
<1>8. state' \in States \ {"fin"}
  BY <1>1 DEF States
<1>9. ASSUME Unfragmented, NEW n \in 0 .. Len(sent) - 1, At(n)
      PROVE  /\ Offset(sent[n + 1], state) \in Nat
             /\ Offset(sent[n + 1], state') = Offset(sent[n + 1], state) + 4
             /\ Parsed(sent[n + 1], c, state')
  <2> DEFINE f == sent[n + 1]
  <2>1. Offset(f, state) = 1 + Len(Size(f)) /\ Offset(f, state') = 1 + Len(Size(f)) + Len(f.key)
    BY <1>1, <1>2 DEF Offset
  <2>2. f \in SentFrame /\ n \in 0 .. Len(sent)
    BY <1>0, <1>2, <1>9, ConsumedRight, MoreFrames
  <2>3. Parsed(f, chain[1], state)
    BY <1>2, <1>9 DEF At
  <2>4. f.key # <<>>
    BY <1>2, <2>3 DEF Parsed
  <2>5. f.key \in Seq({0, 1}) /\ Len(f.key) = 4 /\ f.data \in Seq({0, 1})
    BY <2>2, <2>4, SentFrameType
  <2>6. Len(Size(f)) \in Nat /\ Len(f.data) \in Nat
    <3>1. Size(f) \in Seq(Bytes)
      BY <2>2, SizeRight
    <3> QED
      BY <2>5, <3>1
  <2>7. f.key = key
    <3>1. ASSUME NEW j \in 1 .. 4 PROVE key[j] = f.key[j]
      <4>1. Len(Encode(f)) = 1 + Len(Size(f)) + Len(f.key) + Len(f.data)
        BY <2>2, EncodeRight
      <4>2. Offset(f, state) \in Nat /\ Offset(f, state) + j <= Len(Encode(f))
        <5> DEFINE a == Len(Size(f))
                   d == Len(f.data)
                   e == Len(Encode(f))
        <5>1. a \in Nat /\ d \in Nat /\ e = 1 + a + 4 + d
          BY <2>5, <2>6, <4>1
        <5> HIDE DEF a, d, e
        <5>2. 1 + a \in Nat /\ 1 + a + j <= e
          BY <5>1
        <5> QED
          BY <2>1, <5>2 DEF a, e
      <4>3. j \in 1 .. Len(buf) - last
        BY <1>2
      <4>4. buf[last + j] = Encode(f)[Offset(f, state) + j]
        BY <1>0, <1>2, <1>9, <2>2, <4>2, <4>3, ByteRight
      <4>5. Encode(f)[1 + Len(Size(f)) + j] = f.key[j]
        <5>1. j \in 1 .. Len(f.key)
          BY <2>5
        <5> QED
          BY <2>2, <5>1, EncodeRight
      <4> QED
        BY <1>4, <2>1, <4>4, <4>5
    <3>2. f.key \in Seq(Bytes)
      <4>1. {0, 1} \subseteq Bytes
        BY DEF Bytes
      <4> QED
        BY <2>5, <4>1
    <3> QED
      BY ZenonT(60), <1>4, <2>5, <3>1, <3>2, SeqEqual
  <2>8. Parsed(f, c, state')
    BY <1>1, <1>2, <1>6, <2>3, <2>7 DEF Parsed
  <2> QED
    BY <2>1, <2>5, <2>6, <2>8
<1>10. Unfragmented => 1 = 1 /\ \A n \in 0 .. Len(sent) - 1 : At(n) =>
               /\ Offset(sent[n + 1], state) \in Nat
               /\ Offset(sent[n + 1], state') = Offset(sent[n + 1], state) + 4
               /\ Parsed(sent[n + 1], c, state')
  BY <1>9
<1>11. Parses(4, 1, c)
  BY <1>1, <1>2, <1>3, <1>5, <1>7, <1>8, <1>10 DEF Parses
<1> QED
  BY <1>11, ParseStep

\* The payload is unmasked where it lies, and nothing else is changed.
LEMMA UnmaskedRight ==
    ASSUME FramesAssumption, TypeOK, KeyInv, NEW f \in FrameType, Len(f.key) = 4,
           last + f.extended <= Len(buf)
    PROVE  /\ Unmasked(f) \in Seq(Bytes) /\ Len(Unmasked(f)) = Len(buf)
           /\ \A i \in 1 .. Len(buf) : i > last + f.extended => Unmasked(f)[i] = buf[i]
           /\ \A i \in 1 .. f.extended :
                 Unmasked(f)[last + i] = IF f.mask = 1 /\ f.opcode \in {TEXT, BINARY}
                                         THEN Xor(buf[last + i], f.key[((i - 1) % 4) + 1])
                                         ELSE buf[last + i]
<1> DEFINE N == Len(buf)
           L == last + f.extended
           u(i) == IF f.mask = 1 /\ f.opcode \in {TEXT, BINARY} /\ i \in last + 1 .. L
                   THEN Xor(buf[i], f.key[((i - last - 1) % 4) + 1]) ELSE buf[i]
<1>1. buf \in Seq(Bytes) /\ N \in Nat /\ last \in 0 .. N /\ DOMAIN buf = 1 .. N /\ \A i \in 1 .. N : buf[i] \in Bytes
  <2>1. buf \in Seq(Bytes) /\ N \in Nat /\ last \in 0 .. N
    BY ConsumedRight DEF TypeOK
  <2> QED
    BY <2>1
<1>2. f.key \in Seq(Bytes) /\ f.extended \in Nat
  BY DEF FrameType
<1>3. Unmasked(f) = [i \in 1 .. N |-> u(i)]
  BY <1>1 DEF Unmasked
<1>4. \A i \in 1 .. N : u(i) \in Bytes
  <2> SUFFICES ASSUME NEW i \in 1 .. N PROVE u(i) \in Bytes
    BY SMTT(40)
  <2>1. CASE f.mask = 1 /\ f.opcode \in {TEXT, BINARY} /\ i \in last + 1 .. L
    <3>1. i - last - 1 \in Nat
      BY <1>1, <2>1
    <3>2. \A x \in Nat : (x % 4) + 1 \in 1 .. 4
      OBVIOUS
    <3>3. f.key[((i - last - 1) % 4) + 1] \in Bytes
      BY <1>2, <3>1, <3>2
    <3>4. Xor(buf[i], f.key[((i - last - 1) % 4) + 1]) \in {0, 1}
      BY <1>1, <3>3, XorRight
    <3> QED
      BY SMTT(40), <2>1, <3>4 DEF Bytes
  <2>2. CASE ~ (f.mask = 1 /\ f.opcode \in {TEXT, BINARY} /\ i \in last + 1 .. L)
    BY <1>1, <2>2
  <2> QED
    BY <2>1, <2>2
<1>5. \A i \in 1 .. N : i > L => u(i) = buf[i]
  BY <1>1, <1>2
<1>6. ASSUME NEW i \in 1 .. f.extended
      PROVE  /\ last + i \in 1 .. N
             /\ u(last + i) = IF f.mask = 1 /\ f.opcode \in {TEXT, BINARY}
                              THEN Xor(buf[last + i], f.key[((i - 1) % 4) + 1]) ELSE buf[last + i]
  <2> DEFINE j == last + i
  <2>1. j \in last + 1 .. L /\ j - last - 1 = i - 1 /\ j \in 1 .. N
    BY <1>1, <1>2
  <2> HIDE DEF j, L
  <2>2. u(j) = IF f.mask = 1 /\ f.opcode \in {TEXT, BINARY}
               THEN Xor(buf[j], f.key[((j - last - 1) % 4) + 1]) ELSE buf[j]
    BY <2>1
  <2>3. ((j - last - 1) % 4) + 1 = ((i - 1) % 4) + 1
    BY <2>1
  <2> HIDE DEF u
  <2>4. j \in 1 .. N /\ u(j) = IF f.mask = 1 /\ f.opcode \in {TEXT, BINARY}
                               THEN Xor(buf[j], f.key[((i - 1) % 4) + 1]) ELSE buf[j]
    BY <2>1, <2>2, <2>3
  <2> QED
    BY <2>4 DEF j
<1> HIDE DEF u
<1>7. Unmasked(f) \in Seq(Bytes) /\ Len(Unmasked(f)) = N /\ \A i \in 1 .. N : Unmasked(f)[i] = u(i)
  BY <1>1, <1>3, <1>4
<1> QED
  BY <1>5, <1>6, <1>7

LEMMA ParsePayloadStep ==
    ASSUME FramesAssumption, Ind, ParsePayload
    PROVE  Ind'
<1>0. TypeOK /\ KeyInv /\ EndInv /\ RoomInv /\ StreamInv /\ (Unfragmented => OneFrame)
  BY DEF Ind, IInv
<1> DEFINE f == chain[cur]
           c == [f EXCEPT !.start = last, !.end = last + f.extended]
<1>1. /\ InState("payload_data") /\ last' = last + f.extended /\ state' = "fin"
      /\ buf' = Unmasked(f)
      /\ chain' = [chain EXCEPT ![cur].start = last, ![cur].end = last + f.extended]
      /\ pc' = IF f.fin = 1 THEN "done" ELSE "next"
      /\ sent' = sent /\ rest' = rest /\ cur' = cur /\ delivered' = delivered /\ open' = open
      /\ overrun' = overrun
  BY DEF ParsePayload
<1>2. /\ pc = "parse" /\ state = "payload_data" /\ last < Len(buf) /\ last + f.extended <= Len(buf)
      /\ cur \in DOMAIN chain
      /\ \A k \in 1 .. Len(buf) - last : buf[last + k] \in Bytes
  BY <1>0, <1>1, InStateRight DEF States, TypeOK
<1>3. f \in FrameType /\ Len(f.key) = 4
  BY <1>0, <1>2, FrameChange
<1>4. /\ sent \in FrameSeqs /\ Len(sent) \in Nat /\ Len(All) \in Nat /\ Len(rest) \in Nat
      /\ Len(buf) \in Nat /\ last \in 0 .. Len(buf) /\ Len(chain) \in Nat /\ 1 \in DOMAIN chain
      /\ Consumed = Len(All) - Len(rest) - (Len(buf) - last) /\ Consumed \in Int
      /\ DOMAIN chain = 1 .. Len(chain)
  BY <1>0, ConsumedRight
<1>5. f.extended \in Nat
  BY <1>3 DEF FrameType
<1>6. /\ buf' \in Seq(Bytes) /\ Len(buf') = Len(buf)
      /\ \A i \in 1 .. Len(buf) : i > last + f.extended => buf'[i] = buf[i]
      /\ \A i \in 1 .. f.extended :
            buf'[last + i] = IF f.mask = 1 /\ f.opcode \in {TEXT, BINARY}
                             THEN Xor(buf[last + i], f.key[((i - 1) % 4) + 1]) ELSE buf[last + i]
  BY <1>0, <1>1, <1>2, <1>3, UnmaskedRight
<1>7. /\ c \in FrameType /\ Len(c.key) = 4 /\ c.start = last /\ c.end = last + f.extended
      /\ c.opcode = f.opcode
  <2>1. last \in Nat /\ last + f.extended \in Nat
    BY SMTT(40), <1>4, <1>5
  <2> QED
    BY <1>3, <2>1 DEF FrameType
<1>8. chain' = [chain EXCEPT ![cur] = c]
  BY <1>1
<1> HIDE DEF c
<1>9. /\ chain' \in Seq(FrameType) /\ DOMAIN chain' = DOMAIN chain /\ Len(chain') = Len(chain)
      /\ chain'[cur] = c /\ \A x \in DOMAIN chain \ {cur} : chain'[x] = chain[x]
  <2>1. chain \in Seq(FrameType)
    BY <1>0 DEF TypeOK
  <2> QED
    BY <1>2, <1>7, <1>8, <2>1
<1> HIDE DEF f
<1>10. TypeOK'
  <2>1. last' \in 0 .. Len(buf')
    BY SMTT(40), <1>1, <1>2, <1>4, <1>5, <1>6
  <2>2. cur' \in DOMAIN chain'
    BY <1>1, <1>2, <1>9
  <2>3. state' \in States
    BY <1>1 DEF States
  <2> QED
    BY <1>0, <1>1, <1>6, <1>9, <2>1, <2>2, <2>3 DEF TypeOK
<1>11. All' = All /\ Unfragmented' = Unfragmented
       /\ (\A n : LengthOf(n)' = LengthOf(n)) /\ (\A n : Messages(n)' = Messages(n))
  BY <1>1, SentSame
<1>12. Consumed' = Consumed + f.extended /\ Consumed >= 0
  <2>1. Consumed' = Len(All') - Len(rest') - (Len(buf') - last')
    BY DEF Consumed, All
  <2>2. Consumed' = Len(All) - Len(rest) - (Len(buf) - (last + f.extended))
    BY <1>1, <1>6, <1>11, <2>1
  <2> QED
    BY SMTT(40), <1>0, <1>4, <1>5, <2>2 DEF StreamInv
<1>13. KeyInv'
  BY <1>0, <1>7, <1>9 DEF KeyInv
<1>14. EndInv'
  BY <1>1, <1>7, <1>9 DEF EndInv
<1>15. RoomInv'
  BY <1>0, <1>1, <1>2, <1>6 DEF RoomInv
<1>16. StreamInv'
  <2>1. Consumed' >= 0
    BY <1>4, <1>5, <1>12
  <2>2. ASSUME NEW k \in 1 .. Len(buf') - last' PROVE buf'[last' + k] = All[Consumed' + k]
    <3>1. /\ f.extended + k \in 1 .. Len(buf) - last /\ last' + k = last + (f.extended + k)
          /\ Consumed' + k = Consumed + (f.extended + k)
          /\ last' + k \in 1 .. Len(buf) /\ last' + k > last + f.extended
      <4> DEFINE e == f.extended
                 N == Len(buf)
      <4>1. /\ e \in Nat /\ N \in Nat /\ last \in 0 .. N /\ k \in 1 .. N - (last + e) /\ last' = last + e
            /\ Consumed' = Consumed + e /\ Consumed \in Int
        BY <1>1, <1>4, <1>5, <1>6, <1>12
      <4> HIDE DEF e, N
      <4>2. /\ e + k \in 1 .. N - last /\ last' + k = last + (e + k)
            /\ Consumed' + k = Consumed + (e + k) /\ last' + k \in 1 .. N /\ last' + k > last + e
        BY <4>1
      <4> QED
        BY <4>2 DEF e, N
    <3>2. buf'[last' + k] = buf[last' + k]
      BY <1>6, <3>1
    <3> QED
      BY <1>0, <3>1, <3>2 DEF StreamInv
  <2>3. \A k \in 1 .. Len(rest) : rest[k] = All[Len(All) - Len(rest) + k]
    BY <1>0 DEF StreamInv
  <2> QED
    BY <1>1, <1>11, <2>1, <2>2, <2>3 DEF StreamInv
<1>17. ASSUME Unfragmented PROVE OneFrame'
  <2>1. /\ Len(chain) = 1 /\ cur = 1 /\ f = chain[1]
    BY <1>0, <1>17 DEF OneFrame, f
  <2>2. PICK n \in 0 .. Len(sent) : At(n) /\ Handled(n)
    BY <1>0, <1>17 DEF OneFrame
  <2> DEFINE g == sent[n + 1]
             h == 1 + Len(Size(g)) + Len(g.key)
  <2>3. n \in 0 .. Len(sent) - 1 /\ g \in SentFrame /\ Consumed = LengthOf(n) + Offset(g, state)
    BY <1>0, <1>2, <2>2, MoreFrames
  <2>4. Offset(g, state) = h
    BY <1>2 DEF Offset
  <2>5. Parsed(g, f, "payload_data")
    BY <1>2, <2>1, <2>2 DEF At
  <2>6. /\ f.fin = g.fin /\ f.opcode = g.opcode /\ f.mask = MaskBit(g) /\ f.extended = Len(g.data)
        /\ (g.key # <<>> => f.key = g.key)
    BY <2>5 DEF Parsed
  <2>7. g.fin = 1
    <3>1. n + 1 \in DOMAIN sent
      BY <1>4, <2>3, SentType
    <3> QED
      BY <1>17, <3>1 DEF Unfragmented
  <2>8. pc' = "done"
    BY <1>1, <2>6, <2>7
  <2>9. /\ LengthOf(n) \in Nat /\ LengthOf(n + 1) = LengthOf(n) + Len(Encode(g))
        /\ Len(Encode(g)) = h + Len(g.data)
    BY <1>4, <2>3, LengthRight, EncodeRight
  <2>10. h \in Nat /\ Len(g.data) \in Nat
    <3>1. Size(g) \in Seq(Bytes) /\ g.key \in Seq({0, 1}) /\ g.data \in Seq({0, 1})
      BY <2>3, SizeRight, SentFrameType
    <3>2. Len(Size(g)) \in Nat /\ Len(g.key) \in Nat /\ Len(g.data) \in Nat
      BY <3>1
    <3>3. \A x, y \in Nat : 1 + x + y \in Nat
      OBVIOUS
    <3> QED
      BY <3>2, <3>3
  <2>11. \A i \in 1 .. Len(g.data) : Encode(g)[h + i] = SentByte(g, i)
    BY <2>3, EncodeRight
  <2> HIDE DEF g, h
  <2>12. n + 1 \in 0 .. Len(sent) /\ n + 1 > 0 /\ (n + 1) - 1 = n
    BY <1>4, <2>3
  <2>13. At(n + 1)'
    <3>1. Consumed' = LengthOf(n + 1)
      BY <1>12, <2>3, <2>4, <2>6, <2>9, <2>10
    <3> QED
      BY <1>1, <1>11, <2>12, <3>1 DEF At
  <2>14. ASSUME NEW i \in 1 .. Len(g.data), IsData(g) PROVE buf'[last + i] = g.data[i]
    <3>1. i \in 1 .. f.extended /\ i \in 1 .. Len(buf) - last /\ h + i <= Len(Encode(g))
          /\ h + i \in Nat
      BY <1>2, <1>4, <2>6, <2>9, <2>10
    <3>2. buf[last + i] = SentByte(g, i)
      <4>1. Offset(g, state) \in Nat /\ Offset(g, state) + i <= Len(Encode(g))
        BY <2>4, <2>10, <3>1
      <4>2. buf[last + i] = Encode(g)[Offset(g, state) + i]
        BY <1>0, <1>2, <2>2, <3>1, <4>1, ByteRight DEF g
      <4> QED
        BY <2>4, <2>11, <4>2
    <3>3. f.opcode \in {TEXT, BINARY}
      BY <2>6, <2>14 DEF IsData
    <3>4. CASE g.key = <<>>
      <4>1. f.mask # 1
        BY <2>6, <3>4 DEF MaskBit
      <4> QED
        BY <1>6, <3>1, <3>2, <3>4, <4>1 DEF SentByte
    <3>5. CASE g.key # <<>>
      <4> DEFINE j == ((i - 1) % 4) + 1
      <4>1. f.mask = 1 /\ f.key = g.key
        BY <2>6, <3>5 DEF MaskBit
      <4>2. buf'[last + i] = Xor(buf[last + i], g.key[j])
        BY <1>6, <3>1, <3>3, <4>1
      <4>3. buf[last + i] = Xor(g.data[i], g.key[j])
        BY <3>2, <3>5 DEF SentByte
      <4>4. j \in 1 .. 4
        <5>1. \A x \in Nat : (x % 4) + 1 \in 1 .. 4
          OBVIOUS
        <5>2. i - 1 \in Nat
          BY <2>10
        <5> QED
          BY <5>1, <5>2
      <4>5. g.data[i] \in {0, 1} /\ g.key[j] \in {0, 1}
        <5>1. g.data \in Seq({0, 1}) /\ g.key \in Seq({0, 1}) /\ Len(g.key) = 4
          BY <2>3, <3>5, SentFrameType
        <5> HIDE DEF j
        <5> QED
          BY <4>4, <5>1
      <4> QED
        BY <4>2, <4>3, <4>5, XorRight
    <3> QED
      BY <3>4, <3>5
  <2>15. Ended(n + 1)'
    <3>1. chain'[1].opcode = g.opcode /\ chain'[1].start = last /\ chain'[1].end = last + Len(g.data)
      BY <1>7, <1>9, <2>1, <2>6
    <3>2. sent'[n + 1] = g
      BY <1>1 DEF g
    <3>3. state' = "fin"
      BY <1>1
    <3> QED
      BY <2>12, <2>14, <3>1, <3>2, <3>3 DEF Ended
  <2>16. Handled(n + 1)'
    <3>1. delivered' = Messages(n)'
      BY <1>1, <1>2, <1>11, <2>2 DEF Handled
    <3>2. ASSUME NEW i \in 1 .. n + 1, sent[i].opcode = CLOSE PROVE i = n + 1
      <4>1. i # n + 1 => i \in 1 .. n
        BY <2>3
      <4>2. i \notin 1 .. n
        BY <1>0, <1>2, <2>2, <3>2 DEF Handled, RoomInv
      <4> QED
        BY <4>1, <4>2
    <3> QED
      BY <1>1, <2>8, <2>12, <3>1, <3>2 DEF Handled
  <2>17. Len(chain') = 1 /\ cur' = 1 /\ pc' # "next"
    BY <1>1, <1>9, <2>1, <2>8
  <2>18. Waiting'
    BY <2>8 DEF Waiting
  <2>19. n + 1 \in 0 .. Len(sent')
    BY <1>1, <2>12
  <2> QED
    BY <2>13, <2>15, <2>16, <2>17, <2>18, <2>19 DEF OneFrame
<1> QED
  BY <1>10, <1>11, <1>13, <1>14, <1>15, <1>16, <1>17 DEF Ind, IInv

-----------------------------------------------------------------------------
(* The steps around the parser.                                            *)

\* A step that leaves the stream of bytes as it is.
StreamKept == UNCHANGED <<sent, rest, buf, last>>

LEMMA KeptRight ==
    ASSUME StreamKept, StreamInv
    PROVE  /\ StreamInv' /\ Consumed' = Consumed
           /\ All' = All /\ Unfragmented' = Unfragmented
           /\ (\A n : LengthOf(n)' = LengthOf(n)) /\ (\A n : Messages(n)' = Messages(n))
<1>1. sent' = sent /\ rest' = rest /\ buf' = buf /\ last' = last
  BY DEF StreamKept
<1>2. All' = All /\ Unfragmented' = Unfragmented
      /\ (\A n : LengthOf(n)' = LengthOf(n)) /\ (\A n : Messages(n)' = Messages(n))
  BY <1>1, SentSame
<1>3. Consumed' = Consumed
  BY <1>1 DEF Consumed
<1>4. StreamInv'
  BY <1>1, <1>2, <1>3 DEF StreamInv
<1> QED
  BY <1>2, <1>3, <1>4

\* Where the parser is in the client's bytes.
LEMMA AtSame ==
    ASSUME sent' = sent, state' = state, chain'[1] = chain[1], Consumed' = Consumed,
           \A n : LengthOf(n)' = LengthOf(n), NEW n, At(n)
    PROVE  At(n)'
BY DEF At

LEMMA ParseAgainStep ==
    ASSUME FramesAssumption, Ind, ParseAgain
    PROVE  Ind'
<1>0. TypeOK /\ KeyInv /\ EndInv /\ RoomInv /\ StreamInv /\ (Unfragmented => OneFrame)
  BY DEF Ind, IInv
<1>1. /\ pc = "parse" /\ (last = Len(buf) \/ Len(buf) - last < Needs) /\ pc' = "idle"
      /\ sent' = sent /\ rest' = rest /\ buf' = buf /\ last' = last /\ state' = state /\ chain' = chain
      /\ cur' = cur /\ delivered' = delivered /\ open' = open /\ overrun' = overrun
  BY DEF ParseAgain
<1>2. TypeOK'
  BY <1>0, <1>1 DEF TypeOK
<1>3. KeyInv' /\ EndInv' /\ RoomInv'
  BY <1>0, <1>1 DEF KeyInv, EndInv, RoomInv
<1>4. /\ StreamInv' /\ Consumed' = Consumed /\ Unfragmented' = Unfragmented
      /\ (\A n : LengthOf(n)' = LengthOf(n)) /\ (\A n : Messages(n)' = Messages(n))
  BY <1>0, <1>1, KeptRight DEF StreamKept
<1>5. ASSUME Unfragmented PROVE OneFrame'
  <2>1. PICK n \in 0 .. Len(sent) : At(n) /\ Handled(n)
    BY <1>0, <1>5 DEF OneFrame
  <2>2. At(n)'
    BY <1>1, <1>4, <2>1, AtSame
  <2>3. Handled(n)'
    BY <1>1, <1>4, <2>1 DEF Handled
  <2>4. Len(chain') = 1 /\ cur' = 1 /\ pc' # "next" /\ pc' # "done" /\ n \in 0 .. Len(sent')
    BY <1>0, <1>1, <1>5 DEF OneFrame
  <2>5. Needs' = Needs
    BY <1>1 DEF Needs
  <2>6. Waiting'
    BY <1>1, <2>5 DEF Waiting
  <2> QED
    BY <2>2, <2>3, <2>4, <2>6 DEF OneFrame
<1> QED
  BY <1>2, <1>3, <1>4, <1>5 DEF Ind, IInv

LEMMA HangupStep ==
    ASSUME FramesAssumption, Ind, Hangup
    PROVE  Ind'
<1>0. TypeOK /\ KeyInv /\ EndInv /\ RoomInv /\ StreamInv /\ (Unfragmented => OneFrame)
  BY DEF Ind, IInv
<1>1. /\ pc = "idle" /\ open' = FALSE
      /\ sent' = sent /\ rest' = rest /\ buf' = buf /\ last' = last /\ state' = state /\ chain' = chain
      /\ cur' = cur /\ pc' = pc /\ delivered' = delivered /\ overrun' = overrun
  BY DEF Hangup
<1>2. TypeOK'
  BY <1>0, <1>1 DEF TypeOK
<1>3. KeyInv' /\ EndInv' /\ RoomInv'
  BY <1>0, <1>1 DEF KeyInv, EndInv, RoomInv
<1>4. /\ StreamInv' /\ Consumed' = Consumed /\ Unfragmented' = Unfragmented
      /\ (\A n : LengthOf(n)' = LengthOf(n)) /\ (\A n : Messages(n)' = Messages(n))
  BY <1>0, <1>1, KeptRight DEF StreamKept
<1>5. ASSUME Unfragmented PROVE OneFrame'
  <2>1. PICK n \in 0 .. Len(sent) : At(n) /\ Handled(n)
    BY <1>0, <1>5 DEF OneFrame
  <2>2. At(n)'
    BY <1>1, <1>4, <2>1, AtSame
  <2>3. Handled(n)'
    BY <1>1, <1>4, <2>1 DEF Handled
  <2>4. Len(chain') = 1 /\ cur' = 1 /\ pc' # "next" /\ pc' # "done" /\ n \in 0 .. Len(sent')
    BY <1>0, <1>1, <1>5 DEF OneFrame
  <2>5. Waiting'
    BY <1>1 DEF Waiting
  <2> QED
    BY <2>2, <2>3, <2>4, <2>5 DEF OneFrame
<1> QED
  BY <1>2, <1>3, <1>4, <1>5 DEF Ind, IInv

LEMMA RecvStep ==
    ASSUME FramesAssumption, Ind, NEW n \in 1 .. BufSize, Recv(n)
    PROVE  Ind'
<1>0. TypeOK /\ KeyInv /\ EndInv /\ RoomInv /\ StreamInv /\ (Unfragmented => OneFrame)
  BY DEF Ind, IInv
<1> DEFINE N == Len(buf)
           R == Len(rest)
           A == Len(All)
           new == SubSeq(rest, 1, n)
<1>1. /\ pc = "idle" /\ open /\ n <= R /\ buf' = buf \o new /\ rest' = SubSeq(rest, n + 1, R)
      /\ overrun' = (N + n > BufSize) /\ cur' = 1 /\ pc' = "parse"
      /\ sent' = sent /\ last' = last /\ state' = state /\ chain' = chain
      /\ delivered' = delivered /\ open' = open
  BY DEF Recv
<1>2. /\ sent \in FrameSeqs /\ A \in Nat /\ R \in Nat /\ N \in Nat /\ last \in 0 .. N
      /\ 1 \in DOMAIN chain /\ Consumed = A - R - (N - last) /\ Consumed \in Int
  BY <1>0, ConsumedRight
<1>3. n \in Nat /\ n >= 1 /\ BufSize \in Nat
  <2>1. BufSize \in Nat
    BY FramesAssumption DEF FramesAssumption
  <2> QED
    BY <2>1
<1>4. rest \in Seq(Bytes) /\ buf \in Seq(Bytes)
  BY <1>0 DEF TypeOK
<1>5. new \in Seq(Bytes) /\ Len(new) = n /\ \A i \in 1 .. n : new[i] = rest[i]
  <2>0. n \in Nat /\ R \in Nat /\ n <= R
    BY <1>1, <1>2, <1>3
  <2>1. 1 \in 1 .. R + 1 /\ n \in 0 .. R /\ 1 <= n + 1 /\ n - 1 + 1 = n /\ \A i \in 1 .. n : 1 + i - 1 = i
    BY <2>0
  <2>2. /\ new \in Seq(Bytes) /\ Len(new) = n - 1 + 1
        /\ \A i \in 1 .. n - 1 + 1 : new[i] = rest[1 + i - 1]
    BY <1>4, <2>1, SubSeqRight
  <2> QED
    BY <2>1, <2>2
<1>6. rest' \in Seq(Bytes) /\ Len(rest') = R - n /\ \A i \in 1 .. R - n : rest'[i] = rest[n + i]
  <2> DEFINE a == n + 1
             old == SubSeq(rest, a, R)
  <2>0. n \in Nat /\ R \in Nat /\ n <= R
    BY <1>1, <1>2, <1>3
  <2>1. a \in 1 .. R + 1 /\ R \in 0 .. R /\ a <= R + 1 /\ R - a + 1 = R - n
        /\ \A i \in 1 .. R - n : a + i - 1 = n + i
    BY <2>0
  <2> HIDE DEF a
  <2>2. /\ old \in Seq(Bytes) /\ Len(old) = R - a + 1
        /\ \A i \in 1 .. R - a + 1 : old[i] = rest[a + i - 1]
    BY <1>4, <2>1, SubSeqRight
  <2>3. rest' = old
    BY <1>1 DEF a
  <2> HIDE DEF old
  <2> QED
    BY <2>1, <2>2, <2>3
<1> HIDE DEF new
<1>7. /\ buf' \in Seq(Bytes) /\ Len(buf') = N + n /\ \A i \in 1 .. N : buf'[i] = buf[i]
      /\ \A i \in 1 .. n : buf'[N + i] = new[i]
  <2> DEFINE t == buf \o new
  <2>1. /\ t \in Seq(Bytes) /\ Len(t) = N + Len(new) /\ \A i \in 1 .. N : t[i] = buf[i]
        /\ \A i \in 1 .. Len(new) : t[N + i] = new[i]
    <3>1. buf \in Seq(Bytes) /\ new \in Seq(Bytes)
      BY <1>4, <1>5
    <3>2. t \in Seq(Bytes) /\ Len(t) = N + Len(new)
      BY <3>1, ConcatRight
    <3>3. \A i \in 1 .. N : t[i] = buf[i]
      BY <3>1, ConcatRight
    <3>4. \A i \in 1 .. Len(new) : t[N + i] = new[i]
      BY <3>1, ConcatRight
    <3> QED
      BY <3>2, <3>3, <3>4
  <2>2. buf' = t /\ Len(new) = n
    BY <1>1, <1>5
  <2> HIDE DEF t
  <2> QED
    BY <2>1, <2>2
<1>8. TypeOK'
  <2>1. last' \in 0 .. Len(buf')
    <3>1. last' = last /\ Len(buf') = N + n
      BY <1>1, <1>7
    <3> HIDE DEF N
    <3> QED
      BY <1>2, <1>3, <3>1
  <2>2. cur' \in DOMAIN chain'
    BY <1>1, <1>2
  <2>3. overrun' \in BOOLEAN
    BY <1>1
  <2> QED
    BY <1>0, <1>1, <1>6, <1>7, <2>1, <2>2, <2>3 DEF TypeOK
<1>9. KeyInv' /\ EndInv'
  BY <1>0, <1>1 DEF KeyInv, EndInv
<1>10. RoomInv'
  <2>1. ~ overrun' => Len(buf') <= BufSize
    <3>1. (overrun' <=> N + n > BufSize) /\ Len(buf') = N + n
      BY <1>1, <1>7
    <3> HIDE DEF N
    <3>2. N + n <= BufSize \/ N + n > BufSize
      BY <1>2, <1>3
    <3> QED
      BY <1>2, <1>3, <3>1, <3>2
  <2> QED
    BY <1>1, <2>1 DEF RoomInv
<1>11. All' = All /\ Unfragmented' = Unfragmented
       /\ (\A k : LengthOf(k)' = LengthOf(k)) /\ (\A k : Messages(k)' = Messages(k))
  BY <1>1, SentSame
<1>12. Consumed' = Consumed
  <2>1. Consumed' = Len(All') - Len(rest') - (Len(buf') - last')
    BY DEF Consumed, All
  <2>2. Consumed' = A - (R - n) - ((N + n) - last)
    BY <1>1, <1>6, <1>7, <1>11, <2>1
  <2> HIDE DEF A, R, N
  <2> QED
    BY <1>2, <1>3, <2>2
<1>13. StreamInv'
  <2>0. /\ Consumed >= 0 /\ (\A k \in 1 .. N - last : buf[last + k] = All[Consumed + k])
        /\ \A k \in 1 .. R : rest[k] = All[A - R + k]
    BY <1>0 DEF StreamInv
  <2>1. Consumed' >= 0
    BY <1>12, <2>0
  <2>2. ASSUME NEW k \in 1 .. N + n - last PROVE buf'[last + k] = All[Consumed + k]
    <3>1. CASE last + k <= N
      <4>1. k \in 1 .. N - last /\ last + k \in 1 .. N
        BY <1>2, <1>3, <3>1
      <4> QED
        BY <1>7, <2>0, <4>1
    <3>2. CASE last + k > N
      <4> DEFINE j == last + k - N
      <4>1. j \in 1 .. n /\ N + j = last + k /\ j \in 1 .. R /\ A - R + j = Consumed + k
        <5> HIDE DEF N, A, R
        <5> QED
          BY <1>1, <1>2, <1>3, <3>2
      <4> HIDE DEF j
      <4>2. buf'[N + j] = new[j] /\ new[j] = rest[j] /\ rest[j] = All[A - R + j]
        BY <1>5, <1>7, <2>0, <4>1
      <4> QED
        BY <4>1, <4>2
    <3> QED
      BY <1>2, <1>3, <3>1, <3>2
  <2>3. ASSUME NEW k \in 1 .. R - n PROVE rest'[k] = All[A - (R - n) + k]
    <3>1. n + k \in 1 .. R /\ A - R + (n + k) = A - (R - n) + k
      <4> HIDE DEF A, R
      <4> QED
        BY <1>1, <1>2, <1>3
    <3> QED
      BY <1>6, <2>0, <3>1
  <2>4. \A k \in 1 .. Len(buf') - last' : buf'[last' + k] = All'[Consumed' + k]
    <3>1. last' = last
      BY <1>1
    <3>2. Len(buf') = N + n
      BY <1>7
    <3> HIDE DEF N
    <3>3. Len(buf') - last' = N + n - last
      BY <1>2, <1>3, <3>1, <3>2
    <3> QED
      BY <1>11, <1>12, <2>2, <3>1, <3>3
  <2>5. \A k \in 1 .. Len(rest') : rest'[k] = All'[Len(All') - Len(rest') + k]
    BY <1>6, <1>11, <2>3
  <2> QED
    BY <2>1, <2>4, <2>5 DEF StreamInv
<1>14. ASSUME Unfragmented PROVE OneFrame'
  <2>1. PICK m \in 0 .. Len(sent) : At(m) /\ Handled(m)
    BY <1>0, <1>14 DEF OneFrame
  <2>2. At(m)'
    BY <1>1, <1>11, <1>12, <2>1, AtSame
  <2>3. Handled(m)'
    BY <1>1, <1>11, <2>1 DEF Handled
  <2>4. Len(chain') = 1 /\ cur' = 1 /\ pc' # "next" /\ pc' # "done" /\ m \in 0 .. Len(sent')
    BY <1>0, <1>1, <1>14 DEF OneFrame
  <2>5. Waiting'
    BY <1>1 DEF Waiting
  <2> QED
    BY <2>2, <2>3, <2>4, <2>5 DEF OneFrame
<1> QED
  BY <1>8, <1>9, <1>10, <1>11, <1>13, <1>14 DEF Ind, IInv

LEMMA NextFrameStep ==
    ASSUME FramesAssumption, Ind, NextFrame
    PROVE  Ind'
<1>0. TypeOK /\ KeyInv /\ EndInv /\ RoomInv /\ StreamInv /\ (Unfragmented => OneFrame)
  BY DEF Ind, IInv
<1>1. /\ pc = "next" /\ chain' = (IF cur < Len(chain) THEN chain ELSE Append(chain, NewFrame))
      /\ cur' = cur + 1 /\ pc' = "parse"
      /\ sent' = sent /\ rest' = rest /\ buf' = buf /\ last' = last /\ state' = state
      /\ delivered' = delivered /\ open' = open /\ overrun' = overrun
  BY DEF NextFrame
<1>2. chain \in Seq(FrameType) /\ cur \in 1 .. Len(chain) /\ Len(chain) \in Nat
  <2>1. chain \in Seq(FrameType) /\ cur \in DOMAIN chain
    BY <1>0 DEF TypeOK
  <2> QED
    BY <2>1
<1>3. NewFrame \in FrameType /\ Len(NewFrame.key) = 4
  <2>1. <<0, 0, 0, 0>> \in Seq(Bytes) /\ Len(<<0, 0, 0, 0>>) = 4
    BY DEF Bytes
  <2> QED
    BY <2>1 DEF NewFrame, FrameType
<1>4. /\ chain' \in Seq(FrameType) /\ cur + 1 \in DOMAIN chain'
      /\ \A i \in DOMAIN chain' : (i \in DOMAIN chain /\ chain'[i] = chain[i]) \/ chain'[i] = NewFrame
  <2> HIDE DEF NewFrame
  <2>1. CASE cur < Len(chain)
    BY <1>1, <1>2, <2>1
  <2>2. CASE ~ cur < Len(chain)
    <3>1. chain' = Append(chain, NewFrame) /\ cur = Len(chain)
      BY <1>1, <1>2, <2>2
    <3> QED
      BY <1>2, <1>3, <3>1
  <2> QED
    BY <2>1, <2>2
<1>5. TypeOK'
  BY <1>0, <1>1, <1>4 DEF TypeOK
<1>6. KeyInv'
  BY <1>0, <1>3, <1>4 DEF KeyInv
<1>7. EndInv' /\ RoomInv'
  BY <1>0, <1>1 DEF EndInv, RoomInv
<1>8. StreamInv' /\ Unfragmented' = Unfragmented
  BY <1>0, <1>1, KeptRight DEF StreamKept
<1>9. ~ Unfragmented
  BY <1>0, <1>1 DEF OneFrame
<1> QED
  BY <1>5, <1>6, <1>7, <1>8, <1>9 DEF Ind, IInv

LEMMA NextFrameNoMemoryStep ==
    ASSUME FramesAssumption, Ind, NextFrameNoMemory
    PROVE  Ind'
<1>0. TypeOK /\ KeyInv /\ EndInv /\ RoomInv /\ StreamInv /\ (Unfragmented => OneFrame)
  BY DEF Ind, IInv
<1>1. /\ pc = "next" /\ pc' = "idle"
      /\ sent' = sent /\ rest' = rest /\ buf' = buf /\ last' = last /\ state' = state /\ chain' = chain
      /\ cur' = cur /\ delivered' = delivered /\ open' = open /\ overrun' = overrun
  BY DEF NextFrameNoMemory
<1>2. TypeOK'
  BY <1>0, <1>1 DEF TypeOK
<1>3. KeyInv' /\ EndInv' /\ RoomInv'
  BY <1>0, <1>1 DEF KeyInv, EndInv, RoomInv
<1>4. StreamInv' /\ Unfragmented' = Unfragmented
  BY <1>0, <1>1, KeptRight DEF StreamKept
<1>5. ~ Unfragmented
  BY <1>0, <1>1 DEF OneFrame
<1> QED
  BY <1>2, <1>3, <1>4, <1>5 DEF Ind, IInv

LEMMA CloseFrameStep ==
    ASSUME FramesAssumption, Ind, CloseFrame
    PROVE  Ind'
<1>0. TypeOK /\ KeyInv /\ EndInv /\ RoomInv /\ StreamInv /\ (Unfragmented => OneFrame)
  BY DEF Ind, IInv
<1>1. /\ pc = "done" /\ (\E i \in DOMAIN chain : chain[i].opcode = CLOSE)
      /\ open' = FALSE /\ pc' = "idle"
      /\ sent' = sent /\ rest' = rest /\ buf' = buf /\ last' = last /\ state' = state /\ chain' = chain
      /\ cur' = cur /\ delivered' = delivered /\ overrun' = overrun
  BY DEF CloseFrame
<1>2. TypeOK'
  BY <1>0, <1>1 DEF TypeOK
<1>3. KeyInv' /\ EndInv' /\ RoomInv'
  BY <1>0, <1>1 DEF KeyInv, EndInv, RoomInv
<1>4. /\ StreamInv' /\ Consumed' = Consumed /\ Unfragmented' = Unfragmented
      /\ (\A n : LengthOf(n)' = LengthOf(n)) /\ (\A n : Messages(n)' = Messages(n))
  BY <1>0, <1>1, KeptRight DEF StreamKept
<1>5. ASSUME Unfragmented PROVE OneFrame'
  <2>1. PICK n \in 0 .. Len(sent) : At(n) /\ Ended(n) /\ Handled(n)
    BY <1>0, <1>1, <1>5 DEF OneFrame
  <2>2. At(n)'
    BY <1>1, <1>4, <2>1, AtSame
  <2>3. n \in 1 .. Len(sent) /\ chain[1].opcode = sent[n].opcode
    <3>1. Len(sent) \in Nat
      BY <1>0, ConsumedRight
    <3> QED
      BY <2>1, <3>1 DEF Ended
  <2>4. sent[n].opcode = CLOSE
    <3>1. DOMAIN chain = 1 .. Len(chain)
      BY <1>0, ConsumedRight
    <3>2. DOMAIN chain = {1}
      BY <1>0, <1>5, <3>1 DEF OneFrame
    <3> QED
      BY <1>1, <2>3, <3>2
  <2>5. Messages(n) = Messages(n - 1)
    <3>1. ~ IsData(sent[n])
      BY <2>4 DEF IsData, CLOSE, TEXT, BINARY
    <3>2. sent \in FrameSeqs
      BY <1>0 DEF TypeOK
    <3> QED
      BY <2>3, <3>1, <3>2, MessagesRight
  <2>6. Handled(n)'
    <3>1. delivered = Messages(n - 1) /\ \A i \in 1 .. n : sent[i].opcode = CLOSE => i = n
      BY <1>1, <2>1 DEF Handled
    <3> QED
      BY <1>1, <1>4, <2>5, <3>1 DEF Handled
  <2>7. Len(chain') = 1 /\ cur' = 1 /\ pc' # "next" /\ pc' # "done" /\ n \in 0 .. Len(sent')
    BY <1>0, <1>1, <1>5 DEF OneFrame
  <2>8. Waiting'
    BY <1>1 DEF Waiting
  <2> QED
    BY <2>2, <2>6, <2>7, <2>8 DEF OneFrame
<1> QED
  BY <1>2, <1>3, <1>4, <1>5 DEF Ind, IInv

\* The payload of a frame.
LEMMA PayloadRight ==
    ASSUME FramesAssumption, TypeOK, NEW f \in FrameType
    PROVE  /\ PayloadOf(f) \in Seq(Bytes)
           /\ Len(PayloadOf(f)) = IF f.start <= f.end THEN f.end - f.start ELSE 0
           /\ \A i \in 1 .. Len(PayloadOf(f)) :
                 f.start + i <= Len(buf) => PayloadOf(f)[i] = buf[f.start + i]
<1> DEFINE n == IF f.start <= f.end THEN f.end - f.start ELSE 0
           p(i) == IF f.start + i <= Len(buf) THEN buf[f.start + i] ELSE 0
<1>1. f.start \in Nat /\ f.end \in Nat
  BY DEF FrameType
<1>2. n \in Nat /\ 1 .. f.end - f.start = 1 .. n
  BY <1>1
<1>3. PayloadOf(f) = [i \in 1 .. n |-> p(i)]
  <2> HIDE DEF n
  <2> QED
    BY <1>2 DEF PayloadOf
<1>4. \A i \in 1 .. n : p(i) \in Bytes
  <2> SUFFICES ASSUME NEW i \in 1 .. n PROVE p(i) \in Bytes
    OBVIOUS
  <2> HIDE DEF n
  <2>1. buf \in Seq(Bytes) /\ Len(buf) \in Nat
    BY ConsumedRight DEF TypeOK
  <2>2. CASE f.start + i <= Len(buf)
    <3>1. f.start + i \in 1 .. Len(buf)
      BY <1>1, <1>2, <2>1, <2>2
    <3> QED
      BY <2>1, <2>2, <3>1
  <2>3. CASE ~ f.start + i <= Len(buf)
    BY <2>3 DEF Bytes
  <2> QED
    BY <2>2, <2>3
<1>5. \A i \in 1 .. n : f.start + i <= Len(buf) => p(i) = buf[f.start + i]
  OBVIOUS
<1> HIDE DEF p, n
<1>6. PayloadOf(f) \in Seq(Bytes) /\ Len(PayloadOf(f)) = n /\ \A i \in 1 .. n : PayloadOf(f)[i] = p(i)
  BY <1>2, <1>3, <1>4
<1> QED
  BY <1>5, <1>6 DEF n

\* What is made of the payloads in the list.
LEMMA ConcatOfOne ==
    ASSUME FramesAssumption, TypeOK
    PROVE  /\ Concat \in Seq(Bytes)
           /\ Len(chain) = 1 =>
                 Concat = IF IsData(chain[1]) THEN PayloadOf(chain[1]) ELSE <<>>
<1> DEFINE N == Len(chain)
           P == [i \in 1 .. N |-> IF IsData(chain[i]) THEN PayloadOf(chain[i]) ELSE <<>>]
<1>1. N \in Nat /\ DOMAIN chain = 1 .. N
  BY ConsumedRight
<1>2. \A i \in 1 .. N : P[i] \in Seq(Bytes)
  <2> SUFFICES ASSUME NEW i \in 1 .. N PROVE P[i] \in Seq(Bytes)
    OBVIOUS
  <2>1. chain[i] \in FrameType
    BY <1>1 DEF TypeOK
  <2>2. PayloadOf(chain[i]) \in Seq(Bytes) /\ <<>> \in Seq(Bytes)
    BY <2>1, PayloadRight
  <2> QED
    BY <2>2
<1>3. Concat = Part(P, N)
  <2>1. P = [i \in 1 .. N |-> P[i]]
    OBVIOUS
  <2>2. Concat = FlattenSeq(P)
    BY <1>1 DEF Concat
  <2> HIDE DEF P
  <2> QED
    BY <2>1, <2>2 DEF Part
<1>4. N = 1 => P[1] = IF IsData(chain[1]) THEN PayloadOf(chain[1]) ELSE <<>>
  OBVIOUS
<1> HIDE DEF P, N
<1>0. SeqsOf(Bytes, N, P)
  BY <1>2 DEF SeqsOf
<1>5. /\ Part(P, 0) = <<>>
      /\ \A n \in 1 .. N : Part(P, n) = Part(P, n - 1) \o P[n]
  BY ZenonT(60), <1>0, <1>1, PartStep
<1>6. N \in 0 .. N
  BY <1>1
<1>7. Part(P, N) \in Seq(Bytes)
  BY <1>0, <1>1, <1>6, PartType
<1>8. ASSUME N = 1 PROVE Part(P, N) = P[1]
  <2>1. Part(P, 1) = Part(P, 0) \o P[1] /\ P[1] \in Seq(Bytes)
    BY <1>2, <1>5, <1>8
  <2>2. <<>> \o P[1] = P[1]
    BY <2>1
  <2> QED
    BY <1>5, <1>8, <2>1, <2>2
<1> QED
  BY <1>3, <1>4, <1>7, <1>8 DEF N

\* The message that a client sent in one frame is made of its data.
LEMMA ConcatRightForOne ==
    ASSUME FramesAssumption, TypeOK, EndInv, OneFrame, pc = "done",
           NEW n \in 1 .. Len(sent), Ended(n)
    PROVE  IsData(chain[1]) = IsData(sent[n]) /\ Concat = IF IsData(sent[n]) THEN sent[n].data ELSE <<>>
<1> DEFINE c == chain[1]
           d == sent[n].data
<1>1. /\ c.opcode = sent[n].opcode /\ c.end = c.start + Len(d)
      /\ IsData(sent[n]) => \A i \in 1 .. Len(d) : buf[c.start + i] = d[i]
  BY DEF Ended
<1>2. Len(chain) = 1 /\ cur = 1 /\ c.end = last
  BY DEF OneFrame, EndInv
<1>3. IsData(c) = IsData(sent[n])
  BY <1>1 DEF IsData
<1>4. /\ c \in FrameType /\ c.start \in Nat /\ d \in Seq({0, 1}) /\ Len(d) \in Nat
      /\ Len(buf) \in Nat /\ last \in 0 .. Len(buf)
  <2>1. c \in FrameType
    BY ConsumedRight DEF TypeOK
  <2>2. sent[n] \in SentFrame
    BY SentType DEF TypeOK
  <2>3. d \in Seq({0, 1})
    BY <2>2, SentFrameType
  <2>4. c.start \in Nat
    BY <2>1 DEF FrameType
  <2>5. Len(d) \in Nat
    <3> HIDE DEF d
    <3> QED
      BY <2>3
  <2> QED
    BY <2>1, <2>3, <2>4, <2>5, ConsumedRight
<1>5. CASE IsData(sent[n])
  <2>1. Concat = PayloadOf(c)
    BY <1>2, <1>3, <1>5, ConcatOfOne
  <2>2. /\ PayloadOf(c) \in Seq(Bytes)
        /\ Len(PayloadOf(c)) = IF c.start <= c.end THEN c.end - c.start ELSE 0
        /\ \A i \in 1 .. Len(PayloadOf(c)) : c.start + i <= Len(buf) => PayloadOf(c)[i] = buf[c.start + i]
    BY <1>4, PayloadRight
  <2> DEFINE L == Len(d)
             s == c.start
             e == c.end
  <2>3. e = s + L /\ L \in Nat /\ s \in Nat /\ e <= Len(buf) /\ Len(buf) \in Nat
    BY <1>1, <1>2, <1>4
  <2> HIDE DEF L, s, e
  <2>4. s <= e /\ e - s = L /\ \A i \in 1 .. L : s + i <= Len(buf)
    BY <2>3
  <2>5. Len(PayloadOf(c)) = L
    BY <2>2, <2>4 DEF s, e
  <2>6. \A i \in 1 .. L : PayloadOf(c)[i] = d[i]
    BY <1>1, <1>5, <2>2, <2>4, <2>5 DEF s, L
  <2>7. d \in Seq(Bytes)
    BY SMTT(40), <1>4 DEF Bytes
  <2> HIDE DEF c, d
  <2>8. PayloadOf(c) = d
    BY <2>2, <2>5, <2>6, <2>7, SeqEqual DEF L
  <2> QED
    BY <1>3, <1>5, <2>1, <2>8 DEF c, d
<1>6. CASE ~ IsData(sent[n])
  BY <1>2, <1>3, <1>6, ConcatOfOne
<1> QED
  BY <1>5, <1>6

LEMMA DeliverMessageStep ==
    ASSUME FramesAssumption, Ind, DeliverMessage
    PROVE  Ind'
<1>0. TypeOK /\ KeyInv /\ EndInv /\ RoomInv /\ StreamInv /\ (Unfragmented => OneFrame)
  BY DEF Ind, IInv
<1> DEFINE new(c) == IF IsData(c) THEN [c EXCEPT !.end = c.start] ELSE c
<1>1. /\ pc = "done" /\ (\A i \in DOMAIN chain : chain[i].opcode # CLOSE)
      /\ delivered' = (IF Concat = <<>> THEN delivered ELSE Append(delivered, Concat))
      /\ chain' = [i \in DOMAIN chain |-> new(chain[i])]
      /\ ResetBuffer
      /\ sent' = sent /\ rest' = rest /\ state' = state /\ cur' = cur /\ open' = open
      /\ overrun' = overrun
  BY DEF DeliverMessage
<1>2. /\ sent \in FrameSeqs /\ Len(sent) \in Nat /\ Len(All) \in Nat /\ Len(rest) \in Nat
      /\ Len(buf) \in Nat /\ last \in 0 .. Len(buf) /\ Len(chain) \in Nat /\ 1 \in DOMAIN chain
      /\ Consumed = Len(All) - Len(rest) - (Len(buf) - last) /\ Consumed \in Int
      /\ DOMAIN chain = 1 .. Len(chain)
  BY <1>0, ConsumedRight
<1>3. \/ last = Len(buf) /\ buf' = <<>> /\ last' = 0 /\ pc' = "idle"
      \/ last # Len(buf) /\ buf' = buf /\ last' = last /\ pc' = "parse"
  BY <1>1 DEF ResetBuffer
<1>4. \A i \in DOMAIN chain : /\ chain[i] \in FrameType /\ Len(chain[i].key) = 4
                              /\ new(chain[i]) \in FrameType /\ Len(new(chain[i]).key) = 4
  <2> SUFFICES ASSUME NEW i \in DOMAIN chain
               PROVE  /\ chain[i] \in FrameType /\ Len(chain[i].key) = 4
                      /\ new(chain[i]) \in FrameType /\ Len(new(chain[i]).key) = 4
    OBVIOUS
  <2> DEFINE c == chain[i]
             d == [c EXCEPT !.end = c.start]
  <2>1. c \in FrameType /\ Len(c.key) = 4
    BY <1>0, FrameChange
  <2> HIDE DEF c
  <2>2. d \in FrameType /\ Len(d.key) = 4
    BY <2>1 DEF FrameType
  <2>3. new(c) = c \/ new(c) = d
    OBVIOUS
  <2> QED
    BY <2>1, <2>2, <2>3 DEF c
<1> HIDE DEF new
<1>5. chain' \in Seq(FrameType) /\ DOMAIN chain' = DOMAIN chain /\ Len(chain') = Len(chain)
      /\ \A i \in DOMAIN chain : chain'[i] = new(chain[i])
  BY <1>1, <1>2, <1>4
<1>6. TypeOK'
  <2>1. delivered' \in Seq(Seq(Bytes))
    <3> DEFINE S == Seq(Bytes)
    <3>1. delivered \in Seq(S) /\ Concat \in S
      BY <1>0, ConcatOfOne DEF TypeOK
    <3> HIDE DEF S
    <3>2. delivered' \in Seq(S)
      BY <1>1, <3>1
    <3> QED
      BY <3>2 DEF S
  <2>2. buf' \in Seq(Bytes) /\ last' \in 0 .. Len(buf') /\ pc' \in {"idle", "parse", "next", "done"}
    <3>1. buf \in Seq(Bytes)
      BY <1>0 DEF TypeOK
    <3>2. <<>> \in Seq(Bytes) /\ Len(<<>>) = 0
      OBVIOUS
    <3>3. CASE buf' = <<>> /\ last' = 0 /\ pc' = "idle"
      <4>1. buf' \in Seq(Bytes) /\ Len(buf') = 0
        BY <3>2, <3>3
      <4> QED
        BY <3>3, <4>1
    <3>4. CASE buf' = buf /\ last' = last /\ pc' = "parse"
      BY <1>2, <3>1, <3>4
    <3> QED
      BY <1>3, <3>3, <3>4
  <2> QED
    BY <1>0, <1>1, <1>5, <2>1, <2>2 DEF TypeOK
<1>7. KeyInv'
  BY <1>4, <1>5 DEF KeyInv
<1>8. EndInv'
  BY <1>3 DEF EndInv
<1>9. RoomInv'
  <2>1. open'
    BY <1>0, <1>1 DEF RoomInv
  <2>2. Len(<<>>) <= BufSize
    BY FramesAssumption DEF FramesAssumption
  <2>3. ~ overrun' => Len(buf') <= BufSize
    BY <1>0, <1>1, <1>3, <2>2 DEF RoomInv
  <2> QED
    BY <2>1, <2>3 DEF RoomInv
<1>10. All' = All /\ Unfragmented' = Unfragmented
       /\ (\A n : LengthOf(n)' = LengthOf(n)) /\ (\A n : Messages(n)' = Messages(n))
  BY <1>1, SentSame
<1>11. Len(buf') - last' = Len(buf) - last
  <2>1. CASE buf' = buf /\ last' = last
    BY <2>1
  <2>2. CASE last = Len(buf) /\ buf' = <<>> /\ last' = 0
    <3>1. Len(buf') = 0 /\ last' = 0
      BY <2>2
    <3>2. Len(buf) - last = 0
      BY <1>2, <2>2
    <3> QED
      BY <3>1, <3>2
  <2> QED
    BY <1>3, <2>1, <2>2
<1>12. Consumed' = Consumed
  <2>1. Consumed' = Len(All') - Len(rest') - (Len(buf') - last')
    BY DEF Consumed, All
  <2> QED
    BY <1>1, <1>2, <1>10, <1>11, <2>1
<1>13. StreamInv'
  <2>0. /\ Consumed >= 0 /\ (\A k \in 1 .. Len(buf) - last : buf[last + k] = All[Consumed + k])
        /\ \A k \in 1 .. Len(rest) : rest[k] = All[Len(All) - Len(rest) + k]
    BY <1>0 DEF StreamInv
  <2>1. \A k \in 1 .. Len(buf') - last' : buf'[last' + k] = All'[Consumed' + k]
    <3>1. CASE buf' = buf /\ last' = last
      BY <1>10, <1>12, <2>0, <3>1
    <3>2. CASE last = Len(buf)
      <4>1. Len(buf') - last' = 0
        BY <1>2, <1>11, <3>2
      <4> QED
        BY <4>1
    <3> QED
      BY <1>3, <3>1, <3>2
  <2>2. \A k \in 1 .. Len(rest') : rest'[k] = All'[Len(All') - Len(rest') + k]
    BY <1>1, <1>10, <2>0
  <2>3. Consumed' >= 0
    BY <1>12, <2>0
  <2> QED
    BY <2>1, <2>2, <2>3 DEF StreamInv
<1>14. ASSUME Unfragmented PROVE OneFrame'
  <2>1. PICK n \in 0 .. Len(sent) : At(n) /\ Ended(n) /\ Handled(n)
    BY <1>0, <1>1, <1>14 DEF OneFrame
  <2>2. n \in 1 .. Len(sent) /\ state = "fin"
    BY <1>2, <2>1 DEF Ended
  <2>3. At(n)'
    <3>1. Consumed' = LengthOf(n)' /\ state' = "fin" /\ n \in 0 .. Len(sent')
      BY <1>1, <1>10, <1>12, <2>1, <2>2 DEF At
    <3> QED
      BY <3>1 DEF At
  <2>4. sent[n].opcode # CLOSE
    BY <1>1, <1>2, <2>1 DEF Ended
  <2>5. delivered' = Messages(n)
    <3>1. Concat = IF IsData(sent[n]) THEN sent[n].data ELSE <<>>
      BY <1>0, <1>1, <1>14, <2>1, <2>2, ConcatRightForOne
    <3>2. delivered = Messages(n - 1)
      BY <1>1, <2>1 DEF Handled
    <3>3. Messages(n) = IF IsData(sent[n]) /\ sent[n].data # <<>>
                        THEN Append(Messages(n - 1), sent[n].data) ELSE Messages(n - 1)
      BY <1>2, <2>2, MessagesRight
    <3> QED
      BY <1>1, <3>1, <3>2, <3>3
  <2>6. \A i \in 1 .. n : sent[i].opcode # CLOSE
    BY <2>1, <2>4 DEF Handled
  <2>7. Handled(n)'
    <3>1. pc' # "done" /\ delivered' = Messages(n)' /\ \A i \in 1 .. n : sent'[i].opcode # CLOSE
      BY <1>1, <1>3, <1>10, <2>5, <2>6
    <3> QED
      BY <3>1 DEF Handled
  <2>8. Len(chain') = 1 /\ cur' = 1 /\ pc' # "next" /\ pc' # "done" /\ n \in 0 .. Len(sent')
    BY <1>0, <1>1, <1>3, <1>5, <1>14 DEF OneFrame
  <2>9. Waiting'
    <3>1. pc' = "idle" => last' = Len(buf')
      <4>1. Len(<<>>) = 0
        OBVIOUS
      <4> QED
        BY <1>3, <4>1
    <3> QED
      BY <3>1 DEF Waiting
  <2> QED
    BY <2>3, <2>7, <2>8, <2>9 DEF OneFrame
<1> QED
  BY <1>6, <1>7, <1>8, <1>9, <1>10, <1>13, <1>14 DEF Ind, IInv

LEMMA StutterStep ==
    ASSUME Ind, UNCHANGED vars
    PROVE  Ind'
<1>0. TypeOK /\ KeyInv /\ EndInv /\ RoomInv /\ StreamInv /\ (Unfragmented => OneFrame)
  BY DEF Ind, IInv
<1>1. /\ sent' = sent /\ rest' = rest /\ buf' = buf /\ last' = last /\ state' = state
      /\ chain' = chain /\ cur' = cur /\ pc' = pc /\ delivered' = delivered /\ open' = open
      /\ overrun' = overrun
  BY DEF vars
<1>2. TypeOK'
  BY <1>0, <1>1 DEF TypeOK
<1>3. KeyInv' /\ EndInv' /\ RoomInv'
  BY <1>0, <1>1 DEF KeyInv, EndInv, RoomInv
<1>4. /\ StreamInv' /\ Consumed' = Consumed /\ Unfragmented' = Unfragmented
      /\ (\A n : LengthOf(n)' = LengthOf(n)) /\ (\A n : Messages(n)' = Messages(n))
  BY <1>0, <1>1, KeptRight DEF StreamKept
<1>5. ASSUME Unfragmented PROVE OneFrame'
  <2>1. PICK n \in 0 .. Len(sent) : At(n) /\ (pc = "done" => Ended(n)) /\ Handled(n)
    BY <1>0, <1>5 DEF OneFrame
  <2>2. At(n)'
    BY <1>1, <1>4, <2>1, AtSame
  <2>3. Handled(n)'
    BY <1>1, <1>4, <2>1 DEF Handled
  <2>4. (pc = "done" => Ended(n))'
    BY <1>1, <2>1 DEF Ended
  <2>5. Len(chain') = 1 /\ cur' = 1 /\ pc' # "next" /\ n \in 0 .. Len(sent')
    BY <1>0, <1>1, <1>5 DEF OneFrame
  <2>6. Needs' = Needs
    BY <1>1 DEF Needs
  <2>7. Waiting'
    BY <1>0, <1>1, <1>5, <2>6 DEF Waiting, OneFrame
  <2> QED
    BY <2>2, <2>3, <2>4, <2>5, <2>7 DEF OneFrame
<1> QED
  BY <1>2, <1>3, <1>4, <1>5 DEF Ind, IInv

LEMMA InitRight ==
    ASSUME FramesAssumption, Init
    PROVE  Ind
<1>1. /\ sent \in FrameSeqs /\ rest = All /\ buf = <<>> /\ last = 0 /\ state = "fin"
      /\ chain = <<NewFrame>> /\ cur = 1 /\ pc = "idle" /\ delivered = <<>> /\ open = TRUE
      /\ overrun = FALSE
  BY DEF Init, All
<1>2. NewFrame \in FrameType /\ Len(NewFrame.key) = 4
  <2>1. <<0, 0, 0, 0>> \in Seq(Bytes) /\ Len(<<0, 0, 0, 0>>) = 4
    BY DEF Bytes
  <2> QED
    BY <2>1 DEF NewFrame, FrameType
<1>3. All \in Seq(Bytes) /\ LengthOf(0) = 0
  BY <1>1, AllRight
<1>4. chain \in Seq(FrameType) /\ DOMAIN chain = {1} /\ Len(chain) = 1 /\ chain[1] = NewFrame
  <2> HIDE DEF NewFrame
  <2> QED
    BY <1>1, <1>2
<1>5. buf \in Seq(Bytes) /\ Len(buf) = 0
  BY <1>1
<1>6. delivered \in Seq(Seq(Bytes))
  <2> DEFINE S == Seq(Bytes)
  <2> HIDE DEF S
  <2>1. delivered \in Seq(S)
    BY <1>1
  <2> QED
    BY <2>1 DEF S
<1>7. TypeOK
  <2>1. state \in States
    BY <1>1 DEF States
  <2>2. last \in 0 .. Len(buf)
    BY <1>1, <1>5
  <2> QED
    BY <1>1, <1>3, <1>4, <1>5, <1>6, <2>1, <2>2 DEF TypeOK
<1>8. KeyInv /\ EndInv
  BY <1>1, <1>2, <1>4 DEF KeyInv, EndInv
<1>9. RoomInv
  <2>1. Len(buf) <= BufSize
    BY <1>5, FramesAssumption DEF FramesAssumption
  <2> QED
    BY <1>1, <2>1 DEF RoomInv
<1>10. Consumed = 0 /\ Len(All) \in Nat
  <2>1. Consumed = Len(All) - Len(rest) - (Len(buf) - last)
    BY DEF Consumed, All
  <2>2. Len(All) \in Nat
    BY <1>3
  <2> QED
    BY <1>1, <1>5, <2>1, <2>2
<1>11. StreamInv
  <2>1. \A k \in 1 .. Len(buf) - last : buf[last + k] = All[Consumed + k]
    BY <1>1, <1>5
  <2>2. \A k \in 1 .. Len(rest) : rest[k] = All[Len(All) - Len(rest) + k]
    BY <1>1, <1>10
  <2> QED
    BY <1>10, <2>1, <2>2 DEF StreamInv
<1>12. OneFrame
  <2>1. Len(sent) \in Nat /\ 0 \in 0 .. Len(sent)
    <3>1. Len(sent) \in Nat
      BY <1>7, ConsumedRight
    <3> QED
      BY <3>1
  <2>2. At(0)
    BY <1>1, <1>3, <1>10, <2>1 DEF At
  <2>3. Handled(0)
    <3>1. Messages(0) = <<>>
      BY <1>1, MessagesRight
    <3> QED
      BY <1>1, <3>1 DEF Handled
  <2>4. Waiting
    BY <1>1, <1>5 DEF Waiting
  <2> QED
    BY <1>1, <1>4, <2>1, <2>2, <2>3, <2>4 DEF OneFrame
<1> QED
  BY <1>7, <1>8, <1>9, <1>11, <1>12 DEF Ind, IInv

\* No step breaks the invariant.
LEMMA StepRight ==
    ASSUME FramesAssumption, Ind, [Next]_vars
    PROVE  Ind'
<1>1. CASE \E n \in 1 .. BufSize : ~ overrun /\ Recv(n)
  BY <1>1, RecvStep
<1>2. CASE Hangup
  BY <1>2, HangupStep
<1>3. CASE Handle
  <2>1. CASE ParseFin
    BY <2>1, ParseFinStep
  <2>2. CASE ParseMask
    BY <2>2, ParseMaskStep
  <2>3. CASE ParseExtended2
    BY <2>3, ParseExtended2Step
  <2>4. CASE ParseExtended8
    BY <2>4, ParseExtended8Step
  <2>5. CASE ParseKey
    BY <2>5, ParseKeyStep
  <2>6. CASE ParsePayload
    BY <2>6, ParsePayloadStep
  <2>7. CASE ParseAgain
    BY <2>7, ParseAgainStep
  <2>8. CASE NextFrame
    BY <2>8, NextFrameStep
  <2>9. CASE NextFrameNoMemory
    BY <2>9, NextFrameNoMemoryStep
  <2>10. CASE CloseFrame
    BY <2>10, CloseFrameStep
  <2>11. CASE DeliverMessage
    BY <2>11, DeliverMessageStep
  <2> QED
    BY <1>3, <2>1, <2>2, <2>3, <2>4, <2>5, <2>6, <2>7, <2>8, <2>9, <2>10, <2>11 DEF Handle
<1>4. CASE UNCHANGED vars
  BY <1>4, StutterStep
<1> QED
  BY <1>1, <1>2, <1>3, <1>4 DEF Next

\* Spec keeps the invariant.
THEOREM Invariance == Spec => []Ind
<1>1. Init => Ind
  BY FramesAssumption, InitRight
<1>2. Ind /\ [Next]_vars => Ind'
  BY FramesAssumption, StepRight
<1> QED
  BY <1>1, <1>2, PTL DEF Spec

-----------------------------------------------------------------------------
(* The properties.                                                         *)

\* The fields of the buffer, of the request and of its frames keep their types,
\* whatever the client sends and however recv() cuts it.
THEOREM TypeCorrect == Spec => []TypeOK
<1>1. Ind => TypeOK
  BY DEF Ind
<1> QED
  BY <1>1, Invariance, PTL

\* When stu_websocket_process_request makes a message, the payload that ended it was
\* received, and a message that came in one frame fits into temp.
THEOREM PayloadsReceived == Spec => []InBuffer
<1>1. ASSUME Ind PROVE InBuffer
  <2>0. TypeOK /\ EndInv /\ RoomInv /\ (Unfragmented => OneFrame)
    BY <1>1 DEF Ind, IInv
  <2>1. ASSUME pc = "done", ~ overrun
        PROVE  /\ chain[cur].end = last /\ last <= Len(buf)
               /\ Unfragmented => Len(Concat) <= BufSize
    <3>1. Len(buf) \in Nat /\ last \in 0 .. Len(buf) /\ Len(sent) \in Nat
      BY <2>0, FramesAssumption, ConsumedRight
    <3>2. Len(buf) <= BufSize /\ BufSize \in Nat
      <4>1. BufSize \in Nat
        BY FramesAssumption DEF FramesAssumption
      <4> QED
        BY <2>0, <2>1, <4>1 DEF RoomInv
    <3>3. ASSUME Unfragmented PROVE Len(Concat) <= BufSize
      <4> DEFINE c == chain[1]
      <4>1. PICK n \in 0 .. Len(sent) : Ended(n)
        BY <2>0, <2>1, <3>3 DEF OneFrame
      <4>2. n \in 1 .. Len(sent)
        BY <3>1, <4>1 DEF Ended
      <4>3. Concat = IF IsData(sent[n]) THEN sent[n].data ELSE <<>>
        BY <2>0, <2>1, <3>3, <4>1, <4>2, FramesAssumption, ConcatRightForOne
      <4>4. c.end = c.start + Len(sent[n].data) /\ c.end = last
        BY <2>0, <2>1, <3>3, <4>1 DEF Ended, EndInv, OneFrame
      <4>5. c.start \in Nat
        <5>1. c \in FrameType
          BY <2>0, FramesAssumption, ConsumedRight DEF TypeOK
        <5> QED
          BY <5>1 DEF FrameType
      <4>6. Len(sent[n].data) \in Nat
        <5>1. sent[n] \in SentFrame
          BY <2>0, <4>2, FramesAssumption, SentType DEF TypeOK
        <5> QED
          BY <5>1, SentFrameType DEF Bytes
      <4> DEFINE L == Len(sent[n].data)
                 s == c.start
      <4>7. L \in Nat /\ s \in Nat /\ last = s + L
        BY <4>4, <4>5, <4>6
      <4> HIDE DEF L, s
      <4>8. L <= BufSize /\ 0 <= BufSize
        BY <3>1, <3>2, <4>7
      <4>9. Len(<<>>) = 0
        OBVIOUS
      <4> QED
        BY <4>3, <4>8, <4>9 DEF L
    <3> QED
      BY <2>0, <2>1, <3>1, <3>3 DEF EndInv
  <2> QED
    BY <2>1 DEF InBuffer
<1> QED
  BY <1>1, Invariance, PTL

\* When the connection is idle and all of the client's bytes were received, what is
\* not parsed can only be the empty payload of its last frame.
LEMMA NothingLeft ==
    ASSUME FramesAssumption, Ind, OneFrame, pc = "idle", rest = <<>>, open,
           NEW n \in 0 .. Len(sent), At(n), n # Len(sent)
    PROVE  n + 1 = Len(sent) /\ sent[n + 1].data = <<>>
<1>0. TypeOK /\ StreamInv
  BY DEF Ind, IInv
<1> DEFINE N == Len(sent)
           f == sent[n + 1]
           left == Len(buf) - last
           A == Len(All)
           z == Len(Size(f))
           k == Len(f.key)
           d == Len(f.data)
           e == LengthOf(n + 1)
           o == LengthOf(n)
           x == Offset(f, state)
<1>1. /\ sent \in FrameSeqs /\ N \in Nat /\ A \in Nat /\ Len(buf) \in Nat /\ last \in 0 .. Len(buf)
      /\ Consumed = A - left
  <2>1. Len(rest) = 0
    OBVIOUS
  <2>2. Consumed = A - Len(rest) - left /\ A \in Nat /\ Len(buf) \in Nat /\ last \in 0 .. Len(buf)
        /\ sent \in FrameSeqs /\ N \in Nat
    BY <1>0, ConsumedRight
  <2> HIDE DEF A, left
  <2>3. A - Len(rest) = A
    BY <2>1, <2>2
  <2> QED
    BY <2>2, <2>3
<1>2. n \in 0 .. N - 1
  BY <1>1
<1>3. /\ o \in Nat /\ e = o + Len(Encode(f)) /\ e <= A /\ f \in SentFrame
  BY <1>1, <1>2, LengthRight
<1>4. Len(Encode(f)) = 1 + z + k + d /\ f.form \in {7, 16, 64} /\ k \in {0, 4} /\ d \in Nat
      /\ (f.key = <<>> <=> k = 0) /\ (f.data = <<>> <=> d = 0)
  <2>1. Len(Encode(f)) = 1 + z + k + d
    BY <1>3, EncodeRight
  <2>2. f.form \in {7, 16, 64} /\ k \in {0, 4} /\ (f.key = <<>> <=> k = 0) /\ (f.data = <<>> <=> d = 0)
    BY <1>3, SentFrameType
  <2>3. d \in Bytes
    BY <1>3, SentFrameType
  <2>4. d \in Nat
    <3> HIDE DEF d
    <3> QED
      BY <2>3 DEF Bytes
  <2> QED
    BY <2>1, <2>2, <2>4
<1>5. z \in Nat /\ z >= 1 /\ (f.form = 16 => z = 3) /\ (f.form = 64 => z = 9)
  BY SMTT(40), <1>3, <1>4, SizeRight
<1>6. Consumed = o + x
  <2>1. CASE state = "fin"
    BY <1>3, <2>1 DEF At, Offset
  <2>2. CASE state # "fin"
    BY <2>2 DEF At
  <2> QED
    BY <2>1, <2>2
<1>7. state # "fin" => Parsed(f, chain[1], state)
  BY DEF At
<1>8. last = Len(buf) \/ left < Needs
  BY DEF OneFrame, Waiting
<1>9. cur = 1 /\ state \in States
  BY <1>0 DEF OneFrame, TypeOK
<1>10. /\ x = IF state = "fin" THEN 0 ELSE
              IF state = "mask" THEN 1 ELSE
              IF state \in {"extended_2", "extended_8"} THEN 2 ELSE
              IF state = "masking_key" THEN 1 + z ELSE 1 + z + k
       /\ state = "extended_2" => z = 3
       /\ state = "extended_8" => z = 9
       /\ state = "masking_key" => k = 4
       /\ state \notin {"extended_2", "extended_8", "masking_key", "payload_data"} => Needs = 1
       /\ state = "extended_2" => Needs = 2
       /\ state = "extended_8" => Needs = 8
       /\ state = "masking_key" => Needs = 4
       /\ state = "payload_data" => Needs = d
  <2>1. x = IF state = "fin" THEN 0 ELSE
            IF state = "mask" THEN 1 ELSE
            IF state \in {"extended_2", "extended_8"} THEN 2 ELSE
            IF state = "masking_key" THEN 1 + z ELSE 1 + z + k
    BY DEF Offset
  <2>2. /\ state = "extended_2" => f.form = 16
        /\ state = "extended_8" => f.form = 64
        /\ state = "masking_key" => f.key # <<>>
        /\ state = "payload_data" => chain[1].extended = d
    BY <1>7 DEF Parsed
  <2>3. /\ state \notin {"extended_2", "extended_8", "masking_key", "payload_data"} => Needs = 1
        /\ state = "extended_2" => Needs = 2
        /\ state = "extended_8" => Needs = 8
        /\ state = "masking_key" => Needs = 4
        /\ state = "payload_data" => Needs = chain[1].extended
    BY <1>9 DEF Needs, States
  <2> HIDE DEF x, f, z, k, d
  <2> QED
    BY <1>4, <1>5, <2>1, <2>2, <2>3
<1>11. left >= e - o - x /\ (last = Len(buf) <=> left = 0) /\ (state = "payload_data" => left = A - e + d)
       /\ left \in Nat
  <2> DEFINE B == Len(buf)
  <2>1. left = B - last /\ B \in Nat /\ last \in 0 .. B
    BY <1>1
  <2>2. left \in Nat /\ (last = B <=> left = 0)
    <3> HIDE DEF B
    <3>1. B - last \in Nat /\ (last = B <=> B - last = 0)
      BY <2>1
    <3> QED
      BY <2>1, <3>1
  <2>3. left = A - o - x /\ e <= A /\ e = o + (1 + z + k + d) /\ (state = "payload_data" => x = 1 + z + k)
        /\ x \in Nat
    <3> HIDE DEF left, A, o, x, e, f, z, k, d, B
    <3>1. x \in Nat
      BY <1>4, <1>5, <1>10
    <3>2. e = o + (1 + z + k + d)
      BY <1>3, <1>4
    <3>3. left = A - o - x
      BY <1>1, <1>3, <1>6, <2>2, <3>1
    <3>4. state = "payload_data" => x = 1 + z + k
      BY <1>10
    <3> QED
      BY <1>3, <3>1, <3>2, <3>3, <3>4
  <2> HIDE DEF left, A, o, x, e, f, z, k, d, B
  <2>4. left >= e - o - x
    BY <1>1, <1>3, <1>4, <1>5, <2>2, <2>3
  <2>5. state = "payload_data" => left = A - e + d
    BY <1>1, <1>3, <1>4, <1>5, <2>2, <2>3
  <2> QED
    BY <2>2, <2>4, <2>5 DEF B
<1> HIDE DEF left, A, o, x, e, f, z, k, d, N
<1>12. state = "payload_data"
  <2>1. e - o = 1 + z + k + d
    BY <1>3, <1>4
  <2>2. CASE state = "fin"
    BY <1>4, <1>5, <1>8, <1>10, <1>11, <2>1, <2>2
  <2>3. CASE state = "mask"
    BY <1>4, <1>5, <1>8, <1>10, <1>11, <2>1, <2>3
  <2>4. CASE state = "extended_2"
    BY <1>4, <1>5, <1>8, <1>10, <1>11, <2>1, <2>4
  <2>5. CASE state = "extended_8"
    BY <1>4, <1>5, <1>8, <1>10, <1>11, <2>1, <2>5
  <2>6. CASE state = "masking_key"
    BY <1>4, <1>5, <1>8, <1>10, <1>11, <2>1, <2>6
  <2> QED
    BY <1>9, <2>2, <2>3, <2>4, <2>5, <2>6 DEF States
<1>13. d = 0 /\ A = e
  BY <1>1, <1>3, <1>4, <1>5, <1>8, <1>10, <1>11, <1>12
<1>14. n + 1 = N
  <2> SUFFICES ASSUME n + 1 # N PROVE FALSE
    OBVIOUS
  <2>1. n + 1 \in 0 .. N - 1
    BY <1>1, <1>2
  <2>2. LengthOf(n + 1) + 2 <= LengthOf((n + 1) + 1) /\ LengthOf((n + 1) + 1) <= A
        /\ LengthOf((n + 1) + 1) = LengthOf(n + 1) + Len(Encode(sent[(n + 1) + 1]))
        /\ LengthOf(n + 1) \in Nat
    BY <1>1, <2>1, LengthRight DEF A, N
  <2>3. (n + 1) + 1 \in 0 .. N
    BY <1>1, <2>1
  <2>4. LengthOf((n + 1) + 1) \in Nat
    BY <1>1, <2>3, AllRight DEF N
  <2> QED
    BY <1>1, <1>13, <2>2, <2>4 DEF e
<1> QED
  BY <1>4, <1>13, <1>14 DEF N, f

\* The messages before a close frame are those before and with it.
LEMMA ExpectedRight ==
    ASSUME FramesAssumption, sent \in FrameSeqs, NEW n \in 0 .. Len(sent),
           \A i \in 1 .. n : sent[i].opcode = CLOSE => i = n
    PROVE  IsPrefix(Messages(n), Expected)
<1> DEFINE N == Len(sent)
           B == BeforeClose
<1>1. N \in Nat /\ B \in 0 .. N /\ (B # 0 => sent[B].opcode = CLOSE)
  BY SentType, BeforeCloseRight
<1>2. Expected = Messages(IF B = 0 THEN N ELSE B - 1)
  BY DEF Expected
<1> HIDE DEF B, N
<1>3. CASE B = 0
  <2>1. N \in 0 .. N /\ n \in 0 .. N
    BY <1>1 DEF N
  <2> QED
    BY <1>2, <1>3, <2>1, MessagesRight DEF N
<1>4. CASE B # 0 /\ n < B
  <2>1. B - 1 \in 0 .. N /\ n \in 0 .. B - 1
    BY <1>1, <1>4 DEF N
  <2> QED
    BY <1>2, <1>4, <2>1, MessagesRight DEF N
<1>5. CASE B # 0 /\ ~ n < B
  <2>1. B \in 1 .. n /\ n \in 0 .. N
    BY <1>1, <1>5 DEF N
  <2>2. B = n
    BY <1>1, <1>5, <2>1
  <2>3. n \in 1 .. N /\ n - 1 \in 0 .. N /\ n - 1 \in 0 .. n - 1
    BY <1>1, <2>1
  <2>4. ~ IsData(sent[n])
    BY <1>1, <1>5, <2>2 DEF IsData, CLOSE, TEXT, BINARY
  <2>5. Messages(n) = Messages(n - 1)
    BY <2>3, <2>4, MessagesRight DEF N
  <2>6. IsPrefix(Messages(n - 1), Messages(n - 1))
    BY <2>3, MessagesRight DEF N
  <2> QED
    BY <1>2, <1>5, <2>2, <2>5, <2>6
<1> QED
  BY <1>3, <1>4, <1>5

\* However recv() cuts what a client sends in frames of one message each, the parser
\* begins where a frame begins, the messages that are handled are those that were sent,
\* in order, and none is missing when all bytes were received.
THEOREM MessagesHandledAsSent == Spec => []HandledAsSent
<1>1. ASSUME Ind PROVE HandledAsSent
  <2>0. TypeOK /\ (Unfragmented => OneFrame)
    BY <1>1 DEF Ind, IInv
  <2>1. sent \in FrameSeqs /\ Len(sent) \in Nat
    BY <2>0, FramesAssumption, ConsumedRight
  <2>2. ASSUME Unfragmented
        PROVE  /\ state = "fin" => \E n \in 0 .. Len(sent) : Consumed = LengthOf(n)
               /\ IsPrefix(delivered, Expected)
               /\ pc = "idle" /\ rest = <<>> /\ open =>
                     /\ delivered = Expected
                     /\ BeforeClose \in {0, Len(sent)}
                     /\ BeforeClose # 0 => sent[Len(sent)].data = <<>>
    <3>0. OneFrame
      BY <2>0, <2>2
    <3>1. PICK n \in 0 .. Len(sent) : At(n) /\ (pc = "done" => Ended(n)) /\ Handled(n)
      BY <3>0 DEF OneFrame
    <3>2. state = "fin" => Consumed = LengthOf(n)
      BY <3>1 DEF At
    <3>3. /\ delivered = Messages(IF pc = "done" THEN n - 1 ELSE n)
          /\ \A i \in 1 .. n : sent[i].opcode = CLOSE => i = n /\ (pc = "done" \/ ~ open)
      BY <3>1 DEF Handled
    <3>4. IsPrefix(delivered, Expected)
      <4>1. CASE pc = "done"
        <5>1. n > 0
          BY <3>1, <4>1 DEF Ended
        <5>2. n - 1 \in 0 .. Len(sent) /\ \A i \in 1 .. n - 1 : i \in 1 .. n /\ i # n
          BY <2>1, <5>1
        <5>3. \A i \in 1 .. n - 1 : sent[i].opcode = CLOSE => i = n - 1
          BY <3>3, <5>2
        <5>4. IsPrefix(Messages(n - 1), Expected)
          BY <2>1, <5>2, <5>3, FramesAssumption, ExpectedRight
        <5> QED
          BY <3>3, <4>1, <5>4
      <4>2. CASE pc # "done"
        <5>1. \A i \in 1 .. n : sent[i].opcode = CLOSE => i = n
          BY <3>3
        <5>2. IsPrefix(Messages(n), Expected)
          BY <2>1, <5>1, FramesAssumption, ExpectedRight
        <5> QED
          BY <3>3, <4>2, <5>2
      <4> QED
        BY <4>1, <4>2
    <3>5. ASSUME pc = "idle", rest = <<>>, open
          PROVE  /\ delivered = Expected
                 /\ BeforeClose \in {0, Len(sent)}
                 /\ BeforeClose # 0 => sent[Len(sent)].data = <<>>
      <4> DEFINE N == Len(sent)
                 B == BeforeClose
      <4>1. /\ N \in Nat /\ B \in 0 .. N /\ (B # 0 => sent[B].opcode = CLOSE)
            /\ Expected = Messages(IF B = 0 THEN N ELSE B - 1)
        BY <2>1, FramesAssumption, BeforeCloseRight DEF Expected
      <4>2. delivered = Messages(n) /\ \A i \in 1 .. n : sent[i].opcode # CLOSE
        BY <3>3, <3>5
      <4>3. n # N => n + 1 = N /\ sent[n + 1].data = <<>>
        BY <1>1, <3>0, <3>1, <3>5, FramesAssumption, NothingLeft
      <4>4. n \in 0 .. N
        OBVIOUS
      <4>5. n # N => Messages(N) = Messages(n)
        <5>1. ASSUME n # N PROVE Messages(N) = Messages(n)
          <6>1. N \in 1 .. N /\ N - 1 = n /\ sent[N].data = <<>>
            <7> HIDE DEF N
            <7> QED
              BY <4>1, <4>3, <4>4, <5>1
          <6>2. Messages(N) = Messages(N - 1)
            BY <2>1, <6>1, FramesAssumption, MessagesRight
          <6> QED
            BY <6>1, <6>2
        <5> QED
          BY <5>1
      <4> HIDE DEF N, B
      <4>6. B = 0 \/ (B = N /\ n # N)
        <5>1. B \notin 1 .. n \/ B = 0
          BY <4>1, <4>2
        <5>2. B \in Nat /\ B <= N /\ n \in Nat /\ n <= N /\ N \in Nat
          BY <4>1, <4>4
        <5>3. n # N => n + 1 = N
          BY <4>3
        <5>4. B = 0 \/ B > n
          BY <5>1, <5>2
        <5> QED
          BY <5>2, <5>3, <5>4
      <4>7. CASE B = 0
        <5>1. delivered = Messages(N)
          BY <4>2, <4>5
        <5> QED
          BY <4>1, <4>7, <5>1 DEF B
      <4>8. CASE B = N /\ n # N
        <5>1. B # 0 /\ B - 1 = n /\ sent[N].data = <<>>
          BY <4>1, <4>3, <4>4, <4>8
        <5> QED
          BY <4>1, <4>2, <4>8, <5>1 DEF B, N
      <4> QED
        BY <4>6, <4>7, <4>8
    <3> QED
      BY <3>2, <3>4, <3>5
  <2> QED
    BY <2>2 DEF HandledAsSent, Aligned, InOrder, Complete
<1> QED
  BY <1>1, Invariance, PTL

=============================================================================
