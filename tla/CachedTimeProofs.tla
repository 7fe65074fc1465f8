-------------------------- MODULE CachedTimeProofs --------------------------
(***************************************************************************)
(* Proofs about CachedTime, for any number of threads and of slots: the    *)
(* text that is published is complete, the time does not go back, and a    *)
(* line of the log is of one piece unless its writer slept too long.       *)
(***************************************************************************)
EXTENDS CachedTime, TLAPS

-----------------------------------------------------------------------------
(* The inductive invariant.                                                *)

Since == [at : Nat, from : Indices, of : Nat]

\* The types that TypeOK does not name.
MoreTypes ==
    /\ sec \in [Threads -> Nat]
    /\ copy \in [Threads -> Nat \X Nat]
    /\ since \in [Threads -> Since]

\* The thread that updates is one slot ahead of the one that is published, and later.
UpdateInv ==
    /\ secs[slot] <= now
    /\ (\A t \in Threads : pc[t] \notin {"first", "second", "publish"}) => slot = cur
    /\ \A t \in Threads :
          /\ pc[t] = "advance" => secs[slot] < sec[t] /\ sec[t] <= now
          /\ pc[t] \in {"first", "second", "publish"} =>
                /\ slot = NextSlot(cur)
                /\ secs[slot] = sec[t] /\ secs[cur] < sec[t]
          /\ pc[t] = "second" => text[slot][1] = sec[t]
          /\ pc[t] = "publish" => text[slot] = <<sec[t], sec[t]>>

\* How far the ring has gone on from a slot.
Ahead(f) == IF slot >= f THEN slot - f ELSE slot - f + Slots

Reads(t) == pc[t] \in {"copy", "copying", "logged"}

\* The one before the last second in which the slot of t may be written again.
InTime(t) == now - since[t].at < Slots - 2

\* The ring goes on by one slot for the update that was under way when t read the
\* pointer, and for each second since then by one more.
RingInv ==
    \A t \in Threads : Reads(t) =>
        /\ since[t].at <= now
        /\ InTime(t) =>
              /\ Ahead(since[t].from) <= 1 \/ Ahead(since[t].from) <= secs[slot] + 2 - since[t].at
              /\ \A o \in Threads :
                    /\ pc[o] = "advance" /\ Ahead(since[t].from) >= 1 => sec[o] >= since[t].at
                    /\ pc[o] \in {"first", "second", "publish"} => Ahead(since[t].from) >= 1

\* What t copies from is not written.
CopyInv ==
    \A t \in Threads : Reads(t) /\ InTime(t) =>
        /\ text[since[t].from] = <<since[t].of, since[t].of>>
        /\ pc[t] = "copying" => copy[t][1] = since[t].of
        /\ pc[t] = "logged" => copy[t] = <<since[t].of, since[t].of>>

IInv == MoreTypes /\ UpdateInv /\ RingInv /\ CopyInv /\ Published
Ind == TypeOK /\ IInv

-----------------------------------------------------------------------------
(* The ring.                                                               *)

\* NextSlot is one further on, and another one.
LEMMA NextSlotAhead ==
    ASSUME SlotsAssumption, NEW s \in Indices
    PROVE  NextSlot(s) \in Indices /\ NextSlot(s) # s
BY DEF SlotsAssumption, Indices, NextSlot

\* Ahead counts the slots from one on to the current one.
LEMMA AheadType ==
    ASSUME SlotsAssumption, slot \in Indices, NEW f \in Indices
    PROVE  /\ Ahead(f) \in Nat /\ Ahead(f) < Slots
           /\ Ahead(f) = 0 <=> slot = f
BY DEF SlotsAssumption, Indices, Ahead

\* It goes up by one, unless the ring comes round to f.
LEMMA AheadAdvances ==
    ASSUME SlotsAssumption, slot \in Indices, slot' = NextSlot(slot),
           NEW f \in Indices, Ahead(f) < Slots - 1
    PROVE  Ahead(f)' = Ahead(f) + 1
BY DEF SlotsAssumption, Indices, Ahead, NextSlot

\* One thread at a time updates.
LEMMA OneUpdates ==
    ASSUME TypeOK, NEW t \in Threads, NEW o \in Threads,
           pc[t] \in {"advance", "first", "second", "publish"},
           pc[o] \in {"advance", "first", "second", "publish"}
    PROVE  t = o
BY DEF TypeOK

-----------------------------------------------------------------------------
(* Each action keeps the types and the invariant.                          *)

LEMMA TickStep ==
    ASSUME SlotsAssumption, FreeAssumption, Ind, Tick
    PROVE  Ind'
<1> USE DEF Ind, IInv, Tick
<1>1. TypeOK' /\ MoreTypes' /\ Published'
  BY DEF TypeOK, MoreTypes, Published
<1>2. UpdateInv'
  <2>1. now \in Nat /\ now' = now + 1 /\ sec \in [Threads -> Nat] /\ secs[slot] \in Nat
    BY DEF TypeOK, MoreTypes
  <2> QED
    BY <2>1 DEF UpdateInv
<1>3. \A t \in Threads : InTime(t)' => InTime(t)
  <2>1. \A t \in Threads : since[t].at \in Nat
    BY DEF MoreTypes, Since
  <2> QED
    BY <2>1 DEF InTime, TypeOK, SlotsAssumption
<1>4. RingInv'
  <2>1. \A t \in Threads : since[t].at \in Nat
    BY DEF MoreTypes, Since
  <2>2. \A t \in Threads : since[t].at <= now => since[t].at <= now'
    BY <2>1 DEF TypeOK
  <2> QED
    BY <1>3, <2>2 DEF RingInv, Reads, Ahead
<1>5. CopyInv'
  BY <1>3 DEF CopyInv, Reads
<1> QED
  BY <1>1, <1>2, <1>4, <1>5

LEMMA UpdateStep ==
    ASSUME SlotsAssumption, FreeAssumption, Ind, NEW t \in Threads, Update(t)
    PROVE  Ind'
<1> USE DEF Ind, IInv
<1>1. CASE UNCHANGED vars
  BY <1>1 DEF vars, TypeOK, MoreTypes, Published, UpdateInv, RingInv, CopyInv, Reads, InTime, Ahead
<1>2. CASE secs[slot] # now
  <2>1. /\ pc[t] = "idle" /\ lock = Free /\ lock' = t
        /\ sec' = [sec EXCEPT ![t] = now] /\ pc' = [pc EXCEPT ![t] = "advance"]
        /\ UNCHANGED <<now, slot, secs, text, cur, copy, since>>
    BY <1>2 DEF Update, TryLock, TimeRead, Goto
  <2>2. \A o \in Threads : pc[o] \notin {"advance", "first", "second", "publish"}
    BY <2>1 DEF TypeOK, FreeAssumption
  <2>3. /\ pc'[t] = "advance" /\ sec'[t] = now
        /\ \A o \in Threads \ {t} : pc'[o] = pc[o] /\ sec'[o] = sec[o]
        /\ slot = cur
    BY <2>1, <2>2 DEF TypeOK, MoreTypes, UpdateInv
  <2>4. TypeOK'
    BY <2>1, <2>2, <2>3 DEF TypeOK
  <2>5. MoreTypes' /\ Published'
    BY <2>1 DEF TypeOK, MoreTypes, Published
  <2>6. UpdateInv'
    <3>1. secs[slot] < now
      <4>1. secs[slot] \in Nat /\ now \in Nat /\ secs[slot] <= now
        BY DEF UpdateInv, TypeOK
      <4> QED
        BY <1>2, <4>1
    <3> QED
      BY <2>1, <2>2, <2>3, <3>1 DEF UpdateInv, TypeOK
  <2>7. \A u \in Threads : (Reads(u)' <=> Reads(u)) /\ (InTime(u)' <=> InTime(u))
    BY <2>1, <2>3 DEF Reads, InTime
  <2>8. RingInv'
    BY <2>1, <2>2, <2>3, <2>7 DEF RingInv, Ahead
  <2>9. CopyInv'
    BY <2>1, <2>3, <2>7 DEF CopyInv, Reads
  <2> QED
    BY <2>4, <2>5, <2>6, <2>8, <2>9
<1> QED
  BY <1>1, <1>2 DEF Update, TimeRead, vars

LEMMA AdvanceStep ==
    ASSUME SlotsAssumption, FreeAssumption, Ind, NEW t \in Threads, Advance(t)
    PROVE  Ind'
<1> USE DEF Ind, IInv
<1>1. /\ pc[t] = "advance" /\ slot' = NextSlot(slot)
      /\ secs' = [secs EXCEPT ![slot'] = sec[t]] /\ pc' = [pc EXCEPT ![t] = "first"]
      /\ UNCHANGED <<now, lock, text, cur, sec, copy, since>>
  BY DEF Advance, Goto
<1>2. slot \in Indices /\ slot' \in Indices /\ slot' # slot /\ now \in Nat /\ sec[t] \in Nat
  BY <1>1, NextSlotAhead DEF TypeOK, MoreTypes
<1>3. /\ secs' \in [Indices -> Nat] /\ secs'[slot'] = sec[t] /\ \A i \in Indices \ {slot'} : secs'[i] = secs[i]
      /\ pc'[t] = "first" /\ \A o \in Threads \ {t} : pc'[o] = pc[o]
  BY <1>1, <1>2 DEF TypeOK
<1>4. slot = cur /\ secs[slot] < sec[t] /\ sec[t] <= now /\ secs[slot] \in Nat
  <2>1. \A o \in Threads : pc[o] \notin {"first", "second", "publish"}
    BY <1>1, OneUpdates
  <2> QED
    BY <1>1, <1>2, <2>1 DEF UpdateInv, TypeOK
<1>5. \A o \in Threads \ {t} : pc[o] \notin {"advance", "first", "second", "publish"}
  BY <1>1, OneUpdates
<1>6. TypeOK'
  BY <1>1, <1>2, <1>3 DEF TypeOK
<1>7. MoreTypes'
  BY <1>1 DEF MoreTypes
<1>8. Published'
  BY <1>1, <1>2, <1>3, <1>4 DEF Published, TypeOK
<1>9. UpdateInv'
  BY <1>1, <1>2, <1>3, <1>4, <1>5 DEF UpdateInv
<1>10. \A u \in Threads : (Reads(u)' <=> Reads(u)) /\ (InTime(u)' <=> InTime(u))
  BY <1>1, <1>3 DEF Reads, InTime
<1>11. ASSUME NEW u \in Threads, Reads(u), InTime(u)
       PROVE  /\ Ahead(since[u].from)' >= 1
              /\ \/ Ahead(since[u].from)' <= 1
                 \/ Ahead(since[u].from)' <= sec[t] + 2 - since[u].at
  <2> DEFINE f == since[u].from
             a == since[u].at
  <2>1. f \in Indices /\ a \in Nat /\ a <= now /\ now - a < Slots - 2 /\ Slots \in Nat
    BY <1>11 DEF MoreTypes, Since, RingInv, InTime, SlotsAssumption
  <2>2. Ahead(f) \in Nat /\ Ahead(f) < Slots
    BY <1>2, <2>1, AheadType
  <2>3. /\ Ahead(f) <= 1 \/ Ahead(f) <= secs[slot] + 2 - a
        /\ Ahead(f) >= 1 => sec[t] >= a
    BY <1>1, <1>11 DEF RingInv
  <2> HIDE DEF f, a
  <2>4. Ahead(f) < Slots - 1
    BY <1>2, <1>4, <2>1, <2>2, <2>3
  <2>5. Ahead(f)' = Ahead(f) + 1
    BY <1>1, <1>2, <2>1, <2>4, AheadAdvances DEF f
  <2>6. Ahead(f) + 1 <= 1 \/ Ahead(f) + 1 <= sec[t] + 2 - a
    BY <1>2, <1>4, <2>1, <2>2, <2>3
  <2>7. Ahead(f) + 1 >= 1
    BY <2>2
  <2>8. Ahead(f)' = Ahead(since[u].from)'
    BY <1>1 DEF f
  <2> QED
    BY <1>1, <2>5, <2>6, <2>7, <2>8 DEF f, a
<1>12. RingInv'
  BY <1>1, <1>3, <1>5, <1>10, <1>11 DEF RingInv
<1>13. CopyInv'
  BY <1>1, <1>3, <1>10 DEF CopyInv, Reads
<1> QED
  BY <1>6, <1>7, <1>8, <1>9, <1>12, <1>13

\* While a thread writes, no reader in time copies from its slot.
LEMMA NotWritten ==
    ASSUME SlotsAssumption, Ind, NEW t \in Threads, pc[t] \in {"first", "second"},
           NEW u \in Threads, Reads(u), InTime(u)
    PROVE  since[u].from \in Indices \ {slot}
<1>1. since[u].from \in Indices /\ slot \in Indices
  BY DEF Ind, IInv, TypeOK, MoreTypes, Since
<1>2. Ahead(since[u].from) >= 1
  BY DEF Ind, IInv, RingInv
<1> QED
  BY <1>1, <1>2, AheadType

LEMMA WriteFirstStep ==
    ASSUME SlotsAssumption, FreeAssumption, Ind, NEW t \in Threads, WriteFirst(t)
    PROVE  Ind'
<1> USE DEF Ind, IInv
<1>1. /\ pc[t] = "first" /\ pc' = [pc EXCEPT ![t] = "second"]
      /\ text' = [text EXCEPT ![slot][1] = sec[t]]
      /\ UNCHANGED <<now, lock, slot, secs, cur, sec, copy, since>>
  BY DEF WriteFirst, Write, TargetSlot, Goto
<1>2. slot \in Indices /\ cur \in Indices /\ sec[t] \in Nat /\ slot # cur
  BY <1>1, NextSlotAhead DEF TypeOK, MoreTypes, UpdateInv
<1>3. /\ text' \in [Indices -> Nat \X Nat] /\ text'[slot][1] = sec[t]
      /\ \A i \in Indices \ {slot} : text'[i] = text[i]
  BY <1>1, <1>2 DEF TypeOK
<1>4. pc'[t] = "second" /\ \A o \in Threads \ {t} : pc'[o] = pc[o]
  BY <1>1 DEF TypeOK
<1>5. \A o \in Threads \ {t} : pc[o] \notin {"advance", "first", "second", "publish"}
  BY <1>1, OneUpdates
<1>6. TypeOK'
  BY <1>1, <1>3, <1>4 DEF TypeOK
<1>7. MoreTypes'
  BY <1>1 DEF MoreTypes
<1>8. Published'
  BY <1>1, <1>2, <1>3 DEF Published
<1>9. UpdateInv'
  BY <1>1, <1>3, <1>4, <1>5 DEF UpdateInv
<1>10. \A u \in Threads : (Reads(u)' <=> Reads(u)) /\ (InTime(u)' <=> InTime(u))
  BY <1>1, <1>4 DEF Reads, InTime
<1>11. RingInv'
  BY <1>1, <1>4, <1>5, <1>10 DEF RingInv, Ahead
<1>12. CopyInv'
  <2>1. \A u \in Threads : Reads(u) /\ InTime(u) => text'[since[u].from] = text[since[u].from]
    BY <1>1, <1>3, NotWritten
  <2> QED
    BY <1>1, <1>4, <1>10, <2>1 DEF CopyInv, Reads
<1> QED
  BY <1>6, <1>7, <1>8, <1>9, <1>11, <1>12

LEMMA WriteSecondStep ==
    ASSUME SlotsAssumption, FreeAssumption, Ind, NEW t \in Threads, WriteSecond(t)
    PROVE  Ind'
<1> USE DEF Ind, IInv
<1>1. /\ pc[t] = "second" /\ pc' = [pc EXCEPT ![t] = "publish"]
      /\ text' = [text EXCEPT ![slot][2] = sec[t]]
      /\ UNCHANGED <<now, lock, slot, secs, cur, sec, copy, since>>
  BY DEF WriteSecond, Write, TargetSlot, Goto
<1>2. slot \in Indices /\ cur \in Indices /\ sec[t] \in Nat /\ slot # cur /\ text[slot][1] = sec[t]
  BY <1>1, NextSlotAhead DEF TypeOK, MoreTypes, UpdateInv
<1>3. /\ text' \in [Indices -> Nat \X Nat] /\ text'[slot] = <<sec[t], sec[t]>>
      /\ \A i \in Indices \ {slot} : text'[i] = text[i]
  BY <1>1, <1>2 DEF TypeOK
<1>4. pc'[t] = "publish" /\ \A o \in Threads \ {t} : pc'[o] = pc[o]
  BY <1>1 DEF TypeOK
<1>5. \A o \in Threads \ {t} : pc[o] \notin {"advance", "first", "second", "publish"}
  BY <1>1, OneUpdates
<1>6. TypeOK'
  BY <1>1, <1>3, <1>4 DEF TypeOK
<1>7. MoreTypes'
  BY <1>1 DEF MoreTypes
<1>8. Published'
  BY <1>1, <1>2, <1>3 DEF Published
<1>9. UpdateInv'
  BY <1>1, <1>3, <1>4, <1>5 DEF UpdateInv
<1>10. \A u \in Threads : (Reads(u)' <=> Reads(u)) /\ (InTime(u)' <=> InTime(u))
  BY <1>1, <1>4 DEF Reads, InTime
<1>11. RingInv'
  BY <1>1, <1>4, <1>5, <1>10 DEF RingInv, Ahead
<1>12. CopyInv'
  <2>1. \A u \in Threads : Reads(u) /\ InTime(u) => text'[since[u].from] = text[since[u].from]
    BY <1>1, <1>3, NotWritten
  <2> QED
    BY <1>1, <1>4, <1>10, <2>1 DEF CopyInv, Reads
<1> QED
  BY <1>6, <1>7, <1>8, <1>9, <1>11, <1>12

LEMMA PublishStep ==
    ASSUME SlotsAssumption, FreeAssumption, Ind, NEW t \in Threads, Publish(t)
    PROVE  Ind' /\ Forward
<1> USE DEF Ind, IInv
<1>1. /\ pc[t] = "publish" /\ pc' = [pc EXCEPT ![t] = "idle"] /\ cur' = slot /\ lock' = Free
      /\ UNCHANGED <<now, slot, secs, text, sec, copy, since>>
  BY DEF Publish, Goto
<1>2. /\ text[slot] = <<secs[slot], secs[slot]>> /\ secs[cur] < secs[slot]
      /\ slot \in Indices /\ cur \in Indices
  BY <1>1 DEF UpdateInv, TypeOK
<1>3. pc'[t] = "idle" /\ \A o \in Threads \ {t} : pc'[o] = pc[o]
  BY <1>1 DEF TypeOK
<1>4. \A o \in Threads \ {t} : pc[o] \notin {"advance", "first", "second", "publish"}
  BY <1>1, OneUpdates
<1>5. TypeOK'
  BY <1>1, <1>3, <1>4 DEF TypeOK, FreeAssumption
<1>6. MoreTypes'
  BY <1>1 DEF MoreTypes
<1>7. Published'
  BY <1>1, <1>2 DEF Published
<1>8. UpdateInv'
  BY <1>1, <1>3, <1>4 DEF UpdateInv
<1>9. \A u \in Threads : (Reads(u)' => Reads(u)) /\ (InTime(u)' <=> InTime(u))
  BY <1>1, <1>3 DEF Reads, InTime
<1>10. RingInv'
  BY <1>1, <1>3, <1>4, <1>9 DEF RingInv, Ahead
<1>11. CopyInv'
  BY <1>1, <1>3, <1>9 DEF CopyInv, Reads
<1>12. Forward
  BY <1>1, <1>2 DEF Forward, TypeOK
<1> QED
  BY <1>5, <1>6, <1>7, <1>8, <1>10, <1>11, <1>12

LEMMA LogStep ==
    ASSUME SlotsAssumption, FreeAssumption, Ind, NEW t \in Threads, Log(t)
    PROVE  Ind'
<1> USE DEF Ind, IInv
<1> DEFINE new == [at |-> now, from |-> cur, of |-> secs[cur]]
<1>1. /\ pc[t] = "idle" /\ pc' = [pc EXCEPT ![t] = "copy"]
      /\ since' = [since EXCEPT ![t] = new]
      /\ UNCHANGED <<now, lock, slot, secs, text, cur, sec, copy>>
  BY DEF Log, Goto
<1>2. /\ new \in Since /\ new.at = now /\ new.from = cur /\ new.of = secs[cur]
      /\ now \in Nat /\ cur \in Indices /\ slot \in Indices
  BY DEF TypeOK, Since
<1> HIDE DEF new
<1>3. /\ pc'[t] = "copy" /\ \A o \in Threads \ {t} : pc'[o] = pc[o]
      /\ since'[t] = new /\ \A o \in Threads \ {t} : since'[o] = since[o]
      /\ since' \in [Threads -> Since]
  BY <1>1, <1>2 DEF TypeOK, MoreTypes
<1>4. TypeOK'
  BY <1>1, <1>3 DEF TypeOK
<1>5. MoreTypes' /\ Published'
  BY <1>1, <1>3 DEF MoreTypes, Published
<1>6. UpdateInv'
  BY <1>1, <1>3 DEF UpdateInv
<1>7. \A u \in Threads \ {t} : (Reads(u)' <=> Reads(u)) /\ (InTime(u)' <=> InTime(u))
  BY <1>1, <1>3 DEF Reads, InTime
<1>8. /\ slot = cur => Ahead(cur) = 0
      /\ slot = NextSlot(cur) => Ahead(cur) = 1
  BY <1>2 DEF Ahead, NextSlot, SlotsAssumption, Indices
<1>9. /\ Ahead(cur) <= 1
      /\ \A o \in Threads : /\ pc[o] = "advance" => Ahead(cur) = 0
                            /\ pc[o] \in {"first", "second", "publish"} => Ahead(cur) = 1
  <2>1. \A o \in Threads : pc[o] = "advance" => slot = cur
    <3> SUFFICES ASSUME NEW o \in Threads, pc[o] = "advance" PROVE slot = cur
      OBVIOUS
    <3>1. \A v \in Threads : pc[v] \notin {"first", "second", "publish"}
      BY OneUpdates
    <3> QED
      BY <3>1 DEF UpdateInv
  <2>2. \A o \in Threads : pc[o] \in {"first", "second", "publish"} => slot = NextSlot(cur)
    BY DEF UpdateInv
  <2>3. slot = cur \/ slot = NextSlot(cur)
    BY <2>2 DEF UpdateInv
  <2> QED
    BY <1>8, <2>1, <2>2, <2>3
<1>10. RingInv'
  <2>1. ASSUME NEW u \in Threads \ {t}, Reads(u)'
        PROVE  /\ since'[u].at <= now'
               /\ InTime(u)' =>
                     /\ Ahead(since[u].from)' <= 1 \/ Ahead(since[u].from)' <= secs'[slot'] + 2 - since'[u].at
                     /\ \A o \in Threads :
                           /\ pc'[o] = "advance" /\ Ahead(since[u].from)' >= 1 => sec'[o] >= since'[u].at
                           /\ pc'[o] \in {"first", "second", "publish"} => Ahead(since[u].from)' >= 1
    BY <1>1, <1>3, <1>7, <2>1 DEF RingInv, Ahead
  <2>2. /\ since'[t].at <= now'
        /\ Ahead(since[t].from)' <= 1
        /\ \A o \in Threads :
              /\ pc'[o] = "advance" => Ahead(since[t].from)' = 0
              /\ pc'[o] \in {"first", "second", "publish"} => Ahead(since[t].from)' = 1
    BY <1>1, <1>2, <1>3, <1>9 DEF Ahead
  <2> QED
    BY <2>1, <2>2 DEF RingInv
<1>11. CopyInv'
  BY <1>1, <1>2, <1>3, <1>7 DEF CopyInv, Reads, Published
<1> QED
  BY <1>4, <1>5, <1>6, <1>10, <1>11

\* A reader's own steps change nothing that others see.
LEMMA ReaderStep ==
    ASSUME SlotsAssumption, FreeAssumption, Ind, NEW t \in Threads, NEW l \in {"copying", "logged", "idle"},
           Reads(t), pc' = [pc EXCEPT ![t] = l],
           copy' \in [Threads -> Nat \X Nat], \A o \in Threads \ {t} : copy'[o] = copy[o],
           since' \in [Threads -> Since], \A o \in Threads \ {t} : since'[o] = since[o],
           l # "idle" => since' = since,
           InTime(t) => (l = "copying" => copy'[t][1] = since[t].of)
                        /\ (l = "logged" => copy'[t] = <<since[t].of, since[t].of>>),
           UNCHANGED <<now, lock, slot, secs, text, cur, sec>>
    PROVE  Ind'
<1> USE DEF Ind, IInv
<1>1. pc'[t] = l /\ \A o \in Threads \ {t} : pc'[o] = pc[o]
  BY DEF TypeOK
<1>2. TypeOK'
  BY <1>1 DEF TypeOK, Reads
<1>3. MoreTypes' /\ Published'
  BY DEF MoreTypes, Published
<1>4. UpdateInv'
  BY <1>1 DEF UpdateInv, Reads
<1>5. \A u \in Threads : Reads(u)' => Reads(u) /\ since'[u] = since[u]
  BY <1>1 DEF Reads
<1>6. \A u \in Threads : Reads(u)' => (InTime(u)' <=> InTime(u))
  BY <1>5 DEF InTime
<1>7. RingInv'
  BY <1>1, <1>5, <1>6 DEF RingInv, Reads, Ahead
<1>8. CopyInv'
  <2> SUFFICES ASSUME NEW u \in Threads, Reads(u)', InTime(u)'
               PROVE  /\ text[since[u].from] = <<since[u].of, since[u].of>>
                      /\ pc'[u] = "copying" => copy'[u][1] = since[u].of
                      /\ pc'[u] = "logged" => copy'[u] = <<since[u].of, since[u].of>>
    BY <1>5 DEF CopyInv
  <2>1. Reads(u) /\ InTime(u)
    BY <1>5, <1>6
  <2>2. /\ text[since[u].from] = <<since[u].of, since[u].of>>
        /\ pc[u] = "copying" => copy[u][1] = since[u].of
        /\ pc[u] = "logged" => copy[u] = <<since[u].of, since[u].of>>
    BY <2>1 DEF CopyInv
  <2>3. CASE u = t
    BY <1>1, <2>1, <2>2, <2>3
  <2>4. CASE u # t
    BY <1>1, <2>2, <2>4
  <2> QED
    BY <2>3, <2>4
<1> QED
  BY <1>2, <1>3, <1>4, <1>7, <1>8

LEMMA CopyFirstStep ==
    ASSUME SlotsAssumption, FreeAssumption, Ind, NEW t \in Threads, CopyFirst(t)
    PROVE  Ind'
<1> USE DEF Ind, IInv
<1>1. /\ pc[t] = "copy" /\ pc' = [pc EXCEPT ![t] = "copying"]
      /\ copy' = [copy EXCEPT ![t] = <<text[since[t].from][1], 0>>]
      /\ UNCHANGED <<now, lock, slot, secs, text, cur, sec, since>>
  BY DEF CopyFirst, Goto, Source
<1>2. text[since[t].from] \in Nat \X Nat
  BY DEF TypeOK, MoreTypes, Since
<1>3. copy' \in [Threads -> Nat \X Nat] /\ copy'[t] = <<text[since[t].from][1], 0>>
      /\ \A o \in Threads \ {t} : copy'[o] = copy[o]
  BY <1>1, <1>2 DEF MoreTypes
<1>4. InTime(t) => copy'[t][1] = since[t].of
  BY <1>1, <1>3 DEF CopyInv, Reads
<1> QED
  BY <1>1, <1>3, <1>4, ReaderStep DEF Reads, MoreTypes

LEMMA CopySecondStep ==
    ASSUME SlotsAssumption, FreeAssumption, Ind, NEW t \in Threads, CopySecond(t)
    PROVE  Ind'
<1> USE DEF Ind, IInv
<1>1. /\ pc[t] = "copying" /\ pc' = [pc EXCEPT ![t] = "logged"]
      /\ copy' = [copy EXCEPT ![t][2] = text[since[t].from][2]]
      /\ UNCHANGED <<now, lock, slot, secs, text, cur, sec, since>>
  BY DEF CopySecond, Goto, Source
<1>2. text[since[t].from] \in Nat \X Nat
  BY DEF TypeOK, MoreTypes, Since
<1>3. copy' \in [Threads -> Nat \X Nat] /\ copy'[t] = <<copy[t][1], text[since[t].from][2]>>
      /\ \A o \in Threads \ {t} : copy'[o] = copy[o]
  BY <1>1, <1>2 DEF MoreTypes
<1>4. InTime(t) => copy'[t] = <<since[t].of, since[t].of>>
  <2>1. SUFFICES ASSUME InTime(t) PROVE copy'[t] = <<since[t].of, since[t].of>>
    OBVIOUS
  <2>2. text[since[t].from] = <<since[t].of, since[t].of>> /\ copy[t][1] = since[t].of
    BY <1>1, <2>1 DEF CopyInv, Reads
  <2>3. text[since[t].from][2] = since[t].of
    BY <2>2
  <2> QED
    BY <1>3, <2>2, <2>3
<1> QED
  BY <1>1, <1>3, <1>4, ReaderStep DEF Reads, MoreTypes

LEMMA LoggedStep ==
    ASSUME SlotsAssumption, FreeAssumption, Ind, NEW t \in Threads, Logged(t)
    PROVE  Ind'
<1> USE DEF Ind, IInv
<1> DEFINE none == [at |-> 0, from |-> 0, of |-> 0]
<1>1. /\ pc[t] = "logged" /\ pc' = [pc EXCEPT ![t] = "idle"]
      /\ copy' = [copy EXCEPT ![t] = <<0, 0>>]
      /\ since' = [since EXCEPT ![t] = none]
      /\ UNCHANGED <<now, lock, slot, secs, text, cur, sec>>
  BY DEF Logged, Goto
<1>2. none \in Since
  BY DEF Since, Indices, SlotsAssumption
<1> HIDE DEF none
<1>3. /\ copy' \in [Threads -> Nat \X Nat] /\ \A o \in Threads \ {t} : copy'[o] = copy[o]
      /\ since' \in [Threads -> Since] /\ \A o \in Threads \ {t} : since'[o] = since[o]
  BY <1>1, <1>2 DEF MoreTypes
<1> QED
  BY <1>1, <1>3, ReaderStep DEF Reads

-----------------------------------------------------------------------------
(* Theorems.                                                               *)

LEMMA InitInv == SlotsAssumption /\ FreeAssumption /\ Init => Ind
<1> SUFFICES ASSUME SlotsAssumption, FreeAssumption, Init PROVE Ind
  OBVIOUS
<1> USE DEF Init
<1>1. 1 \in Indices /\ 0 \in Indices
  BY DEF Indices, SlotsAssumption
<1>2. TypeOK
  BY <1>1 DEF TypeOK, FreeAssumption
<1>3. MoreTypes
  <2>1. [at |-> 0, from |-> 0, of |-> 0] \in Since
    BY <1>1 DEF Since
  <2> QED
    BY <2>1 DEF MoreTypes
<1>4. UpdateInv /\ Published
  BY <1>1 DEF UpdateInv, Published
<1>5. RingInv /\ CopyInv
  BY DEF RingInv, CopyInv, Reads
<1> QED
  BY <1>2, <1>3, <1>4, <1>5 DEF Ind, IInv

\* Every step keeps the invariant, and the time does not go back.
LEMMA StepInv == SlotsAssumption /\ FreeAssumption /\ Ind /\ [Next]_vars => Ind' /\ (Forward \/ UNCHANGED vars)
<1> SUFFICES ASSUME SlotsAssumption, FreeAssumption, Ind, [Next]_vars
             PROVE  Ind' /\ (Forward \/ UNCHANGED vars)
  OBVIOUS
<1>1. CASE \E t \in Threads : Publish(t)
  BY <1>1, PublishStep
<1>2. CASE Tick \/ \E t \in Threads :
              Update(t) \/ Advance(t) \/ WriteFirst(t) \/ WriteSecond(t)
              \/ Log(t) \/ CopyFirst(t) \/ CopySecond(t) \/ Logged(t)
  <2>1. Ind'
    BY <1>2, TickStep, UpdateStep, AdvanceStep, WriteFirstStep, WriteSecondStep, LogStep,
       CopyFirstStep, CopySecondStep, LoggedStep
  <2>2. cur' = cur /\ secs'[cur] = secs[cur]
    <3>1. ASSUME NEW t \in Threads, Advance(t)
          PROVE  cur' = cur /\ secs'[cur] = secs[cur]
      <4>1. slot = cur
        <5>1. \A o \in Threads : pc[o] \notin {"first", "second", "publish"}
          BY <3>1, OneUpdates DEF Advance, Ind
        <5> QED
          BY <5>1 DEF Ind, IInv, UpdateInv
      <4> QED
        BY <3>1, <4>1, NextSlotAhead DEF Advance, Ind, TypeOK
    <3> QED
      BY <1>2, <3>1 DEF Tick, Update, WriteFirst, WriteSecond, Write, Log, CopyFirst, CopySecond, Logged
  <2>3. secs[cur] \in Nat
    BY DEF Ind, TypeOK
  <2> QED
    BY <2>1, <2>2, <2>3 DEF Forward
<1>3. CASE UNCHANGED vars
  BY <1>3 DEF vars, Ind, IInv, TypeOK, MoreTypes, Published, UpdateInv, RingInv, CopyInv, Reads, InTime, Ahead
<1> QED
  BY <1>1, <1>2, <1>3 DEF Next

\* The types and the invariant hold in every reachable state.
THEOREM Invariance ==
    ASSUME SlotsAssumption, FreeAssumption
    PROVE  Spec => []Ind
<1>1. Init => Ind
  BY InitInv
<1>2. Ind /\ [Next]_vars => Ind'
  BY StepInv
<1> QED
  BY <1>1, <1>2, PTL DEF Spec

\* What stu_log_prefix copies without a lock is the time of one second, published when
\* the pointer was read, unless the writer slept through almost the whole ring; and the
\* published time does not go back, whichever threads win stu_mutex_trylock.
THEOREM TimeIsRight ==
    ASSUME SlotsAssumption, FreeAssumption
    PROVE  Spec => TimeRight
<1>1. Ind /\ Ind' /\ [Next]_vars => [TypeOK' /\ Published' /\ Whole' /\ Forward]_vars
  <2>1. Ind' => TypeOK' /\ Published' /\ Whole'
    <3> SUFFICES ASSUME Ind' PROVE TypeOK' /\ Published' /\ Whole'
      OBVIOUS
    <3>1. Whole'
      BY DEF Whole, Ind, IInv, CopyInv, Reads, InTime
    <3> QED
      BY <3>1 DEF Ind, IInv
  <2> QED
    BY <2>1, StepInv
<1>2. Spec => []Ind
  BY Invariance
<1> QED
  BY <1>1, <1>2, PTL DEF Spec, TimeRight
=============================================================================
