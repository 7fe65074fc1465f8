--------------------------- MODULE ProcessesProofs ---------------------------
(***************************************************************************)
(* Proofs about Processes, for any number of workers, slots and spawns     *)
(* that fail: what a worker knows of the others is right and complete,     *)
(* nobody else can take its messages, and it gives its socket up only when *)
(* the master has gone.                                                    *)
(***************************************************************************)
EXTENDS Processes, TLAPS

-----------------------------------------------------------------------------
(* The inductive invariant.                                                *)

Message == [pid : Processes, slot : Indices, fd : Processes]

\* The types that TypeOK does not name.
MoreTypes ==
    /\ fds \in Message
    /\ to \in 0 .. Maximum
    /\ open \in [Processes -> SUBSET (Processes \X {0, 1})]
    /\ queue \in [Workers -> Seq(Message)]
    /\ wpc \in [Workers -> {"none", "init", "wait", "read", "closed"}]

\* No process is ever removed, so the slots below the last are those of the workers,
\* and the others have no process, but maybe the sockets of a spawn that failed.
SlotInv ==
    /\ \A s \in Indices : s < lasts[Master] =>
          /\ table[Master][s].state = 1
          /\ table[Master][s].pid \in Workers
          /\ Started(table[Master][s].pid)
          /\ slot[table[Master][s].pid] = s
          /\ table[Master][s].out = table[Master][s].pid
          /\ table[Master][s].in = table[Master][s].pid
    /\ \A s \in Indices : s >= lasts[Master] =>
          /\ table[Master][s].state = 0
          /\ table[Master][s].pid = None
          /\ table[Master][s].out \in Workers => ~ Started(table[Master][s].out)
          /\ table[Master][s].out <= attempt
    /\ \A v \in Workers : Started(v) =>
          v <= attempt /\ slot[v] < lasts[Master] /\ table[Master][slot[v]].pid = v

\* The master has the sockets of all workers open, until it dies.
OpenInv ==
    /\ \A p \in Processes, i \in {0, 1} :
          <<p, i>> \in open[Master] <=> mpc # "dead" /\ p \in Workers /\ Started(p)
    /\ \A w \in Workers : wpc[w] = "closed" => mpc = "dead"

\* What is passed, while it is passed, and what is in the queues.
PassInv ==
    /\ mpc = "pass" => fds = Named(slot, table) /\ to <= lasts[Master]
    /\ \A w \in Workers : \A i \in DOMAIN queue[w] :
          LET v == queue[w][i].fd
          IN  /\ v \in Workers \ {w} /\ Started(v)
              /\ queue[w][i].pid = v
              /\ queue[w][i].slot = slot[v]

\* A worker's table: it has inherited the workers before it, and learns of later ones.
TableInv ==
    \A w \in Workers : Started(w) =>
        /\ lasts[w] = slot[w]
        /\ \A s \in Indices : s < slot[w] =>
              table[w][s].pid = table[Master][s].pid /\ table[w][s].in = table[Master][s].pid
        /\ \A s \in Indices : s # slot[w] /\ table[w][s].pid # None =>
              LET v == table[w][s].pid
              IN  v \in Workers /\ Started(v) /\ slot[v] = s /\ table[w][s].out = v /\ <<v, 0>> \in open[w]

\* The receiving ends that a worker has open: its own, and before it has closed them
\* those of the workers before it.
EndInv ==
    \A w \in Workers : Started(w) => \A v \in Processes : <<v, 1>> \in open[w] /\ v # w =>
        wpc[w] = "init" /\ v \in Workers /\ Started(v) /\ slot[v] < slot[w]

\* Of a later worker an earlier one knows, or is told, or is about to be told, or a full
\* buffer did not take it.
TellInv ==
    mpc # "dead" => \A v, w \in Workers : Started(v) /\ Started(w) /\ slot[w] < slot[v] =>
        \/ table[w][slot[v]].pid = v
        \/ \E i \in DOMAIN queue[w] : queue[w][i].fd = v
        \/ <<w, v>> \in lost
        \/ mpc = "pass" /\ slot[Master] = slot[v] /\ to <= slot[w]

IInv == MoreTypes /\ SlotInv /\ OpenInv /\ PassInv /\ TableInv /\ EndInv /\ TellInv
Ind == TypeOK /\ IInv

-----------------------------------------------------------------------------
(* Slots.                                                                  *)

\* The master, the workers and the slots are numbers.
LEMMA Numbers ==
    /\ Master \in Processes
    /\ Workers \subseteq Processes /\ Master \notin Workers /\ None \notin Workers
    /\ (Attempts \in Nat => Processes \subseteq Nat)
    /\ (Maximum \in Nat => Indices \subseteq Nat)
BY DEF Master, Workers, Processes, None, Indices

\* What the master passes is a message.
LEMMA NamedType ==
    ASSUME NEW slots \in [Processes -> Indices], NEW tables \in [Processes -> [Indices -> Entry]]
    PROVE  Named(slots, tables) \in Message
<1> DEFINE e == tables[Master][slots[Master]]
<1>1. slots[Master] \in Indices
  BY Numbers
<1>2. tables[Master] \in [Indices -> Entry]
  BY Numbers
<1>3. e \in Entry
  BY <1>1, <1>2
<1>4. e.pid \in Processes /\ e.out \in Processes
  <2> HIDE DEF e
  <2> QED
    BY <1>3 DEF Entry
<1> QED
  BY <1>1, <1>4 DEF Named, Message

\* stu_process_spawn never finds an unused slot before the last.
LEMMA FreeSlotIsLast ==
    ASSUME ProcessesAssumption, TypeOK, SlotInv
    PROVE  FreeSlot = lasts[Master]
<1>1. lasts[Master] \in 0 .. Maximum
  BY DEF TypeOK, Processes
<1>2. {s \in 0 .. lasts[Master] - 1 : table[Master][s].state = 0} = {}
  BY <1>1 DEF SlotInv, Indices, ProcessesAssumption
<1> QED
  BY <1>2 DEF FreeSlot

\* The first element of a sequence and the others.
LEMMA HeadTail ==
    ASSUME NEW S, NEW q \in Seq(S), q # << >>
    PROVE  /\ 1 \in DOMAIN q /\ Head(q) = q[1]
           /\ Tail(q) \in Seq(S)
           /\ \A i \in DOMAIN Tail(q) : i + 1 \in DOMAIN q /\ Tail(q)[i] = q[i + 1]
           /\ \A i \in DOMAIN q \ {1} : i - 1 \in DOMAIN Tail(q) /\ Tail(q)[i - 1] = q[i]
<1>1. Len(q) \in Nat \ {0} /\ DOMAIN q = 1 .. Len(q)
  OBVIOUS
<1>2. Tail(q) \in Seq(S) /\ Head(q) = q[1]
  OBVIOUS
<1>3. Len(Tail(q)) = Len(q) - 1 /\ \A i \in 1 .. Len(q) - 1 : Tail(q)[i] = q[i + 1]
  OBVIOUS
<1>4. DOMAIN Tail(q) = 1 .. Len(q) - 1
  BY <1>2, <1>3
<1> QED
  BY <1>1, <1>2, <1>3, <1>4

\* Two workers have two slots.
LEMMA SlotsDiffer ==
    ASSUME SlotInv, NEW v \in Workers, NEW w \in Workers, Started(v), Started(w), slot[v] = slot[w]
    PROVE  v = w
BY DEF SlotInv

-----------------------------------------------------------------------------
(* Each action keeps the types and the invariant.                          *)

\* A worker is forked.
LEMMA SpawnStep ==
    ASSUME ProcessesAssumption, Ind, Spawn
    PROVE  Ind'
<1> DEFINE s == lasts[Master]
           w == attempt + 1
           T == table[Master]
<1> USE DEF ProcessesAssumption, Ind, IInv
<1>1. /\ s \in Indices /\ w \in Workers /\ FreeSlot = s /\ ~ Started(w)
      /\ Master \in Processes /\ w \in Processes /\ w # Master
      /\ attempt \in Nat /\ Maximum \in Nat /\ s \in Nat
  <2>1. FreeSlot = s
    BY FreeSlotIsLast
  <2>2. s \in 0 .. Maximum /\ attempt \in Nat
    BY DEF TypeOK, Processes
  <2> QED
    BY SMTT(40), <2>1, <2>2 DEF Spawn, Indices, Workers, Processes, Master, SlotInv
<1>2. /\ mpc = "spawn" /\ mpc' = "pass" /\ attempt' = w /\ to' = 0 /\ attempt < Attempts
      /\ slot' = [slot EXCEPT ![Master] = s, ![w] = s]
      /\ lasts' = [lasts EXCEPT ![w] = s, ![Master] = s + 1]
      /\ open' = [open EXCEPT ![Master] = @ \union {<<w, 0>>, <<w, 1>>},
                              ![w] = open[Master] \union {<<w, 0>>, <<w, 1>>}]
      /\ wpc' = [wpc EXCEPT ![w] = "init"]
      /\ UNCHANGED <<failed, queue, lost, polled, ready>>
  BY SMTT(40), <1>1 DEF Spawn, Passing, TypeOK, Master
<1> DEFINE paired == [T EXCEPT ![s].out = w, ![s].in = w]
<1>3. table' = [table EXCEPT ![w] = paired, ![Master] = [paired EXCEPT ![s].pid = w, ![s].state = 1]]
  BY <1>1 DEF Spawn
<1>4. T \in [Indices -> Entry]
  BY <1>1 DEF TypeOK
<1>5. /\ paired \in [Indices -> Entry]
      /\ paired[s].pid = T[s].pid /\ paired[s].out = w /\ paired[s].in = w
      /\ \A x \in Indices \ {s} : paired[x] = T[x]
  BY <1>1, <1>4 DEF Entry
<1>6. table'[w] = paired /\ \A p \in Processes \ {w, Master} : table'[p] = table[p]
  BY <1>1, <1>3 DEF TypeOK
<1>7. /\ table'[Master] \in [Indices -> Entry]
      /\ table'[Master][s].pid = w /\ table'[Master][s].out = w
      /\ table'[Master][s].in = w /\ table'[Master][s].state = 1
      /\ \A x \in Indices \ {s} : table'[Master][x] = T[x]
  <2>1. table'[Master] = [paired EXCEPT ![s].pid = w, ![s].state = 1]
    BY <1>1, <1>3 DEF TypeOK
  <2> HIDE DEF paired, s, w
  <2> QED
    BY <1>1, <1>5, <2>1 DEF Entry
<1>8. table' \in [Processes -> [Indices -> Entry]]
  <2>1. table' = [p \in Processes |-> table'[p]]
    BY <1>3 DEF TypeOK
  <2> HIDE DEF paired
  <2> QED
    BY SMTT(40), <1>5, <1>6, <1>7, <2>1 DEF TypeOK
<1> HIDE DEF paired
<1>9. /\ slot'[Master] = s /\ slot'[w] = s /\ \A p \in Processes \ {w, Master} : slot'[p] = slot[p]
      /\ lasts'[Master] = s + 1 /\ lasts'[w] = s /\ \A p \in Processes \ {w, Master} : lasts'[p] = lasts[p]
      /\ open'[Master] = open[Master] \union {<<w, 0>>, <<w, 1>>}
      /\ open'[w] = open[Master] \union {<<w, 0>>, <<w, 1>>}
      /\ \A p \in Processes \ {w, Master} : open'[p] = open[p]
      /\ wpc'[w] = "init" /\ \A p \in Workers \ {w} : wpc'[p] = wpc[p]
  BY <1>1, <1>2 DEF TypeOK, MoreTypes
<1>10. fds' = [pid |-> w, slot |-> s, fd |-> w]
  <2>1. fds' = Named(slot', table')
    BY DEF Spawn, Passing
  <2> QED
    BY <2>1, <1>7, <1>9 DEF Named
<1>11. Workers \subseteq Processes \ {Master}
  BY DEF Workers, Processes, Master
<1>12. s = lasts[Master] /\ w = attempt + 1 /\ T = table[Master]
  OBVIOUS
<1> HIDE DEF s, w, T
<1> USE Numbers
<1>13. TypeOK'
  <2>1. attempt' \in 0 .. Attempts /\ s + 1 \in 0 .. Maximum /\ s \in 0 .. Maximum
    BY <1>1, <1>2, <1>12 DEF Indices
  <2>2. slot' \in [Processes -> Indices] /\ lasts' \in [Processes -> 0 .. Maximum]
    BY <1>1, <1>2, <2>1 DEF TypeOK
  <2>3. polled' = {x \in Workers : wpc'[x] \in {"wait", "read"}}
    BY <1>1, <1>2, <1>9 DEF TypeOK, Started
  <2> QED
    BY <1>2, <1>8, <2>1, <2>2, <2>3 DEF TypeOK
<1>14. MoreTypes'
  <2>1. fds' \in Message
    BY <1>1, <1>10 DEF Message
  <2>2. open' \in [Processes -> SUBSET (Processes \X {0, 1})]
    BY <1>1, <1>2 DEF MoreTypes
  <2>3. wpc' \in [Workers -> {"none", "init", "wait", "read", "closed"}]
    BY <1>1, <1>2 DEF MoreTypes
  <2>4. to' \in 0 .. Maximum /\ queue' \in [Workers -> Seq(Message)]
    BY <1>1, <1>2 DEF MoreTypes
  <2> QED
    BY <2>1, <2>2, <2>3, <2>4 DEF MoreTypes
<1>15. SlotInv'
  <2>1. \A x \in Indices : x # s => table'[Master][x] = table[Master][x]
    BY <1>7, <1>12
  <2>2. \A v \in Workers \ {w} : slot'[v] = slot[v] /\ wpc'[v] = wpc[v]
    BY <1>9
  <2>3. \A x \in Indices : x \in Nat /\ table[Master][x].out \in Nat
    <3>1. \A x \in Indices : table[Master][x].out \in Processes
      BY <1>1 DEF TypeOK, Entry
    <3> QED
      BY <1>1, <3>1
  <2>4. ASSUME NEW x \in Indices, x < s + 1
        PROVE  /\ table'[Master][x].state = 1
               /\ table'[Master][x].pid \in Workers
               /\ wpc'[table'[Master][x].pid] # "none"
               /\ slot'[table'[Master][x].pid] = x
               /\ table'[Master][x].out = table'[Master][x].pid
               /\ table'[Master][x].in = table'[Master][x].pid
    <3>1. CASE x = s
      BY <1>1, <1>7, <1>9, <3>1
    <3>2. CASE x # s
      <4>1. x < lasts[Master] /\ table'[Master][x] = table[Master][x]
        BY <1>1, <1>12, <2>1, <2>3, <2>4, <3>2
      <4>2. /\ table[Master][x].state = 1
            /\ table[Master][x].pid \in Workers
            /\ wpc[table[Master][x].pid] # "none"
            /\ slot[table[Master][x].pid] = x
            /\ table[Master][x].out = table[Master][x].pid
            /\ table[Master][x].in = table[Master][x].pid
        BY <4>1 DEF SlotInv, Started
      <4>3. table[Master][x].pid # w
        BY <1>1, <4>2 DEF Started
      <4> QED
        BY <2>2, <4>1, <4>2, <4>3
    <3> QED
      BY <3>1, <3>2
  <2>5. ASSUME NEW x \in Indices, x >= s + 1
        PROVE  /\ table'[Master][x].state = 0
               /\ table'[Master][x].pid = None
               /\ table'[Master][x].out \in Workers => wpc'[table'[Master][x].out] = "none"
               /\ table'[Master][x].out <= attempt'
    <3>1. x # s /\ x >= lasts[Master]
      BY <1>1, <1>12, <2>3, <2>5
    <3>2. /\ table[Master][x].state = 0
          /\ table[Master][x].pid = None
          /\ table[Master][x].out \in Workers => wpc[table[Master][x].out] = "none"
          /\ table[Master][x].out <= attempt
      BY <3>1 DEF SlotInv, Started
    <3>3. table[Master][x].out <= attempt' /\ table[Master][x].out # w
      BY <1>1, <1>2, <1>12, <2>3, <3>2
    <3> QED
      BY <2>1, <2>2, <3>1, <3>2, <3>3
  <2>6. ASSUME NEW v \in Workers, Started(v)'
        PROVE  v <= attempt' /\ slot'[v] < s + 1 /\ table'[Master][slot'[v]].pid = v
    <3>1. CASE v = w
      BY <1>1, <1>2, <1>7, <1>9, <3>1
    <3>2. CASE v # w
      <4>1. Started(v)
        BY <2>2, <2>6, <3>2 DEF Started
      <4>2. v <= attempt /\ slot[v] < lasts[Master] /\ table[Master][slot[v]].pid = v
        BY <4>1 DEF SlotInv
      <4>3. slot[v] \in Indices /\ slot[v] \in Nat /\ v \in Nat
        BY <1>1, <1>11 DEF TypeOK
      <4>4. v <= attempt' /\ slot[v] < s + 1 /\ slot[v] # s
        BY <1>1, <1>2, <1>12, <4>2, <4>3
      <4>5. slot'[v] = slot[v]
        BY <2>2, <3>2
      <4> QED
        BY <2>1, <4>2, <4>3, <4>4, <4>5
    <3> QED
      BY <3>1, <3>2
  <2> QED
    BY <1>9, <2>4, <2>5, <2>6 DEF SlotInv, Started
<1>16. OpenInv'
  <2>1. mpc # "dead" /\ mpc' # "dead"
    BY <1>2
  <2>2. \A p \in Processes, i \in {0, 1} : <<p, i>> \in open'[Master] <=> <<p, i>> \in open[Master] \/ p = w
    BY <1>9
  <2>3. \A p \in Workers : Started(p)' <=> Started(p) \/ p = w
    BY <1>1, <1>9 DEF Started
  <2>4. \A p \in Workers : wpc'[p] # "closed"
    BY <1>1, <1>9, <2>1 DEF OpenInv
  <2> QED
    BY <1>1, <2>1, <2>2, <2>3, <2>4 DEF OpenInv
<1>17. PassInv'
  <2>1. fds' = Named(slot', table')
    BY DEF Spawn, Passing
  <2>2. \A v \in Workers : Started(v) => Started(v)' /\ slot'[v] = slot[v]
    BY <1>1, <1>9, <1>11 DEF Started
  <2>3. s + 1 = lasts'[Master] /\ to' <= s + 1
    BY <1>1, <1>2, <1>9
  <2>4. ASSUME NEW x \in Workers, NEW i \in DOMAIN queue[x]
        PROVE  LET v == queue[x][i].fd
               IN  /\ v \in Workers \ {x} /\ Started(v)
                   /\ queue[x][i].pid = v
                   /\ queue[x][i].slot = slot[v]
    BY DEF PassInv
  <2>5. queue' = queue
    BY <1>2
  <2> QED
    BY <2>1, <2>2, <2>3, <2>4, <2>5 DEF PassInv
<1>18. TableInv'
  <2>1. \A v \in Workers \ {w} : /\ slot'[v] = slot[v] /\ wpc'[v] = wpc[v] /\ lasts'[v] = lasts[v]
                                 /\ open'[v] = open[v] /\ table'[v] = table[v]
    BY <1>6, <1>9, <1>11
  <2>2. \A v \in Workers : Started(v) => Started(v)' /\ v # w
    BY <1>1, <2>1 DEF Started
  <2>3. ASSUME NEW v \in Workers, Started(v), NEW x \in Indices, x < slot[v]
        PROVE  table'[Master][x] = table[Master][x]
    <3>1. slot[v] < lasts[Master] /\ slot[v] \in Indices
      BY <2>3, <1>11 DEF SlotInv, TypeOK
    <3>2. x # s
      <4>1. slot[v] \in Nat /\ x \in Nat
        BY <1>1, <3>1
      <4> QED
        BY <1>1, <1>12, <2>3, <3>1, <4>1
    <3> QED
      BY <1>7, <1>12, <3>2
  <2>4. ASSUME NEW v \in Workers \ {w}, Started(v)'
        PROVE  /\ lasts'[v] = slot'[v]
               /\ \A x \in Indices : x < slot'[v] =>
                     table'[v][x].pid = table'[Master][x].pid /\ table'[v][x].in = table'[Master][x].pid
               /\ \A x \in Indices : x # slot'[v] /\ table'[v][x].pid # None =>
                     /\ table'[v][x].pid \in Workers /\ wpc'[table'[v][x].pid] # "none"
                     /\ slot'[table'[v][x].pid] = x /\ table'[v][x].out = table'[v][x].pid
                     /\ <<table'[v][x].pid, 0>> \in open'[v]
    <3>1. Started(v) /\ table'[v] = table[v] /\ slot'[v] = slot[v] /\ open'[v] = open[v] /\ lasts'[v] = lasts[v]
      BY <2>1, <2>4 DEF Started
    <3>2. lasts[v] = slot[v]
      BY <3>1 DEF TableInv
    <3>3. ASSUME NEW x \in Indices, x < slot[v]
          PROVE  table[v][x].pid = table'[Master][x].pid /\ table[v][x].in = table'[Master][x].pid
      BY <2>3, <3>1, <3>3 DEF TableInv
    <3>4. ASSUME NEW x \in Indices, x # slot[v], table[v][x].pid # None
          PROVE  /\ table[v][x].pid \in Workers /\ wpc'[table[v][x].pid] # "none"
                 /\ slot'[table[v][x].pid] = x /\ table[v][x].out = table[v][x].pid
                 /\ <<table[v][x].pid, 0>> \in open[v]
      <4>1. /\ table[v][x].pid \in Workers /\ Started(table[v][x].pid)
            /\ slot[table[v][x].pid] = x /\ table[v][x].out = table[v][x].pid
            /\ <<table[v][x].pid, 0>> \in open[v]
        BY <3>1, <3>4 DEF TableInv
      <4>2. table[v][x].pid # w
        BY <1>1, <4>1
      <4> QED
        BY <2>1, <4>1, <4>2 DEF Started
    <3> QED
      BY <3>1, <3>2, <3>3, <3>4
  <2>5. ASSUME NEW x \in Indices, x < s
        PROVE  table'[w][x].pid = table'[Master][x].pid /\ table'[w][x].in = table'[Master][x].pid
    <3>1. x # s /\ x < lasts[Master]
      BY <1>1, <1>12, <2>5
    <3>2. table'[w][x] = table[Master][x] /\ table'[Master][x] = table[Master][x]
      BY <1>5, <1>6, <1>7, <1>12, <3>1
    <3> QED
      BY <3>1, <3>2 DEF SlotInv
  <2>6. ASSUME NEW x \in Indices, x # s, table'[w][x].pid # None
        PROVE  /\ table'[w][x].pid \in Workers /\ wpc'[table'[w][x].pid] # "none"
               /\ slot'[table'[w][x].pid] = x /\ table'[w][x].out = table'[w][x].pid
               /\ <<table'[w][x].pid, 0>> \in open'[w]
    <3>1. table'[w][x] = table[Master][x]
      BY <1>5, <1>6, <1>12, <2>6
    <3>2. x < lasts[Master]
      BY <1>1, <1>12, <2>6, <3>1 DEF SlotInv
    <3>3. /\ table[Master][x].pid \in Workers /\ Started(table[Master][x].pid)
          /\ slot[table[Master][x].pid] = x /\ table[Master][x].out = table[Master][x].pid
      BY <3>2 DEF SlotInv
    <3>4. <<table[Master][x].pid, 0>> \in open[Master] /\ table[Master][x].pid # w
      BY <1>1, <1>2, <1>11, <3>3 DEF OpenInv
    <3> QED
      BY <1>9, <2>1, <3>1, <3>3, <3>4 DEF Started
  <2>7. ASSUME NEW v \in Workers, Started(v)'
        PROVE  /\ lasts'[v] = slot'[v]
               /\ \A x \in Indices : x < slot'[v] =>
                     table'[v][x].pid = table'[Master][x].pid /\ table'[v][x].in = table'[Master][x].pid
               /\ \A x \in Indices : x # slot'[v] /\ table'[v][x].pid # None =>
                     /\ table'[v][x].pid \in Workers /\ wpc'[table'[v][x].pid] # "none"
                     /\ slot'[table'[v][x].pid] = x /\ table'[v][x].out = table'[v][x].pid
                     /\ <<table'[v][x].pid, 0>> \in open'[v]
    <3>1. CASE v = w
      BY <1>9, <2>5, <2>6, <3>1
    <3> QED
      BY <2>4, <2>7, <3>1
  <2> QED
    BY <2>7 DEF TableInv, Started
<1>19. EndInv'
  <2>1. \A v \in Workers \ {w} : slot'[v] = slot[v] /\ wpc'[v] = wpc[v] /\ open'[v] = open[v]
    BY <1>9, <1>11
  <2>2. \A v \in Workers : Started(v) => v # w /\ Started(v)' /\ slot[v] < s
    BY <1>1, <1>12, <2>1 DEF Started, SlotInv
  <2>3. \A v \in Processes : <<v, 1>> \in open[Master] => v \in Workers /\ Started(v)
    BY DEF OpenInv
  <2> QED
    BY <1>1, <1>9, <2>1, <2>2, <2>3 DEF EndInv, Started
<1>20. TellInv'
  <2>1. \A v \in Workers \ {w} : slot'[v] = slot[v] /\ wpc'[v] = wpc[v] /\ table'[v] = table[v]
    BY <1>6, <1>9, <1>11
  <2>2. \A v \in Workers : Started(v) => slot[v] < s /\ slot[v] \in Nat
    BY <1>1, <1>11, <1>12 DEF SlotInv, TypeOK
  <2> SUFFICES ASSUME NEW v \in Workers, NEW x \in Workers, Started(v)', Started(x)', slot'[x] < slot'[v]
               PROVE  \/ table'[x][slot'[v]].pid = v
                      \/ \E i \in DOMAIN queue'[x] : queue'[x][i].fd = v
                      \/ <<x, v>> \in lost'
                      \/ mpc' = "pass" /\ slot'[Master] = slot'[v] /\ to' <= slot'[x]
    BY DEF TellInv
  <2>3. x # w
    BY <1>1, <1>9, <2>1, <2>2 DEF Started
  <2>4. Started(x) /\ table'[x] = table[x] /\ slot'[x] = slot[x] /\ queue' = queue /\ lost' = lost
    BY <1>2, <2>1, <2>3 DEF Started
  <2>5. CASE v = w
    BY <1>2, <1>9, <2>2, <2>4, <2>5
  <2>6. CASE v # w
    <3>1. Started(v) /\ slot'[v] = slot[v]
      BY <2>1, <2>6 DEF Started
    <3>2. \/ table[x][slot[v]].pid = v
          \/ \E i \in DOMAIN queue[x] : queue[x][i].fd = v
          \/ <<x, v>> \in lost
      BY <1>2, <2>4, <3>1 DEF TellInv
    <3> QED
      BY <2>4, <3>1, <3>2
  <2> QED
    BY <2>5, <2>6
<1> QED
  BY SMTT(40), <1>13, <1>14, <1>15, <1>16, <1>17, <1>18, <1>19, <1>20

\* A spawn that fails changes nothing but what is passed again.
LEMMA SpawnFailsStep ==
    ASSUME ProcessesAssumption, Ind, SpawnFails
    PROVE  Ind'
<1> USE Numbers DEF ProcessesAssumption, Ind, IInv, SpawnFails, Passing
<1>1. TypeOK'
  BY DEF TypeOK
<1>2. MoreTypes'
  <2>1. fds' = Named(slot, table) /\ to' = 0 /\ Maximum \in Nat
    BY DEF Named
  <2>2. fds' \in Message /\ to' \in 0 .. Maximum
    BY <2>1, NamedType DEF TypeOK
  <2> QED
    BY <2>2 DEF MoreTypes
<1>3. SlotInv'
  <2>1. attempt' = attempt + 1 /\ attempt \in Nat /\ \A s \in Indices : table[Master][s].out \in Nat
    BY DEF TypeOK, Entry
  <2> QED
    BY <2>1 DEF SlotInv, Started
<1>4. OpenInv'
  BY DEF OpenInv, Started
<1>5. PassInv'
  BY DEF PassInv, Started, TypeOK
<1>6. TableInv' /\ EndInv' /\ TellInv'
  BY DEF TableInv, EndInv, TellInv, Started
<1> QED
  BY <1>1, <1>2, <1>3, <1>4, <1>5, <1>6

\* Sockets that are closed again stay in the table, at a slot that is not used.
LEMMA SetupFailsStep ==
    ASSUME ProcessesAssumption, Ind, NEW forking \in BOOLEAN, SetupFails(forking)
    PROVE  Ind'
<1> DEFINE s == lasts[Master]
           w == attempt + 1
           paired == [table[Master] EXCEPT ![s].out = w, ![s].in = w]
<1> USE Numbers DEF ProcessesAssumption, Ind, IInv
<1>1. /\ s \in Indices /\ FreeSlot = s /\ w \in Workers /\ ~ Started(w)
      /\ attempt \in Nat /\ attempt' = w /\ attempt < Attempts
      /\ \A x \in Indices : table[Master][x].out \in Nat
  <2>1. FreeSlot = s
    BY FreeSlotIsLast
  <2>2. s \in 0 .. Maximum /\ attempt \in Nat /\ attempt < Attempts /\ attempt' = w /\ s < Maximum
    BY <2>1 DEF SetupFails, Passing, TypeOK
  <2>3. s \in Indices /\ w \in Workers
    BY <2>2 DEF Indices, Workers
  <2>4. ~ Started(w)
    BY <2>2, <2>3 DEF SlotInv
  <2>5. \A x \in Indices : table[Master][x].out \in Processes
    BY DEF TypeOK, Entry
  <2> QED
    BY <2>1, <2>2, <2>3, <2>4, <2>5
<1>2. paired = [table[Master] EXCEPT ![s].out = w, ![s].in = w] /\ w = attempt + 1 /\ s = lasts[Master]
  OBVIOUS
<1>3. table' = [table EXCEPT ![Master] = paired]
  BY <1>1 DEF SetupFails, TypeOK
<1> HIDE DEF s, w, paired
<1>4. /\ paired \in [Indices -> Entry]
      /\ \A x \in Indices \ {s} : paired[x] = table[Master][x]
      /\ paired[s].pid = table[Master][s].pid /\ paired[s].state = table[Master][s].state
      /\ paired[s].out = w
  <2>1. table[Master] \in [Indices -> Entry] /\ w \in Processes
    BY <1>1 DEF TypeOK
  <2>2. s \in Indices /\ paired = [table[Master] EXCEPT ![s].out = w, ![s].in = w]
    BY <1>1, <1>2
  <2> QED
    BY <2>1, <2>2 DEF Entry
<1>5. /\ table' \in [Processes -> [Indices -> Entry]]
      /\ table'[Master] = paired
      /\ \A v \in Workers : table'[v] = table[v]
  BY <1>3, <1>4 DEF TypeOK
<1>6. slot' \in [Processes -> Indices] /\ \A v \in Workers : slot'[v] = slot[v]
  BY <1>1 DEF SetupFails, TypeOK
<1>7. /\ mpc = "spawn" /\ mpc' = "pass" /\ to' = 0 /\ fds' = Named(slot', table') /\ failed' \in 0 .. Failures
      /\ UNCHANGED <<lasts, open, queue, lost, polled, ready, wpc>>
  BY DEF SetupFails, Passing, TypeOK
<1>8. TypeOK'
  BY <1>1, <1>2, <1>5, <1>6, <1>7 DEF TypeOK
<1>9. MoreTypes'
  BY SMTT(40), <1>5, <1>6, <1>7, NamedType DEF MoreTypes
<1>10. SlotInv'
  <2>1. \A x \in Indices : x < lasts[Master] => table'[Master][x] = table[Master][x]
    BY <1>1, <1>2, <1>4, <1>5
  <2>2. \A x \in Indices : x >= lasts[Master] =>
            /\ table'[Master][x].state = table[Master][x].state
            /\ table'[Master][x].pid = table[Master][x].pid
            /\ table'[Master][x].out \in {table[Master][x].out, w}
    BY <1>4, <1>5
  <2> QED
    BY <1>1, <1>2, <1>6, <1>7, <2>1, <2>2 DEF SlotInv, Started
<1>11. OpenInv'
  BY <1>7 DEF OpenInv, Started
<1>12. PassInv'
  BY <1>6, <1>7 DEF PassInv, Started, TypeOK
<1>13. TableInv'
  <2>1. ASSUME NEW v \in Workers, Started(v), NEW x \in Indices, x < slot[v]
        PROVE  table'[Master][x] = table[Master][x]
    <3>1. slot[v] \in Nat /\ x \in Nat /\ s \in Nat
      BY <1>1 DEF TypeOK
    <3>2. slot[v] < s
      BY <1>2, <2>1 DEF SlotInv
    <3>3. x # s
      BY <2>1, <3>1, <3>2
    <3> QED
      BY <1>4, <1>5, <3>3
  <2> SUFFICES ASSUME NEW v \in Workers, Started(v)
               PROVE  /\ lasts[v] = slot[v]
                      /\ \A x \in Indices : x < slot[v] =>
                            table[v][x].pid = table'[Master][x].pid /\ table[v][x].in = table'[Master][x].pid
                      /\ \A x \in Indices : x # slot[v] /\ table[v][x].pid # None =>
                            /\ table[v][x].pid \in Workers /\ Started(table[v][x].pid)
                            /\ slot[table[v][x].pid] = x /\ table[v][x].out = table[v][x].pid
                            /\ <<table[v][x].pid, 0>> \in open[v]
    BY <1>5, <1>6, <1>7 DEF TableInv, Started
  <2>2. \A x \in Indices : x < slot[v] =>
            table[v][x].pid = table'[Master][x].pid /\ table[v][x].in = table'[Master][x].pid
    BY <2>1 DEF TableInv
  <2> QED
    BY <2>2 DEF TableInv
<1>14. EndInv' /\ TellInv'
  BY <1>5, <1>6, <1>7 DEF EndInv, TellInv, Started
<1> QED
  BY <1>8, <1>9, <1>10, <1>11, <1>12, <1>13, <1>14

\* One worker is told, or is not to be told.
LEMMA PassOneStep ==
    ASSUME ProcessesAssumption, Ind, PassOne
    PROVE  Ind'
<1> DEFINE w == table[Master][to].out
           told == Receives(to) /\ <<fds.fd, 0>> \in open[Master]
<1> USE Numbers DEF ProcessesAssumption, Ind, IInv
<1>1. /\ mpc = "pass" /\ to \in Indices /\ to \in Nat /\ to' = to + 1 /\ to < lasts[Master]
      /\ lasts[Master] \in 0 .. Maximum
      /\ UNCHANGED <<mpc, attempt, failed, slot, lasts, fds, table, open, lost, polled, wpc>>
  BY DEF PassOne, TypeOK, MoreTypes, Indices
<1>2. w \in Workers /\ Started(w) /\ slot[w] = to /\ table[Master][to].state = 1
  BY <1>1 DEF SlotInv
<1>3. told => /\ fds.fd \in Workers \ {w} /\ Started(fds.fd)
              /\ fds.pid = fds.fd /\ fds.slot = slot[fds.fd]
  <2> SUFFICES ASSUME told
               PROVE  /\ fds.fd \in Workers \ {w} /\ Started(fds.fd)
                      /\ fds.pid = fds.fd /\ fds.slot = slot[fds.fd]
    OBVIOUS
  <2>1. /\ fds.pid = table[Master][slot[Master]].pid
        /\ fds.slot = slot[Master]
        /\ fds.fd = table[Master][slot[Master]].out
    BY <1>1 DEF PassInv, Named
  <2>2. fds.fd \in Workers /\ Started(fds.fd)
    BY DEF OpenInv, MoreTypes, Message
  <2>3. slot[Master] \in Indices /\ slot[Master] < lasts[Master]
    <3>1. slot[Master] \in Indices /\ lasts[Master] \in Nat /\ slot[Master] \in Nat
      <4>1. slot[Master] \in Indices
        BY DEF TypeOK
      <4>2. Maximum \in Nat
        OBVIOUS
      <4>3. lasts[Master] \in Nat
        BY <1>1, <4>2
      <4>4. slot[Master] \in Nat
        BY <4>1, <4>2
      <4> QED
        BY <4>1, <4>3, <4>4
    <3>2. ~ (slot[Master] >= lasts[Master])
      BY <2>1, <2>2, <3>1 DEF SlotInv
    <3> QED
      BY <3>1, <3>2
  <2>4. slot[Master] # to
    BY DEF Receives
  <2> QED
    BY <1>2, <2>1, <2>2, <2>3, <2>4 DEF SlotInv
<1>4. /\ told => queue' = [queue EXCEPT ![w] = Append(@, fds)]
      /\ ~ told => queue' = queue
      /\ ready' \subseteq ready \union polled
  BY DEF PassOne
<1> HIDE DEF w, told
<1>5. /\ queue' \in [Workers -> Seq(Message)]
      /\ \A x \in Workers : \A i \in DOMAIN queue'[x] :
            \/ i \in DOMAIN queue[x] /\ queue'[x][i] = queue[x][i]
            \/ told /\ x = w /\ queue'[x][i] = fds
      /\ \A x \in Workers : \A i \in DOMAIN queue[x] : i \in DOMAIN queue'[x] /\ queue'[x][i] = queue[x][i]
      /\ told => \E i \in DOMAIN queue'[w] : queue'[w][i] = fds
  <2>1. CASE told
    <3>1. queue[w] \in Seq(Message) /\ fds \in Message
      BY <1>2 DEF MoreTypes
    <3>2. queue'[w] = Append(queue[w], fds) /\ \A x \in Workers \ {w} : queue'[x] = queue[x]
      BY <1>2, <1>4, <2>1 DEF MoreTypes
    <3>3. /\ Append(queue[w], fds) \in Seq(Message)
          /\ DOMAIN Append(queue[w], fds) = 1 .. Len(queue[w]) + 1
          /\ DOMAIN queue[w] = 1 .. Len(queue[w]) /\ Len(queue[w]) \in Nat
          /\ \A i \in DOMAIN queue[w] : Append(queue[w], fds)[i] = queue[w][i]
          /\ Append(queue[w], fds)[Len(queue[w]) + 1] = fds
      BY <3>1
    <3>4. queue' \in [Workers -> Seq(Message)]
      BY <1>2, <1>4, <2>1, <3>3 DEF MoreTypes
    <3>5. \A x \in Workers \ {w} : queue'[x] = queue[x]
      BY <3>2
    <3>6. /\ \A i \in DOMAIN queue'[w] :
                \/ i \in DOMAIN queue[w] /\ queue'[w][i] = queue[w][i]
                \/ queue'[w][i] = fds
          /\ \A i \in DOMAIN queue[w] : i \in DOMAIN queue'[w] /\ queue'[w][i] = queue[w][i]
          /\ \E i \in DOMAIN queue'[w] : queue'[w][i] = fds
      BY SMTT(40), <3>2, <3>3
    <3> QED
      BY <2>1, <3>4, <3>5, <3>6
  <2>2. CASE ~ told
    BY <1>4, <2>2 DEF MoreTypes
  <2> QED
    BY <2>1, <2>2
<1>6. TypeOK'
  BY <1>1, <1>4 DEF TypeOK
<1>7. MoreTypes'
  BY <1>1, <1>5 DEF MoreTypes
<1>8. SlotInv' /\ OpenInv' /\ TableInv' /\ EndInv'
  BY <1>1 DEF SlotInv, OpenInv, TableInv, EndInv, Started
<1>9. PassInv'
  BY SMTT(40), <1>1, <1>3, <1>5 DEF PassInv, Started, Named
<1>10. TellInv'
  <2> SUFFICES ASSUME NEW v \in Workers, NEW x \in Workers, Started(v), Started(x), slot[x] < slot[v]
               PROVE  \/ table[x][slot[v]].pid = v
                      \/ \E i \in DOMAIN queue'[x] : queue'[x][i].fd = v
                      \/ <<x, v>> \in lost
                      \/ slot[Master] = slot[v] /\ to + 1 <= slot[x]
    BY <1>1 DEF TellInv, Started
  <2>1. \/ table[x][slot[v]].pid = v
        \/ \E i \in DOMAIN queue[x] : queue[x][i].fd = v
        \/ <<x, v>> \in lost
        \/ slot[Master] = slot[v] /\ to <= slot[x]
    BY <1>1 DEF TellInv
  <2>2. slot[x] \in Nat /\ slot[v] \in Nat
    BY DEF TypeOK
  <2>3. CASE slot[Master] = slot[v] /\ to = slot[x]
    <3>1. x = w
      BY <1>2, <2>3, SlotsDiffer
    <3>2. fds.fd = v /\ <<v, 0>> \in open[Master]
      <4>1. fds.fd = table[Master][slot[v]].out
        BY <1>1, <2>3 DEF PassInv, Named
      <4>2. slot[v] \in Indices /\ slot[v] < lasts[Master] /\ table[Master][slot[v]].pid = v
        BY DEF SlotInv, TypeOK
      <4>3. table[Master][slot[v]].out = v
        BY <4>2 DEF SlotInv
      <4> QED
        BY <1>1, <4>1, <4>3 DEF OpenInv
    <3>3. told
      <4>1. to # slot[Master]
        BY <2>2, <2>3
      <4>2. table[Master][to].out # None
        BY <1>2 DEF w
      <4> QED
        BY <1>2, <3>2, <4>1, <4>2 DEF told, Receives
    <3> QED
      BY <1>5, <3>1, <3>2, <3>3
  <2> QED
    BY SMTT(40), <1>1, <1>5, <2>1, <2>2, <2>3
<1> QED
  BY <1>6, <1>7, <1>8, <1>9, <1>10

\* A full buffer does not take what one worker is to be told.
LEMMA PassLostStep ==
    ASSUME ProcessesAssumption, Ind, PassLost
    PROVE  Ind'
<1> DEFINE w == table[Master][to].out
<1> USE Numbers DEF ProcessesAssumption, Ind, IInv
<1>1. /\ mpc = "pass" /\ to \in Indices /\ to \in Nat /\ to' = to + 1 /\ to < lasts[Master]
      /\ lasts[Master] \in 0 .. Maximum
      /\ <<fds.fd, 0>> \in open[Master]
      /\ lost' = lost \union {<<w, fds.pid>>}
      /\ UNCHANGED <<mpc, attempt, failed, slot, lasts, fds, table, open, queue, polled, ready, wpc>>
  BY DEF PassLost, TypeOK, MoreTypes, Indices
<1>2. w \in Workers /\ Started(w) /\ slot[w] = to
  BY <1>1 DEF SlotInv
<1> HIDE DEF w
<1>3. fds.fd \in Workers /\ slot[Master] \in Indices /\ fds = Named(slot, table)
  BY <1>1 DEF OpenInv, MoreTypes, Message, PassInv, TypeOK
<1>4. fds.pid \in Workers
  <2>1. fds.pid = table[Master][slot[Master]].pid /\ fds.fd = table[Master][slot[Master]].out
    BY <1>3 DEF Named
  <2>2. Started(fds.fd)
    BY <1>1, <1>3 DEF OpenInv
  <2>3. slot[Master] \in Nat /\ lasts[Master] \in Nat
    <3>1. Maximum \in Nat
      OBVIOUS
    <3>2. slot[Master] \in Nat
      BY <1>3, <3>1
    <3>3. lasts[Master] \in Nat
      BY <1>1, <3>1
    <3> QED
      BY <3>2, <3>3
  <2>4. ~ (slot[Master] >= lasts[Master])
    BY <1>3, <2>1, <2>2 DEF SlotInv
  <2> QED
    BY <1>3, <2>1, <2>3, <2>4 DEF SlotInv
<1>5. TypeOK'
  BY <1>1, <1>2, <1>4 DEF TypeOK
<1>6. MoreTypes'
  BY <1>1 DEF MoreTypes
<1>7. SlotInv' /\ OpenInv' /\ TableInv' /\ EndInv'
  BY <1>1 DEF SlotInv, OpenInv, TableInv, EndInv, Started
<1>8. PassInv'
  BY <1>1 DEF PassInv, Started, Named
<1>9. TellInv'
  <2> SUFFICES ASSUME NEW v \in Workers, NEW x \in Workers, Started(v), Started(x), slot[x] < slot[v]
               PROVE  \/ table[x][slot[v]].pid = v
                      \/ \E i \in DOMAIN queue[x] : queue[x][i].fd = v
                      \/ <<x, v>> \in lost'
                      \/ slot[Master] = slot[v] /\ to + 1 <= slot[x]
    BY <1>1 DEF TellInv, Started
  <2>1. \/ table[x][slot[v]].pid = v
        \/ \E i \in DOMAIN queue[x] : queue[x][i].fd = v
        \/ <<x, v>> \in lost
        \/ slot[Master] = slot[v] /\ to <= slot[x]
    BY <1>1 DEF TellInv
  <2>2. slot[x] \in Nat /\ slot[v] \in Nat
    BY DEF TypeOK
  <2>3. CASE slot[Master] = slot[v] /\ to = slot[x]
    <3>1. x = w
      BY <1>2, <2>3, SlotsDiffer
    <3>2. fds.pid = v
      <4>1. slot[v] \in Indices /\ slot[v] < lasts[Master] /\ table[Master][slot[v]].pid = v
        BY DEF SlotInv, TypeOK
      <4> QED
        BY <1>3, <2>3, <4>1 DEF Named
    <3> QED
      BY <1>1, <3>1, <3>2
  <2> QED
    BY <1>1, <2>1, <2>2, <2>3
<1> QED
  BY <1>5, <1>6, <1>7, <1>8, <1>9

\* All workers have been told.
LEMMA PassDoneStep ==
    ASSUME ProcessesAssumption, Ind, PassDone
    PROVE  Ind'
<1> USE Numbers DEF ProcessesAssumption, Ind, IInv, PassDone
<1>1. TypeOK' /\ MoreTypes'
  BY DEF TypeOK, MoreTypes
<1>2. SlotInv' /\ OpenInv' /\ TableInv' /\ EndInv'
  BY DEF SlotInv, OpenInv, TableInv, EndInv, Started
<1>3. PassInv'
  BY DEF PassInv, Started
<1>4. TellInv'
  <2>1. \A w \in Workers : Started(w) => ~ (to <= slot[w])
    BY DEF SlotInv, TypeOK
  <2> QED
    BY <2>1 DEF TellInv, Started
<1> QED
  BY <1>1, <1>2, <1>3, <1>4

\* The master dies, with its sockets.
LEMMA MasterDiesStep ==
    ASSUME ProcessesAssumption, Ind, MasterDies
    PROVE  Ind'
<1> USE Numbers DEF ProcessesAssumption, Ind, IInv, MasterDies
<1>1. open' \in [Processes -> SUBSET (Processes \X {0, 1})] /\ open'[Master] = {}
      /\ \A w \in Workers : open'[w] = open[w]
  BY DEF MoreTypes
<1>2. TypeOK'
  BY DEF TypeOK, LetGo
<1>3. MoreTypes'
  BY <1>1 DEF MoreTypes
<1>4. SlotInv' /\ PassInv'
  BY DEF SlotInv, PassInv, Started
<1>5. OpenInv'
  BY <1>1 DEF OpenInv
<1>6. TableInv' /\ EndInv'
  BY <1>1 DEF TableInv, EndInv, Started
<1>7. TellInv'
  BY DEF TellInv
<1> QED
  BY <1>2, <1>3, <1>4, <1>5, <1>6, <1>7

\* A worker closes the sockets of others that are of no use to it.
LEMMA WorkerInitStep ==
    ASSUME ProcessesAssumption, Ind, NEW w \in Workers, WorkerInit(w)
    PROVE  Ind'
<1> DEFINE closed == {<<table[w][s].in, 1>> : s \in Others(w)} \union {<<w, 0>>}
<1> USE Numbers DEF ProcessesAssumption, Ind, IInv
<1>1. /\ wpc[w] = "init" /\ Started(w)
      /\ wpc' = [wpc EXCEPT ![w] = "wait"]
      /\ open' = [open EXCEPT ![w] = @ \ closed]
      /\ polled' = polled \union {w}
      /\ ready' \subseteq ready \union {w} \union polled'
      /\ UNCHANGED <<mpc, attempt, failed, slot, lasts, fds, to, table, queue, lost>>
  BY DEF WorkerInit, Polls, LetGo, Started
<1>2. /\ open'[w] = open[w] \ closed /\ \A p \in Processes \ {w} : open'[p] = open[p]
      /\ open' \in [Processes -> SUBSET (Processes \X {0, 1})]
      /\ wpc'[w] = "wait" /\ \A v \in Workers \ {w} : wpc'[v] = wpc[v]
  BY <1>1 DEF MoreTypes
<1>3. \A v \in Processes : <<v, 0>> \in closed => v = w
  OBVIOUS
<1>4. \A v \in Workers : Started(v) /\ slot[v] < slot[w] => <<v, 1>> \in closed
  <2> SUFFICES ASSUME NEW v \in Workers, Started(v), slot[v] < slot[w]
               PROVE  <<v, 1>> \in closed
    OBVIOUS
  <2>1. slot[v] \in Indices /\ slot[v] \in Nat /\ slot[w] \in Nat
    BY DEF TypeOK
  <2>2. table[w][slot[v]].in = v /\ slot[w] = lasts[w]
    BY <1>1, <2>1 DEF TableInv, SlotInv
  <2>3. slot[v] \in Others(w)
    BY <2>1, <2>2 DEF Others
  <2> QED
    BY <2>2, <2>3
<1> HIDE DEF closed
<1>5. TypeOK'
  BY <1>1 DEF TypeOK, MoreTypes
<1>6. MoreTypes'
  BY <1>1, <1>2 DEF MoreTypes
<1>7. SlotInv' /\ PassInv'
  BY <1>1, <1>2 DEF SlotInv, PassInv, Started, Named
<1>8. OpenInv'
  BY <1>1, <1>2 DEF OpenInv, Started
<1>9. TableInv'
  BY <1>1, <1>2, <1>3 DEF TableInv, Started, TypeOK
<1>10. EndInv'
  BY <1>1, <1>2, <1>4 DEF EndInv, Started
<1>11. TellInv'
  BY <1>1, <1>2 DEF TellInv, Started
<1> QED
  BY <1>5, <1>6, <1>7, <1>8, <1>9, <1>10, <1>11

\* An event is reported to a worker.
LEMMA DeliverStep ==
    ASSUME ProcessesAssumption, Ind, NEW v \in Workers, NEW w \in Workers, Deliver(v, w)
    PROVE  Ind'
<1> USE DEF Ind, IInv
<1>1. /\ UNCHANGED <<mpc, attempt, failed, slot, lasts, fds, to, table, open, queue, lost, polled>>
      /\ ready' \subseteq ready
      /\ wpc' = [wpc EXCEPT ![w] = IF @ = "wait" THEN "read" ELSE @]
      /\ wpc[w] \in {"wait", "closed"}
  BY DEF Deliver
<1>2. /\ wpc' \in [Workers -> {"none", "init", "wait", "read", "closed"}]
      /\ \A x \in Workers : wpc'[x] = wpc[x] \/ (wpc[x] = "wait" /\ wpc'[x] = "read")
  <2>1. wpc \in [Workers -> {"none", "init", "wait", "read", "closed"}]
    BY DEF MoreTypes
  <2>2. wpc' = [wpc EXCEPT ![w] = IF wpc[w] = "wait" THEN "read" ELSE wpc[w]]
    BY <1>1
  <2> QED
    BY <2>1, <2>2
<1>3. \A x \in Workers : Started(x)' <=> Started(x)
  BY <1>2 DEF Started
<1>4. TypeOK' /\ MoreTypes'
  BY <1>1, <1>2 DEF TypeOK, MoreTypes
<1>5. SlotInv'
  BY <1>1, <1>3 DEF SlotInv
<1>6. OpenInv'
  BY <1>1, <1>2, <1>3 DEF OpenInv
<1>7. PassInv'
  BY <1>1, <1>3 DEF PassInv, Named
<1>8. TableInv'
  BY <1>1, <1>3 DEF TableInv
<1>9. EndInv'
  BY <1>1, <1>2, <1>3 DEF EndInv
<1>10. TellInv'
  BY SMTT(40), <1>1, <1>3 DEF TellInv
<1> QED
  BY <1>4, <1>5, <1>6, <1>7, <1>8, <1>9, <1>10

\* A worker learns of a later one.
LEMMA ReadOpenStep ==
    ASSUME ProcessesAssumption, Ind, NEW w \in Workers, ReadOpen(w)
    PROVE  Ind'
<1> DEFINE m == Head(queue[w])
           v == m.fd
           row == [table[w] EXCEPT ![m.slot].pid = m.pid, ![m.slot].out = v]
<1>0. /\ wpc[w] = "read"
      /\ queue' = [queue EXCEPT ![w] = Tail(@)]
      /\ table' = [table EXCEPT ![w][m.slot].pid = m.pid, ![w][m.slot].out = m.fd]
      /\ open' = [open EXCEPT ![w] = @ \union {<<v, 0>>}]
      /\ UNCHANGED <<mpc, attempt, failed, slot, lasts, fds, to, lost, polled, ready, wpc>>
  BY DEF ReadOpen
<1>1. /\ wpc[w] = "read" /\ Started(w)
      /\ queue' = [queue EXCEPT ![w] = Tail(@)]
      /\ table' = [table EXCEPT ![w] = row]
      /\ open' = [open EXCEPT ![w] = @ \union {<<v, 0>>}]
      /\ UNCHANGED <<mpc, attempt, failed, slot, lasts, fds, to, lost, polled, ready, wpc>>
  <2>1. Started(w)
    BY <1>0 DEF Started
  <2>2. w \in DOMAIN table
    BY Numbers DEF Ind, TypeOK
  <2>3. table' = [table EXCEPT ![w] = row]
    <3> HIDE DEF m
    <3> QED
      BY <1>0, <2>2
  <2> HIDE DEF m, v, row
  <2> QED
    BY <1>0, <2>1, <2>3
<1>2. /\ queue[w] \in Seq(Message) /\ queue[w] # << >>
      /\ 1 \in DOMAIN queue[w] /\ m = queue[w][1]
      /\ Tail(queue[w]) \in Seq(Message)
      /\ \A i \in DOMAIN Tail(queue[w]) : i + 1 \in DOMAIN queue[w] /\ Tail(queue[w])[i] = queue[w][i + 1]
      /\ \A i \in DOMAIN queue[w] \ {1} : i - 1 \in DOMAIN Tail(queue[w]) /\ Tail(queue[w])[i - 1] = queue[w][i]
  <2>1. queue[w] \in Seq(Message) /\ queue[w] # << >>
    BY DEF Ind, IInv, ReadOpen, MoreTypes
  <2> QED
    BY <2>1, HeadTail
<1>3. /\ v \in Workers \ {w} /\ Started(v) /\ m.pid = v /\ m.slot = slot[v]
      /\ slot[v] \in Indices /\ slot[v] # slot[w]
  <2>1. v \in Workers \ {w} /\ Started(v) /\ m.pid = v /\ m.slot = slot[v]
    <3> HIDE DEF m, row
    <3> QED
      BY <1>2 DEF Ind, IInv, PassInv
  <2> HIDE DEF m, v, row
  <2>2. slot[v] \in Indices
    BY <2>1, Numbers DEF Ind, TypeOK
  <2>3. slot[v] # slot[w]
    BY <1>1, <2>1, SlotsDiffer DEF Ind, IInv
  <2> QED
    BY <2>1, <2>2, <2>3
<1>4. /\ row \in [Indices -> Entry]
      /\ row[slot[v]].pid = v /\ row[slot[v]].out = v /\ row[slot[v]].in = table[w][slot[v]].in
      /\ \A s \in Indices \ {slot[v]} : row[s] = table[w][s]
  <2>1. table[w] \in [Indices -> Entry]
    BY Numbers DEF Ind, TypeOK
  <2>2. row = [table[w] EXCEPT ![slot[v]].pid = v, ![slot[v]].out = v]
    <3> HIDE DEF m, v
    <3> QED
      BY <1>3
  <2> HIDE DEF m, v, row
  <2>3. slot[v] \in Indices /\ v \in Processes
    BY <1>3, Numbers
  <2> QED
    BY <2>1, <2>2, <2>3 DEF Entry
<1> USE Numbers DEF ProcessesAssumption, Ind, IInv
<1> HIDE DEF m, v, row
<1>5. /\ table' \in [Processes -> [Indices -> Entry]]
      /\ table'[w] = row /\ \A p \in Processes \ {w} : table'[p] = table[p]
  BY <1>1, <1>4 DEF TypeOK
<1>6. /\ queue' \in [Workers -> Seq(Message)]
      /\ queue'[w] = Tail(queue[w]) /\ \A x \in Workers \ {w} : queue'[x] = queue[x]
  BY <1>1, <1>2 DEF MoreTypes
<1>7. /\ open' \in [Processes -> SUBSET (Processes \X {0, 1})]
      /\ open'[w] = open[w] \union {<<v, 0>>} /\ \A p \in Processes \ {w} : open'[p] = open[p]
  BY <1>1, <1>3 DEF MoreTypes
<1>8. TypeOK'
  BY <1>1, <1>5 DEF TypeOK
<1>9. MoreTypes'
  BY <1>1, <1>6, <1>7 DEF MoreTypes
<1>10. SlotInv'
  BY <1>1, <1>5 DEF SlotInv, Started
<1>11. OpenInv'
  <2>1. open'[Master] = open[Master]
    BY <1>7
  <2> QED
    BY <1>1, <2>1 DEF OpenInv, Started
<1>12. PassInv'
  <2>1. Named(slot', table') = Named(slot, table)
    BY <1>1, <1>5 DEF Named
  <2>2. \A x \in Workers : \A i \in DOMAIN queue'[x] : \E j \in DOMAIN queue[x] : queue'[x][i] = queue[x][j]
    BY SMTT(40), <1>2, <1>6
  <2> QED
    BY <1>1, <2>1, <2>2 DEF PassInv, Started
<1>13. TableInv'
  <2> SUFFICES ASSUME NEW x \in Workers, Started(x)
               PROVE  /\ lasts[x] = slot[x]
                      /\ \A s \in Indices : s < slot[x] =>
                            /\ table'[x][s].pid = table[Master][s].pid
                            /\ table'[x][s].in = table[Master][s].pid
                      /\ \A s \in Indices : s # slot[x] /\ table'[x][s].pid # None =>
                            /\ table'[x][s].pid \in Workers /\ Started(table'[x][s].pid)
                            /\ slot[table'[x][s].pid] = s /\ table'[x][s].out = table'[x][s].pid
                            /\ <<table'[x][s].pid, 0>> \in open'[x]
    BY <1>1, <1>5 DEF TableInv, Started
  <2>1. table[Master][slot[v]].pid = v
    BY <1>3 DEF SlotInv
  <2>2. /\ lasts[x] = slot[x]
        /\ \A s \in Indices : s < slot[x] =>
              table[x][s].pid = table[Master][s].pid /\ table[x][s].in = table[Master][s].pid
        /\ \A s \in Indices : s # slot[x] /\ table[x][s].pid # None =>
              /\ table[x][s].pid \in Workers /\ Started(table[x][s].pid)
              /\ slot[table[x][s].pid] = s /\ table[x][s].out = table[x][s].pid
              /\ <<table[x][s].pid, 0>> \in open[x]
    BY DEF TableInv
  <2>3. CASE x # w
    BY <1>5, <1>7, <2>2, <2>3
  <2>4. CASE x = w
    <3>1. ASSUME NEW s \in Indices, s < slot[w]
          PROVE  row[s].pid = table[Master][s].pid /\ row[s].in = table[Master][s].pid
      BY <1>3, <1>4, <2>1, <2>2, <2>4, <3>1
    <3>2. ASSUME NEW s \in Indices, s # slot[w], row[s].pid # None
          PROVE  /\ row[s].pid \in Workers /\ Started(row[s].pid)
                 /\ slot[row[s].pid] = s /\ row[s].out = row[s].pid
                 /\ <<row[s].pid, 0>> \in open'[w]
      BY <1>3, <1>4, <1>7, <2>2, <2>4, <3>2
    <3> QED
      BY <1>5, <2>2, <2>4, <3>1, <3>2
  <2> QED
    BY <2>3, <2>4
<1>14. EndInv'
  BY <1>1, <1>7 DEF EndInv, Started
<1>15. TellInv'
  <2> SUFFICES ASSUME mpc # "dead", NEW x \in Workers, NEW y \in Workers, Started(x), Started(y), slot[y] < slot[x]
               PROVE  \/ table'[y][slot[x]].pid = x
                      \/ \E i \in DOMAIN queue'[y] : queue'[y][i].fd = x
                      \/ <<y, x>> \in lost
                      \/ mpc = "pass" /\ slot[Master] = slot[x] /\ to <= slot[y]
    BY <1>1 DEF TellInv, Started
  <2>1. \/ table[y][slot[x]].pid = x
        \/ \E i \in DOMAIN queue[y] : queue[y][i].fd = x
        \/ <<y, x>> \in lost
        \/ mpc = "pass" /\ slot[Master] = slot[x] /\ to <= slot[y]
    BY DEF TellInv
  <2>2. CASE y # w
    BY <1>5, <1>6, <2>1, <2>2
  <2>3. CASE y = w /\ slot[x] = slot[v]
    <3>1. x = v
      BY <1>3, <2>3, SlotsDiffer
    <3> QED
      BY <1>3, <1>4, <1>5, <2>3, <3>1
  <2>4. CASE y = w /\ slot[x] # slot[v]
    <3>1. slot[x] \in Indices /\ x # v
      BY <2>4 DEF TypeOK
    <3>2. \A i \in DOMAIN queue[w] : queue[w][i].fd = x => i # 1
      BY <1>2, <3>1 DEF v
    <3>3. table'[w][slot[x]] = table[w][slot[x]]
      BY <1>4, <1>5, <2>4, <3>1
    <3>4. ASSUME NEW i \in DOMAIN queue[w], queue[w][i].fd = x
          PROVE  \E j \in DOMAIN queue'[w] : queue'[w][j].fd = x
      BY <1>2, <1>6, <3>2, <3>4
    <3> QED
      BY <2>1, <2>4, <3>3, <3>4
  <2> QED
    BY <2>2, <2>3, <2>4
<1> QED
  BY <1>8, <1>9, <1>10, <1>11, <1>12, <1>13, <1>14, <1>15

\* A worker finds nothing to read, or that nobody is left to send.
LEMMA ReadNothingStep ==
    ASSUME ProcessesAssumption, Ind, NEW w \in Workers, ReadNothing(w)
    PROVE  Ind'
<1> USE Numbers DEF ProcessesAssumption, Ind, IInv
<1>1. /\ wpc[w] = "read" /\ Started(w)
      /\ UNCHANGED <<mpc, attempt, failed, slot, lasts, fds, to, table, queue, lost>>
  BY DEF ReadNothing, Started
<1>2. \/ /\ mpc = "dead"
         /\ wpc' = [wpc EXCEPT ![w] = "closed"]
         /\ open' = [open EXCEPT ![w] = @ \ {<<w, 1>>}]
         /\ polled' = polled \ {w} /\ ready' = ready \ {w}
      \/ /\ wpc' = [wpc EXCEPT ![w] = "wait"]
         /\ UNCHANGED <<open, polled, ready>>
  <2>1. Fails(w) => mpc = "dead"
    BY <1>1 DEF Fails, Held, OpenInv
  <2> QED
    BY <2>1 DEF ReadNothing, Unpolled
<1>3. /\ open' \in [Processes -> SUBSET (Processes \X {0, 1})]
      /\ \A p \in Processes \ {w} : open'[p] = open[p]
      /\ open'[w] \subseteq open[w] /\ \A v \in Processes : <<v, 0>> \in open[w] => <<v, 0>> \in open'[w]
  <2>1. open \in [Processes -> SUBSET (Processes \X {0, 1})]
    BY DEF MoreTypes
  <2>2. CASE open' = open
    BY <2>1, <2>2
  <2>3. CASE open' = [open EXCEPT ![w] = @ \ {<<w, 1>>}]
    <3>1. open'[w] = open[w] \ {<<w, 1>>} /\ \A p \in Processes \ {w} : open'[p] = open[p]
      BY <2>1, <2>3
    <3>2. open' \in [Processes -> SUBSET (Processes \X {0, 1})]
      BY <2>1, <2>3
    <3>3. \A v \in Processes : <<v, 0>> \in open[w] => <<v, 0>> \in open'[w]
      BY <3>1
    <3> QED
      BY <3>1, <3>2, <3>3
  <2> QED
    BY <1>2, <2>2, <2>3
<1>4. /\ wpc'[w] \in {"wait", "closed"} /\ (wpc'[w] = "closed" => mpc = "dead")
      /\ \A v \in Workers \ {w} : wpc'[v] = wpc[v]
      /\ wpc' \in [Workers -> {"none", "init", "wait", "read", "closed"}]
  BY <1>2 DEF MoreTypes
<1>5. TypeOK'
  BY <1>1, <1>2 DEF TypeOK, MoreTypes
<1>6. MoreTypes'
  BY <1>1, <1>3, <1>4 DEF MoreTypes
<1>7. SlotInv' /\ PassInv'
  BY <1>1, <1>4 DEF SlotInv, PassInv, Started, Named
<1>8. OpenInv'
  BY <1>1, <1>3, <1>4 DEF OpenInv, Started
<1>9. TableInv'
  BY <1>1, <1>3, <1>4 DEF TableInv, Started
<1>10. EndInv'
  BY <1>1, <1>3, <1>4 DEF EndInv, Started
<1>11. TellInv'
  BY <1>1, <1>4 DEF TellInv, Started
<1> QED
  BY <1>5, <1>6, <1>7, <1>8, <1>9, <1>10, <1>11

\* The initial states satisfy the types and the invariant.
LEMMA InitInv == ProcessesAssumption /\ Init => Ind
<1> SUFFICES ASSUME ProcessesAssumption, Init PROVE Ind
  OBVIOUS
<1> USE DEF Init, ProcessesAssumption
<1>1. TypeOK
  BY DEF TypeOK, Indices, Processes, Master, Entry, Unused, None
<1>2. MoreTypes
  BY DEF MoreTypes, Message, Indices, Processes, Master, None
<1>3. SlotInv
  BY DEF SlotInv, Started, Indices, Processes, Master, Unused, None, Workers
<1>4. OpenInv /\ PassInv /\ TableInv /\ EndInv /\ TellInv
  BY DEF OpenInv, PassInv, TableInv, EndInv, TellInv, Started, Processes, Master
<1> QED
  BY <1>1, <1>2, <1>3, <1>4 DEF Ind, IInv

\* Every step keeps them.
LEMMA StepInv == ProcessesAssumption /\ Ind /\ [Next]_vars => Ind'
<1> SUFFICES ASSUME ProcessesAssumption, Ind, [Next]_vars PROVE Ind'
  OBVIOUS
<1>1. CASE MasterSteps
  BY <1>1, SpawnStep, SpawnFailsStep, SetupFailsStep, PassOneStep, PassLostStep, PassDoneStep
     DEF MasterSteps
<1>2. ASSUME NEW w \in Workers, WorkerSteps(w) PROVE Ind'
  BY <1>2, WorkerInitStep, DeliverStep, ReadOpenStep, ReadNothingStep DEF WorkerSteps
<1>3. CASE UNCHANGED vars
  <2> USE <1>3 DEF vars, Ind, IInv
  <2>1. TypeOK' /\ MoreTypes'
    BY DEF TypeOK, MoreTypes
  <2>2. SlotInv' /\ OpenInv'
    BY DEF SlotInv, OpenInv, Started
  <2>3. PassInv'
    BY DEF PassInv, Started, Named
  <2>4. TableInv'
    BY DEF TableInv, Started
  <2>5. EndInv' /\ TellInv'
    BY DEF EndInv, TellInv, Started
  <2> QED
    BY <2>1, <2>2, <2>3, <2>4, <2>5
<1> QED
  BY <1>1, <1>2, <1>3, MasterDiesStep DEF Next

-----------------------------------------------------------------------------
(* Theorems.                                                               *)

\* The types and the invariant hold in every reachable state.
THEOREM Invariance ==
    ASSUME ProcessesAssumption
    PROVE  Spec => []Ind
<1>1. Init => Ind
  BY InitInv
<1>2. Ind /\ [Next]_vars => Ind'
  BY StepInv
<1> QED
  BY <1>1, <1>2, PTL DEF Spec

\* What a worker of stu_process.c knows of another is right, also after spawns that
\* failed; when its messages are read it knows all; nobody else can take its messages,
\* and it gives its socket up only when the master has gone.
THEOREM WorkersAgreeAlways ==
    ASSUME ProcessesAssumption
    PROVE  Spec => []WorkersAgree
<1>1. Ind => WorkersAgree
  <2> SUFFICES ASSUME Ind PROVE WorkersAgree
    OBVIOUS
  <2> USE DEF Ind, IInv
  <2>1. KnownRight
    BY DEF KnownRight, TableInv, Running, Started
  <2>2. KnowsAll
    <3> SUFFICES ASSUME NEW w \in Workers, mpc = "suspend", Running(w), queue[w] = <<>>,
                        NEW v \in Workers \ {w}, Started(v), <<w, v>> \notin lost
                 PROVE  table[w][slot[v]].pid = v
      BY DEF KnowsAll
    <3>1. Started(w) /\ slot[v] # slot[w] /\ slot[v] \in Nat /\ slot[w] \in Nat /\ slot[v] \in Indices
      BY SlotsDiffer DEF Started, Running, TypeOK, Indices, Processes
    <3>2. CASE slot[v] < slot[w]
      BY <3>1, <3>2 DEF TableInv, SlotInv
    <3>3. CASE slot[w] < slot[v]
      BY <3>1, <3>3 DEF TellInv
    <3> QED
      BY <3>1, <3>2, <3>3
  <2>3. ReadEndPrivate
    BY DEF ReadEndPrivate, EndInv, Running, Started, Processes
  <2>4. ClosedAfterMaster
    BY DEF ClosedAfterMaster, OpenInv
  <2> QED
    BY <2>1, <2>2, <2>3, <2>4 DEF WorkersAgree
<1> QED
  BY <1>1, Invariance, PTL
=============================================================================
