---------------------------- MODULE ChannelProofs ----------------------------
(***************************************************************************)
(* Proofs about Channel for any number of threads, connections, channel    *)
(* ids and addresses, with or without failing allocations and sends.       *)
(*                                                                         *)
(* One lemma per action shows that it keeps TypeOK and the inductive       *)
(* invariant IInv; Invariance puts them together, and the properties       *)
(* follow from IInv, or from IInv and one more look at the actions.        *)
(***************************************************************************)
EXTENDS ChannelInvariant, TLAPS

\* The state a step starts from.
Inv == TypeOK /\ IInv

-----------------------------------------------------------------------------
(* Each action keeps the types, the mutex ownership, the table, the        *)
(* membership and, as long as send() never fails, the openness of members. *)

\* Deliver keeps TypeOK and IInv.
LEMMA DeliverStep ==
    ASSUME TypeOK, LockInv, TableInv, MemberInv, OpenInv, ub = "none",
      NEW t \in Threads, NEW c \in Conns, Deliver(t, c)
    PROVE  TypeOK' /\ IInv'
<1> USE ConstantsAssumption DEF Deliver, Goto, heap, locks, stack, Members
<1>1. TypeOK'
  BY DEF TypeOK, Pcs, InsertPcs, RemovePcs, BcastPcs, PushPcs, HttpPcs,
      LoopPcs, ConnPcs
<1>2. LockInv'
  BY DEF TypeOK, LockInv, TablePcs, TimerPcs, UserPcs, HandlerPcs, InsertPcs,
      RemovePcs, BcastPcs, HttpPcs
<1>3. TableInv'
  BY DEF TypeOK, TableInv, InsertPcs
<1>4. MemberInv'
  <2>1. ListInv'
    BY DEF TypeOK, MemberInv, ListInv
  <2>2. HandlerInv'
    BY DEF TypeOK, MemberInv, HandlerInv
  <2>3. PhaseInv'
    BY DEF TypeOK, LockInv, MemberInv, PhaseInv, AskingPcs, JoiningPcs,
        HandlerPcs, HttpPcs, InsertPcs, BcastPcs, RemovePcs
  <2>4. WebsocketInv'
    BY DEF TypeOK, LockInv, MemberInv, WebsocketInv, LeavingPcs, HandlerPcs,
        HttpPcs, InsertPcs, BcastPcs, RemovePcs
  <2>5. HttpInv'
    BY DEF TypeOK, MemberInv, HttpInv, JoiningPcs, LeavingPcs
  <2>6. TodoInv'
    BY DEF TypeOK, MemberInv, TodoInv
  <2> QED
    BY <2>1, <2>2, <2>3, <2>4, <2>5, <2>6 DEF MemberInv
<1>5. OpenInv'
  BY DEF TypeOK, OpenInv, LeavingPcs
<1> QED
  BY <1>1, <1>2, <1>3, <1>4, <1>5 DEF IInv

\* HttpNothingToRead keeps TypeOK and IInv.
LEMMA HttpNothingToReadStep ==
    ASSUME TypeOK, LockInv, TableInv, MemberInv, OpenInv, ub = "none",
      NEW t \in Threads, HttpNothingToRead(t)
    PROVE  TypeOK' /\ IInv'
<1> USE ConstantsAssumption DEF HttpNothingToRead, Goto, heap, locks, stack,
    Members, SetUp
<1>1. TypeOK'
  BY DEF TypeOK, Pcs, InsertPcs, RemovePcs, BcastPcs, PushPcs, HttpPcs,
      LoopPcs, ConnPcs
<1>2. LockInv'
  BY DEF LockInv, TablePcs, TimerPcs, UserPcs, HandlerPcs, InsertPcs,
      RemovePcs, BcastPcs, HttpPcs
<1>3. TableInv'
  BY DEF TypeOK, TableInv, InsertPcs
<1>4. MemberInv'
  BY DEF TypeOK, MemberInv, ListInv, HandlerInv, PhaseInv, WebsocketInv,
      HttpInv, TodoInv, LeavingPcs, AskingPcs, JoiningPcs, BcastPcs
<1>5. OpenInv'
  BY DEF TypeOK, OpenInv, LeavingPcs
<1> QED
  BY <1>1, <1>2, <1>3, <1>4, <1>5 DEF IInv

\* HttpPartial keeps TypeOK and IInv.
LEMMA HttpPartialStep ==
    ASSUME TypeOK, LockInv, TableInv, MemberInv, OpenInv, ub = "none",
      NEW t \in Threads, HttpPartial(t)
    PROVE  TypeOK' /\ IInv'
<1> USE ConstantsAssumption DEF HttpPartial, Goto, heap, locks, stack, Members,
    SetUp
<1>1. TypeOK'
  BY DEF TypeOK, Pcs, InsertPcs, RemovePcs, BcastPcs, PushPcs, HttpPcs,
      LoopPcs, ConnPcs
<1>2. LockInv'
  BY DEF LockInv, TablePcs, TimerPcs, UserPcs, HandlerPcs, InsertPcs,
      RemovePcs, BcastPcs, HttpPcs
<1>3. TableInv'
  BY DEF TypeOK, TableInv, InsertPcs
<1>4. MemberInv'
  BY DEF TypeOK, MemberInv, ListInv, HandlerInv, PhaseInv, WebsocketInv,
      HttpInv, TodoInv, LeavingPcs, AskingPcs, JoiningPcs, BcastPcs
<1>5. OpenInv'
  BY DEF TypeOK, OpenInv, LeavingPcs
<1> QED
  BY <1>1, <1>2, <1>3, <1>4, <1>5 DEF IInv

\* HttpHangup keeps TypeOK and IInv.
LEMMA HttpHangupStep ==
    ASSUME TypeOK, LockInv, TableInv, MemberInv, OpenInv, ub = "none",
      NEW t \in Threads, HttpHangup(t)
    PROVE  TypeOK' /\ IInv'
<1> USE ConstantsAssumption DEF HttpHangup, Goto, heap, locks, stack, Members
<1>1. TypeOK'
  BY DEF TypeOK, Pcs, InsertPcs, RemovePcs, BcastPcs, PushPcs, HttpPcs,
      LoopPcs, ConnPcs
<1>2. LockInv'
  BY DEF LockInv, TablePcs, TimerPcs, UserPcs, HandlerPcs, InsertPcs,
      RemovePcs, BcastPcs, HttpPcs
<1>3. TableInv'
  BY DEF TypeOK, TableInv, InsertPcs
<1>4. MemberInv'
  BY DEF TypeOK, MemberInv, ListInv, HandlerInv, PhaseInv, WebsocketInv,
      HttpInv, TodoInv, LeavingPcs, AskingPcs, JoiningPcs, BcastPcs
<1>5. OpenInv'
  BY DEF TypeOK, LockInv, TableInv, MemberInv, ListInv, HandlerInv, PhaseInv,
      WebsocketInv, HttpInv, TodoInv, LeavingPcs, AskingPcs, JoiningPcs,
      OpenInv, TablePcs, TimerPcs, UserPcs, HandlerPcs, InsertPcs, RemovePcs,
      BcastPcs, HttpPcs, Pcs, LoopPcs, ConnPcs, PushPcs
<1> QED
  BY <1>1, <1>2, <1>3, <1>4, <1>5 DEF IInv

\* A new user id moves elements from users to stray, and nothing else.
LEMMA ResetMoves ==
    ASSUME TypeOK, NEW c, ResetId(c) \/ UNCHANGED <<users, stray>>
    PROVE  \A o \in Objs :
             /\ users'[o] \cup stray'[o] = users[o] \cup stray[o]
             /\ users'[o] \subseteq users[o]
             /\ stray'[o] \subseteq stray[o] \cup (users[o] \cap {c})
<1>1. CASE ResetId(c)
  BY <1>1 DEF ResetId, TypeOK
<1>2. CASE UNCHANGED <<users, stray>>
  BY <1>2
<1> QED
  BY <1>1, <1>2

\* HttpRefuse keeps TypeOK and IInv.
LEMMA HttpRefuseStep ==
    ASSUME TypeOK, LockInv, TableInv, MemberInv, OpenInv, ub = "none",
      NEW t \in Threads, HttpRefuse(t)
    PROVE  TypeOK' /\ IInv'
<1> USE ConstantsAssumption DEF HttpRefuse, Goto, heap, locks, stack, Members,
    ResetId
<1>1. TypeOK'
  BY DEF TypeOK, Pcs, InsertPcs, RemovePcs, BcastPcs, PushPcs, HttpPcs,
      LoopPcs, ConnPcs
<1>2. LockInv'
  BY DEF LockInv, TablePcs, TimerPcs, UserPcs, HandlerPcs, InsertPcs,
      RemovePcs, BcastPcs, HttpPcs
<1> HIDE DEF HttpRefuse, ResetId
<1>r. ResetId(tc[t]) \/ UNCHANGED <<users, stray>>
  BY DEF HttpRefuse
<1>m. \A o \in Objs : /\ users'[o] \cup stray'[o] = users[o] \cup stray[o]
                       /\ users'[o] \subseteq users[o]
                       /\ stray'[o] \subseteq stray[o] \cup (users[o] \cap {tc[t]})
  BY <1>r, ResetMoves
<1>s. /\ pc[t] = "http" /\ pc' = [pc EXCEPT ![t] = "reject"]
      /\ UNCHANGED <<table, alive, cid, uchan, to, tid, tc, ctodo, stale>>
  BY DEF HttpRefuse
<1>3. TableInv'
  BY <1>m, <1>s DEF TypeOK, TableInv, InsertPcs
<1> USE DEF HttpRefuse, ResetId
<1>4. MemberInv'
  <2> HIDE DEF HttpRefuse, ResetId
  <2>1. ListInv'
    BY <1>m, <1>s DEF MemberInv, ListInv, PhaseInv, AskingPcs
  <2> USE DEF HttpRefuse, ResetId
  <2>2. HandlerInv'
    BY DEF TypeOK, LockInv, MemberInv, ListInv, HandlerInv, PhaseInv,
        WebsocketInv, HttpInv, TodoInv, LeavingPcs, AskingPcs, JoiningPcs,
        TablePcs, TimerPcs, UserPcs, HandlerPcs, InsertPcs, RemovePcs,
        BcastPcs, HttpPcs
  <2>3. PhaseInv'
    BY DEF TypeOK, LockInv, MemberInv, PhaseInv, AskingPcs, JoiningPcs,
        HandlerPcs, HttpPcs, InsertPcs, BcastPcs, RemovePcs
  <2>4. WebsocketInv'
    BY DEF TypeOK, LockInv, MemberInv, WebsocketInv, LeavingPcs, HandlerPcs,
        HttpPcs, InsertPcs, BcastPcs, RemovePcs
  <2>5. HttpInv'
    BY DEF TypeOK, MemberInv, HttpInv, JoiningPcs, LeavingPcs
  <2>6. TodoInv'
    BY DEF TableInv, TypeOK, LockInv, MemberInv, ListInv, HandlerInv, PhaseInv,
        WebsocketInv, HttpInv, TodoInv, LeavingPcs, AskingPcs, JoiningPcs,
        TablePcs, TimerPcs, UserPcs, HandlerPcs, InsertPcs, RemovePcs,
        BcastPcs, HttpPcs
  <2> QED
    BY <2>1, <2>2, <2>3, <2>4, <2>5, <2>6 DEF MemberInv
<1>5. OpenInv'
  BY DEF TypeOK, OpenInv, LeavingPcs
<1> QED
  BY <1>1, <1>2, <1>3, <1>4, <1>5 DEF IInv

\* HttpUpgrade keeps TypeOK and IInv.
LEMMA HttpUpgradeStep ==
    ASSUME TypeOK, LockInv, TableInv, MemberInv, OpenInv, ub = "none",
      NEW t \in Threads, NEW i \in Ids, HttpUpgrade(t, i)
    PROVE  TypeOK' /\ IInv'
<1> USE ConstantsAssumption DEF HttpUpgrade, Goto, heap, locks, stack, Members,
    ResetId
<1>1. TypeOK'
  BY DEF TypeOK, Pcs, InsertPcs, RemovePcs, BcastPcs, PushPcs, HttpPcs,
      LoopPcs, ConnPcs
<1>2. LockInv'
  BY DEF LockInv, TablePcs, TimerPcs, UserPcs, HandlerPcs, InsertPcs,
      RemovePcs, BcastPcs, HttpPcs
<1>3. TableInv'
  BY DEF TypeOK, TableInv, InsertPcs
<1>4. MemberInv'
  <2>1. ListInv'
    BY DEF TypeOK, LockInv, MemberInv, ListInv, HandlerInv, PhaseInv,
        WebsocketInv, HttpInv, TodoInv, LeavingPcs, AskingPcs, JoiningPcs,
        TablePcs, TimerPcs, UserPcs, HandlerPcs, InsertPcs, RemovePcs,
        BcastPcs, HttpPcs
  <2>2. HandlerInv'
    BY DEF TypeOK, LockInv, MemberInv, ListInv, HandlerInv, PhaseInv,
        WebsocketInv, HttpInv, TodoInv, LeavingPcs, AskingPcs, JoiningPcs,
        TablePcs, TimerPcs, UserPcs, HandlerPcs, InsertPcs, RemovePcs,
        BcastPcs, HttpPcs
  <2>3. PhaseInv'
    BY DEF TypeOK, LockInv, MemberInv, PhaseInv, AskingPcs, JoiningPcs,
        HandlerPcs, HttpPcs, InsertPcs, BcastPcs, RemovePcs
  <2>4. WebsocketInv'
    BY DEF TypeOK, LockInv, MemberInv, WebsocketInv, LeavingPcs, HandlerPcs,
        HttpPcs, InsertPcs, BcastPcs, RemovePcs
  <2>5. HttpInv'
    BY DEF TypeOK, MemberInv, HttpInv, JoiningPcs, LeavingPcs
  <2>6. TodoInv'
    BY DEF TableInv, TypeOK, LockInv, MemberInv, ListInv, HandlerInv, PhaseInv,
        WebsocketInv, HttpInv, TodoInv, LeavingPcs, AskingPcs, JoiningPcs,
        TablePcs, TimerPcs, UserPcs, HandlerPcs, InsertPcs, RemovePcs,
        BcastPcs, HttpPcs
  <2> QED
    BY <2>1, <2>2, <2>3, <2>4, <2>5, <2>6 DEF MemberInv
<1>5. OpenInv'
  BY DEF TypeOK, OpenInv, LeavingPcs
<1> QED
  BY <1>1, <1>2, <1>3, <1>4, <1>5 DEF IInv

\* WsNothingToRead keeps TypeOK and IInv.
LEMMA WsNothingToReadStep ==
    ASSUME TypeOK, LockInv, TableInv, MemberInv, OpenInv, ub = "none",
      NEW t \in Threads, WsNothingToRead(t)
    PROVE  TypeOK' /\ IInv'
<1> USE ConstantsAssumption DEF WsNothingToRead, Goto, heap, locks, stack,
    Members, SetUp
<1>1. TypeOK'
  BY DEF TypeOK, Pcs, InsertPcs, RemovePcs, BcastPcs, PushPcs, HttpPcs,
      LoopPcs, ConnPcs
<1>2. LockInv'
  BY DEF LockInv, TablePcs, TimerPcs, UserPcs, HandlerPcs, InsertPcs,
      RemovePcs, BcastPcs, HttpPcs
<1>3. TableInv'
  BY DEF TypeOK, TableInv, InsertPcs
<1>4. MemberInv'
  BY DEF TypeOK, MemberInv, ListInv, HandlerInv, PhaseInv, WebsocketInv,
      HttpInv, TodoInv, LeavingPcs, AskingPcs, JoiningPcs, BcastPcs
<1>5. OpenInv'
  BY DEF TypeOK, OpenInv, LeavingPcs
<1> QED
  BY <1>1, <1>2, <1>3, <1>4, <1>5 DEF IInv

\* WsMessage keeps TypeOK and IInv.
LEMMA WsMessageStep ==
    ASSUME TypeOK, LockInv, TableInv, MemberInv, OpenInv, ub = "none",
      NEW t \in Threads, WsMessage(t)
    PROVE  TypeOK' /\ IInv'
<1> USE ConstantsAssumption DEF WsMessage, Goto, heap, locks, stack, Members,
    SetUp
<1>1. TypeOK'
  BY DEF TypeOK, LockInv, HandlerPcs, Pcs, InsertPcs, RemovePcs, BcastPcs,
      PushPcs, HttpPcs, LoopPcs, ConnPcs
<1>2. LockInv'
  BY DEF LockInv, TablePcs, TimerPcs, UserPcs, HandlerPcs, InsertPcs,
      RemovePcs, BcastPcs, HttpPcs
<1>3. TableInv'
  BY DEF TypeOK, TableInv, InsertPcs
<1>4. MemberInv'
  <2>1. ListInv'
    BY DEF TypeOK, MemberInv, ListInv
  <2>2. HandlerInv'
    BY DEF TypeOK, LockInv, MemberInv, ListInv, HandlerInv, PhaseInv,
        WebsocketInv, HttpInv, TodoInv, LeavingPcs, AskingPcs, JoiningPcs,
        TablePcs, TimerPcs, UserPcs, HandlerPcs, InsertPcs, RemovePcs,
        BcastPcs, HttpPcs
  <2>3. PhaseInv'
    BY DEF TypeOK, LockInv, MemberInv, PhaseInv, AskingPcs, JoiningPcs,
        HandlerPcs, HttpPcs, InsertPcs, BcastPcs, RemovePcs
  <2>4. WebsocketInv'
    BY DEF TypeOK, LockInv, MemberInv, WebsocketInv, LeavingPcs, HandlerPcs,
        HttpPcs, InsertPcs, BcastPcs, RemovePcs
  <2>5. HttpInv'
    BY DEF TypeOK, MemberInv, HttpInv, JoiningPcs, LeavingPcs
  <2>6. TodoInv'
    BY DEF TypeOK, MemberInv, TodoInv
  <2> QED
    BY <2>1, <2>2, <2>3, <2>4, <2>5, <2>6 DEF MemberInv
<1>5. OpenInv'
  BY DEF TypeOK, OpenInv, LeavingPcs
<1> QED
  BY <1>1, <1>2, <1>3, <1>4, <1>5 DEF IInv

\* WsRefuse keeps TypeOK and IInv.
LEMMA WsRefuseStep ==
    ASSUME TypeOK, LockInv, TableInv, MemberInv, OpenInv, ub = "none",
      NEW t \in Threads, WsRefuse(t)
    PROVE  TypeOK' /\ IInv'
<1> USE ConstantsAssumption DEF WsRefuse, Goto, heap, locks, stack, Members,
    SetUp
<1>1. TypeOK'
  BY DEF TypeOK, Pcs, InsertPcs, RemovePcs, BcastPcs, PushPcs, HttpPcs,
      LoopPcs, ConnPcs
<1>2. LockInv'
  BY DEF LockInv, TablePcs, TimerPcs, UserPcs, HandlerPcs, InsertPcs,
      RemovePcs, BcastPcs, HttpPcs
<1>3. TableInv'
  BY DEF TypeOK, TableInv, InsertPcs
<1>4. MemberInv'
  BY DEF TypeOK, MemberInv, ListInv, HandlerInv, PhaseInv, WebsocketInv,
      HttpInv, TodoInv, LeavingPcs, AskingPcs, JoiningPcs, BcastPcs
<1>5. OpenInv'
  BY DEF TypeOK, OpenInv, LeavingPcs
<1> QED
  BY <1>1, <1>2, <1>3, <1>4, <1>5 DEF IInv

\* WsClose keeps TypeOK and IInv.
LEMMA WsCloseStep ==
    ASSUME TypeOK, LockInv, TableInv, MemberInv, OpenInv, ub = "none",
      NEW t \in Threads, WsClose(t)
    PROVE  TypeOK' /\ IInv'
<1> USE ConstantsAssumption DEF WsClose, Goto, heap, locks, stack, Members
<1>1. TypeOK'
  BY DEF TypeOK, LockInv, HandlerPcs, Pcs, InsertPcs, RemovePcs, BcastPcs,
      PushPcs, HttpPcs, LoopPcs, ConnPcs
<1>2. LockInv'
  BY DEF LockInv, TablePcs, TimerPcs, UserPcs, HandlerPcs, InsertPcs,
      RemovePcs, BcastPcs, HttpPcs
<1>3. TableInv'
  BY DEF TypeOK, TableInv, InsertPcs
<1>4. MemberInv'
  BY DEF TypeOK, LockInv, MemberInv, ListInv, HandlerInv, PhaseInv,
      WebsocketInv, HttpInv, TodoInv, LeavingPcs, AskingPcs, JoiningPcs,
      TablePcs, TimerPcs, UserPcs, HandlerPcs, InsertPcs, RemovePcs, BcastPcs,
      HttpPcs
<1>5. OpenInv'
  BY DEF TypeOK, OpenInv, LeavingPcs
<1> QED
  BY <1>1, <1>2, <1>3, <1>4, <1>5 DEF IInv

\* FindTimer keeps TypeOK and IInv.
LEMMA FindTimerStep ==
    ASSUME TypeOK, LockInv, TableInv, MemberInv, OpenInv, ub = "none",
      NEW t \in Threads, FindTimer(t)
    PROVE  TypeOK' /\ IInv'
<1> USE ConstantsAssumption DEF FindTimer, Goto, heap, locks, stack, Members
<1>1. TypeOK'
  BY DEF TypeOK, Pcs, InsertPcs, RemovePcs, BcastPcs, PushPcs, HttpPcs,
      LoopPcs, ConnPcs
<1>2. LockInv'
  BY DEF LockInv, TablePcs, TimerPcs, UserPcs, HandlerPcs, InsertPcs,
      RemovePcs, BcastPcs, HttpPcs
<1>3. TableInv'
  BY DEF TypeOK, TableInv, InsertPcs
<1>4. MemberInv'
  BY DEF TypeOK, MemberInv, ListInv, HandlerInv, PhaseInv, WebsocketInv,
      HttpInv, TodoInv, LeavingPcs, AskingPcs, JoiningPcs, BcastPcs
<1>5. OpenInv'
  BY DEF TypeOK, OpenInv, LeavingPcs
<1> QED
  BY <1>1, <1>2, <1>3, <1>4, <1>5 DEF IInv

\* EndEvents keeps TypeOK and IInv.
LEMMA EndEventsStep ==
    ASSUME TypeOK, LockInv, TableInv, MemberInv, OpenInv, ub = "none",
      NEW t \in Threads, EndEvents(t)
    PROVE  TypeOK' /\ IInv'
<1> USE ConstantsAssumption DEF EndEvents, Goto, heap, locks, stack, Members
<1>1. TypeOK'
  BY DEF TypeOK, Pcs, InsertPcs, RemovePcs, BcastPcs, PushPcs, HttpPcs,
      LoopPcs, ConnPcs
<1>2. LockInv'
  BY DEF LockInv, TablePcs, TimerPcs, UserPcs, HandlerPcs, InsertPcs,
      RemovePcs, BcastPcs, HttpPcs
<1>3. TableInv'
  BY DEF TypeOK, TableInv, InsertPcs
<1>4. MemberInv'
  BY DEF TypeOK, LockInv, MemberInv, ListInv, HandlerInv, PhaseInv,
      WebsocketInv, HttpInv, TodoInv, LeavingPcs, AskingPcs, JoiningPcs,
      TablePcs, TimerPcs, UserPcs, HandlerPcs, InsertPcs, RemovePcs, BcastPcs,
      HttpPcs
<1>5. OpenInv'
  BY DEF TypeOK, OpenInv, LeavingPcs
<1> QED
  BY <1>1, <1>2, <1>3, <1>4, <1>5 DEF IInv

\* LockConn keeps TypeOK and IInv.
LEMMA LockConnStep ==
    ASSUME TypeOK, LockInv, TableInv, MemberInv, OpenInv, ub = "none",
      NEW t \in Threads, LockConn(t)
    PROVE  TypeOK' /\ IInv'
<1> USE ConstantsAssumption DEF LockConn, Goto, heap, locks, stack, Members
<1>1. TypeOK'
  BY DEF TypeOK, LockInv, Pcs, InsertPcs, RemovePcs, BcastPcs, PushPcs,
      HttpPcs, LoopPcs, ConnPcs
<1>2. LockInv'
  BY DEF TypeOK, LockInv, TablePcs, TimerPcs, UserPcs, HandlerPcs, InsertPcs,
      RemovePcs, BcastPcs, HttpPcs
<1>3. TableInv'
  BY DEF TypeOK, TableInv, InsertPcs
<1>4. MemberInv'
  <2>1. ListInv'
    BY DEF TypeOK, MemberInv, ListInv
  <2>2. HandlerInv'
    BY DEF TypeOK, MemberInv, HandlerInv
  <2>3. PhaseInv'
    BY DEF TypeOK, LockInv, MemberInv, ListInv, HandlerInv, PhaseInv,
        WebsocketInv, HttpInv, TodoInv, LeavingPcs, AskingPcs, JoiningPcs,
        TablePcs, TimerPcs, UserPcs, HandlerPcs, InsertPcs, RemovePcs,
        BcastPcs, HttpPcs
  <2>4. WebsocketInv'
    BY DEF TypeOK, LockInv, MemberInv, WebsocketInv, LeavingPcs, HandlerPcs,
        HttpPcs, InsertPcs, BcastPcs, RemovePcs
  <2>5. HttpInv'
    BY DEF TypeOK, MemberInv, HttpInv, JoiningPcs, LeavingPcs
  <2>6. TodoInv'
    BY DEF TypeOK, MemberInv, TodoInv
  <2> QED
    BY <2>1, <2>2, <2>3, <2>4, <2>5, <2>6 DEF MemberInv
<1>5. OpenInv'
  BY DEF TypeOK, OpenInv, LeavingPcs
<1> QED
  BY <1>1, <1>2, <1>3, <1>4, <1>5 DEF IInv

\* UnlockConn keeps TypeOK and IInv.
LEMMA UnlockConnStep ==
    ASSUME TypeOK, LockInv, TableInv, MemberInv, OpenInv, ub = "none",
      NEW t \in Threads, UnlockConn(t)
    PROVE  TypeOK' /\ IInv'
<1> USE ConstantsAssumption DEF UnlockConn, Return, Goto, heap, locks, stack,
    Members
<1>1. TypeOK'
  BY DEF TypeOK, Pcs, InsertPcs, RemovePcs, BcastPcs, PushPcs, HttpPcs,
      LoopPcs, ConnPcs
<1>2. LockInv'
  BY DEF TypeOK, LockInv, TablePcs, TimerPcs, UserPcs, HandlerPcs, InsertPcs,
      RemovePcs, BcastPcs, HttpPcs
<1>3. TableInv'
  BY DEF TypeOK, TableInv, InsertPcs
<1>4. MemberInv'
  <2>1. ListInv'
    BY DEF TypeOK, MemberInv, ListInv
  <2>2. HandlerInv'
    BY DEF TypeOK, MemberInv, HandlerInv
  <2>3. PhaseInv'
    BY DEF TypeOK, LockInv, MemberInv, PhaseInv, AskingPcs, JoiningPcs,
        HandlerPcs, HttpPcs, InsertPcs, BcastPcs, RemovePcs
  <2>4. WebsocketInv'
    BY DEF TypeOK, LockInv, MemberInv, WebsocketInv, LeavingPcs, HandlerPcs,
        HttpPcs, InsertPcs, BcastPcs, RemovePcs
  <2>5. HttpInv'
    BY DEF TypeOK, MemberInv, HttpInv, JoiningPcs, LeavingPcs
  <2>6. TodoInv'
    BY DEF TypeOK, MemberInv, TodoInv
  <2> QED
    BY <2>1, <2>2, <2>3, <2>4, <2>5, <2>6 DEF MemberInv
<1>5. OpenInv'
  BY DEF TypeOK, OpenInv, LeavingPcs
<1> QED
  BY <1>1, <1>2, <1>3, <1>4, <1>5 DEF IInv

\* CloseConn keeps TypeOK and IInv.
LEMMA CloseConnStep ==
    ASSUME TypeOK, LockInv, TableInv, MemberInv, OpenInv, ub = "none",
      NEW t \in Threads, CloseConn(t)
    PROVE  TypeOK' /\ IInv'
<1> USE ConstantsAssumption DEF CloseConn, Goto, heap, locks, stack, Members
<1>1. TypeOK'
  BY DEF TypeOK, Pcs, InsertPcs, RemovePcs, BcastPcs, PushPcs, HttpPcs,
      LoopPcs, ConnPcs
<1>2. ASSUME ub' = "none" PROVE LockInv'
  BY <1>2 DEF TypeOK, LockInv, TablePcs, TimerPcs, UserPcs, HandlerPcs,
      InsertPcs, RemovePcs, BcastPcs, HttpPcs
<1>3. ASSUME ub' = "none" PROVE TableInv'
  BY <1>3 DEF TypeOK, TableInv, InsertPcs
<1>4. ASSUME ub' = "none" PROVE MemberInv'
  <2>1. ListInv'
    BY <1>4 DEF TypeOK, MemberInv, ListInv
  <2>2. HandlerInv'
    BY <1>4 DEF TypeOK, LockInv, MemberInv, ListInv, HandlerInv, PhaseInv,
        WebsocketInv, HttpInv, TodoInv, LeavingPcs, AskingPcs, JoiningPcs,
        TablePcs, TimerPcs, UserPcs, HandlerPcs, InsertPcs, RemovePcs,
        BcastPcs, HttpPcs
  <2>3. PhaseInv'
    BY <1>4 DEF TypeOK, LockInv, MemberInv, PhaseInv, AskingPcs, JoiningPcs,
        HandlerPcs, HttpPcs, InsertPcs, BcastPcs, RemovePcs
  <2>4. WebsocketInv'
    BY <1>4 DEF TypeOK, LockInv, MemberInv, WebsocketInv, LeavingPcs,
        HandlerPcs, HttpPcs, InsertPcs, BcastPcs, RemovePcs
  <2>5. HttpInv'
    BY <1>4 DEF TypeOK, MemberInv, HttpInv, JoiningPcs, LeavingPcs
  <2>6. TodoInv'
    BY <1>4 DEF TypeOK, MemberInv, TodoInv
  <2> QED
    BY <2>1, <2>2, <2>3, <2>4, <2>5, <2>6 DEF MemberInv
<1>5. ASSUME ub' = "none" PROVE OpenInv'
  BY <1>5 DEF TypeOK, OpenInv, LeavingPcs
<1> QED
  BY <1>1, <1>2, <1>3, <1>4, <1>5 DEF IInv

\* Reject keeps TypeOK and IInv.
LEMMA RejectStep ==
    ASSUME TypeOK, LockInv, TableInv, MemberInv, OpenInv, ub = "none",
      NEW t \in Threads, Reject(t)
    PROVE  TypeOK' /\ IInv'
<1> USE ConstantsAssumption DEF Reject, Goto, heap, locks, stack, Members
<1>1. TypeOK'
  BY DEF TypeOK, Pcs, InsertPcs, RemovePcs, BcastPcs, PushPcs, HttpPcs,
      LoopPcs, ConnPcs
<1>2. LockInv'
  BY DEF LockInv, TablePcs, TimerPcs, UserPcs, HandlerPcs, InsertPcs,
      RemovePcs, BcastPcs, HttpPcs
<1>3. TableInv'
  BY DEF TypeOK, TableInv, InsertPcs
<1>4. MemberInv'
  BY DEF TypeOK, MemberInv, ListInv, HandlerInv, PhaseInv, WebsocketInv,
      HttpInv, TodoInv, LeavingPcs, AskingPcs, JoiningPcs, BcastPcs
<1>5. OpenInv'
  BY DEF TypeOK, LockInv, TableInv, MemberInv, ListInv, HandlerInv, PhaseInv,
      WebsocketInv, HttpInv, TodoInv, LeavingPcs, AskingPcs, JoiningPcs,
      OpenInv, TablePcs, TimerPcs, UserPcs, HandlerPcs, InsertPcs, RemovePcs,
      BcastPcs, HttpPcs, Pcs, LoopPcs, ConnPcs, PushPcs
<1> QED
  BY <1>1, <1>2, <1>3, <1>4, <1>5 DEF IInv

\* RejectFails keeps TypeOK and IInv.
LEMMA RejectFailsStep ==
    ASSUME TypeOK, LockInv, TableInv, MemberInv, OpenInv, ub = "none",
      NEW t \in Threads, RejectFails(t)
    PROVE  TypeOK' /\ IInv'
<1> USE ConstantsAssumption DEF RejectFails, Goto, heap, locks, stack, Members
<1>1. TypeOK'
  BY DEF TypeOK, LockInv, HandlerPcs, Pcs, InsertPcs, RemovePcs, BcastPcs,
      PushPcs, HttpPcs, LoopPcs, ConnPcs
<1>2. LockInv'
  BY DEF LockInv, TablePcs, TimerPcs, UserPcs, HandlerPcs, InsertPcs,
      RemovePcs, BcastPcs, HttpPcs
<1>3. TableInv'
  BY DEF TypeOK, TableInv, InsertPcs
<1>4. MemberInv'
  <2>1. ListInv'
    BY DEF TypeOK, MemberInv, ListInv
  <2>2. HandlerInv'
    BY DEF TypeOK, LockInv, MemberInv, ListInv, HandlerInv, PhaseInv,
        WebsocketInv, HttpInv, TodoInv, LeavingPcs, AskingPcs, JoiningPcs,
        TablePcs, TimerPcs, UserPcs, HandlerPcs, InsertPcs, RemovePcs,
        BcastPcs, HttpPcs
  <2>3. PhaseInv'
    BY DEF TypeOK, LockInv, MemberInv, PhaseInv, AskingPcs, JoiningPcs,
        HandlerPcs, HttpPcs, InsertPcs, BcastPcs, RemovePcs
  <2>4. WebsocketInv'
    BY DEF TypeOK, LockInv, MemberInv, WebsocketInv, LeavingPcs, HandlerPcs,
        HttpPcs, InsertPcs, BcastPcs, RemovePcs
  <2>5. HttpInv'
    BY DEF TypeOK, MemberInv, HttpInv, JoiningPcs, LeavingPcs
  <2>6. TodoInv'
    BY DEF TypeOK, MemberInv, TodoInv
  <2> QED
    BY <2>1, <2>2, <2>3, <2>4, <2>5, <2>6 DEF MemberInv
<1>5. OpenInv'
  BY DEF TypeOK, LockInv, TableInv, MemberInv, ListInv, HandlerInv, PhaseInv,
      WebsocketInv, HttpInv, TodoInv, LeavingPcs, AskingPcs, JoiningPcs,
      OpenInv, TablePcs, TimerPcs, UserPcs, HandlerPcs, InsertPcs, RemovePcs,
      BcastPcs, HttpPcs, Pcs, LoopPcs, ConnPcs, PushPcs
<1> QED
  BY <1>1, <1>2, <1>3, <1>4, <1>5 DEF IInv

\* InsertFind keeps TypeOK and IInv.
LEMMA InsertFindStep ==
    ASSUME TypeOK, LockInv, TableInv, MemberInv, OpenInv, ub = "none",
      NEW t \in Threads, InsertFind(t)
    PROVE  TypeOK' /\ IInv'
<1> USE ConstantsAssumption DEF InsertFind, Goto, heap, locks, stack, Members
<1>1. TypeOK'
  BY DEF TypeOK, LockInv, TableInv, MemberInv, HandlerInv, TablePcs, TimerPcs,
      UserPcs, HandlerPcs, Pcs, InsertPcs, RemovePcs, BcastPcs, PushPcs,
      HttpPcs, LoopPcs, ConnPcs
<1>2. LockInv'
  BY DEF TypeOK, LockInv, TablePcs, TimerPcs, UserPcs, HandlerPcs, InsertPcs,
      RemovePcs, BcastPcs, HttpPcs
<1>3. TableInv'
  BY DEF TypeOK, TableInv, InsertPcs
<1>4. MemberInv'
  BY DEF TypeOK, MemberInv, ListInv, HandlerInv, PhaseInv, WebsocketInv,
      HttpInv, TodoInv, LeavingPcs, AskingPcs, JoiningPcs, BcastPcs
<1>5. OpenInv'
  BY DEF TypeOK, OpenInv, LeavingPcs
<1> QED
  BY <1>1, <1>2, <1>3, <1>4, <1>5 DEF IInv

\* InsertCreate keeps TypeOK and IInv.
LEMMA InsertCreateStep ==
    ASSUME TypeOK, LockInv, TableInv, MemberInv, OpenInv, ub = "none",
      NEW t \in Threads, NEW o \in Objs, InsertCreate(t, o)
    PROVE  TypeOK' /\ IInv'
<1> USE ConstantsAssumption DEF InsertCreate, Goto, heap, locks, stack, Members
<1>1. TypeOK'
  BY DEF TypeOK, Pcs, InsertPcs, RemovePcs, BcastPcs, PushPcs, HttpPcs,
      LoopPcs, ConnPcs
<1>2. LockInv'
  BY DEF TypeOK, LockInv, TableInv, MemberInv, ListInv, HandlerInv, TablePcs,
      TimerPcs, UserPcs, HandlerPcs, InsertPcs, RemovePcs, BcastPcs, HttpPcs
<1>3. TableInv'
  BY DEF TypeOK, TableInv, InsertPcs
<1>4. MemberInv'
  BY DEF TypeOK, MemberInv, ListInv, HandlerInv, PhaseInv, WebsocketInv,
      HttpInv, TodoInv, LeavingPcs, AskingPcs, JoiningPcs, BcastPcs
<1>5. OpenInv'
  BY DEF TypeOK, OpenInv, LeavingPcs
<1> QED
  BY <1>1, <1>2, <1>3, <1>4, <1>5 DEF IInv

\* InsertNoMemory keeps TypeOK and IInv.
LEMMA InsertNoMemoryStep ==
    ASSUME TypeOK, LockInv, TableInv, MemberInv, OpenInv, ub = "none",
      NEW t \in Threads, InsertNoMemory(t)
    PROVE  TypeOK' /\ IInv'
<1> USE ConstantsAssumption DEF InsertNoMemory, Goto, heap, locks, stack,
    Members
<1>1. TypeOK'
  BY DEF TypeOK, Pcs, InsertPcs, RemovePcs, BcastPcs, PushPcs, HttpPcs,
      LoopPcs, ConnPcs
<1>2. LockInv'
  BY DEF TypeOK, LockInv, TablePcs, TimerPcs, UserPcs, HandlerPcs, InsertPcs,
      RemovePcs, BcastPcs, HttpPcs
<1>3. TableInv'
  BY DEF TypeOK, TableInv, InsertPcs
<1>4. MemberInv'
  BY DEF TypeOK, MemberInv, ListInv, HandlerInv, PhaseInv, WebsocketInv,
      HttpInv, TodoInv, LeavingPcs, AskingPcs, JoiningPcs, BcastPcs
<1>5. OpenInv'
  BY DEF TypeOK, OpenInv, LeavingPcs
<1> QED
  BY <1>1, <1>2, <1>3, <1>4, <1>5 DEF IInv

\* InsertUser keeps TypeOK and IInv.
LEMMA InsertUserStep ==
    ASSUME TypeOK, LockInv, TableInv, MemberInv, OpenInv, ub = "none",
      NEW t \in Threads, InsertUser(t)
    PROVE  TypeOK' /\ IInv'
<1> USE ConstantsAssumption DEF InsertUser, Goto, heap, locks, stack, Members
<1>1. TypeOK'
  BY DEF TypeOK, LockInv, TableInv, MemberInv, HandlerInv, TablePcs, TimerPcs,
      UserPcs, HandlerPcs, Pcs, InsertPcs, RemovePcs, BcastPcs, PushPcs,
      HttpPcs, LoopPcs, ConnPcs
<1>2. LockInv'
  BY DEF TypeOK, LockInv, TableInv, MemberInv, HandlerInv, TablePcs, TimerPcs,
      UserPcs, HandlerPcs, InsertPcs, RemovePcs, BcastPcs, HttpPcs
<1>3. TableInv'
  BY DEF TypeOK, LockInv, TableInv, TablePcs, TimerPcs, UserPcs, HandlerPcs,
      InsertPcs, RemovePcs, BcastPcs, HttpPcs
<1>4. MemberInv'
  <2>1. ListInv'
    BY DEF TableInv, TypeOK, LockInv, MemberInv, ListInv, HandlerInv, PhaseInv,
        WebsocketInv, HttpInv, TodoInv, LeavingPcs, AskingPcs, JoiningPcs,
        TablePcs, TimerPcs, UserPcs, HandlerPcs, InsertPcs, RemovePcs,
        BcastPcs, HttpPcs
  <2>2. HandlerInv'
    BY DEF TableInv, TypeOK, LockInv, MemberInv, ListInv, HandlerInv, PhaseInv,
        WebsocketInv, HttpInv, TodoInv, LeavingPcs, AskingPcs, JoiningPcs,
        TablePcs, TimerPcs, UserPcs, HandlerPcs, InsertPcs, RemovePcs,
        BcastPcs, HttpPcs
  <2>3. PhaseInv'
    BY DEF TypeOK, LockInv, MemberInv, PhaseInv, AskingPcs, JoiningPcs,
        HandlerPcs, HttpPcs, InsertPcs, BcastPcs, RemovePcs
  <2>4. WebsocketInv'
    BY DEF TableInv, TypeOK, LockInv, MemberInv, ListInv, HandlerInv, PhaseInv,
        WebsocketInv, HttpInv, TodoInv, LeavingPcs, AskingPcs, JoiningPcs,
        TablePcs, TimerPcs, UserPcs, HandlerPcs, InsertPcs, RemovePcs,
        BcastPcs, HttpPcs
  <2>5. HttpInv'
    BY DEF TypeOK, MemberInv, HttpInv, JoiningPcs, LeavingPcs
  <2>6. TodoInv'
    BY DEF TableInv, TypeOK, LockInv, MemberInv, ListInv, HandlerInv, PhaseInv,
        WebsocketInv, HttpInv, TodoInv, LeavingPcs, AskingPcs, JoiningPcs,
        TablePcs, TimerPcs, UserPcs, HandlerPcs, InsertPcs, RemovePcs,
        BcastPcs, HttpPcs
  <2> QED
    BY <2>1, <2>2, <2>3, <2>4, <2>5, <2>6 DEF MemberInv
<1>5. OpenInv'
  BY DEF TypeOK, LockInv, TableInv, MemberInv, ListInv, HandlerInv, PhaseInv,
      WebsocketInv, HttpInv, TodoInv, LeavingPcs, AskingPcs, JoiningPcs,
      OpenInv, TablePcs, TimerPcs, UserPcs, HandlerPcs, InsertPcs, RemovePcs,
      BcastPcs, HttpPcs, Pcs, LoopPcs, ConnPcs, PushPcs
<1> QED
  BY <1>1, <1>2, <1>3, <1>4, <1>5 DEF IInv

\* InsertUserNoMemory keeps TypeOK and IInv.
LEMMA InsertUserNoMemoryStep ==
    ASSUME TypeOK, LockInv, TableInv, MemberInv, OpenInv, ub = "none",
      NEW t \in Threads, InsertUserNoMemory(t)
    PROVE  TypeOK' /\ IInv'
<1> USE ConstantsAssumption DEF InsertUserNoMemory, Goto, heap, locks, stack,
    Members
<1>1. TypeOK'
  BY DEF TypeOK, Pcs, InsertPcs, RemovePcs, BcastPcs, PushPcs, HttpPcs,
      LoopPcs, ConnPcs
<1>2. LockInv'
  BY DEF TypeOK, LockInv, TableInv, MemberInv, HandlerInv, TablePcs, TimerPcs,
      UserPcs, HandlerPcs, InsertPcs, RemovePcs, BcastPcs, HttpPcs
<1>3. TableInv'
  BY DEF TypeOK, TableInv, InsertPcs
<1>4. MemberInv'
  BY DEF TypeOK, MemberInv, ListInv, HandlerInv, PhaseInv, WebsocketInv,
      HttpInv, TodoInv, LeavingPcs, AskingPcs, JoiningPcs, BcastPcs
<1>5. OpenInv'
  BY DEF TypeOK, OpenInv, LeavingPcs
<1> QED
  BY <1>1, <1>2, <1>3, <1>4, <1>5 DEF IInv

\* InsertUnlockUsers keeps TypeOK and IInv.
LEMMA InsertUnlockUsersStep ==
    ASSUME TypeOK, LockInv, TableInv, MemberInv, OpenInv, ub = "none",
      NEW t \in Threads, InsertUnlockUsers(t)
    PROVE  TypeOK' /\ IInv'
<1> USE ConstantsAssumption DEF InsertUnlockUsers, Goto, heap, locks, stack,
    Members
<1>1. TypeOK'
  BY DEF TypeOK, Pcs, InsertPcs, RemovePcs, BcastPcs, PushPcs, HttpPcs,
      LoopPcs, ConnPcs
<1>2. LockInv'
  BY DEF TypeOK, LockInv, TablePcs, TimerPcs, UserPcs, HandlerPcs, InsertPcs,
      RemovePcs, BcastPcs, HttpPcs
<1>3. TableInv'
  BY DEF TypeOK, TableInv, InsertPcs
<1>4. MemberInv'
  BY DEF TypeOK, MemberInv, ListInv, HandlerInv, PhaseInv, WebsocketInv,
      HttpInv, TodoInv, LeavingPcs, AskingPcs, JoiningPcs, BcastPcs
<1>5. OpenInv'
  BY DEF TypeOK, OpenInv, LeavingPcs
<1> QED
  BY <1>1, <1>2, <1>3, <1>4, <1>5 DEF IInv

\* InsertUnlockTable keeps TypeOK and IInv.
LEMMA InsertUnlockTableStep ==
    ASSUME TypeOK, LockInv, TableInv, MemberInv, OpenInv, ub = "none",
      NEW t \in Threads, InsertUnlockTable(t)
    PROVE  TypeOK' /\ IInv'
<1> USE ConstantsAssumption DEF InsertUnlockTable, Goto, heap, locks, stack,
    Members
<1>1. TypeOK'
  BY DEF TypeOK, Pcs, InsertPcs, RemovePcs, BcastPcs, PushPcs, HttpPcs,
      LoopPcs, ConnPcs
<1>2. LockInv'
  BY DEF TypeOK, LockInv, TablePcs, TimerPcs, UserPcs, HandlerPcs, InsertPcs,
      RemovePcs, BcastPcs, HttpPcs
<1>3. TableInv'
  BY DEF TypeOK, TableInv, InsertPcs
<1>4. MemberInv'
  BY DEF TypeOK, MemberInv, ListInv, HandlerInv, PhaseInv, WebsocketInv,
      HttpInv, TodoInv, LeavingPcs, AskingPcs, JoiningPcs, BcastPcs
<1>5. OpenInv'
  BY DEF TypeOK, OpenInv, LeavingPcs
<1> QED
  BY <1>1, <1>2, <1>3, <1>4, <1>5 DEF IInv

\* InsertFails keeps TypeOK and IInv.
LEMMA InsertFailsStep ==
    ASSUME TypeOK, LockInv, TableInv, MemberInv, OpenInv, ub = "none",
      NEW t \in Threads, InsertFails(t)
    PROVE  TypeOK' /\ IInv'
<1> USE ConstantsAssumption DEF InsertFails, Goto, heap, locks, stack, Members
<1>1. TypeOK'
  BY DEF TypeOK, Pcs, InsertPcs, RemovePcs, BcastPcs, PushPcs, HttpPcs,
      LoopPcs, ConnPcs
<1>2. LockInv'
  BY DEF TypeOK, LockInv, TablePcs, TimerPcs, UserPcs, HandlerPcs, InsertPcs,
      RemovePcs, BcastPcs, HttpPcs
<1>3. TableInv'
  BY DEF TypeOK, TableInv, InsertPcs
<1>4. MemberInv'
  <2>1. ListInv'
    BY DEF TypeOK, MemberInv, ListInv
  <2>2. HandlerInv'
    BY DEF TypeOK, MemberInv, HandlerInv
  <2>3. PhaseInv'
    BY DEF TypeOK, LockInv, MemberInv, PhaseInv, AskingPcs, JoiningPcs,
        HandlerPcs, HttpPcs, InsertPcs, BcastPcs, RemovePcs
  <2>4. WebsocketInv'
    BY DEF TypeOK, LockInv, MemberInv, WebsocketInv, LeavingPcs, HandlerPcs,
        HttpPcs, InsertPcs, BcastPcs, RemovePcs
  <2>5. HttpInv'
    BY DEF TypeOK, MemberInv, HttpInv, JoiningPcs, LeavingPcs
  <2>6. TodoInv'
    BY DEF TypeOK, MemberInv, TodoInv
  <2> QED
    BY <2>1, <2>2, <2>3, <2>4, <2>5, <2>6 DEF MemberInv
<1>5. OpenInv'
  BY DEF TypeOK, OpenInv, LeavingPcs
<1> QED
  BY <1>1, <1>2, <1>3, <1>4, <1>5 DEF IInv

\* SwitchProtocol keeps TypeOK and IInv.
LEMMA SwitchProtocolStep ==
    ASSUME TypeOK, LockInv, TableInv, MemberInv, OpenInv, ub = "none",
      NEW t \in Threads, SwitchProtocol(t)
    PROVE  TypeOK' /\ IInv'
<1> USE ConstantsAssumption DEF SwitchProtocol, Goto, heap, locks, stack,
    Members
<1>1. TypeOK'
  BY DEF TypeOK, Pcs, InsertPcs, RemovePcs, BcastPcs, PushPcs, HttpPcs,
      LoopPcs, ConnPcs
<1>2. LockInv'
  BY DEF LockInv, TablePcs, TimerPcs, UserPcs, HandlerPcs, InsertPcs,
      RemovePcs, BcastPcs, HttpPcs
<1>3. TableInv'
  BY DEF TypeOK, TableInv, InsertPcs
<1>4. MemberInv'
  BY DEF TypeOK, LockInv, MemberInv, ListInv, HandlerInv, PhaseInv,
      WebsocketInv, HttpInv, TodoInv, LeavingPcs, AskingPcs, JoiningPcs,
      TablePcs, TimerPcs, UserPcs, HandlerPcs, InsertPcs, RemovePcs, BcastPcs,
      HttpPcs
<1>5. OpenInv'
  BY DEF TypeOK, OpenInv, LeavingPcs
<1> QED
  BY <1>1, <1>2, <1>3, <1>4, <1>5 DEF IInv

\* SwitchFails keeps TypeOK and IInv.
LEMMA SwitchFailsStep ==
    ASSUME TypeOK, LockInv, TableInv, MemberInv, OpenInv, ub = "none",
      NEW t \in Threads, SwitchFails(t)
    PROVE  TypeOK' /\ IInv'
<1> USE ConstantsAssumption DEF SwitchFails, Goto, heap, locks, stack, Members
<1>1. TypeOK'
  BY DEF TypeOK, Pcs, InsertPcs, RemovePcs, BcastPcs, PushPcs, HttpPcs,
      LoopPcs, ConnPcs
<1>2. LockInv'
  BY DEF LockInv, TablePcs, TimerPcs, UserPcs, HandlerPcs, InsertPcs,
      RemovePcs, BcastPcs, HttpPcs
<1>3. TableInv'
  BY DEF TypeOK, TableInv, InsertPcs
<1>4. MemberInv'
  <2>1. ListInv'
    BY DEF TypeOK, MemberInv, ListInv
  <2>2. HandlerInv'
    BY DEF TypeOK, MemberInv, HandlerInv
  <2>3. PhaseInv'
    BY DEF TypeOK, LockInv, MemberInv, PhaseInv, AskingPcs, JoiningPcs,
        HandlerPcs, HttpPcs, InsertPcs, BcastPcs, RemovePcs
  <2>4. WebsocketInv'
    BY DEF TypeOK, LockInv, MemberInv, WebsocketInv, LeavingPcs, HandlerPcs,
        HttpPcs, InsertPcs, BcastPcs, RemovePcs
  <2>5. HttpInv'
    BY DEF TypeOK, MemberInv, HttpInv, JoiningPcs, LeavingPcs
  <2>6. TodoInv'
    BY DEF TypeOK, MemberInv, TodoInv
  <2> QED
    BY <2>1, <2>2, <2>3, <2>4, <2>5, <2>6 DEF MemberInv
<1>5. OpenInv'
  BY DEF TypeOK, OpenInv, LeavingPcs
<1> QED
  BY <1>1, <1>2, <1>3, <1>4, <1>5 DEF IInv

\* SendIdent keeps TypeOK and IInv.
LEMMA SendIdentStep ==
    ASSUME TypeOK, LockInv, TableInv, MemberInv, OpenInv, ub = "none",
      NEW t \in Threads, SendIdent(t)
    PROVE  TypeOK' /\ IInv'
<1> USE ConstantsAssumption DEF SendIdent, Goto, heap, locks, stack, Members
<1>1. TypeOK'
  BY DEF TypeOK, Pcs, InsertPcs, RemovePcs, BcastPcs, PushPcs, HttpPcs,
      LoopPcs, ConnPcs
<1>2. LockInv'
  BY DEF LockInv, TablePcs, TimerPcs, UserPcs, HandlerPcs, InsertPcs,
      RemovePcs, BcastPcs, HttpPcs
<1>3. TableInv'
  BY DEF TypeOK, TableInv, InsertPcs
<1>4. MemberInv'
  <2>1. ListInv'
    BY DEF TypeOK, MemberInv, ListInv
  <2>2. HandlerInv'
    BY DEF TypeOK, MemberInv, HandlerInv
  <2>3. PhaseInv'
    BY DEF TypeOK, LockInv, MemberInv, PhaseInv, AskingPcs, JoiningPcs,
        HandlerPcs, HttpPcs, InsertPcs, BcastPcs, RemovePcs
  <2>4. WebsocketInv'
    BY DEF TypeOK, LockInv, MemberInv, WebsocketInv, LeavingPcs, HandlerPcs,
        HttpPcs, InsertPcs, BcastPcs, RemovePcs
  <2>5. HttpInv'
    BY DEF TypeOK, MemberInv, HttpInv, JoiningPcs, LeavingPcs
  <2>6. TodoInv'
    BY DEF TypeOK, MemberInv, TodoInv
  <2> QED
    BY <2>1, <2>2, <2>3, <2>4, <2>5, <2>6 DEF MemberInv
<1>5. OpenInv'
  BY DEF TypeOK, OpenInv, LeavingPcs
<1> QED
  BY <1>1, <1>2, <1>3, <1>4, <1>5 DEF IInv

\* IdentFails keeps TypeOK and IInv.
LEMMA IdentFailsStep ==
    ASSUME TypeOK, LockInv, TableInv, MemberInv, OpenInv, ub = "none",
      NEW t \in Threads, IdentFails(t)
    PROVE  TypeOK' /\ IInv'
<1> USE ConstantsAssumption DEF IdentFails, Goto, heap, locks, stack, Members
<1>1. TypeOK'
  BY DEF TypeOK, Pcs, InsertPcs, RemovePcs, BcastPcs, PushPcs, HttpPcs,
      LoopPcs, ConnPcs
<1>2. LockInv'
  BY DEF LockInv, TablePcs, TimerPcs, UserPcs, HandlerPcs, InsertPcs,
      RemovePcs, BcastPcs, HttpPcs
<1>3. TableInv'
  BY DEF TypeOK, TableInv, InsertPcs
<1>4. MemberInv'
  BY DEF TypeOK, MemberInv, ListInv, HandlerInv, PhaseInv, WebsocketInv,
      HttpInv, TodoInv, LeavingPcs, AskingPcs, JoiningPcs, BcastPcs
<1>5. OpenInv'
  BY DEF TypeOK, OpenInv, LeavingPcs
<1> QED
  BY <1>1, <1>2, <1>3, <1>4, <1>5 DEF IInv

\* BroadcastLock keeps TypeOK and IInv.
LEMMA BroadcastLockStep ==
    ASSUME TypeOK, LockInv, TableInv, MemberInv, OpenInv, ub = "none",
      NEW t \in Threads, BroadcastLock(t)
    PROVE  TypeOK' /\ IInv'
<1> USE ConstantsAssumption DEF BroadcastLock, Goto, heap, locks, stack,
    Members
<1>1. TypeOK'
  BY DEF TypeOK, LockInv, TableInv, MemberInv, HandlerInv, TablePcs, TimerPcs,
      UserPcs, HandlerPcs, Pcs, InsertPcs, RemovePcs, BcastPcs, PushPcs,
      HttpPcs, LoopPcs, ConnPcs
<1>2. LockInv'
  BY DEF TypeOK, LockInv, TableInv, MemberInv, HandlerInv, TablePcs, TimerPcs,
      UserPcs, HandlerPcs, InsertPcs, RemovePcs, BcastPcs, HttpPcs
<1>3. TableInv'
  BY DEF TypeOK, TableInv, InsertPcs
<1>4. MemberInv'
  BY DEF TypeOK, MemberInv, ListInv, HandlerInv, PhaseInv, WebsocketInv,
      HttpInv, TodoInv, LeavingPcs, AskingPcs, JoiningPcs, BcastPcs
<1>5. OpenInv'
  BY DEF TypeOK, OpenInv, LeavingPcs
<1> QED
  BY <1>1, <1>2, <1>3, <1>4, <1>5 DEF IInv

\* BroadcastSend keeps TypeOK and IInv.
LEMMA BroadcastSendStep ==
    ASSUME TypeOK, LockInv, TableInv, MemberInv, OpenInv, ub = "none",
      NEW t \in Threads, BroadcastSend(t)
    PROVE  TypeOK' /\ IInv'
<1> USE ConstantsAssumption DEF BroadcastSend, SendToMember, Goto, heap, locks,
    stack, Members
<1>1. TypeOK'
  BY DEF TypeOK, Pcs, InsertPcs, RemovePcs, BcastPcs, PushPcs, HttpPcs,
      LoopPcs, ConnPcs
<1>2. LockInv'
  BY DEF LockInv, TablePcs, TimerPcs, UserPcs, HandlerPcs, InsertPcs,
      RemovePcs, BcastPcs, HttpPcs
<1>3. TableInv'
  BY DEF TypeOK, TableInv, InsertPcs
<1>4. MemberInv'
  BY DEF TypeOK, MemberInv, ListInv, HandlerInv, PhaseInv, WebsocketInv,
      HttpInv, TodoInv, LeavingPcs, AskingPcs, JoiningPcs, BcastPcs
<1>5. OpenInv'
  BY DEF TypeOK, OpenInv, LeavingPcs
<1> QED
  BY <1>1, <1>2, <1>3, <1>4, <1>5 DEF IInv

\* BroadcastUnlock keeps TypeOK and IInv.
LEMMA BroadcastUnlockStep ==
    ASSUME TypeOK, LockInv, TableInv, MemberInv, OpenInv, ub = "none",
      NEW t \in Threads, BroadcastUnlock(t)
    PROVE  TypeOK' /\ IInv'
<1> USE ConstantsAssumption DEF BroadcastUnlock, Goto, heap, locks, stack,
    Members
<1>1. TypeOK'
  BY DEF TypeOK, Pcs, InsertPcs, RemovePcs, BcastPcs, PushPcs, HttpPcs,
      LoopPcs, ConnPcs
<1>2. LockInv'
  BY DEF TypeOK, LockInv, TablePcs, TimerPcs, UserPcs, HandlerPcs, InsertPcs,
      RemovePcs, BcastPcs, HttpPcs
<1>3. TableInv'
  BY DEF TypeOK, TableInv, InsertPcs
<1>4. MemberInv'
  BY DEF TypeOK, MemberInv, ListInv, HandlerInv, PhaseInv, WebsocketInv,
      HttpInv, TodoInv, LeavingPcs, AskingPcs, JoiningPcs, BcastPcs
<1>5. OpenInv'
  BY DEF TypeOK, OpenInv, LeavingPcs
<1> QED
  BY <1>1, <1>2, <1>3, <1>4, <1>5 DEF IInv

\* RemoveUser keeps TypeOK and IInv.
LEMMA RemoveUserStep ==
    ASSUME TypeOK, LockInv, TableInv, MemberInv, OpenInv, ub = "none",
      NEW t \in Threads, RemoveUser(t)
    PROVE  TypeOK' /\ IInv'
<1> USE ConstantsAssumption DEF RemoveUser, Goto, heap, locks, stack, Members
<1>1. TypeOK'
  BY DEF TypeOK, Pcs, InsertPcs, RemovePcs, BcastPcs, PushPcs, HttpPcs,
      LoopPcs, ConnPcs
<1>2. LockInv'
  BY DEF TypeOK, LockInv, TableInv, MemberInv, HandlerInv, TablePcs, TimerPcs,
      UserPcs, HandlerPcs, InsertPcs, RemovePcs, BcastPcs, HttpPcs
<1>3. TableInv'
  BY DEF TypeOK, LockInv, TableInv, MemberInv, ListInv, HandlerInv, TablePcs,
      TimerPcs, UserPcs, HandlerPcs, InsertPcs, RemovePcs, BcastPcs, HttpPcs
<1>4. MemberInv'
  BY DEF TypeOK, LockInv, MemberInv, ListInv, HandlerInv, PhaseInv,
      WebsocketInv, HttpInv, TodoInv, LeavingPcs, AskingPcs, JoiningPcs,
      TablePcs, TimerPcs, UserPcs, HandlerPcs, InsertPcs, RemovePcs, BcastPcs,
      HttpPcs
<1>5. OpenInv'
  BY DEF TypeOK, LockInv, MemberInv, ListInv, HandlerInv, OpenInv, TablePcs,
      TimerPcs, UserPcs, HandlerPcs, InsertPcs, RemovePcs, BcastPcs, HttpPcs
<1> QED
  BY <1>1, <1>2, <1>3, <1>4, <1>5 DEF IInv

\* RemoveChannel keeps TypeOK and IInv.
LEMMA RemoveChannelStep ==
    ASSUME TypeOK, LockInv, TableInv, MemberInv, OpenInv, ub = "none",
      NEW t \in Threads, RemoveChannel(t)
    PROVE  TypeOK' /\ IInv'
<1> USE ConstantsAssumption DEF RemoveChannel, Goto, heap, locks, stack,
    Members
<1>1. TypeOK'
  BY DEF TypeOK, Pcs, InsertPcs, RemovePcs, BcastPcs, PushPcs, HttpPcs,
      LoopPcs, ConnPcs
<1>2. LockInv'
  BY DEF LockInv, TablePcs, TimerPcs, UserPcs, HandlerPcs, InsertPcs,
      RemovePcs, BcastPcs, HttpPcs
<1>3. TableInv'
  BY DEF TypeOK, LockInv, TableInv, TablePcs, TimerPcs, UserPcs, HandlerPcs,
      InsertPcs, RemovePcs, BcastPcs, HttpPcs
<1>4. MemberInv'
  BY DEF TypeOK, MemberInv, ListInv, HandlerInv, PhaseInv, WebsocketInv,
      HttpInv, TodoInv, LeavingPcs, AskingPcs, JoiningPcs, BcastPcs
<1>5. OpenInv'
  BY DEF TypeOK, OpenInv, LeavingPcs
<1> QED
  BY <1>1, <1>2, <1>3, <1>4, <1>5 DEF IInv

\* FreeChannel keeps TypeOK and IInv.
LEMMA FreeChannelStep ==
    ASSUME TypeOK, LockInv, TableInv, MemberInv, OpenInv, ub = "none",
      NEW t \in Threads, FreeChannel(t)
    PROVE  TypeOK' /\ IInv'
<1> USE ConstantsAssumption DEF FreeChannel, Goto, heap, locks, stack, Members
<1>1. TypeOK'
  BY DEF TypeOK, Pcs, InsertPcs, RemovePcs, BcastPcs, PushPcs, HttpPcs,
      LoopPcs, ConnPcs
<1>2. LockInv'
  BY DEF LockInv, TablePcs, TimerPcs, UserPcs, HandlerPcs, InsertPcs,
      RemovePcs, BcastPcs, HttpPcs
<1>3. TableInv'
  BY DEF TypeOK, LockInv, TableInv, TablePcs, TimerPcs, UserPcs, HandlerPcs,
      InsertPcs, RemovePcs, BcastPcs, HttpPcs
<1>4. MemberInv'
  <2>1. ListInv'
    BY DEF TableInv, TypeOK, LockInv, MemberInv, ListInv, HandlerInv, PhaseInv,
        WebsocketInv, HttpInv, TodoInv, LeavingPcs, AskingPcs, JoiningPcs,
        TablePcs, TimerPcs, UserPcs, HandlerPcs, InsertPcs, RemovePcs,
        BcastPcs, HttpPcs
  <2>2. HandlerInv'
    BY DEF TypeOK, MemberInv, HandlerInv
  <2>3. PhaseInv'
    BY DEF TypeOK, LockInv, MemberInv, PhaseInv, AskingPcs, JoiningPcs,
        HandlerPcs, HttpPcs, InsertPcs, BcastPcs, RemovePcs
  <2>4. WebsocketInv'
    BY DEF TypeOK, LockInv, MemberInv, WebsocketInv, LeavingPcs, HandlerPcs,
        HttpPcs, InsertPcs, BcastPcs, RemovePcs
  <2>5. HttpInv'
    BY DEF TypeOK, MemberInv, HttpInv, JoiningPcs, LeavingPcs
  <2>6. TodoInv'
    BY DEF TypeOK, MemberInv, TodoInv
  <2> QED
    BY <2>1, <2>2, <2>3, <2>4, <2>5, <2>6 DEF MemberInv
<1>5. OpenInv'
  BY DEF TypeOK, OpenInv, LeavingPcs
<1> QED
  BY <1>1, <1>2, <1>3, <1>4, <1>5 DEF IInv

\* RemoveUnlock keeps TypeOK and IInv.
LEMMA RemoveUnlockStep ==
    ASSUME TypeOK, LockInv, TableInv, MemberInv, OpenInv, ub = "none",
      NEW t \in Threads, RemoveUnlock(t)
    PROVE  TypeOK' /\ IInv'
<1> USE ConstantsAssumption DEF RemoveUnlock, Goto, heap, locks, stack, Members
<1>1. TypeOK'
  BY DEF TypeOK, Pcs, InsertPcs, RemovePcs, BcastPcs, PushPcs, HttpPcs,
      LoopPcs, ConnPcs
<1>2. ASSUME ub' = "none" PROVE LockInv'
  BY <1>2 DEF TypeOK, LockInv, TablePcs, TimerPcs, UserPcs, HandlerPcs,
      InsertPcs, RemovePcs, BcastPcs, HttpPcs
<1>3. ASSUME ub' = "none" PROVE TableInv'
  BY <1>3 DEF TypeOK, TableInv, InsertPcs
<1>4. ASSUME ub' = "none" PROVE MemberInv'
  BY <1>4 DEF TypeOK, MemberInv, ListInv, HandlerInv, PhaseInv, WebsocketInv,
      HttpInv, TodoInv, LeavingPcs, AskingPcs, JoiningPcs, BcastPcs
<1>5. ASSUME ub' = "none" PROVE OpenInv'
  BY <1>5 DEF TypeOK, OpenInv, LeavingPcs
<1> QED
  BY <1>1, <1>2, <1>3, <1>4, <1>5 DEF IInv

\* ExpireLock keeps TypeOK and IInv.
LEMMA ExpireLockStep ==
    ASSUME TypeOK, LockInv, TableInv, MemberInv, OpenInv, ub = "none",
      NEW t \in Threads, ExpireLock(t)
    PROVE  TypeOK' /\ IInv'
<1> USE ConstantsAssumption DEF ExpireLock, Goto, heap, locks, stack, Members
<1>1. TypeOK'
  BY DEF TypeOK, Pcs, InsertPcs, RemovePcs, BcastPcs, PushPcs, HttpPcs,
      LoopPcs, ConnPcs
<1>2. LockInv'
  BY DEF TypeOK, LockInv, TablePcs, TimerPcs, UserPcs, HandlerPcs, InsertPcs,
      RemovePcs, BcastPcs, HttpPcs
<1>3. TableInv'
  BY DEF TypeOK, TableInv, InsertPcs
<1>4. MemberInv'
  <2>1. ListInv'
    BY DEF TypeOK, MemberInv, ListInv
  <2>2. HandlerInv'
    BY DEF TypeOK, MemberInv, HandlerInv
  <2>3. PhaseInv'
    BY DEF TypeOK, LockInv, MemberInv, PhaseInv, AskingPcs, JoiningPcs,
        HandlerPcs, HttpPcs, InsertPcs, BcastPcs, RemovePcs
  <2>4. WebsocketInv'
    BY DEF TypeOK, LockInv, MemberInv, WebsocketInv, LeavingPcs, HandlerPcs,
        HttpPcs, InsertPcs, BcastPcs, RemovePcs
  <2>5. HttpInv'
    BY DEF TypeOK, MemberInv, HttpInv, JoiningPcs, LeavingPcs
  <2>6. TodoInv'
    BY DEF TypeOK, MemberInv, TodoInv
  <2> QED
    BY <2>1, <2>2, <2>3, <2>4, <2>5, <2>6 DEF MemberInv
<1>5. OpenInv'
  BY DEF TypeOK, OpenInv, LeavingPcs
<1> QED
  BY <1>1, <1>2, <1>3, <1>4, <1>5 DEF IInv

\* PushLockTable keeps TypeOK and IInv.
LEMMA PushLockTableStep ==
    ASSUME TypeOK, LockInv, TableInv, MemberInv, OpenInv, ub = "none",
      NEW t \in Threads, PushLockTable(t)
    PROVE  TypeOK' /\ IInv'
<1> USE ConstantsAssumption DEF PushLockTable, Goto, heap, locks, stack,
    Members
<1>1. TypeOK'
  BY DEF TypeOK, Pcs, InsertPcs, RemovePcs, BcastPcs, PushPcs, HttpPcs,
      LoopPcs, ConnPcs
<1>2. LockInv'
  BY DEF TypeOK, LockInv, TablePcs, TimerPcs, UserPcs, HandlerPcs, InsertPcs,
      RemovePcs, BcastPcs, HttpPcs
<1>3. TableInv'
  BY DEF TypeOK, TableInv, InsertPcs
<1>4. MemberInv'
  BY DEF TypeOK, LockInv, MemberInv, ListInv, HandlerInv, PhaseInv,
      WebsocketInv, HttpInv, TodoInv, LeavingPcs, AskingPcs, JoiningPcs,
      TablePcs, TimerPcs, UserPcs, HandlerPcs, InsertPcs, RemovePcs, BcastPcs,
      HttpPcs
<1>5. OpenInv'
  BY DEF TypeOK, OpenInv, LeavingPcs
<1> QED
  BY <1>1, <1>2, <1>3, <1>4, <1>5 DEF IInv

\* PushNext keeps TypeOK and IInv.
LEMMA PushNextStep ==
    ASSUME TypeOK, LockInv, TableInv, MemberInv, OpenInv, ub = "none",
      NEW t \in Threads, PushNext(t)
    PROVE  TypeOK' /\ IInv'
<1> USE ConstantsAssumption DEF PushNext, Goto, heap, locks, stack, Members
<1>1. TypeOK'
  BY DEF TypeOK, Pcs, InsertPcs, RemovePcs, BcastPcs, PushPcs, HttpPcs,
      LoopPcs, ConnPcs
<1>2. LockInv'
  BY DEF LockInv, TablePcs, TimerPcs, UserPcs, HandlerPcs, InsertPcs,
      RemovePcs, BcastPcs, HttpPcs
<1>3. TableInv'
  BY DEF TypeOK, TableInv, InsertPcs
<1>4. MemberInv'
  <2>1. ListInv'
    BY DEF TypeOK, MemberInv, ListInv
  <2>2. HandlerInv'
    BY DEF TypeOK, MemberInv, HandlerInv
  <2>3. PhaseInv'
    BY DEF TypeOK, LockInv, MemberInv, PhaseInv, AskingPcs, JoiningPcs,
        HandlerPcs, HttpPcs, InsertPcs, BcastPcs, RemovePcs
  <2>4. WebsocketInv'
    BY DEF TypeOK, LockInv, MemberInv, WebsocketInv, LeavingPcs, HandlerPcs,
        HttpPcs, InsertPcs, BcastPcs, RemovePcs
  <2>5. HttpInv'
    BY DEF TypeOK, MemberInv, HttpInv, JoiningPcs, LeavingPcs
  <2>6. TodoInv'
    BY DEF TypeOK, MemberInv, TodoInv
  <2> QED
    BY <2>1, <2>2, <2>3, <2>4, <2>5, <2>6 DEF MemberInv
<1>5. OpenInv'
  BY DEF TypeOK, OpenInv, LeavingPcs
<1> QED
  BY <1>1, <1>2, <1>3, <1>4, <1>5 DEF IInv

\* PushUsers keeps TypeOK and IInv.
LEMMA PushUsersStep ==
    ASSUME TypeOK, LockInv, TableInv, MemberInv, OpenInv, ub = "none",
      NEW t \in Threads, PushUsers(t)
    PROVE  TypeOK' /\ IInv'
<1> USE ConstantsAssumption DEF PushUsers, Goto, heap, locks, stack, Members
<1>1. TypeOK'
  BY DEF TypeOK, LockInv, TableInv, MemberInv, HandlerInv, TablePcs, TimerPcs,
      UserPcs, HandlerPcs, Pcs, InsertPcs, RemovePcs, BcastPcs, PushPcs,
      HttpPcs, LoopPcs, ConnPcs
<1>2. LockInv'
  BY DEF TypeOK, LockInv, TableInv, MemberInv, HandlerInv, TablePcs, TimerPcs,
      UserPcs, HandlerPcs, InsertPcs, RemovePcs, BcastPcs, HttpPcs
<1>3. TableInv'
  BY DEF TypeOK, TableInv, InsertPcs
<1>4. MemberInv'
  <2>1. ListInv'
    BY DEF TypeOK, MemberInv, ListInv
  <2>2. HandlerInv'
    BY DEF TypeOK, MemberInv, HandlerInv
  <2>3. PhaseInv'
    BY DEF TypeOK, LockInv, MemberInv, PhaseInv, AskingPcs, JoiningPcs,
        HandlerPcs, HttpPcs, InsertPcs, BcastPcs, RemovePcs
  <2>4. WebsocketInv'
    BY DEF TypeOK, LockInv, MemberInv, WebsocketInv, LeavingPcs, HandlerPcs,
        HttpPcs, InsertPcs, BcastPcs, RemovePcs
  <2>5. HttpInv'
    BY DEF TypeOK, MemberInv, HttpInv, JoiningPcs, LeavingPcs
  <2>6. TodoInv'
    BY DEF TypeOK, MemberInv, TodoInv
  <2> QED
    BY <2>1, <2>2, <2>3, <2>4, <2>5, <2>6 DEF MemberInv
<1>5. OpenInv'
  BY DEF TypeOK, OpenInv, LeavingPcs
<1> QED
  BY <1>1, <1>2, <1>3, <1>4, <1>5 DEF IInv

\* PushStatus keeps TypeOK and IInv.
LEMMA PushStatusStep ==
    ASSUME TypeOK, LockInv, TableInv, MemberInv, OpenInv, ub = "none",
      NEW t \in Threads, PushStatus(t)
    PROVE  TypeOK' /\ IInv'
<1> USE ConstantsAssumption DEF PushStatus, Goto, heap, locks, stack, Members
<1>1. TypeOK'
  BY DEF TypeOK, Pcs, InsertPcs, RemovePcs, BcastPcs, PushPcs, HttpPcs,
      LoopPcs, ConnPcs
<1>2. LockInv'
  BY DEF TypeOK, LockInv, TableInv, MemberInv, HandlerInv, TablePcs, TimerPcs,
      UserPcs, HandlerPcs, InsertPcs, RemovePcs, BcastPcs, HttpPcs
<1>3. TableInv'
  BY DEF TypeOK, TableInv, InsertPcs
<1>4. MemberInv'
  <2>1. ListInv'
    BY DEF TypeOK, MemberInv, ListInv
  <2>2. HandlerInv'
    BY DEF TypeOK, MemberInv, HandlerInv
  <2>3. PhaseInv'
    BY DEF TypeOK, LockInv, MemberInv, PhaseInv, AskingPcs, JoiningPcs,
        HandlerPcs, HttpPcs, InsertPcs, BcastPcs, RemovePcs
  <2>4. WebsocketInv'
    BY DEF TypeOK, LockInv, MemberInv, WebsocketInv, LeavingPcs, HandlerPcs,
        HttpPcs, InsertPcs, BcastPcs, RemovePcs
  <2>5. HttpInv'
    BY DEF TypeOK, MemberInv, HttpInv, JoiningPcs, LeavingPcs
  <2>6. TodoInv'
    BY DEF TypeOK, MemberInv, TodoInv
  <2> QED
    BY <2>1, <2>2, <2>3, <2>4, <2>5, <2>6 DEF MemberInv
<1>5. OpenInv'
  BY DEF TypeOK, OpenInv, LeavingPcs
<1> QED
  BY <1>1, <1>2, <1>3, <1>4, <1>5 DEF IInv

\* PushSend keeps TypeOK and IInv.
LEMMA PushSendStep ==
    ASSUME TypeOK, LockInv, TableInv, MemberInv, OpenInv, ub = "none",
      NEW t \in Threads, PushSend(t)
    PROVE  TypeOK' /\ IInv'
<1> USE ConstantsAssumption DEF PushSend, SendToMember, Goto, heap, locks,
    stack, Members
<1>1. TypeOK'
  BY DEF TypeOK, Pcs, InsertPcs, RemovePcs, BcastPcs, PushPcs, HttpPcs,
      LoopPcs, ConnPcs
<1>2. LockInv'
  BY DEF LockInv, TablePcs, TimerPcs, UserPcs, HandlerPcs, InsertPcs,
      RemovePcs, BcastPcs, HttpPcs
<1>3. TableInv'
  BY DEF TypeOK, TableInv, InsertPcs
<1>4. MemberInv'
  <2>1. ListInv'
    BY DEF TypeOK, MemberInv, ListInv
  <2>2. HandlerInv'
    BY DEF TypeOK, MemberInv, HandlerInv
  <2>3. PhaseInv'
    BY DEF TypeOK, LockInv, MemberInv, PhaseInv, AskingPcs, JoiningPcs,
        HandlerPcs, HttpPcs, InsertPcs, BcastPcs, RemovePcs
  <2>4. WebsocketInv'
    BY DEF TypeOK, LockInv, MemberInv, WebsocketInv, LeavingPcs, HandlerPcs,
        HttpPcs, InsertPcs, BcastPcs, RemovePcs
  <2>5. HttpInv'
    BY DEF TypeOK, MemberInv, HttpInv, JoiningPcs, LeavingPcs
  <2>6. TodoInv'
    BY DEF TypeOK, MemberInv, TodoInv
  <2> QED
    BY <2>1, <2>2, <2>3, <2>4, <2>5, <2>6 DEF MemberInv
<1>5. OpenInv'
  BY DEF TypeOK, OpenInv, LeavingPcs
<1> QED
  BY <1>1, <1>2, <1>3, <1>4, <1>5 DEF IInv

\* PushUnlock keeps TypeOK and IInv.
LEMMA PushUnlockStep ==
    ASSUME TypeOK, LockInv, TableInv, MemberInv, OpenInv, ub = "none",
      NEW t \in Threads, PushUnlock(t)
    PROVE  TypeOK' /\ IInv'
<1> USE ConstantsAssumption DEF PushUnlock, Goto, heap, locks, stack, Members
<1>1. TypeOK'
  BY DEF TypeOK, Pcs, InsertPcs, RemovePcs, BcastPcs, PushPcs, HttpPcs,
      LoopPcs, ConnPcs
<1>2. LockInv'
  BY DEF TypeOK, LockInv, TablePcs, TimerPcs, UserPcs, HandlerPcs, InsertPcs,
      RemovePcs, BcastPcs, HttpPcs
<1>3. TableInv'
  BY DEF TypeOK, TableInv, InsertPcs
<1>4. MemberInv'
  BY DEF TypeOK, LockInv, MemberInv, ListInv, HandlerInv, PhaseInv,
      WebsocketInv, HttpInv, TodoInv, LeavingPcs, AskingPcs, JoiningPcs,
      TablePcs, TimerPcs, UserPcs, HandlerPcs, InsertPcs, RemovePcs, BcastPcs,
      HttpPcs
<1>5. OpenInv'
  BY DEF TypeOK, OpenInv, LeavingPcs
<1> QED
  BY <1>1, <1>2, <1>3, <1>4, <1>5 DEF IInv

\* PushUnlockTable keeps TypeOK and IInv.
LEMMA PushUnlockTableStep ==
    ASSUME TypeOK, LockInv, TableInv, MemberInv, OpenInv, ub = "none",
      NEW t \in Threads, PushUnlockTable(t)
    PROVE  TypeOK' /\ IInv'
<1> USE ConstantsAssumption DEF PushUnlockTable, Goto, heap, locks, stack,
    Members
<1>1. TypeOK'
  BY DEF TypeOK, Pcs, InsertPcs, RemovePcs, BcastPcs, PushPcs, HttpPcs,
      LoopPcs, ConnPcs
<1>2. LockInv'
  BY DEF TypeOK, LockInv, TablePcs, TimerPcs, UserPcs, HandlerPcs, InsertPcs,
      RemovePcs, BcastPcs, HttpPcs
<1>3. TableInv'
  BY DEF TypeOK, TableInv, InsertPcs
<1>4. MemberInv'
  <2>1. ListInv'
    BY DEF TypeOK, MemberInv, ListInv
  <2>2. HandlerInv'
    BY DEF TypeOK, MemberInv, HandlerInv
  <2>3. PhaseInv'
    BY DEF TypeOK, LockInv, MemberInv, PhaseInv, AskingPcs, JoiningPcs,
        HandlerPcs, HttpPcs, InsertPcs, BcastPcs, RemovePcs
  <2>4. WebsocketInv'
    BY DEF TypeOK, LockInv, MemberInv, WebsocketInv, LeavingPcs, HandlerPcs,
        HttpPcs, InsertPcs, BcastPcs, RemovePcs
  <2>5. HttpInv'
    BY DEF TypeOK, MemberInv, HttpInv, JoiningPcs, LeavingPcs
  <2>6. TodoInv'
    BY DEF TypeOK, MemberInv, TodoInv
  <2> QED
    BY <2>1, <2>2, <2>3, <2>4, <2>5, <2>6 DEF MemberInv
<1>5. OpenInv'
  BY DEF TypeOK, OpenInv, LeavingPcs
<1> QED
  BY <1>1, <1>2, <1>3, <1>4, <1>5 DEF IInv

\* ExpireUnlock keeps TypeOK and IInv.
LEMMA ExpireUnlockStep ==
    ASSUME TypeOK, LockInv, TableInv, MemberInv, OpenInv, ub = "none",
      NEW t \in Threads, ExpireUnlock(t)
    PROVE  TypeOK' /\ IInv'
<1> USE ConstantsAssumption DEF ExpireUnlock, Goto, heap, locks, stack, Members
<1>1. TypeOK'
  BY DEF TypeOK, Pcs, InsertPcs, RemovePcs, BcastPcs, PushPcs, HttpPcs,
      LoopPcs, ConnPcs
<1>2. LockInv'
  BY DEF TypeOK, LockInv, TablePcs, TimerPcs, UserPcs, HandlerPcs, InsertPcs,
      RemovePcs, BcastPcs, HttpPcs
<1>3. TableInv'
  BY DEF TypeOK, TableInv, InsertPcs
<1>4. MemberInv'
  <2>1. ListInv'
    BY DEF TypeOK, MemberInv, ListInv
  <2>2. HandlerInv'
    BY DEF TypeOK, MemberInv, HandlerInv
  <2>3. PhaseInv'
    BY DEF TypeOK, LockInv, MemberInv, PhaseInv, AskingPcs, JoiningPcs,
        HandlerPcs, HttpPcs, InsertPcs, BcastPcs, RemovePcs
  <2>4. WebsocketInv'
    BY DEF TypeOK, LockInv, MemberInv, WebsocketInv, LeavingPcs, HandlerPcs,
        HttpPcs, InsertPcs, BcastPcs, RemovePcs
  <2>5. HttpInv'
    BY DEF TypeOK, MemberInv, HttpInv, JoiningPcs, LeavingPcs
  <2>6. TodoInv'
    BY DEF TypeOK, MemberInv, TodoInv
  <2> QED
    BY <2>1, <2>2, <2>3, <2>4, <2>5, <2>6 DEF MemberInv
<1>5. OpenInv'
  BY DEF TypeOK, OpenInv, LeavingPcs
<1> QED
  BY <1>1, <1>2, <1>3, <1>4, <1>5 DEF IInv

\* MixedHandlers ends in undefined behaviour, where IInv says nothing.
LEMMA MixedHandlersStep ==
    ASSUME TypeOK, NEW t \in Threads, MixedHandlers(t)
    PROVE  TypeOK' /\ IInv'
<1>1. TypeOK'
  BY DEF MixedHandlers, TypeOK, heap, locks, stack
<1>2. ub' # "none"
  BY DEF MixedHandlers
<1> QED
  BY <1>1, <1>2 DEF IInv

\* ReusedConn ends in undefined behaviour, where IInv says nothing.
LEMMA ReusedConnStep ==
    ASSUME TypeOK, NEW t \in Threads, ReusedConn(t)
    PROVE  TypeOK' /\ IInv'
<1>1. TypeOK'
  BY DEF ReusedConn, TypeOK, heap, locks, stack
<1>2. ub' # "none"
  BY DEF ReusedConn
<1> QED
  BY <1>1, <1>2 DEF IInv

-----------------------------------------------------------------------------
(* The invariant.                                                          *)

\* The initial state has no channel, no member and no mutex taken.
LEMMA InitInv == Init => Inv
<1> USE ConstantsAssumption
<1>1. Init => TypeOK
  BY DEF Init, TypeOK, Pcs, LoopPcs
<1>2. Init => LockInv
  BY DEF Init, LockInv, TablePcs, TimerPcs, UserPcs, HandlerPcs, InsertPcs,
         RemovePcs, BcastPcs, HttpPcs
<1>3. Init => TableInv /\ MemberInv /\ OpenInv
  BY DEF Init, TableInv, MemberInv, OpenInv, ListInv, HandlerInv, PhaseInv,
         WebsocketInv, HttpInv, TodoInv, LeavingPcs, AskingPcs, JoiningPcs,
         InsertPcs, BcastPcs, Members
<1> QED
  BY <1>1, <1>2, <1>3 DEF Inv, IInv

\* Every step keeps the invariant, whichever thread takes it.
LEMMA StepInv ==
    ASSUME Inv, [Next]_vars
    PROVE  Inv'
<1>1. CASE UNCHANGED vars
  BY <1>1 DEF vars, heap, locks, stack, Inv, IInv, TypeOK, LockInv, TableInv,
      MemberInv, OpenInv, ListInv, HandlerInv, PhaseInv, WebsocketInv, HttpInv,
      TodoInv, Members
<1>2. CASE Next
  <2> PICK t \in Threads : Event(t) \/ Step(t)
    BY <1>2 DEF Next
  <2> USE <1>2 DEF Next, Inv, IInv
  <2>1. CASE Event(t)
    BY <2>1, DeliverStep, HttpNothingToReadStep, HttpPartialStep,
       HttpHangupStep, HttpRefuseStep, HttpUpgradeStep, WsNothingToReadStep,
       WsMessageStep, WsRefuseStep, WsCloseStep, MixedHandlersStep DEF Event
  <2>2. CASE Step(t)
    BY <2>2, FindTimerStep, EndEventsStep, LockConnStep, UnlockConnStep,
       CloseConnStep, RejectStep, RejectFailsStep, InsertFindStep, InsertCreateStep,
       InsertNoMemoryStep, InsertUserStep, InsertUserNoMemoryStep,
       InsertUnlockUsersStep, InsertUnlockTableStep, InsertFailsStep, SwitchProtocolStep,
       SwitchFailsStep, SendIdentStep, IdentFailsStep, BroadcastLockStep,
       BroadcastSendStep, BroadcastUnlockStep, RemoveUserStep,
       RemoveChannelStep, FreeChannelStep, RemoveUnlockStep, ExpireLockStep,
       PushLockTableStep, PushNextStep, PushUsersStep, PushStatusStep,
       PushSendStep, PushUnlockStep, PushUnlockTableStep, ExpireUnlockStep,
       ReusedConnStep DEF Step
  <2> QED
    BY <2>1, <2>2
<1> QED
  BY <1>1, <1>2

\* TypeOK and IInv hold in every reachable state.
THEOREM Invariance == Spec => []Inv
<1>1. Inv /\ [Next]_vars => Inv'
  BY StepInv
<1> QED
  BY InitInv, <1>1, PTL DEF Spec

-----------------------------------------------------------------------------
(* What follows from the invariant.                                        *)

\* Every variable keeps its type.
THEOREM TypeCorrect == Spec => []TypeOK
<1>1. Inv => TypeOK
  BY DEF Inv
<1> QED
  BY Invariance, <1>1, PTL

\* What the handlers rely on: who owns which mutex, what the table holds, who is in
\* which userlist, and that a member's connection waits for its own channel.
THEOREM HandlersAreRight == Spec => []IInv
<1>1. Inv => IInv
  BY DEF Inv
<1> QED
  BY Invariance, <1>1, PTL

\* No thread uses a freed channel: whoever waits for a userlist is protected
\* by the table lock it holds or by the membership of its own connection.
THEOREM ChannelMemorySafe == Spec => []NoUseAfterFree
<1>1. Inv => NoUseAfterFree
  <2> SUFFICES ASSUME Inv, ub = "none", NEW t \in Threads, UsesChannel(t)
               PROVE  to[t] \in alive
    BY DEF NoUseAfterFree
  <2> USE ConstantsAssumption DEF Inv, IInv
  <2>1. CASE pc[t] \in {"ins_users", "ins_users_unlock", "push_lock",
      "push_send"}
    BY <2>1 DEF TypeOK, TableInv, InsertPcs
  <2>2. CASE pc[t] \in {"rm_table", "rm_free"}
    BY <2>2 DEF TableInv
  <2>3. CASE \/ pc[t] \in {"final", "bc_lock", "bc_send", "rm_lock"}
             \/ pc[t] = "ident" /\ conn[tc[t]] # "freed"
    BY <2>3 DEF MemberInv, ListInv, HandlerInv, Members
  <2> QED
    BY <2>1, <2>2, <2>3 DEF UsesChannel
<1> QED
  BY Invariance, <1>1, PTL

\* The table holds live channels under their own ids.
THEOREM TableIsSound == Spec => []TableSound
<1>1. Inv => TableSound
  BY DEF Inv, IInv, TableInv, TableSound
<1> QED
  BY Invariance, <1>1, PTL

\* A channel with a member is in the table.
THEOREM MembersAreFindable == Spec => []MembersFindable
<1>1. Inv => MembersFindable
  BY DEF Inv, IInv, TableInv, MembersFindable, Members
<1> QED
  BY Invariance, <1>1, PTL

\* As long as send() does not fail, a walk over a userlist meets a freed
\* connection only where a late HTTP handler closed it.
THEOREM SendsAreToOpen ==
    ASSUME "error" \notin SendOutcomes
    PROVE  Spec => []SendsToOpen
<1>1. Inv => SendsToOpen
  <2> SUFFICES ASSUME Inv, ub = "none", NEW t \in Threads, NEW m \in mtodo[t]
               PROVE  conn[m] # "freed" \/ m \in stale
    BY DEF SendsToOpen
  <2>1. pc[t] \in {"bc_send", "push_send"} /\ m \in Members(to[t])
    BY DEF Inv, IInv, MemberInv, TodoInv
  <2>2. to[t] \in Objs
    BY <2>1 DEF Inv, IInv, MemberInv, HandlerInv, TableInv
  <2>3. m \in Conns
    BY <2>1, <2>2 DEF Inv, TypeOK, Members
  <2>4. CASE m \in users[to[t]]
    BY <2>2, <2>3, <2>4 DEF Inv, IInv, OpenInv
  <2>5. CASE m \in stray[to[t]]
    BY <2>2, <2>3, <2>5 DEF Inv, IInv, MemberInv, ListInv
  <2> QED
    BY <2>1, <2>4, <2>5 DEF Members
<1> QED
  BY Invariance, <1>1, PTL

\* The only way threads can wait for one another is the inversion.  A thread
\* of the set that waits for c->lock or timer_lock waits for one that waits
\* for the table or a userlist; a userlist's owner waits only for the table,
\* and the table's owner waits only for a userlist.
THEOREM OnlyInversionDeadlocks == Spec => []DeadlockShape
<1>1. Inv => DeadlockShape
  <2> SUFFICES ASSUME Inv, ub = "none", NEW S \in SUBSET Threads, S # {},
                      \A t \in S : \E s \in S : WaitsFor(t, s)
               PROVE  \E r, w \in S : Inversion(r, w)
    BY DEF DeadlockShape
  <2> USE ConstantsAssumption DEF Inv, IInv
  <2>1. ASSUME NEW s \in S, pc[s] \in TablePcs
        PROVE  \E r, w \in S : Inversion(r, w)
    <3>1. PICK r \in S : WaitsFor(s, r)
      OBVIOUS
    <3>2. /\ pc[s] \in {"ins_users", "push_lock"}
          /\ to[s] \in alive
          /\ ulock[to[s]] = r
      BY <2>1, <3>1 DEF WaitsFor, TablePcs, TableInv, TypeOK, InsertPcs
    <3>3. pc[r] \in UserPcs \cup {"rm_unlock"} /\ to[r] = to[s]
      BY <3>2 DEF LockInv
    <3>4. \E u \in S : WaitsFor(r, u)
      OBVIOUS
    <3>5. pc[r] = "rm_table"
      BY <3>3, <3>4 DEF WaitsFor, UserPcs
    <3>6. tlock = s
      BY <2>1 DEF LockInv
    <3> QED
      BY <3>2, <3>3, <3>5, <3>6 DEF Inversion
  <2>2. ASSUME NEW s \in S, pc[s] \in UserPcs
        PROVE  \E r, w \in S : Inversion(r, w)
    <3>1. PICK w \in S : WaitsFor(s, w)
      OBVIOUS
    <3>2. tlock = w
      BY <2>2, <3>1 DEF WaitsFor, UserPcs
    <3> QED
      BY <2>1, <3>2 DEF LockInv
  <2>3. ASSUME NEW s \in S, NEW u \in S, WaitsFor(s, u),
               pc[s] \in {"ins_table", "rm_table", "push_table",
                          "ins_users", "bc_lock", "rm_lock", "push_lock"}
        PROVE  \E r, w \in S : Inversion(r, w)
    <3>1. CASE pc[s] \in {"ins_table", "rm_table", "push_table"}
      BY <2>1, <2>3, <3>1 DEF WaitsFor, LockInv
    <3>2. CASE pc[s] \in {"ins_users", "bc_lock", "rm_lock", "push_lock"}
      <4>1. to[s] \in alive /\ ulock[to[s]] = u
        BY <2>3, <3>2 DEF WaitsFor, TypeOK, TableInv, MemberInv, ListInv,
           HandlerInv, InsertPcs, Members
      <4>2. pc[u] \in UserPcs \cup {"rm_unlock"}
        BY <4>1 DEF LockInv
      <4>3. \E x \in S : WaitsFor(u, x)
        OBVIOUS
      <4> QED
        BY <2>2, <4>2, <4>3 DEF WaitsFor
    <3> QED
      BY <2>3, <3>1, <3>2
  <2>4. PICK t \in S : TRUE
    OBVIOUS
  <2>5. PICK s \in S : WaitsFor(t, s)
    OBVIOUS
  <2>6. PICK u \in S : WaitsFor(s, u)
    OBVIOUS
  <2>7. CASE pc[t] \in {"loop", "expire"}
    <3>1. pc[s] \in TimerPcs
      BY <2>5, <2>7 DEF WaitsFor, LockInv
    <3> QED
      BY <2>3, <2>6, <3>1 DEF WaitsFor, TimerPcs
  <2>8. CASE pc[t] \in {"conn_http", "conn_websocket"}
    <3>1. pc[s] \in HandlerPcs
      BY <2>5, <2>8 DEF WaitsFor, LockInv
    <3> QED
      BY <2>3, <2>6, <3>1 DEF WaitsFor, HandlerPcs, HttpPcs, InsertPcs,
      BcastPcs,
         RemovePcs
  <2> QED
    BY <2>3, <2>5, <2>7, <2>8 DEF WaitsFor
<1> QED
  BY Invariance, <1>1, PTL

-----------------------------------------------------------------------------
(* What single steps may do.                                               *)

\* The actions that change the table, a userlist or a channel pointer.  A new
\* user id does not change who is in a userlist.
LEMMA WhatChangesRooms ==
    ASSUME TypeOK, NEW t \in Threads, Event(t) \/ Step(t),
           ~ (\E o \in Objs : InsertCreate(t, o)),
           ~ InsertUser(t), ~ RemoveUser(t), ~ RemoveChannel(t)
    PROVE  /\ UNCHANGED <<table, uchan>>
           /\ \A o \in Objs : users'[o] \cup stray'[o] = Members(o)
<1>1. CASE HttpRefuse(t) \/ \E i \in Ids : HttpUpgrade(t, i)
  BY <1>1 DEF HttpRefuse, HttpUpgrade, ResetId, Members, TypeOK
<1>2. CASE Event(t) /\ ~ HttpRefuse(t) /\ ~ \E i \in Ids : HttpUpgrade(t, i)
  <2>1. UNCHANGED heap
    BY <1>2 DEF Event, Deliver, HttpNothingToRead, HttpPartial, HttpHangup,
       WsNothingToRead, WsMessage, WsRefuse, WsClose, MixedHandlers
  <2> QED
    BY <2>1 DEF heap, Members
<1>3. CASE Step(t)
  <2>1. UNCHANGED <<table, users, stray, uchan>>
    BY <1>3 DEF Step, FindTimer, EndEvents, LockConn, UnlockConn, CloseConn,
       Reject, RejectFails, InsertFind, InsertNoMemory, InsertUserNoMemory,
       InsertUnlockUsers, InsertUnlockTable, InsertFails, SwitchProtocol,
       SwitchFails, SendIdent, IdentFails, BroadcastLock, BroadcastSend,
       SendToMember, BroadcastUnlock, FreeChannel, RemoveUnlock, ExpireLock,
       PushLockTable, PushNext, PushUsers, PushStatus, PushSend, PushUnlock,
       PushUnlockTable, ExpireUnlock, ReusedConn, heap
  <2> QED
    BY <2>1 DEF Members
<1> QED
  BY <1>1, <1>2, <1>3

\* Which steps may give a connection to a late HTTP handler.
LEMMA WhatChangesStale ==
    ASSUME NEW t \in Threads, Event(t) \/ Step(t), ~ LockConn(t)
    PROVE  stale' = stale
<1>1. CASE Event(t)
  BY <1>1 DEF Event, Deliver, HttpNothingToRead, HttpPartial, HttpHangup,
     HttpRefuse, HttpUpgrade, WsNothingToRead, WsMessage, WsRefuse, WsClose,
     MixedHandlers
<1>2. CASE Step(t)
  BY <1>2 DEF Step, FindTimer, EndEvents, UnlockConn, CloseConn, Reject,
     RejectFails, InsertFind, InsertCreate, InsertNoMemory, InsertUser,
     InsertUserNoMemory, InsertUnlockUsers, InsertUnlockTable, InsertFails,
     SwitchProtocol, SwitchFails, SendIdent, IdentFails, BroadcastLock,
     BroadcastSend, SendToMember, BroadcastUnlock, RemoveUser, RemoveChannel,
     FreeChannel, RemoveUnlock, ExpireLock, PushLockTable, PushNext, PushUsers,
     PushStatus, PushSend, PushUnlock, PushUnlockTable, ExpireUnlock, ReusedConn
<1> QED
  BY <1>1, <1>2

\* A channel leaves the table only when its userlist is empty.
THEOREM MembersKeepTheirChannel == Spec => NeverDropsMembers
<1> DEFINE A == \A i \in Ids :
         (table[i] # Null /\ table'[i] # table[i]) => Members(table[i]) = {}
<1>1. Inv /\ [Next]_vars => [A]_vars
  <2> SUFFICES ASSUME Inv, Next PROVE A
    OBVIOUS
  <2>1. PICK t \in Threads : Event(t) \/ Step(t)
    BY DEF Next
  <2> USE DEF Inv, IInv, Next
  <2>2. CASE \E o \in Objs : InsertCreate(t, o)
    BY <2>2 DEF InsertCreate, TypeOK
  <2>3. CASE RemoveChannel(t)
    BY <2>3 DEF RemoveChannel, TypeOK, TableInv
  <2>4. CASE InsertUser(t) \/ RemoveUser(t)
    BY <2>4 DEF InsertUser, RemoveUser
  <2> QED
    BY <2>1, <2>2, <2>3, <2>4, WhatChangesRooms
<1> QED
  BY Invariance, <1>1, PTL DEF NeverDropsMembers, Spec

\* Nobody joins or leaves a channel while a thread walks over its members.
THEOREM SendingFreezesMembers == Spec => FrozenWhileSending
<1> DEFINE A == \A t \in Threads :
         (pc[t] \in {"bc_send", "push_send"} /\ pc'[t] = pc[t])
            => users'[to[t]] \cup stray'[to[t]] = Members(to[t])
<1>1. Inv /\ [Next]_vars => [A]_vars
  <2> SUFFICES ASSUME Inv, Next, NEW s \in Threads,
                      pc[s] \in {"bc_send", "push_send"}
               PROVE  users'[to[s]] \cup stray'[to[s]] = Members(to[s])
    OBVIOUS
  <2>1. PICK t \in Threads : Event(t) \/ Step(t)
    BY DEF Next
  <2> USE ConstantsAssumption DEF Inv, IInv, Next
  <2>2. to[s] \in alive /\ ulock[to[s]] = s
    BY DEF TypeOK, LockInv, TableInv, MemberInv, ListInv, HandlerInv, UserPcs,
       Members
  <2> USE DEF Members
  <2>3. CASE \E o \in Objs : InsertCreate(t, o)
    BY <2>2, <2>3 DEF InsertCreate, TypeOK
  <2>4. CASE InsertUser(t)
    BY <2>2, <2>4 DEF InsertUser, TypeOK
  <2>5. CASE RemoveUser(t)
    BY <2>2, <2>5 DEF RemoveUser, TypeOK
  <2>6. CASE RemoveChannel(t)
    BY <2>6 DEF RemoveChannel
  <2>7. CASE /\ ~ \E o \in Objs : InsertCreate(t, o)
             /\ ~ InsertUser(t) /\ ~ RemoveUser(t) /\ ~ RemoveChannel(t)
    <3>1. to[s] \in Objs
      BY <2>2 DEF TypeOK
    <3>2. users'[to[s]] \cup stray'[to[s]] = Members(to[s])
      BY <2>1, <2>7, <3>1, WhatChangesRooms
    <3> QED
      BY <3>2
  <2> QED
    BY <2>3, <2>4, <2>5, <2>6, <2>7
<1> QED
  BY Invariance, <1>1, PTL DEF FrozenWhileSending, Spec

-----------------------------------------------------------------------------
(* Refinement.                                                             *)

\* The room a connection that has switched is in, while no thread has it locked.
LEMMA SwitchedAreIn ==
    ASSUME Inv, ub = "none", NEW c \in Conns, conn[c] = "websocket",
           \A t \in Threads : tc[t] = c => pc[t] \notin LeavingPcs
    PROVE  \E i \in Ids : c \in RoomMembers[i]
<1> USE ConstantsAssumption DEF Inv, IInv
<1>1. uchan[c] \in Objs /\ c \in Members(uchan[c])
  BY DEF MemberInv, WebsocketInv
<1>2. uchan[c] \in alive
  BY <1>1 DEF MemberInv, ListInv, Members
<1>3. ~ \E t \in Threads : pc[t] = "rm_free" /\ to[t] = uchan[c]
  BY <1>1 DEF TableInv
<1>4. cid[uchan[c]] \in Ids /\ table[cid[uchan[c]]] = uchan[c]
  BY <1>2, <1>3 DEF TableInv
<1> QED
  BY <1>1, <1>4 DEF RoomMembers

\* An insertion is a Join of the room of the channel's id.
LEMMA InsertUserJoins ==
    ASSUME Inv, ub = "none", NEW t \in Threads, InsertUser(t)
    PROVE  Abstract!Join(tc[t], tid[t]) /\ tc[t] \in Conns /\ tid[t] \in Ids
<1> USE ConstantsAssumption DEF Inv, IInv
<1> DEFINE c == tc[t]
           o == to[t]
           i == tid[t]
<1>1. /\ c \in Conns /\ i \in Ids /\ o \in Objs
      /\ table[i] = o
      /\ \A j \in Ids : table[j] = o => j = i
  BY DEF InsertUser, TypeOK, LockInv, HandlerPcs, InsertPcs, TableInv
<1>2. /\ users' = [users EXCEPT ![o] = @ \cup {c}]
      /\ uchan' = [uchan EXCEPT ![c] = o]
      /\ table' = table /\ stray' = stray /\ stale' = stale
  BY DEF InsertUser
<1>3. RoomMembers' = [RoomMembers EXCEPT ![i] = @ \cup {c}]
  BY <1>1, <1>2 DEF RoomMembers, TypeOK, Members
<1>4. c \notin RoomLeft /\ c \in Abstract!Outside \cup (stale \ RoomLeft)
  <2>1. CASE conn[c] = "http" /\ uchan[c] = Null
    <3>1. \A p \in Objs : c \notin users[p]
      BY <1>1, <2>1 DEF MemberInv, ListInv
    <3>2. \A p \in Objs : c \notin stray[p]
      BY <1>1, <2>1 DEF MemberInv, ListInv, PhaseInv
    <3>3. \A j \in Ids : c \notin RoomMembers[j]
      BY <3>1, <3>2 DEF RoomMembers, TypeOK, Members
    <3>4. c \notin RoomLeft
      BY <2>1 DEF RoomLeft
    <3> QED
      BY <1>1, <3>3, <3>4 DEF Abstract!Outside
  <2>2. CASE conn[c] = "websocket" /\ c \in stale
    <3>1. \A s \in Threads : tc[s] = c => pc[s] \notin LeavingPcs
      BY DEF InsertUser, LockInv, LeavingPcs, HandlerPcs, RemovePcs, InsertPcs
    <3>2. \E j \in Ids : c \in RoomMembers[j]
      BY <1>1, <2>2, <3>1, SwitchedAreIn
    <3> QED
      BY <2>2, <3>2 DEF RoomLeft
  <2> QED
    BY <2>1, <2>2 DEF InsertUser, MemberInv, PhaseInv, AskingPcs
<1>5. RoomLeft' = RoomLeft
  <2>1. c \in RoomMembers'[i]
    BY <1>1, <1>3 DEF RoomMembers
  <2>2. ASSUME NEW p \in Conns, p # c
        PROVE  /\ uchan'[p] = uchan[p]
               /\ \A j \in Ids : p \in RoomMembers'[j] <=> p \in RoomMembers[j]
    <3>1. DOMAIN RoomMembers = Ids
      BY DEF RoomMembers
    <3>2. \A j \in Ids : p \in RoomMembers'[j] <=> p \in RoomMembers[j]
      BY <1>3, <2>2, <3>1
    <3> QED
      BY <1>2, <2>2, <3>2 DEF TypeOK
  <2> QED
    BY <1>1, <1>4, <2>1, <2>2 DEF RoomLeft
<1> QED
  BY <1>1, <1>2, <1>3, <1>4, <1>5 DEF Abstract!Join

\* A removal is a Leave of the room of the channel's id, unless an element of
\* an earlier user id keeps the connection in the userlist.
LEMMA RemoveUserLeaves ==
    ASSUME Inv, ub = "none", NEW t \in Threads, RemoveUser(t)
    PROVE  \/ UNCHANGED <<RoomMembers, RoomLeft, stale>>
           \/ /\ Abstract!Leave(tc[t], cid[to[t]])
              /\ tc[t] \in Conns /\ cid[to[t]] \in Ids
<1> USE ConstantsAssumption DEF Inv, IInv
<1> DEFINE c == tc[t]
           o == to[t]
           i == cid[o]
<1>1. /\ c \in Conns /\ o \in alive /\ o \in Objs /\ c \in Members(o)
  BY DEF RemoveUser, TypeOK, LockInv, HandlerPcs, RemovePcs, MemberInv, ListInv,
     HandlerInv, Members
<1>2. i \in Ids /\ table[i] = o /\ \A j \in Ids : table[j] = o => j = i
  BY <1>1 DEF RemoveUser, TableInv, Members
<1>3. /\ users' = [users EXCEPT ![o] = @ \ {c}]
      /\ uchan' = uchan
      /\ table' = table /\ stray' = stray /\ stale' = stale
  BY DEF RemoveUser
<1>4. CASE c \in stray[o]
  <2>1. \A p \in Objs : users'[p] \cup stray'[p] = Members(p)
    BY <1>1, <1>3, <1>4 DEF Members, TypeOK
  <2>2. RoomMembers' = RoomMembers
    <3>1. \A j \in Ids : table[j] # Null => table[j] \in Objs
      BY DEF TypeOK
    <3> QED
      BY <1>3, <2>1, <3>1 DEF RoomMembers, Members
  <2> QED
    BY <1>3, <2>2 DEF RoomLeft
<1>5. CASE c \notin stray[o]
  <2>1. RoomMembers' = [RoomMembers EXCEPT ![i] = @ \ {c}]
    <3>1. \A p \in Objs \ {o} : users'[p] \cup stray'[p] = Members(p)
      BY <1>3 DEF TypeOK, Members
    <3>2. users'[o] \cup stray'[o] = Members(o) \ {c}
      BY <1>1, <1>3, <1>5 DEF TypeOK, Members
    <3>3. o # Null
      BY <1>1
    <3>4. \A j \in Ids \ {i} : table[j] # Null => table[j] \in Objs \ {o}
      BY <1>2 DEF TypeOK
    <3>5. RoomMembers' = [j \in Ids |-> IF table[j] = Null THEN {}
                                       ELSE users'[table[j]] \cup stray'[table[j]]]
      BY <1>3 DEF RoomMembers, Members
    <3>6. RoomMembers = [j \in Ids |-> IF table[j] = Null THEN {}
                                      ELSE Members(table[j])]
      BY DEF RoomMembers
    <3>7. RoomMembers'[i] = RoomMembers[i] \ {c}
      BY <1>2, <3>2, <3>3, <3>5, <3>6
    <3>8. ASSUME NEW j \in Ids, j # i
          PROVE  RoomMembers'[j] = RoomMembers[j]
      BY <3>1, <3>4, <3>5, <3>6, <3>8
    <3> HIDE DEF c, i
    <3> QED
      BY <1>2, <3>5, <3>6, <3>7, <3>8
  <2>2. c \in RoomMembers[i]
    BY <1>1, <1>2 DEF RoomMembers
  <2>3. uchan[c] # Null
    BY <1>1, <1>5 DEF Members, MemberInv, ListInv
  <2>4. RoomLeft' = RoomLeft \cup
          {q \in {c} : \A j \in Ids \ {i} : q \notin RoomMembers[j]}
    <3>1. ASSUME NEW p \in Conns, p # c
          PROVE  p \in RoomLeft' <=> p \in RoomLeft
      <4>1. \A j \in Ids : p \in RoomMembers'[j] <=> p \in RoomMembers[j]
        BY <1>2, <2>1, <3>1 DEF RoomMembers
      <4> QED
        BY <1>3, <4>1 DEF RoomLeft
    <3>2. c \in RoomLeft' <=> \A j \in Ids \ {i} : c \notin RoomMembers[j]
      <4>1. \A j \in Ids \ {i} : RoomMembers'[j] = RoomMembers[j]
        BY <1>2, <2>1 DEF RoomMembers
      <4>2. c \notin RoomMembers'[i]
        BY <1>2, <2>1 DEF RoomMembers
      <4> QED
        BY <1>1, <1>2, <1>3, <2>3, <4>1, <4>2 DEF RoomLeft
    <3>3. c \notin RoomLeft
      BY <1>2, <2>2 DEF RoomLeft
    <3>4. RoomLeft \subseteq Conns /\ RoomLeft' \subseteq Conns
      BY DEF RoomLeft
    <3> QED
      BY <1>1, <3>1, <3>2, <3>3, <3>4
  <2> QED
    BY <1>1, <1>2, <1>3, <2>1, <2>2, <2>4 DEF Abstract!Leave
<1> QED
  BY <1>4, <1>5

\* Creating a channel and taking an empty one out of the table do not show.
LEMMA TableStepsDoNotShow ==
    ASSUME Inv, ub = "none", NEW t \in Threads,
           (\E o \in Objs : InsertCreate(t, o)) \/ RemoveChannel(t)
    PROVE  UNCHANGED <<RoomMembers, RoomLeft, stale>>
<1> USE ConstantsAssumption DEF Inv, IInv, Members
<1>1. uchan' = uchan /\ stale' = stale
  BY DEF InsertCreate, RemoveChannel
<1>2. RoomMembers' = RoomMembers
  <2>1. CASE RemoveChannel(t)
    <3>1. /\ to[t] \in Objs /\ cid[to[t]] \in Ids
          /\ Members(to[t]) = {} /\ table[cid[to[t]]] = to[t]
      BY <2>1 DEF RemoveChannel, TypeOK, LockInv, UserPcs, TableInv
    <3>2. /\ users' = users /\ stray' = stray
          /\ table' = [table EXCEPT ![cid[to[t]]] = Null]
      BY <2>1 DEF RemoveChannel
    <3> QED
      BY <3>1, <3>2 DEF RoomMembers, TypeOK
  <2>2. ASSUME NEW o \in Objs, InsertCreate(t, o)
        PROVE  RoomMembers' = RoomMembers
    <3>1. \A i \in Ids : table[i] # o
      BY <2>2 DEF InsertCreate, TableInv
    <3>2. /\ tid[t] \in Ids /\ table[tid[t]] = Null
          /\ table' = [table EXCEPT ![tid[t]] = o]
          /\ users' = [users EXCEPT ![o] = {}]
          /\ stray' = [stray EXCEPT ![o] = {}]
      BY <2>2 DEF InsertCreate, TableInv, InsertPcs
    <3>3. users'[o] \cup stray'[o] = {}
      BY <3>2 DEF TypeOK
    <3>4. \A i \in Ids \ {tid[t]} : table'[i] = table[i]
      BY <3>2 DEF TypeOK
    <3>5. \A p \in Objs \ {o} : users'[p] = users[p] /\ stray'[p] = stray[p]
      BY <3>2 DEF TypeOK
    <3>6. \A i \in Ids : table[i] # Null => table[i] \in Objs \ {o}
      BY <3>1 DEF TypeOK
    <3>7. table'[tid[t]] = o
      BY <3>2 DEF TypeOK
    <3>8. ASSUME NEW i \in Ids
          PROVE  (IF table'[i] = Null THEN {} ELSE users'[table'[i]] \cup stray'[table'[i]])
                   = (IF table[i] = Null THEN {} ELSE users[table[i]] \cup stray[table[i]])
      <4>1. CASE i = tid[t]
        BY <3>2, <3>3, <3>7, <4>1
      <4>2. CASE i # tid[t]
        BY <3>4, <3>5, <3>6, <4>2
      <4> QED
        BY <4>1, <4>2
    <3> QED
      BY <3>8 DEF RoomMembers
  <2> QED
    BY <2>1, <2>2
<1> QED
  BY <1>1, <1>2 DEF RoomLeft

\* Locking a connection is a Mistake when an HTTP handler does it too late.
LEMMA LockConnMistakes ==
    ASSUME Inv, ub = "none", NEW t \in Threads, LockConn(t)
    PROVE  \/ UNCHANGED <<RoomMembers, RoomLeft, stale>>
           \/ Abstract!Mistake(tc[t]) /\ tc[t] \in Conns
<1> USE ConstantsAssumption DEF Inv, IInv
<1> DEFINE c == tc[t]
<1>1. UNCHANGED <<RoomMembers, RoomLeft>>
  BY DEF LockConn, heap, RoomMembers, RoomLeft, Members
<1>2. c \in Conns /\ clock[c] = NoThread
  BY DEF LockConn, LockInv
<1>3. CASE pc[t] = "conn_http" /\ conn[c] = "websocket"
  <2>1. stale' = stale \cup {c}
    BY <1>3 DEF LockConn
  <2>2. \A s \in Threads : tc[s] = c => pc[s] \notin LeavingPcs
    BY <1>2 DEF LockInv, LeavingPcs, HandlerPcs, RemovePcs
  <2>3. \E j \in Ids : c \in RoomMembers[j]
    BY <1>2, <1>3, <2>2, SwitchedAreIn
  <2> QED
    BY <1>1, <1>2, <2>1, <2>3 DEF Abstract!Mistake
<1>4. CASE ~ (pc[t] = "conn_http" /\ conn[c] = "websocket")
  BY <1>1, <1>4 DEF LockConn
<1> QED
  BY <1>3, <1>4

\* The threads with their mutexes and their heap implement the rooms.
THEOREM ChannelRefinesRooms == Spec => ImplementsRooms
<1>1. Init => Abstract!Init
  BY ConstantsAssumption DEF Init, Abstract!Init, RoomMembers, RoomLeft
<1>2. Inv /\ [Next]_vars => [Abstract!Next]_<<RoomMembers, RoomLeft, stale>>
  <2> SUFFICES ASSUME Inv, [Next]_vars
               PROVE  Abstract!Next \/ UNCHANGED <<RoomMembers, RoomLeft, stale>>
    OBVIOUS
  <2>1. CASE UNCHANGED vars
    BY <2>1 DEF vars, heap, RoomMembers, RoomLeft, Members
  <2>2. CASE Next
    <3>1. PICK t \in Threads : Event(t) \/ Step(t)
      BY <2>2 DEF Next
    <3> USE <2>2 DEF Next
    <3>2. CASE InsertUser(t)
      BY <3>2, InsertUserJoins DEF Abstract!Next
    <3>3. CASE RemoveUser(t)
      BY <3>3, RemoveUserLeaves DEF Abstract!Next
    <3>4. CASE (\E o \in Objs : InsertCreate(t, o)) \/ RemoveChannel(t)
      BY <3>4, TableStepsDoNotShow
    <3>5. CASE LockConn(t)
      BY <3>5, LockConnMistakes DEF Abstract!Next
    <3>6. CASE /\ UNCHANGED <<table, uchan, stale>>
               /\ \A o \in Objs : users'[o] \cup stray'[o] = Members(o)
      <4>1. RoomMembers' = RoomMembers
        BY <3>6 DEF RoomMembers, Members, Inv, TypeOK
      <4> QED
        BY <3>6, <4>1 DEF RoomLeft
    <3> QED
      BY <3>1, <3>2, <3>3, <3>4, <3>5, <3>6, WhatChangesRooms, WhatChangesStale
         DEF Inv
  <2> QED
    BY <2>1, <2>2
<1> QED
  BY Invariance, <1>1, <1>2, PTL DEF ImplementsRooms, Abstract!Spec, Spec

=============================================================================
