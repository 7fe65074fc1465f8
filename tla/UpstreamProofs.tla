--------------------------- MODULE UpstreamProofs ---------------------------
(***************************************************************************)
(* Proofs about Upstream, for any number of threads, clients, status       *)
(* timers and addresses, for all outcomes of the calls and all answers of  *)
(* the servers: types, the ownership of peers, that a request is sent and  *)
(* answered at most once, and that a client is let in by the answer to its *)
(* latest request.                                                         *)
(***************************************************************************)
EXTENDS Upstream, TLAPS

-----------------------------------------------------------------------------
(* The inductive invariant.                                                *)

\* Labels at which a thread has c->lock, whoever c is.
HandlerPcs == {"handle", "frame", "complete", "spin"}

\* Labels of a thread that begins a request; it has c->lock when c is a client.
InitPcs == {"init", "connect", "connected"}

\* A peer that is in use and the pointer of its owner belong together, and a peer is
\* of its owner's latest request.
PeerInv ==
    /\ \A p \in Peers : heap[p].sock # "free" =>
          heap[p].owner \in Owners /\ peer[heap[p].owner] = p
    /\ \A o \in Owners : peer[o] # Null =>
          /\ heap[peer[o]].sock # "free"
          /\ heap[peer[o]].owner = o
          /\ heap[peer[o]].req = reqno[o]

\* Who has c->lock.
LockInv ==
    /\ \A t \in Threads : pc[t] \in HandlerPcs => to[t] \in Owners /\ clock[to[t]] = t
    /\ \A t \in Threads : pc[t] \in InitPcs =>
          to[t] \in Owners /\ (to[t] \in Idents => clock[to[t]] = t)
    /\ \A t \in Threads : \A o \in Idents :
          clock[o] = t => to[t] = o /\ pc[t] \in HandlerPcs \union InitPcs

\* A thread's pointer to a peer, when it does not dangle, is of the owner it serves.
PointerInv ==
    /\ \A t \in Threads : pc[t] = "http" => to[t] \in Idents
    /\ \A t \in Threads : pc[t] = "event" => tp[t] \in Peers
    /\ \A t \in Threads : pc[t] \in {"lock", "handle"} =>
          /\ to[t] \in Owners
          /\ tp[t] \in Peers /\ heap[tp[t]].sock # "free" => heap[tp[t]].owner = to[t]

\* A client's request that has a peer, or is about to get one, is not answered, and
\* not sent either unless the state says so; stu_upstream_init finds no state set.
RequestInv ==
    \A o \in Idents :
        /\ answers[o] <= reqno[o]
        /\ sends[o] <= 1
        /\ peer[o] # Null => answers[o] < reqno[o] /\ (NotSent(o) => sends[o] = 0)
        /\ \A t \in Threads : pc[t] \in InitPcs /\ to[t] = o =>
              answers[o] < reqno[o] /\ sends[o] = 0 /\ pstate[o] = "IDLE"
        /\ conn[o] \in {"ws", "refused"} => answers[o] > 0

IInv == PeerInv /\ LockInv /\ PointerInv /\ RequestInv

-----------------------------------------------------------------------------
(* Each action keeps the types and the invariant.                          *)

\* stu_upstream_connect: the owner has the peer that it had, or a new one for its
\* latest request.
LEMMA UsePeerStep ==
    ASSUME TypeOK, PeerInv, NEW o \in Owners, NEW p \in Peers, UsePeer(o, p), UNCHANGED reqno
    PROVE  /\ heap' \in [Peers -> PeerType]
           /\ peer' \in [Owners -> Peers \union {Null}]
           /\ tp' \in [Threads -> Peers \union {Null, "reused"}]
           /\ PeerInv'
           /\ peer[o] # Null => UNCHANGED <<heap, peer, tp>>
           /\ peer[o] = Null =>
                 /\ heap[p].sock = "free"
                 /\ heap'[p].owner = o
                 /\ \A q \in Peers \ {p} : heap'[q] = heap[q]
                 /\ peer' = [peer EXCEPT ![o] = p]
                 /\ tp' = [th \in Threads |->
                             IF tp[th] = p /\ pc[th] \in {"lock", "handle"} /\ to[th] # o
                             THEN "reused" ELSE tp[th]]
<1> USE UpstreamAssumption DEF UsePeer
<1>1. CASE peer[o] # Null
  BY <1>1 DEF TypeOK, PeerInv
<1>2. CASE peer[o] = Null
  <2> DEFINE new == [NoPeer EXCEPT !.sock = "new", !.active = TRUE, !.ready = {"out"},
                                   !.owner = o, !.req = reqno[o]]
  <2>1. heap[p].sock = "free" /\ heap' = [heap EXCEPT ![p] = new] /\ peer' = [peer EXCEPT ![o] = p]
    BY <1>2
  <2>2. new \in PeerType
    BY DEF TypeOK, NoPeer, PeerType
  <2>3. new.sock # "free" /\ new.owner = o /\ new.req = reqno[o]
    BY DEF NoPeer
  <2> HIDE DEF new
  <2>4. heap' \in [Peers -> PeerType] /\ peer' \in [Owners -> Peers \union {Null}]
    BY <2>1, <2>2 DEF TypeOK
  <2>5. tp' \in [Threads -> Peers \union {Null, "reused"}]
    BY DEF TypeOK
  <2>6. PeerInv'
    BY <2>1, <2>3, <2>4 DEF PeerInv
  <2>7. heap'[p].owner = o /\ \A q \in Peers \ {p} : heap'[q] = heap[q]
    BY <2>1, <2>3 DEF TypeOK
  <2>8. tp' = [th \in Threads |->
                 IF tp[th] = p /\ pc[th] \in {"lock", "handle"} /\ to[th] # o
                 THEN "reused" ELSE tp[th]]
    BY <1>2
  <2> QED
    BY <1>2, <2>1, <2>4, <2>5, <2>6, <2>7, <2>8
<1> QED
  BY <1>1, <1>2

\* stu_upstream_cleanup: the owner has no peer, and the others keep theirs.
LEMMA CleanupStep ==
    ASSUME TypeOK, PeerInv, NEW o \in Owners, Cleanup(o),
           \A x \in Owners \ {o} : reqno'[x] = reqno[x]
    PROVE  /\ heap' \in [Peers -> PeerType]
           /\ peer' \in [Owners -> Peers \union {Null}]
           /\ pstate' \in [Owners -> {"IDLE", "CONNECTED", "LOADING", "LOADED", "COMPLETED"}]
           /\ PeerInv'
<1> USE UpstreamAssumption DEF Cleanup
<1>1. NoPeer \in PeerType /\ NoPeer.sock = "free"
  BY DEF PeerType, NoPeer
<1>2. heap' \in [Peers -> PeerType]
  BY <1>1 DEF TypeOK
<1>3. /\ peer' \in [Owners -> Peers \union {Null}]
      /\ pstate' \in [Owners -> {"IDLE", "CONNECTED", "LOADING", "LOADED", "COMPLETED"}]
  BY DEF TypeOK
<1>4. PeerInv'
  BY <1>1 DEF TypeOK, PeerInv
<1> QED
  BY <1>2, <1>3, <1>4

\* A thread is about to call the HTTP handler of a client.
LEMMA DeliverStep ==
    ASSUME TypeOK, IInv, NEW t \in Threads, NEW o \in Idents, Deliver(t, o)
    PROVE  TypeOK' /\ IInv'
<1> USE UpstreamAssumption DEF Deliver, Goto, clientVars, Owners, IInv
<1>1. TypeOK'
  BY DEF TypeOK
<1>2. PeerInv'
  BY DEF PeerInv
<1>3. LockInv'
  BY DEF LockInv, HandlerPcs, InitPcs
<1>4. PointerInv'
  BY DEF TypeOK, PointerInv
<1>5. RequestInv'
  BY DEF RequestInv, NotSent, InitPcs
<1> QED
  BY <1>1, <1>2, <1>3, <1>4, <1>5

\* The handler returns: there is no upgrade request.
LEMMA NoUpgradeStep ==
    ASSUME TypeOK, IInv, NEW t \in Threads, NoUpgrade(t)
    PROVE  TypeOK' /\ IInv'
<1> USE UpstreamAssumption DEF NoUpgrade, Return, clientVars, Owners, IInv
<1>1. TypeOK'
  BY DEF TypeOK
<1>2. PeerInv'
  BY DEF PeerInv
<1>3. LockInv'
  BY DEF LockInv, HandlerPcs, InitPcs
<1>4. PointerInv'
  BY DEF TypeOK, PointerInv
<1>5. RequestInv'
  BY DEF RequestInv, NotSent, InitPcs
<1> QED
  BY <1>1, <1>2, <1>3, <1>4, <1>5

\* Undefined behaviour changes nothing else: both handlers' buffers are mixed, or
\* stu_upstream_init dereferences NULL.
LEMMA UndefinedStep ==
    ASSUME TypeOK, IInv, NEW t \in Threads,
           NullPeer(t) \/ \E o \in Idents : MixedHandlers(t, o)
    PROVE  TypeOK' /\ IInv'
<1> USE DEF NullPeer, MixedHandlers, clientVars, threadVars, IInv
<1>1. TypeOK'
  BY DEF TypeOK
<1>2. PeerInv'
  BY DEF PeerInv
<1>3. LockInv'
  BY DEF LockInv
<1>4. PointerInv'
  BY DEF PointerInv
<1>5. RequestInv'
  BY DEF RequestInv, NotSent
<1> QED
  BY <1>1, <1>2, <1>3, <1>4, <1>5

\* A new upgrade request: the old peer is dropped, and the request has neither been
\* sent nor answered.
LEMMA UpgradeStep ==
    ASSUME TypeOK, IInv, NEW t \in Threads, Upgrade(t)
    PROVE  TypeOK' /\ IInv'
<1> USE UpstreamAssumption DEF Upgrade, Goto, Cleanup, Free, Owners, IInv
<1> DEFINE o == to[t]
<1>0. o \in Idents /\ o \in Owners
  BY DEF PointerInv
<1>1. reqno' \in [Owners -> 0 .. MaxRequests] /\ \A x \in Owners \ {o} : reqno'[x] = reqno[x]
  BY <1>0 DEF TypeOK
<1>2. /\ heap' \in [Peers -> PeerType]
      /\ peer' \in [Owners -> Peers \union {Null}]
      /\ pstate' \in [Owners -> {"IDLE", "CONNECTED", "LOADING", "LOADED", "COMPLETED"}]
      /\ PeerInv'
  BY <1>0, <1>1, CleanupStep
<1>3. TypeOK'
  <2>1. conn' \in [Owners -> {"idle", "pending", "refused", "ws", "closed", "timer"}]
    BY <1>0 DEF TypeOK
  <2>2. clock' \in [Owners -> Threads \union {NoThread}]
    BY <1>0 DEF TypeOK
  <2> QED
    BY <1>0, <1>1, <1>2, <2>1, <2>2 DEF TypeOK
<1>4. LockInv'
  BY <1>0 DEF TypeOK, LockInv, HandlerPcs, InitPcs
<1>5. PointerInv'
  BY <1>0 DEF NoPeer, PointerInv
<1>6. RequestInv'
  BY <1>0 DEF TypeOK, RequestInv, NotSent, InitPcs, LockInv
<1> QED
  BY <1>2, <1>3, <1>4, <1>5, <1>6

\* The status timer, which takes no lock: it only touches its own owner.
LEMMA TimerFiresStep ==
    ASSUME TypeOK, IInv, NEW t \in Threads, NEW o \in Status, TimerFires(t, o)
    PROVE  TypeOK' /\ IInv'
<1> USE UpstreamAssumption DEF TimerFires, Goto, Cleanup, clientVars, Owners, IInv
<1>1. reqno' \in [Owners -> 0 .. MaxRequests] /\ \A x \in Owners \ {o} : reqno'[x] = reqno[x]
  BY DEF TypeOK
<1>2. /\ heap' \in [Peers -> PeerType]
      /\ peer' \in [Owners -> Peers \union {Null}]
      /\ pstate' \in [Owners -> {"IDLE", "CONNECTED", "LOADING", "LOADED", "COMPLETED"}]
      /\ PeerInv'
  BY <1>1, CleanupStep
<1>3. TypeOK'
  BY <1>1, <1>2 DEF TypeOK
<1>4. LockInv'
  BY DEF TypeOK, LockInv, HandlerPcs, InitPcs
<1>5. PointerInv'
  BY DEF NoPeer, PointerInv
<1>6. RequestInv'
  BY DEF TypeOK, RequestInv, NotSent
<1> QED
  BY <1>2, <1>3, <1>4, <1>5, <1>6

\* A client hangs up: its peer goes, so nothing can answer its request any more.
LEMMA HangupStep ==
    ASSUME TypeOK, IInv, NEW t \in Threads, NEW o \in Idents, Hangup(t, o)
    PROVE  TypeOK' /\ IInv'
<1> USE UpstreamAssumption DEF Hangup, Cleanup, Free, threadVars, Owners, IInv
<1>1. /\ heap' \in [Peers -> PeerType]
      /\ peer' \in [Owners -> Peers \union {Null}]
      /\ pstate' \in [Owners -> {"IDLE", "CONNECTED", "LOADING", "LOADED", "COMPLETED"}]
      /\ PeerInv'
  BY CleanupStep
<1>2. TypeOK'
  BY <1>1 DEF TypeOK
<1>3. LockInv'
  BY DEF LockInv
<1>4. PointerInv'
  BY DEF NoPeer, PointerInv
<1>5. RequestInv'
  BY <1>1 DEF RequestInv, NotSent
<1> QED
  BY <1>1, <1>2, <1>3, <1>4, <1>5

\* A new peer: pointers that dangled to its memory are marked.
LEMMA MakePeerStep ==
    ASSUME TypeOK, IInv, NEW t \in Threads, MakePeer(t)
    PROVE  TypeOK' /\ IInv'
<1> USE UpstreamAssumption DEF MakePeer, Goto, clientVars, Owners, IInv
<1>1. PICK p \in Peers : UsePeer(to[t], p)
  OBVIOUS
<1>2. to[t] \in Owners /\ pc[t] = "init"
  BY DEF LockInv, InitPcs
<1>3. /\ heap' \in [Peers -> PeerType]
      /\ peer' \in [Owners -> Peers \union {Null}]
      /\ tp' \in [Threads -> Peers \union {Null, "reused"}]
      /\ PeerInv'
  BY <1>2, UsePeerStep
<1>4. peer[to[t]] # Null => UNCHANGED <<heap, peer, tp>>
  BY <1>2, UsePeerStep
<1>5. peer[to[t]] = Null =>
          /\ heap[p].sock = "free"
          /\ heap'[p].owner = to[t]
          /\ \A q \in Peers \ {p} : heap'[q] = heap[q]
          /\ peer' = [peer EXCEPT ![to[t]] = p]
          /\ tp' = [th \in Threads |->
                      IF tp[th] = p /\ pc[th] \in {"lock", "handle"} /\ to[th] # to[t]
                      THEN "reused" ELSE tp[th]]
  BY <1>1, <1>2, UsePeerStep
<1>6. TypeOK'
  <2>1. attempts' \in [Threads -> 0 .. MaxAttempts]
    BY DEF TypeOK
  <2> QED
    BY <1>3 DEF TypeOK
<1>7. LockInv'
  BY DEF LockInv, HandlerPcs, InitPcs
<1>8. PointerInv'
  BY <1>4, <1>5 DEF PointerInv
<1>9. RequestInv'
  BY <1>4, <1>5 DEF TypeOK, RequestInv, NotSent, InitPcs
<1> QED
  BY <1>3, <1>6, <1>7, <1>8, <1>9

\* The write handler is called for a timer's peer: a client's state is not set.
LEMMA ReinitStep ==
    ASSUME TypeOK, IInv, NEW t \in Threads, Reinit(t)
    PROVE  TypeOK' /\ IInv'
<1> USE UpstreamAssumption DEF Reinit, Goto, clientVars, Owners, IInv
<1>1. to[t] \in Owners /\ to[t] \notin Idents
  BY DEF LockInv, RequestInv, InitPcs
<1>2. TypeOK'
  BY <1>1 DEF TypeOK
<1>3. PeerInv'
  BY DEF PeerInv
<1>4. LockInv'
  BY <1>1 DEF LockInv, HandlerPcs, InitPcs
<1>5. PointerInv'
  BY <1>1 DEF TypeOK, PeerInv, PointerInv
<1>6. RequestInv'
  BY DEF RequestInv, NotSent, InitPcs
<1> QED
  BY <1>2, <1>3, <1>4, <1>5, <1>6

\* connect() changes the peer's socket, and the peer stays in use.
LEMMA ConnectsStep ==
    ASSUME TypeOK, PeerInv, NEW o \in Owners, NEW s \in {"pending", "refused"},
           NEW edges \in {{}, {"out"}}, peer[o] # Null, Connects(o, s, edges)
    PROVE  /\ heap' \in [Peers -> PeerType]
           /\ \A p \in Peers :
                 /\ heap'[p].owner = heap[p].owner
                 /\ heap'[p].req = heap[p].req
                 /\ (heap'[p].sock = "free") <=> (heap[p].sock = "free")
<1> DEFINE p == peer[o]
           new == [heap[p] EXCEPT !.sock = s, !.ready = edges]
<1>1. p \in Peers /\ heap[p] \in PeerType
  BY DEF TypeOK
<1>2. new \in PeerType /\ new.sock # "free" /\ new.owner = heap[p].owner /\ new.req = heap[p].req
  BY <1>1 DEF PeerType
<1>3. CASE heap[p].sock = "new"
  <2>1. heap' = [heap EXCEPT ![p] = new]
    BY <1>1, <1>3, ZenonT(60) DEF Connects, TypeOK
  <2> HIDE DEF new
  <2> QED
    BY <1>1, <1>2, <1>3, <2>1 DEF TypeOK
<1>4. CASE heap[p].sock # "new"
  BY <1>4 DEF Connects, TypeOK
<1> QED
  BY <1>3, <1>4

\* A connect is under way.
LEMMA ConnectStartStep ==
    ASSUME TypeOK, IInv, NEW t \in Threads, ConnectStart(t)
    PROVE  TypeOK' /\ IInv'
<1> USE UpstreamAssumption DEF ConnectStart, Goto, clientVars, Owners, IInv
<1>1. to[t] \in Owners
  BY DEF LockInv, InitPcs
<1>2. /\ heap' \in [Peers -> PeerType]
      /\ \A p \in Peers :
            /\ heap'[p].owner = heap[p].owner
            /\ heap'[p].req = heap[p].req
            /\ (heap'[p].sock = "free") <=> (heap[p].sock = "free")
  BY <1>1, ConnectsStep
<1>3. TypeOK'
  BY <1>2 DEF TypeOK
<1>4. PeerInv'
  <2>1. peer \in [Owners -> Peers \union {Null}]
    BY DEF TypeOK
  <2>2. peer' = peer /\ reqno' = reqno
    OBVIOUS
  <2> QED
    BY <1>2, <2>1, <2>2 DEF PeerInv
<1>5. LockInv'
  BY DEF LockInv, HandlerPcs, InitPcs
<1>6. PointerInv'
  <2>1. \A u \in Threads : pc'[u] \in {"http", "event", "lock", "handle"} =>
          pc'[u] = pc[u]
    BY DEF TypeOK
  <2>2. to' = to /\ tp' = tp
    OBVIOUS
  <2> QED
    BY <1>2, <2>1, <2>2 DEF PointerInv
<1>7. RequestInv'
  BY DEF RequestInv, NotSent, InitPcs
<1> QED
  BY <1>3, <1>4, <1>5, <1>6, <1>7

\* The initiator returns: the request has a peer now and was not sent.
LEMMA SetConnectedStep ==
    ASSUME TypeOK, IInv, NEW t \in Threads, SetConnected(t)
    PROVE  TypeOK' /\ IInv'
<1> USE UpstreamAssumption DEF SetConnected, Return, clientVars, Owners, IInv
<1>1. to[t] \in Owners
  BY DEF LockInv, InitPcs
<1>2. pstate' \in [Owners -> {"IDLE", "CONNECTED", "LOADING", "LOADED", "COMPLETED"}]
  BY DEF TypeOK
<1>3. TypeOK'
  BY <1>2 DEF TypeOK
<1>4. PeerInv'
  BY DEF PeerInv
<1>5. LockInv'
  BY DEF TypeOK, LockInv, HandlerPcs, InitPcs
<1>6. PointerInv'
  BY DEF PointerInv
<1>7. RequestInv'
  BY <1>1, <1>2 DEF TypeOK, LockInv, HandlerPcs, RequestInv, NotSent, InitPcs
<1> QED
  BY <1>3, <1>4, <1>5, <1>6, <1>7

\* A refused connect: the next server is tried with the peer that there is.
LEMMA ConnectDeclinedStep ==
    ASSUME TypeOK, IInv, NEW t \in Threads, ConnectDeclined(t)
    PROVE  TypeOK' /\ IInv'
<1> USE UpstreamAssumption DEF ConnectDeclined, Goto, clientVars, Owners, IInv
<1>1. to[t] \in Owners
  BY DEF LockInv, InitPcs
<1>2. /\ heap' \in [Peers -> PeerType]
      /\ \A p \in Peers :
            /\ heap'[p].owner = heap[p].owner
            /\ heap'[p].req = heap[p].req
            /\ (heap'[p].sock = "free") <=> (heap[p].sock = "free")
  <2>1. CASE peer[to[t]] = Null
    BY <2>1 DEF TypeOK
  <2>2. CASE peer[to[t]] # Null
    BY <1>1, <2>2, ConnectsStep
  <2> QED
    BY <2>1, <2>2
<1>3. TypeOK'
  <2>1. attempts' \in [Threads -> 0 .. MaxAttempts]
    BY DEF TypeOK
  <2> QED
    BY <1>2, <2>1 DEF TypeOK
<1>4. PeerInv'
  <2>1. peer \in [Owners -> Peers \union {Null}]
    BY DEF TypeOK
  <2>2. peer' = peer /\ reqno' = reqno
    OBVIOUS
  <2> QED
    BY <1>2, <2>1, <2>2 DEF PeerInv
<1>5. LockInv'
  BY DEF LockInv, HandlerPcs, InitPcs
<1>6. PointerInv'
  <2>1. \A u \in Threads : pc'[u] \in {"http", "event", "lock", "handle"} =>
          pc'[u] = pc[u]
    BY DEF TypeOK
  <2>2. to' = to /\ tp' = tp
    OBVIOUS
  <2> QED
    BY <1>2, <2>1, <2>2 DEF PointerInv
<1>7. RequestInv'
  BY DEF RequestInv, NotSent, InitPcs
<1> QED
  BY <1>3, <1>4, <1>5, <1>6, <1>7

\* A call failed: the peer goes, and a client is answered for the first time.
LEMMA ConnectErrorStep ==
    ASSUME TypeOK, IInv, NEW t \in Threads, ConnectError(t)
    PROVE  TypeOK' /\ IInv'
<1> USE UpstreamAssumption DEF ConnectError, Return, Unlock, Cleanup, Answer,
      Owners, IInv
<1>1. to[t] \in Owners
  BY DEF LockInv, InitPcs
<1>2. to[t] \in Idents =>
          /\ heap' \in [Peers -> PeerType]
          /\ PeerInv'
          /\ peer' \in [Owners -> Peers \union {Null}]
          /\ pstate' \in [Owners -> {"IDLE", "CONNECTED", "LOADING", "LOADED", "COMPLETED"}]
  BY CleanupStep
<1>3. TypeOK'
  BY <1>2 DEF TypeOK
<1>4. PeerInv'
  BY <1>2 DEF PeerInv
<1>5. LockInv'
  BY DEF TypeOK, LockInv, HandlerPcs, InitPcs
<1>6. PointerInv'
  BY <1>2 DEF NoPeer, PointerInv
<1>7. RequestInv'
  BY DEF TypeOK, LockInv, RequestInv, NotSent, InitPcs
<1> QED
  BY <1>3, <1>4, <1>5, <1>6, <1>7

\* epoll reports an edge to a thread.
LEMMA TakeStep ==
    ASSUME TypeOK, IInv, NEW t \in Threads, NEW p \in Peers, NEW e \in {"in", "out"}, Take(t, p, e)
    PROVE  TypeOK' /\ IInv'
<1> USE UpstreamAssumption DEF Take, Goto, clientVars, Owners, IInv
<1>1. heap' \in [Peers -> PeerType]
  <2>1. heap[p] \in PeerType
    BY DEF TypeOK
  <2> QED
    BY SMTT(40) DEF TypeOK, PeerType
<1>2. TypeOK'
  BY <1>1 DEF TypeOK
<1>3. PeerInv'
  BY DEF PeerInv
<1>4. LockInv'
  BY DEF LockInv, HandlerPcs, InitPcs
<1>5. PointerInv'
  BY DEF TypeOK, PointerInv
<1>6. RequestInv'
  BY DEF RequestInv, NotSent, InitPcs
<1> QED
  BY <1>2, <1>3, <1>4, <1>5, <1>6

\* A thread drops an event of a peer that is not in use.
LEMMA IgnoreStep ==
    ASSUME TypeOK, IInv, NEW t \in Threads, Ignore(t)
    PROVE  TypeOK' /\ IInv'
<1> USE UpstreamAssumption DEF Ignore, Return, clientVars, Owners, IInv
<1>1. TypeOK'
  BY DEF TypeOK
<1>2. PeerInv'
  BY DEF PeerInv
<1>3. LockInv'
  BY DEF LockInv, HandlerPcs, InitPcs
<1>4. PointerInv'
  BY DEF TypeOK, PointerInv
<1>5. RequestInv'
  BY DEF RequestInv, NotSent, InitPcs
<1> QED
  BY <1>1, <1>2, <1>3, <1>4, <1>5

\* The event's owner and its peer are read before the lock is there.
LEMMA DispatchStep ==
    ASSUME TypeOK, IInv, NEW t \in Threads, Dispatch(t)
    PROVE  TypeOK' /\ IInv'
<1> USE UpstreamAssumption DEF Dispatch, Goto, Data, clientVars, Owners, IInv
<1>1. tp[t] \in Peers /\ heap[tp[t]].owner \in Owners
  BY DEF PointerInv, PeerInv
<1>2. TypeOK'
  BY <1>1 DEF TypeOK
<1>3. PeerInv'
  BY DEF PeerInv
<1>4. LockInv'
  BY DEF LockInv, HandlerPcs, InitPcs
<1>5. PointerInv'
  BY DEF TypeOK, PeerInv, PointerInv
<1>6. RequestInv'
  BY DEF RequestInv, NotSent, InitPcs
<1> QED
  BY <1>2, <1>3, <1>4, <1>5, <1>6

\* The handler gets the lock of the owner.
LEMMA LockStep ==
    ASSUME TypeOK, IInv, NEW t \in Threads, Lock(t)
    PROVE  TypeOK' /\ IInv'
<1> USE UpstreamAssumption DEF Lock, Goto, Free, clientVars, Owners, IInv
<1>1. TypeOK'
  BY DEF TypeOK
<1>2. PeerInv'
  BY DEF PeerInv
<1>3. LockInv'
  BY DEF TypeOK, LockInv, HandlerPcs, PointerInv
<1>4. PointerInv'
  BY DEF PointerInv
<1>5. RequestInv'
  BY DEF RequestInv, NotSent, InitPcs
<1> QED
  BY <1>1, <1>2, <1>3, <1>4, <1>5

\* There is no peer any more.
LEMMA NoPeerLeftStep ==
    ASSUME TypeOK, IInv, NEW t \in Threads, NoPeerLeft(t)
    PROVE  TypeOK' /\ IInv'
<1> USE UpstreamAssumption DEF NoPeerLeft, Return, Unlock, clientVars, Owners, IInv
<1>1. to[t] \in Owners
  BY DEF LockInv, HandlerPcs
<1>2. TypeOK'
  BY <1>1 DEF TypeOK
<1>3. PeerInv'
  BY DEF PeerInv
<1>4. LockInv'
  BY DEF TypeOK, LockInv, HandlerPcs, InitPcs
<1>5. PointerInv'
  BY DEF TypeOK, PointerInv
<1>6. RequestInv'
  BY DEF RequestInv, NotSent, InitPcs
<1> QED
  BY <1>2, <1>3, <1>4, <1>5, <1>6

\* A dangling pointer is used: the behaviour ends.
LEMMA ReusedPeerStep ==
    ASSUME TypeOK, IInv, NEW t \in Threads, ReusedPeer(t)
    PROVE  TypeOK' /\ IInv'
<1> USE UpstreamAssumption DEF ReusedPeer, clientVars, threadVars, Owners, IInv
<1>1. TypeOK'
  BY DEF TypeOK
<1>2. PeerInv'
  BY DEF PeerInv
<1>3. LockInv'
  BY DEF LockInv
<1>4. PointerInv'
  BY DEF PointerInv
<1>5. RequestInv'
  BY DEF RequestInv, NotSent
<1> QED
  BY <1>1, <1>2, <1>3, <1>4, <1>5

\* The request is sent: PointerInv says that the peer is the owner's, RequestInv that
\* it was not sent before.
LEMMA WriteStep ==
    ASSUME TypeOK, IInv, NEW t \in Threads, Write(t)
    PROVE  TypeOK' /\ IInv'
<1> USE UpstreamAssumption DEF Write, Return, Unlock, Handles, NotSent, clientVars,
      Owners, IInv
<1>1. to[t] \in Owners
  BY DEF LockInv, HandlerPcs
<1>2. heap' \in [Peers -> PeerType]
  <2>1. heap[tp[t]] \in PeerType
    BY DEF TypeOK
  <2> QED
    BY SMTT(40) DEF TypeOK, PeerType
<1>3. pstate' \in [Owners -> {"IDLE", "CONNECTED", "LOADING", "LOADED", "COMPLETED"}]
  BY DEF TypeOK
<1>4. TypeOK'
  BY SMTT(40), <1>2, <1>3 DEF TypeOK
<1>5. PeerInv'
  BY SMTT(40) DEF TypeOK, PeerInv
<1>6. LockInv'
  BY DEF TypeOK, LockInv, HandlerPcs, InitPcs
<1>7. PointerInv'
  BY DEF TypeOK, PointerInv
<1>8. RequestInv'
  BY <1>3 DEF PeerInv, LockInv, PointerInv, RequestInv, HandlerPcs, InitPcs
<1> QED
  BY <1>4, <1>5, <1>6, <1>7, <1>8

\* The request was sent before.
LEMMA AlreadySentStep ==
    ASSUME TypeOK, IInv, NEW t \in Threads, AlreadySent(t)
    PROVE  TypeOK' /\ IInv'
<1> USE UpstreamAssumption DEF AlreadySent, Return, Unlock, Handles, NotSent,
      clientVars, Owners, IInv
<1>1. to[t] \in Owners
  BY DEF LockInv, HandlerPcs
<1>2. TypeOK'
  BY <1>1 DEF TypeOK
<1>3. PeerInv'
  BY DEF PeerInv
<1>4. LockInv'
  BY DEF TypeOK, LockInv, HandlerPcs, InitPcs
<1>5. PointerInv'
  BY DEF TypeOK, PointerInv
<1>6. RequestInv'
  BY DEF RequestInv, InitPcs
<1> QED
  BY <1>2, <1>3, <1>4, <1>5, <1>6

\* The request cannot be sent: the peer is dropped.
LEMMA WriteFailsStep ==
    ASSUME TypeOK, IInv, NEW t \in Threads, WriteFails(t)
    PROVE  TypeOK' /\ IInv'
<1> USE UpstreamAssumption DEF WriteFails, Return, Unlock, Cleanup, Handles,
      NotSent, clientVars, Owners, IInv
<1>1. to[t] \in Owners
  BY DEF LockInv, HandlerPcs
<1>2. /\ heap' \in [Peers -> PeerType]
      /\ peer' \in [Owners -> Peers \union {Null}]
      /\ pstate' \in [Owners -> {"IDLE", "CONNECTED", "LOADING", "LOADED", "COMPLETED"}]
      /\ PeerInv'
  BY <1>1, CleanupStep
<1>3. TypeOK'
  BY <1>2 DEF TypeOK
<1>4. LockInv'
  BY DEF TypeOK, LockInv, HandlerPcs, InitPcs
<1>5. PointerInv'
  BY DEF TypeOK, NoPeer, PointerInv
<1>6. RequestInv'
  BY DEF RequestInv, InitPcs
<1> QED
  BY <1>2, <1>3, <1>4, <1>5, <1>6

\* Another thread has read what there was.
LEMMA ReadNothingStep ==
    ASSUME TypeOK, IInv, NEW t \in Threads, ReadNothing(t)
    PROVE  TypeOK' /\ IInv'
<1> USE UpstreamAssumption DEF ReadNothing, Return, Unlock, Handles, clientVars,
      Owners, IInv
<1>1. to[t] \in Owners
  BY DEF LockInv, HandlerPcs
<1>2. TypeOK'
  BY <1>1 DEF TypeOK
<1>3. PeerInv'
  BY DEF PeerInv
<1>4. LockInv'
  BY DEF TypeOK, LockInv, HandlerPcs, InitPcs
<1>5. PointerInv'
  BY DEF TypeOK, PointerInv
<1>6. RequestInv'
  BY DEF RequestInv, NotSent, InitPcs
<1> QED
  BY <1>2, <1>3, <1>4, <1>5, <1>6

\* The server has closed: the peer is dropped.
LEMMA ReadEofStep ==
    ASSUME TypeOK, IInv, NEW t \in Threads, ReadEof(t)
    PROVE  TypeOK' /\ IInv'
<1> USE UpstreamAssumption DEF ReadEof, Return, Unlock, Cleanup, Handles,
      clientVars, Owners, IInv
<1>1. to[t] \in Owners
  BY DEF LockInv, HandlerPcs
<1>2. /\ heap' \in [Peers -> PeerType]
      /\ peer' \in [Owners -> Peers \union {Null}]
      /\ pstate' \in [Owners -> {"IDLE", "CONNECTED", "LOADING", "LOADED", "COMPLETED"}]
      /\ PeerInv'
  BY <1>1, CleanupStep
<1>3. TypeOK'
  BY <1>2 DEF TypeOK
<1>4. LockInv'
  BY DEF TypeOK, LockInv, HandlerPcs, InitPcs
<1>5. PointerInv'
  BY DEF TypeOK, NoPeer, PointerInv
<1>6. RequestInv'
  BY <1>2 DEF RequestInv, NotSent, InitPcs
<1> QED
  BY <1>2, <1>3, <1>4, <1>5, <1>6

\* A part of the response: the thread spins, with the lock.
LEMMA ReadPartialStep ==
    ASSUME TypeOK, IInv, NEW t \in Threads, ReadPartial(t)
    PROVE  TypeOK' /\ IInv'
<1> USE UpstreamAssumption DEF ReadPartial, Goto, Handles, clientVars, Owners, IInv
<1>1. to[t] \in Owners
  BY DEF LockInv, HandlerPcs
<1>2. heap' \in [Peers -> PeerType]
  <2>1. heap[tp[t]] \in PeerType
    BY DEF TypeOK
  <2> QED
    BY SMTT(40) DEF TypeOK, PeerType
<1>3. pstate' \in [Owners -> {"IDLE", "CONNECTED", "LOADING", "LOADED", "COMPLETED"}]
  BY DEF TypeOK
<1>4. TypeOK'
  BY <1>2 DEF TypeOK
<1>5. PeerInv'
  BY DEF PeerInv
<1>6. LockInv'
  BY DEF LockInv, HandlerPcs
<1>7. PointerInv'
  BY DEF PointerInv
<1>8. RequestInv'
  BY <1>1 DEF LockInv, HandlerPcs, RequestInv, NotSent, InitPcs
<1> QED
  BY <1>4, <1>5, <1>6, <1>7, <1>8

\* The client is let in: the peer it was answered by is its own, so it is of its
\* latest request (PeerInv), which was not answered yet (RequestInv).
LEMMA IdentGrantedStep ==
    ASSUME TypeOK, IInv, NEW t \in Threads, IdentGranted(t)
    PROVE  TypeOK' /\ IInv'
<1> USE UpstreamAssumption DEF IdentGranted, Goto, Cleanup, Answer, Handles, Owners,
      IInv
<1>1. to[t] \in Owners
  BY DEF InitPcs
<1>2. /\ heap' \in [Peers -> PeerType]
      /\ peer' \in [Owners -> Peers \union {Null}]
      /\ pstate' \in [Owners -> {"IDLE", "CONNECTED", "LOADING", "LOADED", "COMPLETED"}]
      /\ PeerInv'
  BY CleanupStep
<1>3. heap[tp[t]].req \in 0 .. MaxRequests
  BY DEF TypeOK, PeerType
<1>4. TypeOK'
  BY <1>2, <1>3 DEF TypeOK
<1>5. LockInv'
  BY DEF TypeOK, LockInv, HandlerPcs
<1>6. PointerInv'
  BY DEF TypeOK, NoPeer, PointerInv
<1>7. RequestInv'
  BY DEF TypeOK, PeerInv, LockInv, PointerInv, RequestInv, NotSent, HandlerPcs, InitPcs
<1> QED
  BY <1>2, <1>4, <1>5, <1>6, <1>7

\* The identity frame is sent.
LEMMA SendFrameStep ==
    ASSUME TypeOK, IInv, NEW t \in Threads, SendFrame(t)
    PROVE  TypeOK' /\ IInv'
<1> USE UpstreamAssumption DEF SendFrame, Goto, clientVars, Owners, IInv
<1>1. TypeOK'
  BY DEF TypeOK
<1>2. PeerInv'
  BY DEF PeerInv
<1>3. LockInv'
  BY DEF LockInv, HandlerPcs
<1>4. PointerInv'
  BY DEF PointerInv
<1>5. RequestInv'
  BY DEF RequestInv, NotSent, InitPcs
<1> QED
  BY <1>1, <1>2, <1>3, <1>4, <1>5

\* The client is refused, by the answer to its latest request.
LEMMA IdentDeniedStep ==
    ASSUME TypeOK, IInv, NEW t \in Threads, IdentDenied(t)
    PROVE  TypeOK' /\ IInv'
<1> USE UpstreamAssumption DEF IdentDenied, Goto, Cleanup, Answer, Handles, Owners,
      IInv
<1>1. to[t] \in Owners
  BY DEF InitPcs
<1>2. /\ heap' \in [Peers -> PeerType]
      /\ peer' \in [Owners -> Peers \union {Null}]
      /\ pstate' \in [Owners -> {"IDLE", "CONNECTED", "LOADING", "LOADED", "COMPLETED"}]
      /\ PeerInv'
  BY CleanupStep
<1>3. TypeOK'
  BY <1>2 DEF TypeOK
<1>4. LockInv'
  BY DEF LockInv, HandlerPcs
<1>5. PointerInv'
  BY DEF NoPeer, PointerInv
<1>6. RequestInv'
  BY DEF TypeOK, PeerInv, LockInv, PointerInv, RequestInv, NotSent, HandlerPcs, InitPcs
<1> QED
  BY <1>2, <1>3, <1>4, <1>5, <1>6

\* The status was sent; the timer is armed.
LEMMA StatusDoneStep ==
    ASSUME TypeOK, IInv, NEW t \in Threads, StatusDone(t)
    PROVE  TypeOK' /\ IInv'
<1> USE UpstreamAssumption DEF StatusDone, Goto, Cleanup, Handles, Rearm,
      clientVars, Owners, IInv
<1>1. to[t] \in Owners
  BY DEF InitPcs
<1>2. /\ heap' \in [Peers -> PeerType]
      /\ peer' \in [Owners -> Peers \union {Null}]
      /\ pstate' \in [Owners -> {"IDLE", "CONNECTED", "LOADING", "LOADED", "COMPLETED"}]
      /\ PeerInv'
  BY CleanupStep
<1>3. TypeOK'
  BY <1>2 DEF TypeOK
<1>4. LockInv'
  BY DEF LockInv, HandlerPcs
<1>5. PointerInv'
  BY DEF NoPeer, PointerInv
<1>6. RequestInv'
  BY DEF RequestInv, NotSent
<1> QED
  BY <1>2, <1>3, <1>4, <1>5, <1>6

\* The read handler ends and lets the lock go.
LEMMA CompleteStep ==
    ASSUME TypeOK, IInv, NEW t \in Threads, Complete(t)
    PROVE  TypeOK' /\ IInv'
<1> USE UpstreamAssumption DEF Complete, Return, Unlock, clientVars, Owners, IInv
<1>1. to[t] \in Owners
  BY DEF LockInv, HandlerPcs
<1>2. pstate' \in [Owners -> {"IDLE", "CONNECTED", "LOADING", "LOADED", "COMPLETED"}]
  BY DEF TypeOK
<1>3. TypeOK'
  BY <1>2 DEF TypeOK
<1>4. PeerInv'
  BY DEF PeerInv
<1>5. LockInv'
  BY DEF TypeOK, LockInv, HandlerPcs, InitPcs
<1>6. PointerInv'
  BY DEF PointerInv
<1>7. RequestInv'
  BY <1>1 DEF LockInv, HandlerPcs, RequestInv, NotSent, InitPcs
<1> QED
  BY <1>3, <1>4, <1>5, <1>6, <1>7

\* A server accepts: the peer stays in use.
LEMMA AcceptStep ==
    ASSUME TypeOK, IInv, NEW p \in Peers, Accept(p)
    PROVE  TypeOK' /\ IInv'
<1> USE UpstreamAssumption DEF Accept, Edge, clientVars, threadVars, Owners, IInv
<1>1. heap' \in [Peers -> PeerType]
  <2> DEFINE new == [heap[p] EXCEPT !.sock = "open", !.ready = Edge(p, "out")]
  <2>1. heap[p] \in PeerType
    BY DEF TypeOK
  <2>2. new \in PeerType
    BY <2>1 DEF PeerType
  <2>3. heap' = [heap EXCEPT ![p] = new]
    BY ZenonT(60) DEF TypeOK
  <2> QED
    BY <2>2 DEF TypeOK
<1>2. TypeOK'
  BY <1>1 DEF TypeOK
<1>3. PeerInv'
  BY DEF TypeOK, PeerInv
<1>4. LockInv'
  BY DEF LockInv
<1>5. PointerInv'
  BY <1>1 DEF PointerInv
<1>6. RequestInv'
  BY DEF RequestInv, NotSent
<1> QED
  BY <1>2, <1>3, <1>4, <1>5, <1>6

\* A server refuses: the peer stays in use.
LEMMA RefuseStep ==
    ASSUME TypeOK, IInv, NEW p \in Peers, Refuse(p)
    PROVE  TypeOK' /\ IInv'
<1> USE UpstreamAssumption DEF Refuse, Edge, clientVars, threadVars, Owners, IInv
<1>1. heap' \in [Peers -> PeerType]
  <2> DEFINE new == [heap[p] EXCEPT !.sock = "refused", !.ready = Edge(p, "out")]
  <2>1. heap[p] \in PeerType
    BY DEF TypeOK
  <2>2. new \in PeerType
    BY <2>1 DEF PeerType
  <2>3. heap' = [heap EXCEPT ![p] = new]
    BY ZenonT(60) DEF TypeOK
  <2> QED
    BY <2>2 DEF TypeOK
<1>2. TypeOK'
  BY <1>1 DEF TypeOK
<1>3. PeerInv'
  BY DEF TypeOK, PeerInv
<1>4. LockInv'
  BY DEF LockInv
<1>5. PointerInv'
  BY <1>1 DEF PointerInv
<1>6. RequestInv'
  BY DEF RequestInv, NotSent
<1> QED
  BY <1>2, <1>3, <1>4, <1>5, <1>6

\* A server answers.
LEMMA ReplyStep ==
    ASSUME TypeOK, IInv, NEW p \in Peers, NEW r \in Replies, Reply(p, r)
    PROVE  TypeOK' /\ IInv'
<1> USE UpstreamAssumption DEF Reply, Edge, clientVars, threadVars, Owners, IInv
<1>1. heap' \in [Peers -> PeerType]
  <2> DEFINE new == [heap[p] EXCEPT !.inbox = r, !.ready = Edge(p, "in")]
  <2>1. heap[p] \in PeerType
    BY DEF TypeOK
  <2>2. new \in PeerType
    BY <2>1 DEF PeerType
  <2>3. heap' = [heap EXCEPT ![p] = new]
    BY ZenonT(60) DEF TypeOK
  <2> QED
    BY <2>2 DEF TypeOK
<1>2. TypeOK'
  BY <1>1 DEF TypeOK
<1>3. PeerInv'
  BY DEF TypeOK, PeerInv
<1>4. LockInv'
  BY DEF LockInv
<1>5. PointerInv'
  BY <1>1 DEF PointerInv
<1>6. RequestInv'
  BY DEF RequestInv, NotSent
<1> QED
  BY <1>2, <1>3, <1>4, <1>5, <1>6

\* epoll reports an edge again.
LEMMA SpuriousStep ==
    ASSUME TypeOK, IInv, NEW p \in Peers, Spurious(p)
    PROVE  TypeOK' /\ IInv'
<1> USE UpstreamAssumption DEF Spurious, clientVars, threadVars, Owners, IInv
<1>1. heap' \in [Peers -> PeerType]
  <2>1. heap[p] \in PeerType
    BY DEF TypeOK
  <2> QED
    BY SMTT(40) DEF TypeOK, PeerType
<1>2. spurious' \in 0 .. MaxSpurious
  BY DEF TypeOK
<1>3. TypeOK'
  BY <1>1 DEF TypeOK
<1>4. PeerInv'
  BY DEF PeerInv
<1>5. LockInv'
  BY DEF LockInv
<1>6. PointerInv'
  BY DEF PointerInv
<1>7. RequestInv'
  BY DEF RequestInv, NotSent
<1> QED
  BY <1>3, <1>4, <1>5, <1>6, <1>7

\* The initial states satisfy the invariant.
LEMMA InitInv == Init => TypeOK /\ IInv
<1> SUFFICES ASSUME Init PROVE TypeOK /\ IInv
  OBVIOUS
<1> USE UpstreamAssumption DEF Init, Owners
<1>1. TypeOK
  BY DEF TypeOK, PeerType, NoPeer
<1>2. PeerInv /\ LockInv /\ PointerInv /\ RequestInv
  BY DEF PeerInv, LockInv, PointerInv, RequestInv, NoPeer, HandlerPcs, InitPcs
<1> QED
  BY <1>1, <1>2 DEF IInv

\* Every step keeps the invariant.
LEMMA StepInv == TypeOK /\ IInv /\ [Next]_vars => TypeOK' /\ IInv'
<1> SUFFICES ASSUME TypeOK, IInv, [Next]_vars PROVE TypeOK' /\ IInv'
  OBVIOUS
<1>1. ASSUME NEW t \in Threads, Continue(t) PROVE TypeOK' /\ IInv'
  BY <1>1, UpgradeStep, NoUpgradeStep, ReinitStep, UndefinedStep, MakePeerStep, ConnectStartStep, SetConnectedStep, ConnectDeclinedStep, ConnectErrorStep,
     IgnoreStep, DispatchStep, LockStep, NoPeerLeftStep, ReusedPeerStep, WriteStep,
     AlreadySentStep, WriteFailsStep, ReadNothingStep, ReadEofStep, ReadPartialStep,
     IdentGrantedStep, SendFrameStep, IdentDeniedStep, StatusDoneStep, CompleteStep DEF
     Continue
<1>2. ASSUME NEW t \in Threads, TakeEvent(t) PROVE TypeOK' /\ IInv'
  BY <1>2, TakeStep DEF TakeEvent
<1>3. ASSUME NEW t \in Threads, NEW o \in Idents, Deliver(t, o) \/ MixedHandlers(t, o) \/ Hangup(t, o)
      PROVE  TypeOK' /\ IInv'
  BY <1>3, DeliverStep, UndefinedStep, HangupStep
<1>4. ASSUME NEW t \in Threads, NEW o \in Status, TimerFires(t, o) PROVE TypeOK' /\ IInv'
  BY <1>4, TimerFiresStep
<1>5. ASSUME NEW p \in Peers, Server(p) \/ Spurious(p) PROVE TypeOK' /\ IInv'
  BY <1>5, AcceptStep, RefuseStep, ReplyStep, SpuriousStep DEF Server
<1>6. CASE UNCHANGED vars
  BY <1>6 DEF vars, TypeOK, IInv, PeerInv, LockInv, PointerInv, RequestInv, NotSent
<1> QED
  BY <1>1, <1>2, <1>3, <1>4, <1>5, <1>6 DEF Next

\* Only the end of stu_http_upstream_ident_analyze_response lets a client in.
LEMMA GrantsLetIn ==
    ASSUME TypeOK, [Next]_vars, NEW o \in Idents, granted'[o] # granted[o]
    PROVE  \E t \in Threads : IdentGranted(t)
<1> USE DEF clientVars
<1>1. CASE UNCHANGED vars
  BY <1>1 DEF vars
<1>2. ASSUME NEW t \in Threads, Continue(t) PROVE IdentGranted(t)
  <2>1. CASE Upgrade(t) \/ NoUpgrade(t) \/ Reinit(t) \/ NullPeer(t) \/ MakePeer(t)
    BY <2>1 DEF Upgrade, NoUpgrade, Reinit, NullPeer, MakePeer
  <2>2. CASE ConnectStart(t) \/ SetConnected(t) \/ ConnectDeclined(t) \/ ConnectError(t)
    BY <2>2 DEF ConnectStart, SetConnected, ConnectDeclined, ConnectError
  <2>3. CASE Ignore(t) \/ Dispatch(t) \/ Lock(t) \/ NoPeerLeft(t) \/ ReusedPeer(t)
    BY <2>3 DEF Ignore, Dispatch, Lock, NoPeerLeft, ReusedPeer
  <2>4. CASE Write(t) \/ AlreadySent(t) \/ WriteFails(t)
    BY <2>4 DEF Write, AlreadySent, WriteFails
  <2>5. CASE ReadNothing(t) \/ ReadEof(t) \/ ReadPartial(t)
    BY <2>5 DEF ReadNothing, ReadEof, ReadPartial
  <2>6. CASE SendFrame(t) \/ IdentDenied(t) \/ StatusDone(t) \/ Complete(t)
    BY <2>6 DEF SendFrame, IdentDenied, StatusDone, Complete
  <2> QED
    BY <1>2, <2>1, <2>2, <2>3, <2>4, <2>5, <2>6 DEF Continue
<1>3. ASSUME NEW t \in Threads, TakeEvent(t) PROVE FALSE
  BY <1>3 DEF TakeEvent, Take
<1>4. ASSUME NEW t \in Threads, NEW c \in Idents, Deliver(t, c) \/ MixedHandlers(t, c) \/ Hangup(t, c)
      PROVE  FALSE
  BY <1>4 DEF Deliver, MixedHandlers, Hangup
<1>5. ASSUME NEW t \in Threads, NEW s \in Status, TimerFires(t, s) PROVE FALSE
  BY <1>5 DEF TimerFires
<1>6. ASSUME NEW p \in Peers, Server(p) \/ Spurious(p) PROVE FALSE
  BY <1>6 DEF Server, Accept, Refuse, Reply, Spurious
<1> QED
  BY <1>1, <1>2, <1>3, <1>4, <1>5, <1>6 DEF Next

-----------------------------------------------------------------------------
(* Theorems.                                                               *)

\* The types and the invariant hold in every reachable state.
THEOREM Invariance == Spec => [](TypeOK /\ IInv)
<1> QED
  BY InitInv, StepInv, PTL DEF Spec

\* The variables of Upstream keep their types: connections, peers, the requests and
\* the threads that handle events in stu_http_upstream.c.
THEOREM TypeCorrect == Spec => []TypeOK
<1> QED
  BY Invariance, PTL

\* stu_upstream_connect, _next and _cleanup neither lose a peer connection nor keep a
\* pointer to one that was closed, whichever threads interleave and whatever fails.
THEOREM PeersAreOwned == Spec => []PeersOwned
<1>1. TypeOK /\ IInv => PeersOwned
  BY UpstreamAssumption DEF IInv, PeerInv, PeersOwned
<1> QED
  BY <1>1, Invariance, PTL

\* A client's request is sent at most once and answered at most once, and one thread
\* at a time works on its answer, however often epoll reports an event.
THEOREM HandledAtMostOnce == Spec => []AtMostOnce
<1>1. TypeOK /\ IInv => AtMostOnce
  <2> SUFFICES ASSUME TypeOK, IInv PROVE AtMostOnce
    OBVIOUS
  <2>1. SentOnce /\ AnsweredOnce
    BY DEF IInv, RequestInv, SentOnce, AnsweredOnce
  <2>2. OneHandler
    BY DEF IInv, LockInv, HandlerPcs, OneHandler
  <2> QED
    BY <2>1, <2>2 DEF AtMostOnce
<1> QED
  BY <1>1, Invariance, PTL

\* stu_http_upstream_ident_analyze_response lets a client in only for its latest
\* upgrade request, also when a late HTTP handler made that request after the client
\* was in: the answer to a request that was given up is never used.
THEOREM GrantsAreCurrent == Spec => GrantIsCurrent
<1>1. ASSUME TypeOK, IInv, [Next]_vars, NEW o \in Idents, granted'[o] # granted[o]
      PROVE  granted'[o] = reqno[o]
  <2>1. PICK t \in Threads : IdentGranted(t)
    BY <1>1, GrantsLetIn
  <2>2. to[t] = o /\ granted'[o] = heap[tp[t]].req
    BY <1>1, <2>1 DEF IdentGranted, TypeOK
  <2>3. heap[tp[t]].req = reqno[o]
    BY <1>1, <2>1, <2>2, UpstreamAssumption DEF IdentGranted, Handles, Owners, TypeOK, IInv, PeerInv, PointerInv
  <2> QED
    BY <2>2, <2>3
<1>2. TypeOK /\ IInv /\ [Next]_vars =>
        [\A o \in Idents : granted'[o] # granted[o] => granted'[o] = reqno[o]]_vars
  BY <1>1
<1> QED
  BY <1>2, Invariance, PTL DEF Spec, GrantIsCurrent
=============================================================================
