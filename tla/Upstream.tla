------------------------------ MODULE Upstream ------------------------------
(***************************************************************************)
(* Requests to upstream servers: who a client is (ident, asked for every   *)
(* upgrade in the enterprise edition) and the periodic report of the       *)
(* channels (status, asked by a timer).  The owner of a request is a       *)
(* connection c; c->upstream has a peer connection and its state.  Events  *)
(* of the peer are handled by any thread, with c->lock held, but the       *)
(* handlers read u->peer.connection before they lock, and the timer's      *)
(* handler does not lock c at all.                                         *)
(*                                                                         *)
(* The memory of a freed peer keeps fd = -1, which the code checks for,    *)
(* until it is allocated again.  A thread that then uses its old pointer   *)
(* ends the behaviour: ub says how.                                        *)
(*                                                                         *)
(* A client's HTTP handler, too, is chosen before it locks c: it may run   *)
(* when another thread has let the client in.                              *)
(*                                                                         *)
(* The operators that follow "A faulty variant" are not used by Spec: each *)
(* is a plausible mistake in the definition after it.                      *)
(***************************************************************************)
EXTENDS Naturals, FiniteSets

CONSTANTS
    Threads,            \* worker threads
    Idents,             \* connections of clients
    Status,             \* the connection of the timer "push_status", if any
    Peers,              \* addresses of peer connections
    NoThread, Null,
    ConnectOutcomes,    \* what socket() to connect() may come to
    Replies,            \* what a server may answer
    SendOutcomes,       \* what send() may come to
    MaxRequests,        \* bound: requests of one owner
    MaxAttempts,        \* bound: connects refused in one request
    MaxSpurious         \* bound: edges that epoll reports again

Owners == Idents \union Status

ASSUME UpstreamAssumption ==
    /\ Idents \intersect Status = {}
    /\ NoThread \notin Threads
    /\ Null \notin Peers \union Owners
    /\ "reused" \notin Peers
    /\ ConnectOutcomes \subseteq {"progress", "declined", "error"}
    /\ Replies \subseteq {"granted", "denied", "partial", "eof"}
    /\ SendOutcomes \subseteq {"sent", "failed"}
    /\ {MaxRequests, MaxAttempts, MaxSpurious} \subseteq Nat

VARIABLES
    conn,       \* how far a client is; c->fd = -1 is "closed"
    clock,      \* c->lock
    peer,       \* u->peer.connection
    pstate,     \* u->peer.state
    heap,       \* the peer connections
    armed,      \* the status timer is in the tree
    reqno,      \* how many requests the owner has made
    sends,      \* how often the current one was sent
    answers,    \* how many HTTP responses the client was sent
    granted,    \* the request whose response let the client in
    pc, to, tp, tev, attempts,  \* a thread: where it is, c, pc, the event
    spurious, ub

threadVars == <<pc, to, tp, tev, attempts>>
clientVars == <<conn, answers, granted>>
vars == <<conn, clock, peer, pstate, heap, armed, reqno, sends, answers, granted,
          pc, to, tp, tev, attempts, spurious, ub>>

\* A peer connection: its socket, what epoll is to report, what it has to
\* report, what there is to read, and the request it was made for.
NoPeer == [sock |-> "free", interest |-> "out", ready |-> {}, inbox |-> "none",
           active |-> FALSE, owner |-> Null, req |-> 0]

\* stu_channel_add_timers has armed the status timer.
Init ==
    /\ conn = [o \in Owners |-> IF o \in Idents THEN "idle" ELSE "timer"]
    /\ clock = [o \in Owners |-> NoThread]
    /\ peer = [o \in Owners |-> Null]
    /\ pstate = [o \in Owners |-> "IDLE"]
    /\ heap = [p \in Peers |-> NoPeer]
    /\ armed = (Status # {})
    /\ reqno = [o \in Owners |-> 0]
    /\ sends = [o \in Owners |-> 0]
    /\ answers = [o \in Owners |-> 0]
    /\ granted = [o \in Owners |-> 0]
    /\ pc = [t \in Threads |-> "idle"]
    /\ to = [t \in Threads |-> Null]
    /\ tp = [t \in Threads |-> Null]
    /\ tev = [t \in Threads |-> "none"]
    /\ attempts = [t \in Threads |-> 0]
    /\ spurious = 0
    /\ ub = "none"

-----------------------------------------------------------------------------
(* Steps of a thread.                                                      *)

Goto(t, label) == pc' = [pc EXCEPT ![t] = label]

\* Back to the event loop.
Return(t) ==
    /\ pc' = [pc EXCEPT ![t] = "idle"]
    /\ to' = [to EXCEPT ![t] = Null]
    /\ tp' = [tp EXCEPT ![t] = Null]
    /\ tev' = [tev EXCEPT ![t] = "none"]
    /\ attempts' = [attempts EXCEPT ![t] = 0]

\* A faulty variant: handle an event without waiting for the lock.
FreeOrNot(o) == TRUE

\* c->lock can be taken.
Free(o) == clock[o] = NoThread

Unlock(o) == clock' = [clock EXCEPT ![o] = NoThread]

\* A faulty variant: close the peer and keep the pointer.
CleanupKeepsPointer(o) ==
    /\ heap' = IF peer[o] = Null THEN heap ELSE [heap EXCEPT ![peer[o]] = NoPeer]
    /\ pstate' = [pstate EXCEPT ![o] = "IDLE"]
    /\ UNCHANGED peer

\* A faulty variant: let a request that was sent run on.
CleanupUnlessLoading(o) ==
    IF pstate[o] = "LOADING"
    THEN UNCHANGED <<heap, peer, pstate>>
    ELSE /\ heap' = IF peer[o] = Null THEN heap ELSE [heap EXCEPT ![peer[o]] = NoPeer]
         /\ peer' = [peer EXCEPT ![o] = Null]
         /\ pstate' = [pstate EXCEPT ![o] = "IDLE"]

\* stu_upstream_cleanup: the peer is closed and freed.
Cleanup(o) ==
    /\ heap' = IF peer[o] = Null THEN heap ELSE [heap EXCEPT ![peer[o]] = NoPeer]
    /\ peer' = [peer EXCEPT ![o] = Null]
    /\ pstate' = [pstate EXCEPT ![o] = "IDLE"]

\* Faulty variants: finalize the request twice, or not at all.
AnswerTwice(o, then) ==
    /\ conn' = [conn EXCEPT ![o] = then]
    /\ answers' = [answers EXCEPT ![o] = @ + 2]

AnswerNothing(o, then) == UNCHANGED <<conn, answers>>

\* stu_http_finalize_request could send the response.
Answer(o, then) ==
    /\ conn' = [conn EXCEPT ![o] = then]
    /\ answers' = [answers EXCEPT ![o] = @ + 1]

-----------------------------------------------------------------------------
(* A request begins: stu_http_process_request (enterprise) and             *)
(* stu_channel_push_status_handler, then stu_upstream_create.              *)

\* The thread calls the HTTP handler of a client that is not let in, or not yet.
Deliver(t, o) ==
    /\ pc[t] = "idle"
    /\ conn[o] \in {"idle", "pending", "refused"}
    /\ to' = [to EXCEPT ![t] = o]
    /\ Goto(t, "http")
    /\ UNCHANGED <<clientVars, clock, peer, pstate, heap, armed, reqno, sends, tp, tev,
                   attempts, spurious, ub>>

\* The handler has c->lock and reads an upgrade request.  A request that is still
\* pending loses its peer.  Of the client it only knows that it is not closed.
Upgrade(t) ==
    LET o == to[t]
    IN  /\ pc[t] = "http"
        /\ Free(o)
        /\ conn[o] # "closed"
        /\ reqno[o] < MaxRequests
        /\ clock' = [clock EXCEPT ![o] = t]
        /\ Cleanup(o)
        /\ conn' = [conn EXCEPT ![o] = IF @ = "ws" THEN "ws" ELSE "pending"]
        /\ reqno' = [reqno EXCEPT ![o] = @ + 1]
        /\ sends' = [sends EXCEPT ![o] = 0]
        /\ Goto(t, "init")
        /\ UNCHANGED <<armed, answers, granted, to, tp, tev, attempts, spurious, ub>>

\* The client is closed, or there is nothing to read, or no whole request.
NoUpgrade(t) ==
    /\ pc[t] = "http"
    /\ Free(to[t])
    /\ Return(t)
    /\ UNCHANGED <<clientVars, clock, peer, pstate, heap, armed, reqno, sends, spurious, ub>>

\* c->data and c->buffer of a client that is in are those of the other handler: an
\* HTTP handler comes late and a frame was read before, or a frame comes after it.
MixedHandlers(t, o) ==
    /\ conn[o] = "ws"
    /\ Free(o)
    /\ \/ pc[t] = "http" /\ to[t] = o
       \/ pc[t] = "idle" /\ granted[o] # reqno[o]
    /\ ub' = "handlers_mixed"
    /\ UNCHANGED <<clientVars, clock, peer, pstate, heap, armed, reqno, sends, threadVars, spurious>>

\* The timer expires push_status_interval after it was armed; its handler runs
\* without c->lock.
TimerFires(t, o) ==
    /\ pc[t] = "idle"
    /\ armed
    /\ reqno[o] < MaxRequests
    /\ armed' = FALSE
    /\ Cleanup(o)
    /\ reqno' = [reqno EXCEPT ![o] = @ + 1]
    /\ sends' = [sends EXCEPT ![o] = 0]
    /\ to' = [to EXCEPT ![t] = o]
    /\ Goto(t, "init")
    /\ UNCHANGED <<clientVars, clock, tp, tev, attempts, spurious, ub>>

\* The client ends the connection: stu_connection_close cleans up as well.
Hangup(t, o) ==
    /\ pc[t] = "idle"
    /\ conn[o] \in {"idle", "pending", "refused", "ws"}
    /\ Free(o)
    /\ Cleanup(o)
    /\ conn' = [conn EXCEPT ![o] = "closed"]
    /\ UNCHANGED <<clock, armed, reqno, sends, answers, granted, threadVars, spurious, ub>>

-----------------------------------------------------------------------------
(* stu_upstream_init, stu_upstream_connect, stu_upstream_next.             *)

\* u->peer.connection is p afterwards: the old one, or one that is allocated with a
\* new socket, which epoll reports to be writable until it connects.  A stale pointer
\* of a thread that serves another owner now points to a live peer; one that serves
\* o itself goes on with the new peer.
UsePeer(o, p) ==
    IF peer[o] # Null
    THEN /\ p = peer[o]
         /\ UNCHANGED <<heap, peer, tp>>
    ELSE /\ heap[p].sock = "free"
         /\ heap' = [heap EXCEPT ![p] = [NoPeer EXCEPT !.sock = "new", !.active = TRUE,
                                           !.ready = {"out"}, !.owner = o, !.req = reqno[o]]]
         /\ peer' = [peer EXCEPT ![o] = p]
         /\ tp' = [t \in Threads |->
                     IF tp[t] = p /\ pc[t] \in {"lock", "handle"} /\ to[t] # o
                     THEN "reused" ELSE tp[t]]

\* u->peer.state is set although stu_upstream_cleanup has just reset it: the read
\* handler of another thread completes the timer's last request.  The write handler
\* is called for the peer there is.
Reinit(t) ==
    LET o == to[t]
    IN  /\ pc[t] = "init"
        /\ pstate[o] # "IDLE"
        /\ peer[o] # Null
        /\ tp' = [tp EXCEPT ![t] = peer[o]]
        /\ tev' = [tev EXCEPT ![t] = "out"]
        /\ Goto(t, "lock")
        /\ UNCHANGED <<clientVars, clock, peer, pstate, heap, armed, reqno, sends, to,
                       attempts, spurious, ub>>

\* u->peer.connection is NULL in stu_upstream_init, or another thread drops the
\* timer's peer while stu_upstream_connect uses it.
NullPeer(t) ==
    LET o == to[t]
    IN  /\ pc[t] = "init"
        /\ \/ pstate[o] # "IDLE" /\ peer[o] = Null
           \/ peer[o] # Null /\ \E u \in Threads : pc[u] = "handle" /\ tp[u] = peer[o]
        /\ ub' = "null_peer"
        /\ UNCHANGED <<clientVars, clock, peer, pstate, heap, armed, reqno, sends, threadVars, spurious>>

\* socket(), the peer, and its two events, which are ready before connect().
MakePeer(t) ==
    /\ pc[t] = "init"
    /\ pstate[to[t]] = "IDLE"
    /\ \E p \in Peers : UsePeer(to[t], p)
    /\ Goto(t, "connect")
    /\ UNCHANGED <<clientVars, clock, pstate, armed, reqno, sends, to, tev, attempts, spurious, ub>>

\* What connect() does to the socket: the descriptor of a peer that was there before
\* is that of its first socket.
Connects(o, s, edges) ==
    heap' = IF heap[peer[o]].sock = "new"
            THEN [heap EXCEPT ![peer[o]].sock = s, ![peer[o]].ready = edges]
            ELSE heap

\* connect() is under way.
ConnectStart(t) ==
    /\ pc[t] = "connect"
    /\ "progress" \in ConnectOutcomes
    /\ peer[to[t]] # Null
    /\ Connects(to[t], "pending", {})
    /\ Goto(t, "connected")
    /\ UNCHANGED <<clientVars, clock, peer, pstate, armed, reqno, sends, to, tp, tev, attempts,
                   spurious, ub>>

\* The state is set and the initiator returns; a client's lock is released.
SetConnected(t) ==
    /\ pc[t] = "connected"
    /\ pstate' = [pstate EXCEPT ![to[t]] = "CONNECTED"]
    /\ clock' = IF to[t] \in Idents THEN [clock EXCEPT ![to[t]] = NoThread] ELSE clock
    /\ Return(t)
    /\ UNCHANGED <<clientVars, peer, heap, armed, reqno, sends, spurious, ub>>

\* connect() is refused, or another thread has closed the socket: stu_upstream_next
\* chooses a server and begins again.
ConnectDeclined(t) ==
    /\ pc[t] = "connect"
    /\ attempts[t] < MaxAttempts
    /\ IF peer[to[t]] = Null
       THEN heap' = heap
       ELSE "declined" \in ConnectOutcomes /\ Connects(to[t], "refused", {"out"})
    /\ attempts' = [attempts EXCEPT ![t] = @ + 1]
    /\ Goto(t, "init")
    /\ UNCHANGED <<clientVars, clock, peer, pstate, armed, reqno, sends, to, tp, tev, spurious, ub>>

\* A call fails.  A client is answered and closed; when the answer cannot be
\* sent it is closed twice.  The status request just ends.
ConnectError(t) ==
    LET o == to[t]
    IN  /\ pc[t] \in {"init", "connect"}
        /\ "error" \in ConnectOutcomes
        /\ IF o \in Idents
           THEN /\ Cleanup(o)
                /\ Unlock(o)
                /\ \/ /\ "sent" \in SendOutcomes
                      /\ Answer(o, "closed")
                      /\ ub' = ub
                   \/ /\ "failed" \in SendOutcomes
                      /\ conn' = [conn EXCEPT ![o] = "closed"]
                      /\ answers' = answers
                      /\ ub' = "double_free"
           ELSE UNCHANGED <<conn, clock, peer, pstate, heap, answers, ub>>
        /\ Return(t)
        /\ UNCHANGED <<granted, armed, reqno, sends, spurious>>

-----------------------------------------------------------------------------
(* Events of a peer: stu_event_epoll_process_events and the first lines of *)
(* the two handlers.                                                       *)

Take(t, p, e) ==
    /\ pc[t] = "idle"
    /\ e \in heap[p].ready
    /\ heap' = [heap EXCEPT ![p].ready = @ \ {e}]
    /\ tp' = [tp EXCEPT ![t] = p]
    /\ tev' = [tev EXCEPT ![t] = e]
    /\ Goto(t, "event")
    /\ UNCHANGED <<clientVars, clock, peer, pstate, armed, reqno, sends, to, attempts, spurious, ub>>

\* pc->fd = -1, or no write event is wanted any more, or ev->data is not set yet.
Ignore(t) ==
    /\ pc[t] = "event"
    /\ \/ heap[tp[t]].sock = "free"
       \/ tev[t] = "out" /\ ~ heap[tp[t]].active
       \/ tev[t] = "out" /\ heap[tp[t]].sock = "new"
    /\ Return(t)
    /\ UNCHANGED <<clientVars, clock, peer, pstate, heap, armed, reqno, sends, spurious, ub>>

\* A faulty variant: ev->data is still the peer itself.
DataIsPeer(p) == p

\* ev->data: stu_upstream_connect has set it to the owner.
Data(p) == heap[p].owner

\* The handler reads ev->data and u->peer.connection.
Dispatch(t) ==
    LET p == tp[t]
    IN  /\ pc[t] = "event"
        /\ heap[p].sock # "free"
        /\ tev[t] = "out" => heap[p].active
        /\ to' = [to EXCEPT ![t] = Data(p)]
        /\ tp' = [tp EXCEPT ![t] = peer[heap[p].owner]]
        /\ Goto(t, "lock")
        /\ UNCHANGED <<clientVars, clock, peer, pstate, heap, armed, reqno, sends,
                       tev, attempts, spurious, ub>>

\* The handler has c->lock.
Lock(t) ==
    /\ pc[t] = "lock"
    /\ Free(to[t])
    /\ clock' = [clock EXCEPT ![to[t]] = t]
    /\ Goto(t, "handle")
    /\ UNCHANGED <<clientVars, peer, pstate, heap, armed, reqno, sends, to, tp, tev,
                   attempts, spurious, ub>>

\* pc is NULL, or pc->fd is -1: there is nothing to do.
NoPeerLeft(t) ==
    /\ pc[t] = "handle"
    /\ tp[t] = Null \/ (tp[t] \in Peers /\ heap[tp[t]].sock = "free")
    /\ Unlock(to[t])
    /\ Return(t)
    /\ UNCHANGED <<clientVars, peer, pstate, heap, armed, reqno, sends, spurious, ub>>

\* pc points to memory that was freed and is the peer of another request.
ReusedPeer(t) ==
    /\ pc[t] = "handle"
    /\ tp[t] = "reused"
    /\ ub' = "peer_reused"
    /\ UNCHANGED <<clientVars, clock, peer, pstate, heap, armed, reqno, sends, threadVars, spurious>>

Handles(t, e) ==
    /\ pc[t] = "handle"
    /\ tev[t] = e
    /\ tp[t] \in Peers
    /\ heap[tp[t]].sock # "free"

-----------------------------------------------------------------------------
(* stu_http_upstream_write_handler.                                        *)

\* A faulty variant: do not look whether the request was sent.
Always(o) == TRUE

\* u->peer.state < STU_UPSTREAM_PEER_LOADING
NotSent(o) == pstate[o] \in {"IDLE", "CONNECTED"}

\* The request is sent, and epoll is told to report what can be read.
Write(t) ==
    LET o == to[t]
    IN  /\ Handles(t, "out")
        /\ NotSent(o)
        /\ heap[tp[t]].sock = "open" /\ "sent" \in SendOutcomes
        /\ pstate' = [pstate EXCEPT ![o] = "LOADING"]
        /\ sends' = [sends EXCEPT ![o] = @ + 1]
        /\ heap' = [heap EXCEPT ![tp[t]].interest = "in", ![tp[t]].active = FALSE,
                                ![tp[t]].ready = IF heap[tp[t]].inbox = "none" THEN @ ELSE {"in"}]
        /\ Unlock(o)
        /\ Return(t)
        /\ UNCHANGED <<clientVars, peer, armed, reqno, spurious, ub>>

AlreadySent(t) ==
    /\ Handles(t, "out")
    /\ ~ NotSent(to[t])
    /\ Unlock(to[t])
    /\ Return(t)
    /\ UNCHANGED <<clientVars, peer, pstate, heap, armed, reqno, sends, spurious, ub>>

\* send() fails: the peer is dropped, and that is all.
WriteFails(t) ==
    /\ Handles(t, "out")
    /\ NotSent(to[t])
    /\ heap[tp[t]].sock # "open" \/ "failed" \in SendOutcomes
    /\ Cleanup(to[t])
    /\ Unlock(to[t])
    /\ Return(t)
    /\ UNCHANGED <<clientVars, armed, reqno, sends, spurious, ub>>

-----------------------------------------------------------------------------
(* stu_http_upstream_read_handler and the handlers of a response.          *)

\* EAGAIN: another thread has read it.
ReadNothing(t) ==
    /\ Handles(t, "in")
    /\ heap[tp[t]].inbox = "none"
    /\ Unlock(to[t])
    /\ Return(t)
    /\ UNCHANGED <<clientVars, peer, pstate, heap, armed, reqno, sends, spurious, ub>>

\* The server has closed: the peer is dropped, and that is all.
ReadEof(t) ==
    /\ Handles(t, "in")
    /\ heap[tp[t]].inbox = "eof"
    /\ Cleanup(to[t])
    /\ Unlock(to[t])
    /\ Return(t)
    /\ UNCHANGED <<clientVars, armed, reqno, sends, spurious, ub>>

\* The loop over the header lines waits for the rest without reading it.
ReadPartial(t) ==
    /\ Handles(t, "in")
    /\ heap[tp[t]].inbox = "partial"
    /\ pstate' = [pstate EXCEPT ![to[t]] = "LOADED"]
    /\ heap' = [heap EXCEPT ![tp[t]].inbox = "none"]
    /\ Goto(t, "spin")
    /\ UNCHANGED <<clientVars, clock, peer, armed, reqno, sends, to, tp, tev, attempts, spurious, ub>>

\* stu_http_upstream_ident_analyze_response, up to the 101: the user joins a
\* channel, the peer is dropped and the response is sent.
IdentGranted(t) ==
    LET o == to[t]
    IN  /\ Handles(t, "in")
        /\ o \in Idents
        /\ heap[tp[t]].inbox = "granted"
        /\ granted' = [granted EXCEPT ![o] = heap[tp[t]].req]
        /\ Cleanup(o)
        /\ \/ /\ "sent" \in SendOutcomes
              /\ Answer(o, "ws")
              /\ Goto(t, "frame")
           \/ /\ "failed" \in SendOutcomes
              /\ conn' = [conn EXCEPT ![o] = "closed"]
              /\ answers' = answers
              /\ Goto(t, "complete")
        /\ UNCHANGED <<clock, armed, reqno, sends, to, tp, tev, attempts, spurious, ub>>

\* The identity frame.  When it cannot be sent the request is finalized again,
\* but stu_http_switch_protocol has set c->data to NULL.
SendFrame(t) ==
    /\ pc[t] = "frame"
    /\ \/ "sent" \in SendOutcomes /\ ub' = ub
       \/ "failed" \in SendOutcomes /\ ub' = "null_request"
    /\ Goto(t, "complete")
    /\ UNCHANGED <<clientVars, clock, peer, pstate, heap, armed, reqno, sends, to, tp, tev,
                   attempts, spurious>>

\* Any other response, or a channel that cannot be joined: the client is
\* answered, and its connection stays as it was.
IdentDenied(t) ==
    LET o == to[t]
    IN  /\ Handles(t, "in")
        /\ o \in Idents
        /\ heap[tp[t]].inbox = "denied"
        /\ Cleanup(o)
        /\ \/ /\ "sent" \in SendOutcomes
              /\ Answer(o, IF conn[o] = "ws" THEN "ws" ELSE "refused")
           \/ /\ "failed" \in SendOutcomes
              /\ conn' = [conn EXCEPT ![o] = "closed"]
              /\ answers' = answers
        /\ Goto(t, "complete")
        /\ UNCHANGED <<granted, clock, armed, reqno, sends, to, tp, tev, attempts, spurious, ub>>

\* A faulty variant: arm the timer only after a good response.
RearmIfGood(t) == armed' = (heap[tp[t]].inbox = "granted")

\* stu_channel_push_status_finalize_handler arms the timer, good or bad.
Rearm(t) == armed' = TRUE

StatusDone(t) ==
    /\ Handles(t, "in")
    /\ to[t] \in Status
    /\ heap[tp[t]].inbox \in {"granted", "denied"}
    /\ Cleanup(to[t])
    /\ Rearm(t)
    /\ Goto(t, "complete")
    /\ UNCHANGED <<clientVars, clock, reqno, sends, to, tp, tev, attempts, spurious, ub>>

\* The end of the read handler.
Complete(t) ==
    /\ pc[t] = "complete"
    /\ pstate' = [pstate EXCEPT ![to[t]] = "COMPLETED"]
    /\ Unlock(to[t])
    /\ Return(t)
    /\ UNCHANGED <<clientVars, peer, heap, armed, reqno, sends, spurious, ub>>

-----------------------------------------------------------------------------
(* The servers and epoll.                                                  *)

\* An edge that epoll is asked to report.
Edge(p, e) == IF heap[p].interest = e THEN heap[p].ready \union {e} ELSE heap[p].ready

Accept(p) ==
    /\ heap[p].sock = "pending"
    /\ heap' = [heap EXCEPT ![p].sock = "open", ![p].ready = Edge(p, "out")]
    /\ UNCHANGED <<clientVars, clock, peer, pstate, armed, reqno, sends, threadVars, spurious, ub>>

Refuse(p) ==
    /\ heap[p].sock = "pending"
    /\ "declined" \in ConnectOutcomes
    /\ heap' = [heap EXCEPT ![p].sock = "refused", ![p].ready = Edge(p, "out")]
    /\ UNCHANGED <<clientVars, clock, peer, pstate, armed, reqno, sends, threadVars, spurious, ub>>

\* A request is answered; a server may also close without an answer.
Reply(p, r) ==
    /\ heap[p].sock = "open"
    /\ heap[p].interest = "in"
    /\ heap[p].inbox = "none"
    /\ \A t \in Threads : ~ (pc[t] = "spin" /\ tp[t] = p)
    /\ heap' = [heap EXCEPT ![p].inbox = r, ![p].ready = Edge(p, "in")]
    /\ UNCHANGED <<clientVars, clock, peer, pstate, armed, reqno, sends, threadVars, spurious, ub>>

\* The same readiness is reported to one more thread.
Spurious(p) ==
    /\ spurious < MaxSpurious
    /\ heap[p].sock = "open"
    /\ spurious' = spurious + 1
    /\ heap' = [heap EXCEPT ![p].ready = @ \union {heap[p].interest}]
    /\ UNCHANGED <<clientVars, clock, peer, pstate, armed, reqno, sends, threadVars, ub>>

-----------------------------------------------------------------------------
\* What a thread does once it has begun.
Continue(t) ==
    /\ ub = "none"
    /\ \/ Upgrade(t) \/ NoUpgrade(t)
       \/ Reinit(t) \/ NullPeer(t) \/ MakePeer(t)
       \/ ConnectStart(t) \/ SetConnected(t) \/ ConnectDeclined(t) \/ ConnectError(t)
       \/ Ignore(t) \/ Dispatch(t) \/ Lock(t) \/ NoPeerLeft(t) \/ ReusedPeer(t)
       \/ Write(t) \/ AlreadySent(t) \/ WriteFails(t)
       \/ ReadNothing(t) \/ ReadEof(t) \/ ReadPartial(t)
       \/ IdentGranted(t) \/ SendFrame(t) \/ IdentDenied(t) \/ StatusDone(t)
       \/ Complete(t)

TakeEvent(t) == ub = "none" /\ \E p \in Peers, e \in {"in", "out"} : Take(t, p, e)

Server(p) ==
    /\ ub = "none"
    /\ Accept(p) \/ Refuse(p) \/ \E r \in Replies : Reply(p, r)

Next ==
    \/ \E t \in Threads : Continue(t) \/ TakeEvent(t)
    \/ \E t \in Threads, o \in Idents :
          ub = "none" /\ (Deliver(t, o) \/ MixedHandlers(t, o) \/ Hangup(t, o))
    \/ \E t \in Threads, o \in Status : ub = "none" /\ TimerFires(t, o)
    \/ \E p \in Peers : Server(p) \/ (ub = "none" /\ Spurious(p))

\* Threads run on, servers answer, and clients do not keep a thread from the events
\* of peers: what epoll has to report is a queue.  (A thread that competes for a lock
\* would need strong fairness too; the fair instance has one thread.)
Fairness ==
    /\ \A t \in Threads : WF_vars(Continue(t)) /\ SF_vars(TakeEvent(t))
    /\ \A p \in Peers : WF_vars(Server(p))

Spec == Init /\ [][Next]_vars
FairSpec == Spec /\ Fairness

-----------------------------------------------------------------------------
(* Properties.                                                             *)

PeerType ==
    [sock : {"free", "new", "pending", "open", "refused"}, interest : {"in", "out"},
     ready : SUBSET {"in", "out"}, inbox : Replies \union {"none"},
     active : BOOLEAN, owner : Owners \union {Null}, req : 0 .. MaxRequests]

TypeOK ==
    /\ conn \in [Owners -> {"idle", "pending", "refused", "ws", "closed", "timer"}]
    /\ clock \in [Owners -> Threads \union {NoThread}]
    /\ peer \in [Owners -> Peers \union {Null}]
    /\ pstate \in [Owners -> {"IDLE", "CONNECTED", "LOADING", "LOADED", "COMPLETED"}]
    /\ heap \in [Peers -> PeerType]
    /\ armed \in BOOLEAN
    /\ reqno \in [Owners -> 0 .. MaxRequests]
    /\ sends \in [Owners -> Nat]
    /\ answers \in [Owners -> Nat]
    /\ granted \in [Owners -> 0 .. MaxRequests]
    /\ pc \in [Threads -> {"idle", "http", "init", "connect", "connected", "event",
                           "lock", "handle", "frame", "complete", "spin"}]
    /\ to \in [Threads -> Owners \union {Null}]
    /\ tp \in [Threads -> Peers \union {Null, "reused"}]
    /\ tev \in [Threads -> {"none", "in", "out"}]
    /\ attempts \in [Threads -> 0 .. MaxAttempts]
    /\ spurious \in 0 .. MaxSpurious
    /\ ub \in {"none", "double_free", "peer_reused", "null_request", "null_peer",
              "handlers_mixed"}

\* Every peer connection is the one its owner points to, and no owner points
\* to a freed one: stu_upstream_cleanup and the retries neither lose a peer
\* nor keep a pointer to one that was closed, whichever threads interleave.
PeersOwned ==
    \A p \in Peers :
        /\ heap[p].sock # "free" => peer[heap[p].owner] = p
        /\ heap[p].sock = "free" => \A o \in Owners : peer[o] # p

\* A client's identity request is sent at most once, however many threads are
\* told that the peer can be written to.
SentOnce == \A o \in Idents : sends[o] <= 1

\* A client is let in only by the response to its latest upgrade request, when it is
\* let in for the second time by a late HTTP handler as well: the answer to a request
\* that was given up does not count for the next one.
GrantIsCurrent ==
    [][\A o \in Idents : granted'[o] # granted[o] => granted'[o] = reqno[o]]_vars

\* No upgrade request is answered twice, and a client that was let in was
\* answered.
AnsweredOnce ==
    \A o \in Idents :
        /\ answers[o] <= reqno[o]
        /\ conn[o] \in {"ws", "refused"} => answers[o] > 0

\* Code that works on a connection's answer is the only one to do so.
OneHandler ==
    \A t1, t2 \in Threads :
        /\ {pc[t1], pc[t2]} \subseteq {"handle", "frame", "complete", "spin"}
        /\ to[t1] = to[t2]
        => t1 = t2

\* However events repeat and threads meet at one connection, a request is sent
\* once and answered once, by one of them.
AtMostOnce == SentOnce /\ AnsweredOnce /\ OneHandler

\* Every upgrade request is decided: the client is let in, refused or closed.
Decided == \A o \in Idents : (conn[o] = "pending") ~> (conn[o] # "pending" \/ ub # "none")

\* After every status request the timer is armed for the next.
StatusRearmed == \A o \in Status : (~ armed) ~> (armed \/ ub # "none")
=============================================================================
