------------------------------- MODULE Channel -------------------------------
(***************************************************************************)
(* The channel table of one worker process and the worker threads that     *)
(* share it.                                                               *)
(*                                                                         *)
(* A thread runs the event loop: it waits in epoll, calls the handler that *)
(* the connection of an event has, and the handler takes the lock of the   *)
(* connection.  The HTTP handler inserts an upgrading connection into a    *)
(* channel, the WebSocket handler broadcasts to the channel's members or   *)
(* removes the connection, and the timer handlers walk over all channels.  *)
(* Every step below ends where the code acquires or releases a mutex,      *)
(* frees an object or sends, so that the threads interleave as the mutexes *)
(* let them.                                                               *)
(*                                                                         *)
(* The handler is chosen before c->lock is taken, and only the descriptor  *)
(* is looked at again afterwards.  The HTTP handler of one thread may so   *)
(* run on a connection that another thread has upgraded meanwhile: it      *)
(* takes the connection for one that is in no channel yet, and what it     *)
(* reads for an HTTP request.                                              *)
(*                                                                         *)
(* Channel objects live on the heap: an address of Objs is reused as soon  *)
(* as it was freed, also by another thread.  A freed connection keeps its  *)
(* fd of -1 until its memory is reused; whoever uses it after that is in   *)
(* undefined behaviour (ReusedConn), where every behaviour below ends.     *)
(*                                                                         *)
(* The operators that follow "A faulty variant" are not used by Spec: each *)
(* is a plausible mistake in the definition after it, by which the         *)
(* properties are shown to depend on that definition.                      *)
(***************************************************************************)
CONSTANTS
    Threads,        \* worker threads of the process (worker_threads)
    Conns,          \* client connections
    Ids,            \* channel ids, the keys of stu_cycle->channels
    Objs,           \* addresses malloc hands out for a stu_channel_t
    NoThread,       \* owner of a free mutex
    NoConn,         \* no connection (a handler that has none)
    Null,           \* the null pointer
    AllocOutcomes,  \* what an allocation may answer
    SendOutcomes    \* what send() may answer

ASSUME ConstantsAssumption ==
    /\ NoThread \notin Threads
    /\ NoConn \notin Conns
    /\ Null \notin Objs \cup Ids
    /\ AllocOutcomes \subseteq {"ok", "null"}
    /\ SendOutcomes \subseteq {"sent", "error"}

VARIABLES
    (* shared by the threads of the process *)
    table,      \* stu_cycle->channels: id -> address, or Null
    tlock,      \* stu_cycle->channels.lock
    timer_lock, \* stu_cycle->timer_lock
    alive,      \* addresses that are allocated
    cid,        \* ch->id
    users,      \* ch->userlist: the connections in it under their user id
    stray,      \* ch->userlist: those in it under an id they had before
    ulock,      \* ch->userlist.lock
    conn,       \* read handler of a connection, or "freed"
    uchan,      \* c->user.channel
    clock,      \* c->lock
    cbuf,       \* what c->buffer and c->data were set up for since the 101
    (* the stack of a thread *)
    pc,         \* where it is
    tc,         \* c
    to,         \* ch
    tid,        \* the channel id of the upgrade request
    ret,        \* where stu_http_close_connection returns to
    mtodo,      \* members that a broadcast has not reached yet
    ctodo,      \* channels that a foreach has not reached yet
    (* history *)
    stale,      \* connections an HTTP handler got the lock of after their 101
    ub          \* undefined behaviour with a visible outcome

heap   == <<table, alive, cid, users, stray, uchan>>
locks  == <<tlock, timer_lock, ulock, clock>>
stack  == <<tc, to, tid, ret, mtodo, ctodo>>
vars   == <<heap, locks, conn, cbuf, pc, stack, stale, ub>>

\* Where a thread can be.
InsertPcs == {"ins_table", "ins_users", "ins_users_unlock", "ins_table_unlock",
              "ins_failed"}
RemovePcs == {"rm_lock", "rm_table", "rm_free", "rm_unlock"}
BcastPcs  == {"bc_lock", "bc_send"}
PushPcs   == {"push_table", "push_next", "push_lock", "push_send"}
HttpPcs   == {"reject", "final", "ident"}
LoopPcs   == {"loop", "poll", "expire", "expire_unlock"}
ConnPcs   == {"conn_http", "conn_websocket", "http", "websocket", "close",
              "conn_unlock"}
Pcs == InsertPcs \cup RemovePcs \cup BcastPcs \cup PushPcs \cup HttpPcs
         \cup LoopPcs \cup ConnPcs

\* The elements of a channel's userlist.
Members(o) == users[o] \cup stray[o]

Init ==
    /\ table = [i \in Ids |-> Null]
    /\ tlock = NoThread
    /\ timer_lock = NoThread
    /\ alive = {}
    /\ cid = [o \in Objs |-> Null]
    /\ users = [o \in Objs |-> {}]
    /\ stray = [o \in Objs |-> {}]
    /\ ulock = [o \in Objs |-> NoThread]
    /\ conn = [c \in Conns |-> "http"]
    /\ uchan = [c \in Conns |-> Null]
    /\ clock = [c \in Conns |-> NoThread]
    /\ cbuf = [c \in Conns |-> "none"]
    /\ pc = [t \in Threads |-> "loop"]
    /\ tc = [t \in Threads |-> NoConn]
    /\ to = [t \in Threads |-> Null]
    /\ tid = [t \in Threads |-> Null]
    /\ ret = [t \in Threads |-> "conn_unlock"]
    /\ mtodo = [t \in Threads |-> {}]
    /\ ctodo = [t \in Threads |-> {}]
    /\ stale = {}
    /\ ub = "none"

-----------------------------------------------------------------------------
(* Steps of a thread.  Goto(t, l) moves thread t to label l.               *)

Goto(t, l) == pc' = [pc EXCEPT ![t] = l]

\* A handler returns to the event loop and its stack frame is gone.
Return(t, l) ==
    /\ Goto(t, l)
    /\ tc' = [tc EXCEPT ![t] = NoConn]
    /\ to' = [to EXCEPT ![t] = Null]
    /\ tid' = [tid EXCEPT ![t] = Null]
    /\ ret' = [ret EXCEPT ![t] = "conn_unlock"]
    /\ UNCHANGED <<mtodo, ctodo>>

-----------------------------------------------------------------------------
(* The event loop: stu_timer_find, epoll_wait and the handlers of the      *)
(* events it returned, stu_timer_expire.                                   *)

\* stu_timer_find takes and releases timer_lock before epoll_wait.
FindTimer(t) ==
    /\ pc[t] = "loop"
    /\ timer_lock = NoThread
    /\ Goto(t, "poll")
    /\ UNCHANGED <<heap, locks, stack, conn, cbuf, stale, ub>>

\* epoll_wait returned an event of c, and c->read.handler is called.  Several
\* threads may hold an event of the same connection, and until this one has
\* the lock of c another may change the handler or free c.
Deliver(t, c) ==
    /\ pc[t] = "poll"
    /\ conn[c] # "freed"
    /\ tc' = [tc EXCEPT ![t] = c]
    /\ Goto(t, IF conn[c] = "http" THEN "conn_http" ELSE "conn_websocket")
    /\ UNCHANGED <<heap, locks, conn, cbuf, to, tid, ret, mtodo, ctodo,
                   stale, ub>>

\* All events are processed; timers expire only when the clock has moved.
EndEvents(t) ==
    /\ pc[t] = "poll"
    /\ \E moved \in BOOLEAN : Goto(t, IF moved THEN "expire" ELSE "loop")
    /\ UNCHANGED <<heap, locks, stack, conn, cbuf, stale, ub>>

\* The read handlers lock c and leave at once when its fd is invalid.  They
\* do not ask whether they still are the handler of c.
LockConn(t) ==
    /\ pc[t] \in {"conn_http", "conn_websocket"}
    /\ clock[tc[t]] = NoThread
    /\ clock' = [clock EXCEPT ![tc[t]] = t]
    /\ Goto(t, IF conn[tc[t]] = "freed" THEN "conn_unlock"
               ELSE IF pc[t] = "conn_http" THEN "http" ELSE "websocket")
    /\ stale' = stale \cup {c \in {tc[t]} :
                            pc[t] = "conn_http" /\ conn[c] = "websocket"}
    /\ UNCHANGED <<heap, tlock, timer_lock, ulock, stack, conn, cbuf,
                   ub>>

UnlockConn(t) ==
    /\ pc[t] = "conn_unlock"
    /\ clock' = [clock EXCEPT ![tc[t]] = NoThread]
    /\ Return(t, "poll")
    /\ UNCHANGED <<heap, tlock, timer_lock, ulock, conn, cbuf, stale, ub>>

\* stu_connection_close: the descriptor is closed and c is freed.  Freeing it
\* a second time is undefined; the C library aborts or corrupts its heap.
CloseConn(t) ==
    /\ pc[t] = "close"
    /\ IF conn[tc[t]] = "freed"
       THEN ub' = "double_free" /\ UNCHANGED conn
       ELSE conn' = [conn EXCEPT ![tc[t]] = "freed"] /\ UNCHANGED ub
    /\ cbuf' = [cbuf EXCEPT ![tc[t]] = "none"]
    /\ Goto(t, ret[t])
    /\ ret' = [ret EXCEPT ![t] = "conn_unlock"]
    /\ UNCHANGED <<heap, locks, tc, to, tid, mtodo, ctodo, stale>>

-----------------------------------------------------------------------------
(* stu_http_wait_request_handler and what it calls for an upgrade request  *)
(* in the preview edition.  HttpParse has the requests by which a handler  *)
(* crashes (a 101 for a request without a key, stu_http_request.c:694);    *)
(* the upgrade requests below have one.                                    *)

\* stu_http_wait_request_handler lays out a buffer that ends where it does
\* and c->data for an HTTP request, stu_websocket_wait_request_handler one
\* that ends where the received bytes do and c->data for a frame.  Before
\* the 101 only the former has run.
SetUp(c, for) ==
    cbuf' = [cbuf EXCEPT ![c] = IF conn[c] = "http" THEN @ ELSE for]

\* recv() answers EAGAIN, as another thread has read the data, or a policy
\* file request is answered.  A buffer is allocated if there is none.
HttpNothingToRead(t) ==
    /\ pc[t] = "http"
    /\ SetUp(tc[t], IF cbuf[tc[t]] = "none" THEN "http" ELSE cbuf[tc[t]])
    /\ Goto(t, "conn_unlock")
    /\ UNCHANGED <<heap, locks, stack, conn, stale, ub>>

\* What has arrived is not yet a whole request.
HttpPartial(t) ==
    /\ pc[t] = "http"
    /\ cbuf[tc[t]] # "websocket"
    /\ SetUp(tc[t], "http")
    /\ Goto(t, "conn_unlock")
    /\ UNCHANGED <<heap, locks, stack, conn, stale, ub>>

\* End of stream, or a read error.  The channel is not left: the handler
\* takes it that c is in none.
HttpHangup(t) ==
    /\ pc[t] = "http"
    /\ Goto(t, "close")
    /\ UNCHANGED <<heap, locks, stack, conn, cbuf, stale, ub>>

\* c->user.id gets a new value.  An element of a userlist that holds c under
\* the old one is not found by stu_channel_remove_user_locked any more.
ResetId(c) ==
    /\ users' = [o \in Objs |-> users[o] \ {c}]
    /\ stray' = [o \in Objs |-> stray[o] \cup (users[o] \cap {c})]

\* A request that is not accepted: bad headers or no upgrade, or, when the
\* user id is reset already, no user name.
HttpRefuse(t) ==
    /\ pc[t] = "http"
    /\ cbuf[tc[t]] # "websocket"
    /\ ResetId(tc[t]) \/ UNCHANGED <<users, stray>>
    /\ Goto(t, "reject")
    /\ UNCHANGED <<table, alive, cid, uchan, locks, stack, conn, cbuf, stale,
                   ub>>

\* A well formed upgrade request for channel i.
HttpUpgrade(t, i) ==
    /\ pc[t] = "http"
    /\ cbuf[tc[t]] # "websocket"
    /\ ResetId(tc[t])
    /\ tid' = [tid EXCEPT ![t] = i]
    /\ Goto(t, "ins_table")
    /\ UNCHANGED <<table, alive, cid, uchan, locks, conn, cbuf, tc, to, ret,
                   mtodo, ctodo, stale, ub>>

\* stu_http_finalize_request with an error status, then "failed".
Reject(t) ==
    /\ pc[t] = "reject"
    /\ "sent" \in SendOutcomes
    /\ Goto(t, "close")
    /\ UNCHANGED <<heap, locks, stack, conn, cbuf, stale, ub>>

\* The send fails: stu_http_request_handler leaves c's channel, if it has one,
\* and closes c, before "failed" closes it again.
RejectFails(t) ==
    /\ pc[t] = "reject"
    /\ "error" \in SendOutcomes
    /\ ret' = [ret EXCEPT ![t] = "close"]
    /\ to' = [to EXCEPT ![t] = uchan[tc[t]]]
    /\ Goto(t, IF uchan[tc[t]] = Null THEN "close" ELSE "rm_lock")
    /\ UNCHANGED <<heap, locks, conn, cbuf, tc, tid, mtodo, ctodo, stale,
                   ub>>

\* A faulty variant: find the channel, but do not keep the table locked.
InsertFindUnlocked(t) ==
    /\ pc[t] = "ins_table"
    /\ tlock = NoThread
    /\ table[tid[t]] # Null
    /\ to' = [to EXCEPT ![t] = table[tid[t]]]
    /\ Goto(t, "ins_users")
    /\ UNCHANGED <<heap, locks, conn, cbuf, tc, tid, ret, mtodo, ctodo,
                   stale, ub>>

\* stu_channel_insert locks the table and finds the channel.
InsertFind(t) ==
    /\ pc[t] = "ins_table"
    /\ tlock = NoThread
    /\ tlock' = t
    /\ table[tid[t]] # Null
    /\ to' = [to EXCEPT ![t] = table[tid[t]]]
    /\ Goto(t, "ins_users")
    /\ UNCHANGED <<heap, timer_lock, ulock, clock, conn, cbuf, tc, tid, ret,
                   mtodo, ctodo, stale, ub>>

\* A faulty variant: create the channel without looking for it first.
InsertCreateBlindly(t, o) ==
    /\ pc[t] = "ins_table"
    /\ tlock = NoThread
    /\ tlock' = t
    /\ o \notin alive
    /\ alive' = alive \cup {o}
    /\ cid' = [cid EXCEPT ![o] = tid[t]]
    /\ users' = [users EXCEPT ![o] = {}]
    /\ stray' = [stray EXCEPT ![o] = {}]
    /\ ulock' = [ulock EXCEPT ![o] = NoThread]
    /\ table' = [table EXCEPT ![tid[t]] = o]
    /\ to' = [to EXCEPT ![t] = o]
    /\ Goto(t, "ins_users")
    /\ UNCHANGED <<uchan, timer_lock, clock, conn, cbuf, tc, tid, ret, mtodo,
                   ctodo, stale, ub>>

\* It does not find the channel: it allocates one, with a new mutex and an
\* empty userlist, and enters it into the table.
InsertCreate(t, o) ==
    /\ pc[t] = "ins_table"
    /\ tlock = NoThread
    /\ tlock' = t
    /\ table[tid[t]] = Null
    /\ "ok" \in AllocOutcomes
    /\ o \notin alive
    /\ alive' = alive \cup {o}
    /\ cid' = [cid EXCEPT ![o] = tid[t]]
    /\ users' = [users EXCEPT ![o] = {}]
    /\ stray' = [stray EXCEPT ![o] = {}]
    /\ ulock' = [ulock EXCEPT ![o] = NoThread]
    /\ table' = [table EXCEPT ![tid[t]] = o]
    /\ to' = [to EXCEPT ![t] = o]
    /\ Goto(t, "ins_users")
    /\ UNCHANGED <<uchan, timer_lock, clock, conn, cbuf, tc, tid, ret, mtodo,
                   ctodo, stale, ub>>

\* A faulty variant: return without unlocking the table.
InsertNoMemoryKeepsLock(t) ==
    /\ pc[t] = "ins_table"
    /\ tlock = NoThread
    /\ tlock' = t
    /\ table[tid[t]] = Null
    /\ "null" \in AllocOutcomes
    /\ Goto(t, "reject")
    /\ UNCHANGED <<heap, timer_lock, ulock, clock, stack, conn, cbuf, stale,
                   ub>>

\* An allocation for the new channel fails.
InsertNoMemory(t) ==
    /\ pc[t] = "ins_table"
    /\ tlock = NoThread
    /\ tlock' = t
    /\ table[tid[t]] = Null
    /\ "null" \in AllocOutcomes
    /\ Goto(t, "ins_failed")
    /\ UNCHANGED <<heap, timer_lock, ulock, clock, stack, conn, cbuf, stale,
                   ub>>

\* A faulty variant: insert without taking the userlist's lock.
InsertUserUnlocked(t) ==
    /\ pc[t] = "ins_users"
    /\ users' = [users EXCEPT ![to[t]] = @ \cup {tc[t]}]
    /\ uchan' = [uchan EXCEPT ![tc[t]] = to[t]]
    /\ Goto(t, "ins_table_unlock")
    /\ UNCHANGED <<table, alive, cid, stray, locks, stack, conn, cbuf, stale,
                   ub>>

\* stu_channel_insert_locked, with the table still locked.
InsertUser(t) ==
    /\ pc[t] = "ins_users"
    /\ ulock[to[t]] = NoThread
    /\ ulock' = [ulock EXCEPT ![to[t]] = t]
    /\ "ok" \in AllocOutcomes
    /\ users' = [users EXCEPT ![to[t]] = @ \cup {tc[t]}]
    /\ uchan' = [uchan EXCEPT ![tc[t]] = to[t]]
    /\ Goto(t, "ins_users_unlock")
    /\ UNCHANGED <<table, alive, cid, stray, tlock, timer_lock, clock, stack,
                   conn, cbuf, stale, ub>>

\* A faulty variant: free the channel that could not take the user.
InsertUserNoMemoryFrees(t) ==
    /\ pc[t] = "ins_users"
    /\ ulock[to[t]] = NoThread
    /\ "null" \in AllocOutcomes
    /\ alive' = alive \ {to[t]}
    /\ Goto(t, "ins_failed")
    /\ UNCHANGED <<table, cid, users, stray, uchan, locks, stack, conn, cbuf,
                   stale, ub>>

\* The allocation of the list element fails; the channel stays as it is, and
\* so does c->user.channel.  The userlist is locked and unlocked, with nothing
\* done in between that another thread could see.
InsertUserNoMemory(t) ==
    /\ pc[t] = "ins_users"
    /\ ulock[to[t]] = NoThread
    /\ "null" \in AllocOutcomes
    /\ Goto(t, "ins_failed")
    /\ UNCHANGED <<heap, locks, stack, conn, cbuf, stale, ub>>

\* A faulty variant: the userlist stays locked.
InsertKeepsUsersLocked(t) ==
    /\ pc[t] = "ins_users_unlock"
    /\ Goto(t, "ins_table_unlock")
    /\ UNCHANGED <<heap, locks, stack, conn, cbuf, stale, ub>>

InsertUnlockUsers(t) ==
    /\ pc[t] = "ins_users_unlock"
    /\ ulock' = [ulock EXCEPT ![to[t]] = NoThread]
    /\ Goto(t, "ins_table_unlock")
    /\ UNCHANGED <<heap, tlock, timer_lock, clock, stack, conn, cbuf, stale,
                   ub>>

\* stu_channel_insert returns STU_OK, ...
InsertUnlockTable(t) ==
    /\ pc[t] = "ins_table_unlock"
    /\ tlock' = NoThread
    /\ Goto(t, "final")
    /\ UNCHANGED <<heap, timer_lock, ulock, clock, stack, conn, cbuf, stale,
                   ub>>

\* ... or STU_ERROR.
InsertFails(t) ==
    /\ pc[t] = "ins_failed"
    /\ tlock' = NoThread
    /\ Goto(t, "reject")
    /\ UNCHANGED <<heap, timer_lock, ulock, clock, stack, conn, cbuf, stale,
                   ub>>

\* A faulty variant: the read handler is not switched.
SwitchForgotten(t) ==
    /\ pc[t] = "final"
    /\ "sent" \in SendOutcomes
    /\ Goto(t, "ident")
    /\ UNCHANGED <<heap, locks, stack, conn, cbuf, stale, ub>>

\* stu_http_finalize_request(101) sends the response and switches handlers;
\* buffer and request start anew.  An event that is fetched in between finds
\* the HTTP handler, like one that was fetched before the response was sent.
SwitchProtocol(t) ==
    /\ pc[t] = "final"
    /\ "sent" \in SendOutcomes
    /\ conn' = [conn EXCEPT ![tc[t]] = "websocket"]
    /\ cbuf' = [cbuf EXCEPT ![tc[t]] = "none"]
    /\ Goto(t, "ident")
    /\ UNCHANGED <<heap, locks, stack, stale, ub>>

\* A faulty variant: remove the channel instead of the user.
SwitchFailsDropsChannel(t) ==
    /\ pc[t] = "final"
    /\ "error" \in SendOutcomes
    /\ ret' = [ret EXCEPT ![t] = "ident"]
    /\ Goto(t, "rm_table")
    /\ UNCHANGED <<heap, locks, conn, cbuf, tc, to, tid, mtodo, ctodo, stale,
                   ub>>

\* The send fails: it leaves the channel and closes c, and returns to its
\* caller, which goes on with the identity frame all the same.
SwitchFails(t) ==
    /\ pc[t] = "final"
    /\ "error" \in SendOutcomes
    /\ ret' = [ret EXCEPT ![t] = "ident"]
    /\ Goto(t, "rm_lock")
    /\ UNCHANGED <<heap, locks, conn, cbuf, tc, to, tid, mtodo, ctodo, stale,
                   ub>>

\* The identity frame; send() cannot succeed for a closed connection.
SendIdent(t) ==
    /\ pc[t] = "ident"
    /\ "sent" \in SendOutcomes
    /\ conn[tc[t]] # "freed"
    /\ Goto(t, "conn_unlock")
    /\ UNCHANGED <<heap, locks, stack, conn, cbuf, stale, ub>>

\* The send fails: c is closed but stays in its channel's userlist.
IdentFails(t) ==
    /\ pc[t] = "ident"
    /\ "error" \in SendOutcomes
    /\ Goto(t, "close")
    /\ UNCHANGED <<heap, locks, stack, conn, cbuf, stale, ub>>

-----------------------------------------------------------------------------
(* stu_websocket_wait_request_handler: a message of a member.              *)

\* A faulty variant: leave the handler without unlocking c.
NothingToReadKeepsLock(t) ==
    /\ pc[t] = "websocket"
    /\ Return(t, "poll")
    /\ UNCHANGED <<heap, locks, conn, cbuf, stale, ub>>

\* recv() answers EAGAIN.  A buffer is allocated if there is none.
WsNothingToRead(t) ==
    /\ pc[t] = "websocket"
    /\ SetUp(tc[t], IF cbuf[tc[t]] = "none" THEN "bare" ELSE cbuf[tc[t]])
    /\ Goto(t, "conn_unlock")
    /\ UNCHANGED <<heap, locks, stack, conn, stale, ub>>

\* An accepted message is broadcast: stu_websocket_request_handler.
WsMessage(t) ==
    /\ pc[t] = "websocket"
    /\ cbuf[tc[t]] # "http"
    /\ SetUp(tc[t], "websocket")
    /\ to' = [to EXCEPT ![t] = uchan[tc[t]]]
    /\ Goto(t, "bc_lock")
    /\ UNCHANGED <<heap, locks, conn, tc, tid, ret, mtodo, ctodo, stale, ub>>

\* What has arrived is not yet a whole message, or it is refused, which is
\* answered to its sender alone.
WsRefuse(t) ==
    /\ pc[t] = "websocket"
    /\ cbuf[tc[t]] # "http"
    /\ SetUp(tc[t], "websocket")
    /\ Goto(t, "conn_unlock")
    /\ UNCHANGED <<heap, locks, stack, conn, stale, ub>>

\* A faulty variant: close c without leaving the channel.
WsCloseStays(t) ==
    /\ pc[t] = "websocket"
    /\ Goto(t, "close")
    /\ UNCHANGED <<heap, locks, stack, conn, cbuf, stale, ub>>

\* End of stream, a read error or a close frame.
WsClose(t) ==
    /\ pc[t] = "websocket"
    /\ to' = [to EXCEPT ![t] = uchan[tc[t]]]
    /\ Goto(t, "rm_lock")
    /\ UNCHANGED <<heap, locks, conn, cbuf, tc, tid, ret, mtodo, ctodo,
                   stale, ub>>

BroadcastLock(t) ==
    /\ pc[t] = "bc_lock"
    /\ ulock[to[t]] = NoThread
    /\ ulock' = [ulock EXCEPT ![to[t]] = t]
    /\ mtodo' = [mtodo EXCEPT ![t] = Members(to[t])]
    /\ Goto(t, "bc_send")
    /\ UNCHANGED <<heap, tlock, timer_lock, clock, conn, cbuf, tc, to, tid,
                   ret, ctodo, stale, ub>>

\* One turn of a loop over userlist.keys: a frame for the next member.
SendToMember(t) ==
    /\ \E m \in mtodo[t] : mtodo' = [mtodo EXCEPT ![t] = @ \ {m}]
    /\ UNCHANGED <<heap, locks, conn, cbuf, pc, tc, to, tid, ret, ctodo, stale,
                   ub>>

BroadcastSend(t) == pc[t] = "bc_send" /\ SendToMember(t)

BroadcastUnlock(t) ==
    /\ pc[t] = "bc_send"
    /\ mtodo[t] = {}
    /\ ulock' = [ulock EXCEPT ![to[t]] = NoThread]
    /\ Goto(t, "conn_unlock")
    /\ UNCHANGED <<heap, tlock, timer_lock, clock, stack, conn, cbuf, stale,
                   ub>>

-----------------------------------------------------------------------------
(* stu_channel_remove.                                                     *)

\* Faulty variants: remove the channel although it has other members, and
\* remove every element instead of this connection's.
RemoveUserAndChannel(t) ==
    /\ pc[t] = "rm_lock"
    /\ ulock[to[t]] = NoThread
    /\ ulock' = [ulock EXCEPT ![to[t]] = t]
    /\ users' = [users EXCEPT ![to[t]] = @ \ {tc[t]}]
    /\ Goto(t, "rm_table")
    /\ UNCHANGED <<table, alive, cid, stray, uchan, tlock, timer_lock, clock,
                   stack, conn, cbuf, stale, ub>>

RemoveEveryUser(t) ==
    /\ pc[t] = "rm_lock"
    /\ ulock[to[t]] = NoThread
    /\ ulock' = [ulock EXCEPT ![to[t]] = t]
    /\ users' = [users EXCEPT ![to[t]] = {}]
    /\ stray' = [stray EXCEPT ![to[t]] = {}]
    /\ Goto(t, "rm_table")
    /\ UNCHANGED <<table, alive, cid, uchan, tlock, timer_lock, clock, stack,
                   conn, cbuf, stale, ub>>

\* Lock the userlist and take the element of c's user id out of it.
RemoveUser(t) ==
    /\ pc[t] = "rm_lock"
    /\ ulock[to[t]] = NoThread
    /\ ulock' = [ulock EXCEPT ![to[t]] = t]
    /\ users' = [users EXCEPT ![to[t]] = @ \ {tc[t]}]
    /\ Goto(t, IF users'[to[t]] \cup stray[to[t]] = {}
               THEN "rm_table" ELSE "rm_unlock")
    /\ UNCHANGED <<table, alive, cid, stray, uchan, tlock, timer_lock, clock,
                   stack, conn, cbuf, stale, ub>>

\* A faulty variant: the hash does not find the key.
RemoveChannelMisses(t) ==
    /\ pc[t] = "rm_table"
    /\ tlock = NoThread
    /\ Goto(t, "rm_free")
    /\ UNCHANGED <<heap, locks, stack, conn, cbuf, stale, ub>>

\* stu_hash_remove locks the table while the userlist is locked.
RemoveChannel(t) ==
    /\ pc[t] = "rm_table"
    /\ tlock = NoThread
    /\ table' = [table EXCEPT ![cid[to[t]]] = Null]
    /\ Goto(t, "rm_free")
    /\ UNCHANGED <<alive, cid, users, stray, uchan, locks, stack, conn, cbuf,
                   stale, ub>>

FreeChannel(t) ==
    /\ pc[t] = "rm_free"
    /\ alive' = alive \ {to[t]}
    /\ Goto(t, "rm_unlock")
    /\ UNCHANGED <<table, cid, users, stray, uchan, locks, stack, conn, cbuf,
                   stale, ub>>

\* The trailing unlock also runs after the channel was freed.  It then
\* releases whatever mutex lies at that address by now.
RemoveUnlock(t) ==
    /\ pc[t] = "rm_unlock"
    /\ ulock' = [ulock EXCEPT ![to[t]] = NoThread]
    /\ ub' = IF ulock[to[t]] \in {t, NoThread} THEN ub ELSE "mutex_stolen"
    /\ Goto(t, "close")
    /\ UNCHANGED <<heap, tlock, timer_lock, clock, stack, conn, cbuf, stale>>

-----------------------------------------------------------------------------
(* stu_timer_expire runs the timer handlers with timer_lock held: both     *)
(* walk over all channels with the table locked.                           *)

ExpireLock(t) ==
    /\ pc[t] = "expire"
    /\ timer_lock = NoThread
    /\ timer_lock' = t
    /\ \E due \in BOOLEAN :
         Goto(t, IF due THEN "push_table" ELSE "expire_unlock")
    /\ UNCHANGED <<heap, tlock, ulock, clock, stack, conn, cbuf, stale, ub>>

\* A faulty variant: visit the empty buckets too.
PushLockTableRaw(t) ==
    /\ pc[t] = "push_table"
    /\ tlock = NoThread
    /\ tlock' = t
    /\ ctodo' = [ctodo EXCEPT ![t] = {table[i] : i \in Ids}]
    /\ Goto(t, "push_next")
    /\ UNCHANGED <<heap, timer_lock, ulock, clock, conn, cbuf, tc, to, tid,
                   ret, mtodo, stale, ub>>

\* stu_hash_foreach(&stu_cycle->channels), and the loop over channels.keys in
\* stu_channel_push_status_generate_request.
PushLockTable(t) ==
    /\ pc[t] = "push_table"
    /\ tlock = NoThread
    /\ tlock' = t
    /\ ctodo' = [ctodo EXCEPT ![t] = {table[i] : i \in Ids} \ {Null}]
    /\ Goto(t, "push_next")
    /\ UNCHANGED <<heap, timer_lock, ulock, clock, conn, cbuf, tc, to, tid,
                   ret, mtodo, stale, ub>>

\* The next channel.  Each is visited either as push_users or as push_status
\* does; a real walk makes the same choice for all of them.
PushNext(t) ==
    /\ pc[t] = "push_next"
    /\ \E o \in ctodo[t] :
         /\ ctodo' = [ctodo EXCEPT ![t] = @ \ {o}]
         /\ to' = [to EXCEPT ![t] = o]
    /\ Goto(t, "push_lock")
    /\ UNCHANGED <<heap, locks, conn, cbuf, tc, tid, ret, mtodo, stale, ub>>

\* stu_channel_push_users sends a frame to every member of the channel.
PushUsers(t) ==
    /\ pc[t] = "push_lock"
    /\ ulock[to[t]] = NoThread
    /\ ulock' = [ulock EXCEPT ![to[t]] = t]
    /\ mtodo' = [mtodo EXCEPT ![t] = Members(to[t])]
    /\ Goto(t, "push_send")
    /\ UNCHANGED <<heap, tlock, timer_lock, clock, conn, cbuf, tc, to, tid,
                   ret, ctodo, stale, ub>>

\* stu_channel_push_status_generate_request only reads the channel's total.
PushStatus(t) ==
    /\ pc[t] = "push_lock"
    /\ ulock[to[t]] = NoThread
    /\ ulock' = [ulock EXCEPT ![to[t]] = t]
    /\ Goto(t, "push_send")
    /\ UNCHANGED <<heap, tlock, timer_lock, clock, stack, conn, cbuf, stale,
                   ub>>

PushSend(t) == pc[t] = "push_send" /\ SendToMember(t)

PushUnlock(t) ==
    /\ pc[t] = "push_send"
    /\ mtodo[t] = {}
    /\ ulock' = [ulock EXCEPT ![to[t]] = NoThread]
    /\ to' = [to EXCEPT ![t] = Null]
    /\ Goto(t, "push_next")
    /\ UNCHANGED <<heap, tlock, timer_lock, clock, conn, cbuf, tc, tid, ret,
                   mtodo, ctodo, stale, ub>>

PushUnlockTable(t) ==
    /\ pc[t] = "push_next"
    /\ ctodo[t] = {}
    /\ tlock' = NoThread
    /\ Goto(t, "expire_unlock")
    /\ UNCHANGED <<heap, timer_lock, ulock, clock, stack, conn, cbuf, stale,
                   ub>>

ExpireUnlock(t) ==
    /\ pc[t] = "expire_unlock"
    /\ timer_lock' = NoThread
    /\ Goto(t, "loop")
    /\ UNCHANGED <<heap, tlock, ulock, clock, stack, conn, cbuf, stale, ub>>

\* A thread uses a freed connection whose memory another allocation has got:
\* the event it took from epoll_wait, the unlock after the close, or the
\* element of a userlist that was left behind when c was closed.
ReusedConn(t) ==
    /\ \/ /\ pc[t] \in {"conn_http", "conn_websocket", "conn_unlock"}
          /\ conn[tc[t]] = "freed"
          /\ Threads # {t}
       \/ /\ pc[t] \in {"bc_send", "push_send"}
          /\ \E m \in mtodo[t] : conn[m] = "freed"
    /\ ub' = "conn_reused"
    /\ UNCHANGED <<heap, locks, stack, conn, cbuf, pc, stale>>

\* Each read handler works on what the other has laid out: recv() stores
\* behind the buffer of an HTTP request (stu_websocket_request.c:35), or
\* c->data is taken for a request of the other kind.
MixedHandlers(t) ==
    /\ \/ pc[t] = "http" /\ cbuf[tc[t]] = "websocket"
       \/ pc[t] = "websocket" /\ cbuf[tc[t]] = "http"
    /\ ub' = "handlers_mixed"
    /\ UNCHANGED <<heap, locks, stack, conn, cbuf, pc, stale>>

-----------------------------------------------------------------------------
\* What the environment starts: an event of a connection, and its content.
Event(t) ==
    \/ \E c \in Conns : Deliver(t, c)
    \/ HttpNothingToRead(t) \/ HttpPartial(t) \/ HttpHangup(t) \/ HttpRefuse(t)
    \/ \E i \in Ids : HttpUpgrade(t, i)
    \/ WsNothingToRead(t) \/ WsMessage(t) \/ WsRefuse(t) \/ WsClose(t)
    \/ MixedHandlers(t)

\* What the thread goes on with by itself.
Step(t) ==
    \/ FindTimer(t) \/ EndEvents(t)
    \/ LockConn(t) \/ UnlockConn(t) \/ CloseConn(t)
    \/ Reject(t) \/ RejectFails(t)
    \/ InsertFind(t) \/ (\E o \in Objs : InsertCreate(t, o))
    \/ InsertNoMemory(t)
    \/ InsertUser(t) \/ InsertUserNoMemory(t)
    \/ InsertUnlockUsers(t) \/ InsertUnlockTable(t) \/ InsertFails(t)
    \/ SwitchProtocol(t) \/ SwitchFails(t) \/ SendIdent(t) \/ IdentFails(t)
    \/ BroadcastLock(t) \/ BroadcastSend(t) \/ BroadcastUnlock(t)
    \/ RemoveUser(t) \/ RemoveChannel(t) \/ FreeChannel(t) \/ RemoveUnlock(t)
    \/ ExpireLock(t) \/ PushLockTable(t) \/ PushNext(t)
    \/ PushUsers(t) \/ PushStatus(t) \/ PushSend(t) \/ PushUnlock(t)
    \/ PushUnlockTable(t) \/ ExpireUnlock(t)
    \/ ReusedConn(t)

\* After undefined behaviour with a visible outcome nothing can be said.
Next == ub = "none" /\ \E t \in Threads : Event(t) \/ Step(t)

Spec == Init /\ [][Next]_vars

\* The scheduler runs every thread, and a thread that waits for a mutex gets
\* it when it is free again and again.
Fairness ==
    \A t \in Threads : SF_vars(ub = "none" /\ (Event(t) \/ Step(t)))

FairSpec == Spec /\ Fairness

-----------------------------------------------------------------------------
(* Properties.                                                             *)

\* The type of every variable.
TypeOK ==
    /\ table \in [Ids -> Objs \cup {Null}]
    /\ tlock \in Threads \cup {NoThread}
    /\ timer_lock \in Threads \cup {NoThread}
    /\ alive \subseteq Objs
    /\ cid \in [Objs -> Ids \cup {Null}]
    /\ users \in [Objs -> SUBSET Conns]
    /\ stray \in [Objs -> SUBSET Conns]
    /\ ulock \in [Objs -> Threads \cup {NoThread}]
    /\ conn \in [Conns -> {"http", "websocket", "freed"}]
    /\ uchan \in [Conns -> Objs \cup {Null}]
    /\ clock \in [Conns -> Threads \cup {NoThread}]
    /\ cbuf \in [Conns -> {"none", "bare", "http", "websocket"}]
    /\ pc \in [Threads -> Pcs]
    /\ tc \in [Threads -> Conns \cup {NoConn}]
    /\ to \in [Threads -> Objs \cup {Null}]
    /\ tid \in [Threads -> Ids \cup {Null}]
    /\ ret \in [Threads -> {"conn_unlock", "close", "ident"}]
    /\ mtodo \in [Threads -> SUBSET Conns]
    /\ ctodo \in [Threads -> SUBSET Objs]
    /\ stale \subseteq Conns
    /\ ub \in {"none", "mutex_stolen", "double_free", "conn_reused",
              "handlers_mixed"}

\* Labels at which thread t is about to use, or uses, the channel to[t].
UsesChannel(t) ==
    \/ pc[t] \in {"ins_users", "ins_users_unlock", "final", "bc_lock",
                  "bc_send", "rm_lock", "rm_table", "rm_free", "push_lock",
                  "push_send"}
    \/ pc[t] = "ident" /\ conn[tc[t]] # "freed"

\* No thread uses a channel that was freed: neither the thread that waits for
\* its userlist lock (stu_channel.c:69, :96, :279, stu_websocket_request.c:387)
\* nor the one that holds it.  Left out are the two places that do: the
\* trailing unlock of stu_channel_remove, and the identity frame that is built
\* after the 101 failed and c was closed (stu_http_request.c:329).
NoUseAfterFree ==
    ub = "none" => \A t \in Threads : UsesChannel(t) => to[t] \in alive

\* The table never holds a freed channel, and holds every channel under its
\* own id (stu_channel_insert, stu_channel_remove_locked).
TableSound ==
    ub = "none" =>
      \A i \in Ids : table[i] # Null => table[i] \in alive /\ cid[table[i]] = i

\* A channel that some connection is a member of can be found: it is in the
\* table, so that a later upgrade joins it instead of creating a second
\* channel of the same id (stu_channel.c:35, :108-:120).
MembersFindable ==
    ub = "none" =>
      \A o \in alive : Members(o) # {} => table[cid[o]] = o

\* As long as no send fails, a loop over userlist.keys meets a freed connection
\* in one case only: an HTTP handler that was called before the 101 got c->lock
\* after it, and closed c without leaving the channel.  Every other way to free
\* a connection leaves the channel first (stu_websocket_close_connection).
SendsToOpen ==
    ub = "none" =>
      \A t \in Threads : \A m \in mtodo[t] : conn[m] # "freed" \/ m \in stale

\* The mutex thread t waits for is held by thread s.
WaitsFor(t, s) ==
    \/ pc[t] \in {"loop", "expire"} /\ timer_lock = s
    \/ pc[t] \in {"conn_http", "conn_websocket"} /\ clock[tc[t]] = s
    \/ pc[t] \in {"ins_table", "rm_table", "push_table"} /\ tlock = s
    \/ /\ pc[t] \in {"ins_users", "bc_lock", "rm_lock", "push_lock"}
       /\ ulock[to[t]] = s

\* The lock order inversion: r removes the last user of a channel and waits
\* for the table, w holds the table and waits for that channel's userlist.
Inversion(r, w) ==
    /\ pc[r] = "rm_table" /\ tlock = w
    /\ pc[w] \in {"ins_users", "push_lock"} /\ to[w] = to[r]

\* Threads wait for one another forever only in that one way: every set of
\* threads in which each waits for another of the set has the inversion of
\* stu_channel.c:117 against :69 (insert), :279 (push_users) or :378.
DeadlockShape ==
    ub = "none" =>
      \A S \in SUBSET Threads :
        (S # {} /\ \A t \in S : \E s \in S : WaitsFor(t, s))
          => \E r, w \in S : Inversion(r, w)

\* A channel leaves the table only when it has no member: nobody is lost from
\* a channel by another member's leaving (stu_channel.c:108).
NeverDropsMembers ==
    [][\A i \in Ids :
         (table[i] # Null /\ table'[i] # table[i])
            => Members(table[i]) = {}]_vars

\* While a broadcast or a push walks over a channel nobody joins or leaves it,
\* so that it reaches the members of one instant (userlist.lock).
FrozenWhileSending ==
    [][\A t \in Threads :
         (pc[t] \in {"bc_send", "push_send"} /\ pc'[t] = pc[t])
            => users'[to[t]] \cup stray'[to[t]] = Members(to[t])]_vars

\* The members of channel i, as a client that looks it up sees them, and the
\* connections that have left theirs.
RoomMembers ==
    [i \in Ids |-> IF table[i] = Null THEN {} ELSE Members(table[i])]
RoomLeft ==
    {c \in Conns : uchan[c] # Null /\ \A i \in Ids : c \notin RoomMembers[i]}

Abstract == INSTANCE ChatRooms
              WITH Rooms <- Ids, People <- Conns,
                   member <- RoomMembers, left <- RoomLeft, again <- stale

\* The threads, mutexes and heap objects implement the rooms: creating,
\* replacing and freeing channel objects is invisible, and every insert and
\* remove acts on the one room of that id (stu_channel.c:24-:178).
ImplementsRooms == Abstract!Spec

\* What check.sh:8 expects of every upgrade: the first thing that the server
\* sends on the connection is the 101 response, so that no loop over a userlist
\* has a member before it that has not been sent its 101 yet.
FirstAnswerIs101 ==
    \A t \in Threads : \A m \in mtodo[t] : conn[m] # "http"

\* What check.sh:8 expects of every upgrade: it is answered, with 101 or with
\* an error, once stu_channel_insert has been called for it.
UpgradeAnswered ==
    \A c \in Conns :
        (\E t \in Threads : pc[t] = "ins_table" /\ tc[t] = c)
          ~> (conn[c] # "http" \/ ub # "none")

\* Nothing but the inversion keeps an upgrade from being answered: every wait
\* for c->lock, timer_lock, the table or a userlist ends (every path of every
\* handler releases what it locked).
AnsweredUnlessInverted ==
    \A c \in Conns :
        (\E t \in Threads : pc[t] = "ins_table" /\ tc[t] = c)
          ~> (\/ conn[c] # "http"
              \/ ub # "none"
              \/ \E r, w \in Threads : Inversion(r, w))

=============================================================================
