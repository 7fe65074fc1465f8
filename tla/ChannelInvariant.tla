-------------------------- MODULE ChannelInvariant --------------------------
(***************************************************************************)
(* The inductive invariant of Channel: who holds which mutex at which      *)
(* label, where a thread's pointers point to, and which connections are    *)
(* members of which channel.                                               *)
(***************************************************************************)
EXTENDS Channel

\* Labels at which a thread holds each of the mutexes.
TablePcs == {"ins_users", "ins_users_unlock", "ins_table_unlock", "ins_failed",
             "push_next", "push_lock", "push_send"}
TimerPcs == {"push_table", "push_next", "push_lock", "push_send",
             "expire_unlock"}
UserPcs  == {"ins_users_unlock", "bc_send", "push_send", "rm_table", "rm_free"}
HandlerPcs == {"http", "websocket", "close", "conn_unlock"}
                \cup HttpPcs \cup InsertPcs \cup BcastPcs \cup RemovePcs

\* Mutex ownership.  The one exception is the userlist of a freed channel.
LockInv ==
    /\ \A t \in Threads : tlock = t <=> pc[t] \in TablePcs
    /\ \A t \in Threads : timer_lock = t <=> pc[t] \in TimerPcs
    /\ \A t \in Threads :
         pc[t] \in HandlerPcs => tc[t] \in Conns /\ clock[tc[t]] = t
    /\ \A t \in Threads :
         pc[t] \in {"conn_http", "conn_websocket"} => tc[t] \in Conns
    /\ \A c \in Conns : \A t \in Threads :
         clock[c] = t => pc[t] \in HandlerPcs /\ tc[t] = c
    /\ \A t \in Threads : pc[t] \in UserPcs => ulock[to[t]] = t
    /\ \A t \in Threads : \A o \in alive :
         ulock[o] = t => pc[t] \in UserPcs \cup {"rm_unlock"} /\ to[t] = o

\* A thread that holds the table has pointers into it.
TableInv ==
    /\ \A i \in Ids : table[i] # Null => table[i] \in alive /\ cid[table[i]] = i
    /\ \A o \in alive : \/ cid[o] \in Ids /\ table[cid[o]] = o
                        \/ \E t \in Threads : pc[t] = "rm_free" /\ to[t] = o
    /\ \A t \in Threads : pc[t] \in InsertPcs => tid[t] \in Ids
    /\ \A t \in Threads : pc[t] \in {"ins_users", "ins_users_unlock"} =>
         to[t] \in Objs /\ table[tid[t]] = to[t]
    /\ \A t \in Threads : pc[t] \in {"push_lock", "push_send"} =>
         \E i \in Ids : table[i] = to[t] /\ to[t] \in Objs
    /\ \A t \in Threads : pc[t] \in {"push_next", "push_lock", "push_send"} =>
         \A o \in ctodo[t] : \E i \in Ids : table[i] = o
    /\ \A t \in Threads : pc[t] = "rm_table" =>
         to[t] \in alive /\ Members(to[t]) = {} /\ table[cid[to[t]]] = to[t]
    /\ \A t \in Threads : pc[t] = "rm_free" =>
         to[t] \in alive /\ Members(to[t]) = {} /\ \A i \in Ids : table[i] # to[t]
    /\ \A t \in Threads : pc[t] = "rm_unlock" => to[t] \in Objs

\* A member's pointer to its channel and the channel's list agree, except for
\* elements of an earlier id, which only a late HTTP handler leaves behind.
ListInv ==
    /\ \A o \in Objs : \A c \in users[o] : o \in alive /\ uchan[c] = o
    /\ \A o \in Objs : \A c \in stray[o] : o \in alive /\ c \in stale

\* The connection a thread works for is a member of the channel it works on;
\* one that is to be inserted is in no userlist under its new id yet.
HandlerInv ==
    /\ \A t \in Threads : pc[t] \in {"final", "bc_lock", "bc_send", "rm_lock"} =>
         to[t] \in Objs /\ tc[t] \in Members(to[t])
    /\ \A t \in Threads : pc[t] = "ident" /\ conn[tc[t]] # "freed" =>
         to[t] \in Objs /\ tc[t] \in Members(to[t])
    /\ \A t \in Threads : pc[t] \in {"ins_users_unlock", "ins_table_unlock"} =>
         to[t] \in Objs /\ tc[t] \in users[to[t]]
    /\ \A t \in Threads : pc[t] \in {"ins_table", "ins_users", "ins_failed"} =>
         \A o \in Objs : tc[t] \notin users[o]

\* Labels of the HTTP handler at which its request is not answered yet.
JoiningPcs == {"ins_users_unlock", "ins_table_unlock", "final"}
AskingPcs  == {"http", "reject", "ins_table", "ins_users", "ins_failed"}

\* Which kind of connection a thread works for.  The HTTP handler works for
\* one that has not switched and is in no channel yet, unless it came late;
\* the WebSocket handler never works for one that has not switched.
PhaseInv ==
    /\ \A t \in Threads : pc[t] \in AskingPcs =>
         \/ conn[tc[t]] = "http" /\ uchan[tc[t]] = Null
         \/ conn[tc[t]] = "websocket" /\ tc[t] \in stale
    /\ \A t \in Threads : pc[t] \in JoiningPcs =>
         \/ conn[tc[t]] = "http"
         \/ conn[tc[t]] = "websocket" /\ tc[t] \in stale
    /\ \A t \in Threads : pc[t] \in {"websocket"} \cup BcastPcs =>
         conn[tc[t]] = "websocket"
    /\ \A t \in Threads : pc[t] = "conn_websocket" => conn[tc[t]] # "http"
    /\ \A c \in Conns : c \in stale => conn[c] # "http"
    /\ \A c \in Conns : cbuf[c] # "none" => conn[c] = "websocket"

\* Threads that are taking a connection out of its channel, or closing it.
LeavingPcs == {"rm_table", "rm_free", "rm_unlock", "close"}

\* A connection that switched is a member until a thread takes it out.
WebsocketInv ==
    \A c \in Conns : conn[c] = "websocket" =>
      \/ uchan[c] \in Objs /\ c \in Members(uchan[c])
      \/ \E t \in Threads : tc[t] = c /\ pc[t] \in LeavingPcs

\* A connection that has not switched has no channel, unless a thread is
\* between its insertion and its 101 response.
HttpInv ==
    \A c \in Conns : conn[c] = "http" /\ uchan[c] # Null =>
      \E t \in Threads :
        tc[t] = c /\ pc[t] \in JoiningPcs \cup {"rm_lock"} \cup LeavingPcs

\* A walk over a userlist has only members before it.
TodoInv ==
    \A t \in Threads :
      IF pc[t] \in {"bc_send", "push_send"}
      THEN mtodo[t] \subseteq Members(to[t])
      ELSE mtodo[t] = {}

MemberInv ==
    ListInv /\ HandlerInv /\ PhaseInv /\ WebsocketInv /\ HttpInv /\ TodoInv

\* What holds as long as send() never fails: a connection leaves its channel
\* before it is freed, unless a late HTTP handler closes it.
OpenInv ==
    "error" \notin SendOutcomes =>
    /\ \A o \in Objs : \A c \in users[o] : conn[c] # "freed" \/ c \in stale
    /\ \A t \in Threads : pc[t] \in LeavingPcs =>
         tc[t] \in stale \/ \A o \in Objs : tc[t] \notin users[o]

IInv == ub = "none" => LockInv /\ TableInv /\ MemberInv /\ OpenInv
=============================================================================
