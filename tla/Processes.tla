----------------------------- MODULE Processes ------------------------------
(***************************************************************************)
(* The master spawns the worker processes one after the other and passes   *)
(* the sending end of each new worker's socket to the workers before it;   *)
(* the later ones inherit it.  A worker reads what it is sent when epoll   *)
(* reports it.  The epoll instance is made before the first fork, so there *)
(* is one, and an event is reported to whichever process waits for it:     *)
(* that process finds its own connection at the same address and reads its *)
(* own socket.                                                             *)
(*                                                                         *)
(* A worker is named by the attempt that spawned it, and so is its pair of *)
(* sockets: <<w, 0>> is the end that sends to w, <<w, 1>> the end w reads. *)
(* No handler of signals is installed, so a signal ends the master, and    *)
(* nothing sets stu_quit or stu_restart.                                   *)
(*                                                                         *)
(* The operators that follow "A faulty variant" are not used by Spec: each *)
(* is a plausible mistake in the definition after it.                      *)
(***************************************************************************)
EXTENDS Naturals, Sequences

CONSTANTS
    Attempts,       \* worker_processes
    Maximum,        \* STU_PROCESSES_MAXIMUM
    Room,           \* as many messages always fit into a socket's buffer
    Failures        \* bound: how many spawns may fail

ProcessesAssumption ==
    Attempts \in Nat /\ Maximum \in Nat /\ Room \in Nat /\ Failures \in Nat /\ Maximum > 0

Master == 0
Workers == 1 .. Attempts
Processes == {Master} \union Workers
Indices == 0 .. Maximum - 1
None == 0

VARIABLES
    mpc,        \* the master: "spawn", "pass", "suspend", "dead"
    attempt,    \* i of stu_process_start_worker_processes
    failed,     \* how many spawns have failed
    slot,       \* stu_process_slot of the master and of each worker
    lasts,      \* stu_process_last of each
    fds,        \* the stu_filedes_t that is passed
    to,         \* i of stu_process_pass_open_filedes
    table,      \* stu_processes of each
    open,       \* the sockets that are open in each process
    queue,      \* what was sent to a worker and is not read yet
    lost,       \* <<w, v>>: sendmsg did not take the message about v to w
    polled,     \* the sockets that are in the epoll instance
    ready,      \* the sockets with an event to report
    wpc         \* a worker: "none", "init", "wait", "read", "closed"

vars == <<mpc, attempt, failed, slot, lasts, fds, to, table, open, queue, lost, polled, ready, wpc>>

\* stu_process_t.
Entry == [pid : Processes, out : Processes, in : Processes, state : {0, 1}]

Unused == [pid |-> None, out |-> None, in |-> None, state |-> 0]

Init ==
    /\ mpc = "spawn" /\ attempt = 0 /\ failed = 0
    /\ slot = [p \in Processes |-> 0]
    /\ lasts = [p \in Processes |-> 0]
    /\ fds = [pid |-> None, slot |-> 0, fd |-> None]
    /\ to = 0
    /\ table = [p \in Processes |-> [s \in Indices |-> Unused]]
    /\ open = [p \in Processes |-> {}]
    /\ queue = [w \in Workers |-> <<>>] /\ lost = {}
    /\ polled = {} /\ ready = {}
    /\ wpc = [w \in Workers |-> "none"]

-----------------------------------------------------------------------------
\* The first unused slot; the one after the last when there is none.
FreeSlot ==
    LET last == lasts[Master]
        unused == {s \in 0 .. last - 1 : table[Master][s].state = 0}
    IN  IF unused = {} THEN last ELSE CHOOSE s \in unused : \A t \in unused : s <= t

\* A faulty variant: the workers are numbered as they are started.
NamedByAttempt(slots, tables) ==
    [pid |-> tables[Master][slots[Master]].pid, slot |-> attempt % Maximum,
     fd |-> tables[Master][slots[Master]].out]

\* What is passed after a spawn, whether it succeeded or not.
Named(slots, tables) ==
    [pid |-> tables[Master][slots[Master]].pid, slot |-> slots[Master],
     fd |-> tables[Master][slots[Master]].out]

Passing ==
    /\ attempt' = attempt + 1
    /\ fds' = Named(slot', table')
    /\ to' = 0
    /\ mpc' = "pass"

\* A worker is forked before the master fills in pid and state.
Spawn ==
    LET s == FreeSlot
        w == attempt + 1
        paired == [table[Master] EXCEPT ![s].out = w, ![s].in = w]
    IN  /\ mpc = "spawn" /\ attempt < Attempts /\ s < Maximum
        /\ slot' = [slot EXCEPT ![Master] = s, ![w] = s]
        /\ table' = [table EXCEPT ![w] = paired,
                                  ![Master] = [paired EXCEPT ![s].pid = w, ![s].state = 1]]
        /\ lasts' = [lasts EXCEPT ![w] = lasts[Master],
                                  ![Master] = IF s = @ THEN @ + 1 ELSE @]
        /\ open' = [open EXCEPT ![Master] = @ \union {<<w, 0>>, <<w, 1>>},
                                ![w] = open[Master] \union {<<w, 0>>, <<w, 1>>}]
        /\ wpc' = [wpc EXCEPT ![w] = "init"]
        /\ Passing
        /\ UNCHANGED <<failed, queue, lost, polled, ready>>

\* There is no slot, or socketpair fails; the result of spawn is not looked at.
SpawnFails ==
    /\ mpc = "spawn" /\ attempt < Attempts
    /\ FreeSlot < Maximum => failed < Failures
    /\ failed' = IF FreeSlot < Maximum THEN failed + 1 ELSE failed
    /\ UNCHANGED <<slot, table>>
    /\ Passing
    /\ UNCHANGED <<lasts, open, queue, lost, polled, ready, wpc>>

\* fcntl fails, or fork, which comes when the slot is stu_process_slot already:
\* the sockets are closed again and stay in the table.
SetupFails(forking) ==
    /\ mpc = "spawn" /\ attempt < Attempts /\ FreeSlot < Maximum
    /\ failed < Failures
    /\ failed' = failed + 1
    /\ slot' = [slot EXCEPT ![Master] = IF forking THEN FreeSlot ELSE @]
    /\ table' = [table EXCEPT ![Master][FreeSlot].out = attempt + 1, ![Master][FreeSlot].in = attempt + 1]
    /\ Passing
    /\ UNCHANGED <<lasts, open, queue, lost, polled, ready, wpc>>

\* A faulty variant: only to later workers.
ReceivesLater(s) == s > slot[Master] /\ table[Master][s].state = 1 /\ table[Master][s].out # None

Receives(s) == s # slot[Master] /\ table[Master][s].state = 1 /\ table[Master][s].out # None

\* stu_filedes_write sends a descriptor that is open.
PassOne ==
    LET w == table[Master][to].out
    IN  /\ mpc = "pass" /\ to < lasts[Master]
        /\ IF Receives(to) /\ <<fds.fd, 0>> \in open[Master]
           THEN /\ queue' = [queue EXCEPT ![w] = Append(@, fds)]
                /\ ready' = ready \union ({w} \intersect polled)
           ELSE UNCHANGED <<queue, ready>>
        /\ to' = to + 1
        /\ UNCHANGED <<mpc, attempt, failed, slot, lasts, fds, table, open, lost, polled, wpc>>

\* EAGAIN: the buffer is full of what w has not read.  The result is not looked at.
PassLost ==
    LET w == table[Master][to].out
    IN  /\ mpc = "pass" /\ to < lasts[Master]
        /\ Receives(to) /\ <<fds.fd, 0>> \in open[Master]
        /\ Len(queue[w]) >= Room
        /\ lost' = lost \union {<<w, fds.pid>>}
        /\ to' = to + 1
        /\ UNCHANGED <<mpc, attempt, failed, slot, lasts, fds, table, open, queue, polled, ready, wpc>>

PassDone ==
    /\ mpc = "pass" /\ to = lasts[Master]
    /\ mpc' = IF attempt < Attempts THEN "spawn" ELSE "suspend"
    /\ UNCHANGED <<attempt, failed, slot, lasts, fds, to, table, open, queue, lost, polled, ready, wpc>>

-----------------------------------------------------------------------------
\* Somebody may still send to w: a process, or a descriptor that is under way.
Held(w, opened) ==
    \/ \E p \in Processes : <<w, 0>> \in opened[p]
    \/ \E v \in Workers : \E i \in DOMAIN queue[v] : queue[v][i].fd = w

\* The sockets in the epoll instance that nobody holds any more.
LetGo(polls) == {w \in polls : Held(w, open) /\ ~ Held(w, open')}

\* A signal ends the master; a socket that nobody can send to any more is reported.
MasterDies ==
    /\ mpc # "dead"
    /\ mpc' = "dead"
    /\ open' = [open EXCEPT ![Master] = {}]
    /\ ready' = ready \union LetGo(polled)
    /\ UNCHANGED <<attempt, failed, slot, lasts, fds, to, table, queue, lost, polled, wpc>>

-----------------------------------------------------------------------------
\* A faulty variant: the first slot is taken for one's own.
OthersButFirst(w) == {s \in 1 .. lasts[w] - 1 : s # slot[w]}

\* The slots whose receiving end a worker closes.
Others(w) == {s \in 0 .. lasts[w] - 1 : s # slot[w]}

\* stu_filedes_add_event.
Polls(w) == polled \union {w}

\* stu_process_worker_init: the sockets of others that are of no use here are
\* closed; what has been sent by now is reported at once.
WorkerInit(w) ==
    /\ wpc[w] = "init"
    /\ open' = [open EXCEPT ![w] =
                   @ \ ({<<table[w][s].in, 1>> : s \in Others(w)} \union {<<w, 0>>})]
    /\ polled' = Polls(w)
    /\ ready' = ready \union (IF queue[w] # <<>> THEN {w} ELSE {}) \union LetGo(polled')
    /\ wpc' = [wpc EXCEPT ![w] = "wait"]
    /\ UNCHANGED <<mpc, attempt, failed, slot, lasts, fds, to, table, queue, lost>>

\* epoll_wait reports, once, to a worker that waits; one that has closed its own
\* connection does nothing.
Deliver(v, w) ==
    /\ v \in ready
    /\ wpc[w] \in {"wait", "closed"}
    /\ ready' = ready \ {v}
    /\ wpc' = [wpc EXCEPT ![w] = IF @ = "wait" THEN "read" ELSE @]
    /\ UNCHANGED <<mpc, attempt, failed, slot, lasts, fds, to, table, open, queue, lost, polled>>

\* stu_process_filedes_handler: STU_CMD_OPEN_FILEDES.
ReadOpen(w) ==
    LET m == Head(queue[w])
    IN  /\ wpc[w] = "read" /\ queue[w] # <<>>
        /\ queue' = [queue EXCEPT ![w] = Tail(@)]
        /\ table' = [table EXCEPT ![w][m.slot].pid = m.pid, ![w][m.slot].out = m.fd]
        /\ open' = [open EXCEPT ![w] = @ \union {<<m.fd, 0>>}]
        /\ UNCHANGED <<mpc, attempt, failed, slot, lasts, fds, to, lost, polled, ready, wpc>>

\* A faulty variant: EAGAIN is an error.
FailsAlways(w) == TRUE

\* stu_filedes_read: zero bytes are an error, EAGAIN is not.
Fails(w) == ~ Held(w, open)

\* A faulty variant: the event is not deleted.
StillPolled(w) == polled

\* stu_event_del and the close of the socket.
Unpolled(w) == polled \ {w}

\* STU_AGAIN; or nobody is left to send, and the connection is closed.
ReadNothing(w) ==
    /\ wpc[w] = "read" /\ queue[w] = <<>>
    /\ IF Fails(w)
       THEN /\ wpc' = [wpc EXCEPT ![w] = "closed"]
            /\ open' = [open EXCEPT ![w] = @ \ {<<w, 1>>}]
            /\ polled' = Unpolled(w) /\ ready' = ready \ {w}
       ELSE wpc' = [wpc EXCEPT ![w] = "wait"] /\ UNCHANGED <<open, polled, ready>>
    /\ UNCHANGED <<mpc, attempt, failed, slot, lasts, fds, to, table, queue, lost>>

-----------------------------------------------------------------------------
MasterSteps == Spawn \/ SpawnFails \/ SetupFails(TRUE) \/ SetupFails(FALSE)
               \/ PassOne \/ PassLost \/ PassDone

WorkerSteps(w) == WorkerInit(w) \/ (\E v \in Workers : Deliver(v, w)) \/ ReadOpen(w) \/ ReadNothing(w)

Next == MasterSteps \/ MasterDies \/ \E w \in Workers : WorkerSteps(w)

Spec == Init /\ [][Next]_vars

-----------------------------------------------------------------------------
(* Properties.                                                             *)

\* The variables have their types; a worker is in the epoll instance while it
\* reads its socket.
TypeOK ==
    /\ mpc \in {"spawn", "pass", "suspend", "dead"}
    /\ attempt \in 0 .. Attempts /\ failed \in 0 .. Failures
    /\ slot \in [Processes -> Indices] /\ lasts \in [Processes -> 0 .. Maximum]
    /\ table \in [Processes -> [Indices -> Entry]]
    /\ lost \subseteq Workers \X Workers
    /\ ready \subseteq polled
    /\ polled = {w \in Workers : wpc[w] \in {"wait", "read"}}

Started(w) == wpc[w] # "none"
Running(w) == wpc[w] \in {"wait", "read"}

\* What a worker knows of another is right, also after spawns that failed: in a
\* slot is the pid of the worker there, with a descriptor that sends to it.
KnownRight ==
    \A w \in Workers : \A s \in Indices :
        Running(w) /\ s # slot[w] /\ table[w][s].pid # None =>
            LET v == table[w][s].pid
            IN  Started(v) /\ slot[v] = s /\ table[w][s].out = v /\ <<v, 0>> \in open[w]

\* Inherited from the master or received, no other worker is missing once the
\* messages have been read, but one that a full buffer did not take.
KnowsAll ==
    \A w \in Workers :
        mpc = "suspend" /\ Running(w) /\ queue[w] = <<>> =>
            \A v \in Workers \ {w} : Started(v) /\ <<w, v>> \notin lost => table[w][slot[v]].pid = v

\* Nobody else can take a worker's messages, but for the master, which never reads.
ReadEndPrivate ==
    \A v, w \in Workers : v # w /\ Running(w) => <<v, 1>> \notin open[w]

\* A worker gives its socket up only when the master has gone.
ClosedAfterMaster == \A w \in Workers : wpc[w] = "closed" => mpc = "dead"

\* All of it, within the types: what workers know is right and complete, however the
\* spawns of the master, the messages and their reading interleave.
WorkersAgree == TypeOK /\ KnownRight /\ KnowsAll /\ ReadEndPrivate /\ ClosedAfterMaster
=============================================================================
