------------------------------- MODULE Timers -------------------------------
(***************************************************************************)
(* The timers and the loop of the worker threads around epoll_wait.  The   *)
(* tree is the set of TimerSet (RbTree shows that it is one).  Time goes   *)
(* on modulo 2^Width; stu_current_msec is a cached copy that a thread      *)
(* brings up to date when it wakes up.                                     *)
(*                                                                         *)
(* A timer of Users is armed again by its own handler, with timer_lock     *)
(* held; one of Status by the response to the request that its handler     *)
(* sends, without the lock.  Such an unlocked change of the tree while     *)
(* another thread is at the tree ends the behaviour: torn.                 *)
(*                                                                         *)
(* The operators that follow "A faulty variant" are not used by Spec: each *)
(* is a plausible mistake in the definition after it.                      *)
(***************************************************************************)
EXTENDS TimerSet, FiniteSets

CONSTANTS
    Threads,
    Users, Status,  \* the two kinds of timers
    Interval,       \* push_users_interval, push_status_interval
    Lazy,           \* STU_TIMER_LAZY_DELAY
    Clients,        \* clients send something now and then
    MaxLag,         \* bound: how long threads run between two updates of time
    NoThread, NoTimer

Forever == -1

ASSUME TimersAssumption ==
    /\ Timers = Users \union Status /\ Users \intersect Status = {}
    /\ NoThread \notin Threads /\ NoTimer \notin Timers
    /\ Interval \in [Timers -> 1 .. Modulus \div 4]
    /\ MaxLag \in 1 .. Modulus \div 4 /\ Lazy \in Nat /\ Clients \in BOOLEAN

VARIABLES
    time,       \* what gettimeofday would say
    now,        \* stu_current_msec
    lock,       \* timer_lock
    boot,       \* timers that the main thread has yet to add
    awaiting,   \* status timers whose response is on its way
    pc, left, before, cur,  \* a thread: where, its timeout, delta, its timer (reset after use)
    seen,       \* a thread has looked since the main thread added the last timer
    wanted,     \* how long an armed timer has yet to wait
    torn

vars == <<armed, time, now, lock, boot, awaiting, pc, left, before, cur, seen, wanted, torn>>

\* The threads are started before stu_channel_add_timers.
Init ==
    /\ SetInit
    /\ time = 0 /\ now = 0
    /\ lock = NoThread
    /\ boot = Timers
    /\ awaiting = {}
    /\ pc = [t \in Threads |-> "find"]
    /\ left = [t \in Threads |-> 0]
    /\ before = [t \in Threads |-> 0]
    /\ cur = [t \in Threads |-> NoTimer]
    /\ seen = FALSE
    /\ wanted = [n \in Timers |-> 0]
    /\ torn = FALSE

Goto(t, from, to) == pc[t] = from /\ pc' = [pc EXCEPT ![t] = to]
Lag == (time - now) % Modulus

-----------------------------------------------------------------------------
(* The tree.                                                               *)

\* The key of the leftmost node.
First == CHOOSE k \in Keys : \E n \in Earliest(armed) : armed[n] = k

\* A faulty variant: the sum is kept in a wider type.
KeyWide(n) == now + Interval[n]

\* stu_current_msec + timer.
Key(n) == (now + Interval[n]) % Modulus

\* stu_timer_add_locked: a timer that is set keeps a key that is near enough.
Arm(n) ==
    LET near == n \in DOMAIN armed /\ Signed(Key(n), armed[n]) \in 1 - Lazy .. Lazy - 1
    IN  /\ armed' = IF near THEN armed ELSE With(armed, n, Key(n))
        /\ wanted' = [wanted EXCEPT ![n] = IF Interval[n] > Lag THEN Interval[n] - Lag ELSE 0]

\* Another thread may be in the middle of an insertion without the lock.
Beside(t) == \E o \in Threads \ {t} : pc[o] = "handle" /\ cur[o] # NoTimer

\* The main thread, stu_channel_add_timers.
MainAdd(n) ==
    /\ n \in boot /\ lock = NoThread
    /\ Arm(n)
    /\ boot' = boot \ {n}
    /\ torn' \in {FALSE, Beside(NoThread)}
    /\ UNCHANGED <<time, now, lock, awaiting, pc, left, before, cur, seen>>

-----------------------------------------------------------------------------
(* stu_event_process_events_and_timers.                                    *)

\* A faulty variant: no lower bound; epoll_wait takes a negative timeout for none.
UntilUnclamped(k) == IF Signed(k, now) >= 0 THEN Signed(k, now) ELSE Forever

\* How long to wait for a key.
Until(k) == IF Signed(k, now) > 0 THEN Signed(k, now) ELSE 0

\* stu_timer_find.
Find(t) ==
    /\ lock = NoThread
    /\ Goto(t, "find", "capture")
    /\ left' = [left EXCEPT ![t] = IF DOMAIN armed = {} THEN Forever ELSE Until(First)]
    /\ seen' = (seen \/ boot = {})
    /\ torn' \in {FALSE, Beside(t)}
    /\ UNCHANGED <<armed, time, now, lock, boot, awaiting, before, cur, wanted>>

\* delta = stu_current_msec, and epoll_wait begins.
Capture(t) ==
    /\ Goto(t, "capture", "wait")
    /\ before' = [before EXCEPT ![t] = now]
    /\ UNCHANGED <<armed, time, now, lock, boot, awaiting, left, cur, seen, wanted, torn>>

\* epoll_wait returns: the time is over, ...
TimedOut(t) ==
    /\ Goto(t, "wait", "update")
    /\ left[t] = 0
    /\ UNCHANGED <<armed, time, now, lock, boot, awaiting, left, before, cur, seen, wanted, torn>>

\* ... or a client has sent something, ...
ClientWakes(t) ==
    /\ Clients
    /\ Goto(t, "wait", "update")
    /\ left' = [left EXCEPT ![t] = 0]
    /\ UNCHANGED <<armed, time, now, lock, boot, awaiting, before, cur, seen, wanted, torn>>

\* ... or the server that was sent the status has answered.
ResponseWakes(t, n) ==
    /\ Goto(t, "wait", "update")
    /\ n \in awaiting
    /\ awaiting' = awaiting \ {n}
    /\ cur' = [cur EXCEPT ![t] = n]
    /\ left' = [left EXCEPT ![t] = 0]
    /\ UNCHANGED <<armed, time, now, lock, boot, before, seen, wanted, torn>>

\* stu_time_update: nothing is done when another thread is at it.
TryUpdate(t) ==
    /\ Goto(t, "update", IF \E o \in Threads : pc[o] = "stamp" THEN "handle" ELSE "stamp")
    /\ UNCHANGED <<armed, time, now, lock, boot, awaiting, left, before, cur, seen, wanted, torn>>

Stamp(t) ==
    /\ Goto(t, "stamp", "handle")
    /\ now' = time
    /\ UNCHANGED <<armed, time, lock, boot, awaiting, left, before, cur, seen, wanted, torn>>

\* The event's handler; that of a response arms the timer without the lock.
Handle(t) ==
    /\ Goto(t, "handle", "check")
    /\ IF cur[t] = NoTimer THEN UNCHANGED <<armed, wanted>> ELSE Arm(cur[t])
    /\ torn' \in IF cur[t] = NoTimer THEN {FALSE} ELSE {lock # NoThread, lock # NoThread \/ Beside(t)}
    /\ cur' = [cur EXCEPT ![t] = NoTimer]
    /\ UNCHANGED <<time, now, lock, boot, awaiting, left, before, seen>>

\* A faulty variant: one millisecond is not worth looking.
DeltaCoarse(t) == (now - before[t]) % Modulus > 1

Delta(t) == now # before[t]

\* if (delta) stu_timer_expire();
Check(t) ==
    /\ Goto(t, "check", IF Delta(t) THEN "expire" ELSE "find")
    /\ before' = [before EXCEPT ![t] = 0]
    /\ UNCHANGED <<armed, time, now, lock, boot, awaiting, left, cur, seen, wanted, torn>>

-----------------------------------------------------------------------------
(* stu_timer_expire.                                                       *)

ExpireLock(t) ==
    /\ lock = NoThread
    /\ Goto(t, "expire", "loop")
    /\ lock' = t
    /\ UNCHANGED <<armed, time, now, boot, awaiting, left, before, cur, seen, wanted, torn>>

\* A faulty variant: compare the keys without regard to the wraparound.
DueByValue(k) == k <= now

\* A faulty variant: a timer that was missed is not fired any more.
DueExactly(k) == k = now

\* node->key - stu_current_msec is not positive.
Due(k) == Signed(k, now) <= 0

\* The earliest timer is due: it leaves the tree, and its handler is called.
Fire(t, n) ==
    /\ n \in Earliest(armed) /\ Due(armed[n])
    /\ Goto(t, "loop", "handler")
    /\ armed' = Without(armed, n)
    /\ cur' = [cur EXCEPT ![t] = n]
    /\ UNCHANGED <<time, now, lock, boot, awaiting, left, before, seen, wanted, torn>>

\* stu_channel_push_users_handler ends with stu_timer_add_locked.
UsersHandler(t) ==
    /\ cur[t] \in Users
    /\ Goto(t, "handler", "loop")
    /\ Arm(cur[t])
    /\ cur' = [cur EXCEPT ![t] = NoTimer]
    /\ UNCHANGED <<time, now, lock, boot, awaiting, left, before, seen, torn>>

\* stu_channel_push_status_handler sends a request; the server will answer.
StatusHandler(t) ==
    /\ cur[t] \in Status
    /\ Goto(t, "handler", "loop")
    /\ awaiting' = awaiting \union {cur[t]}
    /\ cur' = [cur EXCEPT ![t] = NoTimer]
    /\ UNCHANGED <<armed, time, now, lock, boot, left, before, seen, wanted, torn>>

ExpireDone(t) ==
    /\ ~ \E n \in Earliest(armed) : Due(armed[n])
    /\ Goto(t, "loop", "find")
    /\ lock' = NoThread
    /\ UNCHANGED <<armed, time, now, boot, awaiting, left, before, cur, seen, wanted, torn>>

-----------------------------------------------------------------------------
Waits(t) == pc[t] = "wait"

\* A millisecond goes by.  Threads do not run, or oversleep, for longer than
\* MaxLag before one of them reads the clock.
Tick ==
    /\ \/ Lag < MaxLag
       \/ (\A t \in Threads : Waits(t) /\ left[t] # 0) /\ \E t \in Threads : left[t] # Forever
    /\ time' = (time + 1) % Modulus
    /\ left' = [t \in Threads |-> IF Waits(t) /\ left[t] > 0 THEN left[t] - 1 ELSE left[t]]
    /\ wanted' = [n \in Timers |-> IF wanted[n] > 0 THEN wanted[n] - 1 ELSE 0]
    /\ UNCHANGED <<armed, now, lock, boot, awaiting, pc, before, cur, seen, torn>>

\* What a thread does by itself.
Run(t) ==
    \/ Find(t) \/ Capture(t) \/ TimedOut(t) \/ TryUpdate(t) \/ Stamp(t) \/ Handle(t) \/ Check(t)
    \/ ExpireLock(t) \/ (\E n \in Timers : Fire(t, n)) \/ UsersHandler(t)
    \/ StatusHandler(t) \/ ExpireDone(t)

Respond(n) == \E t \in Threads : ResponseWakes(t, n)

Next ==
    /\ ~ torn
    /\ \/ \E t \in Threads : Run(t) \/ ClientWakes(t)
       \/ \E n \in Timers : MainAdd(n) \/ Respond(n)
       \/ Tick

Spec == Init /\ [][Next]_vars

\* Threads and time go on and servers answer; clients need not send anything.
FairSpec ==
    /\ Spec
    /\ \A t \in Threads : SF_vars(~ torn /\ Run(t))
    /\ \A n \in Timers : SF_vars(~ torn /\ MainAdd(n)) /\ SF_vars(~ torn /\ Respond(n))
    /\ SF_vars(~ torn /\ Tick)

-----------------------------------------------------------------------------
(* Properties.                                                             *)

TypeOK ==
    /\ DOMAIN armed \subseteq Timers /\ \A n \in DOMAIN armed : armed[n] \in Keys
    /\ {time, now} \subseteq Keys
    /\ lock \in Threads \union {NoThread}
    /\ boot \subseteq Timers
    /\ awaiting \subseteq Status
    /\ pc \in [Threads -> {"find", "capture", "wait", "update", "stamp", "handle", "check", "expire",
                           "loop", "handler"}]
    /\ left \in [Threads -> Keys \union {Forever}]
    /\ before \in [Threads -> Keys]
    /\ cur \in [Threads -> Timers \union {NoTimer}]
    /\ seen \in BOOLEAN
    /\ wanted \in [Timers -> Keys]
    /\ torn \in BOOLEAN

\* No handler of a timer is called before its interval has gone by since the
\* clock reading it was armed with, across the wraparound of the clock.
NotEarly == \A t \in Threads : pc[t] = "handler" => wanted[cur[t]] = 0

\* The keys in the tree stay close enough together for their order to mean
\* anything, however late the threads are.
KeysComparable == Spread(armed)

\* Once a thread has looked after the start, the threads never all sleep past the
\* earliest one: one of them wakes up for it, late by no more than the lag.
SomeoneWakes ==
    seen /\ DOMAIN armed # {} /\ (\A t \in Threads : Waits(t)) =>
        \E t \in Threads :
            /\ left[t] # Forever
            /\ left[t] <= MaxLag + IF Signed(First, time) > 0 THEN Signed(First, time) ELSE 0

\* The threads are not so late that the order of the keys gets lost: a timer may be overdue
\* by one interval, and by MaxLag for each time that a thread has read the clock since; a
\* thread reads it twice at most before it looks at the timers.
LagBound ==
    /\ IsFiniteSet(Threads)
    /\ \E i \in 1 .. Modulus :
          /\ \A n \in Timers : Interval[n] <= i
          /\ 2 * (Cardinality(Threads) * MaxLag + i) <= Modulus \div 2

\* Both, within the types: the order by which stu_event_expire_timers stops at the
\* first timer that is not due means something, and it is looked at in time.
Punctual == TypeOK /\ KeysComparable /\ SomeoneWakes

\* Once a thread has looked after the start, an armed timer fires, without any
\* help of clients.
Fires == \A n \in Timers : (seen /\ n \in DOMAIN armed) ~> (n \notin DOMAIN armed \/ torn)
=============================================================================
