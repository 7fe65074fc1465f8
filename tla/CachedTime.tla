----------------------------- MODULE CachedTime -----------------------------
(***************************************************************************)
(* The cached time: threads update it in a ring of slots under a lock they *)
(* only try to take, and read the text of the current slot, for the log,   *)
(* without one.  Time is counted in seconds; the text of a time has two    *)
(* parts, which are written and copied one after the other.                *)
(*                                                                         *)
(* The operators that follow "A faulty variant" are not used by Spec: each *)
(* is a plausible mistake in the definition after it.                      *)
(***************************************************************************)
EXTENDS Naturals

CONSTANTS
    Threads,
    Slots,      \* STU_TIME_SLOTS
    MaxNow      \* bound: the clock

SlotsAssumption == Slots \in Nat /\ Slots > 1

Free == "free"
FreeAssumption == Free \notin Threads

VARIABLES
    now,        \* gettimeofday
    lock,       \* stu_time_lock
    slot,
    secs,       \* cached_time[].sec
    text,       \* cached_log_time[]: of which second is each part
    cur,        \* the slot stu_cached_log_time.data points into
    pc,         \* of each thread
    sec,        \* the local variable of stu_time_update
    copy,       \* what the thread has copied
    since       \* when it began to copy, from which slot, and of which second

vars == <<now, lock, slot, secs, text, cur, pc, sec, copy, since>>

Indices == 0 .. Slots - 1

\* stu_time_init has set the time once, in the slot after the first.
Init ==
    /\ now = 1
    /\ lock = Free
    /\ slot = 1 /\ cur = 1
    /\ secs = [i \in Indices |-> IF i = 1 THEN 1 ELSE 0]
    /\ text = [i \in Indices |-> IF i = 1 THEN <<1, 1>> ELSE <<0, 0>>]
    /\ pc = [t \in Threads |-> "idle"]
    /\ sec = [t \in Threads |-> 0]
    /\ copy = [t \in Threads |-> <<0, 0>>]
    /\ since = [t \in Threads |-> [at |-> 0, from |-> 0, of |-> 0]]

Goto(t, l) == pc' = [pc EXCEPT ![t] = l]

Tick ==
    /\ now < MaxNow
    /\ now' = now + 1
    /\ UNCHANGED <<lock, slot, secs, text, cur, pc, sec, copy, since>>

-----------------------------------------------------------------------------
\* A faulty variant: the result of trylock is ignored.
LockAnyway(t) == TRUE

\* stu_mutex_trylock; another thread's update will do.
TryLock(t) == lock = Free

\* A faulty variant: the clock is read before the lock is there, seconds ago.
TimeRead2Ago(t) == IF now > 2 THEN now - 2 ELSE now

\* stu_gettimeofday, with the lock held.
TimeRead(t) == now

\* The time has not changed within this second, or a new slot is needed.
Update(t) ==
    /\ pc[t] = "idle" /\ TryLock(t)
    /\ IF secs[slot] = TimeRead(t)
       THEN UNCHANGED <<lock, sec, pc>>
       ELSE lock' = t /\ sec' = [sec EXCEPT ![t] = TimeRead(t)] /\ Goto(t, "advance")
    /\ UNCHANGED <<now, slot, secs, text, cur, copy, since>>

\* A faulty variant: the last slot but one is the last.
NextSlotEarly(s) == IF s = Slots - 2 THEN 0 ELSE s + 1

NextSlot(s) == IF s = Slots - 1 THEN 0 ELSE s + 1

Advance(t) ==
    /\ pc[t] = "advance"
    /\ slot' = NextSlot(slot)
    /\ secs' = [secs EXCEPT ![slot'] = sec[t]]
    /\ Goto(t, "first")
    /\ UNCHANGED <<now, lock, text, cur, sec, copy, since>>

\* A faulty variant: the text is written over the one that is current.
TargetCurrent == cur

\* Where the text is written.
TargetSlot == slot

Write(t, part) ==
    /\ text' = [text EXCEPT ![TargetSlot][part] = sec[t]]
    /\ UNCHANGED <<now, lock, slot, secs, cur, sec, copy, since>>

WriteFirst(t) == pc[t] = "first" /\ Write(t, 1) /\ Goto(t, "second")
WriteSecond(t) == pc[t] = "second" /\ Write(t, 2) /\ Goto(t, "publish")

Publish(t) ==
    /\ pc[t] = "publish"
    /\ cur' = slot
    /\ lock' = Free
    /\ Goto(t, "idle")
    /\ UNCHANGED <<now, slot, secs, text, sec, copy, since>>

-----------------------------------------------------------------------------
\* stu_log_prefix: the pointer, then what it points to.
Log(t) ==
    /\ pc[t] = "idle"
    /\ since' = [since EXCEPT ![t] = [at |-> now, from |-> cur, of |-> secs[cur]]]
    /\ Goto(t, "copy")
    /\ UNCHANGED <<now, lock, slot, secs, text, cur, sec, copy>>

\* What the pointer that was read points to.
Source(t) == since[t].from

CopyFirst(t) ==
    /\ pc[t] = "copy"
    /\ copy' = [copy EXCEPT ![t] = <<text[Source(t)][1], 0>>]
    /\ Goto(t, "copying")
    /\ UNCHANGED <<now, lock, slot, secs, text, cur, sec, since>>

CopySecond(t) ==
    /\ pc[t] = "copying"
    /\ copy' = [copy EXCEPT ![t][2] = text[Source(t)][2]]
    /\ Goto(t, "logged")
    /\ UNCHANGED <<now, lock, slot, secs, text, cur, sec, since>>

Logged(t) ==
    /\ pc[t] = "logged"
    /\ Goto(t, "idle")
    /\ copy' = [copy EXCEPT ![t] = <<0, 0>>]
    /\ since' = [since EXCEPT ![t] = [at |-> 0, from |-> 0, of |-> 0]]
    /\ UNCHANGED <<now, lock, slot, secs, text, cur, sec>>

Next ==
    \/ Tick
    \/ \E t \in Threads :
          \/ Update(t) \/ Advance(t) \/ WriteFirst(t) \/ WriteSecond(t) \/ Publish(t)
          \/ Log(t) \/ CopyFirst(t) \/ CopySecond(t) \/ Logged(t)

Spec == Init /\ [][Next]_vars

-----------------------------------------------------------------------------
(* Properties.                                                             *)

\* The variables have their types, and one thread at a time updates.
TypeOK ==
    /\ now \in Nat /\ lock \in Threads \union {Free}
    /\ slot \in Indices /\ cur \in Indices
    /\ secs \in [Indices -> Nat] /\ text \in [Indices -> Nat \X Nat]
    /\ \A t \in Threads : lock = t <=> pc[t] \in {"advance", "first", "second", "publish"}
    /\ pc \in [Threads -> {"idle", "advance", "first", "second", "publish", "copy", "copying", "logged"}]

\* The text a reader may start to copy is complete, and is of the time of its slot.
Published == text[cur] = <<secs[cur], secs[cur]>>

\* The time that is published never goes back, whichever threads update it.
Forward == secs'[cur'] >= secs[cur]

\* A line of the log carries the time that was current when its writer read the
\* pointer, in one piece, unless its writer slept through almost the whole ring:
\* the slot is written again after Slots - 2 seconds at the earliest, when the
\* pointer was read while an update of the second before was still under way.
Whole ==
    \A t \in Threads :
        pc[t] = "logged" /\ now - since[t].at < Slots - 2
            => copy[t] = <<since[t].of, since[t].of>>

\* All of it, within the types.
TimeRight == [][TypeOK' /\ Published' /\ Whole' /\ Forward]_vars
=============================================================================
