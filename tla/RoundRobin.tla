----------------------------- MODULE RoundRobin -----------------------------
(***************************************************************************)
(* The weighted round robin of stu_upstream_create and stu_upstream_next.  *)
(* The head of an upstream's list holds the cursor, elts.obj, and how much *)
(* of the current server's weight is used, elts.size.  Threads read and    *)
(* write both without a lock: every read and every write is a step, and    *)
(* size++ is two of them.  A server is its position in the list.           *)
(*                                                                         *)
(* The operators that follow "A faulty variant" are not used by Spec: each *)
(* is a plausible mistake in the definition after it.                      *)
(***************************************************************************)
EXTENDS Naturals, Sequences

CONSTANTS
    Threads,
    Weight,         \* the weights, in the order of the list
    MaxPicks,       \* bound: how many servers are chosen before threads stop
    MaxSize         \* bound: elts.size, which races may drive up

Servers == DOMAIN Weight

RoundRobinAssumption ==
    /\ Weight \in Seq(Nat) /\ Weight # << >>
    /\ {MaxPicks, MaxSize} \subseteq Nat

VARIABLES
    obj,        \* elts.obj; 0 is NULL
    size,       \* elts.size
    picks,      \* the servers chosen so far
    pc, e, used \* a thread: where it is, its server, what size++ has read

vars == <<obj, size, picks, pc, e, used>>

\* stu_list_init.
Init ==
    /\ obj = 0
    /\ size = 0
    /\ picks = << >>
    /\ pc = [t \in Threads |-> "idle"]
    /\ e = [t \in Threads |-> 1]
    /\ used = [t \in Threads |-> 0]

Goto(t, from, to) == pc[t] = from /\ pc' = [pc EXCEPT ![t] = to]

\* A request reads the cursor; when there is none it begins with the head.
ReadCursor(t) ==
    /\ Len(picks) < MaxPicks
    /\ Goto(t, "idle", IF obj = 0 THEN "first" ELSE "read")
    /\ e' = [e EXCEPT ![t] = IF obj = 0 THEN 1 ELSE obj]
    /\ UNCHANGED <<obj, size, picks, used>>

\* elts.obj = e, for the first server and for every next one.
SetCursor(t) ==
    /\ pc[t] \in {"first", "next"}
    /\ pc' = [pc EXCEPT ![t] = "reset"]
    /\ obj' = e[t]
    /\ UNCHANGED <<size, picks, e, used>>

\* A faulty variant: begin with the weight, as if it were counted down.
ResetToWeight(t) ==
    /\ Goto(t, "reset", "read")
    /\ size' = Weight[e[t]]
    /\ UNCHANGED <<obj, picks, e, used>>

\* elts.size = 0.
ResetSize(t) ==
    /\ Goto(t, "reset", "read")
    /\ size' = 0
    /\ UNCHANGED <<obj, picks, e, used>>

\* size++ reads ...
ReadSize(t) ==
    /\ Goto(t, "read", "write")
    /\ used' = [used EXCEPT ![t] = size]
    /\ UNCHANGED <<obj, size, picks, e>>

\* ... and writes.
WriteSize(t) ==
    /\ used[t] < MaxSize
    /\ Goto(t, "write", "test")
    /\ size' = used[t] + 1
    /\ UNCHANGED <<obj, picks, e, used>>

\* A faulty variant: one more than the weight.
UsedUpLate(t) == used[t] > Weight[e[t]]

\* The condition of the loop.
UsedUp(t) == used[t] >= Weight[e[t]]

\* Faulty variants: run into the sentinel, or stop at the end of the list.
NextPastEnd(i) == i + 1

NextStays(i) == IF i = Len(Weight) THEN i ELSE i + 1

\* stu_queue_next, from the last element round to the head.
NextServer(i) == IF i = Len(Weight) THEN 1 ELSE i + 1

\* The weight is used up: go on with the next server.
Advance(t) ==
    /\ UsedUp(t)
    /\ Goto(t, "test", "next")
    /\ e' = [e EXCEPT ![t] = NextServer(@)]
    /\ UNCHANGED <<obj, size, picks, used>>

\* u->server = s.
Pick(t) ==
    /\ ~ UsedUp(t)
    /\ Goto(t, "test", "idle")
    /\ picks' = Append(picks, e[t])
    /\ UNCHANGED <<obj, size, e, used>>

Choose(t) ==
    \/ SetCursor(t) \/ ResetSize(t) \/ ReadSize(t) \/ WriteSize(t)
    \/ Advance(t) \/ Pick(t)

Next == \E t \in Threads : ReadCursor(t) \/ Choose(t)

Spec == Init /\ [][Next]_vars

\* A thread that has begun goes on.
Fairness == \A t \in Threads : WF_vars(Choose(t))

FairSpec == Spec /\ Fairness

-----------------------------------------------------------------------------
(* Properties.                                                             *)

TypeOK ==
    /\ obj \in Servers \union {0}
    /\ size \in Nat
    /\ picks \in Seq(Servers)
    /\ pc \in [Threads -> {"idle", "first", "next", "reset", "read", "write", "test"}]
    /\ e \in [Threads -> Servers]
    /\ used \in [Threads -> Nat]

\* Whatever the races do to the cursor, a server of weight 0 gets no request.
NeverZero == \A i \in DOMAIN picks : Weight[picks[i]] > 0

\* The servers in the order of their weights: the first weight many requests
\* go to the first server, and so on, and then from the beginning.
UpTo[i \in 0 .. Len(Weight)] == IF i = 0 THEN 0 ELSE UpTo[i - 1] + Weight[i]

Before(s) == UpTo[s - 1]

Total == Before(Len(Weight) + 1)

Turn(n) == CHOOSE s \in Servers : n % Total \in Before(s) .. Before(s) + Weight[s] - 1

\* With one thread every request goes to the server whose turn it is, so that
\* of any Total requests in a row each server gets exactly its weight.
ExactlyWeighted == \A n \in DOMAIN picks : picks[n] = Turn(n - 1)

\* Both, within the types: with one thread the choices are exactly the cycle.
ByWeight == TypeOK /\ NeverZero /\ ((\A t, o \in Threads : t = o) => ExactlyWeighted)

\* A thread that looks for a server finds one, as long as one has a weight.
Found == \A t \in Threads : (pc[t] # "idle") ~> (pc[t] = "idle")
=============================================================================
