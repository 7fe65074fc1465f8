----------------------------- MODULE MCProgress -----------------------------
(***************************************************************************)
(* Model checking instances under fairness: what upstream requests, the    *)
(* loops of the timers' tree, the choice of a server and the push of the   *)
(* channel's state must come to.  A behaviour runs one of them, which the  *)
(* variable part names; the others stay as they began.  Who may speak is   *)
(* the module that is extended, the others are instances.                  *)
(***************************************************************************)
EXTENDS Speech, Sequences

CONSTANTS NoThread, Null

VARIABLES
    part,
    conn, clock, peer, pstate, heap, armed, reqno, sends, answers,  \* Upstream
    granted, pc, to, tp, tev, attempts, spurious, ub,
    tree, key, op, node, temp,                                      \* RbTree
    obj, size, picks, choosing, e, used                             \* RoundRobin

requestVars == <<conn, clock, peer, pstate, heap, armed, reqno, sends, answers, granted, pc, to, tp,
                 tev, attempts, spurious, ub>>
treeVars    == <<tree, key, op, node, temp>>
cursorVars  == <<obj, size, picks, choosing, e, used>>

-----------------------------------------------------------------------------
\* One thread, a client that may upgrade twice, the status timer, and servers that
\* accept and answer.
Upgrades == INSTANCE Upstream WITH
    Threads <- {"t1"}, Idents <- {"c1"}, Status <- {"s1"}, Peers <- {"p1", "p2"},
    ConnectOutcomes <- {"progress"}, Replies <- {"granted", "denied"}, SendOutcomes <- {"sent"},
    MaxRequests <- 2, MaxAttempts <- 1, MaxSpurious <- 1

\* Five timers whose keys cross the wraparound of four bits, two of them alike.
Tree == INSTANCE RbTree WITH Nodes <- 1 .. 5, Key <- <<14, 15, 15, 0, 1>>, Width <- 4, Nil <- 0

\* One thread and a list that begins with a server of weight 0.
Cursor == INSTANCE RoundRobin WITH
    Threads <- {"t1"}, Weight <- <<0, 3, 1, 2>>, MaxPicks <- 20, MaxSize <- 6, pc <- choosing

ASSUME PartsAssumption == Tree!RbTreeAssumption /\ Cursor!RoundRobinAssumption /\ SpeechAssumption

-----------------------------------------------------------------------------
ProgressInit ==
    /\ part \in {"requests", "tree", "cursor", "talk"}
    /\ Upgrades!Init /\ Tree!Init /\ Cursor!Init
    /\ IF part = "talk" THEN Init ELSE edition = "PREVIEW" /\ Init

RequestsStep ==
    /\ part = "requests" /\ Upgrades!Next
    /\ UNCHANGED <<part, treeVars, cursorVars, vars>>

TreeStep ==
    /\ part = "tree" /\ Tree!Next
    /\ UNCHANGED <<part, requestVars, cursorVars, vars>>

CursorStep ==
    /\ part = "cursor" /\ Cursor!Next
    /\ UNCHANGED <<part, requestVars, treeVars, vars>>

TalkStep ==
    /\ part = "talk" /\ Next
    /\ UNCHANGED <<part, requestVars, treeVars, cursorVars>>

ProgressNext == RequestsStep \/ TreeStep \/ CursorStep \/ TalkStep

\* The fairness of the parts.  A part that does not run has nothing to go on with,
\* but for the push of the channel's state.
ProgressSpec ==
    /\ ProgressInit /\ [][ProgressNext]_<<part, requestVars, treeVars, cursorVars, vars>>
    /\ Upgrades!Fairness
    /\ Tree!Fairness
    /\ Cursor!Fairness
    /\ WF_vars(part = "talk" /\ PushStart)
    /\ WF_vars(part = "talk" /\ PushEnd)

-----------------------------------------------------------------------------
(* Properties, with Allowed and LearnsState of Speech.                     *)

\* Every upgrade request of the enterprise edition is decided, and after every
\* status request the timer is armed for the next.
RequestsEnd == Upgrades!Decided /\ Upgrades!StatusRearmed

\* stu_rbtree_insert and stu_rbtree_delete add and remove just their node: the tree
\* implements a plain set of timers.
ImplementsTimerSet == Tree!ImplementsTimerSet

\* The loops of stu_rbtree_insert and stu_rbtree_delete, and the search of
\* stu_upstream_create for a server, end.
LoopsEnd == Tree!Ends /\ Cursor!Found
=============================================================================
