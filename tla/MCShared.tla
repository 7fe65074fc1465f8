------------------------------ MODULE MCShared ------------------------------
(***************************************************************************)
(* Model checking instances of the structures that threads, connections    *)
(* and processes share: RbTree, Hash, RoundRobin, CachedTime, Processes    *)
(* and Speech.  A behaviour runs one of them, which the variable part      *)
(* names; the others stay as they began.  The processes are those of the   *)
(* module that is extended, the others are instances.                      *)
(***************************************************************************)
EXTENDS Processes, Integers, TLC

CONSTANTS
    Threads,    \* those that update and read the cached time
    Null        \* no element of the hash table

ThreadsAlike == Permutations(Threads)

VARIABLES
    part,
    tree, key, op, node, temp,                                      \* RbTree
    bucket, keys, elt, length, leaked, removing, wild,              \* Hash
    obj, size, picks, choosing, e, used,                            \* RoundRobin
    now, lock, ring, secs, text, cur, pc, sec, copy, since,         \* CachedTime
    edition, clock, stage, user, given, state, pushing, answer,     \* Speech
    saying, told, last, low

treeVars   == <<tree, key, op, node, temp>>
hashVars   == <<bucket, keys, elt, length, leaked, removing, wild>>
cursorVars == <<obj, size, picks, choosing, e, used>>
timeVars   == <<now, lock, ring, secs, text, cur, pc, sec, copy, since>>
speechVars == <<edition, clock, stage, user, given, state, pushing, answer, saying, told, last, low>>

-----------------------------------------------------------------------------
\* Eight timers whose keys cross the wraparound of four bits, some of them twice.
Tree == INSTANCE RbTree WITH Nodes <- 1 .. 8, Key <- <<13, 14, 15, 15, 0, 1, 1, 2>>, Width <- 4, Nil <- 0

\* Names of two cases of one letter, of a letter that falls into the same bucket,
\* and of two letters.
Table == INSTANCE Hash WITH
    Names <- {<<1>>, <<2>>, <<3>>, <<1, 3>>}, Values <- {"v1", "v2"}, Elements <- {"e1", "e2", "e3"},
    Size <- 2, Lower <- <<1, 1, 3>>, Width <- 16, Nil <- Null

\* Two threads and three servers, one of them of weight 0.
Cursor == INSTANCE RoundRobin WITH
    Threads <- {"t1", "t2"}, Weight <- <<2, 0, 1>>, MaxPicks <- 6, MaxSize <- 6, pc <- choosing

\* One thread and a list that begins with a server of weight 0.
Alone == INSTANCE RoundRobin WITH
    Threads <- {"t1"}, Weight <- <<0, 3, 1, 2>>, MaxPicks <- 20, MaxSize <- 6, pc <- choosing

Time == INSTANCE CachedTime WITH Slots <- 4, MaxNow <- 6, slot <- ring

\* A visitor, a normal user, a member of staff and the ranks between; 258 is 2.
Talk == INSTANCE Speech WITH
    Users <- {"u1"}, Editions <- {"PREVIEW", "ENTERPRISE"}, RoleArgs <- {0, 1, 258, 11, 16},
    StateArgs <- {0, 32}, Steps <- {900, 1000}, MaxTime <- 7000, now <- clock

ASSUME PartsAssumption ==
    /\ Tree!RbTreeAssumption /\ Table!HashAssumption
    /\ Cursor!RoundRobinAssumption /\ Alone!RoundRobinAssumption
    /\ Time!SlotsAssumption /\ Time!FreeAssumption
    /\ ProcessesAssumption /\ Talk!SpeechAssumption

-----------------------------------------------------------------------------
SharedInit ==
    /\ part \in {"tree", "table", "cursor", "alone", "time", "workers", "talk"}
    /\ Tree!Init /\ Table!Init /\ Time!Init /\ Init
    /\ IF part = "alone" THEN Alone!Init ELSE Cursor!Init
    /\ IF part = "talk" THEN Talk!Init ELSE edition = "PREVIEW" /\ Talk!Init

TreeStep ==
    /\ part = "tree" /\ Tree!Next
    /\ UNCHANGED <<part, hashVars, cursorVars, timeVars, vars, speechVars>>

TableStep ==
    /\ part = "table" /\ Table!Next
    /\ UNCHANGED <<part, treeVars, cursorVars, timeVars, vars, speechVars>>

CursorStep ==
    /\ \/ part = "cursor" /\ Cursor!Next
       \/ part = "alone" /\ Alone!Next
    /\ UNCHANGED <<part, treeVars, hashVars, timeVars, vars, speechVars>>

TimeStep ==
    /\ part = "time" /\ Time!Next
    /\ UNCHANGED <<part, treeVars, hashVars, cursorVars, vars, speechVars>>

WorkersStep ==
    /\ part = "workers" /\ Next
    /\ UNCHANGED <<part, treeVars, hashVars, cursorVars, timeVars, speechVars>>

TalkStep ==
    /\ part = "talk" /\ Talk!Next
    /\ UNCHANGED <<part, treeVars, hashVars, cursorVars, timeVars, vars>>

SharedNext == TreeStep \/ TableStep \/ CursorStep \/ TimeStep \/ WorkersStep \/ TalkStep

SharedSpec ==
    SharedInit /\ [][SharedNext]_<<part, treeVars, hashVars, cursorVars, timeVars, vars, speechVars>>

-----------------------------------------------------------------------------
(* Properties: those of the part that runs, each with its type invariant,  *)
(* and WorkersAgree of Processes.                                          *)

\* Parents and children of the timers' tree agree also within an insert or delete,
\* between operations it is red-black, and stu_rbtree_min gives an earliest timer
\* across the wraparound of the keys.
RedBlack == part = "tree" => Tree!TypeOK /\ Tree!Linked /\ Tree!Balanced /\ Tree!MinIsEarliest

\* The buckets, the list of keys and the length of stu_hash.c agree, and
\* stu_hash_find finds what was inserted first under exactly its name.
HashConsistent == part = "table" => Table!HashConsistent

\* stu_hash.c implements a plain list of names and values.
ImplementsMultimap == Table!ImplementsMultimap

\* stu_upstream_create, without a lock, never chooses a server of weight 0; with
\* one thread its choices are exactly the weighted cycle.
ByWeight == (part = "cursor" => Cursor!ByWeight) /\ (part = "alone" => Alone!ByWeight)

\* The cached time that readers are pointed to is complete and never goes back; a
\* line of the log has the time at which it was begun, unless its writer slept
\* through almost the whole ring.
TimeRight == Time!TimeRight

\* A user's requests are held apart by the wait of its role, and are refused for
\* no other reason than that.
Spaced == [][part = "talk" => Talk!TypeOK']_speechVars /\ Talk!Spaced
=============================================================================
