------------------------------ MODULE ChatRooms ------------------------------
(***************************************************************************)
(* What the channels of a worker promise, without threads, mutexes or      *)
(* memory: rooms with members.  A connection joins one room, once, and     *)
(* once it left it is in no room again.  The room exists while it has      *)
(* members: leaving or joining never changes who else is in a room.        *)
(*                                                                         *)
(* The exception are connections whose requests are read as upgrades again *)
(* although they are members: they may join further rooms, and stay in one *)
(* that they join or leave a second time.                                  *)
(***************************************************************************)
CONSTANTS Rooms, People

VARIABLES
    member,  \* member[i]: who is in room i
    left,    \* who has left
    again    \* members whose requests may be read as upgrades again

Outside == People \ (left \cup UNION {member[i] : i \in Rooms})

Init ==
    /\ member = [i \in Rooms |-> {}]
    /\ left = {}
    /\ again = {}

\* A member that has not left is from now on heard as if it were none.
Mistake(p) ==
    /\ p \in UNION {member[i] : i \in Rooms}
    /\ again' = again \cup {p}
    /\ UNCHANGED <<member, left>>

Join(p, i) ==
    /\ p \in Outside \cup (again \ left)
    /\ member' = [member EXCEPT ![i] = @ \cup {p}]
    /\ UNCHANGED <<left, again>>

Leave(p, i) ==
    /\ p \in member[i]
    /\ member' = [member EXCEPT ![i] = @ \ {p}]
    /\ left' = left \cup
                 {q \in {p} : \A j \in Rooms \ {i} : q \notin member[j]}
    /\ UNCHANGED again

Next ==
    \E p \in People :
        Mistake(p) \/ \E i \in Rooms : Join(p, i) \/ Leave(p, i)

Spec == Init /\ [][Next]_<<member, left, again>>
=============================================================================
