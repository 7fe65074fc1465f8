------------------------------- MODULE RbTree -------------------------------
(***************************************************************************)
(* The red-black tree of the timers.  Its users hold timer_lock, so that   *)
(* operations do not overlap; one step is one round of a loop of insert or *)
(* delete.  The tree is kept as the code keeps it: child and parent        *)
(* pointers, a colour, and one sentinel whose parent is scratch memory of  *)
(* delete.  The mirrored halves of the code are one definition with a side.*)
(*                                                                         *)
(* The operators that follow "A faulty variant" are not used by Spec: each *)
(* is a plausible mistake in the definition after it.                      *)
(***************************************************************************)
EXTENDS Integers, FiniteSets

CONSTANTS
    Nodes,
    Key,        \* the key a node is inserted with
    Width,
    Nil         \* the sentinel

RbTreeAssumption == Nil \notin Nodes /\ IsFiniteSet(Nodes)

VARIABLES
    tree,       \* root, kid[side][node], par[node], red[node]
    key,
    op,         \* which loop is running
    node, temp  \* its local variables

vars == <<tree, key, op, node, temp>>

Cells == Nodes \union {Nil}
Sides == {"left", "right"}
Other(d) == IF d = "left" THEN "right" ELSE "left"

\* stu_rbtree_init.
Init ==
    /\ tree = [root |-> Nil, kid |-> [d \in Sides |-> [n \in Cells |-> Nil]],
               par |-> [n \in Cells |-> Nil], red |-> [n \in Cells |-> FALSE]]
    /\ key = [n \in Nodes |-> 0]
    /\ op = "idle"
    /\ node = Nil
    /\ temp = Nil

-----------------------------------------------------------------------------
(* The tree, walked through its pointers.                                  *)

\* The nodes below n, with n, and the leftmost of them (stu_rbtree_min): as
\* many rounds as there are nodes reach all of them.
Subtree(t, n) ==
    LET reach[i \in 0 .. Cardinality(Nodes)] ==
            IF i = 0 THEN {n} \ {Nil}
            ELSE LET r == reach[i - 1]
                 IN  r \union ({t.kid[d][m] : d \in Sides, m \in r} \ {Nil})
    IN  reach[Cardinality(Nodes)]

Min(t, n) ==
    LET walk[i \in 0 .. Cardinality(Nodes)] ==
            IF i = 0 THEN n
            ELSE LET m == walk[i - 1]
                 IN  IF t.kid["left"][m] = Nil THEN m ELSE t.kid["left"][m]
    IN  walk[Cardinality(Nodes)]

InTree == Subtree(tree, tree.root)

Set == INSTANCE TimerSet WITH Timers <- Nodes, armed <- [n \in InTree |-> key[n]]

\* x takes the place of n below n's parent, or becomes the root.
Replace(t, n, x) ==
    LET p == t.par[n]
        d == IF n = t.kid["left"][p] THEN "left" ELSE "right"
    IN  IF n = t.root THEN [t EXCEPT !.root = x] ELSE [t EXCEPT !.kid[d][p] = x]

\* A faulty variant: forget the parent of the subtree that changes sides.
RotateForgets(t, n, d) ==
    LET x == t.kid[Other(d)][n]
        t1 == [t EXCEPT !.kid[Other(d)][n] = t.kid[d][x], !.par[x] = t.par[n]]
    IN  [Replace(t1, n, x) EXCEPT !.kid[d][x] = n, !.par[n] = x]

\* stu_rbtree_left_rotate and stu_rbtree_right_rotate.
Rotate(t, n, d) ==
    LET x == t.kid[Other(d)][n]
        y == t.kid[d][x]
        t1 == [t EXCEPT !.kid[Other(d)][n] = y,
                        !.par[y] = IF y = Nil THEN @ ELSE n,
                        !.par[x] = t.par[n]]
    IN  [Replace(t1, n, x) EXCEPT !.kid[d][x] = n, !.par[n] = x]

-----------------------------------------------------------------------------
(* stu_rbtree_insert.                                                      *)

\* The first node becomes a black root.
InsertRoot(n) ==
    /\ op = "idle" /\ n \notin InTree /\ tree.root = Nil
    /\ key' = [key EXCEPT ![n] = Key[n]]
    /\ tree' = [tree EXCEPT !.root = n, !.kid["left"][n] = Nil, !.kid["right"][n] = Nil,
                            !.par[n] = Nil, !.red[n] = FALSE]
    /\ UNCHANGED <<op, node, temp>>

Insert(n) ==
    /\ op = "idle" /\ n \notin InTree /\ tree.root # Nil
    /\ key' = [key EXCEPT ![n] = Key[n]]
    /\ op' = "descend" /\ node' = n /\ temp' = tree.root
    /\ UNCHANGED tree

\* A faulty variant: compare as stu_rbtree_insert_value does.
TowardsValue == IF key[node] < key[temp] THEN "left" ELSE "right"

\* stu_rbtree_insert_timer_value: equal keys go to the right.
Towards == IF Set!Less(key[node], key[temp]) THEN "left" ELSE "right"

Descend ==
    /\ op = "descend" /\ tree.kid[Towards][temp] # Nil
    /\ temp' = tree.kid[Towards][temp]
    /\ UNCHANGED <<tree, key, op, node>>

Attach ==
    /\ op = "descend" /\ tree.kid[Towards][temp] = Nil
    /\ tree' = [tree EXCEPT !.kid = [d \in Sides |->
                                [@[d] EXCEPT ![node] = Nil,
                                             ![temp] = IF d = Towards THEN node ELSE @]],
                            !.par[node] = temp, !.red[node] = TRUE]
    /\ op' = "balance"
    /\ UNCHANGED <<key, node, temp>>

Unbalanced == node # tree.root /\ tree.red[tree.par[node]]

Parent == tree.par[node]
Grand == tree.par[Parent]
Side == IF Parent = tree.kid["left"][Grand] THEN "left" ELSE "right"
Uncle == tree.kid[Other(Side)][Grand]

\* A red uncle: the grandparent takes the red, and may need a round itself.
Recolour ==
    /\ op = "balance" /\ Unbalanced /\ tree.red[Uncle]
    /\ tree' = [tree EXCEPT !.red[Parent] = FALSE, !.red[Uncle] = FALSE, !.red[Grand] = TRUE]
    /\ node' = Grand
    /\ UNCHANGED <<key, op, temp>>

\* A black uncle: an inner child is rotated outside, then the grandparent down.
Restore ==
    /\ op = "balance" /\ Unbalanced /\ ~ tree.red[Uncle]
    /\ LET inner == node = tree.kid[Other(Side)][Parent]
           t1 == IF inner THEN Rotate(tree, Parent, Side) ELSE tree
           n1 == IF inner THEN Parent ELSE node
           p1 == t1.par[n1]
       IN  /\ node' = n1
           /\ tree' = Rotate([t1 EXCEPT !.red[p1] = FALSE, !.red[t1.par[p1]] = TRUE],
                             t1.par[p1], Other(Side))
    /\ UNCHANGED <<key, op, temp>>

InsertDone ==
    /\ op = "balance" /\ ~ Unbalanced
    /\ tree' = [tree EXCEPT !.red[tree.root] = FALSE]
    /\ op' = "idle" /\ node' = Nil /\ temp' = Nil
    /\ UNCHANGED key

-----------------------------------------------------------------------------
(* stu_rbtree_delete.                                                      *)

\* The node that leaves its place, and the child that takes it.
Subst(n) ==
    IF \E d \in Sides : tree.kid[d][n] = Nil THEN n ELSE Min(tree, tree.kid["right"][n])

\* A faulty variant: forget that a node may have a left child only.
HeirRight(s) == tree.kid["right"][s]

Heir(s) == IF tree.kid["left"][s] = Nil THEN tree.kid["right"][s] ELSE tree.kid["left"][s]

\* A faulty variant: the substitute keeps its own colour.
ExchangeKeepsColour(t, n, s) ==
    LET t1 == Replace([t EXCEPT !.kid["left"][s] = t.kid["left"][n],
                                !.kid["right"][s] = t.kid["right"][n],
                                !.par[s] = t.par[n]], n, s)
        moved == {t1.kid[d][s] : d \in Sides} \ {Nil}
    IN  [t1 EXCEPT !.par = [m \in Cells |-> IF m \in moved THEN s ELSE @[m]]]

\* s has the place, the kids and the colour of n.
Exchange(t, n, s) ==
    LET t1 == Replace([t EXCEPT !.kid["left"][s] = t.kid["left"][n],
                                !.kid["right"][s] = t.kid["right"][n],
                                !.par[s] = t.par[n], !.red[s] = t.red[n]], n, s)
        moved == {t1.kid[d][s] : d \in Sides} \ {Nil}
    IN  [t1 EXCEPT !.par = [m \in Cells |-> IF m \in moved THEN s ELSE @[m]]]

\* A faulty variant: clear them to NULL; a node without a child has the sentinel.
ClearedToNull(t, n) == [t EXCEPT !.kid["left"][n] = -1, !.red[n] = FALSE]

\* The pointers of n are cleared; its colour is not looked at again, nor are
\* the parents of the root and, between operations, of the sentinel.
Cleared(t, n) ==
    [t EXCEPT !.kid = [d \in Sides |-> [@[d] EXCEPT ![n] = Nil]], !.par[n] = Nil,
              !.red[n] = FALSE]

\* A faulty variant: leave a substitute that is a child of n where it is.
UnlinkSkipsChild(n, s, h) == IF tree.par[s] = n THEN tree ELSE Replace(tree, s, h)

\* The heir takes the place of s.
Unlink(n, s, h) == Replace(tree, s, h)

Delete(n) ==
    /\ op = "idle" /\ n \in InTree
    /\ LET s == Subst(n)
           h == Heir(s)
           up == IF s # n /\ tree.par[s] = n THEN s ELSE tree.par[s]
           t1 == [Unlink(n, s, h) EXCEPT !.par[h] = up]
           t2 == IF s = n THEN t1 ELSE Exchange(t1, n, s)
       IN  IF s = tree.root \/ tree.red[s]
           THEN /\ tree' = IF s = tree.root
                           THEN Cleared([tree EXCEPT !.root = h, !.par[h] = Nil, !.red[h] = FALSE], n)
                           ELSE Cleared([t2 EXCEPT !.par[Nil] = Nil], n)
                /\ UNCHANGED <<op, temp>>
           ELSE /\ tree' = Cleared(t2, n)
                /\ op' = "fixup" /\ temp' = h
    /\ key' = [key EXCEPT ![n] = 0]
    /\ UNCHANGED node

\* One black is missing below temp.
Lacking == temp # tree.root /\ ~ tree.red[temp]

\* A round of the loop: a red sibling is rotated up; then either the sibling
\* turns red and the lack moves up, or rotations make it good.
Fixup ==
    /\ op = "fixup" /\ Lacking
    /\ LET p == tree.par[temp]
           d == IF temp = tree.kid["left"][p] THEN "left" ELSE "right"
           o == Other(d)
           w0 == tree.kid[o][p]
           t1 == IF tree.red[w0]
                 THEN Rotate([tree EXCEPT !.red[w0] = FALSE, !.red[p] = TRUE], p, d)
                 ELSE tree
           w1 == t1.kid[o][p]
           t2 == IF t1.red[t1.kid[o][w1]] THEN t1
                 ELSE Rotate([t1 EXCEPT !.red[t1.kid[d][w1]] = FALSE, !.red[w1] = TRUE], w1, o)
           w2 == t2.kid[o][p]
           t3 == [t2 EXCEPT !.red = [@ EXCEPT ![w2] = t2.red[p], ![p] = FALSE,
                                              ![t2.kid[o][w2]] = FALSE]]
       IN  IF \A e \in Sides : ~ t1.red[t1.kid[e][w1]]
           THEN /\ tree' = [t1 EXCEPT !.red[w1] = TRUE]
                /\ temp' = p
           ELSE /\ tree' = Rotate(t3, p, d)
                /\ temp' = tree'.root
    /\ UNCHANGED <<key, op, node>>

DeleteDone ==
    /\ op = "fixup" /\ ~ Lacking
    /\ tree' = [tree EXCEPT !.red[temp] = FALSE, !.par[Nil] = Nil]
    /\ op' = "idle" /\ temp' = Nil
    /\ UNCHANGED <<key, node>>

-----------------------------------------------------------------------------
Loop == Descend \/ Attach \/ Recolour \/ Restore \/ InsertDone \/ Fixup \/ DeleteDone

Next == Loop \/ \E n \in Nodes : InsertRoot(n) \/ Insert(n) \/ Delete(n)

Spec == Init /\ [][Next]_vars

\* An operation that has begun goes on.
Fairness == WF_vars(Loop)

FairSpec == Spec /\ Fairness

-----------------------------------------------------------------------------
(* Properties.                                                             *)

TypeOK ==
    /\ tree \in [root : Cells, kid : [Sides -> [Cells -> Cells]],
                 par : [Cells -> Cells], red : [Cells -> BOOLEAN]]
    /\ key \in [Nodes -> Set!Keys]
    /\ op \in {"idle", "descend", "balance", "fixup"}
    /\ {node, temp} \subseteq Cells

\* Parents and children agree, no node is reached twice, and the sentinel
\* stays black and childless, also in the middle of an operation.
Linked ==
    /\ \A n \in InTree, d \in Sides :
           tree.kid[d][n] # Nil => tree.par[tree.kid[d][n]] = n
    /\ \A n \in InTree : tree.kid["left"][n] # Nil => tree.kid["left"][n] # tree.kid["right"][n]
    /\ tree.root # Nil => \A n \in InTree, d \in Sides : tree.kid[d][n] # tree.root
    /\ ~ tree.red[Nil]
    /\ \A d \in Sides : tree.kid[d][Nil] = Nil

\* Black nodes on the way from n to the root.
Blacks(n) ==
    LET count[i \in 0 .. Cardinality(Nodes)] ==
            IF i = 0 THEN [at |-> n, sum |-> 0]
            ELSE LET c == count[i - 1]
                 IN  IF c.at = Nil THEN c
                     ELSE [at |-> IF c.at = tree.root THEN Nil ELSE tree.par[c.at],
                           sum |-> c.sum + IF tree.red[c.at] THEN 0 ELSE 1]
    IN  count[Cardinality(Nodes)].sum

\* Between operations the tree is red-black: a black root, no red node with a
\* red child, and as many black nodes on the way to every missing child.
Balanced ==
    op = "idle" =>
        /\ ~ tree.red[tree.root]
        /\ \A n \in InTree, d \in Sides : tree.red[n] => ~ tree.red[tree.kid[d][n]]
        /\ \E h \in 0 .. Cardinality(Nodes) : \A n \in InTree :
               (\E d \in Sides : tree.kid[d][n] = Nil) => Blacks(n) = h

\* The leftmost node is an earliest timer, across the wraparound of the keys
\* and among duplicates, also in the middle of an operation.
MinIsEarliest ==
    tree.root # Nil => Min(tree, tree.root) \in Set!Earliest([n \in InTree |-> key[n]])

\* Operations add and remove just their node: what else a step of insert or
\* delete does to the pointers does not show.
ImplementsTimerSet == Set!SetSpec

\* Every operation ends.
Ends == (op # "idle") ~> (op = "idle")
=============================================================================
