-------------------------------- MODULE Hash --------------------------------
(***************************************************************************)
(* stu_hash.c: buckets of elements behind a sentinel that exists only as   *)
(* long as the bucket is in use, a list of all elements for foreach, and a *)
(* count.  Every operation runs with the lock of the table held.  The list *)
(* of a bucket is a sequence of addresses of elements.                     *)
(*                                                                         *)
(* stu_hash_remove_locked goes on from the element it has just freed: what *)
(* it reads there is the old pointer, or whatever the allocator has left   *)
(* (wild, where the behaviour ends).                                       *)
(*                                                                         *)
(* The operators that follow "A faulty variant" are not used by Spec: each *)
(* is a plausible mistake in the definition after it.                      *)
(***************************************************************************)
EXTENDS Naturals, FiniteSets, SequencesExt

CONSTANTS
    Names,      \* sequences of characters
    Values,     \* what is stored: connections, channels, servers
    Elements,   \* addresses of elements
    Size,       \* buckets
    Lower,      \* stu_tolower
    Width,      \* bits of a hash
    Nil

VARIABLES
    bucket,     \* Nil, or the list behind the sentinel
    keys,       \* the list of all elements
    elt,        \* what an element holds; Nil when it is free
    length,
    leaked,     \* elements that a failed insertion forgot
    removing,   \* the removal under way, if any
    wild

vars == <<bucket, keys, elt, length, leaked, removing, wild>>

Init ==
    /\ bucket = [b \in 0 .. Size - 1 |-> Nil]
    /\ keys = <<>>
    /\ elt = [e \in Elements |-> Nil]
    /\ length = 0
    /\ leaked = {}
    /\ removing = Nil
    /\ wild = FALSE

-----------------------------------------------------------------------------
\* stu_hash_key: key * 31 + c for every character.
HashKey(s) == FoldLeft(LAMBDA k, c : (k * 31 + c) % 2 ^ Width, 0, s)

\* stu_hash_key_lc.
HashKeyLc(s) == HashKey([i \in DOMAIN s |-> Lower[s[i]]])

\* Nil is no address, no list and no record; a hash, by whatever case rule, is a number.
HashAssumption ==
    /\ IsFiniteSet(Elements)
    /\ Size \in Nat \ {0}
    /\ Nil \notin Elements \union Seq(Elements)
    /\ Nil \notin [name : Names \union {<<>>}, hash : Nat, value : Values \union {Nil}]
    /\ Nil \notin [name : Names, todo : Seq(Elements)]
    /\ \A n \in Names : HashKeyLc(n) \in Nat

\* Every caller inserts with STU_HASH_LOWCASE.  Channels, users and timers are looked for
\* by the lower case hash too; headers, and the upstreams of stu_conf_file.c and
\* stu_upstream.c, by stu_hash_key, which is the same for a name in lower case only.
BucketOf(n) == HashKeyLc(n) % Size

\* A faulty variant: the hash decides.
SameHash(e, n) == elt[e].hash = HashKeyLc(n)

\* The hash, the length and the characters, in this order and with their case.
Same(e, n) == elt[e].hash = HashKeyLc(n) /\ elt[e].name = n

Listed(n) == IF bucket[BucketOf(n)] = Nil THEN <<>> ELSE bucket[BucketOf(n)]

\* The walk along a bucket ends at the first element that is the same; 0: there is none.
Place(n) == SelectInSeq(Listed(n), LAMBDA e : Same(e, n))

\* stu_hash_find_locked.
Find(n) == IF Place(n) = 0 THEN Nil ELSE elt[Listed(n)[Place(n)]].value

Idle == removing = Nil /\ ~ wild

-----------------------------------------------------------------------------
\* stu_hash_insert_locked up to the sentinel, which stays when the rest fails.
WithSentinel(n) == [bucket EXCEPT ![BucketOf(n)] = Listed(n)]

\* STU_HASH_REPLACE and the name is there: only the value changes.
InsertReplaces(n, v) ==
    /\ Idle
    /\ Place(n) # 0
    /\ elt' = [elt EXCEPT ![Listed(n)[Place(n)]].value = v]
    /\ UNCHANGED <<bucket, keys, length, leaked, removing, wild>>

\* A new element, unless STU_HASH_REPLACE found one.
InsertNew(n, v, replace) ==
    /\ Idle
    /\ replace => Place(n) = 0
    /\ \E e \in Elements :
          /\ elt[e] = Nil
          /\ elt' = [elt EXCEPT ![e] = [name |-> n, hash |-> HashKeyLc(n), value |-> v]]
          /\ bucket' = [bucket EXCEPT ![BucketOf(n)] = Append(Listed(n), e)]
          /\ keys' = Append(keys, e)
    /\ length' = length + 1
    /\ UNCHANGED <<leaked, removing, wild>>

\* No memory: for the sentinel or the element, ...
InsertFails(n) ==
    /\ Idle
    /\ bucket' \in {bucket, WithSentinel(n)}
    /\ UNCHANGED <<keys, elt, length, leaked, removing, wild>>

\* ... or for the copy of the name: the element is not freed.
InsertLeaks(n) ==
    /\ Idle
    /\ bucket' = WithSentinel(n)
    /\ \E e \in Elements :
          /\ elt[e] = Nil
          /\ elt' = [elt EXCEPT ![e] = [name |-> <<>>, hash |-> 0, value |-> Nil]]
          /\ leaked' = leaked \union {e}
    /\ UNCHANGED <<keys, length, removing, wild>>

-----------------------------------------------------------------------------
\* stu_hash_remove_locked begins; a missing bucket is only reported.
RemoveStart(n) ==
    /\ Idle
    /\ bucket[BucketOf(n)] # Nil
    /\ removing' = [name |-> n, todo |-> bucket[BucketOf(n)]]
    /\ UNCHANGED <<bucket, keys, elt, length, leaked, wild>>

\* A faulty variant: the first element of the name is the last to look at.
GoOnBreaks(e, n, todo) == IF Same(e, n) THEN <<>> ELSE todo

\* "don't break here".
GoOn(e, n, todo) == todo

\* One turn of the loop.
Visit ==
    /\ removing # Nil /\ ~ wild
    /\ removing.todo # <<>>
    /\ LET e == Head(removing.todo)
           b == BucketOf(removing.name)
       IN  /\ removing' = [removing EXCEPT !.todo = GoOn(e, removing.name, Tail(removing.todo))]
           /\ IF Same(e, removing.name)
              THEN /\ bucket' = [bucket EXCEPT ![b] = RemoveFirst(@, e)]
                   /\ keys' = RemoveFirst(keys, e)
                   /\ elt' = [elt EXCEPT ![e] = Nil]
                   /\ length' = length - 1
                   /\ wild' \in BOOLEAN
              ELSE UNCHANGED <<bucket, keys, elt, length, wild>>
    /\ UNCHANGED leaked

\* A faulty variant: the sentinel goes whatever is left.
SweepAll(list) == Nil

\* An empty bucket loses its sentinel.
Sweep(list) == IF list = <<>> THEN Nil ELSE list

RemoveDone ==
    /\ removing # Nil /\ ~ wild
    /\ removing.todo = <<>>
    /\ bucket' = [bucket EXCEPT ![BucketOf(removing.name)] = Sweep(@)]
    /\ removing' = Nil
    /\ UNCHANGED <<keys, elt, length, leaked, wild>>

\* vc->fd == c->fd.
Mine(e, n, v) == Same(e, n) /\ elt[e].value = v

\* A faulty variant: the count goes down also when nobody was found.
FewerAlways(k) == length - 1

Fewer(k) == length - k

\* stu_channel_remove_user_locked: the first that is his, and no other.
RemoveUser(n, v) ==
    /\ Idle
    /\ bucket[BucketOf(n)] # Nil
    /\ LET i == SelectInSeq(Listed(n), LAMBDA e : Mine(e, n, v))
           gone == IF i = 0 THEN Nil ELSE Listed(n)[i]
       IN  /\ bucket' = [bucket EXCEPT ![BucketOf(n)] = Sweep(RemoveFirst(@, gone))]
           /\ keys' = RemoveFirst(keys, gone)
           /\ elt' = [e \in Elements |-> IF e = gone THEN Nil ELSE elt[e]]
           /\ length' = Fewer(Len(keys) - Len(keys'))
    /\ UNCHANGED <<leaked, removing, wild>>

Insert(n, v) == InsertReplaces(n, v) \/ \E r \in BOOLEAN : InsertNew(n, v, r)

Next ==
    \/ \E n \in Names :
          \/ InsertFails(n) \/ InsertLeaks(n) \/ RemoveStart(n)
          \/ \E v \in Values : Insert(n, v) \/ RemoveUser(n, v)
    \/ Visit
    \/ RemoveDone

Spec == Init /\ [][Next]_vars

-----------------------------------------------------------------------------
(* Properties.                                                             *)

TypeOK ==
    /\ bucket \in [0 .. Size - 1 -> {Nil} \union SeqOf(Elements, Cardinality(Elements))]
    /\ keys \in SeqOf(Elements, Cardinality(Elements))
    /\ \A e \in Elements : elt[e] # Nil =>
          elt[e].name \in Names \union {<<>>} /\ elt[e].value \in Values \union {Nil}
    /\ length \in 0 .. Cardinality(Elements)
    /\ leaked \subseteq Elements
    /\ removing # Nil => removing.name \in Names /\ ToSet(removing.todo) \subseteq Elements
    /\ wild \in BOOLEAN

InBuckets == {e \in Elements : \E b \in DOMAIN bucket : bucket[b] # Nil /\ Contains(bucket[b], e)}

\* The three records that stu_hash.c keeps agree whatever fails: an element is
\* allocated iff it is in the list of keys and in the bucket of its hash, once,
\* or was lost by a failed insertion; length counts them.
Agree ==
    /\ InBuckets = ToSet(keys)
    /\ IsInjective(keys)
    /\ \A b \in DOMAIN bucket : bucket[b] # Nil =>
          IsInjective(bucket[b]) /\ \A e \in ToSet(bucket[b]) : elt[e].hash % Size = b
    /\ length = Len(keys)
    /\ {e \in Elements : elt[e] # Nil} = ToSet(keys) \union leaked

\* Looking for a name finds what was inserted first under it, by exactly this
\* name, although names may share a hash (that ignores case) or a bucket.
FindsFirst ==
    Idle => \A n \in Names :
        LET i == SelectInSeq(keys, LAMBDA e : elt[e].name = n)
        IN  Find(n) = IF i = 0 THEN Nil ELSE elt[keys[i]].value

HashConsistent == TypeOK /\ Agree /\ FindsFirst

\* What foreach of a channel shows.
All == [i \in DOMAIN keys |-> [name |-> elt[keys[i]].name, value |-> elt[keys[i]].value]]

Plain == INSTANCE Multimap WITH entries <- All

\* A removal is over before anyone can look: its names count as gone from the beginning.
Shown == IF removing = Nil THEN All ELSE Plain!Others(removing.name)

Map == INSTANCE Multimap WITH entries <- Shown

\* stu_hash.c implements the plain list.
ImplementsMultimap == Map!MapSpec
=============================================================================
