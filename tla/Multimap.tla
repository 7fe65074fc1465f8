------------------------------ MODULE Multimap ------------------------------
(***************************************************************************)
(* What the users of stu_hash.c expect: a list of names and values in the  *)
(* order of insertion, in which a name may occur more than once.           *)
(***************************************************************************)
EXTENDS SequencesExt

CONSTANTS Names, Values

VARIABLE entries

Entry(n, v) == [name |-> n, value |-> v]

MapInit == entries = <<>>

MapAppend(n, v) == entries' = Append(entries, Entry(n, v))

\* STU_HASH_REPLACE: the first one of the name gets the value.
MapReplace(n, v) ==
    LET i == SelectInSeq(entries, LAMBDA x : x.name = n)
    IN  i # 0 /\ entries' = [entries EXCEPT ![i] = Entry(n, v)]

\* The entries of other names, in their order.
Others(n) ==
    LET others[i \in 0 .. Len(entries)] ==
            IF i = 0 THEN <<>>
            ELSE IF entries[i].name = n THEN others[i - 1]
            ELSE Append(others[i - 1], entries[i])
    IN  others[Len(entries)]

MapRemove(n) == entries' = Others(n)

\* A user leaves: the first entry that is his goes, and no other.
MapRemoveOne(n, v) ==
    entries' = RemoveFirst(entries, Entry(n, v))

MapNext ==
    \E n \in Names :
        \/ MapRemove(n)
        \/ \E v \in Values : MapAppend(n, v) \/ MapReplace(n, v) \/ MapRemoveOne(n, v)

MapSpec == MapInit /\ [][MapNext]_entries
=============================================================================
