------------------------------ MODULE TimerSet ------------------------------
(***************************************************************************)
(* What stu_timer.c expects of its tree: a set of timers, each with a key  *)
(* in milliseconds modulo 2^Width, from which an earliest one can be told. *)
(* Duplicate keys are allowed.                                             *)
(***************************************************************************)
EXTENDS Integers

CONSTANTS
    Timers,     \* the nodes embedded in events
    Width       \* bits of a key

ASSUME TimerSetAssumption == Width \in Nat \ {0} /\ 2 ^ Width \in Nat

VARIABLE armed  \* the timers that are set, and their keys

Modulus == 2 ^ Width
Keys == 0 .. Modulus - 1

\* (stu_rbtree_key_int_t) (a - b): an unsigned difference read as signed.
Signed(a, b) ==
    LET d == (a - b) % Modulus
    IN  IF d < Modulus \div 2 THEN d ELSE d - Modulus

\* The order of stu_rbtree_insert_timer_value.
Less(a, b) == Signed(a, b) < 0

\* The keys of f are spread in less than half of the range: only then does
\* the order mean anything.
Spread(f) ==
    \E base \in Keys : \A n \in DOMAIN f : (f[n] - base) % Modulus < Modulus \div 2

\* The timers that no other one precedes.
Earliest(f) == {n \in DOMAIN f : \A m \in DOMAIN f : ~ Less(f[m], f[n])}

With(f, n, k) == [m \in DOMAIN f \union {n} |-> IF m = n THEN k ELSE f[m]]
Without(f, n) == [m \in DOMAIN f \ {n} |-> f[m]]

SetInit == armed = [n \in {} |-> 0]

Add(n, k) ==
    /\ n \notin DOMAIN armed
    /\ armed' = With(armed, n, k)
    /\ Spread(armed')

Remove(n) == n \in DOMAIN armed /\ armed' = Without(armed, n)

\* A timer is removed, or one more is there, with any key.
SetNext ==
    \/ \E n \in DOMAIN armed : Remove(n)
    \/ \E n \in DOMAIN armed' \ DOMAIN armed :
          n \in Timers /\ armed'[n] \in Keys /\ Add(n, armed'[n])

SetSpec == SetInit /\ [][SetNext]_armed
=============================================================================
