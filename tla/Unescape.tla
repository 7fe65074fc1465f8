------------------------------ MODULE Unescape ------------------------------
(***************************************************************************)
(* stu_unescape_uri, as the upgrade handler calls it for a user's name:    *)
(* with type 0, and in place, so that dst and src are the same buffer.     *)
(*                                                                         *)
(* The operators that follow "A faulty variant" are not used by Spec: each *)
(* is a plausible mistake in the definition after it.                      *)
(***************************************************************************)
EXTENDS Integers, Sequences

CONSTANTS
    Chars,      \* the character codes of a name
    MaxLength   \* bound: the length of a name

UnescapeAssumption == Chars \subseteq 0 .. 255 /\ MaxLength \in Nat

Percent == 37
Plus == 43
Space == 32

VARIABLES
    name,       \* the name as it came
    buf,        \* the buffer
    s, d,       \* how many characters are read and written
    state,      \* sw_usual, sw_quoted, sw_quoted_second
    decoded     \* the value of the first digit

vars == <<name, buf, s, d, state, decoded>>

Digit(ch) == ch \in 48 .. 57
Letter(ch) == ch \in (65 .. 70) \union (97 .. 102)      \* ch | 0x20 is in 'a' .. 'f'
Hex(ch) == Digit(ch) \/ Letter(ch)
\* A faulty variant: letters are taken for small ones.
HexValueSmall(ch) == IF Digit(ch) THEN ch - 48 ELSE ch - 87

HexValue(ch) == IF Digit(ch) THEN ch - 48 ELSE IF ch >= 97 THEN ch - 87 ELSE ch - 55

TypeOK ==
    /\ name \in Seq(0 .. 255) /\ buf \in Seq(0 .. 255) /\ Len(buf) = Len(name)
    /\ s \in 0 .. Len(name) /\ d \in 0 .. Len(name)
    /\ state \in {"usual", "quoted", "second"}
    /\ decoded \in 0 .. 15

Init ==
    /\ name \in UNION {[1 .. n -> Chars] : n \in 0 .. MaxLength}
    /\ buf = name /\ s = 0 /\ d = 0 /\ state = "usual" /\ decoded = 0

Write(c) == buf' = [buf EXCEPT ![d + 1] = c] /\ d' = d + 1

\* A faulty variant: an escape may be cut off by the end of the name.
IsEscapeLoose(i) == buf[i] = Percent /\ i + 1 <= Len(buf) /\ Hex(buf[i + 1])

\* An escape begins at i, the next position: it has both of its digits.
IsEscape(i) ==
    buf[i] = Percent /\ i + 2 <= Len(buf) /\ Hex(buf[i + 1]) /\ Hex(buf[i + 2])

Usual ==
    /\ s < Len(buf) /\ state = "usual"
    /\ s' = s + 1
    /\ IF IsEscape(s + 1)
       THEN state' = "quoted" /\ UNCHANGED <<buf, d>>
       ELSE Write(IF buf[s + 1] = Plus THEN Space ELSE buf[s + 1]) /\ UNCHANGED state
    /\ UNCHANGED <<name, decoded>>

\* The first digit.  Usual has seen that it is one.
Quoted ==
    /\ s < Len(buf) /\ state = "quoted"
    /\ s' = s + 1
    /\ decoded' = HexValue(buf[s + 1]) /\ state' = "second"
    /\ UNCHANGED <<name, buf, d>>

\* A faulty variant: the escape is decoded and taken for input again.
SecondAgain ==
    /\ s < Len(buf) /\ state = "second"
    /\ s' = s
    /\ buf' = [buf EXCEPT ![s + 1] = 16 * decoded + HexValue(@)]
    /\ state' = "usual"
    /\ UNCHANGED <<name, d, decoded>>

\* The second digit.
Second ==
    /\ s < Len(buf) /\ state = "second"
    /\ s' = s + 1
    /\ Write(16 * decoded + HexValue(buf[s + 1]))
    /\ state' = "usual"
    /\ UNCHANGED <<name, decoded>>

Next == Usual \/ Quoted \/ Second

Spec == Init /\ [][Next]_vars

-----------------------------------------------------------------------------
(* Properties.                                                             *)

\* The escapes of the name: no digit is a percent sign, so they do not overlap.
Escapes ==
    {i \in 1 .. Len(name) - 2 : name[i] = Percent /\ Hex(name[i + 1]) /\ Hex(name[i + 2])}

\* Character i is a digit of an escape.
Inside(i) == i - 1 \in Escapes \/ i - 2 \in Escapes

\* What the character, or the escape, at i stands for.
Meant(i) ==
    IF i \in Escapes THEN 16 * HexValue(name[i + 1]) + HexValue(name[i + 2])
    ELSE IF name[i] = Plus THEN Space ELSE name[i]

Expected ==
    LET upTo[i \in 0 .. Len(name)] ==
            IF i = 0 THEN <<>>
            ELSE IF Inside(i) THEN upTo[i - 1] ELSE Append(upTo[i - 1], Meant(i))
    IN  upTo[Len(name)]

\* What is written never reaches what is still to be read.
InPlace == d <= s /\ \A j \in s + 1 .. Len(buf) : buf[j] = name[j]

\* The result is the name with its escapes decoded, each once; a percent sign
\* without two digits stays as it is.
Unescaped == s = Len(buf) => SubSeq(buf, 1, d) = Expected
=============================================================================
