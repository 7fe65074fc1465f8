------------------------------- MODULE Base64 -------------------------------
(***************************************************************************)
(* Base64.  A character of the text is its index in basis64, Padding or    *)
(* Invalid.  The state machine puts an input together byte by byte; the    *)
(* encoder and the decoder are evaluated on every input.                   *)
(*                                                                         *)
(* The operators that follow "A faulty variant" are not used by Spec: each *)
(* is a plausible mistake in the definition after it.                      *)
(***************************************************************************)
EXTENDS Naturals, Sequences, SequencesExt

CONSTANTS
    Bytes,      \* the bytes of an input
    Digits,     \* the characters of a text
    MaxLength   \* bound: the length of both

Base64Assumption ==
    /\ Bytes \subseteq 0 .. 255 /\ Digits \subseteq 0 .. 65 /\ MaxLength \in Nat

Padding == 64
Invalid == 65

-----------------------------------------------------------------------------
(* stu_encode_base64_internal, with padding.                               *)

\* A faulty variant: the bits of the first character are not masked.
SecondUnmasked(a, b) == a * 16 + b \div 16

First(a) == (a \div 4) % 64
Second(a, b) == (a % 4) * 16 + b \div 16
Third(b, c) == (b % 16) * 4 + c \div 64
Fourth(c) == c % 64

\* What is left after the groups of three, from position i + 1 on.
EncodeRest(s, i) ==
    CASE Len(s) - i = 0 -> <<>>
      [] Len(s) - i = 1 -> <<First(s[i+1]), Second(s[i+1], 0), Padding, Padding>>
      [] OTHER -> <<First(s[i+1]), Second(s[i+1], s[i+2]), Third(s[i+2], 0), Padding>>

Encode(s) ==
    LET groups == Len(s) \div 3
        Group(g) == <<First(s[3*g-2]), Second(s[3*g-2], s[3*g-1]), Third(s[3*g-1], s[3*g]), Fourth(s[3*g])>>
    IN  FlattenSeq([g \in 1 .. groups |-> Group(g)]) \o EncodeRest(s, 3 * groups)

-----------------------------------------------------------------------------
(* stu_decode_base64_internal.                                             *)

DecodeRest(s, i, n) ==
    CASE n < 2 -> <<>>
      [] n = 2 -> <<(s[i+1] * 4 + s[i+2] \div 16) % 256>>
      [] OTHER -> <<(s[i+1] * 4 + s[i+2] \div 16) % 256, (s[i+2] * 16 + s[i+3] \div 4) % 256>>

\* The characters before the first padding.
Significant(s) ==
    IF Padding \in Range(s)
    THEN (CHOOSE i \in DOMAIN s : s[i] = Padding /\ \A j \in 1 .. i - 1 : s[j] # Padding) - 1
    ELSE Len(s)

\* A faulty variant: a character that stands alone at the end is dropped.
BadTextLoose(s, len) == \E i \in 1 .. len : s[i] = Invalid

BadText(s, len) == (\E i \in 1 .. len : s[i] = Invalid) \/ len % 4 = 1

Decode(s) ==
    LET len    == Significant(s)
        groups == len \div 4
        Group(g) == <<(s[4*g-3] * 4 + s[4*g-2] \div 16) % 256,
                      (s[4*g-2] * 16 + s[4*g-1] \div 4) % 256,
                      (s[4*g-1] * 64 + s[4*g]) % 256>>
    IN  IF BadText(s, len) THEN [ok |-> FALSE]
        ELSE [ok |-> TRUE,
              bytes |-> FlattenSeq([g \in 1 .. groups |-> Group(g)])
                            \o DecodeRest(s, 4 * groups, len % 4)]

-----------------------------------------------------------------------------
VARIABLES
    input,      \* bytes to encode
    text        \* characters to decode

vars == <<input, text>>

Init == input = <<>> /\ text = <<>>

AddByte(b) == Len(input) < MaxLength /\ text = <<>> /\ input' = Append(input, b) /\ UNCHANGED text
AddDigit(c) == Len(text) < MaxLength /\ input = <<>> /\ text' = Append(text, c) /\ UNCHANGED input

Next == (\E b \in Bytes : AddByte(b)) \/ (\E c \in Digits : AddDigit(c))

Spec == Init /\ [][Next]_vars

-----------------------------------------------------------------------------
(* Properties, in terms of the bits.                                       *)

BitsOf(seq, width) ==
    [k \in 1 .. width * Len(seq) |->
        (seq[(k - 1) \div width + 1] \div 2 ^ (width - 1 - ((k - 1) % width))) % 2]

\* The number whose bits are those from first on; bits behind the end are zero.
ValueAt(bits, first, width) ==
    FoldLeft(LAMBDA sum, k : 2 * sum + (IF first + k - 1 <= Len(bits) THEN bits[first + k - 1] ELSE 0),
             0, [k \in 1 .. width |-> k])

\* The encoder cuts the bits of its input into sixes, fills the last with zeros and
\* pads the text to a multiple of four.
EncodesBits ==
    LET bits == BitsOf(input, 8)
        size == (Len(bits) + 5) \div 6
    IN  Encode(input) = [k \in 1 .. 4 * ((Len(input) + 2) \div 3) |->
                            IF k <= size THEN ValueAt(bits, 6 * k - 5, 6) ELSE Padding]

\* The decoder takes back what the encoder made, and refuses exactly the texts with
\* a foreign character or a lone last one before the padding; of the others it keeps
\* the bits that make whole bytes.
DecodesBits ==
    LET digits == SubSeq(text, 1, Significant(text))
        bits   == BitsOf(digits, 6)
    IN  /\ Decode(Encode(input)) = [ok |-> TRUE, bytes |-> input]
        /\ Decode(text) = IF Invalid \in Range(digits) \/ Len(bits) % 8 = 6 THEN [ok |-> FALSE]
                          ELSE [ok |-> TRUE,
                                bytes |-> [k \in 1 .. Len(bits) \div 8 |-> ValueAt(bits, 8 * k - 7, 8)]]
=============================================================================
