-------------------------------- MODULE Json --------------------------------
(***************************************************************************)
(* The JSON parser and printer.  A text is a sequence of lexemes, each     *)
(* standing for characters that the parser treats alike, and is followed   *)
(* by a zero.  The state machine is the reference: an automaton with a     *)
(* stack that reads the text as it is typed and builds the value.  The     *)
(* code's parser, a recursive descent, is evaluated on every text.         *)
(*                                                                         *)
(* The operators that follow "A faulty variant" are not used by Spec: each *)
(* is a plausible mistake in the definition after it.                      *)
(***************************************************************************)
EXTENDS Integers, Sequences, SequencesExt

CONSTANTS
    Alphabet,   \* the lexemes that are typed
    MaxLength,  \* bound: the length of a text
    MaxString,  \* bound: the length of a name or a string
    GoOn        \* bound: texts go on after the value or the error

Quote == "\""
Blank == " "
NUL == "NUL"
Words == {"true", "false", "null"}

-----------------------------------------------------------------------------
(* Values: stu_json_t, without its links.                                  *)

Item(type, value) == [type |-> type, key |-> <<>>, value |-> value]
Word(c) == IF c = "null" THEN Item("null", <<>>) ELSE Item("boolean", <<c>>)
WithKey(item, key) == [item EXCEPT !.key = key]

Digits == <<"0", "1", "2", "3", "4", "5", "6", "7", "8", "9">>
IsDigit(c) == c \in ToSet(Digits)
Digit(n) == Digits[n + 1]

\* A double, 0.digits times ten to the power of point: <<negative, digits, point>>.
\* Fifteen digits fit, and so does a point from -322 to 309.
Zero == <<FALSE, <<>>, 0>>
Infinite(d) == d[2] = <<"inf">>

\* The double that strtod makes of the digits before and behind the point.
Double(negative, whole, decimals, power) ==
    LET all    == whole \o decimals
        places == {i \in DOMAIN all : all[i] # "0"}
        first  == CHOOSE i \in places : \A j \in places : i <= j
        last   == CHOOSE i \in places : \A j \in places : i >= j
        point  == Len(whole) - first + 1 + power
    IN  IF places = {} \/ point < -322 THEN Zero
        ELSE IF point > 309 THEN <<negative, <<"inf">>, 0>>
        ELSE <<negative, SubSeq(all, first, last), point>>

\* A string whose end is missing: the value is not there yet, or points into the text.
NoString == Item("string", <<"NULL">>)
InText == Item("string", <<"in text">>)

-----------------------------------------------------------------------------
(* The parser.                                                             *)

At(text, i) == IF i <= Len(text) THEN text[i] ELSE NUL

\* The next position from i on that is not blank.
SkipBlank(text, i) ==
    CHOOSE j \in i .. Len(text) + i : At(text, j) # Blank /\ \A k \in i .. j - 1 : At(text, k) = Blank

\* The next quote, or the end of the text.
Closing(text, i) ==
    LET quotes == {j \in i .. Len(text) : text[j] = Quote}
    IN  IF quotes = {} THEN Len(text) + 1 ELSE CHOOSE j \in quotes : \A k \in quotes : j <= k

Parsed(at, item) == [ok |-> TRUE, at |-> at, item |-> item]
Refused == [ok |-> FALSE]

ParseSpecific(text, i) ==
    IF At(text, i) \in Words THEN Parsed(i + 1, Word(text[i])) ELSE Refused

\* A faulty variant: an empty string ends a character late.
ParseStringLate(text, i) ==
    LET end == Closing(text, i + 2)
    IN  IF i + 1 > Len(text) THEN Parsed(i + 1, NoString)
        ELSE IF end > Len(text) THEN Parsed(end, InText)
        ELSE Parsed(end + 1, Item("string", SubSeq(text, i + 1, end - 1)))

\* stu_json_parse_string, from the opening quote.
ParseString(text, i) ==
    LET end == Closing(text, i + 1)
    IN  IF i + 1 > Len(text) THEN Parsed(i + 1, NoString)
        ELSE IF end > Len(text) THEN Parsed(end, InText)
        ELSE Parsed(end + 1, Item("string", SubSeq(text, i + 1, end - 1)))

\* The end of the digits from i on.
PastDigits(text, i) ==
    CHOOSE j \in i .. Len(text) + 1 : ~ IsDigit(At(text, j)) /\ \A k \in i .. j - 1 : IsDigit(text[k])

\* The number that digits are, as far as it makes a difference.
Power(digits) ==
    FoldLeft(LAMBDA n, c : IF n > 9999 THEN n ELSE 10 * n + SelectInSeq(Digits, LAMBDA x : x = c) - 1, 0, digits)

\* strtod: digits with a point, and an exponent if it has digits.
ParseNumber(text, i) ==
    LET from  == IF text[i] = "-" THEN i + 1 ELSE i
        whole == PastDigits(text, from)
        point == IF At(text, whole) = "." THEN whole + 1 ELSE whole
        end   == PastDigits(text, point)
        sign  == IF At(text, end + 1) \in {"-", "+"} THEN end + 2 ELSE end + 1
        raised == At(text, end) = "e" /\ IsDigit(At(text, sign))
        power == IF ~ raised THEN 0
                 ELSE (IF text[end + 1] = "-" THEN -1 ELSE 1)
                         * Power(SubSeq(text, sign, PastDigits(text, sign) - 1))
    IN  IF whole = from /\ end = point THEN Refused
        ELSE Parsed(IF raised THEN PastDigits(text, sign) ELSE end,
                    Item("number", Double(text[i] = "-", SubSeq(text, from, whole - 1),
                                          SubSeq(text, point, end - 1), power)))

RECURSIVE ParseValue(_, _), ParseElements(_, _, _), ParseMembers(_, _, _)

\* A faulty variant: either bracket ends it.
ClosesAny(c, type) == c \in {"]", "}"}

Closes(c, type) == c = IF type = "array" THEN "]" ELSE "}"

\* After a value in an array or an object: the next one, the end, or an error.
AfterValue(text, i, items, type) ==
    LET j == SkipBlank(text, i)
        c == At(text, j)
    IN  IF j > Len(text) THEN Parsed(j, Item(type, items))
        ELSE IF c = "," THEN IF type = "array" THEN ParseElements(text, j + 1, items)
                             ELSE ParseMembers(text, j + 1, items)
        ELSE IF Closes(c, type) THEN Parsed(j + 1, Item(type, items))
        ELSE Refused

\* stu_json_parse_array, sw_arr_start.
ParseElements(text, i, items) ==
    LET v == ParseValue(text, i)
    IN  IF i > Len(text) THEN Parsed(i, Item("array", items))
        ELSE IF ~ v.ok THEN Refused
        ELSE AfterValue(text, v.at, Append(items, v.item), "array")

\* stu_json_parse_object, sw_obj_start: a name, a colon and a value.
ParseMembers(text, i, items) ==
    LET open  == SkipBlank(text, i)
        close == Closing(text, open + 1)
        colon == SkipBlank(text, close + 1)
        v     == ParseValue(text, colon + 1)
        sofar == Item("object", items)
    IN  IF open > Len(text) THEN Parsed(open, sofar)
        ELSE IF text[open] # Quote THEN Refused
        ELSE IF close > Len(text) \/ colon > Len(text) THEN Parsed(Len(text) + 1, sofar)
        ELSE IF text[colon] # ":" THEN Refused
        ELSE IF colon + 1 > Len(text) THEN Parsed(colon + 1, sofar)
        ELSE IF ~ v.ok THEN Refused
        ELSE AfterValue(text, v.at, Append(items, WithKey(v.item, SubSeq(text, open + 1, close - 1))),
                        "object")

ParseValue(text, i) ==
    LET j == SkipBlank(text, i)
        c == At(text, j)
    IN  CASE c = Quote -> ParseString(text, j)
          [] c = "{" -> ParseMembers(text, j + 1, <<>>)
          [] c = "[" -> ParseElements(text, j + 1, <<>>)
          [] c = "-" \/ IsDigit(c) -> ParseNumber(text, j)
          [] OTHER -> ParseSpecific(text, j)

\* stu_json_parse: what follows the value is ignored.
Parse(text) ==
    LET v == ParseValue(text, 1) IN IF v.ok THEN [ok |-> TRUE, item |-> v.item] ELSE Refused

-----------------------------------------------------------------------------
(* The printer and the copy.                                               *)

\* The digit of d at a decimal place, and the digits before the point.
PlaceOf(d, k) == IF d[3] + k \in DOMAIN d[2] THEN d[2][d[3] + k] ELSE "0"
WholePart(d) == IF d[3] <= 0 THEN <<"0">> ELSE [k \in 1 .. d[3] |-> PlaceOf(d, k - d[3])]
Decimals(d) == Len(d[2]) - d[3]

\* %f: six decimals.  The digits of the texts are ones, rounding is cutting.
PrintFixed(d) == WholePart(d) \o <<".">> \o [k \in 1 .. 6 |-> PlaceOf(d, k)]

\* %e: a digit and six decimals.
PrintScientific(d) ==
    LET power == d[3] - 1
        size  == IF power < 0 THEN - power ELSE power
    IN  PrintFixed(<<FALSE, d[2], 1>>)
            \o <<"e", IF power < 0 THEN "-" ELSE "+">>
            \o (IF size > 99 THEN <<Digit(size \div 100)>> ELSE <<>>)
            \o <<Digit((size \div 10) % 10), Digit(size % 10)>>

\* A faulty variant: never an exponent.
FixedAlways(d) == FALSE

\* fabs(d) < 1.0e-6 || fabs(d) > 1.0e9
OutOfScale(d) == d[3] < -5 \/ d[3] > 9

\* stu_json_print_number: an integer (of the type int, or one that a double is nearer
\* to than DBL_EPSILON), a whole number below 1.0e60, or a fraction.  %.0f also prints
\* what a double has behind its digits, zeros here.
PrintNumber(d) ==
    LET sign == IF d[1] THEN <<"-">> ELSE <<>>
        near == \A k \in 1 .. 15 : PlaceOf(d, k) = "0"
    IN  CASE d = Zero -> <<"0">>
          [] Infinite(d) -> <<"null">>
          [] near /\ d[3] <= 0 -> <<"0">>
          [] near /\ d[3] \in 1 .. 60 -> sign \o WholePart(d)
          [] OTHER -> sign \o IF OutOfScale(d) THEN PrintScientific(d) ELSE PrintFixed(d)

RECURSIVE PrintValue(_), Duplicate(_, _)

\* A faulty variant: a comma after the last one, too.
CommasAfter(texts) == FlattenSeq([i \in DOMAIN texts |-> texts[i] \o <<",">>])

Commas(texts) ==
    FlattenSeq([i \in DOMAIN texts |-> IF i < Len(texts) THEN texts[i] \o <<",">> ELSE texts[i]])

PrintValue(item) ==
    CASE item.type = "null" -> <<"null">>
      [] item.type = "boolean" -> item.value
      [] item.type = "number" -> PrintNumber(item.value)
      [] item.type = "string" -> <<Quote>> \o item.value \o <<Quote>>
      [] item.type = "array" ->
            <<"[">> \o Commas([i \in DOMAIN item.value |-> PrintValue(item.value[i])]) \o <<"]">>
      [] item.type = "object" ->
            <<"{">> \o Commas([i \in DOMAIN item.value |->
                        <<Quote>> \o item.value[i].key \o <<Quote, ":">> \o PrintValue(item.value[i])])
                    \o <<"}">>

\* stu_json_create leaves the value zero.
Created(type) == IF type = "boolean" THEN <<"false">> ELSE <<>>

\* A faulty variant: the copy of a copy loses its name.
CopyNoKey(item, value) == Item(item.type, value)

Copy(item, value) == [item EXCEPT !.value = value]

Duplicate(item, recurse) ==
    CASE item.type \in {"string", "number"} -> Copy(item, item.value)
      [] item.type \in {"array", "object"} /\ recurse ->
            Copy(item, [i \in DOMAIN item.value |-> Duplicate(item.value[i], recurse)])
      [] OTHER -> Copy(item, Created(item.type))

-----------------------------------------------------------------------------
(* The reference.                                                          *)

VARIABLES
    text,       \* what was typed
    mode,       \* what may follow
    blank,      \* only blanks were typed since the value was due
    cur,        \* the characters of the name, string or number that is typed
    frames,     \* the arrays and objects that are open
    tree        \* the value, when it is complete

vars == <<text, mode, blank, cur, frames, tree>>

Init ==
    /\ text = <<>> /\ mode = "value" /\ blank = FALSE /\ cur = <<>> /\ frames = <<>>
    /\ tree = Item("none", <<>>)

Top == frames[Len(frames)]
Under == SubSeq(frames, 1, Len(frames) - 1)

\* The frame with one more value.
With(frame, item) ==
    [frame EXCEPT !.items = Append(@, IF frame.type = "object" THEN WithKey(item, frame.name) ELSE item)]

\* A value is complete, below it are these frames.
Complete(item, below) ==
    /\ IF below = <<>>
       THEN mode' = "done" /\ tree' = item /\ frames' = <<>>
       ELSE /\ mode' = "after" /\ UNCHANGED tree
            /\ frames' = [below EXCEPT ![Len(below)] = With(@, item)]
    /\ cur' = <<>>

Stay(m, typed) == mode' = m /\ cur' = typed /\ UNCHANGED <<frames, tree>>

Open(type, m) ==
    /\ mode' = m /\ cur' = <<>> /\ UNCHANGED tree
    /\ frames' = Append(frames, [type |-> type, name |-> <<>>, items |-> <<>>])

TypeInValue(c) ==
    CASE c = Blank -> Stay("value", <<>>)
      [] c = Quote -> Stay("string", <<>>)
      [] c = "{" -> Open("object", "name")
      [] c = "[" -> Open("array", "value")
      [] c = "1" -> Stay("whole", <<c>>)
      [] c = "-" -> Stay("minus", <<c>>)
      [] c \in Words -> Complete(Word(c), frames)
      [] OTHER -> Stay("bad", <<>>)

\* c after a value; the frames as they are with that value.
TypeAfter(c, fs) ==
    LET top == fs[Len(fs)]
    IN  CASE c = Blank -> mode' = "after" /\ frames' = fs /\ cur' = <<>> /\ UNCHANGED tree
          [] c = "," -> /\ mode' = IF top.type = "array" THEN "value" ELSE "name"
                        /\ frames' = fs /\ cur' = <<>> /\ UNCHANGED tree
          [] c = (IF top.type = "array" THEN "]" ELSE "}") ->
                Complete(Item(top.type, top.items), SubSeq(fs, 1, Len(fs) - 1))
          [] OTHER -> Stay("bad", <<>>)

\* A number is complete with its digits, its decimals or the digits of its exponent.
Numbered == {"whole", "decimals", "power"}

\* What the characters of a number are worth: an "e" without digits ends it.
Worth(chars) ==
    LET has(c) == \E i \in DOMAIN chars : chars[i] = c
        at(c)  == SelectInSeq(chars, LAMBDA x : x = c)
        e      == IF has("e") THEN at("e") ELSE Len(chars) + 1
        point  == IF has(".") THEN at(".") ELSE e
        tail   == SelectSeq(SubSeq(chars, e + 1, Len(chars)), IsDigit)
        power  == Power(tail) * IF e < Len(chars) /\ chars[e + 1] = "-" THEN -1 ELSE 1
        ones   == SelectSeq(SubSeq(chars, 1, point - 1), IsDigit)
    IN  Item("number", Double(chars[1] = "-", ones, SubSeq(chars, point + 1, e - 1), power))

\* c ends the number.
TypeAfterNumber(c) ==
    IF frames = <<>> THEN Complete(Worth(cur), <<>>)
    ELSE TypeAfter(c, [frames EXCEPT ![Len(frames)] = With(@, Worth(cur))])

TypeInNumber(c) ==
    CASE c = "1" -> Stay(CASE mode \in {"minus", "whole"} -> "whole"
                           [] mode \in {"point", "decimals"} -> "decimals"
                           [] OTHER -> "power", Append(cur, c))
      [] c = "." /\ mode \in {"minus", "whole"} ->
            Stay(IF mode = "minus" THEN "point" ELSE "decimals", Append(cur, c))
      [] c = "e" /\ mode \in {"whole", "decimals"} -> Stay("e", Append(cur, c))
      [] c = "-" /\ mode = "e" -> Stay("e-", Append(cur, c))
      [] OTHER -> IF mode \in Numbered \/ (mode \in {"e", "e-"} /\ frames = <<>>)
                  THEN TypeAfterNumber(c) ELSE Stay("bad", <<>>)

TypeInName(c) ==
    CASE mode = "name" /\ c \in {Blank, Quote} -> Stay(IF c = Quote THEN "key" ELSE "name", <<>>)
      [] mode = "key" /\ c = Quote ->
            /\ mode' = "colon" /\ cur' = <<>> /\ UNCHANGED tree
            /\ frames' = [frames EXCEPT ![Len(frames)].name = cur]
      [] mode = "key" -> Stay("key", Append(cur, c))
      [] mode = "colon" /\ c \in {Blank, ":"} -> Stay(IF c = ":" THEN "value" ELSE "colon", <<>>)
      [] OTHER -> Stay("bad", <<>>)

Type(c) ==
    /\ Len(text) < MaxLength
    /\ mode \in {"bad", "done"} => GoOn
    /\ mode \in {"key", "string"} /\ c # Quote => Len(cur) < MaxString
    /\ text' = Append(text, c)
    /\ blank' = (mode = "value" /\ c = Blank)
    /\ CASE mode = "value" -> TypeInValue(c)
         [] mode = "string" -> IF c = Quote THEN Complete(Item("string", cur), frames)
                               ELSE Stay("string", Append(cur, c))
         [] mode \in Numbered \union {"minus", "point", "e", "e-"} -> TypeInNumber(c)
         [] mode \in {"name", "key", "colon"} -> TypeInName(c)
         [] mode = "after" -> TypeAfter(c, frames)
         [] OTHER -> UNCHANGED <<mode, cur, frames, tree>>

Next == \E c \in Alphabet : Type(c)

Spec == Init /\ [][Next]_vars

-----------------------------------------------------------------------------
(* Properties.                                                             *)

\* The value of a text that is not finished: what is open is closed.
Pending ==
    CASE mode = "string" -> <<IF cur = <<>> THEN NoString ELSE InText>>
      [] mode \in Numbered -> <<Worth(cur)>>
      [] OTHER -> <<>>

RECURSIVE Closed(_, _)
Closed(fs, pending) ==
    IF fs = <<>> THEN pending[1]
    ELSE LET top  == fs[Len(fs)]
             full == IF pending = <<>> THEN top ELSE With(top, pending[1])
         IN  Closed(SubSeq(fs, 1, Len(fs) - 1), <<Item(full.type, full.items)>>)

\* The parser refuses exactly the texts that no continuation makes well formed
\* (numbers are those of strtod), those that stop after a minus sign or within an
\* exponent, and those that stop where a value is due
\* and a blank, or nothing at all, has been typed.  A complete value is parsed as
\* it was meant, whatever follows it; of an incomplete text, as if all that is
\* open was closed, but for the string within which it stops.
Agrees ==
    Parse(text) =
        CASE mode \in {"bad", "minus", "point"} -> Refused
          [] mode \in {"e", "e-"} -> IF frames = <<>> THEN [ok |-> TRUE, item |-> Worth(cur)] ELSE Refused
          [] mode = "value" /\ (blank \/ frames = <<>>) -> Refused
          [] mode = "done" -> [ok |-> TRUE, item |-> tree]
          [] OTHER -> [ok |-> TRUE, item |-> Closed(frames, Pending)]

\* A number that is printed so that nothing of it is lost: a whole one below 1e60, one
\* with six decimals at most, and with an exponent one with seven digits at most.
Exact(d) ==
    \/ d[3] <= 60 /\ Decimals(d) <= 0
    \/ d[3] <= 9 /\ Decimals(d) <= 6
    \/ Len(d[2]) <= 7 /\ d[3] > -15 /\ OutOfScale(d)

\* The number e is what is left of d.
LeftOf(d, e) ==
    IF Exact(d) THEN e = d
    ELSE IF d[3] <= -15 THEN e = Zero
    ELSE /\ e[1] = d[1] /\ e[3] = d[3] /\ IsPrefix(e[2], d[2])
         /\ Decimals(e) = 6 \/ Len(e[2]) = 7

RECURSIVE ComesBack(_, _)
ComesBack(item, again) ==
    CASE item.type = "number" /\ Infinite(item.value) -> again = [item EXCEPT !.type = "null", !.value = <<>>]
      [] item.type = "number" /\ ~ Infinite(item.value) ->
            again = [item EXCEPT !.value = again.value] /\ LeftOf(item.value, again.value)
      [] item.type \in {"array", "object"} ->
            /\ again = [item EXCEPT !.value = again.value]
            /\ DOMAIN again.value = DOMAIN item.value
            /\ \A i \in DOMAIN item.value : ComesBack(item.value[i], again.value[i])
      [] OTHER -> again = item

\* What the server prints of a value that it has parsed is parsed by a client as
\* that value, with its names, but for some numbers: what is too large for a double
\* comes back as null, what is below 1e-15 as zero, and of others only six decimals,
\* or with an exponent seven digits, come back.
Reprints ==
    mode = "done" =>
        LET again == Parse(PrintValue(tree)) IN again.ok /\ ComesBack(tree, again.item)

RECURSIVE Falsified(_)
Falsified(item) ==
    CASE item.type = "boolean" -> [item EXCEPT !.value = <<"false">>]
      [] item.type \in {"array", "object"} ->
            [item EXCEPT !.value = [i \in DOMAIN @ |-> Falsified(@[i])]]
      [] OTHER -> item

\* A recursive copy is the same value, with its names, but for booleans: the copy
\* of each is false.
Duplicates == mode = "done" => Duplicate(tree, TRUE) = Falsified(tree)
=============================================================================
