----------------------------- MODULE MCParsers ------------------------------
(***************************************************************************)
(* Model checking instances of the sequential parsers and conversions:     *)
(* HttpParse, Json, Base64, Unescape and Calendar.  A behaviour runs one   *)
(* of them, which the variable part names; the others stay as they began.  *)
(***************************************************************************)
EXTENDS Integers, Sequences

VARIABLES
    part,
    msg, sent, splits, buf, last, r, headers, pc, outcome,  \* HttpParse
    text, mode, blank, cur, frames, tree,                   \* Json
    bytes, digits,                                          \* Base64
    name, inplace, s, d, state, decoded,                    \* Unescape
    day, date                                               \* Calendar

httpVars == <<msg, sent, splits, buf, last, r, headers, pc, outcome>>
jsonVars == <<text, mode, blank, cur, frames, tree>>
bitsVars == <<bytes, digits>>
nameVars == <<name, inplace, s, d, state, decoded>>
dayVars  == <<day, date>>

-----------------------------------------------------------------------------
(* HttpParse: messages as a client or a server may send them.              *)

Header(n, v) == [name |-> n, value |-> v]
Plain == <<" ", "v">>
Spaced == <<" ", " ", "v", " ", "v", " ">>
Alike == <<" ", "v", "?", "&", "name", "=", "v">>
Up == Header("upgrade", Plain)
Key == Header("key", Plain)

HeaderLists ==
    {<<>>, <<Up>>, <<Header("host", Plain)>>,
     <<Header("host", Spaced), Up, Header("key", <<>>)>>,
     <<Header("referer", Alike), Up, Key>>,
     <<Key, Up, Header("host", Plain), Header("host", Plain)>>,
     <<Header("@", Plain), Up, Key>>,
     <<Header("HTTP/1.1", Plain), Up, Header("key", Spaced)>>,
     <<Header("key1", Plain), Up, Header("key2", Plain)>>,
     <<Key, Up, Up, Header("key", Alike)>>}

Paths == {<<"/">>, <<"x">>, <<"/", "x">>, <<"/", "x", "/", "v">>, <<"/", "x", "/">>}
Queries ==
    {<<>>, <<"?">>, <<"?", "name", "=", "v">>, <<"?", "role", "=", "v", "&", "name", "=">>,
     <<"?", "v", "name", "=", "v">>, <<"?", "name", "&", "name", "=", "v", "&", "role", "=", "v">>,
     <<"?", "role", "=", "name", "=", "v">>}

AnyRequest == [method : {"GET", "POST", "PUT", "get"}, path : Paths, query : Queries,
               version : {"HTTP/1.1", "HTTP/1.0", "HTTP/2"}, headers : HeaderLists, again : {<<>>}]

\* Requests that are cut into pieces; one waits for the second key of an old browser,
\* which comes with a second request.
Number1 == <<" ", "8", " ", "v">>
CutRequest ==
    [method : {"GET"}, path : {<<"/", "x">>}, query : {<<"?", "name", "=", "v">>},
     version : {"HTTP/1.1"}, headers : HeaderLists, again : {<<>>}]
    \union
    [method : {"GET"}, path : {<<"/">>}, query : {<<"?", "name", "=", "v">>},
     version : {"HTTP/1.1"}, headers : {<<Up, Header("key1", Number1)>>},
     again : {<<Up, Header("key2", v)>> : v \in {Number1, Plain, <<" ", "8", " ", "8", "v">>}}]

AnyResponse == [version : {"HTTP/1.1", "HTTP/1.0", "HTTP/2"}, status : {"200", "403"},
                headers : HeaderLists]

Requests  == INSTANCE HttpParse WITH Kind <- "request", Messages <- AnyRequest, Cap <- 50, Splits <- 0
Pieces    == INSTANCE HttpParse WITH Kind <- "request", Messages <- CutRequest, Cap <- 60, Splits <- 2
Responses == INSTANCE HttpParse WITH Kind <- "response", Messages <- AnyResponse, Cap <- 40, Splits <- 1

\* The message of the behaviours that do not parse one.
Unsent == [version |-> "HTTP/1.1", status |-> "200", headers |-> <<>>]

-----------------------------------------------------------------------------
(* Json: "a" stands for characters that are no part of the syntax.         *)

Texts   == INSTANCE Json WITH Alphabet <- {"\"", " ", "{", "}", "[", "]", ":", ",", "1", "-", "a",
                                           "true", "false", "null"},
                              MaxLength <- 5, MaxString <- 5, GoOn <- TRUE
Nesting == INSTANCE Json WITH Alphabet <- {"\"", "{", "}", "[", "]", ":", ",", "1", "true"},
                              MaxLength <- 12, MaxString <- 1, GoOn <- FALSE
Numbers == INSTANCE Json WITH Alphabet <- {"[", "]", "-", "1", ".", "e"},
                              MaxLength <- 17, MaxString <- 0, GoOn <- FALSE

-----------------------------------------------------------------------------
(* The conversions.                                                        *)

\* Bytes and characters with bits in all places; 64 is "=" and 65 is foreign.
Bits == INSTANCE Base64 WITH Bytes <- {0, 1, 3, 84, 170, 240, 255}, Digits <- {0, 1, 21, 42, 63, 64, 65},
                             MaxLength <- 6, input <- bytes, text <- digits

\* % + 2 5 B f z: "%25" is a percent sign, "%2B" a plus.
Names == INSTANCE Unescape WITH Chars <- {37, 43, 50, 53, 66, 102, 122}, MaxLength <- 5, buf <- inplace

\* The days of 400 years, each at the first and last seconds of a minute, an hour, a day.
Days == INSTANCE Calendar WITH MaxDay <- 146097, Seconds <- {0, 59, 60, 3599, 3600, 43201, 86399}

ASSUME PartsAssumption == Bits!Base64Assumption /\ Names!UnescapeAssumption

-----------------------------------------------------------------------------
Init ==
    /\ \/ part = "requests" /\ Requests!Init
       \/ part = "pieces" /\ Pieces!Init
       \/ part = "responses" /\ Responses!Init
       \/ part \in {"texts", "nesting", "numbers", "bits", "names", "days"} /\ msg = Unsent /\ Responses!Init
    /\ Texts!Init
    /\ Bits!Init
    /\ IF part = "names" THEN Names!Init ELSE name = <<>> /\ Names!Init
    /\ Days!Init

HttpStep ==
    /\ \/ part = "requests" /\ Requests!Next
       \/ part = "pieces" /\ Pieces!Next
       \/ part = "responses" /\ Responses!Next
    /\ UNCHANGED <<part, jsonVars, bitsVars, nameVars, dayVars>>

JsonStep ==
    /\ \/ part = "texts" /\ Texts!Next
       \/ part = "nesting" /\ Nesting!Next
       \/ part = "numbers" /\ Numbers!Next
    /\ UNCHANGED <<part, httpVars, bitsVars, nameVars, dayVars>>

BitsStep ==
    /\ part = "bits" /\ Bits!Next
    /\ UNCHANGED <<part, httpVars, jsonVars, nameVars, dayVars>>

NamesStep ==
    /\ part = "names" /\ Names!Next
    /\ UNCHANGED <<part, httpVars, jsonVars, bitsVars, dayVars>>

DaysStep ==
    /\ part = "days" /\ Days!NextDay
    /\ UNCHANGED <<part, httpVars, jsonVars, bitsVars, nameVars>>

Next == HttpStep \/ JsonStep \/ BitsStep \/ NamesStep \/ DaysStep

Spec == Init /\ [][Next]_<<part, httpVars, jsonVars, bitsVars, nameVars, dayVars>>

-----------------------------------------------------------------------------
(* Properties: those of the part that runs.                                *)

\* What the part's variables may be: the parsers' positions stay inside their buffers.
TypeOK ==
    /\ part = "requests" => Requests!TypeOK
    /\ part = "pieces" => Pieces!TypeOK
    /\ part = "responses" => Responses!TypeOK
    /\ part = "names" => Names!TypeOK



\* stu_json_parse accepts what the grammar's automaton says, with its value; what
\* stu_json_stringify prints is parsed as the value that was printed, numbers with
\* the decimals that are printed of them; and
\* stu_json_duplicate copies a value with its names, but for booleans.
JsonRight ==
    /\ part = "texts" => Texts!Agrees
    /\ part = "nesting" => Nesting!Agrees /\ Nesting!Reprints /\ Nesting!Duplicates
    /\ part = "numbers" => Numbers!Agrees /\ Numbers!Reprints /\ Numbers!Duplicates

\* stu_encode_base64 cuts the bits of its input into sixes and pads the text;
\* stu_decode_base64 takes back what was encoded, refuses exactly the malformed
\* texts and keeps the bits that make whole bytes.
Base64Right == part = "bits" => Bits!EncodesBits /\ Bits!DecodesBits

\* stu_unescape_uri, which decodes a name in place, never overwrites what it has
\* still to read, and decodes every escape once.
UnescapedInPlace == part = "names" => TypeOK /\ Names!InPlace /\ Names!Unescaped

\* stu_gmtime agrees with a calendar that is advanced day by day.
GmtimeRight == part = "days" => Days!GmtimeRight
=============================================================================
