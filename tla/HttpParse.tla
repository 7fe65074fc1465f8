----------------------------- MODULE HttpParse ------------------------------
(***************************************************************************)
(* The HTTP parser of requests and of upstream responses, from recv to the *)
(* answer.  A message is a sequence of lexemes; a lexeme stands for a run  *)
(* of characters that the parser treats alike, and a position counts       *)
(* lexemes.  The buffer is cleared before each recv and is parsed to its   *)
(* end, zeroes included; what the request keeps between two recvs are the  *)
(* state and pointers into the buffer.                                     *)
(*                                                                         *)
(* The operators that follow "A faulty variant" are not used by Spec: each *)
(* is a plausible mistake in the definition after it.                      *)
(***************************************************************************)
EXTENDS Naturals, SequencesExt

CONSTANTS
    Kind,       \* "request" or "response"
    Messages,   \* what may be sent: records, see Encode
    Cap,        \* STU_HTTP_REQUEST_DEFAULT_SIZE
    Splits      \* bound: how many times the network splits a message

CR == "CR"
LF == "LF"
NUL == "NUL"

Methods == {"GET", "POST"}
Versions == {"HTTP/1.0", "HTTP/1.1"}

\* A word with a character that is not an upper case letter.
NoMethod == "get"

\* Not a run of letters, digits, "-" and "_".
NotInName == {" ", "/", "?", "=", "&", "@", NUL}

\* Eight digits.
Eight == "8"

\* The lexemes of a message, as a client or a server sends them.  A client may ask
\* again, with other headers, while its first request waits.
Encode(m) ==
    LET line == IF Kind = "request"
                THEN <<m.method, " ">> \o m.path \o m.query \o <<" ", m.version, CR, LF>>
                ELSE <<m.version, " ", m.status, " ", "v", CR, LF>>
        header(h) == <<h.name, ":">> \o h.value \o <<CR, LF>>
        whole(hs) == line \o FlattenSeq([i \in DOMAIN hs |-> header(hs[i])]) \o <<CR, LF>>
    IN  whole(m.headers) \o IF Kind = "request" /\ m.again # <<>> THEN whole(m.again) ELSE <<>>

VARIABLES
    msg,        \* the message that is sent
    sent,       \* how much of it has arrived
    splits,     \* how often it was split
    buf, last,  \* the buffer and the position of the parser
    r,          \* the stu_http_request_t
    headers,    \* the header lines found: name and value
    pc,         \* "recv", "line", "header", "end"
    outcome     \* how it ended, if it did

vars == <<msg, sent, splits, buf, last, r, headers, pc, outcome>>

Empty == [i \in 1 .. Cap |-> NUL]

\* A stu_http_request_t: v and s are locals of the parser, lost when it returns.
Fresh == [state |-> "start", line |-> 0, method |-> "", uri |-> 0, uriEnd |-> 0, target |-> 0,
          args |-> 0, argsEnd |-> 0, v |-> 0, s |-> 0, version |-> "", status |-> 0,
          invalid |-> FALSE, name |-> 0, nameEnd |-> 0, value |-> 0, valueEnd |-> 0,
          host |-> 0, upgrade |-> 0, key1 |-> <<>>, key2 |-> <<>>, accept |-> 0, rc |-> ""]

Init ==
    /\ msg \in Messages
    /\ sent = 0
    /\ splits = 0
    /\ buf = Empty
    /\ last = 1
    /\ r = Fresh
    /\ headers = <<>>
    /\ pc = "recv"
    /\ outcome = "none"

-----------------------------------------------------------------------------
\* stu_http_wait_request_handler: the buffer starts again for what has arrived
\* by now; a full one is thrown away.
Recv(n) ==
    /\ pc = "recv" /\ outcome = "none"
    /\ n \in 1 .. Len(Encode(msg)) - sent
    /\ n <= Cap
    /\ sent + n < Len(Encode(msg)) => splits < Splits
    /\ sent' = sent + n
    /\ splits' = splits + 1
    /\ last' = 1
    /\ IF n = Cap /\ Kind = "request"
       THEN buf' = Empty /\ pc' = "recv"
       ELSE /\ buf' = [i \in 1 .. Cap |-> IF i <= n THEN Encode(msg)[sent + i] ELSE NUL]
            /\ pc' = "line"
    /\ UNCHANGED <<msg, r, headers, outcome>>

-----------------------------------------------------------------------------
To(x, state) == [x EXCEPT !.state = state]
Fail(x) == [x EXCEPT !.rc = "error"]

\* A faulty variant: the state is not reset.
OkKeepsState(x) == [x EXCEPT !.rc = "ok"]

Ok(x) == [x EXCEPT !.state = "start", !.rc = "ok"]

\* A faulty variant: any version.
AnyVersion(v) == TRUE

\* "HTTP/1.1" or "HTTP/1.0".
Known(v) == v \in Versions

\* A faulty variant: the slash stays.
TargetWithSlash(x) == x.target

\* if (*r->target.data == '/') r->target.data++;
Target(x) == IF buf[x.target] = "/" THEN x.target + 1 ELSE x.target

\* What v points to, when it was set in this call; else anything.
Pointed(v, guess) == IF v = 0 THEN guess ELSE buf[v]

\* stu_http_parse_request_line, one character.
RequestLine(x, c, p, guess) ==
    CASE x.state = "start" ->
            IF c = NoMethod THEN Fail(x) ELSE [x EXCEPT !.line = p, !.state = "method"]
      [] x.state = "method" ->
            IF c = " "
            THEN [x EXCEPT !.state = "before_uri",
                           !.method = IF buf[x.line] \in Methods THEN buf[x.line] ELSE @]
            ELSE IF c \in {"GET", "POST", "PUT"} THEN x ELSE Fail(x)
      [] x.state = "before_uri" -> [x EXCEPT !.uri = p, !.target = p, !.state = "uri"]
      [] x.state = "uri" /\ c = "?" ->
            [x EXCEPT !.uriEnd = p, !.target = Target(x), !.args = p + 1, !.state = "args"]
      [] x.state = "uri" /\ c = " " ->
            [x EXCEPT !.uriEnd = p, !.target = Target(x), !.state = "before_ver"]
      [] x.state = "uri" /\ c = "/" -> [x EXCEPT !.target = p]
      [] x.state = "args" /\ c = " " -> [x EXCEPT !.argsEnd = p, !.state = "before_ver"]
      [] x.state = "before_ver" -> [x EXCEPT !.v = p, !.state = "version"]
      [] x.state = "version" /\ c = CR ->
            IF Known(Pointed(x.v, guess))
            THEN [x EXCEPT !.version = Pointed(x.v, guess), !.state = "almost_done"]
            ELSE Fail(x)
      [] x.state = "almost_done" -> IF c = LF THEN Ok(x) ELSE Fail(x)
      [] OTHER -> x

\* stu_http_parse_status_line, one character.
StatusLine(x, c, p, guess) ==
    CASE x.state = "start" -> [x EXCEPT !.line = p, !.v = p, !.state = "version"]
      [] x.state = "version" /\ c = " " ->
            IF Known(Pointed(x.v, guess))
            THEN [x EXCEPT !.version = Pointed(x.v, guess), !.state = "before_status"]
            ELSE Fail(x)
      [] x.state = "before_status" -> [x EXCEPT !.s = p, !.state = "status"]
      [] x.state = "status" ->
            IF c = " " THEN [x EXCEPT !.status = x.s, !.state = "before_explain"] ELSE Fail(x)
      [] x.state = "before_explain" -> To(x, "explain")
      [] x.state = "explain" /\ c = CR -> To(x, "almost_done")
      [] x.state = "almost_done" -> IF c = LF THEN Ok(x) ELSE Fail(x)
      [] OTHER -> x

\* stu_http_parse_header_line, one character: the beginning of a line, the name.
HeaderName(x, c, p) ==
    CASE x.state = "start" ->
            LET y == [x EXCEPT !.name = p, !.invalid = FALSE]
            IN  IF c = CR THEN To(y, "header_almost_done")
                ELSE IF c = LF THEN [Ok(y) EXCEPT !.rc = "done"]
                ELSE IF c = NUL THEN Fail(y)
                ELSE IF c \in Versions THEN To(y, "ignore_line")
                ELSE [y EXCEPT !.invalid = c \in NotInName, !.state = "name"]
      [] x.state = "name" ->
            LET y == [x EXCEPT !.nameEnd = p, !.value = p, !.valueEnd = p]
            IN  IF c = ":" THEN [x EXCEPT !.nameEnd = p, !.state = "before_value"]
                ELSE IF c = CR THEN To(y, "almost_done")
                ELSE IF c = LF THEN Ok(y)
                ELSE IF c = NUL THEN Fail(x)
                ELSE [x EXCEPT !.invalid = @ \/ c \in NotInName]

\* A faulty variant: spaces at the end belong to the value.
EndOfValueLate(x, c, p) == IF c = " " THEN x.valueEnd ELSE p

\* r->header_end while a value is read.
EndOfValue(x, c, p) == p

\* stu_http_parse_header_line, one character: the value, the end of a line.
HeaderValue(x, c, p) ==
    CASE x.state = "before_value" ->
            LET y == [x EXCEPT !.value = p, !.valueEnd = p]
            IN  IF c = " " THEN x
                ELSE IF c = CR THEN To(y, "almost_done")
                ELSE IF c = LF THEN Ok(y)
                ELSE IF c = NUL THEN Fail(x)
                ELSE [x EXCEPT !.value = p, !.state = "value"]
      [] x.state = "value" ->
            LET y == [x EXCEPT !.valueEnd = EndOfValue(x, c, p)]
            IN  IF c = " " THEN To(y, "after_value")
                ELSE IF c = CR THEN To(y, "almost_done")
                ELSE IF c = LF THEN Ok(y)
                ELSE IF c = NUL THEN Fail(x)
                ELSE x
      [] x.state = "after_value" ->
            IF c = " " THEN x
            ELSE IF c = CR THEN To(x, "almost_done")
            ELSE IF c = LF THEN Ok(x)
            ELSE IF c = NUL THEN Fail(x)
            ELSE To(x, "value")
      [] x.state = "ignore_line" -> IF c = LF THEN To(x, "start") ELSE x
      [] x.state = "almost_done" -> IF c = LF THEN Ok(x) ELSE IF c = CR THEN x ELSE Fail(x)
      [] x.state = "header_almost_done" ->
            IF c = LF THEN [Ok(x) EXCEPT !.rc = "done"] ELSE Fail(x)
      [] OTHER -> x

HeaderLine(x, c, p) == IF x.state \in {"start", "name"} THEN HeaderName(x, c, p) ELSE HeaderValue(x, c, p)

-----------------------------------------------------------------------------
\* r->state is a number: that of the header state is another one of the line.
ResumeLine(state) == IF state = "ignore_line" THEN "before_ver" ELSE state

\* The first line, to the next character.
ParseLine(guess) ==
    /\ pc = "line" /\ last <= Cap
    /\ LET x == IF Kind = "request" THEN RequestLine([r EXCEPT !.rc = ""], buf[last], last, guess)
                ELSE StatusLine([r EXCEPT !.rc = ""], buf[last], last, guess)
       IN  /\ r' = x
           /\ pc' = IF x.rc = "error" THEN "end" ELSE IF x.rc = "ok" THEN "header" ELSE "line"
           /\ outcome' = IF x.rc = "error" THEN "refused" ELSE "none"
    /\ last' = last + 1
    /\ UNCHANGED <<msg, sent, splits, buf, headers>>

\* The buffer ends before the line: STU_AGAIN is not looked at, and the parser
\* of header lines finds nothing to do.
LineEnds ==
    /\ pc = "line" /\ last > Cap
    /\ pc' = "header"
    /\ UNCHANGED <<msg, sent, splits, buf, last, r, headers, outcome>>

ParseHeader ==
    /\ pc = "header" /\ last <= Cap
    /\ LET x == HeaderLine([r EXCEPT !.rc = ""], buf[last], last)
       IN  /\ r' = x
           /\ pc' = CASE x.rc = "error" -> "end" [] x.rc = "ok" -> "process"
                      [] x.rc = "done" -> "answer" [] OTHER -> "header"
           /\ outcome' = IF x.rc = "error" THEN "refused" ELSE "none"
    /\ last' = last + 1
    /\ UNCHANGED <<msg, sent, splits, buf, headers>>

\* STU_AGAIN: a request waits for more, with the state and without v and s; for
\* a response the loop goes on, and finds the same again.
HeaderEnds ==
    /\ pc = "header" /\ last > Cap
    /\ IF Kind = "request"
       THEN pc' = "recv" /\ outcome' = "none"
       ELSE pc' = "end" /\ outcome' = "spins"
    /\ r' = [r EXCEPT !.v = 0, !.s = 0, !.state = ResumeLine(@)]
    /\ UNCHANGED <<msg, sent, splits, buf, last, headers>>

-----------------------------------------------------------------------------
Name == buf[r.name]
First(old) == IF old = 0 THEN r.value ELSE old
FirstKey(old) == IF old = <<>> THEN <<r.value, r.valueEnd>> ELSE old

\* A faulty variant: the result is ignored here too.
HostUnchecked(x) == FALSE

\* stu_http_process_unique_header_line, where its result is looked at.
DuplicateHost(x) == Name = "host" /\ x.host # 0

\* The handlers of the headers.
Handled ==
    CASE Name = "host" -> [r EXCEPT !.host = First(@)]
      [] Name = "upgrade" -> [r EXCEPT !.upgrade = First(@)]
      [] Name = "key" -> [r EXCEPT !.accept = r.value]
      [] Name \in {"key1", "key2"} ->
            LET x == IF Name = "key1" THEN [r EXCEPT !.key1 = FirstKey(@)]
                     ELSE [r EXCEPT !.key2 = FirstKey(@)]
            IN  IF <<>> \in {x.key1, x.key2} THEN x ELSE [x EXCEPT !.accept = r.value]
      [] OTHER -> r


\* stu_http_process_sec_websocket_key_for_safari returns STU_AGAIN.
Waits(x) == Name \in {"key1", "key2"} /\ <<>> \in {x.key1, x.key2}

\* The number of a key: its digits go to 16 bytes, the last for a zero, and are
\* divided by how many spaces it has.  The value is where it was in the buffer, be
\* the buffer another by now.
Number(key) ==
    LET places(c) == Cardinality({i \in key[1] .. key[2] - 1 : buf[i] = c})
    IN  IF 8 * places(Eight) >= 16 THEN "overrun"
        ELSE IF places(" ") = 0 THEN "crashed"
        ELSE "none"

\* The two keys, one after the other.
Keys(x) ==
    IF Name \notin {"key1", "key2"} \/ Waits(x) THEN "none"
    ELSE IF Number(x.key1) # "none" THEN Number(x.key1) ELSE Number(x.key2)

\* The name and the value are terminated in the buffer.
Terminate(x) == [buf EXCEPT ![x.nameEnd] = NUL, ![x.valueEnd] = NUL]

\* A header line is there; one that is refused, ignored, or has to wait.
ProcessHeader ==
    /\ pc = "process"
    /\ IF r.invalid
       THEN /\ pc' = IF Kind = "request" THEN "end" ELSE "header"
            /\ outcome' = IF Kind = "request" THEN "refused" ELSE "none"
            /\ UNCHANGED <<buf, r, headers>>
       ELSE /\ buf' = Terminate(r)
            /\ headers' = Append(headers, [name |-> Name, value |-> SubSeq(buf, r.value, r.valueEnd - 1)])
            /\ r' = IF Kind = "request" THEN Handled ELSE r
            /\ IF Kind = "request" /\ DuplicateHost(r)
               THEN pc' = "end" /\ outcome' = "refused"
               ELSE /\ outcome' = IF Kind = "request" THEN Keys(r') ELSE "none"
                    /\ pc' = IF outcome' # "none" THEN "end"
                             ELSE IF Kind = "request" /\ Waits(r') THEN "recv" ELSE "header"
    /\ UNCHANGED <<msg, sent, splits, last>>

-----------------------------------------------------------------------------
\* stu_http_arg: a search for the name is bounded by a zero in the buffer only;
\* it is not begun again after the end of the arguments.
Arg(name) ==
    LET stop == CHOOSE i \in r.args .. Cap : buf[i] = NUL /\ \A j \in r.args .. i - 1 : buf[j] # NUL
        hits == {p \in r.args .. stop - 1 :
                    /\ buf[p] = name /\ buf[p + 1] = "="
                    /\ p = r.args \/ buf[p - 1] = "&"
                    /\ \A q \in r.argsEnd .. p - 1 : buf[q] # name}
    IN  IF r.argsEnd = r.args THEN 0
        ELSE IF hits = {} THEN 0
        ELSE CHOOSE p \in hits : \A q \in hits : p <= q

\* A faulty variant: the last argument ends where the parser is.
ArgEndLate(p) ==
    IF \E i \in p .. r.argsEnd - 1 : buf[i] = "&"
    THEN CHOOSE i \in p .. r.argsEnd - 1 : buf[i] = "&" /\ \A j \in p .. i - 1 : buf[j] # "&"
    ELSE last

\* Where the value of the argument at p ends.
ArgEnd(p) ==
    IF \E i \in p .. r.argsEnd - 1 : buf[i] = "&"
    THEN CHOOSE i \in p .. r.argsEnd - 1 : buf[i] = "&" /\ \A j \in p .. i - 1 : buf[j] # "&"
    ELSE r.argsEnd


\* stu_http_request_handler: the 101 begins with a copy of *accept.
Switch == IF r.accept = 0 THEN "crashed" ELSE "upgraded"

\* stu_http_process_request (PREVIEW): the header is complete.
AnswerRequest ==
    /\ pc = "answer" /\ Kind = "request"
    /\ outcome' = IF r.upgrade = 0 \/ Arg("name") = 0 THEN "refused" ELSE Switch
    /\ pc' = "end"
    /\ UNCHANGED <<msg, sent, splits, buf, last, r, headers>>

AnswerResponse ==
    /\ pc = "answer" /\ Kind = "response"
    /\ outcome' = "read"
    /\ pc' = "end"
    /\ UNCHANGED <<msg, sent, splits, buf, last, r, headers>>

Next ==
    \/ \E n \in 1 .. Cap : Recv(n)
    \/ \E guess \in Versions \union {"other"} : ParseLine(guess)
    \/ LineEnds \/ ParseHeader \/ HeaderEnds \/ ProcessHeader
    \/ AnswerRequest \/ AnswerResponse

Spec == Init /\ [][Next]_vars

-----------------------------------------------------------------------------
(* Properties.                                                             *)

LineStates == {"start", "method", "before_uri", "uri", "args", "before_ver", "version",
               "before_status", "status", "before_explain", "explain", "almost_done"}
HeaderStates == {"start", "name", "before_value", "value", "after_value", "ignore_line",
                 "almost_done", "header_almost_done"}

TypeOK ==
    /\ msg \in Messages /\ sent \in 0 .. Len(Encode(msg)) /\ splits \in 0 .. Splits + 1
    /\ Len(buf) = Cap /\ last \in 1 .. Cap + 1
    /\ pc \in {"recv", "line", "header", "process", "answer", "end"}
    /\ r.state \in CASE pc \in {"recv", "line"} -> LineStates
                     [] pc = "header" /\ last <= Cap -> HeaderStates
                     [] pc \in {"process", "answer"} -> {"start"}
                     [] OTHER -> LineStates \union HeaderStates
    /\ outcome \in {"none", "refused", "upgraded", "read", "spins", "crashed", "overrun"}

\* The reference: what a message in one piece means.
Trim(v) == LET words == {i \in DOMAIN v : v[i] # " "}
           IN  IF words = {} THEN <<>>
               ELSE SubSeq(v, CHOOSE i \in words : \A j \in words : i <= j,
                              CHOOSE i \in words : \A j \in words : i >= j)
Named(m, n) == {i \in DOMAIN m.headers : m.headers[i].name = n}
Valid(m) == SelectSeq(m.headers, LAMBDA h : h.name \notin NotInName \union Versions)
NamePlace(q) == {i \in 2 .. Len(q) - 1 : q[i] = "name" /\ q[i + 1] = "=" /\ q[i - 1] \in {"?", "&"}}
Understood(m) ==
    /\ m.version \in Versions
    /\ Kind = "request" =>
          /\ m.method # NoMethod
          /\ \A h \in ToSet(m.headers) : h.name \notin NotInName
          /\ Cardinality(Named(m, "host")) <= 1
Complete(m) ==
    Understood(m) /\ (Kind = "request" => Named(m, "upgrade") # {} /\ NamePlace(m.query) # {})
Keyless(m) == Kind = "request" /\ Named(m, "key") = {}

Ended == pc = "end" /\ splits = 1 /\ sent = Len(Encode(msg))

\* A message that arrives in one piece is answered as it deserves: upgraded, or
\* read, exactly when it is well formed, complete and has a key.  A request that
\* lacks nothing but the key ends the worker.
Verdict ==
    Ended =>
        /\ outcome \in {"upgraded", "read"} <=> Complete(msg) /\ ~ Keyless(msg)
        /\ outcome = "crashed" <=> Complete(msg) /\ Keyless(msg)

\* The pointers that the parser leaves in the buffer delimit the method, the
\* path, the channel (the last segment of the path), the arguments and the
\* header lines of the message, spaces around values left out.
Extracted ==
    Ended /\ outcome \in {"upgraded", "read"} =>
        /\ [i \in DOMAIN headers |-> headers[i]] =
              [i \in DOMAIN Valid(msg) |->
                 [name |-> Valid(msg)[i].name, value |-> Trim(Valid(msg)[i].value)]]
        /\ Kind = "response" => buf[r.status] = msg.status
        /\ Kind = "request" =>
              LET path == msg.path
                  slashes == {i \in DOMAIN path : path[i] = "/"} \union {0}
                  from == 1 + CHOOSE i \in slashes : \A j \in slashes : i >= j
              IN  /\ msg.method \in Methods => r.method = msg.method
                  /\ SubSeq(buf, r.uri, r.uriEnd - 1) = path
                  /\ SubSeq(buf, r.target, r.uriEnd - 1) = SubSeq(path, from, Len(path))
                  /\ SubSeq(buf, r.args, r.argsEnd - 1) = Tail(msg.query)

\* The user's name comes from the arguments and ends with them, although the
\* search for it does not stop at their end and headers may contain the like:
\* the zero after the name of the first header stops it.
ArgInside ==
    Ended /\ outcome = "upgraded" =>
        LET p == Arg("name")
        IN  /\ r.args <= p /\ p + 2 <= ArgEnd(p) /\ ArgEnd(p) <= r.argsEnd
            /\ p - r.args + 2 \in NamePlace(msg.query)

=============================================================================
