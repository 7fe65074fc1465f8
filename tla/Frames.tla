------------------------------- MODULE Frames -------------------------------
(***************************************************************************)
(* The WebSocket frames of one connection: what recv() appended to the     *)
(* connection's buffer, the byte states of stu_websocket_parse_frame, the  *)
(* list of frames that it fills, and the loop of                           *)
(* stu_websocket_process_request that makes messages of them.  All of it   *)
(* runs with c->lock held, so one connection is one sequential machine;    *)
(* what varies is where recv() cuts the client's bytes.                    *)
(*                                                                         *)
(* Bytes are integers.  The bytes of payloads and of masking keys stand    *)
(* for one of their bits: they are 0 or 1, and ^ is addition modulo 2.     *)
(*                                                                         *)
(* The operators that follow "A faulty variant" are not used by Spec: each *)
(* is a plausible mistake in the definition after it.                      *)
(***************************************************************************)
EXTENDS Integers, Sequences, SequencesExt

CONSTANTS
    FrameSeqs,      \* what a client may send: a set of sequences of frames
    BufSize,        \* STU_WEBSOCKET_REQUEST_DEFAULT_SIZE
    AllocOutcomes   \* what an allocation may answer

\* STU_WEBSOCKET_OPCODE_TEXT and so on; 0 is a continuation.
TEXT   == 1
BINARY == 2
CLOSE  == 8

-----------------------------------------------------------------------------
(* The client's side: a frame has fin, opcode, form (how its length is     *)
(* written: 7, 16 or 64 bits), key (<<>> when it is not masked) and data.  *)

Xor(a, b) == (a + b) % 2

Mask(data, key) == [i \in DOMAIN data |-> Xor(data[i], key[((i - 1) % 4) + 1])]

\* The bytes of a frame's length; the first bit says that the frame is masked.
Size(f) ==
    LET mask == IF f.key = <<>> THEN 0 ELSE 128
        len  == Len(f.data)
    IN  IF f.form = 7  THEN <<mask + len>> ELSE
        IF f.form = 16 THEN <<mask + 126, 0, len>>
                       ELSE <<mask + 127, 0, 0, 0, 0, 0, 0, 0, len>>

\* The bytes of a frame.
Encode(f) ==
    <<128 * f.fin + f.opcode>> \o Size(f) \o f.key
        \o (IF f.key = <<>> THEN f.data ELSE Mask(f.data, f.key))

\* The frames of clients: a key has four bytes, and the last byte of the length is
\* enough for it.
SentFrame ==
    {f \in [fin : {0, 1}, opcode : 0 .. 15, form : {7, 16, 64}, key : Seq({0, 1}), data : Seq({0, 1})] :
        /\ Len(f.key) \in {0, 4}
        /\ Len(f.data) <= IF f.form = 7 THEN 125 ELSE 255}

ASSUME FramesAssumption ==
    /\ FrameSeqs \subseteq Seq(SentFrame)
    /\ BufSize \in Nat \ {0}
    /\ AllocOutcomes \subseteq {"ok", "null"}

-----------------------------------------------------------------------------
VARIABLES
    sent,       \* the frames that the client sends
    rest,       \* their bytes that were not received yet
    buf,        \* c->buffer, from start to end
    last,       \* c->buffer.last
    state,      \* r->state
    chain,      \* r->frames_in and the frames that follow it
    cur,        \* which of them r->frame is
    pc,         \* where stu_websocket_process_request is
    delivered,  \* the messages given to stu_websocket_analyze_request
    open,       \* the connection is open
    overrun     \* recv() wrote behind the end of the buffer

vars == <<sent, rest, buf, last, state, chain, cur, pc, delivered, open, overrun>>

\* A frame as stu_calloc returns it; start and end are offsets in the buffer.
NewFrame == [fin |-> 0, opcode |-> 0, mask |-> 0, extended |-> 0,
             key |-> <<0, 0, 0, 0>>, start |-> 0, end |-> 0]

Init ==
    /\ sent \in FrameSeqs
    /\ rest = FlattenSeq([i \in DOMAIN sent |-> Encode(sent[i])])
    /\ buf = <<>>
    /\ last = 0
    /\ state = "fin"
    /\ chain = <<NewFrame>>
    /\ cur = 1
    /\ pc = "idle"
    /\ delivered = <<>>
    /\ open = TRUE
    /\ overrun = FALSE

-----------------------------------------------------------------------------
(* stu_websocket_wait_request_handler.                                     *)

\* recv() appends n bytes, and stu_websocket_create_request starts over with
\* the first frame of the list.  recv() is told the size of the whole buffer,
\* also when a part of it is used.
Recv(n) ==
    /\ pc = "idle"
    /\ open
    /\ n <= Len(rest)
    /\ buf' = buf \o SubSeq(rest, 1, n)
    /\ rest' = SubSeq(rest, n + 1, Len(rest))
    /\ overrun' = (Len(buf) + n > BufSize)
    /\ cur' = 1
    /\ pc' = "parse"
    /\ UNCHANGED <<sent, last, state, chain, delivered, open>>

\* The client ends the connection, or recv() fails.
Hangup ==
    /\ pc = "idle"
    /\ open
    /\ open' = FALSE
    /\ UNCHANGED <<sent, rest, buf, last, state, chain, cur, pc, delivered, overrun>>

-----------------------------------------------------------------------------
(* stu_websocket_parse_frame, one state at a time.                         *)

\* How many bytes a state needs at once; each needs at least one.
Needs ==
    CASE state = "extended_2"   -> 2
      [] state = "extended_8"   -> 8
      [] state = "masking_key"  -> 4
      [] state = "payload_data" -> chain[cur].extended
      [] OTHER                  -> 1

InState(s) ==
    /\ pc = "parse"
    /\ state = s
    /\ last < Len(buf)
    /\ Len(buf) - last >= Needs

\* The k-th byte from p on.
Byte(k) == buf[last + k]

\* The state after the length of a frame.
AfterLength(mask) == IF mask = 1 THEN "masking_key" ELSE "payload_data"

ParseFin ==
    /\ InState("fin")
    /\ chain' = [chain EXCEPT ![cur].fin = Byte(1) \div 128,
                              ![cur].opcode = Byte(1) % 16]
    /\ state' = "mask"
    /\ last' = last + 1
    /\ UNCHANGED <<sent, rest, buf, cur, pc, delivered, open, overrun>>

ParseMask ==
    /\ InState("mask")
    /\ LET mask == Byte(1) \div 128
           len  == Byte(1) % 128
       IN  /\ chain' = [chain EXCEPT ![cur].mask = mask,
                                     ![cur].extended = IF len < 126 THEN len ELSE @]
           /\ state' = CASE len = 126 -> "extended_2"
                         [] len = 127 -> "extended_8"
                         [] OTHER     -> AfterLength(mask)
    /\ last' = last + 1
    /\ UNCHANGED <<sent, rest, buf, cur, pc, delivered, open, overrun>>

\* A faulty variant: do not wait for the second byte of the length.
ParseExtended2Early ==
    /\ pc = "parse" /\ state = "extended_2" /\ last < Len(buf)
    /\ chain' = [chain EXCEPT ![cur].extended = Byte(1)]
    /\ state' = AfterLength(chain[cur].mask)
    /\ last' = last + 1
    /\ UNCHANGED <<sent, rest, buf, cur, pc, delivered, open, overrun>>

ParseExtended2 ==
    /\ InState("extended_2")
    /\ chain' = [chain EXCEPT ![cur].extended = 256 * Byte(1) + Byte(2)]
    /\ state' = AfterLength(chain[cur].mask)
    /\ last' = last + 2
    /\ UNCHANGED <<sent, rest, buf, cur, pc, delivered, open, overrun>>

\* The six high bytes are 0 in every length that fits into the buffer.
ParseExtended8 ==
    /\ InState("extended_8")
    /\ chain' = [chain EXCEPT ![cur].extended = 256 * Byte(7) + Byte(8)]
    /\ state' = AfterLength(chain[cur].mask)
    /\ last' = last + 8
    /\ UNCHANGED <<sent, rest, buf, cur, pc, delivered, open, overrun>>

\* The key is stored in the first frame of the list, whichever is parsed.
ParseKey ==
    /\ InState("masking_key")
    /\ chain' = [chain EXCEPT ![1].key = SubSeq(buf, last + 1, last + 4)]
    /\ state' = "payload_data"
    /\ last' = last + 4
    /\ UNCHANGED <<sent, rest, buf, cur, pc, delivered, open, overrun>>

\* The payload is unmasked in the buffer, with the key of r->frame.
Unmasked(f) ==
    [i \in DOMAIN buf |->
        IF f.mask = 1 /\ f.opcode \in {TEXT, BINARY} /\ i \in last + 1 .. last + f.extended
        THEN Xor(buf[i], f.key[((i - last - 1) % 4) + 1])
        ELSE buf[i]]

\* A faulty variant: do not compare the length with what was received.
ParsePayloadUnchecked ==
    /\ pc = "parse" /\ state = "payload_data" /\ last < Len(buf)
    /\ LET f == chain[cur]
       IN  /\ buf' = Unmasked(f)
           /\ chain' = [chain EXCEPT ![cur].start = last,
                                     ![cur].end = last + f.extended]
           /\ last' = last + f.extended
           /\ pc' = IF f.fin = 1 THEN "done" ELSE "next"
    /\ state' = "fin"
    /\ UNCHANGED <<sent, rest, cur, delivered, open, overrun>>

\* A faulty variant: take what there is of the payload.
ParsePayloadEarly ==
    /\ pc = "parse" /\ state = "payload_data" /\ last < Len(buf)
    /\ LET f   == chain[cur]
           end == IF last + f.extended < Len(buf) THEN last + f.extended ELSE Len(buf)
       IN  /\ buf' = Unmasked(f)
           /\ chain' = [chain EXCEPT ![cur].start = last, ![cur].end = end]
           /\ last' = end
           /\ pc' = IF f.fin = 1 THEN "done" ELSE "next"
    /\ state' = "fin"
    /\ UNCHANGED <<sent, rest, cur, delivered, open, overrun>>

ParsePayload ==
    /\ InState("payload_data")
    /\ LET f == chain[cur]
       IN  /\ buf' = Unmasked(f)
           /\ chain' = [chain EXCEPT ![cur].start = last,
                                     ![cur].end = last + f.extended]
           /\ last' = last + f.extended
           /\ pc' = IF f.fin = 1 THEN "done" ELSE "next"
    /\ state' = "fin"
    /\ UNCHANGED <<sent, rest, cur, delivered, open, overrun>>

\* A faulty variant: parse again at once.
ParseAgainLoops ==
    /\ pc = "parse"
    /\ last = Len(buf) \/ Len(buf) - last < Needs
    /\ UNCHANGED vars

\* STU_AGAIN: the state needs more bytes than there are.  A frame without
\* payload at the end of the buffer also waits for the next byte.
ParseAgain ==
    /\ pc = "parse"
    /\ last = Len(buf) \/ Len(buf) - last < Needs
    /\ pc' = "idle"
    /\ UNCHANGED <<sent, rest, buf, last, state, chain, cur, delivered, open, overrun>>

-----------------------------------------------------------------------------
(* stu_websocket_process_request.                                          *)

\* STU_OK: a frame that is not the last of its message.  The next one goes
\* into the next element of the list, which is allocated when there is none.
NextFrame ==
    /\ pc = "next"
    /\ chain' = IF cur < Len(chain) THEN chain ELSE Append(chain, NewFrame)
    /\ cur < Len(chain) \/ "ok" \in AllocOutcomes
    /\ cur' = cur + 1
    /\ pc' = "parse"
    /\ UNCHANGED <<sent, rest, buf, last, state, delivered, open, overrun>>

\* The allocation fails: an error is answered and the buffer stays as it is.
NextFrameNoMemory ==
    /\ pc = "next"
    /\ cur = Len(chain)
    /\ "null" \in AllocOutcomes
    /\ pc' = "idle"
    /\ UNCHANGED <<sent, rest, buf, last, state, chain, cur, delivered, open, overrun>>

\* STU_DONE, and some frame of the list is a close frame.
CloseFrame ==
    /\ pc = "done"
    /\ \E i \in DOMAIN chain : chain[i].opcode = CLOSE
    /\ open' = FALSE
    /\ pc' = "idle"
    /\ UNCHANGED <<sent, rest, buf, last, state, chain, cur, delivered, overrun>>

IsData(f) == f.opcode \in {TEXT, BINARY}

\* What a frame's payload_data points to.  The buffer is zero behind its end.
PayloadOf(f) ==
    [i \in 1 .. f.end - f.start |->
        IF f.start + i <= Len(buf) THEN buf[f.start + i] ELSE 0]

\* The payloads of the text and binary frames of the list, one after another.
Concat ==
    FlattenSeq([i \in DOMAIN chain |->
        IF IsData(chain[i]) THEN PayloadOf(chain[i]) ELSE <<>>])

\* The buffer is used from its start again when all of it was parsed.
ResetBuffer ==
    IF last = Len(buf)
    THEN buf' = <<>> /\ last' = 0 /\ pc' = "idle"
    ELSE UNCHANGED <<buf, last>> /\ pc' = "parse"

\* A faulty variant: drop what follows the first message in the buffer.
DeliverOne ==
    /\ pc = "done"
    /\ \A i \in DOMAIN chain : chain[i].opcode # CLOSE
    /\ delivered' = IF Concat = <<>> THEN delivered ELSE Append(delivered, Concat)
    /\ chain' = [i \in DOMAIN chain |->
                   IF IsData(chain[i]) THEN [chain[i] EXCEPT !.end = chain[i].start]
                                       ELSE chain[i]]
    /\ buf' = <<>> /\ last' = 0 /\ pc' = "idle"
    /\ UNCHANGED <<sent, rest, state, cur, open, overrun>>

\* STU_DONE: the data is a message, unless it is empty.
DeliverMessage ==
    /\ pc = "done"
    /\ \A i \in DOMAIN chain : chain[i].opcode # CLOSE
    /\ delivered' = IF Concat = <<>> THEN delivered ELSE Append(delivered, Concat)
    /\ chain' = [i \in DOMAIN chain |->
                   IF IsData(chain[i]) THEN [chain[i] EXCEPT !.end = chain[i].start]
                                       ELSE chain[i]]
    /\ ResetBuffer
    /\ UNCHANGED <<sent, rest, state, cur, open, overrun>>

-----------------------------------------------------------------------------
\* What the thread does between two calls of recv().
Handle ==
    /\ ~ overrun
    /\ \/ ParseFin \/ ParseMask \/ ParseExtended2 \/ ParseExtended8 \/ ParseKey
       \/ ParsePayload \/ ParseAgain
       \/ NextFrame \/ NextFrameNoMemory \/ CloseFrame \/ DeliverMessage

\* After a write behind the buffer nothing can be said.
Next ==
    \/ \E n \in 1 .. BufSize : ~ overrun /\ Recv(n)
    \/ Hangup
    \/ Handle

\* The thread that received the bytes runs on.
Spec == Init /\ [][Next]_vars /\ WF_vars(Handle)

-----------------------------------------------------------------------------
(* Properties.                                                             *)

States == {"fin", "mask", "extended_2", "extended_8", "masking_key", "payload_data"}

Bytes == 0 .. 255

FrameType ==
    [fin : {0, 1}, opcode : 0 .. 15, mask : {0, 1}, extended : Nat,
     key : Seq(Bytes), start : Nat, end : Nat]

\* What the fields of the connection's buffer, of the request and of the
\* frames in its list may be.
TypeOK ==
    /\ sent \in FrameSeqs
    /\ rest \in Seq(Bytes)
    /\ buf \in Seq(Bytes)
    /\ last \in 0 .. Len(buf)
    /\ state \in States
    /\ chain \in Seq(FrameType)
    /\ cur \in DOMAIN chain
    /\ pc \in {"idle", "parse", "next", "done"}
    /\ delivered \in Seq(Seq(Bytes))
    /\ open \in BOOLEAN
    /\ overrun \in BOOLEAN

\* A client that sends every message in one frame.
Unfragmented == \A i \in DOMAIN sent : sent[i].fin = 1 /\ sent[i].opcode # 0

\* The parser and the loop around it touch no byte that was not received:
\* when a message is made, the payload of the frame that ended it lies before
\* buffer.last, and what is copied fits into the array temp when it was sent
\* in one frame.
InBuffer ==
    pc = "done" /\ ~ overrun =>
        /\ chain[cur].end = last
        /\ last <= Len(buf)
        /\ Unfragmented => Len(Concat) <= BufSize

\* The loop of stu_websocket_process_request, which runs with c->lock held,
\* ends for every cut of the client's bytes.
HandlerReturns == (pc # "idle") ~> (pc = "idle" \/ overrun)

-----------------------------------------------------------------------------
(* Clients that send every message in one frame.                           *)

\* The bytes before buffer.last, counted from the first the client sent.
Consumed ==
    Len(FlattenSeq([i \in DOMAIN sent |-> Encode(sent[i])])) - Len(rest) - (Len(buf) - last)

\* The bytes of the first n frames.
LengthOf(n) == Len(FlattenSeq([i \in 1 .. n |-> Encode(sent[i])]))

\* However recv() cuts the bytes, the parser expects a new frame exactly where
\* the client begins one.
Aligned ==
    Unfragmented /\ state = "fin" =>
        \E n \in 0 .. Len(sent) : Consumed = LengthOf(n)

\* The frames before the client's first close frame.
BeforeClose ==
    SelectInSeq(sent, LAMBDA f : f.opcode = CLOSE)

\* The messages in the first n frames.
Messages(n) ==
    FlattenSeq([i \in 1 .. n |->
        IF IsData(sent[i]) /\ sent[i].data # <<>> THEN <<sent[i].data>> ELSE <<>>])

\* The messages that the client sent before it closed.
Expected == Messages(IF BeforeClose = 0 THEN Len(sent) ELSE BeforeClose - 1)

\* Messages are handled in the order in which they were sent, each once and
\* with the bytes that the client masked.
InOrder == Unfragmented => IsPrefix(delivered, Expected)

\* When all bytes were received, every message was handled, and the connection
\* stays open only if the client sent no close frame or a last one without
\* payload, for which the parser waits for one more byte.
Complete ==
    Unfragmented /\ pc = "idle" /\ rest = <<>> /\ open =>
        /\ delivered = Expected
        /\ BeforeClose \in {0, Len(sent)}
        /\ BeforeClose # 0 => sent[Len(sent)].data = <<>>

\* Messages that come in one frame each are handled as they were sent: the parser
\* keeps to the frames' boundaries, and every message is handled once, in order,
\* unmasked, and before the thread waits for more.
HandledAsSent == Aligned /\ InOrder /\ Complete

-----------------------------------------------------------------------------
(* Clients that send messages in fragments.                                *)

\* The client sends one message: a text or binary frame and continuations.
IsOneMessage ==
    \A i \in DOMAIN sent :
        /\ sent[i].fin = (IF i = Len(sent) THEN 1 ELSE 0)
        /\ IF i = 1 THEN IsData(sent[i]) ELSE sent[i].opcode = 0

\* "Concat keyframe data": a message that was sent in fragments is handled as
\* one, with the data of all of them.
FragmentsConcatenated ==
    IsOneMessage =>
        delivered \in {<<>>, <<FlattenSeq([i \in DOMAIN sent |-> sent[i].data])>>}
=============================================================================
