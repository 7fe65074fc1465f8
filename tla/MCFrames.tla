------------------------------ MODULE MCFrames ------------------------------
(***************************************************************************)
(* What the clients of the runs of Frames send.                            *)
(***************************************************************************)
EXTENDS Frames

\* A frame, its opcode, the form of its length, its masking key and its data.
Frame(fin, opcode, form, key, data) ==
    [fin |-> fin, opcode |-> opcode, form |-> form, key |-> key, data |-> data]

Key  == <<1, 0, 0, 1>>
Key2 == <<0, 1, 1, 0>>
PING == 9

\* Single-frame messages: masked and unmasked, with lengths of every form, one
\* without data, a ping, and close frames with and without a payload.
Singles ==
    { Frame(1, TEXT,   7,  Key,  <<1, 1, 0, 1, 1>>),
      Frame(1, BINARY, 16, Key2, <<0, 1>>),
      Frame(1, TEXT,   64, <<>>, <<1, 0, 1>>),
      Frame(1, TEXT,   7,  Key2, <<>>),
      Frame(1, PING,   7,  Key,  <<1>>),
      Frame(1, CLOSE,  7,  Key,  <<0, 1>>),
      Frame(1, CLOSE,  7,  Key,  <<>>) }

\* Every sequence of three of them.
SingleSeqs == [1 .. 3 -> Singles]

\* Messages in fragments, and frames that come between or after them.
Parts ==
    { Frame(0, TEXT, 7,  Key,  <<1, 1>>),
      Frame(0, 0,    7,  <<>>, <<1>>),
      Frame(1, 0,    16, Key2, <<0, 1, 1>>),
      Frame(1, PING, 7,  <<>>, <<1>>),
      Frame(1, TEXT, 64, <<>>, <<0, 1>>),
      Frame(1, CLOSE, 7, Key,  <<0, 1>>) }

PartSeqs == [1 .. 3 -> Parts]

SomeSeqs == SingleSeqs \cup PartSeqs

\* One message in two or three fragments.
FragmentSeqs ==
    LET first == Frame(0, TEXT, 7, <<>>, <<1, 1>>)
        more  == Frame(0, 0,    7, <<>>, <<0>>)
        final == Frame(1, 0,    7, <<>>, <<1, 0, 1>>)
    IN  {<<first, final>>, <<first, more, final>>}
=============================================================================
