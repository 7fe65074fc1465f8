------------------------------- MODULE Speech -------------------------------
(***************************************************************************)
(* Who may speak in a channel, and how often: the role and the interval of *)
(* a user, the state of the channel, the checks of a request and what      *)
(* members are told of the state.  The connections' handlers run on        *)
(* different threads; the handlers of one connection exclude each other    *)
(* (c->lock).  userlist.lock is held by a push from its start to its end.  *)
(*                                                                         *)
(* The operators that follow "A faulty variant" are not used by Spec: each *)
(* is a plausible mistake in the definition after it.                      *)
(***************************************************************************)
EXTENDS Integers

CONSTANTS
    Users,      \* the connections
    Editions,   \* the editions of the server: "PREVIEW", "ENTERPRISE"
    RoleArgs,   \* the roles that a URL or the identity service gives
    StateArgs,  \* the channel states that they give
    Steps,      \* by how much the clock moves, in ms
    MaxTime     \* bound: the clock

None == -1      \* an argument that is not given
Never == 0      \* the epoch: before any request
StartTime == 2000

SpeechAssumption ==
    /\ Editions \subseteq {"PREVIEW", "ENTERPRISE"}
    /\ RoleArgs \subseteq Nat /\ StateArgs \subseteq Nat
    /\ Steps \subseteq Nat \ {0} /\ MaxTime \in Nat

\* A faulty variant: the number is kept as it is given.
NoByte(n) == n

\* m & 0xFF.
Byte(n) == n % 256

VISITOR == 0
NORMAL == 1
ASSISTANT == 16
Staff(role) == role >= ASSISTANT    \* role & 0xF0

\* A request is no object, or has a command, none or another one, and its items or not.
Bad == [cmd |-> "bad", full |-> FALSE]
Requests == {Bad} \union [cmd : {"none", "text", "extern", "other"}, full : BOOLEAN]

VARIABLES
    edition,
    now,        \* gettimeofday, in ms
    stage,      \* [Users -> where the handler of the connection is]
    user,       \* [Users -> stu_user_t]
    given,      \* [Users -> the channel state that came with the user]
    state,      \* ch->state
    pushing,    \* the state in the message that push_users is sending, or None
    answer,     \* [Users -> the status of the last request]
    saying,     \* [Users -> the command of the request that is sent]
    told,       \* [Users -> the channel state that the client was told last]
    last,       \* history: [Users -> when a request was last analyzed]
    low         \* history: [Users -> the lowest state since the request was read]

vars == <<edition, now, stage, user, given, state, pushing, answer, saying, told, last, low>>

Bytes == 0 .. 255
Shorts == {n \in Nat : n < 65536}

UserType == [role : Bytes, interval : Shorts, active : Nat]

Members == {u \in Users : stage[u] \notin {"out", "joining"}}

TypeOK ==
    /\ edition \in Editions /\ now \in Nat
    /\ stage \in [Users -> {"out", "joining", "joined", "answering", "idle", "sending"}]
    /\ user \in [Users -> UserType]
    /\ given \in [Users -> Nat \union {None}]
    /\ state \in Bytes /\ pushing \in Bytes \union {None}
    /\ answer \in [Users -> {0, 200, 400, 405, 409, 417}]
    /\ saying \in [Users -> {"nothing", "text", "extern"}]
    /\ told \in [Users -> Nat \union {None}]
    /\ last \in [Users -> Nat] /\ low \in [Users -> Bytes]

-----------------------------------------------------------------------------
(* The user.                                                               *)

\* A faulty variant: the first step of the ladder counts as a reward, too.
IntervalEager(role) ==
    IF Staff(role) THEN 0
    ELSE IF role = VISITOR THEN 2000
    ELSE IF 1000 >= role * 100 THEN 1000 - role * 100 ELSE 0

\* stu_user_get_interval.
Interval(role) ==
    IF Staff(role) THEN 0
    ELSE IF role = VISITOR THEN 2000
    ELSE LET vip == role - 1 IN IF 1000 >= vip * 100 THEN 1000 - vip * 100 ELSE 0

\* stu_user_init.
NewUser == [role |-> VISITOR, interval |-> Interval(VISITOR), active |-> Never]

SetRole(usr, role) == [usr EXCEPT !.role = role, !.interval = Interval(role)]

\* The preview edition makes a user without a role a normal one, and leaves the
\* interval as it was.
Identified(arg) ==
    IF arg = None THEN [NewUser EXCEPT !.role = NORMAL] ELSE SetRole(NewUser, Byte(arg))

Init ==
    /\ edition \in Editions
    /\ now = StartTime
    /\ stage = [u \in Users |-> "out"]
    /\ user = [u \in Users |-> NewUser]
    /\ given = [u \in Users |-> None]
    /\ state = 0 /\ pushing = None
    /\ answer = [u \in Users |-> 0]
    /\ saying = [u \in Users |-> "nothing"]
    /\ told = [u \in Users |-> None]
    /\ last = [u \in Users |-> Never]
    /\ low = [u \in Users |-> 0]

-----------------------------------------------------------------------------
(* Joining and leaving.                                                    *)

\* A client connects, and who it is becomes known.
Connect(u) ==
    /\ stage[u] = "out"
    /\ \E role \in RoleArgs \union {None}, s \in StateArgs \union {None} :
        /\ edition = "ENTERPRISE" => role # None /\ s # None
        /\ user' = [user EXCEPT ![u] = Identified(role)]
        /\ given' = [given EXCEPT ![u] = s]
    /\ stage' = [stage EXCEPT ![u] = "joining"]
    /\ UNCHANGED <<edition, now, state, pushing, answer, saying, told, last, low>>

\* stu_channel_insert: the first member finds a new channel.
Insert(u) ==
    /\ stage[u] = "joining" /\ pushing = None
    /\ state' = IF Members = {} THEN 0 ELSE state
    /\ stage' = [stage EXCEPT ![u] = IF edition = "PREVIEW" THEN "joined" ELSE "answering"]
    /\ UNCHANGED <<edition, now, user, given, pushing, answer, saying, told, last, low>>

\* The preview edition only: staff sets the state of the channel.
SetState(u) ==
    /\ stage[u] = "joined"
    /\ state' = IF given[u] # None /\ Staff(user[u].role) THEN Byte(given[u]) ELSE state
    /\ low' = [v \in Users |-> IF stage[v] = "sending" /\ state' < low[v] THEN state' ELSE low[v]]
    /\ stage' = [stage EXCEPT ![u] = "answering"]
    /\ UNCHANGED <<edition, now, user, given, pushing, answer, saying, told, last>>

\* The "ident" message: the channel's state, or what the identity service said.
Ident(u) ==
    /\ stage[u] = "answering"
    /\ told' = [told EXCEPT ![u] = IF edition = "PREVIEW" THEN state ELSE given[u]]
    /\ stage' = [stage EXCEPT ![u] = "idle"]
    /\ UNCHANGED <<edition, now, user, given, state, pushing, answer, saying, last, low>>

\* The connection ends and is freed.
Leave(u) ==
    /\ stage[u] = "idle" /\ pushing = None
    /\ stage' = [stage EXCEPT ![u] = "out"]
    /\ user' = [user EXCEPT ![u] = NewUser]
    /\ given' = [given EXCEPT ![u] = None]
    /\ answer' = [answer EXCEPT ![u] = 0]
    /\ saying' = [saying EXCEPT ![u] = "nothing"]
    /\ told' = [told EXCEPT ![u] = None]
    /\ last' = [last EXCEPT ![u] = Never]
    /\ low' = [low EXCEPT ![u] = 0]
    /\ UNCHANGED <<edition, now, state, pushing>>

-----------------------------------------------------------------------------
(* Requests.                                                               *)

TooSoon(usr) == usr.active + usr.interval > now

\* A faulty variant: whoever may give external commands may always speak.
DeniedUnlessStaff(usr, cmd) ==
    ~ Staff(usr.role) /\ ((cmd = "text" /\ usr.role < state) \/ cmd = "extern")

Denied(usr, cmd) ==
    \/ cmd = "text" /\ usr.role < state
    \/ cmd = "extern" /\ usr.role < ASSISTANT

\* The status of a request.
StatusOf(usr, req) ==
    CASE req = Bad -> 400
      [] req # Bad /\ TooSoon(usr) -> 409
      [] OTHER -> CASE req.cmd = "none" -> 400
                    [] req.cmd = "other" -> 405
                    [] Denied(usr, req.cmd) -> 417
                    [] OTHER -> IF req.full THEN 200 ELSE 400

Analyzed(req, status) == req # Bad /\ status # 409

\* stu_websocket_analyze_request, and the answer when it is an error.
Ask(u, req) ==
    LET status   == StatusOf(user[u], req)
        analyzed == Analyzed(req, status)
    IN  /\ stage[u] = "idle"
        /\ answer' = [answer EXCEPT ![u] = status]
        /\ user' = IF analyzed THEN [user EXCEPT ![u].active = now] ELSE user
        /\ last' = IF analyzed THEN [last EXCEPT ![u] = now] ELSE last
        /\ stage' = IF status = 200 THEN [stage EXCEPT ![u] = "sending"] ELSE stage
        /\ saying' = IF status = 200 THEN [saying EXCEPT ![u] = req.cmd] ELSE saying
        /\ low' = IF status = 200 THEN [low EXCEPT ![u] = state] ELSE low
        /\ UNCHANGED <<edition, now, given, state, pushing, told>>

\* stu_websocket_request_handler: the members get the message.
Send(u) ==
    /\ stage[u] = "sending" /\ pushing = None
    /\ stage' = [stage EXCEPT ![u] = "idle"]
    /\ saying' = [saying EXCEPT ![u] = "nothing"]
    /\ low' = [low EXCEPT ![u] = 0]
    /\ UNCHANGED <<edition, now, user, given, state, pushing, answer, told, last>>

-----------------------------------------------------------------------------
(* The periodic message to the members.                                    *)

\* stu_channel_push_users, up to its first send.
PushStart ==
    /\ pushing = None /\ Members # {}
    /\ pushing' = state
    /\ UNCHANGED <<edition, now, stage, user, given, state, answer, saying, told, last, low>>

\* A faulty variant: the walk ends at the first member.
PushFirst ==
    /\ pushing # None
    /\ LET first == CHOOSE u \in Members : TRUE IN told' = [told EXCEPT ![first] = pushing]
    /\ pushing' = None
    /\ UNCHANGED <<edition, now, stage, user, given, state, answer, saying, last, low>>

PushEnd ==
    /\ pushing # None
    /\ told' = [u \in Users |-> IF u \in Members THEN pushing ELSE told[u]]
    /\ pushing' = None
    /\ UNCHANGED <<edition, now, stage, user, given, state, answer, saying, last, low>>

Tick ==
    /\ \E d \in Steps : now' = now + d /\ now' <= MaxTime
    /\ UNCHANGED <<edition, stage, user, given, state, pushing, answer, saying, told, last, low>>

Next ==
    \/ \E u \in Users : Connect(u) \/ Insert(u) \/ SetState(u) \/ Ident(u) \/ Leave(u) \/ Send(u)
    \/ \E u \in Users, req \in Requests : Ask(u, req)
    \/ PushStart \/ PushEnd \/ Tick

Spec == Init /\ [][Next]_vars

\* The timer of the push runs for ever, and so does a push that has begun.
FairSpec == Spec /\ WF_vars(PushStart) /\ WF_vars(PushEnd)

-----------------------------------------------------------------------------
(* Properties.                                                             *)

\* The wait between two requests: none for staff and for the roles from 11 on, two
\* seconds for a visitor, and in between a tenth of a second less for each role.
Wait(role) ==
    IF role = 0 THEN 2000
    ELSE IF role \in 1 .. 10 THEN 1100 - 100 * role ELSE 0

\* A user's requests are analyzed at least the wait of its role apart, whatever
\* came of them, and one is refused for coming too soon only within two seconds of
\* one that was analyzed.  Requests that are refused, or are no objects, do not
\* prolong the wait.
Spaced ==
    [][\A u \in Users, req \in Requests \ {Bad} :
        Ask(u, req) =>
            IF answer'[u] = 409
            THEN last[u] # Never /\ now - last[u] < 2000
            ELSE last[u] = Never \/ now - last[u] >= Wait(user[u].role)]_vars

\* A text that is on its way to the members was allowed by the channel's state at
\* some moment since it was read, also when the state is set meanwhile; a command
\* for other systems comes from staff.
Allowed ==
    \A u \in Users : stage[u] = "sending" =>
        /\ saying[u] = "text" => user[u].role >= low[u]
        /\ saying[u] = "extern" => user[u].role >= ASSISTANT

\* Members are told the state of the channel, also when it was set while a message
\* with the old one was sent: a member that stays learns of a state that stays.
LearnsState ==
    \A u \in Users : \A s \in {Byte(a) : a \in StateArgs} \union {0} :
        (stage[u] = "idle" /\ state = s) ~> (told[u] = s \/ state # s \/ stage[u] = "out")
=============================================================================
