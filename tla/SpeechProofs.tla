---------------------------- MODULE SpeechProofs ----------------------------
(***************************************************************************)
(* Proofs about Speech, for any number of users, all roles and states that *)
(* a URL or the identity service may give, and any steps of the clock:     *)
(* types, that a text which is on its way was allowed, and that the        *)
(* requests of a user are held apart.                                      *)
(*                                                                         *)
(* And about Unescape, for every name: it is decoded once, in place.       *)
(***************************************************************************)
EXTENDS Speech, Sequences, TLAPS, WellFoundedInduction

-----------------------------------------------------------------------------
(* Users.                                                                  *)

\* stu_user_get_interval gives every role at least its wait, and none more than two
\* seconds.
LEMMA IntervalBounds ==
    ASSUME NEW role \in Bytes
    PROVE  Wait(role) \in Nat /\ Interval(role) \in Nat /\ Wait(role) <= Interval(role) /\ Interval(role) <= 2000
<1>1. role \in 0 .. 255
  BY DEF Bytes
<1> QED
  BY <1>1 DEF Interval, Wait, Staff, VISITOR, ASSISTANT

\* A number that a byte is to hold.
LEMMA ByteType ==
    ASSUME NEW n \in Nat
    PROVE  Byte(n) \in Bytes
BY DEF Byte, Bytes

\* The roles of a visitor and of a normal user fit into a byte.
LEMMA ByteConstants == 0 \in Bytes /\ 1 \in Bytes
BY DEF Bytes

\* A time of at most two seconds fits into sixteen bits.
LEMMA ShortType ==
    ASSUME NEW n \in Nat, n <= 2000
    PROVE  n \in Shorts
BY DEF Shorts

LEMMA BytesAreNumbers == Bytes \subseteq Nat
BY DEF Bytes

\* The members of a user are numbers.
LEMMA UserNumbers ==
    ASSUME NEW usr \in UserType
    PROVE  usr.role \in Nat /\ usr.interval \in Nat /\ usr.active \in Nat
<1>1. Bytes \subseteq Nat
  BY BytesAreNumbers
<1>2. Shorts \subseteq Nat
  BY DEF Shorts
<1> QED
  BY <1>1, <1>2 DEF UserType

\* A user waits between its role's time and two seconds.
Paced(usr) ==
    Wait(usr.role) \in Nat /\ Wait(usr.role) <= usr.interval /\ usr.interval <= 2000

\* When a request was analyzed has nothing to do with that.
LEMMA ActivePaced ==
    ASSUME NEW usr \in UserType, Paced(usr), NEW n \in Nat
    PROVE  LET new == [usr EXCEPT !.active = n]
           IN  new \in UserType /\ new.active = n /\ new.role = usr.role /\ Paced(new)
<1> DEFINE new == [usr EXCEPT !.active = n]
<1>1. /\ new \in UserType
      /\ new.role = usr.role /\ new.interval = usr.interval /\ new.active = n
  BY DEF UserType
<1> HIDE DEF new
<1>2. Paced(new)
  BY <1>1 DEF Paced
<1> QED
  BY <1>1, <1>2 DEF new

\* A user for whom no request was analyzed.
Fresh(usr) == usr \in UserType /\ usr.active = Never /\ Paced(usr)

\* stu_user_init makes such a user, ...
LEMMA NewUserFresh == Fresh(NewUser)
<1>1. NewUser = [role |-> 0, interval |-> 2000, active |-> 0]
  BY DEF NewUser, VISITOR, Interval, Staff, ASSISTANT, Never
<1>2. NewUser \in UserType /\ NewUser.role = 0 /\ NewUser.interval = 2000 /\ NewUser.active = Never
  BY <1>1, ShortType, ByteConstants DEF UserType, Never
<1>3. Wait(0) = 2000
  BY DEF Wait
<1> QED
  BY <1>2, <1>3 DEF Fresh, Paced

\* ... and what the URL or the identity service says leaves it so.
LEMMA IdentifiedFresh ==
    ASSUME SpeechAssumption, NEW arg \in RoleArgs \union {None}
    PROVE  Fresh(Identified(arg))
<1> DEFINE usr == Identified(arg)
<1>1. NewUser = [role |-> 0, interval |-> 2000, active |-> 0]
  BY DEF NewUser, VISITOR, Interval, Staff, ASSISTANT, Never
<1>2. CASE arg = None
  <2>1. usr = [role |-> 1, interval |-> 2000, active |-> 0]
    BY <1>1, <1>2 DEF Identified, NORMAL
  <2>2. usr \in UserType /\ usr.role = 1 /\ usr.interval = 2000 /\ usr.active = Never
    BY <2>1, ShortType, ByteConstants DEF UserType, Never
  <2>3. Wait(1) = 1000
    BY DEF Wait
  <2> HIDE DEF usr
  <2>4. Fresh(usr)
    BY <2>2, <2>3 DEF Fresh, Paced
  <2> QED
    BY <2>4 DEF usr
<1>3. CASE arg # None
  <2> DEFINE role == Byte(arg)
             wait == Interval(role)
  <2>1. role \in Bytes
    BY <1>3, ByteType DEF SpeechAssumption
  <2>2. Wait(role) \in Nat /\ wait \in Nat /\ Wait(role) <= wait /\ wait <= 2000
    BY <2>1, IntervalBounds
  <2>3. usr = [NewUser EXCEPT !.role = role, !.interval = wait]
    BY <1>3 DEF Identified, SetRole
  <2> HIDE DEF role, wait, usr
  <2>4. wait \in Shorts
    BY <2>2, ShortType
  <2>5. NewUser \in UserType /\ NewUser.active = Never
    BY NewUserFresh DEF Fresh
  <2>6. usr \in UserType /\ usr.role = role /\ usr.interval = wait /\ usr.active = Never
    BY <2>1, <2>3, <2>4, <2>5 DEF UserType
  <2>7. Fresh(usr)
    BY <2>2, <2>6 DEF Fresh, Paced
  <2> QED
    BY <2>7 DEF usr
<1> QED
  BY <1>2, <1>3

-----------------------------------------------------------------------------
(* The inductive invariant.                                                *)

\* stu_user_t's time of the last request is when one was last analyzed, and a user's
\* interval is at least the wait of its role.
Remembered ==
    /\ now >= StartTime
    /\ \A u \in Users :
          /\ user[u].active = last[u]
          /\ stage[u] = "out" => last[u] = Never
          /\ Paced(user[u])

IInv == TypeOK /\ Allowed /\ Remembered

\* The initial states satisfy it.
LEMMA InitInv == SpeechAssumption /\ Init => IInv
<1> SUFFICES ASSUME SpeechAssumption, Init PROVE IInv
  OBVIOUS
<1>1. NewUser \in UserType /\ NewUser.active = Never /\ Paced(NewUser)
  BY NewUserFresh DEF Fresh
<1>2. TypeOK
  BY <1>1 DEF Init, TypeOK, StartTime, UserType, Bytes, Never
<1>3. Allowed
  BY DEF Init, Allowed
<1>4. Remembered
  BY <1>1 DEF Init, Remembered, StartTime
<1> QED
  BY <1>2, <1>3, <1>4 DEF IInv

-----------------------------------------------------------------------------
(* Each action keeps it.                                                   *)

\* A client is identified.
LEMMA ConnectStep ==
    ASSUME SpeechAssumption, IInv, NEW u \in Users, Connect(u)
    PROVE  IInv'
<1> USE DEF IInv, Connect
<1>1. PICK role \in RoleArgs \union {None}, s \in StateArgs \union {None} :
          user' = [user EXCEPT ![u] = Identified(role)] /\ given' = [given EXCEPT ![u] = s]
  OBVIOUS
<1>2. Identified(role) \in UserType /\ Identified(role).active = Never /\ Paced(Identified(role))
  BY IdentifiedFresh DEF Fresh
<1>3. s \in Nat \union {None}
  BY DEF SpeechAssumption
<1>4. TypeOK'
  BY <1>1, <1>2, <1>3 DEF TypeOK, UserType, Bytes
<1>5. Allowed'
  BY <1>1 DEF TypeOK, Allowed
<1>6. Remembered'
  BY <1>1, <1>2 DEF TypeOK, Remembered
<1> QED
  BY <1>4, <1>5, <1>6

\* A connection ends.
LEMMA LeaveStep ==
    ASSUME IInv, NEW u \in Users, Leave(u)
    PROVE  IInv'
<1> USE DEF IInv, Leave
<1>1. NewUser \in UserType /\ NewUser.active = Never /\ Paced(NewUser)
  BY NewUserFresh DEF Fresh
<1>2. TypeOK'
  BY <1>1 DEF TypeOK, UserType, Bytes, Never
<1>3. Allowed'
  BY DEF TypeOK, Allowed
<1>4. Remembered'
  BY <1>1 DEF TypeOK, Remembered
<1> QED
  BY <1>2, <1>3, <1>4

\* The state of the channel is set: what is on its way is now measured by the lower
\* of the states.
LEMMA SetStateStep ==
    ASSUME SpeechAssumption, IInv, NEW u \in Users, SetState(u)
    PROVE  IInv'
<1> USE DEF IInv, SetState
<1>1. state' \in Bytes
  BY ByteType DEF TypeOK, Bytes
<1>2. TypeOK'
  BY <1>1 DEF TypeOK, Bytes
<1>3. Allowed'
  <2>1. \A v \in Users : user[v].role \in Nat /\ low[v] \in Nat
    BY ZenonT(60), UserNumbers, BytesAreNumbers DEF TypeOK
  <2>2. state' \in Nat
    BY <1>1, BytesAreNumbers
  <2> QED
    BY <2>1, <2>2 DEF TypeOK, Allowed
<1>4. Remembered'
  BY DEF TypeOK, Remembered
<1> QED
  BY <1>2, <1>3, <1>4

\* A request is analyzed, or refused.
LEMMA AskStep ==
    ASSUME IInv, NEW u \in Users, NEW req \in Requests, Ask(u, req)
    PROVE  IInv'
<1> USE DEF IInv
<1> DEFINE status == StatusOf(user[u], req)
<1> DEFINE new == [user[u] EXCEPT !.active = now]
<1>1. status \in {200, 400, 405, 409, 417}
  BY DEF StatusOf
<1>2. status = 200 => req.cmd \in {"text", "extern"} /\ ~ Denied(user[u], req.cmd)
  BY DEF StatusOf, Requests, Bad
<1>3. /\ answer' = [answer EXCEPT ![u] = status]
      /\ \/ user' = user /\ last' = last
         \/ user' = [user EXCEPT ![u] = new] /\ last' = [last EXCEPT ![u] = now]
      /\ stage[u] = "idle"
      /\ stage' = IF status = 200 THEN [stage EXCEPT ![u] = "sending"] ELSE stage
      /\ saying' = IF status = 200 THEN [saying EXCEPT ![u] = req.cmd] ELSE saying
      /\ low' = IF status = 200 THEN [low EXCEPT ![u] = state] ELSE low
      /\ UNCHANGED <<edition, now, given, state, pushing, told>>
  BY DEF Ask
<1>4. new \in UserType /\ new.active = now /\ new.role = user[u].role /\ Paced(new)
  BY ActivePaced DEF TypeOK, Remembered
<1> HIDE DEF status, new
<1>5. TypeOK'
  BY <1>1, <1>2, <1>3, <1>4 DEF TypeOK
<1>6. Allowed'
  <2>1. user[u].role \in Nat /\ state \in Nat
    BY UserNumbers, BytesAreNumbers DEF TypeOK
  <2>2. \A v \in Users : user'[v].role = user[v].role
    BY <1>3, <1>4 DEF TypeOK
  <2> SUFFICES ASSUME NEW v \in Users, stage'[v] = "sending"
               PROVE  /\ saying'[v] = "text" => user'[v].role >= low'[v]
                      /\ saying'[v] = "extern" => user'[v].role >= ASSISTANT
    BY DEF Allowed
  <2>3. CASE v = u
    <3>1. status = 200 /\ saying'[u] = req.cmd /\ low'[u] = state
      BY <1>3, <2>3 DEF TypeOK
    <3> QED
      BY <1>2, <2>1, <2>2, <2>3, <3>1 DEF Denied, ASSISTANT
  <2>4. CASE v # u
    <3>1. stage[v] = "sending" /\ saying'[v] = saying[v] /\ low'[v] = low[v]
      BY <1>3, <2>4 DEF TypeOK
    <3> QED
      BY <2>2, <3>1 DEF Allowed
  <2> QED
    BY <2>3, <2>4
<1>7. Remembered'
  BY <1>3, <1>4 DEF TypeOK, Remembered
<1> QED
  BY <1>5, <1>6, <1>7

\* The other handlers of a connection leave users alone.
LEMMA HandlerStep ==
    ASSUME IInv, NEW u \in Users, Insert(u) \/ Ident(u) \/ Send(u)
    PROVE  IInv'
<1> USE DEF IInv
<1>1. CASE Insert(u)
  <2>1. TypeOK'
    BY <1>1, ByteConstants DEF Insert, TypeOK
  <2>2. Allowed'
    BY <1>1 DEF Insert, TypeOK, Allowed
  <2>3. Remembered'
    BY <1>1 DEF Insert, TypeOK, Remembered
  <2> QED
    BY <2>1, <2>2, <2>3
<1>2. CASE Ident(u)
  <2>1. TypeOK'
    BY <1>2, BytesAreNumbers DEF Ident, TypeOK
  <2>2. Allowed'
    BY <1>2 DEF Ident, TypeOK, Allowed
  <2>3. Remembered'
    BY <1>2 DEF Ident, TypeOK, Remembered
  <2> QED
    BY <2>1, <2>2, <2>3
<1>3. CASE Send(u)
  <2>1. TypeOK'
    BY <1>3, ByteConstants DEF Send, TypeOK
  <2>2. Allowed'
    BY <1>3 DEF Send, TypeOK, Allowed
  <2>3. Remembered'
    BY <1>3 DEF Send, TypeOK, Remembered
  <2> QED
    BY <2>1, <2>2, <2>3
<1> QED
  BY <1>1, <1>2, <1>3

\* So do the push and the clock.
LEMMA PushStep ==
    ASSUME SpeechAssumption, IInv, PushStart \/ PushEnd \/ Tick
    PROVE  IInv'
<1> USE DEF IInv
<1>1. CASE PushStart
  BY <1>1 DEF PushStart, TypeOK, Allowed, Remembered
<1>2. CASE PushEnd
  <2>1. TypeOK'
    BY <1>2, BytesAreNumbers DEF PushEnd, TypeOK
  <2> QED
    BY <1>2, <2>1 DEF PushEnd, Allowed, Remembered
<1>3. CASE Tick
  BY <1>3 DEF Tick, TypeOK, Allowed, Remembered, SpeechAssumption, StartTime
<1> QED
  BY <1>1, <1>2, <1>3

\* Every step keeps it.
LEMMA StepInv == SpeechAssumption /\ IInv /\ [Next]_vars => IInv'
<1> SUFFICES ASSUME SpeechAssumption, IInv, [Next]_vars PROVE IInv'
  OBVIOUS
<1>1. CASE UNCHANGED vars
  BY <1>1 DEF vars, IInv, TypeOK, Allowed, Remembered
<1> QED
  BY <1>1, ConnectStep, LeaveStep, SetStateStep, AskStep, HandlerStep, PushStep DEF Next

-----------------------------------------------------------------------------
(* Theorems.                                                               *)

\* The types, the rights and what is remembered of requests hold in every state.
THEOREM Invariance ==
    ASSUME SpeechAssumption
    PROVE  Spec => []IInv
<1>1. Init => IInv
  BY InitInv
<1>2. IInv /\ [Next]_vars => IInv'
  BY StepInv
<1> QED
  BY <1>1, <1>2, PTL DEF Spec

\* A text that is on its way to the members was allowed by the channel's state at
\* some moment since stu_websocket_analyze_request read it, whoever sets the state
\* meanwhile, and only staff gives commands for other systems.
THEOREM SpeechIsAllowed ==
    ASSUME SpeechAssumption
    PROVE  Spec => []Allowed
<1>1. IInv => Allowed
  BY DEF IInv
<1> QED
  BY <1>1, Invariance, PTL

\* The requests of a user that are analyzed are at least the wait of its role apart,
\* and one is refused for coming too soon only within two seconds of one that was.
THEOREM RequestsAreSpaced ==
    ASSUME SpeechAssumption
    PROVE  Spec => Spaced
<1>1. ASSUME IInv, NEW u \in Users, NEW req \in Requests \ {Bad}, Ask(u, req)
      PROVE  IF answer'[u] = 409
             THEN last[u] # Never /\ now - last[u] < 2000
             ELSE last[u] = Never \/ now - last[u] >= Wait(user[u].role)
  <2>1. answer'[u] = StatusOf(user[u], req)
    BY <1>1 DEF IInv, TypeOK, Ask
  <2>2. answer'[u] = 409 <=> TooSoon(user[u])
    BY <2>1 DEF StatusOf
  <2>3. TooSoon(user[u]) <=> last[u] + user[u].interval > now
    BY <1>1 DEF IInv, Remembered, TooSoon
  <2>4. /\ now \in Nat /\ last[u] \in Nat /\ now >= StartTime
        /\ user[u].interval \in Nat /\ Paced(user[u])
    BY <1>1, UserNumbers DEF IInv, TypeOK, Remembered
  <2> QED
    BY <2>2, <2>3, <2>4 DEF Paced, StartTime, Never
<1>2. IInv => \A u \in Users, req \in Requests \ {Bad} :
          Ask(u, req) =>
              IF answer'[u] = 409
              THEN last[u] # Never /\ now - last[u] < 2000
              ELSE last[u] = Never \/ now - last[u] >= Wait(user[u].role)
  BY <1>1
<1> QED
  BY <1>2, Invariance, PTL DEF Spaced

-----------------------------------------------------------------------------
(* The name of a user (Unescape).                                          *)

\* The parameters and the state of stu_unescape_uri.
CONSTANTS NameChars, NameLength
VARIABLES raw, inplace, read, written, quoting, digit

Name == INSTANCE Unescape WITH
            Chars <- NameChars, MaxLength <- NameLength,
            name <- raw, buf <- inplace, s <- read, d <- written,
            state <- quoting, decoded <- digit

Codes == 0 .. 255

\* The escapes of a name, the digits of escapes, and what a character stands for.
EscapesOf(nm) ==
    {i \in 1 .. Len(nm) - 2 : nm[i] = Name!Percent /\ Name!Hex(nm[i + 1]) /\ Name!Hex(nm[i + 2])}
InsideOf(nm, i) == i - 1 \in EscapesOf(nm) \/ i - 2 \in EscapesOf(nm)
MeantOf(nm, i) ==
    IF i \in EscapesOf(nm) THEN 16 * Name!HexValue(nm[i + 1]) + Name!HexValue(nm[i + 2])
    ELSE IF nm[i] = Name!Plus THEN Name!Space ELSE nm[i]

\* g[i] is what the first i characters stand for, escapes that begin there included.
IsDecoding(nm, g) ==
    g = [i \in 0 .. Len(nm) |->
            IF i = 0 THEN <<>>
            ELSE IF InsideOf(nm, i) THEN g[i - 1] ELSE Append(g[i - 1], MeantOf(nm, i))]
Decoding(nm) == CHOOSE g : IsDecoding(nm, g)

\* Every set of naturals that is not empty has a least element.
LEMMA Least ==
    ASSUME NEW S, S \subseteq Nat, S # {}
    PROVE  \E n \in S : \A m \in S : n <= m
<1> DEFINE R == OpToRel(<, Nat)
<1>1. IsWellFoundedOn(R, Nat)
  BY NatLessThanWellFounded
<1>2. PICK n \in S : \A m \in S : ~ (<<m, n>> \in R)
  <2> HIDE DEF R
  <2> QED BY <1>1, WFMin
<1>3. \A m, n1 \in Nat : m < n1 => <<m, n1>> \in R
  BY DEF OpToRel
<1> HIDE DEF R
<1>4. ASSUME NEW m \in S PROVE n <= m
  <2>1. m \in Nat /\ n \in Nat /\ ~ (<<m, n>> \in R)
    BY <1>2
  <2>2. ~ (m < n)
    BY <1>3, <2>1
  <2> QED
    BY <2>1, <2>2
<1> QED
  BY <1>2, <1>4

\* A name has a decoding, as far as one likes: the least length without one would have
\* one of the length before it.
LEMMA DecodingExists ==
    ASSUME NEW nm \in Seq(Codes)
    PROVE  \E g : IsDecoding(nm, g)
<1> DEFINE N == Len(nm)
           Step(q, i) == IF InsideOf(nm, i) THEN q ELSE Append(q, MeantOf(nm, i))
           Exists(m) == \E g : g = [i \in 0 .. m |-> IF i = 0 THEN <<>> ELSE Step(g[i - 1], i)]
           Undecoded == {m \in 0 .. N : ~ Exists(m)}
<1>0. N \in Nat
  OBVIOUS
<1>1. SUFFICES Exists(N)
  BY DEF IsDecoding
<1> HIDE DEF Step, N
<1>2. SUFFICES ASSUME ~ Exists(N) PROVE FALSE
  OBVIOUS
<1>3. PICK m \in Undecoded : \A k \in Undecoded : m <= k
  <2>1. Undecoded \subseteq Nat /\ N \in Undecoded
    BY <1>0, <1>2
  <2> HIDE DEF Undecoded
  <2> QED BY <2>1, Least
<1>4. Exists(0)
  <2>1. [i \in 0 .. 0 |-> <<>>] =
            [i \in 0 .. 0 |-> IF i = 0 THEN <<>> ELSE Step([j \in 0 .. 0 |-> <<>>][i - 1], i)]
    OBVIOUS
  <2> QED BY <2>1
<1>5. m \in 1 .. N /\ m - 1 \in 0 .. N /\ ~ Exists(m) /\ Exists(m - 1)
  <2>1. m \in 0 .. N /\ ~ Exists(m)
    OBVIOUS
  <2>2. m # 0
    BY <1>4, <2>1
  <2>3. m - 1 \in 0 .. N /\ m - 1 < m
    BY <1>0, <2>1, <2>2
  <2>4. m - 1 \notin Undecoded
    <3> HIDE DEF Undecoded
    <3> QED BY <1>3, <2>1, <2>3
  <2>5. Exists(m - 1)
    <3> HIDE DEF Exists
    <3> QED BY <2>3, <2>4
  <2> QED BY <1>0, <2>1, <2>2, <2>3, <2>5
<1>6. PICK g : g = [i \in 0 .. m - 1 |-> IF i = 0 THEN <<>> ELSE Step(g[i - 1], i)]
  BY <1>5
<1> DEFINE h == [i \in 0 .. m |-> IF i = m THEN Step(g[m - 1], m) ELSE g[i]]
<1>7. h = [i \in 0 .. m |-> IF i = 0 THEN <<>> ELSE Step(h[i - 1], i)]
  <2>1. ASSUME NEW i \in 0 .. m PROVE h[i] = IF i = 0 THEN <<>> ELSE Step(h[i - 1], i)
    <3>1. CASE i = m
      <4>1. h[m - 1] = g[m - 1] /\ h[i] = Step(g[m - 1], m)
        BY <1>0, <1>5, <3>1
      <4> QED BY <1>0, <1>5, <3>1, <4>1
    <3>2. CASE i # m
      <4>1. i \in 0 .. m - 1 /\ h[i] = g[i]
        BY <1>0, <1>5, <3>2
      <4>2. g[i] = IF i = 0 THEN <<>> ELSE Step(g[i - 1], i)
        <5> HIDE DEF h
        <5> QED BY <1>6, <4>1
      <4>3. i # 0 => h[i - 1] = g[i - 1]
        BY <1>0, <1>5, <4>1
      <4> QED BY <4>1, <4>2, <4>3
    <3> QED BY <3>1, <3>2
  <2>2. h = [i \in 0 .. m |-> h[i]]
    OBVIOUS
  <2> HIDE DEF h
  <2> QED BY <2>1, <2>2
<1> QED
  <2> HIDE DEF h
  <2> QED BY <1>5, <1>7

\* How a decoding goes on.
LEMMA DecodingSteps ==
    ASSUME NEW nm \in Seq(Codes)
    PROVE  /\ Decoding(nm)[0] = <<>>
           /\ \A i \in 1 .. Len(nm) :
                 Decoding(nm)[i] = IF InsideOf(nm, i) THEN Decoding(nm)[i - 1]
                                   ELSE Append(Decoding(nm)[i - 1], MeantOf(nm, i))
<1> DEFINE f == Decoding(nm)
<1>1. IsDecoding(nm, f)
  BY DecodingExists DEF Decoding
<1> HIDE DEF f
<1>2. ASSUME NEW i \in 0 .. Len(nm)
      PROVE  f[i] = IF i = 0 THEN <<>>
                    ELSE IF InsideOf(nm, i) THEN f[i - 1] ELSE Append(f[i - 1], MeantOf(nm, i))
  BY <1>1 DEF IsDecoding
<1>3. Len(nm) \in Nat /\ 0 \in 0 .. Len(nm) /\ \A i \in 1 .. Len(nm) : i \in 0 .. Len(nm) /\ i # 0
  OBVIOUS
<1>4. f[0] = <<>> /\ \A i \in 1 .. Len(nm) :
          f[i] = IF InsideOf(nm, i) THEN f[i - 1] ELSE Append(f[i - 1], MeantOf(nm, i))
  BY <1>2, <1>3
<1> QED
  BY <1>4 DEF f

\* Expected of Unescape is the decoding of the whole name.
LEMMA ExpectedIs == Name!Expected = Decoding(raw)[Len(raw)]
BY DEF Name!Expected, Decoding, IsDecoding, EscapesOf, InsideOf, MeantOf,
       Name!Inside, Name!Meant, Name!Escapes

\* How much is decoded: all that is read, but for the escape that is being read.
Whole == IF quoting = "usual" THEN read ELSE IF quoting = "quoted" THEN read - 1 ELSE read - 2

\* What is not read is as it came, and what is written the decoding of what was
\* read; within an escape the rest of it is still to come.
DecodeInv ==
    /\ Whole \in 0 .. Len(raw)
    /\ written <= Whole
    /\ \A j \in read + 1 .. Len(raw) : inplace[j] = raw[j]
    /\ quoting # "usual" => Whole + 1 \in EscapesOf(raw)
    /\ quoting = "second" => digit = Name!HexValue(raw[read])
    /\ ~ InsideOf(raw, Whole + 1)
    /\ Decoding(raw)[Whole] = SubSeq(inplace, 1, written)

NameInv == Name!TypeOK /\ DecodeInv

LEMMA HexValues ==
    ASSUME NEW c \in Codes, Name!Hex(c)
    PROVE  Name!HexValue(c) \in 0 .. 15 /\ c # Name!Percent
BY DEF Codes, Name!Hex, Name!HexValue, Name!Digit, Name!Letter, Name!Percent

\* The digits of an escape are in the name, and no escape begins at them.
LEMMA EscapeDigits ==
    ASSUME NEW nm \in Seq(Codes), NEW i \in EscapesOf(nm)
    PROVE  /\ i \in Nat /\ i >= 1 /\ i + 2 <= Len(nm) /\ Len(nm) \in Nat
           /\ Name!HexValue(nm[i + 1]) \in 0 .. 15 /\ Name!HexValue(nm[i + 2]) \in 0 .. 15
           /\ i + 1 \notin EscapesOf(nm) /\ i + 2 \notin EscapesOf(nm)
<1>1. /\ i \in 1 .. Len(nm) - 2 /\ Len(nm) \in Nat
      /\ Name!Hex(nm[i + 1]) /\ Name!Hex(nm[i + 2])
  BY DEF EscapesOf
<1>2. nm[i + 1] \in Codes /\ nm[i + 2] \in Codes
  BY <1>1
<1>3. /\ Name!HexValue(nm[i + 1]) \in 0 .. 15 /\ nm[i + 1] # Name!Percent
      /\ Name!HexValue(nm[i + 2]) \in 0 .. 15 /\ nm[i + 2] # Name!Percent
  BY <1>1, <1>2, HexValues
<1>4. i + 1 \notin EscapesOf(nm) /\ i + 2 \notin EscapesOf(nm)
  BY <1>3 DEF EscapesOf
<1> QED
  BY <1>1, <1>3, <1>4

\* One character more is written.
LEMMA WriteOne ==
    ASSUME NEW b \in Seq(Codes), NEW w \in Nat, w < Len(b), NEW c \in Codes
    PROVE  /\ [b EXCEPT ![w + 1] = c] \in Seq(Codes)
           /\ Len([b EXCEPT ![w + 1] = c]) = Len(b)
           /\ \A j \in w + 2 .. Len(b) : [b EXCEPT ![w + 1] = c][j] = b[j]
           /\ SubSeq([b EXCEPT ![w + 1] = c], 1, w + 1) = Append(SubSeq(b, 1, w), c)
<1> DEFINE q == [b EXCEPT ![w + 1] = c]
<1>1. Len(b) \in Nat /\ DOMAIN b = 1 .. Len(b) /\ w + 1 \in DOMAIN b
  OBVIOUS
<1>2. q \in [1 .. Len(b) -> Codes]
  BY <1>1
<1>3. q \in Seq(Codes) /\ Len(q) = Len(b)
  BY <1>1, <1>2
<1>4. \A j \in 1 .. Len(b) : q[j] = IF j = w + 1 THEN c ELSE b[j]
  BY <1>1
<1> HIDE DEF q
<1>5. SubSeq(q, 1, w + 1) \in Seq(Codes) /\ Len(SubSeq(q, 1, w + 1)) = w + 1
      /\ \A j \in 1 .. w + 1 : SubSeq(q, 1, w + 1)[j] = q[j]
  BY <1>1, <1>3
<1>6. SubSeq(b, 1, w) \in Seq(Codes) /\ Len(SubSeq(b, 1, w)) = w
      /\ \A j \in 1 .. w : SubSeq(b, 1, w)[j] = b[j]
  BY <1>1
<1> DEFINE u == SubSeq(q, 1, w + 1)
           v == Append(SubSeq(b, 1, w), c)
<1>7. v \in Seq(Codes) /\ Len(v) = w + 1 /\ v[w + 1] = c /\ \A j \in 1 .. w : v[j] = b[j]
  BY <1>6
<1>8. \A j \in 1 .. w + 1 : u[j] = v[j]
  BY <1>1, <1>4, <1>5, <1>7
<1>9. u = v
  <2> u \in Seq(Codes) /\ Len(u) = w + 1
    BY <1>5
  <2> HIDE DEF u, v
  <2> QED BY <1>7, <1>8
<1> QED
  BY <1>1, <1>3, <1>4, <1>9 DEF q

LEMMA NameInitInv ==
    ASSUME Name!UnescapeAssumption, Name!Init
    PROVE  NameInv
<1>1. PICK n \in 0 .. NameLength : raw \in [1 .. n -> NameChars]
  BY DEF Name!Init
<1>2. n \in Nat /\ NameChars \subseteq Codes
  BY DEF Name!UnescapeAssumption, Codes
<1>3. raw \in Seq(Codes) /\ Len(raw) = n
  BY <1>1, <1>2
<1>4. inplace = raw /\ read = 0 /\ written = 0 /\ quoting = "usual" /\ digit = 0
  BY DEF Name!Init
<1>5. Name!TypeOK
  BY <1>2, <1>3, <1>4 DEF Name!TypeOK, Codes
<1>6. Whole = 0
  BY <1>4 DEF Whole
<1>7. ~ InsideOf(raw, 0 + 1)
  BY <1>2, <1>3 DEF InsideOf, EscapesOf
<1>8. Decoding(raw)[0] = SubSeq(inplace, 1, 0)
  <2>1. SubSeq(inplace, 1, 0) = <<>>
    BY <1>3, <1>4
  <2> QED BY <1>3, <2>1, DecodingSteps
<1> QED
  BY <1>2, <1>3, <1>4, <1>5, <1>6, <1>7, <1>8 DEF NameInv, DecodeInv

\* What the invariant says of the numbers, and of the character to be read.
LEMMA NameFacts ==
    ASSUME NameInv
    PROVE  /\ raw \in Seq(Codes) /\ inplace \in Seq(Codes) /\ Len(inplace) = Len(raw) /\ Len(raw) \in Nat
           /\ read \in Nat /\ written \in Nat /\ read <= Len(raw) /\ written <= Whole
           /\ digit \in 0 .. 15 /\ quoting \in {"usual", "quoted", "second"}
BY DEF NameInv, DecodeInv, Name!TypeOK, Codes

LEMMA UsualInv ==
    ASSUME NameInv, Name!Usual
    PROVE  NameInv'
<1> DEFINE i == read + 1
<1>0. /\ raw \in Seq(Codes) /\ inplace \in Seq(Codes) /\ Len(inplace) = Len(raw) /\ Len(raw) \in Nat
      /\ read \in Nat /\ written \in Nat /\ read <= Len(raw) /\ written <= Whole
      /\ digit \in 0 .. 15
  BY NameFacts
<1>1. read < Len(raw) /\ quoting = "usual" /\ read' = read + 1 /\ raw' = raw /\ digit' = digit
  BY <1>0 DEF Name!Usual
<1>2. Whole = read /\ written <= read
  BY <1>0, <1>1 DEF Whole
<1>3. /\ \A j \in i .. Len(raw) : inplace[j] = raw[j]
      /\ ~ InsideOf(raw, i)
      /\ Decoding(raw)[read] = SubSeq(inplace, 1, written)
  BY <1>2 DEF NameInv, DecodeInv
<1>4. i \in 1 .. Len(raw) /\ inplace[i] = raw[i] /\ raw[i] \in Codes
  BY <1>0, <1>1, <1>3
<1>5. Name!IsEscape(i) <=> i \in EscapesOf(raw)
  <2>1. i + 2 <= Len(raw) => inplace[i + 1] = raw[i + 1] /\ inplace[i + 2] = raw[i + 2]
    BY <1>0, <1>1, <1>3
  <2> QED
    BY <1>0, <1>1, <1>4, <2>1 DEF Name!IsEscape, EscapesOf
<1>6. CASE i \in EscapesOf(raw)
  <2>1. quoting' = "quoted" /\ inplace' = inplace /\ written' = written
    BY <1>5, <1>6 DEF Name!Usual
  <2>2. Whole' = read
    BY <1>0, <1>1, <2>1 DEF Whole
  <2>3. Name!TypeOK'
    BY <1>0, <1>1, <2>1, <1>2 DEF Name!TypeOK, Codes
  <2>4. DecodeInv'
    BY <1>0, <1>1, <1>2, <1>3, <1>6, <2>1, <2>2 DEF DecodeInv
  <2> QED BY <2>3, <2>4 DEF NameInv
<1>7. CASE i \notin EscapesOf(raw)
  <2> DEFINE c == MeantOf(raw, i)
  <2>1. c = IF inplace[i] = Name!Plus THEN Name!Space ELSE inplace[i]
    BY <1>4, <1>7 DEF MeantOf
  <2>2. quoting' = "usual" /\ inplace' = [inplace EXCEPT ![written + 1] = c] /\ written' = written + 1
    BY <1>1, <1>5, <1>7, <2>1 DEF Name!Usual, Name!Write
  <2>3. c \in Codes
    <3>1. Name!Space \in Codes
      BY DEF Name!Space, Codes
    <3> HIDE DEF c, i
    <3> QED BY <1>4, <2>1, <3>1
  <2> HIDE DEF c
  <2>4. written < Len(inplace)
    BY <1>0, <1>1, <1>2
  <2>5. /\ inplace' \in Seq(Codes) /\ Len(inplace') = Len(raw)
        /\ \A j \in written + 2 .. Len(raw) : inplace'[j] = inplace[j]
        /\ SubSeq(inplace', 1, written + 1) = Append(SubSeq(inplace, 1, written), c)
    BY <1>0, <2>2, <2>3, <2>4, WriteOne
  <2>6. Decoding(raw)[i] = Append(Decoding(raw)[i - 1], c)
    BY <1>0, <1>3, <1>4, DecodingSteps DEF c
  <2>7. Whole' = i
    BY <1>1, <2>2 DEF Whole
  <2>8. ~ InsideOf(raw, i + 1)
    <3>1. i - 1 \notin EscapesOf(raw) /\ (i + 1) - 1 = i /\ (i + 1) - 2 = i - 1
      BY <1>0, <1>3 DEF InsideOf
    <3> QED BY <1>7, <3>1 DEF InsideOf
  <2>9. Name!TypeOK'
    BY <1>0, <1>1, <1>2, <2>2, <2>5 DEF Name!TypeOK, Codes
  <2>10. Decoding(raw)[i] = SubSeq(inplace', 1, written')
    <3>1. i - 1 = read
      BY <1>0
    <3> QED BY <1>3, <2>2, <2>5, <2>6, <3>1
  <2>11. \A j \in i + 1 .. Len(raw) : inplace'[j] = raw[j]
    BY <1>0, <1>2, <1>3, <2>5
  <2>12. i \in 0 .. Len(raw) /\ written' <= i /\ read' = i
    BY <1>0, <1>1, <1>2, <2>2
  <2> HIDE DEF i
  <2>13. DecodeInv'
    BY <1>1, <2>2, <2>7, <2>8, <2>10, <2>11, <2>12 DEF DecodeInv
  <2> QED BY <2>9, <2>13 DEF NameInv
<1> QED
  BY <1>6, <1>7

LEMMA QuotedInv ==
    ASSUME NameInv, Name!Quoted
    PROVE  NameInv'
<1>0. /\ raw \in Seq(Codes) /\ inplace \in Seq(Codes) /\ Len(inplace) = Len(raw) /\ Len(raw) \in Nat
      /\ read \in Nat /\ written \in Nat /\ read <= Len(raw) /\ written <= Whole
      /\ digit \in 0 .. 15
  BY NameFacts
<1>1. /\ read < Len(raw) /\ quoting = "quoted" /\ read' = read + 1 /\ raw' = raw
      /\ quoting' = "second" /\ digit' = Name!HexValue(inplace[read + 1])
      /\ inplace' = inplace /\ written' = written
  BY <1>0 DEF Name!Quoted
<1>2. Whole = read - 1 /\ Whole' = Whole
  BY <1>0, <1>1 DEF Whole
<1>3. inplace[read + 1] = raw[read + 1]
  BY <1>0, <1>1 DEF NameInv, DecodeInv
<1>4. Whole + 1 \in EscapesOf(raw) /\ Whole + 1 = read
  BY <1>0, <1>1, <1>2 DEF NameInv, DecodeInv
<1>5. digit' = Name!HexValue(raw[read']) /\ digit' \in 0 .. 15
  <2>1. Name!HexValue(raw[read + 1]) \in 0 .. 15
    BY <1>0, <1>4, EscapeDigits
  <2> QED BY <1>1, <1>3, <2>1
<1>6. Name!TypeOK'
  BY <1>0, <1>1, <1>2, <1>5 DEF Name!TypeOK, Codes
<1>7. DecodeInv'
  <2>1. \A j \in read' + 1 .. Len(raw) : inplace[j] = raw[j]
    BY <1>0, <1>1 DEF NameInv, DecodeInv
  <2>2. /\ Whole \in 0 .. Len(raw) /\ written <= Whole /\ ~ InsideOf(raw, Whole + 1)
        /\ Decoding(raw)[Whole] = SubSeq(inplace, 1, written)
    BY DEF NameInv, DecodeInv
  <2> QED
    BY <1>1, <1>2, <1>4, <1>5, <2>1, <2>2 DEF DecodeInv
<1> QED
  BY <1>6, <1>7 DEF NameInv

LEMMA SecondInv ==
    ASSUME NameInv, Name!Second
    PROVE  NameInv'
<1> DEFINE i == read - 1
           c == MeantOf(raw, i)
<1>0. /\ raw \in Seq(Codes) /\ inplace \in Seq(Codes) /\ Len(inplace) = Len(raw) /\ Len(raw) \in Nat
      /\ read \in Nat /\ written \in Nat /\ read <= Len(raw) /\ written <= Whole
      /\ digit \in 0 .. 15
  BY NameFacts
<1>1. /\ read < Len(raw) /\ quoting = "second" /\ read' = read + 1 /\ raw' = raw
      /\ quoting' = "usual" /\ digit' = digit /\ written' = written + 1
      /\ inplace' = [inplace EXCEPT ![written + 1] = 16 * digit + Name!HexValue(inplace[read + 1])]
  BY <1>0 DEF Name!Second, Name!Write
<1>2. Whole = read - 2 /\ Whole' = read + 1
  BY <1>0, <1>1 DEF Whole
<1>3. /\ i \in EscapesOf(raw) /\ Whole + 1 = i /\ ~ InsideOf(raw, i)
      /\ digit = Name!HexValue(raw[read])
      /\ Decoding(raw)[i - 1] = SubSeq(inplace, 1, written)
  <2>1. Whole + 1 = i /\ i - 1 = Whole
    BY <1>0, <1>2
  <2> HIDE DEF i
  <2> QED BY <1>1, <2>1 DEF NameInv, DecodeInv
<1>4. inplace[read + 1] = raw[read + 1] /\ \A j \in read + 2 .. Len(raw) : inplace[j] = raw[j]
  BY <1>0, <1>1 DEF NameInv, DecodeInv
<1>5. /\ i + 1 \notin EscapesOf(raw) /\ i + 2 \notin EscapesOf(raw) /\ i >= 1 /\ i + 2 <= Len(raw)
      /\ Name!HexValue(raw[i + 1]) \in 0 .. 15 /\ Name!HexValue(raw[i + 2]) \in 0 .. 15
  <2> HIDE DEF i
  <2> QED BY <1>0, <1>3, EscapeDigits
<1>6. i \in Nat /\ i + 1 = read /\ i + 2 = read + 1
  BY <1>0, <1>5
<1>7. c = 16 * digit + Name!HexValue(inplace[read + 1])
  <2>1. c = 16 * Name!HexValue(raw[i + 1]) + Name!HexValue(raw[i + 2])
    BY <1>3 DEF MeantOf
  <2> HIDE DEF c, i
  <2> QED BY <1>3, <1>4, <1>6, <2>1
<1>8. c \in Codes
  <2>1. Name!HexValue(inplace[read + 1]) \in 0 .. 15
    <3> HIDE DEF i, c
    <3> QED BY <1>4, <1>5, <1>6
  <2>2. \A h, l \in 0 .. 15 : 16 * h + l \in Codes
    BY DEF Codes
  <2> HIDE DEF c, i
  <2> QED BY <1>0, <1>7, <2>1, <2>2
<1>9. Decoding(raw)[i + 2] = Append(Decoding(raw)[i - 1], c)
  <2>1. InsideOf(raw, i + 1) /\ InsideOf(raw, i + 2)
    <3>1. (i + 1) - 1 = i /\ (i + 2) - 2 = i
      BY <1>6
    <3> QED BY <1>3, <3>1 DEF InsideOf
  <2>2. /\ i \in 1 .. Len(raw) /\ i + 1 \in 1 .. Len(raw) /\ i + 2 \in 1 .. Len(raw)
        /\ (i + 1) - 1 = i /\ (i + 2) - 1 = i + 1
    BY <1>0, <1>5, <1>6
  <2> HIDE DEF i
  <2>3. Decoding(raw)[i] = Append(Decoding(raw)[i - 1], c)
    BY <1>0, <1>3, <2>2, DecodingSteps DEF c
  <2>4. Decoding(raw)[i + 1] = Decoding(raw)[i]
    BY <1>0, <2>1, <2>2, DecodingSteps
  <2>5. Decoding(raw)[i + 2] = Decoding(raw)[i + 1]
    BY <1>0, <2>1, <2>2, DecodingSteps
  <2> QED BY <2>3, <2>4, <2>5
<1> HIDE DEF c
<1>10. written < Len(inplace)
  BY <1>0, <1>1, <1>2
<1>11. /\ inplace' \in Seq(Codes) /\ Len(inplace') = Len(raw)
       /\ \A j \in written + 2 .. Len(raw) : inplace'[j] = inplace[j]
       /\ SubSeq(inplace', 1, written + 1) = Append(SubSeq(inplace, 1, written), c)
  <2> HIDE DEF i
  <2> QED BY <1>0, <1>1, <1>7, <1>8, <1>10, WriteOne
<1>12. ~ InsideOf(raw, read + 2)
  <2>1. (read + 2) - 1 = i + 2 /\ (read + 2) - 2 = i + 1
    BY <1>0
  <2> HIDE DEF i
  <2> QED BY <1>5, <2>1 DEF InsideOf
<1>13. Name!TypeOK'
  BY <1>0, <1>1, <1>2, <1>11 DEF Name!TypeOK, Codes
<1>14. Decoding(raw)[read + 1] = SubSeq(inplace', 1, written')
  <2> HIDE DEF i
  <2> QED BY <1>1, <1>3, <1>6, <1>9, <1>11
<1>15. \A j \in read + 2 .. Len(raw) : inplace'[j] = raw[j]
  BY <1>0, <1>2, <1>4, <1>11
<1>16. read + 1 \in 0 .. Len(raw) /\ written' <= read + 1 /\ (read + 1) + 1 = read + 2
  BY <1>0, <1>1, <1>2
<1>17. DecodeInv'
  BY <1>1, <1>2, <1>12, <1>14, <1>15, <1>16 DEF DecodeInv
<1> QED
  BY <1>13, <1>17 DEF NameInv

LEMMA NameStepInv ==
    ASSUME NameInv, [Name!Next]_Name!vars
    PROVE  NameInv'
<1>1. CASE UNCHANGED Name!vars
  <2>1. UNCHANGED <<raw, inplace, read, written, quoting, digit>>
    BY <1>1 DEF Name!vars
  <2>2. Whole' = Whole
    BY <2>1 DEF Whole
  <2> QED
    BY <2>1, <2>2 DEF NameInv, DecodeInv, Name!TypeOK
<1>2. CASE Name!Next
  BY <1>2, UsualInv, QuotedInv, SecondInv DEF Name!Next
<1> QED
  BY <1>1, <1>2

\* The decoding of a user's name in its own buffer: the parser reads no character that
\* it has already overwritten, never stops within an escape, and what it leaves is the
\* name with each escape decoded once, for every name.
THEOREM NamesAreDecoded ==
    ASSUME Name!UnescapeAssumption
    PROVE  Name!Spec => [](Name!TypeOK /\ Name!InPlace /\ Name!Unescaped)
<1>1. Name!Init => NameInv
  BY NameInitInv
<1>2. NameInv /\ [Name!Next]_Name!vars => NameInv'
  BY NameStepInv
<1>3. NameInv => Name!TypeOK /\ Name!InPlace /\ Name!Unescaped
  <2> SUFFICES ASSUME NameInv PROVE Name!TypeOK /\ Name!InPlace /\ Name!Unescaped
    OBVIOUS
  <2>0. /\ raw \in Seq(Codes) /\ Len(inplace) = Len(raw) /\ Len(raw) \in Nat
        /\ read \in Nat /\ written \in Nat /\ read <= Len(raw) /\ written <= Whole
        /\ quoting \in {"usual", "quoted", "second"}
    BY NameFacts
  <2>1. Name!InPlace
    <3>1. Whole <= read
      BY <2>0 DEF Whole
    <3>2. written <= read
      BY <2>0, <3>1 DEF Whole
    <3> QED BY <2>0, <3>2 DEF Name!InPlace, NameInv, DecodeInv
  <2>2. ASSUME read = Len(raw) PROVE SubSeq(inplace, 1, written) = Name!Expected
    <3>1. quoting = "usual"
      <4> SUFFICES ASSUME quoting # "usual" PROVE FALSE
        OBVIOUS
      <4>1. Whole + 1 \in EscapesOf(raw) /\ (Whole = read - 1 \/ Whole = read - 2)
        BY <2>0 DEF NameInv, DecodeInv, Whole
      <4>2. (Whole + 1) + 2 <= Len(raw)
        BY <2>0, <4>1, EscapeDigits
      <4> QED BY <2>0, <2>2, <4>1, <4>2
    <3>2. Whole = Len(raw)
      BY <2>2, <3>1 DEF Whole
    <3> QED BY <3>2, ExpectedIs DEF NameInv, DecodeInv
  <2> QED
    BY <2>0, <2>1, <2>2 DEF NameInv, Name!Unescaped
<1> QED
  BY <1>1, <1>2, <1>3, PTL DEF Name!Spec
=============================================================================
