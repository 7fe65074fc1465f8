---------------------------- MODULE TimersProofs ----------------------------
(***************************************************************************)
(* Proofs about Timers, for any number of threads and timers and any width *)
(* of the clock: no handler of a timer is called early, however late the   *)
(* threads are and wherever the clock wraps around; and if the threads are *)
(* not too late for the range of the clock, the keys keep an order and     *)
(* sleeping threads wake up in time for the earliest.                      *)
(***************************************************************************)
EXTENDS Timers, TLAPS, FiniteSetTheorems, WellFoundedInduction

-----------------------------------------------------------------------------
(* The inductive invariant.                                                *)

\* The types of what decides when a timer fires.  What a thread takes for its timeout
\* is not one of them: it has a value only while the keys are comparable.
ClockType ==
    /\ DOMAIN armed \subseteq Timers /\ \A n \in DOMAIN armed : armed[n] \in Keys
    /\ {time, now} \subseteq Keys
    /\ boot \subseteq Timers
    /\ awaiting \subseteq Status
    /\ pc \in [Threads -> {"find", "capture", "wait", "update", "stamp", "handle", "check", "expire",
                           "loop", "handler"}]
    /\ cur \in [Threads -> Timers \union {NoTimer}]
    /\ wanted \in [Timers -> Nat]

\* A timer is in one place: with the main thread, in the tree, with a thread, or with
\* the server that is to answer.
OnePlace ==
    /\ \A n \in DOMAIN armed : n \notin boot /\ n \notin awaiting
    /\ boot \intersect awaiting = {}
    /\ \A t \in Threads : cur[t] # NoTimer =>
          /\ pc[t] \in {"update", "stamp", "handle", "handler"}
          /\ cur[t] \notin DOMAIN armed /\ cur[t] \notin boot /\ cur[t] \notin awaiting
          /\ \A o \in Threads : cur[o] = cur[t] => o = t
    /\ \A t \in Threads : pc[t] = "handler" => cur[t] # NoTimer

\* A timer that has yet to wait has a key that lies ahead of the clock, by as much as
\* the clock is late and by what the timer has yet to wait.
KeyAhead ==
    \A n \in DOMAIN armed : wanted[n] > 0 =>
        /\ Lag + wanted[n] <= Interval[n]
        /\ (armed[n] - now) % Modulus = Lag + wanted[n]

IInv == ClockType /\ OnePlace /\ KeyAhead /\ NotEarly

-----------------------------------------------------------------------------
(* The clock.                                                              *)

\* The range of the clock, and how an interval lies in it.
LEMMA ModulusRight ==
    /\ Modulus \in Nat /\ Keys = 0 .. Modulus - 1
    /\ \A n \in Timers : Interval[n] \in Nat /\ Interval[n] > 0 /\ 4 * Interval[n] <= Modulus
    /\ Timers # {} => Modulus >= 4
<1>1. Modulus \in Nat
  BY TimerSetAssumption DEF Modulus
<1>2. ASSUME NEW n \in Timers PROVE Interval[n] \in Nat /\ Interval[n] > 0 /\ 4 * Interval[n] <= Modulus
  BY <1>1, TimersAssumption
<1> QED
  BY <1>1, <1>2 DEF Keys

\* A difference of two readings of the clock.
LEMMA DiffMod ==
    ASSUME Modulus \in Nat \ {0}, NEW a \in Keys, NEW b \in Keys
    PROVE  (a - b) % Modulus = IF a >= b THEN a - b ELSE a - b + Modulus
<1>1. a \in 0 .. Modulus - 1 /\ b \in 0 .. Modulus - 1
  BY DEF Keys
<1> DEFINE d == a - b
<1>2. CASE a >= b
  <2>1. d \in 0 .. Modulus - 1
    BY <1>1, <1>2
  <2> HIDE DEF d
  <2>2. d % Modulus = d
    BY <2>1
  <2> QED
    BY <1>2, <2>2 DEF d
<1>3. CASE ~ (a >= b)
  <2>1. d \in Int /\ d < 0 /\ d >= - Modulus
    BY <1>1, <1>3
  <2> HIDE DEF d
  <2>2. d % Modulus = d + Modulus
    BY <2>1
  <2> QED
    BY <1>3, <2>2 DEF d
<1> QED
  BY <1>2, <1>3

\* A reading of the clock, and some time later.
LEMMA SumMod ==
    ASSUME Modulus \in Nat \ {0}, NEW a \in Keys, NEW i \in 0 .. Modulus - 1
    PROVE  /\ (a + i) % Modulus = IF a + i < Modulus THEN a + i ELSE a + i - Modulus
           /\ (a + i) % Modulus \in Keys
<1>1. a \in 0 .. Modulus - 1
  BY DEF Keys
<1> DEFINE s == a + i
<1>2. CASE s < Modulus
  <2>1. s \in 0 .. Modulus - 1
    BY <1>1, <1>2
  <2> HIDE DEF s
  <2>2. s % Modulus = s
    BY <2>1
  <2> QED
    BY <1>2, <2>1, <2>2 DEF s, Keys
<1>3. CASE ~ (s < Modulus)
  <2>1. s \in Modulus .. 2 * Modulus - 1
    BY <1>1, <1>3
  <2> HIDE DEF s
  <2>2. s % Modulus = s - Modulus
    BY <2>1
  <2>3. s - Modulus \in 0 .. Modulus - 1
    BY <2>1
  <2> QED
    BY <1>3, <2>2, <2>3 DEF s, Keys
<1> QED
  BY <1>2, <1>3

\* The key of a timer lies one interval ahead of the clock.
LEMMA KeyRight ==
    ASSUME now \in Keys, NEW n \in Timers
    PROVE  Key(n) \in Keys /\ (Key(n) - now) % Modulus = Interval[n]
<1> DEFINE i == Interval[n]
<1>1. Modulus \in Nat \ {0} /\ i \in 0 .. Modulus - 1 /\ now \in 0 .. Modulus - 1
  BY ModulusRight
<1>2. /\ Key(n) = IF now + i < Modulus THEN now + i ELSE now + i - Modulus
      /\ Key(n) \in Keys
  BY <1>1, SumMod DEF Key
<1> DEFINE ahead == (Key(n) - now) % Modulus
<1>3. ahead = IF Key(n) >= now THEN Key(n) - now ELSE Key(n) - now + Modulus
  BY <1>1, <1>2, DiffMod
<1> HIDE DEF i, ahead
<1>4. ahead = i
  BY <1>1, <1>2, <1>3
<1> QED
  BY <1>2, <1>4 DEF i, ahead

-----------------------------------------------------------------------------
(* Each action keeps the invariant.                                        *)

\* A timer that is nowhere in the tree is armed, by the thread or the main thread that
\* has it: it has a key of its own, and waits for the rest of its interval.
LEMMA ArmStep ==
    ASSUME ClockType, KeyAhead, NEW n \in Timers, n \notin DOMAIN armed, Arm(n), UNCHANGED <<time, now>>
    PROVE  /\ DOMAIN armed' = DOMAIN armed \union {n} /\ \A m \in DOMAIN armed' : armed'[m] \in Keys
           /\ wanted' \in [Timers -> Nat]
           /\ \A m \in Timers \ {n} : wanted'[m] = wanted[m]
           /\ KeyAhead'
<1>1. /\ armed' = With(armed, n, Key(n))
      /\ wanted' = [wanted EXCEPT ![n] = IF Interval[n] > Lag THEN Interval[n] - Lag ELSE 0]
  BY DEF Arm
<1>2. now \in Keys /\ time \in Keys /\ Modulus \in Nat \ {0} /\ Interval[n] \in Nat
  BY ModulusRight DEF ClockType
<1>3. Lag \in Nat
  BY <1>2, DiffMod, ModulusRight DEF Lag
<1>4. Key(n) \in Keys /\ (Key(n) - now) % Modulus = Interval[n]
  BY <1>2, KeyRight
<1>5. /\ DOMAIN armed' = DOMAIN armed \union {n} /\ armed'[n] = Key(n)
      /\ \A m \in DOMAIN armed : armed'[m] = armed[m]
  BY <1>1 DEF With
<1> DEFINE rest == IF Interval[n] > Lag THEN Interval[n] - Lag ELSE 0
<1>6. rest \in Nat /\ (rest > 0 => Lag + rest = Interval[n])
  BY <1>2, <1>3
<1>7. wanted' \in [Timers -> Nat] /\ wanted'[n] = rest /\ \A m \in Timers \ {n} : wanted'[m] = wanted[m]
  BY <1>1, <1>6 DEF ClockType
<1> HIDE DEF rest
<1>8. KeyAhead'
  <2>1. Lag' = Lag
    BY DEF Lag
  <2>2. ASSUME NEW m \in DOMAIN armed', wanted'[m] > 0
        PROVE  Lag + wanted'[m] <= Interval[m] /\ (armed'[m] - now) % Modulus = Lag + wanted'[m]
    <3>1. CASE m = n
      BY <1>2, <1>4, <1>5, <1>6, <1>7, <2>2, <3>1
    <3>2. CASE m # n
      <4>1. m \in DOMAIN armed /\ m \in Timers /\ wanted'[m] = wanted[m] /\ armed'[m] = armed[m]
        BY <1>5, <1>7, <3>2 DEF ClockType
      <4> QED
        BY <2>2, <4>1 DEF KeyAhead
    <3> QED
      BY <3>1, <3>2
  <2> QED
    BY <2>1, <2>2 DEF KeyAhead
<1> QED
  BY <1>4, <1>5, <1>7, <1>8 DEF ClockType

\* A thread moves on and leaves the tree, the clock and the timers alone.
LEMMA MoveStep ==
    ASSUME IInv, NEW t \in Threads,
           NEW l \in {"find", "capture", "wait", "update", "stamp", "handle", "check", "expire", "loop"},
           pc' = [pc EXCEPT ![t] = l],
           cur[t] # NoTimer => l \in {"update", "stamp", "handle"},
           UNCHANGED <<armed, time, now, boot, awaiting, cur, wanted>>
    PROVE  IInv'
<1>1. pc'[t] = l /\ \A o \in Threads \ {t} : pc'[o] = pc[o]
  BY DEF IInv, ClockType
<1>2. ClockType'
  BY DEF IInv, ClockType
<1>3. OnePlace'
  BY <1>1 DEF IInv, OnePlace
<1>4. KeyAhead'
  BY DEF IInv, KeyAhead, Lag
<1>5. NotEarly'
  BY <1>1 DEF IInv, NotEarly
<1> QED
  BY <1>2, <1>3, <1>4, <1>5 DEF IInv

\* The main thread adds a timer.
LEMMA MainAddStep ==
    ASSUME IInv, NEW n \in Timers, MainAdd(n)
    PROVE  IInv'
<1> USE DEF IInv
<1>1. /\ n \in boot /\ boot' = boot \ {n} /\ Arm(n)
      /\ UNCHANGED <<time, now, awaiting, pc, cur>>
  BY DEF MainAdd
<1>2. n \notin DOMAIN armed /\ n \notin awaiting /\ \A t \in Threads : cur[t] # n
  <2>1. n # NoTimer
    BY TimersAssumption
  <2> QED
    BY <1>1, <2>1 DEF OnePlace
<1>3. /\ DOMAIN armed' = DOMAIN armed \union {n} /\ \A m \in DOMAIN armed' : armed'[m] \in Keys
      /\ wanted' \in [Timers -> Nat]
      /\ \A m \in Timers \ {n} : wanted'[m] = wanted[m]
      /\ KeyAhead'
  BY <1>1, <1>2, ArmStep
<1>4. ClockType'
  BY <1>1, <1>3 DEF ClockType
<1>5. OnePlace'
  BY <1>1, <1>2, <1>3 DEF OnePlace
<1>6. NotEarly'
  BY <1>1, <1>2, <1>3 DEF NotEarly, OnePlace, ClockType
<1> QED
  BY <1>3, <1>4, <1>5, <1>6

\* The server has answered: its timer is with a thread again.
LEMMA ResponseWakesStep ==
    ASSUME IInv, NEW t \in Threads, NEW n \in Timers, ResponseWakes(t, n)
    PROVE  IInv'
<1> USE DEF IInv
<1>1. /\ pc[t] = "wait" /\ pc' = [pc EXCEPT ![t] = "update"] /\ n \in awaiting
      /\ awaiting' = awaiting \ {n} /\ cur' = [cur EXCEPT ![t] = n]
      /\ UNCHANGED <<armed, time, now, boot, wanted>>
  BY DEF ResponseWakes, Goto
<1>2. /\ pc'[t] = "update" /\ cur'[t] = n
      /\ \A o \in Threads \ {t} : pc'[o] = pc[o] /\ cur'[o] = cur[o]
      /\ n # NoTimer /\ cur[t] = NoTimer
  BY <1>1, TimersAssumption DEF ClockType, OnePlace
<1>3. n \notin DOMAIN armed /\ n \notin boot /\ \A o \in Threads : cur[o] # n
  BY <1>1, <1>2 DEF OnePlace
<1>4. ClockType'
  BY <1>1 DEF ClockType
<1>5. OnePlace'
  BY <1>1, <1>2, <1>3 DEF OnePlace
<1>6. KeyAhead'
  BY <1>1 DEF KeyAhead, Lag
<1>7. NotEarly'
  BY <1>1, <1>2 DEF NotEarly
<1> QED
  BY <1>4, <1>5, <1>6, <1>7

\* The clock is read: as late as it was, so much nearer are the keys.
LEMMA StampStep ==
    ASSUME IInv, NEW t \in Threads, Stamp(t)
    PROVE  IInv'
<1> USE DEF IInv
<1>1. /\ pc[t] = "stamp" /\ pc' = [pc EXCEPT ![t] = "handle"] /\ now' = time
      /\ UNCHANGED <<armed, time, boot, awaiting, cur, wanted>>
  BY DEF Stamp, Goto
<1>2. pc'[t] = "handle" /\ \A o \in Threads \ {t} : pc'[o] = pc[o]
  BY <1>1 DEF ClockType
<1>3. ClockType'
  BY <1>1 DEF ClockType
<1>4. OnePlace'
  BY <1>1, <1>2 DEF OnePlace
<1>5. KeyAhead'
  <2>1. ASSUME NEW n \in DOMAIN armed, wanted[n] > 0
        PROVE  ((time - time) % Modulus) + wanted[n] <= Interval[n]
               /\ (armed[n] - time) % Modulus = ((time - time) % Modulus) + wanted[n]
    <3>1. /\ n \in Timers /\ armed[n] \in Keys /\ time \in Keys /\ now \in Keys
          /\ wanted[n] \in Nat /\ Interval[n] \in Nat /\ 4 * Interval[n] <= Modulus
          /\ Modulus \in Nat \ {0} /\ Keys = 0 .. Modulus - 1
      BY ModulusRight DEF ClockType
    <3>2. /\ Lag + wanted[n] <= Interval[n]
          /\ (armed[n] - now) % Modulus = Lag + wanted[n]
      BY <2>1 DEF KeyAhead
    <3>3. (armed[n] - now) % Modulus = IF armed[n] >= now THEN armed[n] - now ELSE armed[n] - now + Modulus
      BY <3>1, DiffMod
    <3>4. Lag = IF time >= now THEN time - now ELSE time - now + Modulus
      BY <3>1, DiffMod DEF Lag
    <3>5. (armed[n] - time) % Modulus = IF armed[n] >= time THEN armed[n] - time ELSE armed[n] - time + Modulus
      BY <3>1, DiffMod
    <3>8. (time - time) % Modulus = 0
      <4>1. (time - time) % Modulus = IF time >= time THEN time - time ELSE time - time + Modulus
        BY <3>1, DiffMod
      <4> QED
        BY <3>1, <4>1
    <3> DEFINE a == armed[n]
               w == wanted[n]
               i == Interval[n]
               x == (armed[n] - now) % Modulus
               l == Lag
               y == (armed[n] - time) % Modulus
               z == (time - time) % Modulus
    <3>6. /\ a \in 0 .. Modulus - 1 /\ time \in 0 .. Modulus - 1 /\ now \in 0 .. Modulus - 1
          /\ w \in Nat /\ w > 0 /\ i \in Nat /\ 4 * i <= Modulus /\ Modulus \in Nat
          /\ l + w <= i /\ x = l + w
          /\ x = IF a >= now THEN a - now ELSE a - now + Modulus
          /\ l = IF time >= now THEN time - now ELSE time - now + Modulus
          /\ y = IF a >= time THEN a - time ELSE a - time + Modulus
          /\ z = 0
      BY <2>1, <3>1, <3>2, <3>3, <3>4, <3>5, <3>8
    <3> HIDE DEF a, w, i, x, l, y, z
    <3>7. y = z + w /\ z + w <= i
      BY <3>6
    <3> QED
      BY <3>7 DEF a, w, i, y, z
  <2> QED
    BY <1>1, <2>1 DEF KeyAhead, Lag
<1>6. NotEarly'
  BY <1>1, <1>2 DEF NotEarly
<1> QED
  BY <1>3, <1>4, <1>5, <1>6

\* The handler of an event, which may be the response that arms a timer again.
LEMMA HandleStep ==
    ASSUME IInv, NEW t \in Threads, Handle(t)
    PROVE  IInv'
<1> USE DEF IInv
<1>1. /\ pc[t] = "handle" /\ pc' = [pc EXCEPT ![t] = "check"] /\ cur' = [cur EXCEPT ![t] = NoTimer]
      /\ cur[t] = NoTimer => UNCHANGED <<armed, wanted>>
      /\ cur[t] # NoTimer => Arm(cur[t])
      /\ UNCHANGED <<time, now, boot, awaiting>>
  BY DEF Handle, Goto
<1>2. /\ pc'[t] = "check" /\ cur'[t] = NoTimer
      /\ \A o \in Threads \ {t} : pc'[o] = pc[o] /\ cur'[o] = cur[o]
  BY <1>1 DEF ClockType
<1>3. CASE cur[t] = NoTimer
  <2>1. ClockType'
    BY <1>1, <1>3 DEF ClockType
  <2>2. OnePlace'
    BY <1>1, <1>2, <1>3 DEF OnePlace
  <2>3. KeyAhead'
    BY <1>1, <1>3 DEF KeyAhead, Lag
  <2>4. NotEarly'
    BY <1>1, <1>2, <1>3 DEF NotEarly
  <2> QED
    BY <2>1, <2>2, <2>3, <2>4
<1>4. CASE cur[t] # NoTimer
  <2> DEFINE n == cur[t]
  <2>1. /\ n \in Timers /\ n \notin DOMAIN armed /\ n \notin boot /\ n \notin awaiting
        /\ \A o \in Threads : cur[o] = n => o = t
    BY <1>4 DEF ClockType, OnePlace
  <2>2. Arm(n)
    BY <1>1, <1>4
  <2> HIDE DEF n
  <2>3. /\ DOMAIN armed' = DOMAIN armed \union {n} /\ \A m \in DOMAIN armed' : armed'[m] \in Keys
        /\ wanted' \in [Timers -> Nat]
        /\ \A m \in Timers \ {n} : wanted'[m] = wanted[m]
        /\ KeyAhead'
    BY <1>1, <2>1, <2>2, ArmStep
  <2>4. ClockType'
    BY <1>1, <2>1, <2>3 DEF ClockType
  <2>5. OnePlace'
    BY <1>1, <1>2, <2>1, <2>3 DEF OnePlace
  <2>6. NotEarly'
    BY <1>1, <1>2, <2>1, <2>3 DEF NotEarly, OnePlace, ClockType
  <2> QED
    BY <2>3, <2>4, <2>5, <2>6
<1> QED
  BY <1>3, <1>4

\* A timer that is due has waited for its interval.
LEMMA FireStep ==
    ASSUME IInv, NEW t \in Threads, NEW n \in Timers, Fire(t, n)
    PROVE  IInv'
<1> USE DEF IInv
<1>1. /\ pc[t] = "loop" /\ pc' = [pc EXCEPT ![t] = "handler"]
      /\ n \in DOMAIN armed /\ Due(armed[n])
      /\ armed' = Without(armed, n) /\ cur' = [cur EXCEPT ![t] = n]
      /\ UNCHANGED <<time, now, boot, awaiting, wanted>>
  BY DEF Fire, Goto, Earliest
<1>2. /\ pc'[t] = "handler" /\ cur'[t] = n
      /\ \A o \in Threads \ {t} : pc'[o] = pc[o] /\ cur'[o] = cur[o]
      /\ n # NoTimer /\ cur[t] = NoTimer
  BY <1>1, TimersAssumption DEF ClockType, OnePlace
<1>3. /\ DOMAIN armed' = DOMAIN armed \ {n}
      /\ \A m \in DOMAIN armed' : armed'[m] = armed[m]
  BY <1>1 DEF Without
<1>4. wanted[n] = 0
  <2> SUFFICES ASSUME wanted[n] > 0 PROVE FALSE
    BY DEF ClockType
  <2> DEFINE d == (armed[n] - now) % Modulus
             l == Lag
             w == wanted[n]
             i == Interval[n]
  <2>1. d = l + w /\ l + w <= i /\ w > 0
    BY <1>1 DEF KeyAhead
  <2>2. /\ armed[n] \in Keys /\ now \in Keys /\ time \in Keys /\ w \in Nat
        /\ Modulus \in Nat /\ Modulus >= 4 /\ Keys = 0 .. Modulus - 1
        /\ i \in Nat /\ 4 * i <= Modulus
    BY <1>1, ModulusRight DEF ClockType
  <2>3. l \in Nat
    BY <2>2, DiffMod DEF Lag
  <2>4. (IF d < Modulus \div 2 THEN d ELSE d - Modulus) <= 0
    BY <1>1 DEF Due, Signed
  <2> HIDE DEF d, l, w, i
  <2>5. d \in Nat /\ d > 0 /\ 4 * d <= Modulus
    BY <2>1, <2>2, <2>3
  <2>6. d < Modulus \div 2
    BY <2>2, <2>5
  <2> QED
    BY <2>4, <2>5, <2>6
<1>5. ClockType'
  BY <1>1, <1>3 DEF ClockType
<1>6. OnePlace'
  <2>1. n \notin boot /\ n \notin awaiting /\ \A o \in Threads : cur[o] # n
    BY <1>1, <1>2 DEF OnePlace
  <2> QED
    BY <1>1, <1>2, <1>3, <2>1 DEF OnePlace
<1>7. KeyAhead'
  BY <1>1, <1>3 DEF KeyAhead, Lag
<1>8. NotEarly'
  BY <1>1, <1>2, <1>4 DEF NotEarly
<1> QED
  BY <1>5, <1>6, <1>7, <1>8

\* The handler of the timer that pushes users arms it again.
LEMMA UsersHandlerStep ==
    ASSUME IInv, NEW t \in Threads, UsersHandler(t)
    PROVE  IInv'
<1> USE DEF IInv
<1> DEFINE n == cur[t]
<1>1. /\ pc[t] = "handler" /\ pc' = [pc EXCEPT ![t] = "loop"] /\ cur' = [cur EXCEPT ![t] = NoTimer]
      /\ Arm(n)
      /\ UNCHANGED <<time, now, boot, awaiting>>
  BY DEF UsersHandler, Goto
<1>2. /\ pc'[t] = "loop" /\ cur'[t] = NoTimer
      /\ \A o \in Threads \ {t} : pc'[o] = pc[o] /\ cur'[o] = cur[o]
  BY <1>1 DEF ClockType
<1>3. /\ n \in Timers /\ n \notin DOMAIN armed /\ n \notin boot /\ n \notin awaiting
      /\ \A o \in Threads : cur[o] = n => o = t
  BY <1>1 DEF ClockType, OnePlace
<1> HIDE DEF n
<1>4. /\ DOMAIN armed' = DOMAIN armed \union {n} /\ \A m \in DOMAIN armed' : armed'[m] \in Keys
      /\ wanted' \in [Timers -> Nat]
      /\ \A m \in Timers \ {n} : wanted'[m] = wanted[m]
      /\ KeyAhead'
  BY <1>1, <1>3, ArmStep
<1>5. ClockType'
  BY <1>1, <1>3, <1>4 DEF ClockType
<1>6. OnePlace'
  BY <1>1, <1>2, <1>3, <1>4 DEF OnePlace
<1>7. NotEarly'
  BY <1>1, <1>2, <1>3, <1>4 DEF NotEarly, OnePlace, ClockType
<1> QED
  BY <1>4, <1>5, <1>6, <1>7

\* The handler of the timer that pushes the status sends a request.
LEMMA StatusHandlerStep ==
    ASSUME IInv, NEW t \in Threads, StatusHandler(t)
    PROVE  IInv'
<1> USE DEF IInv
<1>1. /\ pc[t] = "handler" /\ pc' = [pc EXCEPT ![t] = "loop"] /\ cur' = [cur EXCEPT ![t] = NoTimer]
      /\ cur[t] \in Status /\ awaiting' = awaiting \union {cur[t]}
      /\ UNCHANGED <<armed, time, now, boot, wanted>>
  BY DEF StatusHandler, Goto
<1>2. /\ pc'[t] = "loop" /\ cur'[t] = NoTimer
      /\ \A o \in Threads \ {t} : pc'[o] = pc[o] /\ cur'[o] = cur[o]
  BY <1>1 DEF ClockType
<1>3. ClockType'
  BY <1>1 DEF ClockType
<1>4. OnePlace'
  BY <1>1, <1>2 DEF OnePlace
<1>5. KeyAhead'
  BY <1>1 DEF KeyAhead, Lag
<1>6. NotEarly'
  BY <1>1, <1>2 DEF NotEarly
<1> QED
  BY <1>3, <1>4, <1>5, <1>6

\* A millisecond goes by: the clock is later, and each timer has less to wait.
LEMMA TickStep ==
    ASSUME IInv, Tick
    PROVE  IInv'
<1> USE DEF IInv
<1>1. /\ time' = (time + 1) % Modulus
      /\ wanted' = [n \in Timers |-> IF wanted[n] > 0 THEN wanted[n] - 1 ELSE 0]
      /\ UNCHANGED <<armed, now, boot, awaiting, pc, cur>>
  BY DEF Tick
<1>2. \A n \in Timers : wanted[n] \in Nat /\ wanted'[n] = IF wanted[n] > 0 THEN wanted[n] - 1 ELSE 0
  BY <1>1 DEF ClockType
<1>3. wanted' \in [Timers -> Nat]
  BY <1>1, <1>2
<1>4. time \in Keys /\ now \in Keys /\ Modulus \in Nat \ {0} /\ Keys = 0 .. Modulus - 1
  BY ModulusRight DEF ClockType
<1>5. time' \in Keys
  <2>1. CASE Modulus = 1
    <3>1. 0 \in Keys /\ time = 0 /\ 1 % 1 = 0
      BY <1>4, <2>1
    <3> QED
      BY <1>1, <2>1, <3>1
  <2>2. CASE Modulus # 1
    BY <1>1, <1>4, <2>2, SumMod
  <2> QED
    BY <2>1, <2>2
<1>6. ClockType'
  BY <1>1, <1>3, <1>5 DEF ClockType
<1>7. OnePlace'
  BY <1>1 DEF OnePlace
<1>8. NotEarly'
  BY <1>1, <1>2 DEF NotEarly, OnePlace, ClockType
<1>9. KeyAhead'
  <2>1. ASSUME NEW n \in DOMAIN armed, wanted'[n] > 0
        PROVE  Lag' + wanted'[n] <= Interval[n] /\ (armed[n] - now) % Modulus = Lag' + wanted'[n]
    <3>1. n \in Timers /\ wanted[n] \in Nat /\ wanted[n] > 1 /\ wanted'[n] = wanted[n] - 1
      BY <1>2, <2>1 DEF ClockType
    <3>2. /\ Lag + wanted[n] <= Interval[n]
          /\ (armed[n] - now) % Modulus = Lag + wanted[n]
      BY <3>1 DEF KeyAhead
    <3>3. Interval[n] \in Nat /\ 4 * Interval[n] <= Modulus /\ Modulus >= 4
      BY <3>1, ModulusRight
    <3>4. Lag = IF time >= now THEN time - now ELSE time - now + Modulus
      BY <1>4, DiffMod DEF Lag
    <3>5. time' = IF time + 1 < Modulus THEN time + 1 ELSE time + 1 - Modulus
      BY <1>1, <1>4, <3>3, SumMod
    <3>6. Lag' = IF time' >= now THEN time' - now ELSE time' - now + Modulus
      BY <1>1, <1>4, <1>5, DiffMod DEF Lag
    <3> DEFINE w == wanted[n]
               i == Interval[n]
               l == Lag
               r == Lag'
               u == time'
    <3>7. /\ w \in Nat /\ w > 1 /\ i \in Nat /\ 4 * i <= Modulus /\ l + w <= i
          /\ time \in 0 .. Modulus - 1 /\ now \in 0 .. Modulus - 1 /\ Modulus \in Nat
          /\ l = IF time >= now THEN time - now ELSE time - now + Modulus
          /\ u = IF time + 1 < Modulus THEN time + 1 ELSE time + 1 - Modulus
          /\ r = IF u >= now THEN u - now ELSE u - now + Modulus
      BY <1>4, <3>1, <3>2, <3>3, <3>4, <3>5, <3>6
    <3> HIDE DEF w, i, l, r, u
    <3>8. r = l + 1
      BY <3>7
    <3>9. r + (w - 1) = l + w
      BY <3>7, <3>8
    <3> QED
      BY <3>1, <3>2, <3>9 DEF r, l, w
  <2> QED
    BY <1>1, <2>1 DEF KeyAhead
<1> QED
  BY <1>6, <1>7, <1>8, <1>9

-----------------------------------------------------------------------------
(* How late a timer can be, and who wakes up for it.                       *)

\* How far the key of a timer lies ahead of the clock; negative when it is overdue.
Ahead(n) == Signed(armed[n], now)
Positive(x) == IF x > 0 THEN x ELSE 0

\* The clock of t's last waking was read when n was due already.
SinceDue(t, n) ==
    \/ pc[t] \in {"find", "capture"}
    \/ /\ pc[t] \in {"wait", "update", "stamp", "handle", "check"}
       /\ (now - before[t]) % Modulus <= - Ahead(n)

\* At least as often t has brought the clock up to date since n is due.  On its way to the
\* timers it has done so once; twice, if it found the clock where it had been one
\* range of the clock before, did not look for timers, and came again.
Advances(t, n) ==
    IF pc[t] \in {"expire", "loop", "handler"} THEN 2
    ELSE (IF pc[t] \in {"handle", "check"} /\ Delta(t) THEN 1 ELSE 0)
         + (IF SinceDue(t, n) THEN 1 ELSE 0)

Units(f) == {c \in Threads \X {1, 2} : c[2] <= f[c[1]]}
Total(f) == Cardinality(Units(f))

\* The first advance makes n due, late by less than the longest interval and MaxLag; each
\* later one adds MaxLag.
LateInv(i) ==
    \A n \in DOMAIN armed :
        /\ Ahead(n) <= i
        /\ - Ahead(n) <= i - 1 + MaxLag * Total([t \in Threads |-> Advances(t, n)])

\* Only while all threads sleep the clock is late by more than MaxLag, and never when a
\* timer is due.
LagInv(i) ==
    /\ Lag <= MaxLag + i
    /\ \A t \in Threads : left[t] <= i
    /\ (\A o \in Threads : Waits(o)) =>
          \A t \in Threads : left[t] # Forever => Lag + left[t] <= MaxLag + i
    /\ Lag > MaxLag => (\A o \in Threads : Waits(o)) \/ \E o \in Threads : pc[o] \in {"update", "stamp"}
    /\ (\E n \in DOMAIN armed : Due(armed[n])) => Lag <= MaxLag

\* When all threads have looked and go to sleep, one of them has seen the timers as they are.
Dozes(t) == pc[t] \in {"capture", "wait"}

WakeInv ==
    (\A t \in Threads : Dozes(t)) =>
        /\ (\E n \in DOMAIN armed : Due(armed[n])) => \E t \in Threads : left[t] = 0
        /\ seen /\ DOMAIN armed # {} =>
              \E t \in Threads :
                  /\ left[t] # Forever
                  /\ \A n \in DOMAIN armed :
                        /\ left[t] <= Positive(Ahead(n))
                        /\ Lag + left[t] <= MaxLag + Positive(Ahead(n))

\* The types that ClockType leaves open.
MoreTypes ==
    /\ lock \in Threads \union {NoThread}
    /\ left \in [Threads -> Keys \union {Forever}]
    /\ before \in [Threads -> Keys]
    /\ seen \in BOOLEAN /\ torn \in BOOLEAN
    /\ wanted \in [Timers -> Keys]
    /\ seen => boot = {}

XInv(i) == MoreTypes /\ LateInv(i) /\ LagInv(i) /\ WakeInv

\* What LagBound says of i.
Bounds(i) ==
    /\ i \in Nat \ {0}
    /\ IsFiniteSet(Threads)
    /\ \A n \in Timers : Interval[n] <= i
    /\ 2 * (Cardinality(Threads) * MaxLag + i) <= Modulus \div 2

-----------------------------------------------------------------------------
(* Differences read as signed numbers.                                     *)

LEMMA HalfRight ==
    /\ Modulus \in Nat \ {0} /\ Modulus \div 2 \in Nat /\ Keys = 0 .. Modulus - 1
    /\ 2 * (Modulus \div 2) <= Modulus /\ Modulus <= 2 * (Modulus \div 2) + 1
<1>1. Modulus \in Nat \ {0} /\ Keys = 0 .. Modulus - 1
  BY TimerSetAssumption, TimersAssumption DEF Modulus, Keys
<1> QED
  BY <1>1

\* A signed difference is the difference, but maybe for the range of the clock.
LEMMA SignedIs ==
    ASSUME NEW a \in Keys, NEW b \in Keys
    PROVE  /\ Signed(a, b) \in Int
           /\ - (Modulus \div 2) - 1 <= Signed(a, b) /\ Signed(a, b) < Modulus \div 2
           /\ \E e \in {-1, 0, 1} : a - b = Signed(a, b) + e * Modulus
<1> DEFINE d == (a - b) % Modulus
           h == Modulus \div 2
           s == Signed(a, b)
<1>1. /\ Modulus \in Nat \ {0} /\ h \in Nat /\ a \in 0 .. Modulus - 1 /\ b \in 0 .. Modulus - 1
      /\ 2 * h <= Modulus /\ Modulus <= 2 * h + 1
  BY HalfRight
<1>2. d = IF a >= b THEN a - b ELSE a - b + Modulus
  BY <1>1, DiffMod
<1>3. s = IF d < h THEN d ELSE d - Modulus
  BY DEF Signed
<1> HIDE DEF d, h, s
<1>4. s \in Int /\ - h - 1 <= s /\ s < h
  BY <1>1, <1>2, <1>3
<1>5. a - b = s \/ a - b = s + Modulus \/ a - b = s - Modulus
  BY <1>1, <1>2, <1>3
<1>6. \E e \in {-1, 0, 1} : a - b = s + e * Modulus
  <2>1. 0 * Modulus = 0 /\ 1 * Modulus = Modulus /\ (-1) * Modulus = - Modulus
    BY <1>1
  <2>2. CASE a - b = s
    BY <1>1, <1>4, <2>1, <2>2
  <2>3. CASE a - b = s + Modulus
    BY <1>1, <1>4, <2>1, <2>3
  <2>4. CASE a - b = s - Modulus
    BY <1>1, <1>4, <2>1, <2>4
  <2> QED
    BY <1>5, <2>2, <2>3, <2>4
<1> QED
  BY <1>4, <1>6 DEF h, s

\* It is the only number of that kind in its range.
LEMMA SignedOnly ==
    ASSUME NEW a \in Keys, NEW b \in Keys, NEW x \in Int,
           - (Modulus \div 2) <= x, x < Modulus \div 2,
           a - b = x \/ a - b = x + Modulus \/ a - b = x - Modulus
    PROVE  Signed(a, b) = x
<1> DEFINE d == (a - b) % Modulus
           h == Modulus \div 2
           s == Signed(a, b)
<1>1. /\ Modulus \in Nat \ {0} /\ h \in Nat /\ a \in 0 .. Modulus - 1 /\ b \in 0 .. Modulus - 1
      /\ 2 * h <= Modulus /\ Modulus <= 2 * h + 1 /\ - h <= x /\ x < h
  BY HalfRight
<1>2. d = IF a >= b THEN a - b ELSE a - b + Modulus
  BY <1>1, DiffMod
<1>3. s = IF d < h THEN d ELSE d - Modulus
  BY DEF Signed
<1> HIDE DEF d, h, s
<1>4. s = x
  BY <1>1, <1>2, <1>3
<1> QED
  BY <1>4 DEF s

\* As much as the clock goes on, a key comes nearer.
LEMMA SignedLater ==
    ASSUME NEW k \in Keys, NEW b \in Keys, NEW c \in Keys,
           - (Modulus \div 2) <= Signed(k, b) - ((c - b) % Modulus)
    PROVE  Signed(k, c) = Signed(k, b) - ((c - b) % Modulus)
<1> DEFINE h == Modulus \div 2
           s == Signed(k, b)
           l == (c - b) % Modulus
<1>1. /\ Modulus \in Nat \ {0} /\ h \in Nat /\ 2 * h <= Modulus /\ Modulus <= 2 * h + 1
      /\ k \in 0 .. Modulus - 1 /\ b \in 0 .. Modulus - 1 /\ c \in 0 .. Modulus - 1
  BY HalfRight
<1>2. l = IF c >= b THEN c - b ELSE c - b + Modulus
  BY <1>1, DiffMod
<1>3. s \in Int /\ s < h /\ (k - b = s \/ k - b = s + Modulus \/ k - b = s - Modulus)
  <2>1. PICK e \in {-1, 0, 1} : k - b = s + e * Modulus
    BY SignedIs
  <2>2. s \in Int /\ s < h
    BY SignedIs
  <2> HIDE DEF s, h
  <2> QED
    BY <1>1, <2>1, <2>2
<1>4. - h <= s - l
  OBVIOUS
<1> HIDE DEF h, s, l
<1>5. /\ s - l \in Int /\ - h <= s - l /\ s - l < h
      /\ k - c = s - l \/ k - c = s - l + Modulus \/ k - c = s - l - Modulus
  BY <1>1, <1>2, <1>3, <1>4
<1>6. Signed(k, c) = s - l
  BY <1>5, SignedOnly DEF h
<1> QED
  BY <1>6 DEF s, l

\* Two keys near the clock are as far apart as their distances from the clock.
LEMMA SignedBetween ==
    ASSUME NEW a \in Keys, NEW k \in Keys, NEW b \in Keys,
           - (Modulus \div 2) <= Signed(a, b) - Signed(k, b), Signed(a, b) - Signed(k, b) < Modulus \div 2
    PROVE  Signed(a, k) = Signed(a, b) - Signed(k, b)
<1> DEFINE h == Modulus \div 2
           s == Signed(a, b)
           r == Signed(k, b)
<1>1. /\ Modulus \in Nat \ {0} /\ h \in Nat /\ 2 * h <= Modulus /\ Modulus <= 2 * h + 1
      /\ k \in 0 .. Modulus - 1 /\ b \in 0 .. Modulus - 1 /\ a \in 0 .. Modulus - 1
      /\ - h <= s - r /\ s - r < h
  BY HalfRight
<1>2. PICK e \in {-1, 0, 1} : a - b = s + e * Modulus
  BY SignedIs
<1>3. PICK g \in {-1, 0, 1} : k - b = r + g * Modulus
  BY SignedIs
<1>4. s \in Int /\ r \in Int
  BY SignedIs
<1> HIDE DEF h, s, r
<1>5. a - k = s - r \/ a - k = s - r + Modulus \/ a - k = s - r - Modulus
  <2>1. (a - b = s \/ a - b = s + Modulus \/ a - b = s - Modulus)
        /\ (k - b = r \/ k - b = r + Modulus \/ k - b = r - Modulus)
    BY <1>1, <1>2, <1>3, <1>4
  <2> QED
    BY <1>1, <1>4, <2>1
<1>6. Signed(a, k) = s - r
  BY <1>1, <1>4, <1>5, SignedOnly DEF h
<1> QED
  BY <1>6 DEF s, r

\* A new key is one interval ahead.
LEMMA NewKey ==
    ASSUME now \in Keys, NEW n \in Timers
    PROVE  Key(n) \in Keys /\ Signed(Key(n), now) = Interval[n]
<1> DEFINE h == Modulus \div 2
           d == (Key(n) - now) % Modulus
           i == Interval[n]
<1>1. Key(n) \in Keys /\ d = i
  BY KeyRight
<1>2. i \in Nat /\ i > 0 /\ 4 * i <= Modulus
  BY ModulusRight
<1>3. Modulus \in Nat /\ h \in Nat /\ Modulus <= 2 * h + 1
  BY HalfRight
<1>4. Signed(Key(n), now) = IF d < h THEN d ELSE d - Modulus
  BY DEF Signed
<1> HIDE DEF h, d, i
<1>5. i < h
  BY <1>2, <1>3
<1> QED
  BY <1>1, <1>4, <1>5 DEF i

-----------------------------------------------------------------------------
(* Counting.                                                               *)

LEMMA TimesGrows ==
    ASSUME NEW m \in Nat, NEW a \in Nat, NEW b \in Nat, a <= b
    PROVE  m * a \in Nat /\ m * b \in Nat /\ m * a <= m * b
<1> DEFINE d == b - a
<1>1. d \in Nat /\ b = a + d
  OBVIOUS
<1> HIDE DEF d
<1>2. m * a \in Nat /\ m * d \in Nat /\ m * (a + d) = m * a + m * d
  BY <1>1
<1> DEFINE x == m * a
           y == m * d
<1> HIDE DEF x, y
<1>3. x \in Nat /\ y \in Nat /\ m * b = x + y
  BY <1>1, <1>2 DEF x, y
<1> QED
  BY <1>3 DEF x

LEMMA OneMore ==
    ASSUME NEW m \in Nat, NEW a \in Nat, NEW b \in Nat, a + 1 <= b
    PROVE  m * a + m <= m * b
<1>1. a + 1 \in Nat /\ m * (a + 1) = m * a + m
  OBVIOUS
<1>2. m * (a + 1) <= m * b
  BY <1>1, TimesGrows
<1> QED
  BY <1>1, <1>2

\* What the threads have is counted, twice at most for each.
LEMMA TotalRight ==
    ASSUME NEW f, IsFiniteSet(Threads)
    PROVE  /\ IsFiniteSet(Units(f)) /\ Total(f) \in Nat
           /\ Cardinality(Threads) \in Nat /\ Total(f) <= 2 * Cardinality(Threads)
<1>1. IsFiniteSet({1, 2}) /\ Cardinality({1, 2}) = 2
  <2>1. {1, 2} = 1 .. 2
    OBVIOUS
  <2>2. IsFiniteSet(1 .. 2) /\ Cardinality(1 .. 2) = 2
    <3>1. 1 \in Int /\ 2 \in Int
      OBVIOUS
    <3>2. IsFiniteSet(1 .. 2) /\ Cardinality(1 .. 2) = IF 1 > 2 THEN 0 ELSE 2 - 1 + 1
      BY Zenon, <3>1, FS_Interval
    <3> QED
      BY <3>2
  <2> QED
    BY Zenon, <2>1, <2>2
<1>2. Cardinality(Threads) \in Nat
  BY FS_CardinalityType
<1>3. IsFiniteSet(Threads \X {1, 2}) /\ Cardinality(Threads \X {1, 2}) = Cardinality(Threads) * 2
  BY <1>1, FS_Product
<1>4. Units(f) \in SUBSET (Threads \X {1, 2})
  BY DEF Units
<1>5. IsFiniteSet(Units(f)) /\ Cardinality(Units(f)) <= Cardinality(Threads) * 2
  BY <1>3, <1>4, FS_Subset
<1>6. Cardinality(Units(f)) \in Nat
  BY <1>5, FS_CardinalityType
<1> QED
  BY <1>2, <1>5, <1>6 DEF Total

\* If no thread has less there are not less, ...
LEMMA TotalKept ==
    ASSUME NEW f \in [Threads -> 0 .. 2], NEW g \in [Threads -> 0 .. 2], IsFiniteSet(Threads),
           \A t \in Threads : f[t] <= g[t]
    PROVE  Total(f) <= Total(g)
<1>1. ASSUME NEW c \in Units(f) PROVE c \in Units(g)
  <2>1. c \in Threads \X {1, 2} /\ c[2] <= f[c[1]]
    BY DEF Units
  <2>2. c[1] \in Threads /\ c[2] \in {1, 2}
    BY <2>1
  <2>3. f[c[1]] <= g[c[1]] /\ f[c[1]] \in 0 .. 2 /\ g[c[1]] \in 0 .. 2
    BY <2>2
  <2> DEFINE x == f[c[1]]
             y == g[c[1]]
             z == c[2]
  <2> HIDE DEF x, y, z
  <2>4. z <= y
    BY <2>1, <2>2, <2>3 DEF x, y, z
  <2> QED
    BY <2>1, <2>4 DEF Units, y, z
<1>2. Units(f) \in SUBSET Units(g)
  BY <1>1
<1> QED
  BY <1>2, TotalRight, FS_Subset DEF Total

\* ... and if one has more there are more.
LEMMA TotalGrows ==
    ASSUME NEW f \in [Threads -> 0 .. 2], NEW g \in [Threads -> 0 .. 2], IsFiniteSet(Threads),
           \A t \in Threads : f[t] <= g[t], NEW o \in Threads, f[o] < g[o]
    PROVE  Total(f) + 1 <= Total(g)
<1> DEFINE e == [f EXCEPT ![o] = f[o] + 1]
<1>1. e \in [Threads -> 0 .. 2] /\ e[o] = f[o] + 1 /\ \A t \in Threads \ {o} : e[t] = f[t]
  OBVIOUS
<1>2. \A t \in Threads : e[t] <= g[t]
  BY <1>1
<1> HIDE DEF e
<1>3. Total(e) <= Total(g)
  BY <1>1, <1>2, TotalKept
<1> DEFINE c == <<o, f[o] + 1>>
<1>4. c \notin Units(f) /\ c \in Units(e)
  BY <1>1 DEF Units
<1>5. Units(f) \subseteq Units(e)
  BY <1>1 DEF Units
<1>6. IsFiniteSet(Units(f)) /\ IsFiniteSet(Units(e)) /\ Total(f) \in Nat /\ Total(e) \in Nat /\ Total(g) \in Nat
  BY TotalRight
<1> HIDE DEF c
<1>7. Cardinality(Units(f) \union {c}) = Total(f) + 1
  BY <1>4, <1>6, FS_AddElement DEF Total
<1>8. Units(f) \union {c} \in SUBSET Units(e)
  BY <1>4, <1>5
<1>9. Cardinality(Units(f) \union {c}) <= Total(e)
  BY <1>6, <1>8, FS_Subset DEF Total
<1> QED
  BY <1>3, <1>6, <1>7, <1>9

\* Every set of naturals that is not empty has a least element: with it one can do
\* induction, for the smallest counterexample.
LEMMA Least ==
    ASSUME NEW S, S \subseteq Nat, S # {}
    PROVE  \E n \in S : \A m \in S : n <= m
<1> DEFINE R == OpToRel(<, Nat)
<1>1. IsWellFoundedOn(R, Nat)
  BY NatLessThanWellFounded
<1>2. PICK n \in S : \A m \in S : ~ (<<m, n>> \in R)
  <2> HIDE DEF R
  <2> QED BY <1>1, WFMin
<1>3. \A m, n1 \in Nat : m < n1 => <<m, n1>> \in R
  BY DEF OpToRel
<1> HIDE DEF R
<1>4. ASSUME NEW m \in S PROVE n <= m
  <2>1. m \in Nat /\ n \in Nat /\ ~ (<<m, n>> \in R)
    BY <1>2
  <2>2. ~ (m < n)
    BY <1>3, <2>1
  <2> QED
    BY <2>1, <2>2
<1> QED
  BY <1>4

-----------------------------------------------------------------------------
(* The order of the keys.                                                  *)

\* The latest a timer can be.
Latest(i) == i - 1 + 2 * (Cardinality(Threads) * MaxLag)

LEMMA LatestRight ==
    ASSUME NEW i, Bounds(i)
    PROVE  /\ Latest(i) \in Nat /\ Latest(i) + i < Modulus \div 2
           /\ i \in Nat \ {0} /\ MaxLag \in Nat \ {0}
           /\ \A f : MaxLag * Total(f) \in Nat /\ i - 1 + MaxLag * Total(f) <= Latest(i)
<1> DEFINE N == Cardinality(Threads)
           h == Modulus \div 2
           p == N * MaxLag
<1>1. i \in Nat \ {0} /\ 2 * (p + i) <= h
  BY DEF Bounds
<1>2. MaxLag \in Nat \ {0} /\ h \in Nat
  BY HalfRight, TimersAssumption
<1>3. N \in Nat
  BY FS_CardinalityType DEF Bounds
<1>4. p \in Nat
  BY <1>2, <1>3
<1>5. Latest(i) = i - 1 + 2 * p
  BY DEF Latest
<1>6. MaxLag * (2 * N) = 2 * p
  <2> HIDE DEF N
  <2> QED
    BY <1>2, <1>3
<1>7. ASSUME NEW f
      PROVE  MaxLag * Total(f) \in Nat /\ MaxLag * Total(f) <= 2 * p
  <2>1. Total(f) \in Nat /\ Total(f) <= 2 * N
    BY TotalRight DEF Bounds
  <2> HIDE DEF N, p
  <2>2. 2 * N \in Nat
    BY <1>3
  <2> QED
    BY <1>2, <1>6, <2>1, <2>2, TimesGrows
<1> HIDE DEF N, h, p
<1>8. Latest(i) \in Nat /\ Latest(i) + i < h
  BY <1>1, <1>2, <1>4, <1>5
<1>9. ASSUME NEW f
      PROVE  MaxLag * Total(f) \in Nat /\ i - 1 + MaxLag * Total(f) <= Latest(i)
  <2> DEFINE x == MaxLag * Total(f)
  <2>1. x \in Nat /\ x <= 2 * p
    BY <1>7
  <2> HIDE DEF x
  <2>2. i - 1 + x <= Latest(i)
    BY <1>1, <1>4, <1>5, <2>1
  <2> QED
    BY <2>1, <2>2 DEF x
<1> QED
  BY <1>1, <1>2, <1>8, <1>9 DEF h

\* No key is further from the clock than that.
LEMMA InRange ==
    ASSUME NEW i, Bounds(i), ClockType, LateInv(i), NEW n \in DOMAIN armed
    PROVE  Ahead(n) \in Int /\ - Latest(i) <= Ahead(n) /\ Ahead(n) <= i
<1> DEFINE x == i - 1 + MaxLag * Total([t \in Threads |-> Advances(t, n)])
           a == Ahead(n)
<1>1. a \in Int
  BY SignedIs DEF Ahead, ClockType
<1>2. a <= i /\ - a <= x
  BY DEF LateInv
<1>3. x \in Int /\ x <= Latest(i) /\ Latest(i) \in Nat
  <2> DEFINE y == MaxLag * Total([t \in Threads |-> Advances(t, n)])
  <2>1. y \in Nat /\ i - 1 + y <= Latest(i) /\ i \in Nat /\ Latest(i) \in Nat
    BY LatestRight
  <2> HIDE DEF y
  <2>2. i - 1 + y \in Int
    BY <2>1
  <2> QED
    BY <2>1, <2>2 DEF y
<1> HIDE DEF x, a
<1>4. - Latest(i) <= a
  BY <1>1, <1>2, <1>3
<1> QED
  BY <1>1, <1>2, <1>4 DEF a

\* So the keys are ordered as they lie ahead of the clock.
LEMMA OrderRight ==
    ASSUME NEW i, Bounds(i), ClockType, LateInv(i), NEW n \in DOMAIN armed, NEW m \in DOMAIN armed
    PROVE  Less(armed[m], armed[n]) <=> Ahead(m) < Ahead(n)
<1> DEFINE h == Modulus \div 2
           a == Ahead(n)
           b == Ahead(m)
<1>1. a \in Int /\ b \in Int /\ - Latest(i) <= a /\ a <= i /\ - Latest(i) <= b /\ b <= i
  BY InRange
<1>2. Latest(i) \in Nat /\ i \in Nat /\ Latest(i) + i < h /\ h \in Nat
  BY LatestRight, HalfRight
<1>3. a = Signed(armed[n], now) /\ b = Signed(armed[m], now)
  BY DEF Ahead
<1> HIDE DEF a, b, h
<1>4. - h <= b - a /\ b - a < h
  BY <1>1, <1>2
<1>5. armed[m] \in Keys /\ armed[n] \in Keys /\ now \in Keys
  BY DEF ClockType
<1>6. Signed(armed[m], armed[n]) = b - a
  BY <1>3, <1>4, <1>5, SignedBetween DEF h
<1>7. b - a < 0 <=> b < a
  BY <1>1
<1> QED
  BY <1>6, <1>7 DEF a, b, Less

\* If a timer is armed there is an earliest one, which no other precedes.
LEMMA EarliestRight ==
    ASSUME NEW i, Bounds(i), ClockType, LateInv(i)
    PROVE  /\ \A n \in Earliest(armed) : n \in DOMAIN armed /\ \A m \in DOMAIN armed : Ahead(n) <= Ahead(m)
           /\ DOMAIN armed # {} => Earliest(armed) # {}
<1>1. ASSUME NEW n \in DOMAIN armed, NEW m \in DOMAIN armed
      PROVE  ~ Less(armed[m], armed[n]) <=> Ahead(n) <= Ahead(m)
  <2>1. Ahead(n) \in Int /\ Ahead(m) \in Int
    BY InRange
  <2> QED
    BY <2>1, OrderRight
<1>2. ASSUME NEW n \in Earliest(armed)
      PROVE  n \in DOMAIN armed /\ \A m \in DOMAIN armed : Ahead(n) <= Ahead(m)
  BY <1>1 DEF Earliest
<1>3. ASSUME DOMAIN armed # {}
      PROVE  Earliest(armed) # {}
  <2> DEFINE S == {Ahead(n) + Latest(i) : n \in DOMAIN armed}
  <2>1. \A n \in DOMAIN armed : Ahead(n) \in Int /\ Ahead(n) + Latest(i) \in Nat
    BY InRange, LatestRight
  <2>2. S \subseteq Nat /\ S # {}
    BY <1>3, <2>1
  <2>3. PICK x \in S : \A y \in S : x <= y
    <3> HIDE DEF S
    <3> QED
      BY <2>2, Least
  <2>4. PICK n \in DOMAIN armed : x = Ahead(n) + Latest(i)
    BY <2>3
  <2>5. ASSUME NEW m \in DOMAIN armed PROVE Ahead(n) <= Ahead(m)
    <3>1. Ahead(n) + Latest(i) <= Ahead(m) + Latest(i)
      BY <2>3, <2>4
    <3>2. Ahead(n) \in Int /\ Ahead(m) \in Int /\ Latest(i) \in Nat
      BY <2>1, LatestRight
    <3> QED
      BY <3>1, <3>2
  <2> HIDE DEF S
  <2> QED
    BY <1>1, <2>5 DEF Earliest
<1> QED
  BY <1>2, <1>3

\* stu_timer_find: how long to wait until the next timer.
LEMMA UntilRight ==
    ASSUME NEW i, Bounds(i), ClockType, LateInv(i), DOMAIN armed # {}
    PROVE  /\ Until(First) \in Keys /\ Until(First) <= i
           /\ \A m \in DOMAIN armed : Until(First) <= Positive(Ahead(m))
           /\ Until(First) > 0 => \A m \in DOMAIN armed : Ahead(m) > 0
<1>1. PICK n \in Earliest(armed) : TRUE
  BY EarliestRight
<1>2. armed[n] \in Keys
  BY <1>1, EarliestRight DEF ClockType
<1>3. \E k \in Keys : \E e \in Earliest(armed) : armed[e] = k
  BY <1>1, <1>2
<1>4. First \in Keys /\ \E e \in Earliest(armed) : armed[e] = First
  BY <1>3 DEF First
<1>5. PICK e \in Earliest(armed) : armed[e] = First
  BY <1>4
<1>6. e \in DOMAIN armed /\ \A m \in DOMAIN armed : Ahead(e) <= Ahead(m)
  BY EarliestRight
<1>7. Until(First) = Positive(Ahead(e))
  BY <1>5 DEF Until, Ahead, Positive
<1>8. /\ \A m \in DOMAIN armed : Ahead(m) \in Int
      /\ Ahead(e) <= i /\ i \in Nat /\ Latest(i) \in Nat
      /\ Latest(i) + i < Modulus \div 2
  BY <1>6, InRange, LatestRight
<1>9. /\ Keys = 0 .. Modulus - 1 /\ Modulus \in Nat /\ Modulus \div 2 \in Nat
      /\ 2 * (Modulus \div 2) <= Modulus
  BY HalfRight
<1> DEFINE h == Modulus \div 2
           a == Ahead(e)
           u == Until(First)
           l == Latest(i)
<1> HIDE DEF h, a, u, l
<1>10. a \in Int /\ a <= i /\ i \in Nat /\ l \in Nat /\ l + i < h /\ h \in Nat /\ 2 * h <= Modulus
       /\ u = (IF a > 0 THEN a ELSE 0)
  BY <1>6, <1>7, <1>8, <1>9 DEF h, a, u, l, Positive
<1>11. u \in 0 .. Modulus - 1 /\ u <= i
  BY <1>9, <1>10
<1>12. ASSUME NEW m \in DOMAIN armed
       PROVE  u <= Positive(Ahead(m)) /\ (u > 0 => Ahead(m) > 0)
  <2> DEFINE b == Ahead(m)
  <2>1. a <= b /\ b \in Int
    BY <1>6, <1>8 DEF a
  <2> HIDE DEF b
  <2> QED
    BY <1>10, <2>1 DEF Positive, b
<1> QED
  BY <1>9, <1>11, <1>12 DEF u

\* The order means something.
LEMMA LateComparable ==
    ASSUME NEW i, Bounds(i), ClockType, LateInv(i)
    PROVE  KeysComparable
<1> DEFINE h == Modulus \div 2
           l == Latest(i)
           base == (now - l) % Modulus
<1>1. /\ Keys = 0 .. Modulus - 1 /\ Modulus \in Nat \ {0} /\ h \in Nat /\ 2 * h <= Modulus
      /\ now \in 0 .. Modulus - 1 /\ l \in Nat /\ l + i < h /\ i \in Nat
  BY HalfRight, LatestRight DEF ClockType
<1>2. l \in Keys
  <2> HIDE DEF h, l
  <2> QED
    BY <1>1
<1>3. base = IF now >= l THEN now - l ELSE now - l + Modulus
  BY <1>1, <1>2, DiffMod
<1> HIDE DEF h, l, base
<1>4. base \in Keys
  BY <1>1, <1>3
<1>5. ASSUME NEW n \in DOMAIN armed
      PROVE  (armed[n] - base) % Modulus < h
  <2> DEFINE a == Ahead(n)
             k == armed[n]
             d == (k - base) % Modulus
  <2>1. a \in Int /\ - l <= a /\ a <= i
    BY InRange DEF l
  <2>2. k \in 0 .. Modulus - 1 /\ now \in Keys
    BY <1>1 DEF ClockType
  <2>3. PICK e \in {-1, 0, 1} : k - now = a + e * Modulus
    BY <1>1, <2>2, SignedIs DEF Ahead
  <2>4. d = IF k >= base THEN k - base ELSE k - base + Modulus
    BY <1>1, <1>4, <2>2, DiffMod
  <2> HIDE DEF a, k, d
  <2>5. k - now = a \/ k - now = a + Modulus \/ k - now = a - Modulus
    BY <1>1, <2>1, <2>3
  <2>6. d = a + l
    BY <1>1, <1>3, <2>1, <2>2, <2>4, <2>5
  <2>7. d < h
    BY <1>1, <2>1, <2>6
  <2> QED
    BY <2>7 DEF d, k
<1> QED
  BY <1>4, <1>5 DEF KeysComparable, Spread, h

-----------------------------------------------------------------------------
(* Each action keeps the bounds.                                           *)

LEMMA AdvancesType ==
    ASSUME NEW t \in Threads, NEW n
    PROVE  Advances(t, n) \in 0 .. 2 /\ Advances(t, n)' \in 0 .. 2
BY DEF Advances

\* The clock is not set: timers that are new have their whole interval, and no thread
\* has advanced the clock less often than before.
LEMMA LateKept ==
    ASSUME NEW i, Bounds(i), ClockType, LateInv(i), ClockType', UNCHANGED <<time, now>>,
           \A n \in DOMAIN armed' : (n \in DOMAIN armed /\ armed'[n] = armed[n]) \/ armed'[n] = Key(n),
           \A n \in Timers : n \in DOMAIN armed /\ armed'[n] = armed[n] /\ Ahead(n) <= 0 =>
               \A t \in Threads : Advances(t, n) <= Advances(t, n)'
    PROVE  /\ LateInv(i)'
           /\ (\E n \in DOMAIN armed : Due(armed[n]))' => \E n \in DOMAIN armed : Due(armed[n])
<1>1. i \in Nat \ {0} /\ MaxLag \in Nat /\ \A f : MaxLag * Total(f) \in Nat
  BY LatestRight
<1>2. ASSUME NEW n \in Timers, armed'[n] = Key(n)
      PROVE  Signed(armed'[n], now) = Interval[n] /\ Interval[n] \in Nat /\ Interval[n] > 0 /\ Interval[n] <= i
  <2>1. now \in Keys
    BY DEF ClockType
  <2> QED
    BY <1>2, <2>1, NewKey, ModulusRight DEF Bounds
<1>3. ASSUME NEW n \in Timers, n \in DOMAIN armed'
      PROVE  /\ Signed(armed'[n], now) <= i
             /\ - Signed(armed'[n], now) <= i - 1 + MaxLag * Total([t \in Threads |-> Advances(t, n)'])
             /\ Signed(armed'[n], now) <= 0 => n \in DOMAIN armed /\ armed'[n] = armed[n]
  <2> DEFINE f == [t \in Threads |-> Advances(t, n)]
             g == [t \in Threads |-> Advances(t, n)']
             s == Signed(armed'[n], now)
             x == MaxLag * Total(f)
             y == MaxLag * Total(g)
  <2>1. x \in Nat /\ y \in Nat
    BY <1>1
  <2>2. CASE armed'[n] = Key(n)
    <3>1. s = Interval[n] /\ Interval[n] \in Nat /\ Interval[n] > 0 /\ Interval[n] <= i
      BY <1>2, <2>2
    <3> HIDE DEF s, x, y
    <3>2. s <= i /\ - s <= i - 1 + y /\ ~ (s <= 0)
      BY <1>1, <2>1, <3>1
    <3> QED
      BY <3>2 DEF s, y
  <2>3. CASE n \in DOMAIN armed /\ armed'[n] = armed[n]
    <3>1. s = Ahead(n) /\ s \in Int /\ s <= i /\ - s <= i - 1 + x
      BY <2>3, InRange DEF Ahead, LateInv
    <3>2. s <= 0 => x <= y
      <4> SUFFICES ASSUME s <= 0 PROVE x <= y
        OBVIOUS
      <4>1. \A t \in Threads : f[t] <= g[t]
        BY <2>3, <3>1
      <4>2. f \in [Threads -> 0 .. 2] /\ g \in [Threads -> 0 .. 2]
        BY AdvancesType
      <4> HIDE DEF f, g, s
      <4>3. Total(f) <= Total(g)
        BY <4>1, <4>2, TotalKept DEF Bounds
      <4>4. Total(f) \in Nat /\ Total(g) \in Nat
        BY TotalRight DEF Bounds
      <4> QED
        BY <1>1, <4>3, <4>4, TimesGrows
    <3> HIDE DEF s, x, y
    <3>3. s <= i /\ - s <= i - 1 + y
      BY <1>1, <2>1, <3>1, <3>2
    <3> QED
      BY <2>3, <3>3 DEF s, y
  <2> QED
    BY <1>3, <2>2, <2>3
<1>4. now' = now /\ DOMAIN armed' \subseteq Timers
  BY DEF ClockType
<1>5. LateInv(i)'
  BY <1>3, <1>4 DEF LateInv, Ahead
<1>6. (\E n \in DOMAIN armed : Due(armed[n]))' => \E n \in DOMAIN armed : Due(armed[n])
  BY <1>3, <1>4 DEF Due
<1> QED
  BY <1>5, <1>6

\* A timer is armed: it is the one that is new, and its key is.
LEMMA ArmTree ==
    ASSUME ClockType, MoreTypes, NEW n \in Timers, n \notin DOMAIN armed, Arm(n)
    PROVE  /\ \A m \in DOMAIN armed' : (m \in DOMAIN armed /\ armed'[m] = armed[m]) \/ armed'[m] = Key(m)
           /\ wanted' \in [Timers -> Keys]
<1>1. /\ armed' = With(armed, n, Key(n))
      /\ wanted' = [wanted EXCEPT ![n] = IF Interval[n] > Lag THEN Interval[n] - Lag ELSE 0]
  BY DEF Arm
<1>2. \A m \in DOMAIN armed' : (m \in DOMAIN armed /\ armed'[m] = armed[m]) \/ armed'[m] = Key(m)
  BY <1>1 DEF With
<1> DEFINE i == Interval[n]
           rest == IF i > Lag THEN i - Lag ELSE 0
<1>3. /\ i \in Nat /\ i > 0 /\ 4 * i <= Modulus
      /\ Modulus \in Nat \ {0} /\ Keys = 0 .. Modulus - 1 /\ now \in Keys /\ time \in Keys
  BY ModulusRight, HalfRight DEF ClockType
<1>4. Lag \in Nat
  BY <1>3, DiffMod DEF Lag
<1> HIDE DEF i
<1>5. rest \in Keys
  BY <1>3, <1>4
<1> HIDE DEF rest
<1>6. wanted' = [wanted EXCEPT ![n] = rest]
  BY <1>1 DEF rest, i
<1>7. wanted' \in [Timers -> Keys]
  BY <1>5, <1>6 DEF MoreTypes
<1> QED
  BY <1>2, <1>7

\* The bounds after a step in which a thread goes somewhere else than to sleep, and does
\* not set the clock.  A thread that was to bring the clock up to date does so yet, or
\* another one does.
LEMMA TurnStep ==
    ASSUME NEW i, Bounds(i), ClockType, XInv(i), ClockType', MoreTypes', UNCHANGED <<time, now>>,
           NEW t \in Threads,
           NEW l \in {"find", "update", "stamp", "handle", "check", "expire", "loop", "handler"},
           pc' = [pc EXCEPT ![t] = l],
           pc[t] \in {"wait", "update", "stamp"} =>
               l \in {"update", "stamp"} \/ \E o \in Threads \ {t} : pc[o] = "stamp",
           \A o \in Threads : left'[o] = left[o] \/ left'[o] = 0,
           \A o \in Threads \ {t} : before'[o] = before[o],
           \A n \in DOMAIN armed' : (n \in DOMAIN armed /\ armed'[n] = armed[n]) \/ armed'[n] = Key(n),
           \A n \in Timers : n \in DOMAIN armed /\ armed'[n] = armed[n] /\ Ahead(n) <= 0 =>
               Advances(t, n) <= Advances(t, n)'
    PROVE  XInv(i)'
<1>1. pc'[t] = l /\ \A o \in Threads \ {t} : pc'[o] = pc[o]
  BY DEF ClockType
<1>2. ASSUME NEW n \in Timers, n \in DOMAIN armed, armed'[n] = armed[n], Ahead(n) <= 0,
             NEW o \in Threads
      PROVE  Advances(o, n) <= Advances(o, n)'
  <2>1. CASE o = t
    BY <1>2, <2>1
  <2>2. CASE o # t
    <3>1. pc'[o] = pc[o] /\ before'[o] = before[o]
      BY <1>1, <2>2
    <3>2. Advances(o, n)' = Advances(o, n)
      BY <1>2, <3>1 DEF Advances, SinceDue, Delta, Ahead
    <3> QED
      BY <3>2, AdvancesType
  <2> QED
    BY <2>1, <2>2
<1>3. /\ LateInv(i)'
      /\ (\E n \in DOMAIN armed : Due(armed[n]))' => \E n \in DOMAIN armed : Due(armed[n])
  BY <1>2, LateKept DEF XInv
<1>4. LagInv(i)'
  <2>1. Lag' = Lag
    BY DEF Lag
  <2>2. i \in Nat
    BY DEF Bounds
  <2>3. \A o \in Threads : left'[o] <= i
    BY <2>2 DEF XInv, LagInv
  <2>4. ~ (\A o \in Threads : Waits(o)')
    BY <1>1 DEF Waits
  <2>5. ASSUME Lag > MaxLag
        PROVE  \E o \in Threads : pc'[o] \in {"update", "stamp"}
    <3>1. (\A o \in Threads : Waits(o)) \/ \E o \in Threads : pc[o] \in {"update", "stamp"}
      BY <2>5 DEF XInv, LagInv
    <3>2. CASE pc[t] \in {"wait", "update", "stamp"}
      BY <1>1, <3>2
    <3>3. CASE pc[t] \notin {"wait", "update", "stamp"}
      <4>1. PICK o \in Threads : pc[o] \in {"update", "stamp"}
        BY <3>1, <3>3 DEF Waits
      <4>2. o # t
        BY <3>3, <4>1
      <4> QED
        BY <1>1, <4>1, <4>2
    <3> QED
      BY <3>2, <3>3
  <2> QED
    BY <1>3, <2>1, <2>3, <2>4, <2>5 DEF XInv, LagInv
<1>5. WakeInv'
  <2>1. ~ Dozes(t)'
    BY <1>1 DEF Dozes
  <2> QED
    BY <2>1 DEF WakeInv
<1> QED
  BY <1>3, <1>4, <1>5 DEF XInv

\* Steps in which neither the tree nor what a thread remembers of the clock changes.
LEMMA QuietStep ==
    ASSUME NEW i, Bounds(i), ClockType, XInv(i), ClockType', NEW t \in Threads,
           \/ TimedOut(t) \/ ClientWakes(t) \/ TryUpdate(t) \/ ExpireLock(t) \/ StatusHandler(t)
           \/ \E n \in Timers : ResponseWakes(t, n)
    PROVE  XInv(i)'
<1>1. UNCHANGED <<armed, time, now, boot, before, seen, wanted, torn>>
  BY DEF TimedOut, ClientWakes, TryUpdate, ExpireLock, StatusHandler, ResponseWakes
<1>2. \A o \in Threads : left'[o] = left[o] \/ left'[o] = 0
  BY DEF TimedOut, ClientWakes, TryUpdate, ExpireLock, StatusHandler, ResponseWakes, XInv, MoreTypes
<1>3. left' = left \/ left' = [left EXCEPT ![t] = 0]
  BY DEF TimedOut, ClientWakes, TryUpdate, ExpireLock, StatusHandler, ResponseWakes
<1>4. lock' = lock \/ lock' = t
  BY DEF TimedOut, ClientWakes, TryUpdate, ExpireLock, StatusHandler, ResponseWakes
<1>5. MoreTypes'
  <2>1. 0 \in Keys
    BY HalfRight
  <2> QED
    BY <1>1, <1>3, <1>4, <2>1 DEF XInv, MoreTypes
<1>6. PICK l \in {"update", "stamp", "handle", "loop"} :
          /\ pc' = [pc EXCEPT ![t] = l]
          /\ pc[t] \in {"wait", "update", "stamp"} =>
                 l \in {"update", "stamp"} \/ \E o \in Threads \ {t} : pc[o] = "stamp"
          /\ \/ pc[t] \in {"wait", "update"} /\ l \in {"update", "stamp", "handle"}
             \/ pc[t] \in {"expire", "handler"} /\ l = "loop"
  BY Zenon DEF TimedOut, ClientWakes, TryUpdate, ExpireLock, StatusHandler, ResponseWakes, Goto
<1>7. pc'[t] = l
  BY <1>6 DEF ClockType
<1>8. ASSUME NEW n \in Timers
      PROVE  Advances(t, n) <= Advances(t, n)'
  <2>1. Ahead(n)' = Ahead(n) /\ ((now - before[t]) % Modulus)' = (now - before[t]) % Modulus
    BY <1>1 DEF Ahead
  <2>2. CASE pc[t] \in {"wait", "update"} /\ l \in {"update", "stamp", "handle"}
    <3>1. SinceDue(t, n)' <=> SinceDue(t, n)
      BY <1>7, <2>1, <2>2 DEF SinceDue
    <3> QED
      BY <1>7, <2>2, <3>1 DEF Advances
  <2>3. CASE pc[t] \in {"expire", "handler"} /\ l = "loop"
    BY <1>7, <2>3 DEF Advances
  <2> QED
    BY <1>6, <2>2, <2>3
<1> QED
  BY <1>1, <1>2, <1>5, <1>6, <1>8, TurnStep

\* A thread looks at the timers again only if the clock has changed since it went to
\* sleep; if it has not, then it had seen every timer that is due now.
LEMMA CheckStep ==
    ASSUME NEW i, Bounds(i), ClockType, XInv(i), ClockType', NEW t \in Threads, Check(t)
    PROVE  XInv(i)'
<1>1. /\ pc[t] = "check" /\ before' = [before EXCEPT ![t] = 0]
      /\ UNCHANGED <<armed, time, now, lock, boot, left, seen, wanted, torn>>
  BY DEF Check, Goto
<1>2. PICK l \in {"expire", "find"} :
          pc' = [pc EXCEPT ![t] = l] /\ l = IF Delta(t) THEN "expire" ELSE "find"
  BY DEF Check, Goto
<1>3. pc'[t] = l
  BY <1>2 DEF ClockType
<1>4. MoreTypes'
  <2>1. 0 \in Keys
    BY HalfRight
  <2> QED
    BY <1>1, <2>1 DEF XInv, MoreTypes
<1>5. ASSUME NEW n \in Timers
      PROVE  Advances(t, n) <= Advances(t, n)'
  <2>1. CASE Delta(t)
    <3>1. Advances(t, n)' = 2
      BY <1>2, <1>3, <2>1 DEF Advances
    <3> QED
      BY <3>1, AdvancesType
  <2>2. CASE ~ Delta(t)
    <3>1. Advances(t, n) <= 1
      BY <1>1, <2>2 DEF Advances
    <3>2. Advances(t, n)' >= 1
      BY <1>2, <1>3, <2>2 DEF Advances, SinceDue
    <3> QED
      BY <3>1, <3>2, AdvancesType
  <2> QED
    BY <2>1, <2>2
<1>6. /\ pc[t] \notin {"wait", "update", "stamp"} /\ \A o \in Threads : left'[o] = left[o]
      /\ \A o \in Threads \ {t} : before'[o] = before[o]
      /\ \A n \in DOMAIN armed' : n \in DOMAIN armed /\ armed'[n] = armed[n]
  BY <1>1 DEF XInv, MoreTypes
<1>7. UNCHANGED <<time, now>> /\ pc' = [pc EXCEPT ![t] = l]
  BY <1>1, <1>2
<1> QED
  BY <1>4, <1>5, <1>6, <1>7, TurnStep

\* The response arms its timer again.
LEMMA HandleLate ==
    ASSUME NEW i, Bounds(i), IInv, XInv(i), ClockType', NEW t \in Threads, Handle(t)
    PROVE  XInv(i)'
<1>1. /\ pc[t] = "handle" /\ pc' = [pc EXCEPT ![t] = "check"]
      /\ cur[t] = NoTimer => UNCHANGED <<armed, wanted>>
      /\ cur[t] # NoTimer => Arm(cur[t])
      /\ torn' \in BOOLEAN
      /\ UNCHANGED <<time, now, lock, boot, left, before, seen>>
  BY DEF Handle, Goto, Beside
<1>2. ClockType /\ MoreTypes
  BY DEF IInv, XInv
<1>3. pc'[t] = "check"
  BY <1>1, <1>2 DEF ClockType
<1>4. /\ \A n \in DOMAIN armed' : (n \in DOMAIN armed /\ armed'[n] = armed[n]) \/ armed'[n] = Key(n)
      /\ wanted' \in [Timers -> Keys]
  <2>1. CASE cur[t] = NoTimer
    BY <1>1, <1>2, <2>1 DEF MoreTypes
  <2>2. CASE cur[t] # NoTimer
    <3>1. cur[t] \in Timers /\ cur[t] \notin DOMAIN armed
      BY <1>2, <2>2 DEF ClockType, IInv, OnePlace
    <3> QED
      BY <1>1, <1>2, <2>2, <3>1, ArmTree
  <2> QED
    BY <2>1, <2>2
<1>5. MoreTypes'
  BY <1>1, <1>2, <1>4 DEF MoreTypes
<1>6. ASSUME NEW n \in Timers, armed'[n] = armed[n]
      PROVE  Advances(t, n) <= Advances(t, n)'
  <2>1. Advances(t, n)' = Advances(t, n)
    BY <1>1, <1>3, <1>6 DEF Advances, SinceDue, Delta, Ahead
  <2> QED
    BY <2>1, AdvancesType
<1> QED
  BY <1>1, <1>2, <1>4, <1>5, <1>6, TurnStep

\* A timer leaves the tree.
LEMMA FireLate ==
    ASSUME NEW i, Bounds(i), ClockType, XInv(i), ClockType', NEW t \in Threads, NEW m \in Timers, Fire(t, m)
    PROVE  XInv(i)'
<1>1. /\ pc[t] = "loop" /\ pc' = [pc EXCEPT ![t] = "handler"] /\ armed' = Without(armed, m)
      /\ UNCHANGED <<time, now, lock, boot, left, before, seen, wanted, torn>>
  BY DEF Fire, Goto
<1>2. pc'[t] = "handler"
  BY <1>1 DEF ClockType
<1>3. \A n \in DOMAIN armed' : n \in DOMAIN armed /\ armed'[n] = armed[n]
  BY <1>1 DEF Without
<1>4. MoreTypes'
  BY <1>1 DEF XInv, MoreTypes
<1>5. ASSUME NEW n \in Timers
      PROVE  Advances(t, n) <= Advances(t, n)'
  BY <1>1, <1>2 DEF Advances
<1> QED
  BY <1>1, <1>3, <1>4, <1>5, TurnStep

\* The handler arms its timer again.
LEMMA UsersHandlerLate ==
    ASSUME NEW i, Bounds(i), IInv, XInv(i), ClockType', NEW t \in Threads, UsersHandler(t)
    PROVE  XInv(i)'
<1>1. /\ pc[t] = "handler" /\ pc' = [pc EXCEPT ![t] = "loop"] /\ Arm(cur[t])
      /\ UNCHANGED <<time, now, lock, boot, left, before, seen, torn>>
  BY DEF UsersHandler, Goto
<1>2. ClockType /\ MoreTypes
  BY DEF IInv, XInv
<1>3. pc'[t] = "loop"
  BY <1>1, <1>2 DEF ClockType
<1>4. cur[t] \in Timers /\ cur[t] \notin DOMAIN armed
  BY <1>1, <1>2 DEF ClockType, IInv, OnePlace
<1>5. /\ \A n \in DOMAIN armed' : (n \in DOMAIN armed /\ armed'[n] = armed[n]) \/ armed'[n] = Key(n)
      /\ wanted' \in [Timers -> Keys]
  BY <1>1, <1>2, <1>4, ArmTree
<1>6. MoreTypes'
  BY <1>1, <1>2, <1>5 DEF MoreTypes
<1>7. ASSUME NEW n \in Timers
      PROVE  Advances(t, n) <= Advances(t, n)'
  BY <1>1, <1>3 DEF Advances
<1> QED
  BY <1>1, <1>2, <1>5, <1>6, <1>7, TurnStep

\* A thread leaves the timers when none is due.
LEMMA ExpireDoneLate ==
    ASSUME NEW i, Bounds(i), ClockType, XInv(i), ClockType', NEW t \in Threads, ExpireDone(t)
    PROVE  XInv(i)'
<1>1. /\ ~ \E n \in Earliest(armed) : Due(armed[n])
      /\ pc[t] = "loop" /\ pc' = [pc EXCEPT ![t] = "find"] /\ lock' = NoThread
      /\ UNCHANGED <<armed, time, now, boot, left, before, seen, wanted, torn>>
  BY DEF ExpireDone, Goto
<1>2. MoreTypes'
  BY <1>1 DEF XInv, MoreTypes
<1>3. ASSUME NEW n \in DOMAIN armed PROVE ~ (Ahead(n) <= 0)
  <2>1. PICK e \in Earliest(armed) : e \in DOMAIN armed /\ Ahead(e) <= Ahead(n)
    BY EarliestRight DEF XInv
  <2>2. ~ (Ahead(e) <= 0)
    BY <1>1 DEF Due, Ahead
  <2>3. Ahead(e) \in Int /\ Ahead(n) \in Int
    BY <2>1, InRange DEF XInv
  <2> QED
    BY <2>1, <2>2, <2>3
<1> QED
  BY <1>1, <1>2, <1>3, TurnStep

\* A thread has found how long to wait, before any timer that is armed is due.
LEMMA FindLate ==
    ASSUME NEW i, Bounds(i), ClockType, XInv(i), ClockType', NEW t \in Threads, Find(t)
    PROVE  XInv(i)'
<1>1. /\ pc[t] = "find" /\ pc' = [pc EXCEPT ![t] = "capture"]
      /\ left' = [left EXCEPT ![t] = IF DOMAIN armed = {} THEN Forever ELSE Until(First)]
      /\ seen' = (seen \/ boot = {})
      /\ torn' \in BOOLEAN
      /\ UNCHANGED <<armed, time, now, lock, boot, before, wanted>>
  BY DEF Find, Goto, Beside
<1>2. pc'[t] = "capture" /\ \A o \in Threads \ {t} : pc'[o] = pc[o]
  BY <1>1 DEF ClockType
<1>3. MoreTypes /\ LateInv(i) /\ LagInv(i) /\ i \in Nat
  BY DEF XInv, Bounds
<1> DEFINE u == IF DOMAIN armed = {} THEN Forever ELSE Until(First)
<1>4. /\ u \in Keys \union {Forever} /\ u <= i
      /\ DOMAIN armed # {} =>
            /\ u = Until(First) /\ u \in Keys /\ \A m \in DOMAIN armed : u <= Positive(Ahead(m))
            /\ u > 0 => \A m \in DOMAIN armed : Ahead(m) > 0
  <2>1. CASE DOMAIN armed = {}
    <3>1. u = Forever
      BY <2>1
    <3> HIDE DEF u
    <3> QED
      BY <1>3, <2>1, <3>1 DEF Forever
  <2>2. CASE DOMAIN armed # {}
    <3>1. u = Until(First)
      BY <2>2
    <3> HIDE DEF u
    <3> QED
      BY <1>3, <2>2, <3>1, UntilRight
  <2> QED
    BY <2>1, <2>2
<1>5. left' = [left EXCEPT ![t] = u]
  BY <1>1
<1> HIDE DEF u
<1>6. left'[t] = u /\ \A o \in Threads \ {t} : left'[o] = left[o]
  BY <1>3, <1>5 DEF MoreTypes
<1>7. MoreTypes'
  BY <1>1, <1>3, <1>4, <1>5 DEF MoreTypes
<1>8. ASSUME NEW n \in Timers, NEW o \in Threads
      PROVE  Advances(o, n) <= Advances(o, n)'
  <2>1. Advances(o, n)' = Advances(o, n)
    <3>1. CASE o = t
      BY <1>1, <1>2, <3>1 DEF Advances, SinceDue
    <3>2. CASE o # t
      <4>1. pc'[o] = pc[o]
        BY <1>2, <3>2
      <4> QED
        BY <1>1, <4>1 DEF Advances, SinceDue, Delta, Ahead
    <3> QED
      BY <3>1, <3>2
  <2> QED
    BY <2>1, AdvancesType
<1>9. LateInv(i)'
  BY <1>1, <1>3, <1>8, LateKept
<1>10. LagInv(i)'
  <2>1. Lag' = Lag /\ ((\E n \in DOMAIN armed : Due(armed[n]))' <=> \E n \in DOMAIN armed : Due(armed[n]))
    BY <1>1 DEF Lag, Due
  <2>2. \A o \in Threads : left'[o] <= i
    BY <1>3, <1>4, <1>6 DEF LagInv
  <2>3. ~ (\A o \in Threads : Waits(o)') /\ ~ \A o \in Threads : Waits(o)
    BY <1>1, <1>2 DEF Waits
  <2>4. (\E o \in Threads : pc[o] \in {"update", "stamp"}) => \E o \in Threads : pc'[o] \in {"update", "stamp"}
    <3> SUFFICES ASSUME NEW o \in Threads, pc[o] \in {"update", "stamp"} PROVE pc'[o] \in {"update", "stamp"}
      OBVIOUS
    <3>1. o # t
      BY <1>1
    <3> QED
      BY <1>2, <3>1
  <2> QED
    BY <1>3, <2>1, <2>2, <2>3, <2>4 DEF LagInv
<1>11. WakeInv'
  <2> SUFFICES ASSUME \A o \in Threads : Dozes(o)'
               PROVE  /\ (\E n \in DOMAIN armed : Due(armed[n])) => \E o \in Threads : left'[o] = 0
                      /\ DOMAIN armed # {} =>
                            \E o \in Threads :
                                /\ left'[o] # Forever
                                /\ \A n \in DOMAIN armed :
                                      /\ left'[o] <= Positive(Ahead(n))
                                      /\ Lag + left'[o] <= MaxLag + Positive(Ahead(n))
    BY <1>1 DEF WakeInv, Due, Lag, Ahead
  <2>1. Lag <= MaxLag
    <3>1. \A o \in Threads : pc[o] \notin {"update", "stamp"}
      <4> SUFFICES ASSUME NEW o \in Threads PROVE pc[o] \notin {"update", "stamp"}
        OBVIOUS
      <4>1. CASE o = t
        BY <1>1, <4>1
      <4>2. CASE o # t
        BY <1>2, <4>2 DEF Dozes
      <4> QED
        BY <4>1, <4>2
    <3>2. ~ \A o \in Threads : Waits(o)
      BY <1>1 DEF Waits
    <3>3. Lag \in Nat /\ MaxLag \in Nat
      <4>1. Modulus \in Nat \ {0} /\ time \in Keys /\ now \in Keys /\ Keys = 0 .. Modulus - 1
        BY HalfRight DEF ClockType
      <4> QED
        BY <4>1, DiffMod, LatestRight DEF Lag
    <3> QED
      BY <1>3, <3>1, <3>2, <3>3 DEF LagInv
  <2>2. ASSUME NEW n \in DOMAIN armed, Due(armed[n])
        PROVE  left'[t] = 0
    <3>1. ~ (u > 0) /\ u \in Nat
      <4>1. Ahead(n) <= 0 /\ Ahead(n) \in Int
        BY <1>3, <2>2, InRange DEF Due, Ahead
      <4>2. u \in Keys /\ Keys = 0 .. Modulus - 1
        BY <1>4, HalfRight
      <4>3. ~ (Ahead(n) > 0)
        BY <4>1
      <4> QED
        BY <1>4, <4>2, <4>3
    <3> QED
      BY <1>6, <3>1
  <2>3. ASSUME DOMAIN armed # {}
        PROVE  /\ left'[t] # Forever
               /\ \A n \in DOMAIN armed :
                     /\ left'[t] <= Positive(Ahead(n))
                     /\ Lag + left'[t] <= MaxLag + Positive(Ahead(n))
    <3>1. u \in Keys /\ Keys = 0 .. Modulus - 1 /\ \A m \in DOMAIN armed : u <= Positive(Ahead(m))
      BY <1>4, <2>3, HalfRight
    <3>2. Lag \in Int /\ MaxLag \in Int
      <4>1. Modulus \in Nat \ {0} /\ time \in Keys /\ now \in Keys
        BY HalfRight DEF ClockType
      <4> QED
        BY <3>1, <4>1, DiffMod, LatestRight DEF Lag
    <3>3. ASSUME NEW n \in DOMAIN armed
          PROVE  u <= Positive(Ahead(n)) /\ Lag + u <= MaxLag + Positive(Ahead(n))
      <4> DEFINE p == Positive(Ahead(n))
      <4>1. Ahead(n) \in Int
        BY <1>3, InRange
      <4>2. p \in Int /\ u <= p
        BY <3>1, <4>1 DEF Positive
      <4> HIDE DEF p
      <4>3. Lag + u <= MaxLag + p
        BY <2>1, <3>1, <3>2, <4>2
      <4> QED
        BY <4>2, <4>3 DEF p
    <3> QED
      BY <1>6, <3>1, <3>3 DEF Forever
  <2> QED
    BY <2>2, <2>3
<1> QED
  BY <1>7, <1>9, <1>10, <1>11 DEF XInv

\* A thread remembers the clock and goes to sleep.
LEMMA CaptureLate ==
    ASSUME NEW i, Bounds(i), ClockType, XInv(i), ClockType', NEW t \in Threads, Capture(t)
    PROVE  XInv(i)'
<1>1. /\ pc[t] = "capture" /\ pc' = [pc EXCEPT ![t] = "wait"]
      /\ before' = [before EXCEPT ![t] = now]
      /\ UNCHANGED <<armed, time, now, lock, boot, left, seen, wanted, torn>>
  BY DEF Capture, Goto
<1>2. pc'[t] = "wait" /\ \A o \in Threads \ {t} : pc'[o] = pc[o]
  BY <1>1 DEF ClockType
<1>3. MoreTypes /\ LateInv(i) /\ LagInv(i) /\ i \in Nat
  BY DEF XInv, Bounds
<1>4. before'[t] = now /\ \A o \in Threads \ {t} : before'[o] = before[o]
  BY <1>1, <1>3 DEF MoreTypes
<1>5. now \in Keys /\ time \in Keys /\ Modulus \in Nat \ {0} /\ Keys = 0 .. Modulus - 1
  BY HalfRight DEF ClockType
<1>6. MoreTypes'
  BY <1>1, <1>3, <1>5 DEF MoreTypes
<1>7. ASSUME NEW n \in Timers, n \in DOMAIN armed, Ahead(n) <= 0, NEW o \in Threads
      PROVE  Advances(o, n) <= Advances(o, n)'
  <2>1. Advances(o, n)' = Advances(o, n)
    <3>1. CASE o = t
      <4>1. (now - now) % Modulus = 0
        <5>1. (now - now) % Modulus = IF now >= now THEN now - now ELSE now - now + Modulus
          BY <1>5, DiffMod
        <5> QED
          BY <1>5, <5>1
      <4>2. Ahead(n)' = Ahead(n) /\ Ahead(n) \in Int
        BY <1>1, <1>3, <1>7, InRange DEF Ahead
      <4>3. 0 <= - Ahead(n)
        BY <1>7, <4>2
      <4>4. SinceDue(t, n)'
        BY <1>1, <1>2, <1>4, <4>1, <4>2, <4>3 DEF SinceDue
      <4>5. SinceDue(t, n)
        BY <1>1 DEF SinceDue
      <4> QED
        BY <1>1, <1>2, <3>1, <4>4, <4>5 DEF Advances
    <3>2. CASE o # t
      <4>1. pc'[o] = pc[o] /\ before'[o] = before[o]
        BY <1>2, <1>4, <3>2
      <4> QED
        BY <1>1, <4>1 DEF Advances, SinceDue, Delta, Ahead
    <3> QED
      BY <3>1, <3>2
  <2> QED
    BY <2>1, AdvancesType
<1>8. LateInv(i)'
  BY <1>1, <1>3, <1>7, LateKept
<1>9. LagInv(i)'
  <2>1. Lag' = Lag /\ ((\E n \in DOMAIN armed : Due(armed[n]))' <=> \E n \in DOMAIN armed : Due(armed[n]))
    BY <1>1 DEF Lag, Due
  <2>2. (\E o \in Threads : pc[o] \in {"update", "stamp"}) => \E o \in Threads : pc'[o] \in {"update", "stamp"}
    <3> SUFFICES ASSUME NEW o \in Threads, pc[o] \in {"update", "stamp"} PROVE pc'[o] \in {"update", "stamp"}
      OBVIOUS
    <3>1. o # t
      BY <1>1
    <3> QED
      BY <1>2, <3>1
  <2>3. ~ \A o \in Threads : Waits(o)
    BY <1>1 DEF Waits
  <2>4. ASSUME \A o \in Threads : Waits(o)', NEW o \in Threads
        PROVE  Lag + left[o] <= MaxLag + i
    <3>1. \A e \in Threads : pc[e] \notin {"update", "stamp"}
      <4> SUFFICES ASSUME NEW e \in Threads PROVE pc[e] \notin {"update", "stamp"}
        OBVIOUS
      <4>1. CASE e = t
        BY <1>1, <4>1
      <4>2. CASE e # t
        BY <1>2, <2>4, <4>2 DEF Waits
      <4> QED
        BY <4>1, <4>2
    <3>2. Lag \in Int /\ MaxLag \in Int /\ left[o] \in Int
      BY <1>3, <1>5, DiffMod, LatestRight DEF Lag, MoreTypes, Forever
    <3>3. Lag <= MaxLag /\ left[o] <= i
      BY <1>3, <2>3, <3>1, <3>2 DEF LagInv
    <3> QED
      BY <1>3, <3>2, <3>3
  <2> QED
    BY <1>1, <1>3, <2>1, <2>2, <2>3, <2>4 DEF LagInv
<1>10. WakeInv'
  <2>1. \A o \in Threads : Dozes(o)' => Dozes(o)
    <3> SUFFICES ASSUME NEW o \in Threads, Dozes(o)' PROVE Dozes(o)
      OBVIOUS
    <3>1. CASE o = t
      BY <1>1, <3>1 DEF Dozes
    <3>2. CASE o # t
      BY <1>2, <3>2 DEF Dozes
    <3> QED
      BY <3>1, <3>2
  <2>2. WakeInv
    BY DEF XInv
  <2> QED
    BY <1>1, <2>1, <2>2 DEF WakeInv, Due, Lag, Ahead
<1> QED
  BY <1>6, <1>8, <1>9, <1>10 DEF XInv

\* The main thread adds a timer; no thread has looked since the last.
LEMMA MainAddLate ==
    ASSUME NEW i, Bounds(i), IInv, XInv(i), ClockType', NEW n \in Timers, MainAdd(n)
    PROVE  XInv(i)'
<1>1. /\ n \in boot /\ boot' = boot \ {n} /\ Arm(n)
      /\ torn' \in BOOLEAN
      /\ UNCHANGED <<time, now, lock, pc, left, before, seen>>
  BY DEF MainAdd, Beside
<1>2. ClockType /\ MoreTypes /\ LateInv(i) /\ LagInv(i) /\ WakeInv /\ n \notin DOMAIN armed /\ ~ seen
  BY <1>1 DEF IInv, OnePlace, XInv, MoreTypes
<1>3. /\ \A m \in DOMAIN armed' : (m \in DOMAIN armed /\ armed'[m] = armed[m]) \/ armed'[m] = Key(m)
      /\ wanted' \in [Timers -> Keys]
  BY <1>1, <1>2, ArmTree
<1>4. MoreTypes'
  BY <1>1, <1>2, <1>3 DEF MoreTypes
<1>5. ASSUME NEW m \in Timers, armed'[m] = armed[m], NEW o \in Threads
      PROVE  Advances(o, m) <= Advances(o, m)'
  <2>1. Advances(o, m)' = Advances(o, m)
    BY <1>1, <1>5 DEF Advances, SinceDue, Delta, Ahead
  <2> QED
    BY <2>1, AdvancesType
<1>6. /\ LateInv(i)'
      /\ (\E m \in DOMAIN armed : Due(armed[m]))' => \E m \in DOMAIN armed : Due(armed[m])
  BY <1>1, <1>2, <1>3, <1>5, LateKept
<1>7. LagInv(i)'
  BY <1>1, <1>2, <1>6 DEF LagInv, Lag, Waits
<1>8. WakeInv'
  BY <1>1, <1>2, <1>6 DEF WakeInv, Dozes
<1> QED
  BY <1>4, <1>6, <1>7, <1>8 DEF XInv

\* Each bound is a quarter of the range at most.
LEMMA Quarters ==
    ASSUME NEW i, Bounds(i)
    PROVE  i \in Nat \ {0} /\ MaxLag \in Nat \ {0} /\ 4 * MaxLag <= Modulus /\ 4 * i <= Modulus
<1> DEFINE N == Cardinality(Threads)
           p == N * MaxLag
           h == Modulus \div 2
<1>1. i \in Nat \ {0} /\ MaxLag \in Nat \ {0}
  BY LatestRight
<1>2. 4 * MaxLag <= Modulus
  <2>1. Modulus \in Nat /\ MaxLag \in 1 .. Modulus \div 4
    BY HalfRight, TimersAssumption
  <2> QED
    BY <2>1
<1>3. N \in Nat
  BY FS_CardinalityType DEF Bounds
<1>4. p \in Nat
  BY <1>1, <1>3
<1>5. 2 * (p + i) <= h /\ h \in Nat /\ 2 * h <= Modulus /\ Modulus \in Nat
  BY HalfRight DEF Bounds
<1> HIDE DEF N, p, h
<1>6. 4 * i <= Modulus
  BY <1>1, <1>4, <1>5
<1> QED
  BY <1>1, <1>2, <1>6

\* The clock goes on.
LEMMA LagGrows ==
    ASSUME NEW i, Bounds(i), time \in Keys, now \in Keys, Lag <= MaxLag + i,
           time' = (time + 1) % Modulus, now' = now
    PROVE  Lag \in Nat /\ Lag' = Lag + 1
<1>1. i \in Nat \ {0} /\ MaxLag \in Nat \ {0} /\ 4 * MaxLag <= Modulus /\ 4 * i <= Modulus
  BY Quarters
<1>2. Modulus \in Nat \ {0} /\ Keys = 0 .. Modulus - 1
  BY HalfRight
<1>3. Modulus >= 4
  BY <1>1, <1>2
<1>4. Lag = IF time >= now THEN time - now ELSE time - now + Modulus
  BY <1>2, DiffMod DEF Lag
<1>5. 1 \in 0 .. Modulus - 1
  BY <1>2, <1>3
<1>6. time' = (IF time + 1 < Modulus THEN time + 1 ELSE time + 1 - Modulus) /\ time' \in Keys
  BY <1>2, <1>5, SumMod
<1>7. Lag' = IF time' >= now THEN time' - now ELSE time' - now + Modulus
  BY <1>2, <1>6, DiffMod DEF Lag
<1> DEFINE l == Lag
           r == Lag'
           u == time'
<1> HIDE DEF l, r, u
<1>8. /\ l <= MaxLag + i /\ time \in 0 .. Modulus - 1 /\ now \in 0 .. Modulus - 1
      /\ l = IF time >= now THEN time - now ELSE time - now + Modulus
      /\ u = IF time + 1 < Modulus THEN time + 1 ELSE time + 1 - Modulus
      /\ r = IF u >= now THEN u - now ELSE u - now + Modulus
  BY <1>2, <1>4, <1>6, <1>7 DEF l, r, u
<1>9. l \in Nat /\ l + 1 < Modulus
  BY <1>1, <1>2, <1>3, <1>8
<1>10. r = l + 1
  BY <1>2, <1>3, <1>8, <1>9
<1> QED
  BY <1>9, <1>10 DEF l, r

\* A millisecond goes by: as much nearer are the ends of the timeouts.
LEMMA TickLate ==
    ASSUME NEW i, Bounds(i), ClockType, XInv(i), ClockType', Tick
    PROVE  XInv(i)'
<1>1. /\ \/ Lag < MaxLag
         \/ (\A t \in Threads : Waits(t) /\ left[t] # 0) /\ \E t \in Threads : left[t] # Forever
      /\ time' = (time + 1) % Modulus
      /\ left' = [t \in Threads |-> IF Waits(t) /\ left[t] > 0 THEN left[t] - 1 ELSE left[t]]
      /\ wanted' = [n \in Timers |-> IF wanted[n] > 0 THEN wanted[n] - 1 ELSE 0]
      /\ UNCHANGED <<armed, now, lock, boot, pc, before, seen, torn>>
  BY DEF Tick
<1>2. MoreTypes /\ LateInv(i) /\ LagInv(i) /\ WakeInv
  BY DEF XInv
<1>3. Modulus \in Nat \ {0} /\ Keys = 0 .. Modulus - 1 /\ i \in Nat /\ MaxLag \in Nat
  BY HalfRight, LatestRight
<1>4. Lag \in Nat /\ Lag <= MaxLag + i /\ Lag' = Lag + 1
  BY <1>1, <1>2, LagGrows DEF ClockType, LagInv
<1>5. ASSUME NEW t \in Threads
      PROVE  /\ left[t] \in Int /\ left'[t] \in Keys \union {Forever}
             /\ left'[t] <= left[t] /\ (left'[t] = Forever <=> left[t] = Forever)
             /\ (left[t] = 0 => left'[t] = 0)
             /\ left'[t] = IF Waits(t) /\ left[t] > 0 THEN left[t] - 1 ELSE left[t]
  <2>1. left[t] \in Keys \union {Forever} /\ left'[t] = IF Waits(t) /\ left[t] > 0 THEN left[t] - 1 ELSE left[t]
    BY <1>1, <1>2 DEF MoreTypes
  <2> DEFINE x == left[t]
             y == left'[t]
  <2> HIDE DEF x, y
  <2>2. x \in 0 .. Modulus - 1 \/ x = -1
    BY <1>3, <2>1 DEF x, Forever
  <2>3. y = x \/ (y = x - 1 /\ x > 0)
    BY <2>1 DEF x, y
  <2>4. /\ x \in Int /\ (y \in 0 .. Modulus - 1 \/ y = -1) /\ y <= x /\ (y = -1 <=> x = -1)
        /\ (x = 0 => y = 0)
    BY <1>3, <2>2, <2>3
  <2> QED
    BY <1>3, <2>1, <2>4 DEF x, y, Forever
<1>6. MoreTypes'
  <2>1. left' \in [Threads -> Keys \union {Forever}]
    BY <1>1, <1>5
  <2>2. wanted' \in [Timers -> Keys]
    <3>1. ASSUME NEW n \in Timers
          PROVE  (IF wanted[n] > 0 THEN wanted[n] - 1 ELSE 0) \in Keys
      <4>1. wanted[n] \in 0 .. Modulus - 1
        BY <1>2, <1>3 DEF MoreTypes
      <4> QED
        BY <1>3, <4>1
    <3> QED
      BY <1>1, <3>1
  <2> QED
    BY <1>1, <1>2, <2>1, <2>2 DEF MoreTypes
<1>7. LateInv(i)'
  <2>1. \A n \in DOMAIN armed : Ahead(n)' = Ahead(n) /\ \A t \in Threads : Advances(t, n)' = Advances(t, n)
    BY <1>1 DEF Advances, SinceDue, Delta, Ahead
  <2>2. \A n \in DOMAIN armed : [t \in Threads |-> Advances(t, n)'] = [t \in Threads |-> Advances(t, n)]
    BY <2>1
  <2> QED
    BY <1>1, <1>2, <2>1, <2>2 DEF LateInv
<1>8. (\E n \in DOMAIN armed : Due(armed[n]))' <=> \E n \in DOMAIN armed : Due(armed[n])
  BY <1>1 DEF Due
<1>9. \A t \in Threads : (Waits(t)' <=> Waits(t)) /\ (Dozes(t)' <=> Dozes(t))
  BY <1>1 DEF Waits, Dozes
\* Either the clock is not yet as late as it may be, or all sleep and no timer is due.
<1>10. CASE Lag < MaxLag
  <2>1. Lag' <= MaxLag
    BY <1>3, <1>4, <1>10
  <2>2. LagInv(i)'
    <3>1. \A t \in Threads : left'[t] <= i
      BY <1>2, <1>3, <1>5 DEF LagInv, Forever
    <3>2. ASSUME NEW t \in Threads PROVE Lag' + left'[t] <= MaxLag + i
      BY <1>3, <1>4, <1>5, <2>1, <3>1 DEF Forever
    <3>3. Lag' <= MaxLag + i /\ ~ (Lag' > MaxLag)
      BY <1>3, <1>4, <2>1
    <3> QED
      BY <2>1, <3>1, <3>2, <3>3 DEF LagInv
  <2>3. WakeInv'
    <3> SUFFICES ASSUME \A t \in Threads : Dozes(t)
                 PROVE  /\ (\E n \in DOMAIN armed : Due(armed[n])) => \E t \in Threads : left'[t] = 0
                        /\ seen /\ DOMAIN armed # {} =>
                              \E t \in Threads :
                                  /\ left'[t] # Forever
                                  /\ \A n \in DOMAIN armed :
                                        /\ left'[t] <= Positive(Ahead(n))
                                        /\ Lag' + left'[t] <= MaxLag + Positive(Ahead(n))
      BY <1>1, <1>8, <1>9 DEF WakeInv, Ahead, Due
    <3>1. ASSUME NEW n \in DOMAIN armed, Due(armed[n])
          PROVE  \E t \in Threads : left'[t] = 0
      BY <1>2, <1>5, <3>1 DEF WakeInv
    <3>2. ASSUME seen, DOMAIN armed # {}
          PROVE  \E t \in Threads :
                     /\ left'[t] # Forever
                     /\ \A n \in DOMAIN armed :
                           /\ left'[t] <= Positive(Ahead(n))
                           /\ Lag' + left'[t] <= MaxLag + Positive(Ahead(n))
      <4>1. PICK t \in Threads :
                /\ left[t] # Forever
                /\ \A n \in DOMAIN armed : left[t] <= Positive(Ahead(n))
        BY <1>2, <3>2 DEF WakeInv
      <4>2. ASSUME NEW n \in DOMAIN armed
            PROVE  left'[t] <= Positive(Ahead(n)) /\ Lag' + left'[t] <= MaxLag + Positive(Ahead(n))
        <5> DEFINE p == Positive(Ahead(n))
        <5>1. p \in Int
          BY <1>2, InRange DEF Positive
        <5>2. left[t] <= p
          BY <4>1
        <5> HIDE DEF p
        <5>3. left[t] \in Int /\ left'[t] \in Int /\ left'[t] <= left[t]
          BY <1>3, <1>5 DEF Forever
        <5>4. left'[t] <= p /\ Lag' + left'[t] <= MaxLag + p
          BY <1>3, <1>4, <2>1, <5>1, <5>2, <5>3
        <5> QED
          BY <5>4 DEF p
      <4>3. left'[t] # Forever
        BY <1>5, <4>1
      <4> QED
        BY <4>2, <4>3
    <3> QED
      BY <3>1, <3>2
  <2> QED
    BY <1>6, <1>7, <2>2, <2>3 DEF XInv
<1>11. CASE (\A t \in Threads : Waits(t) /\ left[t] # 0) /\ \E t \in Threads : left[t] # Forever
  <2>1. ~ \E n \in DOMAIN armed : Due(armed[n])
    BY <1>2, <1>11 DEF WakeInv, Dozes, Waits
  <2>2. ASSUME NEW t \in Threads, left[t] # Forever
        PROVE  Lag' + left'[t] = Lag + left[t] /\ left[t] >= 1 /\ left[t] \in Nat
    <3>1. left[t] \in Nat /\ left[t] > 0
      BY <1>2, <1>3, <1>11, <2>2 DEF MoreTypes
    <3>2. left'[t] = left[t] - 1
      BY <1>5, <1>11, <3>1
    <3> QED
      BY <1>4, <3>1, <3>2
  <2>3. LagInv(i)'
    <3>1. \A t \in Threads : left'[t] <= i
      BY <1>2, <1>3, <1>5 DEF LagInv, Forever
    <3>2. ASSUME NEW t \in Threads, left'[t] # Forever
          PROVE  Lag' + left'[t] <= MaxLag + i
      <4>1. left[t] # Forever
        BY <1>5, <3>2
      <4> QED
        BY <1>2, <1>11, <2>2, <4>1 DEF LagInv
    <3>3. PICK t \in Threads : left[t] # Forever
      BY <1>11
    <3>4. Lag + left[t] <= MaxLag + i
      BY <1>2, <1>11, <3>3 DEF LagInv
    <3>5. Lag' <= MaxLag + i
      BY <1>3, <1>4, <2>2, <3>3, <3>4
    <3>6. \A o \in Threads : Waits(o)'
      BY <1>9, <1>11
    <3> QED
      BY <1>8, <2>1, <3>1, <3>2, <3>5, <3>6 DEF LagInv
  <2>4. WakeInv'
    <3> SUFFICES ASSUME seen, DOMAIN armed # {}
                 PROVE  \E t \in Threads :
                            /\ left'[t] # Forever
                            /\ \A n \in DOMAIN armed :
                                  /\ left'[t] <= Positive(Ahead(n))
                                  /\ Lag' + left'[t] <= MaxLag + Positive(Ahead(n))
      BY <1>1, <1>8, <2>1 DEF WakeInv, Ahead
    <3>1. PICK t \in Threads :
              /\ left[t] # Forever
              /\ \A n \in DOMAIN armed :
                    left[t] <= Positive(Ahead(n)) /\ Lag + left[t] <= MaxLag + Positive(Ahead(n))
      BY <1>2, <1>11 DEF WakeInv, Dozes, Waits
    <3>2. ASSUME NEW n \in DOMAIN armed
          PROVE  left'[t] <= Positive(Ahead(n)) /\ Lag' + left'[t] <= MaxLag + Positive(Ahead(n))
      <4> DEFINE p == Positive(Ahead(n))
      <4>1. p \in Int
        BY <1>2, InRange DEF Positive
      <4>2. left[t] <= p /\ Lag + left[t] <= MaxLag + p
        BY <3>1
      <4> HIDE DEF p
      <4>3. left[t] \in Int /\ left'[t] \in Int /\ left'[t] <= left[t] /\ Lag' + left'[t] = Lag + left[t]
        BY <1>3, <1>5, <2>2, <3>1 DEF Forever
      <4>4. left'[t] <= p /\ Lag' + left'[t] <= MaxLag + p
        BY <4>1, <4>2, <4>3
      <4> QED
        BY <4>4 DEF p
    <3>3. left'[t] # Forever
      BY <1>5, <3>1
    <3> QED
      BY <3>2, <3>3
  <2> QED
    BY <1>6, <1>7, <2>3, <2>4 DEF XInv
<1> QED
  BY <1>1, <1>10, <1>11

\* A thread sets the clock: as late as it was, so much nearer, or more overdue, is every
\* timer.  In each of them that is due now the thread has advanced the clock once more.
LEMMA StampLate ==
    ASSUME NEW i, Bounds(i), ClockType, XInv(i), ClockType', NEW t \in Threads, Stamp(t)
    PROVE  XInv(i)'
<1>1. /\ pc[t] = "stamp" /\ pc' = [pc EXCEPT ![t] = "handle"] /\ now' = time
      /\ UNCHANGED <<armed, time, lock, boot, left, before, seen, wanted, torn>>
  BY DEF Stamp, Goto
<1>2. pc'[t] = "handle" /\ \A o \in Threads \ {t} : pc'[o] = pc[o]
  BY <1>1 DEF ClockType
<1>3. MoreTypes /\ LateInv(i) /\ LagInv(i)
  BY DEF XInv
<1> DEFINE h == Modulus \div 2
           l == Latest(i)
<1>4. /\ i \in Nat \ {0} /\ MaxLag \in Nat \ {0} /\ l \in Nat /\ l + i < h
      /\ Modulus \in Nat \ {0} /\ h \in Nat /\ 2 * h <= Modulus
      /\ Keys = 0 .. Modulus - 1 /\ now \in Keys /\ time \in Keys
  BY LatestRight, HalfRight DEF ClockType
<1>12. \A f : MaxLag * Total(f) \in Nat /\ i - 1 + MaxLag * Total(f) <= l
  BY LatestRight
<1> HIDE DEF h, l
<1>5. Lag \in Nat /\ Lag <= MaxLag + i /\ Lag = (time - now) % Modulus
  <2>1. Lag <= MaxLag + i
    BY <1>3 DEF LagInv
  <2>2. Lag = (time - now) % Modulus
    BY DEF Lag
  <2>3. (time - now) % Modulus = IF time >= now THEN time - now ELSE time - now + Modulus
    BY <1>4, DiffMod
  <2>4. (time - now) % Modulus \in Nat
    BY <1>4, <2>3
  <2> QED
    BY <2>1, <2>2, <2>4
<1>6. MoreTypes'
  BY <1>1, <1>3 DEF MoreTypes
<1>7. Lag' = 0
  <2>1. (time - time) % Modulus = IF time >= time THEN time - time ELSE time - time + Modulus
    BY <1>4, DiffMod
  <2> QED
    BY <1>1, <1>4, <2>1 DEF Lag
<1>8. ASSUME NEW n \in DOMAIN armed, Lag > 0
      PROVE  /\ Ahead(n)' = Ahead(n) - Lag /\ Ahead(n)' <= i
             /\ - Ahead(n)' <= i - 1 + MaxLag * Total([o \in Threads |-> Advances(o, n)'])
  <2> DEFINE f == [o \in Threads |-> Advances(o, n)]
             e == [f EXCEPT ![t] = f[t] + 1]
             g == [o \in Threads |-> Advances(o, n)']
             a == Ahead(n)
             x == MaxLag * Total(f)
             y == MaxLag * Total(e)
             z == MaxLag * Total(g)
  <2>1. /\ f \in [Threads -> 0 .. 2] /\ g \in [Threads -> 0 .. 2]
        /\ \A o \in Threads : f[o] = Advances(o, n) /\ g[o] = Advances(o, n)'
    BY AdvancesType
  <2>2. f[t] <= 1
    BY <1>1, <2>1 DEF Advances
  <2>3. e \in [Threads -> 0 .. 2] /\ e[t] = f[t] + 1 /\ \A o \in Threads \ {t} : e[o] = f[o]
    <3> HIDE DEF f
    <3> QED
      BY <2>1, <2>2
  <2>4. a \in Int /\ a <= i /\ - a <= i - 1 + x /\ - l <= a
    BY <1>3, InRange DEF LateInv, l
  <2>5. Total(f) \in Nat /\ Total(e) \in Nat /\ Total(g) \in Nat /\ Total(f) + 1 <= Total(e)
    <3>1. \A o \in Threads : f[o] <= e[o]
      <4> HIDE DEF f, e
      <4> QED
        BY <2>1, <2>3
    <3>2. f[t] < e[t]
      <4> HIDE DEF f, e
      <4> QED
        BY <2>1, <2>3
    <3> HIDE DEF f, e, g
    <3>3. Total(f) + 1 <= Total(e)
      BY <2>1, <2>3, <3>1, <3>2, TotalGrows DEF Bounds
    <3> QED
      BY <3>3, TotalRight DEF Bounds
  <2>6. x \in Nat /\ y \in Nat /\ x + MaxLag <= y /\ MaxLag <= y /\ i - 1 + y <= l
    <3> HIDE DEF f, e
    <3>1. x \in Nat /\ y \in Nat /\ i - 1 + y <= l
      BY <1>12
    <3>2. MaxLag \in Nat
      BY <1>4
    <3>3. x + MaxLag <= y
      BY <2>5, <3>2, OneMore
    <3> HIDE DEF x, y
    <3> QED
      BY <3>1, <3>2, <3>3
\* A timer that was due is later by what the clock was late, MaxLag at most; one that was
\* not is due at most since then.
  <2>7. Lag - a <= i - 1 + y
    <3>1. a <= 0 => Lag <= MaxLag
      BY <1>3 DEF LagInv, Due, Ahead
    <3> HIDE DEF x, y, a
    <3> QED
      BY <1>4, <1>5, <2>4, <2>6, <3>1
  <2>8. Lag - a <= l /\ a - Lag \in Int
    <3> HIDE DEF x, y, a
    <3> QED
      BY <1>4, <1>5, <2>4, <2>6, <2>7
  <2>9. Ahead(n)' = a - Lag
    <3>1. - h <= a - Lag
      <4> HIDE DEF a, h, l
      <4> QED
        BY <1>4, <1>5, <2>4, <2>8
    <3>2. armed[n] \in Keys
      BY DEF ClockType
    <3>3. Signed(armed[n], time) = a - Lag
      BY <1>4, <1>5, <3>1, <3>2, SignedLater DEF Ahead, h
    <3> QED
      BY <1>1, <3>3 DEF Ahead
\* No thread has advanced the clock less often.
  <2>10. ASSUME Ahead(n)' <= 0, NEW o \in Threads
        PROVE  e[o] <= g[o]
    <3> DEFINE b == (now - before[o]) % Modulus
               c == (time - before[o]) % Modulus
    <3>1. /\ before[o] \in Keys
          /\ b = IF now >= before[o] THEN now - before[o] ELSE now - before[o] + Modulus
          /\ c = IF time >= before[o] THEN time - before[o] ELSE time - before[o] + Modulus
          /\ Lag = IF time >= now THEN time - now ELSE time - now + Modulus
      BY <1>3, <1>4, <1>5, DiffMod DEF MoreTypes
    <3>2. /\ before' = before /\ now' = time
          /\ (SinceDue(o, n)' <=> (pc'[o] \in {"find", "capture"}
                 \/ (pc'[o] \in {"wait", "update", "stamp", "handle", "check"} /\ c <= - (a - Lag))))
          /\ (Delta(o)' <=> time # before[o])
      BY <1>1, <2>9 DEF SinceDue, Delta
    <3>3. time = before[o] => c = 0
      <4> HIDE DEF b, c
      <4> QED
        BY <1>4, <3>1
    <3>4. a - Lag <= 0 /\ a \in Int /\ Lag \in Nat /\ Lag > 0 /\ - a <= l
      BY <1>4, <1>5, <1>8, <2>4, <2>9, <2>10
    <3>5. b <= - a => c <= - (a - Lag) /\ time # before[o]
      <4> HIDE DEF a, b, c, h, l
      <4>1. now \in 0 .. Modulus - 1 /\ time \in 0 .. Modulus - 1 /\ before[o] \in 0 .. Modulus - 1
        BY <1>4, <3>1
      <4>2. SUFFICES ASSUME b <= - a PROVE c <= - (a - Lag) /\ time # before[o]
        OBVIOUS
      <4>3. b + Lag < Modulus
        <5>1. b \in Nat
          <6>1. now - before[o] \in Int /\ now - before[o] + Modulus \in Nat
            BY <1>4, <4>1
          <6> QED
            BY <3>1, <4>1, <6>1
        <5>2. b + Lag <= l
          BY <1>4, <1>5, <2>8, <3>4, <4>2, <5>1
        <5> QED
          BY <1>4, <1>5, <5>1, <5>2
      <4>4. c = b + Lag
        <5> DEFINE p == before[o]
                   r == Lag
        <5>1. /\ p \in 0 .. Modulus - 1 /\ b + r < Modulus /\ r \in Nat
              /\ b = IF now >= p THEN now - p ELSE now - p + Modulus
              /\ c = IF time >= p THEN time - p ELSE time - p + Modulus
              /\ r = IF time >= now THEN time - now ELSE time - now + Modulus
          BY <1>5, <3>1, <4>1, <4>3
        <5> HIDE DEF p, r
        <5> QED
          BY <1>4, <4>1, <5>1 DEF r
      <4>5. b \in Nat
        BY <1>4, <3>1, <4>1
      <4> QED
        BY <3>3, <3>4, <4>2, <4>4, <4>5
    <3>6. SinceDue(o, n) => pc[o] \in {"find", "capture"} \/ b <= - a
      BY DEF SinceDue
    <3>7. time = before[o] => c <= - (a - Lag)
      <4> HIDE DEF a, c
      <4> QED
        BY <3>3, <3>4
    <3>8. CASE o = t
      <4>1. e[o] = 1 + IF SinceDue(t, n) THEN 1 ELSE 0
        BY <1>1, <2>1, <2>3, <3>8 DEF Advances
      <4>2. g[o] = (IF time # before[o] THEN 1 ELSE 0) + (IF c <= - (a - Lag) THEN 1 ELSE 0)
        BY <1>2, <2>1, <3>2, <3>8 DEF Advances
      <4>3. SinceDue(t, n) => c <= - (a - Lag) /\ time # before[o]
        BY <1>1, <3>5, <3>6, <3>8
      <4> HIDE DEF a, c, e, g
      <4> QED
        BY <3>7, <4>1, <4>2, <4>3
    <3>9. CASE o # t
      <4>1. pc'[o] = pc[o] /\ e[o] = Advances(o, n) /\ g[o] = Advances(o, n)'
        BY <1>2, <2>1, <2>3, <3>9
      <4>2. CASE pc[o] \in {"expire", "loop", "handler"}
        <5>1. Advances(o, n)' = 2
          BY <4>1, <4>2 DEF Advances
        <5> QED
          BY <4>1, <5>1, AdvancesType
      <4>3. CASE pc[o] \in {"find", "capture"}
        <5>1. Advances(o, n) = 1 /\ Advances(o, n)' = 1
          BY <4>1, <4>3 DEF Advances, SinceDue
        <5> QED
          BY <4>1, <5>1
      <4>4. CASE pc[o] \in {"wait", "update", "stamp"}
        <5>1. Advances(o, n) = IF SinceDue(o, n) THEN 1 ELSE 0
          BY <4>4 DEF Advances
        <5>2. Advances(o, n)' = IF c <= - (a - Lag) THEN 1 ELSE 0
          BY <3>2, <4>1, <4>4 DEF Advances
        <5>3. SinceDue(o, n) => c <= - (a - Lag)
          BY <3>5, <3>6, <4>4
        <5> HIDE DEF a, c, e, g
        <5> QED
          BY <4>1, <5>1, <5>2, <5>3
      <4>5. CASE pc[o] \in {"handle", "check"}
        <5>1. Advances(o, n) = (IF Delta(o) THEN 1 ELSE 0) + (IF SinceDue(o, n) THEN 1 ELSE 0)
          BY <4>5 DEF Advances
        <5>2. Advances(o, n)' = (IF time # before[o] THEN 1 ELSE 0) + (IF c <= - (a - Lag) THEN 1 ELSE 0)
          BY <3>2, <4>1, <4>5 DEF Advances
        <5>3. SinceDue(o, n) => c <= - (a - Lag) /\ time # before[o]
          BY <3>5, <3>6, <4>5
        <5> HIDE DEF a, c, e, g
        <5> QED
          BY <3>7, <4>1, <5>1, <5>2, <5>3
      <4>6. pc[o] \in {"find", "capture", "wait", "update", "stamp", "handle", "check", "expire", "loop", "handler"}
        BY DEF ClockType
      <4> QED
        BY <4>2, <4>3, <4>4, <4>5, <4>6
    <3> QED
      BY <3>8, <3>9
  <2>11. Ahead(n)' <= 0 => y <= z
    <3> SUFFICES ASSUME Ahead(n)' <= 0 PROVE y <= z
      OBVIOUS
    <3>1. \A o \in Threads : e[o] <= g[o]
      BY <2>10
    <3> HIDE DEF f, e, g
    <3>2. Total(e) <= Total(g)
      BY <2>1, <2>3, <3>1, TotalKept DEF Bounds
    <3> QED
      BY <1>4, <2>5, <3>2, TimesGrows
  <2>12. z \in Nat
    BY <1>12
  <2>13. a - Lag <= i /\ - (a - Lag) <= i - 1 + z
    <3>1. a - Lag <= 0 => y <= z
      BY <2>9, <2>11
    <3>2. a - Lag \in Int /\ y \in Nat /\ z \in Nat /\ i \in Nat \ {0} /\ - (a - Lag) = Lag - a
      BY <1>4, <1>5, <2>4, <2>6, <2>12
    <3> DEFINE q == a - Lag
    <3>3. q <= i
      <4> HIDE DEF a, x
      <4> QED
        BY <1>4, <1>5, <2>4
    <3>4. q \in Int /\ - q <= i - 1 + y /\ (q <= 0 => y <= z)
      BY <2>7, <3>1, <3>2
    <3> HIDE DEF q, y, z
    <3>5. - q <= i - 1 + z
      BY <3>2, <3>4
    <3> QED
      BY <3>3, <3>5 DEF q
  <2> QED
    BY <2>9, <2>13
<1>9. LateInv(i)'
  <2>1. CASE Lag > 0
    BY <1>1, <1>8, <2>1 DEF LateInv
  <2>2. CASE Lag = 0
    <3>1. time = now
      BY <1>4, <1>5, <2>2, DiffMod
    <3>2. ASSUME NEW n \in Timers, NEW o \in Threads
          PROVE  Advances(o, n) <= Advances(o, n)'
      <4>1. CASE o = t
        <5>1. SinceDue(t, n)' <=> SinceDue(t, n)
          BY <1>1, <1>2, <3>1 DEF SinceDue, Ahead
        <5>2. Advances(t, n) = IF SinceDue(t, n) THEN 1 ELSE 0
          BY <1>1 DEF Advances
        <5>3. Advances(t, n)' >= IF SinceDue(t, n)' THEN 1 ELSE 0
          BY <1>2 DEF Advances
        <5> QED
          BY <4>1, <5>1, <5>2, <5>3
      <4>2. CASE o # t
        <5>1. pc'[o] = pc[o]
          BY <1>2, <4>2
        <5>2. Advances(o, n)' = Advances(o, n)
          BY <1>1, <3>1, <5>1 DEF Advances, SinceDue, Delta, Ahead
        <5> QED
          BY <5>2, AdvancesType
      <4> QED
        BY <4>1, <4>2
    <3> QED
      BY <1>1, <1>3, <3>1, <3>2, LateKept
  <2> QED
    BY <1>5, <2>1, <2>2
<1>10. LagInv(i)'
  <2>1. ~ \A o \in Threads : Waits(o)'
    BY <1>2 DEF Waits
  <2>2. 0 <= MaxLag + i /\ ~ (0 > MaxLag) /\ 0 <= MaxLag
    BY <1>4
  <2> QED
    BY <1>1, <1>3, <1>7, <2>1, <2>2 DEF LagInv
<1>11. WakeInv'
  <2>1. ~ Dozes(t)'
    BY <1>2 DEF Dozes
  <2> QED
    BY <2>1 DEF WakeInv
<1> QED
  BY <1>6, <1>9, <1>10, <1>11 DEF XInv
-----------------------------------------------------------------------------
(* Theorems.                                                               *)

LEMMA InitInv == Init => IInv
<1> SUFFICES ASSUME Init PROVE IInv
  OBVIOUS
<1> USE DEF Init, SetInit
<1>1. 0 \in Keys
  <2>1. Modulus \in Nat \ {0}
    BY TimerSetAssumption, TimersAssumption DEF Modulus
  <2> QED
    BY <2>1 DEF Keys
<1>2. DOMAIN armed = {}
  OBVIOUS
<1>3. ClockType
  BY <1>1, <1>2 DEF ClockType
<1>4. OnePlace /\ KeyAhead /\ NotEarly
  BY <1>2 DEF OnePlace, KeyAhead, NotEarly
<1> QED
  BY <1>3, <1>4 DEF IInv

LEMMA StepInv == IInv /\ [Next]_vars => IInv'
<1> SUFFICES ASSUME IInv, [Next]_vars PROVE IInv'
  OBVIOUS
<1> DEFINE Moves(t) == \/ Find(t) \/ Capture(t) \/ TimedOut(t) \/ TryUpdate(t) \/ Check(t)
                       \/ ExpireLock(t) \/ ExpireDone(t) \/ ClientWakes(t)
<1>1. ASSUME NEW t \in Threads, Moves(t)
      PROVE  IInv'
  <2>1. UNCHANGED <<armed, time, now, boot, awaiting, cur, wanted>>
    BY <1>1 DEF Find, Capture, TimedOut, TryUpdate, Check, ExpireLock, ExpireDone, ClientWakes
  <2>2. \E l \in {"find", "capture", "wait", "update", "stamp", "handle", "check", "expire", "loop"} :
            pc' = [pc EXCEPT ![t] = l] /\ (cur[t] # NoTimer => l \in {"update", "stamp", "handle"})
    BY <1>1 DEF Find, Capture, TimedOut, TryUpdate, Check, ExpireLock, ExpireDone, ClientWakes, Goto,
                IInv, OnePlace
  <2> QED
    BY <2>1, <2>2, MoveStep
<1>2. ASSUME NEW t \in Threads, Run(t) \/ ClientWakes(t)
      PROVE  IInv'
  BY <1>1, <1>2, StampStep, HandleStep, FireStep, UsersHandlerStep, StatusHandlerStep DEF Run
<1>3. ASSUME NEW n \in Timers, MainAdd(n) \/ Respond(n)
      PROVE  IInv'
  BY <1>3, MainAddStep, ResponseWakesStep DEF Respond
<1>4. CASE UNCHANGED vars
  <2> USE <1>4 DEF vars, IInv
  <2>1. ClockType' /\ OnePlace'
    BY DEF ClockType, OnePlace
  <2>2. KeyAhead' /\ NotEarly'
    BY DEF KeyAhead, Lag, NotEarly
  <2> QED
    BY <2>1, <2>2
<1> QED
  BY <1>2, <1>3, <1>4, TickStep DEF Next

\* The invariant holds in every reachable state.
THEOREM Invariance == Spec => []IInv
<1>1. Init => IInv
  BY InitInv
<1>2. IInv /\ [Next]_vars => IInv'
  BY StepInv
<1> QED
  BY <1>1, <1>2, PTL DEF Spec

\* stu_event_expire_timers calls no handler before the interval of its timer has gone by,
\* however the threads are delayed, also when the keys in the tree lie so far apart that
\* their order means nothing any more.
THEOREM NeverEarly == Spec => []NotEarly
<1>1. IInv => NotEarly
  BY DEF IInv
<1> QED
  BY <1>1, Invariance, PTL

LEMMA XInit ==
    ASSUME NEW i, Bounds(i), Init
    PROVE  XInv(i)
<1> USE DEF Init, SetInit
<1>1. Modulus \in Nat \ {0} /\ Keys = 0 .. Modulus - 1 /\ 0 \in Keys /\ i \in Nat /\ MaxLag \in Nat
  BY HalfRight, LatestRight
<1>2. DOMAIN armed = {}
  OBVIOUS
<1>3. MoreTypes
  BY <1>1 DEF MoreTypes
<1>4. Lag = 0
  <2>1. (0 - 0) % Modulus = IF 0 >= 0 THEN 0 - 0 ELSE 0 - 0 + Modulus
    BY <1>1, DiffMod
  <2> QED
    BY <1>1, <2>1 DEF Lag
<1>5. LagInv(i)
  BY <1>1, <1>2, <1>4 DEF LagInv
<1>6. LateInv(i) /\ WakeInv
  BY <1>2 DEF LateInv, WakeInv
<1> QED
  BY <1>3, <1>5, <1>6 DEF XInv

LEMMA XStep ==
    ASSUME NEW i, Bounds(i), IInv, XInv(i), [Next]_vars
    PROVE  XInv(i)'
<1>1. ClockType /\ ClockType'
  BY StepInv DEF IInv
<1>2. ASSUME NEW t \in Threads, Run(t) \/ ClientWakes(t)
      PROVE  XInv(i)'
  BY <1>1, <1>2, FindLate, CaptureLate, StampLate, HandleLate, CheckStep, FireLate, UsersHandlerLate,
     ExpireDoneLate, QuietStep DEF Run
<1>3. ASSUME NEW n \in Timers, MainAdd(n) \/ Respond(n)
      PROVE  XInv(i)'
  BY <1>1, <1>3, MainAddLate, QuietStep DEF Respond
<1>4. CASE Tick
  BY <1>1, <1>4, TickLate
<1>5. CASE UNCHANGED vars
  <2> USE <1>5 DEF vars
  <2>1. MoreTypes' /\ LagInv(i)' /\ WakeInv'
    BY DEF XInv, MoreTypes, LagInv, WakeInv, Lag, Waits, Dozes, Due, Ahead
  <2>2. LateInv(i)'
    BY DEF XInv, LateInv, Advances, SinceDue, Delta, Ahead
  <2> QED
    BY <2>1, <2>2 DEF XInv
<1> QED
  BY <1>2, <1>3, <1>4, <1>5 DEF Next

\* What the bounds say of the threads that sleep.
LEMMA WakesRight ==
    ASSUME NEW i, Bounds(i), ClockType, XInv(i)
    PROVE  SomeoneWakes
<1> SUFFICES ASSUME seen, DOMAIN armed # {}, \A t \in Threads : Waits(t)
             PROVE  \E t \in Threads :
                        /\ left[t] # Forever
                        /\ left[t] <= MaxLag + IF Signed(First, time) > 0 THEN Signed(First, time) ELSE 0
  BY DEF SomeoneWakes
<1>1. MoreTypes /\ LateInv(i) /\ LagInv(i) /\ WakeInv
  BY DEF XInv
<1>2. PICK t \in Threads :
          /\ left[t] # Forever
          /\ \A n \in DOMAIN armed :
                left[t] <= Positive(Ahead(n)) /\ Lag + left[t] <= MaxLag + Positive(Ahead(n))
  BY <1>1 DEF WakeInv, Dozes, Waits
<1>3. PICK e \in DOMAIN armed : armed[e] = First
  <2>1. PICK n \in Earliest(armed) : n \in DOMAIN armed
    BY <1>1, EarliestRight
  <2>2. \E k \in Keys : \E n1 \in Earliest(armed) : armed[n1] = k
    BY <2>1 DEF ClockType
  <2>3. \E n1 \in Earliest(armed) : armed[n1] = First
    BY <2>2 DEF First
  <2> QED
    BY <1>1, <2>3, EarliestRight
<1> DEFINE a == Ahead(e)
           s == Signed(First, time)
           h == Modulus \div 2
<1>4. /\ Modulus \in Nat \ {0} /\ h \in Nat /\ Modulus <= 2 * h + 1 /\ Keys = 0 .. Modulus - 1
      /\ i \in Nat \ {0} /\ MaxLag \in Nat \ {0} /\ 4 * MaxLag <= Modulus /\ 4 * i <= Modulus
      /\ time \in Keys /\ now \in Keys /\ First \in Keys
  BY <1>3, HalfRight, Quarters DEF ClockType
<1>5. Lag = (time - now) % Modulus /\ Lag \in Nat /\ Lag <= MaxLag + i
  <2>1. Lag = (time - now) % Modulus
    BY DEF Lag
  <2>2. Lag \in Nat
    BY <1>4, <2>1, DiffMod
  <2> QED
    BY <1>1, <2>1, <2>2 DEF LagInv
<1>6. a \in Int /\ left[t] \in Int /\ s \in Int
  <2>1. a \in Int
    BY <1>1, InRange
  <2>2. left[t] \in Int
    BY <1>1, <1>4 DEF MoreTypes, Forever
  <2>3. s \in Int
    BY <1>4, SignedIs
  <2> QED
    BY <2>1, <2>2, <2>3
<1>7. left[t] <= Positive(a) /\ Lag + left[t] <= MaxLag + Positive(a)
  BY <1>2
<1>8. a > 0 => s = a - Lag
  <2> SUFFICES ASSUME a > 0 PROVE s = a - Lag
    OBVIOUS
  <2>1. - h <= a - Lag
    <3> HIDE DEF a, h
    <3>1. MaxLag + i <= h
      BY <1>4
    <3> QED
      BY <1>4, <1>5, <1>6, <3>1
  <2> QED
    BY <1>3, <1>4, <1>5, <2>1, SignedLater DEF Ahead
<1> HIDE DEF a, s, h
<1>9. left[t] <= MaxLag + IF s > 0 THEN s ELSE 0
  <2>1. CASE a > 0
    <3>1. Lag + left[t] <= MaxLag + a /\ s = a - Lag
      BY <1>7, <1>8, <2>1 DEF Positive
    <3>2. left[t] <= MaxLag + s
      BY <1>4, <1>5, <1>6, <3>1
    <3> QED
      BY <1>4, <1>6, <3>2
  <2>2. CASE ~ (a > 0)
    <3>1. left[t] <= 0
      BY <1>7, <2>2 DEF Positive
    <3> QED
      BY <1>4, <1>6, <3>1
  <2> QED
    BY <2>1, <2>2
<1> QED
  BY <1>2, <1>9 DEF s

\* If the threads are not delayed by more than the range of the clock leaves room for, then
\* the keys in the tree always have an order, by which stu_timer_find and
\* stu_event_expire_timers find the earliest, and among threads that all sleep there is one
\* that wakes up for it in time.
THEOREM AlwaysPunctual ==
    ASSUME LagBound
    PROVE  Spec => []Punctual
<1>1. PICK i \in 1 .. Modulus : Bounds(i)
  <2>1. Modulus \in Nat
    BY HalfRight
  <2>2. \A i \in 1 .. Modulus : i \in Nat \ {0}
    BY <2>1
  <2> QED
    BY <2>2 DEF LagBound, Bounds
<1>2. Init => XInv(i)
  BY <1>1, XInit
<1>3. IInv /\ XInv(i) /\ [Next]_vars => XInv(i)'
  BY <1>1, XStep
<1>4. IInv /\ XInv(i) => Punctual
  <2> SUFFICES ASSUME IInv, XInv(i) PROVE Punctual
    OBVIOUS
  <2>1. ClockType /\ MoreTypes /\ LateInv(i)
    BY DEF IInv, XInv
  <2>2. TypeOK
    BY <2>1 DEF TypeOK, ClockType, MoreTypes
  <2>3. KeysComparable
    BY <1>1, <2>1, LateComparable
  <2>4. SomeoneWakes
    BY <1>1, <2>1, WakesRight
  <2> QED
    BY <2>2, <2>3, <2>4 DEF Punctual
<1> QED
  BY <1>2, <1>3, <1>4, Invariance, PTL DEF Spec
=============================================================================
