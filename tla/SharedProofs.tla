---------------------------- MODULE SharedProofs ----------------------------
(***************************************************************************)
(* Proofs about two structures that threads share.                         *)
(*                                                                         *)
(* RoundRobin, for any number of threads and any weights: no race makes a  *)
(* server of weight 0 be chosen, and one thread alone chooses exactly in   *)
(* the weighted cycle.                                                     *)
(*                                                                         *)
(* Hash, for any number of buckets, elements, names and hashes: buckets,   *)
(* list of keys and length agree, a lookup finds the first of its name,    *)
(* and the table implements the plain list of Multimap.                    *)
(***************************************************************************)
EXTENDS RoundRobin, TLAPS, FiniteSetTheorems, WellFoundedInduction

\* The parameters and the state of the hash table.
CONSTANTS Names, Values, Elements, Size, Lower, Width, Nil
VARIABLES bucket, keys, elt, length, leaked, removing, wild

Table == INSTANCE Hash

-----------------------------------------------------------------------------
(* The inductive invariant.                                                *)

Alone == \A t, o \in Threads : t = o

\* So many servers have been chosen: k whole rounds, and x of the next one.
Chosen(k, x) == Len(picks) = k * Total + x

\* A thread alone keeps, in the cursor and in size, where in the round it is.
Place(t, k) ==
    /\ pc[t] = "idle" /\ obj = 0 => picks = << >>
    /\ pc[t] = "idle" /\ obj # 0 => size <= Weight[obj] /\ Chosen(k, Before(obj) + size)
    /\ pc[t] = "first" => e[t] = 1
    /\ pc[t] \in {"first", "next", "reset"} => Chosen(k, Before(e[t]))
    /\ pc[t] \in {"reset", "read", "write", "test"} => obj = e[t]
    /\ pc[t] = "read" => size <= Weight[e[t]] /\ Chosen(k, Before(e[t]) + size)
    /\ pc[t] = "write" => used[t] <= Weight[e[t]] /\ Chosen(k, Before(e[t]) + used[t])
    /\ pc[t] = "test" =>
          size = used[t] + 1 /\ used[t] <= Weight[e[t]] /\ Chosen(k, Before(e[t]) + used[t])

CycleInv == Alone => ExactlyWeighted /\ \A t \in Threads : \E k \in Nat : Place(t, k)

IInv == NeverZero /\ CycleInv
Ind == TypeOK /\ IInv

-----------------------------------------------------------------------------
(* Natural numbers.                                                        *)

\* Every set of naturals that is not empty has a least element: with it one can do
\* induction, for the smallest counterexample.
LEMMA Least ==
    ASSUME NEW S, S \subseteq Nat, S # {}
    PROVE  \E n \in S : \A m \in S : n <= m
<1> DEFINE R == OpToRel(<, Nat)
<1>1. IsWellFoundedOn(R, Nat)
  BY NatLessThanWellFounded
<1>2. PICK n \in S : \A m \in S : ~ (<<m, n>> \in R)
  <2> HIDE DEF R
  <2> QED BY <1>1, WFMin
<1>3. \A m, n1 \in Nat : m < n1 => <<m, n1>> \in R
  BY DEF OpToRel
<1> HIDE DEF R
<1>4. ASSUME NEW m \in S PROVE n <= m
  <2>1. m \in Nat /\ n \in Nat /\ ~ (<<m, n>> \in R)
    BY <1>2
  <2>2. ~ (m < n)
    BY <1>3, <2>1
  <2> QED
    BY <2>1, <2>2
<1> QED
  BY <1>4

\* What \div and % are.
LEMMA DivMod ==
    ASSUME NEW M \in Nat \ {0}, NEW x \in Nat
    PROVE  x = M * (x \div M) + (x % M) /\ x \div M \in Nat /\ x % M \in 0 .. M - 1
OBVIOUS
\* % undoes the multiples.
LEMMA ModUnique ==
    ASSUME NEW M \in Nat \ {0}, NEW k \in Nat, NEW r \in 0 .. M - 1
    PROVE  (k * M + r) % M = r
<1> DEFINE x == k * M + r
           q == x \div M
<1>1. k * M \in Nat /\ r \in Nat
  OBVIOUS
<1>2. x \in Nat
  BY <1>1
<1>3. x = M * q + (x % M) /\ q \in Nat /\ x % M \in 0 .. M - 1
  BY <1>2, DivMod
<1> DEFINE s == x % M
<1>4. k * M + r = q * M + s /\ s \in 0 .. M - 1
  BY <1>3
<1> HIDE DEF q, s, x
<1>5. k = q
  <2>1. CASE k >= q + 1
    <3>1. k * M >= (q + 1) * M
      BY <2>1, <1>3
    <3>2. (q + 1) * M = q * M + M /\ q * M \in Nat
      BY <1>3
    <3> QED BY <3>1, <3>2, <1>1, <1>4
  <2>2. CASE q >= k + 1
    <3>1. q * M >= (k + 1) * M
      BY <2>2, <1>3
    <3>2. (k + 1) * M = k * M + M /\ k * M \in Nat /\ q * M \in Nat
      BY <1>3
    <3> QED BY <3>1, <3>2, <1>1, <1>4
  <2> QED BY <2>1, <2>2, <1>3
<1>6. s = r
  BY <1>4, <1>5, <1>1
<1> QED
  BY <1>6 DEF s, x

-----------------------------------------------------------------------------
(* The sums of the weights.                                                *)

\* The sums of UpTo exist, as far as one likes.
LEMMA SumsExist ==
    ASSUME NEW N \in Nat, NEW w \in [1 .. N -> Nat]
    PROVE  \E g : g = [i \in 0 .. N |-> IF i = 0 THEN 0 ELSE g[i - 1] + w[i]]
<1> DEFINE Sums(n) == \E g : g = [i \in 0 .. n |-> IF i = 0 THEN 0 ELSE g[i - 1] + w[i]]
           Bad == {n \in 0 .. N : ~ Sums(n)}
<1>1. SUFFICES ASSUME ~ Sums(N) PROVE FALSE
  OBVIOUS
<1>2. PICK n \in Bad : \A m \in Bad : n <= m
  <2>1. Bad \subseteq Nat /\ N \in Bad
    BY <1>1
  <2> HIDE DEF Bad
  <2> QED
    BY <2>1, Least
<1>3. Sums(0)
  <2>1. [i \in 0 .. 0 |-> 0] = [i \in 0 .. 0 |-> IF i = 0 THEN 0 ELSE [j \in 0 .. 0 |-> 0][i - 1] + w[i]]
    OBVIOUS
  <2> QED
    BY <2>1
<1>4. n \in 1 .. N /\ n - 1 \in 0 .. N /\ ~ Sums(n) /\ Sums(n - 1)
  <2>1. n \in 0 .. N /\ ~ Sums(n)
    OBVIOUS
  <2>2. n # 0
    BY <1>3, <2>1
  <2>3. n - 1 \in 0 .. N /\ n - 1 < n
    BY <2>1, <2>2
  <2>4. n - 1 \notin Bad
    <3> HIDE DEF Bad
    <3>1. n - 1 \in Bad => n <= n - 1
      BY <1>2
    <3> QED
      BY <2>1, <2>3, <3>1
  <2> QED
    BY <2>1, <2>2, <2>3, <2>4
<1>5. PICK g : g = [i \in 0 .. n - 1 |-> IF i = 0 THEN 0 ELSE g[i - 1] + w[i]]
  BY <1>4
<1> DEFINE h == [i \in 0 .. n |-> IF i = n THEN g[n - 1] + w[n] ELSE g[i]]
<1>6. \A i \in 0 .. n : h[i] = IF i = 0 THEN 0 ELSE h[i - 1] + w[i]
  <2> SUFFICES ASSUME NEW i \in 0 .. n PROVE h[i] = IF i = 0 THEN 0 ELSE h[i - 1] + w[i]
    OBVIOUS
  <2>1. CASE i = n
    BY <1>4, <2>1
  <2>2. CASE i # n
    <3>1. i \in 0 .. n - 1 /\ i \in 0 .. n
      BY <1>4, <2>2
    <3>2. g[i] = IF i = 0 THEN 0 ELSE g[i - 1] + w[i]
      BY <1>5, <3>1
    <3>3. i # 0 => i - 1 \in 0 .. n /\ i - 1 # n
      BY <1>4, <3>1
    <3> QED
      BY <2>2, <3>1, <3>2, <3>3
  <2> QED
    BY <2>1, <2>2
<1>7. h = [i \in 0 .. n |-> h[i]]
  OBVIOUS
<1> HIDE DEF h
<1>8. h = [i \in 0 .. n |-> IF i = 0 THEN 0 ELSE h[i - 1] + w[i]]
  BY <1>6, <1>7
<1> QED
  BY <1>4, <1>8

\* UpTo is what its recursive definition says.
LEMMA UpToRight ==
    ASSUME RoundRobinAssumption
    PROVE  /\ UpTo[0] = 0
           /\ \A i \in 1 .. Len(Weight) : UpTo[i] = UpTo[i - 1] + Weight[i]
<1>1. Len(Weight) \in Nat /\ Weight \in [1 .. Len(Weight) -> Nat]
  BY DEF RoundRobinAssumption
<1>2. \E g : g = [i \in 0 .. Len(Weight) |-> IF i = 0 THEN 0 ELSE g[i - 1] + Weight[i]]
  BY <1>1, SumsExist
<1>3. UpTo = [i \in 0 .. Len(Weight) |-> IF i = 0 THEN 0 ELSE UpTo[i - 1] + Weight[i]]
  BY <1>2 DEF UpTo
<1> QED
  BY <1>1, <1>3

\* The servers follow one another in the round.
LEMMA BeforeRight ==
    ASSUME RoundRobinAssumption
    PROVE  /\ Servers = 1 .. Len(Weight) /\ Len(Weight) \in Nat \ {0}
           /\ Before(1) = 0 /\ Before(Len(Weight) + 1) = Total
           /\ \A s \in Servers : /\ Weight[s] \in Nat
                                 /\ Before(s + 1) = Before(s) + Weight[s]
<1>1. Servers = 1 .. Len(Weight) /\ Len(Weight) \in Nat \ {0} /\ \A s \in Servers : Weight[s] \in Nat
  BY DEF RoundRobinAssumption, Servers
<1>2. \A s \in Servers : UpTo[s] = UpTo[s - 1] + Weight[s] /\ (s + 1) - 1 = s
  BY <1>1, UpToRight
<1> QED
  BY <1>1, <1>2, UpToRight DEF Before, Total

\* One after the other, not overlapping.
LEMMA BeforeGrows ==
    ASSUME RoundRobinAssumption, NEW s \in Servers
    PROVE  /\ Before(s) \in Nat
           /\ \A u \in 1 .. Len(Weight) + 1 : u > s => Before(u) \in Nat /\ Before(u) >= Before(s) + Weight[s]
<1>1. Len(Weight) \in Nat \ {0} /\ Servers = 1 .. Len(Weight)
  BY BeforeRight
<1>2. \A v \in 1 .. Len(Weight) + 1 : Before(v) \in Nat
  <2> DEFINE Bad == {v \in 1 .. Len(Weight) + 1 : Before(v) \notin Nat}
  <2>1. SUFFICES ASSUME Bad # {} PROVE FALSE
    OBVIOUS
  <2>2. PICK v \in Bad : \A x \in Bad : v <= x
    <3>1. Bad \subseteq Nat
      BY <1>1
    <3> HIDE DEF Bad
    <3> QED
      BY <2>1, <3>1, Least
  <2>3. v \in 1 .. Len(Weight) + 1 /\ Before(v) \notin Nat
    OBVIOUS
  <2>4. v # 1
    BY <2>3, BeforeRight
  <2>5. v - 1 \in Servers /\ (v - 1) + 1 = v /\ v - 1 \in 1 .. Len(Weight) + 1 /\ ~ (v <= v - 1)
    BY <1>1, <2>3, <2>4
  <2>6. v - 1 \notin Bad
    <3> HIDE DEF Bad
    <3> QED
      BY <2>2, <2>5
  <2>7. Before(v - 1) \in Nat
    BY <2>5, <2>6
  <2>8. Before(v) = Before(v - 1) + Weight[v - 1] /\ Weight[v - 1] \in Nat
    BY <2>5, BeforeRight
  <2> QED
    BY <2>3, <2>7, <2>8
<1>3. \A u \in 1 .. Len(Weight) + 1 : u > s => Before(u) >= Before(s) + Weight[s]
  <2> DEFINE Bad == {u \in 1 .. Len(Weight) + 1 : u > s /\ ~ (Before(u) >= Before(s) + Weight[s])}
  <2>1. SUFFICES ASSUME Bad # {} PROVE FALSE
    OBVIOUS
  <2>2. PICK u \in Bad : \A x \in Bad : u <= x
    <3>1. Bad \subseteq Nat
      BY <1>1
    <3> HIDE DEF Bad
    <3> QED
      BY <2>1, <3>1, Least
  <2>3. u \in 1 .. Len(Weight) + 1 /\ u > s /\ ~ (Before(u) >= Before(s) + Weight[s]) /\ s \in 1 .. Len(Weight)
    BY <1>1
  <2>4. Before(s + 1) = Before(s) + Weight[s] /\ Weight[s] \in Nat /\ Before(s) \in Nat
    BY <1>1, <1>2, <2>3, BeforeRight
  <2>5. u # s + 1
    BY <2>3, <2>4
  <2>6. u - 1 \in Servers /\ (u - 1) + 1 = u /\ u - 1 \in 1 .. Len(Weight) + 1 /\ u - 1 > s /\ ~ (u <= u - 1)
    BY <1>1, <2>3, <2>5
  <2>7. u - 1 \notin Bad
    <3> HIDE DEF Bad
    <3> QED
      BY <2>2, <2>6
  <2>8. Before(u - 1) >= Before(s) + Weight[s]
    BY <2>6, <2>7
  <2>9. /\ Before(u) = Before(u - 1) + Weight[u - 1] /\ Weight[u - 1] \in Nat
        /\ Before(u - 1) \in Nat /\ Before(u) \in Nat
    BY <1>2, <2>3, <2>6, BeforeRight
  <2> QED
    BY SMTT(40), <2>3, <2>4, <2>8, <2>9
<1> QED
  BY <1>1, <1>2, <1>3

\* The server whose turn it is.
LEMMA TurnRight ==
    ASSUME RoundRobinAssumption, NEW s \in Servers, NEW k \in Nat,
           NEW x \in Nat, x < Weight[s]
    PROVE  Turn(k * Total + (Before(s) + x)) = s
<1> DEFINE r == Before(s) + x
<1>1. /\ Before(s) \in Nat /\ Weight[s] \in Nat
      /\ Total \in Nat /\ Total >= Before(s) + Weight[s]
  <2>1. /\ s \in 1 .. Len(Weight) /\ Len(Weight) \in Nat /\ Weight[s] \in Nat
        /\ Before(Len(Weight) + 1) = Total
    BY BeforeRight
  <2>2. Len(Weight) + 1 \in 1 .. Len(Weight) + 1 /\ Len(Weight) + 1 > s
    BY <2>1
  <2> QED
    BY <2>1, <2>2, BeforeGrows
<1>2. Total \in Nat \ {0} /\ r \in 0 .. Total - 1
  BY <1>1
<1>3. (k * Total + r) % Total = r
  BY <1>2, ModUnique
<1>4. r \in Before(s) .. Before(s) + Weight[s] - 1
  BY <1>1
<1>5. ASSUME NEW u \in Servers, r \in Before(u) .. Before(u) + Weight[u] - 1
      PROVE  u = s
  <2>1. Before(u) \in Nat /\ Weight[u] \in Nat /\ u \in Nat /\ s \in Nat
    BY BeforeRight, BeforeGrows
  <2>2. u \in 1 .. Len(Weight) + 1 /\ s \in 1 .. Len(Weight) + 1
    BY BeforeRight
  <2>3. ~ (u > s)
    <3>1. u > s => Before(u) >= Before(s) + Weight[s]
      BY <2>2, BeforeGrows
    <3> QED
      BY <1>1, <1>4, <1>5, <2>1, <3>1
  <2>4. ~ (s > u)
    <3>1. s > u => Before(s) >= Before(u) + Weight[u]
      BY <2>2, BeforeGrows
    <3> QED
      BY <1>1, <1>4, <1>5, <2>1, <3>1
  <2> QED
    BY <2>1, <2>3, <2>4
<1> HIDE DEF r
<1>6. Turn(k * Total + r) = CHOOSE u \in Servers : r \in Before(u) .. Before(u) + Weight[u] - 1
  BY <1>3 DEF Turn
<1>7. (CHOOSE u \in Servers : r \in Before(u) .. Before(u) + Weight[u] - 1) = s
  BY <1>4, <1>5
<1> QED
  BY <1>6, <1>7 DEF r

-----------------------------------------------------------------------------
(* Each action keeps the types and the invariant.                          *)

\* What all have in common: picks, and with it what has been chosen, stays, and a
\* thread that is alone is in its place.
LEMMA StepKeeps ==
    ASSUME Ind, NEW t \in Threads, picks' = picks,
           Alone => \A k \in Nat : Place(t, k) => \E j \in Nat : Place(t, j)'
    PROVE  IInv'
<1>1. NeverZero'
  BY DEF Ind, IInv, NeverZero
<1>2. CycleInv'
  <2>1. ASSUME Alone PROVE ExactlyWeighted' /\ \A o \in Threads : (\E k \in Nat : Place(o, k))'
    <3>1. ExactlyWeighted'
      BY <2>1 DEF Ind, IInv, CycleInv, ExactlyWeighted
    <3>2. \E k \in Nat : Place(t, k)
      BY <2>1 DEF Ind, IInv, CycleInv
    <3>3. \E j \in Nat : Place(t, j)'
      BY <2>1, <3>2
    <3>4. \A o \in Threads : o = t
      BY <2>1 DEF Alone
    <3> QED
      BY <3>1, <3>3, <3>4
  <2> QED
    BY <2>1 DEF CycleInv, Alone
<1> QED
  BY <1>1, <1>2 DEF IInv

LEMMA ReadCursorStep ==
    ASSUME RoundRobinAssumption, Ind, NEW t \in Threads, ReadCursor(t)
    PROVE  Ind'
<1> USE DEF ReadCursor, Goto
<1>1. 1 \in Servers /\ obj \in Servers \union {0} /\ obj \in Nat
  BY BeforeRight DEF Ind, TypeOK
<1>2. TypeOK'
  BY <1>1 DEF Ind, TypeOK
<1>3. ASSUME NEW k \in Nat, Place(t, k) PROVE \E j \in Nat : Place(t, j)'
  <2>1. CASE obj = 0
    <3>1. pc'[t] = "first" /\ e'[t] = 1 /\ picks' = << >>
      BY <1>3, <2>1 DEF Ind, TypeOK, Place
    <3>2. Total \in Nat /\ 0 * Total = 0
      BY BeforeRight, BeforeGrows
    <3>3. Len(picks') = 0 * Total + Before(1)
      BY <3>1, <3>2, BeforeRight
    <3> QED
      BY <3>1, <3>3 DEF Place, Chosen
  <2>2. CASE obj # 0
    <3>1. pc'[t] = "read" /\ e'[t] = obj
      BY <2>2 DEF Ind, TypeOK
    <3> QED
      BY <1>3, <2>2, <3>1 DEF Place, Chosen
  <2> QED
    BY <2>1, <2>2
<1> QED
  BY <1>2, <1>3, StepKeeps DEF Ind

LEMMA SetCursorStep ==
    ASSUME RoundRobinAssumption, Ind, NEW t \in Threads, SetCursor(t)
    PROVE  Ind'
<1> USE DEF SetCursor
<1>1. TypeOK'
  BY DEF Ind, TypeOK
<1>2. ASSUME NEW k \in Nat, Place(t, k) PROVE \E j \in Nat : Place(t, j)'
  <2>1. pc'[t] = "reset"
    BY DEF Ind, TypeOK
  <2> QED
    BY <1>2, <2>1 DEF Place, Chosen
<1> QED
  BY <1>1, <1>2, StepKeeps DEF Ind

LEMMA ResetSizeStep ==
    ASSUME RoundRobinAssumption, Ind, NEW t \in Threads, ResetSize(t)
    PROVE  Ind'
<1> USE DEF ResetSize, Goto
<1>1. TypeOK'
  BY DEF Ind, TypeOK
<1>2. ASSUME NEW k \in Nat, Place(t, k) PROVE \E j \in Nat : Place(t, j)'
  <2>1. pc'[t] = "read" /\ e[t] \in Servers
    BY DEF Ind, TypeOK
  <2>2. Before(e[t]) + 0 = Before(e[t]) /\ 0 <= Weight[e[t]]
    BY <2>1, BeforeRight, BeforeGrows
  <2> QED
    BY <1>2, <2>1, <2>2 DEF Place, Chosen
<1> QED
  BY <1>1, <1>2, StepKeeps DEF Ind

LEMMA ReadSizeStep ==
    ASSUME RoundRobinAssumption, Ind, NEW t \in Threads, ReadSize(t)
    PROVE  Ind'
<1> USE DEF ReadSize, Goto
<1>1. TypeOK'
  BY DEF Ind, TypeOK
<1>2. ASSUME NEW k \in Nat, Place(t, k) PROVE \E j \in Nat : Place(t, j)'
  <2>1. pc'[t] = "write" /\ used'[t] = size
    BY DEF Ind, TypeOK
  <2> QED
    BY <1>2, <2>1 DEF Place, Chosen
<1> QED
  BY <1>1, <1>2, StepKeeps DEF Ind

LEMMA WriteSizeStep ==
    ASSUME RoundRobinAssumption, Ind, NEW t \in Threads, WriteSize(t)
    PROVE  Ind'
<1> USE DEF WriteSize, Goto
<1>1. TypeOK'
  BY DEF Ind, TypeOK
<1>2. ASSUME NEW k \in Nat, Place(t, k) PROVE \E j \in Nat : Place(t, j)'
  <2>1. pc'[t] = "test"
    BY DEF Ind, TypeOK
  <2> QED
    BY <1>2, <2>1 DEF Place, Chosen
<1> QED
  BY <1>1, <1>2, StepKeeps DEF Ind

LEMMA AdvanceStep ==
    ASSUME RoundRobinAssumption, Ind, NEW t \in Threads, Advance(t)
    PROVE  Ind'
<1> USE DEF Advance, Goto
<1>1. /\ pc[t] = "test" /\ pc'[t] = "next" /\ e[t] \in Servers /\ e'[t] = NextServer(e[t])
      /\ used[t] \in Nat /\ used[t] >= Weight[e[t]]
  BY DEF Ind, TypeOK, UsedUp
<1>2. NextServer(e[t]) \in Servers
  BY <1>1, BeforeRight DEF NextServer
<1>3. TypeOK'
  BY <1>2 DEF Ind, TypeOK
<1>4. ASSUME NEW k \in Nat, Place(t, k) PROVE \E j \in Nat : Place(t, j)'
  <2>1. used[t] <= Weight[e[t]] /\ Len(picks) = k * Total + (Before(e[t]) + used[t])
    BY <1>1, <1>4 DEF Place, Chosen
  <2>2. Before(e[t]) + used[t] = Before(e[t] + 1)
    BY <1>1, <2>1, BeforeRight
  <2>3. CASE e[t] = Len(Weight)
    <3>1. NextServer(e[t]) = 1 /\ Before(e[t] + 1) = Total
      BY <2>3, BeforeRight DEF NextServer
    <3>2. Total \in Nat
      BY BeforeRight, BeforeGrows
    <3>3. k * Total + Total = (k + 1) * Total + 0 /\ k + 1 \in Nat
      BY <3>2
    <3>4. Len(picks) = (k + 1) * Total + Before(1)
      BY <2>1, <2>2, <3>1, <3>3, BeforeRight
    <3> QED
      BY <1>1, <3>1, <3>3, <3>4 DEF Place, Chosen
  <2>4. CASE e[t] # Len(Weight)
    <3>1. NextServer(e[t]) = e[t] + 1
      BY <2>4 DEF NextServer
    <3> QED
      BY <1>1, <2>1, <2>2, <3>1 DEF Place, Chosen
  <2> QED
    BY <2>3, <2>4
<1> QED
  BY <1>3, <1>4, StepKeeps DEF Ind

LEMMA PickStep ==
    ASSUME RoundRobinAssumption, Ind, NEW t \in Threads, Pick(t)
    PROVE  Ind'
<1> USE DEF Pick, Goto
<1>1. /\ pc[t] = "test" /\ pc'[t] = "idle" /\ e[t] \in Servers
      /\ used[t] \in Nat /\ Weight[e[t]] \in Nat /\ used[t] < Weight[e[t]]
      /\ picks \in Seq(Servers) /\ picks' = Append(picks, e[t])
  BY BeforeRight DEF Ind, TypeOK, UsedUp
<1>2. /\ picks' \in Seq(Servers) /\ Len(picks') = Len(picks) + 1 /\ Len(picks) \in Nat
      /\ DOMAIN picks = 1 .. Len(picks) /\ DOMAIN picks' = 1 .. Len(picks) + 1
      /\ \A n \in DOMAIN picks : picks'[n] = picks[n]
      /\ picks'[Len(picks) + 1] = e[t]
  BY <1>1
<1>3. TypeOK'
  BY <1>1, <1>2 DEF Ind, TypeOK
<1>4. NeverZero'
  <2>1. \A n \in DOMAIN picks' : n \in DOMAIN picks \/ n = Len(picks) + 1
    BY <1>2
  <2> QED
    BY <1>1, <1>2, <2>1 DEF Ind, IInv, NeverZero
<1>5. CycleInv'
  <2>1. ASSUME Alone PROVE ExactlyWeighted' /\ \A o \in Threads : (\E k \in Nat : Place(o, k))'
    <3>1. PICK k \in Nat : Place(t, k)
      BY <2>1 DEF Ind, IInv, CycleInv
    <3>2. /\ obj = e[t] /\ size = used[t] + 1
          /\ Len(picks) = k * Total + (Before(e[t]) + used[t])
      BY <1>1, <3>1 DEF Place, Chosen
    <3>3. Turn(Len(picks)) = e[t]
      BY <1>1, <3>2, TurnRight
    <3>4. ExactlyWeighted'
      <4> SUFFICES ASSUME NEW n \in DOMAIN picks' PROVE picks'[n] = Turn(n - 1)
        BY DEF ExactlyWeighted
      <4>1. CASE n = Len(picks) + 1
        <5>1. n - 1 = Len(picks)
          BY <1>2, <4>1
        <5> QED
          BY <1>2, <3>3, <4>1, <5>1
      <4>2. CASE n \in DOMAIN picks
        BY <1>2, <2>1, <4>2 DEF Ind, IInv, CycleInv, ExactlyWeighted
      <4> QED
        BY <1>2, <4>1, <4>2
    <3>5. k * Total + (Before(e[t]) + used[t]) + 1 = k * Total + (Before(e[t]) + (used[t] + 1))
      <4>1. Before(e[t]) \in Nat /\ Total \in Nat
        <5>1. Before(e[t]) \in Nat
          BY <1>1, BeforeGrows
        <5>2. Total \in Nat
          BY SMTT(40), BeforeRight, BeforeGrows
        <5> QED
          BY <5>1, <5>2
      <4>2. k * Total \in Nat
        BY <4>1
      <4> QED
        BY <1>1, <4>1, <4>2
    <3>6. Place(t, k)'
      <4>1. Len(picks') = k * Total + (Before(obj) + size)
        BY <1>2, <3>2, <3>5
      <4>2. size <= Weight[obj] /\ obj \in Servers /\ obj # 0
        BY SMTT(40), <1>1, <3>2, BeforeRight
      <4> QED
        BY <1>1, <4>1, <4>2 DEF Place, Chosen
    <3>7. \A o \in Threads : o = t
      BY <2>1 DEF Alone
    <3> QED
      BY <3>4, <3>6, <3>7
  <2> QED
    BY <2>1 DEF CycleInv, Alone
<1> QED
  BY <1>3, <1>4, <1>5 DEF Ind, IInv

-----------------------------------------------------------------------------
(* Theorems.                                                               *)

LEMMA InitInv == RoundRobinAssumption /\ Init => Ind
<1> SUFFICES ASSUME RoundRobinAssumption, Init PROVE Ind
  OBVIOUS
<1> USE DEF Init
<1>1. TypeOK
  BY BeforeRight DEF TypeOK
<1>2. NeverZero /\ ExactlyWeighted
  BY DEF NeverZero, ExactlyWeighted
<1>3. \A t \in Threads : \E k \in Nat : Place(t, k)
  BY DEF Place
<1> QED
  BY <1>1, <1>2, <1>3 DEF Ind, IInv, CycleInv

LEMMA StepInv == RoundRobinAssumption /\ Ind /\ [Next]_vars => Ind'
<1> SUFFICES ASSUME RoundRobinAssumption, Ind, [Next]_vars PROVE Ind'
  OBVIOUS
<1>1. CASE Next
  BY <1>1, ReadCursorStep, SetCursorStep, ResetSizeStep, ReadSizeStep, WriteSizeStep, AdvanceStep,
     PickStep DEF Next, Choose
<1>2. CASE UNCHANGED vars
  BY <1>2 DEF vars, Ind, IInv, TypeOK, NeverZero, CycleInv, Alone, ExactlyWeighted, Place, Chosen
<1> QED
  BY <1>1, <1>2

\* The types and the invariant hold in every reachable state.
THEOREM Invariance ==
    ASSUME RoundRobinAssumption
    PROVE  Spec => []Ind
<1>1. Init => Ind
  BY InitInv
<1>2. Ind /\ [Next]_vars => Ind'
  BY StepInv
<1> QED
  BY <1>1, <1>2, PTL DEF Spec

\* Whatever races of stu_upstream_create do to the cursor, a server of weight 0 is never
\* chosen; and the requests of one thread alone go round the servers exactly by weight.
THEOREM ChosenByWeight ==
    ASSUME RoundRobinAssumption
    PROVE  Spec => []ByWeight
<1>1. Ind => ByWeight
  BY DEF Ind, IInv, CycleInv, Alone, ByWeight
<1> QED
  BY <1>1, Invariance, PTL

-----------------------------------------------------------------------------
(* The inductive invariant of the hash table.                              *)

\* The elements of a list, and that none is in it twice.
In(x, s) == \E i \in DOMAIN s : s[i] = x
Once(s) == \A i, j \in DOMAIN s : s[i] = s[j] => i = j
Precedes(s, x, y) == \E i, j \in DOMAIN s : i < j /\ s[i] = x /\ s[j] = y

Buckets == 0 .. Size - 1

\* A bucket without a sentinel is an empty one.
List(b) == IF bucket[b] = Nil THEN <<>> ELSE bucket[b]

Home(x) == Table!BucketOf(elt[x].name)

Element == [name : Names \union {<<>>}, hash : Nat, value : Values \union {Nil}]
Removal == [name : Names, todo : Seq(Elements)]

HashType ==
    /\ bucket \in [Buckets -> {Nil} \union Seq(Elements)]
    /\ keys \in Seq(Elements)
    /\ elt \in [Elements -> {Nil} \union Element]
    /\ leaked \subseteq Elements
    /\ removing \in {Nil} \union Removal
    /\ wild \in BOOLEAN

\* Allocated are the elements of the list of keys, and those that were lost.
Allocated ==
    /\ \A x \in Elements : elt[x] # Nil <=> In(x, keys) \/ x \in leaked
    /\ \A x \in leaked : ~ In(x, keys)

\* An element of the list of keys has a name and the hash of its name; it is once in
\* the list, and in the bucket of its name.
Filed ==
    /\ Once(keys)
    /\ length = Len(keys)
    /\ \A x \in Elements : In(x, keys) =>
          /\ elt[x].name \in Names
          /\ elt[x].hash = Table!HashKeyLc(elt[x].name)
          /\ In(x, List(Home(x)))

\* A bucket has each of its elements once, in the order of the list of keys.
Sorted ==
    \A b \in Buckets :
        /\ Once(List(b))
        /\ \A x \in Elements : In(x, List(b)) => In(x, keys) /\ Home(x) = b
        /\ \A x, y \in Elements : Precedes(List(b), x, y) => Precedes(keys, x, y)

\* A removal has yet to look at every element of its name.
Going ==
    removing # Nil =>
        LET b == Table!BucketOf(removing.name)
        IN  /\ bucket[b] # Nil
            /\ Once(removing.todo)
            /\ \A x \in Elements : In(x, removing.todo) => In(x, List(b))
            /\ \A x \in Elements : In(x, List(b)) /\ elt[x].name = removing.name => In(x, removing.todo)

HashInv == HashType /\ Allocated /\ Filed /\ Sorted /\ Going

-----------------------------------------------------------------------------
(* Lists.                                                                  *)

\* A walk along a list that looks for one of P ends at the first of them, or at 0.
First(s, P) ==
    LET F == {i \in 1 .. Len(s) : s[i] \in P}
    IN  IF F # {} THEN Table!Min(F) ELSE 0

IsFirst(s, P, i) == i \in DOMAIN s /\ s[i] \in P /\ \A j \in DOMAIN s : s[j] \in P => i <= j

LEMMA FirstOf ==
    ASSUME NEW S, NEW s \in Seq(S), NEW P
    PROVE  \/ First(s, P) = 0 /\ \A j \in DOMAIN s : s[j] \notin P
           \/ First(s, P) # 0 /\ IsFirst(s, P, First(s, P))
<1> DEFINE F == {i \in 1 .. Len(s) : s[i] \in P}
<1>1. DOMAIN s = 1 .. Len(s) /\ Len(s) \in Nat
  OBVIOUS
<1>2. First(s, P) = IF F # {} THEN Table!Min(F) ELSE 0
  BY DEF First
<1>3. CASE F = {}
  BY <1>1, <1>2, <1>3
<1>4. CASE F # {}
  <2>1. F \subseteq Nat
    BY <1>1
  <2>2. \E x \in F : \A y \in F : x <= y
    <3> HIDE DEF F
    <3> QED BY <1>4, <2>1, Least
  <2>3. First(s, P) \in F /\ \A j \in F : First(s, P) <= j
    <3> HIDE DEF F
    <3> QED BY <1>2, <1>4, <2>2 DEF Table!Min
  <2>4. 0 \notin F
    BY <1>1
  <2>5. IsFirst(s, P, First(s, P))
    <3>1. \A j \in DOMAIN s : s[j] \in P => j \in F
      BY <1>1
    <3>2. First(s, P) \in DOMAIN s /\ s[First(s, P)] \in P
      BY <1>1, <2>3
    <3> HIDE DEF F
    <3> QED BY <2>3, <3>1, <3>2 DEF IsFirst
  <2> QED
    BY <2>3, <2>4, <2>5
<1> QED
  BY <1>3, <1>4

\* A list with one element more.
LEMMA Appended ==
    ASSUME NEW S, NEW s \in Seq(S), NEW x \in S
    PROVE  LET t == Append(s, x)
           IN  /\ t \in Seq(S)
               /\ \A y : In(y, t) <=> In(y, s) \/ y = x
               /\ Once(s) /\ ~ In(x, s) => Once(t)
               /\ \A y, z : Precedes(t, y, z) <=> Precedes(s, y, z) \/ (In(y, s) /\ z = x)
<1> DEFINE t == Append(s, x)
<1>1. /\ t \in Seq(S) /\ DOMAIN t = 1 .. Len(s) + 1 /\ DOMAIN s = 1 .. Len(s) /\ Len(s) \in Nat
      /\ \A i \in 1 .. Len(s) : t[i] = s[i]
      /\ t[Len(s) + 1] = x
  OBVIOUS
<1> HIDE DEF t
<1>2. \A y : In(y, t) <=> In(y, s) \/ y = x
  BY <1>1 DEF In
<1>3. Once(s) /\ ~ In(x, s) => Once(t)
  BY <1>1 DEF In, Once
<1>4. \A y, z : Precedes(t, y, z) <=> Precedes(s, y, z) \/ (In(y, s) /\ z = x)
  BY <1>1 DEF In, Precedes
<1> QED
  BY <1>1, <1>2, <1>3, <1>4 DEF t

\* The second part of two.
LEMMA SecondPart ==
    ASSUME NEW S, NEW a \in Seq(S), NEW c \in Seq(S), NEW j \in 1 .. Len(c)
    PROVE  (a \o c)[Len(a) + j] = c[j]
OBVIOUS

\* A list without the element at a position.
LEMMA TakenAt ==
    ASSUME NEW S, NEW s \in Seq(S), NEW k \in DOMAIN s
    PROVE  LET t == Table!RemoveAt(s, k)
           IN  /\ t \in Seq(S)
               /\ Len(t) = Len(s) - 1
               /\ \A i \in 1 .. Len(s) - 1 : t[i] = IF i < k THEN s[i] ELSE s[i + 1]
<1> DEFINE a == SubSeq(s, 1, k - 1)
           c == SubSeq(s, k + 1, Len(s))
           t == a \o c
<1>1. k \in 1 .. Len(s) /\ Len(s) \in Nat
  OBVIOUS
<1>2. a \in Seq(S) /\ Len(a) = k - 1 /\ \A i \in 1 .. k - 1 : a[i] = s[i]
  BY <1>1
<1>3. c \in Seq(S) /\ Len(c) = Len(s) - k /\ \A i \in 1 .. Len(s) - k : c[i] = s[i + k]
  BY <1>1
<1> HIDE DEF a, c
<1>4. t \in Seq(S) /\ Len(t) = Len(s) - 1
  BY <1>1, <1>2, <1>3
<1>5. ASSUME NEW i \in 1 .. Len(s) - 1 PROVE t[i] = IF i < k THEN s[i] ELSE s[i + 1]
  <2>1. CASE i < k
    BY <1>1, <1>2, <1>3, <2>1
  <2>2. CASE ~ (i < k)
    <3> DEFINE j == i - (k - 1)
    <3>1. j \in 1 .. Len(s) - k /\ j + k = i + 1
      BY <1>1, <2>2
    <3>2. t[i] = c[j]
      <4>1. j \in 1 .. Len(c) /\ Len(a) + j = i
        BY <1>1, <1>2, <1>3, <3>1
      <4> HIDE DEF j
      <4>2. (a \o c)[Len(a) + j] = c[j]
        BY <1>2, <1>3, <4>1, SecondPart
      <4> QED BY <4>1, <4>2
    <3>3. c[j] = s[j + k]
      BY <1>3, <3>1
    <3> HIDE DEF j
    <3> QED
      BY <2>2, <3>1, <3>2, <3>3
  <2> QED
    BY <2>1, <2>2
<1> QED
  BY <1>4, <1>5 DEF Table!RemoveAt, a, c

\* RemoveFirst removes what is at some position, the first of it, or nothing.
LEMMA TakenFirst ==
    ASSUME NEW S, NEW s \in Seq(S), NEW x
    PROVE  /\ In(x, s) => /\ IsFirst(s, {x}, First(s, {x}))
                         /\ Table!RemoveFirst(s, x) = Table!RemoveAt(s, First(s, {x}))
           /\ ~ In(x, s) => Table!RemoveFirst(s, x) = s
<1>1. DOMAIN s = 1 .. Len(s) /\ Len(s) \in Nat
  OBVIOUS
<1>2. {i \in 1 .. Len(s) : s[i] = x} = {i \in 1 .. Len(s) : s[i] \in {x}}
  OBVIOUS
<1>3. Table!SelectInSeq(s, LAMBDA v : v = x) = First(s, {x})
  BY <1>2 DEF Table!SelectInSeq, First
<1>4. Table!RemoveFirst(s, x) =
          IF \E i \in 1 .. Len(s) : s[i] = x THEN Table!RemoveAt(s, First(s, {x})) ELSE s
  BY <1>3 DEF Table!RemoveFirst
<1>5. \/ \A j \in DOMAIN s : s[j] \notin {x}
      \/ IsFirst(s, {x}, First(s, {x}))
  BY FirstOf
<1> QED
  BY <1>1, <1>4, <1>5 DEF In

\* A list without an element that it has once.
LEMMA TakenOut ==
    ASSUME NEW S, NEW s \in Seq(S), NEW x, Once(s)
    PROVE  LET t == Table!RemoveFirst(s, x)
           IN  /\ t \in Seq(S) /\ Once(t)
               /\ Len(t) = IF In(x, s) THEN Len(s) - 1 ELSE Len(s)
               /\ \A y : In(y, t) <=> In(y, s) /\ y # x
               /\ \A y, z : Precedes(t, y, z) <=> Precedes(s, y, z) /\ y # x /\ z # x
<1> DEFINE t == Table!RemoveFirst(s, x)
<1>1. CASE ~ In(x, s)
  <2>1. t = s
    BY <1>1, TakenFirst
  <2>2. \A y, z : Precedes(s, y, z) => In(y, s) /\ In(z, s)
    BY DEF Precedes, In
  <2> QED
    BY <1>1, <2>1, <2>2
<1>2. CASE In(x, s)
  <2> DEFINE k == First(s, {x})
  <2>1. k \in DOMAIN s /\ s[k] = x /\ t = Table!RemoveAt(s, k)
    <3>1. IsFirst(s, {x}, k) /\ t = Table!RemoveAt(s, k)
      BY <1>2, TakenFirst
    <3> QED BY <3>1 DEF IsFirst
  <2> HIDE DEF k
  <2>2. /\ t \in Seq(S) /\ Len(t) = Len(s) - 1
        /\ \A i \in 1 .. Len(s) - 1 : t[i] = IF i < k THEN s[i] ELSE s[i + 1]
    BY <2>1, TakenAt
  <2>3. DOMAIN s = 1 .. Len(s) /\ DOMAIN t = 1 .. Len(s) - 1 /\ Len(s) \in Nat
    BY <2>2
  <2> HIDE DEF t
  <2> DEFINE At(i) == IF i < k THEN i ELSE i + 1
             From(i) == IF i < k THEN i ELSE i - 1
  <2>4. \A i \in DOMAIN t : At(i) \in DOMAIN s /\ At(i) # k /\ t[i] = s[At(i)]
    BY <2>1, <2>2, <2>3
  <2>5. \A i \in DOMAIN s : i # k => From(i) \in DOMAIN t /\ At(From(i)) = i
    BY <2>1, <2>3
  <2>6. \A i, j \in DOMAIN t : i < j <=> At(i) < At(j)
    BY <2>1, <2>3
  <2>7. \A i, j \in DOMAIN t : At(i) = At(j) => i = j
    BY <2>1, <2>3
  <2>8. \A i \in DOMAIN s : s[i] = x <=> i = k
    BY <2>1 DEF Once
  <2> HIDE DEF At, From
  <2>9. Once(t)
    BY <2>4, <2>7 DEF Once
  <2>10. \A y : In(y, t) <=> In(y, s) /\ y # x
    BY <2>4, <2>5, <2>8 DEF In
  <2>11. ASSUME NEW y, NEW z PROVE Precedes(t, y, z) <=> Precedes(s, y, z) /\ y # x /\ z # x
    <3>1. ASSUME Precedes(t, y, z) PROVE Precedes(s, y, z) /\ y # x /\ z # x
      BY <3>1, <2>4, <2>6, <2>8 DEF Precedes
    <3>2. ASSUME Precedes(s, y, z), y # x, z # x PROVE Precedes(t, y, z)
      <4>1. PICK i, j \in DOMAIN s : i < j /\ s[i] = y /\ s[j] = z
        BY <3>2 DEF Precedes
      <4>2. i # k /\ j # k
        BY <4>1, <3>2, <2>1
      <4>3. From(i) \in DOMAIN t /\ From(j) \in DOMAIN t /\ At(From(i)) = i /\ At(From(j)) = j
        BY <4>1, <4>2, <2>5
      <4>4. From(i) < From(j) /\ t[From(i)] = y /\ t[From(j)] = z
        BY <4>1, <4>3, <2>4, <2>6
      <4> QED
        BY <4>3, <4>4 DEF Precedes
    <3> QED
      BY <3>1, <3>2
  <2> QED
    BY <1>2, <2>2, <2>9, <2>10, <2>11 DEF t
<1> QED
  BY <1>1, <1>2

\* The rest of a list.
LEMMA TakenHead ==
    ASSUME NEW S, NEW s \in Seq(S), s # <<>>
    PROVE  /\ Head(s) \in S /\ Tail(s) \in Seq(S) /\ In(Head(s), s)
           /\ \A y : In(y, s) <=> In(y, Tail(s)) \/ y = Head(s)
           /\ Once(s) => Once(Tail(s)) /\ ~ In(Head(s), Tail(s))
<1> DEFINE t == Tail(s)
<1>1. /\ DOMAIN s = 1 .. Len(s) /\ Len(s) \in Nat \ {0} /\ Head(s) = s[1]
      /\ t \in Seq(S) /\ DOMAIN t = 1 .. Len(s) - 1
      /\ \A i \in 1 .. Len(s) - 1 : t[i] = s[i + 1]
  OBVIOUS
<1> HIDE DEF t
<1>2. Head(s) \in S /\ In(Head(s), s)
  BY <1>1 DEF In
<1>3. ASSUME NEW y PROVE In(y, s) <=> In(y, t) \/ y = Head(s)
  <2>1. ASSUME In(y, s), y # Head(s) PROVE In(y, t)
    <3>1. PICK i \in DOMAIN s : s[i] = y
      BY <2>1 DEF In
    <3>2. i # 1 /\ i - 1 \in DOMAIN t /\ t[i - 1] = y
      BY <1>1, <2>1, <3>1
    <3> QED BY <3>2 DEF In
  <2>2. ASSUME In(y, t) PROVE In(y, s)
    <3>1. PICK i \in DOMAIN t : t[i] = y
      BY <2>2 DEF In
    <3>2. i + 1 \in DOMAIN s /\ s[i + 1] = y
      BY <1>1, <3>1
    <3> QED BY <3>2 DEF In
  <2> QED
    BY <1>2, <2>1, <2>2
<1>4. ASSUME Once(s) PROVE Once(t) /\ ~ In(Head(s), t)
  <2>1. \A i \in DOMAIN t : i + 1 \in DOMAIN s /\ s[i + 1] = t[i] /\ i + 1 # 1 /\ i \in Nat
    BY <1>1
  <2>2. 1 \in DOMAIN s
    BY <1>1
  <2>3. ~ In(Head(s), t)
    BY <1>1, <1>4, <2>1, <2>2 DEF Once, In
  <2>4. \A i, j \in DOMAIN t : t[i] = t[j] => i + 1 = j + 1
    BY <1>4, <2>1 DEF Once
  <2>5. Once(t)
    BY <2>1, <2>4 DEF Once
  <2> QED
    BY <2>3, <2>5
<1> QED
  BY <1>1, <1>2, <1>3, <1>4 DEF t

-----------------------------------------------------------------------------
(* What the invariant says.                                                *)

LEMMA Homes ==
    ASSUME Table!HashAssumption, NEW n \in Names
    PROVE  Table!BucketOf(n) \in Buckets /\ Table!HashKeyLc(n) \in Nat
<1>1. Table!HashKeyLc(n) \in Nat /\ Size \in Nat \ {0}
  BY DEF Table!HashAssumption
<1>2. \A h \in Nat : h % Size \in Buckets
  BY <1>1 DEF Buckets
<1> QED
  BY <1>1, <1>2 DEF Table!BucketOf

LEMMA Lists ==
    ASSUME Table!HashAssumption, HashType
    PROVE  /\ \A b \in Buckets : List(b) \in Seq(Elements)
           /\ \A n \in Names : Table!Listed(n) = List(Table!BucketOf(n))
<1>1. <<>> \in Seq(Elements)
  OBVIOUS
<1> QED
  BY <1>1 DEF List, HashType, Table!Listed

\* An element of a list is an address.
LEMMA Addresses ==
    ASSUME NEW S, NEW s \in Seq(S), NEW x, In(x, s)
    PROVE  x \in S
BY DEF In

\* What is in the list of keys is allocated.
LEMMA Held ==
    ASSUME HashInv, NEW x \in Elements, In(x, keys)
    PROVE  elt[x] \in Element /\ elt[x].name \in Names
BY DEF HashInv, HashType, Allocated, Filed

\* Same looks at the hash and the name.
LEMMA SameName ==
    ASSUME HashInv, NEW x \in Elements, In(x, keys), NEW n
    PROVE  Table!Same(x, n) <=> elt[x].name = n
BY DEF HashInv, Filed, Table!Same

\* The finite sets of Hash are those of this module.
LEMMA SameSizes ==
    ASSUME NEW S
    PROVE  Table!Cardinality(S) = Cardinality(S) /\ (Table!IsFiniteSet(S) <=> IsFiniteSet(S))
BY DEF Table!Cardinality, Cardinality, Table!IsFiniteSet, IsFiniteSet

\* An injective sequence is not longer than the set of its elements.
LEMMA OnceLength ==
    ASSUME NEW S, IsFiniteSet(S), NEW s \in Seq(S), Once(s)
    PROVE  s \in Table!SeqOf(S, Cardinality(S)) /\ Len(s) <= Cardinality(S)
<1>1. s \in [1 .. Len(s) -> S] /\ Len(s) \in Nat /\ Cardinality(S) \in Nat
  BY FS_CardinalityType
<1>2. s \in Injection(1 .. Len(s), S)
  BY <1>1 DEF Injection, IsInjective, Once
<1>3. Cardinality(1 .. Len(s)) <= Cardinality(S)
  BY <1>2, FS_Injection
<1>4. Cardinality(1 .. Len(s)) = Len(s)
  <2>1. 1 \in Int /\ Len(s) \in Int
    BY <1>1
  <2>2. Cardinality(1 .. Len(s)) = IF 1 > Len(s) THEN 0 ELSE Len(s) - 1 + 1
    BY <2>1, FS_Interval, Zenon
  <2> QED BY <1>1, <2>2
<1>5. Len(s) \in 0 .. Cardinality(S)
  BY <1>1, <1>3, <1>4
<1> QED
  BY <1>1, <1>5 DEF Table!SeqOf

\* The type invariant of Hash.
LEMMA HashTypes ==
    ASSUME Table!HashAssumption, HashInv
    PROVE  Table!TypeOK
<1> USE DEF HashInv, HashType
<1>1. IsFiniteSet(Elements)
  BY SameSizes DEF Table!HashAssumption
<1>2. bucket \in [0 .. Size - 1 -> {Nil} \union Table!SeqOf(Elements, Cardinality(Elements))]
  <2>1. ASSUME NEW b \in Buckets, bucket[b] # Nil
        PROVE  bucket[b] \in Table!SeqOf(Elements, Cardinality(Elements))
    <3>1. bucket[b] \in Seq(Elements) /\ Once(bucket[b])
      BY <2>1 DEF Sorted, List
    <3> QED BY <1>1, <3>1, OnceLength
  <2> QED
    BY <2>1 DEF Buckets
<1>3. keys \in Table!SeqOf(Elements, Cardinality(Elements)) /\ length \in 0 .. Cardinality(Elements)
  <2>1. keys \in Seq(Elements) /\ Once(keys) /\ length = Len(keys)
    BY DEF Filed
  <2>2. Len(keys) \in Nat /\ Cardinality(Elements) \in Nat
    BY <2>1, <1>1, FS_CardinalityType
  <2> QED
    BY <1>1, <2>1, <2>2, OnceLength
<1>4. ASSUME NEW x \in Elements, elt[x] # Nil
      PROVE  elt[x].name \in Names \union {<<>>} /\ elt[x].value \in Values \union {Nil}
  BY <1>4 DEF Element
<1>5. removing # Nil => removing.name \in Names /\ Table!ToSet(removing.todo) \subseteq Elements
  BY DEF Removal, Table!ToSet
<1> QED
  BY <1>2, <1>3, <1>4, <1>5, SameSizes DEF Table!TypeOK

LEMMA HashAgrees ==
    ASSUME Table!HashAssumption, HashInv
    PROVE  Table!Agree
<1>1. DOMAIN bucket = Buckets /\ keys \in Seq(Elements) /\ leaked \subseteq Elements
  BY DEF HashInv, HashType
<1>2. \A b \in Buckets : List(b) \in Seq(Elements)
  BY Lists DEF HashInv
<1>3. \A x : x \in Table!ToSet(keys) <=> In(x, keys)
  BY DEF In, Table!ToSet
<1>4. ASSUME NEW x \in Elements
      PROVE  (\E b \in Buckets : bucket[b] # Nil /\ Table!Contains(bucket[b], x)) <=> In(x, keys)
  <2>1. ASSUME NEW b \in Buckets, bucket[b] # Nil, Table!Contains(bucket[b], x) PROVE In(x, keys)
    <3>1. In(x, List(b))
      BY <1>2, <2>1 DEF Table!Contains, List, In
    <3> QED BY <3>1 DEF HashInv, Sorted
  <2>2. ASSUME In(x, keys) PROVE \E b \in Buckets : bucket[b] # Nil /\ Table!Contains(bucket[b], x)
    <3>1. Home(x) \in Buckets /\ In(x, List(Home(x)))
      BY <2>2, Held, Homes DEF HashInv, Filed, Home
    <3>2. bucket[Home(x)] # Nil
      BY <3>1 DEF List, In
    <3>3. Table!Contains(bucket[Home(x)], x)
      BY <3>1, <3>2, <1>2 DEF List, In, Table!Contains
    <3> QED BY <3>1, <3>2, <3>3
  <2> QED
    BY <2>1, <2>2
<1>5. Table!InBuckets = Table!ToSet(keys)
  <2>1. \A x : In(x, keys) => x \in Elements
    BY <1>1, Addresses
  <2> QED
    BY <1>1, <1>3, <1>4, <2>1 DEF Table!InBuckets
<1>6. Table!IsInjective(keys)
  BY DEF HashInv, Filed, Once, Table!IsInjective
<1>7. ASSUME NEW b \in Buckets, bucket[b] # Nil
      PROVE  Table!IsInjective(bucket[b]) /\ \A x \in Table!ToSet(bucket[b]) : elt[x].hash % Size = b
  <2>1. List(b) = bucket[b] /\ bucket[b] \in Seq(Elements)
    BY <1>2, <1>7 DEF List
  <2>2. Table!IsInjective(bucket[b])
    BY <2>1 DEF HashInv, Sorted, Once, Table!IsInjective
  <2>3. ASSUME NEW x \in Table!ToSet(bucket[b]) PROVE elt[x].hash % Size = b
    <3>1. x \in Elements /\ In(x, List(b))
      BY <2>1 DEF Table!ToSet, In
    <3>2. In(x, keys) /\ Home(x) = b
      BY <3>1 DEF HashInv, Sorted
    <3> QED BY <3>1, <3>2 DEF HashInv, Filed, Home, Table!BucketOf
  <2> QED
    BY <2>2, <2>3
<1>8. {x \in Elements : elt[x] # Nil} = Table!ToSet(keys) \union leaked
  <2>1. \A x : In(x, keys) => x \in Elements
    BY <1>1, Addresses
  <2> QED
    BY <1>1, <1>3, <2>1 DEF HashInv, Allocated
<1>9. length = Len(keys)
  BY DEF HashInv, Filed
<1> QED
  BY <1>1, <1>5, <1>6, <1>7, <1>8, <1>9 DEF Table!Agree

\* Of the elements P of one bucket, the first in the bucket is the first in the list of
\* keys.
LEMMA SameFirst ==
    ASSUME HashInv, NEW b \in Buckets, List(b) \in Seq(Elements), NEW P,
           \A x \in P : In(x, keys) => In(x, List(b)),
           NEW i, IsFirst(List(b), P, i), NEW k, IsFirst(keys, P, k)
    PROVE  List(b)[i] = keys[k]
<1> DEFINE s == List(b)
<1>1. s \in Seq(Elements) /\ keys \in Seq(Elements)
  BY DEF HashInv, HashType
<1>2. DOMAIN s \subseteq Nat /\ DOMAIN keys \subseteq Nat
  BY <1>1
<1>3. /\ i \in DOMAIN s /\ s[i] \in P /\ \A j \in DOMAIN s : s[j] \in P => i <= j
      /\ k \in DOMAIN keys /\ keys[k] \in P /\ \A l \in DOMAIN keys : keys[l] \in P => k <= l
  BY DEF IsFirst
<1>4. PICK j \in DOMAIN s : s[j] = keys[k]
  BY <1>3 DEF In
<1>5. SUFFICES ASSUME i # j PROVE FALSE
  BY <1>4
<1>6. i < j
  BY <1>2, <1>3, <1>4, <1>5
<1>7. Precedes(s, s[i], keys[k])
  BY <1>3, <1>4, <1>6 DEF Precedes
<1>8. s[i] \in Elements /\ keys[k] \in Elements
  BY <1>1, <1>3
<1>9. Precedes(keys, s[i], keys[k])
  BY <1>7, <1>8 DEF HashInv, Sorted
<1>10. PICK l, m \in DOMAIN keys : l < m /\ keys[l] = s[i] /\ keys[m] = keys[k]
  BY <1>9 DEF Precedes
<1>11. m = k
  BY <1>3, <1>10 DEF HashInv, Filed, Once
<1>12. k <= l
  BY <1>3, <1>10
<1> QED
  BY <1>2, <1>10, <1>11, <1>12

\* The first of the elements P, whether one walks along their bucket or along the list
\* of keys.
LEMMA FirstFound ==
    ASSUME HashInv, NEW b \in Buckets, List(b) \in Seq(Elements), NEW P,
           \A x \in Elements : x \in P => (In(x, keys) <=> In(x, List(b)))
    PROVE  \/ First(List(b), P) = 0 /\ First(keys, P) = 0 /\ \A l \in DOMAIN keys : keys[l] \notin P
           \/ /\ First(List(b), P) # 0 /\ First(keys, P) # 0
              /\ IsFirst(List(b), P, First(List(b), P)) /\ IsFirst(keys, P, First(keys, P))
              /\ List(b)[First(List(b), P)] = keys[First(keys, P)]
<1> DEFINE i == First(List(b), P)
           k == First(keys, P)
<1>1. keys \in Seq(Elements)
  BY DEF HashInv, HashType
<1>2. (i = 0 /\ \A j \in DOMAIN List(b) : List(b)[j] \notin P) \/ (i # 0 /\ IsFirst(List(b), P, i))
  BY FirstOf
<1>3. (k = 0 /\ \A j \in DOMAIN keys : keys[j] \notin P) \/ (k # 0 /\ IsFirst(keys, P, k))
  BY <1>1, FirstOf
<1>4. /\ \A j \in DOMAIN List(b) : List(b)[j] \in Elements
      /\ \A j \in DOMAIN keys : keys[j] \in Elements
  BY <1>1
<1> HIDE DEF i, k
<1>5. CASE i = 0
  <2>1. ASSUME IsFirst(keys, P, k) PROVE FALSE
    <3>1. keys[k] \in Elements /\ keys[k] \in P /\ In(keys[k], keys)
      BY <1>4, <2>1 DEF IsFirst, In
    <3>2. In(keys[k], List(b))
      BY <3>1
    <3> QED BY <1>2, <1>5, <3>1, <3>2 DEF In
  <2> QED
    BY <1>3, <1>5, <2>1 DEF i, k
<1>6. CASE i # 0
  <2>1. IsFirst(List(b), P, i)
    BY <1>2, <1>6
  <2>2. List(b)[i] \in Elements /\ List(b)[i] \in P /\ In(List(b)[i], List(b))
    BY <1>4, <2>1 DEF IsFirst, In
  <2>3. In(List(b)[i], keys)
    BY <2>2
  <2>4. k # 0 /\ IsFirst(keys, P, k)
    BY <1>3, <2>2, <2>3 DEF In
  <2>5. \A x \in P : In(x, keys) => In(x, List(b))
    BY <1>1, Addresses
  <2>6. List(b)[i] = keys[k]
    BY <2>1, <2>4, <2>5, SameFirst
  <2> QED
    BY <1>6, <2>1, <2>4, <2>6 DEF i, k
<1> QED
  BY <1>5, <1>6

Named(n) == {x \in Elements : elt[x].name = n}

\* The walk of Place along the bucket, and one along the list of keys.
LEMMA FirstOfName ==
    ASSUME Table!HashAssumption, HashInv, NEW n \in Names
    PROVE  LET b == Table!BucketOf(n)
           IN  /\ b \in Buckets /\ Table!Listed(n) = List(b) /\ List(b) \in Seq(Elements)
               /\ Table!Place(n) = First(List(b), Named(n))
               /\ Table!SelectInSeq(keys, LAMBDA x : elt[x].name = n) = First(keys, Named(n))
               /\ \A x \in Elements : x \in Named(n) => (In(x, keys) <=> In(x, List(b)))
<1> DEFINE b == Table!BucketOf(n)
<1>1. b \in Buckets /\ Table!Listed(n) = List(b) /\ List(b) \in Seq(Elements) /\ keys \in Seq(Elements)
  BY Homes, Lists DEF HashInv, HashType
<1>2. \A x \in Elements : x \in Named(n) => (In(x, keys) <=> In(x, List(b)))
  BY <1>1 DEF HashInv, Filed, Sorted, Home, Named
<1>3. Table!Place(n) = First(List(b), Named(n))
  <2>1. ASSUME NEW j \in 1 .. Len(List(b))
        PROVE  Table!Same(List(b)[j], n) <=> List(b)[j] \in Named(n)
    <3>1. List(b)[j] \in Elements /\ In(List(b)[j], List(b))
      BY <1>1 DEF In
    <3>2. In(List(b)[j], keys)
      BY <3>1, <1>1 DEF HashInv, Sorted
    <3> QED BY <3>1, <3>2, SameName DEF Named
  <2>2. {j \in 1 .. Len(List(b)) : Table!Same(List(b)[j], n)}
            = {j \in 1 .. Len(List(b)) : List(b)[j] \in Named(n)}
    BY <2>1
  <2> QED
    BY <1>1, <2>2 DEF Table!Place, Table!SelectInSeq, First
<1>4. Table!SelectInSeq(keys, LAMBDA x : elt[x].name = n) = First(keys, Named(n))
  <2>1. \A j \in 1 .. Len(keys) : elt[keys[j]].name = n <=> keys[j] \in Named(n)
    BY <1>1 DEF Named
  <2>2. {j \in 1 .. Len(keys) : elt[keys[j]].name = n} = {j \in 1 .. Len(keys) : keys[j] \in Named(n)}
    BY <2>1
  <2> QED
    BY <2>2 DEF Table!SelectInSeq, First
<1> QED
  BY <1>1, <1>2, <1>3, <1>4

LEMMA HashFinds ==
    ASSUME Table!HashAssumption, HashInv
    PROVE  Table!FindsFirst
<1> SUFFICES ASSUME NEW n \in Names
             PROVE  LET k == Table!SelectInSeq(keys, LAMBDA x : elt[x].name = n)
                    IN  Table!Find(n) = IF k = 0 THEN Nil ELSE elt[keys[k]].value
  BY DEF Table!FindsFirst
<1> DEFINE b == Table!BucketOf(n)
<1>1. /\ b \in Buckets /\ Table!Listed(n) = List(b) /\ List(b) \in Seq(Elements)
      /\ Table!Place(n) = First(List(b), Named(n))
      /\ Table!SelectInSeq(keys, LAMBDA x : elt[x].name = n) = First(keys, Named(n))
      /\ \A x \in Elements : x \in Named(n) => (In(x, keys) <=> In(x, List(b)))
  BY FirstOfName
<1> HIDE DEF b
<1>2. \/ First(List(b), Named(n)) = 0 /\ First(keys, Named(n)) = 0
      \/ /\ First(List(b), Named(n)) # 0 /\ First(keys, Named(n)) # 0
         /\ List(b)[First(List(b), Named(n))] = keys[First(keys, Named(n))]
  BY <1>1, FirstFound
<1> QED
  BY <1>1, <1>2 DEF Table!Find
-----------------------------------------------------------------------------
(* The steps.                                                              *)

LEMMA HashInitInv ==
    ASSUME Table!HashAssumption, Table!Init
    PROVE  HashInv
<1> USE DEF Table!Init
<1>1. HashType
  <2>1. <<>> \in Seq(Elements)
    OBVIOUS
  <2>2. bucket \in [Buckets -> {Nil} \union Seq(Elements)]
    BY DEF Buckets
  <2>3. elt \in [Elements -> {Nil} \union Element]
    OBVIOUS
  <2> QED BY <2>1, <2>2, <2>3 DEF HashType
<1>2. \A b \in Buckets : List(b) = <<>>
  BY DEF List, Buckets
<1>3. \A x : ~ In(x, <<>>)
  BY DEF In
<1>4. Allocated
  BY <1>3 DEF Allocated
<1>5. Filed
  BY <1>3 DEF Filed, Once
<1>6. Sorted
  BY <1>2, <1>3 DEF Sorted, Once, Precedes
<1>7. Going
  BY DEF Going
<1> QED
  BY <1>1, <1>4, <1>5, <1>6, <1>7 DEF HashInv

\* An element comes to the end of the list of keys and of the bucket of its name.
LEMMA Added ==
    ASSUME Table!HashAssumption, HashInv,
           NEW n \in Names, NEW x \in Elements, elt[x] = Nil,
           elt' \in [Elements -> {Nil} \union Element], elt'[x] # Nil,
           elt'[x].name = n, elt'[x].hash = Table!HashKeyLc(n),
           \A y \in Elements : y # x => elt'[y] = elt[y],
           keys' = Append(keys, x), length' = length + 1, leaked' = leaked,
           \A b \in Buckets :
               List(b)' = IF b = Table!BucketOf(n) THEN Append(List(b), x) ELSE List(b)
    PROVE  Allocated' /\ Filed' /\ Sorted'
<1>1. /\ keys \in Seq(Elements) /\ \A b \in Buckets : List(b) \in Seq(Elements)
      /\ Table!BucketOf(n) \in Buckets
  BY Lists, Homes DEF HashInv, HashType
<1>2. ~ In(x, keys) /\ x \notin leaked
  BY DEF HashInv, Allocated
<1>3. /\ \A y : In(y, keys') <=> In(y, keys) \/ y = x
      /\ Once(keys')
      /\ \A y, z : Precedes(keys', y, z) <=> Precedes(keys, y, z) \/ (In(y, keys) /\ z = x)
      /\ Len(keys') = Len(keys) + 1
  BY <1>1, <1>2, Appended DEF HashInv, Filed
<1>4. ASSUME NEW b \in Buckets
      PROVE  /\ \A y : In(y, List(b)') <=> In(y, List(b)) \/ (b = Table!BucketOf(n) /\ y = x)
             /\ Once(List(b)')
             /\ \A y, z \in Elements : Precedes(List(b)', y, z) => Precedes(keys', y, z)
  <2>1. /\ Once(List(b)) /\ ~ In(x, List(b)) /\ \A y \in Elements : In(y, List(b)) => In(y, keys)
        /\ \A y, z \in Elements : Precedes(List(b), y, z) => Precedes(keys, y, z)
    BY <1>2 DEF HashInv, Sorted
  <2>2. CASE b = Table!BucketOf(n)
    <3> DEFINE s == List(b)
               t == Append(s, x)
    <3>1. List(b)' = t /\ s \in Seq(Elements)
      BY <1>1, <2>2
    <3>2. /\ \A y : In(y, t) <=> In(y, s) \/ y = x
          /\ Once(t)
          /\ \A y, z : Precedes(t, y, z) <=> Precedes(s, y, z) \/ (In(y, s) /\ z = x)
      BY <2>1, <3>1, Appended
    <3> HIDE DEF t
    <3> QED BY <1>3, <2>1, <2>2, <3>1, <3>2
  <2>3. CASE b # Table!BucketOf(n)
    BY <1>3, <2>1, <2>3
  <2> QED
    BY <2>2, <2>3
<1>5. \A y \in Elements : In(y, keys) => elt'[y] = elt[y] /\ elt'[y] # Nil
  BY <1>2 DEF HashInv, Allocated
<1>6. Allocated'
  BY <1>2, <1>3, <1>5 DEF HashInv, Allocated
<1>7. Filed'
  <2>1. ASSUME NEW y \in Elements, In(y, keys')
        PROVE  elt'[y].name \in Names /\ elt'[y].hash = Table!HashKeyLc(elt'[y].name)
               /\ In(y, List(Home(y))')
    <3>1. CASE y = x
      <4>1. Home(y)' = Table!BucketOf(n)
        BY <3>1 DEF Home
      <4> QED BY <1>1, <1>4, <3>1, <4>1
    <3>2. CASE y # x
      <4>1. In(y, keys) /\ Home(y)' = Home(y) /\ Home(y) \in Buckets
        BY <1>3, <1>5, <2>1, <3>2, Held, Homes DEF Home
      <4> QED BY <1>4, <1>5, <4>1 DEF HashInv, Filed
    <3> QED BY <3>1, <3>2
  <2>2. length' = Len(keys')
    BY <1>3 DEF HashInv, Filed
  <2> QED
    BY <1>3, <2>1, <2>2 DEF Filed
<1>8. Sorted'
  <2>1. ASSUME NEW b \in Buckets, NEW y \in Elements, In(y, List(b)')
        PROVE  In(y, keys') /\ Home(y)' = b
    <3>1. CASE y = x /\ b = Table!BucketOf(n)
      BY <1>3, <3>1 DEF Home
    <3>2. CASE In(y, List(b))
      <4>1. In(y, keys) /\ Home(y) = b
        BY <3>2 DEF HashInv, Sorted
      <4> QED BY <1>3, <1>5, <4>1 DEF Home
    <3> QED BY <1>4, <2>1, <3>1, <3>2
  <2> QED
    BY <1>4, <2>1 DEF Sorted
<1> QED
  BY <1>6, <1>7, <1>8

\* An element, if it is in the list of keys, leaves it, its bucket and the memory.
LEMMA Removed ==
    ASSUME Table!HashAssumption, HashInv, NEW x,
           elt' \in [Elements -> {Nil} \union Element],
           \A y \in Elements : elt'[y] = IF y = x THEN Nil ELSE elt[y],
           x \in Elements => In(x, keys),
           keys' = Table!RemoveFirst(keys, x), leaked' = leaked,
           length' = IF In(x, keys) THEN length - 1 ELSE length,
           \A b \in Buckets : List(b)' = Table!RemoveFirst(List(b), x)
    PROVE  Allocated' /\ Filed' /\ Sorted'
<1>1. /\ keys \in Seq(Elements) /\ \A b \in Buckets : List(b) \in Seq(Elements)
      /\ Once(keys) /\ \A b \in Buckets : Once(List(b))
  BY Lists DEF HashInv, HashType, Filed, Sorted
<1>2. /\ \A y : In(y, keys') <=> In(y, keys) /\ y # x
      /\ Once(keys')
      /\ \A y, z : Precedes(keys', y, z) <=> Precedes(keys, y, z) /\ y # x /\ z # x
      /\ Len(keys') = IF In(x, keys) THEN Len(keys) - 1 ELSE Len(keys)
  BY <1>1, TakenOut
<1>3. ASSUME NEW b \in Buckets
      PROVE  /\ \A y : In(y, List(b)') <=> In(y, List(b)) /\ y # x
             /\ Once(List(b)')
             /\ \A y, z : Precedes(List(b)', y, z) <=> Precedes(List(b), y, z) /\ y # x /\ z # x
  BY <1>1, TakenOut
<1>4. \A y \in Elements : y # x => elt'[y] = elt[y] /\ Home(y)' = Home(y)
  BY DEF Home
<1>5. Allocated'
  BY <1>2 DEF HashInv, Allocated
<1>6. Filed'
  <2>1. ASSUME NEW y \in Elements, In(y, keys')
        PROVE  elt'[y].name \in Names /\ elt'[y].hash = Table!HashKeyLc(elt'[y].name)
               /\ In(y, List(Home(y))')
    <3>1. In(y, keys) /\ y # x /\ Home(y)' = Home(y) /\ Home(y) \in Buckets
      BY <1>2, <1>4, <2>1, Held, Homes DEF Home
    <3>2. In(y, List(Home(y)))
      BY <3>1 DEF HashInv, Filed
    <3> QED BY <1>3, <1>4, <3>1, <3>2 DEF HashInv, Filed
  <2>2. length' = Len(keys')
    BY <1>2 DEF HashInv, Filed
  <2> QED
    BY <1>2, <2>1, <2>2 DEF Filed
<1>7. Sorted'
  BY <1>2, <1>3, <1>4 DEF HashInv, Sorted
<1> QED
  BY <1>5, <1>6, <1>7

LEMMA InsertReplacesInv ==
    ASSUME Table!HashAssumption, HashInv, NEW n \in Names, NEW v \in Values,
           Table!InsertReplaces(n, v)
    PROVE  HashInv'
<1> DEFINE b == Table!BucketOf(n)
           x == List(b)[Table!Place(n)]
<1>1. /\ b \in Buckets /\ Table!Listed(n) = List(b) /\ List(b) \in Seq(Elements)
      /\ Table!Place(n) = First(List(b), Named(n))
  BY FirstOfName
<1>2. /\ Table!Place(n) # 0 /\ elt' = [elt EXCEPT ![x].value = v]
      /\ UNCHANGED <<bucket, keys, length, leaked, removing, wild>>
      /\ removing = Nil
  BY <1>1 DEF Table!InsertReplaces, Table!Idle
<1>3. x \in Elements /\ In(x, List(b))
  <2>1. IsFirst(List(b), Named(n), Table!Place(n))
    BY <1>1, <1>2, FirstOf
  <2> QED
    BY <1>1, <2>1 DEF IsFirst, In
<1> HIDE DEF x
<1>4. In(x, keys)
  BY <1>1, <1>3 DEF HashInv, Sorted
<1>5. elt[x] \in Element
  BY <1>3, <1>4, Held
<1>6. HashType'
  BY <1>2, <1>3, <1>5 DEF HashInv, HashType, Element
<1>7. \A y \in Elements : /\ elt'[y] # Nil <=> elt[y] # Nil
                          /\ In(y, keys) => elt'[y].name = elt[y].name /\ elt'[y].hash = elt[y].hash
  <2>1. elt'[x] \in Element /\ elt'[x].name = elt[x].name /\ elt'[x].hash = elt[x].hash
    BY <1>2, <1>3, <1>5 DEF HashInv, HashType, Element
  <2>2. Nil \notin Element
    BY DEF Table!HashAssumption, Element
  <2>3. \A y \in Elements : y # x => elt'[y] = elt[y]
    BY <1>2 DEF HashInv, HashType
  <2> QED
    BY <1>5, <2>1, <2>2, <2>3
<1>8. \A c : List(c)' = List(c)
  BY <1>2 DEF List
<1>9. Allocated'
  BY <1>2, <1>7 DEF HashInv, Allocated
<1>10. Filed'
  BY <1>2, <1>7, <1>8 DEF HashInv, Filed, Home
<1>11. Sorted'
  <2>1. \A y \in Elements : In(y, keys) => Home(y)' = Home(y)
    BY <1>7 DEF Home
  <2> QED
    BY <1>2, <1>8, <2>1 DEF HashInv, Sorted
<1>12. Going'
  BY <1>2 DEF Going
<1> QED
  BY <1>6, <1>9, <1>10, <1>11, <1>12 DEF HashInv

LEMMA InsertNewInv ==
    ASSUME Table!HashAssumption, HashInv, NEW n \in Names, NEW v \in Values,
           NEW r \in BOOLEAN, Table!InsertNew(n, v, r)
    PROVE  HashInv'
<1> DEFINE b == Table!BucketOf(n)
<1>1. PICK x \in Elements :
          /\ elt[x] = Nil
          /\ elt' = [elt EXCEPT ![x] = [name |-> n, hash |-> Table!HashKeyLc(n), value |-> v]]
          /\ bucket' = [bucket EXCEPT ![b] = Append(Table!Listed(n), x)]
          /\ keys' = Append(keys, x)
  BY DEF Table!InsertNew
<1>2. length' = length + 1 /\ UNCHANGED <<leaked, removing, wild>> /\ removing = Nil
  BY DEF Table!InsertNew, Table!Idle
<1>3. /\ b \in Buckets /\ Table!Listed(n) = List(b) /\ List(b) \in Seq(Elements)
      /\ Table!HashKeyLc(n) \in Nat
  BY Homes, Lists DEF HashInv
<1> HIDE DEF b
<1> DEFINE R == [name |-> n, hash |-> Table!HashKeyLc(n), value |-> v]
<1>4. R \in Element /\ R # Nil
  BY <1>3 DEF Element, Table!HashAssumption
<1>5. /\ elt' \in [Elements -> {Nil} \union Element] /\ elt'[x] = R
      /\ \A y \in Elements : y # x => elt'[y] = elt[y]
  BY <1>1, <1>4 DEF HashInv, HashType
<1>6. Append(List(b), x) \in Seq(Elements) /\ Append(keys, x) \in Seq(Elements)
  BY <1>3 DEF HashInv, HashType
<1>7. Append(List(b), x) # Nil
  BY <1>6 DEF Table!HashAssumption
<1>8. HashType'
  BY <1>1, <1>2, <1>3, <1>5, <1>6 DEF HashInv, HashType
<1>9. \A c \in Buckets : List(c)' = IF c = b THEN Append(List(b), x) ELSE List(c)
  BY <1>1, <1>3, <1>7 DEF List, HashInv, HashType
<1>10. Allocated' /\ Filed' /\ Sorted'
  BY <1>1, <1>2, <1>4, <1>5, <1>9, Added DEF b
<1>11. Going'
  BY <1>2 DEF Going
<1> QED
  BY <1>8, <1>10, <1>11 DEF HashInv

LEMMA SentinelInv ==
    ASSUME Table!HashAssumption, HashInv, NEW n \in Names,
           bucket' \in {bucket, Table!WithSentinel(n)}
    PROVE  bucket' \in [Buckets -> {Nil} \union Seq(Elements)] /\ \A b \in Buckets : List(b)' = List(b)
<1>1. /\ Table!BucketOf(n) \in Buckets /\ Table!Listed(n) = List(Table!BucketOf(n))
      /\ List(Table!BucketOf(n)) \in Seq(Elements)
  BY Homes, Lists DEF HashInv
<1>2. CASE bucket' = bucket
  BY <1>2 DEF HashInv, HashType, List
<1>3. CASE bucket' = [bucket EXCEPT ![Table!BucketOf(n)] = List(Table!BucketOf(n))]
  BY <1>1, <1>3 DEF HashInv, HashType, List
<1> QED
  BY <1>1, <1>2, <1>3 DEF Table!WithSentinel

\* The lists stay as they are, and what the elements in them hold.
LEMMA SameListsInv ==
    ASSUME Table!HashAssumption, HashInv,
           \A b \in Buckets : List(b)' = List(b),
           UNCHANGED <<keys, length>>,
           \A x \in Elements : In(x, keys) => elt'[x] = elt[x]
    PROVE  Filed' /\ Sorted'
<1>1. \A x \in Elements : In(x, keys) => Home(x) \in Buckets /\ Home(x)' = Home(x)
  BY Held, Homes DEF Home
<1>2. Filed'
  BY <1>1 DEF HashInv, Filed
<1>3. Sorted'
  BY <1>1 DEF HashInv, Sorted
<1> QED
  BY <1>2, <1>3

LEMMA InsertFailsInv ==
    ASSUME Table!HashAssumption, HashInv, NEW n \in Names, Table!InsertFails(n)
    PROVE  HashInv'
<1>1. /\ bucket' \in {bucket, Table!WithSentinel(n)} /\ removing = Nil
      /\ UNCHANGED <<keys, elt, length, leaked, removing, wild>>
  BY DEF Table!InsertFails, Table!Idle
<1>2. bucket' \in [Buckets -> {Nil} \union Seq(Elements)] /\ \A b \in Buckets : List(b)' = List(b)
  BY <1>1, SentinelInv
<1>3. HashType' /\ Allocated' /\ Going'
  BY <1>1, <1>2 DEF HashInv, HashType, Allocated, Going
<1>4. Filed' /\ Sorted'
  BY <1>1, <1>2, SameListsInv
<1> QED
  BY <1>3, <1>4 DEF HashInv

LEMMA InsertLeaksInv ==
    ASSUME Table!HashAssumption, HashInv, NEW n \in Names, Table!InsertLeaks(n)
    PROVE  HashInv'
<1> DEFINE R == [name |-> <<>>, hash |-> 0, value |-> Nil]
<1>1. /\ bucket' = Table!WithSentinel(n) /\ removing = Nil
      /\ UNCHANGED <<keys, length, removing, wild>>
  BY DEF Table!InsertLeaks, Table!Idle
<1>2. PICK x \in Elements : elt[x] = Nil /\ elt' = [elt EXCEPT ![x] = R] /\ leaked' = leaked \union {x}
  BY DEF Table!InsertLeaks
<1>3. bucket' \in [Buckets -> {Nil} \union Seq(Elements)] /\ \A b \in Buckets : List(b)' = List(b)
  BY <1>1, SentinelInv
<1>4. R \in Element /\ R # Nil
  BY DEF Element, Table!HashAssumption
<1> HIDE DEF R
<1>5. /\ elt' \in [Elements -> {Nil} \union Element] /\ elt'[x] = R
      /\ \A y \in Elements : y # x => elt'[y] = elt[y]
  BY <1>2, <1>4 DEF HashInv, HashType
<1>6. HashType'
  BY <1>1, <1>2, <1>3, <1>5 DEF HashInv, HashType
<1>7. ~ In(x, keys)
  BY <1>2 DEF HashInv, Allocated
<1>8. Allocated'
  BY <1>1, <1>2, <1>4, <1>5, <1>7 DEF HashInv, Allocated
<1>9. Filed' /\ Sorted'
  BY <1>1, <1>3, <1>5, <1>7, SameListsInv
<1>10. Going'
  BY <1>1 DEF Going
<1> QED
  BY <1>6, <1>8, <1>9, <1>10 DEF HashInv

LEMMA RemoveStartInv ==
    ASSUME Table!HashAssumption, HashInv, NEW n \in Names, Table!RemoveStart(n)
    PROVE  HashInv'
<1> DEFINE b == Table!BucketOf(n)
           R == [name |-> n, todo |-> bucket[b]]
<1>1. bucket[b] # Nil /\ removing' = R /\ UNCHANGED <<bucket, keys, elt, length, leaked, wild>>
  BY DEF Table!RemoveStart
<1>2. b \in Buckets /\ bucket[b] \in Seq(Elements) /\ List(b) = bucket[b]
  BY <1>1, Homes DEF HashInv, HashType, List
<1>3. R \in Removal /\ R.name = n /\ R.todo = bucket[b]
  BY <1>2 DEF Removal
<1>4. HashType'
  BY <1>1, <1>3 DEF HashInv, HashType
<1>5. Allocated' /\ Filed' /\ Sorted'
  <2>1. \A c \in Buckets : List(c)' = List(c)
    BY <1>1 DEF List
  <2>2. Allocated'
    BY <1>1 DEF HashInv, Allocated
  <2> QED
    BY <1>1, <2>1, <2>2, SameListsInv
<1>6. Going'
  <2>1. List(b)' = bucket[b] /\ Once(bucket[b])
    BY <1>1, <1>2 DEF List, HashInv, Sorted
  <2>2. removing'.name = n /\ removing'.todo = bucket[b] /\ bucket'[b] # Nil
    BY <1>1, <1>3
  <2> HIDE DEF R
  <2> QED
    BY <2>1, <2>2 DEF Going
<1> QED
  BY <1>4, <1>5, <1>6 DEF HashInv

\* Taking an element out of the one list that may have it takes it out of every list.
LEMMA OutOfLists ==
    ASSUME Table!HashAssumption, HashInv, NEW b \in Buckets, bucket[b] # Nil,
           NEW x, x \in Elements => In(x, List(b)), NEW t,
           t = Table!RemoveFirst(bucket[b], x) \/ (t = Nil /\ Table!RemoveFirst(bucket[b], x) = <<>>),
           bucket' = [bucket EXCEPT ![b] = t]
    PROVE  /\ bucket' \in [Buckets -> {Nil} \union Seq(Elements)]
           /\ \A c \in Buckets : List(c)' = Table!RemoveFirst(List(c), x)
           /\ List(b) = bucket[b]
<1>1. bucket[b] \in Seq(Elements) /\ List(b) = bucket[b] /\ Once(bucket[b])
  BY DEF HashInv, HashType, List, Sorted
<1>2. Table!RemoveFirst(bucket[b], x) \in Seq(Elements)
  BY <1>1, TakenOut
<1>3. Table!RemoveFirst(bucket[b], x) # Nil /\ t \in {Nil} \union Seq(Elements)
  BY <1>2 DEF Table!HashAssumption
<1>4. bucket' \in [Buckets -> {Nil} \union Seq(Elements)] /\ bucket'[b] = t
  BY <1>3 DEF HashInv, HashType
<1>5. List(b)' = Table!RemoveFirst(List(b), x)
  BY <1>1, <1>3, <1>4 DEF List
<1>6. ASSUME NEW c \in Buckets, c # b PROVE List(c)' = Table!RemoveFirst(List(c), x)
  <2>1. List(c)' = List(c)
    BY <1>6 DEF List, HashInv, HashType
  <2>2. List(c) \in Seq(Elements)
    BY Lists DEF HashInv
  <2>3. ~ In(x, List(c))
    <3>1. SUFFICES ASSUME In(x, List(c)) PROVE FALSE
      OBVIOUS
    <3>2. x \in Elements
      BY <2>2, <3>1, Addresses
    <3>3. Home(x) = b /\ Home(x) = c
      BY <3>1, <3>2 DEF HashInv, Sorted
    <3> QED BY <1>6, <3>3
  <2> QED
    BY <2>1, <2>2, <2>3, TakenFirst
<1> QED
  BY <1>1, <1>4, <1>5, <1>6

LEMMA VisitInv ==
    ASSUME Table!HashAssumption, HashInv, Table!Visit
    PROVE  HashInv'
<1>0. PICK n, s, b, x : n = removing.name /\ s = removing.todo /\ b = Table!BucketOf(n) /\ x = Head(s)
  OBVIOUS
<1>1. removing # Nil /\ removing \in Removal /\ n \in Names /\ s \in Seq(Elements) /\ s # <<>>
  BY <1>0 DEF Table!Visit, HashInv, HashType, Removal
<1>2. /\ removing' = [removing EXCEPT !.todo = Tail(s)]
      /\ leaked' = leaked
  BY <1>0 DEF Table!Visit, Table!GoOn
<1>3. removing' \in Removal /\ removing'.name = n /\ removing'.todo = Tail(s)
  BY <1>0, <1>1, <1>2, TakenHead DEF Removal
<1>4. /\ bucket[b] # Nil /\ Once(s) /\ b \in Buckets
      /\ \A y \in Elements : In(y, s) => In(y, List(b))
      /\ \A y \in Elements : In(y, List(b)) /\ elt[y].name = n => In(y, s)
  BY <1>0, <1>1, Homes DEF HashInv, Going
<1>5. /\ x \in Elements /\ In(x, s) /\ Once(Tail(s)) /\ ~ In(x, Tail(s))
      /\ \A y : In(y, s) <=> In(y, Tail(s)) \/ y = x
  BY <1>0, <1>1, <1>4, TakenHead
<1>6. In(x, List(b)) /\ In(x, keys)
  BY <1>4, <1>5 DEF HashInv, Sorted
<1>7. CASE Table!Same(x, n)
  <2>1. /\ bucket' = [bucket EXCEPT ![b] = Table!RemoveFirst(@, x)]
        /\ keys' = Table!RemoveFirst(keys, x)
        /\ elt' = [elt EXCEPT ![x] = Nil]
        /\ length' = length - 1
        /\ wild' \in BOOLEAN
    BY <1>0, <1>7 DEF Table!Visit
  <2>2. /\ elt' \in [Elements -> {Nil} \union Element]
        /\ \A y \in Elements : elt'[y] = IF y = x THEN Nil ELSE elt[y]
    BY <1>5, <2>1 DEF HashInv, HashType
  <2>3. bucket' = [bucket EXCEPT ![b] = Table!RemoveFirst(bucket[b], x)]
    BY <2>1
  <2>4. /\ bucket' \in [Buckets -> {Nil} \union Seq(Elements)]
        /\ \A c \in Buckets : List(c)' = Table!RemoveFirst(List(c), x)
        /\ List(b) = bucket[b]
    BY <1>4, <1>6, <2>3, OutOfLists
  <2>5. keys \in Seq(Elements) /\ Once(keys) /\ Once(List(b)) /\ List(b) \in Seq(Elements)
    BY <1>4, Lists DEF HashInv, HashType, Filed, Sorted
  <2>6. keys' \in Seq(Elements)
    BY <2>1, <2>5, TakenOut
  <2>7. HashType'
    BY <1>2, <1>3, <2>1, <2>2, <2>4, <2>6 DEF HashInv, HashType
  <2>8. Allocated' /\ Filed' /\ Sorted'
    BY <1>2, <1>6, <2>1, <2>2, <2>4, Removed
  <2>9. Going'
    <3>1. \A y : In(y, List(b)') <=> In(y, List(b)) /\ y # x
      BY <1>4, <2>4, <2>5, TakenOut
    <3>2. bucket'[b] # Nil
      <4>1. bucket'[b] = Table!RemoveFirst(List(b), x)
        BY <1>4, <2>3, <2>4 DEF HashInv, HashType
      <4>2. bucket'[b] \in Seq(Elements)
        BY <2>5, <4>1, TakenOut
      <4> QED BY <4>2 DEF Table!HashAssumption
    <3>3. \A y \in Elements : In(y, Tail(s)) => In(y, List(b)')
      BY <1>4, <1>5, <3>1
    <3>4. \A y \in Elements : In(y, List(b)') /\ elt'[y].name = n => In(y, Tail(s))
      BY <1>4, <1>5, <2>2, <3>1
    <3>5. Table!BucketOf(removing'.name) = b
      BY <1>0, <1>3
    <3> QED
      BY <1>3, <1>5, <3>2, <3>3, <3>4, <3>5 DEF Going
  <2> QED
    BY <2>7, <2>8, <2>9 DEF HashInv
<1>8. CASE ~ Table!Same(x, n)
  <2>1. UNCHANGED <<bucket, keys, elt, length, wild>>
    BY <1>0, <1>8 DEF Table!Visit
  <2>2. elt[x].name # n
    BY <1>5, <1>6, <1>8, SameName
  <2>3. HashType' /\ Allocated'
    BY <1>2, <1>3, <2>1 DEF HashInv, HashType, Allocated
  <2>4. Filed' /\ Sorted'
    <3>1. \A c \in Buckets : List(c)' = List(c)
      BY <2>1 DEF List
    <3> QED BY <2>1, <3>1, SameListsInv
  <2>5. Going'
    <3>1. List(b)' = List(b)
      BY <2>1 DEF List
    <3>2. \A y \in Elements : In(y, Tail(s)) => In(y, List(b))
      BY <1>4, <1>5
    <3>3. \A y \in Elements : In(y, List(b)) /\ elt[y].name = n => In(y, Tail(s))
      BY <1>4, <1>5, <2>2
    <3>4. Table!BucketOf(removing'.name) = b
      BY <1>0, <1>3
    <3> QED
      BY <1>3, <1>4, <1>5, <2>1, <3>1, <3>2, <3>3, <3>4 DEF Going
  <2> QED
    BY <2>3, <2>4, <2>5 DEF HashInv
<1> QED
  BY <1>7, <1>8

LEMMA RemoveDoneInv ==
    ASSUME Table!HashAssumption, HashInv, Table!RemoveDone
    PROVE  HashInv'
<1> DEFINE b == Table!BucketOf(removing.name)
<1>1. /\ bucket' = [bucket EXCEPT ![b] = Table!Sweep(@)]
      /\ removing # Nil /\ removing' = Nil /\ UNCHANGED <<keys, elt, length, leaked, wild>>
  BY DEF Table!RemoveDone
<1>2. b \in Buckets /\ bucket[b] # Nil /\ bucket[b] \in Seq(Elements)
  BY <1>1, Homes DEF HashInv, HashType, Removal, Going
<1> HIDE DEF b
<1>3. bucket' \in [Buckets -> {Nil} \union Seq(Elements)]
  BY <1>1, <1>2 DEF HashInv, HashType, Table!Sweep
<1>4. \A c \in Buckets : List(c)' = List(c)
  BY <1>1, <1>2 DEF List, Table!Sweep, HashInv, HashType
<1>5. HashType' /\ Allocated' /\ Going'
  BY <1>1, <1>3 DEF HashInv, HashType, Allocated, Going
<1>6. Filed' /\ Sorted'
  BY <1>1, <1>4, SameListsInv
<1> QED
  BY <1>5, <1>6 DEF HashInv

Owned(n, v) == {x \in Elements : Table!Mine(x, n, v)}

\* Whom a walk along the bucket finds, when a connection looks for itself; Nil: nobody.
Gone(n, v) ==
    LET s == List(Table!BucketOf(n))
    IN  IF First(s, Owned(n, v)) = 0 THEN Nil ELSE s[First(s, Owned(n, v))]

LEMMA RemoveUserSteps ==
    ASSUME Table!HashAssumption, HashInv, NEW n \in Names, NEW v, Table!RemoveUser(n, v)
    PROVE  LET b == Table!BucketOf(n)
               x == Gone(n, v)
           IN  /\ b \in Buckets /\ bucket[b] # Nil /\ removing = Nil
               /\ bucket' = [bucket EXCEPT ![b] = Table!Sweep(Table!RemoveFirst(bucket[b], x))]
               /\ keys' = Table!RemoveFirst(keys, x)
               /\ elt' = [y \in Elements |-> IF y = x THEN Nil ELSE elt[y]]
               /\ length' = length - (Len(keys) - Len(keys'))
               /\ UNCHANGED <<leaked, removing, wild>>
               /\ x \in Elements => In(x, List(b)) /\ In(x, keys)
<1> DEFINE b == Table!BucketOf(n)
           x == Gone(n, v)
<1>1. b \in Buckets /\ Table!Listed(n) = List(b) /\ List(b) \in Seq(Elements)
  BY Homes, Lists DEF HashInv
<1>2. Table!SelectInSeq(Table!Listed(n), LAMBDA y : Table!Mine(y, n, v)) = First(List(b), Owned(n, v))
  <2>1. \A j \in 1 .. Len(List(b)) : Table!Mine(List(b)[j], n, v) <=> List(b)[j] \in Owned(n, v)
    BY <1>1 DEF Owned
  <2>2. {j \in 1 .. Len(List(b)) : Table!Mine(List(b)[j], n, v)}
            = {j \in 1 .. Len(List(b)) : List(b)[j] \in Owned(n, v)}
    BY <2>1
  <2> QED
    BY <1>1, <2>2 DEF Table!SelectInSeq, First
<1>3. /\ bucket[b] # Nil /\ removing = Nil
      /\ bucket' = [bucket EXCEPT ![b] = Table!Sweep(Table!RemoveFirst(bucket[b], x))]
      /\ keys' = Table!RemoveFirst(keys, x)
      /\ elt' = [y \in Elements |-> IF y = x THEN Nil ELSE elt[y]]
      /\ length' = length - (Len(keys) - Len(keys'))
      /\ UNCHANGED <<leaked, removing, wild>>
  BY <1>1, <1>2 DEF Table!RemoveUser, Table!Idle, Table!Fewer, Gone
<1>4. ASSUME x \in Elements PROVE In(x, List(b)) /\ In(x, keys)
  <2>1. First(List(b), Owned(n, v)) # 0
    BY <1>4 DEF Gone, Table!HashAssumption
  <2>2. IsFirst(List(b), Owned(n, v), First(List(b), Owned(n, v)))
    BY <1>1, <2>1, FirstOf
  <2>3. In(x, List(b))
    BY <2>1, <2>2 DEF Gone, IsFirst, In
  <2> QED
    BY <1>1, <1>4, <2>3 DEF HashInv, Sorted
<1> QED
  BY <1>1, <1>3, <1>4

LEMMA RemoveUserInv ==
    ASSUME Table!HashAssumption, HashInv, NEW n \in Names, NEW v, Table!RemoveUser(n, v)
    PROVE  HashInv'
<1> DEFINE b == Table!BucketOf(n)
           x == Gone(n, v)
           t == Table!Sweep(Table!RemoveFirst(bucket[b], x))
<1>1. /\ b \in Buckets /\ bucket[b] # Nil /\ removing = Nil
      /\ bucket' = [bucket EXCEPT ![b] = t]
      /\ keys' = Table!RemoveFirst(keys, x)
      /\ elt' = [y \in Elements |-> IF y = x THEN Nil ELSE elt[y]]
      /\ length' = length - (Len(keys) - Len(keys'))
      /\ UNCHANGED <<leaked, removing, wild>>
      /\ x \in Elements => In(x, List(b)) /\ In(x, keys)
  BY RemoveUserSteps
<1>2. t = Table!RemoveFirst(bucket[b], x) \/ (t = Nil /\ Table!RemoveFirst(bucket[b], x) = <<>>)
  BY DEF Table!Sweep
<1> HIDE DEF b, x, t
<1>3. /\ bucket' \in [Buckets -> {Nil} \union Seq(Elements)]
      /\ \A c \in Buckets : List(c)' = Table!RemoveFirst(List(c), x)
  BY <1>1, <1>2, OutOfLists DEF x, t
<1>4. /\ elt' \in [Elements -> {Nil} \union Element]
      /\ \A y \in Elements : elt'[y] = IF y = x THEN Nil ELSE elt[y]
  BY <1>1 DEF HashInv, HashType
<1>5. keys \in Seq(Elements) /\ Once(keys)
  BY DEF HashInv, HashType, Filed
<1>6. keys' \in Seq(Elements) /\ Len(keys') = IF In(x, keys) THEN Len(keys) - 1 ELSE Len(keys)
  BY <1>1, <1>5, TakenOut
<1>7. length' = IF In(x, keys) THEN length - 1 ELSE length
  BY <1>1, <1>5, <1>6 DEF HashInv, Filed
<1>8. HashType' /\ Going'
  BY <1>1, <1>3, <1>4, <1>6 DEF HashInv, HashType, Going
<1>9. Allocated' /\ Filed' /\ Sorted'
  BY <1>1, <1>3, <1>4, <1>7, Removed
<1> QED
  BY <1>8, <1>9 DEF HashInv

LEMMA HashStepInv ==
    ASSUME Table!HashAssumption, HashInv, [Table!Next]_Table!vars
    PROVE  HashInv'
<1>1. CASE UNCHANGED Table!vars
  <2>1. UNCHANGED <<bucket, keys, elt, length, leaked, removing, wild>>
    BY <1>1 DEF Table!vars
  <2>2. \A c \in Buckets : List(c)' = List(c)
    BY <2>1 DEF List
  <2>3. HashType' /\ Allocated'
    BY <2>1 DEF HashInv, HashType, Allocated
  <2>4. Filed' /\ Sorted'
    BY <2>1, <2>2, SameListsInv
  <2>5. Going'
    BY <2>1 DEF HashInv, Going, List
  <2> QED
    BY <2>3, <2>4, <2>5 DEF HashInv
<1>2. CASE Table!Next
  <2>1. CASE Table!Visit
    BY <2>1, VisitInv
  <2>2. CASE Table!RemoveDone
    BY <2>2, RemoveDoneInv
  <2>3. ASSUME NEW n \in Names, Table!InsertFails(n) \/ Table!InsertLeaks(n) \/ Table!RemoveStart(n)
        PROVE  HashInv'
    BY <2>3, InsertFailsInv, InsertLeaksInv, RemoveStartInv
  <2>4. ASSUME NEW n \in Names, NEW v \in Values, Table!Insert(n, v) PROVE HashInv'
    BY <2>4, InsertReplacesInv, InsertNewInv DEF Table!Insert
  <2>5. ASSUME NEW n \in Names, NEW v \in Values, Table!RemoveUser(n, v) PROVE HashInv'
    BY <2>5, RemoveUserInv
  <2> QED
    BY <1>2, <2>1, <2>2, <2>3, <2>4, <2>5 DEF Table!Next
<1> QED
  BY <1>1, <1>2

\* The buckets, the list of keys and the length of stu_hash.c agree at every step,
\* also of a removal and whatever allocation fails, and stu_hash_find finds what was
\* inserted first under exactly its name.
THEOREM AlwaysConsistent ==
    ASSUME Table!HashAssumption
    PROVE  Table!Spec => []Table!HashConsistent
<1>1. Table!Init => HashInv
  BY HashInitInv
<1>2. HashInv /\ [Table!Next]_Table!vars => HashInv'
  BY HashStepInv
<1>3. HashInv => Table!HashConsistent
  BY HashTypes, HashAgrees, HashFinds DEF Table!HashConsistent
<1> QED
  BY <1>1, <1>2, <1>3, PTL DEF Table!Spec

-----------------------------------------------------------------------------
(* The hash table implements the plain list.                               *)

Entry == [name : Names, value : Values \union {Nil}]

\* The others[i] of Others, for the first i of the entries s.
Steps(s, n, f) ==
    /\ f[0] = <<>>
    /\ \A i \in 1 .. Len(s) : f[i] = IF s[i].name = n THEN f[i - 1] ELSE Append(f[i - 1], s[i])

OthersOf(s, n) ==
    LET others[i \in 0 .. Len(s)] ==
            IF i = 0 THEN <<>>
            ELSE IF s[i].name = n THEN others[i - 1]
            ELSE Append(others[i - 1], s[i])
    IN  others[Len(s)]

IsOthers(g, N, s, n) ==
    g = [i \in 0 .. N |-> IF i = 0 THEN <<>>
                          ELSE IF s[i].name = n THEN g[i - 1]
                          ELSE Append(g[i - 1], s[i])]

\* They exist, as far as one likes.
LEMMA OthersExist ==
    ASSUME NEW N \in Nat, NEW s, NEW n
    PROVE  \E g : IsOthers(g, N, s, n)
<1> DEFINE Step(q, i) == IF s[i].name = n THEN q ELSE Append(q, s[i])
           Exists(m) == \E g : g = [i \in 0 .. m |-> IF i = 0 THEN <<>> ELSE Step(g[i - 1], i)]
           Bad == {m \in 0 .. N : ~ Exists(m)}
<1>1. SUFFICES Exists(N)
  BY DEF IsOthers
<1> HIDE DEF Step
<1>2. SUFFICES ASSUME ~ Exists(N) PROVE FALSE
  OBVIOUS
<1>3. PICK m \in Bad : \A k \in Bad : m <= k
  <2>1. Bad \subseteq Nat /\ N \in Bad
    BY <1>2
  <2> HIDE DEF Bad
  <2> QED
    BY <2>1, Least
<1>4. Exists(0)
  <2>1. [i \in 0 .. 0 |-> <<>>] =
            [i \in 0 .. 0 |-> IF i = 0 THEN <<>> ELSE Step([j \in 0 .. 0 |-> <<>>][i - 1], i)]
    OBVIOUS
  <2> QED
    BY <2>1
<1>5. m \in 1 .. N /\ m - 1 \in 0 .. N /\ ~ Exists(m) /\ Exists(m - 1)
  <2>1. m \in 0 .. N /\ ~ Exists(m)
    OBVIOUS
  <2>2. m # 0
    BY <1>4, <2>1
  <2>3. m - 1 \in 0 .. N /\ m - 1 < m
    BY <2>1, <2>2
  <2>4. m - 1 \notin Bad
    <3> HIDE DEF Bad
    <3> QED BY <1>3, <2>1, <2>3
  <2>5. Exists(m - 1)
    <3> HIDE DEF Exists
    <3> QED BY <2>3, <2>4
  <2> QED
    BY <2>1, <2>2, <2>3, <2>5
<1>6. PICK g : g = [i \in 0 .. m - 1 |-> IF i = 0 THEN <<>> ELSE Step(g[i - 1], i)]
  BY <1>5
<1> DEFINE h == [i \in 0 .. m |-> IF i = m THEN Step(g[m - 1], m) ELSE g[i]]
<1>7. h = [i \in 0 .. m |-> IF i = 0 THEN <<>> ELSE Step(h[i - 1], i)]
  <2>1. ASSUME NEW i \in 0 .. m PROVE h[i] = IF i = 0 THEN <<>> ELSE Step(h[i - 1], i)
    <3>1. CASE i = m
      <4>1. h[m - 1] = g[m - 1] /\ h[i] = Step(g[m - 1], m)
        BY <1>5, <3>1
      <4> QED BY <1>5, <3>1, <4>1
    <3>2. CASE i # m
      <4>1. i \in 0 .. m - 1 /\ h[i] = g[i]
        BY <1>5, <3>2
      <4>2. g[i] = IF i = 0 THEN <<>> ELSE Step(g[i - 1], i)
        <5> HIDE DEF h
        <5> QED BY <1>6, <4>1
      <4>3. i # 0 => h[i - 1] = g[i - 1]
        BY <1>5, <4>1
      <4> QED BY <4>1, <4>2, <4>3
    <3> QED BY <3>1, <3>2
  <2>2. h = [i \in 0 .. m |-> h[i]]
    OBVIOUS
  <2> HIDE DEF h
  <2> QED BY <2>1, <2>2
<1> QED
  <2> HIDE DEF h
  <2> QED BY <1>5, <1>7

LEMMA OthersSteps ==
    ASSUME NEW S, NEW s \in Seq(S), NEW n
    PROVE  \E f : Steps(s, n, f) /\ OthersOf(s, n) = f[Len(s)]
<1> DEFINE f == CHOOSE g : IsOthers(g, Len(s), s, n)
<1>1. Len(s) \in Nat
  OBVIOUS
<1>2. f = [i \in 0 .. Len(s) |-> IF i = 0 THEN <<>>
                                 ELSE IF s[i].name = n THEN f[i - 1]
                                 ELSE Append(f[i - 1], s[i])]
  <2>1. IsOthers(f, Len(s), s, n)
    BY <1>1, OthersExist
  <2> HIDE DEF f
  <2> QED BY <2>1 DEF IsOthers
<1>3. OthersOf(s, n) = f[Len(s)]
  BY DEF OthersOf, IsOthers
<1> HIDE DEF f
<1>4. Steps(s, n, f)
  <2>1. ASSUME NEW i \in 0 .. Len(s)
        PROVE  f[i] = IF i = 0 THEN <<>> ELSE IF s[i].name = n THEN f[i - 1] ELSE Append(f[i - 1], s[i])
    BY <1>2
  <2>2. 0 \in 0 .. Len(s) /\ \A i \in 1 .. Len(s) : i \in 0 .. Len(s) /\ i # 0
    BY <1>1
  <2> QED
    BY <2>1, <2>2 DEF Steps
<1> QED
  BY <1>3, <1>4

\* Where no entry has the name, the others are all.
LEMMA OthersAll ==
    ASSUME NEW S, NEW s \in Seq(S), NEW n, \A i \in 1 .. Len(s) : s[i].name # n
    PROVE  OthersOf(s, n) = s
<1>1. PICK f : Steps(s, n, f) /\ OthersOf(s, n) = f[Len(s)]
  BY OthersSteps
<1> DEFINE Bad == {i \in 0 .. Len(s) : f[i] # SubSeq(s, 1, i)}
<1>2. Len(s) \in Nat
  OBVIOUS
<1>3. Bad = {}
  <2>1. SUFFICES ASSUME Bad # {} PROVE FALSE
    OBVIOUS
  <2>2. PICK k \in Bad : \A i \in Bad : k <= i
    <3>1. Bad \subseteq Nat
      BY <1>2
    <3> HIDE DEF Bad
    <3> QED BY <2>1, <3>1, Least
  <2>3. k \in 0 .. Len(s) /\ f[k] # SubSeq(s, 1, k)
    OBVIOUS
  <2>4. k # 0
    <3>1. SubSeq(s, 1, 0) = <<>>
      OBVIOUS
    <3> QED BY <1>1, <2>3, <3>1 DEF Steps
  <2>5. k \in 1 .. Len(s) /\ k - 1 \in 0 .. Len(s) /\ k - 1 < k
    BY <1>2, <2>3, <2>4
  <2>6. f[k - 1] = SubSeq(s, 1, k - 1)
    BY <2>2, <2>5
  <2>7. f[k] = Append(SubSeq(s, 1, k - 1), s[k])
    BY <1>1, <2>5, <2>6 DEF Steps
  <2>8. Append(SubSeq(s, 1, k - 1), s[k]) = SubSeq(s, 1, k)
    BY <1>2, <2>5
  <2> QED
    BY <2>3, <2>7, <2>8
<1>4. f[Len(s)] = SubSeq(s, 1, Len(s))
  BY <1>2, <1>3
<1>5. SubSeq(s, 1, Len(s)) = s
  OBVIOUS
<1> QED
  BY <1>1, <1>4, <1>5

\* An entry of the name that goes makes no difference to the others.
LEMMA OthersWithout ==
    ASSUME NEW S, NEW s \in Seq(S), NEW n, NEW k \in 1 .. Len(s), s[k].name = n
    PROVE  OthersOf(Table!RemoveAt(s, k), n) = OthersOf(s, n)
<1> DEFINE t == Table!RemoveAt(s, k)
<1>1. /\ t \in Seq(S) /\ Len(t) = Len(s) - 1 /\ Len(s) \in Nat
      /\ \A i \in 1 .. Len(s) - 1 : t[i] = IF i < k THEN s[i] ELSE s[i + 1]
  <2>1. k \in DOMAIN s /\ Len(s) \in Nat
    OBVIOUS
  <2> QED BY <2>1, TakenAt
<1> HIDE DEF t
<1>2. PICK f : Steps(s, n, f) /\ OthersOf(s, n) = f[Len(s)]
  BY OthersSteps
<1>3. PICK g : Steps(t, n, g) /\ OthersOf(t, n) = g[Len(t)]
  BY <1>1, OthersSteps
<1> DEFINE At(i) == IF i < k THEN i ELSE i - 1
           Bad == {i \in 0 .. Len(s) : f[i] # g[At(i)]}
<1>4. Bad = {}
  <2>1. SUFFICES ASSUME Bad # {} PROVE FALSE
    OBVIOUS
  <2>2. PICK m \in Bad : \A i \in Bad : m <= i
    <3>1. Bad \subseteq Nat
      BY <1>1
    <3> HIDE DEF Bad
    <3> QED BY <2>1, <3>1, Least
  <2>3. m \in 0 .. Len(s) /\ f[m] # g[At(m)]
    OBVIOUS
  <2>4. m # 0
    <3>1. At(0) = 0
      OBVIOUS
    <3> QED BY <1>2, <1>3, <2>3, <3>1 DEF Steps
  <2>5. m \in 1 .. Len(s) /\ m - 1 \in 0 .. Len(s) /\ m - 1 < m
    BY <1>1, <2>3, <2>4
  <2>6. f[m - 1] = g[At(m - 1)]
    BY <2>2, <2>5
  <2>7. f[m] = IF s[m].name = n THEN f[m - 1] ELSE Append(f[m - 1], s[m])
    BY <1>2, <2>5 DEF Steps
  <2>8. CASE m = k
    <3>1. At(m) = At(m - 1)
      BY <2>5, <2>8
    <3> QED BY <2>3, <2>6, <2>7, <2>8, <3>1
  <2>9. CASE m # k
    <3>1. At(m) \in 1 .. Len(t) /\ At(m - 1) = At(m) - 1 /\ t[At(m)] = s[m]
      BY <1>1, <2>5, <2>9
    <3>2. g[At(m)] = IF t[At(m)].name = n THEN g[At(m) - 1] ELSE Append(g[At(m) - 1], t[At(m)])
      BY <1>3, <3>1 DEF Steps
    <3> HIDE DEF At
    <3> QED BY <2>3, <2>6, <2>7, <3>1, <3>2
  <2> QED
    BY <2>8, <2>9
<1>5. Len(s) \in 0 .. Len(s) /\ At(Len(s)) = Len(t)
  BY <1>1
<1>6. f[Len(s)] = g[Len(t)]
  BY <1>4, <1>5
<1> QED
  BY <1>2, <1>3, <1>6 DEF t

\* What a list of elements shows, which hold what content says.
EntriesOf(list, content) ==
    [i \in DOMAIN list |-> [name |-> content[list[i]].name, value |-> content[list[i]].value]]

Holds(content, x) == content[x].name \in Names /\ content[x].value \in Values \union {Nil}

LEMMA EntriesType ==
    ASSUME NEW s \in Seq(Elements), NEW c, \A x \in Elements : In(x, s) => Holds(c, x)
    PROVE  /\ EntriesOf(s, c) \in Seq(Entry) /\ Len(EntriesOf(s, c)) = Len(s) /\ Len(s) \in Nat
           /\ DOMAIN s = 1 .. Len(s) /\ DOMAIN EntriesOf(s, c) = 1 .. Len(s)
           /\ \A i \in 1 .. Len(s) : EntriesOf(s, c)[i] = [name |-> c[s[i]].name, value |-> c[s[i]].value]
<1>1. DOMAIN s = 1 .. Len(s) /\ Len(s) \in Nat
  OBVIOUS
<1>2. \A i \in 1 .. Len(s) : c[s[i]].name \in Names /\ c[s[i]].value \in Values \union {Nil}
  BY <1>1 DEF In, Holds
<1> DEFINE E == [i \in 1 .. Len(s) |-> [name |-> c[s[i]].name, value |-> c[s[i]].value]]
<1>3. EntriesOf(s, c) = E
  BY <1>1 DEF EntriesOf
<1>4. E \in [1 .. Len(s) -> Entry]
  BY <1>2 DEF Entry
<1>5. \A i \in 1 .. Len(s) : E[i] = [name |-> c[s[i]].name, value |-> c[s[i]].value]
  OBVIOUS
<1> HIDE DEF E
<1>6. E \in Seq(Entry) /\ Len(E) = Len(s) /\ DOMAIN E = 1 .. Len(s)
  BY <1>1, <1>4
<1> QED
  BY <1>1, <1>3, <1>5, <1>6

LEMMA SequencesEqual ==
    ASSUME NEW S, NEW s \in Seq(S), NEW t \in Seq(S), Len(s) = Len(t),
           \A i \in 1 .. Len(s) : s[i] = t[i]
    PROVE  s = t
OBVIOUS

LEMMA EntriesSame ==
    ASSUME NEW s \in Seq(Elements), NEW c, NEW d,
           \A x \in Elements : In(x, s) => d[x] = c[x]
    PROVE  EntriesOf(s, d) = EntriesOf(s, c)
<1>1. \A i \in DOMAIN s : d[s[i]] = c[s[i]]
  BY DEF In
<1> QED
  BY <1>1 DEF EntriesOf

LEMMA EntriesAppended ==
    ASSUME NEW s \in Seq(Elements), NEW c, NEW d, NEW x \in Elements,
           \A y \in Elements : In(y, s) => d[y] = c[y] /\ Holds(c, y),
           Holds(d, x)
    PROVE  EntriesOf(Append(s, x), d) = Append(EntriesOf(s, c), [name |-> d[x].name, value |-> d[x].value])
<1> DEFINE t == Append(s, x)
           R == [name |-> d[x].name, value |-> d[x].value]
           E == EntriesOf(s, c)
           F == EntriesOf(t, d)
<1>1. /\ t \in Seq(Elements) /\ Len(t) = Len(s) + 1
      /\ \A i \in 1 .. Len(s) : t[i] = s[i] /\ s[i] \in Elements
      /\ t[Len(s) + 1] = x
  OBVIOUS
<1>2. \A y : In(y, t) <=> In(y, s) \/ y = x
  BY Appended
<1> HIDE DEF t
<1>3. /\ E \in Seq(Entry) /\ Len(E) = Len(s) /\ Len(s) \in Nat /\ DOMAIN s = 1 .. Len(s)
      /\ \A i \in 1 .. Len(s) : E[i] = [name |-> c[s[i]].name, value |-> c[s[i]].value]
  BY EntriesType
<1>4. \A y \in Elements : In(y, t) => Holds(d, y)
  BY <1>2 DEF Holds
<1>5. /\ F \in Seq(Entry) /\ Len(F) = Len(s) + 1
      /\ \A i \in 1 .. Len(s) + 1 : F[i] = [name |-> d[t[i]].name, value |-> d[t[i]].value]
  BY <1>1, <1>4, EntriesType
<1>6. R \in Entry
  BY DEF Entry, Holds
<1>7. \A i \in 1 .. Len(s) : F[i] = E[i]
  <2>1. ASSUME NEW i \in 1 .. Len(s) PROVE F[i] = E[i]
    <3>1. d[s[i]] = c[s[i]]
      BY <1>1, <1>3 DEF In
    <3>2. i \in 1 .. Len(s) + 1
      BY <1>3
    <3> HIDE DEF E, F
    <3> QED BY <1>1, <1>3, <1>5, <3>1, <3>2
  <2> QED BY <2>1
<1>8. F[Len(s) + 1] = R
  BY <1>1, <1>3, <1>5
<1> HIDE DEF E, F, R
<1>9. Append(E, R) \in Seq(Entry) /\ Len(Append(E, R)) = Len(s) + 1
  BY <1>3, <1>6
<1>10. ASSUME NEW i \in 1 .. Len(s) + 1 PROVE F[i] = Append(E, R)[i]
  <2>1. CASE i = Len(s) + 1
    BY <1>3, <1>6, <1>8, <2>1
  <2>2. CASE i # Len(s) + 1
    <3>1. i \in 1 .. Len(s)
      BY <1>3, <2>2
    <3> QED BY <1>3, <1>6, <1>7, <3>1
  <2> QED BY <2>1, <2>2
<1>11. F = Append(E, R)
  BY <1>5, <1>9, <1>10, SequencesEqual
<1> QED
  BY <1>11 DEF E, F, R, t

LEMMA EntriesTaken ==
    ASSUME NEW s \in Seq(Elements), NEW c, NEW d, NEW k \in 1 .. Len(s),
           \A y \in Elements : In(y, s) => Holds(c, y),
           \A i \in 1 .. Len(s) : i # k => d[s[i]] = c[s[i]]
    PROVE  EntriesOf(Table!RemoveAt(s, k), d) = Table!RemoveAt(EntriesOf(s, c), k)
<1> DEFINE t == Table!RemoveAt(s, k)
           E == EntriesOf(s, c)
           F == EntriesOf(t, d)
           G == Table!RemoveAt(E, k)
<1>1. /\ t \in Seq(Elements) /\ Len(t) = Len(s) - 1 /\ Len(s) \in Nat
      /\ \A i \in 1 .. Len(s) - 1 : t[i] = IF i < k THEN s[i] ELSE s[i + 1]
  <2>1. k \in DOMAIN s /\ Len(s) \in Nat
    OBVIOUS
  <2> QED BY <2>1, TakenAt
<1> HIDE DEF t
<1>2. /\ E \in Seq(Entry) /\ Len(E) = Len(s) /\ DOMAIN E = 1 .. Len(s) /\ DOMAIN s = 1 .. Len(s)
      /\ \A i \in 1 .. Len(s) : E[i] = [name |-> c[s[i]].name, value |-> c[s[i]].value]
  BY EntriesType
<1> HIDE DEF E
<1>3. /\ G \in Seq(Entry) /\ Len(G) = Len(s) - 1
      /\ \A i \in 1 .. Len(s) - 1 : G[i] = IF i < k THEN E[i] ELSE E[i + 1]
  <2>1. k \in DOMAIN E
    BY <1>2
  <2>2. /\ G \in Seq(Entry) /\ Len(G) = Len(E) - 1
        /\ \A i \in 1 .. Len(E) - 1 : G[i] = IF i < k THEN E[i] ELSE E[i + 1]
    BY <1>2, <2>1, TakenAt, Zenon
  <2> HIDE DEF G
  <2> QED BY <1>2, <2>2
<1> HIDE DEF G
<1> DEFINE At(i) == IF i < k THEN i ELSE i + 1
<1>4. \A i \in 1 .. Len(s) - 1 : /\ At(i) \in 1 .. Len(s) /\ At(i) # k
                                /\ t[i] = s[At(i)] /\ G[i] = E[At(i)]
  BY <1>1, <1>3
<1> HIDE DEF At
<1>5. \A y \in Elements : In(y, t) => Holds(d, y)
  <2>1. ASSUME NEW i \in 1 .. Len(t) PROVE Holds(d, t[i])
    <3>1. At(i) \in 1 .. Len(s) /\ At(i) # k /\ t[i] = s[At(i)] /\ s[At(i)] \in Elements
      BY <1>1, <1>4
    <3>2. In(s[At(i)], s)
      BY <1>2, <3>1 DEF In
    <3> QED BY <3>1, <3>2 DEF Holds
  <2>2. DOMAIN t = 1 .. Len(t)
    BY <1>1
  <2> QED BY <2>1, <2>2 DEF In
<1>6. /\ F \in Seq(Entry) /\ Len(F) = Len(t)
      /\ \A i \in 1 .. Len(t) : F[i] = [name |-> d[t[i]].name, value |-> d[t[i]].value]
  BY <1>1, <1>5, EntriesType
<1> HIDE DEF F
<1>7. \A i \in 1 .. Len(F) : F[i] = G[i]
  <2>1. ASSUME NEW i \in 1 .. Len(F) PROVE F[i] = G[i]
    <3>1. i \in 1 .. Len(t) /\ i \in 1 .. Len(s) - 1
      BY <1>1, <1>6
    <3>2. At(i) \in 1 .. Len(s) /\ At(i) # k /\ t[i] = s[At(i)] /\ G[i] = E[At(i)]
      BY <1>4, <3>1
    <3>3. F[i] = [name |-> d[t[i]].name, value |-> d[t[i]].value]
      BY <1>6, <3>1
    <3>4. E[At(i)] = [name |-> c[s[At(i)]].name, value |-> c[s[At(i)]].value]
      BY <1>2, <3>2
    <3>5. d[s[At(i)]] = c[s[At(i)]]
      BY <3>2
    <3> QED BY <3>2, <3>3, <3>4, <3>5
  <2> QED BY <2>1
<1>8. F = G
  BY <1>1, <1>3, <1>6, <1>7, SequencesEqual
<1> QED
  BY <1>8 DEF F, G, E, t

\* The entries that the table shows.
LEMMA ShownIs ==
    /\ Table!Shown = IF removing = Nil THEN EntriesOf(keys, elt)
                     ELSE OthersOf(EntriesOf(keys, elt), removing.name)
    /\ Table!Shown' = IF removing' = Nil THEN EntriesOf(keys', elt')
                      ELSE OthersOf(EntriesOf(keys', elt'), removing'.name)
BY DEF Table!Shown, Table!All, Table!Plain!Others, EntriesOf, OthersOf

LEMMA AllHold ==
    ASSUME HashInv
    PROVE  keys \in Seq(Elements) /\ \A x \in Elements : In(x, keys) => Holds(elt, x)
BY Held DEF HashInv, HashType, Holds, Element

LEMMA AppendMaps ==
    ASSUME Table!HashAssumption, HashInv, NEW n \in Names, NEW v \in Values,
           NEW r \in BOOLEAN, Table!InsertNew(n, v, r)
    PROVE  Table!Map!MapAppend(n, v)
<1>1. PICK x \in Elements :
          /\ elt[x] = Nil
          /\ elt' = [elt EXCEPT ![x] = [name |-> n, hash |-> Table!HashKeyLc(n), value |-> v]]
          /\ keys' = Append(keys, x)
  BY DEF Table!InsertNew
<1>2. removing = Nil /\ removing' = Nil
  BY DEF Table!InsertNew, Table!Idle
<1>3. ~ In(x, keys)
  BY <1>1 DEF HashInv, Allocated
<1>4. elt'[x].name = n /\ elt'[x].value = v /\ \A y \in Elements : y # x => elt'[y] = elt[y]
  BY <1>1 DEF HashInv, HashType
<1>5. keys \in Seq(Elements) /\ \A y \in Elements : In(y, keys) => elt'[y] = elt[y] /\ Holds(elt, y)
  BY <1>3, <1>4, AllHold
<1>6. Holds(elt', x)
  BY <1>4 DEF Holds
<1>7. EntriesOf(keys', elt') = Append(EntriesOf(keys, elt), [name |-> n, value |-> v])
  <2>1. EntriesOf(Append(keys, x), elt')
            = Append(EntriesOf(keys, elt), [name |-> elt'[x].name, value |-> elt'[x].value])
    BY <1>5, <1>6, EntriesAppended
  <2> QED BY <1>1, <1>4, <2>1
<1> QED
  BY <1>2, <1>7, ShownIs DEF Table!Map!MapAppend, Table!Map!Entry

LEMMA ReplaceMaps ==
    ASSUME Table!HashAssumption, HashInv, NEW n \in Names, NEW v \in Values,
           Table!InsertReplaces(n, v)
    PROVE  Table!Map!MapReplace(n, v)
<1> DEFINE k == First(keys, Named(n))
           x == keys[k]
           E == EntriesOf(keys, elt)
           F == EntriesOf(keys', elt')
           b == Table!BucketOf(n)
<1>1. /\ b \in Buckets /\ Table!Listed(n) = List(b) /\ List(b) \in Seq(Elements)
      /\ Table!Place(n) = First(List(b), Named(n))
      /\ \A y \in Elements : y \in Named(n) => (In(y, keys) <=> In(y, List(b)))
  BY FirstOfName
<1>2. Table!Place(n) # 0 /\ removing = Nil /\ removing' = Nil /\ keys' = keys
      /\ elt' = [elt EXCEPT ![List(b)[Table!Place(n)]].value = v]
  BY <1>1 DEF Table!InsertReplaces, Table!Idle
<1>3. k # 0 /\ IsFirst(keys, Named(n), k) /\ List(b)[Table!Place(n)] = x
  <2> HIDE DEF b
  <2> QED BY <1>1, <1>2, FirstFound
<1>4. keys \in Seq(Elements) /\ \A y \in Elements : In(y, keys) => Holds(elt, y)
  BY AllHold
<1>5. k \in 1 .. Len(keys) /\ x \in Elements /\ x \in Named(n) /\ In(x, keys)
  BY <1>3, <1>4 DEF IsFirst, In
<1>6. elt[x] \in Element /\ elt[x].name = n
  BY <1>5, Held DEF Named
<1> HIDE DEF k, x, b
<1>7. /\ elt'[x].name = n /\ elt'[x].value = v
      /\ \A y \in Elements : y # x => elt'[y] = elt[y]
  BY <1>2, <1>3, <1>5, <1>6 DEF HashInv, HashType, Element
<1>8. \A y \in Elements : In(y, keys) => Holds(elt', y)
  BY <1>4, <1>7 DEF Holds
<1>9. /\ E \in Seq(Entry) /\ Len(E) = Len(keys) /\ Len(keys) \in Nat /\ DOMAIN keys = 1 .. Len(keys)
      /\ \A i \in 1 .. Len(keys) : E[i] = [name |-> elt[keys[i]].name, value |-> elt[keys[i]].value]
  BY <1>4, EntriesType
<1>10. /\ F \in Seq(Entry) /\ Len(F) = Len(keys)
       /\ \A i \in 1 .. Len(keys) : F[i] = [name |-> elt'[keys[i]].name, value |-> elt'[keys[i]].value]
  <2>1. F = EntriesOf(keys, elt')
    BY <1>2
  <2>2. /\ EntriesOf(keys, elt') \in Seq(Entry) /\ Len(EntriesOf(keys, elt')) = Len(keys)
        /\ \A i \in 1 .. Len(keys) :
              EntriesOf(keys, elt')[i] = [name |-> elt'[keys[i]].name, value |-> elt'[keys[i]].value]
    BY ZenonT(30), <1>4, <1>8, EntriesType
  <2> QED BY <2>1, <2>2
<1> HIDE DEF E, F
<1>11. F = [E EXCEPT ![k] = [name |-> n, value |-> v]]
  <2> DEFINE G == [E EXCEPT ![k] = [name |-> n, value |-> v]]
  <2>1. [name |-> n, value |-> v] \in Entry
    BY DEF Entry
  <2>2. G \in Seq(Entry) /\ Len(G) = Len(E)
    BY <1>5, <1>9, <2>1
  <2>3. ASSUME NEW i \in 1 .. Len(keys) PROVE F[i] = G[i]
    <3>1. CASE i = k
      <4>1. keys[i] = x
        BY <3>1 DEF x
      <4> QED BY <1>5, <1>7, <1>9, <1>10, <3>1, <4>1
    <3>2. CASE i # k
      <4>1. keys[i] # x /\ keys[i] \in Elements
        BY <1>4, <1>5, <1>9, <3>2 DEF HashInv, Filed, Once, x
      <4>2. elt'[keys[i]] = elt[keys[i]]
        BY <1>7, <4>1
      <4>3. G[i] = E[i]
        BY <1>9, <3>2
      <4> HIDE DEF G
      <4> QED BY <1>9, <1>10, <4>2, <4>3
    <3> QED BY <3>1, <3>2
  <2> HIDE DEF G
  <2>4. F = G
    BY <1>9, <1>10, <2>2, <2>3, SequencesEqual
  <2> QED BY <2>4 DEF G
<1>12. Table!Map!SelectInSeq(E, LAMBDA y : y.name = n) = k
  <2>1. ASSUME NEW i \in 1 .. Len(keys) PROVE E[i].name = n <=> keys[i] \in Named(n)
    <3>1. E[i] = [name |-> elt[keys[i]].name, value |-> elt[keys[i]].value]
      BY <1>9
    <3>2. keys[i] \in Elements
      BY <1>4
    <3> QED BY <3>1, <3>2 DEF Named
  <2> DEFINE A == {i \in 1 .. Len(E) : E[i].name = n}
             B == {i \in 1 .. Len(keys) : keys[i] \in Named(n)}
  <2>2. A = B
    BY <1>9, <2>1
  <2>3. Table!Map!SelectInSeq(E, LAMBDA y : y.name = n) = IF A # {} THEN Table!Min(A) ELSE 0
    BY DEF Table!Map!SelectInSeq, Table!Map!Min, Table!Min
  <2>4. k = IF B # {} THEN Table!Min(B) ELSE 0
    BY DEF First, k
  <2> HIDE DEF A, B
  <2> QED
    BY <2>2, <2>3, <2>4
<1>13. Table!Shown = E /\ Table!Shown' = F
  BY <1>2, ShownIs DEF E, F
<1> QED
  BY <1>3, <1>11, <1>12, <1>13 DEF Table!Map!MapReplace, Table!Map!Entry

\* The first entry that a connection owns is where a walk along its bucket finds it.
LEMMA RemoveOneMaps ==
    ASSUME Table!HashAssumption, HashInv, NEW n \in Names, NEW v \in Values,
           Table!RemoveUser(n, v)
    PROVE  Table!Map!MapRemoveOne(n, v)
<1>0. PICK b, x : b = Table!BucketOf(n) /\ x = Gone(n, v)
  OBVIOUS
<1> DEFINE k == First(keys, Owned(n, v))
           E == EntriesOf(keys, elt)
           F == EntriesOf(keys', elt')
           R == [name |-> n, value |-> v]
<1>1. /\ b \in Buckets /\ removing = Nil /\ removing' = Nil
      /\ keys' = Table!RemoveFirst(keys, x)
      /\ elt' = [y \in Elements |-> IF y = x THEN Nil ELSE elt[y]]
  BY <1>0, RemoveUserSteps
<1>2. keys \in Seq(Elements) /\ \A y \in Elements : In(y, keys) => Holds(elt, y)
  BY AllHold
<1>3. List(b) \in Seq(Elements)
  BY <1>1, Lists DEF HashInv
<1>4. /\ E \in Seq(Entry) /\ Len(E) = Len(keys) /\ Len(keys) \in Nat /\ DOMAIN keys = 1 .. Len(keys)
      /\ DOMAIN E = 1 .. Len(keys)
      /\ \A i \in 1 .. Len(keys) : E[i] = [name |-> elt[keys[i]].name, value |-> elt[keys[i]].value]
  BY ZenonT(30), <1>2, EntriesType
<1> HIDE DEF E
<1>5. \A y \in Elements : In(y, keys) => (y \in Owned(n, v) <=> elt[y].name = n /\ elt[y].value = v)
  BY SameName DEF Owned, Table!Mine
<1>6. \A y \in Elements : y \in Owned(n, v) => (In(y, keys) <=> In(y, List(b)))
  <2>1. ASSUME NEW y \in Elements, y \in Owned(n, v), In(y, keys) PROVE In(y, List(b))
    <3>1. Home(y) = b
      BY <1>0, <1>5, <2>1 DEF Home
    <3> QED BY <2>1, <3>1 DEF HashInv, Filed
  <2>2. ASSUME NEW y \in Elements, In(y, List(b)) PROVE In(y, keys)
    BY <1>1, <2>2 DEF HashInv, Sorted
  <2> QED BY <2>1, <2>2
<1>7. \/ First(List(b), Owned(n, v)) = 0 /\ k = 0 /\ \A l \in DOMAIN keys : keys[l] \notin Owned(n, v)
      \/ /\ First(List(b), Owned(n, v)) # 0 /\ IsFirst(keys, Owned(n, v), k)
         /\ List(b)[First(List(b), Owned(n, v))] = keys[k]
  BY <1>1, <1>3, <1>6, FirstFound
<1>8. \A i \in 1 .. Len(keys) : E[i] = R <=> keys[i] \in Owned(n, v)
  <2>1. ASSUME NEW i \in 1 .. Len(keys) PROVE E[i] = R <=> keys[i] \in Owned(n, v)
    <3>1. keys[i] \in Elements /\ In(keys[i], keys)
      BY <1>2, <1>4 DEF In
    <3>2. keys[i] \in Owned(n, v) <=> elt[keys[i]].name = n /\ elt[keys[i]].value = v
      BY <1>5, <3>1
    <3>3. E[i] = [name |-> elt[keys[i]].name, value |-> elt[keys[i]].value]
      BY <1>4
    <3> QED BY <3>2, <3>3
  <2> QED BY <2>1
<1> HIDE DEF k, R, F
<1>9. ASSUME \A l \in DOMAIN keys : keys[l] \notin Owned(n, v)
      PROVE  F = Table!RemoveFirst(E, R)
  <2>1. x = Nil
    <3>1. First(List(b), Owned(n, v)) = 0
      BY <1>7, <1>9 DEF IsFirst
    <3> QED BY <1>0, <3>1 DEF Gone
  <2>2. ~ In(x, keys)
    BY <1>2, <2>1, Addresses DEF Table!HashAssumption
  <2>3. keys' = keys /\ \A y \in Elements : In(y, keys) => elt'[y] = elt[y]
    BY <1>1, <1>2, <2>2, TakenFirst
  <2>4. F = E
    BY <1>2, <2>3, EntriesSame DEF E, F
  <2>5. ~ In(R, E)
    BY <1>4, <1>8, <1>9 DEF In
  <2>6. Table!RemoveFirst(E, R) = E
    BY <1>4, <2>5, TakenFirst
  <2> QED
    BY <2>4, <2>6
<1>10. ASSUME IsFirst(keys, Owned(n, v), k), First(List(b), Owned(n, v)) # 0
       PROVE  F = Table!RemoveFirst(E, R)
  <2>1. /\ k \in DOMAIN keys /\ keys[k] = x /\ keys[k] \in Owned(n, v)
        /\ \A l \in DOMAIN keys : keys[l] \in Owned(n, v) => k <= l
    BY <1>0, <1>7, <1>10 DEF IsFirst, Gone
  <2>2. Table!RemoveFirst(keys, x) = Table!RemoveAt(keys, k)
    <3>1. In(x, keys)
      BY <2>1 DEF In
    <3>2. /\ IsFirst(keys, {x}, First(keys, {x}))
          /\ Table!RemoveFirst(keys, x) = Table!RemoveAt(keys, First(keys, {x}))
      BY <1>2, <3>1, TakenFirst
    <3>3. First(keys, {x}) = k
      BY <2>1, <3>2 DEF IsFirst, HashInv, Filed, Once
    <3> QED BY <3>2, <3>3
  <2>3. Table!RemoveFirst(E, R) = Table!RemoveAt(E, k)
    <3>1. In(R, E)
      BY <1>4, <1>8, <2>1 DEF In
    <3>2. /\ IsFirst(E, {R}, First(E, {R}))
          /\ Table!RemoveFirst(E, R) = Table!RemoveAt(E, First(E, {R}))
      BY <1>4, <3>1, TakenFirst
    <3>3. First(E, {R}) = k
      <4>1. First(E, {R}) \in 1 .. Len(keys) /\ E[First(E, {R})] = R
            /\ \A j \in 1 .. Len(keys) : E[j] = R => First(E, {R}) <= j
        BY <1>4, <3>2 DEF IsFirst
      <4>2. k \in 1 .. Len(keys) /\ E[k] = R
        BY <1>4, <1>8, <2>1
      <4>3. k <= First(E, {R})
        BY <1>4, <1>8, <2>1, <4>1
      <4>4. First(E, {R}) <= k
        BY <4>1, <4>2
      <4> QED BY <1>4, <4>1, <4>2, <4>3, <4>4
    <3> QED BY <3>2, <3>3
  <2>4. \A i \in 1 .. Len(keys) : i # k => elt'[keys[i]] = elt[keys[i]]
    <3>1. ASSUME NEW i \in 1 .. Len(keys), i # k PROVE elt'[keys[i]] = elt[keys[i]]
      <4>1. keys[i] # x /\ keys[i] \in Elements
        BY <1>2, <1>4, <2>1, <3>1 DEF HashInv, Filed, Once
      <4> QED BY <1>1, <4>1
    <3> QED BY <3>1
  <2>5. EntriesOf(Table!RemoveAt(keys, k), elt') = Table!RemoveAt(E, k)
    BY <1>2, <1>4, <2>1, <2>4, EntriesTaken DEF E
  <2>6. F = Table!RemoveFirst(E, R)
    BY <1>1, <2>2, <2>3, <2>5 DEF F
  <2> QED
    BY <2>6
<1>11. F = Table!RemoveFirst(E, R)
  BY <1>7, <1>9, <1>10
<1>12. Table!Shown = E /\ Table!Shown' = F
  BY <1>1, ShownIs DEF E, F
<1>13. Table!Map!RemoveFirst(E, R) = Table!RemoveFirst(E, R)
  BY DEF Table!Map!RemoveFirst, Table!RemoveFirst, Table!Map!SelectInSeq, Table!SelectInSeq,
         Table!Map!Min, Table!Min, Table!Map!RemoveAt, Table!RemoveAt
<1> QED
  BY <1>11, <1>12, <1>13 DEF Table!Map!MapRemoveOne, Table!Map!Entry, R

\* To begin with a removal removes all.
LEMMA RemoveMaps ==
    ASSUME Table!HashAssumption, HashInv, NEW n \in Names, Table!RemoveStart(n)
    PROVE  Table!Map!MapRemove(n)
<1> DEFINE E == EntriesOf(keys, elt)
<1>1. /\ removing = Nil /\ removing'.name = n /\ keys' = keys /\ elt' = elt
      /\ removing' = [name |-> n, todo |-> bucket[Table!BucketOf(n)]]
  BY DEF Table!RemoveStart, Table!Idle
<1>2. removing' # Nil
  <2>1. bucket[Table!BucketOf(n)] \in Seq(Elements)
    BY Homes DEF Table!RemoveStart, HashInv, HashType
  <2> QED
    BY <1>1, <2>1 DEF Table!HashAssumption
<1>3. Table!Shown = E /\ Table!Shown' = OthersOf(E, n)
  BY <1>1, <1>2, ShownIs
<1>4. Table!Map!Others(n) = OthersOf(Table!Shown, n)
  BY DEF Table!Map!Others, OthersOf
<1> QED
  BY <1>3, <1>4 DEF Table!Map!MapRemove

\* Its turns show nothing.
LEMMA VisitMaps ==
    ASSUME Table!HashAssumption, HashInv, Table!Visit
    PROVE  Table!Shown' = Table!Shown
<1>0. PICK n, x : n = removing.name /\ x = Head(removing.todo)
  OBVIOUS
<1>1. /\ removing # Nil /\ n \in Names /\ removing' # Nil /\ removing'.name = n
      /\ x \in Elements /\ In(x, keys)
  <2>1. removing # Nil /\ removing \in Removal /\ removing.todo \in Seq(Elements) /\ removing.todo # <<>>
    BY DEF Table!Visit, HashInv, HashType, Removal
  <2>2. removing' = [removing EXCEPT !.todo = Tail(removing.todo)]
    BY DEF Table!Visit, Table!GoOn
  <2>3. removing' \in Removal /\ removing'.name = n
    BY <1>0, <2>1, <2>2, TakenHead DEF Removal
  <2>4. removing' # Nil
    BY <2>3 DEF Removal, Table!HashAssumption
  <2>5. x \in Elements /\ In(x, removing.todo) /\ Table!BucketOf(n) \in Buckets /\ n \in Names
    BY <1>0, <2>1, TakenHead, Homes DEF Removal
  <2>6. In(x, keys)
    BY <1>0, <2>1, <2>5 DEF HashInv, Going, Sorted
  <2> QED
    BY <2>1, <2>3, <2>4, <2>5, <2>6
<1>2. keys \in Seq(Elements) /\ \A y \in Elements : In(y, keys) => Holds(elt, y)
  BY AllHold
<1>3. CASE Table!Same(x, n)
  <2> DEFINE E == EntriesOf(keys, elt)
             k == First(keys, {x})
  <2>1. keys' = Table!RemoveFirst(keys, x) /\ elt' = [elt EXCEPT ![x] = Nil]
    BY <1>0, <1>3 DEF Table!Visit
  <2>2. elt[x].name = n
    BY <1>1, <1>3, SameName
  <2>3. IsFirst(keys, {x}, k) /\ Table!RemoveFirst(keys, x) = Table!RemoveAt(keys, k)
    BY <1>1, <1>2, TakenFirst
  <2>4. k \in 1 .. Len(keys) /\ keys[k] = x
    BY <1>2, <2>3 DEF IsFirst
  <2> HIDE DEF k
  <2>5. \A i \in 1 .. Len(keys) : i # k => elt'[keys[i]] = elt[keys[i]]
    <3>1. ASSUME NEW i \in 1 .. Len(keys), i # k PROVE elt'[keys[i]] = elt[keys[i]]
      <4>1. keys[i] # x /\ keys[i] \in Elements
        BY <1>2, <2>4, <3>1 DEF HashInv, Filed, Once
      <4> QED BY <2>1, <4>1 DEF HashInv, HashType
    <3> QED BY <3>1
  <2>6. EntriesOf(Table!RemoveAt(keys, k), elt') = Table!RemoveAt(E, k)
    BY <1>2, <2>4, <2>5, EntriesTaken
  <2>7. /\ E \in Seq(Entry) /\ Len(E) = Len(keys)
        /\ \A i \in 1 .. Len(keys) : E[i] = [name |-> elt[keys[i]].name, value |-> elt[keys[i]].value]
    BY ZenonT(30), <1>2, EntriesType
  <2>8. Table!Shown = OthersOf(E, n) /\ Table!Shown' = OthersOf(Table!RemoveAt(E, k), n)
    BY <1>0, <1>1, <2>1, <2>3, <2>6, ShownIs
  <2> HIDE DEF E
  <2>9. k \in 1 .. Len(E) /\ E[k].name = n
    <3>1. E[k] = [name |-> elt[keys[k]].name, value |-> elt[keys[k]].value]
      BY <2>4, <2>7
    <3> QED BY <2>2, <2>4, <2>7, <3>1
  <2>10. OthersOf(Table!RemoveAt(E, k), n) = OthersOf(E, n)
    BY <2>7, <2>9, OthersWithout
  <2> QED
    BY <2>8, <2>10
<1>4. CASE ~ Table!Same(x, n)
  <2>1. keys' = keys /\ elt' = elt
    BY <1>0, <1>4 DEF Table!Visit
  <2> QED
    BY <1>0, <1>1, <2>1, ShownIs
<1> QED
  BY <1>3, <1>4

\* When it ends nobody of the name is left.
LEMMA RemoveDoneMaps ==
    ASSUME Table!HashAssumption, HashInv, Table!RemoveDone
    PROVE  Table!Shown' = Table!Shown
<1>0. PICK n : n = removing.name
  OBVIOUS
<1> DEFINE E == EntriesOf(keys, elt)
<1>1. removing # Nil /\ removing' = Nil /\ keys' = keys /\ elt' = elt /\ removing.todo = <<>>
  BY DEF Table!RemoveDone
<1>2. keys \in Seq(Elements) /\ \A y \in Elements : In(y, keys) => Holds(elt, y)
  BY AllHold
<1>3. /\ E \in Seq(Entry) /\ Len(E) = Len(keys) /\ DOMAIN keys = 1 .. Len(keys)
      /\ \A i \in 1 .. Len(keys) : E[i] = [name |-> elt[keys[i]].name, value |-> elt[keys[i]].value]
  BY ZenonT(30), <1>2, EntriesType
<1>4. ASSUME NEW i \in 1 .. Len(keys) PROVE elt[keys[i]].name # n
  <2>1. keys[i] \in Elements /\ In(keys[i], keys)
    BY <1>2, <1>3 DEF In
  <2>2. SUFFICES ASSUME elt[keys[i]].name = n PROVE FALSE
    OBVIOUS
  <2>3. In(keys[i], List(Table!BucketOf(n)))
    BY <2>1, <2>2 DEF HashInv, Filed, Home
  <2>4. In(keys[i], removing.todo)
    BY <1>0, <1>1, <2>1, <2>2, <2>3 DEF HashInv, Going
  <2> QED
    BY <1>1, <2>4 DEF In
<1>5. Table!Shown = OthersOf(E, n) /\ Table!Shown' = E
  BY <1>0, <1>1, ShownIs
<1> HIDE DEF E
<1>6. \A i \in 1 .. Len(E) : E[i].name # n
  <2>1. ASSUME NEW i \in 1 .. Len(E) PROVE E[i].name # n
    <3>1. i \in 1 .. Len(keys) /\ E[i] = [name |-> elt[keys[i]].name, value |-> elt[keys[i]].value]
      BY <1>3
    <3> QED BY <1>4, <3>1
  <2> QED BY <2>1
<1>7. OthersOf(E, n) = E
  BY <1>3, <1>6, OthersAll
<1> QED
  BY <1>5, <1>7

LEMMA OtherMaps ==
    ASSUME Table!HashAssumption, HashInv, NEW n \in Names,
           Table!InsertFails(n) \/ Table!InsertLeaks(n)
    PROVE  Table!Shown' = Table!Shown
<1>1. /\ keys' = keys /\ removing = Nil /\ removing' = Nil
      /\ \A y \in Elements : In(y, keys) => elt'[y] = elt[y]
  <2>1. CASE Table!InsertFails(n)
    BY <2>1 DEF Table!InsertFails, Table!Idle
  <2>2. CASE Table!InsertLeaks(n)
    <3>1. PICK x \in Elements : elt[x] = Nil /\
              elt' = [elt EXCEPT ![x] = [name |-> <<>>, hash |-> 0, value |-> Nil]]
      BY <2>2 DEF Table!InsertLeaks
    <3>2. ~ In(x, keys)
      BY <3>1 DEF HashInv, Allocated
    <3>3. \A y \in Elements : In(y, keys) => elt'[y] = elt[y]
      BY <3>1, <3>2 DEF HashInv, HashType
    <3> QED BY <2>2, <3>3 DEF Table!InsertLeaks, Table!Idle
  <2> QED BY <2>1, <2>2
<1>2. EntriesOf(keys, elt') = EntriesOf(keys, elt)
  BY <1>1, AllHold, EntriesSame
<1> QED
  BY <1>1, <1>2, ShownIs

LEMMA HashStepMaps ==
    ASSUME Table!HashAssumption, HashInv, [Table!Next]_Table!vars
    PROVE  [Table!Map!MapNext]_Table!Shown
<1>1. CASE UNCHANGED Table!vars
  <2>1. UNCHANGED <<keys, elt, removing>>
    BY <1>1 DEF Table!vars
  <2> QED
    BY <2>1, ShownIs
<1>2. CASE Table!Next
  <2>1. CASE Table!Visit \/ Table!RemoveDone
    BY <2>1, VisitMaps, RemoveDoneMaps
  <2>2. ASSUME NEW n \in Names, Table!InsertFails(n) \/ Table!InsertLeaks(n)
        PROVE  Table!Shown' = Table!Shown
    BY <2>2, OtherMaps
  <2>3. ASSUME NEW n \in Names, Table!RemoveStart(n) PROVE Table!Map!MapNext
    BY <2>3, RemoveMaps DEF Table!Map!MapNext
  <2>4. ASSUME NEW n \in Names, NEW v \in Values, Table!Insert(n, v) PROVE Table!Map!MapNext
    BY <2>4, AppendMaps, ReplaceMaps DEF Table!Insert, Table!Map!MapNext
  <2>5. ASSUME NEW n \in Names, NEW v \in Values, Table!RemoveUser(n, v) PROVE Table!Map!MapNext
    BY <2>5, RemoveOneMaps DEF Table!Map!MapNext
  <2> QED
    BY <1>2, <2>1, <2>2, <2>3, <2>4, <2>5 DEF Table!Next
<1> QED
  BY <1>1, <1>2

\* To its users stu_hash.c is a plain list of names and values: every operation changes
\* it at once as the list would change, in the order of insertion, although a removal
\* takes many steps and an insertion may fail half way.
THEOREM ImplementsList ==
    ASSUME Table!HashAssumption
    PROVE  Table!Spec => Table!ImplementsMultimap
<1>1. Table!Init => Table!Map!MapInit
  <2>1. SUFFICES ASSUME Table!Init PROVE Table!Shown = <<>>
    BY DEF Table!Map!MapInit
  <2>2. keys = <<>> /\ removing = Nil
    BY <2>1 DEF Table!Init
  <2>3. EntriesOf(<<>>, elt) = <<>>
    BY DEF EntriesOf
  <2> QED
    BY <2>2, <2>3, ShownIs
<1>2. Table!Init => HashInv
  BY HashInitInv
<1>3. HashInv /\ [Table!Next]_Table!vars => HashInv' /\ [Table!Map!MapNext]_Table!Shown
  BY HashStepInv, HashStepMaps
<1> QED
  BY <1>1, <1>2, <1>3, PTL DEF Table!Spec, Table!ImplementsMultimap, Table!Map!MapSpec
=============================================================================
