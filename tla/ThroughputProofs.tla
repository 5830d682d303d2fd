-------------------------- MODULE ThroughputProofs ---------------------------
(***************************************************************************)
(* For any targets, interval and timeout: no target starves, however the    *)
(* downloads of the others come and go.                                     *)
(*                                                                          *)
(* What a target in line has waited, what the download under way may still  *)
(* take, and a whole timeout for each target before it, are the bound at    *)
(* most: a download that begins pays with its place in line, the clock with *)
(* the download under way.                                                  *)
(***************************************************************************)
EXTENDS Throughput, FiniteSetTheorems, SequenceTheorems, TLAPS

(* Types.                                                                   *)
TypeOK ==
    /\ at \in [Targets -> {"off", "line", "download", "sleep"}]
    /\ line \in Seq(Targets) /\ slot \in Targets \cup {Nobody} /\ removed \subseteq Targets
    /\ due \in [Targets -> 1 .. TputInterval] /\ ticks \in [Targets -> BOOLEAN]
    /\ age \in [Targets -> Nat]

(* Who waits stands in line once, who downloads holds the slot.             *)
InLine ==
    /\ \A i, j \in DOMAIN line : line[i] = line[j] => i = j
    /\ \A t \in Targets : at[t] = "line" <=> \E i \in DOMAIN line : line[i] = t
    /\ \A t \in Targets : at[t] = "download" <=> slot = t

(* What the download under way may still take.                              *)
Rest == IF slot = Nobody THEN 0 ELSE TputTimeout - age[slot]

(* The next tick comes in time, and whoever waits has waited for downloads  *)
(* that are over, will for the one under way and for those before it.       *)
InTime ==
    /\ \A t \in Targets :
        /\ at[t] = "off" => age[t] = 0
        /\ at[t] \in {"download", "sleep"} => ticks[t] \/ age[t] + due[t] <= TputInterval
        /\ at[t] = "download" => age[t] <= TputTimeout
        /\ at[t] = "sleep" => age[t] <= Larger(TputInterval, TputTimeout)
    /\ \A i \in DOMAIN line : age[line[i]] + Rest + (i - 1) * TputTimeout <= Bound

(* The inductive invariant.                                                 *)
IInv == TypeOK /\ InLine /\ InTime

------------------------------------------------------------------------------
(* The others keep their order, and come nearer. *)
LEMMA Removal ==
    ASSUME NEW s \in Seq(Targets), NEW i \in DOMAIN s,
           \A j, k \in DOMAIN s : s[j] = s[k] => j = k
    PROVE  /\ Without(s, i) \in Seq(Targets)
           /\ \A j, k \in DOMAIN Without(s, i) : Without(s, i)[j] = Without(s, i)[k] => j = k
           /\ \A j \in DOMAIN Without(s, i) : Without(s, i)[j] = s[IF j < i THEN j ELSE j + 1]
           /\ \A t \in Targets : (\E j \in DOMAIN Without(s, i) : Without(s, i)[j] = t)
                                 <=> t # s[i] /\ \E j \in DOMAIN s : s[j] = t
           /\ \A j \in DOMAIN Without(s, i) : (IF j < i THEN j ELSE j + 1) \in DOMAIN s \ {i}
<1> DEFINE n == Len(s)
           a == SubSeq(s, 1, i - 1)
           b == SubSeq(s, i + 1, n)
           r == Without(s, i)
           At(j) == IF j < i THEN j ELSE j + 1
<1>1. n \in Nat /\ DOMAIN s = 1 .. n /\ i \in 1 .. n
  OBVIOUS
<1>2. /\ a \in Seq(Targets) /\ Len(a) = i - 1 /\ \A j \in 1 .. (i - 1) : a[j] = s[j]
  BY <1>1
<1>3. /\ b \in Seq(Targets) /\ Len(b) = n - i /\ \A j \in 1 .. (n - i) : b[j] = s[i + j]
  <2>1. i + 1 \in Int /\ n \in Int /\ \A j \in (i + 1) .. n : s[j] \in Targets
    BY <1>1
  <2>2. /\ b \in Seq(Targets) /\ Len(b) = IF i + 1 <= n THEN n - (i + 1) + 1 ELSE 0
        /\ \A j \in 1 .. n - (i + 1) + 1 : b[j] = s[i + 1 + j - 1]
    <3> HIDE DEF n
    <3>1. QED
      BY <2>1, SubSeqProperties
  <2> HIDE DEF b, n
  <2>3. n - (i + 1) + 1 = n - i /\ (~(i + 1 <= n) => n - i = 0)
    BY <1>1
  <2>4. \A j \in 1 .. (n - i) : i + 1 + j - 1 = i + j
    BY <1>1
  <2>5. QED
    BY <2>2, <2>3, <2>4
<1>4. r = a \o b
  BY DEF Without
<1> HIDE DEF a, b, r, n
<1>5. /\ r \in Seq(Targets) /\ Len(r) = n - 1 /\ DOMAIN r = 1 .. (n - 1)
      /\ \A j \in 1 .. (n - 1) : r[j] = IF j <= Len(a) THEN a[j] ELSE b[j - Len(a)]
  <2>1. /\ r \in Seq(Targets) /\ Len(r) = Len(a) + Len(b)
        /\ \A j \in 1 .. Len(a) + Len(b) : r[j] = IF j <= Len(a) THEN a[j] ELSE b[j - Len(a)]
    BY <1>2, <1>3, <1>4, ConcatProperties
  <2>2. Len(a) + Len(b) = n - 1
    BY <1>1, <1>2, <1>3
  <2>3. DOMAIN r = 1 .. Len(r)
    BY <2>1
  <2>4. QED
    BY <2>1, <2>2, <2>3
<1>6. ASSUME NEW j \in 1 .. (n - 1) PROVE r[j] = s[At(j)] /\ At(j) \in (1 .. n) \ {i}
  <2>1. CASE j < i
    BY <1>1, <1>2, <1>5, <2>1
  <2>2. CASE ~(j < i)
    <3>1. ~(j <= Len(a)) /\ j - Len(a) \in 1 .. (n - i)
      BY <1>1, <1>2, <1>3, <2>2
    <3>2. r[j] = b[j - Len(a)]
      BY <3>1, <1>5
    <3>3. b[j - Len(a)] = s[i + (j - Len(a))] /\ i + (j - Len(a)) = j + 1
      BY <3>1, <1>1, <1>2, <1>3
    <3>4. QED
      BY <3>2, <3>3, <2>2, <1>1
  <2>3. QED
    BY <2>1, <2>2
<1>7. ASSUME NEW j \in 1 .. (n - 1), NEW k \in 1 .. (n - 1), r[j] = r[k] PROVE j = k
  <2>1. At(j) = At(k)
    BY <1>1, <1>6, <1>7
  <2>2. QED
    BY <2>1, <1>1
<1>8. ASSUME NEW t \in Targets
      PROVE  (\E j \in 1 .. (n - 1) : r[j] = t) <=> t # s[i] /\ \E j \in 1 .. n : s[j] = t
  <2>1. ASSUME NEW j \in 1 .. (n - 1), r[j] = t PROVE t # s[i] /\ \E k \in 1 .. n : s[k] = t
    BY <2>1, <1>1, <1>6
  <2>2. ASSUME NEW k \in 1 .. n, s[k] = t, t # s[i] PROVE \E j \in 1 .. (n - 1) : r[j] = t
    <3>1. k # i
      BY <2>2
    <3>2. CASE k < i
      <4>1. k \in 1 .. (n - 1) /\ At(k) = k
        BY <3>2, <1>1
      <4>2. QED
        BY <4>1, <1>6, <2>2
    <3>3. CASE k > i
      <4>1. k - 1 \in 1 .. (n - 1) /\ At(k - 1) = k
        BY <3>3, <1>1
      <4>2. QED
        BY <4>1, <1>6, <2>2
    <3>4. QED
      BY <3>1, <3>2, <3>3, <1>1
  <2>3. QED
    BY <2>1, <2>2
<1>9. QED
  BY <1>1, <1>5, <1>6, <1>7, <1>8 DEF r

(* One more in line, behind the others.                                     *)
LEMMA Longer ==
    ASSUME NEW s \in Seq(Targets), NEW t \in Targets,
           \A j, k \in DOMAIN s : s[j] = s[k] => j = k, ~\E j \in DOMAIN s : s[j] = t
    PROVE  /\ Append(s, t) \in Seq(Targets)
           /\ DOMAIN Append(s, t) = 1 .. (Len(s) + 1) /\ DOMAIN s = 1 .. Len(s) /\ Len(s) \in Nat
           /\ \A j \in DOMAIN s : Append(s, t)[j] = s[j]
           /\ Append(s, t)[Len(s) + 1] = t
           /\ \A j, k \in DOMAIN Append(s, t) : Append(s, t)[j] = Append(s, t)[k] => j = k
           /\ \A u \in Targets : (\E j \in DOMAIN Append(s, t) : Append(s, t)[j] = u)
                                 <=> u = t \/ \E j \in DOMAIN s : s[j] = u
<1> DEFINE n == Len(s)
           r == Append(s, t)
<1>1. n \in Nat /\ DOMAIN s = 1 .. n
  OBVIOUS
<1>2. r \in Seq(Targets) /\ DOMAIN r = 1 .. (n + 1)
  OBVIOUS
<1>3. (\A j \in 1 .. n : r[j] = s[j]) /\ r[n + 1] = t
  OBVIOUS
<1> HIDE DEF n, r
<1>4. ASSUME NEW j \in 1 .. (n + 1), NEW k \in 1 .. (n + 1), r[j] = r[k] PROVE j = k
  <2>1. \A i \in 1 .. n : r[i] # t
    BY <1>1, <1>3
  <2>2. CASE j = n + 1 \/ k = n + 1
    BY <1>1, <1>3, <1>4, <2>1, <2>2
  <2>3. CASE j \in 1 .. n /\ k \in 1 .. n
    BY <1>1, <1>3, <1>4, <2>3
  <2>4. QED
    BY <1>1, <2>2, <2>3
<1>5. ASSUME NEW u \in Targets
      PROVE  (\E j \in 1 .. (n + 1) : r[j] = u) <=> u = t \/ \E j \in 1 .. n : s[j] = u
  <2>1. \A j \in 1 .. (n + 1) : j \in 1 .. n \/ j = n + 1
    BY <1>1
  <2>2. (\A j \in 1 .. n : j \in 1 .. (n + 1)) /\ n + 1 \in 1 .. (n + 1)
    BY <1>1
  <2>3. QED
    BY <1>3, <2>1, <2>2
<1>6. QED
  BY <1>1, <1>2, <1>3, <1>4, <1>5 DEF n, r
(* What is multiplied by the timeout of a download. *)
LEMMA Times ==
    ASSUME NEW L \in Nat
    PROVE  /\ \A a \in Nat : a * L \in Nat /\ (a + 1) * L = a * L + L
           /\ \A a, b \in Nat : a <= b => a * L <= b * L
           /\ 0 * L = 0
<1>1. \A a \in Nat : a * L \in Nat /\ (a + 1) * L = a * L + L
  BY Z3
<1>2. ASSUME NEW a \in Nat, NEW b \in Nat, a <= b PROVE a * L <= b * L
  <2>1. b - a \in Nat /\ (b - a) * L >= 0
    BY <1>2, Z3
  <2>2. b * L = a * L + (b - a) * L
    BY Z3
  <2>3. a * L \in Int /\ b * L \in Int /\ (b - a) * L \in Int
    BY <2>1, Z3
  <2>4. QED
    BY <2>1, <2>2, <2>3
<1>3. QED
  BY <1>1, <1>2, Z3

(* Who is not in the line leaves room for no more than the others.          *)
LEMMA Crowd ==
    ASSUME NEW s \in Seq(Targets), NEW V \in SUBSET Targets,
           \A j, k \in DOMAIN s : s[j] = s[k] => j = k,
           \A v \in V : ~\E j \in DOMAIN s : s[j] = v
    PROVE  Len(s) <= Cardinality(Targets \ V)
<1>1. IsFiniteSet(Targets \ V)
  BY FS_Subset, TputAssumption
<1>2. DOMAIN s = 1 .. Len(s) /\ Len(s) \in Nat
  OBVIOUS
<1>3. s \in [1 .. Len(s) -> Targets \ V]
  <2>1. ASSUME NEW j \in 1 .. Len(s) PROVE s[j] \in Targets \ V
    BY <1>2
  <2>2. s = [j \in 1 .. Len(s) |-> s[j]]
    BY <1>2
  <2>3. QED
    BY <2>1, <2>2
<1>4. IsFiniteSet(1 .. Len(s)) /\ Cardinality(1 .. Len(s)) = Len(s)
  BY <1>2, FS_Interval
<1>5. Cardinality(Targets \ V) \in Nat
  BY <1>1, FS_CardinalityType
<1>6. SUFFICES ASSUME Cardinality(Targets \ V) < Len(s) PROVE FALSE
  BY <1>2, <1>5
<1>7. \E j, k \in 1 .. Len(s) : j # k /\ s[j] = s[k]
  BY <1>1, <1>3, <1>4, <1>6, FS_PigeonHole
<1>8. QED
  BY <1>2, <1>7

(* The others are those in line but t, in their order.                      *)
LEMMA OthersWait ==
    ASSUME TypeOK, InLine, NEW t \in Targets
    PROVE  /\ Others(t) \in Seq(Targets)
           /\ \A j, k \in DOMAIN Others(t) : Others(t)[j] = Others(t)[k] => j = k
           /\ \A u \in Targets : (\E j \in DOMAIN Others(t) : Others(t)[j] = u) <=> at[u] = "line" /\ u # t
           /\ \A j \in DOMAIN Others(t) :
                \E k \in DOMAIN line : k >= j /\ Others(t)[j] = line[k] /\ (Served(t) => k = j + 1)
<1>1. line \in Seq(Targets) /\ DOMAIN line = 1 .. Len(line) /\ Len(line) \in Nat
  BY DEF TypeOK
<1>2. /\ \A i, j \in DOMAIN line : line[i] = line[j] => i = j
      /\ \A u \in Targets : at[u] = "line" <=> \E i \in DOMAIN line : line[i] = u
  BY DEF InLine
<1>3. CASE at[t] # "line"
  <2>1. Others(t) = line
    BY <1>3 DEF Others
  <2>2. ~Served(t)
    <3>1. ASSUME Served(t) PROVE 1 \in DOMAIN line /\ line[1] = t
      BY <1>1, <3>1 DEF Served
    <3>2. QED
      BY <3>1, <1>2, <1>3
  <2>3. \A j \in DOMAIN line : j >= j
    BY <1>1
  <2>4. QED
    BY <1>1, <1>2, <1>3, <2>1, <2>2, <2>3
<1>4. CASE at[t] = "line"
  <2> DEFINE i == Place(t)
             r == Without(line, i)
  <2>1. i \in DOMAIN line /\ line[i] = t
    BY <1>2, <1>4 DEF Place
  <2>2. Others(t) = r
    BY <1>4 DEF Others
  <2> HIDE DEF i
  <2>3. /\ r \in Seq(Targets)
        /\ \A j, k \in DOMAIN r : r[j] = r[k] => j = k
        /\ \A j \in DOMAIN r : r[j] = line[IF j < i THEN j ELSE j + 1]
        /\ \A u \in Targets : (\E j \in DOMAIN r : r[j] = u) <=> u # line[i] /\ \E j \in DOMAIN line : line[j] = u
        /\ \A j \in DOMAIN r : (IF j < i THEN j ELSE j + 1) \in DOMAIN line \ {i}
    BY <1>1, <1>2, <2>1, Removal
  <2>4. Served(t) => i = 1
    <3>1. ASSUME Served(t) PROVE 1 \in DOMAIN line /\ line[1] = t
      BY <1>1, <3>1 DEF Served
    <3>2. QED
      BY <3>1, <1>2, <2>1
  <2>5. DOMAIN r = 1 .. Len(r) /\ Len(r) \in Nat
    BY <2>3
  <2> HIDE DEF r
  <2>6. ASSUME NEW j \in DOMAIN r
        PROVE  \E k \in DOMAIN line : k >= j /\ r[j] = line[k] /\ (Served(t) => k = j + 1)
    <3> DEFINE k == IF j < i THEN j ELSE j + 1
    <3>1. k \in DOMAIN line /\ r[j] = line[k]
      BY <2>3
    <3>2. k >= j /\ (Served(t) => k = j + 1)
      BY <2>4, <2>5
    <3>3. QED
      BY <3>1, <3>2
  <2>7. \A u \in Targets : (\E j \in DOMAIN r : r[j] = u) <=> at[u] = "line" /\ u # t
    BY <1>2, <2>1, <2>3
  <2>8. QED
    BY <2>2, <2>3, <2>6, <2>7
<1>5. QED
  BY <1>3, <1>4
(* A loop that returns leaves nothing behind.                               *)
LEMMA ReturnTyped ==
    ASSUME TypeOK, NEW t \in Targets, Return(t)
    PROVE  /\ at' \in [Targets -> {"off", "line", "download", "sleep"}] /\ removed' \subseteq Targets
           /\ due' \in [Targets -> 1 .. TputInterval] /\ ticks' \in [Targets -> BOOLEAN]
           /\ age' \in [Targets -> Nat]
           /\ at'[t] = "off" /\ age'[t] = 0
           /\ \A u \in Targets : u # t => /\ at'[u] = at[u] /\ age'[u] = age[u]
                                          /\ due'[u] = due[u] /\ ticks'[u] = ticks[u]
<1>1. TputInterval \in 1 .. TputInterval
  BY TputAssumption
<1>2. removed' \subseteq Targets
  BY DEF Return, TypeOK
<1>3. due' \in [Targets -> 1 .. TputInterval] /\ \A u \in Targets : u # t => due'[u] = due[u]
  BY <1>1 DEF Return, TypeOK
<1>4. ticks' \in [Targets -> BOOLEAN] /\ \A u \in Targets : u # t => ticks'[u] = ticks[u]
  BY DEF Return, TypeOK
<1>5. /\ age' \in [Targets -> Nat] /\ age'[t] = 0
      /\ \A u \in Targets : u # t => age'[u] = age[u]
  BY DEF Return, TypeOK
<1>6. /\ at' \in [Targets -> {"off", "line", "download", "sleep"}] /\ at'[t] = "off"
      /\ \A u \in Targets : u # t => at'[u] = at[u]
  BY DEF Return, TypeOK
<1>7. QED
  BY <1>2, <1>3, <1>4, <1>5, <1>6

(* What joining the line does to it: a loop that begins or wakes.           *)
LEMMA Joined ==
    ASSUME TypeOK, InLine, NEW t \in Targets, at[t] \in {"off", "sleep"},
           at' = [at EXCEPT ![t] = "line"], line' = Append(line, t), slot' = slot
    PROVE  /\ at' \in [Targets -> {"off", "line", "download", "sleep"}] /\ line' \in Seq(Targets)
           /\ at'[t] = "line" /\ \A u \in Targets : u # t => at'[u] = at[u]
           /\ InLine'
           /\ DOMAIN line' = 1 .. (Len(line) + 1) /\ DOMAIN line = 1 .. Len(line) /\ Len(line) \in Nat
           /\ line'[Len(line) + 1] = t /\ \A i \in DOMAIN line : line'[i] = line[i]
<1>1. line \in Seq(Targets) /\ at \in [Targets -> {"off", "line", "download", "sleep"}]
  BY DEF TypeOK
<1>2. /\ \A i, j \in DOMAIN line : line[i] = line[j] => i = j
      /\ \A u \in Targets : at[u] = "line" <=> \E i \in DOMAIN line : line[i] = u
      /\ \A u \in Targets : at[u] = "download" <=> slot = u
  BY DEF InLine
<1>3. ~\E i \in DOMAIN line : line[i] = t
  BY <1>2
<1>4. /\ Append(line, t) \in Seq(Targets)
      /\ DOMAIN Append(line, t) = 1 .. (Len(line) + 1) /\ DOMAIN line = 1 .. Len(line) /\ Len(line) \in Nat
      /\ \A j \in DOMAIN line : Append(line, t)[j] = line[j]
      /\ Append(line, t)[Len(line) + 1] = t
      /\ \A j, k \in DOMAIN Append(line, t) : Append(line, t)[j] = Append(line, t)[k] => j = k
      /\ \A u \in Targets : (\E j \in DOMAIN Append(line, t) : Append(line, t)[j] = u)
                            <=> u = t \/ \E j \in DOMAIN line : line[j] = u
  BY <1>1, <1>2, <1>3, Longer
<1>5. /\ line' \in Seq(Targets)
      /\ DOMAIN line' = 1 .. (Len(line) + 1) /\ DOMAIN line = 1 .. Len(line) /\ Len(line) \in Nat
      /\ \A j \in DOMAIN line : line'[j] = line[j]
      /\ line'[Len(line) + 1] = t
      /\ \A j, k \in DOMAIN line' : line'[j] = line'[k] => j = k
      /\ \A u \in Targets : (\E j \in DOMAIN line' : line'[j] = u)
                            <=> u = t \/ \E j \in DOMAIN line : line[j] = u
  BY <1>4, Zenon
<1>6. /\ at' \in [Targets -> {"off", "line", "download", "sleep"}] /\ at'[t] = "line"
      /\ \A u \in Targets : u # t => at'[u] = at[u]
  BY <1>1
<1>7. \A u \in Targets : at'[u] = "line" <=> \E i \in DOMAIN line' : line'[i] = u
  BY <1>2, <1>5, <1>6
<1>8. \A u \in Targets : at'[u] = "download" <=> slot' = u
  BY <1>2, <1>6
<1>9. InLine'
  BY <1>5, <1>7, <1>8, Zenon DEF InLine
<1>10. QED
  BY <1>5, <1>6, <1>9

(* Every step keeps the types, the line and the slot.                       *)
LEMMA BaseStep ==
    TypeOK /\ InLine /\ [TputNext]_tputVars => TypeOK' /\ InLine'
<1> SUFFICES ASSUME TypeOK, InLine, [TputNext]_tputVars PROVE TypeOK' /\ InLine'
  OBVIOUS
<1> DEFINE Places == {"off", "line", "download", "sleep"}
<1>1. /\ TputInterval \in 1 .. TputInterval /\ TputInterval \in Nat \ {0} /\ Nobody \notin Targets
  BY TputAssumption
<1>2. /\ at \in [Targets -> Places] /\ line \in Seq(Targets) /\ slot \in Targets \cup {Nobody}
      /\ removed \subseteq Targets /\ due \in [Targets -> 1 .. TputInterval] /\ ticks \in [Targets -> BOOLEAN]
      /\ age \in [Targets -> Nat]
  BY DEF TypeOK
<1>3. /\ \A i, j \in DOMAIN line : line[i] = line[j] => i = j
      /\ \A t \in Targets : at[t] = "line" <=> \E i \in DOMAIN line : line[i] = t
      /\ \A t \in Targets : at[t] = "download" <=> slot = t
  BY DEF InLine
<1>4. ASSUME NEW t \in Targets, AddTarget(t) PROVE TypeOK' /\ InLine'
  <2>1. InLine' /\ at' \in [Targets -> Places] /\ line' \in Seq(Targets)
    BY <1>4, Joined DEF AddTarget
  <2>2. QED
    BY <1>2, <1>4, <2>1 DEF AddTarget, ticker, TypeOK
<1>5. ASSUME NEW t \in Targets, WakeUp(t) PROVE TypeOK' /\ InLine'
  <2>1. InLine' /\ at' \in [Targets -> Places] /\ line' \in Seq(Targets)
    BY <1>5, Joined DEF WakeUp
  <2>2. ticks' \in [Targets -> BOOLEAN]
    BY <1>2, <1>5 DEF WakeUp
  <2>3. QED
    BY <1>2, <1>5, <2>1, <2>2 DEF WakeUp, TypeOK
<1>6. ASSUME NEW t \in Targets, RemoveTarget(t) PROVE TypeOK' /\ InLine'
  <2>1. removed' \subseteq Targets
    BY <1>2, <1>6 DEF RemoveTarget
  <2>2. UNCHANGED <<at, line, slot, due, ticks, age>>
    BY <1>6 DEF RemoveTarget, ticker
  <2>3. QED
    BY <1>2, <1>3, <2>1, <2>2 DEF TypeOK, InLine
<1>7. ASSUME NEW t \in Targets, line' = Others(t)
      PROVE  /\ line' \in Seq(Targets) /\ \A i, j \in DOMAIN line' : line'[i] = line'[j] => i = j
             /\ \A u \in Targets : (\E i \in DOMAIN line' : line'[i] = u) <=> at[u] = "line" /\ u # t
  <2> DEFINE r == Others(t)
  <2>1. /\ r \in Seq(Targets) /\ \A i, j \in DOMAIN r : r[i] = r[j] => i = j
        /\ \A u \in Targets : (\E i \in DOMAIN r : r[i] = u) <=> at[u] = "line" /\ u # t
    BY OthersWait
  <2>2. line' = r
    BY <1>7
  <2> HIDE DEF r
  <2>3. QED
    BY <2>1, <2>2
<1>8. ASSUME NEW t \in Targets, Quit(t) PROVE TypeOK' /\ InLine'
  <2>1. t \in removed /\ at[t] \in {"line", "sleep"} /\ Return(t) /\ line' = Others(t) /\ slot' = slot
    BY <1>8 DEF Quit
  <2>2. /\ at' \in [Targets -> Places] /\ removed' \subseteq Targets
        /\ due' \in [Targets -> 1 .. TputInterval] /\ ticks' \in [Targets -> BOOLEAN]
        /\ age' \in [Targets -> Nat]
        /\ at'[t] = "off" /\ \A u \in Targets : u # t => at'[u] = at[u]
    BY <2>1, ReturnTyped
  <2>3. \A u \in Targets : at'[u] = "line" <=> \E i \in DOMAIN line' : line'[i] = u
    <3>1. \A u \in Targets : (\E i \in DOMAIN line' : line'[i] = u) <=> at[u] = "line" /\ u # t
      BY <1>7, <2>1
    <3>2. \A u \in Targets : at'[u] = "line" <=> at[u] = "line" /\ u # t
      BY <2>2
    <3>3. QED
      BY <3>1, <3>2, Zenon
  <2>4. \A u \in Targets : at'[u] = "download" <=> slot' = u
    BY <1>3, <2>1, <2>2
  <2>5. TypeOK'
    BY <1>2, <1>7, <2>1, <2>2 DEF TypeOK
  <2>6. InLine'
    BY <1>7, <2>1, <2>3, <2>4, Zenon DEF InLine
  <2>7. QED
    BY <2>5, <2>6
<1>9. ASSUME NEW t \in Targets, Take(t) PROVE TypeOK' /\ InLine'
  <2>1. /\ slot = Nobody /\ slot' = t /\ line' = Others(t) /\ at' = [at EXCEPT ![t] = "download"]
        /\ age' = [age EXCEPT ![t] = 0] /\ UNCHANGED <<removed, due, ticks>>
    BY <1>9 DEF Take, ticker
  <2>2. /\ at' \in [Targets -> Places] /\ age' \in [Targets -> Nat]
        /\ at'[t] = "download" /\ \A u \in Targets : u # t => at'[u] = at[u]
    BY <1>2, <2>1
  <2>3. \A u \in Targets : at'[u] = "line" <=> \E i \in DOMAIN line' : line'[i] = u
    <3>1. \A u \in Targets : (\E i \in DOMAIN line' : line'[i] = u) <=> at[u] = "line" /\ u # t
      BY <1>7, <2>1
    <3>2. \A u \in Targets : at'[u] = "line" <=> at[u] = "line" /\ u # t
      BY <2>2
    <3>3. QED
      BY <3>1, <3>2, Zenon
  <2>4. \A u \in Targets : at'[u] = "download" <=> slot' = u
    BY <1>1, <1>3, <2>1, <2>2
  <2>5. TypeOK'
    BY <1>2, <1>7, <2>1, <2>2 DEF TypeOK
  <2>6. InLine'
    BY <1>7, <2>1, <2>3, <2>4, Zenon DEF InLine
  <2>7. QED
    BY <2>5, <2>6
<1>10. ASSUME NEW t \in Targets, Done(t) PROVE TypeOK' /\ InLine'
  <2>1. at[t] = "download" /\ slot' = Nobody /\ line' = line
    BY <1>10 DEF Done
  <2>2. /\ at' \in [Targets -> Places] /\ removed' \subseteq Targets
        /\ due' \in [Targets -> 1 .. TputInterval] /\ ticks' \in [Targets -> BOOLEAN]
        /\ age' \in [Targets -> Nat]
        /\ at'[t] \in {"off", "sleep"} /\ \A u \in Targets : u # t => at'[u] = at[u]
    <3>1. CASE t \in removed
      BY <1>10, <3>1, ReturnTyped DEF Done
    <3>2. CASE t \notin removed
      BY <1>2, <1>10, <3>2 DEF Done, ticker
    <3>3. QED
      BY <3>1, <3>2
  <2>3. \A u \in Targets : at'[u] = "line" <=> \E i \in DOMAIN line' : line'[i] = u
    BY <1>3, <2>1, <2>2
  <2>4. \A u \in Targets : at'[u] = "download" <=> slot' = u
    BY <1>1, <1>3, <2>1, <2>2
  <2>5. TypeOK'
    BY <1>2, <2>1, <2>2 DEF TypeOK
  <2>6. InLine'
    BY <1>3, <2>1, <2>3, <2>4, Zenon DEF InLine
  <2>7. QED
    BY <2>5, <2>6
<1>11. CASE TputTick
  <2>1. UNCHANGED <<at, line, slot, removed>>
    BY <1>11 DEF TputTick
  <2>2. due' \in [Targets -> 1 .. TputInterval]
    <3>1. \A t \in Targets : (IF at[t] = "off" THEN due[t]
                              ELSE IF due[t] = 1 THEN TputInterval ELSE due[t] - 1) \in 1 .. TputInterval
      BY <1>1, <1>2
    <3>2. QED
      BY <1>11, <3>1 DEF TputTick
  <2>3. ticks' \in [Targets -> BOOLEAN]
    BY <1>11 DEF TputTick
  <2>4. age' \in [Targets -> Nat]
    BY <1>2, <1>11 DEF TputTick
  <2>5. QED
    BY <1>2, <1>3, <2>1, <2>2, <2>3, <2>4 DEF TypeOK, InLine
<1>12. CASE UNCHANGED tputVars
  BY <1>12 DEF tputVars, ticker, TypeOK, InLine
<1>13. QED
  BY <1>4, <1>5, <1>6, <1>8, <1>9, <1>10, <1>11, <1>12 DEF TputNext, TputLoop
(* Numbers: the bound, and what is left of the download under way.          *)
LEMMA Numbers ==
    ASSUME TypeOK, InLine, InTime
    PROVE  /\ TputInterval \in Nat \ {0} /\ TputTimeout \in Nat /\ Nobody \notin Targets
           /\ Larger(TputInterval, TputTimeout) \in Nat
           /\ TputInterval <= Larger(TputInterval, TputTimeout) /\ TputTimeout <= Larger(TputInterval, TputTimeout)
           /\ Rest \in 0 .. TputTimeout
           /\ Targets # {} => Bound \in Nat /\ Larger(TputInterval, TputTimeout) <= Bound
<1>1. TputInterval \in Nat \ {0} /\ TputTimeout \in Nat /\ Nobody \notin Targets /\ IsFiniteSet(Targets)
  BY TputAssumption
<1>2. /\ Larger(TputInterval, TputTimeout) \in Nat
      /\ TputInterval <= Larger(TputInterval, TputTimeout) /\ TputTimeout <= Larger(TputInterval, TputTimeout)
  BY <1>1 DEF Larger
<1>3. Rest \in 0 .. TputTimeout
  <2>1. CASE slot = Nobody
    BY <1>1, <2>1 DEF Rest
  <2>2. CASE slot # Nobody
    <3>1. slot \in Targets /\ at[slot] = "download"
      BY <2>2 DEF TypeOK, InLine
    <3>2. age[slot] \in Nat /\ age[slot] <= TputTimeout
      BY <3>1 DEF TypeOK, InTime
    <3>3. QED
      BY <1>1, <2>2, <3>2 DEF Rest
  <2>3. QED
    BY <2>1, <2>2
<1>4. ASSUME Targets # {} PROVE Bound \in Nat /\ Larger(TputInterval, TputTimeout) <= Bound
  <2> DEFINE n == Cardinality(Targets)
             g == Larger(TputInterval, TputTimeout)
             x == (n - 1) * TputTimeout
  <2>1. n \in Nat /\ n # 0
    BY <1>1, <1>4, FS_CardinalityType, FS_EmptySet
  <2>2. n - 1 \in Nat
    BY <2>1
  <2>3. x \in Nat
    BY <1>1, <2>2, Times
  <2> HIDE DEF n, g, x
  <2>4. Bound = g + x
    BY DEF Bound, n, g, x
  <2>5. g \in Nat
    BY <1>2 DEF g
  <2>6. g + x \in Nat /\ g <= g + x
    BY <2>3, <2>5
  <2>7. QED
    BY <2>4, <2>6 DEF g
<1>5. QED
  BY <1>1, <1>2, <1>3, <1>4

(* Whoever joins the line when its tick is due finds the bound before it.   *)
LEMMA JoinsInTime ==
    ASSUME TypeOK, InLine, InTime, NEW t \in Targets, at[t] \in {"off", "sleep"}
    PROVE  age[t] + Rest + Len(line) * TputTimeout <= Bound
<1> DEFINE n == Cardinality(Targets)
           g == Larger(TputInterval, TputTimeout)
           k == Len(line)
<1>1. /\ TputTimeout \in Nat /\ g \in Nat /\ Rest \in 0 .. TputTimeout /\ Nobody \notin Targets
      /\ IsFiniteSet(Targets) /\ n \in Nat /\ k \in Nat
  BY Numbers, FS_CardinalityType, TputAssumption DEF TypeOK
<1>2. age[t] \in Nat /\ age[t] <= g
  BY <1>1 DEF InTime, TypeOK
<1>3. /\ line \in Seq(Targets) /\ ~\E j \in DOMAIN line : line[j] = t
      /\ \A i, j \in DOMAIN line : line[i] = line[j] => i = j
  BY DEF TypeOK, InLine
<1>4. k <= n - 1
  <2>1. k <= Cardinality(Targets \ {t})
    BY <1>3, Crowd
  <2>2. Cardinality(Targets \ {t}) = n - 1
    BY <1>1, FS_RemoveElement
  <2>3. QED
    BY <2>1, <2>2
<1>5. slot # Nobody => k + 1 <= n - 1
  <2>1. SUFFICES ASSUME slot # Nobody PROVE k + 1 <= n - 1
    OBVIOUS
  <2>2. slot \in Targets /\ slot # t /\ ~\E j \in DOMAIN line : line[j] = slot
    BY <2>1 DEF TypeOK, InLine
  <2>3. k <= Cardinality(Targets \ {t, slot})
    <3>1. {t, slot} \in SUBSET Targets /\ \A v \in {t, slot} : ~\E j \in DOMAIN line : line[j] = v
      BY <1>3, <2>2
    <3>2. QED
      BY <1>3, <3>1, Crowd
  <2>4. IsFiniteSet(Targets \ {t}) /\ Cardinality(Targets \ {t}) = n - 1
    BY <1>1, FS_RemoveElement
  <2>5. Cardinality((Targets \ {t}) \ {slot}) = n - 1 - 1
    BY <2>2, <2>4, FS_RemoveElement
  <2>6. (Targets \ {t}) \ {slot} = Targets \ {t, slot}
    OBVIOUS
  <2>7. k <= n - 1 - 1
    BY <2>3, <2>5, <2>6, Zenon
  <2>8. QED
    <3> HIDE DEF k, n
    <3>1. QED
      BY <1>1, <2>7
<1>6. Bound = g + (n - 1) * TputTimeout
  BY DEF Bound
<1> DEFINE x == (n - 1) * TputTimeout
           y == k * TputTimeout
           z == (k + 1) * TputTimeout
<1>7. n - 1 \in Nat /\ k + 1 \in Nat
  BY <1>1, <1>4
<1>8. x \in Nat /\ y \in Nat /\ y <= x /\ z = y + TputTimeout /\ (slot # Nobody => z <= x)
  <2>1. x \in Nat /\ y \in Nat /\ z = y + TputTimeout
    BY <1>1, <1>7, Times
  <2>2. y <= x
    BY <1>1, <1>4, <1>7, Times
  <2>3. slot # Nobody => z <= x
    BY <1>1, <1>5, <1>7, Times
  <2>4. QED
    BY <2>1, <2>2, <2>3
<1>9. slot = Nobody => Rest = 0
  BY DEF Rest
<1>10. Bound = g + x
  BY <1>6
<1> HIDE DEF x, y, z, g, n
<1>11. age[t] + Rest + y <= Bound
  BY <1>1, <1>2, <1>8, <1>9, <1>10
<1>12. QED
  BY <1>11 DEF y, k

(* Every step keeps the bound before everybody in line.                     *)
LEMMA InTimeStep ==
    TypeOK /\ InLine /\ InTime /\ [TputNext]_tputVars => InTime'
<1> SUFFICES ASSUME TypeOK, InLine, InTime, [TputNext]_tputVars PROVE InTime'
  OBVIOUS
<1> DEFINE Late(i) == age[line[i]] + Rest + (i - 1) * TputTimeout
           Due(t) == /\ at[t] = "off" => age[t] = 0
                     /\ at[t] \in {"download", "sleep"} => ticks[t] \/ age[t] + due[t] <= TputInterval
                     /\ at[t] = "download" => age[t] <= TputTimeout
                     /\ at[t] = "sleep" => age[t] <= Larger(TputInterval, TputTimeout)
<1>1. /\ TputInterval \in Nat \ {0} /\ TputTimeout \in Nat /\ Nobody \notin Targets
      /\ Larger(TputInterval, TputTimeout) \in Nat
      /\ TputInterval <= Larger(TputInterval, TputTimeout) /\ TputTimeout <= Larger(TputInterval, TputTimeout)
      /\ Rest \in 0 .. TputTimeout
  BY Numbers
<1>2. /\ TypeOK' /\ InLine'
  BY BaseStep
<1>3. /\ at \in [Targets -> {"off", "line", "download", "sleep"}]
      /\ line \in Seq(Targets) /\ DOMAIN line = 1 .. Len(line) /\ Len(line) \in Nat
      /\ slot \in Targets \cup {Nobody}
      /\ due \in [Targets -> 1 .. TputInterval] /\ age \in [Targets -> Nat]
      /\ \A i \in DOMAIN line : line[i] \in Targets /\ at[line[i]] = "line"
      /\ \A t \in Targets : at[t] = "download" <=> slot = t
  BY DEF TypeOK, InLine
<1>4. /\ \A t \in Targets : Due(t)
      /\ \A i \in DOMAIN line : Late(i) <= Bound
  BY DEF InTime
<1>5. ASSUME \A t \in Targets : Due(t)', \A i \in DOMAIN line' : Late(i)' <= Bound
      PROVE  InTime'
  BY <1>5 DEF InTime
<1>6. ASSUME NEW t \in Targets, at[t] \in {"off", "sleep"}, at' = [at EXCEPT ![t] = "line"],
             line' = Append(line, t), slot' = slot, age' = age, due' = due,
             \A u \in Targets : u # t => ticks'[u] = ticks[u]
      PROVE  InTime'
  <2>1. /\ at'[t] = "line" /\ \A u \in Targets : u # t => at'[u] = at[u]
        /\ DOMAIN line' = 1 .. (Len(line) + 1)
        /\ line'[Len(line) + 1] = t /\ \A i \in DOMAIN line : line'[i] = line[i]
    BY <1>6, Joined
  <2>2. \A u \in Targets : Due(u)'
    BY <1>4, <1>6, <2>1
  <2>3. Rest' = Rest
    BY <1>6 DEF Rest
  <2>4. ASSUME NEW i \in DOMAIN line' PROVE Late(i)' <= Bound
    <3>1. CASE i \in DOMAIN line
      BY <1>4, <1>6, <2>1, <2>3, <3>1
    <3>2. CASE i = Len(line) + 1
      <4>1. age[t] + Rest + Len(line) * TputTimeout <= Bound
        BY <1>6, JoinsInTime
      <4>2. i - 1 = Len(line) /\ line'[i] = t
        BY <1>3, <2>1, <3>2
      <4>3. QED
        BY <1>6, <2>3, <4>1, <4>2
    <3>3. QED
      BY <1>3, <2>1, <3>1, <3>2
  <2>5. QED
    BY <1>5, <2>2, <2>4
<1>7. ASSUME NEW t \in Targets, AddTarget(t) PROVE InTime'
  BY <1>6, <1>7 DEF AddTarget, ticker
<1>8. ASSUME NEW t \in Targets, WakeUp(t) PROVE InTime'
  <2>1. \A u \in Targets : u # t => ticks'[u] = ticks[u]
    BY <1>8 DEF WakeUp, TypeOK
  <2>2. QED
    BY <1>6, <1>8, <2>1 DEF WakeUp
<1>9. ASSUME NEW t \in Targets, RemoveTarget(t) PROVE InTime'
  BY <1>9 DEF RemoveTarget, ticker, InTime, Rest
<1>10. ASSUME NEW t \in Targets, line' = Others(t), NEW i \in DOMAIN line'
       PROVE  \E k \in DOMAIN line : k >= i /\ line'[i] = line[k] /\ line[k] # t /\ (Served(t) => k = i + 1)
  <2> DEFINE r == Others(t)
  <2>1. /\ \A j \in DOMAIN r : \E k \in DOMAIN line : k >= j /\ r[j] = line[k] /\ (Served(t) => k = j + 1)
        /\ \A u \in Targets : (\E j \in DOMAIN r : r[j] = u) <=> at[u] = "line" /\ u # t
    BY OthersWait
  <2>2. line' = r
    BY <1>10
  <2> HIDE DEF r
  <2>3. QED
    BY <1>3, <1>10, <2>1, <2>2
<1>11. ASSUME NEW t \in Targets, Quit(t) PROVE InTime'
  <2>1. at[t] \in {"line", "sleep"} /\ Return(t) /\ line' = Others(t) /\ slot' = slot
    BY <1>11 DEF Quit
  <2>2. /\ at'[t] = "off" /\ age'[t] = 0
        /\ \A u \in Targets : u # t => /\ at'[u] = at[u] /\ age'[u] = age[u]
                                       /\ due'[u] = due[u] /\ ticks'[u] = ticks[u]
    BY <2>1, ReturnTyped
  <2>3. \A u \in Targets : Due(u)'
    BY <1>4, <2>2
  <2>4. Rest' = Rest
    BY <1>3, <2>1, <2>2 DEF Rest
  <2>5. ASSUME NEW i \in DOMAIN line' PROVE Late(i)' <= Bound
    <3>1. PICK k \in DOMAIN line : k >= i /\ line'[i] = line[k] /\ line[k] # t
      BY <1>10, <2>1
    <3>2. age'[line'[i]] = age[line[k]] /\ age[line[k]] \in Nat
      BY <1>3, <2>2, <3>1
    <3>3. i \in Nat \ {0} /\ i - 1 \in Nat /\ k - 1 \in Nat /\ i - 1 <= k - 1
      <4>1. line' \in Seq(Targets)
        BY <1>2 DEF TypeOK
      <4>2. i \in 1 .. Len(line') /\ Len(line') \in Nat
        BY <4>1
      <4>3. QED
        BY <1>3, <3>1, <4>2
    <3> DEFINE x == (i - 1) * TputTimeout
               y == (k - 1) * TputTimeout
    <3>4. x \in Nat /\ y \in Nat /\ x <= y
      BY <1>1, <3>3, Times
    <3>5. age[line[k]] + Rest + y <= Bound
      BY <1>4
    <3> HIDE DEF x, y
    <3>6. Bound \in Nat
      BY Numbers
    <3>7. age'[line'[i]] + Rest' + x <= Bound
      BY <1>1, <2>4, <3>2, <3>4, <3>5, <3>6
    <3>8. QED
      BY <3>7 DEF x
  <2>6. QED
    BY <1>5, <2>3, <2>5
<1>12. ASSUME NEW t \in Targets, Take(t) PROVE InTime'
  <2>1. /\ slot = Nobody /\ Served(t) /\ slot' = t /\ line' = Others(t)
        /\ at' = [at EXCEPT ![t] = "download"]
        /\ age' = [age EXCEPT ![t] = 0] /\ UNCHANGED <<due, ticks>>
    BY <1>12 DEF Take, ticker
  <2>2. /\ at'[t] = "download" /\ age'[t] = 0
        /\ \A u \in Targets : u # t => at'[u] = at[u] /\ age'[u] = age[u]
    BY <1>3, <2>1
  <2>3. ASSUME NEW u \in Targets PROVE Due(u)'
    <3>1. CASE u = t
      <4>1. due[t] \in Nat /\ due[t] <= TputInterval
        BY <1>1, <1>3
      <4>2. QED
        BY <1>1, <2>1, <2>2, <3>1, <4>1
    <3>2. CASE u # t
      BY <1>4, <2>1, <2>2, <3>2
    <3>3. QED
      BY <3>1, <3>2
  <2>4. Rest = 0 /\ Rest' = TputTimeout
    BY <1>1, <2>1, <2>2 DEF Rest
  <2>5. ASSUME NEW i \in DOMAIN line' PROVE Late(i)' <= Bound
    <3>1. PICK k \in DOMAIN line : line'[i] = line[k] /\ line[k] # t /\ k = i + 1
      BY <1>10, <2>1
    <3>2. age'[line'[i]] = age[line[k]] /\ age[line[k]] \in Nat
      BY <1>3, <2>2, <3>1
    <3>3. i \in Nat \ {0} /\ i - 1 \in Nat /\ k - 1 = i - 1 + 1
      <4>1. line' \in Seq(Targets)
        BY <1>2 DEF TypeOK
      <4>2. i \in 1 .. Len(line') /\ Len(line') \in Nat
        BY <4>1
      <4>3. k = i + 1
        BY <3>1
      <4>4. QED
        BY <4>2, <4>3
    <3> DEFINE x == (i - 1) * TputTimeout
               y == (k - 1) * TputTimeout
    <3>4. x \in Nat /\ y = x + TputTimeout
      BY <1>1, <3>3, Times
    <3>5. age[line[k]] + Rest + y <= Bound
      BY <1>4
    <3> HIDE DEF x, y
    <3>6. Bound \in Nat
      BY Numbers
    <3>7. age'[line'[i]] + Rest' + x <= Bound
      BY <1>1, <2>4, <3>2, <3>4, <3>5, <3>6
    <3>8. QED
      BY <3>7 DEF x
  <2>6. QED
    BY <1>5, <2>3, <2>5
<1>13. ASSUME NEW t \in Targets, Done(t) PROVE InTime'
  <2>1. at[t] = "download" /\ slot' = Nobody /\ line' = line /\ slot = t
    BY <1>3, <1>13 DEF Done
  <2>2. /\ \A u \in Targets : u # t => /\ at'[u] = at[u] /\ age'[u] = age[u]
                                       /\ due'[u] = due[u] /\ ticks'[u] = ticks[u]
        /\ \/ at'[t] = "off" /\ age'[t] = 0
           \/ at'[t] = "sleep" /\ age'[t] = age[t] /\ due'[t] = due[t] /\ ticks'[t] = ticks[t]
    <3>1. CASE t \in removed
      BY <1>13, <3>1, ReturnTyped DEF Done
    <3>2. CASE t \notin removed
      BY <1>3, <1>13, <3>2 DEF Done, ticker
    <3>3. QED
      BY <3>1, <3>2
  <2>3. age[t] \in Nat /\ age[t] <= Larger(TputInterval, TputTimeout)
    BY <1>1, <1>3, <1>4, <2>1
  <2>4. \A u \in Targets : Due(u)'
    BY <1>4, <2>1, <2>2, <2>3
  <2>5. Rest' = 0
    BY <2>1 DEF Rest
  <2>6. ASSUME NEW i \in DOMAIN line' PROVE Late(i)' <= Bound
    <3>1. i \in DOMAIN line /\ line'[i] = line[i] /\ line[i] # t /\ line[i] \in Targets
      BY <1>3, <2>1
    <3>2. age'[line'[i]] = age[line[i]] /\ age[line[i]] \in Nat
      BY <1>3, <2>2, <3>1
    <3>3. i - 1 \in Nat
      BY <1>3, <3>1
    <3> DEFINE x == (i - 1) * TputTimeout
    <3>4. x \in Nat
      BY <1>1, <3>3, Times
    <3>5. age[line[i]] + Rest + x <= Bound
      BY <1>4, <3>1
    <3> HIDE DEF x
    <3>6. Bound \in Nat
      BY Numbers
    <3>7. age'[line'[i]] + Rest' + x <= Bound
      BY <1>1, <2>5, <3>2, <3>4, <3>5, <3>6
    <3>8. QED
      BY <3>7 DEF x
  <2>7. QED
    BY <1>5, <2>4, <2>6
<1>14. CASE TputTick
  <2>1. /\ UNCHANGED <<at, line, slot>> /\ (slot = Nobody => line = << >>)
        /\ \A t \in Targets : /\ at[t] = "download" => age[t] < TputTimeout
                              /\ at[t] = "sleep" => ~ticks[t]
    BY <1>14 DEF TputTick
  <2>2. ASSUME NEW t \in Targets, at[t] # "off"
        PROVE  /\ due'[t] = IF due[t] = 1 THEN TputInterval ELSE due[t] - 1
               /\ due[t] = 1 \/ ticks[t] => ticks'[t]
               /\ age'[t] \in {age[t], age[t] + 1}
               /\ age[t] <= Bound => age'[t] = age[t] + 1
    <3>1. Bound \in Nat /\ age[t] \in Nat
      BY <1>3, Numbers
    <3>2. due'[t] = IF due[t] = 1 THEN TputInterval ELSE due[t] - 1
      BY <1>14, <2>2 DEF TputTick
    <3>3. ticks'[t] = (ticks[t] \/ (at[t] # "off" /\ due[t] = 1))
      BY <1>14, Zenon DEF TputTick
    <3>4. age'[t] = IF age[t] > Bound THEN age[t] ELSE age[t] + 1
      BY <1>14, <2>2 DEF TputTick
    <3>5. due[t] = 1 \/ ticks[t] => ticks'[t]
      BY <2>2, <3>3, Zenon
    <3>6. age'[t] \in {age[t], age[t] + 1} /\ (age[t] <= Bound => age'[t] = age[t] + 1)
      BY <3>1, <3>4
    <3>7. QED
      BY <3>2, <3>5, <3>6, Zenon
  <2>3. \A t \in Targets : at[t] = "off" => age'[t] = age[t]
    BY <1>14 DEF TputTick
  <2>4. ASSUME NEW t \in Targets PROVE Due(t)'
    <3>1. age[t] \in Nat /\ due[t] \in 1 .. TputInterval
      BY <1>3
    <3>2. CASE at[t] = "off"
      BY <1>4, <2>1, <2>3, <3>2
    <3>3. CASE at[t] = "download"
      BY <1>1, <1>4, <2>1, <2>2, <3>1, <3>3
    <3>4. CASE at[t] = "sleep"
      BY <1>1, <1>4, <2>1, <2>2, <3>1, <3>4
    <3>5. CASE at[t] = "line"
      BY <2>1, <3>5
    <3>6. QED
      BY <1>3, <3>2, <3>3, <3>4, <3>5
  <2>5. ASSUME NEW i \in DOMAIN line' PROVE Late(i)' <= Bound
    <3>1. i \in DOMAIN line /\ line'[i] = line[i] /\ line[i] \in Targets /\ at[line[i]] = "line"
      BY <1>3, <2>1
    <3>2. slot \in Targets /\ at[slot] = "download" /\ slot # Nobody
      <4>1. line # << >>
        BY <3>1
      <4>2. QED
        BY <1>1, <1>3, <2>1, <4>1
    <3>3. age[slot] \in Nat /\ age[slot] < TputTimeout /\ age[slot] <= Bound
      <4>1. Bound \in Nat /\ TputTimeout <= Bound
        BY <1>1, <3>2, Numbers
      <4>2. QED
        BY <1>1, <1>3, <2>1, <3>2, <4>1
    <3>4. age'[slot] = age[slot] + 1
      BY <2>2, <3>2, <3>3
    <3>5. Rest = TputTimeout - age[slot] /\ Rest' = TputTimeout - (age[slot] + 1)
      BY <2>1, <3>2, <3>4 DEF Rest
    <3>6. age'[line[i]] \in {age[line[i]], age[line[i]] + 1} /\ age[line[i]] \in Nat
      BY <1>3, <2>2, <3>1
    <3>7. i - 1 \in Nat
      BY <1>3, <3>1
    <3> DEFINE x == (i - 1) * TputTimeout
    <3>8. x \in Nat
      BY <1>1, <3>7, Times
    <3>9. age[line[i]] + Rest + x <= Bound
      BY <1>4, <3>1
    <3> HIDE DEF x
    <3>10. Bound \in Nat
      BY <3>1, Numbers
    <3>11. age'[line'[i]] + Rest' + x <= Bound
      BY <1>1, <3>1, <3>3, <3>5, <3>6, <3>8, <3>9, <3>10
    <3>12. QED
      BY <3>11 DEF x
  <2>6. QED
    BY <1>5, <2>4, <2>5
<1>15. CASE UNCHANGED tputVars
  BY <1>15 DEF tputVars, ticker, InTime, Rest
<1>16. QED
  BY <1>7, <1>8, <1>9, <1>11, <1>12, <1>13, <1>14, <1>15 DEF TputNext, TputLoop

(* So the invariant always holds.                                           *)
LEMMA Invariant == TputSpec => []IInv
<1>1. TputInit => IInv
  <2>1. SUFFICES ASSUME TputInit PROVE IInv
    OBVIOUS
  <2>2. TputInterval \in 1 .. TputInterval /\ Nobody \notin Targets /\ << >> \in Seq(Targets)
    BY TputAssumption
  <2>3. TypeOK
    BY <2>1, <2>2, Zenon DEF TputInit, TypeOK
  <2>4. DOMAIN line = {}
    BY <2>1 DEF TputInit
  <2>5. InLine
    BY <2>1, <2>2, <2>4 DEF TputInit, InLine
  <2>6. InTime
    BY <2>1, <2>4 DEF TputInit, InTime
  <2>7. QED
    BY <2>3, <2>5, <2>6 DEF IInv
<1>2. IInv /\ [TputNext]_tputVars => IInv'
  BY BaseStep, InTimeStep DEF IInv
<1>3. QED
  BY <1>1, <1>2, PTL DEF TputSpec

(* Type correctness of the loops, the line, the slot and the tickers.       *)
THEOREM TypeCorrect == TputSpec => []TypeOK
<1>1. IInv => TypeOK
  BY DEF IInv
<1>2. QED
  BY <1>1, Invariant, PTL

(* Nobody starves: the downloads of a target begin at most Bound apart,     *)
(* however long the others take, come and go (tputLoop and its slot).       *)
THEOREM DownloadsTakeTurns == TputSpec => []NobodyStarves
<1>1. ASSUME IInv PROVE NobodyStarves
  <2>1. SUFFICES ASSUME NEW t \in Targets PROVE age[t] <= Bound /\ (at[t] = "download" <=> slot = t)
    BY DEF NobodyStarves
  <2>2. /\ TputTimeout \in Nat /\ Larger(TputInterval, TputTimeout) \in Nat /\ TputTimeout <= Larger(TputInterval, TputTimeout)
        /\ Rest \in 0 .. TputTimeout /\ Bound \in Nat /\ Larger(TputInterval, TputTimeout) <= Bound
    BY <1>1, Numbers DEF IInv
  <2>3. age[t] \in Nat /\ at[t] \in {"off", "line", "download", "sleep"}
    BY <1>1 DEF IInv, TypeOK
  <2>4. at[t] # "line" => age[t] <= Bound
    BY <1>1, <2>2, <2>3 DEF IInv, InTime
  <2>5. ASSUME at[t] = "line" PROVE age[t] <= Bound
    <3>1. PICK i \in DOMAIN line : line[i] = t
      BY <1>1, <2>5 DEF IInv, InLine
    <3>2. i - 1 \in Nat
      BY <1>1 DEF IInv, TypeOK
    <3> DEFINE x == (i - 1) * TputTimeout
    <3>3. x \in Nat
      BY <2>2, <3>2, Times
    <3>4. age[t] + Rest + x <= Bound
      BY <1>1, <3>1 DEF IInv, InTime
    <3> HIDE DEF x
    <3>5. QED
      BY <2>2, <2>3, <3>3, <3>4
  <2>6. QED
    BY <1>1, <2>4, <2>5 DEF IInv, InLine
<1>2. QED
  BY <1>1, Invariant, PTL
==============================================================================
