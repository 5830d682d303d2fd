--------------------------- MODULE ProbeRunProofs ---------------------------
(***************************************************************************)
(* For every command line, every set of targets, every ladder and every     *)
(* bound on cycles: the exit code, the counters, the label and the          *)
(* hand-over of the probe loop say what was printed.                        *)
(*                                                                          *)
(* The counters are sums, cardinalities and latest indices over all the     *)
(* cycles printed so far, so the argument has two halves: what one more     *)
(* cycle does to each of them (an induction over the cycles, for the sums), *)
(* and an invariant that says which cycle report.Run.Add is given.          *)
(***************************************************************************)
EXTENDS ProbeRun, Ladders, Startup, SequenceTheorems, FiniteSetTheorems,
        WellFoundedInduction, TLAPS

(* A non-empty set of natural numbers has a least element. *)
LEMMA LeastNat ==
    ASSUME NEW S, S \subseteq Nat, S # {}
    PROVE  \E x \in S : \A y \in S : x <= y
<1>1. PICK x \in S : \A y \in S : ~ (<<y, x>> \in OpToRel(<, Nat))
  BY NatLessThanWellFounded, WFMin
<1>2. \A y \in S : ~ (y < x)
  BY <1>1 DEF OpToRel
<1>3. QED
  BY <1>2

(* Induction, over a set in place of a predicate. *)
LEMMA AllNat ==
    ASSUME NEW S, 0 \in S, \A k \in Nat : k \in S => k + 1 \in S
    PROVE  \A k \in Nat : k \in S
<1> DEFINE Bad == {k \in Nat : k \notin S}
<1>1. SUFFICES ASSUME Bad # {} PROVE FALSE
  OBVIOUS
<1>2. PICK x \in Bad : \A y \in Bad : x <= y
  BY <1>1, LeastNat
<1>3. x # 0 /\ x \in Nat
  OBVIOUS
<1>4. x - 1 \in Nat /\ ~ (x <= x - 1) /\ x - 1 + 1 = x
  BY <1>3
<1>5. x - 1 \in S
  BY <1>2, <1>4
<1>6. x \in S
  BY <1>4, <1>5
<1>7. QED
  BY <1>2, <1>6

(* What a partial sum is. *)
IsSum(g, s, n_) == g = [i \in 0..n_ |-> IF i = 0 THEN 0 ELSE g[i - 1] + s[i]]

(* Every sequence of numbers has partial sums. *)
LEMMA SumExists ==
    ASSUME NEW s \in Seq(Nat)
    PROVE  \E g \in [0..Len(s) -> Nat] : IsSum(g, s, Len(s))
<1> DEFINE Good == {k \in Nat : k <= Len(s) => \E g \in [0..k -> Nat] : IsSum(g, s, k)}
<1>1. 0 \in Good
  <2> DEFINE g == [i \in 0..0 |-> 0]
  <2>1. g \in [0..0 -> Nat] /\ IsSum(g, s, 0)
    BY DEF IsSum
  <2>2. QED
    BY <2>1
<1>2. ASSUME NEW k \in Nat, k \in Good PROVE k + 1 \in Good
  <2>1. SUFFICES ASSUME k + 1 <= Len(s)
                 PROVE  \E g \in [0..k+1 -> Nat] : IsSum(g, s, k + 1)
    OBVIOUS
  <2>2. Len(s) \in Nat
    BY LenProperties
  <2>3. PICK g \in [0..k -> Nat] : IsSum(g, s, k)
    BY <1>2, <2>1, <2>2
  <2>4. s[k + 1] \in Nat
    BY <2>1, <2>2, ElementOfSeq
  <2> DEFINE f == [i \in 0..k+1 |-> IF i = k + 1 THEN g[k] + s[k + 1] ELSE g[i]]
  <2>5. f \in [0..k+1 -> Nat]
    BY <2>4
  <2>6. ASSUME NEW i \in 0..k+1 PROVE f[i] = IF i = 0 THEN 0 ELSE f[i - 1] + s[i]
    <3>1. CASE i = 0
      BY <3>1, <2>3 DEF IsSum
    <3>2. CASE i = k + 1
      BY <3>2
    <3>3. CASE i \in 1..k
      <4>1. f[i] = g[i] /\ f[i - 1] = g[i - 1]
        BY <3>3
      <4>2. g[i] = g[i - 1] + s[i]
        BY <3>3, <2>3 DEF IsSum
      <4>3. QED
        BY <3>3, <4>1, <4>2
    <3>4. QED
      BY <3>1, <3>2, <3>3
  <2>7. IsSum(f, s, k + 1)
    BY <2>6 DEF IsSum
  <2>8. QED
    BY <2>5, <2>7
<1> HIDE DEF Good
<1>3. Len(s) \in Good
  BY <1>1, <1>2, AllNat, LenProperties
<1>4. QED
  BY <1>3, LenProperties DEF Good

(* The steps of partial sums. *)
SumsUp(g, s, m) == g[0] = 0 /\ \A i \in 1..m : g[i] = g[i - 1] + s[i]

(* Partial sums go up by the numbers, one at a time. *)
LEMMA SumSteps ==
    ASSUME NEW m \in Nat, NEW s, NEW g, IsSum(g, s, m)
    PROVE  SumsUp(g, s, m)
<1>1. g[0] = 0
  BY DEF IsSum
<1>2. ASSUME NEW i \in 1..m PROVE g[i] = g[i - 1] + s[i]
  BY DEF IsSum
<1>3. QED
  BY <1>1, <1>2 DEF SumsUp

(* Partial sums of the same numbers are the same. *)
LEMMA SumUnique ==
    ASSUME NEW m \in Nat, NEW s, NEW g, NEW h, SumsUp(g, s, m), SumsUp(h, s, m)
    PROVE  g[m] = h[m]
<1> DEFINE Good == {k \in Nat : k <= m => g[k] = h[k]}
<1>1. 0 \in Good
  BY DEF SumsUp
<1>2. ASSUME NEW k \in Nat, k \in Good PROVE k + 1 \in Good
  <2>1. SUFFICES ASSUME k + 1 <= m PROVE g[k + 1] = h[k + 1]
    OBVIOUS
  <2>2. g[k] = h[k]
    BY <1>2, <2>1
  <2>3. g[k + 1] = g[k] + s[k + 1] /\ h[k + 1] = h[k] + s[k + 1]
    BY <2>1 DEF SumsUp
  <2>4. QED
    BY <2>2, <2>3
<1> HIDE DEF Good
<1>3. m \in Good
  BY <1>1, <1>2, AllNat
<1>4. QED
  BY <1>3 DEF Good

(* The sum of a sequence is the last of its partial sums. *)
LEMMA SumIs ==
    ASSUME NEW s \in Seq(Nat)
    PROVE  \E g \in [0..Len(s) -> Nat] : IsSum(g, s, Len(s)) /\ Sum(s) = g[Len(s)]
<1> DEFINE c == CHOOSE g : IsSum(g, s, Len(s))
<1>1. IsSum(c, s, Len(s))
  BY SumExists
<1>2. Sum(s) = c[Len(s)]
  BY DEF Sum, IsSum
<1>3. PICK g \in [0..Len(s) -> Nat] : IsSum(g, s, Len(s))
  BY SumExists
<1> HIDE DEF c
<1>4. c[Len(s)] = g[Len(s)]
  <2> DEFINE m == Len(s)
  <2>1. m \in Nat
    BY LenProperties
  <2> HIDE DEF m
  <2>2. IsSum(c, s, m) /\ IsSum(g, s, m)
    BY <1>1, <1>3 DEF m
  <2>3. SumsUp(c, s, m) /\ SumsUp(g, s, m)
    BY <2>1, <2>2, SumSteps
  <2>4. c[m] = g[m]
    BY <2>1, <2>3, SumUnique
  <2>5. QED
    BY <2>4 DEF m
<1>5. QED
  BY <1>2, <1>3, <1>4

(* The empty sum, and one more summand. *)
LEMMA SumEmpty == Sum(<<>>) = 0
<1>1. <<>> \in Seq(Nat) /\ Len(<<>>) = 0
  BY EmptySeq
<1>2. PICK g : IsSum(g, <<>>, 0) /\ Sum(<<>>) = g[0]
  BY <1>1, SumIs
<1>3. QED
  BY <1>2 DEF IsSum

(* One more number adds itself to the sum. *)
LEMMA SumAppend ==
    ASSUME NEW s \in Seq(Nat), NEW x \in Nat
    PROVE  Sum(Append(s, x)) = Sum(s) + x
<1> DEFINE r == Append(s, x)
<1>1. /\ r \in Seq(Nat) /\ Len(r) = Len(s) + 1 /\ Len(s) \in Nat
      /\ \A i \in 1..Len(s) : r[i] = s[i]
      /\ r[Len(s) + 1] = x
  BY AppendProperties
<1> HIDE DEF r
<1>2. PICK g \in [0..Len(s) -> Nat] : IsSum(g, s, Len(s)) /\ Sum(s) = g[Len(s)]
  BY SumIs
<1>3. PICK h \in [0..Len(r) -> Nat] : IsSum(h, r, Len(r)) /\ Sum(r) = h[Len(r)]
  BY <1>1, SumIs
<1>4. Len(s) \in Nat /\ Len(r) \in Nat /\ Len(s) <= Len(s) /\ Len(s) <= Len(r)
  BY <1>1
<1>5. g[Len(s)] = h[Len(s)]
  <2> DEFINE m == Len(s)
  <2>1. m \in Nat
    BY <1>4
  <2> HIDE DEF m
  <2>2. SumsUp(g, s, m)
    BY <1>2, <2>1, SumSteps DEF m
  <2>3. SumsUp(h, r, Len(r))
    BY <1>3, <1>4, SumSteps
  <2>4. \A i \in 1..m : i \in 1..Len(r) /\ r[i] = s[i]
    BY <1>1 DEF m
  <2>5. SumsUp(h, s, m)
    BY <2>3, <2>4 DEF SumsUp
  <2>6. g[m] = h[m]
    BY <2>1, <2>2, <2>5, SumUnique
  <2>7. QED
    BY <2>6 DEF m
<1>6. h[Len(r)] = h[Len(s)] + x
  BY <1>1, <1>3 DEF IsSum
<1>7. QED
  BY <1>2, <1>3, <1>5, <1>6 DEF r

------------------------------------------------------------------------------
(* The latest of a set of cycle numbers: 0 of none, a new one beats all.    *)
LEMMA LatestIs ==
    ASSUME NEW len \in Nat, NEW ks, ks \subseteq 1..len
    PROVE  /\ Latest(ks) \in 0..len
           /\ ks = {} => Latest(ks) = 0
           /\ ks # {} => Latest(ks) \in ks /\ \A k \in ks : k <= Latest(ks)
<1>1. CASE ks = {}
  BY <1>1 DEF Latest
<1>2. CASE ks # {}
  <2> DEFINE Above == {len - k : k \in ks}
  <2>1. Above \subseteq Nat /\ Above # {}
    <3>1. \A k \in ks : k \in Nat /\ k <= len
      OBVIOUS
    <3>2. \A k \in ks : len - k \in Nat
      BY <3>1
    <3>3. QED
      BY <1>2, <3>2
  <2>2. PICK x \in Above : \A y \in Above : x <= y
    BY <2>1, LeastNat
  <2>3. PICK k \in ks : x = len - k
    BY <2>2
  <2>4. \A j \in ks : j <= k
    <3>1. SUFFICES ASSUME NEW j \in ks PROVE j <= k
      OBVIOUS
    <3>2. len - j \in Above
      OBVIOUS
    <3>3. len - k <= len - j
      BY <2>2, <2>3, <3>2
    <3>4. j \in 1..len /\ k \in 1..len
      OBVIOUS
    <3>5. QED
      BY <3>3, <3>4
  <2>5. \E l \in ks : \A j \in ks : j <= l
    BY <2>4
  <2>6. Latest(ks) \in ks /\ \A j \in ks : j <= Latest(ks)
    BY <1>2, <2>5 DEF Latest
  <2>7. Latest(ks) \in 0..len
    <3>1. \A j \in ks : j \in 0..len
      OBVIOUS
    <3>2. QED
      BY <2>6, <3>1
  <2>8. QED
    BY <1>2, <2>6, <2>7
<1>3. QED
  BY <1>1, <1>2

(* A new last index is the latest. *)
LEMMA LatestNew ==
    ASSUME NEW len \in Nat, NEW ks, ks \subseteq 1..len
    PROVE  Latest(ks \cup {len + 1}) = len + 1
<1>1. ks \cup {len + 1} \subseteq 1..(len + 1) /\ len + 1 \in Nat
  OBVIOUS
<1>2. /\ Latest(ks \cup {len + 1}) \in 0..(len + 1)
      /\ len + 1 <= Latest(ks \cup {len + 1})
  BY <1>1, LatestIs
<1>3. QED
  BY <1>2

------------------------------------------------------------------------------
(* Cycles.                                                                  *)

(* A cycle with one more at its end. *)
LEMMA OneMore ==
    ASSUME NEW p \in Seq(CycleType), NEW c \in CycleType
    PROVE  /\ Append(p, c) \in Seq(CycleType) /\ Len(p) \in Nat
           /\ Len(Append(p, c)) = Len(p) + 1
           /\ DOMAIN p = 1..Len(p) /\ DOMAIN Append(p, c) = 1..(Len(p) + 1)
           /\ \A k \in 1..Len(p) : Append(p, c)[k] = p[k] /\ p[k] \in CycleType
           /\ Append(p, c)[Len(p) + 1] = c
  BY AppendProperties, ElementOfSeq, LenProperties

(* The target has a place in the cycle. *)
Covers(c, t) == \E i \in DOMAIN c : c[i].target = t

(* The lines of a target that has a place are the lines of a run. *)
LEMMA LinesInTyped ==
    ASSUME NEW c \in CycleType, NEW t, Covers(c, t)
    PROVE  LinesIn(c, t) \in Runs
<1>1. PICK i \in DOMAIN c : LinesIn(c, t) = c[i].lines
  BY DEF Covers, LinesIn
<1>2. c[i] \in [target: AllTargets, lines: Runs]
  BY <1>1, ElementOfSeq, LenProperties DEF CycleType
<1>3. QED
  BY <1>1, <1>2

(* The lines a target had, cycle by cycle, their numbers and their OKs. *)
LinesTo(p, t) == [k \in DOMAIN p |-> LinesIn(p[k], t)]
Lengths(s) == [k \in DOMAIN s |-> Len(s[k])]
OkaysOf(s) == [k \in DOMAIN s |-> Okays(s[k])]

(* What is counted of a run is a number. *)
LEMMA OkaysTyped == ASSUME NEW s \in Runs PROVE Okays(s) \in Nat /\ Len(s) \in Nat
<1> DEFINE good == {i \in DOMAIN s : s[i].ok}
<1>1. Len(s) \in Nat /\ DOMAIN s = 1..Len(s)
  BY LenProperties DEF Runs
<1>2. IsFiniteSet(DOMAIN s)
  BY <1>1, FS_Interval
<1>3. IsFiniteSet(good)
  BY <1>2, FS_Subset
<1>4. QED
  BY <1>1, <1>3, FS_CardinalityType DEF Okays

(* The lines of a target that every cycle covers. *)
LEMMA LinesToTyped ==
    ASSUME NEW p \in Seq(CycleType), NEW t, \A k \in DOMAIN p : Covers(p[k], t)
    PROVE  /\ LinesTo(p, t) \in Seq(Runs)
           /\ DOMAIN LinesTo(p, t) = DOMAIN p /\ Len(LinesTo(p, t)) = Len(p)
           /\ \A k \in DOMAIN p : LinesTo(p, t)[k] = LinesIn(p[k], t) /\ LinesIn(p[k], t) \in Runs
<1>1. Len(p) \in Nat /\ DOMAIN p = 1..Len(p)
  BY LenProperties
<1>2. \A k \in 1..Len(p) : LinesIn(p[k], t) \in Runs
  BY <1>1, ElementOfSeq, LinesInTyped
<1>3. LinesTo(p, t) = [k \in 1..Len(p) |-> LinesIn(p[k], t)]
  BY <1>1 DEF LinesTo
<1>4. QED
  BY <1>1, <1>2, <1>3

(* One more cycle is one more run of every target it covers. *)
LEMMA LinesToAppend ==
    ASSUME NEW p \in Seq(CycleType), NEW c \in CycleType, NEW t,
           \A k \in DOMAIN p : Covers(p[k], t), Covers(c, t)
    PROVE  LinesTo(Append(p, c), t) = Append(LinesTo(p, t), LinesIn(c, t))
<1> DEFINE a == LinesTo(Append(p, c), t)
           b == Append(LinesTo(p, t), LinesIn(c, t))
<1>1. a = [k \in 1..(Len(p) + 1) |-> LinesIn(Append(p, c)[k], t)]
  BY OneMore DEF LinesTo
<1>2. /\ Len(p) \in Nat /\ LinesTo(p, t) \in Seq(Runs) /\ LinesIn(c, t) \in Runs
      /\ Len(LinesTo(p, t)) = Len(p)
  BY OneMore, LinesToTyped, LinesInTyped
<1>3. /\ b \in Seq(Runs) /\ Len(b) = Len(p) + 1
      /\ \A k \in 1..Len(p) : b[k] = LinesTo(p, t)[k]
      /\ b[Len(p) + 1] = LinesIn(c, t)
  BY <1>2, AppendProperties
<1>4. \A k \in 1..Len(p) : b[k] = LinesIn(p[k], t)
  BY <1>3, LinesToTyped, OneMore
<1> HIDE DEF a, b
<1>5. b = [k \in 1..(Len(p) + 1) |-> b[k]]
  BY <1>3
<1>6. \A k \in 1..(Len(p) + 1) : b[k] = LinesIn(Append(p, c)[k], t)
  <2>1. SUFFICES ASSUME NEW k \in 1..(Len(p) + 1) PROVE b[k] = LinesIn(Append(p, c)[k], t)
    OBVIOUS
  <2>2. k \in 1..Len(p) \/ k = Len(p) + 1
    BY <1>2
  <2>3. QED
    BY <1>3, <1>4, <2>2, OneMore
<1>7. a = b
  BY <1>1, <1>5, <1>6
<1>8. QED
  BY <1>7 DEF a, b

(* The counts of runs are numbers ... *)
LEMMA CountsTyped ==
    ASSUME NEW s \in Seq(Runs)
    PROVE  Lengths(s) \in Seq(Nat) /\ OkaysOf(s) \in Seq(Nat)
<1>1. Len(s) \in Nat /\ DOMAIN s = 1..Len(s) /\ \A k \in 1..Len(s) : s[k] \in Runs
  BY LenProperties, ElementOfSeq
<1>2. \A k \in 1..Len(s) : Len(s[k]) \in Nat /\ Okays(s[k]) \in Nat
  BY <1>1, OkaysTyped
<1>3. Lengths(s) = [k \in 1..Len(s) |-> Len(s[k])] /\ OkaysOf(s) = [k \in 1..Len(s) |-> Okays(s[k])]
  BY <1>1 DEF Lengths, OkaysOf
<1>4. Lengths(s) \in Seq(Nat)
  BY <1>1, <1>2, <1>3
<1>5. OkaysOf(s) \in Seq(Nat)
  BY <1>1, <1>2, <1>3
<1>6. QED
  BY <1>4, <1>5

(* ... and one more run is one more count. *)
LEMMA CountsAppend ==
    ASSUME NEW s \in Seq(Runs), NEW r \in Runs
    PROVE  /\ Lengths(Append(s, r)) = Append(Lengths(s), Len(r))
           /\ OkaysOf(Append(s, r)) = Append(OkaysOf(s), Okays(r))
<1> DEFINE q == Append(s, r)
<1>1. /\ Len(s) \in Nat /\ DOMAIN s = 1..Len(s) /\ DOMAIN q = 1..(Len(s) + 1)
      /\ \A k \in 1..Len(s) : q[k] = s[k] /\ q[Len(s) + 1] = r
  BY LenProperties, AppendProperties
<1>1a. q[Len(s) + 1] = r
  BY AppendProperties
<1>2. Lengths(s) \in Seq(Nat) /\ OkaysOf(s) \in Seq(Nat) /\ Len(r) \in Nat /\ Okays(r) \in Nat
  BY CountsTyped, OkaysTyped
<1>3. Lengths(s) = [k \in 1..Len(s) |-> Len(s[k])] /\ OkaysOf(s) = [k \in 1..Len(s) |-> Okays(s[k])]
  BY <1>1 DEF Lengths, OkaysOf
<1>4. Len(Lengths(s)) = Len(s) /\ Len(OkaysOf(s)) = Len(s)
  BY <1>1, <1>3
<1> HIDE DEF q
<1>5. Lengths(q) = Append(Lengths(s), Len(r))
  <2> DEFINE b == Append(Lengths(s), Len(r))
  <2>1. /\ b \in Seq(Nat) /\ Len(b) = Len(s) + 1 /\ b[Len(s) + 1] = Len(r)
        /\ \A k \in 1..Len(s) : b[k] = Lengths(s)[k]
    BY <1>2, <1>4, AppendProperties
  <2> HIDE DEF b
  <2>2. b = [k \in 1..(Len(s) + 1) |-> b[k]]
    BY <2>1
  <2>3. ASSUME NEW k \in 1..(Len(s) + 1) PROVE b[k] = Len(q[k])
    <3>1. k \in 1..Len(s) \/ k = Len(s) + 1
      BY <1>1
    <3>2. k \in 1..Len(s) => b[k] = Len(s[k])
      BY <1>3, <2>1
    <3>3. QED
      BY <1>1, <1>1a, <2>1, <3>1, <3>2
  <2>4. Lengths(q) = [k \in 1..(Len(s) + 1) |-> Len(q[k])]
    BY <1>1 DEF Lengths
  <2>5. Lengths(q) = b
    BY <2>2, <2>3, <2>4
  <2>6. QED
    BY <2>5 DEF b
<1>6. OkaysOf(q) = Append(OkaysOf(s), Okays(r))
  <2> DEFINE b == Append(OkaysOf(s), Okays(r))
  <2>1. /\ b \in Seq(Nat) /\ Len(b) = Len(s) + 1 /\ b[Len(s) + 1] = Okays(r)
        /\ \A k \in 1..Len(s) : b[k] = OkaysOf(s)[k]
    BY <1>2, <1>4, AppendProperties
  <2> HIDE DEF b
  <2>2. b = [k \in 1..(Len(s) + 1) |-> b[k]]
    BY <2>1
  <2>3. ASSUME NEW k \in 1..(Len(s) + 1) PROVE b[k] = Okays(q[k])
    <3>1. k \in 1..Len(s) \/ k = Len(s) + 1
      BY <1>1
    <3>2. k \in 1..Len(s) => b[k] = Okays(s[k])
      BY <1>3, <2>1
    <3>3. QED
      BY <1>1, <1>1a, <2>1, <3>1, <3>2
  <2>4. OkaysOf(q) = [k \in 1..(Len(s) + 1) |-> Okays(q[k])]
    BY <1>1 DEF OkaysOf
  <2>5. OkaysOf(q) = b
    BY <2>2, <2>3, <2>4
  <2>6. QED
    BY <2>5 DEF b
<1>7. QED
  BY <1>5, <1>6 DEF q

------------------------------------------------------------------------------
(* report.Run.Add.                                                          *)

Bad(p) == {k \in DOMAIN p : ~CycleOK(p[k])}
CyclesUp(r, p) ==
    /\ r.cycles = Len(p)
    /\ r.degraded = Cardinality(Bad(p)) /\ r.clean = Len(p) - Cardinality(Bad(p))
    /\ r.failingSince = IF Latest(DOMAIN p \ Bad(p)) = Len(p) THEN 0
                        ELSE Latest(DOMAIN p \ Bad(p)) + 1
TargetUp(r, p, t) ==
    /\ r.total[t] = Sum(Lengths(LinesTo(p, t)))
    /\ r.okays[t] = Sum(OkaysOf(LinesTo(p, t)))
    /\ r.lastFail[t] = Latest({k \in DOMAIN p : ~AllOK(LinesTo(p, t)[k])})
    /\ p # <<>> => r.lastOK[t] = (r.lastFail[t] # Len(p))

(* One more cycle is a bad one, or no bad one is added. *)
LEMMA BadAppend ==
    ASSUME NEW p \in Seq(CycleType), NEW c \in CycleType
    PROVE  /\ Bad(p) \subseteq 1..Len(p) /\ IsFiniteSet(Bad(p)) /\ Cardinality(Bad(p)) \in Nat
           /\ CycleOK(c) => Bad(Append(p, c)) = Bad(p)
           /\ ~CycleOK(c) => Bad(Append(p, c)) = Bad(p) \cup {Len(p) + 1}
<1>1. Bad(p) \subseteq 1..Len(p)
  BY OneMore DEF Bad
<1>2. IsFiniteSet(1..Len(p))
  BY OneMore, FS_Interval
<1>3. IsFiniteSet(Bad(p)) /\ Cardinality(Bad(p)) \in Nat
  BY <1>1, <1>2, FS_Subset, FS_CardinalityType
<1> DEFINE q == Append(p, c)
<1>4. /\ Len(p) \in Nat /\ DOMAIN p = 1..Len(p) /\ DOMAIN q = 1..(Len(p) + 1)
      /\ q[Len(p) + 1] = c /\ \A k \in 1..Len(p) : q[k] = p[k]
  BY OneMore
<1> HIDE DEF q
<1>5. ASSUME CycleOK(c) PROVE Bad(q) = Bad(p)
  BY <1>4, <1>5 DEF Bad
<1>6. ASSUME ~CycleOK(c) PROVE Bad(q) = Bad(p) \cup {Len(p) + 1}
  BY <1>4, <1>6 DEF Bad
<1>7. QED
  BY <1>1, <1>3, <1>5, <1>6 DEF q

(* Add keeps the run's own counters: cycles, clean, degraded, failing since. *)
LEMMA CyclesStep ==
    ASSUME NEW p \in Seq(CycleType), NEW c \in CycleType, NEW r, CyclesUp(r, p)
    PROVE  CyclesUp(Add(r, c, Len(p) + 1), Append(p, c))
<1> DEFINE q == Append(p, c)
           a == Add(r, c, Len(p) + 1)
           clean == DOMAIN p \ Bad(p)
<1>1. /\ Len(p) \in Nat /\ Len(q) = Len(p) + 1
      /\ DOMAIN p = 1..Len(p) /\ DOMAIN q = 1..(Len(p) + 1)
  BY OneMore
<1>2. /\ Bad(p) \subseteq 1..Len(p) /\ IsFiniteSet(Bad(p)) /\ Cardinality(Bad(p)) \in Nat
      /\ CycleOK(c) => Bad(q) = Bad(p)
      /\ ~CycleOK(c) => Bad(q) = Bad(p) \cup {Len(p) + 1}
  BY BadAppend
<1>3. /\ a.cycles = r.cycles + 1
      /\ a.clean = IF CycleOK(c) THEN r.clean + 1 ELSE r.clean
      /\ a.degraded = IF CycleOK(c) THEN r.degraded ELSE r.degraded + 1
      /\ a.failingSince = Since(r, CycleOK(c), Len(p) + 1)
  BY DEF Add
<1>4. /\ r.cycles = Len(p)
      /\ r.degraded = Cardinality(Bad(p)) /\ r.clean = Len(p) - Cardinality(Bad(p))
      /\ r.failingSince = IF Latest(clean) = Len(p) THEN 0 ELSE Latest(clean) + 1
  BY DEF CyclesUp
<1>5. Latest(clean) \in 0..Len(p)
  BY <1>1, LatestIs
<1> HIDE DEF q, a, clean
<1>6. Len(p) + 1 \notin Bad(p)
  BY <1>1, <1>2
<1>7. CASE CycleOK(c)
  <2>1. DOMAIN q \ Bad(q) = clean \cup {Len(p) + 1}
    BY <1>1, <1>2, <1>6, <1>7 DEF clean
  <2>2. Latest(DOMAIN q \ Bad(q)) = Len(p) + 1
    BY <1>1, <2>1, LatestNew DEF clean
  <2>3. a.failingSince = 0
    BY <1>3, <1>7 DEF Since
  <2>4. a.clean = Len(q) - Cardinality(Bad(q)) /\ a.degraded = Cardinality(Bad(q)) /\ a.cycles = Len(q)
    BY <1>1, <1>2, <1>3, <1>4, <1>7
  <2>5. CyclesUp(a, q)
    BY <1>1, <2>2, <2>3, <2>4 DEF CyclesUp
  <2>6. QED
    BY <2>5 DEF a, q
<1>8. CASE ~CycleOK(c)
  <2>1. DOMAIN q \ Bad(q) = clean
    BY <1>1, <1>2, <1>8 DEF clean
  <2>2. Cardinality(Bad(q)) = Cardinality(Bad(p)) + 1
    BY <1>2, <1>6, <1>8, FS_AddElement
  <2>3. a.clean = Len(q) - Cardinality(Bad(q)) /\ a.degraded = Cardinality(Bad(q)) /\ a.cycles = Len(q)
    BY <1>1, <1>2, <1>3, <1>4, <1>8, <2>2
  <2>4. a.failingSince = Latest(clean) + 1
    BY <1>1, <1>3, <1>4, <1>5, <1>8 DEF Since
  <2>5. Latest(clean) # Len(q)
    BY <1>1, <1>5
  <2>6. CyclesUp(a, q)
    BY <2>1, <2>3, <2>4, <2>5 DEF CyclesUp
  <2>7. QED
    BY <2>6 DEF a, q
<1>9. QED
  BY <1>7, <1>8

(* Add keeps the counters of each target. *)
LEMMA TargetStep ==
    ASSUME NEW p \in Seq(CycleType), NEW c \in CycleType, NEW ts, NEW r \in RunType(ts),
           NEW t \in ts, \A k \in DOMAIN p : Covers(p[k], t), Covers(c, t), TargetUp(r, p, t)
    PROVE  TargetUp(Add(r, c, Len(p) + 1), Append(p, c), t)
<1> DEFINE q == Append(p, c)
           a == Add(r, c, Len(p) + 1)
           x == LinesIn(c, t)
           s == LinesTo(p, t)
           u == LinesTo(q, t)
           failed == {k \in DOMAIN p : ~AllOK(s[k])}
<1>1. /\ Len(p) \in Nat /\ Len(q) = Len(p) + 1
      /\ DOMAIN p = 1..Len(p) /\ DOMAIN q = 1..(Len(p) + 1)
  BY OneMore
<1>2. x \in Runs /\ s \in Seq(Runs) /\ Len(s) = Len(p)
  BY LinesInTyped, LinesToTyped
<1>3. u = Append(s, x)
  BY LinesToAppend
<1>4. /\ \A k \in 1..Len(p) : u[k] = s[k]
      /\ u[Len(p) + 1] = x
  BY <1>2, <1>3, AppendProperties
<1>5. /\ a.total[t] = r.total[t] + Len(x) /\ a.okays[t] = r.okays[t] + Okays(x)
      /\ a.lastOK[t] = AllOK(x)
      /\ a.lastFail[t] = IF AllOK(x) THEN r.lastFail[t] ELSE Len(p) + 1
  BY DEF Add, RunType
<1>6. Lengths(s) \in Seq(Nat) /\ OkaysOf(s) \in Seq(Nat) /\ Len(x) \in Nat /\ Okays(x) \in Nat
  BY <1>2, CountsTyped, OkaysTyped
<1> HIDE DEF q, a, x, s, u
<1>7. Sum(Lengths(u)) = Sum(Lengths(s)) + Len(x) /\ Sum(OkaysOf(u)) = Sum(OkaysOf(s)) + Okays(x)
  BY <1>2, <1>3, <1>6, CountsAppend, SumAppend
<1>8. /\ r.total[t] = Sum(Lengths(s)) /\ r.okays[t] = Sum(OkaysOf(s))
      /\ r.lastFail[t] = Latest(failed)
  BY DEF TargetUp, s
<1>9. failed \subseteq 1..Len(p) /\ Latest(failed) \in 0..Len(p)
  BY <1>1, LatestIs
<1>10. a.lastFail[t] = Latest({k \in DOMAIN q : ~AllOK(u[k])})
  <2>1. CASE AllOK(x)
    <3>1. {k \in DOMAIN q : ~AllOK(u[k])} = failed
      BY <1>1, <1>4, <2>1
    <3>2. QED
      BY <1>5, <1>8, <2>1, <3>1
  <2>2. CASE ~AllOK(x)
    <3>1. {k \in DOMAIN q : ~AllOK(u[k])} = failed \cup {Len(p) + 1}
      BY <1>1, <1>4, <2>2
    <3> HIDE DEF failed
    <3>2. Latest(failed \cup {Len(p) + 1}) = Len(p) + 1
      BY <1>1, <1>9, LatestNew
    <3>3. QED
      BY <1>5, <2>2, <3>1, <3>2
  <2>3. QED
    BY <2>1, <2>2
<1>11. a.lastOK[t] = (a.lastFail[t] # Len(q))
  <2> HIDE DEF failed
  <2>1. AllOK(x) \in BOOLEAN
    BY DEF AllOK
  <2>2. AllOK(x) => a.lastFail[t] # Len(q)
    BY <1>1, <1>5, <1>8, <1>9
  <2>3. ~AllOK(x) => a.lastFail[t] = Len(q)
    BY <1>1, <1>5
  <2>4. QED
    BY <1>5, <2>1, <2>2, <2>3
<1>12. TargetUp(a, q, t)
  BY <1>5, <1>7, <1>8, <1>10, <1>11 DEF TargetUp, u
<1>13. QED
  BY <1>12 DEF a, q

------------------------------------------------------------------------------
(* The inductive invariant.                                                 *)

Started == config.runs /\ pc # "start"
Nothing ==
    /\ n = 0 /\ printed = <<>> /\ label = <<>> /\ queue = <<>> /\ written = <<>>
    /\ dropped = {} /\ ~run.anyFailed /\ ~printFailed

\* Where the main goroutine is, and what it has done by then.
Places ==
    /\ pc = "start" \/ ~config.runs => Nothing
    /\ ~config.runs => pc \in {"start", "exited"} /\ (pc = "exited" => exitCode = config.code)
    /\ pc # "exited" => exitCode = NoCode
    /\ Started => /\ n >= 1 /\ DOMAIN worker = TargetSet
                  /\ n = IF pc = "probing" THEN Len(printed) + 1 ELSE Len(printed)
    /\ pc = "start" => DOMAIN worker = {}

\* The two marks the exit code is made of are those of the lines.
Verdicts ==
    /\ run.anyFailed <=> \E k \in DOMAIN printed : ~CycleOK(printed[k])
    /\ printFailed <=> \E k \in DOMAIN label : ~AllOK(label[k].lines)
    /\ pc = "exited" /\ config.runs => exitCode = IF run.anyFailed \/ printFailed THEN 1 ELSE 0

\* The print job runs after the first cycle and before the second.
Labelled ==
    /\ pc = "printing" => config.printing /\ n = 1
    /\ Started => Len(label) = IF config.printing /\ printed # <<>> /\ pc # "printing" THEN 1 ELSE 0
    /\ \A k \in DOMAIN label :
         /\ label[k].of = printed[1]
         /\ AllOK(label[k].lines) => label[k].fax /\ label[k].job = "whole"

\* Only printed cycles are handed over or given up.
HandedOver ==
    /\ \A i \in DOMAIN (written \o queue) : (written \o queue)[i] \in DOMAIN printed
    /\ dropped \subseteq DOMAIN printed
    /\ HandoverKeepsOrder

IInv == TypeOK /\ Places /\ Verdicts /\ Labelled /\ HandedOver /\ RunAddsUp

(* The parts of the invariant used everywhere. *)
LEMMA InvTypes == ASSUME IInv PROVE TypeOK /\ Places
  BY DEF IInv

(* What a configuration that runs is made of. *)
LEMMA ConfigTyped ==
    ASSUME IInv, config.runs
    PROVE  /\ config \in RunConfigs
           /\ config.targets \in Seq(AllTargets) /\ config.printing \in BOOLEAN
           /\ config.netcheck \in BOOLEAN /\ config.creds \in Creds
           /\ TargetSet \subseteq AllTargets
           /\ \A i, j \in DOMAIN config.targets : i # j => config.targets[i] # config.targets[j]
<1>1. config \in Configs
  BY DEF IInv, TypeOK
<1>2. config \in RunConfigs
  BY <1>1, ConfigsAssumption
<1>3. /\ config.targets \in Seq(AllTargets) /\ config.printing \in BOOLEAN
      /\ config.netcheck \in BOOLEAN /\ config.creds \in Creds
  BY <1>2 DEF RunConfigs
<1>4. TargetSet \subseteq AllTargets
  BY <1>3, ElementOfSeq, LenProperties DEF TargetSet
<1>5. QED
  BY <1>1, <1>2, <1>3, <1>4, TargetsAssumption

(* The cycle that is printed has every target once, in order. *)
LEMMA CycleGrouped ==
    ASSUME IInv, config.runs, pc = "probing"
    PROVE  /\ Cycle \in CycleType /\ DOMAIN Cycle = DOMAIN config.targets
           /\ \A i \in DOMAIN Cycle : Cycle[i].target = config.targets[i]
<1>1. config.targets \in Seq(AllTargets)
  BY ConfigTyped
<1> DEFINE m == Len(config.targets)
<1>2. m \in Nat /\ DOMAIN config.targets = 1..m
  BY <1>1, LenProperties
<1>3. DOMAIN worker = TargetSet /\ found \in [TargetSet -> Runs]
  BY DEF IInv, Places, Started, TypeOK
<1>4. \A i \in 1..m : config.targets[i] \in AllTargets /\ config.targets[i] \in TargetSet
  BY <1>1, <1>2, ElementOfSeq DEF TargetSet
<1>5. \A i \in 1..m : found[config.targets[i]] \in Runs
  BY <1>3, <1>4
<1> HIDE DEF m
<1>6. Cycle = [i \in 1..m |-> [target |-> config.targets[i], lines |-> found[config.targets[i]]]]
  BY <1>2 DEF Cycle
<1>7. Cycle \in CycleType
  BY <1>2, <1>4, <1>5, <1>6 DEF CycleType
<1>8. QED
  BY <1>2, <1>6, <1>7

(* So it covers every target, and so does every cycle before it. *)
LEMMA AllCovered ==
    ASSUME IInv, Started, NEW t \in TargetSet
    PROVE  \A k \in DOMAIN printed : Covers(printed[k], t)
<1>1. PICK i \in DOMAIN config.targets : t = config.targets[i]
  BY DEF TargetSet
<1>2. \A k \in DOMAIN printed : i \in DOMAIN printed[k] /\ printed[k][i].target = t
  BY <1>1 DEF IInv, RunAddsUp, GroupedInOrder
<1>3. QED
  BY <1>2 DEF Covers

(* The cycle being collected covers every target. *)
LEMMA CycleCovers ==
    ASSUME IInv, Started, pc = "probing", NEW t \in TargetSet
    PROVE  Covers(Cycle, t)
<1>1. PICK i \in DOMAIN config.targets : t = config.targets[i]
  BY DEF TargetSet
<1>2. i \in DOMAIN Cycle /\ Cycle[i].target = t
  BY <1>1, CycleGrouped DEF Started
<1>3. QED
  BY <1>2 DEF Covers

(* Run.Add keeps the counters well typed. *)
LEMMA AddTyped ==
    ASSUME NEW ts, NEW r \in RunType(ts), NEW c \in CycleType, NEW k \in Nat,
           \A t \in ts : Covers(c, t)
    PROVE  Add(r, c, k) \in RunType(ts)
<1>1. \A t \in ts : LinesIn(c, t) \in Runs
  BY LinesInTyped
<1>2. \A t \in ts : Len(LinesIn(c, t)) \in Nat /\ Okays(LinesIn(c, t)) \in Nat
  BY <1>1, OkaysTyped
<1>3. \A t \in ts : AllOK(LinesIn(c, t)) \in BOOLEAN
  BY DEF AllOK
<1>4. CycleOK(c) \in BOOLEAN
  BY DEF CycleOK
<1> DEFINE a == Add(r, c, k)
<1>5. /\ a.cycles \in Nat /\ a.clean \in Nat /\ a.degraded \in Nat
      /\ a.anyFailed \in BOOLEAN /\ a.failingSince \in Nat
  BY <1>4 DEF Add, RunType, Since
<1>6. DOMAIN r.okays = ts /\ DOMAIN r.total = ts /\ DOMAIN r.lastOK = ts /\ DOMAIN r.lastFail = ts
  BY DEF RunType
<1>7. a.okays \in [ts -> Nat] /\ a.total \in [ts -> Nat]
  BY <1>2, <1>6 DEF Add, RunType
<1>8. a.lastOK \in [ts -> BOOLEAN]
  BY <1>3, <1>6 DEF Add
<1>9. a.lastFail \in [ts -> Nat]
  BY <1>6 DEF Add, RunType
<1>10. a = [cycles |-> a.cycles, clean |-> a.clean, degraded |-> a.degraded,
            anyFailed |-> a.anyFailed, failingSince |-> a.failingSince, okays |-> a.okays,
            total |-> a.total, lastOK |-> a.lastOK, lastFail |-> a.lastFail]
  BY DEF Add
<1> HIDE DEF a
<1>11. a \in RunType(ts)
  BY <1>5, <1>7, <1>8, <1>9, <1>10 DEF RunType
<1>12. QED
  BY <1>11 DEF a

(* The counters of NewRun are well typed. *)
LEMMA NewRunTyped == ASSUME NEW ts PROVE NewRun(ts) \in RunType(ts)
  BY DEF NewRun, RunType

------------------------------------------------------------------------------
(* The state is well typed at the start ... *)
LEMMA TypeInit == Init => TypeOK
<1>1. SUFFICES ASSUME Init PROVE TypeOK
  OBVIOUS
<1>2. /\ worker \in [DOMAIN worker -> WorkerStates] /\ DOMAIN worker = {}
      /\ found \in [DOMAIN worker -> Runs]
  BY <1>1 DEF Init
<1>3. run \in RunType(DOMAIN worker)
  BY <1>1, <1>2, NewRunTyped DEF Init
<1>4. /\ queue \in Seq(1..MaxCycles) /\ Len(queue) = 0 /\ written \in Seq(1..MaxCycles)
      /\ printed \in Seq(CycleType)
      /\ label \in Seq([lines: Runs, fax: BOOLEAN, job: Jobs, of: CycleType])
  BY <1>1 DEF Init
<1>5. n \in 0..MaxCycles /\ Len(queue) <= ProbeQueue /\ dropped \subseteq 1..MaxCycles
  BY <1>1, <1>4, ProbeQueueAssumption, MaxCyclesAssumption DEF Init
<1>6. /\ config \in Configs /\ ctx \in {"live", "done"} /\ pc = "start"
      /\ printFailed \in BOOLEAN /\ writer = "idle" /\ exitCode = NoCode
  BY <1>1 DEF Init
<1>7. DOMAIN worker \subseteq AllTargets
  BY <1>2
<1>8. QED
  BY <1>2, <1>3, <1>4, <1>5, <1>6, <1>7 DEF TypeOK

(* The goroutines of a new cycle are well typed. *)
LEMMA SpawnTyped ==
    ASSUME NEW ts \in SUBSET AllTargets, Spawn(ts)
    PROVE  /\ worker' \in [DOMAIN worker' -> WorkerStates] /\ DOMAIN worker' = ts
           /\ found' \in [DOMAIN worker' -> Runs]
<1>1. <<>> \in Runs
  BY EmptySeq DEF Runs
<1>2. QED
  BY <1>1 DEF Spawn, WorkerStates

(* The hand-over keeps the queue within its capacity. *)
LEMMA PersistTyped ==
    ASSUME IInv, NEW k \in 1..MaxCycles, Persist(k)
    PROVE  /\ queue' \in Seq(1..MaxCycles) /\ Len(queue') <= ProbeQueue
           /\ dropped' \subseteq 1..MaxCycles
<1>1. queue \in Seq(1..MaxCycles) /\ Len(queue) \in Nat /\ Len(queue) <= ProbeQueue
      /\ dropped \subseteq 1..MaxCycles
  BY LenProperties DEF IInv, TypeOK
<1>2. CASE UNCHANGED queue /\ dropped' \subseteq dropped \cup {k}
  BY <1>1, <1>2
<1>3. CASE Len(queue) < ProbeQueue /\ queue' = Append(queue, k) /\ UNCHANGED dropped
  BY <1>1, <1>3, AppendProperties, ProbeQueueAssumption
<1>4. QED
  BY <1>2, <1>3 DEF Persist

(* ... and after every step. *)
LEMMA TypeStep == IInv /\ [Next]_vars => TypeOK'
<1>1. SUFFICES ASSUME IInv, [Next]_vars PROVE TypeOK'
  OBVIOUS
<1>2. TypeOK /\ Places
  BY <1>1, InvTypes
<1>3. CASE UNCHANGED vars
  BY <1>2, <1>3 DEF vars, TypeOK
<1>4. CASE Refuse
  <2>1. config \in QuitConfigs
    BY <1>2, <1>4, ConfigsAssumption DEF Refuse, TypeOK
  <2>2. exitCode' \in {0, 2}
    BY <1>4, <2>1 DEF Refuse, QuitConfigs
  <2>3. QED
    BY <1>2, <1>4, <2>2 DEF Refuse, TypeOK
<1>5. CASE Begin
  <2>1. TargetSet \subseteq AllTargets
    BY <1>1, <1>5, ConfigTyped DEF Begin
  <2>2. /\ worker' \in [DOMAIN worker' -> WorkerStates] /\ DOMAIN worker' = TargetSet
        /\ found' \in [DOMAIN worker' -> Runs]
    BY <1>5, <2>1, SpawnTyped DEF Begin
  <2>3. run' \in RunType(DOMAIN worker')
    BY <1>5, <2>2, NewRunTyped DEF Begin
  <2>4. n' \in 0..MaxCycles
    BY <1>5, MaxCyclesAssumption DEF Begin
  <2>5. QED
    BY <1>2, <1>5, <2>1, <2>2, <2>3, <2>4 DEF Begin, TypeOK
<1>6. CASE EndCycle
  <2>1. Started /\ pc = "probing" /\ n \in 1..MaxCycles
    BY <1>2, <1>6 DEF EndCycle, Places, Started, TypeOK
  <2>2. Cycle \in CycleType
    BY <1>1, <2>1, CycleGrouped DEF Started
  <2>3. printed' \in Seq(CycleType)
    BY <1>2, <1>6, <2>2, AppendProperties DEF EndCycle, TypeOK
  <2>4. DOMAIN worker = TargetSet /\ \A t \in TargetSet : Covers(Cycle, t)
    BY <1>1, <1>2, <2>1, CycleCovers DEF Places
  <2>5. n \in Nat /\ run \in RunType(DOMAIN worker)
    BY <1>2, <2>1 DEF TypeOK
  <2>6. Add(run, Cycle, n) \in RunType(DOMAIN worker)
    BY <2>2, <2>4, <2>5, AddTyped
  <2>7. /\ queue' \in Seq(1..MaxCycles) /\ Len(queue') <= ProbeQueue
        /\ dropped' \subseteq 1..MaxCycles
    BY <1>1, <1>6, <2>1, PersistTyped DEF EndCycle
  <2>8. QED
    BY <1>2, <1>6, <2>3, <2>6, <2>7 DEF EndCycle, TypeOK
<1>7. CASE PrintOnce
  <2>1. Started /\ printed # <<>>
    BY <1>2, <1>7 DEF PrintOnce, Places, Started, TypeOK
  <2>2. printed[Len(printed)] \in CycleType
    BY <1>2, <2>1, ElementOfSeq, LenProperties, EmptySeq DEF TypeOK
  <2>3. PICK r \in PrintLadder[ctx = "done"] :
          /\ label' = Append(label, [lines |-> r.lines, fax |-> r.fax, job |-> r.job,
                                     of |-> printed[Len(printed)]])
          /\ printFailed' = ~AllOK(r.lines)
    BY <1>7 DEF PrintOnce
  <2>4. r.lines \in Runs /\ r.fax \in BOOLEAN /\ r.job \in Jobs
    BY <2>3, PrintLadderAssumption
  <2>5. label' \in Seq([lines: Runs, fax: BOOLEAN, job: Jobs, of: CycleType])
    BY <1>2, <2>2, <2>3, <2>4, AppendProperties DEF TypeOK
  <2>6. printFailed' \in BOOLEAN
    BY <2>3 DEF AllOK
  <2>7. QED
    BY <1>2, <1>7, <2>5, <2>6 DEF PrintOnce, TypeOK
<1>8. CASE Tick \/ Stop
  BY <1>2, <1>8 DEF Tick, Stop, TypeOK
<1>9. CASE Again
  <2>1. Started
    BY <1>2, <1>9 DEF Again, Places, Started
  <2>2. TargetSet \subseteq AllTargets /\ DOMAIN worker = TargetSet
    BY <1>1, <1>2, <2>1, ConfigTyped DEF Started, Places
  <2>3. /\ worker' \in [DOMAIN worker' -> WorkerStates] /\ DOMAIN worker' = TargetSet
        /\ found' \in [DOMAIN worker' -> Runs]
    BY <1>9, <2>2, SpawnTyped DEF Again
  <2>4. n' \in 0..MaxCycles
    BY <1>2, <1>9, MaxCyclesAssumption DEF Again, TypeOK
  <2>5. QED
    BY <1>2, <1>9, <2>2, <2>3, <2>4 DEF Again, TypeOK
<1>10. CASE Exit
  BY <1>2, <1>10 DEF Exit, TypeOK
<1>11. CASE Receive
  <2>1. Head(queue) \in 1..MaxCycles /\ Tail(queue) \in Seq(1..MaxCycles)
        /\ Len(Tail(queue)) = Len(queue) - 1 /\ Len(queue) \in Nat
    BY <1>2, <1>11, HeadTailProperties, LenProperties DEF Receive, TypeOK
  <2>2. written' \in Seq(1..MaxCycles)
    BY <1>2, <1>11, <2>1, AppendProperties DEF Receive, TypeOK
  <2>3. queue' \in Seq(1..MaxCycles) /\ Len(queue') <= ProbeQueue
    BY <1>2, <1>11, <2>1, ProbeQueueAssumption DEF Receive, TypeOK
  <2>4. QED
    BY <1>2, <1>11, <2>2, <2>3 DEF Receive, TypeOK, mainVars
<1>12. CASE Drain \/ CloseFile \/ Signal
  BY <1>2, <1>12 DEF Drain, CloseFile, Signal, TypeOK, mainVars
<1>13. ASSUME NEW t \in AllTargets, Target(t) PROVE TypeOK'
  <2>1. t \in DOMAIN worker
    BY <1>13 DEF Target
  <2>2. CASE Acquire(t)
    <3>1. worker' \in [DOMAIN worker' -> WorkerStates] /\ DOMAIN worker' = DOMAIN worker
      BY <1>2, <2>1, <2>2 DEF Acquire, TypeOK, WorkerStates
    <3>2. QED
      BY <1>2, <2>2, <3>1 DEF Acquire, TypeOK
  <2>3. CASE Probe(t)
    <3>1. config.runs
      BY <1>2, <2>3 DEF Probe, Places
    <3>2. config.creds \in Creds
      BY <1>1, <3>1, ConfigTyped
    <3>3. \A lines \in Ladder[config.creds][t][worker[t] = "aborting"] : lines \in Runs
      BY <1>13, <3>2, LadderAssumption
    <3>4. found' \in [DOMAIN worker -> Runs]
      BY <1>2, <2>3, <3>3 DEF Probe, TypeOK
    <3>5. worker' \in [DOMAIN worker' -> WorkerStates] /\ DOMAIN worker' = DOMAIN worker
      BY <1>2, <2>1, <2>3 DEF Probe, TypeOK, WorkerStates
    <3>6. QED
      BY <1>2, <2>3, <3>4, <3>5 DEF Probe, TypeOK
  <2>4. QED
    BY <1>13, <2>2, <2>3 DEF Target
<1>14. QED
  BY <1>1, <1>3, <1>4, <1>5, <1>6, <1>7, <1>8, <1>9, <1>10, <1>11, <1>12, <1>13
     DEF Next, Main, Writer, Halted

------------------------------------------------------------------------------
(* Every step keeps the main goroutine's place. *)
LEMMA PlacesStep == IInv /\ [Next]_vars => Places'
<1>1. SUFFICES ASSUME IInv, [Next]_vars PROVE Places'
  OBVIOUS
<1>2. TypeOK /\ Places
  BY <1>1, InvTypes
<1>3. CASE UNCHANGED vars
  BY <1>2, <1>3 DEF vars, Places, Started, Nothing, TargetSet
<1>4. CASE Refuse
  BY <1>2, <1>4 DEF Refuse, Places, Started, Nothing
<1>5. CASE Begin
  <2>1. DOMAIN worker' = TargetSet /\ TargetSet' = TargetSet
    BY <1>5 DEF Begin, Spawn, TargetSet
  <2>2. Len(<<>>) = 0
    OBVIOUS
  <2>3. n' = 1 /\ printed' = <<>> /\ pc' = "probing" /\ config'.runs /\ exitCode' = NoCode
    BY <1>2, <1>5 DEF Begin, Places, Nothing
  <2>4. QED
    BY <2>1, <2>2, <2>3 DEF Places, Started
<1>6. CASE EndCycle
  <2>1. Started /\ pc = "probing" /\ n = Len(printed) + 1 /\ n \in Nat
    BY <1>2, <1>6 DEF EndCycle, Places, Started, TypeOK
  <2>2. Cycle \in CycleType
    BY <1>1, <2>1, CycleGrouped DEF Started
  <2>3. Len(printed') = Len(printed) + 1
    BY <1>2, <1>6, <2>2, AppendProperties DEF EndCycle, TypeOK
  <2>4. /\ pc' \in {"printing", "select"} /\ n' = n /\ exitCode' = exitCode
        /\ config' = config /\ worker' = worker /\ TargetSet' = TargetSet
    BY <1>6 DEF EndCycle, TargetSet
  <2>5. QED
    BY <1>2, <2>1, <2>3, <2>4 DEF Places, Started
<1>7. CASE PrintOnce \/ Tick \/ Stop
  BY <1>2, <1>7 DEF PrintOnce, Tick, Stop, Places, Started, TargetSet
<1>8. CASE Again
  <2>1. /\ Started /\ n = Len(printed) /\ n \in Nat /\ n' = n + 1 /\ printed' = printed
        /\ pc' = "probing" /\ exitCode' = NoCode /\ config' = config
    BY <1>2, <1>8 DEF Again, Places, Started, TypeOK
  <2>2. DOMAIN worker' = TargetSet /\ TargetSet' = TargetSet
    BY <1>8 DEF Again, Spawn, TargetSet
  <2>3. QED
    BY <2>1, <2>2 DEF Places, Started
<1>9. CASE Exit
  BY <1>2, <1>9 DEF Exit, Places, Started, TargetSet
<1>10. CASE Receive
  <2>1. pc # "start" /\ config.runs
    BY <1>2, <1>10 DEF Receive, Places, Nothing
  <2>2. QED
    BY <1>2, <1>10, <2>1 DEF Receive, mainVars, Places, Started, TargetSet
<1>11. CASE Drain \/ CloseFile \/ Signal
  <2>1. /\ UNCHANGED <<config, pc, n, worker, run, printFailed, exitCode, printed, label, dropped>>
        /\ UNCHANGED <<queue, written>>
    BY <1>11 DEF Drain, CloseFile, Signal, mainVars
  <2>2. QED
    BY <1>2, <2>1 DEF Places, Started, Nothing, TargetSet
<1>12. ASSUME NEW t \in AllTargets, Target(t) PROVE Places'
  <2>1. pc = "probing" /\ DOMAIN worker' = DOMAIN worker
    BY <1>2, <1>12 DEF Target, Acquire, Probe, TypeOK
  <2>2. /\ config' = config /\ pc' = pc /\ n' = n /\ printed' = printed /\ exitCode' = exitCode
        /\ TargetSet' = TargetSet
    BY <1>12 DEF Target, Acquire, Probe, TargetSet
  <2>3. QED
    BY <1>2, <2>1, <2>2 DEF Places, Started
<1>13. QED
  BY <1>1, <1>3, <1>4, <1>5, <1>6, <1>7, <1>8, <1>9, <1>10, <1>11, <1>12
     DEF Next, Main, Writer, Halted

------------------------------------------------------------------------------
(* Every step keeps the two marks in agreement with the lines. *)
LEMMA VerdictsStep == IInv /\ [Next]_vars => Verdicts'
<1>1. SUFFICES ASSUME IInv, [Next]_vars PROVE Verdicts'
  OBVIOUS
<1>2. TypeOK /\ Places /\ Verdicts /\ Labelled
  BY <1>1 DEF IInv
<1>3. CASE UNCHANGED <<run, printed, printFailed, label, config>> /\ (pc' = "exited" /\ config.runs => pc = "exited" /\ exitCode' = exitCode)
  BY <1>2, <1>3 DEF Verdicts
<1>4. CASE Refuse
  BY <1>2, <1>4 DEF Refuse, Verdicts
<1>5. CASE Begin
  <2>1. printed' = <<>> /\ ~run'.anyFailed /\ printFailed' = printFailed /\ label' = label /\ pc' # "exited"
    BY <1>2, <1>5 DEF Begin, Places, Nothing, NewRun
  <2>2. QED
    BY <1>2, <2>1 DEF Verdicts
<1>6. CASE EndCycle
  <2>1. Started /\ pc = "probing"
    BY <1>2, <1>6 DEF EndCycle, Places, Started
  <2>2. Cycle \in CycleType
    BY <1>1, <2>1, CycleGrouped DEF Started
  <2> DEFINE c == Cycle
  <2>3. /\ DOMAIN printed = 1..Len(printed) /\ DOMAIN printed' = 1..(Len(printed) + 1)
        /\ Len(printed) \in Nat /\ printed'[Len(printed) + 1] = c
        /\ \A k \in 1..Len(printed) : printed'[k] = printed[k]
    BY <1>2, <1>6, <2>2, OneMore DEF EndCycle, TypeOK
  <2>4. run'.anyFailed = (run.anyFailed \/ ~CycleOK(c))
    BY <1>6 DEF EndCycle, Add
  <2> HIDE DEF c
  <2>5. (\E k \in DOMAIN printed' : ~CycleOK(printed'[k])) <=> ((\E k \in DOMAIN printed : ~CycleOK(printed[k])) \/ ~CycleOK(c))
    <3>1. Len(printed) + 1 \in DOMAIN printed'
      BY <2>3
    <3>2. \A k \in DOMAIN printed' : k \in DOMAIN printed \/ k = Len(printed) + 1
      BY <2>3
    <3>3. \A k \in DOMAIN printed : k \in DOMAIN printed' /\ printed'[k] = printed[k]
      BY <2>3
    <3>4. printed'[Len(printed) + 1] = c
      BY <2>3
    <3>5. QED
      BY <3>1, <3>2, <3>3, <3>4, Zenon
  <2>6. pc' # "exited" /\ printFailed' = printFailed /\ label' = label
    BY <1>6 DEF EndCycle
  <2>7. QED
    BY <1>2, <2>4, <2>5, <2>6 DEF Verdicts
<1>7. CASE PrintOnce
  <2>1. label = <<>>
    BY <1>2, <1>7, EmptySeq DEF PrintOnce, Labelled, Places, Started, TypeOK
  <2>2. PICK r \in PrintLadder[ctx = "done"] :
          /\ label' = Append(label, [lines |-> r.lines, fax |-> r.fax, job |-> r.job,
                                     of |-> printed[Len(printed)]])
          /\ printFailed' = ~AllOK(r.lines)
    BY <1>7 DEF PrintOnce
  <2>3. DOMAIN label' = {1} /\ label'[1].lines = r.lines
    BY <2>1, <2>2
  <2>4. pc' # "exited" /\ UNCHANGED <<run, printed>>
    BY <1>7 DEF PrintOnce
  <2>5. QED
    BY <1>2, <2>2, <2>3, <2>4 DEF Verdicts
<1>8. CASE Exit
  BY <1>2, <1>8 DEF Exit, Verdicts
<1>9. ASSUME Tick \/ Again \/ Stop \/ Writer \/ Signal \/ UNCHANGED vars \/ \E t \in AllTargets : Target(t)
      PROVE  UNCHANGED <<run, printed, printFailed, label, config>> /\ (pc' = "exited" /\ config.runs => pc = "exited" /\ exitCode' = exitCode)
  BY <1>9 DEF Tick, Again, Stop, Writer, Receive, Drain, CloseFile, Signal, vars, mainVars, Target, Acquire, Probe
<1>10. QED
  BY <1>1, <1>3, <1>4, <1>5, <1>6, <1>7, <1>8, <1>9 DEF Next, Main, Halted

------------------------------------------------------------------------------
(* Every step keeps what is known of the label. *)
LEMMA LabelledStep == IInv /\ [Next]_vars => Labelled'
<1>1. SUFFICES ASSUME IInv, [Next]_vars PROVE Labelled'
  OBVIOUS
<1>2. TypeOK /\ Places /\ Labelled
  BY <1>1 DEF IInv
<1>3. CASE UNCHANGED <<config, label, printed>> /\ pc' # "printing" /\ (pc' # "start" => pc \notin {"start", "printing"})
  BY <1>2, <1>3 DEF Labelled, Started
<1>4. CASE UNCHANGED <<config, label, printed, pc, n>>
  BY <1>2, <1>4 DEF Labelled, Started
<1>5. CASE Refuse
  BY <1>2, <1>5 DEF Refuse, Labelled, Started
<1>6. CASE Begin
  BY <1>2, <1>6 DEF Begin, Labelled, Started, Places, Nothing
<1>7. CASE EndCycle
  <2>1. Started /\ pc = "probing" /\ n = Len(printed) + 1
    BY <1>2, <1>7 DEF EndCycle, Places, Started
  <2>2. Cycle \in CycleType
    BY <1>1, <2>1, CycleGrouped DEF Started
  <2>3. /\ Len(printed) \in Nat /\ Len(printed') = Len(printed) + 1
        /\ \A k \in 1..Len(printed) : printed'[k] = printed[k]
    BY <1>2, <1>7, <2>2, OneMore DEF EndCycle, TypeOK
  <2>4. printed' # <<>>
    BY <2>3
  <2>5. config' = config /\ label' = label /\ n' = n
        /\ pc' = IF n = 1 /\ config.printing THEN "printing" ELSE "select"
    BY <1>7 DEF EndCycle
  <2>6. config.printing \in BOOLEAN
    BY <1>1, <2>1, ConfigTyped DEF Started
  <2>7. label \in Seq([lines: Runs, fax: BOOLEAN, job: Jobs, of: CycleType])
    BY <1>2 DEF TypeOK
  <2>8. Len(label') = IF config'.printing /\ printed' # <<>> /\ pc' # "printing" THEN 1 ELSE 0
    <3>1. printed = <<>> <=> n = 1
      BY <1>2, <2>1, <2>3, EmptySeq DEF TypeOK
    <3>2. QED
      BY <1>2, <2>1, <2>4, <2>5, <2>6, <3>1 DEF Labelled
  <2>9. ASSUME NEW k \in DOMAIN label' PROVE label'[k].of = printed'[1]
    <3>1. k \in DOMAIN label /\ Len(label) # 0
      BY <2>5, <2>7, LenProperties
    <3>2. Len(printed) # 0
      BY <1>2, <2>1, <3>1 DEF Labelled
    <3>3. printed'[1] = printed[1]
      BY <2>3, <3>2
    <3>4. QED
      BY <1>2, <2>5, <3>1, <3>3 DEF Labelled
  <2>10. QED
    BY <1>2, <2>1, <2>5, <2>8, <2>9 DEF Labelled
<1>8. CASE PrintOnce
  <2>1. Started /\ n = 1 /\ Len(printed) = 1 /\ config.printing
    BY <1>2, <1>8 DEF PrintOnce, Labelled, Places, Started
  <2>2. label = <<>>
    BY <1>2, <1>8, <2>1, EmptySeq DEF PrintOnce, Labelled, TypeOK
  <2>3. PICK r \in PrintLadder[ctx = "done"] :
          label' = Append(label, [lines |-> r.lines, fax |-> r.fax, job |-> r.job,
                                  of |-> printed[Len(printed)]])
    BY <1>8 DEF PrintOnce
  <2>4. AllOK(r.lines) => r.fax /\ r.job = "whole"
    BY <2>3, PrintedAssumption DEF AllOK
  <2>5. /\ Len(label') = 1 /\ DOMAIN label' = {1}
        /\ label'[1] = [lines |-> r.lines, fax |-> r.fax, job |-> r.job, of |-> printed[1]]
    BY <2>1, <2>2, <2>3
  <2>6. pc' = "select" /\ UNCHANGED <<config, printed>>
    BY <1>8 DEF PrintOnce
  <2>7. Len(<<>>) # 1
    OBVIOUS
  <2>8. printed' # <<>>
    BY <2>1, <2>6, <2>7
  <2>9. \A k \in DOMAIN label' :
          /\ label'[k].of = printed'[1]
          /\ AllOK(label'[k].lines) => label'[k].fax /\ label'[k].job = "whole"
    BY <2>4, <2>5, <2>6
  <2>10. QED
    BY <2>1, <2>5, <2>6, <2>8, <2>9 DEF Labelled
<1>9. CASE Tick \/ Again \/ Stop \/ Exit
  BY <1>3, <1>9 DEF Tick, Again, Stop, Exit
<1>10. ASSUME Writer \/ Signal \/ UNCHANGED vars \/ \E t \in AllTargets : Target(t)
       PROVE  UNCHANGED <<config, label, printed, pc, n>>
  BY <1>10 DEF Writer, Receive, Drain, CloseFile, Signal, vars, mainVars, Target, Acquire, Probe
<1>11. QED
  BY <1>1, <1>4, <1>5, <1>6, <1>7, <1>8, <1>9, <1>10 DEF Next, Main, Halted

------------------------------------------------------------------------------
(* The hand-over, of any sequence sent, any set given up and m cycles       *)
(* printed; on when netcheck takes them.                                    *)
Handed(sent, gone, m, on) ==
    /\ \A i \in DOMAIN sent : sent[i] \in 1..m
    /\ gone \subseteq 1..m
    /\ \A i, j \in DOMAIN sent : i < j => sent[i] < sent[j]
    /\ on => {sent[i] : i \in DOMAIN sent} \cup gone = 1..m
    /\ \A k \in gone :
         /\ \A i \in DOMAIN sent : sent[i] # k
         /\ Cardinality({i \in DOMAIN sent : sent[i] < k}) >= ProbeQueue

(* A cycle that is queued comes last, and once. *)
LEMMA HandedSent ==
    ASSUME NEW sent \in Seq(Nat), NEW gone, NEW m \in Nat, NEW on, Handed(sent, gone, m, on)
    PROVE  Handed(Append(sent, m + 1), gone, m + 1, on)
<1> DEFINE q == Append(sent, m + 1)
           l == Len(sent)
<1>1. /\ l \in Nat /\ DOMAIN sent = 1..l /\ DOMAIN q = 1..(l + 1)
      /\ q[l + 1] = m + 1 /\ \A i \in 1..l : q[i] = sent[i] /\ sent[i] \in 1..m
  BY AppendProperties, LenProperties DEF Handed
<1> HIDE DEF q, l
<1>2. \A i \in DOMAIN q : q[i] \in 1..(m + 1)
  BY <1>1
<1>3. gone \subseteq 1..(m + 1)
  BY DEF Handed
<1>4. ASSUME NEW i \in DOMAIN q, NEW j \in DOMAIN q, i < j PROVE q[i] < q[j]
  <2>1. i \in 1..l
    BY <1>1, <1>4
  <2>2. CASE j \in 1..l
    BY <1>1, <1>4, <2>1, <2>2 DEF Handed
  <2>3. CASE j = l + 1
    BY <1>1, <2>1, <2>3
  <2>4. QED
    BY <1>1, <2>2, <2>3
<1>5. ASSUME on PROVE {q[i] : i \in DOMAIN q} \cup gone = 1..(m + 1)
  <2>1. {q[i] : i \in DOMAIN q} = {sent[i] : i \in DOMAIN sent} \cup {m + 1}
    <3>1. ASSUME NEW i \in DOMAIN q PROVE q[i] \in {sent[j] : j \in DOMAIN sent} \cup {m + 1}
      <4>1. i \in 1..l \/ i = l + 1
        BY <1>1
      <4>2. QED
        BY <1>1, <4>1
    <3>2. ASSUME NEW i \in DOMAIN sent PROVE sent[i] \in {q[j] : j \in DOMAIN q}
      BY <1>1
    <3>3. m + 1 \in {q[j] : j \in DOMAIN q}
      <4>1. l + 1 \in DOMAIN q
        BY <1>1
      <4>2. QED
        BY <1>1, <4>1
    <3>4. QED
      BY <3>1, <3>2, <3>3
  <2>2. {sent[i] : i \in DOMAIN sent} \cup gone = 1..m
    BY <1>5 DEF Handed
  <2>3. 1..(m + 1) = 1..m \cup {m + 1}
    OBVIOUS
  <2>4. QED
    BY <2>1, <2>2, <2>3
<1>6. ASSUME NEW k \in gone
      PROVE  /\ \A i \in DOMAIN q : q[i] # k
             /\ Cardinality({i \in DOMAIN q : q[i] < k}) >= ProbeQueue
  <2>1. k \in 1..m
    BY DEF Handed
  <2>2. {i \in DOMAIN q : q[i] < k} = {i \in DOMAIN sent : sent[i] < k}
    BY <1>1, <2>1
  <2>3. Cardinality({i \in DOMAIN sent : sent[i] < k}) >= ProbeQueue /\ \A i \in DOMAIN sent : sent[i] # k
    BY <1>6 DEF Handed
  <2>4. \A i \in DOMAIN q : q[i] # k
    BY <1>1, <2>1, <2>3
  <2>5. QED
    BY <2>2, <2>3, <2>4
<1>7. Handed(q, gone, m + 1, on)
  BY <1>2, <1>3, <1>4, <1>5, <1>6 DEF Handed
<1>8. QED
  BY <1>7 DEF q

(* A cycle that is given up found the queue full of earlier ones. *)
LEMMA HandedGone ==
    ASSUME NEW sent \in Seq(Nat), NEW gone, NEW m \in Nat, NEW on, Handed(sent, gone, m, on),
           Len(sent) >= ProbeQueue
    PROVE  Handed(sent, gone \cup {m + 1}, m + 1, on)
<1> DEFINE l == Len(sent)
<1>1. /\ l \in Nat /\ DOMAIN sent = 1..l
      /\ \A i \in 1..l : sent[i] \in 1..m
  BY LenProperties DEF Handed
<1> HIDE DEF l
<1>2. Cardinality(1..l) = l
  <2>1. Cardinality(1..l) = IF 1 > l THEN 0 ELSE l - 1 + 1
    BY <1>1, FS_Interval
  <2>2. QED
    BY <1>1, <2>1
<1>3. {i \in DOMAIN sent : sent[i] < m + 1} = 1..l
  BY <1>1
<1>4. Cardinality({i \in DOMAIN sent : sent[i] < m + 1}) >= ProbeQueue
  BY <1>2, <1>3 DEF l
<1>5. \A i \in DOMAIN sent : sent[i] # m + 1 /\ sent[i] \in 1..(m + 1)
  BY <1>1
<1>6. on => {sent[i] : i \in DOMAIN sent} \cup (gone \cup {m + 1}) = 1..(m + 1)
  <2>1. on => {sent[i] : i \in DOMAIN sent} \cup gone = 1..m
    BY DEF Handed
  <2>2. 1..(m + 1) = 1..m \cup {m + 1}
    OBVIOUS
  <2>3. QED
    BY <2>1, <2>2
<1>7. gone \cup {m + 1} \subseteq 1..(m + 1)
  BY DEF Handed
<1>8. QED
  BY <1>4, <1>5, <1>6, <1>7 DEF Handed

(* Without netcheck nothing is handed over. *)
LEMMA HandedOff ==
    ASSUME NEW sent, NEW gone, NEW m \in Nat, Handed(sent, gone, m, FALSE)
    PROVE  Handed(sent, gone, m + 1, FALSE)
  BY DEF Handed

(* What is queued or written, and taking one from the queue to the file. *)
Sent == written \o queue

(* Taking from the queue to the file moves nothing; queueing is at the end. *)
LEMMA SentTyped ==
    ASSUME NEW a \in Seq(Nat), NEW b \in Seq(Nat), NEW k \in Nat
    PROVE  /\ a \o b \in Seq(Nat) /\ Len(a \o b) >= Len(b)
           /\ a \o Append(b, k) = Append(a \o b, k)
           /\ b # <<>> => Append(a, Head(b)) \o Tail(b) = a \o b
<1>1. Len(a) \in Nat /\ Len(b) \in Nat
  BY LenProperties
<1>2. a \o b \in Seq(Nat) /\ Len(a \o b) = Len(a) + Len(b)
  BY ConcatProperties
<1>3. a \o Append(b, k) = Append(a \o b, k)
  <2>1. <<k>> \in Seq(Nat)
    OBVIOUS
  <2>2. Append(b, k) = b \o <<k>> /\ Append(a \o b, k) = (a \o b) \o <<k>>
    BY <1>2, AppendIsConcat
  <2>3. QED
    BY <2>1, <2>2, ConcatAssociative
<1>4. ASSUME b # <<>> PROVE Append(a, Head(b)) \o Tail(b) = a \o b
  <2> DEFINE h == Head(b)
             t == Tail(b)
  <2>1. h \in Nat /\ t \in Seq(Nat) /\ Len(t) = Len(b) - 1 /\ h = b[1]
        /\ \A i \in 1..Len(t) : t[i] = b[i + 1]
    BY <1>4, HeadTailProperties
  <2>2. <<h>> \in Seq(Nat) /\ Len(<<h>>) = 1 /\ <<h>>[1] = h
    BY <2>1
  <2> HIDE DEF h, t
  <2>3. <<h>> \o t = b
    <3>1. /\ <<h>> \o t \in Seq(Nat) /\ Len(<<h>> \o t) = 1 + Len(t)
          /\ \A i \in 1..(1 + Len(t)) : (<<h>> \o t)[i] = IF i <= 1 THEN <<h>>[i] ELSE t[i - 1]
      BY <2>1, <2>2, ConcatProperties
    <3>2. \A i \in 1..Len(b) : (<<h>> \o t)[i] = b[i]
      BY <1>1, <2>1, <2>2, <3>1
    <3>3. Len(<<h>> \o t) = Len(b)
      BY <1>1, <2>1, <3>1
    <3>4. \A i \in 1..Len(<<h>> \o t) : (<<h>> \o t)[i] = b[i]
      BY <3>2, <3>3
    <3>5. QED
      BY <3>1, <3>3, <3>4, SeqEqual
  <2>4. Append(a, h) = a \o <<h>>
    BY <2>1, AppendIsConcat
  <2>5. Append(a, h) \o t = a \o b
    <3>1. (a \o <<h>>) \o t = a \o (<<h>> \o t)
      <4>1. a \in Seq(Nat) /\ <<h>> \in Seq(Nat) /\ t \in Seq(Nat)
        BY <2>1, <2>2
      <4>2. QED
        BY <4>1, ConcatAssociative, SMTT(60)
    <3>2. Append(a, h) \o t = (a \o <<h>>) \o t
      BY <2>4, Zenon
    <3>3. a \o (<<h>> \o t) = a \o b
      BY <2>3, Zenon
    <3>4. QED
      BY <3>1, <3>2, <3>3, Zenon
  <2>6. QED
    BY <2>5 DEF h, t
<1>5. Len(a \o b) >= Len(b)
  BY <1>1, <1>2
<1>6. QED
  BY <1>2, <1>3, <1>4, <1>5, Zenon

(* The hand-over of a state. *)
LEMMA HandedOverIs ==
    ASSUME TypeOK
    PROVE  HandedOver <=> Handed(Sent, dropped, Len(printed), config.runs /\ config.netcheck)
<1>1. DOMAIN printed = 1..Len(printed)
  BY LenProperties DEF TypeOK
<1>2. QED
  BY <1>1 DEF HandedOver, HandoverKeepsOrder, Handed, Sent

(* Every step keeps the order of the hand-over. *)
LEMMA HandedOverStep == IInv /\ [Next]_vars => HandedOver'
<1>1. SUFFICES ASSUME IInv, [Next]_vars PROVE HandedOver'
  OBVIOUS
<1>2. TypeOK /\ Places /\ HandedOver
  BY <1>1 DEF IInv
<1>3. TypeOK'
  BY <1>1, TypeStep
<1> DEFINE on == config.runs /\ config.netcheck
           m == Len(printed)
<1>4. Handed(Sent, dropped, m, on)
  BY <1>2, HandedOverIs
<1>5. HandedOver' <=> Handed(Sent', dropped', m', on')
  <2>1. DOMAIN printed' = 1..Len(printed')
    BY <1>3, LenProperties DEF TypeOK
  <2>2. QED
    BY <2>1 DEF HandedOver, HandoverKeepsOrder, Handed, Sent
<1>6. /\ queue \in Seq(Nat) /\ written \in Seq(Nat) /\ m \in Nat /\ Sent \in Seq(Nat)
      /\ Len(queue) \in Nat /\ Len(Sent) \in Nat /\ Len(Sent) >= Len(queue)
  <2>1. queue \in Seq(Nat) /\ written \in Seq(Nat)
    <3>1. 1..MaxCycles \subseteq Nat
      OBVIOUS
    <3>2. queue \in Seq(1..MaxCycles) /\ written \in Seq(1..MaxCycles)
      BY <1>2 DEF TypeOK
    <3>3. QED
      BY <3>1, <3>2, SeqMonotonic
  <2>2. m \in Nat
    BY <1>2, LenProperties DEF TypeOK
  <2>3. Sent \in Seq(Nat) /\ Len(Sent) >= Len(queue)
    BY <2>1, SentTyped DEF Sent
  <2>4. QED
    BY <2>1, <2>2, <2>3, LenProperties
<1>7. CASE UNCHANGED <<config, queue, written, dropped, printed>>
  BY <1>4, <1>5, <1>7 DEF Sent
<1>8. CASE Receive
  <2>1. Sent' = Sent
    BY <1>6, <1>8, SentTyped DEF Receive, Sent
  <2>2. UNCHANGED <<config, dropped, printed>>
    BY <1>8 DEF Receive, mainVars
  <2>3. QED
    BY <1>4, <1>5, <2>1, <2>2
<1>9. CASE EndCycle
  <2>1. Started /\ pc = "probing" /\ n = m + 1
    BY <1>2, <1>9 DEF EndCycle, Places, Started
  <2>2. Cycle \in CycleType
    BY <1>1, <2>1, CycleGrouped DEF Started
  <2>3. m' = m + 1
    BY <1>2, <1>9, <2>2, OneMore DEF EndCycle, TypeOK
  <2>4. on = config.netcheck /\ on \in BOOLEAN /\ on' = on /\ written' = written
    BY <1>1, <1>9, <2>1, ConfigTyped DEF EndCycle, Started
  <2> HIDE DEF on, m
  <2>5. CASE ~on
    <3>1. Sent' = Sent /\ dropped' = dropped
      BY <1>9, <2>4, <2>5 DEF EndCycle, Persist, Sent
    <3>2. on = FALSE
      BY <2>4, <2>5
    <3>3. Handed(Sent, dropped, m + 1, FALSE)
      BY <1>4, <1>6, <3>2, HandedOff
    <3>4. QED
      BY <1>5, <2>3, <2>4, <3>1, <3>2, <3>3
  <2>6. CASE on /\ Len(queue) < ProbeQueue
    <3>1. queue' = Append(queue, m + 1) /\ dropped' = dropped
      BY <1>9, <2>1, <2>4, <2>6 DEF EndCycle, Persist
    <3>2. Sent' = Append(Sent, m + 1)
      BY <1>6, <2>4, <3>1, SentTyped DEF Sent
    <3>3. Handed(Append(Sent, m + 1), dropped, m + 1, on)
      BY <1>4, <1>6, HandedSent
    <3>4. QED
      BY <1>5, <2>3, <2>4, <3>1, <3>2, <3>3
  <2>7. CASE on /\ ~(Len(queue) < ProbeQueue)
    <3>1. queue' = queue /\ dropped' = dropped \cup {m + 1}
      BY <1>9, <2>1, <2>4, <2>7 DEF EndCycle, Persist
    <3>2. Sent' = Sent
      BY <2>4, <3>1 DEF Sent
    <3>3. Len(Sent) >= ProbeQueue
      BY <1>6, <2>7, ProbeQueueAssumption
    <3>4. Handed(Sent, dropped \cup {m + 1}, m + 1, on)
      BY <1>4, <1>6, <3>3, HandedGone
    <3>5. QED
      BY <1>5, <2>3, <2>4, <3>1, <3>2, <3>4
  <2>8. QED
    BY <2>5, <2>6, <2>7
<1>10. ASSUME \/ Refuse \/ Begin \/ PrintOnce \/ Tick \/ Again \/ Stop \/ Exit \/ Drain \/ CloseFile
              \/ Signal \/ UNCHANGED vars \/ \E t \in AllTargets : Target(t)
       PROVE  UNCHANGED <<config, queue, written, dropped, printed>>
  BY <1>10 DEF Refuse, Begin, PrintOnce, Tick, Again, Stop, Exit, Drain, CloseFile, Signal, vars,
               mainVars, Target, Acquire, Probe
<1>11. QED
  BY <1>1, <1>7, <1>8, <1>9, <1>10 DEF Next, Main, Writer, Halted

------------------------------------------------------------------------------
(* The counters of a state, as the operators above state them. *)
LEMMA AddsUpIs ==
    RunAddsUp <=> /\ GroupedInOrder /\ CyclesUp(run, printed)
                  /\ \A t \in DOMAIN run.total : TargetUp(run, printed, t)
<1>1. CyclesAddUp <=> CyclesUp(run, printed)
  BY DEF CyclesAddUp, CyclesUp, Bad
<1>2. ASSUME NEW t PROVE TargetAddsUp(t) <=> TargetUp(run, printed, t)
  <2>1. DOMAIN LinesTo(printed, t) = DOMAIN printed
    BY DEF LinesTo
  <2>2. QED
    BY <2>1 DEF TargetAddsUp, TargetUp, Lengths, OkaysOf, LinesTo
<1>3. QED
  BY <1>1, <1>2 DEF RunAddsUp

(* Before the first cycle everything is nil. *)
LEMMA NothingAddsUp ==
    ASSUME NEW ts
    PROVE  /\ CyclesUp(NewRun(ts), <<>>)
           /\ \A t \in ts : TargetUp(NewRun(ts), <<>>, t)
<1>1. DOMAIN <<>> = {} /\ Len(<<>>) = 0
  OBVIOUS
<1>2. Latest({}) = 0
  BY DEF Latest
<1>3. Bad(<<>>) = {} /\ Cardinality({}) = 0
  BY <1>1, FS_EmptySet DEF Bad
<1>4. CyclesUp(NewRun(ts), <<>>)
  <2>1. Latest(DOMAIN <<>> \ Bad(<<>>)) = 0
    BY <1>1, <1>2
  <2>2. /\ NewRun(ts).cycles = 0 /\ NewRun(ts).clean = 0 /\ NewRun(ts).degraded = 0
        /\ NewRun(ts).failingSince = 0
    BY DEF NewRun
  <2>3. Cardinality(Bad(<<>>)) = 0
    BY <1>3
  <2>4. Len(<<>>) - Cardinality(Bad(<<>>)) = 0
    BY <1>1, <2>3
  <2>5. QED
    BY <1>1, <2>1, <2>2, <2>3, <2>4, Zenon DEF CyclesUp
<1>5. ASSUME NEW t \in ts PROVE TargetUp(NewRun(ts), <<>>, t)
  <2>1. LinesTo(<<>>, t) = <<>> /\ Lengths(<<>>) = <<>> /\ OkaysOf(<<>>) = <<>>
    BY DEF LinesTo, Lengths, OkaysOf
  <2>2. {k \in DOMAIN <<>> : ~AllOK(LinesTo(<<>>, t)[k])} = {}
    BY <1>1
  <2>3. QED
    BY <1>2, <2>1, <2>2, SumEmpty DEF TargetUp, NewRun
<1>6. QED
  BY <1>4, <1>5

(* Every step keeps the counters in agreement with the lines. *)
LEMMA RunAddsUpStep == IInv /\ [Next]_vars => RunAddsUp'
<1>1. SUFFICES ASSUME IInv, [Next]_vars PROVE RunAddsUp'
  OBVIOUS
<1>2. TypeOK /\ Places
  BY <1>1, InvTypes
<1>3. /\ GroupedInOrder /\ CyclesUp(run, printed)
      /\ \A t \in DOMAIN run.total : TargetUp(run, printed, t)
  BY <1>1, AddsUpIs DEF IInv
<1>4. SUFFICES (/\ GroupedInOrder /\ CyclesUp(run, printed)
                /\ \A t \in DOMAIN run.total : TargetUp(run, printed, t))'
  BY AddsUpIs, PTL
<1>5. CASE UNCHANGED <<config, run, printed>>
  BY <1>3, <1>5 DEF GroupedInOrder
<1>6. CASE Begin
  <2>1. printed' = <<>> /\ run' = NewRun(TargetSet) /\ DOMAIN printed' = {}
    BY <1>2, <1>6 DEF Begin, Places, Nothing
  <2>2. DOMAIN run'.total = TargetSet
    BY <2>1 DEF NewRun
  <2>3. QED
    BY <2>1, <2>2, NothingAddsUp DEF GroupedInOrder
<1>7. CASE EndCycle
  <2>1. Started /\ pc = "probing" /\ n = Len(printed) + 1
    BY <1>2, <1>7 DEF EndCycle, Places, Started
  <2> DEFINE c == Cycle
  <2>2. /\ c \in CycleType /\ DOMAIN c = DOMAIN config.targets
        /\ \A i \in DOMAIN c : c[i].target = config.targets[i]
    BY <1>1, <2>1, CycleGrouped DEF Started
  <2>3. printed \in Seq(CycleType)
    BY <1>2 DEF TypeOK
  <2>4. printed' = Append(printed, c) /\ run' = Add(run, c, Len(printed) + 1) /\ config' = config
    BY <1>7, <2>1 DEF EndCycle
  <2>5. DOMAIN worker = TargetSet /\ run \in RunType(TargetSet)
    BY <1>2, <2>1 DEF Places, TypeOK
  <2>6. \A t \in TargetSet : Covers(c, t) /\ \A k \in DOMAIN printed : Covers(printed[k], t)
    BY <1>1, <2>1, CycleCovers, AllCovered
  <2> HIDE DEF c
  <2>7. CyclesUp(run', printed')
    BY <1>3, <2>2, <2>3, <2>4, CyclesStep
  <2>8. DOMAIN run.total = TargetSet /\ DOMAIN run'.total = TargetSet
    BY <2>4, <2>5 DEF RunType, Add
  <2>9. \A t \in DOMAIN run'.total : TargetUp(run', printed', t)
    BY <1>3, <2>2, <2>3, <2>4, <2>5, <2>6, <2>8, TargetStep
  <2>10. GroupedInOrder'
    <3>1. \A k \in DOMAIN printed' :
            /\ DOMAIN printed'[k] = DOMAIN config.targets
            /\ \A i \in DOMAIN printed'[k] : printed'[k][i].target = config.targets[i]
      <4>1. SUFFICES ASSUME NEW k \in DOMAIN printed'
                     PROVE  /\ DOMAIN printed'[k] = DOMAIN config.targets
                            /\ \A i \in DOMAIN printed'[k] : printed'[k][i].target = config.targets[i]
        OBVIOUS
      <4>2. /\ DOMAIN printed = 1..Len(printed) /\ DOMAIN printed' = 1..(Len(printed) + 1)
            /\ Len(printed) \in Nat /\ printed'[Len(printed) + 1] = c
            /\ \A j \in 1..Len(printed) : printed'[j] = printed[j]
        BY <2>2, <2>3, <2>4, OneMore
      <4>3. k \in DOMAIN printed => printed'[k] = printed[k]
        BY <4>2
      <4>4. k \notin DOMAIN printed => printed'[k] = c
        BY <4>2
      <4>5. QED
        BY <1>3, <2>2, <4>3, <4>4 DEF GroupedInOrder
    <3>2. \A i, j \in DOMAIN config.targets : i # j => config.targets[i] # config.targets[j]
      BY <1>1, <2>1, ConfigTyped DEF Started
    <3>3. QED
      BY <2>4, <3>1, <3>2 DEF GroupedInOrder
  <2>11. QED
    BY <2>7, <2>9, <2>10
<1>8. ASSUME \/ Refuse \/ PrintOnce \/ Tick \/ Again \/ Stop \/ Exit \/ Writer
             \/ Signal \/ UNCHANGED vars \/ \E t \in AllTargets : Target(t)
      PROVE  UNCHANGED <<config, run, printed>>
  BY <1>8 DEF Refuse, PrintOnce, Tick, Again, Stop, Exit, Writer, Receive, Drain, CloseFile, Signal,
              vars, mainVars, Target, Acquire, Probe
<1>9. QED
  BY <1>1, <1>5, <1>6, <1>7, <1>8 DEF Next, Main, Halted

------------------------------------------------------------------------------
(* The invariant holds at the start. *)
LEMMA InvInit == Init => IInv
<1>1. SUFFICES ASSUME Init PROVE IInv
  OBVIOUS
<1>2. TypeOK
  BY <1>1, TypeInit
<1>3. /\ printed = <<>> /\ label = <<>> /\ queue = <<>> /\ written = <<>> /\ dropped = {} /\ n = 0
      /\ pc = "start" /\ ~run.anyFailed /\ ~printFailed /\ exitCode = NoCode /\ run = NewRun({})
      /\ DOMAIN worker = {}
  BY <1>1 DEF Init, NewRun
<1>4. Places
  BY <1>3 DEF Places, Nothing, Started
<1>5. DOMAIN printed = {} /\ DOMAIN label = {}
  BY <1>3
<1>6. Verdicts /\ Labelled
  BY <1>3, <1>5 DEF Verdicts, Labelled, Started
<1>7. HandedOver
  <2>1. written \o queue = <<>>
    BY <1>3
  <2>2. DOMAIN (written \o queue) = {}
    BY <2>1
  <2>3. QED
    BY <1>3, <1>4, <1>5, <2>2 DEF HandedOver, HandoverKeepsOrder
<1>8. RunAddsUp
  <2>1. DOMAIN run.total = {}
    BY <1>3 DEF NewRun
  <2>2. CyclesUp(run, printed)
    BY <1>3, NothingAddsUp
  <2>3. GroupedInOrder
    BY <1>5 DEF GroupedInOrder
  <2>4. QED
    BY <2>1, <2>2, <2>3, AddsUpIs
<1>9. QED
  BY <1>2, <1>4, <1>6, <1>7, <1>8 DEF IInv

(* IInv is inductive. *)
THEOREM Invariant == Spec => []IInv
<1>1. IInv /\ [Next]_vars => IInv'
  BY TypeStep, PlacesStep, VerdictsStep, LabelledStep, HandedOverStep, RunAddsUpStep DEF IInv
<1>2. QED
  BY InvInit, <1>1, PTL DEF Spec

(* The state is well typed, whatever the command line and the ladders. *)
THEOREM TypeCorrect == Spec => []TypeOK
<1>1. IInv => TypeOK
  BY DEF IInv
<1>2. QED
  BY Invariant, <1>1, PTL

(* runLoop's exit code is 1 exactly if a FAIL line was printed, in a cycle or by
   the print job; a refused command line exits 0 or 2 and has printed nothing. *)
THEOREM ExitCodeTellsTheLog == Spec => []ExitCodeIsTheLog
<1>1. IInv => ExitCodeIsTheLog
  <2>1. SUFFICES ASSUME IInv, pc = "exited"
                 PROVE  IF config.runs THEN exitCode = IF FailPrinted THEN 1 ELSE 0
                        ELSE exitCode \in {0, 2} /\ printed = <<>> /\ label = <<>> /\ written = <<>>
    BY DEF ExitCodeIsTheLog
  <2>2. TypeOK /\ Places /\ Verdicts
    BY <2>1 DEF IInv
  <2>3. CASE config.runs
    <3>1. FailPrinted <=> run.anyFailed \/ printFailed
      BY <2>2 DEF FailPrinted, Verdicts
    <3>2. exitCode = IF run.anyFailed \/ printFailed THEN 1 ELSE 0
      BY <2>1, <2>2, <2>3 DEF Verdicts
    <3>3. QED
      BY <2>3, <3>1, <3>2
  <2>4. CASE ~config.runs
    <3>1. config \in QuitConfigs
      BY <2>2, <2>4, ConfigsAssumption DEF TypeOK
    <3>2. QED
      BY <2>1, <2>2, <2>4, <3>1 DEF Places, Nothing, QuitConfigs
  <2>5. QED
    BY <2>3, <2>4
<1>2. QED
  BY Invariant, <1>1, PTL

(* report.Run: the counters that the footer prints are those of the lines above
   it, after any number of cycles of any targets. *)
THEOREM CountersAreTheLines == Spec => []RunAddsUp
<1>1. IInv => RunAddsUp
  BY DEF IInv
<1>2. QED
  BY Invariant, <1>1, PTL

(* --print: one print job, after the first cycle and before the second, carrying
   that cycle; and no exit code 0 without a whole label in the spooler. *)
THEOREM OneLabelAsked == Spec => []OneLabel
<1>1. IInv => OneLabel
  <2>1. SUFFICES ASSUME IInv PROVE OneLabel
    OBVIOUS
  <2>2. TypeOK /\ Places /\ Verdicts /\ Labelled
    BY <2>1 DEF IInv
  <2>3. config.runs =>
          Len(label) = IF config.printing /\ printed # <<>> /\ pc # "printing" THEN 1 ELSE 0
    <3>1. CASE pc = "start"
      BY <2>2, <3>1 DEF Places, Nothing
    <3>2. CASE pc # "start"
      BY <2>2, <3>2 DEF Labelled, Started
    <3>3. QED
      BY <3>1, <3>2
  <2>4. ASSUME exitCode = 0, config.runs, config.printing
        PROVE  \E k \in DOMAIN label : label[k].job = "whole"
    <3>1. pc = "exited" /\ Started
      BY <2>2, <2>4 DEF Places, NoCode, Started
    <3>2. Len(printed) = n /\ n >= 1
      BY <2>2, <3>1 DEF Places
    <3>3. printed # <<>>
      BY <3>2
    <3>4. Len(label) = 1
      BY <2>3, <2>4, <3>1, <3>3
    <3>5. 1 \in DOMAIN label
      BY <2>2, <3>4, LenProperties DEF TypeOK
    <3>6. ~printFailed
      BY <2>2, <2>4, <3>1 DEF Verdicts
    <3>7. AllOK(label[1].lines)
      BY <2>2, <3>5, <3>6 DEF Verdicts
    <3>8. QED
      BY <2>2, <3>5, <3>7 DEF Labelled
  <2>5. QED
    BY <2>2, <2>3, <2>4 DEF OneLabel, Labelled
<1>2. QED
  BY Invariant, <1>1, PTL

(* netcheck: the cycles reach the day store in the order they were printed, each
   once, and one is given up only when ProbeQueue earlier ones were queued. *)
THEOREM HandedOverInOrder == Spec => []HandoverKeepsOrder
<1>1. IInv => HandoverKeepsOrder
  BY DEF IInv, HandedOver
<1>2. QED
  BY Invariant, <1>1, PTL

------------------------------------------------------------------------------
(* The parameters are what modules Startup and Ladders make of them.        *)

Distinct(s) == \A i, j \in DOMAIN s : i # j => s[i] # s[j]
With(seen, t) == IF \E i \in DOMAIN seen : seen[i] = t THEN seen ELSE Append(seen, t)
Merge(seen, pair) == With(With(seen, pair[1]), pair[2])

(* An address is taken once. *)
LEMMA WithDistinct ==
    ASSUME NEW X, NEW seen \in Seq(X), NEW t \in X, Distinct(seen)
    PROVE  With(seen, t) \in Seq(X) /\ Distinct(With(seen, t))
<1>1. CASE \E i \in DOMAIN seen : seen[i] = t
  BY <1>1 DEF With
<1>2. CASE \A i \in DOMAIN seen : seen[i] # t
  <2> DEFINE q == Append(seen, t)
  <2>1. With(seen, t) = q
    BY <1>2 DEF With
  <2>2. /\ q \in Seq(X) /\ Len(seen) \in Nat
        /\ DOMAIN seen = 1..Len(seen) /\ DOMAIN q = 1..(Len(seen) + 1)
        /\ q[Len(seen) + 1] = t /\ \A i \in 1..Len(seen) : q[i] = seen[i]
    BY AppendProperties, LenProperties
  <2> HIDE DEF q
  <2>3. ASSUME NEW i \in DOMAIN q, NEW j \in DOMAIN q, i # j PROVE q[i] # q[j]
    <3>1. CASE i \in 1..Len(seen) /\ j \in 1..Len(seen)
      BY <2>2, <2>3, <3>1 DEF Distinct
    <3>2. CASE i = Len(seen) + 1 /\ j \in 1..Len(seen)
      BY <1>2, <2>2, <3>2
    <3>3. CASE j = Len(seen) + 1 /\ i \in 1..Len(seen)
      BY <1>2, <2>2, <3>3
    <3>4. QED
      BY <2>2, <2>3, <3>1, <3>2, <3>3
  <2>4. QED
    BY <2>1, <2>2, <2>3 DEF Distinct
<1>3. QED
  BY <1>1, <1>2

LEMMA MergeDistinct ==
    ASSUME NEW X, NEW seen \in Seq(X), NEW pair, pair[1] \in X, pair[2] \in X, Distinct(seen)
    PROVE  Merge(seen, pair) \in Seq(X) /\ Distinct(Merge(seen, pair))
<1>1. With(seen, pair[1]) \in Seq(X) /\ Distinct(With(seen, pair[1]))
  BY WithDistinct
<1>2. QED
  BY <1>1, WithDistinct DEF Merge

Merges(g, pairs, m) == g = [i \in 0..m |-> IF i = 0 THEN <<>> ELSE Merge(g[i - 1], pairs[i])]

(* The recursion over the environments is well defined, and takes no        *)
(* address twice. *)
LEMMA MergesExist ==
    ASSUME NEW X, NEW m \in Nat, NEW pairs,
           \A i \in 1..m : pairs[i][1] \in X /\ pairs[i][2] \in X
    PROVE  \E g : Merges(g, pairs, m)
<1> DEFINE Good == {k \in Nat : k <= m => \E g : Merges(g, pairs, k)}
<1>1. 0 \in Good
  <2>1. Merges([i \in 0..0 |-> <<>>], pairs, 0)
    BY DEF Merges
  <2>2. QED
    BY <2>1
<1>2. ASSUME NEW k \in Nat, k \in Good PROVE k + 1 \in Good
  <2>1. SUFFICES ASSUME k + 1 <= m PROVE \E g : Merges(g, pairs, k + 1)
    OBVIOUS
  <2>2. PICK g : Merges(g, pairs, k)
    BY <1>2, <2>1
  <2> DEFINE f == [i \in 0..(k + 1) |-> IF i = k + 1 THEN Merge(g[k], pairs[k + 1]) ELSE g[i]]
  <2>3. ASSUME NEW i \in 0..(k + 1) PROVE f[i] = IF i = 0 THEN <<>> ELSE Merge(f[i - 1], pairs[i])
    <3>1. CASE i = 0
      BY <2>2, <3>1 DEF Merges
    <3>2. CASE i = k + 1
      BY <3>2
    <3>3. CASE i \in 1..k
      <4>1. f[i] = g[i] /\ f[i - 1] = g[i - 1]
        BY <3>3
      <4>2. g[i] = Merge(g[i - 1], pairs[i])
        BY <2>2, <3>3 DEF Merges
      <4>3. QED
        BY <3>3, <4>1, <4>2
    <3>4. QED
      BY <3>1, <3>2, <3>3
  <2>4. Merges(f, pairs, k + 1)
    BY <2>3 DEF Merges
  <2>5. QED
    BY <2>4
<1> HIDE DEF Good
<1>3. m \in Good
  BY <1>1, <1>2, AllNat
<1>4. QED
  BY <1>3 DEF Good

LEMMA MergesDistinct ==
    ASSUME NEW X, NEW m \in Nat, NEW pairs, NEW g, Merges(g, pairs, m),
           \A i \in 1..m : pairs[i][1] \in X /\ pairs[i][2] \in X
    PROVE  g[m] \in Seq(X) /\ Distinct(g[m])
<1> DEFINE Good == {k \in Nat : k <= m => g[k] \in Seq(X) /\ Distinct(g[k])}
<1>1. 0 \in Good
  <2>1. g[0] = <<>>
    BY DEF Merges
  <2>2. <<>> \in Seq(X) /\ Distinct(<<>>)
    BY EmptySeq DEF Distinct
  <2>3. QED
    BY <2>1, <2>2
<1>2. ASSUME NEW k \in Nat, k \in Good PROVE k + 1 \in Good
  <2>1. SUFFICES ASSUME k + 1 <= m PROVE g[k + 1] \in Seq(X) /\ Distinct(g[k + 1])
    OBVIOUS
  <2>2. g[k] \in Seq(X) /\ Distinct(g[k])
    BY <1>2, <2>1
  <2>3. g[k + 1] = Merge(g[k], pairs[k + 1])
    BY <2>1 DEF Merges
  <2>4. k + 1 \in 1..m
    BY <2>1
  <2>5. QED
    BY <2>2, <2>3, <2>4, MergeDistinct
<1> HIDE DEF Good
<1>3. m \in Good
  BY <1>1, <1>2, AllNat
<1>4. QED
  BY <1>3 DEF Good

(* What startup comes to probes every address once: TargetsAssumption holds  *)
(* of any command line. *)
THEOREM StartupTakesEachTargetOnce ==
    ASSUME NEW X, Pair \in [Envs -> (X \X X) \cup {<<>>}], NEW a \in Args, Start(a).runs
    PROVE  Start(a).targets \in Seq(X) /\ Distinct(Start(a).targets)
<1> DEFINE m == Len(a.envs)
           pairs == [i \in 1..m |-> Pair[a.envs[i]]]
<1>1. /\ ~BadFlags(a) /\ ~a.version /\ ~BadTargets(a)
      /\ Start(a).targets = Targets(a.envs)
  BY DEF Start, Quit
<1>2. a.envs \in Seq(Envs) /\ m \in Nat /\ DOMAIN a.envs = 1..m
  BY LenProperties DEF Args
<1>3. \A i \in 1..m : a.envs[i] \in Envs /\ Pair[a.envs[i]] # <<>>
  BY <1>1, <1>2, ElementOfSeq DEF BadTargets, UnknownEnv
<1>4. \A i \in 1..m : Pair[a.envs[i]] \in X \X X
  BY <1>3
<1>5. \A i \in 1..m : pairs[i][1] \in X /\ pairs[i][2] \in X
  BY <1>4
<1> DEFINE c == CHOOSE g : g = [i \in 0..m |-> IF i = 0 THEN <<>> ELSE Merge(g[i - 1], Pair[a.envs[i]])]
<1>6. Targets(a.envs) = c[m]
  BY DEF Targets, Merge, With
<1> HIDE DEF pairs
<1>7. PICK g : Merges(g, pairs, m)
  BY <1>2, <1>5, MergesExist
<1>8. \A i \in 0..m : i # 0 => pairs[i] = Pair[a.envs[i]]
  BY <1>2 DEF pairs
<1>9. g = [i \in 0..m |-> IF i = 0 THEN <<>> ELSE Merge(g[i - 1], Pair[a.envs[i]])]
  BY <1>7, <1>8 DEF Merges
<1>10. c = [i \in 0..m |-> IF i = 0 THEN <<>> ELSE Merge(c[i - 1], Pair[a.envs[i]])]
  BY <1>9
<1> HIDE DEF c
<1>11. Merges(c, pairs, m)
  BY <1>8, <1>10 DEF Merges
<1>12. c[m] \in Seq(X) /\ Distinct(c[m])
  BY <1>2, <1>5, <1>11, MergesDistinct
<1>13. QED
  BY <1>1, <1>6, <1>12

(* And a print ladder without a FAIL line has stored the lines and spooled   *)
(* the whole label: PrintedAssumption holds of module Ladders. *)
THEOREM CleanPrintIsWhole ==
    \A r \in PrintRuns \cup CancelledPrintRuns : AllOK(r.lines) => r.fax /\ r.job = "whole"
<1> DEFINE T == [stage: {PrintStages[j] : j \in 1..6} \cup {"submit"}, family: {0}, ok: BOOLEAN]
<1>1. ASSUME NEW k \in 0..6 PROVE PassedTo(k) \in Seq(T)
  <2>1. \A i \in 1..k : Line(PrintStages[i], TRUE) \in T
    BY DEF Line
  <2> HIDE DEF T
  <2>2. k \in Nat
    OBVIOUS
  <2> DEFINE e == [i \in 1..6 |-> Line(PrintStages[i], TRUE)]
  <2>3. PassedTo(k) = [i \in 1..k |-> e[i]] /\ \A i \in 1..k : e[i] \in T
    <3>1. \A i \in 1..k : i \in 1..6
      OBVIOUS
    <3>2. \A i \in 1..6 : e[i] = Line(PrintStages[i], TRUE)
      BY Zenon
    <3>3. \A i \in 1..k : e[i] \in T
      BY <2>1, <3>1, <3>2, Zenon
    <3>4. PassedTo(k) = [i \in 1..k |-> e[i]]
      BY <3>1, <3>2, Zenon DEF PassedTo
    <3>5. QED
      BY <3>3, <3>4, Zenon
  <2> HIDE DEF e
  <2>4. PassedTo(k) \in Seq(T)
    BY <2>2, <2>3
  <2>5. QED
    BY <2>4
<1>2. ASSUME NEW s \in Seq(T), NEW last \in T, AllOK(Append(s, last)) PROVE last.ok
  <2> HIDE DEF T
  <2>1. Append(s, last)[Len(s) + 1] = last /\ Len(s) + 1 \in DOMAIN Append(s, last)
    BY AppendProperties, LenProperties
  <2>2. QED
    BY <1>2, <2>1 DEF AllOK
<1>3. ASSUME NEW k \in 1..6, NEW r \in FailedAt(k) PROVE ~AllOK(r.lines)
  <2> DEFINE bad == Line(PrintStages[k], FALSE)
  <2>1. PICK fax : r = Printing(Append(PassedTo(k - 1), bad), fax, "none")
    BY <1>3, Zenon DEF FailedAt
  <2>2. r.lines = Append(PassedTo(k - 1), bad)
    BY <2>1 DEF Printing
  <2>3. bad \in T /\ ~bad.ok
    BY DEF Line
  <2>4. PassedTo(k - 1) \in Seq(T)
    BY <1>1
  <2> HIDE DEF bad, T
  <2>5. QED
    BY <1>2, <2>2, <2>3, <2>4
<1>4. ASSUME NEW x \in Submits,
             NEW r, r = Printing(Append(PassedTo(Len(PrintStages)), Line("submit", x[1])), TRUE, x[2]),
             AllOK(r.lines)
      PROVE  r.fax /\ r.job = "whole"
  <2> DEFINE last == Line("submit", x[1])
  <2>1. r.lines = Append(PassedTo(6), last) /\ r.fax = TRUE /\ r.job = x[2]
    BY <1>4 DEF Printing, PrintStages
  <2>2. (x[1] = TRUE /\ x[2] = "whole") \/ x[1] = FALSE
    <3>1. x = <<FALSE, "none">> \/ x = <<FALSE, "part">> \/ x = <<FALSE, "whole">> \/ x = <<TRUE, "whole">>
      BY DEF Submits
    <3>2. /\ <<FALSE, "none">>[1] = FALSE /\ <<FALSE, "part">>[1] = FALSE
          /\ <<FALSE, "whole">>[1] = FALSE /\ <<TRUE, "whole">>[1] = TRUE
          /\ <<TRUE, "whole">>[2] = "whole"
      OBVIOUS
    <3>3. QED
      BY <3>1, <3>2, Zenon
  <2>3. last \in T /\ last.ok = x[1]
    BY <2>2 DEF Line
  <2>4. PassedTo(6) \in Seq(T)
    BY <1>1
  <2> HIDE DEF last, T
  <2>5. last.ok
    BY <1>2, <1>4, <2>1, <2>3, <2>4
  <2>6. QED
    BY <2>1, <2>2, <2>3, <2>5
<1>5. DOMAIN PrintStages = 1..6
  BY DEF PrintStages
<1>6. \A r \in CancelledPrintRuns : ~AllOK(r.lines)
  BY <1>3 DEF CancelledPrintRuns
<1>7. \A r \in PrintRuns : AllOK(r.lines) => r.fax /\ r.job = "whole"
  BY <1>3, <1>4, <1>5 DEF PrintRuns
<1>8. QED
  BY <1>6, <1>7
==============================================================================
