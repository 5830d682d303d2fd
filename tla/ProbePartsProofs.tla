-------------------------- MODULE ProbePartsProofs --------------------------
(***************************************************************************)
(* Three parts around the probe cycle: what the long-poll observer counts,  *)
(* what the updater leaves behind, and what the lines of a ladder tell.     *)
(***************************************************************************)
EXTENDS LongPoll, Updater, ProbeLadder, SequenceTheorems, FiniteSetTheorems, TLAPS

(***************************************************************************)
(* A truncation is only counted when it is certain: with one stage, and a   *)
(* server clock that is not ahead of ours, the poller never counts more     *)
(* truncations than polls were cut short. Both conditions are needed: with  *)
(* two stages, or Skew > 0, TLC finds it to.                                *)
(*                                                                          *)
(* The argument is an account of cuts not yet counted. The poller knows a   *)
(* poll by its entry, the time it came in by the server's clock: the poll   *)
(* of the last observation by lastSeen - lastHeld, that of the answer in    *)
(* hand by the least entry. A poll that is gone before Duration was cut, so *)
(* it is worth one cut beyond those counted; an observation counts the one  *)
(* and keeps the other.                                                     *)
(***************************************************************************)
\* The entry of the poll last seen, and the least entry of an answer.
Known == lastSeen - lastHeld
Least(m, entries) == m \in entries /\ \A e \in entries : m <= e

\* No open poll came in before entry e, or at e.
NoneOlder(e) == \A p \in Pollers : open[p] # Never => open[p] + Skew >= e
Gone(e) == \A p \in Pollers : open[p] # Never => open[p] + Skew > e
Early(e, time) == time < e - Skew + Duration

Types ==
  /\ now \in Nat
  /\ open \in [Pollers -> Nat \cup {Never}]
  /\ \A p \in Pollers : open[p] <= now
  /\ cut \in Nat /\ truncations \in Nat
  /\ stage \in [Stages -> {"idle", "answered", "stamped"}]
  /\ answer \in [Stages -> SUBSET Int]
  /\ held \in [Stages -> Nat]
  /\ at \in [Stages -> Nat] /\ \A s \in Stages : at[s] <= now
  /\ lastHeld \in Nat /\ lastSeen \in Nat \cup {Never} /\ lastSeen <= now

\* What is known of the poll last seen, with k cuts already spoken for.
Account(e, k) ==
  /\ e <= now + Skew
  /\ NoneOlder(e)
  /\ Gone(e) /\ Early(e, now) => cut >= truncations + k + 1

Seen == lastSeen # Never => Account(Known, 0)

\* The answer in hand: its least entry is a poll like that one, and if the
\* poll last seen is missing from it while it should be there, that is a cut
\* of its own.
Missed(m, time) == lastSeen # Never /\ m > Known /\ Early(Known, time)
Pending(m, time) ==
  /\ Account(m, 0)
  /\ Missed(m, time) => cut >= truncations + 1 /\ Account(m, 1)

Answered(s) ==
  stage[s] = "answered" =>
    /\ \A e \in answer[s] : e <= now + Skew
    /\ \A m \in Int : Least(m, answer[s]) => Pending(m, now)
Stamped(s) ==
  stage[s] = "stamped" =>
    /\ lastSeen # Never => lastSeen <= at[s]
    /\ Pending(at[s] - held[s], at[s])

PollInv ==
  /\ Types
  /\ truncations <= cut
  /\ Seen
  /\ \A s \in Stages : Answered(s) /\ Stamped(s)

\* What the theorems assume: one stage at a time, no server clock ahead.
OneStage == \A s, t \in Stages : s = t
ClockNotAhead == Skew <= 0

\* The account of a poll survives whatever the server and the network do: the
\* only poll that ends without a cut has been held for Duration.
LEMMA ServerKeepsAccount ==
  ASSUME Types, NEW e \in Int, NEW k \in Nat, Account(e, k),
         cut >= truncations + k, Server
  PROVE  Account(e, k)'
<1> USE DurationAssumption, SkewAssumption
<1>1. CASE Tick
  BY <1>1 DEF Tick, Account, NoneOlder, Gone, Early, Types, poller
<1>2. ASSUME NEW p \in Pollers, Poll(p)
      PROVE  Account(e, k)'
  <2>1. \A q \in Pollers : open'[q] = IF q = p THEN now ELSE open[q]
    BY <1>2 DEF Poll, Types
  <2>2. now # Never
    BY DEF Types, Never
  <2>3. NoneOlder(e)'
    BY <1>2, <2>1, <2>2 DEF Poll, Account, NoneOlder, Types
  <2>4. Gone(e)' => Gone(e)
    BY <1>2, <2>1, <2>2 DEF Poll, Gone, Types, Never
  <2> QED
    BY <1>2, <2>3, <2>4 DEF Poll, Account, Early, poller
<1>3. ASSUME NEW p \in Pollers, Complete(p)
      PROVE  Account(e, k)'
  <2>1. \A q \in Pollers : open'[q] = IF q = p THEN Never ELSE open[q]
    BY <1>3 DEF Complete, Types
  <2>2. NoneOlder(e)'
    BY <1>3, <2>1 DEF Complete, Account, NoneOlder, Types, Never
  <2>3. ~Gone(e) /\ Gone(e)' => ~Early(e, now)
    <3> SUFFICES ASSUME ~Gone(e), Gone(e)'
                 PROVE  ~Early(e, now)
      OBVIOUS
    <3>1. open[p] + Skew <= e
      BY <2>1 DEF Gone, Types, Never
    <3>2. open[p] + Skew >= e
      BY <1>3 DEF Complete, Account, NoneOlder
    <3> QED
      BY <1>3, <3>1, <3>2 DEF Complete, Age, Early, Types, Never
  <2> QED
    BY <1>3, <2>2, <2>3 DEF Complete, Account, Early, poller
<1>4. ASSUME NEW p \in Pollers, Cut(p)
      PROVE  Account(e, k)'
  <2>1. \A q \in Pollers : open'[q] = IF q = p THEN Never ELSE open[q]
    BY <1>4 DEF Cut, Types
  <2>2. NoneOlder(e)'
    BY <1>4, <2>1 DEF Cut, Account, NoneOlder, Types, Never
  <2> QED
    BY <1>4, <2>2 DEF Cut, Account, Early, Types, poller
<1> QED
  BY <1>1, <1>2, <1>3, <1>4 DEF Server

\* The type part of the invariant, for every step.
LEMMA TypesStep == ASSUME Types, ClockNotAhead, [Next]_vars PROVE Types'
<1> USE DurationAssumption, SkewAssumption
<1>1. CASE UNCHANGED vars
  BY <1>1 DEF Types, vars, poller
<1>2. CASE Tick
  BY <1>2 DEF Types, Tick, poller, Never
<1>3. ASSUME NEW p \in Pollers, Poll(p) \/ Complete(p) \/ Cut(p)
      PROVE  Types'
  <2>1. \A q \in Pollers : open'[q] \in {open[q], now, Never}
    BY <1>3 DEF Types, Poll, Complete, Cut
  <2>2. open' \in [Pollers -> Nat \cup {Never}]
    BY <1>3 DEF Types, Poll, Complete, Cut
  <2>3. \A q \in Pollers : open'[q] <= now
    BY <2>1 DEF Types, Never
  <2> QED
    BY <1>3, <2>2, <2>3 DEF Types, Poll, Complete, Cut, poller
<1>4. ASSUME NEW s \in Stages, Describe(s)
      PROVE  Types'
  <2>1. {open[p] + Skew : p \in {q \in Pollers : open[q] # Never}} \subseteq Int
    BY DEF Types, Never
  <2> QED
    BY <1>4, <2>1 DEF Types, Describe, poller
<1>5. ASSUME NEW s \in Stages, Absent(s)
      PROVE  Types'
  BY <1>5 DEF Types, Absent, poller
<1>6. ASSUME NEW s \in Stages, Stamp(s)
      PROVE  Types'
  <2>1. PICK h \in {0} \cup {now - e : e \in answer[s]} :
          IsHeld(h, now, answer[s]) /\ held' = [held EXCEPT ![s] = h]
    BY <1>6 DEF Stamp
  <2>2. h \in Nat
    BY <2>1 DEF IsHeld, Types
  <2> QED
    BY <1>6, <2>1, <2>2 DEF Types, Stamp, poller
<1>7. ASSUME NEW s \in Stages, Record(s)
      PROVE  Types'
  BY <1>7 DEF Types, Record, poller
<1> QED
  BY <1>1, <1>2, <1>3, <1>4, <1>5, <1>6, <1>7 DEF Next, Server, Stage

------------------------------------------------------------------------------

\* What holds at the start.
LEMMA InitPollInv == Init => PollInv
<1> SUFFICES ASSUME Init PROVE PollInv
  OBVIOUS
<1> USE DurationAssumption, SkewAssumption DEF Init
<1>1. Types
  BY DEF Types, Never
<1>2. truncations <= cut /\ Seen
  BY DEF Seen
<1>3. \A s \in Stages : Answered(s) /\ Stamped(s)
  BY DEF Answered, Stamped
<1> QED
  BY <1>1, <1>2, <1>3 DEF PollInv

\* The entries of the poll last seen and of a stamped answer are integers.
LEMMA EntriesAreIntegers ==
  ASSUME Types
  PROVE  Known \in Int /\ \A s \in Stages : at[s] - held[s] \in Int
BY DEF Types, Known, Never

\* The server and the network keep the accounts.
LEMMA ServerStep == ASSUME PollInv, ClockNotAhead, Server PROVE PollInv'
<1> USE DurationAssumption, SkewAssumption
<1>1. Types /\ Types'
  BY TypesStep DEF PollInv, Next
<1>2. /\ now' >= now /\ now' \in Int /\ now \in Int
      /\ cut' >= cut /\ cut \in Int /\ cut' \in Int
      /\ UNCHANGED <<stage, answer, held, at, lastHeld, lastSeen, truncations>>
  BY <1>1 DEF Types, Server, Tick, Poll, Complete, Cut, poller
<1>3. truncations <= cut /\ truncations \in Nat
  BY <1>1 DEF PollInv, Types
<1>4. (truncations <= cut)'
  BY <1>2, <1>3
<1>5. Known \in Int /\ Known' = Known /\ \A s \in Stages : at[s] - held[s] \in Int
  BY <1>1, <1>2, EntriesAreIntegers DEF Known
<1>6. ASSUME NEW e \in Int, Account(e, 0)
      PROVE  Account(e, 0)'
  BY <1>1, <1>3, <1>6, ServerKeepsAccount
<1>7. ASSUME NEW e \in Int, Account(e, 1), cut >= truncations + 1
      PROVE  Account(e, 1)'
  BY <1>1, <1>7, ServerKeepsAccount
<1>8. Seen'
  BY <1>2, <1>5, <1>6 DEF PollInv, Seen
<1>9. ASSUME NEW m \in Int, NEW time \in Int, NEW later \in Int, later >= time,
             Pending(m, time)
      PROVE  Pending(m, later)'
  <2>1. Missed(m, later)' => Missed(m, time)
    BY <1>1, <1>2, <1>5, <1>9 DEF Missed, Early
  <2> QED
    BY <1>2, <1>3, <1>6, <1>7, <1>9, <2>1 DEF Pending
<1>10. ASSUME NEW s \in Stages
       PROVE  Answered(s)' /\ Stamped(s)'
  <2>1. Answered(s)'
    <3> SUFFICES ASSUME stage[s] = "answered"
                 PROVE  /\ \A e \in answer[s] : e <= now' + Skew
                        /\ \A m \in Int : Least(m, answer[s]) => Pending(m, now)'
      BY <1>2 DEF Answered, Least
    <3>1. \A e \in answer[s] : e \in Int /\ e <= now + Skew
      BY <1>1 DEF PollInv, Answered, Types
    <3>2. ASSUME NEW m \in Int, Least(m, answer[s])
          PROVE  Pending(m, now)'
      <4>1. Pending(m, now)
        BY <3>2 DEF PollInv, Answered
      <4>2. PICK later \in Int : later = now'
        BY <1>2
      <4>3. Pending(m, later)'
        BY <1>2, <1>9, <4>1, <4>2
      <4>4. Missed(m, now)' => Missed(m, later)'
        BY <4>2 DEF Missed, Early
      <4> QED
        BY <4>3, <4>4 DEF Pending
    <3> QED
      BY <1>2, <3>1, <3>2
  <2>2. Stamped(s)'
    <3> SUFFICES ASSUME stage[s] = "stamped"
                 PROVE  Stamped(s)'
      BY <1>2 DEF Stamped
    <3>1. Pending(at[s] - held[s], at[s]) /\ (lastSeen # Never => lastSeen <= at[s])
      BY DEF PollInv, Stamped
    <3>2. at[s] \in Int
      BY <1>1 DEF Types
    <3>3. Pending(at[s] - held[s], at[s])'
      BY <1>2, <1>5, <1>9, <3>1, <3>2
    <3> QED
      BY <1>2, <3>1, <3>3 DEF Stamped
  <2> QED
    BY <2>1, <2>2
<1> QED
  BY <1>1, <1>4, <1>8, <1>10 DEF PollInv

\* The answer is taken: its entries are open polls, and if all of them came in
\* after the poll last seen, that one is gone.
LEMMA DescribeStep ==
  ASSUME PollInv, ClockNotAhead, NEW s \in Stages, OneStage, Describe(s) PROVE PollInv'
<1> USE DurationAssumption, SkewAssumption
<1>1. Types /\ Types'
  BY TypesStep DEF PollInv, Next, Stage
<1>2. UNCHANGED <<now, open, cut, held, at, lastHeld, lastSeen, truncations>>
  BY DEF Describe, poller
<1>3. \A t \in Stages : t = s
  BY DEF OneStage
<1>4. stage'[s] = "answered" /\ answer'[s] = {open[p] + Skew : p \in {q \in Pollers : open[q] # Never}}
  BY <1>1 DEF Describe, Types
<1>5. (truncations <= cut)' /\ Seen' /\ truncations <= cut /\ Seen
  BY <1>2 DEF PollInv, Seen, Account, NoneOlder, Gone, Early, Known
<1>6. \A e \in answer'[s] : e <= now + Skew
  BY <1>1, <1>4 DEF Types, Never
<1>7. ASSUME NEW m \in Int, Least(m, answer'[s])
      PROVE  Pending(m, now)'
  <2>1. Account(m, 0) /\ Account(m, 1)
    <3>1. NoneOlder(m)
      BY <1>4, <1>7 DEF NoneOlder, Least
    <3>2. ~Gone(m)
      BY <1>4, <1>7, <1>1 DEF Gone, Least, Types
    <3> QED
      BY <1>6, <1>7, <3>1, <3>2 DEF Account, Least
  <2>2. Missed(m, now) => cut >= truncations + 1
    <3> SUFFICES ASSUME Missed(m, now)
                 PROVE  cut >= truncations + 1
      OBVIOUS
    <3>1. Known \in Int
      BY <1>1, EntriesAreIntegers
    <3>2. \A p \in Pollers : open[p] # Never => open[p] + Skew >= m
      BY <2>1 DEF Account, NoneOlder
    <3>3. Gone(Known)
      BY <1>1, <3>1, <3>2 DEF Gone, Missed, Types, Never
    <3> QED
      BY <1>1, <3>3, <1>5 DEF Missed, Seen, Account, Types
  <2>3. Pending(m, now)
    BY <2>1, <2>2 DEF Pending
  <2> QED
    BY <1>2, <2>3 DEF Pending, Missed, Account, NoneOlder, Gone, Early, Known
<1>8. Answered(s)' /\ Stamped(s)'
  BY <1>2, <1>4, <1>6, <1>7 DEF Answered, Stamped
<1> QED
  BY <1>1, <1>3, <1>5, <1>8 DEF PollInv

\* The stage gives up on an answer without our identity.
LEMMA AbsentStep ==
  ASSUME PollInv, ClockNotAhead, NEW s \in Stages, OneStage, Absent(s) PROVE PollInv'
<1>1. Types /\ Types'
  BY TypesStep DEF PollInv, Next, Stage
<1>2. UNCHANGED <<now, open, cut, held, at, lastHeld, lastSeen, truncations>>
  BY DEF Absent, poller
<1>3. \A t \in Stages : t = s
  BY DEF OneStage
<1>4. stage'[s] = "idle"
  BY <1>1 DEF Absent, Types
<1>5. (truncations <= cut)' /\ Seen'
  BY <1>2 DEF PollInv, Seen, Account, NoneOlder, Gone, Early, Known
<1> QED
  BY <1>1, <1>3, <1>4, <1>5 DEF PollInv, Answered, Stamped

\* held is computed: what is stamped is the least entry of the answer.
LEMMA StampStep ==
  ASSUME PollInv, ClockNotAhead, NEW s \in Stages, OneStage, Stamp(s) PROVE PollInv'
<1> USE DurationAssumption, SkewAssumption
<1>1. Types /\ Types'
  BY TypesStep DEF PollInv, Next, Stage
<1>2. UNCHANGED <<now, open, cut, answer, lastHeld, lastSeen, truncations>>
  BY DEF Stamp, poller
<1>3. \A t \in Stages : t = s
  BY DEF OneStage
<1>4. PICK h \in {0} \cup {now - e : e \in answer[s]} :
        IsHeld(h, now, answer[s]) /\ held' = [held EXCEPT ![s] = h]
  BY DEF Stamp
<1>5. stage'[s] = "stamped" /\ at'[s] = now /\ held'[s] = h /\ h \in Int
  BY <1>1, <1>4 DEF Stamp, Types, IsHeld
<1>6. /\ answer[s] # {}
      /\ \A e \in answer[s] : e \in Int /\ e <= now + Skew
      /\ \A m \in Int : Least(m, answer[s]) => Pending(m, now)
  BY <1>1 DEF Stamp, PollInv, Answered, Types
<1>7. Least(now - h, answer[s])
  <2>1. \A e \in answer[s] : now - h <= e
    BY <1>1, <1>4, <1>5, <1>6 DEF IsHeld, Types
  <2>2. now - h \in answer[s]
    <3>1. CASE h = 0
      <4>1. PICK e \in answer[s] : TRUE
        BY <1>6
      <4>2. e = now
        BY <1>1, <1>6, <2>1, <3>1, <4>1 DEF Types, ClockNotAhead
      <4> QED
        BY <1>1, <3>1, <4>1, <4>2 DEF Types
    <3>2. CASE h # 0
      <4>1. PICK e \in answer[s] : h = now - e
        BY <1>4, <3>2
      <4>2. now - h = e
        BY <1>1, <1>6, <4>1 DEF Types
      <4> QED
        BY <4>1, <4>2
    <3> QED
      BY <3>1, <3>2
  <2> QED
    BY <2>1, <2>2 DEF Least
<1>8. Pending(now - h, now)
  BY <1>1, <1>5, <1>6, <1>7 DEF Types
<1>9. (truncations <= cut)' /\ Seen'
  BY <1>2 DEF PollInv, Seen, Account, NoneOlder, Gone, Early, Known
<1>10. Stamped(s)'
  <2>1. Pending(at[s] - held[s], at[s])'
    BY <1>2, <1>5, <1>8 DEF Pending, Missed, Account, NoneOlder, Gone, Early, Known
  <2> QED
    BY <1>1, <1>2, <1>5, <2>1 DEF Stamped, Types
<1>11. Answered(s)'
  BY <1>5 DEF Answered
<1> QED
  BY <1>1, <1>3, <1>9, <1>10, <1>11 DEF PollInv

\* The observation is recorded: a counted truncation is the missing poll's
\* cut, and the poll now last seen keeps an account of its own.
LEMMA RecordStep ==
  ASSUME PollInv, ClockNotAhead, NEW s \in Stages, OneStage, Record(s) PROVE PollInv'
<1> USE DurationAssumption, SkewAssumption
<1> DEFINE m == at[s] - held[s]
<1>1. Types /\ Types'
  BY TypesStep DEF PollInv, Next, Stage
<1>2. UNCHANGED <<now, open, cut, answer, held, at>>
  BY DEF Record
<1>3. \A t \in Stages : t = s
  BY DEF OneStage
<1>4. /\ stage'[s] = "idle" /\ lastHeld' = held[s] /\ lastSeen' = at[s]
      /\ Known' = m /\ m \in Int /\ Known \in Int
  BY <1>1, EntriesAreIntegers DEF Record, Types, Known
<1>5. /\ Pending(m, at[s])
      /\ lastSeen # Never => lastSeen <= at[s]
  BY DEF Record, PollInv, Stamped
<1>6. CASE ~Truncated(held[s], at[s])
  <2>1. truncations' = truncations
    BY <1>6 DEF Record
  <2>2. Account(m, 0)'
    BY <1>2, <1>4, <1>5, <2>1 DEF Pending, Account, NoneOlder, Gone, Early
  <2>3. (truncations <= cut)' /\ Seen'
    BY <1>2, <1>4, <2>1, <2>2 DEF PollInv, Seen, Account, NoneOlder, Gone, Early
  <2> QED
    BY <1>1, <1>3, <1>4, <2>3 DEF PollInv, Answered, Stamped
<1>7. CASE Truncated(held[s], at[s])
  <2>1. truncations' = truncations + 1
    BY <1>7 DEF Record
  <2>2. Missed(m, at[s])
    BY <1>1, <1>5, <1>7 DEF Truncated, Missed, Known, Early, Types, Never, ClockNotAhead
  <2>3. cut >= truncations + 1 /\ Account(m, 1)
    BY <1>5, <2>2 DEF Pending
  <2>4. Account(m, 0)'
    BY <1>1, <1>2, <1>4, <2>1, <2>3 DEF Account, NoneOlder, Gone, Early, Types
  <2>5. (truncations <= cut)' /\ Seen'
    BY <1>1, <1>2, <1>4, <2>1, <2>3, <2>4
       DEF Seen, Account, NoneOlder, Gone, Early, Types
  <2> QED
    BY <1>1, <1>3, <1>4, <2>5 DEF PollInv, Answered, Stamped
<1> QED
  BY <1>6, <1>7

------------------------------------------------------------------------------

\* poller.observe, "only counted when it is certain": with one observing stage
\* and no server clock ahead of ours, no more truncations are reported than
\* polls were cut short, whatever the pollers, the delays and the answers.
THEOREM CertainTruncations ==
  ASSUME OneStage, ClockNotAhead PROVE Spec => []OnlyCertainTruncations
<1>1. Init => PollInv
  BY InitPollInv
<1>2. PollInv /\ [Next]_vars => PollInv'
  <2> SUFFICES ASSUME PollInv, [Next]_vars PROVE PollInv'
    OBVIOUS
  <2>1. CASE UNCHANGED vars
    BY <2>1 DEF PollInv, Types, Seen, Answered, Stamped, Least, Pending, Missed,
                Account, NoneOlder, Gone, Early, Known, vars, poller
  <2>2. CASE Server
    BY <2>2, ServerStep
  <2>3. ASSUME NEW s \in Stages, Stage(s)
        PROVE  PollInv'
    BY <2>3, DescribeStep, AbsentStep, StampStep, RecordStep DEF Stage
  <2> QED
    BY <2>1, <2>2, <2>3 DEF Next
<1>3. PollInv => OnlyCertainTruncations
  BY DEF PollInv, OnlyCertainTruncations
<1> QED
  BY <1>1, <1>2, <1>3, PTL DEF Spec

------------------------------------------------------------------------------
(***************************************************************************)
(* For any units, releases and broken ones among them, for any number of    *)
(* runners and faults: the updater leaves the units it found at work        *)
(* served, and no broken release behind.                                    *)
(*                                                                          *)
(* The argument follows the one run that holds the lock: what is down is on *)
(* its list, what is broken in $BIN is still on trial, and what is in       *)
(* $BIN.prev is not.                                                        *)
(***************************************************************************)
PCs == {"idle", "list", "stop", "backup", "install", "start", "check", "undo", "restore", "restart"}

Resting(r) == job[r].pc = "idle" /\ job[r].units = {}
Holds(r, pcs) == lock = r /\ job[r].pc \in pcs

(* One run at a time, and none without the lock.                            *)
OneRun ==
    \A r \in Runners : IF lock = r THEN job[r].pc # "idle" ELSE Resting(r)

(* The list is made once, and only an empty one goes past its units.        *)
Listed ==
    \A r \in Runners :
        /\ job[r].pc = "list" => job[r].units = {}
        /\ job[r].pc \in {"stop", "start", "check", "undo", "restore", "restart"} => job[r].units # {}

(* The target of a run, and what the publisher has out.                     *)
Targeted ==
    /\ \E m \in released : \A w \in released : w <= m
    /\ \A r \in Runners :
          /\ job[r].pc # "idle" => job[r].target \in Versions
          /\ job[r].pc \in {"install", "start", "check", "undo", "restore", "restart"}
                 => backup \in Versions

(* What a unit may be doing while its run is where it is.                   *)
DownIsListed ==
    \A u \in wanted : status[u] = "stopped" => \E r \in Runners : lock = r /\ u \in job[r].units
StoppedFirst ==
    \A r \in Runners : Holds(r, {"backup", "install", "start"})
                           => \A u \in job[r].units : status[u] = "stopped"
OnTrial ==
    \A r \in Runners : Holds(r, {"check"}) /\ bin \in Broken
                           => \A u \in job[r].units : status[u] # "active"

(* What is in $BIN, and in $BIN.prev.                                       *)
Tried(v) == v \in Broken => v \in untried
BinTried == Tried(bin) \/ \E r \in Runners : Holds(r, {"start", "check", "undo", "restore"})
BackupTried ==
    \A r \in Runners : Holds(r, {"install", "start", "check", "undo", "restore"}) => Tried(backup)

Served == DownIsListed /\ StoppedFirst /\ OnTrial /\ BinTried /\ BackupTried

UpdateInv == UpdaterTypeOK /\ OneRun /\ Listed /\ Targeted /\ (~harmed => Served)

------------------------------------------------------------------------------
(* The newest of the releases is one of them.                               *)
LEMMA NewestReleased ==
    ASSUME \E m \in released : \A w \in released : w <= m
    PROVE  Newest(released) \in released
  BY Zenon DEF Newest

(* Initially every unit is at work, on a version that comes up.             *)
LEMMA InitServed == ASSUME UpdaterAssumption, UpdaterInit PROVE UpdateInv
<1>1. UpdaterTypeOK
  BY DEF UpdaterInit, UpdaterTypeOK, UpdaterAssumption, Idle
<1>2. OneRun /\ Listed
  BY DEF UpdaterInit, OneRun, Listed, Resting, Idle, UpdaterAssumption
<1>3. Targeted
  BY DEF UpdaterInit, Targeted, Idle, UpdaterAssumption
<1>4. Served
  BY DEF UpdaterInit, Served, DownIsListed, StoppedFirst, OnTrial, BinTried, BackupTried, Tried, Holds,
         Idle, UpdaterAssumption
<1>5. QED
  BY <1>1, <1>2, <1>3, <1>4 DEF UpdateInv

------------------------------------------------------------------------------
(* Types.                                                                   *)
LEMMA ExitType == ASSUME NEW r \in Runners, UpdaterTypeOK, Exit(r) PROVE
    /\ lock' \in Runners \cup {Nobody}
    /\ job' \in [Runners -> [pc: PCs, target: Versions \cup {0}, units: SUBSET Units]]
  BY DEF UpdaterTypeOK, Exit, Idle, PCs

LEMMA GotoType == ASSUME NEW r \in Runners, NEW pc \in PCs, UpdaterTypeOK, Goto(r, pc) PROVE
    job' \in [Runners -> [pc: PCs, target: Versions \cup {0}, units: SUBSET Units]]
  BY DEF UpdaterTypeOK, Goto, PCs

LEMMA StatusType == ASSUME UpdaterTypeOK, NEW units, NEW but PROVE
    /\ Stopped(units) \in [Units -> {"active", "failing", "stopped"}]
    /\ StartSome(units, but) => status' \in [Units -> {"active", "failing", "stopped"}] /\ faults' \in Nat
    /\ \A v : Started(v) \in {"active", "failing"}
  BY DEF UpdaterTypeOK, Stopped, StartSome, Started

(* What becomes of the scripts.                                             *)
LEMMA ExitJob == ASSUME NEW r \in Runners, UpdaterTypeOK, Exit(r) PROVE
    /\ lock' = Nobody /\ DOMAIN job' = Runners
    /\ job'[r].pc = "idle" /\ job'[r].units = {} /\ job'[r].target = 0
    /\ \A q \in Runners : q # r => job'[q] = job[q]
  BY DEF UpdaterTypeOK, Exit, Idle

LEMMA GotoJob == ASSUME NEW r \in Runners, NEW pc, UpdaterTypeOK, Goto(r, pc) PROVE
    /\ DOMAIN job' = Runners
    /\ job'[r].pc = pc /\ job'[r].units = job[r].units /\ job'[r].target = job[r].target
    /\ \A q \in Runners : q # r => job'[q] = job[q]
  BY DEF UpdaterTypeOK, Goto

LEMMA ListJob == ASSUME NEW r \in Runners, UpdaterTypeOK, List(r) PROVE
    /\ job' \in [Runners -> [pc: PCs, target: Versions \cup {0}, units: SUBSET Units]]
    /\ job'[r].units = {u \in Units : status[u] = "active"} /\ job'[r].target = job[r].target
    /\ job'[r].pc = (IF job'[r].units = {} THEN "backup" ELSE "stop")
    /\ \A q \in Runners : q # r => job'[q] = job[q]
<1> DEFINE units == {u \in Units : status[u] = "active"}
           pc == IF units = {} THEN "backup" ELSE "stop"
<1>1. job' = [job EXCEPT ![r].units = units, ![r].pc = pc]
  BY DEF List
<1>2. units \in SUBSET Units /\ pc \in {"backup", "stop"}
  OBVIOUS
<1> HIDE DEF units, pc
<1>3. /\ job' \in [Runners -> [pc: PCs, target: Versions \cup {0}, units: SUBSET Units]]
      /\ job'[r].units = units /\ job'[r].target = job[r].target /\ job'[r].pc = pc
      /\ \A q \in Runners : q # r => job'[q] = job[q]
  BY <1>1, <1>2 DEF UpdaterTypeOK, PCs
<1>4. QED
  BY <1>3 DEF units, pc

LEMMA TypePreserved == ASSUME UpdaterAssumption, UpdateInv, [UpdaterNext]_updaterVars PROVE UpdaterTypeOK'
<1> USE DEF UpdateInv
<1>1. CASE UNCHANGED updaterVars
  BY <1>1 DEF UpdaterTypeOK, updaterVars, system, world
<1>2. ASSUME NEW v \in Versions, Publish(v) PROVE UpdaterTypeOK'
  BY <1>2 DEF UpdaterTypeOK, Publish, system
<1>3. ASSUME NEW u \in Units, Crash(u) PROVE UpdaterTypeOK'
  BY <1>3 DEF UpdaterTypeOK, Crash
<1>4. ASSUME NEW u \in Units, Retry(u) PROVE UpdaterTypeOK'
  BY <1>4 DEF UpdaterTypeOK, Retry, world
<1>5. ASSUME NEW u \in Units, OperatorStarts(u) PROVE UpdaterTypeOK'
  BY <1>5 DEF UpdaterTypeOK, OperatorStarts, Started
<1>6. ASSUME NEW u \in Units, OperatorStops(u) PROVE UpdaterTypeOK'
  BY <1>6 DEF UpdaterTypeOK, OperatorStops
<1>7. CASE Reboot
  BY <1>7 DEF UpdaterTypeOK, Reboot, Started, Idle
<1>8. ASSUME NEW r \in Runners, Begin(r) PROVE UpdaterTypeOK'
  <2>1. Newest(released) \in Versions
    BY NewestReleased DEF UpdaterTypeOK, Targeted
  <2>2. QED
    BY <1>8, <2>1 DEF UpdaterTypeOK, Begin, system, world
<1>9. ASSUME NEW r \in Runners, List(r) PROVE UpdaterTypeOK'
  <2>1. job' \in [Runners -> [pc: PCs, target: Versions \cup {0}, units: SUBSET Units]]
    BY <1>9, ListJob DEF UpdaterTypeOK, PCs
  <2>2. QED
    BY <1>9, <2>1 DEF UpdaterTypeOK, List, system, world, PCs
<1>10. ASSUME NEW r \in Runners, Stop(r) PROVE UpdaterTypeOK'
  BY <1>10, StatusType, GotoType DEF UpdaterTypeOK, Stop, world, PCs
<1>11. ASSUME NEW r \in Runners, Backup(r) PROVE UpdaterTypeOK'
  BY <1>11, GotoType DEF UpdaterTypeOK, Backup, world, PCs
<1>12. ASSUME NEW r \in Runners, Install(r) PROVE UpdaterTypeOK'
  <2>1. job[r].target \in Versions
    BY <1>12 DEF Install, At, Targeted
  <2>2. /\ job' \in [Runners -> [pc: PCs, target: Versions \cup {0}, units: SUBSET Units]]
        /\ lock' \in Runners \cup {Nobody}
    BY <1>12, ExitType, GotoType DEF UpdaterTypeOK, Install, PCs
  <2>3. QED
    BY <1>12, <2>1, <2>2 DEF UpdaterTypeOK, Install, world, PCs
<1>13. ASSUME NEW r \in Runners, StartUnits(r) PROVE UpdaterTypeOK'
  BY <1>13, StatusType, GotoType DEF UpdaterTypeOK, StartUnits, PCs
<1>14. ASSUME NEW r \in Runners, Check(r) PROVE UpdaterTypeOK'
  <2>1. /\ job' \in [Runners -> [pc: PCs, target: Versions \cup {0}, units: SUBSET Units]]
        /\ lock' \in Runners \cup {Nobody}
    BY <1>14, ExitType, GotoType DEF UpdaterTypeOK, Check, PCs
  <2>2. QED
    BY <1>14, <2>1 DEF UpdaterTypeOK, Check, world, system, PCs
<1>15. ASSUME NEW r \in Runners, Undo(r) PROVE UpdaterTypeOK'
  BY <1>15, StatusType, GotoType DEF UpdaterTypeOK, Undo, world, PCs
<1>16. ASSUME NEW r \in Runners, Restore(r) PROVE UpdaterTypeOK'
  <2>1. backup \in Versions
    BY <1>16 DEF Restore, At, Targeted
  <2>2. QED
    BY <1>16, <2>1, GotoType DEF UpdaterTypeOK, Restore, world, PCs
<1>17. ASSUME NEW r \in Runners, Restart(r) PROVE UpdaterTypeOK'
  <2>1. /\ job' \in [Runners -> [pc: PCs, target: Versions \cup {0}, units: SUBSET Units]]
        /\ lock' \in Runners \cup {Nobody}
    BY <1>17, ExitType DEF Restart
  <2>2. status' \in [Units -> {"active", "failing", "stopped"}] /\ faults' \in Nat /\ harmed' \in BOOLEAN
    BY <1>17, StatusType DEF Restart, UpdaterTypeOK
  <2>3. QED
    BY <1>17, <2>1, <2>2 DEF UpdaterTypeOK, Restart, PCs
<1>18. ASSUME NEW r \in Runners, Fail(r) PROVE UpdaterTypeOK'
  <2>1. /\ job' \in [Runners -> [pc: PCs, target: Versions \cup {0}, units: SUBSET Units]]
        /\ lock' \in Runners \cup {Nobody}
    BY <1>18, ExitType DEF Fail
  <2>2. status' \in [Units -> {"active", "failing", "stopped"}] /\ harmed' \in BOOLEAN
    BY <1>18, StatusType DEF Fail, UpdaterTypeOK
  <2>3. QED
    BY <1>18, <2>1, <2>2 DEF UpdaterTypeOK, Fail, PCs
<1>19. QED
  BY <1>1, <1>2, <1>3, <1>4, <1>5, <1>6, <1>7, <1>8, <1>9, <1>10, <1>11, <1>12, <1>13, <1>14,
     <1>15, <1>16, <1>17, <1>18 DEF UpdaterNext, Systemd, Step

------------------------------------------------------------------------------
(* One run at a time, with its list and its target.                         *)
LEMMA ShapePreserved ==
    ASSUME UpdaterAssumption, UpdateInv, [UpdaterNext]_updaterVars
    PROVE  OneRun' /\ Listed' /\ Targeted'
<1> USE DEF UpdateInv
<1>1. ASSUME UNCHANGED <<job, lock, backup, released>> PROVE OneRun' /\ Listed' /\ Targeted'
  BY <1>1 DEF OneRun, Listed, Targeted, Resting
<1>2. ASSUME NEW v \in Versions, Publish(v) PROVE OneRun' /\ Listed' /\ Targeted'
  <2>1. v \in released' /\ \A w \in released' : w <= v
    <3>1. v \in Nat /\ released \subseteq Nat
      BY DEF UpdaterAssumption, UpdaterTypeOK
    <3>2. QED
      BY <1>2, <3>1 DEF Publish
  <2>2. QED
    BY <1>2, <2>1 DEF Publish, system, OneRun, Listed, Targeted, Resting
<1>3. CASE Reboot
  <2>1. \A r \in Runners : job'[r].pc = "idle" /\ job'[r].units = {}
    BY <1>3 DEF Reboot, Idle
  <2>2. \A r \in Runners : lock' # r
    BY <1>3 DEF Reboot, UpdaterAssumption
  <2>3. QED
    BY <1>3, <2>1, <2>2 DEF Reboot, OneRun, Listed, Targeted, Resting
<1>4. ASSUME NEW r \in Runners, Begin(r) PROVE OneRun' /\ Listed' /\ Targeted'
  <2>1. Newest(released) \in Versions
    BY NewestReleased DEF UpdaterTypeOK, Targeted
  <2>2. /\ job'[r].pc = "list" /\ job'[r].units = {} /\ job'[r].target = Newest(released)
        /\ \A q \in Runners : q # r => job'[q] = job[q]
        /\ lock = Nobody /\ lock' = r /\ UNCHANGED <<released, backup>>
    BY <1>4 DEF Begin, Free, UpdaterTypeOK, system, world
  <2>3. \A q \in Runners : lock # q
    BY <2>2 DEF UpdaterAssumption
  <2>4. OneRun' /\ Listed'
    BY <2>2, <2>3 DEF OneRun, Listed, Resting
  <2>5. Targeted'
    BY <2>1, <2>2 DEF Targeted
  <2>6. QED
    BY <2>4, <2>5
<1>5. ASSUME NEW r \in Runners, ~At(r, "idle") PROVE lock = r /\ \A q \in Runners : q # r => Resting(q)
  BY <1>5 DEF OneRun, Resting, At
<1>6. ASSUME NEW r \in Runners, ~At(r, "idle"), Exit(r), UNCHANGED released,
             \A q \in Runners : q # r => Resting(q)
      PROVE  OneRun' /\ Listed' /\ Targeted'
  <2>1. \A q \in Runners : job'[q].pc = "idle" /\ job'[q].units = {} /\ lock' # q
    BY <1>6, ExitJob DEF Resting, UpdaterAssumption
  <2>2. QED
    BY <1>6, <2>1 DEF OneRun, Listed, Targeted, Resting
<1>7. ASSUME NEW r \in Runners, ~At(r, "idle"), NEW pc \in PCs, pc \notin {"idle", "list"}, Goto(r, pc),
             UNCHANGED <<released, lock>>,
             pc \in {"stop", "start", "check", "undo", "restore", "restart"} => job[r].units # {},
             pc \in {"install", "start", "check", "undo", "restore", "restart"} => backup' \in Versions,
             lock = r, \A q \in Runners : q # r => Resting(q)
      PROVE  OneRun' /\ Listed' /\ Targeted'
  <2>1. /\ job'[r].pc = pc /\ job'[r].units = job[r].units /\ job'[r].target = job[r].target
        /\ \A q \in Runners : q # r => job'[q] = job[q]
    BY <1>7, GotoJob
  <2>2. OneRun' /\ Listed'
    BY <1>7, <2>1 DEF OneRun, Listed, Resting
  <2>3. job[r].target \in Versions
    BY <1>7 DEF Targeted, At
  <2>4. Targeted'
    <3>1. \E m \in released' : \A w \in released' : w <= m
      BY <1>7 DEF Targeted
    <3>2. \A q \in Runners : job'[q].pc = "idle" \/ q = r
      BY <1>7, <2>1 DEF Resting
    <3>3. QED
      BY <1>7, <2>1, <2>3, <3>1, <3>2 DEF Targeted
  <2>5. QED
    BY <2>2, <2>4
<1>8. ASSUME NEW r \in Runners, List(r) PROVE OneRun' /\ Listed' /\ Targeted'
  <2>1. /\ job'[r].pc \in {"stop", "backup"} /\ (job'[r].pc = "stop" => job'[r].units # {})
        /\ job'[r].target = job[r].target
        /\ \A q \in Runners : q # r => job'[q] = job[q]
    BY <1>8, ListJob
  <2>2. UNCHANGED <<lock, backup, released>> /\ job[r].pc = "list"
    BY <1>8 DEF List, system, world, At
  <2>3. QED
    BY <2>1, <2>2 DEF OneRun, Listed, Targeted, Resting
<1>9. ASSUME NEW r \in Runners, Stop(r) \/ Backup(r) PROVE OneRun' /\ Listed' /\ Targeted'
  <2>1. ~At(r, "idle") /\ (Goto(r, "backup") \/ Goto(r, "install")) /\ UNCHANGED <<released, lock>>
        /\ (Goto(r, "install") => backup' \in Versions)
    BY <1>9, GotoJob DEF Stop, Backup, At, world, UpdaterTypeOK
  <2>2. QED
    BY <1>5, <1>7, <2>1 DEF PCs
<1>10. ASSUME NEW r \in Runners, Install(r) \/ Check(r) PROVE OneRun' /\ Listed' /\ Targeted'
  <2>1. /\ ~At(r, "idle") /\ UNCHANGED <<released, backup>>
        /\ backup \in Versions
        /\ \/ Exit(r)
           \/ job[r].units # {} /\ (Goto(r, "start") \/ Goto(r, "undo")) /\ UNCHANGED lock
    BY <1>10 DEF Install, Check, At, world, system, Targeted, Listed
  <2>2. QED
    BY <1>5, <1>6, <1>7, <2>1 DEF PCs
<1>11. ASSUME NEW r \in Runners, StartUnits(r) \/ Undo(r) \/ Restore(r)
       PROVE  OneRun' /\ Listed' /\ Targeted'
  <2>1. /\ ~At(r, "idle") /\ UNCHANGED <<released, lock, backup>>
        /\ backup \in Versions /\ job[r].units # {}
        /\ Goto(r, "check") \/ Goto(r, "restore") \/ Goto(r, "restart")
    BY <1>11 DEF StartUnits, Undo, Restore, At, world, Targeted, Listed
  <2>2. QED
    BY <1>5, <1>7, <2>1 DEF PCs
<1>12. ASSUME NEW r \in Runners, Restart(r) \/ Fail(r) PROVE OneRun' /\ Listed' /\ Targeted'
  <2>1. ~At(r, "idle") /\ Exit(r) /\ UNCHANGED released
    BY <1>12 DEF Restart, Fail, At
  <2>2. QED
    BY <1>5, <1>6, <2>1
<1>13. ASSUME NEW u \in Units, Systemd(u) PROVE OneRun' /\ Listed' /\ Targeted'
  BY <1>1, <1>13 DEF Systemd, Crash, Retry, OperatorStarts, OperatorStops, world
<1>14. CASE UNCHANGED updaterVars
  BY <1>1, <1>14 DEF updaterVars, system, world
<1>15. QED
  BY <1>2, <1>3, <1>4, <1>8, <1>9, <1>10, <1>11, <1>12, <1>13, <1>14 DEF UpdaterNext, Step

------------------------------------------------------------------------------
(* Nothing is left down or broken, unless in mid-update something failed.   *)
LEMMA ServedPreserved ==
    ASSUME UpdaterAssumption, UpdateInv, [UpdaterNext]_updaterVars, ~harmed'
    PROVE  Served'
<1> USE DEF UpdateInv
<1>1. \A r \in Runners : job'[r].units \subseteq Units /\ job[r].units \subseteq Units
  BY TypePreserved DEF UpdaterTypeOK
<1>2. CASE UNCHANGED updaterVars
  <2>1. UNCHANGED <<bin, backup, status, wanted, lock, job, untried, harmed>>
    BY <1>2 DEF updaterVars, system, world
  <2>2. DownIsListed' /\ StoppedFirst' /\ OnTrial'
    BY <2>1 DEF Served, DownIsListed, StoppedFirst, OnTrial, Holds
  <2>3. QED
    BY <2>1, <2>2 DEF Served, BinTried, BackupTried, Tried, Holds
<1>3. ASSUME NEW v \in Versions, Publish(v) PROVE Served'
  BY <1>3 DEF Publish, system, Served, DownIsListed, StoppedFirst, OnTrial, BinTried, BackupTried,
              Tried, Holds
<1>4. ASSUME NEW u \in Units, UNCHANGED <<bin, backup, lock, job, untried, harmed>>,
             Crash(u) \/ Retry(u)
      PROVE  Served'
  <2>1. /\ wanted' = wanted
        /\ \A w \in Units : status'[w] = "stopped" <=> status[w] = "stopped"
        /\ bin \in Broken => \A w \in Units : status'[w] = "active" => status[w] = "active"
    BY <1>4 DEF Crash, Retry, UpdaterTypeOK, world
  <2>2. DownIsListed'
    BY <1>4, <2>1 DEF Served, DownIsListed, UpdaterTypeOK
  <2>3. StoppedFirst' /\ OnTrial'
    BY <1>1, <1>4, <2>1 DEF Served, StoppedFirst, OnTrial, Holds
  <2>4. QED
    BY <1>4, <2>2, <2>3 DEF Served, BinTried, BackupTried, Tried, Holds
<1>5. ASSUME NEW u \in Units, OperatorStarts(u) PROVE Served'
  <2>1. /\ UNCHANGED <<bin, backup, lock, job, untried>> /\ ~harmed
        /\ \A r \in Runners : u \notin job[r].units
        /\ wanted' = wanted \cup {u}
        /\ status'[u] # "stopped" /\ \A w \in Units \ {u} : status'[w] = status[w]
    BY <1>5 DEF OperatorStarts, UpdaterTypeOK, Started
  <2>2. DownIsListed'
    BY <2>1 DEF Served, DownIsListed, UpdaterTypeOK
  <2>3. StoppedFirst' /\ OnTrial'
    BY <1>1, <2>1 DEF Served, StoppedFirst, OnTrial, Holds
  <2>4. QED
    BY <2>1, <2>2, <2>3 DEF Served, BinTried, BackupTried, Tried, Holds
<1>6. ASSUME NEW u \in Units, OperatorStops(u) PROVE Served'
  <2>1. /\ UNCHANGED <<bin, backup, lock, job, untried, harmed>>
        /\ wanted' = wanted \ {u}
        /\ status'[u] = "stopped" /\ \A w \in Units \ {u} : status'[w] = status[w]
    BY <1>6 DEF OperatorStops, UpdaterTypeOK
  <2>2. DownIsListed'
    BY <2>1 DEF Served, DownIsListed, UpdaterTypeOK
  <2>3. StoppedFirst' /\ OnTrial'
    BY <1>1, <2>1 DEF Served, StoppedFirst, OnTrial, Holds
  <2>4. QED
    BY <2>1, <2>2, <2>3 DEF Served, BinTried, BackupTried, Tried, Holds
<1>7. CASE Reboot
  <2>1. /\ lock = Nobody /\ ~harmed /\ lock' = Nobody /\ UNCHANGED <<bin, untried>>
        /\ \A u \in Units : status'[u] # "stopped"
    BY <1>7 DEF Reboot, Started, UpdaterTypeOK
  <2>2. \A r \in Runners : lock # r /\ lock' # r
    BY <2>1 DEF UpdaterAssumption
  <2>3. wanted' \subseteq Units
    BY <1>7 DEF Reboot
  <2>4. QED
    BY <2>1, <2>2, <2>3 DEF Served, DownIsListed, StoppedFirst, OnTrial, BinTried, BackupTried,
                            Tried, Holds
<1>8. ASSUME NEW r \in Runners, Begin(r) PROVE Served'
  <2>1. /\ job'[r].pc = "list" /\ lock = Nobody /\ lock' = r /\ ~harmed
        /\ UNCHANGED <<bin, untried, status, wanted>>
    BY <1>8 DEF Begin, Free, UpdaterTypeOK, system, world
  <2>2. \A q \in Runners : lock # q
    BY <2>1 DEF UpdaterAssumption
  <2>3. QED
    BY <2>1, <2>2 DEF Served, DownIsListed, StoppedFirst, OnTrial, BinTried, BackupTried, Tried, Holds
<1>9. ASSUME NEW r \in Runners, ~At(r, "idle") PROVE lock = r /\ \A q \in Runners : lock = q => q = r
  BY <1>9 DEF OneRun, Resting, At
<1>10. ASSUME NEW r \in Runners, List(r) PROVE Served'
  <2>1. /\ lock = r /\ lock' = r /\ ~harmed /\ job[r].pc = "list" /\ job[r].units = {}
        /\ UNCHANGED <<bin, untried, status, wanted>>
    BY <1>9, <1>10 DEF List, system, world, At, Listed
  <2>2. /\ job'[r].pc \in {"stop", "backup"} /\ (job'[r].pc = "backup" => job'[r].units = {})
    BY <1>10, ListJob
  <2>3. \A q \in Runners : lock' = q => q = r
    BY <2>1
  <2>4. QED
    BY <2>1, <2>2, <2>3 DEF Served, DownIsListed, StoppedFirst, OnTrial, BinTried, BackupTried,
                            Tried, Holds
(* A step of the run that goes on. *)
<1>11. ASSUME NEW r \in Runners, ~At(r, "idle"), NEW pc, Goto(r, pc), UNCHANGED lock, wanted' = wanted
       PROVE  /\ lock = r /\ lock' = r /\ \A q \in Runners : lock = q \/ lock' = q => q = r
              /\ job'[r].pc = pc /\ job'[r].units = job[r].units
              /\ (\A u \in wanted : status'[u] = "stopped" => status[u] = "stopped" \/ u \in job[r].units)
                     /\ ~harmed => DownIsListed'
  <2>1. lock = r /\ lock' = r /\ \A q \in Runners : lock = q \/ lock' = q => q = r
    BY <1>9, <1>11
  <2>2. job'[r].pc = pc /\ job'[r].units = job[r].units
    BY <1>11, GotoJob
  <2>3. QED
    BY <1>11, <2>1, <2>2 DEF Served, DownIsListed
(* A step that ends the run. *)
<1>12. ASSUME NEW r \in Runners, ~At(r, "idle"), Exit(r), wanted' = wanted, ~harmed,
              \A u \in wanted : status'[u] # "stopped", Tried(bin)'
       PROVE  Served'
  <2>1. \A q \in Runners : lock' # q
    BY <1>12, ExitJob DEF UpdaterAssumption
  <2>2. QED
    BY <1>12, <2>1 DEF Served, DownIsListed, StoppedFirst, OnTrial, BinTried, BackupTried, Holds
<1>13. ASSUME NEW r \in Runners, Stop(r) PROVE Served'
  <2>1. /\ ~At(r, "idle") /\ Goto(r, "backup") /\ UNCHANGED <<bin, untried, lock, wanted>> /\ ~harmed
        /\ job[r].pc = "stop"
        /\ status' = Stopped(job[r].units)
    BY <1>13 DEF Stop, At, world
  <2>2. /\ \A u \in job[r].units : status'[u] = "stopped"
        /\ \A u \in Units \ job[r].units : status'[u] = status[u]
    BY <1>1, <2>1 DEF Stopped
  <2>3. DownIsListed'
    BY <1>11, <2>1, <2>2 DEF UpdaterTypeOK
  <2>4. lock = r /\ lock' = r /\ (\A q \in Runners : lock = q \/ lock' = q => q = r)
        /\ job'[r].pc = "backup" /\ job'[r].units = job[r].units
    BY <1>11, <2>1
  <2>5. QED
    BY <2>1, <2>2, <2>3, <2>4 DEF Served, StoppedFirst, OnTrial, BinTried, BackupTried, Tried, Holds
<1>14. ASSUME NEW r \in Runners, Backup(r) PROVE Served'
  <2>1. /\ ~At(r, "idle") /\ Goto(r, "install") /\ UNCHANGED <<bin, untried, lock, wanted, status>> /\ ~harmed
        /\ job[r].pc = "backup" /\ backup' = bin
    BY <1>14 DEF Backup, At, world
  <2>2. DownIsListed'
    BY <1>11, <2>1
  <2>3. lock = r /\ lock' = r /\ (\A q \in Runners : lock = q \/ lock' = q => q = r)
        /\ job'[r].pc = "install" /\ job'[r].units = job[r].units
    BY <1>11, <2>1
  <2>4. Tried(bin)
    BY <2>1, <2>3 DEF Served, BinTried, Holds
  <2>5. QED
    BY <2>1, <2>2, <2>3, <2>4 DEF Served, StoppedFirst, OnTrial, BinTried, BackupTried, Tried, Holds
<1>15. ASSUME NEW r \in Runners, Install(r) PROVE Served'
  <2>1. /\ ~At(r, "idle") /\ UNCHANGED <<backup, wanted, status>> /\ ~harmed
        /\ job[r].pc = "install" /\ lock = r
    BY <1>9, <1>15 DEF Install, At, world
  <2>2. CASE job[r].units = {}
    <3>1. Exit(r) /\ bin' \in untried'
      BY <1>15, <2>2 DEF Install
    <3>2. \A u \in wanted : status'[u] # "stopped"
      BY <2>1, <2>2 DEF Served, DownIsListed
    <3>3. QED
      BY <1>12, <2>1, <3>1, <3>2 DEF Tried
  <2>3. CASE job[r].units # {}
    <3>1. Goto(r, "start") /\ UNCHANGED <<lock, untried>>
      BY <1>15, <2>3 DEF Install
    <3>2. DownIsListed'
      BY <1>11, <2>1, <3>1
    <3>3. lock = r /\ lock' = r /\ (\A q \in Runners : lock = q \/ lock' = q => q = r)
          /\ job'[r].pc = "start" /\ job'[r].units = job[r].units
      BY <1>11, <2>1, <3>1
    <3>4. QED
      BY <2>1, <3>1, <3>2, <3>3 DEF Served, StoppedFirst, OnTrial, BinTried, BackupTried, Tried, Holds
  <2>4. QED
    BY <2>2, <2>3
<1>16. ASSUME NEW r \in Runners, NEW but, StartSome(job[r].units, but)
       PROVE  /\ \A u \in Units : status'[u] = "stopped" => status[u] = "stopped"
              /\ but = {} => \A u \in job[r].units : status'[u] # "stopped"
              /\ bin \in Broken => \A u \in Units : status'[u] = "active" => status[u] = "active"
  BY <1>1, <1>16 DEF StartSome, Started, UpdaterTypeOK
<1>17. ASSUME NEW r \in Runners, StartUnits(r) PROVE Served'
  <2>1. /\ ~At(r, "idle") /\ Goto(r, "check") /\ UNCHANGED <<bin, backup, untried, lock, wanted>> /\ ~harmed
        /\ job[r].pc = "start"
    BY <1>17 DEF StartUnits, At
  <2>2. PICK but : StartSome(job[r].units, but)
    BY <1>17 DEF StartUnits
  <2>3. DownIsListed'
    BY <1>11, <1>16, <2>1, <2>2 DEF UpdaterTypeOK
  <2>4. lock = r /\ lock' = r /\ (\A q \in Runners : lock = q \/ lock' = q => q = r)
        /\ job'[r].pc = "check" /\ job'[r].units = job[r].units
    BY <1>11, <2>1
  <2>5. \A u \in job[r].units : status[u] = "stopped"
    BY <2>1, <2>4 DEF Served, StoppedFirst, Holds
  <2>6. bin \in Broken => \A u \in job[r].units : status'[u] # "active"
    BY <1>1, <1>16, <2>2, <2>5
  <2>7. QED
    BY <2>1, <2>3, <2>4, <2>6 DEF Served, StoppedFirst, OnTrial, BinTried, BackupTried, Tried, Holds
<1>18. ASSUME NEW r \in Runners, Check(r) PROVE Served'
  <2>1. /\ ~At(r, "idle") /\ UNCHANGED <<bin, backup, status, untried, wanted>> /\ ~harmed
        /\ job[r].pc = "check" /\ lock = r /\ job[r].units # {}
    BY <1>9, <1>18 DEF Check, At, world, system, Listed
  <2>2. CASE AllActive(job[r].units)
    <3>1. Exit(r)
      BY <1>18, <2>2 DEF Check
    <3>2. bin \notin Broken
      BY <2>1, <2>2 DEF AllActive, Served, OnTrial, Holds
    <3>3. \A u \in wanted : status'[u] # "stopped"
      BY <2>1, <2>2 DEF AllActive, Served, DownIsListed
    <3>4. QED
      BY <1>12, <2>1, <3>1, <3>2, <3>3 DEF Tried
  <2>3. CASE ~AllActive(job[r].units)
    <3>1. Goto(r, "undo") /\ UNCHANGED lock
      BY <1>18, <2>3 DEF Check
    <3>2. DownIsListed'
      BY <1>11, <2>1, <3>1
    <3>3. lock = r /\ lock' = r /\ (\A q \in Runners : lock = q \/ lock' = q => q = r)
          /\ job'[r].pc = "undo" /\ job'[r].units = job[r].units
      BY <1>11, <2>1, <3>1
    <3>4. QED
      BY <2>1, <3>2, <3>3 DEF Served, StoppedFirst, OnTrial, BinTried, BackupTried, Tried, Holds
  <2>4. QED
    BY <2>2, <2>3
<1>19. ASSUME NEW r \in Runners, Undo(r) PROVE Served'
  <2>1. /\ ~At(r, "idle") /\ Goto(r, "restore") /\ UNCHANGED <<bin, backup, untried, lock, wanted>> /\ ~harmed
        /\ job[r].pc = "undo"
        /\ status' = Stopped(job[r].units)
    BY <1>19 DEF Undo, At, world
  <2>2. \A u \in Units \ job[r].units : status'[u] = status[u]
    BY <1>1, <2>1 DEF Stopped
  <2>3. DownIsListed'
    BY <1>11, <2>1, <2>2 DEF UpdaterTypeOK
  <2>4. lock = r /\ lock' = r /\ (\A q \in Runners : lock = q \/ lock' = q => q = r)
        /\ job'[r].pc = "restore" /\ job'[r].units = job[r].units
    BY <1>11, <2>1
  <2>5. QED
    BY <2>1, <2>3, <2>4 DEF Served, StoppedFirst, OnTrial, BinTried, BackupTried, Tried, Holds
<1>20. ASSUME NEW r \in Runners, Restore(r) PROVE Served'
  <2>1. /\ ~At(r, "idle") /\ Goto(r, "restart") /\ UNCHANGED <<backup, status, untried, lock, wanted>> /\ ~harmed
        /\ job[r].pc = "restore" /\ bin' = backup
    BY <1>20 DEF Restore, At, world
  <2>2. DownIsListed'
    BY <1>11, <2>1
  <2>3. lock = r /\ lock' = r /\ (\A q \in Runners : lock = q \/ lock' = q => q = r)
        /\ job'[r].pc = "restart" /\ job'[r].units = job[r].units
    BY <1>11, <2>1
  <2>4. Tried(backup)
    BY <2>1, <2>3 DEF Served, BackupTried, Holds
  <2>5. QED
    BY <2>1, <2>2, <2>3, <2>4 DEF Served, StoppedFirst, OnTrial, BinTried, BackupTried, Tried, Holds
<1>21. ASSUME NEW r \in Runners, Restart(r) PROVE Served'
  <2>1. /\ ~At(r, "idle") /\ Exit(r) /\ UNCHANGED <<bin, untried, wanted>> /\ ~harmed
        /\ job[r].pc = "restart" /\ lock = r
    BY <1>9, <1>21 DEF Restart, At
  <2>2. StartSome(job[r].units, {})
    BY <1>21 DEF Restart
  <2>3. \A u \in wanted : status'[u] # "stopped"
    BY <1>16, <2>1, <2>2 DEF Served, DownIsListed, UpdaterTypeOK
  <2>4. Tried(bin)
    BY <2>1 DEF Served, BinTried, Holds
  <2>5. QED
    BY <1>12, <2>1, <2>3, <2>4 DEF Tried
<1>22. ASSUME NEW r \in Runners, Fail(r) PROVE Served'
  <2>1. /\ ~At(r, "idle") /\ Exit(r) /\ UNCHANGED <<bin, untried, wanted>> /\ ~harmed
        /\ job[r].pc = "list" /\ lock = r
    BY <1>9, <1>22 DEF Fail, At
  <2>2. status' = Stopped({}) /\ job[r].units = {}
    BY <1>22, <2>1 DEF Fail, At, Listed
  <2>3. \A u \in wanted : status'[u] # "stopped"
    BY <2>1, <2>2 DEF Stopped, Served, DownIsListed, UpdaterTypeOK
  <2>4. Tried(bin)
    BY <2>1 DEF Served, BinTried, Holds
  <2>5. QED
    BY <1>12, <2>1, <2>3, <2>4 DEF Tried
<1>23. ASSUME NEW u \in Units, Crash(u) \/ Retry(u) PROVE Served'
  BY <1>4, <1>23 DEF Crash, Retry
<1>24. QED
  BY <1>2, <1>3, <1>5, <1>6, <1>7, <1>8, <1>10, <1>13, <1>14, <1>15, <1>17, <1>18, <1>19, <1>20,
     <1>21, <1>22, <1>23 DEF UpdaterNext, Systemd, Step

------------------------------------------------------------------------------
LEMMA UpdateInvariant == ASSUME UpdaterAssumption PROVE UpdaterSpec => []UpdateInv
<1>1. UpdaterInit => UpdateInv
  BY InitServed
<1>2. UpdateInv /\ [UpdaterNext]_updaterVars => UpdateInv'
  BY TypePreserved, ShapePreserved, ServedPreserved DEF UpdateInv
<1>3. QED
  BY <1>1, <1>2, PTL DEF UpdaterSpec

(* The updater leaves what it found at work: with no run under way, unless  *)
(* in mid-update a command failed, a reboot came or an operator started a   *)
(* stopped unit, no unit the operator wants is down, and the binary is one  *)
(* that came up or that no active unit was there to try.                    *)
THEOREM UnitsAreLeftServed == ASSUME UpdaterAssumption PROVE UpdaterSpec => []LeavesUnitsServed
<1>1. ASSUME UpdaterAssumption, UpdateInv PROVE LeavesUnitsServed
  <2>1. SUFFICES ASSUME lock = Nobody, ~harmed
                 PROVE  (\A u \in wanted : status[u] # "stopped") /\ (bin \in Broken => bin \in untried)
    BY DEF LeavesUnitsServed
  <2>2. \A r \in Runners : lock # r
    BY <1>1, <2>1 DEF UpdaterAssumption
  <2>3. QED
    BY <1>1, <2>1, <2>2 DEF UpdateInv, Served, DownIsListed, BinTried, Tried, Holds
<1>2. QED
  BY <1>1, UpdateInvariant, PTL

------------------------------------------------------------------------------
(***************************************************************************)
(* The probe ladder, for any families and numbers of addresses: what the    *)
(* lines of a run say, whatever the network and the servers answered.  A    *)
(* run is looked at as the set of its lines; each lemma tells of one rung   *)
(* which lines it prints, what they rest on, and what they are if all are   *)
(* OK.                                                                      *)
(***************************************************************************)
Printed(run) == {run[k] : k \in DOMAIN run}
AllFine(set) == \A l \in set : l.ok
Of(set, stages) == \A l \in set : l.stage \in stages
Rungs ==
    {"dns", "tcp", "tls", "cert", "chain", "http2", "redirect", "auth", "tenant",
     "grpc", "health", "temporal", "namespace", "longpoll"}
ALine == [stage: Rungs, family: Nat, ok: BOOLEAN]
Joined(run, one, two) ==
    run = one \o two /\ Printed(run) = Printed(one) \cup Printed(two)
Alone(run, l) == run = <<l>> /\ Printed(run) = {l}
Then(run, l, rest) == run = <<l>> \o rest /\ Printed(run) = {l} \cup Printed(rest)

LEMMA LineIs ==
    ASSUME NEW s \in Rungs, NEW ok \in BOOLEAN
    PROVE  /\ Line(s, ok) \in ALine
           /\ Line(s, ok).stage = s /\ Line(s, ok).ok = ok /\ Line(s, ok).family = 0
  BY DEF Line, ALine

LEMMA FamilyLineIs ==
    ASSUME NEW s \in Rungs, NEW i \in Nat, NEW ok \in BOOLEAN
    PROVE  /\ FamilyLine(s, i, ok) \in ALine
           /\ FamilyLine(s, i, ok).stage = s /\ FamilyLine(s, i, ok).ok = ok
           /\ FamilyLine(s, i, ok).family = i
  BY DEF FamilyLine, Line, ALine

(* The lines of one run after another.                                      *)
LEMMA PrintedAfter ==
    ASSUME NEW r \in Seq(ALine), NEW s \in Seq(ALine)
    PROVE  r \o s \in Seq(ALine) /\ Printed(r \o s) = Printed(r) \cup Printed(s)
<1>1. /\ r \o s \in Seq(ALine) /\ Len(r \o s) = Len(r) + Len(s)
      /\ Len(r) \in Nat /\ Len(s) \in Nat
      /\ DOMAIN r = 1 .. Len(r) /\ DOMAIN s = 1 .. Len(s)
      /\ DOMAIN (r \o s) = 1 .. Len(r) + Len(s)
  OBVIOUS
<1>2. \A k \in 1 .. Len(r) + Len(s) :
        (r \o s)[k] = IF k <= Len(r) THEN r[k] ELSE s[k - Len(r)]
  OBVIOUS
<1>3. ASSUME NEW l \in Printed(r \o s) PROVE l \in Printed(r) \cup Printed(s)
  <2>1. PICK k \in 1 .. Len(r) + Len(s) : l = (r \o s)[k]
    BY <1>1, <1>3, Zenon DEF Printed
  <2>2. CASE k <= Len(r)
    <3>1. k \in DOMAIN r /\ l = r[k]
      BY <1>1, <1>2, <2>1, <2>2
    <3>2. QED
      BY <3>1, Zenon DEF Printed
  <2>3. CASE ~ (k <= Len(r))
    <3>1. k - Len(r) \in DOMAIN s /\ l = s[k - Len(r)]
      BY <1>1, <1>2, <2>1, <2>3
    <3>2. QED
      BY <3>1, Zenon DEF Printed
  <2>4. QED
    BY <2>2, <2>3, Zenon
<1>4. ASSUME NEW l \in Printed(r) PROVE l \in Printed(r \o s)
  <2>1. PICK k \in 1 .. Len(r) : l = r[k]
    BY <1>1, <1>4, Zenon DEF Printed
  <2>2. k \in DOMAIN (r \o s) /\ l = (r \o s)[k]
    BY <1>1, <1>2, <2>1
  <2>3. QED
    BY <2>2, Zenon DEF Printed
<1>5. ASSUME NEW l \in Printed(s) PROVE l \in Printed(r \o s)
  <2>1. PICK k \in 1 .. Len(s) : l = s[k]
    BY <1>1, <1>5, Zenon DEF Printed
  <2>2. k + Len(r) \in DOMAIN (r \o s) /\ l = (r \o s)[k + Len(r)]
    BY <1>1, <1>2, <2>1
  <2>3. QED
    BY <2>2, Zenon DEF Printed
<1>6. Printed(r \o s) = Printed(r) \cup Printed(s)
  BY <1>3, <1>4, <1>5, Zenon
<1>7. QED
  BY <1>1, <1>6, Zenon

LEMMA PrintedNothing == <<>> \in Seq(ALine) /\ Printed(<<>>) = {}
<1>1. <<>> \in Seq(ALine) /\ DOMAIN <<>> = {}
  OBVIOUS
<1>2. QED
  BY <1>1, Zenon DEF Printed

LEMMA PrintedOne ==
    ASSUME NEW l \in ALine
    PROVE  /\ <<l>> \in Seq(ALine) /\ Printed(<<l>>) = {l}
           /\ Len(<<l>>) = 1 /\ <<l>>[Len(<<l>>)] = l
<1>1. <<l>> \in Seq(ALine) /\ DOMAIN <<l>> = {1} /\ <<l>>[1] = l /\ Len(<<l>>) = 1
  OBVIOUS
<1>2. Printed(<<l>>) = {l}
  BY <1>1, Zenon DEF Printed
<1>3. QED
  BY <1>1, <1>2, Zenon

(* A stage of its own.                                                      *)
LEMMA EitherIs ==
    ASSUME NEW s \in Rungs, NEW r \in Either(s)
    PROVE  \E ok \in BOOLEAN : /\ Alone(r, Line(s, ok)) /\ r \in Seq(ALine)
                               /\ (Passed(r) <=> ok)
<1>1. PICK ok \in BOOLEAN : r = <<Line(s, ok)>>
  BY Zenon DEF Either
<1>2. Line(s, ok) \in ALine /\ Line(s, ok).ok = ok
  BY LineIs, Zenon
<1>3. r \in Seq(ALine) /\ Printed(r) = {Line(s, ok)} /\ r[Len(r)] = Line(s, ok)
  BY <1>1, <1>2, PrintedOne, Zenon
<1>4. Passed(r) <=> ok
  BY <1>2, <1>3, Zenon DEF Passed
<1>5. QED
  BY <1>1, <1>3, <1>4, Zenon DEF Alone

LEMMA EitherRuns == \A s \in Rungs : Either(s) \subseteq Seq(ALine)
  BY EitherIs, Zenon

(* A stage and those that consume what it brought.                          *)
LEMMA ConsumesIs ==
    ASSUME NEW s \in Rungs, NEW Y, Y \subseteq Seq(ALine), NEW r \in Consumes(Either(s), Y)
    PROVE  /\ r \in Seq(ALine)
           /\ \/ Alone(r, Line(s, FALSE))
              \/ \E y \in Y : Then(r, Line(s, TRUE), y)
<1> DEFINE Go == {x \in Either(s) : Passed(x)}
<1>1. ASSUME r \in Either(s), ~ Passed(r)
      PROVE  r \in Seq(ALine) /\ Alone(r, Line(s, FALSE))
  <2>1. PICK ok \in BOOLEAN : /\ Alone(r, Line(s, ok)) /\ r \in Seq(ALine)
                              /\ (Passed(r) <=> ok)
    BY <1>1, EitherIs, Zenon
  <2>2. ok = FALSE
    BY <1>1, <2>1, Zenon
  <2>3. QED
    BY <2>1, <2>2, Zenon
<1>2. ASSUME NEW a \in Go, NEW b \in Y, r = a \o b
      PROVE  r \in Seq(ALine) /\ Then(r, Line(s, TRUE), b)
  <2>1. PICK ok \in BOOLEAN : /\ Alone(a, Line(s, ok)) /\ a \in Seq(ALine)
                              /\ (Passed(a) <=> ok)
    BY EitherIs, Zenon
  <2>2. ok = TRUE
    BY <2>1, Zenon
  <2>3. b \in Seq(ALine)
    BY Zenon
  <2>4. r \in Seq(ALine) /\ Printed(r) = Printed(a) \cup Printed(b)
    BY <1>2, <2>1, <2>3, PrintedAfter, Zenon
  <2>5. QED
    BY <1>2, <2>1, <2>2, <2>4, Zenon DEF Alone, Then
<1>3. r \in {x \in Either(s) : ~ Passed(x)} \cup {a \o b : a \in Go, b \in Y}
  BY DEF Consumes
<1> HIDE DEF Go
<1>4. (r \in Either(s) /\ ~ Passed(r)) \/ \E a \in Go, b \in Y : r = a \o b
  BY <1>3
<1>5. QED
  BY <1>1, <1>2, <1>4, Zenon

LEMMA BesideIs ==
    ASSUME NEW X, NEW Y, X \subseteq Seq(ALine), Y \subseteq Seq(ALine), NEW r \in Beside(X, Y)
    PROVE  /\ r \in Seq(ALine)
           /\ \E x \in X, y \in Y : Joined(r, x, y)
<1>1. PICK x \in X, y \in Y : r = x \o y
  BY DEF Beside
<1>2. x \in Seq(ALine) /\ y \in Seq(ALine)
  BY Zenon
<1>3. QED
  BY <1>1, <1>2, PrintedAfter, Zenon DEF Joined

LEMMA BesideRuns ==
    ASSUME NEW X, NEW Y, X \subseteq Seq(ALine), Y \subseteq Seq(ALine)
    PROVE  Beside(X, Y) \subseteq Seq(ALine)
  BY BesideIs, Zenon

(* The rungs above tls.  The tenant: one line, or two with the cross-check, *)
(* and nothing else.                                                        *)
Tenants(o) == IF o.expects THEN 2 ELSE 1
LEMMA TenantIs ==
    ASSUME NEW o \in Credentials, NEW r \in TenantRuns(o)
    PROVE  /\ r \in Seq(ALine) /\ Of(Printed(r), {"tenant"})
           /\ AllFine(Printed(r)) => Len(r) = Tenants(o)
<1>0. "tenant" \in Rungs
  BY DEF Rungs
<1> DEFINE T(ok) == Line("tenant", ok)
<1>1. CrossCheck(o) \subseteq Seq(ALine)
  BY <1>0, EitherRuns, PrintedNothing, Zenon DEF CrossCheck
<1>2. r \in Consumes(Either("tenant"), CrossCheck(o))
  BY Zenon DEF TenantRuns
<1>3. ASSUME NEW ok \in BOOLEAN PROVE T(ok) \in ALine /\ T(ok).stage = "tenant" /\ T(ok).ok = ok
  BY <1>0, LineIs, Zenon
<1>4. /\ r \in Seq(ALine)
      /\ Alone(r, T(FALSE)) \/ \E y \in CrossCheck(o) : Then(r, T(TRUE), y)
  BY <1>0, <1>1, <1>2, ConsumesIs, Zenon
<1>5. ASSUME NEW y \in CrossCheck(o)
      PROVE  \/ o.expects /\ \E ok \in BOOLEAN : Alone(y, T(ok))
             \/ ~ o.expects /\ y = <<>> /\ Printed(y) = {}
  BY <1>0, EitherIs, PrintedNothing, Zenon DEF CrossCheck
<1> HIDE DEF T
<1>6. CASE Alone(r, T(FALSE))
  BY <1>3, <1>4, <1>6, Zenon DEF AllFine, Of, Alone
<1>7. ASSUME NEW y \in CrossCheck(o), Then(r, T(TRUE), y),
             o.expects, NEW ok \in BOOLEAN, Alone(y, T(ok))
      PROVE  Of(Printed(r), {"tenant"}) /\ Len(r) = Tenants(o)
  <2>1. Len(r) = 2
    BY <1>7 DEF Alone, Then
  <2>2. Of(Printed(r), {"tenant"})
    BY <1>3, <1>7, Zenon DEF Of, Alone, Then
  <2>3. QED
    BY <1>7, <2>1, <2>2, Zenon DEF Tenants
<1>8. ASSUME NEW y \in CrossCheck(o), Then(r, T(TRUE), y), ~ o.expects, y = <<>>, Printed(y) = {}
      PROVE  Of(Printed(r), {"tenant"}) /\ Len(r) = Tenants(o)
  <2>1. Len(r) = 1
    BY <1>8 DEF Then
  <2>2. Of(Printed(r), {"tenant"})
    BY <1>3, <1>8, Zenon DEF Of, Then
  <2>3. QED
    BY <1>8, <2>1, <2>2, Zenon DEF Tenants
<1>9. QED
  BY <1>4, <1>5, <1>6, <1>7, <1>8, Zenon

(* What a line rests on, and what a run that went all the way has printed.   *)
Says(set, s) == \E l \in set : l.stage = s
Founded(set) ==
    /\ \A s \in {"health", "temporal", "namespace", "longpoll"} :
         Says(set, s) => Line("grpc", TRUE) \in set
    /\ Says(set, "namespace") <=> Says(set, "longpoll")
    /\ Says(set, "auth") /\ Says(set, "tenant") => Line("auth", TRUE) \in set
EndsWithTenants(run, o) ==
    \E p, t \in Seq(ALine) : /\ run = p \o t
                             /\ ~ Says(Printed(p), "tenant") /\ Of(Printed(t), {"tenant"})
                             /\ Len(t) = Tenants(o)
AllTheWay(run, k, o) ==
    /\ Line(IF k = "grpc" THEN "health" ELSE "redirect", TRUE) \in Printed(run)
    /\ k = "grpc" /\ o.apiKey =>
         Line("namespace", TRUE) \in Printed(run) /\ Line("longpoll", TRUE) \in Printed(run)
    /\ k = "https" /\ o.token # "none" => EndsWithTenants(run, o)

LEMMA SaysIs ==
    ASSUME NEW s \in Rungs, NEW ok \in BOOLEAN, NEW set, Line(s, ok) \in set
    PROVE  Says(set, s)
  BY LineIs, Zenon DEF Says

LEMMA SaysUnion ==
    ASSUME NEW one, NEW two, NEW s
    PROVE  Says(one \cup two, s) <=> Says(one, s) \/ Says(two, s)
  BY Zenon DEF Says

LEMMA SaysNot ==
    ASSUME NEW set, NEW stages, Of(set, stages), NEW s, s \notin stages
    PROVE  ~ Says(set, s)
  BY Zenon DEF Says, Of

LEMMA OfUnion ==
    ASSUME NEW one, NEW two, NEW stages
    PROVE  /\ Of(one, stages) /\ Of(two, stages) => Of(one \cup two, stages)
           /\ AllFine(one \cup two) => AllFine(one) /\ AllFine(two)
  BY Zenon DEF Of, AllFine

LEMMA OfMore ==
    ASSUME NEW set, NEW some, NEW stages, some \subseteq stages, Of(set, some)
    PROVE  Of(set, stages)
  BY Zenon DEF Of

LEMMA TenantsAfter ==
    ASSUME NEW p \in Seq(ALine), NEW r \in Seq(ALine), NEW o,
           ~ Says(Printed(p), "tenant"), EndsWithTenants(r, o)
    PROVE  EndsWithTenants(p \o r, o)
<1>1. PICK q \in Seq(ALine), t \in Seq(ALine) :
          /\ r = q \o t
          /\ ~ Says(Printed(q), "tenant") /\ Of(Printed(t), {"tenant"})
          /\ Len(t) = Tenants(o)
  BY Zenon DEF EndsWithTenants
<1>2. p \o q \in Seq(ALine) /\ Printed(p \o q) = Printed(p) \cup Printed(q)
  BY PrintedAfter, Zenon
<1>3. p \o r = (p \o q) \o t
  <2>1. (p \o q) \o t = p \o (q \o t)
    BY ConcatAssociative
  <2>2. QED
    BY <1>1, <2>1
<1>4. ~ Says(Printed(p \o q), "tenant")
  BY <1>1, <1>2, SaysUnion, Zenon
<1>5. QED
  BY <1>1, <1>2, <1>3, <1>4, Zenon DEF EndsWithTenants

(* The identity: a credential that is refused names no tenant.               *)
LEMMA PyckIs ==
    ASSUME NEW o \in Credentials, NEW r \in PyckRuns(o)
    PROVE  /\ r \in Seq(ALine) /\ Of(Printed(r), {"auth", "tenant"})
           /\ Says(Printed(r), "auth") /\ Says(Printed(r), "tenant") =>
                Line("auth", TRUE) \in Printed(r)
           /\ AllFine(Printed(r)) /\ o.token # "none" => EndsWithTenants(r, o)
<1>0. "tenant" \in Rungs /\ "auth" \in Rungs /\ "auth" # "tenant" /\ "tenant" \notin {"auth"}
      /\ "auth" \notin {"tenant"}
      /\ {"auth"} \subseteq {"auth", "tenant"} /\ {"tenant"} \subseteq {"auth", "tenant"}
  BY DEF Rungs
<1>1. TenantRuns(o) \subseteq Seq(ALine)
  BY TenantIs, Zenon
<1>2. ASSUME NEW t \in TenantRuns(o)
      PROVE  /\ t \in Seq(ALine) /\ Of(Printed(t), {"tenant"}) /\ ~ Says(Printed(t), "auth")
             /\ Of(Printed(t), {"auth", "tenant"})
             /\ AllFine(Printed(t)) => EndsWithTenants(t, o)
  <2>1. /\ t \in Seq(ALine) /\ Of(Printed(t), {"tenant"})
        /\ AllFine(Printed(t)) => Len(t) = Tenants(o)
    BY TenantIs, Zenon
  <2>2. <<>> \in Seq(ALine) /\ Printed(<<>>) = {} /\ ~ Says({}, "tenant")
    BY PrintedNothing, Zenon DEF Says
  <2>3. t = <<>> \o t
    BY <2>1, ConcatEmptySeq, Zenon
  <2>4. AllFine(Printed(t)) => EndsWithTenants(t, o)
    BY <2>1, <2>2, <2>3, Zenon DEF EndsWithTenants
  <2>5. ~ Says(Printed(t), "auth") /\ Of(Printed(t), {"auth", "tenant"})
    BY <1>0, <2>1, SaysNot, OfMore, Zenon
  <2>6. QED
    BY <2>1, <2>4, <2>5, Zenon
<1>3. o.token \in {"none", "jwt", "pat"}
  BY DEF Credentials
<1>4. CASE o.token = "none"
  <2>1. r = <<>>
    BY <1>4 DEF PyckRuns
  <2>2. r \in Seq(ALine) /\ Printed(r) = {}
    BY <2>1, PrintedNothing, Zenon
  <2>3. QED
    BY <1>4, <2>2, Zenon DEF Of, Says
<1>5. CASE o.token = "jwt"
  <2>1. r \in TenantRuns(o)
    BY <1>5 DEF PyckRuns
  <2>2. QED
    BY <1>2, <2>1, Zenon
<1>6. CASE o.token = "pat"
  <2>1. r \in Consumes(Either("auth"), TenantRuns(o))
    BY <1>6 DEF PyckRuns
  <2>2. /\ r \in Seq(ALine)
        /\ Alone(r, Line("auth", FALSE)) \/ \E t \in TenantRuns(o) : Then(r, Line("auth", TRUE), t)
    BY <1>0, <1>1, <2>1, ConsumesIs, Zenon
  <2>3. \A ok \in BOOLEAN : /\ Line("auth", ok) \in ALine /\ Line("auth", ok).stage = "auth"
                            /\ Line("auth", ok).ok = ok
    BY <1>0, LineIs, Zenon
  <2>4. CASE Alone(r, Line("auth", FALSE))
    <3>1. Printed(r) = {Line("auth", FALSE)}
      BY <2>4, Zenon DEF Alone
    <3>2. Of(Printed(r), {"auth", "tenant"}) /\ ~ AllFine(Printed(r)) /\ ~ Says(Printed(r), "tenant")
      BY <1>0, <2>3, <3>1, Zenon DEF Of, AllFine, Says
    <3>3. QED
      BY <2>2, <3>2, Zenon
  <2>5. ASSUME NEW t \in TenantRuns(o), Then(r, Line("auth", TRUE), t)
        PROVE  /\ Of(Printed(r), {"auth", "tenant"}) /\ Line("auth", TRUE) \in Printed(r)
               /\ AllFine(Printed(r)) => EndsWithTenants(r, o)
    <3>1. r = <<Line("auth", TRUE)>> \o t /\ Printed(r) = {Line("auth", TRUE)} \cup Printed(t)
      BY <2>5, Zenon DEF Then
    <3>2. Of({Line("auth", TRUE)}, {"auth", "tenant"}) /\ ~ Says({Line("auth", TRUE)}, "tenant")
      BY <1>0, <2>3, Zenon DEF Of, Says
    <3>3. Of(Printed(r), {"auth", "tenant"}) /\ (AllFine(Printed(r)) => AllFine(Printed(t)))
      <4> DEFINE one == {Line("auth", TRUE)}
                 two == Printed(t)
                 S == {"auth", "tenant"}
      <4>1. Of(one, S) /\ Of(two, S) /\ Printed(r) = one \cup two
        BY <1>2, <3>1, <3>2, Zenon
      <4> HIDE DEF one, two, S
      <4>2. Of(one \cup two, S) /\ (AllFine(one \cup two) => AllFine(two))
        BY <4>1, OfUnion, Zenon
      <4>3. Of(Printed(r), S) /\ (AllFine(Printed(r)) => AllFine(two))
        BY <4>1, <4>2, Zenon
      <4>4. QED
        BY <4>3, Zenon DEF S, two
    <3>4. <<Line("auth", TRUE)>> \in Seq(ALine) /\ Printed(<<Line("auth", TRUE)>>) = {Line("auth", TRUE)}
      BY <2>3, PrintedOne, Zenon
    <3>5. AllFine(Printed(t)) => EndsWithTenants(r, o)
      BY <1>2, <3>1, <3>2, <3>4, TenantsAfter, Zenon
    <3>6. QED
      BY <3>1, <3>3, <3>5, Zenon
  <2>6. QED
    BY <2>2, <2>4, <2>5, Zenon
<1>7. QED
  BY <1>3, <1>4, <1>5, <1>6, Zenon

(* The Temporal half: the two verdicts on a namespace come together.         *)
LEMMA TemporalIs ==
    ASSUME NEW o \in Credentials, NEW r \in TemporalRuns(o)
    PROVE  /\ r \in Seq(ALine) /\ Of(Printed(r), {"temporal", "namespace", "longpoll"})
           /\ Says(Printed(r), "namespace") <=> Says(Printed(r), "longpoll")
           /\ AllFine(Printed(r)) /\ o.apiKey =>
                Line("namespace", TRUE) \in Printed(r) /\ Line("longpoll", TRUE) \in Printed(r)
<1> DEFINE Mine == {"temporal", "namespace", "longpoll"}
<1>0. /\ "temporal" \in Rungs /\ "namespace" \in Rungs /\ "longpoll" \in Rungs
      /\ "temporal" # "namespace" /\ "temporal" # "longpoll" /\ "namespace" # "longpoll"
  BY DEF Rungs
<1>1. \A s \in {"temporal", "namespace", "longpoll"}, ok \in BOOLEAN :
        Line(s, ok) \in ALine /\ Line(s, ok).stage = s /\ Line(s, ok).ok = ok
  BY <1>0, LineIs, Zenon
<1>2. CASE ~ o.apiKey
  <2>1. r = <<>>
    BY <1>2, Zenon DEF TemporalRuns
  <2>2. r \in Seq(ALine) /\ Printed(r) = {}
    BY <2>1, PrintedNothing, Zenon
  <2>3. QED
    BY <1>2, <2>2, Zenon DEF Of, Says
<1>3. CASE r = <<Line("temporal", FALSE)>>
  <2>1. r \in Seq(ALine) /\ Printed(r) = {Line("temporal", FALSE)}
    BY <1>1, <1>3, PrintedOne, Zenon
  <2>2. QED
    BY <1>0, <1>1, <2>1, Zenon DEF Of, Says, AllFine
<1>4. CASE r \in Beside(Either("temporal"), Beside(Either("namespace"), Either("longpoll")))
  <2>1. /\ Either("temporal") \subseteq Seq(ALine) /\ Either("namespace") \subseteq Seq(ALine)
        /\ Either("longpoll") \subseteq Seq(ALine)
        /\ Beside(Either("namespace"), Either("longpoll")) \subseteq Seq(ALine)
    BY <1>0, EitherRuns, BesideRuns, Zenon
  <2>2. PICK a \in Either("temporal"), b \in Beside(Either("namespace"), Either("longpoll")) :
          r \in Seq(ALine) /\ Joined(r, a, b)
    BY <1>4, <2>1, BesideIs, Zenon
  <2>3. PICK n \in Either("namespace"), p \in Either("longpoll") : Joined(b, n, p)
    BY <2>1, BesideIs, Zenon
  <2>4. PICK ok1 \in BOOLEAN, ok2 \in BOOLEAN, ok3 \in BOOLEAN :
          /\ Alone(a, Line("temporal", ok1)) /\ Alone(n, Line("namespace", ok2))
          /\ Alone(p, Line("longpoll", ok3))
    BY <1>0, EitherIs, Zenon
  <2>5. Printed(r) = {Line("temporal", ok1)} \cup ({Line("namespace", ok2)} \cup {Line("longpoll", ok3)})
    BY <2>2, <2>3, <2>4, Zenon DEF Joined, Alone
  <2>6. /\ Line("temporal", ok1) \in Printed(r) /\ Line("namespace", ok2) \in Printed(r)
        /\ Line("longpoll", ok3) \in Printed(r)
        /\ \A l \in Printed(r) : l \in {Line("temporal", ok1), Line("namespace", ok2), Line("longpoll", ok3)}
    BY <2>5, Zenon
  <2>7. Of(Printed(r), Mine)
    BY <1>1, <2>6, Zenon DEF Of
  <2>8. Says(Printed(r), "namespace") /\ Says(Printed(r), "longpoll")
    BY <1>0, <2>6, SaysIs, Zenon
  <2>9. AllFine(Printed(r)) => ok2 = TRUE /\ ok3 = TRUE
    BY <1>1, <2>6, Zenon DEF AllFine
  <2>10. QED
    BY <2>2, <2>6, <2>7, <2>8, <2>9, Zenon
<1>5. ~ o.apiKey \/ r = <<Line("temporal", FALSE)>>
      \/ r \in Beside(Either("temporal"), Beside(Either("namespace"), Either("longpoll")))
  BY Zenon DEF TemporalRuns
<1>6. QED
  BY <1>2, <1>3, <1>4, <1>5, Zenon

(* The RPC stages follow a channel that came up.                             *)
LEMMA GrpcIs ==
    ASSUME NEW o \in Credentials, NEW r \in GrpcRuns(o)
    PROVE  /\ r \in Seq(ALine)
           /\ Of(Printed(r), {"grpc", "health", "temporal", "namespace", "longpoll"})
           /\ Founded(Printed(r))
           /\ AllFine(Printed(r)) => AllTheWay(r, "grpc", o)
<1> DEFINE Mine == {"grpc", "health", "temporal", "namespace", "longpoll"}
           Upper == Beside(Either("health"), TemporalRuns(o))
           NS == {"temporal", "namespace", "longpoll"}
<1>0. /\ "grpc" \in Rungs /\ "health" \in Rungs /\ "namespace" \in Rungs /\ "longpoll" \in Rungs
      /\ "grpc" \notin {"health", "temporal", "namespace", "longpoll"}
      /\ "auth" \notin Mine /\ "namespace" \notin {"grpc"} /\ "longpoll" \notin {"grpc"}
      /\ "namespace" \notin {"health"} /\ "longpoll" \notin {"health"}
      /\ NS \subseteq Mine /\ {"health"} \subseteq Mine /\ {"grpc"} \subseteq Mine
  BY DEF Rungs
<1>1. \A ok \in BOOLEAN : /\ Line("grpc", ok) \in ALine /\ Line("grpc", ok).stage = "grpc"
                          /\ Line("grpc", ok).ok = ok
                          /\ Line("health", ok) \in ALine /\ Line("health", ok).stage = "health"
                          /\ Line("health", ok).ok = ok
  BY <1>0, LineIs, Zenon
<1>2. /\ Either("health") \subseteq Seq(ALine) /\ TemporalRuns(o) \subseteq Seq(ALine)
      /\ Upper \subseteq Seq(ALine)
  BY <1>0, EitherRuns, TemporalIs, BesideRuns, Zenon
<1>3. r \in Consumes(Either("grpc"), Upper)
  BY Zenon DEF GrpcRuns
<1>4. /\ r \in Seq(ALine)
      /\ Alone(r, Line("grpc", FALSE)) \/ \E u \in Upper : Then(r, Line("grpc", TRUE), u)
  BY <1>0, <1>2, <1>3, ConsumesIs, Zenon
<1> DEFINE P == Printed(r)
<1>5. CASE Alone(r, Line("grpc", FALSE))
  <2>1. P = {Line("grpc", FALSE)}
    BY <1>5, Zenon DEF Alone
  <2>2. Of(P, {"grpc"}) /\ ~ AllFine(P)
    BY <1>1, <2>1, Zenon DEF Of, AllFine
  <2>3. \A s : s \notin {"grpc"} => ~ Says(P, s)
    BY <2>2, SaysNot, Zenon
  <2>4. /\ ~ Says(P, "health") /\ ~ Says(P, "temporal") /\ ~ Says(P, "namespace")
        /\ ~ Says(P, "longpoll") /\ ~ Says(P, "auth")
    BY <2>3
  <2>5. Founded(P)
    BY <2>4 DEF Founded
  <2>6. Of(P, Mine)
    <3> HIDE DEF P, Mine
    <3>1. QED
      BY <1>0, <2>2, OfMore, Zenon
  <2>7. QED
    BY <1>4, <2>2, <2>5, <2>6, Zenon
<1>6. ASSUME NEW u \in Upper, Then(r, Line("grpc", TRUE), u)
      PROVE  Of(P, Mine) /\ Founded(P) /\ (AllFine(P) => AllTheWay(r, "grpc", o))
  <2>1. PICK h \in Either("health"), t \in TemporalRuns(o) : Joined(u, h, t)
    BY <1>2, <1>6, BesideIs, Zenon
  <2>2. PICK ok \in BOOLEAN : Alone(h, Line("health", ok))
    BY <1>0, EitherIs, Zenon
  <2>3. /\ Of(Printed(t), NS) /\ (Says(Printed(t), "namespace") <=> Says(Printed(t), "longpoll"))
        /\ AllFine(Printed(t)) /\ o.apiKey =>
             Line("namespace", TRUE) \in Printed(t) /\ Line("longpoll", TRUE) \in Printed(t)
    BY TemporalIs, Zenon
  <2> DEFINE one == {Line("grpc", TRUE)}
             two == {Line("health", ok)}
             T == Printed(t)
  <2>4. P = one \cup (two \cup T)
    BY <1>6, <2>1, <2>2, Zenon DEF Then, Joined, Alone
  <2>5. Line("grpc", TRUE) \in P /\ Line("health", ok) \in P /\ T \subseteq P
    BY <2>4, Zenon
  <2>6. Of(one, {"grpc"}) /\ Of(two, {"health"})
    BY <1>1, Zenon DEF Of
  <2>7. Of(one, Mine) /\ Of(two, Mine) /\ Of(T, Mine)
    <3> HIDE DEF one, two, Mine, NS
    <3>1. QED
      BY <1>0, <2>3, <2>6, OfMore, Zenon
  <2> HIDE DEF one, two, T, P, Mine, NS
  <2>8. Of(P, Mine)
    BY <2>4, <2>7, OfUnion, Zenon
  <2>9. /\ Says(P, "namespace") <=> Says(T, "namespace")
        /\ Says(P, "longpoll") <=> Says(T, "longpoll")
    BY <1>0, <2>4, <2>6, SaysNot, SaysUnion, Zenon
  <2>10. ~ Says(P, "auth")
    BY <1>0, <2>8, SaysNot, Zenon
  <2>11. Founded(P)
    BY <2>3, <2>5, <2>9, <2>10, Zenon DEF Founded, T
  <2>12. ASSUME AllFine(P) PROVE AllTheWay(r, "grpc", o)
    <3>1. AllFine(T) /\ ok = TRUE
      BY <1>1, <2>5, <2>12, Zenon DEF AllFine
    <3>2. Line("health", TRUE) \in Printed(r)
      BY <2>5, <3>1, Zenon DEF P
    <3>3. o.apiKey => Line("namespace", TRUE) \in Printed(r) /\ Line("longpoll", TRUE) \in Printed(r)
      BY <2>3, <2>5, <3>1, Zenon DEF P, T
    <3>4. "grpc" # "https"
      OBVIOUS
    <3>5. QED
      BY <3>2, <3>3, <3>4, Zenon DEF AllTheWay
  <2>13. QED
    BY <2>8, <2>11, <2>12, Zenon
<1>7. QED
  BY <1>4, <1>5, <1>6, Zenon

(* The stages of the app domain do not wait for each other.                  *)
Https == {"http2", "redirect"}
LEMMA HttpsIs ==
    ASSUME NEW o \in Credentials, NEW r,
           r \in Beside(Either("http2"), Beside(Either("redirect"), PyckRuns(o)))
    PROVE  /\ r \in Seq(ALine)
           /\ Of(Printed(r), {"http2", "redirect", "auth", "tenant"})
           /\ Founded(Printed(r))
           /\ AllFine(Printed(r)) => AllTheWay(r, "https", o)
<1> DEFINE Mine == {"http2", "redirect", "auth", "tenant"}
           Id == {"auth", "tenant"}
           P == Printed(r)
<1>0. /\ "http2" \in Rungs /\ "redirect" \in Rungs
      /\ "auth" \notin Https /\ "tenant" \notin Https
      /\ Https \subseteq Mine /\ Id \subseteq Mine
      /\ {"http2"} \subseteq Https /\ {"redirect"} \subseteq Https
      /\ "tenant" \notin {"http2"} /\ "tenant" \notin {"redirect"}
      /\ "health" \notin Mine /\ "temporal" \notin Mine /\ "namespace" \notin Mine
      /\ "longpoll" \notin Mine
  BY DEF Rungs, Https
<1>1. \A ok \in BOOLEAN : /\ Line("http2", ok) \in ALine /\ Line("http2", ok).stage = "http2"
                          /\ Line("redirect", ok) \in ALine /\ Line("redirect", ok).stage = "redirect"
                          /\ Line("redirect", ok).ok = ok
  BY <1>0, LineIs, Zenon
<1>2. /\ Either("http2") \subseteq Seq(ALine) /\ Either("redirect") \subseteq Seq(ALine)
      /\ PyckRuns(o) \subseteq Seq(ALine)
      /\ Beside(Either("redirect"), PyckRuns(o)) \subseteq Seq(ALine)
  BY <1>0, EitherRuns, PyckIs, BesideRuns, Zenon
<1>3. PICK h \in Either("http2"), u \in Beside(Either("redirect"), PyckRuns(o)) :
        r \in Seq(ALine) /\ Joined(r, h, u)
  BY <1>2, BesideIs, Zenon
<1>4. PICK d \in Either("redirect"), y \in PyckRuns(o) : Joined(u, d, y)
  BY <1>2, BesideIs, Zenon
<1>5. PICK ok1 \in BOOLEAN, ok2 \in BOOLEAN :
        /\ Alone(h, Line("http2", ok1)) /\ Alone(d, Line("redirect", ok2))
        /\ h \in Seq(ALine) /\ d \in Seq(ALine)
  BY <1>0, EitherIs, Zenon
<1>6. /\ y \in Seq(ALine) /\ Of(Printed(y), Id)
      /\ Says(Printed(y), "auth") /\ Says(Printed(y), "tenant") => Line("auth", TRUE) \in Printed(y)
      /\ AllFine(Printed(y)) /\ o.token # "none" => EndsWithTenants(y, o)
  BY PyckIs, Zenon
<1> DEFINE one == Printed(h)
           two == Printed(d)
           Y == Printed(y)
<1>7. /\ P = one \cup (two \cup Y)
      /\ one = {Line("http2", ok1)} /\ two = {Line("redirect", ok2)}
  BY <1>3, <1>4, <1>5, Zenon DEF Joined, Alone
<1>8. Of(one, {"http2"}) /\ Of(two, {"redirect"})
  BY <1>1, <1>7, Zenon DEF Of
<1>9. Line("redirect", ok2) \in P /\ Y \subseteq P
  BY <1>7, Zenon
<1> HIDE DEF one, two, Y, P, Mine, Id
<1>10. Of(one, Https) /\ Of(two, Https)
  BY <1>0, <1>8, OfMore, Zenon
<1>11. Of(one, Mine) /\ Of(two, Mine) /\ Of(Y, Mine)
  BY <1>0, <1>6, <1>10, OfMore, Zenon DEF Y
<1>12. Of(P, Mine)
  BY <1>7, <1>11, OfUnion, Zenon
<1>13. /\ Says(P, "auth") <=> Says(Y, "auth")
       /\ Says(P, "tenant") <=> Says(Y, "tenant")
  BY <1>0, <1>7, <1>10, SaysNot, SaysUnion, Zenon
<1>14. /\ ~ Says(P, "health") /\ ~ Says(P, "temporal") /\ ~ Says(P, "namespace")
       /\ ~ Says(P, "longpoll")
  BY <1>0, <1>12, SaysNot, Zenon
<1>15. Says(P, "auth") /\ Says(P, "tenant") => Line("auth", TRUE) \in P
  BY <1>6, <1>9, <1>13, Zenon DEF Y
<1>16. Founded(P)
  BY <1>14, <1>15, Zenon DEF Founded
<1>17. ASSUME AllFine(P) PROVE AllTheWay(r, "https", o)
  <2>1. AllFine(Y) /\ ok2 = TRUE
    BY <1>1, <1>9, <1>17, Zenon DEF AllFine
  <2>2. Line("redirect", TRUE) \in Printed(r)
    BY <1>9, <2>1, Zenon DEF P
  <2>3. ASSUME o.token # "none" PROVE EndsWithTenants(r, o)
    <3>1. EndsWithTenants(y, o)
      BY <1>6, <2>1, <2>3, Zenon DEF Y
    <3>2. ~ Says(one, "tenant") /\ ~ Says(two, "tenant")
      BY <1>0, <1>8, SaysNot, Zenon
    <3>3. EndsWithTenants(d \o y, o)
      BY <1>5, <1>6, <3>1, <3>2, TenantsAfter, Zenon DEF two
    <3>4. d \o y \in Seq(ALine)
      BY <1>5, <1>6, PrintedAfter, Zenon
    <3>5. EndsWithTenants(h \o (d \o y), o)
      BY <1>5, <3>2, <3>3, <3>4, TenantsAfter, Zenon DEF one
    <3>6. r = h \o (d \o y)
      BY <1>3, <1>4, Zenon DEF Joined
    <3>7. QED
      BY <3>5, <3>6, Zenon
  <2>4. "grpc" # "https"
    OBVIOUS
  <2>5. QED
    BY <2>2, <2>3, <2>4, Zenon DEF AllTheWay
<1>18. QED
  BY <1>3, <1>12, <1>16, <1>17, Zenon DEF P, Mine

(* What is presented in the handshake: two lines, the chain's the stricter.  *)
LEMMA CertChainIs ==
    ASSUME NEW r \in CertChainRuns
    PROVE  /\ r \in Seq(ALine) /\ Of(Printed(r), {"cert", "chain"})
           /\ Line("chain", TRUE) \in Printed(r) => Line("cert", TRUE) \in Printed(r)
           /\ AllFine(Printed(r)) => Line("chain", TRUE) \in Printed(r)
<1>1. PICK dates \in BOOLEAN, name \in BOOLEAN, path \in BOOLEAN :
        r = <<Line("cert", dates /\ name), Line("chain", dates /\ path /\ name)>>
  BY DEF CertChainRuns
<1> DEFINE c == Line("cert", dates /\ name)
           h == Line("chain", dates /\ path /\ name)
<1>2. "cert" \in Rungs /\ "chain" \in Rungs /\ "cert" # "chain"
  BY DEF Rungs
<1>3. /\ c \in ALine /\ c.stage = "cert" /\ c.ok = (dates /\ name)
      /\ h \in ALine /\ h.stage = "chain" /\ h.ok = (dates /\ path /\ name)
      /\ Line("chain", TRUE).stage = "chain" /\ Line("chain", TRUE).ok = TRUE
  BY <1>2, LineIs, Zenon
<1>4. r \in Seq(ALine) /\ Printed(r) = {c, h}
  <2>1. r = <<c, h>>
    BY <1>1, Zenon
  <2> HIDE DEF c, h
  <2>2. r \in Seq(ALine) /\ DOMAIN r = {1, 2} /\ r[1] = c /\ r[2] = h
    BY <1>3, <2>1
  <2>3. QED
    BY <2>2, Zenon DEF Printed
<1>5. Of(Printed(r), {"cert", "chain"})
  BY <1>3, <1>4, Zenon DEF Of
<1>6. ASSUME Line("chain", TRUE) \in Printed(r) PROVE Line("cert", TRUE) \in Printed(r)
  <2>1. Line("chain", TRUE) # c
    BY <1>2, <1>3
  <2>2. Line("chain", TRUE) = h
    BY <1>4, <1>6, <2>1, Zenon
  <2>3. (dates /\ path /\ name) = TRUE
    BY <1>3, <2>2, Zenon
  <2>4. (dates /\ name) = TRUE
    BY <2>3
  <2>5. QED
    BY <1>4, <2>4, Zenon
<1>7. ASSUME AllFine(Printed(r)) PROVE Line("chain", TRUE) \in Printed(r)
  <2>1. (dates /\ path /\ name) = TRUE
    BY <1>3, <1>4, <1>7, Zenon DEF AllFine
  <2>2. QED
    BY <1>4, <2>1, Zenon
<1>8. QED
  BY <1>4, <1>5, <1>6, <1>7, Zenon

(* The stages on a connection: all that follow tls rest on its handshake.    *)
Above == {"cert", "chain", "http2", "redirect", "auth", "tenant",
          "grpc", "health", "temporal", "namespace", "longpoll"}
Connected(k, o) == Consumes(Either("tls"), Beside(CertChainRuns, ProtocolRuns(k, o)))

LEMMA ProtocolIs ==
    ASSUME NEW k \in {"https", "grpc"}, NEW o \in Credentials, NEW r \in ProtocolRuns(k, o)
    PROVE  /\ r \in Seq(ALine)
           /\ Of(Printed(r), Above \ {"cert", "chain"})
           /\ Founded(Printed(r))
           /\ AllFine(Printed(r)) => AllTheWay(r, k, o)
<1> DEFINE Mine == Above \ {"cert", "chain"}
<1>1. /\ {"http2", "redirect", "auth", "tenant"} \subseteq Mine
      /\ {"grpc", "health", "temporal", "namespace", "longpoll"} \subseteq Mine
  BY DEF Above
<1> HIDE DEF Mine
<1>2. CASE k = "https"
  <2>1. r \in Beside(Either("http2"), Beside(Either("redirect"), PyckRuns(o)))
    BY <1>2 DEF ProtocolRuns
  <2>2. /\ r \in Seq(ALine)
        /\ Of(Printed(r), {"http2", "redirect", "auth", "tenant"})
        /\ Founded(Printed(r))
        /\ AllFine(Printed(r)) => AllTheWay(r, "https", o)
    BY <2>1, HttpsIs, Zenon
  <2>3. Of(Printed(r), Mine)
    BY <1>1, <2>2, OfMore, Zenon
  <2>4. QED
    BY <1>2, <2>2, <2>3, Zenon DEF Mine
<1>3. CASE k = "grpc"
  <2>1. r \in GrpcRuns(o)
    BY <1>3 DEF ProtocolRuns
  <2>2. /\ r \in Seq(ALine)
        /\ Of(Printed(r), {"grpc", "health", "temporal", "namespace", "longpoll"})
        /\ Founded(Printed(r))
        /\ AllFine(Printed(r)) => AllTheWay(r, "grpc", o)
    BY <2>1, GrpcIs, Zenon
  <2>3. Of(Printed(r), Mine)
    BY <1>1, <2>2, OfMore, Zenon
  <2>4. QED
    BY <1>3, <2>2, <2>3, Zenon DEF Mine
<1>4. QED
  BY <1>2, <1>3, Zenon

(* Lines of other stages below do not change what a line rests on, nor that  *)
(* the run went all the way.                                                 *)
LEMMA FoundedAfter ==
    ASSUME NEW low, NEW set, Of(low, {"dns", "tcp", "tls", "cert", "chain"}), Founded(set)
    PROVE  Founded(low \cup set)
<1> DEFINE Low == {"dns", "tcp", "tls", "cert", "chain"}
<1>1. /\ \A s \in {"health", "temporal", "namespace", "longpoll"} : s \notin Low
      /\ "namespace" \notin Low /\ "longpoll" \notin Low /\ "auth" \notin Low /\ "tenant" \notin Low
  OBVIOUS
<1> HIDE DEF Low
<1>2. Of(low, Low)
  BY Zenon DEF Low
<1>3. ASSUME NEW s, s \notin Low PROVE Says(low \cup set, s) <=> Says(set, s)
  BY <1>2, <1>3, SaysNot, SaysUnion, Zenon
<1>4. \A l \in set : l \in low \cup set
  BY Zenon
<1>5. /\ \A s \in {"health", "temporal", "namespace", "longpoll"} :
           Says(low \cup set, s) <=> Says(set, s)
      /\ Says(low \cup set, "namespace") <=> Says(set, "namespace")
      /\ Says(low \cup set, "longpoll") <=> Says(set, "longpoll")
      /\ Says(low \cup set, "auth") <=> Says(set, "auth")
      /\ Says(low \cup set, "tenant") <=> Says(set, "tenant")
  BY <1>1, <1>3, Zenon
<1> DEFINE all == low \cup set
<1> HIDE DEF all
<1>6. Founded(all)
  BY <1>4, <1>5, Zenon DEF Founded, all
<1>7. QED
  BY <1>6, Zenon DEF all

LEMMA AllTheWayAfter ==
    ASSUME NEW p \in Seq(ALine), NEW r \in Seq(ALine), NEW k, NEW o,
           Of(Printed(p), {"dns", "tcp", "tls", "cert", "chain"}), AllTheWay(r, k, o)
    PROVE  AllTheWay(p \o r, k, o)
<1>1. Printed(p \o r) = Printed(p) \cup Printed(r)
  BY PrintedAfter, Zenon
<1>2. \A l \in Printed(r) : l \in Printed(p \o r)
  BY <1>1, Zenon
<1>3. ~ Says(Printed(p), "tenant")
  <2>1. "tenant" \notin {"dns", "tcp", "tls", "cert", "chain"}
    OBVIOUS
  <2>2. QED
    BY <2>1, SaysNot, Zenon
<1>4. QED
  BY <1>2, <1>3, TenantsAfter, Zenon DEF AllTheWay

LEMMA ConnectedIs ==
    ASSUME NEW k \in {"https", "grpc"}, NEW o \in Credentials, NEW r \in Connected(k, o)
    PROVE  /\ r \in Seq(ALine)
           /\ Of(Printed(r), Above \cup {"tls"})
           /\ \A s \in Above : Says(Printed(r), s) => Line("tls", TRUE) \in Printed(r)
           /\ Line("chain", TRUE) \in Printed(r) => Line("cert", TRUE) \in Printed(r)
           /\ Founded(Printed(r))
           /\ AllFine(Printed(r)) => Line("chain", TRUE) \in Printed(r) /\ AllTheWay(r, k, o)
<1> DEFINE All == Above \cup {"tls"}
           Low == {"dns", "tcp", "tls", "cert", "chain"}
           P == Printed(r)
           Up == Beside(CertChainRuns, ProtocolRuns(k, o))
<1>0. /\ "tls" \in Rungs /\ "chain" \in Rungs /\ "cert" \in Rungs
      /\ \A s \in Above : s \notin {"tls"}
      /\ {"tls"} \subseteq All /\ {"cert", "chain"} \subseteq All
      /\ Above \ {"cert", "chain"} \subseteq All
      /\ {"tls"} \subseteq Low /\ {"cert", "chain"} \subseteq Low
      /\ "chain" \notin Above \ {"cert", "chain"} /\ "cert" \notin Above \ {"cert", "chain"}
      /\ "chain" \notin {"tls"} /\ "cert" \notin {"tls"}
  BY DEF Above, Rungs
<1>1. \A ok \in BOOLEAN : /\ Line("tls", ok) \in ALine /\ Line("tls", ok).stage = "tls"
                          /\ Line("tls", ok).ok = ok
  BY <1>0, LineIs, Zenon
<1>2. CertChainRuns \subseteq Seq(ALine) /\ ProtocolRuns(k, o) \subseteq Seq(ALine)
      /\ Up \subseteq Seq(ALine)
  BY CertChainIs, ProtocolIs, BesideRuns, Zenon
<1>3. /\ r \in Seq(ALine)
      /\ Alone(r, Line("tls", FALSE)) \/ \E u \in Up : Then(r, Line("tls", TRUE), u)
  BY <1>0, <1>2, ConsumesIs, Zenon DEF Connected
<1>4. ASSUME NEW s \in {"chain", "cert"} PROVE Line(s, TRUE).stage = s
  BY <1>0, <1>4, LineIs, Zenon
<1> HIDE DEF All, Low, P, Up
<1>5. CASE Alone(r, Line("tls", FALSE))
  <2>1. P = {Line("tls", FALSE)}
    BY <1>5, Zenon DEF Alone, P
  <2>2. Of(P, {"tls"}) /\ ~ AllFine(P)
    BY <1>1, <2>1, Zenon DEF Of, AllFine
  <2>3. Of(P, All) /\ Of(P, Low)
    BY <1>0, <2>2, OfMore, Zenon
  <2>4. \A s \in Above : ~ Says(P, s)
    BY <1>0, <2>2, SaysNot, Zenon
  <2>5. Line("chain", TRUE) \notin P
    BY <1>0, <1>4, <2>2, SaysNot, Zenon DEF Says
  <2>6. Founded(P)
    <3>1. Founded({})
      BY Zenon DEF Founded, Says
    <3>2. Founded(P \cup {})
      BY <2>3, <3>1, FoundedAfter, Zenon DEF Low
    <3>3. P \cup {} = P
      BY Zenon
    <3>4. QED
      BY <3>2, <3>3, Zenon
  <2>7. QED
    BY <1>3, <2>2, <2>3, <2>4, <2>5, <2>6, Zenon DEF P, All
<1>6. ASSUME NEW u \in Up, Then(r, Line("tls", TRUE), u)
      PROVE  /\ Of(P, All) /\ Line("tls", TRUE) \in P
             /\ Line("chain", TRUE) \in P => Line("cert", TRUE) \in P
             /\ Founded(P)
             /\ AllFine(P) => Line("chain", TRUE) \in P /\ AllTheWay(r, k, o)
  <2>1. PICK c \in CertChainRuns, q \in ProtocolRuns(k, o) : Joined(u, c, q)
    BY <1>2, BesideIs, Zenon DEF Up
  <2> DEFINE one == {Line("tls", TRUE)}
             C == Printed(c)
             Q == Printed(q)
             t == <<Line("tls", TRUE)>>
  <2>2. P = one \cup (C \cup Q) /\ r = t \o (c \o q)
    BY <1>6, <2>1, Zenon DEF Then, Joined, P
  <2>3. /\ c \in Seq(ALine) /\ Of(C, {"cert", "chain"})
        /\ Line("chain", TRUE) \in C => Line("cert", TRUE) \in C
        /\ AllFine(C) => Line("chain", TRUE) \in C
    BY CertChainIs, Zenon
  <2>4. /\ q \in Seq(ALine) /\ Of(Q, Above \ {"cert", "chain"}) /\ Founded(Q)
        /\ AllFine(Q) => AllTheWay(q, k, o)
    BY ProtocolIs, Zenon
  <2>5. Of(one, {"tls"}) /\ t \in Seq(ALine) /\ Printed(t) = one
    BY <1>1, PrintedOne, Zenon DEF Of
  <2>6. Line("tls", TRUE) \in P /\ C \subseteq P /\ Q \subseteq P
    BY <2>2, Zenon
  <2> HIDE DEF one, C, Q, t
  <2>7. Of(one, All) /\ Of(C, All) /\ Of(Q, All) /\ Of(one, Low) /\ Of(C, Low)
    BY <1>0, <2>3, <2>4, <2>5, OfMore, Zenon
  <2>8. Of(P, All)
    BY <2>2, <2>7, OfUnion, Zenon
  <2>9. ASSUME Line("chain", TRUE) \in P PROVE Line("cert", TRUE) \in P
    <3>1. Line("chain", TRUE) \notin Q /\ Line("chain", TRUE) \notin one
      BY <1>0, <1>4, <2>4, <2>5, Zenon DEF Of
    <3>2. QED
      BY <2>2, <2>3, <2>9, <3>1, Zenon
  <2>10. Founded(P)
    <3>1. Founded(C \cup Q)
      BY <2>4, <2>7, FoundedAfter, Zenon DEF Low
    <3>2. QED
      BY <2>2, <2>7, <3>1, FoundedAfter, Zenon DEF Low
  <2>11. ASSUME AllFine(P) PROVE Line("chain", TRUE) \in P /\ AllTheWay(r, k, o)
    <3>1. AllFine(C) /\ AllFine(Q)
      BY <2>6, <2>11, Zenon DEF AllFine
    <3>2. AllTheWay(c \o q, k, o)
      BY <2>3, <2>4, <2>7, <3>1, AllTheWayAfter, Zenon DEF Low, C
    <3>3. c \o q \in Seq(ALine)
      BY <2>3, <2>4, PrintedAfter, Zenon
    <3>4. AllTheWay(t \o (c \o q), k, o)
      BY <2>5, <2>7, <3>2, <3>3, AllTheWayAfter, Zenon DEF Low
    <3>5. QED
      BY <2>2, <2>3, <2>6, <3>1, <3>4, Zenon
  <2>12. QED
    BY <2>6, <2>8, <2>9, <2>10, <2>11, Zenon
<1>7. QED
  BY <1>3, <1>5, <1>6, Zenon DEF P, All

(* The lookups: a line per family, and all are OK only if some resolved.     *)
LEMMA DnsIs ==
    ASSUME NEW lookup \in Lookups
    PROVE  LET D == DnsLines(lookup)
           IN  /\ D \in Seq(ALine) /\ Of(Printed(D), {"dns"})
               /\ \A i \in Resolved(lookup) : FamilyLine("dns", i, TRUE) \in Printed(D)
               /\ Resolved(lookup) = {} /\ D # <<>> => ~ AllFine(Printed(D))
<1> DEFINE D == DnsLines(lookup)
           Fams == DOMAIN Families
           ok(i) == Resolves(lookup, i)
<1>1. Fams = 1 .. Len(Families) /\ Len(Families) \in Nat
  BY FamiliesAssumption
<1>2. \A i \in Fams : i \in Nat
  BY <1>1
<1>3. "dns" \in Rungs
  BY DEF Rungs
<1>4. ASSUME NEW i \in Fams
      PROVE  /\ D[i] = FamilyLine("dns", i, ok(i)) /\ D[i] \in ALine
             /\ D[i].stage = "dns" /\ D[i].ok = ok(i)
  <2>1. D[i] = FamilyLine("dns", i, ok(i))
    <3>1. D[i] = DnsLine(lookup, i)
      BY Zenon DEF DnsLines
    <3> HIDE DEF D
    <3>2. QED
      BY <3>1 DEF DnsLine
  <2>2. ok(i) \in BOOLEAN
    BY DEF Resolves
  <2> HIDE DEF ok, D
  <2>3. QED
    BY <1>2, <1>3, <2>1, <2>2, FamilyLineIs
<1>5. DOMAIN D = Fams
  BY Zenon DEF DnsLines
<1>6. D = [i \in 1 .. Len(Families) |-> D[i]]
  BY <1>1, Zenon DEF DnsLines
<1> HIDE DEF D
<1>7. D \in Seq(ALine)
  BY <1>1, <1>4, <1>6
<1>8. Of(Printed(D), {"dns"})
  BY <1>4, <1>5, Zenon DEF Of, Printed
<1>9. ASSUME NEW i \in Resolved(lookup) PROVE FamilyLine("dns", i, TRUE) \in Printed(D)
  <2>1. i \in Fams /\ lookup[i] = "found"
    BY Zenon DEF Resolved
  <2>2. ok(i) = TRUE
    BY <2>1 DEF Resolves
  <2>3. D[i] = FamilyLine("dns", i, TRUE)
    <3> HIDE DEF ok
    <3>1. QED
      BY <1>4, <2>1, <2>2, Zenon
  <2>4. QED
    BY <1>5, <2>1, <2>3, Zenon DEF Printed
<1>10. ASSUME Resolved(lookup) = {}, D # <<>> PROVE ~ AllFine(Printed(D))
  <2>1. Fams # {}
    <3>1. Len(D) # 0 /\ DOMAIN D = 1 .. Len(D) /\ Len(D) \in Nat
      BY <1>7, <1>10
    <3>2. 1 \in DOMAIN D
      BY <3>1
    <3>3. QED
      BY <1>5, <3>2, Zenon
  <2>2. PICK i \in Fams : TRUE
    BY <2>1, Zenon
  <2>3. ~ (lookup[i] = "found")
    BY <1>10, <2>2, Zenon DEF Resolved
  <2>4. ok(i) = FALSE
    BY <1>10, <2>3, Zenon DEF Resolves
  <2>5. ~ D[i].ok
    <3> HIDE DEF ok
    <3>1. QED
      BY <1>4, <2>4, Zenon
  <2>6. D[i] \in Printed(D)
    BY <1>5, Zenon DEF Printed
  <2>7. QED
    BY <2>5, <2>6, Zenon DEF AllFine
<1>11. QED
  BY <1>7, <1>8, <1>9, <1>10, Zenon DEF D

(* The dials: of families that resolved, and of each of them.                *)
LEMMA DialsAre ==
    ASSUME NEW lookup \in Lookups, NEW dials \in TcpRuns(lookup)
    PROVE  /\ dials \in Seq(ALine) /\ Of(Printed(dials), {"tcp"})
           /\ \A l \in Printed(dials) : l.family \in Resolved(lookup)
           /\ Resolved(lookup) # {} => Printed(dials) # {}
           /\ Kept(dials) => \E l \in Printed(dials) : l.stage = "tcp" /\ l.ok
           /\ ~ Kept(dials) /\ Printed(dials) # {} => ~ AllFine(Printed(dials))
<1>1. Len(Families) \in Nat /\ DOMAIN Families = 1 .. Len(Families) /\ Addresses \in Nat
  BY FamiliesAssumption, AddressesAssumption
<1>2. "tcp" \in Rungs
  BY DEF Rungs
<1>3. ASSUME NEW l \in Dialled(lookup)
      PROVE  l \in ALine /\ l.stage = "tcp" /\ l.family \in Resolved(lookup)
  <2>1. PICK i \in Resolved(lookup), ok \in BOOLEAN : l = FamilyLine("tcp", i, ok)
    BY DEF Dialled
  <2>2. i \in DOMAIN Families
    BY Zenon DEF Resolved
  <2>3. i \in Nat
    BY <1>1, <2>2
  <2>4. QED
    BY <1>2, <2>1, <2>3, FamilyLineIs, Zenon
<1>4. PICK n \in 0 .. (Len(Families) * Addresses) : dials \in [1 .. n -> Dialled(lookup)]
  BY Zenon DEF TcpRuns
<1>5. \A i \in Resolved(lookup) : Cardinality(FamilyDials(dials, i)) \in 1 .. Addresses
  BY Zenon DEF TcpRuns
<1>6. n \in Nat
  <2>1. Len(Families) * Addresses \in Nat
    BY <1>1
  <2> DEFINE max == Len(Families) * Addresses
  <2> HIDE DEF max
  <2>2. max \in Nat /\ n \in 0 .. max
    BY <1>4, <2>1 DEF max
  <2>3. QED
    BY <2>2
<1>7. dials \in Seq(ALine)
  <2>1. dials \in [1 .. n -> ALine]
    BY <1>3, <1>4, Zenon
  <2>2. QED
    BY <1>6, <2>1
<1>8. \A l \in Printed(dials) : l \in Dialled(lookup)
  BY <1>4, Zenon DEF Printed
<1>9. ASSUME Resolved(lookup) # {} PROVE Printed(dials) # {}
  <2>1. PICK i \in Resolved(lookup) : TRUE
    BY <1>9, Zenon
  <2>2. FamilyDials(dials, i) # {}
    <3>1. Cardinality(FamilyDials(dials, i)) # 0
      BY <1>1, <1>5
    <3>2. QED
      BY <3>1, FS_EmptySet, Zenon
  <2>3. PICK d \in DOMAIN dials : TRUE
    BY <2>2, Zenon DEF FamilyDials
  <2>4. QED
    BY <2>3, Zenon DEF Printed
<1>10. Kept(dials) => \E l \in Printed(dials) : l.ok
  BY Zenon DEF Kept, Printed
<1>11. ASSUME ~ Kept(dials), NEW l \in Printed(dials) PROVE ~ l.ok
  BY <1>11, Zenon DEF Kept, Printed
<1>12. Of(Printed(dials), {"tcp"})
  BY <1>3, <1>8, Zenon DEF Of
<1>13. QED
  BY <1>3, <1>7, <1>8, <1>9, <1>10, <1>11, <1>12, Zenon DEF AllFine

(* The ladder as a whole.                                                    *)
Layered(set) ==
    /\ \A l \in set : l.stage = "tcp" => FamilyLine("dns", l.family, TRUE) \in set
    /\ Says(set, "tls") => \E l \in set : l.stage = "tcp" /\ l.ok
    /\ \A s \in Above : Says(set, s) => Line("tls", TRUE) \in set
    /\ Line("chain", TRUE) \in set => Line("cert", TRUE) \in set
    /\ Founded(set)

LEMMA LadderIs ==
    ASSUME NEW k \in {"https", "grpc"}, NEW o \in Credentials, NEW r \in ProbeRuns(k, o)
    PROVE  /\ r \in Seq(ALine) /\ Layered(Printed(r))
           /\ r # <<>> /\ AllFine(Printed(r)) =>
                Line("chain", TRUE) \in Printed(r) /\ AllTheWay(r, k, o)
<1> DEFINE On(lookup) ==
             UNION {IF Kept(dials) THEN Beside({dials}, Connected(k, o)) ELSE {dials} :
                      dials \in TcpRuns(lookup)}
           P == Printed(r)
           Low == {"dns", "tcp", "tls", "cert", "chain"}
<1>0. /\ "dns" # "tcp" /\ {"dns"} \subseteq Low /\ {"tcp"} \subseteq Low
      /\ "tcp" \notin Above \cup {"tls"} /\ "tls" \notin {"dns"} /\ "tls" \notin {"tcp"}
      /\ \A s \in Above : s \notin {"dns"} /\ s \notin {"tcp"}
      /\ "chain" \in Rungs
      /\ "chain" \notin {"dns"} /\ "chain" \notin {"tcp"}
  BY DEF Above, Rungs
<1>1. PICK lookup \in Lookups : r \in Beside({DnsLines(lookup)}, On(lookup))
  BY DEF ProbeRuns, Connected
<1>2. PICK u \in On(lookup) : r = DnsLines(lookup) \o u
  BY <1>1 DEF Beside
<1>3. PICK dials \in TcpRuns(lookup) :
        u \in IF Kept(dials) THEN Beside({dials}, Connected(k, o)) ELSE {dials}
  BY <1>2
<1> DEFINE d == DnsLines(lookup)
           D == Printed(d)
           T == Printed(dials)
<1>4. /\ d \in Seq(ALine) /\ Of(D, {"dns"})
      /\ \A i \in Resolved(lookup) : FamilyLine("dns", i, TRUE) \in D
      /\ Resolved(lookup) = {} /\ d # <<>> => ~ AllFine(D)
  BY DnsIs
<1>5. /\ dials \in Seq(ALine) /\ Of(T, {"tcp"})
      /\ \A l \in T : l.family \in Resolved(lookup)
      /\ Resolved(lookup) # {} => T # {}
      /\ Kept(dials) => \E l \in T : l.stage = "tcp" /\ l.ok
      /\ ~ Kept(dials) /\ T # {} => ~ AllFine(T)
  BY DialsAre, Zenon
<1>6. Line("chain", TRUE).stage = "chain"
  BY <1>0, LineIs, Zenon
<1> HIDE DEF On, P, Low, D, T, d
<1>7. Of(D, Low) /\ Of(T, Low)
  <2>1. {"dns"} \subseteq Low /\ {"tcp"} \subseteq Low
    BY DEF Low
  <2>2. Of(D, Low)
    BY <1>4, <2>1, OfMore, Zenon
  <2>3. Of(T, Low)
    BY <1>5, <2>1, OfMore, Zenon
  <2>4. QED
    BY <2>2, <2>3, Zenon
<1>8. CASE Kept(dials)
  <2>1. PICK c \in Connected(k, o) : u = dials \o c
    BY <1>3, <1>8 DEF Beside
  <2> DEFINE C == Printed(c)
  <2>2. /\ c \in Seq(ALine) /\ Of(C, Above \cup {"tls"})
        /\ \A s \in Above : Says(C, s) => Line("tls", TRUE) \in C
        /\ Line("chain", TRUE) \in C => Line("cert", TRUE) \in C
        /\ Founded(C)
        /\ AllFine(C) => Line("chain", TRUE) \in C /\ AllTheWay(c, k, o)
    BY ConnectedIs, Zenon
  <2> HIDE DEF C
  <2>3. u \in Seq(ALine) /\ Printed(u) = T \cup C
    BY <1>5, <2>1, <2>2, PrintedAfter, Zenon DEF T, C
  <2>4. r \in Seq(ALine) /\ P = D \cup (T \cup C)
    BY <1>2, <1>4, <2>3, PrintedAfter, Zenon DEF P, D, d
  <2>5. D \subseteq P /\ T \subseteq P /\ C \subseteq P
    BY <2>4, Zenon
  <2>6. Of(D, Low) /\ Of(T, Low)
    BY <1>7
  <2>7. ASSUME NEW l \in P, l.stage = "tcp" PROVE FamilyLine("dns", l.family, TRUE) \in P
    <3>1. l \notin D /\ l \notin C
      BY <1>0, <1>4, <2>2, <2>7, Zenon DEF Of
    <3>2. l \in T
      BY <2>4, <3>1, Zenon
    <3>3. QED
      BY <1>4, <1>5, <2>5, <3>2, Zenon
  <2>8. \E l \in P : l.stage = "tcp" /\ l.ok
    BY <1>5, <1>8, <2>5, Zenon
  <2>9. ASSUME NEW s \in Above, Says(P, s) PROVE Line("tls", TRUE) \in P
    <3>1. ~ Says(D, s) /\ ~ Says(T, s)
      BY <1>0, <1>4, <1>5, SaysNot, Zenon
    <3>2. Says(C, s)
      BY <2>4, <2>9, <3>1, SaysUnion, Zenon
    <3>3. QED
      BY <2>2, <2>5, <3>2, Zenon
  <2>10. ASSUME Line("chain", TRUE) \in P PROVE Line("cert", TRUE) \in P
    <3>1. Line("chain", TRUE) \notin D /\ Line("chain", TRUE) \notin T
      BY <1>0, <1>4, <1>5, <1>6, Zenon DEF Of
    <3>2. QED
      BY <2>2, <2>4, <2>5, <2>10, <3>1, Zenon
  <2>11. Founded(P)
    <3>1. Founded(T \cup C)
      BY <2>2, <2>6, FoundedAfter, Zenon DEF Low
    <3>2. QED
      BY <2>4, <2>6, <3>1, FoundedAfter, Zenon DEF Low
  <2>12. ASSUME AllFine(P) PROVE Line("chain", TRUE) \in P /\ AllTheWay(r, k, o)
    <3>1. AllFine(C)
      BY <2>5, <2>12, Zenon DEF AllFine
    <3>2. AllTheWay(u, k, o)
      BY <1>5, <2>1, <2>2, <2>6, <3>1, AllTheWayAfter, Zenon DEF Low, T
    <3>3. AllTheWay(d \o u, k, o)
      BY <1>4, <2>3, <2>6, <3>2, AllTheWayAfter, Zenon DEF Low, D
    <3>4. QED
      BY <1>2, <2>2, <2>5, <3>1, <3>3, Zenon DEF d
  <2>13. Layered(P)
    BY <2>7, <2>8, <2>9, <2>10, <2>11, Zenon DEF Layered
  <2>14. QED
    BY <2>4, <2>12, <2>13, Zenon DEF P
<1>9. CASE ~ Kept(dials)
  <2>1. u = dials
    BY <1>3, <1>9, Zenon
  <2>2. r \in Seq(ALine) /\ P = D \cup T
    BY <1>2, <1>4, <1>5, <2>1, PrintedAfter, Zenon DEF P, D, T, d
  <2>3. D \subseteq P /\ T \subseteq P
    BY <2>2, Zenon
  <2>4. ASSUME NEW l \in P, l.stage = "tcp" PROVE FamilyLine("dns", l.family, TRUE) \in P
    <3>1. l \notin D
      BY <1>0, <1>4, <2>4, Zenon DEF Of
    <3>2. QED
      BY <1>4, <1>5, <2>2, <2>3, <2>4, <3>1, Zenon
  <2>5. ASSUME NEW s, s \notin {"dns"}, s \notin {"tcp"} PROVE ~ Says(P, s)
    BY <1>4, <1>5, <2>2, <2>5, SaysNot, SaysUnion, Zenon
  <2>6. ~ Says(P, "tls") /\ (\A s \in Above : ~ Says(P, s)) /\ ~ Says(P, "chain")
    BY <1>0, <2>5, Zenon
  <2>7. Line("chain", TRUE) \notin P
    BY <1>6, <2>6, Zenon DEF Says
  <2>8. Founded(P)
    <3>1. /\ Of(D, Low) /\ Of(T, Low)
      BY <1>7
    <3>2. Founded({})
      BY Zenon DEF Founded, Says
    <3>3. Founded(P \cup {})
      BY <2>2, <3>1, <3>2, OfUnion, FoundedAfter, Zenon DEF Low
    <3>4. P \cup {} = P
      BY Zenon
    <3>5. QED
      BY <3>3, <3>4, Zenon
  <2>9. ASSUME r # <<>>, AllFine(P) PROVE FALSE
    <3>1. AllFine(D) /\ AllFine(T)
      BY <2>3, <2>9, Zenon DEF AllFine
    <3>2. T = {} /\ Resolved(lookup) = {}
      BY <1>5, <1>9, <3>1, Zenon
    <3>3. d = <<>>
      BY <1>4, <3>1, <3>2, Zenon
    <3>4. dials = <<>>
      <4>1. \A i \in DOMAIN dials : FALSE
        BY <3>2, Zenon DEF T, Printed
      <4>2. DOMAIN dials = 1 .. Len(dials) /\ Len(dials) \in Nat
        BY <1>5
      <4>3. Len(dials) = 0
        <5>1. 1 \notin 1 .. Len(dials)
          BY <4>1, <4>2, Zenon
        <5>2. QED
          BY <4>2, <5>1
      <4>4. QED
        BY <1>5, <4>3
    <3>5. QED
      BY <1>2, <2>1, <2>9, <3>3, <3>4 DEF d
  <2>10. Layered(P)
    BY <2>4, <2>6, <2>7, <2>8, Zenon DEF Layered
  <2>11. QED
    BY <2>2, <2>9, <2>10, Zenon DEF P
<1>10. QED
  BY <1>8, <1>9, Zenon

LadderInv == kind \in {"https", "grpc"} /\ opts \in Credentials /\ lines \in ProbeRuns(kind, opts)

LEMMA LadderKept == LadderSpec => []LadderInv
<1>1. LadderInit => LadderInv
  BY Zenon DEF LadderInit, LadderInv
<1>2. LadderInv /\ [UNCHANGED ladderVars]_ladderVars => LadderInv'
  BY Zenon DEF LadderInv, ladderVars
<1>3. QED
  BY <1>1, <1>2, PTL DEF LadderSpec

(* The properties, in the words of their module.                             *)
LEMMA InTheLines ==
    /\ \A stages : Has(stages) <=> \E s \in stages : Says(Printed(lines), s)
    /\ \A s : Has({s}) <=> Says(Printed(lines), s)
    /\ \A s : Fine(s) <=> Line(s, TRUE) \in Printed(lines)
<1>1. \A stages : Has(stages) <=> \E s \in stages : Says(Printed(lines), s)
  BY Zenon DEF Has, Says, Printed
<1>2. \A s : Fine(s) <=> Line(s, TRUE) \in Printed(lines)
  BY Zenon DEF Fine, Printed
<1>3. \A s : Has({s}) <=> Says(Printed(lines), s)
  BY Zenon DEF Has, Says, Printed
<1>4. QED
  BY <1>1, <1>2, <1>3, Zenon

(* Every line rests on the stage before it, so that a failure names its      *)
(* layer: for any number of families and addresses, any target and           *)
(* credentials, and whatever is answered.                                    *)
THEOREM FailuresNameTheirLayer == LadderSpec => []FailureNamesItsLayer
<1>1. LadderInv => FailureNamesItsLayer
  <2> SUFFICES ASSUME LadderInv PROVE FailureNamesItsLayer
    OBVIOUS
  <2> DEFINE P == Printed(lines)
  <2>1. Layered(P)
    BY LadderIs, Zenon DEF LadderInv
  <2>2. \A s \in {"cert", "chain", "http2", "redirect", "grpc"} : s \in Above
    BY DEF Above
  <2>3. ASSUME NEW d \in Dials
        PROVE  \E i \in DOMAIN lines : lines[i] = FamilyLine("dns", lines[d].family, TRUE)
    <3>1. lines[d] \in P /\ lines[d].stage = "tcp"
      BY Zenon DEF Dials, Printed
    <3>2. FamilyLine("dns", lines[d].family, TRUE) \in P
      BY <2>1, <3>1, Zenon DEF Layered
    <3>3. QED
      BY <3>2, Zenon DEF Printed
  <2>4. ASSUME Has({"tls"}) PROVE \E d \in Dials : lines[d].ok
    <3>1. Says(P, "tls")
      <4> HIDE DEF P
      <4>1. QED
        BY <2>4, InTheLines, Zenon DEF P
    <3>2. PICK l \in P : l.stage = "tcp" /\ l.ok
      BY <2>1, <3>1, Zenon DEF Layered
    <3>3. QED
      BY <3>2, Zenon DEF Printed, Dials
  <2> HIDE DEF P
  <2>5. Has({"cert", "chain", "http2", "redirect", "grpc"}) => Fine("tls")
    BY <2>1, <2>2, InTheLines, Zenon DEF Layered, P
  <2>6. Fine("chain") => Fine("cert")
    BY <2>1, InTheLines, Zenon DEF Layered, P
  <2>7. Has({"health", "temporal", "namespace", "longpoll"}) => Fine("grpc")
    <3> DEFINE up == {"health", "temporal", "namespace", "longpoll"}
    <3>1. \A s \in up : Says(P, s) => Line("grpc", TRUE) \in P
      BY <2>1, Zenon DEF Layered, Founded
    <3> HIDE DEF up
    <3>2. Has(up) => Fine("grpc")
      BY <3>1, InTheLines, Zenon DEF P
    <3>3. QED
      BY <3>2, Zenon DEF up
  <2>8. Has({"namespace"}) <=> Has({"longpoll"})
    BY <2>1, InTheLines, Zenon DEF Layered, Founded, P
  <2>9. Has({"auth"}) /\ Has({"tenant"}) => Fine("auth")
    BY <2>1, InTheLines, Zenon DEF Layered, Founded, P
  <2>10. QED
    BY <2>3, <2>4, <2>5, <2>6, <2>7, <2>8, <2>9, Zenon DEF FailureNamesItsLayer
<1>2. QED
  BY <1>1, LadderKept, PTL

(* The number of tenant lines at the end of a run.                           *)
LEMMA TenantsCounted ==
    ASSUME NEW r, NEW o \in Credentials, EndsWithTenants(r, o)
    PROVE  Cardinality({i \in DOMAIN r : r[i].stage = "tenant"}) = Tenants(o)
<1>1. PICK p \in Seq(ALine), t \in Seq(ALine) :
        /\ r = p \o t
        /\ ~ Says(Printed(p), "tenant") /\ Of(Printed(t), {"tenant"})
        /\ Len(t) = Tenants(o)
  BY Zenon DEF EndsWithTenants
<1> DEFINE a == Len(p)
           n == Len(t)
<1>2. a \in Nat /\ n \in Nat /\ DOMAIN p = 1 .. a /\ DOMAIN t = 1 .. n
      /\ DOMAIN r = 1 .. a + n
  BY <1>1
<1>3. \A i \in 1 .. a + n : r[i] = IF i <= a THEN p[i] ELSE t[i - a]
  BY <1>1
<1>4. \A i \in 1 .. a : p[i].stage # "tenant"
  BY <1>1, <1>2, Zenon DEF Says, Printed
<1>5. \A i \in 1 .. n : t[i].stage = "tenant"
  BY <1>1, <1>2, Zenon DEF Of, Printed
<1> HIDE DEF a, n
<1>6. ASSUME NEW i \in 1 .. a + n PROVE r[i].stage = "tenant" <=> i \in a + 1 .. a + n
  <2>1. CASE i <= a
    <3>1. r[i] = p[i] /\ i \in 1 .. a /\ i \notin a + 1 .. a + n
      BY <1>2, <1>3, <2>1
    <3>2. QED
      BY <1>4, <3>1, Zenon
  <2>2. CASE ~ (i <= a)
    <3>1. r[i] = t[i - a] /\ i - a \in 1 .. n /\ i \in a + 1 .. a + n
      BY <1>2, <1>3, <2>2
    <3>2. QED
      BY <1>5, <3>1, Zenon
  <2>3. QED
    BY <2>1, <2>2, Zenon
<1>7. \A i \in a + 1 .. a + n : i \in 1 .. a + n
  BY <1>2
<1>8. {i \in DOMAIN r : r[i].stage = "tenant"} = a + 1 .. a + n
  BY <1>2, <1>6, <1>7, Zenon
<1>9. Cardinality(a + 1 .. a + n) = n
  <2>1. a + 1 \in Int /\ a + n \in Int
    BY <1>2
  <2>2. \A lo, hi \in Int : Cardinality(lo .. hi) = IF lo > hi THEN 0 ELSE hi - lo + 1
    BY FS_Interval, Zenon
  <2>3. Cardinality(a + 1 .. a + n) =
          IF a + 1 > a + n THEN 0 ELSE (a + n) - (a + 1) + 1
    BY <2>1, <2>2
  <2>4. QED
    BY <1>2, <2>3
<1>10. QED
  BY <1>1, <1>8, <1>9, Zenon DEF n

(* A run without a FAIL line went all the way: for any number of families    *)
(* and addresses, any target and credentials, and whatever is answered.      *)
THEOREM CleanIsAnswered == LadderSpec => []CleanMeansAnswered
<1>1. LadderInv => CleanMeansAnswered
  <2> SUFFICES ASSUME LadderInv, lines # <<>>, \A i \in DOMAIN lines : lines[i].ok
               PROVE  /\ Fine("chain")
                      /\ IF kind = "grpc" THEN Fine("health") ELSE Fine("redirect")
                      /\ kind = "grpc" /\ opts.apiKey => Fine("namespace") /\ Fine("longpoll")
                      /\ kind = "https" /\ opts.token # "none" =>
                           Cardinality({i \in DOMAIN lines : lines[i].stage = "tenant"})
                             = IF opts.expects THEN 2 ELSE 1
    BY Zenon DEF CleanMeansAnswered
  <2>1. kind \in {"https", "grpc"} /\ opts \in Credentials
    BY Zenon DEF LadderInv
  <2>2. AllFine(Printed(lines))
    BY Zenon DEF AllFine, Printed
  <2>3. Line("chain", TRUE) \in Printed(lines) /\ AllTheWay(lines, kind, opts)
    BY <2>2, LadderIs, Zenon DEF LadderInv
  <2>4. Fine("chain")
    BY <2>3, InTheLines, Zenon
  <2>5. IF kind = "grpc" THEN Fine("health") ELSE Fine("redirect")
    BY <2>3, InTheLines, Zenon DEF AllTheWay
  <2>6. kind = "grpc" /\ opts.apiKey => Fine("namespace") /\ Fine("longpoll")
    BY <2>3, InTheLines, Zenon DEF AllTheWay
  <2>7. ASSUME kind = "https", opts.token # "none"
        PROVE  Cardinality({i \in DOMAIN lines : lines[i].stage = "tenant"})
                 = IF opts.expects THEN 2 ELSE 1
    <3>1. EndsWithTenants(lines, opts)
      BY <2>3, <2>7, Zenon DEF AllTheWay
    <3>2. Cardinality({i \in DOMAIN lines : lines[i].stage = "tenant"}) = Tenants(opts)
      BY <2>1, <3>1, TenantsCounted, Zenon
    <3>3. QED
      BY <3>2, Zenon DEF Tenants
  <2>8. QED
    BY <2>4, <2>5, <2>6, <2>7, Zenon
<1>2. QED
  BY <1>1, LadderKept, PTL
==============================================================================
