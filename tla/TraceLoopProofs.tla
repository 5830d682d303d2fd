--------------------------- MODULE TraceLoopProofs ---------------------------
(***************************************************************************)
(* For any interval, gap, timeout and RTTs: a target is traced at least     *)
(* every interval, and a latency-jump trace stands for a jump of this very  *)
(* loop, which gets its trace.                                              *)
(***************************************************************************)
EXTENDS TraceLoop, TLAPS

(* Types.                                                                   *)
TypeOK ==
    /\ loop \in {"off", "new", "trace", "wait"}
    /\ cancelled \in BOOLEAN /\ owed \in BOOLEAN /\ watched \in BOOLEAN /\ token \in BOOLEAN
    /\ ticked \in BOOLEAN /\ flushed \in BOOLEAN /\ jumped \in BOOLEAN
    /\ rtt \in Nat /\ last \in Nat
    /\ next \in 1 .. TraceInterval /\ begun \in Nat /\ ended \in Nat

(* The next tick comes in time, unless it is already in the channel; and a  *)
(* loop that waits with a tick in its channel does not wait for the clock.  *)
TickInTime ==
    loop \in {"trace", "wait"} =>
        begun <= TraceInterval /\ (ticked \/ begun + next <= TraceInterval)

(* The registry is about the loop that watches it.                          *)
OwnRegistry ==
    /\ watched <=> loop \in {"trace", "wait"}
    /\ rtt = IF watched THEN last ELSE NoRTT

(* A loop that may begin a trace has a token if, and only if, this minute's *)
(* record is a jump.                                                        *)
TokenIsAJump ==
    /\ ~flushed => ~jumped
    /\ loop = "wait" /\ Spaced => (token <=> jumped)

(* The inductive invariant.                                                 *)
IInv == TypeOK /\ TickInTime /\ OwnRegistry /\ TokenIsAJump

(* Every step keeps the types.                                              *)
LEMMA TypeStep ==
    TypeOK /\ [LoopNext]_loopVars => TypeOK'
<1> SUFFICES ASSUME TypeOK, [LoopNext]_loopVars PROVE TypeOK'
  OBVIOUS
<1>1. TraceInterval \in Nat \ {0} /\ TraceMinGap \in Nat /\ TraceTimeout \in Nat /\ Levels \subseteq Nat
  BY LoopAssumption
<1>2. 0 \in Nat /\ TraceInterval \in 1 .. TraceInterval
  BY <1>1
<1>3. CASE AddIP
  BY <1>3, <1>2, Zenon DEF AddIP, TypeOK, registry, history
<1>4. CASE RemoveIP
  BY <1>4, Zenon DEF RemoveIP, TypeOK, registry, clocks, history
<1>5. CASE LoopReturns
  BY <1>5, <1>2, Zenon DEF LoopReturns, Unwatch, TypeOK, NoRTT, clocks, history
<1>6. CASE TraceEnds
  BY <1>6, <1>2, Zenon DEF TraceEnds, TypeOK, registry, history
<1>7. CASE Forget
  BY <1>7, Zenon DEF Forget, TypeOK, clocks, history
<1>8. CASE Watch
  BY <1>8, <1>2, Zenon DEF Watch, TypeOK, NoRTT
<1>9. CASE Hourly
  BY <1>9, <1>2, Zenon DEF Hourly, BeginTrace, TypeOK, history
<1>10. CASE Jumped
  BY <1>10, <1>2, Zenon DEF Jumped, BeginTrace, TypeOK, history
<1>11. ASSUME NEW now \in Levels \cup {NoRTT}, Observe(now) PROVE TypeOK'
  <2>1. now \in Nat
    BY <1>1 DEF NoRTT
  <2>2. rtt' \in Nat /\ last' \in Nat
    BY <1>11, <2>1 DEF Observe, TypeOK
  <2>3. token' \in BOOLEAN /\ jumped' \in BOOLEAN
    BY <1>11, Zenon DEF Observe, TypeOK
  <2>4. QED
    BY <1>11, <2>2, <2>3 DEF Observe, TypeOK, clocks
<1>12. CASE Minute
  <2>1. next' \in 1 .. TraceInterval
    BY <1>1, <1>12 DEF Minute, TypeOK
  <2>2. begun' \in Nat /\ ended' \in Nat
    BY <1>12 DEF Minute, Later, TypeOK
  <2>3. ticked' \in BOOLEAN
    BY <1>12, Zenon DEF Minute
  <2>4. QED
    BY <1>12, <2>1, <2>2, <2>3 DEF Minute, TypeOK, registry
<1>13. CASE UNCHANGED loopVars
  BY <1>13 DEF loopVars, registry, clocks, history, TypeOK
<1>14. QED
  BY <1>3, <1>4, <1>5, <1>6, <1>7, <1>8, <1>9, <1>10, <1>11, <1>12, <1>13 DEF LoopNext, LoopStep

(* Every step leaves the next tick in time.                                 *)
LEMMA InTimeStep ==
    TypeOK /\ TickInTime /\ [LoopNext]_loopVars => TickInTime'
<1> SUFFICES ASSUME TypeOK, TickInTime, [LoopNext]_loopVars PROVE TickInTime'
  OBVIOUS
<1>1. TraceInterval \in Nat \ {0} /\ TraceTimeout \in 0 .. TraceInterval /\ next \in 1 .. TraceInterval /\ begun \in Nat
  BY LoopAssumption DEF TypeOK
<1>2. CASE AddIP \/ RemoveIP \/ LoopReturns
  BY <1>2 DEF AddIP, RemoveIP, LoopReturns, TickInTime, clocks
<1>3. CASE Watch
  BY <1>1, <1>3 DEF Watch, TickInTime
<1>4. CASE TraceEnds \/ Forget
  BY <1>4 DEF TraceEnds, Forget, TickInTime, clocks
<1>5. CASE Hourly \/ Jumped
  BY <1>1, <1>5 DEF Hourly, Jumped, BeginTrace, TickInTime
<1>6. ASSUME NEW now \in Levels \cup {NoRTT}, Observe(now) PROVE TickInTime'
  BY <1>6 DEF Observe, TickInTime, clocks
<1>7. CASE Minute
  <2>1. SUFFICES ASSUME loop' \in {"trace", "wait"}
                 PROVE  begun' <= TraceInterval /\ (ticked' \/ begun' + next' <= TraceInterval)
    BY DEF TickInTime
  <2>2. loop = loop' /\ begun <= TraceInterval /\ (ticked \/ begun + next <= TraceInterval)
    BY <1>7, <2>1 DEF Minute, TickInTime
  <2>3. begun' = begun + 1
    BY <1>1, <1>7, <2>1, <2>2 DEF Minute, Later
  <2>4. begun + 1 <= TraceInterval
    BY <1>1, <1>7, <2>1, <2>2 DEF Minute
  <2>5. next = 1 => ticked'
    BY <1>7, <2>1, <2>2 DEF Minute
  <2>6. ticked => ticked'
    BY <1>7 DEF Minute
  <2>7. next # 1 => next' = next - 1
    BY <1>7, <2>1, <2>2 DEF Minute
  <2>8. QED
    BY <1>1, <2>2, <2>3, <2>4, <2>5, <2>6, <2>7
<1>8. CASE UNCHANGED loopVars
  BY <1>8 DEF loopVars, clocks, TickInTime
<1>9. QED
  BY <1>2, <1>3, <1>4, <1>5, <1>6, <1>7, <1>8 DEF LoopNext, LoopStep

(* Every step leaves the registry to the loop that watches it.              *)
LEMMA RegistryStep ==
    TypeOK /\ OwnRegistry /\ [LoopNext]_loopVars => OwnRegistry'
<1> SUFFICES ASSUME TypeOK, OwnRegistry, [LoopNext]_loopVars PROVE OwnRegistry'
  OBVIOUS
<1>1. CASE AddIP \/ RemoveIP \/ TraceEnds \/ Forget \/ Minute
  BY <1>1 DEF AddIP, RemoveIP, TraceEnds, Forget, Minute, OwnRegistry, registry, history
<1>2. CASE Watch
  BY <1>2 DEF Watch, OwnRegistry
<1>3. CASE LoopReturns
  BY <1>3 DEF LoopReturns, Unwatch, OwnRegistry
<1>4. CASE Hourly \/ Jumped
  BY <1>4 DEF Hourly, Jumped, BeginTrace, OwnRegistry, history
<1>5. ASSUME NEW now \in Levels \cup {NoRTT}, Observe(now) PROVE OwnRegistry'
  BY <1>5 DEF Observe, OwnRegistry
<1>6. CASE UNCHANGED loopVars
  BY <1>6 DEF loopVars, registry, history, OwnRegistry
<1>7. QED
  BY <1>1, <1>2, <1>3, <1>4, <1>5, <1>6 DEF LoopNext, LoopStep

(* Every step leaves a token only where there is a jump, and there one.     *)
LEMMA TokenStep ==
    TypeOK /\ OwnRegistry /\ TokenIsAJump /\ [LoopNext]_loopVars => TokenIsAJump'
<1> SUFFICES ASSUME TypeOK, OwnRegistry, TokenIsAJump, [LoopNext]_loopVars PROVE TokenIsAJump'
  OBVIOUS
<1>1. TraceMinGap \in Nat \ {0} /\ ended \in Nat
  BY LoopAssumption DEF TypeOK
<1>2. CASE AddIP \/ RemoveIP \/ LoopReturns \/ Hourly \/ Jumped
  BY <1>2 DEF AddIP, RemoveIP, LoopReturns, Unwatch, Hourly, Jumped, BeginTrace,
              TokenIsAJump, Spaced,
              registry, clocks, history
<1>3. CASE Watch
  BY <1>3 DEF Watch, TokenIsAJump
<1>4. CASE TraceEnds
  BY <1>1, <1>4 DEF TraceEnds, TokenIsAJump, Spaced, registry, history
<1>5. CASE Forget
  BY <1>5 DEF Forget, TokenIsAJump, Spaced, clocks, history
<1>6. ASSUME NEW now \in Levels \cup {NoRTT}, Observe(now) PROVE TokenIsAJump'
  <2>1. flushed' /\ ~flushed /\ ~jumped /\ UNCHANGED <<loop, ended>>
    BY <1>6 DEF Observe, clocks, TokenIsAJump
  <2>2. ASSUME loop' = "wait", Spaced' PROVE token' <=> jumped'
    <3>1. ~token /\ watched /\ rtt = last
      BY <2>1, <2>2 DEF TokenIsAJump, Spaced, OwnRegistry
    <3>2. QED
      BY <1>6, <3>1 DEF Observe
  <2>3. QED
    BY <2>1, <2>2, Zenon DEF TokenIsAJump
<1>7. CASE Minute
  BY <1>7 DEF Minute, TokenIsAJump, registry
<1>8. CASE UNCHANGED loopVars
  BY <1>8 DEF loopVars, registry, clocks, history, TokenIsAJump, Spaced
<1>9. QED
  BY <1>2, <1>3, <1>4, <1>5, <1>6, <1>7, <1>8 DEF LoopNext, LoopStep

(* So the invariant always holds.                                           *)
LEMMA Invariant == LoopSpec => []IInv
<1>1. LoopInit => IInv
  <2>1. SUFFICES ASSUME LoopInit PROVE IInv
    OBVIOUS
  <2>2. 0 \in Nat /\ TraceInterval \in 1 .. TraceInterval
    BY LoopAssumption
  <2>3. TypeOK
    BY <2>1, <2>2, Zenon DEF LoopInit, TypeOK, NoRTT
  <2>4. TickInTime /\ OwnRegistry /\ TokenIsAJump
    BY <2>1 DEF LoopInit, TickInTime, OwnRegistry, TokenIsAJump
  <2>5. QED
    BY <2>3, <2>4 DEF IInv
<1>2. IInv /\ [LoopNext]_loopVars => IInv'
  BY TypeStep, InTimeStep, RegistryStep, TokenStep DEF IInv
<1>3. QED
  BY <1>1, <1>2, PTL DEF LoopSpec

(* Type correctness of the loop, its ticker, its trigger and the flush.     *)
THEOREM TypeCorrect == LoopSpec => []TypeOK
<1>1. IInv => TypeOK
  BY DEF IInv
<1>2. QED
  BY <1>1, Invariant, PTL

(* A target is traced at least every traceInterval, whatever jumps come in  *)
(* between and however long its traces take (traceLoop and its ticker).     *)
THEOREM TracesAreHourly == LoopSpec => []TracedEveryHour
<1>1. IInv => TracedEveryHour
  BY DEF IInv, TickInTime, TracedEveryHour
<1>2. QED
  BY <1>1, Invariant, PTL

(* A latency-jump trace has a jump of its own loop's RTTs, and such a jump  *)
(* has a trace unless one runs or has just ended (traceLoop, jumps).        *)
THEOREM JumpsAreTraced == LoopSpec => TracedOnAJump
<1>1. IInv /\ [LoopNext]_loopVars =>
          [/\ loop = "wait" /\ loop' = "trace" /\ reason' = "latency-jump" => jumped
           /\ flushed /\ ~flushed' /\ jumped => loop # "wait" \/ ended < TraceMinGap]_loopVars
  <2> SUFFICES ASSUME IInv, [LoopNext]_loopVars
               PROVE  /\ loop = "wait" /\ loop' = "trace" /\ reason' = "latency-jump" => jumped
                      /\ flushed /\ ~flushed' /\ jumped => loop # "wait" \/ ended < TraceMinGap
    OBVIOUS
  <2>1. TraceMinGap \in Nat /\ ended \in Nat
    BY LoopAssumption DEF IInv, TypeOK
  <2>2. ASSUME loop = "wait", loop' = "trace", reason' = "latency-jump" PROVE jumped
    <3>1. Jumped
      BY <2>2 DEF LoopNext, LoopStep, AddIP, RemoveIP, Watch, LoopReturns, TraceEnds, Hourly,
                  BeginTrace, Forget,
                  Observe, Minute, loopVars
    <3>2. QED
      BY <3>1, <2>2 DEF Jumped, IInv, TokenIsAJump
  <2>3. ASSUME flushed, ~flushed', jumped, loop = "wait" PROVE ended < TraceMinGap
    <3>1. Minute
      BY <2>3 DEF LoopNext, LoopStep, AddIP, RemoveIP, Watch, LoopReturns, TraceEnds, Hourly,
                  Jumped, BeginTrace, Forget,
                  Observe, loopVars
    <3>2. ~Spaced
      BY <3>1, <2>3 DEF Minute, IInv, TokenIsAJump
    <3>3. QED
      BY <3>2, <2>1 DEF Spaced
  <2>4. QED
    BY <2>2, <2>3
<1>2. QED
  BY <1>1, Invariant, PTL DEF LoopSpec, TracedOnAJump
==============================================================================
