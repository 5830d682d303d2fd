----------------------------- MODULE TraceLoop -------------------------------
(***************************************************************************)
(* When a target's route is traced (traceLoop and the jumps registry of     *)
(* trace.go): at startup, every traceInterval, and when the RTT of its      *)
(* minute record jumps.  The loop, the resolver that starts and cancels it  *)
(* and the minute flush that calls jumps.observe are separate processes;    *)
(* the trace itself is module Tracer.                                       *)
(*                                                                          *)
(* A step of the clock is a minute.  A loop that has something to do does   *)
(* it before the clock goes on.  A cancelled loop returns within pollStep,  *)
(* an IP comes back after resolveInterval at the earliest: the loop of the  *)
(* same IP before is gone by then.                                          *)
(***************************************************************************)
EXTENDS Integers

CONSTANTS
    TraceInterval, TraceMinGap, TraceTimeout,
    Levels      \* RTTs a minute may have

NoRTT == 0      \* no RTT in the record, and no entry in the registry

ASSUME LoopAssumption ==
    /\ TraceInterval \in Nat \ {0} /\ TraceMinGap \in 1 .. TraceInterval
    /\ TraceTimeout \in 0 .. TraceInterval
    /\ Levels \subseteq Nat \ {NoRTT}

VARIABLES
    loop,           \* off, new (started, not yet watching), trace, wait
    reason,         \* startup, hourly or latency-jump
    cancelled,      \* the target is removed, the loop has still to see it
    owed,           \* the agg has a last record of the removed target
    watched, token, \* the trigger of the target, a token in its channel
    rtt,            \* jumps.prev of the target
    next, ticked,   \* the ticker: time to its next tick, a tick in its channel
    begun, ended,   \* since the last trace began (or the loop), and ended
    flushed,        \* this minute's records are out
    last, jumped    \* for the properties: the RTT of the loop's last minute record,
                    \* and whether this minute's is a jump from it

registry == <<watched, token, rtt>>
clocks == <<next, ticked, begun, ended>>
history == <<last, jumped>>
loopVars == <<loop, reason, cancelled, owed, registry, clocks, flushed, history>>

LoopInit ==
    /\ loop = "off" /\ reason = "startup" /\ cancelled = FALSE /\ owed = FALSE
    /\ watched = FALSE /\ token = FALSE /\ rtt = NoRTT
    /\ next = TraceInterval /\ ticked = FALSE /\ begun = 0 /\ ended = 0
    /\ flushed = TRUE /\ last = NoRTT /\ jumped = FALSE

(* jumpRatio and jumpMinMS: higher by enough.                               *)
JumpedRTT(before, now) == now > before

------------------------------------------------------------------------------
(* The resolver.                                                            *)

AddIP ==
    /\ loop = "off"
    /\ loop' = "new" /\ begun' = 0
    /\ UNCHANGED <<reason, cancelled, owed, registry, next, ticked, ended, flushed, history>>

RemoveIP ==
    /\ loop # "off" /\ ~cancelled
    /\ cancelled' = TRUE /\ owed' = TRUE
    /\ UNCHANGED <<loop, reason, registry, clocks, flushed, history>>

------------------------------------------------------------------------------
(* The loop.                                                                *)

Watch ==
    /\ loop = "new"
    /\ loop' = "trace" /\ reason' = "startup" /\ begun' = 0
    /\ watched' = TRUE /\ token' = FALSE
    /\ next' = TraceInterval /\ ticked' = FALSE
    /\ last' = NoRTT /\ jumped' = FALSE
    /\ UNCHANGED <<cancelled, owed, rtt, ended, flushed>>

\* Mutant: the RTT of the target stays in the registry.
UnwatchTrigger == watched' = FALSE /\ token' = FALSE /\ UNCHANGED rtt

Unwatch == watched' = FALSE /\ token' = FALSE /\ rtt' = NoRTT

LoopReturns ==
    /\ cancelled /\ loop \in {"trace", "wait"}
    /\ loop' = "off" /\ cancelled' = FALSE
    /\ Unwatch
    /\ UNCHANGED <<reason, owed, clocks, flushed, history>>

\* Mutant: a tick that came in mid-trace is drained.
TraceEndsAfresh ==
    /\ loop = "trace" /\ ~cancelled
    /\ loop' = "wait" /\ ended' = 0 /\ ticked' = FALSE
    /\ UNCHANGED <<reason, cancelled, owed, registry, next, begun, flushed, history>>

TraceEnds ==
    /\ loop = "trace" /\ ~cancelled
    /\ loop' = "wait" /\ ended' = 0
    /\ UNCHANGED <<reason, cancelled, owed, registry, next, ticked, begun, flushed, history>>

BeginTrace(why) ==
    /\ loop' = "trace" /\ reason' = why /\ begun' = 0
    /\ UNCHANGED <<cancelled, owed, watched, rtt, next, ended, flushed, history>>

Hourly ==
    /\ loop = "wait" /\ ticked
    /\ ticked' = FALSE
    /\ BeginTrace("hourly")
    /\ UNCHANGED token

Spaced == ended >= TraceMinGap

Jumped ==
    /\ loop = "wait" /\ token /\ Spaced
    /\ token' = FALSE
    /\ BeginTrace("latency-jump")
    /\ UNCHANGED ticked

Forget ==
    /\ loop = "wait" /\ token /\ ~Spaced
    /\ token' = FALSE
    /\ UNCHANGED <<loop, reason, cancelled, owed, watched, rtt, clocks, flushed, history>>

------------------------------------------------------------------------------
(* The minute flush: a record of every registered target, and a last one of *)
(* a removed one.                                                           *)

(* jumps.observe, of one record.  A flush that lags skips a minute.         *)
Observe(now) ==
    /\ ~flushed
    /\ owed \/ (loop # "off" /\ ~cancelled)
    /\ flushed' = TRUE /\ owed' = FALSE
    /\ IF watched
       THEN /\ rtt' = now
            /\ token' = (token \/ (rtt # NoRTT /\ JumpedRTT(rtt, now)))
            /\ jumped' = (last # NoRTT /\ JumpedRTT(last, now))
            /\ last' = now
       ELSE UNCHANGED <<rtt, token, jumped, last>>
    /\ UNCHANGED <<loop, reason, cancelled, watched, clocks>>

(* A minute.  A ticker whose last tick is still in its channel drops one.   *)
Later(age) == IF loop = "off" \/ age > TraceInterval THEN age ELSE age + 1

Minute ==
    /\ ~cancelled /\ loop # "new"
    /\ loop = "trace" => begun < TraceTimeout
    /\ loop = "wait" => ~ticked /\ ~token
    /\ next' = IF loop = "off" THEN next ELSE IF next = 1 THEN TraceInterval ELSE next - 1
    /\ ticked' = (ticked \/ (loop # "off" /\ next = 1))
    /\ begun' = Later(begun) /\ ended' = Later(ended)
    /\ flushed' = FALSE /\ jumped' = FALSE
    /\ UNCHANGED <<loop, reason, cancelled, owed, registry, last>>

LoopStep == Watch \/ LoopReturns \/ TraceEnds \/ Hourly \/ Jumped \/ Forget
LoopNext ==
    AddIP \/ RemoveIP \/ LoopStep \/ Minute \/ \E now \in Levels \cup {NoRTT} : Observe(now)
LoopSpec == LoopInit /\ [][LoopNext]_loopVars

------------------------------------------------------------------------------
(* A target is traced at least every traceInterval, whatever latency jumps  *)
(* come in between and however long the traces take (a tick that comes in   *)
(* mid-trace must not be lost).                                             *)
TracedEveryHour == loop \in {"trace", "wait"} => begun <= TraceInterval

(* A latency-jump trace has a jump: the RTT of this minute's record is      *)
(* above that of the record before of the same loop, never above one from   *)
(* before the IP was removed, or from before minutes without an RTT.  And a *)
(* jump has a trace: one that begins in the same minute, unless one runs or *)
(* ended less than traceMinGap ago.                                         *)
TracedOnAJump ==
    [][/\ loop = "wait" /\ loop' = "trace" /\ reason' = "latency-jump" => jumped
       /\ flushed /\ ~flushed' /\ jumped => loop # "wait" \/ ended < TraceMinGap]_loopVars
==============================================================================
