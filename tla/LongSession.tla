----------------------------- MODULE LongSession -----------------------------
(***************************************************************************)
(* The long connection of one target in time (long.go): longLoop dials,     *)
(* backs off and redials; session sends a PING every pingInterval, each in  *)
(* a goroutine that reports through the results channel, and declares the   *)
(* connection dead when no answer was read for deadAfter. The unit of time  *)
(* is pingInterval. Module HostLoops has the same loop without time, with   *)
(* the others and what they count.                                          *)
(***************************************************************************)
EXTENDS Naturals, Sequences, Functions

CONSTANTS
  PingTimeout,  \* pingTimeout, in intervals
  DeadAfter,    \* deadAfter
  MinBackoff, MaxBackoff,
  MaxTime       \* bound on the clock

ASSUME PingTimeoutAssumption == PingTimeout \in Nat \ {0}
ASSUME DeadAfterAssumption == DeadAfter \in Nat \ {0}
ASSUME MaxTimeAssumption == MaxTime \in Nat
ASSUME BackoffAssumption ==
  MinBackoff \in Nat \ {0} /\ MaxBackoff \in Nat /\ MinBackoff <= MaxBackoff

VARIABLES
  now,
  pc,           \* dial, sleep, session or stopped
  backoff, wake,
  link,         \* the connection: up, silent (a black hole) or dead
  tick,         \* the ticker has fired and was not read
  flight,       \* per age: the PINGs waiting for an answer
  results,      \* the channel, followed by the goroutines blocked on it
  lastAnswer,
  stuck,        \* PING goroutines that nobody will ever read from
  \* What the properties compare with:
  replied,      \* when a PING was last answered, or the session began
  dialled,      \* when the last dial began, and how many failed since one
  failed        \* succeeded

sessionVars == <<link, tick, flight, results, lastAnswer>>
ghosts == <<replied, dialled, failed>>
vars == <<now, pc, backoff, wake, sessionVars, stuck, ghosts>>

Ages == 0..PingTimeout
NoPings == [a \in Ages |-> 0]
Total(f) ==
  LET upTo[a \in Ages] == IF a = 0 THEN f[0] ELSE upTo[a - 1] + f[a]
  IN upTo[PingTimeout]
InFlight == Total(flight)

\* The capacity of the results channel. (Mutant: without the slack.)
CapacityTight == PingTimeout
Capacity == PingTimeout + 2

Least(a, b) == IF a < b THEN a ELSE b

Init ==
  /\ now = 0 /\ pc = "dial" /\ backoff = MinBackoff /\ wake = 0
  /\ link = "up" /\ tick = FALSE /\ flight = NoPings /\ results = <<>>
  /\ lastAnswer = 0 /\ stuck = 0
  /\ replied = 0 /\ dialled = 0 /\ failed = 0

------------------------------------------------------------------------------
(* longLoop                                                                 *)

\* A failed dial sleeps out the backoff, which doubles. (Mutant: it stays as
\* it is.)
DialFailsSteadily ==
  /\ pc = "dial"
  /\ pc' = "sleep" /\ wake' = now + backoff
  /\ failed' = failed + 1 /\ dialled' = now
  /\ UNCHANGED <<now, backoff, sessionVars, stuck, replied>>
DialFails ==
  /\ pc = "dial"
  /\ pc' = "sleep" /\ wake' = now + backoff
  /\ backoff' = Least(2 * backoff, MaxBackoff)
  /\ failed' = failed + 1 /\ dialled' = now
  /\ UNCHANGED <<now, sessionVars, stuck, replied>>

Wake ==
  /\ pc = "sleep" /\ now >= wake
  /\ pc' = "dial"
  /\ UNCHANGED <<now, backoff, wake, sessionVars, stuck, ghosts>>

\* dialLong succeeds and session begins, with a new ticker and channel.
DialSucceeds ==
  /\ pc = "dial"
  /\ pc' = "session" /\ backoff' = MinBackoff
  /\ link' = "up" /\ tick' = FALSE /\ flight' = NoPings /\ results' = <<>>
  /\ lastAnswer' = now
  /\ replied' = now /\ dialled' = now /\ failed' = 0
  /\ UNCHANGED <<now, wake, stuck>>

------------------------------------------------------------------------------
(* session. On its way out it cancels the PINGs still in flight; each of    *)
(* them delivers its error, as far as the channel has room for it.          *)

Leave(next) ==
  /\ pc' = next
  /\ stuck' = stuck + (IF Len(results) + InFlight > Capacity
                       THEN Len(results) + InFlight - Capacity ELSE 0)
  /\ flight' = NoPings /\ results' = <<>> /\ tick' = FALSE
  /\ UNCHANGED <<now, backoff, wake, link, lastAnswer, ghosts>>

Silent == now - lastAnswer > DeadAfter
Dead == pc = "session" /\ tick /\ Silent /\ Leave("dial")
Send ==
  /\ pc = "session" /\ tick /\ ~Silent
  /\ tick' = FALSE
  /\ flight' = [flight EXCEPT ![0] = @ + 1]
  /\ UNCHANGED <<now, pc, backoff, wake, link, results, lastAnswer, stuck, ghosts>>

\* A result read from the channel: an answer, a timeout, or the end. (Mutants:
\* a PING that timed out counts as a sign of life, or an answer does not.)
ReadNothing ==
  /\ pc = "session" /\ results # <<>> /\ Head(results) # "error"
  /\ results' = Tail(results)
  /\ UNCHANGED <<now, pc, backoff, wake, link, tick, flight, lastAnswer, stuck, ghosts>>
ReadAnyAsAnswer ==
  /\ pc = "session" /\ results # <<>> /\ Head(results) # "error"
  /\ lastAnswer' = now
  /\ results' = Tail(results)
  /\ UNCHANGED <<now, pc, backoff, wake, link, tick, flight, stuck, ghosts>>
Read ==
  /\ pc = "session" /\ results # <<>> /\ Head(results) # "error"
  /\ lastAnswer' = IF Head(results) = "answer" THEN now ELSE lastAnswer
  /\ results' = Tail(results)
  /\ UNCHANGED <<now, pc, backoff, wake, link, tick, flight, stuck, ghosts>>
ReadError ==
  /\ pc = "session" /\ results # <<>> /\ Head(results) = "error"
  /\ Leave("dial")

\* ctx ends: noticed in the select of session, in sleep, or by the dial.
Cancel ==
  \/ pc = "session" /\ Leave("stopped")
  \/ /\ pc \in {"dial", "sleep"}
     /\ pc' = "stopped"
     /\ UNCHANGED <<now, backoff, wake, sessionVars, stuck, ghosts>>

------------------------------------------------------------------------------
(* The PING goroutines and the connection.                                  *)

Finish(a, kind) ==
  /\ pc = "session" /\ flight[a] > 0
  /\ flight' = [flight EXCEPT ![a] = @ - 1]
  /\ results' = Append(results, kind)
  /\ UNCHANGED <<now, pc, backoff, wake, link, tick, lastAnswer, stuck, dialled, failed>>

Answered(a) == link = "up" /\ Finish(a, "answer") /\ replied' = now
TimedOut == Finish(PingTimeout, "timeout") /\ UNCHANGED replied
Failed(a) == link = "dead" /\ Finish(a, "error") /\ UNCHANGED replied

Change ==
  /\ pc = "session" /\ link # "dead"
  /\ link' \in {"up", "silent", "dead"} \ {link}
  /\ UNCHANGED <<now, pc, backoff, wake, tick, flight, results, lastAnswer, stuck, ghosts>>

\* Time passes once every PING that is due has come back and the session has
\* read what there was: it is never held up for a whole interval.
Clock ==
  /\ now < MaxTime /\ pc # "stopped"
  /\ flight[PingTimeout] = 0
  /\ pc = "session" => ~tick /\ results = <<>>
  /\ now' = now + 1
  /\ tick' = (pc = "session")
  /\ flight' = [a \in Ages |-> IF a = 0 THEN 0 ELSE flight[a - 1]]
  /\ UNCHANGED <<pc, backoff, wake, link, results, lastAnswer, stuck, ghosts>>

Loop == DialFails \/ Wake \/ DialSucceeds \/ Dead \/ Send \/ Read \/ ReadError
Pings == TimedOut \/ \E a \in Ages : Answered(a) \/ Failed(a)
Next == Loop \/ Cancel \/ Pings \/ Change \/ Clock
Spec == Init /\ [][Next]_vars

------------------------------------------------------------------------------

TypeOK ==
  /\ now \in 0..MaxTime
  /\ pc \in {"dial", "sleep", "session", "stopped"}
  /\ backoff \in MinBackoff..MaxBackoff
  /\ wake \in 0..(MaxTime + MaxBackoff)
  /\ link \in {"up", "silent", "dead"}
  /\ tick \in BOOLEAN
  /\ flight \in [Ages -> Nat]
  /\ results \in Seq({"answer", "timeout", "error"})
  /\ lastAnswer \in 0..now /\ replied \in 0..now /\ dialled \in 0..now
  /\ stuck \in Nat /\ failed \in Nat

(* The comment on the results channel: "Sized so in-flight PINGs can always *)
(* deliver after the session ends".                                         *)
EveryPingDelivers == stuck = 0

(* A black hole is noticed: however the PINGs time out, a session goes on   *)
(* for at most deadAfter and one interval without an answer.                *)
SilenceIsNoticed == pc = "session" => now - replied <= DeadAfter + 1

(* And only a black hole: a connection is declared dead when really no PING *)
(* was answered for deadAfter, however late the answers before came; only    *)
(* an answer of this very instant, still unread, may lose the race.          *)
OnlySilenceIsDeath ==
  [][Dead => now - replied > DeadAfter \/ "answer" \in Range(results)]_vars

(* Dials that fail one after another are spaced by a backoff that doubles   *)
(* from minBackoff up to maxBackoff.  A lost connection is redialled at     *)
(* once ("reconnects with backoff whenever it is lost"), and still that     *)
(* dial is minBackoff after the one before, because a loss is only noticed  *)
(* by a PING, and the first one waits for the ticker.                       *)
Wanted(k) ==
  LET after[i \in 0..k] == IF i <= 1 THEN MinBackoff ELSE Least(2 * after[i - 1], MaxBackoff)
  IN after[k]
RedialsAreSpaced ==
  [][(DialFails \/ DialSucceeds) /\ now > 0 => now - dialled >= Wanted(failed)]_vars
==============================================================================
