------------------------------ MODULE LongPoll -------------------------------
(***************************************************************************)
(* The longpoll stage of internal/probe: one Temporal worker whose polls    *)
(* the server holds for longPollDuration, and the stages of the gRPC        *)
(* targets that ask the server about it and count the polls cut short.      *)
(*                                                                          *)
(* There is one poller for the whole process (Clients.poller), so with      *)
(* several gRPC targets several stages observe it at once. The server, its  *)
(* list of open polls and the network that cuts them are external, modelled *)
(* as poller.observe reads them: one entry per open poll of our identity,   *)
(* with the time the poll came in, by the server's clock.                   *)
(***************************************************************************)
EXTENDS Integers, FiniteSets

CONSTANTS
  Pollers,      \* the polls the SDK worker keeps open at once
  Stages,       \* the longpoll stages observing, one per gRPC target
  Duration,     \* longPollDuration
  Skew,         \* how far the server's clock is ahead of ours
  MaxTime,      \* bound on the clock
  MaxCuts       \* bound on the polls the network cuts

ASSUME DurationAssumption == Duration \in Nat \ {0}
ASSUME SkewAssumption == Skew \in Int
ASSUME MaxTimeAssumption == MaxTime \in Nat
ASSUME MaxCutsAssumption == MaxCuts \in Nat

Never == -1   \* no such time

VARIABLES
  now,          \* our clock
  open,         \* per poll of the worker: when it came in, or Never
  cut,          \* how many polls ended before Duration
  stage,        \* per stage: idle, answered (DescribeTaskQueue returned) or
                \* stamped (held is computed, the lock not yet taken)
  answer,       \* per stage: the entries of the answer
  held,         \* per stage: the held it computed
  at,           \* per stage: the time it computed it
  lastHeld, lastSeen, truncations   \* the poller's fields

poller == <<lastHeld, lastSeen, truncations>>
vars == <<now, open, cut, stage, answer, held, at, poller>>

Init ==
  /\ now = 0
  /\ open = [p \in Pollers |-> Never]
  /\ cut = 0
  /\ stage = [s \in Stages |-> "idle"]
  /\ answer = [s \in Stages |-> {}]
  /\ held = [s \in Stages |-> 0]
  /\ at = [s \in Stages |-> 0]
  /\ lastHeld = 0 /\ lastSeen = Never /\ truncations = 0

------------------------------------------------------------------------------
(* The server and the network.                                              *)

Age(p) == now - open[p]

\* The server answers a poll that has been held for Duration, not later.
Tick ==
  /\ now < MaxTime
  /\ \A p \in Pollers : open[p] # Never => Age(p) < Duration
  /\ now' = now + 1
  /\ UNCHANGED <<open, cut, stage, answer, held, at, poller>>

Poll(p) ==
  /\ open[p] = Never
  /\ open' = [open EXCEPT ![p] = now]
  /\ UNCHANGED <<now, cut, stage, answer, held, at, poller>>

Complete(p) ==
  /\ open[p] # Never /\ Age(p) = Duration
  /\ open' = [open EXCEPT ![p] = Never]
  /\ UNCHANGED <<now, cut, stage, answer, held, at, poller>>

Cut(p) ==
  /\ open[p] # Never /\ Age(p) < Duration /\ cut < MaxCuts
  /\ open' = [open EXCEPT ![p] = Never]
  /\ cut' = cut + 1
  /\ UNCHANGED <<now, stage, answer, held, at, poller>>

------------------------------------------------------------------------------
(* The stages. describe and observe are separate calls, and observe takes   *)
(* the lock only after it has computed held from its own time.Now().        *)

\* DescribeTaskQueue; an error leaves the poller alone.
Describe(s) ==
  /\ stage[s] = "idle"
  /\ answer' = [answer EXCEPT ![s] = {open[p] + Skew : p \in {q \in Pollers : open[q] # Never}}]
  /\ stage' = [stage EXCEPT ![s] = "answered"]
  /\ UNCHANGED <<now, open, cut, held, at, poller>>

\* held is the age of our oldest entry, an entry of the future counting as new.
IsHeld(h, time, entries) ==
  /\ h \in {0} \cup {time - e : e \in entries}
  /\ h >= 0
  /\ \A e \in entries : time - e <= h

\* Our identity is not in the answer: the poller is left as it was.
Absent(s) ==
  /\ stage[s] = "answered" /\ answer[s] = {}
  /\ stage' = [stage EXCEPT ![s] = "idle"]
  /\ UNCHANGED <<now, open, cut, answer, held, at, poller>>

Stamp(s) ==
  /\ stage[s] = "answered" /\ answer[s] # {}
  /\ \E h \in {0} \cup {now - e : e \in answer[s]} :
       IsHeld(h, now, answer[s]) /\ held' = [held EXCEPT ![s] = h]
  /\ at' = [at EXCEPT ![s] = now]
  /\ stage' = [stage EXCEPT ![s] = "stamped"]
  /\ UNCHANGED <<now, open, cut, answer, poller>>

\* Mutant of Truncated: a poll that reached exactly Duration counts.
TruncatedAtDuration(h, time) ==
  lastSeen # Never /\ h < lastHeld /\ lastHeld + (time - lastSeen) <= Duration

\* The poll last seen is gone, and even granting it the whole gap between the
\* observations it cannot have reached Duration.
Truncated(h, time) ==
  /\ lastSeen # Never
  /\ h < lastHeld
  /\ lastHeld + (time - lastSeen) < Duration

Record(s) ==
  /\ stage[s] = "stamped"
  /\ truncations' = IF Truncated(held[s], at[s]) THEN truncations + 1 ELSE truncations
  /\ lastHeld' = held[s]
  /\ lastSeen' = at[s]
  /\ stage' = [stage EXCEPT ![s] = "idle"]
  /\ UNCHANGED <<now, open, cut, answer, held, at>>

Server == Tick \/ \E p \in Pollers : Poll(p) \/ Complete(p) \/ Cut(p)
Stage(s) == Describe(s) \/ Absent(s) \/ Stamp(s) \/ Record(s)

Next == Server \/ \E s \in Stages : Stage(s)
Spec == Init /\ [][Next]_vars

------------------------------------------------------------------------------

Times == 0..MaxTime
TypeOK ==
  /\ now \in Times
  /\ open \in [Pollers -> Times \cup {Never}]
  /\ cut \in Nat
  /\ stage \in [Stages -> {"idle", "answered", "stamped"}]
  /\ answer \in [Stages -> SUBSET {t + Skew : t \in Times}]
  /\ held \in [Stages -> Nat]
  /\ at \in [Stages -> Times]
  /\ lastHeld \in Nat
  /\ lastSeen \in Times \cup {Never}
  /\ truncations \in Nat

(* "A truncation is only counted when it is certain" (poller.observe): the  *)
(* stage never reports more truncations than there were polls cut short.    *)
OnlyCertainTruncations == truncations <= cut
==============================================================================
