----------------------------- MODULE Throughput ------------------------------
(***************************************************************************)
(* The downloads of throughput.go: every target has a loop with a ticker,   *)
(* and one slot for the process (sh.tput, a channel of capacity 1) keeps    *)
(* two downloads from sharing the bandwidth.  Time is discrete, and a loop  *)
(* that has something to do does it before the clock goes on; a download    *)
(* takes any time up to tputTimeout, and ends when its target is removed.   *)
(* What a download measures is left out: its records are the measurements   *)
(* of DayUpload.                                                            *)
(***************************************************************************)
EXTENDS Integers, Sequences, FiniteSets

CONSTANTS
    Targets,
    TputInterval, TputTimeout

Nobody == "nobody"

ASSUME TputAssumption ==
    /\ TputInterval \in Nat \ {0} /\ TputTimeout \in Nat
    /\ IsFiniteSet(Targets) /\ Nobody \notin Targets

VARIABLES
    at,             \* of each loop: off, line (waits for the slot), download or sleep
    line,           \* the loops that wait for the slot: a channel serves them in order
    slot,           \* who holds it
    removed,        \* removed targets whose loop has still to see it
    due, ticks,     \* of each ticker: time to its next tick, a tick in its channel
    age             \* since the target's last download began, or it was added

ticker == <<due, ticks>>
tputVars == <<at, line, slot, removed, ticker, age>>

Larger(a, b) == IF a > b THEN a ELSE b

(* A target that is due waits for one download of every other.              *)
Bound == Larger(TputInterval, TputTimeout) + (Cardinality(Targets) - 1) * TputTimeout

TputInit ==
    /\ at = [t \in Targets |-> "off"] /\ line = << >> /\ slot = Nobody /\ removed = {}
    /\ due = [t \in Targets |-> TputInterval] /\ ticks = [t \in Targets |-> FALSE]
    /\ age = [t \in Targets |-> 0]

(* resolveLoop starts and cancels the loop.                                 *)
AddTarget(t) ==
    /\ at[t] = "off"
    /\ at' = [at EXCEPT ![t] = "line"] /\ line' = Append(line, t)
    /\ UNCHANGED <<slot, removed, ticker, age>>

RemoveTarget(t) ==
    /\ at[t] # "off" /\ t \notin removed
    /\ removed' = removed \cup {t}
    /\ UNCHANGED <<at, line, slot, ticker, age>>

(* A loop returns: its ticker is as good as new, for the next to come.     *)
Return(t) ==
    /\ at' = [at EXCEPT ![t] = "off"] /\ removed' = removed \ {t}
    /\ due' = [due EXCEPT ![t] = TputInterval] /\ ticks' = [ticks EXCEPT ![t] = FALSE]
    /\ age' = [age EXCEPT ![t] = 0]

Place(t) == CHOOSE i \in DOMAIN line : line[i] = t
Without(s, i) == SubSeq(s, 1, i - 1) \o SubSeq(s, i + 1, Len(s))
Others(t) == IF at[t] = "line" THEN Without(line, Place(t)) ELSE line

(* The loop of a removed target, out of one of its two selects.             *)
Quit(t) ==
    /\ t \in removed /\ at[t] \in {"line", "sleep"}
    /\ Return(t) /\ line' = Others(t)
    /\ UNCHANGED slot

\* Mutant: the slot goes to any loop that waits.
InAnyOrder(t) == \E i \in DOMAIN line : line[i] = t

Served(t) == line # << >> /\ Head(line) = t

Take(t) ==
    /\ slot = Nobody /\ Served(t)
    /\ slot' = t /\ line' = Others(t)
    /\ at' = [at EXCEPT ![t] = "download"]
    /\ age' = [age EXCEPT ![t] = 0]
    /\ UNCHANGED <<removed, ticker>>

(* The download ends, and its slot is free before anything else is done.    *)
Done(t) ==
    /\ at[t] = "download"
    /\ slot' = Nobody
    /\ IF t \in removed THEN Return(t)
       ELSE at' = [at EXCEPT ![t] = "sleep"] /\ UNCHANGED <<removed, ticker, age>>
    /\ UNCHANGED line

WakeUp(t) ==
    /\ at[t] = "sleep" /\ ticks[t]
    /\ ticks' = [ticks EXCEPT ![t] = FALSE]
    /\ at' = [at EXCEPT ![t] = "line"] /\ line' = Append(line, t)
    /\ UNCHANGED <<slot, removed, due, age>>

(* The clock: a ticker whose last tick is still in its channel drops one.   *)
TputTick ==
    /\ removed = {}
    /\ slot = Nobody => line = << >>
    /\ \A t \in Targets : /\ at[t] = "download" => age[t] < TputTimeout
                          /\ at[t] = "sleep" => ~ticks[t]
    /\ due' = [t \in Targets |-> IF at[t] = "off" THEN due[t]
                                  ELSE IF due[t] = 1 THEN TputInterval ELSE due[t] - 1]
    /\ ticks' = [t \in Targets |-> ticks[t] \/ (at[t] # "off" /\ due[t] = 1)]
    /\ age' = [t \in Targets |-> IF at[t] = "off" \/ age[t] > Bound THEN age[t] ELSE age[t] + 1]
    /\ UNCHANGED <<at, line, slot, removed>>

TputLoop(t) == AddTarget(t) \/ RemoveTarget(t) \/ Quit(t) \/ Take(t) \/ Done(t) \/ WakeUp(t)
TputNext == TputTick \/ \E t \in Targets : TputLoop(t)
TputSpec == TputInit /\ [][TputNext]_tputVars

------------------------------------------------------------------------------
(* Downloads that take turns do not starve a target: however long the       *)
(* others take, come and go, and whatever ticks are dropped meanwhile, the  *)
(* downloads of a target begin at most Bound apart, so every tputInterval   *)
(* as long as all of them fit into one.  (A loop that returns must have     *)
(* given the slot back, and the slot must go to who waits longest.)         *)
NobodyStarves ==
    \A t \in Targets :
        /\ age[t] <= Bound
        /\ at[t] = "download" <=> slot = t
==============================================================================
