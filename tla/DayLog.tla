------------------------------- MODULE DayLog -------------------------------
(***************************************************************************)
(* What the netcheck files promise, without buffers, handles or renames:   *)
(* one log of records per UTC day.  A record is appended once, becomes     *)
(* durable in the order it was appended, and is never taken back once it   *)
(* is durable.  A day that has been sent has reached the receiver whole    *)
(* and takes no further records.                                           *)
(***************************************************************************)
EXTENDS Integers, Sequences

CONSTANTS Day, Rec

VARIABLES
    log,      \* the records of each day, durable or not
    durable,  \* how many of them are on disk
    sent      \* the days the receiver has, marked sent on disk

vars == <<log, durable, sent>>

TypeOK ==
    /\ log \in [Day -> Seq(Rec)]
    /\ durable \in [Day -> Nat]
    /\ sent \subseteq Day

Init ==
    /\ log = [d \in Day |-> << >>]
    /\ durable = [d \in Day |-> 0]
    /\ sent = {}

(* Records that become durable, which any step may do in passing. *)
Settle ==
    durable' \in [Day -> Nat] /\ \A d \in Day : durable'[d] \in durable[d] .. Len(log'[d])

Append1(d, r) ==
    /\ d \notin sent
    /\ \A e \in Day : \A i \in 1 .. Len(log[e]) : log[e][i] # r
    /\ log' = [log EXCEPT ![d] = Append(@, r)]
    /\ Settle
    /\ UNCHANGED sent

Sync ==
    /\ Settle
    /\ UNCHANGED <<log, sent>>

Send(d) ==
    /\ d \notin sent
    /\ durable[d] = Len(log[d])
    /\ sent' = sent \cup {d}
    /\ UNCHANGED <<log, durable>>

(* A crash or a restart takes what is not durable yet, and nothing else. *)
Crash ==
    /\ log' = [d \in Day |-> SubSeq(log[d], 1, durable[d])]
    /\ UNCHANGED <<durable, sent>>

Next ==
    \/ \E d \in Day, r \in Rec : Append1(d, r)
    \/ Sync
    \/ \E d \in Day : Send(d)
    \/ Crash

Spec == Init /\ [][Next]_vars
=============================================================================
