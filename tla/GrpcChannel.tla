----------------------------- MODULE GrpcChannel -----------------------------
(***************************************************************************)
(* The gRPC channel of one target (Clients.grpcConn of clients.go, and      *)
(* connectGRPC and waitReady of grpc.go): made by the first cycle, kept for *)
(* all later ones, and judged in each by the states it is seen in.          *)
(*                                                                          *)
(* The channel is grpc-go's, external: NewClient does no I/O; IDLE is left  *)
(* only by Connect or a call; a failed attempt is TRANSIENT_FAILURE and     *)
(* stays so, over the retries after a backoff, until one succeeds; READY    *)
(* falls back to IDLE when the connection is lost or sent away.  A server   *)
(* that is up lets a connection come up within connectTimeout.              *)
(***************************************************************************)
EXTENDS Naturals

CONSTANT MaxLosses      \* bound on the connections lost

LossAssumption == MaxLosses \in Nat

VARIABLES
    up,             \* the server
    losses,
    channel,        \* none, or its connectivity state
    pc,             \* rest (between cycles), found, begun, waiting
    fresh, before,  \* of connectGRPC
    seen,           \* the state waitReady waits to see left
    verdict         \* of the last cycle: none, fresh, reused, recovered or failed

vars == <<up, losses, channel, pc, fresh, before, seen, verdict>>

States == {"idle", "connecting", "ready", "transient-failure"}

Init ==
    /\ up \in BOOLEAN /\ losses = 0
    /\ channel = "none" /\ pc = "rest"
    /\ fresh = FALSE /\ before = "none" /\ seen = "none"
    /\ verdict = "none"

------------------------------------------------------------------------------
(* The server and the channel.                                              *)

Server ==
    /\ up' = ~up
    /\ up => losses < MaxLosses
    /\ losses' = IF up THEN losses + 1 ELSE losses
    /\ channel' = IF up /\ channel = "ready" THEN "idle" ELSE channel
    /\ UNCHANGED <<pc, fresh, before, seen, verdict>>

Lose ==
    /\ channel = "ready" /\ losses < MaxLosses
    /\ channel' = "idle" /\ losses' = losses + 1
    /\ UNCHANGED <<up, pc, fresh, before, seen, verdict>>

Attempt ==
    /\ channel \in {"connecting", "transient-failure"}
    /\ channel' = IF up THEN "ready" ELSE "transient-failure"
    /\ UNCHANGED <<up, losses, pc, fresh, before, seen, verdict>>

------------------------------------------------------------------------------
(* A cycle.                                                                 *)

(* grpcConn, and the state the channel is found in.                         *)
Find ==
    /\ pc = "rest"
    /\ fresh' = (channel = "none")
    /\ channel' = IF channel = "none" THEN "idle" ELSE channel
    /\ before' = channel'
    /\ pc' = "found"
    /\ UNCHANGED <<up, losses, seen, verdict>>

\* Mutant: the channel is left to connect by itself.
ConnectLater ==
    /\ pc = "found"
    /\ pc' = "begun"
    /\ UNCHANGED <<up, losses, channel, fresh, before, seen, verdict>>

Connect ==
    /\ pc = "found"
    /\ channel' = IF channel = "idle" THEN "connecting" ELSE channel
    /\ pc' = "begun"
    /\ UNCHANGED <<up, losses, fresh, before, seen, verdict>>

Judged(v) ==
    /\ pc' = "rest" /\ verdict' = v
    /\ fresh' = FALSE /\ before' = "none" /\ seen' = "none"
    /\ UNCHANGED <<up, losses, channel>>

(* waitReady: ready and failed are verdicts, any other state is waited out. *)
Ready ==
    /\ pc = "begun" /\ channel = "ready"
    /\ Judged(IF fresh THEN "fresh" ELSE IF before = "ready" THEN "reused" ELSE "recovered")

Failed ==
    /\ pc = "begun" /\ channel = "transient-failure"
    /\ Judged("failed")

Wait ==
    /\ pc = "begun" /\ channel \in {"idle", "connecting"}
    /\ pc' = "waiting" /\ seen' = channel
    /\ UNCHANGED <<up, losses, channel, fresh, before, verdict>>

StateChange ==
    /\ pc = "waiting" /\ channel # seen
    /\ pc' = "begun" /\ seen' = "none"
    /\ UNCHANGED <<up, losses, channel, fresh, before, verdict>>

(* connectTimeout.                                                          *)
Expire ==
    /\ pc = "waiting" /\ channel = seen
    /\ channel = "connecting" => ~up
    /\ Judged("failed")

Cycle == Find \/ Connect \/ Ready \/ Failed \/ Wait \/ StateChange \/ Expire
Next == Server \/ Lose \/ Attempt \/ Cycle
Spec == Init /\ [][Next]_vars

(* main.go begins a cycle every interval, and grpc-go retries on its own.   *)
Fairness == WF_vars(Cycle) /\ WF_vars(Attempt)
LiveSpec == Spec /\ Fairness

------------------------------------------------------------------------------
(* The channel that outlives the cycles does not hold a failure for good:   *)
(* however often the server went away and its connections were lost, in     *)
(* whatever step of a cycle, once it stays up the cycles succeed again,     *)
(* and every one from some time on.                                         *)
ChannelComesBack == <>[]up => <>[](verdict \in {"fresh", "reused", "recovered"})
==============================================================================
