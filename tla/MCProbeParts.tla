---------------------------- MODULE MCProbeParts -----------------------------
(***************************************************************************)
(* The parts around one probe cycle that share nothing, for TLC, side by    *)
(* side in one run: the polls that the longpoll stages observe, the gRPC    *)
(* channel of a target, one run of the ladder, and the updater that swaps   *)
(* the binary. A behavior picks one of them, and the others rest.           *)
(***************************************************************************)
EXTENDS LongPoll, ProbeLadder, Updater, TLC

VARIABLES
  part,
  up, losses, channel, pc, fresh, before, seen, verdict

Dual == <<"ip4", "ip6">>

G == INSTANCE GrpcChannel WITH MaxLosses <- 2

ASSUME ProbeAssumption == G!LossAssumption /\ UpdaterAssumption

grpcVars == <<up, losses, channel, pc, fresh, before, seen, verdict>>
partVars == <<part, vars, ladderVars, grpcVars, updaterVars>>

PartInit ==
  /\ part \in {"polls", "channel", "ladder", "updater"}
  /\ Init /\ G!Init /\ UpdaterInit
  /\ part # "channel" => ~up
  /\ IF part = "ladder"
       THEN LadderInit
       ELSE kind = "none" /\ opts = <<>> /\ lines = <<>>

PartNext ==
  /\ UNCHANGED <<part, ladderVars>>
  /\ \/ part = "polls" /\ Next /\ UNCHANGED <<grpcVars, updaterVars>>
     \/ part = "channel" /\ G!Next /\ UNCHANGED <<vars, updaterVars>>
     \/ part = "updater" /\ UpdaterNext /\ UNCHANGED <<vars, grpcVars>>

(* The fairness of module GrpcChannel and of module Updater, each while its *)
(* part is the one that acts.                                               *)
PartFairness ==
  /\ WF_grpcVars(part = "channel" /\ G!Cycle)
  /\ WF_grpcVars(part = "channel" /\ G!Attempt)
  /\ WF_updaterVars(part = "updater" /\ \E r \in Runners : Begin(r))
  /\ WF_updaterVars(part = "updater" /\ \E r \in Runners : Step(r))

PartSpec == PartInit /\ [][PartNext]_partVars /\ PartFairness

(* The property of the channel, stated in its module.                       *)
ChannelComesBack == G!ChannelComesBack
==============================================================================
