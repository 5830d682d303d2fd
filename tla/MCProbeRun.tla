----------------------------- MODULE MCProbeRun ------------------------------
(***************************************************************************)
(* ProbeRun with the ladders of module Ladders and the startup of module    *)
(* Startup, on small instances: up to two environments sharing a target,    *)
(* one of each kind of bad command line, and the runs of a ladder a         *)
(* configuration wants to see (all of them, or those with few failures).    *)
(***************************************************************************)
EXTENDS ProbeRun, Ladders, Startup

CONSTANTS
  wf, app, other,   \* a Temporal frontend and two app domains
  ArgSet,           \* the command lines tried
  Chosen(_)         \* the ladder runs tried

Ipv4 == <<"ip4">>

MCEnvs == {"dev", "test", "typo", "storage"}
MCPair == [dev |-> <<wf, app>>, test |-> <<wf, other>>, typo |-> <<>>,
           storage |-> <<wf, "denied">>]
MCDenied == {"denied"}

Base ==
  [secret |-> FALSE, parses |-> TRUE, version |-> FALSE, envs |-> <<"dev">>,
   netcheck |-> TRUE, netcheckFlags |-> FALSE, hosts |-> TRUE,
   tokenFile |-> "unset", tokens |-> <<"none", "none", "none">>,
   apiKey |-> FALSE, expects |-> FALSE, print |-> FALSE, printCfg |-> TRUE]
Refused ==
  {[Base EXCEPT !.secret = TRUE], [Base EXCEPT !.parses = FALSE],
   [Base EXCEPT !.netcheck = FALSE, !.netcheckFlags = TRUE],
   [Base EXCEPT !.hosts = FALSE], [Base EXCEPT !.version = TRUE],
   [Base EXCEPT !.envs = <<>>], [Base EXCEPT !.envs = <<"dev", "typo">>],
   [Base EXCEPT !.envs = <<"storage">>], [Base EXCEPT !.tokenFile = "unreadable"],
   [Base EXCEPT !.tokenFile = "none"],
   [Base EXCEPT !.print = TRUE, !.printCfg = FALSE]}
RunArgs ==
  Refused \cup {[Base EXCEPT !.print = TRUE],
                [Base EXCEPT !.envs = <<"dev", "test">>, !.netcheck = FALSE]}
Failing(r) == Cardinality({i \in DOMAIN r : ~r[i].ok})
\* A run that stops at tls, or one that goes through without a fault.
Extreme(r) == IF r[Len(r)].stage = "tls" THEN ~r[1].ok \/ Failing(r) = 1 ELSE Failing(r) = 0

MCStarts == {Start(a) : a \in ArgSet}
MCRuns == {s \in MCStarts : s.runs}
MCCreds == {s.creds : s \in MCRuns}
MCTargets == UNION {{s.targets[i] : i \in DOMAIN s.targets} : s \in MCRuns}
MCLadder ==
  [c \in MCCreds |-> [t \in MCTargets |-> [over \in BOOLEAN |->
     IF over THEN {CancelledRun}
     ELSE {r \in ProbeRuns(IF t = wf THEN "grpc" ELSE "https", c) : Chosen(r)}]]]
MCPrintLadder ==
  [over \in BOOLEAN |-> IF over THEN CancelledPrintRuns ELSE PrintRuns]
==============================================================================
