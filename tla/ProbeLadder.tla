----------------------------- MODULE ProbeLadder -----------------------------
(***************************************************************************)
(* One run of the probe ladder on one target (probe.Run): the lines that    *)
(* come back to the cycle, whatever the network and the servers answered,   *)
(* and what they tell its reader.                                           *)
(***************************************************************************)
EXTENDS Ladders

VARIABLES
  kind,    \* of the target
  opts,    \* the credentials
  lines    \* one run of the ladder

ladderVars == <<kind, opts, lines>>

Credentials == [token: {"none", "jwt", "pat"}, apiKey: BOOLEAN, expects: BOOLEAN]

LadderInit ==
  /\ kind \in {"https", "grpc"}
  /\ opts \in Credentials
  /\ lines \in ProbeRuns(kind, opts)

(* The lines of a run that is over stay as they are.                        *)
LadderSpec == LadderInit /\ [][UNCHANGED ladderVars]_ladderVars

------------------------------------------------------------------------------

Has(stages) == \E i \in DOMAIN lines : lines[i].stage \in stages
Fine(s) == \E i \in DOMAIN lines : lines[i] = Line(s, TRUE)
Dials == {i \in DOMAIN lines : lines[i].stage = "tcp"}

(* Each stage consumes the previous one's artifact, so a failure names its  *)
(* layer: no address is dialled of a family that did not resolve, nothing   *)
(* is negotiated without a connection, no verdict is passed on what was not *)
(* presented, and the identity stages follow an accepted credential.        *)
FailureNamesItsLayer ==
  /\ \A d \in Dials :
       \E i \in DOMAIN lines : lines[i] = FamilyLine("dns", lines[d].family, TRUE)
  /\ Has({"tls"}) => \E d \in Dials : lines[d].ok
  /\ Has({"cert", "chain", "http2", "redirect", "grpc"}) => Fine("tls")
  /\ Fine("chain") => Fine("cert")
  /\ Has({"health", "temporal", "namespace", "longpoll"}) => Fine("grpc")
  /\ Has({"namespace"}) <=> Has({"longpoll"})
  /\ Has({"auth"}) /\ Has({"tenant"}) => Fine("auth")

(* A ladder that stopped early says so: a run without a FAIL line went all  *)
(* the way, so the target answered on its own protocol, and every           *)
(* credential that was given has had its verdict, the cross-check of the    *)
(* tenant included.                                                         *)
CleanMeansAnswered ==
  lines # <<>> /\ (\A i \in DOMAIN lines : lines[i].ok) =>
    /\ Fine("chain")
    /\ IF kind = "grpc" THEN Fine("health") ELSE Fine("redirect")
    /\ kind = "grpc" /\ opts.apiKey => Fine("namespace") /\ Fine("longpoll")
    /\ kind = "https" /\ opts.token # "none" =>
         Cardinality({i \in DOMAIN lines : lines[i].stage = "tenant"})
           = IF opts.expects THEN 2 ELSE 1
==============================================================================
