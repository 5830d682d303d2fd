------------------------------- MODULE Startup -------------------------------
(***************************************************************************)
(* What run() in main.go decides before the first cycle: from the command   *)
(* line, the environment and the files they name to either an exit code or  *)
(* the configuration the loop runs under. Every refusal happens here, in    *)
(* this order; nothing is probed, printed or measured before it.            *)
(***************************************************************************)
EXTENDS Naturals, Sequences, FiniteSets

CONSTANTS
  Envs,       \* the names --env can be given
  Pair,       \* target.Resolve: the two targets of an env, <<>> if unknown
  DeniedTargets   \* the targets whose host is on the denylist

exitOK == 0
exitFailure == 1
exitUsage == 2

(* Args: secret - an argument that looks like --token or --api-key;         *)
(* parses - the flag set accepts the rest and nothing is left over;         *)
(* netcheckFlags - a netcheck sub-flag was given; hosts - its list parses;  *)
(* tokenFile - not given, unreadable, blank or holding a credential;        *)
(* tokens - the credential variables in order; printCfg - Validate passes.  *)
Tokens == {"none", "jwt", "pat"}
Args == [secret: BOOLEAN, parses: BOOLEAN, version: BOOLEAN, envs: Seq(Envs),
         netcheck: BOOLEAN, netcheckFlags: BOOLEAN, hosts: BOOLEAN,
         tokenFile: {"unset", "unreadable"} \cup Tokens, tokens: Seq(Tokens),
         apiKey: BOOLEAN, expects: BOOLEAN, print: BOOLEAN, printCfg: BOOLEAN]

Quit(code) == [runs |-> FALSE, code |-> code]

\* Mutant of Targets: without the addresses already seen.
TargetsRepeated(envs) ==
  LET upTo[i \in 0..Len(envs)] == IF i = 0 THEN <<>> ELSE upTo[i - 1] \o Pair[envs[i]]
  IN upTo[Len(envs)]

\* The targets of the envs, in order, each address once.
Targets(envs) ==
  LET add(seen, t) == IF \E i \in DOMAIN seen : seen[i] = t THEN seen
                      ELSE Append(seen, t)
      upTo[i \in 0..Len(envs)] ==
        IF i = 0 THEN <<>>
        ELSE LET pair == Pair[envs[i]] IN add(add(upTo[i - 1], pair[1]), pair[2])
  IN upTo[Len(envs)]
UnknownEnv(envs) == \E i \in DOMAIN envs : Pair[envs[i]] = <<>>
Denied(envs) ==
  \E i \in DOMAIN envs : \E j \in 1..2 : Pair[envs[i]][j] \in DeniedTargets
BadTargets(a) ==
  IF UnknownEnv(a.envs) THEN TRUE ELSE a.envs = <<>> \/ Denied(a.envs)

BadFlags(a) ==
  \/ a.secret
  \/ ~a.parses
  \/ ~a.netcheck /\ a.netcheckFlags
  \/ a.netcheck /\ ~a.hosts

\* An explicit file beats the environment; there the first one set wins.
Token(a) ==
  LET set == {i \in DOMAIN a.tokens : a.tokens[i] # "none"}
  IN IF a.tokenFile \in Tokens THEN a.tokenFile
     ELSE IF set = {} THEN "none"
     ELSE a.tokens[CHOOSE i \in set : \A j \in set : i <= j]
BadToken(a) == a.tokenFile \in {"unreadable", "none"}

Start(a) ==
  IF BadFlags(a) THEN Quit(exitUsage)
  ELSE IF a.version THEN Quit(exitOK)
  ELSE IF BadTargets(a) \/ BadToken(a) \/ (a.print /\ ~a.printCfg) THEN Quit(exitUsage)
  ELSE [runs |-> TRUE, targets |-> Targets(a.envs), printing |-> a.print,
        netcheck |-> a.netcheck,
        creds |-> [token |-> Token(a), apiKey |-> a.apiKey, expects |-> a.expects]]
==============================================================================
