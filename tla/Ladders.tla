------------------------------- MODULE Ladders -------------------------------
(***************************************************************************)
(* The two ladders of stages, as the sets of line sequences they can print: *)
(* the probe ladder of internal/probe (probe.Run on one target) and the     *)
(* print ladder of internal/printcheck (printcheck.Run, behind --print).    *)
(* A line is one report.Result, reduced to its stage and its status; what   *)
(* the network, the servers and the printer answer is left free.            *)
(*                                                                          *)
(* main.go never sets Options.Insecure or Options.NamespaceFlag and has no  *)
(* flag that names a target, so the plaintext branch, --namespace and the   *)
(* IP-literal branch of dnsStage are not reachable and not modelled.        *)
(***************************************************************************)
EXTENDS Naturals, Sequences, FiniteSets

CONSTANTS
  Families,   \* the address families looked up, in order (probe.families)
  Addresses   \* bound: the most addresses one family resolves to

ASSUME FamiliesAssumption == Families \in Seq(STRING)
ASSUME AddressesAssumption == Addresses \in Nat \ {0}

\* The dns and tcp stages name a family, by its place in Families; 0 is none.
Line(stage, ok) == [stage |-> stage, family |-> 0, ok |-> ok]
FamilyLine(stage, i, ok) == [Line(stage, ok) EXCEPT !.family = i]

\* A stage that may go either way, and the two ways stages follow each other:
\* the next consumes the artifact of this one, or both run whatever happens.
Either(stage) == {<<Line(stage, TRUE)>>, <<Line(stage, FALSE)>>}
Passed(run) == run[Len(run)].ok
Consumes(runs, more) ==
  {r \in runs : ~Passed(r)}
    \cup {r \o s : r \in {x \in runs : Passed(x)}, s \in more}
Beside(runs, more) == {r \o s : r \in runs, s \in more}

------------------------------------------------------------------------------
(* dns and tcp: one line per family, then one per address of every family   *)
(* that resolved. A family without a record fails only if nothing resolves. *)

Lookups == [DOMAIN Families -> {"found", "absent", "error"}]
Resolved(lookup) == {i \in DOMAIN Families : lookup[i] = "found"}
\* Mutant of DnsLine: a missing record is never a failure.
DnsLineLenient(lookup, i) == FamilyLine("dns", i, lookup[i] # "error")
Resolves(lookup, i) ==
  \/ lookup[i] = "found"
  \/ lookup[i] = "absent" /\ Resolved(lookup) # {}
DnsLine(lookup, i) == FamilyLine("dns", i, Resolves(lookup, i))
DnsLines(lookup) == [i \in DOMAIN Families |-> DnsLine(lookup, i)]

\* One dial for every address of every family that resolved, in their order.
Dialled(lookup) ==
  {FamilyLine("tcp", i, ok) : i \in Resolved(lookup), ok \in BOOLEAN}
FamilyDials(dials, i) == {k \in DOMAIN dials : dials[k].family = i}
TcpRuns(lookup) ==
  {dials \in UNION {[1..n -> Dialled(lookup)] : n \in 0..(Len(Families) * Addresses)} :
     /\ \A j, k \in DOMAIN dials : j < k => dials[j].family <= dials[k].family
     /\ \A i \in Resolved(lookup) : Cardinality(FamilyDials(dials, i)) \in 1..Addresses}
\* The first connection that came up is kept for the tls stage. (Mutant: the
\* ladder goes on without one.)
KeptAnyway(dials) == TRUE
Kept(dials) == \E i \in DOMAIN dials : dials[i].ok

------------------------------------------------------------------------------
(* tls, cert and chain: the handshake verifies nothing, the two verdicts    *)
(* are each reached whatever the other says.                                *)

CertChainRuns ==
  {<<Line("cert", dates /\ name), Line("chain", dates /\ path /\ name)>> :
     dates \in BOOLEAN, name \in BOOLEAN, path \in BOOLEAN}

(* The pyck identity: a JWT names its tenant offline, an opaque token is    *)
(* resolved by GetMe; the tenant is compared with what the operator set.    *)

CrossCheck(opts) == IF opts.expects THEN Either("tenant") ELSE {<<>>}
TenantRuns(opts) == Consumes(Either("tenant"), CrossCheck(opts))
PyckRuns(opts) ==
  CASE opts.token = "none" -> {<<>>}
    [] opts.token = "jwt"  -> TenantRuns(opts)
    [] opts.token = "pat"  -> Consumes(Either("auth"), TenantRuns(opts))

(* The Temporal half: the client of a target is lazy and its configuration  *)
(* can be refused; the system-info, namespace and long-poll verdicts do not *)
(* wait for each other, nor for the health verdict.                         *)

TemporalRuns(opts) ==
  IF ~opts.apiKey THEN {<<>>}
  ELSE {<<Line("temporal", FALSE)>>}
         \cup Beside(Either("temporal"),
                     Beside(Either("namespace"), Either("longpoll")))
GrpcRuns(opts) ==
  Consumes(Either("grpc"), Beside(Either("health"), TemporalRuns(opts)))

ProtocolRuns(kind, opts) ==
  CASE kind = "https" ->
         Beside(Either("http2"), Beside(Either("redirect"), PyckRuns(opts)))
    [] kind = "grpc" -> GrpcRuns(opts)

ProbeRuns(kind, opts) ==
  LET connected == Consumes(Either("tls"),
                            Beside(CertChainRuns, ProtocolRuns(kind, opts)))
      on(lookup) == UNION {IF Kept(dials) THEN Beside({dials}, connected)
                           ELSE {dials} : dials \in TcpRuns(lookup)}
  IN UNION {Beside({DnsLines(lookup)}, on(lookup)) : lookup \in Lookups}

\* Under a context that is already over every lookup errs.
CancelledRun == DnsLines([i \in DOMAIN Families |-> "error"])

------------------------------------------------------------------------------
(* The print ladder. Every stage consumes the previous one. fax: the lines  *)
(* are stored; job: what the spooler took, which it takes at Close, also on *)
(* the failure path that closes a partly written file.                      *)

Printing(lines, fax, job) == [lines |-> lines, fax |-> fax, job |-> job]
PrintStages == <<"krb5", "spn", "smb", "share", "fax", "zpl">>
PassedTo(k) == [i \in 1..k |-> Line(PrintStages[i], TRUE)]
\* The service may have stored the fax and its answer still be refused.
FailedAt(k) ==
  {Printing(Append(PassedTo(k - 1), Line(PrintStages[k], FALSE)), fax, "none") :
     fax \in IF k > 5 THEN {TRUE} ELSE IF k = 5 THEN BOOLEAN ELSE {FALSE}}
\* Write fails or is short and the file is closed all the same; Close fails
\* with the job taken or not; or all is well.
Submits ==
  {<<FALSE, "none">>, <<FALSE, "part">>, <<FALSE, "whole">>, <<TRUE, "whole">>}
PrintRuns ==
  (UNION {FailedAt(k) : k \in DOMAIN PrintStages})
    \cup {Printing(Append(PassedTo(Len(PrintStages)), Line("submit", s[1])), TRUE, s[2]) :
            s \in Submits}
\* Kerberos does not see the context; the first dial that does is smb's.
CancelledPrintRuns == FailedAt(1) \cup FailedAt(2) \cup FailedAt(3)
==============================================================================
