---------------------------- MODULE MCNetParts -------------------------------
(***************************************************************************)
(* The measurements of netcheck that share nothing but the host they are    *)
(* about, for TLC, side by side in one run: the long connection, the route  *)
(* traces and their loop, the downloads and the DNS check.  A behavior      *)
(* picks one of them, and the others rest.                                  *)
(***************************************************************************)
EXTENDS LongSession, Tracer, TraceLoop, Throughput, DnsCheck

VARIABLE part

Links(mtus) == [i \in 0 .. Len(mtus) - 1 |-> mtus[i + 1]]

(* Two routes that differ in a router and share the target, with the tight  *)
(* link at the end and at the beginning; and one where a router names no    *)
(* MTU and a firewall that quotes no payload ends the path.                 *)
MCRoutes ==
    {[path |-> <<"a", "b">>, links |-> Links(<<620, 620, 600>>), from |-> "d", end |-> "reached"],
     [path |-> <<"a", "c">>, links |-> Links(<<610, 610, 600>>), from |-> "d", end |-> "reached"],
     [path |-> <<"v">>, links |-> Links(<<620, 600>>), from |-> "w", end |-> "unreachable"]}

ASSUME NetAssumption == TracerAssumption /\ RouteAssumption

others == <<loopVars, tputVars, dnsVars>>
netVars == <<part, vars, traceVars, others>>

NetInit ==
    /\ part \in {"session", "trace", "loop", "download", "dns"}
    /\ Init /\ TraceInit /\ LoopInit /\ TputInit /\ DnsInit
    /\ part # "trace" => route = CHOOSE r \in MCRoutes : TRUE

NetNext ==
    /\ UNCHANGED part
    /\ \/ part = "session" /\ Next /\ UNCHANGED <<traceVars, others>>
       \/ part = "trace" /\ TraceNext /\ UNCHANGED <<vars, others>>
       \/ part = "loop" /\ LoopNext /\ UNCHANGED <<vars, traceVars, tputVars, dnsVars>>
       \/ part = "download" /\ TputNext /\ UNCHANGED <<vars, traceVars, loopVars, dnsVars>>
       \/ part = "dns" /\ DnsNext /\ UNCHANGED <<vars, traceVars, loopVars, tputVars>>

NetSpec == NetInit /\ [][NetNext]_netVars
==============================================================================
