------------------------------- MODULE Tracer --------------------------------
(***************************************************************************)
(* One target's route traces (trace_linux.go, and routeChanged and the      *)
(* record of trace.go): UDP probes of growing TTL, the ICMP errors the      *)
(* kernel queues for the socket, the search for the path MTU, and the       *)
(* comparison of a trace with the one before.                               *)
(*                                                                          *)
(* The network is external: every probe is answered once or never, by the   *)
(* router, the destination or the tight link its TTL and size lead to on    *)
(* the route of the moment, and the answer takes any time, so it may come   *)
(* when later probes are out.  The route may change in mid-trace.           *)
(*                                                                          *)
(* Sockets are opened with IP_PMTUDISC_PROBE: only a probe larger than the   *)
(* local link is refused.  Wall time is left out: a wait may end any time.  *)
(***************************************************************************)
EXTENDS Integers, Sequences, FiniteSets

CONSTANTS
    Routes,         \* the routes to the target, see RouteAssumption
    Brief,          \* addresses whose ICMP errors quote no payload
    Vague,          \* addresses whose too-big errors name no MTU
    Starts,         \* path MTUs the kernel may have cached (IP_MTU)
    MaxHops, ProbesPerHop, MaxSilent, MinMTU, Headers,
                    \* maxHops, probesPerHop, maxSilent, minMTU, udpIPHeaders
    MaxWire,        \* bound on the answers under way, later ones being lost
    MaxTraces,      \* bound on the traces
    MaxReroutes     \* bound on the changes of route

TracerAssumption ==
    /\ MaxHops \in Nat \ {0} /\ ProbesPerHop \in Nat \ {0} /\ MaxSilent \in Nat \ {0}
    /\ MinMTU \in Nat /\ Headers \in Nat \ {0}
    /\ Starts \subseteq Nat /\ MaxWire \in Nat /\ MaxTraces \in Nat /\ MaxReroutes \in Nat

(* path: the routers in TTL order; links: the MTU of the link to the first  *)
(* router (0), and out of router i; from, end: who answers a probe that got *)
(* through, and how.                                                        *)
RouteAssumption ==
    \A r \in Routes :
        /\ r = [path |-> r.path, links |-> r.links, from |-> r.from, end |-> r.end]
        /\ r.path \in Seq(STRING \ {""}) /\ r.from \in STRING \ {""}
        /\ r.links \in [0 .. Len(r.path) -> Nat]
        /\ r.end \in {"reached", "unreachable", "dropped"}

VARIABLES
    route,      \* the route now
    seen,       \* the routes since the trace began
    rerouted,   \* how often the route changed
    wire,       \* answers under way
    queue,      \* the socket's error queue
    phase,         \* idle, send, wait, toobig (write said EMSGSIZE), done or failed
    start, mtu, \* the probes' MTU, at the start of the trace and now
    ttl, try, seq, silent,
    hops,       \* the addresses found so far, "" for a TTL that stayed silent
    reached,
    prev,       \* traceLoop's prev: the records of no or one trace
    changed,    \* the last record says route-changed
    traces      \* traces begun

net == <<route, seen, rerouted>>
found == <<hops, reached, silent, ttl>>
record == <<prev, changed, traces, start>>
traceVars == <<net, wire, queue, phase, mtu, try, seq, found, record>>

TraceInit ==
    /\ route \in Routes /\ seen = {route} /\ rerouted = 0
    /\ wire = {} /\ queue = << >>
    /\ phase = "idle"
    /\ start = 0 /\ mtu = 0 /\ ttl = 1 /\ try = 0 /\ seq = 0 /\ silent = 0
    /\ hops = << >> /\ reached = FALSE
    /\ prev = << >> /\ changed = FALSE /\ traces = 0

------------------------------------------------------------------------------
(* The network and the kernel.                                              *)

Entry(n, kind, from, info) == [seq |-> n, kind |-> kind, from |-> from, info |-> info]

(* The answers to probe n: from the first router whose next link is too     *)
(* small, else the router where the TTL ends, else the end of the path.     *)
Answers(n, hop, size) ==
    LET tight == {i \in DOMAIN route.path : i < hop /\ size > route.links[i]}
    IN IF tight # {}
       THEN {Entry(n, "toobig", route.path[i],
                   IF route.path[i] \in Vague THEN 0 ELSE route.links[i]) :
                i \in {j \in tight : \A k \in tight : j <= k}}
       ELSE IF hop \in DOMAIN route.path THEN {Entry(n, "hop", route.path[hop], 0)}
       ELSE IF route.end = "dropped" THEN {}
       ELSE {Entry(n, route.end, route.from, 0)}

(* An answer arrives: the kernel queues it with the payload it quotes.      *)
Arrive(e) ==
    /\ e \in wire
    /\ wire' = wire \ {e} /\ queue' = Append(queue, e)
    /\ UNCHANGED <<net, phase, mtu, try, seq, found, record>>

Reroute(r) ==
    /\ r # route /\ rerouted < MaxReroutes
    /\ route' = r /\ rerouted' = rerouted + 1 /\ seen' = seen \cup {r}
    /\ UNCHANGED <<wire, queue, phase, mtu, try, seq, found, record>>

------------------------------------------------------------------------------
(* traceRoute opens its own socket. *)
Begin(m) ==
    /\ phase = "idle" /\ traces < MaxTraces
    /\ m <= route.links[0]
    /\ phase' = "send" /\ start' = m /\ mtu' = m
    /\ seen' = {route} /\ changed' = FALSE /\ traces' = traces + 1
    /\ UNCHANGED <<route, rerouted, wire, queue, try, seq, found, prev>>

(* hop and send: the queue is drained, what it said is lost, and the probe  *)
(* goes out, to be answered or not.                                         *)
SendProbe ==
    /\ phase = "send"
    /\ mtu <= route.links[0]
    /\ phase' = "wait" /\ seq' = seq + 1 /\ queue' = << >>
    /\ \/ UNCHANGED wire
       \/ Cardinality(wire) < MaxWire /\ wire' = wire \cup Answers(seq', ttl, mtu)
    /\ UNCHANGED <<net, mtu, try, found, record>>

(* The probe is too large for the local link: the queue says by how much.   *)
Oversize ==
    /\ phase = "send"
    /\ mtu > route.links[0]
    /\ phase' = "toobig" /\ seq' = seq + 1
    /\ queue' = <<Entry(seq', "toobig", "", route.links[0])>>
    /\ UNCHANGED <<net, wire, mtu, try, found, record>>

Greater(a, b) == IF a > b THEN a ELSE b

\* Mutant: the MTU an answer names is not used.
Guessed(info) == Greater(MinMTU, mtu - Headers)

(* lower: to the MTU named, or down by a header's worth.  A start below     *)
(* minMTU is raised.                                                        *)
Lowered(info) ==
    IF info >= MinMTU /\ info < mtu THEN info ELSE Greater(MinMTU, mtu - Headers)

(* The TTL is done with: the next one, unless the trace ends here.          *)
NextHop(ip, ends, quiet) ==
    /\ hops' = Append(hops, ip)
    /\ silent' = quiet
    /\ try' = 0
    /\ IF ends \/ quiet = MaxSilent \/ ttl = MaxHops
       THEN phase' = "done" /\ UNCHANGED ttl
       ELSE phase' = "send" /\ ttl' = ttl + 1

(* A try is used up; after the last one the TTL stays silent.               *)
Tried ==
    /\ UNCHANGED reached
    /\ IF try + 1 < ProbesPerHop
       THEN phase' = "send" /\ try' = try + 1 /\ UNCHANGED <<hops, silent, ttl>>
       ELSE NextHop("", FALSE, silent + 1)

(* A smaller probe, which costs a try only when it is no smaller.           *)
Shrink(info) ==
    /\ mtu' = Lowered(info)
    /\ IF mtu' < mtu THEN phase' = "send" /\ UNCHANGED <<try, found>> ELSE Tried

(* After EMSGSIZE, drain: the last MTU the queue names.                     *)
Drain ==
    /\ phase = "toobig"
    /\ LET big == {i \in DOMAIN queue : queue[i].kind = "toobig"}
       IN \E i \in big : (\A j \in big : j <= i) /\ Shrink(queue[i].info)
    /\ queue' = << >>
    /\ UNCHANGED <<net, wire, seq, record>>

\* Mutant: any entry is taken for the answer.
AnyEntry(e) == TRUE

(* wait: an answer is ours if it quotes our probe, or nothing.              *)
Ours(e) == e.from \in Brief \/ e.seq = seq

Skip ==
    /\ phase = "wait" /\ queue # << >> /\ ~Ours(Head(queue))
    /\ queue' = Tail(queue)
    /\ UNCHANGED <<net, wire, phase, mtu, try, seq, found, record>>

TooBig ==
    /\ phase = "wait" /\ queue # << >> /\ Ours(Head(queue)) /\ Head(queue).kind = "toobig"
    /\ Shrink(Head(queue).info)
    /\ queue' = Tail(queue)
    /\ UNCHANGED <<net, wire, seq, record>>

HopFound ==
    /\ phase = "wait" /\ queue # << >> /\ Ours(Head(queue)) /\ Head(queue).kind # "toobig"
    /\ NextHop(Head(queue).from, Head(queue).kind \in {"reached", "unreachable"}, 0)
    /\ reached' = (Head(queue).kind = "reached")
    /\ queue' = Tail(queue)
    /\ UNCHANGED <<net, wire, mtu, seq, record>>

Timeout ==
    /\ phase = "wait"
    /\ Tried
    /\ UNCHANGED <<net, wire, queue, mtu, seq, record>>

(* traceTimeout, or a socket that fails: a record with an error.            *)
Fail ==
    /\ phase \in {"send", "wait"}
    /\ phase' = "failed" /\ hops' = Append(hops, "")
    /\ UNCHANGED <<net, wire, queue, mtu, try, seq, reached, silent, ttl, record>>

------------------------------------------------------------------------------
(* traceLoop's record.                                                      *)

Cur == [hops |-> hops, reached |-> reached, seen |-> seen]

\* Mutant: a TTL that did not answer differs from one that did.
ChangedBySilence(a, b) ==
    \/ \E i \in DOMAIN a.hops \cap DOMAIN b.hops : a.hops[i] # b.hops[i]
    \/ a.reached /\ b.reached /\ Len(a.hops) # Len(b.hops)

RouteChanged(a, b) ==
    \/ \E i \in DOMAIN a.hops \cap DOMAIN b.hops : a.hops[i] # b.hops[i] /\ "" \notin {a.hops[i], b.hops[i]}
    \/ a.reached /\ b.reached /\ Len(a.hops) # Len(b.hops)

(* The trace and its socket are gone, and with it what is still to arrive.  *)
Closed ==
    /\ phase' = "idle" /\ wire' = {} /\ queue' = << >>
    /\ ttl' = 1 /\ try' = 0 /\ seq' = 0 /\ silent' = 0 /\ hops' = << >> /\ reached' = FALSE
    /\ UNCHANGED <<net, mtu, start, traces>>

Record ==
    /\ phase = "done"
    /\ changed' = \E i \in DOMAIN prev : RouteChanged(prev[i], Cur)
    /\ prev' = <<Cur>>
    /\ Closed

RecordError ==
    /\ phase = "failed"
    /\ Closed
    /\ UNCHANGED <<prev, changed>>

Network == (\E e \in wire : Arrive(e)) \/ (\E r \in Routes : Reroute(r))
Probe == SendProbe \/ Oversize \/ Drain \/ Skip \/ TooBig \/ HopFound \/ Timeout \/ Fail
TraceNext == Network \/ (\E m \in Starts : Begin(m)) \/ Probe \/ Record \/ RecordError

TraceSpec == TraceInit /\ [][TraceNext]_traceVars

------------------------------------------------------------------------------
Addresses == {""} \cup {r.from : r \in Routes}
                  \cup UNION {{r.path[i] : i \in DOMAIN r.path} : r \in Routes}
EntryType == [seq: Nat, kind: {"toobig", "hop", "reached", "unreachable"},
              from: Addresses, info: Nat]
RecordType == [hops: Seq(Addresses), reached: BOOLEAN, seen: SUBSET Routes]

TraceTypeOK ==
    /\ route \in Routes /\ seen \subseteq Routes /\ rerouted \in Nat
    /\ wire \subseteq EntryType /\ queue \in Seq(EntryType)
    /\ phase \in {"idle", "send", "wait", "toobig", "done", "failed"}
    /\ start \in Nat /\ mtu \in Nat
    /\ ttl \in 1 .. MaxHops /\ try \in 0 .. ProbesPerHop - 1 /\ seq \in Nat /\ silent \in Nat
    /\ hops \in Seq(Addresses) /\ reached \in BOOLEAN
    /\ prev \in Seq(RecordType) /\ changed \in BOOLEAN /\ traces \in Nat

(* An address stands at its own TTL: whatever arrives late, out of order or *)
(* after the route changed, a hop that quotes its probes is recorded at the *)
(* distance it has on a route in force during the trace (wait skips what    *)
(* quotes another probe).                                                   *)
At(r, i, ip) == IF i \in DOMAIN r.path THEN r.path[i] = ip ELSE r.from = ip
HopsAreTheirRouters ==
    \A i \in DOMAIN hops : hops[i] \in Brief \cup {""} \/ \E r \in seen : At(r, i, hops[i])

(* A trace that reached the destination over one route ends with the path   *)
(* MTU of that route, if its answers quote their probes and name the MTU:   *)
(* late, lost and reordered too-big answers do not make it smaller, nor do  *)
(* they leave it too large.                                                 *)
Clear(r) ==
    /\ \A i \in DOMAIN r.path : r.path[i] \notin Brief \cup Vague
    /\ \A i \in DOMAIN r.links : r.links[i] >= MinMTU
IsPathMTU(m, r) ==
    /\ m \in {start} \cup {r.links[i] : i \in DOMAIN r.links}
    /\ m <= start /\ \A i \in DOMAIN r.links : m <= r.links[i]
PmtuIsThePaths ==
    \A r \in seen : phase = "done" /\ reached /\ seen = {r} /\ Clear(r) /\ start >= MinMTU
                        => IsPathMTU(mtu, r)

(* A route-changed event is about the route: it differs, or one of the two  *)
(* traces found the destination past its own TTL, both probes at that being *)
(* lost.  A silent TTL, whatever the losses, is no change (routeChanged).   *)
Overshot(rec) == rec.reached /\ \E r \in rec.seen : Len(rec.hops) > Len(r.path) + 1
Differs(a, b) == \E r, q \in a.seen \cup b.seen : r # q
Quoted(rec) == \A i \in DOMAIN rec.hops : rec.hops[i] \notin Brief
RouteChangeIsReal ==
    [][\A i \in DOMAIN prev : changed' /\ ~changed /\ Quoted(prev[i]) /\ Quoted(Cur)
           => Differs(prev[i], Cur) \/ Overshot(prev[i]) \/ Overshot(Cur)]_traceVars

(* "A TTL that did not answer in either one matches anything, so a lost     *)
(* probe is not a route change" (trace.go, routeChanged).                   *)
LostProbeIsNoChange ==
    [][\A i \in DOMAIN prev : changed' /\ ~changed /\ Quoted(prev[i]) /\ Quoted(Cur)
           => Differs(prev[i], Cur)]_traceVars
==============================================================================
