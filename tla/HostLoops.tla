------------------------------ MODULE HostLoops ------------------------------
(***************************************************************************)
(* The loops that measure a host and the aggregates they share: the        *)
(* resolver that starts and stops them (resolve.go), the short, long and   *)
(* idle connections of every IP (short.go, long.go, idle.go), the          *)
(* comparison connects (compare.go), the minute flush and the shutdown     *)
(* (netcheck.go).                                                          *)
(*                                                                         *)
(* A loop is its program counter and the calls it still has to make for    *)
(* the result it has: every call is a lock section of the agg, and the     *)
(* minute flush, the resolver and the other loops may come between any     *)
(* two.  How long things take is left out: a result may come any time.     *)
(***************************************************************************)
EXTENDS Agg, Sequences

CONSTANTS
    Named,      \* the host is a name, not a bare IP: SNI and verification
    MaxGap,     \* the last of idleGaps; gap 0 is the PING after connecting
    MaxWork     \* bound on the results the loops get, successful dials apart

ASSUME LoopAssumption == Named \in BOOLEAN /\ MaxGap \in Nat /\ MaxWork \in Nat

HostIP == Target \ Compared

VARIABLES
    agg,        \* the aggregates
    loop,       \* the loop of each target and mode
    running,    \* resolveLoop's running: the IPs that are measured
    want,       \* the last answer it applies
    cancelled,  \* targets whose tctx is cancelled
    stopping,   \* the process's ctx is cancelled
    minute,     \* the minute loop runs
    hist,       \* what happened, for the properties
    work        \* results had so far

vars == <<agg, loop, running, want, cancelled, stopping, minute, hist, work>>

(* The calls a loop makes. *)
Call == [op: {"fail", "intercepted", "seen", "sni", "reset", "connected", "ping", "lostPing",
              "drop", "closed", "survived", "died", "event", "check"},
         class: Class \cup Variant \cup {""}, fp: Fingerprint \cup {NoPrint}, n: Nat, bad: BOOLEAN]

Do(op) == [op |-> op, class |-> "", fp |-> NoPrint, n |-> 0, bad |-> FALSE]

Off  == [pc |-> "off", calls |-> << >>, gap |-> 0, best |-> 0, sni |-> FALSE]
Dial == [pc |-> "dial", calls |-> << >>, gap |-> 0, best |-> 0, sni |-> Named]

Loop == [pc: {"off", "dial", "session"}, calls: Seq(Call), gap: 0 .. MaxGap, best: 0 .. MaxGap,
         sni: BOOLEAN]

(* Samples taken of a registered target, and sent in records; the intercepted *)
(* events announced and certificates seen since the target was last forgotten; *)
(* connections that ended, and whose end was told.                            *)
Hist == [taken: [Key -> Nat], sent: [Key -> Nat],
         announced: [Target -> Nat], prints: [Target -> SUBSET (Fingerprint \cup {NoPrint})],
         ended: [Key -> Nat], told: [Key -> Nat]]

TypeOK ==
    /\ agg \in AggType
    /\ loop \in [Key -> Loop]
    /\ running \subseteq HostIP /\ want \subseteq HostIP /\ cancelled \subseteq HostIP
    /\ stopping \in BOOLEAN /\ minute \in BOOLEAN
    /\ hist \in Hist
    /\ work \in 0 .. MaxWork

(* The comparison targets registered and nothing else, as Run does at first. *)
StartAgg ==
    [NewAgg EXCEPT
        !.targets = Compared,
        !.modes = [t \in Target |-> IF t \in Compared THEN {"compare"} ELSE {}],
        !.bucket = [k \in Key |-> IF k[1] \in Compared /\ k[2] = "compare" THEN NewBucket ELSE Nil]]

Init ==
    /\ agg = StartAgg
    /\ loop = [k \in Key |-> IF k[1] \in Compared /\ k[2] = "compare" THEN Dial ELSE Off]
    /\ running = {} /\ want = {} /\ cancelled = {}
    /\ stopping = FALSE /\ minute = TRUE
    /\ hist = [taken |-> [k \in Key |-> 0], sent |-> [k \in Key |-> 0],
               announced |-> [t \in Target |-> 0], prints |-> [t \in Target |-> {}],
               ended |-> [k \in Key |-> 0], told |-> [k \in Key |-> 0]]
    /\ work = 0

(* Mutant: the loops have a ctx of their own. *)
CancelledAlone(t) == t \in cancelled

Cancelled(t) == stopping \/ t \in cancelled

------------------------------------------------------------------------------
(* The calls that follow a result.                                         *)

If(cond, calls) == IF cond THEN calls ELSE << >>

(* noteInterception; the event follows at once when the certificate is news. *)
NoteInterception(fp) == <<[Do("intercepted") EXCEPT !.fp = fp], [Do("seen") EXCEPT !.fp = fp]>>

(* noteFailure, of a failed long or idle dial. *)
NoteFailure(class, fp) ==
    IF class = "intercepted"
    THEN NoteInterception(fp)
    ELSE <<[Do("fail") EXCEPT !.class = class]>> \o If(class = "reset", <<Do("reset")>>)

(* shortLoop, after shortOnce. *)
ShortCalls(variant, class, lost, fp) ==
    If(Named, <<[Do("sni") EXCEPT !.class = variant, !.bad = class # ""]>>)
    \o If(class = "reset", <<Do("reset")>>)
    \o CASE class = ""            -> <<[Do("connected") EXCEPT !.n = lost]>>
         [] class = "intercepted" -> <<[Do("connected") EXCEPT !.n = lost]>> \o NoteInterception(fp)
         [] OTHER                 -> <<[Do("fail") EXCEPT !.class = class]>>

(* compareLoop, after connectOnce. *)
CompareCalls(class, lost) ==
    IF class = "" THEN <<[Do("connected") EXCEPT !.n = lost]>>
                  ELSE <<[Do("fail") EXCEPT !.class = class]>>

(* ended: a GOAWAY is a server-closed, anything else a drop. *)
Ended(goaway, class) ==
    <<IF goaway THEN Do("closed") ELSE Do("drop")>> \o If(~goaway /\ class = "reset", <<Do("reset")>>)

(* idleSession, after a PING that failed: and how its connection died. *)
IdleEnded(goaway, class, gap) ==
    Ended(goaway, class) \o <<[Do("died") EXCEPT !.n = gap], Do("survived"), Do("event")>>

(* Mutants: the loop looks at ctx before it tells; a new connection keeps the old gap. *)
LongEndedChecked(goaway, class) == Ended(goaway, class) \o <<Do("check"), Do("event")>>
DialedKeeping(mode) == << >>

LongEnded(goaway, class) == Ended(goaway, class) \o <<Do("event")>>

(* An idle session starts from a gap of 0. *)
Dialed(mode) == If(mode = "idle", <<Do("survived")>>)

------------------------------------------------------------------------------
(* The loops.                                                              *)

(* The loop at k goes to l and owes the agg these calls. *)
Owes(k, l, calls) ==
    /\ loop' = [loop EXCEPT ![k] = [l EXCEPT !.calls = calls]]
    /\ UNCHANGED <<agg, running, want, cancelled, stopping, minute, hist>>

(* The same for a result that counts as work. *)
Result(k, l, calls) ==
    /\ work < MaxWork
    /\ work' = work + 1
    /\ Owes(k, l, calls)

At(k, pc) == loop[k].pc = pc /\ loop[k].calls = << >>

(* shortLoop and compareLoop: a connection's result, unless ctx has ended. *)
Short(k) ==
    /\ k[2] = "short" /\ At(k, "dial") /\ ~Cancelled(k[1])
    /\ \E class \in Class \cup {""}, lost \in 0 .. 1, fp \in Fingerprint :
          /\ class = "intercepted" => loop[k].sni
          /\ Result(k, [loop[k] EXCEPT !.sni = Named /\ ~@],
                    ShortCalls(IF loop[k].sni THEN "host" ELSE "none", class, lost, fp))

Compare(k) ==
    /\ k[2] = "compare" /\ At(k, "dial") /\ ~Cancelled(k[1])
    /\ \E class \in {"", "other", "reset"}, lost \in 0 .. 1 :
          Result(k, loop[k], CompareCalls(class, lost))

(* longLoop and idleLoop: a dial that fails, or not. *)
DialFails(k) ==
    /\ k[2] \in {"long", "idle"} /\ At(k, "dial") /\ ~Cancelled(k[1])
    /\ \E class \in Class, fp \in Fingerprint :
          /\ class = "intercepted" => Named
          /\ Result(k, loop[k], NoteFailure(class, fp))

DialSucceeds(k) ==
    /\ k[2] \in {"long", "idle"} /\ At(k, "dial")
    /\ Owes(k, [loop[k] EXCEPT !.pc = "session", !.gap = 0, !.best = 0], Dialed(k[2]))
    /\ UNCHANGED work

(* session: a PING is answered, or not in time, or the connection ends. *)
LongPing(k) ==
    /\ k[2] = "long" /\ At(k, "session")
    /\ \/ Result(k, loop[k], <<Do("ping")>>)
       \/ ~Cancelled(k[1]) /\ Result(k, loop[k], <<Do("lostPing")>>)

LongEnds(k) ==
    /\ k[2] = "long" /\ At(k, "session")
    /\ \/ Result(k, Dial, LongEnded(FALSE, "other"))   \* no PING answered for deadAfter
       \/ /\ ~Cancelled(k[1])
          /\ \E goaway \in BOOLEAN, class \in {"other", "reset"} :
                Result(k, Dial, LongEnded(goaway, class))

Longer(gap) == IF gap < MaxGap THEN gap + 1 ELSE MaxGap

(* idleSession: the connection survives its gap; the next one is longer. *)
IdlePing(k) ==
    LET gap  == loop[k].gap
        best == IF gap > loop[k].best THEN gap ELSE loop[k].best
    IN  /\ k[2] = "idle" /\ At(k, "session")
        /\ Result(k, [loop[k] EXCEPT !.gap = Longer(@), !.best = best],
                  <<Do("ping"), Do("check")>>
                  \o If(gap > 0, <<[Do("survived") EXCEPT !.n = best]>>))

IdleEnds(k) ==
    /\ k[2] = "idle" /\ At(k, "session") /\ ~Cancelled(k[1])
    /\ \/ Result(k, Dial, <<Do("lostPing"), Do("check")>> \o IdleEnded(FALSE, "other", loop[k].gap))
       \/ \E goaway \in BOOLEAN, class \in {"other", "reset"} :
             Result(k, Dial, IdleEnded(goaway, class, loop[k].gap))

(* Any loop whose ctx has ended returns. *)
Return(k) ==
    /\ loop[k].pc # "off" /\ loop[k].calls = << >>
    /\ Cancelled(k[1])
    /\ loop' = [loop EXCEPT ![k] = Off]
    /\ UNCHANGED <<agg, running, want, cancelled, stopping, minute, hist, work>>

------------------------------------------------------------------------------
(* One call: one section under agg.mu.                                     *)

Called(a, k, c) ==
    LET t    == k[1]
        mode == k[2]
    IN  CASE c.op = "fail"        -> Fail(a, t, mode, c.class)
          [] c.op = "intercepted" -> Intercepted(a, t, mode, c.fp)
          [] c.op = "seen"        -> IF News(a, t, c.fp) THEN Seen(a, t, c.fp) ELSE a
          [] c.op = "sni"         -> Sni(a, t, c.class, c.bad)
          [] c.op = "reset"       -> Reset(a, t, mode)
          [] c.op = "connected"   -> Connected(a, t, mode, c.n)
          [] c.op = "ping"        -> Ping(a, t, mode)
          [] c.op = "lostPing"    -> LostPing(a, t, mode)
          [] c.op = "drop"        -> Drop(a, t, mode)
          [] c.op = "closed"      -> ServerClosed(a, t, mode)
          [] c.op = "survived"    -> IdleSurvived(a, t, c.n)
          [] c.op = "died"        -> IdleDied(a, t, c.n)
          [] c.op \in {"event", "check"} -> a

(* A call that counts a sample of a target that is registered. *)
Samples(k, c) ==
    /\ k[1] \in agg.targets
    /\ \/ c.op \in {"connected", "ping", "lostPing"}
       \/ c.op = "fail" /\ k[2] \in {"short", "compare"}

Noted(k, c) ==
    LET t    == k[1]
        told == c.op = "seen" /\ News(agg, t, c.fp)
    IN  [hist EXCEPT !.taken[k]     = @ + (IF Samples(k, c) THEN 1 ELSE 0),
                     !.announced[t] = @ + (IF told THEN 1 ELSE 0),
                     !.prints[t]    = @ \cup (IF c.op = "seen" THEN {c.fp} ELSE {}),
                     !.ended[k]     = @ + (IF c.op \in {"drop", "closed"} THEN 1 ELSE 0),
                     !.told[k]      = @ + (IF c.op = "event" THEN 1 ELSE 0)]

Step(k) ==
    /\ loop[k].calls # << >>
    /\ LET c == Head(loop[k].calls)
       IN  /\ agg' = Called(agg, k, c)
           /\ hist' = Noted(k, c)
           /\ loop' = [loop EXCEPT ![k] =
                          IF c.op = "check" /\ Cancelled(k[1]) THEN Off
                          ELSE [loop[k] EXCEPT !.calls = Tail(@)]]
    /\ UNCHANGED <<running, want, cancelled, stopping, minute, work>>

------------------------------------------------------------------------------
(* The resolver.                                                           *)

(* A lookup has an answer, which apply compares with what is running; a     *)
(* failed one changes nothing.  A bare IP is applied once.                   *)
Resolve ==
    /\ ~stopping /\ want = running
    /\ Named \/ running = {}
    /\ want' \in SUBSET HostIP \ {{}}
    /\ UNCHANGED <<agg, loop, running, cancelled, stopping, minute, hist, work>>

(* The loops of an IP that was removed have returned before it is added     *)
(* again, a resolveInterval later at the earliest.                          *)
Gone(t) == \A mode \in TargetModes : loop[t, mode].pc = "off"

Add ==
    /\ \E t \in want \ running :
          /\ Gone(t)
          /\ running' = running \cup {t}
          /\ cancelled' = cancelled \ {t}
          /\ agg' = Register(agg, t, TargetModes)
          /\ loop' = [k \in Key |-> IF k[1] = t /\ k[2] \in TargetModes THEN Dial ELSE loop[k]]
    /\ UNCHANGED <<want, stopping, minute, hist, work>>

Remove ==
    /\ want \subseteq running
    /\ \E t \in running \ want :
          /\ running' = running \ {t}
          /\ cancelled' = cancelled \cup {t}
          /\ agg' = Unregister(agg, t)
    /\ UNCHANGED <<loop, want, stopping, minute, hist, work>>

------------------------------------------------------------------------------
(* The minute loop and the shutdown.                                       *)

Flush ==
    /\ minute
    /\ agg' = Flushed(agg)
    /\ LET emitted(k) == IF k \in Flushes(agg) THEN agg.bucket[k].samples ELSE 0
           gone       == Forgotten(agg)
       IN  hist' = [hist EXCEPT
                      !.sent      = [k \in Key |-> hist.sent[k] + emitted(k)],
                      !.announced = [t \in Target |-> IF t \in gone THEN 0 ELSE hist.announced[t]],
                      !.prints    = [t \in Target |-> IF t \in gone THEN {} ELSE hist.prints[t]]]
    /\ UNCHANGED <<loop, running, want, cancelled, stopping, minute, work>>

Stop ==
    /\ ~stopping
    /\ stopping' = TRUE
    /\ UNCHANGED <<agg, loop, running, want, cancelled, minute, hist, work>>

MinuteReturns ==
    /\ stopping /\ minute
    /\ minute' = FALSE
    /\ UNCHANGED <<agg, loop, running, want, cancelled, stopping, hist, work>>

------------------------------------------------------------------------------
Results(k) == Short(k) \/ Compare(k) \/ DialFails(k) \/ DialSucceeds(k) \/ LongPing(k)
               \/ LongEnds(k) \/ IdlePing(k) \/ IdleEnds(k)

Next ==
    \/ \E k \in Key : Results(k) \/ Step(k) \/ Return(k)
    \/ Resolve \/ Add \/ Remove
    \/ Flush \/ Stop \/ MinuteReturns

(* A loop that has calls to make makes them and one whose ctx has ended      *)
(* returns; apply runs to its end and the minute timer fires.  Nobody has to *)
(* answer, and nobody has to stop the program.                               *)
Fairness ==
    /\ \A t \in Target : \A mode \in ModesOf(t) : WF_vars(Step(<<t, mode>>) \/ Return(<<t, mode>>))
    /\ WF_vars(Add) /\ WF_vars(Remove) /\ WF_vars(Flush) /\ WF_vars(MinuteReturns)

Spec == Init /\ [][Next]_vars /\ Fairness

------------------------------------------------------------------------------
(* Properties.                                                             *)

(* flush reads a bucket for every mode of every target without looking      *)
(* whether it is there (agg.go:503): it always is, and no bucket outlives    *)
(* its target, in which later samples would pile up.                         *)
EveryModeHasItsBucket == \A k \in Key : (k \in Flushes(agg)) <=> (agg.bucket[k] # Nil)

(* Every sample a registered target has is in one minute's record, or in the *)
(* bucket of the current one: none is lost or counted twice when flushes,     *)
(* removals and re-registrations come between (agg.go:291-322, 491-533).      *)
InBucket(k) == IF agg.bucket[k] = Nil THEN 0 ELSE agg.bucket[k].samples

NoSampleLost == \A k \in Key : hist.taken[k] = hist.sent[k] + InBucket(k)

(* What the resolver runs is what the agg goes on measuring: an IP that      *)
(* comes back before its last minute is flushed is not forgotten by that      *)
(* flush while its loops run (agg.go:300).                                    *)
RunningIsMeasured == running = (agg.targets \ agg.removed) \ Compared

(* As long as a target presents one and the same bad certificate, to any of  *)
(* its loops in any minute, one event tells so (agg.go:364-373).              *)
OneEventPerCertificate ==
    \A t \in Target : Cardinality(hist.prints[t]) = 1 => hist.announced[t] <= 1

(* While an idle connection is up, the minute's survived_s is the longest    *)
(* gap of this connection, not of an earlier one (idle.go:66, 91, 96).        *)
SurvivedIsTheConnections ==
    \A t \in HostIP : (At(<<t, "idle">>, "session") /\ t \in running)
                         => agg.survived[t] = loop[t, "idle"].best

(* Every connection that ended, by a drop or by the server, has its event,   *)
(* even when the IP is removed or the program stops meanwhile (long.go:79).   *)
EveryEndIsTold ==
    \A k \in Key : loop[k].calls = << >> => hist.told[k] = hist.ended[k]

(* After the signal every loop returns (netcheck.go:363): the day file is    *)
(* closed.                                                                    *)
AllOff == (\A k \in Key : loop[k].pc = "off") /\ want = running /\ ~minute
StopEnds == stopping ~> AllOff

(* An IP that was removed is forgotten at the next flush, unless it comes    *)
(* back or the program stops.                                                 *)
RemovedIsForgotten ==
    \A t \in HostIP : (t \in agg.removed) ~> (t \notin agg.targets \/ t \in running \/ stopping)

=============================================================================
