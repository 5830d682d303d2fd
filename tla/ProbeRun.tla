------------------------------ MODULE ProbeRun -------------------------------
(***************************************************************************)
(* The probe side of the process: run and loop in main.go, the goroutines   *)
(* of probeTargets behind their semaphore, report.Run, and the handover of  *)
(* each cycle to netcheck's probeLoop, through to the exit code. What a     *)
(* ladder prints (module Ladders) and what the command line comes to        *)
(* (module Startup) are parameters.                                         *)
(***************************************************************************)
EXTENDS Naturals, Sequences, FiniteSets

CONSTANTS
  AllTargets,   \* every target some configuration probes
  Creds,        \* the credential sets a configuration may carry
  Configs,      \* the outcomes of startup (Startup!Start)
  Ladder,       \* Ladder[creds][t][over]: the runs of probe.Run on t, over
                \* telling that the context was done before it began
  PrintLadder,  \* PrintLadder[over]: the runs of printcheck.Run
  Slots,        \* maxConcurrentTargets
  ProbeQueue,   \* probeQueue, the capacity of netcheck.Config.Probes
  MaxCycles     \* bound on the cycles of one process

Lines == [stage: STRING, family: Nat, ok: BOOLEAN]
Runs == Seq(Lines)
Jobs == {"none", "part", "whole"}
RunConfigs ==
  [runs: {TRUE}, targets: Seq(AllTargets), printing: BOOLEAN, netcheck: BOOLEAN,
   creds: Creds]
QuitConfigs == [runs: {FALSE}, code: {0, 2}]

\* exitCode while the process is alive.
NoCode == 3

ASSUME SlotsAssumption == Slots \in Nat \ {0}
ASSUME ProbeQueueAssumption == ProbeQueue \in Nat \ {0}
ASSUME MaxCyclesAssumption == MaxCycles \in Nat \ {0}
ASSUME ConfigsAssumption ==
  /\ \A c \in Configs : c.runs \in BOOLEAN
  /\ \A c \in Configs : IF c.runs THEN c \in RunConfigs ELSE c \in QuitConfigs
\* Startup!Targets takes each address once.
ASSUME TargetsAssumption ==
  \A c \in Configs : c.runs =>
    \A i, j \in DOMAIN c.targets : i # j => c.targets[i] # c.targets[j]
ASSUME LadderAssumption ==
  \A creds \in Creds, t \in AllTargets, over \in BOOLEAN :
    \A r \in Ladder[creds][t][over] : r \in Runs
ASSUME PrintLadderAssumption ==
  \A over \in BOOLEAN :
    \A r \in PrintLadder[over] :
      r.lines \in Runs /\ r.fax \in BOOLEAN /\ r.job \in Jobs
\* Its last stages store the lines and submit the job (Ladders!PrintRuns).
ASSUME PrintedAssumption ==
  \A over \in BOOLEAN :
    \A r \in PrintLadder[over] :
      (\A i \in DOMAIN r.lines : r.lines[i].ok) => r.fax /\ r.job = "whole"

VARIABLES
  config,      \* what startup came to
  ctx,         \* "live", or "done" once SIGINT or SIGTERM arrived
  pc,          \* where the main goroutine is
  n,           \* the number of the current cycle
  worker,      \* per target of the cycle: its goroutine in probeTargets
  found,       \* perTarget: the lines each goroutine brought back
  run,         \* report.Run
  printFailed, \* loop's printFailed
  queue,       \* nc.Probes: the cycles handed over, by number
  writer,      \* the probeLoop goroutine
  exitCode,    \* 0, 1 or 2 once the process is gone
  \* What the world sees, and the cycles that were never queued:
  printed,     \* the lines of every finished cycle, as printed
  label,       \* the results of the print ladder, each time it ran
  written,     \* the cycles in the day file, in order
  dropped      \* the cycles persistProbes gave up

mainVars == <<config, pc, n, worker, found, run, printFailed, exitCode,
              printed, label, dropped>>
vars == <<config, ctx, pc, n, worker, found, run, printFailed, queue, writer,
          exitCode, printed, label, written, dropped>>

NewRun(ts) ==
  [cycles |-> 0, clean |-> 0, degraded |-> 0, anyFailed |-> FALSE,
   failingSince |-> 0,
   okays |-> [t \in ts |-> 0], total |-> [t \in ts |-> 0],
   lastOK |-> [t \in ts |-> FALSE], lastFail |-> [t \in ts |-> 0]]

TargetSet == {config.targets[i] : i \in DOMAIN config.targets}
Okays(lines) == Cardinality({i \in DOMAIN lines : lines[i].ok})
AllOK(lines) == \A i \in DOMAIN lines : lines[i].ok

\* A cycle as it is printed: the targets in their order, their lines in ladder
\* order. Cycle.OK looks at every line of it.
Cycle == [i \in DOMAIN config.targets |->
            [target |-> config.targets[i], lines |-> found[config.targets[i]]]]
CycleOK(c) == \A i \in DOMAIN c : AllOK(c[i].lines)
LinesIn(c, t) == c[CHOOSE i \in DOMAIN c : c[i].target = t].lines

\* Mutant of Add: the failure mark follows the last cycle.
AddForgives(r, c, k) == [r EXCEPT !.cycles = @ + 1, !.anyFailed = ~CycleOK(c)]

\* failingSince: the first cycle of the streak. (Mutant: a clean cycle does not
\* end it.)
SinceKept(r, ok, k) == IF ok \/ r.failingSince # 0 THEN r.failingSince ELSE k
Since(r, ok, k) == IF ok THEN 0 ELSE IF r.failingSince = 0 THEN k ELSE r.failingSince

\* report.Run.Add, by the number of the cycle (its At).
Add(r, c, k) ==
  LET ok == CycleOK(c)
  IN [cycles |-> r.cycles + 1,
      clean |-> IF ok THEN r.clean + 1 ELSE r.clean,
      degraded |-> IF ok THEN r.degraded ELSE r.degraded + 1,
      anyFailed |-> r.anyFailed \/ ~ok,
      failingSince |-> Since(r, ok, k),
      okays |-> [t \in DOMAIN r.okays |-> r.okays[t] + Okays(LinesIn(c, t))],
      total |-> [t \in DOMAIN r.total |-> r.total[t] + Len(LinesIn(c, t))],
      lastOK |-> [t \in DOMAIN r.lastOK |-> AllOK(LinesIn(c, t))],
      lastFail |-> [t \in DOMAIN r.lastFail |->
                      IF AllOK(LinesIn(c, t)) THEN r.lastFail[t] ELSE k]]

------------------------------------------------------------------------------

Init ==
  /\ config \in Configs
  /\ ctx = "live"
  /\ pc = "start"
  /\ n = 0
  /\ worker = [t \in {} |-> "done"] /\ found = [t \in {} |-> <<>>]
  /\ run = NewRun({})
  /\ printFailed = FALSE
  /\ queue = <<>> /\ writer = "idle"
  /\ exitCode = NoCode
  /\ printed = <<>> /\ label = <<>> /\ written = <<>> /\ dropped = {}

\* The goroutines of one cycle, all waiting for a slot.
Spawn(ts) ==
  /\ worker' = [t \in ts |-> "waiting"]
  /\ found' = [t \in ts |-> <<>>]

\* run() refuses or answers --version: nothing was started.
Refuse ==
  /\ pc = "start" /\ ~config.runs
  /\ pc' = "exited"
  /\ exitCode' = config.code
  /\ UNCHANGED <<config, ctx, n, worker, found, run, printFailed, queue, writer,
                 printed, label, written, dropped>>

\* loop: netcheck starts beside it, or counts as done when it is off.
Begin ==
  /\ pc = "start" /\ config.runs
  /\ pc' = "probing"
  /\ n' = 1
  /\ run' = NewRun(TargetSet)
  /\ Spawn(TargetSet)
  /\ writer' = IF config.netcheck THEN "receiving" ELSE "closed"
  /\ UNCHANGED <<config, ctx, printFailed, queue, exitCode, printed, label,
                 written, dropped>>

\* SIGINT or SIGTERM, which NotifyContext turns into the end of ctx.
Signal ==
  /\ pc \notin {"start", "exited"} /\ ctx = "live"
  /\ ctx' = "done"
  /\ UNCHANGED <<mainVars, queue, writer, written>>

\* A goroutine of probeTargets gets a slot and starts probe.Run.
Busy == {"probing", "aborting"}
Acquire(t) ==
  /\ pc = "probing" /\ worker[t] = "waiting"
  /\ Cardinality({u \in DOMAIN worker : worker[u] \in Busy}) < Slots
  /\ worker' = [worker EXCEPT ![t] = IF ctx = "done" THEN "aborting" ELSE "probing"]
  /\ UNCHANGED <<config, ctx, pc, n, found, run, printFailed, queue, writer,
                 exitCode, printed, label, written, dropped>>

\* probe.Run ends, the slot is released and the goroutine is done.
Probe(t) ==
  /\ pc = "probing" /\ worker[t] \in Busy
  /\ \E lines \in Ladder[config.creds][t][worker[t] = "aborting"] :
       found' = [found EXCEPT ![t] = lines]
  /\ worker' = [worker EXCEPT ![t] = "done"]
  /\ UNCHANGED <<config, ctx, pc, n, run, printFailed, queue, writer, exitCode,
                 printed, label, written, dropped>>

\* Mutants of Persist: a queue that gives up the oldest cycle instead of the new
\* one, and a send that waits for room.
PersistDropsOldest(k) ==
  IF ~config.netcheck THEN UNCHANGED <<queue, dropped>>
  ELSE IF Len(queue) < ProbeQueue
    THEN queue' = Append(queue, k) /\ UNCHANGED dropped
    ELSE queue' = Append(Tail(queue), k) /\ dropped' = dropped \cup {Head(queue)}
PersistWaits(k) ==
  /\ Len(queue) < ProbeQueue
  /\ queue' = Append(queue, k)
  /\ UNCHANGED dropped

\* persistProbes: the send that never blocks.
Persist(k) ==
  IF ~config.netcheck THEN UNCHANGED <<queue, dropped>>
  ELSE IF Len(queue) < ProbeQueue
    THEN queue' = Append(queue, k) /\ UNCHANGED dropped
    ELSE dropped' = dropped \cup {k} /\ UNCHANGED queue

\* Mutant of EndCycle: the print job inside the loop, after every cycle.
EndCyclePrints ==
  /\ pc = "probing" /\ \A t \in DOMAIN worker : worker[t] = "done"
  /\ printed' = Append(printed, Cycle)
  /\ run' = Add(run, Cycle, n)
  /\ Persist(n)
  /\ pc' = IF config.printing THEN "printing" ELSE "select"
  /\ UNCHANGED <<config, ctx, n, worker, found, printFailed, writer, exitCode,
                 label, written>>

\* All goroutines are back: the cycle is printed, added to the run and handed
\* to netcheck, and the first one may be followed by the print job.
EndCycle ==
  /\ pc = "probing" /\ \A t \in DOMAIN worker : worker[t] = "done"
  /\ printed' = Append(printed, Cycle)
  /\ run' = Add(run, Cycle, n)
  /\ Persist(n)
  /\ pc' = IF n = 1 /\ config.printing THEN "printing" ELSE "select"
  /\ UNCHANGED <<config, ctx, n, worker, found, printFailed, writer, exitCode,
                 label, written>>

\* printOnce: the label points at exactly the lines already printed.
PrintOnce ==
  /\ pc = "printing"
  /\ \E r \in PrintLadder[ctx = "done"] :
       /\ label' = Append(label, [lines |-> r.lines, fax |-> r.fax, job |-> r.job,
                                  of |-> printed[Len(printed)]])
       /\ printFailed' = ~AllOK(r.lines)
  /\ pc' = "select"
  /\ UNCHANGED <<config, ctx, n, worker, found, run, queue, writer, exitCode,
                 printed, written, dropped>>

\* select: the tick, then the jitter window. With both ready, either is taken.
Tick ==
  /\ pc = "select"
  /\ pc' = "jitter"
  /\ UNCHANGED <<config, ctx, n, worker, found, run, printFailed, queue, writer,
                 exitCode, printed, label, written, dropped>>

Again ==
  /\ pc = "jitter" /\ n < MaxCycles
  /\ pc' = "probing"
  /\ n' = n + 1
  /\ Spawn(TargetSet)
  /\ UNCHANGED <<config, ctx, run, printFailed, queue, writer, exitCode, printed,
                 label, written, dropped>>

Stop ==
  /\ pc \in {"select", "jitter"} /\ ctx = "done"
  /\ pc' = "closing"
  /\ UNCHANGED <<config, ctx, n, worker, found, run, printFailed, queue, writer,
                 exitCode, printed, label, written, dropped>>

\* <-netcheckDone, the summary, the exit code.
Exit ==
  /\ pc = "closing" /\ writer = "closed"
  /\ pc' = "exited"
  /\ exitCode' = IF run.anyFailed \/ printFailed THEN 1 ELSE 0
  /\ UNCHANGED <<config, ctx, n, worker, found, run, printFailed, queue, writer,
                 printed, label, written, dropped>>

------------------------------------------------------------------------------
(* probeLoop, as far as the probes go: receive and write; once ctx is done, *)
(* drain what is queued at that moment and return, after which netcheck.Run *)
(* closes the store.                                                        *)

Receive ==
  /\ writer \in {"receiving", "draining"} /\ queue # <<>>
  /\ written' = Append(written, Head(queue))
  /\ queue' = Tail(queue)
  /\ UNCHANGED <<mainVars, ctx, writer>>

Drain ==
  /\ writer = "receiving" /\ ctx = "done"
  /\ writer' = "draining"
  /\ UNCHANGED <<mainVars, ctx, queue, written>>

CloseFile ==
  /\ writer = "draining" /\ queue = <<>>
  /\ writer' = "closed"
  /\ UNCHANGED <<mainVars, ctx, queue, written>>

Main == Refuse \/ Begin \/ EndCycle \/ PrintOnce \/ Tick \/ Again \/ Stop \/ Exit
Writer == Receive \/ Drain \/ CloseFile
Target(t) == t \in DOMAIN worker /\ (Acquire(t) \/ Probe(t))
Halted == pc = "exited" /\ UNCHANGED vars

Next == Main \/ Writer \/ Signal \/ Halted \/ \E t \in AllTargets : Target(t)

Spec == Init /\ [][Next]_vars

\* Every goroutine is scheduled; a ladder ends because the cycle's context
\* has a deadline. Nobody has to send a signal.
FairSpec ==
  /\ Spec /\ WF_vars(Main) /\ WF_vars(Writer)
  /\ \A t \in AllTargets : WF_vars(Target(t))

------------------------------------------------------------------------------
(* The type invariant.                                                      *)

RunType(ts) ==
  [cycles: Nat, clean: Nat, degraded: Nat, anyFailed: BOOLEAN, failingSince: Nat,
   okays: [ts -> Nat], total: [ts -> Nat], lastOK: [ts -> BOOLEAN],
   lastFail: [ts -> Nat]]
CycleType == Seq([target: AllTargets, lines: Runs])
WorkerStates == {"waiting", "probing", "aborting", "done"}
TypeOK ==
  /\ config \in Configs
  /\ ctx \in {"live", "done"}
  /\ pc \in {"start", "probing", "printing", "select", "jitter", "closing", "exited"}
  /\ n \in 0..MaxCycles
  /\ worker \in [DOMAIN worker -> WorkerStates] /\ DOMAIN worker \subseteq AllTargets
  /\ found \in [DOMAIN worker -> Runs]
  /\ run \in RunType(DOMAIN worker)
  /\ printFailed \in BOOLEAN
  /\ queue \in Seq(1..MaxCycles) /\ Len(queue) <= ProbeQueue
  /\ writer \in {"idle", "receiving", "draining", "closed"}
  /\ exitCode \in {0, 1, 2, NoCode}
  /\ printed \in Seq(CycleType)
  /\ label \in Seq([lines: Runs, fax: BOOLEAN, job: Jobs, of: CycleType])
  /\ written \in Seq(1..MaxCycles)
  /\ dropped \subseteq 1..MaxCycles

(* Exit code 1 is exactly "a FAIL line was printed", by whatever cycle and  *)
(* however many clean ones followed, or by the print job; a run that was    *)
(* refused never reports on anything.                                       *)
FailPrinted ==
  \/ \E k \in DOMAIN printed : ~CycleOK(printed[k])
  \/ \E k \in DOMAIN label : ~AllOK(label[k].lines)
ExitCodeIsTheLog ==
  pc = "exited" =>
    IF config.runs THEN exitCode = IF FailPrinted THEN 1 ELSE 0
    ELSE exitCode \in {0, 2} /\ printed = <<>> /\ label = <<>> /\ written = <<>>

(* The run's counters are those of the lines on stdout: the cycles split    *)
(* into clean and degraded ones, every target's tally over all its lines,   *)
(* its last verdict and its last failing cycle; "failing" in the cycle      *)
(* block counts from the first cycle of the unbroken streak of degraded     *)
(* ones.  Every printed cycle has each target once, in the order of --env,  *)
(* however the goroutines finished.                                         *)
Sum(s) == LET upTo[i \in 0..Len(s)] == IF i = 0 THEN 0 ELSE upTo[i - 1] + s[i]
          IN upTo[Len(s)]
Latest(ks) == IF ks = {} THEN 0 ELSE CHOOSE k \in ks : \A j \in ks : j <= k
GroupedInOrder ==
  \A k \in DOMAIN printed :
    /\ DOMAIN printed[k] = DOMAIN config.targets
    /\ \A i, j \in DOMAIN printed[k] :
         /\ printed[k][i].target = config.targets[i]
         /\ i # j => printed[k][i].target # printed[k][j].target
CyclesAddUp ==
  LET bad == {k \in DOMAIN printed : ~CycleOK(printed[k])}
      clean == Latest(DOMAIN printed \ bad)
  IN /\ run.cycles = Len(printed)
     /\ run.degraded = Cardinality(bad) /\ run.clean = Len(printed) - Cardinality(bad)
     /\ run.failingSince = IF clean = Len(printed) THEN 0 ELSE clean + 1
TargetAddsUp(t) ==
  LET lines == [k \in DOMAIN printed |-> LinesIn(printed[k], t)]
  IN /\ run.total[t] = Sum([k \in DOMAIN printed |-> Len(lines[k])])
     /\ run.okays[t] = Sum([k \in DOMAIN printed |-> Okays(lines[k])])
     /\ run.lastFail[t] = Latest({k \in DOMAIN printed : ~AllOK(lines[k])})
     /\ printed # <<>> => run.lastOK[t] = (run.lastFail[t] # Len(printed))
RunAddsUp == GroupedInOrder /\ CyclesAddUp /\ \A t \in DOMAIN run.total : TargetAddsUp(t)

(* With --print one label is asked for, never two and never none, and it    *)
(* points at the lines of cycle 1; a run that ends well has the whole label *)
(* spooled and its lines stored.                                            *)
OneLabel ==
  /\ config.runs =>
       Len(label) = IF config.printing /\ printed # <<>> /\ pc # "printing" THEN 1 ELSE 0
  /\ \A k \in DOMAIN label :
       /\ label[k].of = printed[1]
       /\ AllOK(label[k].lines) => label[k].fax /\ label[k].job = "whole"
  /\ exitCode = 0 /\ config.runs /\ config.printing =>
       \E k \in DOMAIN label : label[k].job = "whole"

(* The day file has the printed cycles in order and none twice; a cycle is  *)
(* missing only because it is still queued, or because ProbeQueue earlier   *)
(* ones had been handed over and the writer was that far behind.            *)
HandoverKeepsOrder ==
  LET sent == written \o queue
  IN /\ \A i, j \in DOMAIN sent : i < j => sent[i] < sent[j]
     /\ config.runs /\ config.netcheck =>
          {sent[i] : i \in DOMAIN sent} \cup dropped = DOMAIN printed
     /\ \A k \in dropped :
          /\ \A i \in DOMAIN sent : sent[i] # k
          /\ Cardinality({i \in DOMAIN sent : sent[i] < k}) >= ProbeQueue

(* The signal ends the process: the hand-over to a netcheck that has        *)
(* already stopped never blocks the probe cycle.                            *)
Stops == ctx = "done" ~> pc = "exited"

(* What probes_test.go promises of the drain: "the last cycle before a      *)
(* shutdown is not lost".                                                   *)
LastCycleIsKept ==
  pc = "exited" /\ config.runs /\ config.netcheck =>
    DOMAIN printed \subseteq {written[i] : i \in DOMAIN written} \cup dropped
==============================================================================
