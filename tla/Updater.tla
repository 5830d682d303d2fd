------------------------------ MODULE Updater --------------------------------
(***************************************************************************)
(* The auto-updater (contrib/systemd/pyck-debug-worker-update): a script    *)
(* the hourly timer and the operator run, which stops the active units,     *)
(* swaps the binary, starts them again and rolls back if one is not active. *)
(* Under set -e any command that fails ends it where it stands, and a       *)
(* reboot may come at every step.                                           *)
(*                                                                          *)
(* systemd is external: Type=simple, Restart=on-failure.  The units of a    *)
(* broken release exit at once, on every start; a release whose units die   *)
(* later than the check looks is not a broken one here.  Downloads are      *)
(* verified before anything is touched, so a release is just a number, and  *)
(* mv is atomic, so the binary is always a whole one.                       *)
(***************************************************************************)
EXTENDS Integers, FiniteSets

CONSTANTS
    Runners,        \* who runs the script: the timer, an operator
    Units,          \* the enabled pyck-debug-worker@ units
    Versions,       \* releases of the installed major version, oldest first
    Broken,         \* the ones whose units do not come up
    First,          \* the version installed at first
    MaxFaults,      \* bound on the commands that fail, reboots and crashes
    MaxOrders       \* bound on the operator's starts and stops

Nobody == "nobody"

UpdaterAssumption ==
    /\ Versions \subseteq Nat /\ First \in Versions \ Broken
    /\ Nobody \notin Runners
    /\ MaxFaults \in Nat /\ MaxOrders \in Nat

VARIABLES
    bin, backup,    \* the version of $BIN, and of $BIN.prev (0: none)
    status,         \* of each unit: active, failing (restarted by systemd) or stopped
    wanted,         \* the units the operator wants
    released,       \* the versions published
    lock,           \* who holds $LOCK
    job,            \* of each runner: where its script is, and its variables
    faults, orders, \* counts
    harmed,         \* in mid-update, a command failed, a reboot came or the operator
                    \* started a unit the script had stopped
    untried         \* versions installed with no unit active to try them

system == <<bin, backup, status>>
world == <<wanted, released, faults, orders>>
updaterVars == <<system, world, lock, job, harmed, untried>>

Idle == [pc |-> "idle", target |-> 0, units |-> {}]

Newest(set) == CHOOSE v \in set : \A w \in set : w <= v

(* A unit that is started with version v.                                   *)
Started(v) == IF v \in Broken THEN "failing" ELSE "active"

UpdaterInit ==
    /\ bin = First /\ backup = 0
    /\ status = [u \in Units |-> "active"] /\ wanted = Units
    /\ released = {First}
    /\ lock = Nobody /\ job = [r \in Runners |-> Idle]
    /\ faults = 0 /\ orders = 0 /\ harmed = FALSE /\ untried = {}

------------------------------------------------------------------------------
(* GitHub, systemd and the operator.                                        *)

Publish(v) ==
    /\ v \in Versions \ released /\ \A w \in released : v > w
    /\ released' = released \cup {v}
    /\ UNCHANGED <<system, wanted, faults, orders, lock, job, harmed, untried>>

Crash(u) ==
    /\ status[u] = "active" /\ faults < MaxFaults
    /\ status' = [status EXCEPT ![u] = "failing"] /\ faults' = faults + 1
    /\ UNCHANGED <<bin, backup, wanted, released, orders, lock, job, harmed, untried>>

Retry(u) ==
    /\ status[u] = "failing" /\ bin \notin Broken
    /\ status' = [status EXCEPT ![u] = "active"]
    /\ UNCHANGED <<bin, backup, world, lock, job, harmed, untried>>

OperatorStarts(u) ==
    /\ status[u] = "stopped" /\ orders < MaxOrders
    /\ status' = [status EXCEPT ![u] = Started(bin)]
    /\ wanted' = wanted \cup {u} /\ orders' = orders + 1
    /\ harmed' = (harmed \/ \E r \in Runners : u \in job[r].units)
    /\ UNCHANGED <<bin, backup, released, faults, lock, job, untried>>

OperatorStops(u) ==
    /\ status[u] # "stopped" /\ orders < MaxOrders
    /\ status' = [status EXCEPT ![u] = "stopped"]
    /\ wanted' = wanted \ {u} /\ orders' = orders + 1
    /\ UNCHANGED <<bin, backup, released, faults, lock, job, harmed, untried>>

(* Every unit is enabled; the lock and the scripts are gone.                *)
Reboot ==
    /\ faults < MaxFaults
    /\ status' = [u \in Units |-> Started(bin)] /\ wanted' = Units
    /\ lock' = Nobody /\ job' = [r \in Runners |-> Idle]
    /\ faults' = faults + 1
    /\ harmed' = (harmed \/ lock # Nobody)
    /\ UNCHANGED <<bin, backup, released, orders, untried>>

------------------------------------------------------------------------------
(* The script.                                                              *)

At(r, pc) == job[r].pc = pc
Goto(r, pc) == job' = [job EXCEPT ![r].pc = pc]

\* Mutant: the lock is a file that a script leaves behind.
ExitLocked(r) == job' = [job EXCEPT ![r] = Idle] /\ UNCHANGED lock

(* The flock goes with the process, however it ends.                        *)
Exit(r) == job' = [job EXCEPT ![r] = Idle] /\ lock' = Nobody

\* Mutant: no flock.
Unlocked == TRUE

Free == lock = Nobody

(* Lines 61-107: up to the verified download.  A run that finds the lock    *)
(* taken, or nothing newer, changes nothing.                                *)
Begin(r) ==
    /\ At(r, "idle") /\ Free
    /\ Newest(released) > bin
    /\ lock' = r
    /\ job' = [job EXCEPT ![r] = [pc |-> "list", target |-> Newest(released),
                                  units |-> {}]]
    /\ UNCHANGED <<system, world, harmed, untried>>

(* list-units --state=active: a unit between two restarts is not listed.    *)
List(r) ==
    /\ At(r, "list")
    /\ LET units == {u \in Units : status[u] = "active"}
       IN job' = [job EXCEPT ![r].units = units,
                             ![r].pc = IF units = {} THEN "backup" ELSE "stop"]
    /\ UNCHANGED <<system, world, lock, harmed, untried>>

Stopped(units) == [u \in Units |-> IF u \in units THEN "stopped" ELSE status[u]]

Stop(r) ==
    /\ At(r, "stop")
    /\ status' = Stopped(job[r].units)
    /\ Goto(r, "backup")
    /\ UNCHANGED <<bin, backup, world, lock, harmed, untried>>

Backup(r) ==
    /\ At(r, "backup")
    /\ backup' = bin
    /\ Goto(r, "install")
    /\ UNCHANGED <<bin, status, world, lock, harmed, untried>>

Install(r) ==
    /\ At(r, "install")
    /\ bin' = job[r].target
    /\ untried' = IF job[r].units = {} THEN untried \cup {bin'} ELSE untried
    /\ IF job[r].units = {} THEN Exit(r) ELSE Goto(r, "start") /\ UNCHANGED lock
    /\ UNCHANGED <<backup, status, world, harmed>>

(* systemctl start || true: an active unit stays as it is, and some units   *)
(* may not start.                                                           *)
StartSome(units, but) ==
    /\ but # {} => faults < MaxFaults
    /\ faults' = IF but = {} THEN faults ELSE faults + 1
    /\ status' = [u \in Units |-> IF u \in units \ but /\ status[u] # "active"
                                  THEN Started(bin) ELSE status[u]]

StartUnits(r) ==
    /\ At(r, "start")
    /\ \E but \in SUBSET job[r].units : StartSome(job[r].units, but)
    /\ Goto(r, "check")
    /\ UNCHANGED <<bin, backup, wanted, released, orders, lock, harmed, untried>>

AllActive(units) == \A u \in units : status[u] = "active"

(* Ten seconds later.                                                       *)
Check(r) ==
    /\ At(r, "check")
    /\ IF AllActive(job[r].units) THEN Exit(r) ELSE Goto(r, "undo") /\ UNCHANGED lock
    /\ UNCHANGED <<system, world, harmed, untried>>

Undo(r) ==
    /\ At(r, "undo")
    /\ status' = Stopped(job[r].units)
    /\ Goto(r, "restore")
    /\ UNCHANGED <<bin, backup, world, lock, harmed, untried>>

Restore(r) ==
    /\ At(r, "restore")
    /\ bin' = backup
    /\ Goto(r, "restart")
    /\ UNCHANGED <<backup, status, world, lock, harmed, untried>>

Restart(r) ==
    /\ At(r, "restart")
    /\ \E but \in SUBSET job[r].units :
          /\ StartSome(job[r].units, but)
          /\ harmed' = (harmed \/ but # {})
    /\ Exit(r)
    /\ UNCHANGED <<bin, backup, wanted, released, orders, untried>>

(* A command fails, or the script is killed.  Up to list nothing has been   *)
(* touched; a stop that fails may have stopped some units.                  *)
Fail(r) ==
    /\ ~At(r, "idle") /\ faults < MaxFaults
    /\ \E some \in SUBSET job[r].units :
          /\ ~At(r, "stop") => some = {}
          /\ status' = Stopped(some)
    /\ harmed' = (harmed \/ ~At(r, "list"))
    /\ faults' = faults + 1
    /\ Exit(r)
    /\ UNCHANGED <<bin, backup, wanted, released, orders, untried>>

Step(r) ==
    \/ List(r) \/ Stop(r) \/ Backup(r) \/ Install(r) \/ StartUnits(r)
    \/ Check(r) \/ Undo(r) \/ Restore(r) \/ Restart(r)
Systemd(u) == Crash(u) \/ Retry(u) \/ OperatorStarts(u) \/ OperatorStops(u)

UpdaterNext ==
    \/ \E v \in Versions : Publish(v)
    \/ \E u \in Units : Systemd(u)
    \/ Reboot
    \/ \E r \in Runners : Begin(r) \/ Step(r) \/ Fail(r)

UpdaterSpec == UpdaterInit /\ [][UpdaterNext]_updaterVars

(* The timer comes again every hour, and a script that runs goes on.        *)
UpdaterFairness ==
    /\ WF_updaterVars(\E r \in Runners : Begin(r))
    /\ WF_updaterVars(\E r \in Runners : Step(r))
UpdaterLiveSpec == UpdaterSpec /\ UpdaterFairness

------------------------------------------------------------------------------
UpdaterTypeOK ==
    /\ bin \in Versions /\ backup \in Versions \cup {0}
    /\ status \in [Units -> {"active", "failing", "stopped"}]
    /\ wanted \subseteq Units /\ released \subseteq Versions /\ First \in released
    /\ lock \in Runners \cup {Nobody}
    /\ job \in [Runners -> [pc: {"idle", "list", "stop", "backup", "install", "start", "check",
                                 "undo", "restore", "restart"},
                            target: Versions \cup {0},
                            units: SUBSET Units]]
    /\ faults \in Nat /\ orders \in Nat
    /\ harmed \in BOOLEAN /\ untried \subseteq Versions

(* The updater leaves what it found at work: with no run under way, and     *)
(* unless a command failed, a reboot came or an operator started a stopped  *)
(* unit in mid-update, every unit the operator wants is up or being         *)
(* restarted by systemd, and the binary is one that came up, or that no     *)
(* active unit was there to try.  So a broken release costs a rollback to   *)
(* the version before and nothing more, with two runs started at once,      *)
(* units that crash or are started and stopped meanwhile, and starts that   *)
(* fail.                                                                    *)
LeavesUnitsServed ==
    lock = Nobody /\ ~harmed =>
        /\ \A u \in wanted : status[u] # "stopped"
        /\ bin \in Broken => bin \in untried

(* A release newer than all others, and not broken, is installed in the end *)
(* if the script is run again and again, whatever failed before: commands,  *)
(* rollbacks of broken releases, reboots (the script leaves nothing behind   *)
(* that stops the next run).                                                *)
GoodReleaseIsInstalled ==
    \A v \in Versions \ Broken :
        Newest(released) = v ~> bin = v \/ Newest(released) # v
==============================================================================
