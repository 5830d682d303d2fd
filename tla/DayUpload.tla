------------------------------ MODULE DayUpload ------------------------------
(***************************************************************************)
(* The day store at work: the minute loop (netcheck.go), the measurements  *)
(* that write records of their own, the upload loop (upload.go), the UTC   *)
(* clock, restarts, a network that fails and a disk that fills up.         *)
(*                                                                         *)
(* One tick is one minute.  Measurements stamp their record when they      *)
(* start and write it when they end, up to MaxLag ticks later: 0 for an    *)
(* event, 3 minutes for a trace, 5 for a download.                         *)
(***************************************************************************)
EXTENDS DayStore, FiniteSets

CONSTANTS
    Measurer,    \* loops that write records of their own
    DayLen,      \* ticks in a day (1440)
    After,       \* uploadAfterMidnight, in ticks (1)
    Retry,       \* uploadRetry, in ticks (60)
    MaxLag,      \* how long a measurement may last, in ticks
    PostTime,    \* uploadTimeout, in ticks (2)
    MaxNow,      \* bound on the clock; the last tick stands for all that follow
    MaxStops,    \* bound on crashes and shutdowns
    MaxNetFails, \* bound on failed uploads
    MaxFulls     \* bound on how often the disk fills up

ASSUME ClockAssumption ==
    /\ DayLen \in Nat \ {0} /\ After \in Nat /\ Retry \in Nat
    /\ MaxLag \in Nat /\ PostTime \in Nat
    /\ MaxNow \in Nat

DayOf(t) == t \div DayLen + 1

(* The clock stays within the days modelled. *)
ASSUME HorizonAssumption == \A t \in 0 .. MaxNow : DayOf(t) \in Day

VARIABLES
    now,      \* the current tick
    alive,    \* the process runs
    minute,   \* the minute loop: waits for the tick, writes its record, flushes
    measure,  \* when each running measurement started, Idle when none runs
    up,       \* the upload loop
    next,     \* the number of the next record
    written,  \* records store.write accepted and no crash has taken
    posted,   \* by day, the bodies the receiver has stored
    told,     \* a FAIL line has reported a store problem
    budget    \* how many stops, network failures and full disks have happened

sysVars == <<now, alive, minute, measure, up, next, written, posted, told, budget>>
vars    == <<storeVars, sysVars>>

Idle  == -1
Today == DayOf(now)

(* Mutant: midnight itself. *)
UntilMidnight(t) == (t \div DayLen + 1) * DayLen - t

(* untilAfterMidnight, from tick t. *)
UntilAfterMidnight(t) == (t \div DayLen + 1) * DayLen + After - t

UpIdle == [pc |-> "sleep", todo |-> {}, day |-> NoDay, body |-> << >>, allOK |-> TRUE, wait |-> 0,
           wake |-> 0, since |-> 0]

UpType == [pc: {"sleep", "read", "post", "rename"}, todo: SUBSET Day, day: Day \cup {NoDay},
           body: Seq(Half), allOK: BOOLEAN, wait: Int, wake: Int, since: Nat]

Entry == [rec: Nat, day: Day, at: Nat]

TypeOK ==
    /\ StoreTypeOK
    /\ now \in 0 .. MaxNow
    /\ alive \in BOOLEAN
    /\ minute \in {"wait", "write", "flush"}
    /\ measure \in [Measurer -> 0 .. MaxNow \cup {Idle}]
    /\ up \in UpType
    /\ next \in Nat
    /\ written \subseteq Entry
    /\ posted \in [Day -> SUBSET Seq(Half)]
    /\ told \in BOOLEAN
    /\ budget \in [stops: Nat, netFails: Nat, fulls: Nat]

Init ==
    /\ StoreInit
    /\ now = 0
    /\ alive = TRUE
    /\ minute = "wait"
    /\ measure = [m \in Measurer |-> Idle]
    /\ up = UpIdle
    /\ next = 1
    /\ written = {}
    /\ posted = [d \in Day |-> {}]
    /\ told = FALSE
    /\ budget = [stops |-> 0, netFails |-> 0, fulls |-> 0]

------------------------------------------------------------------------------
(* Time and the environment.                                               *)

Measuring(m) == measure[m] # Idle

(***************************************************************************)
(* A minute's flush lands before the next minute is over, no measurement   *)
(* outlasts MaxLag, a sleeping upload loop wakes within the minute its     *)
(* timer is set for, and one that is awake waits for nothing but its       *)
(* request, which times out: the clock waits for all of these.             *)
(***************************************************************************)
Tick ==
    /\ now < MaxNow
    /\ minute = "wait"
    /\ \A m \in Measurer : Measuring(m) => now < measure[m] + MaxLag
    /\ alive => CASE up.pc = "sleep" -> now < up.wake
                  [] up.pc = "post"  -> now < up.since + PostTime
                  [] OTHER           -> FALSE
    /\ now' = now + 1
    /\ minute' = IF alive THEN "write" ELSE "wait"
    /\ UNCHANGED <<storeVars, alive, measure, up, next, written, posted, told, budget>>

DiskFills ==
    /\ budget.fulls < MaxFulls
    /\ disk.room = Plenty
    /\ \E room \in 0 .. 1 : disk' = [disk EXCEPT !.room = room]
    /\ budget' = [budget EXCEPT !.fulls = @ + 1]
    /\ UNCHANGED <<h, now, alive, minute, measure, up, next, written, posted, told>>

DiskFrees ==
    /\ disk.room < Plenty
    /\ disk' = [disk EXCEPT !.room = Plenty]
    /\ UNCHANGED <<h, sysVars>>

------------------------------------------------------------------------------
(* Records.                                                                *)

(* Records still to be had when every running measurement has written its own. *)
Spare == next + Cardinality({m \in Measurer : Measuring(m)}) <= MaxRec

(* Opening a file can fail only while the disk is full. *)
OsOutcomes == IF disk.room = 0 THEN BOOLEAN ELSE {TRUE}

(* store.write of the next record, stamped on day d; its error goes to ok. *)
WriteRecord(d, ok) ==
    \E osOK \in OsOutcomes :
        LET x == Write(Now, d, next, osOK)
        IN  /\ Becomes(x)
            /\ ok = x.ok
            /\ next' = next + 1
            /\ written' = IF x.ok THEN written \cup {[rec |-> next, day |-> d, at |-> now]}
                                  ELSE written

Begin(m) ==
    /\ alive /\ ~Measuring(m) /\ Spare
    /\ measure' = [measure EXCEPT ![m] = now]
    /\ UNCHANGED <<storeVars, now, alive, minute, up, next, written, posted, told, budget>>

(* The callers of writeEvent, writeProbes and the like discard the error. *)
Finish(m) ==
    /\ alive /\ Measuring(m)
    /\ \E ok \in BOOLEAN : WriteRecord(DayOf(measure[m]), ok)
    /\ measure' = [measure EXCEPT ![m] = Idle]
    /\ UNCHANGED <<now, alive, minute, up, posted, told, budget>>

(***************************************************************************)
(* flushMinute: the record of the minute that has just ended carries that  *)
(* minute's start; then the store is flushed as of the minute's end.  An   *)
(* error of either is printed.                                             *)
(***************************************************************************)
MinuteWrite ==
    /\ alive /\ minute = "write"
    /\ \/ /\ Spare
          /\ \E ok \in BOOLEAN :
                /\ WriteRecord(DayOf(now - 1), ok)
                /\ told' = (told \/ ~ok)
       \/ UNCHANGED <<storeVars, next, written, told>>   \* no target has data
    /\ minute' = "flush"
    /\ UNCHANGED <<now, alive, measure, up, posted, budget>>

MinuteFlush ==
    /\ alive /\ minute = "flush"
    /\ LET x == Flush(Now, Today)
       IN  Becomes(x) /\ told' = (told \/ ~x.ok)
    /\ minute' = "wait"
    /\ UNCHANGED <<now, alive, measure, up, next, written, posted, budget>>

------------------------------------------------------------------------------
(* The upload loop.                                                        *)

(* uploadLoop's sleep after a pass over the finished days. *)
Slept(allOK, wait) ==
    [UpIdle EXCEPT !.wake = now + (IF allOK THEN wait ELSE Retry)]

(* uploadPending: wait for the timer, then list the finished days. *)
UpList ==
    /\ alive /\ up.pc = "sleep" /\ (now >= up.wake \/ now = MaxNow)
    /\ LET x    == ClosePast(Now, Today)
           days == FinishedDays(x, Today)
           wait == UntilAfterMidnight(now)
       IN  /\ Becomes(x)
           /\ up' = IF ~x.ok THEN Slept(FALSE, wait)
                    ELSE IF days = {} THEN Slept(TRUE, wait)
                    ELSE [UpIdle EXCEPT !.pc = "read", !.todo = days, !.wait = wait]
           /\ told' = (told \/ ~x.ok)
    /\ UNCHANGED <<now, alive, minute, measure, next, written, posted, budget>>

(* uploadDay reads the oldest day's file, without the store's lock ... *)
UpRead ==
    /\ alive /\ up.pc = "read"
    /\ \E d \in up.todo :
          /\ \A e \in up.todo : d <= e
          /\ up' = [up EXCEPT !.pc = "post", !.day = d, !.since = now, !.body = disk.json[d]]
    /\ UNCHANGED <<storeVars, now, alive, minute, measure, next, written, posted, told, budget>>

(* ... posts what it read ... *)
UpPost ==
    /\ alive /\ up.pc = "post"
    /\ posted' = [posted EXCEPT ![up.day] = @ \cup {up.body}]
    /\ up' = [up EXCEPT !.pc = "rename"]
    /\ UNCHANGED <<storeVars, now, alive, minute, measure, next, written, told, budget>>

(* The day is done with; the next one, or the end of uploadPending. *)
NextDay(ok) ==
    LET rest  == up.todo \ {up.day}
        allOK == up.allOK /\ ok
    IN  up' = IF rest = {} THEN Slept(allOK, up.wait)
              ELSE [up EXCEPT !.pc = "read", !.todo = rest, !.body = << >>, !.allOK = allOK]

(* The request fails, before or after the receiver has stored the body. *)
UpFail ==
    /\ alive /\ up.pc = "post"
    /\ budget.netFails < MaxNetFails
    /\ budget' = [budget EXCEPT !.netFails = @ + 1]
    /\ \/ UNCHANGED posted
       \/ posted' = [posted EXCEPT ![up.day] = @ \cup {up.body}]
    /\ NextDay(FALSE)
    /\ UNCHANGED <<storeVars, now, alive, minute, measure, next, written, told>>

(* ... and renames the file, again without the lock. *)
UpRename ==
    /\ alive /\ up.pc = "rename"
    /\ Becomes(Renamed(Now, up.day))
    /\ NextDay(TRUE)
    /\ UNCHANGED <<now, alive, minute, measure, next, written, posted, told, budget>>

------------------------------------------------------------------------------
(* The process stops and starts again.                                     *)

OnDisk(w) ==
    \E s \in {disk.json[w.day], disk.sent[w.day]} :
        \E i \in 1 .. Len(s) - 1 : s[i] = 2 * w.rec /\ s[i + 1] = 2 * w.rec + 1

Down ==
    /\ alive
    /\ budget.stops < MaxStops
    /\ budget' = [budget EXCEPT !.stops = @ + 1]
    /\ alive' = FALSE
    /\ minute' = "wait"
    /\ measure' = [m \in Measurer |-> Idle]
    /\ up' = UpIdle
    /\ UNCHANGED <<now, next, posted, told>>

(* A kill or a power cut of the process: the buffer is gone. *)
Crash ==
    /\ Down
    /\ Becomes(Killed(Now))
    /\ written' = {w \in written : OnDisk(w)}

(* Run returns: the loops wind down, then the deferred close. *)
Stop ==
    /\ minute = "wait" /\ up.pc # "rename"
    /\ Down
    /\ Becomes(CloseLocked(Now))
    /\ UNCHANGED written

Start ==
    /\ ~alive
    /\ alive' = TRUE
    /\ up' = [UpIdle EXCEPT !.wake = now]
    /\ UNCHANGED <<storeVars, now, minute, measure, next, written, posted, told, budget>>

------------------------------------------------------------------------------
MinuteLoop == MinuteWrite \/ MinuteFlush
UploadLoop == UpList \/ UpRead \/ UpPost \/ UpFail \/ UpRename

Next ==
    \/ Tick \/ DiskFills \/ DiskFrees
    \/ \E m \in Measurer : Begin(m) \/ Finish(m)
    \/ MinuteLoop
    \/ UploadLoop
    \/ Crash \/ Stop \/ Start

Spec == Init /\ [][Next]_vars

(***************************************************************************)
(* Time passes, the loops run, a measurement ends by its deadline, systemd *)
(* restarts the process.  Nothing makes the disk free again.               *)
(***************************************************************************)
Fairness ==
    /\ WF_vars(Tick)
    /\ WF_vars(MinuteLoop)
    /\ WF_vars(UploadLoop)
    /\ \A m \in Measurer : WF_vars(Finish(m))
    /\ WF_vars(Start)

FairSpec == Spec /\ Fairness

------------------------------------------------------------------------------
(* Properties.                                                             *)

(***************************************************************************)
(* README "one JSON object per line, the header first": as long as nothing *)
(* crashes and the disk takes every write, each day file with what is      *)
(* still buffered for it is the header and then whole lines, in the order  *)
(* they were written, whatever the spills, the day changes and the         *)
(* reopenings in between.                                                  *)
(***************************************************************************)
WellFormed(s) ==
    s # << >> => /\ WholeLines(s)
                 /\ s[1] = 2 * Header
                 /\ \A i, j \in 1 .. Len(s) : i < j => s[i] < s[j]

FilesWellFormed == \A d \in Day : WellFormed(JsonOf(Now, d)) /\ WellFormed(SentOf(Now, d))

(***************************************************************************)
(* Every record the store accepted is in its day's file or in the buffer   *)
(* for it, and in one place only.                                          *)
(***************************************************************************)
HeadsAt(s, r) == {i \in 1 .. Len(s) : s[i] = 2 * r}

RecordsKept ==
    \A w \in written :
        Cardinality(HeadsAt(JsonOf(Now, w.day), w.rec))
          + Cardinality(HeadsAt(SentOf(Now, w.day), w.rec)) = 1

(* No record is written twice, whatever the disk refuses in between. *)
NeverTwice ==
    \A d \in Day, r \in Rec :
        Cardinality(HeadsAt(JsonOf(Now, d), r)) + Cardinality(HeadsAt(SentOf(Now, d), r)) <= 1

(***************************************************************************)
(* A day file only grows, until it becomes the .sent file as it is: no     *)
(* step, late record, failed write or crash rewrites what was flushed.     *)
(***************************************************************************)
AppendOnly ==
    [][\A d \in Day :
          \/ Extends(disk.json[d], disk'.json[d])
          \/ disk'.json[d] = << >> /\ disk'.sent[d] = disk.json[d]]_vars

(***************************************************************************)
(* "Nothing is ever deleted": what is on disk stays there, except that a   *)
(* whole day file becomes a .sent file.                                    *)
(***************************************************************************)
NothingDeleted ==
    [][\A d \in Day :
          /\ Extends(disk.sent[d], disk'.sent[d])
          /\ \/ Extends(disk.json[d], disk'.json[d])
             \/ Extends(disk.json[d], disk'.sent[d])]_vars

(***************************************************************************)
(* A day marked .sent is a day the receiver has, to the last byte.         *)
(***************************************************************************)
SentIsPosted == \A d \in disk.sentAt : SentOf(Now, d) \in posted[d]

(***************************************************************************)
(* "A restart loses at most a minute": a crash takes no record that was    *)
(* accepted before the minute that was last flushed.                       *)
(***************************************************************************)
LosesAtMostAMinute ==
    [][\A w \in written \ written' : w.at >= (IF minute = "wait" THEN now ELSE now - 1)]_vars

(***************************************************************************)
(* A file starts with its whole header and has no second one, crashes and  *)
(* restarts in the middle of the day included.                             *)
(***************************************************************************)
OneHeader ==
    \A d \in Day : LET s == JsonOf(Now, d)
                   IN  s # << >> => /\ Len(s) >= 2 /\ s[1] = 0 /\ s[2] = 1
                                    /\ \A i \in 2 .. Len(s) : s[i] # 0

(***************************************************************************)
(* Every finished day is sent in the end, through failed uploads and       *)
(* restarts.                                                               *)
(***************************************************************************)
FinishedDaysSent ==
    \A d \in Day : (d \in disk.jsonAt /\ d < Today) ~> (d \in disk.sentAt /\ d \notin disk.jsonAt)

(***************************************************************************)
(* upload.go: a finished day is sent one minute after midnight, "leaving   *)
(* the last minute's flush time to land".  No day is taken for upload      *)
(* while the flush of its own last minute is still to come.                *)
(***************************************************************************)
LastFlushLands ==
    \A d \in up.todo : ~(minute \in {"write", "flush"} /\ d = DayOf(now - 1) /\ d < Today)

(***************************************************************************)
(* Run: "every problem is reported as a FAIL line".  A record that was     *)
(* accepted and is nowhere has been reported.                              *)
(***************************************************************************)
LossIsReported ==
    (\E w \in written : ~OnDisk(w) /\ (h.day # w.day \/ h.file = "none")) => told

------------------------------------------------------------------------------
(***************************************************************************)
(* The day log the files stand for: the records of the sent file, of the   *)
(* day file and of the buffer.                                             *)
(***************************************************************************)
LogOf(d)     == RecordsIn(SentOf(Now, d) \o JsonOf(Now, d))
DurableOf(d) == Len(RecordsIn(disk.sent[d] \o disk.json[d]))

Log == INSTANCE DayLog WITH
    log     <- [d \in Day |-> LogOf(d)],
    durable <- [d \in Day |-> DurableOf(d)],
    sent    <- disk.sentAt

(* The store, its flushes and its uploads implement the day log. *)
ImplementsDayLog == Log!Spec
=============================================================================
