--------------------------- MODULE DayUploadProofs ---------------------------
(***************************************************************************)
(* For every number of days, records and measurements, every buffer size   *)
(* and every lag: the state stays well typed, and flushed bytes are never  *)
(* rewritten.                                                              *)
(***************************************************************************)
EXTENDS DayUpload, DayStoreProofs

(***************************************************************************)
(* The inductive invariant: an open file is a day's file, an upload in     *)
(* progress is of a day, and a minute is only flushed once one has passed. *)
(***************************************************************************)
IInv ==
    /\ TypeOK
    /\ GoodHandle(h)
    /\ up.pc \in {"post", "rename"} => up.day \in Day
    /\ minute # "wait" => now >= 1

(* The store of a state of the invariant is a good store, with the error nil. *)
LEMMA NowIsGood ==
    ASSUME IInv
    PROVE  Now \in GoodStore /\ Now.disk = disk /\ Now.h = h
  BY DEF IInv, TypeOK, StoreTypeOK, Now, GoodStore, StoreType

(* What a step that leaves the store in a good state owes the invariant. *)
LEMMA BecomesGood ==
    ASSUME NEW x \in GoodStore, Becomes(x)
    PROVE  StoreTypeOK' /\ GoodHandle(h)'
  BY DEF Becomes, GoodStore, StoreType, StoreTypeOK, GoodHandle

(* The upload loop before its first pass is well typed and asleep. *)
LEMMA UpIdleTyped == UpIdle \in UpType /\ UpIdle.pc = "sleep"
<1>1. << >> \in Seq(Half)
  BY EmptySeq
<1>2. QED
  BY <1>1 DEF UpIdle, UpType, NoDay

(* The upload loop's next state when a pass ends. *)
LEMMA SleptTyped ==
    ASSUME IInv, NEW allOK \in BOOLEAN, NEW wait \in Int
    PROVE  /\ Slept(allOK, wait) \in UpType
           /\ Slept(allOK, wait).pc = "sleep"
<1>1. now + (IF allOK THEN wait ELSE Retry) \in Int
  BY ClockAssumption DEF IInv, TypeOK
<1>2. QED
  BY <1>1, UpIdleTyped DEF Slept, UpType

(* Stopping, either way, leaves everything but the store well typed. *)
LEMMA DownTyped ==
    ASSUME IInv, Down
    PROVE  /\ now' \in 0 .. MaxNow /\ alive' \in BOOLEAN /\ minute' = "wait"
           /\ measure' \in [Measurer -> 0 .. MaxNow \cup {Idle}]
           /\ up' \in UpType /\ up'.pc = "sleep"
           /\ next' \in Nat /\ posted' \in [Day -> SUBSET Seq(Half)] /\ told' \in BOOLEAN
           /\ budget' \in [stops: Nat, netFails: Nat, fulls: Nat]
<1>1. budget' \in [stops: Nat, netFails: Nat, fulls: Nat]
  BY DEF Down, IInv, TypeOK
<1>2. up' \in UpType /\ up'.pc = "sleep"
  BY UpIdleTyped DEF Down
<1>3. measure' \in [Measurer -> 0 .. MaxNow \cup {Idle}]
  BY DEF Down
<1>4. QED
  BY <1>1, <1>2, <1>3 DEF Down, IInv, TypeOK

(* The invariant holds when the program has not run yet. *)
LEMMA InitInvariant == Init => IInv
<1>1. << >> \in Seq(Half)
  BY EmptySeq
<1>2. StoreInit => StoreTypeOK /\ GoodHandle(h)
  BY <1>1, BufCapAssumption
     DEF StoreInit, StoreTypeOK, DiskType, HandleType, NoHandle, GoodHandle, Room, Plenty
<1>3. Init => /\ now \in 0 .. MaxNow /\ next \in Nat
              /\ measure \in [Measurer -> 0 .. MaxNow \cup {Idle}]
              /\ up \in UpType /\ up.pc = "sleep"
  BY UpIdleTyped, ClockAssumption DEF Init
<1>4. Init => /\ posted \in [Day -> SUBSET Seq(Half)] /\ written \subseteq Entry
              /\ budget \in [stops: Nat, netFails: Nat, fulls: Nat]
  BY DEF Init
<1>5. QED
  BY <1>2, <1>3, <1>4 DEF Init, IInv, TypeOK

(* Writing a record keeps the invariant's part about the store and the records. *)
LEMMA WriteRecordTyped ==
    ASSUME IInv, NEW d \in Day, NEW ok, WriteRecord(d, ok)
    PROVE  /\ StoreTypeOK' /\ GoodHandle(h)' /\ next' \in Nat /\ written' \subseteq Entry
           /\ Grown(disk, disk') /\ ok \in BOOLEAN
<1>1. PICK osOK \in BOOLEAN :
          LET x == Write(Now, d, next, osOK)
          IN  /\ Becomes(x) /\ ok = x.ok /\ next' = next + 1
              /\ written' = IF x.ok THEN written \cup {[rec |-> next, day |-> d, at |-> now]}
                                    ELSE written
  BY DEF WriteRecord, OsOutcomes
<1> DEFINE x == Write(Now, d, next, osOK)
<1>2. next \in Nat /\ now \in Nat /\ written \subseteq Entry
  BY DEF IInv, TypeOK
<1>3. Sound(Now, x)
  BY <1>2, NowIsGood, WriteSound
<1>4. Becomes(x) /\ ok = x.ok /\ x \in GoodStore /\ Grown(disk, x.disk)
  BY <1>1, <1>3, NowIsGood DEF Sound
<1>5. [rec |-> next, day |-> d, at |-> now] \in Entry
  BY <1>2 DEF Entry
<1>6. next' \in Nat /\ written' \subseteq Entry
  BY <1>1, <1>2, <1>5
<1> HIDE DEF x
<1>7. QED
  BY <1>4, <1>6, BecomesGood DEF Becomes, GoodStore, StoreType

(* The upload loop's step to the next day keeps its type. *)
LEMMA NextDayTyped ==
    ASSUME IInv, NEW ok \in BOOLEAN, NextDay(ok)
    PROVE  /\ up' \in UpType
           /\ up'.pc \in {"sleep", "read"}
<1>1. << >> \in Seq(Half)
  BY EmptySeq
<1>2. up.allOK \in BOOLEAN /\ up.wait \in Int /\ (up.allOK /\ ok) \in BOOLEAN
  BY DEF IInv, TypeOK, UpType
<1>3. CASE up.todo \ {up.day} = {}
  BY <1>2, <1>3, SleptTyped DEF NextDay
<1>4. CASE up.todo \ {up.day} # {}
  BY <1>1, <1>2, <1>4 DEF NextDay, IInv, TypeOK, UpType
<1>5. QED
  BY <1>3, <1>4

(***************************************************************************)
(* Every step keeps the invariant.                                         *)
(***************************************************************************)
LEMMA StepInvariant == IInv /\ [Next]_vars => IInv'
<1> SUFFICES ASSUME IInv, [Next]_vars
             PROVE  IInv'
  OBVIOUS
<1>1. CASE Tick
  BY <1>1, ClockAssumption DEF Tick, IInv, TypeOK, StoreTypeOK, storeVars, GoodHandle
<1>2. CASE DiskFills
  <2>1. PICK room \in 0 .. 1 : disk' = [disk EXCEPT !.room = room]
    BY <1>2 DEF DiskFills
  <2>2. room \in Room
    BY BufCapAssumption DEF Room, Plenty
  <2>3. disk' \in DiskType
    BY <2>1, <2>2 DEF IInv, TypeOK, StoreTypeOK, DiskType
  <2>4. QED
    BY <1>2, <2>3 DEF DiskFills, IInv, TypeOK, StoreTypeOK, GoodHandle
<1>3. CASE DiskFrees
  <2>1. Plenty \in Room
    BY BufCapAssumption DEF Room, Plenty
  <2>2. disk' \in DiskType
    BY <1>3, <2>1 DEF DiskFrees, IInv, TypeOK, StoreTypeOK, DiskType
  <2>3. QED
    BY <1>3, <2>2 DEF DiskFrees, IInv, TypeOK, StoreTypeOK, GoodHandle, sysVars
<1>4. ASSUME NEW m \in Measurer, Begin(m)
      PROVE  IInv'
  BY <1>4 DEF Begin, IInv, TypeOK, StoreTypeOK, storeVars, GoodHandle
<1>5. ASSUME NEW m \in Measurer, Finish(m)
      PROVE  IInv'
  <2>1. measure[m] \in 0 .. MaxNow
    BY <1>5 DEF Finish, Measuring, IInv, TypeOK, Idle
  <2>2. StoreTypeOK' /\ GoodHandle(h)' /\ next' \in Nat /\ written' \subseteq Entry
    BY <1>5, <2>1, HorizonAssumption, WriteRecordTyped DEF Finish
  <2>3. measure' \in [Measurer -> 0 .. MaxNow \cup {Idle}]
    BY <1>5 DEF Finish, IInv, TypeOK
  <2>4. QED
    BY <1>5, <2>2, <2>3 DEF Finish, IInv, TypeOK
<1>6. CASE MinuteWrite
  <2>1. now - 1 \in 0 .. MaxNow
    <3>1. now >= 1
      BY <1>6 DEF MinuteWrite, IInv
    <3>2. QED
      BY <3>1, ClockAssumption DEF IInv, TypeOK
  <2>2. StoreTypeOK' /\ GoodHandle(h)' /\ next' \in Nat /\ written' \subseteq Entry /\ told' \in BOOLEAN
    <3>1. CASE UNCHANGED <<storeVars, next, written, told>>
      BY <3>1 DEF IInv, TypeOK, StoreTypeOK, storeVars, GoodHandle
    <3>2. CASE \E ok \in BOOLEAN : WriteRecord(DayOf(now - 1), ok) /\ told' = (told \/ ~ok)
      BY <3>2, <2>1, HorizonAssumption, WriteRecordTyped DEF IInv, TypeOK
    <3>3. QED
      BY <1>6, <3>1, <3>2 DEF MinuteWrite
  <2>3. QED
    BY <1>6, <2>2 DEF MinuteWrite, IInv, TypeOK
<1>7. CASE MinuteFlush
  <2> DEFINE x == Flush(Now, Today)
  <2>1. x \in GoodStore
    BY NowIsGood, FlushSound DEF Sound
  <2>2. Becomes(x) /\ told' = (told \/ ~x.ok)
    BY <1>7 DEF MinuteFlush
  <2>3. StoreTypeOK' /\ GoodHandle(h)' /\ told' \in BOOLEAN
    BY <2>1, <2>2, BecomesGood DEF GoodStore, StoreType, IInv, TypeOK
  <2>4. QED
    BY <1>7, <2>3 DEF MinuteFlush, IInv, TypeOK
<1>8. CASE UpList
  <2> DEFINE x    == ClosePast(Now, Today)
             days == FinishedDays(x, Today)
             wait == UntilAfterMidnight(now)
  <2>1. x \in GoodStore
    BY NowIsGood, ClosePastSound DEF Sound
  <2>2. StoreTypeOK' /\ GoodHandle(h)'
    BY <1>8, <2>1, BecomesGood DEF UpList
  <2>3. told' \in BOOLEAN
    BY <1>8, <2>1 DEF UpList, GoodStore, StoreType, IInv, TypeOK
  <2>4. wait \in Int
    <3>1. now \div DayLen \in Int
      BY ClockAssumption DEF IInv, TypeOK
    <3>2. DayLen \in Int /\ After \in Int /\ now \in Int
      BY ClockAssumption DEF IInv, TypeOK
    <3>3. QED
      BY <3>1, <3>2 DEF UntilAfterMidnight
  <2>5. days \in SUBSET Day
    BY <2>1 DEF FinishedDays, GoodStore, StoreType, DiskType
  <2>6. up' = IF ~x.ok THEN Slept(FALSE, wait)
              ELSE IF days = {} THEN Slept(TRUE, wait)
              ELSE [UpIdle EXCEPT !.pc = "read", !.todo = days, !.wait = wait]
    BY <1>8 DEF UpList
  <2> HIDE DEF x, days, wait
  <2>7. /\ up' \in UpType
        /\ up'.pc \notin {"post", "rename"}
    <3>1. [UpIdle EXCEPT !.pc = "read", !.todo = days, !.wait = wait] \in UpType
      BY <2>4, <2>5, UpIdleTyped DEF UpType
    <3>2. [UpIdle EXCEPT !.pc = "read", !.todo = days, !.wait = wait].pc = "read"
      BY UpIdleTyped DEF UpType
    <3>3. QED
      BY <2>4, <2>6, <3>1, <3>2, SleptTyped
  <2>8. QED
    BY <1>8, <2>2, <2>3, <2>7 DEF UpList, IInv, TypeOK
<1>9. CASE UpRead
  <2>1. PICK d \in up.todo :
            up' = [up EXCEPT !.pc = "post", !.day = d, !.since = now, !.body = disk.json[d]]
    BY <1>9 DEF UpRead
  <2>2. d \in Day /\ disk.json[d] \in Seq(Half) /\ now \in Nat
    BY DEF IInv, TypeOK, UpType, StoreTypeOK, DiskType
  <2>3. up' \in UpType /\ up'.day \in Day
    BY <2>1, <2>2 DEF IInv, TypeOK, UpType
  <2>4. QED
    BY <1>9, <2>3 DEF UpRead, IInv, TypeOK, StoreTypeOK, storeVars, GoodHandle
<1>10. CASE UpPost
  <2>1. up.body \in Seq(Half)
    BY DEF IInv, TypeOK, UpType
  <2>2. posted' \in [Day -> SUBSET Seq(Half)]
    BY <1>10, <2>1 DEF UpPost, IInv, TypeOK
  <2>3. up' \in UpType /\ up'.day = up.day /\ up.day \in Day
    BY <1>10 DEF UpPost, IInv, TypeOK, UpType
  <2>4. QED
    BY <1>10, <2>2, <2>3 DEF UpPost, IInv, TypeOK, StoreTypeOK, storeVars, GoodHandle
<1>11. CASE UpFail
  <2>1. up.body \in Seq(Half)
    BY DEF IInv, TypeOK, UpType
  <2>2. posted' \in [Day -> SUBSET Seq(Half)]
    BY <1>11, <2>1 DEF UpFail, IInv, TypeOK
  <2>3. NextDay(FALSE)
    BY <1>11 DEF UpFail
  <2>4. up' \in UpType /\ up'.pc \in {"sleep", "read"}
    BY <2>3, NextDayTyped
  <2>5. budget' \in [stops: Nat, netFails: Nat, fulls: Nat]
    BY <1>11 DEF UpFail, IInv, TypeOK
  <2>6. QED
    BY <1>11, <2>2, <2>4, <2>5
       DEF UpFail, IInv, TypeOK, StoreTypeOK, storeVars, GoodHandle
<1>12. CASE UpRename
  <2>1. up.day \in Day
    BY <1>12 DEF UpRename, IInv
  <2>2. Renamed(Now, up.day) \in GoodStore
    BY <2>1, NowIsGood, RenamedSound
  <2>3. StoreTypeOK' /\ GoodHandle(h)'
    BY <1>12, <2>2, BecomesGood DEF UpRename
  <2>4. NextDay(TRUE)
    BY <1>12 DEF UpRename
  <2>5. QED
    BY <1>12, <2>3, <2>4, NextDayTyped DEF UpRename, IInv, TypeOK
<1>13. CASE Crash
  <2>1. Killed(Now) \in GoodStore
    BY NowIsGood, NoHandleGood DEF Killed, GoodStore, StoreType
  <2>2. StoreTypeOK' /\ GoodHandle(h)'
    BY <1>13, <2>1, BecomesGood DEF Crash
  <2>3. written' \subseteq Entry
    BY <1>13 DEF Crash, IInv, TypeOK
  <2>4. Down
    BY <1>13 DEF Crash
  <2>5. QED
    BY <2>2, <2>3, <2>4, DownTyped DEF IInv, TypeOK
<1>14. CASE Stop
  <2>1. CloseLocked(Now) \in GoodStore
    BY NowIsGood, CloseLockedSound DEF Sound
  <2>2. StoreTypeOK' /\ GoodHandle(h)'
    BY <1>14, <2>1, BecomesGood DEF Stop
  <2>3. written' \subseteq Entry
    BY <1>14 DEF Stop, IInv, TypeOK
  <2>4. Down
    BY <1>14 DEF Stop
  <2>5. QED
    BY <2>2, <2>3, <2>4, DownTyped DEF IInv, TypeOK
<1>15. CASE Start
  <2>1. now \in Nat
    BY DEF IInv, TypeOK
  <2>2. up' = [UpIdle EXCEPT !.wake = now]
    BY <1>15 DEF Start
  <2>3. [UpIdle EXCEPT !.wake = now] \in UpType
    BY <2>1, UpIdleTyped DEF UpType
  <2>4. [UpIdle EXCEPT !.wake = now].pc = "sleep"
    BY UpIdleTyped DEF UpType
  <2>5. QED
    BY <1>15, <2>2, <2>3, <2>4 DEF Start, IInv, TypeOK, StoreTypeOK, storeVars, GoodHandle
<1>16. CASE UNCHANGED vars
  BY <1>16 DEF vars, storeVars, sysVars, IInv, TypeOK, StoreTypeOK, GoodHandle
<1>17. QED
  BY <1>1, <1>2, <1>3, <1>4, <1>5, <1>6, <1>7, <1>8, <1>9, <1>10, <1>11, <1>12, <1>13, <1>14,
     <1>15, <1>16 DEF Next, MinuteLoop, UploadLoop

(* The invariant holds in every reachable state. *)
THEOREM Invariant == Spec => []IInv
  BY InitInvariant, StepInvariant, PTL DEF Spec

(* Type correctness of the store, the clock, the minute loop and the uploads. *)
THEOREM TypeCorrect == Spec => []TypeOK
<1>1. IInv => TypeOK
  BY DEF IInv
<1>2. QED
  BY <1>1, Invariant, PTL

-----------------------------------------------------------------------------
(* What one step does to one day file. *)
KeptOrSent(d) ==
    \/ Extends(disk.json[d], disk'.json[d])
    \/ disk'.json[d] = << >> /\ disk'.sent[d] = disk.json[d]

(* A step of the store that only grows the day files keeps every one. *)
LEMMA GrownKeeps ==
    ASSUME Grown(disk, disk')
    PROVE  \A d \in Day : KeptOrSent(d)
  BY DEF Grown, KeptOrSent

(* So does a step that does not touch them. *)
LEMMA SameFilesKeep ==
    ASSUME IInv, disk'.json = disk.json
    PROVE  \A d \in Day : KeptOrSent(d)
<1>1. \A d \in Day : disk.json[d] \in Seq(Half)
  BY DEF IInv, TypeOK, StoreTypeOK, DiskType
<1>2. QED
  BY <1>1, ExtendsReflexive DEF KeptOrSent

(* Each step of a state of the invariant extends a day file or sends it as it is. *)
LEMMA StepKeeps ==
    ASSUME IInv, [Next]_vars
    PROVE  \A d \in Day : KeptOrSent(d)
<1>1. CASE UNCHANGED storeVars
  BY <1>1, SameFilesKeep DEF storeVars
<1>2. CASE DiskFills \/ DiskFrees
  <2>1. disk'.json = disk.json
    BY <1>2 DEF DiskFills, DiskFrees, IInv, TypeOK, StoreTypeOK, DiskType
  <2>2. QED
    BY <2>1, SameFilesKeep
<1>3. ASSUME NEW m \in Measurer, Finish(m)
      PROVE  \A d \in Day : KeptOrSent(d)
  <2>1. measure[m] \in 0 .. MaxNow
    BY <1>3 DEF Finish, Measuring, IInv, TypeOK, Idle
  <2>2. QED
    BY <1>3, <2>1, HorizonAssumption, WriteRecordTyped, GrownKeeps DEF Finish
<1>4. CASE MinuteWrite
  <2>1. now - 1 \in 0 .. MaxNow
    <3>1. now >= 1
      BY <1>4 DEF MinuteWrite, IInv
    <3>2. QED
      BY <3>1, ClockAssumption DEF IInv, TypeOK
  <2>2. CASE UNCHANGED storeVars
    BY <2>2, <1>1
  <2>3. CASE \E ok \in BOOLEAN : WriteRecord(DayOf(now - 1), ok)
    BY <2>1, <2>3, HorizonAssumption, WriteRecordTyped, GrownKeeps
  <2>4. QED
    BY <1>4, <2>2, <2>3 DEF MinuteWrite, storeVars
<1>5. CASE MinuteFlush
  <2>1. Grown(disk, Flush(Now, Today).disk) /\ disk' = Flush(Now, Today).disk
    BY <1>5, NowIsGood, FlushSound DEF MinuteFlush, Becomes, Sound
  <2>2. QED
    BY <2>1, GrownKeeps
<1>6. CASE UpList
  <2>1. Grown(disk, ClosePast(Now, Today).disk) /\ disk' = ClosePast(Now, Today).disk
    BY <1>6, NowIsGood, ClosePastSound DEF UpList, Becomes, Sound
  <2>2. QED
    BY <2>1, GrownKeeps
<1>7. CASE UpRename
  <2>1. up.day \in Day /\ disk' = Renamed(Now, up.day).disk
    BY <1>7 DEF UpRename, IInv, Becomes
  <2>2. /\ disk'.json[up.day] = << >> /\ disk'.sent[up.day] = disk.json[up.day]
        /\ \A e \in Day \ {up.day} : disk'.json[e] = disk.json[e]
    BY <2>1, NowIsGood, RenamedSound
  <2>3. \A d \in Day : disk.json[d] \in Seq(Half)
    BY DEF IInv, TypeOK, StoreTypeOK, DiskType
  <2>4. QED
    BY <2>2, <2>3, ExtendsReflexive DEF KeptOrSent
<1>8. CASE Crash
  <2>1. disk' = disk
    BY <1>8 DEF Crash, Becomes, Killed, Now
  <2>2. QED
    BY <2>1, SameFilesKeep
<1>9. CASE Stop
  <2>1. Grown(disk, CloseLocked(Now).disk) /\ disk' = CloseLocked(Now).disk
    BY <1>9, NowIsGood, CloseLockedSound DEF Stop, Becomes, Sound
  <2>2. QED
    BY <2>1, GrownKeeps
<1>10. QED
  BY <1>1, <1>2, <1>3, <1>4, <1>5, <1>6, <1>7, <1>8, <1>9
     DEF Next, MinuteLoop, UploadLoop, Tick, Begin, UpRead, UpPost, UpFail, Start, vars, storeVars

(***************************************************************************)
(* Flushed bytes are never rewritten: a day file only grows until it       *)
(* becomes the .sent file as it is, through late records, failed writes,   *)
(* crashes and uploads.                                                    *)
(***************************************************************************)
THEOREM NeverRewritten == Spec => AppendOnly
<1>1. IInv /\ [Next]_vars =>
          [\A d \in Day : \/ Extends(disk.json[d], disk'.json[d])
                          \/ disk'.json[d] = << >> /\ disk'.sent[d] = disk.json[d]]_vars
  BY StepKeeps DEF KeptOrSent
<1>2. QED
  BY <1>1, Invariant, PTL DEF Spec, AppendOnly

-----------------------------------------------------------------------------
(* What one step does to the store. *)

(***************************************************************************)
(* The steps that write no record and rename no file; those that write     *)
(* one; the rename.                                                        *)
(***************************************************************************)
SettleStep ==
    /\ next' = next /\ Settles(Now, Now')
    /\ written' = written \/ Crash
    /\ Calm(Now) /\ MaxFulls = 0 => SettlesCalm(Now, Now') \/ (Crash /\ h' = NoHandle /\ disk' = disk)

WriteStep(d) ==
    /\ next' = next + 1 /\ Writes(Now, Now', d, Line(next))
    /\ written' \in {written, written \cup {[rec |-> next, day |-> d, at |-> now]}}
    /\ Calm(Now) => WritesCalm(Now, Now', d, Line(next))
    /\ \/ d = DayOf(now - 1) /\ minute = "write"
       \/ \E m \in Measurer : Measuring(m) /\ d = DayOf(measure[m])
    /\ alive /\ UNCHANGED <<now, alive, up, posted>>

RenameStep ==
    /\ UNCHANGED <<next, written>> /\ UpRename /\ Renames(Now, Now', up.day)

(* The store after a step is the operation's result. *)
LEMMA NowIs ==
    ASSUME IInv, NEW x \in GoodStore, Becomes(x)
    PROVE  /\ Now' \in GoodStore /\ Now'.ok /\ Now'.disk = x.disk /\ Now'.h = x.h
           /\ \A f, d : /\ File(Now', f, d) = File(x, f, d) /\ Held(Now', f, d) = Held(x, f, d)
                        /\ (OpenOn(Now', f, d) <=> OpenOn(x, f, d))
           /\ Calm(x) <=> Calm(Now')
<1>1. Now' = [disk |-> x.disk, h |-> x.h, ok |-> TRUE]
  BY DEF Becomes, Now
<1>2. Now'.ok /\ Now'.disk = x.disk /\ Now'.h = x.h
  BY <1>1
<1>3. Now' \in GoodStore
  BY <1>1 DEF GoodStore, StoreType
<1>4. QED
  BY <1>2, <1>3 DEF File, Held, Pending, OpenOn, Calm

(* A step to what a settling operation returns settles the store. *)
LEMMA NowSettles ==
    ASSUME IInv, NEW x \in GoodStore, Becomes(x), Settles(Now, x)
    PROVE  /\ Settles(Now, Now')
           /\ SettlesCalm(Now, x) => SettlesCalm(Now, Now')
<1> DEFINE y == Now'
<1>1. /\ y \in GoodStore /\ y.ok /\ y.disk = x.disk /\ y.h = x.h
      /\ \A f, d : /\ File(y, f, d) = File(x, f, d) /\ Held(y, f, d) = Held(x, f, d)
                   /\ (OpenOn(y, f, d) <=> OpenOn(x, f, d))
      /\ Calm(x) <=> Calm(y)
  BY NowIs
<1> HIDE DEF y
<1>2. Settles(Now, y)
  BY <1>1 DEF Settles
<1>3. SettlesCalm(Now, x) => SettlesCalm(Now, y)
  BY <1>1 DEF SettlesCalm
<1>4. QED
  BY <1>2, <1>3 DEF y

(* A step to what a write returns is a write. *)
LEMMA NowWrites ==
    ASSUME IInv, NEW x \in GoodStore, Becomes(x), NEW d \in Day, NEW line, Writes(Now, x, d, line)
    PROVE  /\ Writes(Now, Now', d, line)
           /\ WritesCalm(Now, x, d, line) => WritesCalm(Now, Now', d, line)
<1> DEFINE y == Now'
<1>1. /\ y \in GoodStore /\ y.ok /\ y.disk = x.disk /\ y.h = x.h
      /\ \A f, e : /\ File(y, f, e) = File(x, f, e) /\ Held(y, f, e) = Held(x, f, e)
                   /\ (OpenOn(y, f, e) <=> OpenOn(x, f, e))
      /\ Calm(x) <=> Calm(y)
  BY NowIs
<1> HIDE DEF y
<1>2. \A f, e : Grew(Now, x, f, e, line) => Grew(Now, y, f, e, line)
  BY <1>1 DEF Grew
<1>3. Writes(Now, y, d, line)
  BY <1>1, <1>2 DEF Writes
<1>4. WritesCalm(Now, x, d, line) => WritesCalm(Now, y, d, line)
  BY <1>1 DEF WritesCalm
<1>5. QED
  BY <1>3, <1>4 DEF y

(* A step to what a rename returns is a rename. *)
LEMMA NowRenames ==
    ASSUME IInv, NEW x \in GoodStore, Becomes(x), NEW d \in Day, Renames(Now, x, d)
    PROVE  Renames(Now, Now', d)
<1> DEFINE y == Now'
<1>1. /\ y \in GoodStore /\ y.ok /\ y.disk = x.disk /\ y.h = x.h
      /\ \A f, e : /\ File(y, f, e) = File(x, f, e) /\ Held(y, f, e) = Held(x, f, e)
                   /\ (OpenOn(y, f, e) <=> OpenOn(x, f, e))
  BY NowIs
<1> HIDE DEF y
<1>2. Renames(Now, y, d)
  BY <1>1 DEF Renames
<1>3. QED
  BY <1>2 DEF y

(* store.write of the next record is a write step. *)
LEMMA RecordIsWritten ==
    ASSUME IInv, NEW d \in Day, NEW ok, WriteRecord(d, ok)
    PROVE  /\ next' = next + 1 /\ Writes(Now, Now', d, Line(next))
           /\ written' \in {written, written \cup {[rec |-> next, day |-> d, at |-> now]}}
           /\ Calm(Now) => WritesCalm(Now, Now', d, Line(next))
<1>1. PICK osOK \in OsOutcomes :
          LET x == Write(Now, d, next, osOK)
          IN  /\ Becomes(x) /\ ok = x.ok /\ next' = next + 1
              /\ written' = IF x.ok THEN written \cup {[rec |-> next, day |-> d, at |-> now]}
                                    ELSE written
  BY DEF WriteRecord
<1> DEFINE x == Write(Now, d, next, osOK)
<1>2. osOK \in BOOLEAN /\ (Calm(Now) => osOK)
  <2>1. osOK \in BOOLEAN
    BY DEF OsOutcomes
  <2>2. Now.disk = disk
    BY NowIsGood
  <2>3. Calm(Now) => disk.room = BufCap
    BY <2>2 DEF Calm, Plenty
  <2>4. disk.room = BufCap => OsOutcomes = {TRUE}
    <3>1. BufCap # 0
      BY BufCapAssumption
    <3>2. QED
      BY <3>1, Zenon DEF OsOutcomes
  <2>5. QED
    BY <2>1, <2>3, <2>4
<1>3. Now \in GoodStore /\ Now.ok /\ next \in Nat
  BY NowIsGood DEF Now, IInv, TypeOK
<1>4. Writes(Now, x, d, Line(next)) /\ (Calm(Now) => WritesCalm(Now, x, d, Line(next)))
  BY <1>2, <1>3, WriteHeld
<1>5. x \in GoodStore /\ Becomes(x)
  BY <1>1, <1>4 DEF Writes
<1>6. next' = next + 1 /\ written' \in {written, written \cup {[rec |-> next, day |-> d, at |-> now]}}
  BY <1>1
<1> HIDE DEF x
<1>7. QED
  BY <1>4, <1>5, <1>6, NowWrites

(* Only a measurement that ends and the minute loop write records. *)
LEMMA WritersAre ==
    ASSUME [Next]_vars, next' # next
    PROVE  UNCHANGED <<now, minute>> \/ MinuteWrite
  BY DEF Next, MinuteLoop, UploadLoop, Tick, DiskFills, DiskFrees, Begin, Finish, MinuteFlush,
         UpList, UpRead, UpPost, UpFail, UpRename, Crash, Stop, Down, Start, vars, sysVars

(* Every step of the system is one of the three. *)
LEMMA StoreStep ==
    ASSUME IInv, [Next]_vars
    PROVE  SettleStep \/ RenameStep \/ \E d \in Day : WriteStep(d)
<1>0. Now \in GoodStore /\ Now.disk = disk /\ Now.h = h
  BY NowIsGood
<1>1. ASSUME UNCHANGED storeVars, UNCHANGED <<next, written>>
      PROVE  SettleStep
  <2>1. Becomes(Now)
    BY <1>1 DEF Becomes, Now, storeVars
  <2>2. Settles(Now, Now) /\ (Calm(Now) => SettlesCalm(Now, Now))
    BY <1>0, StaysSettles
  <2>3. QED
    BY <1>0, <1>1, <2>1, <2>2, NowSettles DEF SettleStep
<1>2. CASE DiskFills \/ DiskFrees
  <2>1. IInv'
    BY StepInvariant
  <2>2. Now' \in GoodStore /\ Now'.disk = disk' /\ Now'.h = h'
    BY <2>1 DEF IInv, TypeOK, StoreTypeOK, Now, GoodStore, StoreType
  <2>3. h' = h /\ UNCHANGED <<next, written>> /\ disk \in DiskType
    BY <1>2 DEF DiskFills, DiskFrees, sysVars, IInv, TypeOK, StoreTypeOK
  <2>4. /\ disk'.json = disk.json /\ disk'.sent = disk.sent /\ disk'.jsonAt = disk.jsonAt
        /\ disk'.sentAt = disk.sentAt
    BY <1>2, <2>3 DEF DiskFills, DiskFrees, DiskType
  <2>5. \A f, d : File(Now', f, d) = File(Now, f, d) /\ Held(Now', f, d) = Held(Now, f, d)
    BY <1>0, <2>2, <2>3, <2>4 DEF File, Held, Pending
  <2>6. \A f \in Names, d \in Day : /\ Extends(File(Now, f, d), File(Now', f, d))
                                    /\ Extends(Held(Now', f, d), Held(Now, f, d))
    BY <1>0, <2>5, HeldTyped, ExtendsReflexive
  <2>7. Settles(Now, Now')
    BY <1>0, <2>2, <2>3, <2>4, <2>5, <2>6 DEF Settles
  <2>8. ~(Calm(Now) /\ MaxFulls = 0)
    BY <1>0, <1>2, BufCapAssumption DEF DiskFills, DiskFrees, Calm, IInv, TypeOK, Plenty
  <2>9. QED
    BY <2>3, <2>7, <2>8 DEF SettleStep
<1>3. ASSUME NEW m \in Measurer, Finish(m)
      PROVE  \E d \in Day : WriteStep(d)
  <2>1. measure[m] \in 0 .. MaxNow
    BY <1>3 DEF Finish, Measuring, IInv, TypeOK, Idle
  <2>2. DayOf(measure[m]) \in Day
    BY <2>1, HorizonAssumption
  <2>3. PICK ok \in BOOLEAN : WriteRecord(DayOf(measure[m]), ok)
    BY <1>3 DEF Finish
  <2>4. WriteStep(DayOf(measure[m]))
    <3>1. alive /\ UNCHANGED <<now, alive, up, posted>> /\ Measuring(m)
      BY <1>3 DEF Finish
    <3>2. QED
      BY <2>2, <2>3, <3>1, RecordIsWritten DEF WriteStep
  <2>5. QED
    BY <2>2, <2>4
<1>4. CASE MinuteWrite
  <2>1. now >= 1 /\ now - 1 \in 0 .. MaxNow
    <3>1. now >= 1
      BY <1>4 DEF MinuteWrite, IInv
    <3>2. QED
      BY <3>1, ClockAssumption DEF IInv, TypeOK
  <2>2. DayOf(now - 1) \in Day
    BY <2>1, HorizonAssumption
  <2>3. CASE UNCHANGED <<storeVars, next, written, told>>
    BY <1>1, <2>3 DEF storeVars
  <2>4. CASE \E ok \in BOOLEAN : WriteRecord(DayOf(now - 1), ok)
    <3>1. PICK ok \in BOOLEAN : WriteRecord(DayOf(now - 1), ok)
      BY <2>4
    <3>2. alive /\ minute = "write" /\ UNCHANGED <<now, alive, up, posted>>
      BY <1>4 DEF MinuteWrite
    <3>3. WriteStep(DayOf(now - 1))
      BY <2>2, <3>1, <3>2, RecordIsWritten DEF WriteStep
    <3>4. QED
      BY <2>2, <3>3
  <2>5. QED
    BY <1>4, <2>3, <2>4 DEF MinuteWrite
<1>5. CASE MinuteFlush
  <2> DEFINE x == Flush(Now, Today)
  <2>1. Becomes(x) /\ UNCHANGED <<next, written>>
    BY <1>5 DEF MinuteFlush
  <2>2. Settles(Now, x) /\ (Calm(Now) => SettlesCalm(Now, x))
    BY <1>0, FlushSettles
  <2> HIDE DEF x
  <2>3. x \in GoodStore
    BY <2>2 DEF Settles
  <2>4. QED
    BY <2>1, <2>2, <2>3, NowSettles DEF SettleStep
<1>6. CASE UpList
  <2> DEFINE x == ClosePast(Now, Today)
  <2>1. Becomes(x) /\ UNCHANGED <<next, written>>
    BY <1>6 DEF UpList
  <2>2. Settles(Now, x) /\ (Calm(Now) => SettlesCalm(Now, x))
    BY <1>0, FlushSettles
  <2> HIDE DEF x
  <2>3. x \in GoodStore
    BY <2>2 DEF Settles
  <2>4. QED
    BY <2>1, <2>2, <2>3, NowSettles DEF SettleStep
<1>7. CASE UpRename
  <2> DEFINE x == Renamed(Now, up.day)
  <2>1. Becomes(x) /\ UNCHANGED <<next, written>> /\ up.day \in Day
    BY <1>7 DEF UpRename, IInv
  <2>2. Renames(Now, x, up.day)
    BY <1>0, <2>1, RenamedHeld
  <2> HIDE DEF x
  <2>3. x \in GoodStore
    BY <2>2 DEF Renames
  <2>4. QED
    BY <1>7, <2>1, <2>2, <2>3, NowRenames DEF RenameStep
<1>8. CASE Crash
  <2> DEFINE x == Killed(Now)
  <2>1. Becomes(x) /\ next' = next
    BY <1>8 DEF Crash, Down
  <2>2. Settles(Now, x) /\ x.h = NoHandle /\ x.disk = disk
    BY <1>0, KilledSettles DEF Killed, GoodStore, StoreType
  <2> HIDE DEF x
  <2>3. x \in GoodStore
    BY <2>2 DEF Settles
  <2>4. QED
    BY <1>8, <2>1, <2>2, <2>3, NowSettles DEF SettleStep, Becomes
<1>9. CASE Stop
  <2> DEFINE x == CloseLocked(Now)
  <2>1. Becomes(x) /\ UNCHANGED <<next, written>>
    BY <1>9 DEF Stop, Down
  <2>2. Settles(Now, x) /\ (Calm(Now) => SettlesCalm(Now, x))
    BY <1>0, CloseSettles
  <2> HIDE DEF x
  <2>3. x \in GoodStore
    BY <2>2 DEF Settles
  <2>4. QED
    BY <2>1, <2>2, <2>3, NowSettles DEF SettleStep
<1>10. QED
  BY <1>1, <1>2, <1>3, <1>4, <1>5, <1>6, <1>7, <1>8, <1>9
     DEF Next, MinuteLoop, UploadLoop, Tick, Begin, UpRead, UpPost, UpFail, Start, vars, storeVars,
         sysVars

-----------------------------------------------------------------------------
(***************************************************************************)
(* The invariant of the files: they are open under the names they have,    *)
(* their records come in order and belong to one place, and the upload     *)
(* loop works on files that are there.                                     *)
(***************************************************************************)
FilesInv ==
    /\ IInv
    /\ Named(Now)
    /\ Tidy(Now, next) /\ next >= 1
    /\ up.todo \subseteq disk.jsonAt
    /\ up.pc \in {"post", "rename"} => up.day \in up.todo

(* The files invariant holds at the start. *)
LEMMA InitFiles == Init => FilesInv
<1> SUFFICES ASSUME Init PROVE FilesInv
  OBVIOUS
<1>1. IInv
  BY InitInvariant
<1>2. Now \in GoodStore /\ Now.disk = disk /\ Now.h = h
  BY <1>1, NowIsGood
<1>3. next = 1 /\ up.todo = {} /\ up.pc = "sleep"
  BY DEF Init, UpIdle
<1>4. /\ h.file = "none" /\ disk.jsonAt = {} /\ disk.sentAt = {}
      /\ \A d \in Day : disk.json[d] = << >> /\ disk.sent[d] = << >>
  BY DEF Init, StoreInit, NoHandle
<1>5. Named(Now)
  BY <1>2, <1>4 DEF Named, File
<1>6. \A f \in Names, d \in Day : Held(Now, f, d) = << >>
  BY <1>2, <1>4, <1>5, NotThereIsEmpty DEF Names
<1>7. Tidy(Now, next)
  <2>1. << >> \in Seq(Half) /\ 1 \in Nat
    BY EmptySeq
  <2>2. \A d \in Day : Held(Now, "json", d) = << >> /\ Held(Now, "sent", d) = << >>
    BY <1>6 DEF Names
  <2>3. QED
    BY <1>3, <2>1, <2>2, EmptyIsRising DEF Tidy
<1>8. QED
  BY <1>1, <1>3, <1>5, <1>7 DEF FilesInv

(* What the upload loop works on stays there. *)
LEMMA StepTodo ==
    ASSUME FilesInv, [Next]_vars
    PROVE  /\ (up.todo \subseteq disk.jsonAt)'
           /\ (up.pc \in {"post", "rename"} => up.day \in up.todo)'
<1>0. IInv /\ Now.disk = disk /\ Now.h = h /\ Now'.disk = disk' /\ Now'.h = h'
  BY NowIsGood DEF FilesInv, Now
<1>1. up \in UpType
  BY <1>0 DEF IInv, TypeOK
<1>2. UpIdle.todo = {} /\ UpIdle.pc = "sleep"
  BY DEF UpIdle
<1>3. ASSUME NEW ok, NextDay(ok)
      PROVE  /\ up'.pc \in {"sleep", "read"}
             /\ up'.todo \subseteq up.todo \ {up.day}
  <2>1. CASE up.todo \ {up.day} = {}
    <3>1. up' = Slept(up.allOK /\ ok, up.wait)
      BY <1>3, <2>1 DEF NextDay
    <3>2. up'.todo = {} /\ up'.pc = "sleep"
      BY <3>1 DEF Slept, UpIdle
    <3>3. QED
      BY <3>2
  <2>2. CASE up.todo \ {up.day} # {}
    BY <1>1, <1>3, <2>2 DEF NextDay, UpType
  <2>3. QED
    BY <2>1, <2>2
<1>4. disk.jsonAt \subseteq disk'.jsonAt \/ RenameStep
  <2>1. CASE SettleStep
    BY <1>0, <2>1 DEF SettleStep, Settles
  <2>2. ASSUME NEW d \in Day, WriteStep(d)
        PROVE  disk.jsonAt \subseteq disk'.jsonAt
    BY <1>0, <2>2 DEF WriteStep, Writes
  <2>3. QED
    BY <1>0, <2>1, <2>2, StoreStep
<1>5. CASE RenameStep
  <2>1. NextDay(TRUE) /\ disk'.jsonAt = disk.jsonAt \ {up.day}
    BY <1>0, <1>5 DEF RenameStep, UpRename, Renames
  <2>2. QED
    BY <1>3, <2>1 DEF FilesInv
<1>6. CASE disk.jsonAt \subseteq disk'.jsonAt
  <2>1. CASE UNCHANGED up
    BY <1>6, <2>1 DEF FilesInv
  <2>2. CASE up'.todo = {} /\ up'.pc = "sleep"
    BY <2>2
  <2>3. CASE UpList
    <3> DEFINE x    == ClosePast(Now, Today)
               days == FinishedDays(x, Today)
    <3>1. Becomes(x) /\ up'.pc \in {"sleep", "read"} /\ up'.todo \in {{}, days}
      BY <2>3 DEF UpList, Slept, UpIdle
    <3>2. days \subseteq x.disk.jsonAt /\ disk' = x.disk
      BY <3>1 DEF FinishedDays, Becomes
    <3> HIDE DEF days, x
    <3>3. QED
      BY <3>1, <3>2
  <2>4. CASE UpRead
    <3>1. PICK d \in up.todo :
              up' = [up EXCEPT !.pc = "post", !.day = d, !.since = now, !.body = disk.json[d]]
      BY <2>4 DEF UpRead
    <3>2. up'.todo = up.todo /\ up'.day = d
      BY <1>1, <3>1 DEF UpType
    <3>3. QED
      BY <1>6, <3>2 DEF FilesInv
  <2>5. CASE UpPost
    <3>1. up' = [up EXCEPT !.pc = "rename"] /\ up.pc = "post"
      BY <2>5 DEF UpPost
    <3>2. up'.todo = up.todo /\ up'.day = up.day
      BY <1>1, <3>1 DEF UpType
    <3>3. QED
      BY <1>6, <3>1, <3>2 DEF FilesInv
  <2>6. CASE UpFail \/ UpRename
    <3>1. \E ok : NextDay(ok)
      BY <2>6 DEF UpFail, UpRename
    <3>2. QED
      BY <1>3, <1>6, <3>1 DEF FilesInv
  <2>7. CASE Crash \/ Stop
    <3>1. up' = UpIdle
      BY <2>7 DEF Crash, Stop, Down
    <3>2. QED
      BY <1>2, <2>2, <3>1
  <2>8. CASE Start
    <3>1. up' = [UpIdle EXCEPT !.wake = now]
      BY <2>8 DEF Start
    <3>2. up'.todo = {} /\ up'.pc = "sleep"
      BY <3>1 DEF UpIdle
    <3>3. QED
      BY <2>2, <3>2
  <2>9. QED
    BY <2>1, <2>3, <2>4, <2>5, <2>6, <2>7, <2>8
       DEF Next, MinuteLoop, UploadLoop, Tick, DiskFills, DiskFrees, Begin, Finish, MinuteWrite,
           MinuteFlush, vars, sysVars
<1>7. QED
  BY <1>4, <1>5, <1>6

(* Every step preserves it. *)
LEMMA StepFiles == FilesInv /\ [Next]_vars => FilesInv'
<1> SUFFICES ASSUME FilesInv, [Next]_vars PROVE FilesInv'
  OBVIOUS
<1>1. IInv /\ IInv'
  BY StepInvariant DEF FilesInv
<1>2. Now \in GoodStore /\ Now.disk = disk /\ Now.h = h /\ next \in Nat /\ next >= 1
  BY <1>1, NowIsGood DEF FilesInv, IInv, TypeOK
<1>3. Named(Now) /\ Tidy(Now, next)
  BY DEF FilesInv
<1>4. next' >= 1 /\ Named(Now') /\ Tidy(Now', next')
  <2>1. CASE SettleStep
    BY <1>2, <1>3, <2>1, TidySettles DEF SettleStep
  <2>2. CASE RenameStep
    <3>1. Renames(Now, Now', up.day) /\ next' = next /\ up.pc = "rename"
      BY <2>2 DEF RenameStep, UpRename
    <3>2. up.day \in Day /\ up.day \in Now.disk.jsonAt
      BY <1>1, <1>2, <3>1 DEF FilesInv, IInv
    <3>3. QED
      BY <1>2, <1>3, <3>1, <3>2, TidyRenames
  <2>3. ASSUME NEW d \in Day, WriteStep(d)
        PROVE  next' >= 1 /\ Named(Now') /\ Tidy(Now', next')
    <3>1. next' = next + 1 /\ Writes(Now, Now', d, Line(next))
      BY <2>3 DEF WriteStep
    <3>2. Named(Now') /\ Tidy(Now', next + 1)
      BY <1>2, <1>3, <3>1, TidyWrites
    <3>3. QED
      BY <1>2, <3>1, <3>2
  <2>4. QED
    BY <1>1, <2>1, <2>2, <2>3, StoreStep
<1>5. Named(Now)' /\ Tidy(Now, next)'
  BY <1>4
<1>6. QED
  BY <1>1, <1>4, <1>5, StepTodo DEF FilesInv

(***************************************************************************)
(* Files are open under the names they have, their records come in order   *)
(* and belong to one place, and the upload loop works on files that are    *)
(* there.                                                                  *)
(***************************************************************************)
THEOREM FilesInvariant == Spec => []FilesInv
  BY InitFiles, StepFiles, PTL DEF Spec

(* A record has at most one place in the two files of a day. *)
LEMMA OnePlace ==
    ASSUME NEW a \in Seq(Half), NEW b \in Seq(Half), NEW n, Rising(a, n), Rising(b, n), Apart(a, b),
           NEW r \in Nat, r >= 1 
    PROVE  /\ Cardinality(HeadsAt(a, r)) \in {0, 1} /\ Cardinality(HeadsAt(b, r)) \in {0, 1}
           /\ Cardinality(HeadsAt(a, r)) = 1 <=> HeadsAt(a, r) # {}
           /\ Cardinality(HeadsAt(b, r)) = 1 <=> HeadsAt(b, r) # {}
           /\ HeadsAt(a, r) = {} \/ HeadsAt(b, r) = {}
<1>1. ASSUME NEW s \in Seq(Half), Rising(s, n)
      PROVE  HeadsAt(s, r) = {} \/ \E i : HeadsAt(s, r) = {i}
  <2>1. ASSUME NEW i \in HeadsAt(s, r), NEW j \in HeadsAt(s, r)
        PROVE  i = j
    <3>1. i \in 1 .. Len(s) /\ j \in 1 .. Len(s) /\ s[i] = 2 * r /\ s[j] = 2 * r
      BY DEF HeadsAt
    <3>2. i \in Int /\ j \in Int /\ ~(2 * r < 2 * r)
      BY <3>1
    <3>3. ~(i < j) /\ ~(j < i)
      BY <1>1, <3>1, <3>2 DEF Rising
    <3>4. QED
      BY <3>2, <3>3
  <2>2. QED
    BY <2>1
<1>2. Cardinality({}) = 0 /\ \A i : Cardinality({i}) = 1
  BY FS_EmptySet, FS_Singleton
<1>3. HeadsAt(a, r) = {} \/ HeadsAt(b, r) = {}
  <2>1. ASSUME NEW i \in HeadsAt(a, r), NEW j \in HeadsAt(b, r)
        PROVE  FALSE
    <3>1. i \in 1 .. Len(a) /\ j \in 1 .. Len(b) /\ a[i] = 2 * r /\ b[j] = 2 * r
      BY DEF HeadsAt
    <3>2. 2 * r >= 2 /\ ~(2 * r < 2 * r)
      OBVIOUS
    <3>3. QED
      BY <3>1, <3>2 DEF Apart
  <2>2. QED
    BY <2>1
<1>4. \A s \in Seq(Half) : Rising(s, n) =>
        /\ Cardinality(HeadsAt(s, r)) \in {0, 1}
        /\ Cardinality(HeadsAt(s, r)) = 1 <=> HeadsAt(s, r) # {}
  <2>1. SUFFICES ASSUME NEW s \in Seq(Half), Rising(s, n)
                 PROVE  /\ Cardinality(HeadsAt(s, r)) \in {0, 1}
                        /\ Cardinality(HeadsAt(s, r)) = 1 <=> HeadsAt(s, r) # {}
    OBVIOUS
  <2>2. CASE HeadsAt(s, r) = {}
    BY <1>2, <2>2
  <2>3. CASE \E i : HeadsAt(s, r) = {i}
    <3>1. PICK i : HeadsAt(s, r) = {i}
      BY <2>3
    <3>2. Cardinality(HeadsAt(s, r)) = 1 /\ HeadsAt(s, r) # {}
      BY <1>2, <3>1
    <3>3. QED
      BY <3>2
  <2>4. QED
    BY <1>1, <2>1, <2>2, <2>3
<1>5. QED
  BY <1>3, <1>4

(* A record in order, in files that are apart, is there once. *)
LEMMA FilesNeverTwice == FilesInv => NeverTwice
<1> SUFFICES ASSUME FilesInv, NEW d \in Day, NEW r \in Rec
             PROVE  Cardinality(HeadsAt(JsonOf(Now, d), r))
                      + Cardinality(HeadsAt(SentOf(Now, d), r)) <= 1
  BY DEF NeverTwice
<1>1. "json" \in Names /\ "sent" \in Names /\ Now \in GoodStore
  BY NowIsGood DEF Names, FilesInv
<1>2. r \in Nat /\ r >= 1 
  BY MaxRecAssumption DEF Rec
<1> DEFINE a == Held(Now, "sent", d)
           b == Held(Now, "json", d)
<1>3. a \in Seq(Half) /\ b \in Seq(Half) /\ a = SentOf(Now, d) /\ b = JsonOf(Now, d)
  BY <1>1, HeldTyped, HeldIs
<1>4. Rising(a, next) /\ Rising(b, next) /\ Apart(a, b)
  BY DEF FilesInv, Tidy
<1> HIDE DEF a, b
<1>5. /\ Cardinality(HeadsAt(a, r)) \in {0, 1} /\ Cardinality(HeadsAt(b, r)) \in {0, 1}
      /\ Cardinality(HeadsAt(a, r)) = 1 <=> HeadsAt(a, r) # {}
      /\ Cardinality(HeadsAt(b, r)) = 1 <=> HeadsAt(b, r) # {}
      /\ HeadsAt(a, r) = {} \/ HeadsAt(b, r) = {}
  BY <1>2, <1>3, <1>4, OnePlace
<1>6. QED
  BY <1>3, <1>5

(***************************************************************************)
(* NeverTwice: no record is written twice, whatever the disk refuses in    *)
(* between.                                                                *)
(***************************************************************************)
THEOREM NoneTwice == Spec => []NeverTwice
  BY FilesNeverTwice, FilesInvariant, PTL

-----------------------------------------------------------------------------
(***************************************************************************)
(* On a disk that takes every write the store is never in trouble, a day   *)
(* file starts with its header, and an open one has it.                    *)
(***************************************************************************)
HeadInv == FilesInv /\ Calm(Now) /\ Started(Now)

(* At the start the disk takes every write and there is no file. *)
LEMMA InitCalm == Init => Calm(Now) /\ Started(Now) /\ Neat(Now)
<1> SUFFICES ASSUME Init PROVE Calm(Now) /\ Started(Now) /\ Neat(Now)
  OBVIOUS
<1>1. FilesInv
  BY InitFiles
<1>2. Now \in GoodStore /\ Now.disk = disk /\ Now.h = h /\ Named(Now)
  BY <1>1, NowIsGood DEF FilesInv
<1>3. /\ h = NoHandle /\ disk.jsonAt = {} /\ disk.sentAt = {} /\ disk.room = Plenty
      /\ \A d \in Day : disk.json[d] = << >>
  BY DEF Init, StoreInit
<1>4. \A f \in Names, d \in Day : Held(Now, f, d) = << >> /\ ~OpenOn(Now, f, d)
  <2>1. \A f \in Names, d \in Day : Held(Now, f, d) = << >>
    BY <1>2, <1>3, NotThereIsEmpty DEF Names
  <2>2. \A f \in Names, d \in Day : ~OpenOn(Now, f, d)
    BY <1>2, <1>3 DEF OpenOn, NoHandle, Names
  <2>3. QED
    BY <2>1, <2>2
<1>5. Calm(Now)
  <2>1. h.buf = << >> /\ ~h.err /\ Len(h.buf) = 0
    BY <1>3, EmptySeq DEF NoHandle
  <2>2. QED
    BY <1>2, <1>3, <2>1, BufCapAssumption DEF Calm
<1>6. \A d \in Day : File(Now, "json", d) = << >>
  BY <1>2, <1>3 DEF File
<1>7. QED
  BY <1>4, <1>5, <1>6 DEF Started, Neat, Headed, Lined, Names

(* Every step preserves the headers, a crash and a restart too. *)
LEMMA StepHeads ==
    ASSUME MaxFulls = 0, HeadInv, [Next]_vars
    PROVE  HeadInv'
<1>1. FilesInv /\ FilesInv' /\ IInv
  BY StepFiles DEF HeadInv, FilesInv
<1>2. Now \in GoodStore /\ Now.disk = disk /\ Now.h = h /\ next \in Nat
  BY <1>1, NowIsGood DEF IInv, TypeOK
<1>3. Calm(Now) /\ Started(Now) /\ Named(Now)
  BY <1>1 DEF HeadInv, FilesInv
<1>4. Calm(Now') /\ Started(Now')
  <2>1. CASE SettleStep /\ SettlesCalm(Now, Now')
    BY <1>2, <1>3, <2>1, CalmSettles DEF SettleStep, SettlesCalm
  <2>2. CASE SettleStep /\ h' = NoHandle /\ disk' = disk
    <3>1. Now'.disk = disk /\ Now'.h = NoHandle /\ Settles(Now, Now') /\ Now' \in GoodStore
      BY <2>2 DEF Now, SettleStep, Settles
    <3>2. Now'.h.buf = << >> /\ ~Now'.h.err /\ Len(Now'.h.buf) = 0 /\ Now'.h.file = "none"
      BY <3>1, EmptySeq DEF NoHandle
    <3>3. Calm(Now')
      BY <1>2, <1>3, <3>1, <3>2, BufCapAssumption DEF Calm
    <3>4. \A d \in Day : ~OpenOn(Now', "json", d) /\ File(Now', "json", d) = File(Now, "json", d)
      BY <1>2, <3>1, <3>2 DEF OpenOn, File
    <3>5. \A d \in Day : Held(Now', "json", d) = File(Now, "json", d)
      BY <3>1, <3>4, HeldTyped DEF Names
    <3>6. Started(Now')
      BY <1>3, <3>4, <3>5 DEF Started
    <3>7. QED
      BY <3>3, <3>6
  <2>3. CASE RenameStep
    <3>1. Renames(Now, Now', up.day) /\ up.day \in Day /\ up.day \in Now.disk.jsonAt
      BY <1>1, <1>2, <2>3 DEF RenameStep, UpRename, FilesInv, IInv
    <3>2. QED
      BY <1>2, <1>3, <3>1, CalmRenames
  <2>4. ASSUME NEW d \in Day, WriteStep(d)
        PROVE  Calm(Now') /\ Started(Now')
    <3>1. Writes(Now, Now', d, Line(next)) /\ WritesCalm(Now, Now', d, Line(next))
      BY <1>3, <2>4 DEF WriteStep
    <3>2. QED
      BY <1>2, <1>3, <3>1, CalmWrites DEF WritesCalm
  <2>5. SettleStep => SettlesCalm(Now, Now') \/ (h' = NoHandle /\ disk' = disk)
    BY <1>3 DEF SettleStep
  <2>6. QED
    BY <1>1, <2>1, <2>2, <2>3, <2>4, <2>5, StoreStep
<1>5. Calm(Now)' /\ Started(Now)'
  BY <1>4
<1>6. QED
  BY <1>1, <1>5 DEF HeadInv

(* A header at the start of a file in order is its only one. *)
LEMMA HeadsAreOne ==
    ASSUME HeadInv
    PROVE  OneHeader
<1> SUFFICES ASSUME NEW d \in Day, JsonOf(Now, d) # << >>
             PROVE  LET s == JsonOf(Now, d)
                    IN  Len(s) >= 2 /\ s[1] = 0 /\ s[2] = 1 /\ \A i \in 2 .. Len(s) : s[i] # 0
  BY DEF OneHeader
<1> DEFINE s == JsonOf(Now, d)
<1>1. s = Held(Now, "json", d) /\ s \in Seq(Half)
  <2>1. Now \in GoodStore /\ "json" \in Names
    BY NowIsGood DEF HeadInv, FilesInv, Names
  <2>2. QED
    BY <2>1, HeldTyped, HeldIs
<1>2. Headed(s) /\ Rising(s, next) /\ s # << >>
  BY <1>1 DEF HeadInv, Started, FilesInv, Tidy
<1> HIDE DEF s
<1>3. Len(s) >= 2 /\ s[1] = 0 /\ s[2] = 1
  BY <1>2 DEF Headed, Header
<1>4. ASSUME NEW i \in 2 .. Len(s) PROVE s[i] # 0
  <2>1. Len(s) \in Nat /\ i \in 1 .. Len(s) /\ 1 \in 1 .. Len(s) /\ 1 < i
    BY <1>1, <1>3, LenProperties
  <2>2. s[1] < s[i]
    BY <1>2, <2>1 DEF Rising
  <2>3. QED
    BY <1>3, <2>2
<1>5. QED
  BY <1>3, <1>4 DEF s

(***************************************************************************)
(* OneHeader: on a disk that takes every write a day file starts with its  *)
(* whole header and has no second one, whatever crashes and restarts.      *)
(***************************************************************************)
THEOREM HeaderIsOne ==
    ASSUME MaxFulls = 0
    PROVE  Spec => []OneHeader
<1>1. Init => HeadInv
  BY InitFiles, InitCalm DEF HeadInv
<1>2. HeadInv /\ [Next]_vars => HeadInv'
  BY StepHeads
<1>3. HeadInv => OneHeader
  BY HeadsAreOne
<1>4. QED
  BY <1>1, <1>2, <1>3, PTL DEF Spec

(***************************************************************************)
(* And when nothing stops the process either, every file is whole lines.   *)
(***************************************************************************)
NeatInv == FilesInv /\ Calm(Now) /\ Neat(Now)

(* Every step preserves the whole lines. *)
LEMMA StepNeat ==
    ASSUME MaxFulls = 0, MaxStops = 0, NeatInv, [Next]_vars
    PROVE  NeatInv'
<1>1. FilesInv /\ FilesInv' /\ IInv
  BY StepFiles DEF NeatInv, FilesInv
<1>2. Now \in GoodStore /\ Now.disk = disk /\ Now.h = h /\ next \in Nat
  BY <1>1, NowIsGood DEF IInv, TypeOK
<1>3. Calm(Now) /\ Neat(Now) /\ Named(Now)
  BY <1>1 DEF NeatInv, FilesInv
<1>4. ~Crash
  BY <1>1 DEF Crash, Down, IInv, TypeOK
<1>5. Calm(Now') /\ Neat(Now')
  <2>1. CASE SettleStep
    <3>1. Settles(Now, Now') /\ SettlesCalm(Now, Now')
      BY <1>3, <1>4, <2>1 DEF SettleStep
    <3>2. QED
      BY <1>2, <1>3, <3>1, CalmSettles DEF SettlesCalm
  <2>2. CASE RenameStep
    <3>1. Renames(Now, Now', up.day) /\ up.day \in Day /\ up.day \in Now.disk.jsonAt
      BY <1>1, <1>2, <2>2 DEF RenameStep, UpRename, FilesInv, IInv
    <3>2. QED
      BY <1>2, <1>3, <3>1, CalmRenames
  <2>3. ASSUME NEW d \in Day, WriteStep(d)
        PROVE  Calm(Now') /\ Neat(Now')
    <3>1. Writes(Now, Now', d, Line(next)) /\ WritesCalm(Now, Now', d, Line(next))
      BY <1>3, <2>3 DEF WriteStep
    <3>2. QED
      BY <1>2, <1>3, <3>1, CalmWrites DEF WritesCalm
  <2>4. QED
    BY <1>1, <2>1, <2>2, <2>3, StoreStep
<1>6. Calm(Now)' /\ Neat(Now)'
  BY <1>5
<1>7. QED
  BY <1>1, <1>6 DEF NeatInv

(* Whole lines in order are what FilesWellFormed asks for. *)
LEMMA NeatIsWellFormed ==
    ASSUME NeatInv
    PROVE  FilesWellFormed
<1>1. ASSUME NEW f \in Names, NEW d \in Day
      PROVE  WellFormed(Held(Now, f, d))
  <2>1. Lined(Held(Now, f, d)) /\ Rising(Held(Now, f, d), next)
    BY DEF NeatInv, Neat, FilesInv, Tidy, Names
  <2>2. QED
    BY <2>1 DEF Lined, Rising, WellFormed
<1>2. QED
  BY <1>1, HeldIs DEF FilesWellFormed, Names

(***************************************************************************)
(* FilesWellFormed: without a crash, on a disk that takes every write,     *)
(* every day file is the header and whole lines in the order written.      *)
(***************************************************************************)
THEOREM WellFormedFiles ==
    ASSUME MaxFulls = 0, MaxStops = 0
    PROVE  Spec => []FilesWellFormed
<1>1. Init => NeatInv
  BY InitFiles, InitCalm DEF NeatInv
<1>2. NeatInv /\ [Next]_vars => NeatInv'
  BY StepNeat
<1>3. NeatInv => FilesWellFormed
  BY NeatIsWellFormed
<1>4. QED
  BY <1>1, <1>2, <1>3, PTL DEF Spec

(* Whole division, and the days of the clock. *)
LEMMA Division ==
    ASSUME NEW t \in Int, NEW n \in Nat, n # 0
    PROVE  \E a \in Int, i \in Int : /\ t \div n = a /\ t % n = i
                                    /\ t = n * a + i /\ 0 <= i /\ i < n
<1>1. t \div n \in Int
  OBVIOUS
<1>2. t % n \in 0 .. (n - 1)
  OBVIOUS
<1>3. t = n * (t \div n) + (t % n)
  BY Z3
<1>4. t % n \in Int /\ 0 <= t % n /\ t % n < n
  BY <1>2
<1> DEFINE a == t \div n
           i == t % n
<1>5. a \in Int /\ i \in Int /\ t = n * a + i /\ 0 <= i /\ i < n
  BY <1>1, <1>3, <1>4
<1>6. a = t \div n /\ i = t % n
  OBVIOUS
<1> HIDE DEF a, i
<1>7. QED
  BY <1>5, <1>6

(* Multiples of n, in order. *)
LEMMA Multiples ==
    ASSUME NEW n \in Nat, n # 0, NEW a \in Int, NEW b \in Int
    PROVE  /\ a < b => n * a + n <= n * b
           /\ n * (a + b) = n * a + n * b
           /\ n * (a - b) = n * a - n * b
           /\ n * a \in Int
  OBVIOUS

(* A later time is on no earlier day. *)
LEMMA DaysInOrder ==
    ASSUME NEW s \in Int, NEW t \in Int, s <= t
    PROVE  DayOf(s) <= DayOf(t) /\ DayOf(s) \in Int
<1>1. DayLen \in Nat /\ DayLen # 0
  BY ClockAssumption
<1>2. PICK a \in Int, i \in Int :
          s \div DayLen = a /\ s = DayLen * a + i /\ 0 <= i /\ i < DayLen
  BY <1>1, Division
<1>3. PICK b \in Int, j \in Int :
          t \div DayLen = b /\ t = DayLen * b + j /\ 0 <= j /\ j < DayLen
  BY <1>1, Division
<1>4. /\ b < a => DayLen * b + DayLen <= DayLen * a
      /\ DayLen * a \in Int /\ DayLen * b \in Int
  BY <1>1, Multiples
<1>5. a <= b
  BY <1>1, <1>2, <1>3, <1>4
<1>6. QED
  BY <1>2, <1>3, <1>5 DEF DayOf

(***************************************************************************)
(* k ticks before a time that is k ticks past midnight it is the same day. *)
(***************************************************************************)
LEMMA SameDay ==
    ASSUME NEW t \in Nat, NEW k \in Nat, k <= t % DayLen
    PROVE  t >= k /\ DayOf(t - k) = DayOf(t)
<1>1. DayLen \in Nat /\ DayLen # 0
  BY ClockAssumption
<1>2. PICK a \in Int, i \in Int :
          (t - k) \div DayLen = a /\ t - k = DayLen * a + i /\ 0 <= i /\ i < DayLen
  <2>1. t - k \in Int
    OBVIOUS
  <2>2. QED
    BY <1>1, <2>1, Division
<1>3. PICK b \in Int, j \in Int :
          /\ t \div DayLen = b /\ t % DayLen = j
          /\ t = DayLen * b + j /\ 0 <= j /\ j < DayLen
  BY <1>1, Division
<1>4. /\ b < a => DayLen * b + DayLen <= DayLen * a
      /\ a < b => DayLen * a + DayLen <= DayLen * b
      /\ DayLen * a \in Int /\ DayLen * b \in Int
  BY <1>1, Multiples
<1>5. k <= j
  BY <1>3
<1>6. ~(a < b) /\ ~(b < a)
  <2> DEFINE p == DayLen * a
             q == DayLen * b
  <2>1. /\ p \in Int /\ q \in Int /\ t - k = p + i /\ t = q + j
        /\ b < a => q + DayLen <= p
        /\ a < b => p + DayLen <= q
    BY <1>2, <1>3, <1>4
  <2>2. 0 <= i /\ i < DayLen /\ k <= j /\ j < DayLen
    BY <1>2, <1>3, <1>5
  <2> HIDE DEF p, q
  <2>3. QED
    BY <1>1, <2>1, <2>2
<1>7. t >= k
  <2>1. DayLen * b >= 0
    <3>1. b >= 0
      <4>1. b < 0 => DayLen * b + DayLen <= DayLen * 0
        BY <1>1, Multiples
      <4>2. DayLen * 0 = 0
        BY <1>1
      <4>3. QED
        BY <1>1, <1>3, <1>4, <4>1, <4>2
    <3>2. QED
      BY <1>1, <3>1
  <2>2. QED
    BY <1>3, <1>4, <1>5, <2>1
<1>8. QED
  BY <1>2, <1>3, <1>6, <1>7 DEF DayOf

(* The next midnight is ahead. *)
LEMMA MidnightAhead ==
    ASSUME NEW t \in Nat
    PROVE  \E k \in Int : /\ t \div DayLen + 1 = k /\ k * DayLen = DayLen * k
                          /\ k * DayLen \in Int /\ t < k * DayLen
<1>1. DayLen \in Nat /\ DayLen # 0
  BY ClockAssumption
<1>2. PICK a \in Int, i \in Int :
          t \div DayLen = a /\ t = DayLen * a + i /\ 0 <= i /\ i < DayLen
  BY <1>1, Division
<1>3. (a + 1) * DayLen = DayLen * (a + 1) /\ a + 1 \in Int
  BY <1>1, <1>2
<1>4. DayLen * (a + 1) = DayLen * a + DayLen /\ DayLen * a \in Int
  BY <1>1, Multiples
<1>5. t < DayLen * (a + 1) /\ DayLen * (a + 1) \in Int
  BY <1>1, <1>2, <1>4
<1>6. QED
  BY <1>2, <1>3, <1>5

-----------------------------------------------------------------------------
(***************************************************************************)
(* The timetable.  n passes over the finished days, each with at most one  *)
(* request a day, take no longer than Slack(n).  A pass follows another    *)
(* after a day, or, where requests and writes may fail, after a retry.     *)
(***************************************************************************)
Took(d)  == PostTime * d
Slack(n) == (MaxDay * PostTime) * n

Failing == ~(MaxNetFails = 0 /\ MaxFulls = 0)
Period  == IF Failing THEN Retry ELSE DayLen

(***************************************************************************)
(* On a prompt service a measurement ends before the finished days are     *)
(* listed, and the passes, late as the requests before them make them,     *)
(* never come round to midnight: a service that is stopped and started     *)
(* again does not have failures as well, since its retries would begin at  *)
(* any time of the day.                                                    *)
(***************************************************************************)
Prompt ==
    /\ MaxNetFails \in Nat /\ (MaxStops = 0 \/ ~Failing)
    /\ 1 <= After /\ MaxLag <= After
    /\ After + Slack(MaxNetFails + 1) < Period
    /\ DayLen % Period = 0 /\ After <= MaxNow % DayLen

(* t is a time the upload loop wakes at, or at most r later. *)
OnTime(t, r) == \E j \in Int : Period * j + After <= t /\ t <= Period * j + After + r

(* What passes take adds up. *)
LEMMA Passes ==
    /\ \A n \in Nat : /\ Slack(n) \in Nat /\ Slack(n) <= Slack(n + 1)
                      /\ Slack(n + 1) = Slack(n) + Took(MaxDay)
    /\ \A m, n \in Nat : m <= n => Slack(m) <= Slack(n)
    /\ \A d \in Nat : Took(d) \in Nat /\ Took(d + 1) = Took(d) + PostTime
    /\ \A d, e \in Nat : d <= e => Took(d) <= Took(e)
<1> DEFINE m == MaxDay * PostTime
<1>1. m \in Nat /\ PostTime \in Nat /\ MaxDay \in Nat /\ Took(MaxDay) = m
  BY ClockAssumption, MaxDayAssumption DEF Took
<1>2. \A n : Slack(n) = m * n
  BY DEF Slack
<1> HIDE DEF m
<1>3. \A k \in Nat : \A n \in Nat :
         /\ k * n \in Nat /\ k * (n + 1) = k * n + k
         /\ \A j \in Nat : n <= j => k * n <= k * j
  <2>1. SUFFICES ASSUME NEW k \in Nat, NEW n \in Nat, NEW j \in Nat
                 PROVE  /\ k * n \in Nat /\ k * (n + 1) = k * n + k
                        /\ n <= j => k * n <= k * j
    OBVIOUS
  <2>2. k * n \in Nat /\ k * (n + 1) = k * n + k
    OBVIOUS
  <2>3. n <= j => k * n <= k * j
    <3>1. k * (j - n) = k * j - k * n
      OBVIOUS
    <3>2. n <= j => k * (j - n) >= 0
      OBVIOUS
    <3>3. k * j \in Int /\ k * n \in Int
      OBVIOUS
    <3>4. QED
      BY <3>1, <3>2, <3>3
  <2>4. QED
    BY <2>2, <2>3
<1>4. \A n \in Nat : Slack(n) \in Nat /\ Slack(n + 1) = Slack(n) + Took(MaxDay)
  BY <1>1, <1>2, <1>3
<1>5. \A i, n \in Nat : i <= n => Slack(i) <= Slack(n)
  BY <1>1, <1>2, <1>3
<1>6. \A d \in Nat : Took(d) \in Nat /\ Took(d + 1) = Took(d) + PostTime
  BY <1>1, <1>3 DEF Took
<1>7. \A d, e \in Nat : d <= e => Took(d) <= Took(e)
  BY <1>1, <1>3 DEF Took
<1>8. \A n \in Nat : Slack(n) <= Slack(n + 1)
  BY <1>5
<1>9. QED
  BY <1>4, <1>5, <1>6, <1>7, <1>8

(* A day is a whole number of periods. *)
LEMMA PeriodsFillTheDay ==
    ASSUME Prompt
    PROVE  \E q \in Int : DayLen = Period * q
<1>1. Period \in Nat /\ Period # 0 /\ DayLen \in Int
  <2>1. Slack(MaxNetFails + 1) \in Nat
    BY Passes DEF Prompt
  <2>2. QED
    BY <2>1, ClockAssumption DEF Prompt, Period
<1>2. \E a \in Int, i \in Int : /\ DayLen \div Period = a /\ DayLen % Period = i
                               /\ DayLen = Period * a + i /\ 0 <= i /\ i < Period
  BY <1>1, Division
<1>3. PICK a \in Int, i \in Int : DayLen % Period = i /\ DayLen = Period * a + i
  BY <1>2
<1>4. Period * a \in Int /\ i = 0
  BY <1>1, <1>3, Multiples DEF Prompt
<1>5. QED
  BY <1>3, <1>4

(***************************************************************************)
(* A later start, the next pass and the minute after midnight are on the   *)
(* timetable.                                                              *)
(***************************************************************************)
LEMMA Timetable ==
    ASSUME Prompt
    PROVE  /\ \A t, r, e, f \in Int : OnTime(t, r) /\ 0 <= e /\ e <= f => OnTime(t + e, r + f)
           /\ \A t, r, s \in Int : OnTime(t, r) /\ r <= s => OnTime(t, s)
           /\ \A t, r \in Int : OnTime(t, r) => OnTime(t + Period, r)
           /\ \A k \in Int : OnTime(DayLen * k + After, 0)
<1>1. Period \in Nat /\ Period # 0 /\ DayLen \in Nat /\ After \in Nat
  <2>1. Slack(MaxNetFails + 1) \in Nat
    BY Passes DEF Prompt
  <2>2. QED
    BY <2>1, ClockAssumption DEF Prompt, Period
<1>2. PICK q \in Int : DayLen = Period * q
  BY PeriodsFillTheDay
<1>3. \A j \in Int : Period * j \in Int /\ Period * (j + 1) = Period * j + Period
  BY <1>1
<1>4. ASSUME NEW t \in Int, NEW r \in Int, NEW e \in Int, NEW f \in Int,
             OnTime(t, r), 0 <= e, e <= f
      PROVE  OnTime(t + e, r + f)
  <2>1. PICK j \in Int : Period * j + After <= t /\ t <= Period * j + After + r
    BY <1>4 DEF OnTime
  <2> DEFINE p == Period * j
  <2>2. p \in Int /\ p + After <= t /\ t <= p + After + r
    BY <1>3, <2>1
  <2> HIDE DEF p
  <2>3. p + After <= t + e /\ t + e <= p + After + (r + f)
    BY <1>1, <1>4, <2>2
  <2>4. QED
    BY <2>3 DEF OnTime, p
<1>5. ASSUME NEW t \in Int, NEW r \in Int, NEW s \in Int, OnTime(t, r), r <= s
      PROVE  OnTime(t, s)
  <2>1. PICK j \in Int : Period * j + After <= t /\ t <= Period * j + After + r
    BY <1>5 DEF OnTime
  <2> DEFINE p == Period * j
  <2>2. p \in Int /\ p + After <= t /\ t <= p + After + r
    BY <1>3, <2>1
  <2> HIDE DEF p
  <2>3. t <= p + After + s
    BY <1>1, <1>5, <2>2
  <2>4. QED
    BY <2>2, <2>3 DEF OnTime, p
<1>6. ASSUME NEW t \in Int, NEW r \in Int, OnTime(t, r)
      PROVE  OnTime(t + Period, r)
  <2>1. PICK j \in Int : Period * j + After <= t /\ t <= Period * j + After + r
    BY <1>6 DEF OnTime
  <2> DEFINE p == Period * j
             q2 == Period * (j + 1)
  <2>2. p \in Int /\ p + After <= t /\ t <= p + After + r /\ q2 = p + Period
    BY <1>3, <2>1
  <2> HIDE DEF p, q2
  <2>3. q2 + After <= t + Period /\ t + Period <= q2 + After + r
    BY <1>1, <1>6, <2>2
  <2>4. QED
    BY <2>3 DEF OnTime, q2
<1>7. ASSUME NEW k \in Int
      PROVE  OnTime(DayLen * k + After, 0)
  <2>1. DayLen * k = Period * (q * k) /\ q * k \in Int
    BY <1>1, <1>2
  <2> DEFINE p == Period * (q * k)
  <2>2. p \in Int
    BY <1>3, <2>1
  <2> HIDE DEF p
  <2>3. p + After <= p + After /\ p + After <= p + After + 0
    BY <1>1, <2>2
  <2>4. QED
    BY <2>1, <2>3 DEF OnTime, p
<1>8. QED
  BY <1>4, <1>5, <1>6, <1>7

(* A time on the timetable is past the minutes after midnight it waits for. *)
LEMMA OffMidnight ==
    ASSUME Prompt, NEW t \in Nat, NEW r \in Int, r <= Slack(MaxNetFails + 1), OnTime(t, r)
    PROVE  After <= t % DayLen
<1> DEFINE most == Slack(MaxNetFails + 1)
<1>1. /\ Period \in Nat /\ Period # 0 /\ DayLen \in Nat /\ DayLen # 0 /\ After \in Nat
      /\ most \in Nat /\ After + most < Period /\ r <= most
  <2>1. most \in Nat
    BY Passes DEF Prompt
  <2>2. QED
    BY <2>1, ClockAssumption DEF Prompt, Period
<1> HIDE DEF most
<1>2. PICK q \in Int : DayLen = Period * q
  BY PeriodsFillTheDay
<1>3. PICK j \in Int : Period * j + After <= t /\ t <= Period * j + After + r
  BY DEF OnTime
<1>4. PICK b \in Int, i \in Int :
          t % DayLen = i /\ t = DayLen * b + i /\ 0 <= i /\ i < DayLen
  <2>1. t \in Int
    OBVIOUS
  <2>2. \E b \in Int, i \in Int : /\ t \div DayLen = b /\ t % DayLen = i
                                 /\ t = DayLen * b + i /\ 0 <= i /\ i < DayLen
    BY <1>1, <2>1, Division
  <2>3. QED
    BY <2>2
<1>5. DayLen * b = Period * (q * b) /\ q * b \in Int
  BY <1>1, <1>2
<1>6. PICK n \in Int : n = q * b
  BY <1>5
<1> DEFINE u == Period * j
           v == Period * n
<1>7. /\ u \in Int /\ v \in Int /\ (j < n => u + Period <= v) /\ (n <= j => v <= u)
      /\ u + After <= t /\ t <= u + After + r /\ t = v + i
  <2>1. u \in Int /\ v \in Int /\ (j < n => u + Period <= v) /\ (n < j => v + Period <= u)
    BY <1>1, Multiples
  <2>2. n = j => v = u
    OBVIOUS
  <2>3. n <= j => v <= u
    BY <1>1, <2>1, <2>2
  <2>4. QED
    BY <1>3, <1>4, <1>5, <1>6, <2>1, <2>3
<1> HIDE DEF u, v
<1>8. CASE j < n
  BY <1>1, <1>4, <1>7, <1>8
<1>9. CASE n <= j
  BY <1>1, <1>4, <1>7, <1>9
<1>10. QED
  BY <1>8, <1>9

(***************************************************************************)
(* u is the upload loop at time t, n requests having failed so far, in a   *)
(* pass that began at s: it has taken no longer than a request for each    *)
(* day before the one it is at.                                            *)
(***************************************************************************)
FirstDay(u) == \A d \in u.todo : u.day <= d

Began(s, u, n, t) ==
    /\ s <= t /\ u.wait >= 0 /\ \E k \in Int : s + u.wait = DayLen * k + After
    /\ Failing /\ u.allOK => OnTime(s, Slack(n + 1))
    /\ ~u.allOK => Failing /\ OnTime(s, Slack(n))
    /\ \/ u.pc = "read" /\ \A d \in u.todo : t <= s + Took(d - 1)
       \/ u.pc = "post" /\ FirstDay(u) /\ u.since <= s + Took(u.day - 1) /\ t <= u.since + PostTime
       \/ u.pc = "rename" /\ FirstDay(u) /\ t <= s + Took(u.day)

(***************************************************************************)
(* The upload loop u at time t, n requests having failed, keeps the        *)
(* timetable.                                                              *)
(***************************************************************************)
Timed(u, n, t) ==
    \/ t = MaxNow
    \/ u.pc = "sleep" /\ OnTime(u.wake, Slack(n + 1)) /\ t <= u.wake
    \/ u.pc # "sleep" /\ \E s \in Int : Began(s, u, n, t)

(***************************************************************************)
(* The service has just started, at any time of the day: its first pass is *)
(* about to begin, and no record is under way but of this minute.          *)
(***************************************************************************)
Fresh ==
    /\ up.pc = "sleep" /\ up.wake = now /\ minute = "wait"
    /\ \A m \in Measurer : Measuring(m) => measure[m] = now
    /\ Failing => now = 0

(* The service is down. *)
Stopped ==
    /\ up.pc = "sleep" /\ minute = "wait" /\ h.file = "none" /\ ~Failing
    /\ \A m \in Measurer : ~Measuring(m)

(***************************************************************************)
(* The invariant of the clock: the upload loop keeps the timetable, and no *)
(* measurement started before the minutes the timetable waits for.         *)
(***************************************************************************)
ClockInv ==
    /\ budget.netFails <= MaxNetFails
    /\ alive => Fresh \/ Timed(up, budget.netFails, now)
    /\ ~alive => Stopped
    /\ \A m \in Measurer : Measuring(m) => now - After <= measure[m] /\ measure[m] <= now

(* When the finished days are listed, the last minute's flush has landed. *)
LEMMA NotMidnight ==
    ASSUME Prompt, IInv, Timed(up, budget.netFails, now), budget.netFails <= MaxNetFails,
           up.pc = "sleep", now >= up.wake \/ now = MaxNow
    PROVE  now >= After /\ DayOf(now - After) = Today
<1>1. /\ now \in Nat /\ MaxNow \in Nat /\ up.wake \in Int /\ After \in Nat
      /\ budget.netFails \in Nat /\ MaxNetFails \in Nat
  BY ClockAssumption DEF IInv, TypeOK, UpType, Prompt
<1>2. CASE now = MaxNow
  <2>1. After <= now % DayLen
    BY <1>2 DEF Prompt
  <2>2. QED
    BY <1>1, <2>1, SameDay DEF Today
<1>3. CASE now # MaxNow
  <2> DEFINE r == Slack(budget.netFails + 1)
  <2>1. OnTime(up.wake, r) /\ now <= up.wake /\ now >= up.wake
    BY <1>3 DEF Timed
  <2>2. now = up.wake
    BY <1>1, <2>1
  <2>3. r \in Int /\ r <= Slack(MaxNetFails + 1)
    <3>1. budget.netFails + 1 \in Nat /\ MaxNetFails + 1 \in Nat
          /\ budget.netFails + 1 <= MaxNetFails + 1
      BY <1>1
    <3>2. r \in Nat /\ r <= Slack(MaxNetFails + 1)
      BY <3>1, Passes
    <3>3. QED
      BY <3>2
  <2> HIDE DEF r
  <2>4. After <= now % DayLen
    BY <1>1, <2>1, <2>2, <2>3, OffMidnight
  <2>5. QED
    BY <1>1, <2>4, SameDay DEF Today
<1>4. QED
  BY <1>2, <1>3

(* The first pass begins at once. *)
LEMMA InitClock == Prompt /\ Init => ClockInv
<1> SUFFICES ASSUME Prompt, Init PROVE ClockInv
  OBVIOUS
<1>1. now = 0 /\ alive /\ up.pc = "sleep" /\ up.wake = 0 /\ budget.netFails = 0
  BY DEF Init, UpIdle
<1>2. minute = "wait" /\ \A m \in Measurer : ~Measuring(m)
  BY DEF Init, Measuring
<1>3. 0 <= MaxNetFails
  BY DEF Prompt
<1>4. QED
  BY <1>1, <1>2, <1>3 DEF ClockInv, Fresh

(* The end of a pass: the next one is on time. *)
LEMMA SleptOnTime ==
    ASSUME Prompt, NEW allOK \in BOOLEAN, NEW wait \in Int, NEW s \in Int, NEW n \in Nat, now \in Nat,
           s <= now, now <= s + Took(MaxDay), wait >= 0,
           \E k \in Int : s + wait = DayLen * k + After,
           ~allOK => Failing /\ OnTime(s, Slack(n))
    PROVE  Timed(Slept(allOK, wait), n, now)
<1> DEFINE u == Slept(allOK, wait)
           m == Took(MaxDay)
           p == Slack(n)
           q == Slack(n + 1)
<1>1. u.pc = "sleep" /\ u.wake = now + (IF allOK THEN wait ELSE Retry)
  BY DEF Slept, UpIdle
<1>2. Retry \in Nat /\ now \in Int /\ DayLen \in Int /\ After \in Int
  BY ClockAssumption
<1>3. m \in Int /\ p \in Int /\ q \in Int /\ q = p + m /\ 0 <= p /\ 0 <= m
  <2>1. MaxDay \in Nat
    BY MaxDayAssumption
  <2>2. p \in Nat /\ q = p + m
    BY Passes
  <2>5. q \in Nat
    <3>1. n + 1 \in Nat
      OBVIOUS
    <3>2. QED
      BY <3>1, Passes
  <2>3. m \in Nat
    BY <2>1, Passes
  <2> HIDE DEF m, p, q
  <2>4. QED
    BY <2>2, <2>3, <2>5
<1> DEFINE e == now - s
<1>4. e \in Int /\ 0 <= e /\ e <= m /\ now = s + e
  BY <1>2, <1>3
<1> HIDE DEF u, m, p, q, e
<1>5. CASE allOK
  <2>1. PICK k \in Int : s + wait = DayLen * k + After
    OBVIOUS
  <2> DEFINE t == DayLen * k + After
  <2>2. t \in Int /\ OnTime(t, 0)
    <3>1. DayLen * k \in Int
      BY <1>2
    <3>2. t \in Int
      BY <1>2, <3>1
    <3>3. OnTime(DayLen * k + After, 0)
      BY Timetable, Zenon
    <3>4. QED
      BY <3>2, <3>3
  <2>3. u.wake = t + e
    <3>1. u.wake = now + wait
      BY <1>1, <1>5
    <3>2. t = s + wait
      BY <2>1
    <3> HIDE DEF t
    <3>3. QED
      BY <1>2, <1>4, <3>1, <3>2
  <2> HIDE DEF t
  <2>4. 0 \in Int /\ 0 + m = m /\ m <= q /\ t + e \in Int
    BY <1>3, <1>4, <2>2
  <2>8. OnTime(t + e, 0 + m)
    BY <1>3, <1>4, <2>2, <2>4, Timetable, Zenon
  <2>5. OnTime(t + e, q)
    <3>1. OnTime(t + e, m)
      BY <2>4, <2>8
    <3>2. QED
      BY <1>3, <2>4, <3>1, Timetable
  <2>6. now <= u.wake
    <3>1. u.wake = now + wait
      BY <1>1, <1>5
    <3>2. QED
      BY <1>2, <3>1
  <2>7. QED
    BY <1>1, <2>3, <2>5, <2>6 DEF Timed, u, q
<1>6. CASE ~allOK
  <2>1. OnTime(s, p) /\ Period = Retry
    BY <1>6 DEF p, Period
  <2>2. OnTime(s + e, p + m)
    BY <1>3, <1>4, <2>1, Timetable
  <2>3. OnTime(now, q)
    BY <1>3, <1>4, <2>2
  <2>4. OnTime(now + Retry, q)
    BY <1>2, <1>3, <2>1, <2>3, Timetable
  <2>5. u.wake = now + Retry /\ now <= u.wake
    BY <1>1, <1>2, <1>6
  <2>6. QED
    BY <1>1, <2>4, <2>5 DEF Timed, u, q
<1>7. QED
  BY <1>5, <1>6

(* One day of a pass is done. *)
LEMMA NextDayOnTime ==
    ASSUME Prompt, NEW ok \in BOOLEAN, NEW s \in Int, NEW n \in Nat, NEW k \in Nat,
           k = IF ok THEN n ELSE n + 1, ~ok => Failing,
           IInv, up.pc # "sleep", up.day \in Day, FirstDay(up), Began(s, up, n, now),
           now <= s + Took(up.day), NextDay(ok)
    PROVE  Timed(up', k, now)
<1>1. /\ now \in Nat /\ MaxDay \in Nat /\ up \in UpType /\ up.allOK \in BOOLEAN /\ up.wait \in Int
      /\ up.day \in Nat /\ up.day <= MaxDay /\ up.todo \subseteq Day
  BY MaxDayAssumption DEF IInv, TypeOK, UpType, Day
<1> DEFINE allOK == up.allOK /\ ok
<1>2. /\ allOK \in BOOLEAN /\ (Failing /\ allOK => OnTime(s, Slack(k + 1)))
      /\ ~allOK => Failing /\ OnTime(s, Slack(k))
  <2>1. /\ Slack(n) \in Int /\ Slack(k) \in Int /\ Slack(n) <= Slack(k)
    <3>1. n <= k
      OBVIOUS
    <3>2. Slack(n) \in Nat /\ Slack(k) \in Nat /\ Slack(n) <= Slack(k)
      BY <3>1, Passes
    <3>3. QED
      BY <3>2
  <2>2. CASE ok
    <3>1. k = n
      BY <2>2
    <3>2. QED
      BY <1>1, <2>2, <3>1 DEF Began
  <2>3. CASE ~ok
    <3>1. k = n + 1
      BY <2>3
    <3>2. Failing /\ (up.allOK => OnTime(s, Slack(k)))
      BY <2>3, <3>1 DEF Began
    <3>3. ~up.allOK => OnTime(s, Slack(n))
      BY DEF Began
    <3>4. ~up.allOK => OnTime(s, Slack(k))
      BY <2>1, <3>3, Timetable
    <3>5. QED
      BY <1>1, <2>3, <3>2, <3>4
  <2>4. QED
    BY <2>2, <2>3
<1>3. s <= now /\ up.wait >= 0 /\ \E i \in Int : s + up.wait = DayLen * i + After
  BY DEF Began
<1>4. CASE up.todo \ {up.day} = {}
  <2>1. up' = Slept(allOK, up.wait)
    BY <1>4 DEF NextDay
  <2>2. Took(up.day) <= Took(MaxDay) /\ Took(up.day) \in Nat /\ Took(MaxDay) \in Nat
    BY <1>1, Passes
  <2>3. now <= s + Took(MaxDay)
    BY <1>1, <2>2
  <2> HIDE DEF allOK
  <2>4. QED
    BY <1>1, <1>2, <1>3, <2>1, <2>3, SleptOnTime
<1>5. CASE up.todo \ {up.day} # {}
  <2> DEFINE rest == up.todo \ {up.day}
  <2>1. up' = [up EXCEPT !.pc = "read", !.todo = rest, !.body = << >>, !.allOK = allOK]
    BY <1>5 DEF NextDay
  <2>2. up'.pc = "read" /\ up'.todo = rest /\ up'.wait = up.wait /\ up'.allOK = allOK
    BY <1>1, <2>1 DEF UpType
  <2>3. ASSUME NEW d \in rest
        PROVE  now <= s + Took(d - 1)
    <3>1. d \in Nat /\ up.day <= d /\ d # up.day
      BY <1>1 DEF FirstDay, Day
    <3>2. d - 1 \in Nat /\ up.day <= d - 1
      BY <1>1, <3>1
    <3>3. Took(up.day) \in Nat /\ Took(d - 1) \in Nat /\ Took(up.day) <= Took(d - 1)
      BY <1>1, <3>2, Passes
    <3>4. QED
      BY <1>1, <3>3
  <2> HIDE DEF allOK, rest
  <2>4. Began(s, up', k, now)
    BY <1>2, <1>3, <2>2, <2>3 DEF Began
  <2>5. QED
    BY <2>2, <2>4 DEF Timed
<1>6. QED
  BY <1>4, <1>5

(* Every step keeps the timetable. *)
LEMMA StepClock ==
    ASSUME Prompt, FilesInv, ClockInv, MaxFulls = 0 => Calm(Now), [Next]_vars
    PROVE  ClockInv'
<1> DEFINE n == budget.netFails
<1>0. IInv /\ IInv'
  BY StepInvariant DEF FilesInv
<1>1. /\ now \in Nat /\ now \in 0 .. MaxNow /\ MaxNow \in Nat /\ up \in UpType /\ up.wake \in Int
      /\ up.wait \in Int /\ up.since \in Nat /\ measure \in [Measurer -> 0 .. MaxNow \cup {Idle}]
      /\ up.todo \subseteq Day /\ up.allOK \in BOOLEAN /\ n \in Nat
      /\ budget \in [stops: Nat, netFails: Nat, fulls: Nat] /\ up'.todo \subseteq Day
  BY <1>0, ClockAssumption DEF IInv, TypeOK, UpType
<1>2. MaxLag <= After /\ MaxLag \in Nat /\ After \in Nat /\ PostTime \in Nat
  BY ClockAssumption DEF Prompt
<1>3. n <= MaxNetFails /\ (alive => Fresh \/ Timed(up, n, now)) /\ (~alive => Stopped)
  BY DEF ClockInv
<1>4. CASE Crash \/ Stop
  <2>1. /\ budget.stops < MaxStops /\ budget' = [budget EXCEPT !.stops = @ + 1] /\ ~alive'
        /\ minute' = "wait" /\ measure' = [m \in Measurer |-> Idle] /\ up' = UpIdle /\ now' = now
    BY <1>4 DEF Crash, Stop, Down
  <2>2. budget'.netFails = n /\ up'.pc = "sleep" /\ \A m \in Measurer : ~Measuring(m)'
    BY <1>1, <2>1 DEF UpIdle, Measuring
  <2>3. ~Failing
    BY <1>1, <2>1 DEF Prompt
  <2>4. h'.file = "none"
    <3>1. Now \in GoodStore
      BY <1>0, NowIsGood
    <3>2. CASE Crash
      BY <3>2 DEF Crash, Becomes, Killed, NoHandle, Now
    <3>3. CASE Stop
      <4>1. CloseLocked(Now).h.file = "none"
        BY <3>1, CloseLockedSound
      <4>2. h' = CloseLocked(Now).h
        BY <3>3 DEF Stop, Becomes
      <4>3. QED
        BY <4>1, <4>2
    <3>4. QED
      BY <1>4, <3>2, <3>3
  <2>5. QED
    BY <1>3, <2>1, <2>2, <2>3, <2>4 DEF ClockInv, Stopped, Failing
<1>20. CASE Start
  <2>1. /\ ~alive /\ alive' /\ up' = [UpIdle EXCEPT !.wake = now] /\ UNCHANGED <<now, minute, measure, budget>>
    BY <1>20 DEF Start
  <2>2. up'.pc = "sleep" /\ up'.wake = now
    BY <2>1 DEF UpIdle
  <2>3. Fresh' /\ \A m \in Measurer : ~Measuring(m)'
    BY <1>3, <2>1, <2>2 DEF Fresh, Stopped, Measuring, Failing
  <2>4. QED
    BY <1>3, <2>1, <2>3 DEF ClockInv
<1>5. CASE Tick
  <2>1. now' = now + 1 /\ UNCHANGED <<h, alive, measure, up, budget>> /\ now < MaxNow
    BY <1>5 DEF Tick, storeVars
  <2>2. ASSUME alive, up.pc = "sleep"
        PROVE  Timed(up, n, now + 1)
    <3>1. now < up.wake
      BY <1>5, <2>2 DEF Tick
    <3>2. OnTime(up.wake, Slack(n + 1))
      BY <1>1, <1>3, <2>1, <2>2, <3>1 DEF Timed, Fresh
    <3>3. now + 1 <= up.wake
      BY <1>1, <3>1
    <3>4. QED
      BY <2>1, <2>2, <3>2, <3>3 DEF Timed
  <2>3. ASSUME alive, up.pc = "post", now < up.since + PostTime
        PROVE  Timed(up, n, now + 1)
    <3>1. PICK s \in Int : Began(s, up, n, now)
      BY <1>1, <1>3, <2>1, <2>3 DEF Timed, Fresh
    <3>2. s <= now + 1 /\ now + 1 <= up.since + PostTime
      BY <1>1, <1>2, <2>3, <3>1 DEF Began
    <3>3. Began(s, up, n, now + 1)
      BY <2>3, <3>1, <3>2 DEF Began
    <3>4. QED
      BY <2>1, <2>3, <3>3 DEF Timed
  <2>4. alive => up.pc = "sleep" \/ (up.pc = "post" /\ now < up.since + PostTime)
    BY <1>5 DEF Tick
  <2>5. alive' => Timed(up', budget'.netFails, now')
    <3>1. alive => Timed(up, n, now + 1)
      BY <2>2, <2>3, <2>4
    <3>2. QED
      BY <2>1, <3>1
  <2>6. ASSUME NEW m \in Measurer, Measuring(m)
        PROVE  (now + 1) - After <= measure[m] /\ measure[m] <= now + 1
    <3>1. now < measure[m] + MaxLag
      BY <1>5, <2>6 DEF Tick
    <3>2. measure[m] \in Int /\ measure[m] <= now
      BY <1>1, <2>6 DEF ClockInv, Measuring, Idle
    <3>3. QED
      BY <1>1, <1>2, <3>1, <3>2
  <2>7. \A m \in Measurer : Measuring(m)' = Measuring(m)
    BY <2>1 DEF Measuring
  <2>8. ~alive' => Stopped'
    <3>1. ~alive => Stopped /\ minute' = "wait"
      BY <1>3, <1>5 DEF Tick
    <3>2. QED
      BY <2>1, <2>7, <3>1 DEF Stopped, Failing
  <2>9. QED
    BY <1>3, <2>1, <2>5, <2>6, <2>7, <2>8 DEF ClockInv
<1>6. ASSUME alive, alive' = alive, now' = now, measure' = measure, budget'.netFails <= MaxNetFails,
             Timed(up', budget'.netFails, now')
      PROVE  ClockInv'
  BY <1>6 DEF ClockInv, Measuring
<1>7. CASE UpList
  <2> DEFINE x    == ClosePast(Now, Today)
             days == FinishedDays(x, Today)
             wait == UntilAfterMidnight(now)
  <2>1. /\ up' = IF ~x.ok THEN Slept(FALSE, wait)
                 ELSE IF days = {} THEN Slept(TRUE, wait)
                 ELSE [UpIdle EXCEPT !.pc = "read", !.todo = days, !.wait = wait]
        /\ UNCHANGED <<now, alive, measure, budget>>
        /\ alive /\ up.pc = "sleep" /\ (now >= up.wake \/ now = MaxNow)
    BY <1>7 DEF UpList
  <2>2. wait \in Int /\ wait >= 0 /\ \E k \in Int : now + wait = DayLen * k + After
    <3>1. PICK k \in Int : /\ now \div DayLen + 1 = k /\ k * DayLen = DayLen * k
                           /\ k * DayLen \in Int /\ now < k * DayLen
      BY <1>1, MidnightAhead
    <3>2. wait = k * DayLen + After - now
      BY <3>1 DEF UntilAfterMidnight
    <3> DEFINE m == DayLen * k
    <3>3. m \in Int /\ now < m /\ wait = m + After - now
      BY <3>1, <3>2
    <3> HIDE DEF m, wait
    <3>4. wait \in Int /\ wait >= 0 /\ now + wait = m + After
      BY <1>1, <1>2, <3>3
    <3>5. QED
      BY <3>4 DEF m
  <2>3. now = 0 => x.ok /\ days = {}
    <3>1. SUFFICES ASSUME now = 0 PROVE x.ok /\ days = {}
      OBVIOUS
    <3>2. Today = 1
      BY <3>1, ClockAssumption DEF Today, DayOf
    <3>3. ~(Now.h.file # "none" /\ Now.h.day < Today)
      BY <1>0, <3>2, NowIsGood, MaxDayAssumption DEF GoodStore, GoodHandle, Day
    <3>4. x = Now
      BY <3>3 DEF ClosePast
    <3>5. x.disk.jsonAt \subseteq Day
      BY <1>0, <3>4, NowIsGood DEF GoodStore, StoreType, DiskType
    <3>6. days = {}
      BY <3>2, <3>5, MaxDayAssumption DEF FinishedDays, Day
    <3>7. Now.ok
      BY DEF Now
    <3> HIDE DEF x, days
    <3>8. QED
      BY <3>4, <3>6, <3>7
  <2>4. now = 0 \/ now = MaxNow \/ ~Failing \/ OnTime(now, Slack(n + 1))
    <3>1. ASSUME now # MaxNow, Timed(up, n, now)
          PROVE  OnTime(now, Slack(n + 1))
      <4>1. OnTime(up.wake, Slack(n + 1)) /\ now <= up.wake /\ now >= up.wake
        BY <2>1, <3>1 DEF Timed
      <4>2. now = up.wake
        BY <1>1, <4>1
      <4>3. QED
        BY <4>1, <4>2
    <3>2. Fresh => now = 0 \/ ~Failing
      BY DEF Fresh
    <3>3. QED
      BY <1>3, <2>1, <3>1, <3>2
  <2>20. ~Failing => x.ok
    <3>1. Now \in GoodStore /\ Now.ok
      BY <1>0, NowIsGood DEF Now
    <3>2. ~Failing => Calm(Now)
      BY DEF Failing
    <3>3. ~Failing => SettlesCalm(Now, x)
      BY <3>1, <3>2, FlushSettles
    <3>4. QED
      BY <3>1, <3>3 DEF SettlesCalm
  <2>5. Took(MaxDay) \in Nat /\ now <= now + Took(MaxDay)
    <3>1. Took(MaxDay) \in Nat
      BY MaxDayAssumption, Passes
    <3>2. QED
      BY <1>1, <3>1
  <2> HIDE DEF x, days, wait
  <2>6. Timed(Slept(TRUE, wait), n, now)
    <3>1. /\ TRUE \in BOOLEAN /\ now \in Int /\ now <= now
          /\ \E k \in Int : now + wait = DayLen * k + After
      BY <1>1, <2>2
    <3> HIDE DEF n
    <3>2. QED
      BY <1>1, <2>2, <2>5, <3>1, SleptOnTime, Zenon
  <2>7. CASE now = 0
    BY <1>3, <1>6, <2>1, <2>3, <2>6, <2>7
  <2>8. CASE now = MaxNow
    <3>1. Timed(up', n, now')
      BY <2>1, <2>8 DEF Timed
    <3>2. QED
      BY <1>3, <1>6, <2>1, <3>1
  <2>9. CASE ~Failing \/ OnTime(now, Slack(n + 1))
    <3>1. ASSUME ~x.ok
          PROVE  Timed(up', n, now)
      <4>1. up' = Slept(FALSE, wait)
        BY <2>1, <3>1
      <4>2. up'.pc = "sleep" /\ up'.wake = now + Retry
        BY <4>1 DEF Slept, UpIdle
      <4>3. Retry \in Nat /\ Slack(n + 1) \in Int /\ Period = Retry
        <5>1. n + 1 \in Nat
          BY <1>1
        <5>2. Slack(n + 1) \in Nat
          BY <5>1, Passes
        <5>3. QED
          BY <2>20, <3>1, <5>2, ClockAssumption DEF Period
      <4>4. OnTime(now + Retry, Slack(n + 1)) /\ now <= now + Retry
        BY <1>1, <2>9, <2>20, <3>1, <4>3, Timetable
      <4>5. QED
        BY <4>2, <4>4 DEF Timed
    <3>2. ASSUME x.ok, days = {}
          PROVE  Timed(up', n, now)
      BY <2>1, <2>6, <3>2
    <3>3. ASSUME x.ok, days # {}
          PROVE  Timed(up', n, now)
      <4>1. up' = [UpIdle EXCEPT !.pc = "read", !.todo = days, !.wait = wait]
        BY <2>1, <3>3
      <4>2. up'.pc = "read" /\ up'.wait = wait /\ up'.todo = days /\ up'.allOK = TRUE
        BY <4>1 DEF UpIdle
      <4>3. ASSUME NEW d \in up'.todo
            PROVE  now <= now + Took(d - 1)
        <5>1. d \in Day
          BY <1>1, <4>3
        <5>2. d - 1 \in Nat
          BY <5>1, MaxDayAssumption DEF Day
        <5>3. Took(d - 1) \in Nat
          BY <5>2, Passes
        <5>4. QED
          BY <1>1, <5>3
      <4>4. Began(now, up', n, now)
        BY <1>1, <2>2, <2>9, <4>2, <4>3 DEF Began
      <4>5. QED
        BY <1>1, <4>2, <4>4 DEF Timed
    <3>4. QED
      BY <1>3, <1>6, <2>1, <3>1, <3>2, <3>3
  <2>10. QED
    BY <2>4, <2>7, <2>8, <2>9
<1>8. ASSUME alive, up.pc # "sleep", now # MaxNow
      PROVE  \E s \in Int : Began(s, up, n, now)
  BY <1>3, <1>8 DEF Timed, Fresh
<1>9. CASE UpRead
  <2>1. PICK d \in up.todo :
            /\ \A e \in up.todo : d <= e
            /\ up' = [up EXCEPT !.pc = "post", !.day = d, !.since = now, !.body = disk.json[d]]
    BY <1>9 DEF UpRead
  <2>2. /\ up'.pc = "post" /\ up'.since = now /\ up'.wait = up.wait /\ up'.todo = up.todo
        /\ up'.day = d /\ up'.allOK = up.allOK
        /\ alive /\ up.pc = "read" /\ UNCHANGED <<now, alive, measure, budget>>
    BY <1>1, <1>9, <2>1 DEF UpRead, UpType
  <2>3. ASSUME now # MaxNow
        PROVE  Timed(up', n, now)
    <3>1. PICK s \in Int : Began(s, up, n, now)
      BY <1>8, <2>2, <2>3
    <3>2. now <= s + Took(d - 1)
      BY <2>2, <3>1 DEF Began
    <3>3. now <= now + PostTime
      BY <1>1, <1>2
    <3>4. Began(s, up', n, now)
      BY <2>1, <2>2, <3>1, <3>2, <3>3 DEF Began, FirstDay
    <3>5. QED
      BY <2>2, <3>4 DEF Timed
  <2>4. QED
    BY <1>3, <1>6, <2>2, <2>3 DEF Timed
<1>10. ASSUME up.pc = "post", now # MaxNow, NEW s \in Int, Began(s, up, n, now)
       PROVE  FirstDay(up) /\ now <= s + Took(up.day)
  <2>1. up.day \in Nat /\ up.day - 1 \in Nat
    BY <1>0, <1>10, MaxDayAssumption DEF IInv, Day
  <2>2. Took(up.day - 1) \in Nat /\ Took((up.day - 1) + 1) = Took(up.day - 1) + PostTime
    BY <2>1, Passes
  <2>3. (up.day - 1) + 1 = up.day
    BY <2>1
  <2>4. FirstDay(up) /\ up.since <= s + Took(up.day - 1) /\ now <= up.since + PostTime
    BY <1>10 DEF Began
  <2>5. QED
    BY <1>1, <1>2, <1>10, <2>2, <2>3, <2>4
<1>11. CASE UpPost
  <2>1. /\ up' = [up EXCEPT !.pc = "rename"] /\ alive /\ up.pc = "post"
        /\ UNCHANGED <<now, alive, measure, budget>>
    BY <1>11 DEF UpPost
  <2>2. /\ up'.pc = "rename" /\ up'.wait = up.wait /\ up'.todo = up.todo /\ up'.day = up.day
        /\ up'.allOK = up.allOK
    BY <1>1, <2>1 DEF UpType
  <2>3. ASSUME now # MaxNow
        PROVE  Timed(up', n, now)
    <3>1. PICK s \in Int : Began(s, up, n, now)
      BY <1>8, <2>1, <2>3
    <3>2. Began(s, up', n, now)
      BY <1>10, <2>1, <2>2, <2>3, <3>1 DEF Began, FirstDay
    <3>3. QED
      BY <2>2, <3>2 DEF Timed
  <2>4. QED
    BY <1>3, <1>6, <2>1, <2>3 DEF Timed
<1>12. CASE UpFail
  <2>1. /\ budget' = [budget EXCEPT !.netFails = @ + 1] /\ n < MaxNetFails /\ NextDay(FALSE)
        /\ alive /\ up.pc = "post" /\ UNCHANGED <<now, alive, measure>>
    BY <1>12 DEF UpFail
  <2>2. budget'.netFails = n + 1 /\ n + 1 <= MaxNetFails /\ n + 1 \in Nat /\ Failing
    <3>1. MaxNetFails \in Nat
      BY DEF Prompt
    <3>2. QED
      BY <1>1, <2>1, <3>1 DEF Failing
  <2>3. ASSUME now # MaxNow
        PROVE  Timed(up', n + 1, now)
    <3>1. PICK s \in Int : Began(s, up, n, now)
      BY <1>8, <2>1, <2>3
    <3>2. FirstDay(up) /\ now <= s + Took(up.day)
      BY <1>10, <2>1, <2>3, <3>1
    <3>3. up.day \in Day
      BY <1>0, <2>1 DEF IInv
    <3>4. QED
      BY <1>0, <1>1, <2>1, <2>2, <3>1, <3>2, <3>3, NextDayOnTime
  <2>4. QED
    BY <1>3, <1>6, <2>1, <2>2, <2>3 DEF Timed
<1>13. CASE UpRename
  <2>1. NextDay(TRUE) /\ alive /\ up.pc = "rename" /\ UNCHANGED <<now, alive, measure, budget>>
    BY <1>13 DEF UpRename
  <2>2. ASSUME now # MaxNow
        PROVE  Timed(up', n, now)
    <3>1. PICK s \in Int : Began(s, up, n, now)
      BY <1>8, <2>1, <2>2
    <3>2. FirstDay(up) /\ now <= s + Took(up.day)
      BY <2>1, <3>1 DEF Began
    <3>3. up.day \in Day
      BY <1>0, <2>1 DEF IInv
    <3>4. QED
      BY <1>0, <1>1, <2>1, <3>1, <3>2, <3>3, NextDayOnTime
  <2>3. QED
    BY <1>3, <1>6, <2>1, <2>2 DEF Timed
<1>14. ASSUME NEW m \in Measurer, Begin(m) \/ Finish(m)
       PROVE  ClockInv'
  <2>1. /\ alive /\ UNCHANGED <<now, alive, minute, up, budget>>
        /\ \E t \in {now, Idle} : measure' = [measure EXCEPT ![m] = t]
    BY <1>14 DEF Begin, Finish
  <2>2. PICK t \in {now, Idle} : measure' = [measure EXCEPT ![m] = t]
    BY <2>1
  <2>3. ASSUME NEW i \in Measurer, Measuring(i)'
        PROVE  now - After <= measure'[i] /\ measure'[i] <= now
    <3>1. measure'[i] = IF i = m THEN t ELSE measure[i]
      BY <1>1, <2>2
    <3>2. CASE i = m
      BY <1>1, <1>2, <2>3, <3>1, <3>2 DEF Measuring
    <3>3. CASE i # m
      BY <2>3, <3>1, <3>3 DEF Measuring, ClockInv
    <3>4. QED
      BY <3>2, <3>3
  <2>4. ASSUME Fresh
        PROVE  Fresh'
    <3>1. ASSUME NEW i \in Measurer, Measuring(i)'
          PROVE  measure'[i] = now
      <4>1. measure'[i] = IF i = m THEN t ELSE measure[i]
        BY <1>1, <2>2
      <4>2. CASE i = m
        BY <3>1, <4>1, <4>2 DEF Measuring
      <4>3. CASE i # m
        BY <2>4, <3>1, <4>1, <4>3 DEF Measuring, Fresh
      <4>4. QED
        BY <4>2, <4>3
    <3>2. QED
      BY <2>1, <2>4, <3>1 DEF Fresh, Failing
  <2>5. QED
    BY <1>3, <2>1, <2>3, <2>4 DEF ClockInv
<1>15. ASSUME UNCHANGED <<now, alive, measure, up>>, budget'.netFails = n,
              UNCHANGED minute \/ minute # "wait", UNCHANGED <<h, minute>> \/ alive
       PROVE  ClockInv'
  <2>1. Fresh => Fresh'
    BY <1>15 DEF Fresh, Measuring, Failing
  <2>2. ~alive => Stopped'
    BY <1>3, <1>15 DEF Stopped, Measuring, Failing
  <2>3. QED
    BY <1>3, <1>15, <2>1, <2>2 DEF ClockInv, Measuring
<1>16. CASE DiskFills
  <2>1. UNCHANGED <<h, now, alive, minute, measure, up>> /\ budget' = [budget EXCEPT !.fulls = @ + 1]
    BY <1>16 DEF DiskFills
  <2>2. budget'.netFails = n
    BY <1>1, <2>1
  <2>3. QED
    BY <1>15, <2>1, <2>2
<1>17. CASE MinuteWrite \/ MinuteFlush
  <2>1. alive /\ minute # "wait" /\ UNCHANGED <<now, alive, measure, up, budget>>
    BY <1>17 DEF MinuteWrite, MinuteFlush
  <2>2. QED
    BY <1>15, <2>1
<1>18. CASE DiskFrees \/ UNCHANGED vars
  <2>1. UNCHANGED <<h, now, alive, minute, measure, up, budget>>
    BY <1>18 DEF DiskFrees, vars, storeVars, sysVars
  <2>2. QED
    BY <1>15, <2>1
<1>19. QED
  BY <1>4, <1>20, <1>5, <1>7, <1>9, <1>11, <1>12, <1>13, <1>14, <1>16, <1>17, <1>18
     DEF Next, MinuteLoop, UploadLoop

-----------------------------------------------------------------------------
(***************************************************************************)
(* The invariant of the finished days: no record is stamped on a day that  *)
(* is listed or sent any more, no handle is open on one, so what was read  *)
(* is what is posted and what is renamed.                                  *)
(***************************************************************************)
Over(d) ==
    /\ d < Today
    /\ \A m \in Measurer : Measuring(m) => d < DayOf(measure[m])
    /\ minute # "wait" => d < DayOf(now - 1)

DayInv ==
    /\ \A d \in disk.sentAt \cup up.todo : Over(d)
    /\ h.file # "none" => h.day \notin up.todo
    /\ h.file # "sent"
    /\ up.pc = "post" => up.body = disk.json[up.day]
    /\ up.pc = "rename" => disk.json[up.day] \in posted[up.day]
    /\ \A d \in disk.sentAt : disk.sent[d] \in posted[d]
    /\ disk.sentAt \cap disk.jsonAt = {}

(* The three together, and the disk that takes every write, where it does. *)
PromptInv ==
    /\ FilesInv /\ ClockInv /\ DayInv
    /\ MaxFulls = 0 => HeadInv

(* No day is finished at the start. *)
LEMMA InitDays == Init => DayInv
<1> SUFFICES ASSUME Init PROVE DayInv
  OBVIOUS
<1>1. up.todo = {} /\ up.pc = "sleep" /\ disk.sentAt = {} /\ h.file = "none"
  BY DEF Init, UpIdle, StoreInit, NoHandle
<1>2. QED
  BY <1>1 DEF DayInv

(***************************************************************************)
(* A finished day stays one: time goes on, what begins is stamped today,   *)
(* and the minute that ends is one of today's.                             *)
(***************************************************************************)
LEMMA StaysOver ==
    ASSUME IInv, [Next]_vars
    PROVE  \A d \in Int : Over(d) => Over(d)'
<1>1. /\ now \in Nat /\ measure \in [Measurer -> 0 .. MaxNow \cup {Idle}]
      /\ \A s, t \in Int : s <= t => DayOf(s) <= DayOf(t) /\ DayOf(s) \in Int /\ DayOf(t) \in Int
  <2>1. \A s, t \in Int : s <= t => DayOf(s) <= DayOf(t) /\ DayOf(s) \in Int
    BY DaysInOrder
  <2>2. \A t \in Int : DayOf(t) \in Int
    BY <2>1
  <2>3. now \in Nat /\ measure \in [Measurer -> 0 .. MaxNow \cup {Idle}]
    BY ClockAssumption DEF IInv, TypeOK
  <2>4. QED
    BY <2>1, <2>2, <2>3
<1>2. CASE Tick
  <2>1. /\ now' = now + 1 /\ measure' = measure /\ Today' = DayOf(now + 1)
        /\ DayOf(now' - 1) = Today /\ \A m \in Measurer : Measuring(m)' = Measuring(m)
    <3>1. now' = now + 1 /\ measure' = measure
      BY <1>2 DEF Tick
    <3>2. now' - 1 = now
      BY <1>1, <3>1
    <3>3. QED
      BY <3>1, <3>2 DEF Today, Measuring, DayOf
  <2>2. now + 1 \in Int /\ now <= now + 1 /\ now \in Int
    BY <1>1
  <2>3. Today <= DayOf(now + 1) /\ Today \in Int /\ DayOf(now + 1) \in Int
    BY <1>1, <2>2 DEF Today
  <2>4. ASSUME NEW d \in Int, Over(d)
        PROVE  Over(d)'
    <3>1. d < Today /\ d < DayOf(now + 1)
      BY <2>3, <2>4 DEF Over
    <3>2. \A m \in Measurer : Measuring(m) => d < DayOf(measure[m])
      BY <2>4 DEF Over
    <3>3. d < DayOf(now' - 1) /\ d < Today'
      BY <2>1, <3>1
    <3>4. \A m \in Measurer : Measuring(m)' => d < DayOf(measure'[m])
      BY <2>1, <3>2
    <3>5. QED
      BY <3>3, <3>4 DEF Over, DayOf
  <2>5. QED
    BY <2>4
<1>3. ASSUME now' = now, minute' = minute \/ minute' = "wait" \/ minute # "wait",
             \A m \in Measurer : Measuring(m)' => measure'[m] = now \/ measure'[m] = measure[m]
      PROVE  \A d \in Int : Over(d) => Over(d)'
  <2>1. ASSUME NEW d \in Int, Over(d)
        PROVE  Over(d)'
    <3>1. d < DayOf(now) /\ Today' = DayOf(now) /\ DayOf(now' - 1) = DayOf(now - 1)
      BY <1>3, <2>1 DEF Over, Today, DayOf
    <3>2. \A m \in Measurer : Measuring(m) => d < DayOf(measure[m])
      BY <2>1 DEF Over
    <3>3. ASSUME NEW m \in Measurer, Measuring(m)'
          PROVE  d < DayOf(measure'[m])
      <4>1. CASE measure'[m] = now
        BY <3>1, <4>1
      <4>2. CASE measure'[m] = measure[m]
        <5>1. Measuring(m)
          BY <3>3, <4>2 DEF Measuring
        <5>2. QED
          BY <3>2, <4>2, <5>1
      <4>3. QED
        BY <1>3, <3>3, <4>1, <4>2
    <3>4. minute' # "wait" => d < DayOf(now - 1)
      BY <1>3, <2>1 DEF Over
    <3>5. QED
      BY <3>1, <3>3, <3>4 DEF Over, DayOf
  <2>2. QED
    BY <2>1
<1>4. ASSUME NEW m \in Measurer, Begin(m) \/ Finish(m)
      PROVE  \A d \in Int : Over(d) => Over(d)'
  <2>1. now' = now /\ minute' = minute /\ \E t \in {now, Idle} : measure' = [measure EXCEPT ![m] = t]
    BY <1>4 DEF Begin, Finish
  <2>2. PICK t \in {now, Idle} : measure' = [measure EXCEPT ![m] = t]
    BY <2>1
  <2>3. \A i \in Measurer : Measuring(i)' => measure'[i] = now \/ measure'[i] = measure[i]
    BY <1>1, <2>2 DEF Measuring
  <2>4. QED
    BY <1>3, <2>1, <2>3
<1>5. CASE Crash \/ Stop
  <2>1. now' = now /\ minute' = "wait" /\ measure' = [m \in Measurer |-> Idle]
    BY <1>5 DEF Crash, Stop, Down
  <2>2. \A m \in Measurer : ~Measuring(m)'
    BY <2>1 DEF Measuring
  <2>3. QED
    BY <1>3, <2>1, <2>2
<1>6. CASE MinuteWrite \/ MinuteFlush
  <2>1. now' = now /\ measure' = measure /\ minute # "wait"
    BY <1>6 DEF MinuteWrite, MinuteFlush
  <2>2. QED
    BY <1>3, <2>1
<1>7. CASE UNCHANGED <<now, minute, measure>>
  BY <1>3, <1>7
<1>8. QED
  BY <1>2, <1>4, <1>5, <1>6, <1>7
     DEF Next, MinuteLoop, UploadLoop, DiskFills, DiskFrees, UpList, UpRead, UpPost, UpFail, UpRename,
         Start, vars, sysVars

(* No record is stamped on a finished day. *)
LEMMA NoneStamped ==
    ASSUME NEW e \in Day, WriteStep(e), NEW d \in Day, Over(d)
    PROVE  d # e
<1>1. d \in Int /\ ~(d < d)
  BY MaxDayAssumption DEF Day
<1>2. d < e
  BY DEF WriteStep, Over
<1>3. QED
  BY <1>1, <1>2

(* A step that renames nothing leaves the finished days as they are. *)
LEMMA FinishedStay ==
    ASSUME Prompt, PromptInv, SettleStep \/ \E e \in Day : WriteStep(e)
    PROVE  /\ disk'.sentAt = disk.sentAt /\ disk'.sentAt \cap disk'.jsonAt = {}
           /\ h'.file # "sent" /\ (h'.file # "none" => h'.day \notin up.todo)
           /\ \A d \in disk.sentAt \cup up.todo :
                disk'.json[d] = disk.json[d] /\ disk'.sent[d] = disk.sent[d]
<1>1. /\ IInv /\ Named(Now) /\ ClockInv /\ DayInv
      /\ Now.disk = disk /\ Now.h = h /\ Now'.disk = disk' /\ Now'.h = h'
      /\ up.todo \subseteq Day /\ disk.sentAt \subseteq Day /\ h.file \in {"none", "json", "sent"}
  BY DEF PromptInv, FilesInv, Now, IInv, TypeOK, StoreTypeOK, DiskType, HandleType, UpType
<1>2. \A f \in Names, d \in disk.sentAt \cup up.todo : ~OpenOn(Now, f, d)
  BY <1>1 DEF DayInv, Named, OpenOn, Names
<1>3. "json" \in Names /\ "sent" \in Names
  BY DEF Names
<1>4. CASE SettleStep
  <2>1. Settles(Now, Now')
    BY <1>4 DEF SettleStep
  <2>2. \A f \in Names, d \in disk.sentAt \cup up.todo : File(Now', f, d) = File(Now, f, d)
    BY <1>1, <1>2, <2>1 DEF Settles
  <2>3. \A d \in disk.sentAt \cup up.todo :
            disk'.json[d] = disk.json[d] /\ disk'.sent[d] = disk.sent[d]
    BY <1>1, <1>3, <2>2 DEF File
  <2>4. QED
    BY <1>1, <2>1, <2>3 DEF Settles, DayInv
<1>5. ASSUME NEW e \in Day, WriteStep(e)
      PROVE  /\ disk'.sentAt = disk.sentAt /\ disk'.sentAt \cap disk'.jsonAt = {}
             /\ h'.file # "sent" /\ (h'.file # "none" => h'.day \notin up.todo)
             /\ \A d \in disk.sentAt \cup up.todo :
                  disk'.json[d] = disk.json[d] /\ disk'.sent[d] = disk.sent[d]
  <2>1. Writes(Now, Now', e, Line(next))
    BY <1>5 DEF WriteStep
  <2>2. e \notin disk.sentAt \cup up.todo
    BY <1>1, <1>5, NoneStamped DEF DayInv
  <2>3. h'.file # "none" => h'.day = e
    BY <1>1, <2>1 DEF Writes
  <2>4. \A f \in Names, d \in disk.sentAt \cup up.todo : ~OpenOn(Now', f, d)
    BY <1>1, <2>2, <2>3 DEF OpenOn, Names
  <2>5. \A f \in Names, d \in disk.sentAt \cup up.todo : File(Now', f, d) = File(Now, f, d)
    BY <1>1, <1>2, <2>1, <2>4 DEF Writes
  <2>6. \A d \in disk.sentAt \cup up.todo :
            disk'.json[d] = disk.json[d] /\ disk'.sent[d] = disk.sent[d]
    BY <1>1, <1>3, <2>5 DEF File
  <2>7. h'.file # "sent"
    BY <1>1, <2>1 DEF Writes, OpenOn, DayInv
  <2>8. disk'.sentAt = disk.sentAt /\ disk'.jsonAt \in {disk.jsonAt, disk.jsonAt \cup {e}}
    BY <1>1, <2>1 DEF Writes
  <2>9. QED
    BY <1>1, <2>2, <2>3, <2>6, <2>7, <2>8 DEF DayInv
<1>6. QED
  BY <1>4, <1>5

(* The days listed are over, and the store has nothing open on them. *)
LEMMA ListedAreOver ==
    ASSUME Prompt, PromptInv, UpList
    PROVE  /\ up'.pc \in {"sleep", "read"}
           /\ \A d \in up'.todo : Over(d) /\ (h'.file # "none" => h'.day # d)
<1> DEFINE x    == ClosePast(Now, Today)
           days == FinishedDays(x, Today)
<1>1. /\ alive /\ up.pc = "sleep" /\ (now >= up.wake \/ now = MaxNow) /\ h' = x.h
      /\ up'.pc \in {"sleep", "read"} /\ up'.todo \in {{}, days}
  BY DEF UpList, Slept, UpIdle, Becomes
<1>2. /\ IInv /\ ClockInv /\ Now \in GoodStore /\ Now.h = h /\ now \in Nat
      /\ measure \in [Measurer -> 0 .. MaxNow \cup {Idle}]
  BY NowIsGood DEF PromptInv, FilesInv, IInv, TypeOK
<1>3. /\ days \subseteq Day /\ \A d \in days : d < Today
  <2>1. x \in GoodStore
    BY <1>2, FlushSettles DEF Settles
  <2>2. QED
    BY <2>1 DEF FinishedDays, GoodStore, StoreType, DiskType
<1>4. h'.file # "none" => h'.day >= Today
  <2>1. CASE Now.h.file # "none" /\ Now.h.day < Today
    <3>1. x = CloseLocked(Now)
      BY <2>1 DEF ClosePast
    <3>2. x.h.file = "none"
      BY <1>2, <3>1, CloseLockedHeld DEF ClosedOff
    <3>3. QED
      BY <1>1, <3>2
  <2>2. CASE ~(Now.h.file # "none" /\ Now.h.day < Today)
    <3>1. x = Now
      BY <2>2 DEF ClosePast
    <3>2. h' = h
      BY <1>1, <1>2, <3>1
    <3>3. h.file # "none" => h.day \in Int
      BY <1>2, MaxDayAssumption DEF IInv, GoodHandle, Day
    <3>4. Today \in Int
      BY <1>2, ClockAssumption DEF Today, DayOf
    <3>5. QED
      BY <1>2, <2>2, <3>2, <3>3, <3>4
  <2>3. QED
    BY <2>1, <2>2
<1>5. Today \in Int /\ \A d \in Day : d \in Int
  BY <1>2, ClockAssumption, MaxDayAssumption DEF Today, DayOf, Day
<1>6. /\ \A m \in Measurer : Measuring(m) => Today <= DayOf(measure[m]) /\ DayOf(measure[m]) \in Int
      /\ minute # "wait" => Today <= DayOf(now - 1) /\ DayOf(now - 1) \in Int
  <2>1. CASE Fresh
    <3>1. \A m \in Measurer : Measuring(m) => DayOf(measure[m]) = Today
      BY <2>1 DEF Fresh, Today
    <3>2. QED
      BY <1>5, <2>1, <3>1 DEF Fresh
  <2>2. CASE Timed(up, budget.netFails, now)
    <3>1. budget.netFails <= MaxNetFails
      BY <1>2 DEF ClockInv
    <3>2. now >= After /\ DayOf(now - After) = Today
      BY <1>1, <1>2, <2>2, <3>1, NotMidnight
    <3>3. now - After \in Int /\ now - 1 \in Int /\ now - After <= now - 1 /\ now \in Int
      BY <1>2, ClockAssumption DEF Prompt
    <3>4. ASSUME NEW t \in Int, now - After <= t
          PROVE  Today <= DayOf(t) /\ DayOf(t) \in Int
      <4>1. t <= t
        BY <3>4
      <4>2. DayOf(now - After) <= DayOf(t) /\ DayOf(t) \in Int
        BY <3>3, <3>4, <4>1, DaysInOrder
      <4>3. QED
        BY <3>2, <4>2
    <3>5. \A m \in Measurer : Measuring(m) => measure[m] \in Int /\ now - After <= measure[m]
      BY <1>2 DEF ClockInv, Measuring
    <3>6. QED
      BY <3>3, <3>4, <3>5
  <2>3. QED
    BY <1>1, <1>2, <2>1, <2>2 DEF ClockInv
<1> HIDE DEF days
<1>7. ASSUME NEW d \in days
      PROVE  Over(d) /\ (h'.file # "none" => h'.day # d)
  <2>1. d \in Int /\ d < Today
    BY <1>3, <1>5, <1>7
  <2>2. h'.file # "none" => h'.day # d
    BY <1>4, <1>5, <2>1
  <2>3. \A t \in Int : Today <= t => d < t
    BY <1>5, <2>1
  <2>4. QED
    BY <1>6, <2>1, <2>2, <2>3 DEF Over
<1>8. QED
  BY <1>1, <1>7

(* What the end of a day of the pass does to the upload loop. *)
LEMMA NextDayRests ==
    ASSUME IInv, NEW ok, NextDay(ok)
    PROVE  up'.pc \in {"sleep", "read"} /\ up'.todo \subseteq up.todo \ {up.day}
<1>1. up \in UpType
  BY DEF IInv, TypeOK
<1>2. CASE up.todo \ {up.day} = {}
  <2>1. up' = Slept(up.allOK /\ ok, up.wait)
    BY <1>2 DEF NextDay
  <2>2. up'.todo = {} /\ up'.pc = "sleep"
    BY <2>1 DEF Slept, UpIdle
  <2>3. QED
    BY <2>2
<1>3. CASE up.todo \ {up.day} # {}
  BY <1>1, <1>3 DEF NextDay, UpType
<1>4. QED
  BY <1>2, <1>3

(***************************************************************************)
(* Every step leaves the finished days alone, but for the rename of the    *)
(* one posted.                                                             *)
(***************************************************************************)
LEMMA StepDays ==
    ASSUME Prompt, PromptInv, [Next]_vars
    PROVE  DayInv'
<1>0. /\ IInv /\ ClockInv /\ DayInv /\ FilesInv /\ up \in UpType /\ up.todo \subseteq Day
      /\ disk.sentAt \subseteq Day /\ now \in Nat /\ posted \in [Day -> SUBSET Seq(Half)]
      /\ Now.disk = disk /\ Now.h = h /\ Now'.disk = disk' /\ Now'.h = h' /\ up.body \in Seq(Half)
      /\ \A d \in Day : d \in Int
  <2>1. IInv /\ ClockInv /\ DayInv /\ FilesInv
    BY DEF PromptInv, FilesInv
  <2>2. /\ up \in UpType /\ disk \in DiskType /\ now \in Nat /\ posted \in [Day -> SUBSET Seq(Half)]
    BY <2>1, ClockAssumption DEF IInv, TypeOK, StoreTypeOK
  <2>3. up.todo \subseteq Day /\ disk.sentAt \subseteq Day /\ up.body \in Seq(Half)
    BY <2>2 DEF UpType, DiskType
  <2>4. Now.disk = disk /\ Now.h = h /\ Now'.disk = disk' /\ Now'.h = h'
    BY DEF Now
  <2>5. \A d \in Day : d \in Int
    BY MaxDayAssumption DEF Day
  <2>6. QED
    BY <2>1, <2>2, <2>3, <2>4, <2>5
<1>1. up.todo \subseteq disk.jsonAt /\ (up.pc \in {"post", "rename"} => up.day \in up.todo)
  BY <1>0 DEF FilesInv
<1>4. \A d \in Int : Over(d) => Over(d)'
  BY <1>0, StaysOver
<1>5. CASE RenameStep
  <2>1. /\ UpRename /\ Renames(Now, Now', up.day) /\ up.pc = "rename" /\ NextDay(TRUE)
        /\ posted' = posted
    BY <1>5 DEF RenameStep, UpRename
  <2>2. up.day \in up.todo /\ up.day \in Day /\ Over(up.day)
    BY <1>0, <1>1, <2>1 DEF DayInv
  <2>3. up'.pc \in {"sleep", "read"} /\ up'.todo \subseteq up.todo \ {up.day}
    BY <1>0, <2>1, NextDayRests
  <2>4. disk'.jsonAt = disk.jsonAt \ {up.day} /\ disk'.sentAt = disk.sentAt \cup {up.day}
    BY <1>0, <2>1 DEF Renames
  <2>5. disk'.sent[up.day] = disk.json[up.day]
    BY <1>0, <2>1 DEF Renames, File
  <2>6. ASSUME NEW d \in disk.sentAt \ {up.day}
        PROVE  disk'.sent[d] = disk.sent[d]
    <3>1. d \in Day \ {up.day} /\ "sent" \in Names
      BY <1>0, <2>6 DEF Names
    <3>2. File(Now', "sent", d) = File(Now, "sent", d)
      BY <2>1, <3>1 DEF Renames
    <3>3. QED
      BY <1>0, <3>2 DEF File
  <2>7. \A d \in disk'.sentAt : disk'.sent[d] \in posted'[d]
    <3>1. disk.json[up.day] \in posted[up.day]
      BY <1>0, <2>1 DEF DayInv
    <3>2. QED
      BY <1>0, <2>1, <2>4, <2>5, <2>6, <3>1 DEF DayInv
  <2>8. \A d \in disk'.sentAt \cup up'.todo : Over(d)'
    <3>1. ASSUME NEW d \in disk'.sentAt \cup up'.todo
          PROVE  d \in Int /\ Over(d)
      BY <1>0, <2>2, <2>3, <2>4, <3>1 DEF DayInv
    <3>2. QED
      BY <1>4, <3>1
  <2>9. h'.day = h.day /\ h'.file = h.file
    <3>1. ~OpenOn(Now, "json", up.day)
      BY <1>0, <2>2 DEF OpenOn, DayInv
    <3>2. QED
      BY <1>0, <2>1, <3>1 DEF Renames
  <2>10. QED
    BY <1>0, <2>3, <2>4, <2>7, <2>8, <2>9 DEF DayInv
<1>6. CASE SettleStep \/ \E e \in Day : WriteStep(e)
  <2> DEFINE kept == disk.sentAt \cup up.todo
  <2>1. /\ disk'.sentAt = disk.sentAt /\ disk'.sentAt \cap disk'.jsonAt = {}
        /\ h'.file # "sent" /\ (h'.file # "none" => h'.day \notin up.todo)
        /\ \A d \in kept : disk'.json[d] = disk.json[d] /\ disk'.sent[d] = disk.sent[d]
    BY <1>6, FinishedStay
  <2>2. \A d \in kept : d \in Int /\ Over(d) /\ Over(d)'
    BY <1>0, <1>4 DEF DayInv
  <2> HIDE DEF kept
  <2>3. ASSUME \A d \in Day : posted[d] \subseteq posted'[d],
               up'.todo \subseteq up.todo,
               up'.pc = "post" => up'.day \in up.todo /\ up'.body = disk.json[up'.day],
               up'.pc = "rename" => up'.day \in up.todo /\ disk.json[up'.day] \in posted'[up'.day]
        PROVE  DayInv'
    <3>1. \A d \in disk'.sentAt \cup up'.todo : Over(d)'
      BY <2>1, <2>2, <2>3 DEF kept
    <3>2. up'.pc = "post" => up'.body = disk'.json[up'.day]
      BY <2>1, <2>3 DEF kept
    <3>3. up'.pc = "rename" => disk'.json[up'.day] \in posted'[up'.day]
      BY <2>1, <2>3 DEF kept
    <3>4. \A d \in disk'.sentAt : disk'.sent[d] \in posted'[d]
      BY <1>0, <2>1, <2>3 DEF DayInv, kept
    <3>5. h'.file # "none" => h'.day \notin up'.todo
      BY <2>1, <2>3
    <3>6. QED
      BY <2>1, <3>1, <3>2, <3>3, <3>4, <3>5 DEF DayInv
  <2>4. CASE UNCHANGED <<up, posted>>
    BY <1>0, <1>1, <2>3, <2>4 DEF DayInv
  <2>5. CASE UpList
    <3>1. /\ up'.pc \in {"sleep", "read"} /\ posted' = posted
          /\ \A d \in up'.todo : Over(d) /\ (h'.file # "none" => h'.day # d)
      BY <2>5, ListedAreOver DEF UpList
    <3>2. up'.todo \subseteq Day
      BY StepInvariant, <1>0 DEF IInv, TypeOK, UpType
    <3>3. \A d \in disk'.sentAt \cup up'.todo : Over(d)'
      BY <1>0, <1>4, <2>1, <2>2, <3>1, <3>2 DEF kept
    <3>4. \A d \in disk'.sentAt : disk'.sent[d] \in posted'[d]
      BY <1>0, <2>1, <3>1 DEF DayInv, kept
    <3>5. QED
      BY <2>1, <3>1, <3>3, <3>4 DEF DayInv
  <2>6. CASE UpRead
    <3>1. PICK d \in up.todo :
              up' = [up EXCEPT !.pc = "post", !.day = d, !.since = now, !.body = disk.json[d]]
      BY <2>6 DEF UpRead
    <3>2. up'.pc = "post" /\ up'.day = d /\ up'.body = disk.json[d] /\ up'.todo = up.todo
      BY <1>0, <3>1 DEF UpType
    <3>3. posted' = posted
      BY <2>6 DEF UpRead
    <3>4. QED
      BY <2>3, <3>2, <3>3
  <2>7. CASE UpPost
    <3>1. /\ up.pc = "post" /\ up' = [up EXCEPT !.pc = "rename"]
          /\ posted' = [posted EXCEPT ![up.day] = @ \cup {up.body}]
      BY <2>7 DEF UpPost
    <3>2. up'.pc = "rename" /\ up'.day = up.day /\ up'.todo = up.todo
      BY <1>0, <3>1 DEF UpType
    <3>3. up.day \in up.todo /\ up.body = disk.json[up.day] /\ up.day \in Day
      BY <1>0, <1>1, <3>1 DEF DayInv
    <3>4. \A d \in Day : posted'[d] = IF d = up.day THEN posted[d] \cup {up.body} ELSE posted[d]
      BY <1>0, <3>1
    <3>5. QED
      BY <2>3, <3>2, <3>3, <3>4
  <2>8. CASE UpFail
    <3>1. NextDay(FALSE) /\ up.pc = "post"
          /\ (posted' = posted \/ posted' = [posted EXCEPT ![up.day] = @ \cup {up.body}])
      BY <2>8 DEF UpFail
    <3>2. up'.pc \in {"sleep", "read"} /\ up'.todo \subseteq up.todo
      BY <1>0, <3>1, NextDayRests
    <3>3. \A d \in Day : posted[d] \subseteq posted'[d]
      BY <1>0, <3>1
    <3>4. QED
      BY <2>3, <3>2, <3>3
  <2>9. CASE UpRename
    <3>1. NextDay(TRUE) /\ posted' = posted
      BY <2>9 DEF UpRename
    <3>2. up'.pc \in {"sleep", "read"} /\ up'.todo \subseteq up.todo
      BY <1>0, <3>1, NextDayRests
    <3>3. QED
      BY <2>3, <3>1, <3>2
  <2>11. CASE Crash \/ Stop \/ Start
    <3>1. posted' = posted /\ \E t : up' = [UpIdle EXCEPT !.wake = t]
      BY <2>11 DEF Crash, Stop, Down, Start, UpIdle
    <3>2. up'.todo = {} /\ up'.pc = "sleep"
      BY <3>1 DEF UpIdle
    <3>3. QED
      BY <2>3, <3>1, <3>2
  <2>10. QED
    BY <2>11, <2>4, <2>5, <2>6, <2>7, <2>8, <2>9
       DEF Next, MinuteLoop, UploadLoop, Tick, DiskFills, DiskFrees, Begin, Finish, MinuteWrite,
           MinuteFlush, vars, sysVars
<1>7. QED
  BY <1>0, <1>5, <1>6, StoreStep

(* Every step preserves them. *)
LEMMA StepPrompt ==
    ASSUME Prompt, PromptInv, [Next]_vars
    PROVE  PromptInv'
<1>1. FilesInv'
  BY StepFiles DEF PromptInv
<1>2. ClockInv'
  BY StepClock DEF PromptInv, HeadInv
<1>3. DayInv'
  BY StepDays
<1>4. MaxFulls = 0 => HeadInv'
  BY StepHeads DEF PromptInv
<1>5. QED
  BY <1>1, <1>2, <1>3, <1>4 DEF PromptInv

(* On a prompt service they always hold. *)
LEMMA PromptInvariant ==
    ASSUME Prompt
    PROVE  Spec => []PromptInv
<1>1. Init => PromptInv
  BY InitFiles, InitClock, InitDays, InitCalm DEF PromptInv, HeadInv
<1>2. PromptInv /\ [Next]_vars => PromptInv'
  BY StepPrompt
<1>3. QED
  BY <1>1, <1>2, PTL DEF Spec

(* They are stronger than the two properties. *)
LEMMA PromptLands ==
    ASSUME Prompt, PromptInv
    PROVE  LastFlushLands /\ SentIsPosted
<1>1. LastFlushLands
  <2>1. SUFFICES ASSUME NEW d \in up.todo, minute \in {"write", "flush"}, d = DayOf(now - 1)
                 PROVE  FALSE
    BY DEF LastFlushLands
  <2>2. d < DayOf(now - 1)
    BY <2>1 DEF PromptInv, DayInv, Over
  <2>3. d \in Int
    BY MaxDayAssumption DEF PromptInv, FilesInv, IInv, TypeOK, UpType, Day
  <2>4. QED
    BY <2>1, <2>2, <2>3
<1>2. SentIsPosted
  <2>1. SUFFICES ASSUME NEW d \in disk.sentAt PROVE SentOf(Now, d) \in posted[d]
    BY DEF SentIsPosted
  <2>2. d \in Day /\ Now \in GoodStore /\ Now.disk = disk /\ Now.h = h /\ "sent" \in Names
    BY NowIsGood DEF PromptInv, FilesInv, IInv, TypeOK, StoreTypeOK, DiskType, Names
  <2>3. ~OpenOn(Now, "sent", d)
    BY <2>2 DEF PromptInv, DayInv, OpenOn
  <2>4. Held(Now, "sent", d) = File(Now, "sent", d)
    BY <2>2, <2>3, HeldTyped
  <2>5. File(Now, "sent", d) = disk.sent[d]
    BY <2>2 DEF File
  <2>6. QED
    BY <2>4, <2>5, HeldIs DEF PromptInv, DayInv
<1>3. QED
  BY <1>1, <1>2

(***************************************************************************)
(* LastFlushLands: on a prompt service no day is taken for upload while    *)
(* the flush of its own last minute is still to come.                      *)
(***************************************************************************)
THEOREM FlushesLand ==
    ASSUME Prompt
    PROVE  Spec => []LastFlushLands
<1>1. PromptInv => LastFlushLands
  BY PromptLands
<1>2. QED
  BY <1>1, PromptInvariant, PTL

(***************************************************************************)
(* SentIsPosted: on a prompt service a day marked .sent is a day the       *)
(* receiver has, to the last byte.                                         *)
(***************************************************************************)
THEOREM SentArePosted ==
    ASSUME Prompt
    PROVE  Spec => []SentIsPosted
<1>1. PromptInv => SentIsPosted
  BY PromptLands
<1>2. QED
  BY <1>1, PromptInvariant, PTL
(***************************************************************************)
(* On a disk that takes every write, nothing accepted is lost either, but  *)
(* for what a crash takes: the records since the last flush.               *)
(***************************************************************************)
Paired(s, r) == \E i \in 1 .. Len(s) - 1 : s[i] = 2 * r /\ s[i + 1] = 2 * r + 1

(* Record w is in a file of its day, or in the buffer for it. *)
Kept(w) == \E f \in Names : Paired(Held(Now, f, w.day), w.rec)

(* Since when nothing has been flushed. *)
Since == IF minute = "wait" THEN now ELSE now - 1

(* Every accepted record is kept, on disk once its minute has been flushed. *)
KeptInv ==
    /\ PromptInv
    /\ \A w \in written : w.rec >= 1 /\ Kept(w) /\ (OnDisk(w) \/ w.at >= Since)

(* A pair stays one as more is written, and a line is one. *)
LEMMA PairsStay ==
    ASSUME NEW a \in Seq(Half)
    PROVE  /\ \A b \in Seq(Half) : \A r : Extends(a, b) /\ Paired(a, r) => Paired(b, r)
           /\ \A r \in Nat : Paired(a \o Line(r), r)
           /\ \A r : ~Paired(<< >>, r)
           /\ \A r : Paired(a, r) => \E i \in 1 .. Len(a) : a[i] = 2 * r
<1>1. Len(a) \in Nat /\ Len(<< >>) = 0
  BY EmptySeq
<1>2. ASSUME NEW b \in Seq(Half), NEW r, Extends(a, b), NEW i \in 1 .. Len(a) - 1,
             a[i] = 2 * r, a[i + 1] = 2 * r + 1
      PROVE  Paired(b, r)
  <2>1. Len(b) \in Nat /\ Len(a) <= Len(b)
    BY <1>2 DEF Extends
  <2>2. i \in 1 .. Len(a) /\ i + 1 \in 1 .. Len(a) /\ i \in 1 .. Len(b) - 1
    BY <1>1, <2>1
  <2>3. b[i] = a[i] /\ b[i + 1] = a[i + 1]
    BY <1>2, <2>2 DEF Extends
  <2>4. QED
    BY <1>2, <2>2, <2>3 DEF Paired
<1>3. ASSUME NEW r \in Nat
      PROVE  Paired(a \o Line(r), r)
  <2> DEFINE t == a \o Line(r)
             k == Len(a)
  <2>1. /\ Len(t) = k + 2 /\ k \in Nat
        /\ t[k + 1] = 2 * r /\ t[k + 2] = 2 * r + 1
    BY WithLine
  <2> HIDE DEF t, k
  <2>2. k + 1 \in 1 .. Len(t) - 1 /\ (k + 1) + 1 = k + 2
    BY <2>1
  <2>3. Paired(t, r)
    BY <2>1, <2>2 DEF Paired
  <2>4. QED
    BY <2>3 DEF t
<1>4. ASSUME NEW r
      PROVE  ~Paired(<< >>, r) /\ (Paired(a, r) => \E i \in 1 .. Len(a) : a[i] = 2 * r)
  <2>1. \A i : i \notin 1 .. 0 - 1
    OBVIOUS
  <2>2. \A i \in 1 .. Len(a) - 1 : i \in 1 .. Len(a)
    BY <1>1
  <2>3. QED
    BY <1>1, <2>1, <2>2 DEF Paired
<1>5. QED
  BY <1>2, <1>3, <1>4 DEF Paired

(* A record is on disk when a file of its day has its line. *)
LEMMA OnDiskIs ==
    \A w : OnDisk(w) <=> \E f \in Names : Paired(File(Now, f, w.day), w.rec)
  BY DEF OnDisk, Paired, File, Names, Now

(* What is on disk stays there. *)
LEMMA StaysOnDisk ==
    ASSUME Prompt, PromptInv, [Next]_vars, NEW w, w.day \in Day, OnDisk(w)
    PROVE  \E f \in Names : Paired(File(Now', f, w.day), w.rec)
<1>1. /\ IInv /\ Named(Now) /\ Now \in GoodStore /\ Now.disk = disk /\ Now.h = h
      /\ "json" \in Names /\ "sent" \in Names
  BY NowIsGood DEF PromptInv, FilesInv, Names
<1>2. PICK f \in Names : Paired(File(Now, f, w.day), w.rec)
  BY OnDiskIs
<1>3. ASSUME Now' \in GoodStore, Extends(File(Now, f, w.day), File(Now', f, w.day))
      PROVE  \E g \in Names : Paired(File(Now', g, w.day), w.rec)
  BY <1>1, <1>2, <1>3, HeldTyped, PairsStay
<1>4. CASE SettleStep
  BY <1>3, <1>4 DEF SettleStep, Settles
<1>5. CASE \E d \in Day : WriteStep(d)
  BY <1>3, <1>5 DEF WriteStep, Writes
<1>6. CASE RenameStep
  <2>1. Renames(Now, Now', up.day) /\ up.pc = "rename"
    BY <1>6 DEF RenameStep, UpRename
  <2>2. up.day \in Day /\ up.day \notin disk.sentAt
    BY <1>1, <2>1 DEF PromptInv, FilesInv, IInv, DayInv
  <2>3. CASE w.day = up.day
    <3>1. File(Now, "sent", up.day) = << >>
      BY <1>1, <2>2 DEF Named
    <3>2. f = "json"
      BY <1>1, <1>2, <2>3, <3>1, EmptySeq, PairsStay DEF Names
    <3>3. File(Now', "sent", w.day) = File(Now, "json", w.day)
      BY <2>1, <2>3 DEF Renames
    <3>4. QED
      BY <1>1, <1>2, <3>2, <3>3
  <2>4. CASE w.day # up.day
    <3>1. w.day \in Day \ {up.day}
      BY <2>4
    <3>2. File(Now', f, w.day) = File(Now, f, w.day)
      BY <2>1, <3>1 DEF Renames
    <3>3. QED
      BY <1>2, <3>2
  <2>5. QED
    BY <2>3, <2>4
<1>7. QED
  BY <1>1, <1>4, <1>5, <1>6, StoreStep

(* Time since the last flush goes on only where a flush comes first. *)
LEMMA StepSince ==
    ASSUME IInv, [Next]_vars
    PROVE  Since' = Since \/ (Tick /\ ~alive) \/ MinuteFlush \/ Crash
<1>1. now \in Nat
  BY ClockAssumption DEF IInv, TypeOK
<1>2. CASE Tick
  BY <1>1, <1>2 DEF Tick, Since
<1>3. CASE Stop
  BY <1>3 DEF Stop, Down, Since
<1>4. CASE MinuteWrite
  BY <1>4 DEF MinuteWrite, Since
<1>5. CASE UNCHANGED <<now, minute>>
  BY <1>5 DEF Since
<1>6. QED
  BY <1>2, <1>3, <1>4, <1>5
     DEF Next, MinuteLoop, UploadLoop, DiskFills, DiskFrees, Begin, Finish, UpList, UpRead, UpPost,
         UpFail, UpRename, Start, vars, sysVars

(* Every step keeps it there. *)
LEMMA StepKept ==
    ASSUME Prompt, MaxFulls = 0, KeptInv, [Next]_vars
    PROVE  KeptInv'
<1>1. /\ PromptInv /\ PromptInv' /\ IInv /\ IInv' /\ Named(Now) /\ Calm(Now) /\ next \in Nat /\ next >= 1
      /\ now \in Nat
  BY StepPrompt, ClockAssumption DEF KeptInv, PromptInv, HeadInv, FilesInv, IInv, TypeOK
<1>2. Now \in GoodStore /\ Now' \in GoodStore /\ Now.disk = disk /\ Now.h = h
  <2>1. Now' \in GoodStore
    BY <1>1 DEF IInv, TypeOK, StoreTypeOK, Now, GoodStore, StoreType
  <2>2. QED
    BY <1>1, <2>1, NowIsGood
<1>3. \A w \in written : /\ w.day \in Day /\ w.rec >= 1 /\ w.rec \in Nat /\ w.at \in Nat
                         /\ \E f \in Names : Paired(Held(Now, f, w.day), w.rec)
                         /\ OnDisk(w) \/ w.at >= Since
  BY <1>1 DEF IInv, TypeOK, Entry, KeptInv, Kept
<1> DEFINE Lies(w) == \E f \in Names : Paired(File(Now', f, w.day), w.rec)
<1>4. \A w \in written : OnDisk(w) => Lies(w)
  BY <1>1, <1>3, StaysOnDisk
<1>5. ASSUME \A w \in written' : /\ w.rec >= 1 /\ \E f \in Names : Paired(Held(Now', f, w.day), w.rec)
                                 /\ Lies(w) \/ w.at >= Since'
      PROVE  KeptInv'
  <2>1. \A w : OnDisk(w)' <=> Lies(w)
    BY DEF OnDisk, Paired, File, Names, Now
  <2>2. QED
    BY <1>1, <1>5, <2>1 DEF KeptInv, Kept
<1> HIDE DEF Lies
<1>6. \A f \in Names, d \in Day : \A r : Paired(File(Now', f, d), r) => Paired(Held(Now', f, d), r)
  BY <1>2, HeldTyped, PairsStay
<1>7. CASE Crash
  <2>1. written' = {w \in written : OnDisk(w)}
    BY <1>7 DEF Crash
  <2>2. \A w \in written' : Lies(w)
    BY <1>4, <2>1
  <2>3. \A w \in written' : \E f \in Names : Paired(Held(Now', f, w.day), w.rec)
    BY <1>3, <1>6, <2>1, <2>2 DEF Lies
  <2>4. QED
    BY <1>3, <1>5, <2>1, <2>2, <2>3
<1>8. CASE SettleStep /\ ~Crash
  <2>1. /\ written' = written
        /\ \A f \in Names, d \in Day : Held(Now', f, d) = Held(Now, f, d)
    BY <1>1, <1>8 DEF SettleStep, SettlesCalm
  <2>2. ASSUME \A f \in Names, d \in Day : File(Now', f, d) = Held(Now', f, d)
        PROVE  \A w \in written : Lies(w)
    BY <1>3, <2>1, <2>2 DEF Lies
  <2>3. CASE Tick /\ ~alive
    <3>1. h'.file = "none" /\ Now'.h = h'
      BY <1>1, <2>3 DEF Tick, storeVars, PromptInv, ClockInv, Stopped, Now
    <3>2. \A f \in Names, d \in Day : ~OpenOn(Now', f, d)
      BY <3>1 DEF OpenOn, Names
    <3>3. \A w \in written : Lies(w)
      BY <1>2, <2>2, <3>2, HeldTyped
    <3>4. QED
      BY <1>3, <1>5, <2>1, <3>3
  <2>4. CASE MinuteFlush
    <3> DEFINE x == Flush(Now, Today)
    <3>1. Becomes(x)
      BY <2>4 DEF MinuteFlush
    <3>2. x \in GoodStore /\ \A f \in Names, d \in Day : File(x, f, d) = Held(x, f, d)
      BY <1>1, <1>2, FlushLands
    <3> HIDE DEF x
    <3>3. \A f, d : File(Now', f, d) = File(x, f, d) /\ Held(Now', f, d) = Held(x, f, d)
      BY <1>1, <3>1, <3>2, NowIs
    <3>4. \A w \in written : Lies(w)
      BY <2>2, <3>2, <3>3
    <3>5. QED
      BY <1>3, <1>5, <2>1, <3>4
  <2>5. CASE Since' = Since
    BY <1>3, <1>4, <1>5, <2>1, <2>5
  <2>6. QED
    BY <1>1, <1>8, <2>3, <2>4, <2>5, StepSince
<1>9. ASSUME RenameStep \/ \E d \in Day : WriteStep(d)
      PROVE  Since' = Since
  <2>1. UNCHANGED <<now, minute>> \/ MinuteWrite
    <3>1. (\E d \in Day : WriteStep(d)) => next' # next
      BY <1>1 DEF WriteStep
    <3>2. RenameStep => UNCHANGED <<now, minute>>
      BY DEF RenameStep, UpRename
    <3>3. QED
      BY <1>9, <3>1, <3>2, WritersAre
  <2>2. QED
    BY <2>1 DEF MinuteWrite, Since
<1>10. CASE RenameStep
  <2>1. Renames(Now, Now', up.day) /\ written' = written /\ up.pc = "rename"
    BY <1>10 DEF RenameStep, UpRename
  <2>2. up.day \in Day /\ up.day \in disk.jsonAt /\ up.day \notin disk.sentAt /\ h.file # "sent"
    BY <1>1, <2>1 DEF PromptInv, FilesInv, IInv, DayInv
  <2>3. Held(Now', "sent", up.day) = Held(Now, "json", up.day)
    BY <1>2, <2>1, <2>2 DEF Renames, OpenOn
  <2>4. Held(Now, "sent", up.day) = << >>
    BY <1>1, <1>2, <2>2, NotThereIsEmpty
  <2>5. ASSUME NEW w \in written
        PROVE  \E f \in Names : Paired(Held(Now', f, w.day), w.rec)
    <3>1. PICK f \in Names : Paired(Held(Now, f, w.day), w.rec)
      BY <1>3
    <3>2. CASE w.day # up.day
      <4>1. w.day \in Day \ {up.day}
        BY <1>3, <3>2
      <4>2. Held(Now', f, w.day) = Held(Now, f, w.day)
        BY <2>1, <4>1 DEF Renames
      <4>3. QED
        BY <3>1, <4>2
    <3>3. CASE w.day = up.day
      <4>1. f = "json"
        BY <2>4, <3>1, <3>3, EmptySeq, PairsStay DEF Names
      <4>2. "sent" \in Names
        BY DEF Names
      <4>3. QED
        BY <2>3, <3>1, <3>3, <4>1, <4>2
    <3>4. QED
      BY <3>2, <3>3
  <2>6. QED
    BY <1>3, <1>4, <1>5, <1>9, <1>10, <2>1, <2>5
<1>11. ASSUME NEW d \in Day, WriteStep(d)
       PROVE  KeptInv'
  <2> DEFINE line == Line(next)
             new  == [rec |-> next, day |-> d, at |-> now]
  <2>1. /\ Writes(Now, Now', d, line) /\ WritesCalm(Now, Now', d, line)
        /\ written' \in {written, written \cup {new}} /\ Since' = Since
    BY <1>1, <1>9, <1>11 DEF WriteStep
  <2>2. /\ \A s \in Seq(Half) : Paired(s \o line, next) /\ Extends(s, s \o line) /\ s \o line \in Seq(Half)
        /\ Line(Header) \in Seq(Half)
    <3>1. Header \in Nat
      BY DEF Header
    <3>2. line \in Seq(Half) /\ Line(Header) \in Seq(Half)
      BY <1>1, <3>1, LineIsSeq
    <3>3. QED
      BY <1>1, <3>2, PairsStay, ExtendsConcat
  <2> HIDE DEF line, new
  <2>3. \A f \in Names, e \in Day : Held(Now, f, e) \in Seq(Half) /\ Held(Now', f, e) \in Seq(Half)
    BY <1>2, HeldTyped
  <2>4. ASSUME NEW f \in Names, NEW e \in Day, NEW r, Paired(Held(Now, f, e), r)
        PROVE  Paired(Held(Now', f, e), r)
    <3>1. Held(Now, f, e) # << >>
      BY <2>4, EmptySeq, PairsStay
    <3>2. CASE OpenOn(Now', f, e)
      <4>1. Held(Now', f, e) = Held(Now, f, e) \o line
        BY <2>1, <3>1, <3>2 DEF WritesCalm
      <4>2. Extends(Held(Now, f, e), Held(Now', f, e))
        BY <2>2, <2>3, <4>1
      <4>3. QED
        BY <2>3, <2>4, <4>2, PairsStay
    <3>3. CASE ~OpenOn(Now', f, e)
      BY <2>1, <2>4, <3>3 DEF WritesCalm
    <3>4. QED
      BY <3>2, <3>3
  <2>5. \E f \in Names : Paired(Held(Now', f, d), next)
    <3>1. Now'.h.file # "none" /\ Now' \in GoodStore
      BY <2>1 DEF WritesCalm, Writes
    <3>2. PICK f \in Names : f = Now'.h.file
      BY <3>1 DEF GoodStore, StoreType, HandleType, Names
    <3>3. OpenOn(Now', f, d)
      BY <2>1, <3>1, <3>2 DEF Writes, OpenOn
    <3>4. Held(Now', f, d) \in {Line(Header) \o line, Held(Now, f, d) \o line}
      BY <2>1, <3>3 DEF WritesCalm
    <3>5. QED
      BY <2>2, <2>3, <3>4
  <2>6. ASSUME NEW w \in written'
        PROVE  /\ w.rec >= 1 /\ \E f \in Names : Paired(Held(Now', f, w.day), w.rec)
               /\ Lies(w) \/ w.at >= Since'
    <3>1. CASE w \in written
      BY <1>3, <1>4, <2>1, <2>4, <3>1
    <3>2. CASE w = new
      <4>1. w.rec = next /\ w.day = d /\ w.at = now
        BY <3>2 DEF new
      <4>2. now >= Since
        BY <1>1 DEF Since
      <4>3. QED
        BY <1>1, <2>1, <2>5, <4>1, <4>2
    <3>3. QED
      BY <2>1, <3>1, <3>2
  <2>7. QED
    BY <1>5, <2>6
<1>12. QED
  BY <1>1, <1>7, <1>8, <1>10, <1>11, StoreStep

(* On a prompt service whose disk takes every write it always holds. *)
LEMMA KeptInvariant ==
    ASSUME Prompt, MaxFulls = 0
    PROVE  Spec => []KeptInv
<1>1. Init => KeptInv
  <2>1. Init => written = {}
    BY DEF Init
  <2>2. QED
    BY <2>1, InitFiles, InitClock, InitDays, InitCalm DEF KeptInv, PromptInv, HeadInv
<1>2. KeptInv /\ [Next]_vars => KeptInv'
  BY StepKept
<1>3. QED
  BY <1>1, <1>2, PTL DEF Spec

(* Being there at all, it is there once. *)
LEMMA KeptIsRecordsKept ==
    ASSUME KeptInv
    PROVE  RecordsKept
<1> SUFFICES ASSUME NEW w \in written
             PROVE  Cardinality(HeadsAt(JsonOf(Now, w.day), w.rec))
                      + Cardinality(HeadsAt(SentOf(Now, w.day), w.rec)) = 1
  BY DEF RecordsKept
<1>1. "json" \in Names /\ "sent" \in Names /\ Now \in GoodStore /\ FilesInv
  BY NowIsGood DEF Names, KeptInv, PromptInv, FilesInv
<1>2. w.rec \in Nat /\ w.day \in Day /\ w.rec >= 1 /\ Kept(w)
  BY <1>1 DEF KeptInv, FilesInv, IInv, TypeOK, Entry
<1> DEFINE a == Held(Now, "sent", w.day)
           b == Held(Now, "json", w.day)
<1>3. a \in Seq(Half) /\ b \in Seq(Half) /\ a = SentOf(Now, w.day) /\ b = JsonOf(Now, w.day)
  BY <1>1, <1>2, HeldTyped, HeldIs
<1>4. Rising(a, next) /\ Rising(b, next) /\ Apart(a, b)
  BY <1>1, <1>2 DEF FilesInv, Tidy
<1>5. Paired(a, w.rec) \/ Paired(b, w.rec)
  BY <1>2 DEF Kept, Names
<1> HIDE DEF a, b
<1>6. /\ Cardinality(HeadsAt(a, w.rec)) \in {0, 1} /\ Cardinality(HeadsAt(b, w.rec)) \in {0, 1}
      /\ Cardinality(HeadsAt(a, w.rec)) = 1 <=> HeadsAt(a, w.rec) # {}
      /\ Cardinality(HeadsAt(b, w.rec)) = 1 <=> HeadsAt(b, w.rec) # {}
      /\ HeadsAt(a, w.rec) = {} \/ HeadsAt(b, w.rec) = {}
  BY <1>2, <1>3, <1>4, OnePlace
<1>7. HeadsAt(a, w.rec) # {} \/ HeadsAt(b, w.rec) # {}
  BY <1>3, <1>5, PairsStay DEF HeadsAt
<1>8. QED
  BY <1>3, <1>6, <1>7

(***************************************************************************)
(* RecordsKept: on a prompt service whose disk takes every write, every    *)
(* record the store accepted is in its day file, its sent file or the      *)
(* buffer, in one place only.                                              *)
(***************************************************************************)
THEOREM AllRecordsKept ==
    ASSUME Prompt, MaxFulls = 0
    PROVE  Spec => []RecordsKept
<1>1. KeptInv => RecordsKept
  BY KeptIsRecordsKept
<1>2. QED
  BY <1>1, KeptInvariant, PTL

(* A step that takes records is a crash, and those on disk stay. *)
LEMMA LossIsOfAMinute ==
    ASSUME KeptInv, [Next]_vars
    PROVE  \A w \in written \ written' : w.at >= (IF minute = "wait" THEN now ELSE now - 1)
<1>1. IInv
  BY DEF KeptInv, PromptInv, FilesInv
<1>2. written \subseteq written' \/ Crash
  BY <1>1, StoreStep DEF SettleStep, WriteStep, RenameStep
<1>3. Crash => written' = {w \in written : OnDisk(w)}
  BY DEF Crash
<1>4. QED
  BY <1>2, <1>3 DEF KeptInv, Since

(***************************************************************************)
(* LosesAtMostAMinute: a crash takes no record that was accepted before    *)
(* the minute that was last flushed, on a disk that takes every write.     *)
(***************************************************************************)
THEOREM LossIsAMinute ==
    ASSUME Prompt, MaxFulls = 0
    PROVE  Spec => LosesAtMostAMinute
<1>1. KeptInv /\ [Next]_vars =>
        [\A w \in written \ written' : w.at >= (IF minute = "wait" THEN now ELSE now - 1)]_vars
  BY LossIsOfAMinute
<1>2. QED
  BY <1>1, KeptInvariant, PTL DEF Spec, LosesAtMostAMinute

-----------------------------------------------------------------------------
(***************************************************************************)
(* The refinement.  The record to write is one of those modelled, since    *)
(* every running measurement has its record in reserve.                    *)
(***************************************************************************)
Running  == {m \in Measurer : Measuring(m)}
SpareInv == IsFiniteSet(Running) /\ next + Cardinality(Running) <= MaxRec + 1

LEMMA InitSpare == Init => SpareInv
<1> SUFFICES ASSUME Init PROVE SpareInv
  OBVIOUS
<1>1. next = 1 /\ Running = {}
  BY DEF Init, Running, Measuring
<1>2. QED
  BY <1>1, FS_EmptySet, MaxRecAssumption DEF SpareInv

LEMMA StepSpare ==
    ASSUME IInv, SpareInv, [Next]_vars
    PROVE  SpareInv'
<1>1. /\ measure \in [Measurer -> 0 .. MaxNow \cup {Idle}] /\ next \in Nat /\ now \in Nat /\ now # Idle
      /\ IsFiniteSet(Running) /\ Cardinality(Running) \in Nat
      /\ next + Cardinality(Running) <= MaxRec + 1 /\ MaxRec \in Nat
  BY ClockAssumption, MaxRecAssumption, FS_CardinalityType DEF IInv, TypeOK, SpareInv, Idle
<1>2. \A d : \A ok : WriteRecord(d, ok) => next' = next + 1
  BY DEF WriteRecord
<1>3. ASSUME NEW m \in Measurer, Begin(m)
      PROVE  SpareInv'
  <2>1. next' = next /\ measure' = [measure EXCEPT ![m] = now] /\ m \notin Running /\ Spare
    BY <1>3 DEF Begin, Running
  <2>2. Running' = Running \cup {m}
    BY <1>1, <2>1 DEF Running, Measuring
  <2>3. next + Cardinality(Running) <= MaxRec
    BY <2>1 DEF Spare, Running
  <2>4. IsFiniteSet(Running') /\ Cardinality(Running') = Cardinality(Running) + 1
    BY <1>1, <2>1, <2>2, FS_AddElement
  <2>5. QED
    BY <1>1, <2>1, <2>3, <2>4 DEF SpareInv
<1>4. ASSUME NEW m \in Measurer, Finish(m)
      PROVE  SpareInv'
  <2>1. next' = next + 1 /\ measure' = [measure EXCEPT ![m] = Idle] /\ m \in Running
    BY <1>2, <1>4 DEF Finish, Running
  <2>2. Running' = Running \ {m}
    BY <1>1, <2>1 DEF Running, Measuring
  <2>3. IsFiniteSet(Running') /\ Cardinality(Running') = Cardinality(Running) - 1
    BY <1>1, <2>1, <2>2, FS_RemoveElement
  <2>4. QED
    BY <1>1, <2>1, <2>3 DEF SpareInv
<1>5. CASE MinuteWrite
  <2>1. Running' = Running
    BY <1>5 DEF MinuteWrite, Running, Measuring
  <2>2. next' = next \/ (Spare /\ next' = next + 1)
    BY <1>2, <1>5 DEF MinuteWrite
  <2>3. Spare => next + Cardinality(Running) <= MaxRec
    BY DEF Spare, Running
  <2>4. QED
    BY <1>1, <2>1, <2>2, <2>3 DEF SpareInv
<1>6. CASE Crash \/ Stop
  <2>1. next' = next /\ Running' = {}
    BY <1>6 DEF Crash, Stop, Down, Running, Measuring
  <2>2. IsFiniteSet(Running') /\ Cardinality(Running') = 0
    BY <2>1, FS_EmptySet
  <2>3. QED
    BY <1>1, <2>1, <2>2 DEF SpareInv
<1>7. CASE UNCHANGED <<next, measure>>
  BY <1>7 DEF SpareInv, Running, Measuring
<1>8. QED
  BY <1>3, <1>4, <1>5, <1>6, <1>7
     DEF Next, MinuteLoop, UploadLoop, Tick, DiskFills, DiskFrees, MinuteFlush, UpList, UpRead,
         UpPost, UpFail, UpRename, Start, vars, sysVars

(* A record that is written is one of those modelled. *)
LEMMA NextIsSpare ==
    ASSUME IInv, SpareInv, [Next]_vars, next' # next
    PROVE  next <= MaxRec
<1>1. next \in Nat /\ MaxRec \in Nat /\ IsFiniteSet(Running) /\ Cardinality(Running) \in Nat
      /\ next + Cardinality(Running) <= MaxRec + 1
  BY MaxRecAssumption, FS_CardinalityType DEF IInv, TypeOK, SpareInv
<1>2. Spare \/ Running # {}
  BY DEF Running, Next, MinuteLoop, UploadLoop, Tick, DiskFills, DiskFrees, Begin, Finish, MinuteWrite,
         MinuteFlush, UpList, UpRead, UpPost, UpFail, UpRename, Crash, Stop, Down, Start, vars, sysVars
<1>3. Spare => next + Cardinality(Running) <= MaxRec
  BY DEF Spare, Running
<1>4. Running # {} => Cardinality(Running) # 0
  BY <1>1, FS_EmptySet
<1>5. QED
  BY <1>1, <1>2, <1>3, <1>4

(***************************************************************************)
(* What the log of day d is read off: all that is held for it, and what of *)
(* that is on disk.                                                        *)
(***************************************************************************)
Whole(x, d)  == Held(x, "sent", d) \o Held(x, "json", d)
Ground(x, d) == File(x, "sent", d) \o File(x, "json", d)

(* The day logs. *)
LEMMA LogIs == /\ \A d : LogOf(d) = RecordsIn(Whole(Now, d)) /\ DurableOf(d) = Len(RecordsIn(Ground(Now, d)))
               /\ \A d : LogOf(d)' = RecordsIn(Whole(Now', d))
               /\ \A d : DurableOf(d)' = Len(RecordsIn(Ground(Now', d)))
  BY HeldIs DEF LogOf, DurableOf, Whole, Ground, JsonOf, SentOf, Held, File, Now

(***************************************************************************)
(* What holds of a store between two steps: a day has a sent file or a day *)
(* file, never both, and no sent file is open.                             *)
(***************************************************************************)
Filed(x) ==
    /\ x \in GoodStore
    /\ \A d \in x.disk.sentAt : Held(x, "json", d) = << >> /\ File(x, "json", d) = << >>
                                /\ Held(x, "sent", d) = File(x, "sent", d)
    /\ \A d \in Day \ x.disk.sentAt : Held(x, "sent", d) = << >> /\ File(x, "sent", d) = << >>

LEMMA PromptIsFiled == PromptInv => Filed(Now)
<1> SUFFICES ASSUME PromptInv PROVE Filed(Now)
  OBVIOUS
<1>1. /\ IInv /\ Now \in GoodStore /\ Now.disk = disk /\ Now.h = h /\ Named(Now)
      /\ disk.sentAt \subseteq Day
  BY NowIsGood DEF PromptInv, FilesInv, IInv, TypeOK, StoreTypeOK, DiskType
<1>2. h.file # "sent" /\ disk.sentAt \cap disk.jsonAt = {}
  BY DEF PromptInv, DayInv
<1>3. ASSUME NEW d \in disk.sentAt
      PROVE  Held(Now, "json", d) = << >> /\ File(Now, "json", d) = << >>
             /\ Held(Now, "sent", d) = File(Now, "sent", d)
  <2>1. d \in Day \ disk.jsonAt /\ ~OpenOn(Now, "sent", d) /\ "sent" \in Names
    BY <1>1, <1>2, <1>3 DEF OpenOn, Names
  <2>2. QED
    BY <1>1, <2>1, NotThereIsEmpty, HeldTyped DEF Named
<1>4. \A d \in Day \ disk.sentAt : Held(Now, "sent", d) = << >> /\ File(Now, "sent", d) = << >>
  BY <1>1, NotThereIsEmpty DEF Named
<1>5. QED
  BY <1>1, <1>3, <1>4 DEF Filed

(* So the log of a day is the one file it has. *)
LEMMA OneFile ==
    ASSUME NEW x, Filed(x), NEW d \in Day
    PROVE  /\ d \in x.disk.sentAt => /\ Whole(x, d) = Held(x, "sent", d)
                                     /\ Ground(x, d) = File(x, "sent", d) /\ Whole(x, d) = Ground(x, d)
           /\ d \notin x.disk.sentAt => /\ Whole(x, d) = Held(x, "json", d)
                                        /\ Ground(x, d) = File(x, "json", d)
           /\ Whole(x, d) \in Seq(Half) /\ Ground(x, d) \in Seq(Half)
           /\ Extends(Ground(x, d), Whole(x, d))
<1>1. /\ "sent" \in Names /\ "json" \in Names /\ x \in GoodStore
      /\ \A s \in Seq(Half) : s \o << >> = s /\ << >> \o s = s
  BY ConcatEmptySeq DEF Names, Filed
<1>2. \A f \in Names : /\ File(x, f, d) \in Seq(Half) /\ Held(x, f, d) \in Seq(Half)
                       /\ Extends(File(x, f, d), Held(x, f, d))
  BY <1>1, HeldTyped
<1>3. CASE d \in x.disk.sentAt
  <2>1. Held(x, "json", d) = << >> /\ File(x, "json", d) = << >> /\ Held(x, "sent", d) = File(x, "sent", d)
    BY <1>3 DEF Filed
  <2>2. QED
    BY <1>1, <1>2, <1>3, <2>1 DEF Whole, Ground
<1>4. CASE d \notin x.disk.sentAt
  <2>1. Held(x, "sent", d) = << >> /\ File(x, "sent", d) = << >>
    BY <1>4 DEF Filed
  <2>2. QED
    BY <1>1, <1>2, <1>4, <2>1 DEF Whole, Ground
<1>5. QED
  BY <1>3, <1>4

(* No more is durable than is in the log, and it is the beginning of it. *)
LEMMA DurableIsLogged ==
    ASSUME NEW x, Filed(x), NEW d \in Day
    PROVE  /\ RecordsIn(Whole(x, d)) \in Seq(Nat) /\ Len(RecordsIn(Whole(x, d))) \in Nat
           /\ Len(RecordsIn(Ground(x, d))) \in Nat
           /\ Len(RecordsIn(Ground(x, d))) <= Len(RecordsIn(Whole(x, d)))
           /\ RecordsIn(Ground(x, d))
                = SubSeq(RecordsIn(Whole(x, d)), 1, Len(RecordsIn(Ground(x, d))))
  BY OneFile, RecordsAre, RecordsOfPart

(* What is durable stays so as long as the file under its name is the same. *)
LEMMA DurableStays ==
    ASSUME NEW x, Filed(x), NEW y, Filed(y), y.disk.sentAt = x.disk.sentAt, NEW d \in Day,
           \A f \in Names : Extends(File(x, f, d), File(y, f, d))
    PROVE  Len(RecordsIn(Ground(x, d))) <= Len(RecordsIn(Ground(y, d)))
<1>1. "sent" \in Names /\ "json" \in Names
  BY DEF Names
<1>2. Extends(Ground(x, d), Ground(y, d))
  BY <1>1, OneFile
<1>3. QED
  BY <1>2, OneFile, RecordsOfPart

(* The logs start empty. *)
LEMMA InitLog == Init => Log!Init
<1> SUFFICES ASSUME Init PROVE Log!Init
  OBVIOUS
<1>1. /\ FilesInv /\ Now \in GoodStore /\ Now.disk = disk /\ Named(Now) /\ disk.jsonAt = {} /\ disk.sentAt = {}
  BY InitFiles, NowIsGood DEF FilesInv, Init, StoreInit
<1>2. \A d \in Day : /\ Held(Now, "json", d) = << >> /\ Held(Now, "sent", d) = << >>
                     /\ File(Now, "json", d) = << >> /\ File(Now, "sent", d) = << >>
  BY <1>1, NotThereIsEmpty DEF Named
<1>3. << >> \o << >> = << >> /\ Len(<< >>) = 0
  BY EmptySeq, ConcatEmptySeq
<1>4. \A d \in Day : LogOf(d) = << >> /\ DurableOf(d) = 0
  BY <1>2, <1>3, LogIs, NoRecordsYet DEF Whole, Ground
<1>5. QED
  BY <1>1, <1>4 DEF Log!Init

(* Every step of the store is a step of the logs. *)
LogInv == PromptInv /\ SpareInv

LEMMA StepLog ==
    ASSUME Prompt, MaxFulls = 0, LogInv, [Next]_vars
    PROVE  [Log!Next]_(Log!vars)
<1>1. /\ PromptInv /\ PromptInv' /\ IInv /\ FilesInv /\ DayInv /\ Calm(Now) /\ SpareInv
      /\ next \in Nat /\ next >= 1
  BY StepPrompt DEF LogInv, PromptInv, HeadInv, FilesInv, IInv, TypeOK
<1>2. /\ Filed(Now) /\ Filed(Now') /\ Now.disk = disk /\ Now.h = h /\ Now'.disk = disk' /\ Now'.h = h'
  <2>1. Filed(Now) /\ Filed(Now)'
    BY <1>1, PromptIsFiled, PTL
  <2>2. QED
    BY <2>1 DEF Filed, Now, GoodStore, StoreType, DiskType, HandleType, GoodHandle, Held, File, Pending, Names
<1> DEFINE L(d)  == RecordsIn(Whole(Now, d))
           M(d)  == RecordsIn(Whole(Now', d))
           D(d)  == Len(RecordsIn(Ground(Now, d)))
           E(d)  == Len(RecordsIn(Ground(Now', d)))
<1>3. \A d : LogOf(d) = L(d) /\ DurableOf(d) = D(d) /\ LogOf(d)' = M(d) /\ DurableOf(d)' = E(d)
  BY LogIs
<1>4. \A d \in Day : /\ L(d) \in Seq(Nat) /\ M(d) \in Seq(Nat) /\ D(d) \in Nat /\ E(d) \in Nat
                     /\ Len(M(d)) \in Nat /\ D(d) <= Len(L(d)) /\ E(d) <= Len(M(d))
                     /\ RecordsIn(Ground(Now, d)) = SubSeq(L(d), 1, D(d))
  BY <1>2, DurableIsLogged
<1>5. ASSUME disk'.sentAt = disk.sentAt,
             \A f \in Names, d \in Day : Extends(File(Now, f, d), File(Now', f, d))
      PROVE  \A d \in Day : D(d) <= E(d)
  BY <1>2, <1>5, DurableStays
<1>6. \A d \in Day : (\A f \in Names : Held(Now', f, d) = Held(Now, f, d)) => M(d) = L(d)
  BY DEF Whole, Names
<1>7. \A d \in Day : (\A f \in Names : File(Now', f, d) = File(Now, f, d)) => E(d) = D(d)
  BY DEF Ground, Names
<1> HIDE DEF L, M, D, E
<1>8. ASSUME \A d \in Day : D(d) <= E(d)
      PROVE  Log!Settle
  <2>1. \A d \in Day : E(d) \in Nat /\ E(d) \in D(d) .. Len(M(d))
    BY <1>4, <1>8
  <2>2. QED
    BY <1>3, <2>1 DEF Log!Settle
<1>9. CASE SettleStep /\ SettlesCalm(Now, Now')
  <2>1. Settles(Now, Now') /\ disk'.sentAt = disk.sentAt
    BY <1>2, <1>9 DEF SettleStep, Settles
  <2>2. \A d \in Day : M(d) = L(d) /\ D(d) <= E(d)
    BY <1>5, <1>6, <1>9, <2>1 DEF Settles, SettlesCalm
  <2>3. Log!Sync
    BY <1>3, <1>8, <2>1, <2>2 DEF Log!Sync
  <2>4. QED
    BY <2>3 DEF Log!Next
<1>10. CASE Crash /\ h' = NoHandle /\ disk' = disk
  <2>1. \A f \in Names, d \in Day : /\ File(Now', f, d) = File(Now, f, d)
                                    /\ Held(Now', f, d) = File(Now', f, d)
    <3>1. \A f \in Names, d \in Day : File(Now', f, d) = File(Now, f, d)
      BY <1>2, <1>10 DEF File
    <3>2. \A f \in Names, d \in Day : ~OpenOn(Now', f, d)
      BY <1>2, <1>10 DEF OpenOn, NoHandle, Names
    <3>3. QED
      BY <1>2, <3>1, <3>2, HeldTyped DEF Filed
  <2>2. \A d \in Day : Whole(Now', d) = Ground(Now, d)
    BY <2>1 DEF Whole, Ground, Names
  <2>3. \A d \in Day : M(d) = SubSeq(L(d), 1, D(d)) /\ E(d) = D(d)
    <3>1. \A d \in Day : E(d) = D(d)
      BY <1>7, <2>1
    <3>2. \A d \in Day : M(d) = RecordsIn(Ground(Now, d))
      BY <2>2 DEF M
    <3>3. QED
      BY <1>4, <3>1, <3>2
  <2>4. Log!Crash
    BY <1>3, <1>10, <2>3 DEF Log!Crash
  <2>5. QED
    BY <2>4 DEF Log!Next
<1>11. CASE RenameStep
  <2> DEFINE e == up.day
  <2>1. /\ Renames(Now, Now', e) /\ up.pc = "rename"
        /\ e \in Day /\ e \in up.todo /\ e \in disk.jsonAt /\ e \notin disk.sentAt
    <3>1. Renames(Now, Now', e) /\ up.pc = "rename"
      BY <1>11 DEF RenameStep, UpRename
    <3>2. e \in Day /\ e \in up.todo /\ up.todo \subseteq disk.jsonAt
      BY <1>1, <3>1 DEF IInv, FilesInv
    <3>3. QED
      BY <1>1, <3>1, <3>2 DEF DayInv
  <2> HIDE DEF e
  <2>2. disk'.sentAt = disk.sentAt \cup {e} /\ "json" \in Names
    BY <1>2, <2>1 DEF Renames, Names
  <2>3. ~OpenOn(Now, "json", e)
    BY <1>1, <1>2, <2>1 DEF OpenOn, DayInv
  <2>4. Held(Now, "json", e) = File(Now, "json", e)
    BY <1>2, <2>1, <2>2, <2>3, HeldTyped DEF Filed
  <2>5. Whole(Now, e) = File(Now, "json", e) /\ Ground(Now, e) = File(Now, "json", e)
    BY <1>2, <2>1, <2>4, OneFile
  <2>6. File(Now', "sent", e) = File(Now, "json", e)
    BY <2>1 DEF Renames
  <2>7. Whole(Now', e) = File(Now, "json", e) /\ Ground(Now', e) = File(Now, "json", e)
    <3>1. e \in Now'.disk.sentAt
      BY <1>2, <2>2
    <3>2. QED
      BY <1>2, <2>1, <2>6, <3>1, OneFile
  <2>8. D(e) = Len(L(e)) /\ M(e) = L(e) /\ E(e) = D(e)
    BY <2>5, <2>7 DEF L, M, D, E
  <2>9. \A d \in Day \ {e} : M(d) = L(d) /\ E(d) = D(d)
    BY <1>6, <1>7, <2>1 DEF Renames
  <2>10. \A d \in Day : M(d) = L(d) /\ E(d) = D(d)
    BY <2>8, <2>9
  <2>11. Log!Send(e)
    BY <1>3, <2>1, <2>2, <2>8, <2>10 DEF Log!Send
  <2>12. QED
    BY <2>1, <2>11 DEF Log!Next
<1>12. ASSUME NEW e \in Day, WriteStep(e)
       PROVE  Log!Next
  <2>1. /\ next' = next + 1 /\ Writes(Now, Now', e, Line(next)) /\ WritesCalm(Now, Now', e, Line(next))
        /\ disk'.sentAt = disk.sentAt
    BY <1>1, <1>2, <1>12 DEF WriteStep, Writes
  <2>2. e \notin disk.sentAt
    BY <1>1, <1>12, NoneStamped DEF DayInv
  <2>3. next \in Rec
    BY <1>1, <2>1, NextIsSpare DEF Rec
  <2>4. OpenOn(Now', "json", e) /\ "json" \in Names /\ "sent" \in Names
    <3>1. h'.file # "none" /\ h'.day = e
      BY <1>2, <2>1 DEF Writes, WritesCalm
    <3>2. h'.file # "sent" /\ h'.file \in {"none", "json", "sent"}
      BY <1>1, <1>2 DEF PromptInv, DayInv, Filed, GoodStore, StoreType, HandleType
    <3>3. QED
      BY <1>2, <3>1, <3>2 DEF OpenOn, Names
  <2>5. \A f \in Names, d \in Day : OpenOn(Now', f, d) => f = "json" /\ d = e
    BY <1>2, <2>4 DEF OpenOn
  <2>6. \A d \in Day \ {e} : M(d) = L(d)
    BY <1>6, <2>1, <2>5 DEF WritesCalm
  <2>7. M(e) = Append(L(e), next)
    <3> DEFINE s == Held(Now, "json", e)
    <3>1. Whole(Now, e) = s /\ Whole(Now', e) = Held(Now', "json", e) /\ s \in Seq(Half)
      <4>1. e \notin Now.disk.sentAt /\ e \notin Now'.disk.sentAt
        BY <1>2, <2>1, <2>2
      <4>2. QED
        BY <1>2, <4>1, OneFile
    <3>2. CASE Held(Now', "json", e) = s \o Line(next)
      BY <1>1, <3>1, <3>2, RecordAdded DEF L, M
    <3>3. CASE s = << >> /\ Held(Now', "json", e) = Line(Header) \o Line(next)
      <4>1. Line(Header) \in Seq(Half) /\ Header \in Nat
        BY LineIsSeq DEF Header
      <4>2. RecordsIn(Line(Header) \o Line(next)) = Append(RecordsIn(Line(Header)), next)
        BY <1>1, <4>1, RecordAdded
      <4>3. QED
        BY <3>1, <3>3, <4>2, NoRecordsYet DEF L, M
    <3>4. QED
      BY <2>1, <2>4, <3>2, <3>3 DEF WritesCalm
  <2>8. \A d \in Day : D(d) <= E(d)
    BY <1>5, <2>1 DEF Writes
  <2>9. \A d \in Day : \A i \in 1 .. Len(L(d)) : L(d)[i] # next
    <3>1. SUFFICES ASSUME NEW d \in Day, NEW i \in 1 .. Len(L(d)), L(d)[i] = next PROVE FALSE
      OBVIOUS
    <3> DEFINE s == Whole(Now, d)
    <3>2. s \in Seq(Half) /\ Rising(s, next)
      <4>1. Rising(Held(Now, "json", d), next) /\ Rising(Held(Now, "sent", d), next)
        BY <1>1 DEF FilesInv, Tidy
      <4>2. QED
        BY <1>2, <4>1, OneFile
    <3> HIDE DEF s
    <3>3. PICK j \in 1 .. Len(s) : s[j] = 2 * next
      BY <3>1, <3>2, RecordsAre DEF L, s
    <3>4. s[j] < 2 * next
      BY <3>2 DEF Rising
    <3>5. QED
      BY <1>1, <3>3, <3>4
  <2>10. Log!Append1(e, next)
    <3>1. /\ [d \in Day |-> LogOf(d)]' = [[d \in Day |-> LogOf(d)] EXCEPT ![e] = Append(@, next)]
      BY <1>3, <2>6, <2>7
    <3>2. QED
      BY <1>3, <1>8, <2>1, <2>2, <2>8, <2>9, <3>1 DEF Log!Append1
  <2>11. QED
    BY <2>3, <2>10 DEF Log!Next
<1>13. QED
  BY <1>1, <1>9, <1>10, <1>11, <1>12, StoreStep DEF SettleStep

(***************************************************************************)
(* ImplementsDayLog: with prompt measurements and uploads and a disk that  *)
(* takes every write, the store with its buffer, handle, flushes, renames, *)
(* crashes and restarts is one log of records per day.                     *)
(***************************************************************************)
THEOREM IsADayLog ==
    ASSUME Prompt, MaxFulls = 0
    PROVE  Spec => ImplementsDayLog
<1>1. Init => LogInv /\ Log!Init
  BY InitFiles, InitClock, InitDays, InitCalm, InitSpare, InitLog DEF LogInv, PromptInv, HeadInv
<1>2. LogInv /\ [Next]_vars => LogInv'
  BY StepPrompt, StepSpare DEF LogInv, PromptInv, FilesInv
<1>3. LogInv /\ [Next]_vars => [Log!Next]_(Log!vars)
  BY StepLog
<1>4. QED
  BY <1>1, <1>2, <1>3, PTL DEF Spec, ImplementsDayLog, Log!Spec
==============================================================================
