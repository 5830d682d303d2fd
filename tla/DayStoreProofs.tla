--------------------------- MODULE DayStoreProofs ---------------------------
(***************************************************************************)
(* What each operation of the day store does to the store, for every       *)
(* buffer size: the result is a store, a handle is open on a real day, and *)
(* the day files on disk have only grown.                                  *)
(***************************************************************************)
EXTENDS DayStore, FiniteSetTheorems, SequenceTheorems, TLAPS

(* A store whose open file, if any, is the file of a day. *)
GoodHandle(handle) == handle.file # "none" => handle.day \in Day
GoodStore == {x \in StoreType : GoodHandle(x.h)}

(* Every day file of the first disk is the beginning of the second's. *)
Grown(a, b) == \A d \in Day : Extends(a.json[d], b.json[d])

(* An operation's promise. *)
Sound(x, y) == y \in GoodStore /\ Grown(x.disk, y.disk)

(* A sequence begins with itself. *)
LEMMA ExtendsReflexive ==
    ASSUME NEW a \in Seq(Half)
    PROVE  Extends(a, a)
  BY DEF Extends

(* What begins with what begins with a begins with a. *)
LEMMA ExtendsTransitive ==
    ASSUME NEW a \in Seq(Half), NEW b \in Seq(Half), NEW c \in Seq(Half),
           Extends(a, b), Extends(b, c)
    PROVE  Extends(a, c)
<1>1. Len(a) \in Nat /\ Len(b) \in Nat /\ Len(c) \in Nat
  BY LenProperties
<1>2. QED
  BY <1>1 DEF Extends

(* A concatenation begins with its first part. *)
LEMMA ExtendsConcat ==
    ASSUME NEW a \in Seq(Half), NEW b \in Seq(Half)
    PROVE  a \o b \in Seq(Half) /\ Extends(a, a \o b)
<1>1. Len(a) \in Nat /\ Len(b) \in Nat
  BY LenProperties
<1>2. QED
  BY <1>1, ConcatProperties DEF Extends

(* A part of a sequence is a sequence. *)
LEMMA PartOfSeq ==
    ASSUME NEW s \in Seq(Half), NEW i \in Int, NEW j \in Int, i >= 1, j <= Len(s)
    PROVE  SubSeq(s, i, j) \in Seq(Half)
<1>1. \A k \in i .. j : s[k] \in Half
  BY ElementOfSeq, LenProperties
<1>2. QED
  BY <1>1, SubSeqProperties

(* Growth composes. *)
LEMMA GrownTransitive ==
    ASSUME NEW a \in DiskType, NEW b \in DiskType, NEW c \in DiskType,
           Grown(a, b), Grown(b, c)
    PROVE  Grown(a, c)
<1>1. SUFFICES ASSUME NEW d \in Day
               PROVE  Extends(a.json[d], c.json[d])
  BY DEF Grown
<1>2. a.json[d] \in Seq(Half) /\ b.json[d] \in Seq(Half) /\ c.json[d] \in Seq(Half)
  BY DEF DiskType
<1>3. QED
  BY <1>2, ExtendsTransitive DEF Grown

(* Nothing happens. *)
LEMMA SoundReflexive ==
    ASSUME NEW x \in GoodStore
    PROVE  Sound(x, x)
<1>1. \A d \in Day : x.disk.json[d] \in Seq(Half)
  BY DEF GoodStore, StoreType, DiskType
<1>2. QED
  BY <1>1, ExtendsReflexive DEF Sound, Grown

(* Two sound steps in a row are sound. *)
LEMMA SoundTransitive ==
    ASSUME NEW x \in GoodStore, NEW y \in GoodStore, NEW z,
           Sound(x, y), Sound(y, z)
    PROVE  Sound(x, z)
<1>1. x.disk \in DiskType /\ y.disk \in DiskType /\ z.disk \in DiskType
  BY DEF Sound, GoodStore, StoreType
<1>2. QED
  BY <1>1, GrownTransitive DEF Sound

(* Only the result's ok or its handle changes: the files are as they were. *)
LEMMA SoundSameDisk ==
    ASSUME NEW x \in GoodStore, NEW handle \in HandleType, GoodHandle(handle), NEW ok \in BOOLEAN
    PROVE  /\ Sound(x, [x EXCEPT !.h = handle])
           /\ Sound(x, [x EXCEPT !.h = handle, !.ok = ok])
           /\ Sound(x, [x EXCEPT !.ok = ok])
<1>1. /\ [x EXCEPT !.h = handle] \in GoodStore
      /\ [x EXCEPT !.h = handle, !.ok = ok] \in GoodStore
      /\ [x EXCEPT !.ok = ok] \in GoodStore
  BY DEF GoodStore, StoreType, GoodHandle
<1>2. Grown(x.disk, x.disk)
  BY SoundReflexive DEF Sound
<1>3. QED
  BY <1>1, <1>2 DEF Sound, GoodStore, StoreType

-----------------------------------------------------------------------------
(* The operations.                                                         *)

(* What the file system appends makes a disk, and the day files grow. *)
LEMMA OsAppendSound ==
    ASSUME NEW x \in GoodStore, x.h.file # "none",
           NEW halves \in Seq(Half), NEW k \in 0 .. Len(halves), k <= x.disk.room
    PROVE  OsAppend(k, x, halves) \in DiskType /\ Grown(x.disk, OsAppend(k, x, halves))
<1> DEFINE part == SubSeq(halves, 1, k)
           left == IF x.disk.room = Plenty THEN Plenty ELSE x.disk.room - k
<1>1. part \in Seq(Half)
  BY PartOfSeq, LenProperties
<1>2. left \in Room
  BY BufCapAssumption DEF GoodStore, StoreType, DiskType, Room, Plenty
<1>3. x.h.day \in Day /\ x.disk \in DiskType
  BY DEF GoodStore, GoodHandle, StoreType
<1>4. \A d \in Day : /\ x.disk.json[d] \in Seq(Half)
                     /\ x.disk.sent[d] \in Seq(Half)
                     /\ x.disk.json[d] \o part \in Seq(Half)
                     /\ x.disk.sent[d] \o part \in Seq(Half)
                     /\ Extends(x.disk.json[d], x.disk.json[d])
                     /\ Extends(x.disk.json[d], x.disk.json[d] \o part)
  BY <1>1, <1>3, ExtendsReflexive, ExtendsConcat DEF DiskType
<1> HIDE DEF part, left
<1>5. CASE x.h.file = "json"
  <2>1. OsAppend(k, x, halves) = [x.disk EXCEPT !.json[x.h.day] = @ \o part, !.room = left]
    BY <1>5 DEF OsAppend, part, left
  <2>2. QED
    BY <1>2, <1>3, <1>4, <2>1 DEF DiskType, Grown
<1>6. CASE x.h.file # "json"
  <2>1. OsAppend(k, x, halves) = [x.disk EXCEPT !.sent[x.h.day] = @ \o part, !.room = left]
    BY <1>6 DEF OsAppend, part, left
  <2>2. QED
    BY <1>2, <1>3, <1>4, <2>1 DEF DiskType, Grown
<1>7. QED
  BY <1>5, <1>6

(* Flushing the buffer appends to the open file at most. *)
LEMMA BufFlushSound ==
    ASSUME NEW x \in GoodStore, x.h.file # "none"
    PROVE  Sound(x, BufFlush(x))
<1> DEFINE n == Len(x.h.buf)
           k == Taken(x, n)
<1>1. x.h.buf \in Seq(Half) /\ n \in Nat /\ x.disk.room \in Nat /\ x.h \in HandleType
  BY LenProperties, BufCapAssumption DEF GoodStore, StoreType, HandleType, DiskType, Room, Plenty
<1>2. k \in 0 .. n /\ k <= x.disk.room
  BY <1>1 DEF Taken
<1>3. CASE x.h.err
  BY <1>3, <1>1, SoundSameDisk DEF BufFlush, GoodStore
<1>4. CASE ~x.h.err
  <2>1. OsAppend(k, x, x.h.buf) \in DiskType /\ Grown(x.disk, OsAppend(k, x, x.h.buf))
    BY <1>1, <1>2, OsAppendSound
  <2>2. SubSeq(x.h.buf, k + 1, n) \in Seq(Half)
    BY <1>1, <1>2, PartOfSeq
  <2> DEFINE handle == [x.h EXCEPT !.buf = SubSeq(x.h.buf, k + 1, n), !.err = k < n]
  <2>3. (k < n) \in BOOLEAN /\ (k = n) \in BOOLEAN
    OBVIOUS
  <2>4. handle \in HandleType /\ GoodHandle(handle)
    BY <1>1, <2>2, <2>3 DEF HandleType, GoodHandle, GoodStore
  <2>5. BufFlush(x) = [disk |-> OsAppend(k, x, x.h.buf), h |-> handle, ok |-> k = n]
    BY <1>4 DEF BufFlush
  <2> HIDE DEF handle, k, n
  <2>6. QED
    BY <2>1, <2>3, <2>4, <2>5 DEF Sound, GoodStore, StoreType
<1>5. QED
  BY <1>3, <1>4 DEF GoodStore, StoreType, HandleType

(* So does writing a line into it. *)
LEMMA BufWriteSound ==
    ASSUME NEW x \in GoodStore, x.h.file # "none", NEW line \in Seq(Half)
    PROVE  Sound(x, BufWrite(x, line))
<1> DEFINE all   == x.h.buf \o line
           full  == [x EXCEPT !.h.buf = SubSeq(all, 1, BufCap)]
           after == BufFlush(full)
<1>1. x.h \in HandleType /\ x.h.buf \in Seq(Half)
  BY DEF GoodStore, StoreType, HandleType
<1>2. all \in Seq(Half) /\ Len(all) \in Nat
  BY <1>1, ConcatProperties, LenProperties
<1>3. CASE x.h.err
  BY <1>3, <1>1, SoundSameDisk DEF BufWrite, GoodStore
<1>4. CASE ~x.h.err /\ Len(all) <= BufCap
  <2>1. [x.h EXCEPT !.buf = all] \in HandleType /\ GoodHandle([x.h EXCEPT !.buf = all])
    BY <1>1, <1>2 DEF HandleType, GoodHandle, GoodStore
  <2>2. BufWrite(x, line) = [x EXCEPT !.h = [x.h EXCEPT !.buf = all]]
    BY <1>4 DEF BufWrite, GoodStore, StoreType
  <2>3. QED
    BY <2>1, <2>2, SoundSameDisk
<1>5. CASE ~x.h.err /\ Len(all) > BufCap
  <2>1. SubSeq(all, 1, BufCap) \in Seq(Half)
    BY <1>2, <1>5, PartOfSeq, BufCapAssumption
  <2> DEFINE handle == [x.h EXCEPT !.buf = SubSeq(all, 1, BufCap)]
  <2>2. handle \in HandleType /\ GoodHandle(handle) /\ handle.file # "none"
    BY <1>1, <2>1 DEF HandleType, GoodHandle, GoodStore
  <2>3. full = [x EXCEPT !.h = handle] /\ full.h = handle
    BY DEF GoodStore, StoreType
  <2> HIDE DEF handle
  <2>4. Sound(x, full) /\ full \in GoodStore /\ full.h.file # "none"
    BY <2>2, <2>3, SoundSameDisk DEF Sound
  <2> HIDE DEF full
  <2>5. Sound(full, after) /\ after \in GoodStore
    BY <2>4, BufFlushSound DEF Sound
  <2> HIDE DEF after
  <2>6. Sound(x, after)
    BY <2>4, <2>5, SoundTransitive
  <2>7. SubSeq(all, BufCap + 1, Len(all)) \in Seq(Half)
    BY <1>2, PartOfSeq, BufCapAssumption
  <2> DEFINE rest == [after.h EXCEPT !.buf = SubSeq(all, BufCap + 1, Len(all))]
  <2>8. rest \in HandleType /\ GoodHandle(rest)
    BY <2>5, <2>7 DEF GoodStore, StoreType, HandleType, GoodHandle
  <2>9. BufWrite(x, line) = IF after.ok THEN [after EXCEPT !.h = rest] ELSE after
    BY <1>2, <1>5, BufCapAssumption, <2>5 DEF BufWrite, full, after, GoodStore, StoreType
  <2> HIDE DEF rest
  <2>10. Sound(after, [after EXCEPT !.h = rest])
    BY <2>5, <2>8, SoundSameDisk
  <2>11. QED
    BY <2>5, <2>6, <2>9, <2>10, SoundTransitive
<1>6. QED
  BY <1>2, <1>3, <1>4, <1>5, BufCapAssumption DEF GoodStore, StoreType, HandleType

(* A handle that is not open is a good handle. *)
LEMMA NoHandleGood == NoHandle \in HandleType /\ GoodHandle(NoHandle)
<1>1. << >> \in Seq(Half)
  BY EmptySeq
<1>2. QED
  BY <1>1 DEF NoHandle, HandleType, GoodHandle

(* A line is a sequence of halves. *)
LEMMA LineIsSeq ==
    ASSUME NEW r \in Nat
    PROVE  Line(r) \in Seq(Half)
  BY DEF Line, Half

(* Closing the file flushes it at most, and drops the handle. *)
LEMMA CloseLockedSound ==
    ASSUME NEW x \in GoodStore
    PROVE  Sound(x, CloseLocked(x)) /\ CloseLocked(x).h.file = "none"
<1>1. CASE x.h.file = "none"
  BY <1>1, SoundReflexive DEF CloseLocked
<1>2. CASE x.h.file # "none"
  <2> DEFINE y == BufFlush(x)
  <2>1. Sound(x, y) /\ y \in GoodStore
    BY <1>2, BufFlushSound DEF Sound
  <2>2. CloseLocked(x) = [y EXCEPT !.h = NoHandle]
    BY <1>2 DEF CloseLocked
  <2> HIDE DEF y
  <2>3. Sound(y, [y EXCEPT !.h = NoHandle])
    BY <2>1, NoHandleGood, SoundSameDisk
  <2>4. [y EXCEPT !.h = NoHandle].h = NoHandle
    BY <2>1 DEF GoodStore, StoreType
  <2>5. QED
    BY <2>1, <2>2, <2>3, <2>4, SoundTransitive DEF NoHandle
<1>3. QED
  BY <1>1, <1>2

(* Opening the file of a day adds a header at most. *)
LEMMA OpenedFileSound ==
    ASSUME NEW x \in GoodStore, NEW d \in Day
    PROVE  Sound(x, OpenedFile(x, d)) /\ OpenedFile(x, d).h.file # "none"
<1> DEFINE handle == [NoHandle EXCEPT !.day = d, !.file = "json"]
           opened == [x EXCEPT !.disk.jsonAt = @ \cup {d}, !.h = handle]
<1>1. handle \in HandleType /\ GoodHandle(handle) /\ handle.file = "json"
  BY NoHandleGood DEF NoHandle, HandleType, GoodHandle
<1> HIDE DEF handle
<1>2. /\ opened.disk \in DiskType /\ opened.h = handle /\ opened.disk.json = x.disk.json
      /\ opened \in StoreType
  BY <1>1 DEF GoodStore, StoreType, DiskType
<1>3. opened \in GoodStore /\ opened.h.file = "json"
  BY <1>1, <1>2 DEF GoodStore
<1>4. Grown(x.disk, opened.disk)
  BY <1>2, SoundReflexive DEF Sound, Grown
<1>5. Sound(x, opened)
  BY <1>3, <1>4 DEF Sound
<1> HIDE DEF opened
<1>6. Sound(opened, BufWrite(opened, Line(Header)))
  BY <1>3, BufWriteSound, LineIsSeq DEF Header
<1>7. BufWrite(opened, Line(Header)).h.file = "json"
  <2>1. \A z : BufFlush(z).h.file = z.h.file \/ ~(z \in GoodStore)
    BY DEF BufFlush, GoodStore, StoreType, HandleType
  <2>2. [opened EXCEPT !.h.buf = SubSeq(opened.h.buf \o Line(Header), 1, BufCap)].h.file = "json"
    BY <1>3 DEF GoodStore, StoreType, HandleType
  <2>3. opened.h.buf = << >>
    BY <1>2 DEF opened, handle, NoHandle
  <2>4. Len(opened.h.buf \o Line(Header)) = 2
    BY <2>3 DEF Line
  <2>5. ~opened.h.err
    BY <1>2 DEF opened, handle, NoHandle
  <2>6. QED
    BY <1>3, <2>4, <2>5, BufCapAssumption DEF BufWrite, GoodStore, StoreType, HandleType
<1>8. OpenedFile(x, d) = IF x.disk.json[d] = << >> THEN BufWrite(opened, Line(Header)) ELSE opened
  BY DEF OpenedFile, opened, handle
<1>9. QED
  BY <1>3, <1>5, <1>6, <1>7, <1>8, SoundTransitive

(* store.open, store.write, store.flush and store.finished. *)
LEMMA OpenSound ==
    ASSUME NEW x \in GoodStore, NEW d \in Day, NEW osOK \in BOOLEAN
    PROVE  Sound(x, Open(x, d, osOK)) /\ (Open(x, d, osOK).ok => Open(x, d, osOK).h.file # "none")
<1> DEFINE closed == CloseLocked(x)
<1>1. Sound(x, closed) /\ closed \in GoodStore
  BY CloseLockedSound DEF Sound
<1>2. Sound(closed, [closed EXCEPT !.ok = FALSE])
  BY <1>1, SoundSameDisk, NoHandleGood
<1>3. Sound(closed, OpenedFile(closed, d)) /\ OpenedFile(closed, d).h.file # "none"
  BY <1>1, OpenedFileSound
<1>4. [closed EXCEPT !.ok = FALSE].ok = FALSE
  BY <1>1 DEF GoodStore, StoreType
<1> HIDE DEF closed
<1>5. Sound(x, [closed EXCEPT !.ok = FALSE]) /\ Sound(x, OpenedFile(closed, d))
  BY <1>1, <1>2, <1>3, SoundTransitive
<1>6. QED
  BY <1>1, <1>3, <1>4, <1>5, SoundReflexive DEF Open, closed

(* store.write adds to the day files at most, whatever day and whatever fails. *)
THEOREM WriteSound ==
    ASSUME NEW x \in GoodStore, NEW d \in Day, NEW r \in Nat, NEW osOK \in BOOLEAN
    PROVE  Sound(x, Write(x, d, r, osOK))
<1> DEFINE opened == Open(x, d, osOK)
<1>1. Sound(x, opened) /\ opened \in GoodStore /\ (opened.ok => opened.h.file # "none")
  BY OpenSound DEF Sound
<1> HIDE DEF opened
<1>2. opened.ok => Sound(opened, BufWrite(opened, Line(r)))
  BY <1>1, BufWriteSound, LineIsSeq
<1>3. opened.ok => Sound(x, BufWrite(opened, Line(r)))
  BY <1>1, <1>2, SoundTransitive
<1>4. QED
  BY <1>1, <1>3 DEF Write, opened

(* store.flush only grows the day files. *)
LEMMA FlushSound ==
    ASSUME NEW x \in GoodStore, NEW today
    PROVE  Sound(x, Flush(x, today))
  BY SoundReflexive, CloseLockedSound, BufFlushSound DEF Flush

(* Closing a past day before the upload only grows the day files. *)
LEMMA ClosePastSound ==
    ASSUME NEW x \in GoodStore, NEW today
    PROVE  Sound(x, ClosePast(x, today))
  BY SoundReflexive, CloseLockedSound DEF ClosePast

(* os.Rename: the day's file becomes the sent file, the others stay. *)
LEMMA RenamedSound ==
    ASSUME NEW x \in GoodStore, NEW d \in Day
    PROVE  /\ Renamed(x, d) \in GoodStore
           /\ Renamed(x, d).disk.json[d] = << >>
           /\ Renamed(x, d).disk.sent[d] = x.disk.json[d]
           /\ \A e \in Day \ {d} : Renamed(x, d).disk.json[e] = x.disk.json[e]
<1>1. << >> \in Seq(Half)
  BY EmptySeq
<1>2. x.disk.json[d] \in Seq(Half)
  BY DEF GoodStore, StoreType, DiskType
<1>3. Renamed(x, d).disk \in DiskType
  BY <1>1, <1>2 DEF Renamed, GoodStore, StoreType, DiskType
<1>4. Renamed(x, d).h \in HandleType /\ GoodHandle(Renamed(x, d).h)
  BY DEF Renamed, GoodStore, StoreType, HandleType, GoodHandle
<1>5. Renamed(x, d).ok = x.ok /\ Renamed(x, d) \in StoreType
  BY <1>3, <1>4 DEF Renamed, GoodStore, StoreType
<1>6. QED
  BY <1>1, <1>2, <1>3, <1>4, <1>5 DEF Renamed, GoodStore, StoreType, DiskType

------------------------------------------------------------------------------
-----------------------------------------------------------------------------
(* What the store holds: the files, and what is still buffered for them.   *)

(***************************************************************************)
(* The names a day file goes under, the file under a name, and what that   *)
(* file is to hold.                                                        *)
(***************************************************************************)
Names == {"json", "sent"}
File(x, f, d) == IF f = "json" THEN x.disk.json[d] ELSE x.disk.sent[d]
Held(x, f, d) == File(x, f, d) \o Pending(x, d, f)
OpenOn(x, f, d) == x.h.file = f /\ x.h.day = d

(* The disk takes every write. *)
Calm(x) == x.disk.room = Plenty /\ ~x.h.err /\ Len(x.h.buf) <= BufCap

(* The two names are the ones the properties of the files speak of. *)
LEMMA HeldIs == \A x, d : JsonOf(x, d) = Held(x, "json", d) /\ SentOf(x, d) = Held(x, "sent", d)
  BY DEF JsonOf, SentOf, Held, File

(***************************************************************************)
(* What a file holds is halves; without an open handle it is what is on    *)
(* disk.                                                                   *)
(***************************************************************************)
LEMMA HeldTyped ==
    ASSUME NEW x \in GoodStore, NEW f \in Names, NEW d \in Day
    PROVE  /\ File(x, f, d) \in Seq(Half) /\ Held(x, f, d) \in Seq(Half)
           /\ ~OpenOn(x, f, d) => Held(x, f, d) = File(x, f, d)
           /\ OpenOn(x, f, d) /\ x.h.err => Held(x, f, d) = File(x, f, d)
           /\ OpenOn(x, f, d) /\ ~x.h.err => Held(x, f, d) = File(x, f, d) \o x.h.buf
           /\ Extends(File(x, f, d), Held(x, f, d))
<1>1. File(x, f, d) \in Seq(Half) /\ x.h.buf \in Seq(Half) /\ << >> \in Seq(Half)
  BY EmptySeq DEF File, GoodStore, StoreType, DiskType, HandleType
<1>2. Pending(x, d, f) \in Seq(Half)
  BY <1>1 DEF Pending
<1>3. Held(x, f, d) \in Seq(Half) /\ Extends(File(x, f, d), Held(x, f, d))
  BY <1>1, <1>2, ExtendsConcat DEF Held
<1>4. File(x, f, d) \o << >> = File(x, f, d)
  BY <1>1, ConcatEmptySeq
<1>5. QED
  BY <1>1, <1>3, <1>4 DEF Held, Pending, OpenOn

(* Concatenation of halves is associative. *)
LEMMA Assoc == \A a, b, c \in Seq(Half) : (a \o b) \o c = a \o (b \o c)
<1> SUFFICES ASSUME NEW a \in Seq(Half), NEW b \in Seq(Half), NEW c \in Seq(Half)
             PROVE  (a \o b) \o c = a \o (b \o c)
  OBVIOUS
<1> QED
  BY ConcatAssociative

(* A sequence is its first k halves and the rest. *)
LEMMA PartAndRest ==
    ASSUME NEW s \in Seq(Half), NEW k \in 0 .. Len(s)
    PROVE  /\ SubSeq(s, 1, k) \in Seq(Half) /\ SubSeq(s, k + 1, Len(s)) \in Seq(Half)
           /\ Len(SubSeq(s, 1, k)) = k /\ Extends(SubSeq(s, 1, k), s)
           /\ Len(SubSeq(s, k + 1, Len(s))) = Len(s) - k
           /\ SubSeq(s, 1, k) \o SubSeq(s, k + 1, Len(s)) = s
           /\ k = Len(s) => SubSeq(s, 1, k) = s /\ SubSeq(s, k + 1, Len(s)) = << >>
<1>1. Len(s) \in Nat /\ \A i \in 1 .. Len(s) : s[i] \in Half
  BY LenProperties, ElementOfSeq
<1> DEFINE a == SubSeq(s, 1, k)
           b == SubSeq(s, k + 1, Len(s))
<1>2. a \in Seq(Half) /\ Len(a) = k /\ \A i \in 1 .. k : a[i] = s[i]
  BY <1>1, SubSeqProperties
<1>3. b \in Seq(Half) /\ Len(b) = Len(s) - k /\ \A i \in 1 .. (Len(s) - k) : b[i] = s[k + i]
  BY <1>1, SubSeqProperties
<1> HIDE DEF a, b
<1>4. /\ a \o b \in Seq(Half) /\ Len(a \o b) = Len(s)
      /\ \A i \in 1 .. Len(s) : (a \o b)[i] = s[i]
  <2>1. a \o b \in Seq(Half) /\ Len(a \o b) = k + (Len(s) - k)
        /\ \A i \in 1 .. (k + (Len(s) - k)) : (a \o b)[i] = IF i <= k THEN a[i] ELSE b[i - k]
    BY <1>2, <1>3, ConcatProperties
  <2>2. k + (Len(s) - k) = Len(s)
    BY <1>1
  <2>3. ASSUME NEW i \in 1 .. Len(s) PROVE (a \o b)[i] = s[i]
    <3>1. CASE i <= k
      BY <1>2, <2>1, <2>2, <3>1
    <3>2. CASE i > k
      <4>1. i - k \in 1 .. (Len(s) - k) /\ k + (i - k) = i
        BY <1>1, <3>2
      <4>2. (a \o b)[i] = b[i - k]
        BY <2>1, <2>2, <3>2
      <4>3. b[i - k] = s[k + (i - k)]
        BY <1>3, <4>1
      <4>4. QED
        BY <4>1, <4>2, <4>3
    <3>3. i <= k \/ i > k
      BY <1>1
    <3>4. QED
      BY <3>1, <3>2, <3>3
  <2>4. QED
    BY <2>1, <2>2, <2>3
<1>5. a \o b = s
  BY <1>4, SeqEqual
<1>6. Extends(a, s)
  BY <1>1, <1>2 DEF Extends
<1>7. ASSUME k = Len(s) PROVE a = s /\ b = << >>
  <2>1. a = s
    BY <1>2, <1>7, SeqEqual
  <2>2. b = << >>
    BY <1>1, <1>3, <1>7, EmptySeq
  <2>3. QED
    BY <2>1, <2>2
<1>8. QED
  BY <1>2, <1>3, <1>5, <1>6, <1>7 DEF a, b

(* bufio.Writer.Flush, of a healthy buffer. *)
Flushes(x, y, k) ==
    /\ k \in 0 .. Len(x.h.buf) /\ k <= x.disk.room
    /\ y.h = [x.h EXCEPT !.buf = SubSeq(x.h.buf, k + 1, Len(x.h.buf)),
                         !.err = k < Len(x.h.buf)]
    /\ y.ok = (k = Len(x.h.buf))
    /\ y.disk.jsonAt = x.disk.jsonAt /\ y.disk.sentAt = x.disk.sentAt
    /\ y.disk.room = IF x.disk.room = Plenty THEN Plenty ELSE x.disk.room - k
    /\ \A f \in Names, d \in Day :
         File(y, f, d) = IF OpenOn(x, f, d) THEN File(x, f, d) \o SubSeq(x.h.buf, 1, k)
                         ELSE File(x, f, d)

(***************************************************************************)
(* bufio.Writer.Flush: what the disk takes moves from the buffer to the    *)
(* open file.                                                              *)
(***************************************************************************)
LEMMA BufFlushIs ==
    ASSUME NEW x \in GoodStore, x.h.file # "none", ~x.h.err
    PROVE  Flushes(x, BufFlush(x), Taken(x, Len(x.h.buf)))
<1> DEFINE k == Taken(x, Len(x.h.buf))
           y == BufFlush(x)
<1> SUFFICES Flushes(x, y, k)
  OBVIOUS
<1>1. x.h.buf \in Seq(Half) /\ Len(x.h.buf) \in Nat /\ x.disk.room \in Nat /\ x.h.day \in Day
      /\ x.h \in HandleType /\ x.disk \in DiskType
  BY LenProperties, BufCapAssumption
     DEF GoodStore, GoodHandle, StoreType, HandleType, DiskType, Room, Plenty
<1>2. k \in 0 .. Len(x.h.buf) /\ k <= x.disk.room
  BY <1>1 DEF Taken
<1> HIDE DEF k
<1>3. y = [disk |-> OsAppend(k, x, x.h.buf),
           h    |-> [x.h EXCEPT !.buf = SubSeq(x.h.buf, k + 1, Len(x.h.buf)),
                                !.err = k < Len(x.h.buf)],
           ok   |-> k = Len(x.h.buf)]
  BY DEF BufFlush, k
<1> HIDE DEF y
<1> DEFINE part == SubSeq(x.h.buf, 1, k)
           left == IF x.disk.room = Plenty THEN Plenty ELSE x.disk.room - k
           z == OsAppend(k, x, x.h.buf)
<1>4. CASE x.h.file = "json"
  <2>1. z = [x.disk EXCEPT !.json[x.h.day] = @ \o part, !.room = left]
    BY <1>4 DEF OsAppend
  <2> HIDE DEF part, left, z
  <2>2. z.jsonAt = x.disk.jsonAt /\ z.sentAt = x.disk.sentAt /\ z.room = left
        /\ z.sent = x.disk.sent
        /\ \A d \in Day : z.json[d] = IF d = x.h.day THEN x.disk.json[d] \o part ELSE x.disk.json[d]
    BY <1>1, <2>1 DEF DiskType
  <2>3. \A f \in Names, d \in Day :
          File(y, f, d) = IF OpenOn(x, f, d) THEN File(x, f, d) \o part ELSE File(x, f, d)
    BY <1>3, <1>4, <2>2 DEF File, OpenOn, Names, z
  <2>4. QED
    <3>1. y.disk = z /\ y.ok = (k = Len(x.h.buf))
          /\ y.h = [x.h EXCEPT !.buf = SubSeq(x.h.buf, k + 1, Len(x.h.buf)),
                               !.err = k < Len(x.h.buf)]
      BY <1>3 DEF z
    <3>2. y.disk.jsonAt = x.disk.jsonAt /\ y.disk.sentAt = x.disk.sentAt /\ y.disk.room = left
      BY <2>2, <3>1
    <3>3. QED
      BY <1>2, <2>3, <3>1, <3>2 DEF part, left, Flushes
<1>5. CASE x.h.file = "sent"
  <2>1. z = [x.disk EXCEPT !.sent[x.h.day] = @ \o part, !.room = left]
    BY <1>5 DEF OsAppend
  <2> HIDE DEF part, left, z
  <2>2. z.jsonAt = x.disk.jsonAt /\ z.sentAt = x.disk.sentAt /\ z.room = left
        /\ z.json = x.disk.json
        /\ \A d \in Day : z.sent[d] = IF d = x.h.day THEN x.disk.sent[d] \o part ELSE x.disk.sent[d]
    BY <1>1, <2>1 DEF DiskType
  <2>3. \A f \in Names, d \in Day :
          File(y, f, d) = IF OpenOn(x, f, d) THEN File(x, f, d) \o part ELSE File(x, f, d)
    BY <1>3, <1>5, <2>2 DEF File, OpenOn, Names, z
  <2>4. QED
    <3>1. y.disk = z /\ y.ok = (k = Len(x.h.buf))
          /\ y.h = [x.h EXCEPT !.buf = SubSeq(x.h.buf, k + 1, Len(x.h.buf)),
                               !.err = k < Len(x.h.buf)]
      BY <1>3 DEF z
    <3>2. y.disk.jsonAt = x.disk.jsonAt /\ y.disk.sentAt = x.disk.sentAt /\ y.disk.room = left
      BY <2>2, <3>1
    <3>3. QED
      BY <1>2, <2>3, <3>1, <3>2 DEF part, left, Flushes
<1>6. x.h.file = "json" \/ x.h.file = "sent"
  <2>1. x.h.file \in {"none", "json", "sent"}
    BY <1>1 DEF HandleType
  <2>2. QED
    BY <2>1
<1>7. QED
  BY <1>4, <1>5, <1>6

(* It loses nothing that the disk takes, and invents nothing. *)
Flushed(x, y) ==
    /\ y \in GoodStore /\ y.h.file = x.h.file /\ y.h.day = x.h.day
    /\ y.disk.jsonAt = x.disk.jsonAt /\ y.disk.sentAt = x.disk.sentAt
    /\ \A f \in Names, d \in Day :
         /\ ~OpenOn(x, f, d) => File(y, f, d) = File(x, f, d)
         /\ Extends(File(x, f, d), File(y, f, d))
         /\ Extends(Held(y, f, d), Held(x, f, d))
    /\ y.ok => /\ y.h.buf = << >> /\ ~y.h.err
               /\ \A f \in Names, d \in Day : Held(y, f, d) = Held(x, f, d)
    /\ y.ok \/ y.h.err
    /\ Calm(x) => Calm(y) /\ y.ok

(* The flush of a buffer cuts what is held short or leaves it as it is. *)
LEMMA BufFlushHeld ==
    ASSUME NEW x \in GoodStore, x.h.file # "none"
    PROVE  Flushed(x, BufFlush(x))
<1> DEFINE y == BufFlush(x)
<1> SUFFICES Flushed(x, y)
  OBVIOUS
<1> HIDE DEF y
<1>1. y \in GoodStore
  BY BufFlushSound DEF Sound, y
<1>2. x.h.buf \in Seq(Half) /\ Len(x.h.buf) \in Nat /\ x.h.day \in Day /\ x.h \in HandleType
      /\ x.h.file \in Names /\ x \in StoreType
  BY LenProperties DEF GoodStore, GoodHandle, StoreType, HandleType, Names
<1>3. CASE x.h.err
  <2>1. y = [x EXCEPT !.ok = FALSE]
    BY <1>3 DEF BufFlush, y
  <2>2. y.disk = x.disk /\ y.h = x.h /\ y.ok = FALSE
    BY <1>2, <2>1 DEF StoreType
  <2>3. \A f \in Names, d \in Day : File(y, f, d) = File(x, f, d) /\ Held(y, f, d) = Held(x, f, d)
    BY <2>2 DEF File, Held, Pending
  <2>4. QED
    BY <1>1, <1>3, <2>2, <2>3, HeldTyped, ExtendsReflexive DEF Calm, Flushed
<1>4. CASE ~x.h.err
  <2> DEFINE k == Taken(x, Len(x.h.buf))
             part == SubSeq(x.h.buf, 1, k)
             rest == SubSeq(x.h.buf, k + 1, Len(x.h.buf))
  <2>0. k = Taken(x, Len(x.h.buf))
    OBVIOUS
  <2> HIDE DEF k
  <2>1. /\ k \in 0 .. Len(x.h.buf) /\ k <= x.disk.room
        /\ y.h = [x.h EXCEPT !.buf = rest, !.err = k < Len(x.h.buf)]
        /\ y.ok = (k = Len(x.h.buf))
        /\ y.disk.jsonAt = x.disk.jsonAt /\ y.disk.sentAt = x.disk.sentAt
        /\ y.disk.room = IF x.disk.room = Plenty THEN Plenty ELSE x.disk.room - k
        /\ \A f \in Names, d \in Day :
             File(y, f, d) = IF OpenOn(x, f, d) THEN File(x, f, d) \o part ELSE File(x, f, d)
    <3>1. Flushes(x, y, k)
      BY <1>4, <2>0, BufFlushIs DEF y
    <3>2. QED
      BY <3>1 DEF Flushes
  <2>2. part \in Seq(Half) /\ rest \in Seq(Half) /\ Extends(part, x.h.buf)
        /\ (k = Len(x.h.buf) => part = x.h.buf /\ rest = << >>)
        /\ part \o rest = x.h.buf
    BY <1>2, <2>1, PartAndRest
  <2>3. k = Len(x.h.buf) <=> ~(k < Len(x.h.buf))
    BY <1>2, <2>1
  <2>a. Calm(x) => k = Len(x.h.buf)
    BY <1>2, <2>0, BufCapAssumption DEF Calm, Taken, Plenty
  <2> HIDE DEF part, rest
  <2>4. y.h.file = x.h.file /\ y.h.day = x.h.day /\ y.h.buf = rest /\ y.h.err = (k < Len(x.h.buf))
    BY <1>2, <2>1 DEF HandleType
  <2>5. ASSUME NEW f \in Names, NEW d \in Day
        PROVE  /\ ~OpenOn(x, f, d) => File(y, f, d) = File(x, f, d)
               /\ Extends(File(x, f, d), File(y, f, d))
               /\ Extends(Held(y, f, d), Held(x, f, d))
               /\ k = Len(x.h.buf) => Held(y, f, d) = Held(x, f, d)
    <3>1. File(x, f, d) \in Seq(Half) /\ File(y, f, d) \in Seq(Half)
          /\ Held(x, f, d) \in Seq(Half) /\ Held(y, f, d) \in Seq(Half)
      BY <1>1, HeldTyped
    <3>2. CASE ~OpenOn(x, f, d)
      <4>1. File(y, f, d) = File(x, f, d) /\ ~OpenOn(y, f, d)
        BY <2>1, <2>4, <3>2 DEF OpenOn
      <4>2. Held(x, f, d) = File(x, f, d) /\ Held(y, f, d) = File(y, f, d)
        BY <1>1, <3>2, <4>1, HeldTyped
      <4>3. QED
        BY <3>1, <4>1, <4>2, ExtendsReflexive
    <3>3. CASE OpenOn(x, f, d)
      <4>1. File(y, f, d) = File(x, f, d) \o part /\ OpenOn(y, f, d)
        BY <2>1, <2>4, <3>3 DEF OpenOn
      <4>2. Held(x, f, d) = File(x, f, d) \o x.h.buf
        BY <1>4, <3>3, HeldTyped
      <4>3. Held(y, f, d) = File(y, f, d)
        <5>1. CASE k = Len(x.h.buf)
          <6>1. y.h.buf = << >> /\ ~y.h.err
            BY <2>2, <2>3, <2>4, <5>1
          <6>2. Held(y, f, d) = File(y, f, d) \o << >>
            BY <1>1, <4>1, <6>1, HeldTyped
          <6>3. QED
            BY <3>1, <6>2, ConcatEmptySeq
        <5>2. CASE k # Len(x.h.buf)
          BY <1>1, <2>3, <2>4, <4>1, <5>2, HeldTyped
        <5>3. QED
          BY <5>1, <5>2
      <4>4. Extends(File(x, f, d), File(y, f, d))
        BY <2>2, <3>1, <4>1, ExtendsConcat
      <4>5. File(x, f, d) \o x.h.buf = File(y, f, d) \o rest
        <5>1. (File(x, f, d) \o part) \o rest = File(x, f, d) \o (part \o rest)
          <6>1. part \in Seq(Half) /\ rest \in Seq(Half) /\ File(x, f, d) \in Seq(Half)
            BY <2>2, <3>1
          <6>2. QED
            BY <6>1, Assoc, Zenon
        <5>2. QED
          BY <2>2, <4>1, <5>1, Zenon
      <4>6. Extends(File(y, f, d), File(y, f, d) \o rest)
        BY <2>2, <3>1, ExtendsConcat
      <4>7. k = Len(x.h.buf) => Held(y, f, d) = Held(x, f, d)
        BY <2>2, <4>1, <4>2, <4>3
      <4>8. QED
        BY <3>3, <4>2, <4>3, <4>4, <4>5, <4>6, <4>7
    <3>4. QED
      BY <3>2, <3>3
  <2>6. y.ok => y.h.buf = << >> /\ ~y.h.err
    BY <2>1, <2>2, <2>3, <2>4
  <2>7. y.ok \/ y.h.err
    BY <2>1, <2>3, <2>4
  <2>8. ASSUME Calm(x) PROVE Calm(y) /\ y.ok /\ y.h.buf = << >>
    <3>1. y.ok /\ y.h.buf = << >> /\ ~y.h.err /\ Len(y.h.buf) = 0
      BY <2>1, <2>2, <2>4, <2>6, <2>a, <2>8, EmptySeq
    <3>2. y.disk.room = Plenty
      BY <2>1, <2>8 DEF Calm
    <3>3. QED
      BY <3>1, <3>2, BufCapAssumption DEF Calm
  <2>9. QED
    BY <1>1, <2>1, <2>4, <2>5, <2>6, <2>7, <2>8, <2>a DEF Flushed
<1>5. QED
  BY <1>3, <1>4

(* bufio.Writer.Write: the line comes after what is held, or a part of it. *)
Wrote(x, y, line) ==
    /\ y \in GoodStore /\ y.h.file = x.h.file /\ y.h.day = x.h.day
    /\ y.disk.jsonAt = x.disk.jsonAt /\ y.disk.sentAt = x.disk.sentAt
    /\ \A f \in Names, d \in Day :
         /\ ~OpenOn(x, f, d) => File(y, f, d) = File(x, f, d)
         /\ OpenOn(x, f, d) => Extends(Held(y, f, d), Held(x, f, d) \o line)
         /\ Extends(File(x, f, d), File(y, f, d))
    /\ Calm(x) => /\ Calm(y) /\ (x.ok => y.ok)
                  /\ \A f \in Names, d \in Day :
                       /\ OpenOn(x, f, d) => Held(y, f, d) = Held(x, f, d) \o line
                       /\ File(y, f, d) = File(x, f, d) \/ Len(File(y, f, d)) >= 2

(***************************************************************************)
(* bufio.Writer.Write puts the line, or what the disk lets it keep of it,  *)
(* after what is held.                                                     *)
(***************************************************************************)
LEMMA BufWriteHeld ==
    ASSUME NEW x \in GoodStore, x.h.file # "none", NEW line \in Seq(Half), Len(line) = 2
    PROVE  Wrote(x, BufWrite(x, line), line)
<1> DEFINE y     == BufWrite(x, line)
           all   == x.h.buf \o line
           kept  == SubSeq(all, 1, BufCap)
           left  == SubSeq(all, BufCap + 1, Len(all))
           full  == [x EXCEPT !.h = [x.h EXCEPT !.buf = kept]]
           after == BufFlush(full)
<1> SUFFICES Wrote(x, y, line)
  OBVIOUS
<1>1. /\ x.h.buf \in Seq(Half) /\ Len(x.h.buf) \in Nat /\ x.h.day \in Day /\ x.h \in HandleType
      /\ x.h.file \in Names /\ x \in StoreType /\ x.disk \in DiskType
  BY LenProperties DEF GoodStore, GoodHandle, StoreType, HandleType, Names
<1>2. all \in Seq(Half) /\ Len(all) = Len(x.h.buf) + 2
  <2>1. x.h.buf \in Seq(Half) /\ line \in Seq(Half)
    BY <1>1
  <2>2. x.h.buf \o line \in Seq(Half) /\ Len(x.h.buf \o line) = Len(x.h.buf) + Len(line)
    BY <2>1, ConcatProperties
  <2>3. QED
    BY <2>2
<1>3. y \in GoodStore
  BY BufWriteSound DEF Sound
<1>4. y = IF x.h.err
          THEN [x EXCEPT !.ok = FALSE]
          ELSE IF Len(all) <= BufCap
          THEN [x EXCEPT !.h = [x.h EXCEPT !.buf = all]]
          ELSE IF after.ok
          THEN [after EXCEPT !.h = [after.h EXCEPT !.buf = left]]
          ELSE after
  BY DEF BufWrite
<1> HIDE DEF y, all
<1>5. ASSUME NEW f \in Names, NEW d \in Day
      PROVE  /\ File(x, f, d) \in Seq(Half) /\ Held(x, f, d) \in Seq(Half)
             /\ Held(y, f, d) \in Seq(Half)
             /\ Held(x, f, d) \o line \in Seq(Half)
             /\ Extends(Held(x, f, d), Held(x, f, d) \o line)
             /\ Extends(Held(x, f, d), Held(x, f, d))
             /\ Extends(File(x, f, d), File(x, f, d))
  BY <1>3, HeldTyped, ExtendsConcat, ExtendsReflexive
<1>6. CASE x.h.err
  <2>1. y = [x EXCEPT !.ok = FALSE]
    BY <1>4, <1>6
  <2>2. y.disk = x.disk /\ y.h = x.h
    BY <1>1, <2>1 DEF StoreType
  <2>3. \A f, d : File(y, f, d) = File(x, f, d) /\ Held(y, f, d) = Held(x, f, d)
    BY <2>2 DEF File, Held, Pending
  <2>4. QED
    BY <1>3, <1>5, <1>6, <2>2, <2>3 DEF Calm, Wrote
<1>7. CASE ~x.h.err /\ Len(all) <= BufCap
  <2>1. y = [x EXCEPT !.h = [x.h EXCEPT !.buf = all]]
    BY <1>4, <1>7
  <2>2. y.disk = x.disk /\ y.h = [x.h EXCEPT !.buf = all] /\ y.ok = x.ok
    BY <1>1, <2>1 DEF StoreType
  <2>3. y.h.file = x.h.file /\ y.h.day = x.h.day /\ y.h.buf = all /\ y.h.err = x.h.err
    BY <1>1, <2>2 DEF HandleType
  <2>4. \A f, d : File(y, f, d) = File(x, f, d)
    BY <2>2 DEF File
  <2>5. ASSUME NEW f \in Names, NEW d \in Day
        PROVE  OpenOn(x, f, d) => Held(y, f, d) = Held(x, f, d) \o line
    <3>1. SUFFICES ASSUME OpenOn(x, f, d) PROVE Held(y, f, d) = Held(x, f, d) \o line
      OBVIOUS
    <3>2. Held(x, f, d) = File(x, f, d) \o x.h.buf
      BY <1>7, <3>1, HeldTyped
    <3>3. OpenOn(y, f, d) /\ ~y.h.err
      BY <1>7, <2>3, <3>1 DEF OpenOn
    <3>4. Held(y, f, d) = File(y, f, d) \o y.h.buf
      BY <1>3, <3>3, HeldTyped
    <3>5. Held(y, f, d) = File(x, f, d) \o (x.h.buf \o line)
      BY <2>3, <2>4, <3>4 DEF all
    <3>6. File(x, f, d) \in Seq(Half) /\ x.h.buf \in Seq(Half) /\ line \in Seq(Half)
      BY <1>1, <1>5
    <3>7. (File(x, f, d) \o x.h.buf) \o line = File(x, f, d) \o (x.h.buf \o line)
      BY <3>6, Assoc, Zenon
    <3>8. QED
      BY <3>2, <3>5, <3>7, Zenon
  <2>6. ASSUME NEW f \in Names, NEW d \in Day, OpenOn(x, f, d)
        PROVE  Extends(Held(y, f, d), Held(x, f, d) \o line)
    BY <1>3, <2>5, <2>6, HeldTyped, ExtendsReflexive
  <2>7. Calm(x) => Calm(y)
    BY <1>7, <2>2, <2>3 DEF Calm
  <2>8. QED
    BY <1>3, <1>5, <2>2, <2>3, <2>4, <2>5, <2>6, <2>7 DEF Wrote
<1>8. CASE ~x.h.err /\ Len(all) > BufCap
  <2>1. kept \in Seq(Half) /\ Len(kept) = BufCap /\ left \in Seq(Half)
        /\ Len(left) = Len(all) - BufCap /\ kept \o left = all /\ Extends(kept, all)
    <3>1. BufCap \in 0 .. Len(all)
      BY <1>1, <1>2, <1>8, BufCapAssumption
    <3>2. QED
      BY <1>2, <3>1, PartAndRest
  <2> HIDE DEF kept, left
  <2>2. full.disk = x.disk /\ full.h = [x.h EXCEPT !.buf = kept] /\ full.ok = x.ok
    BY <1>1 DEF StoreType
  <2>3. full.h.file = x.h.file /\ full.h.day = x.h.day /\ full.h.buf = kept /\ full.h.err = x.h.err
    BY <1>1, <2>2 DEF HandleType
  <2>4. full \in GoodStore
    BY <1>1, <2>1 DEF GoodStore, GoodHandle, StoreType, HandleType
  <2> HIDE DEF full
  <2>5. Flushed(full, after)
    BY <2>3, <2>4, BufFlushHeld
  <2> HIDE DEF after
  <2>6. /\ y.disk = after.disk /\ y.h.file = x.h.file /\ y.h.day = x.h.day /\ y.h.err = after.h.err
        /\ after.ok => y.h.buf = left /\ ~y.h.err /\ y.ok
        /\ after.ok \/ y.h.err
    <3>1. after \in StoreType /\ after.h \in HandleType /\ after.h.file = x.h.file /\ after.h.day = x.h.day
      BY <2>3, <2>5 DEF Flushed, GoodStore, StoreType
    <3>2. CASE after.ok
      <4>1. y = [after EXCEPT !.h = [after.h EXCEPT !.buf = left]]
        BY <1>1, <1>2, <1>4, <1>8, <3>2, BufCapAssumption
      <4>2. y.disk = after.disk /\ y.h = [after.h EXCEPT !.buf = left] /\ y.ok = after.ok
        BY <3>1, <4>1 DEF StoreType
      <4>3. y.h.file = after.h.file /\ y.h.day = after.h.day /\ y.h.err = after.h.err /\ y.h.buf = left
        BY <3>1, <4>2 DEF HandleType
      <4>4. QED
        BY <2>5, <3>1, <3>2, <4>2, <4>3 DEF Flushed
    <3>3. CASE ~after.ok
      <4>1. y = after
        BY <1>1, <1>2, <1>4, <1>8, <3>3, BufCapAssumption
      <4>2. QED
        BY <2>5, <3>1, <3>3, <4>1 DEF Flushed
    <3>4. QED
      BY <3>2, <3>3
  <2>7. \A f, d : File(y, f, d) = File(after, f, d)
    BY <2>6 DEF File
  <2>8. \A f, d : File(full, f, d) = File(x, f, d) /\ (OpenOn(full, f, d) <=> OpenOn(x, f, d))
    BY <2>2, <2>3 DEF File, OpenOn
  <2>9. ASSUME NEW f \in Names, NEW d \in Day
        PROVE  /\ ~OpenOn(x, f, d) => File(y, f, d) = File(x, f, d)
               /\ Extends(File(x, f, d), File(y, f, d))
    BY <2>5, <2>7, <2>8 DEF Flushed
  <2>10. Calm(x) => Calm(full) /\ Calm(after) /\ after.ok
    <3>1. Calm(x) => Calm(full)
      BY <1>1, <2>1, <2>2, <2>3, BufCapAssumption DEF Calm
    <3>2. QED
      BY <2>5, <3>1 DEF Flushed
  <2>11. ASSUME NEW f \in Names, NEW d \in Day, OpenOn(x, f, d)
         PROVE  /\ Extends(Held(y, f, d), Held(x, f, d) \o line)
                /\ Calm(x) => Held(y, f, d) = Held(x, f, d) \o line
                /\ Calm(x) => Len(File(y, f, d)) >= 2
    <3>1. /\ File(x, f, d) \in Seq(Half) /\ x.h.buf \in Seq(Half) /\ line \in Seq(Half)
          /\ kept \in Seq(Half) /\ left \in Seq(Half)
      BY <1>1, <1>5, <2>1
    <3>2. Held(x, f, d) \o line = (File(x, f, d) \o kept) \o left
      <4>1. Held(x, f, d) = File(x, f, d) \o x.h.buf
        BY <1>8, <2>11, HeldTyped
      <4>2. (File(x, f, d) \o x.h.buf) \o line = File(x, f, d) \o all
        BY <3>1, Assoc, Zenon DEF all
      <4>3. (File(x, f, d) \o kept) \o left = File(x, f, d) \o (kept \o left)
        BY <3>1, Assoc, Zenon
      <4>4. QED
        BY <2>1, <4>1, <4>2, <4>3, Zenon
    <3>3. Held(full, f, d) = File(x, f, d) \o kept
      <4>1. OpenOn(full, f, d) /\ ~full.h.err
        BY <1>8, <2>3, <2>8, <2>11
      <4>2. QED
        BY <2>3, <2>4, <2>8, <4>1, HeldTyped
    <3>4. Extends(Held(after, f, d), Held(full, f, d)) /\ OpenOn(after, f, d) /\ OpenOn(y, f, d)
      BY <2>3, <2>5, <2>6, <2>11 DEF Flushed, OpenOn
    <3>5. File(x, f, d) \o kept \in Seq(Half)
          /\ Extends(File(x, f, d) \o kept, (File(x, f, d) \o kept) \o left)
          /\ (File(x, f, d) \o kept) \o left \in Seq(Half)
      BY <3>1, ExtendsConcat
    <3>6. CASE after.ok
      <4>1. after.h.buf = << >> /\ ~after.h.err /\ Held(after, f, d) = Held(full, f, d)
        BY <2>5, <3>6 DEF Flushed
      <4>2. after \in GoodStore
        BY <2>5 DEF Flushed
      <4>3. Held(after, f, d) = File(after, f, d) \o << >> /\ File(after, f, d) \in Seq(Half)
        BY <3>4, <4>1, <4>2, HeldTyped
      <4>4. File(after, f, d) = File(x, f, d) \o kept
        BY <3>3, <4>1, <4>3, ConcatEmptySeq
      <4>5. Held(y, f, d) = File(y, f, d) \o y.h.buf
        BY <1>3, <2>6, <3>4, <3>6, HeldTyped
      <4>6. Held(y, f, d) = Held(x, f, d) \o line
        BY <2>6, <2>7, <3>2, <3>6, <4>4, <4>5, Zenon
      <4>7. Len(File(y, f, d)) >= 2
        <5>1. Len(File(x, f, d) \o kept) = Len(File(x, f, d)) + BufCap /\ Len(File(x, f, d)) \in Nat
          <6>1. File(x, f, d) \in Seq(Half) /\ kept \in Seq(Half)
            BY <3>1
          <6>2. Len(File(x, f, d) \o kept) = Len(File(x, f, d)) + Len(kept)
                /\ Len(File(x, f, d)) \in Nat
            BY <6>1, ConcatProperties, LenProperties
          <6>3. QED
            BY <2>1, <6>2
        <5>2. Len(File(y, f, d)) = Len(File(x, f, d)) + BufCap
          BY <2>7, <4>4, <5>1
        <5>3. QED
          BY <5>1, <5>2, BufCapAssumption
      <4>8. QED
        BY <1>3, <4>6, <4>7, HeldTyped, ExtendsReflexive
    <3>7. CASE ~after.ok
      <4>1. after.h.err /\ y.h.err /\ after \in GoodStore
        BY <2>5, <2>6, <3>7 DEF Flushed
      <4>2. Held(y, f, d) = File(y, f, d) /\ Held(after, f, d) = File(after, f, d)
        BY <1>3, <3>4, <4>1, HeldTyped
      <4>3. Extends(Held(y, f, d), File(x, f, d) \o kept)
        BY <2>7, <3>3, <3>4, <4>2
      <4>4. Extends(Held(y, f, d), (File(x, f, d) \o kept) \o left)
        BY <1>5, <3>5, <4>3, ExtendsTransitive
      <4>5. QED
        BY <2>10, <3>2, <3>7, <4>4
    <3>8. QED
      BY <3>6, <3>7
  <2>12. Calm(x) => Calm(y) /\ y.ok
    <3>1. SUFFICES ASSUME Calm(x) PROVE Calm(y) /\ y.ok
      OBVIOUS
    <3>2. Calm(after) /\ after.ok
      BY <2>10, <3>1
    <3>3. y.h.buf = left /\ ~y.h.err /\ y.ok /\ y.disk.room = Plenty
      BY <2>6, <3>2 DEF Calm
    <3>4. Len(left) <= BufCap
      BY <1>1, <1>2, <2>1, <3>1, BufCapAssumption DEF Calm
    <3>5. QED
      BY <3>3, <3>4 DEF Calm
  <2>13. y.disk.jsonAt = x.disk.jsonAt /\ y.disk.sentAt = x.disk.sentAt
    BY <2>2, <2>5, <2>6 DEF Flushed
  <2>14. QED
    BY <1>3, <2>6, <2>9, <2>11, <2>12, <2>13 DEF Wrote
<1>9. QED
  BY <1>2, <1>6, <1>7, <1>8, BufCapAssumption, LenProperties

(* store.closeLocked: what the disk takes is on it, the rest is gone. *)
ClosedOff(x, y) ==
    /\ y \in GoodStore /\ y.h.file = "none"
    /\ y.disk.jsonAt = x.disk.jsonAt /\ y.disk.sentAt = x.disk.sentAt
    /\ \A f \in Names, d \in Day :
         /\ ~OpenOn(x, f, d) => File(y, f, d) = File(x, f, d)
         /\ Extends(File(x, f, d), File(y, f, d))
         /\ Held(y, f, d) = File(y, f, d)
         /\ Extends(Held(y, f, d), Held(x, f, d))
    /\ Calm(x) => /\ Calm(y) /\ (x.ok => y.ok)
                  /\ \A f \in Names, d \in Day : Held(y, f, d) = Held(x, f, d)

(* store.closeLocked does so. *)
LEMMA CloseLockedHeld ==
    ASSUME NEW x \in GoodStore
    PROVE  ClosedOff(x, CloseLocked(x))
<1> DEFINE y == CloseLocked(x)
           z == BufFlush(x)
<1> SUFFICES ClosedOff(x, y)
  OBVIOUS
<1>1. y \in GoodStore /\ y.h.file = "none"
  BY CloseLockedSound DEF Sound
<1>2. y = IF x.h.file = "none" THEN x ELSE [z EXCEPT !.h = NoHandle]
  BY DEF CloseLocked
<1> HIDE DEF y, z
<1>3. \A f \in Names, d \in Day : Held(y, f, d) = File(y, f, d)
  <2>1. \A f \in Names, d \in Day : ~OpenOn(y, f, d)
    BY <1>1 DEF OpenOn, Names
  <2>2. QED
    BY <1>1, <2>1, HeldTyped
<1>4. \A f \in Names, d \in Day : File(x, f, d) \in Seq(Half) /\ Held(x, f, d) \in Seq(Half)
  BY HeldTyped
<1>5. CASE x.h.file = "none"
  <2>1. y = x
    BY <1>2, <1>5
  <2>2. \A f \in Names, d \in Day : /\ Extends(File(x, f, d), File(x, f, d))
                                    /\ Extends(Held(x, f, d), Held(x, f, d))
    BY <1>4, ExtendsReflexive
  <2>3. QED
    BY <1>1, <1>3, <2>1, <2>2 DEF ClosedOff
<1>6. CASE x.h.file # "none"
  <2>1. Flushed(x, z)
    BY <1>6, BufFlushHeld DEF z
  <2>2. y.disk = z.disk /\ y.h = NoHandle /\ y.ok = z.ok
    BY <1>2, <1>6, <2>1 DEF Flushed, GoodStore, StoreType
  <2>3. \A f \in Names, d \in Day : File(y, f, d) = File(z, f, d)
    BY <2>2 DEF File
  <2>4. z \in GoodStore
    BY <2>1 DEF Flushed
  <2>5. ASSUME NEW f \in Names, NEW d \in Day
        PROVE  /\ Extends(Held(y, f, d), Held(x, f, d))
               /\ Calm(x) => Held(y, f, d) = Held(x, f, d)
    <3>1. /\ Held(y, f, d) \in Seq(Half) /\ Held(z, f, d) \in Seq(Half) /\ Held(x, f, d) \in Seq(Half)
          /\ File(z, f, d) \in Seq(Half) /\ Extends(File(z, f, d), Held(z, f, d))
      BY <1>1, <2>4, HeldTyped
    <3>2. Held(y, f, d) = File(z, f, d)
      BY <1>3, <2>3
    <3>3. Extends(Held(z, f, d), Held(x, f, d))
      BY <2>1 DEF Flushed
    <3>4. Extends(Held(y, f, d), Held(x, f, d))
      BY <3>1, <3>2, <3>3, ExtendsTransitive
    <3>5. ASSUME Calm(x) PROVE Held(y, f, d) = Held(x, f, d)
      <4>1. z.ok /\ z.h.buf = << >> /\ ~z.h.err /\ Held(z, f, d) = Held(x, f, d)
        BY <2>1, <3>5 DEF Flushed
      <4>2. Held(z, f, d) = File(z, f, d)
        <5>1. CASE OpenOn(z, f, d)
          <6>1. Held(z, f, d) = File(z, f, d) \o << >>
            BY <2>4, <4>1, <5>1, HeldTyped
          <6>2. QED
            BY <3>1, <6>1, ConcatEmptySeq
        <5>2. CASE ~OpenOn(z, f, d)
          BY <2>4, <5>2, HeldTyped
        <5>3. QED
          BY <5>1, <5>2
      <4>3. QED
        BY <3>2, <4>1, <4>2
    <3>6. QED
      BY <3>4, <3>5
  <2>6. Calm(x) => Calm(y) /\ y.ok
    <3>1. SUFFICES ASSUME Calm(x) PROVE Calm(y) /\ y.ok
      OBVIOUS
    <3>2. y.disk.room = Plenty /\ y.ok
      BY <2>1, <2>2, <3>1 DEF Flushed, Calm
    <3>3. y.h.buf = << >> /\ ~y.h.err
      BY <2>2 DEF NoHandle
    <3>4. Len(y.h.buf) = 0
      BY <3>3, EmptySeq
    <3>5. QED
      BY <3>2, <3>3, <3>4, BufCapAssumption DEF Calm
  <2>7. QED
    BY <1>1, <1>3, <2>1, <2>2, <2>3, <2>5, <2>6 DEF Flushed, ClosedOff
<1>7. QED
  BY <1>5, <1>6

(* The file of day d opened: a header when it was empty, else nothing. *)
OpenedAs(x, y, d) ==
    /\ y \in GoodStore /\ y.h.file = "json" /\ y.h.day = d /\ ~y.h.err /\ y.ok = x.ok
    /\ y.disk.jsonAt = x.disk.jsonAt \cup {d} /\ y.disk.sentAt = x.disk.sentAt
    /\ y.disk.room = x.disk.room /\ Len(y.h.buf) <= BufCap
    /\ \A f \in Names, e \in Day :
         /\ File(y, f, e) = File(x, f, e)
         /\ Held(y, f, e) = IF f = "json" /\ e = d /\ File(x, f, e) = << >> THEN Line(Header)
                            ELSE File(x, f, e)

(***************************************************************************)
(* A file opened for a day: an empty one gets the header, any other is     *)
(* resumed.                                                                *)
(***************************************************************************)
LEMMA OpenedFileHeld ==
    ASSUME NEW x \in GoodStore, NEW d \in Day
    PROVE  OpenedAs(x, OpenedFile(x, d), d)
<1> DEFINE handle == [NoHandle EXCEPT !.day = d, !.file = "json"]
           opened == [x EXCEPT !.disk.jsonAt = @ \cup {d}, !.h = handle]
           y      == OpenedFile(x, d)
<1> SUFFICES OpenedAs(x, y, d)
  OBVIOUS
<1>1. y \in GoodStore
  BY OpenedFileSound DEF Sound
<1>2. y = IF x.disk.json[d] = << >> THEN BufWrite(opened, Line(Header)) ELSE opened
  BY DEF OpenedFile
<1>3. Line(Header) \in Seq(Half) /\ Len(Line(Header)) = 2 /\ << >> \o Line(Header) = Line(Header)
  <2>1. Line(Header) \in Seq(Half)
    BY LineIsSeq DEF Header
  <2>2. QED
    BY <2>1, ConcatEmptySeq DEF Line
<1>4. /\ handle \in HandleType /\ handle.file = "json" /\ handle.day = d /\ handle.buf = << >>
      /\ handle.err = FALSE
  BY NoHandleGood DEF NoHandle, HandleType
<1>5. /\ opened.disk = [x.disk EXCEPT !.jsonAt = @ \cup {d}] /\ opened.h = handle /\ opened.ok = x.ok
      /\ \A b : [opened EXCEPT !.h.buf = b] = [opened EXCEPT !.h = [handle EXCEPT !.buf = b]]
  <2> HIDE DEF handle
  <2>1. opened = [x EXCEPT !.disk = [x.disk EXCEPT !.jsonAt = @ \cup {d}], !.h = handle]
    OBVIOUS
  <2>2. x \in StoreType
    BY DEF GoodStore
  <2> HIDE DEF opened
  <2>3. opened.disk = [x.disk EXCEPT !.jsonAt = @ \cup {d}] /\ opened.h = handle /\ opened.ok = x.ok
    BY <2>1, <2>2 DEF StoreType
  <2>4. ASSUME NEW b
        PROVE  [opened EXCEPT !.h.buf = b] = [opened EXCEPT !.h = [handle EXCEPT !.buf = b]]
    BY <2>3
  <2>5. QED
    BY <2>3, <2>4
<1> HIDE DEF y, opened, handle
<1>6. /\ opened.disk.json = x.disk.json /\ opened.disk.sent = x.disk.sent
      /\ opened.disk.jsonAt = x.disk.jsonAt \cup {d} /\ opened.disk.sentAt = x.disk.sentAt
      /\ opened.disk.room = x.disk.room
  BY <1>5 DEF GoodStore, StoreType, DiskType
<1>7. BufWrite(opened, Line(Header)) = [opened EXCEPT !.h = [handle EXCEPT !.buf = Line(Header)]]
  <2>1. ~opened.h.err /\ opened.h.buf \o Line(Header) = Line(Header) /\ Len(Line(Header)) <= BufCap
    BY <1>3, <1>4, <1>5, BufCapAssumption
  <2>2. BufWrite(opened, Line(Header)) = [opened EXCEPT !.h.buf = Line(Header)]
    BY <2>1 DEF BufWrite
  <2>3. QED
    BY <1>5, <2>2
<1>8. /\ y.disk = opened.disk /\ y.ok = x.ok
      /\ y.h = [handle EXCEPT !.buf = IF x.disk.json[d] = << >> THEN Line(Header) ELSE << >>]
  <2>1. CASE x.disk.json[d] = << >>
    <3>1. y = [opened EXCEPT !.h = [handle EXCEPT !.buf = Line(Header)]]
      BY <1>2, <1>7, <2>1
    <3>2. y.disk = opened.disk /\ y.ok = opened.ok /\ y.h = [handle EXCEPT !.buf = Line(Header)]
      BY <1>5, <3>1
    <3>3. QED
      BY <1>5, <2>1, <3>2
  <2>2. CASE x.disk.json[d] # << >>
    <3>1. y = opened /\ handle = [handle EXCEPT !.buf = << >>]
      BY <1>2, <1>4, <2>2 DEF HandleType
    <3>2. QED
      BY <1>5, <2>2, <3>1
  <2>3. QED
    BY <2>1, <2>2
<1>9. /\ y.h.file = "json" /\ y.h.day = d /\ ~y.h.err
      /\ y.h.buf = IF x.disk.json[d] = << >> THEN Line(Header) ELSE << >>
  BY <1>4, <1>8 DEF HandleType
<1>10. \A f, e : File(y, f, e) = File(x, f, e)
  BY <1>6, <1>8 DEF File
<1>11. ASSUME NEW f \in Names, NEW e \in Day
       PROVE  Held(y, f, e) = IF f = "json" /\ e = d /\ File(x, f, e) = << >> THEN Line(Header)
                              ELSE File(x, f, e)
  <2>1. File(x, f, e) \in Seq(Half)
    BY HeldTyped
  <2>2. CASE f = "json" /\ e = d
    <3>1. OpenOn(y, f, e) /\ File(x, f, e) = x.disk.json[d]
      BY <1>9, <2>2 DEF OpenOn, File
    <3>2. Held(y, f, e) = File(x, f, e) \o y.h.buf
      BY <1>1, <1>9, <1>10, <3>1, HeldTyped
    <3>3. CASE File(x, f, e) = << >>
      <4>1. Held(y, f, e) = << >> \o Line(Header)
        BY <1>9, <3>1, <3>2, <3>3
      <4>2. QED
        BY <1>3, <2>2, <3>3, <4>1
    <3>4. CASE File(x, f, e) # << >>
      <4>1. Held(y, f, e) = File(x, f, e) \o << >>
        BY <1>9, <3>1, <3>2, <3>4
      <4>2. QED
        BY <2>1, <3>4, <4>1, ConcatEmptySeq
    <3>5. QED
      BY <3>3, <3>4
  <2>3. CASE ~(f = "json" /\ e = d)
    <3>1. ~OpenOn(y, f, e)
      BY <1>9, <2>3 DEF OpenOn
    <3>2. QED
      BY <1>1, <1>10, <2>3, <3>1, HeldTyped
  <2>4. QED
    BY <2>2, <2>3
<1>12. Len(y.h.buf) <= BufCap
  <2>1. Len(y.h.buf) = 2 \/ Len(y.h.buf) = 0
    BY <1>3, <1>9
  <2>2. 2 <= BufCap /\ 0 <= BufCap
    BY BufCapAssumption
  <2>3. QED
    BY <2>1, <2>2
<1>13. QED
  BY <1>1, <1>6, <1>8, <1>9, <1>10, <1>11, <1>12 DEF OpenedAs

(* store.open: the day that was open is closed, day d's file is opened. *)
Opens(x, y, d) ==
    /\ y \in GoodStore /\ y.disk.sentAt = x.disk.sentAt
    /\ y.disk.jsonAt = x.disk.jsonAt \cup (IF y.ok THEN {d} ELSE {})
    /\ IF y.ok THEN y.h.file = "json" /\ y.h.day = d /\ ~y.h.err ELSE y.h.file = "none"
    /\ \A f \in Names, e \in Day :
         /\ ~OpenOn(x, f, e) => File(y, f, e) = File(x, f, e)
         /\ Extends(File(x, f, e), File(y, f, e))
         /\ ~OpenOn(y, f, e) => Extends(Held(y, f, e), Held(x, f, e))
         /\ OpenOn(y, f, e) =>
              Held(y, f, e) = IF Held(x, f, e) = << >> THEN Line(Header) ELSE Held(x, f, e)

(* The same on a disk that takes every write. *)
OpensCalm(x, y) ==
    /\ Calm(y) /\ y.ok
    /\ \A f \in Names, e \in Day :
         /\ ~OpenOn(y, f, e) => Held(y, f, e) = Held(x, f, e)
         /\ File(y, f, e) = Held(x, f, e)

(* store.open does so. *)
LEMMA OpenHeld ==
    ASSUME NEW x \in GoodStore, x.ok, NEW d \in Day, NEW osOK \in BOOLEAN,
           ~(x.h.file # "none" /\ x.h.day = d)
    PROVE  /\ Opens(x, Open(x, d, osOK), d)
           /\ Calm(x) /\ osOK => OpensCalm(x, Open(x, d, osOK))
<1> DEFINE c == CloseLocked(x)
           o == OpenedFile(c, d)
           y == Open(x, d, osOK)
<1> SUFFICES Opens(x, y, d) /\ (Calm(x) /\ osOK => OpensCalm(x, y))
  OBVIOUS
<1>1. y = IF ~c.ok THEN c ELSE IF ~osOK THEN [c EXCEPT !.ok = FALSE] ELSE o
  BY DEF Open
<1>2. ClosedOff(x, c)
  BY CloseLockedHeld
<1>3. c \in GoodStore /\ c.h.file = "none"
  BY <1>2 DEF ClosedOff
<1>4. OpenedAs(c, o, d)
  BY <1>3, OpenedFileHeld
<1> HIDE DEF c, o, y
<1>5. CASE ~c.ok \/ ~osOK
  <2>1. y.disk = c.disk /\ y.h = c.h /\ y.ok = FALSE
    <3>1. CASE ~c.ok
      BY <1>1, <1>3, <3>1 DEF GoodStore, StoreType
    <3>2. CASE c.ok
      <4>1. y = [c EXCEPT !.ok = FALSE]
        BY <1>1, <1>5, <3>2
      <4>2. QED
        BY <1>3, <4>1 DEF GoodStore, StoreType
    <3>3. QED
      BY <3>1, <3>2
  <2>2. y \in GoodStore
    <3>1. y = c \/ y = [c EXCEPT !.ok = FALSE]
      BY <1>1, <1>5
    <3>2. QED
      BY <1>3, <3>1 DEF GoodStore, StoreType
  <2>3. \A f, e : /\ File(y, f, e) = File(c, f, e) /\ Held(y, f, e) = Held(c, f, e)
                  /\ (OpenOn(y, f, e) <=> OpenOn(c, f, e))
    BY <2>1 DEF File, Held, Pending, OpenOn
  <2>4. \A f \in Names, e \in Day : ~OpenOn(c, f, e)
    BY <1>3 DEF OpenOn, Names
  <2>5. ~(Calm(x) /\ osOK)
    BY <1>2, <1>5 DEF ClosedOff
  <2>6. Opens(x, y, d)
    BY <1>2, <1>3, <2>1, <2>2, <2>3, <2>4 DEF ClosedOff, Opens
  <2>7. QED
    BY <2>5, <2>6
<1>6. CASE c.ok /\ osOK
  <2>1. y = o /\ y.ok
    BY <1>1, <1>4, <1>6 DEF OpenedAs
  <2>2. ASSUME NEW f \in Names, NEW e \in Day
        PROVE  /\ ~OpenOn(x, f, e) => File(y, f, e) = File(x, f, e)
               /\ Extends(File(x, f, e), File(y, f, e))
               /\ ~OpenOn(y, f, e) => Extends(Held(y, f, e), Held(x, f, e))
               /\ OpenOn(y, f, e) =>
                    Held(y, f, e) = IF Held(x, f, e) = << >> THEN Line(Header) ELSE Held(x, f, e)
               /\ Calm(x) => /\ ~OpenOn(y, f, e) => Held(y, f, e) = Held(x, f, e)
                             /\ File(y, f, e) = Held(x, f, e)
    <3>1. /\ File(y, f, e) = File(c, f, e) /\ Held(c, f, e) = File(c, f, e)
          /\ Held(y, f, e) = IF f = "json" /\ e = d /\ File(c, f, e) = << >> THEN Line(Header)
                             ELSE File(c, f, e)
      BY <1>2, <1>4, <2>1 DEF OpenedAs, ClosedOff
    <3>2. OpenOn(y, f, e) <=> f = "json" /\ e = d
      BY <1>4, <2>1 DEF OpenedAs, OpenOn
    <3>3. /\ ~OpenOn(x, f, e) => File(c, f, e) = File(x, f, e)
          /\ Extends(File(x, f, e), File(c, f, e))
          /\ Extends(Held(c, f, e), Held(x, f, e))
          /\ Calm(x) => Held(c, f, e) = Held(x, f, e)
      BY <1>2 DEF ClosedOff
    <3>4. ASSUME OpenOn(y, f, e)
          PROVE  Held(y, f, e) = IF Held(x, f, e) = << >> THEN Line(Header) ELSE Held(x, f, e)
      <4>1. ~OpenOn(x, f, e)
        BY <3>2, <3>4 DEF OpenOn
      <4>2. Held(x, f, e) = File(c, f, e)
        BY <3>3, <4>1, HeldTyped
      <4>3. QED
        BY <3>1, <3>2, <3>4, <4>2
    <3>5. QED
      BY <3>1, <3>2, <3>3, <3>4
  <2>3. Opens(x, y, d)
    BY <1>2, <1>4, <2>1, <2>2 DEF ClosedOff, OpenedAs, Opens
  <2>4. Calm(x) => Calm(y)
    BY <1>2, <1>4, <2>1 DEF ClosedOff, OpenedAs, Calm
  <2>5. QED
    BY <2>1, <2>2, <2>3, <2>4 DEF OpensCalm
<1>7. QED
  BY <1>5, <1>6

(***************************************************************************)
(* store.write: the line comes after what is held for its day, or a part   *)
(* of it does; a file that was empty gets the header first.                *)
(***************************************************************************)
Grew(x, y, f, e, line) ==
    \/ Extends(Held(y, f, e), Held(x, f, e) \o line)
    \/ /\ f = "json" /\ Held(x, f, e) = << >>
       /\ Extends(Held(y, f, e), Line(Header) \o line)

(* One write of a line stamped on day d. *)
Writes(x, y, d, line) ==
    /\ y \in GoodStore /\ y.disk.sentAt = x.disk.sentAt
    /\ y.h.file # "none" => y.h.day = d
    /\ y.h.file = "sent" => OpenOn(x, "sent", d) /\ y.disk.jsonAt = x.disk.jsonAt
    /\ y.h.file = "json" => OpenOn(x, "json", d) \/ d \in y.disk.jsonAt
    /\ y.disk.jsonAt \in {x.disk.jsonAt, x.disk.jsonAt \cup {d}}
    /\ \A f \in Names, e \in Day :
         /\ ~OpenOn(x, f, e) /\ ~OpenOn(y, f, e) => File(y, f, e) = File(x, f, e)
         /\ Extends(File(x, f, e), File(y, f, e))
         /\ ~OpenOn(y, f, e) => Extends(Held(y, f, e), Held(x, f, e))
         /\ OpenOn(y, f, e) => Grew(x, y, f, e, line)

(* The same on a disk that takes every write: all of the line is held. *)
WritesCalm(x, y, d, line) ==
    /\ Calm(y) /\ y.ok /\ y.h.file # "none"
    /\ \A f \in Names, e \in Day :
         /\ ~OpenOn(y, f, e) => Held(y, f, e) = Held(x, f, e)
         /\ OpenOn(y, f, e) =>
              Held(y, f, e) = IF ~OpenOn(x, f, e) /\ Held(x, f, e) = << >>
                              THEN Line(Header) \o line
                              ELSE Held(x, f, e) \o line
         /\ \/ File(y, f, e) \in {File(x, f, e), Held(x, f, e)}
            \/ Len(File(y, f, e)) >= 2

(* store.write does so. *)
LEMMA WriteHeld ==
    ASSUME NEW x \in GoodStore, x.ok, NEW d \in Day, NEW r \in Nat, NEW osOK \in BOOLEAN
    PROVE  /\ Writes(x, Write(x, d, r, osOK), d, Line(r))
           /\ Calm(x) /\ osOK => WritesCalm(x, Write(x, d, r, osOK), d, Line(r))
<1> DEFINE o    == Open(x, d, osOK)
           line == Line(r)
           w    == BufWrite(o, line)
           y    == Write(x, d, r, osOK)
<1> SUFFICES Writes(x, y, d, line) /\ (Calm(x) /\ osOK => WritesCalm(x, y, d, line))
  OBVIOUS
<1>1. y = IF o.ok THEN w ELSE o
  BY DEF Write
<1>2. line \in Seq(Half) /\ Len(line) = 2
  <2>1. line \in Seq(Half)
    BY LineIsSeq
  <2>2. QED
    BY <2>1 DEF Line
<1>3. o \in GoodStore /\ (o.ok => o.h.file # "none")
  BY OpenSound DEF Sound
<1>4. o.ok => Wrote(o, w, line)
  BY <1>2, <1>3, BufWriteHeld
<1>5. CASE x.h.file # "none" /\ x.h.day = d
  <2>1. o = x
    BY <1>5 DEF Open
  <2> HIDE DEF o, w, y, line
  <2>2. y = w /\ Wrote(x, y, line)
    BY <1>1, <1>4, <2>1
  <2>3. x.h.file \in Names
    BY <1>5 DEF Names, GoodStore, StoreType, HandleType
  <2>4. ASSUME NEW f \in Names, NEW e \in Day
        PROVE  /\ (OpenOn(x, f, e) <=> OpenOn(y, f, e))
               /\ ~OpenOn(y, f, e) => /\ File(y, f, e) = File(x, f, e)
                                      /\ Held(y, f, e) = Held(x, f, e)
                                      /\ Extends(Held(y, f, e), Held(x, f, e))
    <3>1. OpenOn(x, f, e) <=> OpenOn(y, f, e)
      BY <2>2 DEF Wrote, OpenOn
    <3>2. y \in GoodStore
      BY <2>2 DEF Wrote
    <3>3. Held(x, f, e) \in Seq(Half)
      BY HeldTyped
    <3>4. ASSUME ~OpenOn(y, f, e) PROVE File(y, f, e) = File(x, f, e) /\ Held(y, f, e) = Held(x, f, e)
      BY <2>2, <3>1, <3>2, <3>4, HeldTyped DEF Wrote
    <3>5. QED
      BY <3>1, <3>3, <3>4, ExtendsReflexive
  <2>5. Writes(x, y, d, line)
    <3>1. y.h.file = x.h.file /\ y.h.day = d
      BY <1>5, <2>2 DEF Wrote
    <3>2. y.h.file = "sent" => OpenOn(x, "sent", d)
      BY <1>5, <3>1 DEF OpenOn
    <3>3. y.h.file = "json" => OpenOn(x, "json", d)
      BY <1>5, <3>1 DEF OpenOn
    <3>4. \A f \in Names, e \in Day : OpenOn(y, f, e) => Grew(x, y, f, e, line)
      BY <2>2, <2>4 DEF Wrote, Grew
    <3>5. QED
      BY <2>2, <2>4, <3>1, <3>2, <3>3, <3>4 DEF Wrote, Writes
  <2>6. Calm(x) => WritesCalm(x, y, d, line)
    <3>1. SUFFICES ASSUME Calm(x) PROVE WritesCalm(x, y, d, line)
      OBVIOUS
    <3>2. Calm(y) /\ y.ok /\ y.h.file # "none"
      BY <1>5, <2>2, <3>1 DEF Wrote
    <3>3. \A f \in Names, e \in Day :
            /\ OpenOn(y, f, e) => OpenOn(x, f, e) /\ Held(y, f, e) = Held(x, f, e) \o line
            /\ File(y, f, e) = File(x, f, e) \/ Len(File(y, f, e)) >= 2
      BY <2>2, <2>4, <3>1 DEF Wrote
    <3>4. QED
      BY <2>4, <3>2, <3>3 DEF WritesCalm
  <2>7. QED
    BY <2>5, <2>6
<1>6. CASE ~(x.h.file # "none" /\ x.h.day = d)
  <2>1. /\ Opens(x, o, d)
        /\ Calm(x) /\ osOK => OpensCalm(x, o)
    BY <1>6, OpenHeld
  <2> HIDE DEF o, w, y, line
  <2>2. CASE ~o.ok
    <3>1. y = o
      BY <1>1, <2>2
    <3>2. ~(Calm(x) /\ osOK)
      BY <2>1, <2>2 DEF OpensCalm
    <3>3. \A f \in Names, e \in Day : ~OpenOn(y, f, e)
      BY <2>1, <2>2, <3>1 DEF Opens, OpenOn, Names
    <3>4. y.h.file = "none" /\ y.disk.jsonAt = x.disk.jsonAt
      BY <2>1, <2>2, <3>1 DEF Opens
    <3>5. Writes(x, y, d, line)
      BY <2>1, <3>1, <3>3, <3>4 DEF Opens, Writes
    <3>6. QED
      BY <3>2, <3>5
  <2>3. CASE o.ok
    <3>1. y = w /\ Wrote(o, y, line)
      BY <1>1, <1>4, <2>3
    <3>2. o.h.file = "json" /\ o.h.day = d /\ y.h.file = "json" /\ y.h.day = d /\ y \in GoodStore
      BY <2>1, <2>3, <3>1 DEF Opens, Wrote
    <3>3. ASSUME NEW f \in Names, NEW e \in Day
          PROVE  /\ ~OpenOn(x, f, e) /\ ~OpenOn(y, f, e) => File(y, f, e) = File(x, f, e)
                 /\ Extends(File(x, f, e), File(y, f, e))
                 /\ ~OpenOn(y, f, e) => Extends(Held(y, f, e), Held(x, f, e))
                 /\ OpenOn(y, f, e) => Grew(x, y, f, e, line)
                 /\ OpenOn(y, f, e) => ~OpenOn(x, f, e)
      <4>1. OpenOn(y, f, e) <=> OpenOn(o, f, e)
        BY <3>2 DEF OpenOn
      <4>2. /\ File(x, f, e) \in Seq(Half) /\ File(o, f, e) \in Seq(Half) /\ File(y, f, e) \in Seq(Half)
            /\ Extends(File(x, f, e), File(o, f, e)) /\ Extends(File(o, f, e), File(y, f, e))
        BY <1>3, <2>1, <3>1, <3>2, HeldTyped DEF Opens, Wrote
      <4>3. Extends(File(x, f, e), File(y, f, e))
        BY <4>2, ExtendsTransitive
      <4>4. ~OpenOn(y, f, e) => File(y, f, e) = File(o, f, e) /\ Held(y, f, e) = Held(o, f, e)
        BY <1>3, <3>1, <3>2, <4>1, HeldTyped DEF Wrote
      <4>5. ~OpenOn(y, f, e) => Extends(Held(y, f, e), Held(x, f, e))
        BY <2>1, <4>1, <4>4 DEF Opens
      <4>6. ~OpenOn(x, f, e) => File(o, f, e) = File(x, f, e)
        BY <2>1 DEF Opens
      <4>7. OpenOn(y, f, e) => Grew(x, y, f, e, line)
        <5>1. SUFFICES ASSUME OpenOn(y, f, e) PROVE Grew(x, y, f, e, line)
          OBVIOUS
        <5>2. Extends(Held(y, f, e), Held(o, f, e) \o line)
          BY <3>1, <4>1, <5>1 DEF Wrote
        <5>3. Held(o, f, e) = IF Held(x, f, e) = << >> THEN Line(Header) ELSE Held(x, f, e)
          BY <2>1, <4>1, <5>1 DEF Opens
        <5>4. f = "json"
          BY <3>2, <5>1 DEF OpenOn
        <5>5. QED
          BY <5>2, <5>3, <5>4 DEF Grew
      <4>8. OpenOn(y, f, e) => ~OpenOn(x, f, e)
        BY <1>6, <3>2 DEF OpenOn
      <4>9. QED
        BY <4>3, <4>4, <4>5, <4>6, <4>7, <4>8
    <3>4. Writes(x, y, d, line)
      <4>1. y.disk.jsonAt = x.disk.jsonAt \cup {d} /\ y.disk.sentAt = x.disk.sentAt
        BY <2>1, <2>3, <3>1 DEF Opens, Wrote
      <4>2. y.h.file # "sent"
        BY <3>2
      <4>3. QED
        BY <3>2, <3>3, <4>1, <4>2 DEF Writes
    <3>5. ASSUME Calm(x), osOK PROVE WritesCalm(x, y, d, line)
      <4>1. OpensCalm(x, o)
        BY <2>1, <3>5
      <4>2. Calm(y) /\ y.ok /\ y.h.file # "none"
        BY <2>3, <3>1, <3>2, <4>1 DEF OpensCalm, Wrote
      <4>3. ASSUME NEW f \in Names, NEW e \in Day
            PROVE  /\ ~OpenOn(y, f, e) => Held(y, f, e) = Held(x, f, e)
                   /\ OpenOn(y, f, e) =>
                        Held(y, f, e) = IF Held(x, f, e) = << >> THEN Line(Header) \o line
                                        ELSE Held(x, f, e) \o line
                   /\ File(y, f, e) = Held(x, f, e) \/ Len(File(y, f, e)) >= 2
        <5>1. OpenOn(y, f, e) <=> OpenOn(o, f, e)
          BY <3>2 DEF OpenOn
        <5>2. /\ ~OpenOn(o, f, e) => Held(o, f, e) = Held(x, f, e)
              /\ File(o, f, e) = Held(x, f, e) /\ Calm(o)
          BY <4>1 DEF OpensCalm
        <5>3. /\ ~OpenOn(o, f, e) => File(y, f, e) = File(o, f, e)
              /\ OpenOn(o, f, e) => Held(y, f, e) = Held(o, f, e) \o line
              /\ File(y, f, e) = File(o, f, e) \/ Len(File(y, f, e)) >= 2
          BY <3>1, <5>2 DEF Wrote
        <5>4. ~OpenOn(y, f, e) => Held(y, f, e) = Held(x, f, e)
          BY <1>3, <3>2, <5>1, <5>2, <5>3, HeldTyped
        <5>5. OpenOn(y, f, e) =>
                Held(o, f, e) = IF Held(x, f, e) = << >> THEN Line(Header) ELSE Held(x, f, e)
          BY <2>1, <5>1 DEF Opens
        <5>6. QED
          BY <5>1, <5>2, <5>3, <5>4, <5>5
      <4>4. QED
        BY <3>3, <4>2, <4>3 DEF WritesCalm
    <3>6. QED
      BY <3>4, <3>5
  <2>4. QED
    BY <2>2, <2>3
<1>7. QED
  BY <1>5, <1>6

(***************************************************************************)
(* store.flush, closing a past day, the close at the end and a kill: what  *)
(* is held stays or is cut short, and nothing comes in.                    *)
(***************************************************************************)
Settles(x, y) ==
    /\ y \in GoodStore /\ y.disk.jsonAt = x.disk.jsonAt /\ y.disk.sentAt = x.disk.sentAt
    /\ y.h.file # "none" => y.h.file = x.h.file /\ y.h.day = x.h.day
    /\ \A f \in Names, d \in Day :
         /\ ~OpenOn(x, f, d) => File(y, f, d) = File(x, f, d)
         /\ Extends(File(x, f, d), File(y, f, d))
         /\ Extends(Held(y, f, d), Held(x, f, d))

(* The same on a disk that takes every write: nothing held is lost. *)
SettlesCalm(x, y) ==
    /\ Calm(y) /\ (x.ok => y.ok)
    /\ \A f \in Names, d \in Day :
         /\ Held(y, f, d) = Held(x, f, d)
         /\ File(y, f, d) \in {File(x, f, d), Held(x, f, d)}

(* A step that leaves the store alone settles it. *)
LEMMA StaysSettles ==
    ASSUME NEW x \in GoodStore
    PROVE  Settles(x, x) /\ (Calm(x) => SettlesCalm(x, x))
<1>1. \A f \in Names, d \in Day : /\ Extends(File(x, f, d), File(x, f, d))
                                  /\ Extends(Held(x, f, d), Held(x, f, d))
  BY HeldTyped, ExtendsReflexive
<1>2. QED
  BY <1>1 DEF Settles, SettlesCalm

(* So does closing the file ... *)
LEMMA CloseSettles ==
    ASSUME NEW x \in GoodStore
    PROVE  Settles(x, CloseLocked(x)) /\ (Calm(x) => SettlesCalm(x, CloseLocked(x)))
<1>1. ClosedOff(x, CloseLocked(x))
  BY CloseLockedHeld
<1>2. QED
  BY <1>1 DEF ClosedOff, Settles, SettlesCalm

(* ... flushing its buffer ... *)
LEMMA BufFlushSettles ==
    ASSUME NEW x \in GoodStore, x.h.file # "none"
    PROVE  Settles(x, BufFlush(x)) /\ (Calm(x) => SettlesCalm(x, BufFlush(x)))
<1> DEFINE y == BufFlush(x)
<1>1. Flushed(x, y)
  BY BufFlushHeld
<1> HIDE DEF y
<1>2. Settles(x, y)
  BY <1>1 DEF Flushed, Settles
<1>3. ASSUME Calm(x) PROVE SettlesCalm(x, y)
  <2>1. y.ok /\ y.h.buf = << >> /\ ~y.h.err /\ Calm(y) /\ y \in GoodStore
    BY <1>1, <1>3 DEF Flushed
  <2>2. ASSUME NEW f \in Names, NEW d \in Day
        PROVE  Held(y, f, d) = Held(x, f, d) /\ File(y, f, d) \in {File(x, f, d), Held(x, f, d)}
    <3>1. Held(y, f, d) = Held(x, f, d) /\ File(y, f, d) \in Seq(Half)
      BY <1>1, <2>1, HeldTyped DEF Flushed
    <3>2. CASE OpenOn(y, f, d)
      <4>1. Held(y, f, d) = File(y, f, d) \o << >>
        BY <2>1, <3>2, HeldTyped
      <4>2. QED
        BY <3>1, <4>1, ConcatEmptySeq
    <3>3. CASE ~OpenOn(y, f, d)
      BY <2>1, <3>1, <3>3, HeldTyped
    <3>4. QED
      BY <3>1, <3>2, <3>3
  <2>3. QED
    BY <2>1, <2>2 DEF SettlesCalm
<1>4. QED
  BY <1>2, <1>3 DEF y

(* ... the minute flush, the close of a past day ... *)
LEMMA FlushSettles ==
    ASSUME NEW x \in GoodStore, NEW today
    PROVE  /\ Settles(x, Flush(x, today)) /\ (Calm(x) => SettlesCalm(x, Flush(x, today)))
           /\ Settles(x, ClosePast(x, today)) /\ (Calm(x) => SettlesCalm(x, ClosePast(x, today)))
  BY StaysSettles, CloseSettles, BufFlushSettles DEF Flush, ClosePast

(* After the minute flush, on a disk that takes it, all that is held is on disk. *)
LEMMA FlushLands ==
    ASSUME NEW x \in GoodStore, Calm(x), NEW today
    PROVE  /\ Flush(x, today) \in GoodStore
           /\ \A f \in Names, d \in Day : File(Flush(x, today), f, d) = Held(Flush(x, today), f, d)
<1> DEFINE y == Flush(x, today)
<1>1. y \in GoodStore
  BY FlushSettles DEF Settles
<1>2. CASE x.h.file = "none"
  <2>1. y = x /\ \A f \in Names, d \in Day : ~OpenOn(x, f, d)
    BY <1>2 DEF Flush, OpenOn, Names
  <2>2. QED
    BY <1>1, <2>1, HeldTyped
<1>3. CASE x.h.file # "none" /\ x.h.day < today
  BY <1>1, <1>3, CloseLockedHeld DEF Flush, ClosedOff
<1>4. CASE x.h.file # "none" /\ ~(x.h.day < today)
  <2>1. y = BufFlush(x)
    BY <1>4 DEF Flush
  <2>2. Flushed(x, y)
    BY <1>4, <2>1, BufFlushHeld
  <2> HIDE DEF y
  <2>3. y.h.buf = << >> /\ ~y.h.err
    BY <2>2 DEF Flushed
  <2>4. ASSUME NEW f \in Names, NEW d \in Day
        PROVE  File(y, f, d) = Held(y, f, d)
    <3>1. File(y, f, d) \in Seq(Half)
      BY <1>1, HeldTyped
    <3>2. OpenOn(y, f, d) => Held(y, f, d) = File(y, f, d) \o << >>
      BY <1>1, <2>3, HeldTyped
    <3>3. QED
      BY <1>1, <3>1, <3>2, HeldTyped, ConcatEmptySeq
  <2>5. QED
    BY <1>1, <2>4 DEF y
<1>5. QED
  BY <1>2, <1>3, <1>4

(* ... and a kill. *)
LEMMA KilledSettles ==
    ASSUME NEW x \in GoodStore
    PROVE  Settles(x, Killed(x)) /\ Killed(x).h.file = "none"
<1> DEFINE y == Killed(x)
<1>1. y \in GoodStore /\ y.disk = x.disk /\ y.h.file = "none"
  BY NoHandleGood DEF Killed, NoHandle, GoodStore, StoreType
<1> HIDE DEF y
<1>2. \A f \in Names, d \in Day : File(y, f, d) = File(x, f, d) /\ ~OpenOn(y, f, d)
  BY <1>1 DEF File, OpenOn, Names
<1>3. \A f \in Names, d \in Day : /\ Extends(File(x, f, d), File(y, f, d))
                                  /\ Extends(Held(y, f, d), Held(x, f, d))
  BY <1>1, <1>2, HeldTyped, ExtendsReflexive
<1>4. Settles(x, y)
  BY <1>1, <1>2, <1>3 DEF Settles
<1>5. QED
  BY <1>1, <1>4 DEF y

(* os.Rename of a listed day: the sent file takes over what the day file held. *)
Renames(x, y, d) ==
    /\ y \in GoodStore
    /\ y.disk.jsonAt = x.disk.jsonAt \ {d} /\ y.disk.sentAt = x.disk.sentAt \cup {d}
    /\ y.disk.room = x.disk.room /\ y.h.err = x.h.err /\ y.h.buf = x.h.buf /\ y.h.day = x.h.day
    /\ y.h.file = IF OpenOn(x, "json", d) THEN "sent" ELSE x.h.file
    /\ Held(y, "json", d) = << >> /\ File(y, "json", d) = << >>
    /\ File(y, "sent", d) = File(x, "json", d)
    /\ ~OpenOn(x, "sent", d) => Held(y, "sent", d) = Held(x, "json", d)
    /\ \A f \in Names, e \in Day \ {d} :
         Held(y, f, e) = Held(x, f, e) /\ File(y, f, e) = File(x, f, e)

(* os.Rename does so. *)
LEMMA RenamedHeld ==
    ASSUME NEW x \in GoodStore, NEW d \in Day
    PROVE  Renames(x, Renamed(x, d), d)
<1> DEFINE y == Renamed(x, d)
           s == [x.disk EXCEPT !.sent[d] = x.disk.json[d], !.sentAt = @ \cup {d},
                               !.json[d] = << >>, !.jsonAt = @ \ {d}]
           g == [x.h EXCEPT !.file = IF x.h.day = d /\ @ = "json" THEN "sent" ELSE @]
<1> SUFFICES Renames(x, y, d)
  OBVIOUS
<1>1. y \in GoodStore
  BY RenamedSound
<1>2. y = [disk |-> s, h |-> g, ok |-> x.ok]
  BY DEF Renamed
<1>3. x.disk \in DiskType /\ x.h \in HandleType
  BY DEF GoodStore, StoreType
<1>4. /\ s.jsonAt = x.disk.jsonAt \ {d} /\ s.sentAt = x.disk.sentAt \cup {d} /\ s.room = x.disk.room
      /\ s.sent[d] = x.disk.json[d] /\ s.json[d] = << >>
      /\ \A e \in Day \ {d} : s.sent[e] = x.disk.sent[e] /\ s.json[e] = x.disk.json[e]
  BY <1>3 DEF DiskType
<1>5. /\ g.err = x.h.err /\ g.buf = x.h.buf /\ g.day = x.h.day
      /\ g.file = IF x.h.day = d /\ x.h.file = "json" THEN "sent" ELSE x.h.file
  BY <1>3 DEF HandleType
<1> HIDE DEF s, g, y
<1>6. y.disk = s /\ y.h = g
  BY <1>2
<1>7. /\ File(y, "json", d) = << >> /\ File(y, "sent", d) = File(x, "json", d)
      /\ \A f \in Names, e \in Day \ {d} : File(y, f, e) = File(x, f, e)
  BY <1>4, <1>6 DEF File, Names
<1>8. ~OpenOn(y, "json", d)
  BY <1>5, <1>6 DEF OpenOn
<1>9. \A f \in Names, e \in Day \ {d} : Pending(y, e, f) = Pending(x, e, f)
  BY <1>5, <1>6 DEF Pending, Names
<1>10. ~OpenOn(x, "sent", d) => Pending(y, d, "sent") = Pending(x, d, "json")
  BY <1>5, <1>6 DEF Pending, OpenOn
<1>11. Held(y, "json", d) = << >>
  BY <1>1, <1>7, <1>8, HeldTyped DEF Names
<1>12. ~OpenOn(x, "sent", d) => Held(y, "sent", d) = Held(x, "json", d)
  BY <1>7, <1>10, Zenon DEF Held
<1>13. \A f \in Names, e \in Day \ {d} : Held(y, f, e) = Held(x, f, e)
  BY <1>7, <1>9, Zenon DEF Held
<1>14. y.h.file = IF OpenOn(x, "json", d) THEN "sent" ELSE x.h.file
  BY <1>5, <1>6 DEF OpenOn
<1>15. QED
  BY <1>1, <1>4, <1>5, <1>6, <1>7, <1>11, <1>12, <1>13, <1>14 DEF Renames

-----------------------------------------------------------------------------
(* Records in order: none twice in a file, none in both files of a day.    *)

(* The halves of s come in order and belong to records before n. *)
Rising(s, n) ==
    /\ \A i \in 1 .. Len(s) : s[i] < 2 * n
    /\ \A i, j \in 1 .. Len(s) : i < j => s[i] < s[j]

(* Every record of b comes after all of a. *)
Apart(a, b) == \A i \in 1 .. Len(a), j \in 1 .. Len(b) : b[j] >= 2 => a[i] < b[j]

(* An empty file is in order and apart from any other. *)
LEMMA EmptyIsRising ==
    ASSUME NEW n \in Nat
    PROVE  /\ Rising(<< >>, n)
           /\ \A s \in Seq(Half) : Apart(<< >>, s) /\ Apart(s, << >>)
<1>1. Len(<< >>) = 0
  BY EmptySeq
<1>2. 1 .. Len(<< >>) = {}
  BY <1>1
<1>3. QED
  BY <1>2 DEF Rising, Apart

(* A file cut short is still in order. *)
LEMMA PartIsRising ==
    ASSUME NEW a \in Seq(Half), NEW b \in Seq(Half), Extends(a, b), NEW n \in Nat, NEW m \in Nat,
           n <= m, Rising(b, n)
    PROVE  Rising(a, m)
<1>1. Len(a) \in Nat /\ Len(b) \in Nat /\ \A i \in 1 .. Len(b) : b[i] \in Nat
  BY LenProperties, ElementOfSeq DEF Half
<1>2. \A i \in 1 .. Len(a) : i \in 1 .. Len(b) /\ b[i] = a[i]
  BY <1>1 DEF Extends
<1>3. \A i \in 1 .. Len(a) : a[i] < 2 * m
  BY <1>1, <1>2 DEF Rising
<1>4. QED
  BY <1>2, <1>3 DEF Rising

(* Two files cut short are still apart. *)
LEMMA PartsAreApart ==
    ASSUME NEW a \in Seq(Half), NEW b \in Seq(Half), NEW c \in Seq(Half), NEW d \in Seq(Half),
           Extends(a, b), Extends(c, d), Apart(b, d)
    PROVE  Apart(a, c)
<1>1. Len(a) \in Nat /\ Len(b) \in Nat /\ Len(c) \in Nat /\ Len(d) \in Nat
  BY LenProperties
<1>2. \A i \in 1 .. Len(a) : i \in 1 .. Len(b) /\ b[i] = a[i]
  BY <1>1 DEF Extends
<1>3. \A i \in 1 .. Len(c) : i \in 1 .. Len(d) /\ d[i] = c[i]
  BY <1>1 DEF Extends
<1>4. QED
  BY <1>2, <1>3 DEF Apart

(* The two halves of a line at the end. *)
LEMMA WithLine ==
    ASSUME NEW s \in Seq(Half), NEW r \in Nat
    PROVE  /\ s \o Line(r) \in Seq(Half) /\ Len(s \o Line(r)) = Len(s) + 2 /\ Len(s) \in Nat
           /\ \A i \in 1 .. Len(s) : (s \o Line(r))[i] = s[i] /\ s[i] \in Nat
           /\ (s \o Line(r))[Len(s) + 1] = 2 * r /\ (s \o Line(r))[Len(s) + 2] = 2 * r + 1
<1> DEFINE line == Line(r)
<1>1. line \in Seq(Half)
  BY LineIsSeq
<1>2. Len(line) = 2 /\ line[1] = 2 * r /\ line[2] = 2 * r + 1
  BY DEF Line
<1> HIDE DEF line
<1>3. /\ s \o line \in Seq(Half) /\ Len(s \o line) = Len(s) + Len(line)
      /\ \A i \in 1 .. (Len(s) + Len(line)) :
           (s \o line)[i] = IF i <= Len(s) THEN s[i] ELSE line[i - Len(s)]
  BY <1>1, ConcatProperties
<1>4. Len(s) \in Nat /\ \A i \in 1 .. Len(s) : s[i] \in Nat
  BY LenProperties, ElementOfSeq DEF Half
<1>5. (Len(s) + 1) - Len(s) = 1 /\ (Len(s) + 2) - Len(s) = 2
  BY <1>4
<1>6. (s \o line)[Len(s) + 1] = line[1] /\ (s \o line)[Len(s) + 2] = line[2]
  <2>1. Len(s) + 1 \in 1 .. (Len(s) + 2) /\ Len(s) + 2 \in 1 .. (Len(s) + 2)
        /\ ~(Len(s) + 1 <= Len(s)) /\ ~(Len(s) + 2 <= Len(s))
    BY <1>4
  <2>2. QED
    BY <1>2, <1>3, <1>5, <2>1
<1>7. \A i \in 1 .. Len(s) : (s \o line)[i] = s[i]
  BY <1>2, <1>3, <1>4
<1>8. QED
  BY <1>2, <1>3, <1>4, <1>6, <1>7 DEF line

(* A new line keeps a file in order. *)
LEMMA LineIsRising ==
    ASSUME NEW s \in Seq(Half), NEW n \in Nat, Rising(s, n)
    PROVE  Rising(s \o Line(n), n + 1)
<1> DEFINE t == s \o Line(n)
           k == Len(s)
<1>1. /\ t \in Seq(Half) /\ Len(t) = k + 2 /\ k \in Nat
      /\ \A i \in 1 .. k : t[i] = s[i] /\ s[i] \in Nat
      /\ t[k + 1] = 2 * n /\ t[k + 2] = 2 * n + 1
  BY WithLine
<1>2. \A i \in 1 .. k : s[i] < 2 * n
  BY DEF Rising
<1>3. \A i, j \in 1 .. k : i < j => s[i] < s[j]
  BY DEF Rising
<1> HIDE DEF t, k
<1>4. \A i \in 1 .. (k + 2) : i \in 1 .. k \/ i = k + 1 \/ i = k + 2
  BY <1>1
<1>5. ASSUME NEW i \in 1 .. (k + 2)
      PROVE  t[i] < 2 * (n + 1)
  <2>1. CASE i \in 1 .. k
    <3>1. t[i] = s[i] /\ s[i] \in Nat /\ s[i] < 2 * n
      BY <1>1, <1>2, <2>1
    <3>2. QED
      BY <3>1
  <2>2. CASE i = k + 1
    BY <1>1, <2>2
  <2>3. CASE i = k + 2
    BY <1>1, <2>3
  <2>4. QED
    BY <1>4, <2>1, <2>2, <2>3
<1>6. ASSUME NEW i \in 1 .. (k + 2), NEW j \in 1 .. (k + 2), i < j
      PROVE  t[i] < t[j]
  <2>1. i \in 1 .. k \/ (i = k + 1 /\ j = k + 2)
    BY <1>1, <1>6
  <2>2. CASE i = k + 1 /\ j = k + 2
    <3>1. t[i] = 2 * n /\ t[j] = 2 * n + 1
      BY <1>1, <2>2
    <3>2. QED
      BY <3>1
  <2>3. CASE i \in 1 .. k
    <3>1. t[i] = s[i] /\ s[i] \in Nat /\ s[i] < 2 * n
      BY <1>1, <1>2, <2>3
    <3>2. CASE j \in 1 .. k
      <4>1. t[j] = s[j] /\ s[i] < s[j]
        BY <1>1, <1>3, <1>6, <2>3, <3>2
      <4>2. QED
        BY <3>1, <4>1
    <3>3. CASE j = k + 1
      <4>1. t[j] = 2 * n
        BY <1>1, <3>3
      <4>2. QED
        BY <3>1, <4>1
    <3>4. CASE j = k + 2
      <4>1. t[j] = 2 * n + 1
        BY <1>1, <3>4
      <4>2. QED
        BY <3>1, <4>1
    <3>5. QED
      BY <1>4, <3>2, <3>3, <3>4
  <2>4. QED
    BY <2>1, <2>2, <2>3
<1>7. QED
  BY <1>1, <1>5, <1>6 DEF Rising, t

(* So does the header, alone in a file. *)
LEMMA HeaderIsRising ==
    ASSUME NEW n \in Nat, n >= 1
    PROVE  Rising(Line(Header), n)
  BY DEF Line, Header, Rising

(* A new line keeps the day file apart from the sent file. *)
LEMMA LineIsApart ==
    ASSUME NEW a \in Seq(Half), NEW b \in Seq(Half), NEW n \in Nat, Rising(a, n), Apart(a, b)
    PROVE  Apart(a, b \o Line(n))
<1> DEFINE t == b \o Line(n)
           k == Len(b)
<1>1. /\ Len(t) = k + 2 /\ k \in Nat
      /\ \A i \in 1 .. k : t[i] = b[i] /\ b[i] \in Nat
      /\ t[k + 1] = 2 * n /\ t[k + 2] = 2 * n + 1
  BY WithLine
<1>2. \A i \in 1 .. Len(a) : a[i] \in Nat /\ a[i] < 2 * n
  BY ElementOfSeq DEF Rising, Half
<1> HIDE DEF t, k
<1>3. \A j \in 1 .. (k + 2) : j \in 1 .. k \/ j = k + 1 \/ j = k + 2
  BY <1>1
<1>4. ASSUME NEW i \in 1 .. Len(a), NEW j \in 1 .. (k + 2), t[j] >= 2
      PROVE  a[i] < t[j]
  <2>1. CASE j \in 1 .. k
    <3>1. t[j] = b[j] /\ b[j] >= 2
      BY <1>1, <1>4, <2>1
    <3>2. a[i] < b[j]
      BY <2>1, <3>1 DEF Apart, k
    <3>3. QED
      BY <3>1, <3>2
  <2>2. CASE j = k + 1
    <3>1. t[j] = 2 * n /\ a[i] < 2 * n
      BY <1>1, <1>2, <2>2
    <3>2. QED
      BY <3>1
  <2>3. CASE j = k + 2
    <3>1. t[j] = 2 * n + 1 /\ a[i] \in Nat /\ a[i] < 2 * n
      BY <1>1, <1>2, <2>3
    <3>2. QED
      BY <3>1
  <2>4. QED
    BY <1>3, <2>1, <2>2, <2>3
<1>5. QED
  BY <1>1, <1>4 DEF Apart, t

(* So does the header. *)
LEMMA HeaderIsApart ==
    ASSUME NEW a \in Seq(Half)
    PROVE  Apart(a, Line(Header))
  BY DEF Line, Header, Apart

(***************************************************************************)
(* The files of a store whose records are all numbered below n are in      *)
(* order and apart.                                                        *)
(***************************************************************************)
Tidy(x, n) ==
    \A d \in Day : /\ Rising(Held(x, "json", d), n) /\ Rising(Held(x, "sent", d), n)
                   /\ Apart(Held(x, "sent", d), Held(x, "json", d))

(* A day file that is not there is empty, and no handle is open on it. *)
Named(x) ==
    /\ \A d \in Day \ x.disk.jsonAt : File(x, "json", d) = << >>
    /\ \A d \in Day \ x.disk.sentAt : File(x, "sent", d) = << >>
    /\ x.h.file = "json" => x.h.day \in x.disk.jsonAt
    /\ x.h.file = "sent" => x.h.day \notin x.disk.jsonAt /\ x.h.day \in x.disk.sentAt

(* Nothing is held for a day whose file is not there. *)
LEMMA NotThereIsEmpty ==
    ASSUME NEW x \in GoodStore, Named(x)
    PROVE  /\ \A d \in Day \ x.disk.jsonAt : Held(x, "json", d) = << >>
           /\ \A d \in Day \ x.disk.sentAt : Held(x, "sent", d) = << >>
<1>1. ASSUME NEW d \in Day \ x.disk.jsonAt
      PROVE  Held(x, "json", d) = << >>
  <2>1. ~OpenOn(x, "json", d) /\ File(x, "json", d) = << >> /\ "json" \in Names
    BY DEF Named, OpenOn, Names
  <2>2. QED
    BY <2>1, HeldTyped
<1>2. ASSUME NEW d \in Day \ x.disk.sentAt
      PROVE  Held(x, "sent", d) = << >>
  <2>1. ~OpenOn(x, "sent", d) /\ File(x, "sent", d) = << >> /\ "sent" \in Names
    BY DEF Named, OpenOn, Names
  <2>2. QED
    BY <2>1, HeldTyped
<1>3. QED
  BY <1>1, <1>2

(* A flush, a close or a kill leaves the files tidy. *)
LEMMA TidySettles ==
    ASSUME NEW x \in GoodStore, NEW y, Settles(x, y), NEW n \in Nat
    PROVE  /\ Tidy(x, n) => Tidy(y, n)
           /\ Named(x) => Named(y)
<1>1. y \in GoodStore
  BY DEF Settles
<1>2. ASSUME Tidy(x, n), NEW d \in Day
      PROVE  /\ Rising(Held(y, "json", d), n) /\ Rising(Held(y, "sent", d), n)
             /\ Apart(Held(y, "sent", d), Held(y, "json", d))
  <2>1. "json" \in Names /\ "sent" \in Names /\ n <= n
    BY DEF Names
  <2>2. /\ Held(x, "json", d) \in Seq(Half) /\ Held(y, "json", d) \in Seq(Half)
        /\ Held(x, "sent", d) \in Seq(Half) /\ Held(y, "sent", d) \in Seq(Half)
    BY <1>1, <2>1, HeldTyped
  <2>3. Extends(Held(y, "json", d), Held(x, "json", d)) /\ Extends(Held(y, "sent", d), Held(x, "sent", d))
    BY <2>1 DEF Settles
  <2>4. /\ Rising(Held(x, "json", d), n) /\ Rising(Held(x, "sent", d), n)
        /\ Apart(Held(x, "sent", d), Held(x, "json", d))
    BY <1>2 DEF Tidy
  <2>5. QED
    BY <2>1, <2>2, <2>3, <2>4, PartIsRising, PartsAreApart
<1>3. ASSUME Named(x)
      PROVE  Named(y)
  <2>1. "json" \in Names /\ "sent" \in Names
    BY DEF Names
  <2>2. ASSUME NEW d \in Day \ x.disk.jsonAt
        PROVE  File(y, "json", d) = << >>
    <3>1. ~OpenOn(x, "json", d)
      BY <1>3 DEF Named, OpenOn
    <3>2. QED
      BY <1>3, <2>1, <3>1 DEF Settles, Named
  <2>3. ASSUME NEW d \in Day \ x.disk.sentAt
        PROVE  File(y, "sent", d) = << >>
    <3>1. ~OpenOn(x, "sent", d)
      BY <1>3 DEF Named, OpenOn
    <3>2. QED
      BY <1>3, <2>1, <3>1 DEF Settles, Named
  <2>4. /\ y.h.file = "json" => y.h.day \in y.disk.jsonAt
        /\ y.h.file = "sent" => y.h.day \notin y.disk.jsonAt /\ y.h.day \in y.disk.sentAt
    BY <1>3 DEF Settles, Named
  <2>5. QED
    BY <2>2, <2>3, <2>4 DEF Settles, Named
<1>4. QED
  BY <1>2, <1>3 DEF Tidy

(* A rename leaves them tidy. *)
LEMMA TidyRenames ==
    ASSUME NEW x \in GoodStore, NEW y, NEW d \in Day, Renames(x, y, d), NEW n \in Nat,
           Named(x), d \in x.disk.jsonAt
    PROVE  /\ Tidy(x, n) => Tidy(y, n)
           /\ Named(y)
<1>1. "json" \in Names /\ "sent" \in Names /\ y \in GoodStore
  BY DEF Names, Renames
<1>2. ~OpenOn(x, "sent", d)
  BY DEF Named, OpenOn
<1>3. /\ Held(y, "json", d) = << >> /\ Held(y, "sent", d) = Held(x, "json", d)
      /\ \A f \in Names, e \in Day \ {d} : Held(y, f, e) = Held(x, f, e) /\ File(y, f, e) = File(x, f, e)
  BY <1>2 DEF Renames
<1>4. ASSUME Tidy(x, n), NEW e \in Day
      PROVE  /\ Rising(Held(y, "json", e), n) /\ Rising(Held(y, "sent", e), n)
             /\ Apart(Held(y, "sent", e), Held(y, "json", e))
  <2>1. CASE e = d
    <3>1. Held(x, "json", d) \in Seq(Half) /\ Rising(Held(x, "json", d), n)
      BY <1>1, <1>4, HeldTyped DEF Tidy
    <3>2. QED
      BY <1>3, <2>1, <3>1, EmptyIsRising
  <2>2. CASE e # d
    <3>1. Held(y, "json", e) = Held(x, "json", e) /\ Held(y, "sent", e) = Held(x, "sent", e)
      BY <1>1, <1>3, <2>2
    <3>2. QED
      BY <1>4, <3>1 DEF Tidy
  <2>3. QED
    BY <2>1, <2>2
<1>5. Named(y)
  <2>1. ASSUME NEW e \in Day \ y.disk.jsonAt PROVE File(y, "json", e) = << >>
    BY <1>1, <1>3 DEF Renames, Named
  <2>2. ASSUME NEW e \in Day \ y.disk.sentAt PROVE File(y, "sent", e) = << >>
    <3>1. e \in Day \ {d} /\ e \notin x.disk.sentAt
      BY DEF Renames
    <3>2. QED
      BY <1>1, <1>3, <3>1 DEF Named
  <2>3. y.h.file = "json" => y.h.day \in y.disk.jsonAt
    <3>1. SUFFICES ASSUME y.h.file = "json" PROVE y.h.day \in y.disk.jsonAt
      OBVIOUS
    <3>2. x.h.file = "json" /\ ~OpenOn(x, "json", d) /\ y.h.day = x.h.day
      BY <3>1 DEF Renames
    <3>3. x.h.day \in x.disk.jsonAt /\ x.h.day # d
      BY <3>2 DEF Named, OpenOn
    <3>4. QED
      BY <3>2, <3>3 DEF Renames
  <2>4. y.h.file = "sent" => y.h.day \notin y.disk.jsonAt /\ y.h.day \in y.disk.sentAt
    <3>1. SUFFICES ASSUME y.h.file = "sent"
                   PROVE  y.h.day \notin y.disk.jsonAt /\ y.h.day \in y.disk.sentAt
      OBVIOUS
    <3>2. CASE OpenOn(x, "json", d)
      BY <3>2 DEF Renames, OpenOn
    <3>3. CASE ~OpenOn(x, "json", d)
      BY <3>1, <3>3 DEF Renames, Named
    <3>4. QED
      BY <3>2, <3>3
  <2>5. QED
    BY <2>1, <2>2, <2>3, <2>4 DEF Named
<1>6. QED
  BY <1>4, <1>5 DEF Tidy

(* A write leaves them tidy. *)
LEMMA TidyWrites ==
    ASSUME NEW x \in GoodStore, NEW y, NEW d \in Day, NEW n \in Nat, n >= 1,
           Writes(x, y, d, Line(n)), Named(x)
    PROVE  /\ Tidy(x, n) => Tidy(y, n + 1)
           /\ Named(y)
<1>1. "json" \in Names /\ "sent" \in Names /\ y \in GoodStore
  BY DEF Names, Writes
<1>2. ASSUME Tidy(x, n), NEW e \in Day
      PROVE  /\ Rising(Held(y, "json", e), n + 1) /\ Rising(Held(y, "sent", e), n + 1)
             /\ Apart(Held(y, "sent", e), Held(y, "json", e))
  <2> DEFINE xj == Held(x, "json", e)
             xs == Held(x, "sent", e)
             yj == Held(y, "json", e)
             ys == Held(y, "sent", e)
  <2>1. xj \in Seq(Half) /\ xs \in Seq(Half) /\ yj \in Seq(Half) /\ ys \in Seq(Half)
    BY <1>1, HeldTyped
  <2>2. Rising(xj, n) /\ Rising(xs, n) /\ Apart(xs, xj)
    BY <1>2 DEF Tidy
  <2>3. /\ xj \o Line(n) \in Seq(Half) /\ xs \o Line(n) \in Seq(Half)
        /\ Line(Header) \in Seq(Half) /\ Line(Header) \o Line(n) \in Seq(Half)
    <3>1. Line(Header) \in Seq(Half)
      BY LineIsSeq DEF Header
    <3>2. QED
      BY <2>1, <3>1, WithLine
  <2>4. /\ Rising(xj \o Line(n), n + 1) /\ Rising(xs \o Line(n), n + 1)
        /\ Rising(Line(Header) \o Line(n), n + 1)
    <3>1. Rising(Line(Header), n)
      BY HeaderIsRising
    <3>2. QED
      BY <2>1, <2>2, <2>3, <3>1, LineIsRising
  <2>5. n <= n + 1 /\ n + 1 <= n + 1 /\ n + 1 \in Nat
    OBVIOUS
  <2>6. /\ OpenOn(y, "json", e) => Grew(x, y, "json", e, Line(n))
        /\ OpenOn(y, "sent", e) => Grew(x, y, "sent", e, Line(n))
        /\ ~OpenOn(y, "json", e) => Extends(yj, xj)
        /\ ~OpenOn(y, "sent", e) => Extends(ys, xs)
    BY <1>1 DEF Writes
  <2>7. CASE OpenOn(y, "json", e)
    <3>1. ~OpenOn(y, "sent", e)
      BY <2>7 DEF OpenOn
    <3>2. Extends(ys, xs) /\ Rising(ys, n + 1)
      BY <2>1, <2>2, <2>5, <2>6, <3>1, PartIsRising
    <3>3. \/ Extends(yj, xj \o Line(n))
          \/ Extends(yj, Line(Header) \o Line(n))
      BY <2>6, <2>7 DEF Grew
    <3>4. CASE Extends(yj, xj \o Line(n))
      <4>1. Rising(yj, n + 1)
        BY <2>1, <2>3, <2>4, <2>5, <3>4, PartIsRising
      <4>2. Apart(xs, xj \o Line(n))
        BY <2>1, <2>2, LineIsApart
      <4>3. Apart(ys, yj)
        BY <2>1, <2>3, <3>2, <3>4, <4>2, PartsAreApart
      <4>4. QED
        BY <3>2, <4>1, <4>3
    <3>5. CASE Extends(yj, Line(Header) \o Line(n))
      <4>1. Rising(yj, n + 1)
        BY <2>1, <2>3, <2>4, <2>5, <3>5, PartIsRising
      <4>2. Apart(xs, Line(Header) \o Line(n))
        <5>1. Apart(xs, Line(Header))
          BY <2>1, HeaderIsApart
        <5>2. QED
          BY <2>1, <2>2, <2>3, <5>1, LineIsApart
      <4>3. Apart(ys, yj)
        BY <2>1, <2>3, <3>2, <3>5, <4>2, PartsAreApart
      <4>4. QED
        BY <3>2, <4>1, <4>3
    <3>6. QED
      BY <3>3, <3>4, <3>5
  <2>8. CASE OpenOn(y, "sent", e)
    <3>1. ~OpenOn(y, "json", e)
      BY <2>8 DEF OpenOn
    <3>2. Extends(yj, xj) /\ xj = << >>
      <4>1. e \notin x.disk.jsonAt
        BY <2>8 DEF Writes, Named, OpenOn
      <4>2. QED
        BY <2>6, <3>1, <4>1, NotThereIsEmpty
    <3>3. yj = << >>
      <4>1. Len(yj) \in Nat /\ Len(yj) <= Len(xj) /\ Len(xj) = 0
        BY <2>1, <3>2, LenProperties, EmptySeq DEF Extends
      <4>2. QED
        BY <2>1, <4>1, EmptySeq
    <3>4. Extends(ys, xs \o Line(n))
      BY <2>6, <2>8 DEF Grew
    <3>5. Rising(ys, n + 1)
      BY <2>1, <2>3, <2>4, <2>5, <3>4, PartIsRising
    <3>6. QED
      BY <2>1, <2>5, <3>3, <3>5, EmptyIsRising
  <2>9. CASE ~OpenOn(y, "json", e) /\ ~OpenOn(y, "sent", e)
    BY <2>1, <2>2, <2>5, <2>6, <2>9, PartIsRising, PartsAreApart
  <2>10. QED
    BY <2>7, <2>8, <2>9
<1>3. Named(y)
  <2>1. ASSUME NEW e \in Day \ y.disk.jsonAt PROVE File(y, "json", e) = << >>
    <3>1. e \notin x.disk.jsonAt
      BY DEF Writes
    <3>2. ~OpenOn(x, "json", e)
      BY <3>1 DEF Named, OpenOn
    <3>3. ~OpenOn(y, "json", e)
      BY <3>2 DEF Writes, OpenOn
    <3>4. QED
      BY <1>1, <3>1, <3>2, <3>3 DEF Writes, Named
  <2>2. ASSUME NEW e \in Day \ y.disk.sentAt PROVE File(y, "sent", e) = << >>
    <3>1. e \notin x.disk.sentAt
      BY DEF Writes
    <3>2. ~OpenOn(x, "sent", e)
      BY <3>1 DEF Named, OpenOn
    <3>3. ~OpenOn(y, "sent", e)
      BY <3>2 DEF Writes, OpenOn
    <3>4. QED
      BY <1>1, <3>1, <3>2, <3>3 DEF Writes, Named
  <2>3. y.h.file = "json" => y.h.day \in y.disk.jsonAt
    BY DEF Writes, Named, OpenOn
  <2>4. y.h.file = "sent" => y.h.day \notin y.disk.jsonAt /\ y.h.day \in y.disk.sentAt
    BY DEF Writes, Named, OpenOn
  <2>5. QED
    BY <2>1, <2>2, <2>3, <2>4 DEF Named
<1>4. QED
  BY <1>2, <1>3 DEF Tidy

-----------------------------------------------------------------------------
(* While the disk takes every write: whole lines after a header.           *)

(***************************************************************************)
(* A file is empty or starts with its whole header; every day file does,   *)
(* on disk too, and an open one is not empty.                              *)
(***************************************************************************)
Headed(s) == s = << >> \/ (Len(s) >= 2 /\ s[1] = 2 * Header /\ s[2] = 2 * Header + 1)

Started(x) ==
    \A d \in Day : /\ Headed(Held(x, "json", d)) /\ Headed(File(x, "json", d))
                   /\ OpenOn(x, "json", d) => Held(x, "json", d) # << >>

(***************************************************************************)
(* A file is empty or whole lines, the header first; so is every file with *)
(* its buffer.                                                             *)
(***************************************************************************)
Lined(s) == s # << >> => WholeLines(s) /\ s[1] = 2 * Header

Neat(x) ==
    \A f \in Names, d \in Day : /\ Lined(Held(x, f, d))
                                /\ OpenOn(x, f, d) => Held(x, f, d) # << >>

(* A line at the end, after a header at the beginning. *)
LEMMA LineIsHeaded ==
    ASSUME NEW s \in Seq(Half), NEW n \in Nat, s # << >>
    PROVE  /\ Headed(s) => Headed(s \o Line(n))
           /\ Lined(s) => Lined(s \o Line(n))
           /\ s \o Line(n) # << >>
<1> DEFINE t == s \o Line(n)
           k == Len(s)
<1>1. /\ t \in Seq(Half) /\ Len(t) = k + 2 /\ k \in Nat /\ k # 0
      /\ \A i \in 1 .. k : t[i] = s[i] /\ s[i] \in Nat
      /\ t[k + 1] = 2 * n /\ t[k + 2] = 2 * n + 1
  BY WithLine, EmptySeq
<1>0. k = Len(s)
  OBVIOUS
<1> HIDE DEF t, k
<1>2. t # << >>
  BY <1>1, EmptySeq
<1>3. ASSUME Headed(s) PROVE Headed(t)
  <2>1. k >= 2 /\ s[1] = 2 * Header /\ s[2] = 2 * Header + 1
    BY <1>0, <1>3 DEF Headed
  <2>2. t[1] = s[1] /\ t[2] = s[2]
    BY <1>1, <2>1
  <2>3. QED
    BY <1>1, <2>1, <2>2 DEF Headed
<1>4. ASSUME Lined(s) PROVE Lined(t)
  <2>1. k % 2 = 0 /\ s[1] = 2 * Header
        /\ \A i \in 1 .. k : i % 2 = 1 => IsHead(s[i]) /\ s[i + 1] = s[i] + 1
    BY <1>0, <1>4 DEF Lined, WholeLines
  <2>2. t[1] = 2 * Header
    BY <1>1, <2>1
  <2>3. (k + 2) % 2 = 0
    BY <1>1, <2>1
  <2>4. ASSUME NEW i \in 1 .. (k + 2), i % 2 = 1
        PROVE  IsHead(t[i]) /\ t[i + 1] = t[i] + 1
    <3>1. (i \in 1 .. k /\ i + 1 \in 1 .. k) \/ i = k + 1
      BY <1>1, <2>1, <2>4
    <3>2. CASE i \in 1 .. k /\ i + 1 \in 1 .. k
      <4>1. t[i] = s[i] /\ t[i + 1] = s[i + 1]
        BY <1>1, <3>2
      <4>2. QED
        BY <2>1, <2>4, <3>2, <4>1
    <3>3. CASE i = k + 1
      <4>1. t[i] = 2 * n /\ t[i + 1] = 2 * n + 1
        BY <1>1, <3>3
      <4>2. (2 * n) % 2 = 0
        OBVIOUS
      <4>3. QED
        BY <4>1, <4>2 DEF IsHead
    <3>4. QED
      BY <3>1, <3>2, <3>3
  <2>5. WholeLines(t)
    BY <1>1, <2>3, <2>4 DEF WholeLines
  <2>6. QED
    BY <2>2, <2>5 DEF Lined
<1>5. QED
  BY <1>2, <1>3, <1>4 DEF t

(* A header and a line are whole lines. *)
LEMMA HeaderIsHeaded ==
    /\ Line(Header) \in Seq(Half) /\ Line(Header) # << >> /\ Headed(Line(Header))
    /\ Lined(Line(Header))
<1>1. Line(Header) \in Seq(Half)
  BY LineIsSeq DEF Header
<1>2. Len(Line(Header)) = 2 /\ Line(Header)[1] = 0 /\ Line(Header)[2] = 1
  BY DEF Line, Header
<1>3. Line(Header) # << >>
  BY <1>2
<1>4. WholeLines(Line(Header))
  <2>1. ASSUME NEW i \in 1 .. 2, i % 2 = 1
        PROVE  IsHead(Line(Header)[i]) /\ Line(Header)[i + 1] = Line(Header)[i] + 1
    <3>1. i = 1
      BY <2>1
    <3>2. QED
      BY <1>2, <3>1 DEF IsHead
  <2>2. QED
    BY <1>2, <2>1 DEF WholeLines
<1>5. QED
  BY <1>1, <1>2, <1>3, <1>4 DEF Headed, Lined, Header

(***************************************************************************)
(* A file that starts with its header and grew from a headed one is        *)
(* headed.                                                                 *)
(***************************************************************************)
LEMMA PartIsHeaded ==
    ASSUME NEW a \in Seq(Half), NEW b \in Seq(Half), Extends(a, b), Headed(b), Len(a) >= 2
    PROVE  Headed(a)
<1>1. Len(a) \in Nat /\ Len(a) <= Len(b) /\ 1 \in 1 .. Len(a) /\ 2 \in 1 .. Len(a)
  BY LenProperties DEF Extends
<1>2. a[1] = b[1] /\ a[2] = b[2] /\ b # << >>
  <2>1. a[1] = b[1] /\ a[2] = b[2]
    BY <1>1 DEF Extends
  <2>2. Len(b) # 0
    BY <1>1
  <2>3. QED
    BY <2>1, <2>2, EmptySeq
<1>3. QED
  BY <1>2 DEF Headed

(***************************************************************************)
(* On a disk that takes every write a flush or a close keeps headers and   *)
(* lines whole.                                                            *)
(***************************************************************************)
LEMMA CalmSettles ==
    ASSUME NEW x \in GoodStore, NEW y, Settles(x, y), SettlesCalm(x, y)
    PROVE  /\ Started(x) => Started(y)
           /\ Neat(x) => Neat(y)
<1>1. "json" \in Names /\ "sent" \in Names
  BY DEF Names
<1>2. \A f \in Names, d \in Day : /\ OpenOn(y, f, d) => OpenOn(x, f, d)
                                  /\ Held(y, f, d) = Held(x, f, d)
                                  /\ File(y, f, d) \in {File(x, f, d), Held(x, f, d)}
  <2>1. \A f \in Names, d \in Day : OpenOn(y, f, d) => OpenOn(x, f, d)
    BY DEF Settles, OpenOn, Names
  <2>2. QED
    BY <2>1 DEF SettlesCalm
<1>3. Neat(x) => Neat(y)
  BY <1>2 DEF Neat
<1>4. ASSUME Started(x), NEW d \in Day
      PROVE  /\ Headed(Held(y, "json", d)) /\ Headed(File(y, "json", d))
             /\ OpenOn(y, "json", d) => Held(y, "json", d) # << >>
  <2>1. Held(y, "json", d) = Held(x, "json", d) /\ (OpenOn(y, "json", d) => OpenOn(x, "json", d))
    BY <1>1, <1>2
  <2>2. File(y, "json", d) = File(x, "json", d) \/ File(y, "json", d) = Held(x, "json", d)
    BY <1>1, <1>2
  <2>3. /\ Headed(Held(x, "json", d)) /\ Headed(File(x, "json", d))
        /\ OpenOn(x, "json", d) => Held(x, "json", d) # << >>
    BY <1>4 DEF Started
  <2>4. QED
    BY <2>1, <2>2, <2>3
<1>5. Started(x) => Started(y)
  BY <1>4 DEF Started
<1>6. QED
  BY <1>3, <1>5

(* So does a rename. *)
LEMMA CalmRenames ==
    ASSUME NEW x \in GoodStore, NEW y, NEW d \in Day, Renames(x, y, d), Named(x), d \in x.disk.jsonAt
    PROVE  /\ Started(x) => Started(y)
           /\ Neat(x) => Neat(y)
           /\ Calm(x) => Calm(y)
<1>1. "json" \in Names /\ "sent" \in Names
  BY DEF Names
<1>2. ~OpenOn(x, "sent", d)
  BY DEF Named, OpenOn
<1>3. /\ Held(y, "json", d) = << >> /\ Held(y, "sent", d) = Held(x, "json", d)
      /\ File(y, "json", d) = << >>
      /\ \A f \in Names, e \in Day \ {d} : Held(y, f, e) = Held(x, f, e) /\ File(y, f, e) = File(x, f, e)
  BY <1>2 DEF Renames
<1>4. /\ ~OpenOn(y, "json", d)
      /\ OpenOn(y, "sent", d) => OpenOn(x, "json", d)
      /\ \A f \in Names, e \in Day \ {d} : OpenOn(y, f, e) => OpenOn(x, f, e)
  <2>1. y.h.day = x.h.day /\ y.h.file = IF OpenOn(x, "json", d) THEN "sent" ELSE x.h.file
    BY DEF Renames
  <2>2. QED
    BY <1>2, <2>1 DEF OpenOn, Names
<1>5. ASSUME Started(x), NEW e \in Day
      PROVE  /\ Headed(Held(y, "json", e)) /\ Headed(File(y, "json", e))
             /\ OpenOn(y, "json", e) => Held(y, "json", e) # << >>
  <2>1. CASE e = d
    BY <1>3, <1>4, <2>1 DEF Headed
  <2>2. CASE e # d
    <3>1. /\ Held(y, "json", e) = Held(x, "json", e) /\ File(y, "json", e) = File(x, "json", e)
          /\ OpenOn(y, "json", e) => OpenOn(x, "json", e)
      BY <1>1, <1>3, <1>4, <2>2
    <3>2. QED
      BY <1>5, <3>1 DEF Started
  <2>3. QED
    BY <2>1, <2>2
<1>6. ASSUME Neat(x), NEW f \in Names, NEW e \in Day
      PROVE  Lined(Held(y, f, e)) /\ (OpenOn(y, f, e) => Held(y, f, e) # << >>)
  <2>1. CASE e = d /\ f = "json"
    BY <1>3, <1>4, <2>1 DEF Lined
  <2>2. CASE e = d /\ f = "sent"
    <3>1. Lined(Held(x, "json", d)) /\ (OpenOn(x, "json", d) => Held(x, "json", d) # << >>)
      BY <1>1, <1>6 DEF Neat
    <3>2. QED
      BY <1>3, <1>4, <2>2, <3>1
  <2>3. CASE e # d
    <3>1. Held(y, f, e) = Held(x, f, e) /\ (OpenOn(y, f, e) => OpenOn(x, f, e))
      BY <1>3, <1>4, <2>3
    <3>2. QED
      BY <1>6, <3>1 DEF Neat
  <2>4. f = "json" \/ f = "sent"
    BY DEF Names
  <2>5. QED
    BY <2>1, <2>2, <2>3, <2>4
<1>7. Calm(x) => Calm(y)
  BY DEF Renames, Calm
<1>8. QED
  BY <1>5, <1>6, <1>7 DEF Started, Neat

(* So does a write. *)
LEMMA CalmWrites ==
    ASSUME NEW x \in GoodStore, NEW y, NEW d \in Day, NEW n \in Nat,
           Writes(x, y, d, Line(n)), WritesCalm(x, y, d, Line(n))
    PROVE  /\ Started(x) => Started(y)
           /\ Neat(x) => Neat(y)
<1>1. "json" \in Names /\ "sent" \in Names /\ y \in GoodStore
  BY DEF Names, Writes
<1>2. ASSUME NEW f \in Names, NEW e \in Day, OpenOn(x, f, e) => Held(x, f, e) # << >>
      PROVE  /\ Headed(Held(x, f, e)) => Headed(Held(y, f, e))
             /\ Lined(Held(x, f, e)) => Lined(Held(y, f, e))
             /\ OpenOn(y, f, e) => Held(y, f, e) # << >>
  <2>1. CASE ~OpenOn(y, f, e)
    BY <2>1 DEF WritesCalm
  <2>2. CASE OpenOn(y, f, e) /\ Held(x, f, e) = << >>
    <3>1. Held(y, f, e) = Line(Header) \o Line(n)
      BY <1>2, <2>2 DEF WritesCalm
    <3>2. QED
      BY <3>1, HeaderIsHeaded, LineIsHeaded
  <2>3. CASE OpenOn(y, f, e) /\ Held(x, f, e) # << >>
    <3>1. Held(y, f, e) = Held(x, f, e) \o Line(n)
      BY <2>3 DEF WritesCalm
    <3>2. Held(x, f, e) \in Seq(Half)
      BY HeldTyped
    <3>3. QED
      BY <2>3, <3>1, <3>2, LineIsHeaded
  <2>4. QED
    BY <2>1, <2>2, <2>3
<1>3. Neat(x) => Neat(y)
  BY <1>2 DEF Neat
<1>4. ASSUME Started(x), NEW e \in Day
      PROVE  /\ Headed(Held(y, "json", e)) /\ Headed(File(y, "json", e))
             /\ OpenOn(y, "json", e) => Held(y, "json", e) # << >>
  <2>1. /\ Headed(Held(x, "json", e)) /\ Headed(File(x, "json", e))
        /\ OpenOn(x, "json", e) => Held(x, "json", e) # << >>
    BY <1>4 DEF Started
  <2>2. Headed(Held(y, "json", e)) /\ (OpenOn(y, "json", e) => Held(y, "json", e) # << >>)
    BY <1>1, <1>2, <2>1
  <2>3. \/ File(y, "json", e) = File(x, "json", e) \/ File(y, "json", e) = Held(x, "json", e)
        \/ Len(File(y, "json", e)) >= 2
    BY <1>1 DEF WritesCalm
  <2>4. /\ File(y, "json", e) \in Seq(Half) /\ Held(y, "json", e) \in Seq(Half)
        /\ Extends(File(y, "json", e), Held(y, "json", e))
    BY <1>1, HeldTyped
  <2>5. Len(File(y, "json", e)) >= 2 => Headed(File(y, "json", e))
    BY <2>2, <2>4, PartIsHeaded
  <2>6. QED
    BY <2>1, <2>2, <2>3, <2>5
<1>5. Started(x) => Started(y)
  BY <1>4 DEF Started
<1>6. QED
  BY <1>3, <1>5

-----------------------------------------------------------------------------
(* The records of a file: each line has its place among the lines.          *)

(* Counting up to an element numbers a finite set of integers. *)
LEMMA NthIs ==
    ASSUME NEW S \in SUBSET Int, IsFiniteSet(S)
    PROVE  /\ Cardinality(S) \in Nat
           /\ \A i \in S : Cardinality(UpTo(S, i)) \in 1 .. Cardinality(S)
           /\ \A k \in 1 .. Cardinality(S) : Nth(S, k) \in S /\ Cardinality(UpTo(S, Nth(S, k))) = k
           /\ \A k, i : i \in S /\ Cardinality(UpTo(S, i)) = k => i = Nth(S, k)
<1> DEFINE n    == Cardinality(S)
           C(i) == Cardinality(UpTo(S, i))
<1>1. n \in Nat
  BY FS_CardinalityType
<1>2. ASSUME NEW i \in S
      PROVE  IsFiniteSet(UpTo(S, i)) /\ C(i) \in 1 .. n
  <2>1. UpTo(S, i) \in SUBSET S /\ i \in UpTo(S, i)
    BY <1>2 DEF UpTo
  <2>2. IsFiniteSet(UpTo(S, i)) /\ C(i) <= n
    BY <2>1, FS_Subset
  <2>3. C(i) \in Nat /\ C(i) # 0
    BY <2>1, <2>2, FS_CardinalityType, FS_EmptySet
  <2>4. QED
    BY <1>1, <2>2, <2>3
<1>3. ASSUME NEW i \in S, NEW j \in S, i < j
      PROVE  C(i) < C(j)
  <2>0. \A k \in S : k \in Int
    OBVIOUS
  <2>1. UpTo(S, i) \in SUBSET UpTo(S, j) /\ j \in UpTo(S, j) /\ j \notin UpTo(S, i)
    <3>1. i <= j /\ j <= j /\ ~(j <= i) /\ \A k \in S : k <= i => k <= j
      BY <1>3, <2>0
    <3>2. QED
      BY <3>1 DEF UpTo
  <2>2. C(i) <= C(j) /\ C(i) # C(j)
    BY <1>2, <2>1, FS_Subset
  <2>3. QED
    BY <1>1, <1>2, <2>2
<1>4. \A i, j \in S : C(i) = C(j) => i = j
  <2>1. SUFFICES ASSUME NEW i \in S, NEW j \in S, C(i) = C(j), i # j PROVE FALSE
    OBVIOUS
  <2>2. i < j \/ j < i
    BY <2>1
  <2>3. C(i) \in Int /\ C(j) \in Int
    BY <1>1, <1>2
  <2>4. QED
    BY <1>3, <2>1, <2>2, <2>3
<1> DEFINE f == [i \in S |-> C(i)]
<1>5. f \in Surjection(S, 1 .. n)
  <2>1. f \in [S -> 1 .. n] /\ \A i \in S : f[i] = C(i)
    BY <1>2
  <2>2. f \in Injection(S, 1 .. n)
    <3> HIDE DEF f, C
    <3>1. QED
      BY <1>4, <2>1 DEF Injection, IsInjective
  <2>3. IsFiniteSet(1 .. n) /\ Cardinality(1 .. n) = n
    BY <1>1, FS_Interval
  <2>4. QED
    BY <2>2, <2>3, FS_Injection
<1>6. ASSUME NEW k \in 1 .. n
      PROVE  \E i \in S : C(i) = k
  <2>1. PICK i \in S : f[i] = k
    BY <1>5, <1>6 DEF Surjection
  <2>2. QED
    BY <2>1
<1>7. \A k \in 1 .. n : Nth(S, k) \in S /\ C(Nth(S, k)) = k
  BY <1>6 DEF Nth
<1>8. ASSUME NEW k, NEW i, i \in S, C(i) = k
      PROVE  i = Nth(S, k)
  <2>1. Nth(S, k) \in S /\ C(Nth(S, k)) = k
    BY <1>2, <1>7, <1>8
  <2>2. QED
    BY <1>4, <1>8, <2>1
<1>9. QED
  BY <1>1, <1>2, <1>7, <1>8

(* The first half of a line names the record. *)
LEMMA HalfIs ==
    /\ \A r \in Nat : 2 * r \in Half /\ IsHead(2 * r) /\ RecOf(2 * r) = r /\ ~IsHead(2 * r + 1)
    /\ \A half \in Half : IsHead(half) => half = 2 * RecOf(half) /\ RecOf(half) \in Nat
<1>1. \A r \in Nat : 2 * r \in Nat /\ (2 * r) % 2 = 0 /\ (2 * r) \div 2 = r /\ (2 * r + 1) % 2 # 0
  OBVIOUS
<1>2. \A half \in Nat : half % 2 = 0 => half = 2 * (half \div 2) /\ half \div 2 \in Nat
  OBVIOUS
<1>3. QED
  BY <1>1, <1>2 DEF Half, IsHead, RecOf

(* A file's lines, and its records one for each. *)
LEMMA RecordsAre ==
    ASSUME NEW s \in Seq(Half)
    PROVE  /\ Lines(s) \in SUBSET Int /\ IsFiniteSet(Lines(s)) /\ Cardinality(Lines(s)) \in Nat
           /\ Len(RecordsIn(s)) = Cardinality(Lines(s))
           /\ \A k \in 1 .. Len(RecordsIn(s)) :
                /\ Nth(Lines(s), k) \in Lines(s)
                /\ RecordsIn(s)[k] = RecOf(s[Nth(Lines(s), k)])
           /\ \A k \in 1 .. Len(RecordsIn(s)) :
                /\ RecordsIn(s)[k] \in Nat \ {0}
                /\ \E i \in 1 .. Len(s) : s[i] = 2 * RecordsIn(s)[k]
           /\ RecordsIn(s) \in Seq(Nat)
<1> DEFINE n == Cardinality(Lines(s))
           r == RecordsIn(s)
<1>1. Len(s) \in Nat /\ \A i \in 1 .. Len(s) : s[i] \in Half
  BY LenProperties, ElementOfSeq
<1>2. Lines(s) \in SUBSET (1 .. Len(s)) /\ IsFiniteSet(1 .. Len(s))
  BY <1>1, FS_Interval DEF Lines
<1>3. Lines(s) \in SUBSET Int /\ IsFiniteSet(Lines(s)) /\ n \in Nat
  <2>1. IsFiniteSet(Lines(s))
    BY <1>2, FS_Subset
  <2>2. QED
    BY <1>2, <2>1, FS_CardinalityType
<1>4. \A k \in 1 .. n : Nth(Lines(s), k) \in Lines(s)
  BY <1>3, NthIs
<1>5. ASSUME NEW i \in Lines(s)
      PROVE  i \in 1 .. Len(s) /\ s[i] = 2 * RecOf(s[i]) /\ RecOf(s[i]) \in Nat \ {0}
  <2>1. i \in 1 .. Len(s) /\ s[i] \in Half /\ IsHead(s[i]) /\ s[i] # 2 * 0
    BY <1>1, <1>2, <1>5 DEF Lines, Header
  <2>2. s[i] = 2 * RecOf(s[i]) /\ RecOf(s[i]) \in Nat
    BY <2>1, HalfIs
  <2>3. QED
    BY <2>1, <2>2
<1>6. r = [k \in 1 .. n |-> RecOf(s[Nth(Lines(s), k)])]
  BY DEF RecordsIn
<1>7. r \in Seq(Nat) /\ Len(r) = n /\ \A k \in 1 .. n : r[k] = RecOf(s[Nth(Lines(s), k)])
  <2>1. \A k \in 1 .. n : RecOf(s[Nth(Lines(s), k)]) \in Nat
    BY <1>4, <1>5
  <2>2. r \in [1 .. n -> Nat] /\ DOMAIN r = 1 .. n
    BY <1>6, <2>1
  <2>3. r \in Seq(Nat)
    BY <1>3, <2>2
  <2> HIDE DEF r, n
  <2>4. Len(r) = n
    BY <1>3, <2>2, <2>3, LenProperties
  <2>5. \A k \in 1 .. n : r[k] = RecOf(s[Nth(Lines(s), k)])
    BY <1>6
  <2>6. QED
    BY <2>3, <2>4, <2>5
<1> HIDE DEF r, n
<1>8. ASSUME NEW k \in 1 .. Len(r)
      PROVE  r[k] \in Nat \ {0} /\ \E i \in 1 .. Len(s) : s[i] = 2 * r[k]
  <2>1. Nth(Lines(s), k) \in Lines(s) /\ r[k] = RecOf(s[Nth(Lines(s), k)])
    BY <1>4, <1>7, <1>8
  <2>2. QED
    BY <1>5, <2>1
<1>9. QED
  BY <1>3, <1>4, <1>7, <1>8 DEF r, n

(* An empty file has no records, nor has one with nothing but its header. *)
LEMMA NoRecordsYet == RecordsIn(<< >>) = << >> /\ RecordsIn(Line(Header)) = << >>
<1>1. ASSUME NEW s \in Seq(Half), Lines(s) = {}
      PROVE  RecordsIn(s) = << >>
  <2>1. Len(RecordsIn(s)) = 0 /\ RecordsIn(s) \in Seq(Nat)
    BY <1>1, RecordsAre, FS_EmptySet
  <2>2. QED
    BY <2>1, EmptySeq
<1>2. << >> \in Seq(Half) /\ Lines(<< >>) = {}
  <2>1. << >> \in Seq(Half) /\ Len(<< >>) = 0 /\ 1 .. 0 - 1 = {}
    BY EmptySeq
  <2>2. QED
    BY <2>1 DEF Lines
<1>3. Line(Header) \in Seq(Half) /\ Lines(Line(Header)) = {}
  <2>1. Line(Header) = <<0, 1>>
    BY DEF Line, Header
  <2>2. Len(<<0, 1>>) = 2 /\ <<0, 1>>[1] = 0 /\ 1 .. 2 - 1 = {1} /\ 2 * 0 = 0 /\ <<0, 1>> \in Seq(Half)
    BY DEF Half
  <2>3. QED
    BY <2>1, <2>2 DEF Lines, Header
<1>4. QED
  BY <1>1, <1>2, <1>3

(* The records of a file cut short are the first ones of its records. *)
LEMMA RecordsOfPart ==
    ASSUME NEW a \in Seq(Half), NEW b \in Seq(Half), Extends(a, b)
    PROVE  /\ Len(RecordsIn(a)) <= Len(RecordsIn(b))
           /\ \A k \in 1 .. Len(RecordsIn(a)) : RecordsIn(b)[k] = RecordsIn(a)[k]
           /\ RecordsIn(a) = SubSeq(RecordsIn(b), 1, Len(RecordsIn(a)))
<1> DEFINE S == Lines(a)
           T == Lines(b)
           m == Len(RecordsIn(a))
           n == Len(RecordsIn(b))
<1>1. /\ Len(a) \in Nat /\ Len(b) \in Nat /\ Len(a) <= Len(b)
      /\ \A i \in 1 .. Len(a) : i \in 1 .. Len(b) /\ b[i] = a[i]
  BY LenProperties DEF Extends
<1>2. \A i \in S : i \in 1 .. Len(a) - 1 /\ i + 1 \in 1 .. Len(a) /\ i \in 1 .. Len(a)
  BY <1>1 DEF Lines
<1>3. S \in SUBSET T
  <2>1. ASSUME NEW i \in S PROVE i \in T
    <3>1. i \in 1 .. Len(b) - 1 /\ b[i] = a[i] /\ b[i + 1] = a[i + 1]
      BY <1>1, <1>2
    <3>2. QED
      BY <3>1 DEF Lines
  <2>2. QED
    BY <2>1
<1>4. ASSUME NEW i \in S, NEW j \in T, j <= i PROVE j \in S
  <2>1. j \in 1 .. Len(a) - 1 /\ j + 1 \in 1 .. Len(a) /\ j \in 1 .. Len(a)
    <3>1. j \in 1 .. Len(b) - 1
      BY <1>4 DEF Lines
    <3>2. i \in 1 .. Len(a) - 1
      BY <1>2
    <3>3. QED
      BY <1>1, <1>4, <3>1, <3>2
  <2>2. b[j] = a[j] /\ b[j + 1] = a[j + 1]
    BY <1>1, <2>1
  <2>3. QED
    BY <1>4, <2>1, <2>2 DEF Lines
<1>5. /\ S \in SUBSET Int /\ T \in SUBSET Int /\ IsFiniteSet(S) /\ IsFiniteSet(T)
      /\ m = Cardinality(S) /\ n = Cardinality(T) /\ m \in Nat /\ n \in Nat
      /\ RecordsIn(a) \in Seq(Nat) /\ RecordsIn(b) \in Seq(Nat)
  BY RecordsAre
<1> HIDE DEF S, T
<1>6. m <= n
  BY <1>3, <1>5, FS_Subset
<1>7. ASSUME NEW k \in 1 .. m
      PROVE  RecordsIn(b)[k] = RecordsIn(a)[k]
  <2> DEFINE i == Nth(S, k)
  <2>1. i \in S /\ Cardinality(UpTo(S, i)) = k
    BY <1>5, <1>7, NthIs
  <2> HIDE DEF i
  <2>2. UpTo(T, i) = UpTo(S, i)
    BY <1>3, <1>4, <2>1 DEF UpTo
  <2>3. i \in T /\ Cardinality(UpTo(T, i)) = k
    BY <1>3, <2>1, <2>2
  <2>4. i = Nth(T, k)
    BY <1>5, <2>3, NthIs
  <2>5. k \in 1 .. n
    BY <1>5, <1>6, <1>7
  <2>6. RecordsIn(a)[k] = RecOf(a[i]) /\ RecordsIn(b)[k] = RecOf(b[i])
    BY <1>7, <2>4, <2>5, RecordsAre DEF i, S, T
  <2>7. b[i] = a[i]
    BY <1>1, <1>2, <2>1 DEF S
  <2>8. QED
    BY <2>6, <2>7
<1> HIDE DEF m, n
<1>8. RecordsIn(a) = SubSeq(RecordsIn(b), 1, m)
  <2> DEFINE s == SubSeq(RecordsIn(b), 1, m)
             r == RecordsIn(a)
             t == RecordsIn(b)
  <2>1. \A k \in 1 .. m : t[k] \in Nat
    <3>1. \A k \in 1 .. m : k \in 1 .. Len(t)
      BY <1>5, <1>6 DEF n
    <3>2. QED
      BY <1>5, <3>1, ElementOfSeq
  <2>2. s \in Seq(Nat) /\ Len(s) = m /\ \A k \in 1 .. m : s[k] = t[k]
    <3>1. /\ s \in Seq(Nat) /\ Len(s) = IF 1 <= m THEN m - 1 + 1 ELSE 0
          /\ \A k \in 1 .. m - 1 + 1 : s[k] = t[1 + k - 1]
      BY <1>5, <2>1, SubSeqProperties
    <3>2. m - 1 + 1 = m /\ (m # 0 <=> 1 <= m) /\ \A k \in 1 .. m : 1 + k - 1 = k
      BY <1>5
    <3>3. QED
      BY <3>1, <3>2
  <2>3. Len(r) = m /\ r \in Seq(Nat)
    BY <1>5 DEF m
  <2> HIDE DEF s, r, t
  <2>4. \A k \in 1 .. Len(r) : r[k] = s[k]
    BY <1>7, <2>2, <2>3 DEF r, t
  <2>5. r = s
    BY <2>2, <2>3, <2>4, SeqEqual
  <2>6. QED
    BY <2>5 DEF r, s
<1>9. QED
  BY <1>6, <1>7, <1>8 DEF m, n

(* A line more is a record more, whatever the file ends in. *)
LEMMA RecordAdded ==
    ASSUME NEW s \in Seq(Half), NEW r \in Nat, r >= 1
    PROVE  RecordsIn(s \o Line(r)) = Append(RecordsIn(s), r)
<1> DEFINE t == s \o Line(r)
           n == Len(s)
           S == Lines(s)
           T == Lines(t)
<1>1. /\ n \in Nat /\ t \in Seq(Half) /\ Len(t) = n + 2 /\ Extends(s, t)
      /\ \A i \in 1 .. n : t[i] = s[i] /\ s[i] \in Half
      /\ t[n + 1] = 2 * r /\ t[n + 2] = 2 * r + 1
  <2>1. /\ Line(r) \in Seq(Half) /\ Len(Line(r)) = 2 /\ Line(r)[1] = 2 * r /\ Line(r)[2] = 2 * r + 1
        /\ n \in Nat /\ \A i \in 1 .. n : s[i] \in Half
    <3>1. Line(r) \in Seq(Half)
      BY LineIsSeq
    <3>2. Len(Line(r)) = 2 /\ Line(r)[1] = 2 * r /\ Line(r)[2] = 2 * r + 1
      BY DEF Line
    <3>3. QED
      BY <3>1, <3>2, LenProperties, ElementOfSeq
  <2>2. t \in Seq(Half) /\ Extends(s, t)
    BY <2>1, ExtendsConcat
  <2>3. Len(t) = n + 2 /\ \A i \in 1 .. n + 2 : t[i] = IF i <= n THEN s[i] ELSE Line(r)[i - n]
    <3> DEFINE a == Line(r)
    <3>1. a \in Seq(Half) /\ Len(a) = 2
      BY <2>1
    <3> HIDE DEF a
    <3>2. /\ Len(s \o a) = Len(s) + Len(a)
          /\ \A i \in 1 .. Len(s) + Len(a) : (s \o a)[i] = IF i <= Len(s) THEN s[i] ELSE a[i - Len(s)]
      BY <3>1, ConcatProperties
    <3>3. QED
      BY <3>1, <3>2 DEF a
  <2> HIDE DEF t, n
  <2>4. t[n + 1] = 2 * r /\ t[n + 2] = 2 * r + 1
    <3>1. n + 1 \in 1 .. n + 2 /\ n + 2 \in 1 .. n + 2 /\ ~(n + 1 <= n) /\ ~(n + 2 <= n)
          /\ (n + 1) - n = 1 /\ (n + 2) - n = 2
      BY <2>1
    <3>2. QED
      BY <2>1, <2>3, <3>1
  <2>5. \A i \in 1 .. n : i \in 1 .. n + 2 /\ i <= n
    BY <2>1
  <2>6. QED
    BY <2>1, <2>2, <2>3, <2>4, <2>5
<1> HIDE DEF t, n
<1>2. IsHead(2 * r) /\ RecOf(2 * r) = r /\ 2 * r # 2 * Header
  <2>1. IsHead(2 * r) /\ RecOf(2 * r) = r
    BY HalfIs
  <2>2. 2 * r # 2 * Header
    BY DEF Header
  <2>3. QED
    BY <2>1, <2>2
<1>3. n + 1 \in T /\ n + 1 \notin S /\ \A i \in T : i <= n + 1
  <2>1. n + 1 \in 1 .. Len(t) - 1 /\ n + 1 \notin 1 .. n - 1 /\ (n + 1) + 1 = n + 2
    BY <1>1
  <2>2. \A i \in 1 .. Len(t) - 1 : i <= n + 1
    BY <1>1
  <2>3. QED
    BY <1>1, <1>2, <2>1, <2>2 DEF Lines, n
<1>4. T = S \cup {n + 1}
  <2>1. ASSUME NEW i \in T, i # n + 1 PROVE i \in S
    <3>1. i \in 1 .. n + 1 /\ IsHead(t[i]) /\ t[i] # 2 * Header /\ t[i + 1] = t[i] + 1
      <4>1. i \in 1 .. Len(t) - 1 /\ IsHead(t[i]) /\ t[i] # 2 * Header /\ t[i + 1] = t[i] + 1
        BY <2>1 DEF Lines
      <4>2. Len(t) - 1 = n + 1
        BY <1>1
      <4>3. QED
        BY <4>1, <4>2
    <3>2. i \in 1 .. n /\ t[i] = s[i] /\ s[i] \in Half
      BY <1>1, <2>1, <3>1
    <3>3. i # n
      <4>1. SUFFICES ASSUME i = n PROVE FALSE
        OBVIOUS
      <4>2. s[i] + 1 = 2 * r
        BY <1>1, <3>1, <3>2, <4>1
      <4>3. s[i] = 2 * RecOf(s[i]) /\ RecOf(s[i]) \in Nat
        BY <3>1, <3>2, HalfIs
      <4>4. \A x, y \in Nat : 2 * x + 1 # 2 * y
        OBVIOUS
      <4>5. QED
        BY <4>2, <4>3, <4>4
    <3>4. i \in 1 .. n - 1 /\ i + 1 \in 1 .. n /\ t[i + 1] = s[i + 1]
      BY <1>1, <3>2, <3>3
    <3>5. QED
      BY <3>1, <3>2, <3>4 DEF Lines, n
  <2>2. ASSUME NEW i \in S PROVE i \in T
    <3>1. i \in 1 .. n - 1 /\ IsHead(s[i]) /\ s[i] # 2 * Header /\ s[i + 1] = s[i] + 1
      BY <2>2 DEF Lines, n
    <3>2. i \in 1 .. n /\ i + 1 \in 1 .. n /\ i \in 1 .. Len(t) - 1
      BY <1>1, <3>1
    <3>3. t[i] = s[i] /\ t[i + 1] = s[i + 1]
      BY <1>1, <3>2
    <3>4. QED
      BY <3>1, <3>2, <3>3 DEF Lines
  <2>3. QED
    BY <1>3, <2>1, <2>2
<1>5. /\ RecordsIn(s) \in Seq(Nat) /\ RecordsIn(t) \in Seq(Nat) /\ S \in SUBSET Int /\ T \in SUBSET Int
      /\ IsFiniteSet(S) /\ IsFiniteSet(T) /\ Cardinality(S) \in Nat
      /\ Len(RecordsIn(s)) = Cardinality(S) /\ Len(RecordsIn(t)) = Cardinality(T)
  BY <1>1, RecordsAre
<1> HIDE DEF S, T
<1>6. Cardinality(T) = Cardinality(S) + 1
  BY <1>3, <1>4, <1>5, FS_AddElement
<1> DEFINE c == Cardinality(S) + 1
           a == RecordsIn(t)
           b == Append(RecordsIn(s), r)
<1>7. a[c] = r
  <2>1. UpTo(T, n + 1) = T
    BY <1>3 DEF UpTo
  <2>2. n + 1 = Nth(T, c)
    BY <1>3, <1>5, <1>6, <2>1, NthIs
  <2>3. c \in 1 .. Len(RecordsIn(t))
    BY <1>5, <1>6
  <2>4. RecordsIn(t)[c] = RecOf(t[n + 1])
    BY <1>1, <2>2, <2>3, RecordsAre DEF T
  <2>5. QED
    BY <1>1, <1>2, <2>4
<1>8. \A k \in 1 .. Cardinality(S) : a[k] = RecordsIn(s)[k]
  BY <1>1, <1>5, RecordsOfPart
<1>9. /\ b \in Seq(Nat) /\ Len(b) = c /\ b[c] = r
      /\ \A k \in 1 .. Cardinality(S) : b[k] = RecordsIn(s)[k]
  BY <1>5, AppendProperties
<1>10. Len(a) = c /\ a \in Seq(Nat) /\ \A k \in 1 .. c : k = c \/ k \in 1 .. Cardinality(S)
  BY <1>5, <1>6
<1> HIDE DEF a, b, c
<1>11. a = b
  <2>1. \A k \in 1 .. Len(a) : a[k] = b[k]
    BY <1>7, <1>8, <1>9, <1>10
  <2>2. QED
    BY <1>9, <1>10, <2>1, SeqEqual
<1>12. QED
  BY <1>11 DEF a, b, t
=============================================================================
