------------------------------ MODULE DayStore ------------------------------
(***************************************************************************)
(* The netcheck day store (internal/netcheck/store.go): one file of JSON   *)
(* lines per UTC day, written through a bufio.Writer under one mutex.      *)
(*                                                                         *)
(* A line is modelled by its two halves, because the buffer empties itself *)
(* wherever it happens to be full, in the middle of a line too.  Half      *)
(* numbers 2r and 2r+1 are the line of record r; record 0 is the header    *)
(* every new file starts with.                                             *)
(*                                                                         *)
(* Every operation of the store runs under its mutex, so it is one atomic  *)
(* step: a function from the store before to the store after.  The only    *)
(* thing another process changes underneath is the file's name, in         *)
(* Renamed, which takes no lock.                                           *)
(***************************************************************************)
EXTENDS Integers, Sequences, FiniteSets

CONSTANTS
    MaxDay,   \* the last UTC day modelled
    MaxRec,   \* bound on the records written
    BufCap    \* the buffer's size in half lines (bufio's 4096 bytes)

(* The header and any record fit in an empty buffer. *)
ASSUME BufCapAssumption == BufCap \in Nat /\ BufCap >= 2
ASSUME MaxDayAssumption == MaxDay \in Nat
ASSUME MaxRecAssumption == MaxRec \in Nat

Day     == 1 .. MaxDay
NoDay   == 0               \* store.day = ""
Header  == 0
Rec     == 1 .. MaxRec
Half    == Nat
Line(r) == <<2 * r, 2 * r + 1>>

(***************************************************************************)
(* room is what the disk still takes, in half lines: Plenty while it is    *)
(* not filling up, since no write is longer than the buffer.               *)
(***************************************************************************)
Plenty == BufCap
Room   == 0 .. Plenty

VARIABLES
    disk,  \* the directory: json and sent files by day, which exist, room
    h      \* the store's handle: day, file, buffer, the buffer's sticky error

storeVars == <<disk, h>>

NoHandle == [day |-> NoDay, file |-> "none", buf |-> << >>, err |-> FALSE]

DiskType == [json: [Day -> Seq(Half)], jsonAt: SUBSET Day,
             sent: [Day -> Seq(Half)], sentAt: SUBSET Day, room: Room]

(* file says under which name the open file is now known. *)
HandleType == [day: Day \cup {NoDay}, file: {"none", "json", "sent"},
               buf: Seq(Half), err: BOOLEAN]

(* What an operation works on and returns: ok is "the error is nil". *)
StoreType == [disk: DiskType, h: HandleType, ok: BOOLEAN]

StoreTypeOK == disk \in DiskType /\ h \in HandleType

StoreInit ==
    /\ disk = [json |-> [d \in Day |-> << >>], jsonAt |-> {},
               sent |-> [d \in Day |-> << >>], sentAt |-> {}, room |-> Plenty]
    /\ h = NoHandle

Now == [disk |-> disk, h |-> h, ok |-> TRUE]

Becomes(x) == disk' = x.disk /\ h' = x.h

------------------------------------------------------------------------------
(* The operations on the store, each a function of the store's state.      *)

(* How many of n half lines the disk takes. *)
Taken(x, n) == IF n <= x.disk.room THEN n ELSE x.disk.room

(***************************************************************************)
(* The file system appends the first k of the halves to the open file,     *)
(* under whichever name it now has.                                        *)
(***************************************************************************)
OsAppend(k, x, halves) ==
    LET part == SubSeq(halves, 1, k)
        left == IF x.disk.room = Plenty THEN Plenty ELSE x.disk.room - k
    IN  IF x.h.file = "json"
        THEN [x.disk EXCEPT !.json[x.h.day] = @ \o part, !.room = left]
        ELSE [x.disk EXCEPT !.sent[x.h.day] = @ \o part, !.room = left]

(* Mutant: a short write is not taken out of the buffer. *)
BufFlushKeepsAll(x) ==
    LET n == Len(x.h.buf)
        k == Taken(x, n)
    IN  [disk |-> OsAppend(k, x, x.h.buf),
         h    |-> [x.h EXCEPT !.buf = IF k < n THEN @ ELSE << >>],
         ok   |-> k = n]

(***************************************************************************)
(* bufio.Writer.Flush: a short write keeps the rest in the buffer and the  *)
(* error for ever; with an error it does nothing more.                     *)
(***************************************************************************)
BufFlush(x) ==
    LET n == Len(x.h.buf)
        k == Taken(x, n)
    IN  IF x.h.err
        THEN [x EXCEPT !.ok = FALSE]
        ELSE [disk |-> OsAppend(k, x, x.h.buf),
              h    |-> [x.h EXCEPT !.buf = SubSeq(x.h.buf, k + 1, n), !.err = k < n],
              ok   |-> k = n]

(***************************************************************************)
(* bufio.Writer.Write of a line no longer than the buffer: what does not   *)
(* fit fills the buffer, which is flushed, and the rest is buffered.       *)
(***************************************************************************)
BufWrite(x, line) ==
    LET all    == x.h.buf \o line
        full   == [x EXCEPT !.h.buf = SubSeq(all, 1, BufCap)]
        after  == BufFlush(full)
    IN  IF x.h.err
        THEN [x EXCEPT !.ok = FALSE]
        ELSE IF Len(all) <= BufCap
        THEN [x EXCEPT !.h.buf = all]
        ELSE IF after.ok
        THEN [after EXCEPT !.h.buf = SubSeq(all, BufCap + 1, Len(all))]
        ELSE after

(* Mutant: the file is closed without flushing its buffer. *)
CloseUnflushed(x) == [x EXCEPT !.h = NoHandle]

(* store.closeLocked: the handle is dropped whatever the flush returns. *)
CloseLocked(x) ==
    IF x.h.file = "none"
    THEN x
    ELSE [BufFlush(x) EXCEPT !.h = NoHandle]

(* Mutants: a header at every opening; only in a file this opening creates; *)
(* the file truncated instead of appended to.                               *)
OpenedWithHeader(x, d) ==
    BufWrite([x EXCEPT !.disk.jsonAt = @ \cup {d},
                       !.h = [NoHandle EXCEPT !.day = d, !.file = "json"]], Line(Header))

OpenedNewOnly(x, d) ==
    LET opened == [x EXCEPT !.disk.jsonAt = @ \cup {d},
                            !.h = [NoHandle EXCEPT !.day = d, !.file = "json"]]
    IN  IF d \notin x.disk.jsonAt THEN BufWrite(opened, Line(Header)) ELSE opened

OpenedTruncated(x, d) ==
    BufWrite([x EXCEPT !.disk.jsonAt = @ \cup {d}, !.disk.json[d] = << >>,
                       !.h = [NoHandle EXCEPT !.day = d, !.file = "json"]], Line(Header))

(***************************************************************************)
(* The file of day d opened for appending: created when it is not there,   *)
(* and given the header when it is empty.                                  *)
(***************************************************************************)
OpenedFile(x, d) ==
    LET opened == [x EXCEPT !.disk.jsonAt = @ \cup {d},
                            !.h = [NoHandle EXCEPT !.day = d, !.file = "json"]]
    IN  IF x.disk.json[d] = << >>
        THEN BufWrite(opened, Line(Header))
        ELSE opened

(***************************************************************************)
(* store.open: makes day d the current file.  osOK is whether MkdirAll and *)
(* OpenFile succeed.  A failed close returns before the open.              *)
(***************************************************************************)
Open(x, d, osOK) ==
    LET closed == CloseLocked(x)
    IN  IF x.h.file # "none" /\ x.h.day = d
        THEN x
        ELSE IF ~closed.ok
        THEN closed
        ELSE IF ~osOK
        THEN [closed EXCEPT !.ok = FALSE]
        ELSE OpenedFile(closed, d)

(* store.write of record r stamped on day d. *)
Write(x, d, r, osOK) ==
    LET opened == Open(x, d, osOK)
    IN  IF opened.ok THEN BufWrite(opened, Line(r)) ELSE opened

(* Mutant: only the change of day writes the buffer out. *)
FlushPastOnly(x, today) ==
    IF x.h.file # "none" /\ x.h.day < today THEN CloseLocked(x) ELSE x

(* store.flush, called with a time on day today. *)
Flush(x, today) ==
    IF x.h.file = "none"
    THEN x
    ELSE IF x.h.day < today
    THEN CloseLocked(x)
    ELSE BufFlush(x)

(* store.finished closes a past day that is still open, then lists. *)
ClosePast(x, today) ==
    IF x.h.file # "none" /\ x.h.day < today THEN CloseLocked(x) ELSE x

(* Mutants: today's file is listed too; only yesterday's is. *)
FinishedOrToday(x, today)  == {d \in x.disk.jsonAt : d <= today}
FinishedYesterday(x, today) == {d \in x.disk.jsonAt : d = today - 1}

FinishedDays(x, today) == {d \in x.disk.jsonAt : d < today}

(***************************************************************************)
(* os.Rename of a day's file to .sent, over an earlier one.  A handle on   *)
(* that file follows it; so does what is written through it later.         *)
(***************************************************************************)
Renamed(x, d) ==
    [disk |-> [x.disk EXCEPT !.sent[d] = x.disk.json[d], !.sentAt = @ \cup {d},
                             !.json[d] = << >>, !.jsonAt = @ \ {d}],
     h    |-> [x.h EXCEPT !.file = IF x.h.day = d /\ @ = "json" THEN "sent" ELSE @],
     ok   |-> x.ok]

(* The process dies: the buffer is lost, what reached the files is not. *)
Killed(x) == [x EXCEPT !.h = NoHandle]

------------------------------------------------------------------------------
(* Reading the files back.                                                 *)

(* b begins with all of a. *)
Extends(a, b) ==
    /\ Len(a) <= Len(b)
    /\ \A i \in 1 .. Len(a) : b[i] = a[i]

IsHead(half) == half % 2 = 0
RecOf(half)  == half \div 2

(* The halves pair up into whole lines, one after the other. *)
WholeLines(s) ==
    /\ Len(s) % 2 = 0
    /\ \A i \in 1 .. Len(s) : i % 2 = 1 => IsHead(s[i]) /\ s[i + 1] = s[i] + 1

(***************************************************************************)
(* Where the whole lines of records begin, and the records in this order.  *)
(* What a crash has left of a line is none, nor is a header.               *)
(***************************************************************************)
Lines(s)   == {i \in 1 .. Len(s) - 1 : IsHead(s[i]) /\ s[i] # 2 * Header /\ s[i + 1] = s[i] + 1}
UpTo(S, i) == {j \in S : j <= i}
Nth(S, k)  == CHOOSE i \in S : Cardinality(UpTo(S, i)) = k

RecordsIn(s) ==
    LET lines == Lines(s)
    IN  [k \in 1 .. Cardinality(lines) |-> RecOf(s[Nth(lines, k)])]

(* The file of day d, with what its open handle will still add to it. *)
Pending(x, d, file) == IF x.h.file = file /\ x.h.day = d /\ ~x.h.err THEN x.h.buf ELSE << >>
JsonOf(x, d) == x.disk.json[d] \o Pending(x, d, "json")
SentOf(x, d) == x.disk.sent[d] \o Pending(x, d, "sent")
=============================================================================
