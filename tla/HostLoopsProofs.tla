--------------------------- MODULE HostLoopsProofs ---------------------------
(***************************************************************************)
(* For any targets, modes and interleaving of the loops, the resolver and  *)
(* the minute flush: every mode of a measured target has its bucket, which *)
(* flush needs not to dereference nil; what the resolver runs is what is   *)
(* measured; and no sample is lost or counted twice.  Every connection     *)
(* that ended has its event, one bad certificate is announced once, and a  *)
(* gap survived is the present connection's.                               *)
(***************************************************************************)
EXTENDS HostLoops, SequenceTheorems, FiniteSetTheorems, TLAPS

-----------------------------------------------------------------------------
(***************************************************************************)
(* What the sections under agg.mu do to the buckets: each keeps the agg    *)
(* well typed, a call changes at most the bucket of its target and mode,   *)
(* and only one that is there, and counts its sample or none.              *)
(***************************************************************************)
(* A bucket is never Nil. *)
LEMMA BucketIsNotNil == \A b \in Bucket : b # Nil
<1>1. DOMAIN Nil = {"none"}
  BY DEF Nil
<1>2. \A b \in Bucket : "samples" \in DOMAIN b
  BY DEF Bucket
<1>3. QED
  BY <1>1, <1>2

(* A new bucket is a bucket without samples. *)
LEMMA NewBucketTyped == NewBucket \in Bucket /\ NewBucket.samples = 0
  BY DEF NewBucket, Bucket

(* What a call at key k may do to agg a, counting n samples. *)
Touches(a, b, k, n) ==
    /\ b \in AggType
    /\ b.targets = a.targets /\ b.modes = a.modes /\ b.removed = a.removed
    /\ \A j \in Key : a.bucket[j] = Nil <=> b.bucket[j] = Nil
    /\ \A j \in Key : (a.bucket[j] # Nil /\ j # k) => b.bucket[j].samples = a.bucket[j].samples
    /\ a.bucket[k] # Nil => b.bucket[k].samples = a.bucket[k].samples + n

(* agg.with, of a change that counts n samples. *)
LEMMA WithSound ==
    ASSUME NEW a \in AggType, NEW t \in Target, NEW mode \in Mode, NEW n \in Nat, NEW b,
           Collects(a, t, mode) => b \in Bucket /\ b.samples = a.bucket[<<t, mode>>].samples + n
    PROVE  Touches(a, With(a, t, mode, b), <<t, mode>>, n)
<1>1. <<t, mode>> \in Key
  BY DEF Key
<1>2. CASE ~Collects(a, t, mode)
  BY <1>1, <1>2 DEF With, Collects, Touches
<1>3. CASE Collects(a, t, mode)
  <2>1. b # Nil /\ a.bucket[<<t, mode>>] # Nil
    BY <1>3, BucketIsNotNil DEF Collects
  <2>2. With(a, t, mode, b) = [a EXCEPT !.bucket = [@ EXCEPT ![<<t, mode>>] = b]]
    BY <1>3 DEF With, AggType
  <2>3. QED
    BY <1>1, <1>3, <2>1, <2>2 DEF AggType, Touches
<1>4. QED
  BY <1>2, <1>3

(* A section that leaves the buckets alone, or does nothing. *)
LEMMA NothingTouched ==
    ASSUME NEW a \in AggType, NEW b \in AggType, NEW k \in Key,
           b.bucket = a.bucket, b.targets = a.targets, b.modes = a.modes, b.removed = a.removed
    PROVE  Touches(a, b, k, 0)
<1>1. \A j \in Key : a.bucket[j] # Nil => a.bucket[j].samples \in Nat
  BY DEF AggType, Bucket
<1>2. QED
  BY <1>1 DEF Touches

(* A bucket that is there. *)
LEMMA CollectedIsBucket ==
    ASSUME NEW a \in AggType, NEW t \in Target, NEW mode \in Mode, Collects(a, t, mode)
    PROVE  a.bucket[<<t, mode>>] \in Bucket
  BY DEF Collects, AggType, Key

-----------------------------------------------------------------------------
(* The changed bucket of each section is a bucket.                         *)

(* One count of a map goes up. *)
LEMMA CountsOneMore ==
    ASSUME NEW S, NEW f \in [S -> Nat], NEW c
    PROVE  [f EXCEPT ![c] = @ + 1] \in [S -> Nat]
<1>1. CASE c \in S
  BY <1>1
<1>2. CASE c \notin S
  BY <1>2
<1>3. QED
  BY <1>1, <1>2

(* A failure more, and n samples. *)
LEMMA FailedIsBucket ==
    ASSUME NEW b \in Bucket, NEW c, NEW n \in Nat
    PROVE  LET d == [b EXCEPT !.failures[c] = @ + 1, !.samples = @ + n]
           IN  d \in Bucket /\ d.samples = b.samples + n
<1> DEFINE f == [b.failures EXCEPT ![c] = @ + 1]
           e == [b EXCEPT !.failures = f]
<1>1. f \in [Class -> Nat]
  BY CountsOneMore DEF Bucket
<1>2. [b EXCEPT !.failures[c] = @ + 1, !.samples = @ + n] = [b EXCEPT !.failures = f, !.samples = @ + n]
  OBVIOUS
<1> HIDE DEF f
<1>3. e \in Bucket /\ e.samples = b.samples
  BY <1>1 DEF Bucket
<1>4. [b EXCEPT !.failures = f, !.samples = @ + n] = [e EXCEPT !.samples = @ + n]
  BY DEF Bucket
<1> HIDE DEF e
<1>5. [e EXCEPT !.samples = @ + n] \in Bucket /\ [e EXCEPT !.samples = @ + n].samples = b.samples + n
  BY <1>3 DEF Bucket
<1>6. QED
  BY <1>2, <1>4, <1>5

(* An interception more, with its certificate. *)
LEMMA InterceptedIsBucket ==
    ASSUME NEW b \in Bucket, NEW c, NEW fp \in Fingerprint \cup {NoPrint}
    PROVE  LET d == [b EXCEPT !.failures[c] = @ + 1, !.cert = fp]
           IN  d \in Bucket /\ d.samples = b.samples + 0
<1> DEFINE f == [b.failures EXCEPT ![c] = @ + 1]
           e == [b EXCEPT !.failures = f]
<1>1. f \in [Class -> Nat]
  BY CountsOneMore DEF Bucket
<1>2. [b EXCEPT !.failures[c] = @ + 1, !.cert = fp] = [b EXCEPT !.failures = f, !.cert = fp]
  OBVIOUS
<1> HIDE DEF f
<1>3. e \in Bucket /\ e.samples = b.samples
  BY <1>1 DEF Bucket
<1>4. [b EXCEPT !.failures = f, !.cert = fp] = [e EXCEPT !.cert = fp]
  BY DEF Bucket
<1> HIDE DEF e
<1>5. [e EXCEPT !.cert = fp] \in Bucket /\ [e EXCEPT !.cert = fp].samples = b.samples + 0
  BY <1>3 DEF Bucket
<1>6. QED
  BY <1>2, <1>4, <1>5

(* A sample more, and n losses. *)
LEMMA SampledIsBucket ==
    ASSUME NEW b \in Bucket, NEW n \in Nat
    PROVE  LET d == [b EXCEPT !.samples = @ + 1, !.losses = @ + n]
           IN  d \in Bucket /\ d.samples = b.samples + 1
<1> DEFINE e == [b EXCEPT !.losses = @ + n]
<1>1. e \in Bucket /\ e.samples = b.samples
  BY DEF Bucket
<1>2. [b EXCEPT !.samples = @ + 1, !.losses = @ + n] = [e EXCEPT !.samples = @ + 1]
  BY DEF Bucket
<1> HIDE DEF e
<1>3. [e EXCEPT !.samples = @ + 1] \in Bucket /\ [e EXCEPT !.samples = @ + 1].samples = b.samples + 1
  BY <1>1 DEF Bucket
<1>4. QED
  BY <1>2, <1>3

(* One connection of an SNI variant more, and n failures. *)
LEMMA SniIsBucket ==
    ASSUME NEW b \in Bucket, NEW v, NEW n \in Nat
    PROVE  LET d == [b EXCEPT !.sni[v].samples = @ + 1, !.sni[v].failures = @ + n]
           IN  d \in Bucket /\ d.samples = b.samples + 0
<1> DEFINE s == [b.sni EXCEPT ![v].samples = @ + 1, ![v].failures = @ + n]
<1>1. s \in [Variant -> [samples: Nat, failures: Nat]]
  <2>1. CASE v \in Variant
    BY <2>1 DEF Bucket
  <2>2. CASE v \notin Variant
    BY <2>2 DEF Bucket
  <2>3. QED
    BY <2>1, <2>2
<1>2. [b EXCEPT !.sni[v].samples = @ + 1, !.sni[v].failures = @ + n] = [b EXCEPT !.sni = s]
  OBVIOUS
<1> HIDE DEF s
<1>3. QED
  BY <1>1, <1>2 DEF Bucket

-----------------------------------------------------------------------------
(* What each section touches.                                              *)

(* agg.fail: a failed connect, which is a sample of the short and compare modes. *)
LEMMA FailSound ==
    ASSUME NEW a \in AggType, NEW t \in Target, NEW mode \in Mode, NEW class
    PROVE  Touches(a, Fail(a, t, mode, class), <<t, mode>>, IF mode \in {"short", "compare"} THEN 1 ELSE 0)
<1> DEFINE b == a.bucket[<<t, mode>>]
           d == [b EXCEPT !.failures[class] = @ + 1,
                            !.samples = @ + (IF mode \in {"short", "compare"} THEN 1 ELSE 0)]
<1>1. Collects(a, t, mode) => b \in Bucket
  BY CollectedIsBucket
<1>2. (IF mode \in {"short", "compare"} THEN 1 ELSE 0) \in Nat
  OBVIOUS
<1> HIDE DEF b
<1>3. Collects(a, t, mode) => d \in Bucket /\ d.samples = b.samples + (IF mode \in {"short", "compare"} THEN 1 ELSE 0)
  BY <1>1, <1>2, FailedIsBucket
<1>4. Fail(a, t, mode, class) = With(a, t, mode, d)
  BY DEF Fail, b
<1> HIDE DEF d
<1>5. QED
  BY <1>3, <1>4, WithSound DEF b

(* agg.intercepted: an interception. *)
LEMMA InterceptedSound ==
    ASSUME NEW a \in AggType, NEW t \in Target, NEW mode \in Mode, NEW fp \in Fingerprint \cup {NoPrint}
    PROVE  Touches(a, Intercepted(a, t, mode, fp), <<t, mode>>, 0)
<1> DEFINE b == a.bucket[<<t, mode>>]
           d == [b EXCEPT !.failures["intercepted"] = @ + 1, !.cert = fp]
<1>1. Collects(a, t, mode) => b \in Bucket
  BY CollectedIsBucket
<1> HIDE DEF b
<1>3. Collects(a, t, mode) => d \in Bucket /\ d.samples = b.samples + 0
  BY <1>1, InterceptedIsBucket
<1>4. Intercepted(a, t, mode, fp) = With(a, t, mode, d)
  BY DEF Intercepted, b
<1> HIDE DEF d
<1>5. QED
  BY <1>3, <1>4, WithSound DEF b

(* agg.sni: an SNI variant's outcome. *)
LEMMA SniSound ==
    ASSUME NEW a \in AggType, NEW t \in Target, NEW v, NEW bad \in BOOLEAN
    PROVE  Touches(a, Sni(a, t, v, bad), <<t, "short">>, 0)
<1> DEFINE b == a.bucket[<<t, "short">>]
           d == [b EXCEPT !.sni[v].samples = @ + 1,
                            !.sni[v].failures = @ + (IF bad THEN 1 ELSE 0)]
<1>0. "short" \in Mode
  BY DEF Mode
<1>1. Collects(a, t, "short") => b \in Bucket
  BY <1>0, CollectedIsBucket
<1>2. (IF bad THEN 1 ELSE 0) \in Nat
  OBVIOUS
<1> HIDE DEF b
<1>3. Collects(a, t, "short") => d \in Bucket /\ d.samples = b.samples + 0
  BY <1>1, <1>2, SniIsBucket
<1>4. Sni(a, t, v, bad) = With(a, t, "short", d)
  BY DEF Sni, b
<1> HIDE DEF d
<1>5. QED
  BY <1>0, <1>3, <1>4, WithSound DEF b

(* agg.reset: a reset. *)
LEMMA ResetSound ==
    ASSUME NEW a \in AggType, NEW t \in Target, NEW mode \in Mode
    PROVE  Touches(a, Reset(a, t, mode), <<t, mode>>, 0)
<1> DEFINE b == a.bucket[<<t, mode>>]
           d == [b EXCEPT !.resets = @ + 1]
<1>1. Collects(a, t, mode) => b \in Bucket
  BY CollectedIsBucket
<1> HIDE DEF b
<1>3. Collects(a, t, mode) => d \in Bucket /\ d.samples = b.samples + 0
  BY <1>1 DEF Bucket
<1>4. Reset(a, t, mode) = With(a, t, mode, d)
  BY DEF Reset, b
<1> HIDE DEF d
<1>5. QED
  BY <1>3, <1>4, WithSound DEF b

(* agg.connected: a connect. *)
LEMMA ConnectedSound ==
    ASSUME NEW a \in AggType, NEW t \in Target, NEW mode \in Mode, NEW lost \in Nat
    PROVE  Touches(a, Connected(a, t, mode, lost), <<t, mode>>, 1)
<1> DEFINE b == a.bucket[<<t, mode>>]
           d == [b EXCEPT !.samples = @ + 1, !.losses = @ + lost]
<1>1. Collects(a, t, mode) => b \in Bucket
  BY CollectedIsBucket
<1> HIDE DEF b
<1>3. Collects(a, t, mode) => d \in Bucket /\ d.samples = b.samples + 1
  BY <1>1, SampledIsBucket
<1>4. Connected(a, t, mode, lost) = With(a, t, mode, d)
  BY DEF Connected, b
<1> HIDE DEF d
<1>5. QED
  BY <1>3, <1>4, WithSound DEF b

(* agg.ping: an answered PING. *)
LEMMA PingSound ==
    ASSUME NEW a \in AggType, NEW t \in Target, NEW mode \in Mode
    PROVE  Touches(a, Ping(a, t, mode), <<t, mode>>, 1)
<1> DEFINE b == a.bucket[<<t, mode>>]
           d == [b EXCEPT !.samples = @ + 1]
<1>1. Collects(a, t, mode) => b \in Bucket
  BY CollectedIsBucket
<1> HIDE DEF b
<1>3. Collects(a, t, mode) => d \in Bucket /\ d.samples = b.samples + 1
  BY <1>1 DEF Bucket
<1>4. Ping(a, t, mode) = With(a, t, mode, d)
  BY DEF Ping, b
<1> HIDE DEF d
<1>5. QED
  BY <1>3, <1>4, WithSound DEF b

(* agg.lostPing: an unanswered PING. *)
LEMMA LostPingSound ==
    ASSUME NEW a \in AggType, NEW t \in Target, NEW mode \in Mode
    PROVE  Touches(a, LostPing(a, t, mode), <<t, mode>>, 1)
<1> DEFINE b == a.bucket[<<t, mode>>]
           d == [b EXCEPT !.samples = @ + 1, !.losses = @ + 1]
<1>1. Collects(a, t, mode) => b \in Bucket
  BY CollectedIsBucket
<1> HIDE DEF b
<1>3. Collects(a, t, mode) => d \in Bucket /\ d.samples = b.samples + 1
  BY <1>1, SampledIsBucket
<1>4. LostPing(a, t, mode) = With(a, t, mode, d)
  BY DEF LostPing, b
<1> HIDE DEF d
<1>5. QED
  BY <1>3, <1>4, WithSound DEF b

(* agg.drop: a drop. *)
LEMMA DropSound ==
    ASSUME NEW a \in AggType, NEW t \in Target, NEW mode \in Mode
    PROVE  Touches(a, Drop(a, t, mode), <<t, mode>>, 0)
<1> DEFINE b == a.bucket[<<t, mode>>]
           d == [b EXCEPT !.drops = @ + 1]
<1>1. Collects(a, t, mode) => b \in Bucket
  BY CollectedIsBucket
<1> HIDE DEF b
<1>3. Collects(a, t, mode) => d \in Bucket /\ d.samples = b.samples + 0
  BY <1>1 DEF Bucket
<1>4. Drop(a, t, mode) = With(a, t, mode, d)
  BY DEF Drop, b
<1> HIDE DEF d
<1>5. QED
  BY <1>3, <1>4, WithSound DEF b

(* agg.serverClosed: a GOAWAY. *)
LEMMA ServerClosedSound ==
    ASSUME NEW a \in AggType, NEW t \in Target, NEW mode \in Mode
    PROVE  Touches(a, ServerClosed(a, t, mode), <<t, mode>>, 0)
<1> DEFINE b == a.bucket[<<t, mode>>]
           d == [b EXCEPT !.closed = @ + 1]
<1>1. Collects(a, t, mode) => b \in Bucket
  BY CollectedIsBucket
<1> HIDE DEF b
<1>3. Collects(a, t, mode) => d \in Bucket /\ d.samples = b.samples + 0
  BY <1>1 DEF Bucket
<1>4. ServerClosed(a, t, mode) = With(a, t, mode, d)
  BY DEF ServerClosed, b
<1> HIDE DEF d
<1>5. QED
  BY <1>3, <1>4, WithSound DEF b

(* agg.idleDied: an idle connection's death. *)
LEMMA IdleDiedSound ==
    ASSUME NEW a \in AggType, NEW t \in Target, NEW gap \in Nat
    PROVE  Touches(a, IdleDied(a, t, gap), <<t, "idle">>, 0)
<1> DEFINE b == a.bucket[<<t, "idle">>]
           d == [b EXCEPT !.died = gap + 1]
<1>0. "idle" \in Mode
  BY DEF Mode
<1>1. Collects(a, t, "idle") => b \in Bucket
  BY <1>0, CollectedIsBucket
<1> HIDE DEF b
<1>3. Collects(a, t, "idle") => d \in Bucket /\ d.samples = b.samples + 0
  BY <1>1 DEF Bucket
<1>4. IdleDied(a, t, gap) = With(a, t, "idle", d)
  BY DEF IdleDied, b
<1> HIDE DEF d
<1>5. QED
  BY <1>0, <1>3, <1>4, WithSound DEF b

-----------------------------------------------------------------------------
(* The invariant of the loops.                                             *)

(* What the agg knows of a target: its modes while it is there, none later. *)
ModesKnown ==
    \A t \in Target : agg.modes[t] = IF t \in agg.targets THEN ModesOf(t) ELSE {}

(* A loop that runs, or has calls to make, is of a mode its target has. *)
LoopsAreOfAMode ==
    \A k \in Key : loop[k] = Off \/ k[2] \in ModesOf(k[1])

IInv ==
    /\ TypeOK
    /\ ModesKnown
    /\ LoopsAreOfAMode
    /\ agg.removed \subseteq agg.targets /\ agg.removed \cap Compared = {}
    /\ EveryModeHasItsBucket
    /\ RunningIsMeasured
    /\ NoSampleLost

-----------------------------------------------------------------------------
(* Calls.                                                                  *)

(* A section that counts no sample counts none of any key. *)
LEMMA TouchesAny ==
    ASSUME NEW a \in AggType, NEW b, NEW j \in Key, NEW k \in Key, Touches(a, b, j, 0)
    PROVE  Touches(a, b, k, 0)
<1>1. \A i \in Key : a.bucket[i] # Nil => a.bucket[i].samples \in Nat
  BY DEF AggType, Bucket
<1>2. QED
  BY <1>1 DEF Touches

(* The sample a call counts. *)
Counted(k, c) ==
    IF \/ c.op \in {"connected", "ping", "lostPing"}
       \/ c.op = "fail" /\ k[2] \in {"short", "compare"}
    THEN 1 ELSE 0

(* A call touches the bucket of its key at most, and counts its sample. *)
LEMMA CalledSound ==
    ASSUME NEW a \in AggType, NEW k \in Key, NEW c \in Call
    PROVE  Touches(a, Called(a, k, c), k, Counted(k, c))
<1> DEFINE t    == k[1]
           mode == k[2]
<1>1. t \in Target /\ mode \in Mode /\ k = <<t, mode>>
  BY DEF Key
<1>2. /\ c.op \in {"fail", "intercepted", "seen", "sni", "reset", "connected", "ping", "lostPing",
                   "drop", "closed", "survived", "died", "event", "check"}
      /\ c.n \in Nat /\ c.fp \in Fingerprint \cup {NoPrint} /\ c.bad \in BOOLEAN
  BY DEF Call
<1>4. {<<t, "short">>, <<t, "idle">>} \subseteq Key /\ {"short", "idle"} \subseteq Mode
  BY <1>1 DEF Key, Mode
<1> HIDE DEF t, mode
<1>5. CASE c.op = "fail"
  <2>1. Called(a, k, c) = Fail(a, t, mode, c.class)
    BY <1>5 DEF Called, t, mode
  <2>2. Touches(a, Fail(a, t, mode, c.class), <<t, mode>>, IF mode \in {"short", "compare"} THEN 1 ELSE 0)
    BY <1>1, FailSound
  <2>3. QED
    BY <1>1, <1>5, <2>1, <2>2 DEF Counted, mode
<1>6. CASE c.op = "intercepted"
  <2>1. Called(a, k, c) = Intercepted(a, t, mode, c.fp)
    BY <1>6 DEF Called, t, mode
  <2>2. Touches(a, Intercepted(a, t, mode, c.fp), <<t, mode>>, 0)
    BY <1>1, <1>2, InterceptedSound
  <2>3. QED
    BY <1>1, <1>6, <2>1, <2>2 DEF Counted
<1>7. CASE c.op = "seen"
  <2>1. Called(a, k, c) = IF News(a, t, c.fp) THEN Seen(a, t, c.fp) ELSE a
    BY <1>7 DEF Called, t
  <2>2. Seen(a, t, c.fp) \in AggType
    BY <1>1, <1>2 DEF Seen, AggType
  <2>3. /\ Seen(a, t, c.fp).bucket = a.bucket /\ Seen(a, t, c.fp).targets = a.targets
        /\ Seen(a, t, c.fp).modes = a.modes /\ Seen(a, t, c.fp).removed = a.removed
    BY DEF Seen, AggType
  <2>4. QED
    BY <1>7, <2>1, <2>2, <2>3, NothingTouched DEF Counted
<1>8. CASE c.op = "sni"
  <2>1. Called(a, k, c) = Sni(a, t, c.class, c.bad)
    BY <1>8 DEF Called, t
  <2>2. Touches(a, Sni(a, t, c.class, c.bad), <<t, "short">>, 0)
    BY <1>1, <1>2, SniSound
  <2>3. QED
    BY <1>4, <1>8, <2>1, <2>2, TouchesAny DEF Counted
<1>9. CASE c.op = "reset"
  <2>1. Called(a, k, c) = Reset(a, t, mode)
    BY <1>9 DEF Called, t, mode
  <2>2. Touches(a, Reset(a, t, mode), <<t, mode>>, 0)
    BY <1>1, <1>2, ResetSound
  <2>3. QED
    BY <1>1, <1>9, <2>1, <2>2 DEF Counted
<1>10. CASE c.op = "connected"
  <2>1. Called(a, k, c) = Connected(a, t, mode, c.n)
    BY <1>10 DEF Called, t, mode
  <2>2. Touches(a, Connected(a, t, mode, c.n), <<t, mode>>, 1)
    BY <1>1, <1>2, ConnectedSound
  <2>3. QED
    BY <1>1, <1>10, <2>1, <2>2 DEF Counted
<1>11. CASE c.op = "ping"
  <2>1. Called(a, k, c) = Ping(a, t, mode)
    BY <1>11 DEF Called, t, mode
  <2>2. Touches(a, Ping(a, t, mode), <<t, mode>>, 1)
    BY <1>1, <1>2, PingSound
  <2>3. QED
    BY <1>1, <1>11, <2>1, <2>2 DEF Counted
<1>12. CASE c.op = "lostPing"
  <2>1. Called(a, k, c) = LostPing(a, t, mode)
    BY <1>12 DEF Called, t, mode
  <2>2. Touches(a, LostPing(a, t, mode), <<t, mode>>, 1)
    BY <1>1, <1>2, LostPingSound
  <2>3. QED
    BY <1>1, <1>12, <2>1, <2>2 DEF Counted
<1>13. CASE c.op = "drop"
  <2>1. Called(a, k, c) = Drop(a, t, mode)
    BY <1>13 DEF Called, t, mode
  <2>2. Touches(a, Drop(a, t, mode), <<t, mode>>, 0)
    BY <1>1, <1>2, DropSound
  <2>3. QED
    BY <1>1, <1>13, <2>1, <2>2 DEF Counted
<1>14. CASE c.op = "closed"
  <2>1. Called(a, k, c) = ServerClosed(a, t, mode)
    BY <1>14 DEF Called, t, mode
  <2>2. Touches(a, ServerClosed(a, t, mode), <<t, mode>>, 0)
    BY <1>1, <1>2, ServerClosedSound
  <2>3. QED
    BY <1>1, <1>14, <2>1, <2>2 DEF Counted
<1>15. CASE c.op = "survived"
  <2>1. Called(a, k, c) = IdleSurvived(a, t, c.n)
    BY <1>15 DEF Called, t
  <2>2. IdleSurvived(a, t, c.n) \in AggType
    BY <1>1, <1>2 DEF IdleSurvived, AggType
  <2>3. /\ IdleSurvived(a, t, c.n).bucket = a.bucket /\ IdleSurvived(a, t, c.n).targets = a.targets
        /\ IdleSurvived(a, t, c.n).modes = a.modes /\ IdleSurvived(a, t, c.n).removed = a.removed
    BY DEF IdleSurvived, AggType
  <2>4. QED
    BY <1>15, <2>1, <2>2, <2>3, NothingTouched DEF Counted
<1>16. CASE c.op = "died"
  <2>1. Called(a, k, c) = IdleDied(a, t, c.n)
    BY <1>16 DEF Called, t
  <2>2. Touches(a, IdleDied(a, t, c.n), <<t, "idle">>, 0)
    BY <1>1, <1>2, IdleDiedSound
  <2>3. QED
    BY <1>4, <1>16, <2>1, <2>2, TouchesAny DEF Counted
<1>17. CASE c.op \in {"event", "check"}
  <2>1. Called(a, k, c) = a
    BY <1>17 DEF Called
  <2>2. QED
    BY <1>17, <2>1, NothingTouched DEF Counted
<1>18. QED
  BY <1>2, <1>5, <1>6, <1>7, <1>8, <1>9, <1>10, <1>11, <1>12, <1>13, <1>14, <1>15, <1>16, <1>17

-----------------------------------------------------------------------------
(* The calls a result brings are calls.                                    *)

(* One call. *)
LEMMA DoTyped ==
    ASSUME NEW c \in Call
    PROVE  <<c>> \in Seq(Call)
  OBVIOUS

(* Calls without arguments. *)
LEMMA PlainCalls ==
    \A op \in {"reset", "ping", "lostPing", "drop", "closed", "survived", "event", "check"} :
        Do(op) \in Call
  BY DEF Do, Call

(* Calls that may not be there. *)
LEMMA IfTyped ==
    ASSUME NEW s \in Seq(Call), NEW cond \in BOOLEAN
    PROVE  If(cond, s) \in Seq(Call)
  BY DEF If

(* An interception's two sections. *)
LEMMA NoteInterceptionTyped ==
    ASSUME NEW fp \in Fingerprint
    PROVE  NoteInterception(fp) \in Seq(Call)
<1>1. [Do("intercepted") EXCEPT !.fp = fp] \in Call
  BY DEF Do, Call
<1>2. [Do("seen") EXCEPT !.fp = fp] \in Call
  BY DEF Do, Call
<1>3. QED
  BY <1>1, <1>2 DEF NoteInterception

(* A failure, a connect, an SNI outcome and a death. *)
LEMMA CallsWithArguments ==
    /\ \A class \in Class : [Do("fail") EXCEPT !.class = class] \in Call
    /\ \A n \in Nat : [Do("connected") EXCEPT !.n = n] \in Call
    /\ \A v \in Variant, bad \in BOOLEAN : [Do("sni") EXCEPT !.class = v, !.bad = bad] \in Call
    /\ \A n \in Nat : [Do("died") EXCEPT !.n = n] \in Call
    /\ \A n \in Nat : [Do("survived") EXCEPT !.n = n] \in Call
<1>1. \A class \in Class : [Do("fail") EXCEPT !.class = class] \in Call
  BY DEF Do, Call
<1>2. \A n \in Nat : [Do("connected") EXCEPT !.n = n] \in Call
  BY DEF Do, Call
<1>3. \A v \in Variant, bad \in BOOLEAN : [Do("sni") EXCEPT !.class = v, !.bad = bad] \in Call
  BY DEF Do, Call
<1>4. \A n \in Nat : [Do("died") EXCEPT !.n = n] \in Call
  BY DEF Do, Call
<1>5. \A n \in Nat : [Do("survived") EXCEPT !.n = n] \in Call
  BY DEF Do, Call
<1>6. QED
  BY <1>1, <1>2, <1>3, <1>4, <1>5

(* noteFailure. *)
LEMMA NoteFailureTyped ==
    ASSUME NEW class \in Class, NEW fp \in Fingerprint
    PROVE  NoteFailure(class, fp) \in Seq(Call)
<1>1. <<[Do("fail") EXCEPT !.class = class]>> \in Seq(Call)
  BY CallsWithArguments, DoTyped
<1>2. If(class = "reset", <<Do("reset")>>) \in Seq(Call)
  BY PlainCalls, DoTyped, IfTyped
<1>3. QED
  BY <1>1, <1>2, NoteInterceptionTyped, ConcatProperties DEF NoteFailure

(* shortLoop. *)
LEMMA ShortCallsTyped ==
    ASSUME NEW v \in Variant, NEW class \in Class \cup {""}, NEW lost \in Nat, NEW fp \in Fingerprint
    PROVE  ShortCalls(v, class, lost, fp) \in Seq(Call)
<1> DEFINE first == If(Named, <<[Do("sni") EXCEPT !.class = v, !.bad = class # ""]>>)
           resets == If(class = "reset", <<Do("reset")>>)
           connects == <<[Do("connected") EXCEPT !.n = lost]>>
           fails == <<[Do("fail") EXCEPT !.class = class]>>
           rest == CASE class = ""            -> connects
                     [] class = "intercepted" -> connects \o NoteInterception(fp)
                     [] OTHER                 -> fails
<1>1. first \in Seq(Call)
  <2>1. [Do("sni") EXCEPT !.class = v, !.bad = class # ""] \in Call
    BY CallsWithArguments
  <2>2. QED
    BY <2>1, DoTyped, IfTyped, LoopAssumption
<1>2. resets \in Seq(Call)
  BY PlainCalls, DoTyped, IfTyped
<1>3. connects \in Seq(Call)
  BY CallsWithArguments, DoTyped
<1>4. class # "" => fails \in Seq(Call)
  BY CallsWithArguments, DoTyped
<1>5. connects \o NoteInterception(fp) \in Seq(Call)
  BY <1>3, NoteInterceptionTyped, ConcatProperties
<1>6. ShortCalls(v, class, lost, fp) = first \o resets \o rest
  BY DEF ShortCalls
<1> HIDE DEF first, resets, connects, fails
<1>7. rest \in Seq(Call)
  BY <1>3, <1>4, <1>5
<1> HIDE DEF rest
<1>8. first \o resets \in Seq(Call)
  BY <1>1, <1>2, ConcatProperties
<1>9. QED
  BY <1>6, <1>7, <1>8, ConcatProperties

(* compareLoop. *)
LEMMA CompareCallsTyped ==
    ASSUME NEW class \in {"", "other", "reset"}, NEW lost \in Nat
    PROVE  CompareCalls(class, lost) \in Seq(Call)
<1>1. <<[Do("connected") EXCEPT !.n = lost]>> \in Seq(Call)
  BY CallsWithArguments, DoTyped
<1>2. class # "" => <<[Do("fail") EXCEPT !.class = class]>> \in Seq(Call)
  BY CallsWithArguments, DoTyped DEF Class
<1>3. QED
  BY <1>1, <1>2 DEF CompareCalls

(* ended, and what the long and the idle loop add to it. *)
LEMMA EndedTyped ==
    ASSUME NEW goaway \in BOOLEAN, NEW class, NEW gap \in Nat
    PROVE  /\ LongEnded(goaway, class) \in Seq(Call)
           /\ IdleEnded(goaway, class, gap) \in Seq(Call)
<1>1. <<IF goaway THEN Do("closed") ELSE Do("drop")>> \in Seq(Call)
  BY PlainCalls, DoTyped
<1>2. If(~goaway /\ class = "reset", <<Do("reset")>>) \in Seq(Call)
  BY PlainCalls, DoTyped, IfTyped
<1>3. Ended(goaway, class) \in Seq(Call)
  BY <1>1, <1>2, ConcatProperties DEF Ended
<1>4. <<Do("event")>> \in Seq(Call)
  BY PlainCalls, DoTyped
<1>5. <<[Do("died") EXCEPT !.n = gap], Do("survived"), Do("event")>> \in Seq(Call)
  <2> DEFINE c == [Do("died") EXCEPT !.n = gap]
             d == Do("survived")
             e == Do("event")
  <2>1. c \in Call /\ d \in Call /\ e \in Call
    BY PlainCalls, CallsWithArguments
  <2> HIDE DEF c, d, e
  <2>2. <<c, d, e>> \in Seq(Call)
    BY <2>1
  <2>3. QED
    BY <2>2 DEF c, d, e
<1>6. QED
  BY <1>3, <1>4, <1>5, ConcatProperties DEF LongEnded, IdleEnded

-----------------------------------------------------------------------------
(* Results.                                                                *)

(* A connection that is up starts without a gap. *)
LEMMA SessionTyped ==
    ASSUME NEW l \in Loop
    PROVE  [l EXCEPT !.pc = "session", !.gap = 0, !.best = 0] \in Loop
<1> DEFINE l1 == [l EXCEPT !.pc = "session"]
           l2 == [l1 EXCEPT !.gap = 0]
<1>1. 0 \in 0 .. MaxGap
  BY LoopAssumption
<1>2. l1 \in Loop
  BY DEF Loop
<1>3. [l EXCEPT !.pc = "session", !.gap = 0, !.best = 0] = [l1 EXCEPT !.gap = 0, !.best = 0]
  BY DEF Loop
<1> HIDE DEF l1
<1>4. l2 \in Loop
  BY <1>1, <1>2 DEF Loop
<1>5. [l1 EXCEPT !.gap = 0, !.best = 0] = [l2 EXCEPT !.best = 0]
  BY <1>2 DEF Loop
<1> HIDE DEF l2
<1>6. [l2 EXCEPT !.best = 0] \in Loop
  BY <1>1, <1>4 DEF Loop
<1>7. QED
  BY <1>3, <1>5, <1>6

(* What a running loop owes keeps the invariant: it touches only the loop. *)
LEMMA OwesKeeps ==
    ASSUME IInv, NEW k \in Key, NEW l \in Loop, NEW calls \in Seq(Call),
           loop[k].pc # "off", Owes(k, l, calls), work' \in 0 .. MaxWork
    PROVE  IInv'
<1>1. [l EXCEPT !.calls = calls] \in Loop
  BY DEF Loop
<1>2. loop' = [loop EXCEPT ![k] = [l EXCEPT !.calls = calls]]
  BY DEF Owes
<1>3. loop' \in [Key -> Loop]
  BY <1>1, <1>2 DEF IInv, TypeOK
<1>4. UNCHANGED <<agg, running, want, cancelled, stopping, minute, hist>>
  BY DEF Owes
<1>5. TypeOK'
  BY <1>3, <1>4 DEF IInv, TypeOK
<1>6. loop[k] # Off
  BY DEF Off
<1>7. LoopsAreOfAMode'
  BY <1>2, <1>6 DEF IInv, LoopsAreOfAMode, TypeOK
<1>8. QED
  BY <1>4, <1>5, <1>7 DEF IInv, ModesKnown, EveryModeHasItsBucket, Flushes, RunningIsMeasured,
                          NoSampleLost, InBucket

(* So does a result, which also counts as work. *)
LEMMA ResultKeeps ==
    ASSUME IInv, NEW k \in Key, NEW l \in Loop, NEW calls \in Seq(Call),
           loop[k].pc # "off", Result(k, l, calls)
    PROVE  IInv'
<1>1. work' \in 0 .. MaxWork
  BY LoopAssumption DEF Result, IInv, TypeOK
<1>2. QED
  BY <1>1, OwesKeeps DEF Result

(* Every result of every loop. *)
LEMMA ResultsKeep ==
    ASSUME IInv, NEW k \in Key, Results(k)
    PROVE  IInv'
<1>1. loop[k] \in Loop
  BY DEF IInv, TypeOK
<1>2. Dial \in Loop
  BY LoopAssumption, EmptySeq DEF Dial, Loop
<1>4. (\A lost \in 0 .. 1 : lost \in Nat) /\ (\A b : (IF b THEN "host" ELSE "none") \in Variant)
  BY DEF Variant
<1>3. <<Do("ping")>> \in Seq(Call) /\ <<Do("lostPing")>> \in Seq(Call)
  BY PlainCalls, DoTyped
<1>5. CASE Short(k)
  <2>1. PICK class \in Class \cup {""}, lost \in 0 .. 1, fp \in Fingerprint :
            Result(k, [loop[k] EXCEPT !.sni = Named /\ ~@],
                   ShortCalls(IF loop[k].sni THEN "host" ELSE "none", class, lost, fp))
    BY <1>5 DEF Short
  <2>2. [loop[k] EXCEPT !.sni = Named /\ ~@] \in Loop
    BY <1>1, LoopAssumption DEF Loop
  <2>3. ShortCalls(IF loop[k].sni THEN "host" ELSE "none", class, lost, fp) \in Seq(Call)
    <3>1. lost \in Nat /\ (IF loop[k].sni THEN "host" ELSE "none") \in Variant
      BY <1>4, Zenon
    <3>2. QED
      BY <3>1, ShortCallsTyped
  <2>4. loop[k].pc # "off"
    BY <1>5 DEF Short, At
  <2> DEFINE l == [loop[k] EXCEPT !.sni = Named /\ ~@]
             calls == ShortCalls(IF loop[k].sni THEN "host" ELSE "none", class, lost, fp)
  <2> HIDE DEF l, calls
  <2>5. l \in Loop /\ calls \in Seq(Call) /\ Result(k, l, calls)
    BY <2>1, <2>2, <2>3 DEF l, calls
  <2>6. QED
    BY <2>4, <2>5, ResultKeeps
<1>6. CASE Compare(k)
  <2>1. PICK class \in {"", "other", "reset"}, lost \in 0 .. 1 :
            Result(k, loop[k], CompareCalls(class, lost))
    BY <1>6 DEF Compare
  <2>2. CompareCalls(class, lost) \in Seq(Call)
    <3>1. lost \in Nat
      BY <1>4, Zenon
    <3>2. QED
      BY <3>1, CompareCallsTyped
  <2>3. loop[k].pc # "off"
    BY <1>6 DEF Compare, At
  <2> DEFINE calls == CompareCalls(class, lost)
  <2> HIDE DEF calls
  <2>4. calls \in Seq(Call) /\ Result(k, loop[k], calls)
    BY <2>1, <2>2 DEF calls
  <2>5. QED
    BY <1>1, <2>3, <2>4, ResultKeeps
<1>7. CASE DialFails(k)
  <2>1. PICK class \in Class, fp \in Fingerprint : Result(k, loop[k], NoteFailure(class, fp))
    BY <1>7 DEF DialFails
  <2>2. loop[k].pc # "off"
    BY <1>7 DEF DialFails, At
  <2> DEFINE calls == NoteFailure(class, fp)
  <2> HIDE DEF calls
  <2>3. calls \in Seq(Call) /\ Result(k, loop[k], calls)
    BY <2>1, NoteFailureTyped DEF calls
  <2>4. QED
    BY <1>1, <2>2, <2>3, ResultKeeps
<1>8. CASE DialSucceeds(k)
  <2>1. [loop[k] EXCEPT !.pc = "session", !.gap = 0, !.best = 0] \in Loop
    BY <1>1, SessionTyped
  <2>2. Dialed(k[2]) \in Seq(Call)
    BY PlainCalls, DoTyped, IfTyped DEF Dialed
  <2>3. loop[k].pc # "off"
    BY <1>8 DEF DialSucceeds, At
  <2>4. work' \in 0 .. MaxWork
    BY <1>8 DEF DialSucceeds, IInv, TypeOK
  <2>5. QED
    BY <1>8, <2>1, <2>2, <2>3, <2>4, OwesKeeps DEF DialSucceeds
<1>9. CASE LongPing(k)
  <2>1. loop[k].pc # "off"
    BY <1>9 DEF LongPing, At
  <2>2. QED
    BY <1>1, <1>3, <1>9, <2>1, ResultKeeps DEF LongPing
<1>10. CASE LongEnds(k)
  <2>1. loop[k].pc # "off"
    BY <1>10 DEF LongEnds, At
  <2>2. PICK goaway \in BOOLEAN, class \in {"other", "reset"} :
            Result(k, Dial, LongEnded(goaway, class))
    BY <1>10 DEF LongEnds
  <2>3. LongEnded(goaway, class) \in Seq(Call)
    BY EndedTyped
  <2>4. QED
    BY <1>2, <2>1, <2>2, <2>3, ResultKeeps
<1>11. CASE IdlePing(k)
  <2> DEFINE gap  == loop[k].gap
             best == IF gap > loop[k].best THEN gap ELSE loop[k].best
             l    == [loop[k] EXCEPT !.gap = Longer(@), !.best = best]
             tail == If(gap > 0, <<[Do("survived") EXCEPT !.n = best]>>)
  <2>1. gap \in 0 .. MaxGap /\ loop[k].best \in 0 .. MaxGap
    BY <1>1 DEF Loop
  <2>2. best \in 0 .. MaxGap /\ best \in Nat
    BY <2>1, LoopAssumption
  <2>3. Longer(gap) \in 0 .. MaxGap
    BY <2>1, LoopAssumption DEF Longer
  <2>4. l \in Loop
    BY <1>1, <2>2, <2>3 DEF Loop
  <2>5. tail \in Seq(Call)
    <3>1. <<[Do("survived") EXCEPT !.n = best]>> \in Seq(Call)
      BY <2>2, CallsWithArguments, DoTyped
    <3>2. (gap > 0) \in BOOLEAN
      OBVIOUS
    <3>3. QED
      BY <3>1, <3>2, IfTyped
  <2>6. <<Do("ping"), Do("check")>> \in Seq(Call)
    BY PlainCalls
  <2>7. Result(k, l, <<Do("ping"), Do("check")>> \o tail)
    BY <1>11 DEF IdlePing
  <2>8. loop[k].pc # "off"
    BY <1>11 DEF IdlePing, At
  <2> HIDE DEF l, tail
  <2>9. QED
    BY <2>4, <2>5, <2>6, <2>7, <2>8, ConcatProperties, ResultKeeps
<1>12. CASE IdleEnds(k)
  <2>1. loop[k].pc # "off"
    BY <1>12 DEF IdleEnds, At
  <2>2. loop[k].gap \in Nat
    BY <1>1, LoopAssumption DEF Loop
  <2>3. <<Do("lostPing"), Do("check")>> \in Seq(Call)
    BY PlainCalls
  <2>4. \A goaway \in BOOLEAN, class \in {"other", "reset"} :
            IdleEnded(goaway, class, loop[k].gap) \in Seq(Call)
    BY <2>2, EndedTyped
  <2>5. <<Do("lostPing"), Do("check")>> \o IdleEnded(FALSE, "other", loop[k].gap) \in Seq(Call)
    BY <2>3, <2>4, ConcatProperties
  <2>6. QED
    BY <1>2, <1>12, <2>1, <2>4, <2>5, ResultKeeps DEF IdleEnds
<1>13. QED
  BY <1>5, <1>6, <1>7, <1>8, <1>9, <1>10, <1>11, <1>12 DEF Results

-----------------------------------------------------------------------------
(* Steps.                                                                  *)

(* What happened stays well typed, and each key's samples are counted. *)
LEMMA NotedTyped ==
    ASSUME NEW k \in Key, NEW c \in Call, hist \in Hist
    PROVE  /\ Noted(k, c) \in Hist
           /\ Noted(k, c).sent = hist.sent
           /\ \A j \in Key : Noted(k, c).taken[j] =
                  hist.taken[j] + (IF j = k /\ Samples(k, c) THEN 1 ELSE 0)
<1> DEFINE t == k[1]
           told == c.op = "seen" /\ News(agg, t, c.fp)
           tk == [hist.taken EXCEPT ![k] = @ + (IF Samples(k, c) THEN 1 ELSE 0)]
           an == [hist.announced EXCEPT ![t] = @ + (IF told THEN 1 ELSE 0)]
           pr == [hist.prints EXCEPT ![t] = @ \cup (IF c.op = "seen" THEN {c.fp} ELSE {})]
           en == [hist.ended EXCEPT ![k] = @ + (IF c.op \in {"drop", "closed"} THEN 1 ELSE 0)]
           td == [hist.told EXCEPT ![k] = @ + (IF c.op = "event" THEN 1 ELSE 0)]
<1>1. t \in Target /\ c.fp \in Fingerprint \cup {NoPrint}
  BY DEF Key, Call
<1>2. tk \in [Key -> Nat] /\ \A j \in Key : tk[j] =
          hist.taken[j] + (IF j = k /\ Samples(k, c) THEN 1 ELSE 0)
  BY DEF Hist
<1>3. an \in [Target -> Nat]
  BY <1>1 DEF Hist
<1>4. pr \in [Target -> SUBSET (Fingerprint \cup {NoPrint})]
  BY <1>1 DEF Hist
<1>5. en \in [Key -> Nat]
  BY DEF Hist
<1>6. td \in [Key -> Nat]
  BY DEF Hist
<1>7. Noted(k, c) = [hist EXCEPT !.taken = tk, !.announced = an, !.prints = pr, !.ended = en, !.told = td]
  BY DEF Noted
<1> HIDE DEF tk, an, pr, en, td
<1>8. Noted(k, c) = [taken |-> tk, sent |-> hist.sent, announced |-> an, prints |-> pr,
                     ended |-> en, told |-> td]
  BY <1>7 DEF Hist
<1>9. QED
  BY <1>2, <1>3, <1>4, <1>5, <1>6, <1>8 DEF Hist

(* One call of one loop. *)
LEMMA StepKeeps ==
    ASSUME IInv, NEW k \in Key, Step(k)
    PROVE  IInv'
<1> DEFINE c == Head(loop[k].calls)
<1>1. loop[k] \in Loop /\ loop[k].calls \in Seq(Call) /\ loop[k].calls # << >>
  BY DEF Step, IInv, TypeOK, Loop
<1>2. c \in Call /\ Tail(loop[k].calls) \in Seq(Call)
  BY <1>1
<1>3. agg' = Called(agg, k, c) /\ hist' = Noted(k, c)
  BY DEF Step
<1>4. /\ UNCHANGED <<running, want, cancelled, stopping, minute, work>>
      /\ loop' = [loop EXCEPT ![k] = IF c.op = "check" /\ Cancelled(k[1]) THEN Off
                                     ELSE [loop[k] EXCEPT !.calls = Tail(loop[k].calls)]]
  BY DEF Step
<1> HIDE DEF c
<1>5. Touches(agg, agg', k, Counted(k, c))
  BY <1>2, <1>3, CalledSound DEF IInv, TypeOK
<1>6. /\ hist' \in Hist /\ hist'.sent = hist.sent
      /\ \A j \in Key : hist'.taken[j] = hist.taken[j] + (IF j = k /\ Samples(k, c) THEN 1 ELSE 0)
  BY <1>2, <1>3, NotedTyped DEF IInv, TypeOK
<1>7. loop[k] # Off
  BY <1>1 DEF Off
<1>8. k[2] \in ModesOf(k[1])
  BY <1>7 DEF IInv, LoopsAreOfAMode
<1>9. loop' \in [Key -> Loop] /\ LoopsAreOfAMode'
  <2>1. Off \in Loop
    BY LoopAssumption, EmptySeq DEF Off, Loop
  <2>2. [loop[k] EXCEPT !.calls = Tail(loop[k].calls)] \in Loop
    BY <1>1, <1>2 DEF Loop
  <2>3. loop' \in [Key -> Loop]
    BY <1>4, <2>1, <2>2 DEF IInv, TypeOK
  <2>4. \A j \in Key : j # k => loop'[j] = loop[j]
    BY <1>4 DEF IInv, TypeOK
  <2>5. QED
    BY <1>8, <2>3, <2>4 DEF IInv, LoopsAreOfAMode
<1>10. TypeOK'
  BY <1>4, <1>5, <1>6, <1>9 DEF IInv, TypeOK, Touches
<1>11. EveryModeHasItsBucket' /\ ModesKnown' /\ RunningIsMeasured'
  BY <1>4, <1>5 DEF IInv, Touches, EveryModeHasItsBucket, Flushes, ModesKnown, RunningIsMeasured
<1>12. NoSampleLost'
  <2>1. SUFFICES ASSUME NEW j \in Key
                 PROVE  hist'.taken[j] = hist'.sent[j] + InBucket(j)'
    BY DEF NoSampleLost
  <2>2. hist.taken[j] = hist.sent[j] + InBucket(j) /\ hist.sent[j] \in Nat
    BY DEF IInv, NoSampleLost, TypeOK, Hist
  <2>3. Samples(k, c) <=> k[1] \in agg.targets /\ Counted(k, c) = 1
    BY DEF Samples, Counted
  <2>4. Counted(k, c) \in {0, 1}
    BY DEF Counted
  <2>5. agg.bucket[k] # Nil <=> k[1] \in agg.targets
    BY <1>8 DEF IInv, EveryModeHasItsBucket, Flushes, ModesKnown, Key
  <2>6. agg.bucket[j] # Nil => agg.bucket[j].samples \in Nat
    BY DEF IInv, TypeOK, AggType, Bucket
  <2>7. CASE agg.bucket[j] = Nil
    <3>1. agg'.bucket[j] = Nil
      BY <1>5, <2>7 DEF Touches
    <3>2. hist'.taken[j] = hist.taken[j]
      BY <1>6, <2>2, <2>3, <2>5, <2>7, <2>6 DEF IInv, TypeOK, Hist
    <3>3. QED
      BY <1>6, <2>2, <2>7, <3>1, <3>2 DEF InBucket
  <2>8. CASE agg.bucket[j] # Nil /\ j # k
    <3>1. agg'.bucket[j] # Nil /\ agg'.bucket[j].samples = agg.bucket[j].samples
      BY <1>5, <2>8 DEF Touches
    <3>2. hist'.taken[j] = hist.taken[j]
      BY <1>6, <2>8 DEF IInv, TypeOK, Hist
    <3>3. QED
      BY <1>6, <2>2, <2>8, <3>1, <3>2 DEF InBucket
  <2>9. CASE agg.bucket[j] # Nil /\ j = k
    <3>1. agg'.bucket[j] # Nil /\ agg'.bucket[j].samples = agg.bucket[j].samples + Counted(k, c)
      BY <1>5, <2>9 DEF Touches
    <3>2. hist'.taken[j] = hist.taken[j] + Counted(k, c)
      BY <1>6, <2>3, <2>4, <2>5, <2>9
    <3>3. QED
      BY <1>6, <2>2, <2>4, <2>6, <2>9, <3>1, <3>2 DEF InBucket
  <2>10. QED
    BY <2>7, <2>8, <2>9
<1>13. agg'.removed \subseteq agg'.targets /\ agg'.removed \cap Compared = {}
  BY <1>5 DEF IInv, Touches
<1>14. QED
  BY <1>9, <1>10, <1>11, <1>12, <1>13 DEF IInv

(* A loop that returns. *)
LEMMA ReturnKeeps ==
    ASSUME IInv, NEW k \in Key, Return(k)
    PROVE  IInv'
<1>1. Off \in Loop
  BY LoopAssumption, EmptySeq DEF Off, Loop
<1>2. loop' = [loop EXCEPT ![k] = Off]
      /\ UNCHANGED <<agg, running, want, cancelled, stopping, minute, hist, work>>
  BY DEF Return
<1>3. loop' \in [Key -> Loop] /\ LoopsAreOfAMode'
  BY <1>1, <1>2 DEF IInv, TypeOK, LoopsAreOfAMode
<1>4. QED
  BY <1>2, <1>3 DEF IInv, TypeOK, ModesKnown, EveryModeHasItsBucket, Flushes, RunningIsMeasured,
                    NoSampleLost, InBucket

(* Steps that leave the loops, the agg and what happened alone. *)
LEMMA OthersKeep ==
    ASSUME IInv, UNCHANGED <<agg, loop, running, hist, work, cancelled>>,
           want' \subseteq HostIP, stopping' \in BOOLEAN, minute' \in BOOLEAN
    PROVE  IInv'
  BY DEF IInv, TypeOK, ModesKnown, LoopsAreOfAMode, EveryModeHasItsBucket, Flushes, RunningIsMeasured,
         NoSampleLost, InBucket

(* registerModes: an IP joins, and keeps the buckets it still has. *)
LEMMA AddKeeps ==
    ASSUME IInv, Add
    PROVE  IInv'
<1>1. PICK t \in want \ running :
          /\ running' = running \cup {t}
          /\ cancelled' = cancelled \ {t}
          /\ agg' = Register(agg, t, TargetModes)
          /\ loop' = [k \in Key |-> IF k[1] = t /\ k[2] \in TargetModes THEN Dial ELSE loop[k]]
  BY DEF Add
<1>2. UNCHANGED <<want, stopping, minute, hist, work>>
  BY DEF Add
<1>3. t \in HostIP /\ t \in Target /\ t \notin Compared /\ ModesOf(t) = TargetModes
  BY DEF IInv, TypeOK, HostIP, ModesOf
<1>4. TargetModes \subseteq Mode
  BY AggAssumption DEF Mode
<1>5. /\ agg'.targets = agg.targets \cup {t} /\ agg'.removed = agg.removed \ {t}
      /\ agg'.modes = [agg.modes EXCEPT ![t] = TargetModes]
      /\ agg'.bucket = [k \in Key |-> IF k[1] = t /\ k[2] \in TargetModes /\ agg.bucket[k] = Nil
                                      THEN NewBucket ELSE agg.bucket[k]]
      /\ agg'.lastFP = agg.lastFP /\ agg'.survived = agg.survived
      /\ agg' = [targets |-> agg'.targets, removed |-> agg'.removed, modes |-> agg'.modes,
                 bucket |-> agg'.bucket, lastFP |-> agg.lastFP, survived |-> agg.survived]
  BY <1>1 DEF Register, IInv, TypeOK, AggType
<1>6. agg' \in AggType
  <2>1. agg'.bucket \in [Key -> Bucket \cup {Nil}]
    BY <1>5, NewBucketTyped DEF IInv, TypeOK, AggType
  <2>2. agg'.modes \in [Target -> SUBSET Mode]
    BY <1>4, <1>5 DEF IInv, TypeOK, AggType
  <2>3. agg'.targets \in SUBSET Target /\ agg'.removed \in SUBSET Target
    BY <1>3, <1>5 DEF IInv, TypeOK, AggType
  <2>4. agg.lastFP \in [Target -> Fingerprint \cup {NoPrint}] /\ agg.survived \in [Target -> Nat]
    BY DEF IInv, TypeOK, AggType
  <2>5. QED
    BY <1>5, <2>1, <2>2, <2>3, <2>4 DEF AggType
<1>7. Dial \in Loop
  BY LoopAssumption, EmptySeq DEF Dial, Loop
<1>8. loop' \in [Key -> Loop] /\ LoopsAreOfAMode'
  BY <1>1, <1>3, <1>7 DEF IInv, TypeOK, LoopsAreOfAMode
<1>9. TypeOK'
  BY <1>1, <1>2, <1>3, <1>6, <1>8 DEF IInv, TypeOK
<1>10. ModesKnown'
  BY <1>3, <1>5 DEF IInv, TypeOK, AggType, ModesKnown
<1>11. NewBucket # Nil
  BY NewBucketTyped, BucketIsNotNil
<1>12. EveryModeHasItsBucket'
  <2>1. SUFFICES ASSUME NEW k \in Key
                 PROVE  (k[1] \in agg'.targets /\ k[2] \in agg'.modes[k[1]]) <=> (agg'.bucket[k] # Nil)
    BY DEF EveryModeHasItsBucket, Flushes
  <2>2. (k[1] \in agg.targets /\ k[2] \in agg.modes[k[1]]) <=> (agg.bucket[k] # Nil)
    BY DEF IInv, EveryModeHasItsBucket, Flushes
  <2>3. CASE k[1] = t
    <3>1. agg'.modes[k[1]] = TargetModes
      BY <1>3, <1>10, <1>5, <2>3 DEF ModesKnown
    <3>2. agg.modes[t] \subseteq TargetModes
      BY <1>3 DEF IInv, ModesKnown
    <3>3. QED
      BY <1>5, <1>11, <2>2, <2>3, <3>1, <3>2
  <2>4. CASE k[1] # t
    <3>1. agg'.modes[k[1]] = agg.modes[k[1]] /\ agg'.bucket[k] = agg.bucket[k]
      BY <1>5, <2>4 DEF IInv, TypeOK, AggType, Key
    <3>2. QED
      BY <1>5, <2>2, <2>4, <3>1
  <2>5. QED
    BY <2>3, <2>4
<1>13. RunningIsMeasured'
  BY <1>1, <1>3, <1>5 DEF IInv, RunningIsMeasured
<1>14. NoSampleLost'
  <2>1. \A k \in Key : InBucket(k)' = InBucket(k)
    BY <1>5, <1>11, NewBucketTyped DEF InBucket
  <2>2. QED
    BY <1>2, <2>1 DEF IInv, NoSampleLost
<1>15. agg'.removed \subseteq agg'.targets /\ agg'.removed \cap Compared = {}
  BY <1>5 DEF IInv
<1>16. QED
  BY <1>8, <1>9, <1>10, <1>12, <1>13, <1>14, <1>15 DEF IInv

(* unregister: an IP is marked, and stays until the flush. *)
LEMMA RemoveKeeps ==
    ASSUME IInv, Remove
    PROVE  IInv'
<1>1. PICK t \in running \ want :
          /\ running' = running \ {t}
          /\ cancelled' = cancelled \cup {t}
          /\ agg' = Unregister(agg, t)
  BY DEF Remove
<1>2. UNCHANGED <<loop, want, stopping, minute, hist, work>>
  BY DEF Remove
<1>3. t \in HostIP /\ t \in Target /\ t \notin Compared /\ t \in agg.targets
  BY DEF IInv, TypeOK, HostIP, RunningIsMeasured
<1>4. /\ agg' \in AggType
      /\ agg'.targets = agg.targets /\ agg'.removed = agg.removed \cup {t}
      /\ agg'.modes = agg.modes /\ agg'.bucket = agg.bucket
  BY <1>1, <1>3 DEF Unregister, IInv, TypeOK, AggType
<1>5. TypeOK'
  BY <1>1, <1>2, <1>3, <1>4 DEF IInv, TypeOK
<1>6. RunningIsMeasured'
  BY <1>1, <1>3, <1>4 DEF IInv, RunningIsMeasured
<1>7. QED
  BY <1>2, <1>3, <1>4, <1>5, <1>6 DEF IInv, ModesKnown, LoopsAreOfAMode, EveryModeHasItsBucket, Flushes,
                                      NoSampleLost, InBucket

(* flush: every sample leaves its bucket for a record, removed targets go. *)
LEMMA FlushKeeps ==
    ASSUME IInv, Flush
    PROVE  IInv'
<1> DEFINE gone == Forgotten(agg)
           emitted(k) == IF k \in Flushes(agg) THEN agg.bucket[k].samples ELSE 0
<1>1. agg' = Flushed(agg) /\ UNCHANGED <<loop, running, want, cancelled, stopping, minute, work>>
  BY DEF Flush
<1>2. hist' = [hist EXCEPT
                 !.sent      = [k \in Key |-> hist.sent[k] + emitted(k)],
                 !.announced = [t \in Target |-> IF t \in gone THEN 0 ELSE hist.announced[t]],
                 !.prints    = [t \in Target |-> IF t \in gone THEN {} ELSE hist.prints[t]]]
  BY DEF Flush
<1>3. \A k \in Key : emitted(k) \in Nat
  BY DEF IInv, TypeOK, AggType, EveryModeHasItsBucket, Bucket
<1>4. /\ hist' \in Hist /\ hist'.taken = hist.taken
      /\ \A k \in Key : hist'.sent[k] = hist.sent[k] + emitted(k)
  <2> DEFINE se == [k \in Key |-> hist.sent[k] + emitted(k)]
             an == [t \in Target |-> IF t \in gone THEN 0 ELSE hist.announced[t]]
             pr == [t \in Target |-> IF t \in gone THEN {} ELSE hist.prints[t]]
  <2>1. se \in [Key -> Nat]
    BY <1>3 DEF IInv, TypeOK, Hist
  <2>2. an \in [Target -> Nat] /\ pr \in [Target -> SUBSET (Fingerprint \cup {NoPrint})]
    BY DEF IInv, TypeOK, Hist
  <2>3. \A k \in Key : se[k] = hist.sent[k] + emitted(k)
    OBVIOUS
  <2>4. hist' = [hist EXCEPT !.sent = se, !.announced = an, !.prints = pr]
    BY <1>2
  <2> HIDE DEF se, an, pr, emitted
  <2>5. hist' = [taken |-> hist.taken, sent |-> se, announced |-> an, prints |-> pr,
                 ended |-> hist.ended, told |-> hist.told]
    BY <2>4 DEF IInv, TypeOK, Hist
  <2>6. QED
    BY <2>1, <2>2, <2>3, <2>5 DEF IInv, TypeOK, Hist
<1>5. /\ agg'.targets = agg.targets \ gone /\ agg'.removed = agg.removed \ gone
      /\ agg'.modes = [t \in Target |-> IF t \in gone THEN {} ELSE agg.modes[t]]
      /\ agg'.bucket = [k \in Key |-> IF k \notin Flushes(agg) THEN agg.bucket[k]
                                      ELSE IF k[1] \in gone THEN Nil ELSE NewBucket]
  BY <1>1 DEF Flushed
<1>6. agg' \in AggType
  BY <1>1, NewBucketTyped DEF Flushed, IInv, TypeOK, AggType
<1>7. TypeOK'
  BY <1>1, <1>4, <1>6 DEF IInv, TypeOK
<1>8. gone = agg.removed /\ gone \subseteq Target
  BY DEF Forgotten, IInv, TypeOK, AggType
<1> HIDE DEF gone
<1>9. ModesKnown'
  BY <1>5, <1>8 DEF IInv, ModesKnown
<1>10. NewBucket # Nil /\ NewBucket.samples = 0
  BY NewBucketTyped, BucketIsNotNil
<1>11. EveryModeHasItsBucket'
  <2>1. SUFFICES ASSUME NEW k \in Key
                 PROVE  (k[1] \in agg'.targets /\ k[2] \in agg'.modes[k[1]]) <=> (agg'.bucket[k] # Nil)
    BY DEF EveryModeHasItsBucket, Flushes
  <2>2. /\ k[1] \in Target
        /\ (k \in Flushes(agg)) <=> (k[1] \in agg.targets /\ k[2] \in agg.modes[k[1]])
        /\ (k \in Flushes(agg)) <=> (agg.bucket[k] # Nil)
    BY DEF IInv, EveryModeHasItsBucket, Flushes, Key
  <2>3. QED
    BY <1>5, <1>10, <2>2
<1>12. RunningIsMeasured'
  BY <1>1, <1>5, <1>8 DEF IInv, RunningIsMeasured
<1>13. NoSampleLost'
  <2>1. SUFFICES ASSUME NEW k \in Key
                 PROVE  hist'.taken[k] = hist'.sent[k] + InBucket(k)'
    BY DEF NoSampleLost
  <2>2. /\ hist.taken[k] = hist.sent[k] + InBucket(k) /\ hist.sent[k] \in Nat
        /\ (k \in Flushes(agg)) <=> (agg.bucket[k] # Nil)
    BY DEF IInv, NoSampleLost, TypeOK, Hist, EveryModeHasItsBucket
  <2>3. InBucket(k) = emitted(k)
    BY <2>2 DEF InBucket
  <2>4. InBucket(k)' = 0
    BY <1>5, <1>10, <2>2 DEF InBucket
  <2> HIDE DEF emitted
  <2>5. QED
    BY <1>3, <1>4, <2>2, <2>3, <2>4
<1>14. agg'.removed \subseteq agg'.targets /\ agg'.removed \cap Compared = {}
  BY <1>5, <1>8 DEF IInv
<1>15. LoopsAreOfAMode'
  BY <1>1 DEF IInv, LoopsAreOfAMode
<1>16. QED
  BY <1>7, <1>9, <1>11, <1>12, <1>13, <1>14, <1>15 DEF IInv

(* The invariant holds when the program starts. *)
LEMMA InitInvariant == Init => IInv
<1> SUFFICES ASSUME Init
             PROVE  IInv
  OBVIOUS
<1>1. /\ agg.targets = Compared /\ agg.removed = {}
      /\ agg.modes = [t \in Target |-> IF t \in Compared THEN {"compare"} ELSE {}]
      /\ agg.bucket = [k \in Key |-> IF k[1] \in Compared /\ k[2] = "compare" THEN NewBucket ELSE Nil]
      /\ agg = [targets |-> agg.targets, modes |-> agg.modes, removed |-> {}, bucket |-> agg.bucket,
                lastFP |-> [t \in Target |-> NoPrint], survived |-> [t \in Target |-> 0]]
  BY DEF Init, StartAgg, NewAgg
<1>2. agg.bucket \in [Key -> Bucket \cup {Nil}]
  BY <1>1, NewBucketTyped
<1>3. agg.modes \in [Target -> SUBSET Mode]
  BY <1>1 DEF Mode
<1>4. agg \in AggType
  BY <1>1, <1>2, <1>3, AggAssumption DEF AggType
<1>5. Off \in Loop /\ Dial \in Loop
  BY LoopAssumption, EmptySeq DEF Off, Dial, Loop
<1>6. loop \in [Key -> Loop]
  BY <1>5 DEF Init
<1>7. hist \in Hist
  BY DEF Init, Hist
<1>8. TypeOK
  <2>1. running = {} /\ want = {} /\ cancelled = {} /\ stopping = FALSE /\ minute = TRUE /\ work = 0
    BY DEF Init
  <2>2. 0 \in 0 .. MaxWork
    BY LoopAssumption
  <2>3. QED
    BY <1>4, <1>6, <1>7, <2>1, <2>2 DEF TypeOK
<1>9. ModesKnown
  BY <1>1 DEF ModesKnown, ModesOf
<1>10. LoopsAreOfAMode
  BY DEF Init, LoopsAreOfAMode, ModesOf
<1>11. NewBucket # Nil /\ NewBucket.samples = 0
  BY NewBucketTyped, BucketIsNotNil
<1>12. EveryModeHasItsBucket
  BY <1>1, <1>11 DEF EveryModeHasItsBucket, Flushes, Key
<1>13. NoSampleLost
  BY <1>1, <1>11 DEF Init, NoSampleLost, InBucket
<1>14. QED
  BY <1>1, <1>8, <1>9, <1>10, <1>12, <1>13 DEF IInv, Init, RunningIsMeasured

(* Every step keeps the invariant. *)
LEMMA NextInvariant == IInv /\ [Next]_vars => IInv'
<1> SUFFICES ASSUME IInv, [Next]_vars
             PROVE  IInv'
  OBVIOUS
<1>1. ASSUME NEW k \in Key, Results(k)
      PROVE  IInv'
  BY <1>1, ResultsKeep
<1>2. ASSUME NEW k \in Key, Step(k)
      PROVE  IInv'
  BY <1>2, StepKeeps
<1>3. ASSUME NEW k \in Key, Return(k)
      PROVE  IInv'
  BY <1>3, ReturnKeeps
<1>4. CASE Resolve
  BY <1>4, OthersKeep DEF Resolve, IInv, TypeOK
<1>5. CASE Add
  BY <1>5, AddKeeps
<1>6. CASE Remove
  BY <1>6, RemoveKeeps
<1>7. CASE Flush
  BY <1>7, FlushKeeps
<1>8. CASE Stop
  BY <1>8, OthersKeep DEF Stop, IInv, TypeOK
<1>9. CASE MinuteReturns
  BY <1>9, OthersKeep DEF MinuteReturns, IInv, TypeOK
<1>10. CASE UNCHANGED vars
  BY <1>10, OthersKeep DEF vars, IInv, TypeOK
<1>11. QED
  BY <1>1, <1>2, <1>3, <1>4, <1>5, <1>6, <1>7, <1>8, <1>9, <1>10 DEF Next

(* The invariant holds in every reachable state. *)
THEOREM LoopsInvariant == Spec => []IInv
  BY InitInvariant, NextInvariant, PTL DEF Spec

(* flush finds a bucket for every mode of every target, at any interleaving  *)
(* of registrations, removals, flushes and the loops' calls.                 *)
THEOREM FlushFindsBuckets == Spec => []EveryModeHasItsBucket
<1>1. IInv => EveryModeHasItsBucket
  BY DEF IInv
<1>2. QED
  BY <1>1, LoopsInvariant, PTL

(* Every sample of a registered target is in one record or in the current    *)
(* bucket: none is lost, and none counted twice.                             *)
THEOREM SamplesAreConserved == Spec => []NoSampleLost
<1>1. IInv => NoSampleLost
  BY DEF IInv
<1>2. QED
  BY <1>1, LoopsInvariant, PTL

(* What the resolver runs is what the aggregates go on measuring. *)
THEOREM RunningStaysMeasured == Spec => []RunningIsMeasured
<1>1. IInv => RunningIsMeasured
  BY DEF IInv
<1>2. QED
  BY <1>1, LoopsInvariant, PTL

-----------------------------------------------------------------------------
(* The order of the calls.  A result's calls tell of an end exactly when    *)
(* they count one, after it, and look at ctx before it only.                *)

Ends == {"drop", "closed"}
Loud == Ends \cup {"event"}

Has(s, ops) == \E i \in DOMAIN s : s[i].op \in ops

(* An end still to be counted, with its event after it; and an event whose  *)
(* end is counted.                                                          *)
Pending(s) ==
    \E d, e \in DOMAIN s :
        /\ d < e /\ s[d].op \in Ends /\ s[e].op = "event"
        /\ \A i \in DOMAIN s : (s[i].op \in Loud => i \in {d, e}) /\ (s[i].op = "check" => i < d)
Closes(s) ==
    \E e \in DOMAIN s :
        /\ s[e].op = "event"
        /\ \A i \in DOMAIN s : s[i].op \in Loud \cup {"check"} => i = e
Opens(s) ==
    /\ s # << >> /\ s[1].op \in Ends
    /\ \A i \in DOMAIN s : s[i].op \in Loud \cup {"check"} => i = 1

(* No more than one survived, at the end, of this gap. *)
Survives(s, n) ==
    /\ s # << >> /\ s[Len(s)].op = "survived" /\ s[Len(s)].n = n
    /\ \A i \in DOMAIN s : s[i].op = "survived" => i = Len(s)

(* The operation of a call does not depend on its arguments. *)
LEMMA OpOf ==
    ASSUME NEW op, NEW x, NEW y
    PROVE  /\ Do(op).op = op /\ Do(op).n = 0
           /\ [Do(op) EXCEPT !.class = x].op = op
           /\ [Do(op) EXCEPT !.class = x, !.bad = y].op = op
           /\ [Do(op) EXCEPT !.fp = x].op = op
           /\ [Do(op) EXCEPT !.n = x].op = op /\ [Do(op) EXCEPT !.n = x].n = x
  BY DEF Do

(* The elements of a concatenation. *)
LEMMA ConcatIs ==
    ASSUME NEW s \in Seq(Call), NEW t \in Seq(Call)
    PROVE  /\ s \o t \in Seq(Call)
           /\ Len(s) \in Nat /\ Len(t) \in Nat /\ Len(s \o t) = Len(s) + Len(t)
           /\ DOMAIN s = 1 .. Len(s) /\ DOMAIN t = 1 .. Len(t) /\ DOMAIN (s \o t) = 1 .. (Len(s) + Len(t))
           /\ \A i \in 1 .. Len(s) : (s \o t)[i] = s[i]
           /\ \A i \in 1 .. Len(t) : (s \o t)[Len(s) + i] = t[i]
           /\ \A i \in (Len(s) + 1) .. (Len(s) + Len(t)) : (s \o t)[i] = t[i - Len(s)]
  OBVIOUS

(* The elements of what remains after the first. *)
LEMMA TailIs ==
    ASSUME NEW s \in Seq(Call), s # << >>
    PROVE  /\ Head(s) = s[1] /\ Len(s) \in Nat \ {0} /\ DOMAIN s = 1 .. Len(s)
           /\ Len(Tail(s)) = Len(s) - 1 /\ DOMAIN Tail(s) = 1 .. (Len(s) - 1)
           /\ \A i \in 1 .. (Len(s) - 1) : Tail(s)[i] = s[i + 1]
           /\ Head(s) \in Call /\ Tail(s) \in Seq(Call)
  OBVIOUS

(* Two sequences without such a call have none together. *)
LEMMA HasConcat ==
    ASSUME NEW s \in Seq(Call), NEW t \in Seq(Call), NEW ops, ~Has(s, ops), ~Has(t, ops)
    PROVE  ~Has(s \o t, ops)
<1> DEFINE u == s \o t
<1>1. SUFFICES ASSUME NEW i \in DOMAIN u, u[i].op \in ops PROVE FALSE
  BY DEF Has
<1>2. CASE i \in 1 .. Len(s)
  <2>1. u[i] = s[i] /\ i \in DOMAIN s
    BY <1>2, ConcatIs
  <2>2. QED
    BY <1>1, <2>1 DEF Has
<1>3. CASE i \notin 1 .. Len(s)
  <2>1. Len(s) \in Nat /\ Len(t) \in Nat /\ i \in 1 .. (Len(s) + Len(t)) /\ DOMAIN t = 1 .. Len(t)
    BY ConcatIs
  <2>2. i \in (Len(s) + 1) .. (Len(s) + Len(t)) /\ i - Len(s) \in DOMAIN t
    BY <1>3, <2>1
  <2>3. u[i] = t[i - Len(s)]
    BY <2>2, ConcatIs
  <2>4. QED
    BY <1>1, <2>2, <2>3 DEF Has
<1>4. QED
  BY <1>2, <1>3

(* Nor has one call that is none, two of them, no call, or a call that may be there. *)
LEMMA HasOne == ASSUME NEW c, NEW ops, c.op \notin ops PROVE ~Has(<<c>>, ops)
  BY DEF Has

LEMMA HasTwo == ASSUME NEW c, NEW d, NEW ops, c.op \notin ops, d.op \notin ops PROVE ~Has(<<c, d>>, ops)
  BY DEF Has

LEMMA HasNone == ASSUME NEW ops PROVE ~Has(<< >>, ops)
  BY DEF Has

LEMMA HasIf == ASSUME NEW s, NEW cond, NEW ops, ~Has(s, ops) PROVE ~Has(If(cond, s), ops)
  BY HasNone DEF If

(* What has no such call has none first, and none later. *)
LEMMA HasTail ==
    ASSUME NEW s \in Seq(Call), s # << >>, NEW ops, ~Has(s, ops)
    PROVE  ~Has(Tail(s), ops) /\ Head(s).op \notin ops
<1>1. \A i \in 1 .. (Len(s) - 1) : i + 1 \in 1 .. Len(s)
  BY TailIs
<1>2. 1 \in DOMAIN s
  BY TailIs
<1>3. QED
  BY <1>1, <1>2, TailIs DEF Has

(* An end stays the first call of a result with what follows it. *)
LEMMA OpensStay ==
    ASSUME NEW s \in Seq(Call), NEW t \in Seq(Call), Opens(s), ~Has(t, Loud \cup {"check"})
    PROVE  Opens(s \o t)
<1> DEFINE u == s \o t
<1>1. Len(s) \in Nat \ {0} /\ Len(t) \in Nat /\ DOMAIN s = 1 .. Len(s) /\ DOMAIN t = 1 .. Len(t)
      /\ Len(u) = Len(s) + Len(t) /\ DOMAIN u = 1 .. (Len(s) + Len(t)) /\ u \in Seq(Call)
  BY ConcatIs, EmptySeq DEF Opens
<1>2. u # << >> /\ u[1] = s[1] /\ s[1].op \in Ends
  BY <1>1, ConcatIs, EmptySeq DEF Opens
<1>3. ASSUME NEW i \in DOMAIN u, u[i].op \in Loud \cup {"check"} PROVE i = 1
  <2>1. CASE i \in 1 .. Len(s)
    <3>1. u[i] = s[i]
      BY <2>1, ConcatIs
    <3>2. QED
      BY <1>1, <1>3, <2>1, <3>1 DEF Opens
  <2>2. CASE i \in (Len(s) + 1) .. (Len(s) + Len(t))
    <3>1. u[i] = t[i - Len(s)] /\ i - Len(s) \in 1 .. Len(t)
      BY <1>1, <2>2, ConcatIs
    <3>2. QED
      BY <1>1, <1>3, <3>1 DEF Has
  <2>3. QED
    BY <1>1, <2>1, <2>2
<1> HIDE DEF u
<1>4. Opens(u)
  BY <1>2, <1>3 DEF Opens
<1>5. QED
  BY <1>4 DEF u

(* An end and what follows it, behind what counts none. *)
LEMMA OpensCloses ==
    ASSUME NEW s \in Seq(Call), NEW t \in Seq(Call), Opens(s), Closes(t)
    PROVE  Pending(s \o t)
<1> DEFINE u == s \o t
<1>1. PICK n \in DOMAIN t : /\ t[n].op = "event"
                            /\ \A i \in DOMAIN t : t[i].op \in Loud \cup {"check"} => i = n
  BY DEF Closes
<1>2. /\ Len(s) \in Nat \ {0} /\ Len(t) \in Nat /\ n \in 1 .. Len(t)
      /\ DOMAIN s = 1 .. Len(s) /\ DOMAIN t = 1 .. Len(t) /\ DOMAIN u = 1 .. (Len(s) + Len(t))
  BY ConcatIs, EmptySeq DEF Opens
<1> DEFINE e == Len(s) + n
<1>3. 1 \in DOMAIN u /\ e \in DOMAIN u /\ 1 < e
  BY <1>2
<1>4. u[1].op \in Ends /\ u[e].op = "event"
  <2>1. u[1] = s[1] /\ u[e] = t[n]
    BY <1>2, ConcatIs
  <2>2. QED
    BY <1>1, <2>1 DEF Opens
<1>5. ASSUME NEW i \in DOMAIN u, u[i].op \in Loud \cup {"check"} PROVE i \in {1, e}
  <2>1. CASE i \in 1 .. Len(s)
    <3>1. u[i] = s[i]
      BY <2>1, ConcatIs
    <3>2. QED
      BY <1>2, <1>5, <2>1, <3>1 DEF Opens
  <2>2. CASE i \in (Len(s) + 1) .. (Len(s) + Len(t))
    <3>1. u[i] = t[i - Len(s)] /\ i - Len(s) \in 1 .. Len(t)
      BY <1>2, <2>2, ConcatIs
    <3>2. i - Len(s) = n
      BY <1>1, <1>2, <1>5, <3>1
    <3>3. QED
      BY <1>2, <2>2, <3>2
  <2>3. QED
    BY <1>2, <2>1, <2>2
<1>6. ASSUME NEW i \in DOMAIN u, u[i].op = "check" PROVE i < 1
  BY <1>4, <1>5, <1>6 DEF Ends
<1> HIDE DEF u, e
<1>7. Pending(u)
  BY <1>3, <1>4, <1>5, <1>6 DEF Pending
<1>8. QED
  BY <1>7 DEF u

(* Nor do calls before it that count no end. *)
LEMMA PendingAfter ==
    ASSUME NEW s \in Seq(Call), NEW t \in Seq(Call), ~Has(s, Loud), Pending(t)
    PROVE  Pending(s \o t)
<1> DEFINE u == s \o t
<1>1. PICK d, e \in DOMAIN t :
          /\ d < e /\ t[d].op \in Ends /\ t[e].op = "event"
          /\ \A i \in DOMAIN t : (t[i].op \in Loud => i \in {d, e}) /\ (t[i].op = "check" => i < d)
  BY DEF Pending
<1>2. /\ Len(s) \in Nat /\ Len(t) \in Nat /\ d \in 1 .. Len(t) /\ e \in 1 .. Len(t)
      /\ DOMAIN s = 1 .. Len(s) /\ DOMAIN t = 1 .. Len(t) /\ DOMAIN u = 1 .. (Len(s) + Len(t))
  BY ConcatIs
<1> DEFINE D == Len(s) + d
           E == Len(s) + e
<1>3. D \in DOMAIN u /\ E \in DOMAIN u /\ D < E
  BY <1>1, <1>2
<1>4. u[D] = t[d] /\ u[E] = t[e]
  BY <1>2, ConcatIs
<1>5. ASSUME NEW i \in DOMAIN u
      PROVE  (u[i].op \in Loud => i \in {D, E}) /\ (u[i].op = "check" => i < D)
  <2>1. CASE i \in 1 .. Len(s)
    <3>1. u[i] = s[i] /\ i < D
      BY <1>2, <2>1, ConcatIs
    <3>2. QED
      BY <1>2, <2>1, <3>1 DEF Has
  <2>2. CASE i \in (Len(s) + 1) .. (Len(s) + Len(t))
    <3>1. u[i] = t[i - Len(s)] /\ i - Len(s) \in 1 .. Len(t)
      BY <1>2, <2>2, ConcatIs
    <3>2. /\ u[i].op \in Loud => i - Len(s) \in {d, e}
          /\ u[i].op = "check" => i - Len(s) < d
      BY <1>1, <1>2, <3>1
    <3>3. QED
      BY <1>2, <2>2, <3>2
  <2>3. QED
    BY <1>2, <2>1, <2>2
<1> HIDE DEF u, D, E
<1>6. Pending(u)
  BY <1>1, <1>3, <1>4, <1>5 DEF Pending
<1>7. QED
  BY <1>6 DEF u

(* What remains when the first call is made. *)
LEMMA PendingTail ==
    ASSUME NEW s \in Seq(Call), s # << >>, Pending(s)
    PROVE  /\ Head(s).op \in Ends => Closes(Tail(s))
           /\ Head(s).op \notin Ends => Head(s).op # "event" /\ Pending(Tail(s))
<1> DEFINE u == Tail(s)
<1>1. PICK d, e \in DOMAIN s :
          /\ d < e /\ s[d].op \in Ends /\ s[e].op = "event"
          /\ \A i \in DOMAIN s : (s[i].op \in Loud => i \in {d, e}) /\ (s[i].op = "check" => i < d)
  BY DEF Pending
<1>2. /\ Len(s) \in Nat \ {0} /\ d \in 1 .. Len(s) /\ e \in 1 .. Len(s)
      /\ DOMAIN s = 1 .. Len(s) /\ DOMAIN u = 1 .. (Len(s) - 1) /\ Head(s) = s[1]
      /\ \A i \in 1 .. (Len(s) - 1) : u[i] = s[i + 1]
  BY TailIs
<1>3. Ends \subseteq Loud /\ "event" \in Loud /\ "event" \notin Ends
  BY DEF Ends, Loud
<1>4. \A i \in DOMAIN u : i + 1 \in DOMAIN s /\ u[i] = s[i + 1]
  BY <1>2
<1>5. e - 1 \in DOMAIN u /\ u[e - 1] = s[e]
  BY <1>1, <1>2
<1>6. ASSUME Head(s).op \in Ends PROVE Closes(u)
  <2>1. d = 1
    <3>1. s[1].op \in Ends /\ 1 \in DOMAIN s
      BY <1>2, <1>6
    <3>2. 1 \in {d, e}
      BY <1>1, <1>3, <3>1
    <3>3. QED
      BY <1>1, <1>3, <3>1, <3>2
  <2>2. ASSUME NEW i \in DOMAIN u, u[i].op \in Loud \cup {"check"} PROVE i = e - 1
    <3>1. s[i + 1].op \in Loud \cup {"check"} /\ i + 1 \in DOMAIN s /\ ~(i + 1 < d) /\ i + 1 # d /\ i \in Nat
      BY <1>2, <1>4, <2>1, <2>2
    <3>2. i + 1 = e
      BY <1>1, <3>1
    <3>3. QED
      BY <3>1, <3>2
  <2>3. QED
    BY <1>1, <1>5, <2>2 DEF Closes
<1>7. ASSUME Head(s).op \notin Ends PROVE Head(s).op # "event" /\ Pending(u)
  <2>1. d # 1 /\ e # 1
    BY <1>1, <1>2, <1>7
  <2>2. Head(s).op # "event"
    BY <1>1, <1>2, <1>3, <2>1
  <2>3. d - 1 \in DOMAIN u /\ u[d - 1] = s[d] /\ d - 1 < e - 1
    BY <1>1, <1>2, <2>1
  <2>4. ASSUME NEW i \in DOMAIN u
        PROVE  (u[i].op \in Loud => i \in {d - 1, e - 1}) /\ (u[i].op = "check" => i < d - 1)
    <3>1. /\ u[i].op \in Loud => i + 1 \in {d, e}
          /\ u[i].op = "check" => i + 1 < d
      BY <1>1, <1>4
    <3>2. QED
      BY <1>2, <3>1
  <2>5. QED
    BY <1>1, <1>5, <2>2, <2>3, <2>4 DEF Pending
<1>8. QED
  BY <1>6, <1>7

(* The event comes, and after it nothing that tells. *)
LEMMA ClosesTail ==
    ASSUME NEW s \in Seq(Call), s # << >>, Closes(s)
    PROVE  /\ Head(s).op = "event" => ~Has(Tail(s), Loud)
           /\ Head(s).op # "event" => Head(s).op \notin Loud \cup {"check"} /\ Closes(Tail(s))
<1> DEFINE u == Tail(s)
<1>1. PICK e \in DOMAIN s : /\ s[e].op = "event"
                            /\ \A i \in DOMAIN s : s[i].op \in Loud \cup {"check"} => i = e
  BY DEF Closes
<1>2. /\ Len(s) \in Nat \ {0} /\ e \in 1 .. Len(s)
      /\ DOMAIN s = 1 .. Len(s) /\ DOMAIN u = 1 .. (Len(s) - 1) /\ Head(s) = s[1]
      /\ \A i \in 1 .. (Len(s) - 1) : u[i] = s[i + 1]
  BY TailIs
<1>3. ASSUME NEW i \in DOMAIN u, u[i].op \in Loud \cup {"check"} PROVE i + 1 = e
  <2>1. i + 1 \in DOMAIN s /\ u[i] = s[i + 1]
    BY <1>2
  <2>2. QED
    BY <1>1, <1>3, <2>1
<1>4. ASSUME Head(s).op = "event" PROVE ~Has(u, Loud)
  <2>1. e = 1
    <3>1. 1 \in DOMAIN s /\ s[1].op \in Loud \cup {"check"}
      BY <1>2, <1>4 DEF Loud
    <3>2. QED
      BY <1>1, <3>1
  <2>2. QED
    BY <1>2, <1>3, <2>1 DEF Has
<1>5. ASSUME Head(s).op # "event" PROVE Head(s).op \notin Loud \cup {"check"} /\ Closes(u)
  <2>1. e # 1
    BY <1>1, <1>2, <1>5
  <2>2. e - 1 \in DOMAIN u /\ u[e - 1] = s[e]
    BY <1>2, <2>1
  <2>3. \A i \in DOMAIN u : u[i].op \in Loud \cup {"check"} => i = e - 1
    BY <1>2, <1>3
  <2>4. Head(s).op \notin Loud \cup {"check"}
    BY <1>1, <1>2, <2>1
  <2>5. QED
    BY <1>1, <2>2, <2>3, <2>4 DEF Closes
<1>6. QED
  BY <1>4, <1>5

(* A gap that survived is the last call. *)
LEMMA SurvivesTail ==
    ASSUME NEW s \in Seq(Call), s # << >>, NEW n, Survives(s, n)
    PROVE  /\ Head(s).op = "survived" => Head(s).n = n /\ Tail(s) = << >>
           /\ Head(s).op # "survived" => Survives(Tail(s), n)
<1> DEFINE u == Tail(s)
<1>1. /\ Len(s) \in Nat \ {0} /\ Len(u) = Len(s) - 1 /\ u \in Seq(Call)
      /\ DOMAIN s = 1 .. Len(s) /\ DOMAIN u = 1 .. (Len(s) - 1) /\ Head(s) = s[1]
      /\ \A i \in 1 .. (Len(s) - 1) : u[i] = s[i + 1]
  BY TailIs
<1> HIDE DEF u
<1>2. ASSUME Head(s).op = "survived" PROVE Head(s).n = n /\ u = << >>
  <2>1. 1 = Len(s)
    BY <1>1, <1>2 DEF Survives
  <2>2. Len(u) = 0
    BY <1>1, <2>1
  <2>3. Head(s).n = n
    <3>1. s[Len(s)].n = n
      BY DEF Survives
    <3>2. QED
      BY <1>1, <2>1, <3>1
  <2>4. u = << >>
    BY <1>1, <2>2, EmptySeq
  <2>5. QED
    BY <2>3, <2>4
<1>3. ASSUME Head(s).op # "survived" PROVE Survives(u, n)
  <2>1. Len(s) # 1
    BY <1>1, <1>3 DEF Survives
  <2>2. Len(s) - 1 \in DOMAIN u /\ u[Len(u)] = s[Len(s)] /\ u # << >>
    BY <1>1, <2>1
  <2>3. ASSUME NEW i \in DOMAIN u, u[i].op = "survived" PROVE i = Len(u)
    <3>1. i + 1 = Len(s)
      BY <1>1, <2>3 DEF Survives
    <3>2. QED
      BY <1>1, <3>1
  <2>4. QED
    BY <2>2, <2>3 DEF Survives
<1>4. QED
  BY <1>2, <1>3 DEF u

-----------------------------------------------------------------------------
(* Every end is told. *)

(* The calls of a result that ends no connection. *)
LEMMA QuietCalls ==
    ASSUME NEW v, NEW class, NEW lost, NEW fp, NEW ops,
           ops \cap {"fail", "intercepted", "seen", "sni", "reset", "connected"} = {}
    PROVE  /\ ~Has(NoteInterception(fp), ops)
           /\ ~Has(If(class = "reset", <<Do("reset")>>), ops)
           /\ ~Has(<<[Do("connected") EXCEPT !.n = lost]>>, ops)
           /\ ~Has(<<[Do("fail") EXCEPT !.class = class]>>, ops)
           /\ ~Has(If(Named, <<[Do("sni") EXCEPT !.class = v, !.bad = class # ""]>>), ops)
<1> DEFINE c == [Do("connected") EXCEPT !.n = lost]
           f == [Do("fail") EXCEPT !.class = class]
           n == [Do("sni") EXCEPT !.class = v, !.bad = class # ""]
<1>0. c.op = "connected" /\ f.op = "fail" /\ n.op = "sni"
  BY DEF Do
<1> HIDE DEF c, f, n
<1>1. ~Has(NoteInterception(fp), ops)
  <2>1. [Do("intercepted") EXCEPT !.fp = fp].op = "intercepted" /\ [Do("seen") EXCEPT !.fp = fp].op = "seen"
    BY OpOf
  <2>2. QED
    BY <2>1, HasTwo DEF NoteInterception
<1>2. ~Has(If(class = "reset", <<Do("reset")>>), ops)
  BY OpOf, HasOne, HasIf
<1>3. c.op \notin ops /\ f.op \notin ops /\ n.op \notin ops
  BY <1>0
<1>4. ~Has(<<c>>, ops) /\ ~Has(<<f>>, ops) /\ ~Has(If(Named, <<n>>), ops)
  BY <1>3, HasOne, HasIf
<1>5. QED
  BY <1>1, <1>2, <1>4 DEF c, f, n

(* noteFailure, shortLoop and compareLoop call for nothing else. *)
LEMMA NoteFailureQuiet ==
    ASSUME NEW class \in Class, NEW fp \in Fingerprint, NEW ops,
           ops \cap {"fail", "intercepted", "seen", "sni", "reset", "connected"} = {}
    PROVE  ~Has(NoteFailure(class, fp), ops)
<1> DEFINE f == <<[Do("fail") EXCEPT !.class = class]>>
           r == If(class = "reset", <<Do("reset")>>)
<1>1. f \in Seq(Call) /\ r \in Seq(Call)
  BY CallsWithArguments, PlainCalls, DoTyped, IfTyped
<1>2. ~Has(f, ops) /\ ~Has(r, ops) /\ ~Has(NoteInterception(fp), ops)
  BY QuietCalls
<1>3. NoteFailure(class, fp) \in {NoteInterception(fp), f \o r}
  BY DEF NoteFailure
<1> HIDE DEF f, r
<1>4. ~Has(f \o r, ops)
  BY <1>1, <1>2, HasConcat
<1>5. QED
  BY <1>2, <1>3, <1>4

LEMMA ShortCallsQuiet ==
    ASSUME NEW v \in Variant, NEW class \in Class \cup {""}, NEW lost \in Nat, NEW fp \in Fingerprint, NEW ops,
           ops \cap {"fail", "intercepted", "seen", "sni", "reset", "connected"} = {}
    PROVE  ~Has(ShortCalls(v, class, lost, fp), ops)
<1> DEFINE first == If(Named, <<[Do("sni") EXCEPT !.class = v, !.bad = class # ""]>>)
           resets == If(class = "reset", <<Do("reset")>>)
           connects == <<[Do("connected") EXCEPT !.n = lost]>>
           fails == <<[Do("fail") EXCEPT !.class = class]>>
           rest == CASE class = ""            -> connects
                     [] class = "intercepted" -> connects \o NoteInterception(fp)
                     [] OTHER                 -> fails
<1>1. ~Has(first, ops) /\ ~Has(resets, ops) /\ ~Has(connects, ops) /\ ~Has(fails, ops)
      /\ ~Has(NoteInterception(fp), ops)
  BY QuietCalls
<1>2. first \in Seq(Call)
  <2>1. [Do("sni") EXCEPT !.class = v, !.bad = class # ""] \in Call
    BY CallsWithArguments
  <2>2. QED
    BY <2>1, DoTyped, IfTyped, LoopAssumption
<1>3. resets \in Seq(Call)
  BY PlainCalls, DoTyped, IfTyped
<1>4. connects \in Seq(Call) /\ NoteInterception(fp) \in Seq(Call)
  BY CallsWithArguments, DoTyped, NoteInterceptionTyped
<1>5. class # "" => fails \in Seq(Call)
  BY CallsWithArguments, DoTyped
<1>6. ShortCalls(v, class, lost, fp) = first \o resets \o rest
  BY DEF ShortCalls
<1> HIDE DEF first, resets, connects, fails
<1>7. connects \o NoteInterception(fp) \in Seq(Call) /\ ~Has(connects \o NoteInterception(fp), ops)
  BY <1>1, <1>4, ConcatProperties, HasConcat
<1>8. rest \in Seq(Call) /\ ~Has(rest, ops)
  BY <1>1, <1>4, <1>5, <1>7
<1> HIDE DEF rest
<1>9. first \o resets \in Seq(Call) /\ ~Has(first \o resets, ops)
  BY <1>1, <1>2, <1>3, ConcatProperties, HasConcat
<1>10. QED
  BY <1>6, <1>8, <1>9, HasConcat

LEMMA CompareCallsQuiet ==
    ASSUME NEW class \in {"", "other", "reset"}, NEW lost \in Nat, NEW ops,
           ops \cap {"fail", "intercepted", "seen", "sni", "reset", "connected"} = {}
    PROVE  ~Has(CompareCalls(class, lost), ops)
<1>1. ~Has(<<[Do("connected") EXCEPT !.n = lost]>>, ops) /\ ~Has(<<[Do("fail") EXCEPT !.class = class]>>, ops)
  BY QuietCalls
<1>2. QED
  BY <1>1 DEF CompareCalls

(* A loop that ends a connection counts the end and then tells of it. *)
LEMMA EndedPending ==
    ASSUME NEW goaway \in BOOLEAN, NEW class, NEW gap \in Nat
    PROVE  /\ Pending(LongEnded(goaway, class))
           /\ Pending(IdleEnded(goaway, class, gap))
           /\ Pending(<<Do("lostPing"), Do("check")>> \o IdleEnded(goaway, class, gap))
<1> DEFINE h == <<IF goaway THEN Do("closed") ELSE Do("drop")>>
           r == If(~goaway /\ class = "reset", <<Do("reset")>>)
           t == <<Do("event")>>
           x == [Do("died") EXCEPT !.n = gap]
           y == Do("survived")
           z == Do("event")
           i == <<x, y, z>>
           p == <<Do("lostPing"), Do("check")>>
<1>1. h \in Seq(Call) /\ r \in Seq(Call) /\ t \in Seq(Call) /\ p \in Seq(Call)
  <2>1. h \in Seq(Call)
    BY PlainCalls, DoTyped
  <2>2. r \in Seq(Call)
    BY PlainCalls, DoTyped, IfTyped
  <2>3. t \in Seq(Call)
    BY PlainCalls, DoTyped
  <2>4. p \in Seq(Call)
    BY PlainCalls
  <2>5. QED
    BY <2>1, <2>2, <2>3, <2>4
<1>2. i \in Seq(Call)
  <2>1. x \in Call /\ y \in Call /\ z \in Call
    BY PlainCalls, CallsWithArguments
  <2> HIDE DEF x, y, z
  <2>2. QED
    BY <2>1
<1>3. Opens(h)
  <2>1. (IF goaway THEN Do("closed") ELSE Do("drop")).op \in Ends
    BY OpOf DEF Ends
  <2>2. QED
    BY <2>1 DEF Opens
<1>4. ~Has(r, Loud \cup {"check"})
  BY OpOf, HasOne, HasIf DEF Loud, Ends
<1>5. Closes(t)
  <2>1. Do("event").op = "event"
    BY OpOf
  <2>2. QED
    BY <2>1 DEF Closes
<1>6. Closes(i)
  <2>1. x.op = "died" /\ y.op = "survived" /\ z.op = "event"
    BY OpOf
  <2> HIDE DEF x, y, z
  <2>2. DOMAIN i = {1, 2, 3} /\ i[1] = x /\ i[2] = y /\ i[3] = z
    OBVIOUS
  <2>3. QED
    BY <2>1, <2>2 DEF Closes, Loud, Ends
<1>7. ~Has(p, Loud)
  BY OpOf, HasTwo DEF Loud, Ends
<1>8. Ended(goaway, class) = h \o r /\ LongEnded(goaway, class) = Ended(goaway, class) \o t
      /\ IdleEnded(goaway, class, gap) = Ended(goaway, class) \o i
  BY DEF Ended, LongEnded, IdleEnded
<1> HIDE DEF h, r, t, i, p
<1>9. h \o r \in Seq(Call) /\ Opens(h \o r)
  BY <1>1, <1>3, <1>4, ConcatProperties, OpensStay
<1>10. Pending((h \o r) \o t) /\ Pending((h \o r) \o i)
  BY <1>1, <1>2, <1>5, <1>6, <1>9, OpensCloses
<1>11. (h \o r) \o i \in Seq(Call)
  BY <1>2, <1>9, ConcatProperties
<1>12. Pending(p \o ((h \o r) \o i))
  BY <1>1, <1>7, <1>10, <1>11, PendingAfter
<1>13. QED
  BY <1>8, <1>10, <1>12 DEF p

-----------------------------------------------------------------------------
(* Of each loop, the ends counted and told, and what it still owes. *)
Tells(k) ==
    /\ loop[k].pc = "off" => loop[k].calls = << >>
    /\ \/ hist.ended[k] = hist.told[k] /\ ~Has(loop[k].calls, Loud)
       \/ hist.ended[k] = hist.told[k] /\ Pending(loop[k].calls)
       \/ hist.ended[k] = hist.told[k] + 1 /\ Closes(loop[k].calls)
TellInv == \A k \in Key : Tells(k)

(* An idle loop that has no call to make owes no event. *)
LEMMA NoCallsTold ==
    ASSUME NEW k \in Key, Tells(k), loop[k].calls = << >>
    PROVE  hist.ended[k] = hist.told[k]
<1>1. DOMAIN << >> = {}
  OBVIOUS
<1>2. ~Pending(<< >>) /\ ~Closes(<< >>)
  BY <1>1 DEF Pending, Closes
<1>3. QED
  BY <1>2 DEF Tells

(* What a loop owes for a result: nothing that tells, or an end with its event. *)
LEMMA OwesTells ==
    ASSUME IInv, TellInv, NEW k \in Key, NEW l \in Loop, l.pc # "off", NEW calls \in Seq(Call),
           ~Has(calls, Loud) \/ Pending(calls), loop[k].calls = << >>, Owes(k, l, calls)
    PROVE  TellInv'
<1>1. loop' = [loop EXCEPT ![k] = [l EXCEPT !.calls = calls]] /\ UNCHANGED hist
  BY DEF Owes
<1>2. loop'[k].calls = calls /\ loop'[k].pc = l.pc
  BY <1>1 DEF IInv, TypeOK, Loop
<1>3. hist.ended[k] = hist.told[k]
  BY NoCallsTold DEF TellInv
<1>4. Tells(k)'
  BY <1>1, <1>2, <1>3 DEF Tells
<1>5. ASSUME NEW j \in Key, j # k PROVE Tells(j)'
  <2>1. loop'[j] = loop[j]
    BY <1>1, <1>5 DEF IInv, TypeOK
  <2>2. QED
    BY <1>1, <2>1 DEF Tells, TellInv
<1>6. QED
  BY <1>4, <1>5 DEF TellInv

(* Every result of every loop. *)
LEMMA ResultsTell ==
    ASSUME IInv, TellInv, NEW k \in Key, Results(k)
    PROVE  TellInv'
<1>1. loop[k] \in Loop
  BY DEF IInv, TypeOK
<1>2. Dial \in Loop /\ Dial.pc # "off"
  BY LoopAssumption, EmptySeq DEF Dial, Loop
<1>3. Loud \cap {"fail", "intercepted", "seen", "sni", "reset", "connected"} = {}
  BY DEF Loud, Ends
<1>4. (\A lost \in 0 .. 1 : lost \in Nat) /\ (\A b : (IF b THEN "host" ELSE "none") \in Variant)
  BY DEF Variant
<1>5. CASE Short(k)
  <2> DEFINE v == IF loop[k].sni THEN "host" ELSE "none"
             l == [loop[k] EXCEPT !.sni = Named /\ ~@]
  <2>1. PICK class \in Class \cup {""}, lost \in 0 .. 1, fp \in Fingerprint :
            Result(k, l, ShortCalls(v, class, lost, fp))
    BY <1>5 DEF Short
  <2>2. loop[k].pc = "dial" /\ loop[k].calls = << >>
    BY <1>5 DEF Short, At
  <2>3. l \in Loop /\ l.pc = loop[k].pc
    BY <1>1, LoopAssumption DEF Loop
  <2>4. lost \in Nat /\ v \in Variant
    BY <1>4, Zenon
  <2> HIDE DEF v, l
  <2> DEFINE calls == ShortCalls(v, class, lost, fp)
  <2>5. calls \in Seq(Call) /\ ~Has(calls, Loud)
    BY <1>3, <2>4, ShortCallsTyped, ShortCallsQuiet
  <2> HIDE DEF calls
  <2>6. Owes(k, l, calls)
    BY <2>1 DEF Result, calls
  <2>7. QED
    BY <2>2, <2>3, <2>5, <2>6, OwesTells
<1>6. CASE Compare(k)
  <2>1. PICK class \in {"", "other", "reset"}, lost \in 0 .. 1 :
            Result(k, loop[k], CompareCalls(class, lost))
    BY <1>6 DEF Compare
  <2>2. loop[k].pc = "dial" /\ loop[k].calls = << >>
    BY <1>6 DEF Compare, At
  <2>3. lost \in Nat
    BY <1>4, Zenon
  <2> DEFINE calls == CompareCalls(class, lost)
  <2>4. calls \in Seq(Call) /\ ~Has(calls, Loud)
    BY <1>3, <2>3, CompareCallsTyped, CompareCallsQuiet
  <2> HIDE DEF calls
  <2>5. Owes(k, loop[k], calls)
    BY <2>1 DEF Result, calls
  <2>6. QED
    BY <1>1, <2>2, <2>4, <2>5, OwesTells
<1>7. CASE DialFails(k)
  <2>1. PICK class \in Class, fp \in Fingerprint : Result(k, loop[k], NoteFailure(class, fp))
    BY <1>7 DEF DialFails
  <2>2. loop[k].pc = "dial" /\ loop[k].calls = << >>
    BY <1>7 DEF DialFails, At
  <2> DEFINE calls == NoteFailure(class, fp)
  <2>3. calls \in Seq(Call) /\ ~Has(calls, Loud)
    BY <1>3, NoteFailureTyped, NoteFailureQuiet
  <2> HIDE DEF calls
  <2>4. Owes(k, loop[k], calls)
    BY <2>1 DEF Result, calls
  <2>5. QED
    BY <1>1, <2>2, <2>3, <2>4, OwesTells
<1>8. CASE DialSucceeds(k)
  <2> DEFINE l == [loop[k] EXCEPT !.pc = "session", !.gap = 0, !.best = 0]
             calls == Dialed(k[2])
  <2>1. l \in Loop
    BY <1>1, SessionTyped
  <2>2. l.pc # "off"
    BY <1>1 DEF Loop
  <2>3. calls \in Seq(Call)
    BY PlainCalls, DoTyped, IfTyped DEF Dialed
  <2>4. ~Has(calls, Loud)
    <3>1. Do("survived").op \notin Loud
      BY DEF Do, Loud, Ends
    <3>2. QED
      BY <3>1, HasOne, HasIf DEF Dialed
  <2> HIDE DEF l
  <2>5. Owes(k, l, calls) /\ loop[k].calls = << >>
    BY <1>8 DEF DialSucceeds, At, l
  <2> HIDE DEF calls
  <2>6. QED
    BY <2>1, <2>2, <2>3, <2>4, <2>5, OwesTells
<1>9. CASE LongPing(k)
  <2>1. loop[k].pc = "session" /\ loop[k].calls = << >>
    BY <1>9 DEF LongPing, At
  <2>2. PICK calls \in {<<Do("ping")>>, <<Do("lostPing")>>} : Owes(k, loop[k], calls)
    BY <1>9 DEF LongPing, Result
  <2>3. calls \in Seq(Call)
    BY <2>2, PlainCalls, DoTyped
  <2>4. ~Has(calls, Loud)
    <3>1. Do("ping").op \notin Loud /\ Do("lostPing").op \notin Loud
      BY DEF Do, Loud, Ends
    <3>2. QED
      BY <2>2, <3>1, HasOne
  <2>5. QED
    BY <1>1, <2>1, <2>2, <2>3, <2>4, OwesTells
<1>10. CASE LongEnds(k)
  <2>1. loop[k].calls = << >>
    BY <1>10 DEF LongEnds, At
  <2>2. PICK goaway \in BOOLEAN, class \in {"other", "reset"} :
            Result(k, Dial, LongEnded(goaway, class))
    BY <1>10 DEF LongEnds
  <2> DEFINE calls == LongEnded(goaway, class)
  <2>3. 0 \in Nat
    OBVIOUS
  <2>4. calls \in Seq(Call) /\ Pending(calls)
    BY <2>3, EndedTyped, EndedPending
  <2> HIDE DEF calls
  <2>5. Owes(k, Dial, calls)
    BY <2>2 DEF Result, calls
  <2>6. QED
    BY <1>2, <2>1, <2>4, <2>5, OwesTells
<1>11. CASE IdlePing(k)
  <2> DEFINE gap  == loop[k].gap
             best == IF gap > loop[k].best THEN gap ELSE loop[k].best
             l    == [loop[k] EXCEPT !.gap = Longer(@), !.best = best]
             p    == <<Do("ping"), Do("check")>>
             tail == If(gap > 0, <<[Do("survived") EXCEPT !.n = best]>>)
  <2>1. gap \in 0 .. MaxGap /\ loop[k].best \in 0 .. MaxGap
    BY <1>1 DEF Loop
  <2>2. best \in 0 .. MaxGap /\ best \in Nat
    BY <2>1, LoopAssumption
  <2>3. Longer(gap) \in 0 .. MaxGap
    BY <2>1, LoopAssumption DEF Longer
  <2>4. l \in Loop /\ l.pc = loop[k].pc
    BY <1>1, <2>2, <2>3 DEF Loop
  <2>5. tail \in Seq(Call) /\ ~Has(tail, Loud)
    <3>1. <<[Do("survived") EXCEPT !.n = best]>> \in Seq(Call)
      BY <2>2, CallsWithArguments, DoTyped
    <3>2. (gap > 0) \in BOOLEAN
      OBVIOUS
    <3>3. [Do("survived") EXCEPT !.n = best].op \notin Loud
      BY DEF Do, Loud, Ends
    <3>4. QED
      BY <3>1, <3>2, <3>3, IfTyped, HasOne, HasIf
  <2>6. p \in Seq(Call)
    BY PlainCalls
  <2>7. ~Has(p, Loud)
    <3>1. Do("ping").op \notin Loud /\ Do("check").op \notin Loud
      BY DEF Do, Loud, Ends
    <3>2. QED
      BY <3>1, HasTwo
  <2>8. Owes(k, l, p \o tail)
    BY <1>11 DEF IdlePing, Result
  <2>9. loop[k].pc = "session" /\ loop[k].calls = << >>
    BY <1>11 DEF IdlePing, At
  <2> HIDE DEF l, tail, p
  <2>10. p \o tail \in Seq(Call) /\ ~Has(p \o tail, Loud)
    BY <2>5, <2>6, <2>7, ConcatProperties, HasConcat
  <2>11. QED
    BY <2>4, <2>8, <2>9, <2>10, OwesTells
<1>12. CASE IdleEnds(k)
  <2> DEFINE g == loop[k].gap
             p == <<Do("lostPing"), Do("check")>>
  <2>1. loop[k].calls = << >> /\ g \in Nat
    BY <1>1, <1>12, LoopAssumption DEF IdleEnds, At, Loop
  <2>2. p \in Seq(Call)
    BY PlainCalls
  <2>3. \A goaway \in BOOLEAN, class \in {"other", "reset"} :
            /\ IdleEnded(goaway, class, g) \in Seq(Call) /\ Pending(IdleEnded(goaway, class, g))
            /\ Pending(p \o IdleEnded(goaway, class, g))
    BY <2>1, EndedTyped, EndedPending
  <2>4. PICK goaway \in BOOLEAN, class \in {"other", "reset"} :
            \/ Owes(k, Dial, IdleEnded(goaway, class, g))
            \/ Owes(k, Dial, p \o IdleEnded(goaway, class, g))
    BY <1>12 DEF IdleEnds, Result
  <2> DEFINE s == IdleEnded(goaway, class, g)
  <2>5. s \in Seq(Call) /\ Pending(s) /\ Pending(p \o s)
    BY <2>3
  <2> HIDE DEF s, p
  <2>6. p \o s \in Seq(Call)
    BY <2>2, <2>5, ConcatProperties
  <2>7. Owes(k, Dial, s) \/ Owes(k, Dial, p \o s)
    BY <2>4 DEF s
  <2>8. QED
    BY <1>2, <2>1, <2>5, <2>6, <2>7, OwesTells
<1>13. QED
  BY <1>5, <1>6, <1>7, <1>8, <1>9, <1>10, <1>11, <1>12 DEF Results

(* A call moves the counts as its operation says. *)
LEMMA NotedTelling ==
    ASSUME hist \in Hist, NEW k \in Key, NEW c \in Call
    PROVE  /\ Noted(k, c).ended = [hist.ended EXCEPT ![k] = @ + (IF c.op \in Ends THEN 1 ELSE 0)]
           /\ Noted(k, c).told = [hist.told EXCEPT ![k] = @ + (IF c.op = "event" THEN 1 ELSE 0)]
  BY DEF Noted, Hist, Ends

(* One call of one loop: an end is counted, or its event comes. *)
LEMMA StepTells ==
    ASSUME IInv, TellInv, NEW k \in Key, Step(k)
    PROVE  TellInv'
<1> DEFINE s == loop[k].calls
           c == Head(s)
<1>1. loop[k] \in Loop /\ s \in Seq(Call) /\ s # << >>
  BY DEF Step, IInv, TypeOK, Loop
<1>2. c \in Call /\ Tail(s) \in Seq(Call)
  BY <1>1
<1>3. hist' = Noted(k, c)
  BY DEF Step
<1>4. loop' = [loop EXCEPT ![k] = IF c.op = "check" /\ Cancelled(k[1]) THEN Off
                                  ELSE [loop[k] EXCEPT !.calls = Tail(s)]]
  BY DEF Step
<1>5. /\ hist'.ended = [hist.ended EXCEPT ![k] = @ + (IF c.op \in Ends THEN 1 ELSE 0)]
      /\ hist'.told = [hist.told EXCEPT ![k] = @ + (IF c.op = "event" THEN 1 ELSE 0)]
  BY <1>2, <1>3, NotedTelling DEF IInv, TypeOK
<1>6. hist.ended \in [Key -> Nat] /\ hist.told \in [Key -> Nat] /\ loop \in [Key -> Loop]
  BY DEF IInv, TypeOK, Hist
<1>7. ASSUME NEW j \in Key, j # k PROVE Tells(j)'
  <2>1. loop'[j] = loop[j] /\ hist'.ended[j] = hist.ended[j] /\ hist'.told[j] = hist.told[j]
    BY <1>4, <1>5, <1>6, <1>7
  <2>2. QED
    BY <2>1 DEF Tells, TellInv
<1>8. Tells(k)'
  <2>1. Tells(k) /\ loop[k].pc # "off"
    BY <1>1 DEF TellInv, Tells
  <2>2. \/ loop'[k].calls = Tail(s) /\ loop'[k].pc = loop[k].pc
        \/ c.op = "check" /\ loop'[k].calls = << >>
    BY <1>1, <1>4, <1>6 DEF Off, Loop
  <2>3. /\ hist'.ended[k] = hist.ended[k] + (IF c.op \in Ends THEN 1 ELSE 0)
        /\ hist'.told[k] = hist.told[k] + (IF c.op = "event" THEN 1 ELSE 0)
        /\ hist.ended[k] \in Nat /\ hist.told[k] \in Nat
    BY <1>5, <1>6
  <2>4. Ends \subseteq Loud /\ "event" \in Loud /\ "event" \notin Ends /\ "check" \notin Loud
    BY DEF Ends, Loud
  <2>5. ~Has(<< >>, Loud)
    BY HasNone
  <2> DEFINE u == Tail(s)
  <2>6. CASE hist.ended[k] = hist.told[k] /\ ~Has(s, Loud)
    <3>1. ~Has(u, Loud) /\ c.op \notin Loud
      BY <1>1, <2>6, HasTail
    <3>2. hist'.ended[k] = hist'.told[k]
      BY <2>3, <2>4, <2>6, <3>1
    <3>3. ~Has(loop'[k].calls, Loud)
      BY <2>2, <2>5, <3>1
    <3>4. QED
      BY <2>1, <2>2, <3>2, <3>3 DEF Tells
  <2>7. CASE hist.ended[k] = hist.told[k] /\ Pending(s)
    <3>1. /\ c.op \in Ends => Closes(u)
          /\ c.op \notin Ends => c.op # "event" /\ Pending(u)
      BY <1>1, <2>7, PendingTail
    <3>2. CASE c.op \in Ends
      <4>1. hist'.ended[k] = hist'.told[k] + 1
        BY <2>3, <2>4, <2>7, <3>2
      <4>2. loop'[k].calls = u /\ loop'[k].pc = loop[k].pc
        BY <2>2, <2>4, <3>2
      <4>3. QED
        BY <2>1, <3>1, <3>2, <4>1, <4>2 DEF Tells
    <3>3. CASE c.op \notin Ends
      <4>1. hist'.ended[k] = hist'.told[k]
        BY <2>3, <2>7, <3>1, <3>3
      <4>2. QED
        BY <2>1, <2>2, <2>5, <3>1, <3>3, <4>1 DEF Tells
    <3>4. QED
      BY <3>2, <3>3
  <2>8. CASE hist.ended[k] = hist.told[k] + 1 /\ Closes(s)
    <3>1. /\ c.op = "event" => ~Has(u, Loud)
          /\ c.op # "event" => c.op \notin Loud \cup {"check"} /\ Closes(u)
      BY <1>1, <2>8, ClosesTail
    <3>2. loop'[k].calls = u /\ loop'[k].pc = loop[k].pc
      BY <2>2, <3>1
    <3>3. CASE c.op = "event"
      <4>1. hist'.ended[k] = hist'.told[k]
        BY <2>3, <2>4, <2>8, <3>3
      <4>2. QED
        BY <2>1, <3>1, <3>2, <3>3, <4>1 DEF Tells
    <3>4. CASE c.op # "event"
      <4>1. hist'.ended[k] = hist'.told[k] + 1
        BY <2>3, <2>4, <2>8, <3>1, <3>4
      <4>2. QED
        BY <2>1, <3>1, <3>2, <3>4, <4>1 DEF Tells
    <3>5. QED
      BY <3>3, <3>4
  <2>9. QED
    BY <2>1, <2>6, <2>7, <2>8 DEF Tells
<1>9. QED
  BY <1>7, <1>8 DEF TellInv

(* Every step keeps it. *)
LEMMA NextTells == IInv /\ TellInv /\ [Next]_vars => TellInv'
<1> SUFFICES ASSUME IInv, TellInv, [Next]_vars
             PROVE  TellInv'
  OBVIOUS
<1>1. ASSUME NEW k \in Key, Results(k)
      PROVE  TellInv'
  BY <1>1, ResultsTell
<1>2. ASSUME NEW k \in Key, Step(k)
      PROVE  TellInv'
  BY <1>2, StepTells
<1>3. ~Has(<< >>, Loud)
  BY HasNone
<1>4. ASSUME NEW k \in Key, Return(k)
      PROVE  TellInv'
  <2>1. loop' = [loop EXCEPT ![k] = Off] /\ UNCHANGED hist /\ loop[k].calls = << >>
    BY <1>4 DEF Return
  <2>2. hist.ended[k] = hist.told[k]
    BY <2>1, NoCallsTold DEF TellInv
  <2>3. loop'[k].calls = << >>
    BY <2>1 DEF Off, IInv, TypeOK
  <2>4. Tells(k)'
    BY <1>3, <2>1, <2>2, <2>3 DEF Tells
  <2>5. ASSUME NEW j \in Key, j # k PROVE Tells(j)'
    <3>1. loop'[j] = loop[j]
      BY <2>1, <2>5 DEF IInv, TypeOK
    <3>2. QED
      BY <2>1, <3>1 DEF Tells, TellInv
  <2>6. QED
    BY <2>4, <2>5 DEF TellInv
<1>5. CASE Add
  <2>1. PICK t \in want \ running :
            /\ Gone(t) /\ UNCHANGED hist
            /\ loop' = [k \in Key |-> IF k[1] = t /\ k[2] \in TargetModes THEN Dial ELSE loop[k]]
    BY <1>5 DEF Add
  <2>2. SUFFICES ASSUME NEW k \in Key PROVE Tells(k)'
    BY DEF TellInv
  <2>3. CASE k[1] = t /\ k[2] \in TargetModes
    <3>1. k = <<t, k[2]>>
      BY <2>3 DEF Key
    <3>2. loop[k].pc = "off"
      BY <2>1, <2>3, <3>1 DEF Gone
    <3>3. loop[k].calls = << >> /\ hist.ended[k] = hist.told[k]
      BY <3>2, NoCallsTold DEF TellInv, Tells
    <3>4. loop'[k] = Dial
      BY <2>1, <2>3
    <3>5. loop'[k].calls = << >>
      BY <3>4 DEF Dial
    <3>6. QED
      BY <1>3, <2>1, <3>3, <3>5 DEF Tells
  <2>4. CASE ~(k[1] = t /\ k[2] \in TargetModes)
    <3>1. loop'[k] = loop[k]
      BY <2>1, <2>4
    <3>2. QED
      BY <2>1, <3>1 DEF Tells, TellInv
  <2>5. QED
    BY <2>3, <2>4
<1>6. ASSUME UNCHANGED loop, hist'.ended = hist.ended, hist'.told = hist.told
      PROVE  TellInv'
  BY <1>6 DEF TellInv, Tells
<1>7. CASE Flush
  <2>1. UNCHANGED loop /\ hist'.ended = hist.ended /\ hist'.told = hist.told
    BY <1>7 DEF Flush, IInv, TypeOK, Hist
  <2>2. QED
    BY <1>6, <2>1
<1>8. CASE Resolve \/ Remove \/ Stop \/ MinuteReturns \/ UNCHANGED vars
  <2>1. UNCHANGED loop /\ UNCHANGED hist
    BY <1>8 DEF Resolve, Remove, Stop, MinuteReturns, vars
  <2>2. QED
    BY <1>6, <2>1
<1>9. QED
  BY <1>1, <1>2, <1>4, <1>5, <1>7, <1>8 DEF Next

(* A connection that ended has its event as soon as its loop is idle, even  *)
(* when its IP is removed or the program stops between the end and the       *)
(* event (long.go:79): no call in between looks at ctx.                      *)
THEOREM EndsAreTold == Spec => []EveryEndIsTold
<1>1. Init => TellInv
  <2>1. SUFFICES ASSUME Init, NEW k \in Key PROVE Tells(k)
    BY DEF TellInv
  <2>2. loop[k].calls = << >> /\ hist.ended[k] = 0 /\ hist.told[k] = 0
    BY <2>1 DEF Init, Dial, Off
  <2>3. QED
    BY <2>2, HasNone DEF Tells
<1>2. TellInv => EveryEndIsTold
  BY NoCallsTold DEF TellInv, EveryEndIsTold
<1>3. QED
  BY <1>1, <1>2, NextTells, LoopsInvariant, PTL DEF Spec

-----------------------------------------------------------------------------
(* One event for one certificate.                                          *)

(* agg.with changes no certificate and no gap. *)
LEMMA WithKeeps ==
    ASSUME NEW a \in AggType, NEW t, NEW mode, NEW b
    PROVE  With(a, t, mode, b).lastFP = a.lastFP /\ With(a, t, mode, b).survived = a.survived
  BY DEF With, AggType

(* Only a certificate seen changes the last one, and only a gap survived the gap. *)
LEMMA CalledElse ==
    ASSUME NEW a \in AggType, NEW k \in Key, NEW c \in Call
    PROVE  /\ c.op # "seen" => Called(a, k, c).lastFP = a.lastFP
           /\ c.op # "survived" => Called(a, k, c).survived = a.survived
           /\ c.op = "seen" => Called(a, k, c).lastFP =
                  [a.lastFP EXCEPT ![k[1]] = c.fp]
           /\ c.op = "survived" => Called(a, k, c).survived =
                  IF Collects(a, k[1], "idle") THEN [a.survived EXCEPT ![k[1]] = c.n] ELSE a.survived
<1> DEFINE t    == k[1]
           mode == k[2]
           d    == Called(a, k, c)
<1>1. c.op \in {"fail", "intercepted", "seen", "sni", "reset", "connected", "ping", "lostPing",
                 "drop", "closed", "survived", "died", "event", "check"}
      /\ t \in Target
  BY DEF Call, Key
<1>2. CASE c.op = "seen"
  <2>1. d = IF News(a, t, c.fp) THEN Seen(a, t, c.fp) ELSE a
    BY <1>2 DEF Called
  <2>2. Seen(a, t, c.fp).lastFP = [a.lastFP EXCEPT ![t] = c.fp] /\ Seen(a, t, c.fp).survived = a.survived
    BY DEF Seen, AggType
  <2>3. ~News(a, t, c.fp) => [a.lastFP EXCEPT ![t] = c.fp] = a.lastFP
    BY DEF News, AggType
  <2>4. QED
    BY <1>2, <2>1, <2>2, <2>3
<1>3. CASE c.op = "survived"
  <2>1. d = IdleSurvived(a, t, c.n)
    BY <1>3 DEF Called
  <2>2. QED
    BY <1>3, <2>1 DEF IdleSurvived, AggType
<1>4. CASE c.op \in {"event", "check"}
  <2>1. d = a
    BY <1>4 DEF Called
  <2>2. QED
    BY <1>4, <2>1
<1>5. CASE c.op \notin {"seen", "survived", "event", "check"}
  <2>1. d.lastFP = a.lastFP /\ d.survived = a.survived
    <3>1. CASE c.op = "fail"
      BY <3>1, WithKeeps DEF Called, Fail
    <3>2. CASE c.op = "intercepted"
      BY <3>2, WithKeeps DEF Called, Intercepted
    <3>3. CASE c.op = "sni"
      BY <3>3, WithKeeps DEF Called, Sni
    <3>4. CASE c.op = "reset"
      BY <3>4, WithKeeps DEF Called, Reset
    <3>5. CASE c.op = "connected"
      BY <3>5, WithKeeps DEF Called, Connected
    <3>6. CASE c.op = "ping"
      BY <3>6, WithKeeps DEF Called, Ping
    <3>7. CASE c.op = "lostPing"
      BY <3>7, WithKeeps DEF Called, LostPing
    <3>8. CASE c.op = "drop"
      BY <3>8, WithKeeps DEF Called, Drop
    <3>9. CASE c.op = "closed"
      BY <3>9, WithKeeps DEF Called, ServerClosed
    <3>10. CASE c.op = "died"
      BY <3>10, WithKeeps DEF Called, IdleDied
    <3>11. QED
      BY <1>1, <1>5, <3>1, <3>2, <3>3, <3>4, <3>5, <3>6, <3>7, <3>8, <3>9, <3>10
  <2>2. QED
    BY <1>5, <2>1
<1>6. QED
  BY <1>2, <1>3, <1>4, <1>5

(* While a target shows no other certificate than f, it was announced once at *)
(* most, and then f is the last one seen.                                     *)
OnePrint(t, f) ==
    hist.prints[t] \subseteq {f} =>
        /\ hist.announced[t] \in {0, 1}
        /\ hist.announced[t] = 1 => agg.lastFP[t] = f
PrintInv == \A t \in Target : IsFiniteSet(hist.prints[t]) /\ \A f : OnePrint(t, f)

(* One call of one loop: only a certificate seen matters. *)
LEMMA StepPrints ==
    ASSUME IInv, PrintInv, NEW k \in Key, Step(k)
    PROVE  PrintInv'
<1> DEFINE c == Head(loop[k].calls)
           t == k[1]
<1>1. loop[k].calls \in Seq(Call) /\ loop[k].calls # << >> /\ t \in Target
  BY DEF Step, IInv, TypeOK, Loop, Key
<1>2. c \in Call
  BY <1>1
<1>3. agg' = Called(agg, k, c) /\ hist' = Noted(k, c)
  BY DEF Step
<1> HIDE DEF c
<1>4. /\ hist'.announced = [hist.announced EXCEPT
                                ![t] = @ + (IF c.op = "seen" /\ News(agg, t, c.fp) THEN 1 ELSE 0)]
      /\ hist'.prints = [hist.prints EXCEPT ![t] = @ \cup (IF c.op = "seen" THEN {c.fp} ELSE {})]
  BY <1>3 DEF Noted, IInv, TypeOK, Hist
<1>5. /\ hist.announced \in [Target -> Nat] /\ agg \in AggType
      /\ hist.prints \in [Target -> SUBSET (Fingerprint \cup {NoPrint})]
      /\ agg.lastFP \in [Target -> Fingerprint \cup {NoPrint}]
  BY DEF IInv, TypeOK, Hist, AggType
<1>6. /\ c.op # "seen" => agg'.lastFP = agg.lastFP
      /\ c.op = "seen" => agg'.lastFP = [agg.lastFP EXCEPT ![t] = c.fp]
  <2>1. c.op # "seen" => Called(agg, k, c).lastFP = agg.lastFP
    BY <1>2, <1>5, CalledElse
  <2>2. c.op = "seen" => Called(agg, k, c).lastFP = [agg.lastFP EXCEPT ![k[1]] = c.fp]
    BY <1>2, <1>5, CalledElse
  <2>3. QED
    BY <1>3, <2>1, <2>2
<1> HIDE DEF t
<1>7. ASSUME NEW u \in Target, c.op # "seen" \/ u # t
      PROVE  (IsFiniteSet(hist.prints[u]) /\ \A f : OnePrint(u, f))'
  <2>1. /\ hist'.announced[u] = hist.announced[u] /\ hist'.prints[u] = hist.prints[u]
        /\ agg'.lastFP[u] = agg.lastFP[u]
    <3>1. CASE u # t
      BY <1>4, <1>5, <1>6, <3>1
    <3>2. CASE u = t /\ c.op # "seen"
      <4>1. hist'.announced[u] = hist.announced[u] + 0 /\ hist.announced[u] \in Nat
        BY <1>4, <1>5, <3>2
      <4>2. hist'.prints[u] = hist.prints[u] \cup {}
        BY <1>4, <1>5, <3>2
      <4>3. QED
        BY <1>6, <3>2, <4>1, <4>2
    <3>3. QED
      BY <1>7, <3>1, <3>2
  <2>2. IsFiniteSet(hist.prints[u]) /\ \A f : OnePrint(u, f)
    BY DEF PrintInv
  <2>3. QED
    BY <2>1, <2>2 DEF OnePrint
<1>8. ASSUME c.op = "seen"
      PROVE  (IsFiniteSet(hist.prints[t]) /\ \A f : OnePrint(t, f))'
  <2>1. /\ hist'.prints[t] = hist.prints[t] \cup {c.fp} /\ agg'.lastFP[t] = c.fp
        /\ hist'.announced[t] = hist.announced[t] + (IF News(agg, t, c.fp) THEN 1 ELSE 0)
    BY <1>1, <1>4, <1>5, <1>6, <1>8 DEF t
  <2>2. IsFiniteSet(hist.prints[t]) /\ OnePrint(t, c.fp)
    BY <1>1 DEF PrintInv, t
  <2>3. IsFiniteSet(hist'.prints[t])
    BY <2>1, <2>2, FS_AddElement
  <2>4. ASSUME NEW f, hist'.prints[t] \subseteq {f}
        PROVE  hist'.announced[t] \in {0, 1} /\ agg'.lastFP[t] = f
    <3>1. f = c.fp /\ hist.prints[t] \subseteq {c.fp}
      BY <2>1, <2>4
    <3>2. hist.announced[t] \in {0, 1} /\ (hist.announced[t] = 1 => ~News(agg, t, c.fp))
      BY <2>2, <3>1 DEF OnePrint, News
    <3>3. QED
      BY <2>1, <3>1, <3>2
  <2>5. QED
    BY <2>3, <2>4 DEF OnePrint
<1>9. QED
  BY <1>7, <1>8 DEF PrintInv

(* Every step keeps it. *)
LEMMA NextPrints == IInv /\ PrintInv /\ [Next]_vars => PrintInv'
<1> SUFFICES ASSUME IInv, PrintInv, [Next]_vars
             PROVE  PrintInv'
  OBVIOUS
<1>1. ASSUME UNCHANGED hist, agg'.lastFP = agg.lastFP
      PROVE  PrintInv'
  BY <1>1 DEF PrintInv, OnePrint
<1>2. ASSUME NEW k \in Key, Results(k) \/ Return(k)
      PROVE  PrintInv'
  <2>1. UNCHANGED <<agg, hist>>
    BY <1>2 DEF Results, Return, Short, Compare, DialFails, DialSucceeds, LongPing, LongEnds, IdlePing,
                IdleEnds, Result, Owes
  <2>2. QED
    BY <1>1, <2>1
<1>3. ASSUME NEW k \in Key, Step(k)
      PROVE  PrintInv'
  BY <1>3, StepPrints
<1>4. CASE Add
  <2>1. UNCHANGED hist /\ \E t : agg' = Register(agg, t, TargetModes)
    BY <1>4 DEF Add
  <2>2. agg'.lastFP = agg.lastFP
    BY <2>1 DEF Register, IInv, TypeOK, AggType
  <2>3. QED
    BY <1>1, <2>1, <2>2
<1>5. CASE Remove
  <2>1. UNCHANGED hist /\ \E t : agg' = Unregister(agg, t)
    BY <1>5 DEF Remove
  <2>2. agg'.lastFP = agg.lastFP
    BY <2>1 DEF Unregister, IInv, TypeOK, AggType
  <2>3. QED
    BY <1>1, <2>1, <2>2
<1>6. CASE Flush
  <2> DEFINE gone == Forgotten(agg)
  <2>1. /\ hist'.announced = [t \in Target |-> IF t \in gone THEN 0 ELSE hist.announced[t]]
        /\ hist'.prints = [t \in Target |-> IF t \in gone THEN {} ELSE hist.prints[t]]
    BY <1>6 DEF Flush, IInv, TypeOK, Hist
  <2>2. agg'.lastFP = [t \in Target |-> IF t \in gone THEN NoPrint ELSE agg.lastFP[t]]
    BY <1>6 DEF Flush, Flushed
  <2> HIDE DEF gone
  <2>3. SUFFICES ASSUME NEW t \in Target
                 PROVE  (IsFiniteSet(hist.prints[t]) /\ \A f : OnePrint(t, f))'
    BY DEF PrintInv
  <2>4. CASE t \in gone
    <3>1. hist'.announced[t] = 0 /\ hist'.prints[t] = {}
      BY <2>1, <2>4
    <3>2. QED
      BY <3>1, FS_EmptySet DEF OnePrint
  <2>5. CASE t \notin gone
    <3>1. /\ hist'.announced[t] = hist.announced[t] /\ hist'.prints[t] = hist.prints[t]
          /\ agg'.lastFP[t] = agg.lastFP[t]
      BY <2>1, <2>2, <2>5
    <3>2. QED
      BY <3>1 DEF PrintInv, OnePrint
  <2>6. QED
    BY <2>4, <2>5
<1>7. CASE Resolve \/ Stop \/ MinuteReturns \/ UNCHANGED vars
  <2>1. UNCHANGED hist /\ UNCHANGED agg
    BY <1>7 DEF Resolve, Stop, MinuteReturns, vars
  <2>2. QED
    BY <1>1, <2>1
<1>8. QED
  BY <1>2, <1>3, <1>4, <1>5, <1>6, <1>7 DEF Next

(* As long as a target presents one and the same bad certificate, to any of *)
(* its loops in any minute, one event tells so (agg.go:364-373).            *)
THEOREM CertificatesAreToldOnce == Spec => []OneEventPerCertificate
<1>1. Init => PrintInv
  BY FS_EmptySet DEF Init, PrintInv, OnePrint
<1>2. PrintInv => OneEventPerCertificate
  <2>1. SUFFICES ASSUME PrintInv, NEW t \in Target, Cardinality(hist.prints[t]) = 1
                 PROVE  hist.announced[t] <= 1
    BY DEF OneEventPerCertificate
  <2>2. PICK f : hist.prints[t] = {f}
    BY <2>1, FS_Singleton DEF PrintInv
  <2>3. OnePrint(t, f)
    BY <2>1 DEF PrintInv
  <2>4. hist.announced[t] \in {0, 1}
    BY <2>2, <2>3 DEF OnePrint
  <2>5. QED
    BY <2>4
<1>3. QED
  BY <1>1, <1>2, NextPrints, LoopsInvariant, PTL DEF Spec

-----------------------------------------------------------------------------
(* The gap an idle connection survived is its own.                         *)

Gap == {"survived"}

(* While an idle connection of a running IP is up, survived_s is its best   *)
(* gap, or will be with the call it owes; no other loop calls for it.        *)
SurvivedOf(k) ==
    /\ k[2] # "idle" => ~Has(loop[k].calls, Gap)
    /\ k[2] = "idle" /\ k[1] \in running /\ loop[k].pc = "session" =>
          \/ Survives(loop[k].calls, loop[k].best)
          \/ ~Has(loop[k].calls, Gap) /\ agg.survived[k[1]] = loop[k].best
SurvivedInv == \A k \in Key : SurvivedOf(k)

(* A gap that survived, behind calls that are none. *)
LEMMA SurvivesAfter ==
    ASSUME NEW s \in Seq(Call), ~Has(s, Gap), NEW c \in Call, c.op = "survived"
    PROVE  Survives(s \o <<c>>, c.n)
<1> DEFINE t == <<c>>
           u == s \o t
<1>1. t \in Seq(Call) /\ Len(t) = 1 /\ t[1] = c
  BY DoTyped
<1> HIDE DEF t
<1>2. /\ Len(s) \in Nat /\ Len(u) = Len(s) + 1 /\ DOMAIN s = 1 .. Len(s) /\ DOMAIN u = 1 .. (Len(s) + 1)
      /\ u \in Seq(Call) /\ u[Len(s) + 1] = c
  BY <1>1, ConcatIs
<1>3. u # << >>
  BY <1>2, EmptySeq
<1>4. ASSUME NEW i \in DOMAIN u, u[i].op = "survived" PROVE i = Len(u)
  <2>1. CASE i \in 1 .. Len(s)
    <3>1. u[i] = s[i] /\ i \in DOMAIN s
      BY <1>1, <1>2, <2>1, ConcatIs
    <3>2. QED
      BY <1>4, <3>1 DEF Has, Gap
  <2>2. QED
    BY <1>2, <2>1
<1>5. u[Len(u)] = c
  BY <1>2
<1> HIDE DEF u
<1>6. Survives(u, c.n)
  BY <1>3, <1>4, <1>5 DEF Survives
<1>7. QED
  BY <1>6 DEF u, t

(* An idle loop without calls has its gap recorded. *)
LEMMA NoCallsSurvived ==
    ASSUME NEW k \in Key, SurvivedOf(k), loop[k].calls = << >>, k[2] = "idle", k[1] \in running,
           loop[k].pc = "session"
    PROVE  agg.survived[k[1]] = loop[k].best
  BY DEF SurvivedOf, Survives

(* What a loop owes for a result, with the gap its connection survived. *)
LEMMA OwesSurvived ==
    ASSUME IInv, SurvivedInv, NEW k \in Key, NEW l \in Loop, NEW calls \in Seq(Call), Owes(k, l, calls),
           k[2] # "idle" => ~Has(calls, Gap),
           k[2] = "idle" /\ k[1] \in running /\ l.pc = "session" =>
               \/ Survives(calls, l.best)
               \/ ~Has(calls, Gap) /\ agg.survived[k[1]] = l.best
    PROVE  SurvivedInv'
<1>1. loop' = [loop EXCEPT ![k] = [l EXCEPT !.calls = calls]] /\ UNCHANGED <<agg, running>>
  BY DEF Owes
<1>2. loop'[k].calls = calls /\ loop'[k].pc = l.pc /\ loop'[k].best = l.best
  BY <1>1 DEF IInv, TypeOK, Loop
<1>3. SurvivedOf(k)'
  BY <1>1, <1>2 DEF SurvivedOf
<1>4. ASSUME NEW j \in Key, j # k PROVE SurvivedOf(j)'
  <2>1. loop'[j] = loop[j]
    BY <1>1, <1>4 DEF IInv, TypeOK
  <2>2. QED
    BY <1>1, <2>1 DEF SurvivedOf, SurvivedInv
<1>5. QED
  BY <1>3, <1>4 DEF SurvivedInv

(* Every result of every loop. *)
LEMMA ResultsSurvived ==
    ASSUME IInv, SurvivedInv, NEW k \in Key, Results(k)
    PROVE  SurvivedInv'
<1>1. loop[k] \in Loop
  BY DEF IInv, TypeOK
<1>2. Dial \in Loop /\ Dial.pc = "dial"
  BY LoopAssumption, EmptySeq DEF Dial, Loop
<1>3. Gap \cap {"fail", "intercepted", "seen", "sni", "reset", "connected"} = {}
  BY DEF Gap
<1>4. (\A lost \in 0 .. 1 : lost \in Nat) /\ (\A b : (IF b THEN "host" ELSE "none") \in Variant)
  BY DEF Variant
<1>5. CASE Short(k)
  <2> DEFINE v == IF loop[k].sni THEN "host" ELSE "none"
             l == [loop[k] EXCEPT !.sni = Named /\ ~@]
  <2>1. PICK class \in Class \cup {""}, lost \in 0 .. 1, fp \in Fingerprint :
            Result(k, l, ShortCalls(v, class, lost, fp))
    BY <1>5 DEF Short
  <2>2. k[2] = "short"
    BY <1>5 DEF Short
  <2>3. l \in Loop
    BY <1>1, LoopAssumption DEF Loop
  <2>4. lost \in Nat /\ v \in Variant
    BY <1>4, Zenon
  <2> HIDE DEF v, l
  <2> DEFINE calls == ShortCalls(v, class, lost, fp)
  <2>5. calls \in Seq(Call) /\ ~Has(calls, Gap)
    BY <1>3, <2>4, ShortCallsTyped, ShortCallsQuiet
  <2> HIDE DEF calls
  <2>6. Owes(k, l, calls)
    BY <2>1 DEF Result, calls
  <2>7. QED
    BY <2>2, <2>3, <2>5, <2>6, OwesSurvived
<1>6. CASE Compare(k)
  <2>1. PICK class \in {"", "other", "reset"}, lost \in 0 .. 1 :
            Result(k, loop[k], CompareCalls(class, lost))
    BY <1>6 DEF Compare
  <2>2. k[2] = "compare"
    BY <1>6 DEF Compare
  <2>3. lost \in Nat
    BY <1>4, Zenon
  <2> DEFINE calls == CompareCalls(class, lost)
  <2>4. calls \in Seq(Call) /\ ~Has(calls, Gap)
    BY <1>3, <2>3, CompareCallsTyped, CompareCallsQuiet
  <2> HIDE DEF calls
  <2>5. Owes(k, loop[k], calls)
    BY <2>1 DEF Result, calls
  <2>6. QED
    BY <1>1, <2>2, <2>4, <2>5, OwesSurvived
<1>7. CASE DialFails(k)
  <2>1. PICK class \in Class, fp \in Fingerprint : Result(k, loop[k], NoteFailure(class, fp))
    BY <1>7 DEF DialFails
  <2>2. loop[k].pc = "dial"
    BY <1>7 DEF DialFails, At
  <2> DEFINE calls == NoteFailure(class, fp)
  <2>3. calls \in Seq(Call) /\ ~Has(calls, Gap)
    BY <1>3, NoteFailureTyped, NoteFailureQuiet
  <2> HIDE DEF calls
  <2>4. Owes(k, loop[k], calls)
    BY <2>1 DEF Result, calls
  <2>5. QED
    BY <1>1, <2>2, <2>3, <2>4, OwesSurvived
<1>8. CASE DialSucceeds(k)
  <2> DEFINE l == [loop[k] EXCEPT !.pc = "session", !.gap = 0, !.best = 0]
             calls == Dialed(k[2])
  <2>1. l \in Loop
    BY <1>1, SessionTyped
  <2>2. l.best = 0
    BY <1>1 DEF Loop
  <2>3. calls \in Seq(Call)
    BY PlainCalls, DoTyped, IfTyped DEF Dialed
  <2>4. k[2] = "idle" => Survives(calls, 0)
    <3>1. Do("survived").op = "survived" /\ Do("survived").n = 0
      BY DEF Do
    <3>2. k[2] = "idle" => calls = <<Do("survived")>>
      BY DEF Dialed, If
    <3>3. Survives(<<Do("survived")>>, 0)
      BY <3>1 DEF Survives
    <3>4. QED
      BY <3>2, <3>3
  <2>5. k[2] # "idle" => ~Has(calls, Gap)
    BY HasNone DEF Dialed, If
  <2> HIDE DEF l
  <2>6. Owes(k, l, calls)
    BY <1>8 DEF DialSucceeds, l
  <2> HIDE DEF calls
  <2>7. QED
    BY <2>1, <2>2, <2>3, <2>4, <2>5, <2>6, OwesSurvived
<1>9. CASE LongPing(k)
  <2>1. k[2] = "long"
    BY <1>9 DEF LongPing
  <2>2. PICK calls \in {<<Do("ping")>>, <<Do("lostPing")>>} : Owes(k, loop[k], calls)
    BY <1>9 DEF LongPing, Result
  <2>3. calls \in Seq(Call)
    BY <2>2, PlainCalls, DoTyped
  <2>4. ~Has(calls, Gap)
    <3>1. Do("ping").op \notin Gap /\ Do("lostPing").op \notin Gap
      BY DEF Do, Gap
    <3>2. QED
      BY <2>2, <3>1, HasOne
  <2>5. QED
    BY <1>1, <2>1, <2>2, <2>3, <2>4, OwesSurvived
<1>10. CASE LongEnds(k)
  <2>1. k[2] = "long"
    BY <1>10 DEF LongEnds
  <2>2. PICK goaway \in BOOLEAN, class \in {"other", "reset"} :
            Result(k, Dial, LongEnded(goaway, class))
    BY <1>10 DEF LongEnds
  <2> DEFINE calls == LongEnded(goaway, class)
             h == <<IF goaway THEN Do("closed") ELSE Do("drop")>>
             r == If(~goaway /\ class = "reset", <<Do("reset")>>)
             t == <<Do("event")>>
  <2>3. h \in Seq(Call) /\ ~Has(h, Gap)
    <3>1. Do("closed").op \notin Gap /\ Do("drop").op \notin Gap
      BY DEF Do, Gap
    <3>2. QED
      BY <3>1, PlainCalls, DoTyped, HasOne
  <2>4. r \in Seq(Call) /\ ~Has(r, Gap)
    <3>1. Do("reset").op \notin Gap
      BY DEF Do, Gap
    <3>2. QED
      BY <3>1, PlainCalls, DoTyped, IfTyped, HasOne, HasIf
  <2>5. t \in Seq(Call) /\ ~Has(t, Gap)
    <3>1. Do("event").op \notin Gap
      BY DEF Do, Gap
    <3>2. QED
      BY <3>1, PlainCalls, DoTyped, HasOne
  <2>6. calls = (h \o r) \o t
    BY DEF LongEnded, Ended
  <2> HIDE DEF h, r, t
  <2>7. h \o r \in Seq(Call) /\ ~Has(h \o r, Gap)
    BY <2>3, <2>4, ConcatProperties, HasConcat
  <2>8. (h \o r) \o t \in Seq(Call) /\ ~Has((h \o r) \o t, Gap)
    BY <2>5, <2>7, ConcatProperties, HasConcat
  <2>9. Owes(k, Dial, calls)
    BY <2>2 DEF Result
  <2> HIDE DEF calls
  <2>10. QED
    BY <1>2, <2>1, <2>6, <2>8, <2>9, OwesSurvived
<1>11. CASE IdlePing(k)
  <2> DEFINE gap  == loop[k].gap
             best == IF gap > loop[k].best THEN gap ELSE loop[k].best
             l    == [loop[k] EXCEPT !.gap = Longer(@), !.best = best]
             p    == <<Do("ping"), Do("check")>>
             c    == [Do("survived") EXCEPT !.n = best]
             tail == If(gap > 0, <<c>>)
  <2>1. gap \in 0 .. MaxGap /\ loop[k].best \in 0 .. MaxGap
    BY <1>1 DEF Loop
  <2>2. best \in 0 .. MaxGap /\ best \in Nat
    BY <2>1, LoopAssumption
  <2>3. Longer(gap) \in 0 .. MaxGap
    BY <2>1, LoopAssumption DEF Longer
  <2>4. l \in Loop /\ l.best = best
    BY <1>1, <2>2, <2>3 DEF Loop
  <2>5. c \in Call /\ c.op = "survived" /\ c.n = best
    BY <2>2, CallsWithArguments DEF Do
  <2>6. p \in Seq(Call)
    BY PlainCalls
  <2>7. ~Has(p, Gap)
    <3>1. Do("ping").op \notin Gap /\ Do("check").op \notin Gap
      BY DEF Do, Gap
    <3>2. QED
      BY <3>1, HasTwo
  <2>8. Owes(k, l, p \o tail)
    BY <1>11 DEF IdlePing, Result
  <2>9. loop[k].pc = "session" /\ loop[k].calls = << >> /\ k[2] = "idle"
    BY <1>11 DEF IdlePing, At
  <2>10. gap = 0 => best = loop[k].best
    BY <2>1, LoopAssumption
  <2>11. gap # 0 => gap > 0
    BY <2>1, LoopAssumption
  <2>12. tail = IF gap > 0 THEN <<c>> ELSE << >>
    BY DEF If
  <2>13. k[1] \in running => agg.survived[k[1]] = loop[k].best
    BY <2>9, NoCallsSurvived DEF SurvivedInv
  <2> HIDE DEF l, tail, p, c, best
  <2>14. CASE gap > 0
    <3>1. p \o <<c>> \in Seq(Call) /\ Survives(p \o <<c>>, best)
      BY <2>5, <2>6, <2>7, DoTyped, ConcatProperties, SurvivesAfter
    <3>2. QED
      BY <2>4, <2>8, <2>9, <2>12, <2>14, <3>1, OwesSurvived
  <2>15. CASE gap = 0
    <3>1. p \o << >> \in Seq(Call) /\ ~Has(p \o << >>, Gap)
      BY <2>6, <2>7, EmptySeq, ConcatProperties, HasNone, HasConcat
    <3>2. tail = << >>
      BY <2>12, <2>15
    <3>3. QED
      BY <2>4, <2>8, <2>9, <2>10, <2>13, <2>15, <3>1, <3>2, OwesSurvived
  <2>16. QED
    BY <2>11, <2>14, <2>15
<1>12. CASE IdleEnds(k)
  <2> DEFINE g == loop[k].gap
             p == <<Do("lostPing"), Do("check")>>
  <2>1. k[2] = "idle" /\ g \in Nat
    BY <1>1, <1>12, LoopAssumption DEF IdleEnds, Loop
  <2>2. p \in Seq(Call)
    BY PlainCalls
  <2>3. PICK goaway \in BOOLEAN, class \in {"other", "reset"} :
            \/ Owes(k, Dial, IdleEnded(goaway, class, g))
            \/ Owes(k, Dial, p \o IdleEnded(goaway, class, g))
    BY <1>12 DEF IdleEnds, Result
  <2> DEFINE s == IdleEnded(goaway, class, g)
  <2>4. s \in Seq(Call)
    BY <2>1, EndedTyped
  <2> HIDE DEF s, p
  <2>5. p \o s \in Seq(Call)
    BY <2>2, <2>4, ConcatProperties
  <2>6. Owes(k, Dial, s) \/ Owes(k, Dial, p \o s)
    BY <2>3 DEF s
  <2>7. QED
    BY <1>2, <2>1, <2>4, <2>5, <2>6, OwesSurvived
<1>13. QED
  BY <1>5, <1>6, <1>7, <1>8, <1>9, <1>10, <1>11, <1>12 DEF Results

(* One call of one loop: the gap is recorded in the agg, whose bucket is there. *)
LEMMA StepSurvived ==
    ASSUME IInv, SurvivedInv, NEW k \in Key, Step(k)
    PROVE  SurvivedInv'
<1> DEFINE s == loop[k].calls
           c == Head(s)
<1>1. loop[k] \in Loop /\ s \in Seq(Call) /\ s # << >> /\ loop \in [Key -> Loop]
  BY DEF Step, IInv, TypeOK, Loop
<1>2. c \in Call /\ Tail(s) \in Seq(Call)
  BY <1>1
<1>3. agg' = Called(agg, k, c) /\ UNCHANGED running
  BY DEF Step
<1>4. loop' = [loop EXCEPT ![k] = IF c.op = "check" /\ Cancelled(k[1]) THEN Off
                                  ELSE [loop[k] EXCEPT !.calls = Tail(s)]]
  BY DEF Step
<1>5. agg \in AggType /\ agg.survived \in [Target -> Nat]
  BY DEF IInv, TypeOK, AggType
<1>6. /\ c.op # "survived" => agg'.survived = agg.survived
      /\ c.op = "survived" /\ Collects(agg, k[1], "idle") =>
             agg'.survived = [agg.survived EXCEPT ![k[1]] = c.n]
      /\ c.op = "survived" => \/ agg'.survived = [agg.survived EXCEPT ![k[1]] = c.n]
                              \/ agg'.survived = agg.survived
  <2>1. c.op # "survived" => Called(agg, k, c).survived = agg.survived
    BY <1>2, <1>5, CalledElse
  <2>2. c.op = "survived" => Called(agg, k, c).survived =
            IF Collects(agg, k[1], "idle") THEN [agg.survived EXCEPT ![k[1]] = c.n] ELSE agg.survived
    BY <1>2, <1>5, CalledElse
  <2>3. QED
    BY <1>3, <2>1, <2>2
<1>7. SurvivedOf(k)
  BY DEF SurvivedInv
<1>8. c.op = "survived" => k[2] = "idle"
  <2>1. ~Has(s, Gap) => c.op \notin Gap
    BY <1>1, HasTail
  <2>2. QED
    BY <1>7, <2>1 DEF SurvivedOf, Gap
<1>9. ASSUME NEW j \in Key, j # k PROVE SurvivedOf(j)'
  <2>1. loop'[j] = loop[j]
    BY <1>1, <1>4, <1>9
  <2>2. ASSUME j[2] = "idle" PROVE agg'.survived[j[1]] = agg.survived[j[1]]
    <3>1. CASE c.op # "survived"
      BY <1>6, <3>1
    <3>2. CASE c.op = "survived"
      <4>1. j[1] # k[1] /\ j[1] \in Target
        BY <1>8, <1>9, <2>2, <3>2 DEF Key
      <4>2. QED
        BY <1>5, <1>6, <3>2, <4>1
    <3>3. QED
      BY <3>1, <3>2
  <2>3. SurvivedOf(j)
    BY DEF SurvivedInv
  <2>4. QED
    BY <1>3, <2>1, <2>2, <2>3 DEF SurvivedOf
<1>10. SurvivedOf(k)'
  <2>1. ~Has(<< >>, Gap)
    BY HasNone
  <2>2. CASE c.op = "check" /\ Cancelled(k[1])
    <3>1. loop'[k] = Off
      BY <1>1, <1>4, <2>2
    <3>2. loop'[k].calls = << >> /\ loop'[k].pc = "off"
      BY <3>1 DEF Off
    <3>3. QED
      BY <2>1, <3>2 DEF SurvivedOf
  <2>3. CASE ~(c.op = "check" /\ Cancelled(k[1]))
    <3> DEFINE u == Tail(s)
    <3>1. loop'[k].calls = u /\ loop'[k].pc = loop[k].pc /\ loop'[k].best = loop[k].best
      BY <1>1, <1>4, <2>3 DEF Loop
    <3>2. ~Has(s, Gap) => ~Has(u, Gap) /\ c.op # "survived"
      BY <1>1, HasTail DEF Gap
    <3>3. \A n : Survives(s, n) => /\ c.op = "survived" => c.n = n /\ u = << >>
                                   /\ c.op # "survived" => Survives(u, n)
      BY <1>1, SurvivesTail
    <3>4. ASSUME k[2] = "idle", k[1] \in running, loop[k].pc = "session"
          PROVE  \/ Survives(u, loop[k].best)
                 \/ ~Has(u, Gap) /\ agg'.survived[k[1]] = loop[k].best
      <4>1. CASE Survives(s, loop[k].best) /\ c.op = "survived"
        <5>1. c.n = loop[k].best /\ u = << >>
          BY <3>3, <4>1
        <5>2. loop[k] # Off /\ k[1] \in Target /\ k = <<k[1], "idle">>
          BY <3>4 DEF Off, Key
        <5>3. k[2] \in ModesOf(k[1]) /\ k[1] \in agg.targets
          BY <3>4, <5>2 DEF IInv, LoopsAreOfAMode, RunningIsMeasured
        <5>4. k \in Flushes(agg)
          BY <5>2, <5>3 DEF IInv, ModesKnown, Flushes
        <5>5. Collects(agg, k[1], "idle")
          BY <5>2, <5>4 DEF IInv, EveryModeHasItsBucket, Collects
        <5>6. agg'.survived[k[1]] = c.n
          BY <1>5, <1>6, <4>1, <5>2, <5>5
        <5>7. QED
          BY <2>1, <5>1, <5>6
      <4>2. CASE Survives(s, loop[k].best) /\ c.op # "survived"
        BY <3>3, <4>2
      <4>3. CASE ~Has(s, Gap) /\ agg.survived[k[1]] = loop[k].best
        BY <1>6, <3>2, <4>3
      <4>4. QED
        BY <1>7, <3>4, <4>1, <4>2, <4>3 DEF SurvivedOf
    <3>5. k[2] # "idle" => ~Has(u, Gap)
      BY <1>7, <3>2 DEF SurvivedOf
    <3> HIDE DEF u
    <3>6. QED
      BY <1>3, <3>1, <3>4, <3>5 DEF SurvivedOf
  <2>4. QED
    BY <2>2, <2>3
<1>11. QED
  BY <1>9, <1>10 DEF SurvivedInv

(* Every step keeps it. *)
LEMMA NextSurvived == IInv /\ SurvivedInv /\ [Next]_vars => SurvivedInv'
<1> SUFFICES ASSUME IInv, SurvivedInv, [Next]_vars
             PROVE  SurvivedInv'
  OBVIOUS
<1>1. ASSUME NEW k \in Key, Results(k)
      PROVE  SurvivedInv'
  BY <1>1, ResultsSurvived
<1>2. ASSUME NEW k \in Key, Step(k)
      PROVE  SurvivedInv'
  BY <1>2, StepSurvived
<1>3. ~Has(<< >>, Gap)
  BY HasNone
<1>4. ASSUME NEW k \in Key, Return(k)
      PROVE  SurvivedInv'
  <2>1. loop' = [loop EXCEPT ![k] = Off] /\ UNCHANGED <<agg, running>>
    BY <1>4 DEF Return
  <2>2. loop'[k].calls = << >> /\ loop'[k].pc = "off"
    BY <2>1 DEF Off, IInv, TypeOK
  <2>3. ASSUME NEW j \in Key PROVE SurvivedOf(j)'
    <3>1. CASE j = k
      BY <1>3, <2>2, <3>1 DEF SurvivedOf
    <3>2. CASE j # k
      <4>1. loop'[j] = loop[j]
        BY <2>1, <3>2 DEF IInv, TypeOK
      <4>2. QED
        BY <2>1, <4>1 DEF SurvivedOf, SurvivedInv
    <3>3. QED
      BY <3>1, <3>2
  <2>4. QED
    BY <2>3 DEF SurvivedInv
<1>5. CASE Add
  <2>1. PICK t \in want \ running :
            /\ Gone(t) /\ running' = running \cup {t} /\ agg' = Register(agg, t, TargetModes)
            /\ loop' = [k \in Key |-> IF k[1] = t /\ k[2] \in TargetModes THEN Dial ELSE loop[k]]
    BY <1>5 DEF Add
  <2>2. agg'.survived = agg.survived
    BY <2>1 DEF Register, IInv, TypeOK, AggType
  <2>3. t \notin Compared
    BY DEF IInv, TypeOK, HostIP
  <2>4. SUFFICES ASSUME NEW k \in Key PROVE SurvivedOf(k)'
    BY DEF SurvivedInv
  <2>5. CASE k[1] = t /\ k[2] \in TargetModes
    <3>1. loop'[k] = Dial
      BY <2>1, <2>5
    <3>2. loop'[k].calls = << >> /\ loop'[k].pc = "dial"
      BY <3>1 DEF Dial
    <3>3. QED
      BY <1>3, <3>2 DEF SurvivedOf
  <2>6. CASE k[1] = t /\ k[2] \notin TargetModes
    <3>1. loop[k] = Off /\ loop'[k] = loop[k]
      BY <2>1, <2>3, <2>6 DEF IInv, LoopsAreOfAMode, ModesOf
    <3>2. loop'[k].calls = << >> /\ loop'[k].pc = "off"
      BY <3>1 DEF Off
    <3>3. QED
      BY <1>3, <3>2 DEF SurvivedOf
  <2>7. CASE k[1] # t
    <3>1. loop'[k] = loop[k] /\ (k[1] \in running' <=> k[1] \in running)
      BY <2>1, <2>7
    <3>2. QED
      BY <2>2, <3>1 DEF SurvivedOf, SurvivedInv
  <2>8. QED
    BY <2>5, <2>6, <2>7
<1>6. CASE Remove
  <2>1. PICK t : running' = running \ {t} /\ agg' = Unregister(agg, t)
    BY <1>6 DEF Remove
  <2>2. agg'.survived = agg.survived /\ running' \subseteq running /\ UNCHANGED loop
    BY <1>6, <2>1 DEF Remove, Unregister, IInv, TypeOK, AggType
  <2>3. QED
    BY <2>2 DEF SurvivedOf, SurvivedInv
<1>7. CASE Flush
  <2>1. agg'.survived = [t \in Target |-> IF t \in Forgotten(agg) THEN 0 ELSE agg.survived[t]]
    BY <1>7 DEF Flush, Flushed
  <2>2. UNCHANGED <<loop, running>>
    BY <1>7 DEF Flush
  <2>3. \A t \in running : t \in Target /\ agg'.survived[t] = agg.survived[t]
    BY <2>1 DEF Forgotten, IInv, TypeOK, HostIP, RunningIsMeasured
  <2>4. QED
    BY <2>2, <2>3 DEF SurvivedOf, SurvivedInv
<1>8. CASE Resolve \/ Stop \/ MinuteReturns \/ UNCHANGED vars
  <2>1. UNCHANGED <<loop, running, agg>>
    BY <1>8 DEF Resolve, Stop, MinuteReturns, vars
  <2>2. QED
    BY <2>1 DEF SurvivedOf, SurvivedInv
<1>9. QED
  BY <1>1, <1>2, <1>4, <1>5, <1>6, <1>7, <1>8 DEF Next

(* While an idle connection is up, the minute's survived_s is the longest *)
(* gap of this connection (idle.go:66, 91, 96), however the minute flush,  *)
(* a removal and a re-registration come between its calls.                 *)
THEOREM SurvivedIsItsOwn == Spec => []SurvivedIsTheConnections
<1>1. Init => SurvivedInv
  <2>1. SUFFICES ASSUME Init, NEW k \in Key PROVE SurvivedOf(k)
    BY DEF SurvivedInv
  <2>2. loop[k].calls = << >> /\ running = {}
    BY <2>1 DEF Init, Dial, Off
  <2>3. QED
    BY <2>2, HasNone DEF SurvivedOf
<1>2. SurvivedInv => SurvivedIsTheConnections
  <2>1. SUFFICES ASSUME SurvivedInv, NEW t \in HostIP, At(<<t, "idle">>, "session"), t \in running
                 PROVE  agg.survived[t] = loop[t, "idle"].best
    BY DEF SurvivedIsTheConnections
  <2> DEFINE k == <<t, "idle">>
  <2>2. k \in Key /\ k[1] = t /\ k[2] = "idle"
    BY DEF HostIP, Key, Mode
  <2>3. SurvivedOf(k) /\ loop[k].calls = << >> /\ loop[k].pc = "session"
    BY <2>1, <2>2 DEF SurvivedInv, At
  <2>4. QED
    BY <2>1, <2>2, <2>3, NoCallsSurvived
<1>3. QED
  BY <1>1, <1>2, NextSurvived, LoopsInvariant, PTL DEF Spec
=============================================================================
