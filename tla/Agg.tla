--------------------------------- MODULE Agg ---------------------------------
(***************************************************************************)
(* The aggregates of the current minute (internal/netcheck/agg.go).        *)
(*                                                                         *)
(* Every loop that measures a target calls into one agg, which keeps a     *)
(* bucket per target and mode.  flush turns the buckets into the minute's  *)
(* records and starts a fresh minute; a target unregistered meanwhile is   *)
(* emitted one last time and then forgotten.  Each operator below is one   *)
(* section under agg.mu, as a function of the agg.                         *)
(*                                                                         *)
(* A map entry that is absent is Nil, NoPrint, {} or 0: what Go reads for  *)
(* it.  Latency samples are left out; they are counted by samples.         *)
(***************************************************************************)
EXTENDS Integers, FiniteSets

CONSTANTS
    Target,        \* an IP of a host, or a comparison target
    Compared,      \* the comparison targets
    TargetModes,   \* targetModes: what is measured of a host's IP
    Fingerprint,   \* of a certificate that fails verification
    NoPrint        \* no certificate

ASSUME AggAssumption ==
    /\ Compared \subseteq Target
    /\ TargetModes \subseteq {"short", "long", "idle"}
    /\ NoPrint \notin Fingerprint

Mode    == {"short", "long", "idle", "compare"}
(* "other" stands for timeout, refused and other, which are treated alike. *)
Class   == {"other", "reset", "intercepted"}
Variant == {"host", "none"}
Key     == Target \X Mode

ModesOf(t) == IF t \in Compared THEN {"compare"} ELSE TargetModes

Nil == [none |-> TRUE]

NewBucket ==
    [samples |-> 0, losses |-> 0, failures |-> [c \in Class |-> 0], drops |-> 0, closed |-> 0,
     resets |-> 0, cert |-> NoPrint, died |-> 0,
     sni |-> [v \in Variant |-> [samples |-> 0, failures |-> 0]]]

Bucket ==
    [samples: Nat, losses: Nat, failures: [Class -> Nat], drops: Nat, closed: Nat,
     resets: Nat, cert: Fingerprint \cup {NoPrint}, died: Nat,
     sni: [Variant -> [samples: Nat, failures: Nat]]]

AggType ==
    [targets: SUBSET Target, modes: [Target -> SUBSET Mode], removed: SUBSET Target,
     bucket: [Key -> Bucket \cup {Nil}],
     lastFP: [Target -> Fingerprint \cup {NoPrint}], survived: [Target -> Nat]]

NewAgg ==
    [targets |-> {}, modes |-> [t \in Target |-> {}], removed |-> {},
     bucket |-> [k \in Key |-> Nil],
     lastFP |-> [t \in Target |-> NoPrint], survived |-> [t \in Target |-> 0]]

------------------------------------------------------------------------------
(* agg.registerModes and agg.unregister.                                   *)

(* Mutants: a re-registered target starts from empty buckets; or stays removed. *)
RegisterAfresh(a, t, modes) ==
    [a EXCEPT !.removed = @ \ {t}, !.targets = @ \cup {t}, !.modes[t] = modes,
              !.bucket = [k \in Key |-> IF k[1] = t /\ k[2] \in modes THEN NewBucket ELSE a.bucket[k]]]
RegisterStillRemoved(a, t, modes) ==
    [a EXCEPT !.targets = @ \cup {t}, !.modes[t] = modes,
              !.bucket = [k \in Key |-> IF k[1] = t /\ k[2] \in modes /\ a.bucket[k] = Nil
                                        THEN NewBucket ELSE a.bucket[k]]]

Register(a, t, modes) ==
    [a EXCEPT !.removed = @ \ {t}, !.targets = @ \cup {t}, !.modes[t] = modes,
              !.bucket = [k \in Key |-> IF k[1] = t /\ k[2] \in modes /\ a.bucket[k] = Nil
                                        THEN NewBucket ELSE a.bucket[k]]]

Unregister(a, t) == [a EXCEPT !.removed = @ \cup {t}]

------------------------------------------------------------------------------
(* What a loop records: each is one section of agg.with, which does nothing *)
(* for a target that is not registered.                                     *)

Collects(a, t, mode) == a.bucket[<<t, mode>>] # Nil

With(a, t, mode, b) == IF Collects(a, t, mode) THEN [a EXCEPT !.bucket[<<t, mode>>] = b] ELSE a

Fail(a, t, mode, class) ==
    LET b == a.bucket[<<t, mode>>]
    IN  With(a, t, mode,
             [b EXCEPT !.failures[class] = @ + 1,
                       !.samples = @ + (IF mode \in {"short", "compare"} THEN 1 ELSE 0)])

(* The first section of agg.intercepted: a failure, and the minute's certificate. *)
Intercepted(a, t, mode, fp) ==
    LET b == a.bucket[<<t, mode>>]
    IN  With(a, t, mode, [b EXCEPT !.failures["intercepted"] = @ + 1, !.cert = fp])

(* Its second section: is fp news of t?  It then is the last one seen. *)
News(a, t, fp) == a.lastFP[t] # fp

(* Mutant: what was told is not remembered. *)
NothingSeen(a, t, fp) == a

Seen(a, t, fp) == [a EXCEPT !.lastFP[t] = fp]

Sni(a, t, variant, bad) ==
    LET b == a.bucket[<<t, "short">>]
        s == b.sni[variant]
    IN  With(a, t, "short",
             [b EXCEPT !.sni[variant].samples = @ + 1,
                       !.sni[variant].failures = @ + (IF bad THEN 1 ELSE 0)])

Reset(a, t, mode) ==
    LET b == a.bucket[<<t, mode>>]
    IN  With(a, t, mode, [b EXCEPT !.resets = @ + 1])

(* agg.short and agg.connect: a connect, with the SYNs it lost. *)
Connected(a, t, mode, lost) ==
    LET b == a.bucket[<<t, mode>>]
    IN  With(a, t, mode, [b EXCEPT !.samples = @ + 1, !.losses = @ + lost])

Ping(a, t, mode) ==
    LET b == a.bucket[<<t, mode>>]
    IN  With(a, t, mode, [b EXCEPT !.samples = @ + 1])

LostPing(a, t, mode) ==
    LET b == a.bucket[<<t, mode>>]
    IN  With(a, t, mode, [b EXCEPT !.samples = @ + 1, !.losses = @ + 1])

Drop(a, t, mode) ==
    LET b == a.bucket[<<t, mode>>]
    IN  With(a, t, mode, [b EXCEPT !.drops = @ + 1])

ServerClosed(a, t, mode) ==
    LET b == a.bucket[<<t, mode>>]
    IN  With(a, t, mode, [b EXCEPT !.closed = @ + 1])

IdleSurvived(a, t, gap) ==
    IF Collects(a, t, "idle") THEN [a EXCEPT !.survived[t] = gap] ELSE a

(* The gap after which the connection died; 1 more than it, since 0 is no death. *)
IdleDied(a, t, gap) ==
    LET b == a.bucket[<<t, "idle">>]
    IN  With(a, t, "idle", [b EXCEPT !.died = gap + 1])

------------------------------------------------------------------------------
(* agg.flush.                                                              *)

Flushes(a) == {k \in Key : k[1] \in a.targets /\ k[2] \in a.modes[k[1]]}

(* Mutant: no target is ever forgotten. *)
ForgottenNever(a) == {}

Forgotten(a) == a.targets \cap a.removed

(* Mutants: the buckets are not replaced; those of a forgotten target stay. *)
FlushedOnto(a) ==
    [a EXCEPT !.targets = @ \ Forgotten(a), !.removed = @ \ Forgotten(a),
              !.bucket = [k \in Key |-> IF k[1] \in Forgotten(a) THEN Nil ELSE a.bucket[k]]]
FlushedLeaving(a) ==
    [a EXCEPT !.targets = @ \ Forgotten(a), !.removed = @ \ Forgotten(a),
              !.bucket = [k \in Key |-> IF k \in Flushes(a) THEN NewBucket ELSE a.bucket[k]]]

Flushed(a) ==
    LET gone == Forgotten(a)
    IN  [targets  |-> a.targets \ gone,
         removed  |-> a.removed \ gone,
         modes    |-> [t \in Target |-> IF t \in gone THEN {} ELSE a.modes[t]],
         bucket   |-> [k \in Key |-> IF k \notin Flushes(a) THEN a.bucket[k]
                                     ELSE IF k[1] \in gone THEN Nil ELSE NewBucket],
         lastFP   |-> [t \in Target |-> IF t \in gone THEN NoPrint ELSE a.lastFP[t]],
         survived |-> [t \in Target |-> IF t \in gone THEN 0 ELSE a.survived[t]]]

------------------------------------------------------------------------------
(* aggregate.ok: no loss, failure or drop; a server-initiated close is none. *)
BucketOK(b) == b.losses = 0 /\ b.drops = 0 /\ \A c \in Class : b.failures[c] = 0
=============================================================================
