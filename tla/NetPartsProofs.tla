--------------------------- MODULE NetPartsProofs ----------------------------
(***************************************************************************)
(* The long connection in time and the route traces, for any timeouts,      *)
(* backoffs, routes, losses and delays; and the DNS check, for any number   *)
(* of resolvers and records.                                                *)
(***************************************************************************)
EXTENDS LongSession, Tracer, DnsCheck, Integers, WellFoundedInduction, FiniteSetTheorems,
        TLAPS

(* A non-empty set of natural numbers has a least element. *)
LEMMA LeastNat ==
    ASSUME NEW S, S \subseteq Nat, S # {}
    PROVE  \E x \in S : \A y \in S : x <= y
<1>1. PICK x \in S : \A y \in S : ~ (<<y, x>> \in OpToRel(<, Nat))
  BY NatLessThanWellFounded, WFMin
<1>2. \A y \in S : ~ (y < x)
  BY <1>1 DEF OpToRel
<1>3. QED
  BY <1>2

(* Induction, over a set in place of a predicate. *)
LEMMA AllNat ==
    ASSUME NEW S, 0 \in S, \A k \in Nat : k \in S => k + 1 \in S
    PROVE  \A k \in Nat : k \in S
<1> DEFINE Bad == {k \in Nat : k \notin S}
<1>1. SUFFICES ASSUME Bad # {} PROVE FALSE
  OBVIOUS
<1>2. PICK x \in Bad : \A y \in Bad : x <= y
  BY <1>1, LeastNat
<1>3. x # 0 /\ x \in Nat
  OBVIOUS
<1>4. x - 1 \in Nat /\ ~ (x <= x - 1) /\ x - 1 + 1 = x
  BY <1>3
<1>5. x - 1 \in S
  BY <1>2, <1>4
<1>6. x \in S
  BY <1>4, <1>5
<1>7. QED
  BY <1>2, <1>6

(* A value computed in k steps from b, the step i by T. *)
Steps(g, b, T, k) == g = [i \in 0..k |-> IF i = 0 THEN b ELSE T[i][g[i - 1]]]

(* There is one, however many steps. *)
LEMMA StepsExist ==
    ASSUME NEW V, NEW b \in V, NEW T \in [Nat -> [V -> V]]
    PROVE  \A k \in Nat : \E g \in [0..k -> V] : Steps(g, b, T, k)
<1> DEFINE Good == {k \in Nat : \E g \in [0..k -> V] : Steps(g, b, T, k)}
<1>1. 0 \in Good
  <2> DEFINE g == [i \in 0..0 |-> b]
  <2>1. g \in [0..0 -> V] /\ Steps(g, b, T, 0)
    BY DEF Steps
  <2>2. QED
    BY <2>1
<1>2. ASSUME NEW k \in Nat, k \in Good PROVE k + 1 \in Good
  <2>1. PICK g \in [0..k -> V] : Steps(g, b, T, k)
    BY <1>2
  <2>2. k \in 0..k /\ g[k] \in V /\ k + 1 \in Nat
    BY <2>1
  <2> DEFINE next == T[k + 1][g[k]]
             f == [i \in 0..k+1 |-> IF i = k + 1 THEN next ELSE g[i]]
  <2>3. next \in V
    BY <2>2
  <2> HIDE DEF next
  <2>4. f \in [0..k+1 -> V]
    <3> HIDE DEF next
    <3>1. ASSUME NEW i \in 0..k+1, i # k + 1 PROVE g[i] \in V
      BY <2>1, <3>1
    <3>2. QED
      BY <2>3, <3>1
  <2>5. ASSUME NEW i \in 0..k+1 PROVE f[i] = IF i = 0 THEN b ELSE T[i][f[i - 1]]
    <3>1. CASE i = 0
      <4>1. f[0] = g[0] /\ g[0] = b
        BY <2>1 DEF Steps
      <4>2. QED
        BY <3>1, <4>1
    <3>2. CASE i = k + 1
      <4>1. f[i] = next /\ i # 0
        BY <3>2
      <4>2. i - 1 = k /\ f[k] = g[k]
        BY <3>2, <2>2
      <4>3. QED
        BY <3>2, <4>1, <4>2 DEF next
    <3>3. CASE i \in 1..k
      <4>1. f[i] = g[i] /\ f[i - 1] = g[i - 1] /\ i # 0
        BY <3>3
      <4>2. g[i] = T[i][g[i - 1]]
        BY <2>1, <3>3 DEF Steps
      <4>3. QED
        BY <4>1, <4>2
    <3>4. QED
      BY <3>1, <3>2, <3>3
  <2>6. f = [i \in 0..k+1 |-> IF i = 0 THEN b ELSE T[i][f[i - 1]]]
    <3>1. f = [i \in 0..k+1 |-> f[i]]
      BY <2>4
    <3> HIDE DEF f
    <3>2. QED
      BY <3>1, <2>5, Zenon
  <2>7. Steps(f, b, T, k + 1)
    BY <2>6, Zenon DEF Steps
  <2> HIDE DEF f
  <2>8. QED
    BY <2>2, <2>4, <2>7
<1> HIDE DEF Good
<1>3. \A k \in Nat : k \in Good
  BY <1>1, <1>2, AllNat
<1>4. QED
  BY <1>3 DEF Good

------------------------------------------------------------------------------
(***************************************************************************)
(* The long connection. A black hole is noticed within deadAfter and one    *)
(* interval, and only a black hole is declared dead; every PING delivers    *)
(* its result; dials that fail are spaced by the backoff.                   *)
(*                                                                          *)
(* For the first two, the argument compares lastAnswer, which the session   *)
(* reads, with the answers that really came: it is never ahead of them, and *)
(* behind them only by what still waits in the results channel.             *)
(***************************************************************************)
Kinds == {"answer", "timeout", "error"}

SessionTypes ==
  /\ now \in Nat /\ lastAnswer \in Nat /\ replied \in Nat
  /\ pc \in {"dial", "sleep", "session", "stopped"}
  /\ tick \in BOOLEAN /\ results \in Seq(Kinds)

\* lastAnswer is not ahead of the answers, nor what is unread of an earlier time.
NotAhead == lastAnswer <= replied /\ replied <= now
Unread == \E i \in DOMAIN results : results[i] = "answer"
UnreadIsNew == Unread => replied = now

\* And behind them only by what is unread.
NotBehind == replied <= lastAnswer \/ Unread

\* The tick looks before an interval begins.
Looked == now - lastAnswer <= DeadAfter + 1 /\ (~tick => now - lastAnswer <= DeadAfter)

SilenceInv == SessionTypes /\ (pc = "session" => NotAhead /\ UnreadIsNew /\ NotBehind /\ Looked)

------------------------------------------------------------------------------
(* A result more in the channel. *)
LEMMA AppendedResult ==
  ASSUME NEW s \in Seq(Kinds), NEW x \in Kinds
  PROVE  /\ Append(s, x) \in Seq(Kinds)
         /\ (\E i \in DOMAIN Append(s, x) : Append(s, x)[i] = "answer")
              <=> (x = "answer" \/ \E i \in DOMAIN s : s[i] = "answer")
<1>1. /\ Append(s, x) \in Seq(Kinds) /\ Len(Append(s, x)) = Len(s) + 1
      /\ \A i \in 1..Len(s) : Append(s, x)[i] = s[i]
      /\ Append(s, x)[Len(s) + 1] = x /\ Len(s) \in Nat
  OBVIOUS
<1>2. DOMAIN s = 1..Len(s) /\ DOMAIN Append(s, x) = 1..(Len(s) + 1)
  BY <1>1
<1> DEFINE t == Append(s, x)
<1> HIDE DEF t
<1>3. ASSUME NEW i \in DOMAIN s PROVE i \in DOMAIN t /\ t[i] = s[i]
  BY <1>1, <1>2 DEF t
<1>4. ASSUME NEW i \in DOMAIN t PROVE (i \in DOMAIN s /\ t[i] = s[i]) \/ t[i] = x
  BY <1>1, <1>2 DEF t
<1>5. Len(s) + 1 \in DOMAIN t /\ t[Len(s) + 1] = x
  BY <1>1, <1>2 DEF t
<1>6. (\E i \in DOMAIN t : t[i] = "answer") <=> (x = "answer" \/ \E i \in DOMAIN s : s[i] = "answer")
  BY <1>3, <1>4, <1>5, Zenon
<1>7. QED
  BY <1>1, <1>6 DEF t

(* A result less. *)
LEMMA RestOfResults ==
  ASSUME NEW s \in Seq(Kinds), s # <<>>
  PROVE  /\ Head(s) \in Kinds /\ Tail(s) \in Seq(Kinds)
         /\ (\E i \in DOMAIN Tail(s) : Tail(s)[i] = "answer") => \E i \in DOMAIN s : s[i] = "answer"
         /\ (\E i \in DOMAIN s : s[i] = "answer")
              => Head(s) = "answer" \/ \E i \in DOMAIN Tail(s) : Tail(s)[i] = "answer"
<1>1. /\ Head(s) \in Kinds /\ Tail(s) \in Seq(Kinds) /\ Head(s) = s[1]
      /\ Len(s) \in Nat \ {0} /\ DOMAIN s = 1..Len(s) /\ DOMAIN Tail(s) = 1..(Len(s) - 1)
      /\ \A i \in 1..(Len(s) - 1) : Tail(s)[i] = s[i + 1]
  OBVIOUS
<1>2. ASSUME NEW i \in DOMAIN Tail(s) PROVE i + 1 \in DOMAIN s /\ Tail(s)[i] = s[i + 1]
  BY <1>1
<1>3. ASSUME NEW i \in DOMAIN s, i # 1 PROVE i - 1 \in DOMAIN Tail(s) /\ Tail(s)[i - 1] = s[i]
  BY <1>1, <1>3
<1>4. QED
  BY <1>1, <1>2, <1>3, Zenon

(* None. *)
LEMMA Empty == <<>> \in Seq(Kinds) /\ ~\E i \in DOMAIN <<>> : <<>>[i] = "answer"
  OBVIOUS

(* It holds at the start. *)
LEMMA SilenceInit == Init => SilenceInv
<1> SUFFICES ASSUME Init PROVE SilenceInv
  OBVIOUS
<1>1. now \in Nat /\ lastAnswer \in Nat /\ replied \in Nat /\ pc = "dial" /\ tick \in BOOLEAN
  BY DEF Init
<1>2. results \in Seq(Kinds)
  BY Empty DEF Init
<1>3. QED
  BY <1>1, <1>2 DEF SilenceInv, SessionTypes

(* And every step of the session, the PINGs, the connection and the clock keeps it. *)
LEMMA SilenceStep == SilenceInv /\ [Next]_vars => SilenceInv'
<1> SUFFICES ASSUME SilenceInv, [Next]_vars PROVE SilenceInv'
  OBVIOUS
<1> USE DeadAfterAssumption, BackoffAssumption, PingTimeoutAssumption
<1>1. ASSUME UNCHANGED <<now, lastAnswer, replied, tick, results>>,
             pc' \in {"dial", "sleep", "session", "stopped"},
             pc' = "session" => pc = "session"
      PROVE  SilenceInv'
  BY <1>1 DEF SilenceInv, SessionTypes, NotAhead, UnreadIsNew, NotBehind, Looked, Unread
<1>2. CASE DialFails \/ Wake \/ Change \/ (pc \in {"dial", "sleep"} /\ Cancel) \/ UNCHANGED vars
  BY <1>1, <1>2 DEF DialFails, Wake, Change, Cancel, vars, sessionVars, ghosts, SilenceInv, SessionTypes
<1>3. CASE DialSucceeds
  <2>1. /\ now' = now /\ lastAnswer' = now /\ replied' = now /\ tick' = FALSE /\ results' = <<>>
        /\ pc' = "session"
    BY <1>3 DEF DialSucceeds
  <2>2. results' \in Seq(Kinds) /\ ~Unread'
    BY <2>1, Empty DEF Unread
  <2>3. now \in Nat
    BY DEF SilenceInv, SessionTypes
  <2>4. SessionTypes'
    BY <2>1, <2>2, <2>3 DEF SessionTypes
  <2>5. NotAhead' /\ NotBehind' /\ UnreadIsNew'
    BY <2>1, <2>2, <2>3 DEF NotAhead, UnreadIsNew, NotBehind
  <2>6. Looked'
    BY <2>1, <2>3 DEF Looked
  <2>7. QED
    BY <2>4, <2>5, <2>6 DEF SilenceInv
<1>4. ASSUME NEW next \in {"dial", "stopped"}, Leave(next) PROVE SilenceInv'
  BY <1>4, Empty DEF Leave, ghosts, SilenceInv, SessionTypes
<1>5. CASE Send
  <2>1. /\ UNCHANGED <<now, pc, lastAnswer, replied, results>> /\ tick' = FALSE /\ pc = "session"
        /\ now - lastAnswer <= DeadAfter
    BY <1>5 DEF Send, Silent, ghosts, SilenceInv, SessionTypes
  <2>2. Unread' <=> Unread
    BY <2>1 DEF Unread
  <2>3. QED
    BY <2>1, <2>2 DEF SilenceInv, SessionTypes, NotAhead, UnreadIsNew, NotBehind, Looked
<1>6. CASE Read
  <2>1. /\ UNCHANGED <<now, pc, tick, replied>> /\ results # <<>> /\ pc = "session"
        /\ results' = Tail(results)
        /\ lastAnswer' = IF Head(results) = "answer" THEN now ELSE lastAnswer
    BY <1>6 DEF Read, ghosts
  <2>2. /\ Head(results) \in Kinds /\ results' \in Seq(Kinds)
        /\ Unread' => Unread
        /\ Unread => Head(results) = "answer" \/ Unread'
    BY <2>1, RestOfResults, Zenon DEF SilenceInv, SessionTypes, Unread
  <2>3. Head(results) = "answer" => Unread
    <3>1. results \in Seq(Kinds)
      BY DEF SilenceInv, SessionTypes
    <3>2. 1 \in DOMAIN results /\ Head(results) = results[1]
      BY <2>1, <3>1
    <3>3. QED
      BY <3>2 DEF Unread
  <2>4. QED
    BY <2>1, <2>2, <2>3 DEF SilenceInv, SessionTypes, NotAhead, UnreadIsNew, NotBehind, Looked
<1>7. ASSUME NEW a \in Ages, NEW kind \in Kinds, Finish(a, kind),
             replied' = IF kind = "answer" THEN now ELSE replied
      PROVE  SilenceInv'
  <2>1. UNCHANGED <<now, pc, tick, lastAnswer>> /\ results' = Append(results, kind) /\ pc = "session"
    BY <1>7 DEF Finish
  <2>2. results' \in Seq(Kinds) /\ (Unread' <=> kind = "answer" \/ Unread)
    BY <2>1, AppendedResult, Zenon DEF SilenceInv, SessionTypes, Unread
  <2>3. QED
    BY <1>7, <2>1, <2>2 DEF SilenceInv, SessionTypes, NotAhead, UnreadIsNew, NotBehind, Looked
<1>8. CASE Pings
  <2>1. PingTimeout \in Ages
    BY DEF Ages
  <2>2. QED
    BY <1>7, <1>8, <2>1 DEF Pings, TimedOut, Answered, Failed, Kinds
<1>9. CASE Clock
  <2>1. /\ now' = now + 1 /\ UNCHANGED <<pc, lastAnswer, replied, results>>
        /\ tick' = (pc = "session")
        /\ pc = "session" => ~tick /\ results = <<>>
    BY <1>9 DEF Clock, ghosts
  <2>2. (Unread' <=> Unread) /\ (pc = "session" => ~Unread)
    BY <2>1, Empty DEF Unread
  <2>3. SessionTypes
    BY DEF SilenceInv
  <2>4. SessionTypes'
    <3>1. tick' \in BOOLEAN
      BY <2>1
    <3>2. QED
      BY <2>1, <2>3, <3>1 DEF SessionTypes
  <2>5. SUFFICES ASSUME pc' = "session" PROVE (NotAhead /\ UnreadIsNew /\ NotBehind /\ Looked)'
    BY <2>4 DEF SilenceInv
  <2>6. pc = "session" /\ tick' = TRUE /\ ~tick /\ ~Unread /\ ~Unread'
    BY <2>1, <2>2, <2>5
  <2>7. lastAnswer = replied /\ replied <= now /\ now - lastAnswer <= DeadAfter
    BY <2>3, <2>6 DEF SilenceInv, SessionTypes, NotAhead, NotBehind, Looked
  <2>8. NotAhead' /\ NotBehind' /\ UnreadIsNew'
    BY <2>1, <2>3, <2>6, <2>7 DEF SessionTypes, NotAhead, UnreadIsNew, NotBehind
  <2>9. Looked'
    BY <2>1, <2>3, <2>6, <2>7 DEF SessionTypes, Looked
  <2>10. QED
    BY <2>8, <2>9
<1>10. CASE pc = "session" /\ Cancel
  BY <1>4, <1>10 DEF Cancel
<1>11. CASE Dead \/ ReadError
  BY <1>4, <1>11 DEF Dead, ReadError
<1>12. pc \in {"dial", "sleep"} \/ pc = "session" \/ ~Cancel
  BY DEF Cancel
<1>13. QED
  BY <1>2, <1>3, <1>5, <1>6, <1>8, <1>9, <1>10, <1>11, <1>12 DEF Next, Loop

(* So it always holds. *)
LEMMA SilenceInvariant == Spec => []SilenceInv
  BY SilenceInit, SilenceStep, PTL DEF Spec

(* A black hole is noticed: a session goes on for at most deadAfter and one *)
(* interval without an answer, however its PINGs time out (session).        *)
THEOREM BlackHolesAreNoticed == Spec => []SilenceIsNoticed
<1>1. SilenceInv => SilenceIsNoticed
  BY DeadAfterAssumption DEF SilenceInv, SessionTypes, NotAhead, Looked, SilenceIsNoticed
<1>2. QED
  BY <1>1, SilenceInvariant, PTL

(* Only a black hole is: a connection is declared dead when no PING was     *)
(* answered for deadAfter, or when the answer of this instant is unread.    *)
THEOREM OnlyBlackHolesAreDead == Spec => OnlySilenceIsDeath
<1>1. SilenceInv /\ [Next]_vars => [Dead => now - replied > DeadAfter \/ "answer" \in Range(results)]_vars
  <2>1. SUFFICES ASSUME SilenceInv, Dead, ~Unread PROVE now - replied > DeadAfter
    BY Zenon DEF Unread, Range
  <2>2. replied <= lastAnswer /\ now - lastAnswer > DeadAfter /\ SessionTypes
    BY <2>1 DEF SilenceInv, Dead, Silent, NotBehind
  <2>3. QED
    BY <2>2, DeadAfterAssumption DEF SessionTypes
<1>2. QED
  BY <1>1, SilenceInvariant, PTL DEF Spec, OnlySilenceIsDeath

------------------------------------------------------------------------------
(* How many PINGs are in flight.                                            *)

(* The sums up to each age. *)
Sums(f, s) ==
  /\ s \in [Ages -> Nat] /\ s[0] = f[0] /\ s[PingTimeout] = Total(f)
  /\ \A a \in 1..PingTimeout : s[a] = s[a - 1] + f[a]

(* Total is the last of them. *)
LEMMA TotalIsTheSum ==
  ASSUME NEW f \in [Ages -> Nat]
  PROVE  \E s : Sums(f, s)
<1> DEFINE IsUpTo(g) == g = [a \in Ages |-> IF a = 0 THEN f[0] ELSE g[a - 1] + f[a]]
           upTo == CHOOSE g : IsUpTo(g)
           T == [a \in Nat |-> [x \in Nat |-> IF a \in Ages THEN x + f[a] ELSE 0]]
<1>1. PingTimeout \in Nat /\ 0 \in Ages /\ PingTimeout \in Ages
  BY PingTimeoutAssumption DEF Ages
<1>2. f[0] \in Nat /\ T \in [Nat -> [Nat -> Nat]]
  BY <1>1
<1>3. PICK g \in [0..PingTimeout -> Nat] : Steps(g, f[0], T, PingTimeout)
  BY <1>1, <1>2, StepsExist
<1>4. ASSUME NEW a \in Ages, a # 0 PROVE T[a][g[a - 1]] = g[a - 1] + f[a]
  <2>1. a \in Nat /\ g[a - 1] \in Nat
    BY <1>4, <1>1 DEF Ages
  <2>2. QED
    BY <2>1
<1>5. IsUpTo(g)
  <2>1. g = [a \in Ages |-> IF a = 0 THEN f[0] ELSE T[a][g[a - 1]]]
    BY <1>3, Zenon DEF Steps, Ages
  <2> HIDE DEF T
  <2>2. QED
    BY <2>1, <1>4, Zenon
<1>6. IsUpTo(upTo)
  BY <1>5, Zenon
<1>7. Total(f) = upTo[PingTimeout]
  BY DEF Total
<1> HIDE DEF upTo
<1>8. upTo[0] = f[0] /\ \A a \in 1..PingTimeout : upTo[a] = upTo[a - 1] + f[a]
  BY <1>1, <1>6 DEF Ages
<1>9. upTo \in [Ages -> Nat]
  <2> DEFINE Good == {k \in Nat : k \in Ages => upTo[k] \in Nat}
  <2>1. 0 \in Good
    BY <1>2, <1>8
  <2>2. ASSUME NEW k \in Nat, k \in Good PROVE k + 1 \in Good
    <3>1. SUFFICES ASSUME k + 1 \in Ages PROVE upTo[k + 1] \in Nat
      OBVIOUS
    <3>2. k \in Ages /\ f[k + 1] \in Nat /\ k + 1 \in 1..PingTimeout /\ k + 1 - 1 = k
      BY <3>1, <1>1 DEF Ages
    <3>3. QED
      BY <2>2, <3>2, <1>8
  <2>3. \A k \in Nat : k \in Good
    <3> HIDE DEF Good
    <3>1. QED
      BY <2>1, <2>2, AllNat
  <2>4. upTo = [a \in Ages |-> upTo[a]]
    BY <1>6, Zenon
  <2>5. QED
    BY <2>3, <2>4 DEF Ages
<1>10. QED
  BY <1>7, <1>8, <1>9 DEF Sums

(* One PING more of an age, one PING more. *)
LEMMA OneMore ==
  ASSUME NEW f \in [Ages -> Nat], NEW g \in [Ages -> Nat], NEW a \in Ages,
         g[a] = f[a] + 1, \A b \in Ages : b # a => g[b] = f[b]
  PROVE  Total(g) = Total(f) + 1
<1>1. PICK s : Sums(f, s)
  BY TotalIsTheSum
<1>2. PICK u : Sums(g, u)
  BY TotalIsTheSum
<1>3. PingTimeout \in Nat /\ a \in Nat
  BY PingTimeoutAssumption DEF Ages
<1> DEFINE Good == {k \in Nat : k \in Ages => u[k] = s[k] + (IF k >= a THEN 1 ELSE 0)}
<1>4. 0 \in Good
  <2>1. s[0] = f[0] /\ u[0] = g[0] /\ 0 \in Ages /\ f[0] \in Nat /\ g[0] \in Nat
    BY <1>1, <1>2, <1>3 DEF Sums, Ages
  <2>2. QED
    BY <2>1, <1>3
<1>5. ASSUME NEW k \in Nat, k \in Good PROVE k + 1 \in Good
  <2>1. SUFFICES ASSUME k + 1 \in Ages
                 PROVE  u[k + 1] = s[k + 1] + (IF k + 1 >= a THEN 1 ELSE 0)
    OBVIOUS
  <2>2. k \in Ages /\ k + 1 \in 1..PingTimeout /\ k + 1 - 1 = k
    BY <2>1, <1>3 DEF Ages
  <2>3. s[k + 1] = s[k] + f[k + 1] /\ u[k + 1] = u[k] + g[k + 1]
    BY <2>2, <1>1, <1>2 DEF Sums
  <2>4. s[k] \in Nat /\ u[k] \in Nat /\ f[k + 1] \in Nat /\ g[k + 1] \in Nat
    BY <2>1, <2>2, <1>1, <1>2 DEF Sums
  <2>5. u[k] = s[k] + (IF k >= a THEN 1 ELSE 0)
    BY <1>5, <2>2
  <2>6. g[k + 1] = f[k + 1] + (IF k + 1 = a THEN 1 ELSE 0)
    BY <2>1, <2>4
  <2>7. QED
    BY <2>3, <2>4, <2>5, <2>6, <1>3
<1>6. PingTimeout \in Good
  <2> HIDE DEF Good
  <2>1. QED
    BY <1>3, <1>4, <1>5, AllNat
<1>7. PingTimeout \in Ages /\ PingTimeout >= a
  BY <1>3 DEF Ages
<1>8. u[PingTimeout] = s[PingTimeout] + 1
  BY <1>6, <1>7
<1>9. QED
  BY <1>1, <1>2, <1>8 DEF Sums

(* PINGs of different ages, none of them new, are as many as ages at most. *)
LEMMA AtMostOneEach ==
  ASSUME NEW f \in [Ages -> Nat], f[0] = 0, \A a \in Ages : f[a] <= 1
  PROVE  Total(f) \in 0..PingTimeout
<1>1. PICK s : Sums(f, s)
  BY TotalIsTheSum
<1>2. PingTimeout \in Nat
  BY PingTimeoutAssumption
<1> DEFINE Good == {k \in Nat : k \in Ages => s[k] <= k}
<1>3. 0 \in Good
  BY <1>1 DEF Sums
<1>4. ASSUME NEW k \in Nat, k \in Good PROVE k + 1 \in Good
  <2>1. SUFFICES ASSUME k + 1 \in Ages PROVE s[k + 1] <= k + 1
    OBVIOUS
  <2>2. k \in Ages /\ k + 1 \in 1..PingTimeout /\ k + 1 - 1 = k
    BY <2>1, <1>2 DEF Ages
  <2>3. s[k + 1] = s[k] + f[k + 1] /\ s[k] \in Nat /\ f[k + 1] \in Nat /\ f[k + 1] <= 1
    BY <2>1, <2>2, <1>1 DEF Sums
  <2>4. QED
    BY <1>4, <2>2, <2>3
<1>5. PingTimeout \in Good
  <2> HIDE DEF Good
  <2>1. QED
    BY <1>2, <1>3, <1>4, AllNat
<1>6. PingTimeout \in Ages
  BY <1>2 DEF Ages
<1>7. s[PingTimeout] \in Nat /\ s[PingTimeout] <= PingTimeout /\ s[PingTimeout] = Total(f)
  BY <1>1, <1>5, <1>6 DEF Sums
<1>8. QED
  BY <1>2, <1>7

(* No PING, none in flight. *)
LEMMA NonePending == NoPings \in [Ages -> Nat] /\ Total(NoPings) = 0
<1>1. NoPings \in [Ages -> Nat] /\ NoPings[0] = 0 /\ \A a \in Ages : NoPings[a] = 0
  BY PingTimeoutAssumption DEF NoPings, Ages
<1>2. PICK s : Sums(NoPings, s)
  BY <1>1, TotalIsTheSum
<1>3. PingTimeout \in Nat
  BY PingTimeoutAssumption
<1> DEFINE Good == {k \in Nat : k \in Ages => s[k] = 0}
<1>4. 0 \in Good
  BY <1>1, <1>2 DEF Sums
<1>5. ASSUME NEW k \in Nat, k \in Good PROVE k + 1 \in Good
  <2>1. SUFFICES ASSUME k + 1 \in Ages PROVE s[k + 1] = 0
    OBVIOUS
  <2>2. k \in Ages /\ k + 1 \in 1..PingTimeout /\ k + 1 - 1 = k
    BY <2>1, <1>3 DEF Ages
  <2>3. s[k + 1] = s[k] + NoPings[k + 1] /\ NoPings[k + 1] = 0 /\ s[k] = 0
    BY <2>1, <2>2, <1>1, <1>2, <1>5 DEF Sums
  <2>4. QED
    BY <2>3
<1>6. PingTimeout \in Good
  <2> HIDE DEF Good
  <2>1. QED
    BY <1>3, <1>4, <1>5, AllNat
<1>7. PingTimeout \in Ages
  BY <1>3 DEF Ages
<1>8. QED
  BY <1>1, <1>2, <1>6, <1>7 DEF Sums

(* A PING is sent per tick at most, so that there is one of each age, and   *)
(* with what they have reported they are pingTimeout and one at most.       *)
Room ==
  /\ stuck = 0 /\ flight \in [Ages -> Nat] /\ \A a \in Ages : flight[a] <= 1
  /\ tick => flight[0] = 0
  /\ pc # "session" => ~tick /\ results = <<>>
  /\ Len(results) + Total(flight) + (IF tick THEN 1 ELSE 0) <= PingTimeout + 1

(* With the types of the channel. *)
RoomInv == SessionTypes /\ Room

(* Every step leaves room: a tick is what a PING costs. *)
LEMMA RoomStep == SilenceInv /\ RoomInv /\ [Next]_vars => Room'
<1> SUFFICES ASSUME SilenceInv, RoomInv, [Next]_vars PROVE Room'
  OBVIOUS
<1> USE PingTimeoutAssumption
<1>1. /\ PingTimeout \in Nat /\ 0 \in Ages /\ PingTimeout \in Ages /\ \A a \in Ages : a \in Nat
      /\ results \in Seq(Kinds) /\ tick \in BOOLEAN /\ Len(results) \in Nat
  BY DEF Ages, RoomInv, SessionTypes
<1>2. /\ stuck = 0 /\ flight \in [Ages -> Nat] /\ \A a \in Ages : flight[a] <= 1
      /\ tick => flight[0] = 0
      /\ pc # "session" => ~tick /\ results = <<>>
      /\ Len(results) + Total(flight) + (IF tick THEN 1 ELSE 0) <= PingTimeout + 1
  BY DEF RoomInv, Room
<1>3. Total(flight) \in Nat
  <2>1. PICK s : Sums(flight, s)
    BY <1>2, TotalIsTheSum
  <2>2. QED
    BY <2>1, <1>1 DEF Sums
<1>4. ASSUME UNCHANGED <<stuck, flight, tick, results>>, pc' # "session" => pc # "session" PROVE Room'
  BY <1>2, <1>4, Zenon DEF Room
<1>5. CASE DialFails \/ Wake \/ Change \/ (pc \in {"dial", "sleep"} /\ Cancel) \/ UNCHANGED vars
  BY <1>4, <1>5 DEF DialFails, Wake, Change, Cancel, vars, sessionVars, ghosts
<1>6. ASSUME flight' = NoPings, results' = <<>>, tick' = FALSE, stuck' = 0 PROVE Room'
  <2>1. Len(results') = 0
    BY <1>6
  <2>2. Total(flight') = 0 /\ flight' \in [Ages -> Nat] /\ \A a \in Ages : flight'[a] <= 1
    BY <1>6, NonePending DEF NoPings
  <2>3. QED
    BY <1>6, <2>1, <2>2, <1>1 DEF Room
<1>7. CASE DialSucceeds
  BY <1>2, <1>6, <1>7 DEF DialSucceeds
<1>8. ASSUME NEW next \in {"dial", "stopped"}, Leave(next) PROVE Room'
  <2>1. Len(results) + Total(flight) <= PingTimeout + 1
    BY <1>1, <1>2, <1>3
  <2>2. ~(Len(results) + InFlight > Capacity)
    BY <2>1, <1>1, <1>3 DEF InFlight, Capacity
  <2>3. stuck' = 0
    BY <2>2, <1>2, <1>8 DEF Leave
  <2>4. QED
    BY <1>6, <1>8, <2>3 DEF Leave
<1>9. CASE Send
  <2>1. /\ tick' = FALSE /\ tick /\ UNCHANGED <<pc, results, stuck>> /\ pc = "session"
        /\ flight' = [flight EXCEPT ![0] = @ + 1]
    BY <1>9 DEF Send
  <2>2. /\ flight' \in [Ages -> Nat] /\ flight'[0] = flight[0] + 1
        /\ \A b \in Ages : b # 0 => flight'[b] = flight[b]
    BY <2>1, <1>1, <1>2
  <2>3. Total(flight') = Total(flight) + 1
    BY <2>2, <1>1, <1>2, OneMore
  <2>4. \A a \in Ages : flight'[a] <= 1
    BY <2>1, <2>2, <1>2
  <2>5. Len(results') + Total(flight') + 0 <= PingTimeout + 1
    BY <2>1, <2>3, <1>1, <1>2, <1>3
  <2>6. QED
    BY <2>1, <2>2, <2>4, <2>5, <1>2 DEF Room
<1>10. CASE Read
  <2>1. /\ UNCHANGED <<pc, tick, flight, stuck>> /\ results # <<>> /\ pc = "session"
        /\ results' = Tail(results)
    BY <1>10 DEF Read
  <2>2. Len(results') \in Nat /\ Len(results') <= Len(results)
    BY <2>1, <1>1
  <2>3. Len(results') + Total(flight') + (IF tick' THEN 1 ELSE 0) <= PingTimeout + 1
    BY <2>1, <2>2, <1>1, <1>2, <1>3
  <2>4. QED
    BY <2>1, <2>3, <1>2 DEF Room
<1>11. ASSUME NEW a \in Ages, NEW kind \in Kinds, Finish(a, kind) PROVE Room'
  <2>1. /\ UNCHANGED <<pc, tick, stuck>> /\ pc = "session" /\ results' = Append(results, kind)
        /\ flight' = [flight EXCEPT ![a] = @ - 1] /\ flight[a] > 0
    BY <1>11 DEF Finish
  <2>2. /\ flight' \in [Ages -> Nat] /\ flight[a] = flight'[a] + 1 /\ flight'[a] \in Nat
        /\ \A b \in Ages : b # a => flight[b] = flight'[b]
    BY <2>1, <1>1, <1>2
  <2>3. Total(flight) = Total(flight') + 1
    BY <2>2, <1>1, <1>2, OneMore
  <2>4. (\A b \in Ages : flight'[b] <= 1) /\ (tick' => flight'[0] = 0)
    <3>1. \A b \in Ages : flight[b] \in Nat /\ flight'[b] \in Nat /\ flight'[b] <= flight[b]
      BY <2>2, <1>2
    <3>2. QED
      BY <3>1, <2>1, <1>1, <1>2
  <2>5. Len(results') = Len(results) + 1
    BY <2>1, <1>1
  <2>6. Total(flight') \in Nat
    <3>1. PICK s : Sums(flight', s)
      BY <2>2, TotalIsTheSum
    <3>2. QED
      BY <3>1, <1>1 DEF Sums
  <2>7. Len(results') + Total(flight') + (IF tick' THEN 1 ELSE 0) <= PingTimeout + 1
    BY <2>1, <2>3, <2>5, <2>6, <1>1, <1>2, <1>3
  <2>8. QED
    BY <2>1, <2>2, <2>4, <2>7, <1>2 DEF Room
<1>12. CASE Pings
  BY <1>1, <1>11, <1>12 DEF Pings, TimedOut, Answered, Failed, Kinds
<1>13. CASE Clock
  <2>1. /\ UNCHANGED <<pc, results, stuck>> /\ tick' = (pc = "session") /\ ~tick /\ results = <<>>
        /\ flight[PingTimeout] = 0
        /\ flight' = [a \in Ages |-> IF a = 0 THEN 0 ELSE flight[a - 1]]
    BY <1>13, <1>2 DEF Clock
  <2>2. \A a \in Ages : a # 0 => a - 1 \in Ages
    BY <1>1 DEF Ages
  <2>3. flight' \in [Ages -> Nat] /\ flight'[0] = 0 /\ \A a \in Ages : flight'[a] <= 1
    BY <2>1, <2>2, <1>1, <1>2
  <2>4. Total(flight') \in 0..PingTimeout
    BY <2>3, AtMostOneEach
  <2>5. Len(results') = 0
    BY <2>1
  <2>6. Len(results') + Total(flight') + (IF tick' THEN 1 ELSE 0) <= PingTimeout + 1
    BY <2>4, <2>5, <1>1
  <2>7. QED
    BY <2>1, <2>3, <2>6, <1>2 DEF Room
<1>14. CASE Dead \/ ReadError \/ (pc = "session" /\ Cancel)
  BY <1>8, <1>14 DEF Dead, ReadError, Cancel
<1>15. pc \in {"dial", "sleep"} \/ pc = "session" \/ ~Cancel
  BY DEF Cancel
<1>16. QED
  BY <1>5, <1>7, <1>9, <1>10, <1>12, <1>13, <1>14, <1>15 DEF Next, Loop

(* Every PING delivers: the results channel has room for all that are in    *)
(* flight when a session ends.                                              *)
THEOREM PingsDeliver == Spec => []EveryPingDelivers
<1>1. Init => Room
  <2>1. SUFFICES ASSUME Init PROVE Room
    OBVIOUS
  <2>2. Len(<<>>) = 0 /\ PingTimeout \in Nat
    BY PingTimeoutAssumption
  <2>3. \A a \in Ages : NoPings[a] <= 1
    BY DEF NoPings
  <2>4. QED
    BY <2>1, <2>2, <2>3, NonePending DEF Init, Room
<1>2. SilenceInv /\ Room /\ [Next]_vars => Room'
  BY RoomStep DEF RoomInv, SilenceInv
<1>3. Room => EveryPingDelivers
  BY DEF Room, EveryPingDelivers
<1>4. QED
  BY <1>1, <1>2, <1>3, SilenceInvariant, PTL DEF Spec

------------------------------------------------------------------------------
(* The backoff.                                                             *)

(* The waits wanted after each failure. *)
Waits(g, k) ==
  /\ g \in [0..k -> Nat \ {0}] /\ g[0] = MinBackoff /\ g[k] = Wanted(k)
  /\ \A i \in 1..k : g[i] = IF i = 1 THEN MinBackoff ELSE Least(2 * g[i - 1], MaxBackoff)

(* There are such waits, and Wanted is the last of them. *)
LEMMA WaitsExist ==
  ASSUME NEW k \in Nat
  PROVE  \E g : Waits(g, k)
<1> DEFINE After(g) == g = [i \in 0..k |-> IF i <= 1 THEN MinBackoff ELSE Least(2 * g[i - 1], MaxBackoff)]
           after == CHOOSE g : After(g)
           T == [i \in Nat |-> [x \in Nat \ {0} |-> IF i <= 1 THEN MinBackoff ELSE Least(2 * x, MaxBackoff)]]
<1>1. MinBackoff \in Nat \ {0} /\ MaxBackoff \in Nat \ {0}
  BY BackoffAssumption
<1>2. T \in [Nat -> [Nat \ {0} -> Nat \ {0}]]
  BY <1>1 DEF Least
<1>3. PICK g \in [0..k -> Nat \ {0}] : Steps(g, MinBackoff, T, k)
  BY <1>1, <1>2, StepsExist
<1>4. After(g)
  <2>1. ASSUME NEW i \in 0..k, i # 0
        PROVE  T[i][g[i - 1]] = IF i <= 1 THEN MinBackoff ELSE Least(2 * g[i - 1], MaxBackoff)
    <3>1. i \in Nat /\ g[i - 1] \in Nat \ {0}
      BY <2>1, <1>3
    <3>2. QED
      BY <3>1
  <2>2. \A i \in 0..k : i = 0 => i <= 1
    OBVIOUS
  <2>3. g = [i \in 0..k |-> IF i = 0 THEN MinBackoff ELSE T[i][g[i - 1]]]
    BY <1>3, Zenon DEF Steps
  <2> HIDE DEF T
  <2>4. QED
    BY <2>1, <2>2, <2>3, Zenon
<1>5. After(after)
  BY <1>4, Zenon
<1>6. Wanted(k) = after[k]
  BY DEF Wanted
<1> HIDE DEF after
<1>7. after[0] = MinBackoff
  <2>1. 0 \in 0..k /\ 0 <= 1
    OBVIOUS
  <2>2. QED
    BY <1>5, <2>1, Zenon
<1>8. ASSUME NEW i \in 1..k
      PROVE  after[i] = IF i = 1 THEN MinBackoff ELSE Least(2 * after[i - 1], MaxBackoff)
  <2>1. i \in 0..k /\ (i <= 1 <=> i = 1)
    OBVIOUS
  <2>2. QED
    BY <1>5, <2>1, Zenon
<1>9. after \in [0..k -> Nat \ {0}]
  <2> DEFINE Good == {j \in Nat : j \in 0..k => after[j] \in Nat \ {0}}
  <2>1. 0 \in Good
    BY <1>1, <1>7
  <2>2. ASSUME NEW j \in Nat, j \in Good PROVE j + 1 \in Good
    <3>1. SUFFICES ASSUME j + 1 \in 0..k PROVE after[j + 1] \in Nat \ {0}
      OBVIOUS
    <3>2. j \in 0..k /\ j + 1 \in 1..k /\ j + 1 - 1 = j /\ after[j] \in Nat \ {0}
      BY <3>1, <2>2
    <3>3. after[j + 1] = IF j + 1 = 1 THEN MinBackoff ELSE Least(2 * after[j], MaxBackoff)
      BY <3>2, <1>8
    <3>4. Least(2 * after[j], MaxBackoff) \in Nat \ {0}
      BY <3>2, <1>1 DEF Least
    <3>5. QED
      BY <3>3, <3>4, <1>1, Zenon
  <2>3. \A j \in Nat : j \in Good
    <3> HIDE DEF Good
    <3>1. QED
      BY <2>1, <2>2, AllNat
  <2>4. after = [j \in 0..k |-> after[j]]
    BY <1>5, Zenon
  <2>5. \A j \in 0..k : after[j] \in Nat \ {0}
    BY <2>3
  <2>6. QED
    BY <2>4, <2>5, Zenon
<1>10. QED
  BY <1>6, <1>7, <1>8, <1>9, Zenon DEF Waits

(* Each wait follows from the one before. *)
LEMMA WantedDoubles ==
  /\ Wanted(0) = MinBackoff /\ Wanted(1) = MinBackoff
  /\ \A k \in Nat : Wanted(k) \in MinBackoff..MaxBackoff
  /\ \A k \in Nat \ {0} : Wanted(k + 1) = Least(2 * Wanted(k), MaxBackoff)
<1>1. MinBackoff \in Nat \ {0} /\ MaxBackoff \in Nat /\ MinBackoff <= MaxBackoff
  BY BackoffAssumption
<1>2. Wanted(0) = MinBackoff
  BY WaitsExist DEF Waits
<1>3. Wanted(1) = MinBackoff
  <2>1. PICK g : Waits(g, 1)
    BY WaitsExist
  <2>2. QED
    BY <2>1 DEF Waits
<1>4. ASSUME NEW k \in Nat \ {0} PROVE Wanted(k + 1) = Least(2 * Wanted(k), MaxBackoff)
  <2>1. PICK g : Waits(g, k)
    BY <1>4, WaitsExist
  <2>2. PICK h : Waits(h, k + 1)
    BY <1>4, WaitsExist
  <2> DEFINE Good == {j \in Nat : j \in 0..k => h[j] = g[j]}
  <2>3. 0 \in Good
    BY <2>1, <2>2 DEF Waits
  <2>4. ASSUME NEW j \in Nat, j \in Good PROVE j + 1 \in Good
    <3>1. SUFFICES ASSUME j + 1 \in 0..k PROVE h[j + 1] = g[j + 1]
      OBVIOUS
    <3>2. j \in 0..k /\ j + 1 \in 1..k /\ j + 1 \in 1..(k + 1) /\ j + 1 - 1 = j /\ h[j] = g[j]
      BY <3>1, <2>4
    <3>3. /\ g[j + 1] = IF j + 1 = 1 THEN MinBackoff ELSE Least(2 * g[j], MaxBackoff)
          /\ h[j + 1] = IF j + 1 = 1 THEN MinBackoff ELSE Least(2 * h[j], MaxBackoff)
      BY <3>2, <2>1, <2>2 DEF Waits
    <3>4. QED
      BY <3>2, <3>3, Zenon
  <2>5. k \in Good
    <3> HIDE DEF Good
    <3>1. QED
      BY <2>3, <2>4, AllNat
  <2>6. h[k] = Wanted(k)
    BY <2>1, <2>5 DEF Waits
  <2>7. k + 1 \in 1..(k + 1) /\ k + 1 # 1 /\ k + 1 - 1 = k
    BY <1>4
  <2>8. h[k + 1] = Least(2 * h[k], MaxBackoff) /\ h[k + 1] = Wanted(k + 1)
    BY <2>2, <2>7 DEF Waits
  <2>9. QED
    BY <2>6, <2>8
<1>5. ASSUME NEW k \in Nat PROVE Wanted(k) \in MinBackoff..MaxBackoff
  <2> DEFINE Good == {j \in Nat : Wanted(j) \in MinBackoff..MaxBackoff}
  <2>1. 0 \in Good
    BY <1>1, <1>2
  <2>2. ASSUME NEW j \in Nat, j \in Good PROVE j + 1 \in Good
    <3>1. CASE j = 0
      BY <1>1, <1>3, <3>1
    <3>2. CASE j # 0
      <4> DEFINE w == Wanted(j)
                 v == Wanted(j + 1)
      <4>1. v = Least(2 * w, MaxBackoff) /\ w \in MinBackoff..MaxBackoff
        BY <3>2, <1>4, <2>2
      <4>2. v \in MinBackoff..MaxBackoff
        <5> HIDE DEF v, w
        <5>1. QED
          BY <4>1, <1>1 DEF Least
      <4>3. QED
        BY <4>2
    <3>3. QED
      BY <3>1, <3>2
  <2>3. \A j \in Nat : j \in Good
    <3> HIDE DEF Good
    <3>1. QED
      BY <2>1, <2>2, AllNat
  <2>4. QED
    BY <2>3
<1>6. QED
  BY <1>2, <1>3, <1>4, <1>5

(* backoff is the wait after the next failure; a sleep ends when the last   *)
(* failure's is over; and a session hears nothing before its first tick.    *)
BackoffInv ==
  /\ failed \in Nat /\ dialled \in 0..now /\ wake \in Nat /\ flight \in [Ages -> Nat]
  /\ backoff = Wanted(failed + 1)
  /\ pc = "sleep" => wake = dialled + Wanted(failed)
  /\ pc = "dial" => now - dialled >= Wanted(failed) \/ (now = 0 /\ failed = 0)
  /\ pc = "session" => /\ failed = 0
                       /\ now = dialled => ~tick /\ results = <<>> /\ flight = NoPings

(* Every step keeps it, if pingInterval is minBackoff at least. *)
LEMMA BackoffStep ==
  ASSUME MinBackoff <= 1
  PROVE  SessionTypes /\ BackoffInv /\ [Next]_vars => BackoffInv'
<1> SUFFICES ASSUME SessionTypes, BackoffInv, [Next]_vars PROVE BackoffInv'
  OBVIOUS
<1>1. MinBackoff = 1 /\ MaxBackoff \in Nat
  BY BackoffAssumption
<1>2. /\ Wanted(0) = 1 /\ Wanted(1) = 1 /\ \A k \in Nat : Wanted(k) \in Nat \ {0}
      /\ \A k \in Nat \ {0} : Wanted(k + 1) = Least(2 * Wanted(k), MaxBackoff)
  BY <1>1, WantedDoubles
<1>3. PingTimeout \in Nat /\ 0 \in Ages
  BY PingTimeoutAssumption DEF Ages
<1> DEFINE w == Wanted(failed)
<1>4. w \in Nat \ {0} /\ now \in Nat /\ dialled \in Nat /\ dialled <= now
  <2>1. failed \in Nat /\ now \in Nat /\ dialled \in 0..now
    BY DEF BackoffInv, SessionTypes
  <2>2. w \in Nat \ {0}
    BY <1>2, <2>1, Zenon
  <2>3. QED
    BY <2>1, <2>2
<1>5. CASE Wake
  <2>1. pc = "sleep" /\ now >= wake /\ pc' = "dial" /\ UNCHANGED <<now, backoff, wake, flight, ghosts>>
    BY <1>5 DEF Wake, sessionVars
  <2>2. now - dialled >= w
    <3>1. wake = dialled + w
      BY <2>1 DEF BackoffInv
    <3> HIDE DEF w
    <3>2. QED
      BY <2>1, <3>1, <1>4
  <2>3. QED
    BY <2>1, <2>2 DEF BackoffInv, ghosts
<1>6. CASE DialFails
  <2>1. /\ pc' = "sleep" /\ wake' = now + backoff /\ failed' = failed + 1 /\ dialled' = now
        /\ backoff' = Least(2 * backoff, MaxBackoff) /\ UNCHANGED <<now, flight>>
    BY <1>6 DEF DialFails, sessionVars
  <2>2. failed \in Nat /\ failed + 1 \in Nat \ {0} /\ backoff = Wanted(failed + 1) /\ flight \in [Ages -> Nat]
    BY DEF BackoffInv
  <2>3. backoff' = Wanted(failed' + 1)
    <3>1. Wanted(failed + 1 + 1) = Least(2 * Wanted(failed + 1), MaxBackoff)
      BY <1>2, <2>2
    <3>2. QED
      BY <2>1, <2>2, <3>1, Zenon
  <2>4. backoff \in Nat
    BY <1>2, <2>2
  <2>5. wake' \in Nat /\ wake' = dialled' + Wanted(failed')
    BY <2>1, <2>2, <2>4, <1>4
  <2>6. dialled' \in 0..now'
    BY <2>1, <1>4
  <2>7. QED
    BY <2>1, <2>2, <2>3, <2>5, <2>6 DEF BackoffInv
<1>7. CASE DialSucceeds
  <2>1. /\ pc' = "session" /\ backoff' = MinBackoff /\ failed' = 0 /\ dialled' = now
        /\ tick' = FALSE /\ flight' = NoPings /\ results' = <<>> /\ UNCHANGED <<now, wake>>
    BY <1>7 DEF DialSucceeds
  <2>2. NoPings \in [Ages -> Nat]
    BY DEF NoPings
  <2>3. backoff' = Wanted(failed' + 1)
    <3>1. 0 + 1 = 1
      OBVIOUS
    <3>2. QED
      BY <2>1, <3>1, <1>1, <1>2, Zenon
  <2>4. QED
    BY <2>1, <2>2, <2>3, <1>4 DEF BackoffInv
<1>8. ASSUME NEW next \in {"dial", "stopped"}, Leave(next), pc = "session",
             next = "dial" => tick \/ results # <<>>
      PROVE  BackoffInv'
  <2>1. /\ pc' = next /\ UNCHANGED <<now, backoff, wake, ghosts>> /\ flight' = NoPings
    BY <1>8 DEF Leave
  <2>2. NoPings \in [Ages -> Nat]
    BY DEF NoPings
  <2>3. next = "dial" => now # dialled /\ failed = 0
    BY <1>8 DEF BackoffInv
  <2>4. next = "dial" => now - dialled >= Wanted(failed)
    BY <2>3, <1>2, <1>4
  <2>5. QED
    BY <1>8, <2>1, <2>2, <2>4 DEF BackoffInv, ghosts
<1>9. CASE Dead \/ ReadError \/ (pc = "session" /\ Cancel)
  BY <1>8, <1>9 DEF Dead, ReadError, Cancel
<1>10. CASE (pc \in {"dial", "sleep"} /\ Cancel) \/ Change \/ UNCHANGED vars
  BY <1>10 DEF Cancel, Change, vars, sessionVars, ghosts, BackoffInv
<1>11. CASE Send
  <2>1. /\ UNCHANGED <<now, pc, backoff, wake, ghosts>> /\ pc = "session" /\ tick
        /\ flight' = [flight EXCEPT ![0] = @ + 1]
    BY <1>11 DEF Send
  <2>2. flight' \in [Ages -> Nat]
    BY <2>1, <1>3 DEF BackoffInv
  <2>3. QED
    BY <2>1, <2>2 DEF BackoffInv, ghosts
<1>12. CASE Read
  BY <1>12 DEF Read, BackoffInv, ghosts
<1>13. ASSUME NEW a \in Ages, NEW kind \in Kinds, Finish(a, kind) PROVE BackoffInv'
  <2>1. /\ UNCHANGED <<now, pc, backoff, wake, dialled, failed>> /\ pc = "session"
        /\ flight' = [flight EXCEPT ![a] = @ - 1] /\ flight[a] > 0
    BY <1>13 DEF Finish
  <2>2. flight' \in [Ages -> Nat]
    BY <2>1 DEF BackoffInv
  <2>3. flight # NoPings
    BY <2>1 DEF NoPings
  <2>4. QED
    BY <2>1, <2>2, <2>3 DEF BackoffInv
<1>14. CASE Pings
  <2>1. PingTimeout \in Ages
    BY <1>3 DEF Ages
  <2>2. QED
    BY <2>1, <1>13, <1>14 DEF Pings, TimedOut, Answered, Failed, Kinds
<1>15. CASE Clock
  <2>1. /\ now' = now + 1 /\ UNCHANGED <<pc, backoff, wake, ghosts>>
        /\ flight' = [a \in Ages |-> IF a = 0 THEN 0 ELSE flight[a - 1]]
    BY <1>15 DEF Clock
  <2>2. \A a \in Ages : a # 0 => a - 1 \in Ages
    BY <1>3 DEF Ages
  <2>3. flight' \in [Ages -> Nat]
    BY <2>1, <2>2 DEF BackoffInv
  <2>4. dialled' \in 0..now' /\ now' # dialled'
    BY <2>1, <1>4 DEF ghosts
  <2>5. pc = "dial" => now' - dialled' >= Wanted(failed')
    <3>1. now - dialled >= w => now + 1 - dialled >= w
      <4> HIDE DEF w
      <4>1. QED
        BY <1>4
    <3>2. now = 0 /\ failed = 0 => now + 1 - dialled >= w
      BY <1>2, <1>4
    <3>3. pc = "dial" => now - dialled >= w \/ (now = 0 /\ failed = 0)
      BY DEF BackoffInv
    <3>4. pc = "dial" => now + 1 - dialled >= w
      BY <3>1, <3>2, <3>3, Zenon
    <3>5. now' = now + 1 /\ dialled' = dialled /\ failed' = failed
      BY <2>1 DEF ghosts
    <3>6. Wanted(failed') = w
      BY <3>5
    <3>7. QED
      <4> HIDE DEF w
      <4>1. QED
        BY <1>4, <3>4, <3>5, <3>6
  <2>6. QED
    BY <2>1, <2>3, <2>4, <2>5 DEF BackoffInv, ghosts
<1>16. pc \in {"dial", "sleep"} \/ pc = "session" \/ ~Cancel
  BY DEF Cancel
<1>17. QED
  BY <1>5, <1>6, <1>7, <1>9, <1>10, <1>11, <1>12, <1>14, <1>15, <1>16 DEF Next, Loop

(* Dials that fail are spaced by a backoff that doubles up to its maximum,  *)
(* and the redial of a lost connection comes minBackoff after the dial      *)
(* before, as long as that is not above pingInterval.                       *)
THEOREM DialsAreSpaced ==
    ASSUME MinBackoff <= 1
    PROVE  Spec => RedialsAreSpaced
<1>1. Init => BackoffInv
  <2>1. SUFFICES ASSUME Init PROVE BackoffInv
    OBVIOUS
  <2>2. 0 + 1 = 1 /\ Wanted(1) = MinBackoff
    BY WantedDoubles
  <2>3. NoPings \in [Ages -> Nat]
    BY DEF NoPings
  <2>4. backoff = Wanted(failed + 1)
    BY <2>1, <2>2, Zenon DEF Init
  <2>5. QED
    BY <2>1, <2>3, <2>4 DEF Init, BackoffInv
<1>2. SilenceInv /\ BackoffInv /\ [Next]_vars => BackoffInv'
  BY BackoffStep DEF SilenceInv
<1>3. BackoffInv /\ [Next]_vars
        => [(DialFails \/ DialSucceeds) /\ now > 0 => now - dialled >= Wanted(failed)]_vars
  BY DEF BackoffInv, DialFails, DialSucceeds
<1>4. QED
  BY <1>1, <1>2, <1>3, SilenceInvariant, PTL DEF Spec, RedialsAreSpaced

(* Every step keeps the types. *)
LEMMA SessionTypeStep == TypeOK /\ [Next]_vars => TypeOK'
<1> SUFFICES ASSUME TypeOK, [Next]_vars PROVE TypeOK'
  OBVIOUS
<1>1. /\ MinBackoff \in Nat \ {0} /\ MaxBackoff \in Nat /\ MinBackoff <= MaxBackoff
      /\ MaxTime \in Nat /\ PingTimeout \in Nat /\ 0 \in Ages /\ PingTimeout \in Ages
  BY BackoffAssumption, MaxTimeAssumption, PingTimeoutAssumption DEF Ages
<1>2. now \in 0..MaxTime /\ backoff \in MinBackoff..MaxBackoff /\ failed \in Nat
  BY DEF TypeOK
<1>3. NoPings \in [Ages -> Nat] /\ <<>> \in Seq({"answer", "timeout", "error"})
  BY DEF NoPings
<1>4. CASE DialFails
  <2>1. wake' \in 0..(MaxTime + MaxBackoff)
    BY <1>1, <1>2, <1>4 DEF DialFails
  <2>2. backoff' \in MinBackoff..MaxBackoff
    BY <1>1, <1>2, <1>4 DEF DialFails, Least
  <2>3. failed' \in Nat /\ dialled' \in 0..now'
    BY <1>2, <1>4 DEF DialFails
  <2>4. QED
    BY <1>4, <2>1, <2>2, <2>3 DEF DialFails, sessionVars, TypeOK
<1>5. CASE DialSucceeds
  BY <1>1, <1>2, <1>3, <1>5 DEF DialSucceeds, TypeOK
<1>6. ASSUME NEW next \in {"dial", "stopped"}, Leave(next) PROVE TypeOK'
  <2>1. Total(flight) \in Nat
    <3>1. PICK s : Sums(flight, s)
      BY TotalIsTheSum DEF TypeOK
    <3>2. QED
      BY <3>1, <1>1 DEF Sums
  <2>2. Len(results) \in Nat /\ stuck \in Nat
    BY DEF TypeOK
  <2>3. stuck' \in Nat
    BY <1>1, <1>6, <2>1, <2>2 DEF Leave, InFlight, Capacity
  <2>4. QED
    BY <1>3, <1>6, <2>3 DEF Leave, ghosts, TypeOK
<1>7. CASE Dead \/ ReadError \/ (pc = "session" /\ Cancel)
  BY <1>6, <1>7 DEF Dead, ReadError, Cancel
<1>8. CASE (pc \in {"dial", "sleep"} /\ Cancel) \/ Wake \/ Change \/ UNCHANGED vars
  BY <1>8 DEF Cancel, Wake, Change, vars, sessionVars, ghosts, TypeOK
<1>9. CASE Send
  <2>1. flight' \in [Ages -> Nat] /\ tick' \in BOOLEAN
    <3>1. flight \in [Ages -> Nat] /\ flight' = [flight EXCEPT ![0] = @ + 1] /\ tick' = FALSE
      BY <1>9 DEF Send, TypeOK
    <3>2. flight[0] \in Nat /\ flight[0] + 1 \in Nat
      BY <3>1, <1>1
    <3>3. flight' \in [Ages -> Nat]
      BY <3>1, <3>2
    <3>4. QED
      BY <3>1, <3>3
  <2>2. QED
    BY <1>9, <2>1 DEF Send, ghosts, TypeOK
<1>10. CASE Read
  <2>1. results' \in Seq({"answer", "timeout", "error"})
    BY <1>10 DEF Read, TypeOK
  <2>2. lastAnswer' \in 0..now'
    BY <1>2, <1>10 DEF Read, TypeOK
  <2>3. QED
    BY <1>10, <2>1, <2>2 DEF Read, ghosts, TypeOK
<1>11. ASSUME NEW a \in Ages, NEW kind \in Kinds, Finish(a, kind),
              replied' = IF kind = "answer" THEN now ELSE replied
       PROVE  TypeOK'
  <2>1. flight' \in [Ages -> Nat]
    BY <1>11 DEF Finish, TypeOK
  <2>2. results' \in Seq({"answer", "timeout", "error"})
    BY <1>11 DEF Finish, TypeOK, Kinds
  <2>3. replied' \in 0..now'
    BY <1>2, <1>11 DEF Finish, TypeOK
  <2>4. QED
    BY <1>11, <2>1, <2>2, <2>3 DEF Finish, TypeOK
<1>12. CASE Pings
  BY <1>1, <1>11, <1>12 DEF Pings, TimedOut, Answered, Failed, Kinds
<1>13. CASE Clock
  <2>1. \A a \in Ages : a # 0 => a - 1 \in Ages
    BY <1>1 DEF Ages
  <2>2. flight' \in [Ages -> Nat]
    BY <1>13, <2>1 DEF Clock, TypeOK
  <2>3. now' \in 0..MaxTime /\ lastAnswer' \in 0..now' /\ replied' \in 0..now' /\ dialled' \in 0..now'
    BY <1>1, <1>2, <1>13 DEF Clock, ghosts, TypeOK
  <2>4. tick' \in BOOLEAN
    BY <1>13 DEF Clock
  <2>5. QED
    BY <1>13, <2>2, <2>3, <2>4 DEF Clock, ghosts, TypeOK
<1>14. pc \in {"dial", "sleep"} \/ pc = "session" \/ ~Cancel
  BY DEF Cancel
<1>15. QED
  BY <1>4, <1>5, <1>7, <1>8, <1>9, <1>10, <1>12, <1>13, <1>14 DEF Next, Loop

(* Type correctness of the session, its clock, its PINGs and its backoff.   *)
THEOREM SessionTypeCorrect == Spec => []TypeOK
<1>1. Init => TypeOK
  <2>1. SUFFICES ASSUME Init PROVE TypeOK
    OBVIOUS
  <2>2. NoPings \in [Ages -> Nat] /\ <<>> \in Seq({"answer", "timeout", "error"})
    BY DEF NoPings
  <2>3. flight \in [Ages -> Nat] /\ results \in Seq({"answer", "timeout", "error"})
    BY <2>1, <2>2, Zenon DEF Init
  <2>4. /\ now \in 0..MaxTime /\ backoff \in MinBackoff..MaxBackoff /\ wake \in 0..(MaxTime + MaxBackoff)
        /\ lastAnswer \in 0..now /\ replied \in 0..now /\ dialled \in 0..now
    BY <2>1, BackoffAssumption, MaxTimeAssumption DEF Init
  <2>5. QED
    BY <2>1, <2>3, <2>4 DEF Init, TypeOK
<1>2. QED
  BY <1>1, SessionTypeStep, PTL DEF Spec

------------------------------------------------------------------------------
(***************************************************************************)
(* Route traces. An address is recorded at its own distance, and a          *)
(* route-changed event is about the route or about a trace that overshot    *)
(* its destination. The MTU a trace finds is its path's, where the answers  *)
(* quote their probes and name the MTU.                                     *)
(*                                                                          *)
(* The argument is about the entries under way. The sequence number grows   *)
(* with every probe, so an entry that quotes the one in flight was caused   *)
(* by it: it comes from whoever stands at the present TTL on a route of     *)
(* this trace, and from the destination only if the TTL is past the path.   *)
(***************************************************************************)
Entries == wire \cup {queue[i] : i \in DOMAIN queue}

(* What an entry that quotes the probe in flight says is so.                *)
Truthful(e) ==
    e.seq = seq /\ e.kind # "toobig" =>
        \E r \in seen : At(r, ttl, e.from) /\ (e.kind = "reached" => ttl > Len(r.path))

(* An address that may stand at TTL i of a trace over the routes of set.    *)
Placed(i, ip, set) == ip \in Brief \cup {""} \/ \E r \in set : At(r, i, ip)

(* A trace, in progress or recorded.                                        *)
HopsPlaced(rec) == \A i \in DOMAIN rec.hops : Placed(i, rec.hops[i], rec.seen)
EndPlaced(rec) ==
    rec.reached =>
        /\ Len(rec.hops) > 0
        /\ \/ rec.hops[Len(rec.hops)] \in Brief
           \/ \E r \in rec.seen : Len(rec.hops) > Len(r.path)
Sound(rec) == HopsPlaced(rec) /\ EndPlaced(rec)

Probing == phase \in {"idle", "send", "wait", "toobig"}

IInv ==
    /\ TraceTypeOK
    /\ route \in seen
    /\ \A e \in Entries : e.seq <= seq
    /\ phase = "wait" => \A e \in Entries : Truthful(e)
    /\ Probing => Len(hops) = ttl - 1
    /\ phase = "idle" => hops = << >>
    /\ phase # "done" => ~reached
    /\ Sound(Cur)
    /\ DOMAIN prev \subseteq {1}
    /\ \A i \in DOMAIN prev : Sound(prev[i])

------------------------------------------------------------------------------
(* Sequences.                                                               *)
LEMMA SeqOf ==
    ASSUME NEW S, NEW s \in Seq(S)
    PROVE  /\ Len(s) \in Nat /\ DOMAIN s = 1 .. Len(s)
           /\ \A j \in DOMAIN s : s[j] \in S
  OBVIOUS

LEMMA Appended ==
    ASSUME NEW S, NEW s \in Seq(S), NEW x \in S
    PROVE  /\ Append(s, x) \in Seq(S) /\ Len(Append(s, x)) = Len(s) + 1
           /\ \A j \in 1 .. Len(s) : Append(s, x)[j] = s[j]
           /\ Append(s, x)[Len(s) + 1] = x
  OBVIOUS

LEMMA AppendedIn ==
    ASSUME NEW S, NEW s \in Seq(S), NEW x \in S
    PROVE  \A j \in DOMAIN Append(s, x) :
               Append(s, x)[j] = x \/ (j \in DOMAIN s /\ Append(s, x)[j] = s[j])
<1>1. /\ Len(s) \in Nat /\ DOMAIN s = 1 .. Len(s) /\ Len(Append(s, x)) = Len(s) + 1
      /\ DOMAIN Append(s, x) = 1 .. (Len(s) + 1)
      /\ \A j \in 1 .. Len(s) : Append(s, x)[j] = s[j]
      /\ Append(s, x)[Len(s) + 1] = x
  OBVIOUS
<1>2. \A j \in 1 .. (Len(s) + 1) : j = Len(s) + 1 \/ j \in 1 .. Len(s)
  BY <1>1
<1>3. QED
  BY <1>1, <1>2, Zenon

LEMMA Rest ==
    ASSUME NEW S, NEW s \in Seq(S), s # << >>
    PROVE  /\ Head(s) = s[1] /\ 1 \in DOMAIN s /\ Head(s) \in S /\ Tail(s) \in Seq(S)
           /\ \A j \in DOMAIN Tail(s) : j + 1 \in DOMAIN s /\ Tail(s)[j] = s[j + 1]
  OBVIOUS

LEMMA Single == ASSUME NEW S, NEW x \in S PROVE <<x>> \in Seq(S)
  OBVIOUS

LEMMA OneOf == ASSUME NEW x PROVE DOMAIN <<x>> = {1} /\ <<x>>[1] = x
  OBVIOUS

LEMMA AddressesAre ==
    /\ "" \in Addresses
    /\ \A r \in Routes : r.from \in Addresses /\ \A i \in DOMAIN r.path : r.path[i] \in Addresses
<1>1. "" \in Addresses
  BY Zenon DEF Addresses
<1>2. ASSUME NEW r \in Routes PROVE r.from \in Addresses
  BY <1>2, Zenon DEF Addresses
<1>3. ASSUME NEW r \in Routes, NEW i \in DOMAIN r.path PROVE r.path[i] \in Addresses
  <2>1. r.path[i] \in {r.path[j] : j \in DOMAIN r.path}
    BY Zenon
  <2>2. {r.path[j] : j \in DOMAIN r.path} \in {{q.path[j] : j \in DOMAIN q.path} : q \in Routes}
    BY Zenon
  <2>3. r.path[i] \in UNION {{q.path[j] : j \in DOMAIN q.path} : q \in Routes}
    BY <2>1, <2>2, Zenon
  <2>4. QED
    BY <2>3, Zenon DEF Addresses
<1>4. QED
  BY <1>1, <1>2, <1>3, Zenon

(* An answer of the network to a probe, on the route of the moment.         *)
LEMMA AnswersSound ==
    ASSUME RouteAssumption, route \in Routes,
           NEW n \in Nat, NEW i \in Nat \ {0}, NEW size \in Nat,
           NEW e \in Answers(n, i, size)
    PROVE  /\ e \in EntryType /\ e.seq = n
           /\ e.kind # "toobig" => At(route, i, e.from)
           /\ e.kind = "reached" => i > Len(route.path)
<1> DEFINE tight == {j \in DOMAIN route.path : j < i /\ size > route.links[j]}
<1>1. /\ route.path \in Seq(STRING \ {""})
      /\ route.end \in {"reached", "unreachable", "dropped"}
  BY DEF RouteAssumption
<1>7. route.links \in [0 .. Len(route.path) -> Nat]
  BY DEF RouteAssumption
<1>6. /\ Len(route.path) \in Nat /\ DOMAIN route.path = 1 .. Len(route.path)
      /\ \A j \in DOMAIN route.path : route.path[j] \in Addresses
  <2>1. route.path \in Seq(STRING \ {""})
    BY <1>1
  <2>2. Len(route.path) \in Nat /\ DOMAIN route.path = 1 .. Len(route.path)
    BY <2>1, SeqOf, Zenon
  <2>3. \A j \in DOMAIN route.path : route.path[j] \in Addresses
    BY AddressesAre
  <2>4. QED
    BY <2>2, <2>3
<1>2. CASE tight # {}
  <2>1. PICK j \in tight : e = Entry(n, "toobig", route.path[j],
                                     IF route.path[j] \in Vague THEN 0 ELSE route.links[j])
    BY <1>2 DEF Answers
  <2>2. route.path[j] \in Addresses /\ route.links[j] \in Nat
    <3>1. j \in 1 .. Len(route.path)
      BY <1>6
    <3>2. route.links[j] \in Nat
      BY <1>6, <1>7, <3>1
    <3>3. QED
      BY <1>6, <3>2
  <2>3. e.kind = "toobig" /\ e.seq = n
    BY <2>1 DEF Entry
  <2>4. e \in EntryType
    BY <2>1, <2>2 DEF Entry, EntryType
  <2>5. QED
    BY <2>3, <2>4
<1>3. CASE tight = {} /\ i \in DOMAIN route.path
  <2>1. e = Entry(n, "hop", route.path[i], 0)
    BY <1>3 DEF Answers
  <2>2. route.path[i] \in Addresses
    BY <1>3, <1>6
  <2>3. e.kind = "hop" /\ e.seq = n /\ e.from = route.path[i]
    BY <2>1 DEF Entry
  <2>4. e \in EntryType
    BY <2>1, <2>2 DEF Entry, EntryType
  <2>5. QED
    BY <1>3, <2>3, <2>4 DEF At
<1>4. CASE tight = {} /\ i \notin DOMAIN route.path
  <2>1. e = Entry(n, route.end, route.from, 0) /\ route.end # "dropped"
    BY <1>4 DEF Answers
  <2>2. i > Len(route.path)
    BY <1>4, <1>6
  <2>3. e.seq = n /\ e.from = route.from
    BY <2>1 DEF Entry
  <2>4. e \in EntryType
    BY <1>1, <2>1, AddressesAre DEF Entry, EntryType
  <2>5. QED
    BY <1>4, <2>2, <2>3, <2>4 DEF At
<1>5. QED
  BY <1>2, <1>3, <1>4

(* A TTL is done with: its hop is placed, and the next one is one further.  *)
LEMMA NextHopSound ==
    ASSUME TracerAssumption, TraceTypeOK, HopsPlaced(Cur), Len(hops) = ttl - 1,
           NEW ip \in Addresses, Placed(ttl, ip, seen), NEW ends \in BOOLEAN, NEW quiet \in Nat,
           NextHop(ip, ends, quiet), seen' = seen
    PROVE  /\ hops' \in Seq(Addresses) /\ Len(hops') = ttl /\ hops'[ttl] = ip
           /\ HopsPlaced(Cur)'
           /\ phase' \in {"done", "send"} /\ (ends => phase' = "done")
           /\ phase' = "send" => ttl' = ttl + 1
           /\ ttl' \in 1 .. MaxHops /\ try' = 0 /\ silent' = quiet
<1>1. /\ ttl \in 1 .. MaxHops /\ MaxHops \in Nat /\ hops \in Seq(Addresses)
      /\ hops' = Append(hops, ip)
  BY DEF TraceTypeOK, TracerAssumption, NextHop
<1>2. /\ hops' \in Seq(Addresses) /\ Len(hops') = ttl /\ hops'[ttl] = ip
      /\ \A i \in DOMAIN hops' : i = ttl \/ (i \in DOMAIN hops /\ hops'[i] = hops[i])
  <2>1. /\ hops' \in Seq(Addresses) /\ Len(hops') = Len(hops) + 1
        /\ \A i \in 1 .. Len(hops) : hops'[i] = hops[i]
        /\ hops'[Len(hops) + 1] = ip
    <3>1. hops \in Seq(Addresses) /\ ip \in Addresses
      BY <1>1
    <3>2. /\ Append(hops, ip) \in Seq(Addresses) /\ Len(Append(hops, ip)) = Len(hops) + 1
          /\ \A i \in 1 .. Len(hops) : Append(hops, ip)[i] = hops[i]
          /\ Append(hops, ip)[Len(hops) + 1] = ip
      BY <3>1, Appended
    <3>3. QED
      BY <1>1, <3>2, Zenon
  <2>2. DOMAIN hops = 1 .. Len(hops) /\ DOMAIN hops' = 1 .. Len(hops') /\ Len(hops) + 1 = ttl
    BY <1>1, <2>1
  <2>3. ASSUME NEW i \in DOMAIN hops', i # ttl
        PROVE  i \in DOMAIN hops /\ hops'[i] = hops[i]
    <3>1. i \in 1 .. Len(hops)
      BY <1>1, <2>1, <2>2, <2>3
    <3>2. QED
      BY <2>1, <2>2, <3>1
  <2>4. QED
    BY <2>1, <2>2, <2>3
<1>3. ASSUME NEW i \in DOMAIN hops' PROVE Placed(i, hops'[i], seen')
  <2>1. CASE i = ttl
    BY <1>2, <2>1 DEF Placed
  <2>2. CASE i \in DOMAIN hops /\ hops'[i] = hops[i]
    BY <2>2 DEF HopsPlaced, Cur, Placed
  <2>3. QED
    BY <1>2, <2>1, <2>2
<1>4. HopsPlaced(Cur)'
  BY <1>3 DEF HopsPlaced, Cur
<1>5. /\ phase' \in {"done", "send"} /\ (ends => phase' = "done")
      /\ phase' = "send" => ttl' = ttl + 1
      /\ ttl' \in 1 .. MaxHops /\ try' = 0 /\ silent' = quiet
  BY <1>1 DEF NextHop
<1>6. QED
  BY <1>2, <1>4, <1>5

------------------------------------------------------------------------------
(* Initially no probe is out and nothing is recorded.                       *)
LEMMA InitSound == ASSUME TracerAssumption, TraceInit PROVE IInv
<1>1. TraceTypeOK
  <2>1. 1 \in 1 .. MaxHops /\ 0 \in 0 .. ProbesPerHop - 1
    BY DEF TracerAssumption
  <2>2. << >> \in Seq(EntryType) /\ << >> \in Seq(Addresses) /\ << >> \in Seq(RecordType)
    OBVIOUS
  <2>3. 0 \in Nat
    OBVIOUS
  <2>4. QED
    BY <2>1, <2>2, <2>3, Zenon DEF TraceInit, TraceTypeOK
<1>2. Entries = {} /\ Sound(Cur)
  BY DEF TraceInit, Entries, Sound, HopsPlaced, EndPlaced, Cur
<1>3. QED
  BY <1>1, <1>2 DEF IInv, TraceInit, Probing

(* What a step has to show when it leaves the probe in flight and the trace *)
(* as they are.                                                             *)
LEMMA Undisturbed ==
    ASSUME IInv, TraceTypeOK', route' \in seen', seen \subseteq seen',
           UNCHANGED <<phase, seq, found, prev>>,
           \A e \in Entries' : e \in Entries
    PROVE  IInv'
<1>1. \A e \in Entries : Truthful(e) => Truthful(e)'
  BY DEF Truthful, found, At
<1>2. Sound(Cur)'
  BY DEF IInv, Sound, HopsPlaced, EndPlaced, Cur, Placed, found, At
<1>3. \A i \in DOMAIN prev' : Sound(prev'[i])
  BY DEF IInv
<1>4. QED
  BY <1>1, <1>2, <1>3 DEF IInv, Probing, found

(* What a step has to show when no probe is in flight after it and the      *)
(* trace is as it was, or gone.                                             *)
LEMMA NoProbe ==
    ASSUME IInv, TraceTypeOK', route' \in seen', UNCHANGED prev,
           \A e \in Entries' : e.seq <= seq', phase' # "wait",
           Probing' => Len(hops') = ttl' - 1, phase' = "idle" => hops' = << >>,
           phase' # "done" => ~reached', Sound(Cur)'
    PROVE  IInv'
  BY DEF IInv

------------------------------------------------------------------------------
(* Types.                                                                   *)
LEMMA LoweredType == ASSUME TracerAssumption, mtu \in Nat, NEW info \in Nat PROVE Lowered(info) \in Nat
  BY DEF TracerAssumption, Lowered, Greater

LEMMA NextHopType ==
    ASSUME TracerAssumption, TraceTypeOK, NEW ip \in Addresses, NEW ends \in BOOLEAN, NEW quiet \in Nat,
           NextHop(ip, ends, quiet)
    PROVE  /\ hops' \in Seq(Addresses) /\ silent' \in Nat /\ try' \in 0 .. ProbesPerHop - 1
           /\ ttl' \in 1 .. MaxHops /\ phase' \in {"done", "send"}
<1>1. hops' \in Seq(Addresses)
  <2>1. hops \in Seq(Addresses) /\ hops' = Append(hops, ip)
    BY DEF TraceTypeOK, NextHop
  <2>2. QED
    BY <2>1, Appended, Zenon
<1>2. QED
  BY <1>1 DEF TracerAssumption, TraceTypeOK, NextHop

LEMMA TriedType ==
    ASSUME TracerAssumption, TraceTypeOK, Tried
    PROVE  /\ hops' \in Seq(Addresses) /\ silent' \in Nat /\ try' \in 0 .. ProbesPerHop - 1
           /\ ttl' \in 1 .. MaxHops /\ phase' \in {"done", "send"} /\ reached' = reached
<1>1. CASE try + 1 < ProbesPerHop
  BY <1>1 DEF TracerAssumption, TraceTypeOK, Tried
<1>2. CASE ~(try + 1 < ProbesPerHop)
  <2>1. NextHop("", FALSE, silent + 1) /\ reached' = reached
    BY <1>2 DEF Tried
  <2>2. "" \in Addresses /\ silent + 1 \in Nat
    <3>1. silent \in Nat
      BY DEF TraceTypeOK
    <3>2. silent + 1 \in Nat
      BY <3>1
    <3>3. QED
      BY <3>2, AddressesAre, Zenon
  <2>3. FALSE \in BOOLEAN
    OBVIOUS
  <2>4. QED
    BY <2>1, <2>2, <2>3, NextHopType, Zenon
<1>3. QED
  BY <1>1, <1>2

LEMMA ShrinkType ==
    ASSUME TracerAssumption, TraceTypeOK, NEW info \in Nat, Shrink(info)
    PROVE  /\ hops' \in Seq(Addresses) /\ silent' \in Nat /\ try' \in 0 .. ProbesPerHop - 1
           /\ ttl' \in 1 .. MaxHops /\ phase' \in {"done", "send"} /\ reached' = reached
           /\ mtu' \in Nat
<1>1. mtu' \in Nat
  BY LoweredType DEF TraceTypeOK, Shrink
<1>2. CASE mtu' < mtu
  BY <1>1, <1>2 DEF TraceTypeOK, Shrink, found
<1>3. CASE ~(mtu' < mtu)
  BY <1>1, <1>3, TriedType DEF Shrink
<1>4. QED
  BY <1>2, <1>3

(* What the head of the queue is, and the rest.                             *)
LEMMA QueueType ==
    ASSUME TraceTypeOK, queue # << >>
    PROVE  /\ Head(queue) \in EntryType /\ Tail(queue) \in Seq(EntryType)
           /\ Head(queue) = queue[1] /\ 1 \in DOMAIN queue
           /\ \A j \in DOMAIN Tail(queue) : j + 1 \in DOMAIN queue /\ Tail(queue)[j] = queue[j + 1]
<1>1. queue \in Seq(EntryType)
  BY DEF TraceTypeOK
<1>2. QED
  BY <1>1, Rest, Zenon

LEMMA TypePreserved ==
    ASSUME TracerAssumption, RouteAssumption, TraceTypeOK, [TraceNext]_traceVars
    PROVE  TraceTypeOK'
<1>1. CASE UNCHANGED traceVars
  BY <1>1 DEF TraceTypeOK, traceVars, net, found, record
<1>2. ASSUME NEW e \in wire, Arrive(e) PROVE TraceTypeOK'
  <2>1. queue \in Seq(EntryType) /\ e \in EntryType /\ queue' = Append(queue, e)
    BY <1>2 DEF TraceTypeOK, Arrive
  <2>2. queue' \in Seq(EntryType)
    BY <2>1, Appended, Zenon
  <2>3. QED
    BY <1>2, <2>2 DEF TraceTypeOK, Arrive, net, found, record
<1>3. ASSUME NEW r \in Routes, Reroute(r) PROVE TraceTypeOK'
  BY <1>3 DEF TraceTypeOK, Reroute, found, record
<1>4. ASSUME NEW m \in Starts, Begin(m) PROVE TraceTypeOK'
  <2>1. m \in Nat /\ route \in Routes /\ traces + 1 \in Nat
    BY DEF TraceTypeOK, TracerAssumption
  <2>2. /\ start' \in Nat /\ mtu' \in Nat /\ seen' \subseteq Routes /\ traces' \in Nat
        /\ changed' \in BOOLEAN /\ phase' = "send"
    BY <1>4, <2>1 DEF Begin
  <2>3. QED
    BY <1>4, <2>2 DEF TraceTypeOK, Begin, found
<1>5. CASE SendProbe
  <2>1. seq' \in Nat /\ ttl \in Nat \ {0} /\ mtu \in Nat /\ route \in Routes
    BY <1>5 DEF SendProbe, TraceTypeOK, TracerAssumption
  <2>2. \A e \in Answers(seq', ttl, mtu) : e \in EntryType
    BY <2>1, AnswersSound
  <2>3. wire' \subseteq EntryType
    BY <1>5, <2>2 DEF SendProbe, TraceTypeOK
  <2>4. queue' \in Seq(EntryType)
    BY <1>5 DEF SendProbe
  <2>5. QED
    BY <1>5, <2>1, <2>3, <2>4 DEF SendProbe, TraceTypeOK, net, found, record
<1>6. CASE Oversize
  <2>1. route.links[0] \in Nat /\ seq' \in Nat
    <3>1. route.links \in [0 .. Len(route.path) -> Nat] /\ route.path \in Seq(STRING \ {""})
      BY DEF TraceTypeOK, RouteAssumption
    <3>2. Len(route.path) \in Nat
      BY <3>1, SeqOf, Zenon
    <3>3. 0 \in 0 .. Len(route.path)
      BY <3>2
    <3>4. route.links[0] \in Nat
      BY <3>1, <3>3
    <3>5. seq \in Nat /\ seq' = seq + 1
      BY <1>6 DEF Oversize, TraceTypeOK
    <3>6. QED
      BY <3>4, <3>5
  <2>2. Entry(seq', "toobig", "", route.links[0]) \in EntryType
    BY <2>1, AddressesAre DEF Entry, EntryType
  <2>3. queue' \in Seq(EntryType)
    <3>1. queue' = <<Entry(seq', "toobig", "", route.links[0])>>
      BY <1>6 DEF Oversize
    <3>2. QED
      BY <2>2, <3>1, Single, Zenon
  <2>4. QED
    BY <1>6, <2>1, <2>3 DEF Oversize, TraceTypeOK, net, found, record
<1>7. CASE Drain
  <2>1. PICK i \in DOMAIN queue : Shrink(queue[i].info)
    BY <1>7 DEF Drain
  <2>2. queue[i].info \in Nat
    <3>1. queue[i] \in EntryType
      BY SeqOf DEF TraceTypeOK
    <3>2. QED
      BY <3>1 DEF EntryType
  <2>3. queue' \in Seq(EntryType)
    BY <1>7 DEF Drain
  <2>4. QED
    BY <1>7, <2>1, <2>2, <2>3, ShrinkType DEF Drain, TraceTypeOK, net, record
<1>8. CASE Skip
  BY <1>8, QueueType DEF TraceTypeOK, Skip, net, found, record
<1>9. CASE TooBig
  <2>1. Head(queue).info \in Nat /\ Tail(queue) \in Seq(EntryType)
    BY <1>9, QueueType DEF TooBig, EntryType
  <2>2. Shrink(Head(queue).info)
    BY <1>9 DEF TooBig
  <2>3. QED
    BY <1>9, <2>1, <2>2, ShrinkType DEF TooBig, TraceTypeOK, net, record
<1>10. CASE HopFound
  <2>1. Head(queue).from \in Addresses /\ Tail(queue) \in Seq(EntryType)
    BY <1>10, QueueType DEF HopFound, EntryType
  <2>2. NextHop(Head(queue).from, Head(queue).kind \in {"reached", "unreachable"}, 0)
    BY <1>10 DEF HopFound
  <2>3. (Head(queue).kind \in {"reached", "unreachable"}) \in BOOLEAN /\ 0 \in Nat
    OBVIOUS
  <2>4. /\ hops' \in Seq(Addresses) /\ silent' \in Nat /\ try' \in 0 .. ProbesPerHop - 1
        /\ ttl' \in 1 .. MaxHops /\ phase' \in {"done", "send"}
    BY <2>1, <2>2, <2>3, NextHopType, Zenon
  <2>5. reached' \in BOOLEAN
    BY <1>10 DEF HopFound
  <2>6. QED
    BY <1>10, <2>1, <2>4, <2>5 DEF HopFound, TraceTypeOK, net, record
<1>11. CASE Timeout
  BY <1>11, TriedType DEF Timeout, TraceTypeOK, net, record
<1>12. CASE Fail
  <2>1. hops' \in Seq(Addresses)
    <3>1. hops \in Seq(Addresses) /\ "" \in Addresses /\ hops' = Append(hops, "")
      BY <1>12, AddressesAre DEF Fail, TraceTypeOK
    <3>2. QED
      BY <3>1, Appended, Zenon
  <2>2. QED
    BY <1>12, <2>1 DEF Fail, TraceTypeOK, net, record
<1>13. ASSUME Closed PROVE /\ route' \in Routes /\ seen' \subseteq Routes /\ rerouted' \in Nat
                           /\ wire' \subseteq EntryType /\ queue' \in Seq(EntryType)
                           /\ phase' = "idle" /\ start' \in Nat /\ mtu' \in Nat
                           /\ ttl' \in 1 .. MaxHops /\ try' \in 0 .. ProbesPerHop - 1
                           /\ seq' \in Nat /\ silent' \in Nat /\ hops' \in Seq(Addresses)
                           /\ reached' \in BOOLEAN /\ traces' \in Nat
  <2>1. 1 \in 1 .. MaxHops /\ 0 \in 0 .. ProbesPerHop - 1
    BY DEF TracerAssumption
  <2>2. << >> \in Seq(EntryType) /\ << >> \in Seq(Addresses)
    OBVIOUS
  <2>3. QED
    BY <1>13, <2>1, <2>2 DEF Closed, TraceTypeOK, net
<1>14. CASE Record
  <2>1. Cur \in RecordType
    BY DEF Cur, RecordType, TraceTypeOK
  <2>2. prev' \in Seq(RecordType) /\ changed' \in BOOLEAN
    BY <1>14, <2>1 DEF Record
  <2>3. QED
    BY <1>13, <1>14, <2>2 DEF Record, TraceTypeOK
<1>15. CASE RecordError
  BY <1>13, <1>15 DEF RecordError, TraceTypeOK
<1>16. QED
  BY <1>1, <1>2, <1>3, <1>4, <1>5, <1>6, <1>7, <1>8, <1>9, <1>10, <1>11, <1>12, <1>14, <1>15
     DEF TraceNext, Network, Probe

------------------------------------------------------------------------------
(* A try that is used up leaves a silent TTL at most.                       *)
LEMMA TriedSound ==
    ASSUME TracerAssumption, IInv, Probing, Tried, seen' = seen
    PROVE  Sound(Cur)' /\ ~reached' /\ (Probing' => Len(hops') = ttl' - 1) /\ phase' \in {"done", "send"}
<1>1. TraceTypeOK /\ HopsPlaced(Cur) /\ Len(hops) = ttl - 1 /\ ~reached /\ reached' = reached
  BY DEF IInv, Sound, Probing, Tried
<1>2. EndPlaced(Cur)'
  BY <1>1 DEF EndPlaced, Cur
<1>3. CASE try + 1 < ProbesPerHop
  <2>1. phase' = "send" /\ UNCHANGED <<hops, ttl>>
    BY <1>3 DEF Tried
  <2>2. HopsPlaced(Cur)'
    BY <1>1, <2>1 DEF HopsPlaced, Placed, Cur
  <2>3. QED
    BY <1>1, <1>2, <2>1, <2>2 DEF Sound
<1>4. CASE ~(try + 1 < ProbesPerHop)
  <2>1. NextHop("", FALSE, silent + 1)
    BY <1>4 DEF Tried
  <2>2. "" \in Addresses /\ silent + 1 \in Nat
    <3>1. silent \in Nat
      BY <1>1 DEF TraceTypeOK
    <3>2. silent + 1 \in Nat
      BY <3>1
    <3>3. QED
      BY <3>2, AddressesAre, Zenon
  <2>3. FALSE \in BOOLEAN
    OBVIOUS
  <2>4. Placed(ttl, "", seen)
    BY DEF Placed
  <2>5. /\ HopsPlaced(Cur)' /\ Len(hops') = ttl /\ phase' \in {"done", "send"}
        /\ phase' = "send" => ttl' = ttl + 1
    BY <1>1, <2>1, <2>2, <2>3, <2>4, NextHopSound, Zenon
  <2>6. phase' = "send" => Len(hops') = ttl' - 1
    BY <1>1, <2>5 DEF TraceTypeOK
  <2>7. QED
    BY <1>1, <1>2, <2>5, <2>6 DEF Sound, Probing
<1>5. QED
  BY <1>3, <1>4

LEMMA ShrinkSound ==
    ASSUME TracerAssumption, IInv, Probing, NEW info \in Nat, Shrink(info), seen' = seen
    PROVE  Sound(Cur)' /\ ~reached' /\ (Probing' => Len(hops') = ttl' - 1) /\ phase' \in {"done", "send"}
<1>1. CASE mtu' < mtu
  <2>1. phase' = "send" /\ UNCHANGED <<hops, reached, ttl>>
    BY <1>1 DEF Shrink, found
  <2>2. Sound(Cur) /\ ~reached /\ Len(hops) = ttl - 1
    BY DEF IInv, Probing
  <2>3. QED
    BY <2>1, <2>2 DEF Sound, HopsPlaced, EndPlaced, Placed, Cur
<1>2. CASE ~(mtu' < mtu)
  BY <1>2, TriedSound DEF Shrink
<1>3. QED
  BY <1>1, <1>2

(* The entry that is taken for the answer is placed, unless it is brief.    *)
LEMMA HopFoundSound ==
    ASSUME TracerAssumption, IInv, HopFound
    PROVE  Sound(Cur)' /\ (phase' # "done" => ~reached') /\ (Probing' => Len(hops') = ttl' - 1)
           /\ phase' \in {"done", "send"}
<1> DEFINE e == Head(queue)
<1>1. /\ TraceTypeOK /\ HopsPlaced(Cur) /\ Len(hops) = ttl - 1 /\ e \in Entries /\ Truthful(e)
      /\ e \in EntryType /\ seen' = seen
  <2>1. queue # << >> /\ phase = "wait" /\ seen' = seen
    BY DEF HopFound, net
  <2>2. e \in EntryType /\ e \in Entries
    BY <2>1, QueueType DEF IInv, Entries
  <2>3. QED
    BY <2>1, <2>2 DEF IInv, Sound, Probing
<1>2. e.from \in Brief \/ (\E r \in seen : At(r, ttl, e.from) /\ (e.kind = "reached" => ttl > Len(r.path)))
  BY <1>1 DEF HopFound, Ours, Truthful
<1>3. Placed(ttl, e.from, seen)
  BY <1>2 DEF Placed
<1>4. /\ NextHop(e.from, e.kind \in {"reached", "unreachable"}, 0)
      /\ reached' = (e.kind = "reached")
  BY DEF HopFound
<1>5. e.from \in Addresses
  BY <1>1 DEF EntryType
<1>6. (e.kind \in {"reached", "unreachable"}) \in BOOLEAN /\ 0 \in Nat
  OBVIOUS
<1>7. /\ HopsPlaced(Cur)' /\ Len(hops') = ttl /\ hops'[ttl] = e.from
      /\ phase' \in {"done", "send"}
      /\ e.kind \in {"reached", "unreachable"} => phase' = "done"
      /\ phase' = "send" => ttl' = ttl + 1
  BY <1>1, <1>3, <1>4, <1>5, <1>6, NextHopSound, Zenon
<1>8. phase' = "send" => Len(hops') = ttl' - 1
  BY <1>1, <1>7 DEF TraceTypeOK
<1>9. EndPlaced(Cur)'
  <2>1. ttl > 0
    BY <1>1 DEF TraceTypeOK
  <2>2. QED
    BY <1>1, <1>2, <1>4, <1>7, <2>1 DEF EndPlaced, Cur
<1>10. QED
  BY <1>4, <1>7, <1>8, <1>9 DEF Sound, Probing

------------------------------------------------------------------------------
(* Every step preserves the invariant.                                      *)
LEMMA StepSound ==
    ASSUME TracerAssumption, RouteAssumption, IInv, TraceNext
    PROVE  IInv'
<1>1. TraceTypeOK /\ TraceTypeOK' /\ route \in seen /\ \A e \in Entries : e.seq <= seq
  BY TypePreserved DEF IInv
<1>2. ASSUME NEW e \in wire, Arrive(e) PROVE IInv'
  <2>1. \A f \in Entries' : f \in Entries
    <3>1. queue \in Seq(EntryType) /\ e \in EntryType /\ queue' = Append(queue, e)
      BY <1>1, <1>2 DEF TraceTypeOK, Arrive
    <3>2. /\ queue' \in Seq(EntryType) /\ Len(queue') = Len(queue) + 1
          /\ \A j \in 1 .. Len(queue) : queue'[j] = queue[j]
          /\ queue'[Len(queue) + 1] = e
      BY <3>1, Appended, Zenon
    <3>3. \A j \in DOMAIN queue' : queue'[j] = e \/ (j \in DOMAIN queue /\ queue'[j] = queue[j])
      <4>1. /\ DOMAIN queue' = 1 .. Len(queue') /\ DOMAIN queue = 1 .. Len(queue)
            /\ Len(queue) \in Nat
        BY <3>1, <3>2, SeqOf, Zenon
      <4>2. \A j \in 1 .. Len(queue') : j = Len(queue) + 1 \/ j \in 1 .. Len(queue)
        BY <3>2, <4>1
      <4>3. QED
        BY <3>2, <4>1, <4>2, Zenon
    <3>4. wire' \subseteq wire
      BY <1>2 DEF Arrive
    <3>5. QED
      BY <3>3, <3>4 DEF Entries
  <2>2. route' \in seen' /\ seen \subseteq seen' /\ UNCHANGED <<phase, seq, found, prev>>
    BY <1>1, <1>2 DEF Arrive, net, record
  <2>3. QED
    BY <1>1, <2>1, <2>2, Undisturbed
<1>3. ASSUME NEW r \in Routes, Reroute(r) PROVE IInv'
  <2>1. /\ route' \in seen' /\ seen \subseteq seen' /\ UNCHANGED <<phase, seq, found, prev>>
        /\ UNCHANGED <<wire, queue>>
    BY <1>3 DEF Reroute, record
  <2>2. \A e \in Entries' : e \in Entries
    BY <2>1 DEF Entries
  <2>3. QED
    BY <1>1, <2>1, <2>2, Undisturbed
<1>4. ASSUME NEW m \in Starts, Begin(m) PROVE IInv'
  <2>1. /\ phase = "idle" /\ phase' = "send" /\ UNCHANGED <<wire, queue, seq, prev, hops, ttl, reached>>
        /\ route' \in seen'
    BY <1>4 DEF Begin, found
  <2>2. \A e \in Entries' : e.seq <= seq'
    BY <1>1, <2>1 DEF Entries
  <2>3. hops = << >> /\ ~reached /\ Len(hops) = ttl - 1
    BY <2>1 DEF IInv, Probing
  <2>4. Sound(Cur)'
    BY <2>1, <2>3 DEF Sound, HopsPlaced, EndPlaced, Cur
  <2>5. QED
    BY <1>1, <2>1, <2>2, <2>3, <2>4, NoProbe
<1>5. CASE SendProbe
  <2>1. /\ phase = "send" /\ phase' = "wait" /\ seq' = seq + 1 /\ queue' = << >>
        /\ UNCHANGED <<route, seen, hops, ttl, reached, prev>>
    BY <1>5 DEF SendProbe, net, found, record
  <2>2. seq \in Nat /\ seq' \in Nat /\ ttl \in Nat \ {0} /\ mtu \in Nat /\ route \in Routes
    <3>1. ttl \in 1 .. MaxHops /\ MaxHops \in Nat /\ seq \in Nat /\ mtu \in Nat /\ route \in Routes
      BY <1>1 DEF TraceTypeOK, TracerAssumption
    <3>2. QED
      BY <2>1, <3>1
  <2>3. ASSUME NEW e \in Entries' PROVE e \in Entries \/ e \in Answers(seq', ttl, mtu)
    <3>1. e \in wire'
      BY <2>1, <2>3 DEF Entries
    <3>2. wire' = wire \/ wire' = wire \cup Answers(seq', ttl, mtu)
      BY <1>5 DEF SendProbe
    <3>3. QED
      BY <3>1, <3>2, Zenon DEF Entries
  <2>4. ASSUME NEW e \in Answers(seq', ttl, mtu) PROVE e.seq = seq' /\ Truthful(e)'
    <3>1. /\ e.seq = seq'
          /\ e.kind # "toobig" => At(route, ttl, e.from)
          /\ e.kind = "reached" => ttl > Len(route.path)
      BY <2>2, AnswersSound
    <3>2. QED
      BY <1>1, <2>1, <3>1 DEF Truthful, At
  <2>5. ASSUME NEW e \in Entries PROVE e.seq <= seq' /\ Truthful(e)'
    <3>1. e.seq \in Nat
      <4>1. e \in EntryType
        BY <1>1, SeqOf DEF Entries, TraceTypeOK
      <4>2. QED
        BY <4>1 DEF EntryType
    <3>2. e.seq <= seq' /\ e.seq # seq'
      BY <1>1, <2>1, <2>2, <3>1
    <3>3. QED
      BY <3>2 DEF Truthful
  <2>6. \A e \in Entries' : e.seq <= seq' /\ Truthful(e)'
    BY <2>2, <2>3, <2>4, <2>5
  <2>7. /\ Sound(Cur)' /\ Len(hops') = ttl' - 1 /\ ~reached'
        /\ DOMAIN prev' \subseteq {1} /\ \A i \in DOMAIN prev' : Sound(prev'[i])
    BY <2>1 DEF IInv, Sound, HopsPlaced, EndPlaced, Cur, Placed, Probing
  <2>8. QED
    BY <1>1, <2>1, <2>6, <2>7 DEF IInv
<1>6. CASE Oversize
  <2>1. /\ phase = "send" /\ phase' = "toobig" /\ seq' = seq + 1
        /\ queue' = <<Entry(seq', "toobig", "", route.links[0])>>
        /\ UNCHANGED <<route, seen, wire, hops, ttl, reached, prev>>
    BY <1>6 DEF Oversize, net, found, record
  <2>2. ASSUME NEW e \in Entries' PROVE e.seq <= seq'
    <3>1. CASE e \in wire
      <4>1. e \in EntryType /\ e.seq <= seq /\ seq \in Nat
        BY <1>1, <3>1 DEF TraceTypeOK, Entries
      <4>2. e.seq \in Nat /\ seq' = seq + 1
        BY <2>1, <4>1, Zenon DEF EntryType
      <4>3. QED
        BY <4>1, <4>2
    <3>2. CASE e.seq = seq'
      <4>1. seq' \in Nat
        BY <1>1 DEF TraceTypeOK
      <4>2. QED
        BY <3>2, <4>1
    <3>3. Entry(seq', "toobig", "", route.links[0]).seq = seq'
      BY Zenon DEF Entry
    <3>4. \A j \in DOMAIN queue' : queue'[j].seq = seq'
      <4>1. DOMAIN queue' = {1} /\ queue'[1] = Entry(seq', "toobig", "", route.links[0])
        BY <2>1, OneOf, Zenon
      <4>2. queue'[1].seq = seq'
        BY <3>3, <4>1, Zenon
      <4>3. \A j \in DOMAIN queue' : j = 1
        BY <4>1, Zenon
      <4>4. QED
        BY <4>2, <4>3, Zenon
    <3>5. QED
      BY <2>1, <3>1, <3>2, <3>4 DEF Entries
  <2>3. Sound(Cur)' /\ Len(hops') = ttl' - 1 /\ ~reached'
    BY <2>1 DEF IInv, Sound, HopsPlaced, EndPlaced, Cur, Placed, Probing
  <2>4. QED
    BY <1>1, <2>1, <2>2, <2>3, NoProbe
<1>7. CASE Drain
  <2>1. PICK i \in DOMAIN queue : Shrink(queue[i].info)
    BY <1>7 DEF Drain
  <2>2. queue[i].info \in Nat
    <3>1. queue[i] \in EntryType
      BY <1>1, SeqOf DEF TraceTypeOK
    <3>2. QED
      BY <3>1 DEF EntryType
  <2>3. /\ Probing /\ queue' = << >> /\ UNCHANGED <<route, seen, wire, seq, prev>>
    BY <1>7 DEF Drain, net, record, Probing
  <2>4. Sound(Cur)' /\ ~reached' /\ (Probing' => Len(hops') = ttl' - 1) /\ phase' \in {"done", "send"}
    BY <2>1, <2>2, <2>3, ShrinkSound
  <2>5. \A e \in Entries' : e.seq <= seq'
    BY <1>1, <2>3 DEF Entries
  <2>6. QED
    BY <1>1, <2>3, <2>4, <2>5, NoProbe
<1>8. ASSUME queue # << >>, queue' = Tail(queue), wire' = wire PROVE \A e \in Entries' : e \in Entries
  <2>1. \A j \in DOMAIN queue' : j + 1 \in DOMAIN queue /\ queue'[j] = queue[j + 1]
    BY <1>1, <1>8, QueueType
  <2>2. QED
    BY <1>8, <2>1 DEF Entries
<1>9. CASE Skip
  <2>1. \A e \in Entries' : e \in Entries
    BY <1>8, <1>9 DEF Skip
  <2>2. route' \in seen' /\ seen \subseteq seen' /\ UNCHANGED <<phase, seq, found, prev>>
    BY <1>1, <1>9 DEF Skip, net, record
  <2>3. QED
    BY <1>1, <2>1, <2>2, Undisturbed
<1>10. CASE TooBig
  <2>1. /\ Probing /\ UNCHANGED <<route, seen, wire, seq, prev>> /\ Shrink(Head(queue).info)
    BY <1>10 DEF TooBig, net, record, Probing
  <2>2. Head(queue).info \in Nat
    BY <1>1, <1>10, QueueType DEF TooBig, EntryType
  <2>3. Sound(Cur)' /\ ~reached' /\ (Probing' => Len(hops') = ttl' - 1) /\ phase' \in {"done", "send"}
    BY <2>1, <2>2, ShrinkSound
  <2>4. \A e \in Entries' : e.seq <= seq'
    BY <1>1, <1>8, <1>10, <2>1 DEF TooBig
  <2>5. QED
    BY <1>1, <2>1, <2>3, <2>4, NoProbe
<1>11. CASE HopFound
  <2>1. UNCHANGED <<route, seen, wire, seq, prev>>
    BY <1>11 DEF HopFound, net, record
  <2>2. \A e \in Entries' : e.seq <= seq'
    BY <1>1, <1>8, <1>11, <2>1 DEF HopFound
  <2>3. QED
    BY <1>1, <1>11, <2>1, <2>2, HopFoundSound, NoProbe
<1>12. CASE Timeout
  <2>1. Probing /\ Tried /\ UNCHANGED <<route, seen, wire, queue, seq, prev>>
    BY <1>12 DEF Timeout, net, record, Probing
  <2>2. \A e \in Entries' : e.seq <= seq'
    BY <1>1, <2>1 DEF Entries
  <2>3. QED
    BY <1>1, <2>1, <2>2, TriedSound, NoProbe
<1>13. CASE Fail
  <2>1. /\ phase' = "failed" /\ hops' = Append(hops, "") /\ ~reached'
        /\ UNCHANGED <<route, seen, wire, queue, seq, prev>>
    BY <1>13 DEF Fail, net, record, IInv
  <2>2. \A e \in Entries' : e.seq <= seq'
    BY <1>1, <2>1 DEF Entries
  <2>3. HopsPlaced(Cur)'
    <3>1. hops \in Seq(Addresses) /\ "" \in Addresses
      BY <1>1, AddressesAre DEF TraceTypeOK
    <3>2. /\ hops' \in Seq(Addresses) /\ Len(hops') = Len(hops) + 1
          /\ \A j \in 1 .. Len(hops) : hops'[j] = hops[j]
          /\ hops'[Len(hops) + 1] = ""
      BY <2>1, <3>1, Appended, Zenon
    <3>3. \A j \in DOMAIN hops' : hops'[j] = "" \/ (j \in DOMAIN hops /\ hops'[j] = hops[j])
      <4>1. /\ DOMAIN hops' = 1 .. Len(hops') /\ DOMAIN hops = 1 .. Len(hops)
            /\ Len(hops) \in Nat
        BY <3>1, <3>2, SeqOf, Zenon
      <4>2. Len(hops') = Len(hops) + 1
        BY <3>2, Zenon
      <4>3. \A j \in 1 .. Len(hops') : j = Len(hops) + 1 \/ j \in 1 .. Len(hops)
        BY <4>1, <4>2
      <4>4. QED
        BY <3>2, <4>1, <4>3, Zenon
    <3>4. HopsPlaced(Cur) /\ seen' = seen
      BY <2>1 DEF IInv, Sound
    <3>5. \A j \in DOMAIN hops' : Placed(j, hops'[j], seen')
      BY <3>3, <3>4 DEF HopsPlaced, Placed, Cur
    <3>6. QED
      BY <3>5 DEF HopsPlaced, Cur
  <2>4. Sound(Cur)'
    BY <2>1, <2>3 DEF Sound, EndPlaced, Cur
  <2>5. QED
    BY <1>1, <2>1, <2>2, <2>4, NoProbe DEF Probing
<1>14. ASSUME Closed
       PROVE  /\ route' \in seen' /\ Entries' = {} /\ Len(hops') = ttl' - 1 /\ hops' = << >> /\ ~reached'
              /\ phase' = "idle" /\ Sound(Cur)'
  <2>1. /\ UNCHANGED <<route, seen>> /\ wire' = {} /\ queue' = << >> /\ hops' = << >> /\ ttl' = 1
        /\ reached' = FALSE /\ phase' = "idle"
    BY <1>14 DEF Closed, net
  <2>2. Sound(Cur)'
    BY <2>1 DEF Sound, HopsPlaced, EndPlaced, Cur
  <2>3. QED
    BY <1>1, <2>1, <2>2 DEF Entries
<1>15. CASE Record
  <2>1. Closed /\ prev' = <<Cur>>
    BY <1>15 DEF Record
  <2>2. DOMAIN prev' \subseteq {1} /\ \A i \in DOMAIN prev' : Sound(prev'[i])
    <3>1. DOMAIN prev' = {1} /\ prev'[1] = Cur
      BY <2>1, OneOf
    <3>2. Sound(Cur)
      BY DEF IInv
    <3>3. \A i \in DOMAIN prev' : i = 1
      BY <3>1
    <3>4. QED
      BY <3>1, <3>2, <3>3, Zenon
  <2>3. QED
    BY <1>1, <1>14, <2>1, <2>2 DEF IInv
<1>16. CASE RecordError
  <2>1. Closed /\ UNCHANGED prev
    BY <1>16 DEF RecordError
  <2>2. QED
    BY <1>1, <1>14, <2>1, NoProbe
<1>17. QED
  BY <1>2, <1>3, <1>4, <1>5, <1>6, <1>7, <1>9, <1>10, <1>11, <1>12, <1>13, <1>15, <1>16
     DEF TraceNext, Network, Probe

------------------------------------------------------------------------------
(* The invariant holds of every run: no bound, loss, delay or change of     *)
(* route matters to it.                                                     *)
LEMMA Invariant == ASSUME TracerAssumption, RouteAssumption PROVE TraceSpec => []IInv
<1>1. TraceInit => IInv
  BY InitSound
<1>2. IInv /\ UNCHANGED traceVars => IInv'
  <2>1. SUFFICES ASSUME IInv, UNCHANGED traceVars PROVE IInv'
    OBVIOUS
  <2>2. TraceTypeOK'
    BY <2>1, TypePreserved DEF IInv
  <2>3. /\ route' \in seen' /\ seen \subseteq seen' /\ UNCHANGED <<phase, seq, found, prev>>
        /\ UNCHANGED <<wire, queue>>
    BY <2>1 DEF traceVars, net, record, IInv
  <2>4. \A e \in Entries' : e \in Entries
    BY <2>3 DEF Entries
  <2>5. QED
    BY <2>1, <2>2, <2>3, <2>4, Undisturbed
<1>3. IInv /\ [TraceNext]_traceVars => IInv'
  BY <1>2, StepSound
<1>4. QED
  BY <1>1, <1>3, PTL DEF TraceSpec

(* An address stands at its own TTL: whatever arrives late, out of order or *)
(* after a change of route, hop records a router at the distance it has on  *)
(* a route of the trace (wait skips what quotes another probe).             *)
THEOREM AddressesStandAtTheirTTL ==
    ASSUME TracerAssumption, RouteAssumption PROVE TraceSpec => []HopsAreTheirRouters
<1>1. IInv => HopsAreTheirRouters
  BY DEF IInv, Sound, HopsPlaced, Placed, Cur, HopsAreTheirRouters
<1>2. QED
  BY <1>1, Invariant, PTL

(* Two traces over one route that did not overshoot agree.                  *)
LEMMA SameRouteNoChange ==
    ASSUME RouteAssumption,
           NEW a \in RecordType, NEW b \in RecordType, Sound(a), Sound(b),
           Quoted(a), Quoted(b), RouteChanged(a, b), ~Overshot(a), ~Overshot(b)
    PROVE  Differs(a, b)
<1>1. SUFFICES ASSUME \A r, q \in a.seen \cup b.seen : r = q PROVE FALSE
  BY DEF Differs
<1>2. /\ a.hops \in Seq(Addresses) /\ b.hops \in Seq(Addresses)
      /\ a.seen \subseteq Routes /\ b.seen \subseteq Routes
  BY DEF RecordType
<1>3. /\ Len(a.hops) \in Nat /\ DOMAIN a.hops = 1 .. Len(a.hops)
      /\ Len(b.hops) \in Nat /\ DOMAIN b.hops = 1 .. Len(b.hops)
  BY <1>2, SeqOf, Zenon
<1>4. \A r \in Routes : Len(r.path) \in Nat
  <2>1. \A r \in Routes : r.path \in Seq(STRING \ {""})
    BY Zenon DEF RouteAssumption
  <2>2. QED
    BY <2>1, SeqOf, Zenon
<1>5. CASE \E i \in DOMAIN a.hops \cap DOMAIN b.hops :
               a.hops[i] # b.hops[i] /\ "" \notin {a.hops[i], b.hops[i]}
  <2>1. PICK i \in DOMAIN a.hops \cap DOMAIN b.hops :
            a.hops[i] # b.hops[i] /\ "" \notin {a.hops[i], b.hops[i]}
    BY <1>5, Zenon
  <2>2. i \in DOMAIN a.hops /\ i \in DOMAIN b.hops
    BY Zenon
  <2>3. a.hops[i] \notin Brief \cup {""} /\ b.hops[i] \notin Brief \cup {""}
    BY <2>1, <2>2, Zenon DEF Quoted
  <2>4. PICK r \in a.seen : At(r, i, a.hops[i])
    BY <2>2, <2>3, Zenon DEF Sound, HopsPlaced, Placed
  <2>5. PICK q \in b.seen : At(q, i, b.hops[i])
    BY <2>2, <2>3, Zenon DEF Sound, HopsPlaced, Placed
  <2>6. r = q
    BY <1>1, Zenon
  <2>7. QED
    BY <2>1, <2>4, <2>5, <2>6, Zenon DEF At
<1>6. CASE a.reached /\ b.reached /\ Len(a.hops) # Len(b.hops)
  <2>1. \A rec \in {a, b} : \E r \in rec.seen : Len(rec.hops) = Len(r.path) + 1
    <3>1. SUFFICES ASSUME NEW rec \in {a, b} PROVE \E r \in rec.seen : Len(rec.hops) = Len(r.path) + 1
      OBVIOUS
    <3>2. rec.reached /\ Sound(rec) /\ Quoted(rec) /\ ~Overshot(rec) /\ rec.seen \subseteq Routes
          /\ Len(rec.hops) \in Nat /\ DOMAIN rec.hops = 1 .. Len(rec.hops)
      BY <1>2, <1>3, <1>6
    <3>3. Len(rec.hops) > 0
      BY <3>2 DEF Sound, EndPlaced
    <3>4. rec.hops[Len(rec.hops)] \notin Brief
      <4>1. Len(rec.hops) \in DOMAIN rec.hops
        BY <3>2, <3>3
      <4>2. QED
        BY <3>2, <4>1, Zenon DEF Quoted
    <3>5. PICK r \in rec.seen : Len(rec.hops) > Len(r.path)
      BY <3>2, <3>4 DEF Sound, EndPlaced
    <3>6. ~(Len(rec.hops) > Len(r.path) + 1)
      BY <3>2 DEF Overshot
    <3>7. Len(r.path) \in Nat
      BY <1>4, <3>2
    <3>8. QED
      BY <3>2, <3>5, <3>6, <3>7
  <2>2. PICK r \in a.seen : Len(a.hops) = Len(r.path) + 1
    BY <2>1
  <2>3. PICK q \in b.seen : Len(b.hops) = Len(q.path) + 1
    BY <2>1
  <2>4. r = q
    BY <1>1
  <2>5. QED
    BY <1>6, <2>2, <2>3, <2>4
<1>7. QED
  BY <1>5, <1>6, Zenon DEF RouteChanged

(* A route-changed event is about the route: it differs between the two     *)
(* traces, or one of them found the destination past its TTL.  The losses   *)
(* of routers' answers, and late ones, raise no event (routeChanged).       *)
THEOREM RouteChangesAreReal ==
    ASSUME TracerAssumption, RouteAssumption PROVE TraceSpec => RouteChangeIsReal
<1> DEFINE Real == \A i \in DOMAIN prev : changed' /\ ~changed /\ Quoted(prev[i]) /\ Quoted(Cur)
                       => Differs(prev[i], Cur) \/ Overshot(prev[i]) \/ Overshot(Cur)
<1>1. IInv /\ [TraceNext]_traceVars => [Real]_traceVars
  <2>1. SUFFICES ASSUME IInv, TraceNext, changed', ~changed,
                        NEW i \in DOMAIN prev, Quoted(prev[i]), Quoted(Cur),
                        ~Overshot(prev[i]), ~Overshot(Cur)
                 PROVE  Differs(prev[i], Cur)
    BY Zenon
  <2>2. Record
    BY <2>1 DEF TraceNext, Network, Probe, Arrive, Reroute, Begin, SendProbe, Oversize, Drain, Skip, TooBig,
                HopFound, Timeout, Fail, RecordError, record
  <2>3. PICK j \in DOMAIN prev : RouteChanged(prev[j], Cur)
    BY <2>1, <2>2 DEF Record
  <2>4. i = j
    BY <2>1, <2>3 DEF IInv
  <2>5. prev[i] \in RecordType /\ Cur \in RecordType
    <3>1. prev[i] \in RecordType
      BY <2>1, SeqOf DEF IInv, TraceTypeOK
    <3>2. QED
      BY <2>1, <3>1 DEF IInv, TraceTypeOK, Cur, RecordType
  <2>6. Sound(prev[i]) /\ Sound(Cur)
    BY <2>1 DEF IInv
  <2>7. QED
    BY <2>1, <2>3, <2>4, <2>5, <2>6, SameRouteNoChange
<1>2. QED
  BY <1>1, Invariant, PTL DEF TraceSpec, RouteChangeIsReal
------------------------------------------------------------------------------
(* The path MTU. Of a trace over one route whose answers quote their probes *)
(* and name the MTU: the local link never refuses a probe, an entry that    *)
(* says too big and quotes the probe in flight names a smaller link, and    *)
(* once an entry of the destination exists, the MTU fits the path.          *)
Alone(r) == seen = {r} /\ Clear(r) /\ start >= MinMTU
Fits(r) == \A i \in DOMAIN r.links : mtu <= r.links[i]
OnLink(r, m) == \E i \in DOMAIN r.links : m = r.links[i]
MtuEntry(r, e) ==
    /\ e.kind = "toobig" => \E i \in DOMAIN r.path : e.from = r.path[i]
    /\ e.kind = "toobig" /\ e.seq = seq /\ phase = "wait" => OnLink(r, e.info) /\ e.info < mtu
    /\ e.kind = "reached" => Fits(r)
MtuSound(r) ==
    /\ phase # "toobig" /\ start <= r.links[0]
    /\ mtu = start \/ OnLink(r, mtu)
    /\ mtu <= start
    /\ \A e \in Entries : MtuEntry(r, e)
    /\ phase = "done" /\ reached => Fits(r)
MtuInv ==
    /\ phase = "idle" => Entries = {}
    /\ phase # "idle" => \A r \in seen : Alone(r) => MtuSound(r)

LEMMA RouteTypes ==
    ASSUME RouteAssumption, NEW r \in Routes
    PROVE  /\ Len(r.path) \in Nat /\ DOMAIN r.path = 1 .. Len(r.path)
           /\ DOMAIN r.links = 0 .. Len(r.path) /\ \A i \in DOMAIN r.links : r.links[i] \in Nat
<1>1. r.path \in Seq(STRING \ {""}) /\ r.links \in [0 .. Len(r.path) -> Nat]
  BY DEF RouteAssumption
<1>2. Len(r.path) \in Nat /\ DOMAIN r.path = 1 .. Len(r.path)
  BY <1>1, SeqOf, Zenon
<1>3. QED
  BY <1>1, <1>2

(* Steps that leave the probe, or end it, and do not change its MTU.        *)
LEMMA MtuUndisturbed ==
    ASSUME IInv, MtuInv, UNCHANGED <<seen, start, mtu, seq>>,
           \A e \in Entries' : e \in Entries,
           phase # "idle", phase' \notin {"idle", "toobig"} \/ UNCHANGED phase,
           phase' = "wait" => phase = "wait",
           phase' = "done" /\ reached' => \/ phase = "done" /\ reached
                                          \/ \E e \in Entries : e.kind = "reached"
    PROVE  MtuInv'
<1>1. SUFFICES ASSUME NEW r \in seen, Alone(r) PROVE MtuSound(r)'
  BY DEF MtuInv, Alone
<1>2. MtuSound(r)
  BY <1>1 DEF MtuInv
<1>3. \A e \in Entries' : MtuEntry(r, e)'
  BY <1>2 DEF MtuSound, MtuEntry, Fits
<1>4. phase' = "done" /\ reached' => Fits(r)'
  BY <1>2 DEF MtuSound, MtuEntry, Fits
<1>5. QED
  BY <1>2, <1>3, <1>4 DEF MtuSound

(* The probe goes out at the MTU that is tried.                             *)
LEMMA MtuSent ==
    ASSUME RouteAssumption, TracerAssumption, IInv, MtuInv, SendProbe
    PROVE  MtuInv'
<1>1. /\ phase = "send" /\ phase' = "wait" /\ seq' = seq + 1 /\ queue' = << >>
      /\ mtu <= route.links[0]
      /\ UNCHANGED <<route, seen, mtu, start, reached>>
      /\ wire' \subseteq wire \cup Answers(seq', ttl, mtu)
  BY DEF SendProbe, net, found, record
<1>2. SUFFICES ASSUME NEW r \in seen, Alone(r) PROVE MtuSound(r)'
  BY <1>1 DEF MtuInv, Alone
<1>3. MtuSound(r) /\ route = r /\ r \in Routes /\ TraceTypeOK
  BY <1>1, <1>2 DEF MtuInv, IInv, Alone, TraceTypeOK
<1>4. /\ Len(r.path) \in Nat /\ DOMAIN r.path = 1 .. Len(r.path)
      /\ DOMAIN r.links = 0 .. Len(r.path) /\ \A i \in DOMAIN r.links : r.links[i] \in Nat
  BY <1>3, RouteTypes
<1>5. seq \in Nat /\ mtu \in Nat /\ ttl \in Nat
  BY <1>3 DEF TraceTypeOK, TracerAssumption
<1>6. ASSUME NEW e \in wire PROVE MtuEntry(r, e)'
  <2>1. e \in Entries /\ MtuEntry(r, e)
    BY <1>3 DEF Entries, MtuSound
  <2>2. e.seq <= seq /\ e.seq \in Nat
    BY <1>3, <2>1 DEF IInv, TraceTypeOK, EntryType
  <2>3. e.seq # seq'
    BY <1>1, <1>5, <2>2
  <2>4. QED
    BY <1>1, <2>1, <2>3 DEF MtuEntry, Fits
<1>7. ASSUME NEW e \in Answers(seq', ttl, mtu) PROVE MtuEntry(r, e)'
  <2> DEFINE tight == {i \in DOMAIN r.path : i < ttl /\ mtu > r.links[i]}
  <2>1. CASE tight # {}
    <3>1. PICK i \in tight : e = Entry(seq', "toobig", r.path[i], IF r.path[i] \in Vague THEN 0 ELSE r.links[i])
      BY <1>3, <2>1 DEF Answers
    <3>2. r.path[i] \notin Vague /\ i \in DOMAIN r.path /\ mtu > r.links[i] /\ i \in DOMAIN r.links
      BY <1>2, <1>4 DEF Alone, Clear
    <3>3. e.kind = "toobig" /\ e.from = r.path[i] /\ e.info = r.links[i]
      BY <3>1, <3>2 DEF Entry
    <3>4. OnLink(r, e.info)' /\ e.info < mtu'
      <4>1. r.links[i] \in Nat
        BY <1>4, <3>2
      <4>2. QED
        BY <1>1, <1>5, <3>2, <3>3, <4>1 DEF OnLink
    <3>5. QED
      BY <3>2, <3>3, <3>4 DEF MtuEntry
  <2>2. CASE tight = {} /\ ttl \in DOMAIN r.path
    <3>1. e.kind = "hop"
      BY <1>3, <2>2 DEF Answers, Entry
    <3>2. QED
      BY <3>1 DEF MtuEntry
  <2>3. CASE tight = {} /\ ttl \notin DOMAIN r.path
    <3>1. e.kind = r.end /\ r.end # "dropped"
      BY <1>3, <2>3 DEF Answers, Entry
    <3>2. e.kind \in {"reached", "unreachable"}
      BY <1>3, <3>1 DEF RouteAssumption
    <3>3. Fits(r)'
      <4>1. ttl > Len(r.path)
        <5>1. ttl >= 1
          BY <1>3 DEF TraceTypeOK, TracerAssumption
        <5>2. QED
          BY <1>4, <1>5, <2>3, <5>1
      <4>2. ASSUME NEW i \in DOMAIN r.links PROVE mtu <= r.links[i]
        <5>1. CASE i = 0
          BY <1>1, <1>3, <5>1
        <5>2. CASE i \in DOMAIN r.path
          <6>1. i < ttl /\ r.links[i] \in Nat
            BY <1>4, <1>5, <4>1, <5>2
          <6>2. ~(mtu > r.links[i])
            BY <2>3, <5>2, <6>1
          <6>3. QED
            BY <1>5, <6>1, <6>2
        <5>3. QED
          BY <1>4, <5>1, <5>2
      <4>3. QED
        BY <1>1, <4>2 DEF Fits
    <3>4. QED
      BY <3>2, <3>3 DEF MtuEntry
  <2>4. QED
    BY <2>1, <2>2, <2>3
<1>8. \A e \in Entries' : e \in wire \/ e \in Answers(seq', ttl, mtu)
  BY <1>1 DEF Entries
<1>9. \A e \in Entries' : MtuEntry(r, e)'
  BY <1>6, <1>7, <1>8
<1>10. QED
  BY <1>1, <1>3, <1>9 DEF MtuSound, OnLink

(* An answer that says too big lowers the MTU to a link of the route.       *)
LEMMA MtuLowered ==
    ASSUME RouteAssumption, TracerAssumption, IInv, MtuInv, TooBig
    PROVE  MtuInv'
<1> DEFINE e == Head(queue)
<1>1. /\ phase = "wait" /\ queue # << >> /\ Ours(e) /\ e.kind = "toobig" /\ Shrink(e.info)
      /\ queue' = Tail(queue) /\ UNCHANGED <<route, seen, wire, seq, start>>
  BY DEF TooBig, net, record
<1>2. TraceTypeOK /\ e \in Entries /\ e \in EntryType
  <2>1. TraceTypeOK
    BY DEF IInv
  <2>2. QED
    BY <1>1, <2>1, QueueType DEF Entries
<1>3. \A f \in Entries' : f \in Entries
  <2>1. \A j \in DOMAIN queue' : j + 1 \in DOMAIN queue /\ queue'[j] = queue[j + 1]
    BY <1>1, <1>2, QueueType
  <2>2. QED
    BY <1>1, <2>1 DEF Entries
<1>4. phase' \in {"send", "done"}
  <2>1. e.info \in Nat
    BY <1>2 DEF EntryType
  <2>2. QED
    BY <1>1, <1>2, <2>1, ShrinkType
<1>5. SUFFICES ASSUME NEW r \in seen, Alone(r) PROVE MtuSound(r)'
  BY <1>1, <1>4 DEF MtuInv, Alone
<1>6. MtuSound(r) /\ r \in Routes /\ MtuEntry(r, e)
  BY <1>1, <1>2, <1>5 DEF MtuInv, IInv, TraceTypeOK, MtuSound
<1>7. e.seq = seq
  BY <1>1, <1>5, <1>6 DEF Ours, MtuEntry, Alone, Clear
<1>8. OnLink(r, e.info) /\ e.info < mtu
  BY <1>1, <1>6, <1>7 DEF MtuEntry
<1>9. e.info >= MinMTU
  BY <1>5, <1>8 DEF OnLink, Alone, Clear
<1>10. mtu' = e.info /\ phase' = "send"
  BY <1>1, <1>8, <1>9 DEF Shrink, Lowered
<1>11. /\ mtu \in Nat /\ mtu' \in Nat /\ mtu' < mtu /\ start \in Nat
  BY <1>2, <1>8, <1>10 DEF TraceTypeOK, EntryType
<1>12. Fits(r) => Fits(r)'
  <2>1. \A i \in DOMAIN r.links : r.links[i] \in Nat
    BY <1>6, RouteTypes
  <2>2. QED
    BY <1>11, <2>1 DEF Fits
<1>13. \A f \in Entries' : MtuEntry(r, f)'
  BY <1>3, <1>6, <1>10, <1>12 DEF MtuSound, MtuEntry
<1>14. mtu' <= start' /\ OnLink(r, mtu)'
  BY <1>1, <1>6, <1>8, <1>10, <1>11 DEF MtuSound, OnLink
<1>15. QED
  BY <1>1, <1>6, <1>10, <1>13, <1>14 DEF MtuSound

LEMMA MtuStep ==
    ASSUME TracerAssumption, RouteAssumption, IInv, MtuInv, TraceNext
    PROVE  MtuInv'
<1>1. TraceTypeOK /\ route \in seen /\ seen \subseteq Routes
  BY DEF IInv, TraceTypeOK
<1>2. ASSUME NEW e \in wire, Arrive(e) PROVE MtuInv'
  <2>1. e \in Entries /\ phase # "idle"
    BY <1>2 DEF Entries, MtuInv
  <2>2. \A f \in Entries' : f \in Entries
    <3>1. queue \in Seq(EntryType) /\ e \in EntryType /\ queue' = Append(queue, e) /\ wire' \subseteq wire
      BY <1>1, <1>2 DEF TraceTypeOK, Arrive
    <3>2. \A j \in DOMAIN queue' : queue'[j] = e \/ (j \in DOMAIN queue /\ queue'[j] = queue[j])
      BY <3>1, AppendedIn
    <3>3. QED
      BY <2>1, <3>1, <3>2 DEF Entries
  <2>3. UNCHANGED <<seen, start, mtu, seq, phase, reached>>
    BY <1>2 DEF Arrive, net, found, record
  <2>4. QED
    BY <2>1, <2>2, <2>3, MtuUndisturbed
<1>3. ASSUME NEW r \in Routes, Reroute(r) PROVE MtuInv'
  <2>1. r # route /\ seen' = seen \cup {r} /\ UNCHANGED <<phase, wire, queue>>
    BY <1>3 DEF Reroute
  <2>2. \A q \in seen' : ~Alone(q)'
    BY <1>1, <2>1 DEF Alone
  <2>3. QED
    BY <2>1, <2>2 DEF MtuInv, Entries
<1>4. ASSUME NEW m \in Starts, Begin(m) PROVE MtuInv'
  <2>1. /\ phase = "idle" /\ phase' = "send" /\ UNCHANGED <<wire, queue>>
        /\ seen' = {route} /\ start' = m /\ mtu' = m /\ m <= route.links[0]
    BY <1>4 DEF Begin
  <2>2. Entries' = {} /\ m \in Nat
    BY <2>1 DEF MtuInv, Entries, TracerAssumption
  <2>3. QED
    BY <2>1, <2>2 DEF MtuInv, MtuSound
<1>5. CASE SendProbe
  BY <1>5, MtuSent
<1>6. CASE Oversize
  <2>1. /\ phase = "send" /\ phase' = "toobig" /\ mtu > route.links[0]
        /\ UNCHANGED <<seen, start, mtu>>
    BY <1>6 DEF Oversize, net, found, record
  <2>2. ASSUME NEW r \in seen', Alone(r)' PROVE FALSE
    <3>1. r = route /\ Alone(r) /\ MtuSound(r)
      BY <1>1, <2>1, <2>2 DEF Alone, MtuInv
    <3>2. route.links[0] \in Nat
      <4>1. 0 \in 0 .. Len(route.path)
        BY <1>1, RouteTypes
      <4>2. QED
        BY <1>1, <4>1, RouteTypes
    <3>3. mtu \in Nat /\ start \in Nat /\ mtu <= start /\ start <= route.links[0]
      BY <1>1, <3>1 DEF MtuSound, TraceTypeOK
    <3>4. QED
      BY <2>1, <3>2, <3>3
  <2>3. QED
    BY <2>1, <2>2 DEF MtuInv
<1>7. CASE Drain
  <2>1. phase = "toobig" /\ UNCHANGED <<seen, start>>
    BY <1>7 DEF Drain, net, record
  <2>2. phase' \in {"send", "done"}
    <3>1. PICK i \in DOMAIN queue : Shrink(queue[i].info)
      BY <1>7 DEF Drain
    <3>2. queue[i] \in EntryType
      BY <1>1, SeqOf DEF TraceTypeOK
    <3>3. queue[i].info \in Nat
      BY <3>2 DEF EntryType
    <3>4. QED
      BY <1>1, <3>1, <3>3, ShrinkType
  <2>3. QED
    BY <2>1, <2>2 DEF MtuInv, MtuSound, Alone
<1>8. ASSUME queue # << >>, queue' = Tail(queue), wire' = wire PROVE \A e \in Entries' : e \in Entries
  <2>1. \A j \in DOMAIN queue' : j + 1 \in DOMAIN queue /\ queue'[j] = queue[j + 1]
    BY <1>1, <1>8, QueueType
  <2>2. QED
    BY <1>8, <2>1 DEF Entries
<1>9. CASE Skip
  <2>1. UNCHANGED <<seen, start, mtu, seq, phase, reached>> /\ phase = "wait"
    BY <1>9 DEF Skip, net, found, record
  <2>2. QED
    BY <1>8, <1>9, <2>1, MtuUndisturbed DEF Skip
<1>10. CASE TooBig
  BY <1>10, MtuLowered
<1>11. CASE HopFound
  <2>1. UNCHANGED <<seen, start, mtu, seq>> /\ phase = "wait" /\ reached' = (Head(queue).kind = "reached")
    BY <1>11 DEF HopFound, net, record
  <2>2. phase' \in {"done", "send"}
    BY <1>11, HopFoundSound
  <2>3. Head(queue) \in Entries
    BY <1>1, <1>11, QueueType DEF HopFound, Entries
  <2>4. reached' => Head(queue).kind = "reached"
    BY <2>1
  <2>5. \A e \in Entries' : e \in Entries
    BY <1>8, <1>11 DEF HopFound
  <2>6. QED
    BY <2>1, <2>2, <2>3, <2>4, <2>5, MtuUndisturbed
<1>12. CASE Timeout
  <2>1. UNCHANGED <<seen, start, mtu, seq, wire, queue>> /\ phase = "wait" /\ Tried
    BY <1>12 DEF Timeout, net, record
  <2>2. phase' \in {"done", "send"} /\ ~reached'
    <3>1. Probing /\ seen' = seen
      BY <2>1 DEF Probing
    <3>2. QED
      BY <2>1, <3>1, TriedSound
  <2>3. \A e \in Entries' : e \in Entries
    BY <2>1 DEF Entries
  <2>4. QED
    BY <2>1, <2>2, <2>3, MtuUndisturbed
<1>13. CASE Fail
  <2>1. UNCHANGED <<seen, start, mtu, seq, wire, queue>> /\ phase \in {"send", "wait"} /\ phase' = "failed"
    BY <1>13 DEF Fail, net, record
  <2>2. \A e \in Entries' : e \in Entries
    BY <2>1 DEF Entries
  <2>3. QED
    BY <2>1, <2>2, MtuUndisturbed
<1>14. ASSUME Closed PROVE MtuInv'
  <2>1. phase' = "idle" /\ wire' = {} /\ queue' = << >>
    BY <1>14 DEF Closed
  <2>2. Entries' = {}
    BY <2>1 DEF Entries
  <2>3. QED
    BY <2>1, <2>2 DEF MtuInv
<1>15. CASE Record \/ RecordError
  BY <1>14, <1>15 DEF Record, RecordError
<1>16. QED
  BY <1>2, <1>3, <1>4, <1>5, <1>6, <1>7, <1>9, <1>10, <1>11, <1>12, <1>13, <1>15
     DEF TraceNext, Network, Probe

(* A trace that reached its destination over one route has found the path   *)
(* MTU of that route: too-big answers that are late, lost or out of order    *)
(* leave it neither too small nor too large (hop, wait, lower).             *)
THEOREM PathMTUIsFound ==
    ASSUME TracerAssumption, RouteAssumption PROVE TraceSpec => []PmtuIsThePaths
<1>1. TraceInit => MtuInv
  BY DEF TraceInit, MtuInv, Entries
<1>2. IInv /\ MtuInv /\ UNCHANGED traceVars => MtuInv'
  BY DEF traceVars, net, found, record, MtuInv, Alone, MtuSound, MtuEntry, Fits, OnLink, Entries
<1>3. IInv /\ MtuInv /\ [TraceNext]_traceVars => MtuInv'
  BY <1>2, MtuStep
<1>4. IInv /\ MtuInv => PmtuIsThePaths
  <2>1. SUFFICES ASSUME MtuInv, NEW r \in seen, phase = "done", reached, Alone(r)
                 PROVE  IsPathMTU(mtu, r)
    BY DEF PmtuIsThePaths, Alone
  <2>2. MtuSound(r)
    BY <2>1 DEF MtuInv
  <2>3. QED
    BY <2>1, <2>2 DEF MtuSound, IsPathMTU, Fits, OnLink
<1>5. QED
  BY <1>1, <1>3, <1>4, Invariant, PTL DEF TraceSpec

------------------------------------------------------------------------------
(* The DNS check.  Sorting a finite set of records: the ranks of its         *)
(* members are different and within its size, so that they are its places.   *)

LEMMA RankIsAPlace ==
    ASSUME NEW S \in SUBSET Nat, IsFiniteSet(S), NEW x \in S
    PROVE  /\ Rank(S, x) \in 0 .. Cardinality(S) - 1
           /\ \A y \in S : x < y => Rank(S, x) < Rank(S, y)
<1> DEFINE Below(z) == {y \in S : y < z}
<1>1. ASSUME NEW z \in S
      PROVE  IsFiniteSet(Below(z)) /\ Cardinality(Below(z)) \in Nat
  <2>1. Below(z) \in SUBSET S
    OBVIOUS
  <2>2. QED
    BY <2>1, FS_Subset, FS_CardinalityType, Zenon
<1>2. Cardinality(S) \in Nat
  BY FS_CardinalityType, Zenon
<1>3. Cardinality(Below(x)) < Cardinality(S)
  <2>1. Below(x) \in SUBSET S
    OBVIOUS
  <2>2. Below(x) # S
    <3>1. x \notin Below(x)
      OBVIOUS
    <3>2. QED
      BY <3>1, Zenon
  <2>3. /\ Cardinality(Below(x)) <= Cardinality(S)
        /\ Cardinality(S) = Cardinality(Below(x)) => S = Below(x)
    BY <2>1, FS_Subset, Zenon
  <2> HIDE DEF Below
  <2>4. QED
    BY <2>2, <2>3, <1>1, <1>2
<1>4. ASSUME NEW y \in S, x < y
      PROVE  Cardinality(Below(x)) < Cardinality(Below(y))
  <2>1. Below(x) \in SUBSET Below(y)
    <3>1. ASSUME NEW z \in S, z < x PROVE z < y
      <4>1. x \in Nat /\ y \in Nat /\ z \in Nat
        OBVIOUS
      <4>2. QED
        BY <1>4, <3>1, <4>1
    <3>2. QED
      BY <3>1, Zenon
  <2>2. Below(x) # Below(y)
    <3>1. x \in Below(y) /\ x \notin Below(x)
      BY <1>4
    <3>2. QED
      BY <3>1, Zenon
  <2>3. /\ Cardinality(Below(x)) <= Cardinality(Below(y))
        /\ Cardinality(Below(y)) = Cardinality(Below(x)) => Below(y) = Below(x)
    BY <1>1, <2>1, FS_Subset, Zenon
  <2>4. Cardinality(Below(x)) \in Nat /\ Cardinality(Below(y)) \in Nat
    BY <1>1
  <2> HIDE DEF Below
  <2>5. QED
    BY <2>2, <2>3, <2>4
<1>5. \A z : Rank(S, z) = Cardinality(Below(z))
  BY Zenon DEF Rank
<1>6. Cardinality(Below(x)) \in Nat
  BY <1>1
<1> HIDE DEF Below
<1>7. QED
  BY <1>2, <1>3, <1>4, <1>5, <1>6

(* Members of the same rank are the same.                                    *)
LEMMA RankTells ==
    ASSUME NEW S \in SUBSET Nat, IsFiniteSet(S), NEW x \in S, NEW y \in S,
           Rank(S, x) = Rank(S, y)
    PROVE  x = y
<1>1. x < y => Rank(S, x) < Rank(S, y)
  BY RankIsAPlace, Zenon
<1>2. y < x => Rank(S, y) < Rank(S, x)
  BY RankIsAPlace, Zenon
<1>3. Rank(S, x) \in 0 .. Cardinality(S) - 1 /\ Rank(S, y) \in 0 .. Cardinality(S) - 1
  BY RankIsAPlace, Zenon
<1>4. Cardinality(S) \in Nat
  BY FS_CardinalityType, Zenon
<1>5. Rank(S, x) \in Int
  BY <1>3, <1>4
<1>6. x \in Nat /\ y \in Nat
  OBVIOUS
<1>7. QED
  BY <1>1, <1>2, <1>5, <1>6

(* Every place below the size is the rank of a member.                       *)
LEMMA PlaceIsARank ==
    ASSUME NEW S \in SUBSET Nat, IsFiniteSet(S), NEW k \in 0 .. Cardinality(S) - 1
    PROVE  \E x \in S : Rank(S, x) = k
<1> DEFINE Places == 0 .. Cardinality(S) - 1
           rank == [x \in S |-> Rank(S, x)]
<1>1. Cardinality(S) \in Nat
  BY FS_CardinalityType, Zenon
<1>2. IsFiniteSet(Places) /\ Cardinality(Places) = Cardinality(S)
  <2>1. 0 \in Int /\ Cardinality(S) - 1 \in Int
    BY <1>1
  <2>2. /\ IsFiniteSet(Places)
        /\ Cardinality(Places) = IF 0 > Cardinality(S) - 1 THEN 0 ELSE Cardinality(S) - 1 - 0 + 1
    BY <2>1, FS_Interval, Zenon
  <2> HIDE DEF Places
  <2>3. QED
    BY <2>2, <1>1
<1>3. rank \in [S -> Places]
  BY RankIsAPlace, Zenon
<1>4. rank \in Injection(S, Places)
  <2>1. ASSUME NEW x \in S, NEW y \in S, rank[x] = rank[y] PROVE x = y
    BY <2>1, RankTells, Zenon
  <2> HIDE DEF rank, Places
  <2>2. QED
    BY <1>3, <2>1, Zenon DEF Injection, IsInjective
<1> HIDE DEF Places
<1>5. rank \in Surjection(S, Places)
  BY <1>2, <1>4, FS_Injection, Zenon
<1>6. \E x \in S : rank[x] = k
  <2>1. k \in Places
    BY DEF Places
  <2>2. QED
    BY <1>5, <2>1, Zenon DEF Surjection
<1>7. QED
  BY <1>6, Zenon

(* So the sorted records are the records, all of them,                       *)
LEMMA SortedIsAll ==
    ASSUME NEW S \in SUBSET Nat, IsFiniteSet(S)
    PROVE  {Sorted(S)[k] : k \in 1 .. Cardinality(S)} = S
<1>1. Cardinality(S) \in Nat
  BY FS_CardinalityType, Zenon
<1>2. ASSUME NEW k \in 1 .. Cardinality(S) PROVE Sorted(S)[k] \in S /\ Rank(S, Sorted(S)[k]) = k - 1
  <2>1. k - 1 \in 0 .. Cardinality(S) - 1
    BY <1>1
  <2>2. \E x \in S : Rank(S, x) = k - 1
    BY <2>1, PlaceIsARank, Zenon
  <2>3. Sorted(S)[k] = CHOOSE x \in S : Rank(S, x) = k - 1
    BY Zenon DEF Sorted
  <2>4. QED
    BY <2>2, <2>3, Zenon
<1>3. ASSUME NEW x \in S PROVE \E k \in 1 .. Cardinality(S) : Sorted(S)[k] = x
  <2>1. Rank(S, x) \in 0 .. Cardinality(S) - 1
    BY RankIsAPlace, Zenon
  <2>2. PICK k \in 1 .. Cardinality(S) : k - 1 = Rank(S, x)
    <3>1. ASSUME NEW n \in Nat, NEW r \in 0 .. n - 1 PROVE \E k \in 1 .. n : k - 1 = r
      <4>1. r + 1 \in 1 .. n /\ (r + 1) - 1 = r
        OBVIOUS
      <4>2. QED
        BY <4>1
    <3>2. QED
      BY <3>1, <2>1, <1>1, Zenon
  <2>3. PICK y \in S : y = Sorted(S)[k] /\ Rank(S, y) = Rank(S, x)
    BY <1>2, <2>2, Zenon
  <2>4. y = x
    BY <2>3, RankTells, Zenon
  <2>5. QED
    BY <2>3, <2>4, Zenon
<1>4. QED
  BY <1>2, <1>3, Zenon

(* and two answers are equal exactly when they hold the same records.        *)
LEMMA SortedTells ==
    ASSUME NEW S \in SUBSET Nat, NEW T \in SUBSET Nat, IsFiniteSet(S), IsFiniteSet(T)
    PROVE  Sorted(S) = Sorted(T) <=> S = T
<1>1. ASSUME Sorted(S) = Sorted(T) PROVE S = T
  <2>1. DOMAIN Sorted(S) = 1 .. Cardinality(S) /\ DOMAIN Sorted(T) = 1 .. Cardinality(T)
    BY Zenon DEF Sorted
  <2>2. S = {Sorted(S)[k] : k \in DOMAIN Sorted(S)} /\ T = {Sorted(T)[k] : k \in DOMAIN Sorted(T)}
    BY <2>1, SortedIsAll, Zenon
  <2>3. QED
    BY <1>1, <2>2, Zenon
<1>2. QED
  BY <1>1, Zenon

------------------------------------------------------------------------------
(* What the check is between two steps: every answer held is the sorted form *)
(* of what was heard; a comparison is about everything that was asked.       *)
DnsTypeOK ==
    /\ stage \in {"lookup", "ask", "compared", "done"}
    /\ DOMAIN heard \subseteq Asked
    /\ \A i \in DOMAIN heard : heard[i] \in Replies
    /\ DOMAIN answers = DOMAIN heard
    /\ \A i \in DOMAIN heard : answers[i] = Answer(heard[i])
    /\ mismatch \in BOOLEAN /\ unreachable \subseteq Asked /\ over \in BOOLEAN

Spoke == {i \in DOMAIN heard : ~heard[i].error}
Disagree == \E i, j \in Spoke : Given(heard[i]) # Given(heard[j])
Verdict ==
    stage \in {"compared", "done"} =>
        /\ DOMAIN heard = Asked
        /\ mismatch <=> Disagree
        /\ unreachable = Asked \ Spoke
Report ==
    /\ stage # "done" => written = {}
    /\ stage = "done" =>
         written = {Event("dns", 0)}
                     \cup {Event("dns-mismatch", 0) : b \in {TRUE} \cap {mismatch}}
                     \cup {Event("resolver-unreachable", i) : i \in unreachable}
DnsInv == DnsTypeOK /\ Verdict /\ Report

LEMMA RepliesAre ==
    ASSUME NEW reply \in Replies
    PROVE  /\ reply.error \in BOOLEAN
           /\ Given(reply) \in SUBSET Nat /\ IsFiniteSet(Given(reply))
           /\ Answer(reply).error = reply.error
           /\ Answer(reply).ips = Sorted(Given(reply))
<1>1. Given(reply) \in SUBSET ARecords /\ reply.error \in BOOLEAN
      /\ Answer(reply).error = reply.error
      /\ Answer(reply).ips = Sorted(Given(reply))
  <2>1. CASE reply = [ips |-> << >>, error |-> TRUE]
    <3>1. DOMAIN reply.ips = {} /\ reply.error = TRUE
      BY <2>1
    <3>2. Given(reply) = {}
      BY <3>1, Zenon DEF Given
    <3>3. /\ Answer(reply).error = reply.error
          /\ Answer(reply).ips = Sorted(Given(reply))
      BY <2>1, Zenon DEF Answer
    <3>4. QED
      BY <3>1, <3>2, <3>3, Zenon
  <2>2. CASE reply \in [ips: UNION {Orders(set) : set \in SUBSET ARecords}, error: {FALSE}]
    <3>1. reply.error = FALSE /\ reply.ips \in UNION {Orders(set) : set \in SUBSET ARecords}
      BY <2>2
    <3>2. PICK set \in SUBSET ARecords : reply.ips \in [1 .. Cardinality(set) -> set]
      BY <3>1, Zenon DEF Orders
    <3>3. Given(reply) \in SUBSET ARecords
      BY <3>2, Zenon DEF Given
    <3>4. /\ Answer(reply).error = reply.error
          /\ Answer(reply).ips = Sorted(Given(reply))
      BY <2>2 DEF Answer
    <3>5. QED
      BY <3>1, <3>3, <3>4, Zenon
  <2>3. QED
    BY <2>1, <2>2, Zenon DEF Replies
<1>2. Given(reply) \in SUBSET Nat /\ IsFiniteSet(Given(reply))
  BY <1>1, ResolverAssumption, FS_Subset, Zenon
<1>3. QED
  BY <1>1, <1>2, Zenon

LEMMA DnsStart == DnsInit => DnsInv
<1> SUFFICES ASSUME DnsInit PROVE DnsInv
  OBVIOUS
<1>1. DOMAIN heard = {} /\ DOMAIN answers = {}
  BY DEF DnsInit
<1>2. DnsTypeOK
  BY <1>1, Zenon DEF DnsInit, DnsTypeOK
<1>3. Verdict /\ Report
  BY Zenon DEF DnsInit, Verdict, Report
<1>4. QED
  BY <1>2, <1>3, Zenon DEF DnsInv

(* A resolver answers.                                                       *)
LEMMA ReplyStep ==
    ASSUME DnsInv, NEW i \in Asked, NEW reply \in Replies, Reply(i, reply)
    PROVE  DnsInv'
<1> USE DEF DnsInv
<1>1. heard' = Set(heard, i, reply) /\ answers' = Set(answers, i, Answer(reply)) /\ i \notin DOMAIN heard
      /\ stage' = "ask" /\ stage \in {"lookup", "ask"}
      /\ UNCHANGED <<mismatch, unreachable, written, over>>
  BY Zenon DEF Reply
<1>2. DOMAIN heard' = DOMAIN heard \cup {i} /\ DOMAIN answers' = DOMAIN answers \cup {i}
  BY <1>1, Zenon DEF Set
<1>3. ASSUME NEW j \in DOMAIN heard'
      PROVE  heard'[j] \in Replies /\ answers'[j] = Answer(heard'[j])
  <2>1. heard'[j] = (IF j = i THEN reply ELSE heard[j])
        /\ answers'[j] = (IF j = i THEN Answer(reply) ELSE answers[j])
    BY <1>1, <1>2, Zenon DEF Set, DnsTypeOK
  <2>2. QED
    BY <2>1, <1>2, Zenon DEF DnsTypeOK
<1>4. DnsTypeOK'
  BY <1>1, <1>2, <1>3, Zenon DEF DnsTypeOK
<1>5. stage \notin {"done"} /\ stage' \notin {"compared", "done"}
  BY <1>1, Zenon
<1>6. Verdict' /\ Report'
  BY <1>1, <1>5, Zenon DEF Verdict, Report
<1>7. QED
  BY <1>4, <1>6, Zenon

(* The answers that came are compared: the first that came stands for all,   *)
(* as any two that differ do not both agree with it.                         *)
LEMMA CompareStep ==
    ASSUME DnsInv, Compare
    PROVE  DnsInv'
<1> USE DEF DnsInv
<1>1. /\ DOMAIN heard = Asked /\ DOMAIN answers = Asked
      /\ stage = "ask" /\ stage' = "compared"
      /\ UNCHANGED <<heard, answers, written, over>>
      /\ unreachable' = {i \in Asked : answers[i].error}
      /\ mismatch' = \E i, j \in Asked : /\ First(i) /\ i < j /\ ~answers[j].error
                                          /\ answers[i].ips # answers[j].ips
  BY Zenon DEF Compare, DnsTypeOK
<1>2. ASSUME NEW i \in Asked
      PROVE  /\ answers[i].error = heard[i].error /\ heard[i].error \in BOOLEAN
             /\ Given(heard[i]) \in SUBSET Nat /\ IsFiniteSet(Given(heard[i]))
             /\ answers[i].ips = Sorted(Given(heard[i]))
  <2>1. heard[i] \in Replies /\ answers[i] = Answer(heard[i])
    BY <1>1, Zenon DEF DnsTypeOK
  <2>2. QED
    BY <2>1, RepliesAre, Zenon
<1>3. ASSUME NEW i \in Asked, NEW j \in Asked
      PROVE  answers[i].ips = answers[j].ips <=> Given(heard[i]) = Given(heard[j])
  <2> DEFINE S == Given(heard[i])
             T == Given(heard[j])
  <2>1. /\ S \in SUBSET Nat /\ IsFiniteSet(S) /\ answers[i].ips = Sorted(S)
        /\ T \in SUBSET Nat /\ IsFiniteSet(T) /\ answers[j].ips = Sorted(T)
    BY <1>2, Zenon
  <2> HIDE DEF S, T
  <2>2. Sorted(S) = Sorted(T) <=> S = T
    BY <2>1, SortedTells, Zenon
  <2>3. QED
    BY <2>1, <2>2, Zenon DEF S, T
<1>4. Spoke = {i \in Asked : ~answers[i].error}
  BY <1>1, <1>2, Zenon DEF Spoke
<1>5. Spoke \in SUBSET Asked /\ Asked \in SUBSET Nat
  BY <1>4 DEF Asked
<1>6. mismatch' => Disagree
  <2>1. SUFFICES ASSUME NEW i \in Asked, NEW j \in Asked,
                        First(i), ~answers[j].error, answers[i].ips # answers[j].ips
                 PROVE  Disagree
    BY <1>1, Zenon
  <2>2. i \in Spoke /\ j \in Spoke
    BY <1>4, <2>1, Zenon DEF First
  <2>3. QED
    BY <1>3, <2>1, <2>2, Zenon DEF Disagree
<1>7. Disagree => mismatch'
  <2>1. SUFFICES ASSUME NEW i \in Spoke, NEW j \in Spoke, Given(heard[i]) # Given(heard[j])
                 PROVE  mismatch'
    BY Zenon DEF Disagree
  <2>2. PICK f \in Spoke : \A k \in Spoke : f <= k
    <3>1. Spoke # {} /\ Spoke \subseteq Nat
      BY <1>5, <2>1, Zenon
    <3>2. QED
      BY <3>1, LeastNat, Zenon
  <2>3. First(f)
    <3>1. ~answers[f].error
      BY <1>4, <2>2, Zenon
    <3>2. ASSUME NEW k \in Asked, k < f, ~answers[k].error PROVE FALSE
      <4>1. k \in Spoke
        BY <1>4, <3>2, Zenon
      <4>2. f <= k /\ f \in Nat /\ k \in Nat
        BY <1>5, <2>2, <4>1
      <4>3. QED
        BY <3>2, <4>2
    <3>3. QED
      BY <3>1, <3>2, Zenon DEF First
  <2>4. PICK k \in Spoke : Given(heard[f]) # Given(heard[k])
    BY <2>1, Zenon
  <2>5. f < k
    <3>1. f <= k /\ f # k /\ f \in Nat /\ k \in Nat
      BY <1>5, <2>2, <2>4
    <3>2. QED
      BY <3>1
  <2>6. f \in Asked /\ k \in Asked /\ ~answers[k].error
    BY <1>4, Zenon
  <2>7. answers[f].ips # answers[k].ips
    BY <1>3, <2>4, <2>6, Zenon
  <2>8. QED
    BY <1>1, <2>3, <2>5, <2>6, <2>7, Zenon
<1>8. unreachable' = Asked \ Spoke
  BY <1>1, <1>4, Zenon
<1>9. mismatch' \in BOOLEAN
  BY <1>1, Zenon
<1>10. Spoke' = Spoke /\ (Disagree <=> Disagree')
  BY <1>1, Zenon DEF Spoke, Disagree
<1>11. (mismatch' <=> Disagree')
  BY <1>6, <1>7, <1>9, <1>10, Zenon
<1>12. DnsTypeOK'
  <2>1. /\ DOMAIN heard' \subseteq Asked
        /\ \A i \in DOMAIN heard' : heard'[i] \in Replies
        /\ DOMAIN answers' = DOMAIN heard'
        /\ \A i \in DOMAIN heard' : answers'[i] = Answer(heard'[i])
        /\ over' \in BOOLEAN
    BY <1>1, Zenon DEF DnsTypeOK
  <2>2. unreachable' \subseteq Asked
    BY <1>8, Zenon
  <2>3. QED
    BY <1>1, <1>9, <2>1, <2>2, Zenon DEF DnsTypeOK
<1>13. Verdict'
  BY <1>1, <1>8, <1>10, <1>11, Zenon DEF Verdict
<1>14. Report'
  <2>1. stage # "done" /\ stage' # "done"
    BY <1>1
  <2>2. QED
    BY <2>1, <1>1, Zenon DEF Report
<1>15. QED
  BY <1>12, <1>13, <1>14, Zenon

LEMMA DnsStep == DnsInv /\ [DnsNext]_dnsVars => DnsInv'
<1> SUFFICES ASSUME DnsInv, [DnsNext]_dnsVars PROVE DnsInv'
  OBVIOUS
<1> USE DEF DnsInv
<1>1. CASE \E i \in Asked, reply \in Replies : Reply(i, reply)
  BY <1>1, ReplyStep, Zenon
<1>2. CASE Compare
  BY <1>2, CompareStep, Zenon
<1>3. CASE Write
  <2>1. /\ stage = "compared" /\ stage' = "done"
        /\ UNCHANGED <<heard, answers, mismatch, unreachable, over>>
        /\ written' = {Event("dns", 0)}
                         \cup {Event("dns-mismatch", 0) : b \in {TRUE} \cap {mismatch}}
                         \cup {Event("resolver-unreachable", i) : i \in unreachable}
    BY <1>3, Zenon DEF Write
  <2>2. Spoke' = Spoke /\ (Disagree <=> Disagree')
    BY <2>1, Zenon DEF Spoke, Disagree
  <2>3. DnsTypeOK'
    BY <2>1, Zenon DEF DnsTypeOK
  <2>4. Verdict'
    BY <2>1, <2>2, Zenon DEF Verdict
  <2>5. Report'
    BY <2>1, Zenon DEF Report
  <2>6. QED
    BY <2>3, <2>4, <2>5, Zenon
<1>4. CASE Again
  <2>1. /\ stage' = "lookup" /\ heard' = << >> /\ answers' = << >> /\ written' = {}
        /\ mismatch' = FALSE /\ unreachable' = {} /\ UNCHANGED over
    BY <1>4, Zenon DEF Again
  <2>2. DOMAIN heard' = {} /\ DOMAIN answers' = {}
    BY <2>1
  <2>3. DnsTypeOK'
    BY <2>1, <2>2, Zenon DEF DnsTypeOK
  <2>4. stage' \notin {"compared", "done"} /\ stage' # "done"
    BY <2>1
  <2>5. Verdict' /\ Report'
    BY <2>1, <2>4, Zenon DEF Verdict, Report
  <2>6. QED
    BY <2>3, <2>5, Zenon
<1>5. CASE Stop
  <2>1. over' = TRUE /\ UNCHANGED <<stage, heard, answers, mismatch, unreachable, written>>
    BY <1>5, Zenon DEF Stop
  <2>2. Spoke' = Spoke /\ (Disagree <=> Disagree')
    BY <2>1, Zenon DEF Spoke, Disagree
  <2>3. QED
    BY <2>1, <2>2, Zenon DEF DnsTypeOK, Verdict, Report
<1>6. CASE UNCHANGED dnsVars
  <2>1. UNCHANGED <<stage, heard, answers, mismatch, unreachable, written, over>>
    BY <1>6, Zenon DEF dnsVars
  <2>2. Spoke' = Spoke /\ (Disagree <=> Disagree')
    BY <2>1, Zenon DEF Spoke, Disagree
  <2>3. QED
    BY <2>1, <2>2, Zenon DEF DnsTypeOK, Verdict, Report
<1>7. QED
  BY <1>1, <1>2, <1>3, <1>4, <1>5, <1>6, Zenon DEF DnsNext

LEMMA DnsInvariant == DnsSpec => []DnsInv
<1>1. DnsInit => DnsInv
  BY DnsStart
<1>2. DnsInv /\ [DnsNext]_dnsVars => DnsInv'
  BY DnsStep
<1>3. QED
  BY <1>1, <1>2, PTL DEF DnsSpec

(* Whatever order the resolvers answer in and give their records in, and     *)
(* whoever could not be asked, "dns-mismatch" is written exactly when two    *)
(* that answered disagree on the set of records.                             *)
THEOREM MismatchIsReal == DnsSpec => []MismatchIsDisagreement
<1>1. DnsInv => MismatchIsDisagreement
  <2> SUFFICES ASSUME DnsInv, written # {} PROVE
        /\ Event("dns-mismatch", 0) \in written <=> Disagree
        /\ {e.resolver : e \in {w \in written : w.type = "resolver-unreachable"}} = Asked \ Spoke
    BY Zenon DEF MismatchIsDisagreement, Disagree, Spoke
  <2>1. /\ stage = "done"
        /\ written = {Event("dns", 0)}
                        \cup {Event("dns-mismatch", 0) : b \in {TRUE} \cap {mismatch}}
                        \cup {Event("resolver-unreachable", i) : i \in unreachable}
    BY Zenon DEF DnsInv, Report
  <2>2. (mismatch <=> Disagree) /\ unreachable = Asked \ Spoke /\ mismatch \in BOOLEAN
    BY <2>1 DEF DnsInv, Verdict, DnsTypeOK
  <2>3. /\ \A i : Event("resolver-unreachable", i).type = "resolver-unreachable"
        /\ \A i : Event("resolver-unreachable", i).resolver = i
        /\ Event("dns", 0).type = "dns" /\ Event("dns-mismatch", 0).type = "dns-mismatch"
        /\ "dns" # "dns-mismatch" /\ "dns" # "resolver-unreachable"
        /\ "dns-mismatch" # "resolver-unreachable"
    BY DEF Event
  <2>4. Event("dns-mismatch", 0) \in written <=> mismatch
    <3>1. Event("dns-mismatch", 0) # Event("dns", 0)
      BY <2>3, Zenon
    <3>2. \A i : Event("dns-mismatch", 0) # Event("resolver-unreachable", i)
      BY <2>3, Zenon
    <3>3. mismatch => Event("dns-mismatch", 0) \in written
      <4>1. ASSUME mismatch PROVE TRUE \in {TRUE} \cap {mismatch}
        BY <4>1, <2>2, Zenon
      <4>2. QED
        BY <2>1, <4>1, Zenon
    <3>4. Event("dns-mismatch", 0) \in written => mismatch
      <4>1. ASSUME NEW b \in {TRUE} \cap {mismatch} PROVE mismatch
        BY <4>1, Zenon
      <4>2. QED
        BY <2>1, <3>1, <3>2, <4>1, Zenon
    <3>5. QED
      BY <3>3, <3>4, Zenon
  <2>5. {w \in written : w.type = "resolver-unreachable"}
          = {Event("resolver-unreachable", i) : i \in unreachable}
    BY <2>1, <2>3, Zenon
  <2>6. {e.resolver : e \in {Event("resolver-unreachable", i) : i \in unreachable}} = unreachable
    <3> DEFINE R == {Event("resolver-unreachable", i) : i \in unreachable}
    <3>1. \A e \in R : e.resolver \in unreachable
      BY <2>3, Zenon
    <3>2. \A i \in unreachable : \E e \in R : e.resolver = i
      BY <2>3, Zenon
    <3>3. QED
      BY <3>1, <3>2, Zenon
  <2>7. QED
    BY <2>2, <2>4, <2>5, <2>6, Zenon
<1>2. QED
  BY <1>1, DnsInvariant, PTL
==============================================================================
