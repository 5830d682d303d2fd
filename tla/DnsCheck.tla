------------------------------ MODULE DnsCheck -------------------------------
(***************************************************************************)
(* The DNS check of a host (dnscheck.go, and dnsCheck of resolve.go): after *)
(* every lookup the DoH resolvers are asked at once, their answers are      *)
(* compared with the system's, and the record and its events are written.   *)
(* The DNS message and HTTPS are left out: a resolver answers with some A   *)
(* records in any order, says that there is no such name, or could not be   *)
(* asked.  A resolver does not give the same record twice (RFC 2181).       *)
(***************************************************************************)
EXTENDS Integers, Sequences, FiniteSets

CONSTANTS
    Resolvers,      \* how many DoH resolvers; number 0 is the system's
    ARecords       \* the A records there are

ASSUME ResolverAssumption ==
    Resolvers \in Nat /\ ARecords \subseteq Nat /\ IsFiniteSet(ARecords)

VARIABLES
    stage,             \* lookup, ask (the DoH queries are out) or compared
    heard,          \* what each resolver said, once it did
    answers,        \* rec.Answers
    mismatch, unreachable,  \* of the record
    written,        \* the record and its events are in the store
    over            \* ctx is done

dnsVars == <<stage, heard, answers, mismatch, unreachable, written, over>>

Asked == 0 .. Resolvers
Once(seq) == \A j, k \in DOMAIN seq : seq[j] = seq[k] => j = k
Orders(set) == {seq \in [1 .. Cardinality(set) -> set] : Once(seq)}
Replies == [ips: UNION {Orders(set) : set \in SUBSET ARecords}, error: {FALSE}]
               \cup {[ips |-> << >>, error |-> TRUE]}

DnsInit ==
    /\ stage = "lookup"
    /\ heard = << >> /\ answers = << >>
    /\ mismatch = FALSE /\ unreachable = {}
    /\ written = {} /\ over = FALSE

\* Mutant: the records stand as they came.
AsGiven(reply) == reply

(* systemAnswer and query: the records, sorted: each after all the smaller. *)
Given(reply) == {reply.ips[k] : k \in DOMAIN reply.ips}
Rank(set, x) == Cardinality({y \in set : y < x})
Sorted(set) == [k \in 1 .. Cardinality(set) |-> CHOOSE x \in set : Rank(set, x) = k - 1]
Answer(reply) == [reply EXCEPT !.ips = Sorted(Given(reply))]

Set(f, i, v) == [j \in DOMAIN f \cup {i} |-> IF j = i THEN v ELSE f[j]]

(* A resolver answers; the check begins with the system's answer, and every *)
(* query writes its own place of rec.Answers.                               *)
Reply(i, reply) ==
    /\ stage = (IF i = 0 THEN "lookup" ELSE "ask") /\ i \notin DOMAIN heard
    /\ heard' = Set(heard, i, reply) /\ answers' = Set(answers, i, Answer(reply))
    /\ stage' = "ask"
    /\ UNCHANGED <<mismatch, unreachable, written, over>>

First(i) == ~answers[i].error /\ \A j \in Asked : j < i => answers[j].error

Compare ==
    /\ stage = "ask" /\ DOMAIN answers = Asked
    /\ stage' = "compared"
    /\ mismatch' = \E i, j \in Asked : /\ First(i) /\ i < j /\ ~answers[j].error
                                       /\ answers[i].ips # answers[j].ips
    /\ unreachable' = {i \in Asked : answers[i].error}
    /\ UNCHANGED <<heard, answers, written, over>>

Event(type, i) == [type |-> type, resolver |-> i]

(* dnsEvents, and the record before them.  A check that ends after the      *)
(* shutdown began writes nothing: its queries were cut short.               *)
Write ==
    /\ stage = "compared" /\ ~over
    /\ written' = {Event("dns", 0)}
                    \cup {Event("dns-mismatch", 0) : b \in {TRUE} \cap {mismatch}}
                    \cup {Event("resolver-unreachable", i) : i \in unreachable}
    /\ stage' = "done"
    /\ UNCHANGED <<heard, answers, mismatch, unreachable, over>>

(* The next lookup, resolveInterval later.                                  *)
Again ==
    /\ stage = "done" /\ ~over
    /\ stage' = "lookup" /\ heard' = << >> /\ answers' = << >>
    /\ mismatch' = FALSE /\ unreachable' = {} /\ written' = {}
    /\ UNCHANGED over

(* A shutdown: the queries still out fail.                                  *)
Stop ==
    /\ ~over /\ over' = TRUE
    /\ UNCHANGED <<stage, heard, answers, mismatch, unreachable, written>>

DnsNext ==
    \/ \E i \in Asked, reply \in Replies : (over => reply.error) /\ Reply(i, reply)
    \/ Compare \/ Write \/ Again \/ Stop
DnsSpec == DnsInit /\ [][DnsNext]_dnsVars

------------------------------------------------------------------------------
(* "mismatch" says that two resolvers that answered disagree on the set of  *)
(* A records, whatever order they give them in and answer in, and whoever   *)
(* could not be asked; those are told apart, each in an event of its own.   *)
(* Nothing is said about answers that the shutdown cut short.               *)
MismatchIsDisagreement ==
    LET said == {i \in DOMAIN heard : ~heard[i].error}
        disagree == \E i, j \in said : Given(heard[i]) # Given(heard[j])
    IN written # {} =>
        /\ Event("dns-mismatch", 0) \in written <=> disagree
        /\ {e.resolver : e \in {w \in written : w.type = "resolver-unreachable"}} = Asked \ said
==============================================================================
