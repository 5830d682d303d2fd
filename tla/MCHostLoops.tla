----------------------------- MODULE MCHostLoops -----------------------------
(* HostLoops for TLC: the IPs of a host, and certificates, are interchangeable. *)
EXTENDS HostLoops, TLC

Interchangeable == Permutations(HostIP) \cup Permutations(Fingerprint)
=============================================================================
