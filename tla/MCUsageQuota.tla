---------------------------- MODULE MCUsageQuota ----------------------------
(* Small instances of UsageQuota for TLC. *)
EXTENDS UsageQuota

\* A key with two fingerprints and a fingerprint with two keys.
MCRequests == {[key |-> "k1", fp |-> "f1"],
               [key |-> "k1", fp |-> "f2"],
               [key |-> "k2", fp |-> "f2"]}
=============================================================================
