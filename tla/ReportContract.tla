--------------------------- MODULE ReportContract ---------------------------
(***************************************************************************)
(* What the report queue promises its members, without workers, leases,    *)
(* tokens or crashes.  A key stands for one member's query: its work is    *)
(* opened, a report is delivered, the C Plus allowance is charged, and the *)
(* work is closed.  Only three things may not go wrong:                    *)
(*   - work is closed as completed only after delivery, and, for a key of  *)
(*     a C Plus member, after the charge;                                  *)
(*   - completed work is never opened again;                               *)
(*   - a key is charged once, and never past the allowance.                *)
(***************************************************************************)
EXTENDS Naturals, FiniteSets

CONSTANTS Keys,         \* the queries of the members
          CPlusKeys,    \* the keys whose owner has the c_plus tier
          ReportLimit   \* monthly report allowance of the C Plus owner

VARIABLES phase,        \* [Keys -> {"new", "open", "completed", "failed"}]
          delivered,    \* keys that have a saved report
          charged,      \* keys whose report has been metered
          spent         \* units taken from the allowance

contractVars == <<phase, delivered, charged, spent>>

ContractInit ==
    /\ phase = [k \in Keys |-> "new"]
    /\ delivered = {}
    /\ charged = {}
    /\ spent = 0

Open(k) ==
    /\ phase[k] \in {"new", "failed"}
    /\ phase' = [phase EXCEPT ![k] = "open"]
    /\ UNCHANGED <<delivered, charged, spent>>

Deliver(k) ==
    /\ phase[k] # "new"
    /\ delivered' = delivered \union {k}
    /\ UNCHANGED <<phase, charged, spent>>

Charge(k) ==
    /\ k \in (CPlusKeys \intersect delivered) \ charged
    /\ spent < ReportLimit
    /\ charged' = charged \union {k}
    /\ spent' = spent + 1
    /\ UNCHANGED <<phase, delivered>>

Complete(k) ==
    /\ phase[k] = "open"
    /\ k \in delivered
    /\ k \in CPlusKeys => k \in charged
    /\ phase' = [phase EXCEPT ![k] = "completed"]
    /\ UNCHANGED <<delivered, charged, spent>>

GiveUp(k) ==
    /\ phase[k] = "open"
    /\ phase' = [phase EXCEPT ![k] = "failed"]
    /\ UNCHANGED <<delivered, charged, spent>>

ContractNext ==
    \E k \in Keys : \/ Open(k) \/ Deliver(k) \/ Charge(k)
                    \/ Complete(k) \/ GiveUp(k)

ContractSpec == ContractInit /\ [][ContractNext]_contractVars
=============================================================================
