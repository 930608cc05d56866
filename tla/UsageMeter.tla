----------------------------- MODULE UsageMeter -----------------------------
(***************************************************************************)
(* What a usage meter promises: a request, named by its idempotency key    *)
(* and its fingerprint, is charged at most once, to one period, and only   *)
(* while the period has room under some limit the plan has had.            *)
(***************************************************************************)
EXTENDS Naturals

CONSTANTS Requests,   \* [key, fp] records
          Periods,    \* UTC+8 calendar buckets
          Limits      \* limits a plan can have

VARIABLES charges,    \* the requests charged, with their period
          usedIn      \* [Periods -> Nat], units charged per period

meterSpecVars == <<charges, usedIn>>

MeterInit ==
    /\ charges = {}
    /\ usedIn = [p \in Periods |-> 0]

Charge(r, p) ==
    /\ \A c \in charges : c.key # r.key /\ c.fp # r.fp
    /\ \E limit \in Limits : usedIn[p] + 1 <= limit
    /\ charges' = charges \union {[key |-> r.key, fp |-> r.fp, period |-> p]}
    /\ usedIn' = [usedIn EXCEPT ![p] = @ + 1]

MeterNext == \E r \in Requests, p \in Periods : Charge(r, p)

MeterSpec == MeterInit /\ [][MeterNext]_meterSpecVars
=============================================================================
