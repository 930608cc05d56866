-------------------------------- MODULE Ledger --------------------------------
(***************************************************************************)
(* The usage ledger's contract: the thread-safe in-memory Ledger of        *)
(* backend/app/usage/ledger.py for one scope and usage kind.  Every method *)
(* runs under one lock, so a method is one action; a call that answers     *)
(* "duplicate", and one that raises before it has written, is no action.   *)
(* The database ledger says that it mirrors it.                            *)
(***************************************************************************)
EXTENDS Naturals

CONSTANTS Keys,        \* request keys
          NoKey,       \* "no reservation"
          Units,       \* units a request may ask for
          Limits,      \* limits a period may have
          Periods      \* UTC+8 calendar buckets

VARIABLES periods,       \* _periods: [exists, limit, consumed, reserved]
          entries,       \* _events
          reservations   \* _reservations, by reservation key

contractVars == <<periods, entries, reservations>>

Ops   == {"consume", "reserve", "commit", "release"}
Entry == [op : Ops, key : Keys, units : Units, rkey : Keys \union {NoKey}, period : Periods]

LedgerInit ==
    /\ periods = [p \in Periods |->
                    [exists |-> FALSE, limit |-> 0, consumed |-> 0, reserved |-> 0]]
    /\ entries = {}
    /\ reservations = [k \in Keys |-> [status |-> "none", period |-> 0, units |-> 0]]

\* _existing finds nothing.
IsNew(op, key) == \A e \in entries : ~(e.op = op /\ e.key = key)

\* _get_period
Opened(p, limit) ==
    IF periods[p].exists THEN periods[p]
    ELSE [exists |-> TRUE, limit |-> limit, consumed |-> 0, reserved |-> 0]

\* "quota limit changed for an existing period"
LimitFits(p, limit) == periods[p].exists => periods[p].limit = limit

HasCapacity(row, units) == row.consumed + row.reserved + units <= row.limit

Recorded(op, key, units, rkey, p) ==
    entries' = entries \union
        {[op |-> op, key |-> key, units |-> units, rkey |-> rkey, period |-> p]}

Consume(key, units, limit, p) ==
    /\ IsNew("consume", key)
    /\ LimitFits(p, limit)
    /\ HasCapacity(Opened(p, limit), units)
    /\ periods' = [periods EXCEPT ![p] =
                     [Opened(p, limit) EXCEPT !.consumed = @ + units]]
    /\ Recorded("consume", key, units, NoKey, p)
    /\ UNCHANGED reservations

Reserve(key, units, limit, p) ==
    /\ IsNew("reserve", key)
    /\ LimitFits(p, limit)
    /\ reservations[key].status = "none"
    /\ HasCapacity(Opened(p, limit), units)
    /\ periods' = [periods EXCEPT ![p] =
                     [Opened(p, limit) EXCEPT !.reserved = @ + units]]
    /\ reservations' = [reservations EXCEPT ![key] =
                          [status |-> "reserved", period |-> p, units |-> units]]
    /\ Recorded("reserve", key, units, key, p)

\* A period is opened by the request that finds it full.
Full(units, limit, p) ==
    /\ ~periods[p].exists
    /\ ~HasCapacity(Opened(p, limit), units)
    /\ periods' = [periods EXCEPT ![p] = Opened(p, limit)]
    /\ UNCHANGED <<entries, reservations>>

\* commit and release, in the period of the reservation.
Settle(op, key, rkey) ==
    LET r == reservations[rkey] IN
    /\ op \in {"commit", "release"}
    /\ IsNew(op, key)
    /\ r.status = "reserved"
    /\ periods' = [periods EXCEPT
                     ![r.period].reserved = @ - r.units,
                     ![r.period].consumed = IF op = "commit" THEN @ + r.units ELSE @]
    /\ reservations' = [reservations EXCEPT ![rkey].status =
                          IF op = "commit" THEN "committed" ELSE "released"]
    /\ Recorded(op, key, r.units, rkey, r.period)

LedgerNext ==
    \/ \E key \in Keys, units \in Units, limit \in Limits, p \in Periods :
          Consume(key, units, limit, p) \/ Reserve(key, units, limit, p)
    \/ \E units \in Units, limit \in Limits, p \in Periods : Full(units, limit, p)
    \/ \E op \in Ops, key, rkey \in Keys : Settle(op, key, rkey)

LedgerSpec == LedgerInit /\ [][LedgerNext]_contractVars
=============================================================================
