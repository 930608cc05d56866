---------------------------- MODULE PostgresLedger ----------------------------
(***************************************************************************)
(* PostgresLedger (backend/app/usage/db_ledger.py): consume, reserve,      *)
(* commit and release as concurrent READ COMMITTED transactions on the     *)
(* tables of migration 20260905000300, for one scope and usage kind.       *)
(*                                                                         *)
(* An action is one statement, up to where the next may wait or may read   *)
(* what another transaction changes.  What a transaction has written shows *)
(* when it commits.  A usage_idempotency row is inserted with its event    *)
(* and repeats its columns, so it is read off the events.                  *)
(***************************************************************************)
EXTENDS Naturals, FiniteSets

CONSTANTS Txns,        \* transactions
          Keys,        \* request keys
          NoKey,       \* the missing reservation key
          Units,       \* units a request may ask for
          Limits,      \* limits callers pass
          NoLimit,     \* "no limit passed"
          LastPeriod,  \* bound on the calendar
          Requests,    \* what callers ask for
          NoRequest    \* "no request"

Periods == 1..LastPeriod
Ops     == {"consume", "reserve", "commit", "release"}
Charges == {"consume", "reserve"}

Request == [op : Ops, key : Keys, units : Units, rkey : Keys \union {NoKey},
            limit : Limits \union {NoLimit}]

\* _validate_common: units are positive; the key of a reservation is its
\* request's, a transition names one.
ASSUME LedgerAssumption ==
    /\ Units \subseteq Nat \ {0}
    /\ Limits \subseteq Nat
    /\ NoLimit \notin Limits
    /\ NoKey \notin Keys
    /\ LastPeriod \in Nat \ {0}
    /\ Requests \subseteq Request
    /\ NoRequest \notin Requests
    /\ \A r \in Requests : /\ r.op = "consume" => r.rkey = NoKey
                           /\ r.op = "reserve" => r.rkey = r.key
                           /\ r.op \notin Charges => r.rkey \in Keys

VARIABLES
    quotas,  \* committed usage_quotas rows, by period
    events,  \* committed usage_events, with their usage_idempotency rows
    period,  \* the current period key
    pc,      \* where a transaction is
    req,     \* the request it serves
    bucket   \* the period it charges, 0 before a transition has found it

tables == <<quotas, events>>
transactionVars   == <<tables, period, pc, req, bucket>>

Quota == [exists : BOOLEAN, limit : Limits \union {0}, consumed : Nat, reserved : Nat]
Event == [op : Ops, key : Keys, units : Units, rkey : Keys \union {NoKey},
          period : Periods]

Steps == {"idle", "waiting", "locked", "named", "found", "held", "fresh"}

TransactionsInit ==
    /\ quotas = [p \in Periods |->
                   [exists |-> FALSE, limit |-> 0, consumed |-> 0, reserved |-> 0]]
    /\ events = {}
    /\ period = 1
    /\ pc = [t \in Txns |-> "idle"]
    /\ req = [t \in Txns |-> NoRequest]
    /\ bucket = [t \in Txns |-> 0]

GoTo(t, from, to) == pc[t] = from /\ pc' = [pc EXCEPT ![t] = to]

\* The transaction ends; without a commit the tables stay as they are.
End(t) ==
    /\ pc' = [pc EXCEPT ![t] = "idle"]
    /\ req' = [req EXCEPT ![t] = NoRequest]
    /\ bucket' = [bucket EXCEPT ![t] = 0]
    /\ UNCHANGED period

IsCharge(t) == req[t].op \in Charges

Begin(t) ==
    /\ GoTo(t, "idle", "waiting")
    /\ \E r \in Requests : req' = [req EXCEPT ![t] = r]
    /\ bucket' = [bucket EXCEPT ![t] = IF req'[t].op \in Charges THEN period ELSE 0]
    /\ UNCHANGED <<tables, period>>

\* Nobody else holds the operation's lock on the request key.
KeyFree(t) ==
    \A u \in Txns \ {t} :
        pc[u] \notin {"idle", "waiting"} =>
           <<req[u].op, req[u].key>> # <<req[t].op, req[t].key>>

\* pg_advisory_xact_lock on scope, kind, operation and request key.
LockKey(t) ==
    /\ GoTo(t, "waiting", "locked")
    /\ KeyFree(t)
    /\ UNCHANGED <<tables, period, req, bucket>>

SameKey(t) == {e \in events : e.op = req[t].op /\ e.key = req[t].key}

\* The fingerprint: units, operation, reservation key and period (the limit
\* is the period's).
SamePrint(t, e) ==
    /\ e.op = req[t].op
    /\ e.units = req[t].units
    /\ e.rkey = req[t].rkey
    /\ e.period = bucket[t]

(***************************************************************************)
(* commit and release find their reservation first.                        *)
(***************************************************************************)
\* A transition whose key is in the registry is a duplicate or a conflict.
TransitionReplay(t) ==
    /\ pc[t] = "locked" /\ ~IsCharge(t)
    /\ SameKey(t) # {}
    /\ End(t)
    /\ UNCHANGED tables

TransitionNew(t) ==
    /\ GoTo(t, "locked", "named") /\ ~IsCharge(t)
    /\ SameKey(t) = {}
    /\ UNCHANGED <<tables, period, req, bucket>>

Reservation(t) == {e \in events : e.op = "reserve" /\ e.rkey = req[t].rkey}

\* Nobody holds the lock on the reserve event.
ReservationFree(t) ==
    \A u \in Txns \ {t} :
        pc[u] \in {"found", "held", "fresh"} /\ req[u].op \notin Charges
        => req[u].rkey # req[t].rkey

\* "reservation not found", "reservation units do not match"
NotFound(t) ==
    /\ pc[t] = "named"
    /\ \A e \in Reservation(t) : e.units # req[t].units
    /\ End(t)
    /\ UNCHANGED tables

\* The reserve event is locked; its period is the one that is charged.
LockReservation(t) ==
    /\ GoTo(t, "named", "found")
    /\ ReservationFree(t)
    /\ \E e \in Reservation(t) :
          /\ e.units = req[t].units
          /\ bucket' = [bucket EXCEPT ![t] = e.period]
    /\ UNCHANGED <<tables, period, req>>

(***************************************************************************)
(* The counter's row.                                                      *)
(***************************************************************************)
AtRow(t) == pc[t] = "found" \/ (pc[t] = "locked" /\ IsCharge(t))

\* Mutant: the counter is read without "for update".
RowFreeAlways(t) == TRUE

\* Nobody holds the row; an uncommitted insert makes others wait as well.
RowFree(t) ==
    \A u \in Txns \ {t} : pc[u] \in {"held", "fresh"} => bucket[u] # bucket[t]

Row(t) == quotas[bucket[t]]

\* A missing row and no limit to provision it with: zero capacity.
Unprovisioned(t) ==
    /\ AtRow(t)
    /\ ~Row(t).exists /\ req[t].limit = NoLimit
    /\ End(t)
    /\ UNCHANGED tables

TakeRow(t) ==
    /\ AtRow(t)
    /\ Row(t).exists \/ req[t].limit # NoLimit
    /\ RowFree(t)
    /\ pc' = [pc EXCEPT ![t] = "held"]
    /\ UNCHANGED <<tables, period, req, bucket>>

LimitOf(t) == IF Row(t).exists THEN Row(t).limit ELSE req[t].limit

LimitChanged(t) ==
    /\ pc[t] = "held"
    /\ req[t].limit \notin {NoLimit, LimitOf(t)}
    /\ End(t)
    /\ UNCHANGED tables

\* The reservation has a commit or a release event.
Terminal(t) ==
    \E e \in events : e.op \in {"commit", "release"} /\ e.rkey = req[t].rkey

\* Mutant: only another commit makes a commit too late.
ReplayedSameOp(t) ==
    IF IsCharge(t) THEN SameKey(t) # {} \/ \E e \in events : SamePrint(t, e)
    ELSE \E e \in events : e.op = req[t].op /\ e.rkey = req[t].rkey

\* A charge whose key or fingerprint is in the registry, a transition of a
\* reservation that is no longer active.
Replayed(t) ==
    IF IsCharge(t) THEN SameKey(t) # {} \/ \E e \in events : SamePrint(t, e)
    ELSE Terminal(t)

Refuse(t) ==
    /\ pc[t] = "held"
    /\ req[t].limit \in {NoLimit, LimitOf(t)}
    /\ Replayed(t)
    /\ End(t)
    /\ UNCHANGED tables

Accept(t) ==
    /\ GoTo(t, "held", "fresh")
    /\ req[t].limit \in {NoLimit, LimitOf(t)}
    /\ ~Replayed(t)
    /\ UNCHANGED <<tables, period, req, bucket>>

\* Mutant: the update does not count what is reserved.
HasCapacityUnreserved(t) ==
    IF IsCharge(t) THEN Row(t).consumed + req[t].units <= LimitOf(t)
    ELSE Row(t).reserved >= req[t].units

\* The condition of the update.
HasCapacity(t) ==
    IF IsCharge(t) THEN Row(t).consumed + Row(t).reserved + req[t].units <= LimitOf(t)
    ELSE Row(t).reserved >= req[t].units

Exceeded(t) ==
    /\ pc[t] = "fresh"
    /\ ~HasCapacity(t)
    /\ End(t)
    /\ UNCHANGED tables

\* The row as the update leaves it.
Updated(t) ==
    LET n == req[t].units
        row == [Row(t) EXCEPT !.exists = TRUE, !.limit = LimitOf(t)]
    IN  CASE req[t].op = "consume" -> [row EXCEPT !.consumed = @ + n]
          [] req[t].op = "reserve" -> [row EXCEPT !.reserved = @ + n]
          [] req[t].op = "commit"  -> [row EXCEPT !.reserved = @ - n, !.consumed = @ + n]
          [] req[t].op = "release" -> [row EXCEPT !.reserved = @ - n]

NewEvent(t) ==
    [op |-> req[t].op, key |-> req[t].key, units |-> req[t].units,
     rkey |-> req[t].rkey, period |-> bucket[t]]

\* The counter is updated, the event and its registry row are inserted, and
\* everything commits.
Commit(t) ==
    /\ pc[t] = "fresh"
    /\ HasCapacity(t)
    /\ quotas' = [quotas EXCEPT ![bucket[t]] = Updated(t)]
    /\ events' = events \union {NewEvent(t)}
    /\ End(t)

\* The connection breaks or the process dies.
Abort(t) ==
    /\ pc[t] # "idle"
    /\ End(t)
    /\ UNCHANGED tables

NextPeriod ==
    /\ period < LastPeriod
    /\ period' = period + 1
    /\ UNCHANGED <<tables, pc, req, bucket>>

Transition(t) == TransitionReplay(t) \/ TransitionNew(t) \/ NotFound(t) \/ LockReservation(t)
Count(t)      == Unprovisioned(t) \/ TakeRow(t) \/ LimitChanged(t) \/ Refuse(t) \/ Accept(t)
                 \/ Exceeded(t) \/ Commit(t)

TransactionsNext ==
    \/ \E t \in Txns : Begin(t) \/ LockKey(t) \/ Transition(t) \/ Count(t) \/ Abort(t)
    \/ NextPeriod

TransactionsSpec == TransactionsInit /\ [][TransactionsNext]_transactionVars

(***************************************************************************)
(* Properties.                                                             *)
(***************************************************************************)
\* Every variable stays within its type.
TablesOK ==
    /\ quotas \in [Periods -> Quota]
    /\ events \subseteq Event
    /\ period \in Periods
    /\ pc \in [Txns -> Steps]
    /\ req \in [Txns -> Requests \union {NoRequest}]
    /\ bucket \in [Txns -> Periods \union {0}]

Ended(k) == {e \in events : e.op \in {"commit", "release"} /\ e.rkey = k}

\* The units of some events, each counted by itself.
UnitsOf(S) == Cardinality(UNION {{e} \X (1..e.units) : e \in S})

SpentIn(p) == {e \in events : e.period = p /\ e.op \in {"consume", "commit"}}
OpenIn(p)  == {e \in events : e.period = p /\ e.op = "reserve" /\ Ended(e.rkey) = {}}

\* The counters of a period are the sums of its events: units consumed and
\* committed on one side, reservations neither committed nor released on the
\* other.  A reservation that ends twice, or in another period than it was
\* made in, a replay that counts again and a lost update all break the sum.
CountersAreSums ==
    \A p \in Periods : /\ quotas[p].consumed = UnitsOf(SpentIn(p))
                       /\ quotas[p].reserved = UnitsOf(OpenIn(p))

\* A reservation is made once and ends at most once.
ReservationEndsOnce ==
    \A k \in Keys : /\ Cardinality({e \in events : e.op = "reserve" /\ e.rkey = k}) <= 1
                    /\ Cardinality(Ended(k)) <= 1

\* No identical request is metered twice, whatever keys it came with.
MeteredOnce ==
    \A e, f \in events :
        /\ e.op = f.op /\ e.key = f.key => e = f
        /\ e.op = f.op /\ e.units = f.units /\ e.rkey = f.rkey /\ e.period = f.period => e = f

\* Usage and reservations together stay within the limit.
NeverOversold == \A p \in Periods : quotas[p].consumed + quotas[p].reserved <= quotas[p].limit

Waits(t) ==
    \/ pc[t] = "waiting" /\ ~KeyFree(t)
    \/ pc[t] = "named" /\ ~ReservationFree(t)
    \/ AtRow(t) /\ ~RowFree(t)

\* The key, reservation and row locks are taken in one order: whenever
\* transactions are open, one of them waits for no other.
LocksNeverCross ==
    (\E t \in Txns : pc[t] # "idle") => \E t \in Txns : pc[t] # "idle" /\ ~Waits(t)

\* The ledger's books are right: the counters are sums, reservations end once,
\* nothing identical is metered twice, and no two transactions wait for each
\* other.
BooksAreRight ==
    TablesOK /\ LocksNeverCross /\ CountersAreSums /\ ReservationEndsOnce /\ MeteredOnce /\ NeverOversold

\* What the reservation of a key looks like to the in-memory ledger.
ReservationOf(k) ==
    IF \E e \in events : e.op = "reserve" /\ e.rkey = k
    THEN LET e == CHOOSE r \in events : r.op = "reserve" /\ r.rkey = k IN
         [period |-> e.period, units |-> e.units,
          status |-> CASE \E f \in Ended(k) : f.op = "commit"  -> "committed"
                       [] \E f \in Ended(k) : f.op = "release" -> "released"
                       [] OTHER -> "reserved"]
    ELSE [status |-> "none", period |-> 0, units |-> 0]

Contract == INSTANCE Ledger WITH
    periods <- quotas, entries <- events,
    reservations <- [k \in Keys |-> ReservationOf(k)]

\* The database ledger does nothing the in-memory ledger would not do: it
\* starts as Contract does, and a step that changes the tables, off which all
\* that Contract sees is read, is a step of Contract.
ImplementsLedger ==
    Contract!LedgerInit /\ [][tables' # tables => Contract!LedgerNext]_tables
=============================================================================
