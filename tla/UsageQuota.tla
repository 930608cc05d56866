----------------------------- MODULE UsageQuota -----------------------------
(***************************************************************************)
(* consume_current_entitlement (backend/app/usage/quota.py), the live path *)
(* by which queries, reports, analyses, exports and previews are metered:  *)
(* concurrent PostgreSQL transactions (READ COMMITTED) that charge one     *)
(* scope and usage kind, while the back office edits the plan's limit,     *)
(* billing rewrites the counter's limit and the calendar moves on.         *)
(*                                                                         *)
(* An action is one statement of a transaction, up to the point where the  *)
(* next statement may wait or read something another transaction changes.  *)
(* What a transaction has written is in its own record until it commits.   *)
(* Every request is for one unit; the module is one scope and usage kind   *)
(* of usage_quotas, usage_events and usage_idempotency.                    *)
(***************************************************************************)
EXTENDS Naturals, FiniteSets

CONSTANTS Txns,       \* transactions
          Requests,   \* what callers ask for: [key, fp] records
          LastPeriod, \* bound on the calendar: months (or days) 1..LastPeriod
          Limits,     \* limits the back office may give the plan
          NoRequest   \* "no request"

ASSUME QuotaAssumption ==
    /\ Limits \subseteq Nat
    /\ LastPeriod \in Nat \ {0}
    /\ \A r \in Requests : r = [key |-> r.key, fp |-> r.fp]
    /\ NoRequest \notin Requests

VARIABLES
    plan,       \* limit_units of the active plan_entitlements row; {} if none
    period,     \* the current period key
    quota,      \* committed usage_quotas rows, per period
    events,     \* committed usage_events, [key, fp, period] records
    registry,   \* committed usage_idempotency rows, [key, fp] records
    pc,         \* where a transaction is
    req,        \* the request it serves
    inPeriod,   \* the period_key it computed
    limit,      \* the live_limit it read
    outcome     \* how its last request ended

Periods == 1..LastPeriod

store == <<quota, events, registry>>
vars  == <<plan, period, store, pc, req, inPeriod, limit, outcome>>

Quota == [exists: BOOLEAN, limit: Nat, consumed: Nat]
Event == [key: {r.key : r \in Requests}, fp: {r.fp : r \in Requests}, period: Periods]

\* The statements between which a transaction holds the advisory lock of
\* its request, and those between which it holds the row of its period.
HasLock == {"locked", "fresh", "priced", "held", "charging", "recorded"}
HasRow  == {"held", "charging", "recorded"}

Outcomes == {"none", "duplicate", "reused", "exceeded", "collision",
             "consumed", "aborted"}

Init ==
    /\ plan \in {{l} : l \in Limits} \union {{}}
    /\ period = 1
    /\ quota = [p \in Periods |-> [exists |-> FALSE, limit |-> 0, consumed |-> 0]]
    /\ events = {}
    /\ registry = {}
    /\ pc = [t \in Txns |-> "idle"]
    /\ req = [t \in Txns |-> NoRequest]
    /\ inPeriod = [t \in Txns |-> 1]
    /\ limit = [t \in Txns |-> 0]
    /\ outcome = [t \in Txns |-> "none"]

(***************************************************************************)
(* One transaction.                                                        *)
(***************************************************************************)
GoTo(t, from, to) == pc[t] = from /\ pc' = [pc EXCEPT ![t] = to]

\* The transaction ends; a rollback leaves the committed tables alone.
End(t, how) ==
    /\ pc' = [pc EXCEPT ![t] = "idle"]
    /\ outcome' = [outcome EXCEPT ![t] = how]
    /\ inPeriod' = [inPeriod EXCEPT ![t] = 1]
    /\ limit' = [limit EXCEPT ![t] = 0]
    /\ UNCHANGED <<plan, period, req>>

\* _resolve_plan and current_period_key; then the advisory lock is asked for.
Begin(t) ==
    /\ GoTo(t, "idle", "waiting")
    /\ \E r \in Requests : req' = [req EXCEPT ![t] = r]
    /\ inPeriod' = [inPeriod EXCEPT ![t] = period]
    /\ outcome' = [outcome EXCEPT ![t] = "none"]
    /\ UNCHANGED <<plan, period, store, limit>>

\* Mutant: no advisory lock is taken.
ReplayFreeAlways(t) == TRUE

\* pg_advisory_xact_lock on scope, kind, key and fingerprint.
ReplayFree(t) == \A u \in Txns \ {t} : pc[u] \in HasLock => req[u] # req[t]

LockReplay(t) ==
    /\ GoTo(t, "waiting", "locked")
    /\ ReplayFree(t)
    /\ UNCHANGED <<plan, period, store, req, inPeriod, limit, outcome>>

Prior(t) == {e \in registry : e.key = req[t].key}

\* The registry row of the key: a duplicate if the fingerprint is the same,
\* a ValueError if the key was used for something else.
Replay(t) ==
    /\ pc[t] = "locked"
    /\ Prior(t) # {}
    /\ End(t, IF req[t] \in Prior(t) THEN "duplicate" ELSE "reused")
    /\ UNCHANGED store

NoPrior(t) ==
    /\ GoTo(t, "locked", "fresh")
    /\ Prior(t) = {}
    /\ UNCHANGED <<plan, period, store, req, inPeriod, limit, outcome>>

NotConfigured(t) ==
    /\ pc[t] = "fresh"
    /\ plan = {}
    /\ End(t, "exceeded")
    /\ UNCHANGED store

\* live_limit, read before the counter's row is locked.
ReadLimit(t) ==
    /\ GoTo(t, "fresh", "priced")
    /\ \E l \in plan : limit' = [limit EXCEPT ![t] = l]
    /\ UNCHANGED <<plan, period, store, req, inPeriod, outcome>>

\* Mutant: the counter is read without "for update".
RowFreeAlways(p) == TRUE

\* Mutant: the counter is upserted on one connection and locked on another,
\* which then waits for the first.
RowFreeOnOther(p) == \A u \in Txns : pc[u] \in HasRow \union {"priced"} => inPeriod[u] # p

\* Nobody holds the row lock of the period's counter (an uncommitted insert
\* of the row makes others wait in the same way).
RowFree(p) == \A u \in Txns : pc[u] \in HasRow => inPeriod[u] # p

\* insert .. on conflict do nothing; select .. for update; update limit_units.
TakeRow(t) ==
    /\ GoTo(t, "priced", "held")
    /\ RowFree(inPeriod[t])
    /\ UNCHANGED <<plan, period, store, req, inPeriod, limit, outcome>>

\* consumed + reserved + units > live_limit, negated; nothing on the live
\* path reserves.
HasRoom(t) == quota[inPeriod[t]].consumed + 1 <= limit[t]

Exceeded(t) ==
    /\ pc[t] = "held"
    /\ ~HasRoom(t)
    /\ End(t, "exceeded")
    /\ UNCHANGED store

Admit(t) ==
    /\ GoTo(t, "held", "charging")
    /\ HasRoom(t)
    /\ UNCHANGED <<plan, period, store, req, inPeriod, limit, outcome>>

\* Mutant: only the client key is unique, not the fingerprint.
ClashesByKey(e, r) == e.key = r.key

\* The unique indexes of usage_events and usage_idempotency.
Clashes(e, r) == e.key = r.key \/ e.fp = r.fp

\* The two inserts: they wait for an uncommitted row with the same key or
\* fingerprint and fail on a committed one.
CanInsert(t) == \A u \in Txns \ {t} : pc[u] = "recorded" => ~Clashes(req[u], req[t])

Collide(t) ==
    /\ pc[t] = "charging"
    /\ CanInsert(t)
    /\ \E e \in events \union registry : Clashes(e, req[t])
    /\ End(t, "collision")
    /\ UNCHANGED store

Record(t) ==
    /\ GoTo(t, "charging", "recorded")
    /\ CanInsert(t)
    /\ \A e \in events \union registry : ~Clashes(e, req[t])
    /\ UNCHANGED <<plan, period, store, req, inPeriod, limit, outcome>>

\* Mutant: the counter is not moved with the event.
CommitWithoutCounter(t) ==
    /\ pc[t] = "recorded"
    /\ quota' = [quota EXCEPT ![inPeriod[t]] =
                   [exists |-> TRUE, limit |-> limit[t], consumed |-> @.consumed]]
    /\ events' = events \union {[key    |-> req[t].key, fp |-> req[t].fp,
                                 period |-> inPeriod[t]]}
    /\ registry' = registry \union {req[t]}
    /\ End(t, "consumed")

\* Mutant: the charge is booked with the wrong sign.
CommitRefunds(t) ==
    /\ pc[t] = "recorded"
    /\ quota' = [quota EXCEPT ![inPeriod[t]] =
                   [exists |-> TRUE, limit |-> limit[t], consumed |-> @.consumed - 1]]
    /\ events' = events \union {[key    |-> req[t].key, fp |-> req[t].fp,
                                 period |-> inPeriod[t]]}
    /\ registry' = registry \union {req[t]}
    /\ End(t, "consumed")

\* consumed_units + 1, and the caller's commit makes all of it visible.
Commit(t) ==
    /\ pc[t] = "recorded"
    /\ quota' = [quota EXCEPT ![inPeriod[t]] =
                   [exists |-> TRUE, limit |-> limit[t], consumed |-> @.consumed + 1]]
    /\ events' = events \union {[key    |-> req[t].key, fp |-> req[t].fp,
                                 period |-> inPeriod[t]]}
    /\ registry' = registry \union {req[t]}
    /\ End(t, "consumed")

\* The caller raises later in its transaction, or the connection is lost.
Abort(t) ==
    /\ pc[t] # "idle"
    /\ End(t, "aborted")
    /\ UNCHANGED store

(***************************************************************************)
(* The surroundings.                                                       *)
(***************************************************************************)
\* admin/service.py: the active entitlement row is replaced or deactivated.
EditPlan ==
    /\ plan' \in {{l} : l \in Limits} \union {{}}
    /\ UNCHANGED <<period, store, pc, req, inPeriod, limit, outcome>>

\* Mutant: a renewed subscription starts its counter again.
SyncLimitResets ==
    /\ RowFree(period)
    /\ \E l \in Limits \ {0} :
         quota' = [quota EXCEPT ![period] = [exists |-> TRUE, limit |-> l, consumed |-> 0]]
    /\ UNCHANGED <<plan, period, events, registry, pc, req, inPeriod, limit, outcome>>

\* billing/store.py _sync_membership_entitlement: the counter of the current
\* period gets the plan's limit, or what it has consumed when the
\* subscription is over.  The upsert waits for the row.
SyncLimit ==
    /\ RowFree(period)
    /\ \E l \in Limits \ {0} :
         \/ quota' = [quota EXCEPT ![period].exists = TRUE, ![period].limit = l]
         \/ quota' = [quota EXCEPT
                        ![period].exists = TRUE,
                        ![period].limit = IF quota[period].exists
                                          THEN quota[period].consumed ELSE l]
    /\ UNCHANGED <<plan, period, events, registry, pc, req, inPeriod, limit, outcome>>

NextPeriod ==
    /\ period + 1 \in Periods
    /\ period' = period + 1
    /\ UNCHANGED <<plan, store, pc, req, inPeriod, limit, outcome>>

Step(t) ==
    \/ LockReplay(t) \/ Replay(t) \/ NoPrior(t) \/ NotConfigured(t)
    \/ ReadLimit(t) \/ TakeRow(t) \/ Exceeded(t) \/ Admit(t)
    \/ Collide(t) \/ Record(t) \/ Commit(t)

Next ==
    \/ \E t \in Txns : Begin(t) \/ Step(t) \/ Abort(t)
    \/ EditPlan \/ SyncLimit \/ NextPeriod

Spec == Init /\ [][Next]_vars

\* PostgreSQL runs every statement that does not wait and grants its locks in
\* the order they were asked for: a transaction that can go on again and
\* again does go on.
FairSpec == Spec /\ \A t \in Txns : SF_vars(Step(t))

(***************************************************************************)
(* Properties.                                                             *)
(***************************************************************************)
\* Every variable stays within its type.
TypeOK ==
    /\ plan \in {{l} : l \in Limits} \union {{}}
    /\ period \in Periods
    /\ quota \in [Periods -> Quota]
    /\ events \subseteq Event
    /\ registry \subseteq Requests
    /\ pc \in [Txns -> HasLock \union {"idle", "waiting"}]
    /\ req \in [Txns -> Requests \union {NoRequest}]
    /\ inPeriod \in [Txns -> Periods]
    /\ limit \in [Txns -> Limits \union {0}]
    /\ outcome \in [Txns -> Outcomes]
    /\ \A t \in Txns : pc[t] # "idle" => req[t] \in Requests

\* A period's counter is the number of its events, and every event has its
\* idempotency row: the three tables never tell different stories.
TablesAgree ==
    /\ \A p \in Periods : quota[p].consumed = Cardinality({e \in events : e.period = p})
    /\ registry = {[key |-> e.key, fp |-> e.fp] : e \in events}

\* Two events never share a key or a fingerprint, even across periods.
ChargedOnce ==
    \A e, f \in events : e.key = f.key \/ e.fp = f.fp => e = f

\* Callers are told the truth: an accepted or duplicate request is in the
\* registry with its own fingerprint, a refused key was used for something
\* else, and, because the advisory lock serialises identical replays, a
\* request runs into the unique indexes only when its key or its
\* fingerprint, but not both, was used before.
AnswersAreTrue ==
    \A t \in Txns :
        /\ outcome[t] \in {"consumed", "duplicate"} => req[t] \in registry
        /\ outcome[t] \in {"reused", "collision"} =>
             \E e \in registry : Clashes(e, req[t]) /\ e # req[t]

\* A charge never takes a counter past the limit it was checked against,
\* whatever other transactions, plan edits and billing do meanwhile.
ChargesWithinLimit ==
    [][\A p \in Periods :
         quota'[p].consumed > quota[p].consumed
         => quota'[p].consumed <= quota'[p].limit]_vars

\* What the tables hold and what callers were told agree, charges included,
\* however requests, replays, limit edits and months interleave.
ChargesAreTrue == TypeOK /\ TablesAgree /\ ChargedOnce /\ AnswersAreTrue

\* Locks are taken in one order (request, counter, unique rows), so every
\* request is answered.
RequestsEnd == \A t \in Txns : pc[t] # "idle" ~> pc[t] = "idle"

UsedIn == [p \in Periods |-> quota[p].consumed]

Meter == INSTANCE UsageMeter WITH charges <- events, usedIn <- UsedIn

\* Refinement: the transactions together are an atomic meter.
ImplementsMeter == Meter!MeterSpec

(***************************************************************************)
(* The strengthening that makes the safety properties inductive.           *)
(***************************************************************************)
\* One transaction at a time holds the lock of a request, and the row of a
\* period.
LocksExclude ==
    \A t, u \in Txns : t # u =>
        /\ ~(pc[t] \in HasLock /\ pc[u] \in HasLock /\ req[t] = req[u])
        /\ ~(pc[t] \in HasRow /\ pc[u] \in HasRow /\ inPeriod[t] = inPeriod[u])

\* What a transaction has checked stays true until it commits.
ChecksHold ==
    \A t \in Txns :
        /\ pc[t] \in HasLock \ {"locked"} => req[t] \notin registry
        /\ pc[t] \in HasRow \union {"priced"} => limit[t] \in Limits
        /\ pc[t] \in {"charging", "recorded"} => HasRoom(t)
        /\ pc[t] = "recorded" =>
             /\ \A e \in events : ~Clashes(e, req[t])
             /\ \A u \in Txns \ {t} : pc[u] = "recorded" => ~Clashes(req[u], req[t])

IInv ==
    /\ TypeOK /\ IsFiniteSet(events) /\ TablesAgree /\ ChargedOnce
    /\ LocksExclude /\ ChecksHold /\ AnswersAreTrue
=============================================================================
