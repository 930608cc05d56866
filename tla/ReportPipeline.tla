--------------------------- MODULE ReportPipeline ---------------------------
(***************************************************************************)
(* The report pipeline: API requests that create or restart a query's job, *)
(* the durable outbox table report_generation_outbox, and the workers that *)
(* claim its rows, generate and save the report, charge the C Plus         *)
(* allowance and finalise the claim (backend/app/main.py and               *)
(* backend/app/report_worker.py).                                          *)
(*                                                                         *)
(* One action is one database transaction or autocommit statement, so      *)
(* every interleaving of API requests and workers at those points is a     *)
(* behaviour.  A key is one member's query (query_key is unique); its      *)
(* queries, generation_jobs, property_reports and outbox rows are created  *)
(* once and are modelled as functions of the key.  Wall-clock time is two  *)
(* flags of an outbox row: "due" (next_attempt_at has passed) and          *)
(* "leaseOver" (claimed_at is more than 15 minutes ago).                   *)
(***************************************************************************)
EXTENDS Naturals, FiniteSets

CONSTANTS Keys,         \* queries, one per (owner, search parameters)
          Workers,      \* report-worker processes
          CPlusKeys,    \* keys whose owner's membership_tier is c_plus
          QueryLimit,   \* query allowance of the owner this month
          ReportLimit,  \* report allowance of the C Plus owner this month
          MaxAttempts,  \* outbox.max_attempts
          NoKey         \* "no claim"

ASSUME ConstantsAssumption ==
    /\ CPlusKeys \subseteq Keys
    /\ QueryLimit \in Nat
    /\ ReportLimit \in Nat
    /\ MaxAttempts \in Nat \ {0}
    /\ NoKey \notin Keys

ASSUME KeysFinite == IsFiniteSet(Keys)

VARIABLES
    query,      \* queries.status per key, "none" before the row exists
    queryUsed,  \* consumed units of the query allowance
    job,        \* generation_jobs.status of the key's job
    report,     \* property_reports.report_status of the key
    outbox,     \* the report_generation_outbox row of the key's job
    minted,     \* claim tokens handed out for the row (gen_random_uuid)
    metered,    \* keys with a usage_idempotency row "report:<key>"
    used,       \* consumed units of the report allowance
    legacy,     \* progress of a POST /api/jobs/{query_id}/run request
    pc,         \* where a worker is in process_once
    claim,      \* the ClaimedReport a worker holds
    result      \* what the worker's generation produced or how it failed

apiVars    == <<query, queryUsed, legacy>>
workerVars == <<pc, claim, result>>
meterVars  == <<metered, used>>
vars == <<query, queryUsed, job, report, outbox, minted, metered, used,
          legacy, pc, claim, result>>

(***************************************************************************)
(* Data.                                                                   *)
(***************************************************************************)
JobStatus    == {"none", "pending", "running", "completed", "failed"}
ReportStatus == {"none", "full_report", "insufficient_data"}
RowStatus    == {"none", "pending", "running", "retryable", "completed", "failed"}
OpenStatus   == {"pending", "running", "retryable"}
Failures     == {"retryable", "permanent"}

NoToken == 0
NoClaim == [key |-> NoKey, token |-> NoToken, attempts |-> 0]

Row   == [status: RowStatus, attempts: 0..MaxAttempts, token: Nat,
          due: BOOLEAN, leaseOver: BOOLEAN]
Claim == [key: Keys, token: Nat \ {0}, attempts: 1..MaxAttempts]

\* Inside the try block of run_generation_job.
Trying == {"generating", "saving", "metering", "finishQuery", "finishJob"}
Busy   == Trying \union {"claimed", "completing", "failQuery", "failJob",
                         "recording"}

Init ==
    /\ query = [k \in Keys |-> "none"]
    /\ queryUsed = 0
    /\ job = [k \in Keys |-> "none"]
    /\ report = [k \in Keys |-> "none"]
    /\ outbox = [k \in Keys |-> [status |-> "none", attempts |-> 0,
                                 token |-> NoToken, due |-> FALSE,
                                 leaseOver |-> FALSE]]
    /\ minted = [k \in Keys |-> 0]
    /\ metered = {}
    /\ used = 0
    /\ legacy = [k \in Keys |-> "idle"]
    /\ pc = [w \in Workers |-> "idle"]
    /\ claim = [w \in Workers |-> NoClaim]
    /\ result = [w \in Workers |-> "none"]

(***************************************************************************)
(* The API side.                                                           *)
(***************************************************************************)
\* Mutant: re-enqueueing a completed row reopens it.
RequeuedStatusReopens(s) == "pending"

\* The status a row gets when its job is enqueued again.
RequeuedStatus(s) == IF s = "completed" THEN "completed" ELSE "pending"

\* enqueue_report_outbox: insert, or on conflict (generation_job_id) reset
\* the row.  The reset leaves attempts as they are.
Enqueue(k) ==
    outbox' = [outbox EXCEPT ![k] =
                 [status    |-> RequeuedStatus(outbox[k].status),
                  attempts  |-> outbox[k].attempts,
                  token     |-> NoToken,
                  due       |-> TRUE,
                  leaseOver |-> FALSE]]

\* cached_report_action for a key that has a property_reports row.
CachedReportAction(jobStatus, reportStatus) ==
    IF reportStatus = "full_report" THEN "cache"
    ELSE IF reportStatus = "insufficient_data" /\ jobStatus = "completed" THEN "cache"
    ELSE IF jobStatus = "failed" THEN "requeue"
    ELSE "wait"

\* create_or_get_query_job, first request for the key: one transaction
\* charges the query, inserts the query and the job and enqueues the work.
\* With the allowance used up QuotaExceeded rolls all of it back.
CreateQuery(k) ==
    /\ query[k] = "none"
    /\ queryUsed < QueryLimit
    /\ queryUsed' = queryUsed + 1
    /\ query' = [query EXCEPT ![k] = "pending"]
    /\ job' = [job EXCEPT ![k] = "pending"]
    /\ Enqueue(k)
    /\ UNCHANGED <<report, minted, meterVars, legacy, workerVars>>

\* create_or_get_query_job, the query exists and has no report yet.  The
\* upsert of queries only touches updated_at; a job that is over restarts.
Resubmit(k) ==
    /\ query[k] # "none"
    /\ report[k] = "none"
    /\ job' = [job EXCEPT ![k] =
                 IF @ \in {"pending", "running"} THEN @ ELSE "pending"]
    /\ Enqueue(k)
    /\ UNCHANGED <<apiVars, report, minted, meterVars, workerVars>>

\* Mutant: the restart updates the job but never enqueues it.
RequeueWithoutRow(k) ==
    /\ report[k] # "none"
    /\ CachedReportAction(job[k], report[k]) = "requeue"
    /\ job' = [job EXCEPT ![k] = "pending"]
    /\ query' = [query EXCEPT ![k] = "pending"]
    /\ UNCHANGED <<queryUsed, outbox, report, minted, meterVars, legacy, workerVars>>

\* create_or_get_query_job, action "requeue".  "cache" and "wait" only read.
Requeue(k) ==
    /\ report[k] # "none"
    /\ CachedReportAction(job[k], report[k]) = "requeue"
    /\ job' = [job EXCEPT ![k] = "pending"]
    /\ query' = [query EXCEPT ![k] = "pending"]
    /\ Enqueue(k)
    /\ UNCHANGED <<queryUsed, report, minted, meterVars, legacy, workerVars>>

SubmitQuery(k) == CreateQuery(k) \/ Resubmit(k) \/ Requeue(k)

\* run_legacy_job is three autocommit statements.  First the conditional
\* update that takes the job (a job that is running or completed returns
\* early or answers 409).
LegacyClaimJob(k) ==
    /\ legacy[k] = "idle"
    /\ job[k] \in {"pending", "failed"}
    /\ job' = [job EXCEPT ![k] = "running"]
    /\ legacy' = [legacy EXCEPT ![k] = "marking"]
    /\ UNCHANGED <<query, queryUsed, report, outbox, minted, meterVars, workerVars>>

LegacyMarkQuery(k) ==
    /\ legacy[k] = "marking"
    /\ query' = [query EXCEPT ![k] = "running"]
    /\ legacy' = [legacy EXCEPT ![k] = "enqueueing"]
    /\ UNCHANGED <<queryUsed, job, report, outbox, minted, meterVars, workerVars>>

LegacyEnqueue(k) ==
    /\ legacy[k] = "enqueueing"
    /\ Enqueue(k)
    /\ legacy' = [legacy EXCEPT ![k] = "idle"]
    /\ UNCHANGED <<query, queryUsed, job, report, minted, meterVars, workerVars>>

\* The API process or its connection goes away between two statements.
LegacyAbort(k) ==
    /\ legacy[k] # "idle"
    /\ legacy' = [legacy EXCEPT ![k] = "idle"]
    /\ UNCHANGED <<query, queryUsed, job, report, outbox, minted, meterVars, workerVars>>

(***************************************************************************)
(* Time.                                                                   *)
(***************************************************************************)
LeaseExpires(k) ==
    /\ outbox[k].status = "running"
    /\ ~outbox[k].leaseOver
    /\ outbox' = [outbox EXCEPT ![k].leaseOver = TRUE]
    /\ UNCHANGED <<apiVars, job, report, minted, meterVars, workerVars>>

BackoffElapses(k) ==
    /\ outbox[k].status = "retryable"
    /\ ~outbox[k].due
    /\ outbox' = [outbox EXCEPT ![k].due = TRUE]
    /\ UNCHANGED <<apiVars, job, report, minted, meterVars, workerVars>>

(***************************************************************************)
(* The worker: process_once, run_generation_job, save_report,              *)
(* _consume_c_plus_report_quota, complete_claim and record_failure.        *)
(***************************************************************************)
\* Mutant: a row keeps its spent attempts from counting.
ClaimableForever(k) ==
    \/ outbox[k].status \in {"pending", "retryable"} /\ outbox[k].due
    \/ outbox[k].status = "running" /\ outbox[k].leaseOver

\* Mutant: a claim whose lease ran out is never taken over.
ClaimableDueOnly(k) ==
    /\ outbox[k].attempts < MaxAttempts
    /\ outbox[k].status \in {"pending", "retryable"}
    /\ outbox[k].due

\* The candidates of claim_sql.
Claimable(k) ==
    /\ outbox[k].attempts < MaxAttempts
    /\ \/ outbox[k].status \in {"pending", "retryable"} /\ outbox[k].due
       \/ outbox[k].status = "running" /\ outbox[k].leaseOver

\* Mutant: a replay keeps the token of the claim it replaces.
FreshTokenKept(k) ==
    IF outbox[k].token # NoToken THEN outbox[k].token ELSE minted[k] + 1

\* gen_random_uuid(): a token the row never had.
FreshToken(k) == minted[k] + 1

\* claim_next: one statement takes a claimable row.  "skip locked" may pass
\* over the oldest one, so any candidate can be taken.
ClaimNext(w) ==
    /\ pc[w] = "idle"
    /\ \E k \in Keys :
         /\ Claimable(k)
         /\ outbox' = [outbox EXCEPT ![k] =
                         [status    |-> "running",
                          attempts  |-> outbox[k].attempts + 1,
                          token     |-> FreshToken(k),
                          due       |-> TRUE,
                          leaseOver |-> FALSE]]
         /\ minted' = [minted EXCEPT ![k] = FreshToken(k)]
         /\ claim' = [claim EXCEPT ![w] =
                        [key |-> k, token |-> FreshToken(k),
                         attempts |-> outbox[k].attempts + 1]]
    /\ pc' = [pc EXCEPT ![w] = "claimed"]
    /\ UNCHANGED <<apiVars, job, report, meterVars, result>>

GoTo(w, from, to) == pc[w] = from /\ pc' = [pc EXCEPT ![w] = to]

MarkRunning(w) ==
    /\ GoTo(w, "claimed", "generating")
    /\ job' = [job EXCEPT ![claim[w].key] = "running"]
    /\ UNCHANGED <<apiVars, report, outbox, minted, meterVars, claim, result>>

\* match_snapshot found coverage or not (report_status_for_report).
Generate(w) ==
    /\ GoTo(w, "generating", "saving")
    /\ \E status \in ReportStatus \ {"none"} :
         result' = [result EXCEPT ![w] = status]
    /\ UNCHANGED <<apiVars, job, report, outbox, minted, meterVars, claim>>

\* save_report: an upsert, committed on its own and fenced by nothing.
SaveReport(w) ==
    /\ GoTo(w, "saving", "metering")
    /\ report' = [report EXCEPT ![claim[w].key] = result[w]]
    /\ UNCHANGED <<apiVars, job, outbox, minted, meterVars, claim, result>>

\* Mutant: the idempotency lookup is lost, every generation pays.
ConsumeAlways(k) ==
    /\ used < ReportLimit
    /\ metered' = metered \union {k}
    /\ used' = used + 1

\* Mutant: an exhausted allowance lets the report through unmetered.
ConsumeOrSkip(k) ==
    IF k \notin CPlusKeys \/ k \in metered \/ used >= ReportLimit
    THEN UNCHANGED meterVars
    ELSE /\ metered' = metered \union {k}
         /\ used' = used + 1

\* consume_current_entitlement with key and fingerprint "report:<key>", run
\* when the owner is a C Plus member: a prior row makes it a duplicate.
Consume(k) ==
    IF k \notin CPlusKeys \/ k \in metered
    THEN UNCHANGED meterVars
    ELSE /\ used < ReportLimit
         /\ metered' = metered \union {k}
         /\ used' = used + 1

ConsumeQuota(w) ==
    /\ GoTo(w, "metering", "finishQuery")
    /\ Consume(claim[w].key)
    /\ UNCHANGED <<apiVars, job, report, outbox, minted, claim, result>>

QuotaExceeded(w) ==
    /\ GoTo(w, "metering", "failQuery")
    /\ claim[w].key \in CPlusKeys \ metered
    /\ used >= ReportLimit
    /\ result' = [result EXCEPT ![w] = "permanent"]
    /\ UNCHANGED <<apiVars, job, report, outbox, minted, meterVars, claim>>

\* Mutant: the job's own completion is forgotten.
FinishQuerySkipsJob(w) ==
    /\ GoTo(w, "finishQuery", "completing")
    /\ query' = [query EXCEPT ![claim[w].key] = "completed"]
    /\ UNCHANGED <<queryUsed, legacy, job, report, outbox, minted, meterVars, claim, result>>

FinishQuery(w) ==
    /\ GoTo(w, "finishQuery", "finishJob")
    /\ query' = [query EXCEPT ![claim[w].key] = "completed"]
    /\ UNCHANGED <<queryUsed, legacy, job, report, outbox, minted, meterVars, claim, result>>

FinishJob(w) ==
    /\ GoTo(w, "finishJob", "completing")
    /\ job' = [job EXCEPT ![claim[w].key] = "completed"]
    /\ UNCHANGED <<apiVars, report, outbox, minted, meterVars, claim, result>>

\* A statement of the try block raises.  A lost connection, a timeout or
\* market_source_unavailable is retryable, anything else is permanent
\* (classify_failure).
GenerationRaises(w) ==
    /\ pc[w] \in Trying
    /\ pc' = [pc EXCEPT ![w] = "failQuery"]
    /\ \E failure \in Failures : result' = [result EXCEPT ![w] = failure]
    /\ UNCHANGED <<apiVars, job, report, outbox, minted, meterVars, claim>>

\* The except block of run_generation_job: two autocommit updates (the third
\* only touches reports in status 'generating', which nothing here writes).
FailQuery(w) ==
    /\ GoTo(w, "failQuery", "failJob")
    /\ query' = [query EXCEPT ![claim[w].key] = "failed"]
    /\ UNCHANGED <<queryUsed, legacy, job, report, outbox, minted, meterVars, claim, result>>

FailJob(w) ==
    /\ GoTo(w, "failJob", "recording")
    /\ job' = [job EXCEPT ![claim[w].key] = "failed"]
    /\ UNCHANGED <<apiVars, report, outbox, minted, meterVars, claim, result>>

\* The connection is lost outside the try block: the new exception is the
\* one process_once classifies.
HandlerRaises(w) ==
    /\ pc[w] \in {"claimed", "failQuery", "failJob"}
    /\ pc' = [pc EXCEPT ![w] = "recording"]
    /\ result' = [result EXCEPT ![w] = "retryable"]
    /\ UNCHANGED <<apiVars, job, report, outbox, minted, meterVars, claim>>

Release(w) ==
    /\ pc' = [pc EXCEPT ![w] = "idle"]
    /\ claim' = [claim EXCEPT ![w] = NoClaim]
    /\ result' = [result EXCEPT ![w] = "none"]

\* Mutant: the update matches the row by id alone.
HoldsRowById(w) == outbox[claim[w].key].status = "running"

\* where id=$1 and status='running' and claim_token=$2
HoldsRow(w) ==
    /\ outbox[claim[w].key].status = "running"
    /\ outbox[claim[w].key].token = claim[w].token

CompleteClaim(w) ==
    /\ pc[w] = "completing"
    /\ outbox' = IF HoldsRow(w)
                 THEN [outbox EXCEPT ![claim[w].key].status = "completed"]
                 ELSE outbox
    /\ Release(w)
    /\ UNCHANGED <<apiVars, job, report, minted, meterVars>>

\* Mutant: one retry too many is scheduled.
MayRetryOnce(w) == result[w] = "retryable" /\ claim[w].attempts <= MaxAttempts

MayRetry(w) == result[w] = "retryable" /\ claim[w].attempts < MaxAttempts

\* record_failure: one transaction.  The job and the query follow the row
\* only when the claim still owns it.
RecordFailure(w) ==
    LET k == claim[w].key IN
    /\ pc[w] = "recording"
    /\ IF HoldsRow(w)
       THEN /\ outbox' = [outbox EXCEPT
                            ![k].status = IF MayRetry(w) THEN "retryable" ELSE "failed",
                            ![k].due = ~MayRetry(w)]
            /\ job' = [job EXCEPT ![k] = IF MayRetry(w) THEN "pending" ELSE "failed"]
            /\ query' = [query EXCEPT ![k] = IF MayRetry(w) THEN "pending" ELSE "failed"]
       ELSE UNCHANGED <<outbox, job, query>>
    /\ Release(w)
    /\ UNCHANGED <<queryUsed, legacy, report, minted, meterVars>>

\* The process dies (or complete_claim or record_failure raises, which ends
\* run_worker) and is restarted with nothing in memory.
Crash(w) ==
    /\ pc[w] # "idle"
    /\ Release(w)
    /\ UNCHANGED <<apiVars, job, report, outbox, minted, meterVars>>

(***************************************************************************)
(* The system.                                                             *)
(***************************************************************************)
WorkerStep(w) ==
    \/ ClaimNext(w) \/ MarkRunning(w) \/ Generate(w) \/ SaveReport(w)
    \/ ConsumeQuota(w) \/ QuotaExceeded(w) \/ FinishQuery(w) \/ FinishJob(w)
    \/ FailQuery(w) \/ FailJob(w) \/ CompleteClaim(w) \/ RecordFailure(w)

WorkerFault(w) == GenerationRaises(w) \/ HandlerRaises(w) \/ Crash(w)

LegacyRequest(k) ==
    \/ LegacyClaimJob(k) \/ LegacyMarkQuery(k)
    \/ LegacyEnqueue(k) \/ LegacyAbort(k)

TimePasses(k) == LeaseExpires(k) \/ BackoffElapses(k)

Next ==
    \/ \E k \in Keys : SubmitQuery(k) \/ LegacyRequest(k) \/ TimePasses(k)
    \/ \E w \in Workers : WorkerStep(w) \/ WorkerFault(w)

Spec == Init /\ [][Next]_vars

\* A worker loops for as long as it runs, and time goes on.  Faults and
\* requests are never forced.
Fairness ==
    /\ \A w \in Workers : WF_vars(WorkerStep(w))
    /\ \A k \in Keys : WF_vars(TimePasses(k))

FairSpec == Spec /\ Fairness

(***************************************************************************)
(* Reading a report (_has_report_unlock): the C Plus allowance has a unit  *)
(* left, or the ledger has an event with the fingerprint the reader looks  *)
(* for.  Consume writes the fingerprint "report:<key>".  No key here has a *)
(* paid single-report order.                                               *)
(***************************************************************************)
EventFingerprints == {<<"report", k>> : k \in metered}

HasReportUnlock(k) ==
    \/ k \in CPlusKeys /\ used < ReportLimit
    \/ <<"c-plus-report", k>> \in EventFingerprints

(***************************************************************************)
(* Properties.                                                             *)
(***************************************************************************)
\* Every variable stays within its type; a row never counts more attempts
\* than its max_attempts (claim_sql), and a worker has a claim exactly while
\* it is busy.
TypeOK ==
    /\ query \in [Keys -> JobStatus]
    /\ queryUsed \in 0..QueryLimit
    /\ job \in [Keys -> JobStatus]
    /\ report \in [Keys -> ReportStatus]
    /\ outbox \in [Keys -> Row]
    /\ minted \in [Keys -> Nat]
    /\ metered \subseteq CPlusKeys
    /\ used \in 0..ReportLimit
    /\ legacy \in [Keys -> {"idle", "marking", "enqueueing"}]
    /\ pc \in [Workers -> Busy \union {"idle"}]
    /\ claim \in [Workers -> Claim \union {NoClaim}]
    /\ result \in [Workers -> (ReportStatus \union Failures)]
    /\ \A w \in Workers : pc[w] # "idle" <=> claim[w] \in Claim

\* No two workers ever hold the same claim of a row, whatever leases expire
\* and whatever re-enqueues reset: claim_sql writes a new token each time.
ClaimsDistinct ==
    \A v, w \in Workers :
        v # w /\ pc[v] # "idle" /\ pc[w] # "idle" /\ claim[v].key = claim[w].key
        => claim[v].token # claim[w].token

\* Work that is over is delivered and paid for: a completed job or outbox row
\* has a saved report, and the allowance was charged if its owner is C Plus.
CompletedIsPaidFor ==
    \A k \in Keys :
        job[k] = "completed" \/ outbox[k].status = "completed"
        => /\ report[k] # "none"
           /\ k \in CPlusKeys => k \in metered

\* However often a report is generated again (retries, replays of expired
\* leases, re-enqueues), its key costs one unit, and resubmitting a query
\* costs nothing.
MetersExact ==
    /\ used = Cardinality(metered)
    /\ queryUsed = Cardinality({k \in Keys : query[k] # "none"})

\* A retryable row always has an attempt left, so the claim that would pick
\* it up is possible: the attempts of the claim record_failure decides on
\* are those of the row.
RetryHasBudget ==
    \A k \in Keys : outbox[k].status = "retryable" => outbox[k].attempts < MaxAttempts

\* A job shown as pending has a queue row that is not given up: a restart and
\* its enqueue, and a failure and its job update, go together.
PendingJobHasRow ==
    \A k \in Keys : job[k] = "pending" => outbox[k].status \notin {"none", "failed"}

\* An outbox row leaves "running" for a final or retry status only in the
\* step of the worker whose claim is current; a stale worker changes nothing.
FencedFinish ==
    [][\A k \in Keys :
         /\ outbox[k].status = "running"
         /\ outbox'[k].status \in {"completed", "retryable", "failed"}
         => \E w \in Workers : /\ claim[w] = [key      |-> k,
                                              token    |-> minted[k],
                                              attempts |-> outbox[k].attempts]
                               /\ pc'[w] = "idle"]_vars

\* A completed row is never claimed, reset or failed again.
CompletedIsFinal ==
    [][\A k \in Keys :
         outbox[k].status = "completed"
         => /\ outbox'[k].status = "completed"
            /\ outbox'[k].attempts = outbox[k].attempts]_vars

\* A row completed by its first claim means a completed job: with the single
\* report-worker of the deployment, whose leases no other worker takes over,
\* no stale worker can mark the job failed afterwards.
CompletedJobAgrees ==
    \A k \in Keys :
        outbox[k].status = "completed" /\ minted[k] = 1 => job[k] = "completed"

\* Claims, attempts, rows, reports and charges agree at every moment, whatever
\* crashes, lost leases, restarts and retries come between the commits.
WorkIsAccounted ==
    /\ TypeOK
    /\ ClaimsDistinct
    /\ RetryHasBudget
    /\ PendingJobHasRow
    /\ CompletedIsPaidFor
    /\ MetersExact
    /\ CompletedJobAgrees

\* Every open row with attempts left is resolved: it ends, or its attempts
\* are used up.  No crash, lost lease or re-enqueue leaves it lying.
OpenRowsResolve ==
    \A k \in Keys :
        (outbox[k].status \in OpenStatus /\ outbox[k].attempts < MaxAttempts)
        ~> (outbox[k].status \notin OpenStatus \/ outbox[k].attempts = MaxAttempts)

(***************************************************************************)
(* What the repository's documents say and the code does not do.           *)
(***************************************************************************)
\* docs/architecture/2026-09-11-system-architecture-and-logic.md: a report
\* generated under the subscription stays unlocked when the allowance is
\* used up afterwards.
MeteredStaysUnlocked ==
    \A k \in metered : report[k] = "full_report" => HasReportUnlock(k)

(***************************************************************************)
(* The inductive invariant behind the safety properties.                   *)
(***************************************************************************)
\* The rows of a key come into being together, and nobody works on a key
\* without them.
RowsExist ==
    /\ \A k \in Keys : /\ query[k] # "none" <=> outbox[k].status # "none"
                       /\ job[k] # "none" => query[k] # "none"
                       /\ legacy[k] # "idle" => query[k] # "none"
    /\ \A w \in Workers : pc[w] # "idle" => outbox[claim[w].key].status # "none"

\* The newest token of a row is the one of its running claim; the claim with
\* the newest token knows the row's attempts.
TokensFresh ==
    /\ \A k \in Keys : outbox[k].status = "running" => outbox[k].token = minted[k]
    /\ \A w \in Workers :
         pc[w] # "idle" =>
            /\ claim[w].token <= minted[claim[w].key]
            /\ claim[w].token = minted[claim[w].key]
               => claim[w].attempts = outbox[claim[w].key].attempts

\* How far a worker has come tells what is on record for its key.
ProgressRecorded ==
    \A w \in Workers :
        /\ pc[w] = "saving" => result[w] \in ReportStatus \ {"none"}
        /\ pc[w] \in {"metering", "finishQuery", "finishJob", "completing"}
           => report[claim[w].key] # "none"
        /\ pc[w] \in {"finishQuery", "finishJob", "completing"}
           => (claim[w].key \in CPlusKeys => claim[w].key \in metered)

\* A row that was claimed once: who completes it has completed the job, and
\* nobody works on it afterwards.
FirstClaimFinishes ==
    \A k \in Keys : minted[k] = 1 =>
        /\ \A w \in Workers :
             pc[w] = "completing" /\ claim[w].key = k => job[k] = "completed"
        /\ outbox[k].status = "completed" =>
             /\ job[k] = "completed"
             /\ \A w \in Workers : pc[w] # "idle" => claim[w].key # k

IInv ==
    /\ TypeOK
    /\ RowsExist
    /\ TokensFresh /\ ClaimsDistinct
    /\ ProgressRecorded /\ CompletedIsPaidFor
    /\ MetersExact
    /\ RetryHasBudget
    /\ PendingJobHasRow
    /\ FirstClaimFinishes

(***************************************************************************)
(* The pipeline keeps the promises of ReportContract.                      *)
(***************************************************************************)
Phase == [k \in Keys |->
            CASE outbox[k].status = "none"      -> "new"
              [] outbox[k].status \in OpenStatus -> "open"
              [] OTHER                          -> outbox[k].status]

Delivered == {k \in Keys : report[k] # "none"}

Contract == INSTANCE ReportContract WITH
    phase <- Phase, delivered <- Delivered, charged <- metered, spent <- used

\* Refinement: each pipeline step is a contract step or changes nothing there.
ImplementsContract == Contract!ContractSpec
=============================================================================
