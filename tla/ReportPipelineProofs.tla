------------------------ MODULE ReportPipelineProofs ------------------------
(***************************************************************************)
(* Proofs about ReportPipeline: the inductive invariant, the safety        *)
(* properties it implies and the implementation of ReportContract.         *)
(***************************************************************************)
EXTENDS ReportPipeline, FiniteSetTheorems, TLAPS

\* What record_failure does, with the row's update spelled out field by field.
RecordEffect(w, k) ==
    /\ k \in Keys
    /\ claim[w] \in Claim /\ claim[w].key = k
    /\ pc[w] = "recording"
    /\ outbox' \in [Keys -> Row]
    /\ \A j \in Keys : j # k => outbox'[j] = outbox[j]
    /\ outbox'[k].attempts = outbox[k].attempts
    /\ outbox'[k].token = outbox[k].token
    /\ HoldsRow(w) =>
         \E again \in BOOLEAN :
            /\ again => claim[w].attempts < MaxAttempts
            /\ outbox'[k].status = IF again THEN "retryable" ELSE "failed"
            /\ job' = [job EXCEPT ![k] = IF again THEN "pending" ELSE "failed"]
            /\ query' = [query EXCEPT ![k] = IF again THEN "pending" ELSE "failed"]
    /\ ~HoldsRow(w) => UNCHANGED <<outbox, job, query>>
    /\ Release(w)
    /\ UNCHANGED <<queryUsed, legacy, report, minted, metered, used>>

LEMMA RecordFailureEffect ==
  ASSUME TypeOK, NEW w \in Workers, RecordFailure(w)
  PROVE  RecordEffect(w, claim[w].key)
<1> DEFINE k == claim[w].key
<1>1. k \in Keys /\ claim[w] \in Claim
  BY DEF TypeOK, Claim, NoClaim, RecordFailure
<1>2. outbox[k] \in Row /\ outbox \in [Keys -> Row]
  BY <1>1 DEF TypeOK
<1>3. CASE HoldsRow(w)
  <2> DEFINE row == [outbox[k] EXCEPT
                       !.status = IF MayRetry(w) THEN "retryable" ELSE "failed",
                       !.due = ~MayRetry(w)]
  <2>1. MayRetry(w) \in BOOLEAN /\ (MayRetry(w) => claim[w].attempts < MaxAttempts)
    BY DEF MayRetry
  <2>2. /\ row \in Row
        /\ row.attempts = outbox[k].attempts
        /\ row.token = outbox[k].token
        /\ row.status = IF MayRetry(w) THEN "retryable" ELSE "failed"
    BY <1>2, <2>1 DEF Row, RowStatus
  <2>3. outbox' = [outbox EXCEPT ![k] = row]
    BY <1>2, <1>3 DEF RecordFailure
  <2> HIDE DEF row
  <2>4. /\ outbox' \in [Keys -> Row] /\ outbox'[k] = row
        /\ \A j \in Keys : j # k => outbox'[j] = outbox[j]
    BY <1>1, <1>2, <2>2, <2>3
  <2>5. QED
    BY <1>1, <1>3, <2>1, <2>2, <2>4 DEF RecordEffect, RecordFailure, apiVars, meterVars
<1>4. CASE ~HoldsRow(w)
  BY <1>1, <1>2, <1>4 DEF RecordEffect, RecordFailure, apiVars, meterVars
<1>5. QED
  BY <1>3, <1>4

\* Every step keeps the types.
LEMMA TypeStep ==
  ASSUME TypeOK, ProgressRecorded, [Next]_vars
  PROVE  TypeOK'
<1> USE ConstantsAssumption DEF TypeOK, Row, Claim, NoClaim, NoToken,
                                JobStatus, ReportStatus, RowStatus,
                                OpenStatus, Failures, Busy, Trying
<1>1. ASSUME NEW k \in Keys, CreateQuery(k) PROVE TypeOK'
  BY <1>1 DEF CreateQuery, Enqueue, RequeuedStatus, apiVars, meterVars,
              workerVars
<1>2. ASSUME NEW k \in Keys, Resubmit(k) PROVE TypeOK'
  BY <1>2 DEF Resubmit, Enqueue, RequeuedStatus, apiVars, meterVars,
              workerVars
<1>3. ASSUME NEW k \in Keys, Requeue(k) PROVE TypeOK'
  BY <1>3 DEF Requeue, Enqueue, RequeuedStatus, CachedReportAction, apiVars,
              meterVars, workerVars
<1>4. ASSUME NEW k \in Keys, LegacyClaimJob(k) PROVE TypeOK'
  BY <1>4 DEF LegacyClaimJob, apiVars, meterVars, workerVars
<1>5. ASSUME NEW k \in Keys, LegacyMarkQuery(k) PROVE TypeOK'
  BY <1>5 DEF LegacyMarkQuery, apiVars, meterVars, workerVars
<1>6. ASSUME NEW k \in Keys, LegacyEnqueue(k) PROVE TypeOK'
  BY <1>6 DEF LegacyEnqueue, Enqueue, RequeuedStatus, apiVars, meterVars,
              workerVars
<1>7. ASSUME NEW k \in Keys, LegacyAbort(k) PROVE TypeOK'
  BY <1>7 DEF LegacyAbort, apiVars, meterVars, workerVars
<1>8. ASSUME NEW k \in Keys, LeaseExpires(k) PROVE TypeOK'
  <2>0. outbox[k] \in Row
    OBVIOUS
  <2>1. [outbox[k] EXCEPT !.leaseOver = TRUE] \in Row
    BY <2>0
  <2>2. outbox' \in [Keys -> Row]
    BY <1>8, <2>1 DEF LeaseExpires
  <2>3. QED
    BY <1>8, <2>2 DEF LeaseExpires, apiVars, meterVars, workerVars
<1>9. ASSUME NEW k \in Keys, BackoffElapses(k) PROVE TypeOK'
  <2>0. outbox[k] \in Row
    OBVIOUS
  <2>1. [outbox[k] EXCEPT !.due = TRUE] \in Row
    BY <2>0
  <2>2. outbox' \in [Keys -> Row]
    BY <1>9, <2>1 DEF BackoffElapses
  <2>3. QED
    BY <1>9, <2>2 DEF BackoffElapses, apiVars, meterVars, workerVars
<1>10. ASSUME NEW w \in Workers, ClaimNext(w) PROVE TypeOK'
  BY <1>10 DEF ClaimNext, Claimable, FreshToken, apiVars, meterVars,
               workerVars
<1>11. ASSUME NEW w \in Workers, MarkRunning(w) PROVE TypeOK'
  BY <1>11 DEF MarkRunning, GoTo, apiVars, meterVars, workerVars
<1>12. ASSUME NEW w \in Workers, Generate(w) PROVE TypeOK'
  BY <1>12 DEF Generate, GoTo, apiVars, meterVars, workerVars
<1>13. ASSUME NEW w \in Workers, SaveReport(w) PROVE TypeOK'
  BY <1>13 DEF ProgressRecorded, SaveReport, GoTo, apiVars, meterVars, workerVars
<1>14. ASSUME NEW w \in Workers, ConsumeQuota(w) PROVE TypeOK'
  BY <1>14 DEF ConsumeQuota, GoTo, Consume, apiVars, meterVars, workerVars
<1>15. ASSUME NEW w \in Workers, QuotaExceeded(w) PROVE TypeOK'
  BY <1>15 DEF QuotaExceeded, GoTo, apiVars, meterVars, workerVars
<1>16. ASSUME NEW w \in Workers, FinishQuery(w) PROVE TypeOK'
  BY <1>16 DEF FinishQuery, GoTo, apiVars, meterVars, workerVars
<1>17. ASSUME NEW w \in Workers, FinishJob(w) PROVE TypeOK'
  BY <1>17 DEF FinishJob, GoTo, apiVars, meterVars, workerVars
<1>18. ASSUME NEW w \in Workers, FailQuery(w) PROVE TypeOK'
  BY <1>18 DEF FailQuery, GoTo, apiVars, meterVars, workerVars
<1>19. ASSUME NEW w \in Workers, FailJob(w) PROVE TypeOK'
  BY <1>19 DEF FailJob, GoTo, apiVars, meterVars, workerVars
<1>20. ASSUME NEW w \in Workers, CompleteClaim(w) PROVE TypeOK'
  BY <1>20 DEF CompleteClaim, Release, HoldsRow, apiVars, meterVars,
               workerVars
<1>21. ASSUME NEW w \in Workers, RecordFailure(w) PROVE TypeOK'
  <2> HIDE DEF TypeOK
  <2>1. RecordEffect(w, claim[w].key)
    BY <1>21, RecordFailureEffect
  <2>2. QED
    BY <2>1 DEF TypeOK, RecordEffect, Release, HoldsRow
<1>22. ASSUME NEW w \in Workers, GenerationRaises(w) PROVE TypeOK'
  BY <1>22 DEF GenerationRaises, apiVars, meterVars, workerVars
<1>23. ASSUME NEW w \in Workers, HandlerRaises(w) PROVE TypeOK'
  BY <1>23 DEF HandlerRaises, apiVars, meterVars, workerVars
<1>24. ASSUME NEW w \in Workers, Crash(w) PROVE TypeOK'
  BY <1>24 DEF Crash, Release, apiVars, meterVars, workerVars
<1>25. CASE UNCHANGED vars
  BY <1>25 DEF vars, apiVars, meterVars, workerVars
<1>26. QED
  BY <1>1, <1>2, <1>3, <1>4, <1>5, <1>6, <1>7, <1>8, <1>9, <1>10, <1>11,
     <1>12, <1>13, <1>14, <1>15, <1>16, <1>17, <1>18, <1>19, <1>20, <1>21,
     <1>22, <1>23, <1>24, <1>25
     DEF Next, SubmitQuery, LegacyRequest, TimePasses, WorkerStep, WorkerFault

\* The rows of a key stay together.
LEMMA RowsStep ==
  ASSUME TypeOK, RowsExist, [Next]_vars
  PROVE  RowsExist'
<1> USE ConstantsAssumption DEF TypeOK, Row, Claim, NoClaim, NoToken,
                                JobStatus, ReportStatus, RowStatus,
                                OpenStatus, Failures, Busy, Trying, RowsExist
<1>1. ASSUME NEW k \in Keys, CreateQuery(k) PROVE RowsExist'
  BY <1>1 DEF CreateQuery, Enqueue, RequeuedStatus, apiVars, meterVars,
              workerVars
<1>2. ASSUME NEW k \in Keys, Resubmit(k) PROVE RowsExist'
  BY <1>2 DEF Resubmit, Enqueue, RequeuedStatus, apiVars, meterVars,
              workerVars
<1>3. ASSUME NEW k \in Keys, Requeue(k) PROVE RowsExist'
  BY <1>3 DEF Requeue, Enqueue, RequeuedStatus, CachedReportAction, apiVars,
              meterVars, workerVars
<1>4. ASSUME NEW k \in Keys, LegacyClaimJob(k) PROVE RowsExist'
  BY <1>4 DEF LegacyClaimJob, apiVars, meterVars, workerVars
<1>5. ASSUME NEW k \in Keys, LegacyMarkQuery(k) PROVE RowsExist'
  BY <1>5 DEF LegacyMarkQuery, apiVars, meterVars, workerVars
<1>6. ASSUME NEW k \in Keys, LegacyEnqueue(k) PROVE RowsExist'
  BY <1>6 DEF LegacyEnqueue, Enqueue, RequeuedStatus, apiVars, meterVars,
              workerVars
<1>7. ASSUME NEW k \in Keys, LegacyAbort(k) PROVE RowsExist'
  BY <1>7 DEF LegacyAbort, apiVars, meterVars, workerVars
<1>8. ASSUME NEW k \in Keys, LeaseExpires(k) PROVE RowsExist'
  BY <1>8 DEF LeaseExpires, apiVars, meterVars, workerVars
<1>9. ASSUME NEW k \in Keys, BackoffElapses(k) PROVE RowsExist'
  BY <1>9 DEF BackoffElapses, apiVars, meterVars, workerVars
<1>10. ASSUME NEW w \in Workers, ClaimNext(w) PROVE RowsExist'
  BY <1>10 DEF ClaimNext, Claimable, FreshToken, apiVars, meterVars,
               workerVars
<1>11. ASSUME NEW w \in Workers, MarkRunning(w) PROVE RowsExist'
  BY <1>11 DEF MarkRunning, GoTo, apiVars, meterVars, workerVars
<1>12. ASSUME NEW w \in Workers, Generate(w) PROVE RowsExist'
  BY <1>12 DEF Generate, GoTo, apiVars, meterVars, workerVars
<1>13. ASSUME NEW w \in Workers, SaveReport(w) PROVE RowsExist'
  BY <1>13 DEF SaveReport, GoTo, apiVars, meterVars, workerVars
<1>14. ASSUME NEW w \in Workers, ConsumeQuota(w) PROVE RowsExist'
  BY <1>14 DEF ConsumeQuota, GoTo, Consume, apiVars, meterVars, workerVars
<1>15. ASSUME NEW w \in Workers, QuotaExceeded(w) PROVE RowsExist'
  BY <1>15 DEF QuotaExceeded, GoTo, apiVars, meterVars, workerVars
<1>16. ASSUME NEW w \in Workers, FinishQuery(w) PROVE RowsExist'
  BY <1>16 DEF FinishQuery, GoTo, apiVars, meterVars, workerVars
<1>17. ASSUME NEW w \in Workers, FinishJob(w) PROVE RowsExist'
  BY <1>17 DEF FinishJob, GoTo, apiVars, meterVars, workerVars
<1>18. ASSUME NEW w \in Workers, FailQuery(w) PROVE RowsExist'
  BY <1>18 DEF FailQuery, GoTo, apiVars, meterVars, workerVars
<1>19. ASSUME NEW w \in Workers, FailJob(w) PROVE RowsExist'
  BY <1>19 DEF FailJob, GoTo, apiVars, meterVars, workerVars
<1>20. ASSUME NEW w \in Workers, CompleteClaim(w) PROVE RowsExist'
  BY <1>20 DEF CompleteClaim, Release, HoldsRow, apiVars, meterVars,
               workerVars
<1>21. ASSUME NEW w \in Workers, RecordFailure(w) PROVE RowsExist'
  <2> HIDE DEF TypeOK
  <2>1. RecordEffect(w, claim[w].key)
    BY <1>21, RecordFailureEffect
  <2>2. QED
    BY <2>1 DEF TypeOK, RecordEffect, Release, HoldsRow
<1>22. ASSUME NEW w \in Workers, GenerationRaises(w) PROVE RowsExist'
  BY <1>22 DEF GenerationRaises, apiVars, meterVars, workerVars
<1>23. ASSUME NEW w \in Workers, HandlerRaises(w) PROVE RowsExist'
  BY <1>23 DEF HandlerRaises, apiVars, meterVars, workerVars
<1>24. ASSUME NEW w \in Workers, Crash(w) PROVE RowsExist'
  BY <1>24 DEF Crash, Release, apiVars, meterVars, workerVars
<1>25. CASE UNCHANGED vars
  BY <1>25 DEF vars, apiVars, meterVars, workerVars
<1>26. QED
  BY <1>1, <1>2, <1>3, <1>4, <1>5, <1>6, <1>7, <1>8, <1>9, <1>10, <1>11,
     <1>12, <1>13, <1>14, <1>15, <1>16, <1>17, <1>18, <1>19, <1>20, <1>21,
     <1>22, <1>23, <1>24, <1>25
     DEF Next, SubmitQuery, LegacyRequest, TimePasses, WorkerStep, WorkerFault

\* Tokens stay fresh and claims distinct.
LEMMA TokensStep ==
  ASSUME TypeOK, TokensFresh, ClaimsDistinct, [Next]_vars
  PROVE  TokensFresh' /\ ClaimsDistinct'
<1> USE ConstantsAssumption DEF TypeOK, Row, Claim, NoClaim, NoToken,
                                JobStatus, ReportStatus, RowStatus,
                                OpenStatus, Failures, Busy, Trying,
                                TokensFresh, ClaimsDistinct
<1>1. ASSUME NEW k \in Keys, CreateQuery(k) PROVE TokensFresh' /\ ClaimsDistinct'
  BY <1>1 DEF CreateQuery, Enqueue, RequeuedStatus, apiVars, meterVars,
              workerVars
<1>2. ASSUME NEW k \in Keys, Resubmit(k) PROVE TokensFresh' /\ ClaimsDistinct'
  BY <1>2 DEF Resubmit, Enqueue, RequeuedStatus, apiVars, meterVars,
              workerVars
<1>3. ASSUME NEW k \in Keys, Requeue(k) PROVE TokensFresh' /\ ClaimsDistinct'
  BY <1>3 DEF Requeue, Enqueue, RequeuedStatus, CachedReportAction, apiVars,
              meterVars, workerVars
<1>4. ASSUME NEW k \in Keys, LegacyClaimJob(k) PROVE TokensFresh' /\ ClaimsDistinct'
  BY <1>4 DEF LegacyClaimJob, apiVars, meterVars, workerVars
<1>5. ASSUME NEW k \in Keys, LegacyMarkQuery(k) PROVE TokensFresh' /\ ClaimsDistinct'
  BY <1>5 DEF LegacyMarkQuery, apiVars, meterVars, workerVars
<1>6. ASSUME NEW k \in Keys, LegacyEnqueue(k) PROVE TokensFresh' /\ ClaimsDistinct'
  BY <1>6 DEF LegacyEnqueue, Enqueue, RequeuedStatus, apiVars, meterVars,
              workerVars
<1>7. ASSUME NEW k \in Keys, LegacyAbort(k) PROVE TokensFresh' /\ ClaimsDistinct'
  BY <1>7 DEF LegacyAbort, apiVars, meterVars, workerVars
<1>8. ASSUME NEW k \in Keys, LeaseExpires(k) PROVE TokensFresh' /\ ClaimsDistinct'
  BY <1>8 DEF LeaseExpires, apiVars, meterVars, workerVars
<1>9. ASSUME NEW k \in Keys, BackoffElapses(k) PROVE TokensFresh' /\ ClaimsDistinct'
  BY <1>9 DEF BackoffElapses, apiVars, meterVars, workerVars
<1>10. ASSUME NEW w \in Workers, ClaimNext(w) PROVE TokensFresh' /\ ClaimsDistinct'
  BY <1>10 DEF ClaimNext, Claimable, FreshToken, apiVars, meterVars,
               workerVars
<1>11. ASSUME NEW w \in Workers, MarkRunning(w) PROVE TokensFresh' /\ ClaimsDistinct'
  BY <1>11 DEF MarkRunning, GoTo, apiVars, meterVars, workerVars
<1>12. ASSUME NEW w \in Workers, Generate(w) PROVE TokensFresh' /\ ClaimsDistinct'
  BY <1>12 DEF Generate, GoTo, apiVars, meterVars, workerVars
<1>13. ASSUME NEW w \in Workers, SaveReport(w) PROVE TokensFresh' /\ ClaimsDistinct'
  BY <1>13 DEF SaveReport, GoTo, apiVars, meterVars, workerVars
<1>14. ASSUME NEW w \in Workers, ConsumeQuota(w) PROVE TokensFresh' /\ ClaimsDistinct'
  BY <1>14 DEF ConsumeQuota, GoTo, Consume, apiVars, meterVars, workerVars
<1>15. ASSUME NEW w \in Workers, QuotaExceeded(w) PROVE TokensFresh' /\ ClaimsDistinct'
  BY <1>15 DEF QuotaExceeded, GoTo, apiVars, meterVars, workerVars
<1>16. ASSUME NEW w \in Workers, FinishQuery(w) PROVE TokensFresh' /\ ClaimsDistinct'
  BY <1>16 DEF FinishQuery, GoTo, apiVars, meterVars, workerVars
<1>17. ASSUME NEW w \in Workers, FinishJob(w) PROVE TokensFresh' /\ ClaimsDistinct'
  BY <1>17 DEF FinishJob, GoTo, apiVars, meterVars, workerVars
<1>18. ASSUME NEW w \in Workers, FailQuery(w) PROVE TokensFresh' /\ ClaimsDistinct'
  BY <1>18 DEF FailQuery, GoTo, apiVars, meterVars, workerVars
<1>19. ASSUME NEW w \in Workers, FailJob(w) PROVE TokensFresh' /\ ClaimsDistinct'
  BY <1>19 DEF FailJob, GoTo, apiVars, meterVars, workerVars
<1>20. ASSUME NEW w \in Workers, CompleteClaim(w) PROVE TokensFresh' /\ ClaimsDistinct'
  BY <1>20 DEF CompleteClaim, Release, HoldsRow, apiVars, meterVars,
               workerVars
<1>21. ASSUME NEW w \in Workers, RecordFailure(w) PROVE TokensFresh' /\ ClaimsDistinct'
  <2> HIDE DEF TypeOK, TokensFresh, ClaimsDistinct
  <2> DEFINE k == claim[w].key
  <2>1. RecordEffect(w, k)
    BY <1>21, RecordFailureEffect
  <2>2. /\ \A j \in Keys : /\ outbox'[j].attempts = outbox[j].attempts
                           /\ outbox'[j].token = outbox[j].token
                           /\ outbox'[j].status = "running" => outbox[j].status = "running"
        /\ pc'[w] = "idle" /\ UNCHANGED minted
        /\ \A v \in Workers : v # w => claim'[v] = claim[v] /\ pc'[v] = pc[v]
    BY <2>1 DEF TypeOK, RecordEffect, Release, HoldsRow
  <2>3. TokensFresh'
    <3>1. /\ \A v \in Workers : pc[v] # "idle" => claim[v].key \in Keys
          /\ w \in Workers
      BY DEF TypeOK, Claim
    <3>2. QED
      BY <2>2, <3>1 DEF TokensFresh
  <2>4. ClaimsDistinct'
    BY <2>2 DEF ClaimsDistinct
  <2>5. QED
    BY <2>3, <2>4
<1>22. ASSUME NEW w \in Workers, GenerationRaises(w) PROVE TokensFresh' /\ ClaimsDistinct'
  BY <1>22 DEF GenerationRaises, apiVars, meterVars, workerVars
<1>23. ASSUME NEW w \in Workers, HandlerRaises(w) PROVE TokensFresh' /\ ClaimsDistinct'
  BY <1>23 DEF HandlerRaises, apiVars, meterVars, workerVars
<1>24. ASSUME NEW w \in Workers, Crash(w) PROVE TokensFresh' /\ ClaimsDistinct'
  BY <1>24 DEF Crash, Release, apiVars, meterVars, workerVars
<1>25. CASE UNCHANGED vars
  BY <1>25 DEF vars, apiVars, meterVars, workerVars
<1>26. QED
  BY <1>1, <1>2, <1>3, <1>4, <1>5, <1>6, <1>7, <1>8, <1>9, <1>10, <1>11,
     <1>12, <1>13, <1>14, <1>15, <1>16, <1>17, <1>18, <1>19, <1>20, <1>21,
     <1>22, <1>23, <1>24, <1>25
     DEF Next, SubmitQuery, LegacyRequest, TimePasses, WorkerStep, WorkerFault

\* What is on record for a worker's key, and for completed work, stays.
LEMMA ProgressStep ==
  ASSUME TypeOK, ProgressRecorded, CompletedIsPaidFor, [Next]_vars
  PROVE  ProgressRecorded' /\ CompletedIsPaidFor'
<1> USE ConstantsAssumption DEF TypeOK, Row, Claim, NoClaim, NoToken,
                                JobStatus, ReportStatus, RowStatus,
                                OpenStatus, Failures, Busy, Trying,
                                ProgressRecorded, CompletedIsPaidFor
<1>1. ASSUME NEW k \in Keys, CreateQuery(k) PROVE ProgressRecorded' /\ CompletedIsPaidFor'
  BY <1>1 DEF CreateQuery, Enqueue, RequeuedStatus, apiVars, meterVars,
              workerVars
<1>2. ASSUME NEW k \in Keys, Resubmit(k) PROVE ProgressRecorded' /\ CompletedIsPaidFor'
  BY <1>2 DEF Resubmit, Enqueue, RequeuedStatus, apiVars, meterVars,
              workerVars
<1>3. ASSUME NEW k \in Keys, Requeue(k) PROVE ProgressRecorded' /\ CompletedIsPaidFor'
  BY <1>3 DEF Requeue, Enqueue, RequeuedStatus, CachedReportAction, apiVars,
              meterVars, workerVars
<1>4. ASSUME NEW k \in Keys, LegacyClaimJob(k) PROVE ProgressRecorded' /\ CompletedIsPaidFor'
  BY <1>4 DEF LegacyClaimJob, apiVars, meterVars, workerVars
<1>5. ASSUME NEW k \in Keys, LegacyMarkQuery(k) PROVE ProgressRecorded' /\ CompletedIsPaidFor'
  BY <1>5 DEF LegacyMarkQuery, apiVars, meterVars, workerVars
<1>6. ASSUME NEW k \in Keys, LegacyEnqueue(k) PROVE ProgressRecorded' /\ CompletedIsPaidFor'
  BY <1>6 DEF LegacyEnqueue, Enqueue, RequeuedStatus, apiVars, meterVars,
              workerVars
<1>7. ASSUME NEW k \in Keys, LegacyAbort(k) PROVE ProgressRecorded' /\ CompletedIsPaidFor'
  BY <1>7 DEF LegacyAbort, apiVars, meterVars, workerVars
<1>8. ASSUME NEW k \in Keys, LeaseExpires(k) PROVE ProgressRecorded' /\ CompletedIsPaidFor'
  BY <1>8 DEF LeaseExpires, apiVars, meterVars, workerVars
<1>9. ASSUME NEW k \in Keys, BackoffElapses(k) PROVE ProgressRecorded' /\ CompletedIsPaidFor'
  BY <1>9 DEF BackoffElapses, apiVars, meterVars, workerVars
<1>10. ASSUME NEW w \in Workers, ClaimNext(w) PROVE ProgressRecorded' /\ CompletedIsPaidFor'
  BY <1>10 DEF ClaimNext, Claimable, FreshToken, apiVars, meterVars,
               workerVars
<1>11. ASSUME NEW w \in Workers, MarkRunning(w) PROVE ProgressRecorded' /\ CompletedIsPaidFor'
  BY <1>11 DEF MarkRunning, GoTo, apiVars, meterVars, workerVars
<1>12. ASSUME NEW w \in Workers, Generate(w) PROVE ProgressRecorded' /\ CompletedIsPaidFor'
  BY <1>12 DEF Generate, GoTo, apiVars, meterVars, workerVars
<1>13. ASSUME NEW w \in Workers, SaveReport(w) PROVE ProgressRecorded' /\ CompletedIsPaidFor'
  BY <1>13 DEF SaveReport, GoTo, apiVars, meterVars, workerVars
<1>14. ASSUME NEW w \in Workers, ConsumeQuota(w) PROVE ProgressRecorded' /\ CompletedIsPaidFor'
  BY <1>14 DEF ConsumeQuota, GoTo, Consume, apiVars, meterVars, workerVars
<1>15. ASSUME NEW w \in Workers, QuotaExceeded(w) PROVE ProgressRecorded' /\ CompletedIsPaidFor'
  BY <1>15 DEF QuotaExceeded, GoTo, apiVars, meterVars, workerVars
<1>16. ASSUME NEW w \in Workers, FinishQuery(w) PROVE ProgressRecorded' /\ CompletedIsPaidFor'
  BY <1>16 DEF FinishQuery, GoTo, apiVars, meterVars, workerVars
<1>17. ASSUME NEW w \in Workers, FinishJob(w) PROVE ProgressRecorded' /\ CompletedIsPaidFor'
  BY <1>17 DEF FinishJob, GoTo, apiVars, meterVars, workerVars
<1>18. ASSUME NEW w \in Workers, FailQuery(w) PROVE ProgressRecorded' /\ CompletedIsPaidFor'
  BY <1>18 DEF FailQuery, GoTo, apiVars, meterVars, workerVars
<1>19. ASSUME NEW w \in Workers, FailJob(w) PROVE ProgressRecorded' /\ CompletedIsPaidFor'
  BY <1>19 DEF FailJob, GoTo, apiVars, meterVars, workerVars
<1>20. ASSUME NEW w \in Workers, CompleteClaim(w) PROVE ProgressRecorded' /\ CompletedIsPaidFor'
  BY <1>20 DEF CompleteClaim, Release, HoldsRow, apiVars, meterVars,
               workerVars
<1>21. ASSUME NEW w \in Workers, RecordFailure(w) PROVE ProgressRecorded' /\ CompletedIsPaidFor'
  BY <1>21 DEF RecordFailure, Release, HoldsRow, MayRetry, apiVars,
               meterVars, workerVars
<1>22. ASSUME NEW w \in Workers, GenerationRaises(w) PROVE ProgressRecorded' /\ CompletedIsPaidFor'
  BY <1>22 DEF GenerationRaises, apiVars, meterVars, workerVars
<1>23. ASSUME NEW w \in Workers, HandlerRaises(w) PROVE ProgressRecorded' /\ CompletedIsPaidFor'
  BY <1>23 DEF HandlerRaises, apiVars, meterVars, workerVars
<1>24. ASSUME NEW w \in Workers, Crash(w) PROVE ProgressRecorded' /\ CompletedIsPaidFor'
  BY <1>24 DEF Crash, Release, apiVars, meterVars, workerVars
<1>25. CASE UNCHANGED vars
  BY <1>25 DEF vars, apiVars, meterVars, workerVars
<1>26. QED
  BY <1>1, <1>2, <1>3, <1>4, <1>5, <1>6, <1>7, <1>8, <1>9, <1>10, <1>11,
     <1>12, <1>13, <1>14, <1>15, <1>16, <1>17, <1>18, <1>19, <1>20, <1>21,
     <1>22, <1>23, <1>24, <1>25
     DEF Next, SubmitQuery, LegacyRequest, TimePasses, WorkerStep, WorkerFault

\* The first claim of a row ends with the job completed, or with another claim.
LEMMA FirstClaimStep ==
  ASSUME TypeOK, RowsExist, TokensFresh, ClaimsDistinct, ProgressRecorded,
         CompletedIsPaidFor, FirstClaimFinishes, [Next]_vars
  PROVE  FirstClaimFinishes'
<1> USE ConstantsAssumption DEF TypeOK, Row, Claim, NoClaim, NoToken,
                                JobStatus, ReportStatus, RowStatus,
                                OpenStatus, Failures, Busy, Trying,
                                TokensFresh, ClaimsDistinct, FirstClaimFinishes
<1>0. ASSUME NEW k \in Keys, minted[k] = 1,
             NEW v \in Workers, pc[v] # "idle", claim[v].key = k,
             NEW w \in Workers, pc[w] # "idle", claim[w].key = k
      PROVE  v = w
  <2>1. claim[v].token \in Nat \ {0} /\ claim[w].token \in Nat \ {0}
    BY <1>0
  <2>2. claim[v].token <= 1 /\ claim[w].token <= 1
    BY <1>0
  <2> HIDE DEF TypeOK, TokensFresh, FirstClaimFinishes
  <2>3. claim[v].token = 1 /\ claim[w].token = 1
    BY <2>1, <2>2
  <2>4. QED
    BY <1>0, <2>3
<1>1. ASSUME NEW k \in Keys, CreateQuery(k) PROVE FirstClaimFinishes'
  <2>1. /\ minted' = minted /\ pc' = pc /\ claim' = claim
        /\ outbox'[k].status = RequeuedStatus(outbox[k].status)
        /\ \A j \in Keys : j # k => outbox'[j] = outbox[j] /\ job'[j] = job[j]
    BY <1>1 DEF CreateQuery, Enqueue, workerVars
  <2>2. /\ outbox[k].status = "none"
        /\ \A v \in Workers : pc[v] # "idle" => claim[v].key # k
    BY <1>1 DEF CreateQuery, RowsExist
  <2>3. outbox'[k].status # "completed"
    BY <2>1, <2>2 DEF RequeuedStatus
  <2>4. QED
    BY <2>1, <2>2, <2>3
<1>2. ASSUME NEW k \in Keys, Resubmit(k) PROVE FirstClaimFinishes'
  <2>1. /\ minted' = minted /\ pc' = pc /\ claim' = claim
        /\ outbox'[k].status = RequeuedStatus(outbox[k].status)
        /\ \A j \in Keys : j # k => outbox'[j] = outbox[j] /\ job'[j] = job[j]
    BY <1>2 DEF Resubmit, Enqueue, workerVars
  <2>2. /\ outbox[k].status # "completed"
        /\ \A v \in Workers : pc[v] = "completing" => claim[v].key # k
    BY <1>2 DEF Resubmit, CompletedIsPaidFor, ProgressRecorded
  <2>3. outbox'[k].status # "completed"
    BY <2>1, <2>2 DEF RequeuedStatus
  <2>4. QED
    BY <2>1, <2>2, <2>3
<1>3. ASSUME NEW k \in Keys, Requeue(k) PROVE FirstClaimFinishes'
  <2>1. /\ minted' = minted /\ pc' = pc /\ claim' = claim
        /\ outbox'[k].status = RequeuedStatus(outbox[k].status)
        /\ \A j \in Keys : j # k => outbox'[j] = outbox[j] /\ job'[j] = job[j]
    BY <1>3 DEF Requeue, Enqueue, workerVars
  <2>2. job[k] = "failed"
    BY <1>3 DEF Requeue, CachedReportAction
  <2>3. /\ minted[k] = 1 => outbox'[k].status # "completed"
        /\ minted[k] = 1 => \A v \in Workers : pc[v] = "completing" => claim[v].key # k
    BY <2>1, <2>2 DEF RequeuedStatus
  <2>4. QED
    BY <2>1, <2>2, <2>3
<1>4. ASSUME NEW k \in Keys, LegacyClaimJob(k) PROVE FirstClaimFinishes'
  BY <1>4 DEF LegacyClaimJob, apiVars, meterVars, workerVars
<1>5. ASSUME NEW k \in Keys, LegacyMarkQuery(k) PROVE FirstClaimFinishes'
  BY <1>5 DEF LegacyMarkQuery, apiVars, meterVars, workerVars
<1>6. ASSUME NEW k \in Keys, LegacyEnqueue(k) PROVE FirstClaimFinishes'
  BY <1>6 DEF LegacyEnqueue, Enqueue, RequeuedStatus, apiVars, meterVars,
              workerVars
<1>7. ASSUME NEW k \in Keys, LegacyAbort(k) PROVE FirstClaimFinishes'
  BY <1>7 DEF LegacyAbort, apiVars, meterVars, workerVars
<1>8. ASSUME NEW k \in Keys, LeaseExpires(k) PROVE FirstClaimFinishes'
  BY <1>8 DEF LeaseExpires, apiVars, meterVars, workerVars
<1>9. ASSUME NEW k \in Keys, BackoffElapses(k) PROVE FirstClaimFinishes'
  BY <1>9 DEF BackoffElapses, apiVars, meterVars, workerVars
<1>10. ASSUME NEW w \in Workers, ClaimNext(w) PROVE FirstClaimFinishes'
  <2>1. PICK k \in Keys :
          /\ outbox'[k].status = "running" /\ outbox[k].status # "completed"
          /\ \A j \in Keys : j # k => outbox'[j] = outbox[j] /\ minted'[j] = minted[j]
          /\ minted'[k] = minted[k] + 1
          /\ claim'[w].key = k /\ pc'[w] = "claimed" /\ job' = job
          /\ \A v \in Workers : v # w => pc'[v] = pc[v] /\ claim'[v] = claim[v]
    BY <1>10 DEF ClaimNext, Claimable, FreshToken
  <2>2. ASSUME minted[k] = 0, NEW v \in Workers, pc[v] # "idle"
        PROVE  claim[v].key # k
    <3>1. claim[v].token \in Nat \ {0} /\ claim[v].token <= minted[claim[v].key]
      BY <2>2
    <3>2. QED
      BY <2>2, <3>1
  <2> SUFFICES ASSUME NEW j \in Keys, minted'[j] = 1
               PROVE  /\ \A v \in Workers : pc'[v] = "completing" /\ claim'[v].key = j => job'[j] = "completed"
                      /\ outbox'[j].status = "completed" =>
                           /\ job'[j] = "completed"
                           /\ \A v \in Workers : pc'[v] # "idle" => claim'[v].key # j
    OBVIOUS
  <2>3. CASE j = k
    <3>1. minted[k] = 0
      BY <2>1, <2>3
    <3>2. \A v \in Workers : v # w => pc'[v] = "idle" \/ claim'[v].key # k
      BY <2>1, <2>2, <3>1
    <3>3. pc'[w] # "completing" /\ outbox'[k].status # "completed"
      BY <2>1
    <3> HIDE DEF FirstClaimFinishes, TokensFresh, ClaimsDistinct, TypeOK
    <3>4. QED
      BY <2>3, <3>2, <3>3
  <2>4. CASE j # k
    <3>1. minted[j] = 1 /\ outbox'[j] = outbox[j]
      BY <2>1, <2>4
    <3>2. \A v \in Workers : pc'[v] # "idle" /\ claim'[v].key = j
                           => v # w /\ pc[v] = pc'[v] /\ claim[v].key = j
      BY <2>1, <2>4
    <3> HIDE DEF TokensFresh, ClaimsDistinct, TypeOK
    <3>3. QED
      BY <2>1, <3>1, <3>2
  <2>5. QED
    BY <2>3, <2>4
<1>11. ASSUME NEW w \in Workers, MarkRunning(w) PROVE FirstClaimFinishes'
  <2> DEFINE k == claim[w].key
  <2>1. k \in Keys /\ pc[w] # "idle" /\ pc'[w] # "completing"
    BY <1>11 DEF MarkRunning, GoTo
  <2>2. /\ outbox' = outbox /\ minted' = minted /\ claim' = claim
        /\ job' = [job EXCEPT ![k] = "running"]
        /\ \A v \in Workers : v # w => pc'[v] = pc[v]
    BY <1>11 DEF MarkRunning, GoTo, workerVars
  <2>3. ASSUME minted[k] = 1
        PROVE  /\ outbox[k].status # "completed"
               /\ \A v \in Workers : pc'[v] # "idle" /\ claim[v].key = k => v = w
    BY <1>0, <2>1, <2>2, <2>3
  <2> HIDE DEF k
  <2> SUFFICES ASSUME NEW j \in Keys, minted'[j] = 1
               PROVE  /\ \A v \in Workers : pc'[v] = "completing" /\ claim'[v].key = j => job'[j] = "completed"
                      /\ outbox'[j].status = "completed" =>
                           /\ job'[j] = "completed"
                           /\ \A v \in Workers : pc'[v] # "idle" => claim'[v].key # j
    OBVIOUS
  <2>4. CASE j = k
    BY <2>1, <2>2, <2>3, <2>4
  <2>5. CASE j # k
    BY <2>1, <2>2, <2>3, <2>5
  <2>6. QED
    BY <2>4, <2>5
<1>12. ASSUME NEW w \in Workers, Generate(w) PROVE FirstClaimFinishes'
  BY <1>12 DEF Generate, GoTo, apiVars, meterVars, workerVars
<1>13. ASSUME NEW w \in Workers, SaveReport(w) PROVE FirstClaimFinishes'
  BY <1>13 DEF SaveReport, GoTo, apiVars, meterVars, workerVars
<1>14. ASSUME NEW w \in Workers, ConsumeQuota(w) PROVE FirstClaimFinishes'
  BY <1>14 DEF ConsumeQuota, GoTo, Consume, apiVars, meterVars, workerVars
<1>15. ASSUME NEW w \in Workers, QuotaExceeded(w) PROVE FirstClaimFinishes'
  BY <1>15 DEF QuotaExceeded, GoTo, apiVars, meterVars, workerVars
<1>16. ASSUME NEW w \in Workers, FinishQuery(w) PROVE FirstClaimFinishes'
  BY <1>16 DEF FinishQuery, GoTo, apiVars, meterVars, workerVars
<1>17. ASSUME NEW w \in Workers, FinishJob(w) PROVE FirstClaimFinishes'
  BY <1>17 DEF FinishJob, GoTo, apiVars, meterVars, workerVars
<1>18. ASSUME NEW w \in Workers, FailQuery(w) PROVE FirstClaimFinishes'
  BY <1>18 DEF FailQuery, GoTo, apiVars, meterVars, workerVars
<1>19. ASSUME NEW w \in Workers, FailJob(w) PROVE FirstClaimFinishes'
  <2> DEFINE k == claim[w].key
  <2>1. k \in Keys /\ pc[w] # "idle" /\ pc'[w] # "completing"
    BY <1>19 DEF FailJob, GoTo
  <2>2. /\ outbox' = outbox /\ minted' = minted /\ claim' = claim
        /\ job' = [job EXCEPT ![k] = "failed"]
        /\ \A v \in Workers : v # w => pc'[v] = pc[v]
    BY <1>19 DEF FailJob, GoTo, workerVars
  <2>3. ASSUME minted[k] = 1
        PROVE  /\ outbox[k].status # "completed"
               /\ \A v \in Workers : pc'[v] # "idle" /\ claim[v].key = k => v = w
    BY <1>0, <2>1, <2>2, <2>3
  <2> HIDE DEF k
  <2> SUFFICES ASSUME NEW j \in Keys, minted'[j] = 1
               PROVE  /\ \A v \in Workers : pc'[v] = "completing" /\ claim'[v].key = j => job'[j] = "completed"
                      /\ outbox'[j].status = "completed" =>
                           /\ job'[j] = "completed"
                           /\ \A v \in Workers : pc'[v] # "idle" => claim'[v].key # j
    OBVIOUS
  <2>4. CASE j = k
    BY <2>1, <2>2, <2>3, <2>4
  <2>5. CASE j # k
    BY <2>1, <2>2, <2>3, <2>5
  <2>6. QED
    BY <2>4, <2>5
<1>20. ASSUME NEW w \in Workers, CompleteClaim(w) PROVE FirstClaimFinishes'
  <2> DEFINE k == claim[w].key
  <2>1. k \in Keys /\ pc[w] = "completing" /\ pc'[w] = "idle"
    BY <1>20 DEF CompleteClaim, Release
  <2>2. /\ minted' = minted /\ job' = job
        /\ \A v \in Workers : v # w => pc'[v] = pc[v] /\ claim'[v] = claim[v]
        /\ \A j \in Keys : j # k => outbox'[j] = outbox[j]
        /\ outbox'[k] = outbox[k] \/ outbox'[k].status = "completed"
    BY <1>20 DEF CompleteClaim, Release
  <2>3. ASSUME minted[k] = 1
        PROVE  /\ job[k] = "completed"
               /\ \A v \in Workers : pc'[v] # "idle" => claim'[v].key # k
    BY <1>0, <2>1, <2>2, <2>3
  <2> HIDE DEF k
  <2> SUFFICES ASSUME NEW j \in Keys, minted'[j] = 1
               PROVE  /\ \A v \in Workers : pc'[v] = "completing" /\ claim'[v].key = j => job'[j] = "completed"
                      /\ outbox'[j].status = "completed" =>
                           /\ job'[j] = "completed"
                           /\ \A v \in Workers : pc'[v] # "idle" => claim'[v].key # j
    OBVIOUS
  <2>4. CASE j = k
    BY <2>1, <2>2, <2>3, <2>4
  <2>5. CASE j # k
    <3>1. minted[j] = 1 /\ outbox'[j] = outbox[j]
      BY <2>2, <2>5
    <3>2. \A v \in Workers : pc'[v] # "idle"
                           => pc[v] = pc'[v] /\ claim[v].key = claim'[v].key
      BY <2>1, <2>2
    <3> HIDE DEF TokensFresh, ClaimsDistinct, TypeOK
    <3>3. QED
      BY <2>2, <3>1, <3>2
  <2>6. QED
    BY <2>4, <2>5
<1>21. ASSUME NEW w \in Workers, RecordFailure(w) PROVE FirstClaimFinishes'
  <2> DEFINE k == claim[w].key
  <2>1. RecordEffect(w, k)
    BY <1>21, RecordFailureEffect
  <2>2. k \in Keys /\ pc[w] # "idle" /\ pc'[w] = "idle"
    BY <2>1 DEF RecordEffect, Release
  <2>3. /\ minted' = minted
        /\ \A v \in Workers : v # w => pc'[v] = pc[v] /\ claim'[v] = claim[v]
        /\ \A j \in Keys : j # k => outbox'[j] = outbox[j] /\ job'[j] = job[j]
        /\ outbox'[k].status # "completed" \/ outbox' = outbox
    BY <2>1, <2>2 DEF RecordEffect, Release
  <2>4. ASSUME minted[k] = 1
        PROVE  /\ outbox[k].status # "completed"
               /\ \A v \in Workers : pc'[v] # "idle" => claim'[v].key # k
    BY <1>0, <2>2, <2>3, <2>4
  <2> HIDE DEF k
  <2> SUFFICES ASSUME NEW j \in Keys, minted'[j] = 1
               PROVE  /\ \A v \in Workers : pc'[v] = "completing" /\ claim'[v].key = j => job'[j] = "completed"
                      /\ outbox'[j].status = "completed" =>
                           /\ job'[j] = "completed"
                           /\ \A v \in Workers : pc'[v] # "idle" => claim'[v].key # j
    OBVIOUS
  <2>5. CASE j = k
    BY <2>2, <2>3, <2>4, <2>5
  <2>6. CASE j # k
    <3>1. minted[j] = 1 /\ outbox'[j] = outbox[j] /\ job'[j] = job[j]
      BY <2>3, <2>6
    <3>2. \A v \in Workers : pc'[v] # "idle"
                           => pc[v] = pc'[v] /\ claim[v].key = claim'[v].key
      BY <2>2, <2>3
    <3> HIDE DEF TokensFresh, ClaimsDistinct, TypeOK
    <3>3. QED
      BY <3>1, <3>2
  <2>7. QED
    BY <2>5, <2>6
<1>22. ASSUME NEW w \in Workers, GenerationRaises(w) PROVE FirstClaimFinishes'
  BY <1>22 DEF GenerationRaises, apiVars, meterVars, workerVars
<1>23. ASSUME NEW w \in Workers, HandlerRaises(w) PROVE FirstClaimFinishes'
  BY <1>23 DEF HandlerRaises, apiVars, meterVars, workerVars
<1>24. ASSUME NEW w \in Workers, Crash(w) PROVE FirstClaimFinishes'
  BY <1>24 DEF Crash, Release, apiVars, meterVars, workerVars
<1>25. CASE UNCHANGED vars
  BY <1>25 DEF vars, apiVars, meterVars, workerVars
<1>26. QED
  BY <1>1, <1>2, <1>3, <1>4, <1>5, <1>6, <1>7, <1>8, <1>9, <1>10, <1>11,
     <1>12, <1>13, <1>14, <1>15, <1>16, <1>17, <1>18, <1>19, <1>20, <1>21,
     <1>22, <1>23, <1>24, <1>25
     DEF Next, SubmitQuery, LegacyRequest, TimePasses, WorkerStep, WorkerFault

\* The queries that exist, each charged once.
Asked == {k \in Keys : query[k] # "none"}

\* A step leaves the query meter alone or charges one new query.
OneMoreQuery ==
    \/ queryUsed' = queryUsed /\ Asked' = Asked
    \/ \E k \in Keys \ Asked : queryUsed' = queryUsed + 1 /\ Asked' = Asked \union {k}

\* No step charges a query that exists.
LEMMA QueryMeterStep ==
  ASSUME TypeOK, RowsExist, [Next]_vars
  PROVE  OneMoreQuery
<1> USE ConstantsAssumption DEF TypeOK, Row, Claim, NoClaim, NoToken,
                                JobStatus, ReportStatus, RowStatus,
                                OpenStatus, Failures, Busy, Trying,
                                RowsExist, OneMoreQuery, Asked
<1>1. ASSUME NEW k \in Keys, CreateQuery(k) PROVE OneMoreQuery
  BY <1>1 DEF CreateQuery, Enqueue, RequeuedStatus, apiVars, meterVars,
              workerVars
<1>2. ASSUME NEW k \in Keys, Resubmit(k) PROVE OneMoreQuery
  BY <1>2 DEF Resubmit, Enqueue, RequeuedStatus, apiVars, meterVars,
              workerVars
<1>3. ASSUME NEW k \in Keys, Requeue(k) PROVE OneMoreQuery
  BY <1>3 DEF Requeue, Enqueue, RequeuedStatus, CachedReportAction, apiVars,
              meterVars, workerVars
<1>4. ASSUME NEW k \in Keys, LegacyClaimJob(k) PROVE OneMoreQuery
  BY <1>4 DEF LegacyClaimJob, apiVars, meterVars, workerVars
<1>5. ASSUME NEW k \in Keys, LegacyMarkQuery(k) PROVE OneMoreQuery
  BY <1>5 DEF LegacyMarkQuery, apiVars, meterVars, workerVars
<1>6. ASSUME NEW k \in Keys, LegacyEnqueue(k) PROVE OneMoreQuery
  BY <1>6 DEF LegacyEnqueue, Enqueue, RequeuedStatus, apiVars, meterVars,
              workerVars
<1>7. ASSUME NEW k \in Keys, LegacyAbort(k) PROVE OneMoreQuery
  BY <1>7 DEF LegacyAbort, apiVars, meterVars, workerVars
<1>8. ASSUME NEW k \in Keys, LeaseExpires(k) PROVE OneMoreQuery
  BY <1>8 DEF LeaseExpires, apiVars, meterVars, workerVars
<1>9. ASSUME NEW k \in Keys, BackoffElapses(k) PROVE OneMoreQuery
  BY <1>9 DEF BackoffElapses, apiVars, meterVars, workerVars
<1>10. ASSUME NEW w \in Workers, ClaimNext(w) PROVE OneMoreQuery
  BY <1>10 DEF ClaimNext, Claimable, FreshToken, apiVars, meterVars,
               workerVars
<1>11. ASSUME NEW w \in Workers, MarkRunning(w) PROVE OneMoreQuery
  BY <1>11 DEF MarkRunning, GoTo, apiVars, meterVars, workerVars
<1>12. ASSUME NEW w \in Workers, Generate(w) PROVE OneMoreQuery
  BY <1>12 DEF Generate, GoTo, apiVars, meterVars, workerVars
<1>13. ASSUME NEW w \in Workers, SaveReport(w) PROVE OneMoreQuery
  BY <1>13 DEF SaveReport, GoTo, apiVars, meterVars, workerVars
<1>14. ASSUME NEW w \in Workers, ConsumeQuota(w) PROVE OneMoreQuery
  BY <1>14 DEF ConsumeQuota, GoTo, Consume, apiVars, meterVars, workerVars
<1>15. ASSUME NEW w \in Workers, QuotaExceeded(w) PROVE OneMoreQuery
  BY <1>15 DEF QuotaExceeded, GoTo, apiVars, meterVars, workerVars
<1>16. ASSUME NEW w \in Workers, FinishQuery(w) PROVE OneMoreQuery
  BY <1>16 DEF FinishQuery, GoTo, apiVars, meterVars, workerVars
<1>17. ASSUME NEW w \in Workers, FinishJob(w) PROVE OneMoreQuery
  BY <1>17 DEF FinishJob, GoTo, apiVars, meterVars, workerVars
<1>18. ASSUME NEW w \in Workers, FailQuery(w) PROVE OneMoreQuery
  BY <1>18 DEF FailQuery, GoTo, apiVars, meterVars, workerVars
<1>19. ASSUME NEW w \in Workers, FailJob(w) PROVE OneMoreQuery
  BY <1>19 DEF FailJob, GoTo, apiVars, meterVars, workerVars
<1>20. ASSUME NEW w \in Workers, CompleteClaim(w) PROVE OneMoreQuery
  BY <1>20 DEF CompleteClaim, Release, HoldsRow, apiVars, meterVars,
               workerVars
<1>21. ASSUME NEW w \in Workers, RecordFailure(w) PROVE OneMoreQuery
  <2> HIDE DEF TypeOK
  <2>1. RecordEffect(w, claim[w].key)
    BY <1>21, RecordFailureEffect
  <2>2. QED
    BY <2>1 DEF TypeOK, RecordEffect, Release, HoldsRow
<1>22. ASSUME NEW w \in Workers, GenerationRaises(w) PROVE OneMoreQuery
  BY <1>22 DEF GenerationRaises, apiVars, meterVars, workerVars
<1>23. ASSUME NEW w \in Workers, HandlerRaises(w) PROVE OneMoreQuery
  BY <1>23 DEF HandlerRaises, apiVars, meterVars, workerVars
<1>24. ASSUME NEW w \in Workers, Crash(w) PROVE OneMoreQuery
  BY <1>24 DEF Crash, Release, apiVars, meterVars, workerVars
<1>25. CASE UNCHANGED vars
  BY <1>25 DEF vars, apiVars, meterVars, workerVars
<1>26. QED
  BY <1>1, <1>2, <1>3, <1>4, <1>5, <1>6, <1>7, <1>8, <1>9, <1>10, <1>11,
     <1>12, <1>13, <1>14, <1>15, <1>16, <1>17, <1>18, <1>19, <1>20, <1>21,
     <1>22, <1>23, <1>24, <1>25
     DEF Next, SubmitQuery, LegacyRequest, TimePasses, WorkerStep, WorkerFault

\* The report allowance is charged for new keys only.
LEMMA ReportMeterStep ==
  ASSUME TypeOK, [Next]_vars
  PROVE  \/ UNCHANGED meterVars
         \/ \E k \in Keys \ metered : used' = used + 1 /\ metered' = metered \union {k}
<1>1. ASSUME NEW w \in Workers, ConsumeQuota(w)
      PROVE  \/ UNCHANGED meterVars
             \/ \E k \in Keys \ metered : used' = used + 1 /\ metered' = metered \union {k}
  BY <1>1 DEF ConsumeQuota, Consume, GoTo, TypeOK, Claim, NoClaim
<1>2. CASE UNCHANGED vars
  BY <1>2 DEF vars, meterVars
<1>3. QED
  BY <1>1, <1>2
     DEF Next, SubmitQuery, LegacyRequest, TimePasses, WorkerStep, WorkerFault,
         CreateQuery, Resubmit, Requeue, LegacyClaimJob, LegacyMarkQuery,
         LegacyEnqueue, LegacyAbort, LeaseExpires, BackoffElapses, ClaimNext,
         MarkRunning, Generate, SaveReport, QuotaExceeded, FinishQuery, FinishJob,
         FailQuery, FailJob, CompleteClaim, RecordFailure, GenerationRaises,
         HandlerRaises, Crash

\* The meters stay exact.
LEMMA MetersStep ==
  ASSUME TypeOK, RowsExist, MetersExact, [Next]_vars
  PROVE  MetersExact'
<1>1. IsFiniteSet(Asked) /\ IsFiniteSet(metered)
  BY KeysFinite, ConstantsAssumption, FS_Subset DEF Asked, TypeOK
<1>2. used' = Cardinality(metered')
  <2>1. CASE UNCHANGED meterVars
    BY <2>1 DEF meterVars, MetersExact
  <2>2. ASSUME NEW k \in Keys \ metered, used' = used + 1, metered' = metered \union {k}
        PROVE  used' = Cardinality(metered')
    BY <1>1, <2>2, FS_AddElement DEF MetersExact
  <2>3. QED
    BY <2>1, <2>2, ReportMeterStep
<1>3. queryUsed' = Cardinality(Asked')
  <2>1. CASE queryUsed' = queryUsed /\ Asked' = Asked
    BY <2>1 DEF MetersExact, Asked
  <2>2. ASSUME NEW k \in Keys \ Asked, queryUsed' = queryUsed + 1, Asked' = Asked \union {k}
        PROVE  queryUsed' = Cardinality(Asked')
    <3>1. Cardinality(Asked \union {k}) = Cardinality(Asked) + 1
      BY <1>1, FS_AddElement
    <3>2. queryUsed = Cardinality(Asked)
      BY DEF MetersExact, Asked
    <3>3. QED
      BY <2>2, <3>1, <3>2
  <2>3. QED
    BY <2>1, <2>2, QueryMeterStep DEF OneMoreQuery
<1>4. QED
  BY <1>2, <1>3 DEF MetersExact, Asked

\* Retryable rows keep an attempt, pending jobs keep their row.
LEMMA BudgetStep ==
  ASSUME TypeOK, RowsExist, TokensFresh, ClaimsDistinct, RetryHasBudget, PendingJobHasRow, [Next]_vars
  PROVE  RetryHasBudget' /\ PendingJobHasRow'
<1> USE ConstantsAssumption DEF TypeOK, Row, Claim, NoClaim, NoToken,
                                JobStatus, ReportStatus, RowStatus,
                                OpenStatus, Failures, Busy, Trying,
                                RowsExist, TokensFresh, RetryHasBudget,
                                PendingJobHasRow
<1>1. ASSUME NEW k \in Keys, CreateQuery(k) PROVE RetryHasBudget' /\ PendingJobHasRow'
  BY <1>1 DEF CreateQuery, Enqueue, RequeuedStatus, apiVars, meterVars,
              workerVars
<1>2. ASSUME NEW k \in Keys, Resubmit(k) PROVE RetryHasBudget' /\ PendingJobHasRow'
  BY <1>2 DEF Resubmit, Enqueue, RequeuedStatus, apiVars, meterVars,
              workerVars
<1>3. ASSUME NEW k \in Keys, Requeue(k) PROVE RetryHasBudget' /\ PendingJobHasRow'
  BY <1>3 DEF Requeue, Enqueue, RequeuedStatus, CachedReportAction, apiVars,
              meterVars, workerVars
<1>4. ASSUME NEW k \in Keys, LegacyClaimJob(k) PROVE RetryHasBudget' /\ PendingJobHasRow'
  BY <1>4 DEF LegacyClaimJob, apiVars, meterVars, workerVars
<1>5. ASSUME NEW k \in Keys, LegacyMarkQuery(k) PROVE RetryHasBudget' /\ PendingJobHasRow'
  BY <1>5 DEF LegacyMarkQuery, apiVars, meterVars, workerVars
<1>6. ASSUME NEW k \in Keys, LegacyEnqueue(k) PROVE RetryHasBudget' /\ PendingJobHasRow'
  BY <1>6 DEF LegacyEnqueue, Enqueue, RequeuedStatus, apiVars, meterVars,
              workerVars
<1>7. ASSUME NEW k \in Keys, LegacyAbort(k) PROVE RetryHasBudget' /\ PendingJobHasRow'
  BY <1>7 DEF LegacyAbort, apiVars, meterVars, workerVars
<1>8. ASSUME NEW k \in Keys, LeaseExpires(k) PROVE RetryHasBudget' /\ PendingJobHasRow'
  BY <1>8 DEF LeaseExpires, apiVars, meterVars, workerVars
<1>9. ASSUME NEW k \in Keys, BackoffElapses(k) PROVE RetryHasBudget' /\ PendingJobHasRow'
  BY <1>9 DEF BackoffElapses, apiVars, meterVars, workerVars
<1>10. ASSUME NEW w \in Workers, ClaimNext(w) PROVE RetryHasBudget' /\ PendingJobHasRow'
  BY <1>10 DEF ClaimNext, Claimable, FreshToken, apiVars, meterVars,
               workerVars
<1>11. ASSUME NEW w \in Workers, MarkRunning(w) PROVE RetryHasBudget' /\ PendingJobHasRow'
  BY <1>11 DEF MarkRunning, GoTo, apiVars, meterVars, workerVars
<1>12. ASSUME NEW w \in Workers, Generate(w) PROVE RetryHasBudget' /\ PendingJobHasRow'
  BY <1>12 DEF Generate, GoTo, apiVars, meterVars, workerVars
<1>13. ASSUME NEW w \in Workers, SaveReport(w) PROVE RetryHasBudget' /\ PendingJobHasRow'
  BY <1>13 DEF SaveReport, GoTo, apiVars, meterVars, workerVars
<1>14. ASSUME NEW w \in Workers, ConsumeQuota(w) PROVE RetryHasBudget' /\ PendingJobHasRow'
  BY <1>14 DEF ConsumeQuota, GoTo, Consume, apiVars, meterVars, workerVars
<1>15. ASSUME NEW w \in Workers, QuotaExceeded(w) PROVE RetryHasBudget' /\ PendingJobHasRow'
  BY <1>15 DEF QuotaExceeded, GoTo, apiVars, meterVars, workerVars
<1>16. ASSUME NEW w \in Workers, FinishQuery(w) PROVE RetryHasBudget' /\ PendingJobHasRow'
  BY <1>16 DEF FinishQuery, GoTo, apiVars, meterVars, workerVars
<1>17. ASSUME NEW w \in Workers, FinishJob(w) PROVE RetryHasBudget' /\ PendingJobHasRow'
  BY <1>17 DEF FinishJob, GoTo, apiVars, meterVars, workerVars
<1>18. ASSUME NEW w \in Workers, FailQuery(w) PROVE RetryHasBudget' /\ PendingJobHasRow'
  BY <1>18 DEF FailQuery, GoTo, apiVars, meterVars, workerVars
<1>19. ASSUME NEW w \in Workers, FailJob(w) PROVE RetryHasBudget' /\ PendingJobHasRow'
  BY <1>19 DEF FailJob, GoTo, apiVars, meterVars, workerVars
<1>20. ASSUME NEW w \in Workers, CompleteClaim(w) PROVE RetryHasBudget' /\ PendingJobHasRow'
  BY <1>20 DEF CompleteClaim, Release, HoldsRow, apiVars, meterVars,
               workerVars
<1>21. ASSUME NEW w \in Workers, RecordFailure(w) PROVE RetryHasBudget' /\ PendingJobHasRow'
  <2> HIDE DEF TypeOK, TokensFresh, RowsExist, RetryHasBudget, PendingJobHasRow
  <2> DEFINE k == claim[w].key
  <2>1. RecordEffect(w, k)
    BY <1>21, RecordFailureEffect
  <2>2. CASE HoldsRow(w)
    <3>1. claim[w].attempts = outbox[k].attempts
      BY <2>1, <2>2 DEF RecordEffect, HoldsRow, TokensFresh
    <3>2. RetryHasBudget'
      BY <2>1, <2>2, <3>1 DEF RecordEffect, RetryHasBudget
    <3>3. PendingJobHasRow'
      BY <2>1, <2>2 DEF TypeOK, RecordEffect, PendingJobHasRow
    <3>4. QED
      BY <3>2, <3>3
  <2>3. CASE ~HoldsRow(w)
    BY <2>1, <2>3 DEF RecordEffect, RetryHasBudget, PendingJobHasRow
  <2>4. QED
    BY <2>2, <2>3
<1>22. ASSUME NEW w \in Workers, GenerationRaises(w) PROVE RetryHasBudget' /\ PendingJobHasRow'
  BY <1>22 DEF GenerationRaises, apiVars, meterVars, workerVars
<1>23. ASSUME NEW w \in Workers, HandlerRaises(w) PROVE RetryHasBudget' /\ PendingJobHasRow'
  BY <1>23 DEF HandlerRaises, apiVars, meterVars, workerVars
<1>24. ASSUME NEW w \in Workers, Crash(w) PROVE RetryHasBudget' /\ PendingJobHasRow'
  BY <1>24 DEF Crash, Release, apiVars, meterVars, workerVars
<1>25. CASE UNCHANGED vars
  BY <1>25 DEF vars, apiVars, meterVars, workerVars
<1>26. QED
  BY <1>1, <1>2, <1>3, <1>4, <1>5, <1>6, <1>7, <1>8, <1>9, <1>10, <1>11,
     <1>12, <1>13, <1>14, <1>15, <1>16, <1>17, <1>18, <1>19, <1>20, <1>21,
     <1>22, <1>23, <1>24, <1>25
     DEF Next, SubmitQuery, LegacyRequest, TimePasses, WorkerStep, WorkerFault

\* The two action properties as single steps.
FencedStep ==
    \A k \in Keys :
        /\ outbox[k].status = "running"
        /\ outbox'[k].status \in {"completed", "retryable", "failed"}
        => \E w \in Workers : /\ claim[w] = [key      |-> k,
                                             token    |-> minted[k],
                                             attempts |-> outbox[k].attempts]
                              /\ pc'[w] = "idle"

FinalStep ==
    \A k \in Keys :
        outbox[k].status = "completed"
        => /\ outbox'[k].status = "completed"
           /\ outbox'[k].attempts = outbox[k].attempts

\* Only the holder of the current claim finishes a row.
LEMMA FencedStepHolds ==
  ASSUME TypeOK, TokensFresh, [Next]_vars
  PROVE  FencedStep
<1> USE ConstantsAssumption DEF TypeOK, Row, Claim, NoClaim, NoToken,
                                JobStatus, ReportStatus, RowStatus,
                                OpenStatus, Failures, Busy, Trying,
                                TokensFresh, FencedStep
<1>1. ASSUME NEW k \in Keys, CreateQuery(k) PROVE FencedStep
  BY <1>1 DEF CreateQuery, Enqueue, RequeuedStatus, apiVars, meterVars,
              workerVars
<1>2. ASSUME NEW k \in Keys, Resubmit(k) PROVE FencedStep
  BY <1>2 DEF Resubmit, Enqueue, RequeuedStatus, apiVars, meterVars,
              workerVars
<1>3. ASSUME NEW k \in Keys, Requeue(k) PROVE FencedStep
  BY <1>3 DEF Requeue, Enqueue, RequeuedStatus, CachedReportAction, apiVars,
              meterVars, workerVars
<1>4. ASSUME NEW k \in Keys, LegacyClaimJob(k) PROVE FencedStep
  BY <1>4 DEF LegacyClaimJob, apiVars, meterVars, workerVars
<1>5. ASSUME NEW k \in Keys, LegacyMarkQuery(k) PROVE FencedStep
  BY <1>5 DEF LegacyMarkQuery, apiVars, meterVars, workerVars
<1>6. ASSUME NEW k \in Keys, LegacyEnqueue(k) PROVE FencedStep
  BY <1>6 DEF LegacyEnqueue, Enqueue, RequeuedStatus, apiVars, meterVars,
              workerVars
<1>7. ASSUME NEW k \in Keys, LegacyAbort(k) PROVE FencedStep
  BY <1>7 DEF LegacyAbort, apiVars, meterVars, workerVars
<1>8. ASSUME NEW k \in Keys, LeaseExpires(k) PROVE FencedStep
  BY <1>8 DEF LeaseExpires, apiVars, meterVars, workerVars
<1>9. ASSUME NEW k \in Keys, BackoffElapses(k) PROVE FencedStep
  BY <1>9 DEF BackoffElapses, apiVars, meterVars, workerVars
<1>10. ASSUME NEW w \in Workers, ClaimNext(w) PROVE FencedStep
  BY <1>10 DEF ClaimNext, Claimable, FreshToken, apiVars, meterVars,
               workerVars
<1>11. ASSUME NEW w \in Workers, MarkRunning(w) PROVE FencedStep
  BY <1>11 DEF MarkRunning, GoTo, apiVars, meterVars, workerVars
<1>12. ASSUME NEW w \in Workers, Generate(w) PROVE FencedStep
  BY <1>12 DEF Generate, GoTo, apiVars, meterVars, workerVars
<1>13. ASSUME NEW w \in Workers, SaveReport(w) PROVE FencedStep
  BY <1>13 DEF SaveReport, GoTo, apiVars, meterVars, workerVars
<1>14. ASSUME NEW w \in Workers, ConsumeQuota(w) PROVE FencedStep
  BY <1>14 DEF ConsumeQuota, GoTo, Consume, apiVars, meterVars, workerVars
<1>15. ASSUME NEW w \in Workers, QuotaExceeded(w) PROVE FencedStep
  BY <1>15 DEF QuotaExceeded, GoTo, apiVars, meterVars, workerVars
<1>16. ASSUME NEW w \in Workers, FinishQuery(w) PROVE FencedStep
  BY <1>16 DEF FinishQuery, GoTo, apiVars, meterVars, workerVars
<1>17. ASSUME NEW w \in Workers, FinishJob(w) PROVE FencedStep
  BY <1>17 DEF FinishJob, GoTo, apiVars, meterVars, workerVars
<1>18. ASSUME NEW w \in Workers, FailQuery(w) PROVE FencedStep
  BY <1>18 DEF FailQuery, GoTo, apiVars, meterVars, workerVars
<1>19. ASSUME NEW w \in Workers, FailJob(w) PROVE FencedStep
  BY <1>19 DEF FailJob, GoTo, apiVars, meterVars, workerVars
<1>20. ASSUME NEW w \in Workers, CompleteClaim(w) PROVE FencedStep
  BY <1>20 DEF CompleteClaim, Release, HoldsRow, apiVars, meterVars,
               workerVars
<1>21. ASSUME NEW w \in Workers, RecordFailure(w) PROVE FencedStep
  <2> HIDE DEF TypeOK
  <2>1. RecordEffect(w, claim[w].key)
    BY <1>21, RecordFailureEffect
  <2>2. QED
    BY <2>1, SMTT(60) DEF TypeOK, RecordEffect, Release, HoldsRow
<1>22. ASSUME NEW w \in Workers, GenerationRaises(w) PROVE FencedStep
  BY <1>22 DEF GenerationRaises, apiVars, meterVars, workerVars
<1>23. ASSUME NEW w \in Workers, HandlerRaises(w) PROVE FencedStep
  BY <1>23 DEF HandlerRaises, apiVars, meterVars, workerVars
<1>24. ASSUME NEW w \in Workers, Crash(w) PROVE FencedStep
  BY <1>24 DEF Crash, Release, apiVars, meterVars, workerVars
<1>25. CASE UNCHANGED vars
  BY <1>25 DEF vars, apiVars, meterVars, workerVars
<1>26. QED
  BY <1>1, <1>2, <1>3, <1>4, <1>5, <1>6, <1>7, <1>8, <1>9, <1>10, <1>11,
     <1>12, <1>13, <1>14, <1>15, <1>16, <1>17, <1>18, <1>19, <1>20, <1>21,
     <1>22, <1>23, <1>24, <1>25
     DEF Next, SubmitQuery, LegacyRequest, TimePasses, WorkerStep, WorkerFault

\* Nothing happens to a completed row.
LEMMA FinalStepHolds ==
  ASSUME TypeOK, [Next]_vars
  PROVE  FinalStep
<1> USE ConstantsAssumption DEF TypeOK, Row, Claim, NoClaim, NoToken,
                                JobStatus, ReportStatus, RowStatus,
                                OpenStatus, Failures, Busy, Trying, FinalStep
<1>1. ASSUME NEW k \in Keys, CreateQuery(k) PROVE FinalStep
  BY <1>1 DEF CreateQuery, Enqueue, RequeuedStatus, apiVars, meterVars,
              workerVars
<1>2. ASSUME NEW k \in Keys, Resubmit(k) PROVE FinalStep
  BY <1>2 DEF Resubmit, Enqueue, RequeuedStatus, apiVars, meterVars,
              workerVars
<1>3. ASSUME NEW k \in Keys, Requeue(k) PROVE FinalStep
  BY <1>3 DEF Requeue, Enqueue, RequeuedStatus, CachedReportAction, apiVars,
              meterVars, workerVars
<1>4. ASSUME NEW k \in Keys, LegacyClaimJob(k) PROVE FinalStep
  BY <1>4 DEF LegacyClaimJob, apiVars, meterVars, workerVars
<1>5. ASSUME NEW k \in Keys, LegacyMarkQuery(k) PROVE FinalStep
  BY <1>5 DEF LegacyMarkQuery, apiVars, meterVars, workerVars
<1>6. ASSUME NEW k \in Keys, LegacyEnqueue(k) PROVE FinalStep
  BY <1>6 DEF LegacyEnqueue, Enqueue, RequeuedStatus, apiVars, meterVars,
              workerVars
<1>7. ASSUME NEW k \in Keys, LegacyAbort(k) PROVE FinalStep
  BY <1>7 DEF LegacyAbort, apiVars, meterVars, workerVars
<1>8. ASSUME NEW k \in Keys, LeaseExpires(k) PROVE FinalStep
  BY <1>8 DEF LeaseExpires, apiVars, meterVars, workerVars
<1>9. ASSUME NEW k \in Keys, BackoffElapses(k) PROVE FinalStep
  BY <1>9 DEF BackoffElapses, apiVars, meterVars, workerVars
<1>10. ASSUME NEW w \in Workers, ClaimNext(w) PROVE FinalStep
  BY <1>10 DEF ClaimNext, Claimable, FreshToken, apiVars, meterVars,
               workerVars
<1>11. ASSUME NEW w \in Workers, MarkRunning(w) PROVE FinalStep
  BY <1>11 DEF MarkRunning, GoTo, apiVars, meterVars, workerVars
<1>12. ASSUME NEW w \in Workers, Generate(w) PROVE FinalStep
  BY <1>12 DEF Generate, GoTo, apiVars, meterVars, workerVars
<1>13. ASSUME NEW w \in Workers, SaveReport(w) PROVE FinalStep
  BY <1>13 DEF SaveReport, GoTo, apiVars, meterVars, workerVars
<1>14. ASSUME NEW w \in Workers, ConsumeQuota(w) PROVE FinalStep
  BY <1>14 DEF ConsumeQuota, GoTo, Consume, apiVars, meterVars, workerVars
<1>15. ASSUME NEW w \in Workers, QuotaExceeded(w) PROVE FinalStep
  BY <1>15 DEF QuotaExceeded, GoTo, apiVars, meterVars, workerVars
<1>16. ASSUME NEW w \in Workers, FinishQuery(w) PROVE FinalStep
  BY <1>16 DEF FinishQuery, GoTo, apiVars, meterVars, workerVars
<1>17. ASSUME NEW w \in Workers, FinishJob(w) PROVE FinalStep
  BY <1>17 DEF FinishJob, GoTo, apiVars, meterVars, workerVars
<1>18. ASSUME NEW w \in Workers, FailQuery(w) PROVE FinalStep
  BY <1>18 DEF FailQuery, GoTo, apiVars, meterVars, workerVars
<1>19. ASSUME NEW w \in Workers, FailJob(w) PROVE FinalStep
  BY <1>19 DEF FailJob, GoTo, apiVars, meterVars, workerVars
<1>20. ASSUME NEW w \in Workers, CompleteClaim(w) PROVE FinalStep
  BY <1>20 DEF CompleteClaim, Release, HoldsRow, apiVars, meterVars,
               workerVars
<1>21. ASSUME NEW w \in Workers, RecordFailure(w) PROVE FinalStep
  <2> HIDE DEF TypeOK
  <2>1. RecordEffect(w, claim[w].key)
    BY <1>21, RecordFailureEffect
  <2>2. QED
    BY <2>1 DEF TypeOK, RecordEffect, Release, HoldsRow
<1>22. ASSUME NEW w \in Workers, GenerationRaises(w) PROVE FinalStep
  BY <1>22 DEF GenerationRaises, apiVars, meterVars, workerVars
<1>23. ASSUME NEW w \in Workers, HandlerRaises(w) PROVE FinalStep
  BY <1>23 DEF HandlerRaises, apiVars, meterVars, workerVars
<1>24. ASSUME NEW w \in Workers, Crash(w) PROVE FinalStep
  BY <1>24 DEF Crash, Release, apiVars, meterVars, workerVars
<1>25. CASE UNCHANGED vars
  BY <1>25 DEF vars, apiVars, meterVars, workerVars
<1>26. QED
  BY <1>1, <1>2, <1>3, <1>4, <1>5, <1>6, <1>7, <1>8, <1>9, <1>10, <1>11,
     <1>12, <1>13, <1>14, <1>15, <1>16, <1>17, <1>18, <1>19, <1>20, <1>21,
     <1>22, <1>23, <1>24, <1>25
     DEF Next, SubmitQuery, LegacyRequest, TimePasses, WorkerStep, WorkerFault

\* Enqueueing opens new or failed work and leaves other work alone.
LEMMA EnqueueContract ==
  ASSUME TypeOK, NEW k \in Keys, Enqueue(k), report' = report, UNCHANGED meterVars
  PROVE  Contract!ContractNext \/ UNCHANGED Contract!contractVars
<1> USE DEF TypeOK, Row, RowStatus, OpenStatus
<1>1. /\ \A j \in Keys : j # k => outbox'[j] = outbox[j]
      /\ outbox'[k].status = IF outbox[k].status = "completed" THEN "completed" ELSE "pending"
  BY DEF Enqueue, RequeuedStatus
<1>2. CASE outbox[k].status \in {"none", "failed"}
  <2>1. Phase' = [Phase EXCEPT ![k] = "open"]
    BY <1>1, <1>2 DEF Phase
  <2>2. Phase[k] \in {"new", "failed"}
    BY <1>2 DEF Phase
  <2>3. QED
    BY <2>1, <2>2 DEF Contract!ContractNext, Contract!Open, Delivered, meterVars
<1>3. CASE outbox[k].status \notin {"none", "failed"}
  <2>1. Phase' = Phase
    BY <1>1, <1>3 DEF Phase
  <2>2. QED
    BY <2>1 DEF Contract!contractVars, Delivered, meterVars
<1>4. QED
  BY <1>2, <1>3

\* The phase of a key whose row ends follows the row.
LEMMA PhaseEnds ==
  ASSUME NEW k \in Keys, NEW s \in {"completed", "failed"},
         outbox[k].status = "running", outbox'[k].status = s,
         \A j \in Keys : j # k => outbox'[j] = outbox[j]
  PROVE  Phase' = [Phase EXCEPT ![k] = s] /\ Phase[k] = "open"
BY DEF Phase, OpenStatus

\* Every step is a step of the contract or none.
LEMMA ContractStep ==
  ASSUME IInv, [Next]_vars
  PROVE  Contract!ContractNext \/ UNCHANGED Contract!contractVars
<1> USE ConstantsAssumption DEF IInv, TypeOK, Row, Claim, NoClaim, RowStatus,
                                ReportStatus, Busy, Trying, OpenStatus,
                                Phase, Delivered, Contract!contractVars
<1>1. ASSUME NEW k \in Keys, CreateQuery(k) PROVE Contract!ContractNext \/ UNCHANGED Contract!contractVars
  <2>1. Enqueue(k) /\ report' = report /\ UNCHANGED meterVars
    BY <1>1 DEF CreateQuery, apiVars, meterVars, workerVars
  <2>2. QED
    BY <2>1, EnqueueContract
<1>2. ASSUME NEW k \in Keys, Resubmit(k) PROVE Contract!ContractNext \/ UNCHANGED Contract!contractVars
  <2>1. Enqueue(k) /\ report' = report /\ UNCHANGED meterVars
    BY <1>2 DEF Resubmit, apiVars, meterVars, workerVars
  <2>2. QED
    BY <2>1, EnqueueContract
<1>3. ASSUME NEW k \in Keys, Requeue(k) PROVE Contract!ContractNext \/ UNCHANGED Contract!contractVars
  <2>1. Enqueue(k) /\ report' = report /\ UNCHANGED meterVars
    BY <1>3 DEF Requeue, apiVars, meterVars, workerVars
  <2>2. QED
    BY <2>1, EnqueueContract
<1>4. ASSUME NEW k \in Keys, LegacyClaimJob(k) PROVE Contract!ContractNext \/ UNCHANGED Contract!contractVars
  BY IInv, <1>4 DEF LegacyClaimJob, apiVars, meterVars, workerVars
<1>5. ASSUME NEW k \in Keys, LegacyMarkQuery(k) PROVE Contract!ContractNext \/ UNCHANGED Contract!contractVars
  BY IInv, <1>5 DEF LegacyMarkQuery, apiVars, meterVars, workerVars
<1>6. ASSUME NEW k \in Keys, LegacyEnqueue(k) PROVE Contract!ContractNext \/ UNCHANGED Contract!contractVars
  <2>1. Enqueue(k) /\ report' = report /\ UNCHANGED meterVars
    BY <1>6 DEF LegacyEnqueue, apiVars, meterVars, workerVars
  <2>2. QED
    BY <2>1, EnqueueContract
<1>7. ASSUME NEW k \in Keys, LegacyAbort(k) PROVE Contract!ContractNext \/ UNCHANGED Contract!contractVars
  BY IInv, <1>7 DEF LegacyAbort, apiVars, meterVars, workerVars
<1>8. ASSUME NEW k \in Keys, LeaseExpires(k) PROVE Contract!ContractNext \/ UNCHANGED Contract!contractVars
  BY IInv, <1>8 DEF LeaseExpires, apiVars, meterVars, workerVars
<1>9. ASSUME NEW k \in Keys, BackoffElapses(k) PROVE Contract!ContractNext \/ UNCHANGED Contract!contractVars
  BY IInv, <1>9 DEF BackoffElapses, apiVars, meterVars, workerVars
<1>10. ASSUME NEW w \in Workers, ClaimNext(w) PROVE Contract!ContractNext \/ UNCHANGED Contract!contractVars
  BY IInv, <1>10 DEF ClaimNext, Claimable, FreshToken, apiVars, meterVars,
                     workerVars
<1>11. ASSUME NEW w \in Workers, MarkRunning(w) PROVE Contract!ContractNext \/ UNCHANGED Contract!contractVars
  BY IInv, <1>11 DEF MarkRunning, GoTo, apiVars, meterVars, workerVars
<1>12. ASSUME NEW w \in Workers, Generate(w) PROVE Contract!ContractNext \/ UNCHANGED Contract!contractVars
  BY IInv, <1>12 DEF Generate, GoTo, apiVars, meterVars, workerVars
<1>13. ASSUME NEW w \in Workers, SaveReport(w) PROVE Contract!ContractNext \/ UNCHANGED Contract!contractVars
  <2> DEFINE k == claim[w].key
  <2>1. k \in Keys /\ Phase[k] # "new"
    BY <1>13 DEF IInv, RowsExist, SaveReport, GoTo
  <2>2. Delivered' = Delivered \union {k} /\ UNCHANGED <<outbox, metered, used>>
    BY <1>13, <2>1 DEF IInv, ProgressRecorded, SaveReport, GoTo, meterVars
  <2>3. Phase' = Phase
    BY <2>2
  <2> HIDE DEF Phase, Delivered
  <2>4. QED
    BY <2>1, <2>2, <2>3 DEF Contract!ContractNext, Contract!Deliver
<1>14. ASSUME NEW w \in Workers, ConsumeQuota(w) PROVE Contract!ContractNext \/ UNCHANGED Contract!contractVars
  <2> DEFINE k == claim[w].key
  <2>1. k \in Keys /\ k \in Delivered
    BY <1>14 DEF IInv, ProgressRecorded, ConsumeQuota, GoTo
  <2>2. CASE UNCHANGED meterVars
    BY <1>14, <2>2 DEF ConsumeQuota, meterVars
  <2>3. CASE ~ UNCHANGED meterVars
    BY <1>14, <2>1, <2>3 DEF ConsumeQuota, Consume, Contract!ContractNext, Contract!Charge
  <2>4. QED
    BY <2>2, <2>3
<1>15. ASSUME NEW w \in Workers, QuotaExceeded(w) PROVE Contract!ContractNext \/ UNCHANGED Contract!contractVars
  BY IInv, <1>15 DEF QuotaExceeded, GoTo, apiVars, meterVars, workerVars
<1>16. ASSUME NEW w \in Workers, FinishQuery(w) PROVE Contract!ContractNext \/ UNCHANGED Contract!contractVars
  BY IInv, <1>16 DEF FinishQuery, GoTo, apiVars, meterVars, workerVars
<1>17. ASSUME NEW w \in Workers, FinishJob(w) PROVE Contract!ContractNext \/ UNCHANGED Contract!contractVars
  BY IInv, <1>17 DEF FinishJob, GoTo, apiVars, meterVars, workerVars
<1>18. ASSUME NEW w \in Workers, FailQuery(w) PROVE Contract!ContractNext \/ UNCHANGED Contract!contractVars
  BY IInv, <1>18 DEF FailQuery, GoTo, apiVars, meterVars, workerVars
<1>19. ASSUME NEW w \in Workers, FailJob(w) PROVE Contract!ContractNext \/ UNCHANGED Contract!contractVars
  BY IInv, <1>19 DEF FailJob, GoTo, apiVars, meterVars, workerVars
<1>20. ASSUME NEW w \in Workers, CompleteClaim(w) PROVE Contract!ContractNext \/ UNCHANGED Contract!contractVars
  <2> DEFINE k == claim[w].key
  <2>1. k \in Keys /\ k \in Delivered /\ (k \in CPlusKeys => k \in metered)
    BY <1>20 DEF IInv, ProgressRecorded, CompleteClaim
  <2>2. CASE HoldsRow(w)
    <3>1. Phase' = [Phase EXCEPT ![k] = "completed"] /\ Phase[k] = "open"
      <4>1. outbox[k].status = "running" /\ outbox'[k].status = "completed"
        BY <1>20, <2>1, <2>2 DEF CompleteClaim, HoldsRow
      <4>2. \A j \in Keys : j # k => outbox'[j] = outbox[j]
        BY <1>20, <2>1, <2>2 DEF CompleteClaim
      <4>3. QED
        BY <2>1, <4>1, <4>2, PhaseEnds
    <3>2. UNCHANGED <<Delivered, metered, used>>
      BY <1>20 DEF CompleteClaim, meterVars
    <3> HIDE DEF Phase, Delivered
    <3>3. QED
      BY <2>1, <3>1, <3>2 DEF Contract!ContractNext, Contract!Complete
  <2>3. CASE ~HoldsRow(w)
    BY <1>20, <2>3 DEF CompleteClaim, meterVars
  <2>4. QED
    BY <2>2, <2>3
<1>21. ASSUME NEW w \in Workers, RecordFailure(w) PROVE Contract!ContractNext \/ UNCHANGED Contract!contractVars
  <2> DEFINE k == claim[w].key
  <2>1. RecordEffect(w, k)
    BY <1>21, RecordFailureEffect DEF IInv
  <2>2. Delivered' = Delivered /\ UNCHANGED <<metered, used>>
    BY <2>1 DEF RecordEffect
  <2>3. CASE HoldsRow(w) /\ outbox'[k].status = "failed"
    <3>1. k \in Keys /\ \A j \in Keys : j # k => outbox'[j] = outbox[j]
      BY <2>1 DEF RecordEffect
    <3>2. Phase' = [Phase EXCEPT ![k] = "failed"] /\ Phase[k] = "open"
      BY <2>3, <3>1, PhaseEnds DEF HoldsRow
    <3> HIDE DEF Phase
    <3>3. QED
      BY <2>2, <3>1, <3>2 DEF Contract!ContractNext, Contract!GiveUp
  <2>4. CASE HoldsRow(w) /\ outbox'[k].status = "retryable"
    BY <2>1, <2>2, <2>4 DEF IInv, RecordEffect, HoldsRow
  <2>5. CASE ~HoldsRow(w)
    BY <2>1, <2>2, <2>5 DEF RecordEffect
  <2>6. QED
    BY <2>1, <2>3, <2>4, <2>5 DEF RecordEffect
<1>22. ASSUME NEW w \in Workers, GenerationRaises(w) PROVE Contract!ContractNext \/ UNCHANGED Contract!contractVars
  BY IInv, <1>22 DEF GenerationRaises, apiVars, meterVars, workerVars
<1>23. ASSUME NEW w \in Workers, HandlerRaises(w) PROVE Contract!ContractNext \/ UNCHANGED Contract!contractVars
  BY IInv, <1>23 DEF HandlerRaises, apiVars, meterVars, workerVars
<1>24. ASSUME NEW w \in Workers, Crash(w) PROVE Contract!ContractNext \/ UNCHANGED Contract!contractVars
  BY IInv, <1>24 DEF Crash, Release, apiVars, meterVars, workerVars
<1>25. CASE UNCHANGED vars
  BY <1>25 DEF vars, apiVars, meterVars, workerVars
<1>26. QED
  BY <1>1, <1>2, <1>3, <1>4, <1>5, <1>6, <1>7, <1>8, <1>9, <1>10, <1>11,
     <1>12, <1>13, <1>14, <1>15, <1>16, <1>17, <1>18, <1>19, <1>20, <1>21,
     <1>22, <1>23, <1>24, <1>25
     DEF Next, SubmitQuery, LegacyRequest, TimePasses, WorkerStep, WorkerFault

\* The initial states satisfy the invariant.
LEMMA InitInvariant == Init => IInv
<1> SUFFICES ASSUME Init PROVE IInv
  OBVIOUS
<1> USE ConstantsAssumption DEF Init
<1>1. TypeOK
  BY DEF TypeOK, Row, Claim, NoClaim, NoToken, JobStatus, ReportStatus, RowStatus, Busy
<1>2. RowsExist /\ TokensFresh /\ ClaimsDistinct /\ ProgressRecorded
  BY DEF RowsExist, TokensFresh, ClaimsDistinct, ProgressRecorded
<1>3. CompletedIsPaidFor /\ RetryHasBudget /\ PendingJobHasRow /\ FirstClaimFinishes
  BY DEF CompletedIsPaidFor, RetryHasBudget, PendingJobHasRow, FirstClaimFinishes
<1>4. MetersExact
  <2>1. {k \in Keys : query[k] # "none"} = {}
    OBVIOUS
  <2>2. QED
    BY <2>1, FS_EmptySet DEF MetersExact
<1>5. QED
  BY <1>1, <1>2, <1>3, <1>4 DEF IInv

\* The invariant is inductive: what the pipeline's steps need of each other
\* (tokens for the retry budget, progress for what completion stands for) is
\* all in it.
THEOREM Invariance == Spec => []IInv
<1>1. ASSUME IInv, [Next]_vars PROVE IInv'
  BY <1>1, TypeStep, RowsStep, TokensStep, ProgressStep, MetersStep, BudgetStep,
     FirstClaimStep DEF IInv
<1>2. QED
  BY <1>1, InitInvariant, PTL DEF Spec

\* Type correctness for any set of keys and workers and any limits; attempts
\* never pass max_attempts.
THEOREM TypeCorrect == Spec => []TypeOK
<1>1. IInv => TypeOK
  BY DEF IInv
<1>2. QED
  BY <1>1, Invariance, PTL

\* Two workers never share a claim of a row (claim_sql's fresh token).
THEOREM ClaimsAreDistinct == Spec => []ClaimsDistinct
<1>1. IInv => ClaimsDistinct
  BY DEF IInv
<1>2. QED
  BY <1>1, Invariance, PTL

\* Completed work has its report and, for C Plus, was charged; every key is
\* charged once whatever is retried.
THEOREM DeliveryIsPaidForOnce == Spec => [](CompletedIsPaidFor /\ MetersExact)
<1>1. IInv => CompletedIsPaidFor /\ MetersExact
  BY DEF IInv
<1>2. QED
  BY <1>1, Invariance, PTL

\* A scheduled retry is always possible and a pending job has its row.
THEOREM RetriesArePossible == Spec => [](RetryHasBudget /\ PendingJobHasRow)
<1>1. IInv => RetryHasBudget /\ PendingJobHasRow
  BY DEF IInv
<1>2. QED
  BY <1>1, Invariance, PTL

\* All of it together, with the job of a row completed by its first claim.
THEOREM WorkAccounted == Spec => []WorkIsAccounted
<1>1. IInv => WorkIsAccounted
  BY DEF IInv, WorkIsAccounted, CompletedJobAgrees, FirstClaimFinishes
<1>2. QED
  BY <1>1, Invariance, PTL

\* Only the current claim's worker finishes a row: complete_claim and
\* record_failure are fenced by the token.
THEOREM FinishIsFenced == Spec => FencedFinish
<1>1. ASSUME IInv, [Next]_vars PROVE [FencedStep]_vars
  BY <1>1, FencedStepHolds DEF IInv
<1>2. QED
  BY <1>1, Invariance, PTL DEF Spec, FencedFinish, FencedStep

\* A completed row stays as it is.
THEOREM CompletionIsFinal == Spec => CompletedIsFinal
<1>1. ASSUME IInv, [Next]_vars PROVE [FinalStep]_vars
  BY <1>1, FinalStepHolds DEF IInv
<1>2. QED
  BY <1>1, Invariance, PTL DEF Spec, CompletedIsFinal, FinalStep

\* The pipeline implements the contract: deliveries before completion, one
\* charge per key within the allowance, completion once.
THEOREM Implementation == Spec => ImplementsContract
<1>1. Init => Contract!ContractInit
  <2> SUFFICES ASSUME Init PROVE Contract!ContractInit
    OBVIOUS
  <2>1. \A k \in Keys : outbox[k].status = "none" /\ report[k] = "none"
    BY DEF Init
  <2>2. Phase = [k \in Keys |-> "new"]
    BY <2>1 DEF Phase, OpenStatus
  <2>3. Delivered = {}
    BY <2>1 DEF Delivered
  <2>4. metered = {} /\ used = 0
    BY DEF Init
  <2>5. QED
    BY <2>2, <2>3, <2>4 DEF Contract!ContractInit
<1>2. ASSUME IInv, [Next]_vars
      PROVE  [Contract!ContractNext]_(Contract!contractVars)
  BY <1>2, ContractStep DEF Contract!contractVars
<1>3. QED
  BY <1>1, <1>2, Invariance, PTL
     DEF Spec, ImplementsContract, Contract!ContractSpec, Contract!contractVars
=============================================================================
