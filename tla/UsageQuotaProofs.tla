-------------------------- MODULE UsageQuotaProofs --------------------------
(***************************************************************************)
(* Proofs about UsageQuota: the tables agree, a request is charged once    *)
(* and within the limit, callers get true answers, and the concurrent      *)
(* transactions implement the atomic meter of UsageMeter.                  *)
(***************************************************************************)
EXTENDS UsageQuota, FiniteSetTheorems, TLAPS

EventsOf(p) == {e \in events : e.period = p}

NewEvent(t) == [key |-> req[t].key, fp |-> req[t].fp, period |-> inPeriod[t]]

\* Billing moves limits and nothing else.
LEMMA SyncMovesLimits ==
  ASSUME TypeOK, SyncLimit
  PROVE  /\ quota' \in [Periods -> Quota]
         /\ \A p \in Periods : quota'[p].consumed = quota[p].consumed
<1>1. period \in Periods /\ quota[period] \in Quota /\ quota \in [Periods -> Quota]
  BY DEF TypeOK
<1>2. PICK m \in Nat : quota' = [quota EXCEPT ![period].exists = TRUE, ![period].limit = m]
  BY <1>1, QuotaAssumption DEF SyncLimit, Quota
<1>3. DEFINE row == [quota[period] EXCEPT !.exists = TRUE, !.limit = m]
<1>4. row \in Quota /\ row.consumed = quota[period].consumed
  BY <1>1 DEF Quota
<1>5. quota' = [quota EXCEPT ![period] = row]
  BY <1>1, <1>2
<1> HIDE DEF row
<1>6. QED
  BY <1>1, <1>4, <1>5

\* Every step keeps the types.
LEMMA TypeStep ==
  ASSUME IInv, [Next]_vars
  PROVE  TypeOK'
<1> USE QuotaAssumption DEF IInv, TypeOK, Quota, Event, HasLock, HasRow, Outcomes, Periods
<1>1. ASSUME NEW t \in Txns, Begin(t) PROVE TypeOK'
  BY <1>1 DEF Begin, GoTo, store
<1>2. ASSUME NEW t \in Txns, LockReplay(t) PROVE TypeOK'
  BY <1>2 DEF LockReplay, GoTo, store
<1>3. ASSUME NEW t \in Txns, Replay(t) PROVE TypeOK'
  BY <1>3 DEF Replay, End, store
<1>4. ASSUME NEW t \in Txns, NoPrior(t) PROVE TypeOK'
  BY <1>4 DEF NoPrior, GoTo, store
<1>5. ASSUME NEW t \in Txns, NotConfigured(t) PROVE TypeOK'
  BY <1>5 DEF NotConfigured, End, store
<1>6. ASSUME NEW t \in Txns, ReadLimit(t) PROVE TypeOK'
  <2>1. \A l \in plan : l \in Limits
    OBVIOUS
  <2>2. limit' \in [Txns -> Limits \union {0}]
    BY <1>6, <2>1 DEF ReadLimit
  <2>3. QED
    BY <1>6, <2>2 DEF ReadLimit, GoTo, store
<1>7. ASSUME NEW t \in Txns, TakeRow(t) PROVE TypeOK'
  BY <1>7 DEF TakeRow, GoTo, store
<1>8. ASSUME NEW t \in Txns, Exceeded(t) PROVE TypeOK'
  BY <1>8 DEF Exceeded, End, store
<1>9. ASSUME NEW t \in Txns, Admit(t) PROVE TypeOK'
  BY <1>9 DEF Admit, GoTo, store
<1>10. ASSUME NEW t \in Txns, Collide(t) PROVE TypeOK'
  BY <1>10 DEF Collide, End, store
<1>11. ASSUME NEW t \in Txns, Record(t) PROVE TypeOK'
  BY <1>11 DEF Record, GoTo, store
<1>12. ASSUME NEW t \in Txns, Commit(t) PROVE TypeOK'
  <2>1. req[t] \in Requests /\ inPeriod[t] \in Periods /\ limit[t] \in Nat
    BY <1>12 DEF Commit
  <2>2. NewEvent(t) \in Event
    BY <2>1 DEF NewEvent
  <2>3. quota' \in [Periods -> Quota]
    BY <1>12, <2>1 DEF Commit
  <2>4. QED
    <3>1. events' \subseteq Event /\ registry' \subseteq Requests
      BY <1>12, <2>1, <2>2 DEF Commit, NewEvent
    <3>2. /\ pc' = [pc EXCEPT ![t] = "idle"]
          /\ outcome' = [outcome EXCEPT ![t] = "consumed"]
          /\ inPeriod' = [inPeriod EXCEPT ![t] = 1]
          /\ limit' = [limit EXCEPT ![t] = 0]
          /\ UNCHANGED <<plan, period, req>>
      BY <1>12 DEF Commit, End
    <3> HIDE DEF Event, Quota, IInv
    <3>3. /\ pc' \in [Txns -> HasLock \union {"idle", "waiting"}]
          /\ outcome' \in [Txns -> Outcomes]
          /\ limit' \in [Txns -> Limits \union {0}]
          /\ inPeriod' \in [Txns -> Periods]
      BY <3>2 DEF IInv
    <3>4. \A u \in Txns : pc'[u] # "idle" => req'[u] \in Requests
      BY <3>2 DEF IInv
    <3>5. QED
      BY <2>3, <3>1, <3>2, <3>3, <3>4 DEF IInv
<1>13. ASSUME NEW t \in Txns, Abort(t) PROVE TypeOK'
  BY <1>13 DEF Abort, End, store
<1>14. CASE EditPlan
  BY <1>14 DEF EditPlan, store
<1>15. CASE SyncLimit
  BY <1>15, SyncMovesLimits DEF SyncLimit
<1>16. CASE NextPeriod
  BY <1>16 DEF NextPeriod, store
<1>17. CASE UNCHANGED vars
  BY <1>17 DEF vars, store
<1>18. QED
  BY <1>1, <1>2, <1>3, <1>4, <1>5, <1>6, <1>7, <1>8, <1>9, <1>10, <1>11,
     <1>12, <1>13, <1>14, <1>15, <1>16, <1>17 DEF Next, Step

\* Only a commit writes events and moves a counter's consumed units.
LEMMA StoreStep ==
  ASSUME IInv, [Next]_vars
  PROVE  \/ /\ UNCHANGED <<events, registry>>
            /\ \A p \in Periods : quota'[p].consumed = quota[p].consumed
         \/ \E t \in Txns : Commit(t)
<1> USE DEF IInv, TypeOK
<1>1. ASSUME NEW t \in Txns,
             \/ Begin(t) \/ LockReplay(t) \/ Replay(t) \/ NoPrior(t)
             \/ NotConfigured(t) \/ ReadLimit(t) \/ TakeRow(t) \/ Exceeded(t)
             \/ Admit(t) \/ Collide(t) \/ Record(t) \/ Abort(t)
      PROVE  UNCHANGED store
  BY <1>1 DEF Begin, LockReplay, Replay, NoPrior, NotConfigured, ReadLimit,
              TakeRow, Exceeded, Admit, Collide, Record, Abort
<1>2. CASE SyncLimit
  BY <1>2, SyncMovesLimits DEF SyncLimit
<1>3. CASE EditPlan \/ NextPeriod \/ UNCHANGED vars
  BY <1>3 DEF EditPlan, NextPeriod, vars, store
<1>4. QED
  BY <1>1, <1>2, <1>3 DEF Next, Step, store

\* A transaction that commits has an event of its own that clashes with none.
LEMMA CommitIsNew ==
  ASSUME IInv, NEW t \in Txns, Commit(t)
  PROVE  /\ req[t] \in Requests /\ inPeriod[t] \in Periods
         /\ NewEvent(t) \in Event /\ NewEvent(t) \notin events
         /\ events' = events \union {NewEvent(t)}
         /\ registry' = registry \union {req[t]}
         /\ \A e \in events : e.key # req[t].key /\ e.fp # req[t].fp
         /\ quota'[inPeriod[t]].consumed = quota[inPeriod[t]].consumed + 1
         /\ quota'[inPeriod[t]].limit = limit[t]
         /\ \A p \in Periods \ {inPeriod[t]} : quota'[p] = quota[p]
<1>1. req[t] \in Requests /\ inPeriod[t] \in Periods /\ quota \in [Periods -> Quota]
  BY DEF IInv, TypeOK, Commit
<1>2. \A e \in events : e.key # req[t].key /\ e.fp # req[t].fp
  BY DEF IInv, ChecksHold, Commit, Clashes
<1>3. NewEvent(t) \in Event /\ NewEvent(t) \notin events
  BY <1>1, <1>2 DEF NewEvent, Event
<1>4. events' = events \union {NewEvent(t)} /\ registry' = registry \union {req[t]}
  BY DEF Commit, NewEvent
<1>5. /\ quota'[inPeriod[t]].consumed = quota[inPeriod[t]].consumed + 1
      /\ quota'[inPeriod[t]].limit = limit[t]
      /\ \A p \in Periods \ {inPeriod[t]} : quota'[p] = quota[p]
  BY <1>1 DEF Commit
<1>6. QED
  BY <1>1, <1>2, <1>3, <1>4, <1>5

\* The three tables move together.
LEMMA TablesStep ==
  ASSUME IInv, [Next]_vars
  PROVE  IsFiniteSet(events)' /\ TablesAgree' /\ ChargedOnce'
<1>1. CASE /\ UNCHANGED <<events, registry>>
           /\ \A p \in Periods : quota'[p].consumed = quota[p].consumed
  BY <1>1 DEF IInv, TablesAgree, ChargedOnce
<1>2. ASSUME NEW t \in Txns, Commit(t)
      PROVE  IsFiniteSet(events)' /\ TablesAgree' /\ ChargedOnce'
  <2> DEFINE n == NewEvent(t)
             q == inPeriod[t]
  <2>1. /\ n \in Event /\ n \notin events /\ events' = events \union {n}
        /\ q \in Periods
        /\ registry' = registry \union {req[t]}
        /\ \A e \in events : e.key # req[t].key /\ e.fp # req[t].fp
        /\ quota'[q].consumed = quota[q].consumed + 1
        /\ \A p \in Periods \ {q} : quota'[p] = quota[p]
    BY <1>2, CommitIsNew
  <2>2. n.key = req[t].key /\ n.fp = req[t].fp /\ n.period = q
    BY DEF NewEvent
  <2>3. [key |-> n.key, fp |-> n.fp] = req[t]
    BY <1>2, <2>2, CommitIsNew, QuotaAssumption
  <2> HIDE DEF n, q
  <2>4. IsFiniteSet(events')
    BY <2>1, FS_AddElement DEF IInv
  <2>5. ASSUME NEW p \in Periods
        PROVE  quota'[p].consumed = Cardinality({e \in events' : e.period = p})
    <3>1. quota[p].consumed = Cardinality(EventsOf(p))
      BY DEF IInv, TablesAgree, EventsOf
    <3>2. CASE p = q
      <4>1. {e \in events' : e.period = p} = EventsOf(p) \union {n} /\ n \notin EventsOf(p)
        BY <2>1, <2>2, <3>2 DEF EventsOf
      <4>2. IsFiniteSet(EventsOf(p))
        BY FS_Subset DEF IInv, EventsOf
      <4>3. Cardinality(EventsOf(p) \union {n}) = Cardinality(EventsOf(p)) + 1
        BY <4>1, <4>2, FS_AddElement
      <4>4. QED
        BY <2>1, <3>1, <3>2, <4>1, <4>3
    <3>3. CASE p # q
      <4>1. {e \in events' : e.period = p} = EventsOf(p)
        BY <2>1, <2>2, <3>3 DEF EventsOf
      <4>2. QED
        BY <2>1, <3>1, <3>3, <4>1
    <3>4. QED
      BY <3>2, <3>3
  <2>6. registry' = {[key |-> e.key, fp |-> e.fp] : e \in events'}
    BY <2>1, <2>3 DEF IInv, TablesAgree
  <2>7. ChargedOnce'
    BY <2>1, <2>2 DEF IInv, ChargedOnce
  <2>8. QED
    BY <2>4, <2>5, <2>6, <2>7 DEF TablesAgree, Periods
<1>3. QED
  BY <1>1, <1>2, StoreStep

\* Locks are exclusive.
LEMMA LocksStep ==
  ASSUME IInv, [Next]_vars
  PROVE  LocksExclude'
<1> USE DEF IInv, TypeOK, LocksExclude, HasLock, HasRow
<1>1. ASSUME NEW t \in Txns, Begin(t) PROVE LocksExclude'
  BY <1>1 DEF Begin, GoTo
<1>2. ASSUME NEW t \in Txns, LockReplay(t) PROVE LocksExclude'
  BY <1>2 DEF LockReplay, ReplayFree, GoTo
<1>3. ASSUME NEW t \in Txns,
             Replay(t) \/ NotConfigured(t) \/ Exceeded(t) \/ Collide(t) \/ Commit(t) \/ Abort(t)
      PROVE  LocksExclude'
  BY <1>3 DEF Replay, NotConfigured, Exceeded, Collide, Commit, Abort, End
<1>4. ASSUME NEW t \in Txns, NoPrior(t) \/ ReadLimit(t) \/ Admit(t) \/ Record(t)
      PROVE  LocksExclude'
  BY <1>4 DEF NoPrior, ReadLimit, Admit, Record, GoTo
<1>5. ASSUME NEW t \in Txns, TakeRow(t) PROVE LocksExclude'
  BY <1>5 DEF TakeRow, RowFree, GoTo
<1>6. CASE EditPlan \/ SyncLimit \/ NextPeriod \/ UNCHANGED vars
  BY <1>6 DEF EditPlan, SyncLimit, NextPeriod, vars
<1>7. QED
  BY <1>1, <1>2, <1>3, <1>4, <1>5, <1>6 DEF Next, Step

\* A committing transaction shares neither its request nor its period with
\* one that holds the same kind of lock.
LEMMA OthersDiffer ==
  ASSUME LocksExclude, ChecksHold, NEW t \in Txns, pc[t] = "recorded",
         NEW u \in Txns \ {t}, pc[u] \in HasLock
  PROVE  /\ req[u] # req[t]
         /\ pc[u] # "locked" => req[u] \notin registry
         /\ pc[u] \in HasRow => inPeriod[u] # inPeriod[t]
BY DEF LocksExclude, ChecksHold, HasLock, HasRow

\* What a transaction has checked stays true while others move.
LEMMA ChecksStep ==
  ASSUME IInv, [Next]_vars
  PROVE  ChecksHold'
<1> USE DEF IInv, TypeOK, ChecksHold, HasLock, HasRow, HasRoom
<1>1. ASSUME NEW t \in Txns, Begin(t) PROVE ChecksHold'
  BY <1>1 DEF Begin, GoTo, store
<1>2. ASSUME NEW t \in Txns, LockReplay(t) PROVE ChecksHold'
  BY <1>2 DEF LockReplay, GoTo, store
<1>3. ASSUME NEW t \in Txns,
             Replay(t) \/ NotConfigured(t) \/ Exceeded(t) \/ Collide(t) \/ Abort(t)
      PROVE  ChecksHold'
  BY <1>3 DEF Replay, NotConfigured, Exceeded, Collide, Abort, End, store
<1>4. ASSUME NEW t \in Txns, NoPrior(t) PROVE ChecksHold'
  BY <1>4, QuotaAssumption DEF NoPrior, Prior, GoTo, store
<1>5. ASSUME NEW t \in Txns, ReadLimit(t) PROVE ChecksHold'
  BY <1>5 DEF ReadLimit, GoTo, store
<1>6. ASSUME NEW t \in Txns, TakeRow(t) PROVE ChecksHold'
  BY <1>6 DEF TakeRow, GoTo, store
<1>7. ASSUME NEW t \in Txns, Admit(t) PROVE ChecksHold'
  BY <1>7 DEF Admit, GoTo, store
<1>8. ASSUME NEW t \in Txns, Record(t) PROVE ChecksHold'
  BY <1>8 DEF Record, CanInsert, Clashes, GoTo, store
<1>9. ASSUME NEW t \in Txns, Commit(t) PROVE ChecksHold'
  <2>1. /\ inPeriod[t] \in Periods
        /\ events' = events \union {NewEvent(t)}
        /\ registry' = registry \union {req[t]}
        /\ \A p \in Periods \ {inPeriod[t]} : quota'[p] = quota[p]
    BY <1>9, CommitIsNew
  <2>2. NewEvent(t).key = req[t].key /\ NewEvent(t).fp = req[t].fp
    BY DEF NewEvent
  <2>3. /\ pc[t] = "recorded" /\ pc' = [pc EXCEPT ![t] = "idle"]
        /\ inPeriod' = [inPeriod EXCEPT ![t] = 1]
        /\ limit' = [limit EXCEPT ![t] = 0]
        /\ req' = req
    BY <1>9 DEF Commit, End
  <2>4. SUFFICES ASSUME NEW u \in Txns \ {t}, pc[u] \in HasLock
                 PROVE  /\ pc[u] # "locked" => req[u] \notin registry'
                        /\ pc[u] \in {"charging", "recorded"} =>
                             quota'[inPeriod[u]] = quota[inPeriod[u]]
                        /\ pc[u] = "recorded" => \A e \in events' : ~Clashes(e, req[u])
    BY <2>3
  <2>5. pc[u] # "locked" => req[u] \notin registry'
    BY <2>1, <2>3, <2>4, OthersDiffer
  <2>6. pc[u] \in {"charging", "recorded"} => quota'[inPeriod[u]] = quota[inPeriod[u]]
    BY <2>1, <2>3, <2>4, OthersDiffer
  <2>7. pc[u] = "recorded" => \A e \in events' : ~Clashes(e, req[u])
    BY <2>1, <2>2, <2>3, <2>4 DEF Clashes
  <2>8. QED
    BY <2>5, <2>6, <2>7
<1>10. CASE EditPlan \/ NextPeriod \/ UNCHANGED vars
  BY <1>10 DEF EditPlan, NextPeriod, vars, store
<1>11. CASE SyncLimit
  <2>1. \A p \in Periods : quota'[p].consumed = quota[p].consumed
    BY <1>11, SyncMovesLimits
  <2>2. UNCHANGED <<events, registry, pc, req, inPeriod, limit>>
    BY <1>11 DEF SyncLimit
  <2>3. QED
    BY <2>1, <2>2
<1>12. QED
  BY <1>1, <1>2, <1>3, <1>4, <1>5, <1>6, <1>7, <1>8, <1>9, <1>10, <1>11
  DEF Next, Step

\* Answers are true when they are given, and the registry only grows.
LEMMA AnswersStep ==
  ASSUME IInv, [Next]_vars
  PROVE  AnswersAreTrue'
<1> USE DEF IInv, TypeOK, AnswersAreTrue
<1>1. registry \subseteq registry'
  <2>1. ASSUME NEW t \in Txns, Commit(t) PROVE registry \subseteq registry'
    BY <2>1 DEF Commit
  <2>2. QED
    BY <2>1, StoreStep
<1>2. ASSUME NEW t \in Txns, Begin(t) PROVE AnswersAreTrue'
  BY <1>1, <1>2 DEF Begin
<1>3. ASSUME NEW t \in Txns, Replay(t) PROVE AnswersAreTrue'
  BY <1>1, <1>3 DEF Replay, Prior, End, Clashes
<1>4. ASSUME NEW t \in Txns, Collide(t) PROVE AnswersAreTrue'
  <2>1. req[t] \notin registry /\ req[t] \in Requests
    BY <1>4 DEF Collide, ChecksHold, HasLock
  <2>2. PICK e \in registry : Clashes(e, req[t])
    <3>1. PICK e \in events \union registry : Clashes(e, req[t])
      BY <1>4 DEF Collide
    <3>2. CASE e \in events
      <4>1. [key |-> e.key, fp |-> e.fp] \in registry
        BY <3>2 DEF TablesAgree
      <4>2. QED
        BY <3>1, <4>1 DEF Clashes
    <3>3. QED
      BY <3>1, <3>2
  <2>3. e # req[t]
    BY <2>1
  <2>4. QED
    BY <1>1, <1>4, <2>2, <2>3 DEF Collide, End
<1>5. ASSUME NEW t \in Txns, Commit(t) PROVE AnswersAreTrue'
  BY <1>1, <1>5 DEF Commit, End
<1>6. ASSUME NEW t \in Txns, NotConfigured(t) \/ Exceeded(t) \/ Abort(t)
      PROVE  AnswersAreTrue'
  BY <1>1, <1>6 DEF NotConfigured, Exceeded, Abort, End
<1>7. ASSUME NEW t \in Txns,
             \/ LockReplay(t) \/ NoPrior(t) \/ ReadLimit(t) \/ TakeRow(t)
             \/ Admit(t) \/ Record(t)
      PROVE  AnswersAreTrue'
  BY <1>1, <1>7 DEF LockReplay, NoPrior, ReadLimit, TakeRow, Admit, Record
<1>8. CASE EditPlan \/ SyncLimit \/ NextPeriod \/ UNCHANGED vars
  BY <1>1, <1>8 DEF EditPlan, SyncLimit, NextPeriod, vars
<1>9. QED
  BY <1>2, <1>3, <1>4, <1>5, <1>6, <1>7, <1>8 DEF Next, Step

LEMMA InitIInv == Init => IInv
<1> SUFFICES ASSUME Init PROVE IInv
  OBVIOUS
<1>1. TypeOK
  BY QuotaAssumption DEF Init, TypeOK, Quota, Event, HasLock, Outcomes, Periods
<1>2. IsFiniteSet(events)
  BY FS_EmptySet DEF Init
<1>3. TablesAgree
  <2>1. \A p \in Periods : {e \in events : e.period = p} = {}
    BY DEF Init
  <2>2. QED
    BY <2>1, FS_EmptySet DEF Init, TablesAgree
<1>4. ChargedOnce /\ LocksExclude /\ ChecksHold /\ AnswersAreTrue
  BY DEF Init, ChargedOnce, LocksExclude, ChecksHold, AnswersAreTrue, HasLock, HasRow
<1>5. QED
  BY <1>1, <1>2, <1>3, <1>4 DEF IInv

LEMMA StepIInv == IInv /\ [Next]_vars => IInv'
BY TypeStep, TablesStep, LocksStep, ChecksStep, AnswersStep DEF IInv

\* The inductive invariant holds in every reachable state.
THEOREM Invariance == Spec => []IInv
BY InitIInv, StepIInv, PTL DEF Spec

\* Every variable of the quota model keeps its type.
THEOREM TypeCorrect == Spec => []TypeOK
<1>1. IInv => TypeOK
  BY DEF IInv
<1>2. QED
  BY <1>1, Invariance, PTL

\* consume_current_entitlement keeps usage_quotas, usage_events and
\* usage_idempotency consistent with each other.
THEOREM LedgerConsistent == Spec => []TablesAgree
<1>1. IInv => TablesAgree
  BY DEF IInv
<1>2. QED
  BY <1>1, Invariance, PTL

\* No key and no fingerprint is ever charged twice.
THEOREM NoDoubleCharge == Spec => []ChargedOnce
<1>1. IInv => ChargedOnce
  BY DEF IInv
<1>2. QED
  BY <1>1, Invariance, PTL

\* What consume_current_entitlement answers is what the tables say.
THEOREM TrueAnswers == Spec => []AnswersAreTrue
<1>1. IInv => AnswersAreTrue
  BY DEF IInv
<1>2. QED
  BY <1>1, Invariance, PTL

\* Tables, charges and answers agree in every state of every instance.
THEOREM ChargesTrue == Spec => []ChargesAreTrue
<1>1. IInv => ChargesAreTrue
  BY DEF IInv, ChargesAreTrue
<1>2. QED
  BY <1>1, Invariance, PTL

\* A counter that goes up stays within the limit it is stored with.
THEOREM WithinLimit == Spec => ChargesWithinLimit
<1>1. ASSUME IInv, [Next]_vars
      PROVE  \A p \in Periods :
               quota'[p].consumed > quota[p].consumed
               => quota'[p].consumed <= quota'[p].limit
  <2>1. ASSUME NEW t \in Txns, Commit(t), NEW p \in Periods,
               quota'[p].consumed > quota[p].consumed
        PROVE  quota'[p].consumed <= quota'[p].limit
    <3>1. quota[p].consumed \in Nat
      BY <1>1 DEF IInv, TypeOK, Quota
    <3>2. p = inPeriod[t]
      BY <1>1, <2>1, <3>1, CommitIsNew
    <3>3. quota[p].consumed + 1 <= limit[t]
      BY <1>1, <2>1, <3>2 DEF IInv, ChecksHold, HasRoom, Commit
    <3>4. QED
      BY <1>1, <2>1, <3>2, <3>3, CommitIsNew
  <2>2. CASE \A p \in Periods : quota'[p].consumed = quota[p].consumed
    <3>1. \A p \in Periods : quota[p].consumed \in Nat
      BY <1>1 DEF IInv, TypeOK, Quota
    <3>2. QED
      BY <2>2, <3>1
  <2>3. QED
    BY <1>1, <2>1, <2>2, StoreStep
<1>2. QED
  BY <1>1, Invariance, PTL DEF Spec, ChargesWithinLimit

\* The transactions together implement the atomic meter.
THEOREM Implementation == Spec => ImplementsMeter
<1>1. Init => Meter!MeterInit
  BY DEF Init, UsedIn, Meter!MeterInit, Periods
<1>2. ASSUME IInv, [Next]_vars
      PROVE  [Meter!MeterNext]_(Meter!meterSpecVars)
  <2>1. CASE /\ UNCHANGED <<events, registry>>
             /\ \A p \in Periods : quota'[p].consumed = quota[p].consumed
    BY <2>1 DEF Meter!meterSpecVars, UsedIn
  <2>2. ASSUME NEW t \in Txns, Commit(t)
        PROVE  Meter!MeterNext
    <3>1. PICK r \in Requests, p \in Periods : r = req[t] /\ p = inPeriod[t]
      BY <1>2, <2>2, CommitIsNew
    <3>2. /\ events' = events \union {[key |-> r.key, fp |-> r.fp, period |-> p]}
          /\ \A e \in events : e.key # r.key /\ e.fp # r.fp
          /\ quota'[p].consumed = quota[p].consumed + 1
          /\ \A q \in Periods \ {p} : quota'[q] = quota[q]
      BY <1>2, <2>2, <3>1, CommitIsNew DEF NewEvent
    <3>3. limit[t] \in Limits /\ quota[p].consumed + 1 <= limit[t]
      BY <1>2, <2>2, <3>1 DEF IInv, ChecksHold, HasRoom, HasRow, Commit
    <3>4. UsedIn' = [UsedIn EXCEPT ![p] = @ + 1]
      BY <3>2 DEF UsedIn, Periods
    <3>5. UsedIn[p] + 1 <= limit[t]
      BY <3>3 DEF UsedIn
    <3>6. Meter!Charge(r, p)
      BY <3>2, <3>3, <3>4, <3>5 DEF Meter!Charge
    <3>7. QED
      BY <3>6 DEF Meter!MeterNext
  <2>3. QED
    BY <1>2, <2>1, <2>2, StoreStep
<1>3. QED
  BY <1>1, <1>2, Invariance, PTL DEF Spec, ImplementsMeter, Meter!MeterSpec
=============================================================================
