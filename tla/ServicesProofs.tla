-------------------------- MODULE ServicesProofs --------------------------
(***************************************************************************)
(* Proofs about the admin console (BackOffice, BackOfficeViews, PriceBook, *)
(* Checkout, AdminConsole), about the webhook event ledger (WebhookLedger) *)
(* and about metered reads and the transaction importer (Statements,       *)
(* RegionStatistics), each for every value of its constants.               *)
(***************************************************************************)
EXTENDS AdminConsole, WebhookLedger, Statements, FiniteSetTheorems, SequenceTheorems,
        WellFoundedInduction, TLAPS

-----------------------------------------------------------------------------
\* The webhook event ledger (WebhookLedger).

\* An audit row is added at the end.
LEMMA AppendFacts ==
  ASSUME NEW s \in Seq(Classes), NEW c \in Classes
  PROVE  /\ Append(s, c) \in Seq(Classes)
         /\ Append(s, c) # << >>
         /\ Len(Append(s, c)) = Len(s) + 1
         /\ \A i \in 1..Len(s) : Append(s, c)[i] = s[i]
BY AppendProperties

\* A non-empty audit trail has a last class.
LEMMA LastFacts ==
  ASSUME NEW s \in Seq(Classes), s # << >>
  PROVE  Len(s) \in Nat \ {0} /\ Len(s) \in 1..Len(s) /\ s[Len(s)] \in Classes
OBVIOUS

\* Every step keeps the types.
LEMMA EventTypeStep ==
  ASSUME IInv, [Next]_vars
  PROVE  TypeOK'
<1> USE LedgerAssumption DEF IInv, TypeOK, Settled, Owning, Classes
<1>1. ASSUME NEW h \in Handlers, NEW e \in Events, Deliver(h, e) PROVE TypeOK'
  BY <1>1 DEF Deliver, GoTo
<1>2. ASSUME NEW h \in Handlers, ClaimNew(h) PROVE TypeOK'
  BY <1>2 DEF ClaimNew, GoTo
<1>3. ASSUME NEW h \in Handlers, SeenSettled(h) PROVE TypeOK'
  BY <1>3 DEF SeenSettled, Answer
<1>4. ASSUME NEW h \in Handlers, SeenReceived(h) PROVE TypeOK'
  BY <1>4 DEF SeenReceived, Answer
<1>5. ASSUME NEW h \in Handlers, SeenFailed(h) PROVE TypeOK'
  BY <1>5 DEF SeenFailed, GoTo
<1>6. ASSUME NEW h \in Handlers, DeadLetter(h) PROVE TypeOK'
  BY <1>6 DEF DeadLetter, Answer
<1>7. ASSUME NEW h \in Handlers, ReadFailures(h) PROVE TypeOK'
  <2>1. Len(failures[ev[h]]) + 1 \in Nat
    BY <1>7 DEF ReadFailures, GoTo
  <2>2. QED
    BY <1>7, <2>1 DEF ReadFailures, GoTo
<1>8. ASSUME NEW h \in Handlers, Reclaim(h) PROVE TypeOK'
  BY <1>8 DEF Reclaim, GoTo
<1>9. ASSUME NEW h \in Handlers, Process(h) PROVE TypeOK'
  BY <1>9 DEF Process, Outcome, Answer
<1>10. ASSUME NEW h \in Handlers, Raise(h) PROVE TypeOK'
  BY <1>10 DEF Raise, FailureClass, GoTo
<1>11. ASSUME NEW h \in Handlers, MarkFailed(h) PROVE TypeOK'
  <2>1. ev[h] \in Events /\ class[h] \in Classes
    BY <1>11 DEF MarkFailed
  <2>2. failures' \in [Events -> Seq(Classes)]
    BY <1>11, <2>1, AppendFacts DEF MarkFailed
  <2>3. QED
    BY <1>11, <2>1, <2>2 DEF MarkFailed, Answer
<1>12. ASSUME NEW h \in Handlers, Crash(h) PROVE TypeOK'
  BY <1>12 DEF Crash, Answer
<1>13. CASE UNCHANGED vars
  BY <1>13 DEF vars
<1>14. QED
  BY <1>1, <1>2, <1>3, <1>4, <1>5, <1>6, <1>7, <1>8, <1>9, <1>10, <1>11,
     <1>12, <1>13 DEF Next, Handle, Claim

\* Marker, side effects and audit trail move together, and never back.
LedgerMoves ==
    /\ \A e \in Events : status[e] \in Settled => status'[e] = status[e]
    /\ \A e \in Events : Len(failures[e]) <= Len(failures'[e])
    /\ \A e \in Events : \A i \in 1..Len(failures[e]) : failures'[e][i] = failures[e][i]

\* Every step moves the ledger forward and keeps the marker true.
LEMMA LedgerStep ==
  ASSUME IInv, [Next]_vars
  PROVE  LedgerMoves /\ AppliedIsMarked'
<1> USE DEF IInv, TypeOK, LedgerMoves, AppliedIsMarked, Settled
<1>0. \A e \in Events : failures[e] \in Seq(Classes) /\ Len(failures[e]) \in Nat
  OBVIOUS
<1>1. ASSUME UNCHANGED <<status, failures, applied>>
      PROVE  LedgerMoves /\ AppliedIsMarked'
  BY <1>0, <1>1
<1>2. ASSUME NEW h \in Handlers, ClaimNew(h) PROVE LedgerMoves /\ AppliedIsMarked'
  BY <1>0, <1>2 DEF ClaimNew, GoTo
<1>3. ASSUME NEW h \in Handlers, Reclaim(h) PROVE LedgerMoves /\ AppliedIsMarked'
  BY <1>0, <1>3 DEF Reclaim, GoTo
<1>4. ASSUME NEW h \in Handlers, Process(h) PROVE LedgerMoves /\ AppliedIsMarked'
  <2>1. applied[ev[h]] + 1 > 0 /\ Outcome(ev[h]) \in Settled
    BY <1>4 DEF Process, Outcome
  <2>2. AppliedIsMarked'
    BY <1>4, <2>1 DEF Process
  <2>3. \A e \in Events : status[e] \in Settled => status'[e] = status[e]
    BY <1>4 DEF Process, Outcome
  <2>4. QED
    BY <1>0, <1>4, <2>2, <2>3 DEF Process
<1>5. ASSUME NEW h \in Handlers, MarkFailed(h) PROVE LedgerMoves /\ AppliedIsMarked'
  <2>1. ev[h] \in Events /\ class[h] \in Classes
    BY <1>5 DEF MarkFailed
  <2>2. /\ \A e \in Events : Len(failures[e]) <= Len(failures'[e])
        /\ \A e \in Events : \A i \in 1..Len(failures[e]) :
             failures'[e][i] = failures[e][i]
    BY <1>0, <1>5, <2>1, AppendFacts DEF MarkFailed
  <2>3. /\ \A e \in Events : status[e] \in Settled => status'[e] = status[e]
        /\ AppliedIsMarked'
    BY <1>5, <2>1 DEF MarkFailed
  <2>4. QED
    BY <2>2, <2>3
<1>6. QED
  BY <1>1, <1>2, <1>3, <1>4, <1>5
  DEF Next, Handle, Claim, Deliver, SeenSettled, SeenReceived, SeenFailed,
      DeadLetter, ReadFailures, Raise, Crash, vars

\* The audit trail stays behind whoever acts on a failed event.
LEMMA FailuresStep ==
  ASSUME IInv, [Next]_vars
  PROVE  FailuresAreRecorded'
<1> USE DEF IInv, TypeOK, FailuresAreRecorded, Owning
<1>1. ASSUME NEW h \in Handlers, NEW e \in Events, Deliver(h, e) PROVE FailuresAreRecorded'
  BY <1>1 DEF Deliver, GoTo
<1>2. ASSUME NEW h \in Handlers, ClaimNew(h) PROVE FailuresAreRecorded'
  BY <1>2 DEF ClaimNew, GoTo
<1>3. ASSUME NEW h \in Handlers, SeenSettled(h) \/ SeenReceived(h) \/ DeadLetter(h) \/ Crash(h)
      PROVE  FailuresAreRecorded'
  BY <1>3 DEF SeenSettled, SeenReceived, DeadLetter, Crash, Answer
<1>4. ASSUME NEW h \in Handlers, SeenFailed(h) \/ ReadFailures(h) \/ Reclaim(h) \/ Raise(h)
      PROVE  FailuresAreRecorded'
  BY <1>4 DEF SeenFailed, ReadFailures, Reclaim, Raise, GoTo
<1>5. ASSUME NEW h \in Handlers, Process(h) PROVE FailuresAreRecorded'
  BY <1>5 DEF Process, Outcome, Answer
<1>6. ASSUME NEW h \in Handlers, MarkFailed(h) PROVE FailuresAreRecorded'
  <2>1. ev[h] \in Events /\ failures[ev[h]] \in Seq(Classes) /\ class[h] \in Classes
    BY <1>6 DEF MarkFailed
  <2>2. Append(failures[ev[h]], class[h]) # << >>
    BY <2>1, AppendFacts
  <2>3. \A e \in Events : failures[e] # << >> => failures'[e] # << >>
    BY <1>6, <2>1, <2>2 DEF MarkFailed
  <2>4. failures'[ev[h]] # << >>
    BY <1>6, <2>1, <2>2 DEF MarkFailed
  <2>5. \A e \in Events : status'[e] = "failed" => failures'[e] # << >>
    BY <1>6, <2>1, <2>3, <2>4 DEF MarkFailed
  <2>6. \A g \in Handlers :
          pc'[g] \in {"reading", "reclaiming"} => failures'[ev'[g]] # << >>
    BY <1>6, <2>1, <2>3 DEF MarkFailed, Answer
  <2>7. QED
    BY <2>5, <2>6
<1>7. CASE UNCHANGED vars
  BY <1>7 DEF vars
<1>8. QED
  BY <1>1, <1>2, <1>3, <1>4, <1>5, <1>6, <1>7 DEF Next, Handle, Claim

\* Fewer owners of the same rows.
LEMMA OwnersShrink ==
  ASSUME IInv, UNCHANGED <<status, failures, applied>>,
         \A g \in Handlers : pc'[g] \in Owning => pc[g] \in Owning /\ ev'[g] = ev[g]
  PROVE  FirstTryIsExclusive' /\ OwnerHoldsReceived'
BY DEF IInv, FirstTryIsExclusive, OwnerHoldsReceived

\* Until an attempt fails, an event has one owner, in received.
LEMMA OwnerStep ==
  ASSUME IInv, [Next]_vars
  PROVE  FirstTryIsExclusive' /\ OwnerHoldsReceived'
<1> USE DEF IInv, TypeOK, FirstTryIsExclusive, OwnerHoldsReceived, Owning
<1>1. ASSUME NEW h \in Handlers, NEW e \in Events, Deliver(h, e)
      PROVE  FirstTryIsExclusive' /\ OwnerHoldsReceived'
  BY <1>1 DEF Deliver, GoTo
<1>2. ASSUME NEW h \in Handlers, ClaimNew(h)
      PROVE  FirstTryIsExclusive' /\ OwnerHoldsReceived'
  BY <1>2 DEF ClaimNew, GoTo
<1>3. ASSUME NEW h \in Handlers, SeenSettled(h) \/ SeenReceived(h) \/ DeadLetter(h) \/ Crash(h)
      PROVE  FirstTryIsExclusive' /\ OwnerHoldsReceived'
  <2>1. \A g \in Handlers : pc'[g] \in Owning => pc[g] \in Owning /\ ev'[g] = ev[g]
    BY <1>3 DEF SeenSettled, SeenReceived, DeadLetter, Crash, Answer
  <2>2. UNCHANGED <<status, failures, applied>>
    BY <1>3 DEF SeenSettled, SeenReceived, DeadLetter, Crash
  <2>3. QED
    BY <2>1, <2>2, OwnersShrink
<1>4. ASSUME NEW h \in Handlers, SeenFailed(h) \/ ReadFailures(h) \/ Raise(h)
      PROVE  FirstTryIsExclusive' /\ OwnerHoldsReceived'
  <2>1. \A g \in Handlers : pc'[g] \in Owning => pc[g] \in Owning /\ ev'[g] = ev[g]
    BY <1>4 DEF SeenFailed, ReadFailures, Raise, GoTo
  <2>2. UNCHANGED <<status, failures, applied>>
    BY <1>4 DEF SeenFailed, ReadFailures, Raise
  <2>3. QED
    BY <2>1, <2>2, OwnersShrink
<1>5. ASSUME NEW h \in Handlers, Reclaim(h)
      PROVE  FirstTryIsExclusive' /\ OwnerHoldsReceived'
  BY <1>5 DEF Reclaim, FailuresAreRecorded, GoTo
<1>6. ASSUME NEW h \in Handlers, Process(h)
      PROVE  FirstTryIsExclusive' /\ OwnerHoldsReceived'
  <2>1. ev[h] \in Events /\ pc[h] \in Owning /\ applied[ev[h]] \in Nat
    BY <1>6 DEF Process
  <2>2. failures[ev[h]] = << >> => applied[ev[h]] = 0
    <3>1. failures[ev[h]] = << >> => status[ev[h]] \notin Settled
      BY <2>1 DEF Settled
    <3>2. QED
      BY <2>1, <3>1 DEF AppliedIsMarked
  <2>3. QED
    BY <1>6, <2>1, <2>2 DEF Process, Answer
<1>7. ASSUME NEW h \in Handlers, MarkFailed(h)
      PROVE  FirstTryIsExclusive' /\ OwnerHoldsReceived'
  <2>1. ev[h] \in Events /\ failures[ev[h]] \in Seq(Classes) /\ class[h] \in Classes
    BY <1>7 DEF MarkFailed
  <2>2. failures'[ev[h]] # << >>
    BY <1>7, <2>1, AppendFacts DEF MarkFailed
  <2>3. \A e \in Events : failures'[e] = << >> =>
          e # ev[h] /\ failures[e] = << >> /\ status'[e] = status[e]
    BY <1>7, <2>1, <2>2 DEF MarkFailed
  <2>4. /\ applied' = applied
        /\ pc' = [pc EXCEPT ![h] = "idle"]
        /\ ev' = [ev EXCEPT ![h] = NoEvent]
    BY <1>7 DEF MarkFailed, Answer
  <2>5. \A g \in Handlers : pc'[g] \in Owning => pc[g] \in Owning /\ ev'[g] = ev[g]
    BY <2>4
  <2>6. \A g \in Handlers : pc'[g] \in Owning => ev'[g] \in Events
    BY <2>5
  <2>7. FirstTryIsExclusive'
    BY <2>3, <2>4, <2>5
  <2>8. OwnerHoldsReceived'
    BY <2>3, <2>5, <2>6
  <2>9. QED
    BY <2>7, <2>8
<1>8. CASE UNCHANGED vars
  BY <1>8 DEF vars
<1>9. QED
  BY <1>1, <1>2, <1>3, <1>4, <1>5, <1>6, <1>7, <1>8 DEF Next, Handle, Claim

\* What has been acknowledged stays done.
LEMMA AcksStep ==
  ASSUME IInv, [Next]_vars
  PROVE  AcksAreEarned'
<1> USE DEF IInv, TypeOK, AcksAreEarned, Done
<1>1. \A e \in Events : Done(e) => Done(e)'
  <2>1. LedgerMoves
    BY LedgerStep
  <2>2. \A e \in Events : failures[e] \in Seq(Classes) /\ failures'[e] \in Seq(Classes)
    BY EventTypeStep
  <2>3. \A e \in Events : Len(failures[e]) \in Nat /\ Len(failures'[e]) \in Nat
    BY <2>2
  <2>4. SUFFICES ASSUME NEW e \in Events, Done(e) PROVE Done(e)'
    OBVIOUS
  <2>5. CASE status[e] \in Settled
    BY <2>1, <2>5 DEF LedgerMoves, Settled
  <2>6. ASSUME NEW i \in 1..Len(failures[e]), failures[e][i] = "permanent" PROVE Done(e)'
    <3>1. i \in 1..Len(failures'[e]) /\ failures'[e][i] = "permanent"
      BY <2>1, <2>3, <2>6 DEF LedgerMoves
    <3>2. QED
      BY <3>1
  <2>7. QED
    BY <2>4, <2>5, <2>6
<1>2. ASSUME NEW h \in Handlers, DeadLetter(h) PROVE AcksAreEarned'
  <2>1. ev[h] \in Events /\ failures[ev[h]] # << >>
    BY <1>2 DEF DeadLetter, FailuresAreRecorded
  <2>2. Done(ev[h])
    BY <1>2, <2>1, LastFacts DEF DeadLetter, LastClass
  <2>3. QED
    BY <1>1, <1>2, <2>2 DEF DeadLetter, Answer
<1>3. ASSUME NEW h \in Handlers, SeenSettled(h) PROVE AcksAreEarned'
  BY <1>1, <1>3 DEF SeenSettled, Answer
<1>4. ASSUME NEW h \in Handlers, Process(h) PROVE AcksAreEarned'
  <2>1. ev[h] \in Events /\ status'[ev[h]] \in Settled
    BY <1>4 DEF Process, Outcome, Settled
  <2>2. QED
    BY <1>1, <1>4, <2>1 DEF Process, Answer
<1>5. ASSUME acked' = acked PROVE AcksAreEarned'
  BY <1>1, <1>5
<1>6. QED
  BY <1>2, <1>3, <1>4, <1>5
  DEF Next, Handle, Claim, Deliver, ClaimNew, SeenReceived, SeenFailed,
      ReadFailures, Reclaim, Raise, MarkFailed, Crash, Answer, vars

\* No event and no handler at work.
LEMMA InitIInv == Init => IInv
BY LedgerAssumption
   DEF Init, IInv, TypeOK, AppliedIsMarked, FirstTryIsExclusive,
       FailuresAreRecorded, OwnerHoldsReceived, AcksAreEarned, Settled, Owning, Classes

\* Every step keeps the invariant.
LEMMA StepIInv == IInv /\ [Next]_vars => IInv'
BY EventTypeStep, LedgerStep, FailuresStep, OwnerStep, AcksStep DEF IInv

\* The inductive invariant holds in every reachable state.
THEOREM EventInvariant == Spec => []IInv
BY InitIInv, StepIInv, PTL DEF Spec

\* Every variable of the webhook ledger keeps its type.
THEOREM EventsAreTyped == Spec => []TypeOK
<1>1. IInv => TypeOK
  BY DEF IInv
<1>2. QED
  BY <1>1, EventInvariant, PTL

\* payment_events.status tells whether the side effects were committed.
THEOREM MarkerIsTrue == Spec => []AppliedIsMarked
<1>1. IInv => AppliedIsMarked
  BY DEF IInv
<1>2. QED
  BY <1>1, EventInvariant, PTL

\* claim_provider_event gives a first attempt to one delivery.
THEOREM FirstTryExclusive == Spec => []FirstTryIsExclusive
<1>1. IInv => FirstTryIsExclusive
  BY DEF IInv
<1>2. QED
  BY <1>1, EventInvariant, PTL

\* The provider is told 2xx only when nothing is left to do.
THEOREM AcksEarned == Spec => []AcksAreEarned
<1>1. IInv => AcksAreEarned
  BY DEF IInv
<1>2. QED
  BY <1>1, EventInvariant, PTL

\* All of it at once, for any number of deliveries, attempts and crashes.
THEOREM EventsKept == Spec => []EventsAreKept
<1>1. IInv => EventsAreKept
  BY DEF IInv, EventsAreKept
<1>2. QED
  BY <1>1, EventInvariant, PTL

\* mark_provider_event_failed and the re-claim never reopen a settled event.
THEOREM SettledFinal == Spec => SettledIsFinal
<1>1. IInv /\ [Next]_vars => \A e \in Events : status[e] \in Settled => status'[e] = status[e]
  BY LedgerStep DEF LedgerMoves
<1>2. QED
  BY <1>1, EventInvariant, PTL DEF Spec, SettledIsFinal

-----------------------------------------------------------------------------
\* The admin console (BackOffice, BackOfficeViews, PriceBook, Checkout, AdminConsole).

(***************************************************************************)
(* What a request may ask, what it may have read, and where it may stand.  *)
(***************************************************************************)
\* PriceOps, for any number of prices.
PriceAsks ==
    {Op("price", "none", "none", "none"), Op("plan", "none", "none", "none")}
    \union {Op("price_status", n, "none", v) : n \in Nat, v \in BOOLEAN}
    \union {Op("region", "none", "none", v) : v \in BOOLEAN}
    \union {Op("entitlement", "none", l, v) : l \in PlanLimits, v \in BOOLEAN}

Asks   == DeskOps \union PriceAsks
Seen   == {"none", "active", "suspended", "c", "b"} \union Nat \union SUBSET Nat
Stages == {"idle", "authorized", "read", "versioned", "seen", "retired"}

EntrySet == [actor : Staff, op : Asks, previous : Seen, began : Nat]
CallSet  == [at : Stages, actor : Staff \union {"none"}, op : Asks \union {NoOp},
             seen : Seen, began : Nat]

PriceKinds == {"price", "plan", "price_status", "region", "entitlement"}
RoleKinds  == {"grant", "revoke"}

\* The target, the item and the value of a request fit its kind.
Fits(op) ==
    /\ op.kind \in RoleKinds \union {"profile", "source"} \union Things \union PriceKinds
    /\ op.kind \in RoleKinds => op.target \in Staff /\ op.item \in Roles
    /\ op.kind = "grant" => op.value \in Active
    /\ op.kind = "profile" => op.target \in Staff /\ op.item \in Fields /\ op.value \in Vocabulary[op.item]
    /\ op.kind = "source" => op.target \in Sources /\ op.item = "enabled" /\ op.value \in BOOLEAN
    /\ op.kind \in Things => op.target = "none" /\ op.item = "none"
    /\ op.kind = "entitlement" => op.item \in PlanLimits /\ op.value \in BOOLEAN
    /\ op.kind \in {"price_status", "region"} => op.value \in BOOLEAN

(***************************************************************************)
(* The audit log as a value: what it tells of a role, a profile column, a  *)
(* source and a count, and that one log is another with an entry more.     *)
(***************************************************************************)
EntriesOf(log, kinds, t, i) ==
    {n \in 1..Len(log) : log[n].op.kind \in kinds /\ log[n].op.target = t /\ log[n].op.item = i}

AtStart(u, r) == IF u \in Founders /\ r = "super_admin" THEN "permanent" ELSE "none"

RoleTold(log, u, r, assigned) ==
    LET ns == EntriesOf(log, RoleKinds, u, r) IN
    IF ns = {} THEN assigned = AtStart(u, r)
    ELSE \E n \in ns : IsLast(n, ns) /\ (log[n].op.kind = "grant" <=> assigned # "none")

ColumnTold(log, u, f, value) ==
    LET ns == EntriesOf(log, {"profile"}, u, f) IN
    IF ns = {} THEN value = Defaults[f]
    ELSE \E n \in ns : IsLast(n, ns) /\ log[n].op.value = value

SourceTold(log, k, known, enabled) ==
    LET ns == EntriesOf(log, {"source"}, k, "enabled") IN
    \/ ns = {} /\ ~known
    \/ \E n \in ns : IsLast(n, ns) /\ log[n].op.value = enabled

ThingTold(log, thing, count) == count = Cardinality(EntriesOf(log, {thing}, "none", "none"))

ChainedAt(log, n) ==
    LET op == log[n].op
        before == {m \in EntriesOf(log, {"profile"}, op.target, op.item) : m < n}
    IN  op.kind = "profile" =>
          /\ log[n].previous # op.value
          /\ IF before = {} THEN log[n].previous = Defaults[op.item]
             ELSE \E m \in before : IsLast(m, before) /\ log[m].op.value = log[n].previous

\* Somebody of that name was set up as super_admin, or granted it by entry n.
Empowered(log, n, u) ==
    \/ u \in Founders
    \/ \E m \in 1..n : /\ log[m].op.kind = "grant" /\ log[m].op.target = u
                       /\ log[m].op.item = "super_admin"

EmpoweredAt(log, n) == log[n].op.kind \in RoleKinds => Empowered(log, n - 1, log[n].actor)

Grown(log, more, e) ==
    /\ Len(log) \in Nat
    /\ Len(more) = Len(log) + 1
    /\ \A n \in 1..Len(log) : more[n] = log[n]
    /\ more[Len(log) + 1] = e

(***************************************************************************)
(* The inductive invariant of the desk: beside what is claimed, what a     *)
(* request holds between its two steps.  An actor who changes roles has    *)
(* been empowered in the log already; a profile that was read for update   *)
(* is as it was read, and no other request has read it.                    *)
(***************************************************************************)
LogTyped  == audit \in Seq(EntrySet)
CallTyped == call \in [Calls -> CallSet]

CallsFit ==
    \A q \in Calls :
        /\ call[q].at # "idle" => call[q].actor \in Staff /\ call[q].op \in Asks
        /\ call[q].at # "idle" /\ call[q].op.kind \in RoleKinds
              => Empowered(audit, Len(audit), call[q].actor)
        /\ call[q].at = "versioned" => call[q].op.kind = "price"
        /\ call[q].at \in {"seen", "retired"} => call[q].op.kind = "entitlement"

ReadsHold ==
    /\ \A q \in Calls : call[q].at = "read" =>
          /\ call[q].op.kind = "profile"
          /\ call[q].seen = profile[call[q].op.target][call[q].op.item]
    /\ \A p, q \in Calls : p # q /\ call[p].at = "read" /\ call[q].at = "read"
          => call[p].op.target # call[q].op.target

RolesTold   == \A u \in Staff, r \in Roles : RoleTold(audit, u, r, roles[u][r])
ColumnsTold == \A u \in Staff, f \in Fields : ColumnTold(audit, u, f, profile[u][f])
SourcesTold == \A k \in Sources : SourceTold(audit, k, sources[k].known, sources[k].enabled)
ThingsTold  == \A thing \in Things : ThingTold(audit, thing, created[thing])
AllTold     == RolesTold /\ ColumnsTold /\ SourcesTold /\ ThingsTold

LogChained   == \A n \in 1..Len(audit) : ChainedAt(audit, n)
LogEmpowered == \A n \in 1..Len(audit) : EmpoweredAt(audit, n)

DeskInv ==
    /\ DeskTypeOK /\ LogTyped /\ CallTyped
    /\ CallsFit /\ ReadsHold
    /\ AllTold /\ LogChained /\ LogEmpowered

(***************************************************************************)
(* Lemmas about requests.                                                  *)
(***************************************************************************)
\* What a request asks fits its kind.
LEMMA AsksFit ==
    \A op \in Asks : Fits(op)
<1> SUFFICES ASSUME NEW op \in Asks PROVE Fits(op)
  OBVIOUS
<1> DEFINE grants  == {Op("grant", u, r, v) : u \in Staff, r \in Roles, v \in Active}
           revokes == {Op("revoke", u, r, "none") : u \in Staff, r \in Roles}
           columns == UNION {{Op("profile", u, f, v) : u \in Staff, v \in Vocabulary[f]} : f \in Fields}
           upserts == {Op("source", k, "enabled", v) : k \in Sources, v \in BOOLEAN}
           things  == {Op(thing, "none", "none", "none") : thing \in Things}
<1>0. Asks = (grants \union revokes \union columns \union upserts \union things) \union PriceAsks
  BY DEF Asks, DeskOps
<1>1. CASE op \in grants
  <2>1. PICK u \in Staff, r \in Roles, v \in Active : op = Op("grant", u, r, v)
    BY <1>1
  <2> QED BY <2>1 DEF Fits, Op, RoleKinds, Things, PriceKinds
<1>2. CASE op \in revokes
  <2>1. PICK u \in Staff, r \in Roles : op = Op("revoke", u, r, "none")
    BY <1>2
  <2> QED BY <2>1 DEF Fits, Op, RoleKinds, Things, PriceKinds
<1>3. CASE op \in columns
  <2>1. PICK f \in Fields : op \in {Op("profile", u, f, v) : u \in Staff, v \in Vocabulary[f]}
    BY <1>3
  <2>2. PICK u \in Staff, v \in Vocabulary[f] : op = Op("profile", u, f, v)
    BY <2>1
  <2> QED BY <2>2 DEF Fits, Op, RoleKinds, Things, PriceKinds
<1>4. CASE op \in upserts
  <2>1. PICK k \in Sources, v \in BOOLEAN : op = Op("source", k, "enabled", v)
    BY <1>4
  <2> QED BY <2>1 DEF Fits, Op, RoleKinds, Things, PriceKinds
<1>5. CASE op \in things
  <2>1. PICK thing \in Things : op = Op(thing, "none", "none", "none")
    BY <1>5
  <2> QED BY <2>1 DEF Fits, Op, RoleKinds, Things, PriceKinds
<1>6. CASE op \in PriceAsks
  <2>1. CASE op \in {Op("price", "none", "none", "none"), Op("plan", "none", "none", "none")}
    BY <2>1 DEF Fits, Op, RoleKinds, Things, PriceKinds
  <2>2. CASE op \in {Op("price_status", n, "none", v) : n \in Nat, v \in BOOLEAN}
    <3>1. PICK n \in Nat, v \in BOOLEAN : op = Op("price_status", n, "none", v)
      BY <2>2
    <3> QED BY <3>1 DEF Fits, Op, RoleKinds, Things, PriceKinds
  <2>3. CASE op \in {Op("region", "none", "none", v) : v \in BOOLEAN}
    <3>1. PICK v \in BOOLEAN : op = Op("region", "none", "none", v)
      BY <2>3
    <3> QED BY <3>1 DEF Fits, Op, RoleKinds, Things, PriceKinds
  <2>4. CASE op \in {Op("entitlement", "none", l, v) : l \in PlanLimits, v \in BOOLEAN}
    <3>1. PICK l \in PlanLimits, v \in BOOLEAN : op = Op("entitlement", "none", l, v)
      BY <2>4
    <3> QED BY <3>1 DEF Fits, Op, RoleKinds, Things, PriceKinds
  <2> QED BY <1>6, <2>1, <2>2, <2>3, <2>4 DEF PriceAsks
<1> HIDE DEF grants, revokes, columns, upserts, things
<1> QED
  BY <1>0, <1>1, <1>2, <1>3, <1>4, <1>5, <1>6

\* An answered request is idle again, and the others stand where they stood.
LEMMA AnsweredCall ==
    ASSUME CallTyped, NEW q \in Calls, Answered(q)
    PROVE  /\ CallTyped'
           /\ call'[q] = Idle
           /\ \A p \in Calls \ {q} : call'[p] = call[p]
<1>1. Idle \in CallSet
  BY DEF Idle, CallSet, Stages, Seen
<1> QED
  BY <1>1 DEF CallTyped, Answered

\* A request that goes on keeps its actor and what it asks.
LEMMA StagedCall ==
    ASSUME CallTyped, LogTyped, NEW q \in Calls, NEW at \in Stages, NEW seen \in Seen,
           ToStage(q, at, seen)
    PROVE  /\ CallTyped'
           /\ call'[q].at = at /\ call'[q].seen = seen
           /\ call'[q].actor = call[q].actor /\ call'[q].op = call[q].op
           /\ \A p \in Calls \ {q} : call'[p] = call[p]
<1> DEFINE began == IF call[q].at = "authorized" THEN Len(audit) ELSE call[q].began
<1>1. began \in Nat
  BY DEF CallTyped, CallSet, LogTyped
<1> DEFINE first  == [call[q] EXCEPT !.at = at]
           second == [first EXCEPT !.seen = seen]
           third  == [second EXCEPT !.began = began]
<1>2. call' = [call EXCEPT ![q] = third]
  BY DEF ToStage, CallTyped, CallSet
<1> HIDE DEF began
<1>3. call[q] \in CallSet
  BY DEF CallTyped
<1>4. /\ first \in CallSet /\ first.at = at
      /\ first.actor = call[q].actor /\ first.op = call[q].op
  BY <1>3 DEF CallSet
<1> HIDE DEF first
<1>5. /\ second \in CallSet /\ second.at = at /\ second.seen = seen
      /\ second.actor = call[q].actor /\ second.op = call[q].op
  BY <1>4 DEF CallSet
<1> HIDE DEF second
<1>6. /\ third \in CallSet /\ third.at = at /\ third.seen = seen
      /\ third.actor = call[q].actor /\ third.op = call[q].op
  BY <1>1, <1>5 DEF CallSet
<1> HIDE DEF third
<1> QED
  BY <1>2, <1>6 DEF CallTyped

\* An audit row is one entry more.
LEMMA AuditedLog ==
    ASSUME CallTyped, LogTyped, NEW q \in Calls, NEW previous \in Seen, Audited(q, previous),
           call[q].actor \in Staff, call[q].op \in Asks
    PROVE  /\ LogTyped'
           /\ Entry(q, previous).actor = call[q].actor /\ Entry(q, previous).op = call[q].op
           /\ Entry(q, previous).previous = previous
           /\ Grown(audit, audit', Entry(q, previous))
<1>1. Entry(q, previous) \in EntrySet
  BY DEF Entry, EntrySet, Asked, CallTyped, CallSet, LogTyped
<1>2. audit' = Append(audit, Entry(q, previous)) /\ audit \in Seq(EntrySet)
  BY DEF Audited, LogTyped
<1>3. /\ Entry(q, previous).actor = call[q].actor /\ Entry(q, previous).op = call[q].op
      /\ Entry(q, previous).previous = previous
  BY DEF Entry, Asked
<1> QED
  BY <1>1, <1>2, <1>3, AppendProperties DEF Grown, LogTyped

(***************************************************************************)
(* Lemmas about the log.                                                   *)
(***************************************************************************)
\* An entry more is among those about its own thing and no other.
LEMMA EntriesGrow ==
    ASSUME NEW log, NEW more, NEW e, Grown(log, more, e), NEW kinds, NEW t, NEW i
    PROVE  /\ EntriesOf(log, kinds, t, i) \subseteq 1..Len(log)
           /\ e.op.kind \in kinds /\ e.op.target = t /\ e.op.item = i
                => EntriesOf(more, kinds, t, i) = EntriesOf(log, kinds, t, i) \union {Len(log) + 1}
           /\ ~(e.op.kind \in kinds /\ e.op.target = t /\ e.op.item = i)
                => EntriesOf(more, kinds, t, i) = EntriesOf(log, kinds, t, i)
BY DEF EntriesOf, Grown

\* The new entry is the last of its kind.
LEMMA NewestIsLast ==
    ASSUME NEW len \in Nat, NEW ns \in SUBSET (1..len)
    PROVE  IsLast(len + 1, ns \union {len + 1})
BY DEF IsLast

\* What the log tells of a role stays told when an entry about another thing
\* is added, and an entry about it tells it anew.
LEMMA RoleStaysTold ==
    ASSUME NEW log, NEW more, NEW e, Grown(log, more, e), NEW u, NEW r, NEW assigned
    PROVE  /\ RoleTold(log, u, r, assigned) /\ ~(e.op.kind \in RoleKinds /\ e.op.target = u /\ e.op.item = r)
                => RoleTold(more, u, r, assigned)
           /\ e.op.kind \in RoleKinds /\ e.op.target = u /\ e.op.item = r
              /\ (e.op.kind = "grant" <=> assigned # "none")
                => RoleTold(more, u, r, assigned)
<1> DEFINE ns == EntriesOf(log, RoleKinds, u, r)
           ms == EntriesOf(more, RoleKinds, u, r)
<1>1. ns \subseteq 1..Len(log)
  BY EntriesGrow
<1>2. Len(log) \in Nat /\ \A n \in 1..Len(log) : more[n] = log[n]
  BY DEF Grown
<1>3. ASSUME RoleTold(log, u, r, assigned), ~(e.op.kind \in RoleKinds /\ e.op.target = u /\ e.op.item = r)
      PROVE  RoleTold(more, u, r, assigned)
  <2>1. ms = ns
    BY <1>3, EntriesGrow
  <2> HIDE DEF ns, ms
  <2>2. IF ns = {} THEN assigned = AtStart(u, r)
        ELSE \E n \in ns : IsLast(n, ns) /\ (log[n].op.kind = "grant" <=> assigned # "none")
    BY <1>3 DEF RoleTold, ns
  <2>3. IF ms = {} THEN assigned = AtStart(u, r)
        ELSE \E n \in ms : IsLast(n, ms) /\ (more[n].op.kind = "grant" <=> assigned # "none")
    BY <2>1, <2>2, <1>1, <1>2
  <2> QED BY <2>3 DEF RoleTold, ms
<1>4. ASSUME e.op.kind \in RoleKinds, e.op.target = u, e.op.item = r, e.op.kind = "grant" <=> assigned # "none"
      PROVE  RoleTold(more, u, r, assigned)
  <2>1. ms = ns \union {Len(log) + 1}
    BY <1>4, EntriesGrow
  <2>2. more[Len(log) + 1] = e
    BY DEF Grown
  <2> HIDE DEF ns, ms
  <2>3. IsLast(Len(log) + 1, ms)
    BY <2>1, <1>1, <1>2, NewestIsLast
  <2>4. Len(log) + 1 \in ms /\ ms # {}
    BY <2>1
  <2> QED BY <2>2, <2>3, <2>4, <1>4 DEF RoleTold, ms
<1> QED BY <1>3, <1>4

\* The same of a profile column.
LEMMA ColumnStaysTold ==
    ASSUME NEW log, NEW more, NEW e, Grown(log, more, e), NEW u, NEW f, NEW value
    PROVE  /\ ColumnTold(log, u, f, value) /\ ~(e.op.kind = "profile" /\ e.op.target = u /\ e.op.item = f)
                => ColumnTold(more, u, f, value)
           /\ e.op.kind = "profile" /\ e.op.target = u /\ e.op.item = f /\ e.op.value = value
                => ColumnTold(more, u, f, value)
<1> DEFINE ns == EntriesOf(log, {"profile"}, u, f)
           ms == EntriesOf(more, {"profile"}, u, f)
<1>1. ns \subseteq 1..Len(log)
  BY EntriesGrow
<1>2. Len(log) \in Nat /\ \A n \in 1..Len(log) : more[n] = log[n]
  BY DEF Grown
<1>3. ASSUME ColumnTold(log, u, f, value), ~(e.op.kind = "profile" /\ e.op.target = u /\ e.op.item = f)
      PROVE  ColumnTold(more, u, f, value)
  <2>1. ms = ns
    BY <1>3, EntriesGrow
  <2> HIDE DEF ns, ms
  <2>2. IF ns = {} THEN value = Defaults[f]
        ELSE \E n \in ns : IsLast(n, ns) /\ log[n].op.value = value
    BY <1>3 DEF ColumnTold, ns
  <2>3. IF ms = {} THEN value = Defaults[f]
        ELSE \E n \in ms : IsLast(n, ms) /\ more[n].op.value = value
    BY <2>1, <2>2, <1>1, <1>2
  <2> QED BY <2>3 DEF ColumnTold, ms
<1>4. ASSUME e.op.kind = "profile", e.op.target = u, e.op.item = f, e.op.value = value
      PROVE  ColumnTold(more, u, f, value)
  <2>1. ms = ns \union {Len(log) + 1}
    BY <1>4, EntriesGrow
  <2>2. more[Len(log) + 1] = e
    BY DEF Grown
  <2> HIDE DEF ns, ms
  <2>3. IsLast(Len(log) + 1, ms)
    BY <2>1, <1>1, <1>2, NewestIsLast
  <2>4. Len(log) + 1 \in ms /\ ms # {}
    BY <2>1
  <2> QED BY <2>2, <2>3, <2>4, <1>4 DEF ColumnTold, ms
<1> QED BY <1>3, <1>4

\* The same of a source.
LEMMA SourceStaysTold ==
    ASSUME NEW log, NEW more, NEW e, Grown(log, more, e), NEW k, NEW known, NEW enabled
    PROVE  /\ SourceTold(log, k, known, enabled)
              /\ ~(e.op.kind = "source" /\ e.op.target = k /\ e.op.item = "enabled")
                => SourceTold(more, k, known, enabled)
           /\ e.op.kind = "source" /\ e.op.target = k /\ e.op.item = "enabled" /\ e.op.value = enabled
                => SourceTold(more, k, known, enabled)
<1> DEFINE ns == EntriesOf(log, {"source"}, k, "enabled")
           ms == EntriesOf(more, {"source"}, k, "enabled")
<1>1. ns \subseteq 1..Len(log)
  BY EntriesGrow
<1>2. Len(log) \in Nat /\ \A n \in 1..Len(log) : more[n] = log[n]
  BY DEF Grown
<1>3. ASSUME SourceTold(log, k, known, enabled),
             ~(e.op.kind = "source" /\ e.op.target = k /\ e.op.item = "enabled")
      PROVE  SourceTold(more, k, known, enabled)
  <2>1. ms = ns
    BY <1>3, EntriesGrow
  <2> HIDE DEF ns, ms
  <2>2. \/ ns = {} /\ ~known
        \/ \E n \in ns : IsLast(n, ns) /\ log[n].op.value = enabled
    BY <1>3 DEF SourceTold, ns
  <2>3. \/ ms = {} /\ ~known
        \/ \E n \in ms : IsLast(n, ms) /\ more[n].op.value = enabled
    BY <2>1, <2>2, <1>1, <1>2
  <2> QED BY <2>3 DEF SourceTold, ms
<1>4. ASSUME e.op.kind = "source", e.op.target = k, e.op.item = "enabled", e.op.value = enabled
      PROVE  SourceTold(more, k, known, enabled)
  <2>1. ms = ns \union {Len(log) + 1}
    BY <1>4, EntriesGrow
  <2>2. more[Len(log) + 1] = e
    BY DEF Grown
  <2> HIDE DEF ns, ms
  <2>3. IsLast(Len(log) + 1, ms)
    BY <2>1, <1>1, <1>2, NewestIsLast
  <2>4. Len(log) + 1 \in ms
    BY <2>1
  <2> QED BY <2>2, <2>3, <2>4, <1>4 DEF SourceTold, ms
<1> QED BY <1>3, <1>4

\* The same of a count.
LEMMA ThingStaysTold ==
    ASSUME NEW log, NEW more, NEW e, Grown(log, more, e), NEW thing, NEW count
    PROVE  /\ ThingTold(log, thing, count)
              /\ ~(e.op.kind = thing /\ e.op.target = "none" /\ e.op.item = "none")
                => ThingTold(more, thing, count)
           /\ ThingTold(log, thing, count) /\ e.op.kind = thing /\ e.op.target = "none" /\ e.op.item = "none"
                => ThingTold(more, thing, count + 1)
<1> DEFINE ns == EntriesOf(log, {thing}, "none", "none")
           ms == EntriesOf(more, {thing}, "none", "none")
<1>1. ns \subseteq 1..Len(log) /\ Len(log) \in Nat
  BY EntriesGrow DEF Grown
<1>2. IsFiniteSet(ns) /\ Len(log) + 1 \notin ns
  <2> HIDE DEF ns
  <2>1. IsFiniteSet(1..Len(log))
    BY <1>1, FS_Interval
  <2>2. IsFiniteSet(ns)
    BY <1>1, <2>1, FS_Subset
  <2>3. Len(log) + 1 \notin 1..Len(log)
    BY <1>1
  <2> QED BY <1>1, <2>2, <2>3
<1>3. ASSUME ~(e.op.kind = thing /\ e.op.target = "none" /\ e.op.item = "none") PROVE ms = ns
  BY <1>3, EntriesGrow
<1>4. ASSUME e.op.kind = thing, e.op.target = "none", e.op.item = "none"
      PROVE  Cardinality(ms) = Cardinality(ns) + 1
  <2>1. ms = ns \union {Len(log) + 1}
    BY <1>4, EntriesGrow
  <2> HIDE DEF ns, ms
  <2> QED BY <2>1, <1>2, FS_AddElement
<1> QED BY <1>3, <1>4 DEF ThingTold

\* An old entry stays chained.
LEMMA OldStayChained ==
    ASSUME NEW log, NEW more, NEW e, Grown(log, more, e), NEW n \in 1..Len(log), ChainedAt(log, n)
    PROVE  ChainedAt(more, n)
<1> DEFINE op == log[n].op
           before == {m \in EntriesOf(log, {"profile"}, op.target, op.item) : m < n}
           still  == {m \in EntriesOf(more, {"profile"}, op.target, op.item) : m < n}
<1>1. more[n] = log[n] /\ Len(log) \in Nat /\ \A m \in 1..Len(log) : more[m] = log[m]
  BY DEF Grown
<1>2. before \subseteq 1..Len(log)
  BY DEF EntriesOf
<1>3. still = before
  BY <1>1, EntriesGrow
<1>4. ChainedAt(more, n) <=> (op.kind = "profile" =>
          /\ log[n].previous # op.value
          /\ IF still = {} THEN log[n].previous = Defaults[op.item]
             ELSE \E m \in still : IsLast(m, still) /\ more[m].op.value = log[n].previous)
  BY <1>1 DEF ChainedAt
<1>5. op.kind = "profile" =>
          /\ log[n].previous # op.value
          /\ IF before = {} THEN log[n].previous = Defaults[op.item]
             ELSE \E m \in before : IsLast(m, before) /\ log[m].op.value = log[n].previous
  BY DEF ChainedAt
<1> HIDE DEF op, before, still
<1> QED BY <1>1, <1>2, <1>3, <1>4, <1>5

\* The new entry is chained if it starts from what the log tells.
LEMMA NewIsChained ==
    ASSUME NEW log, NEW more, NEW e, Grown(log, more, e),
           e.op.kind = "profile" => /\ e.previous # e.op.value
                                    /\ ColumnTold(log, e.op.target, e.op.item, e.previous)
    PROVE  ChainedAt(more, Len(log) + 1)
<1> DEFINE ns == EntriesOf(log, {"profile"}, e.op.target, e.op.item)
           before == {m \in EntriesOf(more, {"profile"}, e.op.target, e.op.item) : m < Len(log) + 1}
<1>1. /\ more[Len(log) + 1] = e /\ Len(log) \in Nat
      /\ \A m \in 1..Len(log) : more[m] = log[m]
  BY DEF Grown
<1>2. ns \subseteq 1..Len(log)
  BY DEF EntriesOf
<1>3. before = ns
  BY <1>1, <1>2 DEF EntriesOf, Grown
<1>4. ChainedAt(more, Len(log) + 1) <=> (e.op.kind = "profile" =>
          /\ e.previous # e.op.value
          /\ IF before = {} THEN e.previous = Defaults[e.op.item]
             ELSE \E m \in before : IsLast(m, before) /\ more[m].op.value = e.previous)
  BY <1>1 DEF ChainedAt
<1>5. e.op.kind = "profile" =>
          IF ns = {} THEN e.previous = Defaults[e.op.item]
          ELSE \E m \in ns : IsLast(m, ns) /\ log[m].op.value = e.previous
  BY DEF ColumnTold
<1> HIDE DEF ns, before
<1> QED BY <1>1, <1>2, <1>3, <1>4, <1>5

\* Whoever is empowered stays so, and an entry more keeps the old ones
\* authorised and is so itself if its actor was empowered.
LEMMA PowerStays ==
    ASSUME NEW log, NEW more, NEW e, Grown(log, more, e)
    PROVE  /\ \A u : Empowered(log, Len(log), u) => Empowered(more, Len(more), u)
           /\ \A n \in 1..Len(log) : EmpoweredAt(log, n) => EmpoweredAt(more, n)
           /\ (e.op.kind \in RoleKinds => Empowered(log, Len(log), e.actor))
                => EmpoweredAt(more, Len(log) + 1)
<1>1. /\ more[Len(log) + 1] = e /\ Len(log) \in Nat /\ Len(more) = Len(log) + 1
      /\ \A m \in 1..Len(log) : more[m] = log[m]
  BY DEF Grown
<1>2. ASSUME NEW n \in 0..Len(log), NEW u PROVE Empowered(more, n, u) <=> Empowered(log, n, u)
  <2>1. \A m \in 1..n : more[m] = log[m]
    BY <1>1
  <2> QED BY <2>1 DEF Empowered
<1>3. ASSUME NEW u, Empowered(log, Len(log), u) PROVE Empowered(more, Len(more), u)
  <2>1. Empowered(more, Len(log), u)
    BY <1>1, <1>2, <1>3
  <2> QED BY <1>1, <2>1 DEF Empowered
<1>4. ASSUME NEW n \in 1..Len(log), EmpoweredAt(log, n) PROVE EmpoweredAt(more, n)
  <2>1. n - 1 \in 0..Len(log) /\ more[n] = log[n]
    BY <1>1
  <2> QED BY <2>1, <1>2, <1>4 DEF EmpoweredAt
<1>5. ASSUME e.op.kind \in RoleKinds => Empowered(log, Len(log), e.actor)
      PROVE EmpoweredAt(more, Len(log) + 1)
  <2>1. Len(log) \in 0..Len(log) /\ Len(log) + 1 - 1 = Len(log)
    BY <1>1
  <2>2. EmpoweredAt(more, Len(log) + 1) <=> (e.op.kind \in RoleKinds => Empowered(more, Len(log), e.actor))
    BY <1>1, <2>1 DEF EmpoweredAt
  <2> QED BY <1>5, <1>2, <2>1, <2>2
<1> QED BY <1>3, <1>4, <1>5

(***************************************************************************)
(* Lemmas about steps.                                                     *)
(***************************************************************************)
\* A request that is under way asks something that fits.
LEMMA OpenFits ==
    ASSUME DeskInv, NEW q \in Calls, call[q].at # "idle"
    PROVE  call[q].actor \in Staff /\ call[q].op \in Asks /\ Fits(call[q].op)
BY AsksFit DEF DeskInv, CallsFit

\* What concerns the log alone is kept by every answered request with an audit
\* row, if a change of a column starts from what the log tells of it.
LEMMA LogStep ==
    ASSUME DeskInv, NEW q \in Calls, call[q].at # "idle", NEW previous \in Seen,
           Audited(q, previous), Answered(q),
           call[q].op.kind = "profile" =>
              /\ previous # call[q].op.value
              /\ ColumnTold(audit, call[q].op.target, call[q].op.item, previous)
    PROVE  /\ LogTyped' /\ CallTyped' /\ CallsFit' /\ LogChained' /\ LogEmpowered'
           /\ Entry(q, previous).op = call[q].op
           /\ Grown(audit, audit', Entry(q, previous))
<1>0. /\ call[q].actor \in Staff /\ call[q].op \in Asks /\ LogTyped /\ CallTyped
      /\ CallsFit /\ LogChained /\ LogEmpowered
  BY OpenFits DEF DeskInv
<1> SUFFICES ASSUME NEW e, e = Entry(q, previous), NEW log, log = audit
             PROVE  /\ LogTyped' /\ CallTyped' /\ CallsFit' /\ LogChained' /\ LogEmpowered'
                    /\ e.op = call[q].op
                    /\ Grown(log, audit', e)
  OBVIOUS
<1>1. /\ LogTyped' /\ e.actor = call[q].actor /\ e.op = call[q].op /\ e.previous = previous
      /\ Grown(log, audit', e)
  BY <1>0, AuditedLog
<1>2. CallTyped' /\ call'[q] = Idle /\ \A p \in Calls \ {q} : call'[p] = call[p]
  BY <1>0, AnsweredCall
<1>3. Len(log) \in Nat /\ Len(audit') = Len(log) + 1
  BY <1>1 DEF Grown
<1>4. \A u : Empowered(log, Len(log), u) => Empowered(audit', Len(audit'), u)
  BY <1>1, PowerStays
<1>5. CallsFit'
  <2> SUFFICES ASSUME NEW p \in Calls
               PROVE  /\ call'[p].at # "idle" => call'[p].actor \in Staff /\ call'[p].op \in Asks
                      /\ call'[p].at # "idle" /\ call'[p].op.kind \in RoleKinds
                            => Empowered(audit', Len(audit'), call'[p].actor)
                      /\ call'[p].at = "versioned" => call'[p].op.kind = "price"
                      /\ call'[p].at \in {"seen", "retired"} => call'[p].op.kind = "entitlement"
    BY DEF CallsFit
  <2>1. CASE p = q
    BY <2>1, <1>2 DEF Idle
  <2>2. CASE p # q
    BY <2>2, <1>0, <1>2, <1>4 DEF CallsFit
  <2> QED BY <2>1, <2>2
<1>6. LogChained'
  <2>1. \A n \in 1..Len(log) : ChainedAt(audit', n)
    BY <1>0, <1>1, OldStayChained DEF LogChained
  <2>2. ChainedAt(audit', Len(log) + 1)
    BY <1>1, NewIsChained
  <2>3. 1..Len(audit') = (1..Len(log)) \union {Len(log) + 1}
    BY <1>3
  <2> QED BY <2>1, <2>2, <2>3 DEF LogChained
<1>7. LogEmpowered'
  <2>1. \A n \in 1..Len(log) : EmpoweredAt(audit', n)
    BY <1>0, <1>1, PowerStays DEF LogEmpowered
  <2>2. e.op.kind \in RoleKinds => Empowered(log, Len(log), e.actor)
    BY <1>0, <1>1 DEF CallsFit
  <2>3. EmpoweredAt(audit', Len(log) + 1)
    BY <1>1, <2>2, PowerStays
  <2>4. 1..Len(audit') = (1..Len(log)) \union {Len(log) + 1}
    BY <1>3
  <2> QED BY <2>1, <2>3, <2>4 DEF LogEmpowered
<1> QED BY <1>1, <1>2, <1>5, <1>6, <1>7

\* What the log tells of a table stays told by an entry about another one.
LEMMA TablesStayTold ==
    ASSUME AllTold, NEW e, Grown(audit, audit', e)
    PROVE  /\ e.op.kind \notin RoleKinds /\ roles' = roles => RolesTold'
           /\ e.op.kind # "profile" /\ profile' = profile => ColumnsTold'
           /\ e.op.kind # "source" /\ sources' = sources => SourcesTold'
           /\ e.op.kind \notin Things /\ created' = created => ThingsTold'
<1> SUFFICES ASSUME NEW log, log = audit, NEW more, more = audit', Grown(log, more, e)
             PROVE  /\ e.op.kind \notin RoleKinds /\ roles' = roles => RolesTold'
                    /\ e.op.kind # "profile" /\ profile' = profile => ColumnsTold'
                    /\ e.op.kind # "source" /\ sources' = sources => SourcesTold'
                    /\ e.op.kind \notin Things /\ created' = created => ThingsTold'
  OBVIOUS
<1>1. ASSUME e.op.kind \notin RoleKinds, roles' = roles PROVE RolesTold'
  <2>1. \A u \in Staff, r \in Roles : RoleTold(more, u, r, roles[u][r])
    BY <1>1, RoleStaysTold DEF AllTold, RolesTold
  <2> QED BY <1>1, <2>1 DEF RolesTold
<1>2. ASSUME e.op.kind # "profile", profile' = profile PROVE ColumnsTold'
  <2>1. \A u \in Staff, f \in Fields : ColumnTold(more, u, f, profile[u][f])
    BY <1>2, ColumnStaysTold DEF AllTold, ColumnsTold
  <2> QED BY <1>2, <2>1 DEF ColumnsTold
<1>3. ASSUME e.op.kind # "source", sources' = sources PROVE SourcesTold'
  <2>1. \A k \in Sources : SourceTold(more, k, sources[k].known, sources[k].enabled)
    BY <1>3, SourceStaysTold DEF AllTold, SourcesTold
  <2> QED BY <1>3, <2>1 DEF SourcesTold
<1>4. ASSUME e.op.kind \notin Things, created' = created PROVE ThingsTold'
  <2>1. \A thing \in Things : ThingTold(more, thing, created[thing])
    BY <1>4, ThingStaysTold DEF AllTold, ThingsTold
  <2> QED BY <1>4, <2>1 DEF ThingsTold
<1> QED BY <1>1, <1>2, <1>3, <1>4

\* Who holds super_admin has been empowered in the log.
LEMMA HoldersEmpowered ==
    ASSUME DeskInv, NEW u \in Staff, "super_admin" \in Roles, Holds(u, "super_admin")
    PROVE  Empowered(audit, Len(audit), u)
<1> DEFINE ns == EntriesOf(audit, RoleKinds, u, "super_admin")
<1>1. RoleTold(audit, u, "super_admin", roles[u]["super_admin"])
  BY DEF DeskInv, AllTold, RolesTold
<1>2. roles[u]["super_admin"] # "none"
  BY DEF Holds, Active
<1>3. CASE ns = {}
  BY <1>1, <1>2, <1>3 DEF RoleTold, AtStart, Empowered
<1>4. CASE ns # {}
  <2>1. PICK n \in ns : audit[n].op.kind = "grant"
    BY <1>1, <1>2, <1>4 DEF RoleTold
  <2> QED BY <2>1 DEF Empowered, EntriesOf
<1> QED BY <1>3, <1>4

\* A request that answers and leaves the profiles alone lets the other
\* readers of profiles hold theirs.
LEMMA ReadsStay ==
    ASSUME DeskInv, NEW q \in Calls, Answered(q), profile' = profile
    PROVE  ReadsHold'
<1>1. call'[q] = Idle /\ \A p \in Calls \ {q} : call'[p] = call[p]
  BY AnsweredCall DEF DeskInv
<1>2. ReadsHold /\ call'[q].at = "idle"
  BY <1>1 DEF DeskInv, Idle
<1> QED BY <1>1, <1>2 DEF ReadsHold

\* A request is admitted, and changes nothing yet.
LEMMA AuthorizeDesk ==
    ASSUME DeskInv, NEW q \in Calls, NEW ops \in SUBSET Asks, Authorize(q, ops)
    PROVE  DeskInv'
<1>1. PICK u \in Staff, op \in ops :
          /\ \E r \in Permits(op.kind) \intersect Roles : Holds(u, r)
          /\ call' = [call EXCEPT ![q] = [at |-> "authorized", actor |-> u, op |-> op,
                                        seen |-> "none", began |-> 0]]
  BY DEF Authorize
<1>2. op.kind \in RoleKinds => Empowered(audit, Len(audit), u)
  <2> SUFFICES ASSUME op.kind \in RoleKinds PROVE Empowered(audit, Len(audit), u)
    OBVIOUS
  <2>1. Permits(op.kind) = {"super_admin"}
    BY DEF Permits, RoleKinds, MemberKinds, DataKinds, Things
  <2>2. "super_admin" \in Roles /\ Holds(u, "super_admin")
    BY <1>1, <2>1
  <2> QED BY <2>2, HoldersEmpowered
<1>3. [at |-> "authorized", actor |-> u, op |-> op, seen |-> "none", began |-> 0] \in CallSet
  BY DEF CallSet, Stages, Seen
<1>4. /\ CallTyped'
      /\ call'[q] = [at |-> "authorized", actor |-> u, op |-> op, seen |-> "none", began |-> 0]
      /\ \A p \in Calls \ {q} : call'[p] = call[p]
  BY <1>1, <1>3 DEF DeskInv, CallTyped
<1>5. UNCHANGED <<roles, profile, sources, created, audit>>
  BY DEF Authorize, deskVars
<1>6. CallsFit'
  <2>1. CallsFit /\ op \in Asks
    BY DEF DeskInv
  <2> QED BY <1>2, <1>4, <1>5, <2>1 DEF CallsFit
<1>7. ReadsHold'
  BY <1>4, <1>5 DEF DeskInv, ReadsHold
<1> QED BY <1>4, <1>5, <1>6, <1>7 DEF DeskInv, DeskTypeOK, LogTyped, AllTold, RolesTold, ColumnsTold,
           SourcesTold, ThingsTold, LogChained, LogEmpowered

\* A request goes on to its next stage, and changes nothing yet.
LEMMA StageDesk ==
    ASSUME DeskInv, NEW q \in Calls, call[q].at # "idle", NEW at \in Stages, NEW seen \in Seen,
           ToStage(q, at, seen), UNCHANGED <<deskVars, audit>>,
           at = "versioned" => call[q].op.kind = "price",
           at \in {"seen", "retired"} => call[q].op.kind = "entitlement",
           at = "read" => /\ call[q].op.kind = "profile"
                          /\ seen = profile[call[q].op.target][call[q].op.item]
                          /\ ProfileFree(q)
    PROVE  DeskInv'
<1>1. /\ CallTyped' /\ call'[q].at = at /\ call'[q].seen = seen
      /\ call'[q].actor = call[q].actor /\ call'[q].op = call[q].op
      /\ \A p \in Calls \ {q} : call'[p] = call[p]
  BY StagedCall DEF DeskInv
<1>2. UNCHANGED <<roles, profile, sources, created, audit>>
  BY DEF deskVars
<1>3. CallsFit'
  BY <1>1, <1>2 DEF DeskInv, CallsFit
<1>4. ReadsHold'
  <2>1. ReadsHold /\ (at = "read" => ProfileFree(q))
    BY DEF DeskInv
  <2>2. ASSUME NEW p \in Calls, call'[p].at = "read"
        PROVE  /\ call'[p].op.kind = "profile"
               /\ call'[p].seen = profile'[call'[p].op.target][call'[p].op.item]
    <3>1. CASE p = q
      BY <1>1, <1>2, <2>2, <3>1
    <3>2. CASE p # q
      BY <1>1, <1>2, <2>1, <2>2, <3>2 DEF ReadsHold
    <3> QED BY <3>1, <3>2
  <2>3. ASSUME NEW p \in Calls, NEW o \in Calls, p # o, call'[p].at = "read", call'[o].at = "read"
        PROVE  call'[p].op.target # call'[o].op.target
    <3>1. CASE p = q
      BY <1>1, <2>1, <2>3, <3>1 DEF ProfileFree, Asked
    <3>2. CASE o = q
      BY <1>1, <2>1, <2>3, <3>2 DEF ProfileFree, Asked
    <3>3. CASE p # q /\ o # q
      BY <1>1, <2>1, <2>3, <3>3 DEF ReadsHold
    <3> QED BY <3>1, <3>2, <3>3
  <2> QED BY <2>2, <2>3 DEF ReadsHold
<1> QED BY <1>1, <1>2, <1>3, <1>4 DEF DeskInv, DeskTypeOK, LogTyped, AllTold, RolesTold, ColumnsTold,
           SourcesTold, ThingsTold, LogChained, LogEmpowered

(***************************************************************************)
(* One lemma per action.                                                   *)
(***************************************************************************)
\* A refusal, or an answer without a change, keeps the desk.
LEMMA RejectDesk ==
    ASSUME DeskInv, NEW q \in Calls, Answered(q), UNCHANGED <<deskVars, audit>>
    PROVE  DeskInv'
<1>1. CallTyped' /\ call'[q] = Idle /\ \A p \in Calls \ {q} : call'[p] = call[p]
  BY AnsweredCall DEF DeskInv
<1>2. UNCHANGED <<roles, profile, sources, created, audit>>
  BY DEF deskVars
<1>3. CallsFit'
  BY <1>1, <1>2 DEF DeskInv, CallsFit, Idle
<1>4. ReadsHold'
  BY <1>2, ReadsStay
<1> QED BY <1>1, <1>2, <1>3, <1>4 DEF DeskInv, DeskTypeOK, LogTyped, AllTold, RolesTold, ColumnsTold,
           SourcesTold, ThingsTold, LogChained, LogEmpowered

\* A role is granted or revoked: the new entry tells it.
LEMMA RoleDesk ==
    ASSUME DeskInv, NEW q \in Calls, GrantRole(q) \/ RevokeRole(q)
    PROVE  DeskInv'
<1> DEFINE u == call[q].op.target
           r == call[q].op.item
<1>0. /\ call[q].at = "authorized" /\ call[q].op.kind \in RoleKinds
      /\ Audited(q, "none") /\ Answered(q) /\ UNCHANGED <<profile, sources, created>>
      /\ call[q].op.kind = "grant" => roles' = [roles EXCEPT ![u][r] = call[q].op.value]
      /\ call[q].op.kind = "revoke" => roles' = [roles EXCEPT ![u][r] = "none"]
  BY DEF GrantRole, RevokeRole, Is, Asked, RoleKinds
<1>1. Fits(call[q].op)
  BY <1>0, OpenFits
<1>2. u \in Staff /\ r \in Roles /\ (call[q].op.kind = "grant" => call[q].op.value \in Active)
  BY <1>0, <1>1 DEF Fits
<1>3. "none" \in Seen /\ call[q].op.kind # "profile"
  BY <1>0 DEF Seen, RoleKinds
<1> SUFFICES ASSUME NEW e, e = Entry(q, "none")
             PROVE  DeskInv'
  OBVIOUS
<1>4. /\ LogTyped' /\ CallTyped' /\ CallsFit' /\ LogChained' /\ LogEmpowered'
      /\ e.op = call[q].op /\ Grown(audit, audit', e)
  BY <1>0, <1>3, LogStep
<1>5. /\ roles' \in [Staff -> [Roles -> Active \union {"none", "expired"}]]
      /\ \A v \in Staff, o \in Roles : v # u \/ o # r => roles'[v][o] = roles[v][o]
      /\ call[q].op.kind = "grant" <=> roles'[u][r] # "none"
  <2>1. roles \in [Staff -> [Roles -> Active \union {"none", "expired"}]]
    BY DEF DeskInv, DeskTypeOK
  <2>2. CASE call[q].op.kind = "grant"
    <3>1. roles' = [roles EXCEPT ![u][r] = call[q].op.value] /\ call[q].op.value \in Active
      BY <1>0, <1>2, <2>2
    <3>2. call[q].op.value # "none"
      BY <3>1 DEF Active
    <3> HIDE DEF u, r
    <3> QED BY <1>2, <2>1, <2>2, <3>1, <3>2
  <2>3. CASE call[q].op.kind = "revoke"
    <3>1. roles' = [roles EXCEPT ![u][r] = "none"]
      BY <1>0, <2>3
    <3> HIDE DEF u, r
    <3> QED BY <1>2, <2>1, <2>3, <3>1
  <2> QED BY <1>0, <2>2, <2>3 DEF RoleKinds
<1>6. RolesTold'
  <2> SUFFICES ASSUME NEW v \in Staff, NEW o \in Roles, NEW log, log = audit, NEW more, more = audit',
                      NEW assigned, assigned = roles'[v][o]
               PROVE  RoleTold(more, v, o, assigned)
    BY DEF RolesTold
  <2>1. Grown(log, more, e)
    BY <1>4
  <2>2. CASE v = u /\ o = r
    BY <1>0, <1>4, <1>5, <2>1, <2>2, RoleStaysTold
  <2>3. CASE v # u \/ o # r
    <3>1. RoleTold(log, v, o, assigned)
      BY <1>5, <2>3 DEF DeskInv, AllTold, RolesTold
    <3> QED BY <1>4, <2>1, <2>3, <3>1, RoleStaysTold
  <2> QED BY <2>2, <2>3
<1>7. AllTold'
  <2>1. e.op.kind # "profile" /\ e.op.kind # "source" /\ e.op.kind \notin Things
    BY <1>0, <1>4 DEF RoleKinds, Things
  <2> QED BY <1>0, <1>4, <1>6, <2>1, TablesStayTold DEF DeskInv, AllTold
<1>8. ReadsHold'
  BY <1>0, ReadsStay
<1>9. DeskTypeOK'
  BY <1>0, <1>5 DEF DeskInv, DeskTypeOK
<1> QED BY <1>4, <1>7, <1>8, <1>9 DEF DeskInv

\* An assignment expires: it was held before and is still an assignment.
LEMMA ExpireDesk ==
    ASSUME DeskInv, NEW u \in Staff, NEW r \in Roles, Expire(u, r)
    PROVE  DeskInv'
<1>0. /\ roles[u][r] = "temporary" /\ roles' = [roles EXCEPT ![u][r] = "expired"]
      /\ UNCHANGED <<profile, sources, created, audit, call>>
  BY DEF Expire
<1>1. /\ roles' \in [Staff -> [Roles -> Active \union {"none", "expired"}]]
      /\ \A v \in Staff, o \in Roles : v # u \/ o # r => roles'[v][o] = roles[v][o]
      /\ roles'[u][r] = "expired"
  BY <1>0 DEF DeskInv, DeskTypeOK, Active
<1>2. RolesTold'
  <2> SUFFICES ASSUME NEW v \in Staff, NEW o \in Roles, NEW log, log = audit,
                      NEW assigned, assigned = roles'[v][o]
               PROVE  RoleTold(log, v, o, assigned)
    BY <1>0 DEF RolesTold
  <2>1. RoleTold(log, v, o, roles[v][o])
    BY DEF DeskInv, AllTold, RolesTold
  <2>2. CASE v = u /\ o = r
    <3>1. roles[v][o] = "temporary" /\ assigned = "expired"
      BY <1>0, <1>1, <2>2
    <3> QED BY <2>1, <3>1 DEF RoleTold, AtStart
  <2>3. CASE v # u \/ o # r
    BY <1>1, <2>1, <2>3
  <2> QED BY <2>2, <2>3
<1>3. DeskTypeOK'
  BY <1>0, <1>1 DEF DeskInv, DeskTypeOK
<1> QED BY <1>0, <1>2, <1>3 DEF DeskInv, CallTyped, CallsFit, ReadsHold, LogTyped, AllTold, ColumnsTold,
           SourcesTold, ThingsTold, LogChained, LogEmpowered

\* A profile that was read for update is written: it is still as it was read,
\* so the entry starts from the value the log tells.
LEMMA WriteDesk ==
    ASSUME DeskInv, NEW q \in Calls, WriteProfile(q)
    PROVE  DeskInv'
<1> DEFINE u == call[q].op.target
           f == call[q].op.item
           seen == call[q].seen
<1>0. /\ call[q].at = "read" /\ seen # call[q].op.value
      /\ Audited(q, seen) /\ Answered(q) /\ UNCHANGED <<roles, sources, created>>
      /\ profile' = [profile EXCEPT ![u][f] = call[q].op.value]
  BY DEF WriteProfile, Asked
<1>1. Fits(call[q].op) /\ call[q].op.kind = "profile" /\ seen = profile[u][f]
  BY <1>0, OpenFits DEF DeskInv, ReadsHold
<1>2. u \in Staff /\ f \in Fields /\ call[q].op.value \in Vocabulary[f]
  BY <1>1 DEF Fits
<1>3. seen \in Seen
  BY DEF DeskInv, CallTyped, CallSet
<1>4. ColumnTold(audit, u, f, seen)
  BY <1>1, <1>2 DEF DeskInv, AllTold, ColumnsTold
<1> SUFFICES ASSUME NEW e, e = Entry(q, seen)
             PROVE  DeskInv'
  OBVIOUS
<1>5. /\ LogTyped' /\ CallTyped' /\ CallsFit' /\ LogChained' /\ LogEmpowered'
      /\ e.op = call[q].op /\ Grown(audit, audit', e)
  BY <1>0, <1>3, <1>4, LogStep
<1>6. /\ profile' \in [Staff -> [status : Vocabulary.status, audience : Vocabulary.audience]]
      /\ \A v \in Staff, g \in Fields : v # u \/ g # f => profile'[v][g] = profile[v][g]
      /\ profile'[u][f] = call[q].op.value
  <2> DEFINE row == [profile[u] EXCEPT ![f] = call[q].op.value]
  <2>1. profile' = [profile EXCEPT ![u] = row]
    BY <1>0
  <2>2. profile \in [Staff -> [status : Vocabulary.status, audience : Vocabulary.audience]]
    BY DEF DeskInv, DeskTypeOK
  <2>3. /\ row \in [status : Vocabulary.status, audience : Vocabulary.audience]
        /\ \A g \in Fields : g # f => row[g] = profile[u][g]
        /\ row[f] = call[q].op.value
    <3>1. profile[u] \in [status : Vocabulary.status, audience : Vocabulary.audience]
      BY <1>2, <2>2
    <3>2. CASE f = "status"
      BY <1>2, <3>1, <3>2 DEF Fields, Vocabulary
    <3>3. CASE f = "audience"
      BY <1>2, <3>1, <3>3 DEF Fields, Vocabulary
    <3> QED BY <1>2, <3>2, <3>3 DEF Fields
  <2> HIDE DEF row
  <2> QED BY <1>2, <2>1, <2>2, <2>3
<1>7. ColumnsTold'
  <2> SUFFICES ASSUME NEW v \in Staff, NEW g \in Fields, NEW log, log = audit, NEW more, more = audit',
                      NEW value, value = profile'[v][g]
               PROVE  ColumnTold(more, v, g, value)
    BY DEF ColumnsTold
  <2>1. Grown(log, more, e)
    BY <1>5
  <2>2. CASE v = u /\ g = f
    <3>1. e.op.kind = "profile" /\ e.op.target = v /\ e.op.item = g
      BY <1>1, <1>5, <2>2
    <3>2. e.op.value = value
      BY <1>5, <1>6, <2>2
    <3> HIDE DEF u, f, seen
    <3> QED BY <2>1, <3>1, <3>2, ColumnStaysTold
  <2>3. CASE v # u \/ g # f
    <3>1. ColumnTold(log, v, g, value)
      BY <1>6, <2>3 DEF DeskInv, AllTold, ColumnsTold
    <3> QED BY <1>5, <2>1, <2>3, <3>1, ColumnStaysTold
  <2> QED BY <2>2, <2>3
<1>8. AllTold'
  <2>1. e.op.kind \notin RoleKinds /\ e.op.kind # "source" /\ e.op.kind \notin Things
    BY <1>1, <1>5 DEF RoleKinds, Things
  <2> QED BY <1>0, <1>5, <1>7, <2>1, TablesStayTold DEF DeskInv, AllTold
<1>9. ReadsHold'
  <2>1. call'[q] = Idle /\ \A p \in Calls \ {q} : call'[p] = call[p]
    BY <1>0, AnsweredCall DEF DeskInv
  <2>2. ReadsHold /\ call'[q].at = "idle"
    BY <2>1 DEF DeskInv, Idle
  <2>3. ASSUME NEW p \in Calls, call'[p].at = "read"
        PROVE  /\ call'[p].op.kind = "profile"
               /\ call'[p].seen = profile'[call'[p].op.target][call'[p].op.item]
    <3>1. p # q /\ call'[p] = call[p] /\ call[p].at = "read"
      BY <2>1, <2>2, <2>3
    <3>2. /\ call[p].op.kind = "profile" /\ call[p].op.target # u
          /\ call[p].seen = profile[call[p].op.target][call[p].op.item]
      BY <1>0, <2>2, <3>1 DEF ReadsHold
    <3>3. Fits(call[p].op)
      BY <3>1, OpenFits
    <3>4. call[p].op.target \in Staff /\ call[p].op.item \in Fields
      BY <3>2, <3>3 DEF Fits
    <3> QED BY <1>6, <3>1, <3>2, <3>4
  <2>4. ASSUME NEW p \in Calls, NEW o \in Calls, p # o, call'[p].at = "read", call'[o].at = "read"
        PROVE  call'[p].op.target # call'[o].op.target
    BY <2>1, <2>2, <2>4 DEF ReadsHold
  <2> QED BY <2>3, <2>4 DEF ReadsHold
<1>10. DeskTypeOK'
  BY <1>0, <1>6 DEF DeskInv, DeskTypeOK
<1> QED BY <1>5, <1>8, <1>9, <1>10 DEF DeskInv

\* A source is registered or changed.
LEMMA SourceDesk ==
    ASSUME DeskInv, NEW q \in Calls, UpsertSource(q)
    PROVE  DeskInv'
<1> DEFINE k == call[q].op.target
           enabled == call[q].op.value
<1>0. /\ call[q].at = "authorized" /\ call[q].op.kind = "source"
      /\ Audited(q, "none") /\ Answered(q) /\ UNCHANGED <<roles, profile, created>>
      /\ sources' = [sources EXCEPT ![k] = [known |-> TRUE, enabled |-> enabled]]
  BY DEF UpsertSource, Is, Asked
<1>1. Fits(call[q].op)
  BY <1>0, OpenFits
<1>2. k \in Sources /\ call[q].op.item = "enabled" /\ enabled \in BOOLEAN
  BY <1>0, <1>1 DEF Fits
<1>3. "none" \in Seen /\ call[q].op.kind # "profile"
  BY <1>0 DEF Seen
<1> SUFFICES ASSUME NEW e, e = Entry(q, "none")
             PROVE  DeskInv'
  OBVIOUS
<1>4. /\ LogTyped' /\ CallTyped' /\ CallsFit' /\ LogChained' /\ LogEmpowered'
      /\ e.op = call[q].op /\ Grown(audit, audit', e)
  BY <1>0, <1>3, LogStep
<1>5. /\ sources' \in [Sources -> [known : BOOLEAN, enabled : BOOLEAN]]
      /\ \A j \in Sources : j # k => sources'[j] = sources[j]
      /\ sources'[k].enabled = enabled
  BY <1>0, <1>2 DEF DeskInv, DeskTypeOK
<1>6. SourcesTold'
  <2> SUFFICES ASSUME NEW j \in Sources, NEW log, log = audit, NEW more, more = audit',
                      NEW known, known = sources'[j].known, NEW value, value = sources'[j].enabled
               PROVE  SourceTold(more, j, known, value)
    BY DEF SourcesTold
  <2>1. Grown(log, more, e)
    BY <1>4
  <2>2. CASE j = k
    <3>1. e.op.kind = "source" /\ e.op.target = j /\ e.op.item = "enabled"
      BY <1>0, <1>2, <1>4, <2>2
    <3>2. e.op.value = value
      BY <1>4, <1>5, <2>2
    <3> HIDE DEF k, enabled
    <3> QED BY <2>1, <3>1, <3>2, SourceStaysTold
  <2>3. CASE j # k
    <3>1. SourceTold(log, j, known, value)
      BY <1>5, <2>3 DEF DeskInv, AllTold, SourcesTold
    <3> QED BY <1>4, <2>1, <2>3, <3>1, SourceStaysTold
  <2> QED BY <2>2, <2>3
<1>7. AllTold'
  <2>1. e.op.kind \notin RoleKinds /\ e.op.kind # "profile" /\ e.op.kind \notin Things
    BY <1>0, <1>4 DEF RoleKinds, Things
  <2> QED BY <1>0, <1>4, <1>6, <2>1, TablesStayTold DEF DeskInv, AllTold
<1>8. ReadsHold'
  BY <1>0, ReadsStay
<1>9. DeskTypeOK'
  BY <1>0, <1>5 DEF DeskInv, DeskTypeOK
<1> QED BY <1>4, <1>7, <1>8, <1>9 DEF DeskInv

\* An organisation, a batch of codes or a run is made.
LEMMA CreateDesk ==
    ASSUME DeskInv, NEW q \in Calls, Create(q)
    PROVE  DeskInv'
<1>0. PICK thing \in Things :
          /\ call[q].at = "authorized" /\ call[q].op.kind = thing
          /\ created' = [created EXCEPT ![thing] = @ + 1]
  BY DEF Create, Is, Asked
<1>1. Audited(q, "none") /\ Answered(q) /\ UNCHANGED <<roles, profile, sources>>
  BY DEF Create
<1>2. Fits(call[q].op)
  BY <1>0, OpenFits
<1>3. call[q].op.target = "none" /\ call[q].op.item = "none"
  BY <1>0, <1>2 DEF Fits
<1>4. "none" \in Seen /\ call[q].op.kind # "profile"
  BY <1>0 DEF Seen, Things
<1> SUFFICES ASSUME NEW e, e = Entry(q, "none")
             PROVE  DeskInv'
  OBVIOUS
<1>5. /\ LogTyped' /\ CallTyped' /\ CallsFit' /\ LogChained' /\ LogEmpowered'
      /\ e.op = call[q].op /\ Grown(audit, audit', e)
  BY <1>0, <1>1, <1>4, LogStep
<1>6. /\ created' \in [Things -> Nat]
      /\ \A other \in Things : other # thing => created'[other] = created[other]
      /\ created'[thing] = created[thing] + 1
  BY <1>0 DEF DeskInv, DeskTypeOK
<1>7. ThingsTold'
  <2> SUFFICES ASSUME NEW other \in Things, NEW log, log = audit, NEW more, more = audit',
                      NEW count, count = created'[other]
               PROVE  ThingTold(more, other, count)
    BY DEF ThingsTold
  <2>1. Grown(log, more, e) /\ ThingTold(log, other, created[other])
    BY <1>5 DEF DeskInv, AllTold, ThingsTold
  <2>2. CASE other = thing
    BY <1>0, <1>3, <1>5, <1>6, <2>1, <2>2, ThingStaysTold
  <2>3. CASE other # thing
    BY <1>0, <1>5, <1>6, <2>1, <2>3, ThingStaysTold
  <2> QED BY <2>2, <2>3
<1>8. AllTold'
  <2>1. e.op.kind \notin RoleKinds /\ e.op.kind # "profile" /\ e.op.kind # "source"
    BY <1>0, <1>5 DEF RoleKinds, Things
  <2> QED BY <1>1, <1>5, <1>7, <2>1, TablesStayTold DEF DeskInv, AllTold
<1>9. ReadsHold'
  BY <1>1, ReadsStay
<1>10. DeskTypeOK'
  BY <1>1, <1>6 DEF DeskInv, DeskTypeOK
<1> QED BY <1>5, <1>8, <1>9, <1>10 DEF DeskInv

\* A pricing request has an entry of its own and touches no table of the desk.
LEMMA DoneDesk ==
    ASSUME DeskInv, NEW q \in Calls, call[q].at # "idle", call[q].op.kind \in PriceKinds, AuditedAnswer(q)
    PROVE  DeskInv'
<1>0. Audited(q, "none") /\ Answered(q) /\ UNCHANGED <<roles, profile, sources, created>>
  BY DEF AuditedAnswer, deskVars
<1>1. "none" \in Seen /\ call[q].op.kind # "profile"
  BY DEF Seen, PriceKinds
<1> SUFFICES ASSUME NEW e, e = Entry(q, "none")
             PROVE  DeskInv'
  OBVIOUS
<1>2. /\ LogTyped' /\ CallTyped' /\ CallsFit' /\ LogChained' /\ LogEmpowered'
      /\ e.op = call[q].op /\ Grown(audit, audit', e)
  BY <1>0, <1>1, LogStep
<1>3. AllTold'
  <2>1. /\ e.op.kind \notin RoleKinds /\ e.op.kind # "profile" /\ e.op.kind # "source"
        /\ e.op.kind \notin Things
    BY <1>2 DEF RoleKinds, Things, PriceKinds
  <2> QED BY <1>0, <1>2, <2>1, TablesStayTold DEF DeskInv, AllTold
<1>4. ReadsHold'
  BY <1>0, ReadsStay
<1>5. DeskTypeOK'
  BY <1>0 DEF DeskInv, DeskTypeOK
<1> QED BY <1>2, <1>3, <1>4, <1>5 DEF DeskInv

(***************************************************************************)
(* Prices and limits.                                                      *)
(***************************************************************************)
PriceRow == [version : Nat, active : BOOLEAN]
LimitRow == [limit : PlanLimits, active : BOOLEAN]

Numbered(rows) == \A m, n \in 1..Len(rows) : m < n => rows[m].version < rows[n].version
LastOf(rows)   == IF rows = << >> THEN 0 ELSE MaxOf({rows[n].version : n \in 1..Len(rows)})
InForce(rows)  == {n \in 1..Len(rows) : rows[n].active}
Single(ns)     == \A m, n \in ns : m = n

(***************************************************************************)
(* The number a request has taken is the next one, and nobody else has     *)
(* taken it: it holds the product's lock until its row is inserted.        *)
(***************************************************************************)
PricesHold ==
    /\ prices \in Seq(PriceRow) /\ prices # << >>
    /\ Numbered(prices)

LimitsHold ==
    /\ limits \in Seq(LimitRow)
    /\ Single(InForce(limits))

NumbersHold ==
    /\ \A q \in Calls : call[q].at = "versioned" => call[q].seen = LastOf(prices) + 1
    /\ \A p, q \in Calls : call[p].at = "versioned" /\ call[q].at = "versioned" => p = q

PriceInv == PricesHold /\ LimitsHold /\ NumbersHold

\* A set of numbers has at most one greatest element.
LEMMA MaxIs ==
    ASSUME NEW ns \in SUBSET Nat, NEW n \in ns, \A m \in ns : m <= n
    PROVE  MaxOf(ns) = n
<1>1. \E k \in ns : \A m \in ns : m <= k
  OBVIOUS
<1>2. MaxOf(ns) \in ns /\ \A m \in ns : m <= MaxOf(ns)
  BY <1>1 DEF MaxOf
<1>3. MaxOf(ns) \in Nat /\ n \in Nat /\ n <= MaxOf(ns) /\ MaxOf(ns) <= n
  BY <1>2
<1> QED BY <1>3

\* Numbered rows end with the highest version.
LEMMA LastOfNumbered ==
    ASSUME NEW rows \in Seq(PriceRow), rows # << >>, Numbered(rows)
    PROVE  /\ Len(rows) \in 1..Len(rows)
           /\ LastOf(rows) = rows[Len(rows)].version
           /\ LastOf(rows) \in Nat
<1> DEFINE ns == {rows[n].version : n \in 1..Len(rows)}
<1>1. Len(rows) \in Nat /\ Len(rows) # 0
  BY EmptySeq
<1>2. \A n \in 1..Len(rows) : rows[n].version \in Nat
  <2>1. rows \in [1..Len(rows) -> PriceRow]
    OBVIOUS
  <2> QED BY <2>1 DEF PriceRow
<1>3. ns \in SUBSET Nat /\ rows[Len(rows)].version \in ns
  BY <1>1, <1>2
<1>4. \A m \in ns : m <= rows[Len(rows)].version
  <2> SUFFICES ASSUME NEW n \in 1..Len(rows) PROVE rows[n].version <= rows[Len(rows)].version
    OBVIOUS
  <2>1. CASE n = Len(rows)
    BY <1>1, <1>2, <2>1
  <2>2. CASE n # Len(rows)
    BY <1>1, <1>2, <2>2 DEF Numbered
  <2> QED BY <2>1, <2>2
<1> HIDE DEF ns
<1>5. MaxOf(ns) = rows[Len(rows)].version
  BY <1>3, <1>4, MaxIs
<1>6. LastOf(rows) = MaxOf(ns)
  BY DEF LastOf, ns
<1> QED BY <1>1, <1>2, <1>5, <1>6

\* A row with the next number keeps the rows numbered, and is the last.
LEMMA NextIsNumbered ==
    ASSUME NEW rows \in Seq(PriceRow), rows # << >>, Numbered(rows), NEW more,
           more = Append(rows, [version |-> LastOf(rows) + 1, active |-> TRUE])
    PROVE  more \in Seq(PriceRow) /\ more # << >> /\ Numbered(more)
<1> DEFINE row == [version |-> LastOf(rows) + 1, active |-> TRUE]
<1>1. /\ Len(rows) \in 1..Len(rows) /\ LastOf(rows) = rows[Len(rows)].version
      /\ LastOf(rows) \in Nat
  BY LastOfNumbered
<1>2. row \in PriceRow /\ row.version = LastOf(rows) + 1
  BY <1>1 DEF PriceRow
<1> HIDE DEF row
<1>3. /\ more \in Seq(PriceRow) /\ Len(more) = Len(rows) + 1
      /\ \A n \in 1..Len(rows) : more[n] = rows[n]
      /\ more[Len(rows) + 1] = row
  BY <1>2, AppendProperties DEF row
<1>4. Len(rows) \in Nat /\ \A n \in 1..Len(rows) : rows[n].version \in Nat
  <2>1. rows \in [1..Len(rows) -> PriceRow] /\ Len(rows) \in Nat
    OBVIOUS
  <2> QED BY <2>1 DEF PriceRow
<1>5. Numbered(more)
  <2> SUFFICES ASSUME NEW m \in 1..Len(more), NEW n \in 1..Len(more), m < n
               PROVE  more[m].version < more[n].version
    BY DEF Numbered
  <2>0. m \in Nat /\ n \in Nat /\ 1 <= m /\ n <= Len(rows) + 1
    BY <1>3, <1>4
  <2>1. m \in 1..Len(rows) /\ (n \in 1..Len(rows) \/ n = Len(rows) + 1)
    BY <2>0, <1>4
  <2>2. CASE n \in 1..Len(rows)
    BY <1>3, <2>1, <2>2 DEF Numbered
  <2>3. CASE n = Len(rows) + 1
    <3>1. rows[m].version <= rows[Len(rows)].version
      BY <1>1, <1>4, <2>1 DEF Numbered
    <3> QED BY <1>1, <1>2, <1>3, <1>4, <2>1, <2>3, <3>1
  <2> QED BY <2>1, <2>2, <2>3
<1> QED BY <1>3, <1>4, <1>5

\* Whether a price is sold does not change its number.
LEMMA StatusKeepsNumbers ==
    ASSUME NEW rows \in Seq(PriceRow), rows # << >>, Numbered(rows), NEW t, NEW v \in BOOLEAN,
           NEW more, more = [rows EXCEPT ![t].active = v]
    PROVE  /\ more \in Seq(PriceRow) /\ more # << >> /\ Numbered(more)
           /\ LastOf(more) = LastOf(rows)
<1>1. rows \in [1..Len(rows) -> PriceRow] /\ Len(rows) \in Nat
  OBVIOUS
<1>2. \A n \in 1..Len(rows) : [rows[n] EXCEPT !.active = v] \in PriceRow
                             /\ [rows[n] EXCEPT !.active = v].version = rows[n].version
  BY <1>1 DEF PriceRow
<1>3. /\ more \in [1..Len(rows) -> PriceRow]
      /\ \A n \in 1..Len(rows) : more[n].version = rows[n].version
  BY <1>1, <1>2
<1>4. more \in Seq(PriceRow) /\ Len(more) = Len(rows)
  BY <1>1, <1>3, SeqDef
<1>5. Len(rows) # 0
  BY EmptySeq
<1>6. more # << >>
  BY <1>4, <1>5
<1>7. Numbered(more)
  BY <1>3, <1>4 DEF Numbered
<1>8. LastOf(more) = more[Len(more)].version /\ LastOf(rows) = rows[Len(rows)].version
      /\ Len(rows) \in 1..Len(rows)
  BY <1>4, <1>6, <1>7, LastOfNumbered
<1> QED BY <1>3, <1>4, <1>6, <1>7, <1>8

\* A step that takes no number and leaves the tables alone.
LEMMA PriceFrame ==
    ASSUME PriceInv, UNCHANGED <<prices, limits>>,
           \A q \in Calls : call'[q].at = "versioned"
                              => call[q].at = "versioned" /\ call'[q].seen = call[q].seen
    PROVE  PriceInv'
BY DEF PriceInv, PricesHold, LimitsHold, NumbersHold

\* A request that is answered takes no number.
LEMMA AnsweredTakesNone ==
    ASSUME CallTyped, NEW q \in Calls, Answered(q)
    PROVE  \A p \in Calls : call'[p].at = "versioned"
                              => call[p].at = "versioned" /\ call'[p].seen = call[p].seen
<1>1. call'[q] = Idle /\ \A p \in Calls \ {q} : call'[p] = call[p]
  BY AnsweredCall
<1>2. call'[q].at = "idle"
  BY <1>1 DEF Idle
<1> QED BY <1>1, <1>2

\* Authorising a request takes no version number.
LEMMA AuthorizedTakesNone ==
    ASSUME CallTyped, NEW q \in Calls, NEW ops, Authorize(q, ops)
    PROVE  \A p \in Calls : call'[p].at = "versioned"
                              => call[p].at = "versioned" /\ call'[p].seen = call[p].seen
<1>1. call'[q].at = "authorized" /\ \A p \in Calls \ {q} : call'[p] = call[p]
  BY DEF Authorize, CallTyped
<1> QED BY <1>1

\* A request that moves on to another stage takes no version number.
LEMMA StagedTakesNone ==
    ASSUME CallTyped, LogTyped, NEW q \in Calls, NEW at \in Stages \ {"versioned"}, NEW seen \in Seen,
           ToStage(q, at, seen)
    PROVE  \A p \in Calls : call'[p].at = "versioned"
                              => call[p].at = "versioned" /\ call'[p].seen = call[p].seen
<1>1. call'[q].at = at /\ \A p \in Calls \ {q} : call'[p] = call[p]
  BY StagedCall
<1> QED BY <1>1

\* The pricing routes keep the prices numbered and one limit in force.
LEMMA EditStep ==
    ASSUME DeskInv, PriceInv, NEW q \in Calls, EditPrices(q)
    PROVE  DeskInv' /\ PriceInv'
<1>0. CallTyped /\ LogTyped /\ CallsFit
  BY DEF DeskInv
<1>1. CASE NumberPrice(q)
  <2>1. /\ call[q].at = "authorized" /\ call[q].op.kind = "price" /\ ProductFree(q)
        /\ ToStage(q, "versioned", LastOf(prices) + 1)
        /\ UNCHANGED <<deskVars, audit>> /\ UNCHANGED <<prices, limits>>
    BY <1>1 DEF NumberPrice, Is, Asked, LastVersion, LastOf, priceVars
  <2>2. LastOf(prices) + 1 \in Seen /\ "versioned" \in Stages
    BY LastOfNumbered DEF PriceInv, PricesHold, Seen, Stages
  <2>3. DeskInv'
    BY <2>1, <2>2, StageDesk
  <2>4. /\ call'[q].at = "versioned" /\ call'[q].seen = LastOf(prices) + 1
        /\ \A p \in Calls \ {q} : call'[p] = call[p]
    BY <1>0, <2>1, <2>2, StagedCall
  <2>5. \A p \in Calls \ {q} : call'[p].at # "versioned"
    BY <2>1, <2>4 DEF ProductFree
  <2>6. NumbersHold'
    BY <2>1, <2>4, <2>5 DEF NumbersHold
  <2> QED BY <2>1, <2>3, <2>6 DEF PriceInv, PricesHold, LimitsHold
<1>2. CASE InsertPrice(q)
  <2>1. /\ call[q].at = "versioned" /\ AuditedAnswer(q) /\ limits' = limits
        /\ prices' = Append(prices, [version |-> call[q].seen, active |-> TRUE])
    BY <1>2 DEF InsertPrice
  <2>2. DeskInv'
    BY <1>0, <2>1, DoneDesk DEF CallsFit, PriceKinds
  <2>3. call[q].seen = LastOf(prices) + 1
    BY <2>1 DEF PriceInv, NumbersHold
  <2>4. PricesHold'
    BY <2>1, <2>3, NextIsNumbered DEF PriceInv, PricesHold
  <2>5. call'[q] = Idle /\ \A p \in Calls \ {q} : call'[p] = call[p]
    BY <1>0, <2>1, AnsweredCall DEF AuditedAnswer
  <2>6. \A p \in Calls : call'[p].at # "versioned"
    BY <2>1, <2>5 DEF PriceInv, NumbersHold, Idle
  <2>7. NumbersHold'
    BY <2>6 DEF NumbersHold
  <2> QED BY <2>1, <2>2, <2>4, <2>7 DEF PriceInv, LimitsHold
<1>3. CASE SetPriceActive(q)
  <2>1. /\ call[q].at = "authorized" /\ call[q].op.kind = "price_status" /\ AuditedAnswer(q) /\ limits' = limits
        /\ prices' = [prices EXCEPT ![call[q].op.target].active = call[q].op.value]
    BY <1>3 DEF SetPriceActive, Is, Asked
  <2>2. DeskInv'
    BY <2>1, DoneDesk DEF PriceKinds
  <2>3. call[q].op.value \in BOOLEAN
    BY <2>1, OpenFits DEF Fits
  <2>4. PricesHold' /\ LastOf(prices') = LastOf(prices)
    <3> DEFINE t == call[q].op.target
               v == call[q].op.value
    <3>1. prices \in Seq(PriceRow) /\ prices # << >> /\ Numbered(prices)
      BY DEF PriceInv, PricesHold
    <3>2. prices' = [prices EXCEPT ![t].active = v] /\ v \in BOOLEAN
      BY <2>1, <2>3
    <3> HIDE DEF t, v
    <3>3. /\ prices' \in Seq(PriceRow) /\ prices' # << >> /\ Numbered(prices')
          /\ LastOf(prices') = LastOf(prices)
      BY <3>1, <3>2, StatusKeepsNumbers
    <3> QED BY <3>3 DEF PricesHold
  <2>5. \A p \in Calls : call'[p].at = "versioned"
                              => call[p].at = "versioned" /\ call'[p].seen = call[p].seen
    BY <1>0, <2>1, AnsweredTakesNone DEF AuditedAnswer
  <2>6. NumbersHold'
    BY <2>4, <2>5 DEF PriceInv, NumbersHold
  <2> QED BY <2>1, <2>2, <2>4, <2>6 DEF PriceInv, LimitsHold
<1>4. CASE UpsertRegion(q) \/ UpsertPlan(q)
  <2>1. /\ call[q].at = "authorized" /\ call[q].op.kind \in {"region", "plan"} /\ AuditedAnswer(q)
        /\ UNCHANGED <<prices, limits>>
    BY <1>4 DEF UpsertRegion, UpsertPlan, Is, Asked
  <2>2. DeskInv'
    BY <2>1, DoneDesk DEF PriceKinds
  <2>3. \A p \in Calls : call'[p].at = "versioned"
                              => call[p].at = "versioned" /\ call'[p].seen = call[p].seen
    BY <1>0, <2>1, AnsweredTakesNone DEF AuditedAnswer
  <2> QED BY <2>1, <2>2, <2>3, PriceFrame
<1>5. CASE SeeLimits(q) \/ RetireLimits(q)
  <2>1. PICK at \in {"seen", "retired"}, seen \in SUBSET Nat :
            ToStage(q, at, seen) /\ UNCHANGED <<deskVars, audit, priceVars>>
    <3>1. ActiveLimits \in SUBSET Nat
      BY DEF ActiveLimits, PriceInv, LimitsHold
    <3>2. (call[q].seen \intersect ActiveLimits) \in SUBSET Nat
      BY <3>1
    <3> QED BY <1>5, <3>1, <3>2 DEF SeeLimits, RetireLimits
  <2>2. /\ call[q].at # "idle" /\ call[q].op.kind = "entitlement"
        /\ at \in Stages \ {"versioned"} /\ seen \in Seen /\ at # "read"
    BY <1>0, <1>5 DEF SeeLimits, RetireLimits, Is, Asked, CallsFit, Stages, Seen
  <2>3. DeskInv'
    BY <2>1, <2>2, StageDesk
  <2>4. \A p \in Calls : call'[p].at = "versioned"
                              => call[p].at = "versioned" /\ call'[p].seen = call[p].seen
    BY <1>0, <2>1, <2>2, StagedTakesNone
  <2> QED BY <2>1, <2>3, <2>4, PriceFrame DEF priceVars
<1>6. CASE InsertLimit(q)
  <2> DEFINE row  == [limit |-> call[q].op.item, active |-> call[q].op.value]
             rest == Retired(q)
  <2>1. /\ call[q].at = "retired" /\ AuditedAnswer(q) /\ prices' = prices
        /\ limits' = Append(rest, row)
        /\ call[q].op.value => InForce(limits) \subseteq call[q].seen
    BY <1>6 DEF InsertLimit, Asked, Clashes, ActiveLimits, InForce
  <2>2. call[q].op.kind = "entitlement" /\ Fits(call[q].op)
    BY <1>0, <2>1, OpenFits DEF CallsFit
  <2>3. DeskInv'
    BY <2>1, <2>2, DoneDesk DEF PriceKinds
  <2>4. row \in LimitRow /\ row.active = call[q].op.value
    BY <2>2 DEF Fits, LimitRow
  <2>5. limits \in [1..Len(limits) -> LimitRow] /\ Len(limits) \in Nat /\ Single(InForce(limits))
    BY DEF PriceInv, LimitsHold
  <2>6. \A n \in 1..Len(limits) : /\ [limits[n] EXCEPT !.active = FALSE] \in LimitRow
                                   /\ [limits[n] EXCEPT !.active = FALSE].active = FALSE
    BY <2>5 DEF LimitRow
  <2>7. /\ rest \in [1..Len(limits) -> LimitRow]
        /\ \A n \in 1..Len(limits) : rest[n].active => limits[n].active /\ n \notin call[q].seen
    BY <2>5, <2>6 DEF Retired
  <2>8. rest \in Seq(LimitRow) /\ Len(rest) = Len(limits)
    BY <2>5, <2>7, SeqDef
  <2> HIDE DEF row, rest
  <2>9. /\ limits' \in Seq(LimitRow) /\ Len(limits') = Len(limits) + 1
        /\ \A n \in 1..Len(limits) : limits'[n] = rest[n]
        /\ limits'[Len(limits) + 1] = row
    BY <2>1, <2>4, <2>8, AppendProperties
  <2>10. Single(InForce(limits'))
    <3> SUFFICES ASSUME NEW m \in 1..Len(limits'), NEW n \in 1..Len(limits'),
                        limits'[m].active, limits'[n].active
                 PROVE  m = n
      BY DEF Single, InForce
    <3>1. \A k \in 1..Len(limits') : k \in 1..Len(limits) \/ k = Len(limits) + 1
      BY <2>5, <2>9
    <3>2. CASE call[q].op.value
      <4>1. \A k \in 1..Len(limits) : ~limits'[k].active
        BY <2>1, <2>7, <2>9, <3>2 DEF InForce
      <4> QED BY <3>1, <4>1
    <3>3. CASE ~call[q].op.value
      <4>1. m # Len(limits) + 1 /\ n # Len(limits) + 1
        BY <2>4, <2>9, <3>3
      <4>2. m \in InForce(limits) /\ n \in InForce(limits)
        BY <2>7, <2>9, <3>1, <4>1 DEF InForce
      <4> QED BY <2>5, <4>2 DEF Single
    <3> QED BY <3>2, <3>3
  <2>11. \A p \in Calls : call'[p].at = "versioned"
                              => call[p].at = "versioned" /\ call'[p].seen = call[p].seen
    BY <1>0, <2>1, AnsweredTakesNone DEF AuditedAnswer
  <2>12. NumbersHold'
    BY <2>1, <2>11 DEF PriceInv, NumbersHold
  <2> QED BY <2>1, <2>3, <2>9, <2>10, <2>12 DEF PriceInv, PricesHold, LimitsHold
<1> QED BY <1>1, <1>2, <1>3, <1>4, <1>5, <1>6 DEF EditPrices

(***************************************************************************)
(* Orders and refunds.                                                     *)
(***************************************************************************)
OrderStates == {"none", "pending"} \union Cleared
Returning   == {"refunded", "partially_refunded"}
RefundRow   == [order : Sessions \union {"none"}, status : {"none", "pending", "succeeded", "failed"},
                provider : Refunds \union {"none"}, units : 0..Cost]
GivenRow    == [order : Sessions \union {"none"}, units : 0..Cost, by : {"none", "approval", "console"},
                seen : SUBSET {"pending", "succeeded", "failed"}]
ClickSet    == [at : {"idle", "eligible", "inserting", "over"}, order : Sessions \union {"none"}]
ApprovalSet == [at : {"idle", "read", "done"}, row : RowIds \union {"none"}, refund : Refunds \union {"none"}]

\* What is bought and ordered are rows; a version is any value.
BuyShaped ==
    /\ buy = [s \in Sessions |-> buy[s]]
    /\ \A s \in Sessions : buy[s] = [at |-> buy[s].at, version |-> buy[s].version]

OrdersShaped ==
    /\ orders = [s \in Sessions |-> orders[s]]
    /\ \A s \in Sessions : /\ orders[s] = [status |-> orders[s].status, version |-> orders[s].version]
                           /\ orders[s].status \in OrderStates

RefundsShaped ==
    /\ payment \in [Sessions -> {"none", "open", "paid", "unpaid", "unrecorded"}]
    /\ click \in [Clicks -> ClickSet]
    /\ refunds \in [RowIds -> RefundRow]
    /\ given \in [Refunds -> GivenRow]
    /\ approval \in ApprovalSet

\* An attempt without a session has no payment and no order.
IdleIsEmpty ==
    \A s \in Sessions :
        buy[s].at \in {"idle", "priced"} => payment[s] = "none" /\ orders[s].status = "none"

\* The provider refunds what was paid, and an order that waits was not.
PaymentsHold ==
    /\ \A s \in Sessions : orders[s].status = "pending" => payment[s] = "unpaid"
    /\ \A p \in Refunds :
          given[p] # NoRefund => given[p].order \in Sessions /\ payment[given[p].order] = "paid"

\* A row is of an order that was paid, and of the refund whose id it carries;
\* one that says "succeeded" carries an id, and its order says so too.
RowsHold ==
    \A r \in RowIds :
        /\ refunds[r].status = "none" => refunds[r] = NoRow
        /\ refunds[r].status # "none" =>
              refunds[r].order \in Sessions /\ orders[refunds[r].order].status \in Cleared
        /\ refunds[r].provider # "none" => given[refunds[r].provider].order = refunds[r].order
        /\ refunds[r].status = "succeeded" =>
              /\ refunds[r].provider # "none"
              /\ \/ "succeeded" \in given[refunds[r].provider].seen
                 \/ given[refunds[r].provider].by = "approval"
              /\ orders[refunds[r].order].status \in Returning

ProvidersDiffer ==
    \A q, r \in RowIds : refunds[q].provider # "none" /\ refunds[q].provider = refunds[r].provider => q = r

\* Until a request has inserted its row, the row is not there.
ClicksHold ==
    \A c \in Clicks :
        /\ click[c].at # "over" => refunds[c].status = "none"
        /\ click[c].at \in {"eligible", "inserting"} =>
              click[c].order \in Sessions /\ orders[click[c].order].status \in Cleared

\* The approval's row stays; once the provider has answered, it has accepted a
\* refund of the row's order.
ApprovalHolds ==
    approval.at # "idle" =>
        /\ approval.row \in RowIds /\ refunds[approval.row].status # "none"
        /\ approval.at = "done" =>
              /\ approval.refund \in Refunds
              /\ given[approval.refund].order = refunds[approval.row].order
              /\ given[approval.refund].by = "approval"

RefundedAreGiven ==
    \A s \in Sessions : orders[s].status \in Returning => \E p \in Refunds : given[p].order = s

OrderInv ==
    /\ BuyShaped /\ OrdersShaped /\ RefundsShaped
    /\ IdleIsEmpty /\ PaymentsHold /\ OrdersKeepTheirPrice
    /\ RowsHold /\ ProvidersDiffer /\ ClicksHold /\ ApprovalHolds /\ RefundedAreGiven

OrdersForward == \A s \in Sessions : MovesForward(s)

\* An attempt that goes on keeps its version.
LEMMA AttemptKeeps ==
    ASSUME BuyShaped, NEW s \in Sessions, NEW from, NEW to, Attempt(s, from, to)
    PROVE  /\ BuyShaped' /\ buy[s].at = from /\ buy'[s].at = to
           /\ \A t \in Sessions : buy'[t].version = buy[t].version
           /\ \A t \in Sessions \ {s} : buy'[t] = buy[t]
<1>1. buy[s].at = from /\ buy' = [buy EXCEPT ![s] = [buy[s] EXCEPT !.at = to]]
  BY DEF Attempt
<1>2. buy[s] = [at |-> buy[s].at, version |-> buy[s].version] /\ buy = [t \in Sessions |-> buy[t]]
  BY DEF BuyShaped
<1>3. [buy[s] EXCEPT !.at = to] = [at |-> to, version |-> buy[s].version]
  BY <1>2
<1>4. /\ buy' = [t \in Sessions |-> IF t = s THEN [at |-> to, version |-> buy[s].version] ELSE buy[t]]
  BY <1>1, <1>2, <1>3
<1> QED BY <1>1, <1>4 DEF BuyShaped

\* The rows of an order that has been paid decide what becomes of it, and no
\* other order changes.
LEMMA RecomputedOrders ==
    ASSUME OrdersShaped, NEW s \in Sessions, orders[s].status \in Cleared,
           NEW r \in RowIds, refunds'[r].order = s, refunds'[r].status = "succeeded",
           orders' = Recomputed(refunds', s)
    PROVE  /\ OrdersShaped' /\ OrdersForward /\ orders'[s].status \in Returning
           /\ \A t \in Sessions : orders'[t].version = orders[t].version
           /\ \A t \in Sessions \ {s} : orders'[t] = orders[t]
<1> DEFINE after == RefundStatus(refunds', s)
<1>1. /\ orders = [t \in Sessions |-> orders[t]]
      /\ \A t \in Sessions : /\ orders[t] = [status |-> orders[t].status, version |-> orders[t].version]
                             /\ orders[t].status \in OrderStates
  BY DEF OrdersShaped
<1>2. orders' = [orders EXCEPT ![s] = [orders[s] EXCEPT !.status = after]]
  BY DEF Recomputed
<1>3. after \in Returning
  BY DEF RefundStatus, Returning
<1>4. after = IF UnitsIn(refunds', Returned(refunds', s)) >= Cost THEN "refunded" ELSE "partially_refunded"
  BY DEF RefundStatus
<1>5. Returned(refunds', s) = {q \in RowIds : refunds'[q].order = s /\ refunds'[q].status = "succeeded"}
  BY DEF Returned
<1>6. r \in {q \in RowIds : refunds'[q].order = s /\ refunds'[q].status = "succeeded"}
  OBVIOUS
<1> HIDE DEF after
<1>7. [orders[s] EXCEPT !.status = after] = [status |-> after, version |-> orders[s].version]
  BY <1>1
<1>8. orders' = [t \in Sessions |-> IF t = s THEN [status |-> after, version |-> orders[s].version] ELSE orders[t]]
  BY <1>1, <1>2, <1>7
<1>9. OrdersShaped'
  BY <1>1, <1>3, <1>8 DEF OrdersShaped, OrderStates, Returning, Cleared
<1>10. MovesForward(s)
  <2>1. orders'[s].status = after /\ after \in Cleared
    BY <1>3, <1>8 DEF Returning, Cleared
  <2> QED BY <1>4, <1>5, <1>6, <2>1 DEF MovesForward
<1>11. \A t \in Sessions \ {s} : MovesForward(t)
  BY <1>8 DEF MovesForward
<1> QED BY <1>3, <1>8, <1>9, <1>10, <1>11 DEF OrdersForward

\* Checkout: what is sold keeps its version, and a completion moves an order
\* forward or not at all.
LEMMA BuyStep ==
    ASSUME OrderInv, NEW s \in Sessions, BuyNext(s)
    PROVE  OrderInv' /\ OrdersForward
<1> USE DEF OrderInv
<1>0. UNCHANGED <<click, refunds, given, approval>>
  BY DEF BuyNext, ResolvePrice, RefuseReport, CreateSession, AuditCheckout, Pay, Completed, refundVars
<1>1. ProvidersDiffer' /\ ApprovalHolds'
  BY <1>0 DEF ProvidersDiffer, ApprovalHolds
<1>2. ASSUME orders' = orders, BuyShaped',
             payment' \in [Sessions -> {"none", "open", "paid", "unpaid", "unrecorded"}],
             \A t \in Sessions : payment[t] \in {"paid", "unpaid"} => payment'[t] = payment[t],
             \A t \in Sessions : orders[t].status # "none" => buy'[t].version = buy[t].version,
             IdleIsEmpty'
      PROVE  OrderInv' /\ OrdersForward
  <2>1. OrdersKeepTheirPrice' /\ RefundedAreGiven' /\ OrdersShaped' /\ RefundsShaped'
    BY <1>0, <1>2 DEF OrdersKeepTheirPrice, RefundedAreGiven, OrdersShaped, RefundsShaped
  <2>2. OrdersForward
    BY <1>2 DEF OrdersForward, MovesForward
  <2>3. RowsHold' /\ ClicksHold'
    BY <1>0, <1>2 DEF RowsHold, ClicksHold
  <2>4. PaymentsHold'
    BY <1>0, <1>2 DEF PaymentsHold
  <2> QED BY <1>1, <1>2, <2>1, <2>2, <2>3, <2>4
<1>3. CASE ResolvePrice(s)
  <2>1. PICK c \in Loadable : buy' = [buy EXCEPT ![s] = [at |-> "priced", version |-> c.price.version]]
    BY <1>3 DEF ResolvePrice
  <2>2. buy[s].at = "idle" /\ orders' = orders /\ payment' = payment
    BY <1>3 DEF ResolvePrice
  <2>3. buy' = [t \in Sessions |-> IF t = s THEN [at |-> "priced", version |-> c.price.version] ELSE buy[t]]
    BY <2>1 DEF BuyShaped
  <2>4. BuyShaped'
    BY <2>3 DEF BuyShaped
  <2>5. \A t \in Sessions : orders[t].status # "none" => buy'[t].version = buy[t].version
    BY <2>2, <2>3 DEF IdleIsEmpty
  <2>6. IdleIsEmpty'
    BY <2>2, <2>3 DEF IdleIsEmpty
  <2> QED BY <1>2, <2>2, <2>4, <2>5, <2>6 DEF RefundsShaped
<1>4. ASSUME NEW from, NEW to, Attempt(s, from, to), to \notin {"idle", "priced"}, orders' = orders,
             \/ payment' = payment
             \/ from = "priced" /\ payment' = [payment EXCEPT ![s] = "open"]
      PROVE  OrderInv' /\ OrdersForward
  <2>1. /\ BuyShaped' /\ buy[s].at = from /\ buy'[s].at = to
        /\ \A t \in Sessions : buy'[t].version = buy[t].version
        /\ \A t \in Sessions \ {s} : buy'[t] = buy[t]
    BY <1>4, AttemptKeeps
  <2>2. /\ payment' \in [Sessions -> {"none", "open", "paid", "unpaid", "unrecorded"}]
        /\ \A t \in Sessions \ {s} : payment'[t] = payment[t]
        /\ payment[s] \in {"paid", "unpaid"} => payment'[s] = payment[s]
    BY <1>4, <2>1 DEF RefundsShaped, IdleIsEmpty
  <2>3. IdleIsEmpty'
    BY <1>4, <2>1, <2>2 DEF IdleIsEmpty
  <2>4. \A t \in Sessions : payment[t] \in {"paid", "unpaid"} => payment'[t] = payment[t]
    BY <2>2
  <2> QED BY <1>2, <1>4, <2>1, <2>2, <2>3, <2>4
<1>5. CASE RefuseReport(s)
  BY <1>4, <1>5 DEF RefuseReport
<1>6. CASE CreateSession(s)
  BY <1>4, <1>6 DEF CreateSession
<1>7. CASE AuditCheckout(s)
  BY <1>4, <1>7 DEF AuditCheckout
<1>8. CASE Pay(s)
  <2>1. PICK how \in {"paid", "unpaid", "unrecorded"} : payment' = [payment EXCEPT ![s] = how]
    BY <1>8 DEF Pay
  <2>2. buy[s].at = "offered" /\ payment[s] = "open" /\ buy' = buy /\ orders' = orders
    BY <1>8 DEF Pay
  <2>3. /\ payment' \in [Sessions -> {"none", "open", "paid", "unpaid", "unrecorded"}]
        /\ \A t \in Sessions \ {s} : payment'[t] = payment[t]
    BY <2>1 DEF RefundsShaped
  <2>4. IdleIsEmpty' /\ BuyShaped'
    BY <2>2, <2>3 DEF IdleIsEmpty, BuyShaped
  <2>5. \A t \in Sessions : payment[t] \in {"paid", "unpaid"} => payment'[t] = payment[t]
    BY <2>2, <2>3
  <2> QED BY <1>2, <2>2, <2>3, <2>4, <2>5
<1>9. CASE Completed(s)
  <2> DEFINE outcome == Moved(orders[s].status, s)
             version == IF orders[s].status = "none" THEN buy[s].version ELSE orders[s].version
  <2>1. /\ payment[s] \in {"paid", "unpaid"} /\ UNCHANGED <<buy, payment>>
        /\ orders' = [orders EXCEPT ![s] = [status |-> outcome, version |-> version]]
    BY <1>9 DEF Completed, VersionOf
  <2>2. orders[s].status \in OrderStates
    BY DEF OrdersShaped
  <2>3. /\ outcome \in OrderStates /\ outcome # "none"
        /\ orders[s].status \in Cleared => outcome = orders[s].status
        /\ outcome \in Returning => orders[s].status = outcome
        /\ outcome = "pending" => payment[s] = "unpaid"
    BY <2>1, <2>2 DEF Moved, OrderStates, Cleared, Returning, PaymentsHold
  <2>4. version = buy[s].version
    BY DEF OrdersKeepTheirPrice
  <2> HIDE DEF outcome, version
  <2>5. orders' = [t \in Sessions |-> IF t = s THEN [status |-> outcome, version |-> version] ELSE orders[t]]
    BY <2>1 DEF OrdersShaped
  <2>6. /\ orders'[s].status = outcome /\ orders'[s].version = version
        /\ \A t \in Sessions \ {s} : orders'[t] = orders[t]
    BY <2>5
  <2>7. OrdersShaped'
    BY <2>3, <2>5 DEF OrdersShaped
  <2>8. OrdersForward
    BY <2>3, <2>6 DEF OrdersForward, MovesForward
  <2>9. OrdersKeepTheirPrice'
    BY <2>1, <2>4, <2>6 DEF OrdersKeepTheirPrice
  <2>10. RefundedAreGiven'
    BY <1>0, <2>3, <2>6 DEF RefundedAreGiven
  <2>11. IdleIsEmpty'
    BY <2>1, <2>6 DEF IdleIsEmpty
  <2>12. BuyShaped' /\ RefundsShaped'
    BY <1>0, <2>1 DEF BuyShaped, RefundsShaped
  <2>13. /\ \A t \in Sessions : orders[t].status \in Cleared => orders'[t].status = orders[t].status
    BY <2>3, <2>6
  <2>14. ClicksHold'
    BY <1>0, <2>13 DEF ClicksHold
  <2>15. RowsHold'
    BY <1>0, <2>13 DEF RowsHold, Returning, Cleared
  <2>16. PaymentsHold'
    BY <1>0, <2>1, <2>3, <2>6 DEF PaymentsHold
  <2> QED BY <1>1, <2>7, <2>8, <2>9, <2>10, <2>11, <2>12, <2>14, <2>15, <2>16
<1> QED BY <1>3, <1>5, <1>6, <1>7, <1>8, <1>9 DEF BuyNext

\* The provider's refunds only grow, and the tables stay as they are.
LEMMA ProviderStep ==
    ASSUME OrderInv, UNCHANGED <<buy, payment, orders, click, refunds>>,
           approval' \in ApprovalSet, ApprovalHolds', NEW p \in Refunds, NEW q \in GivenRow,
           given' = [given EXCEPT ![p] = q], q.order \in Sessions, payment[q.order] = "paid",
           \/ given[p] = NoRefund
           \/ q.order = given[p].order /\ q.by = given[p].by /\ given[p].seen \subseteq q.seen
    PROVE  OrderInv' /\ OrdersForward
<1> USE DEF OrderInv
<1>1. /\ given' \in [Refunds -> GivenRow] /\ given'[p] = q
      /\ \A r \in Refunds \ {p} : given'[r] = given[r]
  BY DEF RefundsShaped
<1>2. "none" \notin Sessions
  BY CheckoutAssumption
<1>3. \A r \in Refunds : given[r].order \in Sessions =>
          /\ given'[r].order = given[r].order /\ given'[r].by = given[r].by
          /\ given[r].seen \subseteq given'[r].seen
  BY <1>1, <1>2 DEF NoRefund
<1>4. BuyShaped' /\ OrdersShaped' /\ IdleIsEmpty' /\ OrdersKeepTheirPrice' /\ ProvidersDiffer' /\ ClicksHold'
  BY DEF BuyShaped, OrdersShaped, IdleIsEmpty, OrdersKeepTheirPrice, ProvidersDiffer, ClicksHold
<1>5. RefundsShaped'
  BY <1>1 DEF RefundsShaped
<1>6. OrdersForward
  BY DEF OrdersForward, MovesForward
<1>7. PaymentsHold'
  BY <1>1 DEF PaymentsHold
<1>8. RefundedAreGiven'
  BY <1>3 DEF RefundedAreGiven
<1>9. RowsHold'
  <2> SUFFICES ASSUME NEW r \in RowIds
               PROVE  /\ refunds[r].provider # "none" => given'[refunds[r].provider].order = refunds[r].order
                      /\ refunds[r].status = "succeeded" =>
                            \/ "succeeded" \in given'[refunds[r].provider].seen
                            \/ given'[refunds[r].provider].by = "approval"
    BY DEF RowsHold
  <2>1. refunds[r].provider \in Refunds \union {"none"} /\ refunds[r].status \in {"none", "pending", "succeeded", "failed"}
    BY DEF RefundsShaped, RefundRow
  <2>2. refunds[r].provider # "none" => refunds[r].status # "none"
    BY DEF RowsHold, NoRow
  <2>3. refunds[r].provider # "none" =>
            refunds[r].order \in Sessions /\ given[refunds[r].provider].order = refunds[r].order
    BY <2>2 DEF RowsHold
  <2> QED BY <1>3, <2>1, <2>3 DEF RowsHold
<1> QED BY <1>4, <1>5, <1>6, <1>7, <1>8, <1>9

\* A row is inserted or changed, and its order is recomputed if it now says
\* that money went back.
LEMMA RowStep ==
    ASSUME OrderInv, UNCHANGED <<buy, payment, given>>,
           NEW r \in RowIds, NEW row \in RefundRow, refunds' = [refunds EXCEPT ![r] = row],
           row.status # "none", row.order \in Sessions, orders[row.order].status \in Cleared,
           refunds[r].status # "none" => row.order = refunds[r].order,
           row.provider # "none" =>
               /\ given[row.provider].order = row.order
               /\ \A q \in RowIds \ {r} : refunds[q].provider # row.provider,
           row.status = "succeeded" =>
               /\ row.provider # "none"
               /\ "succeeded" \in given[row.provider].seen \/ given[row.provider].by = "approval",
           orders' = IF row.status = "succeeded" THEN Recomputed(refunds', row.order) ELSE orders,
           click' \in [Clicks -> ClickSet],
           \A c \in Clicks : click'[c] = click[c] \/ click'[c].at = "over",
           r \in Clicks => click'[r].at = "over",
           approval' = approval \/ approval' = NoApproval
    PROVE  OrderInv' /\ OrdersForward
<1> USE DEF OrderInv
<1>1. /\ refunds' \in [RowIds -> RefundRow] /\ refunds'[r] = row
      /\ \A q \in RowIds \ {r} : refunds'[q] = refunds[q]
  BY DEF RefundsShaped
<1>2. /\ OrdersShaped' /\ OrdersForward
      /\ \A t \in Sessions : orders'[t].version = orders[t].version
      /\ \A t \in Sessions : orders[t].status \in Cleared => orders'[t].status \in Cleared
      /\ \A t \in Sessions : orders[t].status \in Returning => orders'[t].status \in Returning
      /\ row.status = "succeeded" => orders'[row.order].status \in Returning
      /\ \A t \in Sessions : orders[t].status \notin Cleared => orders'[t] = orders[t]
      /\ \A t \in Sessions : orders'[t].status \in Returning =>
            orders[t].status \in Returning \/ (row.status = "succeeded" /\ t = row.order)
      /\ \A t \in Sessions : orders[t].status \in Cleared => orders'[t].status \notin {"none", "pending"}
  <2>1. CASE row.status = "succeeded"
    <3>1. /\ OrdersShaped' /\ OrdersForward /\ orders'[row.order].status \in Returning
          /\ \A t \in Sessions : orders'[t].version = orders[t].version
          /\ \A t \in Sessions \ {row.order} : orders'[t] = orders[t]
      BY <1>1, <2>1, RecomputedOrders
    <3> QED BY <2>1, <3>1 DEF Cleared, Returning
  <2>2. CASE row.status # "succeeded"
    BY <2>2 DEF OrdersShaped, OrdersForward, MovesForward, Cleared, Returning
  <2> QED BY <2>1, <2>2
<1>3. BuyShaped' /\ OrdersKeepTheirPrice'
  BY <1>2 DEF BuyShaped, OrdersKeepTheirPrice, Cleared
<1>4. RefundsShaped'
  BY <1>1 DEF RefundsShaped, ApprovalSet, NoApproval
<1>5. IdleIsEmpty'
  <2>1. \A t \in Sessions : orders[t].status = "none" => orders'[t].status = "none"
    BY <1>2 DEF Cleared
  <2> QED BY <2>1 DEF IdleIsEmpty
<1>6. PaymentsHold'
  BY <1>2 DEF PaymentsHold, Cleared
<1>7. RowsHold'
  BY <1>1, <1>2 DEF RowsHold
<1>8. ProvidersDiffer'
  <2> SUFFICES ASSUME NEW p \in RowIds, NEW q \in RowIds, refunds'[p].provider # "none",
                      refunds'[p].provider = refunds'[q].provider
               PROVE  p = q
    BY DEF ProvidersDiffer
  <2>1. CASE p # r /\ q # r
    BY <1>1, <2>1 DEF ProvidersDiffer
  <2>2. CASE p = r \/ q = r
    BY <1>1, <2>2
  <2> QED BY <2>1, <2>2
<1>9. ClicksHold'
  <2> SUFFICES ASSUME NEW c \in Clicks, click'[c].at # "over"
               PROVE  /\ refunds'[c].status = "none"
                      /\ click'[c].at \in {"eligible", "inserting"} =>
                            click'[c].order \in Sessions /\ orders'[click'[c].order].status \in Cleared
    BY DEF ClicksHold
  <2>1. c # r /\ c \in RowIds /\ click'[c] = click[c]
    BY DEF RowIds
  <2>2. refunds'[c] = refunds[c]
    BY <1>1, <2>1
  <2>3. /\ refunds[c].status = "none"
        /\ click[c].at \in {"eligible", "inserting"} =>
              click[c].order \in Sessions /\ orders[click[c].order].status \in Cleared
    BY <2>1 DEF ClicksHold
  <2> QED BY <1>2, <2>1, <2>2, <2>3
<1>10. ApprovalHolds'
  BY <1>1 DEF ApprovalHolds, NoApproval
<1>11. RefundedAreGiven'
  <2> SUFFICES ASSUME NEW t \in Sessions, orders'[t].status \in Returning
               PROVE  \E p \in Refunds : given[p].order = t
    BY DEF RefundedAreGiven
  <2>1. CASE orders[t].status \in Returning
    BY <2>1 DEF RefundedAreGiven
  <2>2. CASE row.status = "succeeded" /\ t = row.order
    <3>1. row.provider \in Refunds
      BY <2>2 DEF RefundRow
    <3> QED BY <2>2, <3>1
  <2> QED BY <1>2, <2>1, <2>2
<1> QED BY <1>2, <1>3, <1>4, <1>5, <1>6, <1>7, <1>8, <1>9, <1>10, <1>11

\* Requests for a refund, approvals, consoles and events.
LEMMA RefundStep ==
    ASSUME OrderInv,
           \/ \E c \in Clicks : RefundNext(c)
           \/ Approve \/ AskProvider \/ MarkSucceeded
           \/ \E p \in Refunds : RefundAtProvider(p) \/ SettleRefund(p) \/ RefundEvent(p)
    PROVE  OrderInv' /\ OrdersForward
<1> USE DEF OrderInv
<1>0. UNCHANGED <<buy, payment>>
  BY DEF RefundAtProvider, SettleRefund, RefundEvent, RefundNext, AskRefund, LookForRow, InsertRow, Approve,
         AskProvider, MarkSucceeded
<1>1. "none" \notin Sessions /\ "none" \notin Refunds
  BY CheckoutAssumption
<1>2. ASSUME UNCHANGED <<orders, refunds, given>>, click' \in [Clicks -> ClickSet], ClicksHold',
             approval' \in ApprovalSet, ApprovalHolds'
      PROVE  OrderInv' /\ OrdersForward
  BY <1>0, <1>2 DEF BuyShaped, OrdersShaped, RefundsShaped, IdleIsEmpty, PaymentsHold, OrdersKeepTheirPrice,
         RowsHold, ProvidersDiffer, RefundedAreGiven, OrdersForward, MovesForward
<1>3. ASSUME NEW p \in Refunds, NEW s \in Sessions, NEW units \in 1..Cost, NEW by \in {"approval", "console"},
             Accepts(p, s, units, by), UNCHANGED <<orders, click, refunds>>,
             approval' \in ApprovalSet, ApprovalHolds'
      PROVE  OrderInv' /\ OrdersForward
  <2> DEFINE q == [order |-> s, units |-> units, by |-> by, seen |-> {"pending"}]
  <2>1. /\ given[p] = NoRefund /\ payment[s] = "paid" /\ given' = [given EXCEPT ![p] = q]
    BY <1>3 DEF Accepts
  <2>2. q \in GivenRow /\ q.order = s
    BY <1>3, CheckoutAssumption DEF GivenRow
  <2> HIDE DEF q
  <2> QED BY <1>0, <1>3, <2>1, <2>2, ProviderStep
<1>4. CASE \E p \in Refunds : RefundAtProvider(p)
  <2>1. PICK p \in Refunds, s \in Sessions, units \in 1..Cost : Accepts(p, s, units, "console")
    BY <1>4 DEF RefundAtProvider
  <2>2. UNCHANGED <<orders, click, refunds, approval>>
    BY <1>4 DEF RefundAtProvider
  <2>3. approval' \in ApprovalSet /\ ApprovalHolds'
    <3>1. given' = [given EXCEPT ![p] = [order |-> s, units |-> units, by |-> "console", seen |-> {"pending"}]]
      BY <2>1 DEF Accepts
    <3>2. \A r \in Refunds : given[r].by = "approval" => r # p
      BY <2>1 DEF Accepts, NoRefund
    <3>3. \A r \in Refunds : given[r].by = "approval" => given'[r] = given[r]
      BY <3>1, <3>2 DEF RefundsShaped
    <3> QED BY <2>2, <3>3 DEF ApprovalHolds, RefundsShaped
  <2> QED BY <1>3, <2>1, <2>2, <2>3
<1>5. CASE \E p \in Refunds : SettleRefund(p)
  <2>1. PICK p \in Refunds : SettleRefund(p)
    BY <1>5
  <2>2. PICK told \in {"succeeded", "failed"} : given' = [given EXCEPT ![p].seen = @ \union {told}]
    BY <2>1 DEF SettleRefund
  <2> DEFINE q == [given[p] EXCEPT !.seen = given[p].seen \union {told}]
  <2>3. given[p] \in GivenRow /\ given[p] # NoRefund
    BY <2>1 DEF RefundsShaped, SettleRefund
  <2>4. q \in GivenRow /\ q.order = given[p].order /\ q.by = given[p].by /\ given[p].seen \subseteq q.seen
    BY <2>3 DEF GivenRow
  <2>5. given' = [given EXCEPT ![p] = q] /\ UNCHANGED <<orders, click, refunds, approval>>
    BY <2>1, <2>2 DEF SettleRefund
  <2> HIDE DEF q
  <2>6. given[p].order \in Sessions /\ payment[given[p].order] = "paid"
    BY <2>3 DEF PaymentsHold
  <2>7. given' \in [Refunds -> GivenRow] /\ \A r \in Refunds : given'[r].order = given[r].order /\ given'[r].by = given[r].by
    BY <2>4, <2>5 DEF RefundsShaped
  <2>8. approval' \in ApprovalSet /\ ApprovalHolds'
    BY <2>5, <2>7 DEF ApprovalHolds, RefundsShaped
  <2> QED BY <1>0, <2>4, <2>5, <2>6, <2>8, ProviderStep
<1>6. CASE \E p \in Refunds : RefundEvent(p)
  <2>1. PICK p \in Refunds : RefundEvent(p)
    BY <1>6
  <2> DEFINE s    == given[p].order
             mine == {r \in RowIds : refunds[r].provider = p}
  <2>2. PICK told \in given[p].seen :
           /\ orders[s].status # "none"
           /\ \/ /\ mine # {}
                 /\ refunds' = [r \in RowIds |->
                       IF r \in mine THEN [refunds[r] EXCEPT !.status = told] ELSE refunds[r]]
              \/ /\ mine = {}
                 /\ \E r \in EventRows :
                       /\ refunds[r] = NoRow
                       /\ refunds' = [refunds EXCEPT ![r] =
                             [order |-> s, status |-> told, provider |-> p, units |-> given[p].units]]
           /\ orders' = IF told = "succeeded" THEN Recomputed(refunds', s) ELSE orders
    BY <2>1 DEF RefundEvent
  <2>3. UNCHANGED <<click, given, approval>> /\ click' \in [Clicks -> ClickSet]
    BY <2>1 DEF RefundEvent, RefundsShaped
  <2>4. given[p] \in GivenRow /\ told \in {"pending", "succeeded", "failed"}
    BY DEF RefundsShaped, GivenRow
  <2>5. s \in Sessions /\ payment[s] = "paid"
    <3>1. given[p] # NoRefund
      BY DEF NoRefund
    <3> QED BY <3>1 DEF PaymentsHold
  <2>6. orders[s].status \in Cleared
    BY <2>2, <2>5 DEF OrdersShaped, OrderStates, PaymentsHold
  <2>7. CASE mine # {}
    <3>1. PICK r \in RowIds : refunds[r].provider = p
      BY <2>7
    <3> DEFINE row == [refunds[r] EXCEPT !.status = told]
    <3>2. mine = {r}
      BY <1>1, <3>1 DEF ProvidersDiffer
    <3>3. refunds[r] \in RefundRow
      BY DEF RefundsShaped
    <3>4. row \in RefundRow /\ row.status = told /\ row.provider = p /\ row.order = refunds[r].order
      BY <2>4, <3>1, <3>3 DEF RefundRow
    <3>5. refunds' = [refunds EXCEPT ![r] = row]
      BY <2>2, <2>7, <3>2 DEF RefundsShaped
    <3>6. refunds[r].status # "none" /\ refunds[r].order = s
      BY <1>1, <3>1 DEF RowsHold, NoRow
    <3>7. \A q \in RowIds \ {r} : refunds[q].provider # p
      BY <3>2
    <3>8. r \in Clicks => click'[r].at = "over"
      BY <2>3, <3>6 DEF ClicksHold, RefundsShaped, ClickSet
    <3> HIDE DEF mine, row
    <3>11. /\ row.order \in Sessions /\ orders[row.order].status \in Cleared
           /\ refunds[r].status # "none" => row.order = refunds[r].order
           /\ row.provider # "none" =>
                 /\ given[row.provider].order = row.order
                 /\ \A q \in RowIds \ {r} : refunds[q].provider # row.provider
      BY <2>5, <2>6, <3>4, <3>6, <3>7
    <3>12. row.status = "succeeded" =>
              /\ row.provider # "none"
              /\ "succeeded" \in given[row.provider].seen \/ given[row.provider].by = "approval"
      BY <1>1, <2>2, <3>4
    <3>13. orders' = IF row.status = "succeeded" THEN Recomputed(refunds', row.order) ELSE orders
      BY <2>2, <3>4, <3>6
    <3>14. \A c \in Clicks : click'[c] = click[c] \/ click'[c].at = "over"
      BY <2>3
    <3> QED BY <1>0, <2>3, <2>4, <3>4, <3>5, <3>8, <3>11, <3>12, <3>13, <3>14, RowStep
  <2>8. CASE mine = {}
    <3> DEFINE row == [order |-> s, status |-> told, provider |-> p, units |-> given[p].units]
    <3>1. PICK r \in EventRows : refunds[r] = NoRow /\ refunds' = [refunds EXCEPT ![r] = row]
      BY <2>2, <2>8
    <3>2. row \in RefundRow /\ row.status = told /\ row.provider = p /\ row.order = s
      BY <2>4 DEF RefundRow, GivenRow
    <3>3. r \in RowIds /\ r \notin Clicks /\ refunds[r].status = "none"
      BY <3>1, CheckoutAssumption DEF RowIds, NoRow
    <3>4. \A q \in RowIds \ {r} : refunds[q].provider # p
      BY <2>8
    <3> HIDE DEF mine, row
    <3>11. /\ row.order \in Sessions /\ orders[row.order].status \in Cleared
           /\ refunds[r].status # "none" => row.order = refunds[r].order
           /\ row.provider # "none" =>
                 /\ given[row.provider].order = row.order
                 /\ \A q \in RowIds \ {r} : refunds[q].provider # row.provider
      BY <2>5, <2>6, <3>2, <3>3, <3>4
    <3>12. row.status = "succeeded" =>
              /\ row.provider # "none"
              /\ "succeeded" \in given[row.provider].seen \/ given[row.provider].by = "approval"
      BY <1>1, <2>2, <3>2
    <3>13. orders' = IF row.status = "succeeded" THEN Recomputed(refunds', row.order) ELSE orders
      BY <2>2, <3>2
    <3>14. \A c \in Clicks : click'[c] = click[c] \/ click'[c].at = "over"
      BY <2>3
    <3> QED BY <1>0, <2>3, <2>4, <3>1, <3>2, <3>3, <3>11, <3>12, <3>13, <3>14, RowStep
  <2> QED BY <2>7, <2>8
<1>7. CASE \E c \in Clicks : AskRefund(c) \/ LookForRow(c)
  <2>1. PICK c \in Clicks : AskRefund(c) \/ LookForRow(c)
    BY <1>7
  <2>2. UNCHANGED <<orders, refunds, given, approval>>
    BY <2>1 DEF AskRefund, LookForRow
  <2>3. /\ click' \in [Clicks -> ClickSet]
        /\ \A d \in Clicks \ {c} : click'[d] = click[d]
        /\ click[c].at # "over"
        /\ click'[c].at \in {"eligible", "inserting"} =>
              click'[c].order \in Sessions /\ orders[click'[c].order].status \in Cleared
    <3>1. CASE AskRefund(c)
      <4>1. PICK s \in Sessions : /\ orders[s].status = "paid"
                                  /\ click' = [click EXCEPT ![c] = [at |-> "eligible", order |-> s]]
        BY <3>1 DEF AskRefund
      <4>2. click[c].at = "idle"
        BY <3>1 DEF AskRefund
      <4> QED BY <4>1, <4>2 DEF RefundsShaped, ClickSet, Cleared
    <3>2. CASE LookForRow(c)
      <4> DEFINE at == IF RowsOf(click[c].order) = {} THEN "inserting" ELSE "over"
      <4>1. click[c].at = "eligible" /\ click' = [click EXCEPT ![c] = [click[c] EXCEPT !.at = at]]
        BY <3>2 DEF LookForRow
      <4>2. at \in {"inserting", "over"}
        OBVIOUS
      <4> HIDE DEF at
      <4>3. click[c] \in ClickSet
        BY DEF RefundsShaped
      <4>4. [click[c] EXCEPT !.at = at] \in ClickSet /\ [click[c] EXCEPT !.at = at].order = click[c].order
        BY <4>2, <4>3 DEF ClickSet
      <4>5. click[c].order \in Sessions /\ orders[click[c].order].status \in Cleared
        BY <4>1 DEF ClicksHold
      <4> QED BY <4>1, <4>4, <4>5 DEF RefundsShaped
    <3> QED BY <2>1, <3>1, <3>2
  <2>4. ClicksHold'
    BY <2>2, <2>3 DEF ClicksHold
  <2>5. approval' \in ApprovalSet /\ ApprovalHolds'
    BY <2>2 DEF ApprovalHolds, RefundsShaped
  <2> QED BY <1>2, <2>2, <2>3, <2>4, <2>5
<1>8. CASE \E c \in Clicks : InsertRow(c)
  <2>1. PICK c \in Clicks : InsertRow(c)
    BY <1>8
  <2> DEFINE row == [order |-> click[c].order, status |-> "pending", provider |-> "none", units |-> Cost]
  <2>2. /\ click[c].at = "inserting" /\ click' = [click EXCEPT ![c] = [click[c] EXCEPT !.at = "over"]]
        /\ refunds' = [refunds EXCEPT ![c] = row] /\ UNCHANGED <<orders, given, approval>>
    BY <2>1 DEF InsertRow
  <2>3. c \in RowIds /\ refunds[c].status = "none"
        /\ click[c].order \in Sessions /\ orders[click[c].order].status \in Cleared
    BY <2>2 DEF ClicksHold, RowIds
  <2>4. row \in RefundRow /\ row.status = "pending" /\ row.provider = "none" /\ row.order = click[c].order
    BY <2>3, CheckoutAssumption DEF RefundRow
  <2>5. click[c] \in ClickSet
    BY DEF RefundsShaped
  <2>6. [click[c] EXCEPT !.at = "over"] \in ClickSet /\ [click[c] EXCEPT !.at = "over"].at = "over"
    BY <2>5 DEF ClickSet
  <2>7. /\ click' \in [Clicks -> ClickSet] /\ click'[c].at = "over"
        /\ \A d \in Clicks : click'[d] = click[d] \/ click'[d].at = "over"
    BY <2>2, <2>6 DEF RefundsShaped
  <2> HIDE DEF row
  <2> QED BY <1>0, <2>2, <2>3, <2>4, <2>7, RowStep
<1>9. CASE Approve
  <2>1. PICK r \in RowIds : /\ refunds[r].status \in {"pending", "failed"}
                            /\ approval' = [at |-> "read", row |-> r, refund |-> "none"]
    BY <1>9 DEF Approve
  <2>2. UNCHANGED <<orders, click, refunds, given>>
    BY <1>9 DEF Approve
  <2>3. approval' \in ApprovalSet /\ ApprovalHolds'
    BY <2>1, <2>2 DEF ApprovalHolds, ApprovalSet
  <2>4. click' \in [Clicks -> ClickSet] /\ ClicksHold'
    BY <2>2 DEF ClicksHold, RefundsShaped
  <2> QED BY <1>2, <2>2, <2>3, <2>4
<1>10. CASE AskProvider
  <2> DEFINE s == refunds[approval.row].order
  <2>1. /\ approval.at = "read" /\ UNCHANGED <<orders, click, refunds>>
        /\ \/ \E p \in Refunds, units \in 1..Cost :
                  /\ Accepts(p, s, units, "approval")
                  /\ approval' \in {[approval EXCEPT !.at = "done", !.refund = p], NoApproval}
           \/ UNCHANGED given /\ approval' = NoApproval
    BY <1>10 DEF AskProvider
  <2>2. NoApproval \in ApprovalSet /\ (approval' = NoApproval => ApprovalHolds')
    BY DEF ApprovalSet, NoApproval, ApprovalHolds
  <2>3. CASE UNCHANGED given /\ approval' = NoApproval
    <3>1. click' \in [Clicks -> ClickSet] /\ ClicksHold'
      BY <2>1 DEF ClicksHold, RefundsShaped
    <3> QED BY <1>2, <2>1, <2>2, <2>3, <3>1
  <2>4. ASSUME NEW p \in Refunds, NEW units \in 1..Cost, Accepts(p, s, units, "approval"),
               approval' \in {[approval EXCEPT !.at = "done", !.refund = p], NoApproval}
        PROVE  OrderInv' /\ OrdersForward
    <3>1. approval.row \in RowIds /\ refunds[approval.row].status # "none"
      BY <2>1 DEF ApprovalHolds
    <3>2. s \in Sessions
      BY <3>1 DEF RowsHold
    <3>3. approval \in ApprovalSet
      BY DEF RefundsShaped
    <3>4. CASE approval' = [approval EXCEPT !.at = "done", !.refund = p]
      <4>1. /\ approval' \in ApprovalSet
            /\ approval'.row = approval.row /\ approval'.refund = p
        BY <3>3, <3>4 DEF ApprovalSet
      <4>2. given' = [given EXCEPT ![p] = [order |-> s, units |-> units, by |-> "approval", seen |-> {"pending"}]]
        BY <2>4 DEF Accepts
      <4>3. given'[p].order = s /\ given'[p].by = "approval"
        BY <4>2 DEF RefundsShaped
      <4>4. ApprovalHolds'
        BY <2>1, <3>1, <4>1, <4>3 DEF ApprovalHolds
      <4> QED BY <1>3, <2>1, <2>4, <3>2, <4>1, <4>4
    <3>5. CASE approval' = NoApproval
      BY <1>3, <2>1, <2>2, <2>4, <3>2, <3>5
    <3> QED BY <2>4, <3>4, <3>5
  <2> QED BY <2>1, <2>3, <2>4
<1>11. CASE MarkSucceeded
  <2> DEFINE r   == approval.row
             s   == refunds[r].order
             row == [refunds[r] EXCEPT !.status = "succeeded", !.provider = approval.refund]
  <2>1. /\ approval.at = "done" /\ approval' = NoApproval /\ UNCHANGED <<click, given>>
        /\ \/ UNCHANGED <<refunds, orders>>
           \/ /\ \A q \in RowIds \ {r} : refunds[q].provider # approval.refund
              /\ refunds' = [refunds EXCEPT ![r].status = "succeeded", ![r].provider = approval.refund]
              /\ orders' = Recomputed(refunds', s)
    BY <1>11 DEF MarkSucceeded, Taken
  <2>2. /\ r \in RowIds /\ refunds[r].status # "none"
        /\ approval.refund \in Refunds /\ given[approval.refund].order = s
        /\ given[approval.refund].by = "approval"
    BY <2>1 DEF ApprovalHolds
  <2>3. s \in Sessions /\ orders[s].status \in Cleared
    BY <2>2 DEF RowsHold
  <2>4. click' \in [Clicks -> ClickSet]
    BY <2>1 DEF RefundsShaped
  <2>5. CASE UNCHANGED <<refunds, orders>>
    <3>1. approval' \in ApprovalSet /\ ApprovalHolds'
      BY <2>1 DEF ApprovalSet, NoApproval, ApprovalHolds
    <3>2. ClicksHold'
      BY <2>1, <2>5 DEF ClicksHold
    <3> QED BY <1>2, <2>1, <2>4, <2>5, <3>1, <3>2
  <2>6. CASE /\ \A q \in RowIds \ {r} : refunds[q].provider # approval.refund
             /\ refunds' = [refunds EXCEPT ![r].status = "succeeded", ![r].provider = approval.refund]
             /\ orders' = Recomputed(refunds', s)
    <3>1. refunds[r] \in RefundRow
      BY <2>2 DEF RefundsShaped
    <3>2. /\ row \in RefundRow /\ row.status = "succeeded" /\ row.order = s
          /\ row.provider = approval.refund
      BY <2>2, <3>1 DEF RefundRow
    <3>3. refunds' = [refunds EXCEPT ![r] = row]
      BY <2>2, <2>6 DEF RefundsShaped
    <3>4. r \in Clicks => click'[r].at = "over"
      BY <2>1, <2>2 DEF ClicksHold, RefundsShaped, ClickSet
    <3> HIDE DEF row
    <3>11. /\ row.order \in Sessions /\ orders[row.order].status \in Cleared
           /\ refunds[r].status # "none" => row.order = refunds[r].order
           /\ row.provider # "none" =>
                 /\ given[row.provider].order = row.order
                 /\ \A q \in RowIds \ {r} : refunds[q].provider # row.provider
      BY <2>2, <2>3, <2>6, <3>2
    <3>12. row.status = "succeeded" =>
              /\ row.provider # "none"
              /\ "succeeded" \in given[row.provider].seen \/ given[row.provider].by = "approval"
      BY <1>1, <2>2, <3>2
    <3>13. orders' = IF row.status = "succeeded" THEN Recomputed(refunds', row.order) ELSE orders
      BY <2>6, <3>2
    <3>14. \A c \in Clicks : click'[c] = click[c] \/ click'[c].at = "over"
      BY <2>1
    <3> QED BY <1>0, <2>1, <2>2, <2>4, <3>2, <3>3, <3>4, <3>11, <3>12, <3>13, <3>14, RowStep
  <2> QED BY <2>1, <2>5, <2>6
<1> QED BY <1>4, <1>5, <1>6, <1>7, <1>8, <1>9, <1>10, <1>11 DEF RefundNext

(***************************************************************************)
(* The console.                                                            *)
(***************************************************************************)
ConsoleInv == DeskInv /\ PriceInv /\ OrderInv

\* The empty log tells the state the console starts in.
LEMMA ConsoleStarts ==
    ConsoleInit => ConsoleInv
<1> SUFFICES ASSUME ConsoleInit PROVE ConsoleInv
  OBVIOUS
<1>1. DeskInit /\ PriceInit /\ CheckoutInit
  BY DEF ConsoleInit
<1>2. /\ \A q \in Calls : call[q] = Idle
      /\ audit = << >> /\ Len(audit) = 0 /\ 1..Len(audit) = {}
  BY <1>1 DEF DeskInit
<1>3. DeskTypeOK
  <2>1. roles \in [Staff -> [Roles -> Active \union {"none", "expired"}]]
    BY <1>1 DEF DeskInit, Active
  <2>2. Defaults \in [status : Vocabulary.status, audience : Vocabulary.audience]
    BY DEF Defaults, Vocabulary
  <2> QED BY <1>1, <2>1, <2>2 DEF DeskInit, DeskTypeOK
<1>4. LogTyped
  BY <1>2 DEF LogTyped
<1>5. CallTyped /\ CallsFit /\ ReadsHold
  <2>1. Idle \in CallSet /\ Idle.at = "idle"
    BY DEF Idle, CallSet, Stages, Seen
  <2> QED BY <1>1, <1>2, <2>1 DEF DeskInit, CallTyped, CallsFit, ReadsHold
<1>6. \A kinds, t, i : EntriesOf(audit, kinds, t, i) = {}
  BY <1>2 DEF EntriesOf
<1>7. RolesTold
  BY <1>1, <1>6 DEF DeskInit, RolesTold, RoleTold, AtStart
<1>8. ColumnsTold
  BY <1>1, <1>6 DEF DeskInit, ColumnsTold, ColumnTold
<1>9. SourcesTold
  BY <1>1, <1>6 DEF DeskInit, SourcesTold, SourceTold
<1>10. ThingsTold
  <2>1. \A thing \in Things : created[thing] = 0
    BY <1>1 DEF DeskInit
  <2> QED BY <1>6, <2>1, FS_EmptySet DEF ThingsTold, ThingTold
<1>11. LogChained /\ LogEmpowered
  BY <1>2 DEF LogChained, LogEmpowered
<1>12. DeskInv
  BY <1>3, <1>4, <1>5, <1>7, <1>8, <1>9, <1>10, <1>11 DEF DeskInv, AllTold
<1>13. PriceInv
  <2>1. /\ prices = << [version |-> 1, active |-> TRUE] >> /\ Len(prices) = 1
        /\ limits = << >> /\ Len(limits) = 0
    BY <1>1 DEF PriceInit
  <2>2. prices \in Seq(PriceRow) /\ prices # << >>
    BY <2>1 DEF PriceRow
  <2>3. Numbered(prices)
    BY <2>1 DEF Numbered
  <2>4. LimitsHold
    BY <2>1 DEF LimitsHold, Single, InForce
  <2>5. NumbersHold
    BY <1>2 DEF NumbersHold, Idle
  <2> QED BY <2>2, <2>3, <2>4, <2>5 DEF PriceInv, PricesHold
<1>14. OrderInv
  <2>1. /\ buy = [s \in Sessions |-> [at |-> "idle", version |-> 0]]
        /\ payment = [s \in Sessions |-> "none"]
        /\ orders = [s \in Sessions |-> NoOrder]
        /\ click = [c \in Clicks |-> [at |-> "idle", order |-> "none"]]
        /\ refunds = [r \in RowIds |-> NoRow] /\ given = [p \in Refunds |-> NoRefund]
        /\ approval = NoApproval
    BY <1>1 DEF CheckoutInit
  <2>2. BuyShaped /\ OrdersShaped /\ IdleIsEmpty /\ OrdersKeepTheirPrice /\ RefundedAreGiven
    BY <2>1 DEF BuyShaped, OrdersShaped, OrderStates, NoOrder, IdleIsEmpty, OrdersKeepTheirPrice,
                RefundedAreGiven, Returning
  <2>3. RefundsShaped
    BY <2>1, CheckoutAssumption DEF RefundsShaped, RefundRow, NoRow, GivenRow, NoRefund, ClickSet, ApprovalSet, NoApproval
  <2>4. RowsHold /\ ProvidersDiffer /\ ClicksHold /\ ApprovalHolds /\ PaymentsHold
    BY <2>1 DEF RowsHold, ProvidersDiffer, ClicksHold, ApprovalHolds, PaymentsHold, NoRow, RowIds, NoOrder, NoApproval
  <2> QED BY <2>2, <2>3, <2>4 DEF OrderInv
<1> QED BY <1>12, <1>13, <1>14 DEF ConsoleInv

\* The desk keeps its invariant while nothing of it changes.
LEMMA DeskStands ==
    ASSUME DeskInv, UNCHANGED <<deskVars, audit, call>>
    PROVE  DeskInv'
BY DEF DeskInv, deskVars, DeskTypeOK, LogTyped, CallTyped, CallsFit, ReadsHold, AllTold, RolesTold, ColumnsTold,
       SourcesTold, ThingsTold, LogChained, LogEmpowered

\* The orders keep their invariant while nothing of them changes.
LEMMA OrdersStand ==
    ASSUME OrderInv, UNCHANGED checkoutVars
    PROVE  OrderInv' /\ OrdersForward
<1>1. UNCHANGED <<buy, payment, orders, click, refunds, given, approval>>
  BY DEF checkoutVars, refundVars
<1>2. OrdersForward
  BY <1>1 DEF OrdersForward, MovesForward
<1> QED BY <1>1, <1>2 DEF OrderInv, BuyShaped, OrdersShaped, RefundsShaped, IdleIsEmpty, PaymentsHold,
           OrdersKeepTheirPrice, RowsHold, ProvidersDiffer, ClicksHold, ApprovalHolds, RefundedAreGiven

\* The desk's own requests, and the roles that expire.
LEMMA DeskStep ==
    ASSUME DeskInv, DeskNext
    PROVE  /\ DeskInv'
           /\ \A p \in Calls : call'[p].at = "versioned"
                               => call[p].at = "versioned" /\ call'[p].seen = call[p].seen
<1>0. CallTyped /\ LogTyped
  BY DEF DeskInv
<1>1. ASSUME NEW q \in Calls, Authorize(q, DeskOps)
      PROVE  /\ DeskInv'
             /\ \A p \in Calls : call'[p].at = "versioned"
                               => call[p].at = "versioned" /\ call'[p].seen = call[p].seen
  <2>1. DeskOps \in SUBSET Asks
    BY DEF Asks
  <2> QED BY <1>0, <1>1, <2>1, AuthorizeDesk, AuthorizedTakesNone
<1>2. ASSUME NEW q \in Calls, ReadProfile(q)
      PROVE  /\ DeskInv'
             /\ \A p \in Calls : call'[p].at = "versioned"
                               => call[p].at = "versioned" /\ call'[p].seen = call[p].seen
  <2> DEFINE seen == profile[call[q].op.target][call[q].op.item]
  <2>1. /\ call[q].at = "authorized" /\ call[q].op.kind = "profile" /\ ProfileFree(q)
        /\ ToStage(q, "read", seen) /\ UNCHANGED <<deskVars, audit>>
    BY <1>2 DEF ReadProfile, Is, Asked
  <2>2. call[q].op.target \in Staff /\ call[q].op.item \in Fields
    BY <2>1, OpenFits DEF Fits
  <2>3. seen \in Seen
    BY <2>2 DEF DeskInv, DeskTypeOK, Fields, Vocabulary, Seen
  <2>4. "read" \in Stages \ {"versioned"}
    BY DEF Stages
  <2> HIDE DEF seen
  <2>5. \A p \in Calls : call'[p].at = "versioned"
                         => call[p].at = "versioned" /\ call'[p].seen = call[p].seen
    BY <1>0, <2>1, <2>3, <2>4, StagedTakesNone
  <2>6. DeskInv'
    BY <2>1, <2>3, <2>4, StageDesk DEF seen
  <2> QED BY <2>5, <2>6
<1>3. ASSUME NEW q \in Calls, Serve(q), ~ReadProfile(q)
      PROVE  /\ DeskInv'
             /\ \A p \in Calls : call'[p].at = "versioned"
                               => call[p].at = "versioned" /\ call'[p].seen = call[p].seen
  <2>1. Answered(q)
    BY <1>3 DEF Serve, Reject, GrantRole, RevokeRole, ProfileUnchanged, WriteProfile, UpsertSource, Create
  <2>2. \A p \in Calls : call'[p].at = "versioned"
                         => call[p].at = "versioned" /\ call'[p].seen = call[p].seen
    BY <1>0, <2>1, AnsweredTakesNone
  <2>3. CASE Reject(q) \/ ProfileUnchanged(q)
    <3>1. UNCHANGED <<deskVars, audit>>
      BY <2>3 DEF Reject, ProfileUnchanged
    <3> QED BY <2>1, <2>2, <3>1, RejectDesk
  <2>4. CASE GrantRole(q) \/ RevokeRole(q)
    BY <2>2, <2>4, RoleDesk
  <2>5. CASE WriteProfile(q)
    BY <2>2, <2>5, WriteDesk
  <2>6. CASE UpsertSource(q)
    BY <2>2, <2>6, SourceDesk
  <2>7. CASE Create(q)
    BY <2>2, <2>7, CreateDesk
  <2> QED BY <1>3, <2>3, <2>4, <2>5, <2>6, <2>7 DEF Serve
<1>4. ASSUME NEW u \in Staff, NEW r \in Roles, Expire(u, r)
      PROVE  /\ DeskInv'
             /\ \A p \in Calls : call'[p].at = "versioned"
                               => call[p].at = "versioned" /\ call'[p].seen = call[p].seen
  <2>1. DeskInv'
    BY <1>4, ExpireDesk
  <2>2. call' = call
    BY <1>4 DEF Expire
  <2> QED BY <2>1, <2>2
<1> QED BY <1>1, <1>2, <1>3, <1>4 DEF DeskNext

\* Every step of the console keeps the invariant, and moves orders forward.
LEMMA ConsoleStep ==
    ASSUME ConsoleInv, [ConsoleNext]_consoleVars
    PROVE  ConsoleInv' /\ OrdersForward
<1>0. DeskInv /\ PriceInv /\ OrderInv /\ CallTyped
  BY DEF ConsoleInv, DeskInv
<1>1. CASE Manage
  <2>1. DeskNext /\ UNCHANGED <<prices, limits>> /\ UNCHANGED checkoutVars
    BY <1>1 DEF Manage, priceVars
  <2>2. DeskInv' /\ PriceInv'
    BY <1>0, <2>1, DeskStep, PriceFrame
  <2> QED BY <1>0, <2>1, <2>2, OrdersStand DEF ConsoleInv
<1>2. CASE Reprice
  <2>1. UNCHANGED checkoutVars
    BY <1>2 DEF Reprice
  <2>2. PICK q \in Calls : (Authorize(q, PriceOps) /\ UNCHANGED priceVars) \/ EditPrices(q)
    BY <1>2 DEF Reprice
  <2>3. CASE Authorize(q, PriceOps) /\ UNCHANGED priceVars
    <3>1. PriceOps \in SUBSET Asks
      <4>1. Len(prices) \in Nat
        BY <1>0 DEF PriceInv, PricesHold
      <4>2. {Op("price_status", n, "none", v) : n \in 1..Len(prices), v \in BOOLEAN}
              \subseteq {Op("price_status", n, "none", v) : n \in Nat, v \in BOOLEAN}
        BY <4>1
      <4> QED BY <4>2 DEF PriceOps, Asks, PriceAsks
    <3>2. DeskInv'
      BY <1>0, <2>3, <3>1, AuthorizeDesk
    <3>3. \A p \in Calls : call'[p].at = "versioned"
                           => call[p].at = "versioned" /\ call'[p].seen = call[p].seen
      BY <1>0, <2>3, AuthorizedTakesNone
    <3>4. UNCHANGED <<prices, limits>>
      BY <2>3 DEF priceVars
    <3>5. PriceInv'
      BY <1>0, <3>3, <3>4, PriceFrame
    <3> QED BY <1>0, <2>1, <3>2, <3>5, OrdersStand DEF ConsoleInv
  <2>4. CASE EditPrices(q)
    BY <1>0, <2>1, <2>4, EditStep, OrdersStand DEF ConsoleInv
  <2> QED BY <2>2, <2>3, <2>4
<1>3. ASSUME UNCHANGED <<deskVars, audit, call>>, UNCHANGED <<prices, limits>>, OrderInv', OrdersForward
      PROVE  ConsoleInv' /\ OrdersForward
  <2>1. DeskInv'
    BY <1>0, <1>3, DeskStands
  <2>2. PriceInv'
    BY <1>0, <1>3, PriceFrame
  <2> QED BY <1>3, <2>1, <2>2 DEF ConsoleInv
<1>4. CASE Look
  BY <1>0, <1>3, <1>4, OrdersStand DEF Look, priceVars
<1>5. CASE Sell
  <2>1. UNCHANGED <<deskVars, audit, call>> /\ UNCHANGED <<prices, limits>>
    BY <1>5 DEF Sell, ListPublic, Tick, priceVars
  <2>2. CASE UNCHANGED checkoutVars
    BY <1>0, <1>3, <2>1, <2>2, OrdersStand
  <2>3. CASE CheckoutNext
    <3>1. \/ \E s \in Sessions : BuyNext(s)
          \/ \/ \E c \in Clicks : RefundNext(c)
             \/ Approve \/ AskProvider \/ MarkSucceeded
             \/ \E p \in Refunds : RefundAtProvider(p) \/ SettleRefund(p) \/ RefundEvent(p)
      BY <2>3 DEF CheckoutNext
    <3>2. OrderInv' /\ OrdersForward
      BY <1>0, <3>1, BuyStep, RefundStep
    <3> QED BY <1>3, <2>1, <3>2
  <2> QED BY <1>5, <2>2, <2>3 DEF Sell
<1>6. CASE UNCHANGED consoleVars
  BY <1>0, <1>3, <1>6, OrdersStand DEF consoleVars, priceVars
<1> QED BY <1>1, <1>2, <1>4, <1>5, <1>6 DEF ConsoleNext

\* The tables say what their rows say: the invariant holds what is claimed.
LEMMA DeskInvAccounts ==
    DeskInv => ConsoleIsAccountable
<1> SUFFICES ASSUME DeskInv PROVE ConsoleIsAccountable
  OBVIOUS
<1>1. AuditTellsState
  <2>0. \A kinds, t, i : Entries(kinds, t, i) = EntriesOf(audit, kinds, t, i)
    BY DEF Entries, EntriesOf
  <2>1. \A u \in Staff, r \in Roles :
          LET ns == Entries({"grant", "revoke"}, u, r) IN
          IF ns = {}
          THEN roles[u][r] = IF u \in Founders /\ r = "super_admin" THEN "permanent" ELSE "none"
          ELSE \E n \in ns : IsLast(n, ns) /\ (audit[n].op.kind = "grant" <=> roles[u][r] # "none")
    BY <2>0 DEF DeskInv, AllTold, RolesTold, RoleTold, RoleKinds, AtStart
  <2>2. \A u \in Staff, f \in Fields :
          LET ns == Entries({"profile"}, u, f) IN
          IF ns = {} THEN profile[u][f] = Defaults[f]
          ELSE \E n \in ns : IsLast(n, ns) /\ audit[n].op.value = profile[u][f]
    BY <2>0 DEF DeskInv, AllTold, ColumnsTold, ColumnTold
  <2>3. \A k \in Sources :
          LET ns == Entries({"source"}, k, "enabled") IN
          \/ ns = {} /\ ~sources[k].known
          \/ \E n \in ns : IsLast(n, ns) /\ audit[n].op.value = sources[k].enabled
    BY <2>0 DEF DeskInv, AllTold, SourcesTold, SourceTold
  <2>4. \A thing \in Things : created[thing] = Cardinality(Entries({thing}, "none", "none"))
    BY <2>0 DEF DeskInv, AllTold, ThingsTold, ThingTold
  <2> QED BY <2>1, <2>2, <2>3, <2>4, Zenon DEF AuditTellsState
<1>2. ChangesAreChained
  BY DEF DeskInv, LogChained, ChainedAt, ChangesAreChained, Entries, EntriesOf
<1>3. AuthorityIsGranted
  BY DEF DeskInv, LogEmpowered, EmpoweredAt, Empowered, AuthorityIsGranted, RoleKinds
<1> QED BY <1>1, <1>2, <1>3 DEF DeskInv, ConsoleIsAccountable, AuditIsComplete

\* The two invariants say that what was sold can be traced.
LEMMA SalesInvTraces ==
    PriceInv /\ OrderInv => SalesAreTraceable
<1> SUFFICES ASSUME PriceInv, OrderInv PROVE SalesAreTraceable
  OBVIOUS
<1>1. PricesAreNumbered
  BY DEF PriceInv, PricesHold, Numbered, PricesAreNumbered
<1>2. OneActiveLimit
  <2> DEFINE ns == InForce(limits)
  <2>1. Single(ns)
    BY DEF PriceInv, LimitsHold
  <2>2. ActiveLimits = ns
    BY DEF ActiveLimits, InForce
  <2> HIDE DEF ns
  <2>3. CASE ns = {}
    BY <2>2, <2>3, FS_EmptySet DEF OneActiveLimit
  <2>4. CASE ns # {}
    <3>1. PICK n \in ns : ns = {n}
      BY <2>1, <2>4 DEF Single
    <3>2. Cardinality({n}) = 1
      BY FS_Singleton
    <3> QED BY <2>2, <3>1, <3>2 DEF OneActiveLimit
  <2> QED BY <2>3, <2>4
<1>3. RefundRowsAreReal
  <2> SUFFICES ASSUME NEW r \in RowIds
               PROVE  /\ refunds[r].provider # "none" =>
                            /\ refunds[r].provider \in Refunds
                            /\ given[refunds[r].provider].order = refunds[r].order
                      /\ refunds[r].status = "succeeded" =>
                            /\ refunds[r].provider # "none"
                            /\ \/ "succeeded" \in given[refunds[r].provider].seen
                               \/ given[refunds[r].provider].by = "approval"
                            /\ orders[refunds[r].order].status \in {"refunded", "partially_refunded"}
    BY DEF OrderInv, RefundRowsAreReal, ProvidersDiffer, RefundedAreGiven, Returning
  <2>1. refunds[r].provider \in Refunds \union {"none"}
    BY DEF OrderInv, RefundsShaped, RefundRow
  <2> QED BY <2>1 DEF OrderInv, RowsHold, Returning
<1>4. OrdersKeepTheirPrice
  BY DEF OrderInv
<1> QED BY <1>1, <1>2, <1>3, <1>4 DEF SalesAreTraceable, PricingIsUnambiguous, OrdersAreReal

\* The inductive invariant holds.
THEOREM ConsoleInvariant ==
    ConsoleSpec => []ConsoleInv
<1>1. ConsoleInit => ConsoleInv
  BY ConsoleStarts
<1>2. ConsoleInv /\ [ConsoleNext]_consoleVars => ConsoleInv'
  BY ConsoleStep
<1> QED BY <1>1, <1>2, PTL DEF ConsoleSpec

\* The back office answers for what it did.
THEOREM ConsoleIsSafe ==
    ConsoleSpec => []ConsoleIsAccountable
<1>1. ConsoleInv => ConsoleIsAccountable
  BY DeskInvAccounts DEF ConsoleInv
<1> QED BY <1>1, ConsoleInvariant, PTL

\* Sales can be traced.
THEOREM SalesAreSafe ==
    ConsoleSpec => []SalesAreTraceable
<1>1. ConsoleInv => SalesAreTraceable
  BY SalesInvTraces DEF ConsoleInv
<1> QED BY <1>1, ConsoleInvariant, PTL

\* Orders move forward.
THEOREM OrdersAreSafe ==
    ConsoleSpec => OrdersMoveForward
<1>1. ConsoleInv /\ [ConsoleNext]_consoleVars => [\A s \in Sessions : MovesForward(s)]_orders
  BY ConsoleStep DEF OrdersForward
<1> QED BY <1>1, ConsoleInvariant, PTL DEF ConsoleSpec, OrdersMoveForward

(***************************************************************************)
(* What is read: pages and audit answers.                                  *)
(***************************************************************************)
\* The positions of the registered keys, and a listing as a value.
RegisteredOf(srcs) ==
    LET ns == {n \in 1..Len(KeyOrder) : srcs[KeyOrder[n]].known}
    IN  [i \in 1..Cardinality(ns) |-> KeyOrder[CHOOSE n \in ns : Cardinality({m \in ns : m <= n}) = i]]

ListingOf(lists, srcs, made) ==
    CASE lists = "members" -> SetToSeq(Staff)
      [] lists = "sources" -> RegisteredOf(srcs)
      [] lists = "runs" -> [n \in 1..made |-> made + 1 - n]

\* How many of n rows the first pages show.
Upto(n, pages) == IF pages * PageSize < n THEN pages * PageSize ELSE n

\* The reader's rows are those of the pages he has read, and his count is the
\* length of the list, unless the list was changed under him.
Leafing(v, listing) ==
    /\ v.page \in Nat \ {0} /\ v.lists \in Lists /\ v.undisturbed \in BOOLEAN
    /\ v.undisturbed =>
         /\ v.rows = SubSeq(listing, 1, Upto(Len(listing), IF v.at = "page" THEN v.page ELSE v.page - 1))
         /\ v.at \in {"rows", "page"} => v.total = Len(listing)

ViewShaped(v) ==
    v = [at |-> v.at, lists |-> v.lists, page |-> v.page, total |-> v.total, rows |-> v.rows,
         undisturbed |-> v.undisturbed]

\* Entries that were shown are in the log, and they are the newest of all that
\* were there to see.
ShownWell(log, s) ==
    /\ s.of \subseteq 1..Len(log)
    /\ LET visible == {n \in s.of : s.scope = "all" \/ InMemberScope(log[n])}
       IN  /\ s.entries \subseteq visible
           /\ Cardinality(s.entries) < AuditLimit => s.entries = visible

ViewInv ==
    /\ ViewShaped(view)
    /\ view.at \in {"closed", "count", "rows", "page"}
    /\ view.at = "closed" => view = [Closed EXCEPT !.undisturbed = view.undisturbed]
    /\ view.at # "closed" => Leafing(view, ListingOf(view.lists, sources, created["collection_run"]))
    /\ ShownWell(audit, shown)

\* A set put in a sequence is a sequence of its elements.
LEMMA SetToSeqIsSeq ==
    ASSUME NEW S, IsFiniteSet(S)
    PROVE  SetToSeq(S) \in Seq(S)
<1>1. Cardinality(S) \in Nat /\ ExistsBijection(1..Cardinality(S), S)
  BY FS_CardinalityType
<1>2. PICK f \in Bijection(1..Cardinality(S), S) : TRUE
  BY <1>1 DEF ExistsBijection
<1>3. f \in [1..Cardinality(S) -> S] /\ IsInjective(f)
  BY <1>2 DEF Bijection, Injection, IsInjective
<1>4. SetToSeq(S) \in [1..Cardinality(S) -> S]
  BY <1>3 DEF SetToSeq
<1> QED BY <1>1, <1>4, SeqDef

\* Every listing is a sequence.
LEMMA ListingIsSeq ==
    ASSUME NEW lists \in Lists, NEW srcs, NEW made \in Nat
    PROVE  \E T : ListingOf(lists, srcs, made) \in Seq(T)
<1>1. CASE lists = "members"
  <2>1. SetToSeq(Staff) \in Seq(Staff)
    BY ViewsAssumption, SetToSeqIsSeq
  <2>2. ListingOf(lists, srcs, made) = SetToSeq(Staff)
    BY <1>1 DEF ListingOf
  <2> QED BY <2>1, <2>2
<1>2. CASE lists = "sources"
  <2> DEFINE ns   == {n \in 1..Len(KeyOrder) : srcs[KeyOrder[n]].known}
             size == Cardinality(ns)
             key(i) == KeyOrder[CHOOSE n \in ns : Cardinality({m \in ns : m <= n}) = i]
  <2>1. Len(KeyOrder) \in Nat
    BY ViewsAssumption
  <2>2. IsFiniteSet(1..Len(KeyOrder)) /\ ns \subseteq 1..Len(KeyOrder)
    <3>1. \A k \in Nat : IsFiniteSet(1..k)
      BY FS_Interval
    <3>2. ns \subseteq 1..Len(KeyOrder)
      OBVIOUS
    <3> HIDE DEF ns
    <3> QED BY <2>1, <3>1, <3>2
  <2>3. size \in Nat
    <3> HIDE DEF ns
    <3> QED BY <2>2, FS_Subset, FS_CardinalityType
  <2>4. ListingOf(lists, srcs, made) = [i \in 1..size |-> key(i)]
    BY <1>2 DEF ListingOf, RegisteredOf
  <2> HIDE DEF ns, size, key
  <2>5. [i \in 1..size |-> key(i)] \in [1..size -> {key(i) : i \in 1..size}]
    OBVIOUS
  <2>6. [i \in 1..size |-> key(i)] \in Seq({key(i) : i \in 1..size})
    BY <2>3, <2>5, SeqDef
  <2> QED BY <2>4, <2>6
<1>3. CASE lists = "runs"
  <2>1. ListingOf(lists, srcs, made) = [n \in 1..made |-> made + 1 - n]
    BY <1>3 DEF ListingOf
  <2>2. [n \in 1..made |-> made + 1 - n] \in [1..made -> Int]
    OBVIOUS
  <2>3. [n \in 1..made |-> made + 1 - n] \in Seq(Int)
    BY <2>2, SeqDef
  <2> QED BY <2>1, <2>3
<1> QED BY <1>1, <1>2, <1>3 DEF Lists

\* A page joins the pages before it.
LEMMA PagesJoin ==
    ASSUME NEW T, NEW rows \in Seq(T), NEW page \in Nat \ {0}
    PROVE  SubSeq(rows, 1, Upto(Len(rows), page - 1)) \o Page(rows, page)
             = SubSeq(rows, 1, Upto(Len(rows), page))
<1> DEFINE before == (page - 1) * PageSize
           i == Upto(Len(rows), page - 1)
           j == Upto(Len(rows), page)
<1>1. PageSize \in Nat \ {0} /\ Len(rows) \in Nat
  BY ViewsAssumption
<1>2. before \in Nat
  BY <1>1
<1>3. page * PageSize = before + PageSize
  BY <1>1
<1>4. i = IF before < Len(rows) THEN before ELSE Len(rows)
  BY DEF Upto
<1>5. j = IF before + PageSize < Len(rows) THEN before + PageSize ELSE Len(rows)
  BY <1>3 DEF Upto
<1>6. Page(rows, page) = SubSeq(rows, before + 1, j)
  BY <1>5 DEF Page, Slice
<1> HIDE DEF before, i, j
<1>7. i \in Nat /\ j \in Nat /\ i <= j /\ j <= Len(rows)
  BY <1>1, <1>2, <1>4, <1>5
<1>8. /\ SubSeq(rows, 1, i) \in Seq(T) /\ Len(SubSeq(rows, 1, i)) = i
      /\ \A k \in 1..i : SubSeq(rows, 1, i)[k] = rows[k]
  BY <1>7, SubSeqProperties
<1>9. /\ SubSeq(rows, 1, j) \in Seq(T) /\ Len(SubSeq(rows, 1, j)) = j
      /\ \A k \in 1..j : SubSeq(rows, 1, j)[k] = rows[k]
  BY <1>7, SubSeqProperties
<1>10. /\ Page(rows, page) \in Seq(T) /\ Len(Page(rows, page)) = j - i
       /\ \A k \in 1..(j - i) : Page(rows, page)[k] = rows[i + k]
  <2>1. CASE before < Len(rows)
    <3>1. before + 1 \in 1..(Len(rows) + 1) /\ j \in before..Len(rows) /\ i = before
      BY <1>1, <1>2, <1>4, <1>5, <1>7, <2>1
    <3>2. \A k \in (before + 1)..j : rows[k] \in T
      BY <1>1, <1>2, <3>1
    <3>3. before + 1 \in Int /\ j \in Int
      BY <1>2, <1>7
    <3> DEFINE cut == SubSeq(rows, before + 1, j)
    <3>4. /\ cut \in Seq(T)
          /\ Len(cut) = IF before + 1 <= j THEN j - (before + 1) + 1 ELSE 0
          /\ \A k \in 1..(j - (before + 1) + 1) : cut[k] = rows[before + 1 + k - 1]
      BY <3>2, <3>3, SubSeqProperties
    <3> HIDE DEF cut
    <3>5. Len(cut) = j - i /\ j - (before + 1) + 1 = j - i
      BY <1>2, <1>7, <3>1, <3>4
    <3>6. \A k \in 1..(j - i) : cut[k] = rows[i + k]
      BY <1>2, <1>7, <3>1, <3>4, <3>5
    <3>7. Page(rows, page) = cut
      BY <1>6 DEF cut
    <3>8. Page(rows, page) \in Seq(T) /\ Len(Page(rows, page)) = j - i
      BY <3>4, <3>5, <3>7
    <3>9. \A k \in 1..(j - i) : Page(rows, page)[k] = rows[i + k]
      BY <3>6, <3>7
    <3> QED BY <3>8, <3>9
  <2>2. CASE ~(before < Len(rows))
    <3>1. j = Len(rows) /\ i = Len(rows) /\ before + 1 > j
      BY <1>1, <1>2, <1>4, <1>5, <2>2
    <3>2. SubSeq(rows, before + 1, j) = << >>
      BY <1>1, <1>2, <3>1
    <3>3. Page(rows, page) = << >>
      BY <1>6, <3>2
    <3>4. j - i = 0
      BY <1>7, <3>1
    <3>5. Page(rows, page) \in Seq(T) /\ Len(Page(rows, page)) = 0
      BY <3>3
    <3>6. \A k \in 1..0 : Page(rows, page)[k] = rows[i + k]
      OBVIOUS
    <3> QED BY <3>4, <3>5, <3>6
  <2> QED BY <2>1, <2>2
<1> DEFINE first == SubSeq(rows, 1, i)
           next  == Page(rows, page)
           all   == SubSeq(rows, 1, j)
<1> HIDE DEF first, next, all
<1>11. /\ first \o next \in Seq(T) /\ Len(first \o next) = j
       /\ \A k \in 1..j : (first \o next)[k] = rows[k]
  <2>1. first \in Seq(T) /\ next \in Seq(T) /\ Len(first) = i /\ Len(next) = j - i
    BY <1>8, <1>10 DEF first, next
  <2>2. /\ first \o next \in Seq(T) /\ Len(first \o next) = Len(first) + Len(next)
        /\ \A k \in 1..(Len(first) + Len(next)) :
              (first \o next)[k] = IF k <= Len(first) THEN first[k] ELSE next[k - Len(first)]
    BY <2>1, ConcatProperties
  <2>3. ASSUME NEW k \in 1..j PROVE (first \o next)[k] = rows[k]
    <3>1. CASE k <= i
      <4>1. first[k] = rows[k]
        BY <1>7, <1>8, <3>1 DEF first
      <4> QED BY <1>7, <2>1, <2>2, <3>1, <4>1
    <3>2. CASE ~(k <= i)
      <4>1. k - i \in 1..(j - i) /\ i + (k - i) = k
        BY <1>7, <3>2
      <4>2. next[k - i] = rows[k]
        BY <1>10, <4>1 DEF next
      <4> QED BY <1>7, <2>1, <2>2, <3>2, <4>2
    <3> QED BY <3>1, <3>2
  <2> QED BY <1>7, <2>1, <2>2, <2>3
<1>12. all \in Seq(T) /\ Len(all) = j /\ \A k \in 1..j : all[k] = rows[k]
  BY <1>9 DEF all
<1>13. first \o next = all
  BY <1>7, <1>11, <1>12, SeqEqual
<1> QED BY <1>13 DEF first, next, all, i, j

\* The rows of all pages are the list.
LEMMA AllPages ==
    ASSUME NEW T, NEW rows \in Seq(T)
    PROVE  SubSeq(rows, 1, Len(rows)) = rows
<1>1. /\ SubSeq(rows, 1, Len(rows)) \in Seq(T) /\ Len(SubSeq(rows, 1, Len(rows))) = Len(rows)
      /\ \A k \in 1..Len(rows) : SubSeq(rows, 1, Len(rows))[k] = rows[k]
  BY SubSeqProperties
<1> QED BY <1>1, SeqEqual

\* The reader's steps.
LEMMA LeafStep ==
    ASSUME ViewInv, DeskTypeOK, OpenView \/ CountList \/ FetchRows \/ TurnPage,
           UNCHANGED <<sources, created, audit>>
    PROVE  ViewInv'
<1> DEFINE made == created["collection_run"]
           listing == ListingOf(view.lists, sources, made)
<1>0. made \in Nat
  BY DEF DeskTypeOK, Things
<1>1. UNCHANGED shown /\ ShownWell(audit, shown) /\ ViewShaped(view)
  BY DEF ViewInv, OpenView, CountList, FetchRows, TurnPage
<1>2. Listing(view.lists) = listing
  BY DEF Listing, ListingOf, Registered, RegisteredOf
<1>3. CASE OpenView
  <2>1. PICK lists \in Lists : view' = [[[Closed EXCEPT !.at = "count"] EXCEPT !.lists = lists] EXCEPT !.page = 1]
    BY <1>3 DEF OpenView, Closed
  <2> DEFINE Views  == [at : {"closed", "count"}, lists : Lists \union {"none"}, page : {0, 1},
                        total : {0}, rows : {<< >>}, undisturbed : BOOLEAN]
             first  == [Closed EXCEPT !.at = "count"]
             second == [first EXCEPT !.lists = lists]
             third  == [second EXCEPT !.page = 1]
  <2>2. /\ third.at = "count" /\ third.lists = lists /\ third.page = 1
        /\ third.rows = << >> /\ third.undisturbed = TRUE /\ ViewShaped(third)
    <3>1. first \in Views /\ first.at = "count" /\ first.undisturbed = TRUE
      BY DEF Closed
    <3> HIDE DEF first
    <3>2. second \in Views /\ second.at = "count" /\ second.undisturbed = TRUE /\ second.lists = lists
      BY <3>1
    <3> HIDE DEF second
    <3>3. /\ third \in Views /\ third.at = "count" /\ third.undisturbed = TRUE /\ third.lists = lists
          /\ third.page = 1
      BY <3>2
    <3> HIDE DEF third
    <3> QED BY <3>3 DEF ViewShaped
  <2>5. view' = third
    BY <2>1
  <2> HIDE DEF first, second, third, Views
  <2> DEFINE shows == ListingOf(lists, sources, made)
  <2>3. SubSeq(shows, 1, Upto(Len(shows), 0)) = << >>
    <3>1. PICK T : shows \in Seq(T)
      BY <1>0, ListingIsSeq
    <3>2. Len(shows) \in Nat /\ PageSize \in Nat \ {0}
      BY <3>1, ViewsAssumption
    <3> HIDE DEF shows
    <3>3. Upto(Len(shows), 0) = 0
      BY <3>2 DEF Upto
    <3> QED BY <3>3, SubSeqEmpty
  <2>4. Leafing(view', shows)
    <3> HIDE DEF shows
    <3>1. third.page - 1 = 0 /\ third.page \in Nat \ {0}
      BY <2>2
    <3>2. Leafing(third, shows)
      BY <2>2, <2>3, <3>1 DEF Leafing
    <3> QED BY <2>5, <3>2
  <2> QED BY <1>1, <2>2, <2>5, <2>4 DEF ViewInv
<1>4. CASE CountList
  <2> HIDE DEF listing
  <2>1. /\ view.at = "count"
        /\ view' = [[view EXCEPT !.at = "rows"] EXCEPT !.total = Len(listing)]
    BY <1>2, <1>4 DEF CountList, ViewInv, ViewShaped
  <2>2. [view EXCEPT !.at = "rows"]
          = [at |-> "rows", lists |-> view.lists, page |-> view.page, total |-> view.total,
             rows |-> view.rows, undisturbed |-> view.undisturbed]
    BY <1>1 DEF ViewShaped
  <2>3. view' = [at |-> "rows", lists |-> view.lists, page |-> view.page, total |-> Len(listing),
                 rows |-> view.rows, undisturbed |-> view.undisturbed]
    BY <2>1, <2>2
  <2>4. Leafing(view, listing)
    BY <2>1 DEF ViewInv, listing
  <2>5. Leafing(view', listing)
    BY <2>1, <2>3, <2>4 DEF Leafing
  <2> QED BY <1>1, <2>3, <2>5 DEF ViewInv, ViewShaped, listing
<1>5. CASE FetchRows
  <2> HIDE DEF listing
  <2> DEFINE fetched == view.rows \o Page(listing, view.page)
  <2>1. view.at = "rows" /\ view' = [[view EXCEPT !.at = "page"] EXCEPT !.rows = fetched]
    BY <1>2, <1>5 DEF FetchRows, ViewInv, ViewShaped
  <2>2. [view EXCEPT !.at = "page"]
          = [at |-> "page", lists |-> view.lists, page |-> view.page, total |-> view.total,
             rows |-> view.rows, undisturbed |-> view.undisturbed]
    BY <1>1 DEF ViewShaped
  <2>3. view' = [at |-> "page", lists |-> view.lists, page |-> view.page, total |-> view.total,
                 rows |-> fetched, undisturbed |-> view.undisturbed]
    BY <2>1, <2>2
  <2>4. Leafing(view, listing)
    BY <2>1 DEF ViewInv, listing
  <2>5. PICK T : listing \in Seq(T)
    BY <1>0, <2>4, ListingIsSeq DEF Leafing, listing
  <2>6. view.undisturbed => fetched = SubSeq(listing, 1, Upto(Len(listing), view.page))
    <3>1. view.page \in Nat \ {0}
      BY <2>4 DEF Leafing
    <3>2. view.undisturbed => view.rows = SubSeq(listing, 1, Upto(Len(listing), view.page - 1))
      BY <2>1, <2>4 DEF Leafing
    <3> QED BY <2>5, <3>1, <3>2, PagesJoin
  <2> HIDE DEF fetched
  <2>7. Leafing(view', listing)
    BY <2>1, <2>3, <2>4, <2>6 DEF Leafing
  <2> QED BY <1>1, <2>3, <2>7 DEF ViewInv, ViewShaped, listing
<1>6. CASE TurnPage
  <2> HIDE DEF listing
  <2>1. view.at = "page"
    BY <1>6 DEF TurnPage
  <2>2. CASE view.page * PageSize < view.total
    <3>1. view' = [[view EXCEPT !.at = "count"] EXCEPT !.page = view.page + 1]
      BY <1>6, <2>2 DEF TurnPage, ViewInv, ViewShaped
    <3>2. [view EXCEPT !.at = "count"]
            = [at |-> "count", lists |-> view.lists, page |-> view.page, total |-> view.total,
               rows |-> view.rows, undisturbed |-> view.undisturbed]
      BY <1>1 DEF ViewShaped
    <3>3. view' = [at |-> "count", lists |-> view.lists, page |-> view.page + 1, total |-> view.total,
                   rows |-> view.rows, undisturbed |-> view.undisturbed]
      BY <3>1, <3>2
    <3>4. Leafing(view, listing)
      BY <2>1 DEF ViewInv, listing
    <3>5. view.page + 1 \in Nat \ {0} /\ view.page + 1 - 1 = view.page
      BY <3>4 DEF Leafing
    <3>6. Leafing(view', listing)
      BY <2>1, <3>3, <3>4, <3>5 DEF Leafing
    <3> QED BY <1>1, <3>3, <3>6 DEF ViewInv, ViewShaped, listing
  <2>3. CASE ~(view.page * PageSize < view.total)
    <3>1. view' = Closed
      BY <1>6, <2>3 DEF TurnPage
    <3> QED BY <1>1, <3>1 DEF ViewInv, ViewShaped, Closed
  <2> QED BY <2>2, <2>3
<1> QED BY <1>3, <1>4, <1>5, <1>6

\* An audit answer shows the newest entries there are.
LEMMA AuditShown ==
    ASSUME ViewInv, LogTyped, ReadAudit, UNCHANGED <<sources, created, audit>>
    PROVE  ViewInv'
<1>0. PICK scope \in {"all", "members"} :
          \E ms \in AuditAnswers(scope) : shown' = [scope |-> scope, entries |-> ms, of |-> 1..Len(audit)]
  BY DEF ReadAudit
<1>1. PICK ms \in AuditAnswers(scope) : shown' = [scope |-> scope, entries |-> ms, of |-> 1..Len(audit)]
  BY <1>0
<1> DEFINE all == {n \in 1..Len(audit) : scope = "all" \/ InMemberScope(audit[n])}
<1>2. /\ ms \subseteq all
      /\ Cardinality(ms) = IF Cardinality(all) < AuditLimit THEN Cardinality(all) ELSE AuditLimit
  BY DEF AuditAnswers
<1>3. IsFiniteSet(all)
  <2>1. Len(audit) \in Nat
    BY DEF LogTyped
  <2>2. IsFiniteSet(1..Len(audit)) /\ all \subseteq 1..Len(audit)
    BY <2>1, FS_Interval
  <2> HIDE DEF all
  <2> QED BY <2>2, FS_Subset
<1>4. Cardinality(ms) < AuditLimit => ms = all
  <2> HIDE DEF all
  <2>1. SUFFICES ASSUME Cardinality(ms) < AuditLimit PROVE ms = all
    OBVIOUS
  <2>2. Cardinality(all) \in Nat /\ AuditLimit \in Nat
    BY <1>3, FS_CardinalityType, ViewsAssumption
  <2>3. Cardinality(ms) = Cardinality(all)
    BY <1>2, <2>1, <2>2
  <2> QED BY <1>2, <1>3, <2>3, FS_Subset
<1>5. {n \in shown'.of : shown'.scope = "all" \/ InMemberScope(audit[n])} = all
  BY <1>1
<1>6. ShownWell(audit, shown')
  <2> HIDE DEF all
  <2> QED BY <1>1, <1>2, <1>4, <1>5 DEF ShownWell
<1>7. view' = view
  BY DEF ReadAudit
<1> QED BY <1>6, <1>7 DEF ViewInv

\* A log that grows keeps what was shown.
LEMMA ShownStays ==
    ASSUME NEW log, NEW more, NEW s, ShownWell(log, s),
           more = log \/ \E e : Grown(log, more, e)
    PROVE  ShownWell(more, s)
<1>1. CASE more = log
  BY <1>1
<1>2. CASE \E e : Grown(log, more, e)
  <2>1. /\ Len(log) \in Nat /\ Len(more) = Len(log) + 1
        /\ \A n \in 1..Len(log) : more[n] = log[n]
    BY <1>2 DEF Grown
  <2>2. \A n \in s.of : n \in 1..Len(log) /\ more[n] = log[n]
    BY <2>1 DEF ShownWell
  <2>3. {n \in s.of : s.scope = "all" \/ InMemberScope(more[n])}
          = {n \in s.of : s.scope = "all" \/ InMemberScope(log[n])}
    BY <2>2
  <2>4. s.of \subseteq 1..Len(more)
    BY <2>1, <2>2
  <2> QED BY <2>3, <2>4 DEF ShownWell
<1> QED BY <1>1, <1>2

\* The log grows by what a request writes.
LEMMA AuditGrows ==
    ASSUME LogTyped, NEW q, NEW previous, Audited(q, previous)
    PROVE  \E e : Grown(audit, audit', e)
<1> SUFFICES ASSUME NEW e, e = Entry(q, previous), NEW log, log = audit, log \in Seq(EntrySet)
             PROVE  Grown(log, Append(log, e), e)
  BY DEF LogTyped, Audited
<1> QED BY DEF Grown

\* A log that grows keeps what was shown, and a list that changes is noted.
LEMMA DisturbedStep ==
    ASSUME ViewInv, Disturbed, shown' = shown,
           audit' = audit \/ \E e : Grown(audit, audit', e)
    PROVE  ViewInv'
<1>1. ShownWell(audit, shown) /\ ViewShaped(view)
  BY DEF ViewInv
<1>2. ShownWell(audit', shown)
  BY <1>1, ShownStays
<1> DEFINE before == ListingOf(view.lists, sources, created["collection_run"])
           after  == ListingOf(view.lists, sources', created'["collection_run"])
           calm   == view.undisturbed /\ (view.lists = "none" \/ after = before)
<1>3. view' = [view EXCEPT !.undisturbed = calm]
  <2>1. PICK lists \in {view.lists} :
            view' = [view EXCEPT !.undisturbed = @ /\ (lists = "none" \/ Listing(lists)' = Listing(lists))]
    BY DEF Disturbed
  <2>2. Listing(lists) = ListingOf(lists, sources, created["collection_run"])
    BY DEF Listing, ListingOf, Registered, RegisteredOf
  <2>3. Listing(lists)' = ListingOf(lists, sources', created'["collection_run"])
    BY DEF Listing, ListingOf, Registered, RegisteredOf
  <2> QED BY <1>1, <2>1, <2>2, <2>3 DEF ViewShaped
<1>4. calm \in BOOLEAN
  OBVIOUS
<1>5. calm => view.undisturbed /\ (view.lists = "none" \/ after = before)
  OBVIOUS
<1>6. view.at # "closed" => Leafing(view, before)
  BY DEF ViewInv
<1> HIDE DEF before, after, calm
<1>7. /\ view' = [at |-> view.at, lists |-> view.lists, page |-> view.page, total |-> view.total,
                  rows |-> view.rows, undisturbed |-> calm]
      /\ ViewShaped(view')
  BY <1>1, <1>3 DEF ViewShaped
<1>8. view'.at # "closed" => Leafing(view', after)
  <2> SUFFICES ASSUME view'.at # "closed" PROVE Leafing(view', after)
    OBVIOUS
  <2>1. Leafing(view, before)
    BY <1>6, <1>7
  <2>2. view.lists # "none"
    BY <2>1 DEF Leafing, Lists
  <2> QED BY <1>4, <1>5, <1>7, <2>1, <2>2 DEF Leafing
<1>9. /\ view'.at \in {"closed", "count", "rows", "page"}
      /\ view'.at = "closed" => view' = [Closed EXCEPT !.undisturbed = view'.undisturbed]
  BY <1>7 DEF ViewInv, Closed
<1>10. view'.lists = view.lists
  BY <1>7
<1> QED BY <1>2, <1>7, <1>8, <1>9, <1>10 DEF ViewInv, after
\* Nothing that is read starts out.
LEMMA ViewStarts ==
    ASSUME ConsoleInit
    PROVE  ViewInv
<1>1. view = Closed /\ shown = Nothing /\ audit = << >>
  BY DEF ConsoleInit, ViewsInit, DeskInit
<1>2. ViewShaped(Closed) /\ Closed.at = "closed" /\ Closed = [Closed EXCEPT !.undisturbed = Closed.undisturbed]
  BY DEF ViewShaped, Closed
<1>3. ShownWell(audit, Nothing)
  BY DEF ShownWell, Nothing
<1> QED BY <1>1, <1>2, <1>3 DEF ViewInv

\* The view and the lists stand, and the log at most grows.
LEMMA ViewStands ==
    ASSUME ViewInv, UNCHANGED <<viewVars, sources, created>>,
           audit' = audit \/ \E e : Grown(audit, audit', e)
    PROVE  ViewInv'
<1>1. view' = view /\ shown' = shown /\ sources' = sources /\ created' = created
  BY DEF viewVars
<1>2. ShownWell(audit', shown)
  BY ShownStays DEF ViewInv
<1> QED BY <1>1, <1>2 DEF ViewInv

\* A request writes nothing to the log, or one entry.
LEMMA DeskWrites ==
    ASSUME LogTyped, DeskNext
    PROVE  audit' = audit \/ \E e : Grown(audit, audit', e)
<1>1. audit' = audit \/ \E q \in Calls : \E previous \in {"none", call[q].seen} : Audited(q, previous)
  BY DEF DeskNext, Authorize, Serve, Reject, GrantRole, RevokeRole, ReadProfile, ProfileUnchanged,
         WriteProfile, UpsertSource, Create, Expire
<1> QED BY <1>1, AuditGrows

\* An edit of the prices writes nothing to the log, or one entry.
LEMMA EditWrites ==
    ASSUME LogTyped, NEW q \in Calls, EditPrices(q)
    PROVE  /\ UNCHANGED <<sources, created>>
           /\ audit' = audit \/ \E e : Grown(audit, audit', e)
<1>1. /\ UNCHANGED <<sources, created>>
      /\ audit' = audit \/ \E previous \in {"none", call[q].seen} : Audited(q, previous)
  BY DEF EditPrices, NumberPrice, InsertPrice, SetPriceActive, UpsertRegion, UpsertPlan, SeeLimits, RetireLimits,
         InsertLimit, AuditedAnswer, deskVars
<1> QED BY <1>1, AuditGrows

\* Every step of the console keeps what is read.
LEMMA ViewStep ==
    ASSUME ConsoleInv, ViewInv, [ConsoleNext]_consoleVars
    PROVE  ViewInv'
<1>0. LogTyped /\ DeskTypeOK
  BY DEF ConsoleInv, DeskInv
<1>1. CASE Manage
  BY <1>0, <1>1, DeskWrites, DisturbedStep DEF Manage
<1>2. CASE Look
  <2>1. UNCHANGED <<sources, created, audit>>
    BY <1>2 DEF Look, deskVars
  <2> QED BY <1>0, <1>2, <2>1, LeafStep, AuditShown DEF Look, ReadNext
<1>3. CASE Reprice
  <2>1. PICK q \in Calls : (Authorize(q, PriceOps) /\ UNCHANGED priceVars) \/ EditPrices(q)
    BY <1>3 DEF Reprice
  <2>2. UNCHANGED viewVars
    BY <1>3 DEF Reprice
  <2>3. CASE Authorize(q, PriceOps)
    <3>1. UNCHANGED <<sources, created, audit>>
      BY <2>3 DEF Authorize, deskVars
    <3> QED BY <2>2, <3>1, ViewStands
  <2>4. CASE EditPrices(q)
    BY <1>0, <2>2, <2>4, EditWrites, ViewStands
  <2> QED BY <2>1, <2>3, <2>4
<1>4. CASE Sell \/ UNCHANGED consoleVars
  <2>1. UNCHANGED <<viewVars, sources, created, audit>>
    BY <1>4 DEF Sell, consoleVars, deskVars
  <2> QED BY <2>1, ViewStands
<1> QED BY <1>1, <1>2, <1>3, <1>4 DEF ConsoleNext

\* The invariant says that what is read is complete.
LEMMA ViewInvCompletes ==
    ASSUME DeskTypeOK, ViewInv
    PROVE  ViewsAreComplete
<1>1. PagingIsExhaustive
  <2> SUFFICES ASSUME view.at = "page", view.undisturbed, view.page * PageSize >= view.total
               PROVE  view.rows = Listing(view.lists)
    BY DEF PagingIsExhaustive
  <2> DEFINE listing == ListingOf(view.lists, sources, created["collection_run"])
  <2>1. Leafing(view, listing)
    BY DEF ViewInv
  <2>2. created["collection_run"] \in Nat
    BY DEF DeskTypeOK, Things
  <2>3. PICK T : listing \in Seq(T)
    BY <2>1, <2>2, ListingIsSeq DEF Leafing
  <2>4. Listing(view.lists) = listing
    BY DEF Listing, ListingOf, Registered, RegisteredOf
  <2> HIDE DEF listing
  <2>5. view.page \in Nat \ {0} /\ Len(listing) \in Nat /\ PageSize \in Nat \ {0}
    BY <2>1, <2>3, ViewsAssumption DEF Leafing
  <2>6. view.total = Len(listing) /\ view.rows = SubSeq(listing, 1, Upto(Len(listing), view.page))
    BY <2>1 DEF Leafing
  <2>7. Upto(Len(listing), view.page) = Len(listing)
    BY <2>5, <2>6 DEF Upto
  <2>8. SubSeq(listing, 1, Len(listing)) = listing
    BY <2>3, AllPages
  <2> QED BY <2>4, <2>6, <2>7, <2>8
<1>2. AuditAnswersAreFull
  BY DEF ViewInv, ShownWell, AuditAnswersAreFull
<1> QED BY <1>1, <1>2 DEF ViewsAreComplete

\* Lists that are read page by page, while requests change them, are complete
\* unless they were changed, and an audit answer is short only when it shows
\* everything: what is read is complete.
THEOREM ViewsAreSafe ==
    ConsoleSpec => []ViewsAreComplete
<1>1. ConsoleInit => ViewInv
  BY ViewStarts
<1>2. ConsoleInv /\ ViewInv /\ [ConsoleNext]_consoleVars => ViewInv'
  BY ViewStep
<1>3. ConsoleInv /\ ViewInv => ViewsAreComplete
  BY ViewInvCompletes DEF ConsoleInv, DeskInv
<1> QED BY <1>1, <1>2, <1>3, ConsoleInvariant, PTL DEF ConsoleSpec

(***************************************************************************)
(* The metered reads (Statements): exports, statistics and the importer.   *)
(***************************************************************************)
\* The importer's rows are records of its source; what lies before the next
\* chunk is in the table, and so is what a file held whose import has ended.
RowShaped(row) ==
    /\ row = [key |-> row.key, prefecture |-> row.prefecture, city |-> row.city, ward |-> row.ward,
              asset |-> row.asset, unit |-> row.unit, quarter |-> row.quarter, source |-> row.source,
              retrieved |-> row.retrieved, confirmed |-> row.confirmed]
    /\ row.source = Source

Tabled(rows, key) == \E row \in rows : row.key = key

TableHolds(rows) ==
    /\ \A row \in rows : RowShaped(row)
    /\ \A p, q \in rows : p.key = q.key => p = q

Loading(l) ==
    /\ l = [at |-> "chunk", file |-> l.file, rows |-> l.rows, start |-> l.start]
    /\ l.file \in Files /\ l.start \in Nat \ {0}
    /\ l.rows \in Seq(Range(l.rows))
    /\ \A i \in DOMAIN l.rows : RowShaped(l.rows[i])
    /\ \A n \in DOMAIN l.file : Usable(l.file[n]) => \E i \in DOMAIN l.rows : l.rows[i].key = l.file[n]

ImportInv ==
    /\ TableHolds(table)
    /\ load # AtRest => /\ Loading(load)
                      /\ \A i \in DOMAIN load.rows : i < load.start => Tabled(table, load.rows[i].key)
    /\ \A f \in imported : \A n \in DOMAIN f : Usable(f[n]) => Tabled(table, f[n])

\* Keys of exports: a user's are numbered, an organisation's name the minute.
OrgKey(o, u, minute) == <<"org-export", o, u, MonthOf(minute), minute>>

PersonalOf(xs) == {x \in xs : x.org = NoOrg}

KeyFits(x, n) ==
    \/ x.org = NoOrg /\ \E k \in 1..n : x.key = <<"export", k>>
    \/ x.org \in Orgs /\ \E minute \in 1..LastWindow : x.key = OrgKey(x.org, x.owner, minute)

ExportsHold(xs) ==
    /\ IsFiniteSet(xs)
    /\ \A x \in xs : x.rows \in Nat /\ KeyFits(x, Cardinality(PersonalOf(xs)))
    /\ \A x, y \in xs : x.key = y.key => x = y

\* Charges: one for each export, and no other for rows.
ChargeShaped(e) ==
    e.scope \in Scopes /\ e.metric \in Metrics /\ e.units \in Nat /\ e.month \in Months

ForRows(es) == {e \in es : e.metric = "export_row"}

ChargesHold(es, xs) ==
    /\ \A d, e \in ForRows(es) : d.key = e.key => d = e
    /\ \A e \in ForRows(es) : \E x \in xs : x.key = e.key /\ x.rows = e.units
    /\ \A x \in xs : \E e \in ForRows(es) : e.key = x.key

\* Counters are sums of charges.
Counted(es, s, m, month) == {e \in es : e.scope = s /\ e.metric = m /\ e.month = month}

MeterHolds(es, c) ==
    /\ IsFiniteSet(es) /\ \A e \in es : ChargeShaped(e)
    /\ \A d, e \in es : d.scope = e.scope /\ d.metric = e.metric /\ d.key = e.key => d = e
    /\ c \in [Scopes \X Metrics \X Months -> Nat]
    /\ \A s \in Scopes, m \in Metrics, month \in Months :
          c[<<s, m, month>>] = Cardinality(Units(Counted(es, s, m, month)))

\* What a request has in hand: rows to charge, a key made of its minute, and the
\* lock of that key, under which nothing is exported.
InHand(q) ==
    /\ q.at \in {"idle", "export", "org asked", "org locked", "analysis", "region-stats",
                 "region-trend", "charged", "read"}
    /\ q.at # "idle" => q.user \in Users
    /\ q.at \in {"export", "org locked"} => q.rows \in Nat
    /\ q.at \in {"org asked", "org locked"} =>
          /\ Membership(q.user).org \in Orgs
          /\ \E minute \in 1..LastWindow : q.key = OrgKey(Membership(q.user).org, q.user, minute)

KeysLocked ==
    /\ \A r \in Requests : req[r].at = "org locked" => Existing(req[r].key) = {}
    /\ \A q, r \in Requests :
          req[q].at = "org locked" /\ req[r].at = "org locked" /\ req[q].key = req[r].key => q = r

\* What has been shown, or charged and is about to be, was paid for.
PaidFor(es, s, ask) ==
    \E e \in es : e.metric = "stats_query" /\ e.scope = s /\ e.key[2] = ask

AnswersPaid ==
    /\ \A a \in answers : PaidFor(events, a.scope, a.ask)
    /\ \A r \in Requests : req[r].at \in {"charged", "read"} => PaidFor(events, req[r].scope, req[r].ask)

ReadsTyped ==
    /\ window \in 1..LastWindow
    /\ subscription \in [Orgs -> {"none", "data", "other"}]
    /\ req = [r \in Requests |-> req[r]] /\ \A r \in Requests : InHand(req[r])

ReadsInv ==
    /\ ReadsTyped /\ ExportsHold(exports) /\ ChargesHold(events, exports)
    /\ MeterHolds(events, consumed) /\ KeysLocked /\ AnswersPaid

StatementsInv == ImportInv /\ ReadsInv

-----------------------------------------------------------------------------
\* The least of some natural numbers is one of them.
LEMMA LeastOf ==
    ASSUME NEW S \in SUBSET Nat, S # {}
    PROVE  Min(S) \in S /\ \A n \in S : Min(S) <= n
<1> DEFINE less == {ss \in Nat \X Nat : ss[1] < ss[2]}
<1>1. IsWellFoundedOn(less, Nat)
  BY NatLessThanWellFounded, Zenon DEF OpToRel
<1>2. PICK x \in S : \A y \in S : ~(<<y, x>> \in less)
  <2> HIDE DEF less
  <2> QED BY <1>1, WFMin
<1>3. ASSUME NEW y \in S PROVE x <= y
  <2>1. \A p \in Nat \X Nat : p[1] < p[2] => p \in less
    OBVIOUS
  <2> DEFINE p == <<y, x>>
  <2>2. p \in Nat \X Nat /\ p[1] = y /\ p[2] = x
    OBVIOUS
  <2>3. p \notin less
    BY <1>2
  <2> HIDE DEF less, p
  <2>4. ~(p[1] < p[2])
    BY <2>1, <2>2, <2>3
  <2> QED BY <2>2, <2>4
<1>4. \E n \in S : \A m \in S : n <= m
  BY <1>3
<1> QED BY <1>4 DEF Min

\* A record becomes a row of its own key.
LEMMA RowsFit ==
    ASSUME NEW raw, NEW at
    PROVE  /\ RowShaped(Row(raw, Source, at)) /\ Row(raw, Source, at).key = raw
           /\ RowShaped(CsvRow(raw, Source, at)) /\ CsvRow(raw, Source, at).key = raw
<1>1. RowShaped(Row(raw, Source, at)) /\ Row(raw, Source, at).key = raw
  BY DEF Row, RowShaped
<1>2. ASSUME NEW row, RowShaped(row), NEW unit
      PROVE  RowShaped([row EXCEPT !.unit = unit]) /\ [row EXCEPT !.unit = unit].key = row.key
  BY <1>2 DEF RowShaped
<1>3. RowShaped(CsvRow(raw, Source, at)) /\ CsvRow(raw, Source, at).key = raw
  BY <1>1, <1>2 DEF CsvRow
<1> QED BY <1>1, <1>3

\* A row that meets another of its key keeps its own.
LEMMA MergedFits ==
    ASSUME NEW old, NEW new, RowShaped(new)
    PROVE  RowShaped(Merged(old, new)) /\ Merged(old, new).key = new.key
<1> DEFINE mid == [new EXCEPT !.unit = old.unit]
<1>1. RowShaped(mid) /\ mid.key = new.key
  BY DEF RowShaped
<1>2. Merged(old, new) = [mid EXCEPT !.quarter = old.quarter]
  BY DEF Merged
<1> HIDE DEF mid
<1>3. RowShaped([mid EXCEPT !.quarter = old.quarter]) /\ [mid EXCEPT !.quarter = old.quarter].key = mid.key
  BY <1>1 DEF RowShaped
<1> QED BY <1>1, <1>2, <1>3

\* A position is told by how many there are up to it.
PlaceIn(N, n) == Cardinality({m \in N : m <= n})

LEMMA PositionIsTold ==
    ASSUME NEW k \in Nat, NEW N \in SUBSET (1..k), NEW n \in N, NEW o \in N,
           PlaceIn(N, n) = PlaceIn(N, o)
    PROVE  n = o
<1> USE DEF PlaceIn
<1> DEFINE A == {m \in N : m <= n}
           B == {m \in N : m <= o}
<1>1. IsFiniteSet(N)
  <2>1. IsFiniteSet(1..k)
    BY FS_Interval
  <2> QED BY <2>1, FS_Subset
<1>2. IsFiniteSet(A) /\ IsFiniteSet(B)
  <2>1. A \in SUBSET N /\ B \in SUBSET N
    OBVIOUS
  <2> HIDE DEF A, B
  <2> QED BY <1>1, <2>1, FS_Subset
<1>3. n \in A /\ o \in B
  OBVIOUS
<1>4. (A \subseteq B \/ B \subseteq A) /\ (n \in B => n <= o) /\ (o \in A => o <= n)
  <2>1. N \subseteq Nat /\ n \in Nat /\ o \in Nat
    OBVIOUS
  <2>2. ASSUME n <= o PROVE A \subseteq B
    <3>1. \A m \in N : m <= n => m <= o
      BY <2>1, <2>2
    <3> QED BY <3>1
  <2>3. ASSUME o <= n PROVE B \subseteq A
    <3>1. \A m \in N : m <= o => m <= n
      BY <2>1, <2>3
    <3> QED BY <3>1
  <2>4. (n \in B => n <= o) /\ (o \in A => o <= n)
    OBVIOUS
  <2> QED BY <2>1, <2>2, <2>3, <2>4
<1>5. Cardinality(A) = Cardinality(B)
  OBVIOUS
<1> HIDE DEF A, B
<1>6. A = B
  <2>1. CASE A \subseteq B
    BY <1>2, <1>5, <2>1, FS_Subset
  <2>2. CASE B \subseteq A
    BY <1>2, <1>5, <2>2, FS_Subset
  <2> QED BY <1>4, <2>1, <2>2
<1> QED
  <2>1. n \in Nat /\ o \in Nat
    OBVIOUS
  <2> QED BY <1>3, <1>4, <1>6, <2>1

\* The usable records of a file are all there.
LEMMA RecordsComplete ==
    ASSUME NEW f \in Files
    PROVE  /\ \E k \in Nat : DOMAIN Records[f] = 1..k
           /\ \A n \in DOMAIN f : Usable(f[n]) => \E i \in DOMAIN Records[f] : Records[f][i] = f[n]
<1> DEFINE usable == {n \in DOMAIN f : Usable(f[n])}
           upto(n) == PlaceIn(usable, n)
<1>1. Len(f) \in Nat /\ DOMAIN f = 1..Len(f)
  BY StatementsAssumption
<1>2. IsFiniteSet(usable) /\ Cardinality(usable) \in Nat
  <2>1. IsFiniteSet(1..Len(f))
    BY <1>1, FS_Interval
  <2>2. usable \in SUBSET (1..Len(f))
    BY <1>1
  <2> HIDE DEF usable
  <2> QED BY <2>1, <2>2, FS_Subset, FS_CardinalityType
<1>3. Records[f] = [i \in 1..Cardinality(usable) |-> f[CHOOSE n \in usable : upto(n) = i]]
  BY DEF Records, UsableRecords, PlaceIn
<1>4. ASSUME NEW n \in DOMAIN f, Usable(f[n])
      PROVE  \E i \in DOMAIN Records[f] : Records[f][i] = f[n]
  <2>1. n \in usable
    BY <1>4
  <2>2. upto(n) \in 1..Cardinality(usable)
    <3> DEFINE A == {m \in usable : m <= n}
    <3>1. A \in SUBSET usable /\ n \in A
      BY <1>1, <2>1
    <3> HIDE DEF A, usable
    <3>2. IsFiniteSet(A) /\ Cardinality(A) <= Cardinality(usable)
      BY <1>2, <3>1, FS_Subset
    <3>3. Cardinality(A) \in Nat /\ Cardinality(A) # 0
      BY <3>1, <3>2, FS_EmptySet, FS_CardinalityType
    <3> QED BY <1>2, <3>2, <3>3 DEF A, PlaceIn
  <2>3. \A o \in usable : upto(o) = upto(n) => o = n
    <3>1. usable \in SUBSET (1..Len(f))
      BY <1>1
    <3> HIDE DEF usable
    <3>2. Len(f) \in Nat
      BY <1>1
    <3> QED BY <2>1, <3>1, <3>2, PositionIsTold
  <2> DEFINE i == upto(n)
             o == CHOOSE o \in usable : upto(o) = i
  <2>4. Records[f][i] = f[o]
    BY <1>3, <2>2
  <2>5. \E q \in usable : upto(q) = i
    BY <2>1
  <2>6. i \in DOMAIN Records[f]
    BY <1>3, <2>2
  <2>7. \A q \in usable : upto(q) = i => q = n
    BY <2>3
  <2> HIDE DEF usable, i, upto
  <2>8. o = n
    BY <2>5, <2>7
  <2> QED BY <2>4, <2>6, <2>8
<1> HIDE DEF usable
<1>5. DOMAIN Records[f] = 1..Cardinality(usable)
  BY <1>3
<1> QED BY <1>2, <1>4, <1>5

\* A chunk without its duplicates has each of its keys once.
LEMMA DeduplicateFits ==
    ASSUME NEW chunk, NEW k \in Nat, DOMAIN chunk = 1..k, \A n \in 1..k : RowShaped(chunk[n])
    PROVE  /\ TableHolds(Deduplicate(chunk))
           /\ \A n \in 1..k : Tabled(Deduplicate(chunk), chunk[n].key)
<1> DEFINE Firsts == {n \in DOMAIN chunk : \A i \in 1..(n - 1) : chunk[i].key # chunk[n].key}
<1>1. Deduplicate(chunk) = {chunk[n] : n \in Firsts}
  BY DEF Deduplicate
<1>2. ASSUME NEW n \in 1..k PROVE \E o \in Firsts : chunk[o].key = chunk[n].key
  <2> DEFINE S == {i \in 1..k : chunk[i].key = chunk[n].key}
  <2>1. S \in SUBSET Nat /\ n \in S
    OBVIOUS
  <2>2. PICK o \in S : \A i \in S : o <= i
    <3> HIDE DEF S
    <3> QED BY <2>1, LeastOf
  <2>3. o \in 1..k /\ chunk[o].key = chunk[n].key
    OBVIOUS
  <2>4. ASSUME NEW i \in 1..(o - 1) PROVE chunk[i].key # chunk[o].key
    <3>1. i \in 1..k /\ ~(o <= i)
      BY <2>3
    <3> QED BY <2>2, <2>3, <3>1
  <2> QED BY <2>3, <2>4
<1>3. \A n, o \in Firsts : chunk[n].key = chunk[o].key => n = o
  <2> SUFFICES ASSUME NEW n \in Firsts, NEW o \in Firsts, chunk[n].key = chunk[o].key, n < o
               PROVE  FALSE
    OBVIOUS
  <2>1. n \in 1..(o - 1)
    OBVIOUS
  <2> QED BY <2>1
<1>4. Firsts \subseteq 1..k
  OBVIOUS
<1> HIDE DEF Firsts
<1>5. TableHolds(Deduplicate(chunk))
  BY <1>1, <1>3, <1>4 DEF TableHolds
<1> QED BY <1>1, <1>2, <1>5 DEF Tabled

\* An upsert keeps one row of each key, and forgets none.
LEMMA UpsertFits ==
    ASSUME NEW t, NEW rs, TableHolds(t), TableHolds(rs)
    PROVE  /\ TableHolds(Upsert(t, rs))
           /\ \A key : Tabled(t, key) \/ Tabled(rs, key) => Tabled(Upsert(t, rs), key)
<1> DEFINE Kept   == {p \in t : \A q \in rs : p.key # q.key}
           Added  == {q \in rs : \A p \in t : p.key # q.key}
           Pairs  == {pq \in t \X rs : pq[1].key = pq[2].key}
           Joined == {Merged(pq[1], pq[2]) : pq \in Pairs}
<1>1. Upsert(t, rs) = (Kept \union Added) \union Joined
  <2>1. \A p \in t, q \in rs : SameRecord(p, q) <=> p.key = q.key
    BY DEF SameRecord, TableHolds, RowShaped
  <2>2. Kept = {p \in t : \A q \in rs : ~SameRecord(p, q)}
    BY <2>1
  <2>3. Added = {q \in rs : \A p \in t : ~SameRecord(p, q)}
    BY <2>1
  <2>4. Pairs = {pq \in t \X rs : SameRecord(pq[1], pq[2])}
    BY <2>1
  <2> QED BY <2>2, <2>3, <2>4 DEF Upsert
<1>2. \A row \in Joined : \E p \in t, q \in rs :
         /\ p.key = q.key /\ row = Merged(p, q) /\ RowShaped(row) /\ row.key = q.key
  <2> SUFFICES ASSUME NEW pq \in Pairs
               PROVE  \E p \in t, q \in rs : /\ p.key = q.key /\ Merged(pq[1], pq[2]) = Merged(p, q)
                                              /\ RowShaped(Merged(p, q)) /\ Merged(p, q).key = q.key
    OBVIOUS
  <2>1. pq[1] \in t /\ pq[2] \in rs /\ pq[1].key = pq[2].key
    OBVIOUS
  <2> QED BY <2>1, MergedFits DEF TableHolds
<1>3. \A p \in t, q \in rs : p.key = q.key => Merged(p, q) \in Joined /\ Merged(p, q).key = q.key
  <2> SUFFICES ASSUME NEW p \in t, NEW q \in rs, p.key = q.key
               PROVE  Merged(p, q) \in Joined /\ Merged(p, q).key = q.key
    OBVIOUS
  <2> DEFINE pq == <<p, q>>
  <2>1. pq \in Pairs /\ pq[1] = p /\ pq[2] = q
    OBVIOUS
  <2>2. Merged(pq[1], pq[2]) \in Joined
    BY <2>1
  <2> QED BY <2>1, <2>2, MergedFits DEF TableHolds
<1>4. /\ \A p \in Kept : p \in t /\ \A q \in rs : p.key # q.key
      /\ \A q \in Added : q \in rs /\ \A p \in t : p.key # q.key
      /\ \A p \in t : (\A q \in rs : p.key # q.key) => p \in Kept
      /\ \A q \in rs : (\A p \in t : p.key # q.key) => q \in Added
  OBVIOUS
<1> HIDE DEF Kept, Added, Joined
<1>5. \A row \in (Kept \union Added) \union Joined : RowShaped(row)
  BY <1>2, <1>4 DEF TableHolds
<1>6. \A x, y \in (Kept \union Added) \union Joined : x.key = y.key => x = y
  <2> SUFFICES ASSUME NEW x \in (Kept \union Added) \union Joined,
                      NEW y \in (Kept \union Added) \union Joined, x.key = y.key
               PROVE  x = y
    OBVIOUS
  <2>1. CASE x \in Joined /\ y \in Joined
    BY <1>2, <2>1 DEF TableHolds
  <2>2. CASE x \notin Joined /\ y \notin Joined
    BY <1>4, <2>2 DEF TableHolds
  <2>3. CASE (x \in Joined) # (y \in Joined)
    BY <1>2, <1>4, <2>3
  <2> QED BY <2>1, <2>2, <2>3
<1>7. ASSUME NEW key, Tabled(t, key) \/ Tabled(rs, key)
      PROVE  \E row \in (Kept \union Added) \union Joined : row.key = key
  BY <1>3, <1>4, <1>7 DEF Tabled
<1> QED BY <1>1, <1>5, <1>6, <1>7 DEF TableHolds, Tabled

\* An import begins with every usable record of its file.
LEMMA StartImportKeeps ==
    ASSUME ImportInv, NEW file \in Files, StartImport(file)
    PROVE  ImportInv'
<1> DEFINE rows == Normalize(Records[file], Source, runs + 1)
<1>1. /\ load' = [at |-> "chunk", file |-> file, rows |-> rows, start |-> 1]
      /\ UNCHANGED <<table, imported>>
  BY DEF StartImport
<1>2. PICK k \in Nat : DOMAIN Records[file] = 1..k
  BY RecordsComplete
<1>3. /\ DOMAIN rows = 1..k
      /\ \A i \in 1..k : RowShaped(rows[i]) /\ rows[i].key = Records[file][i]
  BY <1>2, RowsFit DEF Normalize
<1>4. rows = [i \in 1..k |-> rows[i]]
  BY <1>2 DEF Normalize
<1> HIDE DEF rows
<1>5. rows \in Seq(Range(rows))
  <2>1. rows \in [1..k -> Range(rows)]
    BY <1>3, <1>4 DEF Range
  <2> QED BY <2>1, SeqDef
<1>6. \A n \in DOMAIN file : Usable(file[n]) => \E i \in DOMAIN rows : rows[i].key = file[n]
  BY <1>2, <1>3, RecordsComplete
<1>7. Loading(load')
  BY <1>1, <1>3, <1>5, <1>6 DEF Loading
<1>8. \A i \in DOMAIN load'.rows : ~(i < load'.start)
  BY <1>1, <1>3
<1> QED BY <1>1, <1>7, <1>8 DEF ImportInv

\* A chunk brings the table as far as the next one begins.
LEMMA ImportChunkKeeps == ImportInv /\ ImportChunk => ImportInv'
<1> SUFFICES ASSUME ImportInv, ImportChunk PROVE ImportInv'
  OBVIOUS
<1> DEFINE rows  == load.rows
           start == load.start
           size  == Len(rows)
           last  == Min({start + ChunkSize - 1, size})
           chunk == SubSeq(rows, start, last)
           added == Deduplicate(chunk)
<1>1. /\ load.at = "chunk" /\ start <= size
      /\ table' = Upsert(table, added)
      /\ load' = [load EXCEPT !.start = start + Len(chunk)]
      /\ UNCHANGED imported
  BY DEF ImportChunk, ChunkEnd
<1>2. /\ Loading(load) /\ TableHolds(table)
      /\ \A i \in DOMAIN rows : i < start => Tabled(table, rows[i].key)
  BY <1>1 DEF ImportInv, AtRest
<1>3. start \in Nat \ {0} /\ size \in Nat /\ DOMAIN rows = 1..size /\ ChunkSize \in Nat \ {0}
  BY <1>2, StatementsAssumption DEF Loading
<1>4. last \in Nat /\ start <= last /\ last <= size
  <2> DEFINE full == start + ChunkSize - 1
             two  == {full, size}
  <2>1. full \in Nat /\ start <= full
    BY <1>3
  <2>2. two \in SUBSET Nat /\ two # {}
    BY <1>3, <2>1
  <2> HIDE DEF two, full
  <2>3. Min(two) \in two /\ \A n \in two : Min(two) <= n
    BY <2>2, LeastOf
  <2> QED BY <1>1, <1>3, <2>1, <2>3 DEF two, full
<1> HIDE DEF last, size
<1>5. /\ Len(chunk) = last - start + 1 /\ DOMAIN chunk = 1..(last - start + 1)
      /\ \A i \in 1..(last - start + 1) : chunk[i] = rows[start + i - 1]
  <2>1. \A i \in start..last : rows[i] \in Range(rows)
    BY <1>3, <1>4 DEF Range
  <2>2. start \in Int /\ last \in Int
    BY <1>3, <1>4
  <2> HIDE DEF rows, start
  <2>3. /\ SubSeq(rows, start, last) \in Seq(Range(rows))
        /\ Len(SubSeq(rows, start, last)) = IF start <= last THEN last - start + 1 ELSE 0
        /\ \A i \in 1..(last - start + 1) : SubSeq(rows, start, last)[i] = rows[start + i - 1]
    BY <2>1, <2>2, SubSeqProperties
  <2> HIDE DEF chunk
  <2> QED BY <1>3, <1>4, <2>3 DEF chunk
<1>6. last - start + 1 \in Nat
  BY <1>3, <1>4
<1> HIDE DEF chunk
<1>7. \A i \in 1..(last - start + 1) : RowShaped(chunk[i])
  BY <1>2, <1>3, <1>4, <1>5 DEF Loading
<1>8. TableHolds(added) /\ \A i \in 1..(last - start + 1) : Tabled(added, chunk[i].key)
  BY <1>5, <1>6, <1>7, DeduplicateFits
<1> HIDE DEF added
<1>9. TableHolds(table') /\ \A key : Tabled(table, key) \/ Tabled(added, key) => Tabled(table', key)
  BY <1>1, <1>2, <1>8, UpsertFits
<1>10. /\ load'.rows = rows /\ load'.start = last + 1 /\ Loading(load')
  <2> HIDE DEF rows, start
  <2>1. load = [at |-> "chunk", file |-> load.file, rows |-> load.rows, start |-> load.start]
    BY <1>2 DEF Loading
  <2>2. load'.rows = load.rows /\ load'.start = last + 1 /\ load'.file = load.file
        /\ load' = [at |-> "chunk", file |-> load'.file, rows |-> load'.rows, start |-> load'.start]
    BY <1>1, <1>3, <1>4, <1>5, <2>1
  <2> QED BY <1>2, <1>4, <2>2 DEF Loading, rows
<1>11. ASSUME NEW i \in DOMAIN rows, i < last + 1
       PROVE  Tabled(table', rows[i].key)
  <2>1. CASE i < start
    BY <1>2, <1>9, <2>1
  <2>2. CASE start <= i
    <3>1. i - start + 1 \in 1..(last - start + 1) /\ start + (i - start + 1) - 1 = i
      BY <1>3, <1>4, <1>11, <2>2
    <3> QED BY <1>5, <1>8, <1>9, <3>1
  <2> QED BY <1>3, <2>1, <2>2
<1>12. \A f \in imported' : \A n \in DOMAIN f : Usable(f[n]) => Tabled(table', f[n])
  BY <1>1, <1>9 DEF ImportInv
<1> HIDE DEF rows, start
<1> QED BY <1>9, <1>10, <1>11, <1>12 DEF ImportInv

\* An import ends with every usable record in the table.
LEMMA EndImportKeeps == ImportInv /\ EndImport => ImportInv'
<1> SUFFICES ASSUME ImportInv, EndImport PROVE ImportInv'
  OBVIOUS
<1>1. /\ load.at = "chunk" /\ load.start > Len(load.rows)
      /\ imported' = imported \union {load.file} /\ load' = AtRest /\ UNCHANGED table
  BY DEF EndImport
<1>2. /\ Loading(load) /\ \A i \in DOMAIN load.rows : i < load.start => Tabled(table, load.rows[i].key)
  BY <1>1 DEF ImportInv, AtRest
<1>3. \A i \in DOMAIN load.rows : i < load.start
  BY <1>1, <1>2 DEF Loading
<1>4. \A n \in DOMAIN load.file : Usable(load.file[n]) => Tabled(table, load.file[n])
  BY <1>2, <1>3 DEF Loading
<1> QED BY <1>1, <1>4 DEF ImportInv

\* What the importer does keeps its part.
LEMMA ImportKeeps == ImportInv /\ Import => ImportInv'
<1>1. ASSUME ImportInv, ImporterDies PROVE ImportInv'
  BY <1>1 DEF ImporterDies, ImportInv
<1> QED BY <1>1, StartImportKeeps, ImportChunkKeeps, EndImportKeeps DEF Import

-----------------------------------------------------------------------------
\* A charge is made of finitely many units.
LEMMA ChargedUnitsFinite ==
    ASSUME NEW S, IsFiniteSet(S), \A e \in S : e.units \in Nat
    PROVE  IsFiniteSet(Units(S)) /\ Cardinality(Units(S)) \in Nat
<1> DEFINE Of(e) == {e} \X (1..e.units)
           T == {Of(e) : e \in S}
           f == [e \in S |-> Of(e)]
<1>1. f \in Surjection(S, T)
  BY DEF Surjection
<1>2. IsFiniteSet(T)
  <2> HIDE DEF f, T
  <2> QED BY <1>1, FS_Surjection
<1>3. \A e \in S : IsFiniteSet(Of(e))
  <2> SUFFICES ASSUME NEW e \in S PROVE IsFiniteSet({e} \X (1..e.units))
    OBVIOUS
  <2>1. IsFiniteSet({e})
    BY FS_Singleton
  <2>2. IsFiniteSet(1..e.units)
    BY FS_Interval
  <2> QED BY <2>1, <2>2, FS_Product
<1>4. IsFiniteSet(UNION T)
  <2>1. \A U \in T : IsFiniteSet(U)
    BY <1>3
  <2> HIDE DEF T
  <2> QED BY <1>2, <2>1, FS_UNION
<1>5. Units(S) = UNION T
  BY DEF Units
<1> QED BY <1>4, <1>5, FS_CardinalityType

\* One more charge adds its units.
LEMMA ChargedUnitsAdd ==
    ASSUME NEW S, IsFiniteSet(S), \A x \in S : x.units \in Nat,
           NEW e, e.units \in Nat, e \notin S
    PROVE  Cardinality(Units(S \union {e})) = Cardinality(Units(S)) + e.units
<1> DEFINE n   == e.units
           A   == {e}
           B   == 1..n
           One == A \X B
<1>1. IsFiniteSet(Units(S)) /\ Cardinality(Units(S)) \in Nat
  BY ChargedUnitsFinite
<1>2. Units(S \union {e}) = Units(S) \union One
  BY DEF Units
<1>3. Units(S) \intersect One = {}
  BY DEF Units
<1>4. n \in Nat /\ n \in Int /\ 1 \in Int
  OBVIOUS
<1>5. IsFiniteSet(A) /\ Cardinality(A) = 1
  BY FS_Singleton
<1> HIDE DEF n
<1>6. IsFiniteSet(B) /\ Cardinality(B) = n
  <2>1. IsFiniteSet(1..n) /\ Cardinality(1..n) = IF 1 > n THEN 0 ELSE n - 1 + 1
    BY <1>4, FS_Interval
  <2> QED BY <1>4, <2>1
<1> HIDE DEF A, B
<1>7. IsFiniteSet(A \X B) /\ Cardinality(A \X B) = Cardinality(A) * Cardinality(B)
  BY <1>5, <1>6, FS_Product
<1>8. IsFiniteSet(One) /\ Cardinality(One) = n
  BY <1>4, <1>5, <1>6, <1>7
<1> HIDE DEF One
<1>9. Cardinality(Units(S) \union One) =
        Cardinality(Units(S)) + Cardinality(One) - Cardinality(Units(S) \intersect One)
  BY <1>1, <1>8, FS_Union
<1>10. Cardinality(Units(S) \intersect One) = 0
  BY <1>3, FS_EmptySet
<1>11. Cardinality(Units(S) \union One) = Cardinality(Units(S)) + n
  BY <1>1, <1>4, <1>8, <1>9, <1>10
<1> QED BY <1>2, <1>11 DEF n

\* The month of a minute is one of the months.
LEMMA MonthIsOne == ReadsTyped => Month \in Months
BY DEF ReadsTyped, Month, Months

\* A user is charged on a scope, his own or an organisation's.
LEMMA ScopeIsOne ==
    ASSUME ReadsTyped, NEW u \in Users
    PROVE  ChargedScope(u) \in Scopes
<1> DEFINE S == Subscribed(u)
<1>1. Memberships[u] \in Seq(Range(Memberships[u]))
  BY StatementsAssumption
<1>2. DOMAIN Memberships[u] = 1..Len(Memberships[u]) /\ Len(Memberships[u]) \in Nat
  BY <1>1
<1>3. S \in SUBSET Nat /\ S \subseteq DOMAIN Memberships[u]
  BY <1>2 DEF Subscribed
<1> HIDE DEF S
<1>4. CASE S = {}
  BY <1>4 DEF ChargedScope, Scopes, S
<1>5. CASE S # {}
  <2>1. Min(S) \in DOMAIN Memberships[u]
    BY <1>3, <1>5, LeastOf
  <2>2. Memberships[u][Min(S)].org \in Orgs
    BY <2>1, StatementsAssumption
  <2> QED BY <1>5, <2>2 DEF ChargedScope, Scopes, S
<1> QED BY <1>4, <1>5

\* A new charge is one more of its kind, and its counter follows.
LEMMA ChargeFits ==
    ASSUME ReadsTyped, MeterHolds(events, consumed),
           NEW s \in Scopes, NEW m \in Metrics, NEW n \in Nat, NEW key,
           ~Prior(s, m, key), Charge(s, m, n, key)
    PROVE  /\ events' = events \union {[scope |-> s, metric |-> m, units |-> n, month |-> Month, key |-> key]}
           /\ MeterHolds(events', consumed')
<1> DEFINE e == [scope |-> s, metric |-> m, units |-> n, month |-> Month, key |-> key]
<1>1. Month \in Months
  BY MonthIsOne
<1>2. e.scope = s /\ e.metric = m /\ e.units = n /\ e.month = Month /\ e.key = key
  OBVIOUS
<1>3. e \notin events
  BY <1>2 DEF Prior
<1>4. events' = events \union {e} /\ consumed' = [consumed EXCEPT ![<<s, m, Month>>] = @ + n]
  BY DEF Charge
<1> HIDE DEF e
<1>5. IsFiniteSet(events') /\ \A x \in events' : ChargeShaped(x)
  BY <1>1, <1>2, <1>4, FS_AddElement DEF MeterHolds, ChargeShaped
<1>10. \A x, y \in events' : x.scope = y.scope /\ x.metric = y.metric /\ x.key = y.key => x = y
  <2>1. \A x \in events : ~(x.scope = e.scope /\ x.metric = e.metric /\ x.key = e.key)
    BY <1>2 DEF Prior
  <2> QED BY <1>4, <2>1 DEF MeterHolds
<1>6. consumed \in [Scopes \X Metrics \X Months -> Nat]
  BY DEF MeterHolds
<1>7. <<s, m, Month>> \in Scopes \X Metrics \X Months
  BY <1>1
<1>8. consumed' \in [Scopes \X Metrics \X Months -> Nat]
  BY <1>4, <1>6, <1>7
<1>9. ASSUME NEW t \in Scopes, NEW k \in Metrics, NEW month \in Months
      PROVE  consumed'[<<t, k, month>>] = Cardinality(Units(Counted(events', t, k, month)))
  <2> DEFINE C == Counted(events, t, k, month)
  <2>1. C \in SUBSET events
    BY DEF Counted
  <2>2. IsFiniteSet(C) /\ \A x \in C : x.units \in Nat
    BY <2>1, FS_Subset DEF MeterHolds, ChargeShaped
  <2>3. consumed[<<t, k, month>>] = Cardinality(Units(C))
    BY DEF MeterHolds
  <2>4. <<t, k, month>> \in Scopes \X Metrics \X Months
    OBVIOUS
  <2>5. CASE t = s /\ k = m /\ month = Month
    <3>1. Counted(events', t, k, month) = C \union {e}
      BY <1>2, <1>4, <2>5 DEF Counted
    <3>2. e \notin C
      BY <1>3, <2>1
    <3>3. consumed'[<<t, k, month>>] = consumed[<<t, k, month>>] + n
      BY <1>4, <1>6, <1>7, <2>5
    <3> HIDE DEF C
    <3>4. Cardinality(Units(C \union {e})) = Cardinality(Units(C)) + n
      BY <1>2, <2>2, <3>2, ChargedUnitsAdd
    <3> QED BY <2>3, <3>1, <3>3, <3>4
  <2>6. CASE ~(t = s /\ k = m /\ month = Month)
    <3>1. Counted(events', t, k, month) = C
      BY <1>2, <1>4, <2>6 DEF Counted
    <3>2. <<t, k, month>> # <<s, m, Month>>
      BY <2>6
    <3>3. consumed'[<<t, k, month>>] = consumed[<<t, k, month>>]
      BY <1>4, <1>6, <2>4, <3>2
    <3> QED BY <2>3, <3>1, <3>3
  <2> QED BY <2>5, <2>6
<1> QED BY <1>4, <1>5, <1>8, <1>9, <1>10 DEF MeterHolds, e

\* One more export with one more charge of its rows.
LEMMA ExportFits ==
    ASSUME ExportsHold(exports), ChargesHold(events, exports),
           NEW x, x.rows \in Nat, KeyFits(x, Cardinality(PersonalOf(exports \union {x}))),
           Existing(x.key) = {},
           NEW e, e.metric = "export_row", e.units = x.rows, e.key = x.key
    PROVE  ExportsHold(exports \union {x}) /\ ChargesHold(events \union {e}, exports \union {x})
<1> DEFINE xs == exports \union {x}
           es == events \union {e}
           p  == PersonalOf(exports)
           ps == PersonalOf(xs)
<1>1. \A y \in exports : y.key # x.key
  BY DEF Existing
<1>2. IsFiniteSet(xs)
  BY FS_AddElement DEF ExportsHold
<1>3. Cardinality(p) \in Nat /\ Cardinality(ps) \in Nat /\ Cardinality(p) <= Cardinality(ps)
  <2>1. ps \in SUBSET xs /\ p \in SUBSET ps
    BY DEF PersonalOf
  <2> HIDE DEF xs, p, ps
  <2>2. IsFiniteSet(ps)
    BY <1>2, <2>1, FS_Subset
  <2> QED BY <2>1, <2>2, FS_Subset, FS_CardinalityType
<1>4. \A y \in xs : y.rows \in Nat /\ KeyFits(y, Cardinality(ps))
  <2>1. ASSUME NEW y \in exports PROVE y.rows \in Nat /\ KeyFits(y, Cardinality(ps))
    <3>1. y.rows \in Nat /\ KeyFits(y, Cardinality(p))
      BY DEF ExportsHold
    <3>2. \A k \in 1..Cardinality(p) : k \in 1..Cardinality(ps)
      BY <1>3
    <3> QED BY <3>1, <3>2 DEF KeyFits
  <2> QED BY <2>1
<1>5. \A y, z \in xs : y.key = z.key => y = z
  BY <1>1 DEF ExportsHold
<1>6. ForRows(es) = ForRows(events) \union {e}
  BY DEF ForRows
<1>7. \A d \in ForRows(events) : d.key # e.key
  BY <1>1 DEF ChargesHold
<1>8. ChargesHold(es, xs)
  BY <1>6, <1>7 DEF ChargesHold
<1> QED BY <1>2, <1>4, <1>5, <1>8 DEF ExportsHold

-----------------------------------------------------------------------------
\* A request is put in another state.
AskedNext(r, q) == req' = [req EXCEPT ![r] = q]

\* Then no other request changes.
LEMMA AskedOne ==
    ASSUME ReadsTyped, NEW r \in Requests, NEW q, AskedNext(r, q)
    PROVE  /\ req' = [p \in Requests |-> req'[p]]
           /\ req'[r] = q /\ \A p \in Requests : p # r => req'[p] = req[p]
BY DEF ReadsTyped, AskedNext

\* What requests have in hand stays of its kind.
LEMMA TypesFollow ==
    ASSUME ReadsTyped, NEW r \in Requests, NEW q, AskedNext(r, q), InHand(q),
           UNCHANGED <<window, subscription>>
    PROVE  ReadsTyped'
BY AskedOne DEF ReadsTyped

\* The locks stay while no other request's key is exported.
LEMMA LocksFollow ==
    ASSUME ReadsTyped, KeysLocked, NEW r \in Requests, NEW q, AskedNext(r, q), q.at # "org locked",
           \A x \in exports' : \/ x \in exports
                               \/ \A p \in Requests \ {r} : req[p].at = "org locked" => req[p].key # x.key
    PROVE  KeysLocked'
<1>1. req'[r] = q /\ \A p \in Requests : p # r => req'[p] = req[p]
  BY AskedOne
<1>2. ASSUME NEW p \in Requests, req'[p].at = "org locked"
      PROVE  p # r /\ req'[p] = req[p] /\ \A x \in exports' : x.key # req'[p].key
  <2>1. p # r /\ req'[p] = req[p] /\ req[p].at = "org locked"
    BY <1>1, <1>2
  <2>2. \A x \in exports : x.key # req[p].key
    BY <2>1 DEF KeysLocked, Existing
  <2>3. \A x \in exports' : x.key # req'[p].key
    BY <2>1, <2>2
  <2> QED BY <2>1, <2>3
<1> QED BY <1>2 DEF KeysLocked, Existing

\* What is paid for stays paid for.
LEMMA AnswersFollow ==
    ASSUME ReadsTyped, AnswersPaid, NEW r \in Requests, NEW q, AskedNext(r, q),
           events \subseteq events',
           q.at \in {"charged", "read"} => PaidFor(events', q.scope, q.ask),
           \A a \in answers' : a \in answers \/ PaidFor(events', a.scope, a.ask)
    PROVE  AnswersPaid'
<1>1. req'[r] = q /\ \A p \in Requests : p # r => req'[p] = req[p]
  BY AskedOne
<1>2. \A s, ask : PaidFor(events, s, ask) => PaidFor(events', s, ask)
  BY DEF PaidFor
<1>3. \A a \in answers' : PaidFor(events', a.scope, a.ask)
  BY <1>2 DEF AnswersPaid
<1>4. ASSUME NEW p \in Requests, req'[p].at \in {"charged", "read"}
      PROVE  PaidFor(events', req'[p].scope, req'[p].ask)
  <2>1. CASE p = r
    BY <1>1, <1>4, <2>1
  <2>2. CASE p # r
    BY <1>1, <1>2, <1>4, <2>2 DEF AnswersPaid
  <2> QED BY <2>1, <2>2
<1> QED BY <1>3, <1>4 DEF AnswersPaid

\* A request that asks, or gives up.
LEMMA AskKeeps ==
    ASSUME ReadsInv, NEW r \in Requests, NEW q, AskedNext(r, q), InHand(q),
           q.at \notin {"org locked", "charged", "read"},
           UNCHANGED <<window, subscription, meter, exports, answers>>
    PROVE  ReadsInv'
<1>1. ReadsTyped'
  BY TypesFollow DEF ReadsInv
<1>2. KeysLocked'
  BY LocksFollow DEF ReadsInv
<1>3. AnswersPaid'
  BY AnswersFollow DEF ReadsInv, meter
<1>4. ExportsHold(exports)' /\ ChargesHold(events, exports)' /\ MeterHolds(events, consumed)'
  BY DEF ReadsInv, meter
<1> QED BY <1>1, <1>2, <1>3, <1>4 DEF ReadsInv

\* A count of rows to export.
LEMMA ExportRowsIsNat ==
    ASSUME NEW u \in Users, NEW ids
    PROVE  ExportRows(u, ids) \in Nat
<1> DEFINE S == Showable(u)
<1>1. S \subseteq 1..Len(Reports[u]) /\ Len(Reports[u]) \in Nat
  BY StatementsAssumption DEF Showable
<1> HIDE DEF S
<1>2. IsFiniteSet(S) /\ Cardinality(S) \in Nat
  <2>1. IsFiniteSet(1..Len(Reports[u]))
    BY <1>1, FS_Interval
  <2> QED BY <1>1, <2>1, FS_Subset, FS_CardinalityType
<1>3. CASE ids = {}
  <2>1. OwnLimit(u) \in Nat
    BY StatementsAssumption DEF OwnLimit
  <2>2. Cap(u) \in Nat
    <3>1. \A a, b \in Nat : Max({a, b}) \in Nat
      BY DEF Max
    <3>2. Max({OwnLimit(u), RowFloor}) \in Nat
      BY <2>1, <3>1, StatementsAssumption
    <3> QED BY <3>2 DEF Cap
  <2>3. Min({Cardinality(S), Cap(u)}) \in {Cardinality(S), Cap(u)}
    <3> DEFINE two == {Cardinality(S), Cap(u)}
    <3>1. two \in SUBSET Nat /\ two # {}
      BY <1>2, <2>2
    <3> HIDE DEF two
    <3> QED BY <3>1, LeastOf DEF two
  <2> QED BY <1>2, <1>3, <2>2, <2>3 DEF ExportRows, S
<1>4. CASE ids # {} /\ ids \subseteq {Reports[u][n].id : n \in S}
  <2> DEFINE T == {Reports[u][n].id : n \in S}
             f == [n \in S |-> Reports[u][n].id]
  <2>1. f \in Surjection(S, T)
    BY DEF Surjection
  <2>2. ids \in SUBSET T
    BY <1>4
  <2> HIDE DEF f, T
  <2>3. IsFiniteSet(T)
    BY <1>2, <2>1, FS_Surjection
  <2>4. Cardinality(ids) \in Nat
    BY <2>2, <2>3, FS_Subset, FS_CardinalityType
  <2> QED BY <1>4, <2>4 DEF ExportRows, S
<1>5. CASE ids # {} /\ ~(ids \subseteq {Reports[u][n].id : n \in S})
  BY <1>5 DEF ExportRows, S
<1> QED BY <1>3, <1>4, <1>5

\* An organisation's exporter belongs to one.
LEMMA ExporterBelongs ==
    ASSUME NEW u \in Users, MayExport(u)
    PROVE  Membership(u).org \in Orgs
<1>1. Memberships[u] \in Seq(Range(Memberships[u])) /\ Memberships[u] # << >>
  BY StatementsAssumption DEF MayExport
<1>2. 1 \in DOMAIN Memberships[u] /\ Head(Memberships[u]) = Memberships[u][1]
  BY <1>1
<1> QED BY <1>2, StatementsAssumption DEF Membership

\* The requests that only ask.
LEMMA AskingKeeps ==
    ASSUME ReadsInv, NEW r \in Requests,
           \/ \E u \in Users : \/ \E ids \in ExportAsks : AskExport(r, u, ids)
                               \/ AskOrgExport(r, u)
                               \/ \E a \in AnalysisAsks : AskAnalysis(r, u, a)
                               \/ \E q \in RegionAsks : AskRegion(r, u, q)
           \/ ReuseOrgExport(r) \/ RollBack(r)
    PROVE  ReadsInv'
<1>1. ASSUME NEW u \in Users, NEW ids \in ExportAsks, AskExport(r, u, ids) PROVE ReadsInv'
  <2> DEFINE q == [at |-> "export", user |-> u, rows |-> ExportRows(u, ids)]
  <2>1. AskedNext(r, q) /\ UNCHANGED <<window, subscription, meter, exports, answers>>
    BY <1>1 DEF AskExport, AskedNext
  <2>2. InHand(q) /\ q.at = "export"
    BY ExportRowsIsNat DEF InHand
  <2> HIDE DEF q
  <2> QED BY <2>1, <2>2, AskKeeps
<1>2. ASSUME NEW u \in Users, AskOrgExport(r, u) PROVE ReadsInv'
  <2> DEFINE q == [at |-> "org asked", user |-> u, month |-> Month, key |-> ExportKey(Membership(u).org, u)]
  <2>1. AskedNext(r, q) /\ UNCHANGED <<window, subscription, meter, exports, answers>>
    BY <1>2 DEF AskOrgExport, AskedNext
  <2>2. Membership(u).org \in Orgs
    BY <1>2, ExporterBelongs DEF AskOrgExport
  <2>3. window \in 1..LastWindow /\ ExportKey(Membership(u).org, u) = OrgKey(Membership(u).org, u, window)
    BY DEF ReadsInv, ReadsTyped, ExportKey, OrgKey, Month
  <2>4. InHand(q) /\ q.at = "org asked"
    BY <2>2, <2>3 DEF InHand
  <2> HIDE DEF q
  <2> QED BY <2>1, <2>4, AskKeeps
<1>3. ASSUME NEW u \in Users, NEW a \in AnalysisAsks, AskAnalysis(r, u, a) PROVE ReadsInv'
  <2> DEFINE q == [at |-> "analysis", user |-> u, ask |-> a]
  <2>1. AskedNext(r, q) /\ UNCHANGED <<window, subscription, meter, exports, answers>>
    BY <1>3 DEF AskAnalysis, AskedNext
  <2>2. InHand(q) /\ q.at = "analysis"
    BY DEF InHand
  <2> HIDE DEF q
  <2> QED BY <2>1, <2>2, AskKeeps
<1>4. ASSUME NEW u \in Users, NEW a \in RegionAsks, AskRegion(r, u, a) PROVE ReadsInv'
  <2> DEFINE q == [at |-> a.type, user |-> u, ask |-> NormalizeRegion(a)]
  <2>1. AskedNext(r, q) /\ UNCHANGED <<window, subscription, meter, exports, answers>>
    BY <1>4 DEF AskRegion, AskedNext
  <2>2. a.type \in {"region-stats", "region-trend"}
    BY StatementsAssumption
  <2>3. InHand(q) /\ q.at \in {"region-stats", "region-trend"}
    BY <2>2 DEF InHand
  <2> HIDE DEF q
  <2> QED BY <2>1, <2>3, AskKeeps
<1>5. ASSUME ReuseOrgExport(r) \/ RollBack(r) PROVE ReadsInv'
  <2>1. AskedNext(r, AtRest) /\ UNCHANGED <<window, subscription, meter, exports, answers>>
    BY <1>5 DEF ReuseOrgExport, RollBack, End, AskedNext
  <2>2. InHand(AtRest) /\ AtRest.at = "idle"
    BY DEF InHand, AtRest
  <2> QED BY <2>1, <2>2, AskKeeps
<1> QED BY <1>1, <1>2, <1>3, <1>4, <1>5

\* A lock is taken on a key that nobody else has, and nothing is exported under.
LEMMA LockKeeps == 
    ASSUME ReadsInv, NEW r \in Requests, LockOrgExport(r)
    PROVE  ReadsInv'
<1> DEFINE n == Cardinality(Counters(Membership(req[r].user).org, req[r].month))
           q == [at |-> "org locked", user |-> req[r].user, key |-> req[r].key, rows |-> n]
<1>1. /\ req[r].at = "org asked" /\ KeyFree(r) /\ Existing(req[r].key) = {} /\ AskedNext(r, q)
      /\ UNCHANGED <<window, subscription, meter, exports, answers>>
  BY DEF LockOrgExport, AskedNext
<1>2. n \in Nat
  <2>1. IsFiniteSet(Metrics)
    <3>1. IsFiniteSet({"stats_query"} \union {"export_row"})
      BY FS_Singleton, FS_AddElement
    <3>2. Metrics = ({"stats_query"} \union {"export_row"}) \union {"query"}
      BY DEF Metrics
    <3> QED BY <3>1, <3>2, FS_AddElement
  <2>2. Counters(Membership(req[r].user).org, req[r].month) \in SUBSET Metrics
    BY DEF Counters
  <2> QED BY <2>1, <2>2, FS_Subset, FS_CardinalityType
<1>3. InHand(req[r])
  BY DEF ReadsInv, ReadsTyped
<1>4. q.at = "org locked" /\ q.user = req[r].user /\ q.key = req[r].key /\ q.rows = n
  OBVIOUS
<1> HIDE DEF q, n
<1>5. InHand(q)
  BY <1>1, <1>2, <1>3, <1>4 DEF InHand
<1>6. ReadsTyped'
  BY <1>1, <1>5, TypesFollow DEF ReadsInv
<1>7. AnswersPaid'
  BY <1>1, <1>4, AnswersFollow DEF ReadsInv, meter
<1>8. KeysLocked'
  <2>1. req'[r] = q /\ \A p \in Requests : p # r => req'[p] = req[p]
    BY <1>1, AskedOne DEF ReadsInv
  <2>2. \A p \in Requests : p # r /\ req[p].at = "org locked" => req[p].key # req[r].key
    BY <1>1 DEF KeyFree
  <2>3. \A x \in exports : x.key # req[r].key
    BY <1>1 DEF Existing
  <2>4. \A p \in Requests : req'[p].at = "org locked" => \A x \in exports : x.key # req'[p].key
    BY <1>4, <2>1, <2>3 DEF ReadsInv, KeysLocked, Existing
  <2>5. \A p, o \in Requests :
           req'[p].at = "org locked" /\ req'[o].at = "org locked" /\ req'[p].key = req'[o].key => p = o
    <3>1. \A p \in Requests \ {r} : req'[p].at = "org locked" => req'[p].key # req'[r].key
      BY <1>4, <2>1, <2>2
    <3>2. \A p, o \in Requests \ {r} :
             req'[p].at = "org locked" /\ req'[o].at = "org locked" /\ req'[p].key = req'[o].key => p = o
      BY <2>1 DEF ReadsInv, KeysLocked
    <3> QED BY <3>1, <3>2
  <2>6. exports' = exports
    BY <1>1
  <2> QED BY <2>4, <2>5, <2>6 DEF KeysLocked, Existing
<1>9. ExportsHold(exports)' /\ ChargesHold(events, exports)' /\ MeterHolds(events, consumed)'
  BY <1>1 DEF ReadsInv, meter
<1> QED BY <1>6, <1>7, <1>8, <1>9 DEF ReadsInv

\* What has not been exported has not been charged.
LEMMA NothingPrior ==
    ASSUME ChargesHold(events, exports), NEW key, Existing(key) = {}, NEW s
    PROVE  ~Prior(s, "export_row", key)
BY DEF ChargesHold, ForRows, Existing, Prior

\* The keys of users and organisations differ.
LEMMA KeysApart ==
    ASSUME NEW k, NEW o, NEW u, NEW minute
    PROVE  <<"export", k>> # OrgKey(o, u, minute)
<1>1. <<"export", k>>[1] = "export" /\ OrgKey(o, u, minute)[1] = "org-export"
  BY DEF OrgKey
<1> QED BY <1>1

\* An export is committed with its charge.
LEMMA CommitExported ==
    ASSUME ReadsInv, NEW r \in Requests, AskedNext(r, AtRest),
           UNCHANGED <<window, subscription, answers>>,
           NEW x, x.rows \in Nat, exports' = exports \union {x}, Existing(x.key) = {},
           KeyFits(x, Cardinality(PersonalOf(exports \union {x}))),
           \A p \in Requests \ {r} : req[p].at = "org locked" => req[p].key # x.key,
           NEW s \in Scopes, Charge(s, "export_row", x.rows, x.key)
    PROVE  ReadsInv'
<1> DEFINE e == [scope |-> s, metric |-> "export_row", units |-> x.rows, month |-> Month, key |-> x.key]
<1>1. ~Prior(s, "export_row", x.key)
  BY NothingPrior DEF ReadsInv
<1>2. "export_row" \in Metrics
  BY DEF Metrics
<1>3. events' = events \union {e} /\ MeterHolds(events', consumed')
  BY <1>1, <1>2, ChargeFits DEF ReadsInv
<1>4. e.metric = "export_row" /\ e.units = x.rows /\ e.key = x.key
  OBVIOUS
<1> HIDE DEF e
<1>5. ExportsHold(exports') /\ ChargesHold(events', exports')
  BY <1>3, <1>4, ExportFits DEF ReadsInv
<1>6. InHand(AtRest) /\ AtRest.at = "idle"
  BY DEF InHand, AtRest
<1>7. ReadsTyped'
  BY <1>6, TypesFollow DEF ReadsInv
<1>8. KeysLocked'
  <2>1. \A y \in exports' : \/ y \in exports
                            \/ \A p \in Requests \ {r} : req[p].at = "org locked" => req[p].key # y.key
    OBVIOUS
  <2> QED BY <1>6, <2>1, LocksFollow DEF ReadsInv
<1>9. AnswersPaid'
  BY <1>3, <1>6, AnswersFollow DEF ReadsInv
<1> QED BY <1>3, <1>5, <1>7, <1>8, <1>9 DEF ReadsInv

\* A user's export is numbered after all the others, and charged.
LEMMA CommitExportKeeps ==
    ASSUME ReadsInv, NEW r \in Requests, CommitExport(r)
    PROVE  ReadsInv'
<1> DEFINE u == req[r].user
           x == [org |-> NoOrg, owner |-> u, key |-> <<"export", NextId>>, rows |-> req[r].rows]
<1>1. /\ req[r].at = "export" /\ AskedNext(r, AtRest) /\ UNCHANGED <<window, subscription, answers>>
      /\ exports' = exports \union {x}
      /\ Charge(ChargedScope(u), "export_row", req[r].rows, <<"export", NextId>>)
  BY DEF CommitExport, ExportUnits, End, AskedNext
<1>2. u \in Users /\ req[r].rows \in Nat
  BY <1>1 DEF ReadsInv, ReadsTyped, InHand
<1>3. x.org = NoOrg /\ x.key = <<"export", NextId>> /\ x.rows = req[r].rows
  OBVIOUS
<1> HIDE DEF x
<1>4. IsFiniteSet(PersonalOf(exports)) /\ Cardinality(PersonalOf(exports)) \in Nat
      /\ NextId = Cardinality(PersonalOf(exports)) + 1
  <2>1. PersonalOf(exports) \in SUBSET exports
    BY DEF PersonalOf
  <2>2. IsFiniteSet(exports)
    BY DEF ReadsInv, ExportsHold
  <2> QED BY <2>1, <2>2, FS_Subset, FS_CardinalityType DEF NextId, PersonalOf
<1>5. \A y \in exports : y.key # x.key
  <2> SUFFICES ASSUME NEW y \in exports, y.key = <<"export", NextId>> PROVE FALSE
    BY <1>3
  <2>1. KeyFits(y, Cardinality(PersonalOf(exports)))
    BY DEF ReadsInv, ExportsHold
  <2>2. CASE \E k \in 1..Cardinality(PersonalOf(exports)) : y.key = <<"export", k>>
    <3>1. PICK k \in 1..Cardinality(PersonalOf(exports)) : <<"export", NextId>> = <<"export", k>>
      BY <2>2
    <3>2. NextId = k
      BY <3>1
    <3> QED BY <1>4, <3>2
  <2>3. CASE \E minute \in 1..LastWindow : y.key = OrgKey(y.org, y.owner, minute)
    BY <2>3, KeysApart
  <2> QED BY <2>1, <2>2, <2>3 DEF KeyFits
<1>6. Existing(x.key) = {}
  BY <1>5 DEF Existing
<1>7. KeyFits(x, Cardinality(PersonalOf(exports \union {x})))
  <2>1. PersonalOf(exports \union {x}) = PersonalOf(exports) \union {x} /\ x \notin PersonalOf(exports)
    BY <1>3, <1>5 DEF PersonalOf
  <2>2. Cardinality(PersonalOf(exports) \union {x}) = NextId
    BY <1>4, <2>1, FS_AddElement
  <2>3. NextId \in 1..NextId
    BY <1>4
  <2> QED BY <1>3, <2>1, <2>2, <2>3 DEF KeyFits
<1>8. ASSUME NEW p \in Requests \ {r}, req[p].at = "org locked" PROVE req[p].key # x.key
  <2>1. PICK minute \in 1..LastWindow : req[p].key = OrgKey(Membership(req[p].user).org, req[p].user, minute)
    BY <1>8 DEF ReadsInv, ReadsTyped, InHand
  <2> QED BY <1>3, <2>1, KeysApart
<1>9. ChargedScope(u) \in Scopes
  BY <1>2, ScopeIsOne DEF ReadsInv
<1> HIDE DEF u
<1> QED BY <1>1, <1>2, <1>3, <1>6, <1>7, <1>8, <1>9, CommitExported

\* An organisation's export is charged under the key it has locked.
LEMMA CommitOrgExportKeeps ==
    ASSUME ReadsInv, NEW r \in Requests, CommitOrgExport(r)
    PROVE  ReadsInv'
<1> DEFINE u == req[r].user
           o == Membership(u).org
           x == [org |-> o, owner |-> u, key |-> req[r].key, rows |-> req[r].rows]
<1>1. /\ req[r].at = "org locked" /\ AskedNext(r, AtRest) /\ UNCHANGED <<window, subscription, answers>>
      /\ exports' = exports \union {x} /\ Existing(req[r].key) = {}
      /\ Charge(o, "export_row", req[r].rows, req[r].key)
  BY DEF CommitOrgExport, End, AskedNext
<1>2. /\ u \in Users /\ req[r].rows \in Nat /\ o \in Orgs
      /\ \E minute \in 1..LastWindow : req[r].key = OrgKey(o, u, minute)
  BY <1>1 DEF ReadsInv, ReadsTyped, InHand
<1>3. x.org = o /\ x.owner = u /\ x.key = req[r].key /\ x.rows = req[r].rows
  OBVIOUS
<1>4. o \in Scopes
  BY <1>2 DEF Scopes
<1> HIDE DEF x, o, u
<1>5. KeyFits(x, Cardinality(PersonalOf(exports \union {x})))
  BY <1>2, <1>3 DEF KeyFits
<1>6. \A p \in Requests \ {r} : req[p].at = "org locked" => req[p].key # x.key
  BY <1>1, <1>3 DEF ReadsInv, KeysLocked
<1>7. /\ AskedNext(r, AtRest) /\ UNCHANGED <<window, subscription, answers>>
      /\ x.rows \in Nat /\ exports' = exports \union {x} /\ Existing(x.key) = {}
      /\ Charge(o, "export_row", x.rows, x.key)
  BY <1>1, <1>2, <1>3
<1> QED BY <1>4, <1>5, <1>6, <1>7, CommitExported

\* What a request that has been charged for will show.
WillShow(q, s, ask) ==
    q.at # "org locked" /\ (q.at \in {"charged", "read"} => q.scope = s /\ q.ask = ask)

\* A statistic is charged on a scope, now or before, under what was asked; then
\* it may be shown, or is about to be.
LEMMA Metered ==
    ASSUME ReadsInv, NEW r \in Requests, NEW q, AskedNext(r, q), InHand(q),
           UNCHANGED <<window, subscription, exports>>,
           NEW s \in Scopes, NEW kind, NEW shape, Charge(s, "stats_query", 1, <<kind, shape>>),
           WillShow(q, s, shape),
           \A a \in answers' : a \in answers \/ (a.scope = s /\ a.ask = shape)
    PROVE  ReadsInv'
<1> DEFINE key == <<kind, shape>>
           e   == [scope |-> s, metric |-> "stats_query", units |-> 1, month |-> Month, key |-> key]
<1>1. key[2] = shape
  OBVIOUS
<1>2. /\ MeterHolds(events', consumed') /\ events \subseteq events'
      /\ ForRows(events') = ForRows(events) /\ PaidFor(events', s, shape)
  <2>1. CASE Prior(s, "stats_query", key)
    <3>1. events' = events /\ consumed' = consumed
      BY <2>1 DEF Charge, meter
    <3>2. PaidFor(events, s, shape)
      BY <1>1, <2>1 DEF Prior, PaidFor
    <3> QED BY <3>1, <3>2 DEF ReadsInv
  <2>2. CASE ~Prior(s, "stats_query", key)
    <3>1. "stats_query" \in Metrics /\ 1 \in Nat
      BY DEF Metrics
    <3>2. events' = events \union {e} /\ MeterHolds(events', consumed')
      BY <2>2, <3>1, ChargeFits DEF ReadsInv
    <3>3. e.metric = "stats_query" /\ e.scope = s /\ e.key = key
      OBVIOUS
    <3> HIDE DEF e, key
    <3> QED BY <1>1, <3>2, <3>3 DEF PaidFor, ForRows
  <2> QED BY <2>1, <2>2
<1>3. ReadsTyped'
  BY TypesFollow DEF ReadsInv
<1>4. KeysLocked'
  BY LocksFollow DEF ReadsInv, WillShow
<1>5. AnswersPaid'
  <2>2. \A a \in answers' : a \in answers \/ PaidFor(events', a.scope, a.ask)
    BY <1>2
  <2>3. q.at \in {"charged", "read"} => PaidFor(events', q.scope, q.ask)
    BY <1>2 DEF WillShow
  <2> QED BY <1>2, <2>2, <2>3, AnswersFollow DEF ReadsInv
<1>6. ExportsHold(exports') /\ ChargesHold(events', exports')
  BY <1>2 DEF ReadsInv, ChargesHold
<1> QED BY <1>2, <1>3, <1>4, <1>5, <1>6 DEF ReadsInv

\* Analyses, and the charges of regional statistics and of a trend.
LEMMA ChargedReadsKeep ==
    ASSUME ReadsInv, NEW r \in Requests, CommitAnalysis(r) \/ ChargeRegion(r) \/ ChargeTrend(r)
    PROVE  ReadsInv'
<1> DEFINE u == req[r].user
           a == req[r].ask
           s == ChargedScope(u)
<1>1. u \in Users /\ s \in Scopes
  <2>1. u \in Users
    BY DEF CommitAnalysis, ChargeRegion, ChargeTrend, ReadsInv, ReadsTyped, InHand
  <2> QED BY <2>1, ScopeIsOne DEF ReadsInv
<1>2. InHand(AtRest) /\ AtRest.at # "org locked" /\ AtRest.at \notin {"charged", "read"}
  BY DEF InHand, AtRest
<1>3. CASE CommitAnalysis(r)
  <2> DEFINE q    == AtRest
             told == [scope |-> s, user |-> u, month |-> Month, ask |-> a, status |-> "ok"]
  <2>1. /\ AskedNext(r, q) /\ UNCHANGED <<window, subscription, exports>>
        /\ Charge(s, "stats_query", 1, <<"stats", a>>)
        /\ answers' = answers \union {told}
    BY <1>3 DEF CommitAnalysis, Shown, End, AskedNext
  <2>2. told.scope = s /\ told.ask = a
    OBVIOUS
  <2> HIDE DEF told
  <2>3. \A x \in answers' : x \in answers \/ (x.scope = s /\ x.ask = a)
    BY <2>1, <2>2
  <2>4. InHand(q) /\ WillShow(q, s, a)
    BY <1>2 DEF WillShow
  <2> HIDE DEF s, a, q
  <2> QED BY <1>1, <2>1, <2>3, <2>4, Metered
<1>4. CASE ChargeTrend(r)
  <2> DEFINE q == [at |-> "read", user |-> u, ask |-> a, scope |-> s, rows |-> Rows(table, Stored(a))]
  <2>1. /\ AskedNext(r, q) /\ UNCHANGED <<window, subscription, exports, answers>>
        /\ Charge(s, "stats_query", 1, <<a.type, a>>)
    BY <1>4 DEF ChargeTrend, AskedNext, RegionKey
  <2>2. q.at = "read" /\ q.scope = s /\ q.ask = a /\ InHand(q)
    BY <1>1 DEF InHand
  <2>4. WillShow(q, s, a)
    BY <2>2 DEF WillShow
  <2> HIDE DEF s, a, q
  <2>3. \A x \in answers' : x \in answers \/ (x.scope = s /\ x.ask = a)
    BY <2>1
  <2> QED BY <1>1, <2>1, <2>2, <2>3, <2>4, Metered
<1>5. CASE ChargeRegion(r)
  <2> DEFINE q == [at |-> "charged", user |-> u, ask |-> a, scope |-> s]
  <2>1. /\ AskedNext(r, q) /\ UNCHANGED <<window, subscription, exports, answers>>
        /\ Charge(s, "stats_query", 1, <<a.type, a>>)
    BY <1>5 DEF ChargeRegion, AskedNext, RegionKey
  <2>2. q.at = "charged" /\ q.scope = s /\ q.ask = a /\ InHand(q)
    BY <1>1 DEF InHand
  <2>4. WillShow(q, s, a)
    BY <2>2 DEF WillShow
  <2> HIDE DEF s, a, q
  <2>3. \A x \in answers' : x \in answers \/ (x.scope = s /\ x.ask = a)
    BY <2>1
  <2> QED BY <1>1, <2>1, <2>2, <2>3, <2>4, Metered
<1> QED BY <1>3, <1>4, <1>5

\* The answer of one quarter, or a series, shows what its charge was for.
LEMMA AnswerKeeps ==
    ASSUME ReadsInv, NEW r \in Requests, AnswerRegion(r) \/ AnswerTrend(r)
    PROVE  ReadsInv'
<1>1. /\ req[r].at \in {"charged", "read"} /\ AskedNext(r, AtRest) /\ UNCHANGED <<window, subscription, meter, exports>>
      /\ \E word : Shown(req[r].scope, req[r].user, req[r].ask, word)
  BY DEF AnswerRegion, AnswerTrend, End, AskedNext
<1>2. InHand(AtRest) /\ AtRest.at = "idle" /\ AtRest.at \notin {"charged", "read"}
  BY DEF InHand, AtRest
<1>3. PaidFor(events, req[r].scope, req[r].ask)
  BY <1>1 DEF ReadsInv, AnswersPaid
<1>4. \A a \in answers' : a \in answers \/ PaidFor(events', a.scope, a.ask)
  <2>1. PICK word : Shown(req[r].scope, req[r].user, req[r].ask, word)
    BY <1>1
  <2> DEFINE told == [scope |-> req[r].scope, user |-> req[r].user, month |-> Month, ask |-> req[r].ask,
                      status |-> word]
  <2>2. answers' = answers \union {told}
    BY <2>1 DEF Shown
  <2>3. told.scope = req[r].scope /\ told.ask = req[r].ask
    OBVIOUS
  <2>4. events' = events
    BY <1>1 DEF meter
  <2> HIDE DEF told
  <2> QED BY <1>3, <2>2, <2>3, <2>4
<1>5. ReadsTyped'
  BY <1>1, <1>2, TypesFollow DEF ReadsInv
<1>6. KeysLocked'
  BY <1>1, <1>2, LocksFollow DEF ReadsInv
<1>7. AnswersPaid'
  BY <1>1, <1>2, <1>4, AnswersFollow DEF ReadsInv, meter
<1>8. ExportsHold(exports)' /\ ChargesHold(events, exports)' /\ MeterHolds(events, consumed)'
  BY <1>1 DEF ReadsInv, meter
<1> QED BY <1>5, <1>6, <1>7, <1>8 DEF ReadsInv

\* Every step of a request.
LEMMA ReadKeeps ==
    ASSUME ReadsInv, NEW r \in Requests, Read(r)
    PROVE  ReadsInv'
BY AskingKeeps, LockKeeps, CommitExportKeeps, CommitOrgExportKeeps, ChargedReadsKeep, AnswerKeeps
   DEF Read

\* Steps that are no request's.
LEMMA OthersKeep ==
    ASSUME ReadsInv, UNCHANGED <<meter, exports, answers, req>>,
           window' \in 1..LastWindow, subscription' \in [Orgs -> {"none", "data", "other"}]
    PROVE  ReadsInv'
<1>1. ReadsTyped'
  BY DEF ReadsInv, ReadsTyped
<1>2. KeysLocked'
  BY DEF ReadsInv, KeysLocked, Existing
<1>3. AnswersPaid'
  BY DEF ReadsInv, AnswersPaid, meter
<1> QED BY <1>1, <1>2, <1>3 DEF ReadsInv, meter

\* Nothing has been imported, asked or charged at first.
LEMMA StatementsStart == StatementsInit => StatementsInv
<1> SUFFICES ASSUME StatementsInit PROVE StatementsInv
  OBVIOUS
<1>1. ImportInv
  BY DEF StatementsInit, ImportInv, TableHolds
<1>2. IsFiniteSet({}) /\ Cardinality({}) = 0
  BY FS_EmptySet
<1>3. ReadsTyped
  <2>1. InHand(AtRest)
    BY DEF InHand, AtRest
  <2>2. 1 \in 1..LastWindow
    BY StatementsAssumption
  <2> QED BY <2>1, <2>2 DEF StatementsInit, ReadsTyped
<1>4. ExportsHold(exports) /\ ChargesHold(events, exports)
  BY <1>2 DEF StatementsInit, ExportsHold, ChargesHold, ForRows
<1>5. MeterHolds(events, consumed)
  <2>1. \A s, m, month : Units(Counted({}, s, m, month)) = {}
    BY DEF Units, Counted
  <2> QED BY <1>2, <2>1 DEF StatementsInit, MeterHolds
<1>6. KeysLocked /\ AnswersPaid
  BY DEF StatementsInit, KeysLocked, AnswersPaid, AtRest
<1> QED BY <1>1, <1>3, <1>4, <1>5, <1>6 DEF StatementsInv, ReadsInv

\* Every step keeps the invariant.
LEMMA StatementsStep == StatementsInv /\ [StatementsNext]_statementsVars => StatementsInv'
<1> SUFFICES ASSUME StatementsInv, [StatementsNext]_statementsVars PROVE StatementsInv'
  OBVIOUS
<1>1. ImportInv /\ ReadsInv
  BY DEF StatementsInv
<1>2. window \in 1..LastWindow /\ subscription \in [Orgs -> {"none", "data", "other"}]
  BY <1>1 DEF ReadsInv, ReadsTyped
<1>3. ASSUME UNCHANGED tables PROVE ImportInv'
  BY <1>1, <1>3 DEF tables, ImportInv
<1>4. CASE Import
  <2>1. UNCHANGED <<window, subscription, meter, exports, answers, req>>
    BY <1>4 DEF Import, StartImport, ImportChunk, EndImport, ImporterDies
  <2> QED BY <1>1, <1>2, <1>4, <2>1, ImportKeeps, OthersKeep DEF StatementsInv
<1>5. CASE PassMinute
  <2>1. window' \in 1..LastWindow
    BY <1>2, <1>5, StatementsAssumption DEF PassMinute
  <2> QED BY <1>1, <1>2, <1>3, <1>5, <2>1, OthersKeep DEF PassMinute, StatementsInv
<1>6. ASSUME NEW o \in Orgs, NEW kind \in {"none", "data", "other"}, ChangeSubscription(o, kind)
      PROVE  StatementsInv'
  <2>1. subscription' \in [Orgs -> {"none", "data", "other"}]
    BY <1>2, <1>6 DEF ChangeSubscription
  <2> QED BY <1>1, <1>2, <1>3, <1>6, <2>1, OthersKeep DEF ChangeSubscription, StatementsInv
<1>7. ASSUME NEW r \in Requests, Read(r) PROVE StatementsInv'
  <2>1. UNCHANGED tables
    BY <1>7 DEF Read, AskExport, AskOrgExport, AskAnalysis, AskRegion, CommitExport, ReuseOrgExport,
                LockOrgExport, CommitOrgExport, CommitAnalysis, ChargeRegion, AnswerRegion, ChargeTrend, AnswerTrend,
                RollBack
  <2> QED BY <1>1, <1>3, <1>7, <2>1, ReadKeeps DEF StatementsInv
<1>8. CASE UNCHANGED statementsVars
  BY <1>1, <1>2, <1>3, <1>8, OthersKeep DEF statementsVars, StatementsInv
<1> QED BY <1>4, <1>5, <1>6, <1>7, <1>8 DEF StatementsNext

\* Imports, charges, exports and answers agree throughout, for any number of
\* users, organisations, requests and downloads.
THEOREM StatementsInvariant == StatementsSpec => []StatementsInv
<1> QED BY StatementsStart, StatementsStep, PTL DEF StatementsSpec

\* An ended import has left each usable record of its file in the table, once.
THEOREM ImportsAreSafe == StatementsSpec => []ImportsAreWhole
<1>1. StatementsInv => ImportsAreWhole
  <2> SUFFICES ASSUME ImportInv PROVE ImportsAreWhole
    BY DEF StatementsInv
  <2>1. \A p, q \in table : SameRecord(p, q) => p = q
    BY DEF ImportInv, TableHolds, SameRecord
  <2> QED BY <2>1 DEF ImportInv, Tabled, ImportsAreWhole
<1> QED BY <1>1, StatementsInvariant, PTL

\* A scope has paid for each different request it has been answered, and for
\* none of them twice.
THEOREM StatisticsAreMetered == StatementsSpec => []StatisticsArePaid
<1>1. ASSUME ReadsInv, NEW s \in Scopes
      PROVE  Cardinality({a.ask : a \in {a \in answers : a.scope = s}})
               <= Cardinality({e \in ChargesOf("stats_query") : e.scope = s})
  <2> DEFINE Shapes == {a.ask : a \in {a \in answers : a.scope = s}}
             Es     == {e \in ChargesOf("stats_query") : e.scope = s}
             Keys   == {e.key[2] : e \in Es}
             f      == [e \in Es |-> e.key[2]]
  <2>1. f \in Surjection(Es, Keys)
    BY DEF Surjection
  <2>2. IsFiniteSet(Es)
    <3>1. Es \in SUBSET events
      BY DEF ChargesOf
    <3> HIDE DEF Es
    <3> QED BY <1>1, <3>1, FS_Subset DEF ReadsInv, MeterHolds
  <2>3. Shapes \in SUBSET Keys
    BY <1>1 DEF ReadsInv, AnswersPaid, PaidFor, ChargesOf
  <2> HIDE DEF f, Es, Keys, Shapes
  <2>4. IsFiniteSet(Keys) /\ Cardinality(Keys) <= Cardinality(Es)
    BY <2>1, <2>2, FS_Surjection
  <2>5. Cardinality(Shapes) <= Cardinality(Keys) /\ IsFiniteSet(Shapes)
    BY <2>3, <2>4, FS_Subset
  <2>6. Cardinality(Shapes) \in Nat /\ Cardinality(Keys) \in Nat /\ Cardinality(Es) \in Nat
    BY <2>2, <2>4, <2>5, FS_CardinalityType
  <2>7. Cardinality(Shapes) <= Cardinality(Es)
    BY <2>4, <2>5, <2>6
  <2> QED BY <2>7 DEF Shapes, Es
<1>2. ASSUME ReadsInv
      PROVE  \A d, e \in ChargesOf("stats_query") : d.scope = e.scope /\ d.key = e.key => d = e
  BY <1>2 DEF ReadsInv, MeterHolds, ChargesOf
<1>3. StatementsInv => StatisticsArePaid
  BY <1>1, <1>2 DEF StatementsInv, StatisticsArePaid
<1> QED BY <1>3, StatementsInvariant, PTL

\* Exports are billed for what they hold, once, and usage is shown as charged.
THEOREM ExportsAreCharged == StatementsSpec => []ExportsAreBilled
<1>1. ASSUME ReadsInv PROVE ExportsArePaid
  <2>1. \A e \in ChargesOf("export_row") : \E x \in exports : x.key = e.key /\ x.rows = e.units
    BY <1>1 DEF ReadsInv, ChargesHold, ForRows, ChargesOf
  <2>2. ASSUME NEW x \in exports
        PROVE  Cardinality({e \in ChargesOf("export_row") : e.key = x.key}) = 1
    <3>1. PICK e \in ForRows(events) : e.key = x.key
      BY <1>1 DEF ReadsInv, ChargesHold
    <3>2. \A d \in ForRows(events) : d.key = x.key => d = e
      BY <1>1, <3>1 DEF ReadsInv, ChargesHold
    <3>3. {d \in ChargesOf("export_row") : d.key = x.key} = {e}
      BY <3>1, <3>2 DEF ForRows, ChargesOf
    <3> QED BY <3>3, FS_Singleton
  <2>3. Cardinality(exports) = Cardinality({x.key : x \in exports})
    <3> DEFINE Keys == {x.key : x \in exports}
               f    == [x \in exports |-> x.key]
    <3>1. f \in Surjection(exports, Keys)
      BY DEF Surjection
    <3>2. f \in Injection(exports, Keys)
      BY <1>1 DEF ReadsInv, ExportsHold, Injection, IsInjective
    <3> HIDE DEF f, Keys
    <3>3. f \in Bijection(exports, Keys)
      BY <3>1, <3>2 DEF Bijection
    <3>4. IsFiniteSet(exports)
      BY <1>1 DEF ReadsInv, ExportsHold
    <3>5. Cardinality(Keys) = Cardinality(exports)
      BY <3>3, <3>4, FS_Bijection DEF ExistsBijection
    <3> QED BY <3>5 DEF Keys
  <2>4. \A s \in Scopes, m \in Metrics, month \in Months : consumed[<<s, m, month>>] = Charged(s, m, month)
    BY <1>1 DEF ReadsInv, MeterHolds, Charged, Counted
  <2>5. Month \in Months
    BY <1>1, MonthIsOne DEF ReadsInv
  <2>6. ASSUME NEW u \in Users, NEW m \in DOMAIN MemberUsage(u)
        PROVE  MemberUsage(u)[m].used = Charged(u, m, Month)
    <3>1. m \in Metrics
      BY <2>6, StatementsAssumption DEF MemberUsage
    <3> QED BY <2>4, <2>5, <3>1 DEF MemberUsage, Scopes
  <2>7. ASSUME NEW o \in Orgs, NEW m \in DOMAIN OrgUsage(o)
        PROVE  OrgUsage(o)[m].used = Charged(o, m, Month)
    <3>1. m \in Metrics
      BY <2>7, StatementsAssumption DEF OrgUsage, OrgPlan
    <3> QED BY <2>4, <2>5, <3>1 DEF OrgUsage, Scopes
  <2> QED BY <2>1, <2>2, <2>3, <2>4, <2>6, <2>7 DEF ExportsArePaid
<1>2. ASSUME ReadsInv PROVE OneOrgExportAMinute
  <2>1. ASSUME NEW x \in exports, NEW y \in exports,
               x.org # NoOrg, x.org = y.org, x.owner = y.owner, x.key[5] = y.key[5]
        PROVE  x = y
    <3>1. PICK m \in 1..LastWindow : x.key = OrgKey(x.org, x.owner, m)
      BY <1>2, <2>1 DEF ReadsInv, ExportsHold, KeyFits
    <3>2. PICK n \in 1..LastWindow : y.key = OrgKey(y.org, y.owner, n)
      BY <1>2, <2>1 DEF ReadsInv, ExportsHold, KeyFits
    <3>3. m = n
      BY <2>1, <3>1, <3>2 DEF OrgKey
    <3> QED BY <1>2, <2>1, <3>1, <3>2, <3>3 DEF ReadsInv, ExportsHold
  <2> QED BY <1>2, <2>1 DEF OneOrgExportAMinute, ReadsInv, KeysLocked
<1>3. StatementsInv => ExportsAreBilled
  BY <1>1, <1>2 DEF StatementsInv, ExportsAreBilled
<1> QED BY <1>3, StatementsInvariant, PTL
=============================================================================
