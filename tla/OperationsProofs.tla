------------------------- MODULE OperationsProofs -------------------------
(***************************************************************************)
(* Proofs about what runs beside the requests: the usage ledger            *)
(* (PostgresLedger), the service tasks and their consent (ServiceTasks),   *)
(* the backups and restore drills (BackupDrill) and the publisher's        *)
(* quality gate (QualityGate), each for every value of its constants.      *)
(***************************************************************************)
EXTENDS QualityGate, BackupDrill, ServiceTasks, PostgresLedger,
        FiniteSetTheorems, SequenceTheorems, WellFoundedInduction, TLAPS

-----------------------------------------------------------------------------
\* The usage ledger (PostgresLedger).

(***************************************************************************)
(* Sums of units.                                                          *)
(***************************************************************************)
Pieces(S) == UNION {{e} \X (1..e.units) : e \in S}

\* Finitely many events have finitely many units.
LEMMA UnitsAreFinite ==
  ASSUME NEW S, IsFiniteSet(S), \A e \in S : e.units \in Nat
  PROVE  IsFiniteSet(Pieces(S)) /\ UnitsOf(S) = Cardinality(Pieces(S)) /\ UnitsOf(S) \in Nat
<1> DEFINE Of(e) == {e} \X (1..e.units)
           T == {Of(e) : e \in S}
           f == [e \in S |-> Of(e)]
<1>1. f \in Surjection(S, T)
  BY DEF Surjection
<1>2. IsFiniteSet(T)
  <2> HIDE DEF f, T
  <2> QED
    BY <1>1, FS_Surjection
<1>3. \A e \in S : IsFiniteSet(Of(e))
  <2> SUFFICES ASSUME NEW e \in S PROVE IsFiniteSet({e} \X (1..e.units))
    OBVIOUS
  <2>1. IsFiniteSet({e})
    BY FS_Singleton
  <2>2. IsFiniteSet(1..e.units)
    <3>1. e.units \in Int
      OBVIOUS
    <3> QED
      BY <3>1, FS_Interval
  <2> QED
    BY <2>1, <2>2, FS_Product
<1>4. IsFiniteSet(UNION T)
  <2>1. \A U \in T : IsFiniteSet(U)
    BY <1>3
  <2> HIDE DEF T
  <2> QED
    BY <1>2, <2>1, FS_UNION
<1>5. Pieces(S) = UNION T
  BY DEF Pieces
<1>6. UnitsOf(S) = Cardinality(Pieces(S))
  BY DEF UnitsOf, Pieces
<1> QED
  BY <1>4, <1>5, <1>6, FS_CardinalityType

\* One more event adds its units.
LEMMA UnitsAdd ==
  ASSUME NEW S, IsFiniteSet(S), \A x \in S : x.units \in Nat,
         NEW e, e.units \in Nat, e \notin S
  PROVE  UnitsOf(S \union {e}) = UnitsOf(S) + e.units /\ UnitsOf(S) \in Nat
<1> DEFINE One == {e} \X (1..e.units)
           S1 == S \union {e}
<1>1. IsFiniteSet(Pieces(S)) /\ UnitsOf(S) = Cardinality(Pieces(S)) /\ UnitsOf(S) \in Nat
  BY UnitsAreFinite
<1>2. UnitsOf(S1) = Cardinality(Pieces(S1))
  BY DEF UnitsOf, Pieces
<1>3. Pieces(S1) = Pieces(S) \union One
  BY DEF Pieces
<1>4. Pieces(S) \intersect One = {}
  BY DEF Pieces
<1>5. IsFiniteSet(One) /\ Cardinality(One) = e.units
  <2> DEFINE n == e.units
             A == {e}
             B == 1..n
  <2>1. n \in Nat /\ n \in Int /\ 1 \in Int
    OBVIOUS
  <2>2. One = A \X B
    OBVIOUS
  <2>3. IsFiniteSet(A) /\ Cardinality(A) = 1
    BY FS_Singleton
  <2> HIDE DEF n
  <2>4. IsFiniteSet(B) /\ Cardinality(B) = n
    <3>1. IsFiniteSet(1..n) /\ Cardinality(1..n) = IF 1 > n THEN 0 ELSE n - 1 + 1
      BY <2>1, FS_Interval
    <3> QED
      BY <2>1, <3>1
  <2> HIDE DEF A, B
  <2>5. IsFiniteSet(A \X B) /\ Cardinality(A \X B) = Cardinality(A) * Cardinality(B)
    BY <2>3, <2>4, FS_Product
  <2> HIDE DEF One
  <2>6. IsFiniteSet(One) /\ Cardinality(One) = n
    BY <2>1, <2>2, <2>3, <2>4, <2>5
  <2> QED
    BY <2>6 DEF n
<1> HIDE DEF One, S1
<1>6. Cardinality(Pieces(S) \union One) =
        Cardinality(Pieces(S)) + Cardinality(One) - Cardinality(Pieces(S) \intersect One)
  BY <1>1, <1>5, FS_Union
<1>7. Cardinality(Pieces(S) \intersect One) = 0
  BY <1>4, FS_EmptySet
<1>8. UnitsOf(S1) = UnitsOf(S) + e.units
  BY <1>1, <1>2, <1>3, <1>5, <1>6, <1>7
<1> QED
  BY <1>1, <1>8 DEF S1

\* One event less takes its units away.
LEMMA UnitsRemove ==
  ASSUME NEW S, IsFiniteSet(S), \A x \in S : x.units \in Nat, NEW e \in S
  PROVE  UnitsOf(S) = UnitsOf(S \ {e}) + e.units /\ UnitsOf(S \ {e}) \in Nat
<1>1. IsFiniteSet(S \ {e})
  BY FS_RemoveElement
<1>2. (S \ {e}) \union {e} = S
  OBVIOUS
<1>3. \A x \in S \ {e} : x.units \in Nat
  OBVIOUS
<1>4. UnitsOf((S \ {e}) \union {e}) = UnitsOf(S \ {e}) + e.units /\ UnitsOf(S \ {e}) \in Nat
  BY <1>1, <1>3, UnitsAdd
<1> QED
  BY <1>2, <1>4

(***************************************************************************)
(* The invariant.                                                          *)
(***************************************************************************)
Holding == {"found", "held", "fresh"}
Locked  == {"locked", "named"} \union Holding

Reserves(k) == {e \in events : e.op = "reserve" /\ e.rkey = k}

\* An entry is in a period that was opened; one that ends a reservation is
\* about a reservation of as many units, in the same period.
EntriesTyped ==
    /\ IsFiniteSet(events)
    /\ \A e \in events :
          /\ quotas[e.period].exists
          /\ e.op = "reserve" => e.rkey = e.key
          /\ e.op = "consume" => e.rkey = NoKey
          /\ e.op \in {"commit", "release"} =>
                \E r \in Reserves(e.rkey) : r.units = e.units /\ r.period = e.period
    /\ \A p \in Periods : quotas[p].exists => quotas[p].limit \in Limits

\* No two entries have the same key, and no reservation two that end it.
EntriesUnique ==
    /\ MeteredOnce
    /\ \A e, f \in events :
          e.op \in {"commit", "release"} /\ f.op \in {"commit", "release"} /\ e.rkey = f.rkey => e = f

\* What a transaction knows at each of its steps.
KnowsItsRow(t) ==
    /\ pc[t] # "idle" => req[t] \in Requests
    /\ pc[t] # "idle" /\ IsCharge(t) => bucket[t] \in Periods
    /\ pc[t] \in {"named", "found"} => ~IsCharge(t)
    /\ pc[t] \in Holding /\ ~IsCharge(t) =>
          \E r \in Reserves(req[t].rkey) : r.units = req[t].units /\ r.period = bucket[t]
    /\ pc[t] \in {"named"} \union Holding /\ ~IsCharge(t) => SameKey(t) = {}
    /\ pc[t] \in {"held", "fresh"} => Row(t).exists \/ req[t].limit # NoLimit
    /\ pc[t] = "fresh" => req[t].limit \in {NoLimit, LimitOf(t)} /\ ~Replayed(t)

\* The three locks exclude.
Excludes(t, u) ==
    /\ pc[t] \in Locked /\ pc[u] \in Locked =>
          <<req[t].op, req[t].key>> # <<req[u].op, req[u].key>>
    /\ pc[t] \in Holding /\ pc[u] \in Holding /\ ~IsCharge(t) /\ ~IsCharge(u) =>
          req[t].rkey # req[u].rkey
    /\ pc[t] \in {"held", "fresh"} /\ pc[u] \in {"held", "fresh"} => bucket[t] # bucket[u]

LocksExclude == \A t, u \in Txns : t # u => Excludes(t, u)

LedgerInv ==
    /\ TablesOK
    /\ EntriesTyped
    /\ EntriesUnique
    /\ \A t \in Txns : KnowsItsRow(t)
    /\ LocksExclude
    /\ CountersAreSums
    /\ NeverOversold

(***************************************************************************)
(* Steps that leave the tables alone.                                      *)
(***************************************************************************)
\* One transaction goes on, or breaks off.
LEMMA QuietStep ==
  ASSUME LedgerInv, NEW t \in Txns, UNCHANGED <<quotas, events, period>>,
         NEW to \in Steps, NEW r \in Requests \union {NoRequest}, NEW p \in Periods \union {0},
         pc' = [pc EXCEPT ![t] = to], req' = [req EXCEPT ![t] = r],
         bucket' = [bucket EXCEPT ![t] = p],
         KnowsItsRow(t)', \A u \in Txns \ {t} : Excludes(t, u)'
  PROVE  LedgerInv'
<1>1. /\ pc' \in [Txns -> Steps] /\ req' \in [Txns -> Requests \union {NoRequest}]
      /\ bucket' \in [Txns -> Periods \union {0}]
      /\ \A u \in Txns \ {t} : pc'[u] = pc[u] /\ req'[u] = req[u] /\ bucket'[u] = bucket[u]
  BY DEF LedgerInv, TablesOK
<1>2. TablesOK'
  BY <1>1 DEF LedgerInv, TablesOK
<1>3. EntriesTyped' /\ EntriesUnique' /\ CountersAreSums' /\ NeverOversold'
  BY DEF LedgerInv, EntriesTyped, EntriesUnique, MeteredOnce, Reserves, CountersAreSums, SpentIn,
         OpenIn, Ended, NeverOversold
<1>4. \A u \in Txns : KnowsItsRow(u)'
  <2> SUFFICES ASSUME NEW u \in Txns \ {t} PROVE KnowsItsRow(u)'
    OBVIOUS
  <2>1. KnowsItsRow(u)
    BY DEF LedgerInv
  <2> QED
    BY <1>1, <2>1 DEF KnowsItsRow, IsCharge, Reserves, SameKey, Row, LimitOf, Replayed, SamePrint,
                      Terminal
<1>5. LocksExclude'
  <2> SUFFICES ASSUME NEW u \in Txns, NEW v \in Txns, u # v PROVE Excludes(u, v)'
    BY DEF LocksExclude
  <2>1. CASE u = t
    BY <2>1
  <2>2. CASE v = t
    <3>1. Excludes(v, u)'
      BY <2>2
    <3> QED
      BY <3>1 DEF Excludes
  <2>3. CASE u # t /\ v # t
    <3>1. Excludes(u, v)
      BY DEF LedgerInv, LocksExclude
    <3> QED
      BY <1>1, <2>3, <3>1 DEF Excludes, IsCharge
  <2> QED
    BY <2>1, <2>2, <2>3
<1> QED
  BY <1>2, <1>3, <1>4, <1>5 DEF LedgerInv

\* A transaction ends without a commit.
LEMMA EndStep ==
  ASSUME LedgerInv, NEW t \in Txns, End(t), UNCHANGED tables
  PROVE  LedgerInv'
<1>1. /\ UNCHANGED <<quotas, events, period>>
      /\ pc' = [pc EXCEPT ![t] = "idle"] /\ req' = [req EXCEPT ![t] = NoRequest]
      /\ bucket' = [bucket EXCEPT ![t] = 0]
  BY DEF End, tables
<1>2. pc'[t] = "idle"
  BY <1>1 DEF LedgerInv, TablesOK
<1>3. KnowsItsRow(t)' /\ \A u \in Txns \ {t} : Excludes(t, u)'
  BY <1>2 DEF KnowsItsRow, Excludes, Holding, Locked
<1>4. "idle" \in Steps
  BY DEF Steps
<1> QED
  BY <1>1, <1>3, <1>4, QuietStep

\* A request begins.
LEMMA BeginStep ==
  ASSUME LedgerInv, NEW t \in Txns, Begin(t)
  PROVE  LedgerInv'
<1>1. PICK r \in Requests : req' = [req EXCEPT ![t] = r]
  BY DEF Begin
<1>2. /\ pc' = [pc EXCEPT ![t] = "waiting"] /\ UNCHANGED <<quotas, events, period>>
      /\ pc'[t] = "waiting" /\ req'[t] = r
  BY <1>1 DEF Begin, GoTo, tables, LedgerInv, TablesOK
<1> DEFINE p == IF r.op \in Charges THEN period ELSE 0
<1>3. /\ bucket' = [bucket EXCEPT ![t] = p] /\ bucket'[t] = p /\ p \in Periods \union {0}
      /\ r.op \in Charges => p \in Periods
  BY <1>2 DEF Begin, LedgerInv, TablesOK
<1> HIDE DEF p
<1>4. KnowsItsRow(t)' /\ \A u \in Txns \ {t} : Excludes(t, u)'
  BY <1>2, <1>3 DEF KnowsItsRow, Excludes, IsCharge, Holding, Locked
<1>5. "waiting" \in Steps
  BY DEF Steps
<1> QED
  BY <1>1, <1>2, <1>3, <1>4, <1>5, QuietStep

\* A step that changes only where a transaction is.
LEMMA MoveStep ==
  ASSUME LedgerInv, NEW t \in Txns, NEW to \in Steps, pc' = [pc EXCEPT ![t] = to],
         UNCHANGED <<quotas, events, period, req, bucket>>,
         KnowsItsRow(t)', \A u \in Txns \ {t} : Excludes(t, u)'
  PROVE  LedgerInv'
<1>1. /\ req' = [req EXCEPT ![t] = req[t]] /\ bucket' = [bucket EXCEPT ![t] = bucket[t]]
      /\ req[t] \in Requests \union {NoRequest} /\ bucket[t] \in Periods \union {0}
  BY DEF LedgerInv, TablesOK
<1> QED
  BY <1>1, QuietStep

\* Where the others are, and what is known about them.
LEMMA MovedTo ==
  ASSUME LedgerInv, NEW t \in Txns, NEW to, pc' = [pc EXCEPT ![t] = to]
  PROVE  pc'[t] = to /\ \A u \in Txns \ {t} : pc'[u] = pc[u] /\ Excludes(t, u)
BY DEF LedgerInv, TablesOK, LocksExclude

\* The lock on the request key is taken.
LEMMA LockKeyStep ==
  ASSUME LedgerInv, NEW t \in Txns, LockKey(t)
  PROVE  LedgerInv'
<1>1. /\ pc[t] = "waiting" /\ pc' = [pc EXCEPT ![t] = "locked"] /\ KeyFree(t)
      /\ UNCHANGED <<quotas, events, period, req, bucket>>
  BY DEF LockKey, GoTo, tables
<1>2. pc'[t] = "locked" /\ \A u \in Txns \ {t} : pc'[u] = pc[u]
  BY <1>1, MovedTo
<1>3. KnowsItsRow(t)
  BY DEF LedgerInv
<1>4. KnowsItsRow(t)'
  BY <1>1, <1>2, <1>3 DEF KnowsItsRow, IsCharge, Holding
<1>5. \A u \in Txns \ {t} : Excludes(t, u)'
  BY <1>1, <1>2 DEF KeyFree, Excludes, Holding, Locked
<1>6. "locked" \in Steps
  BY DEF Steps
<1> QED
  BY <1>1, <1>4, <1>5, <1>6, MoveStep

\* A transition whose key is new goes on to its reservation.
LEMMA TransitionNewStep ==
  ASSUME LedgerInv, NEW t \in Txns, TransitionNew(t)
  PROVE  LedgerInv'
<1>1. /\ pc[t] = "locked" /\ pc' = [pc EXCEPT ![t] = "named"] /\ ~IsCharge(t) /\ SameKey(t) = {}
      /\ UNCHANGED <<quotas, events, period, req, bucket>>
  BY DEF TransitionNew, GoTo, tables
<1>2. pc'[t] = "named" /\ \A u \in Txns \ {t} : pc'[u] = pc[u] /\ Excludes(t, u)
  BY <1>1, MovedTo
<1>3. KnowsItsRow(t)
  BY DEF LedgerInv
<1>4. KnowsItsRow(t)'
  BY <1>1, <1>2, <1>3 DEF KnowsItsRow, IsCharge, Holding, SameKey
<1>5. \A u \in Txns \ {t} : Excludes(t, u)'
  BY <1>1, <1>2 DEF Excludes, Holding, Locked, IsCharge
<1>6. "named" \in Steps
  BY DEF Steps
<1> QED
  BY <1>1, <1>4, <1>5, <1>6, MoveStep

\* The reservation is found and locked.
LEMMA LockReservationStep ==
  ASSUME LedgerInv, NEW t \in Txns, LockReservation(t)
  PROVE  LedgerInv'
<1>1. /\ pc[t] = "named" /\ pc' = [pc EXCEPT ![t] = "found"] /\ ReservationFree(t)
      /\ UNCHANGED <<quotas, events, period, req>>
  BY DEF LockReservation, GoTo, tables
<1>2. PICK e \in Reservation(t) :
         e.units = req[t].units /\ bucket' = [bucket EXCEPT ![t] = e.period]
  BY DEF LockReservation
<1>3. pc'[t] = "found" /\ \A u \in Txns \ {t} : pc'[u] = pc[u] /\ Excludes(t, u)
  BY <1>1, MovedTo
<1>4. /\ e \in Reserves(req[t].rkey) /\ e.period \in Periods
      /\ bucket'[t] = e.period /\ \A u \in Txns \ {t} : bucket'[u] = bucket[u]
  BY <1>2 DEF Reservation, Reserves, LedgerInv, TablesOK, Event
<1>5. KnowsItsRow(t)
  BY DEF LedgerInv
<1>6. KnowsItsRow(t)'
  BY <1>1, <1>2, <1>3, <1>4, <1>5 DEF KnowsItsRow, IsCharge, Holding, SameKey, Reserves
<1>7. \A u \in Txns \ {t} : Excludes(t, u)'
  BY <1>1, <1>3 DEF Excludes, Holding, Locked, IsCharge, ReservationFree
<1>8. /\ req' = [req EXCEPT ![t] = req[t]] /\ req[t] \in Requests \union {NoRequest}
      /\ e.period \in Periods \union {0} /\ "found" \in Steps
  BY <1>1, <1>4 DEF LedgerInv, TablesOK, Steps
<1> QED
  BY <1>1, <1>2, <1>6, <1>7, <1>8, QuietStep

\* The counter's row is locked.
LEMMA TakeRowStep ==
  ASSUME LedgerInv, NEW t \in Txns, TakeRow(t)
  PROVE  LedgerInv'
<1>1. /\ AtRow(t) /\ pc' = [pc EXCEPT ![t] = "held"] /\ RowFree(t)
      /\ Row(t).exists \/ req[t].limit # NoLimit
      /\ UNCHANGED <<quotas, events, period, req, bucket>>
  BY DEF TakeRow, tables
<1>2. pc'[t] = "held" /\ \A u \in Txns \ {t} : pc'[u] = pc[u] /\ Excludes(t, u)
  BY <1>1, MovedTo
<1>3. KnowsItsRow(t)
  BY DEF LedgerInv
<1>4. KnowsItsRow(t)'
  BY <1>1, <1>2, <1>3 DEF KnowsItsRow, AtRow, IsCharge, Holding, SameKey, Reserves, Row
<1>5. \A u \in Txns \ {t} : Excludes(t, u)'
  BY <1>1, <1>2 DEF AtRow, RowFree, Excludes, Holding, Locked, IsCharge
<1>6. "held" \in Steps
  BY DEF Steps
<1> QED
  BY <1>1, <1>4, <1>5, <1>6, MoveStep

\* Nothing in the books stands against the request.
LEMMA AcceptStep ==
  ASSUME LedgerInv, NEW t \in Txns, Accept(t)
  PROVE  LedgerInv'
<1>1. /\ pc[t] = "held" /\ pc' = [pc EXCEPT ![t] = "fresh"]
      /\ req[t].limit \in {NoLimit, LimitOf(t)} /\ ~Replayed(t)
      /\ UNCHANGED <<quotas, events, period, req, bucket>>
  BY DEF Accept, GoTo, tables
<1>2. pc'[t] = "fresh" /\ \A u \in Txns \ {t} : pc'[u] = pc[u] /\ Excludes(t, u)
  BY <1>1, MovedTo
<1>3. KnowsItsRow(t)
  BY DEF LedgerInv
<1>4. KnowsItsRow(t)'
  <2>1. /\ IsCharge(t)' = IsCharge(t) /\ SameKey(t)' = SameKey(t) /\ Row(t)' = Row(t)
        /\ LimitOf(t)' = LimitOf(t) /\ Replayed(t)' = Replayed(t)
    BY <1>1 DEF IsCharge, SameKey, Row, LimitOf, Replayed, SamePrint, Terminal
  <2> QED
    BY <1>1, <1>2, <1>3, <2>1 DEF KnowsItsRow, Holding, Reserves
<1>5. \A u \in Txns \ {t} : Excludes(t, u)'
  BY <1>1, <1>2 DEF Excludes, Holding, Locked, IsCharge
<1>6. "fresh" \in Steps
  BY DEF Steps
<1> QED
  BY <1>1, <1>4, <1>5, <1>6, MoveStep

(***************************************************************************)
(* A commit.                                                               *)
(***************************************************************************)
\* What a transaction that commits knows: its request, its period, and that
\* no entry has its key.
LEMMA Committing ==
  ASSUME LedgerInv, NEW t \in Txns, Commit(t)
  PROVE  /\ req[t] \in Requests /\ req[t] \in Request /\ req[t].units \in Nat \ {0}
         /\ bucket[t] \in Periods /\ Row(t) \in Quota
         /\ NewEvent(t) \in Event /\ SameKey(t) = {} /\ NewEvent(t) \notin events
         /\ ~Replayed(t) /\ HasCapacity(t)
         /\ LimitOf(t) \in Limits /\ LimitOf(t) \in Nat
         /\ ~IsCharge(t) => /\ Row(t).exists
                            /\ \E r \in Reserves(req[t].rkey) :
                                  r.units = req[t].units /\ r.period = bucket[t]
<1>1. pc[t] = "fresh" /\ HasCapacity(t)
  BY DEF Commit
<1>2. /\ KnowsItsRow(t) /\ req[t] \in Requests /\ ~Replayed(t)
      /\ req[t].limit \in {NoLimit, LimitOf(t)} /\ (Row(t).exists \/ req[t].limit # NoLimit)
  BY <1>1 DEF LedgerInv, KnowsItsRow
<1>3. req[t] \in Request /\ req[t].units \in Nat \ {0}
  BY <1>2, LedgerAssumption DEF Request
<1>4. SameKey(t) = {}
  <2>1. CASE IsCharge(t)
    BY <1>2, <2>1 DEF Replayed
  <2>2. CASE ~IsCharge(t)
    BY <1>1, <1>2, <2>2 DEF KnowsItsRow, Holding
  <2> QED
    BY <2>1, <2>2
<1>5. ~IsCharge(t) => \E r \in Reserves(req[t].rkey) :
                         r.units = req[t].units /\ r.period = bucket[t]
  BY <1>1, <1>2 DEF KnowsItsRow, Holding
<1>6. bucket[t] \in Periods /\ (~IsCharge(t) => Row(t).exists)
  <2>1. CASE IsCharge(t)
    BY <1>1, <1>2, <2>1 DEF KnowsItsRow
  <2>2. CASE ~IsCharge(t)
    <3>1. PICK r \in events : r.period = bucket[t]
      BY <1>5, <2>2 DEF Reserves
    <3> QED
      BY <3>1 DEF LedgerInv, TablesOK, Event, EntriesTyped, Row
  <2> QED
    BY <2>1, <2>2
<1>7. Row(t) \in Quota
  BY <1>6 DEF LedgerInv, TablesOK, Row
<1>8. NewEvent(t) \in Event /\ NewEvent(t) \notin events
  <2>1. NewEvent(t) \in Event
    BY <1>3, <1>6 DEF NewEvent, Event, Request
  <2>2. NewEvent(t).op = req[t].op /\ NewEvent(t).key = req[t].key
    BY DEF NewEvent
  <2> QED
    BY <1>4, <2>1, <2>2 DEF SameKey
<1>9. LimitOf(t) \in Limits
  <2>1. CASE Row(t).exists
    BY <1>6, <2>1 DEF LimitOf, Row, LedgerInv, EntriesTyped
  <2>2. CASE ~Row(t).exists
    BY <1>2, <1>3, <2>2 DEF LimitOf, Request
  <2> QED
    BY <2>1, <2>2
<1> QED
  BY <1>1, <1>2, <1>3, <1>4, <1>5, <1>6, <1>7, <1>8, <1>9, LedgerAssumption

\* What it makes of the row.
LEMMA RowUpdated ==
  ASSUME LedgerInv, NEW t \in Txns, Commit(t)
  PROVE  /\ quotas' \in [Periods -> Quota]
         /\ \A q \in Periods : q # bucket[t] => quotas'[q] = quotas[q]
         /\ quotas' = [quotas EXCEPT ![bucket[t]] = Updated(t)]
         /\ quotas'[bucket[t]] = Updated(t)
         /\ Updated(t).exists /\ Updated(t).limit = LimitOf(t)
         /\ Updated(t).consumed + Updated(t).reserved <= LimitOf(t)
         /\ req[t].op = "consume" =>
              /\ Updated(t).consumed = Row(t).consumed + req[t].units
              /\ Updated(t).reserved = Row(t).reserved
         /\ req[t].op = "reserve" =>
              /\ Updated(t).consumed = Row(t).consumed
              /\ Updated(t).reserved = Row(t).reserved + req[t].units
         /\ req[t].op = "commit" =>
              /\ Updated(t).consumed = Row(t).consumed + req[t].units
              /\ Updated(t).reserved = Row(t).reserved - req[t].units
         /\ req[t].op = "release" =>
              /\ Updated(t).consumed = Row(t).consumed
              /\ Updated(t).reserved = Row(t).reserved - req[t].units
<1> DEFINE n == req[t].units
           row == Row(t)
           lim == LimitOf(t)
           new == Updated(t)
<1>1. /\ n \in Nat \ {0} /\ row \in Quota /\ lim \in Limits /\ lim \in Nat /\ bucket[t] \in Periods
      /\ req[t].op \in Ops
      /\ ~IsCharge(t) => Row(t).exists
  BY Committing DEF Request
<1>2. HasCapacity(t)
  BY DEF Commit
<1>3. row.consumed \in Nat /\ row.reserved \in Nat
  BY <1>1 DEF Quota
<1>4. ~IsCharge(t) => row.consumed + row.reserved <= lim
  <2>1. row.consumed + row.reserved <= row.limit
    BY <1>1 DEF LedgerInv, NeverOversold, Row
  <2> QED
    BY <1>1, <2>1 DEF LimitOf
<1> DEFINE base == [row EXCEPT !.exists = TRUE, !.limit = lim]
<1>5. /\ base \in Quota /\ base.exists /\ base.limit = lim
      /\ base.consumed = row.consumed /\ base.reserved = row.reserved
  <2> HIDE DEF row, lim
  <2>1. row \in [exists : BOOLEAN, limit : Limits \union {0}, consumed : Nat, reserved : Nat]
    BY <1>1 DEF Quota
  <2>2. base \in [exists : BOOLEAN, limit : Limits \union {0}, consumed : Nat, reserved : Nat]
    BY <1>1, <2>1
  <2> QED
    BY <2>1, <2>2 DEF Quota
<1>6. /\ IsCharge(t) => row.consumed + row.reserved + n <= lim
      /\ ~IsCharge(t) => row.reserved >= n
  BY <1>2 DEF HasCapacity
<1>7. /\ req[t].op \in {"consume", "reserve"} <=> IsCharge(t)
      /\ req[t].op \in {"consume", "reserve", "commit", "release"}
  BY <1>1 DEF IsCharge, Charges, Ops
<1>8. new = CASE req[t].op = "consume" -> [base EXCEPT !.consumed = @ + n]
              [] req[t].op = "reserve" -> [base EXCEPT !.reserved = @ + n]
              [] req[t].op = "commit"  -> [base EXCEPT !.reserved = @ - n, !.consumed = @ + n]
              [] req[t].op = "release" -> [base EXCEPT !.reserved = @ - n]
  BY DEF Updated
<1> HIDE DEF base, new, row, n, lim
<1>9. /\ new \in Quota /\ new.exists /\ new.limit = lim
      /\ new.consumed + new.reserved <= lim
      /\ req[t].op = "consume" => new.consumed = row.consumed + n /\ new.reserved = row.reserved
      /\ req[t].op = "reserve" => new.consumed = row.consumed /\ new.reserved = row.reserved + n
      /\ req[t].op = "commit" => new.consumed = row.consumed + n /\ new.reserved = row.reserved - n
      /\ req[t].op = "release" => new.consumed = row.consumed /\ new.reserved = row.reserved - n
  <2> USE <1>1, <1>3, <1>4, <1>5, <1>6, <1>7
  <2>1. CASE req[t].op = "consume"
    <3>1. new = [base EXCEPT !.consumed = @ + n]
      BY <1>8, <2>1
    <3>2. new \in Quota /\ new.exists /\ new.limit = lim
          /\ new.consumed = row.consumed + n /\ new.reserved = row.reserved
      BY <3>1 DEF Quota
    <3> QED
      BY <2>1, <3>2
  <2>2. CASE req[t].op = "reserve"
    <3>1. new = [base EXCEPT !.reserved = @ + n]
      BY <1>8, <2>2
    <3>2. new \in Quota /\ new.exists /\ new.limit = lim
          /\ new.consumed = row.consumed /\ new.reserved = row.reserved + n
      BY <3>1 DEF Quota
    <3> QED
      BY <2>2, <3>2
  <2>3. CASE req[t].op = "commit"
    <3>1. new = [base EXCEPT !.reserved = @ - n, !.consumed = @ + n]
      BY <1>8, <2>3
    <3>2. row.reserved - n \in Nat
      BY <2>3
    <3> DEFINE mid == [base EXCEPT !.reserved = @ - n]
    <3>3. new = [mid EXCEPT !.consumed = @ + n]
      BY <3>1
    <3>4. mid \in Quota /\ mid.exists /\ mid.limit = lim
          /\ mid.consumed = row.consumed /\ mid.reserved = row.reserved - n
      BY <3>2 DEF Quota
    <3> HIDE DEF mid
    <3>5. new \in Quota /\ new.exists /\ new.limit = lim
          /\ new.consumed = row.consumed + n /\ new.reserved = row.reserved - n
      BY <3>3, <3>4 DEF Quota
    <3> QED
      BY <2>3, <3>5
  <2>4. CASE req[t].op = "release"
    <3>1. new = [base EXCEPT !.reserved = @ - n]
      BY <1>8, <2>4
    <3>2. row.reserved - n \in Nat
      BY <2>4
    <3>3. new \in Quota /\ new.exists /\ new.limit = lim
          /\ new.consumed = row.consumed /\ new.reserved = row.reserved - n
      BY <3>1, <3>2 DEF Quota
    <3> QED
      BY <2>4, <3>2, <3>3
  <2> QED
    BY <2>1, <2>2, <2>3, <2>4
<1>10. quotas' = [quotas EXCEPT ![bucket[t]] = new] /\ quotas \in [Periods -> Quota]
  BY DEF Commit, new, LedgerInv, TablesOK
<1>11. /\ quotas' \in [Periods -> Quota]
       /\ \A q \in Periods : q # bucket[t] => quotas'[q] = quotas[q]
       /\ quotas'[bucket[t]] = new
  BY <1>1, <1>9, <1>10
<1> QED
  BY <1>9, <1>10, <1>11 DEF new, row, n, lim

\* The books after it.
LEMMA CommitEntries ==
  ASSUME LedgerInv, NEW t \in Txns, Commit(t)
  PROVE  EntriesTyped' /\ EntriesUnique'
<1> DEFINE e == NewEvent(t)
           r == req[t]
<1>1. /\ events' = events \union {e}
      /\ e.op = r.op /\ e.key = r.key /\ e.units = r.units /\ e.rkey = r.rkey
      /\ e.period = bucket[t]
  BY DEF Commit, NewEvent
<1>2. /\ r \in Requests /\ bucket[t] \in Periods /\ SameKey(t) = {} /\ ~Replayed(t)
      /\ LimitOf(t) \in Limits
      /\ ~IsCharge(t) => \E s \in Reserves(r.rkey) : s.units = r.units /\ s.period = bucket[t]
  BY Committing
<1>3. /\ \A q \in Periods : q # bucket[t] => quotas'[q] = quotas[q]
      /\ quotas'[bucket[t]].exists /\ quotas'[bucket[t]].limit = LimitOf(t)
  BY RowUpdated
<1>4. r.op \in Ops /\ (r.op = "consume" => r.rkey = NoKey) /\ (r.op = "reserve" => r.rkey = r.key)
      /\ (IsCharge(t) <=> r.op \in {"consume", "reserve"})
  BY <1>2, LedgerAssumption DEF Request, IsCharge, Charges
<1>5. EntriesTyped /\ EntriesUnique /\ \A f \in events : f.period \in Periods
  BY DEF LedgerInv, TablesOK, Event
<1> HIDE DEF e, r
<1>6. EntriesTyped'
  <2>1. IsFiniteSet(events')
    BY <1>1, <1>5, FS_AddElement DEF EntriesTyped
  <2>2. \A f \in events' : quotas'[f.period].exists
    BY <1>1, <1>3, <1>5 DEF EntriesTyped
  <2>3. \A f \in events' : (f.op = "reserve" => f.rkey = f.key) /\ (f.op = "consume" => f.rkey = NoKey)
    BY <1>1, <1>4, <1>5 DEF EntriesTyped
  <2>4. ASSUME NEW f \in events', f.op \in {"commit", "release"}
        PROVE  \E s \in Reserves(f.rkey)' : s.units = f.units /\ s.period = f.period
    <3>1. \A k : Reserves(k) \subseteq Reserves(k)'
      BY <1>1 DEF Reserves
    <3>2. CASE f \in events
      BY <1>5, <2>4, <3>1, <3>2 DEF EntriesTyped
    <3>3. CASE f = e
      BY <1>1, <1>2, <1>4, <2>4, <3>1, <3>3
    <3> QED
      BY <1>1, <3>2, <3>3
  <2>5. \A q \in Periods : quotas'[q].exists => quotas'[q].limit \in Limits
    BY <1>2, <1>3, <1>5 DEF EntriesTyped
  <2> QED
    BY <2>1, <2>2, <2>3, <2>4, <2>5 DEF EntriesTyped
<1>7. ASSUME NEW f \in events
      PROVE  /\ ~(f.op = e.op /\ f.key = e.key)
             /\ ~(f.op = e.op /\ f.units = e.units /\ f.rkey = e.rkey /\ f.period = e.period)
             /\ ~(/\ f.op \in {"commit", "release"} /\ e.op \in {"commit", "release"}
                  /\ f.rkey = e.rkey)
  <2>1. ~(f.op = e.op /\ f.key = e.key)
    BY <1>1, <1>2 DEF SameKey, r
  <2>2. CASE IsCharge(t)
    <3>1. ~SamePrint(t, f)
      BY <1>2, <2>2 DEF Replayed
    <3> QED
      BY <1>1, <1>4, <2>1, <2>2, <3>1 DEF SamePrint, r
  <2>3. CASE ~IsCharge(t)
    <3>1. ~Terminal(t)
      BY <1>2, <2>3 DEF Replayed
    <3>2. e.op \in {"commit", "release"}
      BY <1>1, <1>4, <2>3 DEF Ops
    <3> QED
      BY <1>1, <2>1, <3>1, <3>2 DEF Terminal, r
  <2> QED
    BY <2>2, <2>3
<1>8. EntriesUnique'
  BY <1>1, <1>5, <1>7 DEF EntriesUnique, MeteredOnce
<1> QED
  BY <1>6, <1>8

\* The sums after it.
LEMMA CommitSums ==
  ASSUME LedgerInv, NEW t \in Txns, Commit(t)
  PROVE  CountersAreSums'
<1> SUFFICES ASSUME NEW e, NEW r, NEW n, NEW p, NEW k0,
                    e = NewEvent(t), r = req[t], n = req[t].units, p = bucket[t], k0 = req[t].rkey
             PROVE  CountersAreSums'
  OBVIOUS
<1>1. /\ events' = events \union {e} /\ e \notin events
      /\ e.op = r.op /\ e.key = r.key /\ e.units = n /\ e.rkey = k0 /\ e.period = p
  BY Committing DEF Commit, NewEvent
<1>2. /\ r \in Requests /\ n \in Nat /\ p \in Periods /\ SameKey(t) = {} /\ ~Replayed(t)
      /\ ~IsCharge(t) => \E s \in Reserves(k0) : s.units = n /\ s.period = p
  BY Committing
<1>3. /\ \A q \in Periods : q # p => quotas'[q] = quotas[q]
      /\ quotas'[p] = Updated(t) /\ Row(t) = quotas[p]
      /\ r.op = "consume" => quotas'[p].consumed = quotas[p].consumed + n
                             /\ quotas'[p].reserved = quotas[p].reserved
      /\ r.op = "reserve" => quotas'[p].consumed = quotas[p].consumed
                             /\ quotas'[p].reserved = quotas[p].reserved + n
      /\ r.op = "commit" => quotas'[p].consumed = quotas[p].consumed + n
                            /\ quotas'[p].reserved = quotas[p].reserved - n
      /\ r.op = "release" => quotas'[p].consumed = quotas[p].consumed
                             /\ quotas'[p].reserved = quotas[p].reserved - n
  BY RowUpdated DEF Row
<1>4. /\ r.op \in {"consume", "reserve", "commit", "release"}
      /\ r.op = "reserve" => k0 = r.key
      /\ IsCharge(t) <=> r.op \in {"consume", "reserve"}
  BY <1>2, LedgerAssumption DEF Request, Ops, IsCharge, Charges
<1>5. /\ EntriesTyped /\ EntriesUnique /\ CountersAreSums
      /\ \A f \in events : f.period \in Periods /\ f.units \in Nat /\ f.op \in Ops
      /\ \A q \in Periods : quotas[q].consumed \in Nat /\ quotas[q].reserved \in Nat
  BY LedgerAssumption DEF LedgerInv, TablesOK, Event, Quota
<1>6. \A q : /\ IsFiniteSet(SpentIn(q)) /\ \A f \in SpentIn(q) : f.units \in Nat
             /\ IsFiniteSet(OpenIn(q)) /\ \A f \in OpenIn(q) : f.units \in Nat
             /\ e \notin SpentIn(q) /\ e \notin OpenIn(q)
  <2> SUFFICES ASSUME NEW q
               PROVE  /\ IsFiniteSet(SpentIn(q)) /\ \A f \in SpentIn(q) : f.units \in Nat
                      /\ IsFiniteSet(OpenIn(q)) /\ \A f \in OpenIn(q) : f.units \in Nat
                      /\ e \notin SpentIn(q) /\ e \notin OpenIn(q)
    OBVIOUS
  <2>1. IsFiniteSet(events)
    BY <1>5 DEF EntriesTyped
  <2>2. SpentIn(q) \subseteq events /\ OpenIn(q) \subseteq events
    BY DEF SpentIn, OpenIn
  <2> QED
    BY <1>1, <1>5, <2>1, <2>2, FS_Subset
<1>7. /\ r.op \in {"consume", "commit"} => SpentIn(p)' = SpentIn(p) \union {e}
      /\ r.op \notin {"consume", "commit"} => SpentIn(p)' = SpentIn(p)
      /\ \A q \in Periods : q # p => SpentIn(q)' = SpentIn(q)
  BY <1>1 DEF SpentIn
<1>8. \A k : Ended(k)' = IF r.op \in {"commit", "release"} /\ k0 = k
                         THEN Ended(k) \union {e} ELSE Ended(k)
  BY <1>1 DEF Ended
<1>9. CASE r.op \in {"consume", "reserve"}
  <2>1. \A k : Ended(k)' = Ended(k)
    BY <1>8, <1>9
  <2>2. r.op = "reserve" => Ended(k0) = {}
    <3> SUFFICES ASSUME r.op = "reserve", NEW f \in Ended(k0) PROVE FALSE
      OBVIOUS
    <3>1. PICK s \in Reserves(f.rkey) : TRUE
      BY <1>5 DEF EntriesTyped, Ended
    <3>2. s \in events /\ s.op = "reserve" /\ s.key = s.rkey /\ s.rkey = r.key
      BY <1>1, <1>4, <1>5, <3>1 DEF EntriesTyped, Ended, Reserves
    <3> QED
      BY <1>2, <3>2 DEF SameKey
  <2>3. /\ r.op = "consume" => \A q \in Periods : OpenIn(q)' = OpenIn(q)
        /\ r.op = "reserve" => /\ OpenIn(p)' = OpenIn(p) \union {e}
                               /\ \A q \in Periods : q # p => OpenIn(q)' = OpenIn(q)
    BY <1>1, <2>1, <2>2 DEF OpenIn
  <2>4. /\ UnitsOf(SpentIn(p) \union {e}) = UnitsOf(SpentIn(p)) + n
        /\ UnitsOf(OpenIn(p) \union {e}) = UnitsOf(OpenIn(p)) + n
    BY <1>1, <1>2, <1>6, UnitsAdd
  <2>5. ASSUME NEW q \in Periods
        PROVE  quotas'[q].consumed = UnitsOf(SpentIn(q)') /\ quotas'[q].reserved = UnitsOf(OpenIn(q)')
    <3>1. CASE q # p
      BY <1>3, <1>5, <1>7, <1>9, <2>3, <3>1 DEF CountersAreSums
    <3>2. CASE q = p
      BY <1>2, <1>3, <1>5, <1>7, <1>9, <2>3, <2>4, <3>2 DEF CountersAreSums
    <3> QED
      BY <3>1, <3>2
  <2> QED
    BY <2>5 DEF CountersAreSums, UnitsOf
<1>10. CASE r.op \in {"commit", "release"}
  <2>1. PICK s \in Reserves(k0) : s.units = n /\ s.period = p
    BY <1>2, <1>4, <1>10
  <2>2. Ended(k0) = {}
    <3>1. ~Terminal(t)
      BY <1>2, <1>4, <1>10 DEF Replayed
    <3> QED
      BY <3>1 DEF Terminal, Ended
  <2>3. s \in events /\ s.op = "reserve" /\ s.rkey = k0 /\ s \in OpenIn(p)
    BY <2>1, <2>2 DEF Reserves, OpenIn
  <2>4. \A f \in events : f.op = "reserve" /\ f.rkey = k0 => f = s
    BY <1>5, <2>3 DEF EntriesTyped, EntriesUnique, MeteredOnce
  <2>5. \A k : k # k0 => Ended(k)' = Ended(k)
    BY <1>8
  <2>6. e \in Ended(k0)'
    BY <1>8, <1>10
  <2>7. OpenIn(p)' = OpenIn(p) \ {s} /\ \A q \in Periods : q # p => OpenIn(q)' = OpenIn(q)
    <3>1. ASSUME NEW q \in Periods, NEW f \in OpenIn(q)' PROVE f \in OpenIn(q) /\ f # s
      BY <1>1, <1>10, <2>3, <2>5, <2>6, <3>1 DEF OpenIn
    <3>2. ASSUME NEW q \in Periods, NEW f \in OpenIn(q), f # s PROVE f \in OpenIn(q)'
      <4>1. f.rkey # k0
        BY <2>4, <3>2 DEF OpenIn
      <4> QED
        BY <1>1, <2>5, <3>2, <4>1 DEF OpenIn
    <3>3. \A q \in Periods : q # p => s \notin OpenIn(q)
      BY <2>1 DEF OpenIn
    <3> QED
      BY <1>2, <3>1, <3>2, <3>3
  <2>8. /\ UnitsOf(SpentIn(p) \union {e}) = UnitsOf(SpentIn(p)) + n
        /\ UnitsOf(OpenIn(p)) = UnitsOf(OpenIn(p) \ {s}) + n
        /\ UnitsOf(OpenIn(p) \ {s}) \in Nat
    BY <1>1, <1>2, <1>6, <2>1, <2>3, UnitsAdd, UnitsRemove
  <2>9. ASSUME NEW q \in Periods
        PROVE  quotas'[q].consumed = UnitsOf(SpentIn(q)') /\ quotas'[q].reserved = UnitsOf(OpenIn(q)')
    <3>1. CASE q # p
      BY <1>3, <1>5, <1>7, <2>7, <3>1 DEF CountersAreSums
    <3>2. CASE q = p
      <4>1. quotas'[p].consumed = UnitsOf(SpentIn(p)')
        BY <1>2, <1>3, <1>5, <1>7, <1>10, <2>8 DEF CountersAreSums
      <4>2. quotas'[p].reserved = UnitsOf(OpenIn(p)')
        BY <1>2, <1>3, <1>5, <1>10, <2>7, <2>8 DEF CountersAreSums
      <4> QED
        BY <3>2, <4>1, <4>2
    <3> QED
      BY <3>1, <3>2
  <2> QED
    BY <2>9 DEF CountersAreSums, UnitsOf
<1> QED
  BY <1>4, <1>9, <1>10

\* What the others know after it.
LEMMA CommitKnows ==
  ASSUME LedgerInv, NEW t \in Txns, Commit(t), NEW u \in Txns \ {t}
  PROVE  KnowsItsRow(u)'
<1>1. /\ pc'[u] = pc[u] /\ req'[u] = req[u] /\ bucket'[u] = bucket[u] /\ pc[t] = "fresh"
  BY DEF Commit, End, LedgerInv, TablesOK
<1>2. /\ events' = events \union {NewEvent(t)}
      /\ NewEvent(t).op = req[t].op /\ NewEvent(t).key = req[t].key
      /\ NewEvent(t).rkey = req[t].rkey /\ NewEvent(t).period = bucket[t]
  BY DEF Commit, NewEvent
<1>3. KnowsItsRow(u) /\ Excludes(t, u) /\ IsCharge(u)' = IsCharge(u)
  BY <1>1 DEF LedgerInv, LocksExclude, IsCharge
<1>4. \A k : Reserves(k) \subseteq Reserves(k)'
  BY <1>2 DEF Reserves
<1>5. pc[u] \in Locked => SameKey(u)' = SameKey(u)
  BY <1>1, <1>2, <1>3 DEF SameKey, Excludes, Locked, Holding
<1>6. pc[u] \in {"held", "fresh"} => Row(u)' = Row(u) /\ LimitOf(u)' = LimitOf(u)
  <2> SUFFICES ASSUME pc[u] \in {"held", "fresh"} PROVE quotas'[bucket[u]] = quotas[bucket[u]]
    BY <1>1 DEF Row, LimitOf
  <2>1. bucket[u] # bucket[t]
    BY <1>1, <1>3 DEF Excludes
  <2>2. bucket[u] \in Periods
    <3>1. CASE IsCharge(u)
      BY <1>3, <3>1 DEF KnowsItsRow
    <3>2. CASE ~IsCharge(u)
      BY <1>3, <3>2 DEF KnowsItsRow, Holding, Reserves, LedgerInv, TablesOK, Event
    <3> QED
      BY <3>1, <3>2
  <2> QED
    BY <2>1, <2>2, RowUpdated
<1>7. pc[u] = "fresh" => ~Replayed(u)'
  <2> SUFFICES ASSUME pc[u] = "fresh" PROVE ~Replayed(u)'
    OBVIOUS
  <2>1. ~Replayed(u) /\ bucket[u] # bucket[t]
    BY <1>1, <1>3 DEF KnowsItsRow, Excludes
  <2>2. CASE IsCharge(u)
    <3>1. SameKey(u)' = {} /\ \A f \in events : ~SamePrint(u, f)
      BY <1>5, <2>1, <2>2 DEF Replayed, Locked, Holding
    <3>2. \A f \in events' : ~SamePrint(u, f)'
      BY <1>1, <1>2, <2>1, <3>1 DEF SamePrint
    <3> QED
      BY <1>3, <2>2, <3>1, <3>2 DEF Replayed
  <2>3. CASE ~IsCharge(u)
    <3>1. ~Terminal(u)
      BY <2>1, <2>3 DEF Replayed
    <3>2. NewEvent(t).op \in {"commit", "release"} => NewEvent(t).rkey # req[u].rkey
      BY <1>1, <1>2, <1>3, <2>3 DEF Excludes, Holding, IsCharge, Charges
    <3>3. ~Terminal(u)'
      BY <1>1, <1>2, <3>1, <3>2 DEF Terminal
    <3> QED
      BY <1>3, <2>3, <3>3 DEF Replayed
  <2> QED
    BY <2>2, <2>3
<1> QED
  BY <1>1, <1>3, <1>4, <1>5, <1>6, <1>7 DEF KnowsItsRow, Locked, Holding

\* A commit keeps the invariant.
LEMMA CommitStep ==
  ASSUME LedgerInv, NEW t \in Txns, Commit(t)
  PROVE  LedgerInv'
<1>1. /\ pc' = [pc EXCEPT ![t] = "idle"] /\ req' = [req EXCEPT ![t] = NoRequest]
      /\ bucket' = [bucket EXCEPT ![t] = 0] /\ period' = period
      /\ events' = events \union {NewEvent(t)}
  BY DEF Commit, End
<1>2. /\ pc'[t] = "idle"
      /\ \A u \in Txns \ {t} : pc'[u] = pc[u] /\ req'[u] = req[u] /\ bucket'[u] = bucket[u]
  BY <1>1 DEF LedgerInv, TablesOK
<1>3. TablesOK'
  <2>1. pc' \in [Txns -> Steps]
    BY <1>1 DEF LedgerInv, TablesOK, Steps
  <2>2. NewEvent(t) \in Event /\ quotas' \in [Periods -> Quota]
    BY Committing, RowUpdated
  <2> QED
    BY <1>1, <2>1, <2>2 DEF LedgerInv, TablesOK
<1>4. EntriesTyped' /\ EntriesUnique' /\ CountersAreSums'
  BY CommitEntries, CommitSums
<1>5. \A u \in Txns : KnowsItsRow(u)'
  <2>1. KnowsItsRow(t)'
    BY <1>2 DEF KnowsItsRow, Holding
  <2>2. \A u \in Txns \ {t} : KnowsItsRow(u)'
    BY CommitKnows
  <2> QED
    BY <2>1, <2>2
<1>6. LocksExclude'
  <2> SUFFICES ASSUME NEW u \in Txns, NEW v \in Txns, u # v PROVE Excludes(u, v)'
    BY DEF LocksExclude
  <2>1. CASE u = t \/ v = t
    BY <1>2, <2>1 DEF Excludes, Locked, Holding
  <2>2. CASE u # t /\ v # t
    <3>1. Excludes(u, v)
      BY DEF LedgerInv, LocksExclude
    <3> QED
      BY <1>2, <2>2, <3>1 DEF Excludes, IsCharge
  <2> QED
    BY <2>1, <2>2
<1>7. NeverOversold'
  <2>1. /\ \A q \in Periods : q # bucket[t] => quotas'[q] = quotas[q]
        /\ quotas'[bucket[t]].consumed + quotas'[bucket[t]].reserved <= quotas'[bucket[t]].limit
    BY RowUpdated
  <2> QED
    BY <2>1 DEF LedgerInv, NeverOversold
<1> QED
  BY <1>3, <1>4, <1>5, <1>6, <1>7 DEF LedgerInv

(***************************************************************************)
(* The specification keeps the invariant.                                  *)
(***************************************************************************)
\* It holds of the empty ledger.
LEMMA LedgerStarts == TransactionsInit => LedgerInv
<1> SUFFICES ASSUME TransactionsInit PROVE LedgerInv
  OBVIOUS
<1>1. /\ events = {} /\ period = 1 /\ pc = [t \in Txns |-> "idle"]
      /\ req = [t \in Txns |-> NoRequest] /\ bucket = [t \in Txns |-> 0]
      /\ quotas = [p \in Periods |->
                     [exists |-> FALSE, limit |-> 0, consumed |-> 0, reserved |-> 0]]
  BY DEF TransactionsInit
<1>2. TablesOK
  <2>1. 1 \in Periods
    BY LedgerAssumption DEF Periods
  <2>2. quotas \in [Periods -> Quota]
    BY <1>1 DEF Quota
  <2> QED
    BY <1>1, <2>1, <2>2 DEF TablesOK, Steps
<1>3. EntriesTyped /\ EntriesUnique
  BY <1>1, FS_EmptySet DEF EntriesTyped, EntriesUnique, MeteredOnce
<1>4. \A t \in Txns : KnowsItsRow(t)
  BY <1>1 DEF KnowsItsRow, Holding
<1>5. LocksExclude
  BY <1>1 DEF LocksExclude, Excludes, Locked, Holding
<1>6. CountersAreSums /\ NeverOversold
  <2>1. UnitsOf({}) = 0
    <3>1. UNION {{e} \X (1..e.units) : e \in {}} = {}
      OBVIOUS
    <3> QED
      BY <3>1, FS_EmptySet DEF UnitsOf
  <2>2. \A p \in Periods : SpentIn(p) = {} /\ OpenIn(p) = {}
    BY <1>1 DEF SpentIn, OpenIn
  <2> QED
    BY <1>1, <2>1, <2>2 DEF CountersAreSums, NeverOversold
<1> QED
  BY <1>2, <1>3, <1>4, <1>5, <1>6 DEF LedgerInv

\* The invariant says of the period only that there is one.
LEMMA OnlyThePeriod ==
  ASSUME LedgerInv, UNCHANGED <<quotas, events, pc, req, bucket>>, period' \in Periods
  PROVE  LedgerInv'
<1>1. TablesOK'
  BY DEF LedgerInv, TablesOK
<1>2. EntriesTyped' /\ EntriesUnique' /\ CountersAreSums' /\ NeverOversold'
  BY DEF LedgerInv, EntriesTyped, EntriesUnique, MeteredOnce, Reserves, CountersAreSums, SpentIn,
         OpenIn, Ended, NeverOversold
<1>3. \A t \in Txns : KnowsItsRow(t)'
  <2> SUFFICES ASSUME NEW t \in Txns PROVE KnowsItsRow(t)'
    OBVIOUS
  <2>1. KnowsItsRow(t)
    BY DEF LedgerInv
  <2> QED
    BY <2>1 DEF KnowsItsRow, IsCharge, Reserves, SameKey, Row, LimitOf, Replayed, SamePrint, Terminal
<1>4. LocksExclude'
  BY DEF LedgerInv, LocksExclude, Excludes, IsCharge
<1> QED
  BY <1>1, <1>2, <1>3, <1>4 DEF LedgerInv

\* Every step of a transaction keeps it.
LEMMA LedgerSteps ==
  ASSUME LedgerInv, [TransactionsNext]_transactionVars
  PROVE  LedgerInv'
<1>1. CASE UNCHANGED transactionVars
  BY <1>1, OnlyThePeriod DEF transactionVars, tables, LedgerInv, TablesOK
<1>2. CASE NextPeriod
  <2>1. period' \in Periods
    BY <1>2, LedgerAssumption DEF NextPeriod, Periods, LedgerInv, TablesOK
  <2> QED
    BY <1>2, <2>1, OnlyThePeriod DEF NextPeriod, tables
<1>3. ASSUME NEW t \in Txns, Begin(t) \/ LockKey(t) \/ Transition(t) \/ Count(t) \/ Abort(t)
      PROVE  LedgerInv'
  <2>1. CASE Begin(t)
    BY <2>1, BeginStep
  <2>2. CASE LockKey(t)
    BY <2>2, LockKeyStep
  <2>3. CASE TransitionReplay(t)
    BY <2>3, EndStep DEF TransitionReplay
  <2>4. CASE TransitionNew(t)
    BY <2>4, TransitionNewStep
  <2>5. CASE NotFound(t)
    BY <2>5, EndStep DEF NotFound
  <2>6. CASE LockReservation(t)
    BY <2>6, LockReservationStep
  <2>7. CASE Unprovisioned(t)
    BY <2>7, EndStep DEF Unprovisioned
  <2>8. CASE TakeRow(t)
    BY <2>8, TakeRowStep
  <2>9. CASE LimitChanged(t)
    BY <2>9, EndStep DEF LimitChanged
  <2>10. CASE Refuse(t)
    BY <2>10, EndStep DEF Refuse
  <2>11. CASE Accept(t)
    BY <2>11, AcceptStep
  <2>12. CASE Exceeded(t)
    BY <2>12, EndStep DEF Exceeded
  <2>13. CASE Commit(t)
    BY <2>13, CommitStep
  <2>14. CASE Abort(t)
    BY <2>14, EndStep DEF Abort
  <2> QED
    BY <1>3, <2>1, <2>2, <2>3, <2>4, <2>5, <2>6, <2>7, <2>8, <2>9, <2>10, <2>11, <2>12, <2>13,
       <2>14 DEF Transition, Count
<1> QED
  BY <1>1, <1>2, <1>3 DEF TransactionsNext

\* The invariant holds throughout.
THEOREM LedgerInvariant == TransactionsSpec => []LedgerInv
<1>1. TransactionsInit => LedgerInv
  BY LedgerStarts
<1>2. LedgerInv /\ [TransactionsNext]_transactionVars => LedgerInv'
  BY LedgerSteps
<1> QED
  BY <1>1, <1>2, PTL DEF TransactionsSpec

(***************************************************************************)
(* What follows from it.                                                   *)
(***************************************************************************)
\* A set whose elements are all the same has at most one.
LEMMA AtMostOne ==
  ASSUME NEW S, \A e, f \in S : e = f
  PROVE  Cardinality(S) <= 1
<1>1. CASE S = {}
  BY <1>1, FS_EmptySet
<1>2. CASE S # {}
  <2>1. PICK e : S = {e}
    BY <1>2
  <2> QED
    BY <2>1, FS_Singleton
<1> QED
  BY <1>1, <1>2

\* No reservation is made twice or ends twice.
LEMMA EndsOnce == LedgerInv => ReservationEndsOnce
<1> SUFFICES ASSUME LedgerInv, NEW k \in Keys
             PROVE  /\ Cardinality({e \in events : e.op = "reserve" /\ e.rkey = k}) <= 1
                    /\ Cardinality(Ended(k)) <= 1
  BY DEF ReservationEndsOnce
<1>1. \A e, f \in {x \in events : x.op = "reserve" /\ x.rkey = k} : e = f
  BY DEF LedgerInv, EntriesTyped, EntriesUnique, MeteredOnce
<1>2. \A e, f \in Ended(k) : e = f
  BY DEF LedgerInv, EntriesUnique, Ended
<1> QED
  BY <1>1, <1>2, AtMostOne

\* The transaction that is furthest along the order of the locks waits for
\* nobody.
LEMMA SomeoneGoesOn == TablesOK => LocksNeverCross
<1> SUFFICES ASSUME TablesOK, NEW t \in Txns, pc[t] # "idle"
             PROVE  \E u \in Txns : pc[u] # "idle" /\ ~Waits(u)
  BY DEF LocksNeverCross
<1>1. \A u \in Txns : pc[u] \in Steps
  BY DEF TablesOK
<1>2. CASE \E u \in Txns : pc[u] \in {"held", "fresh"}
  BY <1>2 DEF Waits, AtRow
<1>3. CASE /\ \A v \in Txns : pc[v] \notin {"held", "fresh"}
           /\ \E u \in Txns : AtRow(u)
  BY <1>3 DEF Waits, AtRow, RowFree
<1>4. CASE /\ \A v \in Txns : pc[v] \notin {"held", "fresh", "found"}
           /\ \E u \in Txns : pc[u] = "named"
  BY <1>4 DEF Waits, AtRow, ReservationFree
<1>5. CASE \E u \in Txns : pc[u] = "locked" /\ ~AtRow(u)
  BY <1>5 DEF Waits, AtRow
<1>6. CASE \A v \in Txns : pc[v] \in {"idle", "waiting"}
  BY <1>6 DEF Waits, AtRow, KeyFree
<1> QED
  BY <1>1, <1>2, <1>3, <1>4, <1>5, <1>6 DEF Steps, AtRow

\* Whatever is asked of the ledger at the same time, its counters are the
\* sums of its entries, a reservation ends once, nothing identical is counted
\* twice, no limit is exceeded, and the three locks never cross.
THEOREM BooksHold == TransactionsSpec => []BooksAreRight
<1>1. LedgerInv => BooksAreRight
  BY EndsOnce, SomeoneGoesOn DEF BooksAreRight, LedgerInv, EntriesUnique
<1> QED
  BY <1>1, LedgerInvariant, PTL

(***************************************************************************)
(* The database ledger does what the in-memory ledger does.                *)
(***************************************************************************)
Begun(E, k)    == {e \in E : e.op = "reserve" /\ e.rkey = k}
Finished(E, k) == {e \in E : e.op \in {"commit", "release"} /\ e.rkey = k}

Outcome(F) == CASE \E f \in F : f.op = "commit"  -> "committed"
                [] \E f \in F : f.op = "release" -> "released"
                [] OTHER -> "reserved"

\* What some entries say of a reservation.
ReservationIn(E, k) ==
    IF \E e \in E : e.op = "reserve" /\ e.rkey = k
    THEN LET e == CHOOSE r \in E : r.op = "reserve" /\ r.rkey = k IN
         [period |-> e.period, units |-> e.units, status |-> Outcome(Finished(E, k))]
    ELSE [status |-> "none", period |-> 0, units |-> 0]

\* A reservation that is made once reads as its entry does.
LEMMA ReservationMade ==
  ASSUME NEW E, NEW k, NEW s, Begun(E, k) = {s}
  PROVE  ReservationIn(E, k) =
           [period |-> s.period, units |-> s.units, status |-> Outcome(Finished(E, k))]
<1>1. s \in E /\ s.op = "reserve" /\ s.rkey = k
  BY DEF Begun
<1>2. \A x \in E : x.op = "reserve" /\ x.rkey = k => x = s
  BY DEF Begun
<1>3. (CHOOSE r \in E : r.op = "reserve" /\ r.rkey = k) = s
  BY <1>1, <1>2
<1> QED
  BY <1>1, <1>3 DEF ReservationIn

\* One that is not made reads as none.
LEMMA ReservationMissing ==
  ASSUME NEW E, NEW k, Begun(E, k) = {}
  PROVE  ReservationIn(E, k) = [status |-> "none", period |-> 0, units |-> 0]
BY DEF ReservationIn, Begun

\* Entries about other keys do not matter.
LEMMA ReservationSame ==
  ASSUME NEW E, NEW F, NEW k, Begun(E, k) = Begun(F, k), Finished(E, k) = Finished(F, k),
         \A e, f \in Begun(E, k) : e = f
  PROVE  ReservationIn(E, k) = ReservationIn(F, k)
<1>1. CASE Begun(E, k) = {}
  BY <1>1, ReservationMissing
<1>2. CASE Begun(E, k) # {}
  <2>1. PICK s : Begun(E, k) = {s}
    BY <1>2
  <2>2. Begun(F, k) = {s}
    BY <2>1
  <2> QED
    BY <2>1, <2>2, ReservationMade
<1> QED
  BY <1>1, <1>2

\* What the refinement reads, before and after a step.
LEMMA ReservationsAreRead ==
  \A k : ReservationOf(k) = ReservationIn(events, k) /\ ReservationOf(k)' = ReservationIn(events', k)
BY DEF ReservationOf, ReservationIn, Outcome, Finished, Ended

\* The row a commit starts from is the one the contract opens.
LEMMA RowOpened ==
  ASSUME LedgerInv, NEW t \in Txns, Commit(t)
  PROVE  Contract!Opened(bucket[t], LimitOf(t)) = [Row(t) EXCEPT !.exists = TRUE, !.limit = LimitOf(t)]
<1>1. Row(t) = quotas[bucket[t]] /\ Row(t) \in Quota /\ bucket[t] \in Periods
  BY Committing DEF Row
<1>2. CASE Row(t).exists
  <2>1. [Row(t) EXCEPT !.exists = TRUE, !.limit = Row(t).limit] = Row(t)
    BY <1>1, <1>2 DEF Quota
  <2> QED
    BY <1>1, <1>2, <2>1 DEF Contract!Opened, LimitOf
<1>3. CASE ~Row(t).exists
  <2>1. SpentIn(bucket[t]) = {} /\ OpenIn(bucket[t]) = {}
    BY <1>1, <1>3 DEF SpentIn, OpenIn, LedgerInv, EntriesTyped
  <2>2. UnitsOf({}) = 0
    <3>1. UNION {{e} \X (1..e.units) : e \in {}} = {}
      OBVIOUS
    <3> QED
      BY <3>1, FS_EmptySet DEF UnitsOf
  <2>3. Row(t).consumed = 0 /\ Row(t).reserved = 0
    BY <1>1, <2>1, <2>2 DEF LedgerInv, CountersAreSums
  <2>4. [Row(t) EXCEPT !.exists = TRUE, !.limit = LimitOf(t)]
          = [exists |-> TRUE, limit |-> LimitOf(t), consumed |-> 0, reserved |-> 0]
    <3> DEFINE row == Row(t)
               lim == LimitOf(t)
               mid == [row EXCEPT !.exists = TRUE]
               new == [mid EXCEPT !.limit = lim]
    <3>1. row \in [exists : BOOLEAN, limit : Limits \union {0}, consumed : Nat, reserved : Nat]
      BY <1>1 DEF Quota
    <3>2. mid \in [exists : BOOLEAN, limit : Limits \union {0}, consumed : Nat, reserved : Nat]
      <4> HIDE DEF row
      <4> QED
        BY <3>1
    <3>3. mid.exists = TRUE /\ mid.consumed = 0 /\ mid.reserved = 0
      BY <2>3, <3>1
    <3>4. lim \in Limits
      BY Committing
    <3> HIDE DEF mid, lim
    <3>5. /\ new \in [exists : BOOLEAN, limit : Limits \union {0}, consumed : Nat, reserved : Nat]
          /\ new.exists = TRUE /\ new.limit = lim /\ new.consumed = 0 /\ new.reserved = 0
      BY <3>2, <3>3, <3>4
    <3> HIDE DEF new
    <3>6. new = [exists |-> TRUE, limit |-> lim, consumed |-> 0, reserved |-> 0]
      BY <3>5
    <3> QED
      BY <3>6 DEF new, mid, lim
  <2> QED
    BY <1>1, <1>3, <2>4 DEF Contract!Opened
<1> QED
  BY <1>2, <1>3

\* A commit is a method of the in-memory ledger.
LEMMA CommitIsAMethod ==
  ASSUME LedgerInv, NEW t \in Txns, Commit(t)
  PROVE  Contract!LedgerNext
<1> SUFFICES ASSUME NEW e, NEW r, NEW n, NEW p, NEW lim,
                    e = NewEvent(t), r = req[t], n = req[t].units, p = bucket[t],
                    lim = LimitOf(t)
             PROVE  Contract!LedgerNext
  OBVIOUS
<1> DEFINE base == [quotas[p] EXCEPT !.exists = TRUE, !.limit = lim]
<1>1. /\ events' = events \union {e}
      /\ e = [op |-> r.op, key |-> r.key, units |-> n, rkey |-> r.rkey, period |-> p]
      /\ quotas' = [quotas EXCEPT ![p] = Updated(t)] /\ HasCapacity(t) /\ Row(t) = quotas[p]
  BY DEF Commit, NewEvent, Row
<1>2. /\ r \in Request /\ r \in Requests /\ n \in Units /\ n \in Nat \ {0} /\ p \in Periods
      /\ lim \in Limits /\ lim \in Nat /\ SameKey(t) = {} /\ ~Replayed(t)
      /\ quotas[p] \in Quota /\ quotas \in [Periods -> Quota]
      /\ ~IsCharge(t) => /\ quotas[p].exists
                         /\ \E s \in Reserves(r.rkey) : s.units = n /\ s.period = p
  BY <1>1, Committing DEF Request, LedgerInv, TablesOK
<1>3. /\ r.op \in {"consume", "reserve", "commit", "release"} /\ r.key \in Keys
      /\ r.op = "consume" => r.rkey = NoKey
      /\ r.op = "reserve" => r.rkey = r.key
      /\ r.op \in {"commit", "release"} => r.rkey \in Keys
      /\ IsCharge(t) <=> r.op \in {"consume", "reserve"}
  BY <1>2, LedgerAssumption DEF Request, Ops, IsCharge, Charges
<1>4. Contract!Opened(p, lim) = base /\ Contract!LimitFits(p, lim)
  BY <1>1, RowOpened DEF Contract!LimitFits, LimitOf
<1>5. Contract!IsNew(r.op, r.key) /\ Contract!Recorded(r.op, r.key, n, r.rkey, p)
  BY <1>1, <1>2 DEF Contract!IsNew, Contract!Recorded, SameKey
<1>6. /\ \A k : \A f, g \in Begun(events, k) : f = g
      /\ \A f \in events : f.op = "reserve" => f.rkey = f.key
      /\ \A f \in events : f.op \in {"commit", "release"} => Begun(events, f.rkey) # {}
  BY DEF LedgerInv, EntriesTyped, EntriesUnique, MeteredOnce, Begun, Reserves
<1>7. \A k : ReservationOf(k) = ReservationIn(events, k) /\ ReservationOf(k)' = ReservationIn(events', k)
  BY ReservationsAreRead
<1>8. quotas[p].limit \in Limits \union {0} /\ quotas[p].consumed \in Nat /\ quotas[p].reserved \in Nat
  BY <1>2 DEF Quota
<1>9. /\ base.limit = lim /\ base.consumed = quotas[p].consumed /\ base.reserved = quotas[p].reserved
  BY <1>2 DEF Quota
<1>10. IsCharge(t) => Contract!HasCapacity(base, n)
  BY <1>1, <1>9 DEF HasCapacity, Contract!HasCapacity
<1> HIDE DEF base
<1>11. CASE r.op = "consume"
  <2>1. Updated(t) = [base EXCEPT !.consumed = @ + n]
    BY <1>1, <1>11 DEF Updated, base
  <2>2. \A k \in Keys : ReservationIn(events', k) = ReservationIn(events, k)
    BY <1>1, <1>6, <1>11, ReservationSame DEF Begun, Finished
  <2>3. [k \in Keys |-> ReservationOf(k)]' = [k \in Keys |-> ReservationOf(k)]
    BY <1>7, <2>2
  <2>4. Contract!Consume(r.key, n, lim, p)
    BY <1>1, <1>3, <1>4, <1>5, <1>10, <1>11, <2>1, <2>3 DEF Contract!Consume
  <2> QED
    BY <1>2, <1>3, <2>4 DEF Contract!LedgerNext
<1>12. CASE r.op = "reserve"
  <2>1. Updated(t) = [base EXCEPT !.reserved = @ + n]
    BY <1>1, <1>12 DEF Updated, base
  <2>2. Begun(events, r.key) = {}
    BY <1>2, <1>6, <1>12 DEF Begun, SameKey
  <2>3. Begun(events', r.key) = {e} /\ Finished(events', r.key) = {}
    BY <1>1, <1>3, <1>6, <1>12, <2>2 DEF Begun, Finished
  <2>4. /\ ReservationIn(events, r.key) = [status |-> "none", period |-> 0, units |-> 0]
        /\ ReservationIn(events', r.key) = [status |-> "reserved", period |-> p, units |-> n]
    <3>1. Outcome({}) = "reserved"
      BY DEF Outcome
    <3>2. ReservationIn(events, r.key) = [status |-> "none", period |-> 0, units |-> 0]
      BY <2>2, ReservationMissing
    <3>3. ReservationIn(events', r.key) = [period |-> e.period, units |-> e.units, status |-> "reserved"]
      BY <2>3, <3>1, ReservationMade
    <3>4. e.period = p /\ e.units = n
      BY <1>1
    <3> QED
      BY <3>2, <3>3, <3>4
  <2>5. \A k \in Keys : k # r.key => ReservationIn(events', k) = ReservationIn(events, k)
    BY <1>1, <1>3, <1>6, <1>12, ReservationSame DEF Begun, Finished
  <2>6. [k \in Keys |-> ReservationOf(k)]' =
          [[k \in Keys |-> ReservationOf(k)] EXCEPT ![r.key] =
             [status |-> "reserved", period |-> p, units |-> n]]
    BY <1>3, <1>7, <2>4, <2>5
  <2>7. Contract!Reserve(r.key, n, lim, p)
    BY <1>1, <1>3, <1>4, <1>5, <1>7, <1>10, <1>12, <2>1, <2>4, <2>6 DEF Contract!Reserve
  <2> QED
    BY <1>2, <1>3, <2>7 DEF Contract!LedgerNext
<1>13. CASE r.op \in {"commit", "release"}
  <2>1. PICK s \in Reserves(r.rkey) : s.units = n /\ s.period = p
    BY <1>2, <1>3, <1>13
  <2>2. Begun(events, r.rkey) = {s} /\ Finished(events, r.rkey) = {}
    <3>1. ~Terminal(t)
      BY <1>2, <1>3, <1>13 DEF Replayed
    <3> QED
      BY <1>6, <2>1, <3>1 DEF Begun, Finished, Reserves, Terminal
  <2>3. Begun(events', r.rkey) = {s} /\ Finished(events', r.rkey) = {e}
    BY <1>1, <1>13, <2>2 DEF Begun, Finished
  <2> DEFINE to == IF r.op = "commit" THEN "committed" ELSE "released"
  <2>4. /\ ReservationIn(events, r.rkey) = [period |-> p, units |-> n, status |-> "reserved"]
        /\ ReservationIn(events', r.rkey) = [period |-> p, units |-> n, status |-> to]
    <3>1. Outcome({}) = "reserved" /\ Outcome({e}) = to
      BY <1>1, <1>13 DEF Outcome
    <3> QED
      BY <2>1, <2>2, <2>3, <3>1, ReservationMade
  <2>5. \A k \in Keys : k # r.rkey => ReservationIn(events', k) = ReservationIn(events, k)
    BY <1>1, <1>6, <1>13, ReservationSame DEF Begun, Finished
  <2> HIDE DEF to
  <2>6. [k \in Keys |-> ReservationOf(k)]' =
          [[k \in Keys |-> ReservationOf(k)] EXCEPT ![r.rkey].status = to]
    BY <1>3, <1>7, <1>13, <2>4, <2>5
  <2>7. quotas' = [quotas EXCEPT
                     ![p].reserved = @ - n,
                     ![p].consumed = IF r.op = "commit" THEN @ + n ELSE @]
    <3> DEFINE row == quotas[p]
               mid == [row EXCEPT !.reserved = @ - n]
               new == [mid EXCEPT !.consumed = IF r.op = "commit" THEN @ + n ELSE @]
    <3>1. base = row
      <4>1. row.exists /\ lim = row.limit
        BY <1>1, <1>2, <1>3, <1>13 DEF LimitOf
      <4> QED
        BY <1>2, <4>1 DEF base, Quota
    <3>2. Updated(t) = new
      <4>1. CASE r.op = "commit"
        <5>1. Updated(t) = [base EXCEPT !.reserved = @ - n, !.consumed = @ + n]
          BY <1>1, <4>1 DEF Updated, base
        <5> QED
          BY <3>1, <4>1, <5>1
      <4>2. CASE r.op = "release"
        <5>1. Updated(t) = mid
          BY <1>1, <3>1, <4>2 DEF Updated, base
        <5>2. mid \in [exists : BOOLEAN, limit : Limits \union {0}, consumed : Nat, reserved : Int]
          BY <1>2, <1>8 DEF Quota
        <5> HIDE DEF mid
        <5>3. new = [mid EXCEPT !.consumed = mid.consumed]
          BY <4>2
        <5> QED
          BY <5>1, <5>2, <5>3
      <4> QED
        BY <1>13, <4>1, <4>2
    <3>3. [quotas EXCEPT ![p] = new] =
            [quotas EXCEPT
               ![p].reserved = @ - n,
               ![p].consumed = IF r.op = "commit" THEN @ + n ELSE @]
      BY <1>2
    <3> QED
      BY <1>1, <3>2, <3>3
  <2>8. Contract!Settle(r.op, r.key, r.rkey)
    <3> DEFINE res == [k \in Keys |-> ReservationOf(k)]
    <3>1. res[r.rkey] = [period |-> p, units |-> n, status |-> "reserved"]
      BY <1>3, <1>7, <1>13, <2>4
    <3>2. /\ res[r.rkey].period = p /\ res[r.rkey].units = n
          /\ res[r.rkey].status = "reserved"
      BY <3>1
    <3>3. res' = [res EXCEPT ![r.rkey].status = IF r.op = "commit" THEN "committed" ELSE "released"]
      BY <2>6 DEF to
    <3> HIDE DEF res
    <3> QED
      BY <1>5, <1>13, <2>7, <3>2, <3>3 DEF Contract!Settle, res
  <2> QED
    BY <1>3, <1>13, <2>8 DEF Contract!LedgerNext, Contract!Ops
<1> QED
  BY <1>3, <1>11, <1>12, <1>13

\* It starts as the in-memory ledger does.
LEMMA StartsAlike == TransactionsInit => Contract!LedgerInit
<1> SUFFICES ASSUME TransactionsInit PROVE Contract!LedgerInit
  OBVIOUS
<1>1. \A k : ReservationOf(k) = [status |-> "none", period |-> 0, units |-> 0]
  BY DEF TransactionsInit, ReservationOf
<1> QED
  BY <1>1 DEF Contract!LedgerInit, TransactionsInit

\* Only a commit changes the tables.
LEMMA OnlyCommitsWrite ==
  ASSUME [TransactionsNext]_transactionVars, tables' # tables
  PROVE  \E t \in Txns : Commit(t)
<1>1. UNCHANGED transactionVars => UNCHANGED tables
  BY DEF transactionVars
<1> QED
  BY <1>1 DEF TransactionsNext, Begin, LockKey, Transition, TransitionReplay, TransitionNew,
     NotFound, LockReservation, Count, Unprovisioned, TakeRow, LimitChanged, Refuse, Accept,
     Exceeded, Abort, NextPeriod

\* The database ledger implements the in-memory one: whatever transactions do
\* at the same time, the tables change as one method call changes them.
THEOREM LedgerImplemented == TransactionsSpec => ImplementsLedger
<1>1. LedgerInv /\ [TransactionsNext]_transactionVars
        => [tables' # tables => Contract!LedgerNext]_tables
  BY OnlyCommitsWrite, CommitIsAMethod
<1>2. TransactionsInit => Contract!LedgerInit
  BY StartsAlike
<1> QED
  BY <1>1, <1>2, LedgerInvariant, PTL DEF TransactionsSpec, ImplementsLedger

-----------------------------------------------------------------------------
\* The service tasks and contact consent (ServiceTasks).

(***************************************************************************)
(* The match and the window say that a grant belongs to a match only if a  *)
(* task without a consent row has no grant.                                *)
(***************************************************************************)
ConsentFits ==
    consent.org = NoOrg => consent.c_status = "pending" /\ consent.b_status = "pending"

IInv == TypeOK /\ MatchAgrees /\ WindowIsMutual /\ ConsentFits

(***************************************************************************)
(* Types.                                                                  *)
(***************************************************************************)
\* SetStatus keeps the types of the status and of the history.
LEMMA SetStatusTyped ==
    ASSUME TypeOK, NEW new \in Statuses, NEW actor \in Actors, SetStatus(new, actor)
    PROVE  /\ status' \in Statuses \union {"none"}
           /\ history' \in Seq(HistoryRow)
<1>1. [from |-> status, to |-> new, by |-> actor] \in HistoryRow
  BY DEF TypeOK, HistoryRow
<1>2. Append(history, [from |-> status, to |-> new, by |-> actor]) \in Seq(HistoryRow)
  BY <1>1, AppendProperties DEF TypeOK
<1> QED
  BY <1>2 DEF SetStatus

\* A grant of either side is a consent row.
LEMMA GrantedTyped ==
    ASSUME TypeOK, NEW actor \in Actors
    PROVE  Granted(actor) \in Consent
BY DEF TypeOK, Granted, Consent, Grants

\* No task, and nothing consented to.
LEMMA TaskTypeInit ==
    Init => TypeOK
BY DEF Init, TypeOK, Consent, Grants, Statuses

\* Every step keeps the types.
LEMMA TaskTypeStep ==
    TypeOK /\ [Next]_vars => TypeOK'
<1> SUFFICES ASSUME TypeOK, [Next]_vars PROVE TypeOK'
  OBVIOUS
<1>1. ASSUME NEW first \in {"draft", "open"}, admin_create(first) PROVE TypeOK'
  <2>1. first \in Statuses /\ "admin" \in Actors /\ SetStatus(first, "admin")
    BY <1>1 DEF admin_create, Statuses, Actors
  <2> QED
    BY <1>1, <2>1, SetStatusTyped DEF admin_create, TypeOK
<1>2. ASSUME NEW managed \in Callers, apply(managed) PROVE TypeOK'
  BY <1>2 DEF apply, TypeOK
<1>3. ASSUME NEW managed \in Callers, withdraw(managed) PROVE TypeOK'
  BY <1>3 DEF withdraw, TypeOK
<1>4. ASSUME NEW o \in Orgs, admin_match(o) PROVE TypeOK'
  <2>1. SetStatus("matched_pending_consent", "admin")
    BY <1>4 DEF admin_match
  <2>2. "matched_pending_consent" \in Statuses /\ "admin" \in Actors
    BY DEF Statuses, Actors
  <2>3. status' \in Statuses \union {"none"} /\ history' \in Seq(HistoryRow)
    BY <2>1, <2>2, SetStatusTyped
  <2>4. consent' \in Consent
    BY <1>4 DEF admin_match, Consent, Grants
  <2> QED
    BY <1>4, <2>3, <2>4 DEF admin_match, TypeOK
<1>5. ASSUME NEW new \in Statuses, admin_status(new) PROVE TypeOK'
  <2>1. "admin" \in Actors /\ SetStatus(new, "admin")
    BY <1>5 DEF admin_status, Actors
  <2> QED
    BY <1>5, <2>1, SetStatusTyped DEF admin_status, TypeOK
<1>6. ASSUME NEW actor \in Actors, NEW managed, grant_mutual(actor, managed) PROVE TypeOK'
  <2>1. "in_progress" \in Statuses /\ SetStatus("in_progress", actor)
    BY <1>6 DEF grant_mutual, Statuses
  <2>2. status' \in Statuses \union {"none"} /\ history' \in Seq(HistoryRow)
    BY <2>1, SetStatusTyped
  <2>3. consent' \in Consent
    BY <1>6, GrantedTyped DEF grant_mutual
  <2> QED
    BY <1>6, <2>2, <2>3 DEF grant_mutual, TypeOK
<1>7. ASSUME NEW actor \in Actors, NEW managed, grant_one(actor, managed) PROVE TypeOK'
  BY <1>7, GrantedTyped DEF grant_one, TypeOK
<1>8. ASSUME NEW managed \in Callers, complete(managed) PROVE TypeOK'
  <2>1. /\ "completion_pending" \in Statuses /\ "org" \in Actors
        /\ SetStatus("completion_pending", "org")
    BY <1>8 DEF complete, Statuses, Actors
  <2> QED
    BY <1>8, <2>1, SetStatusTyped DEF complete, TypeOK
<1>9. CASE confirm_completion
  <2>1. /\ "completed" \in Statuses /\ "creator" \in Actors
        /\ SetStatus("completed", "creator")
    BY <1>9 DEF confirm_completion, Statuses, Actors
  <2> QED
    BY <1>9, <2>1, SetStatusTyped DEF confirm_completion, TypeOK
<1>10. CASE WindowEnds
  BY <1>10 DEF WindowEnds, TypeOK
<1>11. CASE UNCHANGED vars
  BY <1>11 DEF vars, TypeOK
<1>12. "org" \in Actors /\ "creator" \in Actors
  BY DEF Actors
<1> QED
  BY <1>1, <1>2, <1>3, <1>4, <1>5, <1>6, <1>7, <1>8, <1>9, <1>10, <1>11, <1>12 DEF Next

\* Every variable stays within its type.
THEOREM TasksAreTyped == Spec => []TypeOK
BY TaskTypeInit, TaskTypeStep, PTL DEF Spec

(***************************************************************************)
(* The match and the window.                                               *)
(***************************************************************************)
LEMMA InitIInv ==
    Init => IInv
BY TaskTypeInit, OrgsAssumption
   DEF Init, IInv, MatchAgrees, Matched, WindowIsMutual, ConsentFits

\* Every step keeps the match, the window and their agreement.
LEMMA TaskInvStep ==
    IInv /\ [Next]_vars => IInv'
<1> SUFFICES ASSUME IInv, [Next]_vars PROVE MatchAgrees' /\ WindowIsMutual' /\ ConsentFits'
  BY TaskTypeStep DEF IInv
<1> USE OrgsAssumption DEF IInv, TypeOK, MatchAgrees, WindowIsMutual, ConsentFits, Matched
<1>1. ASSUME NEW first \in {"draft", "open"}, admin_create(first)
      PROVE  MatchAgrees' /\ WindowIsMutual' /\ ConsentFits'
  BY <1>1 DEF admin_create, SetStatus
<1>2. ASSUME NEW managed \in Callers, apply(managed)
      PROVE  MatchAgrees' /\ WindowIsMutual' /\ ConsentFits'
  BY <1>2 DEF apply
<1>3. ASSUME NEW managed \in Callers, withdraw(managed)
      PROVE  MatchAgrees' /\ WindowIsMutual' /\ ConsentFits'
  BY <1>3 DEF withdraw
<1>4. ASSUME NEW o \in Orgs, admin_match(o)
      PROVE  MatchAgrees' /\ WindowIsMutual' /\ ConsentFits'
  BY <1>4 DEF admin_match, SetStatus
<1>5. ASSUME NEW new \in Statuses, admin_status(new)
      PROVE  MatchAgrees' /\ WindowIsMutual' /\ ConsentFits'
  BY <1>5 DEF admin_status, SetStatus, allowed_transition, TRANSITIONS
<1>6. ASSUME NEW actor \in Actors, NEW managed, grant_mutual(actor, managed)
      PROVE  MatchAgrees' /\ WindowIsMutual' /\ ConsentFits'
  BY <1>6 DEF grant_mutual, SetStatus, MayGrant, OtherGranted, Granted, Consent
<1>7. ASSUME NEW actor \in Actors, NEW managed, grant_one(actor, managed)
      PROVE  MatchAgrees' /\ WindowIsMutual' /\ ConsentFits'
  BY <1>7 DEF grant_one, MayGrant, OtherGranted, Granted, Consent, Grants
<1>8. ASSUME NEW managed \in Callers, complete(managed)
      PROVE  MatchAgrees' /\ WindowIsMutual' /\ ConsentFits'
  BY <1>8 DEF complete, SetStatus, allowed_transition, TRANSITIONS
<1>9. CASE confirm_completion
  BY <1>9 DEF confirm_completion, SetStatus, allowed_transition, TRANSITIONS
<1>10. CASE WindowEnds
  BY <1>10 DEF WindowEnds
<1>11. CASE UNCHANGED vars
  BY <1>11 DEF vars
<1>12. "org" \in Actors /\ "creator" \in Actors
  BY DEF Actors
<1> QED
  BY <1>1, <1>2, <1>3, <1>4, <1>5, <1>6, <1>7, <1>8, <1>9, <1>10, <1>11, <1>12 DEF Next

\* A task has a consent row exactly while and after it is matched, for the
\* organisation whose application is the only matched one.
THEOREM MatchIsConsistent == Spec => []MatchAgrees
<1>1. IInv => MatchAgrees
  BY DEF IInv
<1> QED
  BY <1>1, InitIInv, TaskInvStep, PTL DEF Spec

\* The addresses are shown only after both sides' word, and always after it.
THEOREM DisclosureIsMutual == Spec => []WindowIsMutual
<1>1. IInv => WindowIsMutual
  BY DEF IInv
<1> QED
  BY <1>1, InitIInv, TaskInvStep, PTL DEF Spec

(***************************************************************************)
(* The history.                                                            *)
(***************************************************************************)
\* A row for a transition the table allows, or for the creation, keeps the
\* history whole.
LEMMA HistoryRowKept ==
    ASSUME TypeOK, HistoryIsComplete, NEW new \in Statuses, NEW actor \in Actors,
           SetStatus(new, actor),
           status = "none" \/ allowed_transition(status, new, actor)
    PROVE  HistoryIsComplete'
<1> DEFINE row == [from |-> status, to |-> new, by |-> actor]
<1>1. row \in HistoryRow
  BY DEF TypeOK, HistoryRow
<1>2. /\ Len(history') = Len(history) + 1
      /\ \A i \in 1..Len(history) : history'[i] = history[i]
      /\ history'[Len(history) + 1] = row
      /\ Len(history) \in Nat
      /\ history' # << >>
  BY <1>1, AppendProperties, LenProperties DEF TypeOK, SetStatus
<1>3. status' = new /\ new # "none"
  BY DEF SetStatus, Statuses
<1>4. history = << >> <=> Len(history) = 0
  BY EmptySeq DEF TypeOK
<1>5. history'[1].from = "none" /\ history'[Len(history')].to = status'
  BY <1>2, <1>3, <1>4 DEF HistoryIsComplete
<1>6. ASSUME NEW i \in 1..Len(history'), i > 1
      PROVE  /\ history'[i].from = history'[i - 1].to
             /\ allowed_transition(history'[i].from, history'[i].to, history'[i].by)
  <2>1. CASE i = Len(history) + 1
    <3>1. /\ i - 1 = Len(history)
          /\ history'[i - 1] = history[Len(history)]
          /\ history # << >>
      BY <1>2, <1>4, <1>6, <2>1
    <3>2. history[Len(history)].to = status /\ status # "none"
      BY <3>1 DEF HistoryIsComplete
    <3> QED
      BY <1>2, <2>1, <3>1, <3>2
  <2>2. CASE i # Len(history) + 1
    <3>1. /\ i \in 1..Len(history) /\ i - 1 \in 1..Len(history)
          /\ history'[i] = history[i] /\ history'[i - 1] = history[i - 1]
      BY <1>2, <1>6, <2>2
    <3> QED
      BY <1>6, <3>1 DEF HistoryIsComplete
  <2> QED
    BY <2>1, <2>2
<1> QED
  BY <1>2, <1>3, <1>5, <1>6 DEF HistoryIsComplete

\* Every step leaves a whole history.
LEMMA TaskHistoryStep ==
    TypeOK /\ HistoryIsComplete /\ [Next]_vars => HistoryIsComplete'
<1> SUFFICES ASSUME TypeOK, HistoryIsComplete, [Next]_vars PROVE HistoryIsComplete'
  OBVIOUS
<1>1. ASSUME NEW first \in {"draft", "open"}, admin_create(first) PROVE HistoryIsComplete'
  <2>1. /\ first \in Statuses /\ "admin" \in Actors
        /\ SetStatus(first, "admin") /\ status = "none"
    BY <1>1 DEF admin_create, Statuses, Actors
  <2> QED
    BY <2>1, HistoryRowKept
<1>2. ASSUME NEW o \in Orgs, admin_match(o) PROVE HistoryIsComplete'
  <2>1. /\ "matched_pending_consent" \in Statuses /\ "admin" \in Actors
        /\ SetStatus("matched_pending_consent", "admin")
    BY <1>2 DEF admin_match, Statuses, Actors
  <2>2. allowed_transition(status, "matched_pending_consent", "admin")
    BY <1>2 DEF admin_match, allowed_transition, TRANSITIONS
  <2> QED
    BY <2>1, <2>2, HistoryRowKept
<1>3. ASSUME NEW new \in Statuses, admin_status(new) PROVE HistoryIsComplete'
  <2>1. /\ "admin" \in Actors /\ SetStatus(new, "admin")
        /\ allowed_transition(status, new, "admin")
    BY <1>3 DEF admin_status, Actors
  <2> QED
    BY <2>1, HistoryRowKept
<1>4. ASSUME NEW actor \in Actors, NEW managed, grant_mutual(actor, managed)
      PROVE  HistoryIsComplete'
  <2>1. "in_progress" \in Statuses /\ SetStatus("in_progress", actor)
    BY <1>4 DEF grant_mutual, Statuses
  <2>2. allowed_transition(status, "in_progress", actor)
    BY <1>4 DEF grant_mutual, allowed_transition, TRANSITIONS
  <2> QED
    BY <2>1, <2>2, HistoryRowKept
<1>5. ASSUME NEW managed \in Callers, complete(managed) PROVE HistoryIsComplete'
  <2>1. /\ "completion_pending" \in Statuses /\ "org" \in Actors
        /\ SetStatus("completion_pending", "org")
        /\ allowed_transition(status, "completion_pending", "org")
    BY <1>5 DEF complete, Statuses, Actors
  <2> QED
    BY <2>1, HistoryRowKept
<1>6. CASE confirm_completion
  <2>1. /\ "completed" \in Statuses /\ "creator" \in Actors
        /\ SetStatus("completed", "creator")
        /\ allowed_transition(status, "completed", "creator")
    BY <1>6 DEF confirm_completion, Statuses, Actors
  <2> QED
    BY <2>1, HistoryRowKept
<1>7. ASSUME UNCHANGED <<status, history>> PROVE HistoryIsComplete'
  BY <1>7 DEF HistoryIsComplete
<1>8. ASSUME NEW managed, NEW actor, apply(managed) \/ withdraw(managed) \/ grant_one(actor, managed)
      PROVE  HistoryIsComplete'
  BY <1>7, <1>8 DEF apply, withdraw, grant_one
<1>9. CASE WindowEnds \/ UNCHANGED vars
  BY <1>7, <1>9 DEF WindowEnds, vars
<1>10. "org" \in Actors /\ "creator" \in Actors
  BY DEF Actors
<1> QED
  BY <1>1, <1>2, <1>3, <1>4, <1>5, <1>6, <1>8, <1>9, <1>10 DEF Next

\* task_status_history is the task's whole past, by those entitled to it.
THEOREM HistoryIsWhole == Spec => []HistoryIsComplete
<1>1. Init => HistoryIsComplete
  BY DEF Init, HistoryIsComplete
<1> QED
  BY <1>1, TasksAreTyped, TaskHistoryStep, PTL DEF Spec

\* Whatever the order of matches, withdrawals, consents and administrator
\* steps, contact is mutual.
THEOREM ContactStaysMutual == Spec => []ContactIsMutual
BY TasksAreTyped, MatchIsConsistent, DisclosureIsMutual, PTL DEF ContactIsMutual

-----------------------------------------------------------------------------
\* The backups and restore drills (BackupDrill).

(***************************************************************************)
(* The backups.  A stamp is used once, and what a run has written by each  *)
(* of its steps is there until it is announced; an archive is never        *)
(* younger than its manifest, so what is pruned goes archive first.        *)
(***************************************************************************)
Dumps     == [stamp : Nat, part : {"dump"}, day : Nat, bytes : Int]
Manifests == [stamp : Nat, part : {"manifest"}, day : Nat, bytes : Int, sha : Int]
BackupSteps     == {"idle", "counted", "dumped", "written", "archive", "manifest", "uploaded"}

FilesTyped ==
    /\ live \in Nat /\ today \in Nat
    /\ backup \in [step : BackupSteps, stamp : Nat, counts : Nat]
    /\ announced \subseteq [stamp : Nat, day : Nat]
    /\ local \subseteq Dumps \union Manifests
    /\ remote \subseteq Dumps \union Manifests

\* A file of that part and stamp.
Names(f, stamp, part) == f.stamp = stamp /\ f.part = part

Has(kept, stamp, part) == \E f \in kept : Names(f, stamp, part)

StampsPass ==
    /\ \A f \in local \union remote : f.stamp <= backup.stamp /\ f.day <= today
    /\ \A a \in announced : a.stamp <= backup.stamp /\ a.day <= today

\* What is there at each step of a run.
StepsHold ==
    /\ backup.step = "counted" => ~Has(local, backup.stamp, "dump")
    /\ backup.step \in {"counted", "dumped"} => ~Has(local, backup.stamp, "manifest")
    /\ backup.step \in {"dumped", "written"} => Has(local, backup.stamp, "dump")
    /\ backup.step = "written" => Has(local, backup.stamp, "manifest")
    /\ backup.step \in {"counted", "dumped", "written"} =>
         /\ \A f \in remote : f.stamp # backup.stamp
         /\ \A a \in announced : a.stamp # backup.stamp
    /\ backup.step = "manifest" =>
         \E f \in remote : /\ Names(f, backup.stamp, "dump")
                           /\ \A a \in announced : a.stamp = backup.stamp => a.day <= f.day

LocalFits ==
    /\ \A f, g \in local : f.stamp = g.stamp /\ f.part = g.part => f = g
    /\ \A f, g \in local : /\ f.stamp = g.stamp /\ f.part = "dump" /\ g.part = "manifest"
                           => f.day <= g.day /\ f.bytes \in {Damaged, g.sha}

\* An announced backup within the retention, in a directory and in the bucket.
KeptLocally(a, kept) ==
    /\ \E f \in kept : Names(f, a.stamp, "dump") /\ f.day >= a.day
    /\ \E f \in kept : Names(f, a.stamp, "manifest") /\ f.day >= a.day

KeptRemotely(a, kept) ==
    Has(kept, a.stamp, "manifest") => \E f \in kept : Names(f, a.stamp, "dump") /\ f.day >= a.day

AnnouncedHold ==
    \A a \in announced : /\ Recent(a, RetentionDays) => KeptLocally(a, local)
                         /\ Recent(a, RemoteRetentionDays) => KeptRemotely(a, remote)

FilesInv == FilesTyped /\ StampsPass /\ StepsHold /\ LocalFits /\ AnnouncedHold

\* A file that is there is found, and one that is found is there.
LEMMA FileFound ==
    ASSUME NEW kept, kept \subseteq Dumps \union Manifests, NEW stamp, NEW part
    PROVE  /\ Has(kept, stamp, part) <=> File(kept, stamp, part) # Absent
           /\ Has(kept, stamp, part) => /\ File(kept, stamp, part) \in kept
                                         /\ Names(File(kept, stamp, part), stamp, part)
<1>1. Absent \notin Dumps \union Manifests
  BY DEF Absent, Dumps, Manifests
<1>2. Has(kept, stamp, part) => /\ File(kept, stamp, part) \in kept
                                 /\ Names(File(kept, stamp, part), stamp, part)
  BY DEF Has, Names, File
<1>3. ~Has(kept, stamp, part) => File(kept, stamp, part) = Absent
  BY DEF Has, Names, File
<1> QED BY <1>1, <1>2, <1>3

\* The first backup has yet to be taken.
LEMMA FilesStart ==
    BackupInit => FilesInv
BY DEF BackupInit, FilesInv, FilesTyped, BackupSteps, StampsPass, StepsHold, LocalFits, AnnouncedHold

\* What the drills do, and the writes to the live database, leaves the files.
LEMMA FilesStand ==
    ASSUME FilesInv, live' \in Nat, UNCHANGED <<today, backup, announced, local, remote>>
    PROVE  FilesInv'
BY DEF FilesInv, FilesTyped, StampsPass, StepsHold, LocalFits, AnnouncedHold, Recent

\* Days pass, and what was recent is so no more.
LEMMA DayStep ==
    ASSUME FilesInv, DayPasses
    PROVE  FilesInv'
<1>1. /\ today \in Nat /\ today' = today + 1
      /\ UNCHANGED <<live, backup, announced, local, remote>>
  BY DEF DayPasses, FilesInv, FilesTyped
<1>2. /\ announced \subseteq [stamp : Nat, day : Nat]
      /\ local \subseteq Dumps \union Manifests /\ remote \subseteq Dumps \union Manifests
  BY DEF FilesInv, FilesTyped
<1>3. FilesTyped' /\ StepsHold' /\ LocalFits'
  BY <1>1 DEF FilesInv, FilesTyped, StepsHold, LocalFits
<1>4. StampsPass'
  <2>1. \A f \in local \union remote : f.day \in Nat
    BY <1>2 DEF Dumps, Manifests
  <2> QED BY <1>1, <1>2, <2>1 DEF FilesInv, StampsPass
<1>5. AnnouncedHold'
  <2>1. \A a \in announced, days \in Nat : Recent(a, days)' => Recent(a, days)
    BY <1>1, <1>2 DEF Recent
  <2> QED BY <1>1, <2>1, RetentionIsPositive DEF FilesInv, AnnouncedHold
<1> QED BY <1>3, <1>4, <1>5 DEF FilesInv

\* A bad disk changes what an archive says, not that it is there.
LEMMA RotStep ==
    ASSUME FilesInv, NEW f \in local, ArchiveRots(f)
    PROVE  FilesInv'
<1> DEFINE bad == [f EXCEPT !.bytes = Damaged]
<1>1. /\ f \in Dumps /\ local \subseteq Dumps \union Manifests
  BY DEF FilesInv, FilesTyped, ArchiveRots, Dumps, Manifests
<1>2. /\ bad \in Dumps /\ bad.stamp = f.stamp /\ bad.part = "dump" /\ bad.day = f.day
      /\ bad.bytes = Damaged /\ f.part = "dump"
  BY <1>1 DEF Dumps, Damaged
<1>3. /\ local' = (local \ {f}) \union {bad}
      /\ UNCHANGED <<live, today, backup, announced, remote>>
  BY DEF ArchiveRots
<1> HIDE DEF bad
<1>4. FilesTyped'
  BY <1>1, <1>2, <1>3 DEF FilesInv, FilesTyped
<1>5. StampsPass'
  BY <1>2, <1>3 DEF FilesInv, StampsPass
<1>6. \A stamp, part : Has(local', stamp, part) <=> Has(local, stamp, part)
  BY <1>2, <1>3 DEF Has, Names
<1>7. StepsHold'
  BY <1>3, <1>6 DEF FilesInv, StepsHold
<1>8. LocalFits'
  BY <1>2, <1>3 DEF FilesInv, LocalFits
<1>9. \A a : KeptLocally(a, local) => KeptLocally(a, local')
  BY <1>2, <1>3 DEF KeptLocally, Names
<1>10. AnnouncedHold'
  BY <1>3, <1>9 DEF FilesInv, AnnouncedHold, Recent
<1> QED BY <1>4, <1>5, <1>7, <1>8, <1>10 DEF FilesInv

\* The counts of a new stamp.
LEMMA CountStep ==
    ASSUME FilesInv, CountRows
    PROVE  FilesInv'
<1>1. /\ backup' = [step |-> "counted", stamp |-> backup.stamp + 1, counts |-> live]
      /\ UNCHANGED <<live, today, announced, local, remote>>
  BY DEF CountRows
<1>2. /\ live \in Nat /\ backup.stamp \in Nat /\ announced \subseteq [stamp : Nat, day : Nat]
      /\ local \subseteq Dumps \union Manifests /\ remote \subseteq Dumps \union Manifests
  BY DEF FilesInv, FilesTyped
<1>3. FilesTyped'
  BY <1>1, <1>2 DEF FilesInv, FilesTyped, BackupSteps
<1>4. \A f \in local \union remote : f.stamp \in Nat
  BY <1>2 DEF Dumps, Manifests
<1>5. StampsPass' /\ (\A f \in local \union remote : f.stamp # backup'.stamp)
      /\ \A a \in announced : a.stamp # backup'.stamp
  BY <1>1, <1>2, <1>4 DEF FilesInv, StampsPass
<1>6. StepsHold'
  BY <1>1, <1>5 DEF StepsHold, Has, Names
<1>7. LocalFits' /\ AnnouncedHold'
  BY <1>1 DEF FilesInv, LocalFits, AnnouncedHold, Recent
<1> QED BY <1>3, <1>5, <1>6, <1>7 DEF FilesInv

\* A file that is written under the new stamp, of a part not there yet.
LEMMA StampWritten ==
    ASSUME FilesInv, NEW f \in Dumps \union Manifests,
           f.stamp = backup.stamp, f.day = today, ~Has(local, f.stamp, f.part),
           f.part = "dump" => ~Has(local, f.stamp, "manifest"),
           \A g \in local : Names(g, f.stamp, "dump") => f.part = "manifest" /\ f.sha = g.bytes
    PROVE  /\ local \union {f} \subseteq Dumps \union Manifests
           /\ \A g, h \in local \union {f} : g.stamp = h.stamp /\ g.part = h.part => g = h
           /\ \A g, h \in local \union {f} :
                /\ g.stamp = h.stamp /\ g.part = "dump" /\ h.part = "manifest"
                => g.day <= h.day /\ g.bytes \in {Damaged, h.sha}
           /\ \A a : KeptLocally(a, local) => KeptLocally(a, local \union {f})
<1>1. local \union {f} \subseteq Dumps \union Manifests
  BY DEF FilesInv, FilesTyped
<1>2. \A g, h \in local \union {f} : g.stamp = h.stamp /\ g.part = h.part => g = h
  BY DEF FilesInv, LocalFits, Has, Names
<1>3. ASSUME NEW g \in local \union {f}, NEW h \in local \union {f},
             g.stamp = h.stamp, g.part = "dump", h.part = "manifest"
      PROVE  g.day <= h.day /\ g.bytes \in {Damaged, h.sha}
  <2>1. CASE g \in local /\ h \in local
    BY <1>3, <2>1 DEF FilesInv, LocalFits
  <2>2. CASE g \in local /\ h = f
    BY <1>3, <2>2 DEF FilesInv, StampsPass, Names
  <2>3. CASE g = f /\ h \in local
    BY <1>3, <2>3 DEF Has, Names
  <2>4. g # h
    BY <1>3
  <2> QED BY <1>3, <2>1, <2>2, <2>3, <2>4
<1>4. \A a : KeptLocally(a, local) => KeptLocally(a, local \union {f})
  BY DEF KeptLocally
<1> QED BY <1>1, <1>2, <1>3, <1>4

\* The archive.
LEMMA DumpStep ==
    ASSUME FilesInv, Dump
    PROVE  FilesInv'
<1> DEFINE f == [stamp |-> backup.stamp, part |-> "dump", day |-> today, bytes |-> live]
<1>1. /\ backup.step = "counted" /\ local' = local \union {f} /\ backup' = [backup EXCEPT !.step = "dumped"]
      /\ UNCHANGED <<live, today, announced, remote>>
  BY DEF Dump
<1>2. /\ f \in Dumps /\ f.stamp = backup.stamp /\ f.part = "dump" /\ f.day = today
      /\ backup \in [step : BackupSteps, stamp : Nat, counts : Nat]
  BY DEF FilesInv, FilesTyped, Dumps
<1>3. backup' \in [step : BackupSteps, stamp : Nat, counts : Nat] /\ backup'.stamp = backup.stamp /\ backup'.step = "dumped"
  BY <1>1, <1>2 DEF BackupSteps
<1> HIDE DEF f
<1>4. ~Has(local, backup.stamp, "dump") /\ ~Has(local, backup.stamp, "manifest")
  BY <1>1 DEF FilesInv, StepsHold
<1>5. /\ local' \subseteq Dumps \union Manifests /\ LocalFits'
      /\ \A a : KeptLocally(a, local) => KeptLocally(a, local')
  <2>1. \A g \in local : ~Names(g, f.stamp, "dump")
    BY <1>2, <1>4 DEF Has
  <2> QED BY <1>1, <1>2, <1>4, <2>1, StampWritten DEF LocalFits
<1>6. FilesTyped'
  BY <1>1, <1>3, <1>5 DEF FilesInv, FilesTyped
<1>7. StampsPass'
  BY <1>1, <1>2, <1>3 DEF FilesInv, FilesTyped, StampsPass
<1>8. StepsHold'
  BY <1>1, <1>2, <1>3, <1>4 DEF FilesInv, StepsHold, Has, Names
<1>9. AnnouncedHold'
  BY <1>1, <1>5 DEF FilesInv, AnnouncedHold, Recent
<1> QED BY <1>5, <1>6, <1>7, <1>8, <1>9 DEF FilesInv

\* The manifest, with the digest of the archive beside it.
LEMMA ManifestStep ==
    ASSUME FilesInv, WriteManifest
    PROVE  /\ FilesInv'
           /\ \A g \in local' : g \in local \/ g.stamp = backup.stamp
<1> DEFINE a == File(local, backup.stamp, "dump")
           f == [stamp |-> backup.stamp, part |-> "manifest", day |-> today, bytes |-> backup.counts,
                 sha |-> a.bytes]
<1>1. /\ backup.step = "dumped" /\ local' = local \union {f} /\ backup' = [backup EXCEPT !.step = "written"]
      /\ UNCHANGED <<live, today, announced, remote>>
  BY DEF WriteManifest
<1>2. backup \in [step : BackupSteps, stamp : Nat, counts : Nat] /\ local \subseteq Dumps \union Manifests /\ today \in Nat
  BY DEF FilesInv, FilesTyped
<1>3. backup' \in [step : BackupSteps, stamp : Nat, counts : Nat] /\ backup'.stamp = backup.stamp /\ backup'.step = "written"
  BY <1>1, <1>2 DEF BackupSteps
<1>4. Has(local, backup.stamp, "dump") /\ ~Has(local, backup.stamp, "manifest")
  BY <1>1 DEF FilesInv, StepsHold
<1>5. a \in local /\ Names(a, backup.stamp, "dump") /\ \A g \in local : Names(g, backup.stamp, "dump") => g = a
  <2>1. a \in local /\ Names(a, backup.stamp, "dump")
    BY <1>2, <1>4, FileFound
  <2> HIDE DEF a
  <2> QED BY <2>1 DEF Names, FilesInv, LocalFits
<1>6. a.bytes \in Int
  <2> HIDE DEF a
  <2> QED BY <1>2, <1>5 DEF Dumps, Manifests
<1> HIDE DEF a
<1>7. /\ f \in Manifests /\ f.stamp = backup.stamp /\ f.part = "manifest" /\ f.day = today /\ f.sha = a.bytes
  BY <1>2, <1>6 DEF Manifests
<1> HIDE DEF f
<1>8. /\ local' \subseteq Dumps \union Manifests /\ LocalFits'
      /\ \A b : KeptLocally(b, local) => KeptLocally(b, local')
  BY <1>1, <1>4, <1>5, <1>7, StampWritten DEF LocalFits
<1>9. FilesTyped'
  BY <1>1, <1>3, <1>8 DEF FilesInv, FilesTyped
<1>10. StampsPass'
  BY <1>1, <1>2, <1>7, <1>3 DEF FilesInv, StampsPass
<1>11. StepsHold'
  BY <1>1, <1>7, <1>3, <1>4 DEF FilesInv, StepsHold, Has, Names
<1>12. AnnouncedHold'
  BY <1>1, <1>8 DEF FilesInv, AnnouncedHold, Recent
<1> QED BY <1>1, <1>7, <1>8, <1>9, <1>10, <1>11, <1>12 DEF FilesInv

\* Pruning takes what has expired, and announces what it leaves.
LEMMA PruneLocalStep ==
    ASSUME FilesInv, PruneLocal
    PROVE  FilesInv'
<1> DEFINE d == File(local, backup.stamp, "dump")
           new == [stamp |-> backup.stamp, day |-> d.day]
<1>1. /\ backup.step = "written" /\ local' = {f \in local : ~Expired(f, RetentionDays)}
      /\ announced' = announced \union {new}
      /\ backup' = [backup EXCEPT !.step = IF ObjectStorage THEN "archive" ELSE "idle"]
      /\ UNCHANGED <<live, today, remote>>
  BY DEF PruneLocal
<1>2. /\ backup \in [step : BackupSteps, stamp : Nat, counts : Nat] /\ today \in Nat
      /\ local \subseteq Dumps \union Manifests /\ announced \subseteq [stamp : Nat, day : Nat]
  BY DEF FilesInv, FilesTyped
<1>3. /\ backup' \in [step : BackupSteps, stamp : Nat, counts : Nat] /\ backup'.stamp = backup.stamp
      /\ backup'.step \in {"archive", "idle"}
  BY <1>1, <1>2 DEF BackupSteps
<1>4. d \in local /\ Names(d, backup.stamp, "dump")
  BY <1>1, <1>2, FileFound DEF FilesInv, StepsHold
<1>5. PICK m \in local : Names(m, backup.stamp, "manifest")
  BY <1>1 DEF FilesInv, StepsHold, Has
<1> HIDE DEF d
<1>6. d.day \in Nat /\ m.day \in Nat /\ d.day <= m.day /\ d.day <= today
  BY <1>2, <1>4, <1>5 DEF Dumps, Manifests, Names, FilesInv, LocalFits, StampsPass
<1>7. new \in [stamp : Nat, day : Nat] /\ new.stamp = backup.stamp /\ new.day = d.day
  BY <1>2, <1>6
<1> HIDE DEF new
<1>8. FilesTyped'
  BY <1>1, <1>2, <1>3, <1>7 DEF FilesInv, FilesTyped
<1>9. StampsPass'
  BY <1>1, <1>2, <1>3, <1>6, <1>7 DEF FilesInv, StampsPass
<1>10. StepsHold'
  BY <1>3 DEF StepsHold
<1>11. LocalFits'
  BY <1>1 DEF FilesInv, LocalFits
<1>12. ASSUME NEW a \in announced'
       PROVE  /\ Recent(a, RetentionDays) => KeptLocally(a, local')
              /\ Recent(a, RemoteRetentionDays) => KeptRemotely(a, remote)
  <2>1. a.day \in Nat /\ RetentionDays \in Nat
    BY <1>1, <1>2, <1>7, RetentionIsPositive
  <2>2. ASSUME Recent(a, RetentionDays), NEW f \in local, f.day >= a.day PROVE f \in local'
    <3>1. f.day \in Nat
      BY <1>2 DEF Dumps, Manifests
    <3> QED BY <1>1, <1>2, <2>1, <2>2, <3>1 DEF Expired, Recent
  <2>3. CASE a \in announced
    <3>1. /\ Recent(a, RetentionDays) => KeptLocally(a, local)
          /\ Recent(a, RemoteRetentionDays) => KeptRemotely(a, remote)
      BY <2>3 DEF FilesInv, AnnouncedHold
    <3> QED BY <2>2, <3>1 DEF KeptLocally
  <2>4. CASE a = new
    <3>1. Recent(a, RetentionDays) => KeptLocally(a, local')
      BY <1>4, <1>5, <1>6, <1>7, <2>2, <2>4 DEF KeptLocally
    <3>2. KeptRemotely(a, remote)
      BY <1>1, <1>7, <2>4 DEF FilesInv, StepsHold, KeptRemotely, Has, Names
    <3> QED BY <3>1, <3>2
  <2> QED BY <1>1, <2>3, <2>4
<1>13. AnnouncedHold'
  BY <1>1, <1>12 DEF AnnouncedHold, Recent
<1> QED BY <1>8, <1>9, <1>10, <1>11, <1>13 DEF FilesInv

\* A file goes up under the day of its upload, the archive before the manifest.
LEMMA UploadStep ==
    ASSUME FilesInv, Upload
    PROVE  FilesInv'
<1> DEFINE part == IF backup.step = "archive" THEN "dump" ELSE "manifest"
           f == File(local, backup.stamp, part)
           up == [f EXCEPT !.day = today]
<1>1. /\ backup.step \in {"archive", "manifest"} /\ f # Absent /\ remote' = remote \union {up}
      /\ backup' = [backup EXCEPT !.step = IF backup.step = "archive" THEN "manifest" ELSE "uploaded"]
      /\ UNCHANGED <<live, today, announced, local>>
  BY DEF Upload
<1>2. /\ backup \in [step : BackupSteps, stamp : Nat, counts : Nat] /\ today \in Nat
      /\ local \subseteq Dumps \union Manifests /\ remote \subseteq Dumps \union Manifests
      /\ announced \subseteq [stamp : Nat, day : Nat]
  BY DEF FilesInv, FilesTyped
<1>3. /\ backup' \in [step : BackupSteps, stamp : Nat, counts : Nat] /\ backup'.stamp = backup.stamp
      /\ backup'.step = IF backup.step = "archive" THEN "manifest" ELSE "uploaded"
  BY <1>1, <1>2 DEF BackupSteps
<1>4. f \in local /\ Names(f, backup.stamp, part)
  BY <1>1, <1>2, FileFound
<1> HIDE DEF f
<1>5. up \in Dumps \union Manifests /\ up.stamp = backup.stamp /\ up.part = part /\ up.day = today
  <2>1. f \in Dumps \union Manifests /\ f.stamp = backup.stamp /\ f.part = part
    BY <1>2, <1>4 DEF Names
  <2> HIDE DEF part
  <2>2. CASE f \in Dumps
    BY <1>2, <2>1, <2>2 DEF Dumps
  <2>3. CASE f \in Manifests
    BY <1>2, <2>1, <2>3 DEF Manifests
  <2> QED BY <2>1, <2>2, <2>3
<1> HIDE DEF up
<1>6. FilesTyped'
  BY <1>1, <1>2, <1>3, <1>5 DEF FilesInv, FilesTyped
<1>7. StampsPass'
  BY <1>1, <1>2, <1>3, <1>5 DEF FilesInv, StampsPass
<1>8. StepsHold'
  <2>1. CASE backup.step = "archive"
    <3>1. \A a \in announced : a.day <= up.day
      BY <1>5 DEF FilesInv, StampsPass
    <3>2. Names(up, backup.stamp, "dump") /\ up \in remote'
      BY <1>1, <1>5, <2>1 DEF Names
    <3> QED BY <1>1, <1>3, <2>1, <3>1, <3>2 DEF StepsHold
  <2>2. CASE backup.step = "manifest"
    BY <1>3, <2>2 DEF StepsHold
  <2> QED BY <1>1, <2>1, <2>2
<1>9. LocalFits'
  BY <1>1 DEF FilesInv, LocalFits
<1>10. ASSUME NEW a \in announced, Recent(a, RemoteRetentionDays)
       PROVE  KeptRemotely(a, remote')
  <2>1. KeptRemotely(a, remote)
    BY <1>10 DEF FilesInv, AnnouncedHold
  <2>2. SUFFICES ASSUME Has(remote', a.stamp, "manifest")
                 PROVE  \E g \in remote' : Names(g, a.stamp, "dump") /\ g.day >= a.day
    BY <2>1 DEF KeptRemotely
  <2>3. CASE Has(remote, a.stamp, "manifest")
    BY <1>1, <2>1, <2>3 DEF KeptRemotely
  <2>4. CASE ~Has(remote, a.stamp, "manifest")
    <3>1. Names(up, a.stamp, "manifest")
      BY <1>1, <2>2, <2>4 DEF Has
    <3>2. a.stamp = backup.stamp /\ backup.step = "manifest"
      BY <1>1, <1>5, <3>1 DEF Names
    <3>3. PICK g \in remote : Names(g, backup.stamp, "dump") /\ a.day <= g.day
      BY <3>2 DEF FilesInv, StepsHold
    <3>4. g.day \in Nat /\ a.day \in Nat
      BY <1>2 DEF Dumps, Manifests
    <3> QED BY <1>1, <3>2, <3>3, <3>4
  <2> QED BY <2>3, <2>4
<1>11. AnnouncedHold'
  BY <1>1, <1>10 DEF FilesInv, AnnouncedHold, Recent
<1> QED BY <1>6, <1>7, <1>8, <1>9, <1>11 DEF FilesInv

\* Pruning the bucket may leave files behind, and takes none that is recent there.
LEMMA PruneRemoteStep ==
    ASSUME FilesInv, PruneRemote
    PROVE  FilesInv'
<1>1. PICK gone \in SUBSET {f \in remote : Expired(f, RemoteRetentionDays)} : remote' = remote \ gone
  BY DEF PruneRemote
<1>2. /\ backup' = [backup EXCEPT !.step = "idle"] /\ UNCHANGED <<live, today, announced, local>>
  BY DEF PruneRemote
<1>3. /\ backup \in [step : BackupSteps, stamp : Nat, counts : Nat] /\ today \in Nat
      /\ remote \subseteq Dumps \union Manifests /\ announced \subseteq [stamp : Nat, day : Nat]
  BY DEF FilesInv, FilesTyped
<1>4. /\ backup' \in [step : BackupSteps, stamp : Nat, counts : Nat] /\ backup'.stamp = backup.stamp
      /\ backup'.step = "idle"
  BY <1>2, <1>3 DEF BackupSteps
<1>5. FilesTyped' /\ StampsPass'
  BY <1>1, <1>2, <1>3, <1>4 DEF FilesInv, FilesTyped, StampsPass
<1>6. StepsHold'
  BY <1>4 DEF StepsHold
<1>7. LocalFits'
  BY <1>2 DEF FilesInv, LocalFits
<1>8. ASSUME NEW a \in announced, Recent(a, RemoteRetentionDays)
      PROVE  KeptRemotely(a, remote')
  <2>1. KeptRemotely(a, remote)
    BY <1>8 DEF FilesInv, AnnouncedHold
  <2>2. a.day \in Nat /\ RemoteRetentionDays \in Nat
    BY <1>3, RetentionIsPositive
  <2>3. \A f \in remote : f.day >= a.day => f \in remote'
    <3>1. SUFFICES ASSUME NEW f \in remote, f.day >= a.day PROVE f \in remote'
      OBVIOUS
    <3>2. f.day \in Nat
      BY <1>3 DEF Dumps, Manifests
    <3> QED BY <1>1, <1>3, <1>8, <2>2, <3>1, <3>2 DEF Expired, Recent
  <2>4. Has(remote', a.stamp, "manifest") => Has(remote, a.stamp, "manifest")
    BY <1>1 DEF Has
  <2> QED BY <2>1, <2>3, <2>4 DEF KeptRemotely
<1>9. AnnouncedHold'
  BY <1>2, <1>8 DEF FilesInv, AnnouncedHold, Recent
<1> QED BY <1>5, <1>6, <1>7, <1>9 DEF FilesInv

\* A run that dies leaves what it has written; a dump that dies, a bad archive.
LEMMA DrillEnds ==
    ASSUME FilesInv, BackupEnds
    PROVE  /\ FilesInv'
           /\ \A g \in local' : g \in local \/ g.part = "dump"
<1> DEFINE f == [stamp |-> backup.stamp, part |-> "dump", day |-> today, bytes |-> Damaged]
<1>1. /\ backup' = [backup EXCEPT !.step = "idle"] /\ UNCHANGED <<live, today, announced, remote>>
      /\ (local' = local \/ (backup.step = "counted" /\ local' = local \union {f}))
  BY DEF BackupEnds
<1>2. /\ f \in Dumps /\ f.stamp = backup.stamp /\ f.part = "dump" /\ f.day = today
      /\ backup \in [step : BackupSteps, stamp : Nat, counts : Nat]
  BY DEF FilesInv, FilesTyped, Dumps, Damaged
<1>3. backup' \in [step : BackupSteps, stamp : Nat, counts : Nat] /\ backup'.stamp = backup.stamp /\ backup'.step = "idle"
  BY <1>1, <1>2 DEF BackupSteps
<1> HIDE DEF f
<1>4. StepsHold'
  BY <1>3 DEF StepsHold
<1>5. /\ local' \subseteq Dumps \union Manifests /\ LocalFits'
      /\ \A a : KeptLocally(a, local) => KeptLocally(a, local')
  <2>1. CASE local' = local
    BY <2>1 DEF FilesInv, FilesTyped, LocalFits
  <2>2. CASE backup.step = "counted" /\ local' = local \union {f}
    <3>1. ~Has(local, backup.stamp, "dump") /\ ~Has(local, backup.stamp, "manifest")
      BY <2>2 DEF FilesInv, StepsHold
    <3>2. \A g \in local : ~Names(g, f.stamp, "dump")
      BY <1>2, <3>1 DEF Has
    <3> QED BY <1>2, <2>2, <3>1, <3>2, StampWritten DEF LocalFits
  <2> QED BY <1>1, <2>1, <2>2
<1>6. FilesTyped'
  BY <1>1, <1>3, <1>5 DEF FilesInv, FilesTyped
<1>7. StampsPass'
  BY <1>1, <1>2, <1>3 DEF FilesInv, FilesTyped, StampsPass
<1>8. AnnouncedHold'
  BY <1>1, <1>5 DEF FilesInv, AnnouncedHold, Recent
<1> QED BY <1>1, <1>2, <1>4, <1>5, <1>6, <1>7, <1>8 DEF FilesInv
(***************************************************************************)
(* The drills.  While a drill works on a database it is its own; the       *)
(* manifest it started from stays what it was, so that its counts and the  *)
(* archive's digest mean what they meant; and evidence passes only at the  *)
(* end of a drill that has seen every assertion pass.                      *)
(***************************************************************************)
Working  == {"restore", "check", "drop", "dropfailed"}
DrillPcs == Working \union {"export", "create", "passed", "failed"}
Verdicts == {"pass", "fail", "not_run"}

Records ==
    [gate : {"blocked", "pass"}, result : {"pass", "fail"}, cleanup : {"not_needed", "pass", "fail"},
     assertions : Seq(Verdicts), owners : {"assigned", "tbd"}, sha : {TRUE}]

NoDrills      == [pc : {"idle"}]
RestoreDrills == [pc : DrillPcs, program : {"restore_drill"}, target : Targets, stamp : Nat,
                  expect : Int, bytes : Int]
Recoveries    == [pc : DrillPcs, program : {"recovery"}, target : Targets, stamp : Nat, bytes : Int,
                  results : Seq(Verdicts), record : Records]
Databases     == [kind : {"disposable"}, by : Drills, rows : Int]

DrillsTyped ==
    /\ drill \in [Drills -> NoDrills \union RestoreDrills \union Recoveries]
    /\ servers \in [Targets -> {Absent} \union Databases]

OwnTarget(d, r, srv) == r.pc \in Working => srv[r.target] # Absent /\ srv[r.target].by = d

CountsHold(r, srv, kept) ==
    r \in RestoreDrills =>
      /\ r.stamp # 0 => \A g \in kept : Names(g, r.stamp, "manifest") => g.bytes = r.expect
      /\ r.pc \in {"check", "drop"} =>
           IF r.stamp = 0 THEN srv[r.target].rows = r.bytes
           ELSE \A g \in kept : Names(g, r.stamp, "manifest") => srv[r.target].rows = g.sha
      /\ r.pc = "drop" /\ r.stamp # 0 => srv[r.target].rows = r.expect

AllPass(vs) == Len(vs) = Len(Assertions) /\ vs # << >> /\ \A i \in 1..Len(vs) : vs[i] = "pass"

EvidenceHolds(d, r, srv) ==
    r \in Recoveries =>
      /\ Len(r.results) <= Len(Assertions)
      /\ r.pc = "drop" => AllPass(r.record.assertions)
      /\ r.pc = "passed" => r.record.gate = "pass"
      /\ r.record.gate = "pass" => /\ r.pc = "passed" /\ r.record.result = "pass" /\ r.record.cleanup = "pass"
                                   /\ AllPass(r.record.assertions)
                                   /\ srv[r.target] # Absent => srv[r.target].by # d

DrillSound(d, r, srv, kept) == OwnTarget(d, r, srv) /\ CountsHold(r, srv, kept) /\ EvidenceHolds(d, r, srv)

\* The manifest of that stamp has been written, if it ever will be.
Settled(b, s) == s <= b.stamp /\ (s = b.stamp => b.step \notin {"counted", "dumped"})

DrillsInv ==
    /\ DrillsTyped
    /\ \A d \in Drills : DrillSound(d, drill[d], servers, local)
    /\ \A d \in Drills : drill[d] \in RestoreDrills /\ drill[d].stamp # 0 => Settled(backup, drill[d].stamp)
    /\ \A p \in dropped : p[1] = p[2]

\* Nobody drills yet.
LEMMA DrillsStart ==
    BackupInit => DrillsInv
<1> SUFFICES ASSUME BackupInit PROVE DrillsInv
  OBVIOUS
<1>1. /\ drill = [d \in Drills |-> NoDrill] /\ servers = [t \in Targets |-> Absent] /\ dropped = {}
  BY DEF BackupInit
<1>2. NoDrill \in NoDrills /\ NoDrill.pc = "idle" /\ NoDrill \notin RestoreDrills /\ NoDrill \notin Recoveries
  BY DEF NoDrill, NoDrills, RestoreDrills, Recoveries, DrillPcs, Working
<1>3. DrillsTyped
  BY <1>1, <1>2 DEF DrillsTyped
<1>4. \A d : DrillSound(d, NoDrill, servers, local)
  BY <1>2 DEF DrillSound, OwnTarget, CountsHold, EvidenceHolds, Working
<1> QED BY <1>1, <1>2, <1>3, <1>4 DEF DrillsInv

\* The files change, and no manifest a drill relies on does.
LEMMA DrillsStand ==
    ASSUME FilesInv, DrillsInv, UNCHANGED <<servers, drill, dropped>>,
           \A g \in local' : /\ g \in local \/ g.part = "dump"
                                \/ (g.stamp = backup.stamp /\ backup.step = "dumped"),
           \A s \in Nat \ {0} : Settled(backup, s) => Settled(backup', s)
    PROVE  DrillsInv'
<1>1. ASSUME NEW d \in Drills PROVE DrillSound(d, drill[d], servers, local')
  <2>1. DrillSound(d, drill[d], servers, local)
    BY DEF DrillsInv
  <2>2. SUFFICES ASSUME drill[d] \in RestoreDrills, drill[d].stamp # 0, NEW g \in local',
                        Names(g, drill[d].stamp, "manifest")
                 PROVE  g \in local
    BY <2>1 DEF DrillSound, CountsHold
  <2>3. Settled(backup, drill[d].stamp)
    BY <2>2 DEF DrillsInv
  <2> QED BY <2>2, <2>3 DEF Settled, Names
<1>2. ASSUME NEW d \in Drills, drill[d] \in RestoreDrills, drill[d].stamp # 0
      PROVE  Settled(backup', drill[d].stamp)
  <2>1. drill[d].stamp \in Nat \ {0} /\ Settled(backup, drill[d].stamp)
    BY <1>2 DEF DrillsInv, RestoreDrills
  <2> QED BY <2>1
<1> QED BY <1>1, <1>2 DEF DrillsInv, DrillsTyped

\* What one drill does to its own database is nothing to another drill.
LEMMA OthersStand ==
    ASSUME DrillsInv, NEW d \in Drills, NEW e \in Drills \ {d}, NEW t, NEW srv,
           \A u \in Targets \ {t} : srv[u] = servers[u],
           srv[t] = Absent \/ srv[t].by = d,
           servers[t] = Absent \/ servers[t].by = d
    PROVE  DrillSound(e, drill[e], srv, local)
<1>1. DrillSound(e, drill[e], servers, local) /\ drill[e] \in NoDrills \union RestoreDrills \union Recoveries
  BY DEF DrillsInv, DrillsTyped
<1>2. CASE drill[e] \in NoDrills
  BY <1>2 DEF NoDrills, DrillSound, OwnTarget, CountsHold, EvidenceHolds, RestoreDrills, Recoveries, DrillPcs, Working
<1>3. CASE drill[e] \notin NoDrills
  <2>1. drill[e].target \in Targets
    BY <1>1, <1>3 DEF RestoreDrills, Recoveries
  <2>2. CASE drill[e].target = t
    <3>1. drill[e].pc \notin Working
      BY <1>1, <2>2 DEF DrillSound, OwnTarget
    <3> QED BY <1>1, <2>2, <3>1 DEF DrillSound, OwnTarget, CountsHold, EvidenceHolds, Working
  <2>3. CASE drill[e].target # t
    <3>1. srv[drill[e].target] = servers[drill[e].target]
      BY <2>1, <2>3
    <3> QED BY <1>1, <3>1 DEF DrillSound, OwnTarget, CountsHold, EvidenceHolds
  <2> QED BY <2>2, <2>3
<1> QED BY <1>2, <1>3

\* A drill moves on, and the others are as they were.
LEMMA OneMoves ==
    ASSUME DrillsInv, NEW d \in Drills, NEW r \in NoDrills \union RestoreDrills \union Recoveries, NEW t \in Targets,
           drill' = [drill EXCEPT ![d] = r], servers' \in [Targets -> {Absent} \union Databases],
           \A u \in Targets \ {t} : servers'[u] = servers[u],
           servers' = servers \/ ((servers'[t] = Absent \/ servers'[t].by = d)
                                  /\ (servers[t] = Absent \/ servers[t].by = d)),
           DrillSound(d, r, servers', local), r \in RestoreDrills /\ r.stamp # 0 => Settled(backup, r.stamp),
           UNCHANGED <<backup, local>>, \A p \in dropped' : p[1] = p[2]
    PROVE  DrillsInv'
<1>1. DrillsTyped /\ drill'[d] = r /\ \A e \in Drills \ {d} : drill'[e] = drill[e]
  BY DEF DrillsInv, DrillsTyped
<1>2. DrillsTyped'
  BY <1>1 DEF DrillsTyped
<1>3. ASSUME NEW e \in Drills PROVE DrillSound(e, drill'[e], servers', local')
  <2>1. CASE e = d
    BY <1>1, <2>1
  <2>2. CASE e # d /\ servers' = servers
    BY <1>1, <2>2 DEF DrillsInv
  <2>3. CASE e # d /\ servers' # servers
    <3>1. DrillSound(e, drill[e], servers', local)
      BY <2>3, OthersStand
    <3> QED BY <1>1, <2>3, <3>1
  <2> QED BY <2>1, <2>2, <2>3
<1>4. ASSUME NEW e \in Drills, drill'[e] \in RestoreDrills, drill'[e].stamp # 0
      PROVE  Settled(backup', drill'[e].stamp)
  <2>1. Settled(backup, drill'[e].stamp)
    BY <1>1, <1>4 DEF DrillsInv
  <2> QED BY <2>1 DEF Settled
<1> QED BY <1>2, <1>3, <1>4 DEF DrillsInv

\* A manifest that loads is settled.
LEMMA LoadedIsSettled ==
    ASSUME FilesInv, NEW s \in Nat, ManifestLoads(s)
    PROVE  /\ Settled(backup, s)
           /\ File(local, s, "manifest").bytes \in Int
           /\ \A g \in local : Names(g, s, "manifest") => g.bytes = File(local, s, "manifest").bytes
<1> DEFINE m == File(local, s, "manifest")
<1>1. local \subseteq Dumps \union Manifests /\ backup.stamp \in Nat
  BY DEF FilesInv, FilesTyped
<1>2. m \in local /\ Names(m, s, "manifest")
  BY <1>1, FileFound DEF ManifestLoads
<1> HIDE DEF m
<1>3. m.bytes \in Int
  BY <1>1, <1>2 DEF Dumps, Manifests
<1>4. \A g \in local : Names(g, s, "manifest") => g = m
  BY <1>2 DEF FilesInv, LocalFits, Names
<1>5. Settled(backup, s)
  BY <1>2 DEF Settled, FilesInv, StampsPass, StepsHold, Has, Names
<1> QED BY <1>3, <1>4, <1>5 DEF m

\* A drill starts from a manifest, or from an inventory.
LEMMA StartRestoreStep ==
    ASSUME FilesInv, DrillsInv, NEW d \in Drills, NEW t \in Targets, NEW stamp \in Nat,
           StartRestoreDrill(d, t, stamp)
    PROVE  DrillsInv'
<1>1. UNCHANGED <<backup, local, servers, dropped>> /\ DrillsTyped
  BY DEF StartRestoreDrill, DrillsInv
<1>2. SUFFICES ASSUME NEW at \in {"export", "create"}, NEW expect \in Int, NEW r \in RestoreDrills,
                      r = [pc |-> at, program |-> "restore_drill", target |-> t,
                           stamp |-> stamp, expect |-> expect, bytes |-> Damaged],
                      drill' = [drill EXCEPT ![d] = r],
                      stamp # 0 => /\ Settled(backup, stamp)
                                   /\ \A g \in local : Names(g, stamp, "manifest") => g.bytes = expect
               PROVE  DrillsInv'
  <2>1. CASE stamp = 0
    <3>1. live \in Int
      BY DEF FilesInv, FilesTyped
    <3>2. [pc |-> "export", program |-> "restore_drill", target |-> t,
           stamp |-> stamp, expect |-> live, bytes |-> Damaged] \in RestoreDrills
      BY <3>1 DEF RestoreDrills, DrillPcs, Damaged
    <3> QED BY <1>2, <2>1, <3>1, <3>2 DEF StartRestoreDrill
  <2>2. CASE stamp # 0
    <3> DEFINE expect == File(local, stamp, "manifest").bytes
    <3>1. /\ ManifestLoads(stamp)
          /\ drill' = [drill EXCEPT ![d] = [pc |-> "create", program |-> "restore_drill", target |-> t,
                         stamp |-> stamp, expect |-> expect, bytes |-> Damaged]]
      BY <2>2 DEF StartRestoreDrill
    <3>2. /\ Settled(backup, stamp) /\ expect \in Int
          /\ \A g \in local : Names(g, stamp, "manifest") => g.bytes = expect
      BY <3>1, LoadedIsSettled
    <3> HIDE DEF expect
    <3>3. [pc |-> "create", program |-> "restore_drill", target |-> t,
           stamp |-> stamp, expect |-> expect, bytes |-> Damaged] \in RestoreDrills
      BY <3>2 DEF RestoreDrills, DrillPcs, Damaged
    <3> QED BY <1>2, <3>1, <3>2, <3>3
  <2> QED BY <2>1, <2>2
<1>3. r \notin Recoveries
  BY <1>2 DEF Recoveries
<1>4. DrillSound(d, r, servers, local)
  BY <1>2, <1>3 DEF DrillSound, OwnTarget, CountsHold, EvidenceHolds, Working
<1>5. servers' \in [Targets -> {Absent} \union Databases]
  BY <1>1 DEF DrillsTyped
<1>6. \A p \in dropped' : p[1] = p[2]
  BY <1>1 DEF DrillsInv
<1> QED BY <1>1, <1>2, <1>4, <1>5, <1>6, OneMoves

\* A recovery starts with evidence that passes nothing.
LEMMA StartRecoveryStep ==
    ASSUME FilesInv, DrillsInv, NEW d \in Drills, NEW t \in Targets, NEW stamp \in Nat,
           NEW o \in {"assigned", "tbd"}, StartRecovery(d, t, stamp, o)
    PROVE  DrillsInv'
<1> DEFINE record == [gate |-> "blocked", result |-> "fail", cleanup |-> "not_needed",
                      assertions |-> << >>, owners |-> o, sha |-> TRUE]
           r == [pc |-> "create", program |-> "recovery", target |-> t, stamp |-> stamp,
                 bytes |-> Damaged, results |-> << >>, record |-> record]
<1>1. UNCHANGED <<backup, local, servers, dropped>> /\ DrillsTyped /\ drill' = [drill EXCEPT ![d] = r]
  BY DEF StartRecovery, DrillsInv
<1>2. record \in Records /\ record.gate = "blocked"
  BY DEF Records, Verdicts
<1> HIDE DEF record
<1>3. r \in Recoveries /\ r.pc = "create" /\ r.results = << >> /\ r.record = record
  BY <1>2 DEF Recoveries, DrillPcs, Damaged, Verdicts
<1> HIDE DEF r
<1>4. r \notin RestoreDrills
  BY <1>3 DEF Recoveries, RestoreDrills
<1>5. Len(Assertions) \in Nat
  BY AssertionsAreListed
<1>6. DrillSound(d, r, servers, local)
  BY <1>2, <1>3, <1>4, <1>5 DEF DrillSound, OwnTarget, CountsHold, EvidenceHolds, Working
<1>7. servers' \in [Targets -> {Absent} \union Databases]
  BY <1>1 DEF DrillsTyped
<1>8. \A p \in dropped' : p[1] = p[2]
  BY <1>1 DEF DrillsInv
<1> QED BY <1>1, <1>3, <1>4, <1>6, <1>7, <1>8, OneMoves
\* A drill's record with another stage is a record of the same drill.
LEMMA Staged ==
    ASSUME NEW x \in RestoreDrills \union Recoveries, NEW at \in DrillPcs
    PROVE  LET r == [x EXCEPT !.pc = at] IN
           /\ r \in RestoreDrills \union Recoveries /\ r.pc = at
           /\ r.target = x.target /\ r.stamp = x.stamp /\ r.bytes = x.bytes /\ r.program = x.program
           /\ x \in RestoreDrills => r \in RestoreDrills /\ r \notin Recoveries /\ r.expect = x.expect
           /\ x \in Recoveries => r \in Recoveries /\ r \notin RestoreDrills
                                  /\ r.results = x.results /\ r.record = x.record
<1>1. CASE x \in RestoreDrills
  BY <1>1 DEF RestoreDrills, Recoveries
<1>2. CASE x \in Recoveries
  BY <1>2 DEF RestoreDrills, Recoveries
<1> QED BY <1>1, <1>2

\* The stage of a drill under way.
LEMMA Underway ==
    ASSUME DrillsInv, NEW d \in Drills, drill[d].pc # "idle"
    PROVE  /\ drill[d] \in RestoreDrills \union Recoveries
           /\ drill[d].target \in Targets /\ drill[d].stamp \in Nat /\ drill[d].bytes \in Int
           /\ drill[d].program = "restore_drill" <=> drill[d] \in RestoreDrills
           /\ drill[d].program = "recovery" <=> drill[d] \in Recoveries
BY DEF DrillsInv, DrillsTyped, NoDrills, RestoreDrills, Recoveries

\* The export of the source.
LEMMA ExportStep ==
    ASSUME FilesInv, DrillsInv, NEW d \in Drills, Export(d)
    PROVE  DrillsInv'
<1> DEFINE x == drill[d]
           q == [x EXCEPT !.pc = "create"]
           r == [q EXCEPT !.bytes = live]
<1>1. /\ x.pc = "export" /\ drill' = [drill EXCEPT ![d] = r]
      /\ UNCHANGED <<backup, local, servers, dropped>> /\ DrillsTyped
  BY DEF Export, DrillsInv, DrillsTyped
<1>2. x \in RestoreDrills \union Recoveries /\ x.target \in Targets
  BY <1>1, Underway
<1>3. DrillSound(d, x, servers, local) /\ (x \in RestoreDrills /\ x.stamp # 0 => Settled(backup, x.stamp))
  BY DEF DrillsInv
<1> HIDE DEF x
<1>4. /\ q \in RestoreDrills \union Recoveries /\ q.pc = "create" /\ q.target = x.target /\ q.stamp = x.stamp
      /\ x \in RestoreDrills => q \in RestoreDrills /\ q.expect = x.expect
      /\ x \in Recoveries => q \in Recoveries /\ q.results = x.results /\ q.record = x.record
  <2>1. "create" \in DrillPcs
    BY DEF DrillPcs
  <2> QED BY <1>2, <2>1, Staged
<1> HIDE DEF q
<1>5. live \in Int
  BY DEF FilesInv, FilesTyped
<1>6. CASE x \in RestoreDrills
  <2>1. /\ r \in RestoreDrills /\ r.pc = "create" /\ r.stamp = x.stamp /\ r.expect = x.expect
        /\ r.target = x.target
    BY <1>4, <1>5, <1>6 DEF RestoreDrills
  <2>2. r \notin Recoveries
    BY <2>1 DEF RestoreDrills, Recoveries
  <2> HIDE DEF r
  <2>3. DrillSound(d, r, servers, local)
    BY <1>3, <1>6, <2>1, <2>2 DEF DrillSound, OwnTarget, CountsHold, EvidenceHolds, Working
  <2> QED BY <1>1, <1>2, <1>3, <1>6, <2>1, <2>3, OneMoves DEF DrillsInv, DrillsTyped
<1>7. CASE x \in Recoveries
  <2>1. /\ r \in Recoveries /\ r.pc = "create" /\ r.results = x.results /\ r.record = x.record
        /\ r.target = x.target
    BY <1>4, <1>5, <1>7 DEF Recoveries
  <2>2. r \notin RestoreDrills
    BY <2>1 DEF RestoreDrills, Recoveries
  <2> HIDE DEF r
  <2>3. DrillSound(d, r, servers, local)
    BY <1>1, <1>3, <1>7, <2>1, <2>2 DEF DrillSound, OwnTarget, CountsHold, EvidenceHolds, Working
  <2> QED BY <1>1, <1>2, <2>1, <2>2, <2>3, OneMoves DEF DrillsInv, DrillsTyped
<1> QED BY <1>2, <1>6, <1>7

\* A database is created under a free name, or the drill ends.
LEMMA CreateStep ==
    ASSUME DrillsInv, NEW d \in Drills, CreateTarget(d)
    PROVE  DrillsInv'
<1> DEFINE x == drill[d]
           t == x.target
<1>1. /\ x.pc = "create" /\ UNCHANGED <<backup, local, dropped>> /\ DrillsTyped
      /\ \A p \in dropped' : p[1] = p[2]
  BY DEF CreateTarget, DrillsInv
<1>2. x \in RestoreDrills \union Recoveries /\ t \in Targets
  BY <1>1, Underway
<1>3. DrillSound(d, x, servers, local) /\ (x \in RestoreDrills /\ x.stamp # 0 => Settled(backup, x.stamp))
  BY DEF DrillsInv
<1>4. "restore" \in DrillPcs /\ "failed" \in DrillPcs
  BY DEF DrillPcs, Working
<1>5. CASE /\ servers[t] = Absent
           /\ servers' = [servers EXCEPT ![t] = [kind |-> "disposable", by |-> d, rows |-> 0]]
           /\ drill' = [drill EXCEPT ![d].pc = "restore"]
  <2> DEFINE r == [x EXCEPT !.pc = "restore"]
             new == [kind |-> "disposable", by |-> d, rows |-> 0]
  <2>1. drill' = [drill EXCEPT ![d] = r] /\ servers' = [servers EXCEPT ![t] = new]
    BY <1>5
  <2>2. new \in Databases /\ new.by = d /\ new # Absent
    BY DEF Databases, Absent
  <2> HIDE DEF new, x, t
  <2>3. servers' \in [Targets -> {Absent} \union Databases] /\ servers'[t] = new
        /\ \A u \in Targets \ {t} : servers'[u] = servers[u]
    BY <1>1, <1>2, <2>1, <2>2 DEF DrillsTyped
  <2>4. /\ r \in RestoreDrills \union Recoveries /\ r.pc = "restore" /\ r.target = x.target /\ r.stamp = x.stamp
        /\ x \in RestoreDrills => r \in RestoreDrills /\ r \notin Recoveries /\ r.expect = x.expect
        /\ x \in Recoveries => r \in Recoveries /\ r \notin RestoreDrills
                               /\ r.results = x.results /\ r.record = x.record
    BY <1>2, <1>4, Staged
  <2> HIDE DEF r
  <2>5. x.pc = "create"
    BY <1>1 DEF x
  <2>6. servers'[r.target] = new
    BY <2>3, <2>4 DEF t
  <2>7. DrillSound(d, r, servers', local)
    BY <1>2, <1>3, <2>2, <2>4, <2>5, <2>6 DEF DrillSound, OwnTarget, CountsHold, EvidenceHolds, Working
  <2>8. r \in RestoreDrills /\ r.stamp # 0 => Settled(backup, r.stamp)
    BY <1>2, <1>3, <2>4
  <2>9. servers'[t] = Absent \/ servers'[t].by = d
    BY <2>2, <2>3
  <2> QED BY <1>1, <1>2, <1>5, <2>1, <2>3, <2>4, <2>7, <2>8, <2>9, OneMoves DEF x, t
<1>6. CASE drill' = [drill EXCEPT ![d].pc = "failed"] /\ UNCHANGED servers
  <2> DEFINE r == [x EXCEPT !.pc = "failed"]
  <2>1. drill' = [drill EXCEPT ![d] = r]
    BY <1>6
  <2>5. x.pc = "create"
    BY <1>1
  <2> HIDE DEF x, t
  <2>4. /\ r \in RestoreDrills \union Recoveries /\ r.pc = "failed" /\ r.target = x.target /\ r.stamp = x.stamp
        /\ x \in RestoreDrills => r \in RestoreDrills /\ r \notin Recoveries /\ r.expect = x.expect
        /\ x \in Recoveries => r \in Recoveries /\ r \notin RestoreDrills
                               /\ r.results = x.results /\ r.record = x.record
    BY <1>2, <1>4, Staged
  <2> HIDE DEF r
  <2>7. DrillSound(d, r, servers, local)
    BY <1>2, <1>3, <2>4, <2>5 DEF DrillSound, OwnTarget, CountsHold, EvidenceHolds, Working
  <2>8. r \in RestoreDrills /\ r.stamp # 0 => Settled(backup, r.stamp)
    BY <1>2, <1>3, <2>4
  <2>9. servers' \in [Targets -> {Absent} \union Databases]
    BY <1>1, <1>6 DEF DrillsTyped
  <2> QED BY <1>1, <1>2, <1>6, <2>1, <2>4, <2>7, <2>8, <2>9, OneMoves
<1> QED BY <1>5, <1>6 DEF CreateTarget

\* What a drill restores is what the archive of its stamp holds.
LEMMA ArchiveIs ==
    ASSUME FilesInv, DrillsInv, NEW d \in Drills, drill[d].pc # "idle", ArchiveBytes(d) # Damaged
    PROVE  /\ ArchiveBytes(d) \in Int
           /\ drill[d].stamp = 0 => ArchiveBytes(d) = drill[d].bytes
           /\ drill[d].stamp # 0 => \A g \in local : Names(g, drill[d].stamp, "manifest") => ArchiveBytes(d) = g.sha
<1> DEFINE s == drill[d].stamp
           a == File(local, s, "dump")
<1>1. local \subseteq Dumps \union Manifests /\ drill[d].bytes \in Int
  BY Underway DEF FilesInv, FilesTyped
<1>2. CASE s = 0
  BY <1>1, <1>2 DEF ArchiveBytes
<1>3. CASE s # 0
  <2>1. a # Absent /\ ArchiveBytes(d) = a.bytes
    BY <1>3 DEF ArchiveBytes
  <2>2. a \in local /\ Names(a, s, "dump")
    BY <1>1, <2>1, FileFound
  <2> HIDE DEF a
  <2>3. a.bytes \in Int
    BY <1>1, <2>2 DEF Dumps, Manifests
  <2>4. \A g \in local : Names(g, s, "manifest") => a.bytes = g.sha
    BY <2>1, <2>2 DEF Names, FilesInv, LocalFits
  <2> QED BY <1>3, <2>1, <2>3, <2>4
<1> QED BY <1>2, <1>3

\* The archive is read again, or cannot be.
LEMMA RestoreStep ==
    ASSUME FilesInv, DrillsInv, NEW d \in Drills, Restore(d)
    PROVE  DrillsInv'
<1> DEFINE x == drill[d]
           t == x.target
<1>1. /\ x.pc = "restore" /\ UNCHANGED <<backup, local, dropped>> /\ DrillsTyped
      /\ \A p \in dropped' : p[1] = p[2]
  BY DEF Restore, DrillsInv
<1>2. x \in RestoreDrills \union Recoveries /\ t \in Targets
  BY <1>1, Underway
<1>3. DrillSound(d, x, servers, local) /\ (x \in RestoreDrills /\ x.stamp # 0 => Settled(backup, x.stamp))
  BY DEF DrillsInv
<1>4. "check" \in DrillPcs /\ "dropfailed" \in DrillPcs
  BY DEF DrillPcs, Working
<1>5. servers[t] # Absent /\ servers[t].by = d /\ servers[t] \in Databases
  BY <1>1, <1>2, <1>3 DEF DrillSound, OwnTarget, Working, DrillsTyped
<1>6. CASE /\ ArchiveBytes(d) # Damaged
           /\ servers' = [servers EXCEPT ![t].rows = ArchiveBytes(d)]
           /\ drill' = [drill EXCEPT ![d].pc = "check"]
  <2>1. /\ ArchiveBytes(d) \in Int
        /\ x.stamp = 0 => ArchiveBytes(d) = x.bytes
        /\ x.stamp # 0 => \A g \in local : Names(g, x.stamp, "manifest") => ArchiveBytes(d) = g.sha
    BY <1>1, <1>6, ArchiveIs
  <2>2. SUFFICES ASSUME NEW bytes \in Int, bytes = ArchiveBytes(d) PROVE DrillsInv'
    BY <2>1
  <2> DEFINE r == [x EXCEPT !.pc = "check"]
             new == [servers[t] EXCEPT !.rows = bytes]
  <2>3. drill' = [drill EXCEPT ![d] = r] /\ servers' = [servers EXCEPT ![t] = new]
    BY <1>6, <2>2
  <2>4. x.pc = "restore"
    BY <1>1
  <2> HIDE DEF x
  <2>5. new \in Databases /\ new.by = d /\ new.rows = bytes /\ new # Absent
    BY <1>5, <2>2 DEF Databases, Absent
  <2> HIDE DEF new, t
  <2>6. servers' \in [Targets -> {Absent} \union Databases] /\ servers'[t] = new
        /\ \A u \in Targets \ {t} : servers'[u] = servers[u]
    BY <1>1, <1>2, <2>3, <2>5 DEF DrillsTyped
  <2>7. /\ r \in RestoreDrills \union Recoveries /\ r.pc = "check" /\ r.target = x.target /\ r.stamp = x.stamp
        /\ r.bytes = x.bytes
        /\ x \in RestoreDrills => r \in RestoreDrills /\ r \notin Recoveries /\ r.expect = x.expect
        /\ x \in Recoveries => r \in Recoveries /\ r \notin RestoreDrills
                               /\ r.results = x.results /\ r.record = x.record
    BY <1>2, <1>4, Staged
  <2> HIDE DEF r
  <2>8. servers'[r.target] = new
    BY <2>6, <2>7 DEF t
  <2>9. OwnTarget(d, r, servers') /\ EvidenceHolds(d, r, servers')
    BY <1>2, <1>3, <2>4, <2>5, <2>7, <2>8 DEF DrillSound, OwnTarget, EvidenceHolds, Working
  <2>10. CountsHold(r, servers', local)
    BY <1>2, <1>3, <2>1, <2>2, <2>4, <2>5, <2>7, <2>8 DEF DrillSound, CountsHold
  <2>11. r \in RestoreDrills /\ r.stamp # 0 => Settled(backup, r.stamp)
    BY <1>2, <1>3, <2>7
  <2>12. servers'[t].by = d
    BY <2>5, <2>6
  <2> QED BY <1>1, <1>2, <1>5, <2>3, <2>6, <2>7, <2>9, <2>10, <2>11, <2>12, OneMoves DEF DrillSound
<1>7. CASE drill' = [drill EXCEPT ![d].pc = "dropfailed"] /\ UNCHANGED servers
  <2> DEFINE r == [x EXCEPT !.pc = "dropfailed"]
  <2>1. drill' = [drill EXCEPT ![d] = r] /\ x.pc = "restore"
    BY <1>1, <1>7
  <2> HIDE DEF x, t
  <2>4. /\ r \in RestoreDrills \union Recoveries /\ r.pc = "dropfailed" /\ r.target = x.target /\ r.stamp = x.stamp
        /\ x \in RestoreDrills => r \in RestoreDrills /\ r \notin Recoveries /\ r.expect = x.expect
        /\ x \in Recoveries => r \in Recoveries /\ r \notin RestoreDrills
                               /\ r.results = x.results /\ r.record = x.record
    BY <1>2, <1>4, Staged
  <2> HIDE DEF r
  <2>7. DrillSound(d, r, servers, local)
    BY <1>2, <1>3, <2>4, <2>1 DEF DrillSound, OwnTarget, CountsHold, EvidenceHolds, Working
  <2>8. r \in RestoreDrills /\ r.stamp # 0 => Settled(backup, r.stamp)
    BY <1>2, <1>3, <2>4
  <2>9. servers' \in [Targets -> {Absent} \union Databases]
    BY <1>1, <1>7 DEF DrillsTyped
  <2> QED BY <1>1, <1>2, <1>7, <2>1, <2>4, <2>7, <2>8, <2>9, OneMoves
<1> QED BY <1>6, <1>7 DEF Restore

\* The counts are compared.
LEMMA CompareStep ==
    ASSUME DrillsInv, NEW d \in Drills, CompareCounts(d)
    PROVE  DrillsInv'
<1> DEFINE x == drill[d]
           fits == servers[x.target].rows = x.expect
           at == IF fits THEN "drop" ELSE "dropfailed"
           r == [x EXCEPT !.pc = at]
<1>1. /\ x.pc = "check" /\ x.program = "restore_drill" /\ drill' = [drill EXCEPT ![d] = r]
      /\ UNCHANGED <<backup, local, servers, dropped>> /\ DrillsTyped
      /\ \A p \in dropped' : p[1] = p[2]
  BY DEF CompareCounts, DrillsInv
<1>2. x \in RestoreDrills /\ x.target \in Targets
  BY <1>1, Underway
<1>3. DrillSound(d, x, servers, local) /\ (x.stamp # 0 => Settled(backup, x.stamp))
  BY <1>2 DEF DrillsInv
<1>4. at \in DrillPcs /\ at \in {"drop", "dropfailed"} /\ (at = "drop" => servers[x.target].rows = x.expect)
  BY DEF DrillPcs, Working
<1> HIDE DEF x, at
<1>5. /\ r \in RestoreDrills /\ r.pc = at /\ r.target = x.target /\ r.stamp = x.stamp
      /\ r.bytes = x.bytes /\ r \notin Recoveries /\ r.expect = x.expect
  BY <1>2, <1>4, Staged
<1> HIDE DEF r
<1>6. DrillSound(d, r, servers, local)
  BY <1>1, <1>2, <1>3, <1>4, <1>5 DEF DrillSound, OwnTarget, CountsHold, EvidenceHolds, Working
<1>7. servers' \in [Targets -> {Absent} \union Databases]
  BY <1>1 DEF DrillsTyped
<1> QED BY <1>1, <1>2, <1>3, <1>5, <1>6, <1>7, OneMoves
\* The next assertion, or the end of the list.
LEMMA AssertStep ==
    ASSUME DrillsInv, NEW d \in Drills, RunAssertion(d)
    PROVE  DrillsInv'
<1> DEFINE x == drill[d]
           done == x.results
           verdict == IF "fail" \in {done[j] : j \in DOMAIN done} THEN "not_run"
                      ELSE IF servers[x.target].rows >= Assertions[Len(done) + 1] THEN "pass" ELSE "fail"
           results == Append(done, verdict)
           at == IF done # << >> /\ {done[j] : j \in DOMAIN done} = {"pass"} THEN "drop" ELSE "dropfailed"
<1>1. /\ x.pc = "check" /\ x.program = "recovery"
      /\ UNCHANGED <<backup, local, servers, dropped>> /\ DrillsTyped
      /\ \A p \in dropped' : p[1] = p[2]
      /\ IF Len(done) + 1 <= Len(Assertions)
         THEN drill' = [drill EXCEPT ![d].results = results]
         ELSE drill' = [drill EXCEPT ![d].record.assertions = done, ![d].pc = at]
  BY DEF RunAssertion, DrillsInv
<1>2. x \in Recoveries /\ x.target \in Targets
  BY <1>1, Underway
<1>3. DrillSound(d, x, servers, local)
  BY DEF DrillsInv
<1>4. servers' \in [Targets -> {Absent} \union Databases]
  BY <1>1 DEF DrillsTyped
<1>5. Len(Assertions) \in Nat
  BY AssertionsAreListed
<1>6. done \in Seq(Verdicts) /\ verdict \in Verdicts /\ Len(done) <= Len(Assertions)
  BY <1>2, <1>3 DEF Recoveries, Verdicts, DrillSound, EvidenceHolds
<1>7. CASE Len(done) + 1 <= Len(Assertions)
  <2> DEFINE r == [x EXCEPT !.results = results]
  <2>1. drill' = [drill EXCEPT ![d] = r]
    BY <1>1, <1>7
  <2> HIDE DEF verdict
  <2>2. results \in Seq(Verdicts) /\ Len(results) = Len(done) + 1
    BY <1>6, AppendProperties
  <2> HIDE DEF results
  <2>3. x.pc = "check"
    BY <1>1
  <2> HIDE DEF x
  <2>4. /\ r \in Recoveries /\ r.pc = x.pc /\ r.target = x.target /\ r.record = x.record /\ r.results = results
    BY <1>2, <2>2 DEF Recoveries
  <2>5. r \notin RestoreDrills
    BY <2>4 DEF Recoveries, RestoreDrills
  <2> HIDE DEF r
  <2>6. DrillSound(d, r, servers, local)
    BY <1>2, <1>3, <1>7, <2>2, <2>3, <2>4, <2>5 DEF DrillSound, OwnTarget, CountsHold, EvidenceHolds, Working
  <2> QED BY <1>1, <1>2, <1>4, <2>1, <2>4, <2>5, <2>6, OneMoves
<1>8. CASE ~(Len(done) + 1 <= Len(Assertions))
  <2> DEFINE record == [x.record EXCEPT !.assertions = done]
             q == [x EXCEPT !.record = record]
             r == [q EXCEPT !.pc = at]
  <2>1. drill' = [drill EXCEPT ![d] = r]
    BY <1>1, <1>2, <1>8 DEF DrillsTyped
  <2>2. at \in {"drop", "dropfailed"} /\ (at = "drop" => AllPass(done))
    <3>1. Len(done) = Len(Assertions)
      BY <1>5, <1>6, <1>8
    <3>2. at = "drop" => done # << >> /\ \A j \in 1..Len(done) : done[j] = "pass"
      <4>1. DOMAIN done = 1..Len(done)
        BY <1>6
      <4> QED BY <4>1
    <3> QED BY <3>1, <3>2 DEF AllPass
  <2>3. x.pc = "check"
    BY <1>1
  <2>4. x.record \in Records
    BY <1>2 DEF Recoveries
  <2> HIDE DEF at, x
  <2>5. record \in Records /\ record.assertions = done /\ record.gate = x.record.gate
    BY <1>6, <2>4 DEF Records
  <2> HIDE DEF record
  <2>6. q \in Recoveries /\ q.target = x.target /\ q.record = record /\ q.results = done
    BY <1>2, <2>5 DEF Recoveries
  <2>7. at \in DrillPcs
    BY <2>2 DEF DrillPcs, Working
  <2> HIDE DEF q
  <2>8. r \in Recoveries /\ r \notin RestoreDrills /\ r.pc = at /\ r.target = x.target /\ r.record = record
        /\ r.results = done
    BY <2>6, <2>7, Staged
  <2> HIDE DEF r, done
  <2>9. DrillSound(d, r, servers, local)
    BY <1>2, <1>3, <1>6, <2>2, <2>3, <2>5, <2>8
       DEF DrillSound, OwnTarget, CountsHold, EvidenceHolds, Working
  <2> QED BY <1>1, <1>2, <1>4, <2>1, <2>8, <2>9, OneMoves
<1> QED BY <1>7, <1>8

\* The end of a drill: its database is dropped or reported.
LEMMA DropStep ==
    ASSUME DrillsInv, NEW d \in Drills, DropTarget(d)
    PROVE  DrillsInv'
<1> DEFINE x == drill[d]
           t == x.target
           passed == x.pc = "drop"
           end(yes) == IF yes THEN "passed" ELSE "failed"
<1>1. /\ x.pc \in {"drop", "dropfailed"} /\ UNCHANGED <<backup, local>> /\ DrillsTyped
  BY DEF DropTarget, DrillsInv
<1>2. x \in RestoreDrills \union Recoveries /\ t \in Targets
      /\ (x.program = "restore_drill" <=> x \in RestoreDrills)
  BY <1>1, Underway
<1>3. DrillSound(d, x, servers, local) /\ (x \in RestoreDrills /\ x.stamp # 0 => Settled(backup, x.stamp))
  BY DEF DrillsInv
<1>4. PICK ok \in BOOLEAN :
       /\ servers' = IF ok THEN [servers EXCEPT ![drill[d].target] = Absent] ELSE servers
       /\ dropped' = IF ok /\ servers[drill[d].target] # Absent
                     THEN dropped \cup {<<d, servers[drill[d].target].by>>} ELSE dropped
       /\ drill' = [drill EXCEPT ![d] =
            IF drill[d].program = "restore_drill" THEN [@ EXCEPT !.pc = end(passed)]
            ELSE [@ EXCEPT !.pc = end(passed /\ ok),
                           !.record.result = IF passed THEN "pass" ELSE "fail",
                           !.record.cleanup = IF ok THEN "pass" ELSE "fail",
                           !.record.gate = IF passed /\ ok THEN "pass" ELSE "blocked"]]
  BY DEF DropTarget
<1>5. servers[t] # Absent /\ servers[t].by = d /\ servers[t] \in Databases
  BY <1>1, <1>2, <1>3 DEF DrillSound, OwnTarget, Working, DrillsTyped
<1>6. \A p \in dropped' : p[1] = p[2]
  BY <1>4, <1>5 DEF DrillsInv
<1>7. /\ servers' \in [Targets -> {Absent} \union Databases]
      /\ \A u \in Targets \ {t} : servers'[u] = servers[u]
      /\ servers'[t] = Absent \/ servers'[t].by = d
      /\ ok => servers'[t] = Absent
  BY <1>1, <1>2, <1>4, <1>5 DEF DrillsTyped
<1>8. CASE x \in RestoreDrills
  <2> DEFINE at == end(passed)
             r == [x EXCEPT !.pc = at]
  <2>1. drill' = [drill EXCEPT ![d] = r]
    BY <1>2, <1>4, <1>8
  <2>2. at \in {"passed", "failed"}
    OBVIOUS
  <2>3. at \in DrillPcs
    BY <2>2 DEF DrillPcs
  <2> HIDE DEF x, at
  <2>4. /\ r \in RestoreDrills /\ r \notin Recoveries /\ r.pc = at /\ r.stamp = x.stamp
        /\ r.expect = x.expect
    BY <1>8, <2>3, Staged
  <2> HIDE DEF r, t
  <2>5. DrillSound(d, r, servers', local)
    BY <1>3, <1>8, <2>2, <2>4 DEF DrillSound, OwnTarget, CountsHold, EvidenceHolds, Working
  <2>6. r.stamp # 0 => Settled(backup, r.stamp)
    BY <1>3, <1>8, <2>4
  <2> QED BY <1>1, <1>2, <1>5, <1>6, <1>7, <2>1, <2>4, <2>5, <2>6, OneMoves
<1>9. CASE x \in Recoveries
  <2> DEFINE at == end(passed /\ ok)
             result == IF passed THEN "pass" ELSE "fail"
             cleanup == IF ok THEN "pass" ELSE "fail"
             gate == IF passed /\ ok THEN "pass" ELSE "blocked"
             r1 == [x.record EXCEPT !.result = result]
             r2 == [r1 EXCEPT !.cleanup = cleanup]
             r3 == [r2 EXCEPT !.gate = gate]
             q == [x EXCEPT !.pc = at]
             r == [q EXCEPT !.record = r3]
  <2>1. drill' = [drill EXCEPT ![d] = r]
    <3>1. x \notin RestoreDrills
      BY <1>9 DEF Recoveries, RestoreDrills
    <3>2. x = drill[d] /\ drill[d].program # "restore_drill"
      BY <1>2, <3>1
    <3>3. drill' = [drill EXCEPT ![d] = [x EXCEPT !.pc = at, !.record.result = result,
                                                  !.record.cleanup = cleanup, !.record.gate = gate]]
      BY <1>4, <3>2
    <3> HIDE DEF x, at, result, cleanup, gate
    <3>4. [x EXCEPT !.pc = at, !.record.result = result, !.record.cleanup = cleanup, !.record.gate = gate] = r
      BY <1>9 DEF Recoveries, Records
    <3> QED BY <3>3, <3>4
  <2>2. /\ at \in {"passed", "failed"} /\ result \in {"pass", "fail"} /\ cleanup \in {"pass", "fail"}
        /\ gate \in {"pass", "blocked"}
        /\ gate = "pass" => at = "passed" /\ result = "pass" /\ cleanup = "pass" /\ passed /\ ok
        /\ at = "passed" => gate = "pass"
    OBVIOUS
  <2>3. at \in DrillPcs
    BY <2>2 DEF DrillPcs
  <2>4. x.record \in Records /\ (passed => x.pc = "drop")
    BY <1>9 DEF Recoveries
  <2> HIDE DEF x, at, result, cleanup, gate, passed
  <2>5. r1 \in Records /\ r1.result = result /\ r1.assertions = x.record.assertions
    BY <2>2, <2>4 DEF Records
  <2> HIDE DEF r1
  <2>6. r2 \in Records /\ r2.result = result /\ r2.cleanup = cleanup /\ r2.assertions = x.record.assertions
    BY <2>2, <2>5 DEF Records
  <2> HIDE DEF r2
  <2>7. /\ r3 \in Records /\ r3.result = result /\ r3.cleanup = cleanup /\ r3.gate = gate
        /\ r3.assertions = x.record.assertions
    BY <2>2, <2>6 DEF Records
  <2> HIDE DEF r3
  <2>8. q \in Recoveries /\ q.pc = at /\ q.target = x.target /\ q.results = x.results
    BY <1>9, <2>3, Staged
  <2> HIDE DEF q
  <2>9. r \in Recoveries /\ r.pc = at /\ r.target = x.target /\ r.results = x.results /\ r.record = r3
    BY <2>7, <2>8 DEF Recoveries
  <2>10. r \notin RestoreDrills
    BY <2>9 DEF Recoveries, RestoreDrills
  <2> HIDE DEF r
  <2>11. r.target = t
    BY <2>9
  <2> HIDE DEF t
  <2>12. DrillSound(d, r, servers', local)
    <3>1. OwnTarget(d, r, servers') /\ CountsHold(r, servers', local)
      BY <2>2, <2>9, <2>10 DEF OwnTarget, CountsHold, Working
    <3>2. Len(r.results) <= Len(Assertions) /\ r.pc # "drop"
      BY <1>3, <1>9, <2>2, <2>9 DEF DrillSound, EvidenceHolds
    <3>3. r.record.gate = "pass" => /\ r.pc = "passed" /\ r.record.result = "pass" /\ r.record.cleanup = "pass"
                                    /\ AllPass(r.record.assertions) /\ servers'[r.target] = Absent
      BY <1>3, <1>7, <1>9, <2>2, <2>4, <2>7, <2>9, <2>11 DEF DrillSound, EvidenceHolds
    <3>4. r.pc = "passed" => r.record.gate = "pass"
      BY <2>2, <2>7, <2>9
    <3> QED BY <3>1, <3>2, <3>3, <3>4 DEF DrillSound, EvidenceHolds
  <2> QED BY <1>1, <1>2, <1>5, <1>6, <1>7, <2>1, <2>9, <2>10, <2>12, OneMoves
<1> QED BY <1>2, <1>8, <1>9

\* A drill is killed; its database stays.
LEMMA DieStep ==
    ASSUME DrillsInv, NEW d \in Drills, DrillDies(d)
    PROVE  DrillsInv'
<1>1. /\ drill[d].pc # "idle" /\ drill' = [drill EXCEPT ![d] = NoDrill]
      /\ UNCHANGED <<backup, local, servers, dropped>> /\ DrillsTyped
      /\ \A p \in dropped' : p[1] = p[2]
  BY DEF DrillDies, DrillsInv
<1>2. NoDrill \in NoDrills /\ NoDrill.pc = "idle" /\ NoDrill \notin RestoreDrills /\ NoDrill \notin Recoveries
  BY DEF NoDrill, NoDrills, RestoreDrills, Recoveries, DrillPcs, Working
<1>3. DrillSound(d, NoDrill, servers, local)
  BY <1>2 DEF DrillSound, OwnTarget, CountsHold, EvidenceHolds, Working
<1>4. drill[d].target \in Targets
  BY <1>1, Underway
<1>5. servers' \in [Targets -> {Absent} \union Databases]
  BY <1>1 DEF DrillsTyped
<1> QED BY <1>1, <1>2, <1>3, <1>4, <1>5, OneMoves

(***************************************************************************)
(* Both together.                                                          *)
(***************************************************************************)
\* Every step keeps the files and the drills.
LEMMA BackupStep ==
    ASSUME FilesInv, DrillsInv, [BackupNext]_backupVars
    PROVE  FilesInv' /\ DrillsInv'
<1>0. live \in Nat
  BY DEF FilesInv, FilesTyped
<1>1. ASSUME live' \in Nat, UNCHANGED <<today, backup, announced, local, remote>> PROVE FilesInv'
  BY <1>1, FilesStand
<1>2. ASSUME UNCHANGED <<backup, local, servers, drill, dropped>> PROVE DrillsInv'
  BY <1>2 DEF DrillsInv, DrillsTyped
<1>3. ASSUME FilesInv', UNCHANGED <<servers, drill, dropped>>,
             \A g \in local' : g \in local \/ g.part = "dump" \/ (g.stamp = backup.stamp /\ backup.step = "dumped"),
             backup'.stamp = backup.stamp, backup'.step \notin {"counted", "dumped"}
      PROVE  DrillsInv'
  <2>1. \A s \in Nat \ {0} : Settled(backup, s) => Settled(backup', s)
    BY <1>3 DEF Settled
  <2> QED BY <1>3, <2>1, DrillsStand
<1>4. CASE \E n \in 0..MaxLive : LiveWrite(n)
  <2>1. live' \in Nat /\ UNCHANGED <<today, backup, announced, local, remote, servers, drill, dropped>>
    BY <1>4 DEF LiveWrite
  <2> QED BY <1>1, <1>2, <2>1
<1>5. CASE DayPasses
  BY <1>2, <1>5, DayStep DEF DayPasses
<1>6. ASSUME NEW f \in local, ArchiveRots(f) PROVE FilesInv' /\ DrillsInv'
  <2>1. f \in Dumps
    BY <1>6 DEF ArchiveRots, FilesInv, FilesTyped, Dumps, Manifests
  <2>2. [f EXCEPT !.bytes = Damaged].part = "dump"
    BY <2>1 DEF Dumps
  <2>3. (\A g \in local' : g \in local \/ g.part = "dump") /\ UNCHANGED <<backup, servers, drill, dropped>>
    BY <1>6, <2>2 DEF ArchiveRots
  <2> QED BY <1>6, <2>3, RotStep, DrillsStand
<1>7. CASE CountRows
  <2>1. /\ backup'.stamp = backup.stamp + 1 /\ backup.stamp \in Nat
        /\ UNCHANGED <<local, servers, drill, dropped>>
    BY <1>7 DEF CountRows, FilesInv, FilesTyped
  <2>2. \A s \in Nat \ {0} : Settled(backup, s) => Settled(backup', s)
    BY <2>1 DEF Settled
  <2> QED BY <1>7, <2>1, <2>2, CountStep, DrillsStand
<1>8. CASE Dump
  <2>1. /\ backup.step = "counted" /\ backup'.stamp = backup.stamp /\ UNCHANGED <<servers, drill, dropped>>
        /\ \A g \in local' : g \in local \/ g.part = "dump"
    BY <1>8 DEF Dump, FilesInv, FilesTyped
  <2>2. \A s \in Nat \ {0} : Settled(backup, s) => Settled(backup', s)
    BY <2>1 DEF Settled
  <2> QED BY <1>8, <2>1, <2>2, DumpStep, DrillsStand
<1>9. CASE WriteManifest
  BY <1>3, <1>9, ManifestStep DEF WriteManifest, FilesInv, FilesTyped
<1>10. CASE PruneLocal
  BY <1>3, <1>10, PruneLocalStep DEF PruneLocal, FilesInv, FilesTyped
<1>11. CASE Upload
  BY <1>3, <1>11, UploadStep DEF Upload, FilesInv, FilesTyped
<1>12. CASE PruneRemote
  BY <1>3, <1>12, PruneRemoteStep DEF PruneRemote, FilesInv, FilesTyped
<1>13. CASE BackupEnds
  BY <1>3, <1>13, DrillEnds DEF BackupEnds, FilesInv, FilesTyped
<1>14. ASSUME NEW d \in Drills, NEW t \in Targets,
              \/ \E stamp \in 0..MaxBackups : StartRestoreDrill(d, t, stamp)
              \/ \E stamp \in 1..MaxBackups, o \in {"assigned", "tbd"} : StartRecovery(d, t, stamp, o)
       PROVE  FilesInv' /\ DrillsInv'
  <2>1. UNCHANGED <<live, today, backup, announced, local, remote>>
    BY <1>14 DEF StartRestoreDrill, StartRecovery
  <2>2. DrillsInv'
    BY <1>14, StartRestoreStep, StartRecoveryStep
  <2> QED BY <1>0, <1>1, <2>1, <2>2
<1>15. ASSUME NEW d \in Drills,
              Export(d) \/ CreateTarget(d) \/ Restore(d) \/ CompareCounts(d)
                \/ RunAssertion(d) \/ DropTarget(d) \/ DrillDies(d)
       PROVE  FilesInv' /\ DrillsInv'
  <2>1. UNCHANGED <<live, today, backup, announced, local, remote>>
    BY <1>15 DEF Export, CreateTarget, Restore, CompareCounts, RunAssertion, DropTarget, DrillDies
  <2>2. DrillsInv'
    BY <1>15, ExportStep, CreateStep, RestoreStep, CompareStep, AssertStep, DropStep, DieStep
  <2> QED BY <1>0, <1>1, <2>1, <2>2
<1>16. CASE UNCHANGED backupVars
  BY <1>0, <1>1, <1>2, <1>16 DEF backupVars
<1> QED BY <1>4, <1>5, <1>6, <1>7, <1>8, <1>9, <1>10, <1>11, <1>12, <1>13, <1>14, <1>15, <1>16 DEF BackupNext

\* The invariant keeps what was announced.
LEMMA FilesInvKeeps ==
    FilesInv => AnnouncedBackupsAreKept
<1> SUFFICES ASSUME FilesInv, NEW a \in announced
             PROVE  /\ Recent(a, RetentionDays) =>
                         Absent \notin {File(local, a.stamp, "dump"), File(local, a.stamp, "manifest")}
                    /\ Recent(a, RemoteRetentionDays) /\ File(remote, a.stamp, "manifest") # Absent =>
                         File(remote, a.stamp, "dump") # Absent
  BY DEF AnnouncedBackupsAreKept
<1>1. local \subseteq Dumps \union Manifests /\ remote \subseteq Dumps \union Manifests
  BY DEF FilesInv, FilesTyped
<1>2. /\ Recent(a, RetentionDays) => KeptLocally(a, local)
      /\ Recent(a, RemoteRetentionDays) => KeptRemotely(a, remote)
  BY DEF FilesInv, AnnouncedHold
<1>3. Recent(a, RetentionDays) => Has(local, a.stamp, "dump") /\ Has(local, a.stamp, "manifest")
  BY <1>2 DEF KeptLocally, Has
<1>4. Recent(a, RemoteRetentionDays) /\ Has(remote, a.stamp, "manifest") => Has(remote, a.stamp, "dump")
  BY <1>2 DEF KeptRemotely, Has
<1> QED BY <1>1, <1>3, <1>4, FileFound

\* The invariant keeps the drills honest.
LEMMA DrillsInvHonest ==
    FilesInv /\ DrillsInv => DrillsAreHonest
<1> SUFFICES ASSUME FilesInv, DrillsInv PROVE DrillsAreHonest
  OBVIOUS
<1>1. OwnTargetsDropped
  BY DEF OwnTargetsDropped, DrillsInv, DrillSound, OwnTarget, Working
<1>2. ASSUME NEW d \in Drills, drill[d].pc = "drop", drill[d].program = "restore_drill"
      PROVE  LET m == File(local, drill[d].stamp, "manifest") IN
             IF drill[d].stamp = 0 THEN servers[drill[d].target].rows = drill[d].bytes
             ELSE m # Absent => servers[drill[d].target].rows = m.bytes /\ m.bytes = m.sha
  <2>1. drill[d] \in RestoreDrills /\ CountsHold(drill[d], servers, local)
    BY <1>2, Underway DEF DrillsInv, DrillSound
  <2> DEFINE m == File(local, drill[d].stamp, "manifest")
  <2>2. local \subseteq Dumps \union Manifests
    BY DEF FilesInv, FilesTyped
  <2>3. m # Absent => m \in local /\ Names(m, drill[d].stamp, "manifest")
    BY <2>2, FileFound
  <2> HIDE DEF m
  <2>4. drill[d].stamp # 0 /\ m # Absent => servers[drill[d].target].rows = m.bytes /\ m.bytes = m.sha
    BY <1>2, <2>1, <2>3 DEF CountsHold
  <2>5. drill[d].stamp = 0 => servers[drill[d].target].rows = drill[d].bytes
    BY <1>2, <2>1 DEF CountsHold
  <2> QED BY <2>4, <2>5 DEF m
<1>3. ASSUME NEW d \in Drills, drill[d].pc \in {"passed", "failed"}, drill[d].program = "recovery"
      PROVE  /\ drill[d].record.owners = "assigned" <=> EvidenceErrors(drill[d].record) = {}
             /\ drill[d].record.gate = "pass" =>
                  \A i \in DOMAIN Assertions : drill[d].record.assertions[i] = "pass"
  <2>1. drill[d] \in Recoveries /\ EvidenceHolds(d, drill[d], servers)
    BY <1>3, Underway DEF DrillsInv, DrillSound
  <2>2. SUFFICES ASSUME NEW r, r = drill[d].record, NEW target, target = drill[d].target
                 PROVE  /\ r.owners = "assigned" <=> EvidenceErrors(r) = {}
                        /\ r.gate = "pass" =>
                             \A i \in DOMAIN Assertions : r.assertions[i] = "pass"
    OBVIOUS
  <2>3. /\ r \in Records
        /\ r.gate = "pass" => /\ r.result = "pass" /\ r.cleanup = "pass" /\ AllPass(r.assertions)
                              /\ servers[target] # Absent => servers[target].by # d
    BY <2>1, <2>2 DEF Recoveries, EvidenceHolds
  <2>4. r.assertions \in Seq(Verdicts) /\ r.sha /\ DOMAIN r.assertions = 1..Len(r.assertions)
    <3>1. r.assertions \in Seq(Verdicts)
      BY <2>3 DEF Records
    <3>2. r.sha \in {TRUE}
      BY <2>3 DEF Records
    <3>3. r.sha
      BY <3>2, Zenon
    <3>4. DOMAIN r.assertions = 1..Len(r.assertions)
      BY <3>1
    <3> QED BY <3>1, <3>3, <3>4
  <2>5. r.gate = "pass" => {r.assertions[i] : i \in DOMAIN r.assertions} = {"pass"}
    <3>1. r.gate = "pass" => 1 \in 1..Len(r.assertions)
      BY <2>3, <2>4 DEF AllPass
    <3> QED BY <2>3, <2>4, <3>1 DEF AllPass
  <2>6. EvidenceErrors(r) = IdentityErrors(r)
    BY <2>3, <2>5 DEF EvidenceErrors
  <2>7. r.owners = "assigned" <=> EvidenceErrors(r) = {}
    BY <2>4, <2>6 DEF IdentityErrors
  <2>8. DOMAIN Assertions = 1..Len(Assertions)
    BY AssertionsAreListed
  <2> QED BY <2>3, <2>7, <2>8 DEF AllPass
<1>4. ASSUME NEW d \in Drills, drill[d].pc = "passed", LeftBehind(d)
      PROVE  drill[d].program = "restore_drill"
  <2>1. drill[d] \in RestoreDrills \union Recoveries /\ EvidenceHolds(d, drill[d], servers)
    BY <1>4, Underway DEF DrillsInv, DrillSound
  <2>2. drill[d] \notin Recoveries
    BY <1>4, <2>1 DEF EvidenceHolds, LeftBehind
  <2> QED BY <2>1, <2>2 DEF RestoreDrills
<1> QED BY <1>1, <1>2, <1>3, <1>4 DEF DrillsAreHonest, PassedDrillsRestored

\* The two inductive invariants hold.
THEOREM BackupInvariant ==
    BackupSpec => [](FilesInv /\ DrillsInv)
<1>1. BackupInit => FilesInv /\ DrillsInv
  BY FilesStart, DrillsStart
<1>2. FilesInv /\ DrillsInv /\ [BackupNext]_backupVars => FilesInv' /\ DrillsInv'
  BY BackupStep
<1> QED BY <1>1, <1>2, PTL DEF BackupSpec

\* A backup that was announced within the retention is still there, and its
\* manifest is in the bucket only with its archive.
THEOREM BackupsAreSafe ==
    BackupSpec => []AnnouncedBackupsAreKept
<1> QED BY BackupInvariant, FilesInvKeeps, PTL

\* A drill passes only for what it has restored, evidence passes only when all
\* of it has, and a drill drops no database but its own.
THEOREM DrillsAreSafe ==
    BackupSpec => []DrillsAreHonest
<1> QED BY BackupInvariant, DrillsInvHonest, PTL

-----------------------------------------------------------------------------
\* The publisher's quality gate (QualityGate).

(***************************************************************************)
(* What the judgement of one row says.                                     *)
(***************************************************************************)
Found == Contents \union {Missing} \union {[hash |-> Manifest[s].hash, size |-> Manifest[s].size] : s \in DOMAIN Manifest}
Disks == [DOMAIN Manifest -> Found]

\* What has no codes has passed every test.
LEMMA Passed ==
    ASSUME NEW tests, Codes(tests) = {}, NEW c \in DOMAIN tests
    PROVE  ~tests[c]
BY DEF Codes

\* A row that passes by itself.
LEMMA RecordPasses ==
    ASSUME NEW r \in RowChoices, ValidateRecord(r) = {}
    PROVE  /\ ~r.blank /\ r.area > 0 /\ r.amount > 0 /\ r.rights
           /\ r.unit = (IF r.market = "sale" THEN "jpy_total" ELSE "jpy_monthly")
           /\ r.data_class \in DataClasses
           /\ r.data_class \in DataClasses \ {"synthetic_fixture"} => ~r.synthetic
<1> SUFFICES ASSUME NEW tests,
             tests = [schema_missing_field |-> r.blank,
               invalid_record_date |-> r.month = NoDate,
               invalid_source_period |-> r.from = NoDate \/ r.to = NoDate \/ r.to < r.from,
               impossible_value |-> r.area <= 0 \/ r.amount <= 0,
               invalid_market |-> r.market \notin {"sale", "rental"},
               unit_market_mismatch |-> /\ r.market \in {"sale", "rental"}
                                        /\ r.unit # (IF r.market = "sale" THEN "jpy_total" ELSE "jpy_monthly"),
               invalid_data_class |-> r.data_class \notin DataClasses,
               rights_not_confirmed |-> ~r.rights,
               synthetic_flag_mismatch |->
                 \/ r.data_class = "synthetic_fixture" /\ ~r.synthetic
                 \/ r.data_class \in DataClasses \ {"synthetic_fixture"} /\ r.synthetic],
             Codes(tests) = {}
             PROVE  /\ ~r.blank /\ r.area > 0 /\ r.amount > 0 /\ r.rights
                    /\ r.unit = (IF r.market = "sale" THEN "jpy_total" ELSE "jpy_monthly")
                    /\ r.data_class \in DataClasses
                    /\ r.data_class \in DataClasses \ {"synthetic_fixture"} => ~r.synthetic
  BY DEF ValidateRecord
<1>1. ~tests["schema_missing_field"] /\ ~tests["impossible_value"] /\ ~tests["invalid_market"]
      /\ ~tests["unit_market_mismatch"] /\ ~tests["invalid_data_class"] /\ ~tests["rights_not_confirmed"]
      /\ ~tests["synthetic_flag_mismatch"]
  BY Passed
<1>2. ~r.blank
  BY <1>1
<1>3. ~(r.area <= 0 \/ r.amount <= 0)
  BY <1>1
<1>4. r.market \in {"sale", "rental"}
  BY <1>1
<1>5. ~(r.market \in {"sale", "rental"} /\ r.unit # (IF r.market = "sale" THEN "jpy_total" ELSE "jpy_monthly"))
  BY <1>1
<1>6. r.data_class \in DataClasses
  BY <1>1
<1>7. r.rights
  BY <1>1
<1>8. ~(r.data_class \in DataClasses \ {"synthetic_fixture"} /\ r.synthetic)
  BY <1>1
<1>9. r.area > 0 /\ r.amount > 0
  BY <1>3, RowsAreRead
<1> QED BY <1>2, <1>4, <1>5, <1>6, <1>7, <1>8, <1>9
\* A factual row whose source passes is from a source that may be published
\* from, and somebody answers for.
LEMMA SourcePasses ==
    ASSUME NEW r, NEW reg, SourceErrors(r, reg) = {}, r.data_class \in FactualClasses
    PROVE  \E i \in DOMAIN reg :
              /\ reg[i].source_id = r.source_id
              /\ reg[i].permission_status = "confirmed" /\ reg[i].evidence
              /\ reg[i].permitted_use # "none"
<1>1. SourceOf(r, reg) # {}
  BY DEF SourceErrors
<1>2. SUFFICES ASSUME NEW s \in SourceOf(r, reg), NEW tests,
                      tests = [source_url_mismatch |-> ~UrlScopeMatches(r.url, s.url),
                               fixture_label_missing |-> /\ r.data_class = "synthetic_fixture"
                                                         /\ s.source_type # "synthetic_fixture" \/ ~r.synthetic,
                               authorization_missing |-> r.data_class \in FactualClasses /\ Unauthorised(s),
                               parser_version_mismatch |-> s.parser # r.parser,
                               modeled_estimate_blocked |-> r.data_class = "modeled_estimate"],
                      Codes(tests) = {}
               PROVE  s.permission_status = "confirmed" /\ s.evidence /\ s.permitted_use # "none"
  <2>1. (CHOOSE x \in SourceOf(r, reg) : TRUE) \in SourceOf(r, reg)
    BY <1>1
  <2>2. SUFFICES ASSUME NEW s, s = CHOOSE x \in SourceOf(r, reg) : TRUE
                 PROVE  \E i \in DOMAIN reg :
                            /\ reg[i].source_id = r.source_id
                            /\ reg[i].permission_status = "confirmed" /\ reg[i].evidence
                            /\ reg[i].permitted_use # "none"
    OBVIOUS
  <2>3. Codes([source_url_mismatch |-> ~UrlScopeMatches(r.url, s.url),
               fixture_label_missing |-> /\ r.data_class = "synthetic_fixture"
                                         /\ s.source_type # "synthetic_fixture" \/ ~r.synthetic,
               authorization_missing |-> r.data_class \in FactualClasses /\ Unauthorised(s),
               parser_version_mismatch |-> s.parser # r.parser,
               modeled_estimate_blocked |-> r.data_class = "modeled_estimate"]) = {}
    BY <1>1, <2>2 DEF SourceErrors
  <2>4. s \in SourceOf(r, reg)
    BY <2>1, <2>2
  <2>5. s.permission_status = "confirmed" /\ s.evidence /\ s.permitted_use # "none"
    BY <1>2, <2>3, <2>4
  <2>6. \E i \in DOMAIN reg : reg[i] = s /\ reg[i].source_id = r.source_id
    BY <2>4 DEF SourceOf
  <2> QED BY <2>5, <2>6
<1>3. ~tests["authorization_missing"]
  BY <1>2, Passed
<1>4. ~(r.data_class \in FactualClasses /\ Unauthorised(s))
  BY <1>2, <1>3
<1>5. ~Unauthorised(s)
  BY <1>4
<1> QED BY <1>5 DEF Unauthorised

\* A row whose snapshot passes was taken from the bytes that are there.
LEMMA SnapshotPasses ==
    ASSUME NEW r, NEW bytes \in Disks, SnapshotErrors(r, bytes) = {}
    PROVE  /\ r.snapshot_id \in DOMAIN bytes
           /\ bytes[r.snapshot_id] = [hash |-> r.hash, size |-> Manifest[r.snapshot_id].size]
<1>1. r.snapshot_id \in DOMAIN Manifest /\ DOMAIN bytes = DOMAIN Manifest
  BY DEF SnapshotErrors, Disks
<1> DEFINE m == Manifest[r.snapshot_id]
           b == bytes[r.snapshot_id]
<1>2. b = [hash |-> b.hash, size |-> b.size]
  <2>1. b \in Found
    BY <1>1 DEF Disks
  <2> HIDE DEF b
  <2> QED BY <2>1, RowsAreRead DEF Found, Missing
<1>3. PICK tests : /\ tests = [snapshot_source_mismatch |-> m.source_id # r.source_id,
                               snapshot_parser_mismatch |-> m.parser # r.parser,
                               snapshot_captured_at_mismatch |-> m.captured # r.captured,
                               snapshot_url_mismatch |-> m.url # r.url,
                               snapshot_content_missing |-> b = Missing,
                               snapshot_hash_mismatch |-> b # Missing /\ (b.hash # m.hash \/ b.size # m.size),
                               record_snapshot_mismatch |-> b # Missing /\ r.hash # b.hash]
                   /\ Codes(tests) = {}
  BY <1>1 DEF SnapshotErrors
<1> HIDE DEF m, b
<1>4. ~tests["snapshot_content_missing"] /\ ~tests["snapshot_hash_mismatch"] /\ ~tests["record_snapshot_mismatch"]
  BY <1>3, Passed
<1>5. b # Missing
  BY <1>3, <1>4
<1>6. ~(b # Missing /\ (b.hash # m.hash \/ b.size # m.size))
  BY <1>3, <1>4
<1>7. ~(b # Missing /\ r.hash # b.hash)
  BY <1>3, <1>4
<1>8. b = [hash |-> r.hash, size |-> m.size]
  BY <1>2, <1>5, <1>6, <1>7
<1> QED BY <1>1, <1>8 DEF m, b

\* An error-free factual row is evidenced.
LEMMA RowEvidenced ==
    ASSUME NEW d \in Seq(RowChoices), NEW i \in DOMAIN d, NEW f, f.bytes \in Disks,
           ErrorsOf(d, i, f.reg, f.bytes) = {}, d[i].data_class \in FactualClasses
    PROVE  Evidenced(d[i], f)
<1>1. d[i] \in RowChoices
  OBVIOUS
<1>2. ValidateRecord(d[i]) = {} /\ SourceErrors(d[i], f.reg) = {} /\ SnapshotErrors(d[i], f.bytes) = {}
  BY DEF ErrorsOf
<1>3. d[i].data_class \in DataClasses \ {"synthetic_fixture"}
  BY DEF FactualClasses, DataClasses
<1>4. /\ ~d[i].synthetic /\ d[i].rights /\ d[i].area > 0 /\ d[i].amount > 0
      /\ d[i].unit = (IF d[i].market = "sale" THEN "jpy_total" ELSE "jpy_monthly")
  BY <1>1, <1>2, <1>3, RecordPasses
<1>5. \E k \in DOMAIN f.reg :
         /\ f.reg[k].source_id = d[i].source_id
         /\ f.reg[k].permission_status = "confirmed" /\ f.reg[k].evidence
         /\ f.reg[k].permitted_use # "none"
  BY <1>2, SourcePasses
<1>6. /\ d[i].snapshot_id \in DOMAIN f.bytes
      /\ f.bytes[d[i].snapshot_id] = [hash |-> d[i].hash, size |-> Manifest[d[i].snapshot_id].size]
  BY <1>2, SnapshotPasses
<1> QED BY <1>4, <1>5, <1>6 DEF Evidenced

\* Of two rows of one id or one print, the second is in error.
LEMMA NoRepeat ==
    ASSUME NEW d \in Seq(RowChoices), NEW reg, NEW bytes,
           NEW i \in DOMAIN d, NEW j \in DOMAIN d, i # j,
           ErrorsOf(d, i, reg, bytes) = {}, ErrorsOf(d, j, reg, bytes) = {}
    PROVE  d[i].record_id # d[j].record_id /\ d[i].print # d[j].print
<1>1. ASSUME NEW m \in DOMAIN d, NEW n \in DOMAIN d, m < n,
             ErrorsOf(d, m, reg, bytes) = {}, ErrorsOf(d, n, reg, bytes) = {}
      PROVE  d[m].record_id # d[n].record_id /\ d[m].print # d[n].print
  <2>1. Repeats(d, n) = {} /\ ValidateRecord(d[n]) = {}
    BY <1>1 DEF ErrorsOf
  <2>2. PICK tests :
           /\ tests = [duplicate_record_id |-> \E k \in 1..(n - 1) : d[k].record_id = d[n].record_id,
                       duplicate_business_record |->
                         \E k \in 1..(n - 1) : d[k].print = d[n].print /\ d[n].print # "incomplete"]
           /\ Codes(tests) = {}
    BY <2>1 DEF Repeats
  <2>3. ~tests["duplicate_record_id"] /\ ~tests["duplicate_business_record"]
    BY <2>2, Passed
  <2>4. ~\E k \in 1..(n - 1) : d[k].record_id = d[n].record_id
    BY <2>2, <2>3
  <2>5. ~\E k \in 1..(n - 1) : d[k].print = d[n].print /\ d[n].print # "incomplete"
    BY <2>2, <2>3
  <2>6. d[n] \in RowChoices /\ m \in 1..(n - 1)
    BY <1>1
  <2>7. d[n].print # "incomplete"
    BY <2>1, <2>6, RecordPasses, RowsAreRead
  <2> QED BY <2>4, <2>5, <2>6, <2>7
<1>2. i < j \/ j < i
  OBVIOUS
<1> QED BY <1>1, <1>2

(***************************************************************************)
(* What the judgement of a data set says.                                  *)
(***************************************************************************)
\* The rows that have no error.
Good(d, reg, bytes) == {i \in DOMAIN d : ErrorsOf(d, i, reg, bytes) = {}}

Kept(d, good) == {i \in good : d[i].data_class # "modeled_estimate"}

\* The rows of i's group and month.
Bucket(d, kept, i) == {j \in kept : GroupKey(d[j]) = GroupKey(d[i]) /\ d[j].month = d[i].month}

MetricOf(d, kept, i) == [group |-> GroupKey(d[i]), month |-> d[i].month, samples |-> Bucket(d, kept, i)]

\* The metrics are those of the kept rows.
LEMMA MetricsAre ==
    ASSUME NEW d, NEW good
    PROVE  BuildMonthlyMetrics(d, good) = {MetricOf(d, Kept(d, good), i) : i \in Kept(d, good)}
BY DEF BuildMonthlyMetrics, MetricOf, Bucket, Kept

\* The kept rows of a group and a month.
Held(d, kept, group, month) == {j \in kept : GroupKey(d[j]) = group /\ d[j].month = month}

\* A metric holds the kept rows of its group and month, all of them.
LEMMA MetricHolds ==
    ASSUME NEW d, NEW good, NEW m \in BuildMonthlyMetrics(d, good)
    PROVE  /\ m.samples = Held(d, Kept(d, good), m.group, m.month)
           /\ m = [group |-> m.group, month |-> m.month, samples |-> m.samples]
           /\ m.samples # {}
<1>1. PICK i \in Kept(d, good) : m = MetricOf(d, Kept(d, good), i)
  BY MetricsAre
<1> QED BY <1>1 DEF MetricOf, Bucket, Held

\* A group has one metric for a month.
LEMMA MetricIsOne ==
    ASSUME NEW d, NEW good, NEW m \in BuildMonthlyMetrics(d, good), NEW n \in BuildMonthlyMetrics(d, good),
           m.group = n.group, m.month = n.month
    PROVE  m = n
<1>1. m.samples = n.samples
  <2>1. m.samples = Held(d, Kept(d, good), m.group, m.month)
    BY MetricHolds
  <2>2. n.samples = Held(d, Kept(d, good), n.group, n.month)
    BY MetricHolds
  <2> QED BY <2>1, <2>2
<1>2. m = [group |-> m.group, month |-> m.month, samples |-> m.samples]
  BY MetricHolds
<1>3. n = [group |-> n.group, month |-> n.month, samples |-> n.samples]
  BY MetricHolds
<1> QED BY <1>1, <1>2, <1>3

\* Every kept row is in one metric.
LEMMA CountedOnce ==
    ASSUME NEW d, NEW good, NEW i \in Kept(d, good)
    PROVE  Cardinality({m \in BuildMonthlyMetrics(d, good) : i \in m.samples}) = 1
<1> DEFINE its == MetricOf(d, Kept(d, good), i)
<1>1. its \in BuildMonthlyMetrics(d, good) /\ i \in its.samples
  BY MetricsAre DEF MetricOf, Bucket
<1>2. its.group = GroupKey(d[i]) /\ its.month = d[i].month
  BY DEF MetricOf
<1> HIDE DEF its
<1>3. ASSUME NEW m \in BuildMonthlyMetrics(d, good), i \in m.samples PROVE m = its
  <2>1. i \in Held(d, Kept(d, good), m.group, m.month)
    BY <1>3, MetricHolds
  <2>2. m.group = its.group /\ m.month = its.month
    BY <1>2, <2>1 DEF Held
  <2> QED BY <1>1, <2>2, MetricIsOne
<1>4. {m \in BuildMonthlyMetrics(d, good) : i \in m.samples} = {its}
  BY <1>1, <1>3
<1> QED BY <1>4, FS_Singleton

\* The least of some natural numbers is one of them, and least.
LEMMA LeastIs ==
    ASSUME NEW S \in SUBSET Nat, S # {}
    PROVE  Min(S) \in S /\ \A n \in S : Min(S) <= n
<1> DEFINE less == {ss \in Nat \X Nat : ss[1] < ss[2]}
<1>1. IsWellFoundedOn(less, Nat)
  BY NatLessThanWellFounded, Zenon DEF OpToRel
<1>2. PICK x \in S : \A y \in S : ~(<<y, x>> \in less)
  <2> HIDE DEF less
  <2> QED BY <1>1, WFMin
<1>3. ASSUME NEW y \in S PROVE x <= y
  <2>1. \A p \in Nat \X Nat : p[1] < p[2] => p \in less
    OBVIOUS
  <2> DEFINE p == <<y, x>>
  <2>2. p \in Nat \X Nat /\ p[1] = y /\ p[2] = x
    OBVIOUS
  <2>3. p \notin less
    BY <1>2
  <2> HIDE DEF p, less
  <2> QED BY <2>1, <2>2, <2>3
<1> QED BY <1>3 DEF Min


\* The classes of a data set, and whether it may be published.
Classes(d) == {d[i].data_class : i \in DOMAIN d}

Mixed(d) == "synthetic_fixture" \in Classes(d) /\ Classes(d) # {"synthetic_fixture"}

Publishable(d, reg, bytes) ==
  Good(d, reg, bytes) = DOMAIN d /\ "modeled_estimate" \notin Classes(d) /\ ~Mixed(d)

\* The groups of some metrics, and whether each may be shown as a trend.
Trends(metrics) == {<<m.group, TrendEligibility(metrics, m.group)>> : m \in metrics}

\* The parts of the judgement of a data set that has rows.
LEMMA CheckIs ==
    ASSUME NEW d, d # <<>>, NEW reg, NEW bytes,
           NEW verdict, verdict = QualityCheck(d, reg, bytes)
    PROVE  /\ verdict.scope = PublicationScope(Classes(d), Publishable(d, reg, bytes))
           /\ verdict.metrics = BuildMonthlyMetrics(d, Good(d, reg, bytes))
           /\ verdict.trends = Trends(BuildMonthlyMetrics(d, Good(d, reg, bytes)))
<1> DEFINE metrics == BuildMonthlyMetrics(d, Good(d, reg, bytes))
           scope == PublicationScope(Classes(d), Publishable(d, reg, bytes))
           trends == Trends(metrics)
<1>1. \E p : verdict = [publishable |-> p, scope |-> scope, metrics |-> metrics, trends |-> trends]
  BY Zenon DEF QualityCheck, Good, Classes, Publishable, Mixed, Trends
<1> HIDE DEF metrics, scope, trends
<1>2. verdict.scope = scope /\ verdict.metrics = metrics /\ verdict.trends = trends
  BY <1>1
<1> QED BY <1>2 DEF metrics, scope, trends

\* An empty data set has no metrics, and passes as nothing.
LEMMA EmptyIs ==
    ASSUME NEW reg, NEW bytes, NEW d, d = <<>>
    PROVE  /\ QualityCheck(d, reg, bytes).scope = "blocked"
           /\ QualityCheck(d, reg, bytes).metrics = {}
           /\ QualityCheck(d, reg, bytes).trends = {}
BY DEF QualityCheck

\* A data set passes as factual only when it may be published and is no fixture.
LEMMA FactualIs ==
    ASSUME NEW classes, NEW p \in BOOLEAN, PublicationScope(classes, p) = "factual_aggregate"
    PROVE  /\ p /\ classes # {"synthetic_fixture"}
           /\ ~("synthetic_fixture" \in classes /\ classes # {"synthetic_fixture"})
<1>1. CASE "synthetic_fixture" \in classes /\ classes # {"synthetic_fixture"}
  <2>1. PublicationScope(classes, p) = "blocked_mixed_fixture"
    BY <1>1 DEF PublicationScope
  <2> QED BY <2>1
<1>2. CASE classes = {"synthetic_fixture"}
  <2>1. PublicationScope(classes, p) = IF p THEN "fixture_only" ELSE "blocked_fixture"
    BY <1>2 DEF PublicationScope
  <2> QED BY <2>1
<1>3. CASE /\ ~("synthetic_fixture" \in classes /\ classes # {"synthetic_fixture"})
           /\ classes # {"synthetic_fixture"}
  <2>1. PublicationScope(classes, p) = IF p THEN "factual_aggregate" ELSE "blocked"
    BY <1>3 DEF PublicationScope
  <2> QED BY <1>3, <2>1
<1> QED BY <1>1, <1>2, <1>3

\* What a reader of the published metrics relies on, of one file.
FactIsEvidenced(f) ==
  f.verdict.scope = "factual_aggregate" =>
    /\ f.of # <<>>
    /\ \A i \in DOMAIN f.of : Evidenced(f.of[i], f)
    /\ \A i, j \in DOMAIN f.of : i # j => f.of[i].record_id # f.of[j].record_id
                                          /\ f.of[i].print # f.of[j].print
    /\ \A i \in DOMAIN f.of : Cardinality({m \in f.verdict.metrics : i \in m.samples}) = 1

\* A verdict that lets a data set pass as factual has evidence for each row.
LEMMA FactsAreEvidenced ==
    ASSUME NEW f, f.of \in Seq(RowChoices), f.bytes \in Disks,
           f.verdict = QualityCheck(f.of, f.reg, f.bytes)
    PROVE  FactIsEvidenced(f)
<1> SUFFICES ASSUME NEW d, d = f.of, f.verdict.scope = "factual_aggregate"
             PROVE  /\ d # <<>>
                    /\ \A i \in DOMAIN d : Evidenced(d[i], f)
                    /\ \A i, j \in DOMAIN d : i # j => d[i].record_id # d[j].record_id
                                                       /\ d[i].print # d[j].print
                    /\ \A i \in DOMAIN d : Cardinality({m \in f.verdict.metrics : i \in m.samples}) = 1
  BY DEF FactIsEvidenced
<1>1. d # <<>>
  BY EmptyIs
<1>2. /\ f.verdict.scope = PublicationScope(Classes(d), Publishable(d, f.reg, f.bytes))
      /\ f.verdict.metrics = BuildMonthlyMetrics(d, Good(d, f.reg, f.bytes))
  <2>1. f.verdict = QualityCheck(d, f.reg, f.bytes)
    OBVIOUS
  <2> SUFFICES ASSUME NEW reg, NEW bytes, NEW verdict, reg = f.reg, bytes = f.bytes, verdict = f.verdict
               PROVE  /\ verdict.scope = PublicationScope(Classes(d), Publishable(d, reg, bytes))
                      /\ verdict.metrics = BuildMonthlyMetrics(d, Good(d, reg, bytes))
    OBVIOUS
  <2>2. verdict = QualityCheck(d, reg, bytes)
    BY <2>1
  <2> QED BY ONLY <1>1, <2>2, CheckIs
<1>3. Publishable(d, f.reg, f.bytes) \in BOOLEAN
  BY DEF Publishable
<1>4. Publishable(d, f.reg, f.bytes) /\ Classes(d) # {"synthetic_fixture"}
  BY <1>2, <1>3, FactualIs
<1>5. /\ Good(d, f.reg, f.bytes) = DOMAIN d /\ "modeled_estimate" \notin Classes(d)
      /\ "synthetic_fixture" \notin Classes(d)
  BY <1>4 DEF Publishable, Mixed
<1>6. \A i \in DOMAIN d : ErrorsOf(d, i, f.reg, f.bytes) = {}
  BY <1>5 DEF Good
<1>7. ASSUME NEW i \in DOMAIN d
      PROVE  d[i].data_class \in FactualClasses
  <2>1. d[i] \in RowChoices
    OBVIOUS
  <2>2. ValidateRecord(d[i]) = {}
    BY <1>6 DEF ErrorsOf
  <2>3. d[i].data_class \in DataClasses
    BY <2>1, <2>2, RecordPasses
  <2>4. d[i].data_class \in Classes(d)
    BY DEF Classes
  <2> QED BY <1>5, <2>3, <2>4 DEF DataClasses
<1>8. ASSUME NEW i \in DOMAIN d
      PROVE  Evidenced(d[i], f)
  <2>1. d \in Seq(RowChoices) /\ ErrorsOf(d, i, f.reg, f.bytes) = {} /\ d[i].data_class \in FactualClasses
    BY <1>6, <1>7
  <2> QED BY <2>1, RowEvidenced
<1>9. ASSUME NEW i \in DOMAIN d, NEW j \in DOMAIN d, i # j
      PROVE  d[i].record_id # d[j].record_id /\ d[i].print # d[j].print
  <2>1. ErrorsOf(d, i, f.reg, f.bytes) = {} /\ ErrorsOf(d, j, f.reg, f.bytes) = {}
    BY <1>6
  <2>2. d \in Seq(RowChoices)
    OBVIOUS
  <2> QED BY <1>9, <2>1, <2>2, NoRepeat
<1>10. ASSUME NEW i \in DOMAIN d
       PROVE  Cardinality({m \in f.verdict.metrics : i \in m.samples}) = 1
  <2>1. d[i].data_class # "modeled_estimate"
    BY <1>7 DEF FactualClasses
  <2>2. i \in Kept(d, Good(d, f.reg, f.bytes))
    BY <1>5, <2>1 DEF Kept
  <2> QED BY <1>2, <2>2, CountedOnce
<1> QED BY <1>1, <1>8, <1>9, <1>10


\* The metrics of a data set are finitely many, and so are their rows.
LEMMA MetricsAreFinite ==
    ASSUME NEW d \in Seq(RowChoices), NEW good \in SUBSET DOMAIN d
    PROVE  /\ IsFiniteSet(BuildMonthlyMetrics(d, good))
           /\ \A m \in BuildMonthlyMetrics(d, good) : m.samples \in SUBSET DOMAIN d
           /\ IsFiniteSet(DOMAIN d)
<1> DEFINE kept == Kept(d, good)
           f == [i \in kept |-> MetricOf(d, kept, i)]
<1>1. IsFiniteSet(DOMAIN d)
  <2>1. DOMAIN d = 1..Len(d) /\ Len(d) \in Nat
    OBVIOUS
  <2> QED BY <2>1, FS_Interval
<1>2. kept \in SUBSET DOMAIN d
  BY DEF Kept
<1>3. IsFiniteSet(kept)
  BY <1>1, <1>2, FS_Subset
<1>4. f \in Surjection(kept, BuildMonthlyMetrics(d, good))
  BY MetricsAre DEF Surjection
<1>5. IsFiniteSet(BuildMonthlyMetrics(d, good))
  <2> HIDE DEF f, kept
  <2> QED BY <1>3, <1>4, FS_Surjection
<1>6. ASSUME NEW m \in BuildMonthlyMetrics(d, good)
      PROVE  m.samples \in SUBSET DOMAIN d
  BY <1>2, MetricHolds DEF Held
<1> QED BY <1>1, <1>5, <1>6

\* The metrics of one group are enough to be shown as a trend.
TrendSound(mine) ==
  /\ Cardinality({m.month : m \in mine}) >= MinPeriods
  /\ \A m \in mine : Cardinality(m.samples) >= MinPerPeriod
  /\ Cardinality(UNION {m.samples : m \in mine}) >= MinTotal

\* A group whose numbers are shown as a trend has enough months, each with
\* enough samples, and enough samples in all.
LEMMA TrendHolds ==
    ASSUME NEW d \in Seq(RowChoices), NEW good \in SUBSET DOMAIN d,
           NEW ms, ms = BuildMonthlyMetrics(d, good), NEW m \in ms,
           TrendEligibility(ms, m.group) = "eligible",
           NEW mine, mine = {n \in ms : n.group = m.group}
    PROVE  TrendSound(mine)
<1> DEFINE sizes == {Cardinality(n.samples) : n \in mine}
           all == UNION {n.samples : n \in mine}
           months == {n.month : n \in mine}
           few == Cardinality(mine) < MinPeriods
           thin == Min(sizes) < MinPerPeriod \/ Cardinality(all) < MinTotal
<1>0. MinPeriods \in Nat /\ MinPerPeriod \in Nat /\ MinTotal \in Nat
  BY GateAssumption DEF PolicyLoads
<1>1. TrendEligibility(ms, m.group) =
        CASE few -> "trend_insufficient_periods"
          [] thin -> "trend_insufficient_sample"
          [] OTHER -> "eligible"
  BY Zenon DEF TrendEligibility
<1>2. ~few /\ ~thin
  <2> few \in BOOLEAN /\ thin \in BOOLEAN
    OBVIOUS
  <2> HIDE DEF few, thin
  <2> QED BY <1>1
<1>3. IsFiniteSet(ms) /\ (\A n \in ms : n.samples \in SUBSET DOMAIN d) /\ IsFiniteSet(DOMAIN d)
  BY MetricsAreFinite
<1>4. mine \in SUBSET ms /\ m \in mine
  OBVIOUS
<1>5. IsFiniteSet(mine)
  BY <1>3, <1>4, FS_Subset
<1>6. Cardinality(months) >= MinPeriods
  <2> DEFINE f == [n \in mine |-> n.month]
  <2>1. f \in Surjection(mine, months)
    BY DEF Surjection
  <2>2. f \in Injection(mine, months)
    <3>1. f \in [mine -> months]
      OBVIOUS
    <3> HIDE DEF months
    <3>2. \A a, b \in mine : f[a] = f[b] => a = b
      <4> SUFFICES ASSUME NEW a \in mine, NEW b \in mine, f[a] = f[b] PROVE a = b
        OBVIOUS
      <4>1. a.group = b.group /\ a.month = b.month /\ a \in ms /\ b \in ms
        OBVIOUS
      <4> QED BY <4>1, MetricIsOne
    <3> HIDE DEF f
    <3> QED BY ONLY <3>1, <3>2, Zenon DEF Injection, IsInjective
  <2>3. Cardinality(months) = Cardinality(mine)
    <3> HIDE DEF f, months
    <3> QED BY <1>5, <2>1, <2>2, FS_Surjection
  <2>4. Cardinality(mine) \in Nat
    BY <1>5, FS_CardinalityType
  <2> HIDE DEF months
  <2> QED BY <1>0, <1>2, <2>3, <2>4
<1>7. ASSUME NEW n \in mine
      PROVE  Cardinality(n.samples) >= MinPerPeriod
  <2>1. sizes \in SUBSET Nat
    <3>1. ASSUME NEW p \in mine PROVE Cardinality(p.samples) \in Nat
      <4>1. IsFiniteSet(p.samples)
        BY <1>3, <1>4, FS_Subset
      <4> QED BY <4>1, FS_CardinalityType
    <3> QED BY <3>1
  <2>2. Cardinality(n.samples) \in sizes
    OBVIOUS
  <2> HIDE DEF sizes
  <2>3. Min(sizes) \in Nat /\ Min(sizes) <= Cardinality(n.samples) /\ Cardinality(n.samples) \in Nat
    BY <2>1, <2>2, LeastIs
  <2> QED BY <1>0, <1>2, <2>3
<1>8. Cardinality(all) >= MinTotal
  <2>1. all \in SUBSET DOMAIN d
    BY <1>3, <1>4
  <2> HIDE DEF all
  <2>2. Cardinality(all) \in Nat
    BY <1>3, <2>1, FS_Subset, FS_CardinalityType
  <2> QED BY <1>0, <1>2, <2>2
<1> QED BY <1>6, <1>7, <1>8 DEF TrendSound

\* What also a blocked data set's metrics are, of one file.
MetricsSound(f) ==
  LET d == f.of ms == f.verdict.metrics IN
  /\ \A m1, m2 \in ms : \A i \in m1.samples, j \in m2.samples :
       i # j => d[i].record_id # d[j].record_id
  /\ \A m \in ms : \A i \in m.samples :
       d[i].data_class = "synthetic_fixture" \/ Evidenced(d[i], f)
  /\ \A t \in f.verdict.trends : t[2] = "eligible" => TrendSound({m \in ms : m.group = t[1]})

\* The metrics of a verdict are clean, whatever its scope.
LEMMA MetricsHold ==
    ASSUME NEW f, f.of \in Seq(RowChoices), f.bytes \in Disks,
           f.verdict = QualityCheck(f.of, f.reg, f.bytes)
    PROVE  MetricsSound(f)
<1>1. CASE f.of = <<>>
  <2>1. f.verdict.metrics = {} /\ f.verdict.trends = {}
    BY <1>1, EmptyIs
  <2> QED BY <2>1 DEF MetricsSound
<1>2. CASE f.of # <<>>
  <2> SUFFICES ASSUME NEW d, NEW reg, NEW bytes, NEW verdict, NEW ms,
                      d = f.of, reg = f.reg, bytes = f.bytes, verdict = f.verdict, ms = f.verdict.metrics
               PROVE  MetricsSound(f)
    OBVIOUS
  <2> DEFINE good == Good(d, reg, bytes)
  <2>1. verdict = QualityCheck(d, reg, bytes) /\ d # <<>> /\ d \in Seq(RowChoices) /\ bytes \in Disks
    BY <1>2
  <2>2. verdict.metrics = BuildMonthlyMetrics(d, good) /\ verdict.trends = Trends(BuildMonthlyMetrics(d, good))
    BY ONLY <2>1, CheckIs
  <2>3. ms = BuildMonthlyMetrics(d, good) /\ verdict.trends = Trends(ms)
    BY <2>2
  <2>4. good \in SUBSET DOMAIN d
    BY DEF Good
  <2>5. ASSUME NEW m \in ms, NEW i \in m.samples
        PROVE  i \in DOMAIN d /\ ErrorsOf(d, i, reg, bytes) = {} /\ d[i].data_class # "modeled_estimate"
    <3>1. i \in Kept(d, good)
      BY <2>3, MetricHolds DEF Held
    <3> QED BY <3>1 DEF Kept, Good
  <2>6. ASSUME NEW m1 \in ms, NEW m2 \in ms, NEW i \in m1.samples, NEW j \in m2.samples, i # j
        PROVE  d[i].record_id # d[j].record_id
    <3>1. /\ i \in DOMAIN d /\ ErrorsOf(d, i, reg, bytes) = {}
          /\ j \in DOMAIN d /\ ErrorsOf(d, j, reg, bytes) = {}
      BY <2>5
    <3> QED BY ONLY <2>1, <2>6, <3>1, NoRepeat
  <2>7. ASSUME NEW m \in ms, NEW i \in m.samples, d[i].data_class # "synthetic_fixture"
        PROVE  Evidenced(d[i], f)
    <3>1. i \in DOMAIN d /\ ErrorsOf(d, i, f.reg, f.bytes) = {} /\ d[i].data_class # "modeled_estimate"
      BY <2>5
    <3>2. d[i] \in RowChoices /\ ValidateRecord(d[i]) = {}
      BY <2>1, <3>1 DEF ErrorsOf
    <3>3. d[i].data_class \in FactualClasses
      BY <2>7, <3>1, <3>2, RecordPasses DEF DataClasses
    <3> QED BY <2>1, <3>1, <3>3, RowEvidenced
  <2>8. ASSUME NEW t \in verdict.trends, t[2] = "eligible"
        PROVE  TrendSound({m \in ms : m.group = t[1]})
    <3> SUFFICES ASSUME NEW mine, mine = {m \in ms : m.group = t[1]}
                 PROVE  TrendSound(mine)
      OBVIOUS
    <3>1. PICK m \in ms : t = <<m.group, TrendEligibility(ms, m.group)>>
      BY <2>3 DEF Trends
    <3>2. TrendEligibility(ms, m.group) = "eligible" /\ t[1] = m.group /\ m \in ms
      BY <2>8, <3>1
    <3>3. mine = {n \in ms : n.group = m.group}
      BY <3>2
    <3> QED BY ONLY <2>1, <2>3, <2>4, <3>2, <3>3, TrendHolds
  <2> QED BY <2>6, <2>7, <2>8 DEF MetricsSound
<1> QED BY <1>1, <1>2


(***************************************************************************)
(* What the publisher leaves on the disk.                                  *)
(***************************************************************************)
OutputNames == {Outputs[i] : i \in 1..4}

\* The four output files have four names.
LEMMA FourNames ==
    /\ \A k \in 1..4 : Outputs[k] \in OutputNames
    /\ \A k, l \in 1..4 : Outputs[k] = Outputs[l] => k = l
    /\ "report" \in OutputNames /\ "metrics" \in OutputNames
<1>1. Outputs[1] = "prepared" /\ Outputs[2] = "metrics" /\ Outputs[3] = "report" /\ Outputs[4] = "summary"
  BY DEF Outputs
<1>2. \A k \in 1..4 : k = 1 \/ k = 2 \/ k = 3 \/ k = 4
  OBVIOUS
<1>3. \A k, l \in 1..4 : Outputs[k] = Outputs[l] => k = l
  BY <1>1, <1>2
<1>4. "report" \in OutputNames /\ "metrics" \in OutputNames
  <2>1. 2 \in 1..4 /\ 3 \in 1..4
    OBVIOUS
  <2> QED BY <1>1, <2>1 DEF OutputNames
<1> QED BY <1>3, <1>4 DEF OutputNames

Jobs ==
  [next : {0}, runs : Nat]
    \union [next : 1..4, runs : Nat, of : Seq(RowChoices), reg : Registries, bytes : Disks]

\* A written file holds the judgement of what its run had read.
IsOutput(f) ==
  \/ f = NotWritten
  \/ /\ f.run \in Nat /\ f.run > 0
     /\ f.of \in Seq(RowChoices) /\ f.bytes \in Disks
     /\ f.verdict = QualityCheck(f.of, f.reg, f.bytes)

\* No file is of a later run than the one before it; the run under way has
\* written the files before its next one, and none after.
RunsAgree(j, out) ==
  /\ \A k \in 1..4 : out[Outputs[k]].run <= j.runs
  /\ j.next > 0 => j.runs > 0 /\ \A k \in 1..4 : k < j.next => out[Outputs[k]].run = j.runs
  /\ \A k \in 1..3 : out[Outputs[k]].run >= out[Outputs[k + 1]].run

DraftStands(drawn, d) ==
  \A m \in drawn :
    /\ m.group[2] # "modeled_estimate"
    /\ m.samples \subseteq DOMAIN d
    /\ \A i \in m.samples : d[i].rights

GateInv ==
  /\ rows \in Seq(RowChoices) /\ registry \in Registries /\ disk \in Disks
  /\ job \in Jobs
  /\ DOMAIN files = OutputNames /\ \A n \in OutputNames : IsOutput(files[n])
  /\ RunsAgree(job, files)
  /\ DraftStands(draft, rows)

\* A file's run is a natural number.
LEMMA RunIsNat ==
    ASSUME NEW f, IsOutput(f)
    PROVE  f.run \in Nat
BY DEF IsOutput, NotWritten

\* An empty output directory, and the snapshots as the manifest has them.
LEMMA GateStarts == GateInit => GateInv
<1> SUFFICES ASSUME GateInit PROVE GateInv
  OBVIOUS
<1>1. rows \in Seq(RowChoices) /\ registry \in Registries /\ DraftStands(draft, rows)
  BY DEF GateInit, DraftStands
<1>2. disk \in Disks
  BY DEF GateInit, Disks, Found
<1>3. job \in Jobs /\ job.next = 0 /\ job.runs = 0
  BY DEF GateInit, Jobs
<1>4. DOMAIN files = OutputNames /\ \A n \in OutputNames : files[n] = NotWritten
  BY DEF GateInit, OutputNames
<1>5. \A n \in OutputNames : IsOutput(files[n]) /\ files[n].run = 0
  BY <1>4 DEF IsOutput, NotWritten
<1>6. RunsAgree(job, files)
  <2>1. \A k \in 1..4 : files[Outputs[k]].run = 0
    BY <1>5, FourNames
  <2>2. \A k \in 1..3 : k \in 1..4 /\ k + 1 \in 1..4
    OBVIOUS
  <2> QED BY <1>3, <2>1, <2>2 DEF RunsAgree
<1> QED BY <1>1, <1>2, <1>3, <1>4, <1>5, <1>6 DEF GateInv

\* The next output of the run under way keeps the files in order.
LEMMA OutputInOrder ==
    ASSUME NEW j \in Jobs, j.next > 0, NEW out, DOMAIN out = OutputNames,
           \A n \in OutputNames : out[n].run \in Nat,
           RunsAgree(j, out),
           NEW f, f.run = j.runs, NEW new, new = [out EXCEPT ![Outputs[j.next]] = f],
           NEW k \in Jobs, k.runs = j.runs, k.next = j.next + 1 \/ k.next = 0
    PROVE  RunsAgree(k, new)
<1> DEFINE at(i) == out[Outputs[i]].run
           by(i) == new[Outputs[i]].run
<1>1. j.next \in 1..4 /\ j.runs \in Nat
  BY DEF Jobs
<1>2. \A i \in 1..4 : at(i) \in Nat
  BY FourNames
<1>3. \A i \in 1..4 : by(i) = IF i = j.next THEN j.runs ELSE at(i)
  BY <1>1, FourNames
<1>4. /\ \A i \in 1..4 : at(i) <= j.runs
      /\ j.runs > 0
      /\ \A i \in 1..4 : i < j.next => at(i) = j.runs
      /\ \A i \in 1..3 : at(i) >= at(i + 1)
  BY DEF RunsAgree
<1> HIDE DEF at, by
<1>5. \A i \in 1..4 : by(i) <= k.runs
  BY <1>1, <1>2, <1>3, <1>4
<1>6. \A i \in 1..4 : i < j.next + 1 => by(i) = k.runs
  BY <1>1, <1>2, <1>3, <1>4
<1>7. ASSUME NEW i \in 1..3 PROVE by(i) >= by(i + 1)
  <2>1. i \in 1..4 /\ i + 1 \in 1..4
    OBVIOUS
  <2>2. at(i) \in Nat /\ at(i + 1) \in Nat /\ at(i) >= at(i + 1) /\ at(i + 1) <= j.runs /\ at(i) <= j.runs
    BY <1>2, <1>4, <2>1
  <2>3. CASE i < j.next
    <3>1. by(i) = j.runs
      BY <1>3, <1>4, <2>1, <2>3, <1>1
    <3>2. by(i + 1) = j.runs \/ by(i + 1) = at(i + 1)
      BY <1>3, <2>1
    <3> QED BY <1>1, <2>2, <3>1, <3>2
  <2>4. CASE i = j.next
    <3>1. by(i) = j.runs /\ by(i + 1) = at(i + 1)
      BY <1>3, <2>1, <2>4
    <3> QED BY <1>1, <2>2, <3>1
  <2>5. CASE i > j.next
    <3>1. i # j.next /\ i + 1 # j.next
      BY <1>1, <2>5
    <3>2. by(i) = at(i) /\ by(i + 1) = at(i + 1)
      BY <1>3, <2>1, <3>1
    <3> QED BY <2>2, <3>2
  <2> QED BY <1>1, <2>3, <2>4, <2>5
<1> USE DEF by
<1>8. k.next > 0 => k.runs > 0 /\ \A i \in 1..4 : i < k.next => new[Outputs[i]].run = k.runs
  <2>1. CASE k.next = 0
    BY <2>1
  <2>2. CASE k.next = j.next + 1
    BY <1>4, <1>6, <2>2
  <2> QED BY <2>1, <2>2
<1> QED BY <1>5, <1>7, <1>8 DEF RunsAgree

\* Every step of the publisher, and of the people who edit its inputs,
\* keeps the invariant.
LEMMA GateStep == GateInv /\ [GateNext]_gateVars => GateInv'
<1> SUFFICES ASSUME GateInv, [GateNext]_gateVars PROVE GateInv'
  OBVIOUS
<1>0. /\ rows \in Seq(RowChoices) /\ registry \in Registries /\ disk \in Disks
      /\ job \in Jobs
      /\ DOMAIN files = OutputNames /\ \A n \in OutputNames : IsOutput(files[n])
      /\ RunsAgree(job, files)
      /\ DraftStands(draft, rows)
  BY DEF GateInv
<1>1. ASSUME NEW r \in RowChoices, AppendRow(r) PROVE GateInv'
  <2>1. rows' = Append(rows, r) /\ UNCHANGED <<registry, disk, job, files, draft>>
    BY <1>1 DEF AppendRow
  <2>2. rows' \in Seq(RowChoices) /\ \A i \in DOMAIN rows : i \in DOMAIN rows' /\ rows'[i] = rows[i]
    BY <1>0, <2>1
  <2>3. DraftStands(draft, rows')
    BY <1>0, <2>2 DEF DraftStands
  <2> QED BY <1>0, <2>1, <2>2, <2>3 DEF GateInv
<1>2. ASSUME NEW reg \in Registries, EditRegistry(reg) PROVE GateInv'
  BY <1>0, <1>2 DEF EditRegistry, GateInv
<1>3. ASSUME NEW s \in DOMAIN Manifest, NEW c \in Contents \union {Missing}, SnapshotChanges(s, c) PROVE GateInv'
  <2>1. disk' = [disk EXCEPT ![s] = c] /\ UNCHANGED <<rows, registry, job, files, draft>>
    BY <1>3 DEF SnapshotChanges
  <2>2. disk' \in Disks
    BY <1>0, <2>1 DEF Disks, Found
  <2> QED BY <1>0, <2>1, <2>2 DEF GateInv
<1>4. ASSUME StartPrepare PROVE GateInv'
  <2>1. /\ job.next = 0
        /\ job' = [next |-> 1, runs |-> job.runs + 1, of |-> rows, reg |-> registry, bytes |-> disk]
        /\ UNCHANGED <<rows, registry, disk, files, draft>>
    BY <1>4 DEF StartPrepare
  <2>2. job.runs \in Nat
    BY <1>0 DEF Jobs
  <2>3. job' \in Jobs /\ job'.next = 1 /\ job'.runs = job.runs + 1
    BY <1>0, <2>1, <2>2 DEF Jobs
  <2>4. RunsAgree(job', files)
    <3>1. \A k \in 1..4 : files[Outputs[k]].run \in Nat /\ files[Outputs[k]].run <= job.runs
      BY <1>0, FourNames, RunIsNat DEF RunsAgree
    <3>2. \A k \in 1..4 : files[Outputs[k]].run <= job'.runs
      BY <2>2, <2>3, <3>1
    <3>3. \A k \in 1..4 : ~(k < job'.next)
      BY <2>3
    <3>4. \A k \in 1..3 : files[Outputs[k]].run >= files[Outputs[k + 1]].run
      BY <1>0 DEF RunsAgree
    <3>5. job'.runs > 0
      BY <2>2, <2>3
    <3> QED BY <3>2, <3>3, <3>4, <3>5 DEF RunsAgree
  <2> QED BY <1>0, <2>1, <2>3, <2>4 DEF GateInv
<1>5. ASSUME WriteOutput PROVE GateInv'
  <2> SUFFICES ASSUME NEW f, NEW j,
                      f = [run |-> job.runs, of |-> job.of, reg |-> job.reg, bytes |-> job.bytes,
                           verdict |-> QualityCheck(job.of, job.reg, job.bytes)],
                      j = job
               PROVE  GateInv'
    OBVIOUS
  <2>1. /\ j.next > 0 /\ files' = [files EXCEPT ![Outputs[j.next]] = f]
        /\ job' = IF j.next < 4 THEN [j EXCEPT !.next = @ + 1] ELSE [next |-> 0, runs |-> j.runs]
        /\ UNCHANGED <<rows, registry, disk, draft>>
    BY <1>5 DEF WriteOutput
  <2>2. j \in [next : 1..4, runs : Nat, of : Seq(RowChoices), reg : Registries, bytes : Disks]
    BY <1>0, <2>1 DEF Jobs
  <2>3. job' \in Jobs /\ job'.runs = j.runs /\ (job'.next = j.next + 1 \/ job'.next = 0)
    <3>1. CASE j.next < 4
      <4>1. job' = [j EXCEPT !.next = @ + 1] /\ j.next + 1 \in 1..4
        BY <2>1, <2>2, <3>1
      <4>2. job' \in [next : 1..4, runs : Nat, of : Seq(RowChoices), reg : Registries, bytes : Disks]
        BY <2>2, <4>1
      <4> QED BY <2>2, <4>1, <4>2 DEF Jobs
    <3>2. CASE ~(j.next < 4)
      BY <2>1, <2>2, <3>2 DEF Jobs
    <3> QED BY <3>1, <3>2
  <2>4. j.runs > 0
    BY <1>0, <2>1 DEF RunsAgree
  <2>5. IsOutput(f) /\ f.run = j.runs
    BY <2>2, <2>4 DEF IsOutput
  <2>6. \A n \in OutputNames : files[n].run \in Nat
    BY <1>0, RunIsNat
  <2>7. j \in Jobs
    BY <2>2 DEF Jobs
  <2>8. RunsAgree(job', files')
    BY <1>0, <2>1, <2>3, <2>5, <2>6, <2>7, OutputInOrder
  <2>9. DOMAIN files' = OutputNames /\ \A n \in OutputNames : IsOutput(files'[n])
    BY <1>0, <2>1, <2>5
  <2> QED BY <1>0, <2>1, <2>3, <2>8, <2>9 DEF GateInv
<1>6. ASSUME PrepareDies PROVE GateInv'
  <2>1. /\ job.next > 0 /\ job' = [next |-> 0, runs |-> job.runs]
        /\ UNCHANGED <<rows, registry, disk, files, draft>>
    BY <1>6 DEF PrepareDies
  <2>2. job' \in Jobs /\ job'.next = 0 /\ job'.runs = job.runs
    BY <1>0, <2>1 DEF Jobs
  <2>3. RunsAgree(job', files)
    BY <1>0, <2>2 DEF RunsAgree
  <2> QED BY <1>0, <2>1, <2>2, <2>3 DEF GateInv
<1>7. ASSUME MakeReport PROVE GateInv'
  <2>1. /\ ReadRecords(rows) /\ UNCHANGED <<rows, registry, disk, job, files>>
        /\ \A i \in DOMAIN rows : rows[i].area # 0 /\ rows[i].data_class # "modeled_estimate"
    BY <1>7 DEF MakeReport
  <2>2. ASSUME NEW m \in draft'
        PROVE  /\ m.group[2] # "modeled_estimate" /\ m.samples \subseteq DOMAIN rows
               /\ \A i \in m.samples : rows[i].rights
    <3>1. PICK i \in DOMAIN rows :
             m = [month |-> rows[i].month, group |-> GroupKey(rows[i]),
                  samples |-> {j \in DOMAIN rows : /\ GroupKey(rows[j]) = GroupKey(rows[i])
                                                   /\ rows[j].month = rows[i].month}]
      BY <1>7, <2>2 DEF MakeReport
    <3>2. m.group = GroupKey(rows[i]) /\ m.samples \subseteq DOMAIN rows
      BY <3>1
    <3>3. m.group[2] = rows[i].data_class
      BY <3>2 DEF GroupKey
    <3>4. rows[i].data_class # "modeled_estimate"
      BY <2>1
    <3>5. \A j \in DOMAIN rows : rows[j].rights
      BY <2>1 DEF ReadRecords
    <3> QED BY <3>2, <3>3, <3>4, <3>5
  <2>3. DraftStands(draft', rows)
    BY <2>2 DEF DraftStands
  <2> QED BY <1>0, <2>1, <2>3 DEF GateInv
<1>8. CASE UNCHANGED gateVars
  BY <1>0, <1>8 DEF gateVars, GateInv
<1> QED BY <1>1, <1>2, <1>3, <1>4, <1>5, <1>6, <1>7, <1>8 DEF GateNext

\* What the invariant says of the files a reader finds.
LEMMA GateInvSound == GateInv => PublicationIsSound
<1> SUFFICES ASSUME GateInv PROVE PublicationIsSound
  OBVIOUS
<1>1. ASSUME NEW n \in OutputNames, files[n].run > 0
      PROVE  FactIsEvidenced(files[n]) /\ MetricsSound(files[n])
  <2>1. IsOutput(files[n]) /\ files[n] # NotWritten
    BY <1>1 DEF GateInv, NotWritten
  <2> QED BY <2>1, FactsAreEvidenced, MetricsHold DEF IsOutput
<1>2. PublishedIsEvidenced
  <2> SUFFICES ASSUME Written("report"), files["report"].verdict.scope = "factual_aggregate",
                      NEW f, f = files["report"]
               PROVE  /\ f.of # <<>>
                      /\ \A i \in DOMAIN f.of : Evidenced(f.of[i], f)
                      /\ \A i, j \in DOMAIN f.of : i # j => f.of[i].record_id # f.of[j].record_id
                                                            /\ f.of[i].print # f.of[j].print
                      /\ \A i \in DOMAIN f.of : Cardinality({m \in f.verdict.metrics : i \in m.samples}) = 1
    BY DEF PublishedIsEvidenced
  <2>1. FactIsEvidenced(f)
    BY <1>1, FourNames DEF Written
  <2> QED BY <2>1 DEF FactIsEvidenced
<1>3. DraftIsClaimed
  BY DEF GateInv, DraftStands, DraftIsClaimed
<1>4. MetricsAreClean
  <2> SUFFICES ASSUME Written("metrics") PROVE MetricsSound(files["metrics"])
    BY <1>3 DEF MetricsAreClean, MetricsSound, TrendSound
  <2> QED BY <1>1, FourNames DEF Written
<1>5. VerdictAfterNumbers
  BY DEF GateInv, RunsAgree, VerdictAfterNumbers
<1> QED BY <1>2, <1>4, <1>5 DEF PublicationIsSound

\* Every output file holds the judgement of what its run had read, the
\* files are in the order of their runs, and the drafts are of claimed rows.
THEOREM GateInvariant == GateSpec => []GateInv
BY GateStarts, GateStep, PTL DEF GateSpec

\* pipeline.py:449, 505, 636, cli.py:203-210 - whatever the inputs, and
\* whichever run died at which file: what passes as factual is evidenced and
\* counted once, the metrics, trends and drafts are clean, and no verdict
\* stands beside the numbers of another run.
THEOREM PublicationIsSafe == GateSpec => []PublicationIsSound
BY GateInvariant, GateInvSound, PTL
=============================================================================
