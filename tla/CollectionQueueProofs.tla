------------------------ MODULE CollectionQueueProofs ------------------------

(***************************************************************************)
(* Proofs about CollectionQueue: a run has one outcome and is abandoned    *)
(* only by a crash, the feeder keeps its spacing, and the snapshot on disk *)
(* is accounted for by the runs, for any workers, sources, inputs and      *)
(* bounds.                                                                 *)

(***************************************************************************)
EXTENDS CollectionQueue, FiniteSetTheorems, SequenceTheorems, TLAPS

(***************************************************************************)
(* The inductive invariant.                                                *)

(***************************************************************************)
Outcomes  == {<< >>, <<"succeeded">>, <<"failed">>, <<"swept">>}
Hashes    == {Fingerprint(s) : s \in Taken}
RunRow    == [source : Sources, by : {"feed", "admin"}, created : 0..LastTick,
              status : INFLIGHT \union Terminal, stale : BOOLEAN, hash : Hashes]
FileRow   == [run : Nat, snapshot : Taken]
WorkerRow == [pc : {"idle", "running", "collected", "succeeded", "failed"},
              run : Nat, snapshot : Taken, stop : {"no", "asked", "done"}]

RowsTyped ==
    /\ runs \in Seq(RunRow)
    /\ audits \in Seq(Outcomes) /\ Len(audits) = Len(runs)

OthersTyped ==
    /\ file \in [Sources -> FileRow]
    /\ workers \in [Workers -> WorkerRow]
    /\ feed \in [due : SUBSET Sources, at : 0..LastTick]
    /\ now \in 0..LastTick
    /\ crashes \in 0..MaxInterruptions

\* A run that a worker executes is its own, and neither has the worker ended it.
RunsAreHeld ==
    /\ \A w \in Workers : workers[w].pc = "idle" <=> workers[w].run = 0
    /\ \A w \in Workers : workers[w].run # 0 =>
          /\ workers[w].run \in Ids
          /\ runs[workers[w].run].status \notin {"queued", "succeeded"}
          /\ audits[workers[w].run] # <<"failed">>
    /\ \A v, w \in Workers : workers[v].run = workers[w].run /\ v # w => workers[v].run = 0

\* The audit log has the outcome of a run and nothing else.
AuditsAgree ==
    \A r \in Ids :
        /\ runs[r].status = "succeeded" => audits[r] = <<"succeeded">>
        /\ runs[r].status = "failed" => audits[r] \in {<<"failed">>, <<"swept">>}
        /\ runs[r].status \in {"queued", "running", "cancelled"} => audits[r] = << >>

\* While the feeder's transaction is open, what it has found due stays due.
DueStaysDue ==
    feed # NoFeed => \A q \in Ids :
        runs[q].source \in feed.due /\ runs[q].by = "feed" /\ runs[q].status # "cancelled"
        => runs[q].status \notin INFLIGHT /\ feed.at - runs[q].created >= Cadence

IsSnapshotOf(x, s) ==
    x = [source_key |-> s, rows |-> x.rows, rows_collected |-> Cardinality(x.rows),
         collected_at |-> x.collected_at]

\* A snapshot is on disk by a run that was executed, and whose worker, if it
\* still lives, has only the outcome left to record.
FileOk(s) ==
    file[s] # NoFile =>
        /\ file[s].run \in Ids
        /\ runs[file[s].run].status # "queued"
        /\ audits[file[s].run] # <<"failed">>
        /\ IsSnapshotOf(file[s].snapshot, s)
        /\ \A w \in Workers : workers[w].run = file[s].run =>
              workers[w].pc = "succeeded" /\ workers[w].snapshot = file[s].snapshot

\* A worker has a snapshot of its source, and has written it when it is through.
WorkerOk(w) ==
    /\ workers[w].pc = "collected" => HasFile(KeyOf(w))
    /\ workers[w].pc \in {"collected", "succeeded"} /\ HasFile(KeyOf(w)) =>
          IsSnapshotOf(workers[w].snapshot, KeyOf(w))
    /\ workers[w].pc = "succeeded" /\ HasFile(KeyOf(w)) => file[KeyOf(w)] # NoFile

\* A recorded success has the fingerprint of the snapshot that it left.
SuccessOk(r) ==
    runs[r].status = "succeeded" /\ HasFile(runs[r].source) =>
        /\ file[runs[r].source] # NoFile
        /\ IsSnapshotOf(runs[r].hash, runs[r].source) /\ runs[r].hash.collected_at = 0
        /\ file[runs[r].source].run = r =>
              runs[r].hash = Fingerprint(file[runs[r].source].snapshot)

FilesAccounted ==
    /\ \A s \in Sources : FileOk(s)
    /\ \A w \in Workers : WorkerOk(w)
    /\ \A r \in Ids : SuccessOk(r)

IInv == RowsTyped /\ OthersTyped /\ RunsAreHeld /\ AuditsAgree /\ OnlyCrashesAbandon
        /\ FeedSpacing /\ DueStaysDue /\ FilesAccounted

(***************************************************************************)
(* Rows.                                                                   *)

(***************************************************************************)
\* A function on 1..n is a sequence of length n.
LEMMA FunctionIsSeq ==
  ASSUME NEW S, NEW n \in Nat, NEW f \in [1..n -> S]
  PROVE  f \in Seq(S) /\ Len(f) = n
  OBVIOUS

\* The table and the audit log are functions on the ids.
LEMMA TableFacts ==
  ASSUME RowsTyped
  PROVE  /\ Len(runs) \in Nat
         /\ runs \in [Ids -> RunRow] /\ audits \in [Ids -> Outcomes]
  BY LenProperties DEF RowsTyped, Ids

\* What a row of the table holds.
LEMMA RowFields ==
  ASSUME RowsTyped, NEW r \in Ids
  PROVE  /\ runs[r] \in RunRow
         /\ runs[r] = [source |-> runs[r].source, by |-> runs[r].by, created |-> runs[r].created,
                       status |-> runs[r].status, stale |-> runs[r].stale, hash |-> runs[r].hash]
         /\ runs[r].source \in Sources /\ runs[r].by \in {"feed", "admin"}
         /\ runs[r].created \in 0..LastTick /\ runs[r].created \in Int
         /\ runs[r].status \in {"queued", "running", "succeeded", "failed", "cancelled"}
         /\ runs[r].stale \in BOOLEAN /\ runs[r].hash \in Hashes
         /\ audits[r] \in Outcomes
<1>1. runs[r] \in RunRow /\ audits[r] \in Outcomes
  BY TableFacts
<1>2. runs[r].created \in 0..LastTick
  BY <1>1 DEF RunRow
<1>3. LastTick \in Nat
  BY QueueAssumption
<1>4. QED
  BY <1>1, <1>2, <1>3 DEF RunRow, INFLIGHT, Terminal

\* What may happen to a row in one step: it stays, is claimed, is cancelled, or
\* ends with its audit row.
RowStep(r) ==
    /\ runs'[r].source = runs[r].source
    /\ runs'[r].by = runs[r].by
    /\ runs'[r].created = runs[r].created
    /\ \/ runs'[r].status = runs[r].status /\ audits'[r] = audits[r] /\ runs'[r].hash = runs[r].hash
       \/ runs[r].status = "queued" /\ runs'[r].status = "running" /\ audits'[r] = audits[r]
       \/ /\ runs[r].status \in INFLIGHT
          /\ runs'[r].status = "cancelled" /\ audits'[r] = audits[r]
       \/ /\ runs[r].status = "running"
          /\ \/ runs'[r].status = "succeeded" /\ audits'[r] = <<"succeeded">>
             \/ runs'[r].status = "failed" /\ audits'[r] \in {<<"failed">>, <<"swept">>}

RowsStep ==
    /\ runs' \in [Ids -> RunRow]
    /\ audits' \in [Ids -> Outcomes]
    /\ \A r \in Ids : RowStep(r)

\* The rows after a step have the types and the number they had.
LEMMA RowsAfter ==
  ASSUME RowsTyped, RowsStep
  PROVE  RowsTyped' /\ Len(runs') = Len(runs) /\ Ids' = Ids
<1>1. Len(runs) \in Nat /\ Ids = 1..Len(runs)
  BY TableFacts DEF Ids
<1>2. runs' \in Seq(RunRow) /\ Len(runs') = Len(runs)
  BY <1>1, FunctionIsSeq DEF RowsStep
<1>3. audits' \in Seq(Outcomes) /\ Len(audits') = Len(runs)
  BY <1>1, FunctionIsSeq DEF RowsStep
<1>4. QED
  BY <1>1, <1>2, <1>3 DEF RowsTyped, Ids

\* A step on the rows keeps the audit log and the feeder's rules.
LEMMA RowsKeep ==
  ASSUME RowsTyped, AuditsAgree, FeedSpacing, DueStaysDue, RowsStep
  PROVE  /\ AuditsAgree' /\ FeedSpacing'
         /\ UNCHANGED feed => DueStaysDue'
<1>1. Ids' = Ids
  BY RowsAfter
<1>2. \A r \in Ids : RowStep(r)
  BY DEF RowsStep
<1>3. AuditsAgree'
  <2>1. ASSUME NEW r \in Ids
        PROVE  /\ runs'[r].status = "succeeded" => audits'[r] = <<"succeeded">>
               /\ runs'[r].status = "failed" => audits'[r] \in {<<"failed">>, <<"swept">>}
               /\ runs'[r].status \in {"queued", "running", "cancelled"} => audits'[r] = << >>
    <3>1. RowStep(r)
      BY <1>2
    <3>2. QED
      BY <3>1 DEF AuditsAgree, RowStep, INFLIGHT
  <2>2. QED
    BY <1>1, <2>1 DEF AuditsAgree
<1>4. \A r \in Ids : /\ runs'[r].status # "cancelled" => runs[r].status # "cancelled"
                     /\ runs[r].status \notin INFLIGHT => runs'[r].status \notin INFLIGHT
  <2>1. TAKE r \in Ids
  <2>2. runs[r].status \in {"queued", "running", "succeeded", "failed", "cancelled"}
    BY RowFields
  <2>3. RowStep(r)
    BY <1>2
  <2>4. QED
    BY <2>2, <2>3 DEF RowStep, INFLIGHT
<1>5. \A r \in Ids : /\ runs'[r].source = runs[r].source /\ runs'[r].by = runs[r].by
                     /\ runs'[r].created = runs[r].created
  BY <1>2 DEF RowStep
<1>6. FeedSpacing'
  BY <1>1, <1>4, <1>5 DEF FeedSpacing
<1>7. UNCHANGED feed => DueStaysDue'
  BY <1>1, <1>4, <1>5 DEF DueStaysDue, NoFeed
<1>8. QED
  BY <1>3, <1>6, <1>7

\* A row with another status, age or hash is a row of the same run.
SameRun(row, r) ==
    row.source = runs[r].source /\ row.by = runs[r].by /\ row.created = runs[r].created

\* A row that takes a status is a row of the same run.
LEMMA RowMarked ==
  ASSUME RowsTyped, NEW r \in Ids, NEW st \in INFLIGHT \union Terminal
  PROVE  /\ WithStatus(r, st) \in RunRow /\ SameRun(WithStatus(r, st), r)
         /\ WithStatus(r, st).status = st
<1>1. runs[r] \in RunRow
  BY TableFacts
<1>2. QED
  BY <1>1 DEF RunRow, WithStatus, SameRun

\* So is one that takes a status and a hash.
LEMMA RowEnded ==
  ASSUME RowsTyped, NEW r \in Ids, NEW st \in INFLIGHT \union Terminal, NEW h \in Hashes
  PROVE  LET row == [WithStatus(r, st) EXCEPT !.hash = h] IN
         row \in RunRow /\ SameRun(row, r) /\ row.status = st /\ row.hash = h
<1>1. WithStatus(r, st) \in RunRow /\ SameRun(WithStatus(r, st), r)
      /\ WithStatus(r, st).status = st
  BY RowMarked
<1>2. QED
  BY <1>1 DEF RunRow, SameRun

\* So is one that is claimed.
LEMMA RowClaimed ==
  ASSUME RowsTyped, NEW r \in Ids
  PROVE  LET row == [runs[r] EXCEPT !.status = "running"] IN
         row \in RunRow /\ SameRun(row, r) /\ row.status = "running"
<1>1. runs[r] \in RunRow
  BY TableFacts
<1>2. QED
  BY <1>1 DEF RunRow, SameRun, INFLIGHT

\* So is one that becomes stale.
LEMMA RowAged ==
  ASSUME RowsTyped, NEW r \in Ids
  PROVE  LET row == [runs[r] EXCEPT !.stale = TRUE] IN
         row \in RunRow /\ SameRun(row, r) /\ row.status = runs[r].status /\ row.hash = runs[r].hash
<1>1. runs[r] \in RunRow
  BY TableFacts
<1>2. QED
  BY <1>1 DEF RunRow, SameRun

\* A claim starts one queued row and leaves the others alone.
LEMMA ClaimRows ==
  ASSUME RowsTyped, OthersTyped, NEW w \in Workers, claim_next(w)
  PROVE  /\ RowsStep
         /\ \E r \in Ids : /\ runs[r].status = "queued" /\ runs'[r].status = "running"
                          /\ workers' = [workers EXCEPT ![w].pc = "running", ![w].run = r]
                          /\ audits' = audits
                          /\ \A q \in Ids \ {r} : runs'[q] = runs[q]
<1>1. PICK r \in Ids :
         /\ runs[r].status = "queued"
         /\ runs' = [runs EXCEPT ![r] = [runs[r] EXCEPT !.status = "running"]]
         /\ workers' = [workers EXCEPT ![w].pc = "running", ![w].run = r]
  BY DEF claim_next
<1>2. runs \in [Ids -> RunRow] /\ audits \in [Ids -> Outcomes] /\ UNCHANGED audits
  BY TableFacts DEF claim_next
<1> DEFINE row == [runs[r] EXCEPT !.status = "running"]
<1>3. /\ row \in RunRow /\ row.status = "running" /\ row.source = runs[r].source
      /\ row.by = runs[r].by /\ row.created = runs[r].created
  BY RowClaimed DEF SameRun
<1>4. runs'[r] = row /\ \A q \in Ids \ {r} : runs'[q] = runs[q]
  BY <1>1, <1>2
<1> HIDE DEF row
<1>5. \A q \in Ids : RowStep(q)
  BY <1>1, <1>2, <1>3, <1>4 DEF RowStep
<1>6. runs' \in [Ids -> RunRow]
  BY <1>1, <1>2, <1>3 DEF row
<1>7. QED
  BY <1>1, <1>2, <1>3, <1>4, <1>5, <1>6 DEF RowsStep

\* A row is marked, and its log unchanged or, for one that was running, ended.
LEMMA CancelRows ==
  ASSUME RowsTyped, NEW r \in Ids, OperatorCancels(r)
  PROVE  /\ RowsStep /\ audits' = audits /\ runs'[r].status = "cancelled"
         /\ \A q \in Ids \ {r} : runs'[q] = runs[q]
<1>1. runs \in [Ids -> RunRow] /\ audits \in [Ids -> Outcomes] /\ UNCHANGED audits
  BY TableFacts DEF OperatorCancels
<1> DEFINE row == WithStatus(r, "cancelled")
<1>2. /\ row \in RunRow /\ row.status = "cancelled" /\ row.source = runs[r].source
      /\ row.by = runs[r].by /\ row.created = runs[r].created
  BY RowMarked DEF SameRun, Terminal
<1>3. runs' = [runs EXCEPT ![r] = row] /\ runs[r].status \in INFLIGHT
  BY DEF OperatorCancels
<1> HIDE DEF row
<1>4. runs'[r] = row /\ \A q \in Ids \ {r} : runs'[q] = runs[q]
  BY <1>1, <1>3
<1>5. \A q \in Ids : RowStep(q)
  BY <1>1, <1>2, <1>3, <1>4 DEF RowStep
<1>6. QED
  BY <1>1, <1>2, <1>3, <1>4, <1>5 DEF RowsStep

\* Time only ages rows.
LEMMA AgedRows ==
  ASSUME RowsTyped, NEW S, runs' = Aged(S), UNCHANGED audits
  PROVE  /\ RowsStep
         /\ \A r \in Ids : runs'[r].status = runs[r].status /\ runs'[r].hash = runs[r].hash
<1>1. runs \in [Ids -> RunRow] /\ audits \in [Ids -> Outcomes]
  BY TableFacts
<1>2. ASSUME NEW r \in Ids
      PROVE  /\ runs'[r] \in RunRow
             /\ runs'[r].status = runs[r].status /\ runs'[r].hash = runs[r].hash
             /\ runs'[r].source = runs[r].source /\ runs'[r].by = runs[r].by
             /\ runs'[r].created = runs[r].created
  <2>1. runs'[r] = runs[r] \/ runs'[r] = [runs[r] EXCEPT !.stale = TRUE]
    BY DEF Aged
  <2>2. QED
    BY <1>1, <2>1, RowAged DEF SameRun
<1>3. runs' \in [Ids -> RunRow]
  BY <1>2 DEF Aged
<1>4. QED
  BY <1>1, <1>2, <1>3 DEF RowsStep, RowStep

\* The sweeper fails running rows and logs it.
LEMMA SweptRows ==
  ASSUME RowsTyped, AuditsAgree, recover_stale_runs
  PROVE  /\ RowsStep
         /\ \A r \in Ids :
               \/ runs'[r] = runs[r] /\ audits'[r] = audits[r]
               \/ /\ runs[r].status = "running" /\ runs'[r].status = "failed"
                  /\ audits'[r] = <<"swept">>
<1>1. runs \in [Ids -> RunRow] /\ audits \in [Ids -> Outcomes]
  BY TableFacts
<1>2. PICK batch \in SUBSET {r \in Ids : IsStale(r)} :
         /\ runs' = [r \in Ids |-> IF r \in batch THEN Swept(r) ELSE runs[r]]
         /\ audits' = [r \in Ids |-> IF r \in batch THEN Append(audits[r], "swept")
                                                    ELSE audits[r]]
  BY DEF recover_stale_runs
<1>3. ASSUME NEW r \in batch
      PROVE  /\ r \in Ids /\ runs[r].status = "running"
             /\ runs'[r] \in RunRow /\ audits'[r] = <<"swept">> /\ runs'[r].status = "failed"
             /\ runs'[r].source = runs[r].source /\ runs'[r].by = runs[r].by
             /\ runs'[r].created = runs[r].created
  <2>1. r \in Ids /\ runs[r].status = "running"
    BY DEF IsStale
  <2>2. runs'[r] = WithStatus(r, "failed")
    BY <1>2, <2>1 DEF Swept
  <2>3. audits'[r] = <<"swept">>
    <3>1. audits'[r] = Append(audits[r], "swept")
      BY <1>2, <2>1
    <3>2. audits[r] = << >>
      BY <2>1 DEF AuditsAgree
    <3>3. QED
      BY <3>1, <3>2
  <2>4. QED
    BY <2>1, <2>2, <2>3, RowMarked DEF SameRun, Terminal
<1>4. \A r \in Ids \ batch : runs'[r] = runs[r] /\ audits'[r] = audits[r]
  BY <1>2
<1>5. \A r \in Ids : RowStep(r)
  BY <1>3, <1>4 DEF RowStep
<1>6. runs' \in [Ids -> RunRow] /\ audits' \in [Ids -> Outcomes]
  BY <1>1, <1>2, <1>3, <1>4 DEF Outcomes
<1>7. QED
  BY <1>3, <1>4, <1>5, <1>6 DEF RowsStep

\* A worker records the outcome of a run that nobody else has ended.
LEMMA RecordedRows ==
  ASSUME RowsTyped, OthersTyped, RunsAreHeld, AuditsAgree, NEW w \in Workers, Record(w)
  PROVE  LET r == workers[w].run IN
         /\ RowsStep /\ r \in Ids
         /\ \A q \in Ids \ {r} : runs'[q] = runs[q] /\ audits'[q] = audits[q]
         /\ \/ runs[r].status # "running" /\ runs'[r] = runs[r] /\ audits'[r] = audits[r]
            \/ /\ workers[w].pc = "succeeded" /\ runs'[r].status = "succeeded"
               /\ audits'[r] = <<"succeeded">>
               /\ runs'[r].hash = Fingerprint(workers[w].snapshot)
            \/ /\ workers[w].pc = "failed" /\ runs'[r].status = "failed"
               /\ audits'[r] = <<"failed">>
<1> DEFINE r == workers[w].run
           st == workers[w].pc
           h == IF st = "succeeded" THEN Fingerprint(workers[w].snapshot) ELSE NoSnapshot
<1>1. runs \in [Ids -> RunRow] /\ audits \in [Ids -> Outcomes]
  BY TableFacts
<1>2. st \in {"succeeded", "failed"} /\ r \in Ids
  BY DEF Record, RunsAreHeld
<1>3. h \in Hashes
  <2>1. workers[w].snapshot \in Taken
    BY DEF OthersTyped, WorkerRow
  <2>2. NoSnapshot \in Taken /\ Fingerprint(NoSnapshot) = NoSnapshot
    BY DEF Taken, Fingerprint, NoSnapshot
  <2>3. QED
    BY <2>1, <2>2 DEF Hashes
<1>4. write_terminal_state(r, st, h)
  BY DEF Record
<1> HIDE DEF r, st, h
<1>5. CASE runs[r].status # "running"
  <2>1. UNCHANGED <<runs, audits>>
    BY <1>4, <1>5 DEF write_terminal_state
  <2>2. QED
    BY <1>1, <1>2, <1>5, <2>1 DEF RowsStep, RowStep, r
<1>6. CASE runs[r].status = "running"
  <2> DEFINE row == [WithStatus(r, st) EXCEPT !.hash = h]
  <2>1. runs' = [runs EXCEPT ![r] = row] /\ audits' = [audits EXCEPT ![r] = Append(@, st)]
    BY <1>4, <1>6 DEF write_terminal_state
  <2>2. /\ row \in RunRow /\ row.status = st /\ row.source = runs[r].source
        /\ row.by = runs[r].by /\ row.created = runs[r].created /\ row.hash = h
    BY <1>2, <1>3, RowEnded DEF SameRun, Terminal
  <2> HIDE DEF row
  <2>3. audits[r] = << >>
    BY <1>2, <1>6 DEF AuditsAgree
  <2>4. /\ runs'[r] = row /\ audits'[r] = <<st>>
        /\ \A q \in Ids \ {r} : runs'[q] = runs[q] /\ audits'[q] = audits[q]
    BY <1>1, <1>2, <2>1, <2>3
  <2>5. \A q \in Ids : RowStep(q)
    BY <1>2, <1>6, <2>2, <2>4 DEF RowStep
  <2>6. runs' \in [Ids -> RunRow] /\ audits' \in [Ids -> Outcomes]
    BY <1>1, <1>2, <2>1, <2>2, <2>3 DEF Outcomes
  <2>7. QED
    BY <1>2, <2>2, <2>4, <2>5, <2>6 DEF RowsStep, r, st, h
<1>7. QED
  BY <1>5, <1>6 DEF r

(***************************************************************************)
(* New rows.                                                               *)

(***************************************************************************)
\* Rows are appended, each with an empty log.
Grown(new) ==
    /\ RowsTyped'
    /\ Len(runs') = Len(runs) + Len(new)
    /\ \A r \in Ids : runs'[r] = runs[r] /\ audits'[r] = audits[r]
    /\ \A i \in 1..Len(new) :
          runs'[Len(runs) + i] = new[i] /\ audits'[Len(runs) + i] = << >>

\* Appended rows and empty logs grow the table.
LEMMA ConcatGrows ==
  ASSUME RowsTyped, NEW new \in Seq(RunRow),
         runs' = runs \o new, audits' = audits \o [i \in DOMAIN new |-> << >>]
  PROVE  Grown(new)
<1> DEFINE logs == [i \in DOMAIN new |-> << >>]
<1>1. /\ Len(runs) \in Nat /\ Len(new) \in Nat /\ DOMAIN new = 1..Len(new)
      /\ runs \in Seq(RunRow) /\ audits \in Seq(Outcomes) /\ Len(audits) = Len(runs)
  BY LenProperties DEF RowsTyped
<1>2. logs \in Seq(Outcomes) /\ Len(logs) = Len(new)
  <2>1. logs \in [1..Len(new) -> Outcomes]
    BY <1>1 DEF Outcomes
  <2> HIDE DEF logs
  <2>2. QED
    BY <1>1, <2>1, FunctionIsSeq
<1>3. /\ runs' \in Seq(RunRow) /\ Len(runs') = Len(runs) + Len(new)
      /\ \A i \in 1..Len(runs) + Len(new) :
            runs'[i] = IF i <= Len(runs) THEN runs[i] ELSE new[i - Len(runs)]
  BY <1>1, ConcatProperties
<1>4. /\ audits' \in Seq(Outcomes) /\ Len(audits') = Len(runs) + Len(new)
      /\ \A i \in 1..Len(runs) + Len(new) :
            audits'[i] = IF i <= Len(runs) THEN audits[i] ELSE logs[i - Len(runs)]
  <2> HIDE DEF logs
  <2>1. audits' = audits \o logs
    BY DEF logs
  <2>2. /\ audits \o logs \in Seq(Outcomes) /\ Len(audits \o logs) = Len(audits) + Len(logs)
        /\ \A i \in 1..Len(audits) + Len(logs) :
              (audits \o logs)[i] = IF i <= Len(audits) THEN audits[i] ELSE logs[i - Len(audits)]
    BY <1>1, <1>2, ConcatProperties
  <2>3. QED
    BY <1>1, <1>2, <2>1, <2>2
<1>5. ASSUME NEW i \in 1..Len(new)
      PROVE  runs'[Len(runs) + i] = new[i] /\ audits'[Len(runs) + i] = << >>
  <2>1. /\ Len(runs) + i \in 1..Len(runs) + Len(new) /\ ~(Len(runs) + i <= Len(runs))
        /\ Len(runs) + i - Len(runs) = i
    BY <1>1
  <2>2. logs[i] = << >>
    BY <1>1
  <2> HIDE DEF logs
  <2>3. QED
    BY <1>3, <1>4, <2>1, <2>2
<1>6. ASSUME NEW r \in Ids PROVE runs'[r] = runs[r] /\ audits'[r] = audits[r]
  <2>1. r \in 1..Len(runs) + Len(new) /\ r <= Len(runs)
    BY <1>1 DEF Ids
  <2> HIDE DEF logs
  <2>2. QED
    BY <1>3, <1>4, <2>1
<1>7. QED
  BY <1>3, <1>4, <1>5, <1>6 DEF Grown, RowsTyped

\* Every row is an old one or a new one.
LEMMA GrownIds ==
  ASSUME RowsTyped, NEW new \in Seq(RunRow), Grown(new)
  PROVE  /\ Ids \subseteq Ids'
         /\ \A r \in Ids' \ Ids : /\ r - Len(runs) \in 1..Len(new)
                                  /\ runs'[r] = new[r - Len(runs)] /\ audits'[r] = << >>
         /\ \A q \in Ids, r \in Ids' \ Ids : q < r
<1>1. Len(runs) \in Nat /\ Len(new) \in Nat
  BY LenProperties DEF RowsTyped
<1>2. Ids = 1..Len(runs) /\ Ids' = 1..Len(runs) + Len(new)
  BY DEF Ids, Grown
<1>3. ASSUME NEW r \in Ids' \ Ids
      PROVE  /\ r - Len(runs) \in 1..Len(new) /\ r = Len(runs) + (r - Len(runs))
  BY <1>1, <1>2
<1>4. QED
  BY <1>1, <1>2, <1>3 DEF Grown

\* New rows wait, so no outcome is missing.
LEMMA GrownAgrees ==
  ASSUME RowsTyped, AuditsAgree, NEW new \in Seq(RunRow), Grown(new),
         \A i \in 1..Len(new) : new[i].status = "queued"
  PROVE  AuditsAgree'
<1>1. \A r \in Ids : runs'[r] = runs[r] /\ audits'[r] = audits[r]
  BY DEF Grown
<1>2. \A r \in Ids' \ Ids : runs'[r].status = "queued" /\ audits'[r] = << >>
  BY GrownIds
<1>3. QED
  BY <1>1, <1>2 DEF AuditsAgree

\* What an administrator or the feeder enqueues is a row.
LEMMA Enqueued ==
  ASSUME NEW s \in Sources, NEW by \in {"feed", "admin"}, NEW at \in 0..LastTick
  PROVE  /\ Enqueue(s, by, at) \in RunRow
         /\ Enqueue(s, by, at).source = s /\ Enqueue(s, by, at).by = by
         /\ Enqueue(s, by, at).created = at /\ Enqueue(s, by, at).status = "queued"
<1>1. NoSnapshot \in Hashes
  <2>1. NoSnapshot \in Taken
    BY DEF Taken
  <2>2. Fingerprint(NoSnapshot) = NoSnapshot
    BY DEF Fingerprint, NoSnapshot
  <2>3. QED
    BY <2>1, <2>2 DEF Hashes
<1>2. QED
  BY <1>1 DEF Enqueue, RunRow, INFLIGHT, Terminal

\* An administrator appends one row.
LEMMA AdminRows ==
  ASSUME RowsTyped, OthersTyped, NEW s \in Sources, enqueue_collection_run(s)
  PROVE  Grown(<<Enqueue(s, "admin", now)>>)
<1> DEFINE row == Enqueue(s, "admin", now)
<1>1. row \in RunRow
  BY Enqueued DEF OthersTyped
<1>2. runs \in Seq(RunRow) /\ audits \in Seq(Outcomes) /\ << >> \in Outcomes
  BY DEF RowsTyped, Outcomes
<1>3. runs' = Append(runs, row) /\ audits' = Append(audits, << >>)
  BY DEF enqueue_collection_run
<1> HIDE DEF row
<1>4. <<row>> \in Seq(RunRow) /\ runs' = runs \o <<row>>
  BY <1>1, <1>2, <1>3
<1>5. audits' = audits \o <<<< >>>>
  BY <1>2, <1>3
<1>6. [i \in DOMAIN <<row>> |-> << >>] = <<<< >>>>
  OBVIOUS
<1>7. QED
  BY <1>4, <1>5, <1>6, ConcatGrows DEF row

\* The sequence of a finite set has each element once.
LEMMA SetToSeqOnce ==
  ASSUME NEW S, IsFiniteSet(S)
  PROVE  /\ SetToSeq(S) \in [1..Cardinality(S) -> S] /\ Cardinality(S) \in Nat
         /\ \A i, j \in 1..Cardinality(S) : SetToSeq(S)[i] = SetToSeq(S)[j] => i = j
<1>1. Cardinality(S) \in Nat /\ ExistsBijection(1..Cardinality(S), S)
  BY FS_CardinalityType
<1>2. \E f \in [1..Cardinality(S) -> S] : IsInjective(f)
  BY <1>1 DEF ExistsBijection, Bijection, Injection
<1>3. SetToSeq(S) \in [1..Cardinality(S) -> S] /\ IsInjective(SetToSeq(S))
  BY <1>2 DEF SetToSeq
<1>4. QED
  BY <1>1, <1>3 DEF IsInjective

\* The feeder inserts one row for each source it has found due.
LEMMA FedRows ==
  ASSUME RowsTyped, OthersTyped, FeedInserts
  PROVE  \E new \in Seq(RunRow) :
            /\ Grown(new)
            /\ \A i \in 1..Len(new) :
                  /\ new[i].source \in feed.due /\ new[i].by = "feed"
                  /\ new[i].created = feed.at /\ new[i].status = "queued"
            /\ \A i, j \in 1..Len(new) : new[i].source = new[j].source => i = j
<1> DEFINE due == SetToSeq(feed.due)
           new == [i \in DOMAIN due |-> Enqueue(due[i], "feed", feed.at)]
           n == Cardinality(feed.due)
<1>1. feed.due \subseteq Sources /\ feed.at \in 0..LastTick
  BY DEF OthersTyped
<1>2. IsFiniteSet(feed.due)
  BY <1>1, FS_Subset, QueueAssumption
<1>3. /\ n \in Nat /\ due \in [1..n -> feed.due]
      /\ \A i, j \in 1..n : due[i] = due[j] => i = j
  BY <1>2, SetToSeqOnce
<1>4. runs' = runs \o new /\ audits' = audits \o [i \in DOMAIN new |-> << >>]
  BY DEF FeedInserts
<1> HIDE DEF due, n
<1>5. DOMAIN new = 1..n /\ \A i \in 1..n : new[i] = Enqueue(due[i], "feed", feed.at)
  BY <1>3
<1>6. \A i \in 1..n : /\ new[i] \in RunRow
                      /\ new[i].source = due[i] /\ new[i].by = "feed"
                      /\ new[i].created = feed.at /\ new[i].status = "queued"
  BY <1>1, <1>3, <1>5, Enqueued
<1>7. new \in [1..n -> RunRow]
  BY <1>3, <1>6
<1> HIDE DEF new
<1>8. new \in Seq(RunRow) /\ Len(new) = n
  BY <1>3, <1>7, FunctionIsSeq
<1>9. Grown(new)
  BY <1>4, <1>8, ConcatGrows
<1>10. QED
  BY <1>3, <1>6, <1>8, <1>9

(***************************************************************************)
(* The types of the other variables.                                       *)

(***************************************************************************)
\* What the state of a worker holds.
LEMMA WorkerFields ==
  ASSUME OthersTyped, NEW w \in Workers
  PROVE  /\ workers[w] \in WorkerRow /\ workers \in [Workers -> WorkerRow]
         /\ workers[w].pc \in {"idle", "running", "collected", "succeeded", "failed"}
         /\ workers[w].run \in Nat /\ workers[w].snapshot \in Taken
         /\ workers[w].stop \in {"no", "asked", "done"}
  BY DEF OthersTyped, WorkerRow

\* The values that stand for nothing are typed.
LEMMA NoSnapshotTaken ==
  NoSnapshot \in Taken /\ Idle \in WorkerRow
<1>1. NoSnapshot \in Taken
  BY DEF Taken
<1>2. QED
  BY <1>1 DEF Idle, WorkerRow

\* What a runner returns is one of the snapshots.
LEMMA RunnerTakes ==
  ASSUME RowsTyped, OthersTyped, RunsAreHeld, NEW w \in Workers, RunnerReads(w)
  PROVE  \E x \in Taken :
            /\ \/ /\ workers' = [workers EXCEPT ![w].pc = "failed", ![w].snapshot = x]
               \/ /\ HasFile(KeyOf(w)) /\ IsSnapshotOf(x, KeyOf(w))
                  /\ workers' = [workers EXCEPT ![w].pc = "collected", ![w].snapshot = x]
               \/ /\ ~HasFile(KeyOf(w))
                  /\ workers' = [workers EXCEPT ![w].pc = "succeeded", ![w].snapshot = x]
<1> DEFINE key == KeyOf(w)
<1>1. key \in Sources
  <2>1. workers[w].run \in Ids
    BY DEF RunnerReads, Serving, RunsAreHeld
  <2>2. QED
    BY <2>1, RowFields DEF KeyOf
<1>2. PICK input \in Inputs :
         workers' = [workers EXCEPT
            ![w].pc = IF Failure(key, input) # "none" THEN "failed"
                      ELSE IF HasFile(key) THEN "collected" ELSE "succeeded",
            ![w].snapshot = IF Failure(key, input) # "none" THEN NoSnapshot
                            ELSE IF HasFile(key) THEN Snapshot(key, input, now)
                            ELSE FixtureFingerprint(key)]
  BY DEF RunnerReads
<1> HIDE DEF key
<1>3. CASE Failure(key, input) # "none"
  BY <1>2, <1>3, NoSnapshotTaken
<1>4. CASE Failure(key, input) = "none" /\ HasFile(key)
  <2>1. now \in 0..LastTick
    BY DEF OthersTyped
  <2>2. Snapshot(key, input, now) \in Taken
    <3> DEFINE pairs == {p \in Sources \X Inputs : HasFile(p[1]) /\ Failure(p[1], p[2]) = "none"}
    <3>1. <<key, input>> \in pairs
      BY <1>1, <1>4
    <3>2. Snapshot(key, input, now) \in {Snapshot(<<key, input>>[1], <<key, input>>[2], t) : t \in 0..LastTick}
      BY <2>1
    <3>3. Taken = {NoSnapshot} \union {FixtureFingerprint(s) : s \in Sources} \union
                  UNION {{Snapshot(p[1], p[2], t) : t \in 0..LastTick} : p \in pairs}
      BY DEF Taken
    <3> HIDE DEF pairs
    <3>4. QED
      BY <3>1, <3>2, <3>3
  <2>3. IsSnapshotOf(Snapshot(key, input, now), key)
    BY DEF Snapshot, IsSnapshotOf
  <2>4. QED
    BY <1>2, <1>4, <2>2, <2>3 DEF key
<1>5. CASE Failure(key, input) = "none" /\ ~HasFile(key)
  <2>1. FixtureFingerprint(key) \in Taken
    BY <1>1 DEF Taken
  <2>2. QED
    BY <1>2, <1>5, <2>1 DEF key
<1>6. QED
  BY <1>3, <1>4, <1>5

\* Crashes and signals are counted up to their bound.
LEMMA CrashBound ==
  ASSUME OthersTyped, NEW w \in Workers, Crash(w)
  PROVE  crashes' = crashes + 1 /\ crashes' \in 0..MaxInterruptions
<1> DEFINE told == {v \in Workers : workers[v].stop # "no"}
<1>1. IsFiniteSet(told)
  BY QueueAssumption, FS_Subset
<1>2. Cardinality(told) \in Nat
  BY <1>1, FS_CardinalityType
<1>3. crashes + Cardinality(told) < MaxInterruptions /\ crashes' = crashes + 1
  BY DEF Crash, Interruptions
<1> HIDE DEF told
<1>4. MaxInterruptions \in Nat /\ crashes \in 0..MaxInterruptions
  BY QueueAssumption DEF OthersTyped
<1>5. QED
  BY <1>2, <1>3, <1>4

\* Every step keeps the types of files, workers, feed, clock and crashes.
LEMMA OthersTypes ==
  ASSUME IInv, [Next]_vars
  PROVE  OthersTyped'
<1>1. /\ RowsTyped /\ OthersTyped /\ RunsAreHeld
      /\ file \in [Sources -> FileRow] /\ workers \in [Workers -> WorkerRow]
      /\ feed \in [due : SUBSET Sources, at : 0..LastTick] /\ now \in 0..LastTick
      /\ crashes \in 0..MaxInterruptions
  BY DEF IInv, OthersTyped
<1>2. ASSUME UNCHANGED <<file, feed, now, crashes>>, workers' \in [Workers -> WorkerRow]
      PROVE  OthersTyped'
  BY <1>1, <1>2 DEF OthersTyped
<1>3. ASSUME UNCHANGED <<file, feed, now, crashes, workers>> PROVE OthersTyped'
  BY <1>1, <1>3 DEF OthersTyped
<1>4. ASSUME NEW w \in Workers, claim_next(w) PROVE OthersTyped'
  <2>1. PICK r \in Ids : workers' = [workers EXCEPT ![w].pc = "running", ![w].run = r]
    BY <1>4 DEF claim_next
  <2>2. r \in Nat
    BY <1>1, TableFacts DEF Ids
  <2>3. workers' \in [Workers -> WorkerRow]
    BY <1>1, <2>1, <2>2 DEF WorkerRow
  <2>4. QED
    BY <1>2, <1>4, <2>3 DEF claim_next
<1>5. ASSUME NEW w \in Workers, RunnerReads(w) PROVE OthersTyped'
  <2>1. PICK x \in Taken, pc \in {"failed", "collected", "succeeded"} :
           workers' = [workers EXCEPT ![w].pc = pc, ![w].snapshot = x]
    BY <1>1, <1>5, RunnerTakes
  <2>2. workers' \in [Workers -> WorkerRow]
    BY <1>1, <2>1 DEF WorkerRow
  <2>3. QED
    BY <1>2, <1>5, <2>2 DEF RunnerReads
<1>6. ASSUME NEW w \in Workers, RunnerWrites(w) PROVE OthersTyped'
  <2>1. workers' \in [Workers -> WorkerRow]
    BY <1>1, <1>6 DEF RunnerWrites, Step, WorkerRow
  <2>2. [run |-> workers[w].run, snapshot |-> workers[w].snapshot] \in FileRow
    BY <1>1, WorkerFields DEF FileRow
  <2>3. file' \in [Sources -> FileRow]
    BY <1>1, <1>6, <2>2 DEF RunnerWrites
  <2>4. QED
    BY <1>1, <1>6, <2>1, <2>3 DEF RunnerWrites, OthersTyped
<1>7. ASSUME NEW w \in Workers, WriteFails(w) PROVE OthersTyped'
  <2>1. workers' \in [Workers -> WorkerRow]
    BY <1>1, <1>7, NoSnapshotTaken DEF WriteFails, WorkerRow
  <2>2. QED
    BY <1>2, <1>7, <2>1 DEF WriteFails
<1>8. \A w \in Workers, stop \in {"no", "asked", "done"} :
         [workers EXCEPT ![w] = [Idle EXCEPT !.stop = stop]] \in [Workers -> WorkerRow]
  BY <1>1, NoSnapshotTaken DEF WorkerRow
<1>9. ASSUME NEW w \in Workers, Record(w) \/ Leave(w) PROVE OthersTyped'
  <2>1. workers[w].stop \in {"no", "asked", "done"}
    BY <1>1, WorkerFields
  <2>2. PICK stop \in {"no", "asked", "done"} :
           workers' = [workers EXCEPT ![w] = [Idle EXCEPT !.stop = stop]]
    BY <1>9, <2>1 DEF Record, Leave
  <2>3. QED
    BY <1>2, <1>8, <1>9, <2>2 DEF Record, Leave
<1>10. ASSUME NEW w \in Workers, Signal(w) PROVE OthersTyped'
  <2>1. workers' \in [Workers -> WorkerRow]
    BY <1>1, <1>10 DEF Signal, WorkerRow
  <2>2. QED
    BY <1>2, <1>10, <2>1 DEF Signal
<1>11. ASSUME NEW w \in Workers, Crash(w) PROVE OthersTyped'
  <2>1. workers[w].stop \in {"no", "asked", "done"}
    BY <1>1, WorkerFields
  <2>2. workers' \in [Workers -> WorkerRow]
    BY <1>8, <1>11, <2>1 DEF Crash
  <2>3. crashes' \in 0..MaxInterruptions
    BY <1>1, <1>11, CrashBound
  <2>4. QED
    BY <1>1, <1>11, <2>2, <2>3 DEF Crash, OthersTyped
<1>12. ASSUME NEW families, FeedReads(families) PROVE OthersTyped'
  <2>1. feed' \in [due : SUBSET Sources, at : 0..LastTick]
    BY <1>1, <1>12 DEF FeedReads
  <2>2. QED
    BY <1>1, <1>12, <2>1 DEF FeedReads, OthersTyped
<1>13. CASE FeedInserts
  <2>1. 0 \in 0..LastTick
    BY QueueAssumption
  <2>2. feed' \in [due : SUBSET Sources, at : 0..LastTick]
    BY <1>13, <2>1 DEF FeedInserts, NoFeed
  <2>3. QED
    BY <1>1, <1>13, <2>2 DEF FeedInserts, OthersTyped
<1>14. CASE Tick
  <2>1. now' \in 0..LastTick
    BY <1>1, <1>14, QueueAssumption DEF Tick
  <2>2. QED
    BY <1>1, <1>14, <2>1 DEF Tick, OthersTyped
<1>15. CASE \/ \E s \in Sources : enqueue_collection_run(s)
            \/ recover_stale_runs
            \/ \E r \in Ids : OperatorCancels(r) \/ Overdue(r)
            \/ UNCHANGED vars
  BY <1>3, <1>15 DEF enqueue_collection_run, recover_stale_runs, OperatorCancels, Overdue, vars
<1>16. QED
  BY <1>4, <1>5, <1>6, <1>7, <1>9, <1>10, <1>11, <1>12, <1>13, <1>14, <1>15
     DEF Next, WorkerStep

(***************************************************************************)
(* What a step does to the rows.                                           *)

(***************************************************************************)
\* No run succeeds or is recorded as failed by its worker; no row waits again.
Calm ==
    /\ Ids \subseteq Ids'
    /\ \A r \in Ids :
          /\ runs'[r].source = runs[r].source
          /\ runs[r].status # "queued" => runs'[r].status # "queued"
          /\ runs'[r].status = "succeeded" =>
                runs[r].status = "succeeded" /\ runs'[r].hash = runs[r].hash
          /\ audits'[r] = <<"failed">> => audits[r] = <<"failed">>
    /\ \A r \in Ids' \ Ids : runs'[r].status = "queued"

\* Growing the table ends no run.
LEMMA GrownCalm ==
  ASSUME RowsTyped, NEW new \in Seq(RunRow), Grown(new),
         \A i \in 1..Len(new) : new[i].status = "queued"
  PROVE  Calm
<1>1. \A r \in Ids : runs'[r] = runs[r] /\ audits'[r] = audits[r]
  BY DEF Grown
<1>2. Ids \subseteq Ids' /\ \A r \in Ids' \ Ids : runs'[r].status = "queued"
  BY GrownIds
<1>3. QED
  BY <1>1, <1>2 DEF Calm

\* The feeder finds what is due.
LEMMA FoundDue ==
  ASSUME RowsTyped, OthersTyped, NEW families, FeedReads(families)
  PROVE  DueStaysDue'
<1>1. UNCHANGED runs /\ Ids' = Ids
  BY DEF FeedReads, Ids
<1>2. feed'.due = {s \in Sources : Schedulable(s, families) /\ Due(s)} /\ feed'.at = now
  BY DEF FeedReads
<1>3. ASSUME NEW q \in Ids, runs[q].source \in feed'.due, runs[q].by = "feed",
             runs[q].status # "cancelled"
      PROVE  runs[q].status \notin INFLIGHT /\ feed'.at - runs[q].created >= Cadence
  <2>1. Due(runs[q].source)
    BY <1>2, <1>3
  <2>2. runs[q].status \notin INFLIGHT
    BY <2>1 DEF Due, RunsOf
  <2>3. runs[q].status \in WINDOW_ADVANCING
    BY <1>3, <2>2, RowFields DEF INFLIGHT, WINDOW_ADVANCING
  <2>4. now - runs[q].created >= Cadence
    BY <2>1, <2>3 DEF Due, RunsOf
  <2>5. QED
    BY <1>2, <2>2, <2>4
<1>4. QED
  BY <1>1, <1>3 DEF DueStaysDue

\* What it has found due it may insert.
LEMMA FedSpacing ==
  ASSUME RowsTyped, OthersTyped, FeedSpacing, DueStaysDue, FeedInserts
  PROVE  FeedSpacing' /\ DueStaysDue'
<1>1. PICK new \in Seq(RunRow) :
         /\ Grown(new)
         /\ \A i \in 1..Len(new) :
               /\ new[i].source \in feed.due /\ new[i].by = "feed"
               /\ new[i].created = feed.at /\ new[i].status = "queued"
         /\ \A i, j \in 1..Len(new) : new[i].source = new[j].source => i = j
  BY FedRows
<1>2. Len(runs) \in Nat /\ \A r \in Ids' : r \in Int
  BY <1>1, TableFacts, LenProperties DEF Ids, Grown, RowsTyped
<1>3. \A r \in Ids' \ Ids : /\ r - Len(runs) \in 1..Len(new)
                            /\ runs'[r] = new[r - Len(runs)]
  BY <1>1, GrownIds
<1>4. \A r \in Ids : runs'[r] = runs[r]
  BY <1>1 DEF Grown
<1>5. \A q \in Ids, r \in Ids' \ Ids : q < r
  BY <1>1, GrownIds
<1>6. ASSUME NEW q \in Ids', NEW r \in Ids', q < r, runs'[q].source = runs'[r].source,
             runs'[q].by = "feed", runs'[r].by = "feed", runs'[q].status # "cancelled"
      PROVE  runs'[q].status \notin INFLIGHT /\ runs'[r].created - runs'[q].created >= Cadence
  <2>1. CASE q \in Ids /\ r \in Ids
    BY <1>4, <1>6, <2>1 DEF FeedSpacing
  <2>2. CASE q \in Ids /\ r \notin Ids
    <3>1. runs'[r].source \in feed.due /\ runs'[r].created = feed.at
      BY <1>1, <1>3, <2>2
    <3>2. feed # NoFeed
      BY DEF FeedInserts
    <3>3. QED
      BY <1>4, <1>6, <2>2, <3>1, <3>2 DEF DueStaysDue
  <2>3. CASE q \notin Ids /\ r \in Ids
    <3>1. r < q
      BY <1>5, <2>3
    <3>2. QED
      BY <1>2, <1>6, <3>1
  <2>4. CASE q \notin Ids /\ r \notin Ids
    <3>1. q - Len(runs) = r - Len(runs)
      BY <1>1, <1>3, <1>6, <2>4
    <3>2. QED
      BY <1>2, <1>6, <3>1
  <2>5. QED
    BY <2>1, <2>2, <2>3, <2>4
<1>7. feed' = NoFeed
  BY DEF FeedInserts
<1>8. QED
  BY <1>6, <1>7 DEF FeedSpacing, DueStaysDue

\* An administrator's row is none of the feeder's.
LEMMA AdminSpacing ==
  ASSUME RowsTyped, OthersTyped, FeedSpacing, DueStaysDue,
         NEW s \in Sources, enqueue_collection_run(s)
  PROVE  FeedSpacing' /\ DueStaysDue'
<1> DEFINE row == Enqueue(s, "admin", now)
<1>1. row \in RunRow /\ row.by = "admin"
  BY Enqueued DEF OthersTyped
<1>2. Grown(<<row>>)
  BY AdminRows
<1> HIDE DEF row
<1>3. <<row>> \in Seq(RunRow) /\ Len(<<row>>) = 1 /\ <<row>>[1] = row
  BY <1>1
<1>4. \A r \in Ids : runs'[r] = runs[r]
  BY <1>2 DEF Grown
<1>5. \A r \in Ids' \ Ids : runs'[r].by = "admin"
  <2>1. TAKE r \in Ids' \ Ids
  <2>2. r - Len(runs) \in 1..1 /\ runs'[r] = <<row>>[r - Len(runs)]
    BY <1>2, <1>3, GrownIds
  <2>3. r - Len(runs) = 1
    BY <2>2
  <2>4. QED
    BY <1>1, <1>3, <2>2, <2>3
<1>6. FeedSpacing'
  BY <1>4, <1>5 DEF FeedSpacing
<1>7. UNCHANGED feed
  BY DEF enqueue_collection_run
<1>8. DueStaysDue'
  BY <1>4, <1>5, <1>7 DEF DueStaysDue, NoFeed
<1>9. QED
  BY <1>6, <1>8

\* A step on the rows that ends no run by its worker is calm.
LEMMA RowsCalm ==
  ASSUME RowsTyped, RowsStep,
         \A r \in Ids : /\ runs'[r].status = "succeeded" => runs[r].status = "succeeded"
                        /\ audits'[r] = <<"failed">> => audits[r] = <<"failed">>
  PROVE  Calm
<1>1. Ids' = Ids
  BY RowsAfter
<1>2. ASSUME NEW r \in Ids
      PROVE  /\ runs'[r].source = runs[r].source
             /\ runs[r].status # "queued" => runs'[r].status # "queued"
             /\ runs'[r].status = "succeeded" => runs'[r].hash = runs[r].hash
  <2>1. RowStep(r)
    BY DEF RowsStep
  <2>2. QED
    BY <2>1 DEF RowStep
<1>3. QED
  BY <1>1, <1>2 DEF Calm

\* Every step keeps the rows, the log and the feeder's rules.
LEMMA StepOnRows ==
  ASSUME IInv, [Next]_vars
  PROVE  /\ RowsTyped' /\ AuditsAgree' /\ FeedSpacing' /\ DueStaysDue'
         /\ Calm \/ \E w \in Workers : Record(w)
<1>1. /\ RowsTyped /\ OthersTyped /\ RunsAreHeld /\ AuditsAgree /\ FeedSpacing /\ DueStaysDue
  BY DEF IInv
<1>2. ASSUME RowsStep, UNCHANGED feed
      PROVE  RowsTyped' /\ AuditsAgree' /\ FeedSpacing' /\ DueStaysDue'
  BY <1>1, <1>2, RowsAfter, RowsKeep
<1>3. ASSUME UNCHANGED <<runs, audits>>
      PROVE  RowsTyped' /\ AuditsAgree' /\ FeedSpacing' /\ Calm /\ RowsStep
  <2>1. Ids' = Ids
    BY <1>3 DEF Ids
  <2>2. RowsStep
    BY <1>1, <1>3, TableFacts DEF RowsStep, RowStep
  <2>3. RowsTyped' /\ Calm
    BY <1>1, <1>3, <2>1 DEF RowsTyped, Calm
  <2>4. QED
    BY <1>1, <2>2, <2>3, RowsKeep
<1>4. ASSUME UNCHANGED <<runs, audits, feed>>
      PROVE  RowsTyped' /\ AuditsAgree' /\ FeedSpacing' /\ DueStaysDue' /\ Calm
  BY <1>2, <1>3, <1>4
<1>5. ASSUME NEW s \in Sources, enqueue_collection_run(s)
      PROVE  RowsTyped' /\ AuditsAgree' /\ FeedSpacing' /\ DueStaysDue' /\ Calm
  <2> DEFINE row == Enqueue(s, "admin", now)
  <2>1. row \in RunRow /\ row.status = "queued"
    BY <1>1, Enqueued DEF OthersTyped
  <2>2. Grown(<<row>>)
    BY <1>1, <1>5, AdminRows
  <2> HIDE DEF row
  <2>3. <<row>> \in Seq(RunRow) /\ \A i \in 1..Len(<<row>>) : <<row>>[i].status = "queued"
    BY <2>1
  <2>4. AuditsAgree' /\ Calm
    BY <1>1, <2>2, <2>3, GrownAgrees, GrownCalm
  <2>5. RowsTyped'
    BY <2>2 DEF Grown
  <2>6. QED
    BY <1>1, <1>5, <2>4, <2>5, AdminSpacing
<1>6. CASE FeedInserts
  <2>1. PICK new \in Seq(RunRow) :
           Grown(new) /\ \A i \in 1..Len(new) : new[i].status = "queued"
    BY <1>1, <1>6, FedRows
  <2>2. AuditsAgree' /\ Calm
    BY <1>1, <2>1, GrownAgrees, GrownCalm
  <2>3. RowsTyped'
    BY <2>1 DEF Grown
  <2>4. QED
    BY <1>1, <1>6, <2>2, <2>3, FedSpacing
<1>7. ASSUME NEW families, FeedReads(families)
      PROVE  RowsTyped' /\ AuditsAgree' /\ FeedSpacing' /\ DueStaysDue' /\ Calm
  <2>1. UNCHANGED <<runs, audits>>
    BY <1>7 DEF FeedReads
  <2>2. QED
    BY <1>1, <1>3, <1>7, <2>1, FoundDue
<1>8. ASSUME NEW w \in Workers, claim_next(w)
      PROVE  RowsTyped' /\ AuditsAgree' /\ FeedSpacing' /\ DueStaysDue' /\ Calm
  <2>1. RowsStep /\ UNCHANGED feed
    BY <1>1, <1>8, ClaimRows DEF claim_next
  <2>2. \A r \in Ids : /\ runs'[r].status = "succeeded" => runs[r].status = "succeeded"
                       /\ audits'[r] = <<"failed">> => audits[r] = <<"failed">>
    BY <1>1, <1>8, ClaimRows
  <2>3. QED
    BY <1>1, <1>2, <2>1, <2>2, RowsCalm
<1>9. ASSUME NEW w \in Workers, Record(w)
      PROVE  RowsTyped' /\ AuditsAgree' /\ FeedSpacing' /\ DueStaysDue'
  <2>1. RowsStep /\ UNCHANGED feed
    BY <1>1, <1>9, RecordedRows DEF Record
  <2>2. QED
    BY <1>2, <2>1
<1>10. CASE recover_stale_runs
  <2>1. RowsStep /\ UNCHANGED feed
    BY <1>1, <1>10, SweptRows DEF recover_stale_runs
  <2>2. \A r \in Ids : /\ runs'[r].status = "succeeded" => runs[r].status = "succeeded"
                       /\ audits'[r] = <<"failed">> => audits[r] = <<"failed">>
    BY <1>1, <1>10, SweptRows
  <2>3. QED
    BY <1>1, <1>2, <2>1, <2>2, RowsCalm
<1>11. ASSUME NEW r \in Ids, OperatorCancels(r)
       PROVE  RowsTyped' /\ AuditsAgree' /\ FeedSpacing' /\ DueStaysDue' /\ Calm
  <2>1. RowsStep /\ UNCHANGED feed
    BY <1>1, <1>11, CancelRows DEF OperatorCancels
  <2>2. \A q \in Ids : /\ runs'[q].status = "succeeded" => runs[q].status = "succeeded"
                       /\ audits'[q] = <<"failed">> => audits[q] = <<"failed">>
    BY <1>1, <1>11, CancelRows
  <2>3. QED
    BY <1>1, <1>2, <2>1, <2>2, RowsCalm
<1>12. ASSUME NEW S, runs' = Aged(S), UNCHANGED <<audits, feed>>
       PROVE  RowsTyped' /\ AuditsAgree' /\ FeedSpacing' /\ DueStaysDue' /\ Calm
  <2>1. RowsStep /\ \A r \in Ids : runs'[r].status = runs[r].status
    BY <1>1, <1>12, AgedRows
  <2>2. QED
    BY <1>1, <1>2, <1>12, <2>1, RowsCalm
<1>13. CASE Tick \/ \E r \in Ids : Overdue(r)
  BY <1>12, <1>13 DEF Tick, Overdue
<1>14. ASSUME NEW w \in Workers,
              RunnerReads(w) \/ RunnerWrites(w) \/ WriteFails(w) \/ Leave(w) \/ Signal(w) \/ Crash(w)
       PROVE  RowsTyped' /\ AuditsAgree' /\ FeedSpacing' /\ DueStaysDue' /\ Calm
  BY <1>4, <1>14 DEF RunnerReads, RunnerWrites, WriteFails, Leave, Signal, Crash
<1>15. CASE UNCHANGED vars
  BY <1>4, <1>15 DEF vars
<1>16. QED
  BY <1>5, <1>6, <1>7, <1>8, <1>9, <1>10, <1>11, <1>13, <1>14, <1>15 DEF Next, WorkerStep

(***************************************************************************)
(* Who executes what.                                                      *)

(***************************************************************************)
\* 0 stands for no run.
LEMMA ZeroIsNoRun ==
  ASSUME RowsTyped PROVE 0 \notin Ids
  BY TableFacts DEF Ids

\* A worker keeps its run or gives it up.
LEMMA HeldKept ==
  ASSUME RunsAreHeld, Ids \subseteq Ids',
         \A w \in Workers :
            /\ workers'[w].pc = "idle" <=> workers'[w].run = 0
            /\ \/ workers'[w].run = 0
               \/ /\ workers'[w].run = workers[w].run
                  /\ workers[w].run \in Ids =>
                        /\ runs'[workers[w].run].status \notin {"queued", "succeeded"}
                        /\ audits'[workers[w].run] # <<"failed">>
  PROVE  RunsAreHeld'
<1>1. ASSUME NEW w \in Workers, workers'[w].run # 0
      PROVE  /\ workers'[w].run \in Ids'
             /\ runs'[workers'[w].run].status \notin {"queued", "succeeded"}
             /\ audits'[workers'[w].run] # <<"failed">>
  <2>1. workers'[w].run = workers[w].run /\ workers[w].run \in Ids
    BY <1>1 DEF RunsAreHeld
  <2>2. QED
    BY <2>1, <1>1
<1>2. ASSUME NEW v \in Workers, NEW w \in Workers, workers'[v].run = workers'[w].run, v # w
      PROVE  workers'[v].run = 0
  BY <1>2 DEF RunsAreHeld
<1>3. QED
  BY <1>1, <1>2 DEF RunsAreHeld

\* A step that ends no run by its worker keeps who executes what.
LEMMA CalmHeld ==
  ASSUME RunsAreHeld, Calm,
         \A w \in Workers :
            /\ workers'[w].pc = "idle" <=> workers'[w].run = 0
            /\ workers'[w].run \in {0, workers[w].run}
  PROVE  RunsAreHeld'
<1>1. ASSUME NEW w \in Workers, workers[w].run # 0
      PROVE  /\ workers[w].run \in Ids
             /\ runs'[workers[w].run].status \notin {"queued", "succeeded"}
             /\ audits'[workers[w].run] # <<"failed">>
  BY <1>1 DEF RunsAreHeld, Calm
<1>2. Ids \subseteq Ids'
  BY DEF Calm
<1>3. QED
  BY <1>1, <1>2, HeldKept

\* What a step of a worker does to its row of state.
LEMMA WorkerMoves ==
  ASSUME IInv, NEW w \in Workers, WorkerStep(w) \/ Signal(w) \/ Crash(w)
  PROVE  /\ \A v \in Workers \ {w} : workers'[v] = workers[v]
         /\ workers'[w].pc = "idle" <=> workers'[w].run = 0
         /\ claim_next(w) \/ workers'[w].run \in {0, workers[w].run}
<1>1. /\ RowsTyped /\ OthersTyped /\ RunsAreHeld /\ workers \in [Workers -> WorkerRow]
      /\ workers[w].pc = "idle" <=> workers[w].run = 0
  BY DEF IInv, OthersTyped, RunsAreHeld
<1>2. CASE claim_next(w)
  <2>1. PICK r \in Ids : workers' = [workers EXCEPT ![w].pc = "running", ![w].run = r]
    BY <1>2 DEF claim_next
  <2>2. r # 0
    BY <1>1, ZeroIsNoRun
  <2>3. workers'[w].pc = "running" /\ workers'[w].run = r
        /\ \A v \in Workers \ {w} : workers'[v] = workers[v]
    BY <1>1, <2>1 DEF WorkerRow
  <2>4. QED
    BY <1>2, <2>2, <2>3
<1>3. ASSUME NEW pc \in {"failed", "collected", "succeeded"}, NEW x, workers[w].pc # "idle",
             workers' = [workers EXCEPT ![w].pc = pc, ![w].snapshot = x]
      PROVE  /\ \A v \in Workers \ {w} : workers'[v] = workers[v]
             /\ workers'[w].pc = "idle" <=> workers'[w].run = 0
             /\ workers'[w].run \in {0, workers[w].run}
  BY <1>1, <1>3 DEF WorkerRow
<1>4. CASE RunnerReads(w)
  <2>1. PICK x \in Taken, pc \in {"failed", "collected", "succeeded"} :
           workers' = [workers EXCEPT ![w].pc = pc, ![w].snapshot = x]
    BY <1>1, <1>4, RunnerTakes
  <2>2. workers[w].pc # "idle"
    BY <1>4 DEF RunnerReads, Serving
  <2>3. QED
    BY <1>3, <2>1, <2>2
<1>5. CASE WriteFails(w)
  BY <1>3, <1>5 DEF WriteFails, Serving
<1>6. CASE RunnerWrites(w)
  BY <1>1, <1>6 DEF RunnerWrites, Serving, Step, WorkerRow
<1>7. CASE Record(w) \/ Leave(w) \/ Crash(w)
  <2>1. PICK stop : workers' = [workers EXCEPT ![w] = [Idle EXCEPT !.stop = stop]]
    BY <1>7 DEF Record, Leave, Crash
  <2>2. workers'[w].pc = "idle" /\ workers'[w].run = 0
    BY <1>1, <2>1 DEF Idle
  <2>3. QED
    BY <1>1, <2>1, <2>2
<1>8. CASE Signal(w)
  BY <1>1, <1>8 DEF Signal, WorkerRow
<1>9. QED
  BY <1>2, <1>4, <1>5, <1>6, <1>7, <1>8 DEF WorkerStep

\* A claimed run was nobody's.
LEMMA ClaimHeld ==
  ASSUME IInv, NEW w \in Workers, claim_next(w)
  PROVE  RunsAreHeld'
<1>1. RowsTyped /\ OthersTyped /\ RunsAreHeld /\ workers \in [Workers -> WorkerRow]
      /\ AuditsAgree
  BY DEF IInv, OthersTyped
<1>2. PICK r \in Ids :
         /\ runs[r].status = "queued" /\ runs'[r].status = "running"
         /\ workers' = [workers EXCEPT ![w].pc = "running", ![w].run = r]
         /\ audits' = audits /\ \A q \in Ids \ {r} : runs'[q] = runs[q]
  BY <1>1, ClaimRows
<1>3. Ids' = Ids
  BY <1>1, ClaimRows, RowsAfter
<1>4. /\ \A v \in Workers : workers[v].run # r
      /\ audits[r] = << >> /\ r # 0
  BY <1>1, <1>2, ZeroIsNoRun DEF RunsAreHeld, AuditsAgree
<1>5. /\ workers'[w].pc = "running" /\ workers'[w].run = r
      /\ \A v \in Workers \ {w} : workers'[v] = workers[v]
  BY <1>1, <1>2 DEF WorkerRow
<1>6. \A v \in Workers : workers'[v].pc = "idle" <=> workers'[v].run = 0
  BY <1>1, <1>4, <1>5 DEF RunsAreHeld
<1>7. ASSUME NEW v \in Workers, workers'[v].run # 0
      PROVE  /\ workers'[v].run \in Ids'
             /\ runs'[workers'[v].run].status \notin {"queued", "succeeded"}
             /\ audits'[workers'[v].run] # <<"failed">>
  <2>1. CASE v = w
    <3>1. workers'[v].run = r /\ r \in Ids'
      BY <1>3, <1>5, <2>1
    <3>2. <<"failed">> # << >>
      OBVIOUS
    <3>3. audits'[r] # <<"failed">>
      BY <1>2, <1>4, <3>2
    <3>4. QED
      BY <1>2, <3>1, <3>3
  <2>2. CASE v # w
    <3>1. workers'[v] = workers[v]
      BY <1>5, <2>2
    <3>2. workers[v].run # 0
      BY <1>7, <3>1
    <3>3. /\ workers[v].run \in Ids \ {r}
          /\ runs[workers[v].run].status \notin {"queued", "succeeded"}
          /\ audits[workers[v].run] # <<"failed">>
      BY <1>1, <1>4, <3>2 DEF RunsAreHeld
    <3>4. runs'[workers[v].run] = runs[workers[v].run] /\ audits' = audits
      BY <1>2, <3>3
    <3>5. QED
      BY <1>3, <3>1, <3>3, <3>4
  <2>3. QED
    BY <2>1, <2>2
<1>8. ASSUME NEW u \in Workers, NEW v \in Workers, workers'[u].run = workers'[v].run, u # v
      PROVE  workers'[u].run = 0
  BY <1>1, <1>4, <1>5, <1>8 DEF RunsAreHeld
<1>9. QED
  BY <1>6, <1>7, <1>8 DEF RunsAreHeld

\* A recorded run is given up, and no other is touched.
LEMMA RecordHeld ==
  ASSUME IInv, NEW w \in Workers, Record(w)
  PROVE  RunsAreHeld'
<1>1. RowsTyped /\ OthersTyped /\ RunsAreHeld /\ workers \in [Workers -> WorkerRow]
      /\ AuditsAgree
  BY DEF IInv, OthersTyped
<1>2. /\ RowsStep
      /\ \A q \in Ids \ {workers[w].run} : runs'[q] = runs[q] /\ audits'[q] = audits[q]
  BY <1>1, RecordedRows
<1>3. Ids' = Ids
  BY <1>1, <1>2, RowsAfter
<1>4. workers'[w].run = 0 /\ workers'[w].pc = "idle"
      /\ \A v \in Workers \ {w} : workers'[v] = workers[v]
  BY <1>1 DEF Record, Idle
<1>5. workers[w].run # 0
  BY <1>1 DEF Record, RunsAreHeld
<1>6. ASSUME NEW v \in Workers \ {w}, workers[v].run # 0
      PROVE  /\ runs'[workers[v].run].status \notin {"queued", "succeeded"}
             /\ audits'[workers[v].run] # <<"failed">>
  <2>1. workers[v].run \in Ids \ {workers[w].run}
    BY <1>1, <1>5, <1>6 DEF RunsAreHeld
  <2>2. QED
    BY <1>1, <1>2, <1>6, <2>1 DEF RunsAreHeld
<1>7. \A v \in Workers : workers'[v].pc = "idle" <=> workers'[v].run = 0
  BY <1>1, <1>4 DEF RunsAreHeld
<1>8. \A v \in Workers :
         \/ workers'[v].run = 0
         \/ /\ workers'[v].run = workers[v].run
            /\ workers[v].run \in Ids =>
                  /\ runs'[workers[v].run].status \notin {"queued", "succeeded"}
                  /\ audits'[workers[v].run] # <<"failed">>
  BY <1>4, <1>6
<1>9. QED
  BY <1>1, <1>3, <1>7, <1>8, HeldKept

\* Every step keeps who executes what.
LEMMA StepOnWorkers ==
  ASSUME IInv, [Next]_vars
  PROVE  RunsAreHeld'
<1>1. RunsAreHeld
  BY DEF IInv
<1>2. Calm \/ \E w \in Workers : Record(w)
  BY StepOnRows
<1>3. ASSUME NEW w \in Workers, WorkerStep(w) \/ Signal(w) \/ Crash(w)
      PROVE  RunsAreHeld'
  <2>1. CASE claim_next(w)
    BY <2>1, ClaimHeld
  <2>2. CASE \E v \in Workers : Record(v)
    BY <2>2, RecordHeld
  <2>3. CASE ~claim_next(w) /\ Calm
    <3>1. /\ \A v \in Workers \ {w} : workers'[v] = workers[v]
          /\ workers'[w].pc = "idle" <=> workers'[w].run = 0
          /\ workers'[w].run \in {0, workers[w].run}
      BY <1>3, <2>3, WorkerMoves
    <3>2. \A v \in Workers : /\ workers'[v].pc = "idle" <=> workers'[v].run = 0
                             /\ workers'[v].run \in {0, workers[v].run}
      BY <1>1, <3>1 DEF RunsAreHeld
    <3>3. QED
      BY <1>1, <2>3, <3>2, CalmHeld
  <2>4. QED
    BY <1>2, <2>1, <2>2, <2>3
<1>4. CASE UNCHANGED workers
  <2>1. CASE \E v \in Workers : Record(v)
    BY <2>1, RecordHeld
  <2>2. CASE Calm
    <3>1. \A v \in Workers : /\ workers'[v].pc = "idle" <=> workers'[v].run = 0
                             /\ workers'[v].run \in {0, workers[v].run}
      BY <1>1, <1>4 DEF RunsAreHeld
    <3>2. QED
      BY <1>1, <2>2, <3>1, CalmHeld
  <2>3. QED
    BY <1>2, <2>1, <2>2
<1>5. (\E w \in Workers : WorkerStep(w) \/ Signal(w) \/ Crash(w)) \/ UNCHANGED workers
  BY DEF Next, enqueue_collection_run, FeedReads, FeedInserts, recover_stale_runs,
         OperatorCancels, Overdue, Tick, vars
<1>6. QED
  BY <1>3, <1>4, <1>5

(***************************************************************************)
(* Runs that nobody executes.                                              *)

(***************************************************************************)
Abandoned == {r \in Ids : /\ runs[r].status = "running"
                          /\ \A w \in Workers : workers[w].run # r}

\* The abandoned runs can be counted.
LEMMA AbandonedFinite ==
  ASSUME RowsTyped PROVE IsFiniteSet(Abandoned)
<1>1. Len(runs) \in Nat /\ Abandoned \subseteq 1..Len(runs)
  BY TableFacts DEF Abandoned, Ids
<1>2. IsFiniteSet(1..Len(runs))
  BY <1>1, FS_Interval
<1>3. QED
  BY <1>1, <1>2, FS_Subset

\* Without a crash, no more runs are abandoned.
LEMMA FewAbandoned ==
  ASSUME RowsTyped, OthersTyped, OnlyCrashesAbandon, Abandoned' \subseteq Abandoned,
         crashes' = crashes
  PROVE  OnlyCrashesAbandon'
<1>2. IsFiniteSet(Abandoned)
  BY AbandonedFinite
<1>3. Cardinality(Abandoned') <= Cardinality(Abandoned) /\ IsFiniteSet(Abandoned')
  BY <1>2, FS_Subset
<1>4. Cardinality(Abandoned) \in Nat /\ Cardinality(Abandoned') \in Nat
  BY <1>2, <1>3, FS_CardinalityType
<1>5. Cardinality(Abandoned) <= crashes
  BY DEF OnlyCrashesAbandon, Abandoned
<1>6. crashes \in Int
  BY DEF OthersTyped
<1>7. Cardinality(Abandoned') <= crashes'
  BY <1>3, <1>4, <1>5, <1>6
<1>8. QED
  BY <1>7 DEF OnlyCrashesAbandon, Abandoned

\* A run starts only in the hands of the worker that claims it.
LEMMA NothingStarts ==
  ASSUME IInv, [Next]_vars
  PROVE  \A r \in Ids' : runs'[r].status = "running" =>
            /\ r \in Ids
            /\ runs[r].status = "running"
               \/ \E w \in Workers : claim_next(w) /\ workers'[w].run = r
<1> DEFINE Started(r) == /\ r \in Ids
                         /\ runs[r].status = "running"
                            \/ \E w \in Workers : claim_next(w) /\ workers'[w].run = r
<1>1. RowsTyped /\ OthersTyped /\ RunsAreHeld /\ AuditsAgree
  BY DEF IInv
<1>2. ASSUME NEW new \in Seq(RunRow), Grown(new), \A i \in 1..Len(new) : new[i].status = "queued"
      PROVE  \A r \in Ids' : runs'[r].status = "running" => Started(r)
  <2>1. \A r \in Ids : runs'[r] = runs[r]
    BY <1>2 DEF Grown
  <2>2. \A r \in Ids' \ Ids : runs'[r].status = "queued"
    BY <1>1, <1>2, GrownIds
  <2>3. QED
    BY <2>1, <2>2
<1>3. ASSUME UNCHANGED runs
      PROVE  \A r \in Ids' : runs'[r].status = "running" => Started(r)
  BY <1>3 DEF Ids
<1>4. ASSUME RowsStep, \A r \in Ids : runs'[r].status = "running" => runs[r].status = "running"
      PROVE  \A r \in Ids' : runs'[r].status = "running" => Started(r)
  BY <1>1, <1>4, RowsAfter
<1>5. ASSUME NEW s \in Sources, enqueue_collection_run(s)
      PROVE  \A r \in Ids' : runs'[r].status = "running" => Started(r)
  <2> DEFINE row == Enqueue(s, "admin", now)
  <2>1. row \in RunRow /\ row.status = "queued"
    BY <1>1, Enqueued DEF OthersTyped
  <2>2. Grown(<<row>>)
    BY <1>1, <1>5, AdminRows
  <2> HIDE DEF row
  <2>3. <<row>> \in Seq(RunRow) /\ \A i \in 1..Len(<<row>>) : <<row>>[i].status = "queued"
    BY <2>1
  <2>4. QED
    BY <1>2, <2>2, <2>3
<1>6. CASE FeedInserts
  <2>1. PICK new \in Seq(RunRow) :
           Grown(new) /\ \A i \in 1..Len(new) : new[i].status = "queued"
    BY <1>1, <1>6, FedRows
  <2>2. QED
    BY <1>2, <2>1
<1>7. ASSUME NEW w \in Workers, claim_next(w)
      PROVE  \A r \in Ids' : runs'[r].status = "running" => Started(r)
  <2>1. PICK r \in Ids : /\ workers' = [workers EXCEPT ![w].pc = "running", ![w].run = r]
                         /\ \A q \in Ids \ {r} : runs'[q] = runs[q]
    BY <1>1, <1>7, ClaimRows
  <2>2. workers'[w].run = r
    BY <1>1, <2>1, WorkerFields DEF WorkerRow
  <2>3. Ids' = Ids
    BY <1>1, <1>7, ClaimRows, RowsAfter
  <2>4. QED
    BY <1>7, <2>1, <2>2, <2>3
<1>8. ASSUME NEW w \in Workers, Record(w)
      PROVE  \A r \in Ids' : runs'[r].status = "running" => Started(r)
  <2>1. RowsStep /\ \A r \in Ids : runs'[r].status = "running" => runs[r].status = "running"
    BY <1>1, <1>8, RecordedRows
  <2>2. QED
    BY <1>4, <2>1
<1>9. CASE recover_stale_runs
  <2>1. RowsStep /\ \A r \in Ids : runs'[r].status = "running" => runs[r].status = "running"
    BY <1>1, <1>9, SweptRows
  <2>2. QED
    BY <1>4, <2>1
<1>10. ASSUME NEW r \in Ids, OperatorCancels(r)
       PROVE  \A q \in Ids' : runs'[q].status = "running" => Started(q)
  <2>1. RowsStep /\ \A q \in Ids : runs'[q].status = "running" => runs[q].status = "running"
    BY <1>1, <1>10, CancelRows
  <2>2. QED
    BY <1>4, <2>1
<1>11. ASSUME NEW S, runs' = Aged(S), UNCHANGED audits
       PROVE  \A r \in Ids' : runs'[r].status = "running" => Started(r)
  <2>1. RowsStep /\ \A r \in Ids : runs'[r].status = runs[r].status
    BY <1>1, <1>11, AgedRows
  <2>2. QED
    BY <1>4, <2>1
<1>12. CASE Tick \/ \E r \in Ids : Overdue(r)
  BY <1>11, <1>12 DEF Tick, Overdue
<1>13. ASSUME NEW w \in Workers,
              RunnerReads(w) \/ RunnerWrites(w) \/ WriteFails(w) \/ Leave(w) \/ Signal(w) \/ Crash(w)
       PROVE  UNCHANGED runs
  BY <1>13 DEF RunnerReads, RunnerWrites, WriteFails, Leave, Signal, Crash
<1> DEFINE Goal == \A r \in Ids' : runs'[r].status = "running" => Started(r)
<1>15. UNCHANGED runs => Goal
  BY <1>3
<1>16. /\ \A s \in Sources : enqueue_collection_run(s) => Goal
       /\ FeedInserts => Goal
       /\ \A w \in Workers : claim_next(w) \/ Record(w) => Goal
       /\ recover_stale_runs => Goal
       /\ \A r \in Ids : OperatorCancels(r) => Goal
       /\ Tick \/ (\E r \in Ids : Overdue(r)) => Goal
  BY <1>5, <1>6, <1>7, <1>8, <1>9, <1>10, <1>12
<1> HIDE DEF Goal
<1>17. ASSUME NEW w \in Workers, WorkerStep(w) \/ Signal(w) \/ Crash(w) PROVE Goal
  BY <1>13, <1>15, <1>16, <1>17 DEF WorkerStep
<1>18. ASSUME UNCHANGED vars \/ \E families : FeedReads(families) PROVE Goal
  BY <1>15, <1>18 DEF vars, FeedReads
<1>19. Goal
  BY <1>16, <1>17, <1>18 DEF Next
<1>20. QED
  BY <1>19 DEF Goal

\* A worker that lives gives up a run only when it has ended.
LEMMA GivenUp ==
  ASSUME IInv, NEW w \in Workers, WorkerStep(w) \/ Signal(w)
  PROVE  \/ workers'[w].run = workers[w].run
         \/ workers[w].run = 0
         \/ Record(w) /\ runs'[workers[w].run].status # "running"
<1>1. /\ RowsTyped /\ OthersTyped /\ RunsAreHeld /\ AuditsAgree
      /\ workers \in [Workers -> WorkerRow]
  BY DEF IInv, OthersTyped
<1>2. CASE Record(w)
  BY <1>1, <1>2, RecordedRows
<1>3. CASE claim_next(w) \/ Leave(w)
  BY <1>1, <1>3 DEF claim_next, Leave, Serving, RunsAreHeld
<1>4. CASE RunnerReads(w)
  <2>1. PICK x \in Taken, pc \in {"failed", "collected", "succeeded"} :
           workers' = [workers EXCEPT ![w].pc = pc, ![w].snapshot = x]
    BY <1>1, <1>4, RunnerTakes
  <2>2. QED
    BY <1>1, <2>1 DEF WorkerRow
<1>5. CASE RunnerWrites(w) \/ WriteFails(w) \/ Signal(w)
  BY <1>1, <1>5 DEF RunnerWrites, WriteFails, Signal, Step, WorkerRow
<1>6. QED
  BY <1>2, <1>3, <1>4, <1>5 DEF WorkerStep

\* Every step keeps the count of the abandoned runs.
LEMMA StepOnAbandoned ==
  ASSUME IInv, [Next]_vars
  PROVE  OnlyCrashesAbandon'
<1>1. /\ RowsTyped /\ OthersTyped /\ RunsAreHeld /\ OnlyCrashesAbandon
      /\ RowsTyped' /\ workers \in [Workers -> WorkerRow]
  BY StepOnRows DEF IInv, OthersTyped
<1>2. \A r \in Ids' : runs'[r].status = "running" =>
         /\ r \in Ids
         /\ runs[r].status = "running" \/ \E w \in Workers : workers'[w].run = r
  BY NothingStarts
<1>3. 0 \notin Ids
  BY <1>1, ZeroIsNoRun
<1>4. ASSUME NEW w \in Workers, WorkerStep(w) \/ Signal(w) PROVE OnlyCrashesAbandon'
  <2>1. ASSUME NEW r \in Ids, NEW v \in Workers, workers[v].run = r
        PROVE  workers'[v].run = r \/ runs'[r].status # "running"
    <3>1. CASE v = w
      BY <1>3, <1>4, <2>1, <3>1, GivenUp
    <3>2. CASE v # w
      BY <1>4, <2>1, <3>2, WorkerMoves
    <3>3. QED
      BY <3>1, <3>2
  <2>2. Abandoned' \subseteq Abandoned
    BY <1>2, <2>1 DEF Abandoned
  <2>3. crashes' = crashes
    BY <1>4 DEF WorkerStep, claim_next, RunnerReads, RunnerWrites, WriteFails, Record, Leave, Signal
  <2>4. QED
    BY <1>1, <2>2, <2>3, FewAbandoned
<1>5. ASSUME UNCHANGED <<workers, crashes>> PROVE OnlyCrashesAbandon'
  <2>1. Abandoned' \subseteq Abandoned
    BY <1>2, <1>5 DEF Abandoned
  <2>2. QED
    BY <1>1, <1>5, <2>1, FewAbandoned
<1>6. ASSUME NEW w \in Workers, Crash(w) PROVE OnlyCrashesAbandon'
  <2> DEFINE lost == workers[w].run
  <2>1. \A v \in Workers \ {w} : workers'[v] = workers[v]
    BY <1>1, <1>6 DEF Crash
  <2>2. Abandoned' \subseteq Abandoned \union {lost}
    BY <1>2, <1>6, <2>1 DEF Abandoned, Crash, Ids
  <2> HIDE DEF lost
  <2>4. IsFiniteSet(Abandoned) /\ Cardinality(Abandoned) \in Nat
    BY <1>1, AbandonedFinite, FS_CardinalityType
  <2>5. /\ IsFiniteSet(Abandoned \union {lost})
        /\ Cardinality(Abandoned \union {lost}) <= Cardinality(Abandoned) + 1
    <3>1. IsFiniteSet(Abandoned \union {lost})
      BY <2>4, FS_AddElement
    <3>2. \/ Cardinality(Abandoned \union {lost}) = Cardinality(Abandoned)
          \/ Cardinality(Abandoned \union {lost}) = Cardinality(Abandoned) + 1
      BY <2>4, FS_AddElement
    <3>3. QED
      BY <2>4, <3>1, <3>2
  <2>6. /\ Cardinality(Abandoned') <= Cardinality(Abandoned \union {lost})
        /\ Cardinality(Abandoned') \in Nat /\ Cardinality(Abandoned \union {lost}) \in Nat
    BY <2>2, <2>5, FS_Subset, FS_CardinalityType
  <2>7. Cardinality(Abandoned) <= crashes /\ crashes \in Int /\ crashes' = crashes + 1
    BY <1>1, <1>6 DEF OnlyCrashesAbandon, Abandoned, Crash, OthersTyped
  <2>8. Cardinality(Abandoned') <= crashes'
    BY <2>4, <2>5, <2>6, <2>7
  <2>9. QED
    BY <2>8 DEF OnlyCrashesAbandon, Abandoned
<1>7. (\E w \in Workers : WorkerStep(w) \/ Signal(w) \/ Crash(w)) \/ UNCHANGED <<workers, crashes>>
  BY DEF Next, enqueue_collection_run, FeedReads, FeedInserts, recover_stale_runs,
         OperatorCancels, Overdue, Tick, vars
<1>8. QED
  BY <1>4, <1>5, <1>6, <1>7

(***************************************************************************)
(* Snapshots and the runs that left them.                                  *)

(***************************************************************************)
\* The fingerprint of a snapshot is the snapshot without its time.
LEMMA FingerprintOf ==
  ASSUME NEW x, NEW s, IsSnapshotOf(x, s)
  PROVE  /\ IsSnapshotOf(Fingerprint(x), s) /\ Fingerprint(x).collected_at = 0
         /\ Fingerprint(x).rows = x.rows
         /\ Fingerprint(x) = [source_key |-> s, rows |-> x.rows,
                              rows_collected |-> Cardinality(x.rows), collected_at |-> 0]
<1>1. x = [source_key |-> s, rows |-> x.rows, rows_collected |-> Cardinality(x.rows),
           collected_at |-> x.collected_at]
  BY DEF IsSnapshotOf
<1>2. Fingerprint(x) = [source_key |-> s, rows |-> x.rows,
                        rows_collected |-> Cardinality(x.rows), collected_at |-> 0]
  BY <1>1 DEF Fingerprint
<1>3. QED
  BY <1>2 DEF IsSnapshotOf

\* A worker at work has a run, and the run a source.
LEMMA AtWork ==
  ASSUME IInv, NEW w \in Workers, workers[w].pc # "idle"
  PROVE  /\ workers[w].run \in Ids /\ workers[w].run # 0 /\ KeyOf(w) \in Sources
         /\ runs[workers[w].run].status \notin {"queued", "succeeded"}
         /\ audits[workers[w].run] # <<"failed">>
         /\ \A s \in Sources : file[s] # NoFile /\ workers[w].run = file[s].run =>
               workers[w].pc = "succeeded" /\ workers[w].snapshot = file[s].snapshot
<1>1. RunsAreHeld /\ RowsTyped /\ FilesAccounted
  BY DEF IInv
<1>2. /\ workers[w].run # 0 /\ workers[w].run \in Ids
      /\ runs[workers[w].run].status \notin {"queued", "succeeded"}
      /\ audits[workers[w].run] # <<"failed">>
  BY <1>1 DEF RunsAreHeld
<1>3. KeyOf(w) \in Sources
  BY <1>1, <1>2, RowFields DEF KeyOf
<1>4. QED
  BY <1>1, <1>2, <1>3 DEF FilesAccounted, FileOk

\* What a worker may do to its state while the files stay.
Harmless(v) ==
    \/ /\ workers'[v].run = workers[v].run /\ workers'[v].pc = workers[v].pc
       /\ workers'[v].snapshot = workers[v].snapshot
    \/ workers'[v].run = 0 /\ workers'[v].pc = "idle"
    \/ /\ \A s \in Sources : file[s] # NoFile => workers'[v].run # file[s].run
       /\ WorkerOk(v)'

\* A calm step that leaves the files keeps their account.
LEMMA CalmFiles ==
  ASSUME IInv, Calm, file' = file, \A v \in Workers : Harmless(v)
  PROVE  FilesAccounted'
<1>1. RowsTyped /\ RunsAreHeld /\ FilesAccounted /\ 0 \notin Ids
  BY ZeroIsNoRun DEF IInv
<1>2. ASSUME NEW s \in Sources PROVE FileOk(s)'
  <2>1. SUFFICES ASSUME file[s] # NoFile PROVE FileOk(s)'
    BY DEF FileOk
  <2>2. /\ file[s].run \in Ids /\ runs[file[s].run].status # "queued"
        /\ audits[file[s].run] # <<"failed">> /\ IsSnapshotOf(file[s].snapshot, s)
        /\ \A w \in Workers : workers[w].run = file[s].run =>
              workers[w].pc = "succeeded" /\ workers[w].snapshot = file[s].snapshot
    BY <1>1, <2>1 DEF FilesAccounted, FileOk
  <2>3. /\ file[s].run \in Ids' /\ runs'[file[s].run].status # "queued"
        /\ audits'[file[s].run] # <<"failed">>
    BY <2>2 DEF Calm
  <2>4. ASSUME NEW w \in Workers, workers'[w].run = file[s].run
        PROVE  workers'[w].pc = "succeeded" /\ workers'[w].snapshot = file[s].snapshot
    BY <1>1, <2>1, <2>2, <2>4 DEF Harmless
  <2>5. IsSnapshotOf(file[s].snapshot, s)'
    BY <2>2 DEF IsSnapshotOf
  <2>6. QED
    BY <2>3, <2>4, <2>5 DEF FileOk
<1>3. ASSUME NEW v \in Workers PROVE WorkerOk(v)'
  <2>1. CASE workers'[v].pc = "idle" \/ WorkerOk(v)'
    BY <2>1 DEF WorkerOk
  <2>2. CASE /\ workers[v].pc # "idle"
             /\ workers'[v].run = workers[v].run /\ workers'[v].pc = workers[v].pc
             /\ workers'[v].snapshot = workers[v].snapshot
    <3>1. workers[v].run \in Ids /\ runs'[workers[v].run].source = KeyOf(v)
      BY <2>2, AtWork DEF Calm, KeyOf
    <3>2. KeyOf(v)' = KeyOf(v)
      BY <2>2, <3>1 DEF KeyOf
    <3>3. WorkerOk(v)
      BY <1>1 DEF FilesAccounted
    <3>4. QED
      BY <2>2, <3>2, <3>3 DEF WorkerOk, IsSnapshotOf
  <2>3. QED
    BY <2>1, <2>2 DEF Harmless
<1>4. ASSUME NEW r \in Ids' PROVE SuccessOk(r)'
  <2>1. SUFFICES ASSUME runs'[r].status = "succeeded" PROVE SuccessOk(r)'
    BY DEF SuccessOk
  <2>2. /\ r \in Ids /\ runs[r].status = "succeeded"
        /\ runs'[r].hash = runs[r].hash /\ runs'[r].source = runs[r].source
    BY <2>1 DEF Calm
  <2>3. SuccessOk(r)
    BY <1>1, <2>2 DEF FilesAccounted
  <2>4. QED
    BY <2>2, <2>3 DEF SuccessOk, IsSnapshotOf
<1>5. QED
  BY <1>2, <1>3, <1>4 DEF FilesAccounted

\* A runner that replaces the file of its source keeps it.
LEMMA WriteFiles ==
  ASSUME IInv, NEW w \in Workers, RunnerWrites(w)
  PROVE  FilesAccounted'
<1> DEFINE key == KeyOf(w)
           mine == [run |-> workers[w].run, snapshot |-> workers[w].snapshot]
<1>1. /\ RowsTyped /\ RunsAreHeld /\ FilesAccounted /\ workers \in [Workers -> WorkerRow]
      /\ file \in [Sources -> FileRow]
  BY DEF IInv, OthersTyped
<1>2. workers[w].pc = "collected" /\ UNCHANGED <<runs, audits>> /\ Ids' = Ids
  BY DEF RunnerWrites, Serving, Ids
<1>3. /\ workers[w].run \in Ids /\ workers[w].run # 0 /\ key \in Sources
      /\ runs[workers[w].run].status \notin {"queued", "succeeded"}
      /\ audits[workers[w].run] # <<"failed">>
      /\ \A s \in Sources : file[s] # NoFile => workers[w].run # file[s].run
  BY <1>2, AtWork
<1>4. HasFile(key) /\ IsSnapshotOf(workers[w].snapshot, key)
  BY <1>1, <1>2 DEF FilesAccounted, WorkerOk
<1>5. /\ workers'[w].run = workers[w].run /\ workers'[w].pc = "succeeded"
      /\ workers'[w].snapshot = workers[w].snapshot
      /\ \A v \in Workers \ {w} : workers'[v] = workers[v]
  BY <1>1 DEF RunnerWrites, Step, WorkerRow
<1>6. file'[key] = mine /\ \A s \in Sources \ {key} : file'[s] = file[s]
  BY <1>1, <1>3 DEF RunnerWrites
<1>7. mine # NoFile /\ mine.run = workers[w].run /\ mine.snapshot = workers[w].snapshot
  BY <1>3 DEF NoFile
<1> HIDE DEF mine
<1>8. \A v \in Workers : KeyOf(v)' = KeyOf(v)
  BY <1>2, <1>5 DEF KeyOf
<1> HIDE DEF key
<1>9. \A v \in Workers \ {w} : workers[v].run = workers[w].run => FALSE
  BY <1>1, <1>3 DEF RunsAreHeld
<1>10. ASSUME NEW s \in Sources PROVE FileOk(s)'
  <2>1. CASE s = key
    <3>1. ASSUME NEW v \in Workers, workers'[v].run = mine.run
          PROVE  workers'[v].pc = "succeeded" /\ workers'[v].snapshot = mine.snapshot
      BY <1>5, <1>7, <1>9, <3>1
    <3>2. QED
      BY <1>2, <1>3, <1>4, <1>6, <1>7, <2>1, <3>1 DEF FileOk, IsSnapshotOf
  <2>2. CASE s # key
    <3>1. file'[s] = file[s] /\ FileOk(s)
      BY <1>1, <1>6, <2>2 DEF FilesAccounted
    <3>2. SUFFICES ASSUME file[s] # NoFile PROVE FileOk(s)'
      BY <3>1 DEF FileOk
    <3>3. ASSUME NEW v \in Workers, workers'[v].run = file[s].run
          PROVE  workers'[v].pc = "succeeded" /\ workers'[v].snapshot = file[s].snapshot
      BY <1>3, <1>5, <3>1, <3>2, <3>3 DEF FileOk
    <3>4. QED
      BY <1>2, <3>1, <3>2, <3>3 DEF FileOk, IsSnapshotOf
  <2>3. QED
    BY <2>1, <2>2
<1>11. ASSUME NEW v \in Workers PROVE WorkerOk(v)'
  <2>1. CASE v = w
    BY <1>4, <1>5, <1>6, <1>7, <1>8, <2>1 DEF WorkerOk, IsSnapshotOf, key
  <2>2. CASE v # w
    <3>1. WorkerOk(v) /\ workers'[v] = workers[v] /\ KeyOf(v)' = KeyOf(v)
      BY <1>1, <1>5, <1>8, <2>2 DEF FilesAccounted
    <3>2. workers[v].pc = "succeeded" => KeyOf(v) \in Sources
      BY AtWork
    <3>3. \A s \in Sources : file[s] # NoFile => file'[s] # NoFile
      BY <1>6, <1>7
    <3>4. QED
      BY <3>1, <3>2, <3>3 DEF WorkerOk, IsSnapshotOf
  <2>3. QED
    BY <2>1, <2>2
<1>12. ASSUME NEW r \in Ids' PROVE SuccessOk(r)'
  <2>1. SUFFICES ASSUME runs[r].status = "succeeded", HasFile(runs[r].source)
                 PROVE  SuccessOk(r)'
    BY <1>2 DEF SuccessOk
  <2>2. r \in Ids /\ runs[r].source \in Sources /\ r # workers[w].run
    BY <1>1, <1>2, <1>3, <2>1, RowFields
  <2>3. SuccessOk(r)
    BY <1>1, <2>2 DEF FilesAccounted
  <2>4. CASE runs[r].source = key
    BY <1>2, <1>6, <1>7, <2>1, <2>2, <2>3, <2>4 DEF SuccessOk, IsSnapshotOf
  <2>5. CASE runs[r].source # key
    BY <1>2, <1>6, <2>1, <2>2, <2>3, <2>5 DEF SuccessOk, IsSnapshotOf
  <2>6. QED
    BY <2>4, <2>5
<1>13. QED
  BY <1>10, <1>11, <1>12 DEF FilesAccounted

\* A worker that records its outcome keeps it.
LEMMA RecordFiles ==
  ASSUME IInv, NEW w \in Workers, Record(w)
  PROVE  FilesAccounted'
<1> DEFINE r == workers[w].run
<1>1. /\ RowsTyped /\ OthersTyped /\ RunsAreHeld /\ AuditsAgree /\ FilesAccounted
      /\ workers \in [Workers -> WorkerRow]
  BY DEF IInv, OthersTyped
<1>2. /\ RowsStep /\ r \in Ids
      /\ \A q \in Ids \ {r} : runs'[q] = runs[q] /\ audits'[q] = audits[q]
      /\ \/ runs[r].status # "running" /\ runs'[r] = runs[r] /\ audits'[r] = audits[r]
         \/ /\ workers[w].pc = "succeeded" /\ runs'[r].status = "succeeded"
            /\ audits'[r] = <<"succeeded">>
            /\ runs'[r].hash = Fingerprint(workers[w].snapshot)
         \/ /\ workers[w].pc = "failed" /\ runs'[r].status = "failed"
            /\ audits'[r] = <<"failed">>
  BY <1>1, RecordedRows
<1>3. Ids' = Ids /\ file' = file /\ workers[w].pc # "idle"
  BY <1>1, <1>2, RowsAfter DEF Record
<1>4. /\ KeyOf(w) \in Sources /\ runs[r].source = KeyOf(w) /\ r # 0
      /\ \A s \in Sources : file[s] # NoFile /\ r = file[s].run =>
            workers[w].pc = "succeeded" /\ workers[w].snapshot = file[s].snapshot
  BY <1>3, AtWork DEF KeyOf
<1>5. workers'[w].run = 0 /\ workers'[w].pc = "idle"
      /\ \A v \in Workers \ {w} : workers'[v] = workers[v]
  BY <1>1 DEF Record, Idle
<1>6. runs'[r].source = runs[r].source
  BY <1>2 DEF RowsStep, RowStep
<1>7. \A v \in Workers \ {w} : workers[v].run # r
  BY <1>1, <1>4 DEF RunsAreHeld
<1>8. <<"succeeded">> # <<"failed">> /\ 0 \notin Ids
  BY <1>1, ZeroIsNoRun
<1> HIDE DEF r
<1>9. ASSUME NEW s \in Sources PROVE FileOk(s)'
  <2>1. SUFFICES ASSUME file[s] # NoFile PROVE FileOk(s)'
    BY <1>3 DEF FileOk
  <2>2. FileOk(s)
    BY <1>1 DEF FilesAccounted
  <2>3. runs'[file[s].run].status # "queued" /\ audits'[file[s].run] # <<"failed">>
    <3>1. CASE file[s].run = r
      <4>1. workers[w].pc = "succeeded" /\ runs[r].status # "queued" /\ audits[r] # <<"failed">>
        BY <1>4, <2>1, <2>2, <3>1 DEF FileOk
      <4>2. QED
        BY <1>2, <1>8, <3>1, <4>1
    <3>2. CASE file[s].run # r
      BY <1>2, <2>1, <2>2, <3>2 DEF FileOk
    <3>3. QED
      BY <3>1, <3>2
  <2>4. ASSUME NEW v \in Workers, workers'[v].run = file[s].run
        PROVE  workers'[v].pc = "succeeded" /\ workers'[v].snapshot = file[s].snapshot
    BY <1>5, <1>8, <2>1, <2>2, <2>4 DEF FileOk
  <2>5. QED
    BY <1>3, <2>1, <2>2, <2>3, <2>4 DEF FileOk, IsSnapshotOf
<1>10. ASSUME NEW v \in Workers PROVE WorkerOk(v)'
  <2>1. CASE v = w
    BY <1>5, <2>1 DEF WorkerOk
  <2>2. CASE v # w
    <3>1. workers'[v] = workers[v] /\ WorkerOk(v)
      BY <1>1, <1>5, <2>2 DEF FilesAccounted
    <3>2. CASE workers[v].pc = "idle"
      BY <3>1, <3>2 DEF WorkerOk
    <3>3. CASE workers[v].pc # "idle"
      <4>1. workers[v].run \in Ids \ {r}
        BY <1>7, <2>2, <3>3, AtWork
      <4>2. KeyOf(v)' = KeyOf(v)
        BY <1>2, <3>1, <4>1 DEF KeyOf
      <4>3. QED
        BY <1>3, <3>1, <4>2 DEF WorkerOk, IsSnapshotOf
    <3>4. QED
      BY <3>2, <3>3
  <2>3. QED
    BY <2>1, <2>2
<1>11. ASSUME NEW q \in Ids' PROVE SuccessOk(q)'
  <2>1. q \in Ids /\ SuccessOk(q)
    BY <1>1, <1>3 DEF FilesAccounted
  <2>2. CASE runs'[q] = runs[q]
    BY <1>3, <2>1, <2>2 DEF SuccessOk, IsSnapshotOf
  <2>3. CASE runs'[q] # runs[q]
    <3>1. SUFFICES ASSUME runs'[q].status = "succeeded", HasFile(runs'[q].source)
                   PROVE  SuccessOk(q)'
      BY DEF SuccessOk
    <3>2. /\ q = r /\ workers[w].pc = "succeeded"
          /\ runs'[q].hash = Fingerprint(workers[w].snapshot)
      BY <1>2, <2>1, <2>3, <3>1
    <3>3. runs'[q].source = KeyOf(w) /\ HasFile(KeyOf(w))
      BY <1>4, <1>6, <3>1, <3>2
    <3>4. /\ IsSnapshotOf(workers[w].snapshot, KeyOf(w)) /\ file[KeyOf(w)] # NoFile
      BY <1>1, <3>2, <3>3 DEF FilesAccounted, WorkerOk
    <3>5. IsSnapshotOf(runs'[q].hash, KeyOf(w)) /\ runs'[q].hash.collected_at = 0
      BY <3>2, <3>4, FingerprintOf
    <3>6. file[KeyOf(w)].run = q => runs'[q].hash = Fingerprint(file[KeyOf(w)].snapshot)
      BY <1>4, <3>2, <3>4
    <3>7. QED
      BY <1>3, <3>3, <3>4, <3>5, <3>6 DEF SuccessOk, IsSnapshotOf
  <2>4. QED
    BY <2>2, <2>3
<1>12. QED
  BY <1>9, <1>10, <1>11 DEF FilesAccounted

\* Every step keeps the account of the files.
LEMMA StepOnFiles ==
  ASSUME IInv, [Next]_vars
  PROVE  FilesAccounted'
<1>1. /\ RowsTyped /\ OthersTyped /\ RunsAreHeld /\ FilesAccounted
      /\ workers \in [Workers -> WorkerRow]
  BY DEF IInv, OthersTyped
<1>2. Calm \/ \E w \in Workers : Record(w)
  BY StepOnRows
<1>3. ASSUME Calm, UNCHANGED <<file, workers>> PROVE FilesAccounted'
  BY <1>3, CalmFiles DEF Harmless
<1>4. ASSUME Calm, NEW w \in Workers, UNCHANGED file, Harmless(w),
             \A v \in Workers \ {w} : workers'[v] = workers[v]
      PROVE  FilesAccounted'
  <2>1. \A v \in Workers : Harmless(v)
    BY <1>4 DEF Harmless
  <2>2. QED
    BY <1>4, <2>1, CalmFiles
<1>5. ASSUME NEW w \in Workers, claim_next(w) PROVE Harmless(w)
  <2>1. PICK r \in Ids :
           /\ runs[r].status = "queued" /\ runs'[r].status = "running"
           /\ workers' = [workers EXCEPT ![w].pc = "running", ![w].run = r]
    BY <1>1, <1>5, ClaimRows
  <2>2. workers'[w].pc = "running" /\ workers'[w].run = r
    BY <1>1, <2>1 DEF WorkerRow
  <2>3. \A s \in Sources : file[s] # NoFile => r # file[s].run
    BY <1>1, <2>1 DEF FilesAccounted, FileOk
  <2>4. WorkerOk(w)'
    BY <2>2 DEF WorkerOk
  <2>5. QED
    BY <2>2, <2>3, <2>4 DEF Harmless
<1>6. ASSUME NEW w \in Workers, RunnerReads(w) PROVE Harmless(w)
  <2>1. workers[w].pc = "running" /\ UNCHANGED runs
    BY <1>6 DEF RunnerReads, Serving
  <2>2. PICK x \in Taken :
            \/ workers' = [workers EXCEPT ![w].pc = "failed", ![w].snapshot = x]
            \/ /\ HasFile(KeyOf(w)) /\ IsSnapshotOf(x, KeyOf(w))
               /\ workers' = [workers EXCEPT ![w].pc = "collected", ![w].snapshot = x]
            \/ /\ ~HasFile(KeyOf(w))
               /\ workers' = [workers EXCEPT ![w].pc = "succeeded", ![w].snapshot = x]
    BY <1>1, <1>6, RunnerTakes
  <2>3. /\ workers'[w].run = workers[w].run
        /\ \/ workers'[w].pc = "failed"
           \/ HasFile(KeyOf(w)) /\ IsSnapshotOf(workers'[w].snapshot, KeyOf(w))
              /\ workers'[w].pc = "collected"
           \/ ~HasFile(KeyOf(w)) /\ workers'[w].pc = "succeeded"
    BY <1>1, <2>2 DEF WorkerRow
  <2>4. KeyOf(w)' = KeyOf(w)
    BY <2>1, <2>3 DEF KeyOf
  <2>5. WorkerOk(w)'
    BY <2>3, <2>4 DEF WorkerOk, IsSnapshotOf
  <2>6. \A s \in Sources : file[s] # NoFile => workers[w].run # file[s].run
    BY <2>1, AtWork
  <2>7. QED
    BY <2>3, <2>5, <2>6 DEF Harmless
<1>7. ASSUME NEW w \in Workers, WriteFails(w) PROVE Harmless(w)
  <2>1. \A s \in Sources : file[s] # NoFile => workers[w].run # file[s].run
    BY <1>7, AtWork DEF WriteFails, Serving
  <2>2. workers'[w].run = workers[w].run /\ workers'[w].pc = "failed"
    BY <1>1, <1>7 DEF WriteFails, WorkerRow
  <2>3. WorkerOk(w)'
    BY <2>2 DEF WorkerOk
  <2>4. QED
    BY <2>1, <2>2, <2>3 DEF Harmless
<1>8. ASSUME NEW w \in Workers, Leave(w) \/ Crash(w) PROVE Harmless(w)
  <2>1. PICK stop : workers' = [workers EXCEPT ![w] = [Idle EXCEPT !.stop = stop]]
    BY <1>8 DEF Leave, Crash
  <2>2. QED
    BY <1>1, <2>1 DEF Harmless, Idle
<1>9. ASSUME NEW w \in Workers, Signal(w) PROVE Harmless(w)
  BY <1>1, <1>9 DEF Signal, Harmless, WorkerRow
<1>10. ASSUME NEW w \in Workers, WorkerStep(w) \/ Signal(w) \/ Crash(w), Calm,
              ~RunnerWrites(w), ~Record(w)
       PROVE  FilesAccounted'
  <2>1. Harmless(w)
    BY <1>5, <1>6, <1>7, <1>8, <1>9, <1>10 DEF WorkerStep
  <2>2. UNCHANGED file
    BY <1>10 DEF WorkerStep, claim_next, RunnerReads, WriteFails, Leave, Signal, Crash
  <2>3. \A v \in Workers \ {w} : workers'[v] = workers[v]
    BY <1>10, WorkerMoves
  <2>4. QED
    BY <1>4, <1>10, <2>1, <2>2, <2>3
<1>11. (\E w \in Workers : WorkerStep(w) \/ Signal(w) \/ Crash(w)) \/ UNCHANGED <<file, workers>>
  BY DEF Next, enqueue_collection_run, FeedReads, FeedInserts, recover_stale_runs,
         OperatorCancels, Overdue, Tick, vars
<1>12. QED
  BY <1>2, <1>3, <1>10, <1>11, WriteFiles, RecordFiles

(***************************************************************************)
(* The invariant.                                                          *)

(***************************************************************************)
\* The invariant holds of the empty queue.
LEMMA InitIInv == Init => IInv
<1> SUFFICES ASSUME Init PROVE IInv
  OBVIOUS
<1> USE DEF Init
<1>1. Len(runs) = 0 /\ Ids = {}
  BY DEF Ids
<1>2. RowsTyped
  BY DEF RowsTyped
<1>3. OthersTyped
  <2>1. NoFile \in FileRow /\ Idle \in WorkerRow
    BY NoSnapshotTaken DEF NoFile, FileRow
  <2>2. {LastTick, MaxInterruptions} \subseteq Nat
    BY QueueAssumption
  <2>3. NoFeed \in [due : SUBSET Sources, at : 0..LastTick]
    BY <2>2 DEF NoFeed
  <2>4. QED
    BY <2>1, <2>2, <2>3 DEF OthersTyped
<1>4. RunsAreHeld
  BY DEF RunsAreHeld, Idle
<1>5. OnlyCrashesAbandon
  <2>1. Abandoned = {}
    BY <1>1 DEF Abandoned
  <2>2. Cardinality(Abandoned) = 0
    BY <2>1, FS_EmptySet
  <2>3. QED
    BY <2>2 DEF OnlyCrashesAbandon, Abandoned
<1>6. AuditsAgree /\ FeedSpacing /\ DueStaysDue
  BY <1>1 DEF AuditsAgree, FeedSpacing, DueStaysDue
<1>7. FilesAccounted
  BY <1>1 DEF FilesAccounted, FileOk, WorkerOk, SuccessOk, Idle
<1>8. QED
  BY <1>2, <1>3, <1>4, <1>5, <1>6, <1>7 DEF IInv

\* Every step keeps the invariant.
LEMMA StepIInv == IInv /\ [Next]_vars => IInv'
<1> SUFFICES ASSUME IInv, [Next]_vars PROVE IInv'
  OBVIOUS
<1>1. RowsTyped' /\ AuditsAgree' /\ FeedSpacing' /\ DueStaysDue'
  BY StepOnRows
<1>2. OthersTyped'
  BY OthersTypes
<1>3. RunsAreHeld'
  BY StepOnWorkers
<1>4. OnlyCrashesAbandon'
  BY StepOnAbandoned
<1>5. FilesAccounted'
  BY StepOnFiles
<1>6. QED
  BY <1>1, <1>2, <1>3, <1>4, <1>5 DEF IInv

\* The queue keeps its books in every state.
THEOREM Invariance == Spec => []IInv
<1>1. Init => IInv
  BY InitIInv
<1>2. IInv /\ [Next]_vars => IInv'
  BY StepIInv
<1>3. QED
  BY <1>1, <1>2, PTL DEF Spec

\* The invariant has the types that the runs check.
LEMMA Typed == IInv => TypeOK
<1> SUFFICES ASSUME IInv PROVE TypeOK
  OBVIOUS
<1>1. RowsTyped /\ OthersTyped /\ RunsAreHeld /\ FilesAccounted
  BY DEF IInv
<1>2. /\ Len(runs) \in Nat /\ Ids = 1..Len(runs)
      /\ audits \in [Ids -> Outcomes] /\ Len(audits) = Len(runs)
  BY <1>1, TableFacts DEF Ids, RowsTyped
<1>3. ASSUME NEW r \in Ids
      PROVE  /\ [runs[r] EXCEPT !.hash = 0] \in
                   [source : Sources, by : {"feed", "admin"}, created : 0..LastTick,
                    status : INFLIGHT \union Terminal, stale : BOOLEAN, hash : {0}]
             /\ runs[r].hash \in {Fingerprint(s) : s \in Taken}
  <2>1. runs[r] \in RunRow
    BY <1>1, RowFields
  <2>2. QED
    BY <2>1 DEF RunRow, Hashes
<1>4. audits \in Seq(Seq({"succeeded", "failed", "swept"}))
  <2>1. Outcomes \subseteq Seq({"succeeded", "failed", "swept"})
    BY DEF Outcomes
  <2>2. audits \in Seq(Outcomes)
    BY <1>1 DEF RowsTyped
  <2>3. audits = [i \in 1..Len(audits) |-> audits[i]]
    BY <2>2
  <2>4. audits \in [1..Len(audits) -> Seq({"succeeded", "failed", "swept"})]
    BY <1>2, <2>1, <2>3
  <2>5. QED
    BY <1>2, <2>4, FunctionIsSeq
<1>5. file \in [Sources -> [run : 0..Len(runs), snapshot : Taken]]
  <2>1. ASSUME NEW s \in Sources PROVE file[s] \in [run : 0..Len(runs), snapshot : Taken]
    <3>1. file[s] \in FileRow /\ FileOk(s)
      BY <1>1 DEF OthersTyped, FilesAccounted
    <3>2. file[s].run = 0 \/ file[s].run \in 1..Len(runs)
      BY <1>2, <3>1 DEF FileOk, NoFile
    <3>3. file[s].run \in 0..Len(runs)
      BY <1>2, <3>2
    <3>4. QED
      BY <3>1, <3>3 DEF FileRow
  <2>2. QED
    BY <1>1, <2>1 DEF OthersTyped
<1>6. workers \in [Workers -> [pc : {"idle", "running", "collected", "succeeded", "failed"},
                               run : 0..Len(runs), snapshot : Taken,
                               stop : {"no", "asked", "done"}]]
  <2>1. ASSUME NEW w \in Workers PROVE workers[w].run \in 0..Len(runs)
    <3>1. workers[w].run = 0 \/ workers[w].run \in 1..Len(runs)
      BY <1>1, <1>2 DEF RunsAreHeld
    <3>2. QED
      BY <1>2, <3>1
  <2>2. QED
    BY <1>1, <2>1 DEF OthersTyped, WorkerRow
<1>7. QED
  BY <1>1, <1>2, <1>3, <1>4, <1>5, <1>6 DEF TypeOK, OthersTyped

\* Every run has one outcome with its audit row (_write_terminal_state and the
\* sweeper race for it), at most one worker executes it, and at most as many
\* running runs have no worker as workers have crashed.
THEOREM RunsHaveOneOutcome == Spec => []RunsAreAccounted
<1>1. IInv => OneOutcome
  <2> SUFFICES ASSUME IInv PROVE OneOutcome
    OBVIOUS
  <2>1. RowsTyped /\ AuditsAgree /\ RunsAreHeld
    BY DEF IInv
  <2>2. ASSUME NEW r \in Ids
        PROVE  audits[r] \in CASE runs[r].status = "succeeded" -> {<<"succeeded">>}
                               [] runs[r].status = "failed"    -> {<<"failed">>, <<"swept">>}
                               [] OTHER                        -> {<< >>}
    <3>1. runs[r].status \in {"queued", "running", "succeeded", "failed", "cancelled"}
      BY <2>1, RowFields
    <3>2. QED
      BY <2>1, <3>1 DEF AuditsAgree
  <2>3. QED
    BY <2>1, <2>2 DEF OneOutcome, RunsAreHeld
<1>2. IInv => RunsAreAccounted
  BY <1>1, Typed DEF RunsAreAccounted, IInv
<1>3. QED
  BY <1>2, Invariance, PTL

\* The feeder has at most one run of a source in flight, and the next one is
\* created a full cadence after the last that was not cancelled, however its
\* transaction interleaves with the workers, the sweeper and the operators.
THEOREM FeederKeepsItsCadence == Spec => []FeedSpacing
<1>1. IInv => FeedSpacing
  BY DEF IInv
<1>2. QED
  BY <1>1, Invariance, PTL

\* The sweeper never reports a success whose own snapshot is on disk, only one
\* that another run has replaced with other rows; and a run whose worker
\* recorded a failure has left no snapshot.
THEOREM SnapshotsMatch == Spec => []SnapshotsAccounted
<1>1. IInv => SnapshotsAccounted
  <2> SUFFICES ASSUME IInv PROVE SnapshotsAccounted
    OBVIOUS
  <2>1. RowsTyped /\ FilesAccounted
    BY DEF IInv
  <2>2. ASSUME NEW r \in Ids, runs[r].status = "succeeded", HasFile(runs[r].source)
        PROVE  /\ file[runs[r].source].run \in Ids
               /\ \/ Verdict(r) = "hash_ok"
                  \/ /\ Verdict(r) = "hash_mismatch"
                     /\ file[runs[r].source].run # r
                     /\ file[runs[r].source].snapshot.rows # runs[r].hash.rows
    <3> DEFINE s == runs[r].source
               f == file[s]
               h == runs[r].hash
    <3>1. /\ s \in Sources /\ f # NoFile /\ IsSnapshotOf(h, s) /\ h.collected_at = 0
          /\ f.run = r => h = Fingerprint(f.snapshot)
          /\ f.run \in Ids /\ IsSnapshotOf(f.snapshot, s)
      BY <2>1, <2>2, RowFields DEF FilesAccounted, SuccessOk, FileOk
    <3>2. Fingerprint(f.snapshot) = [source_key |-> s, rows |-> f.snapshot.rows,
             rows_collected |-> Cardinality(f.snapshot.rows), collected_at |-> 0]
      BY <3>1, FingerprintOf
    <3>3. h = [source_key |-> s, rows |-> h.rows, rows_collected |-> Cardinality(h.rows),
               collected_at |-> 0]
      BY <3>1 DEF IsSnapshotOf
    <3>4. f.snapshot.rows_collected = Cardinality(f.snapshot.rows)
      BY <3>1 DEF IsSnapshotOf
    <3>5. Verdict(r) = IF Fingerprint(f.snapshot) # h THEN "hash_mismatch"
                       ELSE IF f.snapshot.rows_collected # h.rows_collected
                            THEN "rows_mismatch" ELSE "hash_ok"
      BY <3>1 DEF Verdict, verify_snapshot_file
    <3> HIDE DEF s, f, h
    <3>6. CASE Fingerprint(f.snapshot) = h
      <4>1. h.rows_collected = Cardinality(f.snapshot.rows)
        BY <3>2, <3>6
      <4>2. QED
        BY <3>1, <3>4, <3>5, <3>6, <4>1 DEF s, f
    <3>7. CASE Fingerprint(f.snapshot) # h
      <4>1. f.snapshot.rows # h.rows
        BY <3>2, <3>3, <3>7
      <4>2. QED
        BY <3>1, <3>5, <3>7, <4>1 DEF s, f, h
    <3>8. QED
      BY <3>6, <3>7
  <2>3. Abnormal({}) => \E q, r \in Ids : q # r /\ runs[q].status = "succeeded"
    <3>1. SUFFICES ASSUME NEW q \in Ids, runs[q].status = "succeeded", HasFile(runs[q].source),
                          Verdict(q) # "hash_ok"
                   PROVE  \E r \in Ids : q # r
      BY DEF Abnormal
    <3>2. QED
      BY <2>2, <3>1
  <2>4. \A s \in Sources : file[s] # NoFile => audits[file[s].run] # <<"failed">>
    BY <2>1 DEF FilesAccounted, FileOk
  <2>5. QED
    BY <2>2, <2>3, <2>4 DEF SnapshotsAccounted
<1>2. QED
  BY <1>1, Invariance, PTL
=============================================================================
