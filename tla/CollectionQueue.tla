--------------------------- MODULE CollectionQueue ---------------------------
(***************************************************************************)
(* The queue of collection runs (backend/app/collection): the hourly       *)
(* feeder and the administrators enqueue runs, workers claim and execute   *)
(* them, the sweeper fails those that ran for too long.  The four meet     *)
(* only in collection_runs, the audit log and one snapshot file per        *)
(* source.  A runner reads its inputs, then replaces the file, then the    *)
(* outcome is recorded; operators replace the inputs at any time.          *)
(*                                                                         *)
(* Time is counted in ticks longer than the sweeper's stale_after; a run   *)
(* may also become stale within a tick.                                    *)
(***************************************************************************)
EXTENDS CollectionRunners, FiniteSetsExt

CONSTANTS Workers,
          Sources,     \* the source keys that are enqueued
          Inputs,      \* what a runner may find on disk
          Cadence,     \* ticks between two fed runs of a source
          LastTick,    \* bound on the clock
          MaxRuns,     \* bound on the rows of collection_runs
          MaxInterruptions   \* bound on the crashes of workers and the signals

ASSUME QueueAssumption ==
    /\ IsFiniteSet(Workers) /\ IsFiniteSet(Sources)
    /\ Cadence \in Nat \ {0}
    /\ {LastTick, MaxRuns, MaxInterruptions} \subseteq Nat
    /\ \A i \in Inputs : \A n \in DOMAIN i.entries : DOMAIN i.entries[n].rents \subseteq LAYOUTS

VARIABLES
    runs,     \* rows of collection_runs
    audits,   \* terminal audit_events of each run
    file,     \* the snapshot on disk of each source, and the run it is from
    workers,  \* the worker processes
    feed,     \* the feeder's open transaction
    now,      \* the clock
    crashes   \* crashes so far

vars == <<runs, audits, file, workers, feed, now, crashes>>

Terminal == {"succeeded", "failed", "cancelled"}
INFLIGHT == {"queued", "running"}

\* Mutant: a failed attempt does not move the window.
WindowSucceeded == {"succeeded"}

WINDOW_ADVANCING == {"succeeded", "failed"}

\* The empty snapshot stands where there is none.
NoSnapshot == [source_key |-> [starts |-> "none", exact |-> FALSE, stem |-> "none"],
               rows |-> {}, rows_collected |-> 0, collected_at |-> 0]

Idle == [pc |-> "idle", run |-> 0, snapshot |-> NoSnapshot, stop |-> "no"]
NoFile == [run |-> 0, snapshot |-> NoSnapshot]
NoFeed == [due |-> {}, at |-> 0]
Ids == 1..Len(runs)

Init ==
    /\ runs = << >>
    /\ audits = << >>
    /\ file = [s \in Sources |-> NoFile]
    /\ workers = [w \in Workers |-> Idle]
    /\ feed = NoFeed
    /\ now = 0
    /\ crashes = 0

Enqueue(source, by, at) ==
    [source |-> source, by |-> by, created |-> at, status |-> "queued", stale |-> FALSE,
     hash |-> NoSnapshot]

\* The row takes a status; only a running row can be stale.
WithStatus(r, status) == [runs[r] EXCEPT !.status = status, !.stale = FALSE]

(***************************************************************************)
(* Enqueueing.                                                             *)
(***************************************************************************)
\* AdminService.enqueue_collection_run has no guard but the table's.
enqueue_collection_run(s) ==
    /\ Len(runs) < MaxRuns
    /\ runs' = Append(runs, Enqueue(s, "admin", now))
    /\ audits' = Append(audits, << >>)
    /\ UNCHANGED <<file, workers, feed, now, crashes>>

RunsOf(s, statuses) == {r \in Ids : runs[r].source = s /\ runs[r].status \in statuses}

\* decide: the latest attempt counts by the time it was created.
Due(s) ==
    /\ RunsOf(s, INFLIGHT) = {}
    /\ \A r \in RunsOf(s, WINDOW_ADVANCING) : now - runs[r].created >= Cadence

\* fetch_state and decide_all, over all families or over one; with --dry-run
\* that is all.
FeedReads(families) ==
    LET due == {s \in Sources : Schedulable(s, families) /\ Due(s)}
    IN  /\ feed = NoFeed
        /\ due # {}
        /\ feed' = [due |-> due, at |-> now]
    /\ UNCHANGED <<runs, audits, file, workers, now, crashes>>

\* The inserts; created_at is the time at which the transaction began.
FeedInserts ==
    /\ feed # NoFeed
    /\ Len(runs) + Cardinality(feed.due) <= MaxRuns
    /\ LET rows == [i \in DOMAIN SetToSeq(feed.due) |->
                       Enqueue(SetToSeq(feed.due)[i], "feed", feed.at)]
       IN  /\ runs' = runs \o rows
           /\ audits' = audits \o [i \in DOMAIN rows |-> << >>]
    /\ feed' = NoFeed
    /\ UNCHANGED <<file, workers, now, crashes>>

(***************************************************************************)
(* The worker.                                                             *)
(***************************************************************************)
Serving(w, pc) == workers[w].pc = pc

Step(w, pc) == workers' = [workers EXCEPT ![w].pc = pc]

\* The oldest queued row; rows created at once are ordered by a random id.
claim_next(w) ==
    /\ Serving(w, "idle")
    /\ workers[w].stop # "asked"
    /\ \E r \in Ids :
          /\ runs[r].status = "queued"
          /\ \A q \in Ids : runs[q].status = "queued" => runs[r].created <= runs[q].created
          /\ runs' = [runs EXCEPT ![r].status = "running"]
          /\ workers' = [workers EXCEPT ![w].pc = "running", ![w].run = r]
    /\ UNCHANGED <<audits, file, feed, now, crashes>>

\* A worker is told to stop at most once.
Interruptions == crashes + Cardinality({w \in Workers : workers[w].stop # "no"})

KeyOf(w) == runs[workers[w].run].source

\* The runner reads its inputs and collects, or it raises.
RunnerReads(w) ==
    /\ Serving(w, "running")
    /\ \E input \in Inputs :
          workers' = [workers EXCEPT
              ![w].pc = IF Failure(KeyOf(w), input) # "none" THEN "failed"
                        ELSE IF HasFile(KeyOf(w)) THEN "collected" ELSE "succeeded",
              ![w].snapshot = IF Failure(KeyOf(w), input) # "none" THEN NoSnapshot
                              ELSE IF HasFile(KeyOf(w)) THEN Snapshot(KeyOf(w), input, now)
                              ELSE FixtureFingerprint(KeyOf(w))]
    /\ UNCHANGED <<runs, audits, file, feed, now, crashes>>

\* The runner replaces the snapshot as its last step.
RunnerWrites(w) ==
    /\ Serving(w, "collected")
    /\ file' = [file EXCEPT ![KeyOf(w)] =
                    [run |-> workers[w].run, snapshot |-> workers[w].snapshot]]
    /\ Step(w, "succeeded")
    /\ UNCHANGED <<runs, audits, feed, now, crashes>>

\* Mutant: the snapshot is written in place, and an error comes too late.
WriteFailsInPlace(w) ==
    /\ Serving(w, "collected")
    /\ file' = [file EXCEPT ![KeyOf(w)] =
                    [run |-> workers[w].run, snapshot |-> workers[w].snapshot]]
    /\ Step(w, "failed")
    /\ UNCHANGED <<runs, audits, feed, now, crashes>>

\* The disk is full: the temporary file is removed and the runner raises.
WriteFails(w) ==
    /\ Serving(w, "collected")
    /\ workers' = [workers EXCEPT ![w].pc = "failed", ![w].snapshot = NoSnapshot]
    /\ UNCHANGED <<runs, audits, file, feed, now, crashes>>

\* Mutant: the row need not be running.
write_terminal_stateUnguarded(r, status, hash) ==
    /\ runs' = [runs EXCEPT ![r] = [WithStatus(r, status) EXCEPT !.hash = hash]]
    /\ audits' = [audits EXCEPT ![r] = Append(@, status)]

\* _write_terminal_state: a row another writer has ended is left alone.
write_terminal_state(r, status, hash) ==
    IF runs[r].status = "running"
    THEN /\ runs' = [runs EXCEPT ![r] = [WithStatus(r, status) EXCEPT !.hash = hash]]
         /\ audits' = [audits EXCEPT ![r] = Append(@, status)]
    ELSE UNCHANGED <<runs, audits>>

Record(w) ==
    /\ workers[w].pc \in {"succeeded", "failed"}
    /\ write_terminal_state(workers[w].run, workers[w].pc,
           IF workers[w].pc = "succeeded" THEN Fingerprint(workers[w].snapshot) ELSE NoSnapshot)
    /\ workers' = [workers EXCEPT ![w] = [Idle EXCEPT !.stop = workers[w].stop]]
    /\ UNCHANGED <<file, feed, now, crashes>>

\* A signal to stop (SIGTERM, SIGINT) only sets an event.
Signal(w) ==
    /\ workers[w].stop = "no"
    /\ Interruptions < MaxInterruptions
    /\ workers' = [workers EXCEPT ![w].stop = "asked"]
    /\ UNCHANGED <<runs, audits, file, feed, now, crashes>>

\* Mutant: a worker that is told to stop leaves at once.
LeaveAtOnce(w) ==
    /\ workers[w].stop = "asked"
    /\ workers' = [workers EXCEPT ![w] = [Idle EXCEPT !.stop = "done"]]
    /\ UNCHANGED <<runs, audits, file, feed, now, crashes>>

\* Between two rounds the worker leaves, and the container starts the next.
Leave(w) ==
    /\ workers[w].stop = "asked"
    /\ Serving(w, "idle")
    /\ workers' = [workers EXCEPT ![w] = [Idle EXCEPT !.stop = "done"]]
    /\ UNCHANGED <<runs, audits, file, feed, now, crashes>>

\* The worker dies in the middle of a run and is restarted.
Crash(w) ==
    /\ Interruptions < MaxInterruptions
    /\ crashes' = crashes + 1
    /\ ~Serving(w, "idle")
    /\ workers' = [workers EXCEPT ![w] = [Idle EXCEPT !.stop = workers[w].stop]]
    /\ UNCHANGED <<runs, audits, file, feed, now>>

(***************************************************************************)
(* The sweeper, the operator and the clock.                                *)
(***************************************************************************)
\* Mutant: only what the feeder enqueued is recovered.
IsStaleFed(r) == runs[r].status = "running" /\ runs[r].stale /\ runs[r].by = "feed"

IsStale(r) == runs[r].status = "running" /\ runs[r].stale

\* Mutant: the row's status is the audit action's.
SweptStatus(r) == WithStatus(r, "swept")

Swept(r) == WithStatus(r, "failed")

\* One batch; skip locked may leave stale rows for the next hour.
recover_stale_runs ==
    /\ \E batch \in SUBSET {r \in Ids : IsStale(r)} :
          /\ batch # {}
          /\ runs' = [r \in Ids |-> IF r \in batch THEN Swept(r) ELSE runs[r]]
          /\ audits' = [r \in Ids |-> IF r \in batch THEN Append(audits[r], "swept")
                                                     ELSE audits[r]]
    /\ UNCHANGED <<file, workers, feed, now, crashes>>

\* No code of the repository cancels a run; its worker reckons with a trusted
\* writer that does.
OperatorCancels(r) ==
    /\ runs[r].status \in INFLIGHT
    /\ runs' = [runs EXCEPT ![r] = WithStatus(r, "cancelled")]
    /\ UNCHANGED <<audits, file, workers, feed, now, crashes>>

Aged(S) == [r \in Ids |-> IF r \in S /\ runs[r].status = "running"
                          THEN [runs[r] EXCEPT !.stale = TRUE] ELSE runs[r]]

Overdue(r) ==
    /\ runs[r].status = "running"
    /\ ~runs[r].stale
    /\ runs' = Aged({r})
    /\ UNCHANGED <<audits, file, workers, feed, now, crashes>>

Tick ==
    /\ now < LastTick
    /\ now' = now + 1
    /\ runs' = Aged(Ids)
    /\ UNCHANGED <<audits, file, workers, feed, crashes>>

\* One verdict of verify_snapshot_hashes; only successes are judged.
Verdict(r) ==
    LET f == file[runs[r].source]
    IN  verify_snapshot_file(f # NoFile, f.snapshot, runs[r].hash, runs[r].hash.rows_collected)

\* The exit code that a cron job alerts on: a run was recovered, or a file does
\* not match.
Abnormal(recovered) ==
    \/ recovered # {}
    \/ \E r \in Ids : /\ runs[r].status = "succeeded"
                     /\ HasFile(runs[r].source)
                     /\ Verdict(r) # "hash_ok"

WorkerStep(w) ==
    claim_next(w) \/ RunnerReads(w) \/ RunnerWrites(w) \/ WriteFails(w) \/ Record(w) \/ Leave(w)

Next ==
    \/ \E s \in Sources : enqueue_collection_run(s)
    \/ \E families \in {Families} \union {{f} : f \in Families} : FeedReads(families)
    \/ FeedInserts
    \/ \E w \in Workers : WorkerStep(w) \/ Signal(w) \/ Crash(w)
    \/ recover_stale_runs
    \/ \E r \in Ids : OperatorCancels(r) \/ Overdue(r)
    \/ Tick

Spec == Init /\ [][Next]_vars

\* Workers loop, the sweeper runs every hour, time passes.
FairSpec ==
    /\ Spec
    /\ \A w \in Workers : WF_vars(WorkerStep(w))
    /\ WF_vars(recover_stale_runs)
    /\ WF_vars(\E r \in Ids : Overdue(r))

(***************************************************************************)
(* Properties.                                                             *)
(***************************************************************************)
Taken == {NoSnapshot} \union {FixtureFingerprint(s) : s \in Sources} \union
         UNION {{Snapshot(p[1], p[2], t) : t \in 0..LastTick} : p \in
               {p \in Sources \X Inputs : HasFile(p[1]) /\ Failure(p[1], p[2]) = "none"}}

\* Every variable stays within its type.
TypeOK ==
    /\ \A r \in Ids : /\ [runs[r] EXCEPT !.hash = 0] \in
                           [source : Sources, by : {"feed", "admin"}, created : 0..LastTick,
                            status : INFLIGHT \union Terminal, stale : BOOLEAN, hash : {0}]
                     /\ runs[r].hash \in {Fingerprint(s) : s \in Taken}
    /\ audits \in Seq(Seq({"succeeded", "failed", "swept"})) /\ Len(audits) = Len(runs)
    /\ file \in [Sources -> [run : 0..Len(runs), snapshot : Taken]]
    /\ workers \in [Workers -> [pc : {"idle", "running", "collected", "succeeded", "failed"},
                                run : 0..Len(runs), snapshot : Taken, stop : {"no", "asked", "done"}]]
    /\ feed \in [due : SUBSET Sources, at : 0..LastTick]
    /\ now \in 0..LastTick
    /\ crashes \in 0..MaxInterruptions

\* Every run has at most one outcome: worker, sweeper and operator race for
\* it, the audit log has one row for a run that ended by one of the first
\* two and none for the others, and no two workers execute the same run.
OneOutcome ==
    /\ \A r \in Ids :
          audits[r] \in CASE runs[r].status = "succeeded" -> {<<"succeeded">>}
                          [] runs[r].status = "failed"    -> {<<"failed">>, <<"swept">>}
                          [] OTHER                        -> {<< >>}
    /\ \A v, w \in Workers : workers[v].run = workers[w].run /\ v # w => workers[v].run = 0

\* What the sweeper's check is worth: a success whose snapshot is the one on
\* disk is never reported, only a file that another run has replaced with other
\* content is; and a run whose own worker recorded a failure has not replaced
\* its source's snapshot.
SnapshotsAccounted ==
    /\ \A r \in Ids :
          /\ runs[r].status = "succeeded"
          /\ HasFile(runs[r].source)
          => \/ Verdict(r) = "hash_ok"
             \/ /\ Verdict(r) = "hash_mismatch"
                /\ file[runs[r].source].run # r
                /\ file[runs[r].source].snapshot.rows # runs[r].hash.rows
    /\ Abnormal({}) => \E q, r \in Ids : q # r /\ runs[q].status = "succeeded"
    /\ \A s \in Sources : file[s] # NoFile => audits[file[s].run] # <<"failed">>

\* A run is left running without a worker only by a crash: a worker that is
\* told to stop, or whose runner raises, ends the run it has claimed.
OnlyCrashesAbandon ==
    Cardinality({r \in Ids : /\ runs[r].status = "running"
                             /\ \A w \in Workers : workers[w].run # r}) <= crashes

\* Every run is accounted for: one outcome and its audit row, or a worker that
\* executes it, or a crash that abandoned it.
RunsAreAccounted == TypeOK /\ OneOutcome /\ OnlyCrashesAbandon

\* The feeder never has two runs of a source in flight, and leaves a full
\* cadence between two that an operator did not cancel.
FeedSpacing ==
    \A q, r \in Ids :
        /\ q < r
        /\ runs[q].source = runs[r].source
        /\ runs[q].by = "feed" /\ runs[r].by = "feed"
        /\ runs[q].status # "cancelled"
        => /\ runs[q].status \notin INFLIGHT
           /\ runs[r].created - runs[q].created >= Cadence

\* Whatever crashes and signals its worker suffers, no run waits or runs for
\* ever: time and again all the rows there are have ended.
RunsSettle == []<>(\A r \in Ids : runs[r].status \in Terminal)
=============================================================================
