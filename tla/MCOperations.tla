---------------------------- MODULE MCOperations ----------------------------
(* Five worlds that share nothing, so a behaviour is of one of them: the   *)
(* publisher, the backups and their drills, a service task with its        *)
(* organisations, the ledger of usage reservations, and the back office.   *)
EXTENDS QualityGate, BackupDrill, ServiceTasks, PostgresLedger, MCAdminConsole

MCRow == [record_id |-> "id1", print |-> "p1", data_class |-> "verified_observation",
          synthetic |-> FALSE, rights |-> TRUE, blank |-> FALSE,
          month |-> 1, from |-> 1, to |-> 2, area |-> 5, amount |-> 3,
          market |-> "sale", unit |-> "jpy_total", source_id |-> "reins",
          url |-> <<"reins", "area">>, parser |-> "v1", snapshot_id |-> "s1",
          captured |-> "monday", hash |-> "h1"]
MCRows ==
  {MCRow,
   [MCRow EXCEPT !.record_id = "id2", !.print = "p2"],
   [MCRow EXCEPT !.record_id = "id3", !.print = "p3", !.month = 2],
   [MCRow EXCEPT !.print = "p4", !.month = 2],
   [MCRow EXCEPT !.record_id = "id5", !.print = "p5", !.data_class = "modeled_estimate"],
   [MCRow EXCEPT !.record_id = "id6", !.print = "p6", !.data_class = "synthetic_fixture",
                 !.synthetic = TRUE, !.source_id = "fixture", !.snapshot_id = "s2"],
   [MCRow EXCEPT !.record_id = "id7", !.print = "p7", !.market = "rental", !.rights = FALSE]}

MCSource == [source_id |-> "reins", source_type |-> "partner", url |-> <<"reins">>,
             permission_status |-> "confirmed", evidence |-> TRUE,
             permitted_use |-> "public_aggregate", parser |-> "v1"]
MCFixture == [MCSource EXCEPT !.source_id = "fixture", !.source_type = "synthetic_fixture",
                              !.permission_status = "not_applicable"]
MCGoodRegistry == <<MCSource, MCFixture>>
MCRegistries ==
  {MCGoodRegistry,
   <<[MCSource EXCEPT !.permitted_use = "none"], MCFixture>>,
   <<MCSource, MCSource>>}

MCManifest ==
  [s1 |-> [source_id |-> "reins", parser |-> "v1", captured |-> "monday",
           url |-> <<"reins", "area">>, hash |-> "h1", size |-> 1],
   s2 |-> [source_id |-> "fixture", parser |-> "v1", captured |-> "monday",
           url |-> <<"reins", "area">>, hash |-> "h1", size |-> 1]]
MCContents == {[hash |-> "h1", size |-> 1], [hash |-> "h2", size |-> 1]}

(* One edit of the registry or of the first snapshot.  Three rows are      *)
(* judged with the registry and the snapshots in order, two whatever they  *)
(* are, and a second run judges one row.  Drafts, which touch nothing else, *)
(* are made of data sets that are not judged.                              *)
GateStep ==
  \/ \E r \in RowChoices :
       /\ AppendRow(r) /\ (job.runs = 0 \/ Len(rows) < 2)
       /\ Len(rows) = 2 => /\ registry = MCGoodRegistry
                           /\ \A s \in DOMAIN Manifest : disk[s] # Missing /\ disk[s].hash = Manifest[s].hash
  \/ \E reg \in Registries : EditRegistry(reg) /\ job.runs = 1 /\ Len(rows) = 1
  \/ \E c \in Contents \cup {Missing} : SnapshotChanges("s1", c) /\ Len(rows) = 1
  \/ StartPrepare /\ (job.runs = 0 \/ Len(rows) < 2) /\ draft = {}
  \/ MakeReport /\ job.runs = 0
  \/ WriteOutput \/ PrepareDies

MCAssertions == <<1, 2>>

NoDrillYet == \A d \in Drills : drill[d].pc = "idle"
FirstDrill == CHOOSE d \in Drills : TRUE

(* Backups over four days, or drills of what one backup has left, the      *)
(* second of its archive and with its owners named, while the source is    *)
(* written and a disk goes bad.                                            *)
DrillStep ==
  \/ \E n \in 1..MaxLive :
       /\ LiveWrite(n)
       /\ IF NoDrillYet THEN backup.step = "counted" ELSE \E d \in Drills : drill[d].pc = "export"
  \/ NoDrillYet /\ DayPasses
  \/ \E f \in local : ArchiveRots(f) /\ \E d \in Drills : drill[d].pc \in {"create", "restore"}
  \/ /\ NoDrillYet
     /\ CountRows \/ Dump \/ WriteManifest \/ PruneLocal \/ Upload \/ PruneRemote \/ BackupEnds
  \/ \E d \in Drills, t \in Targets :
       /\ today = 0 /\ backup.step = "idle" /\ backup.stamp = 1 /\ remote = {}
       /\ d = FirstDrill \/ drill[FirstDrill].pc # "idle"
       /\ \/ \E stamp \in 0..1 : StartRestoreDrill(d, t, stamp) /\ (stamp = 0 => d = FirstDrill)
          \/ \E o \in {"assigned", "tbd"} : StartRecovery(d, t, 1, o) /\ (o = "tbd" => d = FirstDrill)
  \/ \E d \in Drills : Export(d) \/ CreateTarget(d) \/ Restore(d) \/ CompareCounts(d)
                       \/ RunAssertion(d) \/ DropTarget(d) \/ DrillDies(d)

CONSTANTS o1, o2, o3

\* One caller manages one organisation, another two.
MCCallers == {{o1}, {o2, o3}}

Ask(op, key, units, rkey, limit) ==
    [op |-> op, key |-> key, units |-> units, rkey |-> rkey, limit |-> limit]

\* Two reservations of one unit and two ways to end the first, each under
\* two keys; a transition with other units; usage under two keys; a caller
\* with another limit and callers with none.
MCRequests ==
    { Ask("reserve", "k1", 1, "k1", 2), Ask("reserve", "k2", 1, "k2", NoLimit),
      Ask("commit", "k1", 1, "k1", NoLimit), Ask("commit", "k2", 2, "k1", 2),
      Ask("release", "k1", 1, "k1", NoLimit), Ask("release", "k2", 1, "k1", NoLimit),
      Ask("consume", "k1", 1, NoKey, 2), Ask("consume", "k2", 1, NoKey, NoLimit),
      Ask("consume", "k2", 1, NoKey, 3) }

VARIABLE world

operationsVars == <<world, gateVars, backupVars, vars, transactionVars, consoleVars>>

MCInit ==
  /\ GateInit /\ BackupInit /\ Init /\ TransactionsInit /\ ConsoleInit
  /\ world \in {"publisher", "backups", "tasks", "ledger", "console"}
  /\ world # "publisher" => registry = MCGoodRegistry
  /\ world # "backups" => live = 1

MCNext ==
  /\ UNCHANGED world
  /\ \/ /\ world = "publisher" /\ GateStep
        /\ UNCHANGED <<backupVars, vars, transactionVars, consoleVars>>
     \/ /\ world = "backups" /\ DrillStep
        /\ UNCHANGED <<gateVars, vars, transactionVars, consoleVars>>
     \/ /\ world = "tasks" /\ Next
        /\ UNCHANGED <<gateVars, backupVars, transactionVars, consoleVars>>
     \/ /\ world = "ledger" /\ TransactionsNext
        /\ UNCHANGED <<gateVars, backupVars, vars, consoleVars>>
     \/ /\ world = "console" /\ ConsoleStep
        /\ UNCHANGED <<gateVars, backupVars, vars, transactionVars>>

MCSpec == MCInit /\ [][MCNext]_operationsVars
=============================================================================
