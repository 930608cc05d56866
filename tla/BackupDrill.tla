---------------------------- MODULE BackupDrill ----------------------------
(***************************************************************************)
(* The daily logical backup and the drills that restore it.  A backup      *)
(* counts the rows, dumps the database, writes a manifest beside the       *)
(* archive, prunes the old pairs and uploads the new one; a drill restores *)
(* an archive into a database of its own on the loopback server, checks    *)
(* it and drops it.  Two drill programs: `restore_drill', which compares   *)
(* with a manifest or with its own export, and `recovery', which runs a    *)
(* list of assertions and leaves an evidence record.  Rows of the live     *)
(* database stand for the seven tables and the migration ledger.           *)
(***************************************************************************)
EXTENDS Integers, Sequences, FiniteSets

CONSTANTS
  Drills, Targets,       \* drills under way, names of disposable databases
  Assertions,            \* sequence: the rows each assertion of `recovery' asks for
  ObjectStorage,         \* whether the five S3 settings are there
  RetentionDays, RemoteRetentionDays,   \* of the directory, of the bucket: set apart
  MaxLive, MaxDays, MaxBackups   \* bounds: live rows, days, backups taken

\* Either below 1 ends the program before it starts; neither bounds the other.
ASSUME RetentionIsPositive == RetentionDays \in Nat \ {0} /\ RemoteRetentionDays \in Nat \ {0}

\* The assertions run one after another; each names the least number of rows.
ASSUME AssertionsAreListed == Assertions \in Seq(Nat)

Damaged == -1            \* bytes that are no archive: a dump that died, a bad disk
Absent == [kind |-> "none"]

VARIABLES
  live, today,       \* rows of the live database, the day
  backup,            \* the backup under way
  announced,         \* the backups BACKUP_OK was printed for: [stamp, day of the archive]
  local, remote,     \* files: [stamp, part, day, bytes], part "dump" or "manifest"
  servers,           \* [target -> the drill that created it and its rows, or Absent]
  drill,             \* [Drills -> the drill]
  dropped            \* <<drill, creator>> of every database dropped

backupVars == <<live, today, backup, announced, local, remote, servers, drill, dropped>>

NoDrill == [pc |-> "idle"]

File(files, stamp, part) ==
  IF \E f \in files : f.stamp = stamp /\ f.part = part
  THEN CHOOSE f \in files : f.stamp = stamp /\ f.part = part
  ELSE Absent

\* Mutant: a file goes on the last day it should be kept.
ExpiredOnTheDay(f, days) == f.day <= today - days

(* _remote_retention_days reads its own setting: --retention-days, the     *)
(* other, does not touch it.                                               *)
Expired(f, days) == f.day < today - days

(* How the bucket lists its keys: by stamp, a dump before its manifest. *)
ListedBefore(f, g) ==
  f.stamp < g.stamp \/ (f.stamp = g.stamp /\ f.part = "dump" /\ g.part = "manifest")
-----------------------------------------------------------------------------
BackupInit ==
  /\ live \in 1..MaxLive /\ today = 0
  /\ backup = [step |-> "idle", stamp |-> 0, counts |-> 0] /\ announced = {} /\ local = {} /\ remote = {}
  /\ servers = [t \in Targets |-> Absent]
  /\ drill = [d \in Drills |-> NoDrill]
  /\ dropped = {}

(* The environment: rows come and go, days pass, a disk goes bad. *)
LiveWrite(n) ==
  /\ n # live /\ live' = n
  /\ UNCHANGED <<today, backup, announced, local, remote, servers, drill, dropped>>

DayPasses ==
  /\ today < MaxDays /\ today' = today + 1
  /\ UNCHANGED <<live, backup, announced, local, remote, servers, drill, dropped>>

ArchiveRots(f) ==
  /\ f \in local /\ f.part = "dump" /\ f.bytes # Damaged
  /\ local' = (local \ {f}) \cup {[f EXCEPT !.bytes = Damaged]}
  /\ UNCHANGED <<live, today, backup, announced, remote, servers, drill, dropped>>

(* The backup: counts first, then the dump, then the manifest that carries *)
(* the counts and the archive's digest.  Every step is a container that    *)
(* may fail, which ends the run.                                           *)
CountRows ==
  /\ backup.step = "idle"
  /\ backup.stamp < MaxBackups
  /\ backup' = [step |-> "counted", stamp |-> backup.stamp + 1, counts |-> live]
  /\ UNCHANGED <<live, today, announced, local, remote, servers, drill, dropped>>

Dump ==
  /\ backup.step = "counted"
  /\ local' = local \cup {[stamp |-> backup.stamp, part |-> "dump", day |-> today, bytes |-> live]}
  /\ backup' = [backup EXCEPT !.step = "dumped"]
  /\ UNCHANGED <<live, today, announced, remote, servers, drill, dropped>>

WriteManifest ==
  /\ backup.step = "dumped"
  /\ local' = local \cup {[stamp |-> backup.stamp, part |-> "manifest", day |-> today,
                           bytes |-> backup.counts,
                           sha |-> File(local, backup.stamp, "dump").bytes]}
  /\ backup' = [backup EXCEPT !.step = "written"]
  /\ UNCHANGED <<live, today, announced, remote, servers, drill, dropped>>

\* Mutant: the retention counts the backups, not their days.
PruneLocalToNewest ==
  /\ backup.step = "written"
  /\ local' = {f \in local : f.stamp = backup.stamp}
  /\ announced' = announced \cup {[stamp |-> backup.stamp, day |-> File(local, backup.stamp, "dump").day]}
  /\ backup' = [backup EXCEPT !.step = IF ObjectStorage THEN "archive" ELSE "idle"]
  /\ UNCHANGED <<live, today, remote, servers, drill, dropped>>

(* Old pairs go by the age of each file; then BACKUP_OK. *)
PruneLocal ==
  /\ backup.step = "written"
  /\ local' = {f \in local : ~Expired(f, RetentionDays)}
  /\ announced' = announced \cup {[stamp |-> backup.stamp, day |-> File(local, backup.stamp, "dump").day]}
  /\ backup' = [backup EXCEPT !.step = IF ObjectStorage THEN "archive" ELSE "idle"]
  /\ UNCHANGED <<live, today, remote, servers, drill, dropped>>

\* Mutant: the manifest is uploaded first.
UploadManifestFirst ==
  /\ backup.step \in {"archive", "manifest"}
  /\ LET f == File(local, backup.stamp, IF backup.step = "archive" THEN "manifest" ELSE "dump")
     IN f # Absent /\ remote' = remote \cup {[f EXCEPT !.day = today]}
  /\ backup' = [backup EXCEPT !.step = IF backup.step = "archive" THEN "manifest" ELSE "uploaded"]
  /\ UNCHANGED <<live, today, announced, local, servers, drill, dropped>>

(* One file after the other, the archive first.  A file that is gone ends  *)
(* the run (BackupEnds).                                                   *)
Upload ==
  /\ backup.step \in {"archive", "manifest"}
  /\ LET f == File(local, backup.stamp, IF backup.step = "archive" THEN "dump" ELSE "manifest")
     IN f # Absent /\ remote' = remote \cup {[f EXCEPT !.day = today]}
  /\ backup' = [backup EXCEPT !.step = IF backup.step = "archive" THEN "manifest" ELSE "uploaded"]
  /\ UNCHANGED <<live, today, announced, local, servers, drill, dropped>>

(* The objects the bucket has kept for its own number of days go one by    *)
(* one, in the order they are listed; the first deletion that fails leaves *)
(* the rest, which is reported and forgiven.  So a manifest may stay whose *)
(* archive has just gone.                                                  *)
PruneRemote ==
  /\ backup.step = "uploaded"
  /\ LET old == {f \in remote : Expired(f, RemoteRetentionDays)} IN
     \E gone \in SUBSET old :
       /\ \A g \in gone : {f \in old : ListedBefore(f, g)} \subseteq gone
       /\ remote' = remote \ gone
  /\ backup' = [backup EXCEPT !.step = "idle"]
  /\ UNCHANGED <<live, today, announced, local, servers, drill, dropped>>

(* A failed container, or the host going down.  A dump that died leaves    *)
(* the part of the archive it has written.                                 *)
BackupEnds ==
  /\ backup.step # "idle" /\ backup' = [backup EXCEPT !.step = "idle"]
  /\ \/ UNCHANGED local
     \/ /\ backup.step = "counted"
        /\ local' = local \cup {[stamp |-> backup.stamp, part |-> "dump", day |-> today, bytes |-> Damaged]}
  /\ UNCHANGED <<live, today, announced, remote, servers, drill, dropped>>
-----------------------------------------------------------------------------
(* load_backup_manifest: the archive beside the manifest has its digest. *)
ManifestLoads(stamp) ==
  LET m == File(local, stamp, "manifest")
      a == File(local, stamp, "dump")
  IN m # Absent /\ a # Absent /\ a.bytes # Damaged /\ m.sha = a.bytes

(* What a drill starts with: a backup and its manifest, or (stamp 0) the   *)
(* inventory of the source, which is exported next.                        *)
StartRestoreDrill(d, t, stamp) ==
  /\ drill[d].pc = "idle"
  /\ IF stamp = 0
     THEN drill' = [drill EXCEPT ![d] = [pc |-> "export", program |-> "restore_drill", target |-> t,
                                         stamp |-> 0, expect |-> live, bytes |-> Damaged]]
     ELSE /\ ManifestLoads(stamp)
          /\ drill' = [drill EXCEPT ![d] = [pc |-> "create", program |-> "restore_drill", target |-> t,
                         stamp |-> stamp, expect |-> File(local, stamp, "manifest").bytes,
                         bytes |-> Damaged]]
  /\ UNCHANGED <<live, today, backup, announced, local, remote, servers, dropped>>

Export(d) ==
  /\ drill[d].pc = "export"
  /\ drill' = [drill EXCEPT ![d].pc = "create", ![d].bytes = live]
  /\ UNCHANGED <<live, today, backup, announced, local, remote, servers, dropped>>

(* inspect_custom_archive: the digest the operator was given, a readable   *)
(* table of contents.                                                      *)
StartRecovery(d, t, stamp, owners) ==
  /\ drill[d].pc = "idle"
  /\ ManifestLoads(stamp)
  /\ drill' = [drill EXCEPT ![d] =
       [pc |-> "create", program |-> "recovery", target |-> t, stamp |-> stamp,
        bytes |-> Damaged, results |-> <<>>,
        record |-> [gate |-> "blocked", result |-> "fail", cleanup |-> "not_needed",
                    assertions |-> <<>>, owners |-> owners, sha |-> TRUE]]]
  /\ UNCHANGED <<live, today, backup, announced, local, remote, servers, dropped>>

\* Mutant: a name that is taken is used as it is.
CreateTargetOrUse(d) ==
  /\ drill[d].pc = "create"
  /\ servers' = IF servers[drill[d].target] # Absent THEN servers
                ELSE [servers EXCEPT ![drill[d].target] = [kind |-> "disposable", by |-> d, rows |-> 0]]
  /\ drill' = [drill EXCEPT ![d].pc = "restore"]
  /\ UNCHANGED <<live, today, backup, announced, local, remote, dropped>>

(* createdb fails for a name that is taken: the drill ends and does not    *)
(* clean up what it has not created.                                       *)
CreateTarget(d) ==
  /\ drill[d].pc = "create"
  /\ \/ /\ servers[drill[d].target] = Absent
        /\ servers' = [servers EXCEPT ![drill[d].target] = [kind |-> "disposable", by |-> d, rows |-> 0]]
        /\ drill' = [drill EXCEPT ![d].pc = "restore"]
     \/ /\ drill' = [drill EXCEPT ![d].pc = "failed"]
        /\ UNCHANGED servers
  /\ UNCHANGED <<live, today, backup, announced, local, remote, dropped>>

(* pg_restore reads the archive again: it may be gone or bad by now. *)
ArchiveBytes(d) ==
  IF drill[d].stamp = 0 THEN drill[d].bytes
  ELSE LET a == File(local, drill[d].stamp, "dump") IN IF a = Absent THEN Damaged ELSE a.bytes

Restore(d) ==
  /\ drill[d].pc = "restore"
  /\ \/ /\ ArchiveBytes(d) # Damaged
        /\ servers' = [servers EXCEPT ![drill[d].target].rows = ArchiveBytes(d)]
        /\ drill' = [drill EXCEPT ![d].pc = "check"]
     \/ /\ drill' = [drill EXCEPT ![d].pc = "dropfailed"]
        /\ UNCHANGED servers
  /\ UNCHANGED <<live, today, backup, announced, local, remote, dropped>>

(* restore_drill compares every count; recovery runs its assertions in     *)
(* order and none after the first that fails.                              *)
\* Mutant: only what the source has and the copy lacks is a mismatch.
CompareCountsAtLeast(d) ==
  /\ drill[d].pc = "check" /\ drill[d].program = "restore_drill"
  /\ drill' = [drill EXCEPT ![d].pc =
       IF servers[drill[d].target].rows >= drill[d].expect THEN "drop" ELSE "dropfailed"]
  /\ UNCHANGED <<live, today, backup, announced, local, remote, servers, dropped>>

CompareCounts(d) ==
  /\ drill[d].pc = "check" /\ drill[d].program = "restore_drill"
  /\ drill' = [drill EXCEPT ![d].pc =
       IF servers[drill[d].target].rows = drill[d].expect THEN "drop" ELSE "dropfailed"]
  /\ UNCHANGED <<live, today, backup, announced, local, remote, servers, dropped>>

RunAssertion(d) ==
  /\ drill[d].pc = "check" /\ drill[d].program = "recovery"
  /\ LET done == drill[d].results
         i == Len(done) + 1
         verdict == IF "fail" \in {done[j] : j \in DOMAIN done} THEN "not_run"
                    ELSE IF servers[drill[d].target].rows >= Assertions[i] THEN "pass" ELSE "fail"
         results == Append(done, verdict)
     IN IF i <= Len(Assertions)
        THEN drill' = [drill EXCEPT ![d].results = results]
        ELSE drill' = [drill EXCEPT ![d].record.assertions = done,
               ![d].pc = IF done # <<>> /\ {done[j] : j \in DOMAIN done} = {"pass"}
                         THEN "drop" ELSE "dropfailed"]
  /\ UNCHANGED <<live, today, backup, announced, local, remote, servers, dropped>>

\* Mutant: the evidence passes with the restore.
DropTargetGateByResult(d) ==
  /\ drill[d].pc \in {"drop", "dropfailed"}
  /\ \E ok \in BOOLEAN :
       /\ servers' = IF ok THEN [servers EXCEPT ![drill[d].target] = Absent] ELSE servers
       /\ dropped' = IF ok THEN dropped \cup {<<d, servers[drill[d].target].by>>} ELSE dropped
       /\ LET passed == drill[d].pc = "drop" IN
          drill' = [drill EXCEPT ![d] =
            IF drill[d].program = "restore_drill" THEN [@ EXCEPT !.pc = IF passed THEN "passed" ELSE "failed"]
            ELSE [@ EXCEPT !.pc = IF passed THEN "passed" ELSE "failed",
                           !.record.result = IF passed THEN "pass" ELSE "fail",
                           !.record.cleanup = IF ok THEN "pass" ELSE "fail",
                           !.record.gate = IF passed THEN "pass" ELSE "blocked"]]
  /\ UNCHANGED <<live, today, backup, announced, local, remote>>

(* The `finally' of both programs.  A target that cannot be dropped is     *)
(* reported; it blocks the evidence of `recovery' and leaves the exit code *)
(* of `restore_drill' as it is.                                            *)
DropTarget(d) ==
  /\ drill[d].pc \in {"drop", "dropfailed"}
  /\ \E ok \in BOOLEAN :
       /\ servers' = IF ok THEN [servers EXCEPT ![drill[d].target] = Absent] ELSE servers
       /\ dropped' = IF ok /\ servers[drill[d].target] # Absent
                     THEN dropped \cup {<<d, servers[drill[d].target].by>>} ELSE dropped
       /\ LET passed == drill[d].pc = "drop" IN
          drill' = [drill EXCEPT ![d] =
            IF drill[d].program = "restore_drill" THEN [@ EXCEPT !.pc = IF passed THEN "passed" ELSE "failed"]
            ELSE [@ EXCEPT !.pc = IF passed /\ ok THEN "passed" ELSE "failed",
                           !.record.result = IF passed THEN "pass" ELSE "fail",
                           !.record.cleanup = IF ok THEN "pass" ELSE "fail",
                           !.record.gate = IF passed /\ ok THEN "pass" ELSE "blocked"]]
  /\ UNCHANGED <<live, today, backup, announced, local, remote>>

(* The drill's process is killed: what it created stays. *)
DrillDies(d) ==
  /\ drill[d].pc \notin {"idle", "passed", "failed"}
  /\ drill' = [drill EXCEPT ![d] = NoDrill]
  /\ UNCHANGED <<live, today, backup, announced, local, remote, servers, dropped>>

(* validate_evidence_record, for what a drill can write: a local record    *)
(* with a digest.  (Records of managed environments are written by hand.)  *)
IdentityErrors(r) ==
  (IF r.owners # "assigned" THEN {"responsible"} ELSE {}) \cup (IF ~r.sha THEN {"checksum"} ELSE {})

EvidenceErrors(r) ==
  IdentityErrors(r)
  \cup (IF r.gate = "pass" /\ (r.result # "pass" \/ r.cleanup # "pass") THEN {"restore"} ELSE {})
  \cup (IF r.gate = "pass" /\ {r.assertions[i] : i \in DOMAIN r.assertions} # {"pass"}
        THEN {"assertions"} ELSE {})

BackupNext ==
  \/ \E n \in 0..MaxLive : LiveWrite(n)
  \/ DayPasses \/ \E f \in local : ArchiveRots(f)
  \/ CountRows \/ Dump \/ WriteManifest \/ PruneLocal \/ Upload \/ PruneRemote \/ BackupEnds
  \/ \E d \in Drills, t \in Targets :
       \/ \E stamp \in 0..MaxBackups : StartRestoreDrill(d, t, stamp)
       \/ \E stamp \in 1..MaxBackups, o \in {"assigned", "tbd"} : StartRecovery(d, t, stamp, o)
  \/ \E d \in Drills : Export(d) \/ CreateTarget(d) \/ Restore(d) \/ CompareCounts(d)
                       \/ RunAssertion(d) \/ DropTarget(d) \/ DrillDies(d)

\* A run may die at any step, and no backup or drill is owed: no fairness.
BackupSpec == BackupInit /\ [][BackupNext]_backupVars
-----------------------------------------------------------------------------
Recent(a, days) == a.day >= today - days

(* backup_database.py:131, 293 - a backup that was announced within the    *)
(* retention of the directory is still there, archive and manifest,        *)
(* however many runs have died since; and within the retention of the      *)
(* bucket, a manifest the bucket has is of an archive it has.  The two     *)
(* retentions are set apart, so a backup that is kept on disk may have its *)
(* manifest alone in the bucket.                                           *)
AnnouncedBackupsAreKept ==
  \A a \in announced :
    /\ Recent(a, RetentionDays) =>
         Absent \notin {File(local, a.stamp, "dump"), File(local, a.stamp, "manifest")}
    /\ Recent(a, RemoteRetentionDays) /\ File(remote, a.stamp, "manifest") # Absent =>
         File(remote, a.stamp, "dump") # Absent

\* The database the drill made is still there.
LeftBehind(d) == LET server == servers[drill[d].target] IN server # Absent /\ server.by = d

(* restore_drill.py:168, database_recovery.py:400-414 - a drill passes     *)
(* only for what it restored: the counts of the manifest or of the export, *)
(* or every assertion; the evidence it leaves is accepted exactly when its *)
(* owners are named.  No drill of `recovery' passes with its database left *)
(* behind; one of `restore_drill' does when its clean-up failed (:187-191  *)
(* return 0), where the runbook says non-zero: the one exception to `a     *)
(* drill that passed has left nothing'.                                    *)
PassedDrillsRestored ==
  \A d \in Drills :
    /\ drill[d].pc = "drop" /\ drill[d].program = "restore_drill" =>
         LET m == File(local, drill[d].stamp, "manifest") IN
         IF drill[d].stamp = 0 THEN servers[drill[d].target].rows = drill[d].bytes
         ELSE m # Absent => servers[drill[d].target].rows = m.bytes /\ m.bytes = m.sha
    /\ drill[d].pc \in {"passed", "failed"} /\ drill[d].program = "recovery" =>
         /\ drill[d].record.owners = "assigned" <=> EvidenceErrors(drill[d].record) = {}
         /\ drill[d].record.gate = "pass" =>
              \A i \in DOMAIN Assertions : drill[d].record.assertions[i] = "pass"
    /\ drill[d].pc = "passed" /\ LeftBehind(d) => drill[d].program = "restore_drill"

(* restore_drill.py:187 - a database is dropped by the drill that created  *)
(* it, also when two drills were given one name, and while a drill works   *)
(* on a database the database is there and is its own.                     *)
OwnTargetsDropped ==
  /\ \A p \in dropped : p[1] = p[2]
  /\ \A d \in Drills : drill[d].pc \in {"restore", "check", "drop", "dropfailed"} =>
       servers[drill[d].target] # Absent /\ servers[drill[d].target].by = d

(* A drill judges only what it has restored itself, and removes nothing    *)
(* else.                                                                   *)
DrillsAreHonest == PassedDrillsRestored /\ OwnTargetsDropped
=============================================================================
