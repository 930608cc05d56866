---------------------------- MODULE QualityGate ----------------------------
(***************************************************************************)
(* The offline publisher: a person keeps a data set of rows, a registry of *)
(* sources and the snapshots the rows were taken from; `prepare' judges    *)
(* the data set and writes four files one after another, `quality-check'   *)
(* only judges it, and `report' renders a draft without the gate.          *)
(***************************************************************************)
EXTENDS Integers, Sequences, FiniteSets, SequencesExt

CONSTANTS
  RowChoices,      \* the rows a person may append to the data set
  Registries,      \* the registries: sequences of source registrations
  Manifest,        \* [snapshot_id -> the manifest entry of the snapshot]
  Contents,        \* what a snapshot's file may hold: [hash, size]
  MinPeriods, MinPerPeriod, MinTotal,   \* the trend policy
  MaxRows, MaxRuns \* bounds: rows of the data set, runs of `prepare'

(* load_policy refuses a policy without positive minima. *)
PolicyLoads ==
  MinPeriods \in Nat \ {0} /\ MinPerPeriod \in Nat \ {0} /\ MinTotal \in Nat \ {0}

(* What a registration and a manifest entry are read into, as far as the   *)
(* judgement looks at them; other keys of the files are dropped.           *)
RegistrationFields ==
  {"source_id", "source_type", "url", "permission_status", "evidence", "permitted_use", "parser"}
ManifestFields == {"source_id", "url", "captured", "hash", "size", "parser"}

ASSUME GateAssumption ==
  /\ PolicyLoads
  /\ \A reg \in Registries : \A i \in DOMAIN reg : DOMAIN reg[i] = RegistrationFields
  /\ \A s \in DOMAIN Manifest : DOMAIN Manifest[s] = ManifestFields

(* A row is text that was parsed, or not: one without all the fields of    *)
(* its business print lacks a required field.  A snapshot's file has a     *)
(* digest and a size.                                                      *)
ASSUME RowsAreRead ==
  /\ \A r \in RowChoices :
       /\ r.area \in Int /\ r.amount \in Int
       /\ {r.blank, r.synthetic, r.rights} \subseteq BOOLEAN
       /\ r.print = "incomplete" => r.blank
  /\ \A c \in Contents : c = [hash |-> c.hash, size |-> c.size]

NoDate == 0        \* a text that is no date
Missing == [hash |-> "none", size |-> -1]     \* no file at content_path
NotWritten == [run |-> 0]

VARIABLES
  rows, registry, disk,    \* the data set, the registry, [snapshot_id -> content]
  job,                     \* the `prepare' under way: what it has read, and its next file
  files,                   \* the output directory of `prepare'
  draft                    \* what the last `report' rendered, in its own directory

gateVars == <<rows, registry, disk, job, files, draft>>

Outputs == <<"prepared", "metrics", "report", "summary">>
FactualClasses == {"verified_observation", "scraped_aggregate"}
DataClasses == FactualClasses \cup {"modeled_estimate", "synthetic_fixture"}

(* load_registry refuses the whole file for one bad entry. *)
RegistryLoads(reg) ==
  /\ \A i, j \in DOMAIN reg : reg[i].source_id = reg[j].source_id => i = j
  /\ \A i \in DOMAIN reg :
       /\ reg[i].source_id # ""
       /\ reg[i].source_type \in {"official", "partner", "user_submitted", "synthetic_fixture"}
       /\ reg[i].permission_status \in {"confirmed", "pending", "denied", "not_applicable"}
       /\ reg[i].permitted_use \in {"internal", "public_aggregate", "none"}

SourceOf(r, reg) == {reg[i] : i \in {j \in DOMAIN reg : reg[j].source_id = r.source_id}}

Codes(tests) == {c \in DOMAIN tests : tests[c]}

(* What one row says of itself.  (The warnings of very large values ask    *)
(* for a manual review and decide nothing.)                                *)
ValidateRecord(r) ==
  Codes([schema_missing_field |-> r.blank,
         invalid_record_date |-> r.month = NoDate,
         invalid_source_period |-> r.from = NoDate \/ r.to = NoDate \/ r.to < r.from,
         impossible_value |-> r.area <= 0 \/ r.amount <= 0,
         invalid_market |-> r.market \notin {"sale", "rental"},
         unit_market_mismatch |-> /\ r.market \in {"sale", "rental"}
                                  /\ r.unit # (IF r.market = "sale" THEN "jpy_total" ELSE "jpy_monthly"),
         invalid_data_class |-> r.data_class \notin DataClasses,
         rights_not_confirmed |-> ~r.rights,
         synthetic_flag_mismatch |->
           \/ r.data_class = "synthetic_fixture" /\ ~r.synthetic
           \/ r.data_class \in DataClasses \ {"synthetic_fixture"} /\ r.synthetic])

(* The row's address lies under the address the source is registered with. *)
UrlScopeMatches(u, canonical) == IsPrefix(canonical, u)

\* Mutant: a confirmed permission is taken for a permission to publish.
UnauthorisedUnlessConfirmed(s) == s.permission_status # "confirmed" \/ ~s.evidence

(* A source that may be published from, and somebody who answers for it. *)
Unauthorised(s) ==
  \/ s.permission_status # "confirmed" \/ s.permitted_use = "none" \/ ~s.evidence

SourceErrors(r, reg) ==
  IF SourceOf(r, reg) = {} THEN {"source_missing"}
  ELSE LET s == CHOOSE x \in SourceOf(r, reg) : TRUE
       IN Codes([source_url_mismatch |-> ~UrlScopeMatches(r.url, s.url),
                 fixture_label_missing |-> /\ r.data_class = "synthetic_fixture"
                                           /\ s.source_type # "synthetic_fixture" \/ ~r.synthetic,
                 authorization_missing |-> r.data_class \in FactualClasses /\ Unauthorised(s),
                 parser_version_mismatch |-> s.parser # r.parser,
                 modeled_estimate_blocked |-> r.data_class = "modeled_estimate"])

(* The snapshot the row names, its manifest, and the bytes on this disk. *)
SnapshotErrors(r, bytes) ==
  IF r.snapshot_id \notin DOMAIN Manifest THEN {"snapshot_missing"}
  ELSE LET m == Manifest[r.snapshot_id]
           b == bytes[r.snapshot_id]
       IN Codes([snapshot_source_mismatch |-> m.source_id # r.source_id,
                 snapshot_parser_mismatch |-> m.parser # r.parser,
                 snapshot_captured_at_mismatch |-> m.captured # r.captured,
                 snapshot_url_mismatch |-> m.url # r.url,
                 snapshot_content_missing |-> b = Missing,
                 snapshot_hash_mismatch |-> b # Missing /\ (b.hash # m.hash \/ b.size # m.size),
                 record_snapshot_mismatch |-> b # Missing /\ r.hash # b.hash])

OutsidePeriod(r) ==
  NoDate \notin {r.month, r.from, r.to} /\ ~(r.from <= r.month /\ r.month <= r.to)

\* Mutant: an id may return, as long as the record under it is another one.
RepeatsByPrint(d, i) ==
  Codes([duplicate_business_record |->
           \E j \in 1..(i - 1) : d[j].print = d[i].print /\ d[i].print # "incomplete"])

(* Only the second of two equal rows is in error: the first stays. *)
Repeats(d, i) ==
  Codes([duplicate_record_id |-> \E j \in 1..(i - 1) : d[j].record_id = d[i].record_id,
         duplicate_business_record |->
           \E j \in 1..(i - 1) : d[j].print = d[i].print /\ d[i].print # "incomplete"])

ErrorsOf(d, i, reg, bytes) ==
  ValidateRecord(d[i]) \cup SourceErrors(d[i], reg) \cup SnapshotErrors(d[i], bytes)
    \cup (IF OutsidePeriod(d[i]) THEN {"record_outside_source_period"} ELSE {}) \cup Repeats(d, i)

(* The group of a row: its market and its data class stand for the fields of the policy. *)
GroupKey(r) == <<r.market, r.data_class>>

(* One metric for each group and month that has an error-free row. *)
BuildMonthlyMetrics(d, good) ==
  LET kept == {i \in good : d[i].data_class # "modeled_estimate"}
  IN {[group |-> GroupKey(d[i]), month |-> d[i].month,
       samples |-> {j \in kept : GroupKey(d[j]) = GroupKey(d[i]) /\ d[j].month = d[i].month}] :
        i \in kept}

(* Whether a group's monthly numbers may be shown as a trend. *)
TrendEligibility(metrics, group) ==
  LET mine  == {m \in metrics : m.group = group}
      sizes == {Cardinality(m.samples) : m \in mine}
      total == Cardinality(UNION {m.samples : m \in mine})
  IN CASE Cardinality(mine) < MinPeriods -> "trend_insufficient_periods"
       [] Min(sizes) < MinPerPeriod \/ total < MinTotal -> "trend_insufficient_sample"
       [] OTHER -> "eligible"

\* Mutant: what is no fixture is published as fact.
PublicationScopeByClass(classes, publishable) ==
  CASE "synthetic_fixture" \in classes /\ classes # {"synthetic_fixture"} -> "blocked_mixed_fixture"
    [] classes = {"synthetic_fixture"} -> IF publishable THEN "fixture_only" ELSE "blocked_fixture"
    [] OTHER -> "factual_aggregate"

PublicationScope(classes, publishable) ==
  CASE "synthetic_fixture" \in classes /\ classes # {"synthetic_fixture"} -> "blocked_mixed_fixture"
    [] classes = {"synthetic_fixture"} -> IF publishable THEN "fixture_only" ELSE "blocked_fixture"
    [] OTHER -> IF publishable THEN "factual_aggregate" ELSE "blocked"

(* The judgement.  An empty data set is an error of its own. *)
QualityCheck(d, reg, bytes) ==
  LET good    == {i \in DOMAIN d : ErrorsOf(d, i, reg, bytes) = {}}
      metrics == BuildMonthlyMetrics(d, good)
      classes == {d[i].data_class : i \in DOMAIN d}
      mixed   == "synthetic_fixture" \in classes /\ classes # {"synthetic_fixture"}
      publishable == good = DOMAIN d /\ "modeled_estimate" \notin classes /\ ~mixed
  IN IF d = <<>>
     THEN [publishable |-> FALSE, scope |-> "blocked", metrics |-> {}, trends |-> {}]
     ELSE [publishable |-> publishable,
           scope   |-> PublicationScope(classes, publishable),
           metrics |-> metrics,
           trends  |-> {<<m.group, TrendEligibility(metrics, m.group)>> : m \in metrics}]
-----------------------------------------------------------------------------
GateInit ==
  /\ rows = <<>> /\ registry \in Registries
  /\ disk = [s \in DOMAIN Manifest |-> [hash |-> Manifest[s].hash, size |-> Manifest[s].size]]
  /\ job = [next |-> 0, runs |-> 0]
  /\ files = [f \in {Outputs[i] : i \in 1..4} |-> NotWritten]
  /\ draft = {}

(* A person edits the inputs between the runs. *)
AppendRow(r) ==
  /\ Len(rows) < MaxRows
  /\ rows' = Append(rows, r)
  /\ UNCHANGED <<registry, disk, job, files, draft>>

EditRegistry(reg) ==
  /\ reg # registry
  /\ registry' = reg
  /\ UNCHANGED <<rows, disk, job, files, draft>>

SnapshotChanges(s, c) ==
  /\ c # disk[s]
  /\ disk' = [disk EXCEPT ![s] = c]
  /\ UNCHANGED <<rows, registry, job, files, draft>>

(* `prepare' reads everything before it writes anything: a registry that   *)
(* does not load ends it without an output.                                *)
StartPrepare ==
  /\ job.next = 0 /\ job.runs < MaxRuns
  /\ RegistryLoads(registry)
  /\ job' = [next |-> 1, runs |-> job.runs + 1, of |-> rows, reg |-> registry, bytes |-> disk]
  /\ UNCHANGED <<rows, registry, disk, files, draft>>

\* Mutant: the verdict is kept first, "for audit".
WriteVerdictFirst ==
  /\ job.next > 0
  /\ LET verdict == QualityCheck(job.of, job.reg, job.bytes)
         f == Outputs[IF job.next < 3 THEN job.next + 2 ELSE job.next - 2]
     IN files' = [files EXCEPT ![f] =
          [run |-> job.runs, of |-> job.of, reg |-> job.reg, bytes |-> job.bytes, verdict |-> verdict]]
  /\ job' = IF job.next < 4 THEN [job EXCEPT !.next = @ + 1]
            ELSE [next |-> 0, runs |-> job.runs]
  /\ UNCHANGED <<rows, registry, disk, draft>>

(* One output file; the last one ends the command with its exit code. *)
WriteOutput ==
  /\ job.next > 0
  /\ LET verdict == QualityCheck(job.of, job.reg, job.bytes)
         f == Outputs[job.next]
     IN files' = [files EXCEPT ![f] =
          [run |-> job.runs, of |-> job.of, reg |-> job.reg, bytes |-> job.bytes, verdict |-> verdict]]
  /\ job' = IF job.next < 4 THEN [job EXCEPT !.next = @ + 1]
            ELSE [next |-> 0, runs |-> job.runs]
  /\ UNCHANGED <<rows, registry, disk, draft>>

PrepareDies ==
  /\ job.next > 0
  /\ job' = [next |-> 0, runs |-> job.runs]
  /\ UNCHANGED <<rows, registry, disk, files, draft>>

(* `report': its own row check, then a draft of the whole file.  A row     *)
(* that does not pass, an empty file or an estimate ends it; an area of    *)
(* zero ends it in the division.  Its files (cli.py:108-123) go to a       *)
(* directory of its own: into that of `prepare' it would write a           *)
(* monthly_metrics.csv and a summary.json that no gate has judged.         *)
ReadRecords(d) ==
  \A i \in DOMAIN d :
    /\ d[i].month # NoDate /\ d[i].rights
    /\ d[i].market \in {"sale", "rental"} /\ d[i].data_class \in DataClasses

\* Mutant: the draft trusts its own row check alone.
MakeReportOfAll ==
  /\ rows # <<>> /\ ReadRecords(rows)
  /\ \A i \in DOMAIN rows : rows[i].area # 0
  /\ draft' = {[month |-> rows[i].month, group |-> GroupKey(rows[i]),
                samples |-> {j \in DOMAIN rows : /\ GroupKey(rows[j]) = GroupKey(rows[i])
                                                 /\ rows[j].month = rows[i].month}] :
                 i \in DOMAIN rows}
  /\ UNCHANGED <<rows, registry, disk, job, files>>

MakeReport ==
  /\ rows # <<>> /\ ReadRecords(rows)
  /\ \A i \in DOMAIN rows : rows[i].area # 0 /\ rows[i].data_class # "modeled_estimate"
  /\ draft' = {[month |-> rows[i].month, group |-> GroupKey(rows[i]),
                samples |-> {j \in DOMAIN rows : /\ GroupKey(rows[j]) = GroupKey(rows[i])
                                                 /\ rows[j].month = rows[i].month}] :
                 i \in DOMAIN rows}
  /\ UNCHANGED <<rows, registry, disk, job, files>>

GateNext ==
  \/ \E r \in RowChoices : AppendRow(r)
  \/ \E reg \in Registries : EditRegistry(reg)
  \/ \E s \in DOMAIN Manifest, c \in Contents \cup {Missing} : SnapshotChanges(s, c)
  \/ StartPrepare \/ WriteOutput \/ PrepareDies \/ MakeReport

\* Nobody is forced to run the publisher: no fairness.
GateSpec == GateInit /\ [][GateNext]_gateVars
-----------------------------------------------------------------------------
(* What a reader of the published metrics relies on: a row that is a       *)
(* genuine observation, taken from a source that allows its publication    *)
(* and has an owner, and from bytes that were there and are the ones the   *)
(* row and the manifest name.                                              *)
Evidenced(r, f) ==
  /\ r.data_class \in FactualClasses /\ ~r.synthetic /\ r.rights
  /\ r.area > 0 /\ r.amount > 0 /\ r.unit = (IF r.market = "sale" THEN "jpy_total" ELSE "jpy_monthly")
  /\ \E i \in DOMAIN f.reg :
       /\ f.reg[i].source_id = r.source_id
       /\ f.reg[i].permission_status = "confirmed" /\ f.reg[i].evidence
       /\ f.reg[i].permitted_use # "none"
  /\ r.snapshot_id \in DOMAIN f.bytes
  /\ f.bytes[r.snapshot_id] = [hash |-> r.hash, size |-> Manifest[r.snapshot_id].size]

Written(name) == files[name].run > 0

(* pipeline.py:505 - a report that lets a data set pass as a factual       *)
(* aggregate has evidence for each of its rows, knows no row twice, and    *)
(* every row is counted by exactly one metric.                             *)
PublishedIsEvidenced ==
  Written("report") /\ files["report"].verdict.scope = "factual_aggregate" =>
    LET f == files["report"] d == f.of IN
    /\ d # <<>>
    /\ \A i \in DOMAIN d : Evidenced(d[i], f)
    /\ \A i, j \in DOMAIN d : i # j => d[i].record_id # d[j].record_id /\ d[i].print # d[j].print
    /\ \A i \in DOMAIN d : Cardinality({m \in f.verdict.metrics : i \in m.samples}) = 1

(* The draft of `report' (cli.py:87) is written without the gate, and      *)
(* still renders no estimate and no row whose rights nobody confirmed.     *)
DraftIsClaimed ==
  \A m \in draft : m.group[2] # "modeled_estimate" /\ \A i \in m.samples : rows[i].rights

(* pipeline.py:449, 636 - also in a blocked data set the metrics count a   *)
(* business record once and no estimate, and a metric marked as a trend    *)
(* belongs to a group with enough months, each with enough samples.        *)
(* The drafts are as clean.                                                *)
MetricsAreClean ==
  /\ DraftIsClaimed
  /\ Written("metrics") =>
    LET f == files["metrics"] d == f.of ms == f.verdict.metrics IN
    /\ \A m1, m2 \in ms : \A i \in m1.samples, j \in m2.samples :
         i # j => d[i].record_id # d[j].record_id
    /\ \A m \in ms : \A i \in m.samples :
         d[i].data_class = "synthetic_fixture" \/ Evidenced(d[i], f)
    /\ \A t \in f.verdict.trends : t[2] = "eligible" =>
         LET mine == {m \in ms : m.group = t[1]} IN
         /\ Cardinality({m.month : m \in mine}) >= MinPeriods
         /\ \A m \in mine : Cardinality(m.samples) >= MinPerPeriod
         /\ Cardinality(UNION {m.samples : m \in mine}) >= MinTotal

(* cli.py:203-210 - whoever finds a summary finds beside it, of that run   *)
(* or of a later one that died, the report, the metrics and the rows: a    *)
(* run never replaces a verdict before the numbers the verdict is about.   *)
VerdictAfterNumbers ==
  \A i \in 1..3 : files[Outputs[i]].run >= files[Outputs[i + 1]].run

(* What the publisher leaves on the disk, whichever run died and as long   *)
(* as `prepare' and `report' have a directory each, is sound: a set that   *)
(* passes as factual is evidenced, the metrics and drafts are clean, and   *)
(* no verdict stands beside the numbers of another run.                    *)
PublicationIsSound == PublishedIsEvidenced /\ MetricsAreClean /\ VerdictAfterNumbers
=============================================================================
