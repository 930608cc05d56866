-------------------------- MODULE CollectionRunners --------------------------
(***************************************************************************)
(* What a run of a source reads, collects and leaves on disk               *)
(* (backend/app/collection/jphouse_runners.py, worker.resolve_runner), and *)
(* how the sweeper judges a snapshot file afterwards.                      *)
(*                                                                         *)
(* A source key is a record: the registered prefix it starts with, whether *)
(* that prefix is all of the text before its slash, and the stem after it. *)
(* A fingerprint is the value it is computed from, so that two are equal   *)
(* exactly when their values are.                                          *)
(***************************************************************************)
EXTENDS Integers, Sequences, FiniteSets, SequencesExt

CONSTANT Families    \* the prefixes of the families of ward configurations

LAYOUTS == {"1LDK", "2LDK", "3LDK"}

RUNNER_REGISTRY == Families \union {"fixture"}

\* No registered prefix begins another one, so the longest is the only one.
resolve_runner(key) ==
    IF key.starts \in RUNNER_REGISTRY THEN key.starts ELSE "no_runner"

\* A family's key is "<prefix>/<config-stem>".
WellFormed(key) == key.starts \in Families /\ key.exact /\ key.stem # "malformed"

\* The sources the scheduler finds: the configurations in a family's directory.
Schedulable(key, families) == WellFormed(key) /\ key.starts \in families

(***************************************************************************)
(* Collecting.                                                             *)
(***************************************************************************)
\* The numbers of a collected record; a layout without one has no row.
Rows(record) ==
    {[metric |-> "rent", layout |-> l, value |-> record.rents[l]] : l \in DOMAIN record.rents}
    \union
    {[metric |-> "sale_price", layout |-> l, value |-> record.prices[l]] : l \in DOMAIN record.prices}

\* The record of a source is the first that names its key or its configuration.
Records(key, entries) == SelectSeq(entries, LAMBDA e : e.stem = key.stem)

\* The first check that fails names the error of the run.
Failure(key, input) ==
    CASE resolve_runner(key) = "no_runner"                 -> "no_runner"
      [] key.starts \in Families /\ ~WellFormed(key)       -> "bad_source_key"
      [] key.starts = "fixture"                            -> "none"
      [] input.config = "missing"                          -> "config_missing"
      [] input.config = "invalid"                          -> "config_invalid"
      [] input.aggregate = "missing"                       -> "aggregate_missing"
      [] input.aggregate = "invalid"                       -> "aggregate_invalid"
      [] Records(key, input.entries) = << >>               -> "aggregate_entry_missing"
      [] OTHER                                             -> "none"

\* The payload.  Left out: what it copies from the config (slug, publish_month,
\* source_urls) and from the aggregate's entry (sale_updated and the like); they
\* can only make two contents differ, which here the rows do.
Snapshot(key, input, at) ==
    LET rows == Rows(Head(Records(key, input.entries)))
    IN  [source_key |-> key, rows |-> rows, rows_collected |-> Cardinality(rows),
         collected_at |-> at]

\* Mutant: the time of the run is part of the fingerprint.
FingerprintWithTime(snapshot) == snapshot

\* The same content has the same fingerprint, whenever it was collected.
Fingerprint(snapshot) == [snapshot EXCEPT !.collected_at = 0]

\* The fixture's rows and hash follow from its key; it leaves no file.
FixtureFingerprint(key) ==
    [source_key |-> key, rows |-> {}, rows_collected |-> 1, collected_at |-> 0]

(***************************************************************************)
(* The sweeper's check of a file against what its run has recorded.        *)
(***************************************************************************)
\* Only the families' snapshots are files.
HasFile(key) == WellFormed(key)

verify_snapshot_file(present, snapshot, hash, rows) ==
    IF ~present THEN "file_missing"
    ELSE IF Fingerprint(snapshot) # hash THEN "hash_mismatch"
    ELSE IF snapshot.rows_collected # rows THEN "rows_mismatch"
    ELSE "hash_ok"
=============================================================================
