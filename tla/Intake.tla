-------------------------------- MODULE Intake --------------------------------
(***************************************************************************)
(* Property intake (backend/app/intake, routes/intake.py): a session that  *)
(* lives for a day collects inputs, private files, a location and confirmed*)
(* fields, is previewed, and may be converted into a property of its       *)
(* owner.  Requests run side by side; each transaction is one step, except *)
(* the conversion, which holds the session's row from its checks to its    *)
(* insert.  A cleanup pass expires sessions and then deletes their files.  *)
(***************************************************************************)
EXTENDS FreePreview

CONSTANTS Sessions,      \* 1..n in the order they are created, and so expire
          Users,
          Requests,      \* requests open at the same time
          Cleaners,      \* cleanup passes open at the same time
          Batch,         \* sessions a pass takes (100 in the code)
          MaxFiles,      \* bound: uploads
          Locations,     \* what the geocoder may make of a position
          Answers,       \* what a user may confirm: [field, value, status]
          ManualNames,   \* project names a user may give: [text, norm]
          Places         \* parameters of a conversion: [prefecture, city, ward, asset]

ASSUME IntakeAssumption ==
    /\ IsFiniteSet(Sessions) /\ Sessions = 1..Cardinality(Sessions)
    /\ Batch \in Nat \ {0}
    /\ MaxFiles \in Nat

VARIABLES
    session,     \* analysis_sessions: [status, owner, location, locker]
    clock,       \* the sessions 1..clock are past their expires_at
    inputs,      \* project_inputs: the files a session has recorded
    fields,      \* project_fields
    preview,     \* free_previews
    charged,     \* usage of free_preview: <<session, user>> fingerprints
    properties,  \* properties: [owner, name, norm, location, session]
    reports,     \* snapshots the converted sessions' reports were built from
    storage,     \* the private bucket
    uploads,     \* files uploaded so far: the names are fresh
    lost,        \* files whose path no row and no request knows
    req,         \* the open requests: [at, op, session, user, file, data]
    due,         \* cleanup passes that are scheduled
    cleaner      \* files each pass still has to delete; Resting outside a pass

sessionVars == <<session, clock, fields, preview, charged, properties, reports>>
fileVars    == <<inputs, storage, uploads, lost>>
vars        == <<sessionVars, fileVars, req, due, cleaner>>

NoUser     == "no user"
Nobody     == "no request"
NoRow      == [status |-> "none", owner |-> NoUser, location |-> "none", locker |-> Nobody]
NoPreview  == [comparable |-> [status |-> "none"]]
NoName     == [text |-> "", norm |-> ""]
Idle       == [at |-> "idle", op |-> "none", session |-> 0, user |-> NoUser, file |-> 0, data |-> NoName]
Resting    == {}

\* A lock is a request's.
ASSUME RequestsAreNamed == Nobody \notin Requests

Init ==
    /\ session = [s \in Sessions |-> NoRow]
    /\ clock = 0
    /\ inputs = [s \in Sessions |-> {}]
    /\ fields = [s \in Sessions |-> << >>]
    /\ preview = [s \in Sessions |-> NoPreview]
    /\ charged = {}
    /\ properties = {}
    /\ reports = {}
    /\ storage = {}
    /\ uploads = 0
    /\ lost = {}
    /\ req = [r \in Requests |-> Idle]
    /\ due = 1
    /\ cleaner = [c \in Cleaners |-> Resting]

Exists(s)    == session[s].status \notin {"none", "erased"}
Converted(s) == session[s].status = "converted"
Overdue(s)   == s <= clock
Unlocked(s)  == session[s].locker = Nobody
Of(r)        == req[r].session
At(r, at)    == req[r].at = at
To(r, at)    == req' = [req EXCEPT ![r].at = at]
Answer(r)    == req' = [req EXCEPT ![r] = Idle]
Put(s, column, value) == [session EXCEPT ![s] = [@ EXCEPT ![column] = value]]

\* require_session: the token is right; wrong ones are as good as no request.
Live(s) == Exists(s) /\ (Converted(s) \/ ~Overdue(s))

(***************************************************************************)
(* Sessions and what they collect                                          *)
(***************************************************************************)
\* The day of the oldest session that has any left runs out.
PassDay ==
    /\ clock + 1 \in Sessions /\ Exists(clock + 1)
    /\ clock' = clock + 1
    /\ UNCHANGED <<session, fields, preview, charged, properties, reports, fileVars, req, due, cleaner>>

\* A cleanup pass follows as a background task of the request.
CreateSession ==
    /\ \E s \in Sessions, u \in Users :
          /\ \A t \in Sessions : session[t].status = "none" <=> t >= s
          /\ session' = [session EXCEPT ![s] = [NoRow EXCEPT !.status = "draft", !.owner = u]]
    /\ due' = due + 1
    /\ UNCHANGED <<clock, fields, preview, charged, properties, reports, fileVars, req, cleaner>>

\* _require_editable_session, before whatever the request does.
Arrive(r) ==
    /\ At(r, "idle")
    /\ \E op \in {"file", "field", "location", "preview"}, s \in Sessions, u \in Users :
          /\ Live(s) /\ ~Converted(s)
          /\ req' = [req EXCEPT ![r] = [Idle EXCEPT !.at = "checked", !.op = op, !.session = s, !.user = u]]
    /\ UNCHANGED <<sessionVars, fileVars, due, cleaner>>

\* 4xx: the hourly counter, which all clients behind one address share, the
\* quota, the validation of a payload or an upload; 503: storage or database.
Refuse(r) ==
    /\ req[r].at \in {"checked", "charged", "read"}
    /\ Answer(r)
    /\ UNCHANGED <<sessionVars, fileVars, due, cleaner>>

\* add_file, once the file has passed validate_upload.
Upload(r) ==
    /\ At(r, "checked") /\ req[r].op = "file" /\ uploads < MaxFiles
    /\ uploads' = uploads + 1
    /\ storage' = storage \union {uploads + 1}
    /\ req' = [req EXCEPT ![r].at = "uploaded", ![r].file = uploads + 1]
    /\ UNCHANGED <<sessionVars, inputs, lost, due, cleaner>>

\* add_file_input: whatever has become of the session, as long as it exists.
RecordFile(r) ==
    /\ At(r, "uploaded") /\ Exists(Of(r)) /\ Unlocked(Of(r))
    /\ inputs' = [inputs EXCEPT ![Of(r)] = @ \union {req[r].file}]
    /\ Answer(r)
    /\ UNCHANGED <<sessionVars, storage, uploads, lost, due, cleaner>>

\* Mutant: the upload is left behind.
RecordFailsAndLeaves(r) ==
    /\ At(r, "uploaded")
    /\ Answer(r)
    /\ UNCHANGED <<sessionVars, inputs, storage, uploads, lost, due, cleaner>>

\* The insert fails (the session may be erased): the file is deleted again,
\* unless storage is unavailable as well.
RecordFails(r) ==
    /\ At(r, "uploaded")
    /\ \/ storage' = storage \ {req[r].file} /\ UNCHANGED lost
       \/ lost' = lost \union {req[r].file} /\ UNCHANGED storage
    /\ Answer(r)
    /\ UNCHANGED <<sessionVars, inputs, uploads, due, cleaner>>

\* Mutant: the update has no condition on the status.
SaveLocationAlways(r) ==
    /\ At(r, "checked") /\ req[r].op = "location" /\ Unlocked(Of(r))
    /\ \E l \in Locations : session' = Put(Of(r), "location", l)
    /\ Answer(r)
    /\ UNCHANGED <<clock, fields, preview, charged, properties, reports, fileVars, due, cleaner>>

\* save_location, after the geocoder has answered or failed.
SaveLocation(r) ==
    /\ At(r, "checked") /\ req[r].op = "location" /\ Unlocked(Of(r))
    /\ IF Exists(Of(r)) /\ ~Converted(Of(r))
       THEN \E l \in Locations : session' = Put(Of(r), "location", l)
       ELSE UNCHANGED session
    /\ Answer(r)
    /\ UNCHANGED <<clock, fields, preview, charged, properties, reports, fileVars, due, cleaner>>

\* confirm_field: evidence and field in one transaction, whatever the status.
\* All evidence is manual, and so unreviewed.
ConfirmField(r) ==
    /\ At(r, "checked") /\ req[r].op = "field" /\ Unlocked(Of(r)) /\ Exists(Of(r))
    /\ \E a \in Answers :
          fields' = [fields EXCEPT ![Of(r)] =
              [f \in DOMAIN @ \union {a.field} |->
                  IF f = a.field THEN [value |-> a.value, status |-> a.status, confidence |-> "unreviewed"]
                  ELSE @[f]]]
    /\ Answer(r)
    /\ UNCHANGED <<session, clock, preview, charged, properties, reports, fileVars, due, cleaner>>

(***************************************************************************)
(* Preview                                                                 *)
(***************************************************************************)
\* consume_preview: a fingerprint is charged once (UsageQuota).
ChargePreview(r) ==
    /\ At(r, "checked") /\ req[r].op = "preview"
    /\ charged' = charged \union {<<Of(r), req[r].user>>}
    /\ To(r, "charged")
    /\ UNCHANGED <<session, clock, fields, preview, properties, reports, fileVars, due, cleaner>>

GetFields(r) ==
    /\ At(r, "charged")
    /\ req' = [req EXCEPT ![r].at = "read", ![r].data = BuildFreePreview(fields[Of(r)])]
    /\ UNCHANGED <<sessionVars, fileVars, due, cleaner>>

SavePreview(r) ==
    /\ At(r, "read") /\ Exists(Of(r)) /\ Unlocked(Of(r))
    /\ preview' = [preview EXCEPT ![Of(r)] = req[r].data]
    /\ session' = IF Converted(Of(r)) THEN session ELSE Put(Of(r), "status", "preview_ready")
    /\ Answer(r)
    /\ UNCHANGED <<clock, fields, charged, properties, reports, fileVars, due, cleaner>>

(***************************************************************************)
(* Conversion                                                              *)
(***************************************************************************)
Owned(u) == {p \in properties : p.owner = u}

\* Mutant: the session is locked by its token alone.
ConvertibleAnyTime(s, u) == session[s].owner = u /\ session[s].status \in {"preview_ready", "expired"}

Convertible(s, u) == Live(s) /\ session[s].owner = u /\ session[s].status = "preview_ready"

\* The first half of convert_to_user: the row is locked and the names checked.
CheckConversion(r) ==
    /\ At(r, "idle")
    /\ \E s \in Sessions, u \in Users, manual \in ManualNames \union {NoName} :
          LET address == IF Given(fields[s], "address") THEN fields[s]["address"].value ELSE NoName
              final   == IF manual # NoName THEN manual ELSE address
              default == manual = NoName \/ manual.norm = address.norm
          IN /\ Unlocked(s) /\ Convertible(s, u)
             /\ final # NoName
             /\ \A p \in Owned(u) : /\ p.name # final.text
                                    /\ default /\ address # NoName => p.norm # address.norm
             /\ session' = Put(s, "locker", r)
             /\ req' = [req EXCEPT ![r] = [at |-> "named", op |-> "convert", session |-> s, user |-> u, file |-> 0,
                                           data |-> [text |-> final.text, norm |-> address.norm]]]
    /\ UNCHANGED <<clock, fields, preview, charged, properties, reports, fileVars, due, cleaner>>

\* Mutant: nothing keeps a name unique.
NameFreeAlways(r) == TRUE

\* idx_properties_owner_project_name
NameFree(r) == \A p \in Owned(req[r].user) : p.name # req[r].data.text

\* Its second half: the insert, which the unique index may refuse, and the commit.
InsertProperty(r) ==
    LET s == Of(r) IN
    /\ At(r, "named") /\ NameFree(r)
    /\ properties' = properties \union {[owner |-> req[r].user, name |-> req[r].data.text,
                                         norm |-> req[r].data.norm, location |-> session[s].location,
                                         session |-> s]}
    /\ session' = [session EXCEPT ![s].status = "converted", ![s].locker = Nobody]
    /\ To(r, "converted")
    /\ UNCHANGED <<clock, fields, preview, charged, reports, fileVars, due, cleaner>>

\* 409 project_name_taken, or the database fails: the transaction is undone.
RollBack(r) ==
    /\ At(r, "named")
    /\ session' = Put(Of(r), "locker", Nobody)
    /\ Answer(r)
    /\ UNCHANGED <<clock, fields, preview, charged, properties, reports, fileVars, due, cleaner>>

\* A repeated conversion finds the property there and goes on.
ConvertAgain(r) ==
    /\ At(r, "idle")
    /\ \E s \in Sessions, u \in Users :
          /\ Converted(s) /\ session[s].owner = u
          /\ req' = [req EXCEPT ![r] = [Idle EXCEPT !.at = "converted", !.op = "convert", !.session = s, !.user = u]]
    /\ UNCHANGED <<sessionVars, fileVars, due, cleaner>>

\* The report pipeline (ReportPipeline) for the place that was asked for, or
\* 429: the property stays and the client may convert again.
StartReport(r) ==
    /\ At(r, "converted")
    /\ \/ UNCHANGED reports
       \/ \E p \in Places :
             reports' = reports \union {[place |-> p, row |-> MatchSnapshot(p.prefecture, p.ward, p.asset, p.city)]}
    /\ Answer(r)
    /\ UNCHANGED <<session, clock, fields, preview, charged, properties, fileVars, due, cleaner>>

(***************************************************************************)
(* Cleanup, erasure and restart                                            *)
(***************************************************************************)
\* Mutant: converted sessions expire as well.
ExpirableWhateverStatus(s) == Exists(s) /\ Overdue(s) /\ Unlocked(s)

\* for update skip locked: what has expired before is selected again.
Expirable(s) == Exists(s) /\ ~Converted(s) /\ Overdue(s) /\ Unlocked(s)

\* expire_sessions: the oldest rows, at most a batch of them; the paths come in
\* no order.
ExpireSessions(c) ==
    LET rows  == {s \in Sessions : Expirable(s)}
        taken == {s \in rows : Cardinality({t \in rows : t < s}) < Batch}
        files == UNION {inputs[s] : s \in taken}
    IN /\ cleaner[c] = Resting /\ due > 0
       /\ due' = due - 1
       /\ session' = [s \in Sessions |-> IF s \in taken THEN [session[s] EXCEPT !.status = "expired"]
                                         ELSE session[s]]
       /\ cleaner' = [cleaner EXCEPT ![c] = files]
       /\ UNCHANGED <<clock, fields, preview, charged, properties, reports, fileVars, req>>

NextFile(c, f) == f \in cleaner[c] /\ cleaner' = [cleaner EXCEPT ![c] = @ \ {f}]

DeleteFile(c) ==
    /\ \E f \in cleaner[c] : NextFile(c, f) /\ storage' = storage \ {f}
    /\ UNCHANGED <<sessionVars, inputs, uploads, lost, req, due>>

\* StorageUnavailable: the pass goes on with the next file.
SkipFile(c) ==
    /\ \E f \in cleaner[c] : NextFile(c, f)
    /\ UNCHANGED <<sessionVars, fileVars, req, due>>

\* _anonymize_database deletes the user's sessions; inputs, fields and
\* previews go with them, and nobody reads the paths first.
EraseSessions(u) ==
    LET mine == {s \in Sessions : Exists(s) /\ session[s].owner = u}
    IN /\ mine # {} /\ \A s \in mine : Unlocked(s)
       /\ session' = [s \in Sessions |-> IF s \in mine THEN [NoRow EXCEPT !.status = "erased"] ELSE session[s]]
       /\ lost' = lost \union UNION {inputs[s] \intersect storage : s \in mine}
       /\ inputs' = [s \in Sessions |-> IF s \in mine THEN {} ELSE inputs[s]]
       /\ fields' = [s \in Sessions |-> IF s \in mine THEN << >> ELSE fields[s]]
       /\ preview' = [s \in Sessions |-> IF s \in mine THEN NoPreview ELSE preview[s]]
       /\ UNCHANGED <<clock, charged, properties, reports, storage, uploads, req, due, cleaner>>

\* The process dies with its requests, transactions and passes; the next one
\* cleans up when it starts.
Restart ==
    /\ lost' = lost \union {req[r].file : r \in {r \in Requests : At(r, "uploaded")}}
    /\ req' = [r \in Requests |-> Idle]
    /\ session' = [s \in Sessions |-> [session[s] EXCEPT !.locker = Nobody]]
    /\ cleaner' = [c \in Cleaners |-> Resting]
    /\ due' = 1
    /\ UNCHANGED <<clock, fields, preview, charged, properties, reports, inputs, storage, uploads>>

Serve(r) ==
    \/ Arrive(r) \/ Refuse(r)
    \/ Upload(r) \/ RecordFile(r) \/ RecordFails(r)
    \/ SaveLocation(r) \/ ConfirmField(r)
    \/ ChargePreview(r) \/ GetFields(r) \/ SavePreview(r)
    \/ CheckConversion(r) \/ InsertProperty(r) \/ RollBack(r) \/ ConvertAgain(r) \/ StartReport(r)

Sweep(c) == ExpireSessions(c) \/ DeleteFile(c) \/ SkipFile(c)

Next ==
    \/ PassDay \/ CreateSession \/ Restart
    \/ \E r \in Requests : Serve(r)
    \/ \E c \in Cleaners : Sweep(c)
    \/ \E u \in Users : EraseSessions(u)

Spec == Init /\ [][Next]_vars

(***************************************************************************)
(* Properties.                                                             *)
(***************************************************************************)
\* A converted session has one property under a name of its own among its
\* owner's; the property stands where the session does, the session has been
\* previewed at somebody's charge, and its files are kept, whatever cleanup
\* passes, late requests and second conversions do.
ConvertedProjectsAreWhole ==
    /\ \A p, q \in properties :
          p.session = q.session \/ (p.owner = q.owner /\ p.name = q.name) => p = q
    /\ \A p \in properties :
          Exists(p.session) => Converted(p.session) /\ p.location = session[p.session].location
    /\ \A s \in Sessions :
          Converted(s) => /\ \E u \in Users : <<s, u>> \in charged
                          /\ \E p \in properties : p.session = s /\ p.owner = session[s].owner
                          /\ inputs[s] \subseteq storage

\* Every file in the bucket is recorded by a session or in the hands of a
\* request, unless a process died or storage failed on its way, or the account
\* of its session was erased.
FilesAreKnown ==
    \A f \in storage \ lost :
        \/ \E s \in Sessions : f \in inputs[s]
        \/ \E r \in Requests : At(r, "uploaded") /\ req[r].file = f

\* The broker's fee as the law states it: 5% up to two million, 4% of what is
\* above that up to four million, 3% of the rest.
LegalFee(price) ==
    LET slice(low, high) == IF price <= low THEN 0 ELSE IF price < high THEN price - low ELSE high - low
    IN (50 + 5 * slice(0, 2000000) + 4 * slice(2000000, 4000000) + 3 * slice(4000000, 2000000000)) \div 100

\* Snapshots of one prefecture.
OfPrefecture(text) == {n \in DOMAIN Snapshots : Snapshots[n].prefecture = text.prefecture}

\* market_engine.py:186 - the comparable of an address shows the figures of one
\* snapshot of its prefecture: that of the ward it is in, or else one that is
\* listed earlier and whose name is part of that ward's.  An address whose ward
\* is covered is never without one.
ComparableFits(text, comparable) ==
    LET own == {n \in OfPrefecture(text) : Snapshots[n].ward = text.ward} IN
    /\ comparable.status = "sufficient" =>
          \E n \in OfPrefecture(text) :
              /\ Snapshots[n].ward = comparable.ward
              /\ {x.yen : x \in comparable.rows} = {Snapshots[n].sale[l] : l \in DOMAIN Snapshots[n].sale}
              /\ n \notin own => <<comparable.ward, text.ward>> \in PartOf /\ \A m \in own : n < m
    /\ comparable.status = "insufficient" => own = {}

\* cost_estimator.py, completeness.py, market_engine.py - the costs are those of
\* the law, a complete dimension carries no warning, a comparable is of the ward
\* of the address (or of one whose name that ward's contains, where
\* completeness.py:166 says `Never approximates across wards'), and a report is
\* built from the one snapshot its place stands for.
PreviewsAreSound ==
    /\ \A s \in Sessions :
          LET p == BuildFreePreview(fields[s]) IN
          /\ p.costs.status = "partial" =>
                p.costs.broker = LegalFee(AskingPrice(fields[s])) /\ p.costs.total >= p.costs.broker
          /\ \A d \in DOMAIN Dimensions :
                p.completeness[d].status = "complete" =>
                    p.completeness[d].percent = 100 /\ \A w \in p.risk : w.dimension # d
          /\ Given(fields[s], "address") => ComparableFits(fields[s]["address"].value, p.comparable)
    /\ \A x \in reports :
          x.row # NoSnapshot =>
              /\ x.row.prefecture = x.place.prefecture
              /\ x.row.ward \in {x.place.ward, x.place.city} \ {""}
=============================================================================
