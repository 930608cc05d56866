----------------------------- MODULE IntakeProofs -----------------------------
(***************************************************************************)
(* Intake, for any number of sessions, requests, cleanup passes, files and *)
(* restarts: a converted session keeps its files and its one property, and *)
(* every file in the bucket is known.                                      *)
(***************************************************************************)
EXTENDS Intake, FiniteSetTheorems, TLAPS

(***************************************************************************)
(* The types, and the inductive invariant.                                 *)
(***************************************************************************)
Statuses  == {"none", "draft", "preview_ready", "converted", "expired", "erased"}
RowSet    == [status : Statuses, owner : Users \union {NoUser}, location : Locations \union {"none"},
              locker : Requests \union {Nobody}]
Positions == {"idle", "checked", "uploaded", "charged", "read", "named", "converted"}

RequestShaped(q) ==
    /\ q = [at |-> q.at, op |-> q.op, session |-> q.session, user |-> q.user, file |-> q.file, data |-> q.data]
    /\ q.at \in Positions
    /\ q.file \in Nat
    /\ q.at # "idle" => q.session \in Sessions /\ q.user \in Users

IntakeTyped ==
    /\ session \in [Sessions -> RowSet]
    /\ clock \in Nat
    /\ inputs \in [Sessions -> SUBSET Nat]
    /\ uploads \in Nat
    /\ cleaner \in [Cleaners -> SUBSET Nat]
    /\ req = [r \in Requests |-> req[r]]
    /\ \A r \in Requests : RequestShaped(req[r])
    /\ \A p \in properties : p.session \in Sessions

\* Files are numbered as they are uploaded.
FilesNumbered ==
    /\ \A s \in Sessions : \A f \in inputs[s] : f <= uploads
    /\ \A r \in Requests : req[r].at = "uploaded" => req[r].file <= uploads
    /\ \A c \in Cleaners : \A f \in cleaner[c] : f <= uploads

\* A file is recorded by one session or in the hands of one request, whose file
\* no pass deletes.
FilesHeldOnce ==
    /\ \A s, t \in Sessions : s # t => inputs[s] \intersect inputs[t] = {}
    /\ \A q, r \in Requests : req[q].at = "uploaded" /\ req[r].at = "uploaded" /\ req[q].file = req[r].file => q = r
    /\ \A r \in Requests : req[r].at = "uploaded" =>
          /\ \A s \in Sessions : req[r].file \notin inputs[s]
          /\ \A c \in Cleaners : req[r].file \notin cleaner[c]
          /\ req[r].file \in storage

\* No pass has taken, or will take, the files of a session that has time left,
\* is being converted, or has been.
Kept(s) == ~Overdue(s) \/ Converted(s) \/ ~Unlocked(s)

KeptAreStored ==
    \A s \in Sessions : Kept(s) =>
        /\ inputs[s] \subseteq storage
        /\ \A c \in Cleaners : inputs[s] \intersect cleaner[c] = {}

FilesInv == FilesNumbered /\ FilesHeldOnce /\ KeptAreStored /\ FilesAreKnown

\* A lock and its conversion go together, and nothing changes a locked session.
LocksHold ==
    /\ \A s \in Sessions : ~Unlocked(s) => At(session[s].locker, "named") /\ Of(session[s].locker) = s
    /\ \A r \in Requests : At(r, "named") =>
          /\ session[Of(r)].locker = r
          /\ session[Of(r)].status = "preview_ready"
          /\ session[Of(r)].owner = req[r].user

ChargedFor(s) == \E u \in Users : <<s, u>> \in charged

PreviewsCharged ==
    /\ \A s \in Sessions : session[s].status \in {"preview_ready", "converted"} => ChargedFor(s)
    /\ \A r \in Requests : req[r].at \in {"charged", "read"} => ChargedFor(Of(r))

PropertiesHold ==
    /\ \A p, q \in properties :
          p.session = q.session \/ (p.owner = q.owner /\ p.name = q.name) => p = q
    /\ \A p \in properties :
          /\ session[p.session].status \in {"converted", "erased"}
          /\ Converted(p.session) => p.location = session[p.session].location
    /\ \A s \in Sessions : Converted(s) =>
          \E p \in properties : p.session = s /\ p.owner = session[s].owner

SessionsInv == LocksHold /\ PreviewsCharged /\ PropertiesHold

IntakeInv == IntakeTyped /\ FilesInv /\ SessionsInv

-----------------------------------------------------------------------------
\* There are sessions 1 to n.
LEMMA SessionsAreNumbers == Sessions \subseteq Nat
<1>1. Cardinality(Sessions) \in Nat
  BY IntakeAssumption, FS_CardinalityType
<1> QED BY <1>1, IntakeAssumption

\* Nothing has happened yet.
LEMMA IntakeStarts == Init => IntakeInv
<1> SUFFICES ASSUME Init PROVE IntakeInv
  OBVIOUS
<1>1. /\ session = [s \in Sessions |-> NoRow] /\ clock = 0 /\ inputs = [s \in Sessions |-> {}]
      /\ uploads = 0 /\ cleaner = [c \in Cleaners |-> {}] /\ req = [r \in Requests |-> Idle]
      /\ properties = {} /\ storage = {}
  BY DEF Init, Resting
<1>2. NoRow \in RowSet /\ NoRow.status = "none" /\ NoRow.locker = Nobody
  BY DEF NoRow, RowSet, Statuses
<1>3. RequestShaped(Idle) /\ Idle.at = "idle"
  BY DEF RequestShaped, Idle, Positions
<1>4. IntakeTyped
  BY <1>1, <1>2, <1>3 DEF IntakeTyped
<1>5. FilesInv
  BY <1>1, <1>3 DEF FilesInv, FilesNumbered, FilesHeldOnce, KeptAreStored, FilesAreKnown
<1>6. SessionsInv
  BY <1>1, <1>2, <1>3 DEF SessionsInv, LocksHold, PreviewsCharged, PropertiesHold, Unlocked, Converted, At
<1> QED BY <1>4, <1>5, <1>6 DEF IntakeInv

-----------------------------------------------------------------------------
\* One request goes on and the others stay where they are.
Goes(r, q) == req' = [req EXCEPT ![r] = q]

\* A request that goes on has a place to go to.
LEMMA RequestGoes ==
    ASSUME IntakeTyped, NEW r \in Requests, NEW q, Goes(r, q), RequestShaped(q)
    PROVE  /\ req' = [p \in Requests |-> req'[p]]
           /\ \A p \in Requests : RequestShaped(req'[p])
           /\ req'[r] = q /\ \A p \in Requests : p # r => req'[p] = req[p]
BY DEF IntakeTyped, Goes

\* What an open request becomes: its answer, its next position, or the fields
\* it has from a new one.
LEMMA Answered ==
    ASSUME NEW r, Answer(r)
    PROVE  Goes(r, Idle) /\ RequestShaped(Idle) /\ Idle.at = "idle"
BY DEF Answer, Goes, RequestShaped, Idle, Positions

\* A request at its next position is still a request.
LEMMA Advanced ==
    ASSUME IntakeTyped, NEW r \in Requests, NEW at \in Positions, To(r, at), req[r].at # "idle"
    PROVE  /\ Goes(r, [req[r] EXCEPT !.at = at])
           /\ RequestShaped([req[r] EXCEPT !.at = at])
           /\ [req[r] EXCEPT !.at = at].at = at
           /\ [req[r] EXCEPT !.at = at].session = req[r].session
           /\ [req[r] EXCEPT !.at = at].user = req[r].user
           /\ [req[r] EXCEPT !.at = at].file = req[r].file
<1>1. RequestShaped(req[r])
  BY DEF IntakeTyped
<1>2. DEFINE q == [req[r] EXCEPT !.at = at]
<1>3. q = [at |-> at, op |-> req[r].op, session |-> req[r].session, user |-> req[r].user,
           file |-> req[r].file, data |-> req[r].data]
  BY <1>1 DEF RequestShaped
<1>4. Goes(r, q)
  BY DEF To, Goes, IntakeTyped
<1>5. RequestShaped(q)
  BY <1>1, <1>3 DEF RequestShaped
<1> QED BY <1>3, <1>4, <1>5

\* A new request, and a request with something new.
Chosen(at, op, s, u)     == [[[[Idle EXCEPT !.at = at] EXCEPT !.op = op] EXCEPT !.session = s] EXCEPT !.user = u]
WithData(q, at, data)    == [[q EXCEPT !.at = at] EXCEPT !.data = data]
WithFile(q, at, file)    == [[q EXCEPT !.at = at] EXCEPT !.file = file]

\* A request that arrives is a request.
LEMMA Arrived ==
    ASSUME NEW at \in Positions, NEW op, NEW s \in Sessions, NEW u \in Users
    PROVE  RequestShaped(Chosen(at, op, s, u)) /\ Chosen(at, op, s, u).at = at
<1> DEFINE Rows   == [at : Positions, op : {"none", op}, session : {0, s}, user : {NoUser, u}, file : {0}, data : {NoName}]
           first  == [Idle EXCEPT !.at = at]
           second == [first EXCEPT !.op = op]
           third  == [second EXCEPT !.session = s]
           fourth == [third EXCEPT !.user = u]
<1>1. first \in Rows /\ first.at = at
  BY DEF Idle
<1> HIDE DEF first
<1>2. second \in Rows /\ second.at = at
  BY <1>1
<1> HIDE DEF second
<1>3. third \in Rows /\ third.at = at /\ third.session = s
  BY <1>2
<1> HIDE DEF third
<1>4. fourth \in Rows /\ fourth.at = at /\ fourth.session = s /\ fourth.user = u
  BY <1>3
<1> HIDE DEF fourth
<1>5. RequestShaped(fourth)
  BY <1>4 DEF RequestShaped
<1>6. Chosen(at, op, s, u) = fourth
  BY DEF fourth, third, second, first, Chosen
<1> QED BY <1>4, <1>5, <1>6

\* A request that goes on with something new is a request.
LEMMA AdvancedWith ==
    ASSUME NEW q, RequestShaped(q), q.at # "idle", NEW at \in Positions, NEW data
    PROVE  LET p == WithData(q, at, data)
           IN  RequestShaped(p) /\ p.at = at /\ p.session = q.session /\ p.user = q.user
<1> DEFINE Rows  == [at : Positions, op : {q.op}, session : {q.session}, user : {q.user}, file : Nat,
                     data : {q.data, data}]
           first == [q EXCEPT !.at = at]
<1>1. q \in Rows /\ q.session \in Sessions /\ q.user \in Users
  BY DEF RequestShaped
<1>2. first \in Rows /\ first.at = at
  BY <1>1
<1> SUFFICES ASSUME NEW p, p = WithData(q, at, data)
             PROVE  RequestShaped(p) /\ p.at = at /\ p.session = q.session /\ p.user = q.user
  OBVIOUS
<1>3. p = [first EXCEPT !.data = data]
  BY DEF WithData
<1> HIDE DEF first
<1>4. p \in Rows /\ p.at = at
  BY <1>2, <1>3
<1> QED BY <1>1, <1>4 DEF RequestShaped

\* A request that has uploaded a file is a request.
LEMMA Uploaded ==
    ASSUME NEW q, RequestShaped(q), q.at # "idle", NEW at \in Positions, NEW file \in Nat
    PROVE  LET p == WithFile(q, at, file)
           IN  RequestShaped(p) /\ p.at = at /\ p.session = q.session /\ p.user = q.user /\ p.file = file
<1> DEFINE Rows  == [at : Positions, op : {q.op}, session : {q.session}, user : {q.user}, file : Nat,
                     data : {q.data}]
           first == [q EXCEPT !.at = at]
<1>1. q \in Rows /\ q.session \in Sessions /\ q.user \in Users
  BY DEF RequestShaped
<1>2. first \in Rows /\ first.at = at
  BY <1>1
<1> SUFFICES ASSUME NEW p, p = WithFile(q, at, file)
             PROVE  RequestShaped(p) /\ p.at = at /\ p.session = q.session /\ p.user = q.user /\ p.file = file
  OBVIOUS
<1>3. p = [first EXCEPT !.file = file]
  BY DEF WithFile
<1> HIDE DEF first
<1>4. p \in Rows /\ p.at = at /\ p.file = file
  BY <1>2, <1>3
<1> QED BY <1>1, <1>4 DEF RequestShaped

(***************************************************************************)
(* Steps that leave the files, or the sessions, as they are.               *)
(***************************************************************************)
\* While no request takes or gives up a file and no session becomes one to
\* keep, what is known of the files stays true.
LEMMA FilesStay ==
    ASSUME IntakeInv, UNCHANGED <<fileVars, cleaner>>,
           \A s \in Sessions : Kept(s)' => Kept(s),
           \A p \in Requests : (req'[p].at = "uploaded" \/ req[p].at = "uploaded") => req'[p] = req[p]
    PROVE  FilesInv'
<1>1. FilesNumbered'
  BY DEF IntakeInv, FilesInv, FilesNumbered, fileVars
<1>2. FilesHeldOnce'
  <2>1. \A p \in Requests : req'[p].at = "uploaded" => req[p].at = "uploaded" /\ req'[p].file = req[p].file
    OBVIOUS
  <2>2. inputs' = inputs /\ cleaner' = cleaner /\ storage' = storage
    BY DEF fileVars
  <2> QED BY <2>1, <2>2 DEF IntakeInv, FilesInv, FilesHeldOnce
<1>3. KeptAreStored'
  BY DEF IntakeInv, FilesInv, KeptAreStored, fileVars
<1>4. FilesAreKnown'
  <2> SUFFICES ASSUME NEW f \in storage \ lost, ~ \E s \in Sessions : f \in inputs[s]
               PROVE  \E p \in Requests : req'[p].at = "uploaded" /\ req'[p].file = f
    BY DEF FilesAreKnown, At, fileVars
  <2>1. PICK p \in Requests : At(p, "uploaded") /\ req[p].file = f
    BY DEF IntakeInv, FilesInv, FilesAreKnown
  <2> QED BY <2>1 DEF At
<1> QED BY <1>1, <1>2, <1>3, <1>4 DEF FilesInv

\* A step that touches neither sessions nor requests.
LEMMA SessionsUntouched ==
    ASSUME SessionsInv, UNCHANGED <<session, charged, properties, req>>
    PROVE  SessionsInv'
<1>1. LocksHold'
  BY DEF SessionsInv, LocksHold, Unlocked, At, Of
<1>2. PreviewsCharged'
  BY DEF SessionsInv, PreviewsCharged, ChargedFor, Of
<1>3. PropertiesHold'
  BY DEF SessionsInv, PropertiesHold, Converted
<1> QED BY <1>1, <1>2, <1>3 DEF SessionsInv

\* A request that goes on without a lock disturbs no session.
LEMMA SessionsStay ==
    ASSUME IntakeInv, NEW r \in Requests, NEW q, Goes(r, q), RequestShaped(q),
           req[r].at # "named", q.at # "named",
           q.at \in {"charged", "read"} => \E u \in Users : <<q.session, u>> \in charged',
           charged \subseteq charged', UNCHANGED <<session, properties>>
    PROVE  SessionsInv'
<1>1. req'[r] = q /\ \A p \in Requests : p # r => req'[p] = req[p]
  BY RequestGoes DEF IntakeInv
<1>2. LocksHold'
  <2>1. \A p : Unlocked(p)' = Unlocked(p)
    BY DEF Unlocked
  <2>2. ASSUME NEW s \in Sessions, ~Unlocked(s)
        PROVE  At(session[s].locker, "named")' /\ Of(session[s].locker)' = s
    <3>1. session[s].locker \in Requests /\ At(session[s].locker, "named") /\ Of(session[s].locker) = s
      BY <2>2 DEF IntakeInv, IntakeTyped, RowSet, SessionsInv, LocksHold, Unlocked
    <3> QED BY <1>1, <3>1 DEF At, Of
  <2> QED BY <1>1, <2>1, <2>2 DEF IntakeInv, SessionsInv, LocksHold, At, Of
<1>3. PreviewsCharged'
  BY <1>1 DEF IntakeInv, SessionsInv, PreviewsCharged, ChargedFor, Of
<1>4. PropertiesHold'
  BY DEF IntakeInv, SessionsInv, PropertiesHold, Converted
<1> QED BY <1>2, <1>3, <1>4 DEF SessionsInv

\* What a request does that has neither a file nor a lock, and leaves sessions
\* and files alone.
LEMMA RequestStay ==
    ASSUME IntakeInv, NEW r \in Requests, NEW q, Goes(r, q), RequestShaped(q),
           req[r].at \notin {"named", "uploaded"}, q.at \notin {"named", "uploaded"},
           q.at \in {"charged", "read"} => \E u \in Users : <<q.session, u>> \in charged',
           charged \subseteq charged', UNCHANGED <<session, clock, properties, fileVars, cleaner>>
    PROVE  IntakeInv'
<1>1. /\ req' = [p \in Requests |-> req'[p]] /\ \A p \in Requests : RequestShaped(req'[p])
      /\ req'[r] = q /\ \A p \in Requests : p # r => req'[p] = req[p]
  BY RequestGoes DEF IntakeInv
<1>2. IntakeTyped'
  BY <1>1 DEF IntakeInv, IntakeTyped, fileVars
<1>3. SessionsInv'
  BY SessionsStay
<1>4. FilesInv'
  <2>1. \A s \in Sessions : Kept(s)' => Kept(s)
    BY DEF Kept, Overdue, Converted, Unlocked
  <2> QED BY <1>1, <2>1, FilesStay
<1> QED BY <1>2, <1>3, <1>4 DEF IntakeInv

(***************************************************************************)
(* Requests.                                                               *)
(***************************************************************************)
\* Arriving.
LEMMA ArriveKeeps ==
    ASSUME IntakeInv, NEW r \in Requests, Arrive(r)
    PROVE  IntakeInv'
<1>1. PICK op \in {"file", "field", "location", "preview"}, s \in Sessions, u \in Users :
        req' = [req EXCEPT ![r] = [Idle EXCEPT !.at = "checked", !.op = op, !.session = s, !.user = u]]
  BY DEF Arrive
<1> SUFFICES ASSUME NEW q, q = Chosen("checked", op, s, u)
             PROVE  IntakeInv'
  OBVIOUS
<1>2. Goes(r, q)
  BY <1>1 DEF Goes, Chosen
<1>3. RequestShaped(q) /\ q.at = "checked"
  <2>1. "checked" \in Positions
    BY DEF Positions
  <2> QED BY <2>1, Arrived
<1> QED BY <1>2, <1>3, RequestStay DEF Arrive, At, sessionVars

\* An answer without effect.
LEMMA RefuseKeeps ==
    ASSUME IntakeInv, NEW r \in Requests, Refuse(r)
    PROVE  IntakeInv'
BY Answered, RequestStay DEF Refuse, sessionVars

\* Confirming a field.
LEMMA ConfirmKeeps ==
    ASSUME IntakeInv, NEW r \in Requests, ConfirmField(r)
    PROVE  IntakeInv'
BY Answered, RequestStay DEF ConfirmField, At

\* Charging a preview.
LEMMA ChargeKeeps ==
    ASSUME IntakeInv, NEW r \in Requests, ChargePreview(r)
    PROVE  IntakeInv'
<1>1. req[r].at = "checked" /\ To(r, "charged") /\ charged' = charged \union {<<Of(r), req[r].user>>}
  BY DEF ChargePreview, At
<1>2. DEFINE q == [req[r] EXCEPT !.at = "charged"]
<1>3. Goes(r, q) /\ RequestShaped(q) /\ q.at = "charged" /\ q.session = req[r].session
  BY <1>1, Advanced DEF IntakeInv, Positions
<1>4. req[r].user \in Users
  BY <1>1 DEF IntakeInv, IntakeTyped, RequestShaped
<1>5. \E u \in Users : <<q.session, u>> \in charged'
  BY <1>1, <1>3, <1>4 DEF Of
<1> HIDE DEF q
<1> QED BY <1>1, <1>3, <1>5, RequestStay DEF ChargePreview

\* Reading the fields and building the preview of them.
LEMMA FieldsKeep ==
    ASSUME IntakeInv, NEW r \in Requests, GetFields(r)
    PROVE  IntakeInv'
<1>1. PICK data : req' = [req EXCEPT ![r].at = "read", ![r].data = data]
  BY DEF GetFields
<1>2. req[r].at = "charged" /\ RequestShaped(req[r])
  BY DEF GetFields, At, IntakeInv, IntakeTyped
<1> SUFFICES ASSUME NEW q, q = WithData(req[r], "read", data)
             PROVE  IntakeInv'
  OBVIOUS
<1>3. Goes(r, q)
  BY <1>1 DEF Goes, WithData, IntakeInv, IntakeTyped
<1>4. RequestShaped(q) /\ q.at = "read" /\ q.session = req[r].session
  <2>1. "read" \in Positions /\ req[r].at # "idle"
    BY <1>2 DEF Positions
  <2> QED BY <1>2, <2>1, AdvancedWith
<1>5. \E u \in Users : <<q.session, u>> \in charged
  BY <1>2, <1>4 DEF IntakeInv, SessionsInv, PreviewsCharged, ChargedFor, Of
<1> QED BY <1>2, <1>3, <1>4, <1>5, RequestStay DEF GetFields, sessionVars

\* Finding the property there.
LEMMA AgainKeeps ==
    ASSUME IntakeInv, NEW r \in Requests, ConvertAgain(r)
    PROVE  IntakeInv'
<1>1. PICK s \in Sessions, u \in Users :
        req' = [req EXCEPT ![r] = [Idle EXCEPT !.at = "converted", !.op = "convert", !.session = s, !.user = u]]
  BY DEF ConvertAgain
<1> SUFFICES ASSUME NEW q, q = Chosen("converted", "convert", s, u)
             PROVE  IntakeInv'
  OBVIOUS
<1>2. Goes(r, q)
  BY <1>1 DEF Goes, Chosen
<1>3. RequestShaped(q) /\ q.at = "converted"
  <2>1. "converted" \in Positions
    BY DEF Positions
  <2> QED BY <2>1, Arrived
<1> QED BY <1>2, <1>3, RequestStay DEF ConvertAgain, At, sessionVars

\* Starting a report.
LEMMA ReportKeeps ==
    ASSUME IntakeInv, NEW r \in Requests, StartReport(r)
    PROVE  IntakeInv'
BY Answered, RequestStay DEF StartReport, At

-----------------------------------------------------------------------------
\* A session's row is written: the other rows stay.
LEMMA RowPut ==
    ASSUME IntakeTyped, NEW s \in Sessions, NEW column, NEW value, session' = Put(s, column, value),
           \/ column = "location" /\ value \in Locations
           \/ column = "status" /\ value \in Statuses
           \/ column = "locker" /\ value \in Requests \union {Nobody}
    PROVE  /\ session' \in [Sessions -> RowSet]
           /\ \A t \in Sessions : t # s => session'[t] = session[t]
           /\ session'[s].owner = session[s].owner
           /\ session'[s].status = IF column = "status" THEN value ELSE session[s].status
           /\ session'[s].locker = IF column = "locker" THEN value ELSE session[s].locker
           /\ session'[s].location = IF column = "location" THEN value ELSE session[s].location
<1>1. session \in [Sessions -> RowSet]
  BY DEF IntakeTyped
<1>2. session' = [session EXCEPT ![s] = [session[s] EXCEPT ![column] = value]]
  BY <1>1 DEF Put
<1> SUFFICES ASSUME NEW row, row = [session[s] EXCEPT ![column] = value]
             PROVE  /\ row \in RowSet
                    /\ row.owner = session[s].owner
                    /\ row.status = IF column = "status" THEN value ELSE session[s].status
                    /\ row.locker = IF column = "locker" THEN value ELSE session[s].locker
                    /\ row.location = IF column = "location" THEN value ELSE session[s].location
  BY <1>1, <1>2
<1>3. session[s] \in RowSet
  BY <1>1
<1>4. CASE column = "location" /\ value \in Locations
  BY <1>3, <1>4 DEF RowSet
<1>5. CASE column = "status" /\ value \in Statuses
  BY <1>3, <1>5 DEF RowSet
<1>6. CASE column = "locker" /\ value \in Requests \union {Nobody}
  BY <1>3, <1>6 DEF RowSet
<1> QED BY <1>4, <1>5, <1>6

\* Saving a location: that of a converted session stays.
LEMMA LocationKeeps ==
    ASSUME IntakeInv, NEW r \in Requests, SaveLocation(r)
    PROVE  IntakeInv'
<1>1. /\ req' = [p \in Requests |-> req'[p]] /\ \A p \in Requests : RequestShaped(req'[p])
      /\ req'[r].at = "idle" /\ \A p \in Requests : p # r => req'[p] = req[p]
      /\ req[r].at = "checked"
  BY Answered, RequestGoes DEF SaveLocation, IntakeInv, At
<1>2. /\ session' \in [Sessions -> RowSet]
      /\ \A t \in Sessions : /\ session'[t].status = session[t].status /\ session'[t].owner = session[t].owner
                             /\ session'[t].locker = session[t].locker
                             /\ Converted(t) => session'[t].location = session[t].location
  <2>1. CASE UNCHANGED session
    BY <2>1 DEF IntakeInv, IntakeTyped
  <2>2. CASE /\ ~Converted(Of(r)) /\ \E l \in Locations : session' = Put(Of(r), "location", l)
    <3>1. Of(r) \in Sessions
      BY <1>1 DEF IntakeInv, IntakeTyped, RequestShaped, Of
    <3> QED BY <2>2, <3>1, RowPut DEF IntakeInv
  <2> QED BY <2>1, <2>2 DEF SaveLocation
<1>3. UNCHANGED <<clock, charged, properties, fileVars, cleaner>>
  BY DEF SaveLocation
<1>4. IntakeTyped'
  BY <1>1, <1>2, <1>3 DEF IntakeInv, IntakeTyped, fileVars
<1>5. FilesInv'
  <2>1. \A s \in Sessions : Kept(s)' => Kept(s)
    BY <1>2, <1>3 DEF Kept, Overdue, Converted, Unlocked
  <2> QED BY <1>1, <1>3, <2>1, FilesStay
<1>6. LocksHold'
  <2>1. ASSUME NEW s \in Sessions, ~Unlocked(s)'
        PROVE  At(session[s].locker, "named")' /\ Of(session[s].locker)' = s
    <3>1. session'[s].locker = session[s].locker /\ session[s].locker \in Requests
          /\ At(session[s].locker, "named") /\ Of(session[s].locker) = s
      BY <1>2, <2>1 DEF IntakeInv, IntakeTyped, RowSet, SessionsInv, LocksHold, Unlocked
    <3> QED BY <1>1, <3>1 DEF At, Of
  <2>2. ASSUME NEW p \in Requests, At(p, "named")'
        PROVE  /\ session'[Of(p)'].locker = p
               /\ session'[Of(p)'].status = "preview_ready" /\ session'[Of(p)'].owner = req'[p].user
    <3>1. p # r /\ req'[p] = req[p] /\ At(p, "named") /\ Of(p)' = Of(p) /\ Of(p) \in Sessions
      BY <1>1, <2>2 DEF At, Of, IntakeInv, IntakeTyped, RequestShaped
    <3> QED BY <1>2, <3>1 DEF IntakeInv, SessionsInv, LocksHold
  <2> QED BY <2>1, <2>2 DEF LocksHold
<1>7. PreviewsCharged'
  BY <1>1, <1>2, <1>3 DEF IntakeInv, SessionsInv, PreviewsCharged, ChargedFor, Of
<1>8. PropertiesHold'
  BY <1>2, <1>3 DEF IntakeInv, IntakeTyped, SessionsInv, PropertiesHold, Converted
<1> QED BY <1>4, <1>5, <1>6, <1>7, <1>8 DEF IntakeInv, SessionsInv

\* Saving a preview: its session has been charged, and is not locked.
LEMMA PreviewKeeps ==
    ASSUME IntakeInv, NEW r \in Requests, SavePreview(r)
    PROVE  IntakeInv'
<1>1. /\ req' = [p \in Requests |-> req'[p]] /\ \A p \in Requests : RequestShaped(req'[p])
      /\ req'[r].at = "idle" /\ \A p \in Requests : p # r => req'[p] = req[p]
      /\ req[r].at = "read" /\ Of(r) \in Sessions
  <2>1. req[r].at = "read" /\ Answer(r) /\ RequestShaped(req[r])
    BY DEF SavePreview, IntakeInv, IntakeTyped, At
  <2> QED BY <2>1, Answered, RequestGoes DEF IntakeInv, RequestShaped, Of
<1>2. /\ session' \in [Sessions -> RowSet]
      /\ \A t \in Sessions : /\ session'[t].owner = session[t].owner
                             /\ session'[t].locker = session[t].locker
                             /\ session'[t].location = session[t].location
                             /\ \/ session'[t].status = session[t].status
                                \/ /\ t = Of(r) /\ session'[t].status = "preview_ready"
                                   /\ Unlocked(t) /\ ~Converted(t) /\ Exists(t)
  <2>1. CASE UNCHANGED session
    BY <2>1 DEF IntakeInv, IntakeTyped
  <2>2. CASE ~Converted(Of(r)) /\ session' = Put(Of(r), "status", "preview_ready")
    <3>1. "preview_ready" \in Statuses /\ Unlocked(Of(r)) /\ Exists(Of(r))
      BY DEF Statuses, SavePreview
    <3>2. /\ session' \in [Sessions -> RowSet]
          /\ \A t \in Sessions : t # Of(r) => session'[t] = session[t]
          /\ session'[Of(r)].owner = session[Of(r)].owner
          /\ session'[Of(r)].status = "preview_ready"
          /\ session'[Of(r)].locker = session[Of(r)].locker
          /\ session'[Of(r)].location = session[Of(r)].location
      BY <1>1, <2>2, <3>1, RowPut DEF IntakeInv
    <3> QED BY <2>2, <3>1, <3>2
  <2> QED BY <2>1, <2>2 DEF SavePreview
<1>3. UNCHANGED <<clock, charged, properties, fileVars, cleaner>>
  BY DEF SavePreview
<1>4. IntakeTyped'
  BY <1>1, <1>2, <1>3 DEF IntakeInv, IntakeTyped, fileVars
<1>5. FilesInv'
  <2>1. \A s \in Sessions : Kept(s)' => Kept(s)
    BY <1>2, <1>3 DEF Kept, Overdue, Converted, Unlocked
  <2> QED BY <1>1, <1>3, <2>1, FilesStay
<1>6. LocksHold'
  <2>1. ASSUME NEW s \in Sessions, ~Unlocked(s)'
        PROVE  At(session[s].locker, "named")' /\ Of(session[s].locker)' = s
    <3>1. session'[s].locker = session[s].locker /\ session[s].locker \in Requests
          /\ At(session[s].locker, "named") /\ Of(session[s].locker) = s
      BY <1>2, <2>1 DEF IntakeInv, IntakeTyped, RowSet, SessionsInv, LocksHold, Unlocked
    <3> QED BY <1>1, <3>1 DEF At, Of
  <2>2. ASSUME NEW p \in Requests, At(p, "named")'
        PROVE  /\ session'[Of(p)'].locker = p
               /\ session'[Of(p)'].status = "preview_ready" /\ session'[Of(p)'].owner = req'[p].user
    <3>1. p # r /\ req'[p] = req[p] /\ At(p, "named") /\ Of(p)' = Of(p) /\ Of(p) \in Sessions
      BY <1>1, <2>2 DEF At, Of, IntakeInv, IntakeTyped, RequestShaped
    <3> QED BY <1>2, <3>1 DEF IntakeInv, SessionsInv, LocksHold
  <2> QED BY <2>1, <2>2 DEF LocksHold
<1>7. PreviewsCharged'
  <2>1. ChargedFor(Of(r)) /\ \A t : ChargedFor(t)' = ChargedFor(t)
    BY <1>1, <1>3 DEF IntakeInv, SessionsInv, PreviewsCharged, ChargedFor
  <2>2. \A p \in Requests : req'[p].at \in {"charged", "read"} => req[p].at \in {"charged", "read"} /\ Of(p)' = Of(p)
    BY <1>1 DEF Of
  <2> QED BY <1>2, <2>1, <2>2 DEF IntakeInv, SessionsInv, PreviewsCharged
<1>8. PropertiesHold'
  BY <1>2, <1>3 DEF IntakeInv, IntakeTyped, SessionsInv, PropertiesHold, Converted, Exists
<1> QED BY <1>4, <1>5, <1>6, <1>7, <1>8 DEF IntakeInv, SessionsInv

(***************************************************************************)
(* Conversion.                                                             *)
(***************************************************************************)
\* The row is locked while its session has time left.
LEMMA CheckKeeps ==
    ASSUME IntakeInv, NEW r \in Requests, CheckConversion(r)
    PROVE  IntakeInv'
<1>0. PICK s \in Sessions, u \in Users : \E data :
        /\ Unlocked(s) /\ Convertible(s, u) /\ session' = Put(s, "locker", r)
        /\ req' = [req EXCEPT ![r] = [at |-> "named", op |-> "convert", session |-> s, user |-> u, file |-> 0,
                                      data |-> data]]
  BY DEF CheckConversion
<1>1. PICK data :
        /\ Unlocked(s) /\ Convertible(s, u) /\ session' = Put(s, "locker", r)
        /\ req' = [req EXCEPT ![r] = [at |-> "named", op |-> "convert", session |-> s, user |-> u, file |-> 0,
                                      data |-> data]]
  BY <1>0
<1> DEFINE q == [at |-> "named", op |-> "convert", session |-> s, user |-> u, file |-> 0, data |-> data]
<1>2. RequestShaped(q) /\ Goes(r, q) /\ q.at = "named" /\ q.session = s /\ q.user = u
  BY <1>1 DEF RequestShaped, Goes, Positions
<1> HIDE DEF q
<1>3. /\ req' = [p \in Requests |-> req'[p]] /\ \A p \in Requests : RequestShaped(req'[p])
      /\ req'[r] = q /\ \A p \in Requests : p # r => req'[p] = req[p]
      /\ req[r].at = "idle"
  BY <1>2, RequestGoes DEF IntakeInv, CheckConversion, At
<1>4. /\ session' \in [Sessions -> RowSet]
      /\ \A t \in Sessions : t # s => session'[t] = session[t]
      /\ session'[s].owner = session[s].owner /\ session'[s].status = session[s].status
      /\ session'[s].location = session[s].location /\ session'[s].locker = r
  BY <1>1, RowPut DEF IntakeInv
<1>5. UNCHANGED <<clock, charged, properties, fileVars, cleaner>>
  BY DEF CheckConversion
<1>6. session[s].status = "preview_ready" /\ session[s].owner = u /\ ~Overdue(s)
  BY <1>1 DEF Convertible, Live, Converted
<1>7. IntakeTyped'
  BY <1>3, <1>4, <1>5 DEF IntakeInv, IntakeTyped, fileVars
<1>8. FilesInv'
  <2>1. \A t \in Sessions : Kept(t)' => Kept(t)
    BY <1>4, <1>5, <1>6 DEF Kept, Overdue, Converted, Unlocked
  <2> QED BY <1>2, <1>3, <1>5, <2>1, FilesStay
<1>9. LocksHold'
  <2>1. ASSUME NEW t \in Sessions, ~Unlocked(t)'
        PROVE  At(session[t].locker, "named")' /\ Of(session[t].locker)' = t
    <3>1. CASE t = s
      BY <1>2, <1>3, <1>4, <3>1 DEF At, Of
    <3>2. CASE t # s
      <4>1. session'[t].locker = session[t].locker /\ session[t].locker \in Requests
            /\ At(session[t].locker, "named") /\ Of(session[t].locker) = t
        BY <1>4, <2>1, <3>2 DEF IntakeInv, IntakeTyped, RowSet, SessionsInv, LocksHold, Unlocked
      <4> QED BY <1>3, <4>1 DEF At, Of
    <3> QED BY <3>1, <3>2
  <2>2. ASSUME NEW p \in Requests, At(p, "named")'
        PROVE  /\ session'[Of(p)'].locker = p
               /\ session'[Of(p)'].status = "preview_ready" /\ session'[Of(p)'].owner = req'[p].user
    <3>1. CASE p = r
      BY <1>2, <1>3, <1>4, <1>6, <3>1 DEF Of
    <3>2. CASE p # r
      <4>1. req'[p] = req[p] /\ At(p, "named") /\ Of(p)' = Of(p) /\ Of(p) \in Sessions
        BY <1>3, <2>2, <3>2 DEF At, Of, IntakeInv, IntakeTyped, RequestShaped
      <4>2. session[Of(p)].locker = p
        BY <4>1 DEF IntakeInv, SessionsInv, LocksHold
      <4>3. Of(p) # s
        BY <1>1, <4>2, RequestsAreNamed DEF Unlocked
      <4> QED BY <1>4, <4>1, <4>3 DEF IntakeInv, SessionsInv, LocksHold
    <3> QED BY <3>1, <3>2
  <2> QED BY <2>1, <2>2 DEF LocksHold
<1>10. PreviewsCharged'
  BY <1>2, <1>3, <1>4, <1>5 DEF IntakeInv, SessionsInv, PreviewsCharged, ChargedFor, Of
<1>11. PropertiesHold'
  <2>1. \A t \in Sessions : /\ session'[t].status = session[t].status /\ session'[t].owner = session[t].owner
                            /\ session'[t].location = session[t].location
    BY <1>4
  <2> QED BY <1>5, <2>1 DEF IntakeInv, IntakeTyped, SessionsInv, PropertiesHold, Converted
<1> QED BY <1>7, <1>8, <1>9, <1>10, <1>11 DEF IntakeInv, SessionsInv

\* A request that gives up its lock: what is left of the locks.
LEMMA LockGivenUp ==
    ASSUME IntakeInv, NEW r \in Requests, At(r, "named"), session' \in [Sessions -> RowSet],
           \A t \in Sessions : t # Of(r) => session'[t] = session[t],
           session'[Of(r)].locker = Nobody,
           req'[r].at # "named", \A p \in Requests : p # r => req'[p] = req[p]
    PROVE  LocksHold'
<1>1. Of(r) \in Sessions /\ session[Of(r)].locker = r
  BY DEF IntakeInv, IntakeTyped, RequestShaped, SessionsInv, LocksHold, At, Of
<1>2. ASSUME NEW t \in Sessions, ~Unlocked(t)'
      PROVE  At(session[t].locker, "named")' /\ Of(session[t].locker)' = t
  <2>1. t # Of(r)
    BY <1>2 DEF Unlocked
  <2>2. session'[t].locker = session[t].locker /\ session[t].locker \in Requests
        /\ At(session[t].locker, "named") /\ Of(session[t].locker) = t
    BY <1>2, <2>1 DEF IntakeInv, IntakeTyped, RowSet, SessionsInv, LocksHold, Unlocked
  <2>3. session[t].locker # r
    BY <2>1, <2>2
  <2> QED BY <2>2, <2>3 DEF At, Of
<1>3. ASSUME NEW p \in Requests, At(p, "named")'
      PROVE  /\ session'[Of(p)'].locker = p
             /\ session'[Of(p)'].status = "preview_ready" /\ session'[Of(p)'].owner = req'[p].user
  <2>1. p # r /\ req'[p] = req[p] /\ At(p, "named") /\ Of(p)' = Of(p) /\ Of(p) \in Sessions
    BY <1>3 DEF At, Of, IntakeInv, IntakeTyped, RequestShaped
  <2>2. session[Of(p)].locker = p
    BY <2>1 DEF IntakeInv, SessionsInv, LocksHold
  <2>3. Of(p) # Of(r)
    BY <1>1, <2>1, <2>2
  <2> QED BY <2>1, <2>3 DEF IntakeInv, SessionsInv, LocksHold
<1> QED BY <1>2, <1>3 DEF LocksHold

\* The property is inserted: its session had none, and its name is free.
LEMMA InsertKeeps ==
    ASSUME IntakeInv, NEW r \in Requests, InsertProperty(r)
    PROVE  IntakeInv'
<1> DEFINE s == Of(r)
<1>1. /\ s \in Sessions /\ session[s].locker = r /\ session[s].status = "preview_ready"
      /\ session[s].owner = req[r].user /\ At(r, "named") /\ req[r].at = "named"
  BY DEF InsertProperty, IntakeInv, IntakeTyped, RequestShaped, SessionsInv, LocksHold, At, Of
<1>2. /\ req' = [p \in Requests |-> req'[p]] /\ \A p \in Requests : RequestShaped(req'[p])
      /\ req'[r].at = "converted" /\ \A p \in Requests : p # r => req'[p] = req[p]
  <2>1. "converted" \in Positions /\ To(r, "converted")
    BY DEF Positions, InsertProperty
  <2> DEFINE q == [req[r] EXCEPT !.at = "converted"]
  <2>2. Goes(r, q) /\ RequestShaped(q) /\ q.at = "converted"
    BY <1>1, <2>1, Advanced DEF IntakeInv
  <2> HIDE DEF q
  <2> QED BY <2>2, RequestGoes DEF IntakeInv
<1>3. /\ session' \in [Sessions -> RowSet]
      /\ \A t \in Sessions : t # s => session'[t] = session[t]
      /\ session'[s].owner = session[s].owner /\ session'[s].status = "converted"
      /\ session'[s].location = session[s].location /\ session'[s].locker = Nobody
  <2>1. session' = [session EXCEPT ![s] = [[session[s] EXCEPT !.status = "converted"] EXCEPT !.locker = Nobody]]
    BY DEF InsertProperty, IntakeInv, IntakeTyped
  <2>2. session \in [Sessions -> RowSet]
    BY DEF IntakeInv, IntakeTyped
  <2> DEFINE first == [session[s] EXCEPT !.status = "converted"]
             row   == [first EXCEPT !.locker = Nobody]
  <2>3. /\ first \in RowSet /\ first.status = "converted" /\ first.owner = session[s].owner
        /\ first.location = session[s].location
    BY <1>1, <2>2 DEF RowSet, Statuses
  <2>4. session' = [session EXCEPT ![s] = row]
    BY <2>1
  <2> HIDE DEF first
  <2>5. /\ row \in RowSet /\ row.status = "converted" /\ row.owner = session[s].owner
        /\ row.location = session[s].location /\ row.locker = Nobody
    BY <2>3 DEF RowSet
  <2> HIDE DEF row
  <2> QED BY <1>1, <2>2, <2>4, <2>5
<1>4. UNCHANGED <<clock, charged, fileVars, cleaner>>
  BY DEF InsertProperty
<1>5. PICK new : /\ properties' = properties \union {new}
                 /\ new.owner = req[r].user /\ new.session = s /\ new.location = session[s].location
                 /\ \A p \in properties : p.owner = new.owner => p.name # new.name
  <2> DEFINE new == [owner |-> req[r].user, name |-> req[r].data.text, norm |-> req[r].data.norm,
                     location |-> session[s].location, session |-> s]
  <2>1. properties' = properties \union {new}
    BY DEF InsertProperty
  <2>2. \A p \in properties : p.owner = req[r].user => p.name # req[r].data.text
    BY DEF InsertProperty, NameFree, Owned
  <2>3. /\ new.owner = req[r].user /\ new.session = s /\ new.location = session[s].location
        /\ new.name = req[r].data.text
    OBVIOUS
  <2> HIDE DEF new
  <2> QED BY <2>1, <2>2, <2>3
<1>6. IntakeTyped'
  BY <1>1, <1>2, <1>3, <1>4, <1>5 DEF IntakeInv, IntakeTyped, fileVars
<1>7. FilesInv'
  <2>1. Kept(s)
    BY <1>1, RequestsAreNamed DEF Kept, Unlocked
  <2>2. \A t \in Sessions : Kept(t)' => Kept(t)
    BY <1>3, <1>4, <2>1 DEF Kept, Overdue, Converted, Unlocked
  <2> QED BY <1>1, <1>2, <1>4, <2>2, FilesStay
<1>8. LocksHold'
  BY <1>1, <1>2, <1>3, LockGivenUp
<1>9. PreviewsCharged'
  <2>1. ChargedFor(s) /\ \A t : ChargedFor(t)' = ChargedFor(t)
    BY <1>1, <1>4 DEF IntakeInv, SessionsInv, PreviewsCharged, ChargedFor
  <2>2. \A p \in Requests : req'[p].at \in {"charged", "read"} => req[p].at \in {"charged", "read"} /\ Of(p)' = Of(p)
    BY <1>2 DEF Of
  <2> QED BY <1>3, <2>1, <2>2 DEF IntakeInv, SessionsInv, PreviewsCharged
<1>10. PropertiesHold'
  <2>1. \A p \in properties : p.session # s
    BY <1>1 DEF IntakeInv, SessionsInv, PropertiesHold
  <2>2. \A p, q \in properties' :
          p.session = q.session \/ (p.owner = q.owner /\ p.name = q.name) => p = q
    BY <1>5, <2>1 DEF IntakeInv, SessionsInv, PropertiesHold
  <2>3. \A p \in properties' : /\ session'[p.session].status \in {"converted", "erased"}
                               /\ Converted(p.session)' => p.location = session'[p.session].location
    BY <1>3, <1>5, <2>1 DEF IntakeInv, IntakeTyped, SessionsInv, PropertiesHold, Converted
  <2>4. \A t \in Sessions : Converted(t)' =>
          \E p \in properties' : p.session = t /\ p.owner = session'[t].owner
    BY <1>1, <1>3, <1>5 DEF IntakeInv, SessionsInv, PropertiesHold, Converted
  <2> QED BY <2>2, <2>3, <2>4 DEF PropertiesHold
<1> QED BY <1>6, <1>7, <1>8, <1>9, <1>10 DEF IntakeInv, SessionsInv

\* The conversion is undone.
LEMMA RollBackKeeps ==
    ASSUME IntakeInv, NEW r \in Requests, RollBack(r)
    PROVE  IntakeInv'
<1>1. Of(r) \in Sessions /\ At(r, "named") /\ req[r].at = "named" /\ session[Of(r)].locker = r
  BY DEF RollBack, IntakeInv, IntakeTyped, RequestShaped, SessionsInv, LocksHold, At, Of
<1>2. /\ req' = [p \in Requests |-> req'[p]] /\ \A p \in Requests : RequestShaped(req'[p])
      /\ req'[r].at = "idle" /\ \A p \in Requests : p # r => req'[p] = req[p]
  BY Answered, RequestGoes DEF RollBack, IntakeInv
<1>3. /\ session' \in [Sessions -> RowSet]
      /\ \A t \in Sessions : t # Of(r) => session'[t] = session[t]
      /\ session'[Of(r)].owner = session[Of(r)].owner /\ session'[Of(r)].status = session[Of(r)].status
      /\ session'[Of(r)].location = session[Of(r)].location /\ session'[Of(r)].locker = Nobody
  BY <1>1, RowPut DEF RollBack, IntakeInv
<1>4. UNCHANGED <<clock, charged, properties, fileVars, cleaner>>
  BY DEF RollBack
<1>5. IntakeTyped'
  BY <1>2, <1>3, <1>4 DEF IntakeInv, IntakeTyped, fileVars
<1>6. FilesInv'
  <2>1. \A t \in Sessions : Kept(t)' => Kept(t)
    BY <1>3, <1>4 DEF Kept, Overdue, Converted, Unlocked
  <2> QED BY <1>1, <1>2, <1>4, <2>1, FilesStay
<1>7. LocksHold'
  BY <1>1, <1>2, <1>3, LockGivenUp
<1>8. \A t \in Sessions : /\ session'[t].status = session[t].status /\ session'[t].owner = session[t].owner
                          /\ session'[t].location = session[t].location
  BY <1>3
<1>9. PreviewsCharged'
  BY <1>2, <1>4, <1>8 DEF IntakeInv, SessionsInv, PreviewsCharged, ChargedFor, Of
<1>10. PropertiesHold'
  BY <1>4, <1>8 DEF IntakeInv, IntakeTyped, SessionsInv, PropertiesHold, Converted
<1> QED BY <1>5, <1>6, <1>7, <1>9, <1>10 DEF IntakeInv, SessionsInv

-----------------------------------------------------------------------------
(***************************************************************************)
(* Files.                                                                  *)
(***************************************************************************)
\* A file is uploaded under a new number.
LEMMA UploadKeeps ==
    ASSUME IntakeInv, NEW r \in Requests, Upload(r)
    PROVE  IntakeInv'
<1>1. /\ req[r].at = "checked" /\ RequestShaped(req[r]) /\ uploads \in Nat
      /\ uploads' = uploads + 1 /\ storage' = storage \union {uploads + 1}
      /\ UNCHANGED <<sessionVars, inputs, lost, cleaner>>
  BY DEF Upload, At, IntakeInv, IntakeTyped
<1> SUFFICES ASSUME NEW q, q = WithFile(req[r], "uploaded", uploads + 1)
             PROVE  IntakeInv'
  OBVIOUS
<1>2. Goes(r, q)
  BY DEF Goes, WithFile, Upload, IntakeInv, IntakeTyped
<1>3. RequestShaped(q) /\ q.at = "uploaded" /\ q.session = req[r].session /\ q.file = uploads + 1
  <2>1. "uploaded" \in Positions /\ req[r].at # "idle" /\ uploads + 1 \in Nat
    BY <1>1 DEF Positions
  <2> QED BY <1>1, <2>1, Uploaded
<1>4. /\ req' = [p \in Requests |-> req'[p]] /\ \A p \in Requests : RequestShaped(req'[p])
      /\ req'[r] = q /\ \A p \in Requests : p # r => req'[p] = req[p]
  BY <1>2, <1>3, RequestGoes DEF IntakeInv
<1>5. IntakeTyped'
  BY <1>1, <1>4 DEF IntakeInv, IntakeTyped, sessionVars
<1>6. SessionsInv'
  BY <1>1, <1>2, <1>3, SessionsStay DEF sessionVars
<1>7. FilesNumbered'
  <2>1. \A f \in Nat : f <= uploads => f <= uploads'
    BY <1>1
  <2>2. \A s \in Sessions : inputs[s] \subseteq Nat
    BY DEF IntakeInv, IntakeTyped
  <2>3. \A c \in Cleaners : cleaner[c] \subseteq Nat
    BY DEF IntakeInv, IntakeTyped
  <2>4. \A p \in Requests : req[p].file \in Nat
    BY DEF IntakeInv, IntakeTyped, RequestShaped
  <2> QED BY <1>1, <1>3, <1>4, <2>1, <2>2, <2>3, <2>4 DEF IntakeInv, FilesInv, FilesNumbered
<1>8. FilesHeldOnce'
  <2>1. /\ \A s \in Sessions : uploads + 1 \notin inputs[s]
        /\ \A c \in Cleaners : uploads + 1 \notin cleaner[c]
        /\ \A p \in Requests : req[p].at = "uploaded" => req[p].file # uploads + 1
    BY <1>1 DEF IntakeInv, FilesInv, FilesNumbered
  <2> QED BY <1>1, <1>3, <1>4, <2>1 DEF IntakeInv, FilesInv, FilesHeldOnce
<1>9. KeptAreStored'
  <2>1. \A s \in Sessions : Kept(s)' = Kept(s)
    BY <1>1 DEF Kept, Overdue, Converted, Unlocked, sessionVars
  <2> QED BY <1>1, <2>1 DEF IntakeInv, FilesInv, KeptAreStored
<1>10. FilesAreKnown'
  BY <1>1, <1>3, <1>4 DEF IntakeInv, FilesInv, FilesAreKnown, At
<1> QED BY <1>5, <1>6, <1>7, <1>8, <1>9, <1>10 DEF IntakeInv, FilesInv

\* A file passes from the hands of its request to its session.
LEMMA RecordKeeps ==
    ASSUME IntakeInv, NEW r \in Requests, RecordFile(r)
    PROVE  IntakeInv'
<1>1. /\ req[r].at = "uploaded" /\ RequestShaped(req[r]) /\ Of(r) \in Sessions /\ req[r].file \in Nat
      /\ inputs \in [Sessions -> SUBSET Nat]
      /\ inputs' = [inputs EXCEPT ![Of(r)] = inputs[Of(r)] \union {req[r].file}]
      /\ UNCHANGED <<sessionVars, storage, uploads, lost, cleaner>>
  BY DEF RecordFile, At, Of, IntakeInv, IntakeTyped, RequestShaped
<1>2. /\ inputs' \in [Sessions -> SUBSET Nat]
      /\ inputs'[Of(r)] = inputs[Of(r)] \union {req[r].file}
      /\ \A s \in Sessions : s # Of(r) => inputs'[s] = inputs[s]
  BY <1>1
<1>3. Goes(r, Idle) /\ RequestShaped(Idle) /\ Idle.at = "idle"
  BY Answered DEF RecordFile
<1>4. /\ req' = [p \in Requests |-> req'[p]] /\ \A p \in Requests : RequestShaped(req'[p])
      /\ req'[r].at = "idle" /\ \A p \in Requests : p # r => req'[p] = req[p]
  BY <1>3, RequestGoes DEF IntakeInv
<1>5. IntakeTyped'
  BY <1>1, <1>2, <1>4 DEF IntakeInv, IntakeTyped, sessionVars
<1>6. SessionsInv'
  BY <1>1, <1>3, SessionsStay DEF sessionVars
<1>7. FilesNumbered'
  BY <1>1, <1>2, <1>4 DEF IntakeInv, FilesInv, FilesNumbered
<1>8. FilesHeldOnce'
  <2>1. /\ \A s \in Sessions : req[r].file \notin inputs[s]
        /\ \A p \in Requests : p # r /\ req[p].at = "uploaded" => req[p].file # req[r].file
    BY <1>1 DEF IntakeInv, FilesInv, FilesHeldOnce
  <2>2. \A s, t \in Sessions : s # t => inputs'[s] \intersect inputs'[t] = {}
    <3> SUFFICES ASSUME NEW s \in Sessions, NEW t \in Sessions, s # t, NEW f \in inputs'[s], f \in inputs'[t]
                 PROVE  FALSE
      OBVIOUS
    <3>1. inputs[s] \intersect inputs[t] = {}
      BY DEF IntakeInv, FilesInv, FilesHeldOnce
    <3> QED BY <1>2, <2>1, <3>1
  <2>3. ASSUME NEW p \in Requests, req'[p].at = "uploaded"
        PROVE  /\ \A s \in Sessions : req'[p].file \notin inputs'[s]
               /\ \A c \in Cleaners : req'[p].file \notin cleaner'[c]
               /\ req'[p].file \in storage'
    <3>1. p # r /\ req'[p] = req[p]
      BY <1>4, <2>3
    <3> QED BY <1>1, <1>2, <2>1, <2>3, <3>1 DEF IntakeInv, FilesInv, FilesHeldOnce
  <2>4. \A p, q \in Requests :
          req'[p].at = "uploaded" /\ req'[q].at = "uploaded" /\ req'[p].file = req'[q].file => p = q
    BY <1>4 DEF IntakeInv, FilesInv, FilesHeldOnce
  <2> QED BY <2>2, <2>3, <2>4 DEF FilesHeldOnce
<1>9. KeptAreStored'
  <2>1. \A s \in Sessions : Kept(s)' = Kept(s)
    BY <1>1 DEF Kept, Overdue, Converted, Unlocked, sessionVars
  <2>2. req[r].file \in storage /\ \A c \in Cleaners : req[r].file \notin cleaner[c]
    BY <1>1 DEF IntakeInv, FilesInv, FilesHeldOnce
  <2> QED BY <1>1, <1>2, <2>1, <2>2 DEF IntakeInv, FilesInv, KeptAreStored
<1>10. FilesAreKnown'
  <2> SUFFICES ASSUME NEW f \in storage \ lost
               PROVE  \/ \E s \in Sessions : f \in inputs'[s]
                      \/ \E p \in Requests : req'[p].at = "uploaded" /\ req'[p].file = f
    BY <1>1 DEF FilesAreKnown, At
  <2>1. CASE \E s \in Sessions : f \in inputs[s]
    BY <1>2, <2>1
  <2>2. CASE \E p \in Requests : req[p].at = "uploaded" /\ req[p].file = f
    <3>1. PICK p \in Requests : req[p].at = "uploaded" /\ req[p].file = f
      BY <2>2
    <3>2. CASE p = r
      BY <1>1, <1>2, <3>1, <3>2
    <3>3. CASE p # r
      BY <1>4, <3>1, <3>3
    <3> QED BY <3>2, <3>3
  <2> QED BY <2>1, <2>2 DEF IntakeInv, FilesInv, FilesAreKnown, At
<1> QED BY <1>5, <1>6, <1>7, <1>8, <1>9, <1>10 DEF IntakeInv, FilesInv

\* The file of a request that failed is no session's.
LEMMA RecordFailsKeeps ==
    ASSUME IntakeInv, NEW r \in Requests, RecordFails(r)
    PROVE  IntakeInv'
<1>1. /\ req[r].at = "uploaded"
      /\ \/ storage' = storage \ {req[r].file} /\ UNCHANGED lost
         \/ lost' = lost \union {req[r].file} /\ UNCHANGED storage
      /\ UNCHANGED <<sessionVars, inputs, uploads, cleaner>>
  BY DEF RecordFails, At
<1>2. Goes(r, Idle) /\ RequestShaped(Idle) /\ Idle.at = "idle"
  BY Answered DEF RecordFails
<1>3. /\ req' = [p \in Requests |-> req'[p]] /\ \A p \in Requests : RequestShaped(req'[p])
      /\ req'[r].at = "idle" /\ \A p \in Requests : p # r => req'[p] = req[p]
  BY <1>2, RequestGoes DEF IntakeInv
<1>4. IntakeTyped'
  BY <1>1, <1>3 DEF IntakeInv, IntakeTyped, sessionVars
<1>5. SessionsInv'
  BY <1>1, <1>2, SessionsStay DEF sessionVars
<1>6. FilesNumbered'
  BY <1>1, <1>3 DEF IntakeInv, FilesInv, FilesNumbered
<1>7. FilesHeldOnce'
  <2>1. \A p \in Requests : req'[p].at = "uploaded" => p # r /\ req'[p] = req[p] /\ req[p].file # req[r].file
    BY <1>1, <1>3 DEF IntakeInv, FilesInv, FilesHeldOnce
  <2> QED BY <1>1, <2>1 DEF IntakeInv, FilesInv, FilesHeldOnce
<1>8. KeptAreStored'
  <2>1. \A s \in Sessions : Kept(s)' = Kept(s) /\ req[r].file \notin inputs[s]
    BY <1>1 DEF Kept, Overdue, Converted, Unlocked, sessionVars, IntakeInv, FilesInv, FilesHeldOnce
  <2> QED BY <1>1, <2>1 DEF IntakeInv, FilesInv, KeptAreStored
<1>9. FilesAreKnown'
  <2> SUFFICES ASSUME NEW f \in storage' \ lost'
               PROVE  \/ \E s \in Sessions : f \in inputs[s]
                      \/ \E p \in Requests : req'[p].at = "uploaded" /\ req'[p].file = f
    BY <1>1 DEF FilesAreKnown, At
  <2>1. f \in storage \ lost /\ f # req[r].file
    BY <1>1
  <2> QED BY <1>3, <2>1 DEF IntakeInv, FilesInv, FilesAreKnown, At
<1> QED BY <1>4, <1>5, <1>6, <1>7, <1>8, <1>9 DEF IntakeInv, FilesInv

-----------------------------------------------------------------------------
(***************************************************************************)
(* Sessions and cleanup passes.                                            *)
(***************************************************************************)
\* A day passes: no session gains time.
LEMMA DayKeeps == IntakeInv /\ PassDay => IntakeInv'
<1> SUFFICES ASSUME IntakeInv, PassDay PROVE IntakeInv'
  OBVIOUS
<1>1. /\ clock \in Nat /\ clock' = clock + 1
      /\ UNCHANGED <<session, charged, properties, inputs, storage, uploads, lost, req, cleaner>>
  BY DEF PassDay, fileVars, IntakeInv, IntakeTyped
<1>2. IntakeTyped'
  BY <1>1 DEF IntakeInv, IntakeTyped
<1>3. SessionsInv'
  BY <1>1, SessionsUntouched DEF IntakeInv
<1>4. FilesInv'
  <2>1. ASSUME NEW s \in Sessions, Kept(s)'
        PROVE  Kept(s)
    <3>1. s \in Nat
      BY SessionsAreNumbers
    <3> QED BY <1>1, <2>1, <3>1 DEF Kept, Overdue, Converted, Unlocked
  <2> QED BY <1>1, <2>1, FilesStay DEF fileVars
<1> QED BY <1>2, <1>3, <1>4 DEF IntakeInv

\* A new session is empty.
LEMMA CreateKeeps == IntakeInv /\ CreateSession => IntakeInv'
<1> SUFFICES ASSUME IntakeInv, CreateSession PROVE IntakeInv'
  OBVIOUS
<1>1. UNCHANGED <<clock, charged, properties, fileVars, req, cleaner>>
  BY DEF CreateSession
<1>2. PICK s \in Sessions, u \in Users :
        /\ session[s].status = "none"
        /\ session' = [session EXCEPT ![s] = [[NoRow EXCEPT !.status = "draft"] EXCEPT !.owner = u]]
  <2>1. PICK s \in Sessions, u \in Users :
          /\ \A t \in Sessions : session[t].status = "none" <=> t >= s
          /\ session' = [session EXCEPT ![s] = [NoRow EXCEPT !.status = "draft", !.owner = u]]
    BY DEF CreateSession
  <2>2. s >= s
    BY SessionsAreNumbers
  <2> QED BY <2>1, <2>2
<1>3. session \in [Sessions -> RowSet]
  BY DEF IntakeInv, IntakeTyped
<1>4. /\ session' \in [Sessions -> RowSet]
      /\ \A t \in Sessions : t # s => session'[t] = session[t]
      /\ session'[s].status = "draft" /\ session'[s].locker = Nobody
  <2> DEFINE first == [NoRow EXCEPT !.status = "draft"]
             row   == [first EXCEPT !.owner = u]
  <2>1. first \in RowSet /\ first.status = "draft" /\ first.locker = Nobody
    BY DEF NoRow, RowSet, Statuses
  <2>2. session' = [session EXCEPT ![s] = row]
    BY <1>2
  <2> HIDE DEF first
  <2>3. row \in RowSet /\ row.status = "draft" /\ row.locker = Nobody
    BY <2>1 DEF RowSet
  <2> HIDE DEF row
  <2> QED BY <1>3, <2>2, <2>3
<1>5. Unlocked(s)
  <2> SUFFICES ASSUME ~Unlocked(s) PROVE FALSE
    OBVIOUS
  <2>1. session[s].locker \in Requests /\ At(session[s].locker, "named") /\ Of(session[s].locker) = s
    BY <1>3 DEF RowSet, Unlocked, IntakeInv, SessionsInv, LocksHold
  <2> QED BY <1>2, <2>1 DEF IntakeInv, SessionsInv, LocksHold
<1>6. IntakeTyped'
  BY <1>1, <1>4 DEF IntakeInv, IntakeTyped, fileVars
<1>7. FilesInv'
  <2>1. \A t \in Sessions : Kept(t)' => Kept(t)
    BY <1>1, <1>4 DEF Kept, Overdue, Converted, Unlocked
  <2> QED BY <1>1, <2>1, FilesStay
<1>8. LocksHold'
  <2>1. \A r \in Requests : At(r, "named") => Of(r) # s /\ Of(r) \in Sessions
    BY <1>2 DEF IntakeInv, SessionsInv, LocksHold, IntakeTyped, RequestShaped, At, Of
  <2>2. \A t \in Sessions : Unlocked(t)' <=> Unlocked(t)
    BY <1>4, <1>5 DEF Unlocked
  <2>3. \A t \in Sessions : ~Unlocked(t) => t # s
    BY <1>5
  <2> QED BY <1>1, <1>4, <2>1, <2>2, <2>3 DEF IntakeInv, SessionsInv, LocksHold, At, Of
<1>9. PreviewsCharged'
  BY <1>1, <1>4 DEF IntakeInv, SessionsInv, PreviewsCharged, ChargedFor, Of
<1>10. PropertiesHold'
  BY <1>1, <1>2, <1>4 DEF IntakeInv, IntakeTyped, SessionsInv, PropertiesHold, Converted
<1> QED BY <1>6, <1>7, <1>8, <1>9, <1>10 DEF IntakeInv, SessionsInv

\* A pass takes the files of sessions that have run out and are not locked.
LEMMA ExpireKeeps ==
    ASSUME IntakeInv, NEW c \in Cleaners, ExpireSessions(c)
    PROVE  IntakeInv'
<1>1. UNCHANGED <<clock, charged, properties, fileVars, req>>
  BY DEF ExpireSessions
<1>2. PICK taken \in SUBSET Sessions :
        /\ \A s \in taken : Expirable(s)
        /\ session' = [s \in Sessions |-> IF s \in taken THEN [session[s] EXCEPT !.status = "expired"]
                                          ELSE session[s]]
        /\ cleaner' = [cleaner EXCEPT ![c] = UNION {inputs[s] : s \in taken}]
  <2> DEFINE rows  == {s \in Sessions : Expirable(s)}
             taken == {s \in rows : Cardinality({t \in rows : t < s}) < Batch}
  <2>1. /\ session' = [s \in Sessions |-> IF s \in taken THEN [session[s] EXCEPT !.status = "expired"]
                                          ELSE session[s]]
        /\ cleaner' = [cleaner EXCEPT ![c] = UNION {inputs[s] : s \in taken}]
    BY DEF ExpireSessions
  <2>2. taken \subseteq rows
    OBVIOUS
  <2> HIDE DEF taken
  <2> QED BY <2>1, <2>2
<1>3. /\ session \in [Sessions -> RowSet] /\ cleaner \in [Cleaners -> SUBSET Nat]
      /\ inputs \in [Sessions -> SUBSET Nat]
  BY DEF IntakeInv, IntakeTyped
<1>4. /\ session' \in [Sessions -> RowSet]
      /\ \A s \in Sessions : /\ session'[s].owner = session[s].owner /\ session'[s].locker = session[s].locker
                             /\ session'[s].location = session[s].location
                             /\ \/ s \notin taken /\ session'[s].status = session[s].status
                                \/ s \in taken /\ session'[s].status = "expired"
  BY <1>2, <1>3 DEF RowSet, Statuses
<1>5. \A s \in taken : Exists(s) /\ ~Converted(s) /\ ~Kept(s) /\ Unlocked(s)
  BY <1>2 DEF Expirable, Kept
<1> DEFINE files == UNION {inputs[s] : s \in taken}
<1>6. /\ cleaner' \in [Cleaners -> SUBSET Nat] /\ cleaner'[c] = files
      /\ \A d \in Cleaners : d # c => cleaner'[d] = cleaner[d]
  BY <1>2, <1>3
<1>7. \A f \in files : \E s \in taken : f \in inputs[s]
  OBVIOUS
<1> HIDE DEF files
<1>8. IntakeTyped'
  BY <1>1, <1>4, <1>6 DEF IntakeInv, IntakeTyped, fileVars
<1>9. FilesNumbered'
  <2>1. \A f \in files : f <= uploads
    BY <1>7 DEF IntakeInv, FilesInv, FilesNumbered
  <2>2. ASSUME NEW d \in Cleaners, NEW f \in cleaner'[d]
        PROVE  f <= uploads
    <3>1. CASE d = c
      BY <1>6, <2>1, <2>2, <3>1
    <3>2. CASE d # c
      BY <1>6, <2>2, <3>2 DEF IntakeInv, FilesInv, FilesNumbered
    <3> QED BY <3>1, <3>2
  <2> QED BY <1>1, <2>2 DEF IntakeInv, FilesInv, FilesNumbered, fileVars
<1>10. FilesHeldOnce'
  <2>1. ASSUME NEW r \in Requests, req[r].at = "uploaded", NEW d \in Cleaners
        PROVE  req[r].file \notin cleaner'[d]
    <3>1. /\ \A s \in Sessions : req[r].file \notin inputs[s]
          /\ req[r].file \notin cleaner[d]
      BY <2>1 DEF IntakeInv, FilesInv, FilesHeldOnce
    <3>2. req[r].file \notin files
      BY <1>7, <3>1
    <3> QED BY <1>6, <3>1, <3>2
  <2> QED BY <1>1, <2>1 DEF IntakeInv, FilesInv, FilesHeldOnce, fileVars
<1>11. KeptAreStored'
  <2> SUFFICES ASSUME NEW s \in Sessions, Kept(s)'
               PROVE  inputs[s] \subseteq storage /\ \A d \in Cleaners : inputs[s] \intersect cleaner'[d] = {}
    BY <1>1 DEF KeptAreStored, fileVars
  <2>1. Kept(s)
    BY <1>1, <1>4 DEF Kept, Overdue, Converted, Unlocked
  <2>2. s \notin taken
    BY <1>5, <2>1
  <2>3. inputs[s] \intersect files = {}
    <3> SUFFICES ASSUME NEW f \in files, f \in inputs[s] PROVE FALSE
      OBVIOUS
    <3>1. PICK t \in taken : f \in inputs[t]
      BY <1>7
    <3>2. inputs[s] \intersect inputs[t] = {}
      BY <2>2, <3>1 DEF IntakeInv, FilesInv, FilesHeldOnce
    <3> QED BY <3>1, <3>2
  <2>4. inputs[s] \subseteq storage /\ \A d \in Cleaners : inputs[s] \intersect cleaner[d] = {}
    BY <2>1 DEF IntakeInv, FilesInv, KeptAreStored
  <2> QED BY <1>6, <2>3, <2>4
<1>12. FilesAreKnown'
  BY <1>1 DEF IntakeInv, FilesInv, FilesAreKnown, At, fileVars
<1>13. LocksHold'
  <2>1. \A s \in Sessions : Unlocked(s)' = Unlocked(s)
    BY <1>4 DEF Unlocked
  <2>2. ASSUME NEW r \in Requests, At(r, "named")
        PROVE  Of(r) \in Sessions /\ Of(r) \notin taken /\ session[Of(r)].locker = r
    <3>1. session[Of(r)].locker = r /\ Of(r) \in Sessions
      BY <2>2 DEF IntakeInv, SessionsInv, LocksHold, IntakeTyped, RequestShaped, At, Of
    <3> QED BY <1>5, <3>1, RequestsAreNamed DEF Unlocked
  <2>3. \A r \in Requests : At(r, "named")' = At(r, "named") /\ Of(r)' = Of(r)
    BY <1>1 DEF At, Of
  <2>4. ASSUME NEW s \in Sessions, ~Unlocked(s)'
        PROVE  At(session[s].locker, "named")' /\ Of(session[s].locker)' = s
    BY <1>1, <1>4, <2>1, <2>4 DEF At, Of, IntakeInv, SessionsInv, LocksHold
  <2> QED BY <1>1, <1>4, <2>2, <2>3, <2>4 DEF IntakeInv, SessionsInv, LocksHold
<1>14. PreviewsCharged'
  BY <1>1, <1>4 DEF IntakeInv, SessionsInv, PreviewsCharged, ChargedFor, Of
<1>15. PropertiesHold'
  <2>1. \A s \in Sessions : session[s].status \in {"converted", "erased"} => s \notin taken
    BY <1>5 DEF Exists, Converted
  <2> QED BY <1>1, <1>4, <2>1 DEF IntakeInv, IntakeTyped, SessionsInv, PropertiesHold, Converted
<1> QED BY <1>8, <1>9, <1>10, <1>11, <1>12, <1>13, <1>14, <1>15 DEF IntakeInv, FilesInv, SessionsInv

\* A pass has one file less to delete.
LEMMA PassGoesOn ==
    ASSUME IntakeInv, NEW c \in Cleaners, NEW f \in cleaner[c], NextFile(c, f), storage \ {f} \subseteq storage',
           storage' \subseteq storage, UNCHANGED <<sessionVars, inputs, uploads, lost, req>>
    PROVE  IntakeInv'
<1>1. /\ cleaner' \in [Cleaners -> SUBSET Nat]
      /\ \A d \in Cleaners : cleaner'[d] \subseteq cleaner[d]
  BY DEF NextFile, IntakeInv, IntakeTyped
<1>2. IntakeTyped'
  BY <1>1 DEF IntakeInv, IntakeTyped, sessionVars
<1>3. SessionsInv'
  <2>1. UNCHANGED <<session, charged, properties, req>>
    BY DEF sessionVars
  <2>2. LocksHold' /\ PreviewsCharged'
    BY <2>1 DEF IntakeInv, SessionsInv, LocksHold, PreviewsCharged, ChargedFor, Unlocked, At, Of
  <2>3. PropertiesHold'
    BY <2>1 DEF IntakeInv, SessionsInv, PropertiesHold, Converted
  <2> QED BY <2>2, <2>3 DEF SessionsInv
<1>4. FilesNumbered'
  BY <1>1 DEF IntakeInv, FilesInv, FilesNumbered
<1>5. FilesHeldOnce'
  <2>1. \A r \in Requests : req[r].at = "uploaded" => req[r].file # f
    BY DEF IntakeInv, FilesInv, FilesHeldOnce
  <2> QED BY <1>1, <2>1 DEF IntakeInv, FilesInv, FilesHeldOnce
<1>6. KeptAreStored'
  <2>1. \A s \in Sessions : Kept(s)' = Kept(s)
    BY DEF Kept, Overdue, Converted, Unlocked, sessionVars
  <2>2. \A s \in Sessions : Kept(s) => f \notin inputs[s]
    BY DEF IntakeInv, FilesInv, KeptAreStored
  <2> QED BY <1>1, <2>1, <2>2 DEF IntakeInv, FilesInv, KeptAreStored
<1>7. FilesAreKnown'
  BY DEF IntakeInv, FilesInv, FilesAreKnown, At
<1> QED BY <1>2, <1>3, <1>4, <1>5, <1>6, <1>7 DEF IntakeInv, FilesInv

\* Deleting the next file, or going on without it.
LEMMA SweepKeeps ==
    ASSUME IntakeInv, NEW c \in Cleaners, DeleteFile(c) \/ SkipFile(c)
    PROVE  IntakeInv'
<1>1. CASE DeleteFile(c)
  BY <1>1, PassGoesOn DEF DeleteFile
<1>2. CASE SkipFile(c)
  BY <1>2, PassGoesOn DEF SkipFile, fileVars
<1> QED BY <1>1, <1>2

\* An account's sessions are erased; none of them is locked.
LEMMA EraseKeeps ==
    ASSUME IntakeInv, NEW u \in Users, EraseSessions(u)
    PROVE  IntakeInv'
<1>1. UNCHANGED <<clock, charged, properties, storage, uploads, req, cleaner>>
  BY DEF EraseSessions
<1>2. PICK mine \in SUBSET Sessions :
        /\ \A s \in mine : Unlocked(s)
        /\ session' = [s \in Sessions |-> IF s \in mine THEN [NoRow EXCEPT !.status = "erased"] ELSE session[s]]
        /\ lost' = lost \union (UNION {inputs[s] \intersect storage : s \in mine})
        /\ inputs' = [s \in Sessions |-> IF s \in mine THEN {} ELSE inputs[s]]
  BY DEF EraseSessions
<1>3. session \in [Sessions -> RowSet] /\ inputs \in [Sessions -> SUBSET Nat]
  BY DEF IntakeInv, IntakeTyped
<1>4. /\ session' \in [Sessions -> RowSet]
      /\ \A s \in Sessions : /\ s \notin mine => session'[s] = session[s]
                             /\ s \in mine => session'[s].status = "erased" /\ session'[s].locker = Nobody
  <2>1. /\ [NoRow EXCEPT !.status = "erased"] \in RowSet
        /\ [NoRow EXCEPT !.status = "erased"].status = "erased"
        /\ [NoRow EXCEPT !.status = "erased"].locker = Nobody
    BY DEF NoRow, RowSet, Statuses
  <2> QED BY <1>2, <1>3, <2>1
<1>5. /\ inputs' \in [Sessions -> SUBSET Nat]
      /\ \A s \in Sessions : inputs'[s] \subseteq inputs[s] /\ (s \notin mine => inputs'[s] = inputs[s])
      /\ \A s \in mine : inputs'[s] = {}
  BY <1>2, <1>3
<1>6. IntakeTyped'
  BY <1>1, <1>4, <1>5 DEF IntakeInv, IntakeTyped
<1>7. FilesNumbered'
  BY <1>1, <1>5 DEF IntakeInv, FilesInv, FilesNumbered
<1>8. FilesHeldOnce'
  BY <1>1, <1>5 DEF IntakeInv, FilesInv, FilesHeldOnce
<1>9. KeptAreStored'
  <2>1. \A s \in Sessions : s \notin mine => Kept(s)' = Kept(s)
    BY <1>1, <1>4 DEF Kept, Overdue, Converted, Unlocked
  <2> QED BY <1>1, <1>5, <2>1 DEF IntakeInv, FilesInv, KeptAreStored
<1>10. FilesAreKnown'
  <2> SUFFICES ASSUME NEW f \in storage \ lost'
               PROVE  \/ \E s \in Sessions : f \in inputs'[s]
                      \/ \E r \in Requests : req[r].at = "uploaded" /\ req[r].file = f
    BY <1>1 DEF FilesAreKnown, At
  <2>1. f \notin lost
    BY <1>2
  <2>2. ASSUME NEW s \in Sessions, f \in inputs[s]
        PROVE  f \in inputs'[s]
    <3>1. CASE s \in mine
      BY <1>2, <2>2, <3>1
    <3>2. CASE s \notin mine
      BY <1>5, <2>2, <3>2
    <3> QED BY <3>1, <3>2
  <2> QED BY <2>1, <2>2 DEF IntakeInv, FilesInv, FilesAreKnown, At
<1>11. LocksHold'
  <2>1. \A r \in Requests : At(r, "named") => Of(r) \in Sessions /\ Of(r) \notin mine
    BY <1>2, RequestsAreNamed DEF IntakeInv, SessionsInv, LocksHold, IntakeTyped, RequestShaped, At, Of, Unlocked
  <2>2. ASSUME NEW s \in Sessions, ~Unlocked(s)'
        PROVE  At(session[s].locker, "named")' /\ Of(session[s].locker)' = s
    <3>1. s \notin mine /\ session'[s] = session[s]
      BY <1>4, <2>2 DEF Unlocked
    <3> QED BY <1>1, <2>2, <3>1 DEF IntakeInv, SessionsInv, LocksHold, Unlocked, At, Of
  <2>3. \A r \in Requests : At(r, "named")' = At(r, "named") /\ Of(r)' = Of(r)
    BY <1>1 DEF At, Of
  <2> QED BY <1>1, <1>4, <2>1, <2>2, <2>3 DEF IntakeInv, SessionsInv, LocksHold
<1>12. PreviewsCharged'
  BY <1>1, <1>4 DEF IntakeInv, SessionsInv, PreviewsCharged, ChargedFor, Of
<1>13. PropertiesHold'
  BY <1>1, <1>4 DEF IntakeInv, IntakeTyped, SessionsInv, PropertiesHold, Converted
<1> QED BY <1>6, <1>7, <1>8, <1>9, <1>10, <1>11, <1>12, <1>13 DEF IntakeInv, FilesInv, SessionsInv

\* A restart undoes what was open; a file in a request's hands is lost.
LEMMA RestartKeeps == IntakeInv /\ Restart => IntakeInv'
<1> SUFFICES ASSUME IntakeInv, Restart PROVE IntakeInv'
  OBVIOUS
<1>1. /\ UNCHANGED <<clock, charged, properties, inputs, storage, uploads>>
      /\ req' = [r \in Requests |-> Idle] /\ cleaner' = [c \in Cleaners |-> {}]
      /\ lost' = lost \union {req[r].file : r \in {r \in Requests : At(r, "uploaded")}}
  BY DEF Restart, Resting
<1>2. session \in [Sessions -> RowSet]
  BY DEF IntakeInv, IntakeTyped
<1>3. /\ session' \in [Sessions -> RowSet]
      /\ \A s \in Sessions : /\ session'[s].status = session[s].status /\ session'[s].owner = session[s].owner
                             /\ session'[s].location = session[s].location /\ session'[s].locker = Nobody
  BY <1>2 DEF Restart, RowSet
<1>4. RequestShaped(Idle) /\ Idle.at = "idle"
  BY DEF RequestShaped, Idle, Positions
<1>5. \A r \in Requests : req'[r] = Idle
  BY <1>1
<1>6. IntakeTyped'
  BY <1>1, <1>3, <1>4 DEF IntakeInv, IntakeTyped
<1>7. FilesNumbered' /\ FilesHeldOnce'
  BY <1>1, <1>4, <1>5 DEF IntakeInv, FilesInv, FilesNumbered, FilesHeldOnce
<1>8. KeptAreStored'
  <2>1. \A s \in Sessions : Kept(s)' => Kept(s)
    BY <1>1, <1>3 DEF Kept, Overdue, Converted, Unlocked
  <2> QED BY <1>1, <2>1 DEF IntakeInv, FilesInv, KeptAreStored
<1>9. FilesAreKnown'
  <2> SUFFICES ASSUME NEW f \in storage \ lost'
               PROVE  \E s \in Sessions : f \in inputs[s]
    BY <1>1 DEF FilesAreKnown
  <2>1. f \notin lost /\ \A r \in Requests : At(r, "uploaded") => req[r].file # f
    BY <1>1
  <2> QED BY <2>1 DEF IntakeInv, FilesInv, FilesAreKnown
<1>10. LocksHold'
  BY <1>3, <1>4, <1>5 DEF LocksHold, Unlocked, At
<1>11. PreviewsCharged'
  BY <1>1, <1>3, <1>4, <1>5 DEF IntakeInv, SessionsInv, PreviewsCharged, ChargedFor, Of
<1>12. PropertiesHold'
  BY <1>1, <1>3 DEF IntakeInv, IntakeTyped, SessionsInv, PropertiesHold, Converted
<1> QED BY <1>6, <1>7, <1>8, <1>9, <1>10, <1>11, <1>12 DEF IntakeInv, FilesInv, SessionsInv

-----------------------------------------------------------------------------
\* A step of a request keeps the invariant.
LEMMA ServeKeeps ==
    ASSUME IntakeInv, NEW r \in Requests, Serve(r)
    PROVE  IntakeInv'
BY ArriveKeeps, RefuseKeeps, UploadKeeps, RecordKeeps, RecordFailsKeeps, LocationKeeps, ConfirmKeeps,
   ChargeKeeps, FieldsKeep, PreviewKeeps, CheckKeeps, InsertKeeps, RollBackKeeps, AgainKeeps, ReportKeeps
   DEF Serve

\* Nothing happens.
LEMMA NothingKeeps == IntakeInv /\ UNCHANGED vars => IntakeInv'
<1> SUFFICES ASSUME IntakeInv, UNCHANGED vars PROVE IntakeInv'
  OBVIOUS
<1>1. UNCHANGED <<session, clock, charged, properties, inputs, storage, uploads, lost, req, cleaner>>
  BY DEF vars, sessionVars, fileVars
<1>2. IntakeTyped'
  BY <1>1 DEF IntakeInv, IntakeTyped
<1>3. SessionsInv'
  BY <1>1, SessionsUntouched DEF IntakeInv
<1>4. FilesInv'
  <2>1. \A s \in Sessions : Kept(s)' => Kept(s)
    BY <1>1 DEF Kept, Overdue, Converted, Unlocked
  <2> QED BY <1>1, <2>1, FilesStay DEF fileVars
<1> QED BY <1>2, <1>3, <1>4 DEF IntakeInv

\* The invariant holds throughout, for any number of sessions, requests and
\* cleanup passes, and wherever the process dies.
THEOREM IntakeInvariant == Spec => []IntakeInv
<1>1. IntakeInv /\ [Next]_vars => IntakeInv'
  BY DayKeeps, CreateKeeps, RestartKeeps, ServeKeeps, ExpireKeeps, SweepKeeps, EraseKeeps, NothingKeeps
     DEF Next, Sweep
<1> QED BY <1>1, IntakeStarts, PTL DEF Spec

\* convert_to_user, expire_sessions, save_location - a converted session has
\* one property under a name of its own, is charged for, stands where its
\* property stands, and keeps its files.
THEOREM ConversionsAreSafe == Spec => []ConvertedProjectsAreWhole
<1>1. IntakeInv => ConvertedProjectsAreWhole
  <2> SUFFICES ASSUME IntakeInv PROVE ConvertedProjectsAreWhole
    OBVIOUS
  <2>1. \A p, q \in properties :
          p.session = q.session \/ (p.owner = q.owner /\ p.name = q.name) => p = q
    BY DEF IntakeInv, SessionsInv, PropertiesHold
  <2>2. \A p \in properties :
          Exists(p.session) => Converted(p.session) /\ p.location = session[p.session].location
    BY DEF IntakeInv, SessionsInv, PropertiesHold, Exists, Converted
  <2>3. \A s \in Sessions : Converted(s) => /\ \E u \in Users : <<s, u>> \in charged
                                            /\ \E p \in properties : p.session = s /\ p.owner = session[s].owner
                                            /\ inputs[s] \subseteq storage
    BY DEF IntakeInv, SessionsInv, FilesInv, PreviewsCharged, ChargedFor, PropertiesHold, KeptAreStored,
           Kept, Converted
  <2> QED BY <2>1, <2>2, <2>3 DEF ConvertedProjectsAreWhole
<1> QED BY <1>1, IntakeInvariant, PTL

\* add_file, delete_private_file - no file lies in the bucket that nobody
\* knows, but for those that a crash or an erasure has left.
THEOREM FilesAreSafe == Spec => []FilesAreKnown
<1>1. IntakeInv => FilesAreKnown
  BY DEF IntakeInv, FilesInv
<1> QED BY <1>1, IntakeInvariant, PTL
=============================================================================
