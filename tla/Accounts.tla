-------------------------------- MODULE Accounts --------------------------------
(***************************************************************************)
(* The life of an account: it is registered (InviteCodes), joins an        *)
(* organisation (OrganizationSeats) and is deleted on request:             *)
(* services/account_deletion.py, routes/privacy.py and the hourly          *)
(* scripts/account_retention_sweeper.py.  The tables of all three refer to *)
(* the identity, so each bears on what the others may still do.            *)
(***************************************************************************)
EXTENDS InviteCodes, OrganizationSeats, Sequences, SequencesExt

CONSTANTS Submissions,   \* deletion submissions
          Leavers,       \* users who ask for their deletion
          Batch          \* --limit of the sweeper

ASSUME DeletionAssumption ==
    /\ Leavers \subseteq Users
    /\ Batch \in Nat

VARIABLES
    ledger,    \* account_deletion_requests: [status, linked, expired]
    private,   \* users who own queries, exports, sessions or a named profile
    counted,   \* users whom the scope_key of a usage counter spells out
    named,     \* users whom a service task or an audit event names
    sub,       \* the submissions: [at, user]
    deadline,  \* 0, 1 once the primary data is due, 2 once the backup is
    batch      \* the sweeper's candidates

deletionVars == <<ledger, private, counted, named, sub, deadline, batch>>
vars         == <<identity, regVars, seatVars, deletionVars>>

NoRequest == [status |-> "none", linked |-> TRUE, expired |-> FALSE]
NoSub     == [at |-> "idle", user |-> NoUser]

DeletionInit ==
    /\ ledger = [u \in Users |-> NoRequest]
    /\ private = {}
    /\ counted = {}
    /\ named = {}
    /\ sub = [s \in Submissions |-> NoSub]
    /\ deadline = 0
    /\ batch = <<>>

ToStage(s, at)  == sub' = [sub EXCEPT ![s].at = at]
Answered(s)     == sub' = [sub EXCEPT ![s] = NoSub]
Who(s)          == sub[s].user
Mark(u, status) == ledger' = [ledger EXCEPT ![u].status = status]

\* A signed-in user leaves rows of his own, or his usage is counted; the
\* report worker may add a row.
UseService(u) ==
    /\ SignedIn(u)
    /\ \/ private' = private \union {u} /\ UNCHANGED counted
       \/ counted' = counted \union {u} /\ UNCHANGED private
    /\ UNCHANGED <<identity, regVars, seatVars, ledger, named, sub, deadline, batch>>

\* The user creates a service task, or does what the audit log records.
BeNamed(u) ==
    /\ SignedIn(u)
    /\ named' = named \union {u}
    /\ UNCHANGED <<identity, regVars, seatVars, ledger, private, counted, sub, deadline, batch>>

\* _open_or_resume, under an advisory lock on the user.
Open(s) ==
    /\ sub[s].at = "idle"
    /\ \E u \in Leavers :
          /\ SignedIn(u)
          /\ ledger' = [ledger EXCEPT ![u].status =
                           IF @ \in {"none", "failed"} THEN "pending" ELSE @]
          /\ sub' = [sub EXCEPT ![s] = [at |-> "opened", user |-> u]]
    /\ UNCHANGED <<identity, regVars, seatVars, private, counted, named, deadline, batch>>

SetExecuting(s) ==
    /\ sub[s].at = "opened"
    /\ ledger' = [ledger EXCEPT ![Who(s)].status =
                     IF @ \in {"pending", "executing"} THEN "executing" ELSE @]
    /\ ToStage(s, "executing")
    /\ UNCHANGED <<identity, regVars, seatVars, private, counted, named, deadline, batch>>

\* The global logout.
RevokeSessions(s) ==
    /\ sub[s].at = "executing" /\ SignedIn(Who(s))
    /\ ToStage(s, "revoked")
    /\ UNCHANGED <<identity, regVars, seatVars, ledger, private, counted, named, deadline, batch>>

\* _anonymize_database: one transaction.
Anonymize(s) ==
    /\ sub[s].at = "revoked"
    /\ private' = private \ {Who(s)}
    /\ counted' = counted \ {Who(s)}
    /\ members' = [members EXCEPT ![Who(s)] = NoMember]
    /\ ToStage(s, "anonymized")
    /\ UNCHANGED <<identity, regVars, invitations, seatLimit, txn, ledger, named, deadline, batch>>

\* Rows that keep auth.users from giving the identity up: a redeemed invite
\* code, an invitation the user wrote or accepted, a service task, an audit
\* event (its trigger refuses the update that would forget the actor).
Holds(u) ==
    \/ redemption[u].state = "redeemed"
    \/ \E i \in Invitations : \/ invitations[i].by = u
                              \/ invitations[i].user = u /\ invitations[i].state = "accepted"
    \/ u \in named

\* Mutant: an identity that is held counts as deleted.
DeleteUserIgnoringHolds(s) ==
    LET u == Who(s) IN
    /\ sub[s].at = "anonymized" /\ SignedIn(u)
    /\ identity' = IF Holds(u) THEN identity ELSE [identity EXCEPT ![u] = "deleted"]
    /\ private' = private \ {u}
    /\ members' = [members EXCEPT ![u] = NoMember]
    /\ ledger' = [ledger EXCEPT ![u].linked = FALSE]
    /\ ToStage(s, "deleted")
    /\ UNCHANGED <<regVars, invitations, seatLimit, txn, counted, named, deadline, batch>>

\* The provider deletes the identity; the foreign keys cascade or set null.
\* A counter has none (scope_key is text): one that was written since the
\* rows were anonymised stays.
DeleteUser(s) ==
    LET u == Who(s) IN
    /\ sub[s].at = "anonymized" /\ SignedIn(u) /\ ~Holds(u)
    /\ identity' = [identity EXCEPT ![u] = "deleted"]
    /\ private' = private \ {u}
    /\ members' = [members EXCEPT ![u] = NoMember]
    /\ ledger' = [ledger EXCEPT ![u].linked = FALSE]
    /\ ToStage(s, "deleted")
    /\ UNCHANGED <<regVars, invitations, seatLimit, txn, counted, named, deadline, batch>>

\* _complete has no condition on the status.
Complete202(s) ==
    /\ sub[s].at = "deleted"
    /\ Mark(Who(s), "completed")
    /\ Answered(s)
    /\ UNCHANGED <<identity, regVars, seatVars, private, counted, named, deadline, batch>>

\* A stage fails: the provider, the database, or an identity that is held or
\* already gone.  _mark_failed has no condition either; its own failure is
\* logged only.
Fail503(s) ==
    /\ sub[s].at \in {"executing", "revoked", "anonymized", "deleted"}
    /\ Mark(Who(s), "failed") \/ UNCHANGED ledger
    /\ Answered(s)
    /\ UNCHANGED <<identity, regVars, seatVars, private, counted, named, deadline, batch>>

\* The process dies; the request keeps the status it has.
Perish(s) ==
    /\ sub[s].at # "idle"
    /\ Answered(s)
    /\ UNCHANGED <<identity, regVars, seatVars, ledger, private, counted, named, deadline, batch>>

PassDeadline ==
    /\ deadline < 2
    /\ deadline' = deadline + 1
    /\ UNCHANGED <<identity, regVars, seatVars, ledger, private, counted, named, sub, batch>>

PrimaryDue == deadline >= 1
BackupDue  == deadline = 2

\* _candidate_rows: completed requests whose primary data or backup is due.
Candidates ==
    {u \in Users : ledger[u].status = "completed" /\ (PrimaryDue \/ (BackupDue /\ ~ledger[u].expired))}

SweepStart ==
    /\ batch = <<>>
    /\ \E rows \in SetToSeqs(Candidates) :
          /\ rows # <<>>
          /\ batch' = SubSeq(rows, 1, IF Len(rows) < Batch THEN Len(rows) ELSE Batch)
    /\ UNCHANGED <<identity, regVars, seatVars, ledger, private, counted, named, sub, deadline>>

\* _primary_data_is_anonymized reads the user off the request.
Anonymized(u) ==
    /\ ledger[u].linked
    /\ u \notin private \union counted
    /\ members[u] = NoMember

\* _process_candidate: lock the row, check it again, verify, record.
SweepRow ==
    LET u == Head(batch)
        records == /\ ledger[u].status = "completed"
                   /\ PrimaryDue => Anonymized(u)
                   /\ BackupDue /\ ~ledger[u].expired
    IN  /\ batch # <<>>
        /\ ledger' = IF records THEN [ledger EXCEPT ![u].expired = TRUE] ELSE ledger
        /\ batch' = Tail(batch)
        /\ UNCHANGED <<identity, regVars, seatVars, private, counted, named, sub, deadline>>

Execute(s) == SetExecuting(s) \/ RevokeSessions(s) \/ Anonymize(s) \/ DeleteUser(s)
              \/ Complete202(s) \/ Fail503(s)

DeletionNext ==
    \/ \E u \in Leavers : UseService(u) \/ BeNamed(u)
    \/ \E s \in Submissions : Open(s) \/ Execute(s) \/ Perish(s)
    \/ PassDeadline
    \/ SweepStart \/ SweepRow

Init ==
    /\ \E others \in {"unknown", "registered"} :
          identity = [u \in Users |-> IF u = Founder THEN "registered" ELSE others]
    /\ RegInit /\ SeatInit /\ DeletionInit

Next ==
    \/ RegNext /\ UNCHANGED <<seatVars, deletionVars>>
    \/ SeatNext /\ UNCHANGED <<regVars, deletionVars>>
    \/ DeletionNext

Spec == Init /\ [][Next]_vars

(***************************************************************************)
(* Properties.                                                             *)
(***************************************************************************)
\* Every variable stays within its type.
TypeOK ==
    /\ IdentitiesOK /\ RegTypeOK /\ SeatTypeOK
    /\ ledger \in [Users -> [status : {"none", "pending", "executing", "completed", "failed"},
                             linked : BOOLEAN, expired : BOOLEAN]]
    /\ private \subseteq Users /\ counted \subseteq Users
    /\ named \subseteq Users
    /\ sub \in [Submissions -> [at : {"idle", "opened", "executing", "revoked", "anonymized",
                                      "deleted"}, user : Users \union {NoUser}]]
    /\ deadline \in 0..2
    /\ batch \in Seq(Users)

\* Types hold, and every use a code has counted is a redemption row of its
\* own, within max_uses.
RegistrationsCount == TypeOK /\ UsesAreRedemptions

\* Once a deletion request says "completed", the identity is gone, and nobody,
\* the report worker and a late acceptance of an invitation included, leaves a
\* membership or a row that refers to it.  This is of the rows with a foreign
\* key.  A usage counter, which account_deletion.py:126 deletes and the
\* sweeper counts as private (account_retention_sweeper.py:134), has none: the
\* one counted after Anonymize outlives a completed deletion.
ErasedWhenCompleted ==
    \A u \in Users :
        ledger[u].status = "completed"
        => identity[u] = "deleted" /\ u \notin private /\ members[u] = NoMember
=============================================================================
