------------------------------ MODULE BackOffice ------------------------------
(***************************************************************************)
(* The back office (backend/app/admin): who may do what, the role          *)
(* assignments, the members' profile columns, the registry of collection   *)
(* sources and the audit log.                                              *)
(*                                                                         *)
(* A request reads the caller's roles on a connection of its own and then  *)
(* runs one transaction; what happens between the two, and between the     *)
(* statements of a transaction, is another request's.  A transaction that  *)
(* is one statement and its audit row is one action.                       *)
(***************************************************************************)
EXTENDS Naturals, Sequences, FiniteSets

CONSTANTS Staff,       \* users
          Founders,    \* those the database was set up with as super_admin
          Roles,       \* among super_admin, member_ops, data_ops, finance
          Calls,       \* requests served at the same time
          Sources,     \* source keys of the registry
          MaxAudit     \* bound on the length of the audit log

ASSUME BackOfficeAssumption ==
    /\ Founders \subseteq Staff
    /\ "super_admin" \in Roles
    /\ MaxAudit \in Nat

VARIABLES
    roles,    \* internal_role_assignments: [user -> [role -> its state]]
    profile,  \* user_profiles: status and audience
    sources,  \* collection_sources: [key -> [known, enabled]]
    created,  \* how many organisations, batches of invite codes and runs were made
    audit,    \* audit_events, in the order of their commits
    call       \* the requests: [at, actor, op, seen, began]

deskVars == <<roles, profile, sources, created>>

Active     == {"permanent", "temporary"}
Fields     == {"status", "audience"}
Vocabulary == [status |-> {"active", "suspended"}, audience |-> {"c", "b"}]
Defaults   == [status |-> "active", audience |-> "c"]

Things     == {"organization", "invite_codes", "collection_run"}

MemberKinds == {"profile", "organization", "invite_codes"}
DataKinds   == {"source", "collection_run"}

\* Mutant: whoever looks after members may also assign roles.
PermitsMemberOps(kind) ==
    CASE kind \in MemberKinds \union {"grant", "revoke"} -> {"member_ops", "super_admin"}
      [] kind \in DataKinds -> {"data_ops", "super_admin"}
      [] OTHER -> {"finance", "super_admin"}

\* The roles a route lists; what is not here is a pricing route.
Permits(kind) ==
    CASE kind \in {"grant", "revoke"} -> {"super_admin"}
      [] kind \in MemberKinds -> {"member_ops", "super_admin"}
      [] kind \in DataKinds -> {"data_ops", "super_admin"}
      [] OTHER -> {"finance", "super_admin"}

Op(kind, target, item, value) == [kind |-> kind, target |-> target, item |-> item, value |-> value]

DeskOps ==
    {Op("grant", u, r, v) : u \in Staff, r \in Roles, v \in Active}
    \union {Op("revoke", u, r, "none") : u \in Staff, r \in Roles}
    \union (UNION {{Op("profile", u, f, v) : u \in Staff, v \in Vocabulary[f]} : f \in Fields})
    \union {Op("source", k, "enabled", v) : k \in Sources, v \in BOOLEAN}
    \union {Op(thing, "none", "none", "none") : thing \in Things}

NoOp == Op("none", "none", "none", "none")
Idle == [at |-> "idle", actor |-> "none", op |-> NoOp, seen |-> "none", began |-> 0]

DeskInit ==
    /\ roles = [u \in Staff |-> [r \in Roles |->
                   IF u \in Founders /\ r = "super_admin" THEN "permanent" ELSE "none"]]
    /\ profile = [u \in Staff |-> Defaults]
    /\ sources = [k \in Sources |-> [known |-> FALSE, enabled |-> FALSE]]
    /\ created = [thing \in Things |-> 0]
    /\ audit = << >>
    /\ call = [q \in Calls |-> Idle]

Holds(u, r)  == roles[u][r] \in Active
Asked(q)     == call[q].op
Is(q, kind)  == call[q].at = "authorized" /\ Asked(q).kind = kind
Answered(q)  == call' = [call EXCEPT ![q] = Idle]
ToStage(q, at, seen) ==
    call' = [call EXCEPT ![q].at = at, ![q].seen = seen,
                       ![q].began = IF call[q].at = "authorized" THEN Len(audit) ELSE @]

\* occurred_at is the time the transaction began, not the order of commits.
Entry(q, previous) ==
    [actor |-> call[q].actor, op |-> Asked(q), previous |-> previous,
     began |-> IF call[q].at = "authorized" THEN Len(audit) ELSE call[q].began]

Audited(q, previous) == audit' = Append(audit, Entry(q, previous))

\* revoke_internal_role: nobody takes super_admin from himself.
SelfLockout(u, op) == op.kind = "revoke" /\ op.target = u /\ op.item = "super_admin"

\* Room for what the requests under way will write.
Room == Len(audit) + Cardinality({q \in Calls : call[q].at # "idle"}) < MaxAudit

\* require_admin_role: the roles that are active now.
Authorize(q, ops) ==
    /\ call[q].at = "idle" /\ Room
    /\ \E u \in Staff, op \in ops :
          /\ \E r \in Permits(op.kind) \intersect Roles : Holds(u, r)
          /\ ~SelfLockout(u, op)
          /\ call' = [call EXCEPT ![q] = [at |-> "authorized", actor |-> u, op |-> op,
                                        seen |-> "none", began |-> 0]]
    /\ UNCHANGED <<deskVars, audit>>

\* 404, 409, a constraint, or a lost connection: nothing is written.
Reject(q) ==
    /\ call[q].at # "idle"
    /\ Answered(q)
    /\ UNCHANGED <<deskVars, audit>>

\* grant_role: an expired assignment still blocks the pair.
GrantRole(q) ==
    /\ Is(q, "grant")
    /\ roles[Asked(q).target][Asked(q).item] = "none"
    /\ roles' = [roles EXCEPT ![Asked(q).target][Asked(q).item] = Asked(q).value]
    /\ Audited(q, "none") /\ Answered(q)
    /\ UNCHANGED <<profile, sources, created>>

RevokeRole(q) ==
    /\ Is(q, "revoke")
    /\ roles[Asked(q).target][Asked(q).item] # "none"
    /\ roles' = [roles EXCEPT ![Asked(q).target][Asked(q).item] = "none"]
    /\ Audited(q, "none") /\ Answered(q)
    /\ UNCHANGED <<profile, sources, created>>

\* expires_at passes.
Expire(u, r) ==
    /\ roles[u][r] = "temporary"
    /\ roles' = [roles EXCEPT ![u][r] = "expired"]
    /\ UNCHANGED <<profile, sources, created, audit, call>>

\* Mutant: the profile is read without "for update".
ProfileFreeAlways(q) == TRUE

ProfileFree(q) ==
    \A p \in Calls \ {q} : call[p].at = "read" => Asked(p).target # Asked(q).target

\* set_member_status, set_member_audience: read for update ...
ReadProfile(q) ==
    /\ Is(q, "profile") /\ ProfileFree(q)
    /\ ToStage(q, "read", profile[Asked(q).target][Asked(q).item])
    /\ UNCHANGED <<deskVars, audit>>

\* ... then answer "unchanged", or write the column and the audit row.
ProfileUnchanged(q) ==
    /\ call[q].at = "read" /\ call[q].seen = Asked(q).value
    /\ Answered(q)
    /\ UNCHANGED <<deskVars, audit>>

WriteProfile(q) ==
    /\ call[q].at = "read" /\ call[q].seen # Asked(q).value
    /\ profile' = [profile EXCEPT ![Asked(q).target][Asked(q).item] = Asked(q).value]
    /\ Audited(q, call[q].seen) /\ Answered(q)
    /\ UNCHANGED <<roles, sources, created>>

\* upsert_collection_source: the last writer's row, whole.
UpsertSource(q) ==
    /\ Is(q, "source")
    /\ sources' = [sources EXCEPT ![Asked(q).target] = [known |-> TRUE, enabled |-> Asked(q).value]]
    /\ Audited(q, "none") /\ Answered(q)
    /\ UNCHANGED <<roles, profile, created>>

\* create_organization (with the owner's invitation), create_invite_codes,
\* enqueue_collection_run: new rows, and one audit row for all of them.
Create(q) ==
    /\ \E thing \in Things : Is(q, thing) /\ created' = [created EXCEPT ![thing] = @ + 1]
    /\ Audited(q, "none") /\ Answered(q)
    /\ UNCHANGED <<roles, profile, sources>>

Serve(q) == Reject(q) \/ GrantRole(q) \/ RevokeRole(q) \/ ReadProfile(q) \/ ProfileUnchanged(q)
            \/ WriteProfile(q) \/ UpsertSource(q) \/ Create(q)

DeskNext ==
    \/ \E q \in Calls : Authorize(q, DeskOps) \/ Serve(q)
    \/ \E u \in Staff, r \in Roles : Expire(u, r)

(***************************************************************************)
(* Properties.                                                             *)
(***************************************************************************)
DeskTypeOK ==
    /\ roles \in [Staff -> [Roles -> Active \union {"none", "expired"}]]
    /\ profile \in [Staff -> [status : Vocabulary.status, audience : Vocabulary.audience]]
    /\ sources \in [Sources -> [known : BOOLEAN, enabled : BOOLEAN]]
    /\ created \in [Things -> Nat]

Entries(kinds, target, item) ==
    {n \in 1..Len(audit) : /\ audit[n].op.kind \in kinds
                           /\ audit[n].op.target = target /\ audit[n].op.item = item}

IsLast(n, ns) == n \in ns /\ \A m \in ns : m <= n

\* The audit log alone tells who holds a role, every profile column, every
\* registered source and how much was created, whatever requests overlapped:
\* the last entry about a thing says what it is.
AuditTellsState ==
    /\ \A u \in Staff, r \in Roles :
          LET ns == Entries({"grant", "revoke"}, u, r) IN
          IF ns = {}
          THEN roles[u][r] = IF u \in Founders /\ r = "super_admin" THEN "permanent" ELSE "none"
          ELSE \E n \in ns : IsLast(n, ns) /\ (audit[n].op.kind = "grant" <=> roles[u][r] # "none")
    /\ \A u \in Staff, f \in Fields :
          LET ns == Entries({"profile"}, u, f) IN
          IF ns = {} THEN profile[u][f] = Defaults[f]
          ELSE \E n \in ns : IsLast(n, ns) /\ audit[n].op.value = profile[u][f]
    /\ \A k \in Sources :
          LET ns == Entries({"source"}, k, "enabled") IN
          \/ ns = {} /\ ~sources[k].known
          \/ \E n \in ns : IsLast(n, ns) /\ audit[n].op.value = sources[k].enabled
    /\ \A thing \in Things : created[thing] = Cardinality(Entries({thing}, "none", "none"))

\* Every change of a profile column starts from the value the change before it
\* has left, so the log has no gap although two administrators edit one member.
ChangesAreChained ==
    \A n \in 1..Len(audit) :
        LET op == audit[n].op
            before == {m \in Entries({"profile"}, op.target, op.item) : m < n}
        IN  op.kind = "profile" =>
              /\ audit[n].previous # op.value
              /\ IF before = {} THEN audit[n].previous = Defaults[op.item]
                 ELSE \E m \in before : IsLast(m, before) /\ audit[m].op.value = audit[n].previous

\* The log is complete: it tells the state, and its changes follow each other.
AuditIsComplete == AuditTellsState /\ ChangesAreChained

\* Authority over roles is handed down: whoever has granted or revoked one was
\* set up as super_admin or was granted super_admin earlier in the log.
AuthorityIsGranted ==
    \A n \in 1..Len(audit) :
        audit[n].op.kind \in {"grant", "revoke"} =>
            \/ audit[n].actor \in Founders
            \/ \E m \in 1..(n - 1) : /\ audit[m].op.kind = "grant"
                                     /\ audit[m].op.target = audit[n].actor
                                     /\ audit[m].op.item = "super_admin"

\* The console answers for what it did: the log is complete, and authority in
\* it is handed down.
ConsoleIsAccountable == DeskTypeOK /\ AuditIsComplete /\ AuthorityIsGranted
=============================================================================
