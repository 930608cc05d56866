--------------------------- MODULE OrganizationSeats ---------------------------
(***************************************************************************)
(* Invitations and seats of one organisation (backend/app/org/routes.py,   *)
(* migrations 20260905000100 and 20260916000300).  A transaction is a      *)
(* process; a statement is an action where another transaction may come in *)
(* between.  accept locks its invitation and, through the join, the        *)
(* organisation; create and revoke lock no organisation.                   *)
(***************************************************************************)
EXTENDS Identities, Naturals, FiniteSets

CONSTANTS Txns,         \* transactions of create and accept
          LastInvitation,  \* bound on the invitations that are written
          Staff,        \* the back office
          Founder,      \* the user whose organisation it is
          SeatLimits,   \* seat limits the organisation's plans give
          SeatCap,      \* the trigger's cap on active members
          Roles         \* among "owner", "admin" and "member"

ASSUME SeatAssumption ==
    /\ IsFiniteSet(Users)
    /\ Founder \in Users
    /\ {"owner", "member"} \subseteq Roles
    /\ SeatLimits \subseteq Nat
    /\ LastInvitation \in Nat

Invitations  == 1..LastInvitation
NoInvitation == 0
Managers     == {"owner", "admin"}

VARIABLES
    members,      \* organization_members: [status, role]
    invitations,  \* organization_invitations: [user, role, state, by]
    seatLimit,    \* what the live subscription's plan allows
    txn           \* [at, invitation, user, role, limit]

seatVars == <<members, invitations, seatLimit, txn>>

NoMember == [status |-> "none", role |-> "member"]
Unwritten == [user |-> Founder, role |-> "member", state |-> "none", by |-> Staff]
NoTxn    == [at |-> "idle", invitation |-> NoInvitation, user |-> Founder, role |-> "member",
             by |-> Staff, limit |-> 0]

ActiveMembers   == {u \in Users : members[u].status = "active"}
IsManager(u)    == u \in ActiveMembers /\ members[u].role \in Managers
Pending(i)      == invitations[i].state = "open"
PendingInvitations == {i \in Invitations : Pending(i)}

\* The back office has created the organisation, and its founder has
\* accepted the owner's invitation.
SeatInit ==
    /\ members = [u \in Users |-> IF u = Founder THEN [status |-> "active", role |-> "owner"]
                                  ELSE NoMember]
    /\ invitations = [i \in Invitations |->
          IF i = 1 THEN [user |-> Founder, role |-> "owner", state |-> "accepted", by |-> Staff]
          ELSE Unwritten]
    /\ seatLimit \in SeatLimits
    /\ txn = [t \in Txns |-> NoTxn]

Reset(t) == txn' = [txn EXCEPT ![t] = NoTxn]

\* create: the manager, the duplicate and the seats are read, nothing is
\* locked.
CreateCheck(t) ==
    /\ txn[t].at = "idle"
    /\ \E manager, u \in Users, r \in Roles :
          /\ SignedIn(manager) /\ IsManager(manager)
          /\ ~\E i \in PendingInvitations : invitations[i].user = u
          /\ Cardinality(ActiveMembers) + Cardinality(PendingInvitations) < seatLimit
          /\ txn' = [txn EXCEPT ![t] = [at |-> "checked", invitation |-> NoInvitation,
                                        user |-> u, role |-> r, by |-> manager, limit |-> 0]]
    /\ UNCHANGED <<members, invitations, seatLimit, identity>>

\* Nobody holds the organisation's row: an insert that refers to it waits.
OrganizationFree(t) == \A s \in Txns \ {t} : txn[s].at \notin {"locked", "admitted"}

CreateInsert(t) ==
    /\ txn[t].at = "checked" /\ OrganizationFree(t)
    /\ SignedIn(txn[t].by)
    /\ \E i \in Invitations :
          /\ \A j \in Invitations : j < i <=> invitations[j].state # "none"
          /\ invitations' = [invitations EXCEPT ![i] =
                [user |-> txn[t].user, role |-> txn[t].role, state |-> "open",
                 by |-> txn[t].by]]
    /\ Reset(t)
    /\ UNCHANGED <<members, seatLimit, identity>>

\* Mutant: the select takes no lock.
LockFreeAlways(t) == TRUE

LockFree(t) == OrganizationFree(t)

\* accept: "for update" locks the invitation and the organisation.
AcceptLock(t) ==
    /\ txn[t].at = "idle" /\ LockFree(t)
    /\ \E i \in Invitations :
          /\ invitations[i].state # "none" /\ SignedIn(invitations[i].user)
          /\ txn' = [txn EXCEPT ![t] = [at |-> "locked", invitation |-> i,
                        user |-> invitations[i].user, role |-> invitations[i].role,
                        by |-> invitations[i].by, limit |-> 0]]
    /\ UNCHANGED <<members, invitations, seatLimit, identity>>

IsMember(u) == members[u].status # "none"

\* Already accepted, revoked or expired: answered, nothing written.
AcceptRefused(t) ==
    /\ txn[t].at = "locked"
    /\ ~Pending(txn[t].invitation)
    /\ Reset(t)
    /\ UNCHANGED <<members, invitations, seatLimit, identity>>

\* A member already: the invitation is used up, the membership stays.
AcceptMember(t) ==
    /\ txn[t].at = "locked"
    /\ Pending(txn[t].invitation)
    /\ IsMember(txn[t].user)
    /\ invitations' = [invitations EXCEPT ![txn[t].invitation].state = "accepted"]
    /\ Reset(t)
    /\ UNCHANGED <<members, seatLimit, identity>>

SeatLeft == Cardinality(ActiveMembers) < seatLimit

AcceptFull(t) ==
    /\ txn[t].at = "locked"
    /\ Pending(txn[t].invitation) /\ ~IsMember(txn[t].user) /\ ~SeatLeft
    /\ Reset(t)
    /\ UNCHANGED <<members, invitations, seatLimit, identity>>

AcceptAdmit(t) ==
    /\ txn[t].at = "locked"
    /\ Pending(txn[t].invitation) /\ ~IsMember(txn[t].user) /\ SeatLeft
    /\ txn' = [txn EXCEPT ![t].at = "admitted", ![t].limit = seatLimit]
    /\ UNCHANGED <<members, invitations, seatLimit, identity>>

\* The unique indexes and the trigger, when the row is inserted.
Insertable(u, r) ==
    /\ ~IsMember(u)
    /\ r = "owner" => \A v \in ActiveMembers : members[v].role # "owner"
    /\ Cardinality(ActiveMembers) < SeatCap
    /\ SignedIn(u)

AcceptInsert(t) ==
    /\ txn[t].at = "admitted"
    /\ Insertable(txn[t].user, txn[t].role)
    /\ members' = [members EXCEPT ![txn[t].user] = [status |-> "active", role |-> txn[t].role]]
    /\ invitations' = [invitations EXCEPT ![txn[t].invitation].state = "accepted"]
    /\ Reset(t)
    /\ UNCHANGED <<seatLimit, identity>>

\* A constraint refuses the row, or the connection breaks.
AcceptAborts(t) ==
    /\ txn[t].at \in {"checked", "locked", "admitted"}
    /\ Reset(t)
    /\ UNCHANGED <<members, invitations, seatLimit, identity>>

\* Mutant: revoke does not wait for the invitation's lock.
InvitationFreeAlways(i) == TRUE

InvitationFree(i) == \A s \in Txns : txn[s].invitation # i

\* revoke locks the invitation's row, checks it and writes it.
Revoke(i) ==
    /\ InvitationFree(i)
    /\ \E u \in Users : SignedIn(u) /\ IsManager(u)
    /\ Pending(i)
    /\ invitations' = [invitations EXCEPT ![i].state = "revoked"]
    /\ UNCHANGED <<members, seatLimit, txn, identity>>

\* INVITATION_TTL passes.
Expire(i) ==
    /\ Pending(i)
    /\ invitations' = [invitations EXCEPT ![i].state = "expired"]
    /\ UNCHANGED <<members, seatLimit, txn, identity>>

\* The subscription starts or lapses.
ChangeSeatLimit ==
    /\ seatLimit' \in SeatLimits \ {seatLimit}
    /\ UNCHANGED <<members, invitations, txn, identity>>

SeatNext ==
    \/ \E t \in Txns : \/ CreateCheck(t) \/ CreateInsert(t)
                       \/ AcceptLock(t) \/ AcceptRefused(t) \/ AcceptMember(t) \/ AcceptFull(t)
                       \/ AcceptAdmit(t) \/ AcceptInsert(t) \/ AcceptAborts(t)
    \/ \E i \in Invitations : Revoke(i) \/ Expire(i)
    \/ ChangeSeatLimit

SeatTypeOK ==
    /\ members \in [Users -> [status : {"none", "active", "inactive"}, role : Roles]]
    /\ invitations \in [Invitations ->
                          [user : Users, role : Roles, by : Users \union {Staff},
                           state : {"none", "open", "expired", "accepted", "revoked"}]]
    /\ seatLimit \in SeatLimits
    /\ txn \in [Txns -> [at : {"idle", "checked", "locked", "admitted"}, user : Users,
                         invitation : Invitations \union {NoInvitation}, role : Roles,
                         by : Users \union {Staff}, limit : SeatLimits \union {0}]]

\* A member who joins takes a seat that the limit he was checked against
\* still leaves, however many invitees accept together.
SeatsRespected ==
    [][\A t \in Txns :
          AcceptInsert(t) => Cardinality(ActiveMembers') <= txn[t].limit]_seatVars

\* An invitation that was accepted or revoked stays so, and one that brings
\* in a member was neither before.
InvitationsEndOnce ==
    [][\A i \in Invitations :
          invitations[i].state \in {"accepted", "revoked"}
          => invitations'[i].state = invitations[i].state]_seatVars

\* The rules of the seats: the limit holds however many invitees accept
\* together, and an invitation has one end.
SeatRules == SeatsRespected /\ InvitationsEndOnce
=============================================================================
