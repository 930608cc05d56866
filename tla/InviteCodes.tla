------------------------------ MODULE InviteCodes ------------------------------
(***************************************************************************)
(* Consumer registration (backend/app/invites.py, routes/invites.py,       *)
(* rate_limit.py, migrations 20260923000100/200): a request passes the     *)
(* hourly limit, claims a use of its invite code, has the provider create  *)
(* the user, and completes or releases the claim.  Each statement commits  *)
(* by itself; the process may die between any two.                         *)
(***************************************************************************)
EXTENDS Identities, Naturals, FiniteSets

CONSTANTS Registrations,  \* registration requests
          Codes, NoCode,
          MaxUses,        \* max_uses of a code
          HourlyLimit,    \* INVITE_REGISTER_RATE_LIMIT_PER_HOUR
          LastHour        \* bound on the clock

ASSUME RegistrationAssumption ==
    /\ IsFiniteSet(Users)
    /\ NoCode \notin Codes
    /\ {MaxUses, HourlyLimit} \subseteq Nat
    /\ LastHour \in Nat \ {0}

VARIABLES
    usedCount,   \* invite_codes.used_count
    enabled,     \* codes that are enabled and have not expired
    redemption,  \* invite_redemptions, one row per mail address
    hits,        \* shared_rate_limits: the request_count of this hour's window
    hour,
    reg          \* the requests: [at, user, code]

codeVars == <<usedCount, enabled, redemption>>
regVars  == <<codeVars, hits, hour, reg>>

NoRow  == [state |-> "none", code |-> NoCode]
NoUser == "nobody"
Resting == [at |-> "idle", user |-> NoUser, code |-> NoCode]

RegInit ==
    /\ usedCount = [c \in Codes |-> 0]
    /\ enabled = Codes
    /\ redemption = [u \in Users |-> NoRow]
    /\ hits = 0
    /\ hour = 1
    /\ reg = [q \in Registrations |-> Resting]

Step(q, to) == reg' = [reg EXCEPT ![q].at = to]
Finish(q)   == reg' = [reg EXCEPT ![q] = Resting]
At(q, at)   == reg[q].at = at
UsesCode(q) == reg[q].code # NoCode

\* The upsert of the counter updates no row at the limit: 429.
Arrive(q) ==
    /\ At(q, "idle") /\ hits < HourlyLimit
    /\ hits' = hits + 1
    /\ \E u \in Users, c \in Codes \union {NoCode} :
          reg' = [reg EXCEPT ![q] = [at |-> "counted", user |-> u, code |-> c]]
    /\ UNCHANGED <<codeVars, hour, identity>>

\* Mutant: the limit is compared after the use that reaches it.
ClaimableOnceMore(u, c) ==
    /\ c \in enabled
    /\ usedCount[c] <= MaxUses
    /\ redemption[u] = NoRow

Claimable(u, c) ==
    /\ c \in enabled
    /\ usedCount[c] < MaxUses
    /\ redemption[u] = NoRow

\* reserve_invite_code; a row of the same address inserted meanwhile fails on
\* the unique index and takes the increment back.
Claim(q) ==
    LET u == reg[q].user
        c == reg[q].code
    IN  /\ At(q, "counted") /\ UsesCode(q)
        /\ Claimable(u, c)
        /\ usedCount' = [usedCount EXCEPT ![c] = @ + 1]
        /\ redemption' = [redemption EXCEPT ![u] = [state |-> "reserved", code |-> c]]
        /\ Step(q, "reserved")
        /\ UNCHANGED <<enabled, hits, hour, identity>>

\* invite_code_invalid, _disabled, _expired, _exhausted, _unavailable
Unclaimable(q) ==
    /\ At(q, "counted") /\ UsesCode(q)
    /\ ~Claimable(reg[q].user, reg[q].code)
    /\ Finish(q)
    /\ UNCHANGED <<codeVars, hits, hour, identity>>

MayCreate(q) == At(q, "reserved") \/ (At(q, "counted") /\ ~UsesCode(q))

\* _admin_create_user answers with the new user.
Create(q) ==
    /\ MayCreate(q)
    /\ identity[reg[q].user] = "unknown"
    /\ identity' = [identity EXCEPT ![reg[q].user] = "registered"]
    /\ IF UsesCode(q) THEN Step(q, "created") ELSE Finish(q)
    /\ UNCHANGED <<codeVars, hits, hour>>

Failed(q) == IF UsesCode(q) THEN Step(q, "failed") ELSE Finish(q)

\* The provider refuses (the account exists) or cannot be reached.
CreateFails(q) ==
    /\ MayCreate(q)
    /\ Failed(q)
    /\ UNCHANGED <<codeVars, hits, hour, identity>>

\* The user is created and the answer is lost or late.
AnswerLost(q) ==
    /\ MayCreate(q)
    /\ identity[reg[q].user] = "unknown"
    /\ identity' = [identity EXCEPT ![reg[q].user] = "registered"]
    /\ Failed(q)
    /\ UNCHANGED <<codeVars, hits, hour>>

\* complete_invite_redemption
Complete(q) ==
    /\ At(q, "created")
    /\ identity[reg[q].user] = "registered"
    /\ redemption' = [redemption EXCEPT ![reg[q].user].state = "redeemed"]
    /\ Finish(q)
    /\ UNCHANGED <<usedCount, enabled, hits, hour, identity>>

\* The new user is gone again: the foreign key refuses the update.
CompleteFails(q) ==
    /\ At(q, "created")
    /\ identity[reg[q].user] # "registered"
    /\ Step(q, "failed")
    /\ UNCHANGED <<codeVars, hits, hour, identity>>

\* Mutant: the row is deleted and the use is not given back.
ReleaseKeepsUse(q) ==
    LET u == reg[q].user IN
    /\ At(q, "failed")
    /\ redemption[u].state = "reserved"
    /\ redemption' = [redemption EXCEPT ![u] = NoRow]
    /\ Finish(q)
    /\ UNCHANGED <<usedCount, enabled, hits, hour, identity>>

\* release_invite_reservation
Release(q) ==
    LET u == reg[q].user IN
    /\ At(q, "failed")
    /\ redemption[u].state = "reserved"
    /\ redemption' = [redemption EXCEPT ![u] = NoRow]
    /\ usedCount' = [usedCount EXCEPT ![reg[q].code] = @ - 1]
    /\ Finish(q)
    /\ UNCHANGED <<enabled, hits, hour, identity>>

\* The process dies, or its connection does.
Die(q) ==
    /\ ~At(q, "idle")
    /\ Finish(q)
    /\ UNCHANGED <<codeVars, hits, hour, identity>>

\* The back office disables or enables a code (or it expires).
SetCodeStatus(c) ==
    /\ enabled' = IF c \in enabled THEN enabled \ {c} ELSE enabled \union {c}
    /\ UNCHANGED <<usedCount, redemption, hits, hour, reg, identity>>

NextHour ==
    /\ hour < LastHour
    /\ hour' = hour + 1
    /\ hits' = 0
    /\ UNCHANGED <<codeVars, reg, identity>>

Advance(q) == Claim(q) \/ Unclaimable(q) \/ Create(q) \/ CreateFails(q) \/ AnswerLost(q)
              \/ Complete(q) \/ CompleteFails(q) \/ Release(q)

RegNext ==
    \/ \E q \in Registrations : Arrive(q) \/ Advance(q) \/ Die(q)
    \/ \E c \in Codes : SetCodeStatus(c)
    \/ NextHour

RegTypeOK ==
    /\ usedCount \in [Codes -> 0..MaxUses]
    /\ enabled \subseteq Codes
    /\ redemption \in [Users -> [state : {"none", "reserved", "redeemed"},
                                 code : Codes \union {NoCode}]]
    /\ hits \in 0..HourlyLimit
    /\ hour \in 1..LastHour
    /\ reg \in [Registrations ->
                 [at : {"idle", "counted", "reserved", "created", "failed"},
                  user : Users \union {NoUser}, code : Codes \union {NoCode}]]

\* The uses a code has counted are the redemption rows it has, and never more
\* than max_uses, whatever fails after the claim and in whatever order two
\* requests reserve, release and die.
UsesAreRedemptions ==
    \A c \in Codes :
        /\ usedCount[c] = Cardinality({u \in Users : redemption[u].code = c})
        /\ usedCount[c] <= MaxUses
=============================================================================
