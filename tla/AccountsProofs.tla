---------------------------- MODULE AccountsProofs ----------------------------
(***************************************************************************)
(* Proofs about Accounts: the uses of an invite code are its redemption    *)
(* rows, a deletion that says it is complete has erased the user, and the  *)
(* seats and invitations of an organisation keep their rules, for any      *)
(* users, codes, requests and limits.                                      *)
(***************************************************************************)
EXTENDS Accounts, FiniteSetTheorems, TLAPS

(***************************************************************************)
(* The inductive invariant.                                                *)
(***************************************************************************)
\* Requests that have claimed a use and neither completed nor released it.
Holding(q) == reg[q].at \in {"reserved", "created", "failed"}

\* Such a request has the reservation of its address, and has it alone.
ClaimsAreHeld ==
    /\ \A u \in Users : redemption[u].state = "none" <=> redemption[u].code = NoCode
    /\ \A q \in Registrations : reg[q].at # "idle" => reg[q].user \in Users
    /\ \A q \in Registrations : Holding(q) =>
          /\ UsesCode(q)
          /\ redemption[reg[q].user] = [state |-> "reserved", code |-> reg[q].code]
    /\ \A p, q \in Registrations :
          Holding(p) /\ Holding(q) /\ reg[p].user = reg[q].user => p = q

\* Transactions that have locked an invitation and the organisation.
Accepting(t) == txn[t].at \in {"locked", "admitted"}

\* One transaction accepts at a time; once it has found a seat and a pending
\* invitation, the seat stays free and the invitation can at most expire.
AcceptsExclude ==
    /\ \A s, t \in Txns : Accepting(s) /\ Accepting(t) => s = t
    /\ \A t \in Txns : Accepting(t) => txn[t].invitation \in Invitations
    /\ \A t \in Txns : txn[t].at = "admitted" =>
          /\ invitations[txn[t].invitation].state \in {"open", "expired"}
          /\ Cardinality(ActiveMembers) < txn[t].limit

SeatInv == SeatTypeOK /\ AcceptsExclude

\* A deleted identity has no rows and is what every completed request is about.
DeletedIsErased ==
    /\ \A s \in Submissions : sub[s].at # "idle" => Who(s) \in Users
    /\ \A s \in Submissions : sub[s].at = "deleted" => identity[Who(s)] = "deleted"
    /\ \A u \in Users : identity[u] = "deleted" => u \notin private /\ members[u] = NoMember
    /\ \A u \in Users : ledger[u].status = "completed" => identity[u] = "deleted"

RegInv == IdentitiesOK /\ RegTypeOK /\ UsesAreRedemptions /\ ClaimsAreHeld

IInv == TypeOK /\ UsesAreRedemptions /\ ClaimsAreHeld /\ AcceptsExclude /\ DeletedIsErased

(***************************************************************************)
(* Registration.                                                           *)
(***************************************************************************)
RowsOf(c) == {u \in Users : redemption[u].code = c}

\* A claim adds a row of its code and counts it.
LEMMA ClaimCounts ==
  ASSUME RegInv, NEW q \in Registrations, Claim(q)
  PROVE  UsesAreRedemptions' /\ usedCount' \in [Codes -> 0..MaxUses]
<1> DEFINE u == reg[q].user
           c == reg[q].code
<1> USE RegistrationAssumption DEF RegInv, RegTypeOK
<1>1. /\ u \in Users /\ c \in Codes
      /\ c # NoCode /\ usedCount[c] < MaxUses /\ usedCount[c] \in Nat
      /\ redemption[u].code = NoCode
  BY DEF Claim, At, UsesCode, Claimable, ClaimsAreHeld, NoRow
<1>2. /\ usedCount' = [usedCount EXCEPT ![c] = usedCount[c] + 1]
      /\ redemption' = [redemption EXCEPT ![u] = [state |-> "reserved", code |-> c]]
  BY DEF Claim
<1>3. usedCount' \in [Codes -> 0..MaxUses]
  BY <1>1, <1>2
<1> HIDE DEF u, c
<1>4. ASSUME NEW d \in Codes
      PROVE  usedCount'[d] = Cardinality({v \in Users : redemption'[v].code = d})
  <2>1. usedCount[d] = Cardinality(RowsOf(d)) /\ IsFiniteSet(RowsOf(d))
    BY FS_Subset DEF UsesAreRedemptions, RowsOf
  <2>2. CASE d = c
    <3>1. {v \in Users : redemption'[v].code = d} = RowsOf(d) \union {u} /\ u \notin RowsOf(d)
      BY <1>1, <1>2, <2>2 DEF RowsOf
    <3>2. usedCount'[d] = usedCount[d] + 1
      BY <1>1, <1>2, <2>2
    <3>3. QED
      BY <2>1, <3>1, <3>2, FS_AddElement
  <2>3. CASE d # c
    <3>1. {v \in Users : redemption'[v].code = d} = RowsOf(d)
      BY <1>1, <1>2, <2>3 DEF RowsOf
    <3>2. QED
      BY <1>1, <1>2, <2>1, <2>3, <3>1
  <2>4. QED
    BY <2>2, <2>3
<1>5. QED
  BY <1>3, <1>4 DEF UsesAreRedemptions

\* A release deletes a row of its code and gives the use back.
LEMMA ReleaseCounts ==
  ASSUME RegInv, NEW q \in Registrations, Release(q)
  PROVE  UsesAreRedemptions' /\ usedCount' \in [Codes -> 0..MaxUses]
<1> DEFINE u == reg[q].user
           c == reg[q].code
<1> USE RegistrationAssumption DEF RegInv, RegTypeOK
<1>1. Holding(q) /\ reg[q].at # "idle"
  BY DEF Release, At, Holding
<1>2. u \in Users /\ c # NoCode /\ redemption[u] = [state |-> "reserved", code |-> c]
  BY <1>1 DEF ClaimsAreHeld, UsesCode
<1>3. c \in Codes /\ usedCount[c] \in 0..MaxUses /\ redemption[u].code = c
  BY <1>2
<1>4. /\ usedCount' = [usedCount EXCEPT ![c] = usedCount[c] - 1]
      /\ redemption' = [redemption EXCEPT ![u] = NoRow]
  BY DEF Release
<1>5. usedCount[c] > 0
  <2>1. usedCount[c] = Cardinality(RowsOf(c)) /\ IsFiniteSet(RowsOf(c)) /\ u \in RowsOf(c)
    BY <1>2, <1>3, FS_Subset DEF UsesAreRedemptions, RowsOf
  <2>2. QED
    BY <1>2, <1>3, <2>1, FS_EmptySet
<1>6. usedCount' \in [Codes -> 0..MaxUses]
  BY <1>2, <1>3, <1>4, <1>5
<1> HIDE DEF u, c
<1>7. ASSUME NEW d \in Codes
      PROVE  usedCount'[d] = Cardinality({v \in Users : redemption'[v].code = d})
  <2>1. usedCount[d] = Cardinality(RowsOf(d)) /\ IsFiniteSet(RowsOf(d))
    BY FS_Subset DEF UsesAreRedemptions, RowsOf
  <2>2. CASE d = c
    <3>1. {v \in Users : redemption'[v].code = d} = RowsOf(d) \ {u} /\ u \in RowsOf(d)
      BY <1>2, <1>3, <1>4, <2>2 DEF RowsOf, NoRow
    <3>2. usedCount'[d] = usedCount[d] - 1
      BY <1>2, <1>3, <1>4, <2>2
    <3>3. Cardinality(RowsOf(d) \ {u}) = Cardinality(RowsOf(d)) - 1
      BY <2>1, <3>1, FS_RemoveElement
    <3>4. QED
      BY <2>1, <3>1, <3>2, <3>3
  <2>3. CASE d # c
    <3>1. {v \in Users : redemption'[v].code = d} = RowsOf(d)
      BY <1>2, <1>3, <1>4, <2>3 DEF RowsOf, NoRow
    <3>2. QED
      BY <1>2, <1>3, <1>4, <2>1, <2>3, <3>1
  <2>4. QED
    BY <2>2, <2>3
<1>8. QED
  BY <1>6, <1>7 DEF UsesAreRedemptions

\* Steps that move neither a counter nor a row, but one row's state, leave the
\* counts as they are.
LEMMA CountsStay ==
  ASSUME UsesAreRedemptions, UNCHANGED usedCount,
         \A u \in Users : redemption'[u].code = redemption[u].code
  PROVE  UsesAreRedemptions'
<1>1. ASSUME NEW c \in Codes
      PROVE  {u \in Users : redemption'[u].code = c} = {u \in Users : redemption[u].code = c}
  OBVIOUS
<1>2. QED
  BY <1>1 DEF UsesAreRedemptions

\* What a registration step finds.
LEMMA RegFacts ==
  ASSUME RegInv
  PROVE  /\ \A q \in Registrations :
              /\ reg[q].at # "idle" => reg[q].user \in Users
              /\ Holding(q) => /\ reg[q].user \in Users /\ reg[q].code \in Codes
                               /\ redemption[reg[q].user].state = "reserved"
                               /\ redemption[reg[q].user].code = reg[q].code
         /\ \A p, q \in Registrations :
              Holding(p) /\ Holding(q) /\ reg[p].user = reg[q].user => p = q
<1>1. ASSUME NEW q \in Registrations, Holding(q)
      PROVE  /\ reg[q].user \in Users
             /\ reg[q].code # NoCode
             /\ redemption[reg[q].user].state = "reserved"
             /\ redemption[reg[q].user].code = reg[q].code
  <2>1. reg[q].at # "idle"
    BY <1>1 DEF Holding
  <2>2. /\ reg[q].user \in Users /\ reg[q].code # NoCode
        /\ redemption[reg[q].user] = [state |-> "reserved", code |-> reg[q].code]
    BY <1>1, <2>1 DEF RegInv, ClaimsAreHeld, UsesCode
  <2>3. QED
    BY <2>2
<1>2. \A q \in Registrations : reg[q].code \in Codes \union {NoCode}
  BY DEF RegInv, RegTypeOK
<1>3. /\ \A q \in Registrations : reg[q].at # "idle" => reg[q].user \in Users
      /\ \A p, q \in Registrations :
            Holding(p) /\ Holding(q) /\ reg[p].user = reg[q].user => p = q
  BY DEF RegInv, ClaimsAreHeld
<1>4. QED
  BY <1>1, <1>2, <1>3

\* A request moves on or ends.
LEMMA RequestMoves ==
  ASSUME RegTypeOK, NEW q \in Registrations,
         NEW to \in {"idle", "counted", "reserved", "created", "failed"},
         Step(q, to) \/ Finish(q)
  PROVE  reg' \in [Registrations ->
                     [at : {"idle", "counted", "reserved", "created", "failed"},
                      user : Users \union {NoUser}, code : Codes \union {NoCode}]]
  BY DEF RegTypeOK, Step, Finish, Resting

\* The provider creates a user.
LEMMA UserCreated ==
  ASSUME IdentitiesOK, NEW u, identity' = [identity EXCEPT ![u] = "registered"]
  PROVE  IdentitiesOK'
  BY DEF IdentitiesOK

\* A registration step keeps the types.
LEMMA RegTypes ==
  ASSUME RegInv, RegNext
  PROVE  IdentitiesOK' /\ RegTypeOK'
<1> DEFINE Goal == IdentitiesOK' /\ RegTypeOK'
<1>1. IdentitiesOK /\ RegTypeOK
  BY DEF RegInv
<1>2. ASSUME UNCHANGED identity PROVE IdentitiesOK'
  BY <1>1, <1>2 DEF IdentitiesOK
<1>3. ASSUME NEW q \in Registrations, Arrive(q) PROVE Goal
  BY <1>1, <1>2, <1>3, RegistrationAssumption DEF Arrive, RegTypeOK, codeVars
<1>4. ASSUME NEW q \in Registrations, Claim(q) PROVE Goal
  <2>1. redemption' \in [Users -> [state : {"none", "reserved", "redeemed"},
                                  code : Codes \union {NoCode}]]
    BY <1>1, <1>4 DEF Claim, RegTypeOK
  <2>2. Step(q, "reserved") /\ UNCHANGED <<enabled, hits, hour, identity>>
    BY <1>4 DEF Claim
  <2>3. QED
    BY <1>1, <1>2, <1>4, <2>1, <2>2, ClaimCounts, RequestMoves DEF RegTypeOK
<1>5. ASSUME NEW q \in Registrations, NEW to \in {"idle", "counted", "reserved", "created", "failed"},
             Step(q, to) \/ Finish(q), UNCHANGED <<codeVars, hits, hour>>
      PROVE  RegTypeOK'
  BY <1>1, <1>5, RequestMoves DEF RegTypeOK, codeVars
<1>6. ASSUME NEW q \in Registrations, Unclaimable(q) \/ CreateFails(q) \/ CompleteFails(q) \/ Die(q)
      PROVE Goal
  BY <1>2, <1>5, <1>6 DEF Unclaimable, CreateFails, Failed, CompleteFails, Die
<1>7. ASSUME NEW q \in Registrations, Create(q) \/ AnswerLost(q) PROVE Goal
  <2>1. IdentitiesOK'
    BY <1>1, <1>7, UserCreated DEF Create, AnswerLost
  <2>2. RegTypeOK'
    BY <1>5, <1>7 DEF Create, AnswerLost, Failed
  <2>3. QED
    BY <2>1, <2>2
<1>8. ASSUME NEW q \in Registrations, Complete(q) PROVE Goal
  <2>1. redemption' \in [Users -> [state : {"none", "reserved", "redeemed"},
                                  code : Codes \union {NoCode}]]
    BY <1>1, <1>8 DEF Complete, RegTypeOK
  <2>2. Finish(q) /\ UNCHANGED <<usedCount, enabled, hits, hour, identity>>
    BY <1>8 DEF Complete
  <2>3. QED
    BY <1>1, <1>2, <2>1, <2>2, RequestMoves DEF RegTypeOK
<1>9. ASSUME NEW q \in Registrations, Release(q) PROVE Goal
  <2>1. redemption' \in [Users -> [state : {"none", "reserved", "redeemed"},
                                  code : Codes \union {NoCode}]]
    BY <1>1, <1>9 DEF Release, RegTypeOK, NoRow
  <2>2. Finish(q) /\ UNCHANGED <<enabled, hits, hour, identity>>
    BY <1>9 DEF Release
  <2>3. QED
    BY <1>1, <1>2, <1>9, <2>1, <2>2, ReleaseCounts, RequestMoves DEF RegTypeOK
<1>10. ASSUME NEW c \in Codes, SetCodeStatus(c) PROVE Goal
  BY <1>1, <1>2, <1>10 DEF SetCodeStatus, RegTypeOK
<1>11. CASE NextHour
  BY <1>1, <1>2, <1>11, RegistrationAssumption DEF NextHour, RegTypeOK, codeVars
<1>12. QED
  BY <1>3, <1>4, <1>6, <1>7, <1>8, <1>9, <1>10, <1>11 DEF RegNext, Advance

\* A registration step keeps the counts.
LEMMA RegCounts ==
  ASSUME RegInv, RegNext
  PROVE  UsesAreRedemptions'
<1> USE DEF RegInv, codeVars
<1>1. ASSUME NEW q \in Registrations, Claim(q) PROVE UsesAreRedemptions'
  BY <1>1, ClaimCounts
<1>2. ASSUME NEW q \in Registrations, Release(q) PROVE UsesAreRedemptions'
  BY <1>2, ReleaseCounts
<1>3. ASSUME NEW q \in Registrations, Complete(q) PROVE UsesAreRedemptions'
  <2>1. \A u \in Users : redemption'[u].code = redemption[u].code
    BY <1>3 DEF Complete, RegTypeOK
  <2>2. QED
    BY <1>3, <2>1, CountsStay DEF Complete
<1>4. ASSUME NEW q \in Registrations,
             \/ Arrive(q) \/ Unclaimable(q) \/ Create(q) \/ CreateFails(q) \/ AnswerLost(q)
             \/ CompleteFails(q) \/ Die(q)
      PROVE  UNCHANGED <<usedCount, redemption>>
  BY <1>4 DEF Arrive, Unclaimable, Create, CreateFails, AnswerLost, CompleteFails, Die
<1>5. ASSUME NEW c \in Codes, SetCodeStatus(c) PROVE UNCHANGED <<usedCount, redemption>>
  BY <1>5 DEF SetCodeStatus
<1>6. CASE NextHour
  BY <1>6, CountsStay DEF NextHour
<1>7. QED
  BY <1>1, <1>2, <1>3, <1>4, <1>5, <1>6, CountsStay DEF RegNext, Advance

\* What the invariant says of requests and rows holds again after a step that
\* changes nothing but one request, which holds no more than it did.
LEMMA OneRequest ==
  ASSUME RegInv, NEW q \in Registrations, UNCHANGED redemption,
         DOMAIN reg' = Registrations, \A p \in Registrations \ {q} : reg'[p] = reg[p],
         reg'[q].at # "idle" => reg'[q].user \in Users,
         Holding(q)' => Holding(q) /\ reg'[q].user = reg[q].user /\ reg'[q].code = reg[q].code
  PROVE  ClaimsAreHeld'
<1>1. ASSUME NEW p \in Registrations
      PROVE  /\ reg'[p].at # "idle" => reg'[p].user \in Users
             /\ Holding(p)' => Holding(p) /\ reg'[p].user = reg[p].user /\ reg'[p].code = reg[p].code
  BY RegFacts DEF Holding
<1>2. QED
  BY <1>1 DEF RegInv, ClaimsAreHeld, UsesCode

\* A registration step keeps every reservation with the request that has it.
LEMMA RegClaims ==
  ASSUME RegInv, RegNext
  PROVE  ClaimsAreHeld'
<1>1. /\ reg \in [Registrations -> [at : {"idle", "counted", "reserved", "created", "failed"},
                                    user : Users \union {NoUser}, code : Codes \union {NoCode}]]
      /\ redemption \in [Users -> [state : {"none", "reserved", "redeemed"},
                                   code : Codes \union {NoCode}]]
      /\ \A u \in Users : redemption[u].state = "none" <=> redemption[u].code = NoCode
  BY DEF RegInv, RegTypeOK, ClaimsAreHeld
<1>2. ASSUME NEW q \in Registrations, Arrive(q) PROVE ClaimsAreHeld'
  BY <1>1, <1>2, OneRequest DEF Arrive, codeVars, Holding
<1>3. ASSUME NEW q \in Registrations, UNCHANGED redemption, Finish(q) PROVE ClaimsAreHeld'
  BY <1>1, <1>3, OneRequest DEF Finish, Resting, Holding
<1>4. ASSUME NEW q \in Registrations, UNCHANGED redemption, Holding(q),
             NEW to \in {"created", "failed"}, Step(q, to)
      PROVE  ClaimsAreHeld'
  BY <1>1, <1>4, RegFacts, OneRequest DEF Step, Holding
<1>5. ASSUME NEW q \in Registrations, Claim(q) PROVE ClaimsAreHeld'
  <2> DEFINE u == reg[q].user
             c == reg[q].code
  <2>1. u \in Users /\ c \in Codes /\ c # NoCode /\ redemption[u].state = "none"
    BY <1>1, <1>5, RegFacts DEF Claim, Claimable, NoRow, At, UsesCode
  <2>2. /\ reg' = [reg EXCEPT ![q].at = "reserved"]
        /\ redemption' = [redemption EXCEPT ![u] = [state |-> "reserved", code |-> c]]
    BY <1>5 DEF Claim, Step
  <2>3. ASSUME NEW p \in Registrations \ {q}
        PROVE  reg'[p] = reg[p] /\ (Holding(p)' <=> Holding(p)) /\ (Holding(p) => reg[p].user # u)
    BY <1>1, <2>1, <2>2, RegFacts DEF Holding
  <2>4. reg'[q].at = "reserved" /\ reg'[q].user = u /\ reg'[q].code = c
    BY <1>1, <2>2
  <2> HIDE DEF u, c
  <2>5. \A p \in Registrations : reg'[p].at # "idle" => reg'[p].user \in Users
    BY <2>1, <2>3, <2>4, RegFacts
  <2>6. \A v \in Users : redemption'[v].state = "none" <=> redemption'[v].code = NoCode
    BY <1>1, <2>1, <2>2
  <2>7. ASSUME NEW p \in Registrations, Holding(p)'
        PROVE  /\ UsesCode(p)'
               /\ redemption'[reg'[p].user] = [state |-> "reserved", code |-> reg'[p].code]
    <3>1. CASE p = q
      BY <1>1, <2>1, <2>2, <2>4, <3>1 DEF UsesCode
    <3>2. CASE p # q
      <4>1. redemption'[reg[p].user] = redemption[reg[p].user]
        BY <1>1, <2>2, <2>3, <2>7, <3>2
      <4>2. QED
        BY <2>3, <2>7, <3>2, <4>1 DEF RegInv, ClaimsAreHeld, UsesCode
    <3>3. QED
      BY <3>1, <3>2
  <2>8. \A p, r \in Registrations :
           Holding(p)' /\ Holding(r)' /\ reg'[p].user = reg'[r].user => p = r
    BY <2>3, <2>4, RegFacts
  <2>9. QED
    BY <2>5, <2>6, <2>7, <2>8 DEF ClaimsAreHeld
<1>6. ASSUME NEW q \in Registrations, Create(q) \/ CreateFails(q) \/ AnswerLost(q)
      PROVE  ClaimsAreHeld'
  <2>1. UNCHANGED redemption /\ MayCreate(q)
    BY <1>6 DEF Create, CreateFails, AnswerLost, codeVars
  <2>2. CASE Finish(q)
    BY <1>3, <2>1, <2>2
  <2>3. CASE UsesCode(q) /\ (Step(q, "created") \/ Step(q, "failed"))
    BY <1>4, <2>1, <2>3 DEF MayCreate, Holding, At
  <2>4. QED
    BY <1>6, <2>2, <2>3 DEF Create, CreateFails, AnswerLost, Failed
<1>7. ASSUME NEW q \in Registrations, NEW row, Holding(q), Finish(q),
             row.state = "none" <=> row.code = NoCode,
             redemption' = [redemption EXCEPT ![reg[q].user] = row]
      PROVE  ClaimsAreHeld'
  <2>1. ASSUME NEW p \in Registrations
        PROVE  /\ reg'[p].at # "idle" => p # q /\ reg'[p] = reg[p] /\ reg[p].user \in Users
               /\ Holding(p)' => p # q /\ Holding(p) /\ reg'[p] = reg[p] /\ reg[p].user # reg[q].user
    BY <1>1, <1>7, RegFacts DEF Finish, Resting, Holding
  <2>2. ASSUME NEW p \in Registrations, Holding(p)'
        PROVE  redemption'[reg[p].user] = redemption[reg[p].user]
    BY <1>1, <1>7, <2>1, <2>2
  <2>3. \A v \in Users : redemption'[v].state = "none" <=> redemption'[v].code = NoCode
    BY <1>1, <1>7
  <2>4. QED
    BY <2>1, <2>2, <2>3 DEF RegInv, ClaimsAreHeld, UsesCode
<1>8. ASSUME NEW q \in Registrations, Complete(q) PROVE ClaimsAreHeld'
  <2> DEFINE row == [redemption[reg[q].user] EXCEPT !.state = "redeemed"]
  <2>1. Holding(q) /\ Finish(q) /\ redemption' = [redemption EXCEPT ![reg[q].user] = row]
    BY <1>8 DEF Complete, Holding, At
  <2>2. row.state # "none" /\ row.code # NoCode
    BY <1>1, <2>1, RegFacts, RegistrationAssumption
  <2> HIDE DEF row
  <2>3. QED
    BY <1>7, <2>1, <2>2
<1>9. ASSUME NEW q \in Registrations, CompleteFails(q) PROVE ClaimsAreHeld'
  BY <1>4, <1>9 DEF CompleteFails, codeVars, Holding, At
<1>10. ASSUME NEW q \in Registrations, Release(q) PROVE ClaimsAreHeld'
  <2>1. Holding(q) /\ Finish(q) /\ redemption' = [redemption EXCEPT ![reg[q].user] = NoRow]
    BY <1>10 DEF Release, Holding, At
  <2>2. NoRow.state = "none" /\ NoRow.code = NoCode
    BY DEF NoRow
  <2>3. QED
    BY <1>7, <2>1, <2>2
<1>11. ASSUME NEW q \in Registrations, Unclaimable(q) \/ Die(q) PROVE ClaimsAreHeld'
  BY <1>3, <1>11 DEF Unclaimable, Die, codeVars
<1>12. ASSUME UNCHANGED <<redemption, reg>> PROVE ClaimsAreHeld'
  BY <1>12 DEF RegInv, ClaimsAreHeld, Holding, UsesCode
<1>13. ASSUME (\E c \in Codes : SetCodeStatus(c)) \/ NextHour PROVE ClaimsAreHeld'
  BY <1>12, <1>13 DEF SetCodeStatus, NextHour, codeVars
<1>14. QED
  BY <1>2, <1>5, <1>6, <1>8, <1>9, <1>10, <1>11, <1>13 DEF RegNext, Advance

(***************************************************************************)
(* Seats.                                                                  *)
(***************************************************************************)
Member     == [status : {"none", "active", "inactive"}, role : Roles]
Invitation == [user : Users, role : Roles, by : Users \union {Staff},
               state : {"none", "open", "expired", "accepted", "revoked"}]
Txn        == [at : {"idle", "checked", "locked", "admitted"}, user : Users,
               invitation : Invitations \union {NoInvitation}, role : Roles,
               by : Users \union {Staff}, limit : SeatLimits \union {0}]

\* What the types say, table by table.
LEMMA SeatFacts ==
  ASSUME SeatTypeOK
  PROVE  /\ members \in [Users -> Member] /\ invitations \in [Invitations -> Invitation]
         /\ txn \in [Txns -> Txn] /\ seatLimit \in SeatLimits
         /\ NoTxn \in Txn /\ NoMember \in Member
  BY SeatAssumption DEF SeatTypeOK, Member, Invitation, Txn, NoTxn, NoMember

\* A row of each table is replaced by a row of its type.
LEMMA SeatUpdates ==
  ASSUME SeatTypeOK
  PROVE  /\ \A u \in Users, m \in Member : [members EXCEPT ![u] = m] \in [Users -> Member]
         /\ \A i \in Invitations, n \in Invitation :
               [invitations EXCEPT ![i] = n] \in [Invitations -> Invitation]
         /\ \A t \in Txns, x \in Txn : [txn EXCEPT ![t] = x] \in [Txns -> Txn]
  BY SeatFacts

\* The tables make up the type.
LEMMA SeatTypeFromRows ==
  ASSUME members' \in [Users -> Member], invitations' \in [Invitations -> Invitation],
         txn' \in [Txns -> Txn], seatLimit' \in SeatLimits
  PROVE  SeatTypeOK'
  BY DEF SeatTypeOK, Member, Invitation, Txn, Invitations

\* An invitation keeps its row but for its state.
LEMMA StateWritten ==
  ASSUME SeatTypeOK, NEW i \in Invitations,
         NEW st \in {"none", "open", "expired", "accepted", "revoked"},
         invitations' = [invitations EXCEPT ![i].state = st]
  PROVE  /\ invitations' \in [Invitations -> Invitation]
         /\ invitations'[i].state = st
         /\ \A j \in Invitations \ {i} : invitations'[j] = invitations[j]
  BY SeatFacts DEF Invitation

\* A step of the organisation keeps the types.
LEMMA SeatTypes ==
  ASSUME SeatInv, SeatNext
  PROVE  SeatTypeOK'
<1>1. SeatTypeOK
  BY DEF SeatInv
<1>2. /\ members \in [Users -> Member] /\ invitations \in [Invitations -> Invitation]
      /\ txn \in [Txns -> Txn] /\ seatLimit \in SeatLimits /\ NoTxn \in Txn
  BY <1>1, SeatFacts
<1>3. \A t \in Txns : Accepting(t) => txn[t].invitation \in Invitations
  BY DEF SeatInv, AcceptsExclude
<1>4. ASSUME NEW t \in Txns, Reset(t), UNCHANGED <<members, invitations, seatLimit>>
      PROVE  SeatTypeOK'
  BY <1>1, <1>2, <1>4, SeatUpdates, SeatTypeFromRows DEF Reset
<1>5. ASSUME NEW t \in Txns, CreateCheck(t) PROVE SeatTypeOK'
  <2>1. PICK manager \in Users, u \in Users, r \in Roles :
           txn' = [txn EXCEPT ![t] = [at |-> "checked", invitation |-> NoInvitation,
                                      user |-> u, role |-> r, by |-> manager, limit |-> 0]]
    BY <1>5 DEF CreateCheck
  <2>2. txn' \in [Txns -> Txn]
    BY <1>2, <2>1 DEF Txn
  <2>3. QED
    BY <1>2, <1>5, <2>2, SeatTypeFromRows DEF CreateCheck
<1>6. ASSUME NEW t \in Txns, CreateInsert(t) PROVE SeatTypeOK'
  <2>1. PICK i \in Invitations :
           invitations' = [invitations EXCEPT ![i] =
              [user |-> txn[t].user, role |-> txn[t].role, state |-> "open", by |-> txn[t].by]]
    BY <1>6 DEF CreateInsert
  <2>2. [user |-> txn[t].user, role |-> txn[t].role, state |-> "open", by |-> txn[t].by]
           \in Invitation
    BY <1>2 DEF Txn, Invitation
  <2>3. invitations' \in [Invitations -> Invitation] /\ txn' \in [Txns -> Txn]
    BY <1>1, <1>2, <1>6, <2>1, <2>2, SeatUpdates DEF CreateInsert, Reset
  <2>4. QED
    BY <1>2, <1>6, <2>3, SeatTypeFromRows DEF CreateInsert
<1>7. ASSUME NEW t \in Txns, AcceptLock(t) PROVE SeatTypeOK'
  <2>1. PICK i \in Invitations :
           txn' = [txn EXCEPT ![t] = [at |-> "locked", invitation |-> i,
                      user |-> invitations[i].user, role |-> invitations[i].role,
                      by |-> invitations[i].by, limit |-> 0]]
    BY <1>7 DEF AcceptLock
  <2>2. [at |-> "locked", invitation |-> i, user |-> invitations[i].user,
         role |-> invitations[i].role, by |-> invitations[i].by, limit |-> 0] \in Txn
    BY <1>2 DEF Txn, Invitation
  <2>3. txn' \in [Txns -> Txn]
    BY <1>1, <2>1, <2>2, SeatUpdates
  <2>4. QED
    BY <1>2, <1>7, <2>3, SeatTypeFromRows DEF AcceptLock
<1>8. ASSUME NEW t \in Txns, AcceptRefused(t) \/ AcceptFull(t) \/ AcceptAborts(t)
      PROVE  SeatTypeOK'
  BY <1>4, <1>8 DEF AcceptRefused, AcceptFull, AcceptAborts
<1>9. ASSUME NEW t \in Txns, AcceptMember(t) PROVE SeatTypeOK'
  <2>1. txn[t].invitation \in Invitations
    BY <1>3, <1>9 DEF AcceptMember, Accepting
  <2>2. invitations' \in [Invitations -> Invitation] /\ txn' \in [Txns -> Txn]
    BY <1>1, <1>2, <1>9, <2>1, StateWritten, SeatUpdates DEF AcceptMember, Reset
  <2>3. QED
    BY <1>2, <1>9, <2>2, SeatTypeFromRows DEF AcceptMember
<1>10. ASSUME NEW t \in Txns, AcceptAdmit(t) PROVE SeatTypeOK'
  <2>1. txn' \in [Txns -> Txn]
    BY <1>2, <1>10 DEF AcceptAdmit, Txn
  <2>2. QED
    BY <1>2, <1>10, <2>1, SeatTypeFromRows DEF AcceptAdmit
<1>11. ASSUME NEW t \in Txns, AcceptInsert(t) PROVE SeatTypeOK'
  <2>1. txn[t].invitation \in Invitations
    BY <1>3, <1>11 DEF AcceptInsert, Accepting
  <2>2. [status |-> "active", role |-> txn[t].role] \in Member /\ txn[t].user \in Users
    BY <1>2 DEF Txn, Member
  <2>3. members' \in [Users -> Member]
    BY <1>1, <1>11, <2>2, SeatUpdates DEF AcceptInsert
  <2>4. invitations' \in [Invitations -> Invitation] /\ txn' \in [Txns -> Txn]
    BY <1>1, <1>2, <1>11, <2>1, StateWritten, SeatUpdates DEF AcceptInsert, Reset
  <2>5. QED
    BY <1>2, <1>11, <2>3, <2>4, SeatTypeFromRows DEF AcceptInsert
<1>12. ASSUME NEW i \in Invitations, Revoke(i) \/ Expire(i) PROVE SeatTypeOK'
  <2>1. invitations' \in [Invitations -> Invitation]
    BY <1>1, <1>12, StateWritten DEF Revoke, Expire
  <2>2. QED
    BY <1>2, <1>12, <2>1, SeatTypeFromRows DEF Revoke, Expire
<1>13. CASE ChangeSeatLimit
  BY <1>2, <1>13, SeatTypeFromRows DEF ChangeSeatLimit
<1>14. QED
  BY <1>5, <1>6, <1>7, <1>8, <1>9, <1>10, <1>11, <1>12, <1>13 DEF SeatNext

\* Fewer members do not take more seats.
LEMMA SeatsCounted ==
  /\ IsFiniteSet(ActiveMembers) /\ Cardinality(ActiveMembers) \in Nat
  /\ ActiveMembers' \subseteq ActiveMembers =>
        Cardinality(ActiveMembers)' <= Cardinality(ActiveMembers)
<1>1. IsFiniteSet(ActiveMembers) /\ Cardinality(ActiveMembers) \in Nat
  BY SeatAssumption, FS_Subset, FS_CardinalityType DEF ActiveMembers
<1>2. QED
  BY <1>1, FS_Subset, FS_CardinalityType

\* What a transaction has found stays while others end or check, invitations
\* expire, and members leave.
LEMMA AcceptsKept ==
  ASSUME SeatInv, ActiveMembers' \subseteq ActiveMembers,
         \A s \in Txns : Accepting(s)' => txn'[s] = txn[s],
         \A s \in Txns : txn[s].at = "admitted" /\ txn'[s] = txn[s] =>
              \/ invitations'[txn[s].invitation].state = invitations[txn[s].invitation].state
              \/ invitations'[txn[s].invitation].state = "expired"
  PROVE  AcceptsExclude'
<1>1. ASSUME NEW s \in Txns, Accepting(s)' PROVE Accepting(s) /\ txn'[s] = txn[s]
  BY <1>1 DEF Accepting
<1>2. ASSUME NEW s \in Txns, txn'[s].at = "admitted"
      PROVE  /\ invitations'[txn'[s].invitation].state \in {"open", "expired"}
             /\ Cardinality(ActiveMembers)' < txn'[s].limit
  <2>1. txn'[s] = txn[s] /\ txn[s].at = "admitted"
    BY <1>1, <1>2 DEF Accepting
  <2>2. txn[s].limit \in Nat
    <3>1. txn[s] \in Txn
      BY SeatFacts DEF SeatInv
    <3>2. txn[s].limit \in SeatLimits \union {0}
      BY <3>1 DEF Txn
    <3>3. SeatLimits \subseteq Nat
      BY SeatAssumption
    <3>4. CASE txn[s].limit = 0
      BY <3>4
    <3>5. CASE txn[s].limit \in SeatLimits
      BY <3>3, <3>5
    <3>6. QED
      BY <3>2, <3>4, <3>5
  <2>3. /\ invitations[txn[s].invitation].state \in {"open", "expired"}
        /\ Cardinality(ActiveMembers) < txn[s].limit
    BY <2>1 DEF SeatInv, AcceptsExclude
  <2>4. Cardinality(ActiveMembers)' <= Cardinality(ActiveMembers)
        /\ Cardinality(ActiveMembers) \in Nat /\ Cardinality(ActiveMembers)' \in Nat
    BY SeatsCounted, FS_Subset, FS_CardinalityType
  <2>5. QED
    BY <2>1, <2>2, <2>3, <2>4
<1>3. Invitations' = Invitations
  BY DEF Invitations
<1>4. QED
  BY <1>1, <1>2, <1>3 DEF SeatInv, AcceptsExclude

\* A step of the organisation keeps the locks and what they protect.
LEMMA SeatAccepts ==
  ASSUME SeatInv, SeatNext
  PROVE  AcceptsExclude'
<1>1. /\ members \in [Users -> Member] /\ invitations \in [Invitations -> Invitation]
      /\ txn \in [Txns -> Txn] /\ NoTxn \in Txn
  BY SeatFacts DEF SeatInv
<1>2. /\ \A s, t \in Txns : Accepting(s) /\ Accepting(t) => s = t
      /\ \A t \in Txns : Accepting(t) => txn[t].invitation \in Invitations
      /\ \A t \in Txns : txn[t].at = "admitted" =>
            invitations[txn[t].invitation].state \in {"open", "expired"}
  BY DEF SeatInv, AcceptsExclude
<1>3. ASSUME UNCHANGED members PROVE ActiveMembers' \subseteq ActiveMembers
  BY <1>3 DEF ActiveMembers
<1>4. ASSUME NEW t \in Txns, Reset(t), UNCHANGED members,
             \A s \in Txns \ {t} : txn[s].at = "admitted" =>
                invitations'[txn[s].invitation].state = invitations[txn[s].invitation].state
      PROVE  AcceptsExclude'
  <2>1. \A s \in Txns : Accepting(s)' => s # t /\ txn'[s] = txn[s]
    BY <1>1, <1>4 DEF Reset, NoTxn, Accepting
  <2>2. txn'[t].at = "idle"
    BY <1>1, <1>4 DEF Reset, NoTxn
  <2>3. \A s \in Txns : txn[s].at = "admitted" /\ txn'[s] = txn[s] =>
           invitations'[txn[s].invitation].state = invitations[txn[s].invitation].state
    BY <1>4, <2>2
  <2>4. QED
    BY <1>3, <1>4, <2>1, <2>3, AcceptsKept
<1>5. ASSUME NEW t \in Txns, CreateCheck(t) PROVE AcceptsExclude'
  <2>1. txn'[t].at = "checked" /\ \A s \in Txns \ {t} : txn'[s] = txn[s]
    BY <1>1, <1>5 DEF CreateCheck
  <2>2. \A s \in Txns : Accepting(s)' => txn'[s] = txn[s]
    BY <2>1 DEF Accepting
  <2>3. UNCHANGED <<members, invitations>>
    BY <1>5 DEF CreateCheck
  <2>4. QED
    BY <1>3, <2>2, <2>3, AcceptsKept
<1>6. ASSUME NEW t \in Txns, CreateInsert(t) PROVE AcceptsExclude'
  <2>1. PICK i \in Invitations :
           /\ invitations[i].state = "none"
           /\ \A j \in Invitations \ {i} : invitations'[j] = invitations[j]
    BY <1>1, <1>6 DEF CreateInsert, Invitations
  <2>2. ASSUME NEW s \in Txns, txn[s].at = "admitted"
        PROVE  invitations'[txn[s].invitation] = invitations[txn[s].invitation]
    <3>1. txn[s].invitation \in Invitations /\ invitations[txn[s].invitation].state # "none"
      BY <1>2, <2>2 DEF Accepting
    <3>2. QED
      BY <2>1, <3>1
  <2>3. QED
    BY <1>4, <1>6, <2>2 DEF CreateInsert
<1>7. ASSUME NEW t \in Txns, AcceptLock(t) PROVE AcceptsExclude'
  <2>1. \A s \in Txns \ {t} : txn'[s] = txn[s] /\ ~Accepting(s)
    BY <1>1, <1>7 DEF AcceptLock, LockFree, OrganizationFree, Accepting
  <2>2. txn'[t].at = "locked" /\ txn'[t].invitation \in Invitations
    BY <1>1, <1>7 DEF AcceptLock
  <2>3. \A s \in Txns : Accepting(s)' => s = t
    BY <2>1 DEF Accepting
  <2>4. QED
    BY <2>2, <2>3 DEF AcceptsExclude, Accepting, Invitations
<1>8. ASSUME NEW t \in Txns, AcceptRefused(t) \/ AcceptFull(t) \/ AcceptAborts(t)
      PROVE  AcceptsExclude'
  BY <1>4, <1>8 DEF AcceptRefused, AcceptFull, AcceptAborts
<1>9. ASSUME NEW t \in Txns, AcceptMember(t) \/ AcceptInsert(t) PROVE AcceptsExclude'
  <2>1. Accepting(t) /\ Reset(t)
    BY <1>9 DEF AcceptMember, AcceptInsert, Accepting
  <2>2. \A s \in Txns : ~Accepting(s)'
    BY <1>1, <1>2, <2>1 DEF Reset, NoTxn, Accepting
  <2>3. QED
    BY <2>2 DEF AcceptsExclude, Accepting
<1>10. ASSUME NEW t \in Txns, AcceptAdmit(t) PROVE AcceptsExclude'
  <2>1. /\ txn[t].at = "locked" /\ invitations[txn[t].invitation].state = "open"
        /\ Cardinality(ActiveMembers) < seatLimit
        /\ UNCHANGED <<members, invitations>>
    BY <1>10 DEF AcceptAdmit, Pending, SeatLeft
  <2>2. /\ txn'[t].at = "admitted" /\ txn'[t].limit = seatLimit
        /\ txn'[t].invitation = txn[t].invitation
        /\ \A s \in Txns \ {t} : txn'[s] = txn[s]
    BY <1>1, <1>10 DEF AcceptAdmit, Txn
  <2>3. \A s \in Txns : Accepting(s)' => s = t
    BY <1>2, <2>1, <2>2 DEF Accepting
  <2>4. ActiveMembers' = ActiveMembers /\ Invitations' = Invitations
    BY <2>1 DEF ActiveMembers, Invitations
  <2>5. txn[t].invitation \in Invitations
    BY <1>2, <2>1 DEF Accepting
  <2>6. QED
    BY <2>1, <2>2, <2>3, <2>4, <2>5 DEF AcceptsExclude, Accepting
<1>11. ASSUME NEW i \in Invitations, Revoke(i) PROVE AcceptsExclude'
  <2>1. \A s \in Txns : txn[s].invitation # i
    BY <1>11 DEF Revoke, InvitationFree
  <2>2. \A j \in Invitations \ {i} : invitations'[j] = invitations[j]
    BY <1>1, <1>11 DEF Revoke
  <2>3. \A s \in Txns : txn[s].at = "admitted" =>
           invitations'[txn[s].invitation] = invitations[txn[s].invitation]
    BY <1>2, <2>1, <2>2 DEF Accepting
  <2>4. QED
    BY <1>3, <1>11, <2>3, AcceptsKept DEF Revoke
<1>12. ASSUME NEW i \in Invitations, Expire(i) PROVE AcceptsExclude'
  <2>1. /\ invitations'[i].state = "expired"
        /\ \A j \in Invitations \ {i} : invitations'[j] = invitations[j]
    BY <1>12, StateWritten DEF Expire, SeatInv
  <2>2. \A s \in Txns : txn[s].at = "admitted" => txn[s].invitation \in Invitations
    BY <1>2 DEF Accepting
  <2>3. QED
    BY <1>3, <1>12, <2>1, <2>2, AcceptsKept DEF Expire
<1>13. CASE ChangeSeatLimit
  BY <1>3, <1>13, AcceptsKept DEF ChangeSeatLimit
<1>14. QED
  BY <1>5, <1>6, <1>7, <1>8, <1>9, <1>10, <1>11, <1>12, <1>13 DEF SeatNext

(***************************************************************************)
(* Deletion.                                                               *)
(***************************************************************************)
Request    == [status : {"none", "pending", "executing", "completed", "failed"},
               linked : BOOLEAN, expired : BOOLEAN]
Submission == [at : {"idle", "opened", "executing", "revoked", "anonymized", "deleted"},
               user : Users \union {NoUser}]

DeletionTypeOK ==
    /\ ledger \in [Users -> Request]
    /\ private \subseteq Users /\ counted \subseteq Users
    /\ named \subseteq Users
    /\ sub \in [Submissions -> Submission]
    /\ deadline \in 0..2
    /\ batch \in Seq(Users)

\* The type of the whole is that of its parts.
LEMMA TypeParts ==
  TypeOK <=> IdentitiesOK /\ RegTypeOK /\ SeatTypeOK /\ DeletionTypeOK
  BY DEF TypeOK, DeletionTypeOK, Request, Submission

\* The same of the next state.
LEMMA NextTypeParts ==
  TypeOK' <=> IdentitiesOK' /\ RegTypeOK' /\ SeatTypeOK' /\ DeletionTypeOK'
  BY DEF TypeOK, DeletionTypeOK, Request, Submission

\* A step that leaves the identities, registrations and seats alone.
LEMMA DeletionTypeFrom ==
  ASSUME TypeOK, UNCHANGED <<identity, regVars, seatVars>>,
         ledger' \in [Users -> Request], private' \subseteq Users, counted' \subseteq Users, named' \subseteq Users,
         sub' \in [Submissions -> Submission], deadline' \in 0..2, batch' \in Seq(Users)
  PROVE  TypeOK'
<1>1. IdentitiesOK /\ RegTypeOK /\ SeatTypeOK
  BY TypeParts
<1>2. IdentitiesOK' /\ RegTypeOK'
  BY <1>1 DEF IdentitiesOK, RegTypeOK, regVars, codeVars
<1>3. SeatTypeOK'
  BY <1>1 DEF SeatTypeOK, seatVars, Invitations
<1>4. DeletionTypeOK'
  BY DEF DeletionTypeOK
<1>5. QED
  BY <1>2, <1>3, <1>4, NextTypeParts

\* A request or a submission of a user changes.
LEMMA DeletionUpdates ==
  ASSUME DeletionTypeOK
  PROVE  /\ \A u \in Users, st \in {"none", "pending", "executing", "completed", "failed"} :
               [ledger EXCEPT ![u].status = st] \in [Users -> Request]
         /\ \A u \in Users : /\ [ledger EXCEPT ![u].linked = FALSE] \in [Users -> Request]
                             /\ [ledger EXCEPT ![u].expired = TRUE] \in [Users -> Request]
         /\ \A s \in Submissions, at \in {"executing", "revoked", "anonymized", "deleted"} :
               [sub EXCEPT ![s].at = at] \in [Submissions -> Submission]
         /\ \A s \in Submissions : [sub EXCEPT ![s] = NoSub] \in [Submissions -> Submission]
<1>1. NoSub \in Submission
  BY DEF Submission, NoSub
<1>2. ledger \in [Users -> Request] /\ sub \in [Submissions -> Submission]
  BY DEF DeletionTypeOK
<1>3. \A u \in Users, st \in {"none", "pending", "executing", "completed", "failed"} :
         [ledger EXCEPT ![u].status = st] \in [Users -> Request]
  BY <1>2 DEF Request
<1>4. \A u \in Users : /\ [ledger EXCEPT ![u].linked = FALSE] \in [Users -> Request]
                       /\ [ledger EXCEPT ![u].expired = TRUE] \in [Users -> Request]
  BY <1>2 DEF Request
<1>5. \A s \in Submissions, at \in {"executing", "revoked", "anonymized", "deleted"} :
         [sub EXCEPT ![s].at = at] \in [Submissions -> Submission]
  BY <1>2 DEF Submission
<1>6. QED
  BY <1>1, <1>2, <1>3, <1>4, <1>5

\* The first rows of an order of the candidates are users.
LEMMA BatchOfUsers ==
  ASSUME DeletionTypeOK, SweepStart
  PROVE  batch' \in Seq(Users)
<1>1. IsFiniteSet(Candidates) /\ Candidates \subseteq Users
  BY RegistrationAssumption, FS_Subset DEF Candidates
<1>2. PICK rows \in SetToSeqs(Candidates) :
         batch' = SubSeq(rows, 1, IF Len(rows) < Batch THEN Len(rows) ELSE Batch)
  BY DEF SweepStart
<1>3. rows \in [1..Cardinality(Candidates) -> Candidates] /\ Cardinality(Candidates) \in Nat
  BY <1>1, <1>2, FS_CardinalityType DEF SetToSeqs
<1>4. rows \in Seq(Users) /\ Len(rows) = Cardinality(Candidates)
  BY <1>1, <1>3
<1>5. QED
  BY <1>2, <1>3, <1>4, DeletionAssumption

\* A step of a deletion keeps the types.
LEMMA DeletionTypes ==
  ASSUME IInv, DeletionNext
  PROVE  TypeOK'
<1>1. TypeOK /\ IdentitiesOK /\ RegTypeOK /\ SeatTypeOK /\ DeletionTypeOK
  BY TypeParts DEF IInv
<1>2. /\ ledger \in [Users -> Request] /\ private \subseteq Users /\ counted \subseteq Users /\ named \subseteq Users
      /\ sub \in [Submissions -> Submission] /\ deadline \in 0..2 /\ batch \in Seq(Users)
  BY <1>1 DEF DeletionTypeOK
<1>3. \A s \in Submissions : sub[s].at # "idle" => Who(s) \in Users
  BY DEF IInv, DeletedIsErased
<1>4. ASSUME NEW u \in Leavers, UseService(u) \/ BeNamed(u) PROVE TypeOK'
  <2>1. private' \subseteq Users /\ counted' \subseteq Users /\ named' \subseteq Users
    BY <1>2, <1>4, DeletionAssumption DEF UseService, BeNamed
  <2>2. UNCHANGED <<identity, regVars, seatVars, ledger, sub, deadline, batch>>
    BY <1>4 DEF UseService, BeNamed
  <2>3. QED
    BY <1>1, <1>2, <2>1, <2>2, DeletionTypeFrom
<1>5. ASSUME NEW s \in Submissions, Open(s) PROVE TypeOK'
  <2>1. PICK u \in Leavers :
           /\ ledger' = [ledger EXCEPT ![u].status = IF @ \in {"none", "failed"} THEN "pending" ELSE @]
           /\ sub' = [sub EXCEPT ![s] = [at |-> "opened", user |-> u]]
    BY <1>5 DEF Open
  <2>2. u \in Users
    BY DeletionAssumption
  <2>3. ledger' \in [Users -> Request] /\ sub' \in [Submissions -> Submission]
    <3>1. [at |-> "opened", user |-> u] \in Submission
      BY <2>2 DEF Submission
    <3>2. sub' \in [Submissions -> Submission]
      BY <1>2, <2>1, <3>1
    <3>3. ledger' \in [Users -> Request]
      BY <1>2, <2>1, <2>2 DEF Request
    <3>4. QED
      BY <3>2, <3>3
  <2>4. UNCHANGED <<identity, regVars, seatVars, private, counted, named, deadline, batch>>
    BY <1>5 DEF Open
  <2>5. QED
    BY <1>1, <1>2, <2>3, <2>4, DeletionTypeFrom
<1>6. ASSUME NEW s \in Submissions, SetExecuting(s) \/ RevokeSessions(s) PROVE TypeOK'
  <2>1. ledger' \in [Users -> Request]
    <3>1. Who(s) \in Users
      BY <1>3, <1>6 DEF SetExecuting, RevokeSessions
    <3>2. \/ ledger' = ledger
          \/ ledger' = [ledger EXCEPT ![Who(s)].status = "executing"]
          \/ ledger' = [ledger EXCEPT ![Who(s)].status = ledger[Who(s)].status]
      BY <1>2, <1>6, <3>1 DEF SetExecuting, RevokeSessions
    <3>3. ledger[Who(s)].status \in {"none", "pending", "executing", "completed", "failed"}
      BY <1>2, <3>1 DEF Request
    <3>4. QED
      BY <1>2, <3>1, <3>2, <3>3 DEF Request
  <2>2. sub' \in [Submissions -> Submission]
    <3>1. ToStage(s, "executing") \/ ToStage(s, "revoked")
      BY <1>6 DEF SetExecuting, RevokeSessions
    <3>2. QED
      BY <1>2, <3>1 DEF ToStage, Submission
  <2>3. UNCHANGED <<identity, regVars, seatVars, private, counted, named, deadline, batch>>
    BY <1>6 DEF SetExecuting, RevokeSessions
  <2>4. QED
    BY <1>1, <1>2, <2>1, <2>2, <2>3, DeletionTypeFrom
<1>8. ASSUME NEW s \in Submissions, Anonymize(s) \/ DeleteUser(s) PROVE TypeOK'
  <2>1. Who(s) \in Users
    BY <1>3, <1>8 DEF Anonymize, DeleteUser
  <2>2. RegTypeOK'
    BY <1>1, <1>8 DEF Anonymize, DeleteUser, RegTypeOK, regVars, codeVars
  <2>3. IdentitiesOK'
    BY <1>1, <1>8 DEF Anonymize, DeleteUser, IdentitiesOK
  <2>4. SeatTypeOK'
    <3>1. members' = [members EXCEPT ![Who(s)] = NoMember]
      BY <1>8 DEF Anonymize, DeleteUser
    <3>2. members' \in [Users -> Member]
      BY <1>1, <2>1, <3>1, SeatFacts, SeatUpdates
    <3>3. UNCHANGED <<invitations, seatLimit, txn>>
      BY <1>8 DEF Anonymize, DeleteUser
    <3>4. QED
      BY <1>1, <3>2, <3>3, SeatFacts, SeatTypeFromRows
  <2>5. ledger' \in [Users -> Request]
    <3>1. ledger' = ledger \/ ledger' = [ledger EXCEPT ![Who(s)].linked = FALSE]
      BY <1>8 DEF Anonymize, DeleteUser
    <3>2. [ledger EXCEPT ![Who(s)].linked = FALSE] \in [Users -> Request]
      BY <1>1, <2>1, DeletionUpdates
    <3>3. QED
      BY <1>2, <3>1, <3>2
  <2>6. sub' \in [Submissions -> Submission]
    <3>1. ToStage(s, "anonymized") \/ ToStage(s, "deleted")
      BY <1>8 DEF Anonymize, DeleteUser
    <3>2. QED
      BY <1>2, <3>1 DEF ToStage, Submission
  <2>7. private' \subseteq Users /\ counted' \subseteq Users /\ UNCHANGED <<named, deadline, batch>>
    BY <1>2, <1>8 DEF Anonymize, DeleteUser
  <2>8. DeletionTypeOK'
    BY <1>2, <2>5, <2>6, <2>7 DEF DeletionTypeOK
  <2>9. QED
    BY <2>2, <2>3, <2>4, <2>8, NextTypeParts
<1>9. ASSUME NEW s \in Submissions, Complete202(s) \/ Fail503(s) PROVE TypeOK'
  <2>1. Who(s) \in Users
    BY <1>3, <1>9 DEF Complete202, Fail503
  <2>2. ledger' = ledger \/ \E st \in {"completed", "failed"} : Mark(Who(s), st)
    BY <1>9 DEF Complete202, Fail503
  <2>3. ledger' \in [Users -> Request]
    <3>1. CASE ledger' = ledger
      BY <1>2, <3>1
    <3>2. ASSUME NEW st \in {"completed", "failed"}, Mark(Who(s), st)
          PROVE  ledger' \in [Users -> Request]
      BY <1>1, <2>1, <3>2, DeletionUpdates DEF Mark
    <3>3. QED
      BY <2>2, <3>1, <3>2
  <2>4. sub' \in [Submissions -> Submission]
    BY <1>1, <1>9, DeletionUpdates DEF Complete202, Fail503, Answered
  <2>5. UNCHANGED <<identity, regVars, seatVars, private, counted, named, deadline, batch>>
    BY <1>9 DEF Complete202, Fail503
  <2>6. QED
    BY <1>1, <1>2, <2>3, <2>4, <2>5, DeletionTypeFrom
<1>10. ASSUME NEW s \in Submissions, Perish(s) PROVE TypeOK'
  <2>1. sub' \in [Submissions -> Submission]
    BY <1>1, <1>10, DeletionUpdates DEF Perish, Answered
  <2>2. UNCHANGED <<identity, regVars, seatVars, ledger, private, counted, named, deadline, batch>>
    BY <1>10 DEF Perish
  <2>3. QED
    BY <1>1, <1>2, <2>1, <2>2, DeletionTypeFrom
<1>11. CASE PassDeadline
  <2>1. deadline' \in 0..2
    BY <1>2, <1>11 DEF PassDeadline
  <2>2. UNCHANGED <<identity, regVars, seatVars, ledger, private, counted, named, sub, batch>>
    BY <1>11 DEF PassDeadline
  <2>3. QED
    BY <1>1, <1>2, <2>1, <2>2, DeletionTypeFrom
<1>12. CASE SweepStart
  <2>1. batch' \in Seq(Users)
    BY <1>1, <1>12, BatchOfUsers
  <2>2. UNCHANGED <<identity, regVars, seatVars, ledger, private, counted, named, sub, deadline>>
    BY <1>12 DEF SweepStart
  <2>3. QED
    BY <1>1, <1>2, <2>1, <2>2, DeletionTypeFrom
<1>13. CASE SweepRow
  <2>1. batch # <<>> /\ batch' = Tail(batch)
    BY <1>13 DEF SweepRow
  <2>2. Head(batch) \in Users /\ batch' \in Seq(Users)
    BY <1>2, <2>1
  <2>3. ledger' = ledger \/ ledger' = [ledger EXCEPT ![Head(batch)].expired = TRUE]
    BY <1>13 DEF SweepRow
  <2>4. ledger' \in [Users -> Request]
    BY <1>2, <2>2, <2>3 DEF Request
  <2>5. UNCHANGED <<identity, regVars, seatVars, private, counted, named, sub, deadline>>
    BY <1>13 DEF SweepRow
  <2>6. QED
    BY <1>1, <1>2, <2>2, <2>4, <2>5, DeletionTypeFrom
<1>14. QED
  BY <1>4, <1>5, <1>6, <1>8, <1>9, <1>10, <1>11, <1>12, <1>13 DEF DeletionNext, Execute

\* A step of a deletion leaves the redemption rows and the requests alone, and
\* can only free seats.
LEMMA DeletionLeaves ==
  ASSUME IInv, DeletionNext
  PROVE  UsesAreRedemptions' /\ ClaimsAreHeld' /\ AcceptsExclude'
<1>1. UNCHANGED regVars
  BY DEF DeletionNext, Execute, UseService, BeNamed, Open, SetExecuting, RevokeSessions,
         Anonymize, DeleteUser, Complete202, Fail503, Perish, PassDeadline, SweepStart, SweepRow
<1>2. UNCHANGED <<invitations, txn>>
  BY DEF DeletionNext, Execute, UseService, BeNamed, Open, SetExecuting, RevokeSessions,
         Anonymize, DeleteUser, Complete202, Fail503, Perish, PassDeadline, SweepStart, SweepRow,
         seatVars
<1>3. UNCHANGED members \/ \E u : members' = [members EXCEPT ![u] = NoMember]
  BY DEF DeletionNext, Execute, UseService, BeNamed, Open, SetExecuting, RevokeSessions,
         Anonymize, DeleteUser, Complete202, Fail503, Perish, PassDeadline, SweepStart, SweepRow,
         seatVars
<1>4. members \in [Users -> Member]
  BY SeatFacts DEF IInv, TypeOK
<1>5. ActiveMembers' \subseteq ActiveMembers
  BY <1>3, <1>4 DEF ActiveMembers, NoMember
<1>6. AcceptsExclude'
  BY <1>2, <1>5, AcceptsKept DEF IInv, TypeOK, SeatInv
<1>7. UsesAreRedemptions' /\ ClaimsAreHeld'
  BY <1>1 DEF IInv, UsesAreRedemptions, ClaimsAreHeld, Holding, UsesCode, regVars, codeVars
<1>8. QED
  BY <1>6, <1>7

\* Registration and seats give no deleted identity a row and bring none back.
LEMMA OthersErase ==
  ASSUME IInv, \/ RegNext /\ UNCHANGED <<seatVars, deletionVars>>
               \/ SeatNext /\ UNCHANGED <<regVars, deletionVars>>
  PROVE  DeletedIsErased'
<1>1. IdentitiesOK /\ SeatTypeOK /\ DeletedIsErased
  BY DEF IInv, TypeOK
<1>2. UNCHANGED <<ledger, private, sub>>
  BY DEF deletionVars
<1>3. \A u \in Users : identity'[u] = "deleted" <=> identity[u] = "deleted"
  BY <1>1 DEF RegNext, Advance, Arrive, Claim, Unclaimable, Create, CreateFails, AnswerLost,
              Complete, CompleteFails, Release, Die, SetCodeStatus, NextHour, IdentitiesOK,
              SeatNext, CreateCheck, CreateInsert, AcceptLock, AcceptRefused, AcceptMember,
              AcceptFull, AcceptAdmit, AcceptInsert, AcceptAborts, Revoke, Expire, ChangeSeatLimit
<1>4. \A u \in Users : identity[u] = "deleted" => members'[u] = members[u]
  <2>1. ASSUME NEW t \in Txns, AcceptInsert(t), NEW u \in Users, identity[u] = "deleted"
        PROVE  members'[u] = members[u]
    <3>1. txn[t].user # u
      BY <2>1 DEF AcceptInsert, Insertable, SignedIn
    <3>2. QED
      BY <2>1, <3>1, <1>1, SeatFacts DEF AcceptInsert
  <2>2. (\E t \in Txns : AcceptInsert(t)) \/ UNCHANGED members
    BY DEF seatVars, SeatNext, CreateCheck, CreateInsert, AcceptLock, AcceptRefused, AcceptMember,
           AcceptFull, AcceptAdmit, AcceptAborts, Revoke, Expire, ChangeSeatLimit
  <2>3. QED
    BY <2>1, <2>2
<1>5. QED
  BY <1>1, <1>2, <1>3, <1>4 DEF DeletedIsErased, Who

\* What is to be shown of a step: submissions that got as far name users who
\* are gone, such a user has no rows, and only then is a request complete.
LEMMA ErasedFrom ==
  ASSUME \A s \in Submissions : sub'[s].at # "idle" => sub'[s].user \in Users,
         \A s \in Submissions : sub'[s].at = "deleted" => identity'[sub'[s].user] = "deleted",
         \A u \in Users : identity'[u] = "deleted" => u \notin private' /\ members'[u] = NoMember,
         \A u \in Users : ledger'[u].status = "completed" => identity'[u] = "deleted"
  PROVE  DeletedIsErased'
<1>1. \A s \in Submissions : Who(s)' = sub'[s].user
  BY DEF Who
<1>2. QED
  BY <1>1 DEF DeletedIsErased

\* A step of a deletion erases before it reports.
LEMMA DeletionErases ==
  ASSUME IInv, DeletionNext
  PROVE  DeletedIsErased'
<1>1. /\ ledger \in [Users -> Request] /\ sub \in [Submissions -> Submission]
      /\ private \subseteq Users /\ batch \in Seq(Users)
      /\ members \in [Users -> Member]
      /\ identity \in [Users -> {"unknown", "registered", "deleted"}]
  BY SeatFacts DEF IInv, TypeOK, IdentitiesOK, Request, Submission
<1>2. /\ \A s \in Submissions : sub[s].at # "idle" => sub[s].user \in Users
      /\ \A s \in Submissions : sub[s].at = "deleted" => identity[sub[s].user] = "deleted"
      /\ \A u \in Users : identity[u] = "deleted" => u \notin private /\ members[u] = NoMember
      /\ \A u \in Users : ledger[u].status = "completed" => identity[u] = "deleted"
  BY DEF IInv, DeletedIsErased, Who
<1>3. ASSUME NEW u \in Leavers, UseService(u) PROVE DeletedIsErased'
  <2>1. /\ private' \subseteq private \union {u} /\ identity[u] = "registered"
        /\ UNCHANGED <<identity, members, ledger, sub>>
    BY <1>3 DEF UseService, SignedIn, seatVars
  <2>2. \A v \in Users : identity[v] = "deleted" => v \notin private' /\ members[v] = NoMember
    BY <1>2, <2>1
  <2>3. QED
    BY <1>2, <2>1, <2>2, ErasedFrom
<1>4. ASSUME UNCHANGED <<identity, seatVars, private>>,
             \A u \in Users : ledger'[u].status = "completed" => ledger[u].status = "completed",
             \/ UNCHANGED sub
             \/ \E s \in Submissions, at \in {"opened", "executing", "revoked"}, u \in Users :
                   sub' = [sub EXCEPT ![s] = [at |-> at, user |-> u]]
             \/ \E s \in Submissions : Answered(s)
      PROVE  DeletedIsErased'
  <2>1. ASSUME NEW s \in Submissions, sub'[s].at # "idle"
        PROVE  /\ sub'[s].user \in Users
               /\ sub'[s].at = "deleted" => identity[sub'[s].user] = "deleted"
    BY <1>1, <1>2, <1>4, <2>1 DEF Answered, NoSub
  <2>2. QED
    BY <1>2, <1>4, <2>1, ErasedFrom DEF seatVars
<1>5. ASSUME NEW u \in Leavers, BeNamed(u) PROVE DeletedIsErased'
  BY <1>4, <1>5 DEF BeNamed
<1>6. ASSUME NEW s \in Submissions, Open(s) PROVE DeletedIsErased'
  <2>1. PICK u \in Leavers :
           /\ ledger' = [ledger EXCEPT ![u].status = IF @ \in {"none", "failed"} THEN "pending" ELSE @]
           /\ sub' = [sub EXCEPT ![s] = [at |-> "opened", user |-> u]]
    BY <1>6 DEF Open
  <2>2. u \in Users
    BY DeletionAssumption
  <2>3. \A v \in Users : ledger'[v].status = "completed" => ledger[v].status = "completed"
    BY <1>1, <2>1, <2>2 DEF Request
  <2>4. QED
    BY <1>4, <1>6, <2>1, <2>2, <2>3 DEF Open
<1>7. ASSUME NEW s \in Submissions, SetExecuting(s) \/ RevokeSessions(s) PROVE DeletedIsErased'
  <2>1. \A v \in Users : ledger'[v].status = "completed" => ledger[v].status = "completed"
    BY <1>1, <1>7 DEF SetExecuting, RevokeSessions, Request
  <2>2. Who(s) \in Users
    BY <1>2, <1>7 DEF SetExecuting, RevokeSessions, Who
  <2>3. PICK at \in {"executing", "revoked"} : sub' = [sub EXCEPT ![s].at = at]
    BY <1>7 DEF SetExecuting, RevokeSessions, ToStage
  <2>4. \A r \in Submissions : /\ sub'[r].user = sub[r].user
                               /\ sub'[r].at # "idle" => r = s \/ sub[r].at # "idle"
                               /\ sub'[r].at = "deleted" => sub[r].at = "deleted"
    BY <1>1, <2>3 DEF Submission
  <2>5. UNCHANGED <<identity, private, members>>
    BY <1>7 DEF SetExecuting, RevokeSessions, seatVars
  <2>6. QED
    BY <1>2, <2>1, <2>2, <2>4, <2>5, ErasedFrom DEF Who
<1>8. ASSUME NEW s \in Submissions, Anonymize(s) PROVE DeletedIsErased'
  <2>1. \A r \in Submissions : /\ sub'[r].user = sub[r].user
                               /\ sub'[r].at # "idle" => sub[r].at # "idle"
                               /\ sub'[r].at = "deleted" => sub[r].at = "deleted"
    BY <1>1, <1>8 DEF Anonymize, ToStage, Submission
  <2>2. \A u \in Users : identity[u] = "deleted" => u \notin private' /\ members'[u] = NoMember
    BY <1>1, <1>2, <1>8 DEF Anonymize
  <2>3. QED
    BY <1>2, <1>8, <2>1, <2>2, ErasedFrom DEF Anonymize
<1>9. ASSUME NEW s \in Submissions, DeleteUser(s) PROVE DeletedIsErased'
  <2>1. Who(s) \in Users
    BY <1>2, <1>9 DEF DeleteUser, Who
  <2>2. \A r \in Submissions : /\ sub'[r].user = sub[r].user
                               /\ sub'[r].at # "idle" => sub[r].at # "idle"
                               /\ sub'[r].at = "deleted" => r = s \/ sub[r].at = "deleted"
    BY <1>1, <1>9 DEF DeleteUser, ToStage, Submission
  <2>3. /\ identity'[Who(s)] = "deleted" /\ members'[Who(s)] = NoMember /\ Who(s) \notin private'
        /\ \A u \in Users \ {Who(s)} : /\ identity'[u] = identity[u] /\ members'[u] = members[u]
                                       /\ u \in private' => u \in private
    BY <1>1, <1>9, <2>1 DEF DeleteUser
  <2>4. \A u \in Users : ledger'[u].status = ledger[u].status
    BY <1>1, <1>9, <2>1 DEF DeleteUser, Request
  <2>5. QED
    BY <1>2, <2>1, <2>2, <2>3, <2>4, ErasedFrom DEF Who
<1>10. ASSUME NEW s \in Submissions, Complete202(s) PROVE DeletedIsErased'
  <2>1. Who(s) \in Users /\ identity[Who(s)] = "deleted"
    BY <1>2, <1>10 DEF Complete202, Who
  <2>2. \A u \in Users \ {Who(s)} : ledger'[u] = ledger[u]
    BY <1>1, <1>10 DEF Complete202, Mark
  <2>3. \A r \in Submissions : sub'[r].at # "idle" => sub'[r] = sub[r]
    BY <1>1, <1>10 DEF Complete202, Answered, NoSub
  <2>4. \A r \in Submissions : /\ sub'[r].at # "idle" => sub'[r].user \in Users
                               /\ sub'[r].at = "deleted" => identity[sub'[r].user] = "deleted"
    BY <1>2, <2>3
  <2>5. UNCHANGED <<identity, private, members>>
    BY <1>10 DEF Complete202, seatVars
  <2>6. QED
    BY <1>2, <2>1, <2>2, <2>4, <2>5, ErasedFrom
<1>11. ASSUME NEW s \in Submissions, Fail503(s) PROVE DeletedIsErased'
  <2>1. \A u \in Users : ledger'[u].status = "completed" => ledger[u].status = "completed"
    BY <1>1, <1>11 DEF Fail503, Mark, Request
  <2>2. QED
    BY <1>4, <1>11, <2>1 DEF Fail503
<1>12. ASSUME NEW s \in Submissions, Perish(s) PROVE DeletedIsErased'
  BY <1>4, <1>12 DEF Perish
<1>13. CASE PassDeadline \/ SweepStart
  BY <1>4, <1>13 DEF PassDeadline, SweepStart
<1>14. CASE SweepRow
  <2>1. \A u \in Users : ledger'[u].status = ledger[u].status
    BY <1>1, <1>14 DEF SweepRow, Request
  <2>2. QED
    BY <1>4, <1>14, <2>1 DEF SweepRow
<1>15. QED
  BY <1>3, <1>5, <1>6, <1>7, <1>8, <1>9, <1>10, <1>11, <1>12, <1>13, <1>14
     DEF DeletionNext, Execute

(***************************************************************************)
(* The theorems.                                                           *)
(***************************************************************************)
\* The initial states have no claims, transactions or requests.
LEMMA InitIInv == Init => IInv
<1> SUFFICES ASSUME Init PROVE IInv
  OBVIOUS
<1>1. PICK others \in {"unknown", "registered"} :
         identity = [u \in Users |-> IF u = Founder THEN "registered" ELSE others]
  BY DEF Init
<1>2. IdentitiesOK /\ \A u \in Users : identity[u] # "deleted"
  BY <1>1 DEF IdentitiesOK
<1>3. RegTypeOK /\ ClaimsAreHeld
  BY RegistrationAssumption
     DEF Init, RegInit, RegTypeOK, NoRow, Resting, ClaimsAreHeld, Holding
<1>4. UsesAreRedemptions
  <2>1. ASSUME NEW c \in Codes PROVE {u \in Users : redemption[u].code = c} = {}
    BY RegistrationAssumption DEF Init, RegInit, NoRow
  <2>2. usedCount = [c \in Codes |-> 0]
    BY DEF Init, RegInit
  <2>3. ASSUME NEW c \in Codes
        PROVE  /\ usedCount[c] = Cardinality({u \in Users : redemption[u].code = c})
               /\ usedCount[c] <= MaxUses
    <3>1. usedCount[c] = 0
      BY <2>2
    <3>2. Cardinality({u \in Users : redemption[u].code = c}) = 0
      BY <2>1, FS_EmptySet
    <3>3. 0 <= MaxUses
      BY RegistrationAssumption
    <3>4. QED
      BY <3>1, <3>2, <3>3
  <2>4. QED
    BY <2>3 DEF UsesAreRedemptions
<1>5. SeatTypeOK
  BY SeatAssumption DEF Init, SeatInit, SeatTypeOK, NoMember, Unwritten, NoTxn, Invitations
<1>6. AcceptsExclude
  BY DEF Init, SeatInit, NoTxn, AcceptsExclude, Accepting
<1>7. DeletionTypeOK
  BY DEF Init, DeletionInit, DeletionTypeOK, NoRequest, NoSub, Request, Submission
<1>8. DeletedIsErased
  BY <1>2 DEF Init, DeletionInit, DeletedIsErased, NoSub, NoRequest
<1>9. QED
  BY <1>2, <1>3, <1>4, <1>5, <1>6, <1>7, <1>8, TypeParts DEF IInv

\* Every step of one of the three parts keeps the invariant of all.
LEMMA StepIInv == IInv /\ [Next]_vars => IInv'
<1> SUFFICES ASSUME IInv, [Next]_vars PROVE IInv'
  OBVIOUS
<1>1. RegInv /\ SeatInv /\ DeletionTypeOK
  BY TypeParts DEF IInv, RegInv, SeatInv
<1>2. CASE RegNext /\ UNCHANGED <<seatVars, deletionVars>>
  <2>1. SeatTypeOK' /\ AcceptsExclude'
    BY <1>1, <1>2 DEF seatVars, SeatInv, SeatTypeOK, AcceptsExclude, Accepting, ActiveMembers,
                      Invitations
  <2>2. DeletionTypeOK'
    BY <1>1, <1>2 DEF deletionVars, DeletionTypeOK
  <2>3. TypeOK'
    BY <1>1, <1>2, <2>1, <2>2, RegTypes, NextTypeParts
  <2>4. UsesAreRedemptions' /\ ClaimsAreHeld'
    BY <1>1, <1>2, RegCounts, RegClaims
  <2>5. DeletedIsErased'
    BY <1>2, OthersErase
  <2>6. QED
    BY <2>1, <2>3, <2>4, <2>5 DEF IInv
<1>3. CASE SeatNext /\ UNCHANGED <<regVars, deletionVars>>
  <2>1. RegTypeOK' /\ UsesAreRedemptions' /\ ClaimsAreHeld'
    BY <1>1, <1>3 DEF regVars, codeVars, RegInv, RegTypeOK, UsesAreRedemptions, ClaimsAreHeld,
                      Holding, UsesCode
  <2>2. DeletionTypeOK'
    BY <1>1, <1>3 DEF deletionVars, DeletionTypeOK
  <2>3. UNCHANGED identity
    BY <1>3 DEF SeatNext, CreateCheck, CreateInsert, AcceptLock, AcceptRefused, AcceptMember,
           AcceptFull, AcceptAdmit, AcceptInsert, AcceptAborts, Revoke, Expire, ChangeSeatLimit
  <2>4. IdentitiesOK'
    BY <1>1, <2>3 DEF RegInv, IdentitiesOK
  <2>5. TypeOK'
    BY <1>1, <1>3, <2>1, <2>2, <2>4, SeatTypes, NextTypeParts
  <2>6. QED
    BY <1>1, <1>3, <2>1, <2>5, SeatAccepts, OthersErase DEF IInv
<1>4. CASE DeletionNext
  BY <1>4, DeletionTypes, DeletionLeaves, DeletionErases DEF IInv
<1>5. CASE UNCHANGED vars
  <2>1. UNCHANGED <<identity, regVars, seatVars, deletionVars>>
    BY <1>5 DEF vars
  <2>2. UsesAreRedemptions' /\ ClaimsAreHeld'
    BY <2>1 DEF IInv, regVars, codeVars, UsesAreRedemptions, ClaimsAreHeld, Holding, UsesCode
  <2>3. AcceptsExclude' /\ DeletedIsErased'
    <3>1. UNCHANGED <<identity, members, invitations, txn, private, ledger, sub>>
      BY <2>1 DEF seatVars, deletionVars
    <3>2. AcceptsExclude'
      BY <3>1 DEF IInv, AcceptsExclude, Accepting, ActiveMembers, Invitations
    <3>3. DeletedIsErased'
      BY <3>1 DEF IInv, DeletedIsErased, Who
    <3>4. QED
      BY <3>2, <3>3
  <2>4. IdentitiesOK' /\ RegTypeOK'
    BY <1>1, <2>1 DEF RegInv, IdentitiesOK, RegTypeOK, regVars, codeVars
  <2>5. SeatTypeOK' /\ DeletionTypeOK'
    BY <1>1, <2>1 DEF SeatInv, SeatTypeOK, seatVars, Invitations, deletionVars, DeletionTypeOK
  <2>6. TypeOK'
    BY <2>4, <2>5, NextTypeParts
  <2>7. QED
    BY <2>2, <2>3, <2>6 DEF IInv
<1>6. QED
  BY <1>2, <1>3, <1>4, <1>5 DEF Next

\* Claims, locks and erasure are as the code keeps them in every reachable state.
THEOREM Invariance == Spec => []IInv
<1>1. Init => IInv
  BY InitIInv
<1>2. IInv /\ [Next]_vars => IInv'
  BY StepIInv
<1>3. QED
  BY <1>1, <1>2, PTL DEF Spec

\* The uses an invite code has counted are its redemption rows and stay within
\* max_uses, whichever requests fail, die or are answered late.
THEOREM UsesAreCounted == Spec => []RegistrationsCount
<1>1. IInv => RegistrationsCount
  BY DEF IInv, RegistrationsCount
<1>2. QED
  BY <1>1, Invariance, PTL

\* A deletion request that says "completed" is about a user who is gone and
\* to whom no membership and no row with a foreign key refers.
THEOREM CompletionErases == Spec => []ErasedWhenCompleted
<1>1. IInv => ErasedWhenCompleted
  BY DEF IInv, DeletedIsErased, ErasedWhenCompleted
<1>2. QED
  BY <1>1, Invariance, PTL

\* The member who joins takes a seat that was left when his transaction looked,
\* and that the organisation's lock has kept.
LEMMA SeatsLeft ==
  ASSUME IInv, NEW t \in Txns, AcceptInsert(t)
  PROVE  Cardinality(ActiveMembers') <= txn[t].limit
<1>1. /\ members \in [Users -> Member]
      /\ txn[t] \in Txn
  BY SeatFacts DEF IInv, TypeOK
<1>2. /\ txn[t].at = "admitted"
      /\ members' = [members EXCEPT ![txn[t].user] = [status |-> "active", role |-> txn[t].role]]
  BY DEF AcceptInsert
<1>3. Cardinality(ActiveMembers) < txn[t].limit
  BY <1>2 DEF IInv, AcceptsExclude
<1>4. ActiveMembers' \subseteq ActiveMembers \union {txn[t].user}
  BY <1>1, <1>2 DEF ActiveMembers
<1>5. /\ IsFiniteSet(ActiveMembers) /\ Cardinality(ActiveMembers) \in Nat
      /\ IsFiniteSet(ActiveMembers \union {txn[t].user})
      /\ Cardinality(ActiveMembers \union {txn[t].user}) <= Cardinality(ActiveMembers) + 1
  BY SeatsCounted, FS_AddElement
<1>6. /\ Cardinality(ActiveMembers') <= Cardinality(ActiveMembers \union {txn[t].user})
      /\ Cardinality(ActiveMembers') \in Nat
      /\ Cardinality(ActiveMembers \union {txn[t].user}) \in Nat
  BY <1>4, <1>5, FS_Subset, FS_CardinalityType
<1>7. txn[t].limit \in Nat
  <2>1. txn[t].limit \in SeatLimits \union {0}
    BY <1>1 DEF Txn
  <2>2. CASE txn[t].limit = 0
    BY <2>2
  <2>3. CASE txn[t].limit \in SeatLimits
    <3>1. SeatLimits \subseteq Nat
      BY SeatAssumption
    <3>2. QED
      BY <2>3, <3>1
  <2>4. QED
    BY <2>1, <2>2, <2>3
<1>8. QED
  BY <1>3, <1>5, <1>6, <1>7

\* No step touches an invitation that was accepted or revoked.
LEMMA EndsKept ==
  ASSUME IInv, [Next]_vars, NEW i \in Invitations,
         invitations[i].state \in {"accepted", "revoked"}
  PROVE  invitations'[i].state = invitations[i].state
<1>1. invitations \in [Invitations -> Invitation]
  BY SeatFacts DEF IInv, TypeOK
<1>2. \A t \in Txns : txn[t].at = "admitted" =>
         /\ txn[t].invitation \in Invitations
         /\ invitations[txn[t].invitation].state \in {"open", "expired"}
  BY DEF IInv, AcceptsExclude, Accepting
<1>3. ASSUME NEW t \in Txns, CreateInsert(t) PROVE invitations'[i] = invitations[i]
  <2>1. PICK j \in Invitations :
           /\ invitations[j].state = "none"
           /\ \A k \in Invitations \ {j} : invitations'[k] = invitations[k]
    BY <1>1, <1>3 DEF CreateInsert, Invitations
  <2>2. QED
    BY <2>1
<1>4. ASSUME NEW t \in Txns, AcceptMember(t) \/ AcceptInsert(t)
      PROVE  invitations'[i] = invitations[i]
  <2>1. /\ invitations[txn[t].invitation].state \in {"open", "expired"}
        /\ invitations' = [invitations EXCEPT ![txn[t].invitation].state = "accepted"]
    BY <1>2, <1>4 DEF AcceptMember, AcceptInsert, Pending
  <2>2. QED
    BY <1>1, <2>1
<1>5. ASSUME NEW j \in Invitations, Revoke(j) \/ Expire(j)
      PROVE  invitations'[i] = invitations[i]
  <2>1. /\ invitations[j].state = "open"
        /\ \E st \in {"revoked", "expired"} :
              invitations' = [invitations EXCEPT ![j].state = st]
    BY <1>5 DEF Revoke, Expire, Pending
  <2>2. QED
    BY <1>1, <2>1
<1>6. CASE SeatNext
  BY <1>3, <1>4, <1>5, <1>6
     DEF SeatNext, CreateCheck, AcceptLock, AcceptRefused, AcceptFull, AcceptAdmit, AcceptAborts,
         ChangeSeatLimit
<1>7. CASE DeletionNext
  BY <1>7 DEF DeletionNext, Execute, UseService, BeNamed, Open, SetExecuting, RevokeSessions,
         Anonymize, DeleteUser, Complete202, Fail503, Perish, PassDeadline, SweepStart, SweepRow,
         seatVars
<1>8. QED
  BY <1>6, <1>7 DEF Next, vars, seatVars

\* However many invitees accept together, each takes a seat of the limit he was
\* checked against, and an accepted or revoked invitation stays what it is.
THEOREM SeatRulesHold == Spec => SeatRules
<1>1. IInv /\ [Next]_vars =>
         [\A t \in Txns : AcceptInsert(t) => Cardinality(ActiveMembers') <= txn[t].limit]_seatVars
  BY SeatsLeft
<1>2. IInv /\ [Next]_vars =>
         [\A i \in Invitations : invitations[i].state \in {"accepted", "revoked"}
             => invitations'[i].state = invitations[i].state]_seatVars
  BY EndsKept
<1>3. QED
  BY <1>1, <1>2, Invariance, PTL DEF Spec, SeatRules, SeatsRespected, InvitationsEndOnce
=============================================================================
