--------------------------- MODULE BackOfficeViews ---------------------------
(***************************************************************************)
(* What the back office shows (the read routes of backend/app/admin): a    *)
(* list is read page by page, each page with a count of its own, while     *)
(* requests change what it lists; the audit log shows its newest entries,  *)
(* to member_ops only those about members.                                 *)
(***************************************************************************)
EXTENDS BackOffice, SequencesExt

CONSTANTS KeyOrder,   \* the source keys in the order of the registry
          PageSize,   \* rows of a page
          AuditLimit  \* rows of an audit answer

ASSUME ViewsAssumption ==
    /\ IsFiniteSet(Staff)
    /\ KeyOrder \in Seq(Sources)
    /\ PageSize \in Nat \ {0}
    /\ AuditLimit \in Nat \ {0}

VARIABLES
    view,  \* one reader: [at, lists, scope, page, total, rows, undisturbed]
    shown  \* the entries the last audit answer showed, and in which scope

viewVars == <<view, shown>>

Lists   == {"members", "sources", "runs"}
Closed  == [at |-> "closed", lists |-> "none", page |-> 0, total |-> 0,
            rows |-> << >>, undisturbed |-> TRUE]
Nothing == [scope |-> "none", entries |-> {}, of |-> {}]

ViewsInit == view = Closed /\ shown = Nothing

\* The roles the read routes list.
MayRead(u, what) ==
    \E r \in Roles :
        /\ Holds(u, r)
        /\ r \in CASE what = "members" -> {"member_ops", "super_admin"}
                   [] what = "audit" -> {"member_ops", "super_admin"}
                   [] what \in {"sources", "runs"} -> {"member_ops", "data_ops", "super_admin"}
                   [] OTHER -> {"finance", "super_admin"}

\* The registered sources by their keys.
Registered ==
    LET ns == {n \in 1..Len(KeyOrder) : sources[KeyOrder[n]].known}
    IN  [i \in 1..Cardinality(ns) |-> KeyOrder[CHOOSE n \in ns : Cardinality({m \in ns : m <= n}) = i]]

\* list_members, list_collection_sources, list_collection_runs: newest first,
\* the registry by key.
Listing(lists) ==
    CASE lists = "members" -> SetToSeq(Staff)
      [] lists = "sources" -> Registered
      [] lists = "runs" -> [n \in 1..created["collection_run"] |-> created["collection_run"] + 1 - n]

\* limit size offset n
Slice(rows, n) == SubSeq(rows, n + 1, IF n + PageSize < Len(rows) THEN n + PageSize ELSE Len(rows))

\* Mutant: the first page is page 0.
PageFromZero(rows, page) == Slice(rows, page * PageSize)

\* offset max(page - 1, 0) * page_size
Page(rows, page) == Slice(rows, (page - 1) * PageSize)

OpenView ==
    /\ view.at = "closed"
    /\ \E u \in Staff, lists \in Lists :
          MayRead(u, lists) /\ view' = [Closed EXCEPT !.at = "count", !.lists = lists, !.page = 1]
    /\ UNCHANGED shown

\* The count and the rows are two statements.
CountList ==
    /\ view.at = "count"
    /\ view' = [view EXCEPT !.at = "rows", !.total = Len(Listing(view.lists))]
    /\ UNCHANGED shown

FetchRows ==
    /\ view.at = "rows"
    /\ view' = [view EXCEPT !.at = "page", !.rows = @ \o Page(Listing(view.lists), view.page)]
    /\ UNCHANGED shown

\* The reader goes on to the next page while there is one, and else leaves.
TurnPage ==
    /\ view.at = "page"
    /\ view' = IF view.page * PageSize < view.total
               THEN [view EXCEPT !.at = "count", !.page = @ + 1]
               ELSE Closed
    /\ UNCHANGED shown

\* Somebody's request changed what is listed.
Disturbed ==
    \E lists \in {view.lists} :
        view' = [view EXCEPT !.undisturbed =
                   @ /\ (lists = "none" \/ Listing(lists)' = Listing(lists))]

InMemberScope(e) == e.op.kind = "profile"

\* Mutant: the newest entries are taken first and then filtered.
AuditAnswersFilteredLate(scope) ==
    LET all == 1..Len(audit)
    IN  {{n \in ns : scope = "all" \/ InMemberScope(audit[n])} :
         ns \in {ms \in SUBSET all : /\ Cardinality(ms) = IF Cardinality(all) < AuditLimit
                                                          THEN Cardinality(all) ELSE AuditLimit
                                     /\ \A m \in ms, n \in all \ ms : audit[m].began >= audit[n].began}}

\* list_audit: the newest entries of the scope; entries that began together
\* come in the order of their random ids.
AuditAnswers(scope) ==
    LET all == {n \in 1..Len(audit) : scope = "all" \/ InMemberScope(audit[n])}
    IN  {ms \in SUBSET all : /\ Cardinality(ms) = IF Cardinality(all) < AuditLimit
                                                  THEN Cardinality(all) ELSE AuditLimit
                             /\ \A m \in ms, n \in all \ ms : audit[m].began >= audit[n].began}

ReadAudit ==
    /\ \E u \in Staff :
          /\ MayRead(u, "audit")
          /\ LET scope == IF Holds(u, "super_admin") THEN "all" ELSE "members"
             IN  \E ms \in AuditAnswers(scope) :
                   shown' = [scope |-> scope, entries |-> ms, of |-> 1..Len(audit)]
    /\ UNCHANGED view

ReadNext == OpenView \/ CountList \/ FetchRows \/ TurnPage \/ ReadAudit

(***************************************************************************)
(* Properties.                                                             *)
(***************************************************************************)
\* Who pages through a list that nobody changes meanwhile has, on the last
\* page, seen every row once and none twice.
PagingIsExhaustive ==
    view.at = "page" /\ view.undisturbed /\ view.page * PageSize >= view.total
    => view.rows = Listing(view.lists)

\* An audit answer is short of its limit only when it shows everything its
\* reader may see, however many entries of other domains are newer.
AuditAnswersAreFull ==
    LET visible == {n \in shown.of : shown.scope = "all" \/ InMemberScope(audit[n])}
    IN  /\ shown.entries \subseteq visible
        /\ Cardinality(shown.entries) < AuditLimit => shown.entries = visible

\* What an administrator reads is the whole of what he asked for.
ViewsAreComplete == PagingIsExhaustive /\ AuditAnswersAreFull
=============================================================================
