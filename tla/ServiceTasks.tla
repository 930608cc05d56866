---------------------------- MODULE ServiceTasks ----------------------------
(***************************************************************************)
(* One service task from its creation to its end: the applications of the  *)
(* organisations, the match, the contact consent of both sides and the     *)
(* completion (backend/app/service_tasks.py), with the constraints of      *)
(* migration 20260905000400 and the display window of                      *)
(* get_task_contact_email.                                                 *)
(*                                                                         *)
(* Every handler is one transaction that locks the task's row before it    *)
(* decides anything, so a handler is one action.  A handler that answers   *)
(* 4xx, an idempotent answer, and a transaction that a constraint aborts   *)
(* leave the tables alone and are no action.                               *)
(***************************************************************************)
EXTENDS Naturals, Sequences

CONSTANTS Orgs,     \* organisations
          NoOrg,    \* stands for the missing consent row
          Callers   \* for each kind of B-side caller, the organisations managed

ASSUME OrgsAssumption ==
    /\ NoOrg \notin Orgs
    /\ Callers \subseteq SUBSET Orgs

VARIABLES
    status,        \* service_tasks.status, "none" before the row exists
    applications,  \* task_applications.status of each organisation
    consent,       \* the contact_consents row; org is NoOrg without one
    window,        \* emails_visible_until: null, ahead or passed
    history        \* rows of task_status_history

vars == <<status, applications, consent, window, history>>

Statuses == {"draft", "open", "matched_pending_consent", "in_progress",
             "completion_pending", "completed", "cancelled", "expired",
             "closed_unconfirmed", "suspended"}

Actors  == {"admin", "creator", "org"}
Grants  == {"pending", "granted"}
Consent == [org : Orgs \union {NoOrg}, c_status : Grants, b_status : Grants]
HistoryRow == [from : Statuses \union {"none"}, to : Statuses, by : Actors]

Init ==
    /\ status = "none"
    /\ applications = [o \in Orgs |-> "none"]
    /\ consent = [org |-> NoOrg, c_status |-> "pending", b_status |-> "pending"]
    /\ window = "null"
    /\ history = << >>

TRANSITIONS ==
    {<<"draft", "open">>, <<"draft", "cancelled">>,
     <<"open", "matched_pending_consent">>, <<"open", "cancelled">>,
     <<"matched_pending_consent", "in_progress">>,
     <<"matched_pending_consent", "cancelled">>,
     <<"in_progress", "completion_pending">>, <<"in_progress", "cancelled">>,
     <<"completion_pending", "completed">>}

allowed_transition(old, new, actor) ==
    /\ <<old, new>> \in TRANSITIONS
    /\ <<old, new>> = <<"completion_pending", "completed">> => actor = "creator"

\* Mutant: a row is appended only for the steps of the parties.
SetStatusAdminSilent(new, actor) ==
    /\ status' = new
    /\ history' = IF actor = "admin" /\ status # "none" THEN history
                  ELSE Append(history, [from |-> status, to |-> new, by |-> actor])

\* The update of service_tasks.status with _append_history.
SetStatus(new, actor) ==
    /\ status' = new
    /\ history' = Append(history, [from |-> status, to |-> new, by |-> actor])

(***************************************************************************)
(* The handlers.                                                           *)
(***************************************************************************)
admin_create(first) ==
    /\ status = "none"
    /\ first \in {"draft", "open"}
    /\ SetStatus(first, "admin")
    /\ UNCHANGED <<applications, consent, window>>

\* One application per organisation and task; a terminal one is not renewed.
apply(managed) ==
    /\ status = "open"
    /\ \E o \in managed :
          /\ applications[o] = "none"
          /\ applications' = [applications EXCEPT ![o] = "pending"]
    /\ UNCHANGED <<status, consent, window, history>>

\* Mutant: a withdrawal is recorded as a rejection.
withdrawRejects(managed) ==
    /\ status = "open"
    /\ \E o \in managed :
          /\ applications[o] = "pending"
          /\ applications' = [applications EXCEPT ![o] = "rejected"]
    /\ UNCHANGED <<status, consent, window, history>>

\* A caller who manages several applicants withdraws whichever row the query
\* returns.
withdraw(managed) ==
    /\ status = "open"
    /\ \E o \in managed :
          /\ applications[o] = "pending"
          /\ applications' = [applications EXCEPT ![o] = "withdrawn"]
    /\ UNCHANGED <<status, consent, window, history>>

\* admin_status with matched_pending_consent; the other applications stay
\* pending.
admin_match(o) ==
    /\ status = "open"
    /\ applications[o] = "pending"
    /\ applications' = [applications EXCEPT ![o] = "matched"]
    /\ consent' = [org |-> o, c_status |-> "pending", b_status |-> "pending"]
    /\ SetStatus("matched_pending_consent", "admin")
    /\ UNCHANGED window

\* Mutant: cancellation is left to the transition table.
admin_statusCancelsLate(new) ==
    /\ new \in Statuses \ {"completed", "matched_pending_consent"}
    /\ allowed_transition(status, new, "admin")
    /\ SetStatus(new, "admin")
    /\ UNCHANGED <<applications, consent, window>>

\* admin_status with any other status.
admin_status(new) ==
    /\ new \in Statuses \ {"completed", "matched_pending_consent"}
    /\ new = "cancelled" => status \in {"draft", "open"}
    /\ allowed_transition(status, new, "admin")
    /\ SetStatus(new, "admin")
    /\ UNCHANGED <<applications, consent, window>>

OtherGranted(actor) ==
    IF actor = "creator" THEN consent.b_status = "granted" ELSE consent.c_status = "granted"

Granted(actor) ==
    IF actor = "creator" THEN [consent EXCEPT !.c_status = "granted"]
                         ELSE [consent EXCEPT !.b_status = "granted"]

MayGrant(actor, managed) ==
    /\ consent.org # NoOrg
    /\ actor = "org" => consent.org \in managed
    /\ Granted(actor) # consent

\* The second grant while the match is pending exchanges the addresses.
grant_mutual(actor, managed) ==
    /\ MayGrant(actor, managed)
    /\ OtherGranted(actor)
    /\ status = "matched_pending_consent"
    /\ consent' = Granted(actor)
    /\ window' = "ahead"
    /\ SetStatus("in_progress", actor)
    /\ UNCHANGED applications

\* Mutant: the window opens with the first grant.
grant_oneOpens(actor, managed) ==
    /\ MayGrant(actor, managed)
    /\ ~OtherGranted(actor)
    /\ consent' = Granted(actor)
    /\ window' = "ahead"
    /\ UNCHANGED <<status, applications, history>>

\* Any other grant only sets its field.  For a second grant after the match,
\* granted_at is still null and contact_consents_granted_at_required_check
\* aborts the transaction: it is no action.
grant_one(actor, managed) ==
    /\ MayGrant(actor, managed)
    /\ ~OtherGranted(actor)
    /\ consent' = Granted(actor)
    /\ UNCHANGED <<status, applications, window, history>>

complete(managed) ==
    /\ \E o \in managed : applications[o] = "matched"
    /\ allowed_transition(status, "completion_pending", "org")
    /\ SetStatus("completion_pending", "org")
    /\ UNCHANGED <<applications, consent, window>>

confirm_completion ==
    /\ allowed_transition(status, "completed", "creator")
    /\ SetStatus("completed", "creator")
    /\ UNCHANGED <<applications, consent, window>>

\* Thirty days after the addresses were exchanged.
WindowEnds ==
    /\ window = "ahead"
    /\ window' = "passed"
    /\ UNCHANGED <<status, applications, consent, history>>

Next ==
    \/ \E first \in {"draft", "open"} : admin_create(first)
    \/ \E o \in Orgs : admin_match(o)
    \/ \E new \in Statuses : admin_status(new)
    \/ \E managed \in Callers :
          \/ apply(managed)
          \/ withdraw(managed)
          \/ complete(managed)
          \/ grant_one("org", managed)
          \/ grant_mutual("org", managed)
    \/ grant_one("creator", {})
    \/ grant_mutual("creator", {})
    \/ confirm_completion
    \/ WindowEnds

Spec == Init /\ [][Next]_vars

(***************************************************************************)
(* Properties.                                                             *)
(***************************************************************************)
\* Every variable stays within its type.
TypeOK ==
    /\ status \in Statuses \union {"none"}
    /\ applications \in [Orgs -> {"none", "pending", "withdrawn", "matched"}]
    /\ consent \in Consent
    /\ window \in {"null", "ahead", "passed"}
    /\ history \in Seq(HistoryRow)

Matched == {"matched_pending_consent", "in_progress", "completion_pending", "completed"}

\* A task has a consent row exactly while and after it is matched, so it is
\* never cancelled once matched; and the matched application is the one of
\* the consent's organisation, and the only one.
MatchAgrees ==
    /\ consent.org # NoOrg <=> status \in Matched
    /\ \A o \in Orgs : applications[o] = "matched" <=> consent.org = o

\* The window belongs to a mutual grant: it never opens on one side's word,
\* and both sides' word never goes without it.
WindowIsMutual ==
    window # "null" <=> consent.c_status = "granted" /\ consent.b_status = "granted"

\* Addresses are disclosed between the two parties of the one match of a
\* task, on both their words: the conjunction of the two properties above
\* over well-typed states.
ContactIsMutual == TypeOK /\ MatchAgrees /\ WindowIsMutual

\* task_status_history is the task's whole past: its rows follow one another
\* from the creation to the present status, each by someone entitled to it.
HistoryIsComplete ==
    /\ history = << >> <=> status = "none"
    /\ history # << >> => history[1].from = "none" /\ history[Len(history)].to = status
    /\ \A i \in 1..Len(history) :
          i > 1 =>
            /\ history[i].from = history[i - 1].to
            /\ allowed_transition(history[i].from, history[i].to, history[i].by)
=============================================================================
