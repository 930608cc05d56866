--------------------------- MODULE WebhookLedger ---------------------------
(***************************************************************************)
(* The payment provider's webhook ledger: how deliveries of the same event *)
(* claim it, apply its side effects and record failures (handle_webhook in *)
(* backend/app/billing/service.py and the transactions of                  *)
(* backend/app/billing/store.py it calls).                                 *)
(*                                                                         *)
(* A handler is one HTTP delivery in progress.  An action is one           *)
(* transaction, or one statement of the claim's transaction where another  *)
(* handler may commit before the next statement reads.  The provider       *)
(* redelivers what was not answered with a 2xx, and may deliver anything   *)
(* twice.  What the side effects do is abstracted to how often they were   *)
(* committed.                                                              *)
(***************************************************************************)
EXTENDS Naturals, Sequences

CONSTANTS Handlers,     \* deliveries the API processes concurrently
          Events,       \* provider event ids
          Invalid,      \* events with an unusable object: PermanentBillingError
          Unsupported,  \* events of a type that is recorded as ignored
          NoEvent,      \* "no event"
          MaxAttempts,  \* RetryPolicy.max_attempts
          MaxCrashes    \* bound on processes or connections that die

ASSUME LedgerAssumption ==
    /\ Invalid \subseteq Events
    /\ Unsupported \subseteq Events
    /\ NoEvent \notin Events
    /\ MaxAttempts \in Nat \ {0}
    /\ MaxCrashes \in Nat

VARIABLES
    status,    \* payment_events.status, "none" without a row
    failures,  \* classes of the billing.event.failed audit rows, in order
    applied,   \* how often the side effects of an event were committed
    acked,     \* events answered with a 2xx
    pc,        \* where a handler is
    ev,        \* the event it handles
    attempt,   \* its claim.attempt_count
    class,     \* the failure_class it is about to record
    crashes    \* handlers that died

vars == <<status, failures, applied, acked, pc, ev, attempt, class, crashes>>

Classes == {"transient", "permanent"}
Settled == {"processed", "ignored"}
Owning  == {"processing", "failing"}

Init ==
    /\ status = [e \in Events |-> "none"]
    /\ failures = [e \in Events |-> << >>]
    /\ applied = [e \in Events |-> 0]
    /\ acked = {}
    /\ pc = [h \in Handlers |-> "idle"]
    /\ ev = [h \in Handlers |-> NoEvent]
    /\ attempt = [h \in Handlers |-> 0]
    /\ class = [h \in Handlers |-> "transient"]
    /\ crashes = 0

GoTo(h, from, to) == pc[h] = from /\ pc' = [pc EXCEPT ![h] = to]

\* The handler answers and its request ends.
Answer(h, ok) ==
    /\ pc' = [pc EXCEPT ![h] = "idle"]
    /\ ev' = [ev EXCEPT ![h] = NoEvent]
    /\ attempt' = [attempt EXCEPT ![h] = 0]
    /\ class' = [class EXCEPT ![h] = "transient"]
    /\ acked' = IF ok THEN acked \union {ev[h]} ELSE acked

\* The provider delivers an event, for the first time or again.
Deliver(h, e) ==
    /\ GoTo(h, "idle", "claiming")
    /\ ev' = [ev EXCEPT ![h] = e]
    /\ UNCHANGED <<status, failures, applied, acked, attempt, class, crashes>>

(***************************************************************************)
(* claim_provider_event.                                                   *)
(***************************************************************************)
\* Mutant: the insert overwrites an existing row.
ClaimNewUpserts(h) ==
    /\ GoTo(h, "claiming", "processing")
    /\ status' = [status EXCEPT ![ev[h]] = "received"]
    /\ attempt' = [attempt EXCEPT ![h] = 1]
    /\ UNCHANGED <<failures, applied, acked, ev, class, crashes>>

\* insert .. on conflict (provider_event_id) do nothing, and it inserted.
ClaimNew(h) ==
    /\ GoTo(h, "claiming", "processing")
    /\ status[ev[h]] = "none"
    /\ status' = [status EXCEPT ![ev[h]] = "received"]
    /\ attempt' = [attempt EXCEPT ![h] = 1]
    /\ UNCHANGED <<failures, applied, acked, ev, class, crashes>>

\* The row exists: its status decides.
SeenSettled(h) ==
    /\ pc[h] = "claiming"
    /\ status[ev[h]] \in Settled
    /\ Answer(h, TRUE)
    /\ UNCHANGED <<status, failures, applied, crashes>>

\* Mutant: an event in progress is acknowledged.
SeenReceivedAcks(h) ==
    /\ pc[h] = "claiming"
    /\ status[ev[h]] = "received"
    /\ Answer(h, TRUE)
    /\ UNCHANGED <<status, failures, applied, crashes>>

SeenReceived(h) ==
    /\ pc[h] = "claiming"
    /\ status[ev[h]] = "received"
    /\ Answer(h, FALSE)
    /\ UNCHANGED <<status, failures, applied, crashes>>

SeenFailed(h) ==
    /\ GoTo(h, "claiming", "reading")
    /\ status[ev[h]] = "failed"
    /\ UNCHANGED <<status, failures, applied, acked, ev, attempt, class, crashes>>

LastClass(e) == failures[e][Len(failures[e])]

\* The newest failure row, read after the status: a dead letter is
\* acknowledged as a duplicate, anything else is claimed again.
DeadLetter(h) ==
    /\ pc[h] = "reading"
    /\ LastClass(ev[h]) = "permanent"
    /\ Answer(h, TRUE)
    /\ UNCHANGED <<status, failures, applied, crashes>>

ReadFailures(h) ==
    /\ GoTo(h, "reading", "reclaiming")
    /\ LastClass(ev[h]) = "transient"
    /\ attempt' = [attempt EXCEPT ![h] = Len(failures[ev[h]]) + 1]
    /\ UNCHANGED <<status, failures, applied, acked, ev, class, crashes>>

\* update .. set status = 'received' where .. status = 'failed'; whether a
\* row was updated is not looked at.
Reclaim(h) ==
    /\ GoTo(h, "reclaiming", "processing")
    /\ status' = [status EXCEPT ![ev[h]] = IF @ = "failed" THEN "received" ELSE @]
    /\ UNCHANGED <<failures, applied, acked, ev, attempt, class, crashes>>

(***************************************************************************)
(* process_provider_event and mark_provider_event_failed.                  *)
(***************************************************************************)
\* Mutant: a status the table's check constraint does not allow.
OutcomeSkipped(e) == IF e \in Unsupported THEN "skipped" ELSE "processed"

Outcome(e) == IF e \in Unsupported THEN "ignored" ELSE "processed"

\* Side effects, audit row and terminal status in one transaction.
Process(h) ==
    /\ pc[h] = "processing"
    /\ ev[h] \notin Invalid
    /\ applied' = [applied EXCEPT ![ev[h]] = @ + 1]
    /\ status' = [status EXCEPT ![ev[h]] = Outcome(ev[h])]
    /\ Answer(h, TRUE)
    /\ UNCHANGED <<failures, crashes>>

\* An invalid event is permanent; any other exception is transient as long
\* as RetryPolicy.next_retry_at gives a time.
FailureClass(h) ==
    IF ev[h] \in Invalid \/ attempt[h] >= MaxAttempts THEN "permanent" ELSE "transient"

Raise(h) ==
    /\ GoTo(h, "processing", "failing")
    /\ class' = [class EXCEPT ![h] = FailureClass(h)]
    /\ UNCHANGED <<status, failures, applied, acked, ev, attempt, crashes>>

\* Mutant: a late failure overwrites what another handler has processed.
MarkFailedAlways(h) ==
    /\ pc[h] = "failing"
    /\ status' = [status EXCEPT ![ev[h]] = "failed"]
    /\ failures' = [failures EXCEPT ![ev[h]] = Append(@, class[h])]
    /\ Answer(h, FALSE)
    /\ UNCHANGED <<applied, crashes>>

\* Mutant: only the audit row is written.
MarkFailedAuditOnly(h) ==
    /\ pc[h] = "failing"
    /\ failures' = [failures EXCEPT ![ev[h]] = Append(@, class[h])]
    /\ Answer(h, FALSE)
    /\ UNCHANGED <<status, applied, crashes>>

\* The status is never taken back from processed or ignored.
MarkFailed(h) ==
    /\ pc[h] = "failing"
    /\ status' = [status EXCEPT ![ev[h]] =
                    IF @ \in {"received", "failed"} THEN "failed" ELSE @]
    /\ failures' = [failures EXCEPT ![ev[h]] = Append(@, class[h])]
    /\ Answer(h, FALSE)
    /\ UNCHANGED <<applied, crashes>>

\* The process or its connection dies: the open transaction is rolled back.
Crash(h) ==
    /\ pc[h] # "idle"
    /\ crashes < MaxCrashes
    /\ crashes' = crashes + 1
    /\ Answer(h, FALSE)
    /\ UNCHANGED <<status, failures, applied>>

Claim(h) ==
    \/ ClaimNew(h) \/ SeenSettled(h) \/ SeenReceived(h) \/ SeenFailed(h)
    \/ DeadLetter(h) \/ ReadFailures(h) \/ Reclaim(h)

Handle(h) == Claim(h) \/ Process(h) \/ Raise(h) \/ MarkFailed(h)

Next ==
    \/ \E h \in Handlers, e \in Events : Deliver(h, e)
    \/ \E h \in Handlers : Handle(h) \/ Crash(h)

Spec == Init /\ [][Next]_vars

\* An event is done when it was processed or a failure of it was final.
Done(e) ==
    \/ status[e] \in Settled
    \/ \E i \in 1..Len(failures[e]) : failures[e][i] = "permanent"

\* Handlers run, and the provider redelivers what is not answered with 2xx.
FairSpec ==
    /\ Spec
    /\ \A h \in Handlers : WF_vars(Handle(h))
    /\ \A e \in Events :
         SF_vars(e \notin acked /\ \E h \in Handlers : Deliver(h, e))

(***************************************************************************)
(* Properties.                                                             *)
(***************************************************************************)
\* Every variable stays within its type and the table's check constraint.
TypeOK ==
    /\ status \in [Events -> {"none", "received", "failed"} \union Settled]
    /\ failures \in [Events -> Seq(Classes)]
    /\ applied \in [Events -> Nat]
    /\ acked \subseteq Events
    /\ pc \in [Handlers -> {"idle", "claiming", "reading", "reclaiming"} \union Owning]
    /\ ev \in [Handlers -> Events \union {NoEvent}]
    /\ attempt \in [Handlers -> Nat]
    /\ class \in [Handlers -> Classes]
    /\ crashes \in 0..MaxCrashes
    /\ \A h \in Handlers : pc[h] # "idle" => ev[h] \in Events

\* An event is marked processed or ignored exactly when its side effects
\* were committed: no late failure or claim hides them.
AppliedIsMarked ==
    \A e \in Events :
        /\ applied[e] > 0 <=> status[e] \in Settled
        /\ status[e] \in Settled => status[e] = Outcome(e)

\* As long as no attempt has failed, one handler owns the event and its side
\* effects are committed at most once.
FirstTryIsExclusive ==
    \A e \in Events : failures[e] = << >> =>
        /\ applied[e] <= 1
        /\ \A g, h \in Handlers :
             pc[g] \in Owning /\ ev[g] = e /\ pc[h] \in Owning /\ ev[h] = e => g = h

\* The provider is told 2xx only for an event that was applied or has failed
\* for good: it never stops delivering one that still needs a retry.
AcksAreEarned == \A e \in acked : Done(e)

\* No event is lost, hidden or applied twice before a failure, however its
\* deliveries overlap, repeat and die.
EventsAreKept == TypeOK /\ AppliedIsMarked /\ FirstTryIsExclusive /\ AcksAreEarned

\* A processed or ignored event stays what it is.
SettledIsFinal ==
    [][\A e \in Events : status[e] \in Settled => status'[e] = status[e]]_vars

\* Every event received is processed or dead-lettered, unless a handler dies.
EventSettles == \A e \in Events : status[e] # "none" ~> Done(e) \/ crashes > 0

\* service.py: "Return a retryable error so Stripe can redeliver if the owner
\* dies": an event that was claimed and not acknowledged is done some day.
RedeliveryResolves ==
    \A e \in Events : status[e] = "received" /\ e \notin acked ~> Done(e)

(***************************************************************************)
(* The strengthening that makes the safety properties inductive.           *)
(***************************************************************************)
\* Whoever is past the status check of a failed event has seen a failure.
FailuresAreRecorded ==
    /\ \A e \in Events : status[e] = "failed" => failures[e] # << >>
    /\ \A h \in Handlers : pc[h] \in {"reading", "reclaiming"} => failures[ev[h]] # << >>

\* The owner of an event that has not failed holds it in received.
OwnerHoldsReceived ==
    \A h \in Handlers :
        pc[h] \in Owning /\ failures[ev[h]] = << >> => status[ev[h]] = "received"

IInv ==
    /\ TypeOK /\ AppliedIsMarked /\ FirstTryIsExclusive
    /\ FailuresAreRecorded /\ OwnerHoldsReceived /\ AcksAreEarned
=============================================================================
