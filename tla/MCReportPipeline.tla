-------------------------- MODULE MCReportPipeline --------------------------
(***************************************************************************)
(* A small instance of ReportPipeline for TLC, in two worlds.  In one, a   *)
(* single query (k1) meets two workers and the legacy request, with two    *)
(* units of allowance it may not use up.  In the other, k0 has used one    *)
(* unit without incident, and k1 and k2 race for the last one under the    *)
(* deployment's single worker; there a lease runs out only when the worker *)
(* has lost its claim, for nobody else could take the row before.          *)
(***************************************************************************)
EXTENDS ReportPipeline

CONSTANTS k0, k1, k2, w1, w2

Race    == query[k0] # "none"
Warming == Race /\ outbox[k0].status # "completed"

MCSubmit(k) ==
    /\ k = k0 => \A j \in Keys : query[j] = "none"
    /\ k = k2 => Race
    /\ ~Warming
    /\ SubmitQuery(k)

MCTime(k) ==
    /\ ~Warming
    /\ Race => pc[w1] = "idle" \/ outbox[k].status # "running"
    /\ TimePasses(k)

MCLegacy   == ~Race /\ LegacyRequest(k1)
MCStep(w)  == (Race => w = w1) /\ WorkerStep(w)
MCFault(w) == ~Warming /\ (Race => w = w1) /\ WorkerFault(w)

MCNext ==
    \/ \E k \in Keys : MCSubmit(k) \/ MCTime(k)
    \/ MCLegacy
    \/ \E w \in Workers : MCStep(w) \/ MCFault(w)

MCFairness ==
    /\ \A w \in Workers : WF_vars(MCStep(w))
    /\ \A k \in Keys : WF_vars(MCTime(k))

MCSpec == Init /\ [][MCNext]_vars /\ MCFairness
=============================================================================
