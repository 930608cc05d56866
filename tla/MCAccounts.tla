------------------------------- MODULE MCAccounts -------------------------------
(* A small instance of Accounts for TLC. *)
EXTENDS Accounts

RequestSymmetry == Permutations(Registrations) \union Permutations(Txns)
                   \union Permutations(Submissions)

Busy(procs, at(_)) == Cardinality({p \in procs : at(p) # "idle"})

Registering == hits > 0 \/ hour > 1 \/ enabled # Codes
Inviting    == Cardinality({i \in Invitations : invitations[i].state # "none"}) - 1
Deleting    == \E u \in Leavers : ledger[u] # NoRequest

(***************************************************************************)
(* Bounds: two requests are open at a time; invitations are not mixed with *)
(* registration (which they do not touch), and a deletion is mixed with    *)
(* one of them, with one invitation and a fixed seat limit; usage is       *)
(* counted once a deletion is asked for.                                   *)
(***************************************************************************)
InFlight == Busy(Registrations, LAMBDA q : reg[q].at) + Busy(Txns, LAMBDA t : txn[t].at)
            + Busy(Submissions, LAMBDA s : sub[s].at)

Bounds ==
    /\ InFlight <= 2
    /\ Deleting => Inviting <= 1 /\ seatLimit = 3

MCNext ==
    \/ Inviting = 0 /\ RegNext /\ UNCHANGED <<seatVars, deletionVars>>
    \/ ~Registering /\ SeatNext /\ UNCHANGED <<regVars, deletionVars>>
    \/ DeletionNext /\ (deadline' > 0 \/ counted' # {} => Deleting)

MCSpec == Init /\ [][MCNext]_vars
=============================================================================
