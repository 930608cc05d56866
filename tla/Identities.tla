------------------------------ MODULE Identities ------------------------------
(***************************************************************************)
(* The identity provider (Supabase Auth, external) as the account handlers *)
(* use it.  A user is one identity with its mail address; a person who     *)
(* registers again after a deletion is another user.                       *)
(***************************************************************************)
CONSTANT Users

VARIABLE identity

IdentitiesOK == identity \in [Users -> {"unknown", "registered", "deleted"}]

\* require_user lets these start a request.
SignedIn(u) == identity[u] = "registered"
=============================================================================
