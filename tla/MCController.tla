---------------------------- MODULE MCController ----------------------------
(* Finite instances of Controller for TLC. *)
EXTENDS Controller

CONSTANTS a, b

\* a and b have workspaces of one name in two organizations.
MCOrganizationOf == (a :> "o1") @@ (b :> "o2")
MCNameOf == (a :> "x") @@ (b :> "x")
=============================================================================
