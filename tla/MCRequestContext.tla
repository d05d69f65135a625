-------------------------- MODULE MCRequestContext --------------------------
(* A small instance of RequestContext.                                     *)
EXTENDS RequestContext, TLC

CONSTANTS super, admin, worker

SiteStaff == {super, admin}
ThreeAccounts == {super, admin, worker}
ThreeRoles == super :> "super_admin" @@ admin :> "company_admin"
                @@ worker :> "employee"

Symmetry == Permutations(Companies) \cup Permutations(Pks)
=============================================================================
