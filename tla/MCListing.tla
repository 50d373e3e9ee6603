----------------------------- MODULE MCListing -----------------------------
(* Values of the constants of Listing and Provisioning for TLC. *)
EXTENDS Listing, TLC

CONSTANTS usr, super, k, root, ann, r1

RolePermissionsValue == usr :> {k} @@ super :> {k}
RoleOrderValue == <<usr, super>>
RankValue == super :> 1 @@ usr :> 2 @@ k :> 1

By(field, value) == [field |-> field, value |-> value]

(* No filter; a search among the members of a role; a range of dates, the  *)
(* later of two filters on a field; one date; and two queries that are     *)
(* refused: the list of roles to filter by has no super_admin.             *)
QueriesValue ==
  { << >>,
    <<By("role", usr), By("isActive", TRUE), By("search", {ann, root})>>,
    <<By("createdAt", <<1>>), By("createdAt", <<2, 2>>)>>,
    <<By("createdAt", <<1>>)>>,
    <<By("role", super)>>,
    <<By("createdAt", NaN)>> }

PageInputsValue == {NaN, 0 - 1, 9}
PerPageInputsValue == {NaN, 0 - 1, 3}
=============================================================================
