-------------------------- MODULE MCConfigResource --------------------------
(* One key of each context, one value, and four pg_hba lists: empty, one  *)
(* rule with and without a method, and another rule.                       *)
EXTENDS ConfigResource
CONSTANTS r1, r2

MCHbaLists == {<<>>, << <<r1, "default">> >>, << <<r1, Unset>> >>, << <<r2, "trust">> >>}
=============================================================================
