--------------------------- MODULE MCPgHbaRewrite ---------------------------
(* Two rules, a list of one and a list of both. *)
EXTENDS PgHbaRewrite
CONSTANTS r1, r2

MCLists == {<<r1>>, <<r2, r1>>}
=============================================================================
