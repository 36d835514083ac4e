--------------------------- MODULE MCGrantResource ---------------------------
(* Two privileges; a list of one, a sorted and an unsorted list of both,   *)
(* ALL and the empty list.                                                 *)
EXTENDS GrantResource
CONSTANTS g1, g2

MCPrivOrder == <<"INSERT", "SELECT">>
MCLists == {<<"SELECT">>, <<"SELECT", "INSERT">>, <<"ALL">>, <<>>}

(* One grant with three edits, and two concurrent grants with two. *)
MCCases == {[resources |-> {g1}, edits |-> 3], [resources |-> {g1, g2}, edits |-> 2]}
=============================================================================
