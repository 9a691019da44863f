------------------------------ MODULE MCNodes ------------------------------
(* A team of three members.                                                *)
EXTENDS Nodes

MCMembers == <<"m1", "m2", "m3">>
=============================================================================
