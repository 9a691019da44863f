------------------------------ MODULE MCRunner ------------------------------
(***************************************************************************)
(* Small graphs for the Runner.  Edges are numbered; a graph is given by   *)
(* the sequences of their end points, groups and conditions.               *)
(***************************************************************************)
EXTENDS Runner, Sequences

\* a -> {b, c} -> d
DiamondFrom == <<"a", "a", "b", "c">>
DiamondTo   == <<"b", "c", "d", "d">>

\* two entries a, b joined by c
TwoEntryFrom == <<"a", "b">>
TwoEntryTo   == <<"c", "c">>

\* a and c feed b through an ANY join, b loops back to a (group 1) and feeds d
RoundFrom  == <<"b", "a", "c", "b">>
RoundTo    == <<"a", "b", "b", "d">>
RoundGroup == <<1, 0, 0, 0>>
RoundCond  == <<"ALL", "ANY", "ANY", "ALL">>

Zeros2 == <<0, 0>>
Zeros4 == <<0, 0, 0, 0>>
All2 == <<"ALL", "ALL">>
All4 == <<"ALL", "ALL", "ALL", "ALL">>
=============================================================================
