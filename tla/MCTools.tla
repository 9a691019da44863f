------------------------------ MODULE MCTools ------------------------------
(* Two servers that share a tool name; one name needs confirmation, where  *)
(* there is a gate, and one is blocked.                                    *)
EXTENDS Tools

MCOffers == [s \in Server |-> IF s = "timed" THEN {"send", "wipe"} ELSE {"send"}]
=============================================================================
