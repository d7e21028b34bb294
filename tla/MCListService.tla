---------------------------- MODULE MCListService ----------------------------
(***************************************************************************)
(* ListService for TLC: the codes of servers and how a file writes them.    *)
(***************************************************************************)
EXTENDS ListService

\* Codes that are a byte, as those of requests are, and one that is none and ends
\* in the byte 44.
MCNumeral == (0 :> <<"0">>) @@ (44 :> <<"4", "4">>) @@ (300 :> <<"3", "0", "0">>)

=============================================================================
