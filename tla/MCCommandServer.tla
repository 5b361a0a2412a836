--------------------------- MODULE MCCommandServer ---------------------------
(***************************************************************************)
(* CommandServer with two sockets and a long of three bits.  Every client  *)
(* types "\t4_5\n4_3\n": a delay that overflows, behind a blank, and one   *)
(* that does not.  The text arrives in pieces cut anywhere.  The buffer    *)
(* has room for "4_" of a client that is cut off and for the line that     *)
(* follows it, so that the two are executed as one; with more left behind  *)
(* it overruns.                                                            *)
(***************************************************************************)
EXTENDS CommandServer

MCTexts == { <<9, 52, 95, 53, NL, 52, 95, 51, NL>> }
=============================================================================
