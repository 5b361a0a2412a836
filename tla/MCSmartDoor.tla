----------------------------- MODULE MCSmartDoor -----------------------------
(***************************************************************************)
(* SmartDoor with two cards, an array of two members, delays of 1 and 2 ms *)
(* and a counter that rolls over every 9 ms.  One line gives its member    *)
(* the code of the other card for a name, so that this card opens the door *)
(* as the first one; the other line gives none, so that the empty code,    *)
(* which a reset may leave behind, opens the door as well.                 *)
(***************************************************************************)
EXTENDS SmartDoor

CONSTANTS A, B

MCCallbacks == {lock_door}
MCCards == {A, B}
MCStrays == {NoWord}
MCNullReads == {[compared |-> NoWord, id |-> NoWord, name |-> NoWord]}
MCAddLines == {<<A, B>>, <<B>>}
=============================================================================
