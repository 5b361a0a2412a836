---------------------------- MODULE MCMemberTable ----------------------------
(***************************************************************************)
(* MemberTable with two cards and one name.  The lines that clients add    *)
(* are a complete one for each card, one without a name and one with a     *)
(* blank inside the name.  What is left of earlier codes is the empty      *)
(* string, which a member without a name matches.  A null string is empty, *)
(* or becomes one arbitrary character once it has compared equal.          *)
(***************************************************************************)
EXTENDS MemberTable

CONSTANTS A, B, n

MCCards == {A, B}
MCNames == {n}
MCStrays == {NoWord}
EmptyNull == {[compared |-> NoWord, id |-> NoWord, name |-> NoWord]}
MCNullReads == {[compared |-> NoWord, id |-> NoWord, name |-> NoWord],
                [compared |-> NoWord, id |-> Junk, name |-> Junk]}
MCAddLines == {<<A, n>>, <<B, n>>, <<A>>, <<B, n, n>>}
CompleteLines == {<<A, n>>, <<B, n>>}
=============================================================================
