---------------------------- MODULE MCCardReader ----------------------------
(***************************************************************************)
(* CardReader with binary digits and two cards.  A frame of one pair has   *)
(* seven bytes and a call reads two, so a frame takes several calls; the   *)
(* ring holds eight, so that a whole frame can stand in it behind the end  *)
(* of another one.  Four bytes may be lost, at any places of the frames,   *)
(* and the board may be reset at any time.                                 *)
(***************************************************************************)
EXTENDS CardReader, Bitwise

OnePair == {<<0, 0>>, <<1, 0>>}
TwoPairs == {<<0, 0, 1, 0>>, <<1, 1, 0, 1>>}

ByteXorValue(a, b) == a ^^ b
=============================================================================
