------------------------------ MODULE MCDoorLock ------------------------------
(***************************************************************************)
(* DoorLock on a counter that rolls over every 14 ms, with delays of up to *)
(* 4 ms, handlers of at most 1 ms and a refused card that blocks for 3 ms: *)
(* a pass of the loop takes up to 8 ms, so every delay can be over before  *)
(* the next t.update(), and an unlocked period can cross the roll-over at  *)
(* any point.  Three events, so that a leaked one does not fill the table  *)
(* at once.                                                                *)
(***************************************************************************)
EXTENDS DoorLock

MCCallbacks == {lock_door}
MCTypedDelays == {-5, -1, 0, 1, 4}
=============================================================================
