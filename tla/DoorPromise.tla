----------------------------- MODULE DoorPromise -----------------------------
(***************************************************************************)
(* What the door control of smartdoor_v8.ino promises to the people who    *)
(* use the door, said without the timer, the millisecond counter and the   *)
(* order of the handlers: unlocking takes some time, up to Opening, in     *)
(* which the door is already open; from then on it is open for at least    *)
(* the window that holds then, and for less than Grace longer.             *)
(***************************************************************************)
EXTENDS Integers

CONSTANTS MaxWindow, Opening, Grace

VARIABLES
  open,    \* the lock is released
  held,    \* time since it was last released, 0 when it is not
  window   \* the time it is to stay released, 0 when it is not

vars == <<open, held, window>>

Init == open = FALSE /\ held = 0 /\ window = 0

Unlock ==
  /\ open' = TRUE
  /\ held' \in 0 .. Opening
  /\ window' \in 1 .. MaxWindow

Hold ==
  /\ open
  /\ held' >= held
  /\ held' < Opening + window + Grace
  /\ UNCHANGED <<open, window>>

Lock ==
  /\ open
  /\ held >= window
  /\ open' = FALSE
  /\ held' = 0
  /\ window' = 0

Next == Unlock \/ Hold \/ Lock

Spec == Init /\ [][Next]_vars
=============================================================================
