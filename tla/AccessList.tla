------------------------------ MODULE AccessList ------------------------------
(***************************************************************************)
(* What the member list of smartdoor_v8.ino promises, said without the     *)
(* array, the file and their formats: the set of the cards that open the   *)
(* door, which a client's command changes by one card at most.             *)
(***************************************************************************)
CONSTANT Cards

VARIABLES
  allowed,   \* the cards that open the door
  removing,  \* a removal has begun and is not yet on the SD card
  trouble,   \* the SD card has failed, and may hold another list
  broken     \* the file has outgrown the array; nothing is promised any more

vars == <<allowed, removing, trouble, broken>>

Init == allowed = {} /\ removing = FALSE /\ trouble = FALSE /\ broken = FALSE

\* The SD card may fail in any step that writes
MayFail == trouble => trouble'

Add ==
  /\ ~removing
  /\ \/ \E c \in Cards : allowed' = allowed \cup {c}
     \/ trouble /\ allowed' \in SUBSET Cards
     \/ UNCHANGED allowed
  /\ MayFail
  /\ UNCHANGED <<removing, broken>>

RemoveBegins ==
  /\ ~removing
  /\ removing' = TRUE
  /\ allowed' = allowed \/ \E c \in allowed : allowed' = allowed \ {c}
  /\ MayFail
  /\ UNCHANGED broken

RemoveEnds ==
  /\ removing
  /\ removing' = FALSE
  /\ MayFail
  /\ UNCHANGED <<allowed, broken>>

\* The board is reset, and reads a list that is another one only after a failure
\* or in the middle of a removal, or none at all
Restart ==
  /\ \/ trouble' = FALSE /\ (allowed' = allowed \/ (removing /\ allowed' = {})
                               \/ (trouble /\ allowed' \in SUBSET Cards))
     \/ trouble' = TRUE /\ allowed' = {}
  /\ removing' = FALSE
  /\ UNCHANGED broken

\* From here on any card may open the door
Break ==
  /\ ~removing \/ trouble
  /\ broken' = TRUE
  /\ allowed' \in SUBSET Cards
  /\ removing' = FALSE
  /\ trouble' \in BOOLEAN

Next == ~broken /\ (Add \/ RemoveBegins \/ RemoveEnds \/ Restart \/ Break)

Spec == Init /\ [][Next]_vars
=============================================================================
