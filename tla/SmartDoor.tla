------------------------------- MODULE SmartDoor -------------------------------
(***************************************************************************)
(* smartdoor_v8.ino as a whole: the door control of DoorLock, the members  *)
(* of MemberTable and the Display, which the handlers of loop() connect.   *)
(* A card is looked up in the array before it opens the door, the button   *)
(* and the timer draw on the screen, a command that adds or removes a      *)
(* member runs between the button and the card reader, and a reset takes   *)
(* everything but the file on the SD card back to its beginning.           *)
(***************************************************************************)
EXTENDS DoorLock, Sequences

CONSTANTS MEMBER, Cards, Names, Strays, NoWord, Fragment, Junk, NullReads, AddLines,
          SDOutcomes, FILE_MAX, Minutes

\* What MemberTable assumes
ASSUME MembersAssumption ==
  /\ MEMBER \in Nat \ {0}
  /\ Cards \cap {Fragment, Junk, NoWord} = {}
  /\ Strays \subseteq Cards \cup Names \cup {Fragment, Junk, NoWord}
  /\ NullReads \subseteq [compared : {NoWord, Junk}, id : {NoWord, Junk},
                          name : {NoWord, Junk}]
  /\ AddLines \subseteq Seq(Cards \cup Names \cup {NoWord}) \ {<<>>}
  /\ \A line \in AddLines : line[1] \in Cards
  /\ TRUE \in SDOutcomes /\ SDOutcomes \subseteq BOOLEAN
  /\ FILE_MAX \in Nat

VARIABLES
  table, file, code, mounted, trouble, overrun,   \* of MemberTable
  command,                                        \* its pc
  tm, header, message                             \* of Display

members == <<table, file, code, mounted, trouble, overrun, command>>
shown == <<tm, header, message>>
all == <<vars, members, shown>>

Members == INSTANCE MemberTable WITH pc <- command
Screen == INSTANCE Display

Known(tbl, c) == Members!Matches(tbl, c) /= {}

-----------------------------------------------------------------------------
(* setup(): without the SD card it returns before pinMode(DOOR, OUTPUT) *)

Boots ==
  /\ Init
  /\ Members!Init
  /\ Screen!DisplayBoots

Reset ==
  /\ Members!Reset
  /\ events' = NoEvents
  /\ lockEvent' = 0
  /\ doorState' = FALSE
  /\ doorPin' = LOW
  /\ delayTime' = DEFAULT_DELAY
  /\ clock' = 0
  /\ pc' = "update"
  /\ openFor' = 0
  /\ Screen!LEDprint("reset", FALSE)

-----------------------------------------------------------------------------
(* The handlers *)

\* Fault: lock_door() does not draw
LockSilently(d) ==
  /\ Update(d)
  /\ UNCHANGED <<members, shown>>

\* t.update(), with the LEDprint("reset") of lock_door()
TimerPass(d) ==
  /\ Update(d)
  /\ IF Firing(clock) = {} THEN UNCHANGED shown ELSE Screen!LEDprint("reset", FALSE)
  /\ UNCHANGED members

Time(d) ==
  /\ UpdateTime(d)
  /\ Screen!updateTime
  /\ UNCHANGED members

\* LEDprint() looks up the last code, and so trims the table
Switch(d) ==
  \/ /\ ButtonPressed(d)
     /\ Members!Button
     /\ Screen!LEDprint("UNLOCK by SWITCH", code /= NoWord /\ Known(table, code))
  \/ ButtonReleased(d) /\ UNCHANGED <<members, shown>>

\* process_server(): a command that is over within the handler
Command(d) ==
  /\ command = "idle"
  /\ \/ \E time \in TypedDelays : SetDelaytime(time, d) /\ UNCHANGED members
     \/ OtherCommand(d) /\ UNCHANGED members
     \/ \E line \in AddLines : OtherCommand(d) /\ Members!add_member(line)
     \/ \E str \in Cards \cup Names \cup {NoWord} : OtherCommand(d) /\ Members!RemoveFails(str)
  /\ UNCHANGED shown

\* The removal of a member, which a reset may interrupt
BeginRemoval ==
  /\ pc = "process_server"
  /\ \E str \in Cards \cup Names \cup {NoWord} : Members!RemoveBegins(str)
  /\ UNCHANGED <<vars, shown>>

EndRemoval(d) ==
  /\ OtherCommand(d)
  /\ Members!RemoveWrites
  /\ UNCHANGED shown

\* Fault: the refusal is left on the screen
RefusalStays(c, d) ==
  /\ Members!Card(c)
  /\ IF Known(table, c)
     THEN /\ CardAccepted(d)
          /\ Screen!LEDprint(table[Members!isUser(table, c)].name, c /= NoWord)
     ELSE /\ CardDenied(d)
          /\ Screen!LEDprint("Denied", FALSE)

\* check_IDAccess() for whatever has passed the checksum, and what the screen shows
\* in the end
Card(c, d) ==
  /\ Members!Card(c)
  /\ IF Known(table, c)
     THEN /\ CardAccepted(d)
          /\ Screen!LEDprint(table[Members!isUser(table, c)].name, c /= NoWord)
     ELSE /\ CardDenied(d)
          /\ Screen!LEDprint("reset", FALSE)

Quiet(d) == NoCard(d) /\ UNCHANGED <<members, shown>>

Loop(d) ==
  \/ TimerPass(d) \/ Time(d) \/ Switch(d)
  \/ Command(d) \/ EndRemoval(d)
  \/ \E c \in Members!ReadCodes : Card(c, d)
  \/ Quiet(d)

\* When read_file() has run over the end of pupa nothing is known any more
SmartNext ==
  /\ ~overrun
  /\ Reset \/ BeginRemoval \/ \E d \in 0 .. HANDLER_MAX : Loop(d)

SmartSpec == Boots /\ [][SmartNext]_all

-----------------------------------------------------------------------------
(* Properties *)

\* What LEDprint() is asked to show, other than what it has a layout of its own for
Texts == Members!Words \cup {"UNLOCK by SWITCH"}

\* The variables of the three parts keep their types while they work together, and
\* what stands on the screen between two handlers is the invitation, or a name or
\* the switch, with a greeting or without.  A refusal never stays: only a member of
\* that name is greeted with "Access Denied".
SmartTypeOK ==
  /\ TypeOK
  /\ Members!TypeOK
  /\ {tm, header} \subseteq Minutes
  /\ \/ message = Screen!Attach
     \/ \E t \in Texts : message \in {<<t>>, <<"Hello", t>>}
     \/ "Denied" \in Texts /\ message = <<"Access", "Denied">>

\* A locked door asks for a card: whoever unlocked it, in whatever order it was
\* unlocked anew, refused somebody, passed a minute or was reset, no greeting is
\* left on the screen of a door that is locked.
LockedAsksForCard == doorPin = LOW => message = Screen!Attach

\* Whatever the reader makes of a card, whole or mixed from what earlier ones have
\* left, it opens the door only of a board that has its SD card, and only as a member:
\* the code is found with an entry, by its id or by its name, and the card of this
\* entry would open the door after a reset too, unless a failure of the SD card has
\* left the file and the array apart.  What decides at the door is what is stored.
\* (An id that is no card's, left of a line with blanks in it, is nobody's.)
StoredMembersOnly ==
  [][\A c \in Members!ReadCodes, d \in 0 .. HANDLER_MAX :
       Card(c, d) /\ CardAccepted(d) =>
         LET id == table[Members!isUser(table, c)].id
         IN  /\ mounted
             /\ ~trouble /\ Len(file) <= MEMBER /\ id \in Cards =>
                  id \in Members!Opens(Members!read_file(file, Members!Cleared))]_all

\* And whoever is stored gets in, for the whole of the delay that was set last:
\* whatever has been added, removed or trimmed since the card was stored, and
\* whatever event an earlier unlocking has left pending.
StoredMembersGetIn ==
  [][\A c \in Cards, d \in 0 .. HANDLER_MAX :
       /\ Card(c, d)
       /\ ~trouble /\ Len(file) <= MEMBER
       /\ c \in Members!Opens(Members!read_file(file, Members!Cleared))
       => /\ doorPin' = HIGH
          /\ events'[lockEvent'].period = delayTime
          /\ events'[lockEvent'].lastEventTime = clock']_all

\* The time on the screen is the one the log would use.
HeaderShowsTm == header = tm
=============================================================================
