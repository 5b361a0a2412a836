---------------------------- MODULE SmartDoorProofs ----------------------------
(***************************************************************************)
(* Proofs about the whole sketch, for every member table, set of cards and *)
(* outcome of the SD card, and for all constants of the door control that  *)
(* the assumptions of TimerEvents and DoorLock allow.  A step of SmartDoor *)
(* is a step of DoorLock or a reset, so the inductive invariant of         *)
(* DoorLockProofs carries over once a reset is known to restore it.        *)
(***************************************************************************)
EXTENDS SmartDoor, DoorLockProofs

\* What is proved of the members
MP == INSTANCE MemberTableProofs WITH pc <- command

-----------------------------------------------------------------------------
(* The door control within the sketch *)

\* What runs beside the door control does not touch it, except for a reset.
LEMMA LoopStep ==
  ASSUME NEW d \in 0 .. HANDLER_MAX, Loop(d)
  PROVE  Handler(d)
<1>1. CASE TimerPass(d)
  BY <1>1 DEF TimerPass, Handler
<1>2. CASE Time(d)
  BY <1>2 DEF Time, Handler
<1>3. CASE Switch(d)
  BY <1>3 DEF Switch, Handler
<1>4. CASE Command(d)
  BY <1>4 DEF Command, Handler
<1>5. CASE EndRemoval(d)
  BY <1>5 DEF EndRemoval, Handler
<1>6. ASSUME NEW c \in Members!ReadCodes, Card(c, d)
      PROVE  Handler(d)
  BY <1>6 DEF Card, Handler
<1>7. CASE Quiet(d)
  BY <1>7 DEF Quiet, Handler
<1> QED
  BY <1>1, <1>2, <1>3, <1>4, <1>5, <1>6, <1>7 DEF Loop

LEMMA DoorStep == [SmartNext]_all => [Next]_vars \/ Reset
<1>1. CASE BeginRemoval
  BY <1>1 DEF BeginRemoval
<1>2. CASE \E d \in 0 .. HANDLER_MAX : Loop(d)
  BY <1>2, LoopStep DEF Next
<1>3. CASE UNCHANGED all
  BY <1>3 DEF all
<1> QED
  BY <1>1, <1>2, <1>3 DEF SmartNext

\* A reset leaves the door control in an initial state.
LEMMA ResetIInv == Reset => IInv'
<1> SUFFICES ASSUME Reset PROVE IInv'
  OBVIOUS
<1>1. FreeEvent \in Event /\ FreeEvent.eventType = EVENT_NONE
  BY EventTypes, CallbackAssumption, SizesAssumption DEF Millis
<1>2. events' \in [Slots -> Event] /\ Live(events') = {}
  BY <1>1 DEF Reset, NoEvents, Live
<1>3. 0 \in Slots /\ 0 \in Millis
  BY SizesAssumption DEF Slots, Millis
<1>4. TypeOK'
  BY <1>2, <1>3, DelaysAssumption DEF Reset, TypeOK, LOW, HIGH, Handlers
<1> QED
  BY <1>2, <1>4 DEF Reset, IInv, LockArmed, TrueAge, DueInTime, LOW, HIGH

-----------------------------------------------------------------------------
(* Theorems *)

\* The invariant of the door control holds in every state of the whole sketch:
\* across resets, removals that a reset interrupts, and failures of the SD card.
THEOREM WholeInvariance == SmartSpec => []IInv
<1>1. Boots => IInv
  BY InitIInv DEF Boots
<1>2. IInv /\ [SmartNext]_all => IInv'
  BY DoorStep, NextIInv, ResetIInv
<1> QED
  BY <1>1, <1>2, PTL DEF SmartSpec

\* In the whole sketch too the door is never open for longer than it takes to unlock
\* it, its delay and one pass of the loop.
THEOREM WholeTimelyLocking == SmartSpec => []LocksInTime
  BY InTime, WholeInvariance, PTL

\* In the whole sketch too an unlocked door has exactly the one pending event
\* that will lock it.
THEOREM WholeAlwaysArmed == SmartSpec => []LockArmed
<1>1. IInv => LockArmed
  BY DEF IInv
<1> QED
  BY <1>1, WholeInvariance, PTL

\* The header shows the minute that was read last from the clock chip.
THEOREM HeaderCurrent == SmartSpec => []HeaderShowsTm
<1>1. Boots => HeaderShowsTm
  BY DEF Boots, Screen!DisplayBoots, HeaderShowsTm
<1>2. ASSUME NEW text, NEW known, Screen!LEDprint(text, known)
      PROVE  HeaderShowsTm'
  BY <1>2 DEF Screen!LEDprint, Screen!printDateAndTime, HeaderShowsTm
<1>3. Screen!updateTime => (UNCHANGED shown \/ HeaderShowsTm')
  BY <1>2 DEF Screen!updateTime, Screen!shown, shown
<1>4. [SmartNext]_all => (UNCHANGED shown \/ HeaderShowsTm')
  <2>1. CASE Reset
    BY <1>2, <2>1 DEF Reset
  <2>2. CASE BeginRemoval
    BY <2>2 DEF BeginRemoval
  <2>3. ASSUME NEW d \in 0 .. HANDLER_MAX, Loop(d)
        PROVE  UNCHANGED shown \/ HeaderShowsTm'
    <3>1. CASE TimerPass(d)
      BY <1>2, <3>1 DEF TimerPass
    <3>2. CASE Time(d)
      BY <1>3, <3>2 DEF Time
    <3>3. CASE Switch(d)
      BY <1>2, <3>3 DEF Switch
    <3>4. CASE Command(d) \/ EndRemoval(d) \/ Quiet(d)
      BY <3>4 DEF Command, EndRemoval, Quiet
    <3>5. ASSUME NEW c \in Members!ReadCodes, Card(c, d)
          PROVE  HeaderShowsTm'
      BY <1>2, <3>5 DEF Card
    <3> QED
      BY <2>3, <3>1, <3>2, <3>3, <3>4, <3>5 DEF Loop
  <2>4. CASE UNCHANGED all
    BY <2>4 DEF all
  <2> QED
    BY <2>1, <2>2, <2>3, <2>4 DEF SmartNext
<1>5. HeaderShowsTm /\ [SmartNext]_all => HeaderShowsTm'
  BY <1>4 DEF shown, HeaderShowsTm
<1> QED
  BY <1>1, <1>5, PTL DEF SmartSpec

\* Whoever a greeting was for, it is gone when the door is locked: a step either
\* leaves the lock and the screen alone, opens the door, or draws the invitation
\* to attach a card.
THEOREM InvitationWhenLocked == SmartSpec => []LockedAsksForCard
<1> DEFINE Keeps  == doorPin' = doorPin /\ UNCHANGED shown
           Opened == doorPin' = HIGH
           Asks   == message' = Screen!Attach
<1>1. Boots => LockedAsksForCard
  BY DEF Boots, Screen!DisplayBoots, LockedAsksForCard
<1>2. ASSUME Screen!LEDprint("reset", FALSE)
      PROVE  Asks
  BY <1>2 DEF Screen!LEDprint
<1>3. [SmartNext]_all => Keeps \/ Opened \/ Asks
  <2>1. CASE Reset
    BY <1>2, <2>1 DEF Reset
  <2>2. CASE BeginRemoval
    BY <2>2 DEF BeginRemoval, vars
  <2>3. ASSUME NEW d \in 0 .. HANDLER_MAX, Loop(d)
        PROVE  Keeps \/ Opened \/ Asks
    <3>1. CASE TimerPass(d)
      BY <1>2, <3>1 DEF TimerPass, Update
    <3>2. CASE Time(d)
      <4>1. doorPin' = doorPin
        BY <3>2 DEF Time, UpdateTime, KeepsDoor, door
      <4>2. UNCHANGED shown \/ Asks
        BY <1>2, <3>2 DEF Time, Screen!updateTime, Screen!shown, shown
      <4> QED
        BY <4>1, <4>2
    <3>3. CASE Switch(d)
      BY <3>3 DEF Switch, ButtonPressed, ButtonReleased, unlock_door, KeepsDoor, door
    <3>4. CASE Command(d) \/ EndRemoval(d) \/ Quiet(d)
      BY <3>4 DEF Command, EndRemoval, Quiet, SetDelaytime, OtherCommand, NoCard,
         KeepsDoor, door
    <3>5. ASSUME NEW c \in Members!ReadCodes, Card(c, d)
          PROVE  Opened \/ Asks
      BY <1>2, <3>5 DEF Card, CardAccepted, unlock_door
    <3> QED
      BY <2>3, <3>1, <3>2, <3>3, <3>4, <3>5 DEF Loop
  <2>4. CASE UNCHANGED all
    BY <2>4 DEF all, vars
  <2> QED
    BY <2>1, <2>2, <2>3, <2>4 DEF SmartNext
<1>4. LockedAsksForCard /\ [SmartNext]_all => LockedAsksForCard'
  BY <1>3 DEF LockedAsksForCard, shown, LOW, HIGH
<1> QED
  BY <1>1, <1>4, PTL DEF SmartSpec

-----------------------------------------------------------------------------
(* The members within the sketch *)

\* MP names the same operators as Members.
LEMMA SameMembers ==
  /\ Members!Init <=> MP!Init
  /\ Members!TypeOK <=> MP!TypeOK
  /\ Members!Cleared = MP!Cleared
  /\ \A tbl, str : Members!Matches(tbl, str) = MP!Matches(tbl, str)
  /\ \A lines, tbl : Members!read_file(lines, tbl) = MP!read_file(lines, tbl)
  /\ \A tbl, str : Members!isUser(tbl, str) = MP!isUser(tbl, str)
  /\ \A tbl : Members!Opens(tbl) = MP!Opens(tbl)
  /\ Members!Words = MP!Words /\ Members!Index = MP!Index
<1> USE DEF Members!Index, MP!Index, Members!Cleared, MP!Cleared, Members!NoEntry, MP!NoEntry
<1>1. Members!Init <=> MP!Init
  BY DEF Members!Init, MP!Init
<1>2. Members!TypeOK <=> MP!TypeOK
  BY DEF Members!TypeOK, MP!TypeOK, Members!Entry, MP!Entry, Members!Words, MP!Words,
     Members!ReadCodes, MP!ReadCodes
<1>3. \A tbl, str : Members!Matches(tbl, str) = MP!Matches(tbl, str)
  BY DEF Members!Matches, MP!Matches
<1>4. \A lines, tbl : Members!read_file(lines, tbl) = MP!read_file(lines, tbl)
  BY DEF Members!read_file, MP!read_file, Members!ReadLine, MP!ReadLine,
     Members!CutId, MP!CutId, Members!Last, MP!Last
<1>5. Members!Cleared = MP!Cleared
  OBVIOUS
<1>6. \A tbl, str : Members!isUser(tbl, str) = MP!isUser(tbl, str)
  BY <1>3, Zenon DEF Members!isUser, MP!isUser
<1>7. /\ \A tbl : Members!Opens(tbl) = MP!Opens(tbl)
      /\ Members!Words = MP!Words /\ Members!Index = MP!Index
  BY DEF Members!Opens, MP!Opens, Members!Words, MP!Words
<1> QED
  BY <1>1, <1>2, <1>3, <1>4, <1>5, <1>6, <1>7

LEMMA SameSteps == [Members!Next]_(Members!vars) <=> [MP!Next]_(MP!vars)
  BY DEF Members!Next, MP!Next, Members!vars, MP!vars, Members!Reset, MP!Reset,
     Members!add_member, MP!add_member, Members!RemoveBegins, MP!RemoveBegins,
     Members!RemoveFails, MP!RemoveFails, Members!RemoveWrites, MP!RemoveWrites,
     Members!Card, MP!Card, Members!Button, MP!Button, Members!Ready, MP!Ready,
     Members!SDResult, MP!SDResult, Members!Index, MP!Index,
     Members!Cleared, MP!Cleared, Members!NoEntry, MP!NoEntry,
     Members!Matches, MP!Matches, Members!isUser, MP!isUser,
     Members!Trimmed, MP!Trimmed, Members!TrimName, MP!TrimName,
     Members!WithoutEntry, MP!WithoutEntry, Members!MovedUp, MP!MovedUp,
     Members!read_file, MP!read_file, Members!ReadLine, MP!ReadLine,
     Members!CutId, MP!CutId, Members!Last, MP!Last,
     Members!write_file, MP!write_file, Members!Written, MP!Written,
     Members!WriteEntry, MP!WriteEntry, Members!ReadCodes, MP!ReadCodes

\* A step of the sketch is a step of the members, or leaves them alone.
LEMMA MembersStep == [SmartNext]_all => [MP!Next]_(MP!vars)
<1> SUFFICES ASSUME [SmartNext]_all
             PROVE  Members!Next \/ UNCHANGED Members!vars
  BY SameSteps
<1>1. UNCHANGED members => UNCHANGED Members!vars
  BY DEF members, Members!vars
<1>2. CASE Reset
  BY <1>2 DEF Reset, Members!Next
<1>3. CASE BeginRemoval
  BY <1>3 DEF BeginRemoval, Members!Next
<1>4. ASSUME NEW d \in 0 .. HANDLER_MAX, Loop(d)
      PROVE  Members!Next \/ UNCHANGED Members!vars
  <2>1. CASE TimerPass(d)
    BY <1>1, <2>1 DEF TimerPass
  <2>2. CASE Time(d)
    BY <1>1, <2>2 DEF Time
  <2>3. CASE Switch(d)
    BY <1>1, <2>3 DEF Switch, Members!Next
  <2>4. CASE Command(d)
    BY <1>1, <2>4 DEF Command, Members!Next
  <2>5. CASE EndRemoval(d)
    BY <2>5 DEF EndRemoval, Members!Next
  <2>6. ASSUME NEW c \in Members!ReadCodes, Card(c, d)
        PROVE  Members!Next
    BY <2>6 DEF Card, Members!Next
  <2>7. CASE Quiet(d)
    BY <1>1, <2>7 DEF Quiet
  <2> QED
    BY <1>4, <2>1, <2>2, <2>3, <2>4, <2>5, <2>6, <2>7 DEF Loop
<1>5. CASE UNCHANGED all
  BY <1>1, <1>5 DEF all
<1> QED
  BY <1>2, <1>3, <1>4, <1>5 DEF SmartNext

\* What holds of the members alone holds of them within the sketch.
MembersIInv == MP!IInv /\ MP!UnmountedCleared

LEMMA WholeMembers == SmartSpec => []MembersIInv
<1>1. Boots => MembersIInv
  <2> SUFFICES ASSUME Boots PROVE MembersIInv
    OBVIOUS
  <2>1. MP!Init
    BY SameMembers DEF Boots
  <2>2. MP!IInv
    BY <2>1, MembersAssumption, MP!InitIInv DEF MP!Words
  <2>3. MP!UnmountedCleared
    BY <2>1 DEF MP!Init, MP!UnmountedCleared
  <2> QED
    BY <2>2, <2>3 DEF MembersIInv
<1>2. MembersIInv /\ [SmartNext]_all => MembersIInv'
  <2> SUFFICES ASSUME MembersIInv, [SmartNext]_all
               PROVE  MembersIInv'
    OBVIOUS
  <2>1. [MP!Next]_(MP!vars)
    BY MembersStep
  <2>2. MP!IInv'
    BY <2>1, MembersAssumption, MP!NextIInv DEF MembersIInv, MP!Words
  <2>3. MP!UnmountedCleared'
    BY <2>1, MembersAssumption, MP!NextUnmounted DEF MembersIInv, MP!Words
  <2> QED
    BY <2>2, <2>3 DEF MembersIInv
<1> QED
  BY <1>1, <1>2, PTL DEF SmartSpec

\* An entry that isUser() finds is one of the array, and its name a word.
LEMMA FoundEntry ==
  ASSUME MembersIInv, NEW c, Known(table, c)
  PROVE  LET i == Members!isUser(table, c)
         IN  /\ i \in MP!Index /\ c \in {table[i].id, table[i].name}
             /\ table[i].id /= NoWord /\ table[i] \in MP!Entry
             /\ table[i].name \in Members!Words
<1> DEFINE i == MP!isUser(table, c)
<1>1. MP!Matches(table, c) /= {} /\ Members!isUser(table, c) = i
  BY SameMembers DEF Known
<1>2. i \in MP!Index /\ i \in MP!Matches(table, c)
  BY <1>1, MP!IsUserFinds, MembersAssumption DEF MP!Words
<1>3. table \in [MP!Index -> MP!Entry]
  BY DEF MembersIInv, MP!IInv, MP!TypeOK
<1>4. table[i].id /= NoWord /\ c \in {table[i].id, table[i].name}
  BY <1>2, Zenon DEF MP!Matches
<1>5. table[i] \in MP!Entry /\ table[i].name \in MP!Words
  BY <1>2, <1>3 DEF MP!Entry
<1> QED
  BY <1>1, <1>2, <1>4, <1>5, SameMembers

ScreenOK ==
  /\ {tm, header} \subseteq Minutes
  /\ \/ message = Screen!Attach
     \/ \E t \in Texts : message \in {<<t>>, <<"Hello", t>>}
     \/ "Denied" \in Texts /\ message = <<"Access", "Denied">>

\* Every step leaves the screen alone or draws on it what has its type.
LEMMA ScreenStep == MembersIInv /\ [SmartNext]_all => UNCHANGED shown \/ ScreenOK'
<1> SUFFICES ASSUME MembersIInv, [SmartNext]_all
             PROVE  UNCHANGED shown \/ ScreenOK'
  OBVIOUS
<1>1. ASSUME NEW text \in Texts, NEW known, Screen!LEDprint(text, known)
      PROVE  ScreenOK'
  <2>1. \/ message' = Screen!Attach
        \/ text = "Denied" /\ message' = <<"Access", "Denied">>
        \/ message' = <<"Hello", text>> \/ message' = <<text>>
    <3> HIDE DEF Screen!Attach
    <3> QED
      BY <1>1, Zenon DEF Screen!LEDprint
  <2>2. {tm', header'} \subseteq Minutes
    BY <1>1 DEF Screen!LEDprint, Screen!printDateAndTime
  <2> QED
    BY <1>1, <2>1, <2>2, Zenon DEF ScreenOK
<1>2. ASSUME Screen!LEDprint("reset", FALSE)
      PROVE  ScreenOK'
  BY <1>2 DEF Screen!LEDprint, Screen!printDateAndTime, ScreenOK
<1>3. Screen!updateTime => UNCHANGED shown \/ ScreenOK'
  BY <1>2 DEF Screen!updateTime, Screen!shown, shown
<1>4. CASE Reset
  BY <1>2, <1>4 DEF Reset
<1>5. CASE BeginRemoval
  BY <1>5 DEF BeginRemoval
<1>6. ASSUME NEW d \in 0 .. HANDLER_MAX, Loop(d)
      PROVE  UNCHANGED shown \/ ScreenOK'
  <2>1. CASE TimerPass(d)
    BY <1>2, <2>1 DEF TimerPass
  <2>2. CASE Time(d)
    BY <1>3, <2>2 DEF Time
  <2>3. CASE Switch(d)
    <3>1. "UNLOCK by SWITCH" \in Texts
      BY DEF Texts
    <3> QED
      BY <1>1, <2>3, <3>1 DEF Switch
  <2>4. CASE Command(d) \/ EndRemoval(d) \/ Quiet(d)
    BY <2>4 DEF Command, EndRemoval, Quiet
  <2>5. ASSUME NEW c \in Members!ReadCodes, Card(c, d)
        PROVE  ScreenOK'
    <3>1. CASE Known(table, c)
      <4> DEFINE name == table[Members!isUser(table, c)].name
      <4>1. name \in Texts
        BY <3>1, FoundEntry DEF Texts
      <4>2. Screen!LEDprint(name, c /= NoWord)
        BY <2>5, <3>1 DEF Card
      <4> HIDE DEF name
      <4> QED
        BY <1>1, <4>1, <4>2
    <3>2. CASE ~Known(table, c)
      BY <1>2, <2>5, <3>2 DEF Card
    <3> QED
      BY <3>1, <3>2
  <2> QED
    BY <1>6, <2>1, <2>2, <2>3, <2>4, <2>5 DEF Loop
<1>7. CASE UNCHANGED all
  BY <1>7 DEF all
<1> QED
  BY <1>4, <1>5, <1>6, <1>7 DEF SmartNext

\* The variables of the three parts keep their types while they work together, the
\* screen's among them: what is shown between two handlers is the invitation, a
\* word or the switch.
THEOREM WholeTypes == SmartSpec => []SmartTypeOK
<1>1. IInv => TypeOK
  BY DEF IInv
<1>2. MembersIInv => Members!TypeOK
  BY SameMembers DEF MembersIInv, MP!IInv
<1>3. Boots => ScreenOK
  BY DEF Boots, Screen!DisplayBoots, ScreenOK
<1>4. MembersIInv /\ ScreenOK /\ [SmartNext]_all => ScreenOK'
  BY ScreenStep DEF shown, ScreenOK
<1>5. SmartSpec => []ScreenOK
  BY <1>3, <1>4, WholeMembers, PTL DEF SmartSpec
<1>6. TypeOK /\ Members!TypeOK /\ ScreenOK => SmartTypeOK
  BY DEF SmartTypeOK, ScreenOK
<1> QED
  BY <1>1, <1>2, <1>5, <1>6, WholeInvariance, WholeMembers, PTL

\* A card that is not found does not open the door: the handler that refuses it
\* leaves the door as it is, and takes longer than no time.
LEMMA RefusedOrAccepted ==
  ASSUME IInv, NEW d \in 0 .. HANDLER_MAX, CardAccepted(d), CardDenied(d)
  PROVE  FALSE
<1>1. doorState' /\ openFor' \in 0 .. d
  BY DEF CardAccepted, unlock_door
<1>2. doorState' = doorState
  BY DEF CardDenied, KeepsDoor, door
<1>3. openFor' = IF doorState THEN openFor + (d + DENIED_DELAY) ELSE 0
  BY DEF CardDenied, KeepsDoor
<1>4. openFor \in Nat /\ d \in Nat /\ DENIED_DELAY \in Nat \ {0}
  BY DurationsAssumption DEF IInv, TypeOK
<1> QED
  BY <1>1, <1>2, <1>3, <1>4

\* Between two commands the cards that open the door are those that would open it
\* after a reset too.
LEMMA StoredAsOpens ==
  ASSUME MembersIInv, NEW c, NEW d, Card(c, d), ~trouble, Len(file) <= MEMBER
  PROVE  Members!Opens(table) = Members!Opens(Members!read_file(file, Members!Cleared))
<1>1. MP!Ready
  BY DEF Card, Members!Card, Members!Ready, MP!Ready
<1>2. MP!Opens(table) = MP!Opens(MP!read_file(file, MP!Cleared))
  BY <1>1 DEF MembersIInv, MP!IInv, MP!ResetChangesNothing
<1> QED
  BY <1>2, SameMembers

\* What decides at the door is what is stored: whatever the reader has made of a
\* card, the door opens only on a board that has its SD card, and for a member whose
\* card would open it after a reset too.
THEOREM OnlyStoredMembers == SmartSpec => StoredMembersOnly
<1> DEFINE Stored(c) ==
             LET id == table[Members!isUser(table, c)].id
             IN  /\ mounted
                 /\ ~trouble /\ Len(file) <= MEMBER /\ id \in Cards =>
                      id \in Members!Opens(Members!read_file(file, Members!Cleared))
<1>1. ASSUME IInv, MembersIInv, NEW c \in Members!ReadCodes, NEW d \in 0 .. HANDLER_MAX,
             Card(c, d), CardAccepted(d)
      PROVE  Stored(c)
  <2> DEFINE i == Members!isUser(table, c)
  <2>1. Known(table, c)
    BY <1>1, RefusedOrAccepted DEF Card
  <2>2. mounted
    <3>1. MP!Matches(MP!Cleared, c) = {}
      BY MP!NobodyInCleared, MembersAssumption DEF MP!Words
    <3>2. MP!UnmountedCleared
      BY <1>1 DEF MembersIInv
    <3> QED
      BY <2>1, <3>1, <3>2, SameMembers DEF MP!UnmountedCleared, Known
  <2>3. ASSUME ~trouble, Len(file) <= MEMBER, table[i].id \in Cards
        PROVE  table[i].id \in Members!Opens(Members!read_file(file, Members!Cleared))
    <3>1. i \in MP!Index
      BY <1>1, <2>1, FoundEntry
    <3>2. table[i].id \in Members!Opens(table)
      BY <2>3, <3>1, SameMembers DEF MP!Opens
    <3> QED
      BY <1>1, <2>3, <3>2, StoredAsOpens
  <2> QED
    BY <2>2, <2>3
<1> HIDE DEF Stored
<1>2. IInv /\ MembersIInv =>
        \A c \in Members!ReadCodes, d \in 0 .. HANDLER_MAX :
          Card(c, d) /\ CardAccepted(d) => Stored(c)
  BY <1>1
<1> USE DEF Stored
<1> QED
  BY <1>2, WholeInvariance, WholeMembers, PTL DEF StoredMembersOnly

\* And whoever is stored gets in, for the delay that was set last: the array knows
\* the card, and arming a new event never fails, as LockArmed leaves nothing in the
\* table but the event that is stopped.
THEOREM StoredMembersEnter == SmartSpec => StoredMembersGetIn
<1> DEFINE Enters ==
             /\ doorPin' = HIGH
             /\ events'[lockEvent'].period = delayTime
             /\ events'[lockEvent'].lastEventTime = clock'
<1>1. ASSUME IInv, MembersIInv, NEW c \in Cards, NEW d \in 0 .. HANDLER_MAX,
             Card(c, d), ~trouble, Len(file) <= MEMBER,
             c \in Members!Opens(Members!read_file(file, Members!Cleared))
      PROVE  Enters
  <2>1. Known(table, c)
    <3>1. c \in MP!Opens(table)
      BY <1>1, StoredAsOpens, SameMembers
    <3>2. PICK i \in MP!Index : c \in Cards /\ table[i].id = c
      BY <3>1 DEF MP!Opens
    <3>3. i \in MP!Matches(table, c)
      BY <3>2, MembersAssumption DEF MP!Matches
    <3> QED
      BY <3>3, SameMembers DEF Known
  <2>2. CardAccepted(d)
    BY <1>1, <2>1 DEF Card
  <2>3. Runs("serialEvent1", "update", d) /\ unlock_door(d)
    BY <2>2 DEF CardAccepted
  <2>4. clock' \in Millis
    BY <1>1, <2>3, AdvanceMillis, DurationsAssumption, DelaysAssumption, SizesAssumption
       DEF IInv, TypeOK, Runs, LoopMax
  <2>5. /\ events'[lockEvent'].period = delayTime
        /\ events'[lockEvent'].lastEventTime = clock'
    BY <1>1, <2>3, <2>4, UnlockEffect
  <2> QED
    BY <2>3, <2>5 DEF unlock_door
<1> HIDE DEF Enters
<1>2. IInv /\ MembersIInv =>
        \A c \in Cards, d \in 0 .. HANDLER_MAX :
          /\ Card(c, d)
          /\ ~trouble /\ Len(file) <= MEMBER
          /\ c \in Members!Opens(Members!read_file(file, Members!Cleared))
          => Enters
  BY <1>1
<1> USE DEF Enters
<1> QED
  BY <1>2, WholeInvariance, WholeMembers, PTL DEF StoredMembersGetIn
=============================================================================
