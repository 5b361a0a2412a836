# Formal model of the smart door

TLA+ models of `src/smartdoor_v8/smartdoor_v8.ino`, the controller of an RFID
door lock (Arduino Mega, card reader on `Serial1`, SD card, telnet server, OLED,
clock chip), and of the `Timer` library it relies on. TLC checks the models on
small instances. TLAPS proves, for every value of the constants, every safety property
those runs find to hold: the type invariants, the invariants and action properties, and
the three refinements (of the door, the members and the command server). Line numbers
below are those of `smartdoor_v8.ino` unless another file is named.

## 1. The system

The program has one thread. `loop()` (81) calls `t.update()`, `updateTime()`,
`unlockButton()` and `process_server()`; after each pass the Arduino core calls
`serialEvent1()` if bytes of the card reader have arrived. The only concurrency
is the hardware: the millisecond counter, the receive interrupt, the network
chip, and a reset at any moment.

| Component | State | Operations | Interacts with |
|---|---|---|---|
| Timer library (`_libraries/Timer`) | ten `Event` slots | `every`, `after`, `oscillate`, `pulse`, `pulseImmediate`, `stop`, `update` | runs callbacks of the sketch, which may call it again |
| Door control (224-233, 258-316) | `DOOR` pin, `doorState`, `lockEvent`, `delayTime` | `unlock_door`, `lock_door`, `unlockButton`, `set_delaytime` | arms and stops a Timer event; called for cards, button, commands |
| Member table (40-45, 166-222, 299-408) | array `pupa` in RAM, `idaccess.txt` on the SD card | `read_file`, `write_file`, `add_member`, `remove_member`, `isUser` | card lookup, commands, display (its lookup trims names in place) |
| Card reader input (87-104, 240-256, 525-535) | `Serial1` ring, `code`, `ci` | receive interrupt, `serialEvent1`, `process_code` | calls `check_IDAccess`, which may block for six seconds |
| Command server (106-164, 565-579) | sockets, `activeClient`, `command`, `cmd_index` | `process_server`, `process_command`, `str2long` | member table, delay |
| Display, clock (446-522) | OLED, `tm` | `LEDprint`, `printDateAndTime`, `updateTime` | drawn by the door control; looks members up, which trims names |
| Log (410-426) | file on the SD card | `writeLOG` | written by the door control, read by nothing |
| Trial sketches (`src/timer`, `src/read_file`, `src/OLED`, ...) | | one peripheral each | not part of the controller |
| Other vendored libraries | | | not included by the sketch, or drivers for output |

What is hard, and what makes each part correct:

* **Timer.** `millis()` rolls over; a callback may arm and stop events in the
  middle of `update()`; `repeatCount * 2` is a 16-bit product. Correct: no event
  fires early, each fires as often as asked, none is starved, pins are left in
  the documented level.
* **Door.** A second card or the button re-arms a pending event, the delay
  changes while the door is open, a refused card stops the loop for seconds,
  `after()` may find no free event. Correct: an open door always has exactly one
  pending event that locks it; it locks neither early nor late.
* **Members.** The array and the file are changed one after the other, the file
  is read *into* the old array, names keep or lose their `'\r'` depending on
  earlier lookups, a reset may come between removing and rewriting the file,
  strings at address 0 are read, and any call of the SD library may fail. Correct:
  array and file agree, a command changes the access of the one card it is about,
  and a board without its SD card admits nobody.
* **Card reader.** Bytes are dropped while the loop is busy, a call stops in the
  middle of a frame, old bytes stay in `code`. Correct: a frame that arrived is
  decoded, sooner or later; what did not arrive is not taken for a card.
* **Server.** A client can become active in the middle of another's command,
  `cmd_index` is unbounded, the lowest socket has priority, delays overflow.
  Correct: every line is executed once and as typed, and each in the end.
* **Display.** Several handlers draw, `updateTime` in the middle of what the others show;
  the minute is compared with a copy taken before it is read. Correct: a locked
  door asks for a card, and the header shows `tm`.
* **Whole sketch.** A reset at any moment takes back all of this but the file. The
  card is looked up in an array that commands change. Correct: what opens the door is
  what is stored, and all of that does, and the door locks in time whatever else goes on.

`PROJECT.json` lists the hazards line by line with the properties that cover
them, and maps every definition to the lines it models.

## 2. Modules

| Module | What it is |
|---|---|
| `TimerEvents` | the `Event` array and the library's operations on it, as operators |
| `Timer` | the library under an arbitrary sketch, `update()` slot by slot |
| `TimerProofs` | inductive invariant, types and all safety of `Timer`, proved |
| `DoorLock` | the door control over `TimerEvents`, handler by handler |
| `DoorPromise` | what the door promises, without timer and loop |
| `DoorLockProofs` | inductive invariant, safety and refinement of `DoorLock`, proved |
| `MemberTable` | `pupa`, `idaccess.txt` and the operations on both |
| `AccessList` | what the member list promises: a set of cards |
| `MemberTableProofs` | invariants, additions and refinement of `MemberTable`, proved |
| `CardReader` | reader, ring, `serialEvent1()` and `process_code()` |
| `CardReaderProofs` | types and `WholeFrameIsChecked` of `CardReader`, proved |
| `CommandServer` | clients, sockets, `command` and the parsing of a delay |
| `LineServer` | what the server promises: lines, without bytes and buffer |
| `CommandServerProofs` | types and `OwnLine` of `CommandServer`, proved |
| `LineServerProofs` | `CommandServer` implements `LineServer`, proved |
| `Display` | the OLED and the time it shows |
| `SmartDoor` | `DoorLock`, `MemberTable` and `Display` together, with resets |
| `SmartDoorProofs` | the invariants of `SmartDoor`, proved |
| `Recursion` | induction and recursion over numbers, for the loops of the code |
| `MC*` | constants for TLC; each `.cfg` is one run |

Operators whose comment begins with "Fault" are wrong on purpose. Nothing uses
them; put in the place of the definition that follows, each one makes a property
fail, which shows what that property rules out (`mutants` in `PROJECT.json`).

### TimerEvents and Timer

An event is a record with the fields of `class Event`. A free one has one
canonical value, since only its `eventType` is ever read. `Since` is the unsigned
subtraction, `ToInt` the signed wrap-around, `Arm` and `findFreeEventIndex` the
allocation.

In `Timer` the phase says where the processor is: in `loop()`, in the `for` of
`Timer::update(now)`, or in a callback. `BeginUpdate` reads `millis()` once;
`SkipSlot`, `TogglePin` and `CallCallback` are the cases of `Event::update`, and
`CallbackReturns` is what it does to the slot, whatever it now holds, when the
callback is over. In a callback and in `loop()` the sketch may arm, pulse and stop
events as it likes; `update()` it calls from `loop()` only, and `update(now)` not with a
time of its own. `Tick` moves the counter between any two steps, at most
`GAP_MAX` during one pass. The ghosts carry the history that the properties
speak about: true age, how often the event was asked to fire (`asked`, before any
overflow) and how often it has (`fired`), who armed it, the documented level of the pin, and
the slots armed by callbacks. `DroppedWhenDone` compares `asked` with `fired` in both
directions: an event that is done is dropped, and no other is.

### DoorLock and DoorPromise

`pc` is the handler that runs next; each handler is one step that lasts a
nondeterministic time of up to `HANDLER_MAX` (`CardDenied` longer, by its two
`delay()` calls). `Update` is the whole pass of `Timer::update` with
`lock_door()` as its only callback. `unlock_door` stops the pending event, opens,
and arms anew with the time at which the handler ends. Who is a member, the level
of the button and what clients send are inputs here. The ghost `openFor` is the time
since the pin went HIGH (276), on a clock that never rolls over. The event is armed only at
the end of the handler (290), so when `unlock_door` ends the door may have been open for
nothing, all of its duration, or anything in between.

`DoorPromise` knows three variables (open, held, window) and three steps; the
refinement maps `held` to `openFor` and `window` to the period of the pending
event. `Opening` is the time an unlocking takes, `Grace` the pass of the loop.

### MemberTable and AccessList

A word is an id, a name, or one of three special values (`NoWord`, `Fragment`,
`Junk`); the `'\r'` behind a name is a flag, because `write_file()` prints it.
The `'\r'` behind an id is dropped from the model: every use of an id either trims
it or copies it. A line of the file is the sequence of its words, and since the
n-th line is always read into the n-th element, `read_file` is a function of file
and old array. `ReadLine` shows what each kind of line leaves as it was:
an empty line the id, a line without a blank the name.

`RemoveBegins` (from the lookup to the end of the shift, with the file already
gone) and `RemoveWrites` are separate steps, so that `Reset` can come in between.
`add_member` is one step: a reset inside it leaves the same as one before or after.
`MovedUp` reads the null strings of lines 209-214 as any value of `NullReads`.
`Card`, `Button` and a failed removal change the array too, by trimming.
When a reading passes the end of `pupa` (`overrun`) the behaviour is undefined
and the model stops; that is why these runs do not check for deadlock.

`SDResult` is what a call of the SD library may return. If `SD.begin()` failed
(`mounted` is false) every call fails; writes to a file that was not opened are
ignored, as the library does. The sketch itself tests nothing there, so that a card
which was not mounted stays unusable is an assumption about the library. Otherwise `open()`
and `remove()` may fail at any call and any number of times. The ghost
`trouble` records that a change was done in the file or in the array but not in both.
`FILE_MAX` stops commands from letting the file grow for ever.

`ReadCodes` is what `process_code()` may hand to `check_IDAccess()`: the code of a card, or
one of `Strays`, which are any words, the empty one included, since what a cut frame leaves in
`code` can pass the checksum (finding 5). `isUser()` compares it with ids and names, so the
door opens also for a code that is somebody's name, and for the empty code if somebody has
no name. `Opens` are the cards that open the door as ids.

`AccessList` is a set of cards that commands change by at most one; a reset
between the two steps of a removal may empty it, a failure of the SD card may
replace it by another at the next addition or reset, and it ends with the overrun.
What `AccessList` leaves open after a failure, `NobodyUnasked` and `AddGrants` say: nobody
is on either list, array or file, whom no client has added, and a line that is in the file
gives access when it is read.

Inputs: ids are ten characters and names shorter, so that words never overlap in
their fields; added lines begin with a card's code.

### CardReader

The reader sends frames byte by byte; `Receive` is the interrupt, which may come
between any two steps and drops the byte if the ring is full. `serialEvent1()` is
one step per byte. `process_code` evaluates the checksum on whatever `code` holds;
`hexchar2b()` of a byte that is no hex digit may return anything, as it has no
`return` there. A valid tag leads to the phase `checking`, during which bytes keep
arriving. Each ETX in the ring carries, as a ghost, the code of its frame if all
bytes of the frame were stored. `LOST_MAX` bounds how many bytes find the ring full. `'\r'` and `'\n'` are one byte `EOL`. The reader
sends only well-formed frames: damage comes from full rings and resets. The `^` of
the checksum is the constant `ByteXor`, which `MCCardReader` gives its value; the only
thing the decoding needs of it is `XorAssumption`: two bytes give a byte.

### CommandServer and LineServer

A connection is a record of what its client sends from the beginning of the current
line, how much of that has arrived, and how much is read. A client connects, types a
text of `Texts`, and the characters arrive in pieces; it may leave at any time, and
what has arrived stays readable. `SelectClient` is `server.available()` and the change of
`activeClient` (107-112); `ReadLine` and `ReadPart` are the loop (114-116), which ends
at a `'\n'` or when nothing is left, and the close of line 118. In between, clients go
on. As in the Ethernet library, a client is its socket number, and a client that is
gone and has nothing left to read is closed by the next `available()`.
`str2long` computes with longs that wrap; `set_delaytime` is the only command with state
of this module. When `command` is written past its end the model stops (`Overrun`).

`LineServer` has neither pieces nor buffer: it executes the first line that is waiting
on some socket, with the delay it means (`Meant`): the number that the digits behind
`4_` stand for (`Numbers`), with or without the blanks at its end (`LineEnds`). `Value`
reads the digits from the left and never wraps, where the code adds them up from the
right with longs that do. What is no such number, or one that no long can hold, may leave any legal delay. `spoilt` is the one exception: after a
client was cut off in the middle of a line, the next line may be taken for another.
A client can lose lines only in a step in which it leaves or is closed.

### Display and SmartDoor

`Display` keeps the minute of `tm`, the minute in the header and the message.
A reading of the clock chip yields any minute, or the old one when it fails.

`SmartDoor` joins the actions of `DoorLock`, `MemberTable` and `Display` handler by
handler: `TimerPass` draws when `lock_door()` was called, `Switch` trims the table
through `LEDprint`, `Card` takes the decision that is an input of `DoorLock` from the
array, and draws what `check_IDAccess` leaves on the screen when its delays are over.
A removal is two steps, so that `Reset` may come in between; `Reset` starts all three
parts again. `DoorLock` alone has no reset: there it would be `Init` again. The
positions of `CardReader` and `CommandServer` in this module are its inputs (`ReadCodes`,
`AddLines`, `TypedDelays`). From the reader nothing is assumed that it does not give: a
whole frame yields its card's code (`WholeFrameIsChecked`), and anything else may pass as
well (`ValidTagCode` fails), so `Card` takes every member of `ReadCodes`. Of the server it
is used that a delay is a long (`TypeOK` of `CommandServer`).

`StoredMembersOnly` speaks of the entry that `isUser()` finds, by id or by name: whatever
the code was, this entry is a member's that the file holds too. `StoredMembersGetIn` is
about the card of such a member.

## 3. Runs

| Run | Result | What it shows |
|---|---|---|
| `door` | pass | `LockArmed`, `LocksInTime`, `NeverEarly`, the inductive invariant `IInv`, the refinement of `DoorPromise`, and `Relocks` (liveness) |
| `timer_every` | pass | events fire on time (`EarlyOnlyInPass`), as often as asked (`DroppedWhenDone`) and without starvation (`KeepsFiring`) |
| `timer_pins` | pass | `CyclesEnd`: `oscillate` and `pulseImmediate` end in their documented level; `DroppedWhenDone` across overflows of the doubled count |
| `timer_early` | violation | an event armed by a callback in a later slot fires at once |
| `timer_pulse` | violation | `pulse()` ends in `startingValue`, not `!startingValue` |
| `members` | pass | `ResetChangesNothing`, `AddGrants`, `NobodyUnasked`, `UnmountedAdmitsNobody`, refinement of `AccessList` |
| `members_removed` | violation | a removed card still opens the door |
| `members_pattern` | violation | the file gets lines that end in `\r\r\n` |
| `reader` | pass | `WholeFrameIsChecked`, and `FramesGetChecked` (liveness) |
| `reader_tag` | violation | the tail of a frame passes as a valid tag |
| `server` | pass | `OwnLine`, positive delays, the refinement of `LineServer`, and `Served` (liveness) |
| `smartdoor` | pass | `StoredMembersOnly` and its converse `StoredMembersGetIn`, `LocksInTime` across resets, `LockedAsksForCard`, `HeaderShowsTm` |

The type invariants of the modules are checked with their first run.

**Bounds.**

* `door`: a counter of 14 values, delays of up to 4, a pass of up to 8. Every
  delay can run out inside a pass or span several, and every unlocked period can
  lie across the roll-over. The constraint is the code's own, delay + pass <
  counter. Three slots, so that a leaked event is seen before the table is full.
* `timer_*`: two slots give both orders, arming behind and before the running
  slot; counters of 4 to 6 values with periods 1 and 2 roll over in every period.
  In `timer_pins` the largest `int` is 3: of the repeat counts, 2 doubles to -4 and never
  ends, -3 doubles to 2 and ends after one cycle, and 0 is the one for which the library
  cannot do what it is asked.
* `members`: two cards, an array of three entries, and files to which commands add up to a
  fourth line, so that additions overrun the array; a removal that is written behind the
  old file makes longer ones. The SD card may fail at every call. That is enough for a
  removal, a reading over stale entries, a duplicate, a full table and an overrun. The lines
  are complete, without a name, or with a blank in the name; the code of the reader is a
  card's or empty. The two violations use only complete lines, an array of seven and an SD
  card that never fails, so their traces need no malformed line and no failure (in that of
  `members_removed` a client adds one card twice).
* `reader`: one pair of digits, a ring of 8 bytes against frames of 7, and calls of 2
  bytes: a whole frame and the beginning of the next wait in the ring at once, and while
  one is being read a second whole one may come to stand behind what is left of it. Up to
  four bytes are lost, at any place of a frame. `reader_tag` takes two pairs, so that the
  XOR matters, and a ring shorter than a frame.
* `server`: two sockets, which is what priority and displacement need, a long of three
  bits, and a text of two lines, one with a tab before it and a delay that overflows, and one
  with a delay that does not. The buffer holds six characters: the beginning `4_` of a client that is
  cut off and a line of another fit together, and more overruns it.
* `smartdoor`: an array of two, two cards, files to which commands add up to a second line,
  delays of 1 and 2, two slots, a counter of 9 values. One line has the other card's code for a
  name, one has no name, and the reader may deliver the empty code, so that a door opens by
  id, by name and by nothing. A removal, a refused card, a reset and a failure can
  all happen while one unlocking lasts.

**Fairness.** `door` assumes `WF_vars(Next)`: the board keeps calling `loop()` and
its handlers return. It assumes nothing about cards or the button, which is why
`Relocks` excepts endless unlocking. `timer_every` assumes that the counter ticks
and that `loop()` keeps calling `update()` and callbacks return
(`WF_vars(Tick) /\ WF_vars(UpdateStep)`). `reader` assumes `WF_vars(SerialEvent)`: the
core calls `serialEvent1()` after each pass in which bytes have arrived, and its
loop is bounded. `server` assumes `WF_vars(process_server)`, which `loop()` calls in every
pass; clients may do nothing for ever, and `Served` excepts the sockets that others
below them keep from being served. The other runs check safety only. `server`,
`smartdoor` and the runs of `members` do not check for deadlock, since they stop where
the code runs over the end of an array.

## 4. Findings

1. `Event.cpp:45`: `now - lastEventTime` underflows for an event armed after
   `now` was read. The sketch itself is not affected: its callback arms nothing.
   A callback that stops its own event and arms another in the same slot loses it
   or shortens it; `EarlyOnlyInPass` and `DroppedWhenDone` name these exceptions.
2. `Timer.cpp:87`: `pulse()` contradicts its comment (83) about the final level.
3. Line 359: an empty line keeps the old id of its element, so removals followed by
   an addition produce duplicates; removing a card takes out one copy.
4. Line 404: untrimmed names make `\r\r\n`, so the file needs two elements of
   `pupa` per member and can outgrow it.
5. Line 241: `process_code()` ignores `ci` and `hexchar2b()` has no result for
   other bytes; after a reset even the zeroed array may pass. `isUser()` (304) finds that
   empty code at a member who was added without a name, and the door opens.

## 5. Proofs

`DoorLockProofs` proves, for every number of events, counter width, set of delays
and handler duration allowed by `SizesAssumption`, `DelaysAssumption`,
`DurationsAssumption` and `CallbackAssumption`:

| Theorem | Statement |
|---|---|
| `Invariance` | `Spec => []IInv` |
| `TypeCorrect` | `Spec => []TypeOK` |
| `AlwaysArmed` | `Spec => []LockArmed` |
| `TimelyLocking` | `Spec => []LocksInTime` |
| `NoEarlyLocking` | `Spec => NeverEarly` |
| `Refinement` | `Spec => ImplementsPromise` |

`LocksInTime` is not inductive: it speaks of the true time the door has been open, while
the code sees two wrapped counters. `IInv` has instead that their difference is the true
time but for the handler that unlocked (`TrueAge`), that the event is never later than
a pass of the loop (`DueInTime`), that a locked door has time 0 and that the pending period
is a legal delay; `InTime` puts them together. `TrueAge` survives a step because the age
stays below delay + one pass (`DueInTime`), which is less than a turn of the counter
(`DurationsAssumption`); then the subtraction
is exact (`SinceAdvance`). So each part needs the other, and the proof carries
them together. `LockArmed` gives that stopping empties the table (`StopOnly`), that
arming then takes slot 0 (`FirstFree`, `AfterOnEmpty`), and what a pass of
`update()` does (`UpdatePass`). Every action either unlocks (`UnlockKeepsIInv`),
leaves the door alone for some time (`KeepKeepsIInv`), or is the pass of the timer
(`UpdateKeepsIInv`). `NoEarlyLocking` and `Refinement` follow from the invariant
and the same step lemmas.

`TimerProofs` proves, for every number of events, width of the counter and of `int`, and
every client that starts `update()` often enough (`ClientAssumption`):

| Theorem | Statement |
|---|---|
| `TypeCorrect` | `Spec => []TypeOK` |
| `NoEarlyFiring` | `Spec => EarlyOnlyInPass` |
| `DroppedExactly` | `Spec => DroppedWhenDone` |
| `PinLeftAsDocumented` | `Spec => CyclesEnd` |

Here the invariant has three parts for every event that no callback armed in its own
slot. `Aged`: what the code takes for the age of the event is at most its true age. The
unsigned difference may roll over to something smaller, never to something larger, but
only against `clock`; against `now` it holds of those the running pass may already see,
which is why events armed by a callback are exempt for one pass. `Counted`: `count` is the
number of calls, and a count that is positive has not been reached; so the last call
reaches it exactly, without overflow. `Cycled`: the level differs from the first one
exactly after an odd number of toggles, which a wrapped `int` still tells (`Parity`).
For `DroppedExactly` the stored count is tied to what was asked: they are equal unless the
double overflowed, and one that was too large has become negative.
While a callback runs all three speak of the event as `update()` will leave it.

`SmartDoorProofs` carries the invariant of the door to the whole sketch. A step of
`SmartDoor` is a step of `DoorLock` or a reset (`DoorStep`), and a reset makes `IInv` true
again (`ResetIInv`), so:

| Theorem | Statement |
|---|---|
| `WholeInvariance` | `SmartSpec => []IInv` |
| `WholeTimelyLocking` | `SmartSpec => []LocksInTime` |
| `WholeAlwaysArmed` | `SmartSpec => []LockArmed` |
| `InvitationWhenLocked` | `SmartSpec => []LockedAsksForCard` |
| `HeaderCurrent` | `SmartSpec => []HeaderShowsTm` |
| `WholeTypes` | `SmartSpec => []SmartTypeOK` |
| `OnlyStoredMembers` | `SmartSpec => StoredMembersOnly` |
| `StoredMembersEnter` | `SmartSpec => StoredMembersGetIn` |

`NeverEarly` is not among them: a reset locks an open door, and may. The two theorems
about the screen are inductive as they stand, by the case split over the handlers: each
leaves lock and screen alone, opens, or draws the invitation. The members come the same way
as the door: a step of the sketch is a step of `MemberTable` or leaves it alone
(`MembersStep`), so what `MemberTableProofs` has of it holds here (`WholeMembers`), through
the instance `MP`. `OnlyStoredMembers` then follows from three facts: a refused card does
not open (`RefusedOrAccepted`, which is where `DENIED_DELAY > 0` is needed); a code is
accepted because of an entry, the first that `isUser()` finds by id or by name
(`FoundEntry`, for every code, also one no card has); and array and file give access to the same
cards (`ResetChangesNothing`). `StoredMembersEnter` is the other direction (`StoredAsOpens`),
and needs both invariants: that of the members so that the card is found, and that of the
door so that `after()` has an event to arm (`UnlockEffect`). `WholeTypes` has a part of its
own for the screen (`ScreenStep`): each handler leaves the message, or draws one that may stay.

`MemberTableProofs` proves, for every length of the array, every set of cards and names,
every value of the null strings and every failure of the SD card that `MemberAssumption`
allows:

| Theorem | Statement |
|---|---|
| `TypeCorrect` | `Spec => []TypeOK` |
| `ResetHarmless` | `Spec => []ResetChangesNothing` |
| `AdditionGrants` | `Spec => AddGrants` |
| `OnlyTheAdded` | `Spec => NobodyUnasked` |
| `Refinement` | `Spec => ImplementsAccessList` |
| `NobodyWithoutSD` | `Spec => []UnmountedAdmitsNobody` |

The proofs speak of the cards a file gives access to (`Granted`: the first words of its
lines of one or two words) and of those an array does (`Opens`). A reading into a zeroed
array gives exactly the cards of the file, and one over an old array at most those and the
old ones (`OpensRead`): an empty line, or none, leaves an id that was there, and what blanks
cut is no card. A removal takes out one card at most, whatever moves up and whatever a
string at address 0 reads as (`RemovedOpens`), and what `write_file()` writes grants what the
array opens (`WriteFileGrants`, by induction over the entries). `ResetChangesNothing` is not
inductive, since it says nothing between the two steps of a removal; `IInv` adds that the
file is empty then, unless a call has failed, so that the lines written are all there are.
For `Refinement` each operation is a step of `AccessList` or a stutter: an addition adds
the card of its line, the beginning of a removal takes its card away, its end changes
nothing, and a reset between the two loses the list (`ResetRestarts`). `AdditionGrants`
needs no invariant but the types: whatever array a file is read over, a complete line that fits
leaves its card there (`LineNumbers`, `CompleteLineGrants`). For `OnlyTheAdded` the cards of
array and file are taken together (`Listed`): what any step but an addition writes or reads
was there before, in one or the other (`StepLists`), and an addition brings no card but that
of its line (`AdditionLists`). That nobody has
access without an SD card is not inductive either, as an addition could read lines of a
file; there the invariant is that the array is still zeroed, which a failed opening, a
lookup that trims (`TrimmedCleared`) and a removal that finds nobody (`NobodyInCleared`) keep.

`CardReaderProofs` proves `TypeCorrect` (`Spec => []TypeOK`) and `WholeFramesDecoded`
(`Spec => WholeFrameIsChecked`), for every radix, code length, ring, number of bytes per call
and set of cards. The invariant says where each frame is (`EndsAt`): if none of the first
`m` bytes of a frame was lost, they lie in the ring without a gap, and those that are not
there any more have been read, so `ci` counts their digits and `code` holds them
(`Decoded`). The interrupt extends a frame at one end (`ReceiveKeepsIInv`), reading
moves it at the other (`ReadMovesFrames`), with STX as the byte that makes whatever
was left in `code` and `ci` irrelevant (`ReadDecodes`). At the ETX all digits are in
`code`, and both sides compute the checksum of the same bytes (`DecodedIsValid`), which
is a byte (`XorIsByte`).

`CommandServerProofs` proves `TypeCorrect` (`Spec => []TypeOK`) and `BufferEndsWithOwnLine`
(`Spec => []OwnLine`). `OwnInv` says
with indices what `OwnLine` says with suffixes, and adds that no more is read of a
connection than has arrived (`Sound`). `ReadMore` is the step that matters: what is read
is appended to `command` and counted as read, so both grow by the same characters. A client
that becomes active has nothing read, since the one before it was closed
(`SelectKeepsOwnInv`); this is where the order of lines 110 and 111 is needed. For the
types, `power10` and the sum of `str2long()` are recursions over longs that wrap
(`SummedComputed`); whatever they come to is a long (`Str2longRange`), and
`set_delaytime()` takes it only if it is positive.

`LineServerProofs` proves `Refinement` (`Spec => ImplementsLineServer`), in two parts.

* *A line means what it says* (`CommandMeant`). Trimming (`SpanTrimmed`) leaves the line
  between two of its characters, so behind `4_` there is one of the digit sequences of
  `Numbers`. Of digits that a long can hold `str2long()` gives the value (`NumberRead`):
  read from the right, every partial sum is at most the whole number, so no sum wraps, and
  a power that does wrap meets only leading zeros (`PowerExact` holds for the others).
* *Each step is a step of `LineServer` or a stutter* (`StepIsLines`). What waits at a socket
  is the client's text from the beginning of the line that is being read. `LineInv` adds to
  `OwnInv` that what is read has no line end in it, that a client that has left has sent
  all it had, and that nothing is left at a free socket (`Orderly`). So the first line end
  that `ReadLine` comes to is the end of the first line that waits (`LineFound`), and
  the command is that line unless something of another client stands before it, which is
  `spoilt`. Whatever else happens to the connections is a loss of lines by clients that leave
  or are closed (`LosingCutsOff`): when the active client is displaced, when a client that is
  gone has been read, and when it goes.

`Recursion` is what these proofs have in common. The library's theorems about induction and
recursion take predicates and operators as parameters, which the installed provers cannot
instantiate. Here the same is said with sets and functions: of a non-empty set of numbers one is the least
(`LeastNumber`, from the library's well-foundedness of `<`), so a set that has 0 and the
successor of each of its members has all numbers (`Induction`, `InductionUpTo`); and a base with
a function for every round defines a function (`RecursionDefines`, `RecursionUpTo`). The
loops of the code that go over a string or an array (`Written`, `power10`, `Summed`,
`XorAll`) are recursive functions, and each has a lemma that says so of it.

**Assumptions.** `SizesAssumption`, `DelaysAssumption`, `DurationsAssumption` and
`ClientAssumption` say how sizes, delays and durations relate, in particular that a delay
plus a pass of the loop is less than a turn of the counter, and that the two `delay()` calls
of a refused card take time. `MemberAssumption` (in
`SmartDoor`, `MembersAssumption`): a card's code is not the empty string, a fragment of a code
or a single character, what else the reader delivers is some word, and lines that are added
begin with a card's code. `ServerAssumption`: sockets are numbers, a character has 7 bits and is
not NUL, the first delay is positive. `ReaderAssumption`: codes have `2 * PAIRS` digits. `XorAssumption`: two bytes
combined are a byte. TLC evaluates each of them in a run.

**Only model-checked**: the liveness properties (`Relocks`, `KeepsFiring`,
`FramesGetChecked`, `Served`), which are out of the prover's reach. Of the properties that
runs refute (section 4) none is a theorem, of course.

## 6. Plan

The order is by what a fault would cost: a door that stays open, then the list of
those who may open it, then what is taken for a card, then the commands.

1. Done: `TimerEvents`, `Timer`, `DoorLock` with `DoorPromise`, `MemberTable` with
   `AccessList`, `CardReader`, `CommandServer` with `LineServer`, `Display`, and
   `SmartDoor`, which composes the parts that share state; proofs of all safety
   properties that hold.
2. Left: what the sketch promises as a whole, as one abstract specification over
   `DoorPromise` and `AccessList`, with resets; `timer.ino` over `TimerEvents`, if it is
   ever used again.

## 7. Not modelled

* What the log holds and what replies say: nothing in the program reads either. The time
  they take is in the durations of the handlers.
* Commands without effect on state (`1_`, `5_`, `help`) beyond taking their turn.
* The electrical level of the `DOOR` pin when `setup()` returns before `pinMode()`.
* Words longer than their fields, `code` without its end while a frame is half read,
  noise on the serial line, and an SD card that is changed outside the board.
* `Timer::update()` called again from a callback, and `update(now)` with a time that is not
  `millis()`: the sketch does neither.
* What happens after the end of `pupa` or of `command` has been overrun.
* `timer.ino` and the trial sketches: each tries one peripheral, keeps no state worth
  the name, and is superseded by the sketch modelled here.
* Drivers and the network stack under the sketch (`Ethernet`, `SD`, `Wire` are not even
  in the repository); they appear as the results their calls may return.
* The rest of `_libraries`, which is most of the repository by size (uIP, ethercard, NFC
  and NDEF, PN532, mbed headers, sensors, fonts): no sketch of the project includes it, so
  nothing of it is part of this system.
