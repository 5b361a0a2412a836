------------------------------- MODULE DoorLock -------------------------------
(***************************************************************************)
(* The door control of smartdoor_v8.ino: the DOOR pin, doorState, the one  *)
(* Timer event that locks the door again, the delay a client may set, and  *)
(* the order in which loop() and serialEventRun() call the handlers.       *)
(*                                                                         *)
(* The sketch has one thread.  A handler is one step; it takes some time,  *)
(* at most HANDLER_MAX milliseconds (plus the two delay() calls of a       *)
(* refused card), and the millisecond counter advances by that much.       *)
(* Which card the reader delivers, whether it is a member's, the level of  *)
(* the button and the command of a client are inputs here; MemberTable     *)
(* models how the sketch decides who is a member.                          *)
(***************************************************************************)
EXTENDS TimerEvents

CONSTANTS
  DEFAULT_DELAY,  \* the initial delayTime
  LONG_MAX,       \* the largest long str2long() can return
  TypedDelays,    \* the values str2long() returns for what clients type
  HANDLER_MAX,    \* longest time one handler takes, without delay()
  DENIED_DELAY    \* delay(1000) and delay(5000) after a refused card

lock_door == "lock_door"
Handlers  == {"update", "updateTime", "unlockButton", "process_server",
              "serialEvent1"}

\* Longest time between two calls of t.update()
LoopMax == 5 * HANDLER_MAX + DENIED_DELAY

ASSUME DelaysAssumption ==
  /\ LONG_MAX \in Nat
  /\ DEFAULT_DELAY \in 1 .. LONG_MAX
  /\ TypedDelays \subseteq -(LONG_MAX + 1) .. LONG_MAX

ASSUME DurationsAssumption ==
  /\ HANDLER_MAX \in Nat \ {0}
  /\ DENIED_DELAY \in Nat \ {0}
  /\ LONG_MAX + LoopMax < ULONG

ASSUME CallbackAssumption == lock_door \in Callbacks

VARIABLES
  events,     \* t._events
  lockEvent,  \* index of the pending event, as after() returned it
  doorState,  \* TRUE while the sketch holds the door unlocked
  doorPin,    \* level written to the DOOR pin, HIGH unlocks
  delayTime,
  clock,      \* millis()
  pc,         \* the handler that runs next
  openFor     \* ghost: milliseconds since unlock_door() last set the pin HIGH,
              \* on a clock that does not roll over; 0 while locked

vars == <<events, lockEvent, doorState, doorPin, delayTime, clock, pc, openFor>>
door == <<events, lockEvent, doorState, doorPin>>

Init ==
  /\ events = NoEvents
  /\ lockEvent = 0
  /\ doorState = FALSE
  /\ doorPin = LOW
  /\ delayTime = DEFAULT_DELAY
  /\ clock \in Millis
  /\ pc = "update"
  /\ openFor = 0

\* The handler h runs for d milliseconds and loop() goes on with handler next
Runs(h, next, d) ==
  /\ pc = h
  /\ pc' = next
  /\ clock' = Advance(clock, d)

\* The handler leaves the door as it is
KeepsDoor(d) ==
  /\ openFor' = IF doorState THEN openFor + d ELSE 0
  /\ UNCHANGED door

-----------------------------------------------------------------------------
(* loop(): t.update(), whose only callback is lock_door() *)

\* The events whose callback this pass of Timer::update calls
Firing(now) == {i \in Live(events) : Due(events[i], now)}

AfterUpdate(now) ==
  [i \in Slots |->
     IF i \in Firing(now) THEN Retire(Fired(events[i], now))
     ELSE IF i \in Live(events) THEN Retire(events[i])
     ELSE events[i]]

\* Fault: lock_door() forgets the pin
LockStateOnly ==
  /\ doorState' = FALSE
  /\ UNCHANGED doorPin

LockDoor ==
  /\ doorState' = FALSE
  /\ doorPin' = LOW

Update(d) ==
  /\ Runs("update", "updateTime", d)
  /\ events' = AfterUpdate(clock)
  /\ IF Firing(clock) = {}
     THEN /\ UNCHANGED <<doorState, doorPin>>
          /\ openFor' = IF doorState THEN openFor + d ELSE 0
     ELSE LockDoor /\ openFor' = 0
  /\ UNCHANGED <<lockEvent, delayTime>>

\* updateTime() reads the clock chip over I2C, which takes time in every pass
UpdateTime(d) ==
  /\ Runs("updateTime", "unlockButton", d)
  /\ d > 0
  /\ KeepsDoor(d)
  /\ UNCHANGED delayTime

-----------------------------------------------------------------------------
(* unlock_door(): stop the pending event, open, show and log, arm anew *)

\* Fault: the pending event is not stopped
StopNothing == events

\* the events once a still pending lock event has been stopped
AfterStop == IF doorState THEN stop(events, lockEvent) ELSE events

\* The pin goes HIGH before the screen and the log are written, and the event is
\* armed behind them: when the handler ends after d milliseconds the door may have
\* been open for all of them
unlock_door(d) ==
  /\ doorPin' = HIGH
  /\ doorState' = TRUE
  /\ events' = after(AfterStop, delayTime, lock_door, clock')
  /\ lockEvent' = findFreeEventIndex(AfterStop)
  /\ openFor' \in 0 .. d

ButtonPressed(d) ==
  /\ Runs("unlockButton", "process_server", d)
  /\ unlock_door(d)
  /\ UNCHANGED delayTime

ButtonReleased(d) ==
  /\ Runs("unlockButton", "process_server", d)
  /\ KeepsDoor(d)
  /\ UNCHANGED delayTime

-----------------------------------------------------------------------------
(* process_server(): at most one command, of which only 4_<time> matters *)

\* Fault: any number is taken as the delay
SetAnyDelaytime(time, d) ==
  /\ Runs("process_server", "serialEvent1", d)
  /\ delayTime' = time
  /\ KeepsDoor(d)

SetDelaytime(time, d) ==
  /\ Runs("process_server", "serialEvent1", d)
  /\ delayTime' = IF time > 0 THEN time ELSE delayTime
  /\ KeepsDoor(d)

OtherCommand(d) ==
  /\ Runs("process_server", "serialEvent1", d)
  /\ KeepsDoor(d)
  /\ UNCHANGED delayTime

-----------------------------------------------------------------------------
(* serialEvent1(): at most one complete code, then loop() starts again *)

CardAccepted(d) ==
  /\ Runs("serialEvent1", "update", d)
  /\ unlock_door(d)
  /\ UNCHANGED delayTime

CardDenied(d) ==
  /\ Runs("serialEvent1", "update", d + DENIED_DELAY)
  /\ KeepsDoor(d + DENIED_DELAY)
  /\ UNCHANGED delayTime

NoCard(d) ==
  /\ Runs("serialEvent1", "update", d)
  /\ KeepsDoor(d)
  /\ UNCHANGED delayTime

-----------------------------------------------------------------------------
Handler(d) ==
  \/ Update(d) \/ UpdateTime(d)
  \/ ButtonPressed(d) \/ ButtonReleased(d)
  \/ \E time \in TypedDelays : SetDelaytime(time, d)
  \/ OtherCommand(d)
  \/ CardAccepted(d) \/ CardDenied(d) \/ NoCard(d)

Next == \E d \in 0 .. HANDLER_MAX : Handler(d)

Spec == Init /\ [][Next]_vars

\* the board keeps calling loop()
FairSpec == Spec /\ WF_vars(Next)

-----------------------------------------------------------------------------
(* Properties *)

\* Every variable keeps its type; lockEvent may be -1 when after() finds no
\* free event.
TypeOK ==
  /\ events \in [Slots -> Event]
  /\ lockEvent \in Slots \cup {NO_TIMER_AVAILABLE}
  /\ doorState \in BOOLEAN
  /\ doorPin \in {LOW, HIGH}
  /\ delayTime \in 1 .. LONG_MAX
  /\ clock \in Millis
  /\ pc \in Handlers
  /\ openFor \in Nat

\* The pin, doorState and the timer agree between any two handlers: while the
\* door is unlocked exactly one event is pending, it is the one lockEvent
\* names and its single call locks the door; while it is locked nothing is
\* pending.  So re-arming never leaks an event, after() never runs out of
\* events, and no old event locks a door that was unlocked again.
LockArmed ==
  /\ doorPin = HIGH <=> doorState
  /\ Live(events) = IF doorState THEN {lockEvent} ELSE {}
  /\ doorState => /\ events[lockEvent].eventType = EVENT_EVERY
                  /\ events[lockEvent].callback = lock_door
                  /\ events[lockEvent].repeatCount = 1
                  /\ events[lockEvent].count = 0

\* How late, at most, the pending event can be when handler h starts: the
\* handlers since the last t.update() have delayed it.
Lateness(h) ==
  CASE h = "update"         -> LoopMax
    [] h = "updateTime"     -> HANDLER_MAX
    [] h = "unlockButton"   -> 2 * HANDLER_MAX
    [] h = "process_server" -> 3 * HANDLER_MAX
    [] h = "serialEvent1"   -> 4 * HANDLER_MAX

\* From the moment its pin goes HIGH the door never stays unlocked longer than the
\* handler that unlocks it takes, the delay it is unlocked with and one pass of the
\* main loop, the delay() calls of a refused card included, whatever the value of
\* millis() and however often it rolls over.
LocksInTime ==
  doorState => openFor < HANDLER_MAX + events[lockEvent].period + Lateness(pc)

\* The age of the pending event as the library computes it
Age == Since(clock, events[lockEvent].lastEventTime)

\* This difference of counters that roll over is the true time the door has been
\* open, but for what the handler took that unlocked it.
TrueAge == doorState => openFor - Age \in 0 .. HANDLER_MAX

\* The pending event is never later than a pass of the main loop.
DueInTime == doorState => Age < events[lockEvent].period + Lateness(pc)

\* The inductive invariant behind the properties of this module.
IInv ==
  /\ TypeOK
  /\ LockArmed
  /\ doorState => events[lockEvent].period \in 1 .. LONG_MAX
  /\ ~doorState => openFor = 0
  /\ TrueAge
  /\ DueInTime

\* No step locks the door before the delay it was last unlocked with is over,
\* even when delayTime has been changed or millis() has rolled over since.
NeverEarly ==
  [][doorState /\ ~doorState' => openFor >= events[lockEvent].period]_vars

\* What the door promises, without timer and main loop.
Promise ==
  INSTANCE DoorPromise WITH
    open <- doorPin = HIGH,
    held <- openFor,
    window <- IF doorState THEN events[lockEvent].period ELSE 0,
    MaxWindow <- LONG_MAX,
    Opening <- HANDLER_MAX,
    Grace <- LoopMax

\* The control implements the promise.
ImplementsPromise == Promise!Spec

\* A valid card or the button: what keeps the door from being locked.
UnlockStep == \E d \in 0 .. HANDLER_MAX : ButtonPressed(d) \/ CardAccepted(d)

\* The door is locked again and again, unless it is unlocked again and again.
Relocks == []<>(doorPin = LOW) \/ []<><<UnlockStep>>_vars
=============================================================================
