---------------------------- MODULE DoorLockProofs ----------------------------
(***************************************************************************)
(* Proofs about DoorLock, for every number of timer events, every size of  *)
(* the millisecond counter, every set of delays and every speed of the     *)
(* handlers that the assumptions of TimerEvents and DoorLock allow.        *)
(***************************************************************************)
EXTENDS DoorLock, TLAPS

-----------------------------------------------------------------------------
(* The rolling-over clock *)

\* A duration that fits the counter is what the unsigned subtraction of
\* Event::update yields, wherever the counter rolls over.
LEMMA SinceAdvance ==
  ASSUME NEW c \in Millis, NEW last \in Millis, NEW d \in Nat,
         Since(c, last) + d < ULONG
  PROVE  /\ Advance(c, d) \in Millis
         /\ Since(Advance(c, d), last) = Since(c, last) + d
  BY SizesAssumption DEF Millis, Since, Advance

\* It never leaves the counter's range.
LEMMA SinceMillis ==
  ASSUME NEW c \in Millis, NEW last \in Millis
  PROVE  Since(c, last) \in Nat
  BY SizesAssumption DEF Millis, Since

\* The age of an event is a number of milliseconds.
LEMMA AgeNat ==
  ASSUME TypeOK, lockEvent \in Slots
  PROVE  Age \in Nat
<1>1. clock \in Millis /\ events[lockEvent].lastEventTime \in Millis
  BY DEF TypeOK, Event
<1> QED
  BY <1>1, SinceMillis, Zenon DEF Age

\* An event that has just been armed has age 0.
LEMMA SinceNow ==
  ASSUME NEW c \in Millis
  PROVE  Since(c, c) = 0
  BY SizesAssumption DEF Millis, Since

\* The counter stays in range when it advances by at most one turn.
LEMMA AdvanceMillis ==
  ASSUME NEW c \in Millis, NEW d \in 0 .. ULONG
  PROVE  Advance(c, d) \in Millis
  BY SizesAssumption DEF Millis, Advance

-----------------------------------------------------------------------------
(* The event table *)

\* findFreeEventIndex returns slot 0 of a table in which nothing is pending.
LEMMA FirstFree ==
  ASSUME NEW ev, Live(ev) = {}
  PROVE  findFreeEventIndex(ev) = 0 /\ 0 \in Slots /\ FreeSlots(ev) /= {}
<1>1. FreeSlots(ev) = Slots
  BY DEF FreeSlots
<1>2. 0 \in Slots /\ \A j \in Slots : 0 <= j
  BY SizesAssumption DEF Slots
<1>3. ASSUME NEW i \in Slots, \A j \in Slots : i <= j
      PROVE  i = 0
  BY <1>2, <1>3, SizesAssumption DEF Slots
<1>4. (CHOOSE i \in Slots : \A j \in Slots : i <= j) = 0
  BY <1>2, <1>3
<1> QED
  BY <1>1, <1>2, <1>4 DEF findFreeEventIndex

\* A free event and a freshly armed one are events, with the fields they get.
LEMMA EventTypes ==
  ASSUME NEW p \in Millis, NEW cb \in Callbacks, NEW now \in Millis
  PROVE  /\ FreeEvent \in Event
         /\ FreeEvent.eventType = EVENT_NONE
         /\ LET e == EveryEvent(p, cb, 1, now)
            IN  /\ e \in Event
                /\ e.eventType = EVENT_EVERY
                /\ e.period = p
                /\ e.repeatCount = 1
                /\ e.callback = cb
                /\ e.lastEventTime = now
                /\ e.count = 0
<1>1. 0 \in Millis /\ 0 \in Int16 /\ 1 \in Int16
  BY SizesAssumption DEF Millis, Int16
<1>2. FreeEvent \in Event
  BY <1>1 DEF FreeEvent, Event
<1>3. EveryEvent(p, cb, 1, now) \in Event
  BY <1>1 DEF FreeEvent, Event, EveryEvent
<1> QED
  BY <1>2, <1>3 DEF FreeEvent, EveryEvent

\* Stopping the only pending event leaves a table in which nothing is pending.
LEMMA StopOnly ==
  ASSUME NEW ev \in [Slots -> Event], NEW id \in Slots, Live(ev) = {id}
  PROVE  stop(ev, id) \in [Slots -> Event] /\ Live(stop(ev, id)) = {}
<1>1. FreeEvent \in Event /\ FreeEvent.eventType = EVENT_NONE
  <2>1. 0 \in Millis /\ 0 \in Int16
    BY SizesAssumption DEF Millis, Int16
  <2> QED
    BY <2>1 DEF FreeEvent, Event
<1>2. stop(ev, id) = [ev EXCEPT ![id] = FreeEvent]
  BY DEF stop
<1>3. \A i \in Slots : i /= id => ev[i].eventType = EVENT_NONE
  BY DEF Live
<1>4. \A i \in Slots : stop(ev, id)[i].eventType = EVENT_NONE
  BY <1>1, <1>2, <1>3
<1> QED
  BY <1>1, <1>2, <1>4 DEF Live

\* What after() does to a table in which nothing is pending.
LEMMA AfterOnEmpty ==
  ASSUME NEW ev \in [Slots -> Event], Live(ev) = {},
         NEW p \in Millis, NEW cb \in Callbacks, NEW now \in Millis
  PROVE  /\ after(ev, p, cb, now) \in [Slots -> Event]
         /\ Live(after(ev, p, cb, now)) = {0}
         /\ 0 \in Slots
         /\ LET e == after(ev, p, cb, now)[0]
            IN  /\ e.eventType = EVENT_EVERY
                /\ e.period = p
                /\ e.repeatCount = 1
                /\ e.callback = cb
                /\ e.lastEventTime = now
                /\ e.count = 0
<1> DEFINE e == EveryEvent(p, cb, 1, now)
<1>1. /\ e \in Event
      /\ e.eventType = EVENT_EVERY
  BY EventTypes
<1>2. after(ev, p, cb, now) = [ev EXCEPT ![0] = e] /\ 0 \in Slots
  BY FirstFree DEF after, Arm
<1>3. \A i \in Slots : ev[i].eventType = EVENT_NONE
  BY DEF Live
<1>4. EVENT_EVERY /= EVENT_NONE
  BY DEF EVENT_EVERY, EVENT_NONE
<1> QED
  BY <1>1, <1>2, <1>3, <1>4, EventTypes DEF Live

\* A pass of Timer::update over the door's table either calls lock_door and
\* empties the table, or changes nothing.
LEMMA UpdatePass ==
  ASSUME IInv
  PROVE  /\ Firing(clock) = {} => AfterUpdate(clock) = events
         /\ Firing(clock) /= {} =>
              /\ doorState
              /\ Due(events[lockEvent], clock)
              /\ AfterUpdate(clock) \in [Slots -> Event]
              /\ Live(AfterUpdate(clock)) = {}
         /\ doorState => (Firing(clock) /= {} <=> Due(events[lockEvent], clock))
<1> USE DEF IInv, TypeOK, LockArmed
<1>1. CASE ~doorState
  <2>1. Live(events) = {} /\ Firing(clock) = {}
    BY <1>1 DEF Firing
  <2>2. AfterUpdate(clock) = [i \in Slots |-> events[i]]
    BY <2>1 DEF AfterUpdate
  <2> QED
    BY <1>1, <2>1, <2>2
<1>2. CASE doorState
  <2> DEFINE e == events[lockEvent]
  <2>1. /\ Live(events) = {lockEvent}
        /\ lockEvent \in Slots
        /\ e \in Event
        /\ e.repeatCount = 1
        /\ e.count = 0
    BY <1>2 DEF Live
  <2>2. Firing(clock) = IF Due(e, clock) THEN {lockEvent} ELSE {}
    BY <2>1 DEF Firing
  <2>3. Retire(e) = e
    BY <2>1 DEF Retire, Exhausted
  <2>4. Retire(Fired(e, clock)) = FreeEvent
    <3>1. ToInt(0 + 1) = 1
      BY SizesAssumption DEF ToInt
    <3>2. Fired(e, clock).count = 1 /\ Fired(e, clock).repeatCount = 1
      BY <2>1, <3>1 DEF Fired, Event
    <3> QED
      BY <3>2 DEF Retire, Exhausted
  <2>5. CASE Due(e, clock)
    <3>1. AfterUpdate(clock) = [i \in Slots |-> IF i = lockEvent THEN FreeEvent
                                               ELSE events[i]]
      BY <2>1, <2>2, <2>4, <2>5 DEF AfterUpdate
    <3>2. \A i \in Slots : i /= lockEvent => events[i].eventType = EVENT_NONE
      BY <2>1 DEF Live
    <3>3. FreeEvent \in Event /\ FreeEvent.eventType = EVENT_NONE
      BY EventTypes, CallbackAssumption
    <3>4. Live(AfterUpdate(clock)) = {}
      BY <3>1, <3>2, <3>3 DEF Live
    <3>5. AfterUpdate(clock) \in [Slots -> Event]
      BY <3>1, <3>3
    <3> QED
      BY <1>2, <2>2, <2>5, <3>4, <3>5
  <2>6. CASE ~Due(e, clock)
    <3>1. AfterUpdate(clock) = [i \in Slots |-> events[i]]
      BY <2>1, <2>2, <2>3, <2>6 DEF AfterUpdate
    <3> QED
      BY <1>2, <2>2, <2>6, <3>1
  <2> QED
    BY <2>5, <2>6
<1> QED
  BY <1>1, <1>2

\* unlock_door leaves exactly the event it has just armed, with the current
\* delay, whether the door was locked or not.
LEMMA UnlockEffect ==
  ASSUME IInv, NEW d, unlock_door(d), clock' \in Millis
  PROVE  /\ events' \in [Slots -> Event]
         /\ Live(events') = {0}
         /\ lockEvent' = 0
         /\ 0 \in Slots
         /\ LET e == events'[0]
            IN  /\ e.eventType = EVENT_EVERY
                /\ e.period = delayTime
                /\ e.repeatCount = 1
                /\ e.callback = lock_door
                /\ e.lastEventTime = clock'
                /\ e.count = 0
<1> USE DEF IInv, TypeOK, LockArmed
<1>1. AfterStop \in [Slots -> Event] /\ Live(AfterStop) = {}
  <2>1. CASE doorState
    <3>1. lockEvent \in Slots
      BY <2>1 DEF Live
    <3> QED
      BY <2>1, <3>1, StopOnly DEF AfterStop
  <2>2. CASE ~doorState
    BY <2>2 DEF AfterStop
  <2> QED
    BY <2>1, <2>2
<1>2. delayTime \in Millis
  BY DelaysAssumption, DurationsAssumption, SizesAssumption DEF Millis, LoopMax
<1>3. lock_door \in Callbacks
  BY CallbackAssumption
<1>4. lockEvent' = 0
  BY <1>1, FirstFree DEF unlock_door
<1> QED
  BY <1>1, <1>2, <1>3, <1>4, AfterOnEmpty DEF unlock_door

-----------------------------------------------------------------------------
(* The inductive invariant *)

LEMMA InitIInv == Init => IInv
<1> SUFFICES ASSUME Init PROVE IInv
  OBVIOUS
<1>1. FreeEvent \in Event /\ FreeEvent.eventType = EVENT_NONE
  BY EventTypes, CallbackAssumption, SizesAssumption DEF Millis
<1>2. events \in [Slots -> Event] /\ Live(events) = {}
  BY <1>1 DEF Init, NoEvents, Live
<1>3. 0 \in Slots
  BY SizesAssumption DEF Slots
<1>4. TypeOK
  BY <1>2, <1>3, DelaysAssumption DEF Init, TypeOK, LOW, HIGH, Handlers
<1> QED
  BY <1>2, <1>4 DEF Init, IInv, LockArmed, TrueAge, DueInTime, LOW, HIGH

\* Lateness grows by the time of one handler from each to the next.
LEMMA LatenessSteps ==
  /\ \A h \in Handlers : Lateness(h) \in Nat /\ Lateness(h) <= LoopMax
  /\ Lateness("updateTime") = HANDLER_MAX
  /\ Lateness("unlockButton") = Lateness("updateTime") + HANDLER_MAX
  /\ Lateness("process_server") = Lateness("unlockButton") + HANDLER_MAX
  /\ Lateness("serialEvent1") = Lateness("process_server") + HANDLER_MAX
  /\ Lateness("update") = Lateness("serialEvent1") + HANDLER_MAX + DENIED_DELAY
  BY DurationsAssumption DEF Lateness, Handlers, LoopMax

\* A handler that unlocks the door keeps the invariant.
LEMMA UnlockKeepsIInv ==
  ASSUME IInv, NEW d \in 0 .. HANDLER_MAX, NEW h, NEW next \in Handlers,
         Runs(h, next, d), unlock_door(d), UNCHANGED delayTime
  PROVE  IInv'
<1>1. clock' \in Millis
  BY AdvanceMillis, DurationsAssumption, DelaysAssumption, SizesAssumption
     DEF IInv, TypeOK, Runs, LoopMax
<1>2. /\ events' \in [Slots -> Event]
      /\ Live(events') = {0}
      /\ lockEvent' = 0
      /\ 0 \in Slots
      /\ events'[0].eventType = EVENT_EVERY
      /\ events'[0].period = delayTime
      /\ events'[0].repeatCount = 1
      /\ events'[0].callback = lock_door
      /\ events'[0].lastEventTime = clock'
      /\ events'[0].count = 0
  BY <1>1, UnlockEffect
<1>3. /\ doorState' = TRUE /\ doorPin' = HIGH /\ pc' = next
      /\ openFor' \in 0 .. HANDLER_MAX
  BY DurationsAssumption DEF unlock_door, Runs
<1>4. delayTime' \in 1 .. LONG_MAX /\ delayTime' = delayTime
  BY DEF IInv, TypeOK
<1>5. TypeOK'
  BY <1>1, <1>2, <1>3, <1>4 DEF TypeOK
<1>6. LockArmed'
  BY <1>2, <1>3 DEF LockArmed, Live
<1>7. Age' = 0
  BY <1>1, <1>2, SinceNow DEF Age
<1>8. TrueAge'
  <2>1. \A x \in 0 .. HANDLER_MAX : x - 0 = x
    BY DurationsAssumption
  <2> QED
    BY <1>3, <1>7, <2>1, Zenon DEF TrueAge
<1>9. DueInTime'
  <2>1. Lateness(next) \in Nat /\ Lateness(pc)' = Lateness(next)
    BY <1>3, LatenessSteps DEF Lateness
  <2>2. 0 < delayTime + Lateness(next)
    BY <1>4, <2>1, DelaysAssumption
  <2> QED
    BY <1>2, <1>7, <2>1, <2>2 DEF DueInTime
<1> QED
  BY <1>2, <1>3, <1>4, <1>5, <1>6, <1>8, <1>9 DEF IInv

\* A handler that leaves the door alone keeps the invariant, if the time it
\* takes is within what the lateness of the next handler allows for.
LEMMA KeepKeepsIInv ==
  ASSUME IInv, NEW h \in Handlers, NEW next \in Handlers, NEW d \in Nat,
         Runs(h, next, d), KeepsDoor(d), delayTime' \in 1 .. LONG_MAX,
         d <= HANDLER_MAX + DENIED_DELAY,
         h /= "update", Lateness(h) + d <= Lateness(next)
  PROVE  IInv'
<1> USE DEF IInv
<1>1. pc = h /\ pc' = next /\ clock' = Advance(clock, d) /\ clock \in Millis
  BY DEF Runs, TypeOK
<1>2. d \in 0 .. ULONG
  BY DurationsAssumption, DelaysAssumption, SizesAssumption DEF LoopMax
<1>3. clock' \in Millis
  BY <1>1, <1>2, AdvanceMillis
<1>4. TypeOK' /\ LockArmed'
  BY <1>1, <1>3 DEF TypeOK, LockArmed, KeepsDoor, door, Live
<1>5. CASE ~doorState
  BY <1>4, <1>5 DEF KeepsDoor, door, DueInTime, TrueAge
<1>6. CASE doorState
  <2> DEFINE e == events[lockEvent]
  <2>1. e \in Event /\ e.lastEventTime \in Millis /\ e.period \in 1 .. LONG_MAX
    BY <1>6 DEF TypeOK, LockArmed, Live, Event
  <2>2. Age \in Nat /\ Age < e.period + Lateness(h)
    <3>1. lockEvent \in Slots
      BY <1>6 DEF LockArmed, Live
    <3> QED
      BY <1>1, <1>6, <3>1, AgeNat DEF DueInTime
  <2>3. Lateness(h) \in Nat /\ Lateness(next) \in Nat /\ Lateness(next) <= LoopMax
    BY DurationsAssumption DEF Lateness, Handlers, LoopMax
  <2>4. openFor' = openFor + d /\ events' = events /\ lockEvent' = lockEvent
    BY <1>6 DEF KeepsDoor, door
  <2>5. Age + d < e.period + Lateness(next)
    BY <2>1, <2>2, <2>3
  <2>6. Age + d < ULONG
    BY <2>1, <2>2, <2>3, <2>5, DurationsAssumption, DelaysAssumption,
       SizesAssumption DEF LoopMax
  <2>7. Age' = Age + d
    BY <1>1, <2>1, <2>4, <2>6, SinceAdvance DEF Age
  <2>8. DueInTime'
    BY <1>1, <2>4, <2>5, <2>7 DEF DueInTime, Lateness
  <2>9. TrueAge'
    BY <1>4, <1>6, <2>2, <2>4, <2>7 DEF TrueAge, TypeOK
  <2> QED
    BY <1>4, <1>6, <2>1, <2>4, <2>8, <2>9 DEF KeepsDoor, door
<1> QED
  BY <1>5, <1>6

\* t.update() keeps the invariant: a due event locks the door, and one that is
\* not due is younger than its period.
LEMMA UpdateKeepsIInv ==
  ASSUME IInv, NEW d \in 0 .. HANDLER_MAX, Update(d)
  PROVE  IInv'
<1> USE DEF IInv
<1>1. /\ pc = "update" /\ pc' = "updateTime"
      /\ clock' = Advance(clock, d) /\ clock \in Millis
      /\ events' = AfterUpdate(clock) /\ lockEvent' = lockEvent
      /\ delayTime' = delayTime
  BY DEF Update, Runs, TypeOK
<1>2. d \in Nat /\ d \in 0 .. ULONG
  BY DurationsAssumption, DelaysAssumption, SizesAssumption DEF LoopMax
<1>3. clock' \in Millis
  BY <1>1, <1>2, AdvanceMillis
<1>4. Lateness("updateTime") = HANDLER_MAX
  BY DEF Lateness
<1>5. CASE Firing(clock) /= {}
  <2>1. events' \in [Slots -> Event] /\ Live(events') = {}
    BY <1>1, <1>5, UpdatePass
  <2>2. doorState' = FALSE /\ doorPin' = LOW /\ openFor' = 0
    BY <1>5 DEF Update, LockDoor
  <2>3. TypeOK'
    BY <1>1, <1>3, <2>1, <2>2 DEF TypeOK, Handlers
  <2>4. LockArmed'
    BY <2>1, <2>2 DEF LockArmed, Live, LOW, HIGH
  <2> QED
    BY <2>2, <2>3, <2>4 DEF DueInTime, TrueAge
<1>6. CASE Firing(clock) = {}
  <2>1. events' = events
    BY <1>1, <1>6, UpdatePass
  <2>2. /\ doorState' = doorState /\ doorPin' = doorPin
        /\ openFor' = IF doorState THEN openFor + d ELSE 0
    BY <1>6 DEF Update
  <2>3. TypeOK'
    BY <1>1, <1>2, <1>3, <2>1, <2>2 DEF TypeOK, Handlers
  <2>4. LockArmed'
    BY <1>1, <2>1, <2>2 DEF LockArmed, Live
  <2>5. CASE ~doorState
    BY <1>1, <2>1, <2>2, <2>3, <2>4, <2>5 DEF DueInTime, TrueAge
  <2>6. CASE doorState
    <3> DEFINE e == events[lockEvent]
    <3>1. e \in Event /\ e.lastEventTime \in Millis /\ e.period \in 1 .. LONG_MAX
      BY <2>6 DEF TypeOK, LockArmed, Live, Event
    <3>2. ~Due(e, clock)
      BY <1>6, <2>6, UpdatePass
    <3>3. Age < e.period /\ Age \in Nat
      <4>1. lockEvent \in Slots
        BY <2>6 DEF LockArmed, Live
      <4>2. Age \in Nat
        BY <4>1, AgeNat
      <4>3. ~(Age >= e.period)
        BY <3>2, Zenon DEF Due, Age
      <4> QED
        BY <3>1, <4>2, <4>3, DelaysAssumption
    <3>4. Age + d < e.period + HANDLER_MAX
      BY <3>1, <3>3, DurationsAssumption
    <3>5. Age + d < ULONG
      <4>1. HANDLER_MAX <= LoopMax /\ LoopMax \in Nat /\ LONG_MAX \in Nat
        BY DurationsAssumption, DelaysAssumption DEF LoopMax
      <4>2. e.period <= LONG_MAX /\ e.period \in Nat
        BY <3>1, <4>1
      <4> QED
        BY <1>2, <3>3, <3>4, <4>1, <4>2, DurationsAssumption, SizesAssumption
    <3>6. Age' = Age + d
      BY <1>1, <1>2, <2>1, <3>1, <3>5, SinceAdvance DEF Age
    <3>7. DueInTime'
      <4>1. Lateness(pc)' = HANDLER_MAX
        BY <1>1 DEF Lateness
      <4> QED
        BY <1>1, <2>1, <2>2, <2>6, <3>4, <3>6, <4>1 DEF DueInTime
    <3>8. TrueAge'
      BY <1>2, <2>2, <2>3, <2>6, <3>3, <3>6 DEF TrueAge, TypeOK
    <3> QED
      BY <1>1, <2>1, <2>2, <2>3, <2>4, <2>6, <3>1, <3>7, <3>8
  <2> QED
    BY <2>5, <2>6
<1> QED
  BY <1>5, <1>6

LEMMA NextIInv == IInv /\ [Next]_vars => IInv'
<1> SUFFICES ASSUME IInv, [Next]_vars PROVE IInv'
  OBVIOUS
<1>1. CASE UNCHANGED vars
  BY <1>1 DEF vars, IInv, TypeOK, LockArmed, Live, DueInTime, Lateness, TrueAge, Age
<1>2. ASSUME NEW d \in 0 .. HANDLER_MAX, Handler(d)
      PROVE  IInv'
  <2>0. /\ d \in Nat /\ d <= HANDLER_MAX
        /\ DENIED_DELAY \in Nat /\ HANDLER_MAX \in Nat
        /\ delayTime \in 1 .. LONG_MAX
        /\ Handlers = {"update", "updateTime", "unlockButton",
                       "process_server", "serialEvent1"}
    BY DurationsAssumption DEF IInv, TypeOK, Handlers
  <2>1. CASE Update(d)
    BY <2>1, UpdateKeepsIInv
  <2>2. ASSUME NEW h \in Handlers, NEW next \in Handlers, NEW t \in Nat,
               Runs(h, next, t), KeepsDoor(t), delayTime' \in 1 .. LONG_MAX,
               \/ /\ t = d
                  /\ \/ h = "updateTime" /\ next = "unlockButton"
                     \/ h = "unlockButton" /\ next = "process_server"
                     \/ h = "process_server" /\ next = "serialEvent1"
                     \/ h = "serialEvent1" /\ next = "update"
               \/ /\ t = d + DENIED_DELAY
                  /\ h = "serialEvent1" /\ next = "update"
        PROVE  IInv'
    <3>1. h /= "update" /\ Lateness(h) + t <= Lateness(next)
      BY <2>0, <2>2, LatenessSteps
    <3> QED
      BY <2>0, <2>2, <3>1, KeepKeepsIInv
  <2>3. CASE UpdateTime(d)
    BY <2>0, <2>2, <2>3 DEF UpdateTime
  <2>4. CASE ButtonPressed(d) \/ CardAccepted(d)
    BY <2>0, <2>4, UnlockKeepsIInv DEF ButtonPressed, CardAccepted
  <2>5. CASE ButtonReleased(d)
    BY <2>0, <2>2, <2>5 DEF ButtonReleased
  <2>6. ASSUME NEW time \in TypedDelays, SetDelaytime(time, d)
        PROVE  IInv'
    <3>1. delayTime' \in 1 .. LONG_MAX
      BY <2>0, <2>6, DelaysAssumption DEF SetDelaytime
    <3> QED
      BY <2>0, <2>2, <2>6, <3>1 DEF SetDelaytime
  <2>7. CASE OtherCommand(d)
    BY <2>0, <2>2, <2>7 DEF OtherCommand
  <2>8. CASE CardDenied(d)
    BY <2>0, <2>2, <2>8 DEF CardDenied
  <2>9. CASE NoCard(d)
    BY <2>0, <2>2, <2>9 DEF NoCard
  <2> QED
    BY <1>2, <2>1, <2>3, <2>4, <2>5, <2>6, <2>7, <2>8, <2>9 DEF Handler
<1> QED
  BY <1>1, <1>2 DEF Next

-----------------------------------------------------------------------------
(* Theorems *)

\* IInv holds in every reachable state.
THEOREM Invariance == Spec => []IInv
<1>1. Init => IInv
  BY InitIInv
<1>2. IInv /\ [Next]_vars => IInv'
  BY NextIInv
<1> QED
  BY <1>1, <1>2, PTL DEF Spec

\* Every variable of the door control keeps its type.
THEOREM TypeCorrect == Spec => []TypeOK
<1>1. IInv => TypeOK
  BY DEF IInv
<1> QED
  BY <1>1, Invariance, PTL

\* An unlocked door has exactly one pending event, the one lockEvent names,
\* and it will lock the door; a locked door has none.
THEOREM AlwaysArmed == Spec => []LockArmed
<1>1. IInv => LockArmed
  BY DEF IInv
<1> QED
  BY <1>1, Invariance, PTL

\* The age of the pending event bounds the time the door has been open.
LEMMA InTime == IInv => LocksInTime
<1> SUFFICES ASSUME IInv, doorState
             PROVE  openFor < HANDLER_MAX + events[lockEvent].period + Lateness(pc)
  BY DEF LocksInTime
<1>1. Age \in Nat
  BY AgeNat DEF IInv, LockArmed, Live
<1>2. /\ openFor \in Nat /\ openFor - Age \in 0 .. HANDLER_MAX
      /\ Age < events[lockEvent].period + Lateness(pc)
      /\ events[lockEvent].period \in 1 .. LONG_MAX /\ Lateness(pc) \in Nat
  BY LatenessSteps DEF IInv, TypeOK, TrueAge, DueInTime
<1> QED
  BY <1>1, <1>2, DurationsAssumption, DelaysAssumption

\* The door is never open for longer than it takes to unlock it, its delay and one
\* pass of the loop.
THEOREM TimelyLocking == Spec => []LocksInTime
  BY InTime, Invariance, PTL

LEMMA HeldInTime ==
  IInv /\ doorState => openFor < HANDLER_MAX + events[lockEvent].period + LoopMax
<1> SUFFICES ASSUME IInv, doorState
             PROVE  openFor < HANDLER_MAX + events[lockEvent].period + LoopMax
  OBVIOUS
<1>1. openFor < HANDLER_MAX + events[lockEvent].period + Lateness(pc)
  BY InTime DEF LocksInTime
<1>2. /\ openFor \in Nat /\ events[lockEvent].period \in 1 .. LONG_MAX
      /\ Lateness(pc) \in Nat /\ Lateness(pc) <= LoopMax
  BY LatenessSteps DEF IInv, TypeOK
<1> QED
  BY <1>1, <1>2, DurationsAssumption, DelaysAssumption DEF LoopMax

\* A pending event that is due has been waited for.
LEMMA DueLate ==
  ASSUME IInv, doorState, Due(events[lockEvent], clock)
  PROVE  openFor >= events[lockEvent].period
<1>1. Age \in Nat
  BY AgeNat DEF IInv, LockArmed, Live
<1>2. Age >= events[lockEvent].period
  BY Zenon DEF Age, Due
<1>3. openFor \in Nat /\ openFor - Age \in 0 .. HANDLER_MAX
      /\ events[lockEvent].period \in 1 .. LONG_MAX
  BY DEF IInv, TypeOK, TrueAge
<1> QED
  BY <1>1, <1>2, <1>3, DelaysAssumption, DurationsAssumption

\* The door is never locked before its delay is over.
THEOREM NoEarlyLocking == Spec => NeverEarly
<1> DEFINE A == doorState /\ ~doorState' => openFor >= events[lockEvent].period
<1>1. IInv /\ [Next]_vars => [A]_vars
  <2> SUFFICES ASSUME IInv, [Next]_vars, doorState, ~doorState'
               PROVE  openFor >= events[lockEvent].period
    OBVIOUS
  <2>1. ~UNCHANGED vars
    BY DEF vars
  <2>2. PICK d \in 0 .. HANDLER_MAX : Update(d)
    BY <2>1 DEF Next, Handler, UpdateTime, ButtonPressed, ButtonReleased,
       SetDelaytime, OtherCommand, CardAccepted, CardDenied, NoCard, KeepsDoor,
       door, unlock_door
  <2>3. Firing(clock) /= {}
    BY <2>2 DEF Update
  <2>4. Due(events[lockEvent], clock)
    BY <2>3, UpdatePass
  <2> QED
    BY <2>4, DueLate
<1> QED
  BY <1>1, Invariance, PTL DEF Spec, NeverEarly

\* The door control implements the promise of DoorPromise: its steps are an
\* unlocking, a stretch of time in which the door is held open, a locking, or
\* nothing a user of the door sees.
THEOREM Refinement == Spec => ImplementsPromise
<1>1. Init => Promise!Init
  BY DEF Init, Promise!Init, LOW, HIGH
<1>2. IInv /\ IInv' /\ [Next]_vars => [Promise!Next]_(Promise!vars)
  <2> SUFFICES ASSUME IInv, IInv', [Next]_vars
               PROVE  [Promise!Next]_(Promise!vars)
    OBVIOUS
  <2>0. /\ doorPin = HIGH <=> doorState
        /\ (doorPin = HIGH)' <=> doorState'
        /\ openFor \in Nat /\ openFor' \in Nat
        /\ LoopMax \in Nat
    BY DurationsAssumption DEF IInv, TypeOK, LockArmed, LoopMax
  <2>c. (doorState => openFor < HANDLER_MAX + events[lockEvent].period + LoopMax)'
    BY HeldInTime, PTL
  <2>a. ASSUME NEW d \in 0 .. HANDLER_MAX, unlock_door(d), NEW h, NEW next,
               Runs(h, next, d)
        PROVE  Promise!Unlock
    <3>1. clock' \in Millis
      BY DEF IInv, TypeOK
    <3>2. /\ doorState' /\ (doorPin = HIGH)'
          /\ openFor' \in 0 .. HANDLER_MAX /\ events'[lockEvent'].period = delayTime
      BY <2>a, <3>1, UnlockEffect, DurationsAssumption DEF unlock_door
    <3>3. delayTime \in 1 .. LONG_MAX
      BY DEF IInv, TypeOK
    <3> QED
      BY <3>2, <3>3 DEF Promise!Unlock
  <2>b. ASSUME UNCHANGED door, openFor' >= openFor \/ ~doorState
        PROVE  [Promise!Next]_(Promise!vars)
    <3>1. CASE doorState
      <4>1. /\ doorState' /\ events' = events /\ lockEvent' = lockEvent
            /\ lockEvent \in Slots
        BY <2>b, <3>1 DEF door, IInv, LockArmed, Live
      <4>2. events[lockEvent].period \in 1 .. LONG_MAX
        BY <3>1 DEF IInv
      <4>3. openFor' < HANDLER_MAX + events[lockEvent].period + LoopMax
        BY <2>c, <4>1, Zenon
      <4>4. doorPin = HIGH /\ doorPin' = HIGH
        BY <2>0, <3>1, <4>1
      <4> QED
        BY <2>b, <3>1, <4>1, <4>3, <4>4 DEF Promise!Next, Promise!Hold
    <3>2. CASE ~doorState
      <4>1. ~doorState' /\ openFor = 0 /\ openFor' = 0
        BY <2>b, <3>2 DEF door, IInv
      <4> QED
        BY <2>0, <3>2, <4>1 DEF Promise!vars
    <3> QED
      BY <3>1, <3>2
  <2>1. CASE UNCHANGED vars
    BY <2>0, <2>1, <2>b DEF vars, door
  <2>2. ASSUME NEW d \in 0 .. HANDLER_MAX, Handler(d)
        PROVE  [Promise!Next]_(Promise!vars)
    <3>0. d \in Nat /\ DENIED_DELAY \in Nat
      BY DurationsAssumption
    <3>1. CASE Update(d) /\ Firing(clock) = {}
      <4>1. UNCHANGED door
        BY <3>1, UpdatePass DEF Update, door
      <4>2. openFor' >= openFor \/ ~doorState
        BY <2>0, <3>0, <3>1 DEF Update
      <4> QED
        BY <4>1, <4>2, <2>b
    <3>2. CASE Update(d) /\ Firing(clock) /= {}
      <4>1. doorState /\ Due(events[lockEvent], clock)
        BY <3>2, UpdatePass
      <4>2. openFor >= events[lockEvent].period
        BY <4>1, DueLate, Zenon
      <4>3. ~doorState' /\ openFor' = 0 /\ doorPin' = LOW
        BY <3>2 DEF Update, LockDoor
      <4> QED
        BY <2>0, <4>1, <4>2, <4>3 DEF Promise!Next, Promise!Lock
    <3>3. CASE ButtonPressed(d) \/ CardAccepted(d)
      BY <3>3, <2>a DEF ButtonPressed, CardAccepted, Promise!Next
    <3>4. ASSUME NEW t \in Nat, KeepsDoor(t)
          PROVE  [Promise!Next]_(Promise!vars)
      BY <2>0, <2>b, <3>4 DEF KeepsDoor
    <3>5. CASE \/ UpdateTime(d) \/ ButtonReleased(d) \/ OtherCommand(d)
               \/ \E time \in TypedDelays : SetDelaytime(time, d)
               \/ CardDenied(d) \/ NoCard(d)
      BY <3>0, <3>4, <3>5 DEF UpdateTime, ButtonReleased, OtherCommand,
         SetDelaytime, CardDenied, NoCard
    <3> QED
      BY <2>2, <3>1, <3>2, <3>3, <3>5 DEF Handler
  <2> QED
    BY <2>1, <2>2 DEF Next
<1> QED
  BY <1>1, <1>2, Invariance, PTL DEF Spec, ImplementsPromise, Promise!Spec
=============================================================================
