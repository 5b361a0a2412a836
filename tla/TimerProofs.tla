----------------------------- MODULE TimerProofs -----------------------------
(***************************************************************************)
(* Proofs about Timer, for every number of events, every width of the      *)
(* counter and of int, and every client that calls update() often enough   *)
(* (ClientAssumption): callbacks may arm and stop any event, their own     *)
(* too, and may last for any time.                                         *)
(***************************************************************************)
EXTENDS Timer, WellFoundedInduction, TLAPS

-----------------------------------------------------------------------------
(* The inductive invariant *)

Even(n) == n % 2 = 0

\* The callback of event i is running; its event is not yet updated.
InCall(i) == phase = "callback" /\ i = slot

Capped(n) == IF n < AgeMax THEN n ELSE AgeMax

\* What the code takes for the age of event i is not more than its true age:
\* never of an event that update() cannot see, and of the others in its pass.
Aged(i) ==
  LET last == IF InCall(i) THEN now ELSE events[i].lastEventTime
  IN  /\ events[i].period <= AgeMax
      /\ age[i] >= Capped(Since(clock, last))
      /\ phase /= "loop" /\ i \notin inPass => age[i] >= Capped(Since(now, last))

\* Every call is counted, an event that has calls left is pending, and the
\* calls stored are those it was asked for, unless their number overflowed.
Counted(i) ==
  /\ fired[i] = IF InCall(i) THEN ToInt(events[i].count + 1) ELSE events[i].count
  /\ events[i].repeatCount > 0 => events[i].count < events[i].repeatCount
  /\ asked[i] \in Int16 => events[i].repeatCount = asked[i]
  /\ asked[i] > INT_MAX => events[i].repeatCount < 0

\* A cycle that is complete has brought the pin back to where it began.
Cycled(i) ==
  LET e == events[i]
  IN  /\ InCall(i) => e.eventType = EVENT_EVERY
      /\ maker[i] = "oscillate" =>
           /\ e.eventType = EVENT_OSCILLATE
           /\ goal[i] \in {LOW, HIGH}
           /\ Even(e.repeatCount)
           /\ e.pinState = goal[i] <=> Even(e.count)
      /\ maker[i] = "pulseImmediate" =>
           /\ e.eventType = EVENT_OSCILLATE
           /\ goal[i] = 1 - e.pinState
           /\ e.repeatCount = 1 /\ e.count = 0

IInv ==
  /\ TypeOK
  /\ \A i \in Slots : events[i].eventType = EVENT_OSCILLATE => events[i].pin \in Pins
  /\ \A i \in Live(events) \ reused : Aged(i) /\ Counted(i) /\ Cycled(i)

-----------------------------------------------------------------------------
(* Numbers *)

\* A set of numbers has a least one.
LEMMA LeastElement ==
  ASSUME NEW T, T \subseteq Nat, T /= {}
  PROVE  \E x \in T : \A y \in T : x <= y
<1>1. \E x \in T : \A y \in T : ~ (<<y, x>> \in OpToRel(<, Nat))
  BY NatLessThanWellFounded, WFMin, Zenon
<1>2. \E x \in T : \A y \in T : ~ (y < x)
  BY <1>1, Zenon DEF OpToRel
<1> QED
  BY <1>2

\* AgeMax is the longest period.
LEMMA LongestPeriod ==
  /\ AgeMax \in Millis
  /\ \A p \in Periods : p \in Millis /\ p <= AgeMax
<1> DEFINE T == {ULONG - p : p \in Periods}
<1>1. T \subseteq Nat /\ T /= {}
  <2>1. \A p \in Periods : ULONG - p \in Nat
    BY SizesAssumption, ClientAssumption DEF Millis
  <2>2. PICK p \in Periods : TRUE
    BY ClientAssumption
  <2>3. ULONG - p \in T
    BY <2>2
  <2> QED
    BY <2>1, <2>3
<1>2. PICK x \in T : \A y \in T : x <= y
  BY <1>1, LeastElement
<1>3. PICK p \in Periods : x = ULONG - p
  OBVIOUS
<1>4. \A q \in Periods : q <= p
  <2> SUFFICES ASSUME NEW q \in Periods PROVE q <= p
    OBVIOUS
  <2>1. ULONG - p <= ULONG - q
    BY <1>2, <1>3
  <2> QED
    BY <2>1, SizesAssumption, ClientAssumption DEF Millis
<1>5. AgeMax \in Periods /\ \A q \in Periods : q <= AgeMax
  BY <1>4 DEF AgeMax
<1> QED
  BY <1>5, ClientAssumption

\* Unsigned differences: they fit, an event that has just been armed has age 0,
\* and one tick adds at most one, also where the counter rolls over.
LEMMA SinceFacts ==
  ASSUME NEW c \in Millis, NEW last \in Millis
  PROVE  /\ Since(c, last) \in Millis
         /\ Since(c, c) = 0
         /\ Advance(c, 1) \in Millis
         /\ Since(Advance(c, 1), last) <= Since(c, last) + 1
  BY SizesAssumption DEF Millis, Since, Advance

\* The numbers of calls a client can ask for.
Requests == -2 * (INT_MAX + 1) .. 2 * INT_MAX

\* The int arithmetic of the library stays within an int.
LEMMA IntFacts ==
  ASSUME NEW n \in Int16
  PROVE  /\ ToInt(n + 1) \in Int16 /\ ToInt(n * 2) \in Int16
         /\ n < INT_MAX => ToInt(n + 1) = n + 1
         /\ n * 2 \in Requests
         /\ n * 2 \in Int16 => ToInt(n * 2) = n * 2
         /\ n * 2 > INT_MAX => ToInt(n * 2) < 0
         /\ 0 \in Int16 /\ 1 \in Int16 /\ 1 <= INT_MAX
         /\ n \in Requests /\ ~ (n > INT_MAX)
         /\ 0 \in Requests /\ 1 \in Requests
  BY SizesAssumption DEF Int16, ToInt, Requests

\* Overflow keeps the parity of an int.
LEMMA Parity ==
  ASSUME NEW n \in Int16
  PROVE  /\ Even(0)
         /\ Even(n + 1) <=> ~Even(n)
         /\ Even(ToInt(n + 1)) <=> ~Even(n)
         /\ Even(ToInt(n * 2))
  BY SizesAssumption DEF Int16, ToInt, Even

-----------------------------------------------------------------------------
(* The event table *)

\* findFreeEventIndex returns a free slot if there is one.
LEMMA FreeIndex ==
  ASSUME NEW ev, FreeSlots(ev) /= {}
  PROVE  /\ findFreeEventIndex(ev) \in Slots
         /\ findFreeEventIndex(ev) \notin Live(ev)
         /\ findFreeEventIndex(ev) /= NO_TIMER_AVAILABLE
<1>1. FreeSlots(ev) \subseteq Nat /\ FreeSlots(ev) \subseteq Slots
  BY SizesAssumption DEF FreeSlots, Slots
<1>2. \E i \in FreeSlots(ev) : \A j \in FreeSlots(ev) : i <= j
  BY <1>1, LeastElement
<1>3. findFreeEventIndex(ev) \in FreeSlots(ev)
  BY <1>2 DEF findFreeEventIndex
<1> QED
  BY <1>1, <1>3 DEF FreeSlots, NO_TIMER_AVAILABLE

\* What Event::update does to the fields of an event.
LEMMA UpdateFields ==
  ASSUME NEW e \in Event, NEW t \in Millis
  PROVE  /\ FreeEvent \in Event /\ FreeEvent.eventType = EVENT_NONE
         /\ Retire(e) \in Event
         /\ Retire(e) = IF Exhausted(e) THEN FreeEvent ELSE e
         /\ Fired(e, t) \in Event
         /\ Fired(e, t).eventType = e.eventType
         /\ Fired(e, t).period = e.period
         /\ Fired(e, t).repeatCount = e.repeatCount
         /\ Fired(e, t).pin = e.pin
         /\ Fired(e, t).pinState = e.pinState
         /\ Fired(e, t).lastEventTime = t
         /\ Fired(e, t).count = ToInt(e.count + 1)
         /\ Toggle(e) \in Event
         /\ Toggle(e).eventType = e.eventType
         /\ Toggle(e).period = e.period
         /\ Toggle(e).repeatCount = e.repeatCount
         /\ Toggle(e).pin = e.pin
         /\ Toggle(e).pinState = 1 - e.pinState
         /\ Toggle(e).lastEventTime = e.lastEventTime
         /\ Toggle(e).count = e.count
<1>1. 0 \in Millis /\ 0 \in Int16
  BY SizesAssumption DEF Millis, Int16
<1>2. FreeEvent \in Event /\ FreeEvent.eventType = EVENT_NONE
  BY <1>1 DEF FreeEvent, Event, LOW, HIGH
<1>3. e.count \in Int16 /\ e.pinState \in {0, 1}
  BY DEF Event, LOW, HIGH
<1>4. ToInt(e.count + 1) \in Int16 /\ 1 - e.pinState \in {LOW, HIGH}
  BY <1>3, IntFacts DEF LOW, HIGH
<1>5. Fired(e, t) \in Event /\ Toggle(e) \in Event
  BY <1>4 DEF Fired, Toggle, Event
<1> QED
  BY <1>2, <1>5 DEF Fired, Toggle, Retire, Event

\* An event that function f has just made at time t, asked for n calls, with its
\* documented ending.
New(f, e, n, ending, t) ==
  /\ e \in Event
  /\ e.eventType /= EVENT_NONE
  /\ e.eventType = EVENT_OSCILLATE => e.pin \in Pins
  /\ e.period <= AgeMax /\ e.lastEventTime = t /\ e.count = 0
  /\ n \in Requests
  /\ n \in Int16 => e.repeatCount = n
  /\ n > INT_MAX => e.repeatCount < 0
  /\ ending \in {LOW, HIGH, NoGoal}
  /\ f \in {"every", "oscillate", "pulse", "pulseImmediate"}
  /\ f = "oscillate" =>
       e.eventType = EVENT_OSCILLATE /\ Even(e.repeatCount) /\ ending = e.pinState
  /\ f = "pulseImmediate" =>
       e.eventType = EVENT_OSCILLATE /\ e.repeatCount = 1 /\ ending = 1 - e.pinState

\* What the functions that use pins store.
NewPinEvents(pin, p, v, rc, t) ==
  LET o(n) == OscillateEvent(pin, p, v, n, t)
  IN  /\ New("oscillate", o(rc), rc * 2, v, t)
      /\ New("pulse", o(1), 2, 1 - v, t)
      /\ New("pulseImmediate", [o(1) EXCEPT !.repeatCount = 1], 1, 1 - v, t)
      /\ o(rc).pin = pin /\ o(rc).pinState = v
      /\ o(1).pin = pin /\ o(1).pinState = v

\* What every() and they store is new.
LEMMA NewEvents ==
  ASSUME NEW p \in Periods, NEW rc \in Int16, NEW t \in Millis
  PROVE  /\ \A cb \in Callbacks : New("every", EveryEvent(p, cb, rc, t), rc, NoGoal, t)
         /\ \A pin \in Pins, v \in {LOW, HIGH} : NewPinEvents(pin, p, v, rc, t)
<1>1. /\ p \in Millis /\ 0 \in Millis /\ 0 \in Int16 /\ 1 \in Int16
      /\ p <= AgeMax
  BY SizesAssumption, LongestPeriod DEF Millis, Int16
<1>2. ASSUME NEW cb \in Callbacks
      PROVE  New("every", EveryEvent(p, cb, rc, t), rc, NoGoal, t)
  BY <1>1, IntFacts DEF New, EveryEvent, FreeEvent, Event, EVENT_EVERY, EVENT_OSCILLATE,
              EVENT_NONE, LOW, HIGH
<1>3. ASSUME NEW pin \in Pins, NEW v \in {LOW, HIGH}, NEW n \in Int16
      PROVE  LET e == OscillateEvent(pin, p, v, n, t)
             IN  /\ e \in Event
                 /\ e.eventType = EVENT_OSCILLATE
                 /\ e.pin = pin /\ e.pinState = v /\ e.period = p
                 /\ e.lastEventTime = t /\ e.count = 0
                 /\ Even(e.repeatCount)
                 /\ n * 2 \in Requests
                 /\ n * 2 \in Int16 => e.repeatCount = n * 2
                 /\ n * 2 > INT_MAX => e.repeatCount < 0
  <2>1. /\ ToInt(n * 2) \in Int16 /\ Even(ToInt(n * 2))
        /\ n * 2 \in Requests
        /\ n * 2 \in Int16 => ToInt(n * 2) = n * 2
        /\ n * 2 > INT_MAX => ToInt(n * 2) < 0
    BY IntFacts, Parity
  <2> QED
    BY <1>1, <2>1 DEF OscillateEvent, FreeEvent, Event, EVENT_OSCILLATE
<1>4. ASSUME NEW e \in Event
      PROVE  /\ [e EXCEPT !.repeatCount = 1] \in Event
             /\ LET f == [e EXCEPT !.repeatCount = 1]
                IN  /\ f.eventType = e.eventType /\ f.pin = e.pin
                    /\ f.pinState = e.pinState /\ f.repeatCount = 1
                    /\ f.period = e.period
                    /\ f.lastEventTime = e.lastEventTime /\ f.count = e.count
  BY <1>1 DEF Event
<1>5. ASSUME NEW pin \in Pins, NEW v \in {LOW, HIGH}
      PROVE  NewPinEvents(pin, p, v, rc, t)
  <2> DEFINE o(n) == OscillateEvent(pin, p, v, n, t)
  <2>1. EVENT_OSCILLATE /= EVENT_NONE /\ 1 - v \in {LOW, HIGH}
    BY DEF EVENT_OSCILLATE, EVENT_NONE, LOW, HIGH
  <2>2. New("oscillate", o(rc), rc * 2, v, t) /\ o(rc).pin = pin /\ o(rc).pinState = v
    BY <1>1, <1>3, <2>1 DEF New
  <2>3. /\ o(1) \in Event /\ o(1).eventType = EVENT_OSCILLATE
        /\ o(1).pin = pin /\ o(1).pinState = v /\ o(1).period = p
        /\ o(1).lastEventTime = t /\ o(1).count = 0
        /\ 2 \in Requests
        /\ 2 \in Int16 => o(1).repeatCount = 2
        /\ 2 > INT_MAX => o(1).repeatCount < 0
    BY <1>1, <1>3
  <2>4. New("pulse", o(1), 2, 1 - v, t)
    BY <1>1, <2>1, <2>3 DEF New
  <2> HIDE DEF o
  <2>5. New("pulseImmediate", [o(1) EXCEPT !.repeatCount = 1], 1, 1 - v, t)
    <3>1. 1 \in Requests /\ ~ (1 > INT_MAX)
      BY <1>1, IntFacts
    <3> QED
      BY <1>1, <1>4, <2>1, <2>3, <3>1 DEF New
  <2> QED
    BY <2>2, <2>3, <2>4, <2>5 DEF o, NewPinEvents
<1> QED
  BY <1>2, <1>5

-----------------------------------------------------------------------------
(* The invariant holds initially and is kept by the counter *)

LEMMA InitIInv == Init => IInv
<1> SUFFICES ASSUME Init PROVE IInv
  OBVIOUS
<1>1. FreeEvent \in Event /\ FreeEvent.eventType = EVENT_NONE
  <2>1. 0 \in Millis /\ 0 \in Int16
    BY SizesAssumption DEF Millis, Int16
  <2> QED
    BY <2>1 DEF FreeEvent, Event, LOW, HIGH
<1>2. events \in [Slots -> Event] /\ \A i \in Slots : events[i].eventType = EVENT_NONE
  BY <1>1 DEF Init, NoEvents
<1>3. 0 \in Slots /\ 0 \in 0 .. AgeMax /\ 0 \in Int16 /\ 0 \in Requests
  BY SizesAssumption, LongestPeriod DEF Slots, Millis, Int16, Requests
<1>4. TypeOK
  BY <1>2, <1>3 DEF Init, TypeOK, LOW, HIGH, NoGoal, Requests
<1> QED
  BY <1>2, <1>4 DEF IInv, Live, EVENT_NONE, EVENT_OSCILLATE

LEMMA TickKeepsIInv ==
  ASSUME IInv, Tick
  PROVE  IInv'
<1> USE DEF IInv
<1>1. /\ AgeMax \in Nat /\ clock \in Millis /\ now \in Millis
      /\ clock' = Advance(clock, 1) /\ clock' \in Millis
      /\ age \in [Slots -> 0 .. AgeMax]
  BY LongestPeriod, SinceFacts DEF Tick, TypeOK, Millis
<1>2. \A i \in Slots : /\ age'[i] \in 0 .. AgeMax
                       /\ age'[i] >= Capped(age[i] + 1)
                       /\ age'[i] >= age[i]
  BY <1>1 DEF Tick, Capped
<1>3. TypeOK'
  BY <1>1, <1>2 DEF Tick, TypeOK, control
<1>4. UNCHANGED <<events, phase, slot, now, asked, fired, maker, goal, inPass, reused>>
  BY DEF Tick, control
<1>5. ASSUME NEW i \in Live(events) \ reused
      PROVE  Aged(i)'
  <2>0. PICK last : last = IF InCall(i) THEN now ELSE events[i].lastEventTime
    OBVIOUS
  <2>1. i \in Slots /\ Aged(i) /\ last \in Millis
    BY <2>0 DEF Live, TypeOK, Event
  <2>2. /\ Since(clock, last) \in Nat /\ Since(clock', last) \in Nat
        /\ Since(clock', last) <= Since(clock, last) + 1
    <3>1. /\ Since(clock, last) \in Millis /\ Since(clock', last) \in Millis
          /\ Since(clock', last) <= Since(clock, last) + 1
      BY <1>1, <2>1, SinceFacts
    <3> QED
      BY <3>1, SizesAssumption DEF Millis
  <2>3. age[i] \in Nat /\ age'[i] \in Nat
    BY <1>1, <1>2, <2>1
  <2>4. age'[i] >= Capped(Since(clock', last))
    BY <1>1, <1>2, <2>0, <2>1, <2>2, <2>3 DEF Aged, Capped
  <2>5. Since(now, last) \in Nat
    <3>1. Since(now, last) \in Millis
      BY <1>1, <2>1, SinceFacts
    <3> QED
      BY <3>1, SizesAssumption DEF Millis
  <2>6. phase /= "loop" /\ i \notin inPass => age'[i] >= Capped(Since(now, last))
    BY <1>1, <1>2, <2>0, <2>1, <2>3, <2>5 DEF Aged, Capped
  <2> QED
    BY <1>4, <2>0, <2>4, <2>6 DEF Aged, InCall
<1>6. \A i \in Live(events) \ reused : Counted(i)' /\ Cycled(i)'
  BY <1>4 DEF Counted, Cycled, InCall
<1> QED
  BY <1>3, <1>4, <1>5, <1>6 DEF Live

-----------------------------------------------------------------------------
(* What the sketch calls *)

\* Storing a new event keeps the invariant, wherever update() is.
LEMMA ArmsKeepsIInv ==
  ASSUME IInv, ClientRuns, NEW f, NEW e, NEW n, NEW ending,
         New(f, e, n, ending, clock),
         Arms(f, e, n, ending), level' \in [Pins -> {LOW, HIGH}]
  PROVE  IInv'
<1> USE DEF IInv
<1>0. PICK new : new = findFreeEventIndex(events)
  OBVIOUS
<1>1. CASE FreeSlots(events) = {}
  <2>1. new = NO_TIMER_AVAILABLE
    BY <1>0, <1>1 DEF findFreeEventIndex
  <2>2. UNCHANGED <<events, clock, phase, slot, now, age, asked, fired, maker, goal,
                    inPass, reused>>
    BY <1>0, <1>1, <2>1 DEF Arms, Arm, control, ghosts
  <2>3. TypeOK'
    BY <2>2 DEF TypeOK
  <2> QED
    BY <2>2, <2>3 DEF Live, Aged, Counted, Cycled, InCall
<1>2. CASE FreeSlots(events) /= {}
  <2>1. new \in Slots /\ new \notin Live(events) /\ new /= NO_TIMER_AVAILABLE
    BY <1>0, <1>2, FreeIndex
  <2>2. /\ events' = [events EXCEPT ![new] = e]
        /\ age' = [age EXCEPT ![new] = 0]
        /\ asked' = [asked EXCEPT ![new] = n]
        /\ fired' = [fired EXCEPT ![new] = 0]
        /\ maker' = [maker EXCEPT ![new] = f]
        /\ goal' = [goal EXCEPT ![new] = ending]
        /\ inPass' = IF phase = "callback" THEN inPass \cup {new} ELSE inPass
        /\ reused' = IF phase = "callback" /\ new = slot THEN reused \cup {new}
                     ELSE reused \ {new}
        /\ UNCHANGED <<clock, phase, slot, now>>
    BY <1>0, <1>2, <2>1 DEF Arms, Arm, control
  <2>3. TypeOK'
    <3>1. 0 \in 0 .. AgeMax /\ 0 \in Int16
      BY LongestPeriod, SizesAssumption DEF Millis, Int16
    <3> QED
      BY <2>1, <2>2, <3>1 DEF TypeOK, New, Requests
  <2>4. \A i \in Slots : events'[i].eventType = EVENT_OSCILLATE => events'[i].pin \in Pins
    BY <2>1, <2>2 DEF TypeOK, New
  <2>5. ASSUME NEW i \in Live(events)' \ reused', i /= new
        PROVE  Aged(i)' /\ Counted(i)' /\ Cycled(i)'
    <3>1. i \in Live(events) \ reused
      BY <2>1, <2>2, <2>5 DEF Live, TypeOK
    <3>2. /\ events'[i] = events[i] /\ age'[i] = age[i] /\ fired'[i] = fired[i]
          /\ asked'[i] = asked[i] /\ maker'[i] = maker[i] /\ goal'[i] = goal[i]
          /\ i \in inPass' <=> i \in inPass
      BY <2>1, <2>2, <2>5, <3>1 DEF Live, TypeOK
    <3> QED
      BY <2>2, <3>1, <3>2 DEF Aged, Counted, Cycled, InCall
  <2>6. ASSUME new \notin reused'
        PROVE  Aged(new)' /\ Counted(new)' /\ Cycled(new)'
    <3>1. ~InCall(new)' /\ e.repeatCount \in Int
      <4>1. ~InCall(new)'
        BY <2>2, <2>6 DEF InCall
      <4>2. e.repeatCount \in Int
        BY SizesAssumption DEF New, Event, Int16
      <4> QED
        BY <4>1, <4>2
    <3>2. /\ events'[new] = e /\ age'[new] = 0 /\ fired'[new] = 0
          /\ asked'[new] = n /\ maker'[new] = f /\ goal'[new] = ending
      BY <2>1, <2>2 DEF TypeOK
    <3>3. phase /= "loop" => new \in inPass'
      BY <2>2 DEF ClientRuns
    <3>4. Aged(new)'
      <4>1. Since(clock, clock) = 0 /\ AgeMax \in Nat
        BY SinceFacts, LongestPeriod DEF TypeOK, Millis
      <4>2. 0 >= Capped(0)
        BY <4>1 DEF Capped
      <4> QED
        BY <2>2, <3>1, <3>2, <3>3, <4>1, <4>2 DEF Aged, New
    <3>5. Counted(new)'
      BY <3>1, <3>2 DEF Counted, New
    <3>6. Cycled(new)'
      <4>1. e.pinState \in {LOW, HIGH} /\ Even(0)
        BY DEF New, Event, Even
      <4>2. f = "oscillate" => f /= "pulseImmediate"
        OBVIOUS
      <4> QED
        BY <3>1, <3>2, <4>1, <4>2 DEF Cycled, New
    <3> QED
      BY <3>4, <3>5, <3>6
  <2> QED
    BY <2>3, <2>4, <2>5, <2>6
<1> QED
  BY <1>1, <1>2

\* Stopping an event keeps the invariant, also the one whose callback runs.
LEMMA StopKeepsIInv ==
  ASSUME IInv, NEW id, Stop(id)
  PROVE  IInv'
<1> USE DEF IInv
<1>1. FreeEvent \in Event /\ FreeEvent.eventType = EVENT_NONE
  <2>1. 0 \in Millis /\ 0 \in Int16
    BY SizesAssumption DEF Millis, Int16
  <2> QED
    BY <2>1 DEF FreeEvent, Event, LOW, HIGH
<1>2. /\ events' \in [Slots -> Event]
      /\ \A i \in Slots : events'[i] = events[i] \/ events'[i] = FreeEvent
  BY <1>1 DEF Stop, stop, TypeOK
<1>3. UNCHANGED <<clock, level, phase, slot, now, age, asked, fired, maker, goal,
                  inPass, reused>>
  BY DEF Stop, control, ghosts
<1>4. TypeOK'
  BY <1>2, <1>3 DEF TypeOK
<1>5. EVENT_OSCILLATE /= EVENT_NONE
  BY DEF EVENT_OSCILLATE, EVENT_NONE
<1>6. \A i \in Live(events)' : i \in Live(events) /\ events'[i] = events[i]
  BY <1>1, <1>2 DEF Live
<1>7. \A i \in Live(events)' \ reused' : Aged(i)' /\ Counted(i)' /\ Cycled(i)'
  BY <1>3, <1>6 DEF Aged, Counted, Cycled, InCall
<1> QED
  BY <1>1, <1>2, <1>4, <1>5, <1>7

-----------------------------------------------------------------------------
(* Timer::update *)

\* A new pass sees every event that is pending, also those armed meanwhile.
LEMMA BeginKeepsIInv ==
  ASSUME IInv, BeginUpdate
  PROVE  IInv'
<1> USE DEF IInv
<1>1. /\ UNCHANGED <<events, clock, level, age, asked, fired, maker, goal, reused>>
      /\ phase = "loop" /\ phase' = "scan"
      /\ slot' = 0 /\ now' = clock /\ inPass' = {}
  BY DEF BeginUpdate
<1>2. 0 \in Slots
  BY SizesAssumption DEF Slots
<1>3. TypeOK'
  BY <1>1, <1>2 DEF TypeOK
<1>4. ASSUME NEW i \in Live(events) \ reused
      PROVE  Aged(i)' /\ Counted(i)' /\ Cycled(i)'
  <2>1. Aged(i) /\ Counted(i) /\ Cycled(i) /\ ~InCall(i) /\ ~InCall(i)'
    BY <1>1 DEF InCall
  <2> QED
    BY <1>1, <2>1 DEF Aged, Counted, Cycled
<1> QED
  BY <1>1, <1>3, <1>4 DEF Live

\* Going on to the next slot keeps control well typed.
LEMMA NextSlotTypes ==
  ASSUME slot \in Slots, NextSlot
  PROVE  slot' \in Slots /\ phase' \in {"loop", "scan"} /\ UNCHANGED now
  BY SizesAssumption DEF NextSlot, Slots

\* A step of update() keeps what it says about an event it leaves alone.
LEMMA Kept ==
  ASSUME IInv, NEW i \in Live(events) \ reused, ~InCall(i), ~InCall(i)',
         phase /= "loop", UNCHANGED <<clock, now, asked, maker, goal, inPass>>,
         events'[i] = events[i], age'[i] = age[i], fired'[i] = fired[i]
  PROVE  Aged(i)' /\ Counted(i)' /\ Cycled(i)'
<1>1. Aged(i) /\ Counted(i) /\ Cycled(i)
  BY DEF IInv
<1> QED
  BY <1>1 DEF Aged, Counted, Cycled

LEMMA SkipKeepsIInv ==
  ASSUME IInv, NEW s \in Slots, SkipSlot(s)
  PROVE  IInv'
<1> USE DEF IInv
<1>1. /\ events \in [Slots -> Event] /\ phase = "scan" /\ slot = s
      /\ UNCHANGED <<clock, level, now, age, asked, fired, maker, goal, inPass, reused>>
      /\ slot' \in Slots /\ phase' \in {"loop", "scan"}
  BY NextSlotTypes DEF SkipSlot, Visits, ghosts, TypeOK
<1>2. /\ FreeEvent \in Event /\ FreeEvent.eventType = EVENT_NONE
      /\ \A i \in Slots : events'[i] = events[i] \/ events'[i] = FreeEvent
      /\ events' \in [Slots -> Event]
  <2>1. /\ FreeEvent \in Event /\ FreeEvent.eventType = EVENT_NONE
        /\ Retire(events[s]) \in {events[s], FreeEvent}
    BY <1>1, UpdateFields DEF TypeOK
  <2> QED
    BY <1>1, <2>1 DEF SkipSlot
<1>3. TypeOK'
  BY <1>1, <1>2 DEF TypeOK
<1>4. EVENT_OSCILLATE /= EVENT_NONE
  BY DEF EVENT_OSCILLATE, EVENT_NONE
<1>5. \A i \in Live(events)' : i \in Live(events) /\ events'[i] = events[i]
  BY <1>2 DEF Live
<1>6. ASSUME NEW i \in Live(events)' \ reused'
      PROVE  Aged(i)' /\ Counted(i)' /\ Cycled(i)'
  <2>1. i \in Live(events) \ reused /\ events'[i] = events[i]
    BY <1>1, <1>5
  <2>2. ~InCall(i) /\ ~InCall(i)'
    BY <1>1 DEF InCall
  <2> QED
    BY <1>1, <2>1, <2>2, Kept
<1> QED
  BY <1>2, <1>3, <1>4, <1>6

\* When event s fires, its next period begins at now.
LEMMA FiresFacts ==
  ASSUME IInv, NEW s \in Slots, Fires(s)
  PROVE  /\ age' = [age EXCEPT ![s] = Capped(Since(clock, now))]
         /\ age' \in [Slots -> 0 .. AgeMax]
         /\ fired' \in [Slots -> Int16]
         /\ fired'[s] = ToInt(fired[s] + 1)
         /\ Capped(Since(clock, now)) \in Nat
         /\ Capped(Since(clock, now)) >= Capped(Since(now, now))
<1> USE DEF IInv, TypeOK
<1>1. /\ Since(clock, now) \in Nat /\ Since(now, now) = 0 /\ AgeMax \in Nat
      /\ ToInt(fired[s] + 1) \in Int16
  <2>1. Since(clock, now) \in Millis /\ Since(now, now) = 0 /\ AgeMax \in Millis
    BY SinceFacts, LongestPeriod
  <2>2. fired[s] \in Int16
    OBVIOUS
  <2> QED
    BY <2>1, <2>2, IntFacts, SizesAssumption DEF Millis
<1>2. /\ Capped(Since(clock, now)) \in 0 .. AgeMax
      /\ Capped(Since(clock, now)) >= Capped(Since(now, now))
  BY <1>1 DEF Capped
<1> QED
  BY <1>1, <1>2 DEF Fires, Capped

LEMMA ToggleKeepsIInv ==
  ASSUME IInv, NEW s \in Slots, TogglePin(s)
  PROVE  IInv'
<1> USE DEF IInv
<1> DEFINE e == Fired(Toggle(events[s]), now)
<1>1. /\ events \in [Slots -> Event] /\ phase = "scan" /\ slot = s
      /\ UNCHANGED <<clock, now, asked, maker, goal, inPass, reused>>
      /\ slot' \in Slots /\ phase' \in {"loop", "scan"}
      /\ now \in Millis /\ events[s] \in Event
  BY NextSlotTypes DEF TogglePin, Visits, TypeOK
<1>2. /\ Toggle(events[s]) \in Event
      /\ Toggle(events[s]).eventType = EVENT_OSCILLATE
      /\ e \in Event /\ e.eventType = EVENT_OSCILLATE
      /\ e.pin = events[s].pin /\ e.pinState = 1 - events[s].pinState
      /\ e.period = events[s].period
      /\ e.repeatCount = events[s].repeatCount
      /\ e.lastEventTime = now /\ e.count = ToInt(events[s].count + 1)
      /\ FreeEvent \in Event /\ FreeEvent.eventType = EVENT_NONE
      /\ Retire(e) = IF Exhausted(e) THEN FreeEvent ELSE e
      /\ events[s].eventType = EVENT_OSCILLATE
  <2>1. Toggle(events[s]) \in Event /\ Toggle(events[s]).eventType = EVENT_OSCILLATE
    BY <1>1, UpdateFields DEF TogglePin
  <2>2. e \in Event
    BY <1>1, <2>1, UpdateFields
  <2> QED
    BY <1>1, <2>1, <2>2, UpdateFields
<1> HIDE DEF e
<1>3. /\ events' = [events EXCEPT ![s] = Retire(e)]
      /\ level' = [level EXCEPT ![e.pin] = e.pinState]
      /\ Fires(s)
  <2>1. Toggle(events[s]).pin = e.pin /\ Toggle(events[s]).pinState = e.pinState
    BY <1>1, <1>2, UpdateFields
  <2> QED
    BY <2>1 DEF TogglePin, e
<1>4. TypeOK'
  <2>1. e.pinState \in {LOW, HIGH}
    BY <1>2 DEF Event
  <2>2. Retire(e) \in Event
    BY <1>2
  <2> QED
    BY <1>1, <1>3, <2>1, <2>2, FiresFacts DEF TypeOK
<1>5. \A i \in Slots : events'[i].eventType = EVENT_OSCILLATE => events'[i].pin \in Pins
  BY <1>1, <1>2, <1>3 DEF EVENT_OSCILLATE, EVENT_NONE
<1>6. ASSUME NEW i \in Live(events)' \ reused', i /= s
      PROVE  Aged(i)' /\ Counted(i)' /\ Cycled(i)'
  <2>1. /\ i \in Live(events) \ reused /\ events'[i] = events[i]
        /\ age'[i] = age[i] /\ fired'[i] = fired[i]
    BY <1>1, <1>3, <1>6 DEF Live, Fires, TypeOK
  <2>2. ~InCall(i) /\ ~InCall(i)'
    BY <1>1 DEF InCall
  <2> QED
    BY <1>1, <2>1, <2>2, Kept
<1>7. ASSUME s \in Live(events)' \ reused'
      PROVE  Aged(s)' /\ Counted(s)' /\ Cycled(s)'
  <2>1. /\ events'[s] = e /\ ~Exhausted(e)
    BY <1>1, <1>2, <1>3, <1>7 DEF Live
  <2>2. ~InCall(s) /\ ~InCall(s)' /\ s \in Live(events) \ reused
    BY <1>1, <1>2, <1>7 DEF InCall, Live, EVENT_OSCILLATE, EVENT_NONE
  <2>3. Aged(s)'
    <3>1. age'[s] = Capped(Since(clock, now))
      BY <1>3, FiresFacts DEF TypeOK
    <3> QED
      BY <1>1, <1>2, <1>3, <2>1, <2>2, <3>1, FiresFacts DEF Aged, Capped
  <2>4. Counted(s) /\ Cycled(s)
    BY <2>2
  <2>5. e.count \in Int /\ e.repeatCount \in Int
    BY <1>2, SizesAssumption DEF Event, Int16
  <2>6. Counted(s)'
    <3>1. fired'[s] = e.count
      BY <1>2, <1>3, <2>2, <2>4, FiresFacts DEF Counted
    <3>2. e.repeatCount > 0 => e.count < e.repeatCount
      BY <2>1, <2>5 DEF Exhausted
    <3> QED
      BY <1>1, <1>2, <2>1, <2>2, <2>4, <3>1, <3>2 DEF Counted
  <2>7. Cycled(s)'
    <3>1. events[s].count \in Int16 /\ events[s].pinState \in {LOW, HIGH}
      BY <1>1 DEF Event
    <3>2. Even(e.count) <=> ~Even(events[s].count)
      BY <1>2, <3>1, Parity
    <3>3. maker[s] /= "pulseImmediate"
      <4> SUFFICES ASSUME maker[s] = "pulseImmediate" PROVE FALSE
        OBVIOUS
      <4>1. e.repeatCount = 1 /\ e.count = 1
        BY <1>2, <2>4, <3>1, SizesAssumption DEF Cycled, ToInt
      <4> QED
        BY <2>1, <4>1 DEF Exhausted
    <3>4. maker[s] = "oscillate" =>
            /\ goal[s] \in {LOW, HIGH} /\ Even(e.repeatCount)
            /\ e.pinState = goal[s] <=> Even(e.count)
      BY <1>2, <2>4, <3>1, <3>2 DEF Cycled, LOW, HIGH
    <3> QED
      BY <1>1, <1>2, <2>1, <2>2, <3>3, <3>4 DEF Cycled
  <2> QED
    BY <2>3, <2>6, <2>7
<1> QED
  BY <1>4, <1>5, <1>6, <1>7

\* While its callback runs, an event counts as called and as called at now.
LEMMA CallKeepsIInv ==
  ASSUME IInv, NEW s \in Slots, CallCallback(s)
  PROVE  IInv'
<1> USE DEF IInv
<1>1. /\ events \in [Slots -> Event] /\ phase = "scan" /\ slot = s
      /\ events[s].eventType = EVENT_EVERY /\ phase' = "callback" /\ Fires(s)
      /\ UNCHANGED <<events, clock, level, slot, now, asked, maker, goal, inPass,
                   reused>>
  BY DEF CallCallback, Visits, TypeOK
<1>2. TypeOK'
  BY <1>1, FiresFacts DEF TypeOK
<1>3. ASSUME NEW i \in Live(events) \ reused, i /= s
      PROVE  Aged(i)' /\ Counted(i)' /\ Cycled(i)'
  <2>1. age'[i] = age[i] /\ fired'[i] = fired[i] /\ events'[i] = events[i]
    BY <1>1, <1>3 DEF Live, Fires, TypeOK
  <2>2. ~InCall(i) /\ ~InCall(i)'
    BY <1>1, <1>3 DEF InCall
  <2> QED
    BY <1>1, <2>1, <2>2, Kept
<1>4. ASSUME s \in Live(events) \ reused
      PROVE  Aged(s)' /\ Counted(s)' /\ Cycled(s)'
  <2>1. ~InCall(s) /\ InCall(s)' /\ Aged(s) /\ Counted(s) /\ Cycled(s)
    BY <1>1, <1>4 DEF InCall
  <2>2. age'[s] = Capped(Since(clock, now)) /\ events[s].period <= AgeMax
    BY <1>1, <2>1, FiresFacts DEF TypeOK, Aged
  <2>3. Aged(s)'
    BY <1>1, <2>1, <2>2, FiresFacts DEF Aged, Capped
  <2>4. Counted(s)'
    BY <1>1, <2>1, FiresFacts DEF Counted
  <2>5. Cycled(s)'
    BY <1>1, <2>1 DEF Cycled
  <2> QED
    BY <2>3, <2>4, <2>5
<1> QED
  BY <1>1, <1>2, <1>3, <1>4 DEF Live

\* update() goes on with what its slot holds when the callback returns.
LEMMA ReturnKeepsIInv ==
  ASSUME IInv, CallbackReturns
  PROVE  IInv'
<1> USE DEF IInv
<1>0. PICK s : s = slot
  OBVIOUS
<1> DEFINE e == Fired(events[s], now)
<1>1. /\ events \in [Slots -> Event] /\ phase = "callback" /\ s \in Slots
      /\ UNCHANGED <<clock, level, now, age, asked, fired, maker, goal, inPass, reused>>
      /\ slot' \in Slots /\ phase' \in {"loop", "scan"}
      /\ now \in Millis /\ events[s] \in Event
      /\ events' = [events EXCEPT ![s] = IF s \in Live(events) THEN Retire(e) ELSE @]
  BY <1>0, NextSlotTypes DEF CallbackReturns, TypeOK, ghosts
<1>2. /\ e \in Event /\ e.eventType = events[s].eventType
      /\ e.pin = events[s].pin /\ e.pinState = events[s].pinState
      /\ e.period = events[s].period
      /\ e.repeatCount = events[s].repeatCount
      /\ e.lastEventTime = now /\ e.count = ToInt(events[s].count + 1)
      /\ FreeEvent \in Event /\ FreeEvent.eventType = EVENT_NONE
      /\ Retire(e) = IF Exhausted(e) THEN FreeEvent ELSE e
  <2>1. e \in Event
    BY <1>1, UpdateFields
  <2> QED
    BY <1>1, <2>1, UpdateFields
<1> HIDE DEF e
<1>3. TypeOK'
  BY <1>1, <1>2 DEF TypeOK
<1>4. \A i \in Slots : events'[i].eventType = EVENT_OSCILLATE => events'[i].pin \in Pins
  BY <1>1, <1>2 DEF EVENT_OSCILLATE, EVENT_NONE
<1>5. ASSUME NEW i \in Live(events)' \ reused', i /= s
      PROVE  Aged(i)' /\ Counted(i)' /\ Cycled(i)'
  <2>1. i \in Live(events) \ reused /\ events'[i] = events[i]
    BY <1>1, <1>5 DEF Live
  <2>2. ~InCall(i) /\ ~InCall(i)'
    BY <1>0, <1>1, <1>5 DEF InCall
  <2> QED
    BY <1>1, <2>1, <2>2, Kept
<1>6. ASSUME s \in Live(events)' \ reused'
      PROVE  Aged(s)' /\ Counted(s)' /\ Cycled(s)'
  <2>1. s \in Live(events) \ reused /\ events'[s] = e /\ ~Exhausted(e)
    BY <1>1, <1>2, <1>6 DEF Live
  <2>2. InCall(s) /\ ~InCall(s)' /\ Aged(s) /\ Counted(s) /\ Cycled(s)
    BY <1>0, <1>1, <2>1 DEF InCall
  <2>3. Aged(s)'
    BY <1>1, <1>2, <2>1, <2>2 DEF Aged, Capped
  <2>4. Counted(s)'
    <3>1. fired[s] = e.count
      BY <1>2, <2>2 DEF Counted
    <3>2. e.count \in Int /\ e.repeatCount \in Int
      BY <1>2, SizesAssumption DEF Event, Int16
    <3>3. e.repeatCount > 0 => e.count < e.repeatCount
      BY <2>1, <3>2 DEF Exhausted
    <3> QED
      BY <1>1, <1>2, <2>1, <2>2, <3>1, <3>3 DEF Counted
  <2>5. Cycled(s)'
    BY <1>1, <1>2, <2>1, <2>2 DEF Cycled, EVENT_EVERY, EVENT_OSCILLATE
  <2> QED
    BY <2>3, <2>4, <2>5
<1> QED
  BY <1>3, <1>4, <1>5, <1>6

-----------------------------------------------------------------------------
(* The theorems *)

\* Each operation the sketch may call keeps the invariant.
LEMMA ClientKeepsIInv ==
  ASSUME IInv, Client
  PROVE  IInv'
<1>1. clock \in Millis /\ level \in [Pins -> {LOW, HIGH}]
  BY DEF IInv, TypeOK
<1>2. ASSUME NEW p \in Periods, NEW cb \in Callbacks, NEW rc \in RepeatCounts,
             every(p, cb, rc)
      PROVE  IInv'
  <2>1. New("every", EveryEvent(p, cb, rc, clock), rc, NoGoal, clock)
    BY <1>1, NewEvents, ClientAssumption
  <2> QED
    BY <1>1, <1>2, <2>1, ArmsKeepsIInv DEF every
<1>3. ASSUME NEW f, NEW e, NEW n, NEW ending,
         New(f, e, n, ending, clock),
             StartsPin(f, e, n, ending)
      PROVE  IInv'
  <2>1. e.pinState \in {LOW, HIGH}
    BY <1>3 DEF New, Event
  <2>2. level' \in [Pins -> {LOW, HIGH}]
    BY <1>1, <1>3, <2>1 DEF StartsPin
  <2> QED
    BY <1>3, <2>2, ArmsKeepsIInv DEF StartsPin
<1>4. ASSUME NEW pin \in Pins, NEW p \in Periods, NEW v \in {LOW, HIGH},
             \/ \E rc \in RepeatCounts : oscillate(pin, p, v, rc)
             \/ pulse(pin, p, v)
             \/ pulseImmediate(pin, p, v)
      PROVE  IInv'
  <2>0. \A rc \in Int16 : NewPinEvents(pin, p, v, rc, clock)
    BY <1>1, NewEvents
  <2>1. CASE \E rc \in RepeatCounts : oscillate(pin, p, v, rc)
    <3>1. PICK rc \in RepeatCounts : oscillate(pin, p, v, rc)
      BY <2>1
    <3>2. rc \in Int16
      BY ClientAssumption
    <3>3. New("oscillate", OscillateEvent(pin, p, v, rc, clock), rc * 2, v, clock)
      BY <2>0, <3>2 DEF NewPinEvents
    <3> QED
      BY <1>3, <3>1, <3>3 DEF oscillate
  <2>2. 0 \in Int16
    BY SizesAssumption DEF Int16
  <2>3. CASE pulse(pin, p, v)
    <3>1. New("pulse", OscillateEvent(pin, p, v, 1, clock), 2, 1 - v, clock)
      BY <2>0, <2>2 DEF NewPinEvents
    <3> QED
      BY <1>3, <2>3, <3>1 DEF pulse
  <2>4. CASE pulseImmediate(pin, p, v)
    <3>1. New("pulseImmediate", [OscillateEvent(pin, p, v, 1, clock)
                                   EXCEPT !.repeatCount = 1], 1, 1 - v, clock)
      BY <2>0, <2>2 DEF NewPinEvents
    <3> QED
      BY <1>3, <2>4, <3>1 DEF pulseImmediate
  <2> QED
    BY <1>4, <2>1, <2>3, <2>4
<1> QED
  BY <1>2, <1>4, StopKeepsIInv DEF Client

LEMMA StepKeepsIInv == IInv /\ [Next]_vars => IInv'
<1> SUFFICES ASSUME IInv, [Next]_vars PROVE IInv'
  OBVIOUS
<1>1. CASE Tick
  BY <1>1, TickKeepsIInv
<1>2. CASE Client
  BY <1>2, ClientKeepsIInv
<1>3. CASE BeginUpdate
  BY <1>3, BeginKeepsIInv
<1>4. CASE Scan
  BY <1>4, SkipKeepsIInv, ToggleKeepsIInv, CallKeepsIInv DEF Scan
<1>5. CASE CallbackReturns
  BY <1>5, ReturnKeepsIInv
<1>6. CASE UNCHANGED vars
  <2>1. UNCHANGED <<events, clock, level, phase, slot, now, age, asked, fired, maker,
                    goal, inPass, reused>>
    BY <1>6 DEF vars
  <2>2. TypeOK'
    BY <2>1 DEF IInv, TypeOK
  <2> QED
    BY <2>1, <2>2 DEF IInv, Live, Aged, Counted, Cycled, InCall
<1> QED
  BY <1>1, <1>2, <1>3, <1>4, <1>5, <1>6 DEF Next, UpdateStep

\* What update() takes for the age of an event, the calls it counts and the
\* levels it toggles agree with what has really happened, in every state.
THEOREM Invariance == Spec => []IInv
  BY InitIInv, StepKeepsIInv, PTL DEF Spec

\* The variables of the library and the client keep their types, whatever the
\* client arms and stops and however the counter and the counts overflow.
THEOREM TypeCorrect == Spec => []TypeOK
<1>1. IInv => TypeOK
  BY DEF IInv
<1> QED
  BY <1>1, Invariance, PTL

\* An event that is not armed during the pass, nor in the slot of the callback
\* that arms it, fires when its period is over and not before.
THEOREM NoEarlyFiring == Spec => EarlyOnlyInPass
<1>1. ASSUME IInv, NEW i \in Slots \ (inPass \cup reused), FiresNow(i)
      PROVE  age[i] >= events[i].period
  <2>1. /\ phase = "scan" /\ Due(events[i], now) /\ i \in Live(events)
        /\ events[i] \in Event /\ now \in Millis
    <3>1. CASE TogglePin(i)
      <4>1. events[i] \in Event /\ now \in Millis
        BY <1>1 DEF IInv, TypeOK
      <4>2. /\ Toggle(events[i]).eventType = events[i].eventType
            /\ Toggle(events[i]).period = events[i].period
            /\ Toggle(events[i]).lastEventTime = events[i].lastEventTime
        BY <4>1, UpdateFields
      <4> QED
        BY <1>1, <3>1, <4>1, <4>2 DEF TogglePin, Visits, Due, Live, EVENT_OSCILLATE,
           EVENT_NONE
    <3>2. CASE CallCallback(i)
      BY <1>1, <3>2 DEF CallCallback, Visits, Live, EVENT_EVERY, EVENT_NONE,
         IInv, TypeOK
    <3> QED
      BY <1>1, <3>1, <3>2 DEF FiresNow
  <2>2. /\ events[i].period <= AgeMax
        /\ age[i] >= Capped(Since(now, events[i].lastEventTime))
    BY <1>1, <2>1 DEF IInv, Aged, InCall
  <2>3. Since(now, events[i].lastEventTime) >= events[i].period
    BY <2>1 DEF Due
  <2>4. /\ age[i] \in Int /\ events[i].period \in Int /\ AgeMax \in Int
        /\ Since(now, events[i].lastEventTime) \in Int
    <3>1. /\ events[i].lastEventTime \in Millis /\ events[i].period \in Millis
          /\ AgeMax \in Millis /\ age[i] \in 0 .. AgeMax
      BY <1>1, <2>1, LongestPeriod DEF IInv, TypeOK, Event
    <3>2. Since(now, events[i].lastEventTime) \in Millis
      BY <2>1, <3>1, SinceFacts
    <3> QED
      BY <3>1, <3>2, SizesAssumption DEF Millis
  <2> QED
    BY <2>2, <2>3, <2>4 DEF Capped
<1>2. IInv => [\A i \in Slots \ (inPass \cup reused) :
                 FiresNow(i) => age[i] >= events[i].period]_vars
  BY <1>1
<1> QED
  BY <1>2, Invariance, PTL DEF EarlyOnlyInPass


\* When update() drops an event, it has made the calls it was asked to.
LEMMA DroppedByItsLastCall ==
  ASSUME IInv, NEW i \in Live(events), i \notin Live(events)', UpdateStep,
         i \notin reused, events[i].repeatCount /= 0
  PROVE  /\ fired'[i] = events[i].repeatCount
         /\ events[i].repeatCount > 0
         /\ TogglePin(i) => Toggle(events[i]).count + 1 = events[i].repeatCount
<1>1. /\ i \in Slots /\ events \in [Slots -> Event] /\ events[i] \in Event
      /\ events[i].eventType /= EVENT_NONE
      /\ now \in Millis /\ Counted(i) /\ fired \in [Slots -> Int16]
      /\ events[i].count \in Int16 /\ events[i].repeatCount \in Int16
  BY DEF IInv, TypeOK, Live, Event
<1>2. events'[i].eventType = EVENT_NONE
  BY <1>1 DEF Live
<1>3. ASSUME NEW e \in Event, Retire(e).eventType = EVENT_NONE, e.eventType /= EVENT_NONE,
             e.repeatCount = events[i].repeatCount
      PROVE  e.repeatCount > 0 /\ e.count >= e.repeatCount
  <2>1. Exhausted(e)
    BY <1>3 DEF Retire
  <2> QED
    BY <1>1, <1>3, <2>1, SizesAssumption DEF Exhausted, Int16
<1>4. ASSUME NEW e \in Event, Retire(e).eventType = EVENT_NONE, e.eventType /= EVENT_NONE,
             e.repeatCount = events[i].repeatCount,
             e.count = ToInt(events[i].count + 1)
      PROVE  /\ e.count = events[i].repeatCount
             /\ events[i].count + 1 = events[i].repeatCount
             /\ events[i].repeatCount > 0
  <2>1. e.repeatCount > 0 /\ e.count >= e.repeatCount
    BY <1>3, <1>4
  <2>2. events[i].count < events[i].repeatCount
    BY <1>1, <1>4, <2>1 DEF Counted
  <2>3. e.count = events[i].count + 1
    BY <1>1, <1>4, <2>2, SizesAssumption DEF Int16, ToInt
  <2> QED
    BY <1>1, <1>4, <2>1, <2>2, <2>3, SizesAssumption DEF Int16
<1>5. CASE BeginUpdate
  BY <1>1, <1>2, <1>5 DEF BeginUpdate
<1>6. ASSUME NEW s \in Slots, SkipSlot(s)
      PROVE  FALSE
  <2>1. i = s /\ Retire(events[i]).eventType = EVENT_NONE
    BY <1>1, <1>2, <1>6 DEF SkipSlot
  <2>2. events[i].repeatCount > 0 /\ events[i].count >= events[i].repeatCount
    BY <1>1, <1>3, <2>1
  <2> QED
    BY <1>1, <2>2, SizesAssumption DEF Counted, Int16
<1>7. ASSUME NEW s \in Slots, TogglePin(s)
      PROVE  /\ fired'[i] = events[i].repeatCount
             /\ events[i].repeatCount > 0
             /\ i = s
             /\ Toggle(events[i]).count + 1 = events[i].repeatCount
  <2>1. i = s
    BY <1>1, <1>2, <1>7 DEF TogglePin
  <2> DEFINE e == Fired(Toggle(events[i]), now)
  <2>2. /\ Toggle(events[i]) \in Event /\ Toggle(events[i]).count = events[i].count
        /\ Toggle(events[i]).eventType /= EVENT_NONE
        /\ Toggle(events[i]).repeatCount = events[i].repeatCount
    BY <1>1, UpdateFields
  <2>3. /\ e \in Event /\ e.eventType /= EVENT_NONE
        /\ e.repeatCount = events[i].repeatCount
        /\ e.count = ToInt(events[i].count + 1)
    BY <1>1, <2>2, UpdateFields
  <2>4. Retire(e).eventType = EVENT_NONE
    BY <1>1, <1>2, <1>7, <2>1 DEF TogglePin
  <2> HIDE DEF e
  <2>5. /\ e.count = events[i].repeatCount
        /\ events[i].count + 1 = events[i].repeatCount
        /\ events[i].repeatCount > 0
    BY <1>4, <2>3, <2>4
  <2>6. phase = "scan" /\ fired'[i] = ToInt(fired[i] + 1)
    BY <1>1, <1>7, <2>1, FiresFacts DEF TogglePin, Visits
  <2>7. fired'[i] = e.count
    BY <1>1, <2>3, <2>6 DEF Counted, InCall
  <2> QED
    BY <2>1, <2>2, <2>5, <2>7
<1>8. ASSUME NEW s \in Slots, CallCallback(s)
      PROVE  FALSE
  BY <1>1, <1>2, <1>8 DEF CallCallback
<1>9. CASE CallbackReturns
  <2>1. i = slot /\ phase = "callback" /\ fired' = fired
    BY <1>1, <1>2, <1>9 DEF CallbackReturns, ghosts
  <2> DEFINE e == Fired(events[i], now)
  <2>2. /\ e \in Event /\ e.eventType /= EVENT_NONE
        /\ e.repeatCount = events[i].repeatCount
        /\ e.count = ToInt(events[i].count + 1)
    BY <1>1, UpdateFields
  <2>3. Retire(e).eventType = EVENT_NONE
    BY <1>1, <1>2, <1>9, <2>1 DEF CallbackReturns
  <2> HIDE DEF e
  <2>4. e.count = events[i].repeatCount /\ events[i].repeatCount > 0
    BY <1>4, <2>2, <2>3
  <2>5. fired'[i] = events[i].repeatCount
    BY <1>1, <2>1, <2>2, <2>4 DEF Counted, InCall
  <2> QED
    BY <2>1, <2>4, <2>5 DEF TogglePin, Visits
<1> QED
  BY <1>5, <1>6, <1>7, <1>8, <1>9 DEF UpdateStep, Scan

\* A step of update() asks for nothing, and arms nothing.
LEMMA UpdateAsksNothing == UpdateStep => UNCHANGED <<asked, reused>>
  BY DEF UpdateStep, Scan, BeginUpdate, SkipSlot, TogglePin, CallCallback,
         CallbackReturns, ghosts

\* update() drops an event exactly when it has made the calls it was asked for,
\* and one that was asked for more than an int can count never.
THEOREM DroppedExactly == Spec => DroppedWhenDone
<1>1. ASSUME IInv, IInv', NEW i \in Live(events) \ reused,
             UpdateStep, phase' /= "callback"
      PROVE  /\ asked[i] \in Int16 \ {0} =>
                  (i \notin Live(events)' <=> asked[i] > 0 /\ fired'[i] = asked[i])
             /\ asked[i] > INT_MAX => i \in Live(events)'
  <2>1. /\ Counted(i) /\ asked[i] \in Int /\ INT_MAX \in Int
        /\ events[i].repeatCount \in Int16 /\ events[i].repeatCount \in Int
    BY <1>1, SizesAssumption DEF IInv, TypeOK, Live, Event, Int16
  <2>2. ASSUME i \notin Live(events)', asked[i] /= 0, asked[i] \in Int16
        PROVE  asked[i] > 0 /\ fired'[i] = asked[i]
    BY <1>1, <2>1, <2>2, DroppedByItsLastCall DEF Counted
  <2>3. ASSUME i \in Live(events)', asked[i] \in Int16, asked[i] > 0
        PROVE  fired'[i] /= asked[i]
    <3>1. Counted(i)' /\ asked'[i] = asked[i] /\ ~InCall(i)'
      BY <1>1, <2>3, UpdateAsksNothing DEF IInv, InCall
    <3>2. events'[i].count \in Int
      BY <1>1, <2>3, SizesAssumption DEF IInv, TypeOK, Live, Event, Int16
    <3> QED
      BY <2>1, <2>3, <3>1, <3>2 DEF Counted
  <2>4. ASSUME i \notin Live(events)', asked[i] > INT_MAX
        PROVE  FALSE
    <3>1. events[i].repeatCount < 0
      BY <2>1, <2>4 DEF Counted
    <3> QED
      BY <1>1, <2>1, <2>4, <3>1, DroppedByItsLastCall
  <2> QED
    BY <2>2, <2>3, <2>4
<1>2. IInv /\ IInv' =>
        [\A i \in Live(events) \ reused :
           UpdateStep /\ phase' /= "callback" =>
             /\ asked[i] \in Int16 \ {0} =>
                  (i \notin Live(events)' <=> asked[i] > 0 /\ fired'[i] = asked[i])
             /\ asked[i] > INT_MAX => i \in Live(events)']_vars
  BY <1>1
<1> QED
  BY <1>2, Invariance, PTL DEF DroppedWhenDone

\* oscillate() and pulseImmediate() leave their pin in the documented level.
THEOREM PinLeftAsDocumented == Spec => CyclesEnd
<1>1. ASSUME IInv, NEW i \in Live(events), LastToggle(i),
             maker[i] \in {"oscillate", "pulseImmediate"},
             i \notin reused, events[i].repeatCount /= 0
      PROVE  level'[events[i].pin] = goal[i]
  <2>1. /\ i \in Slots /\ events[i] \in Event /\ TogglePin(i) /\ i \notin Live(events)'
        /\ Cycled(i) /\ level \in [Pins -> {LOW, HIGH}]
        /\ now \in Millis
    BY <1>1 DEF IInv, TypeOK, Live, LastToggle
  <2>2. /\ Toggle(events[i]).pin = events[i].pin
        /\ Toggle(events[i]).pinState = 1 - events[i].pinState
        /\ Toggle(events[i]).count = events[i].count
        /\ Toggle(events[i]).eventType = events[i].eventType
    BY <2>1, UpdateFields
  <2>3. events[i].pin \in Pins
    BY <1>1, <2>1, <2>2 DEF IInv, TogglePin
  <2>4. level'[events[i].pin] = 1 - events[i].pinState
    BY <2>1, <2>2, <2>3 DEF TogglePin
  <2>5. events[i].count + 1 = events[i].repeatCount
    BY <1>1, <2>1, <2>2, DroppedByItsLastCall DEF UpdateStep, Scan
  <2>6. events[i].pinState \in {LOW, HIGH} /\ events[i].count \in Int16
    BY <2>1 DEF Event
  <2>7. CASE maker[i] = "oscillate"
    <3>1. ~Even(events[i].count)
      BY <2>1, <2>5, <2>6, <2>7, Parity DEF Cycled
    <3> QED
      BY <2>1, <2>4, <2>6, <2>7, <3>1 DEF Cycled, LOW, HIGH
  <2>8. CASE maker[i] = "pulseImmediate"
    BY <2>1, <2>4, <2>8 DEF Cycled
  <2> QED
    BY <1>1, <2>7, <2>8
<1>2. IInv => [\A i \in Live(events) :
                 /\ LastToggle(i) /\ maker[i] \in {"oscillate", "pulseImmediate"}
                 /\ i \notin reused /\ events[i].repeatCount /= 0
                 => level'[events[i].pin] = goal[i]]_vars
  BY <1>1
<1> QED
  BY <1>2, Invariance, PTL DEF CyclesEnd
=============================================================================
