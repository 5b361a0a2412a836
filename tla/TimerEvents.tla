----------------------------- MODULE TimerEvents -----------------------------
(***************************************************************************)
(* The Event objects of the Timer library (src/_libraries/Timer) and the   *)
(* operations Timer and Event define on them, as operators that take the   *)
(* array _events and return what it becomes.  The modules that own an      *)
(* array (Timer, DoorLock) say when each one is called.       *)
(*                                                                         *)
(* `unsigned long` counts modulo ULONG (2^32 on the board), `int` is       *)
(* two's complement with INT_MAX as its largest value (2^15 - 1).          *)
(***************************************************************************)
EXTENDS Integers

CONSTANTS
  MAX_NUMBER_OF_EVENTS,  \* length of _events
  ULONG,                 \* number of values of an unsigned long
  INT_MAX,               \* largest int
  Callbacks,             \* functions that are given to every() and after()
  Pins                   \* pins that are given to oscillate()

ASSUME SizesAssumption ==
  /\ MAX_NUMBER_OF_EVENTS \in Nat \ {0}
  /\ ULONG \in Nat \ {0}
  /\ INT_MAX \in Nat \ {0}

NO_TIMER_AVAILABLE == -1
EVENT_NONE         == "NONE"
EVENT_EVERY        == "EVERY"
EVENT_OSCILLATE    == "OSCILLATE"

NoCallback == "no callback"
NoPin      == "no pin"
LOW        == 0
HIGH       == 1

Slots  == 0 .. MAX_NUMBER_OF_EVENTS - 1
Millis == 0 .. ULONG - 1
Int16  == -(INT_MAX + 1) .. INT_MAX

Event ==
  [ eventType     : {EVENT_NONE, EVENT_EVERY, EVENT_OSCILLATE},
    period        : Millis,
    repeatCount   : Int16,
    pin           : Pins \cup {NoPin},
    pinState      : {LOW, HIGH},
    callback      : Callbacks \cup {NoCallback},
    lastEventTime : Millis,
    count         : Int16 ]

(***************************************************************************)
(* Only the type of a free Event is ever read, so its other fields are     *)
(* given one value.                                                        *)
(***************************************************************************)
FreeEvent ==
  [ eventType |-> EVENT_NONE, period |-> 0, repeatCount |-> 0,
    pin |-> NoPin, pinState |-> LOW, callback |-> NoCallback,
    lastEventTime |-> 0, count |-> 0 ]

NoEvents == [i \in Slots |-> FreeEvent]

(***************************************************************************)
(* Machine arithmetic: the difference of two unsigned longs, a clock that  *)
(* advances by less than a whole turn, and an int result that is at most   *)
(* one turn out of range.                                                  *)
(***************************************************************************)
Since(now, last) == IF now >= last THEN now - last ELSE now - last + ULONG
Advance(clock, d) == IF clock + d < ULONG THEN clock + d ELSE clock + d - ULONG
ToInt(n) == IF n > INT_MAX THEN n - 2 * (INT_MAX + 1)
            ELSE IF n < -(INT_MAX + 1) THEN n + 2 * (INT_MAX + 1)
            ELSE n

-----------------------------------------------------------------------------
(* Timer: allocation, arming and stopping *)

Live(ev)      == {i \in Slots : ev[i].eventType /= EVENT_NONE}
FreeSlots(ev) == Slots \ Live(ev)

findFreeEventIndex(ev) ==
  IF FreeSlots(ev) = {} THEN NO_TIMER_AVAILABLE
  ELSE CHOOSE i \in FreeSlots(ev) : \A j \in FreeSlots(ev) : i <= j

\* Fault: the time the event is due is stored instead of the time it was armed
EveryEventDueTime(period, callback, repeatCount, now) ==
  [FreeEvent EXCEPT !.eventType = EVENT_EVERY, !.period = period,
                    !.repeatCount = repeatCount, !.callback = callback,
                    !.lastEventTime = now + period]

EveryEvent(period, callback, repeatCount, now) ==
  [FreeEvent EXCEPT !.eventType = EVENT_EVERY, !.period = period,
                    !.repeatCount = repeatCount, !.callback = callback,
                    !.lastEventTime = now]

\* Fault: transitions are counted, not full cycles
OscillateTransitions(pin, period, startingValue, repeatCount, now) ==
  [FreeEvent EXCEPT !.eventType = EVENT_OSCILLATE, !.pin = pin,
                    !.period = period, !.pinState = startingValue,
                    !.repeatCount = repeatCount, !.lastEventTime = now]

OscillateEvent(pin, period, startingValue, repeatCount, now) ==
  [FreeEvent EXCEPT !.eventType = EVENT_OSCILLATE, !.pin = pin,
                    !.period = period, !.pinState = startingValue,
                    !.repeatCount = ToInt(repeatCount * 2),
                    !.lastEventTime = now]

\* every() and oscillate() store the event in the first free slot, if any
Arm(ev, event) ==
  IF FreeSlots(ev) = {} THEN ev
  ELSE [ev EXCEPT ![findFreeEventIndex(ev)] = event]

\* after(period, callback) is every(period, callback, 1)
after(ev, period, callback, now) == Arm(ev, EveryEvent(period, callback, 1, now))

stop(ev, id) == IF id \in Slots THEN [ev EXCEPT ![id] = FreeEvent] ELSE ev

-----------------------------------------------------------------------------
(* Event::update *)

\* Fault: the test without the subtraction
DueByDeadline(e, now) == now >= e.lastEventTime + e.period

\* Fault: a tick too soon
DueTooSoon(e, now) == Since(now, e.lastEventTime) + 1 >= e.period

Due(e, now) == Since(now, e.lastEventTime) >= e.period

\* Fault: one call too many
ExhaustedLate(e) == e.repeatCount > -1 /\ e.count > e.repeatCount

\* Fault: only -1 is taken for "forever"
ExhaustedUnlessForever(e) == e.repeatCount /= -1 /\ e.count >= e.repeatCount

Exhausted(e) == e.repeatCount > -1 /\ e.count >= e.repeatCount

\* what follows the switch when the event was due
Fired(e, now) == [e EXCEPT !.lastEventTime = now, !.count = ToInt(@ + 1)]

\* Fault: an event that is done is not freed
RetireNever(e) == e

Retire(e) == IF Exhausted(e) THEN FreeEvent ELSE e

Toggle(e) == [e EXCEPT !.pinState = 1 - @]
=============================================================================
