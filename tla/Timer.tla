--------------------------------- MODULE Timer ---------------------------------
(***************************************************************************)
(* The Timer library under a sketch that may do with it whatever its       *)
(* interface allows: arm, pulse and stop events from loop() and from the   *)
(* callbacks the library runs, while the millisecond counter ticks.        *)
(*                                                                         *)
(* Timer::update is not atomic here.  It reads millis() once, into now,    *)
(* and then visits the slots in order; between two visits, and during a    *)
(* callback, time passes, and a callback may change any slot, its own too. *)
(***************************************************************************)
EXTENDS TimerEvents

CONSTANTS
  Periods,       \* the periods and durations the sketch uses
  RepeatCounts,  \* the repeat counts it passes, -1 for "forever"
  GAP_MAX        \* the sketch starts t.update() at least this often

ASSUME ClientAssumption ==
  /\ Periods \subseteq Millis /\ Periods /= {}
  /\ RepeatCounts \subseteq Int16
  /\ GAP_MAX \in Nat
  /\ \A p \in Periods : p + GAP_MAX < ULONG

AgeMax == CHOOSE p \in Periods : \A q \in Periods : q <= p

VARIABLES
  events,  \* _events
  clock,   \* millis()
  level,   \* what was last written to each pin
  phase,   \* "loop": outside update(); "scan": about to visit slot;
           \* "callback": the callback of slot is running
  slot,    \* i in Timer::update
  now,     \* the parameter of Timer::update(now)
  age,     \* ghost: true time since each event was armed or last fired
  asked,   \* ghost: how often the client wants each event to fire
  fired,   \* ghost: how often each event fired since it was armed
  maker,   \* ghost: the function that armed each event
  goal,    \* ghost: the level its pin is documented to be left in
  inPass,  \* ghost: slots armed by a callback of the pass that is running
  reused   \* ghost: slots whose event was armed by the callback running there

vars == <<events, clock, level, phase, slot, now,
          age, asked, fired, maker, goal, inPass, reused>>
control == <<phase, slot, now>>
ghosts == <<age, asked, fired, maker, goal, inPass, reused>>

NoGoal == -1

Init ==
  /\ events = NoEvents
  /\ clock \in Millis
  /\ level = [p \in Pins |-> LOW]
  /\ phase = "loop"
  /\ slot = 0
  /\ now = clock
  /\ age = [i \in Slots |-> 0]
  /\ asked = [i \in Slots |-> 0]
  /\ fired = [i \in Slots |-> 0]
  /\ maker = [i \in Slots |-> "nobody"]
  /\ goal = [i \in Slots |-> NoGoal]
  /\ inPass = {}
  /\ reused = {}

\* The hardware counter, independent of what the sketch does
Tick ==
  /\ Since(clock, now) < GAP_MAX
  /\ clock' = Advance(clock, 1)
  /\ age' = [i \in Slots |-> IF age[i] < AgeMax THEN age[i] + 1 ELSE age[i]]
  /\ UNCHANGED <<events, level, control, asked, fired, maker, goal, inPass, reused>>

-----------------------------------------------------------------------------
(* What the sketch calls, from loop() or from a callback *)

ClientRuns == phase \in {"loop", "callback"}

\* event is stored by function f, which is asked for n calls or changes of the
\* pin and is documented to leave the pin at ending
Arms(f, event, n, ending) ==
  LET i == findFreeEventIndex(events)
  IN  /\ events' = Arm(events, event)
      /\ IF i = NO_TIMER_AVAILABLE THEN UNCHANGED ghosts
         ELSE /\ age' = [age EXCEPT ![i] = 0]
              /\ asked' = [asked EXCEPT ![i] = n]
              /\ fired' = [fired EXCEPT ![i] = 0]
              /\ maker' = [maker EXCEPT ![i] = f]
              /\ goal' = [goal EXCEPT ![i] = ending]
              /\ inPass' = IF phase = "callback" THEN inPass \cup {i} ELSE inPass
              /\ reused' = IF phase = "callback" /\ i = slot THEN reused \cup {i}
                           ELSE reused \ {i}
      /\ UNCHANGED <<clock, control>>

every(period, callback, repeatCount) ==
  /\ ClientRuns
  /\ Arms("every", EveryEvent(period, callback, repeatCount, clock),
          repeatCount, NoGoal)
  /\ UNCHANGED level

\* oscillate() and the functions built on it write the pin at once, but only
\* if there is a free event
StartsPin(f, event, n, ending) ==
  /\ ClientRuns
  /\ Arms(f, event, n, ending)
  /\ level' = IF FreeSlots(events) = {} THEN level
              ELSE [level EXCEPT ![event.pin] = event.pinState]

\* repeatCount full cycles, of two changes of the pin each
oscillate(pin, period, startingValue, repeatCount) ==
  StartsPin("oscillate",
            OscillateEvent(pin, period, startingValue, repeatCount, clock),
            repeatCount * 2, startingValue)

\* oscillate() once; "the Pin will be left in !startingValue"
pulse(pin, period, startingValue) ==
  StartsPin("pulse", OscillateEvent(pin, period, startingValue, 1, clock),
            2, 1 - startingValue)

\* pulseValue at once, for one period: the repeat count is set to 1 afterwards
pulseImmediate(pin, period, pulseValue) ==
  StartsPin("pulseImmediate",
            [OscillateEvent(pin, period, pulseValue, 1, clock)
               EXCEPT !.repeatCount = 1],
            1, 1 - pulseValue)

Stop(id) ==
  /\ ClientRuns
  /\ events' = stop(events, id)
  /\ UNCHANGED <<clock, level, control, ghosts>>

Client ==
  \/ \E p \in Periods, cb \in Callbacks, rc \in RepeatCounts : every(p, cb, rc)
  \/ \E pin \in Pins, p \in Periods, v \in {LOW, HIGH} :
       \/ \E rc \in RepeatCounts : oscillate(pin, p, v, rc)
       \/ pulse(pin, p, v)
       \/ pulseImmediate(pin, p, v)
  \/ \E id \in Live(events) \cup {NO_TIMER_AVAILABLE} : Stop(id)

-----------------------------------------------------------------------------
(* Timer::update *)

BeginUpdate ==
  /\ phase = "loop"
  /\ phase' = "scan"
  /\ slot' = 0
  /\ now' = clock
  /\ inPass' = {}
  /\ UNCHANGED <<events, clock, level, age, asked, fired, maker, goal, reused>>

\* The loop of update() goes on to the next slot, or update() returns
NextSlot ==
  /\ slot' = IF slot + 1 = MAX_NUMBER_OF_EVENTS THEN 0 ELSE slot + 1
  /\ phase' = IF slot + 1 = MAX_NUMBER_OF_EVENTS THEN "loop" ELSE "scan"
  /\ UNCHANGED now

Visits(i) == phase = "scan" /\ slot = i

\* A free slot, or an event that is not due (its repeat count is examined)
SkipSlot(i) ==
  /\ Visits(i)
  /\ i \in Live(events) => ~Due(events[i], now)
  /\ events' = [events EXCEPT ![i] = IF i \in Live(events) THEN Retire(@) ELSE @]
  /\ NextSlot
  /\ UNCHANGED <<clock, level, ghosts>>

\* The ghosts when the event of slot i fires: its next period counts from now
Fires(i) ==
  /\ age' = [age EXCEPT ![i] = IF Since(clock, now) < AgeMax THEN Since(clock, now)
                               ELSE AgeMax]
  /\ fired' = [fired EXCEPT ![i] = ToInt(@ + 1)]

TogglePin(i) ==
  LET e == Toggle(events[i])
  IN  /\ Visits(i)
      /\ e.eventType = EVENT_OSCILLATE
      /\ Due(e, now)
      /\ level' = [level EXCEPT ![e.pin] = e.pinState]
      /\ events' = [events EXCEPT ![i] = Retire(Fired(e, now))]
      /\ Fires(i)
      /\ NextSlot
      /\ UNCHANGED <<clock, asked, maker, goal, inPass, reused>>

CallCallback(i) ==
  /\ Visits(i)
  /\ events[i].eventType = EVENT_EVERY
  /\ Due(events[i], now)
  /\ phase' = "callback"
  /\ Fires(i)
  /\ UNCHANGED <<events, clock, level, slot, now, asked, maker, goal, inPass,
                 reused>>

\* After the callback update() goes on with whatever its slot holds by now.
\* The stores to a slot the callback has stopped are never read.
CallbackReturns ==
  /\ phase = "callback"
  /\ events' = [events EXCEPT ![slot] =
                  IF slot \in Live(events) THEN Retire(Fired(@, now)) ELSE @]
  /\ NextSlot
  /\ UNCHANGED <<clock, level, ghosts>>

Scan == \E i \in Slots : SkipSlot(i) \/ TogglePin(i) \/ CallCallback(i)

UpdateStep == BeginUpdate \/ Scan \/ CallbackReturns

Next == Tick \/ Client \/ UpdateStep

Spec == Init /\ [][Next]_vars

\* The counter keeps ticking, loop() keeps calling update() and callbacks return
FairSpec == Spec /\ WF_vars(Tick) /\ WF_vars(UpdateStep)

-----------------------------------------------------------------------------
(* Properties *)

\* Every variable keeps its type.
TypeOK ==
  /\ events \in [Slots -> Event]
  /\ clock \in Millis /\ now \in Millis
  /\ level \in [Pins -> {LOW, HIGH}]
  /\ phase \in {"loop", "scan", "callback"}
  /\ slot \in Slots
  /\ age \in [Slots -> 0 .. AgeMax]
  /\ asked \in [Slots -> -2 * (INT_MAX + 1) .. 2 * INT_MAX]
  /\ fired \in [Slots -> Int16]
  /\ maker \in [Slots -> {"nobody", "every", "oscillate", "pulse", "pulseImmediate"}]
  /\ goal \in [Slots -> {LOW, HIGH, NoGoal}]
  /\ inPass \subseteq Slots
  /\ reused \subseteq Slots

FiresNow(i) == TogglePin(i) \/ CallCallback(i)

\* No event fires before its period is over, however the counter rolls over
\* ("use subtraction to avoid rollover issues", ReadMe.txt of the library).
NeverEarly ==
  [][\A i \in Slots : FiresNow(i) => age[i] >= events[i].period]_vars

\* An event fires early only if a callback of the same update() armed it: then
\* it is younger than now, and the unsigned difference underflows.  The one
\* other case is an event that a callback armed in its own slot: when the
\* callback returns, the event is dated back to now.
EarlyOnlyInPass ==
  [][\A i \in Slots \ (inPass \cup reused) :
       FiresNow(i) => age[i] >= events[i].period]_vars

\* update() drops an event exactly when it has made the calls it was asked for:
\* not before, not later, and never if it was to go on for ever.  An
\* oscillation whose doubled count is too large for an int goes on for ever
\* too; of one too small nothing is said.  One exception is an event that a
\* callback arms in its own slot: when the callback returns, its call is
\* counted for the new event.  The other is an event that is to fire 0 times:
\* it does fire if it is due when first visited.
DroppedWhenDone ==
  [][\A i \in Live(events) \ reused :
       UpdateStep /\ phase' /= "callback" =>
         /\ asked[i] \in Int16 \ {0} =>
              (i \notin Live(events)' <=> asked[i] > 0 /\ fired'[i] = asked[i])
         /\ asked[i] > INT_MAX => i \in Live(events)']_vars

\* Event i toggles its pin for the last time
LastToggle(i) == TogglePin(i) /\ i \notin Live(events)'

\* oscillate() makes full cycles, so it leaves its pin as it started, and
\* pulseImmediate() leaves it in !pulseValue, whatever else uses the pin and
\* however the doubled count overflows, if it ends at all.  The exceptions are
\* those above.
CyclesEnd ==
  [][\A i \in Live(events) :
       /\ LastToggle(i) /\ maker[i] \in {"oscillate", "pulseImmediate"}
       /\ i \notin reused /\ events[i].repeatCount /= 0
       => level'[events[i].pin] = goal[i]]_vars

\* pulse() leaves its pin in the level its comment (Timer.cpp:81-84) says.
PulseEnds ==
  [][\A i \in Live(events) :
       LastToggle(i) /\ maker[i] = "pulse" => level'[events[i].pin] = goal[i]]_vars

\* As long as nobody stops it, a pending event keeps firing until update()
\* drops it: no pending event is starved by the others or by a roll-over.
KeepsFiring ==
  \A i \in Slots : []<>(i \notin Live(events)) \/ []<><<FiresNow(i)>>_vars
=============================================================================
