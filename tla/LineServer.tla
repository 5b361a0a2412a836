------------------------------ MODULE LineServer ------------------------------
(***************************************************************************)
(* What the telnet server of smartdoor_v8.ino promises to the clients that *)
(* set the delay, said without arriving bytes, the active client and the   *)
(* buffer of the command: the lines of each client are executed in their   *)
(* order, each once and as it was typed.  Only the first line executed     *)
(* after a client was cut off in the middle of one may be taken for        *)
(* anything.                                                               *)
(***************************************************************************)
EXTENDS Integers, SequencesExt

CONSTANTS Sockets, Texts, LONG_MAX, DEFAULT_DELAY

VARIABLES
  state,     \* of each socket: "free", or its client is there or has "left"
  waiting,   \* for each socket, its client's text from the first line on that
             \* is not executed
  spoilt,    \* the next line may be taken for something else
  delay

vars == <<state, waiting, spoilt, delay>>

NL == 10
\* isspace()
Space == {9, 10, 11, 12, 13, 32}
Digit == 48 .. 57
SetDelay == <<52, 95>>   \* "4_"
LegalDelays == 1 .. LONG_MAX

LineEnd(text) ==
  LET ends == {k \in DOMAIN text : text[k] = NL} IN IF ends = {} THEN 0 ELSE Min(ends)
Line(text) == SubSeq(text, 1, LineEnd(text) - 1)
Rest(text) == SubSeq(text, LineEnd(text) + 1, Len(text))

\* The number that digits stand for, read from the left
Value(digits) ==
  LET first[n \in 0 .. Len(digits)] ==
        IF n = 0 THEN 0 ELSE 10 * first[n - 1] + (digits[n] - 48)
  IN first[Len(digits)]

\* Where it goes on behind a 4_ that has only blanks before it
Behind(line) ==
  {k \in 3 .. Len(line) + 1 : /\ <<line[k - 2], line[k - 1]>> = SetDelay
                              /\ \A i \in 1 .. k - 3 : line[i] \in Space}

\* Where a line may end, if some or all of the blanks at its end are left out
LineEnds(line) == {n \in 2 .. Len(line) : \A i \in n + 1 .. Len(line) : line[i] \in Space}

\* The number behind 4_, if it is one and a long can hold it
Numbers(line) ==
  {digits \in {SubSeq(line, k, n) : k \in Behind(line), n \in LineEnds(line)} :
     Range(digits) \subseteq Digit /\ Value(digits) <= LONG_MAX}

\* The delays that a line may leave, when the delay was old: anything behind 4_
\* that is not such a number may be taken for any
Meant(line, old) ==
  IF Behind(line) = {} THEN {old}
  ELSE IF Numbers(line) = {} THEN LegalDelays
  ELSE {IF Value(digits) > 0 THEN Value(digits) ELSE old : digits \in Numbers(line)}

-----------------------------------------------------------------------------
Boot ==
  /\ state = [s \in Sockets |-> "free"]
  /\ waiting = [s \in Sockets |-> <<>>]
  /\ spoilt = FALSE
  /\ delay = DEFAULT_DELAY

Connects(s) ==
  /\ state[s] = "free"
  /\ state' = [state EXCEPT ![s] = "open"]
  /\ UNCHANGED <<waiting, spoilt, delay>>

Types(s) ==
  /\ state[s] = "open" /\ waiting[s] = <<>>
  /\ \E text \in Texts : waiting' = [waiting EXCEPT ![s] = text]
  /\ UNCHANGED <<state, spoilt, delay>>

\* The last line of a client that has left also ends the connection
Executes(s) ==
  /\ LineEnd(waiting[s]) > 0
  /\ waiting' = [waiting EXCEPT ![s] = Rest(@)]
  /\ delay' \in IF spoilt THEN LegalDelays ELSE Meant(Line(waiting[s]), delay)
  /\ spoilt' = FALSE
  /\ \/ UNCHANGED state
     \/ state[s] = "left" /\ Rest(waiting[s]) = <<>> /\ state' = [state EXCEPT ![s] = "free"]

\* Clients leave, or are closed; what they had not sent, or all of it, is lost,
\* and nobody else loses anything
Ends(s) ==
  /\ <<state[s], state'[s]>> \in {<<"open", "left">>, <<"open", "free">>, <<"left", "free">>}
  /\ \E k \in 0 .. Len(waiting[s]) : waiting'[s] = SubSeq(waiting[s], 1, k)
  /\ state'[s] = "free" => waiting'[s] = <<>>

CutOff ==
  /\ DOMAIN state' = Sockets /\ DOMAIN waiting' = Sockets
  /\ \A s \in Sockets : Ends(s) \/ (state'[s] = state[s] /\ waiting'[s] = waiting[s])
  /\ spoilt => spoilt'
  /\ UNCHANGED delay

Restart ==
  /\ state' = [s \in Sockets |-> "free"]
  /\ waiting' = [s \in Sockets |-> <<>>]
  /\ spoilt' = FALSE
  /\ delay' = DEFAULT_DELAY

Next == (\E s \in Sockets : Connects(s) \/ Types(s) \/ Executes(s)) \/ CutOff \/ Restart

Spec == Boot /\ [][Next]_vars
=============================================================================
