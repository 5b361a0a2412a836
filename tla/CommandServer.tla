---------------------------- MODULE CommandServer ----------------------------
(***************************************************************************)
(* The telnet server of smartdoor_v8.ino: process_server() reads what the  *)
(* clients send into the one buffer `command`, and process_command()       *)
(* executes it at each '\n'.  Clients connect, send their lines in pieces, *)
(* and leave at any time, also between the two steps of process_server().  *)
(*                                                                         *)
(* A client is known by its socket, as in EthernetClient, and a character  *)
(* is its ASCII code, which is not 0.  Of the commands only 4_<time>       *)
(* changes state that is kept here; SmartDoor has those that change the    *)
(* member table.                                                           *)
(***************************************************************************)
EXTENDS Integers, SequencesExt

CONSTANTS
  Sockets,        \* the sockets of the network chip
  Texts,          \* what clients send: whole lines, each ended by '\n'
  COMMAND,        \* length of command
  LONG_MAX,       \* largest long, 2^31 - 1 on the board
  DEFAULT_DELAY   \* delayTime after a reset

NL == 10
\* isspace()
Space == {9, 10, 11, 12, 13, 32}

ASSUME ServerAssumption ==
  /\ Sockets \subseteq Nat
  /\ Texts \subseteq Seq(1 .. 127)
  /\ COMMAND \in Nat \ {0}
  /\ LONG_MAX \in Nat
  /\ DEFAULT_DELAY \in 1 .. LONG_MAX

VARIABLES
  conn,          \* the connection on each socket
  activeClient,  \* a socket, or NoClient
  command,       \* command[0 .. cmd_index - 1]
  delayTime,
  pc,            \* process_server() is about to "select" or to "read"
  overrun        \* command has been written past its end; undefined from here

vars == <<conn, activeClient, command, delayTime, pc, overrun>>

NoClient == -1

\* text is what the client sends from the beginning of the current line on; the
\* first `sent` characters of it have arrived, and the first `read` are read
NoConn == [state |-> "free", text |-> <<>>, sent |-> 0, read |-> 0]
Connections ==
  [state : {"free", "open", "left"}, text : Seq(1 .. 127), sent : Nat, read : Nat]

Unread(c) == c.sent > c.read

-----------------------------------------------------------------------------
(* The clients *)

Connects(s) ==
  /\ conn[s] = NoConn
  /\ conn' = [conn EXCEPT ![s].state = "open"]

Types(s) ==
  /\ conn[s].state = "open" /\ conn[s].text = <<>>
  /\ \E text \in Texts : conn' = [conn EXCEPT ![s].text = text]

\* Some more characters arrive
Sends(s) ==
  /\ conn[s].state = "open"
  /\ \E n \in conn[s].sent + 1 .. Len(conn[s].text) :
       conn' = [conn EXCEPT ![s].sent = n]

\* What has arrived can still be read
Leaves(s) ==
  /\ conn[s].state = "open"
  /\ conn' = [conn EXCEPT ![s].state = "left", ![s].text = SubSeq(@, 1, conn[s].sent)]

Client(s) ==
  /\ ~overrun
  /\ Connects(s) \/ Types(s) \/ Sends(s) \/ Leaves(s)
  /\ UNCHANGED <<activeClient, command, delayTime, pc, overrun>>

-----------------------------------------------------------------------------
(* str2long(): a long wraps, and any character counts as a digit *)

ToLong(n) == ((n + LONG_MAX + 1) % (2 * (LONG_MAX + 1))) - (LONG_MAX + 1)

power10[n \in Nat] == IF n = 0 THEN 1 ELSE ToLong(power10[n - 1] * 10)

\* value when the j last characters of the string are summed up
Summed(str) ==
  LET value[j \in 0 .. Len(str)] ==
        IF j = 0 THEN 0
        ELSE ToLong(value[j - 1] + (str[Len(str) - j + 1] - 48) * power10[j - 1])
  IN value

\* Fault: the last digit counts for ten
SummedTens(str) ==
  LET value[j \in 0 .. Len(str)] ==
        IF j = 0 THEN 0
        ELSE ToLong(value[j - 1] + (str[Len(str) - j + 1] - 48) * power10[j])
  IN value

TensOnly(str) == SummedTens(str)[Len(str)]

str2long(str) == Summed(str)[Len(str)]

-----------------------------------------------------------------------------
(* process_command(), at the '\n' behind the line *)

\* trimwhitespace(): a line of blanks only is empty
trimwhitespace(line) ==
  LET kept == {k \in DOMAIN line : line[k] \notin Space}
  IN IF kept = {} THEN <<>> ELSE SubSeq(line, Min(kept), Max(kept))

\* Fault: any number is taken as the delay
SetAny(line) == str2long(SubSeq(line, 3, Len(line)))

set_delaytime(line) ==
  LET time == str2long(SubSeq(line, 3, Len(line)))
  IN IF time > 0 THEN time ELSE delayTime

process_command(line) ==
  \E cmd \in {trimwhitespace(line)} :
    delayTime' = IF IsPrefix(<<52, 95>>, cmd) THEN set_delaytime(cmd) ELSE delayTime

-----------------------------------------------------------------------------
(* process_server() *)

Waiting == {s \in Sockets : Unread(conn[s])}

\* Fault: the active client is preferred
ActiveFirst ==
  IF Waiting = {} THEN NoClient
  ELSE IF activeClient \in Waiting THEN activeClient ELSE Min(Waiting)

\* server.available(): the first socket with characters to read
available == IF Waiting = {} THEN NoClient ELSE Min(Waiting)

\* Fault: the active client is left, not closed
SwitchOnly ==
  /\ pc = "select" /\ ~overrun
  /\ conn' = [s \in Sockets |->
                IF conn[s].state = "left" /\ ~Unread(conn[s]) THEN NoConn ELSE conn[s]]
  /\ activeClient' = IF available = NoClient THEN activeClient ELSE available
  /\ pc' = "read"
  /\ UNCHANGED <<command, delayTime, overrun>>

\* server.available() first closes the sockets whose clients have left; then the
\* active client is closed if another one has sent something
SelectClient ==
  /\ pc = "select" /\ ~overrun
  /\ LET displaced == IF available \in {NoClient, activeClient} THEN NoClient
                      ELSE activeClient
     IN conn' = [s \in Sockets |->
                   IF s = displaced \/ (conn[s].state = "left" /\ ~Unread(conn[s]))
                   THEN NoConn ELSE conn[s]]
  /\ activeClient' = IF available = NoClient THEN activeClient ELSE available
  /\ pc' = "read"
  /\ UNCHANGED <<command, delayTime, overrun>>

Reading == pc = "read" /\ ~overrun /\ activeClient /= NoClient

\* What the loop has to read, and the places of the line ends in it
Arrived == LET c == conn[activeClient] IN SubSeq(c.text, c.read + 1, c.sent)
Ends == {k \in DOMAIN Arrived : Arrived[k] = NL}

\* The last statement: a client that has left and has nothing to read is closed
ReadOn(c) ==
  LET closed == c = NoConn \/ (c.state = "left" /\ ~Unread(c))
  IN /\ conn' = [conn EXCEPT ![activeClient] = IF closed THEN NoConn ELSE c]
     /\ activeClient' = IF closed THEN NoClient ELSE activeClient
     /\ pc' = "select"
     /\ UNCHANGED overrun

\* The connection once n more characters have ended its current line
NextLine(c, n) ==
  [c EXCEPT !.text = SubSeq(@, c.read + n + 1, Len(@)),
            !.sent = @ - (c.read + n),
            !.read = 0]

\* The line ends n characters on and is executed; the loop stops there
ExecuteLine(n) ==
  /\ Len(command) + n <= COMMAND
  /\ \E line \in {command \o SubSeq(Arrived, 1, n - 1)} : process_command(line)
  /\ command' = <<>>
  /\ ReadOn(NextLine(conn[activeClient], n))

\* Everything is read, and the line has not ended
ReadPart ==
  /\ Reading /\ Ends = {}
  /\ Len(command) + Len(Arrived) <= COMMAND
  /\ command' = command \o Arrived
  /\ ReadOn([conn[activeClient] EXCEPT !.read = conn[activeClient].sent])
  /\ UNCHANGED delayTime

Overrun ==
  /\ Reading
  /\ Len(command) + Min(Ends \cup {Len(Arrived)}) > COMMAND
  /\ overrun' = TRUE
  /\ UNCHANGED <<conn, activeClient, command, delayTime, pc>>

NothingActive ==
  /\ pc = "read" /\ ~overrun /\ activeClient = NoClient
  /\ pc' = "select"
  /\ UNCHANGED <<conn, activeClient, command, delayTime, overrun>>

ReadLine == Reading /\ Ends /= {} /\ ExecuteLine(Min(Ends))

process_server == SelectClient \/ ReadLine \/ ReadPart \/ Overrun \/ NothingActive

-----------------------------------------------------------------------------
Init ==
  /\ conn = [s \in Sockets |-> NoConn]
  /\ activeClient = NoClient
  /\ command = <<>>
  /\ delayTime = DEFAULT_DELAY
  /\ pc = "select"
  /\ overrun = FALSE

\* The board is reset
Reset ==
  /\ ~overrun
  /\ conn' = [s \in Sockets |-> NoConn]
  /\ activeClient' = NoClient
  /\ command' = <<>>
  /\ delayTime' = DEFAULT_DELAY
  /\ pc' = "select"
  /\ UNCHANGED overrun

Next == (\E s \in Sockets : Client(s)) \/ process_server \/ Reset

\* loop() keeps calling process_server(); clients may do nothing for ever
Spec == Init /\ [][Next]_vars /\ WF_vars(process_server)

-----------------------------------------------------------------------------
(* Properties *)

\* Every variable keeps its type.  In particular no text that a client can type,
\* overflowing or no number at all, makes delayTime anything but a positive long,
\* which is what DoorLock relies on.
TypeOK ==
  /\ conn \in [Sockets -> Connections]
  /\ activeClient \in Sockets \cup {NoClient}
  /\ command \in Seq(1 .. 127) /\ Len(command) <= COMMAND
  /\ delayTime \in 1 .. LONG_MAX
  /\ pc \in {"select", "read"}
  /\ overrun \in BOOLEAN

\* How many characters of the active client's line have been read
ReadOfActive == IF activeClient = NoClient THEN 0 ELSE conn[activeClient].read

\* Some of command was sent over a connection that is closed
Stale == Len(command) > ReadOfActive

\* Nobody but the active client has a line half read, and command ends with just
\* that half, whoever was displaced, left or connected anew in between.
OwnLine ==
  /\ \A s \in Sockets \ {activeClient} : conn[s].read = 0
  /\ activeClient /= NoClient =>
       IsSuffix(SubSeq(conn[activeClient].text, 1, ReadOfActive), command)

\* The server as its clients see it.
Lines == INSTANCE LineServer WITH
  state <- [s \in Sockets |-> conn[s].state],
  waiting <- [s \in Sockets |-> conn[s].text],
  spoilt <- Stale,
  delay <- delayTime

\* Every line is executed once, in order and as it was typed, except the first
\* one after a client was cut off in the middle of a line: cmd_index keeps what
\* that client had sent, and puts it before the next one's line.
ImplementsLineServer == Lines!Spec

\* All of a line has arrived
Complete(c) == \E k \in 1 .. c.sent : c.text[k] = NL

\* No line that has arrived completely waits for ever: it is executed or its
\* client is cut off, unless clients on lower sockets keep sending.  On the first
\* socket it never waits for ever.
Served ==
  \A s \in Sockets :
    \/ []<>(~Complete(conn[s]) \/ overrun)
    \/ []<>(\E l \in Sockets : l < s /\ Unread(conn[l]))
=============================================================================
