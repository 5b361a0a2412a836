------------------------- MODULE CommandServerProofs -------------------------
(***************************************************************************)
(* Proofs about CommandServer, for every set of sockets, every text that   *)
(* clients may send, every length of the buffer and every way in which the *)
(* texts are cut into pieces.                                              *)
(***************************************************************************)
EXTENDS CommandServer, Recursion, SequenceTheorems, TLAPS

Char == 1 .. 127

\* A connection on which no more has been read than has arrived, and no more
\* has arrived than was sent.
Sound == {c \in Connections : c.read <= c.sent /\ c.sent <= Len(c.text)}

\* What has been read of the current line of connection c is the end of buf.
EndsWithRead(c, buf) ==
  /\ c.read <= Len(buf)
  /\ \A k \in 1 .. c.read : c.text[k] = buf[Len(buf) - c.read + k]

\* OwnLine with what it takes to be inductive
OwnInv ==
  /\ conn \in [Sockets -> Sound]
  /\ activeClient \in Sockets \cup {NoClient}
  /\ command \in Seq(Char)
  /\ \A s \in Sockets \ {activeClient} : conn[s].read = 0
  /\ activeClient /= NoClient => EndsWithRead(conn[activeClient], command)

-----------------------------------------------------------------------------
(* Sequences and sets *)

\* Min and Max return a member of the set.
LEMMA MinInSet ==
  ASSUME NEW T, T \subseteq Nat, T /= {}
  PROVE  Min(T) \in T
<1>1. \E x \in T : \A y \in T : x <= y
  BY LeastNumber
<1> QED
  BY <1>1 DEF Min

LEMMA MaxInSet ==
  ASSUME NEW n \in Nat, NEW T, T \subseteq 0 .. n, T /= {}
  PROVE  Max(T) \in T
<1>1. \E x \in T : \A y \in T : x >= y
  BY GreatestNumber
<1> QED
  BY <1>1 DEF Max

\* What SubSeq returns, counted from the character before its first one.
LEMMA Cut ==
  ASSUME NEW t \in Seq(Char), NEW m \in Nat, NEW n \in Nat, m <= n, n <= Len(t)
  PROVE  /\ SubSeq(t, m + 1, n) \in Seq(Char)
         /\ Len(SubSeq(t, m + 1, n)) = n - m
         /\ \A k \in 1 .. n - m : SubSeq(t, m + 1, n)[k] = t[m + k]
<1>1. \A k \in m + 1 .. n : t[k] \in Char
  <2>1. \A k \in 1 .. Len(t) : t[k] \in Char
    OBVIOUS
  <2> QED
    BY <2>1
<1>2. m + 1 \in Int /\ n \in Int
  OBVIOUS
<1>3. /\ SubSeq(t, m + 1, n) \in Seq(Char)
      /\ Len(SubSeq(t, m + 1, n)) = IF m + 1 <= n THEN n - (m + 1) + 1 ELSE 0
      /\ \A i \in 1 .. n - (m + 1) + 1 : SubSeq(t, m + 1, n)[i] = t[m + 1 + i - 1]
  BY <1>1, <1>2, SubSeqProperties
<1> QED
  BY <1>3

\* A sequence that agrees with the end of another is its suffix.
LEMMA SuffixByElement ==
  ASSUME NEW s \in Seq(Char), NEW t \in Seq(Char), Len(s) <= Len(t),
         \A k \in 1 .. Len(s) : s[k] = t[Len(t) - Len(s) + k]
  PROVE  IsSuffix(s, t)
<1>1. /\ Len(Reverse(s)) = Len(s) /\ Reverse(s) \in Seq(Char)
      /\ \A k \in 1 .. Len(s) : Reverse(s)[k] = s[Len(s) - k + 1]
      /\ Len(Reverse(t)) = Len(t) /\ Reverse(t) \in Seq(Char)
      /\ \A k \in 1 .. Len(t) : Reverse(t)[k] = t[Len(t) - k + 1]
  BY DEF Reverse
<1>2. ASSUME NEW k \in 1 .. Len(s)
      PROVE  Reverse(s)[k] = Reverse(t)[k]
  <2>1. Len(s) - k + 1 \in 1 .. Len(s) /\ k \in 1 .. Len(t)
    OBVIOUS
  <2>2. s[Len(s) - k + 1] = t[Len(t) - Len(s) + (Len(s) - k + 1)]
    BY <2>1
  <2>3. Len(t) - Len(s) + (Len(s) - k + 1) = Len(t) - k + 1
    OBVIOUS
  <2> QED
    BY <1>1, <2>1, <2>2, <2>3
<1>3. SubSeq(Reverse(s), 1, Len(s)) = SubSeq(Reverse(t), 1, Len(s))
  BY <1>1, <1>2
<1> QED
  BY <1>1, <1>3 DEF IsSuffix, IsPrefix

-----------------------------------------------------------------------------
(* Connections *)

States == {"free", "open", "left"}

\* The fields of a connection, and those of one in which a field is replaced.
LEMMA Fields ==
  ASSUME NEW c \in Connections
  PROVE  /\ c.read \in Nat /\ c.sent \in Nat /\ c.text \in Seq(Char)
         /\ \A txt \in Seq(Char) :
              LET d == [c EXCEPT !.text = txt]
              IN  d \in Connections /\ d.text = txt /\ d.sent = c.sent /\ d.read = c.read
         /\ \A n \in Nat :
              LET d == [c EXCEPT !.sent = n]
              IN  d \in Connections /\ d.text = c.text /\ d.sent = n /\ d.read = c.read
         /\ \A n \in Nat :
              LET d == [c EXCEPT !.read = n]
              IN  d \in Connections /\ d.text = c.text /\ d.sent = c.sent /\ d.read = n
         /\ \A st \in States :
              LET d == [c EXCEPT !.state = st]
              IN  d \in Connections /\ d.text = c.text /\ d.sent = c.sent /\ d.read = c.read
<1> DEFINE S == Seq(Char)
<1>1. Connections = [state : States, text : S, sent : Nat, read : Nat]
  BY DEF Connections, States, Char
<1> HIDE DEF S
<1>2. c \in [state : States, text : S, sent : Nat, read : Nat]
  BY <1>1
<1>3. c.read \in Nat /\ c.sent \in Nat /\ c.text \in S
  BY <1>2
<1>4. ASSUME NEW txt \in S
      PROVE  LET d == [c EXCEPT !.text = txt]
             IN  d \in Connections /\ d.text = txt /\ d.sent = c.sent /\ d.read = c.read
  BY <1>1, <1>2
<1>5. ASSUME NEW n \in Nat
      PROVE  LET d == [c EXCEPT !.sent = n]
             IN  d \in Connections /\ d.text = c.text /\ d.sent = n /\ d.read = c.read
  BY <1>1, <1>2
<1>6. ASSUME NEW n \in Nat
      PROVE  LET d == [c EXCEPT !.read = n]
             IN  d \in Connections /\ d.text = c.text /\ d.sent = c.sent /\ d.read = n
  BY <1>1, <1>2
<1>7. ASSUME NEW st \in States
      PROVE  LET d == [c EXCEPT !.state = st]
             IN  d \in Connections /\ d.text = c.text /\ d.sent = c.sent /\ d.read = c.read
  BY <1>1, <1>2
<1> QED
  BY <1>3, <1>4, <1>5, <1>6, <1>7, Zenon DEF S

LEMMA WithText ==
  ASSUME NEW c \in Connections, NEW txt \in Seq(Char)
  PROVE  LET d == [c EXCEPT !.text = txt]
         IN  d \in Connections /\ d.text = txt /\ d.sent = c.sent /\ d.read = c.read
  BY Fields, Zenon

LEMMA WithState ==
  ASSUME NEW c \in Connections, NEW st \in States
  PROVE  LET d == [c EXCEPT !.state = st]
         IN  d \in Connections /\ d.text = c.text /\ d.sent = c.sent /\ d.read = c.read
  BY Fields, Zenon

\* The bounds of a sound connection.
LEMMA SoundBounds ==
  ASSUME NEW c \in Sound
  PROVE  /\ c \in Connections
         /\ c.read \in Nat /\ c.sent \in Nat /\ c.text \in Seq(Char)
         /\ c.read <= c.sent /\ c.sent <= Len(c.text)
  BY DEF Sound, Connections, Char

\* The pointwise form of EndsWithRead is the suffix of OwnLine.
LEMMA SuffixOfRead ==
  ASSUME NEW c \in Sound, NEW buf \in Seq(Char), EndsWithRead(c, buf)
  PROVE  IsSuffix(SubSeq(c.text, 1, c.read), buf)
<1> DEFINE t == SubSeq(c.text, 1, c.read)
<1>1. /\ c.read \in Nat /\ c.text \in Seq(Char) /\ c.read <= Len(c.text)
      /\ c.read <= Len(buf)
  BY SoundBounds DEF EndsWithRead
<1>2. /\ t \in Seq(Char) /\ Len(t) = c.read
      /\ \A k \in 1 .. c.read : t[k] = c.text[k]
  BY <1>1, Cut
<1>3. \A k \in 1 .. Len(t) : t[k] = buf[Len(buf) - Len(t) + k]
  BY <1>1, <1>2 DEF EndsWithRead
<1> QED
  BY <1>1, <1>2, <1>3, SuffixByElement

\* A connection of which nothing of the current line is read fits any buffer.
LEMMA NothingRead ==
  ASSUME NEW c \in Sound, c.read = 0, NEW buf \in Seq(Char)
  PROVE  EndsWithRead(c, buf)
  BY DEF EndsWithRead

LEMMA NoConnSound == NoConn \in Sound /\ NoConn.read = 0
  BY DEF NoConn, Sound, Connections

\* When more of the line is read, it is appended to both.
LEMMA ReadMore ==
  ASSUME NEW c \in Sound, NEW buf \in Seq(Char), EndsWithRead(c, buf)
  PROVE  LET more == buf \o SubSeq(c.text, c.read + 1, c.sent)
             d == [c EXCEPT !.read = c.sent]
         IN  /\ more \in Seq(Char)
             /\ d \in Sound
             /\ EndsWithRead(d, more)
<1> DEFINE new == SubSeq(c.text, c.read + 1, c.sent)
           more == buf \o new
           d == [c EXCEPT !.read = c.sent]
<1>1. /\ c.read \in Nat /\ c.sent \in Nat /\ c.text \in Seq(Char)
      /\ c.read <= c.sent /\ c.sent <= Len(c.text)
      /\ Len(buf) \in Nat /\ c.read <= Len(buf)
  BY SoundBounds DEF EndsWithRead
<1>2. /\ new \in Seq(Char)
      /\ Len(new) = c.sent - c.read
      /\ \A k \in 1 .. c.sent - c.read : new[k] = c.text[c.read + k]
  BY <1>1, Cut
<1>3. /\ more \in Seq(Char)
      /\ Len(more) = Len(buf) + c.sent - c.read
      /\ \A k \in 1 .. Len(buf) : more[k] = buf[k]
      /\ \A k \in 1 .. c.sent - c.read : more[Len(buf) + k] = new[k]
  <2> HIDE DEF new
  <2>1. /\ more \in Seq(Char) /\ Len(more) = Len(buf) + Len(new)
        /\ \A i \in 1 .. Len(buf) + Len(new) :
             more[i] = IF i <= Len(buf) THEN buf[i] ELSE new[i - Len(buf)]
    BY <1>2, ConcatProperties, Zenon
  <2> HIDE DEF more
  <2>2. \A a, r, s, k \in Nat : r <= s /\ k \in 1 .. s - r =>
          /\ a + k \in 1 .. a + (s - r) /\ ~(a + k <= a) /\ (a + k) - a = k
    OBVIOUS
  <2>3. \A a, r, s \in Nat : r <= s =>
          /\ a + (s - r) = a + s - r
          /\ \A k \in 1 .. a : k \in 1 .. a + (s - r) /\ k <= a
    OBVIOUS
  <2>4. Len(more) = Len(buf) + c.sent - c.read
    BY <1>1, <1>2, <2>1, <2>3, Zenon
  <2>5. \A k \in 1 .. Len(buf) : more[k] = buf[k]
    BY <1>1, <1>2, <2>1, <2>3, Zenon
  <2>6. ASSUME NEW k \in 1 .. c.sent - c.read
        PROVE  more[Len(buf) + k] = new[k]
    <3>1. k \in Nat
      BY <1>1
    <3>2. /\ Len(buf) + k \in 1 .. Len(buf) + (c.sent - c.read)
          /\ ~(Len(buf) + k <= Len(buf)) /\ (Len(buf) + k) - Len(buf) = k
      BY <1>1, <2>2, <3>1, Zenon
    <3>3. Len(buf) + k \in 1 .. Len(buf) + Len(new)
      BY <1>2, <3>2, Zenon
    <3> QED
      BY <2>1, <3>2, <3>3, Zenon
  <2> QED
    BY <2>1, <2>4, <2>5, <2>6, Zenon
<1>4. d \in Sound /\ d.read = c.sent /\ d.text = c.text
  <2>1. d \in Connections /\ d.text = c.text /\ d.sent = c.sent /\ d.read = c.sent
    <3>1. c \in Connections /\ c.sent \in Nat
      BY <1>1, SoundBounds
    <3> QED
      BY <3>1, Fields, Zenon
  <2> HIDE DEF d
  <2> QED
    BY <1>1, <2>1 DEF Sound
<1>5. ASSUME NEW k \in 1 .. c.sent
      PROVE  c.text[k] = more[Len(more) - c.sent + k]
  <2> HIDE DEF new, more, d
  <2>1. Len(more) - c.sent + k = Len(buf) - c.read + k
    BY <1>1, <1>3
  <2>2. CASE k <= c.read
    <3>1. k \in 1 .. c.read /\ Len(buf) - c.read + k \in 1 .. Len(buf)
      BY <1>1, <2>2
    <3>2. c.text[k] = buf[Len(buf) - c.read + k]
      BY <3>1 DEF EndsWithRead
    <3>3. more[Len(buf) - c.read + k] = buf[Len(buf) - c.read + k]
      BY <1>3, <3>1, Zenon
    <3> QED
      BY <2>1, <3>2, <3>3, Zenon
  <2>3. CASE k > c.read
    <3>1. k - c.read \in 1 .. c.sent - c.read
      BY <1>1, <2>3
    <3>2. more[Len(buf) + (k - c.read)] = c.text[c.read + (k - c.read)]
      BY <1>2, <1>3, <3>1
    <3>3. /\ Len(buf) + (k - c.read) = Len(buf) - c.read + k
          /\ c.read + (k - c.read) = k
      BY <1>1
    <3> QED
      BY <2>1, <3>2, <3>3, Zenon
  <2> QED
    BY <1>1, <2>2, <2>3
<1>6. c.sent <= Len(more)
  BY <1>1, <1>3
<1> QED
  BY <1>3, <1>4, <1>5, <1>6 DEF EndsWithRead

-----------------------------------------------------------------------------
(* The steps *)

\* What a client does on its socket changes nothing that has been read.
LEMMA ClientKeepsOwnInv ==
  ASSUME OwnInv, NEW s \in Sockets, Client(s)
  PROVE  OwnInv'
<1> DEFINE c == conn[s]
           d == conn'[s]
<1>1. /\ c \in Sound /\ c \in Connections
      /\ c.read \in Nat /\ c.sent \in Nat /\ c.text \in Seq(Char)
      /\ c.read <= c.sent /\ c.sent <= Len(c.text)
      /\ conn \in [Sockets -> Sound]
  BY DEF OwnInv, Sound, Connections, Char
<1>2. /\ conn' \in [Sockets -> Sound]
      /\ \A r \in Sockets \ {s} : conn'[r] = conn[r]
      /\ d.read = c.read
      /\ \A k \in 1 .. c.read : d.text[k] = c.text[k]
  <2>1. CASE Connects(s)
    <3> DEFINE e == [c EXCEPT !.state = "open"]
    <3>1. conn' = [conn EXCEPT ![s] = e]
      BY <1>1, <2>1 DEF Connects
    <3>2. e \in Connections /\ e.text = c.text /\ e.sent = c.sent /\ e.read = c.read
      <4>1. c \in Connections /\ "open" \in States
        BY <1>1 DEF States
      <4> QED
        BY <4>1, Fields, Zenon
    <3> HIDE DEF e
    <3>3. e \in Sound
      BY <1>1, <3>2 DEF Sound
    <3> QED
      BY <1>1, <3>1, <3>2, <3>3
  <2>2. CASE Types(s)
    <3>1. PICK text \in Texts : conn' = [conn EXCEPT ![s].text = text]
      BY <2>2 DEF Types
    <3> DEFINE e == [c EXCEPT !.text = text]
    <3>2. text \in Seq(Char) /\ c.sent = 0 /\ c.read = 0
      BY <1>1, <2>2, ServerAssumption DEF Types, Char
    <3>3. conn' = [conn EXCEPT ![s] = e]
      BY <1>1, <3>1
    <3>4. e \in Connections /\ e.text = text /\ e.sent = 0 /\ e.read = 0
      <4>1. c \in Connections
        BY <1>1
      <4>2. e \in Connections /\ e.text = text /\ e.sent = c.sent /\ e.read = c.read
        BY <3>2, <4>1, Fields, Zenon
      <4> HIDE DEF e
      <4> QED
        BY <3>2, <4>2
    <3> HIDE DEF e
    <3>5. e \in Sound
      BY <3>2, <3>4 DEF Sound
    <3> QED
      BY <1>1, <3>2, <3>3, <3>4, <3>5
  <2>3. CASE Sends(s)
    <3>1. PICK n \in c.sent + 1 .. Len(c.text) : conn' = [conn EXCEPT ![s].sent = n]
      BY <2>3 DEF Sends
    <3> DEFINE e == [c EXCEPT !.sent = n]
    <3>2. conn' = [conn EXCEPT ![s] = e]
      BY <1>1, <3>1
    <3>3. e \in Connections /\ e.text = c.text /\ e.sent = n /\ e.read = c.read
      <4>1. c \in Connections /\ n \in Nat
        BY <1>1, <3>1
      <4> QED
        BY <4>1, Fields, Zenon
    <3> HIDE DEF e
    <3>4. e \in Sound
      BY <1>1, <3>1, <3>3 DEF Sound
    <3> QED
      BY <1>1, <3>2, <3>3, <3>4
  <2>4. CASE Leaves(s)
    <3> DEFINE gone == [c EXCEPT !.state = "left"]
               e == [gone EXCEPT !.text = SubSeq(c.text, 1, c.sent)]
    <3>1. conn' = [conn EXCEPT ![s] = e]
      BY <1>1, <2>4 DEF Leaves
    <3>2. /\ SubSeq(c.text, 1, c.sent) \in Seq(Char)
          /\ Len(SubSeq(c.text, 1, c.sent)) = c.sent
          /\ \A k \in 1 .. c.sent : SubSeq(c.text, 1, c.sent)[k] = c.text[k]
      BY <1>1, Cut
    <3>3. /\ e \in Connections
          /\ e.text = SubSeq(c.text, 1, c.sent) /\ e.sent = c.sent /\ e.read = c.read
      <4>1. c \in Connections /\ "left" \in States
        BY <1>1 DEF States
      <4>2. SubSeq(c.text, 1, c.sent) \in Seq(Char)
        BY <3>2
      <4>3. gone \in Connections /\ gone.sent = c.sent /\ gone.read = c.read
        BY <4>1, WithState, Zenon
      <4> HIDE DEF gone
      <4>4. /\ e \in Connections /\ e.text = SubSeq(c.text, 1, c.sent)
            /\ e.sent = gone.sent /\ e.read = gone.read
        BY <4>2, <4>3, WithText, Zenon
      <4> QED
        BY <4>3, <4>4, Zenon
    <3> HIDE DEF e
    <3>4. e \in Sound
      BY <1>1, <3>2, <3>3 DEF Sound
    <3> QED
      BY <1>1, <3>1, <3>2, <3>3, <3>4
  <2> QED
    BY <2>1, <2>2, <2>3, <2>4 DEF Client
<1>3. activeClient' = activeClient /\ command' = command
  BY DEF Client
<1>4. activeClient /= NoClient => EndsWithRead(conn'[activeClient], command)
  BY <1>1, <1>2 DEF OwnInv, EndsWithRead
<1> QED
  BY <1>2, <1>3, <1>4 DEF OwnInv

\* A client that becomes active has nothing of a line read, and the one it
\* displaces is closed.
LEMMA SelectKeepsOwnInv == OwnInv /\ SelectClient => OwnInv'
<1> SUFFICES ASSUME OwnInv, SelectClient PROVE OwnInv'
  OBVIOUS
<1>0. Sockets \subseteq Nat /\ NoClient \notin Sockets
  BY ServerAssumption DEF NoClient
<1>1. available \in Sockets \cup {NoClient}
  <2>1. Waiting \subseteq Nat /\ Waiting \subseteq Sockets
    BY <1>0 DEF Waiting
  <2> QED
    BY <2>1, MinInSet DEF available
<1>2. /\ \A s \in Sockets : conn'[s] \in {NoConn, conn[s]}
      /\ conn' \in [Sockets -> Sound]
      /\ command' = command /\ command \in Seq(Char)
      /\ activeClient' = IF available = NoClient THEN activeClient ELSE available
  BY NoConnSound DEF SelectClient, OwnInv
<1>3. CASE available \in {NoClient, activeClient}
  <2>1. activeClient' = activeClient
    BY <1>2, <1>3
  <2>2. \A s \in Sockets \ {activeClient} : conn'[s].read = 0
    BY <1>2, NoConnSound DEF OwnInv
  <2>3. activeClient /= NoClient => EndsWithRead(conn'[activeClient], command)
    BY <1>2, NoConnSound, NothingRead DEF OwnInv
  <2> QED
    BY <1>2, <2>1, <2>2, <2>3 DEF OwnInv
<1>4. CASE available \notin {NoClient, activeClient}
  <2>1. activeClient' = available /\ available \in Sockets
    BY <1>1, <1>2, <1>4
  <2>2. \A s \in Sockets : conn'[s].read = 0
    BY <1>2, <1>4, NoConnSound DEF OwnInv, SelectClient
  <2>3. EndsWithRead(conn'[available], command)
    BY <1>2, <2>1, <2>2, NothingRead
  <2> QED
    BY <1>2, <2>1, <2>2, <2>3 DEF OwnInv
<1> QED
  BY <1>3, <1>4

\* The end of process_server(): the active client is kept as c or closed.
LEMMA ReadOnKeepsOwnInv ==
  ASSUME OwnInv, activeClient /= NoClient, NEW c \in Sound, ReadOn(c),
         command' \in Seq(Char), EndsWithRead(c, command')
  PROVE  OwnInv'
<1>0. activeClient \in Sockets /\ NoClient \notin Sockets
  BY ServerAssumption DEF OwnInv, NoClient
<1>1. PICK closed \in BOOLEAN :
        /\ conn' = [conn EXCEPT ![activeClient] = IF closed THEN NoConn ELSE c]
        /\ activeClient' = IF closed THEN NoClient ELSE activeClient
  BY DEF ReadOn
<1>2. conn' \in [Sockets -> Sound]
  BY <1>0, <1>1, NoConnSound DEF OwnInv
<1>3. CASE closed
  BY <1>0, <1>1, <1>2, <1>3, NoConnSound DEF OwnInv
<1>4. CASE ~closed
  BY <1>0, <1>1, <1>2, <1>4 DEF OwnInv
<1> QED
  BY <1>3, <1>4

LEMMA ReadPartKeepsOwnInv == OwnInv /\ ReadPart => OwnInv'
<1> SUFFICES ASSUME OwnInv, ReadPart PROVE OwnInv'
  OBVIOUS
<1> DEFINE c == conn[activeClient]
<1>1. c \in Sound /\ activeClient /= NoClient /\ command \in Seq(Char)
  BY DEF OwnInv, ReadPart, Reading
<1>2. /\ command' = command \o SubSeq(c.text, c.read + 1, c.sent)
      /\ ReadOn([c EXCEPT !.read = c.sent])
  BY DEF ReadPart, Arrived
<1>3. EndsWithRead(c, command)
  BY <1>1 DEF OwnInv
<1> QED
  BY <1>1, <1>2, <1>3, ReadMore, ReadOnKeepsOwnInv

\* After a line end nothing of the next line is read.
LEMMA ReadLineKeepsOwnInv == OwnInv /\ ReadLine => OwnInv'
<1> SUFFICES ASSUME OwnInv, ReadLine PROVE OwnInv'
  OBVIOUS
<1> DEFINE c == conn[activeClient]
           n == Min(Ends)
           rest == SubSeq(c.text, c.read + n + 1, Len(c.text))
           d == NextLine(c, n)
<1>1. /\ c \in Sound /\ activeClient /= NoClient
      /\ c.read \in Nat /\ c.sent \in Nat /\ c.text \in Seq(Char)
      /\ c.read <= c.sent /\ c.sent <= Len(c.text)
  <2>1. c \in Sound /\ activeClient /= NoClient
    BY DEF OwnInv, ReadLine, Reading
  <2> QED
    BY <2>1, SoundBounds
<1>2. Ends \subseteq 1 .. c.sent - c.read
  <2>1. Len(Arrived) = c.sent - c.read /\ Arrived \in Seq(Char)
    BY <1>1, Cut DEF Arrived
  <2> QED
    BY <1>1, <2>1 DEF Ends
<1>3. n \in 1 .. c.sent - c.read
  <2>1. Ends /= {} /\ Ends \subseteq Nat
    BY <1>1, <1>2 DEF ReadLine
  <2> QED
    BY <1>2, <2>1, MinInSet
<1>4. /\ rest \in Seq(Char)
      /\ Len(rest) = Len(c.text) - (c.read + n)
  <2> HIDE DEF n
  <2>1. c.read + n \in Nat /\ c.read + n <= Len(c.text) /\ Len(c.text) \in Nat
    BY <1>1, <1>3
  <2>2. Len(c.text) <= Len(c.text)
    BY <2>1
  <2> QED
    BY <1>1, <2>1, <2>2, Cut, Zenon
<1>5. d \in Sound /\ d.read = 0
  <2> HIDE DEF n, rest
  <2>1. c.sent - (c.read + n) \in Nat /\ c.sent - (c.read + n) <= Len(rest)
    <3>1. \A r, s, t \in Nat : \A x \in 1 .. s - r : s <= t =>
            s - (r + x) \in Nat /\ s - (r + x) <= t - (r + x)
      OBVIOUS
    <3>2. Len(c.text) \in Nat
      BY <1>1, LenProperties, Zenon
    <3> QED
      BY <1>1, <1>3, <1>4, <3>1, <3>2, Zenon
  <2> DEFINE left == c.sent - (c.read + n)
             d1 == [c EXCEPT !.text = rest]
             d2 == [d1 EXCEPT !.sent = left]
  <2>2. d = [d2 EXCEPT !.read = 0]
    BY DEF NextLine, rest
  <2>3. c \in Connections
    BY <1>1, SoundBounds
  <2>4. /\ d \in Connections
        /\ d.text = rest /\ d.sent = c.sent - (c.read + n) /\ d.read = 0
    <3>1. 0 \in Nat /\ left \in Nat
      BY <2>1
    <3> HIDE DEF d, left
    <3>2. d1 \in Connections /\ d1.text = rest
      BY <1>4, <2>3, Fields, Zenon
    <3> HIDE DEF d1
    <3>3. d2 \in Connections /\ d2.text = d1.text /\ d2.sent = left
      BY <3>1, <3>2, Fields, Zenon
    <3> HIDE DEF d2
    <3>4. d \in Connections /\ d.text = d2.text /\ d.sent = d2.sent /\ d.read = 0
      BY <2>2, <3>1, <3>3, Fields, Zenon
    <3> QED
      BY <3>2, <3>3, <3>4, Zenon DEF left
  <2> HIDE DEF d
  <2> QED
    BY <2>1, <2>4 DEF Sound
<1>6. command' = <<>> /\ ReadOn(d)
  BY DEF ReadLine, ExecuteLine
<1>7. command' \in Seq(Char)
  BY <1>6
<1>8. EndsWithRead(d, command')
  BY <1>5, <1>7, NothingRead
<1> QED
  BY <1>1, <1>5, <1>6, <1>7, <1>8, ReadOnKeepsOwnInv

LEMMA NextOwnInv == OwnInv /\ [Next]_vars => OwnInv'
<1> SUFFICES ASSUME OwnInv, [Next]_vars PROVE OwnInv'
  OBVIOUS
<1>1. ASSUME NEW s \in Sockets, Client(s)
      PROVE  OwnInv'
  BY <1>1, ClientKeepsOwnInv
<1>2. CASE SelectClient
  BY <1>2, SelectKeepsOwnInv
<1>3. CASE ReadPart \/ ReadLine
  BY <1>3, ReadPartKeepsOwnInv, ReadLineKeepsOwnInv
<1>4. CASE Overrun \/ NothingActive \/ UNCHANGED vars
  <2>1. UNCHANGED <<conn, activeClient, command>>
    BY <1>4 DEF Overrun, NothingActive, vars
  <2> QED
    BY <2>1 DEF OwnInv
<1>5. CASE Reset
  BY <1>5, NoConnSound DEF Reset, OwnInv
<1> QED
  BY <1>1, <1>2, <1>3, <1>4, <1>5 DEF Next, process_server

-----------------------------------------------------------------------------
(* The number behind 4_ *)

Longs == -(LONG_MAX + 1) .. LONG_MAX

\* A long stays a long when it wraps.
LEMMA ToLongRange ==
  ASSUME NEW n \in Int
  PROVE  ToLong(n) \in Longs
<1> DEFINE m == 2 * (LONG_MAX + 1)
           r == (n + LONG_MAX + 1) % m
<1>1. LONG_MAX \in Nat /\ m \in Nat \ {0} /\ n + LONG_MAX + 1 \in Int
  BY ServerAssumption
<1>2. r \in 0 .. m - 1
  <2> HIDE DEF m
  <2> QED
    BY <1>1
<1>3. r - (LONG_MAX + 1) \in Longs
  <2> HIDE DEF r
  <2> QED
    BY <1>1, <1>2 DEF Longs
<1> QED
  BY <1>3 DEF ToLong

\* Small numbers are longs.
LEMMA SmallLongs == 0 \in Longs /\ 1 \in Longs /\ Longs \subseteq Int
  BY ServerAssumption DEF Longs

\* The powers of ten are what power10() computes.
LEMMA Power10Computed ==
  /\ power10 = [n \in Nat |-> IF n = 0 THEN 1 ELSE ToLong(power10[n - 1] * 10)]
  /\ \A n \in Nat : power10[n] \in Longs
<1> DEFINE step == [n \in Nat |-> [v \in Longs |-> ToLong(v * 10)]]
<1>1. step \in [Nat -> [Longs -> Longs]]
  BY SmallLongs, ToLongRange
<1>2. PICK f : IsRecursion(f, Longs, 1, step)
  <2> HIDE DEF step
  <2> QED
    BY <1>1, SmallLongs, RecursionDefines DEF Rounds
<1>3. ASSUME NEW n \in Nat \ {0}
      PROVE  f[n] = ToLong(f[n - 1] * 10)
  <2>1. n \in Nat /\ n - 1 \in Nat
    OBVIOUS
  <2>2. f[n] = step[n][f[n - 1]] /\ f[n - 1] \in Longs
    BY <1>2, <2>1 DEF IsRecursion
  <2> QED
    BY <2>1, <2>2
<1> HIDE DEF step
<1>4. f = [n \in Nat |-> IF n = 0 THEN 1 ELSE ToLong(f[n - 1] * 10)]
  BY <1>2, <1>3 DEF IsRecursion
<1>5. power10 = [n \in Nat |-> IF n = 0 THEN 1 ELSE ToLong(power10[n - 1] * 10)]
  BY <1>4, Zenon DEF power10
<1> DEFINE S == {n \in Nat : power10[n] \in Longs}
<1>6. 0 \in S
  BY <1>5, SmallLongs
<1>7. ASSUME NEW n \in Nat, n \in S
      PROVE  n + 1 \in S
  <2>1. power10[n + 1] = ToLong(power10[n] * 10)
    <3>1. n + 1 \in Nat /\ n + 1 /= 0 /\ (n + 1) - 1 = n
      OBVIOUS
    <3> QED
      BY <1>5, <3>1
  <2>2. power10[n] * 10 \in Int
    <3>1. power10[n] \in Int
      BY <1>7, SmallLongs
    <3> QED
      BY <3>1
  <2> QED
    BY <2>1, <2>2, ToLongRange
<1>8. Nat \subseteq S
  <2> HIDE DEF S
  <2> QED
    BY <1>6, <1>7, Induction
<1> QED
  BY <1>5, <1>8

\* What str2long() has summed up after each digit.
LEMMA SummedComputed ==
  ASSUME NEW str \in Seq(Char)
  PROVE  /\ Summed(str)[0] = 0
         /\ \A j \in 1 .. Len(str) :
              Summed(str)[j] =
                ToLong(Summed(str)[j - 1] + (str[Len(str) - j + 1] - 48) * power10[j - 1])
         /\ \A j \in 0 .. Len(str) : Summed(str)[j] \in Longs
<1> DEFINE digit(j) == str[Len(str) - j + 1] - 48
           term(j) == IF j \in 1 .. Len(str) THEN digit(j) * power10[j - 1] ELSE 0
           step == [j \in Nat |-> [v \in Longs |-> ToLong(v + term(j))]]
           w == Summed(str)
<1>1. Len(str) \in Nat
  BY LenProperties
<1>2. ASSUME NEW j \in Nat
      PROVE  term(j) \in Int
  <2>1. CASE j \in 1 .. Len(str)
    <3>1. digit(j) \in Int
      <4>1. Len(str) - j + 1 \in 1 .. Len(str)
        BY <1>1, <2>1
      <4>2. str[Len(str) - j + 1] \in Char
        BY <4>1, ElementOfSeq, Zenon
      <4>3. \A ch \in Char : ch - 48 \in Int
        BY DEF Char
      <4> QED
        BY <4>2, <4>3, Zenon
    <3>2. power10[j - 1] \in Int
      <4>1. j - 1 \in Nat
        BY <1>1, <2>1
      <4> QED
        BY <4>1, Power10Computed, SmallLongs, Zenon
    <3>3. \A x, y \in Int : x * y \in Int
      OBVIOUS
    <3>4. digit(j) * power10[j - 1] \in Int
      BY <3>1, <3>2, <3>3, Zenon
    <3> QED
      BY <2>1, <3>4, Zenon
  <2> QED
    BY <2>1
<1>3. step \in [Nat -> [Longs -> Longs]]
  <2> HIDE DEF term
  <2>1. ASSUME NEW j \in Nat, NEW v \in Longs
        PROVE  ToLong(v + term(j)) \in Longs
    <3>1. v + term(j) \in Int
      BY <1>2, SmallLongs
    <3> QED
      BY <3>1, ToLongRange
  <2> QED
    BY <2>1
<1>4. w = [j \in 0 .. Len(str) |->
             IF j = 0 THEN 0 ELSE ToLong(w[j - 1] + digit(j) * power10[j - 1])]
  <2>1. PICK f : IsLoop(f, Longs, 0, step, Len(str))
    <3> HIDE DEF step
    <3> QED
      BY <1>1, <1>3, SmallLongs, RecursionUpTo DEF Rounds
  <2>2. ASSUME NEW j \in 0 .. Len(str), j /= 0
        PROVE  f[j] = ToLong(f[j - 1] + digit(j) * power10[j - 1])
    <3>1. j \in Nat /\ j \in 1 .. Len(str) /\ j - 1 \in 0 .. Len(str)
      BY <1>1, <2>2
    <3>2. f[j - 1] \in Longs /\ f[j] = step[j][f[j - 1]]
      BY <2>1, <3>1 DEF IsLoop
    <3>3. term(j) = digit(j) * power10[j - 1]
      BY <3>1
    <3> HIDE DEF term, digit
    <3> QED
      BY <3>1, <3>2, <3>3
  <2> HIDE DEF step, digit
  <2>3. f = [j \in 0 .. Len(str) |->
               IF j = 0 THEN 0 ELSE ToLong(f[j - 1] + digit(j) * power10[j - 1])]
    BY <2>1, <2>2 DEF IsLoop
  <2> DEFINE value == CHOOSE g : g = [j \in 0 .. Len(str) |->
               IF j = 0 THEN 0 ELSE ToLong(g[j - 1] + digit(j) * power10[j - 1])]
  <2>4. value = [j \in 0 .. Len(str) |->
               IF j = 0 THEN 0 ELSE ToLong(value[j - 1] + digit(j) * power10[j - 1])]
    BY <2>3, Zenon
  <2>5. w = value
    BY DEF Summed, digit
  <2> QED
    BY <2>4, <2>5, Zenon
<1> HIDE DEF step, w
<1>5. w[0] = 0
  BY <1>1, <1>4
<1>6. ASSUME NEW j \in 1 .. Len(str)
      PROVE  w[j] = ToLong(w[j - 1] + digit(j) * power10[j - 1])
  <2> HIDE DEF digit
  <2>1. j \in 0 .. Len(str) /\ j /= 0
    BY <1>1
  <2> QED
    BY <1>4, <2>1
<1> DEFINE S == {j \in 0 .. Len(str) : w[j] \in Longs}
<1>7. 0 \in S
  BY <1>1, <1>5, SmallLongs
<1>8. ASSUME NEW j \in Nat, j \in S, j < Len(str)
      PROVE  j + 1 \in S
  <2>1. j + 1 \in 1 .. Len(str) /\ (j + 1) - 1 = j /\ j + 1 \in 0 .. Len(str)
    BY <1>1, <1>8
  <2>2. w[j + 1] = ToLong(w[j] + term(j + 1))
    <3>1. w[j + 1] = ToLong(w[(j + 1) - 1] + digit(j + 1) * power10[(j + 1) - 1])
      BY <1>6, <2>1, Zenon
    <3>2. term(j + 1) = digit(j + 1) * power10[(j + 1) - 1]
      BY <2>1
    <3> HIDE DEF term, digit
    <3> QED
      BY <2>1, <3>1, <3>2
  <2> HIDE DEF term
  <2>3. w[j] + term(j + 1) \in Int
    <3>1. w[j] \in Int
      BY <1>8, SmallLongs
    <3>2. term(j + 1) \in Int
      BY <1>2, <1>8
    <3> QED
      BY <3>1, <3>2
  <2> QED
    BY <2>1, <2>2, <2>3, ToLongRange
<1>9. 0 .. Len(str) \subseteq S
  <2> HIDE DEF S
  <2> QED
    BY <1>1, <1>7, <1>8, InductionUpTo
<1> QED
  BY <1>5, <1>6, <1>9 DEF w

\* Whatever is typed, str2long() returns a long.
LEMMA Str2longRange ==
  ASSUME NEW str \in Seq(Char)
  PROVE  str2long(str) \in Longs
<1>1. Len(str) \in 0 .. Len(str)
  BY LenProperties
<1>2. \A j \in 0 .. Len(str) : Summed(str)[j] \in Longs
  BY SummedComputed, Zenon
<1> QED
  BY <1>1, <1>2, Zenon DEF str2long

\* A part of a sequence is one.
LEMMA PartOfSeq ==
  ASSUME NEW t \in Seq(Char), NEW a \in Nat \ {0}, NEW b \in Nat, b <= Len(t)
  PROVE  SubSeq(t, a, b) \in Seq(Char)
<1>1. \A k \in a .. b : t[k] \in Char
  <2>1. \A k \in a .. b : k \in 1 .. Len(t)
    BY LenProperties
  <2> QED
    BY <2>1, ElementOfSeq
<1> QED
  BY <1>1, SubSeqProperties

\* What process_command() executes leaves a delay that DoorLock can work with.
LEMMA CommandDelay ==
  ASSUME NEW line \in Seq(Char), delayTime \in 1 .. LONG_MAX, process_command(line)
  PROVE  delayTime' \in 1 .. LONG_MAX
<1> DEFINE cmd == trimwhitespace(line)
           digits == SubSeq(cmd, 3, Len(cmd))
<1>1. cmd \in Seq(Char)
  <2> DEFINE kept == {k \in DOMAIN line : line[k] \notin Space}
  <2>1. Len(line) \in Nat /\ DOMAIN line = 1 .. Len(line)
    BY LenProperties
  <2>2. CASE kept = {}
    BY <2>2 DEF trimwhitespace
  <2>3. CASE kept /= {}
    <3>1. Min(kept) \in kept /\ Max(kept) \in kept
      <4>1. kept \subseteq Nat /\ kept \subseteq 0 .. Len(line)
        BY <2>1
      <4> HIDE DEF kept
      <4> QED
        BY <2>1, <2>3, <4>1, MinInSet, MaxInSet
    <3>2. Min(kept) \in Nat \ {0} /\ Max(kept) \in Nat /\ Max(kept) <= Len(line)
      BY <2>1, <3>1
    <3>3. SubSeq(line, Min(kept), Max(kept)) \in Seq(Char)
      <4> HIDE DEF kept
      <4> QED
        BY <3>2, PartOfSeq
    <3> QED
      BY <2>3, <3>3, Zenon DEF trimwhitespace
  <2> QED
    BY <2>2, <2>3
<1>2. str2long(digits) \in Longs
  <2> HIDE DEF cmd
  <2>1. Len(cmd) \in Nat
    BY <1>1, LenProperties
  <2>2. digits \in Seq(Char)
    BY <1>1, <2>1, PartOfSeq
  <2> HIDE DEF digits
  <2> QED
    BY <2>2, Str2longRange
<1>3. delayTime' \in {delayTime, IF str2long(digits) > 0 THEN str2long(digits) ELSE delayTime}
  BY Zenon DEF process_command, set_delaytime
<1> HIDE DEF digits
<1>4. str2long(digits) > 0 => str2long(digits) \in 1 .. LONG_MAX
  BY <1>2, ServerAssumption DEF Longs
<1> QED
  BY <1>3, <1>4

\* TypeOK, with what it takes to be inductive
ServerInv == OwnInv /\ TypeOK

LEMMA SoundTypes ==
  ASSUME OwnInv
  PROVE  /\ conn \in [Sockets -> Connections]
         /\ activeClient \in Sockets \cup {NoClient}
         /\ command \in Seq(1 .. 127)
  BY DEF OwnInv, Sound, Char

LEMMA NextServerInv == ServerInv /\ [Next]_vars => ServerInv'
<1> SUFFICES ASSUME ServerInv, [Next]_vars PROVE ServerInv'
  OBVIOUS
<1>1. OwnInv /\ TypeOK
  BY DEF ServerInv
<1>2. OwnInv'
  BY <1>1, NextOwnInv
<1>3. /\ conn' \in [Sockets -> Connections]
      /\ activeClient' \in Sockets \cup {NoClient}
      /\ command' \in Seq(1 .. 127)
  BY <1>2 DEF OwnInv, Sound, Char
<1> SUFFICES /\ Len(command') <= COMMAND /\ delayTime' \in 1 .. LONG_MAX
             /\ pc' \in {"select", "read"} /\ overrun' \in BOOLEAN
  BY <1>2, <1>3 DEF ServerInv, TypeOK
<1>4. /\ Len(command) <= COMMAND /\ delayTime \in 1 .. LONG_MAX
      /\ pc \in {"select", "read"} /\ overrun \in BOOLEAN
  BY <1>1 DEF TypeOK
<1>5. COMMAND \in Nat \ {0} /\ DEFAULT_DELAY \in 1 .. LONG_MAX
  BY ServerAssumption
<1>6. ASSUME NEW s \in Sockets, Client(s)
      PROVE  UNCHANGED <<command, delayTime, pc, overrun>>
  BY <1>6 DEF Client
<1>7. CASE SelectClient
  BY <1>4, <1>7 DEF SelectClient
<1>8. CASE ReadLine
  <2>1. PICK line \in {command \o SubSeq(Arrived, 1, Min(Ends) - 1)} : process_command(line)
    BY <1>8 DEF ReadLine, ExecuteLine
  <2>2. SubSeq(Arrived, 1, Min(Ends) - 1) \in Seq(Char)
    <3>1. conn[activeClient] \in Sound
      BY <1>1, <1>8 DEF ReadLine, Reading, OwnInv
    <3>2. Arrived \in Seq(Char)
      BY <3>1, SoundBounds, Cut DEF Arrived
    <3>3. Min(Ends) \in 1 .. Len(Arrived)
      <4>1. Ends \subseteq 1 .. Len(Arrived) /\ Ends /= {}
        BY <1>8, <3>2, LenProperties DEF Ends, ReadLine
      <4>2. Ends \subseteq Nat
        BY <4>1
      <4> QED
        BY <4>1, <4>2, MinInSet
    <3>4. Min(Ends) - 1 \in Nat /\ Min(Ends) - 1 <= Len(Arrived)
      BY <3>2, <3>3, LenProperties
    <3>5. 1 \in Nat \ {0}
      OBVIOUS
    <3> QED
      BY <3>2, <3>4, <3>5, PartOfSeq, Zenon
  <2>3. line \in Seq(Char)
    <3>1. command \in Seq(Char)
      BY <1>1 DEF OwnInv
    <3> QED
      BY <2>2, <3>1, ConcatProperties, Zenon
  <2>4. delayTime' \in 1 .. LONG_MAX
    BY <1>4, <2>1, <2>3, CommandDelay
  <2>5. command' = <<>> /\ pc' = "select" /\ overrun' = overrun
    BY <1>8 DEF ReadLine, ExecuteLine, ReadOn
  <2> QED
    BY <1>4, <1>5, <2>4, <2>5
<1>9. CASE ReadPart
  <2>1. /\ Len(command) + Len(Arrived) <= COMMAND /\ command' = command \o Arrived
        /\ delayTime' = delayTime /\ pc' = "select" /\ overrun' = overrun
    BY <1>9 DEF ReadPart, ReadOn
  <2>2. command \in Seq(Char) /\ Arrived \in Seq(Char)
    <3>1. conn[activeClient] \in Sound
      BY <1>1, <1>9 DEF ReadPart, Reading, OwnInv
    <3> QED
      BY <1>1, <3>1, SoundBounds, Cut DEF Arrived, OwnInv
  <2>3. Len(command') = Len(command) + Len(Arrived)
    BY <2>1, <2>2, ConcatProperties
  <2> QED
    BY <1>4, <2>1, <2>3
<1>10. CASE Overrun
  BY <1>4, <1>10 DEF Overrun
<1>11. CASE NothingActive
  BY <1>4, <1>11 DEF NothingActive
<1>12. CASE Reset
  BY <1>4, <1>5, <1>12 DEF Reset
<1>13. CASE UNCHANGED vars
  BY <1>4, <1>13 DEF vars
<1> QED
  BY <1>4, <1>6, <1>7, <1>8, <1>9, <1>10, <1>11, <1>12, <1>13 DEF Next, process_server

-----------------------------------------------------------------------------
(* Theorems *)

LEMMA InitOwnInv == Init => OwnInv
  BY NoConnSound DEF Init, OwnInv

LEMMA InitServerInv == Init => ServerInv
<1> SUFFICES ASSUME Init PROVE ServerInv
  OBVIOUS
<1>1. COMMAND \in Nat /\ DEFAULT_DELAY \in 1 .. LONG_MAX
  BY ServerAssumption
<1>2. OwnInv
  BY InitOwnInv
<1>3. Len(command) <= COMMAND /\ delayTime \in 1 .. LONG_MAX /\ pc \in {"select", "read"}
      /\ overrun \in BOOLEAN
  <2>1. command = <<>> /\ delayTime = DEFAULT_DELAY /\ pc = "select" /\ overrun = FALSE
    BY DEF Init
  <2>2. Len(command) = 0 /\ 0 <= COMMAND
    BY <1>1, <2>1
  <2>3. Len(command) <= COMMAND
    BY <2>2, Zenon
  <2>4. delayTime \in 1 .. LONG_MAX /\ pc \in {"select", "read"}
    BY <1>1, <2>1
  <2>5. overrun \in BOOLEAN
    BY <2>1, Zenon
  <2> QED
    BY <2>3, <2>4, <2>5
<1> QED
  BY <1>2, <1>3, SoundTypes DEF ServerInv, TypeOK

\* No text that a client can type makes the delay anything but a positive long,
\* and nothing that is read is kept behind the end of the buffer.
THEOREM TypeCorrect == Spec => []TypeOK
<1>1. Init => ServerInv
  BY InitServerInv
<1>2. ServerInv /\ [Next]_vars => ServerInv'
  BY NextServerInv
<1>3. ServerInv => TypeOK
  BY DEF ServerInv
<1> QED
  BY <1>1, <1>2, <1>3, PTL DEF Spec

\* No client's half line is ever continued with another's: whoever is displaced,
\* leaves or connects anew, the buffer ends with what the active client has sent
\* of its current line, and nobody else has a line half read.
THEOREM BufferEndsWithOwnLine == Spec => []OwnLine
<1>1. Init => OwnInv
  BY InitOwnInv
<1>2. OwnInv /\ [Next]_vars => OwnInv'
  BY NextOwnInv
<1>3. OwnInv => OwnLine
  <2> SUFFICES ASSUME OwnInv PROVE OwnLine
    OBVIOUS
  <2>1. CASE activeClient = NoClient
    BY <2>1 DEF OwnInv, OwnLine
  <2>2. CASE activeClient /= NoClient
    <3>1. conn[activeClient] \in Sound /\ ReadOfActive = conn[activeClient].read
      BY <2>2 DEF OwnInv, ReadOfActive
    <3>2. IsSuffix(SubSeq(conn[activeClient].text, 1, ReadOfActive), command)
      BY <2>2, <3>1, SuffixOfRead DEF OwnInv
    <3> QED
      BY <3>2 DEF OwnInv, OwnLine
  <2> QED
    BY <2>1, <2>2
<1> QED
  BY <1>1, <1>2, <1>3, PTL DEF Spec
=============================================================================
