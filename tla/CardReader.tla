----------------------------- MODULE CardReader -----------------------------
(***************************************************************************)
(* The way of a card's code from the reader on Serial1 to the lookup in    *)
(* smartdoor_v8.ino: the reader sends STX, the digits of the code, two     *)
(* digits of checksum, a line end and ETX; the receive interrupt stores    *)
(* the bytes in a ring and drops them while it is full; serialEvent1()     *)
(* takes some of them out in every pass of the loop.  The interrupt comes  *)
(* between any two steps of serialEvent1().                                *)
(*                                                                         *)
(* A digit is a number below RADIX (16 on the board), so two digits are a  *)
(* byte of the checksum.                                                   *)
(***************************************************************************)
EXTENDS Integers, Sequences

CONSTANTS
  RADIX,     \* number of hex digits
  PAIRS,     \* pairs of digits in a code
  RING,      \* bytes the ring of Serial1 holds
  CALL_MAX,  \* bytes one call of serialEvent1() reads at most
  LOST_MAX,  \* bound: bytes that find the ring full
  Codes,     \* the codes of the cards that exist
  NoCode,
  ByteXor(_, _)  \* the ^ of C on bytes

Digits == 0 .. RADIX - 1
STX == RADIX
ETX == RADIX + 1
EOL == RADIX + 2   \* '\r' and '\n'
NUL == RADIX + 3

ASSUME ReaderAssumption ==
  /\ RADIX \in Nat \ {0} /\ PAIRS \in Nat \ {0}
  /\ RING \in Nat \ {0} /\ CALL_MAX \in Nat \ {0} /\ LOST_MAX \in Nat
  /\ \A c \in Codes : c \in Seq(Digits) /\ Len(c) = 2 * PAIRS
  /\ NoCode \notin Codes

ASSUME XorAssumption ==
  \A a, b \in 0 .. RADIX * RADIX - 1 : ByteXor(a, b) \in 0 .. RADIX * RADIX - 1

XorAll(bytes) ==
  LET sum[i \in 0 .. PAIRS] == IF i = 0 THEN 0 ELSE ByteXor(sum[i - 1], bytes[i])
  IN sum[PAIRS]

CodeLen == 2 * PAIRS + 2
CodeIndex == 0 .. CodeLen - 1

VARIABLES
  ring,       \* receive buffer; each byte with, for an ETX, the code of the
              \* frame if all of it was stored (a ghost)
  sending,    \* the bytes of the current frame the reader has yet to send
  card,       \* ghost: the code of the current frame
  damaged,    \* ghost: some byte of the current frame is lost
  lost,       \* ghost: how many bytes have found the ring full
  code, ci,
  phase,      \* "loop", "reading" in the while of serialEvent1(), or
              \* "checking" in check_IDAccess()
  bytesRead,
  checked     \* what process_code() has handed to check_IDAccess()

vars == <<ring, sending, card, damaged, lost,
          code, ci, phase, bytesRead, checked>>
reader == <<sending, card, damaged, lost>>
decoder == <<code, ci, phase, bytesRead, checked>>

-----------------------------------------------------------------------------
(* The reader and the receive interrupt *)

Byte(c, pair) == c[2 * pair - 1] * RADIX + c[2 * pair]
Checksum(c) == XorAll([pair \in 1 .. PAIRS |-> Byte(c, pair)])
Frame(c) ==
  <<STX>> \o c \o <<Checksum(c) \div RADIX, Checksum(c) % RADIX>> \o <<EOL, ETX>>

Present(c) ==
  /\ sending = <<>>
  /\ sending' = Frame(c)
  /\ card' = c
  /\ damaged' = FALSE
  /\ UNCHANGED <<ring, lost, decoder>>

Receive ==
  /\ sending /= <<>>
  /\ sending' = Tail(sending)
  /\ IF Len(ring) < RING
     THEN /\ ring' = Append(ring,
               [byte |-> Head(sending),
                whole |-> IF Head(sending) = ETX /\ ~damaged THEN card ELSE NoCode])
          /\ UNCHANGED <<damaged, lost>>
     ELSE /\ lost < LOST_MAX
          /\ lost' = lost + 1
          /\ damaged' = TRUE
          /\ UNCHANGED ring
  /\ UNCHANGED <<card, decoder>>

-----------------------------------------------------------------------------
(* process_code() *)

\* hexstr2b(); hexchar2b() returns anything for what is no hex digit
hexstr2b(a, b) ==
  IF b \notin Digits THEN 0 .. RADIX * RADIX - 1
  ELSE IF a \notin Digits THEN {h * RADIX + b : h \in Digits}
  ELSE {a * RADIX + b}

\* the values the last pair, the checksum, and the others may be read as
Readings(cd) ==
  {v \in [0 .. PAIRS -> 0 .. RADIX * RADIX - 1] :
     \A i \in 0 .. PAIRS : v[i] \in hexstr2b(cd[2 * i], cd[2 * i + 1])}

ValidTag(v) == v[PAIRS] = XorAll([i \in 1 .. PAIRS |-> v[i - 1]])

\* A valid tag is looked up, which takes some time; then, or if it is not
\* valid, serialEvent1() leaves its loop
process_code(v) ==
  IF ValidTag(v)
  THEN /\ code' = [code EXCEPT ![CodeLen - 2] = EOL, ![CodeLen - 1] = NUL]
       /\ checked' = [k \in 1 .. 2 * PAIRS |-> code[k - 1]]
       /\ phase' = "checking"
  ELSE /\ phase' = "loop"
       /\ UNCHANGED <<code, checked>>

-----------------------------------------------------------------------------
(* serialEvent1() *)

\* Fault: the call waits until there are as many bytes as it may read
WaitForBytes ==
  /\ phase = "loop"
  /\ Len(ring) >= CALL_MAX
  /\ phase' = "reading"
  /\ bytesRead' = 0
  /\ UNCHANGED <<ring, reader, code, ci, checked>>

BeginCall ==
  /\ phase = "loop"
  /\ ring /= <<>>
  /\ phase' = "reading"
  /\ bytesRead' = 0
  /\ UNCHANGED <<ring, reader, code, ci, checked>>

MayRead == phase = "reading" /\ ring /= <<>> /\ bytesRead < CALL_MAX
val == Head(ring).byte

Reads ==
  /\ MayRead
  /\ ring' = Tail(ring)
  /\ UNCHANGED reader

\* Fault: STX does not start a new code
IgnoreStart ==
  /\ Reads
  /\ val = STX
  /\ bytesRead' = bytesRead + 1
  /\ UNCHANGED <<code, ci, phase, checked>>

ReadStart ==
  /\ Reads
  /\ val = STX
  /\ ci' = 0
  /\ bytesRead' = bytesRead + 1
  /\ UNCHANGED <<code, phase, checked>>

ReadLineEnd ==
  /\ Reads
  /\ val = EOL
  /\ bytesRead' = bytesRead + 1
  /\ UNCHANGED <<code, ci, phase, checked>>

ReadEnd ==
  /\ Reads
  /\ val = ETX
  /\ \E v \in Readings(code) : process_code(v)
  /\ bytesRead' = 0
  /\ UNCHANGED ci

\* Fault: digits are counted beyond the end of code
CountDigits ==
  /\ Reads
  /\ val \in Digits
  /\ code' = IF ci < CodeLen THEN [code EXCEPT ![ci] = val] ELSE code
  /\ ci' = ci + 1
  /\ bytesRead' = bytesRead + 1
  /\ UNCHANGED <<phase, checked>>

ReadDigit ==
  /\ Reads
  /\ val \in Digits
  /\ IF ci < CodeLen
     THEN code' = [code EXCEPT ![ci] = val] /\ ci' = ci + 1
     ELSE UNCHANGED <<code, ci>>
  /\ bytesRead' = bytesRead + 1
  /\ UNCHANGED <<phase, checked>>

EndCall ==
  /\ phase = "reading"
  /\ ~MayRead
  /\ phase' = "loop"
  /\ bytesRead' = 0
  /\ UNCHANGED <<ring, reader, code, ci, checked>>

CheckDone ==
  /\ phase = "checking"
  /\ phase' = "loop"
  /\ checked' = NoCode
  /\ UNCHANGED <<ring, reader, code, ci, bytesRead>>

SerialEvent == BeginCall \/ ReadStart \/ ReadLineEnd \/ ReadEnd \/ ReadDigit
               \/ EndCall \/ CheckDone

-----------------------------------------------------------------------------
Init ==
  /\ ring = <<>> /\ sending = <<>> /\ card = NoCode
  /\ damaged = FALSE /\ lost = 0
  /\ code = [i \in CodeIndex |-> NUL]
  /\ ci = 0
  /\ phase = "loop"
  /\ bytesRead = 0
  /\ checked = NoCode

\* The board is reset; the reader goes on with its frame
Reset ==
  /\ ring' = <<>>
  /\ damaged' = (sending /= <<>> /\ sending /= Frame(card))
  /\ code' = [i \in CodeIndex |-> NUL]
  /\ ci' = 0
  /\ phase' = "loop"
  /\ bytesRead' = 0
  /\ checked' = NoCode
  /\ UNCHANGED <<sending, card, lost>>

Next == (\E c \in Codes : Present(c)) \/ Receive \/ SerialEvent \/ Reset

Spec == Init /\ [][Next]_vars

\* serialEvent1() is called as long as there are bytes, and each call goes on
FairSpec == Spec /\ WF_vars(SerialEvent)

-----------------------------------------------------------------------------
(* Properties *)

\* Every variable keeps its type.
TypeOK ==
  /\ ring \in Seq([byte : 0 .. EOL, whole : Codes \cup {NoCode}])
  /\ Len(ring) <= RING
  /\ sending \in Seq(0 .. EOL)
  /\ card \in Codes \cup {NoCode}
  /\ damaged \in BOOLEAN
  /\ lost \in 0 .. LOST_MAX
  /\ code \in [CodeIndex -> Digits \cup {EOL, NUL}]
  /\ ci \in 0 .. CodeLen
  /\ phase \in {"loop", "reading", "checking"}
  /\ checked \in Seq(Digits \cup {EOL, NUL}) \cup {NoCode}
  /\ bytesRead \in 0 .. CALL_MAX

\* Whatever was lost before, on whichever call its bytes are read and whatever
\* is left in code: a frame that is stored completely is decoded to its card's
\* code, which is looked up.
WholeFrameIsChecked ==
  [][ReadEnd /\ Head(ring).whole /= NoCode => checked' = Head(ring).whole]_vars

\* No frame that was stored completely stays in the ring for ever, however its
\* bytes are split into calls and whatever else arrives: again and again none
\* is there, or one is decoded.  As the ring is a queue, the frames before any
\* other one are then decoded in turn, and so is that one.
FramesGetChecked ==
  \/ []<>(\A k \in DOMAIN ring : ring[k].whole = NoCode)
  \/ []<><<ReadEnd /\ Head(ring).whole /= NoCode>>_vars

\* "valid tag code": what passes the checksum test is the code of a card.
ValidTagCode == checked \in Codes \cup {NoCode}
=============================================================================
