--------------------------- MODULE CardReaderProofs ---------------------------
(***************************************************************************)
(* Proofs about CardReader, for every radix, length of a code, set of      *)
(* cards, size of the ring and number of bytes a call reads: whatever is   *)
(* lost, and wherever the interrupt and the resets come, a frame that is   *)
(* stored completely is decoded to the code of its card.                   *)
(***************************************************************************)
EXTENDS CardReader, Recursion, SequenceTheorems, TLAPS

FrameLen == CodeLen + 3

\* How many digits of its code the first n bytes of a frame hold.
DigitsIn(n) == IF n - 1 <= CodeLen THEN n - 1 ELSE CodeLen

\* serialEvent1() has read the first n bytes of the frame of card c: code holds
\* the digits among them, whatever it held before.
Decoded(c, n) ==
  /\ ci = DigitsIn(n)
  /\ \A k \in CodeIndex : k < ci => code[k] = Frame(c)[k + 2]

\* The first m bytes of the frame of c are in the ring up to its position k; if
\* they are more than k, those before have been read.
EndsAt(c, m, k) ==
  /\ \A j \in 1 .. m : k - m + j >= 1 => ring[k - m + j].byte = Frame(c)[j]
  /\ m > k => Decoded(c, m - k)

\* The reader is in the middle of a frame of its card.
SendingFrame ==
  /\ sending \in Seq(0 .. EOL) /\ Len(sending) <= FrameLen
  /\ sending /= <<>> => card \in Codes
  /\ \A j \in 1 .. Len(sending) :
       sending[j] = Frame(card)[FrameLen - Len(sending) + j]

\* The end of a whole frame comes after all of its other bytes, and so do, up
\* to now, the bytes of a frame of which none is lost.
IInv ==
  /\ TypeOK
  /\ SendingFrame
  /\ \A k \in 1 .. Len(ring) :
       ring[k].whole /= NoCode => EndsAt(ring[k].whole, FrameLen, k)
  /\ sending /= <<>> /\ ~damaged => EndsAt(card, FrameLen - Len(sending), Len(ring))

-----------------------------------------------------------------------------
(* The frame of a card *)

\* A byte has two digits.
LEMMA TwoDigits ==
  ASSUME NEW x \in 0 .. RADIX * RADIX - 1
  PROVE  /\ x \div RADIX \in Digits /\ x % RADIX \in Digits
         /\ (x \div RADIX) * RADIX + (x % RADIX) = x
<1> DEFINE q == x \div RADIX
<1>1. RADIX \in Nat /\ RADIX > 0 /\ x \in Nat /\ RADIX * RADIX \in Nat
      /\ x < RADIX * RADIX
  BY ReaderAssumption
<1>2. q \in Int /\ x % RADIX \in 0 .. RADIX - 1 /\ x = RADIX * q + (x % RADIX)
  BY <1>1
<1> HIDE DEF q
<1>3. q >= 0
  <2> SUFFICES ASSUME q <= -1 PROVE FALSE
    BY <1>2
  <2>1. RADIX * q <= -RADIX
    BY <1>1, <1>2
  <2> QED
    BY <1>1, <1>2, <2>1
<1>4. q < RADIX
  <2> SUFFICES ASSUME q >= RADIX PROVE FALSE
    BY <1>1, <1>2
  <2>1. RADIX * q >= RADIX * RADIX
    BY <1>1, <1>2
  <2> QED
    BY <1>1, <1>2, <2>1
<1>5. q * RADIX = RADIX * q
  BY <1>1, <1>2
<1> QED
  BY <1>1, <1>2, <1>3, <1>4, <1>5 DEF Digits, q

\* A byte of two digits is below RADIX * RADIX.
LEMMA ByteOfDigits ==
  ASSUME NEW h \in Digits, NEW l \in Digits
  PROVE  h * RADIX + l \in 0 .. RADIX * RADIX - 1
<1>1. RADIX \in Nat /\ RADIX > 0 /\ h \in Nat /\ l \in Nat /\ h <= RADIX - 1 /\ l <= RADIX - 1
  BY ReaderAssumption DEF Digits
<1>2. h * RADIX <= (RADIX - 1) * RADIX /\ h * RADIX \in Nat
  BY <1>1
<1>3. (RADIX - 1) * RADIX = RADIX * RADIX - RADIX
  BY <1>1
<1> QED
  BY <1>1, <1>2, <1>3

\* The loop that adds up the checksum is defined for any number of bytes, and
\* bytes that are combined bit by bit are a byte.
LEMMA XorIsByte ==
  ASSUME NEW bytes \in [1 .. PAIRS -> 0 .. RADIX * RADIX - 1]
  PROVE  XorAll(bytes) \in 0 .. RADIX * RADIX - 1
<1> DEFINE Bytes == 0 .. RADIX * RADIX - 1
           term(n) == IF n \in 1 .. PAIRS THEN bytes[n] ELSE 0
           step == [n \in Nat |-> [v \in Bytes |-> ByteXor(v, term(n))]]
           Sums(f) == f = [i \in 0 .. PAIRS |->
                             IF i = 0 THEN 0 ELSE ByteXor(f[i - 1], bytes[i])]
<1>1. PAIRS \in Nat /\ 0 \in Bytes
  <2>1. RADIX \in Nat /\ RADIX > 0
    BY ReaderAssumption
  <2>2. RADIX * RADIX \in Nat /\ RADIX * RADIX > 0
    BY <2>1
  <2> QED
    BY <2>2, ReaderAssumption
<1>2. ASSUME NEW n \in Nat
      PROVE  term(n) \in Bytes
  <2> HIDE DEF Bytes
  <2>1. bytes \in [1 .. PAIRS -> Bytes]
    BY DEF Bytes
  <2> QED
    BY <1>1, <2>1
<1>3. step \in [Nat -> [Bytes -> Bytes]]
  <2>1. \A a, b \in Bytes : ByteXor(a, b) \in Bytes
    BY XorAssumption
  <2> HIDE DEF term, Bytes
  <2> QED
    BY <1>2, <2>1
<1> HIDE DEF Bytes
<1>4. PICK f : IsLoop(f, Bytes, 0, step, PAIRS)
  <2> HIDE DEF step
  <2> QED
    BY <1>1, <1>3, RecursionUpTo DEF Rounds
<1>5. ASSUME NEW i \in 0 .. PAIRS, i /= 0
      PROVE  f[i] = ByteXor(f[i - 1], bytes[i])
  <2>1. i \in Nat /\ i \in 1 .. PAIRS /\ i - 1 \in 0 .. PAIRS
    BY <1>1, <1>5
  <2>2. f[i - 1] \in Bytes /\ f[i] = step[i][f[i - 1]]
    BY <1>4, <2>1 DEF IsLoop
  <2>3. term(i) = bytes[i]
    BY <2>1
  <2> HIDE DEF term
  <2> QED
    BY <2>1, <2>2, <2>3
<1>6. Sums(f)
  <2> HIDE DEF step
  <2> QED
    BY <1>4, <1>5 DEF IsLoop
<1>7. ASSUME NEW g, Sums(g)
      PROVE  g[PAIRS] \in Bytes
  <2> DEFINE S == {i \in 0 .. PAIRS : g[i] \in Bytes}
  <2>1. g[0] = 0 /\ \A i \in 1 .. PAIRS : g[i] = ByteXor(g[i - 1], bytes[i])
    BY <1>1, <1>7
  <2>2. 0 \in S
    BY <1>1, <2>1
  <2>3. ASSUME NEW i \in Nat, i \in S, i < PAIRS
        PROVE  i + 1 \in S
    <3>1. i + 1 \in 1 .. PAIRS /\ i + 1 \in 0 .. PAIRS /\ (i + 1) - 1 = i
      BY <1>1, <2>3
    <3>2. g[i] \in Bytes /\ bytes[i + 1] \in Bytes
      BY <2>3, <3>1 DEF Bytes
    <3>3. g[i + 1] = ByteXor(g[i], bytes[i + 1])
      BY <2>1, <3>1
    <3>4. ByteXor(g[i], bytes[i + 1]) \in Bytes
      BY <3>2, XorAssumption DEF Bytes
    <3> QED
      BY <3>1, <3>3, <3>4
  <2> HIDE DEF S
  <2>4. 0 .. PAIRS \subseteq S
    BY <1>1, <2>2, <2>3, InductionUpTo
  <2> QED
    BY <1>1, <2>4 DEF S
<1>8. Sums(CHOOSE g : Sums(g))
  <2> HIDE DEF Sums
  <2> QED
    BY <1>6, Zenon
<1>9. XorAll(bytes) = (CHOOSE g : Sums(g))[PAIRS]
  BY DEF XorAll
<1> HIDE DEF Sums
<1> QED
  BY <1>7, <1>8, <1>9, Zenon DEF Bytes

\* The checksum of a card is a byte.
LEMMA ChecksumIsByte ==
  ASSUME NEW c \in Codes
  PROVE  Checksum(c) \in 0 .. RADIX * RADIX - 1
<1>1. ASSUME NEW pair \in 1 .. PAIRS
      PROVE  Byte(c, pair) \in 0 .. RADIX * RADIX - 1
  <2>1. 2 * pair - 1 \in 1 .. 2 * PAIRS /\ 2 * pair \in 1 .. 2 * PAIRS
    BY ReaderAssumption
  <2>2. c[2 * pair - 1] \in Digits /\ c[2 * pair] \in Digits
    BY <2>1, ReaderAssumption
  <2> QED
    BY <2>2, ByteOfDigits DEF Byte
<1>2. [pair \in 1 .. PAIRS |-> Byte(c, pair)] \in [1 .. PAIRS -> 0 .. RADIX * RADIX - 1]
  BY <1>1
<1> QED
  BY <1>2, XorIsByte DEF Checksum

\* Two bytes after a sequence.
LEMMA AppendedPair ==
  ASSUME NEW S, NEW s \in Seq(S), NEW pair \in Seq(S), Len(pair) = 2
  PROVE  /\ s \o pair \in Seq(S) /\ Len(s \o pair) = Len(s) + 2
         /\ \A j \in 1 .. Len(s) : (s \o pair)[j] = s[j]
         /\ (s \o pair)[Len(s) + 1] = pair[1] /\ (s \o pair)[Len(s) + 2] = pair[2]
<1>1. PICK n : n = Len(s) /\ n \in Nat
  OBVIOUS
<1>2. PICK w : w = s \o pair
  OBVIOUS
<1>3. /\ s \o pair \in Seq(S) /\ Len(s \o pair) = Len(s) + Len(pair)
      /\ \A i \in 1 .. Len(s) + Len(pair) :
           (s \o pair)[i] = IF i <= Len(s) THEN s[i] ELSE pair[i - Len(s)]
  BY ConcatProperties, Zenon
<1>4. /\ w \in Seq(S) /\ Len(w) = n + 2
      /\ \A i \in 1 .. n + 2 : w[i] = IF i <= n THEN s[i] ELSE pair[i - n]
  BY <1>1, <1>2, <1>3, Zenon
<1>5. \A j \in 1 .. n : j \in 1 .. n + 2 /\ j <= n
  BY <1>1
<1>6. \A j \in 1 .. n : w[j] = s[j]
  BY <1>4, <1>5, Zenon
<1>7. /\ n + 1 \in 1 .. n + 2 /\ ~(n + 1 <= n) /\ (n + 1) - n = 1
      /\ n + 2 \in 1 .. n + 2 /\ ~(n + 2 <= n) /\ (n + 2) - n = 2
  BY <1>1
<1>8. w[n + 1] = pair[1] /\ w[n + 2] = pair[2]
  BY <1>4, <1>7, Zenon
<1> QED
  BY <1>1, <1>2, <1>4, <1>6, <1>8, Zenon

\* The bytes of a frame, in their order.
LEMMA FrameBytes ==
  ASSUME NEW c \in Codes
  PROVE  /\ Frame(c) \in Seq(0 .. EOL) /\ Len(Frame(c)) = FrameLen
         /\ Frame(c)[1] = STX
         /\ \A j \in 1 .. 2 * PAIRS : Frame(c)[j + 1] = c[j]
         /\ Frame(c)[CodeLen] = Checksum(c) \div RADIX
         /\ Frame(c)[CodeLen + 1] = Checksum(c) % RADIX
         /\ \A j \in 2 .. CodeLen + 1 : Frame(c)[j] \in Digits
         /\ Frame(c)[CodeLen + 2] = EOL /\ Frame(c)[CodeLen + 3] = ETX
<1>1. PAIRS \in Nat /\ RADIX \in Nat /\ c \in Seq(Digits) /\ Len(c) = 2 * PAIRS
  BY ReaderAssumption
<1>2. PICK hi, lo : hi = Checksum(c) \div RADIX /\ lo = Checksum(c) % RADIX
  OBVIOUS
<1>3. hi \in Digits /\ lo \in Digits
  BY <1>2, ChecksumIsByte, TwoDigits
<1>4. Digits \subseteq 0 .. EOL /\ {STX, ETX, EOL} \subseteq 0 .. EOL
  BY <1>1 DEF Digits, STX, ETX, EOL
<1>5. c \in Seq(0 .. EOL) /\ Len(c) = 2 * PAIRS
  BY <1>1, <1>4, SeqMonotonic
<1> DEFINE f == <<STX>> \o c \o <<hi, lo>> \o <<EOL, ETX>>
<1>6. Frame(c) = f
  BY <1>2 DEF Frame
<1>7. <<STX>> \in Seq(0 .. EOL) /\ <<hi, lo>> \in Seq(0 .. EOL) /\ <<EOL, ETX>> \in Seq(0 .. EOL)
  BY <1>3, <1>4
<1>8. f \in Seq(0 .. EOL) /\ Len(f) = 2 * PAIRS + 5
  BY <1>1, <1>5, <1>7
<1>9. /\ f[1] = STX /\ \A j \in 1 .. 2 * PAIRS : f[j + 1] = c[j]
      /\ f[2 * PAIRS + 2] = hi /\ f[2 * PAIRS + 3] = lo
      /\ f[2 * PAIRS + 4] = EOL /\ f[2 * PAIRS + 5] = ETX
  <2> DEFINE f1 == <<STX>> \o c
             check == <<hi, lo>>
             ends == <<EOL, ETX>>
             f2 == f1 \o check
  <2>1. /\ f1 \in Seq(0 .. EOL) /\ Len(f1) = 2 * PAIRS + 1
        /\ f1[1] = STX /\ \A j \in 1 .. 2 * PAIRS : f1[j + 1] = c[j]
    BY <1>1, <1>5, <1>7, ConcatProperties
  <2> HIDE DEF f1
  <2>2. /\ check \in Seq(0 .. EOL) /\ Len(check) = 2 /\ check[1] = hi /\ check[2] = lo
        /\ ends \in Seq(0 .. EOL) /\ Len(ends) = 2 /\ ends[1] = EOL /\ ends[2] = ETX
    BY <1>7
  <2> HIDE DEF check, ends
  <2>3. /\ f2 \in Seq(0 .. EOL) /\ Len(f2) = 2 * PAIRS + 3
        /\ \A j \in 1 .. 2 * PAIRS + 1 : f2[j] = f1[j]
        /\ f2[2 * PAIRS + 2] = hi /\ f2[2 * PAIRS + 3] = lo
    <3>1. /\ f2 \in Seq(0 .. EOL) /\ Len(f2) = Len(f1) + 2
          /\ \A j \in 1 .. Len(f1) : f2[j] = f1[j]
          /\ f2[Len(f1) + 1] = check[1] /\ f2[Len(f1) + 2] = check[2]
      BY <2>1, <2>2, AppendedPair
    <3> HIDE DEF f2
    <3> QED
      BY <1>1, <2>1, <2>2, <3>1
  <2> HIDE DEF f2
  <2> DEFINE f3 == f2 \o ends
  <2>4. /\ \A j \in 1 .. 2 * PAIRS + 3 : f3[j] = f2[j]
        /\ f3[2 * PAIRS + 4] = EOL /\ f3[2 * PAIRS + 5] = ETX
    <3>1. /\ \A j \in 1 .. Len(f2) : f3[j] = f2[j]
          /\ f3[Len(f2) + 1] = ends[1] /\ f3[Len(f2) + 2] = ends[2]
      <4>1. f2 \in Seq(0 .. EOL) /\ ends \in Seq(0 .. EOL) /\ Len(ends) = 2
        BY <2>2, <2>3
      <4> QED
        BY <4>1, AppendedPair
    <3> HIDE DEF f3
    <3> QED
      BY <1>1, <2>2, <2>3, <3>1
  <2>5. f = f3
    BY DEF f1, f2, check, ends
  <2> HIDE DEF f, f3
  <2> QED
    BY <1>1, <2>1, <2>3, <2>4, <2>5
<1>10. \A j \in 2 .. 2 * PAIRS + 3 : f[j] \in Digits
  <2> SUFFICES ASSUME NEW j \in 2 .. 2 * PAIRS + 3 PROVE f[j] \in Digits
    OBVIOUS
  <2>1. CASE j = 2 * PAIRS + 2 \/ j = 2 * PAIRS + 3
    BY <1>3, <1>9, <2>1
  <2>2. CASE j < 2 * PAIRS + 2
    <3>1. j - 1 \in 1 .. 2 * PAIRS /\ (j - 1) + 1 = j
      BY <1>1, <2>2
    <3>2. f[j] = c[j - 1]
      BY <1>9, <3>1, Zenon
    <3> QED
      BY <1>1, <3>1, <3>2
  <2> QED
    BY <1>1, <2>1, <2>2
<1> HIDE DEF f
<1> QED
  BY <1>1, <1>2, <1>6, <1>8, <1>9, <1>10 DEF FrameLen, CodeLen

-----------------------------------------------------------------------------
(* Bytes that arrive and bytes that are read *)

\* The kinds of bytes differ.
LEMMA ByteKinds ==
  /\ STX \notin Digits /\ ETX \notin Digits /\ EOL \notin Digits
  /\ STX /= ETX /\ STX /= EOL /\ ETX /= EOL
  /\ CodeLen \in Nat /\ CodeLen >= 4 /\ FrameLen = CodeLen + 3
  BY ReaderAssumption DEF Digits, STX, ETX, EOL, CodeLen, FrameLen

\* One of the actions that read a byte is taken.
ReadByte == ReadStart \/ ReadLineEnd \/ ReadEnd \/ ReadDigit

LEMMA ReadTakesFirst ==
  ASSUME TypeOK, ReadByte
  PROVE  /\ Len(ring) \in Nat /\ Len(ring) >= 1 /\ val = ring[1].byte
         /\ ring' \in Seq([byte : 0 .. EOL, whole : Codes \cup {NoCode}])
         /\ Len(ring') = Len(ring) - 1
         /\ \A i \in 1 .. Len(ring) - 1 : ring'[i] = ring[i + 1]
         /\ UNCHANGED <<sending, card, damaged, lost>>
<1>1. ring /= <<>> /\ ring' = Tail(ring) /\ UNCHANGED <<sending, card, damaged, lost>>
  BY DEF ReadByte, ReadStart, ReadLineEnd, ReadEnd, ReadDigit, Reads, MayRead, reader
<1>2. ring \in Seq([byte : 0 .. EOL, whole : Codes \cup {NoCode}])
  BY DEF TypeOK
<1>3. Len(ring) \in Nat /\ Len(ring) >= 1 /\ Head(ring) = ring[1]
  BY <1>1, <1>2, EmptySeq
<1> QED
  BY <1>1, <1>2, <1>3, HeadTailProperties DEF val

\* What is read next of a frame is decoded, too, unless it is its last byte.
LEMMA ReadDecodes ==
  ASSUME TypeOK, ReadByte, NEW c \in Codes, NEW n \in 0 .. FrameLen - 2,
         val = Frame(c)[n + 1], n > 0 => Decoded(c, n)
  PROVE  Decoded(c, n + 1)'
<1>1. /\ val = STX => ReadStart
      /\ val = EOL => ReadLineEnd
      /\ val \in Digits => ReadDigit
  BY ByteKinds DEF ReadByte, ReadStart, ReadLineEnd, ReadEnd, ReadDigit
<1>2. CASE n = 0
  <2>1. ci' = 0
    BY <1>1, <1>2, FrameBytes DEF ReadStart
  <2>2. DigitsIn(1) = 0
    BY ByteKinds DEF DigitsIn
  <2> QED
    BY <1>2, <2>1, <2>2, ByteKinds DEF Decoded, CodeIndex
<1>3. CASE n \in 1 .. CodeLen
  <2>1. val \in Digits
    <3>1. n + 1 \in 2 .. CodeLen + 1
      BY <1>3, ByteKinds
    <3> QED
      BY <3>1, FrameBytes
  <2>2. ci = n - 1 /\ ci < CodeLen /\ ci \in CodeIndex
    BY <1>3, ByteKinds DEF Decoded, DigitsIn, CodeIndex
  <2>3. code' = [code EXCEPT ![ci] = val] /\ ci' = n
    BY <1>1, <1>3, <2>1, <2>2 DEF ReadDigit
  <2>4. DigitsIn(n + 1) = n
    BY <1>3, ByteKinds DEF DigitsIn
  <2>5. \A k \in CodeIndex : k < n => code'[k] = Frame(c)[k + 2]
    <3> SUFFICES ASSUME NEW k \in CodeIndex, k < n PROVE code'[k] = Frame(c)[k + 2]
      OBVIOUS
    <3>1. CASE k = n - 1
      BY <1>3, <2>2, <2>3, <3>1, ByteKinds DEF TypeOK, CodeIndex
    <3>2. CASE k < n - 1
      BY <1>3, <2>2, <2>3, <3>2 DEF Decoded, TypeOK
    <3> QED
      BY <1>3, <3>1, <3>2, ByteKinds DEF CodeIndex
  <2> QED
    BY <2>3, <2>4, <2>5 DEF Decoded
<1>4. CASE n = CodeLen + 1
  <2>1. val = EOL
    BY <1>4, FrameBytes, ByteKinds
  <2>2. UNCHANGED <<code, ci>>
    BY <1>1, <2>1 DEF ReadLineEnd
  <2>3. DigitsIn(n + 1) = DigitsIn(n) /\ n > 0
    BY <1>4, ByteKinds DEF DigitsIn
  <2> QED
    BY <2>2, <2>3 DEF Decoded
<1> QED
  BY <1>2, <1>3, <1>4, ByteKinds

\* Reading a byte moves the frames in the ring forward by one.
LEMMA ReadMovesFrames ==
  ASSUME TypeOK, ReadByte, NEW c \in Codes, NEW m \in 0 .. FrameLen,
         NEW k \in 1 .. Len(ring), m < FrameLen \/ k > 1, EndsAt(c, m, k)
  PROVE  EndsAt(c, m, k - 1)'
<1>1. \A j \in 1 .. m : (k - 1) - m + j >= 1 => ring'[(k - 1) - m + j].byte = Frame(c)[j]
  <2> SUFFICES ASSUME NEW j \in 1 .. m, (k - 1) - m + j >= 1
               PROVE  ring'[(k - 1) - m + j].byte = Frame(c)[j]
    OBVIOUS
  <2>1. /\ (k - 1) - m + j \in 1 .. Len(ring) - 1
        /\ ((k - 1) - m + j) + 1 = k - m + j /\ k - m + j >= 1
    BY ReadTakesFirst, ByteKinds
  <2>2. ring'[(k - 1) - m + j] = ring[k - m + j]
    BY <2>1, ReadTakesFirst
  <2> QED
    BY <2>1, <2>2 DEF EndsAt
<1>2. ASSUME m > k - 1
      PROVE  Decoded(c, m - (k - 1))'
  <2>1. PICK n : n = m - k
    OBVIOUS
  <2>2. n \in 0 .. FrameLen - 2 /\ n + 1 = m - (k - 1)
    BY <1>2, <2>1, ReadTakesFirst, ByteKinds
  <2>3. n + 1 \in 1 .. m /\ k - m + (n + 1) = 1
    BY <1>2, <2>1, ReadTakesFirst, ByteKinds
  <2>4. val = Frame(c)[n + 1]
    BY <2>3, ReadTakesFirst DEF EndsAt
  <2>5. n > 0 => Decoded(c, n)
    BY <2>1, <2>2, ReadTakesFirst, ByteKinds DEF EndsAt
  <2>6. Decoded(c, n + 1)'
    BY <2>2, <2>4, <2>5, ReadDecodes
  <2> QED
    BY <2>2, <2>6
<1> QED
  BY <1>1, <1>2 DEF EndsAt

-----------------------------------------------------------------------------
(* The invariant *)

LEMMA InitIInv == Init => IInv
<1> SUFFICES ASSUME Init PROVE IInv
  OBVIOUS
<1>1. /\ ring = <<>> /\ sending = <<>> /\ card = NoCode /\ damaged = FALSE /\ ci = 0
      /\ lost = 0
      /\ code = [i \in CodeIndex |-> NUL] /\ phase = "loop" /\ bytesRead = 0
      /\ checked = NoCode /\ Len(ring) = 0 /\ Len(sending) = 0
  BY DEF Init
<1>2. TypeOK
  <2>1. ring \in Seq([byte : 0 .. EOL, whole : Codes \cup {NoCode}])
        /\ sending \in Seq(0 .. EOL)
    BY <1>1
  <2>2. /\ 0 \in 0 .. CodeLen /\ 0 \in 0 .. CALL_MAX /\ 0 <= RING
        /\ 0 \in 0 .. LOST_MAX
    BY ByteKinds, ReaderAssumption
  <2> QED
    BY <1>1, <2>1, <2>2 DEF TypeOK
<1>3. SendingFrame
  BY <1>1, <1>2, ByteKinds DEF SendingFrame, TypeOK
<1> QED
  BY <1>1, <1>2, <1>3 DEF IInv

\* A reset empties the ring; of the frame being sent it loses what has arrived.
LEMMA ResetKeepsIInv ==
  ASSUME IInv, Reset
  PROVE  IInv'
<1>1. /\ ring' = <<>> /\ code' = [i \in CodeIndex |-> NUL] /\ ci' = 0
      /\ phase' = "loop" /\ bytesRead' = 0 /\ checked' = NoCode
      /\ damaged' = (sending /= <<>> /\ sending /= Frame(card))
      /\ UNCHANGED <<sending, card, lost>> /\ Len(ring') = 0
  BY DEF Reset
<1>2. TypeOK'
  <2>1. ring' \in Seq([byte : 0 .. EOL, whole : Codes \cup {NoCode}])
    BY <1>1
  <2>2. 0 \in 0 .. CodeLen /\ 0 \in 0 .. CALL_MAX /\ 0 <= RING
    BY ByteKinds, ReaderAssumption
  <2>3. damaged' \in BOOLEAN
    BY <1>1, Zenon
  <2> QED
    BY <1>1, <2>1, <2>2, <2>3 DEF TypeOK, IInv
<1>3. SendingFrame'
  BY <1>1 DEF SendingFrame, IInv
<1>4. ASSUME sending' /= <<>>, ~damaged'
      PROVE  EndsAt(card, FrameLen - Len(sending), Len(ring))'
  <2>1. sending = Frame(card) /\ card \in Codes
    BY <1>1, <1>4 DEF IInv, SendingFrame
  <2>2. Len(sending) = FrameLen
    BY <2>1, FrameBytes
  <2>3. FrameLen - Len(sending') = 0
    BY <1>1, <2>2, ByteKinds
  <2> QED
    BY <1>1, <2>3 DEF EndsAt
<1> QED
  BY <1>1, <1>2, <1>3, <1>4 DEF IInv

\* A frame begins with none of its bytes in the ring.
LEMMA PresentKeepsIInv ==
  ASSUME IInv, NEW c \in Codes, Present(c)
  PROVE  IInv'
<1>1. /\ sending' = Frame(c) /\ card' = c /\ damaged' = FALSE
      /\ UNCHANGED <<ring, lost, code, ci, phase, bytesRead, checked>>
  BY DEF Present, decoder
<1>2. Frame(c) \in Seq(0 .. EOL) /\ Len(Frame(c)) = FrameLen
  BY FrameBytes
<1>3. TypeOK'
  BY <1>1, <1>2 DEF IInv, TypeOK
<1>4. SendingFrame'
  BY <1>1, <1>2, ByteKinds DEF SendingFrame
<1>5. \A k \in 1 .. Len(ring)' :
        ring'[k].whole /= NoCode => EndsAt(ring[k].whole, FrameLen, k)'
  BY <1>1 DEF IInv, EndsAt, Decoded
<1>6. EndsAt(card, FrameLen - Len(sending), Len(ring))'
  <2>1. FrameLen - Len(sending') = 0
    BY <1>1, <1>2, ByteKinds
  <2>2. Len(ring') \in Nat
    BY <1>1 DEF IInv, TypeOK
  <2> QED
    BY <2>1, <2>2 DEF EndsAt
<1> QED
  BY <1>3, <1>4, <1>5, <1>6 DEF IInv

\* A byte that is stored comes behind the bytes of its frame that were stored
\* before; the last one is marked if none of them was lost.
LEMMA ReceiveKeepsIInv ==
  ASSUME IInv, Receive
  PROVE  IInv'
<1>1. /\ sending \in Seq(0 .. EOL) /\ sending /= <<>> /\ card \in Codes
      /\ sending' = Tail(sending) /\ Len(sending) \in 1 .. FrameLen
      /\ sending' \in Seq(0 .. EOL) /\ Len(sending') = Len(sending) - 1
      /\ \A j \in 1 .. Len(sending) - 1 : sending'[j] = sending[j + 1]
      /\ Head(sending) = sending[1] /\ Head(sending) \in 0 .. EOL
      /\ UNCHANGED <<card, code, ci, phase, bytesRead, checked>>
      /\ ring \in Seq([byte : 0 .. EOL, whole : Codes \cup {NoCode}])
      /\ Len(ring) \in Nat
  <2>1. sending \in Seq(0 .. EOL) /\ sending /= <<>> /\ sending' = Tail(sending)
        /\ UNCHANGED <<card, code, ci, phase, bytesRead, checked>>
    BY DEF Receive, IInv, SendingFrame, decoder
  <2>2. Len(sending) \in 1 .. FrameLen
    BY <2>1, EmptySeq, ByteKinds DEF IInv, SendingFrame
  <2>3. /\ sending' \in Seq(0 .. EOL) /\ Len(sending') = Len(sending) - 1
        /\ \A j \in 1 .. Len(sending') : sending'[j] = sending[j + 1]
        /\ Head(sending) \in 0 .. EOL
    BY <2>1, HeadTailProperties
  <2>4. Head(sending) = sending[1]
    BY <2>1
  <2>5. ring \in Seq([byte : 0 .. EOL, whole : Codes \cup {NoCode}])
    BY DEF IInv, TypeOK
  <2>6. card \in Codes
    BY <2>1 DEF IInv, SendingFrame
  <2> QED
    BY <2>1, <2>2, <2>3, <2>4, <2>5, <2>6
<1>2. SendingFrame'
  <2>1. ASSUME NEW j \in 1 .. Len(sending')
        PROVE  sending'[j] = Frame(card)[FrameLen - Len(sending') + j]
    <3>1. j \in 1 .. Len(sending) - 1 /\ j + 1 \in 1 .. Len(sending)
          /\ FrameLen - Len(sending') + j = FrameLen - Len(sending) + (j + 1)
      BY <1>1, ByteKinds
    <3> QED
      BY <1>1, <3>1 DEF IInv, SendingFrame
  <2> QED
    BY <1>1, <2>1, ByteKinds DEF SendingFrame
<1>3. PICK m : m = FrameLen - Len(sending)
  OBVIOUS
<1>4. m \in 0 .. FrameLen - 1 /\ FrameLen - Len(sending') = m + 1
      /\ Head(sending) = Frame(card)[m + 1]
  <2>1. m \in 0 .. FrameLen - 1 /\ FrameLen - Len(sending') = m + 1
    BY <1>1, <1>3, ByteKinds
  <2>2. 1 \in 1 .. Len(sending)
    BY <1>1, ByteKinds
  <2> QED
    BY <1>1, <1>3, <2>1, <2>2 DEF IInv, SendingFrame
<1>5. CASE Len(ring) >= RING
  <2>1. /\ UNCHANGED ring /\ damaged' = TRUE
        /\ lost < LOST_MAX /\ lost' = lost + 1
    BY <1>1, <1>5, ReaderAssumption DEF Receive
  <2>2. TypeOK'
    <3>1. lost' \in 0 .. LOST_MAX
      BY <2>1, ReaderAssumption DEF IInv, TypeOK
    <3> QED
      BY <1>1, <2>1, <3>1 DEF IInv, TypeOK
  <2>3. \A k \in 1 .. Len(ring)' :
          ring'[k].whole /= NoCode => EndsAt(ring[k].whole, FrameLen, k)'
    BY <1>1, <2>1 DEF IInv, EndsAt, Decoded
  <2> QED
    BY <1>2, <2>1, <2>2, <2>3 DEF IInv
<1>6. CASE Len(ring) < RING
  <2>1. PICK b : b = [byte |-> Head(sending),
                      whole |-> IF Head(sending) = ETX /\ ~damaged THEN card ELSE NoCode]
    OBVIOUS
  <2>2. ring' = Append(ring, b) /\ UNCHANGED <<damaged, lost>>
    BY <1>6, <2>1 DEF Receive
  <2>3. /\ b \in [byte : 0 .. EOL, whole : Codes \cup {NoCode}]
        /\ b.byte = Frame(card)[m + 1]
        /\ b.whole /= NoCode => b.whole = card /\ b.byte = ETX /\ ~damaged
    BY <1>1, <1>4, <2>1
  <2>4. PICK n : n = Len(ring)
    OBVIOUS
  <2>5. /\ ring' \in Seq([byte : 0 .. EOL, whole : Codes \cup {NoCode}])
        /\ n \in Nat /\ Len(ring') = n + 1 /\ ring'[n + 1] = b
        /\ \A i \in 1 .. n : ring'[i] = ring[i]
    BY <1>1, <2>2, <2>3, <2>4, AppendProperties
  <2>6. TypeOK'
    BY <1>1, <1>6, <2>2, <2>4, <2>5, ReaderAssumption DEF IInv, TypeOK
  <2>7. ASSUME NEW c, NEW l \in 0 .. FrameLen, NEW k \in 0 .. n, EndsAt(c, l, k)
        PROVE  EndsAt(c, l, k)'
    <3>1. \A j \in 1 .. l : k - l + j >= 1 => ring'[k - l + j].byte = Frame(c)[j]
      <4> SUFFICES ASSUME NEW j \in 1 .. l, k - l + j >= 1
                   PROVE  ring'[k - l + j].byte = Frame(c)[j]
        OBVIOUS
      <4>1. k - l + j \in 1 .. n
        BY <2>5, ByteKinds
      <4>2. ring'[k - l + j] = ring[k - l + j]
        BY <2>5, <4>1
      <4> QED
        BY <2>7, <4>1, <4>2 DEF EndsAt
    <3> QED
      BY <1>1, <2>7, <3>1 DEF EndsAt, Decoded
  <2>8. PICK c : c = card
    OBVIOUS
  <2>9. ASSUME ~damaged
        PROVE  EndsAt(c, m + 1, n + 1)'
    <3>1. EndsAt(c, m, n)'
      <4>1. EndsAt(c, m, n)
        BY <1>1, <1>3, <2>4, <2>8, <2>9 DEF IInv
      <4> QED
        BY <1>4, <2>5, <2>7, <4>1, ByteKinds
    <3>2. \A j \in 1 .. m + 1 : (n + 1) - (m + 1) + j >= 1 =>
            ring'[(n + 1) - (m + 1) + j].byte = Frame(c)[j]
      <4> SUFFICES ASSUME NEW j \in 1 .. m + 1, (n + 1) - (m + 1) + j >= 1
                   PROVE  ring'[(n + 1) - (m + 1) + j].byte = Frame(c)[j]
        OBVIOUS
      <4>1. CASE j = m + 1
        BY <1>4, <2>3, <2>5, <2>8, <4>1, ByteKinds
      <4>2. CASE j \in 1 .. m
        <5>1. (n + 1) - (m + 1) + j = n - m + j
          BY <1>4, <2>5, ByteKinds
        <5> QED
          BY <3>1, <4>2, <5>1 DEF EndsAt
      <4> QED
        BY <1>4, <4>1, <4>2, ByteKinds
    <3>3. m + 1 > n + 1 => Decoded(c, (m + 1) - (n + 1))'
      <4>1. (m + 1) - (n + 1) = m - n /\ (m + 1 > n + 1 => m > n)
        BY <1>4, <2>5, ByteKinds
      <4> QED
        BY <3>1, <4>1 DEF EndsAt
    <3> QED
      BY <3>2, <3>3 DEF EndsAt
  <2>10. ASSUME NEW k \in 1 .. n + 1, ring'[k].whole /= NoCode
         PROVE  EndsAt(ring[k].whole, FrameLen, k)'
    <3>1. CASE k \in 1 .. n
      <4>1. PICK w : w = ring[k].whole
        OBVIOUS
      <4>2. EndsAt(w, FrameLen, k) /\ ring'[k].whole = w
        BY <2>4, <2>5, <2>10, <3>1, <4>1 DEF IInv
      <4>3. EndsAt(w, FrameLen, k)'
        BY <2>7, <3>1, <4>2, ByteKinds
      <4> QED
        BY <4>2, <4>3
    <3>2. CASE k = n + 1
      <4>1. ring'[k].whole = c /\ b.byte = ETX /\ ~damaged
        BY <2>3, <2>5, <2>8, <2>10, <3>2
      <4>2. m + 1 = FrameLen
        <5>1. Frame(c)[m + 1] = ETX
          BY <2>3, <2>8, <4>1
        <5>2. /\ Frame(c)[1] = STX /\ Frame(c)[CodeLen + 2] = EOL
              /\ \A j \in 2 .. CodeLen + 1 : Frame(c)[j] \in Digits
          BY <1>1, <2>8, FrameBytes
        <5> QED
          BY <1>4, <5>1, <5>2, ByteKinds
      <4>3. EndsAt(c, FrameLen, k)'
        BY <2>9, <3>2, <4>1, <4>2
      <4> QED
        BY <4>1, <4>3
    <3> QED
      BY <2>5, <3>1, <3>2
  <2>11. sending' /= <<>> /\ ~damaged' => EndsAt(card, FrameLen - Len(sending), Len(ring))'
    BY <1>1, <1>4, <2>2, <2>5, <2>8, <2>9
  <2> QED
    BY <1>2, <2>5, <2>6, <2>10, <2>11 DEF IInv
<1> QED
  BY <1>1, <1>5, <1>6, ReaderAssumption


\* Every value that a tag is read as keeps the types of the decoder.
LEMMA ProcessTypes ==
  ASSUME TypeOK, NEW v, process_code(v)
  PROVE  /\ code' \in [CodeIndex -> Digits \cup {EOL, NUL}]
         /\ phase' \in {"loop", "checking"}
         /\ checked' \in Seq(Digits \cup {EOL, NUL}) \cup {NoCode}
<1>1. CASE ValidTag(v)
  <2>1. code' = [code EXCEPT ![CodeLen - 2] = EOL, ![CodeLen - 1] = NUL]
        /\ checked' = [k \in 1 .. 2 * PAIRS |-> code[k - 1]]
        /\ phase' = "checking"
    BY <1>1 DEF process_code
  <2>2. 2 * PAIRS \in Nat /\ \A k \in 1 .. 2 * PAIRS : code[k - 1] \in Digits \cup {EOL, NUL}
    <3>1. \A k \in 1 .. 2 * PAIRS : k - 1 \in CodeIndex
      BY ReaderAssumption DEF CodeIndex, CodeLen
    <3> QED
      BY <3>1, ReaderAssumption DEF TypeOK
  <2>3. PICK n : n = 2 * PAIRS
    OBVIOUS
  <2>4. checked' \in Seq(Digits \cup {EOL, NUL})
    BY <2>1, <2>2, <2>3
  <2>5. code' \in [CodeIndex -> Digits \cup {EOL, NUL}]
    BY <2>1 DEF TypeOK
  <2> QED
    BY <2>1, <2>4, <2>5
<1>2. CASE ~ValidTag(v)
  BY <1>2 DEF process_code, TypeOK
<1> QED
  BY <1>1, <1>2

LEMMA ReadKeepsIInv ==
  ASSUME IInv, ReadByte
  PROVE  IInv'
<1>1. TypeOK /\ bytesRead \in 0 .. CALL_MAX /\ ci \in 0 .. CodeLen
  BY DEF IInv, TypeOK
<1>2. PICK n : n = Len(ring)
  OBVIOUS
<1>3. /\ n \in Nat /\ n >= 1 /\ val = ring[1].byte
      /\ ring' \in Seq([byte : 0 .. EOL, whole : Codes \cup {NoCode}])
      /\ Len(ring') = n - 1
      /\ \A i \in 1 .. n - 1 : ring'[i] = ring[i + 1]
      /\ UNCHANGED <<sending, card, damaged, lost>>
      /\ bytesRead < CALL_MAX
  BY <1>1, <1>2, ReadTakesFirst
     DEF ReadByte, ReadStart, ReadLineEnd, ReadEnd, ReadDigit, Reads, MayRead
<1>4. TypeOK'
  <2>1. bytesRead' \in 0 .. CALL_MAX /\ ci' \in 0 .. CodeLen
    BY <1>1, <1>3, ByteKinds, ReaderAssumption
       DEF ReadByte, ReadStart, ReadLineEnd, ReadEnd, ReadDigit
  <2>2. /\ code' \in [CodeIndex -> Digits \cup {EOL, NUL}]
        /\ phase' \in {"loop", "reading", "checking"}
        /\ checked' \in Seq(Digits \cup {EOL, NUL}) \cup {NoCode}
    <3>1. CASE ReadEnd
      BY <1>1, <3>1, ProcessTypes DEF ReadEnd
    <3>2. CASE ReadDigit
      BY <1>1, <3>2 DEF ReadDigit, TypeOK
    <3>3. CASE ReadStart \/ ReadLineEnd
      BY <1>1, <3>3 DEF ReadStart, ReadLineEnd, TypeOK
    <3> QED
      BY <3>1, <3>2, <3>3 DEF ReadByte
  <2>3. Len(ring') <= RING
    BY <1>1, <1>2, <1>3, ReaderAssumption DEF TypeOK
  <2> QED
    BY <1>1, <1>3, <2>1, <2>2, <2>3 DEF TypeOK
<1>5. SendingFrame'
  BY <1>3 DEF IInv, SendingFrame
<1>6. ASSUME NEW k \in 1 .. n - 1, ring'[k].whole /= NoCode
      PROVE  EndsAt(ring[k].whole, FrameLen, k)'
  <2>1. PICK w : w = ring[k + 1].whole
    OBVIOUS
  <2>2. /\ k + 1 \in 1 .. n /\ k + 1 > 1 /\ ring'[k].whole = w
        /\ (k + 1) - 1 = k
    BY <1>3, <2>1
  <2>3. w \in Codes
    <3>1. ring[k + 1] \in [byte : 0 .. EOL, whole : Codes \cup {NoCode}]
      BY <1>1, <1>2, <2>2, ElementOfSeq DEF TypeOK
    <3> QED
      BY <1>6, <2>1, <2>2, <3>1
  <2>4. EndsAt(w, FrameLen, k + 1)
    BY <1>2, <1>6, <2>1, <2>2 DEF IInv
  <2>5. EndsAt(w, FrameLen, (k + 1) - 1)'
    BY <1>1, <1>2, <2>2, <2>3, <2>4, ReadMovesFrames, ByteKinds
  <2> QED
    BY <2>2, <2>5
<1>7. ASSUME sending' /= <<>>, ~damaged'
      PROVE  EndsAt(card, FrameLen - Len(sending), Len(ring))'
  <2>1. PICK c, m : c = card /\ m = FrameLen - Len(sending)
    OBVIOUS
  <2>2. c \in Codes /\ m \in 0 .. FrameLen - 1
    <3>1. /\ sending \in Seq(0 .. EOL) /\ sending /= <<>>
          /\ Len(sending) <= FrameLen /\ card \in Codes
      BY <1>3, <1>7 DEF IInv, SendingFrame
    <3>2. Len(sending) \in Nat /\ Len(sending) >= 1
      BY <3>1, EmptySeq
    <3> QED
      BY <2>1, <3>1, <3>2, ByteKinds
  <2>3. EndsAt(c, m, n)
    BY <1>2, <1>3, <1>7, <2>1 DEF IInv
  <2>4. EndsAt(c, m, n - 1)'
    <3>1. n \in 1 .. Len(ring) /\ m \in 0 .. FrameLen /\ m < FrameLen
      BY <1>2, <1>3, <2>2, ByteKinds
    <3> QED
      BY <1>1, <2>2, <2>3, <3>1, ReadMovesFrames
  <2> QED
    BY <1>3, <2>1, <2>4
<1> QED
  BY <1>3, <1>4, <1>5, <1>6, <1>7 DEF IInv

\* The other steps of serialEvent1() and check_IDAccess() leave code, ci and
\* the ring alone.
LEMMA ControlKeepsIInv ==
  ASSUME IInv, UNCHANGED <<ring, sending, card, damaged, lost, code, ci>>,
         phase' \in {"loop", "reading", "checking"}, bytesRead' \in 0 .. CALL_MAX,
         checked' \in Seq(Digits \cup {EOL, NUL}) \cup {NoCode}
  PROVE  IInv'
  BY DEF IInv, TypeOK, SendingFrame, EndsAt, Decoded

LEMMA StepKeepsIInv == IInv /\ [Next]_vars => IInv'
<1> SUFFICES ASSUME IInv, [Next]_vars PROVE IInv'
  OBVIOUS
<1>1. TypeOK /\ 0 \in 0 .. CALL_MAX
  BY ReaderAssumption DEF IInv
<1>2. ASSUME NEW c \in Codes, Present(c)
      PROVE  IInv'
  BY <1>2, PresentKeepsIInv
<1>3. CASE Receive
  BY <1>3, ReceiveKeepsIInv
<1>4. CASE BeginCall
  BY <1>1, <1>4, ControlKeepsIInv DEF BeginCall, TypeOK, reader
<1>5. CASE ReadByte
  BY <1>5, ReadKeepsIInv
<1>6. CASE EndCall
  BY <1>1, <1>6, ControlKeepsIInv DEF EndCall, TypeOK, reader
<1>7. CASE CheckDone
  BY <1>1, <1>7, ControlKeepsIInv DEF CheckDone, TypeOK, reader
<1>8. CASE Reset
  BY <1>8, ResetKeepsIInv
<1>9. CASE UNCHANGED vars
  BY <1>1, <1>9, ControlKeepsIInv DEF vars, TypeOK
<1> QED
  BY <1>2, <1>3, <1>4, <1>5, <1>6, <1>7, <1>8, <1>9 DEF Next, SerialEvent, ReadByte

-----------------------------------------------------------------------------
(* The theorems *)

\* Whatever frame is marked as whole, all of its bytes are in the ring or
\* decoded, in every state.
THEOREM Invariance == Spec => []IInv
  BY InitIInv, StepKeepsIInv, PTL DEF Spec

\* The ring never overflows, and code is never written beyond its end.
THEOREM TypeCorrect == Spec => []TypeOK
<1>1. IInv => TypeOK
  BY DEF IInv
<1> QED
  BY <1>1, Invariance, PTL

\* The digits of a whole frame pass the checksum test.
LEMMA DecodedIsValid ==
  ASSUME NEW c \in Codes, NEW cd \in [CodeIndex -> Digits \cup {EOL, NUL}],
         \A k \in CodeIndex : cd[k] = Frame(c)[k + 2],
         NEW v \in Readings(cd)
  PROVE  ValidTag(v)
<1>1. PAIRS \in Nat /\ PAIRS >= 1 /\ CodeLen = 2 * PAIRS + 2
  BY ReaderAssumption DEF CodeLen
<1>2. ASSUME NEW i \in 0 .. PAIRS
      PROVE  /\ 2 * i \in CodeIndex /\ 2 * i + 1 \in CodeIndex
             /\ v[i] = cd[2 * i] * RADIX + cd[2 * i + 1]
  <2>1. 2 * i \in CodeIndex /\ 2 * i + 1 \in CodeIndex
    BY <1>1 DEF CodeIndex
  <2>2. cd[2 * i] \in Digits /\ cd[2 * i + 1] \in Digits
    <3>1. 2 * i + 2 \in 2 .. CodeLen + 1 /\ (2 * i + 1) + 2 \in 2 .. CodeLen + 1
      BY <1>1
    <3> QED
      BY <2>1, <3>1, FrameBytes
  <2>3. v[i] \in hexstr2b(cd[2 * i], cd[2 * i + 1])
    BY DEF Readings
  <2> QED
    BY <2>1, <2>2, <2>3 DEF hexstr2b
<1>3. ASSUME NEW i \in 1 .. PAIRS
      PROVE  v[i - 1] = Byte(c, i)
  <2>1. i - 1 \in 0 .. PAIRS /\ 2 * (i - 1) + 2 = 2 * i /\ (2 * (i - 1) + 1) + 2 = 2 * i + 1
    BY <1>1
  <2>2. Frame(c)[2 * i] = c[2 * i - 1] /\ Frame(c)[2 * i + 1] = c[2 * i]
    <3>1. 2 * i - 1 \in 1 .. 2 * PAIRS /\ 2 * i \in 1 .. 2 * PAIRS /\ (2 * i - 1) + 1 = 2 * i
      BY <1>1
    <3> QED
      BY <3>1, FrameBytes
  <2>3. cd[2 * (i - 1)] = Frame(c)[2 * i] /\ cd[2 * (i - 1) + 1] = Frame(c)[2 * i + 1]
    BY <1>2, <2>1
  <2> QED
    BY <1>2, <2>1, <2>2, <2>3 DEF Byte
<1>4. [i \in 1 .. PAIRS |-> v[i - 1]] = [pair \in 1 .. PAIRS |-> Byte(c, pair)]
  BY <1>3
<1>5. v[PAIRS] = Checksum(c)
  <2>1. PAIRS \in 0 .. PAIRS /\ 2 * PAIRS + 2 = CodeLen /\ (2 * PAIRS + 1) + 2 = CodeLen + 1
    BY <1>1
  <2>2. v[PAIRS] = Frame(c)[CodeLen] * RADIX + Frame(c)[CodeLen + 1]
    BY <1>2, <2>1
  <2> QED
    BY <2>2, FrameBytes, ChecksumIsByte, TwoDigits
<1> QED
  BY <1>4, <1>5 DEF ValidTag, Checksum

\* A frame that is stored completely is decoded to the code of its card, which
\* is looked up, whatever was lost before and left in code and ci.
THEOREM WholeFramesDecoded == Spec => WholeFrameIsChecked
<1>1. ASSUME IInv, ReadEnd, Head(ring).whole /= NoCode
      PROVE  checked' = Head(ring).whole
  <2>1. PICK c : c = Head(ring).whole
    OBVIOUS
  <2>2. TypeOK /\ ReadByte
    BY <1>1 DEF IInv, ReadByte
  <2>3. Head(ring) = ring[1] /\ ring[1] \in [byte : 0 .. EOL, whole : Codes \cup {NoCode}]
        /\ 1 \in 1 .. Len(ring)
    <3>1. Len(ring) \in Nat /\ Len(ring) >= 1
      BY <2>2, ReadTakesFirst
    <3>2. ring[1] \in [byte : 0 .. EOL, whole : Codes \cup {NoCode}]
      <4>1. 1 \in 1 .. Len(ring)
        BY <3>1
      <4> QED
        BY <2>2, <4>1, ElementOfSeq DEF TypeOK
    <3> QED
      BY <2>2, <3>1, <3>2 DEF TypeOK
  <2>4. c \in Codes /\ EndsAt(c, FrameLen, 1)
    BY <1>1, <2>1, <2>3 DEF IInv
  <2>5. Decoded(c, FrameLen - 1) /\ DigitsIn(FrameLen - 1) = CodeLen
    BY <2>4, ByteKinds DEF EndsAt, DigitsIn
  <2>6. \A k \in CodeIndex : code[k] = Frame(c)[k + 2]
    BY <2>5, ByteKinds DEF Decoded, CodeIndex
  <2>7. PICK v \in Readings(code) : process_code(v)
    BY <1>1 DEF ReadEnd
  <2>8. ValidTag(v)
    BY <2>2, <2>4, <2>6, <2>7, DecodedIsValid DEF TypeOK
  <2>9. checked' = [k \in 1 .. 2 * PAIRS |-> code[k - 1]]
    BY <2>7, <2>8 DEF process_code
  <2>10. ASSUME NEW k \in 1 .. 2 * PAIRS
         PROVE  code[k - 1] = c[k]
    <3>1. k - 1 \in CodeIndex /\ (k - 1) + 2 = k + 1
      BY ReaderAssumption DEF CodeIndex, CodeLen
    <3> QED
      BY <2>4, <2>6, <3>1, FrameBytes
  <2>11. c = [k \in 1 .. 2 * PAIRS |-> c[k]]
    <3>1. c \in Seq(Digits) /\ Len(c) = 2 * PAIRS
      BY <2>4, ReaderAssumption
    <3> QED
      BY <3>1, LenProperties
  <2> QED
    BY <2>1, <2>9, <2>10, <2>11
<1>2. IInv => [ReadEnd /\ Head(ring).whole /= NoCode => checked' = Head(ring).whole]_vars
  BY <1>1
<1> QED
  BY <1>2, Invariance, PTL DEF WholeFrameIsChecked
=============================================================================
