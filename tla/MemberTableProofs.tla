--------------------------- MODULE MemberTableProofs ---------------------------
(***************************************************************************)
(* Proofs about MemberTable, for every length of the array, every set of   *)
(* cards and names, and every outcome of the calls of the SD library.      *)
(***************************************************************************)
EXTENDS MemberTable, Recursion, SequenceTheorems

\* What the array and the file are, and that between two commands they give
\* access to the same cards unless the SD card has failed; a removal that is not
\* yet written has left no file.
IInv ==
  /\ TypeOK
  /\ pc = "writing" => ~overrun /\ (~trouble => file = <<>>)
  /\ ResetChangesNothing

-----------------------------------------------------------------------------
(* Lines and entries *)

\* The empty string, the fragment of a code and the character at address 0 are
\* not the code of a card.
LEMMA NoCards ==
  /\ Cards \subseteq Words /\ NoWord \in Words /\ Fragment \in Words /\ Junk \in Words
  /\ NoWord \notin Cards /\ Fragment \notin Cards /\ Junk \notin Cards
  BY MemberAssumption DEF Words

\* Reading a line makes an entry of an entry, whose id is the first word of the
\* line, or as much of it as later blanks leave, or what it was before.
LEMMA ReadLineEntry ==
  ASSUME NEW line \in Seq(Words), NEW entry \in Entry
  PROVE  /\ ReadLine(line, entry) \in Entry
         /\ Len(line) = 0 => ReadLine(line, entry).id = entry.id
         /\ Len(line) \in {1, 2} => ReadLine(line, entry).id = line[1]
         /\ Len(line) \notin {0, 1, 2} => ReadLine(line, entry).id = CutId(line)
<1>1. Len(line) \in Nat
  OBVIOUS
<1>2. CASE Len(line) = 0
  <2>1. ReadLine(line, entry) = [id |-> entry.id, name |-> NoWord, cr |-> TRUE]
    BY <1>2 DEF ReadLine
  <2> QED
    BY <1>2, <2>1, NoCards DEF Entry
<1>3. CASE Len(line) = 1
  <2>1. line[1] \in Words
    BY <1>3, ElementOfSeq
  <2> QED
    BY <1>3, <2>1 DEF ReadLine, Entry
<1>4. CASE Len(line) = 2
  <2>1. line[1] \in Words /\ line[2] \in Words
    BY <1>4, ElementOfSeq
  <2> QED
    BY <1>4, <2>1 DEF ReadLine, Entry
<1>5. CASE Len(line) \notin {0, 1, 2}
  <2>1. CutId(line) \in Words
    BY NoCards DEF CutId
  <2>2. Last(line) \in Words
    <3>1. Len(line) \in 1 .. Len(line)
      BY <1>1, <1>5
    <3> QED
      BY <3>1, ElementOfSeq DEF Last
  <2>3. ReadLine(line, entry) = [id |-> CutId(line), name |-> Last(line), cr |-> TRUE]
    <3>1. Len(line) /= 0 /\ Len(line) /= 1 /\ Len(line) /= 2
      BY <1>1, <1>5
    <3> QED
      BY <3>1, Zenon DEF ReadLine
  <2> HIDE DEF Last
  <2> QED
    BY <1>1, <1>5, <2>1, <2>2, <2>3 DEF Entry
<1> QED
  BY <1>1, <1>2, <1>3, <1>4, <1>5

LEMMA ClearedType == NoEntry \in Entry /\ Cleared \in [Index -> Entry]
  BY NoCards DEF NoEntry, Entry, Cleared

\* read_file() makes an array of an array.
LEMMA ReadFileType ==
  ASSUME NEW lines \in Seq(Seq(Words)), NEW tbl \in [Index -> Entry]
  PROVE  read_file(lines, tbl) \in [Index -> Entry]
<1>1. ASSUME NEW i \in Index, i < Len(lines)
      PROVE  lines[i + 1] \in Seq(Words)
  BY <1>1, ElementOfSeq DEF Index
<1>2. ASSUME NEW i \in Index
      PROVE  (IF i < Len(lines) THEN ReadLine(lines[i + 1], tbl[i]) ELSE tbl[i]) \in Entry
  BY <1>1, <1>2, ReadLineEntry
<1> QED
  BY <1>2 DEF read_file

\* Trimming names leaves an array with the same ids.
LEMMA TrimmedType ==
  ASSUME NEW tbl \in [Index -> Entry], NEW str
  PROVE  /\ Trimmed(tbl, str) \in [Index -> Entry]
         /\ \A i \in Index : Trimmed(tbl, str)[i].id = tbl[i].id
<1>1. ASSUME NEW entry \in Entry
      PROVE  TrimName(entry) \in Entry /\ TrimName(entry).id = entry.id
  <2>1. (entry.cr /\ entry.name = NoWord) \in BOOLEAN
    OBVIOUS
  <2> QED
    BY <2>1 DEF TrimName, Entry
<1> QED
  BY <1>1 DEF Trimmed

\* So it gives access to the same cards.
LEMMA TrimmedOpens ==
  ASSUME NEW tbl \in [Index -> Entry], NEW str
  PROVE  Opens(Trimmed(tbl, str)) = Opens(tbl)
  BY TrimmedType DEF Opens

-----------------------------------------------------------------------------
(* The file *)

\* The lines of a file are numbered from 1.
LEMMA LineNumbers ==
  ASSUME NEW lines \in Seq(Seq(Words))
  PROVE  /\ Len(lines) \in Nat /\ DOMAIN lines = 1 .. Len(lines)
         /\ Granted(lines) = {c \in Cards : \E k \in 1 .. Len(lines) : c \in GrantedBy(lines[k])}
  BY LenProperties DEF Granted

\* A line behind the others gives access to its card, and takes nobody's away.
LEMMA GrantedAppend ==
  ASSUME NEW lines \in Seq(Seq(Words)), NEW line \in Seq(Words)
  PROVE  /\ Append(lines, line) \in Seq(Seq(Words))
         /\ Granted(Append(lines, line)) = Granted(lines) \cup GrantedBy(line)
<1>1. /\ Append(lines, line) \in Seq(Seq(Words))
      /\ Len(lines) \in Nat /\ Len(Append(lines, line)) = Len(lines) + 1
      /\ \A k \in 1 .. Len(lines) : Append(lines, line)[k] = lines[k]
      /\ Append(lines, line)[Len(lines) + 1] = line
      /\ DOMAIN lines = 1 .. Len(lines)
      /\ DOMAIN Append(lines, line) = 1 .. Len(lines) + 1
  BY AppendProperties, LenProperties
<1>2. GrantedBy(line) \subseteq Cards
  BY DEF GrantedBy
<1>3. ASSUME NEW k \in 1 .. Len(lines) + 1
      PROVE  \/ k \in 1 .. Len(lines) /\ Append(lines, line)[k] = lines[k]
             \/ Append(lines, line)[k] = line
  BY <1>1
<1>4. \A k \in 1 .. Len(lines) :
        k \in 1 .. Len(lines) + 1 /\ Append(lines, line)[k] = lines[k]
  BY <1>1
<1>5. Len(lines) + 1 \in 1 .. Len(lines) + 1
  BY <1>1
<1>6. Granted(Append(lines, line)) \subseteq Granted(lines) \cup GrantedBy(line)
  BY <1>1, <1>3 DEF Granted
<1>7. Granted(lines) \cup GrantedBy(line) \subseteq Granted(Append(lines, line))
  <2>1. ASSUME NEW c \in Granted(lines)
        PROVE  c \in Granted(Append(lines, line))
    <3>1. PICK k \in DOMAIN lines : c \in GrantedBy(lines[k])
      BY DEF Granted
    <3>2. k \in DOMAIN Append(lines, line) /\ c \in GrantedBy(Append(lines, line)[k])
      BY <1>1, <1>4, <3>1
    <3> QED
      BY <3>2, Zenon DEF Granted
  <2>2. ASSUME NEW c \in GrantedBy(line)
        PROVE  c \in Granted(Append(lines, line))
    BY <1>1, <1>2, <1>5, <2>2, Zenon DEF Granted
  <2> QED
    BY <2>1, <2>2
<1> QED
  BY <1>1, <1>6, <1>7

\* Two files, one behind the other, give access to the cards of both.
LEMMA GrantedConcat ==
  ASSUME NEW lines \in Seq(Seq(Words)), NEW more \in Seq(Seq(Words))
  PROVE  /\ lines \o more \in Seq(Seq(Words))
         /\ Granted(lines \o more) = Granted(lines) \cup Granted(more)
<1>1. /\ lines \o more \in Seq(Seq(Words))
      /\ Len(lines) \in Nat /\ Len(more) \in Nat
      /\ Len(lines \o more) = Len(lines) + Len(more)
      /\ \A k \in 1 .. Len(lines) + Len(more) :
           (lines \o more)[k] = IF k <= Len(lines) THEN lines[k] ELSE more[k - Len(lines)]
      /\ DOMAIN lines = 1 .. Len(lines) /\ DOMAIN more = 1 .. Len(more)
      /\ DOMAIN (lines \o more) = 1 .. Len(lines) + Len(more)
  BY ConcatProperties, LenProperties
<1>2. ASSUME NEW k \in 1 .. Len(more)
      PROVE  /\ Len(lines) + k \in 1 .. Len(lines) + Len(more)
             /\ (lines \o more)[Len(lines) + k] = more[k]
  BY <1>1
<1>3. ASSUME NEW k \in 1 .. Len(lines) + Len(more)
      PROVE  \/ k \in 1 .. Len(lines) /\ (lines \o more)[k] = lines[k]
             \/ k - Len(lines) \in 1 .. Len(more) /\ (lines \o more)[k] = more[k - Len(lines)]
  BY <1>1
<1>4. \A k \in 1 .. Len(lines) :
        k \in 1 .. Len(lines) + Len(more) /\ (lines \o more)[k] = lines[k]
  BY <1>1
<1>5. Granted(lines \o more) \subseteq Granted(lines) \cup Granted(more)
  BY <1>1, <1>3 DEF Granted
<1>6. Granted(lines) \cup Granted(more) \subseteq Granted(lines \o more)
  <2>1. ASSUME NEW c \in Granted(lines)
        PROVE  c \in Granted(lines \o more)
    <3>1. PICK k \in DOMAIN lines : c \in GrantedBy(lines[k])
      BY DEF Granted
    <3>2. k \in DOMAIN (lines \o more) /\ c \in GrantedBy((lines \o more)[k])
      BY <1>1, <1>4, <3>1
    <3> QED
      BY <3>2, Zenon DEF Granted
  <2>2. ASSUME NEW c \in Granted(more)
        PROVE  c \in Granted(lines \o more)
    <3>1. PICK k \in DOMAIN more : c \in GrantedBy(more[k])
      BY DEF Granted
    <3>2. /\ Len(lines) + k \in DOMAIN (lines \o more)
          /\ c \in GrantedBy((lines \o more)[Len(lines) + k])
      BY <1>1, <1>2, <3>1
    <3> QED
      BY <3>2, Zenon DEF Granted
  <2> QED
    BY <2>1, <2>2
<1> QED
  BY <1>1, <1>5, <1>6

LEMMA NothingGranted == <<>> \in Seq(Seq(Words)) /\ Granted(<<>>) = {}
  BY DEF Granted

\* What is written of an entry gives access to its card.
LEMMA WriteEntryGrants ==
  ASSUME NEW entry \in Entry
  PROVE  /\ WriteEntry(entry) \in Seq(Seq(Words))
         /\ Granted(WriteEntry(entry)) = {c \in Cards : entry.id = c}
<1> DEFINE line == <<entry.id, entry.name>>
<1>1. line \in Seq(Words) /\ GrantedBy(line) = {c \in Cards : entry.id = c}
  BY DEF Entry, GrantedBy
<1>2. <<>> \in Seq(Words) /\ GrantedBy(<<>>) = {}
  BY DEF GrantedBy
<1>3. <<line>> \in Seq(Seq(Words)) /\ << <<>> >> \in Seq(Seq(Words))
  BY <1>1, <1>2
<1>4. Granted(<<>>) = {} /\ Granted(<<line>>) = GrantedBy(line)
      /\ Granted(<< <<>> >>) = {}
  <2> HIDE DEF line
  <2> QED
    BY <1>2 DEF Granted, GrantedBy
<1>5. CASE entry.id = NoWord
  BY <1>4, <1>5, NoCards DEF WriteEntry
<1>6. CASE entry.id /= NoWord
  <2>1. WriteEntry(entry) = <<line>> \o (IF entry.cr THEN << <<>> >> ELSE <<>>)
    BY <1>6, Zenon DEF WriteEntry
  <2>2. WriteEntry(entry) \in {<<line>> \o <<>>, <<line>> \o << <<>> >>}
    BY <2>1, Zenon
  <2>3. <<>> \in Seq(Seq(Words))
    OBVIOUS
  <2> HIDE DEF line
  <2>4. ASSUME NEW more \in {<<>>, << <<>> >>}
        PROVE  /\ <<line>> \o more \in Seq(Seq(Words))
               /\ Granted(<<line>> \o more) = GrantedBy(line)
    <3>1. more \in Seq(Seq(Words)) /\ Granted(more) = {}
      BY <1>3, <1>4, <2>3
    <3>2. /\ <<line>> \o more \in Seq(Seq(Words))
          /\ Granted(<<line>> \o more) = Granted(<<line>>) \cup Granted(more)
      BY <1>3, <3>1, GrantedConcat, Zenon
    <3> QED
      BY <1>4, <3>1, <3>2
  <2> QED
    BY <1>1, <2>2, <2>4
<1> QED
  BY <1>5, <1>6

\* The loop of write_file(): what is written when it has come to entry n + 1 is
\* what was written before and what is written of entry n.
LEMMA WrittenEntries ==
  ASSUME NEW L, NEW tbl, \A i \in Index : WriteEntry(tbl[i]) \in Seq(L)
  PROVE  /\ Written(tbl)[0] = <<>>
         /\ \A n \in Index : Written(tbl)[n + 1] = Written(tbl)[n] \o WriteEntry(tbl[n])
         /\ \A n \in 0 .. MEMBER : Written(tbl)[n] \in Seq(L)
<1> DEFINE A == Seq(L)
           added(n) == IF n - 1 \in Index THEN WriteEntry(tbl[n - 1]) ELSE <<>>
           step == [n \in Nat |-> [lines \in A |-> lines \o added(n)]]
           w == Written(tbl)
<1>1. MEMBER \in Nat /\ Index = 0 .. MEMBER - 1
  BY MemberAssumption DEF Index
<1>2. (\A n \in Nat : added(n) \in A) /\ <<>> \in A
  OBVIOUS
<1>3. step \in [Nat -> [A -> A]]
  <2> HIDE DEF added
  <2> QED
    BY <1>2, ConcatProperties
<1>4. w = [n \in 0 .. MEMBER |->
             IF n = 0 THEN <<>> ELSE w[n - 1] \o WriteEntry(tbl[n - 1])]
  <2>1. PICK f : IsLoop(f, A, <<>>, step, MEMBER)
    <3> HIDE DEF step, A, added
    <3> QED
      BY <1>1, <1>2, <1>3, RecursionUpTo DEF Rounds
  <2>2. ASSUME NEW n \in 0 .. MEMBER, n /= 0
        PROVE  f[n] = f[n - 1] \o WriteEntry(tbl[n - 1])
    <3>1. n \in Nat /\ n \in 1 .. MEMBER /\ n - 1 \in 0 .. MEMBER /\ n - 1 \in Index
      BY <1>1, <2>2
    <3>2. f[n - 1] \in A
      BY <2>1, <3>1 DEF IsLoop
    <3> QED
      BY <2>1, <3>1, <3>2 DEF IsLoop
  <2> HIDE DEF step, A
  <2>3. f = [n \in 0 .. MEMBER |->
               IF n = 0 THEN <<>> ELSE f[n - 1] \o WriteEntry(tbl[n - 1])]
    BY <2>1, <2>2 DEF IsLoop
  <2> DEFINE lines == CHOOSE g : g = [n \in 0 .. MEMBER |->
               IF n = 0 THEN <<>> ELSE g[n - 1] \o WriteEntry(tbl[n - 1])]
  <2>4. lines = [n \in 0 .. MEMBER |->
               IF n = 0 THEN <<>> ELSE lines[n - 1] \o WriteEntry(tbl[n - 1])]
    BY <2>3, Zenon
  <2>5. w = lines
    BY DEF Written
  <2> QED
    BY <2>4, <2>5, Zenon
<1> HIDE DEF step, w
<1>5. w[0] = <<>>
  BY <1>1, <1>4
<1>6. ASSUME NEW n \in Index
      PROVE  w[n + 1] = w[n] \o WriteEntry(tbl[n])
  <2>1. n + 1 \in 0 .. MEMBER /\ n + 1 /= 0 /\ (n + 1) - 1 = n
    BY <1>1
  <2> QED
    BY <1>4, <2>1
<1> DEFINE S == {n \in 0 .. MEMBER : w[n] \in A}
<1>7. 0 \in S
  <2>1. w[0] \in A
    BY <1>2, <1>5, Zenon
  <2> QED
    BY <1>1, <2>1
<1>8. ASSUME NEW n \in Nat, n \in S, n < MEMBER
      PROVE  n + 1 \in S
  <2>1. n \in Index /\ n + 1 \in 0 .. MEMBER
    BY <1>1, <1>8
  <2> QED
    BY <1>6, <1>8, <2>1, ConcatProperties
<1>9. 0 .. MEMBER \subseteq S
  <2> HIDE DEF S
  <2> QED
    BY <1>1, <1>7, <1>8, InductionUpTo
<1> QED
  BY <1>5, <1>6, <1>9 DEF w

\* So it writes lines of the kind that its entries give.
LEMMA WriteFileLines ==
  ASSUME NEW L, NEW tbl, \A i \in Index : WriteEntry(tbl[i]) \in Seq(L)
  PROVE  write_file(tbl) \in Seq(L)
<1>1. \A n \in 0 .. MEMBER : Written(tbl)[n] \in Seq(L)
  BY WrittenEntries, Zenon
<1>2. MEMBER \in 0 .. MEMBER
  BY MemberAssumption
<1> QED
  BY <1>1, <1>2, Zenon DEF write_file

\* What is written of an array gives access to the cards of its entries.
LEMMA WriteFileGrants ==
  ASSUME NEW tbl \in [Index -> Entry]
  PROVE  /\ write_file(tbl) \in Seq(Seq(Words))
         /\ Granted(write_file(tbl)) = Opens(tbl)
<1> DEFINE w == Written(tbl)
           S == {n \in 0 .. MEMBER :
                   Granted(w[n]) = {c \in Cards : \E i \in 0 .. n - 1 : tbl[i].id = c}}
<1>1. MEMBER \in Nat /\ Index = 0 .. MEMBER - 1
  BY MemberAssumption DEF Index
<1>2. \A i \in Index : WriteEntry(tbl[i]) \in Seq(Seq(Words))
  BY WriteEntryGrants
<1>3. /\ w[0] = <<>>
      /\ \A n \in Index : w[n + 1] = w[n] \o WriteEntry(tbl[n])
      /\ \A n \in 0 .. MEMBER : w[n] \in Seq(Seq(Words))
  BY <1>2, WrittenEntries, Zenon
<1> HIDE DEF w
<1>4. 0 \in S
  <2>1. Granted(w[0]) = {}
    BY <1>3, NothingGranted, Zenon
  <2>2. \A i : i \notin 0 .. 0 - 1
    OBVIOUS
  <2> QED
    BY <1>1, <2>1, <2>2
<1>5. ASSUME NEW n \in Nat, n \in S, n < MEMBER
      PROVE  n + 1 \in S
  <2>1. n \in Index /\ n + 1 \in 0 .. MEMBER /\ n \in 0 .. MEMBER
    BY <1>1, <1>5
  <2>2. Granted(w[n + 1]) = Granted(w[n]) \cup {c \in Cards : tbl[n].id = c}
    <3>1. tbl[n] \in Entry /\ w[n] \in Seq(Seq(Words))
      BY <1>3, <2>1
    <3>2. w[n + 1] = w[n] \o WriteEntry(tbl[n])
      BY <1>3, <2>1
    <3> QED
      BY <3>1, <3>2, WriteEntryGrants, GrantedConcat
  <2>3. \A i : i \in 0 .. (n + 1) - 1 <=> i \in 0 .. n - 1 \/ i = n
    BY <1>5
  <2> QED
    BY <1>5, <2>1, <2>2, <2>3
<1>6. MEMBER \in S
  <2> HIDE DEF S
  <2>1. 0 .. MEMBER \subseteq S
    BY <1>1, <1>4, <1>5, InductionUpTo
  <2> QED
    BY <1>1, <2>1
<1>7. write_file(tbl) = w[MEMBER]
  BY DEF write_file, w
<1> QED
  BY <1>1, <1>3, <1>6, <1>7 DEF Opens

\* The cards that read_file() lets in are those of the lines, and what the array
\* already had; all cards of the lines, if they fit.
LEMMA OpensRead ==
  ASSUME NEW lines \in Seq(Seq(Words)), NEW tbl \in [Index -> Entry]
  PROVE  /\ Opens(read_file(lines, tbl)) \subseteq Granted(lines) \cup Opens(tbl)
         /\ Len(lines) <= MEMBER => Granted(lines) \subseteq Opens(read_file(lines, tbl))
<1>1. MEMBER \in Nat /\ Index = 0 .. MEMBER - 1 /\ Len(lines) \in Nat
  BY MemberAssumption, LenProperties DEF Index
<1>2. ASSUME NEW i \in Index, i < Len(lines)
      PROVE  /\ i + 1 \in 1 .. Len(lines) /\ lines[i + 1] \in Seq(Words)
             /\ read_file(lines, tbl)[i] = ReadLine(lines[i + 1], tbl[i])
  <2>1. i + 1 \in 1 .. Len(lines)
    BY <1>1, <1>2
  <2>2. lines[i + 1] \in Seq(Words)
    BY <2>1, ElementOfSeq, Zenon
  <2> QED
    BY <1>2, <2>1, <2>2 DEF read_file
<1>3. ASSUME NEW i \in Index, NEW c \in Cards, read_file(lines, tbl)[i].id = c
      PROVE  c \in Granted(lines) \/ tbl[i].id = c
  <2>1. CASE i < Len(lines)
    <3> DEFINE line == lines[i + 1]
    <3>1. /\ line \in Seq(Words) /\ i + 1 \in 1 .. Len(lines)
          /\ ReadLine(line, tbl[i]).id = c
      BY <1>2, <1>3, <2>1
    <3>2. CutId(line) \notin Cards
      BY NoCards DEF CutId
    <3>3. \/ Len(line) = 0 /\ tbl[i].id = c
          \/ Len(line) \in {1, 2} /\ line[1] = c
      <4> HIDE DEF line
      <4>1. tbl[i] \in Entry
        OBVIOUS
      <4>2. /\ Len(line) = 0 => ReadLine(line, tbl[i]).id = tbl[i].id
            /\ Len(line) \in {1, 2} => ReadLine(line, tbl[i]).id = line[1]
            /\ Len(line) \notin {0, 1, 2} => ReadLine(line, tbl[i]).id = CutId(line)
        BY <3>1, <4>1, ReadLineEntry, Zenon
      <4>3. Len(line) \in Nat
        BY <3>1, LenProperties, Zenon
      <4> QED
        BY <3>1, <3>2, <4>2, <4>3
    <3>4. Len(line) \in {1, 2} /\ line[1] = c => c \in Granted(lines)
      BY <3>1, LineNumbers, Zenon DEF GrantedBy
    <3> QED
      BY <3>3, <3>4
  <2>2. CASE ~(i < Len(lines))
    BY <1>3, <2>2 DEF read_file
  <2> QED
    BY <2>1, <2>2
<1>4. Opens(read_file(lines, tbl)) \subseteq Granted(lines) \cup Opens(tbl)
  BY <1>3 DEF Opens
<1>5. ASSUME NEW c \in Granted(lines), Len(lines) <= MEMBER
      PROVE  c \in Opens(read_file(lines, tbl))
  <2>1. PICK k \in 1 .. Len(lines) :
          c \in Cards /\ Len(lines[k]) \in {1, 2} /\ lines[k][1] = c
    BY DEF Granted, GrantedBy
  <2>2. k - 1 \in Index /\ k - 1 < Len(lines) /\ (k - 1) + 1 = k
    BY <1>1, <1>5
  <2>3. /\ read_file(lines, tbl)[k - 1] = ReadLine(lines[k], tbl[k - 1])
        /\ lines[k] \in Seq(Words) /\ tbl[k - 1] \in Entry
    <3>1. tbl[k - 1] \in Entry
      BY <2>2
    <3> QED
      BY <1>2, <2>2, <3>1, Zenon
  <2>4. ReadLine(lines[k], tbl[k - 1]).id = lines[k][1]
    BY <2>1, <2>3, ReadLineEntry, Zenon
  <2> QED
    BY <2>1, <2>2, <2>3, <2>4 DEF Opens
<1> QED
  BY <1>4, <1>5

\* A reset lets in the cards of the lines.
LEMMA OpensFile ==
  ASSUME NEW lines \in Seq(Seq(Words)), Len(lines) <= MEMBER
  PROVE  Opens(read_file(lines, Cleared)) = Granted(lines)
<1>1. Opens(Cleared) = {}
  BY NoCards DEF Opens, Cleared, NoEntry
<1>2. Cleared \in [Index -> Entry]
  BY ClearedType
<1> QED
  BY <1>1, <1>2, OpensRead

-----------------------------------------------------------------------------
(* Removing an entry *)

\* isUser() finds an entry if one matches.
LEMMA IsUserFinds ==
  ASSUME NEW tbl, NEW str, Matches(tbl, str) /= {}
  PROVE  isUser(tbl, str) \in Index /\ isUser(tbl, str) \in Matches(tbl, str)
<1>1. Matches(tbl, str) \in SUBSET Nat /\ Matches(tbl, str) \subseteq Index
  BY MemberAssumption DEF Matches, Index
<1>2. \E i \in Matches(tbl, str) : \A j \in Matches(tbl, str) : i <= j
  BY <1>1, LeastNumber
<1> QED
  BY <1>1, <1>2 DEF isUser

\* An entry that moves up keeps the code of its card, if it has one, and an
\* entry that is overwritten from address 0 has none.
LEMMA MovedUpEntry ==
  ASSUME NEW next \in Entry, NEW null \in NullReads
  PROVE  /\ MovedUp(next, null) \in Entry
         /\ \A c \in Cards : MovedUp(next, null).id = c <=> next.id = c
<1>1. /\ null.compared \in {NoWord, Junk} /\ null.id \in {NoWord, Junk}
      /\ null.name \in {NoWord, Junk}
  BY MemberAssumption
<1>2. CASE next.id /= null.compared
  BY <1>2 DEF MovedUp
<1>3. CASE next.id = null.compared
  <2>1. MovedUp(next, null) = [id |-> null.id, name |-> null.name, cr |-> FALSE]
    BY <1>3 DEF MovedUp
  <2> QED
    BY <1>1, <1>3, <2>1, NoCards DEF Entry
<1> QED
  BY <1>2, <1>3

\* Moving the entries up takes away one card at most, that of the entry removed.
LEMMA RemovedOpens ==
  ASSUME NEW tbl \in [Index -> Entry], NEW k \in Index, NEW nulls \in [Index -> NullReads]
  PROVE  /\ WithoutEntry(tbl, k, nulls) \in [Index -> Entry]
         /\ \/ Opens(WithoutEntry(tbl, k, nulls)) = Opens(tbl)
            \/ \E c \in Opens(tbl) :
                 Opens(WithoutEntry(tbl, k, nulls)) = Opens(tbl) \ {c}
<1> DEFINE U == WithoutEntry(tbl, k, nulls)
<1>1. MEMBER \in Nat /\ Index = 0 .. MEMBER - 1 /\ Index \subseteq Nat
  BY MemberAssumption DEF Index
<1>2. ASSUME NEW i \in Index
      PROVE  /\ i + 1 < MEMBER => i + 1 \in Index /\ tbl[i + 1] \in Entry
             /\ U[i] = IF k <= i /\ i + 1 < MEMBER THEN MovedUp(tbl[i + 1], nulls[i])
                       ELSE tbl[i]
  BY <1>1 DEF WithoutEntry
<1>3. ASSUME NEW i \in Index
      PROVE  /\ U[i] \in Entry
             /\ \A c \in Cards : U[i].id = c =>
                  tbl[i].id = c \/ (i + 1 \in Index /\ tbl[i + 1].id = c)
  <2>1. nulls[i] \in NullReads /\ tbl[i] \in Entry
    OBVIOUS
  <2>2. CASE k <= i /\ i + 1 < MEMBER
    <3>1. i + 1 \in Index /\ tbl[i + 1] \in Entry /\ U[i] = MovedUp(tbl[i + 1], nulls[i])
      BY <1>2, <2>2
    <3> HIDE DEF U
    <3>2. /\ MovedUp(tbl[i + 1], nulls[i]) \in Entry
          /\ \A c \in Cards : MovedUp(tbl[i + 1], nulls[i]).id = c <=> tbl[i + 1].id = c
      BY <2>1, <3>1, MovedUpEntry, Zenon
    <3> QED
      BY <3>1, <3>2, Zenon
  <2>3. CASE ~(k <= i /\ i + 1 < MEMBER)
    BY <1>2, <2>1, <2>3
  <2> QED
    BY <2>2, <2>3
<1>4. U \in [Index -> Entry]
  BY <1>3 DEF WithoutEntry
<1>5. Opens(U) \subseteq Opens(tbl)
  <2> HIDE DEF U
  <2> QED
    BY <1>3 DEF Opens
<1>6. ASSUME NEW c \in Opens(tbl), c /= tbl[k].id
      PROVE  c \in Opens(U)
  <2>1. PICK j \in Index : c \in Cards /\ tbl[j].id = c
    BY DEF Opens
  <2>2. j < k \/ j > k
    BY <1>1, <1>6, <2>1
  <2>3. CASE j < k
    <3>1. U[j] = tbl[j]
      BY <1>1, <1>2, <2>3
    <3> HIDE DEF U
    <3> QED
      BY <2>1, <3>1 DEF Opens
  <2>4. CASE j > k
    <3>1. j - 1 \in Index /\ k <= j - 1 /\ (j - 1) + 1 < MEMBER /\ (j - 1) + 1 = j
      BY <1>1, <2>4
    <3>2. U[j - 1] = MovedUp(tbl[j], nulls[j - 1])
      BY <1>2, <3>1
    <3>3. tbl[j] \in Entry /\ nulls[j - 1] \in NullReads
      BY <3>1
    <3> HIDE DEF U
    <3>4. U[j - 1].id = c
      <4>1. MovedUp(tbl[j], nulls[j - 1]).id = c <=> tbl[j].id = c
        BY <2>1, <3>3, MovedUpEntry, Zenon
      <4> QED
        BY <2>1, <3>2, <4>1, Zenon
    <3> QED
      BY <2>1, <3>1, <3>4 DEF Opens
  <2> QED
    BY <2>2, <2>3, <2>4
<1> HIDE DEF U
<1>7. CASE tbl[k].id \in Opens(tbl) \ Opens(U)
  <2>1. Opens(U) = Opens(tbl) \ {tbl[k].id}
    BY <1>5, <1>6, <1>7
  <2> QED
    BY <1>4, <1>7, <2>1 DEF U
<1>8. CASE tbl[k].id \notin Opens(tbl) \ Opens(U)
  <2>1. Opens(U) = Opens(tbl)
    BY <1>5, <1>6, <1>8
  <2> QED
    BY <1>4, <2>1 DEF U
<1> QED
  BY <1>7, <1>8

-----------------------------------------------------------------------------
(* The array and the file *)

LEMMA InitIInv == Init => IInv
<1> SUFFICES ASSUME Init PROVE IInv
  OBVIOUS
<1>1. file = <<>> /\ file \in Seq(Seq(Words)) /\ Len(file) = 0
  BY DEF Init
<1>2. table = Cleared /\ table \in [Index -> Entry]
  BY ClearedType DEF Init
<1>3. read_file(file, Cleared) = Cleared
  BY <1>1 DEF read_file, Cleared, Index
<1>4. TypeOK
  BY <1>1, <1>2 DEF Init, TypeOK
<1>5. ResetChangesNothing
  BY <1>2, <1>3 DEF ResetChangesNothing
<1> QED
  BY <1>4, <1>5 DEF Init, IInv

\* While the array and the file agree, the cards that open the door are those of
\* the lines.
LEMMA OpensAsGranted ==
  ASSUME TypeOK, ResetChangesNothing, Ready, ~trouble, Len(file) <= MEMBER
  PROVE  Opens(table) = Granted(file)
  BY OpensFile DEF TypeOK, ResetChangesNothing

\* What a command that adds a line does to the cards that open the door.
LEMMA AddOpens ==
  ASSUME TypeOK, ResetChangesNothing, NEW line \in AddLines, add_member(line)
  PROVE  /\ TypeOK' /\ Opens(table') \subseteq Cards
         /\ ~trouble' /\ ~overrun' /\ file' = file => Opens(table') = Opens(table)
         /\ ~trouble' /\ ~overrun' /\ file' /= file =>
              Opens(table') = Opens(table) \cup GrantedBy(line)
         /\ ~trouble' /\ ~overrun' /\ Len(file') <= MEMBER =>
              Opens(table') = Granted(file')
<1>1. PICK written \in SDResult, read \in SDResult :
        /\ file' = IF written THEN Append(file, line) ELSE file
        /\ table' = IF read THEN read_file(file', table) ELSE table
        /\ overrun' = (read /\ Len(file') > MEMBER)
        /\ trouble' = (trouble \/ (written /\ ~read))
  BY DEF add_member
<1>2. written \in BOOLEAN /\ read \in BOOLEAN
  BY MemberAssumption DEF SDResult
<1>3. file \in Seq(Seq(Words)) /\ table \in [Index -> Entry] /\ Ready
  BY DEF TypeOK, add_member
<1>4. line \in Seq(Words)
  BY MemberAssumption DEF Words
<1>5. /\ Append(file, line) \in Seq(Seq(Words))
      /\ Granted(Append(file, line)) = Granted(file) \cup GrantedBy(line)
  BY <1>3, <1>4, GrantedAppend, Zenon
<1>6. file' \in Seq(Seq(Words))
  BY <1>1, <1>3, <1>5
<1>7. table' \in [Index -> Entry]
  BY <1>1, <1>3, <1>6, ReadFileType
<1>8. TypeOK'
  BY <1>1, <1>2, <1>6, <1>7 DEF TypeOK, add_member
<1>9. /\ Len(file) \in Nat /\ Len(file') \in Nat /\ Len(file) <= Len(file')
      /\ (written <=> file' /= file)
  <2>1. Len(file) \in Nat /\ Len(Append(file, line)) = Len(file) + 1
    BY <1>3, <1>4
  <2> QED
    BY <1>1, <1>2, <2>1
<1>10. ASSUME ~trouble', ~overrun'
       PROVE  /\ file' = file => Opens(table') = Opens(table)
              /\ file' /= file => Opens(table') = Opens(table) \cup GrantedBy(line)
              /\ Len(file') <= MEMBER => Opens(table') = Granted(file')
  <2>1. ~trouble /\ (written => read)
    BY <1>1, <1>10
  <2>2. CASE ~read
    <3>1. file' = file /\ table' = table
      BY <1>1, <2>1, <2>2
    <3> QED
      BY <1>3, <2>1, <3>1, OpensAsGranted
  <2>3. CASE read
    <3>1. table' = read_file(file', table) /\ Len(file') <= MEMBER
      <4>1. ~(Len(file') > MEMBER)
        BY <1>1, <1>10, <2>3, Zenon
      <4> QED
        BY <1>1, <1>9, <2>3, <4>1, MemberAssumption
    <3>2. Opens(table) = Granted(file)
      <4>1. Len(file) <= MEMBER
        BY <1>9, <3>1, MemberAssumption
      <4> QED
        BY <1>3, <2>1, <4>1, OpensAsGranted
    <3>3. /\ Opens(table') \subseteq Granted(file') \cup Opens(table)
          /\ Granted(file') \subseteq Opens(table')
      BY <1>3, <1>6, <3>1, OpensRead
    <3>4. Granted(file') = IF written THEN Granted(file) \cup GrantedBy(line)
                           ELSE Granted(file)
      BY <1>1, <1>5
    <3> QED
      BY <1>9, <3>1, <3>2, <3>3, <3>4
  <2> QED
    BY <2>2, <2>3
<1>11. Opens(table') \subseteq Cards
  BY DEF Opens
<1> QED
  BY <1>8, <1>10, <1>11

\* What a removal does to them before it writes the file.
LEMMA RemoveBeginsOpens ==
  ASSUME TypeOK, NEW str, RemoveBegins(str)
  PROVE  /\ TypeOK'
         /\ \/ Opens(table') = Opens(table)
            \/ \E c \in Opens(table) : Opens(table') = Opens(table) \ {c}
<1> DEFINE T == Trimmed(table, str)
           k == isUser(table, str)
<1>1. PICK removed \in SDResult :
        /\ file' = IF removed THEN <<>> ELSE file
        /\ trouble' = (trouble \/ ~removed)
  BY DEF RemoveBegins
<1>2. PICK nulls \in [Index -> NullReads] : table' = WithoutEntry(T, k, nulls)
  BY DEF RemoveBegins
<1>3. T \in [Index -> Entry] /\ Opens(T) = Opens(table)
  BY TrimmedType, TrimmedOpens DEF TypeOK
<1>4. k \in Index
  BY IsUserFinds DEF RemoveBegins
<1>5. /\ table' \in [Index -> Entry]
      /\ \/ Opens(table') = Opens(T)
         \/ \E c \in Opens(T) : Opens(table') = Opens(T) \ {c}
  <2> HIDE DEF T, k
  <2> QED
    BY <1>2, <1>3, <1>4, RemovedOpens, Zenon
<1>6. removed \in BOOLEAN
  BY MemberAssumption DEF SDResult
<1>7. TypeOK'
  BY <1>1, <1>5, <1>6 DEF TypeOK, RemoveBegins
<1> QED
  BY <1>3, <1>5, <1>7

\* Writing the array to the file leaves a file of the same cards, if it was gone.
LEMMA RemoveWritesGrants ==
  ASSUME TypeOK, RemoveWrites
  PROVE  /\ TypeOK'
         /\ file = <<>> /\ ~trouble' => Granted(file') = Opens(table)
<1>1. PICK written \in SDResult :
        /\ file' = IF written THEN file \o write_file(table) ELSE file
        /\ trouble' = (trouble \/ ~written)
  BY DEF RemoveWrites
<1>2. file \in Seq(Seq(Words)) /\ table \in [Index -> Entry]
  BY DEF TypeOK
<1>3. write_file(table) \in Seq(Seq(Words)) /\ Granted(write_file(table)) = Opens(table)
  BY <1>2, WriteFileGrants, Zenon
<1>4. file \o write_file(table) \in Seq(Seq(Words))
  BY <1>2, <1>3, ConcatProperties, Zenon
<1>5. written \in BOOLEAN
  BY MemberAssumption DEF SDResult
<1>6. TypeOK'
  BY <1>1, <1>2, <1>4, <1>5 DEF TypeOK, RemoveWrites
<1>7. ASSUME file = <<>>, ~trouble'
      PROVE  Granted(file') = Opens(table)
  <2>1. file' = <<>> \o write_file(table)
    BY <1>1, <1>7
  <2>2. file' = write_file(table)
    BY <1>3, <2>1, ConcatEmptySeq, Zenon
  <2> QED
    BY <1>3, <2>2
<1> QED
  BY <1>6, <1>7

\* What a reset does to them.
LEMMA ResetOpens ==
  ASSUME TypeOK, Reset
  PROVE  /\ TypeOK'
         /\ \/ trouble' /\ ~overrun' /\ Opens(table') = {}
            \/ /\ ~trouble' /\ (overrun' <=> Len(file) > MEMBER)
               /\ table' = read_file(file, Cleared)
<1>1. PICK opened \in BOOLEAN :
        /\ table' = IF opened THEN read_file(file, Cleared) ELSE Cleared
        /\ overrun' = (opened /\ Len(file) > MEMBER)
        /\ trouble' = ~opened
  BY MemberAssumption DEF Reset
<1>2. read_file(file, Cleared) \in [Index -> Entry] /\ Cleared \in [Index -> Entry]
  BY ClearedType, ReadFileType DEF TypeOK
<1>3. TypeOK'
  <2>1. mounted' \in BOOLEAN
    BY MemberAssumption DEF Reset
  <2>2. overrun' \in BOOLEAN /\ trouble' \in BOOLEAN
    BY <1>1
  <2>3. table' \in [Index -> Entry]
    BY <1>1, <1>2
  <2> QED
    BY <2>1, <2>2, <2>3 DEF TypeOK, Reset
<1>4. Opens(Cleared) = {}
  BY NoCards DEF Opens, Cleared, NoEntry
<1>5. CASE opened
  BY <1>1, <1>3, <1>5
<1>6. CASE ~opened
  BY <1>1, <1>3, <1>4, <1>6
<1> QED
  BY <1>5, <1>6

\* A lookup, by a card, by the button or by a removal that finds nobody, only
\* trims names.
LEMMA LookupOpens ==
  ASSUME TypeOK, NEW str, Ready, table' = Trimmed(table, str), code' \in ReadCodes \cup {NoWord},
         UNCHANGED <<file, pc, mounted, trouble, overrun>>
  PROVE  TypeOK' /\ Opens(table') = Opens(table)
<1>1. table \in [Index -> Entry]
  BY DEF TypeOK
<1>2. table' \in [Index -> Entry] /\ Opens(table') = Opens(table)
  BY <1>1, TrimmedType, TrimmedOpens
<1> QED
  BY <1>2 DEF TypeOK

\* Every step keeps IInv.
LEMMA NextIInv == IInv /\ [Next]_vars => IInv'
<1> SUFFICES ASSUME IInv, [Next]_vars
             PROVE  IInv'
  OBVIOUS
<1>1. TypeOK /\ ResetChangesNothing /\ (pc = "writing" => ~overrun /\ (~trouble => file = <<>>))
  BY DEF IInv
<1>2. CASE Reset
  <2>1. TypeOK' /\ pc' = "idle" /\ file' = file
    BY <1>1, <1>2, ResetOpens DEF Reset
  <2>2. ~trouble' => table' = read_file(file', Cleared)
    BY <1>1, <1>2, <2>1, ResetOpens
  <2> QED
    BY <2>1, <2>2 DEF IInv, ResetChangesNothing
<1>3. ASSUME NEW line \in AddLines, add_member(line)
      PROVE  IInv'
  <2>1. /\ TypeOK' /\ pc' = "idle"
        /\ ~trouble' /\ ~overrun' /\ Len(file') <= MEMBER => Opens(table') = Granted(file')
    BY <1>1, <1>3, AddOpens DEF add_member, Ready
  <2>2. ASSUME Len(file') <= MEMBER
        PROVE  Opens(read_file(file', Cleared)) = Granted(file')
    BY <2>1, <2>2, OpensFile DEF TypeOK
  <2>3. ResetChangesNothing'
    BY <2>1, <2>2 DEF ResetChangesNothing, Ready
  <2> QED
    BY <2>1, <2>3 DEF IInv
<1>4. ASSUME NEW str, RemoveBegins(str)
      PROVE  IInv'
  <2>1. TypeOK' /\ pc' = "writing" /\ ~overrun'
    BY <1>1, <1>4, RemoveBeginsOpens DEF RemoveBegins, Ready
  <2>2. ~trouble' => file' = <<>>
    BY <1>4, MemberAssumption DEF RemoveBegins, SDResult
  <2> QED
    BY <2>1, <2>2 DEF IInv, ResetChangesNothing, Ready
<1>5. CASE RemoveWrites
  <2>1. TypeOK' /\ pc' = "idle" /\ table' = table /\ pc = "writing"
    BY <1>1, <1>5, RemoveWritesGrants DEF RemoveWrites
  <2>2. ~trouble' => ~trouble
    BY <1>5 DEF RemoveWrites
  <2>3. ~trouble' => Granted(file') = Opens(table')
    BY <1>1, <1>5, <2>1, <2>2, RemoveWritesGrants
  <2>4. ASSUME Len(file') <= MEMBER
        PROVE  Opens(read_file(file', Cleared)) = Granted(file')
    BY <2>1, <2>4, OpensFile DEF TypeOK
  <2>5. ResetChangesNothing'
    BY <2>3, <2>4 DEF ResetChangesNothing
  <2> QED
    BY <2>1, <2>5 DEF IInv
<1>6. ASSUME NEW str, Ready, table' = Trimmed(table, str), code' \in ReadCodes \cup {NoWord},
             UNCHANGED <<file, pc, mounted, trouble, overrun>>
      PROVE  IInv'
  <2>1. TypeOK' /\ Opens(table') = Opens(table)
    BY <1>1, <1>6, LookupOpens
  <2> QED
    BY <1>1, <1>6, <2>1 DEF IInv, ResetChangesNothing, Ready
<1>7. ASSUME NEW str, RemoveFails(str)
      PROVE  IInv'
  BY <1>1, <1>6, <1>7 DEF RemoveFails, TypeOK
<1>8. ASSUME NEW c \in ReadCodes, Card(c)
      PROVE  IInv'
  BY <1>6, <1>8 DEF Card
<1>9. CASE Button
  BY <1>1, <1>6, <1>9 DEF Button, TypeOK
<1>10. CASE UNCHANGED vars
  BY <1>1, <1>10 DEF vars, IInv, TypeOK, ResetChangesNothing, Ready
<1> QED
  BY <1>2, <1>3, <1>4, <1>5, <1>7, <1>8, <1>9, <1>10 DEF Next

LEMMA SpecIInv == Spec => []IInv
  BY InitIInv, NextIInv, PTL DEF Spec

\* The array stays an array of entries and the file a sequence of lines: no line
\* that is read and no move of the entries leaves anything else.
THEOREM TypeCorrect == Spec => []TypeOK
<1>1. IInv => TypeOK
  BY DEF IInv
<1> QED
  BY <1>1, SpecIInv, PTL

\* Between two commands the array and the file give access to the same cards,
\* whatever was added, removed, trimmed and left over in the array.
THEOREM ResetHarmless == Spec => []ResetChangesNothing
<1>1. IInv => ResetChangesNothing
  BY DEF IInv
<1> QED
  BY <1>1, SpecIInv, PTL

\* A complete line in a file that fits the array gives its card access wherever
\* the file is read.
LEMMA CompleteLineGrants ==
  ASSUME TypeOK, NEW line \in AddLines, add_member(line), file' /= file, Len(line) <= 2
  PROVE  /\ GrantedBy(line) = {line[1]}
         /\ Len(file') <= MEMBER =>
              \A tbl \in {table, Cleared} : line[1] \in Opens(read_file(file', tbl))
<1>1. line \in Seq(Words) /\ line /= <<>> /\ line[1] \in Cards
  BY MemberAssumption DEF Words
<1>2. Len(line) \in {1, 2}
  <2>1. Len(line) \in Nat /\ Len(line) /= 0
    BY <1>1, EmptySeq, LenProperties
  <2>2. \A k \in Nat : k /= 0 /\ k <= 2 => k \in {1, 2}
    OBVIOUS
  <2> QED
    BY <2>1, <2>2, Zenon
<1>3. GrantedBy(line) = {line[1]}
  BY <1>1, <1>2 DEF GrantedBy
<1>4. file' = Append(file, line) /\ file \in Seq(Seq(Words))
  BY DEF add_member, TypeOK
<1>5. file' \in Seq(Seq(Words)) /\ line[1] \in Granted(file')
  BY <1>1, <1>3, <1>4, GrantedAppend, Zenon
<1>6. ASSUME Len(file') <= MEMBER, NEW tbl \in {table, Cleared}
      PROVE  line[1] \in Opens(read_file(file', tbl))
  <2>1. tbl \in [Index -> Entry]
    BY ClearedType DEF TypeOK
  <2>2. Granted(file') \subseteq Opens(read_file(file', tbl))
    BY <1>5, <1>6, <2>1, OpensRead
  <2> QED
    BY <1>5, <2>2
<1> QED
  BY <1>3, <1>6

\* A complete line that gets to the file gives access to its card: at once, and to
\* it alone, if nothing has failed, and whatever has failed when the file is read
\* again, over the array that was there or after a reset.
THEOREM AdditionGrants == Spec => AddGrants
<1>1. ASSUME IInv, NEW line \in AddLines, add_member(line), file' /= file, Len(line) <= 2
      PROVE  /\ Len(file') <= MEMBER =>
                  \A tbl \in {table, Cleared} : line[1] \in Opens(read_file(file', tbl))
             /\ ~overrun' /\ ~trouble' => Opens(table') = Opens(table) \cup {line[1]}
  <2>1. TypeOK /\ ResetChangesNothing
    BY <1>1 DEF IInv
  <2>2. ~overrun' /\ ~trouble' => Opens(table') = Opens(table) \cup GrantedBy(line)
    BY <1>1, <2>1, AddOpens
  <2> QED
    BY <1>1, <2>1, <2>2, CompleteLineGrants
<1>2. IInv => \A line \in AddLines :
         add_member(line) /\ file' /= file /\ Len(line) <= 2 =>
           /\ Len(file') <= MEMBER =>
                \A tbl \in {table, Cleared} : line[1] \in Opens(read_file(file', tbl))
           /\ ~overrun' /\ ~trouble' => Opens(table') = Opens(table) \cup {line[1]}
  BY <1>1
<1> QED
  BY <1>2, SpecIInv, PTL DEF AddGrants

-----------------------------------------------------------------------------
(* Who is listed *)

\* A step lists a card only if it adds the card's line, or runs behind the array.
ListsNobody ==
  \A c \in Listed' \ Listed :
    overrun' \/ \E line \in AddLines : add_member(line) /\ line[1] = c

LEMMA AdditionLists ==
  ASSUME TypeOK, NEW line \in AddLines, add_member(line)
  PROVE  Listed' \subseteq Listed \cup {line[1]}
<1>1. /\ file \in Seq(Seq(Words)) /\ table \in [Index -> Entry] /\ line \in Seq(Words)
  BY MemberAssumption DEF TypeOK, Words
<1>2. /\ file' = file \/ file' = Append(file, line)
      /\ table' = table \/ table' = read_file(file', table)
  BY DEF add_member
<1>3. GrantedBy(line) \subseteq {line[1]}
  BY DEF GrantedBy
<1>4. /\ file' \in Seq(Seq(Words))
      /\ Granted(file') \subseteq Granted(file) \cup {line[1]}
  <2>1. CASE file' = file
    BY <1>1, <2>1
  <2>2. CASE file' = Append(file, line)
    <3>1. /\ Append(file, line) \in Seq(Seq(Words))
          /\ Granted(Append(file, line)) = Granted(file) \cup GrantedBy(line)
      BY <1>1, GrantedAppend, Zenon
    <3> QED
      BY <1>3, <2>2, <3>1
  <2> QED
    BY <1>2, <2>1, <2>2
<1>5. Opens(table') \subseteq Granted(file') \cup Opens(table)
  <2>1. Opens(read_file(file', table)) \subseteq Granted(file') \cup Opens(table)
    BY <1>1, <1>4, OpensRead
  <2> QED
    BY <1>2, <2>1
<1>6. Listed' = Opens(table') \cup Granted(file')
  BY DEF Listed
<1> QED
  BY <1>4, <1>5, <1>6 DEF Listed

LEMMA StepLists == IInv /\ [Next]_vars => ListsNobody \/ UNCHANGED vars
<1> SUFFICES ASSUME IInv, Next PROVE ListsNobody
  OBVIOUS
<1>1. /\ TypeOK /\ file \in Seq(Seq(Words)) /\ table \in [Index -> Entry]
      /\ Listed' = Opens(table') \cup Granted(file')
  BY DEF IInv, TypeOK, Listed
<1>2. CASE Reset
  <2>1. file' = file /\ (table' = Cleared \/ table' = read_file(file, Cleared))
    BY <1>2 DEF Reset
  <2>2. Opens(Cleared) = {}
    BY NoCards DEF Opens, Cleared, NoEntry
  <2>3. Opens(read_file(file, Cleared)) \subseteq Granted(file) \cup Opens(Cleared)
    BY <1>1, ClearedType, OpensRead
  <2> QED
    BY <1>1, <2>1, <2>2, <2>3 DEF ListsNobody, Listed
<1>3. ASSUME NEW line \in AddLines, add_member(line)
      PROVE  ListsNobody
  BY <1>1, <1>3, AdditionLists DEF ListsNobody
<1>4. ASSUME NEW str, RemoveBegins(str)
      PROVE  ListsNobody
  <2>1. Opens(table') \subseteq Opens(table)
    BY <1>1, <1>4, RemoveBeginsOpens
  <2>2. Granted(file') \subseteq Granted(file)
    BY <1>4, NothingGranted DEF RemoveBegins
  <2> QED
    BY <1>1, <2>1, <2>2 DEF ListsNobody, Listed
<1>5. CASE RemoveWrites
  <2>1. table' = table /\ (file' = file \/ file' = file \o write_file(table))
    BY <1>5 DEF RemoveWrites
  <2>2. write_file(table) \in Seq(Seq(Words)) /\ Granted(write_file(table)) = Opens(table)
    BY <1>1, WriteFileGrants, Zenon
  <2>3. Granted(file \o write_file(table)) = Granted(file) \cup Granted(write_file(table))
    BY <1>1, <2>2, GrantedConcat, Zenon
  <2> QED
    BY <1>1, <2>1, <2>2, <2>3 DEF ListsNobody, Listed
<1>6. ASSUME NEW str, table' = Trimmed(table, str), file' = file
      PROVE  ListsNobody
  BY <1>1, <1>6, TrimmedOpens DEF ListsNobody, Listed
<1>7. ASSUME NEW str, RemoveFails(str)
      PROVE  ListsNobody
  BY <1>6, <1>7 DEF RemoveFails
<1>8. ASSUME NEW c \in ReadCodes, Card(c)
      PROVE  ListsNobody
  BY <1>6, <1>8 DEF Card
<1>9. CASE Button
  BY <1>6, <1>9 DEF Button
<1> QED
  BY <1>2, <1>3, <1>4, <1>5, <1>7, <1>8, <1>9 DEF Next

\* However often the calls of the SD library fail, and wherever the board is reset,
\* a card opens the door, or would after a reset, only if a client has added it.
THEOREM OnlyTheAdded == Spec => NobodyUnasked
<1>1. IInv /\ [Next]_vars =>
        [\A c \in Listed' \ Listed :
           overrun' \/ \E line \in AddLines : add_member(line) /\ line[1] = c]_vars
  BY StepLists DEF ListsNobody
<1> QED
  BY <1>1, SpecIInv, PTL DEF NobodyUnasked, Spec

-----------------------------------------------------------------------------
(* The list that people at the door see *)

\* A reset restarts the list, or breaks it where the file does not fit the array.
LEMMA ResetRestarts == IInv /\ Reset => Access!Next
<1> SUFFICES ASSUME IInv, Reset PROVE Access!Next
  OBVIOUS
<1>1. TypeOK /\ ~overrun /\ pc \in {"idle", "writing"} /\ pc' = "idle" /\ file' = file
  BY DEF IInv, TypeOK, Reset
<1>2. \/ trouble' /\ ~overrun' /\ Opens(table') = {}
      \/ /\ ~trouble' /\ (overrun' <=> Len(file) > MEMBER)
         /\ table' = read_file(file, Cleared)
  BY <1>1, ResetOpens
<1>3. /\ trouble \in BOOLEAN /\ trouble' \in BOOLEAN /\ overrun \in BOOLEAN
      /\ overrun' \in BOOLEAN /\ Opens(table') \in SUBSET Cards
  BY <1>1, ResetOpens DEF TypeOK, Opens
<1>4. CASE trouble' /\ ~overrun' /\ Opens(table') = {}
  <2>1. Access!Restart
    BY <1>1, <1>3, <1>4 DEF Access!Restart
  <2> QED
    BY <1>1, <2>1 DEF Access!Next
<1>5. CASE ~trouble' /\ overrun' /\ Len(file) > MEMBER
  <2>1. pc /= "writing" \/ trouble
    <3>1. file = <<>> => ~(Len(file) > MEMBER)
      BY MemberAssumption
    <3> QED
      BY <1>5, <3>1 DEF IInv
  <2>2. Access!Break
    BY <1>1, <1>3, <1>5, <2>1 DEF Access!Break
  <2> QED
    BY <1>1, <2>2 DEF Access!Next
<1>6. CASE ~trouble' /\ ~overrun' /\ ~(Len(file) > MEMBER)
           /\ table' = read_file(file, Cleared)
  <2>1. Len(file) <= MEMBER
    BY <1>1, <1>6, LenProperties, MemberAssumption DEF TypeOK
  <2>2. \/ Opens(table') = Opens(table)
        \/ pc = "writing" /\ Opens(table') = {}
        \/ trouble
    <3>1. CASE ~trouble /\ pc = "idle"
      BY <1>1, <1>6, <2>1, <3>1 DEF IInv, ResetChangesNothing, Ready
    <3>2. CASE ~trouble /\ pc = "writing"
      <4>1. read_file(file, Cleared) = Cleared
        BY <3>2 DEF IInv, read_file, Cleared, Index
      <4>2. Opens(Cleared) = {}
        BY NoCards DEF Opens, Cleared, NoEntry
      <4> QED
        BY <1>6, <3>2, <4>1, <4>2
    <3> QED
      BY <1>1, <3>1, <3>2
  <2>3. Access!Restart
    BY <1>1, <1>3, <1>6, <2>2 DEF Access!Restart
  <2> QED
    BY <1>1, <2>3 DEF Access!Next
<1> QED
  BY <1>2, <1>4, <1>5, <1>6

\* An added line adds a card to the list or none, or breaks it.
LEMMA AdditionAdds ==
  ASSUME IInv, NEW line \in AddLines, add_member(line)
  PROVE  Access!Next
<1>1. /\ TypeOK /\ ~overrun /\ pc = "idle" /\ pc' = "idle"
      /\ (trouble => trouble')
  BY DEF IInv, add_member, Ready
<1>2. /\ TypeOK' /\ Opens(table') \subseteq Cards
      /\ ~trouble' /\ ~overrun' /\ file' = file => Opens(table') = Opens(table)
      /\ ~trouble' /\ ~overrun' /\ file' /= file =>
           Opens(table') = Opens(table) \cup GrantedBy(line)
  BY AddOpens DEF IInv
<1>3. /\ trouble \in BOOLEAN /\ trouble' \in BOOLEAN /\ overrun \in BOOLEAN
      /\ overrun' \in BOOLEAN
  BY <1>1, <1>2 DEF TypeOK
<1>4. CASE overrun'
  BY <1>1, <1>2, <1>3, <1>4 DEF Access!Next, Access!Break
<1>5. CASE ~overrun'
  <2>1. \/ \E c \in Cards : Opens(table') = Opens(table) \cup {c}
        \/ trouble /\ Opens(table') \in SUBSET Cards
        \/ Opens(table') = Opens(table)
    <3>1. CASE trouble
      BY <1>2, <3>1
    <3>2. CASE ~trouble /\ trouble'
      BY <1>1, <3>2 DEF add_member
    <3>3. CASE ~trouble /\ ~trouble'
      <4>1. GrantedBy(line) = {} \/ \E c \in Cards : GrantedBy(line) = {c}
        BY DEF GrantedBy
      <4> QED
        BY <1>2, <1>5, <3>3, <4>1
    <3> QED
      BY <1>3, <3>1, <3>2, <3>3
  <2>2. Access!Add
    BY <1>1, <1>3, <1>5, <2>1 DEF Access!Add, Access!MayFail
  <2> QED
    BY <1>1, <2>2 DEF Access!Next
<1> QED
  BY <1>3, <1>4, <1>5

\* Every step of the members is a step of the list, or changes nothing in it.
LEMMA StepImplements == IInv /\ [Next]_vars => [Access!Next]_Access!vars
<1> SUFFICES ASSUME IInv, [Next]_vars
             PROVE  Access!Next \/ UNCHANGED Access!vars
  OBVIOUS
<1>1. TypeOK
  BY DEF IInv
<1>2. CASE Reset
  BY <1>2, ResetRestarts
<1>3. ASSUME NEW line \in AddLines, add_member(line)
      PROVE  Access!Next
  BY <1>3, AdditionAdds
<1>4. ASSUME NEW str, RemoveBegins(str)
      PROVE  Access!Next
  <2>1. /\ pc = "idle" /\ pc' = "writing" /\ ~overrun /\ overrun' = overrun
        /\ (trouble => trouble')
    BY <1>4 DEF RemoveBegins, Ready
  <2>2. \/ Opens(table') = Opens(table)
        \/ \E c \in Opens(table) : Opens(table') = Opens(table) \ {c}
    BY <1>1, <1>4, RemoveBeginsOpens
  <2> QED
    BY <2>1, <2>2 DEF Access!Next, Access!RemoveBegins, Access!MayFail
<1>5. CASE RemoveWrites
  <2>1. /\ pc = "writing" /\ pc' = "idle" /\ ~overrun /\ overrun' = overrun
        /\ table' = table /\ (trouble => trouble')
    BY <1>5 DEF RemoveWrites, IInv
  <2> QED
    BY <2>1 DEF Access!Next, Access!RemoveEnds, Access!MayFail
<1>6. ASSUME NEW str, Ready, table' = Trimmed(table, str), code' \in ReadCodes \cup {NoWord},
             UNCHANGED <<file, pc, mounted, trouble, overrun>>
      PROVE  UNCHANGED Access!vars
  BY <1>1, <1>6, LookupOpens DEF Access!vars
<1>7. ASSUME NEW str, RemoveFails(str)
      PROVE  UNCHANGED Access!vars
  BY <1>1, <1>6, <1>7 DEF RemoveFails, TypeOK
<1>8. ASSUME NEW c \in ReadCodes, Card(c)
      PROVE  UNCHANGED Access!vars
  BY <1>6, <1>8 DEF Card
<1>9. CASE Button
  BY <1>1, <1>6, <1>9 DEF Button, TypeOK
<1>10. CASE UNCHANGED vars
  BY <1>10 DEF vars, Access!vars
<1> QED
  BY <1>2, <1>3, <1>4, <1>5, <1>7, <1>8, <1>9, <1>10 DEF Next

\* Seen from the door, the array, the file and their formats are a list of cards
\* of which a command gives or takes away one at most.
THEOREM Refinement == Spec => ImplementsAccessList
<1>1. Init => Access!Init
  <2>1. Opens(Cleared) = {}
    BY NoCards DEF Opens, Cleared, NoEntry
  <2> QED
    BY <2>1 DEF Init, Access!Init
<1> QED
  BY <1>1, StepImplements, SpecIInv, PTL DEF Spec, ImplementsAccessList, Access!Spec

-----------------------------------------------------------------------------
(* A board without its SD card *)

\* In an array that is still zeroed nobody is found.
LEMMA NobodyInCleared ==
  ASSUME NEW str
  PROVE  Matches(Cleared, str) = {}
  BY DEF Matches, Cleared, NoEntry

\* A lookup leaves a zeroed array zeroed: there is nothing to trim.
LEMMA TrimmedCleared ==
  ASSUME NEW str
  PROVE  Trimmed(Cleared, str) = Cleared
<1>1. TrimName(NoEntry) = NoEntry
  <2>1. NoEntry \in [id : {NoWord}, name : {NoWord}, cr : BOOLEAN]
    BY DEF NoEntry
  <2>2. ~NoEntry.cr
    BY DEF NoEntry
  <2>3. [NoEntry EXCEPT !.cr = NoEntry.cr] = NoEntry
    BY <2>1
  <2>4. (NoEntry.cr /\ NoEntry.name = NoWord) = NoEntry.cr
    BY <2>1, <2>2
  <2> QED
    BY <2>3, <2>4, Zenon DEF TrimName
<1>2. \A i \in Index : Cleared[i] = NoEntry
  BY DEF Cleared
<1> QED
  BY <1>1, <1>2 DEF Trimmed, Cleared

\* Without the SD card the array stays as the reset has zeroed it.
UnmountedCleared == mounted \in BOOLEAN /\ (~mounted => table = Cleared)

LEMMA NextUnmounted == UnmountedCleared /\ [Next]_vars => UnmountedCleared'
<1> SUFFICES ASSUME UnmountedCleared, [Next]_vars
             PROVE  UnmountedCleared'
  OBVIOUS
<1> USE DEF UnmountedCleared
<1>1. CASE Reset
  BY <1>1, MemberAssumption DEF Reset
<1>2. ASSUME NEW line \in AddLines, add_member(line)
      PROVE  UnmountedCleared'
  <2>1. PICK read \in SDResult :
          table' = IF read THEN read_file(file', table) ELSE table
    BY <1>2 DEF add_member
  <2>2. ~mounted => ~read
    BY <2>1 DEF SDResult
  <2> QED
    BY <1>2, <2>1, <2>2 DEF add_member
<1>3. ASSUME NEW str, RemoveBegins(str)
      PROVE  UnmountedCleared'
  BY <1>3, NobodyInCleared DEF RemoveBegins
<1>4. CASE RemoveWrites
  BY <1>4 DEF RemoveWrites
<1>5. ASSUME NEW str, RemoveFails(str)
      PROVE  UnmountedCleared'
  BY <1>5, TrimmedCleared DEF RemoveFails
<1>6. ASSUME NEW c \in ReadCodes, Card(c)
      PROVE  UnmountedCleared'
  BY <1>6, TrimmedCleared DEF Card
<1>7. CASE Button
  BY <1>7, TrimmedCleared DEF Button
<1>8. CASE UNCHANGED vars
  BY <1>8 DEF vars
<1> QED
  BY <1>1, <1>2, <1>3, <1>4, <1>5, <1>6, <1>7, <1>8 DEF Next

\* No command, lookup or reset lets anybody in by card on a board that came up
\* without its SD card.
THEOREM NobodyWithoutSD == Spec => []UnmountedAdmitsNobody
<1>1. Init => UnmountedCleared
  BY DEF Init, UnmountedCleared
<1>2. UnmountedCleared /\ [Next]_vars => UnmountedCleared'
  BY NextUnmounted
<1>3. UnmountedCleared => UnmountedAdmitsNobody
  BY MemberAssumption DEF UnmountedCleared, UnmountedAdmitsNobody, Opens, Cleared, NoEntry
<1> QED
  BY <1>1, <1>2, <1>3, PTL DEF Spec
=============================================================================
