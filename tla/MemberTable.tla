----------------------------- MODULE MemberTable -----------------------------
(***************************************************************************)
(* The members of smartdoor_v8.ino: the array pupa in RAM, the file        *)
(* idaccess.txt on the SD card, and the operations that read, add, remove  *)
(* and look up members, with a reset of the board between any two steps    *)
(* and an SD card that may fail to mount, to open the file or to remove it.*)
(*                                                                         *)
(* A word is what a field of an entry holds up to its first '\r': a card   *)
(* code of ten characters, a name shorter than that, or NoWord for "".     *)
(* A '\r' behind a name is kept as the flag cr, since write_file() prints  *)
(* it; the one behind an id is trimmed wherever it could matter.  A line   *)
(* of the file is the sequence of its words, cut at each ' ' and ended by  *)
(* '\r' ('\n' is ignored): "<id> <name>\r" is <<id, name>>, and <<>> is    *)
(* what read_file() sees between the two '\r' of "\r\r\n".                 *)
(***************************************************************************)
EXTENDS Naturals, SequencesExt

CONSTANTS
  MEMBER,     \* length of pupa
  Cards,      \* the codes of the cards
  Names,      \* the names clients give
  Strays,     \* what else passes the checksum: bytes left of earlier codes
  NoWord,     \* the empty string
  Fragment,   \* the first few characters of some card's code
  Junk,       \* one arbitrary character
  NullReads,  \* what the three reads of a string at address 0 may return
  AddLines,   \* the lines clients add, all of at least ten characters
  SDOutcomes, \* what SD.begin(), open() and remove() may return
  FILE_MAX    \* bound: a longer file is neither appended to nor rewritten

Words == Cards \cup Names \cup {Fragment, Junk, NoWord}

\* What process_code() hands to check_IDAccess(): CardReader shows that besides
\* the codes of cards it may be the empty string or a mixture of bytes
ReadCodes == Cards \cup Strays

ASSUME MemberAssumption ==
  /\ MEMBER \in Nat \ {0}
  /\ Cards \cap {Fragment, Junk, NoWord} = {}
  /\ Strays \subseteq Words
  /\ NullReads \subseteq [compared : {NoWord, Junk}, id : {NoWord, Junk},
                          name : {NoWord, Junk}]
  /\ AddLines \subseteq Seq(Cards \cup Names \cup {NoWord}) \ {<<>>}
  /\ \A line \in AddLines : line[1] \in Cards
  /\ TRUE \in SDOutcomes /\ SDOutcomes \subseteq BOOLEAN
  /\ FILE_MAX \in Nat

VARIABLES
  table,    \* pupa
  file,     \* idaccess.txt
  code,     \* the card code last checked
  pc,       \* "idle", or "writing": between SD.remove() and write_file()
  mounted,  \* what SD.begin() returned in setup()
  trouble,  \* ghost: since the file was last read into a zeroed array, some
            \* call has failed halfway through a change of array and file
  overrun   \* read_file() has written behind pupa: what follows is undefined

vars == <<table, file, code, pc, mounted, trouble, overrun>>

\* Fault: a card that is not mounted is used
SDResultUnmounted == SDOutcomes

\* What a call of the SD library may return: on a card that is not mounted, all
\* calls fail
SDResult == IF mounted THEN SDOutcomes ELSE {FALSE}

Index == 0 .. MEMBER - 1
Entry == [id : Words, name : Words, cr : BOOLEAN]
NoEntry == [id |-> NoWord, name |-> NoWord, cr |-> FALSE]
Cleared == [i \in Index |-> NoEntry]

-----------------------------------------------------------------------------
(* read_file() and write_file() *)

\* Fault: the id is kept whole
CutIdNever(line) == line[1]

\* An id that later blanks of its line cut: "" or its first characters
CutId(line) ==
  IF \E k \in 2 .. Len(line) - 1 : line[k] = NoWord THEN NoWord ELSE Fragment

\* What a line leaves in the entry it is read into; without a ' ' the name, and
\* in an empty line the id too, stays what an earlier reading left there
ReadLine(line, entry) ==
  CASE Len(line) = 0 -> [id |-> entry.id, name |-> NoWord, cr |-> TRUE]
    [] Len(line) = 1 -> [entry EXCEPT !.id = line[1]]
    [] Len(line) = 2 -> [id |-> line[1], name |-> line[2], cr |-> TRUE]
    [] OTHER         -> [id |-> CutId(line), name |-> Last(line), cr |-> TRUE]

\* Fault: the reading runs on behind the array
ReadPastEnd(lines, tbl) ==
  [i \in Index \cup 0 .. Len(lines) - 1 |->
     IF i < Len(lines) THEN ReadLine(lines[i + 1], NoEntry) ELSE tbl[i]]

\* Fault: the last line is not read
ReadButLast(lines, tbl) ==
  [i \in Index |-> IF i + 1 < Len(lines) THEN ReadLine(lines[i + 1], tbl[i]) ELSE tbl[i]]

\* Each line is read into the next entry; entries behind the last line are kept
read_file(lines, tbl) ==
  [i \in Index |-> IF i < Len(lines) THEN ReadLine(lines[i + 1], tbl[i]) ELSE tbl[i]]

\* Fault: members without a name are not written
WriteNamed(entry) ==
  IF entry.id = NoWord \/ entry.name = NoWord THEN <<>>
  ELSE << <<entry.id, entry.name>> >> \o (IF entry.cr THEN << <<>> >> ELSE <<>>)

\* "<id> <name>\r\n", and if a '\r' is left in the name one more line end
WriteEntry(entry) ==
  IF entry.id = NoWord THEN <<>>
  ELSE << <<entry.id, entry.name>> >> \o (IF entry.cr THEN << <<>> >> ELSE <<>>)

\* What is written when the loop has come to entry n
Written(tbl) ==
  LET lines[n \in 0 .. MEMBER] ==
        IF n = 0 THEN <<>> ELSE lines[n - 1] \o WriteEntry(tbl[n - 1])
  IN lines

write_file(tbl) == Written(tbl)[MEMBER]

-----------------------------------------------------------------------------
(* isUser(): the first entry with this id or name, and what it trims *)

Matches(tbl, str) ==
  {i \in Index : tbl[i].id /= NoWord /\ str \in {tbl[i].id, tbl[i].name}}

isUser(tbl, str) ==
  CHOOSE i \in Matches(tbl, str) : \A j \in Matches(tbl, str) : i <= j

\* trimwhitespace() returns early on a name that is only '\r'
TrimName(entry) == [entry EXCEPT !.cr = @ /\ entry.name = NoWord]

\* The names up to the match have lost their '\r'
Trimmed(tbl, str) ==
  [i \in Index |->
     IF \A j \in Matches(tbl, str) : i <= j THEN TrimName(tbl[i]) ELSE tbl[i]]

-----------------------------------------------------------------------------
(* What a reset leaves: setup() reads the file into a zeroed array *)

Init ==
  /\ table = Cleared
  /\ file = <<>>
  /\ code = NoWord
  /\ pc = "idle"
  /\ mounted = TRUE
  /\ trouble = FALSE
  /\ overrun = FALSE

\* The board is reset, at any time; the file is found and opened, or it is not
Reset ==
  /\ ~overrun
  /\ mounted' \in SDOutcomes
  /\ \E opened \in IF mounted' THEN SDOutcomes ELSE {FALSE} :
       /\ table' = IF opened THEN read_file(file, Cleared) ELSE Cleared
       /\ overrun' = (opened /\ Len(file) > MEMBER)
       /\ trouble' = ~opened
  /\ code' = NoWord
  /\ pc' = "idle"
  /\ UNCHANGED file

Ready == pc = "idle" /\ ~overrun

-----------------------------------------------------------------------------
(* The commands 2_<line> and 3_<str> of a client *)

\* Fault: the line is added to the file only
AddUnread(line) ==
  /\ Ready /\ Len(file) <= FILE_MAX
  /\ \E written \in SDResult :
       file' = IF written THEN Append(file, line) ELSE file
  /\ UNCHANGED <<table, code, pc, mounted, trouble, overrun>>

\* add_member(): append the line and read the whole file again, each only if the
\* file can be opened; the answer is "Success" in any case.  A reset in between
\* leaves what a reset before or after it leaves.
add_member(line) ==
  /\ Ready /\ Len(file) <= FILE_MAX
  /\ \E written, read \in SDResult :
       /\ file' = IF written THEN Append(file, line) ELSE file
       /\ table' = IF read THEN read_file(file', table) ELSE table
       /\ overrun' = (read /\ Len(file') > MEMBER)
       /\ trouble' = (trouble \/ (written /\ ~read))
  /\ UNCHANGED <<code, pc, mounted>>

\* What the entry before `next` becomes when the entries move up by one: the id
\* of `next` is compared with the string at address 0, which is also copied.
MovedUp(next, null) ==
  IF next.id /= null.compared THEN next
  ELSE [id |-> null.id, name |-> null.name, cr |-> FALSE]

\* Fault: the last two entries are cleared
WithoutTail(tbl, k, nulls) ==
  [i \in Index |-> IF i < k THEN tbl[i]
                   ELSE IF i + 2 < MEMBER THEN MovedUp(tbl[i + 1], nulls[i])
                   ELSE NoEntry]

\* The table after entry k is removed; the last entry is copied, never cleared
WithoutEntry(tbl, k, nulls) ==
  [i \in Index |-> IF k <= i /\ i + 1 < MEMBER THEN MovedUp(tbl[i + 1], nulls[i])
                   ELSE tbl[i]]

\* remove_member() up to write_file(): the file is gone, unless SD.remove() has
\* failed, and the entries move up
RemoveBegins(str) ==
  /\ Ready /\ Len(file) <= FILE_MAX
  /\ Matches(table, str) /= {}
  /\ \E removed \in SDResult :
       /\ file' = IF removed THEN <<>> ELSE file
       /\ trouble' = (trouble \/ ~removed)
  /\ \E nulls \in [Index -> NullReads] :
       table' = WithoutEntry(Trimmed(table, str), isUser(table, str), nulls)
  /\ pc' = "writing"
  /\ UNCHANGED <<code, mounted, overrun>>

\* write_file() appends to what is there
RemoveWrites ==
  /\ pc = "writing"
  /\ \E written \in SDResult :
       /\ file' = IF written THEN file \o write_file(table) ELSE file
       /\ trouble' = (trouble \/ ~written)
  /\ pc' = "idle"
  /\ UNCHANGED <<table, code, mounted, overrun>>

\* "Fail to delete!!", which trims every name
RemoveFails(str) ==
  /\ Ready
  /\ Matches(table, str) = {}
  /\ table' = Trimmed(table, str)
  /\ UNCHANGED <<file, code, pc, mounted, trouble, overrun>>

-----------------------------------------------------------------------------
(* check_IDAccess() and the button, whose LEDprint() looks up the last code *)

Card(c) ==
  /\ Ready
  /\ code' = c
  /\ table' = Trimmed(table, c)
  /\ UNCHANGED <<file, pc, mounted, trouble, overrun>>

Button ==
  /\ Ready
  /\ table' = Trimmed(table, code)
  /\ UNCHANGED <<file, code, pc, mounted, trouble, overrun>>

-----------------------------------------------------------------------------
Next ==
  \/ Reset
  \/ \E line \in AddLines : add_member(line)
  \/ \E str \in Cards \cup Names \cup {NoWord} : RemoveBegins(str) \/ RemoveFails(str)
  \/ RemoveWrites
  \/ \E c \in ReadCodes : Card(c)
  \/ Button

Spec == Init /\ [][Next]_vars

-----------------------------------------------------------------------------
(* Properties *)

\* The members' cards, which open the door.  isUser() also lets in whoever sends a
\* member's name for a code, or the empty string where a member has no name.
Opens(tbl) == {c \in Cards : \E i \in Index : tbl[i].id = c}

\* The cards of the lines that make their card a member's: those of one or two
\* words
GrantedBy(line) == {c \in Cards : Len(line) \in {1, 2} /\ line[1] = c}
Granted(lines) ==
  {c \in Cards : \E k \in DOMAIN lines : c \in GrantedBy(lines[k])}

\* Every variable keeps its type.
TypeOK ==
  /\ table \in [Index -> Entry]
  /\ file \in Seq(Seq(Words))
  /\ code \in ReadCodes \cup {NoWord}
  /\ pc \in {"idle", "writing"}
  /\ mounted \in BOOLEAN /\ trouble \in BOOLEAN /\ overrun \in BOOLEAN

\* Whatever was added, removed, trimmed and left over in the array, the cards
\* that open the door are those that would open it after a reset: the array
\* and the file never disagree between two commands, as long as the lines of
\* the file fit the array.  A member that cannot be written because the card
\* fails does not matter, only a change of which one half has failed does, and
\* the next reset that can read the file puts an end to it.
ResetChangesNothing ==
  Ready /\ ~trouble /\ Len(file) <= MEMBER
    => Opens(table) = Opens(read_file(file, Cleared))

\* A complete line that gets to the file gives its card access, as soon as the
\* file is read: over the array that is there, or over a zeroed one after a
\* reset, whatever has failed before.  add_member() says "Success" also if it
\* could not read the file again; the card is then refused until somebody can.
\* If nothing has failed the card has its access at once, and nobody else gains
\* or loses any.
AddGrants ==
  [][\A line \in AddLines :
       add_member(line) /\ file' /= file /\ Len(line) <= 2 =>
         /\ Len(file') <= MEMBER =>
              \A tbl \in {table, Cleared} : line[1] \in Opens(read_file(file', tbl))
         /\ ~overrun' /\ ~trouble' => Opens(table') = Opens(table) \cup {line[1]}]_vars

\* The cards that open the door, or would after a reset
Listed == Opens(table) \cup Granted(file)

\* Whatever fails, and however often, nobody is let in whom no client has added:
\* neither a removal that is written behind the file it should replace, nor a
\* reset in the middle of one, nor a reading over an old array makes a card a
\* member's.
NobodyUnasked ==
  [][\A c \in Listed' \ Listed :
       overrun' \/ \E line \in AddLines : add_member(line) /\ line[1] = c]_vars

\* A board that came up without its SD card lets nobody in by card, whatever is
\* added afterwards.
UnmountedAdmitsNobody == ~mounted => Opens(table) = {}

\* The members as the people at the door see them.
Access == INSTANCE AccessList WITH
  allowed <- Opens(table), removing <- pc = "writing", broken <- overrun

\* Seen from the door, a command gives or takes away at most one card's access,
\* no other step does, and only a reset in the middle of a removal loses the
\* list.  When a call of the SD library has failed, a removal still takes away
\* one card at most, but an addition or a reset may bring back any.
ImplementsAccessList == Access!Spec

\* Complete lines have listed the card c at most once
ListedOnce(c) ==
  Cardinality({i \in Index : table[i].id = c /\ table[i].name \in Names}) <= 1

\* "Remove member : 3_<name> or 3_<rfid_code>": a card that was removed by its
\* code, and was listed with its name at most once, no longer opens the door.
RemovedMeansNoAccess ==
  [][\A c \in Cards :
       RemoveBegins(c) /\ ListedOnce(c) => c \notin Opens(table')]_vars

\* "pathern -> <member_id> <member_name>\r\n": every line of the file has it.
FilePattern == \A k \in DOMAIN file : Len(file[k]) = 2
=============================================================================
