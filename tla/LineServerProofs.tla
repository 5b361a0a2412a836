--------------------------- MODULE LineServerProofs ---------------------------
(***************************************************************************)
(* The proof that CommandServer implements LineServer, for every set of    *)
(* sockets, every text, every length of the buffer and every long.         *)
(***************************************************************************)
EXTENDS CommandServerProofs

Digit == 48 .. 57

-----------------------------------------------------------------------------
(* The powers of ten, and how far power10() computes them *)

Ten[n \in Nat] == IF n = 0 THEN 1 ELSE 10 * Ten[n - 1]

LEMMA TenComputed ==
  /\ Ten[0] = 1
  /\ \A n \in Nat : Ten[n + 1] = 10 * Ten[n] /\ Ten[n] \in Nat \ {0}
<1> DEFINE step == [n \in Nat |-> [v \in Nat |-> 10 * v]]
<1>1. step \in [Nat -> [Nat -> Nat]]
  OBVIOUS
<1>2. PICK f : IsRecursion(f, Nat, 1, step)
  <2> HIDE DEF step
  <2>1. 1 \in Nat
    OBVIOUS
  <2> QED
    BY <1>1, <2>1, RecursionDefines DEF Rounds
<1>3. ASSUME NEW n \in Nat \ {0}
      PROVE  f[n] = 10 * f[n - 1]
  <2>1. n \in Nat /\ n - 1 \in Nat
    OBVIOUS
  <2>2. f[n] = step[n][f[n - 1]] /\ f[n - 1] \in Nat
    BY <1>2, <2>1 DEF IsRecursion
  <2> QED
    BY <2>1, <2>2
<1> HIDE DEF step
<1>4. f = [n \in Nat |-> IF n = 0 THEN 1 ELSE 10 * f[n - 1]]
  BY <1>2, <1>3 DEF IsRecursion
<1>5. Ten = [n \in Nat |-> IF n = 0 THEN 1 ELSE 10 * Ten[n - 1]]
  BY <1>4, Zenon DEF Ten
<1>6. \A n \in Nat : Ten[n + 1] = 10 * Ten[n]
  <2>1. \A n \in Nat : n + 1 \in Nat /\ n + 1 /= 0 /\ (n + 1) - 1 = n
    OBVIOUS
  <2> QED
    BY <1>5, <2>1
<1> DEFINE S == {n \in Nat : Ten[n] \in Nat \ {0}}
<1>7. 0 \in S /\ Ten[0] = 1
  BY <1>5
<1>8. ASSUME NEW n \in Nat, n \in S
      PROVE  n + 1 \in S
  BY <1>6, <1>8
<1>9. Nat \subseteq S
  <2> HIDE DEF S
  <2> QED
    BY <1>7, <1>8, Induction
<1> QED
  BY <1>6, <1>7, <1>9

\* A number that a long can hold does not wrap.
LEMMA NoWrap ==
  ASSUME NEW n \in 0 .. LONG_MAX
  PROVE  ToLong(n) = n
<1>1. LONG_MAX \in Nat
  BY ServerAssumption
<1> DEFINE m == 2 * (LONG_MAX + 1)
           a == n + LONG_MAX + 1
<1>2. m \in Nat \ {0} /\ a \in 0 .. m - 1
  BY <1>1
<1>3. a % m = a
  <2> HIDE DEF a, m
  <2> QED
    BY <1>2
<1> QED
  BY <1>1, <1>3 DEF ToLong

\* power10() is exact as long as a long can hold the power.
LEMMA PowerExact ==
  ASSUME NEW n \in Nat, Ten[n] <= LONG_MAX
  PROVE  power10[n] = Ten[n]
<1> DEFINE S == {i \in Nat : Ten[i] <= LONG_MAX => power10[i] = Ten[i]}
<1>0. LONG_MAX \in Nat
  BY ServerAssumption
<1>1. 0 \in S
  BY Power10Computed, TenComputed
<1>2. ASSUME NEW i \in Nat, i \in S
      PROVE  i + 1 \in S
  <2>1. i + 1 \in Nat /\ i + 1 /= 0 /\ (i + 1) - 1 = i
    OBVIOUS
  <2>2. power10[i + 1] = ToLong(power10[i] * 10)
    BY <2>1, Power10Computed
  <2>3. Ten[i + 1] = 10 * Ten[i] /\ Ten[i] \in Nat \ {0}
    BY TenComputed
  <2>4. ASSUME Ten[i + 1] <= LONG_MAX
        PROVE  power10[i + 1] = Ten[i + 1]
    <3>1. power10[i] = Ten[i]
      BY <1>0, <1>2, <2>3, <2>4
    <3>2. power10[i] * 10 = Ten[i + 1] /\ Ten[i + 1] \in 0 .. LONG_MAX
      BY <1>0, <2>3, <2>4, <3>1
    <3> QED
      BY <2>2, <3>2, NoWrap
  <2> QED
    BY <2>1, <2>4
<1>3. Nat \subseteq S
  <2> HIDE DEF S
  <2> QED
    BY <1>1, <1>2, Induction
<1> QED
  BY <1>3

-----------------------------------------------------------------------------
(* str2long() of the digits of a number that a long can hold *)

\* The numbers that the first characters of digits stand for
Leading(digits) ==
  LET first[n \in 0 .. Len(digits)] ==
        IF n = 0 THEN 0 ELSE 10 * first[n - 1] + (digits[n] - 48)
  IN first

LEMMA LeadingComputed ==
  ASSUME NEW str \in Seq(Digit)
  PROVE  /\ Leading(str)[0] = 0
         /\ \A n \in 1 .. Len(str) : Leading(str)[n] = 10 * Leading(str)[n - 1] + (str[n] - 48)
         /\ \A n \in 0 .. Len(str) : Leading(str)[n] \in Nat
         /\ Lines!Value(str) = Leading(str)[Len(str)]
<1> DEFINE term(n) == IF n \in 1 .. Len(str) THEN str[n] - 48 ELSE 0
           step == [n \in Nat |-> [v \in Nat |-> 10 * v + term(n)]]
           w == Leading(str)
<1>1. Len(str) \in Nat
  BY LenProperties
<1>2. ASSUME NEW n \in Nat
      PROVE  term(n) \in Nat
  <2>1. CASE n \in 1 .. Len(str)
    <3>1. str[n] \in Digit
      BY <2>1, ElementOfSeq, Zenon
    <3>2. \A ch \in Digit : ch - 48 \in Nat
      BY DEF Digit
    <3> QED
      BY <2>1, <3>1, <3>2, Zenon
  <2> QED
    BY <2>1
<1>3. step \in [Nat -> [Nat -> Nat]]
  <2> HIDE DEF term
  <2>1. \A a, b \in Nat : 10 * a + b \in Nat
    OBVIOUS
  <2>2. \A n, v \in Nat : 10 * v + term(n) \in Nat
    BY <1>2, <2>1, Zenon
  <2> QED
    BY <2>2
<1>4. w = [n \in 0 .. Len(str) |-> IF n = 0 THEN 0 ELSE 10 * w[n - 1] + (str[n] - 48)]
  <2>1. PICK f : IsLoop(f, Nat, 0, step, Len(str))
    <3> HIDE DEF step
    <3>1. 0 \in Nat
      OBVIOUS
    <3> QED
      BY <1>1, <1>3, <3>1, RecursionUpTo DEF Rounds
  <2>2. ASSUME NEW n \in 0 .. Len(str), n /= 0
        PROVE  f[n] = 10 * f[n - 1] + (str[n] - 48)
    <3>1. n \in Nat /\ n \in 1 .. Len(str) /\ n - 1 \in 0 .. Len(str)
      BY <1>1, <2>2
    <3>2. f[n - 1] \in Nat /\ f[n] = step[n][f[n - 1]]
      BY <2>1, <3>1 DEF IsLoop
    <3>3. term(n) = str[n] - 48
      BY <3>1
    <3> HIDE DEF term
    <3> QED
      BY <3>1, <3>2, <3>3
  <2> HIDE DEF step
  <2>3. f = [n \in 0 .. Len(str) |-> IF n = 0 THEN 0 ELSE 10 * f[n - 1] + (str[n] - 48)]
    BY <2>1, <2>2 DEF IsLoop
  <2> DEFINE value == CHOOSE g :
        g = [n \in 0 .. Len(str) |-> IF n = 0 THEN 0 ELSE 10 * g[n - 1] + (str[n] - 48)]
  <2>4. value = [n \in 0 .. Len(str) |->
                   IF n = 0 THEN 0 ELSE 10 * value[n - 1] + (str[n] - 48)]
    BY <2>3, Zenon
  <2>5. w = value
    BY DEF Leading
  <2> QED
    BY <2>4, <2>5, Zenon
<1> HIDE DEF step, w
<1>5. w[0] = 0
  BY <1>1, <1>4
<1>6. ASSUME NEW n \in 1 .. Len(str)
      PROVE  w[n] = 10 * w[n - 1] + (str[n] - 48)
  <2>1. n \in 0 .. Len(str) /\ n /= 0
    BY <1>1
  <2> QED
    BY <1>4, <2>1
<1> DEFINE S == {n \in 0 .. Len(str) : w[n] \in Nat}
<1>7. 0 \in S
  BY <1>1, <1>5
<1>8. ASSUME NEW n \in Nat, n \in S, n < Len(str)
      PROVE  n + 1 \in S
  <2>1. n + 1 \in 1 .. Len(str) /\ (n + 1) - 1 = n /\ n + 1 \in 0 .. Len(str)
    BY <1>1, <1>8
  <2>2. w[n + 1] = 10 * w[n] + term(n + 1)
    <3>1. w[n + 1] = 10 * w[(n + 1) - 1] + (str[n + 1] - 48)
      BY <1>6, <2>1, Zenon
    <3> QED
      BY <2>1, <3>1
  <2> HIDE DEF term
  <2>3. 10 * w[n] + term(n + 1) \in Nat
    <3>1. term(n + 1) \in Nat
      <4>1. n + 1 \in Nat
        BY <1>8
      <4> QED
        BY <1>2, <4>1, Zenon
    <3> QED
      BY <1>8, <3>1
  <2> QED
    BY <2>1, <2>2, <2>3
<1>9. 0 .. Len(str) \subseteq S
  <2> HIDE DEF S
  <2> QED
    BY <1>1, <1>7, <1>8, InductionUpTo
<1>10. Lines!Value(str) = w[Len(str)]
  BY DEF w, Leading, Lines!Value
<1> QED
  BY <1>5, <1>6, <1>9, <1>10 DEF w

\* When j digits from the right are summed up, the others, each in its place, are
\* what is missing of the number; so no sum that the code computes wraps, and no
\* power that wraps is multiplied with anything but 0.
LEMMA NumberRead ==
  ASSUME NEW str \in Seq(Digit), Lines!Value(str) <= LONG_MAX
  PROVE  str2long(str) = Lines!Value(str)
<1> DEFINE len == Len(str)
           left == Leading(str)
           right == Summed(str)
           S == {j \in 0 .. len : /\ right[j] \in Nat
                                  /\ left[len] = left[len - j] * Ten[j] + right[j]}
<1>0. LONG_MAX \in Nat
  BY ServerAssumption
<1>1. len \in Nat
  BY LenProperties
<1>2. str \in Seq(Char)
  <2>1. Digit \subseteq Char
    BY DEF Digit, Char
  <2> QED
    BY <2>1, SeqMonotonic
<1>3. /\ left[0] = 0
      /\ \A n \in 1 .. len : left[n] = 10 * left[n - 1] + (str[n] - 48)
      /\ \A n \in 0 .. len : left[n] \in Nat
      /\ Lines!Value(str) = left[len]
  BY LeadingComputed
<1>4. /\ right[0] = 0
      /\ \A j \in 1 .. len :
           right[j] = ToLong(right[j - 1] + (str[len - j + 1] - 48) * power10[j - 1])
  BY <1>2, SummedComputed
<1> HIDE DEF len, left, right
<1>5. 0 \in S
  <2>1. len - 0 = len /\ left[len] \in Nat /\ Ten[0] = 1
    BY <1>1, <1>3, TenComputed
  <2> QED
    BY <1>1, <1>4, <2>1
<1>6. ASSUME NEW j \in Nat, j \in S, j < len
      PROVE  j + 1 \in S
  <2> DEFINE d == str[len - j] - 48
             p == Ten[j]
             a == left[len - (j + 1)]
  <2>1. /\ j + 1 \in 1 .. len /\ (j + 1) - 1 = j /\ len - (j + 1) + 1 = len - j
        /\ len - j \in 1 .. len /\ (len - j) - 1 = len - (j + 1) /\ len - (j + 1) \in 0 .. len
    BY <1>1, <1>6
  <2>2. d \in 0 .. 9
    <3>1. str[len - j] \in Digit
      BY <2>1, ElementOfSeq, Zenon DEF len
    <3>2. \A ch \in Digit : ch - 48 \in 0 .. 9
      BY DEF Digit
    <3> QED
      BY <3>1, <3>2, Zenon
  <2>3. p \in Nat \ {0} /\ Ten[j + 1] = 10 * p
    BY TenComputed
  <2>4. left[len - j] = 10 * a + d /\ a \in Nat
    BY <1>3, <2>1
  <2>5. right[j] \in Nat /\ left[len] = left[len - j] * p + right[j]
    BY <1>6
  <2>6. right[j + 1] = ToLong(right[j] + d * power10[j])
    <3>1. right[j + 1] = ToLong(right[(j + 1) - 1]
                                  + (str[len - (j + 1) + 1] - 48) * power10[(j + 1) - 1])
      BY <1>4, <2>1, Zenon
    <3> QED
      BY <2>1, <3>1
  <2> HIDE DEF d, p, a
  <2>7. \A x, y, z, u \in Nat : (10 * x + y) * z + u = x * (10 * z) + (y * z + u)
    OBVIOUS
  <2>8. left[len] = a * Ten[j + 1] + (d * p + right[j])
    <3>1. d \in Nat
      BY <2>2
    <3> QED
      BY <2>3, <2>4, <2>5, <2>7, <3>1
  <2>9. d * p + right[j] \in 0 .. LONG_MAX
    <3>1. \A x, y \in Nat : x * y \in Nat
      OBVIOUS
    <3>2. a * Ten[j + 1] \in Nat /\ d * p \in Nat
      <4>1. Ten[j + 1] \in Nat /\ d \in Nat
        BY <2>2, <2>3
      <4> QED
        BY <2>3, <2>4, <3>1, <4>1
    <3>3. left[len] <= LONG_MAX
      BY <1>3
    <3> QED
      BY <1>0, <2>5, <2>8, <3>2, <3>3
  <2>10. d * power10[j] = d * p
    <3>1. CASE d = 0
      <4>1. power10[j] \in Int /\ p \in Int
        <5>1. power10[j] \in Longs
          BY <1>6, Power10Computed, Zenon
        <5>2. power10[j] \in Int
          BY <5>1, SmallLongs, Zenon
        <5>3. p \in Int
          BY <2>3
        <5> QED
          BY <5>2, <5>3
      <4> QED
        BY <3>1, <4>1
    <3>2. CASE d /= 0
      <4>1. \A x \in 1 .. 9, y \in Nat : y <= x * y
        OBVIOUS
      <4>2. p <= d * p /\ d * p \in Nat
        BY <2>2, <2>3, <3>2, <4>1
      <4>3. p <= LONG_MAX
        BY <1>0, <2>3, <2>5, <2>9, <4>2
      <4> QED
        BY <4>3, PowerExact DEF p
    <3> QED
      BY <3>1, <3>2
  <2>11. right[j + 1] = d * p + right[j]
    <3>1. right[j] + d * power10[j] = d * p + right[j]
      <4>1. d * p \in Int
        BY <2>2, <2>3
      <4> QED
        BY <2>5, <2>10, <4>1
    <3> QED
      BY <2>6, <2>9, <3>1, NoWrap
  <2> QED
    BY <1>0, <2>1, <2>8, <2>9, <2>11 DEF a
<1>7. 0 .. len \subseteq S
  <2> HIDE DEF S
  <2> QED
    BY <1>1, <1>5, <1>6, InductionUpTo
<1>8. left[len] = left[len - len] * Ten[len] + right[len] /\ right[len] \in Nat
  BY <1>1, <1>7
<1>9. left[len] = right[len]
  <2>1. len - len = 0 /\ Ten[len] \in Nat
    <3>1. Ten[len] \in Nat \ {0}
      BY <1>1, TenComputed, Zenon
    <3> QED
      BY <1>1, <3>1
  <2>2. \A x \in Nat : 0 * x = 0
    OBVIOUS
  <2>3. left[len - len] * Ten[len] = 0
    BY <1>3, <2>1, <2>2
  <2> QED
    BY <1>8, <2>3
<1>10. str2long(str) = right[len]
  BY DEF str2long, right, len
<1> QED
  BY <1>3, <1>9, <1>10

-----------------------------------------------------------------------------
(* What trimwhitespace() leaves of a line *)

\* Min and Max return the bounds of a set.
LEMMA MinIs ==
  ASSUME NEW T \in SUBSET Nat, NEW x \in T, \A y \in T : x <= y
  PROVE  Min(T) = x
<1>1. \A z \in T : (\A y \in T : z <= y) => z = x
  OBVIOUS
<1> QED
  BY <1>1 DEF Min

LEMMA MaxIs ==
  ASSUME NEW T \in SUBSET Nat, NEW x \in T, \A y \in T : x >= y
  PROVE  Max(T) = x
<1>1. \A z \in T : (\A y \in T : z >= y) => z = x
  OBVIOUS
<1> QED
  BY <1>1 DEF Max

\* The line has only blanks before a and after b, and none there.
Spans(line, a, b) ==
  /\ a \in 1 .. b /\ b \in 1 .. Len(line)
  /\ line[a] \notin Space /\ line[b] \notin Space
  /\ \A i \in 1 .. a - 1 : line[i] \in Space
  /\ \A i \in b + 1 .. Len(line) : line[i] \in Space

\* The characters from a to b are what is executed.
LEMMA SpanTrimmed ==
  ASSUME NEW line \in Seq(Char), NEW a \in Nat, NEW b \in Nat, Spans(line, a, b)
  PROVE  trimwhitespace(line) = SubSeq(line, a, b)
<1> DEFINE kept == {k \in DOMAIN line : line[k] \notin Space}
<1>1. DOMAIN line = 1 .. Len(line) /\ Len(line) \in Nat
  BY LenProperties
<1>2. kept \in SUBSET Nat /\ a \in kept /\ b \in kept
  BY <1>1 DEF Spans
<1>3. \A k \in kept : a <= k /\ b >= k
  <2> SUFFICES ASSUME NEW k \in kept PROVE a <= k /\ b >= k
    OBVIOUS
  <2>1. k \in 1 .. Len(line) /\ line[k] \notin Space
    BY <1>1
  <2>2. k \notin 1 .. a - 1 /\ k \notin b + 1 .. Len(line)
    BY <2>1 DEF Spans
  <2> QED
    BY <1>1, <2>1, <2>2
<1> HIDE DEF kept
<1>4. Min(kept) = a /\ Max(kept) = b
  BY <1>2, <1>3, MinIs, MaxIs
<1>5. kept /= {}
  BY <1>2
<1> QED
  BY <1>4, <1>5, Zenon DEF trimwhitespace, kept

\* There are such a and b in every line that is not blank.
LEMMA SpanExists ==
  ASSUME NEW line \in Seq(Char), trimwhitespace(line) /= <<>>
  PROVE  \E a, b \in Nat : Spans(line, a, b)
<1> DEFINE kept == {k \in DOMAIN line : line[k] \notin Space}
<1>1. DOMAIN line = 1 .. Len(line) /\ Len(line) \in Nat
  BY LenProperties
<1>2. kept /= {}
  BY Zenon DEF trimwhitespace
<1>3. kept \in SUBSET Nat /\ kept \in SUBSET (0 .. Len(line))
  BY <1>1
<1>4. PICK a \in kept : \A k \in kept : a <= k
  <2> HIDE DEF kept
  <2> QED
    BY <1>2, <1>3, LeastNumber
<1>5. PICK b \in kept : \A k \in kept : k <= b
  <2> HIDE DEF kept
  <2> QED
    BY <1>1, <1>2, <1>3, GreatestNumber
<1>6. a \in 1 .. b /\ b \in 1 .. Len(line) /\ line[a] \notin Space /\ line[b] \notin Space
  <2>1. a <= b
    BY <1>5
  <2> QED
    BY <1>1, <2>1
<1>7. ASSUME NEW i \in 1 .. Len(line), line[i] \notin Space
      PROVE  a <= i /\ i <= b
  <2>1. i \in kept
    BY <1>1, <1>7
  <2> QED
    BY <1>4, <1>5, <2>1
<1>8. \A i \in 1 .. a - 1 : line[i] \in Space
  BY <1>1, <1>6, <1>7
<1>9. \A i \in b + 1 .. Len(line) : line[i] \in Space
  BY <1>1, <1>6, <1>7
<1>10. Spans(line, a, b) /\ a \in Nat /\ b \in Nat
  BY <1>3, <1>6, <1>8, <1>9 DEF Spans
<1> QED
  BY <1>10

\* A line that sets the delay begins with 4_, after blanks.
LEMMA SetsDelay ==
  ASSUME NEW line \in Seq(Char), IsPrefix(<<52, 95>>, trimwhitespace(line))
  PROVE  Lines!Behind(line) /= {}
<1> DEFINE cmd == trimwhitespace(line)
<1>1. Len(<<52, 95>>) = 2 /\ 2 <= Len(cmd) /\ SubSeq(<<52, 95>>, 1, 2) = SubSeq(cmd, 1, 2)
  <2>1. Len(<<52, 95>>) = 2
    OBVIOUS
  <2> QED
    BY <2>1, Zenon DEF IsPrefix
<1>2. cmd /= <<>>
  BY <1>1
<1> HIDE DEF cmd
<1>3. PICK a, b \in Nat : Spans(line, a, b)
  BY <1>2, SpanExists DEF cmd
<1>4. cmd = SubSeq(line, a, b)
  BY <1>3, SpanTrimmed DEF cmd
<1>5. a \in 1 .. b /\ b \in 1 .. Len(line) /\ Len(line) \in Nat
  BY <1>3, LenProperties DEF Spans
<1>6. /\ cmd \in Seq(Char) /\ Len(cmd) = b - a + 1
      /\ \A i \in 1 .. b - a + 1 : cmd[i] = line[a + i - 1]
  <2>1. \A i \in a .. b : line[i] \in Char
    <3>1. \A i \in a .. b : i \in 1 .. Len(line)
      BY <1>5
    <3> QED
      BY <3>1, ElementOfSeq
  <2>2. a \in Int /\ b \in Int /\ a <= b
    BY <1>5
  <2> QED
    BY <1>4, <2>1, <2>2, SubSeqProperties
<1>7. cmd[1] = 52 /\ cmd[2] = 95
  <2>1. SubSeq(<<52, 95>>, 1, 2)[1] = 52 /\ SubSeq(<<52, 95>>, 1, 2)[2] = 95
    OBVIOUS
  <2>2. SubSeq(cmd, 1, 2)[1] = cmd[1] /\ SubSeq(cmd, 1, 2)[2] = cmd[2]
    BY <1>1, <1>6
  <2>3. SubSeq(<<52, 95>>, 1, 2) = SubSeq(cmd, 1, 2)
    BY <1>1
  <2> QED
    BY <2>1, <2>2, <2>3
<1>8. line[a] = 52 /\ line[a + 1] = 95 /\ a + 2 \in 3 .. Len(line) + 1
  <2>1. 2 <= b - a + 1
    BY <1>1, <1>6
  <2>2. cmd[1] = line[a + 1 - 1] /\ cmd[2] = line[a + 2 - 1]
    BY <1>5, <1>6, <2>1
  <2>3. a + 1 - 1 = a /\ a + 2 - 1 = a + 1
    OBVIOUS
  <2> QED
    BY <1>5, <1>7, <2>1, <2>2, <2>3
<1>9. /\ (a + 2) - 2 = a /\ (a + 2) - 1 = a + 1 /\ (a + 2) - 3 = a - 1
      /\ \A i \in 1 .. a - 1 : line[i] \in Space
  BY <1>3 DEF Spans
<1>10. <<line[(a + 2) - 2], line[(a + 2) - 1]>> = Lines!SetDelay
  BY <1>8, <1>9 DEF Lines!SetDelay
<1>11. \A i \in 1 .. (a + 2) - 3 : line[i] \in Lines!Space
  BY <1>9 DEF Space, Lines!Space
<1>12. a + 2 \in Lines!Behind(line)
  BY <1>8, <1>10, <1>11 DEF Lines!Behind
<1> QED
  BY <1>12

\* And if it goes on with digits, they are what str2long() gets.
LEMMA DigitsTrimmed ==
  ASSUME NEW line \in Seq(Char),
         NEW k \in Lines!Behind(line), NEW n \in Lines!LineEnds(line),
         \A i \in k .. n : line[i] \in Digit
  PROVE  /\ IsPrefix(<<52, 95>>, trimwhitespace(line))
         /\ SubSeq(trimwhitespace(line), 3, Len(trimwhitespace(line))) = SubSeq(line, k, n)
<1> DEFINE cmd == SubSeq(line, k - 2, n)
<1>1. Len(line) \in Nat
  BY LenProperties
<1>2. /\ k \in 3 .. Len(line) + 1 /\ line[k - 2] = 52 /\ line[k - 1] = 95
      /\ \A i \in 1 .. k - 3 : line[i] \in Space
  BY DEF Lines!Behind, Lines!SetDelay, Lines!Space, Space
<1>3. n \in 2 .. Len(line) /\ \A i \in n + 1 .. Len(line) : line[i] \in Space
  BY DEF Lines!LineEnds, Lines!Space, Space
<1>4. 52 \notin Space /\ 95 \notin Space /\ Digit \cap Space = {}
  BY DEF Space, Digit
<1>5. k - 1 <= n
  <2> SUFFICES ASSUME n < k - 1 PROVE FALSE
    BY <1>2, <1>3
  <2>1. k - 1 \in n + 1 .. Len(line)
    BY <1>1, <1>2, <1>3
  <2>2. line[k - 1] \in Space
    BY <1>3, <2>1, Zenon
  <2> QED
    BY <1>2, <1>4, <2>2
<1>6. line[n] \notin Space
  <2>1. CASE n = k - 1
    BY <1>2, <1>4, <2>1
  <2>2. CASE n /= k - 1
    <3>1. n \in k .. n
      BY <1>2, <1>3, <1>5, <2>2
    <3> QED
      BY <1>4, <3>1
  <2> QED
    BY <2>1, <2>2
<1>7. Spans(line, k - 2, n) /\ k - 2 \in Nat /\ n \in Nat
  <2>1. (k - 2) - 1 = k - 3 /\ k - 2 \in 1 .. n /\ n \in 1 .. Len(line) /\ k - 2 \in Nat /\ n \in Nat
    BY <1>1, <1>2, <1>3, <1>5
  <2>2. line[k - 2] \notin Space
    BY <1>2, <1>4
  <2>3. \A i \in 1 .. (k - 2) - 1 : line[i] \in Space
    BY <1>2, <2>1
  <2> QED
    BY <1>3, <1>6, <2>1, <2>2, <2>3, Zenon DEF Spans
<1>8. trimwhitespace(line) = cmd
  BY <1>7, SpanTrimmed
<1>9. /\ cmd \in Seq(Char) /\ Len(cmd) = n - k + 3
      /\ \A i \in 1 .. n - k + 3 : cmd[i] = line[k - 2 + i - 1]
  <2>1. \A i \in k - 2 .. n : line[i] \in Char
    <3>1. \A i \in k - 2 .. n : i \in 1 .. Len(line)
      BY <1>1, <1>2, <1>3
    <3> QED
      BY <3>1, ElementOfSeq
  <2>2. k - 2 \in Int /\ n \in Int /\ k - 2 <= n /\ n - (k - 2) + 1 = n - k + 3
    BY <1>2, <1>3, <1>5
  <2>3. /\ cmd \in Seq(Char)
        /\ Len(cmd) = IF k - 2 <= n THEN n - (k - 2) + 1 ELSE 0
        /\ \A i \in 1 .. n - (k - 2) + 1 : cmd[i] = line[(k - 2) + i - 1]
    BY <2>1, <2>2, SubSeqProperties
  <2> HIDE DEF cmd
  <2> QED
    BY <2>2, <2>3
<1> HIDE DEF cmd
<1>10. n - k + 3 \in Nat /\ 2 <= n - k + 3 /\ k \in Int /\ n \in Int
  BY <1>2, <1>3, <1>5
<1>11. cmd[1] = 52 /\ cmd[2] = 95
  <2>1. cmd[1] = line[k - 2 + 1 - 1] /\ cmd[2] = line[k - 2 + 2 - 1]
    BY <1>9, <1>10
  <2>2. k - 2 + 1 - 1 = k - 2 /\ k - 2 + 2 - 1 = k - 1
    BY <1>10
  <2> QED
    BY <1>2, <2>1, <2>2
<1>12. IsPrefix(<<52, 95>>, cmd)
  <2>1. SubSeq(<<52, 95>>, 1, 2) = SubSeq(cmd, 1, 2)
    BY <1>9, <1>10, <1>11
  <2>2. Len(<<52, 95>>) = 2 /\ 2 <= Len(cmd)
    BY <1>9, <1>10
  <2> QED
    BY <2>1, <2>2, Zenon DEF IsPrefix
<1>13. SubSeq(cmd, 3, Len(cmd)) = SubSeq(line, k, n)
  <2> DEFINE s == SubSeq(cmd, 3, Len(cmd))
             t == SubSeq(line, k, n)
  <2>1. /\ s \in Seq(Char) /\ Len(s) = n - k + 1
        /\ \A i \in 1 .. n - k + 1 : s[i] = cmd[i + 2]
    <3>1. \A i \in 3 .. Len(cmd) : cmd[i] \in Char
      <4>1. \A i \in 3 .. Len(cmd) : i \in 1 .. Len(cmd)
        BY <1>9, <1>10
      <4> QED
        BY <1>9, <4>1, ElementOfSeq
    <3>2. 3 \in Int /\ Len(cmd) \in Int
      BY <1>9, <1>10
    <3>3. /\ s \in Seq(Char)
          /\ Len(s) = IF 3 <= Len(cmd) THEN Len(cmd) - 3 + 1 ELSE 0
          /\ \A i \in 1 .. Len(cmd) - 3 + 1 : s[i] = cmd[3 + i - 1]
      BY <3>1, <3>2, SubSeqProperties
    <3> HIDE DEF s
    <3>4. Len(cmd) - 3 + 1 = n - k + 1 /\ \A i \in Int : 3 + i - 1 = i + 2
      BY <1>9, <1>10
    <3> QED
      BY <1>9, <1>10, <3>3, <3>4
  <2>2. /\ t \in Seq(Char) /\ Len(t) = n - k + 1
        /\ \A i \in 1 .. n - k + 1 : t[i] = line[k + i - 1]
    <3>1. \A i \in k .. n : line[i] \in Char
      <4>1. \A i \in k .. n : i \in 1 .. Len(line)
        BY <1>1, <1>2, <1>3
      <4> QED
        BY <4>1, ElementOfSeq
    <3>2. /\ t \in Seq(Char)
          /\ Len(t) = IF k <= n THEN n - k + 1 ELSE 0
          /\ \A i \in 1 .. n - k + 1 : t[i] = line[k + i - 1]
      BY <1>10, <3>1, SubSeqProperties
    <3> HIDE DEF t
    <3> QED
      BY <1>10, <3>2
  <2> HIDE DEF s, t
  <2>3. ASSUME NEW i \in 1 .. n - k + 1
        PROVE  s[i] = t[i]
    <3>1. i + 2 \in 1 .. n - k + 3 /\ k - 2 + (i + 2) - 1 = k + i - 1
      BY <1>10
    <3>2. cmd[i + 2] = line[k - 2 + (i + 2) - 1]
      BY <1>9, <3>1, Zenon
    <3> QED
      BY <2>1, <2>2, <3>1, <3>2
  <2>4. s = t
    BY <2>1, <2>2, <2>3, SeqEqual
  <2> QED
    BY <2>4 DEF s, t
<1> QED
  BY <1>8, <1>12, <1>13

\* The delay that the command leaves is one that the line means.
LEMMA CommandMeant ==
  ASSUME NEW line \in Seq(Char), delayTime \in 1 .. LONG_MAX, process_command(line)
  PROVE  delayTime' \in Lines!Meant(line, delayTime)
<1> DEFINE cmd == trimwhitespace(line)
<1>1. delayTime' = IF IsPrefix(<<52, 95>>, cmd) THEN set_delaytime(cmd) ELSE delayTime
  BY Zenon DEF process_command
<1>2. delayTime' \in 1 .. LONG_MAX
  BY CommandDelay
<1>3. CASE Lines!Behind(line) = {}
  <2>1. ~IsPrefix(<<52, 95>>, cmd)
    BY <1>3, SetsDelay
  <2>2. delayTime' = delayTime
    BY <1>1, <2>1, Zenon
  <2> QED
    BY <1>3, <2>2, Zenon DEF Lines!Meant
<1>4. CASE Lines!Behind(line) /= {} /\ Lines!Numbers(line) = {}
  BY <1>2, <1>4, Zenon DEF Lines!Meant, Lines!LegalDelays
<1>5. ASSUME Lines!Behind(line) /= {}, NEW digits \in Lines!Numbers(line)
      PROVE  delayTime' \in Lines!Meant(line, delayTime)
  <2>0. /\ digits \in {SubSeq(line, k, n) : k \in Lines!Behind(line), n \in Lines!LineEnds(line)}
        /\ Lines!Range(digits) \subseteq Lines!Digit /\ Lines!Value(digits) <= LONG_MAX
    BY <1>5 DEF Lines!Numbers
  <2>1. PICK k \in Lines!Behind(line), n \in Lines!LineEnds(line) :
          digits = SubSeq(line, k, n)
    BY <2>0
  <2>2. Lines!Range(digits) \subseteq Lines!Digit /\ Lines!Value(digits) <= LONG_MAX
    BY <2>0
  <2>3. k \in Int /\ n \in Int /\ 1 <= k /\ n <= Len(line) /\ Len(line) \in Nat
    BY LenProperties DEF Lines!Behind, Lines!LineEnds
  <2>4. /\ digits \in Seq(Char) /\ Len(digits) = IF k <= n THEN n - k + 1 ELSE 0
        /\ \A i \in 1 .. n - k + 1 : digits[i] = line[k + i - 1]
    <3>1. \A i \in k .. n : line[i] \in Char
      <4>1. \A i \in k .. n : i \in 1 .. Len(line)
        BY <2>3
      <4> QED
        BY <4>1, ElementOfSeq
    <3> QED
      BY <2>1, <2>3, <3>1, SubSeqProperties
  <2>5. \A i \in DOMAIN digits : digits[i] \in Digit
    BY <2>2, Zenon DEF Lines!Range, Lines!Digit, Digit
  <2>6. \A i \in k .. n : line[i] \in Digit
    <3> SUFFICES ASSUME NEW i \in k .. n PROVE line[i] \in Digit
      OBVIOUS
    <3>1. i - k + 1 \in 1 .. n - k + 1 /\ k + (i - k + 1) - 1 = i /\ k <= n
      BY <2>3
    <3>2. digits[i - k + 1] = line[k + (i - k + 1) - 1]
      BY <2>4, <3>1, Zenon
    <3>3. i - k + 1 \in DOMAIN digits
      BY <2>4, <3>1, LenProperties
    <3> QED
      BY <2>5, <3>1, <3>2, <3>3
  <2>7. digits \in Seq(Digit)
    <3>1. Len(digits) \in Nat /\ digits \in [1 .. Len(digits) -> Char] /\ DOMAIN digits = 1 .. Len(digits)
      BY <2>4, LenProperties
    <3>2. digits \in [1 .. Len(digits) -> Digit]
      BY <2>5, <3>1
    <3> QED
      BY <3>1, <3>2, SeqDef
  <2>8. IsPrefix(<<52, 95>>, cmd) /\ SubSeq(cmd, 3, Len(cmd)) = digits
    BY <2>1, <2>6, DigitsTrimmed
  <2>9. str2long(digits) = Lines!Value(digits)
    BY <2>2, <2>7, NumberRead
  <2> HIDE DEF cmd
  <2>10. delayTime' = IF Lines!Value(digits) > 0 THEN Lines!Value(digits) ELSE delayTime
    BY <1>1, <2>8, <2>9, Zenon DEF set_delaytime
  <2>11. delayTime' \in {IF Lines!Value(d) > 0 THEN Lines!Value(d) ELSE delayTime :
                           d \in Lines!Numbers(line)}
    BY <1>5, <2>10, Zenon
  <2>12. Lines!Numbers(line) /= {}
    BY <1>5
  <2> QED
    BY <1>5, <2>11, <2>12, Zenon DEF Lines!Meant
<1> QED
  BY <1>3, <1>4, <1>5

-----------------------------------------------------------------------------
(* What LineServer sees of the connections *)

\* No line that is read waits with its end read, a client that has left has sent
\* all its text, and nothing is left of one whose socket is free.
Orderly(c) ==
  /\ c.state = "free" => c = NoConn
  /\ c.state = "left" => c.sent = Len(c.text)
  /\ \A k \in 1 .. c.read : c.text[k] /= NL

\* What it takes for a step to be one of LineServer
LineInv ==
  /\ OwnInv
  /\ delayTime \in 1 .. LONG_MAX
  /\ \A s \in Sockets : Orderly(conn[s])

\* A connection and what becomes of it: to its client it is the same, or ends.
SameLines(c, d) == d.state = c.state /\ d.text = c.text

LosesLines(c, d) ==
  /\ <<c.state, d.state>> \in {<<"open", "left">>, <<"open", "free">>, <<"left", "free">>}
  /\ \E k \in 0 .. Len(c.text) : d.text = SubSeq(c.text, 1, k)
  /\ d.state = "free" => d.text = <<>>

LEMMA NoConnOrderly == NoConn \in Sound /\ Orderly(NoConn)
  BY NoConnSound DEF NoConn, Orderly

\* A connection that is closed loses what it has.
LEMMA ClosedLoses ==
  ASSUME NEW c \in Sound, Orderly(c)
  PROVE  SameLines(c, NoConn) \/ LosesLines(c, NoConn)
<1>1. c.state \in {"free", "open", "left"} /\ c.text \in Seq(Char)
  BY DEF Sound, Connections, Char
<1>2. NoConn.state = "free" /\ NoConn.text = <<>>
  BY DEF NoConn
<1>3. CASE c.state = "free"
  BY <1>3 DEF SameLines, Orderly
<1>4. CASE c.state /= "free"
  <2>1. NoConn.text = SubSeq(c.text, 1, 0) /\ 0 \in 0 .. Len(c.text)
    BY <1>1, <1>2, SubSeqEmpty, LenProperties
  <2> QED
    BY <1>1, <1>2, <1>4, <2>1 DEF LosesLines
<1> QED
  BY <1>3, <1>4

\* One connection changes, as LineServer sees it.
LEMMA OneChanges ==
  ASSUME NEW s \in Sockets, NEW e, conn \in [Sockets -> Sound],
         conn' = [conn EXCEPT ![s] = e]
  PROVE  /\ [r \in Sockets |-> conn'[r].state]
              = [[r \in Sockets |-> conn[r].state] EXCEPT ![s] = e.state]
         /\ [r \in Sockets |-> conn'[r].text]
              = [[r \in Sockets |-> conn[r].text] EXCEPT ![s] = e.text]
  OBVIOUS

\* Steps in which clients lose lines, or nothing that LineServer sees happens
LEMMA LosingCutsOff ==
  ASSUME \A s \in Sockets : SameLines(conn[s], conn'[s]) \/ LosesLines(conn[s], conn'[s]),
         Stale => Stale', delayTime' = delayTime
  PROVE  Lines!CutOff
<1>1. ASSUME NEW s \in Sockets
      PROVE  \/ Lines!Ends(s)
             \/ /\ [r \in Sockets |-> conn'[r].state][s] = [r \in Sockets |-> conn[r].state][s]
                /\ [r \in Sockets |-> conn'[r].text][s] = [r \in Sockets |-> conn[r].text][s]
  <2>1. CASE SameLines(conn[s], conn'[s])
    BY <2>1 DEF SameLines
  <2>2. CASE LosesLines(conn[s], conn'[s])
    BY <2>2 DEF LosesLines, Lines!Ends
  <2> QED
    BY <2>1, <2>2
<1> QED
  BY <1>1 DEF Lines!CutOff

-----------------------------------------------------------------------------
(* The steps *)

\* What clients do is what LineServer lets them do; arriving is no step of it.
LEMMA ClientLines ==
  ASSUME LineInv, NEW s \in Sockets, Client(s)
  PROVE  (\A r \in Sockets : Orderly(conn'[r])) /\ [Lines!Next]_(Lines!vars)
<1> DEFINE c == conn[s]
<1>1. /\ conn \in [Sockets -> Sound] /\ c \in Sound /\ c \in Connections
      /\ c.read \in Nat /\ c.sent \in Nat /\ c.text \in Seq(Char)
      /\ c.read <= c.sent /\ c.sent <= Len(c.text)
      /\ Orderly(c) /\ \A r \in Sockets : Orderly(conn[r])
      /\ activeClient \in Sockets \cup {NoClient}
  <2>1. /\ conn \in [Sockets -> Sound] /\ c \in Sound
        /\ Orderly(c) /\ \A r \in Sockets : Orderly(conn[r])
        /\ activeClient \in Sockets \cup {NoClient}
    BY DEF LineInv, OwnInv
  <2> QED
    BY <2>1, SoundBounds
<1>2. UNCHANGED <<activeClient, command, delayTime, pc, overrun>>
  BY DEF Client
<1>3. ASSUME NEW e, conn' = [conn EXCEPT ![s] = e], e.read = c.read
      PROVE  Stale' = Stale
  <2>1. ReadOfActive' = ReadOfActive
    BY <1>1, <1>2, <1>3 DEF ReadOfActive
  <2> QED
    BY <1>2, <2>1, Zenon DEF Stale
<1>4. ASSUME NEW e, conn' = [conn EXCEPT ![s] = e], Orderly(e)
      PROVE  \A r \in Sockets : Orderly(conn'[r])
  BY <1>1, <1>4
<1>5. CASE Connects(s)
  <2> DEFINE e == [c EXCEPT !.state = "open"]
  <2>1. conn' = [conn EXCEPT ![s] = e] /\ c = NoConn
    BY <1>1, <1>5 DEF Connects
  <2>2. e.state = "open" /\ e.text = c.text /\ e.sent = c.sent /\ e.read = c.read /\ c.state = "free"
        /\ c.read = 0
    BY <2>1 DEF NoConn
  <2> HIDE DEF e
  <2>3. Orderly(e)
    BY <2>2 DEF Orderly
  <2>4. /\ [r \in Sockets |-> conn'[r].state]
              = [[r \in Sockets |-> conn[r].state] EXCEPT ![s] = "open"]
        /\ [r \in Sockets |-> conn'[r].text] = [r \in Sockets |-> conn[r].text]
    BY <1>1, <2>1, <2>2, OneChanges
  <2>5. [r \in Sockets |-> conn[r].state][s] = "free" /\ Stale' = Stale /\ delayTime' = delayTime
    BY <1>2, <1>3, <2>1, <2>2
  <2>6. Lines!Connects(s)
    BY <2>4, <2>5, Zenon DEF Lines!Connects
  <2> QED
    BY <1>4, <2>1, <2>3, <2>6 DEF Lines!Next
<1>6. CASE Types(s)
  <2>1. PICK text \in Texts : conn' = [conn EXCEPT ![s].text = text]
    BY <1>6 DEF Types
  <2> DEFINE e == [c EXCEPT !.text = text]
  <2>2. conn' = [conn EXCEPT ![s] = e] /\ c.state = "open" /\ c.text = <<>>
    BY <1>1, <1>6, <2>1 DEF Types
  <2>3. c.read = 0
    BY <1>1, <2>2
  <2>4. e.state = "open" /\ e.text = text /\ e.read = 0
    <3>1. text \in Seq(Char)
      BY ServerAssumption DEF Char
    <3>2. e.state = c.state
      BY <1>1 DEF Connections
    <3>3. e.text = text /\ e.read = c.read
      BY <1>1, <3>1, WithText, Zenon
    <3> HIDE DEF e
    <3> QED
      BY <2>2, <2>3, <3>2, <3>3
  <2> HIDE DEF e
  <2>5. Orderly(e)
    BY <2>4 DEF Orderly
  <2>6. /\ [r \in Sockets |-> conn'[r].state] = [r \in Sockets |-> conn[r].state]
        /\ [r \in Sockets |-> conn'[r].text]
              = [[r \in Sockets |-> conn[r].text] EXCEPT ![s] = text]
    <3>1. /\ [r \in Sockets |-> conn'[r].state]
              = [[r \in Sockets |-> conn[r].state] EXCEPT ![s] = e.state]
          /\ [r \in Sockets |-> conn'[r].text]
              = [[r \in Sockets |-> conn[r].text] EXCEPT ![s] = e.text]
      BY <1>1, <2>2, OneChanges
    <3> QED
      BY <2>2, <2>4, <3>1
  <2>7. /\ [r \in Sockets |-> conn[r].state][s] = "open"
        /\ [r \in Sockets |-> conn[r].text][s] = <<>>
        /\ Stale' = Stale /\ delayTime' = delayTime
    BY <1>2, <1>3, <2>2, <2>3, <2>4
  <2>8. Lines!Types(s)
    BY <2>6, <2>7, Zenon DEF Lines!Types
  <2> QED
    BY <1>4, <2>2, <2>5, <2>8 DEF Lines!Next
<1>7. CASE Sends(s)
  <2>1. PICK n \in c.sent + 1 .. Len(c.text) : conn' = [conn EXCEPT ![s].sent = n]
    BY <1>7 DEF Sends
  <2> DEFINE e == [c EXCEPT !.sent = n]
  <2>2. conn' = [conn EXCEPT ![s] = e] /\ c.state = "open"
    BY <1>1, <1>7, <2>1 DEF Sends
  <2>3. e.state = c.state /\ e.text = c.text /\ e.read = c.read
    BY <1>1 DEF Connections
  <2> HIDE DEF e
  <2>4. Orderly(e)
    BY <1>1, <2>2, <2>3 DEF Orderly
  <2>5. /\ [r \in Sockets |-> conn'[r].state] = [r \in Sockets |-> conn[r].state]
        /\ [r \in Sockets |-> conn'[r].text] = [r \in Sockets |-> conn[r].text]
    <3>1. /\ [r \in Sockets |-> conn'[r].state]
              = [[r \in Sockets |-> conn[r].state] EXCEPT ![s] = e.state]
          /\ [r \in Sockets |-> conn'[r].text]
              = [[r \in Sockets |-> conn[r].text] EXCEPT ![s] = e.text]
      BY <1>1, <2>2, OneChanges
    <3> QED
      BY <2>3, <3>1
  <2>6. Stale' = Stale /\ delayTime' = delayTime
    BY <1>2, <1>3, <2>2, <2>3
  <2>7. UNCHANGED Lines!vars
    BY <2>5, <2>6, Zenon DEF Lines!vars
  <2> QED
    BY <1>4, <2>2, <2>4, <2>7
<1>8. CASE Leaves(s)
  <2> DEFINE gone == [c EXCEPT !.state = "left"]
             e == [gone EXCEPT !.text = SubSeq(c.text, 1, c.sent)]
  <2>1. conn' = [conn EXCEPT ![s] = e] /\ c.state = "open"
    BY <1>1, <1>8 DEF Leaves
  <2>2. /\ SubSeq(c.text, 1, c.sent) \in Seq(Char)
        /\ Len(SubSeq(c.text, 1, c.sent)) = c.sent
        /\ \A k \in 1 .. c.sent : SubSeq(c.text, 1, c.sent)[k] = c.text[k]
    BY <1>1, Cut
  <2>3. /\ e.state = "left" /\ e.sent = c.sent /\ e.read = c.read
        /\ e.text = SubSeq(c.text, 1, c.sent)
    BY <1>1 DEF Connections
  <2> HIDE DEF e
  <2>4. Orderly(e)
    BY <1>1, <2>2, <2>3 DEF Orderly
  <2>5. conn'[s] = e /\ \A r \in Sockets \ {s} : conn'[r] = conn[r]
    BY <1>1, <2>1
  <2>6. LosesLines(c, e)
    <3>1. c.sent \in 0 .. Len(c.text)
      BY <1>1
    <3> QED
      BY <2>1, <2>3, <3>1 DEF LosesLines
  <2>7. \A r \in Sockets : SameLines(conn[r], conn'[r]) \/ LosesLines(conn[r], conn'[r])
    BY <2>5, <2>6 DEF SameLines
  <2>8. Stale' = Stale /\ delayTime' = delayTime
    BY <1>2, <1>3, <2>1, <2>3
  <2>9. Lines!CutOff
    BY <2>7, <2>8, LosingCutsOff
  <2> QED
    BY <1>4, <2>1, <2>4, <2>9 DEF Lines!Next
<1> QED
  BY <1>5, <1>6, <1>7, <1>8 DEF Client

\* A client that is displaced, or has left, is closed.
LEMMA SelectLines ==
  ASSUME LineInv, SelectClient
  PROVE  (\A r \in Sockets : Orderly(conn'[r])) /\ Lines!CutOff
<1>1. /\ conn \in [Sockets -> Sound] /\ \A r \in Sockets : Orderly(conn[r])
      /\ activeClient \in Sockets \cup {NoClient} /\ NoClient \notin Sockets
      /\ \A r \in Sockets \ {activeClient} : conn[r].read = 0
      /\ command \in Seq(Char)
  BY ServerAssumption DEF LineInv, OwnInv, NoClient
<1>2. \A r \in Sockets : conn'[r] \in {NoConn, conn[r]}
  BY DEF SelectClient
<1>3. command' = command /\ delayTime' = delayTime
      /\ activeClient' = IF available = NoClient THEN activeClient ELSE available
  BY DEF SelectClient
<1>4. \A r \in Sockets : Orderly(conn'[r])
  BY <1>1, <1>2, NoConnOrderly
<1>5. \A r \in Sockets : SameLines(conn[r], conn'[r]) \/ LosesLines(conn[r], conn'[r])
  <2> SUFFICES ASSUME NEW r \in Sockets
               PROVE  SameLines(conn[r], conn'[r]) \/ LosesLines(conn[r], conn'[r])
    OBVIOUS
  <2>1. CASE conn'[r] = NoConn
    BY <1>1, <2>1, ClosedLoses
  <2>2. CASE conn'[r] = conn[r]
    BY <2>2 DEF SameLines
  <2> QED
    BY <1>2, <2>1, <2>2
<1>6. ReadOfActive \in Nat /\ ReadOfActive' \in {0, ReadOfActive}
  <2>1. NoConn.read = 0 /\ \A r \in Sockets : conn[r].read \in Nat
    BY <1>1, SoundBounds, NoConnSound
  <2>2. activeClient' \in Sockets \cup {NoClient}
    BY SelectKeepsOwnInv DEF LineInv, OwnInv
  <2>3. ReadOfActive \in Nat
    BY <1>1, <2>1 DEF ReadOfActive
  <2>4. CASE activeClient' = NoClient
    <3>1. ReadOfActive' = 0
      BY <2>4, Zenon DEF ReadOfActive
    <3> QED
      BY <2>3, <3>1
  <2>5. CASE activeClient' \in Sockets /\ conn'[activeClient'] = NoConn
    BY <1>1, <2>1, <2>5 DEF ReadOfActive
  <2>6. CASE activeClient' \in Sockets /\ conn'[activeClient'] = conn[activeClient']
    <3>1. ReadOfActive' = conn[activeClient'].read
      BY <1>1, <2>6 DEF ReadOfActive
    <3>2. CASE activeClient' = activeClient
      BY <1>1, <2>3, <2>6, <3>1, <3>2 DEF ReadOfActive
    <3>3. CASE activeClient' /= activeClient
      <4>1. activeClient' \in Sockets \ {activeClient}
        BY <2>6, <3>3
      <4>2. conn[activeClient'].read = 0
        BY <1>1, <4>1, Zenon
      <4> QED
        BY <2>3, <3>1, <4>2
    <3> QED
      BY <2>3, <3>2, <3>3
  <2> QED
    BY <1>2, <2>2, <2>3, <2>4, <2>5, <2>6
<1>7. Stale => Stale'
  <2>1. Len(command) \in Nat
    BY <1>1, LenProperties
  <2>2. \A x, y, z \in Nat : x > y /\ z \in {0, y} => x > z
    OBVIOUS
  <2>3. ReadOfActive' \in Nat
    BY <1>6
  <2> QED
    BY <1>3, <1>6, <2>1, <2>2, <2>3, Zenon DEF Stale
<1> QED
  BY <1>3, <1>4, <1>5, <1>7, LosingCutsOff

\* What ReadOn does to the active client
Closes(c) == c = NoConn \/ (c.state = "left" /\ ~Unread(c))

LEMMA ReadOnCases ==
  ASSUME NEW c, ReadOn(c)
  PROVE  \/ /\ Closes(c) /\ conn' = [conn EXCEPT ![activeClient] = NoConn]
            /\ activeClient' = NoClient
         \/ /\ ~Closes(c) /\ conn' = [conn EXCEPT ![activeClient] = c]
            /\ activeClient' = activeClient
<1>1. CASE Closes(c)
  BY <1>1, Zenon DEF ReadOn, Closes
<1>2. CASE ~Closes(c)
  BY <1>2, Zenon DEF ReadOn, Closes
<1> QED
  BY <1>1, <1>2

\* The part of a line is read, and nobody sees it, unless the client has left.
LEMMA ReadPartLines ==
  ASSUME LineInv, ReadPart
  PROVE  (\A r \in Sockets : Orderly(conn'[r])) /\ Lines!CutOff
<1> DEFINE c == conn[activeClient]
           d == [c EXCEPT !.read = c.sent]
<1>1. /\ conn \in [Sockets -> Sound] /\ \A r \in Sockets : Orderly(conn[r])
      /\ activeClient \in Sockets /\ NoClient \notin Sockets /\ activeClient /= NoClient
      /\ command \in Seq(Char) /\ Ends = {}
      /\ EndsWithRead(c, command)
  BY ServerAssumption DEF LineInv, OwnInv, NoClient, ReadPart, Reading
<1>2. /\ c \in Connections /\ c \in Sound
      /\ c.read \in Nat /\ c.sent \in Nat /\ c.text \in Seq(Char)
      /\ c.read <= c.sent /\ c.sent <= Len(c.text) /\ Orderly(c)
  BY <1>1, SoundBounds
<1>3. /\ command' = command \o Arrived /\ ReadOn(d) /\ delayTime' = delayTime
  BY DEF ReadPart
<1>4. /\ Arrived \in Seq(Char) /\ Len(Arrived) = c.sent - c.read
      /\ \A k \in 1 .. c.sent - c.read : Arrived[k] = c.text[c.read + k]
  BY <1>2, Cut DEF Arrived
<1>5. d.state = c.state /\ d.text = c.text /\ d.sent = c.sent /\ d.read = c.sent
  BY <1>2 DEF Connections
<1>6. Orderly(d)
  <2>1. ASSUME d.state = "free"
        PROVE  d = NoConn
    <3>1. c = NoConn /\ c.sent = 0
      BY <1>2, <1>5, <2>1 DEF Orderly, NoConn
    <3> QED
      BY <3>1 DEF NoConn
  <2>2. \A k \in 1 .. c.sent : c.text[k] /= NL
    <3> SUFFICES ASSUME NEW k \in 1 .. c.sent, c.text[k] = NL PROVE FALSE
      OBVIOUS
    <3>1. CASE k <= c.read
      <4>1. k \in 1 .. c.read
        BY <1>2, <3>1
      <4> QED
        BY <1>2, <4>1 DEF Orderly
    <3>2. CASE k > c.read
      <4>1. k - c.read \in 1 .. c.sent - c.read /\ c.read + (k - c.read) = k
        <5>1. \A r, s \in Nat : \A i \in 1 .. s :
                i > r => i - r \in 1 .. s - r /\ r + (i - r) = i
          OBVIOUS
        <5> QED
          BY <1>2, <3>2, <5>1, Zenon
      <4>2. Arrived[k - c.read] = NL
        BY <1>4, <4>1
      <4>3. DOMAIN Arrived = 1 .. c.sent - c.read
        BY <1>4, LenProperties
      <4>4. k - c.read \in Ends
        BY <4>1, <4>2, <4>3 DEF Ends
      <4> QED
        BY <1>1, <4>4
    <3> QED
      BY <1>2, <3>1, <3>2
  <2> HIDE DEF d
  <2> QED
    BY <1>2, <1>5, <2>1, <2>2 DEF Orderly
<1> HIDE DEF d
<1>7. \/ /\ Closes(d) /\ conn' = [conn EXCEPT ![activeClient] = NoConn]
         /\ activeClient' = NoClient
      \/ /\ ~Closes(d) /\ conn' = [conn EXCEPT ![activeClient] = d]
         /\ activeClient' = activeClient
  BY <1>3, ReadOnCases
<1>8. \A r \in Sockets : Orderly(conn'[r])
  BY <1>1, <1>6, <1>7, NoConnOrderly
<1>9. \A r \in Sockets : SameLines(conn[r], conn'[r]) \/ LosesLines(conn[r], conn'[r])
  <2>1. \A r \in Sockets \ {activeClient} : conn'[r] = conn[r]
    BY <1>1, <1>7
  <2>2. conn'[activeClient] \in {NoConn, d}
    BY <1>1, <1>7
  <2>3. SameLines(c, d)
    BY <1>5 DEF SameLines
  <2>4. SameLines(c, NoConn) \/ LosesLines(c, NoConn)
    BY <1>2, ClosedLoses
  <2> HIDE DEF c
  <2>5. SameLines(c, conn'[activeClient]) \/ LosesLines(c, conn'[activeClient])
    BY <2>2, <2>3, <2>4
  <2>6. \A r \in Sockets : SameLines(conn[r], conn[r])
    BY DEF SameLines
  <2> QED
    BY <2>1, <2>5, <2>6 DEF c
<1>10. Stale => Stale'
  <2>1. Len(command) \in Nat /\ Len(command') = Len(command) + (c.sent - c.read)
    <3>1. Len(command) \in Nat
      BY <1>1, LenProperties
    <3>2. Len(command \o Arrived) = Len(command) + Len(Arrived)
      BY <1>1, <1>4, ConcatProperties, Zenon
    <3> QED
      BY <1>3, <1>4, <3>1, <3>2
  <2>2. ReadOfActive = c.read
    BY <1>1 DEF ReadOfActive
  <2>3. ReadOfActive' \in {0, c.sent}
    <3>1. CASE activeClient' = NoClient
      BY <3>1 DEF ReadOfActive
    <3>2. CASE activeClient' = activeClient
      BY <1>1, <1>5, <1>7, <3>2 DEF ReadOfActive
    <3> QED
      BY <1>7, <3>1, <3>2
  <2>4. ASSUME Len(command) > ReadOfActive
        PROVE  Len(command') > ReadOfActive'
    BY <1>2, <2>1, <2>2, <2>3, <2>4
  <2> QED
    BY <2>4 DEF Stale
<1> QED
  BY <1>3, <1>8, <1>9, <1>10, LosingCutsOff

\* Min is a lower bound.
LEMMA MinLeast ==
  ASSUME NEW T, T \subseteq Nat, T /= {}
  PROVE  Min(T) \in T /\ \A y \in T : Min(T) <= y
<1>1. \E x \in T : \A y \in T : x <= y
  BY LeastNumber
<1> QED
  BY <1>1 DEF Min

\* The line that is executed ends where its text does for LineServer, and if the
\* buffer held nothing else, it is the line that was typed.
LEMMA LineFound ==
  ASSUME LineInv, ReadLine
  PROVE  LET c == conn[activeClient]
             n == Min(Ends)
         IN  /\ n \in 1 .. c.sent - c.read
             /\ c.read + n \in 1 .. Len(c.text)
             /\ Lines!LineEnd(c.text) = c.read + n
             /\ command \o SubSeq(Arrived, 1, n - 1) \in Seq(Char)
             /\ ~Stale => command \o SubSeq(Arrived, 1, n - 1) = Lines!Line(c.text)
<1> DEFINE c == conn[activeClient]
           n == Min(Ends)
           tail == SubSeq(Arrived, 1, n - 1)
<1>1. /\ activeClient \in Sockets /\ activeClient /= NoClient
      /\ c \in Sound /\ Orderly(c)
      /\ command \in Seq(Char) /\ Ends /= {}
      /\ EndsWithRead(c, command)
  BY DEF LineInv, OwnInv, ReadLine, Reading
<1>2. /\ c.read \in Nat /\ c.sent \in Nat /\ c.text \in Seq(Char)
      /\ c.read <= c.sent /\ c.sent <= Len(c.text) /\ Len(c.text) \in Nat
      /\ DOMAIN c.text = 1 .. Len(c.text)
  BY <1>1, SoundBounds, LenProperties
<1>3. /\ Arrived \in Seq(Char) /\ Len(Arrived) = c.sent - c.read
      /\ \A k \in 1 .. c.sent - c.read : Arrived[k] = c.text[c.read + k]
  BY <1>2, Cut DEF Arrived
<1>4. Ends = {k \in 1 .. c.sent - c.read : Arrived[k] = NL}
  <2>1. DOMAIN Arrived = 1 .. c.sent - c.read
    BY <1>3, LenProperties
  <2> QED
    BY <2>1 DEF Ends
<1>5. n \in Ends /\ \A k \in Ends : n <= k
  <2>1. Ends \subseteq Nat
    BY <1>2, <1>4
  <2> QED
    BY <1>1, <2>1, MinLeast
<1> HIDE DEF n
<1>6. n \in 1 .. c.sent - c.read /\ c.read + n \in 1 .. Len(c.text) /\ c.text[c.read + n] = NL
  <2>1. n \in 1 .. c.sent - c.read /\ Arrived[n] = NL
    BY <1>4, <1>5, Zenon
  <2>2. \A r, s, t \in Nat : \A x \in 1 .. s - r : s <= t => r + x \in 1 .. t
    OBVIOUS
  <2>3. c.read + n \in 1 .. Len(c.text)
    BY <1>2, <2>1, <2>2, Zenon
  <2>4. c.text[c.read + n] = NL
    BY <1>3, <2>1, Zenon
  <2> QED
    BY <2>1, <2>3, <2>4, Zenon
<1>7. Lines!LineEnd(c.text) = c.read + n
  <2> DEFINE ends == {k \in DOMAIN c.text : c.text[k] = NL}
  <2>1. ends \in SUBSET Nat /\ c.read + n \in ends
    BY <1>2, <1>6
  <2>2. ASSUME NEW k \in ends
        PROVE  c.read + n <= k
    <3>1. k \in 1 .. Len(c.text) /\ c.text[k] = NL
      BY <1>2
    <3>2. k \notin 1 .. c.read
      BY <1>1, <3>1 DEF Orderly
    <3>3. CASE k <= c.sent
      <4>1. k - c.read \in 1 .. c.sent - c.read /\ c.read + (k - c.read) = k
        BY <1>2, <3>1, <3>2, <3>3
      <4>2. k - c.read \in Ends
        BY <1>3, <1>4, <3>1, <4>1
      <4>3. n <= k - c.read
        BY <1>5, <4>2
      <4> QED
        BY <1>2, <1>6, <3>1, <4>3
    <3>4. CASE k > c.sent
      BY <1>2, <1>6, <3>1, <3>4
    <3> QED
      BY <1>2, <3>1, <3>3, <3>4
  <2> HIDE DEF ends
  <2>3. Lines!Min(ends) = c.read + n
    <3>1. ASSUME NEW z \in ends, \A y \in ends : z <= y
          PROVE  z = c.read + n
      <4>1. z <= c.read + n /\ c.read + n <= z
        BY <2>1, <2>2, <3>1
      <4>2. z \in Nat /\ c.read + n \in Nat
        BY <2>1
      <4>3. \A x, y \in Nat : x <= y /\ y <= x => x = y
        OBVIOUS
      <4> QED
        BY <4>1, <4>2, <4>3, Zenon
    <3> QED
      BY <2>1, <2>2, <3>1 DEF Lines!Min
  <2>4. ends /= {}
    BY <2>1
  <2> QED
    BY <2>3, <2>4, Zenon DEF Lines!LineEnd, Lines!NL, NL, ends
<1>8. /\ tail \in Seq(Char) /\ Len(tail) = n - 1
      /\ \A k \in 1 .. n - 1 : tail[k] = Arrived[k]
  <2>1. n - 1 \in Nat /\ n - 1 <= Len(Arrived) /\ 0 \in Nat /\ 0 <= n - 1
    BY <1>3, <1>6
  <2>2. /\ SubSeq(Arrived, 0 + 1, n - 1) \in Seq(Char)
        /\ Len(SubSeq(Arrived, 0 + 1, n - 1)) = (n - 1) - 0
        /\ \A k \in 1 .. (n - 1) - 0 : SubSeq(Arrived, 0 + 1, n - 1)[k] = Arrived[0 + k]
    BY <1>3, <2>1, Cut
  <2>3. SubSeq(Arrived, 0 + 1, n - 1) = tail
    OBVIOUS
  <2> HIDE DEF tail
  <2> QED
    BY <1>6, <2>2, <2>3
<1> HIDE DEF tail
<1>9. /\ command \o tail \in Seq(Char)
      /\ Len(command \o tail) = Len(command) + (n - 1) /\ Len(command) \in Nat
      /\ \A i \in 1 .. Len(command) + (n - 1) :
           (command \o tail)[i] = IF i <= Len(command) THEN command[i] ELSE tail[i - Len(command)]
  <2>1. /\ command \o tail \in Seq(Char)
        /\ Len(command \o tail) = Len(command) + Len(tail)
        /\ \A i \in 1 .. Len(command) + Len(tail) :
             (command \o tail)[i] = IF i <= Len(command) THEN command[i] ELSE tail[i - Len(command)]
    BY <1>1, <1>8, ConcatProperties, Zenon
  <2>2. Len(command) \in Nat
    BY <1>1, LenProperties
  <2> QED
    BY <1>8, <2>1, <2>2
<1>10. ASSUME ~Stale
       PROVE  command \o tail = Lines!Line(c.text)
  <2> DEFINE line == SubSeq(c.text, 1, c.read + n - 1)
             typed == command \o tail
  <2>1. Len(command) = c.read
    <3>1. ReadOfActive = c.read
      BY <1>1 DEF ReadOfActive
    <3>2. c.read <= Len(command) /\ ~(Len(command) > c.read)
      BY <1>1, <1>10, <3>1 DEF EndsWithRead, Stale
    <3> QED
      BY <1>2, <1>9, <3>2
  <2>2. /\ line \in Seq(Char) /\ Len(line) = c.read + n - 1
        /\ \A k \in 1 .. c.read + n - 1 : line[k] = c.text[k]
    <3> DEFINE m == c.read + n - 1
    <3>1. m \in Nat /\ m <= Len(c.text) /\ 0 \in Nat /\ 0 <= m
      BY <1>2, <1>6
    <3> HIDE DEF m
    <3>2. /\ SubSeq(c.text, 0 + 1, m) \in Seq(Char)
          /\ Len(SubSeq(c.text, 0 + 1, m)) = m - 0
          /\ \A k \in 1 .. m - 0 : SubSeq(c.text, 0 + 1, m)[k] = c.text[0 + k]
      BY <1>2, <3>1, Cut
    <3>3. 0 + 1 = 1 /\ m - 0 = m /\ \A k \in 1 .. m : 0 + k = k
      BY <3>1
    <3>4. /\ SubSeq(c.text, 1, m) \in Seq(Char) /\ Len(SubSeq(c.text, 1, m)) = m
          /\ \A k \in 1 .. m : SubSeq(c.text, 1, m)[k] = c.text[k]
      BY <3>2, <3>3
    <3> QED
      BY <3>4 DEF m
  <2> HIDE DEF line, typed
  <2>3. typed \in Seq(Char) /\ Len(typed) = c.read + n - 1
    BY <1>2, <1>6, <1>9, <2>1 DEF typed
  <2>4. ASSUME NEW i \in 1 .. Len(typed)
        PROVE  typed[i] = line[i]
    <3>1. i \in 1 .. c.read + n - 1 /\ i \in 1 .. Len(command) + (n - 1)
      BY <1>2, <1>6, <2>1, <2>3
    <3>2. CASE i <= c.read
      <4>1. i \in 1 .. c.read /\ Len(command) - c.read + i = i
        BY <1>2, <2>1, <3>1, <3>2
      <4>2. typed[i] = command[i]
        BY <1>9, <2>1, <3>1, <3>2 DEF typed
      <4>3. c.text[i] = command[i]
        BY <1>1, <4>1 DEF EndsWithRead
      <4> QED
        BY <2>2, <3>1, <4>2, <4>3
    <3>3. CASE i > c.read
      <4>1. i - c.read \in 1 .. n - 1 /\ i - c.read \in 1 .. c.sent - c.read
            /\ c.read + (i - c.read) = i
        <5>1. n \in Int /\ i \in Int /\ n <= c.sent - c.read /\ c.read \in Int /\ c.sent \in Int
          BY <1>2, <1>6, <3>1
        <5>2. i <= c.read + n - 1
          BY <3>1
        <5> QED
          BY <3>3, <5>1, <5>2
      <4>2. typed[i] = tail[i - c.read]
        <5>1. ~(i <= Len(command))
          BY <1>2, <2>1, <3>1, <3>3
        <5> QED
          BY <1>9, <2>1, <3>1, <5>1, Zenon DEF typed
      <4>3. tail[i - c.read] = c.text[i]
        BY <1>3, <1>8, <4>1
      <4> QED
        BY <2>2, <3>1, <4>2, <4>3
    <3> QED
      BY <1>2, <3>1, <3>2, <3>3
  <2>5. typed = line
    BY <2>2, <2>3, <2>4, SeqEqual
  <2>6. Lines!Line(c.text) = line
    <3>1. Lines!Line(c.text) = SubSeq(c.text, 1, Lines!LineEnd(c.text) - 1)
      BY Zenon DEF Lines!Line
    <3>2. Lines!LineEnd(c.text) - 1 = c.read + n - 1
      <4>1. (c.read + n) - 1 = c.read + n - 1
        BY <1>2, <1>6
      <4> QED
        BY <1>7, <4>1, Zenon
    <3>3. Lines!Line(c.text) = SubSeq(c.text, 1, c.read + n - 1)
      BY <3>1, <3>2, Zenon
    <3> QED
      BY <3>3, Zenon DEF line
  <2> QED
    BY <2>5, <2>6 DEF typed
<1> QED
  BY <1>6, <1>7, <1>9, <1>10 DEF tail, n

\* Executing a line is executing the first one that waits on the socket.
LEMMA ReadLineLines ==
  ASSUME LineInv, ReadLine
  PROVE  /\ \A r \in Sockets : Orderly(conn'[r])
         /\ \E s \in Sockets : Lines!Executes(s)
<1> DEFINE c == conn[activeClient]
           n == Min(Ends)
           d == NextLine(c, n)
           line == command \o SubSeq(Arrived, 1, n - 1)
<1>1. /\ conn \in [Sockets -> Sound] /\ \A r \in Sockets : Orderly(conn[r])
      /\ activeClient \in Sockets /\ NoClient \notin Sockets /\ activeClient /= NoClient
  BY ServerAssumption DEF LineInv, OwnInv, NoClient, ReadLine, Reading
<1>2. /\ c \in Connections /\ c \in Sound
      /\ c.read \in Nat /\ c.sent \in Nat /\ c.text \in Seq(Char)
      /\ c.read <= c.sent /\ c.sent <= Len(c.text) /\ Len(c.text) \in Nat /\ Orderly(c)
  BY <1>1, SoundBounds, LenProperties
<1>3. /\ n \in 1 .. c.sent - c.read
      /\ c.read + n \in 1 .. Len(c.text)
      /\ Lines!LineEnd(c.text) = c.read + n
      /\ line \in Seq(Char)
      /\ ~Stale => line = Lines!Line(c.text)
  BY LineFound
<1>4. process_command(line) /\ command' = <<>> /\ ReadOn(d)
  BY Zenon DEF ReadLine, ExecuteLine
<1> HIDE DEF line, n
<1>5. /\ d.state = c.state /\ d.text = SubSeq(c.text, c.read + n + 1, Len(c.text))
      /\ d.sent = c.sent - (c.read + n) /\ d.read = 0
  BY <1>2 DEF NextLine, Connections
<1>6. d.text = Lines!Rest(c.text)
  BY <1>3, <1>5, Zenon DEF Lines!Rest
<1>7. Len(d.text) = Len(c.text) - (c.read + n)
  <2>1. c.read + n \in Nat /\ c.read + n <= Len(c.text)
    BY <1>2, <1>3
  <2> QED
    <3>1. Len(c.text) <= Len(c.text)
      BY <1>2
    <3>2. Len(SubSeq(c.text, c.read + n + 1, Len(c.text))) = Len(c.text) - (c.read + n)
      BY <1>2, <2>1, <3>1, Cut, Zenon
    <3> QED
      BY <1>5, <3>2, Zenon
<1>8. c.state /= "free"
  <2> SUFFICES ASSUME c.state = "free" PROVE FALSE
    OBVIOUS
  <2>1. c.sent = 0
    BY <1>2 DEF Orderly, NoConn
  <2> QED
    BY <1>2, <1>3, <2>1
<1> HIDE DEF d
<1>9. Orderly(d)
  <2>1. d.state = "left" => d.sent = Len(d.text)
    <3> SUFFICES ASSUME d.state = "left" PROVE d.sent = Len(d.text)
      OBVIOUS
    <3>1. c.sent = Len(c.text)
      BY <1>2, <1>5, Zenon DEF Orderly
    <3> QED
      BY <1>5, <1>7, <3>1, Zenon
  <2>2. \A k \in 1 .. d.read : d.text[k] /= NL
    BY <1>5
  <2>3. d.state /= "free"
    BY <1>5, <1>8
  <2> QED
    BY <2>1, <2>2, <2>3, Zenon DEF Orderly
<1>10. \/ /\ Closes(d) /\ conn' = [conn EXCEPT ![activeClient] = NoConn]
          /\ activeClient' = NoClient
       \/ /\ ~Closes(d) /\ conn' = [conn EXCEPT ![activeClient] = d]
          /\ activeClient' = activeClient
  BY <1>4, ReadOnCases
<1>11. \A r \in Sockets : Orderly(conn'[r])
  BY <1>1, <1>9, <1>10, NoConnOrderly
<1>12. ASSUME Closes(d)
       PROVE  d.text = <<>> /\ c.state = "left"
  <2>1. d.state = "left" /\ ~(d.sent > d.read)
    BY <1>5, <1>8, <1>12 DEF Closes, Unread, NoConn
  <2>2. ~(c.sent - (c.read + n) > 0)
    BY <1>5, <2>1, Zenon
  <2>3. Len(c.text) < c.read + n + 1 /\ c.read + n + 1 \in Int /\ Len(c.text) \in Int
    <3>1. c.sent = Len(c.text)
      BY <1>2, <1>5, <2>1, Zenon DEF Orderly
    <3>2. c.sent = c.read + n /\ c.read + n \in Int
      <4>1. \A r, s \in Nat : \A x \in 1 .. s - r :
              ~(s - (r + x) > 0) => s = r + x /\ r + x \in Int
        OBVIOUS
      <4> QED
        BY <1>2, <1>3, <2>2, <4>1, Zenon
    <3> QED
      BY <1>2, <3>1, <3>2
  <2> QED
    BY <1>5, <2>1, <2>3, SubSeqEmpty
<1>13. /\ [r \in Sockets |-> conn'[r].text]
            = [[r \in Sockets |-> conn[r].text] EXCEPT ![activeClient] = Lines!Rest(@)]
       /\ \/ [r \in Sockets |-> conn'[r].state] = [r \in Sockets |-> conn[r].state]
          \/ /\ c.state = "left" /\ Lines!Rest(c.text) = <<>>
             /\ [r \in Sockets |-> conn'[r].state]
                  = [[r \in Sockets |-> conn[r].state] EXCEPT ![activeClient] = "free"]
  <2>1. [r \in Sockets |-> conn[r].text][activeClient] = c.text
    BY <1>1
  <2>2. CASE Closes(d)
    <3>1. conn' = [conn EXCEPT ![activeClient] = NoConn]
      BY <1>10, <2>2
    <3>2. NoConn.state = "free" /\ NoConn.text = <<>>
      BY DEF NoConn
    <3>3. c.state = "left" /\ Lines!Rest(c.text) = <<>>
      BY <1>6, <1>12, <2>2
    <3>4. /\ [r \in Sockets |-> conn'[r].state]
              = [[r \in Sockets |-> conn[r].state] EXCEPT ![activeClient] = NoConn.state]
          /\ [r \in Sockets |-> conn'[r].text]
              = [[r \in Sockets |-> conn[r].text] EXCEPT ![activeClient] = NoConn.text]
      BY <1>1, <3>1, OneChanges
    <3> QED
      BY <2>1, <3>2, <3>3, <3>4
  <2>3. CASE ~Closes(d)
    <3>1. conn' = [conn EXCEPT ![activeClient] = d]
      BY <1>10, <2>3
    <3>2. /\ [r \in Sockets |-> conn'[r].state]
              = [[r \in Sockets |-> conn[r].state] EXCEPT ![activeClient] = d.state]
          /\ [r \in Sockets |-> conn'[r].text]
              = [[r \in Sockets |-> conn[r].text] EXCEPT ![activeClient] = d.text]
      BY <1>1, <3>1, OneChanges
    <3> QED
      BY <1>5, <1>6, <2>1, <3>2
  <2> QED
    BY <2>2, <2>3
<1>14. Stale' = FALSE
  <2>1. ReadOfActive' = 0
    <3>1. CASE activeClient' = NoClient
      BY <3>1, Zenon DEF ReadOfActive
    <3>2. CASE activeClient' = activeClient /\ conn' = [conn EXCEPT ![activeClient] = d]
      BY <1>1, <1>5, <3>2 DEF ReadOfActive
    <3> QED
      BY <1>10, <3>1, <3>2
  <2>2. Len(command') = 0
    BY <1>4
  <2>3. ~(Len(command') > ReadOfActive')
    BY <2>1, <2>2
  <2> QED
    BY <2>3 DEF Stale
<1>15. delayTime' \in IF Stale THEN 1 .. LONG_MAX ELSE Lines!Meant(Lines!Line(c.text), delayTime)
  <2>1. delayTime \in 1 .. LONG_MAX
    BY DEF LineInv
  <2>2. CASE Stale
    BY <1>3, <1>4, <2>1, <2>2, CommandDelay
  <2>3. CASE ~Stale
    <3>1. delayTime' \in Lines!Meant(line, delayTime)
      BY <1>3, <1>4, <2>1, CommandMeant
    <3> QED
      BY <1>3, <2>3, <3>1
  <2> QED
    BY <2>2, <2>3
<1>16. /\ [r \in Sockets |-> conn[r].text][activeClient] = c.text
       /\ [r \in Sockets |-> conn[r].state][activeClient] = c.state
  BY <1>1
<1>17. Lines!LineEnd(c.text) > 0
  BY <1>2, <1>3
<1> HIDE DEF c
<1>18. ASSUME NEW s \in Sockets, s = activeClient
       PROVE  Lines!Executes(s)
  BY <1>13, <1>14, <1>15, <1>16, <1>17, <1>18, Zenon DEF Lines!Executes, Lines!LegalDelays
<1> QED
  BY <1>1, <1>11, <1>18

-----------------------------------------------------------------------------
(* The refinement *)

LEMMA ResetLines ==
  ASSUME Reset
  PROVE  (\A r \in Sockets : Orderly(conn'[r])) /\ Lines!Restart
<1>1. /\ conn' = [s \in Sockets |-> NoConn] /\ activeClient' = NoClient /\ command' = <<>>
      /\ delayTime' = DEFAULT_DELAY
  BY DEF Reset
<1>2. NoConn.state = "free" /\ NoConn.text = <<>>
  BY DEF NoConn
<1>3. Stale' = FALSE
  <2>1. ReadOfActive' = 0
    BY <1>1, Zenon DEF ReadOfActive
  <2>2. ~(Len(command') > ReadOfActive')
    BY <1>1, <2>1
  <2> QED
    BY <2>2 DEF Stale
<1>4. /\ [s \in Sockets |-> conn'[s].state] = [s \in Sockets |-> "free"]
      /\ [s \in Sockets |-> conn'[s].text] = [s \in Sockets |-> <<>>]
  BY <1>1, <1>2
<1>5. Lines!Restart
  BY <1>1, <1>3, <1>4, Zenon DEF Lines!Restart
<1> QED
  BY <1>1, <1>5, NoConnOrderly

\* Every step is one of LineServer, or one that it does not see.
LEMMA StepIsLines ==
  LineInv /\ [Next]_vars => [Lines!Next]_(Lines!vars) /\ \A r \in Sockets : Orderly(conn'[r])
<1> SUFFICES ASSUME LineInv, [Next]_vars
             PROVE  [Lines!Next]_(Lines!vars) /\ \A r \in Sockets : Orderly(conn'[r])
  OBVIOUS
<1>1. ASSUME NEW s \in Sockets, Client(s)
      PROVE  [Lines!Next]_(Lines!vars) /\ \A r \in Sockets : Orderly(conn'[r])
  BY <1>1, ClientLines
<1>2. CASE SelectClient
  BY <1>2, SelectLines DEF Lines!Next
<1>3. CASE ReadPart
  BY <1>3, ReadPartLines DEF Lines!Next
<1>4. CASE ReadLine
  BY <1>4, ReadLineLines DEF Lines!Next
<1>5. CASE Overrun \/ NothingActive \/ UNCHANGED vars
  <2>1. UNCHANGED <<conn, activeClient, command, delayTime>>
    BY <1>5 DEF Overrun, NothingActive, vars
  <2>2. UNCHANGED Lines!vars
    BY <2>1, Zenon DEF Lines!vars, Stale, ReadOfActive
  <2> QED
    BY <2>1, <2>2 DEF LineInv
<1>6. CASE Reset
  BY <1>6, ResetLines DEF Lines!Next
<1> QED
  BY <1>1, <1>2, <1>3, <1>4, <1>5, <1>6 DEF Next, process_server

LEMMA SpecLineInv == Spec => []LineInv
<1>1. Init => ServerInv /\ LineInv
  <2> SUFFICES ASSUME Init PROVE ServerInv /\ LineInv
    OBVIOUS
  <2>1. ServerInv
    BY InitServerInv
  <2>2. \A s \in Sockets : Orderly(conn[s])
    BY NoConnOrderly DEF Init
  <2> QED
    BY <2>1, <2>2 DEF ServerInv, LineInv, TypeOK
<1>2. ServerInv /\ LineInv /\ [Next]_vars => (ServerInv /\ LineInv)'
  <2> SUFFICES ASSUME ServerInv, LineInv, [Next]_vars PROVE ServerInv' /\ LineInv'
    OBVIOUS
  <2>1. ServerInv'
    BY NextServerInv
  <2>2. \A r \in Sockets : Orderly(conn'[r])
    BY StepIsLines
  <2> QED
    BY <2>1, <2>2 DEF ServerInv, LineInv, TypeOK
<1> QED
  BY <1>1, <1>2, PTL DEF Spec

\* To its clients the server executes their lines one by one, each once, in order
\* and as it was typed, with the delay that its digits say; only the first line
\* after a client was cut off in the middle of one may be taken for another.
THEOREM Refinement == Spec => ImplementsLineServer
<1>1. Init => Lines!Boot
  <2> SUFFICES ASSUME Init PROVE Lines!Boot
    OBVIOUS
  <2>1. conn = [s \in Sockets |-> NoConn] /\ activeClient = NoClient /\ command = <<>>
        /\ delayTime = DEFAULT_DELAY
    BY DEF Init
  <2>2. NoConn.state = "free" /\ NoConn.text = <<>>
    BY DEF NoConn
  <2>3. Stale = FALSE
    <3>1. ReadOfActive = 0
      BY <2>1, Zenon DEF ReadOfActive
    <3>2. ~(Len(command) > ReadOfActive)
      BY <2>1, <3>1
    <3> QED
      BY <3>2 DEF Stale
  <2>4. /\ [s \in Sockets |-> conn[s].state] = [s \in Sockets |-> "free"]
        /\ [s \in Sockets |-> conn[s].text] = [s \in Sockets |-> <<>>]
    BY <2>1, <2>2
  <2> QED
    BY <2>1, <2>3, <2>4, Zenon DEF Lines!Boot
<1> QED
  BY <1>1, StepIsLines, SpecLineInv, PTL DEF Spec, ImplementsLineServer, Lines!Spec
=============================================================================
