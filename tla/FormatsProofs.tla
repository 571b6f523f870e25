---------------------------- MODULE FormatsProofs ----------------------------
(***************************************************************************)
(* Proofs about Formats: for bytes, arrays, lines and datagrams of any     *)
(* size, a line becomes the header it says, a datagram is shown as it was  *)
(* published, and nothing is written beyond an array without a reason.     *)
(***************************************************************************)
EXTENDS Formats, SequenceTheorems, WellFoundedInduction, TLAPS

-----------------------------------------------------------------------------
\* Induction, by the smallest counterexample.

\* A non-empty set of naturals has a smallest element.
LEMMA Smallest ==
  ASSUME NEW I, I \subseteq Nat, I # {}
  PROVE  \E i \in I : \A j \in I : i <= j
  <1> DEFINE R == OpToRel(<, Nat)
  <1>1. IsWellFoundedOn(R, Nat)
    BY NatLessThanWellFounded
  <1>2. \A x, y \in Nat : x < y => <<x, y>> \in R
    BY DEF OpToRel
  <1> HIDE DEF R
  <1>3. PICK i \in I : \A j \in I : <<j, i>> \notin R
    BY <1>1, WFMin
  <1>4. ASSUME NEW j \in I PROVE i <= j
    <2>1. ~(j < i)
      BY <1>2, <1>3
    <2> QED BY <2>1
  <1> QED BY <1>4

\* A set of naturals that has 0, and n + 1 with every n, has them all.
LEMMA Naturals ==
  ASSUME NEW I, 0 \in I, \A n \in Nat : n \in I => n + 1 \in I
  PROVE  \A n \in Nat : n \in I
  <1> DEFINE J == {n \in Nat : n \notin I}
  <1>1. CASE J = {}
    BY <1>1
  <1>2. CASE J # {}
    <2>1. PICK i \in J : \A j \in J : i <= j
      BY <1>2, Smallest
    <2>2. i \in Nat /\ i # 0 /\ i - 1 \in Nat /\ i - 1 \notin J
      BY <2>1
    <2>3. i - 1 \in I /\ (i - 1) + 1 = i
      BY <2>2
    <2> QED BY <2>1, <2>2, <2>3
  <1> QED BY <1>1, <1>2

-----------------------------------------------------------------------------
\* The first place at which something is found.

\* k is the first of the places I, or 0 if there is none.
IsFirst(k, I) == IF I = {} THEN k = 0 ELSE k \in I /\ \A j \in I : k <= j

\* What SelectInSeq chooses.
LEMMA FirstChosen ==
  ASSUME NEW I, I \subseteq Nat
  PROVE  /\ IsFirst(IF I # {} THEN S!Min(I) ELSE 0, I)
         /\ IsFirst(IF I # {} THEN T!Min(I) ELSE 0, I)
  <1>1. CASE I = {}
    BY <1>1 DEF IsFirst
  <1>2. CASE I # {}
    <2>1. \E i \in I : \A j \in I : i <= j
      BY <1>2, Smallest
    <2>2. S!Min(I) \in I /\ \A j \in I : S!Min(I) <= j
      BY <2>1 DEF S!Min
    <2>3. T!Min(I) \in I /\ \A j \in I : T!Min(I) <= j
      BY <2>1 DEF T!Min
    <2> QED BY <1>2, <2>2, <2>3 DEF IsFirst
  <1> QED BY <1>1, <1>2

\* The first space.
LEMMA FirstSpace ==
  ASSUME NEW s
  PROVE  IsFirst(T!SelectInSeq(s, IsSpace), {i \in 1..Len(s) : IsSpace(s[i])})
  <1> DEFINE I == {i \in 1..Len(s) : IsSpace(s[i])}
  <1>1. T!SelectInSeq(s, IsSpace) = IF I # {} THEN T!Min(I) ELSE 0
    BY DEF T!SelectInSeq
  <1>2. I \subseteq Nat
    OBVIOUS
  <1> QED BY <1>1, <1>2, FirstChosen

\* The first character that is not a space.
LEMMA FirstMark ==
  ASSUME NEW s
  PROVE  IsFirst(T!SelectInSeq(s, LAMBDA c : ~IsSpace(c)), {i \in 1..Len(s) : ~IsSpace(s[i])})
  <1> DEFINE I == {i \in 1..Len(s) : ~IsSpace(s[i])}
  <1>1. T!SelectInSeq(s, LAMBDA c : ~IsSpace(c)) = IF I # {} THEN T!Min(I) ELSE 0
    BY DEF T!SelectInSeq
  <1>2. I \subseteq Nat
    OBVIOUS
  <1> QED BY <1>1, <1>2, FirstChosen

\* The first character that is not a digit.
LEMMA FirstOther ==
  ASSUME NEW s
  PROVE  IsFirst(T!SelectInSeq(s, LAMBDA c : ~IsDigit(c)), {i \in 1..Len(s) : ~IsDigit(s[i])})
  <1> DEFINE I == {i \in 1..Len(s) : ~IsDigit(s[i])}
  <1>1. T!SelectInSeq(s, LAMBDA c : ~IsDigit(c)) = IF I # {} THEN T!Min(I) ELSE 0
    BY DEF T!SelectInSeq
  <1>2. I \subseteq Nat
    OBVIOUS
  <1> QED BY <1>1, <1>2, FirstChosen

\* The first NUL.
LEMMA FirstNul ==
  ASSUME NEW s
  PROVE  IsFirst(S!SelectInSeq(s, LAMBDA byte : byte = 0), {i \in 1..Len(s) : s[i] = 0})
  <1> DEFINE I == {i \in 1..Len(s) : s[i] = 0}
  <1>1. S!SelectInSeq(s, LAMBDA byte : byte = 0) = IF I # {} THEN S!Min(I) ELSE 0
    BY DEF S!SelectInSeq
  <1>2. I \subseteq Nat
    OBVIOUS
  <1> QED BY <1>1, <1>2, FirstChosen

\* A digit is one of the ten, and its place tells its value.
LEMMA DigitType ==
  ASSUME NEW c, IsDigit(c)
  PROVE  Digit(c) \in Nat
  <1> DEFINE I == {i \in 1..Len(Digits) : Digits[i] = c}
  <1>1. PICK k : k = T!SelectInSeq(Digits, LAMBDA d : d = c)
    OBVIOUS
  <1>2. k = IF I # {} THEN T!Min(I) ELSE 0
    BY <1>1 DEF T!SelectInSeq
  <1>3. I \subseteq Nat
    OBVIOUS
  <1>4. I # {}
    BY DEF IsDigit, T!Contains
  <1>5. IsFirst(k, I)
    BY <1>2, <1>3, FirstChosen
  <1>6. k \in Nat /\ k > 0
    <2> HIDE DEF I
    <2>1. k \in I
      BY <1>4, <1>5 DEF IsFirst
    <2> QED BY <2>1 DEF I
  <1> QED BY <1>1, <1>6 DEF Digit

-----------------------------------------------------------------------------
\* Sequences, cut and put together.

\* Of a concatenation, what is in front and what is behind.
LEMMA Halves ==
  ASSUME NEW X, NEW a \in Seq(X), NEW b \in Seq(X)
  PROVE  /\ a \o b \in Seq(X) /\ Len(a \o b) = Len(a) + Len(b)
         /\ SubSeq(a \o b, 1, Len(a)) = a
         /\ SubSeq(a \o b, Len(a) + 1, Len(a \o b)) = b
         /\ \A i \in 1..Len(a) : (a \o b)[i] = a[i]
         /\ b # << >> => (a \o b)[Len(a) + 1] = b[1]
  <1>1. /\ a \o b \in Seq(X) /\ Len(a \o b) = Len(a) + Len(b)
        /\ \A i \in 1..(Len(a) + Len(b)) : (a \o b)[i] = IF i <= Len(a) THEN a[i] ELSE b[i - Len(a)]
    BY ConcatProperties
  <1> DEFINE c == a \o b
  <1>2. PICK m \in Nat, n \in Nat : m = Len(a) /\ n = Len(b)
    OBVIOUS
  <1>3. c \in Seq(X) /\ Len(c) = m + n
    BY <1>1, <1>2
  <1>4. \A i \in 1..(m + n) : c[i] = IF i <= m THEN a[i] ELSE b[i - m]
    BY <1>1, <1>2
  <1> HIDE DEF c
  <1>5. SubSeq(c, 1, m) = a
    <2>1. SubSeq(c, 1, m) \in Seq(X) /\ Len(SubSeq(c, 1, m)) = m
      BY <1>3
    <2>2. \A i \in 1..m : SubSeq(c, 1, m)[i] = a[i]
      BY <1>3, <1>4
    <2> QED BY <1>2, <2>1, <2>2, SeqEqual
  <1>6. SubSeq(c, m + 1, m + n) = b
    <2>1. SubSeq(c, m + 1, m + n) \in Seq(X) /\ Len(SubSeq(c, m + 1, m + n)) = n
      BY <1>3
    <2>2. \A i \in 1..n : SubSeq(c, m + 1, m + n)[i] = b[i]
      <3> TAKE i \in 1..n
      <3>1. SubSeq(c, m + 1, m + n)[i] = c[m + i]
        BY <1>3
      <3>2. c[m + i] = b[i]
        BY <1>4
      <3> QED BY <3>1, <3>2
    <2> QED BY <1>2, <2>1, <2>2, SeqEqual
  <1>7. \A i \in 1..m : c[i] = a[i]
    BY <1>4
  <1>8. b # << >> => c[m + 1] = b[1]
    <2>1. b # << >> => n > 0
      BY <1>2
    <2> QED BY <1>4, <2>1
  <1> QED BY <1>2, <1>3, <1>5, <1>6, <1>7, <1>8 DEF c

\* A sequence is what is in front of a place and what is behind it.
LEMMA CutAnywhere ==
  ASSUME NEW X, NEW s \in Seq(X), NEW j \in 0..Len(s)
  PROVE  s = SubSeq(s, 1, j) \o SubSeq(s, j + 1, Len(s))
  <1>1. PICK m \in Nat, n \in Nat : m = Len(s) /\ n = m - j
    OBVIOUS
  <1> DEFINE a == SubSeq(s, 1, j)
             b == SubSeq(s, j + 1, m)
  <1>2. a \in Seq(X) /\ Len(a) = j /\ \A i \in 1..j : a[i] = s[i]
    BY <1>1
  <1>3. b \in Seq(X) /\ Len(b) = n /\ \A i \in 1..n : b[i] = s[j + i]
    BY <1>1
  <1> HIDE DEF a, b
  <1>4. /\ a \o b \in Seq(X) /\ Len(a \o b) = j + n
        /\ \A i \in 1..(j + n) : (a \o b)[i] = IF i <= j THEN a[i] ELSE b[i - j]
    <2>1. a \in Seq(X) /\ b \in Seq(X)
      BY <1>2, <1>3
    <2>2. /\ a \o b \in Seq(X) /\ Len(a \o b) = Len(a) + Len(b)
          /\ \A i \in 1..(Len(a) + Len(b)) :
               (a \o b)[i] = IF i <= Len(a) THEN a[i] ELSE b[i - Len(a)]
      BY <2>1, ConcatProperties
    <2> QED BY <1>2, <1>3, <2>2
  <1>5. PICK c : c = a \o b
    OBVIOUS
  <1>6. /\ c \in Seq(X) /\ Len(c) = m
        /\ \A i \in 1..m : c[i] = IF i <= j THEN a[i] ELSE b[i - j]
    <2>1. j + n = m
      BY <1>1
    <2> QED BY <1>4, <1>5, <2>1
  <1>7. \A i \in 1..m : s[i] = c[i]
    <2> TAKE i \in 1..m
    <2>1. CASE i <= j
      <3>1. c[i] = a[i]
        BY <1>6, <2>1
      <3>2. i \in 1..j
        BY <1>1, <2>1
      <3> QED BY <1>2, <3>1, <3>2
    <2>2. CASE i > j
      <3>1. i - j \in 1..n /\ j + (i - j) = i
        BY <1>1, <2>2
      <3>2. c[i] = b[i - j]
        BY <1>6, <2>2
      <3>3. b[i - j] = s[j + (i - j)]
        BY <1>3, <3>1
      <3> QED BY <3>1, <3>2, <3>3
    <2> QED BY <1>1, <2>1, <2>2
  <1>8. s = c
    <2>1. Len(s) = Len(c) /\ \A i \in 1..Len(s) : s[i] = c[i]
      BY <1>1, <1>6, <1>7
    <2> QED BY <1>6, <2>1, SeqEqual
  <1> QED BY <1>1, <1>5, <1>8 DEF a, b

\* A concatenation that may be grouped either way.
Associates(a, b, c) == a \o (b \o c) = (a \o b) \o c

\* Texts put together are a text.
LEMMA TextConcat == \A a, b \in Seq(Char) : a \o b \in Seq(Char)
  BY ConcatProperties

\* All of them may.
LEMMA TextRegroup == \A a, b, c \in Seq(Char) : Associates(a, b, c)
  <1> SUFFICES ASSUME NEW a \in Seq(Char), NEW b \in Seq(Char), NEW c \in Seq(Char)
               PROVE  (a \o b) \o c = a \o (b \o c)
    BY DEF Associates
  <1> QED BY ONLY ConcatAssociative, a \in Seq(Char), b \in Seq(Char), c \in Seq(Char)

\* Halves, for citing.
Halved(a, b) ==
  /\ a \o b \in Seq(Char) /\ Len(a \o b) = Len(a) + Len(b)
  /\ SubSeq(a \o b, 1, Len(a)) = a
  /\ SubSeq(a \o b, Len(a) + 1, Len(a \o b)) = b
  /\ \A i \in 1..Len(a) : (a \o b)[i] = a[i]
  /\ b # << >> => (a \o b)[Len(a) + 1] = b[1]

\* A text is found again in the one it was put into.
LEMMA TextHalves == \A a, b \in Seq(Char) : Halved(a, b)
  BY Halves DEF Halved

-----------------------------------------------------------------------------
\* Scanning.

\* Nothing but spaces, no space, what may follow a word, what may follow
\* spaces.
Blank(s) == s \in Seq(Char) /\ \A i \in 1..Len(s) : IsSpace(s[i])
Solid(s) == s \in Seq(Char) /\ \A i \in 1..Len(s) : ~IsSpace(s[i])
Ends(s) == s \in Seq(Char) /\ (s # << >> => IsSpace(s[1]))
Starts(s) == s \in Seq(Char) /\ (s # << >> => ~IsSpace(s[1]))

\* sscanf() skips all spaces there are.
LEMMA SkipBlank ==
  ASSUME NEW a, Blank(a), NEW b, Starts(b)
  PROVE  SkipSpaces(a \o b) = b
  <1> DEFINE c == a \o b
             I == {i \in 1..Len(c) : ~IsSpace(c[i])}
  <1>1. a \in Seq(Char) /\ b \in Seq(Char)
    BY DEF Blank, Starts
  <1>2. /\ c \in Seq(Char) /\ Len(c) = Len(a) + Len(b)
        /\ SubSeq(c, Len(a) + 1, Len(c)) = b
        /\ \A i \in 1..Len(a) : c[i] = a[i]
        /\ b # << >> => c[Len(a) + 1] = b[1]
    BY <1>1, Halves
  <1>3. PICK k : k = T!SelectInSeq(c, LAMBDA x : ~IsSpace(x))
    OBVIOUS
  <1>4. IsFirst(k, I)
    BY <1>3, FirstMark
  <1>5. SkipSpaces(c) = IF k = 0 THEN << >> ELSE SubSeq(c, k, Len(c))
    BY <1>3 DEF SkipSpaces
  <1>6. \A i \in 1..Len(a) : i \notin I
    BY <1>2 DEF Blank
  <1> HIDE DEF c
  <1>7. CASE b = << >>
    <2>1. Len(b) = 0
      BY <1>7
    <2>2. I = {}
      BY <1>1, <1>2, <1>6, <2>1
    <2> QED BY <1>4, <1>5, <1>7, <2>2 DEF IsFirst, c
  <1>8. CASE b # << >>
    <2>1. Len(b) > 0 /\ Len(a) \in Nat /\ Len(b) \in Nat
      BY <1>1, <1>8
    <2>2. Len(a) + 1 \in I
      BY <1>2, <1>8, <2>1 DEF Starts
    <2>3. k \in I /\ k <= Len(a) + 1
      BY <1>4, <2>2 DEF IsFirst
    <2>4. k = Len(a) + 1
      <3>1. k \in Nat /\ k > 0 /\ k \notin 1..Len(a)
        BY <1>6, <2>3
      <3> QED BY <2>1, <2>3, <3>1
    <2>5. k # 0
      BY <2>1, <2>4
    <2> QED BY <1>2, <1>5, <2>4, <2>5 DEF c
  <1> QED BY <1>7, <1>8

\* A word ends at the first space.
LEMMA CutWord ==
  ASSUME NEW w, Solid(w), NEW b, Ends(b)
  PROVE  UpTo(w \o b, T!SelectInSeq(w \o b, IsSpace)) = w
  <1> DEFINE c == w \o b
             I == {i \in 1..Len(c) : IsSpace(c[i])}
  <1>1. w \in Seq(Char) /\ b \in Seq(Char)
    BY DEF Solid, Ends
  <1>2. /\ c \in Seq(Char) /\ Len(c) = Len(w) + Len(b)
        /\ SubSeq(c, 1, Len(w)) = w
        /\ \A i \in 1..Len(w) : c[i] = w[i]
        /\ b # << >> => c[Len(w) + 1] = b[1]
    BY <1>1, Halves
  <1>3. PICK k : k = T!SelectInSeq(c, IsSpace)
    OBVIOUS
  <1>4. IsFirst(k, I)
    BY <1>3, FirstSpace
  <1>5. UpTo(c, k) = IF k = 0 THEN c ELSE SubSeq(c, 1, k - 1)
    BY DEF UpTo
  <1>6. \A i \in 1..Len(w) : i \notin I
    BY <1>2 DEF Solid
  <1>7. CASE b = << >>
    <2>1. Len(b) = 0 /\ c = w
      BY <1>1, <1>7, ConcatEmptySeq
    <2>2. I = {}
      BY <1>1, <1>2, <1>6, <2>1
    <2> QED BY <1>3, <1>4, <1>5, <2>1, <2>2 DEF IsFirst
  <1>8. CASE b # << >>
    <2>1. Len(b) > 0 /\ Len(w) \in Nat /\ Len(b) \in Nat
      BY <1>1, <1>8
    <2> HIDE DEF c
    <2>2. Len(w) + 1 \in I
      BY <1>2, <1>8, <2>1 DEF Ends
    <2>3. k \in I /\ k <= Len(w) + 1
      BY <1>4, <2>2 DEF IsFirst
    <2>4. k = Len(w) + 1
      <3>1. k \in Nat /\ k > 0 /\ k \notin 1..Len(w)
        BY <1>6, <2>3
      <3> QED BY <2>1, <2>3, <3>1
    <2>5. k # 0 /\ k - 1 = Len(w)
      BY <2>1, <2>4
    <2>6. UpTo(c, k) = w
      BY <1>2, <1>5, <2>5
    <2> QED BY <1>3, <2>6 DEF c
  <1> QED BY <1>7, <1>8

\* A word that is scanned: the spaces in front are skipped, what is behind it
\* is left.
LEMMA WordIs ==
  ASSUME NEW a, Blank(a), NEW w, Solid(w), w # << >>, NEW b, Ends(b)
  PROVE  ScannedWord(a \o (w \o b)) = w
  <1> DEFINE c == w \o b
  <1>1. w \in Seq(Char) /\ b \in Seq(Char) /\ Len(w) # 0
    BY DEF Solid, Ends
  <1>2. c \in Seq(Char) /\ \A i \in 1..Len(w) : c[i] = w[i]
    BY <1>1, Halves
  <1>3. c[1] = w[1] /\ 1 \in 1..Len(w)
    BY <1>1, <1>2
  <1>4. Starts(c)
    BY <1>2, <1>3 DEF Starts, Solid
  <1> HIDE DEF c
  <1>5. SkipSpaces(a \o c) = c
    BY <1>4, SkipBlank
  <1>6. UpTo(c, T!SelectInSeq(c, IsSpace)) = w
    BY CutWord DEF c
  <1>7. ScannedWord(a \o c) = w
    BY <1>5, <1>6 DEF ScannedWord
  <1> QED BY <1>7 DEF c

\* Any text is spaces with something else behind them.
LEMMA Parts ==
  ASSUME NEW s \in Seq(Char)
  PROVE  \E a, b : Blank(a) /\ Starts(b) /\ s = a \o b
  <1> DEFINE I == {i \in 1..Len(s) : ~IsSpace(s[i])}
  <1>1. PICK k : k = T!SelectInSeq(s, LAMBDA x : ~IsSpace(x))
    OBVIOUS
  <1>2. IsFirst(k, I)
    BY <1>1, FirstMark
  <1>3. CASE I = {}
    <2>1. Blank(s)
      BY <1>3 DEF Blank
    <2>2. Starts(<< >>) /\ s = s \o << >>
      BY ConcatEmptySeq DEF Starts
    <2> QED BY <2>1, <2>2
  <1>4. CASE I # {}
    <2>1. k \in 1..Len(s) /\ ~IsSpace(s[k]) /\ \A j \in I : k <= j
      BY <1>2, <1>4 DEF IsFirst
    <2> DEFINE a == SubSeq(s, 1, k - 1)
               b == SubSeq(s, k, Len(s))
    <2>2. PICK n \in Nat : n = Len(s)
      OBVIOUS
    <2>3. \A i \in 1..(k - 1) : IsSpace(s[i])
      <3> TAKE i \in 1..(k - 1)
      <3>1. i \in 1..n /\ ~(k <= i)
        BY <2>1, <2>2
      <3> QED BY <2>1, <2>2, <3>1
    <2>4. a \in Seq(Char) /\ Len(a) = k - 1 /\ \A i \in 1..(k - 1) : a[i] = s[i]
      BY <2>1
    <2>5. b \in Seq(Char) /\ b[1] = s[k]
      BY <2>1
    <2>6. Blank(a)
      BY <2>3, <2>4 DEF Blank
    <2>7. Starts(b)
      BY <2>1, <2>5 DEF Starts
    <2>8. s = a \o b
      <3>1. k - 1 \in 0..Len(s) /\ (k - 1) + 1 = k
        BY <2>1
      <3>2. s = SubSeq(s, 1, k - 1) \o SubSeq(s, (k - 1) + 1, Len(s))
        BY <3>1, CutAnywhere
      <3> QED BY <3>1, <3>2
    <2> QED BY <2>6, <2>7, <2>8
  <1> QED BY <1>3, <1>4

\* Spaces in front of a text do not matter to a scan.
LEMMA WordBehind ==
  ASSUME NEW a, Blank(a), NEW s \in Seq(Char)
  PROVE  ScannedWord(a \o s) = ScannedWord(s)
  <1>1. PICK b, c : Blank(b) /\ Starts(c) /\ s = b \o c
    BY Parts
  <1>2. a \in Seq(Char) /\ b \in Seq(Char) /\ c \in Seq(Char)
    BY <1>1 DEF Blank, Starts
  <1> DEFINE ab == a \o b
  <1>3. a \o (b \o c) = ab \o c
    <2>1. Associates(a, b, c)
      BY <1>2, TextRegroup
    <2> QED BY <2>1 DEF Associates
  <1>4. Blank(ab)
    <2>1. ab \in Seq(Char) /\ Len(ab) = Len(a) + Len(b)
      BY <1>2, ConcatProperties
    <2>2. ASSUME NEW i \in 1..(Len(a) + Len(b)) PROVE IsSpace(ab[i])
      <3>1. ab[i] = IF i <= Len(a) THEN a[i] ELSE b[i - Len(a)]
        BY <1>2, ConcatProperties
      <3> HIDE DEF ab
      <3>2. PICK m \in Nat, n \in Nat : m = Len(a) /\ n = Len(b)
        BY <1>2
      <3>3. CASE i <= m
        <4>1. i \in 1..Len(a)
          BY <3>2, <3>3
        <4> QED BY <3>1, <3>2, <3>3, <4>1 DEF Blank
      <3>4. CASE i > m
        <4>1. i - m \in 1..Len(b) /\ ~(i <= m)
          BY <3>2, <3>4
        <4> QED BY <1>1, <3>1, <3>2, <4>1 DEF Blank
      <3> QED BY <3>2, <3>3, <3>4
    <2> HIDE DEF ab
    <2> QED BY <2>1, <2>2 DEF Blank
  <1>5. SkipSpaces(ab \o c) = c
    BY <1>1, <1>4, SkipBlank
  <1>6. SkipSpaces(b \o c) = c
    BY <1>1, SkipBlank
  <1>7. SkipSpaces(a \o s) = SkipSpaces(s)
    BY <1>1, <1>3, <1>5, <1>6
  <1> QED BY <1>7 DEF ScannedWord

\* What is scanned is text, as long as what it is scanned from at most.
LEMMA WordType ==
  ASSUME NEW s \in Seq(Char)
  PROVE  ScannedWord(s) \in Seq(Char)
  <1> DEFINE w == SkipSpaces(s)
  <1>1. w \in Seq(Char)
    <2>1. PICK a, b : Blank(a) /\ Starts(b) /\ s = a \o b
      BY Parts
    <2>2. w = b
      BY <2>1, SkipBlank
    <2> QED BY <2>1, <2>2 DEF Starts
  <1> HIDE DEF w
  <1>2. PICK k : k = T!SelectInSeq(w, IsSpace)
    OBVIOUS
  <1>3. IsFirst(k, {i \in 1..Len(w) : IsSpace(w[i])})
    BY <1>2, FirstSpace
  <1>4. k = 0 \/ k \in 1..Len(w)
    BY <1>3 DEF IsFirst
  <1>5. UpTo(w, k) \in Seq(Char)
    <2>1. CASE k = 0
      BY <1>1, <2>1 DEF UpTo
    <2>2. CASE k \in 1..Len(w)
      <3>1. SubSeq(w, 1, k - 1) \in Seq(Char)
        BY <1>1, <2>2
      <3>2. k # 0
        BY <1>1, <2>2
      <3>3. UpTo(w, k) = SubSeq(w, 1, k - 1)
        BY <3>2 DEF UpTo
      <3> QED BY <3>1, <3>3
    <2> QED BY <1>4, <2>1, <2>2
  <1> QED BY <1>2, <1>5 DEF ScannedWord, w

\* No word in spaces.
LEMMA NoWord ==
  ASSUME NEW a, Blank(a)
  PROVE  ScannedWord(a) = << >>
  <1>1. a \in Seq(Char) /\ a = a \o << >>
    BY ConcatEmptySeq DEF Blank
  <1>2. Starts(<< >>)
    BY DEF Starts
  <1>3. SkipSpaces(a) = << >>
    BY <1>1, <1>2, SkipBlank
  <1>4. Solid(<< >>) /\ Ends(<< >>) /\ << >> \o << >> = << >>
    BY ConcatEmptySeq DEF Solid, Ends
  <1>5. UpTo(<< >>, T!SelectInSeq(<< >>, IsSpace)) = << >>
    BY <1>4, CutWord
  <1> QED BY <1>3, <1>5 DEF ScannedWord

-----------------------------------------------------------------------------
\* Functions that are defined by recursion over 0..n.

\* Each value follows from the one before it by g, the first one is x.
Follows(f, n, x, g) ==
  /\ DOMAIN f = 0..n
  /\ f[0] = x
  /\ \A i \in 1..n : f[i] = g[<<i, f[i - 1]>>]

\* There is such a function.
LEMMA Solvable ==
  ASSUME NEW X, NEW x \in X, NEW N \in Nat, NEW g \in [(1..N) \X X -> X]
  PROVE  \E f \in [0..N -> X] : Follows(f, N, x, g)
  <1> DEFINE J == {n \in Nat : n <= N => \E f \in [0..n -> X] : Follows(f, n, x, g)}
  <1>1. 0 \in J
    <2> DEFINE f == [i \in 0..0 |-> x]
    <2>1. f \in [0..0 -> X] /\ Follows(f, 0, x, g)
      BY DEF Follows
    <2> HIDE DEF f
    <2> QED BY <2>1
  <1>2. ASSUME NEW n \in Nat, n \in J PROVE n + 1 \in J
    <2> SUFFICES ASSUME n + 1 <= N
                 PROVE  \E f \in [0..(n + 1) -> X] : Follows(f, n + 1, x, g)
      OBVIOUS
    <2>1. PICK f \in [0..n -> X] : Follows(f, n, x, g)
      BY <1>2
    <2>2. PICK y \in X : y = f[n]
      OBVIOUS
    <2>3. PICK z \in X : z = g[<<n + 1, y>>]
      <3>1. <<n + 1, y>> \in (1..N) \X X
        BY <2>2
      <3> QED BY <3>1
    <2> DEFINE h == [i \in 0..(n + 1) |-> IF i <= n THEN f[i] ELSE z]
    <2>4. h \in [0..(n + 1) -> X] /\ DOMAIN h = 0..(n + 1)
      OBVIOUS
    <2>5. h[0] = x
      BY <2>1 DEF Follows
    <2>6. ASSUME NEW i \in 1..(n + 1) PROVE h[i] = g[<<i, h[i - 1]>>]
      <3>1. h[i - 1] = f[i - 1]
        OBVIOUS
      <3>2. CASE i <= n
        <4>1. h[i] = f[i] /\ i \in 1..n
          BY <3>2
        <4> QED BY <2>1, <3>1, <4>1 DEF Follows
      <3>3. CASE i = n + 1
        <4>1. h[i] = z /\ h[i - 1] = y
          BY <2>2, <3>1, <3>3
        <4> QED BY <2>3, <3>3, <4>1
      <3> QED BY <3>2, <3>3
    <2> HIDE DEF h
    <2>7. Follows(h, n + 1, x, g)
      BY <2>4, <2>5, <2>6 DEF Follows
    <2> QED BY <2>4, <2>7
  <1> HIDE DEF J
  <1>3. \A n \in Nat : n \in J
    BY <1>1, <1>2, Naturals
  <1> QED BY <1>3 DEF J

\* sscanf("%d") of digits gives a natural number.
LEMMA ValueType ==
  ASSUME NEW digits \in Seq(Char), \A i \in 1..Len(digits) : IsDigit(digits[i])
  PROVE  Value(digits) \in Nat
  <1> DEFINE d(i) == Digit(digits[i])
             F(f) == [i \in 0..Len(digits) |-> IF i = 0 THEN 0 ELSE 10 * f[i - 1] + d(i)]
  <1>1. PICK n \in Nat : n = Len(digits)
    OBVIOUS
  <1>2. \A i \in 1..n : d(i) \in Nat
    BY <1>1, DigitType
  <1>3. PICK v : v = (CHOOSE f : f = F(f))
    OBVIOUS
  <1>4. Value(digits) = v[n]
    BY <1>1, <1>3 DEF Value
  <1> HIDE DEF d
  <1> DEFINE g == [p \in (1..n) \X Nat |-> 10 * p[2] + d(p[1])]
  <1>5. g \in [(1..n) \X Nat -> Nat]
    BY <1>2
  <1>6. PICK s \in [0..n -> Nat] : Follows(s, n, 0, g)
    <2> HIDE DEF g
    <2> QED BY <1>5, Solvable
  <1>7. s = F(s)
    <2>1. \A i \in 1..n : s[i] = 10 * s[i - 1] + d(i)
      <3> TAKE i \in 1..n
      <3>1. PICK y \in Nat : y = s[i - 1]
        OBVIOUS
      <3>2. g[<<i, y>>] = 10 * y + d(i)
        OBVIOUS
      <3> QED BY <1>6, <3>1, <3>2 DEF Follows
    <2>2. \A i \in 0..n : s[i] = IF i = 0 THEN 0 ELSE 10 * s[i - 1] + d(i)
      BY <1>6, <2>1 DEF Follows
    <2> QED BY <1>1, <2>2
  <1>8. v = F(v)
    <2> HIDE DEF F
    <2> QED BY <1>3, <1>7
  <1>9. v[0] = 0 /\ \A i \in 1..n : v[i] = 10 * v[i - 1] + d(i)
    BY <1>1, <1>8
  <1> DEFINE J == {i \in Nat : i <= n => v[i] \in Nat}
  <1>10. 0 \in J
    BY <1>9
  <1>11. ASSUME NEW i \in Nat, i \in J PROVE i + 1 \in J
    <2> SUFFICES ASSUME i + 1 <= n PROVE v[i + 1] \in Nat
      OBVIOUS
    <2>1. i + 1 \in 1..n /\ (i + 1) - 1 = i /\ v[i] \in Nat
      BY <1>11
    <2>2. PICK y \in Nat : y = v[i]
      BY <2>1
    <2>3. PICK z \in Nat : z = d(i + 1)
      BY <1>2, <2>1
    <2>4. v[i + 1] = 10 * y + z
      BY <1>9, <2>1, <2>2, <2>3
    <2> QED BY <2>4
  <1> HIDE DEF J
  <1>12. \A i \in Nat : i \in J
    BY <1>10, <1>11, Naturals
  <1> QED BY <1>4, <1>12 DEF J

\* What a number is read from are digits.
LEMMA DigitsType ==
  ASSUME NEW w \in Seq(Char)
  PROVE  /\ DigitsOf(w) \in Seq(Char)
         /\ \A i \in 1..Len(DigitsOf(w)) : IsDigit(DigitsOf(w)[i])
  <1> DEFINE I == {i \in 1..Len(w) : ~IsDigit(w[i])}
  <1>1. PICK k : k = T!SelectInSeq(w, LAMBDA c : ~IsDigit(c))
    OBVIOUS
  <1>2. IsFirst(k, I)
    BY <1>1, FirstOther
  <1>3. PICK v : v = DigitsOf(w)
    OBVIOUS
  <1>4. v = IF k = 0 THEN w ELSE SubSeq(w, 1, k - 1)
    BY <1>1, <1>3 DEF DigitsOf, UpTo
  <1>5. PICK n \in Nat : n = Len(w)
    OBVIOUS
  <1>6. CASE I = {}
    <2>1. v = w
      BY <1>2, <1>4, <1>6 DEF IsFirst
    <2>2. \A i \in 1..Len(w) : IsDigit(w[i])
      BY <1>6
    <2> QED BY <1>3, <2>1, <2>2
  <1>7. CASE I # {}
    <2>1. k \in I /\ \A j \in I : k <= j
      BY <1>2, <1>7 DEF IsFirst
    <2>2. k \in 1..n /\ k # 0
      BY <1>5, <2>1
    <2>3. v = SubSeq(w, 1, k - 1)
      BY <1>4, <2>2
    <2>4. v \in Seq(Char) /\ Len(v) = k - 1 /\ \A i \in 1..(k - 1) : v[i] = w[i]
      BY <1>5, <2>2, <2>3
    <2>5. \A i \in 1..(k - 1) : IsDigit(w[i])
      <3> TAKE i \in 1..(k - 1)
      <3>1. i \in 1..n /\ ~(k <= i)
        BY <2>2
      <3>2. i \notin I
        BY <2>1, <3>1
      <3> QED BY <1>5, <3>1, <3>2
    <2>6. \A i \in 1..Len(v) : IsDigit(v[i])
      BY <2>4, <2>5
    <2> QED BY <1>3, <2>4, <2>6
  <1> QED BY <1>6, <1>7

\* What is behind a word adds no digits to it, if it is no digit itself.
LEMMA DigitsBehind ==
  ASSUME NEW w \in Seq(Char), NEW b \in Seq(Char), b # << >> => ~IsDigit(b[1])
  PROVE  DigitsOf(w \o b) = DigitsOf(w)
  <1> DEFINE I == {i \in 1..Len(w) : ~IsDigit(w[i])}
  <1>1. PICK c : c = w \o b
    OBVIOUS
  <1> DEFINE J == {i \in 1..Len(c) : ~IsDigit(c[i])}
  <1>2. PICK m \in Nat, n \in Nat : m = Len(w) /\ n = Len(b)
    OBVIOUS
  <1>3. /\ c \in Seq(Char) /\ Len(c) = m + n
        /\ SubSeq(c, 1, m) = w
        /\ \A i \in 1..m : c[i] = w[i]
        /\ b # << >> => c[m + 1] = b[1]
    BY <1>1, <1>2, Halves
  <1>4. PICK k : k = T!SelectInSeq(w, LAMBDA x : ~IsDigit(x))
    OBVIOUS
  <1>5. PICK j : j = T!SelectInSeq(c, LAMBDA x : ~IsDigit(x))
    OBVIOUS
  <1>6. IsFirst(k, I) /\ IsFirst(j, J)
    BY <1>4, <1>5, FirstOther
  <1>7. DigitsOf(w) = IF k = 0 THEN w ELSE SubSeq(w, 1, k - 1)
    BY <1>4 DEF DigitsOf, UpTo
  <1>8. DigitsOf(c) = IF j = 0 THEN c ELSE SubSeq(c, 1, j - 1)
    BY <1>5 DEF DigitsOf, UpTo
  <1>9. \A i \in 1..m : i \in I <=> i \in J
    BY <1>2, <1>3
  <1>10. CASE I # {}
    <2>1. k \in I /\ k \in 1..m /\ \A i \in I : k <= i
      BY <1>2, <1>6, <1>10 DEF IsFirst
    <2>2. k \in J
      BY <1>9, <2>1
    <2>3. j \in J /\ j <= k
      BY <1>6, <2>2 DEF IsFirst
    <2>4. j \in 1..m
      <3>1. j \in Nat /\ j > 0
        BY <2>3
      <3> QED BY <2>1, <2>3, <3>1
    <2>5. j = k
      <3>1. k <= j
        BY <1>9, <2>1, <2>3, <2>4
      <3> QED BY <2>1, <2>3, <2>4, <3>1
    <2>6. SubSeq(c, 1, k - 1) = SubSeq(w, 1, k - 1)
      <3>1. PICK u, v : u = SubSeq(c, 1, k - 1) /\ v = SubSeq(w, 1, k - 1)
        OBVIOUS
      <3>2. u \in Seq(Char) /\ Len(u) = k - 1 /\ \A i \in 1..(k - 1) : u[i] = c[i]
        BY <1>3, <2>1, <3>1
      <3>3. v \in Seq(Char) /\ Len(v) = k - 1 /\ \A i \in 1..(k - 1) : v[i] = w[i]
        BY <1>2, <2>1, <3>1
      <3>4. \A i \in 1..Len(u) : u[i] = v[i]
        BY <1>3, <2>1, <3>2, <3>3
      <3>5. u = v
        BY <3>2, <3>3, <3>4, SeqEqual
      <3> QED BY <3>1, <3>5
    <2>7. k # 0
      BY <2>1
    <2> QED BY <1>1, <1>7, <1>8, <2>5, <2>6, <2>7
  <1>11. CASE I = {} /\ b = << >>
    <2>1. c = w
      BY <1>1, <1>11, ConcatEmptySeq
    <2> QED BY <1>1, <2>1
  <1>12. CASE I = {} /\ b # << >>
    <2>1. n > 0
      BY <1>2, <1>12
    <2>2. m + 1 \in J
      BY <1>3, <1>12, <2>1
    <2>3. j \in J /\ j <= m + 1
      BY <1>6, <2>2 DEF IsFirst
    <2>4. j = m + 1
      <3>1. j \in Nat /\ j > 0
        BY <2>3
      <3>2. j \notin 1..m
        BY <1>9, <1>12, <2>3
      <3> QED BY <2>3, <3>1, <3>2
    <2>5. j # 0 /\ j - 1 = m
      BY <2>4
    <2>6. k = 0
      BY <1>6, <1>12 DEF IsFirst
    <2> QED BY <1>1, <1>3, <1>7, <1>8, <2>5, <2>6
  <1> QED BY <1>10, <1>11, <1>12

\* buffer + n, for n within the first part of the buffer.
FromFront(a, b, k) ==
  /\ After(a \o b, k) = After(a, k) \o b
  /\ After(a, k) \in Seq(Char) /\ Len(After(a, k)) = Len(a) - k
  /\ \A i \in 1..(Len(a) - k) : After(a, k)[i] = a[k + i]
\* After cuts so within the part in front.
LEMMA AfterFront ==
  ASSUME NEW a \in Seq(Char), NEW b \in Seq(Char), NEW k \in 0..Len(a)
  PROVE  FromFront(a, b, k)
  <1> DEFINE u == SubSeq(a, 1, k)
             v == SubSeq(a, k + 1, Len(a))
  <1>1. a = u \o v
    BY CutAnywhere
  <1>2. u \in Seq(Char) /\ Len(u) = k
    OBVIOUS
  <1>3. v \in Seq(Char) /\ Len(v) = Len(a) - k /\ \A i \in 1..(Len(a) - k) : v[i] = a[k + i]
    <2>1. PICK m \in Nat : m = Len(a)
      OBVIOUS
    <2> QED BY <2>1
  <1>4. v = After(a, k)
    BY DEF After
  <1> HIDE DEF u, v
  <1>5. PICK w : w = v \o b
    OBVIOUS
  <1>6. w \in Seq(Char)
    BY <1>3, <1>5, ConcatProperties
  <1>7. a \o b = u \o w
    <2>1. Associates(u, v, b)
      BY <1>2, <1>3, TextRegroup
    <2> QED BY <1>1, <1>5, <2>1 DEF Associates
  <1>8. SubSeq(u \o w, Len(u) + 1, Len(u \o w)) = w
    BY <1>2, <1>6, Halves
  <1>9. After(a \o b, k) = w
    BY <1>2, <1>7, <1>8 DEF After
  <1> QED BY <1>3, <1>4, <1>5, <1>9 DEF FromFront

\* What is left of a word without its sign is a text,
LEMMA UnsignedType ==
  ASSUME NEW w \in Seq(Char)
  PROVE  Unsigned(w) \in Seq(Char)
  <1>1. CASE w # << >>
    <2>1. 1 \in 0..Len(w)
      BY <1>1
    <2>2. FromFront(w, << >>, 1)
      <3>1. << >> \in Seq(Char)
        OBVIOUS
      <3> QED BY <2>1, <3>1, AfterFront
    <2> QED BY <2>2 DEF FromFront, Unsigned
  <1>2. CASE w = << >>
    BY <1>2 DEF Unsigned
  <1> QED BY <1>1, <1>2

\* and what is behind the word does not change it.
LEMMA UnsignedBehind ==
  ASSUME NEW w \in Seq(Char), w # << >>, NEW b \in Seq(Char)
  PROVE  Unsigned(w \o b) = Unsigned(w) \o b /\ (w \o b)[1] = w[1]
  <1>1. 1 \in 1..Len(w) /\ 1 \in 0..Len(w)
    OBVIOUS
  <1>2. PICK c : c = w \o b
    OBVIOUS
  <1>3. c \in Seq(Char) /\ c[1] = w[1] /\ c # << >>
    <2>1. c \in Seq(Char) /\ Len(c) = Len(w) + Len(b) /\ \A i \in 1..Len(w) : c[i] = w[i]
      BY <1>2, Halves
    <2> QED BY <1>1, <2>1
  <1>4. After(c, 1) = After(w, 1) \o b
    <2>1. FromFront(w, b, 1)
      BY <1>1, AfterFront
    <2> QED BY <1>2, <2>1 DEF FromFront
  <1>5. CASE w[1] \in {"+", "-"}
    <2>1. Unsigned(c) = After(c, 1) /\ Unsigned(w) = After(w, 1)
      BY <1>3, <1>5 DEF Unsigned
    <2> QED BY <1>2, <1>3, <1>4, <2>1
  <1>6. CASE w[1] \notin {"+", "-"}
    <2>1. Unsigned(c) = c /\ Unsigned(w) = w
      BY <1>3, <1>6 DEF Unsigned
    <2> QED BY <1>2, <1>3, <2>1
  <1> QED BY <1>5, <1>6

\* What is scanned for a number is integers, one at most.
LEMMA NumberType ==
  ASSUME NEW s \in Seq(Char)
  PROVE  ScannedNumber(s) \subseteq Int
  <1>1. PICK a, b : Blank(a) /\ Starts(b) /\ s = a \o b
    BY Parts
  <1>2. SkipSpaces(s) = b /\ b \in Seq(Char)
    BY <1>1, SkipBlank DEF Starts
  <1>3. PICK u \in Seq(Char) : u = Unsigned(b)
    BY <1>2, UnsignedType
  <1>4. PICK v \in Nat : v = Value(DigitsOf(u))
    BY <1>3, DigitsType, ValueType
  <1>5. v \in Int /\ -v \in Int
    OBVIOUS
  <1>6. ScannedNumber(s) \subseteq {v, -v}
    BY <1>2, <1>3, <1>4 DEF ScannedNumber
  <1> QED BY <1>5, <1>6

\* A word that is scanned for a number: the same with spaces in front of it
\* and something else behind it.
LEMMA NumberIs ==
  ASSUME NEW a, Blank(a), NEW w, Solid(w), w # << >>,
         NEW b \in Seq(Char), b # << >> => ~IsDigit(b[1])
  PROVE  ScannedNumber(a \o (w \o b)) = ScannedNumber(w)
  <1>1. w \in Seq(Char) /\ Starts(w)
    BY DEF Solid, Starts
  <1>2. PICK c : c = w \o b
    OBVIOUS
  <1>3. Starts(c)
    <2>1. c \in Seq(Char) /\ \A i \in 1..Len(w) : c[i] = w[i]
      BY <1>1, <1>2, Halves
    <2>2. 1 \in 1..Len(w)
      BY <1>1
    <2> QED BY <1>1, <2>1, <2>2 DEF Starts
  <1>4. SkipSpaces(a \o c) = c
    BY <1>3, SkipBlank
  <1>5. SkipSpaces(w) = w
    <2>1. Blank(<< >>) /\ << >> \o w = w
      BY <1>1, ConcatEmptySeq DEF Blank
    <2> QED BY <1>1, <2>1, SkipBlank
  <1>6. PICK u \in Seq(Char) : u = Unsigned(w)
    BY <1>1, UnsignedType
  <1>7. Unsigned(c) = u \o b /\ c[1] = w[1]
    BY <1>1, <1>2, <1>6, UnsignedBehind
  <1>8. DigitsOf(u \o b) = DigitsOf(u)
    BY DigitsBehind
  <1>9. PICK n : n = Value(DigitsOf(u))
    OBVIOUS
  <1>10. ScannedNumber(a \o c)
           = IF DigitsOf(u) = << >> THEN {} ELSE {IF w[1] = "-" THEN -n ELSE n}
    BY <1>4, <1>7, <1>8, <1>9 DEF ScannedNumber
  <1>11. ScannedNumber(w)
           = IF DigitsOf(u) = << >> THEN {} ELSE {IF w[1] = "-" THEN -n ELSE n}
    BY <1>5, <1>6, <1>9 DEF ScannedNumber
  <1> QED BY <1>2, <1>10, <1>11

\* No number in spaces.
LEMMA NoNumber ==
  ASSUME NEW a, Blank(a)
  PROVE  ScannedNumber(a) = {}
  <1>1. a \in Seq(Char) /\ a = a \o << >>
    BY ConcatEmptySeq DEF Blank
  <1>2. Starts(<< >>)
    BY DEF Starts
  <1>3. SkipSpaces(a) = << >>
    BY <1>1, <1>2, SkipBlank
  <1>4. DigitsOf(<< >>) = << >>
    <2>1. PICK v : v = DigitsOf(<< >>)
      OBVIOUS
    <2>2. PICK k : k = T!SelectInSeq(<< >>, LAMBDA x : ~IsDigit(x))
      OBVIOUS
    <2>3. IsFirst(k, {i \in 1..Len(<< >>) : ~IsDigit(<< >>[i])})
      BY <2>2, FirstOther
    <2>4. k = 0
      BY <2>3 DEF IsFirst
    <2> QED BY <2>2, <2>4 DEF DigitsOf, UpTo
  <1>5. Unsigned(<< >>) = << >>
    BY DEF Unsigned
  <1> QED BY <1>3, <1>4, <1>5 DEF ScannedNumber

-----------------------------------------------------------------------------
\* Lines.

\* So many spaces.
LEMMA SpacesType ==
  ASSUME NEW n \in Nat
  PROVE  Blank(Spaces(n)) /\ Len(Spaces(n)) = n
  <1>1. Spaces(n) \in Seq(Char) /\ Len(Spaces(n)) = n
    <2>1. " " \in Char
      BY PromptAssumption
    <2>2. [i \in 1..n |-> " "] \in [1..n -> Char]
      BY <2>1
    <2>3. \A f \in [1..n -> Char] : f \in Seq(Char) /\ Len(f) = n
      BY LenProperties, SeqDef
    <2> QED BY <2>2, <2>3 DEF Spaces
  <1>2. \A i \in 1..n : IsSpace(Spaces(n)[i])
    BY DEF Spaces, IsSpace
  <1> QED BY <1>1, <1>2 DEF Blank

\* buffer + n, for n beyond the first part of the buffer.
FromBack(a, b, k) == After(a \o b, Len(a) + k) = After(b, k)

\* It cuts so within the part behind.
LEMMA AfterBack ==
  ASSUME NEW a \in Seq(Char), NEW b \in Seq(Char), NEW k \in Nat
  PROVE  FromBack(a, b, k)
  <1>1. CASE k <= Len(b)
    <2> DEFINE u == SubSeq(b, 1, k)
               v == SubSeq(b, k + 1, Len(b))
    <2>1. b = u \o v
      <3>1. k \in 0..Len(b)
        BY <1>1
      <3> QED BY <3>1, CutAnywhere
    <2>2. u \in Seq(Char) /\ Len(u) = k
      BY <1>1
    <2>3. v \in Seq(Char)
      OBVIOUS
    <2>4. v = After(b, k)
      BY DEF After
    <2> HIDE DEF u, v
    <2>5. PICK w : w = a \o u
      OBVIOUS
    <2>6. w \in Seq(Char) /\ Len(w) = Len(a) + k
      BY <2>2, <2>5, ConcatProperties
    <2>7. a \o b = w \o v
      <3>1. Associates(a, u, v)
        BY <2>2, <2>3, TextRegroup
      <3> QED BY <2>1, <2>5, <3>1 DEF Associates
    <2>8. SubSeq(w \o v, Len(w) + 1, Len(w \o v)) = v
      BY <2>3, <2>6, Halves
    <2> QED BY <2>4, <2>6, <2>7, <2>8 DEF After, FromBack
  <1>2. CASE k > Len(b)
    <2>1. PICK c : c = a \o b
      OBVIOUS
    <2>2. c \in Seq(Char) /\ Len(c) = Len(a) + Len(b)
      BY <2>1, ConcatProperties
    <2>3. SubSeq(c, Len(a) + k + 1, Len(c)) = << >>
      <3>1. PICK m \in Nat, n \in Nat : m = Len(a) /\ n = Len(b)
        OBVIOUS
      <3>2. Len(c) = m + n /\ m + k + 1 > m + n
        BY <1>2, <2>2, <3>1
      <3> QED BY <2>2, <3>1, <3>2
    <2>4. SubSeq(b, k + 1, Len(b)) = << >>
      BY <1>2
    <2> QED BY <2>1, <2>3, <2>4 DEF After, FromBack
  <1> QED BY <1>1, <1>2

\* What is behind a word, and what is behind a topic.
NewLine(line) == <<"\n">> \o line.more
Trailing(line) == (IF line.flag = << >> THEN << >> ELSE <<" ">> \o line.flag) \o NewLine(line)
Rest(line) == (IF line.topic = << >> THEN << >> ELSE Spaces(line.gap) \o line.topic) \o Trailing(line)

\* What a line is made of.
LEMMA LineType ==
  ASSUME NEW line \in Lines
  PROVE  /\ line.indent \in Nat /\ line.gap \in Nat /\ line.gap > 0
         /\ Solid(line.word) /\ Solid(line.topic) /\ Solid(line.flag)
         /\ line.more \in Seq(Char)
         /\ line.word # << >>
         /\ line.topic = << >> => line.flag = << >>
  <1>1. line \in [indent : Nat, word : Seq(Char), gap : Nat \ {0},
                  topic : Seq(Char), flag : Seq(Char), more : Seq(Char)]
    BY FormatsAssumption
  <1>2. /\ line.word # << >>
        /\ line.topic = << >> => line.flag = << >>
        /\ \A part \in {line.word, line.topic, line.flag} :
             \A i \in 1..Len(part) : ~IsSpace(part[i])
    BY FormatsAssumption
  <1> QED BY <1>1, <1>2 DEF Solid

\* A new line is a space, and no digit.
LEMMA NewLineType ==
  ASSUME NEW line \in Lines
  PROVE  /\ NewLine(line) \in Seq(Char) /\ Ends(NewLine(line))
         /\ ~IsDigit(NewLine(line)[1]) /\ NewLine(line) # << >>
  <1>1. <<"\n">> \in Seq(Char) /\ Len(<<"\n">>) = 1 /\ line.more \in Seq(Char)
    <2>1. "\n" \in Char
      BY PromptAssumption
    <2>2. <<"\n">> \in Seq(Char) /\ Len(<<"\n">>) = 1
      BY <2>1
    <2> QED BY <2>2, LineType
  <1>2. NewLine(line) \in Seq(Char) /\ Len(NewLine(line)) = 1 + Len(line.more)
    BY <1>1, ConcatProperties DEF NewLine
  <1>3. NewLine(line)[1] = "\n"
    <2>1. PICK a : a = <<"\n">>
      OBVIOUS
    <2>2. \A i \in 1..Len(a) : (a \o line.more)[i] = a[i]
      BY <1>1, <2>1, Halves
    <2>3. 1 \in 1..Len(a) /\ a[1] = "\n"
      BY <2>1
    <2> QED BY <2>1, <2>2, <2>3 DEF NewLine
  <1>4. IsSpace("\n")
    BY DEF IsSpace
  <1>5. ~IsDigit("\n")
    BY DEF IsDigit, T!Contains, Digits
  <1>6. NewLine(line) # << >>
    BY <1>1, <1>2
  <1> QED BY <1>2, <1>3, <1>4, <1>5, <1>6 DEF Ends

\* The parts of a line.
Regrouped(a, w, t, f, n, m) ==
  ((((a \o w) \o t) \o f) \o n) \o m = a \o (w \o (t \o (f \o (n \o m))))

\* Chars and the rest of a line may be grouped so.
LEMMA SixParts ==
  ASSUME NEW a \in Seq(Char), NEW w \in Seq(Char), NEW t \in Seq(Char),
         NEW f \in Seq(Char), NEW n \in Seq(Char), NEW m \in Seq(Char)
  PROVE  Regrouped(a, w, t, f, n, m)
  <1>1. PICK nm \in Seq(Char) : nm = n \o m
    BY TextConcat
  <1>2. PICK aw \in Seq(Char) : aw = a \o w
    BY TextConcat
  <1>3. PICK awt \in Seq(Char) : awt = aw \o t
    BY TextConcat
  <1>4. PICK awtf \in Seq(Char) : awtf = awt \o f
    BY TextConcat
  <1>5. PICK fnm \in Seq(Char) : fnm = f \o nm
    BY TextConcat
  <1>6. PICK tfnm \in Seq(Char) : tfnm = t \o fnm
    BY TextConcat
  <1>7. /\ nm \in Seq(Char) /\ aw \in Seq(Char) /\ awt \in Seq(Char)
        /\ awtf \in Seq(Char) /\ fnm \in Seq(Char) /\ tfnm \in Seq(Char)
    BY <1>1, <1>2, <1>3, <1>4, <1>5, <1>6
  <1>8. Associates(awtf, n, m)
    BY <1>7, TextRegroup
  <1>9. Associates(awt, f, nm)
    BY <1>7, TextRegroup
  <1>10. Associates(aw, t, fnm)
    BY <1>7, TextRegroup
  <1>11. Associates(a, w, tfnm)
    BY <1>7, TextRegroup
  <1> QED BY <1>1, <1>2, <1>3, <1>4, <1>5, <1>6, <1>8, <1>9, <1>10, <1>11
     DEF Regrouped, Associates

\* A space and a new line, as texts.
LEMMA OneCharacter ==
  /\ <<" ">> \in Seq(Char) /\ Len(<<" ">>) = 1 /\ <<" ">>[1] = " "
  /\ <<"\n">> \in Seq(Char) /\ Len(<<"\n">>) = 1 /\ <<"\n">>[1] = "\n"
  <1>1. " " \in Char /\ "\n" \in Char
    BY PromptAssumption
  <1>2. \A c \in Char : <<c>> \in Seq(Char) /\ Len(<<c>>) = 1 /\ <<c>>[1] = c
    OBVIOUS
  <1> QED BY <1>1, <1>2

\* Behind a word comes a space or a new line; behind a topic, too.
LEMMA TrailingType ==
  ASSUME NEW line \in Lines
  PROVE  Trailing(line) \in Seq(Char) /\ Ends(Trailing(line))
  <1>1. /\ NewLine(line) \in Seq(Char) /\ Ends(NewLine(line))
        /\ line.flag \in Seq(Char)
    BY NewLineType, LineType DEF Solid
  <1>2. CASE line.flag = << >>
    <2>1. Trailing(line) = NewLine(line)
      BY <1>1, <1>2, ConcatEmptySeq DEF Trailing
    <2> QED BY <1>1, <2>1
  <1>3. CASE line.flag # << >>
    <2>1. PICK s : s = <<" ">>
      OBVIOUS
    <2>2. s \in Seq(Char) /\ Len(s) = 1
      BY <2>1, OneCharacter
    <2>x. s[1] = " "
      BY <2>1, OneCharacter
    <2>3. PICK g : g = line.flag /\ g \in Seq(Char)
      BY <1>1
    <2> DEFINE f == s \o g
    <2>4. f \in Seq(Char) /\ Len(f) = 1 + Len(g) /\ \A i \in 1..Len(s) : f[i] = s[i]
      <3>1. /\ s \o g \in Seq(Char) /\ Len(s \o g) = Len(s) + Len(g)
            /\ \A i \in 1..Len(s) : (s \o g)[i] = s[i]
        <4>1. Halved(s, g)
          BY <2>2, <2>3, TextHalves
        <4> QED BY <4>1 DEF Halved
      <3> QED BY <2>2, <3>1
    <2> HIDE DEF f
    <2>5. f[1] = " " /\ 1 \in 1..Len(f)
      <3>1. 1 \in 1..Len(s) /\ Len(g) \in Nat
        BY <2>2, <2>3
      <3>2. f[1] = s[1] /\ 1 \in 1..Len(f)
        BY <2>4, <3>1
      <3> QED BY <2>x, <3>2
    <2>6. Trailing(line) = f \o NewLine(line)
      BY <1>3, <2>1, <2>3 DEF Trailing, f
    <2>7. /\ f \o NewLine(line) \in Seq(Char)
          /\ \A i \in 1..Len(f) : (f \o NewLine(line))[i] = f[i]
      BY <1>1, <2>4, Halves
    <2>8. IsSpace(" ")
      BY DEF IsSpace
    <2> QED BY <2>5, <2>6, <2>7, <2>8 DEF Ends
  <1> QED BY <1>2, <1>3

\* A concatenation ends a word if its first part does, or if that is empty and
\* its second part does.
LEMMA EndsFront ==
  ASSUME NEW a, Ends(a), a # << >>, NEW b \in Seq(Char)
  PROVE  Ends(a \o b)
  <1>1. a \in Seq(Char) /\ Len(a) # 0
    BY DEF Ends
  <1>2. a \o b \in Seq(Char) /\ \A i \in 1..Len(a) : (a \o b)[i] = a[i]
    BY <1>1, Halves
  <1>3. 1 \in 1..Len(a)
    BY <1>1
  <1> QED BY <1>2, <1>3 DEF Ends

\* What is behind the word of a line.
LEMMA RestType ==
  ASSUME NEW line \in Lines
  PROVE  /\ Rest(line) \in Seq(Char) /\ Ends(Rest(line))
         /\ line.topic = << >> => Rest(line) = Trailing(line)
         /\ line.topic # << >> => Rest(line) = Spaces(line.gap) \o (line.topic \o Trailing(line))
  <1>1. /\ Trailing(line) \in Seq(Char) /\ Ends(Trailing(line))
        /\ line.topic \in Seq(Char)
        /\ line.gap \in Nat /\ line.gap > 0
    BY TrailingType, LineType DEF Solid
  <1>2. CASE line.topic = << >>
    <2>1. Rest(line) = Trailing(line)
      BY <1>1, <1>2, ConcatEmptySeq DEF Rest
    <2> QED BY <1>1, <1>2, <2>1
  <1>3. CASE line.topic # << >>
    <2>1. PICK s : s = Spaces(line.gap)
      OBVIOUS
    <2>2. Blank(s) /\ Len(s) = line.gap
      BY <1>1, <2>1, SpacesType
    <2>3. s \in Seq(Char) /\ s # << >> /\ Ends(s)
      <3>1. s \in Seq(Char) /\ 1 \in 1..Len(s)
        BY <1>1, <2>2 DEF Blank
      <3>2. s # << >>
        BY <3>1
      <3> QED BY <2>2, <3>1, <3>2 DEF Blank, Ends
    <2>4. PICK u : u = line.topic \o Trailing(line)
      OBVIOUS
    <2>5. u \in Seq(Char)
      BY <1>1, <2>4, ConcatProperties
    <2>6. Rest(line) = (s \o line.topic) \o Trailing(line)
      BY <1>3, <2>1 DEF Rest
    <2>7. Associates(s, line.topic, Trailing(line))
      BY <1>1, <2>3, TextRegroup
    <2>8. Rest(line) = s \o u
      BY <2>4, <2>6, <2>7 DEF Associates
    <2>9. Ends(s \o u)
      BY <2>3, <2>5, EndsFront
    <2> QED BY <1>3, <2>1, <2>4, <2>8, <2>9 DEF Ends
  <1> QED BY <1>2, <1>3

\* Chars puts a line together of its indentation, its word and the rest.
LEMMA CharsIs ==
  ASSUME NEW line \in Lines
  PROVE  Chars(line) = Spaces(line.indent) \o (line.word \o Rest(line))
  <1> DEFINE a == Spaces(line.indent)
             w == line.word
             t == IF line.topic = << >> THEN << >> ELSE Spaces(line.gap) \o line.topic
             f == IF line.flag = << >> THEN << >> ELSE <<" ">> \o line.flag
             n == <<"\n">>
             m == line.more
  <1>1. Chars(line) = ((((a \o w) \o t) \o f) \o n) \o m
    BY DEF Chars
  <1>2. Rest(line) = t \o (f \o (n \o m))
    BY DEF Rest, Trailing, NewLine
  <1>3. a \in Seq(Char) /\ w \in Seq(Char) /\ m \in Seq(Char)
    BY LineType, SpacesType DEF Blank, Solid
  <1>4. t \in Seq(Char)
    <2>1. line.topic \in Seq(Char) /\ Spaces(line.gap) \in Seq(Char)
      BY LineType, SpacesType DEF Blank, Solid
    <2>2. Spaces(line.gap) \o line.topic \in Seq(Char)
      BY <2>1, TextConcat
    <2> QED BY <2>2
  <1>5. f \in Seq(Char)
    <2>1. line.flag \in Seq(Char) /\ <<" ">> \in Seq(Char)
      BY LineType, OneCharacter DEF Solid
    <2>2. PICK g : g = line.flag
      OBVIOUS
    <2>3. PICK s : s = <<" ">>
      OBVIOUS
    <2>4. s \o g \in Seq(Char)
      BY <2>1, <2>2, <2>3, TextConcat
    <2> QED BY <2>1, <2>2, <2>3, <2>4
  <1>6. n \in Seq(Char)
    BY OneCharacter
  <1> HIDE DEF a, w, t, f, n, m
  <1>7. Regrouped(a, w, t, f, n, m)
    BY <1>3, <1>4, <1>5, <1>6, SixParts
  <1> QED BY <1>1, <1>2, <1>7 DEF Regrouped, a, w

\* The command is the word of the line.
LEMMA CommandTyped ==
  ASSUME NEW line \in Lines
  PROVE  read_first_parameter(Chars(line)) = line.word
  <1>1. Blank(Spaces(line.indent)) /\ Solid(line.word) /\ line.word # << >> /\ Ends(Rest(line))
    BY LineType, SpacesType, RestType
  <1>2. ScannedWord(Spaces(line.indent) \o (line.word \o Rest(line))) = line.word
    BY <1>1, WordIs
  <1> QED BY <1>2, CharsIs DEF read_first_parameter

\* buffer + n in a line that is not indented.
LEMMA BehindWord ==
  ASSUME NEW line \in Lines, line.indent = 0, NEW k \in Nat
  PROVE  After(Chars(line), Len(line.word) + k) = After(Rest(line), k)
  <1>1. PICK w, r : w = line.word /\ r = Rest(line)
    OBVIOUS
  <1>2. w \in Seq(Char) /\ r \in Seq(Char)
    BY <1>1, LineType, RestType DEF Solid
  <1>3. PICK c \in Seq(Char) : c = w \o r
    BY <1>2, TextConcat
  <1>4. PICK s : s = Spaces(0)
    OBVIOUS
  <1>5. s = << >>
    <2>1. s \in Seq(Char) /\ Len(s) = 0
      BY <1>4, SpacesType DEF Blank
    <2> QED BY <2>1
  <1>6. s \o c = c
    BY <1>3, <1>5, ConcatEmptySeq
  <1>7. Chars(line) = w \o r
    BY <1>1, <1>3, <1>4, <1>6, CharsIs
  <1>8. FromBack(w, r, k)
    BY <1>2, AfterBack
  <1> QED BY <1>1, <1>7, <1>8 DEF FromBack

\* There the topic is found where it was typed; without one, what follows in
\* the buffer is taken for it.
LEMMA TopicScanned ==
  ASSUME NEW line \in Lines, line.indent = 0
  PROVE  ScannedWord(After(Chars(line), Len(line.word)))
           = IF line.topic # << >> THEN line.topic ELSE ScannedWord(line.more)
  <1>1. PICK r : r = Rest(line) /\ r \in Seq(Char)
    BY RestType
  <1>2. After(Chars(line), Len(line.word)) = r
    <2>1. After(Chars(line), Len(line.word) + 0) = After(r, 0)
      BY <1>1, BehindWord
    <2>2. Len(line.word) + 0 = Len(line.word)
      BY LineType DEF Solid
    <2>3. After(r, 0) = r
      BY <1>1 DEF After
    <2> QED BY <2>1, <2>2, <2>3
  <1>3. CASE line.topic # << >>
    <2>1. r = Spaces(line.gap) \o (line.topic \o Trailing(line))
      BY <1>1, <1>3, RestType
    <2>2. Blank(Spaces(line.gap)) /\ Solid(line.topic) /\ Ends(Trailing(line))
      BY LineType, SpacesType, TrailingType
    <2>3. ScannedWord(r) = line.topic
      BY <1>3, <2>1, <2>2, WordIs
    <2> QED BY <1>2, <1>3, <2>3
  <1>4. CASE line.topic = << >>
    <2>1. line.flag = << >> /\ NewLine(line) \in Seq(Char)
      BY <1>4, LineType, NewLineType
    <2>2. r = NewLine(line)
      <3>1. Trailing(line) = NewLine(line)
        BY <2>1, ConcatEmptySeq DEF Trailing
      <3> QED BY <1>1, <1>4, <3>1, RestType
    <2>3. PICK n : n = <<"\n">>
      OBVIOUS
    <2>4. Blank(n)
      <3>1. n \in Seq(Char) /\ Len(n) = 1 /\ n[1] = "\n"
        BY <2>3, OneCharacter
      <3>2. \A i \in 1..Len(n) : i = 1
        BY <3>1
      <3>3. IsSpace("\n")
        BY DEF IsSpace
      <3> QED BY <3>1, <3>2, <3>3 DEF Blank
    <2>5. line.more \in Seq(Char)
      BY LineType
    <2>6. ScannedWord(n \o line.more) = ScannedWord(line.more)
      BY <2>4, <2>5, WordBehind
    <2> QED BY <1>2, <1>4, <2>2, <2>3, <2>6 DEF NewLine
  <1> QED BY <1>3, <1>4

\* In an indented line what is taken for the topic is the end of the word.
LEMMA TopicMisread ==
  ASSUME NEW line \in Lines, line.indent # 0
  PROVE  Len(ScannedWord(After(Chars(line), Len(line.word)))) <= Len(line.word)
  <1>1. PICK w, r, s : w = line.word /\ r = Rest(line) /\ s = Spaces(line.indent)
    OBVIOUS
  <1>2. Solid(w) /\ w # << >> /\ Ends(r) /\ Blank(s) /\ Len(s) = line.indent
    BY <1>1, LineType, RestType, SpacesType
  <1>3. PICK m \in Nat, n \in Nat : m = Len(s) /\ n = Len(w) /\ m # 0
    BY <1>2, LineType DEF Solid
  <1>4. w \in Seq(Char) /\ r \in Seq(Char) /\ s \in Seq(Char)
    BY <1>2 DEF Solid, Ends, Blank
  <1>5. PICK c \in Seq(Char) : c = w \o r
    BY <1>4, TextConcat
  <1>6. Chars(line) = s \o c
    BY <1>1, <1>5, CharsIs
  <1>7. CASE n <= m
    <2>1. n \in 0..Len(s)
      BY <1>3, <1>7
    <2>2. PICK u : u = After(s, n)
      OBVIOUS
    <2>3. /\ After(s \o c, n) = u \o c
          /\ u \in Seq(Char) /\ Len(u) = Len(s) - n /\ \A i \in 1..(Len(s) - n) : u[i] = s[n + i]
      <3>1. FromFront(s, c, n)
        BY <1>4, <1>5, <2>1, AfterFront
      <3> QED BY <2>2, <3>1 DEF FromFront
    <2>4. Blank(u)
      <3>1. ASSUME NEW i \in 1..Len(u) PROVE IsSpace(u[i])
        <4>1. i \in 1..(Len(s) - n) /\ n + i \in 1..Len(s)
          BY <1>3, <1>7, <2>3
        <4> QED BY <1>2, <2>3, <4>1 DEF Blank
      <3> QED BY <2>3, <3>1 DEF Blank
    <2>5. ScannedWord(u \o (w \o r)) = w
      BY <1>2, <2>4, WordIs
    <2> QED BY <1>1, <1>3, <1>5, <1>6, <2>3, <2>5
  <1>8. CASE n > m
    <2>1. PICK k \in Nat : n = m + k
      <3>1. n - m \in Nat /\ n = m + (n - m)
        BY <1>3, <1>8
      <3> QED BY <3>1
    <2>2. k \in 0..Len(w) /\ Len(w) - k = m
      BY <1>3, <2>1
    <2>3. PICK u : u = After(w, k)
      OBVIOUS
    <2>4. After(s \o c, n) = After(c, k)
      <3>1. FromBack(s, c, k)
        BY <1>4, <1>5, AfterBack
      <3> QED BY <1>3, <2>1, <3>1 DEF FromBack
    <2>5. /\ After(w \o r, k) = u \o r
          /\ u \in Seq(Char) /\ Len(u) = Len(w) - k
          /\ \A i \in 1..(Len(w) - k) : u[i] = w[k + i]
      <3>1. FromFront(w, r, k)
        BY <1>4, <2>2, AfterFront
      <3> QED BY <2>3, <3>1 DEF FromFront
    <2>6. Solid(u)
      <3>1. ASSUME NEW i \in 1..Len(u) PROVE ~IsSpace(u[i])
        <4>1. i \in 1..(Len(w) - k) /\ k + i \in 1..Len(w)
          BY <1>3, <2>2, <2>5
        <4> QED BY <1>2, <2>5, <4>1 DEF Solid
      <3> QED BY <2>5, <3>1 DEF Solid
    <2>7. Len(u) = m /\ u # << >>
      BY <1>3, <2>2, <2>5
    <2>8. ScannedWord(u \o r) = u
      <3>1. PICK e : e = << >> /\ Blank(e)
        <4>1. Blank(<< >>)
          BY DEF Blank
        <4> QED BY <4>1
      <3>2. u \o r \in Seq(Char)
        BY <1>4, <2>5, TextConcat
      <3>3. ScannedWord(e \o (u \o r)) = u
        BY <1>2, <2>6, <2>7, <3>1, WordIs
      <3>4. e \o (u \o r) = u \o r
        BY <3>1, <3>2, ConcatEmptySeq
      <3> QED BY <3>3, <3>4
    <2>9. m <= n
      BY <1>8
    <2> QED BY <1>1, <1>3, <1>5, <1>6, <2>4, <2>5, <2>7, <2>8, <2>9
  <1> QED BY <1>3, <1>7, <1>8

\* Where a flag is looked for: behind the topic, and one character on if one
\* space separates the topic from the word.
LEMMA BehindTopic ==
  ASSUME NEW line \in Lines, line.indent = 0, line.gap <= 2, line.topic # << >>
  PROVE  After(Chars(line), Len(line.word) + Len(line.topic) + 2)
           = After(Trailing(line), 2 - line.gap)
  <1>1. PICK w, t, s, b : w = line.word /\ t = line.topic /\ s = Spaces(line.gap) /\ b = Trailing(line)
    OBVIOUS
  <1>2. w \in Seq(Char) /\ t \in Seq(Char) /\ s \in Seq(Char) /\ b \in Seq(Char)
    BY <1>1, LineType, SpacesType, TrailingType DEF Solid, Blank
  <1>3. PICK m \in Nat, n \in Nat, g \in {1, 2} :
          m = Len(w) /\ n = Len(t) /\ g = line.gap /\ Len(s) = g
    <2>1. line.gap \in {1, 2}
      BY LineType
    <2>2. Len(s) = line.gap
      BY <1>1, LineType, SpacesType
    <2> QED BY <1>2, <2>1, <2>2
  <1>4. PICK c \in Seq(Char) : c = t \o b
    BY <1>2, TextConcat
  <1>5. Rest(line) = s \o c
    BY <1>1, <1>4, RestType
  <1>6. After(Chars(line), m + (n + 2)) = After(s \o c, n + 2)
    <2>1. After(Chars(line), Len(line.word) + (n + 2)) = After(Rest(line), n + 2)
      <3>1. n + 2 \in Nat
        BY <1>3
      <3> QED BY <3>1, BehindWord
    <2> QED BY <1>1, <1>3, <1>5, <2>1
  <1>7. After(s \o c, n + 2) = After(c, n + (2 - g))
    <2>1. PICK k \in Nat : k = n + (2 - g)
      BY <1>3
    <2>2. FromBack(s, c, k)
      BY <1>2, <1>4, <2>1, AfterBack
    <2>3. g + k = n + 2
      BY <1>3, <2>1
    <2> QED BY <1>3, <2>1, <2>2, <2>3 DEF FromBack
  <1>8. After(c, n + (2 - g)) = After(b, 2 - g)
    <2>1. PICK k \in Nat : k = 2 - g
      BY <1>3
    <2>2. FromBack(t, b, k)
      BY <1>2, <2>1, AfterBack
    <2> QED BY <1>3, <1>4, <2>1, <2>2 DEF FromBack
  <1>9. m + n + 2 = m + (n + 2)
    BY <1>3
  <1> QED BY <1>1, <1>3, <1>6, <1>7, <1>8, <1>9

\* A flag is found where it was typed.
LEMMA FlagScanned ==
  ASSUME NEW line \in Lines, line.indent = 0, line.gap <= 2,
         line.topic # << >>, line.flag # << >>
  PROVE  ScannedNumber(After(Chars(line), Len(line.word) + Len(line.topic) + 2))
           = ScannedNumber(line.flag)
  <1>1. PICK f, n, s : f = line.flag /\ n = NewLine(line) /\ s = <<" ">>
    OBVIOUS
  <1>2. /\ f \in Seq(Char) /\ Solid(f) /\ f # << >>
        /\ n \in Seq(Char) /\ (n # << >> => ~IsDigit(n[1]))
    BY <1>1, LineType, NewLineType DEF Solid
  <1>3. s \in Seq(Char) /\ Len(s) = 1
    BY <1>1, OneCharacter
  <1>4. PICK b \in Seq(Char) : b = f \o n
    BY <1>2, TextConcat
  <1>5. Trailing(line) = s \o b
    <2>1. Trailing(line) = (s \o f) \o n
      BY <1>1, <1>2 DEF Trailing
    <2>2. Associates(s, f, n)
      BY <1>2, <1>3, TextRegroup
    <2> QED BY <1>4, <2>1, <2>2 DEF Associates
  <1>6. Blank(s)
    <2>1. s[1] = " " /\ IsSpace(" ")
      BY <1>1, OneCharacter DEF IsSpace
    <2>2. \A i \in 1..Len(s) : i = 1
      BY <1>3
    <2> QED BY <1>3, <2>1, <2>2 DEF Blank
  <1>7. PICK e : e = << >> /\ Blank(e)
    <2>1. Blank(<< >>)
      BY DEF Blank
    <2> QED BY <2>1
  <1>8. After(s \o b, 0) = s \o b /\ After(s \o b, 1) = e \o b
    <2>1. FromBack(s, b, 0)
      <3>1. b \in Seq(Char) /\ 0 \in Nat
        BY <1>4
      <3> QED BY <1>3, <3>1, AfterBack
    <2>2. After(s \o b, 1) = After(b, 0)
      BY <1>3, <2>1 DEF FromBack
    <2>3. \A x \in Seq(Char) : After(x, 0) = x
      BY DEF After
    <2>4. s \o b \in Seq(Char) /\ b \in Seq(Char)
      BY <1>3, <1>4, TextConcat
    <2>5. e \o b = b
      BY <1>7, <2>4, ConcatEmptySeq
    <2> QED BY <2>2, <2>3, <2>4, <2>5
  <1>9. ScannedNumber(s \o b) = ScannedNumber(f) /\ ScannedNumber(e \o b) = ScannedNumber(f)
    <2>1. ScannedNumber(s \o (f \o n)) = ScannedNumber(f)
      BY <1>2, <1>6, NumberIs
    <2>2. ScannedNumber(e \o (f \o n)) = ScannedNumber(f)
      BY <1>2, <1>7, NumberIs
    <2> QED BY <1>4, <2>1, <2>2
  <1>10. 2 - line.gap \in {0, 1}
    BY LineType
  <1> QED BY <1>1, <1>5, <1>8, <1>9, <1>10, BehindTopic

\* No flag is found where none was typed, and nothing has been typed since.
LEMMA FlagMissing ==
  ASSUME NEW line \in Lines, line.indent = 0, line.gap <= 2,
         line.flag = << >>, line.more = << >>
  PROVE  ScannedNumber(After(Chars(line), Len(line.word) + Len(line.topic) + 2)) = {}
  <1>1. PICK n : n = <<"\n">>
    OBVIOUS
  <1>2. n \in Seq(Char) /\ Len(n) = 1
    BY <1>1, OneCharacter
  <1>3. Trailing(line) = n
    <2>1. NewLine(line) = n
      BY <1>1, <1>2, ConcatEmptySeq DEF NewLine
    <2> QED BY <1>2, <2>1, ConcatEmptySeq DEF Trailing
  <1>4. Blank(n)
    <2>1. n[1] = "\n" /\ IsSpace("\n")
      BY <1>1, OneCharacter DEF IsSpace
    <2>2. \A i \in 1..Len(n) : i = 1
      BY <1>2
    <2> QED BY <1>2, <2>1, <2>2 DEF Blank
  <1>5. Blank(<< >>)
    BY DEF Blank
  <1>6. After(n, 0) = n /\ After(n, 1) = << >> /\ After(n, 2) = << >>
    BY <1>2 DEF After
  <1>7. CASE line.topic # << >>
    <2>1. 2 - line.gap \in {0, 1}
      BY LineType
    <2>2. After(Chars(line), Len(line.word) + Len(line.topic) + 2) \in {n, << >>}
      BY <1>3, <1>6, <1>7, <2>1, BehindTopic
    <2> QED BY <1>4, <1>5, <2>2, NoNumber
  <1>8. CASE line.topic = << >>
    <2>1. Rest(line) = n
      BY <1>3, <1>8, RestType
    <2>2. After(Chars(line), Len(line.word) + 2) = << >>
      BY <1>6, <2>1, BehindWord
    <2>3. Len(line.topic) = 0 /\ Len(line.word) \in Nat
      BY <1>8, LineType DEF Solid
    <2>4. Len(line.word) + Len(line.topic) + 2 = Len(line.word) + 2
      BY <2>3
    <2> QED BY <1>5, <2>2, <2>4, NoNumber
  <1> QED BY <1>7, <1>8

-----------------------------------------------------------------------------
\* Ints.

\* An unsigned int counts to IntSize, half of it is for negative numbers.
LEMMA IntSizes ==
  /\ IntSize \in Nat \ {0}
  /\ Half \in Nat /\ Half + Half <= IntSize
  <1>1. ByteSize \in Nat \ {0}
    BY PayloadAssumption
  <1>2. ByteSize * ByteSize \in Nat \ {0}
    BY <1>1, SMTT(30)
  <1>3. \A x \in Nat \ {0} : x * ByteSize \in Nat \ {0}
    BY <1>1, SMTT(30)
  <1>4. IntSize \in Nat \ {0}
    BY <1>2, <1>3 DEF IntSize
  <1>5. \A x \in Nat : x \div 2 \in Nat /\ (x \div 2) + (x \div 2) <= x
    OBVIOUS
  <1> QED BY <1>4, <1>5 DEF Half

\* A remainder differs from its number by a multiple.
LEMMA Congruent ==
  ASSUME NEW m \in Nat \ {0}, NEW x \in Int
  PROVE  x % m \in 0..(m - 1) /\ \E q \in Int : x = (x % m) + m * q
  <1>1. x % m \in 0..(m - 1) /\ x \div m \in Int /\ x = (x % m) + m * (x \div m)
    BY SMTT(30)
  <1> QED BY <1>1

\* A small number and a multiple have the number as their remainder.
LEMMA Multiple ==
  ASSUME NEW m \in Nat \ {0}, NEW r \in 0..(m - 1), NEW q \in Int
  PROVE  (r + m * q) % m = r
  BY SMTT(30)

\* An unsigned int that differs from an int by a multiple of IntSize is read as
\* that int.
LEMMA SignedIs ==
  ASSUME NEW y \in (-Half)..(Half - 1), NEW q \in Int
  PROVE  Signed(y + IntSize * q) = y
  <1>1. PICK m \in Nat \ {0} : m = IntSize
    BY IntSizes
  <1>2. PICK h \in Nat : h = Half /\ h + h <= m
    BY <1>1, IntSizes
  <1>3. PICK p \in Int : p = m * q
    OBVIOUS
  <1>4. y \in Int /\ y + h \in 0..(m - 1)
    BY <1>2
  <1>5. ((y + h) + m * q) % m = y + h
    BY <1>4, Multiple
  <1>6. (y + p) + h = (y + h) + p
    BY <1>2, <1>3, <1>4
  <1>7. ((y + p) + h) % m = y + h
    BY <1>3, <1>5, <1>6
  <1>8. Signed(y + p) = (((y + p) + h) % m) - h
    BY <1>1, <1>2 DEF Signed
  <1> QED BY <1>1, <1>2, <1>3, <1>4, <1>7, <1>8

\* What is stored of a number is an int, and the number itself if it is one.
LEMMA StoredIs ==
  ASSUME NEW n \in Int
  PROVE  Stored(n) \in Int /\ (n \in (-Half)..(Half - 1) => Stored(n) = n)
  <1>1. PICK m \in Nat \ {0} : m = IntSize
    BY IntSizes
  <1>2. PICK h \in Nat : h = Half /\ h + h <= m
    BY <1>1, IntSizes
  <1>3. PICK l \in Int : l = LongMax
    <2>1. PICK p \in Nat : p = m * m
      OBVIOUS
    <2>2. p \div 2 - 1 \in Int
      OBVIOUS
    <2> QED BY <1>1, <2>1, <2>2 DEF LongMax
  <1>4. ASSUME NEW y \in Int PROVE Signed(y) \in Int
    <2>1. PICK z \in Int : z = y + h
      OBVIOUS
    <2>2. PICK r \in 0..(m - 1) : r = z % m
      BY Congruent
    <2> QED BY <1>1, <1>2, <2>1, <2>2 DEF Signed
  <1>5. l >= h - 1
    <2>1. h = m \div 2
      BY <1>1, <1>2 DEF Half
    <2>2. PICK p \in Nat : p = m * m
      OBVIOUS
    <2>3. p >= m
      BY <2>2, SMTT(30)
    <2>4. l = p \div 2 - 1
      BY <1>1, <1>3, <2>2 DEF LongMax
    <2> QED BY <2>1, <2>3, <2>4
  <1>6. PICK y \in Int : y = IF n > l THEN l ELSE IF n < -l THEN -l - 1 ELSE n
    OBVIOUS
  <1>7. Stored(n) = Signed(y)
    BY <1>3, <1>6 DEF Stored
  <1>8. ASSUME n \in (-h)..(h - 1) PROVE Signed(y) = n
    <2>1. y = n
      BY <1>5, <1>6, <1>8
    <2>2. n = n + m * 0
      OBVIOUS
    <2>3. Signed(n + IntSize * 0) = n
      BY <1>2, <1>8, SignedIs
    <2> QED BY <1>1, <2>1, <2>2, <2>3
  <1> QED BY <1>2, <1>4, <1>7, <1>8

-----------------------------------------------------------------------------
\* Types.

\* cls_hdr.topic is cut to its array.
LEMMA ClippedType ==
  ASSUME NEW t \in Seq(Char)
  PROVE  /\ Clipped(t) \in Seq(Char) /\ Len(Clipped(t)) <= StringLen
         /\ Len(t) <= StringLen => Clipped(t) = t
  <1>1. StringLen \in Nat
    BY PayloadAssumption
  <1>2. CASE Len(t) <= StringLen
    <2>1. ~(Len(t) > StringLen)
      BY <1>1, <1>2
    <2> QED BY <1>2, <2>1 DEF Clipped
  <1>3. CASE Len(t) > StringLen
    <2>1. SubSeq(t, 1, StringLen) \in Seq(Char) /\ Len(SubSeq(t, 1, StringLen)) = StringLen
      BY <1>1, <1>3
    <2> QED BY <1>1, <1>3, <2>1 DEF Clipped
  <1> QED BY <1>1, <1>2, <1>3

\* A byte is a natural number, and what is left of one by % ByteSize is one.
LEMMA ByteType ==
  /\ ByteSize \in Nat /\ ByteSize > 3 /\ 0 \in Byte
  /\ \A n \in Int : n % ByteSize \in Byte
  /\ \A n \in Byte : n \in Nat
  BY PayloadAssumption DEF Byte

\* The buffer that a line is read into is a text, and so is any end of it.
LEMMA BufferType ==
  ASSUME NEW line \in Lines, NEW k \in Nat
  PROVE  Chars(line) \in Seq(Char) /\ After(Chars(line), k) \in Seq(Char)
  <1>1. PICK s, w, r : s = Spaces(line.indent) /\ w = line.word /\ r = Rest(line)
    OBVIOUS
  <1>2. s \in Seq(Char) /\ w \in Seq(Char) /\ r \in Seq(Char)
    BY <1>1, LineType, SpacesType, RestType DEF Blank, Solid
  <1>3. w \o r \in Seq(Char)
    BY <1>2, TextConcat
  <1>4. s \o (w \o r) \in Seq(Char)
    BY <1>2, <1>3, TextConcat
  <1>5. PICK b : b = Chars(line)
    OBVIOUS
  <1>6. b \in Seq(Char)
    BY <1>1, <1>4, <1>5, CharsIs
  <1>7. SubSeq(b, k + 1, Len(b)) \in Seq(Char)
    BY <1>6
  <1> QED BY <1>5, <1>6, <1>7 DEF After

\* When a line is being read, input holds one.
LEMMA LineRead ==
  ASSUME TypeOK, Reading
  PROVE  /\ input.line \in Lines
         /\ command = input.line.word
         /\ topic_typed = ScannedWord(After(Chars(input.line), Len(input.line.word)))
         /\ topic_typed \in Seq(Char)
  <1>1. input.line \in Lines
    BY DEF TypeOK, Reading, Nothing
  <1>2. command = input.line.word
    BY <1>1, CommandTyped DEF command, buffer
  <1>3. topic_typed = ScannedWord(After(Chars(input.line), Len(input.line.word)))
    BY <1>2 DEF topic_typed, buffer
  <1>4. topic_typed \in Seq(Char)
    <2>1. Len(input.line.word) \in Nat
      BY <1>1, LineType DEF Solid
    <2>2. After(Chars(input.line), Len(input.line.word)) \in Seq(Char)
      BY <1>1, <2>1, BufferType
    <2> QED BY <1>3, <2>2, WordType
  <1> QED BY <1>1, <1>2, <1>3, <1>4

\* A flag is a number.
LEMMA FlagType ==
  ASSUME TypeOK, Reading, NEW k \in Nat
  PROVE  Flag(k) \subseteq Int
  <1> DEFINE n == Len(command) + Len(topic_typed) + k
  <1>1. input.line \in Lines /\ command \in Seq(Char) /\ topic_typed \in Seq(Char)
    BY LineRead, LineType DEF Solid
  <1>2. n \in Nat
    BY <1>1
  <1>3. After(buffer, n) \in Seq(Char)
    BY <1>1, <1>2, BufferType DEF buffer
  <1> DEFINE number == ScannedNumber(After(buffer, n))
  <1>4. number \subseteq Int
    BY <1>3, NumberType
  <1>5. sf \in Int
    BY DEF TypeOK
  <1>6. Flag(k) = IF number = {} THEN {sf} ELSE {Stored(y) : y \in number}
    BY DEF Flag
  <1> HIDE DEF number
  <1>7. \A y \in number : Stored(y) \in Int
    BY <1>4, StoredIs
  <1> QED BY <1>5, <1>6, <1>7

\* Sending keeps the types.
LEMMA SendType ==
  ASSUME TypeOK, NEW type \in {0, 1}, NEW flag \in Byte, NEW topic \in Seq(Char),
         Send(type, flag, topic), sf' \in Int
  PROVE  TypeOK'
  <1>1. /\ cls_hdr' = [type |-> type, sf |-> flag, topic |-> Clipped(topic)]
        /\ output'.kind = "header"
        /\ input' = input
    BY DEF Send
  <1>2. Clipped(topic) \in Seq(Char) /\ Len(Clipped(topic)) <= StringLen
    BY ClippedType
  <1>3. cls_hdr' \in [type : {0, 1, 4}, sf : Byte, topic : Seq(Char)]
    BY <1>1, <1>2
  <1>4. Len(cls_hdr'.topic) <= StringLen
    BY <1>1, <1>2
  <1>5. output'.kind \in Kinds
    BY <1>1 DEF Kinds
  <1> QED BY <1>1, <1>3, <1>4, <1>5 DEF TypeOK

\* The types at the start.
LEMMA InitTyped == Init => TypeOK
  <1> SUFFICES ASSUME Init PROVE TypeOK
    OBVIOUS
  <1>1. sf \in Int
    BY FormatsAssumption DEF Init
  <1>2. cls_hdr \in [type : {0, 1, 4}, sf : Byte, topic : Seq(Char)] /\ Len(cls_hdr.topic) <= StringLen
    <2>1. cls_hdr \in [type : {0}, sf : {0}, topic : Topics]
      BY DEF Init
    <2>2. cls_hdr.topic \in Topics
      BY <2>1
    <2>3. Topics \subseteq Seq(Char) /\ Len(cls_hdr.topic) <= StringLen
      BY <2>2, FormatsAssumption
    <2> QED BY <2>1, <2>3, ByteType
  <1>3. input = Nothing /\ output.kind \in Kinds
    BY DEF Init, Nothing, Kinds
  <1> QED BY <1>1, <1>2, <1>3 DEF TypeOK

\* Every step keeps them.
LEMMA NextTyped == TypeOK /\ [Next]_vars => TypeOK'
  <1> SUFFICES ASSUME TypeOK, [Next]_vars PROVE TypeOK'
    OBVIOUS
  <1>1. ASSUME NEW line \in Lines, Type(line) PROVE TypeOK'
    BY <1>1 DEF Type, TypeOK
  <1>2. ASSUME NEW d \in Datagrams, NEW from \in Senders, Publish(d, from) PROVE TypeOK'
    BY <1>2 DEF Publish, TypeOK
  <1>3. CASE process_subscribe
    <2>1. Reading /\ sf' \in Flag(2) /\ Send(0, sf' % ByteSize, topic_typed)
      BY <1>3 DEF process_subscribe
    <2>2. sf' \in Int
      BY <2>1, FlagType
    <2>3. sf' % ByteSize \in Byte
      BY <2>2, ByteType
    <2> QED BY <2>1, <2>2, <2>3, LineRead, SendType
  <1>4. CASE process_unsubscribe
    <2> DEFINE topic == IF topic_typed = << >> THEN cls_hdr.topic ELSE topic_typed
    <2>1. Reading /\ sf' = sf /\ Send(1, cls_hdr.sf, topic)
      BY <1>4 DEF process_unsubscribe
    <2>2. cls_hdr.sf \in Byte /\ sf' \in Int /\ topic \in Seq(Char)
      BY <2>1, LineRead DEF TypeOK
    <2> HIDE DEF topic
    <2> QED BY <2>1, <2>2, SendType
  <1>5. CASE OtherCommand
    BY <1>5 DEF OtherCommand, TypeOK, Kinds
  <1>6. CASE ServerDies
    BY <1>6 DEF ServerDies, TypeOK, Kinds
  <1>7. CASE Show
    <2>1. cls_hdr' = [cls_hdr EXCEPT !.type = 4] /\ sf' = sf /\ input' = input
      BY <1>7 DEF Show
    <2>2. output'.kind \in {"ended", "ignored", "shown"}
      BY <1>7 DEF Show
    <2> QED BY <2>1, <2>2 DEF TypeOK, Kinds
  <1>8. CASE Loop
    BY <1>8 DEF Loop, TypeOK, Nothing, Kinds
  <1>9. CASE UNCHANGED vars
    BY <1>9 DEF vars, TypeOK
  <1> QED BY <1>1, <1>2, <1>3, <1>4, <1>5, <1>6, <1>7, <1>8, <1>9 DEF Next

\* Whatever is typed, pasted or published: the flag stays a number, its copy
\* in the header a byte, the topic there within its array, and every input is
\* answered in one of the known ways.
THEOREM TypeCorrect == Spec => []TypeOK
  BY InitTyped, NextTyped, PTL DEF Spec

-----------------------------------------------------------------------------
\* Headers.

\* What a known command that is not indented finds behind its word.
LEMMA KnownTopic ==
  ASSUME TypeOK, Reading, input.line.indent = 0
  PROVE  topic_typed = IF input.line.topic # << >> THEN input.line.topic
                       ELSE ScannedWord(input.line.more)
  BY LineRead, TopicScanned

\* Without anything there is no topic.
LEMMA NothingTyped == ScannedWord(<< >>) = << >>
  <1>1. Blank(<< >>)
    BY DEF Blank
  <1> QED BY <1>1, NoWord

\* Whether a command is one of the words, told by its beginning.
LEMMA Commands ==
  /\ ~Is(UNSUBSCRIBE, SUBSCRIBE)
  /\ ~Is(SUBSCRIBE, UNSUBSCRIBE)
  BY DEF Is, SUBSCRIBE, UNSUBSCRIBE, T!IsPrefix

\* A flag has one value at most.
LEMMA OneNumber ==
  ASSUME NEW s, NEW m \in ScannedNumber(s), NEW n \in ScannedNumber(s)
  PROVE  m = n
  <1> DEFINE w == SkipSpaces(s)
             d == Value(DigitsOf(Unsigned(w)))
             v == IF w[1] = "-" THEN -d ELSE d
  <1>1. ScannedNumber(s) \subseteq {v}
    BY DEF ScannedNumber
  <1> HIDE DEF v
  <1> QED BY <1>1

\* A line to subscribe becomes the header that it says.
LEMMA SubscribesAsTyped ==
  ASSUME TypeOK, process_subscribe, input.line.word \in {SUBSCRIBE, UNSUBSCRIBE},
         input.line.indent = 0, input.line.gap <= 2
  PROVE  /\ input.line.word = SUBSCRIBE
         /\ output'.header.type = 0
         /\ input.line.more = << >> \/ input.line.topic # << >>
              => output'.header.topic = Clipped(input.line.topic)
         /\ input.line.topic # << >> =>
              \A n \in ScannedNumber(input.line.flag) \cap (-Half)..(Half - 1) :
                output'.header.sf = n % ByteSize
         /\ input.line.flag = << >> /\ input.line.more = << >>
              => output'.header.sf = sf % ByteSize
  <1>1. PICK line \in Lines : line = input.line
    BY LineRead DEF process_subscribe
  <1>2. /\ Reading /\ Is(command, SUBSCRIBE)
        /\ sf' \in Flag(2)
        /\ output'.header = [type |-> 0, sf |-> sf' % ByteSize, topic |-> Clipped(topic_typed)]
    BY DEF process_subscribe, Send
  <1>3. command = line.word
    BY <1>1, <1>2, LineRead
  <1>4. line.word = SUBSCRIBE
    BY <1>1, <1>2, <1>3, Commands
  <1>5. topic_typed = IF line.topic # << >> THEN line.topic ELSE ScannedWord(line.more)
    BY <1>1, <1>2, KnownTopic
  <1>6. line.more = << >> \/ line.topic # << >> => topic_typed = line.topic
    BY <1>5, NothingTyped
  <1> DEFINE number == ScannedNumber(After(Chars(line), Len(line.word) + Len(line.topic) + 2))
  <1>7. ASSUME topic_typed = line.topic
        PROVE  Flag(2) = IF number = {} THEN {sf} ELSE {Stored(n) : n \in number}
    BY <1>1, <1>3, <1>7 DEF Flag, buffer
  <1>8. ASSUME line.topic # << >>, NEW n \in ScannedNumber(line.flag) \cap (-Half)..(Half - 1)
        PROVE  sf' = n
    <2>1. line.flag # << >>
      <3>1. Blank(<< >>)
        BY DEF Blank
      <3> QED BY <1>8, <3>1, NoNumber
    <2>2. number = ScannedNumber(line.flag)
      BY <1>1, <1>8, <2>1, FlagScanned
    <2> HIDE DEF number
    <2>3. sf' \in {Stored(y) : y \in number}
      BY <1>2, <1>6, <1>7, <1>8, <2>2
    <2>4. PICK y \in number : sf' = Stored(y)
      BY <2>3
    <2>5. y = n
      BY <1>8, <2>2, <2>4, OneNumber
    <2>6. Stored(n) = n
      <3>1. n \in Int
        BY <1>8, IntSizes
      <3> QED BY <1>8, <3>1, StoredIs
    <2> QED BY <2>4, <2>5, <2>6
  <1>9. ASSUME line.flag = << >>, line.more = << >>
        PROVE  sf' = sf
    <2>1. number = {}
      BY <1>1, <1>9, FlagMissing
    <2> HIDE DEF number
    <2>2. sf' \in {sf}
      BY <1>2, <1>6, <1>7, <1>9, <2>1
    <2> QED BY <2>2
  <1> HIDE DEF number
  <1>10. line.more = << >> \/ line.topic # << >> => output'.header.topic = Clipped(line.topic)
    BY <1>2, <1>6
  <1>11. line.topic # << >> =>
           \A n \in ScannedNumber(line.flag) \cap (-Half)..(Half - 1) :
             output'.header.sf = n % ByteSize
    BY <1>2, <1>8
  <1>12. line.flag = << >> /\ line.more = << >> => output'.header.sf = sf % ByteSize
    BY <1>2, <1>9
  <1>13. output'.header.type = 0
    BY <1>2
  <1> QED BY <1>1, <1>4, <1>10, <1>11, <1>12, <1>13

\* So does a line to unsubscribe.
LEMMA UnsubscribesAsTyped ==
  ASSUME TypeOK, process_unsubscribe, input.line.word \in {SUBSCRIBE, UNSUBSCRIBE},
         input.line.indent = 0, input.line.gap <= 2
  PROVE  /\ input.line.word = UNSUBSCRIBE
         /\ output'.header.type = 1
         /\ input.line.topic # << >> => output'.header.topic = Clipped(input.line.topic)
         /\ input.line.topic = << >> /\ input.line.flag = << >> /\ input.line.more = << >>
              => output'.header.topic = cls_hdr.topic
  <1>1. PICK line \in Lines : line = input.line
    BY LineRead DEF process_unsubscribe
  <1> DEFINE topic == IF topic_typed = << >> THEN cls_hdr.topic ELSE topic_typed
  <1>2. /\ Reading /\ Is(command, UNSUBSCRIBE)
        /\ output'.header = [type |-> 1, sf |-> cls_hdr.sf, topic |-> Clipped(topic)]
    BY DEF process_unsubscribe, Send
  <1>3. command = line.word
    BY <1>1, <1>2, LineRead
  <1>4. line.word = UNSUBSCRIBE
    BY <1>1, <1>2, <1>3, Commands
  <1>5. topic_typed = IF line.topic # << >> THEN line.topic ELSE ScannedWord(line.more)
    BY <1>1, <1>2, KnownTopic
  <1>6. line.topic # << >> => topic = line.topic
    BY <1>5
  <1>7. line.topic = << >> /\ line.more = << >> => topic = cls_hdr.topic
    BY <1>5, NothingTyped
  <1>8. Clipped(cls_hdr.topic) = cls_hdr.topic
    <2>1. cls_hdr.topic \in Seq(Char) /\ Len(cls_hdr.topic) <= StringLen
      BY DEF TypeOK
    <2> QED BY <2>1, ClippedType
  <1> HIDE DEF topic
  <1>9. output'.header.type = 1 /\ output'.header.topic = Clipped(topic)
    BY <1>2
  <1> QED BY <1>1, <1>4, <1>6, <1>7, <1>8, <1>9

\* Only these two steps send a header.
LEMMA NextSends ==
  ASSUME TypeOK, [Next]_vars, output = Nothing, output'.kind = "header"
  PROVE  process_subscribe \/ process_unsubscribe
  <1>1. ~(\E line \in Lines : Type(line))
    BY DEF Type, Nothing
  <1>2. ~(\E d \in Datagrams, from \in Senders : Publish(d, from))
    BY DEF Publish, Nothing
  <1>3. ~OtherCommand
    BY DEF OtherCommand
  <1>4. ~ServerDies
    BY DEF ServerDies
  <1>5. ~Show
    <2> SUFFICES ASSUME Show PROVE FALSE
      OBVIOUS
    <2>1. output'.kind \in {"ended", "ignored", "shown"}
      BY DEF Show
    <2> QED BY <2>1
  <1>6. ~Loop
    BY DEF Loop, Nothing
  <1>7. ~UNCHANGED vars
    BY DEF vars, Nothing
  <1> QED BY <1>1, <1>2, <1>3, <1>4, <1>5, <1>6, <1>7 DEF Next

\* A line that is not indented sends what it says, whatever was typed before
\* it and whatever has been typed after it.
THEOREM SendsAsTyped == Spec => HeaderAsTyped
  <1>1. TypeOK /\ [Next]_vars => SentAsTyped
    <2> SUFFICES ASSUME TypeOK, [Next]_vars, output = Nothing, output'.kind = "header",
                        input.line.word \in {SUBSCRIBE, UNSUBSCRIBE},
                        input.line.indent = 0, input.line.gap <= 2
                 PROVE  SentAsTyped
      BY DEF SentAsTyped
    <2>1. CASE process_subscribe
      <3>1. SUBSCRIBE # UNSUBSCRIBE
        BY DEF SUBSCRIBE, UNSUBSCRIBE
      <3> QED BY <2>1, <3>1, SubscribesAsTyped DEF SentAsTyped
    <2>2. CASE process_unsubscribe
      <3>1. SUBSCRIBE # UNSUBSCRIBE
        BY DEF SUBSCRIBE, UNSUBSCRIBE
      <3> QED BY <2>2, <3>1, UnsubscribesAsTyped DEF SentAsTyped
    <2> QED BY <2>1, <2>2, NextSends
  <1>2. TypeOK /\ [Next]_vars => [SentAsTyped]_vars
    BY <1>1
  <1> QED BY <1>2, TypeCorrect, PTL DEF Spec, HeaderAsTyped

-----------------------------------------------------------------------------
\* Limits.

\* A function over 1..n is a sequence of that length.
LEMMA Listed ==
  ASSUME NEW X, NEW n \in Nat, NEW f \in [1..n -> X]
  PROVE  f \in Seq(X) /\ Len(f) = n
  OBVIOUS

\* Nothing is answered before there is an input.
Paired == input = Nothing => output = Nothing

\* Every step keeps that.
LEMMA NextPaired == Paired /\ [Next]_vars => Paired'
  <1> SUFFICES ASSUME Paired, [Next]_vars PROVE Paired'
    OBVIOUS
  <1>1. CASE \E line \in Lines : Type(line)
    BY <1>1 DEF Type, Paired, Nothing
  <1>2. CASE \E d \in Datagrams, from \in Senders : Publish(d, from)
    BY <1>2 DEF Publish, Paired, Nothing
  <1>3. CASE process_subscribe \/ process_unsubscribe \/ OtherCommand
    BY <1>3 DEF process_subscribe, process_unsubscribe, OtherCommand, Send, Reading, Paired, Nothing
  <1>4. CASE ServerDies \/ Show
    BY <1>4 DEF ServerDies, Show, Arrived, Paired, Nothing
  <1>5. CASE Loop
    BY <1>5 DEF Loop, Paired
  <1>6. CASE UNCHANGED vars
    BY <1>6 DEF vars, Paired
  <1> QED BY <1>1, <1>2, <1>3, <1>4, <1>5, <1>6 DEF Next

\* The parts of LimitsKept for a line and for a datagram.
LineKept ==
  input.kind = "line" /\ output # Nothing =>
    \/ output.fits
    \/ Len(input.line.word) >= CommandLen
    \/ \E word \in {input.line.topic, ScannedWord(input.line.more)} : Len(word) >= StringLen
DatagramKept ==
  input.kind = "datagram" /\ output # Nothing =>
    \/ output.kind = "shown" /\ output.fits
    \/ datagram = << >> \/ TypeOf(datagram) > TEXT
    \/ TypeOf(datagram) = TEXT /\ Len(Text) > MaxLenBuf - HeaderLen

\* What a datagram is.
LEMMA DatagramRead ==
  ASSUME TypeOK, input.kind = "datagram"
  PROVE  /\ datagram \in Seq(Byte)
         /\ input.from.addr \in [1..4 -> Byte] /\ input.from.port \in [1..2 -> Byte]
  <1>1. datagram \in Datagrams /\ input.from \in Senders
    BY DEF TypeOK, datagram, Nothing
  <1>2. input.from \in [addr : [1..4 -> Byte], port : [1..2 -> Byte]]
    BY <1>1, FormatsAssumption
  <1> QED BY <1>1, <1>2, FormatsAssumption

\* The bytes at a place in the buffer the datagram is read into.
LEMMA FieldType ==
  ASSUME NEW d \in Seq(Byte), NEW k \in Nat, NEW n \in Nat
  PROVE  /\ Field(d, k, n) \in [1..n -> Byte]
         /\ \A i \in 1..n : Field(d, k, n)[i] = IF k + i <= Len(d) THEN d[k + i] ELSE 0
  <1>1. 0 \in Byte
    BY ByteType
  <1>2. ASSUME NEW i \in 1..n, k + i <= Len(d) PROVE d[k + i] \in Byte
    <2>1. k + i \in 1..Len(d)
      BY <1>2
    <2> QED BY <2>1
  <1> QED BY <1>1, <1>2 DEF Field

\* The type is a byte; if it is not 0 the datagram is long enough to have one.
LEMMA TypeOfType ==
  ASSUME NEW d \in Seq(Byte)
  PROVE  TypeOf(d) \in Byte /\ (TypeOf(d) # 0 => Len(d) >= StringLen + 1)
  <1>1. StringLen \in Nat
    BY PayloadAssumption
  <1>2. Field(d, StringLen, 1) \in [1..1 -> Byte]
    BY <1>1, FieldType
  <1>3. Field(d, StringLen, 1)[1] = IF StringLen + 1 <= Len(d) THEN d[StringLen + 1] ELSE 0
    BY <1>1, FieldType
  <1>4. Len(d) \in Nat
    OBVIOUS
  <1> QED BY <1>1, <1>2, <1>3, <1>4 DEF TypeOf

\* What is left of any integer by % ByteSize is a byte.
LEMMA Remainder ==
  ASSUME NEW n \in Int
  PROVE  n % ByteSize \in Byte
  BY PayloadAssumption DEF Byte

\* A number has as many bytes as it is stored in.
LEMMA BytesLength ==
  ASSUME NEW n, NEW size \in Nat
  PROVE  Len(Bytes(n, size)) = size
  <1> DEFINE F(rest) == [i \in 1..(size + 1) |-> IF i = 1 THEN n ELSE rest[i - 1] \div ByteSize]
  <1>1. PICK r : r = (CHOOSE rest : rest = F(rest))
    OBVIOUS
  <1>2. Bytes(n, size) = [i \in 1..size |-> r[i] % ByteSize]
    <2>1. Bytes(n, size) = [i \in 1..size |-> (CHOOSE rest : rest = F(rest))[i] % ByteSize]
      BY DEF Bytes
    <2> HIDE DEF F
    <2> QED BY <1>1, <2>1
  <1> DEFINE X == {r[i] % ByteSize : i \in 1..size}
  <1>3. Bytes(n, size) \in [1..size -> X]
    BY <1>2
  <1> HIDE DEF X
  <1> QED BY <1>3, Listed

\* How many bytes build_msg allocates and fills.
LEMMA DataLength ==
  ASSUME NEW d \in Seq(Byte)
  PROVE  /\ TypeOf(d) = INT => Len(Data(d)) = 4
         /\ TypeOf(d) = SHORT => Len(Data(d)) = 2
         /\ TypeOf(d) = FLOAT => Len(Data(d)) = 6
         /\ TypeOf(d) = TEXT => Len(Data(d)) = Len(SubSeq(d, StringLen + 2, Len(d)))
  <1>1. StringLen \in Nat /\ StringLen + 1 \in Nat /\ Len(d) \in Nat
    BY PayloadAssumption
  <1>2. ASSUME NEW n \in Nat PROVE Len(Behind(d, n)) = n
    <2>1. Behind(d, n) \in [1..n -> Byte]
      BY <1>1, FieldType DEF Behind
    <2> HIDE DEF Behind
    <2> QED BY <2>1, Listed
  <1>3. CASE TypeOf(d) = INT
    <2>1. Data(d) = IntData(d)
      BY <1>3 DEF Data, INT, SHORT, FLOAT, TEXT
    <2>2. Len(IntData(d)) = 4
      BY BytesLength DEF IntData
    <2> QED BY <1>3, <2>1, <2>2 DEF INT, SHORT, FLOAT, TEXT
  <1>4. CASE TypeOf(d) = SHORT
    <2>1. Data(d) = Behind(d, 2)
      BY <1>4 DEF Data, INT, SHORT, FLOAT, TEXT
    <2>2. Len(Data(d)) = 2
      BY <1>2, <2>1
    <2> QED BY <1>4, <2>2 DEF INT, SHORT, FLOAT, TEXT
  <1>5. CASE TypeOf(d) = FLOAT
    <2>1. Data(d) = Behind(d, 6)
      BY <1>5 DEF Data, INT, SHORT, FLOAT, TEXT
    <2>2. Len(Data(d)) = 6
      BY <1>2, <2>1
    <2> QED BY <1>5, <2>2 DEF INT, SHORT, FLOAT, TEXT
  <1>6. CASE TypeOf(d) = TEXT
    <2>1. Data(d) = Behind(d, Len(d) - StringLen - 1)
      BY <1>6 DEF Data, TextData, INT, SHORT, FLOAT, TEXT
    <2>2. Len(d) >= StringLen + 1
      BY <1>6, TypeOfType DEF TEXT
    <2>3. Len(d) - StringLen - 1 \in Nat
      BY <1>1, <2>2
    <2>4. Len(SubSeq(d, StringLen + 2, Len(d))) = Len(d) - StringLen - 1
      BY <1>1, <2>2
    <2>5. Len(Data(d)) = Len(SubSeq(d, StringLen + 2, Len(d)))
      BY <1>2, <2>1, <2>3, <2>4
    <2> QED BY <1>6, <2>5 DEF INT, SHORT, FLOAT, TEXT
  <1> QED BY <1>3, <1>4, <1>5, <1>6

\* What becomes of a line: it fits, or what was typed is too long.
LEMMA LineFits ==
  ASSUME TypeOK, Reading, output'.fits = Fits({topic_typed}) \/ output'.fits = Fits({})
  PROVE  \/ output'.fits
         \/ Len(input.line.word) >= CommandLen
         \/ \E word \in {input.line.topic, ScannedWord(input.line.more)} : Len(word) >= StringLen
  <1>1. PICK line \in Lines : line = input.line
    BY LineRead
  <1>2. PICK t \in Seq(Char) : t = topic_typed
    BY LineRead
  <1>3. command = line.word /\ t = ScannedWord(After(Chars(line), Len(line.word)))
    BY <1>1, <1>2, LineRead
  <1>4. Len(line.word) \in Nat /\ Len(t) \in Nat /\ CommandLen \in Nat /\ StringLen \in Nat
    <2>1. line.word \in Seq(Char)
      BY <1>1, LineType DEF Solid
    <2>2. Len(line.word) \in Nat /\ Len(t) \in Nat
      BY <1>2, <2>1
    <2> QED BY <2>2, PromptAssumption, PayloadAssumption
  <1>5. CASE Len(line.word) >= CommandLen
    BY <1>1, <1>5
  <1>6. CASE Len(line.word) < CommandLen /\ Len(t) >= StringLen
    <2>1. line.indent = 0
      <3> SUFFICES ASSUME line.indent # 0 PROVE FALSE
        OBVIOUS
      <3>1. Len(t) <= Len(line.word)
        BY <1>3, TopicMisread
      <3>2. CommandLen <= StringLen
        BY FormatsAssumption
      <3> QED BY <1>4, <1>6, <3>1, <3>2
    <2>2. t = IF line.topic # << >> THEN line.topic ELSE ScannedWord(line.more)
      BY <1>3, <2>1, TopicScanned
    <2> QED BY <1>1, <1>6, <2>2
  <1>7. CASE Len(line.word) < CommandLen /\ Len(t) < StringLen
    <2>1. Fits({topic_typed}) = TRUE /\ Fits({}) = TRUE
      BY <1>2, <1>3, <1>7 DEF Fits
    <2> QED BY <2>1
  <1> QED BY <1>4, <1>5, <1>6, <1>7

\* What becomes of a datagram.
LEMMA DatagramFits ==
  ASSUME TypeOK, Show, TypeOf(datagram) <= TEXT
  PROVE  /\ output'.kind = "shown"
         /\ TypeOf(datagram) # TEXT \/ Len(Text) <= MaxLenBuf - HeaderLen => output'.fits
  <1>1. input.kind = "datagram"
    BY DEF Show, Arrived
  <1>2. PICK d \in Seq(Byte) : d = datagram
    BY <1>1, DatagramRead
  <1>3. PICK m : m = build_msg(d)
    OBVIOUS
  <1>4. m.type = TypeOf(d) /\ m.data = Data(d)
    BY <1>3 DEF build_msg
  <1>5. TypeOf(d) \in Nat
    BY <1>2, TypeOfType, ByteType
  <1>6. output'.kind = "shown" /\ output'.fits = build_sentBuffer_fits(m)
    <2>1. ~(m.type > TEXT)
      BY <1>2, <1>4, <1>5 DEF TEXT
    <2> QED BY <1>2, <1>3, <2>1 DEF Show
  <1>7. TypeOf(d) \in {INT, SHORT, FLOAT, TEXT}
    BY <1>2, <1>5 DEF INT, SHORT, FLOAT, TEXT
  <1>8. CASE TypeOf(d) = TEXT
    <2>1. Len(Text) \in Nat /\ Len(m.data) = Len(Text)
      <3>1. SubSeq(d, StringLen + 2, Len(d)) \in Seq(Byte)
        BY PayloadAssumption
      <3> QED BY <1>2, <1>4, <1>8, <3>1, DataLength DEF Text
    <2>2. HeaderLen \in Nat /\ MaxLenBuf \in Nat
      BY PayloadAssumption
    <2>3. Len(Text) <= MaxLenBuf - HeaderLen => HeaderLen + Len(m.data) <= MaxLenBuf
      BY <2>1, <2>2
    <2> QED BY <1>2, <1>6, <1>8, <2>3 DEF build_sentBuffer_fits
  <1>9. CASE TypeOf(d) # TEXT
    <2>1. Len(m.data) \in {4, 2, 6}
      <3>1. m.data = Data(d) /\ (TypeOf(d) = INT \/ TypeOf(d) = SHORT \/ TypeOf(d) = FLOAT)
        BY <1>4, <1>7, <1>9
      <3> QED BY <1>2, <3>1, DataLength
    <2>2. PICK n : n = Len(m.data) /\ n \in Nat /\ n <= 6
      <3>1. PICK n : n = Len(m.data)
        OBVIOUS
      <3>2. n = 4 \/ n = 2 \/ n = 6
        BY <2>1, <3>1
      <3>3. n \in Nat
        BY <3>2
      <3>4. n <= 6
        BY <3>2, <3>3
      <3> QED BY <3>1, <3>3, <3>4
    <2>3. HeaderLen \in Nat /\ MaxLenBuf \in Nat /\ MaxLenBuf >= HeaderLen + 6
      BY PayloadAssumption
    <2>4. HeaderLen + n <= MaxLenBuf
      BY <2>2, <2>3
    <2> QED BY <1>6, <2>2, <2>4 DEF build_sentBuffer_fits
  <1> QED BY <1>8, <1>9

\* Every step keeps the limits.
LEMMA NextKept ==
  TypeOK /\ Paired /\ LineKept /\ DatagramKept /\ [Next]_vars
    => LineKept' /\ DatagramKept'
  <1> SUFFICES ASSUME TypeOK, Paired, LineKept, DatagramKept, [Next]_vars
               PROVE  LineKept' /\ DatagramKept'
    OBVIOUS
  <1>1. ASSUME NEW line \in Lines, Type(line) PROVE LineKept' /\ DatagramKept'
    BY <1>1 DEF Type, Paired, LineKept, DatagramKept, Nothing
  <1>2. ASSUME NEW d \in Datagrams, NEW from \in Senders, Publish(d, from)
        PROVE  LineKept' /\ DatagramKept'
    BY <1>2 DEF Publish, Paired, LineKept, DatagramKept, Nothing
  <1>3. ASSUME Reading, input' = input, output'.fits = Fits({topic_typed}) \/ output'.fits = Fits({})
        PROVE  LineKept' /\ DatagramKept'
    <2>1. input'.kind = "line" /\ input'.line = input.line /\ input' # Nothing
      BY <1>3 DEF Reading, Nothing
    <2>2. \/ output'.fits
          \/ Len(input.line.word) >= CommandLen
          \/ \E word \in {input.line.topic, ScannedWord(input.line.more)} : Len(word) >= StringLen
      BY <1>3, LineFits
    <2> QED BY <2>1, <2>2 DEF Paired, LineKept, DatagramKept
  <1>4. CASE process_subscribe
    BY <1>3, <1>4 DEF process_subscribe, Send
  <1>5. CASE process_unsubscribe
    BY <1>3, <1>5 DEF process_unsubscribe, Send
  <1>6. CASE OtherCommand
    BY <1>3, <1>6 DEF OtherCommand
  <1>7. ASSUME Arrived, input' = input,
               \/ output'.kind = "shown" /\ output'.fits
               \/ datagram = << >> \/ TypeOf(datagram) > TEXT
               \/ TypeOf(datagram) = TEXT /\ Len(Text) > MaxLenBuf - HeaderLen
        PROVE  LineKept' /\ DatagramKept'
    <2>1. input'.kind = "datagram" /\ input' # Nothing
      BY <1>7 DEF Arrived, Nothing
    <2>2. datagram' = datagram /\ Text' = Text
      BY <1>7 DEF datagram, Text
    <2> QED BY <1>7, <2>1, <2>2 DEF Paired, LineKept, DatagramKept
  <1>8. CASE ServerDies
    BY <1>7, <1>8 DEF ServerDies
  <1>9. CASE Show
    <2>1. datagram \in Seq(Byte) /\ TypeOf(datagram) \in Nat
      BY <1>9, DatagramRead, TypeOfType, ByteType DEF Show, Arrived
    <2>2. Len(Text) \in Nat /\ HeaderLen \in Nat /\ MaxLenBuf \in Nat
      <3>1. Text \in Seq(Byte)
        BY <2>1, PayloadAssumption DEF Text
      <3> QED BY <3>1, PayloadAssumption
    <2>3. Len(Text) <= MaxLenBuf - HeaderLen \/ Len(Text) > MaxLenBuf - HeaderLen
      BY <2>2
    <2>4. TypeOf(datagram) <= TEXT \/ TypeOf(datagram) > TEXT
      BY <2>1 DEF TEXT
    <2>5. Arrived /\ input' = input
      BY <1>9 DEF Show
    <2> QED BY <1>7, <1>9, <2>3, <2>4, <2>5, DatagramFits
  <1>10. CASE Loop
    BY <1>10 DEF Loop, Paired, LineKept, DatagramKept, Nothing
  <1>11. CASE UNCHANGED vars
    <2>1. datagram' = datagram /\ Text' = Text
      BY <1>11 DEF datagram, Text, vars
    <2> QED BY <1>11, <2>1 DEF vars, Paired, LineKept, DatagramKept
  <1> QED BY <1>1, <1>2, <1>4, <1>5, <1>6, <1>8, <1>9, <1>10, <1>11 DEF Next

\* For arrays of any size: nothing is written beyond one, and neither program
\* ends, but for a word, a topic or a text that is too long, or an empty or
\* unknown datagram.
THEOREM KeepsLimits == Spec => []LimitsKept
  <1>1. Init => Paired /\ LineKept /\ DatagramKept
    BY DEF Init, Paired, LineKept, DatagramKept, Nothing
  <1>2. LineKept /\ DatagramKept => LimitsKept
    BY DEF LineKept, DatagramKept, LimitsKept
  <1> QED BY <1>1, <1>2, NextPaired, NextKept, TypeCorrect, PTL DEF Spec

-----------------------------------------------------------------------------
\* Bytes as numbers.

\* The bytes of a number come off one at a time.
LEMMA OffAndOn ==
  ASSUME NEW r \in Byte, NEW q \in Int
  PROVE  (r + ByteSize * q) % ByteSize = r /\ (r + ByteSize * q) \div ByteSize = q
  BY PayloadAssumption, SMTT(30) DEF Byte

\* Another byte makes a number at most ByteSize times as large.
LEMMA Larger ==
  ASSUME NEW r \in Byte, NEW k \in Nat, NEW q \in 0..(k - 1)
  PROVE  r + ByteSize * q \in 0..(ByteSize * k - 1)
  BY PayloadAssumption, SMTT(30) DEF Byte

\* Any number is a byte and a number.
LEMMA Apart ==
  ASSUME NEW n \in Nat
  PROVE  /\ n % ByteSize \in Byte /\ n \div ByteSize \in Nat
         /\ n = (n % ByteSize) + ByteSize * (n \div ByteSize)
  BY PayloadAssumption, SMTT(30) DEF Byte

\* A smaller one without the byte.
LEMMA Smaller ==
  ASSUME NEW k \in Nat, NEW n \in 0..(ByteSize * k - 1)
  PROVE  n \div ByteSize \in 0..(k - 1)
  <1>1. PICK r \in Byte, q \in Nat : r = n % ByteSize /\ q = n \div ByteSize /\ n = r + ByteSize * q
    BY Apart
  <1>2. q <= k - 1
    <2> SUFFICES ASSUME q >= k PROVE FALSE
      BY <1>1
    <2>1. ByteSize * q >= ByteSize * k
      BY <1>1, PayloadAssumption, SMTT(30)
    <2> QED BY <1>1, <2>1, PayloadAssumption DEF Byte
  <1> QED BY <1>1, <1>2

\* Host adds the bytes from the last one to the first one.
LEMMA HostAdds ==
  ASSUME NEW b \in Seq(Byte)
  PROVE  \E f \in [1..(Len(b) + 1) -> Nat] :
            /\ Host(b) = f[1]
            /\ f[Len(b) + 1] = 0
            /\ \A i \in 1..Len(b) : f[i] = b[i] + ByteSize * f[i + 1]
  <1> DEFINE F(f) == [i \in 1..(Len(b) + 1) |-> IF i > Len(b) THEN 0 ELSE b[i] + ByteSize * f[i + 1]]
  <1>1. PICK n \in Nat : n = Len(b)
    OBVIOUS
  <1>2. PICK v : v = (CHOOSE f : f = F(f))
    OBVIOUS
  <1>3. Host(b) = v[1]
    <2>1. Host(b) = (CHOOSE f : f = F(f))[1]
      BY DEF Host
    <2> HIDE DEF F
    <2> QED BY <1>2, <2>1
  <1> DEFINE g == [p \in (1..n) \X Nat |-> b[n + 1 - p[1]] + ByteSize * p[2]]
  <1>4. g \in [(1..n) \X Nat -> Nat]
    <2>1. ASSUME NEW j \in 1..n, NEW y \in Nat PROVE b[n + 1 - j] + ByteSize * y \in Nat
      <3>1. PICK k \in 1..Len(b) : k = n + 1 - j
        <4>1. n + 1 - j \in 1..n
          BY <1>1
        <4> QED BY <1>1, <4>1
      <3>2. b[n + 1 - j] \in Nat
        <4>1. b[k] \in Byte
          BY <3>1
        <4> QED BY <3>1, <4>1, ByteType
      <3>3. ByteSize * y \in Nat
        BY ByteType
      <3> QED BY <3>2, <3>3
    <2> QED BY <2>1
  <1>5. PICK s \in [0..n -> Nat] : Follows(s, n, 0, g)
    <2> HIDE DEF g
    <2> QED BY <1>4, Solvable
  <1> DEFINE u == [i \in 1..(n + 1) |-> s[n + 1 - i]]
  <1>6. u \in [1..(n + 1) -> Nat]
    <2>1. \A i \in 1..(n + 1) : n + 1 - i \in 0..n
      OBVIOUS
    <2> QED BY <1>5, <2>1
  <1>7. u[n + 1] = 0 /\ \A i \in 1..n : u[i] = b[i] + ByteSize * u[i + 1]
    <2>1. u[n + 1] = s[0]
      BY <1>1
    <2>2. ASSUME NEW i \in 1..n PROVE u[i] = b[i] + ByteSize * u[i + 1]
      <3>1. PICK j \in 1..n : j = n + 1 - i /\ n + 1 - j = i /\ n + 1 - (i + 1) = j - 1
        OBVIOUS
      <3>2. PICK y \in Nat : y = s[j - 1]
        BY <1>5
      <3>3. g[<<j, y>>] = b[i] + ByteSize * y
        BY <3>1
      <3>4. s[j] = g[<<j, y>>]
        BY <1>5, <3>2 DEF Follows
      <3>5. u[i] = s[j] /\ u[i + 1] = s[j - 1]
        BY <3>1
      <3> QED BY <3>2, <3>3, <3>4, <3>5
    <2> QED BY <1>5, <2>1, <2>2 DEF Follows
  <1> HIDE DEF u, g
  <1>8. u = F(u)
    <2>1. \A i \in 1..(n + 1) : u[i] = IF i > n THEN 0 ELSE b[i] + ByteSize * u[i + 1]
      <3> TAKE i \in 1..(n + 1)
      <3>1. CASE i > n
        <4>1. i = n + 1
          BY <3>1
        <4> QED BY <1>7, <3>1, <4>1
      <3>2. CASE ~(i > n)
        <4>1. i \in 1..n
          BY <3>2
        <4> QED BY <1>7, <3>2, <4>1
      <3> QED BY <3>1, <3>2
    <2> QED BY <1>1, <1>6, <2>1
  <1>9. v = F(v)
    <2> HIDE DEF F
    <2> QED BY <1>2, <1>8
  <1>10. v[n + 1] = 0 /\ \A i \in 1..n : v[i] = b[i] + ByteSize * v[i + 1]
    <2>1. v[n + 1] = 0
      <3>1. n + 1 > n /\ n + 1 \in 1..(n + 1)
        BY <1>1
      <3> QED BY <1>1, <1>9, <3>1
    <2>2. ASSUME NEW i \in 1..n PROVE v[i] = b[i] + ByteSize * v[i + 1]
      <3>1. ~(i > n) /\ i \in 1..(n + 1)
        OBVIOUS
      <3> QED BY <1>1, <1>9, <3>1
    <2> QED BY <2>1, <2>2
  <1> DEFINE J == {j \in Nat : j <= n => v[n + 1 - j] = u[n + 1 - j]}
  <1>11. 0 \in J
    BY <1>7, <1>10
  <1>12. ASSUME NEW j \in Nat, j \in J PROVE j + 1 \in J
    <2>1. ASSUME j + 1 <= n PROVE v[n + 1 - (j + 1)] = u[n + 1 - (j + 1)]
      <3>1. PICK i \in 1..n : i = n + 1 - (j + 1) /\ i + 1 = n + 1 - j
        BY <1>1, <2>1
      <3>2. v[i + 1] = u[i + 1]
        BY <1>12, <2>1, <3>1
      <3> QED BY <1>7, <1>10, <3>1, <3>2
    <2>2. PICK k \in Nat : k = j + 1
      OBVIOUS
    <2>3. k <= n => v[n + 1 - k] = u[n + 1 - k]
      BY <2>1, <2>2
    <2>4. k \in J
      BY <2>3
    <2> QED BY <2>2, <2>4
  <1> HIDE DEF J
  <1>13. n \in J
    BY <1>11, <1>12, Naturals
  <1>14. v[1] = u[1]
    BY <1>13 DEF J
  <1> QED BY <1>1, <1>3, <1>6, <1>7, <1>14

\* Bytes takes them off a number from the first one to the last one.
LEMMA BytesTake ==
  ASSUME NEW n \in Nat, NEW size \in Nat
  PROVE  \E r \in [1..(size + 1) -> Nat] :
            /\ Bytes(n, size) = [i \in 1..size |-> r[i] % ByteSize]
            /\ r[1] = n
            /\ \A i \in 1..size : r[i + 1] = r[i] \div ByteSize
  <1> DEFINE F(rest) == [i \in 1..(size + 1) |-> IF i = 1 THEN n ELSE rest[i - 1] \div ByteSize]
  <1>1. PICK v : v = (CHOOSE rest : rest = F(rest))
    OBVIOUS
  <1>2. Bytes(n, size) = [i \in 1..size |-> v[i] % ByteSize]
    <2>1. Bytes(n, size) = [i \in 1..size |-> (CHOOSE rest : rest = F(rest))[i] % ByteSize]
      BY DEF Bytes
    <2> HIDE DEF F
    <2> QED BY <1>1, <2>1
  <1> DEFINE g == [p \in (1..size) \X Nat |-> p[2] \div ByteSize]
  <1>3. g \in [(1..size) \X Nat -> Nat]
    <2>1. ASSUME NEW y \in Nat PROVE y \div ByteSize \in Nat
      BY Apart
    <2> QED BY <2>1
  <1>4. PICK s \in [0..size -> Nat] : Follows(s, size, n, g)
    <2> HIDE DEF g
    <2> QED BY <1>3, Solvable
  <1> DEFINE u == [i \in 1..(size + 1) |-> s[i - 1]]
  <1>5. u \in [1..(size + 1) -> Nat]
    BY <1>4
  <1>6. u[1] = n /\ \A i \in 1..size : u[i + 1] = u[i] \div ByteSize
    <2>1. u[1] = n
      BY <1>4 DEF Follows
    <2>2. ASSUME NEW i \in 1..size PROVE u[i + 1] = u[i] \div ByteSize
      <3>1. PICK y \in Nat : y = s[i - 1]
        BY <1>4
      <3>2. g[<<i, y>>] = y \div ByteSize
        OBVIOUS
      <3>3. s[i] = g[<<i, y>>]
        BY <1>4, <3>1 DEF Follows
      <3>4. u[i + 1] = s[i] /\ u[i] = s[i - 1]
        OBVIOUS
      <3> QED BY <3>1, <3>2, <3>3, <3>4
    <2> QED BY <2>1, <2>2
  <1> HIDE DEF u, g
  <1>7. u = F(u)
    <2>1. \A i \in 1..(size + 1) : u[i] = IF i = 1 THEN n ELSE u[i - 1] \div ByteSize
      <3> TAKE i \in 1..(size + 1)
      <3>1. CASE i = 1
        BY <1>6, <3>1
      <3>2. CASE i # 1
        <4>1. PICK j \in 1..size : j = i - 1 /\ j + 1 = i
          BY <3>2
        <4>2. u[j + 1] = u[j] \div ByteSize
          BY <1>6
        <4> QED BY <3>2, <4>1, <4>2
      <3> QED BY <3>1, <3>2
    <2> QED BY <1>5, <2>1
  <1>8. v = F(v)
    <2> HIDE DEF F
    <2> QED BY <1>1, <1>7
  <1>9. v[1] = n /\ \A i \in 1..size : v[i + 1] = v[i] \div ByteSize
    <2>1. v[1] = n
      BY <1>8
    <2>2. ASSUME NEW i \in 1..size PROVE v[i + 1] = v[i] \div ByteSize
      <3>1. i + 1 \in 1..(size + 1) /\ i + 1 # 1 /\ (i + 1) - 1 = i
        OBVIOUS
      <3> QED BY <1>8, <3>1
    <2> QED BY <2>1, <2>2
  <1> DEFINE J == {i \in Nat : i <= size => v[i + 1] = u[i + 1]}
  <1>10. 0 \in J
    BY <1>6, <1>9
  <1>11. ASSUME NEW i \in Nat, i \in J PROVE i + 1 \in J
    <2> SUFFICES ASSUME i + 1 <= size PROVE v[(i + 1) + 1] = u[(i + 1) + 1]
      OBVIOUS
    <2>1. PICK j \in 1..size : j = i + 1
      OBVIOUS
    <2>2. v[j] = u[j]
      BY <1>11, <2>1
    <2> QED BY <1>6, <1>9, <2>1, <2>2
  <1> HIDE DEF J
  <1>12. \A i \in Nat : i \in J
    BY <1>10, <1>11, Naturals
  <1>13. ASSUME NEW i \in 1..size PROVE v[i] = u[i]
    <2>1. i - 1 \in Nat /\ i - 1 <= size /\ (i - 1) + 1 = i
      OBVIOUS
    <2> QED BY <1>12, <2>1 DEF J
  <1>14. Bytes(n, size) = [i \in 1..size |-> u[i] % ByteSize]
    BY <1>2, <1>13
  <1> QED BY <1>5, <1>6, <1>14

\* A number made of bytes is stored in the same bytes.
LEMMA HostStored ==
  ASSUME NEW b \in Seq(Byte)
  PROVE  Host(b) \in Nat /\ Bytes(Host(b), Len(b)) = b
  <1>1. PICK n \in Nat : n = Len(b)
    OBVIOUS
  <1>2. PICK f \in [1..(n + 1) -> Nat] :
            Host(b) = f[1] /\ \A i \in 1..n : f[i] = b[i] + ByteSize * f[i + 1]
    BY <1>1, HostAdds
  <1>3. Host(b) \in Nat
    BY <1>2
  <1>4. PICK r \in [1..(n + 1) -> Nat] :
            /\ Bytes(Host(b), n) = [i \in 1..n |-> r[i] % ByteSize]
            /\ r[1] = Host(b)
            /\ \A i \in 1..n : r[i + 1] = r[i] \div ByteSize
    BY <1>3, BytesTake
  <1>5. ASSUME NEW i \in 1..n PROVE f[i] % ByteSize = b[i] /\ f[i] \div ByteSize = f[i + 1]
    <2>1. PICK x \in Byte, y \in Nat : x = b[i] /\ y = f[i + 1]
      <3>1. i \in 1..Len(b) /\ i + 1 \in 1..(n + 1)
        BY <1>1
      <3> QED BY <1>2, <3>1
    <2>2. f[i] = x + ByteSize * y
      BY <1>2, <2>1
    <2> QED BY <2>1, <2>2, OffAndOn
  <1> DEFINE J == {j \in Nat : j <= n => r[j + 1] = f[j + 1]}
  <1>6. 0 \in J
    BY <1>2, <1>4
  <1>7. ASSUME NEW j \in Nat, j \in J PROVE j + 1 \in J
    <2>1. PICK k \in Nat : k = j + 1
      OBVIOUS
    <2>2. ASSUME k <= n PROVE r[k + 1] = f[k + 1]
      <3>1. k \in 1..n /\ r[k] = f[k]
        BY <1>7, <2>1, <2>2
      <3> QED BY <1>4, <1>5, <3>1
    <2>3. k \in J
      BY <2>2
    <2> QED BY <2>1, <2>3
  <1> HIDE DEF J
  <1>8. \A j \in Nat : j \in J
    BY <1>6, <1>7, Naturals
  <1>9. ASSUME NEW i \in 1..n PROVE r[i] % ByteSize = b[i]
    <2>1. i - 1 \in Nat /\ i - 1 <= n /\ (i - 1) + 1 = i
      OBVIOUS
    <2>2. r[i] = f[i]
      BY <1>8, <2>1 DEF J
    <2> QED BY <1>5, <2>2
  <1>10. Bytes(Host(b), n) = [i \in 1..n |-> b[i]]
    BY <1>4, <1>9
  <1>11. b = [i \in 1..n |-> b[i]]
    BY <1>1
  <1> QED BY <1>1, <1>3, <1>10, <1>11

\* An int has four bytes, a short two.
LEMMA FourAndTwo ==
  /\ \A b \in [1..4 -> Byte] : b \in Seq(Byte) /\ Len(b) = 4
  /\ \A b \in [1..2 -> Byte] : b \in Seq(Byte) /\ Len(b) = 2
  <1>1. ASSUME NEW n \in Nat, NEW b \in [1..n -> Byte] PROVE b \in Seq(Byte) /\ Len(b) = n
    BY Listed
  <1>2. 4 \in Nat /\ 2 \in Nat
    OBVIOUS
  <1> QED BY <1>1, <1>2, Zenon

\* How Host adds four bytes.
LEMMA FourAdded ==
  ASSUME NEW b \in [1..4 -> Byte]
  PROVE  \E f \in [1..5 -> Nat] :
            /\ Host(b) = f[1]
            /\ f[5] = 0
            /\ \A i \in 1..4 : f[i] = b[i] + ByteSize * f[i + 1]
  <1>1. PICK n \in Nat : n = Len(b)
    BY FourAndTwo
  <1>2. n = 4 /\ b \in Seq(Byte)
    BY <1>1, FourAndTwo
  <1>3. PICK f \in [1..(n + 1) -> Nat] :
            /\ Host(b) = f[1]
            /\ f[n + 1] = 0
            /\ \A i \in 1..n : f[i] = b[i] + ByteSize * f[i + 1]
    BY <1>1, <1>2, HostAdds
  <1>4. n + 1 = 5
    BY <1>2
  <1> QED BY <1>2, <1>3, <1>4

\* A number that an unsigned int can hold is what its four bytes make.
LEMMA IntStored ==
  ASSUME NEW n \in 0..(IntSize - 1)
  PROVE  Bytes(n, 4) \in [1..4 -> Byte] /\ Host(Bytes(n, 4)) = n
  <1>1. ByteSize \in Nat /\ IntSize \in Nat /\ n \in Nat
    <2>1. ByteSize \in Nat
      BY PayloadAssumption
    <2>2. IntSize \in Nat
      BY <2>1 DEF IntSize
    <2> QED BY <2>1, <2>2
  <1>2. PICK r \in [1..5 -> Nat] :
            /\ Bytes(n, 4) = [i \in 1..4 |-> r[i] % ByteSize]
            /\ r[1] = n
            /\ \A i \in 1..4 : r[i + 1] = r[i] \div ByteSize
    <2>1. PICK size \in Nat : size = 4
      OBVIOUS
    <2>2. PICK r \in [1..(size + 1) -> Nat] :
              /\ Bytes(n, size) = [i \in 1..size |-> r[i] % ByteSize]
              /\ r[1] = n
              /\ \A i \in 1..size : r[i + 1] = r[i] \div ByteSize
      BY <1>1, BytesTake
    <2>3. size + 1 = 5
      BY <2>1
    <2> QED BY <2>1, <2>2, <2>3
  <1>3. PICK c : c = Bytes(n, 4)
    OBVIOUS
  <1>4. c \in [1..4 -> Byte] /\ \A i \in 1..4 : c[i] = r[i] % ByteSize
    <2>1. \A i \in 1..4 : r[i] % ByteSize \in Byte
      BY <1>2, ByteType
    <2> QED BY <1>2, <1>3, <2>1
  <1>6. PICK f \in [1..5 -> Nat] :
            /\ Host(c) = f[1]
            /\ f[5] = 0
            /\ \A i \in 1..4 : f[i] = c[i] + ByteSize * f[i + 1]
    BY <1>4, FourAdded
  <1>7. ASSUME NEW i \in 1..4 PROVE r[i] = c[i] + ByteSize * r[i + 1]
    <2>1. PICK q \in Nat : q = r[i]
      BY <1>2
    <2>2. q = (q % ByteSize) + ByteSize * (q \div ByteSize)
      BY Apart
    <2> QED BY <1>2, <1>4, <2>1, <2>2
  <1>8. r[5] = 0
    <2> DEFINE k == ByteSize * ByteSize
               m == ByteSize * k
    <2>1. k \in Nat /\ m \in Nat /\ IntSize = ByteSize * m
      BY <1>1 DEF IntSize
    <2>2. k = ByteSize * ByteSize /\ m = ByteSize * k /\ ByteSize = ByteSize * 1
      BY <1>1
    <2> HIDE DEF k, m
    <2>3. r[2] \in 0..(m - 1)
      <3>1. n \in 0..(ByteSize * m - 1)
        BY <2>1
      <3>2. n \div ByteSize \in 0..(m - 1)
        BY <2>1, <3>1, Smaller
      <3> QED BY <1>2, <3>2
    <2>4. r[3] \in 0..(k - 1)
      <3>1. r[2] \div ByteSize \in 0..(k - 1)
        BY <2>1, <2>2, <2>3, Smaller
      <3> QED BY <1>2, <3>1
    <2>5. r[4] \in 0..(ByteSize - 1)
      <3>1. r[3] \div ByteSize \in 0..(ByteSize - 1)
        BY <1>1, <2>2, <2>4, Smaller
      <3> QED BY <1>2, <3>1
    <2>6. r[5] \in 0..(1 - 1)
      <3>1. r[4] \div ByteSize \in 0..(1 - 1)
        BY <2>2, <2>5, Smaller
      <3> QED BY <1>2, <3>1
    <2> QED BY <2>6
  <1>9. f[1] = r[1]
    <2>1. f[4] = r[4]
      BY <1>6, <1>7, <1>8
    <2>2. f[3] = r[3]
      BY <1>6, <1>7, <2>1
    <2>3. f[2] = r[2]
      BY <1>6, <1>7, <2>2
    <2> QED BY <1>6, <1>7, <2>3
  <1> QED BY <1>2, <1>3, <1>4, <1>6, <1>9

\* Four bytes make a number that an unsigned int can hold.
LEMMA IntRange ==
  ASSUME NEW b \in [1..4 -> Byte]
  PROVE  Host(b) \in 0..(IntSize - 1)
  <1>2. ByteSize \in Nat
    BY PayloadAssumption
  <1>3. PICK f \in [1..5 -> Nat] :
            /\ Host(b) = f[1]
            /\ f[5] = 0
            /\ \A i \in 1..4 : f[i] = b[i] + ByteSize * f[i + 1]
    BY FourAdded
  <1> DEFINE k == ByteSize * ByteSize
             m == ByteSize * k
  <1>4. k \in Nat /\ m \in Nat /\ IntSize = ByteSize * m
    BY <1>2 DEF IntSize
  <1>5. k = ByteSize * ByteSize /\ m = ByteSize * k /\ ByteSize = ByteSize * 1
    BY <1>2
  <1> HIDE DEF k, m
  <1>6. b[1] \in Byte /\ b[2] \in Byte /\ b[3] \in Byte /\ b[4] \in Byte
    OBVIOUS
  <1>7. f[5] \in 0..(1 - 1)
    BY <1>3
  <1>8. f[4] \in 0..(ByteSize - 1)
    <2>1. b[4] + ByteSize * f[5] \in 0..(ByteSize * 1 - 1)
      BY <1>6, <1>7, Larger
    <2> QED BY <1>3, <1>5, <2>1
  <1>9. f[3] \in 0..(k - 1)
    <2>1. b[3] + ByteSize * f[4] \in 0..(ByteSize * ByteSize - 1)
      BY <1>2, <1>6, <1>8, Larger
    <2> QED BY <1>3, <1>5, <2>1
  <1>10. f[2] \in 0..(m - 1)
    <2>1. b[2] + ByteSize * f[3] \in 0..(ByteSize * k - 1)
      BY <1>4, <1>6, <1>9, Larger
    <2> QED BY <1>3, <1>5, <2>1
  <1>11. f[1] \in 0..(IntSize - 1)
    <2>1. b[1] + ByteSize * f[2] \in 0..(ByteSize * m - 1)
      BY <1>4, <1>6, <1>10, Larger
    <2> QED BY <1>3, <1>4, <2>1
  <1> QED BY <1>3, <1>11

\* The other order.
LEMMA Reversed ==
  ASSUME NEW b \in Seq(Byte)
  PROVE  /\ S!Reverse(b) \in [1..Len(b) -> Byte]
         /\ \A i \in 1..Len(b) : S!Reverse(b)[i] = b[Len(b) + 1 - i]
         /\ S!Reverse(S!Reverse(b)) = b
  <1>1. PICK n \in Nat : n = Len(b)
    OBVIOUS
  <1>2. \A i \in 1..n : n + 1 - i \in 1..n /\ (n - i) + 1 = n + 1 - i
    BY <1>1
  <1>3. PICK c : c = S!Reverse(b)
    OBVIOUS
  <1>4. c = [i \in 1..n |-> b[(n - i) + 1]]
    BY <1>1, <1>3 DEF S!Reverse
  <1>5. c \in [1..n -> Byte] /\ \A i \in 1..n : c[i] = b[n + 1 - i]
    BY <1>1, <1>2, <1>4
  <1>6. Len(c) = n
    BY <1>5, Listed
  <1>7. S!Reverse(c) = [i \in 1..n |-> c[(n - i) + 1]]
    BY <1>6 DEF S!Reverse
  <1>8. ASSUME NEW i \in 1..n PROVE c[(n - i) + 1] = b[i]
    <2>1. PICK j \in 1..n : j = (n - i) + 1 /\ n + 1 - j = i
      BY <1>2
    <2> QED BY <1>5, <2>1
  <1>9. S!Reverse(c) = [i \in 1..n |-> b[i]]
    BY <1>7, <1>8
  <1>10. b = [i \in 1..n |-> b[i]]
    BY <1>1
  <1> QED BY <1>1, <1>3, <1>5, <1>9, <1>10

\* ntoh and hton read the bytes in the other order.
LEMMA OtherOrder ==
  ASSUME NEW b \in Seq(Byte)
  PROVE  ntoh(Host(b), Len(b)) = Host(S!Reverse(b))
  BY HostStored DEF ntoh

\* BigEndian adds the bytes from the first one to the last one.
LEMMA BigEndianAdds ==
  ASSUME NEW b \in Seq(Byte)
  PROVE  \E f \in [0..Len(b) -> Nat] :
            /\ BigEndian(b) = f[Len(b)]
            /\ f[0] = 0
            /\ \A i \in 1..Len(b) : f[i] = ByteSize * f[i - 1] + b[i]
  <1> DEFINE F(f) == [i \in 0..Len(b) |-> IF i = 0 THEN 0 ELSE ByteSize * f[i - 1] + b[i]]
  <1>1. PICK n \in Nat : n = Len(b)
    OBVIOUS
  <1>2. PICK v : v = (CHOOSE f : f = F(f))
    OBVIOUS
  <1>3. BigEndian(b) = v[n]
    <2>1. BigEndian(b) = (CHOOSE f : f = F(f))[Len(b)]
      BY DEF BigEndian
    <2> HIDE DEF F
    <2> QED BY <1>1, <1>2, <2>1
  <1> DEFINE g == [p \in (1..n) \X Nat |-> ByteSize * p[2] + b[p[1]]]
  <1>4. g \in [(1..n) \X Nat -> Nat]
    <2>1. ASSUME NEW j \in 1..n, NEW y \in Nat PROVE ByteSize * y + b[j] \in Nat
      <3>1. b[j] \in Byte
        BY <1>1
      <3>2. PICK x \in Nat : x = b[j]
        BY <3>1, ByteType
      <3>3. ByteSize * y \in Nat
        BY ByteType
      <3> QED BY <3>2, <3>3
    <2> QED BY <2>1
  <1>5. PICK s \in [0..n -> Nat] : Follows(s, n, 0, g)
    <2> HIDE DEF g
    <2> QED BY <1>4, Solvable
  <1>6. s[0] = 0 /\ \A i \in 1..n : s[i] = ByteSize * s[i - 1] + b[i]
    <2>1. ASSUME NEW i \in 1..n PROVE s[i] = ByteSize * s[i - 1] + b[i]
      <3>1. PICK y \in Nat : y = s[i - 1]
        BY <1>5
      <3>2. g[<<i, y>>] = ByteSize * y + b[i]
        OBVIOUS
      <3>3. s[i] = g[<<i, y>>]
        BY <1>5, <3>1 DEF Follows
      <3> QED BY <3>1, <3>2, <3>3
    <2> QED BY <1>5, <2>1 DEF Follows
  <1> HIDE DEF g
  <1>7. s = F(s)
    <2>1. \A i \in 0..n : s[i] = IF i = 0 THEN 0 ELSE ByteSize * s[i - 1] + b[i]
      BY <1>6
    <2> QED BY <1>1, <1>5, <2>1
  <1>8. v = F(v)
    <2> HIDE DEF F
    <2> QED BY <1>2, <1>7
  <1>9. v[0] = 0 /\ \A i \in 1..n : v[i] = ByteSize * v[i - 1] + b[i]
    BY <1>1, <1>8
  <1> DEFINE J == {i \in Nat : i <= n => v[i] = s[i]}
  <1>10. 0 \in J
    BY <1>6, <1>9
  <1>11. ASSUME NEW i \in Nat, i \in J PROVE i + 1 \in J
    <2>1. PICK k \in Nat : k = i + 1 /\ k - 1 = i
      OBVIOUS
    <2>2. ASSUME k <= n PROVE v[k] = s[k]
      <3>1. k \in 1..n /\ v[k - 1] = s[k - 1]
        BY <1>11, <2>1, <2>2
      <3> QED BY <1>6, <1>9, <3>1
    <2>3. k \in J
      BY <2>2
    <2> QED BY <2>1, <2>3
  <1> HIDE DEF J
  <1>12. n \in J
    BY <1>10, <1>11, Naturals
  <1>13. v[n] = s[n]
    BY <1>12 DEF J
  <1> QED BY <1>1, <1>3, <1>5, <1>6, <1>13

\* The network's order read the host's way, from the other end.
LEMMA NetworkOrder ==
  ASSUME NEW b \in Seq(Byte)
  PROVE  /\ BigEndian(b) \in Nat
         /\ BigEndian(b) = Host(S!Reverse(b))
         /\ ntoh(Host(b), Len(b)) = BigEndian(b)
  <1>1. PICK n \in Nat : n = Len(b)
    OBVIOUS
  <1>2. PICK c : c = S!Reverse(b)
    OBVIOUS
  <1>3. c \in [1..n -> Byte] /\ \A i \in 1..n : c[i] = b[n + 1 - i]
    BY <1>1, <1>2, Reversed
  <1>4. c \in Seq(Byte) /\ Len(c) = n
    BY <1>3, Listed
  <1>5. PICK f \in [0..n -> Nat] :
            /\ BigEndian(b) = f[n]
            /\ f[0] = 0
            /\ \A i \in 1..n : f[i] = ByteSize * f[i - 1] + b[i]
    BY <1>1, BigEndianAdds
  <1>6. PICK h \in [1..(n + 1) -> Nat] :
            /\ Host(c) = h[1]
            /\ h[n + 1] = 0
            /\ \A i \in 1..n : h[i] = c[i] + ByteSize * h[i + 1]
    BY <1>4, HostAdds
  <1> DEFINE J == {i \in Nat : i <= n => f[i] = h[n + 1 - i]}
  <1>7. 0 \in J
    <2>1. n + 1 - 0 = n + 1
      OBVIOUS
    <2> QED BY <1>5, <1>6, <2>1
  <1>8. ASSUME NEW i \in Nat, i \in J PROVE i + 1 \in J
    <2>1. PICK k \in Nat : k = i + 1 /\ k - 1 = i
      OBVIOUS
    <2>2. ASSUME k <= n PROVE f[k] = h[n + 1 - k]
      <3>1. PICK j \in 1..n : j = n + 1 - k /\ j + 1 = n + 1 - i /\ n + 1 - j = k
        <4>1. n + 1 - k \in 1..n
          BY <2>1, <2>2
        <4> QED BY <2>1, <4>1
      <3>2. k \in 1..n /\ f[k - 1] = h[j + 1]
        BY <1>8, <2>1, <2>2, <3>1
      <3>3. c[j] = b[k]
        BY <1>3, <3>1
      <3>4. f[k] = ByteSize * f[k - 1] + b[k]
        BY <1>5, <3>2
      <3>5. h[j] = b[k] + ByteSize * f[k - 1]
        BY <1>6, <3>1, <3>2, <3>3
      <3>6. PICK x \in Nat, y \in Nat : x = b[k] /\ y = ByteSize * f[k - 1]
        <4>1. b[k] \in Byte
          BY <1>1, <3>2
        <4>2. PICK z \in Nat : z = f[k - 1]
          BY <1>5, <3>2
        <4>3. PICK y \in Nat : y = ByteSize * z
          BY ByteType
        <4>4. y = ByteSize * f[k - 1] /\ b[k] \in Nat
          BY <4>1, <4>2, <4>3, ByteType
        <4> QED BY <4>3, <4>4
      <3>7. f[k] = y + x /\ h[j] = x + y
        BY <3>4, <3>5, <3>6
      <3>8. y + x = x + y
        BY <3>6
      <3>9. f[k] = h[j]
        BY <3>7, <3>8
      <3> QED BY <3>1, <3>9
    <2>3. k \in J
      BY <2>2
    <2> QED BY <2>1, <2>3
  <1> HIDE DEF J
  <1>9. n \in J
    BY <1>7, <1>8, Naturals
  <1>10. f[n] = h[1]
    <2>1. n + 1 - n = 1
      OBVIOUS
    <2> QED BY <1>9, <2>1 DEF J
  <1>11. BigEndian(b) \in Nat
    BY <1>5
  <1>12. ntoh(Host(b), Len(b)) = Host(c)
    BY <1>2, OtherOrder
  <1> QED BY <1>2, <1>5, <1>6, <1>10, <1>11, <1>12

\* The two conversions of four bytes bring a number back.
LEMMA BackAgain ==
  ASSUME NEW b \in [1..4 -> Byte]
  PROVE  /\ Bytes(hton(Host(b), 4), 4) = S!Reverse(b)
         /\ Bytes(ntoh(hton(Host(b), 4), 4), 4) = b
  <1>1. b \in Seq(Byte) /\ Len(b) = 4
    BY FourAndTwo
  <1>2. PICK c : c = S!Reverse(b) /\ c \in [1..4 -> Byte] /\ S!Reverse(c) = b
    BY <1>1, Reversed
  <1>3. c \in Seq(Byte) /\ Len(c) = 4
    BY <1>2, FourAndTwo
  <1>4. hton(Host(b), 4) = Host(c)
    BY <1>1, <1>2, OtherOrder DEF hton
  <1>5. Bytes(Host(c), 4) = c
    BY <1>3, HostStored
  <1>6. ntoh(Host(c), 4) = Host(b)
    BY <1>2, <1>3, OtherOrder
  <1>7. Bytes(Host(b), 4) = b
    BY <1>1, HostStored
  <1> QED BY <1>2, <1>4, <1>5, <1>6, <1>7

-----------------------------------------------------------------------------
\* Signs.

\* Reading a number as an int changes it by a multiple of IntSize.
LEMMA SignedShifts ==
  ASSUME NEW x \in Int
  PROVE  \E q \in Int : Signed(x) = x + IntSize * q
  <1>1. PICK m \in Nat \ {0} : m = IntSize
    BY IntSizes
  <1>2. PICK h \in Nat : h = Half
    BY IntSizes
  <1> DEFINE y == x + h
  <1>3. y \in Int
    BY <1>2
  <1> HIDE DEF y
  <1>4. PICK r \in Int : r = y % m
    <2>1. y % m \in 0..(m - 1)
      BY <1>1, <1>3, Congruent
    <2> QED BY <2>1
  <1>5. PICK q \in Int : y = r + m * q
    <2>1. \E q \in Int : y = (y % m) + m * q
      BY <1>1, <1>3, Congruent
    <2> QED BY <1>4, <2>1, Zenon
  <1>6. PICK p \in Int : p = m * q /\ m * (-q) = -p
    BY SMTT(30)
  <1>7. Signed(x) = r - h
    BY <1>1, <1>2, <1>4 DEF Signed, y
  <1>8. r - h = x + (-p)
    BY <1>2, <1>4, <1>5, <1>6 DEF y
  <1>9. Signed(x) = x + m * (-q) /\ -q \in Int
    BY <1>6, <1>7, <1>8
  <1> QED BY <1>1, <1>9

\* An unsigned int, read as an int, given a sign, stored as an unsigned int and
\* read again is the number with that sign, if an int can hold it.
LEMMA SignPut ==
  ASSUME NEW x \in Nat, x \in (-Half)..(Half - 1)
  PROVE  Signed(Signed(x) % IntSize) = x
  <1>1. PICK m \in Nat \ {0} : m = IntSize
    BY IntSizes
  <1>2. PICK q \in Int : Signed(x) = x + m * q
    <2>1. \E q \in Int : Signed(x) = x + IntSize * q
      BY SignedShifts
    <2> QED BY <1>1, <2>1, Zenon
  <1>3. PICK s \in Int : s = Signed(x)
    BY <1>2
  <1>4. PICK r \in Int : r = s % m
    <2>1. s % m \in 0..(m - 1)
      BY <1>1, <1>3, Congruent
    <2> QED BY <2>1
  <1>5. PICK p \in Int : s = r + m * p
    <2>1. \E p \in Int : s = (s % m) + m * p
      BY <1>1, <1>3, Congruent
    <2> QED BY <1>4, <2>1, Zenon
  <1>6. r = x + m * (q - p) /\ q - p \in Int
    <2>1. m * (q - p) = m * q - m * p
      BY SMTT(30)
    <2> QED BY <1>2, <1>3, <1>5, <2>1
  <1>7. Signed(r) = x
    BY <1>1, <1>6, SignedIs
  <1> QED BY <1>1, <1>3, <1>4, <1>7

\* So is its opposite.
LEMMA SignChanged ==
  ASSUME NEW x \in Nat, -x \in (-Half)..(Half - 1)
  PROVE  Signed((-Signed(x)) % IntSize) = -x
  <1>1. PICK m \in Nat \ {0} : m = IntSize
    BY IntSizes
  <1>2. PICK q \in Int : Signed(x) = x + m * q
    <2>1. \E q \in Int : Signed(x) = x + IntSize * q
      BY SignedShifts
    <2> QED BY <1>1, <2>1, Zenon
  <1>3. PICK s \in Int : s = -Signed(x)
    BY <1>2
  <1>4. PICK r \in Int : r = s % m
    <2>1. s % m \in 0..(m - 1)
      BY <1>1, <1>3, Congruent
    <2> QED BY <2>1
  <1>5. PICK p \in Int : s = r + m * p
    <2>1. \E p \in Int : s = (s % m) + m * p
      BY <1>1, <1>3, Congruent
    <2> QED BY <1>4, <2>1, Zenon
  <1>6. r = (-x) + m * (-q - p) /\ -q - p \in Int
    <2>1. m * (-q - p) = -(m * q) - m * p
      BY SMTT(30)
    <2>2. s = -(x + m * q)
      BY <1>2, <1>3
    <2> QED BY <1>5, <2>1, <2>2
  <1>7. Signed(r) = -x
    BY <1>1, <1>6, SignedIs
  <1> QED BY <1>1, <1>3, <1>4, <1>7

-----------------------------------------------------------------------------
\* Powers of ten.

\* They grow by multiplication.
LEMMA PowerGrows ==
  ASSUME NEW k \in Nat
  PROVE  \E f \in [0..k -> Nat \ {0}] :
            /\ PowerOfTen(k) = f[k]
            /\ f[0] = 1
            /\ \A i \in 1..k : f[i] = 10 * f[i - 1]
  <1> DEFINE F(f) == [i \in 0..k |-> IF i = 0 THEN 1 ELSE 10 * f[i - 1]]
             X == Nat \ {0}
  <1>1. PICK v : v = (CHOOSE f : f = F(f))
    OBVIOUS
  <1>2. PowerOfTen(k) = v[k]
    <2>1. PowerOfTen(k) = (CHOOSE f : f = F(f))[k]
      BY DEF PowerOfTen
    <2> HIDE DEF F
    <2> QED BY <1>1, <2>1
  <1> DEFINE g == [p \in (1..k) \X X |-> 10 * p[2]]
  <1>3. g \in [(1..k) \X X -> X] /\ 1 \in X
    OBVIOUS
  <1>4. PICK s \in [0..k -> X] : Follows(s, k, 1, g)
    <2> HIDE DEF g, X
    <2> QED BY <1>3, Solvable
  <1>5. s[0] = 1 /\ \A i \in 1..k : s[i] = 10 * s[i - 1]
    <2>1. ASSUME NEW i \in 1..k PROVE s[i] = 10 * s[i - 1]
      <3>1. PICK y \in X : y = s[i - 1]
        BY <1>4
      <3>2. g[<<i, y>>] = 10 * y
        OBVIOUS
      <3>3. s[i] = g[<<i, y>>]
        BY <1>4, <3>1 DEF Follows
      <3> QED BY <3>1, <3>2, <3>3
    <2> QED BY <1>4, <2>1 DEF Follows
  <1> HIDE DEF g
  <1>6. s = F(s)
    <2>1. \A i \in 0..k : s[i] = IF i = 0 THEN 1 ELSE 10 * s[i - 1]
      BY <1>5
    <2> QED BY <1>4, <2>1
  <1>7. v = F(v)
    <2> HIDE DEF F
    <2> QED BY <1>1, <1>6
  <1>8. v[0] = 1 /\ \A i \in 1..k : v[i] = 10 * v[i - 1]
    BY <1>7
  <1> DEFINE J == {i \in Nat : i <= k => v[i] = s[i]}
  <1>9. 0 \in J
    BY <1>5, <1>8
  <1>10. ASSUME NEW i \in Nat, i \in J PROVE i + 1 \in J
    <2>1. PICK m \in Nat : m = i + 1 /\ m - 1 = i
      OBVIOUS
    <2>2. ASSUME m <= k PROVE v[m] = s[m]
      <3>1. m \in 1..k /\ v[m - 1] = s[m - 1]
        BY <1>10, <2>1, <2>2
      <3> QED BY <1>5, <1>8, <3>1
    <2>3. m \in J
      BY <2>2
    <2> QED BY <2>1, <2>3
  <1> HIDE DEF J
  <1>11. k \in J
    BY <1>9, <1>10, Naturals
  <1>12. v[k] = s[k]
    BY <1>11 DEF J
  <1> QED BY <1>2, <1>4, <1>5, <1>12

\* my_pow by multiplications that wrap around.
LEMMA PowerWraps ==
  ASSUME NEW k \in Nat
  PROVE  \E f \in [0..k -> Int] :
            /\ my_pow(k) = f[k]
            /\ f[0] = 1
            /\ \A i \in 1..k : f[i] = Signed(10 * f[i - 1])
  <1> DEFINE F(f) == [i \in 0..k |-> IF i = 0 THEN 1 ELSE Signed(10 * f[i - 1])]
  <1>1. PICK v : v = (CHOOSE f : f = F(f))
    OBVIOUS
  <1>2. my_pow(k) = v[k]
    <2>1. my_pow(k) = (CHOOSE f : f = F(f))[k]
      BY DEF my_pow
    <2> HIDE DEF F
    <2> QED BY <1>1, <2>1
  <1> DEFINE g == [p \in (1..k) \X Int |-> Signed(10 * p[2])]
  <1>3. g \in [(1..k) \X Int -> Int] /\ 1 \in Int
    <2>1. ASSUME NEW y \in Int PROVE Signed(10 * y) \in Int
      <3>1. PICK x \in Int : x = 10 * y
        OBVIOUS
      <3>2. PICK m \in Nat \ {0} : m = IntSize
        BY IntSizes
      <3>3. PICK q \in Int : Signed(x) = x + IntSize * q
        BY SignedShifts
      <3>4. x + m * q \in Int
        OBVIOUS
      <3> QED BY <3>1, <3>2, <3>3, <3>4
    <2> QED BY <2>1
  <1>4. PICK s \in [0..k -> Int] : Follows(s, k, 1, g)
    <2> HIDE DEF g
    <2> QED BY <1>3, Solvable
  <1>5. s[0] = 1 /\ \A i \in 1..k : s[i] = Signed(10 * s[i - 1])
    <2>1. ASSUME NEW i \in 1..k PROVE s[i] = Signed(10 * s[i - 1])
      <3>1. PICK y \in Int : y = s[i - 1]
        BY <1>4
      <3>2. g[<<i, y>>] = Signed(10 * y)
        OBVIOUS
      <3>3. s[i] = g[<<i, y>>]
        BY <1>4, <3>1 DEF Follows
      <3> QED BY <3>1, <3>2, <3>3
    <2> QED BY <1>4, <2>1 DEF Follows
  <1> HIDE DEF g
  <1>6. s = F(s)
    <2>1. \A i \in 0..k : s[i] = IF i = 0 THEN 1 ELSE Signed(10 * s[i - 1])
      BY <1>5
    <2> QED BY <1>4, <2>1
  <1>7. v = F(v)
    <2> HIDE DEF F
    <2> QED BY <1>1, <1>6
  <1>8. v[0] = 1 /\ \A i \in 1..k : v[i] = Signed(10 * v[i - 1])
    BY <1>7
  <1> DEFINE J == {i \in Nat : i <= k => v[i] = s[i]}
  <1>9. 0 \in J
    BY <1>5, <1>8
  <1>10. ASSUME NEW i \in Nat, i \in J PROVE i + 1 \in J
    <2>1. PICK m \in Nat : m = i + 1 /\ m - 1 = i
      OBVIOUS
    <2>2. ASSUME m <= k PROVE v[m] = s[m]
      <3>1. m \in 1..k /\ v[m - 1] = s[m - 1]
        BY <1>10, <2>1, <2>2
      <3> QED BY <1>5, <1>8, <3>1
    <2>3. m \in J
      BY <2>2
    <2> QED BY <2>1, <2>3
  <1> HIDE DEF J
  <1>11. k \in J
    BY <1>9, <1>10, Naturals
  <1>12. v[k] = s[k]
    BY <1>11 DEF J
  <1> QED BY <1>2, <1>4, <1>5, <1>12

\* It gives a power of ten that an int can hold.
LEMMA PowerIs ==
  ASSUME NEW k \in Nat
  PROVE  /\ PowerOfTen(k) \in Nat \ {0}
         /\ PowerOfTen(k) < Half => my_pow(k) = PowerOfTen(k)
  <1>1. PICK f \in [0..k -> Nat \ {0}] :
            PowerOfTen(k) = f[k] /\ f[0] = 1 /\ \A i \in 1..k : f[i] = 10 * f[i - 1]
    BY PowerGrows
  <1>2. PICK r \in [0..k -> Int] :
            my_pow(k) = r[k] /\ r[0] = 1 /\ \A i \in 1..k : r[i] = Signed(10 * r[i - 1])
    BY PowerWraps
  <1>3. PICK h \in Nat : h = Half
    BY IntSizes
  <1>4. ASSUME f[k] < h PROVE r[k] = f[k]
    <2> DEFINE I == {j \in Nat : j <= k => f[k - j] < h}
    <2>1. 0 \in I
      BY <1>4
    <2>2. ASSUME NEW j \in Nat, j \in I PROVE j + 1 \in I
      <3>1. PICK m \in Nat : m = j + 1
        OBVIOUS
      <3>2. ASSUME m <= k PROVE f[k - m] < h
        <4>1. PICK i \in 1..k : i = k - j /\ i - 1 = k - m
          <5>1. k - j \in 1..k
            BY <3>1, <3>2
          <5> QED BY <3>1, <5>1
        <4>2. f[i] < h
          BY <2>2, <3>1, <3>2, <4>1
        <4>3. PICK x \in Nat : x = f[i - 1]
          BY <1>1
        <4>4. f[i] = 10 * x
          BY <1>1, <4>3
        <4>5. x < h
          BY <1>3, <4>2, <4>4
        <4> QED BY <4>1, <4>3, <4>5
      <3>3. m \in I
        BY <3>2
      <3> QED BY <3>1, <3>3
    <2> HIDE DEF I
    <2>3. \A j \in Nat : j \in I
      BY <2>1, <2>2, Naturals
    <2>4. ASSUME NEW i \in 0..k PROVE f[i] \in Nat /\ f[i] < h
      <3>1. PICK j \in Nat : j = k - i /\ j <= k /\ k - j = i
        OBVIOUS
      <3> QED BY <1>1, <2>3, <3>1 DEF I
    <2> DEFINE J == {i \in Nat : i <= k => r[i] = f[i]}
    <2>5. 0 \in J
      BY <1>1, <1>2
    <2>6. ASSUME NEW i \in Nat, i \in J PROVE i + 1 \in J
      <3>1. PICK m \in Nat : m = i + 1 /\ m - 1 = i
        OBVIOUS
      <3>2. ASSUME m <= k PROVE r[m] = f[m]
        <4>1. m \in 1..k /\ r[m - 1] = f[m - 1]
          BY <2>6, <3>1, <3>2
        <4>2. PICK y \in Nat : y = f[m] /\ y < h
          BY <2>4, <4>1
        <4>3. r[m] = Signed(y)
          BY <1>1, <1>2, <4>1, <4>2
        <4>4. y \in (-Half)..(Half - 1)
          BY <1>3, <4>2
        <4>5. Signed(y + IntSize * 0) = y
          BY <4>4, SignedIs
        <4>6. y + IntSize * 0 = y
          BY IntSizes
        <4> QED BY <4>2, <4>3, <4>5, <4>6
      <3>3. m \in J
        BY <3>2
      <3> QED BY <3>1, <3>3
    <2> HIDE DEF J
    <2>7. k \in J
      BY <2>5, <2>6, Naturals
    <2> QED BY <2>7 DEF J
  <1>5. f[k] \in Nat \ {0}
    BY <1>1
  <1> QED BY <1>1, <1>2, <1>3, <1>4, <1>5

-----------------------------------------------------------------------------
\* Names and texts.

\* The front of a sequence.
LEMMA FrontIs ==
  ASSUME NEW X, NEW s \in Seq(X), NEW k \in 0..Len(s)
  PROVE  /\ SubSeq(s, 1, k) \in Seq(X) /\ Len(SubSeq(s, 1, k)) = k
         /\ \A i \in 1..k : SubSeq(s, 1, k)[i] = s[i]
  OBVIOUS

\* A C string ends before the first NUL,
LEMMA NulFound ==
  ASSUME NEW X, NEW s \in Seq(X), NEW k \in 1..Len(s), s[k] = 0, \A i \in 1..(k - 1) : s[i] # 0
  PROVE  CString(s) = SubSeq(s, 1, k - 1)
  <1>1. PICK n : n = S!SelectInSeq(s, LAMBDA byte : byte = 0)
    OBVIOUS
  <1> DEFINE I == {i \in 1..Len(s) : s[i] = 0}
  <1>2. IsFirst(n, I)
    BY <1>1, FirstNul
  <1>3. k \in I
    OBVIOUS
  <1>4. n \in I /\ n <= k
    <2> HIDE DEF I
    <2> QED BY <1>2, <1>3 DEF IsFirst
  <1>5. n = k /\ n # 0
    BY <1>4
  <1> QED BY <1>1, <1>5 DEF CString

\* or is all there is.
LEMMA NulMissing ==
  ASSUME NEW X, NEW s \in Seq(X), \A i \in 1..Len(s) : s[i] # 0
  PROVE  CString(s) = s
  <1>1. PICK n : n = S!SelectInSeq(s, LAMBDA byte : byte = 0)
    OBVIOUS
  <1> DEFINE I == {i \in 1..Len(s) : s[i] = 0}
  <1>2. IsFirst(n, I)
    BY <1>1, FirstNul
  <1>3. I = {}
    OBVIOUS
  <1>4. n = 0
    BY <1>2, <1>3 DEF IsFirst
  <1> QED BY <1>1, <1>4 DEF CString

\* Where it ends.
LEMMA NulOrEnd ==
  ASSUME NEW X, NEW s \in Seq(X)
  PROVE  \E k \in 1..(Len(s) + 1) :
            /\ \A i \in 1..(k - 1) : s[i] # 0
            /\ k <= Len(s) => s[k] = 0
            /\ CString(s) = SubSeq(s, 1, k - 1)
  <1>1. CASE \A i \in 1..Len(s) : s[i] # 0
    <2>1. CString(s) = s
      BY <1>1, NulMissing
    <2>2. PICK k \in 1..(Len(s) + 1) : k = Len(s) + 1 /\ k - 1 = Len(s)
      OBVIOUS
    <2>3. s = SubSeq(s, 1, k - 1)
      BY <2>2
    <2>4. ~(k <= Len(s))
      BY <2>2
    <2> QED BY <1>1, <2>1, <2>2, <2>3, <2>4
  <1>2. CASE \E i \in 1..Len(s) : s[i] = 0
    <2> DEFINE I == {i \in 1..Len(s) : s[i] = 0}
    <2>1. I \subseteq Nat /\ I # {}
      BY <1>2
    <2>2. PICK k \in I : \A i \in I : k <= i
      <3> HIDE DEF I
      <3> QED BY <2>1, Smallest
    <2>3. k \in 1..Len(s) /\ s[k] = 0 /\ k \in 1..(Len(s) + 1)
      BY <2>2
    <2>4. ASSUME NEW i \in 1..(k - 1) PROVE s[i] # 0
      <3>1. i \in 1..Len(s) /\ ~(k <= i)
        BY <2>3
      <3> QED BY <2>2, <3>1
    <2>5. CString(s) = SubSeq(s, 1, k - 1)
      BY <2>3, <2>4, NulFound
    <2> QED BY <2>3, <2>4, <2>5
  <1> QED BY <1>1, <1>2

\* What is behind a NUL does not matter.
LEMMA BehindNul ==
  ASSUME NEW X, NEW a \in Seq(X), NEW b \in Seq(X), NEW k \in 1..Len(a), k <= Len(b),
         a[k] = 0, \A i \in 1..(k - 1) : a[i] # 0,
         \A i \in 1..k : a[i] = b[i]
  PROVE  CString(a) = CString(b)
  <1>1. k - 1 \in 0..Len(a) /\ k - 1 \in 0..Len(b) /\ k \in 1..Len(b) /\ k \in 1..k
    OBVIOUS
  <1>2. CString(a) = SubSeq(a, 1, k - 1)
    BY NulFound
  <1>3. CString(b) = SubSeq(b, 1, k - 1)
    <2>1. b[k] = 0
      BY <1>1
    <2>2. ASSUME NEW i \in 1..(k - 1) PROVE b[i] # 0
      <3>1. i \in 1..k
        OBVIOUS
      <3> QED BY <3>1
    <2> QED BY <1>1, <2>1, <2>2, NulFound
  <1>4. PICK p, q : p = SubSeq(a, 1, k - 1) /\ q = SubSeq(b, 1, k - 1)
    OBVIOUS
  <1>5. p \in Seq(X) /\ Len(p) = k - 1 /\ \A i \in 1..(k - 1) : p[i] = a[i]
    BY <1>1, <1>4, FrontIs
  <1>6. q \in Seq(X) /\ Len(q) = k - 1 /\ \A i \in 1..(k - 1) : q[i] = b[i]
    BY <1>1, <1>4, FrontIs
  <1>7. \A i \in 1..Len(p) : p[i] = q[i]
    <2>1. \A i \in 1..(k - 1) : i \in 1..k
      OBVIOUS
    <2> QED BY <1>5, <1>6, <2>1
  <1>8. p = q
    BY <1>5, <1>6, <1>7, SeqEqual
  <1> QED BY <1>2, <1>3, <1>4, <1>8

\* The topic comes through, cut off where its field ends, although what is
\* behind its NUL was never allocated.
LEMMA TopicShown ==
  ASSUME NEW d \in Seq(Byte)
  PROVE  CString(TopicSent(d)) = CString([i \in 1..StringLen |-> IF i <= Len(d) THEN d[i] ELSE 0])
  <1> DEFINE name == CString(d) \o <<0>>
             a == [i \in 1..StringLen |-> IF i <= Len(name) THEN name[i] ELSE JUNK]
             b == [i \in 1..StringLen |-> IF i <= Len(d) THEN d[i] ELSE 0]
  <1>1. PICK n \in Nat : n = StringLen
    BY PayloadAssumption
  <1>2. PICK m \in Nat : m = Len(d)
    OBVIOUS
  <1>3. PICK k \in 1..(m + 1) :
            /\ \A i \in 1..(k - 1) : d[i] # 0
            /\ k <= m => d[k] = 0
            /\ CString(d) = SubSeq(d, 1, k - 1)
    BY <1>2, NulOrEnd
  <1>4. PICK c : c = CString(d) /\ c \in Seq(Byte) /\ Len(c) = k - 1 /\ \A i \in 1..(k - 1) : c[i] = d[i]
    <2>1. k - 1 \in 0..Len(d)
      BY <1>2, <1>3
    <2> QED BY <1>3, <2>1, FrontIs
  <1>5. PICK z : z = <<0>> /\ z \in Seq(Byte) /\ Len(z) = 1 /\ z[1] = 0
    <2>1. PICK x \in Byte : x = 0
      BY ByteType
    <2>2. <<x>> \in Seq(Byte) /\ Len(<<x>>) = 1 /\ <<x>>[1] = x
      OBVIOUS
    <2> QED BY <2>1, <2>2
  <1>6. name = c \o z
    BY <1>4, <1>5
  <1> HIDE DEF name
  <1>7. Len(name) = k /\ (\A i \in 1..(k - 1) : name[i] = d[i]) /\ name[k] = 0
    <2>1. Len(c \o z) = Len(c) + Len(z)
      BY <1>4, <1>5, Halves
    <2>2. \A i \in 1..Len(c) : (c \o z)[i] = c[i]
      BY <1>4, <1>5, Halves
    <2>3. (c \o z)[Len(c) + 1] = z[1]
      <3>1. z # << >>
        BY <1>5
      <3> QED BY <1>4, <1>5, <3>1, Halves
    <2>4. Len(name) = k
      BY <1>3, <1>4, <1>5, <1>6, <2>1
    <2>5. \A i \in 1..(k - 1) : name[i] = d[i]
      BY <1>4, <1>6, <2>2
    <2>6. name[k] = 0
      <3>1. Len(c) + 1 = k
        BY <1>3, <1>4
      <3> QED BY <1>5, <1>6, <2>3, <3>1
    <2> QED BY <2>4, <2>5, <2>6
  <1>8. \A i \in 1..m : d[i] \in Nat
    <2>1. \A i \in 1..m : d[i] \in Byte
      BY <1>2
    <2> QED BY <2>1, ByteType
  <1>9. JUNK \in Nat
    BY ByteType DEF JUNK
  <1>10. ASSUME NEW i \in 1..n
         PROVE  /\ i < k => i \in 1..m /\ a[i] = d[i] /\ b[i] = d[i] /\ d[i] # 0
                /\ i = k => a[i] = 0 /\ b[i] = 0
                /\ a[i] \in Nat /\ b[i] \in Nat
    <2>1. a[i] = (IF i <= k THEN name[i] ELSE JUNK) /\ b[i] = (IF i <= m THEN d[i] ELSE 0)
      BY <1>1, <1>2, <1>7
    <2> HIDE DEF a, b
    <2>2. CASE i < k
      <3>1. i \in 1..m /\ i \in 1..(k - 1) /\ i <= k /\ i <= m /\ i # k
        BY <1>3, <2>2
      <3>2. a[i] = d[i] /\ b[i] = d[i] /\ d[i] # 0
        BY <1>3, <1>7, <2>1, <3>1
      <3> QED BY <1>8, <3>1, <3>2
    <2>3. CASE i = k
      <3>1. i <= k /\ ~(i < k)
        BY <2>3
      <3>2. a[i] = 0
        BY <1>7, <2>1, <2>3, <3>1
      <3>3. b[i] = 0
        BY <1>3, <2>1, <2>3
      <3> QED BY <3>1, <3>2, <3>3
    <2>4. CASE i > k
      <3>1. ~(i <= k) /\ ~(i < k) /\ i # k
        BY <1>3, <2>4
      <3>2. a[i] = JUNK
        BY <2>1, <3>1
      <3>3. b[i] \in Nat
        <4>1. CASE i <= m
          <5>1. i \in 1..m
            BY <4>1
          <5> QED BY <1>8, <2>1, <4>1, <5>1
        <4>2. CASE ~(i <= m)
          BY <2>1, <4>2
        <4> QED BY <4>1, <4>2
      <3> QED BY <1>9, <3>1, <3>2, <3>3
    <2> QED BY <1>3, <2>2, <2>3, <2>4
  <1>11. TopicSent(d) = a
    BY DEF TopicSent, name
  <1>12. a = [i \in 1..n |-> a[i]] /\ b = [i \in 1..n |-> b[i]]
    BY <1>1
  <1> HIDE DEF a, b
  <1>13. a \in [1..n -> Nat] /\ b \in [1..n -> Nat]
    BY <1>10, <1>12
  <1>14. a \in Seq(Nat) /\ Len(a) = n /\ b \in Seq(Nat) /\ Len(b) = n
    BY <1>13, Listed
  <1>15. CASE k <= n
    <2>1. k \in 1..Len(a) /\ k <= Len(b) /\ k \in 1..n
      BY <1>3, <1>14, <1>15
    <2>2. a[k] = 0
      BY <1>10, <2>1
    <2>3. ASSUME NEW i \in 1..(k - 1) PROVE a[i] # 0
      <3>1. i \in 1..n /\ i < k
        BY <2>1
      <3> QED BY <1>10, <3>1
    <2>4. ASSUME NEW i \in 1..k PROVE a[i] = b[i]
      <3>1. i \in 1..n /\ (i < k \/ i = k)
        BY <2>1
      <3> QED BY <1>10, <3>1
    <2>5. CString(a) = CString(b)
      BY <1>14, <2>1, <2>2, <2>3, <2>4, BehindNul
    <2> QED BY <1>11, <2>5 DEF b
  <1>16. CASE k > n
    <2>1. \A i \in 1..n : a[i] = b[i]
      <3>1. \A i \in 1..n : i < k
        BY <1>3, <1>16
      <3> QED BY <1>10, <3>1
    <2>2. a = b
      BY <1>12, <2>1
    <2> QED BY <1>11, <2>2 DEF b
  <1> QED BY <1>3, <1>15, <1>16

\* A NUL at the end changes nothing.
LEMMA Terminated ==
  ASSUME NEW t \in Seq(Nat)
  PROVE  t \o <<0>> \in Seq(Nat) /\ CString(t \o <<0>>) = CString(t)
  <1>1. PICK m \in Nat : m = Len(t)
    OBVIOUS
  <1>2. PICK z : z = <<0>>
    OBVIOUS
  <1>3. z \in Seq(Nat) /\ z # << >> /\ z[1] = 0 /\ Len(z) = 1
    BY <1>2
  <1>4. PICK u : u = t \o z
    OBVIOUS
  <1>5. /\ u \in Seq(Nat) /\ Len(u) = m + 1
        /\ \A i \in 1..m : u[i] = t[i]
        /\ u[m + 1] = 0
        /\ SubSeq(u, 1, m) = t
    <2>1. t \o z \in Seq(Nat) /\ Len(t \o z) = Len(t) + Len(z)
      <3>1. z \in Seq(Nat)
        BY <1>3
      <3> QED BY <3>1, Halves
    <2>2. SubSeq(t \o z, 1, Len(t)) = t
      BY <1>3, Halves
    <2>3. \A i \in 1..Len(t) : (t \o z)[i] = t[i]
      BY <1>3, Halves
    <2>4. (t \o z)[Len(t) + 1] = z[1]
      BY <1>3, Halves
    <2> QED BY <1>1, <1>3, <1>4, <2>1, <2>2, <2>3, <2>4
  <1>6. CASE \A i \in 1..m : t[i] # 0
    <2>1. CString(t) = t
      BY <1>1, <1>6, NulMissing
    <2>2. PICK k \in 1..Len(u) : k = m + 1 /\ k - 1 = m
      BY <1>5
    <2>3. u[k] = 0 /\ \A i \in 1..(k - 1) : u[i] # 0
      BY <1>5, <1>6, <2>2
    <2>4. CString(u) = SubSeq(u, 1, k - 1)
      BY <1>5, <2>2, <2>3, NulFound
    <2> QED BY <1>2, <1>4, <1>5, <2>1, <2>2, <2>4
  <1>7. CASE \E i \in 1..m : t[i] = 0
    <2>1. PICK k \in 1..(m + 1) : (\A i \in 1..(k - 1) : t[i] # 0) /\ (k <= m => t[k] = 0)
      BY <1>1, NulOrEnd
    <2>2. k <= m
      <3> SUFFICES ASSUME k = m + 1 PROVE FALSE
        BY <2>1
      <3>1. \A i \in 1..m : i \in 1..(k - 1)
        BY <1>1
      <3> QED BY <1>7, <2>1, <3>1
    <2>3. k \in 1..Len(t) /\ k <= Len(u) /\ t[k] = 0
      BY <1>1, <1>5, <2>1, <2>2
    <2>4. \A i \in 1..k : t[i] = u[i]
      <3>1. \A i \in 1..k : i \in 1..m
        BY <2>1, <2>2
      <3> QED BY <1>5, <3>1
    <2>5. CString(t) = CString(u)
      BY <1>5, <2>1, <2>3, <2>4, BehindNul
    <2> QED BY <1>2, <1>4, <1>5, <2>5
  <1> QED BY <1>2, <1>4, <1>5, <1>6, <1>7

\* Bytes are numbers.
LEMMA ByteText == \A t \in Seq(Byte) : t \in Seq(Nat)
  <1> SUFFICES ASSUME NEW t \in Seq(Byte) PROVE t \in Seq(Nat)
    OBVIOUS
  <1>1. PICK n \in Nat : n = Len(t)
    OBVIOUS
  <1>2. t \in [1..n -> Byte]
    BY <1>1
  <1>3. t \in [1..n -> Nat]
    BY <1>2, ByteType
  <1> QED BY <1>3, Listed

\* A text is shown as it was published, or with a byte behind it if no NUL
\* ends it.
LEMMA TextShown ==
  ASSUME NEW t \in Seq(Nat), NEW value,
         value = CString(t \o << 0 >>) \/ value = CString(t \o <<JUNK, 0>>)
  PROVE  \/ value = CString(t)
         \/ value = t \o <<JUNK>> /\ \A i \in 1..Len(t) : t[i] # 0
  <1>2. value = CString(t \o <<0>>) \/ value = CString(t \o <<JUNK, 0>>)
    OBVIOUS
  <1>3. CString(t \o <<0>>) = CString(t)
    BY Terminated
  <1>4. PICK j \in Nat : j = JUNK /\ j # 0
    BY ByteType DEF JUNK
  <1>5. PICK y : y = <<j>> /\ y \in Seq(Nat) /\ y # << >> /\ y[1] = j /\ Len(y) = 1
    <2>1. <<j>> \in Seq(Nat) /\ <<j>> # << >> /\ <<j>>[1] = j /\ Len(<<j>>) = 1
      OBVIOUS
    <2> QED BY <2>1
  <1>6. PICK v : v = t \o y
    OBVIOUS
  <1>7. PICK n \in Nat : n = Len(t)
    OBVIOUS
  <1>8. v \in Seq(Nat) /\ Len(v) = n + 1 /\ (\A i \in 1..n : v[i] = t[i]) /\ v[n + 1] = j
    BY <1>5, <1>6, <1>7, Halves
  <1>9. t \o <<JUNK, 0>> = v \o <<0>>
    <2>1. PICK z : z = <<0>> /\ z \in Seq(Nat)
      <3>1. <<0>> \in Seq(Nat)
        OBVIOUS
      <3> QED BY <3>1
    <2>2. y \o z = <<JUNK, 0>>
      <3>1. PICK w : w = <<j, 0>>
        OBVIOUS
      <3>2. w \in Seq(Nat) /\ Len(w) = 2 /\ w[1] = j /\ w[2] = 0
        BY <3>1
      <3>3. z # << >> /\ z[1] = 0 /\ Len(z) = 1
        BY <2>1
      <3>4. PICK x : x = y \o z
        OBVIOUS
      <3>5. x \in Seq(Nat) /\ Len(x) = Len(y) + Len(z)
        BY <1>5, <2>1, <3>4, Halves
      <3>6. (\A i \in 1..Len(y) : x[i] = y[i]) /\ x[Len(y) + 1] = z[1]
        BY <1>5, <2>1, <3>3, <3>4, Halves
      <3>7. Len(x) = 2 /\ x[1] = j /\ x[2] = 0
        BY <1>5, <3>3, <3>5, <3>6
      <3>8. \A i \in 1..Len(x) : i = 1 \/ i = 2
        BY <3>7
      <3>9. x = w
        BY <3>2, <3>5, <3>7, <3>8, SeqEqual
      <3> QED BY <1>4, <3>1, <3>4, <3>9
    <2>3. (t \o y) \o z = t \o (y \o z)
      BY <1>5, <2>1, ConcatAssociative
    <2> QED BY <1>6, <2>1, <2>2, <2>3
  <1>10. CString(t \o <<JUNK, 0>>) = CString(v)
    <2>1. v \in Seq(Nat)
      BY <1>8
    <2>2. CString(v \o <<0>>) = CString(v)
      BY <2>1, Terminated
    <2> QED BY <1>9, <2>2
  <1>11. CASE \A i \in 1..n : t[i] # 0
    <2>1. \A i \in 1..Len(v) : v[i] # 0
      <3>1. \A i \in 1..(n + 1) : i \in 1..n \/ i = n + 1
        BY <1>7
      <3> QED BY <1>4, <1>8, <1>11, <3>1
    <2>2. CString(v) = v
      BY <1>8, <2>1, NulMissing
    <2> QED BY <1>2, <1>3, <1>4, <1>5, <1>6, <1>7, <1>10, <1>11, <2>2
  <1>12. CASE \E i \in 1..n : t[i] = 0
    <2>1. PICK k \in 1..(n + 1) : (\A i \in 1..(k - 1) : t[i] # 0) /\ (k <= n => t[k] = 0)
      BY <1>7, NulOrEnd
    <2>2. k <= n
      <3> SUFFICES ASSUME k = n + 1 PROVE FALSE
        BY <2>1
      <3>1. \A i \in 1..n : i \in 1..(k - 1)
        BY <1>7
      <3> QED BY <1>12, <2>1, <3>1
    <2>3. k \in 1..Len(t) /\ k <= Len(v) /\ t[k] = 0
      BY <1>7, <1>8, <2>1, <2>2
    <2>4. \A i \in 1..k : t[i] = v[i]
      <3>1. \A i \in 1..k : i \in 1..n
        BY <2>1, <2>2
      <3> QED BY <1>8, <3>1
    <2>5. CString(t) = CString(v)
      <3>1. v \in Seq(Nat) /\ \A i \in 1..(k - 1) : t[i] # 0
        BY <1>8, <2>1
      <3> QED BY <2>3, <2>4, <3>1, BehindNul
    <2> QED BY <1>2, <1>3, <1>10, <2>5
  <1> QED BY <1>11, <1>12

-----------------------------------------------------------------------------
\* Publications.

\* What a datagram d has behind its type, as Content says of the one that has
\* arrived.
ContentOf(d, i) == IF StringLen + 1 + i <= Len(d) THEN d[StringLen + 1 + i] ELSE 0
MagnitudeOf(d) ==
  BigEndian(<<ContentOf(d, 2), ContentOf(d, 3), ContentOf(d, 4), ContentOf(d, 5)>>)

\* The server's buffer holds it.
LEMMA ContentRead ==
  ASSUME NEW d \in Seq(Byte)
  PROVE  /\ \A n \in Nat : Behind(d, n) \in [1..n -> Byte]
         /\ \A n \in Nat : \A i \in 1..n : Behind(d, n)[i] = ContentOf(d, i)
         /\ \A i \in Nat : ContentOf(d, i + 1) \in Byte
  <1>1. PICK k \in Nat : k = StringLen + 1
    BY PayloadAssumption
  <1>2. ASSUME NEW n \in Nat PROVE Behind(d, n) \in [1..n -> Byte]
    BY <1>1, FieldType DEF Behind
  <1>3. ASSUME NEW n \in Nat, NEW i \in 1..n PROVE Behind(d, n)[i] = ContentOf(d, i)
    BY <1>1, FieldType DEF Behind, ContentOf
  <1>4. ASSUME NEW i \in Nat PROVE ContentOf(d, i + 1) \in Byte
    <2>1. PICK n \in Nat : n = i + 1 /\ n \in 1..n
      OBVIOUS
    <2>2. Behind(d, n) \in [1..n -> Byte] /\ Behind(d, n)[n] = ContentOf(d, n)
      BY <1>2, <1>3, <2>1
    <2> QED BY <2>1, <2>2
  <1> QED BY <1>2, <1>3, <1>4

\* Six bytes of it, and the four of a number.
LEMMA ContentType ==
  ASSUME NEW d \in Seq(Byte)
  PROVE  /\ ContentOf(d, 1) \in Byte /\ ContentOf(d, 2) \in Byte /\ ContentOf(d, 3) \in Byte
         /\ ContentOf(d, 4) \in Byte /\ ContentOf(d, 5) \in Byte /\ ContentOf(d, 6) \in Byte
         /\ MagnitudeOf(d) \in 0..(IntSize - 1)
  <1>1. \A i \in 1..6 : ContentOf(d, i) \in Byte
    <2> TAKE i \in 1..6
    <2>1. PICK j \in Nat : i = j + 1
      <3>1. i - 1 \in Nat /\ i = (i - 1) + 1
        OBVIOUS
      <3> QED BY <3>1
    <2> QED BY <2>1, ContentRead
  <1>2. PICK f : f = <<ContentOf(d, 2), ContentOf(d, 3), ContentOf(d, 4), ContentOf(d, 5)>>
    OBVIOUS
  <1>3. f \in [1..4 -> Byte]
    BY <1>1, <1>2
  <1>4. PICK c : c = S!Reverse(f) /\ c \in [1..4 -> Byte]
    BY <1>3, FourAndTwo, Reversed
  <1>5. BigEndian(f) = Host(c)
    BY <1>3, <1>4, FourAndTwo, NetworkOrder
  <1>6. Host(c) \in 0..(IntSize - 1)
    BY <1>4, IntRange
  <1>7. MagnitudeOf(d) \in 0..(IntSize - 1)
    BY <1>2, <1>5, <1>6 DEF MagnitudeOf
  <1> QED BY <1>1, <1>7

\* An int comes through with its sign, if an int can hold it.
LEMMA IntShown ==
  ASSUME NEW d \in Seq(Byte), NEW m, m.data = IntData(d)
  PROVE  /\ ShownInt(m).den = 1
         /\ ContentOf(d, 1) # 1 /\ MagnitudeOf(d) \in (-Half)..(Half - 1)
              => ShownInt(m).num = MagnitudeOf(d)
         /\ ContentOf(d, 1) = 1 /\ -MagnitudeOf(d) \in (-Half)..(Half - 1)
              => ShownInt(m).num = -MagnitudeOf(d)
  <1>1. PICK k \in Nat : k = StringLen + 2
    BY PayloadAssumption
  <1>2. PICK f : f = Field(d, k, 4)
    OBVIOUS
  <1>3. f \in [1..4 -> Byte] /\ f \in Seq(Byte) /\ Len(f) = 4
    <2>1. 4 \in Nat
      OBVIOUS
    <2> QED BY <1>2, <2>1, FieldType, FourAndTwo
  <1>4. \A i \in 1..4 : f[i] = IF k + i <= Len(d) THEN d[k + i] ELSE 0
    BY <1>2, FieldType
  <1>5. f = <<ContentOf(d, 2), ContentOf(d, 3), ContentOf(d, 4), ContentOf(d, 5)>>
    <2>1. StringLen \in Nat
      BY PayloadAssumption
    <2>2. f[1] = ContentOf(d, 2) /\ f[2] = ContentOf(d, 3)
      BY <1>1, <1>4, <2>1 DEF ContentOf
    <2>3. f[3] = ContentOf(d, 4) /\ f[4] = ContentOf(d, 5)
      BY <1>1, <1>4, <2>1 DEF ContentOf
    <2> QED BY <1>3, <2>2, <2>3
  <1>6. PICK x \in Nat : x = MagnitudeOf(d)
    BY ContentType, IntSizes
  <1>7. ntoh(Host(f), 4) = x
    BY <1>3, <1>5, <1>6, NetworkOrder DEF MagnitudeOf
  <1> DEFINE sign == IF ContentOf(d, 1) = 1 THEN -Signed(x) ELSE Signed(x)
  <1>8. Behind(d, 1)[1] = ContentOf(d, 1)
    BY ContentRead
  <1>9. IntData(d) = Bytes(hton(sign % IntSize, 4), 4)
    BY <1>1, <1>2, <1>7, <1>8 DEF IntData
  <1>10. sign \in Int
    <2>1. PICK l \in Nat : l = IntSize
      BY IntSizes
    <2>2. PICK q \in Int : Signed(x) = x + IntSize * q
      BY SignedShifts
    <2>3. x + l * q \in Int
      OBVIOUS
    <2> QED BY <2>1, <2>2, <2>3
  <1> HIDE DEF sign
  <1>11. PICK n \in 0..(IntSize - 1) : n = sign % IntSize
    BY <1>10, IntSizes, Congruent
  <1>12. PICK c \in [1..4 -> Byte] : c = Bytes(n, 4) /\ Host(c) = n
    BY <1>11, IntStored
  <1>13. IntData(d) = S!Reverse(c)
    BY <1>9, <1>11, <1>12, BackAgain
  <1>14. PICK r : r = S!Reverse(c) /\ r \in Seq(Byte) /\ Len(r) = 4 /\ S!Reverse(r) = c
    BY <1>12, FourAndTwo, Reversed
  <1>15. ntoh(Host(r), 4) = n
    BY <1>12, <1>14, OtherOrder
  <1>16. ShownInt(m).num = Signed(sign % IntSize) /\ ShownInt(m).den = 1
    BY <1>11, <1>13, <1>14, <1>15 DEF ShownInt
  <1>17. ASSUME ContentOf(d, 1) # 1, x \in (-Half)..(Half - 1)
         PROVE  ShownInt(m).num = x
    <2>1. sign = Signed(x)
      BY <1>17 DEF sign
    <2> QED BY <1>16, <1>17, <2>1, SignPut
  <1>18. ASSUME ContentOf(d, 1) = 1, -x \in (-Half)..(Half - 1)
         PROVE  ShownInt(m).num = -x
    <2>1. sign = -Signed(x)
      BY <1>18 DEF sign
    <2> QED BY <1>16, <1>18, <2>1, SignChanged
  <1> QED BY <1>6, <1>16, <1>17, <1>18

\* A short comes through.
LEMMA ShortShown ==
  ASSUME NEW d \in Seq(Byte), NEW m, m.data = Behind(d, 2)
  PROVE  /\ ShownShort(m).num = BigEndian(<<ContentOf(d, 1), ContentOf(d, 2)>>)
         /\ ShownShort(m).den = 100
         /\ BigEndian(<<ContentOf(d, 1), ContentOf(d, 2)>>) \in Nat
  <1>1. PICK f : f = Behind(d, 2)
    OBVIOUS
  <1>2. f \in [1..2 -> Byte] /\ f[1] = ContentOf(d, 1) /\ f[2] = ContentOf(d, 2)
    <2>1. PICK n \in Nat : n = 2 /\ 1 \in 1..n /\ 2 \in 1..n
      OBVIOUS
    <2>2. Behind(d, n) \in [1..n -> Byte] /\ \A i \in 1..n : Behind(d, n)[i] = ContentOf(d, i)
      BY ContentRead
    <2> QED BY <1>1, <2>1, <2>2
  <1>3. f = <<ContentOf(d, 1), ContentOf(d, 2)>>
    BY <1>2
  <1>4. ntoh(Host(f), 2) = BigEndian(f) /\ BigEndian(f) \in Nat
    BY <1>2, FourAndTwo, NetworkOrder
  <1> QED BY <1>1, <1>3, <1>4 DEF ShownShort

\* A float comes through with its sign, rounded, if an int can hold its power
\* of ten.
LEMMA FloatShown ==
  ASSUME NEW d \in Seq(Byte), NEW m, m.data = Behind(d, 6),
         PowerOfTen(ContentOf(d, 6)) < Half, NEW value \in ShownFloats(m)
  PROVE  /\ value.den = Unit
         /\ value.num \in Nearest(IF ContentOf(d, 1) # 0 THEN -MagnitudeOf(d) ELSE MagnitudeOf(d),
                                  PowerOfTen(ContentOf(d, 6)))
  <1>1. PICK b : b = Behind(d, 6)
    OBVIOUS
  <1>2. PICK n \in Nat : n = 6
    OBVIOUS
  <1>3. b \in [1..n -> Byte] /\ \A i \in 1..n : b[i] = ContentOf(d, i)
    BY <1>1, <1>2, ContentRead
  <1>4. b \in Seq(Byte) /\ Len(b) = 6
    BY <1>2, <1>3, Listed
  <1>5. b[1] = ContentOf(d, 1) /\ b[6] = ContentOf(d, 6)
    BY <1>2, <1>3
  <1>6. PICK f : f = SubSeq(b, 2, 5)
    OBVIOUS
  <1>7. f \in Seq(Byte) /\ Len(f) = 4 /\ \A i \in 1..4 : f[i] = b[i + 1]
    <2>1. PICK lo \in Int, hi \in Int : lo = 2 /\ hi = 5
      OBVIOUS
    <2>2. \A i \in lo..hi : b[i] \in Byte
      <3>1. \A i \in lo..hi : i \in 1..n
        BY <1>2, <2>1
      <3> QED BY <1>3, <3>1
    <2>3. f = SubSeq(b, lo, hi)
      BY <1>6, <2>1
    <2>4. f \in Seq(Byte) /\ Len(f) = (IF lo <= hi THEN hi - lo + 1 ELSE 0)
      BY <2>2, <2>3, SubSeqProperties
    <2>5. \A i \in 1..(hi - lo + 1) : f[i] = b[lo + i - 1]
      BY <2>2, <2>3, SubSeqProperties
    <2>6. Len(f) = 4
      BY <2>1, <2>4
    <2>7. ASSUME NEW i \in 1..4 PROVE f[i] = b[i + 1]
      <3>1. i \in 1..(hi - lo + 1) /\ lo + i - 1 = i + 1
        BY <2>1
      <3> QED BY <2>5, <3>1
    <2> QED BY <2>4, <2>6, <2>7
  <1>8. f = <<ContentOf(d, 2), ContentOf(d, 3), ContentOf(d, 4), ContentOf(d, 5)>>
    <2>1. f[1] = ContentOf(d, 2) /\ f[2] = ContentOf(d, 3)
      BY <1>2, <1>3, <1>7
    <2>2. f[3] = ContentOf(d, 4) /\ f[4] = ContentOf(d, 5)
      BY <1>2, <1>3, <1>7
    <2> QED BY <1>7, <2>1, <2>2
  <1>9. ntoh(Host(f), 4) = MagnitudeOf(d)
    BY <1>7, <1>8, NetworkOrder DEF MagnitudeOf
  <1>10. ContentOf(d, 6) \in Nat
    BY ContentType, ByteType
  <1>11. PICK den \in Nat \ {0} : den = PowerOfTen(ContentOf(d, 6)) /\ my_pow(b[6]) = den
    BY <1>5, <1>10, PowerIs
  <1>12. PICK x : x = MagnitudeOf(d)
    OBVIOUS
  <1>13. den # 0 /\ ~(den < 0)
    OBVIOUS
  <1> DEFINE num == IF b[1] # 0 THEN -x ELSE x
  <1>14. ShownFloats(m) = {[num |-> r, den |-> Unit] : r \in Nearest(num, den)}
    BY <1>1, <1>6, <1>9, <1>11, <1>12, <1>13 DEF ShownFloats
  <1> HIDE DEF num
  <1>15. PICK r \in Nearest(num, den) : value = [num |-> r, den |-> Unit]
    BY <1>14
  <1> QED BY <1>5, <1>11, <1>12, <1>15 DEF num

\* A power of ten is a multiple of every smaller one.
LEMMA PowerDivides ==
  ASSUME NEW n \in Nat, NEW k \in Nat, k <= n
  PROVE  \E m \in Nat \ {0} : PowerOfTen(n) = PowerOfTen(k) * m
  <1>1. PICK f \in [0..n -> Nat \ {0}] :
            PowerOfTen(n) = f[n] /\ f[0] = 1 /\ \A i \in 1..n : f[i] = 10 * f[i - 1]
    BY PowerGrows
  <1>2. PICK g \in [0..k -> Nat \ {0}] :
            PowerOfTen(k) = g[k] /\ g[0] = 1 /\ \A i \in 1..k : g[i] = 10 * g[i - 1]
    BY PowerGrows
  <1>3. f[k] = g[k]
    <2> DEFINE I == {j \in Nat : j <= k => f[j] = g[j]}
    <2>1. 0 \in I
      BY <1>1, <1>2
    <2>2. ASSUME NEW j \in Nat, j \in I PROVE j + 1 \in I
      <3>1. PICK i \in Nat : i = j + 1 /\ i - 1 = j
        OBVIOUS
      <3>2. ASSUME i <= k PROVE f[i] = g[i]
        <4>1. i \in 1..k /\ i \in 1..n /\ f[i - 1] = g[i - 1]
          BY <2>2, <3>1, <3>2
        <4> QED BY <1>1, <1>2, <4>1
      <3> QED BY <3>1, <3>2
    <2> HIDE DEF I
    <2>3. k \in I
      BY <2>1, <2>2, Naturals
    <2> QED BY <2>3 DEF I
  <1>4. PICK p \in Nat \ {0} : p = f[k]
    <2>1. k \in 0..n
      OBVIOUS
    <2> QED BY <1>1, <2>1
  <1>5. \E m \in Nat \ {0} : f[n] = p * m
    <2> DEFINE J == {j \in Nat : k + j <= n => \E m \in Nat \ {0} : f[k + j] = p * m}
    <2>1. 0 \in J
      <3>1. k + 0 = k /\ p = p * 1
        OBVIOUS
      <3> QED BY <1>4, <3>1
    <2>2. ASSUME NEW j \in Nat, j \in J PROVE j + 1 \in J
      <3>1. PICK i \in Nat : i = k + (j + 1) /\ i - 1 = k + j
        OBVIOUS
      <3>2. ASSUME i <= n PROVE \E m \in Nat \ {0} : f[i] = p * m
        <4>1. i \in 1..n /\ k + j <= n
          BY <3>1, <3>2
        <4>2. PICK m \in Nat \ {0} : f[i - 1] = p * m
          BY <2>2, <3>1, <4>1
        <4>3. f[i] = 10 * (p * m)
          BY <1>1, <4>1, <4>2
        <4>4. 10 * (p * m) = p * (10 * m) /\ 10 * m \in Nat \ {0}
          BY SMTT(30)
        <4> QED BY <4>3, <4>4
      <3> QED BY <3>1, <3>2
    <2> HIDE DEF J
    <2>3. PICK j \in Nat : k + j = n
      <3>1. n - k \in Nat /\ k + (n - k) = n
        OBVIOUS
      <3> QED BY <3>1
    <2>4. j \in J
      BY <2>1, <2>2, Naturals
    <2>5. k + j <= n => \E m \in Nat \ {0} : f[k + j] = p * m
      BY <2>4 DEF J
    <2>6. k + j <= n
      BY <2>3
    <2> QED BY <2>3, <2>5, <2>6
  <1> QED BY <1>1, <1>2, <1>3, <1>4, <1>5

\* A multiple that is not further away than half a unit is no other one.
LEMMA NoOther ==
  ASSUME NEW den \in Nat \ {0}, NEW t \in Int, 2 * (den * t) \in (-den)..den
  PROVE  t = 0
  <1>1. PICK z \in Int : z = den * t
    OBVIOUS
  <1>2. CASE t >= 1
    <2>1. z >= den
      BY <1>1, <1>2, SMTT(30)
    <2> QED BY <1>1, <2>1
  <1>3. CASE t <= -1
    <2>1. z <= -den
      BY <1>1, <1>3, SMTT(30)
    <2> QED BY <1>1, <2>1
  <1> QED BY <1>2, <1>3

\* What is printed is within half of the last decimal; it is the number itself
\* if that has no more decimals than are printed.
LEMMA RoundedWell ==
  ASSUME NEW k \in Nat, NEW den \in Nat \ {0}, den = PowerOfTen(k), NEW num \in Int,
         NEW value, value.den = Unit, value.num \in Nearest(num, den)
  PROVE  /\ Rounded(value, num, den)
         /\ k <= Decimals => SameNumber(value, num, den)
  <1>1. PICK u \in Nat \ {0} : u = Unit
    BY PayloadAssumption, PowerIs DEF Unit
  <1>2. PICK n : n = value.num
    OBVIOUS
  <1>3. PICK p \in Int : p = num * u
    OBVIOUS
  <1>4. n \in Int /\ 2 * (p - n * den) \in (-den)..den
    <2>1. n \in {p \div den, p \div den + 1} /\ 2 * (p - n * den) \in (-den)..den
      BY <1>1, <1>2, <1>3 DEF Nearest
    <2>2. p \div den \in Int /\ p \div den + 1 \in Int
      BY SMTT(30)
    <2> QED BY <2>1, <2>2
  <1>5. Rounded(value, num, den)
    BY <1>1, <1>2, <1>3, <1>4 DEF Rounded
  <1>6. ASSUME k <= Decimals PROVE SameNumber(value, num, den)
    <2>1. PICK m \in Nat \ {0} : u = den * m
      BY <1>1, <1>6, PayloadAssumption, PowerDivides DEF Unit
    <2>2. PICK t \in Int : t = num * m - n
      BY <1>4
    <2>3. p = den * (num * m)
      BY <1>3, <2>1, SMTT(30)
    <2>4. PICK q \in Int : q = num * m
      OBVIOUS
    <2>5. p - n * den = den * t
      <3>1. t = q - n /\ p = den * q
        BY <2>2, <2>3, <2>4
      <3>2. den * (q - n) = den * q - n * den
        BY <1>4, SMTT(30)
      <3> QED BY <3>1, <3>2
    <2>6. t = 0
      BY <1>4, <2>5, NoOther
    <2>7. p = n * den
      <3>1. PICK r \in Int : r = n * den
        BY <1>4
      <3>2. den * t = 0
        BY <2>6
      <3> QED BY <2>5, <3>1, <3>2
    <2> QED BY <1>1, <1>2, <1>3, <2>7 DEF SameNumber
  <1> QED BY <1>5, <1>6

\* A text is what is behind the type.
LEMMA TextRead ==
  ASSUME NEW d \in Seq(Byte), TypeOf(d) = TEXT
  PROVE  TextData(d) = SubSeq(d, StringLen + 2, Len(d)) /\ TextData(d) \in Seq(Byte)
  <1>1. PICK k \in Nat : k = StringLen + 1
    BY PayloadAssumption
  <1>2. PICK n \in Nat : Len(d) = k + n
    <2>1. Len(d) >= StringLen + 1 /\ Len(d) \in Nat
      BY TypeOfType DEF TEXT
    <2>2. Len(d) - k \in Nat /\ Len(d) = k + (Len(d) - k)
      BY <1>1, <2>1
    <2> QED BY <2>2
  <1>3. n = Len(d) - StringLen - 1 /\ k + 1 = StringLen + 2
    BY <1>1, <1>2, PayloadAssumption
  <1>4. PICK t : t = TextData(d)
    OBVIOUS
  <1>5. t = Field(d, k, n)
    BY <1>1, <1>3, <1>4 DEF TextData, Behind
  <1>6. t \in [1..n -> Byte] /\ \A i \in 1..n : t[i] = IF k + i <= Len(d) THEN d[k + i] ELSE 0
    BY <1>5, FieldType
  <1>7. t \in Seq(Byte) /\ Len(t) = n
    BY <1>6, Listed
  <1>8. \A i \in 1..n : t[i] = d[k + i]
    BY <1>2, <1>6
  <1>9. PICK lo \in Int, hi \in Int : lo = k + 1 /\ hi = Len(d)
    OBVIOUS
  <1>10. PICK u : u = SubSeq(d, lo, hi)
    OBVIOUS
  <1>11. \A i \in lo..hi : d[i] \in Byte
    <2>1. \A i \in lo..hi : i \in 1..Len(d)
      BY <1>2, <1>9
    <2> QED BY <2>1
  <1>12. u \in Seq(Byte) /\ Len(u) = IF lo <= hi THEN hi - lo + 1 ELSE 0
    BY <1>10, <1>11, SubSeqProperties
  <1>13. \A i \in 1..(hi - lo + 1) : u[i] = d[lo + i - 1]
    BY <1>10, <1>11, SubSeqProperties
  <1>14. hi - lo + 1 = n /\ Len(u) = n
    BY <1>2, <1>9, <1>12
  <1>15. ASSUME NEW i \in 1..n PROVE t[i] = u[i]
    <2>1. lo + i - 1 = k + i /\ i \in 1..(hi - lo + 1)
      BY <1>2, <1>9, <1>14
    <2> QED BY <1>8, <1>13, <2>1
  <1>16. t = u
    BY <1>7, <1>12, <1>14, <1>15, SeqEqual
  <1> QED BY <1>3, <1>4, <1>7, <1>9, <1>10, <1>16

\* What ShownAsPublished says of a value.
SignsOf(d) == IF ContentOf(d, 1) = 0 THEN {1} ELSE IF ContentOf(d, 1) = 1 THEN {-1} ELSE {1, -1}
Accurate(value, d) ==
  LET text == SubSeq(d, StringLen + 2, Len(d))
  IN CASE TypeOf(d) = INT ->
            (\A sign \in SignsOf(d) : sign * MagnitudeOf(d) \in (-Half)..(Half - 1))
              => \E sign \in SignsOf(d) : SameNumber(value, sign * MagnitudeOf(d), 1)
       [] TypeOf(d) = SHORT ->
            SameNumber(value, BigEndian(<<ContentOf(d, 1), ContentOf(d, 2)>>), 100)
       [] TypeOf(d) = FLOAT ->
            LET den == PowerOfTen(ContentOf(d, 6))
            IN den < Half => \E sign \in SignsOf(d) :
                 /\ Rounded(value, sign * MagnitudeOf(d), den)
                 /\ ContentOf(d, 6) <= Decimals => SameNumber(value, sign * MagnitudeOf(d), den)
       [] TypeOf(d) = TEXT ->
            \/ value = CString(text)
            \/ value = text \o <<JUNK>> /\ \A i \in 1..Len(text) : text[i] # 0

\* It is true of an int,
LEMMA IntAccurate ==
  ASSUME NEW d \in Seq(Byte), TypeOf(d) = INT, NEW m, m.data = IntData(d)
  PROVE  Accurate(ShownInt(m), d)
  <1>1. PICK x \in Nat : x = MagnitudeOf(d)
    BY ContentType, IntSizes
  <1>2. PICK v : v = ShownInt(m)
    OBVIOUS
  <1>3. /\ v.den = 1
        /\ ContentOf(d, 1) # 1 /\ x \in (-Half)..(Half - 1) => v.num = x
        /\ ContentOf(d, 1) = 1 /\ -x \in (-Half)..(Half - 1) => v.num = -x
    BY <1>1, <1>2, IntShown
  <1>4. 1 * x = x /\ (-1) * x = -x /\ -x \in Int
    BY <1>1
  <1>5. ASSUME NEW y \in Int, v.num = y PROVE SameNumber(v, y, 1)
    BY <1>3, <1>5 DEF SameNumber
  <1>6. ASSUME \A sign \in SignsOf(d) : sign * x \in (-Half)..(Half - 1)
        PROVE  \E sign \in SignsOf(d) : SameNumber(v, sign * x, 1)
    <2>1. CASE ContentOf(d, 1) = 1
      <3>1. -1 \in SignsOf(d)
        BY <2>1 DEF SignsOf
      <3>2. -x \in (-Half)..(Half - 1)
        BY <1>4, <1>6, <3>1
      <3>3. SameNumber(v, (-1) * x, 1)
        BY <1>3, <1>4, <1>5, <2>1, <3>2
      <3> QED BY <3>1, <3>3
    <2>2. CASE ContentOf(d, 1) # 1
      <3>1. 1 \in SignsOf(d)
        BY <2>2 DEF SignsOf
      <3>2. x \in (-Half)..(Half - 1)
        BY <1>4, <1>6, <3>1
      <3>3. SameNumber(v, 1 * x, 1)
        BY <1>1, <1>3, <1>4, <1>5, <2>2, <3>2
      <3> QED BY <3>1, <3>3
    <2> QED BY <2>1, <2>2
  <1> QED BY <1>1, <1>2, <1>6 DEF Accurate, INT, SHORT, FLOAT, TEXT

\* a short,
LEMMA ShortAccurate ==
  ASSUME NEW d \in Seq(Byte), TypeOf(d) = SHORT, NEW m, m.data = Behind(d, 2)
  PROVE  Accurate(ShownShort(m), d)
  <1>1. SameNumber(ShownShort(m), BigEndian(<<ContentOf(d, 1), ContentOf(d, 2)>>), 100)
    BY ShortShown DEF SameNumber
  <1> QED BY <1>1 DEF Accurate, INT, SHORT, FLOAT, TEXT

\* a float,
LEMMA FloatAccurate ==
  ASSUME NEW d \in Seq(Byte), TypeOf(d) = FLOAT, NEW m, m.data = Behind(d, 6),
         NEW value \in ShownFloats(m)
  PROVE  Accurate(value, d)
  <1>1. PICK x \in Nat : x = MagnitudeOf(d)
    BY ContentType, IntSizes
  <1>2. PICK k \in Nat : k = ContentOf(d, 6)
    BY ContentType, ByteType
  <1>3. PICK den \in Nat \ {0} : den = PowerOfTen(k)
    BY PowerIs
  <1>4. 1 * x = x /\ (-1) * x = -x /\ -x \in Int
    BY <1>1
  <1>5. ASSUME den < Half
        PROVE  \E sign \in SignsOf(d) :
                 /\ Rounded(value, sign * x, den)
                 /\ k <= Decimals => SameNumber(value, sign * x, den)
    <2>1. PICK y \in Int : y = IF ContentOf(d, 1) # 0 THEN -x ELSE x
      BY <1>4
    <2>2. value.den = Unit /\ value.num \in Nearest(y, den)
      BY <1>1, <1>2, <1>3, <1>5, <2>1, FloatShown
    <2>3. Rounded(value, y, den) /\ (k <= Decimals => SameNumber(value, y, den))
      BY <1>3, <2>2, RoundedWell
    <2>4. CASE ContentOf(d, 1) = 0
      <3>1. 1 \in SignsOf(d) /\ y = 1 * x
        BY <1>4, <2>1, <2>4 DEF SignsOf
      <3> QED BY <2>3, <3>1
    <2>5. CASE ContentOf(d, 1) # 0
      <3>1. -1 \in SignsOf(d) /\ y = (-1) * x
        BY <1>4, <2>1, <2>5 DEF SignsOf
      <3> QED BY <2>3, <3>1
    <2> QED BY <2>4, <2>5
  <1> QED BY <1>1, <1>2, <1>3, <1>5 DEF Accurate, INT, SHORT, FLOAT, TEXT

\* and a text.
LEMMA TextAccurate ==
  ASSUME NEW d \in Seq(Byte), TypeOf(d) = TEXT, NEW m, m.data = TextData(d),
         NEW value \in ShownTexts(m)
  PROVE  Accurate(value, d)
  <1>1. PICK t \in Seq(Nat) : t = SubSeq(d, StringLen + 2, Len(d)) /\ m.data = t
    BY TextRead, ByteText
  <1>2. value = CString(t \o <<0>>) \/ value = CString(t \o <<JUNK, 0>>)
    BY <1>1 DEF ShownTexts
  <1>3. value = CString(t) \/ (value = t \o <<JUNK>> /\ \A i \in 1..Len(t) : t[i] # 0)
    BY <1>1, <1>2, TextShown
  <1>4. \/ value = CString(SubSeq(d, StringLen + 2, Len(d)))
        \/ /\ value = SubSeq(d, StringLen + 2, Len(d)) \o <<JUNK>>
           /\ \A i \in 1..Len(SubSeq(d, StringLen + 2, Len(d))) :
                SubSeq(d, StringLen + 2, Len(d))[i] # 0
    BY <1>1, <1>3, Zenon
  <1>5. TypeOf(d) # INT /\ TypeOf(d) # SHORT /\ TypeOf(d) # FLOAT
    BY DEF INT, SHORT, FLOAT, TEXT
  <1> QED BY <1>4, <1>5 DEF Accurate

\* What is shown of a datagram that has arrived.
LEMMA ShowsWhatArrived ==
  ASSUME TypeOK, Show, output'.kind = "shown"
  PROVE  /\ output'.addr = input.from.addr
         /\ output'.port = BigEndian(input.from.port)
         /\ output'.topic = CString([i \in 1..StringLen |-> IF i <= Len(datagram) THEN datagram[i] ELSE 0])
         /\ Accurate(output'.value, datagram)
  <1>1. PICK d \in Seq(Byte) : d = datagram
    BY DatagramRead DEF Show, Arrived
  <1>2. PICK from : from = input.from /\ from.addr \in [1..4 -> Byte] /\ from.port \in [1..2 -> Byte]
    BY DatagramRead DEF Show, Arrived
  <1>3. PICK m, sent : m = build_msg(d) /\ sent = build_sentBuffer(m, from)
    OBVIOUS
  <1>4. \E value \in Values(m) :
          output' = [kind |-> "shown", addr |-> ShownAddr(sent), port |-> ShownPort(sent),
                     topic |-> ShownTopic(m), value |-> value,
                     fits |-> build_sentBuffer_fits(m)]
    <2>1. ~(m.type > TEXT)
      <3> SUFFICES ASSUME m.type > TEXT PROVE FALSE
        OBVIOUS
      <3>1. output'.kind \in {"ended", "ignored"}
        BY <1>1, <1>2, <1>3 DEF Show
      <3> QED BY <3>1
    <2> QED BY <1>1, <1>2, <1>3, <2>1 DEF Show
  <1>5. PICK value \in Values(m) :
          /\ output'.addr = ShownAddr(sent) /\ output'.port = ShownPort(sent)
          /\ output'.topic = ShownTopic(m) /\ output'.value = value
    BY <1>4
  <1>6. ShownAddr(sent) = from.addr
    <2>1. sent.udp_ip = hton(Host(from.addr), 4)
      BY <1>3 DEF build_sentBuffer
    <2> QED BY <1>2, <2>1, BackAgain DEF ShownAddr
  <1>7. ShownPort(sent) = BigEndian(from.port)
    <2>1. sent.udp_port = Host(from.port)
      BY <1>3 DEF build_sentBuffer
    <2>2. PICK p : p = from.port /\ p \in Seq(Byte) /\ Len(p) = 2
      BY <1>2, FourAndTwo
    <2> QED BY <2>1, <2>2, NetworkOrder DEF ShownPort
  <1>8. ShownTopic(m) = CString([i \in 1..StringLen |-> IF i <= Len(d) THEN d[i] ELSE 0])
    <2>1. m.topic = TopicSent(d)
      BY <1>3 DEF build_msg
    <2> QED BY <2>1, TopicShown DEF ShownTopic
  <1>9. Accurate(value, d)
    <2>1. m.type = TypeOf(d) /\ m.data = Data(d)
      BY <1>3 DEF build_msg
    <2>2. CASE TypeOf(d) = INT
      <3>1. m.data = IntData(d) /\ value = ShownInt(m)
        BY <1>5, <2>1, <2>2 DEF Data, Values, INT, SHORT, FLOAT, TEXT
      <3> QED BY <2>2, <3>1, IntAccurate
    <2>3. CASE TypeOf(d) = SHORT
      <3>1. m.data = Behind(d, 2) /\ value = ShownShort(m)
        BY <1>5, <2>1, <2>3 DEF Data, Values, INT, SHORT, FLOAT, TEXT
      <3> QED BY <2>3, <3>1, ShortAccurate
    <2>4. CASE TypeOf(d) = FLOAT
      <3>1. m.data = Behind(d, 6) /\ value \in ShownFloats(m)
        BY <1>5, <2>1, <2>4 DEF Data, Values, INT, SHORT, FLOAT, TEXT
      <3> QED BY <2>4, <3>1, FloatAccurate
    <2>5. CASE TypeOf(d) = TEXT
      <3>1. m.data = TextData(d) /\ value \in ShownTexts(m)
        BY <1>5, <2>1, <2>5 DEF Data, Values, INT, SHORT, FLOAT, TEXT
      <3> QED BY <2>5, <3>1, TextAccurate
    <2>6. TypeOf(d) \in {INT, SHORT, FLOAT, TEXT}
      <3> SUFFICES ASSUME TypeOf(d) # INT, TypeOf(d) # SHORT, TypeOf(d) # FLOAT, TypeOf(d) # TEXT
                   PROVE  FALSE
        OBVIOUS
      <3>1. Values(m) = {}
        BY <2>1 DEF Values
      <3> QED BY <1>5, <3>1
    <2> QED BY <2>2, <2>3, <2>4, <2>5, <2>6
  <1> QED BY <1>1, <1>2, <1>5, <1>6, <1>7, <1>8, <1>9

\* ShownAsPublished, with what Accurate says of the value.
ShownAccurately ==
  output.kind = "shown" =>
    /\ output.addr = input.from.addr
    /\ output.port = BigEndian(input.from.port)
    /\ output.topic = CString([i \in 1..StringLen |-> IF i <= Len(datagram) THEN datagram[i] ELSE 0])
    /\ Accurate(output.value, datagram)

\* It is no less.
LEMMA AccuratelyIs == ShownAccurately => ShownAsPublished
  <1> SUFFICES ASSUME ShownAccurately, output.kind = "shown" PROVE ShownAsPublished
    BY DEF ShownAsPublished
  <1>1. /\ output.addr = input.from.addr
        /\ output.port = BigEndian(input.from.port)
        /\ output.topic = CString([i \in 1..StringLen |-> Published(i)])
    BY DEF ShownAccurately, Published
  <1>2. PICK d : d = datagram
    OBVIOUS
  <1>3. /\ Content(1) = ContentOf(d, 1) /\ Content(2) = ContentOf(d, 2)
        /\ Content(6) = ContentOf(d, 6)
        /\ Magnitude = MagnitudeOf(d) /\ Signs = SignsOf(d)
        /\ Text = SubSeq(d, StringLen + 2, Len(d))
    BY <1>2 DEF Content, Published, ContentOf, Magnitude, MagnitudeOf, Signs, SignsOf, Text
  <1>4. Accurate(output.value, d)
    BY <1>2 DEF ShownAccurately
  <1> QED BY <1>1, <1>2, <1>3, <1>4 DEF ShownAsPublished, Accurate

\* Every other step shows nothing new.
LEMMA NextShows ==
  TypeOK /\ Paired /\ ShownAccurately /\ [Next]_vars => ShownAccurately'
  <1> SUFFICES ASSUME TypeOK, Paired, ShownAccurately, [Next]_vars PROVE ShownAccurately'
    OBVIOUS
  <1>1. ASSUME output'.kind # "shown" PROVE ShownAccurately'
    BY <1>1 DEF ShownAccurately
  <1>2. ASSUME NEW line \in Lines, Type(line) PROVE ShownAccurately'
    BY <1>1, <1>2 DEF Type, Paired, Nothing
  <1>3. ASSUME NEW d \in Datagrams, NEW from \in Senders, Publish(d, from) PROVE ShownAccurately'
    BY <1>1, <1>3 DEF Publish, Paired, Nothing
  <1>4. CASE process_subscribe
    BY <1>1, <1>4 DEF process_subscribe, Send
  <1>5. CASE process_unsubscribe
    BY <1>1, <1>5 DEF process_unsubscribe, Send
  <1>6. CASE OtherCommand
    BY <1>1, <1>6 DEF OtherCommand
  <1>7. CASE ServerDies
    BY <1>1, <1>7 DEF ServerDies
  <1>8. CASE Show
    <2>1. input' = input /\ datagram' = datagram
      BY <1>8 DEF Show, datagram
    <2> QED BY <1>1, <1>8, <2>1, ShowsWhatArrived DEF ShownAccurately
  <1>9. CASE Loop
    BY <1>1, <1>9 DEF Loop, Nothing
  <1>10. CASE UNCHANGED vars
    <2>1. input' = input /\ output' = output /\ datagram' = datagram
      BY <1>10 DEF vars, datagram
    <2> QED BY <2>1 DEF ShownAccurately
  <1> QED BY <1>2, <1>3, <1>4, <1>5, <1>6, <1>7, <1>8, <1>9, <1>10 DEF Next

\* For bytes and topics of any size: through two changes of byte order and a
\* sign put by one program or the other, the user sees the sender, the topic
\* and the value that were published, a float to the last decimal printed.
THEOREM ShowsPublished == Spec => []ShownAsPublished
  <1>1. Init => Paired /\ ShownAccurately
    BY DEF Init, Paired, ShownAccurately, Nothing
  <1> QED BY <1>1, NextPaired, NextShows, AccuratelyIs, TypeCorrect, PTL DEF Spec
=============================================================================
