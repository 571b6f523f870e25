------------------------------- MODULE Prompt -------------------------------
(***************************************************************************)
(* How a subscriber makes a header of what its user has typed: by scanf()  *)
(* at places it computes from the lengths of what it has scanned.  Text is *)
(* a sequence of characters; the rest of the buffer is zeroes.             *)
(***************************************************************************)
EXTENDS Integers, Sequences

T == INSTANCE SequencesExt

CONSTANTS CommandLen,  \* COMMAND_LEN: 14
          Char         \* the characters of a keyboard

ASSUME PromptAssumption == CommandLen \in Nat /\ {" ", "\n"} \subseteq Char

\* The command words, shortened.
SUBSCRIBE == <<"s", "b">>
UNSUBSCRIBE == <<"u", "s", "b">>
EXIT == <<"e", "x">>

Digits == <<"0", "1", "2", "3", "4", "5", "6", "7", "8", "9">>
IsSpace(c) == c \in {" ", "\n"}
IsDigit(c) == T!Contains(Digits, c)
Digit(c) == T!SelectInSeq(Digits, LAMBDA d : d = c) - 1
Value(digits) ==
  LET n[i \in 0..Len(digits)] == IF i = 0 THEN 0 ELSE 10 * n[i - 1] + Digit(digits[i])
  IN n[Len(digits)]

\* Input conversions begin at the first character that is not white space;
\* a position of 0 is none.
SkipSpaces(text) ==
  LET k == T!SelectInSeq(text, LAMBDA c : ~IsSpace(c))
  IN IF k = 0 THEN << >> ELSE SubSeq(text, k, Len(text))
UpTo(text, k) == IF k = 0 THEN text ELSE SubSeq(text, 1, k - 1)

\* buffer + n, sscanf("%s") and sscanf("%d"): nothing is stored if there is
\* no word, or no number, and Scanned... is then empty.  A number may have a
\* sign in front of its digits.
After(buffer, n) == SubSeq(buffer, n + 1, Len(buffer))
ScannedWord(text) ==
  LET word == SkipSpaces(text) IN UpTo(word, T!SelectInSeq(word, IsSpace))
DigitsOf(word) == UpTo(word, T!SelectInSeq(word, LAMBDA c : ~IsDigit(c)))
Unsigned(word) == IF word # << >> /\ word[1] \in {"+", "-"} THEN After(word, 1) ELSE word
ScannedNumber(text) ==
  LET word == SkipSpaces(text)
      digits == DigitsOf(Unsigned(word))
  IN IF digits = << >> THEN {}
     ELSE {IF word[1] = "-" THEN -Value(digits) ELSE Value(digits)}

read_first_parameter(buffer) == ScannedWord(buffer)
Is(command, word) == T!IsPrefix(word, command)
=============================================================================
