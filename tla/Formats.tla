------------------------------ MODULE Formats -------------------------------
(***************************************************************************)
(* A subscriber and its data: lines typed at its prompt become headers,    *)
(* datagrams the server has relayed become lines on its screen.  Both use  *)
(* the variables of main() that survive from one turn of the select loop   *)
(* to the next, sf and cls_hdr, which are never initialised.               *)
(***************************************************************************)
EXTENDS Payload, Prompt

CONSTANTS Datagrams,  \* what publishers send
          Senders,    \* and from where
          Lines,      \* what the user types, as Chars puts it together
          Flags, Topics  \* what sf and cls_hdr may hold before they are set

\* A line is a word and what is behind it; a flag without a topic would be one.
ASSUME FormatsAssumption ==
  /\ CommandLen <= StringLen
  /\ Datagrams \subseteq Seq(Byte)
  /\ Senders \subseteq [addr : [1..4 -> Byte], port : [1..2 -> Byte]]
  /\ Lines \subseteq [indent : Nat, word : Seq(Char), gap : Nat \ {0},
                      topic : Seq(Char), flag : Seq(Char), more : Seq(Char)]
  /\ \A line \in Lines :
       /\ line.word # << >>
       /\ line.topic = << >> => line.flag = << >>
       /\ \A part \in {line.word, line.topic, line.flag} :
            \A i \in 1..Len(part) : ~IsSpace(part[i])
  /\ Flags \subseteq Int
  /\ Topics \subseteq Seq(Char) /\ \A topic \in Topics : Len(topic) <= StringLen

VARIABLES sf, cls_hdr,
          input,      \* a line or a datagram that has arrived
          output      \* what became of it

vars == <<sf, cls_hdr, input, output>>

Nothing == [kind |-> "nothing"]
Kinds == {"nothing", "header", "wrong", "exit", "shown", "ignored", "ended", "dead"}

TypeOK ==
  /\ sf \in Int
  /\ cls_hdr \in [type : {0, 1, 4}, sf : Byte, topic : Seq(Char)]
  /\ Len(cls_hdr.topic) <= StringLen
  /\ \/ input = Nothing
     \/ input \in [kind : {"line"}, line : Lines]
     \/ input \in [kind : {"datagram"}, datagram : Datagrams, from : Senders]
  /\ output.kind \in Kinds

Init ==
  /\ sf \in Flags
  /\ cls_hdr \in [type : {0}, sf : {0}, topic : Topics]
  /\ input = Nothing
  /\ output = Nothing

-----------------------------------------------------------------------------
\* The environment.  Lines typed quickly are read at once: more is what
\* follows the first.
Spaces(n) == [i \in 1..n |-> " "]
Chars(line) ==
  Spaces(line.indent) \o line.word
    \o (IF line.topic = << >> THEN << >> ELSE Spaces(line.gap) \o line.topic)
    \o (IF line.flag = << >> THEN << >> ELSE <<" ">> \o line.flag) \o <<"\n">> \o line.more

Type(line) ==
  /\ input = Nothing
  /\ input' = [kind |-> "line", line |-> line]
  /\ UNCHANGED <<sf, cls_hdr, output>>

Publish(d, from) ==
  /\ input = Nothing
  /\ input' = [kind |-> "datagram", datagram |-> d, from |-> from]
  /\ UNCHANGED <<sf, cls_hdr, output>>

-----------------------------------------------------------------------------
\* Commands.
Reading == input.kind = "line" /\ output = Nothing
buffer == Chars(input.line)
command == read_first_parameter(buffer)

topic_typed == ScannedWord(After(buffer, Len(command)))

\* A word is stored with a NUL behind it; a header has room for so much of it.
Fits(words) == Len(command) < CommandLen /\ \A word \in words : Len(word) < StringLen
Clipped(topic) == IF Len(topic) > StringLen THEN SubSeq(topic, 1, StringLen) ELSE topic

Send(type, flag, topic) ==
  /\ cls_hdr' = [type |-> type, sf |-> flag, topic |-> Clipped(topic)]
  /\ output' = [kind |-> "header", header |-> cls_hdr', fits |-> Fits({topic_typed})]
  /\ UNCHANGED input

\* The flag is looked for behind one space.  sscanf() reads a long, which ends
\* where its 8 bytes end, and stores what fits into an int.  If there is no
\* number, sf keeps its value.
LongMax == (IntSize * IntSize) \div 2 - 1
Stored(n) == Signed(IF n > LongMax THEN LongMax ELSE IF n < -LongMax THEN -LongMax - 1 ELSE n)
Flag(skipped) ==
  LET number == ScannedNumber(After(buffer, Len(command) + Len(topic_typed) + skipped))
  IN IF number = {} THEN {sf} ELSE {Stored(n) : n \in number}

\* Mutants: the flag is looked for too late; it is not cut to a byte.
process_subscribe_late ==
  /\ Reading
  /\ Is(command, SUBSCRIBE)
  /\ sf' \in Flag(3)
  /\ Send(0, sf' % ByteSize, topic_typed)
process_subscribe_wide ==
  /\ Reading
  /\ Is(command, SUBSCRIBE)
  /\ sf' \in Flag(2)
  /\ Send(0, sf', topic_typed)

process_subscribe ==
  /\ Reading
  /\ Is(command, SUBSCRIBE)
  /\ sf' \in Flag(2)
  /\ Send(0, sf' % ByteSize, topic_typed)

\* The topic is not cleared first.
process_unsubscribe ==
  /\ Reading
  /\ Is(command, UNSUBSCRIBE)
  /\ Send(1, cls_hdr.sf, IF topic_typed = << >> THEN cls_hdr.topic ELSE topic_typed)
  /\ UNCHANGED sf

OtherCommand ==
  /\ Reading
  /\ ~Is(command, SUBSCRIBE) /\ ~Is(command, UNSUBSCRIBE)
  /\ output' = [kind |-> IF Is(command, EXIT) THEN "exit" ELSE "wrong", fits |-> Fits({})]
  /\ UNCHANGED <<sf, cls_hdr, input>>

-----------------------------------------------------------------------------
\* Publications.
Arrived == input.kind = "datagram" /\ output = Nothing
datagram == input.datagram

\* The server takes an empty datagram for a failure; bytes it has not set
\* makes it copy from NULL, unless it happens to be 0.
ServerDies ==
  /\ Arrived
  /\ datagram = << >> \/ TypeOf(datagram) > TEXT
  /\ output' = [kind |-> "dead", fits |-> TRUE]
  /\ UNCHANGED <<sf, cls_hdr, input>>

\* The subscriber acknowledges whatever it was.
Show ==
  /\ Arrived
  /\ datagram # << >>
  /\ LET msg == build_msg(datagram)
         sent == build_sentBuffer(msg, input.from)
     IN output' \in
          IF msg.type > TEXT
            THEN {[kind |-> IF msg.type = REFUSED THEN "ended" ELSE "ignored", fits |-> TRUE]}
            ELSE {[kind |-> "shown", addr |-> ShownAddr(sent), port |-> ShownPort(sent),
                   topic |-> ShownTopic(msg), value |-> value,
                   fits |-> build_sentBuffer_fits(msg)] : value \in Values(msg)}
  /\ cls_hdr' = [cls_hdr EXCEPT !.type = 4]
  /\ UNCHANGED <<sf, input>>

\* The next turn of the loop.
Loop ==
  /\ output # Nothing
  /\ output.kind \notin {"exit", "ended", "dead"}
  /\ input' = Nothing
  /\ output' = Nothing
  /\ UNCHANGED <<sf, cls_hdr>>

Next ==
  \/ \E line \in Lines : Type(line)
  \/ \E d \in Datagrams, from \in Senders : Publish(d, from)
  \/ process_subscribe
  \/ process_unsubscribe
  \/ OtherCommand
  \/ ServerDies
  \/ Show
  \/ Loop

Spec == Init /\ [][Next]_vars

-----------------------------------------------------------------------------
\* Properties.

\* What a publisher means: numbers are in network order, digit by digit.
BigEndian(bytes) == LET n[i \in 0..Len(bytes)] == IF i = 0 THEN 0 ELSE ByteSize * n[i - 1] + bytes[i]
                    IN n[Len(bytes)]
\* What a datagram is too short for counts as 0.
Published(i) == IF i <= Len(datagram) THEN datagram[i] ELSE 0
Content(i) == Published(StringLen + 1 + i)
Text == SubSeq(datagram, StringLen + 2, Len(datagram))
Magnitude == BigEndian(<<Content(2), Content(3), Content(4), Content(5)>>)
\* A sign is 0 or 1.  Any other byte is a plus to the server, which reads the
\* sign of an int, and a minus to the subscriber, which reads that of a float.
Signs == IF Content(1) = 0 THEN {1} ELSE IF Content(1) = 1 THEN {-1} ELSE {1, -1}

SameNumber(value, num, den) == value.den # 0 /\ value.num * den = num * value.den
\* The difference is at most half of the last decimal.
Rounded(value, num, den) ==
  value.den = Unit /\ 2 * (num * Unit - value.num * den) \in (-den)..den

\* Through both programs, two changes of byte order and a sign that is put by
\* one of them or by the other, the user sees the sender, the topic and the
\* value of the publication: every short, every int that an int can hold,
\* every float whose power of ten an int can hold to the last decimal printed,
\* and exactly if its exponent is no more than there are decimals.  A text may
\* have something behind it that was not published, but only if no NUL ends it.
ShownAsPublished ==
  output.kind = "shown" =>
    /\ output.addr = input.from.addr
    /\ output.port = BigEndian(input.from.port)
    /\ output.topic = CString([i \in 1..StringLen |-> Published(i)])
    /\ CASE TypeOf(datagram) = INT ->
              (\A sign \in Signs : sign * Magnitude \in (-Half)..(Half - 1))
                => \E sign \in Signs : SameNumber(output.value, sign * Magnitude, 1)
         [] TypeOf(datagram) = SHORT -> SameNumber(output.value, BigEndian(<<Content(1), Content(2)>>), 100)
         [] TypeOf(datagram) = FLOAT ->
              LET den == PowerOfTen(Content(6))
              IN den < Half => \E sign \in Signs :
                   /\ Rounded(output.value, sign * Magnitude, den)
                   /\ Content(6) <= Decimals => SameNumber(output.value, sign * Magnitude, den)
         [] TypeOf(datagram) = TEXT ->
              \/ output.value = CString(Text)
              \/ output.value = Text \o <<JUNK>> /\ \A i \in 1..Len(Text) : Text[i] # 0

\* A line that is not indented, gives all that is needed and has at most one
\* space too many sends what it says, whatever was typed before and whatever
\* has been typed after it; of a flag that an int can hold the last byte is
\* sent.  What a line does not give is taken from earlier ones: no flag, the
\* last flag; no topic to unsubscribe from, the last topic.
SentAsTyped ==
  LET line == input.line
      known == line.word \in {SUBSCRIBE, UNSUBSCRIBE} /\ line.indent = 0 /\ line.gap <= 2
      sent == output'.header
  IN output = Nothing /\ output'.kind = "header" /\ known =>
       /\ line.word = SUBSCRIBE =>
            /\ sent.type = 0
            /\ line.more = << >> \/ line.topic # << >> => sent.topic = Clipped(line.topic)
            /\ line.topic # << >> =>
                 \A n \in ScannedNumber(line.flag) \cap (-Half)..(Half - 1) : sent.sf = n % ByteSize
            /\ line.flag = << >> /\ line.more = << >> => sent.sf = sf % ByteSize
       /\ line.word = UNSUBSCRIBE =>
            /\ sent.type = 1
            /\ line.topic # << >> => sent.topic = Clipped(line.topic)
            /\ line.topic = << >> /\ line.flag = << >> /\ line.more = << >>
                 => sent.topic = cls_hdr.topic
HeaderAsTyped == [][SentAsTyped]_vars

\* Nothing is written beyond an array, and neither program ends, unless the
\* command or the topic typed is as long as its array, the text published is
\* longer than what the header leaves of the buffer, or the datagram is empty
\* or of no known type.
LimitsKept ==
  /\ input.kind = "line" /\ output # Nothing =>
       \/ output.fits
       \/ Len(input.line.word) >= CommandLen
       \/ \E word \in {input.line.topic, ScannedWord(input.line.more)} : Len(word) >= StringLen
  /\ input.kind = "datagram" /\ output # Nothing =>
       \/ output.kind = "shown" /\ output.fits
       \/ datagram = << >> \/ TypeOf(datagram) > TEXT
       \/ TypeOf(datagram) = TEXT /\ Len(Text) > MaxLenBuf - HeaderLen
=============================================================================
