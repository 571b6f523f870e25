------------------------------ MODULE Payload -------------------------------
(***************************************************************************)
(* A datagram on its way to a user's screen: the server takes it apart     *)
(* (build_msg) and puts a message together (build_sentBuffer), a           *)
(* subscriber computes what it prints.  Memory is a sequence of bytes, an  *)
(* int has 4 of them and a short 2, least significant byte first.          *)
(***************************************************************************)
EXTENDS Integers, Sequences

S == INSTANCE SequencesExt

CONSTANTS ByteSize,   \* values of a byte: 256
          StringLen,  \* STRING_LEN: 50
          HeaderLen,  \* sizeof(server_to_client_hdr): 64
          MaxLenBuf,  \* MAX_LEN_BUF: 1551, the longest datagram
          Decimals    \* of a number printed with %f: 6

ASSUME PayloadAssumption ==
  /\ ByteSize \in Nat /\ ByteSize > 3
  /\ StringLen \in Nat \ {0}
  /\ HeaderLen \in Nat /\ HeaderLen > StringLen + 1
  /\ MaxLenBuf \in Nat /\ MaxLenBuf >= HeaderLen + 6
  /\ Decimals \in Nat

Byte == 0..(ByteSize - 1)
INT == 0
SHORT == 1
FLOAT == 2
TEXT == 3
REFUSED == 4

\* A byte of memory that was never written, or holds something else.
JUNK == ByteSize

\* The characters before the first NUL, or all there are.
CString(s) ==
  LET nul == S!SelectInSeq(s, LAMBDA byte : byte = 0)
  IN IF nul = 0 THEN s ELSE SubSeq(s, 1, nul - 1)

\* Bytes as a number, numbers as bytes, and the order the network has them in.
Host(bytes) ==
  LET n[i \in 1..(Len(bytes) + 1)] ==
        IF i > Len(bytes) THEN 0 ELSE bytes[i] + ByteSize * n[i + 1]
  IN n[1]
Bytes(n, size) ==
  LET rest[i \in 1..(size + 1)] == IF i = 1 THEN n ELSE rest[i - 1] \div ByteSize
  IN [i \in 1..size |-> rest[i] % ByteSize]
ntoh(n, size) == Host(S!Reverse(Bytes(n, size)))
hton(n, size) == ntoh(n, size)

IntSize == ByteSize * ByteSize * ByteSize * ByteSize
Half == IntSize \div 2
Signed(n) == ((n + Half) % IntSize) - Half

-----------------------------------------------------------------------------
\* The server.  A datagram has been read into a buffer of zeroes.
Field(datagram, offset, size) ==
  [i \in 1..size |-> IF offset + i <= Len(datagram) THEN datagram[offset + i] ELSE 0]
TypeOf(datagram) == Field(datagram, StringLen, 1)[1]
Behind(datagram, size) == Field(datagram, StringLen + 1, size)

\* Mutant: the sign is put without bringing the bytes into the order of the host.
IntDataUnordered(datagram) ==
  LET int_val == Signed(Host(Field(datagram, StringLen + 2, 4)))
      signed == IF Behind(datagram, 1)[1] = 1 THEN -int_val ELSE int_val
  IN Bytes(signed % IntSize, 4)

\* The sign goes into the number, if it is 1.
IntData(datagram) ==
  LET int_val == Signed(ntoh(Host(Field(datagram, StringLen + 2, 4)), 4))
      signed == IF Behind(datagram, 1)[1] = 1 THEN -int_val ELSE int_val
  IN Bytes(hton(signed % IntSize, 4), 4)

\* Mutant: the type byte is counted with the text.
TextDataAndType(datagram) == Behind(datagram, Len(datagram) - StringLen)
TextData(datagram) == Behind(datagram, Len(datagram) - StringLen - 1)

\* msg->data and, as its length, msg->bytes.  For any other type data is NULL
\* and bytes is not set.
Data(datagram) ==
  CASE TypeOf(datagram) = INT   -> IntData(datagram)
    [] TypeOf(datagram) = SHORT -> Behind(datagram, 2)
    [] TypeOf(datagram) = FLOAT -> Behind(datagram, 6)
    [] TypeOf(datagram) = TEXT  -> TextData(datagram)
    [] OTHER -> << >>

\* What is copied of msg->topic: it ends with a NUL, what is behind that NUL
\* was not allocated.
TopicSent(datagram) ==
  LET name == CString(datagram) \o <<0>>
  IN [i \in 1..StringLen |-> IF i <= Len(name) THEN name[i] ELSE JUNK]

build_msg(datagram) ==
  [type |-> TypeOf(datagram), topic |-> TopicSent(datagram), data |-> Data(datagram)]

\* The header also says who sent the datagram: addresses and ports lie in the
\* order of the network in from_udp_station.
build_sentBuffer(msg, from) ==
  [msg |-> msg, udp_ip |-> hton(Host(from.addr), 4), udp_port |-> Host(from.port)]

\* The header and the data have to fit into buf.  Here and in Formats a write
\* beyond an array is noted, and taken to land where it does no harm.
build_sentBuffer_fits(msg) == HeaderLen + Len(msg.data) <= MaxLenBuf

-----------------------------------------------------------------------------
\* The subscriber.  A number is printed as num / den.  An int and a short are
\* printed in full, a float with the multiple of 1 / Unit that is nearest; the
\* quotient is not exact, so halfway between two multiples it is either.
PowerOfTen(k) == LET n[i \in 0..k] == IF i = 0 THEN 1 ELSE 10 * n[i - 1] IN n[k]
Unit == PowerOfTen(Decimals)
Nearest(num, den) ==
  LET below == (num * Unit) \div den
  IN {n \in {below, below + 1} : 2 * (num * Unit - n * den) \in (-den)..den}

\* It wraps around, and can be negative or 0.
my_pow(power) ==
  LET res[i \in 0..power] == IF i = 0 THEN 1 ELSE Signed(10 * res[i - 1])
  IN res[power]

ShownInt(msg) == [num |-> Signed(ntoh(Host(msg.data), 4)), den |-> 1]
ShownShort(msg) == [num |-> ntoh(Host(msg.data), 2), den |-> 100]
ShownFloats(msg) ==
  LET temp_int == ntoh(Host(SubSeq(msg.data, 2, 5)), 4)
      den == my_pow(msg.data[6])
      num == IF (msg.data[1] # 0) # (den < 0) THEN -temp_int ELSE temp_int
  IN IF den = 0
       THEN {[num |-> num, den |-> 0]}
       ELSE {[num |-> n, den |-> Unit] : n \in Nearest(num, IF den < 0 THEN -den ELSE den)}

\* The copy of the text is not terminated: a NUL may follow it, or not.
ShownTexts(msg) == {CString(msg.data \o behind) : behind \in {<<0>>, <<JUNK, 0>>}}

\* What may be printed for a publication.
Values(msg) ==
  CASE msg.type = INT   -> {ShownInt(msg)}
    [] msg.type = SHORT -> {ShownShort(msg)}
    [] msg.type = FLOAT -> ShownFloats(msg)
    [] msg.type = TEXT  -> ShownTexts(msg)
    [] OTHER -> {}
ShownTopic(msg) == CString(msg.topic)

\* What extract_server_to_client_header finds out about the sender.
ShownAddr(sent) == Bytes(ntoh(sent.udp_ip, 4), 4)
ShownPort(sent) == ntoh(sent.udp_port, 2)
=============================================================================
