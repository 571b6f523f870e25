-------------------------------- MODULE Wire --------------------------------
(***************************************************************************)
(* The TCP connections between subscribers and the server, and the headers *)
(* of include/util.h that travel on them.  A connection is named by the    *)
(* subscriber process that opened it.  TCP is external: a reliable byte    *)
(* stream without record boundaries, so one recv() may return several      *)
(* messages at once, of which both programs look at the first only.        *)
(***************************************************************************)
EXTENDS Naturals, Sequences

CONSTANTS Conns,   \* connections, one per subscriber process ever started
          Ids,     \* client identifiers, argv[1] of a subscriber
          NoId,    \* the id field of a message that carries none
          Topics   \* topic names, non-empty sequences of characters

ASSUME WireAssumption ==
  /\ NoId \notin Ids
  /\ \A t \in Topics : t \in Seq(Nat) /\ t # << >>

VARIABLES c2s,     \* bytes sent by the subscriber, not yet read by the server
          s2c,     \* bytes sent by the server, not yet read by the subscriber
          cliEnd,  \* the subscriber's end of the connection
          srvEnd   \* the server's end; "backlog" until accept() returns it

wireVars == <<c2s, s2c, cliEnd, srvEnd>>

\* client_to_server_hdr.type
SUBSCRIBE   == 0
UNSUBSCRIBE == 1
ID_REPLY    == 2
DISCONNECT  == 3
ACK         == 4

\* server_to_client_hdr.type; payload types 1..3 behave like 0 on the wire
DATA       == 0
REFUSED    == 4
ID_REQUEST == 5
RESPONSE   == 6

\* A topic as it stands in a zeroed buffer: a name or the empty string.
NoTopic == << >>

\* Only the answer to the server's request carries an identifier.
C2S == {m \in [type : 0..4, topic : Topics \cup {NoTopic}, sf : {0, 1}, id : Ids \cup {NoId}] :
          m.type = ID_REPLY <=> m.id \in Ids}
\* n is the number of the publication a DATA message carries, 0 for no data.
S2C == [type : 0..6, n : Nat]

Command(type, topic, sf) == [type |-> type, topic |-> topic, sf |-> sf, id |-> NoId]
IdReply(id) == [type |-> ID_REPLY, topic |-> NoTopic, sf |-> 0, id |-> id]
Control(type) == [type |-> type, n |-> 0]
Publication(n) == [type |-> DATA, n |-> n]

\* What a buffer cleared by memset() holds when recv() puts nothing in it.
ZeroC2S == Command(0, NoTopic, 0)
ZeroS2C == Control(0)

WireTypeOK ==
  /\ c2s \in [Conns -> Seq(C2S)]
  /\ s2c \in [Conns -> Seq(S2C)]
  /\ cliEnd \in [Conns -> {"none", "open", "closed"}]
  /\ srvEnd \in [Conns -> {"none", "backlog", "open", "closed"}]

WireInit ==
  /\ c2s = [p \in Conns |-> << >>]
  /\ s2c = [p \in Conns |-> << >>]
  /\ cliEnd = [p \in Conns |-> "none"]
  /\ srvEnd = [p \in Conns |-> "none"]

-----------------------------------------------------------------------------
\* recv() on the server's end of p: it returns when bytes are there, or with
\* nothing once the subscriber's process is gone.
ServerMayRecv(p) == c2s[p] # << >> \/ cliEnd[p] = "closed"

\* The header the server then sees.
Incoming(p) == IF c2s[p] = << >> THEN ZeroC2S ELSE Head(c2s[p])

\* The channels that may result: recv() took some non-empty part of the bytes.
AfterServerRecv(p) ==
  IF c2s[p] = << >>
    THEN {c2s}
    ELSE {[c2s EXCEPT ![p] = SubSeq(@, k + 1, Len(@))] : k \in 1..Len(c2s[p])}

\* recv() on the subscriber's end.
ClientMayRecv(p) == s2c[p] # << >> \/ srvEnd[p] = "closed"

Arrived(p) == IF s2c[p] = << >> THEN ZeroS2C ELSE Head(s2c[p])

\* A recv() bounded by the length of one header, and an unbounded one.
AfterClientRecvOne(p) == [s2c EXCEPT ![p] = SubSeq(@, 2, Len(@))]
AfterClientRecv(p) ==
  IF s2c[p] = << >>
    THEN {s2c}
    ELSE {[s2c EXCEPT ![p] = SubSeq(@, k + 1, Len(@))] : k \in 1..Len(s2c[p])}

\* send(): bytes for a closed peer vanish.
ToServer(p, m) == IF srvEnd[p] = "closed" THEN c2s ELSE [c2s EXCEPT ![p] = Append(@, m)]
ToClient(p, m) == IF cliEnd[p] = "closed" THEN s2c ELSE [s2c EXCEPT ![p] = Append(@, m)]
=============================================================================
