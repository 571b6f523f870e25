------------------------------- MODULE Pacing -------------------------------
(***************************************************************************)
(* What holds in addition while users wait their turn and nobody is killed *)
(* (as in test.py): the inductive invariant behind AbortsExplained and     *)
(* KeepsPromise of Broker, on top of those of Dialogue and Ordering.  At   *)
(* most one process waits for an answer at a time, nothing else is under   *)
(* way meanwhile, and no process leaves a connection the server still uses.*)
(***************************************************************************)
EXTENDS Ordering, FiniteSets

\* The discipline.
Tame == Paced /\ Killable = {}

\* Nothing is under way on this connection.
Still(q) ==
  /\ srvEnd[q] # "backlog"
  /\ cliEnd[q] = "open" => c2s[q] = << >> /\ s2c[q] = << >>

\* What this process waits for is on its way, or its turn will come.
Served(p) ==
  \/ spc[p] = "await_request" /\ pc = "loop" /\ srvEnd[p] = "backlog"
  \/ spc[p] = "await_request" /\ Joining(p) /\ s2c[p] # << >>
  \/ /\ spc[p] # "await_request" /\ pc = "loop" /\ srvEnd[p] = "open"
     /\ s2c[p] = << >> /\ c2s[p] # << >>
     /\ Head(c2s[p]).type = DISCONNECT <=> spc[p] = "await_exit"
  \/ /\ spc[p] # "await_request" /\ pc = "loop"
     /\ srvEnd[p] = IF spc[p] = "await_exit" THEN "closed" ELSE "open"
     /\ s2c[p] # << >> /\ Head(s2c[p]).type = RESPONSE

-----------------------------------------------------------------------------
\* One process waits at a time, and everything else waits for it.
OneWaits ==
  \A p \in Conns : spc[p] \in Waiting =>
    /\ Served(p) /\ udp = << >> /\ ~stdin
    /\ \A q \in Conns : q # p => spc[q] \notin Waiting /\ Still(q)

\* A process the server has a connection to has not left, unless the server is
\* about to read its answer to the farewell.
Attended ==
  \A p \in Conns : srvEnd[p] \in {"backlog", "open"} /\ cliEnd[p] = "closed" =>
    pc = "bye_ack" /\ Acking(p)

\* Where the farewell stands: sent to a process in its main loop, or answered.
Farewell ==
  /\ \A p \in Conns : \A k \in 1..Len(s2c[p]) :
       s2c[p][k].type = REFUSED /\ srvEnd[p] = "open" => pc = "bye_ack"
  /\ \A p \in Conns : pc = "bye_ack" /\ Acking(p) =>
       \/ /\ spc[p] = "loop" /\ c2s[p] = << >>
          /\ s2c[p] # << >> /\ Head(s2c[p]).type = REFUSED
       \/ cliEnd[p] = "closed" /\ c2s[p] # << >> /\ Head(c2s[p]).type = ACK

\* A process in its main loop has lost the server only by a refusal, which it
\* has yet to read.
Dismissed ==
  \A p \in Conns : spc[p] = "loop" /\ srvEnd[p] = "closed" =>
    s2c[p] # << >> /\ Head(s2c[p]).type = REFUSED

\* What select() found on the other descriptors is still there.
Announced ==
  /\ TCP \in tmp_fds => \E p \in Conns : srvEnd[p] = "backlog"
  /\ STDIN \in tmp_fds \/ pc \in {"bye", "bye_ack"} => stdin
  /\ \A k \in 1..Len(clients) : clients[k].sock = -1 => ~clients[k].online

\* All of this while the server runs; its end takes nothing with it.
Pace ==
  /\ pc \notin Ended => OneWaits /\ Attended /\ Farewell /\ Dismissed /\ Announced
  /\ pc \in Ended => \A p \in Conns : Carrying(p) = {}
  /\ pc \notin {"deliver", "await_ack"} => cur = 0

\* A phantom is the last thing a user is shown, after the server has ended.
Phantoms ==
  \A i \in Ids : \A j \in 1..Len(shown[i]) :
    shown[i][j] = 0 => j = Len(shown[i]) /\ pc \in Ended

\* The inductive invariant, beside Bookkeeping, InStep and InSequence.
InPace == Tame => Pace /\ Phantoms

\* There is a descriptor for every process that is ever started.
EnoughFds == IsFiniteSet(Conns) /\ Cardinality(Conns) <= Cardinality(Fds)
=============================================================================
