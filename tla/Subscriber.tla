----------------------------- MODULE Subscriber -----------------------------
(***************************************************************************)
(* The subscriber program (subscriber.c, subscriber_util.c), one process   *)
(* per member of Conns.  Every action ends where the process would next    *)
(* block: in select() at "loop", or in a recv().                           *)
(***************************************************************************)
EXTENDS Wire

CONSTANT IdOf      \* the identifier each process was started with

ASSUME IdOfAssumption == IdOf \in [Conns -> Ids]

VARIABLES spc,     \* where the process of a connection is
          shown,   \* per identifier, the publications printed, 0 for a phantom
          typed    \* number of commands typed into a process so far

subVars == <<spc, shown, typed>>

Waiting == {"await_request", "await_response", "await_exit"}

SubTypeOK ==
  /\ spc \in [Conns -> {"off", "loop", "done", "died"} \cup Waiting]
  /\ shown \in [Ids -> Seq(Nat)]
  /\ typed \in [Conns -> Nat]

SubInit ==
  /\ spc = [p \in Conns |-> "off"]
  /\ shown = [i \in Ids |-> << >>]
  /\ typed = [p \in Conns |-> 0]

\* The process ends: exit() and return close the socket, and what was sent
\* to it is lost.
Quit(p, how, channel) ==
  /\ spc' = [spc EXCEPT ![p] = how]
  /\ cliEnd' = [cliEnd EXCEPT ![p] = "closed"]
  /\ s2c' = [channel EXCEPT ![p] = << >>]

-----------------------------------------------------------------------------
\* main() up to manage_id(): the kernel completes connect() before accept().
Connect(p) ==
  /\ spc[p] = "off"
  /\ spc' = [spc EXCEPT ![p] = "await_request"]
  /\ cliEnd' = [cliEnd EXCEPT ![p] = "open"]
  /\ srvEnd' = [srvEnd EXCEPT ![p] = "backlog"]
  /\ UNCHANGED <<c2s, s2c, shown, typed>>

\* manage_id(): answer the server's request with the identifier.
SendId(p) ==
  /\ spc[p] = "await_request"
  /\ ClientMayRecv(p)
  /\ Arrived(p).type = ID_REQUEST
  /\ s2c' \in AfterClientRecv(p)
  /\ c2s' = ToServer(p, IdReply(IdOf[p]))
  /\ spc' = [spc EXCEPT ![p] = "loop"]
  /\ UNCHANGED <<cliEnd, srvEnd, shown, typed>>

\* process_subscribe(), process_unsubscribe() and the exit command: each
\* sends its header and blocks for the server's answer.
Type(p, m, next) ==
  /\ spc[p] = "loop"
  /\ c2s' = ToServer(p, m)
  /\ spc' = [spc EXCEPT ![p] = next]
  /\ typed' = [typed EXCEPT ![p] = @ + 1]
  /\ UNCHANGED <<s2c, cliEnd, srvEnd, shown>>

TypeSubscribe(p, topic, sf) == Type(p, Command(SUBSCRIBE, topic, sf), "await_response")
TypeUnsubscribe(p, topic) == Type(p, Command(UNSUBSCRIBE, topic, 0), "await_response")

\* Mutant: the process leaves without waiting for the confirmation.
TypeExitUnconfirmed(p) ==
  /\ spc[p] = "loop"
  /\ c2s' = ToServer(p, Command(DISCONNECT, NoTopic, 0))
  /\ Quit(p, "done", s2c)
  /\ typed' = [typed EXCEPT ![p] = @ + 1]
  /\ UNCHANGED <<srvEnd, shown>>

TypeExit(p) == Type(p, Command(DISCONNECT, NoTopic, 0), "await_exit")

\* The bounded recv() of process_subscribe() and process_unsubscribe().
Answered(p) ==
  /\ spc[p] = "await_response"
  /\ ClientMayRecv(p)
  /\ Arrived(p).type = RESPONSE
  /\ s2c' = AfterClientRecvOne(p)
  /\ spc' = [spc EXCEPT ![p] = "loop"]
  /\ UNCHANGED <<c2s, cliEnd, srvEnd, shown, typed>>

\* The recv() after the exit command, then close() and return 0.
ExitAnswered(p) ==
  /\ spc[p] = "await_exit"
  /\ ClientMayRecv(p)
  /\ Arrived(p).type = RESPONSE
  /\ Quit(p, "done", s2c)
  /\ UNCHANGED <<c2s, srvEnd, shown, typed>>

\* DIE: the process was waiting for one kind of header and got another, or
\* nothing because the connection was closed.
WrongHeader(p) ==
  /\ spc[p] \in Waiting
  /\ ClientMayRecv(p)
  /\ Arrived(p).type # IF spc[p] = "await_request" THEN ID_REQUEST ELSE RESPONSE
  /\ Quit(p, "died", s2c)
  /\ UNCHANGED <<c2s, srvEnd, shown, typed>>

-----------------------------------------------------------------------------
\* The process prints publication n.  A phantom is recorded once in a row.
Show(p, n) ==
  LET log == shown[IdOf[p]]
  IN IF n = 0 /\ log # << >> /\ log[Len(log)] = 0
       THEN shown
       ELSE [shown EXCEPT ![IdOf[p]] = Append(@, n)]

\* Mutant: no acknowledgement.
ReceiveDataSilently(p) ==
  /\ spc[p] = "loop"
  /\ s2c[p] # << >>
  /\ Arrived(p).type = DATA
  /\ s2c' \in AfterClientRecv(p)
  /\ shown' = Show(p, Arrived(p).n)
  /\ UNCHANGED <<c2s, cliEnd, srvEnd, spc, typed>>

\* Mutant: the header of the last command is sent back with its own type.
ReceiveDataStaleType(p) ==
  /\ spc[p] = "loop"
  /\ s2c[p] # << >>
  /\ Arrived(p).type = DATA
  /\ s2c' \in AfterClientRecv(p)
  /\ shown' = Show(p, Arrived(p).n)
  /\ c2s' = ToServer(p, Command(SUBSCRIBE, NoTopic, 0))
  /\ UNCHANGED <<cliEnd, srvEnd, spc, typed>>

\* The main loop's recv(): a publication is printed and acknowledged.
ReceiveData(p) ==
  /\ spc[p] = "loop"
  /\ s2c[p] # << >>
  /\ Arrived(p).type = DATA
  /\ s2c' \in AfterClientRecv(p)
  /\ shown' = Show(p, Arrived(p).n)
  /\ c2s' = ToServer(p, Command(ACK, NoTopic, 0))
  /\ UNCHANGED <<cliEnd, srvEnd, spc, typed>>

\* "Connection refused", also sent by a server that stops: acknowledge, leave.
ReceiveRefused(p) ==
  /\ spc[p] = "loop"
  /\ s2c[p] # << >>
  /\ Arrived(p).type = REFUSED
  /\ c2s' = ToServer(p, Command(ACK, NoTopic, 0))
  /\ Quit(p, "done", s2c)
  /\ UNCHANGED <<srvEnd, shown, typed>>

\* The server is gone.  While recv() returns 0 the zeroed buffer is taken for
\* an INT publication; sooner or later recv() fails or the acknowledgement
\* raises SIGPIPE, before or after a phantom has been printed.
ReceiveEnd(p) ==
  /\ spc[p] = "loop"
  /\ s2c[p] = << >>
  /\ srvEnd[p] = "closed"
  /\ shown' \in {shown, Show(p, ZeroS2C.n)}
  /\ \/ Quit(p, "died", s2c)
     \/ UNCHANGED <<spc, cliEnd, s2c>>
  /\ UNCHANGED <<c2s, srvEnd, typed>>

\* The process is killed from outside (a signal, a closed terminal).
Killed(p) ==
  /\ spc[p] \notin {"off", "done", "died"}
  /\ Quit(p, "died", s2c)
  /\ UNCHANGED <<c2s, srvEnd, shown, typed>>

\* What the program does by itself, as opposed to what its user makes it do.
SubscriberStep(p) ==
  \/ SendId(p)
  \/ Answered(p)
  \/ ExitAnswered(p)
  \/ WrongHeader(p)
  \/ ReceiveData(p)
  \/ ReceiveRefused(p)
  \/ ReceiveEnd(p)
=============================================================================
