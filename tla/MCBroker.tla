------------------------------ MODULE MCBroker ------------------------------
(***************************************************************************)
(* Instances of Broker for TLC: three processes, two of which carry the    *)
(* same identifier, so that one of them is a reconnection or a rival.      *)
(***************************************************************************)
EXTENDS Pacing

CONSTANTS p1, p2, p3, A, B

\* Topics of two characters: Red and Blue differ in the first, Red and Rod
\* in the last only.
Red == <<1, 1>>
Rod == <<1, 2>>
Blue == <<2, 2>>

MCIdOf == [p \in Conns |-> IF p = p3 THEN B ELSE A]
MCTopics == {Red, Blue}
MCAlike == {Red, Rod}

\* What users type: a session, a list of two topics, a
\* subscription and the exit, a subscription.
MCSession == {Command(SUBSCRIBE, Red, 1), Command(UNSUBSCRIBE, Red, 0),
              Command(DISCONNECT, NoTopic, 0)}
MCEditing == {Command(SUBSCRIBE, Red, 1), Command(SUBSCRIBE, Blue, 0),
              Command(UNSUBSCRIBE, Blue, 0)}
MCVisiting == {Command(SUBSCRIBE, Red, 1), Command(DISCONNECT, NoTopic, 0)}
MCSubscribing == {Command(SUBSCRIBE, Red, 1)}
=============================================================================
