----------------------------- MODULE MCFormats ------------------------------
(***************************************************************************)
(* An instance of Formats for TLC: bytes of three bits, so that an int has *)
(* 12 and holds powers of ten up to the third, topics of up to four        *)
(* characters, texts of up to nine, and the boundaries of each format.     *)
(***************************************************************************)
EXTENDS Formats

MCTopics == {<<1, 0, 0, 0>>, <<1, 2, 0, 0>>, <<2, 2, 1, 3>>}
MCWords == {<<a, b, c, d>> : a \in {0, 3, 4, 7}, b, d \in {0, 7}, c \in {0, 1, 7}}
MCTexts == {[i \in 1..n |-> 1] : n \in 0..9} \cup {<<2, 0>>, <<3, 1, 2>>}
MCSenders == {[addr |-> <<1, 2, 3, 4>>, port |-> <<5, 6>>]}
MCDatagrams ==
  {<< >>}
    \cup {<<1, 2, 0, 0, INT, sign>> \o word : sign \in {0, 1}, word \in MCWords}
    \cup {topic \o <<SHORT, a, b>> : topic \in MCTopics, a, b \in {0, 3, 4, 7}}
    \cup {<<1, 2, 0, 0, FLOAT, sign>> \o word \o <<power>> :
            sign \in {0, 1}, word \in {w \in MCWords : w[4] = 7}, power \in 0..5}
    \cup {<<1, 2, 0, 0, type, 2, 0, m, 1, 7, power>> : type \in {INT, FLOAT}, m \in {0, 7}, power \in 0..2}
    \cup {topic \o <<TEXT>> \o text : topic \in MCTopics, text \in MCTexts}
    \cup {topic \o <<type>> : topic \in MCTopics, type \in {4, 5}}
    \cup {<<1>>, <<2, 2, 1, 3, SHORT>>, <<1, 2, 0, 0, FLOAT, 1, 0, 3>>}

\* A number wider than a byte, a negative one, one that a long does not hold.
MCNumbers == {<< >>, <<"9">>, <<"-", "1">>, [i \in 1..7 |-> "9"]}

\* A flag without a topic would be a topic.
MCLines ==
  {line \in [indent : {0, 1},
             word : {SUBSCRIBE, UNSUBSCRIBE, EXIT, SUBSCRIBE \o <<"a", "a", "a">>, <<"a">>},
             gap : 1..3,
             topic : {<< >>, <<"a">>, <<"a", "1">>, <<"a", "b", "c", "d">>, <<"a", "b", "c", "d", "e">>},
             flag : MCNumbers,
             more : {<< >>, UNSUBSCRIBE \o <<"\n">>}] :
     line.topic = << >> => line.flag = << >> /\ line.gap = 1}
MCChar == {" ", "\n", "a", "b", "c", "d", "e", "s", "u", "x", "z", "0", "1", "9", "-"}
MCFlags == {0, -1}
MCStaleTopics == {<< >>, <<"z">>}
=============================================================================
