------------------------------ MODULE Delivery ------------------------------
(***************************************************************************)
(* What the broker promises each identifier, without processes, sockets or *)
(* messages: every publication is decided upon once, in the order of       *)
(* arrival; one on a topic the identifier wants at that moment is owed to  *)
(* it; and what is owed is shown, in order, and never dropped.             *)
(***************************************************************************)
EXTENDS Naturals, Sequences

CONSTANTS Ids, Topics

VARIABLES pub,    \* the topics of the publications, in order of arrival
          wants,  \* the topics whose publications an identifier is to get
          next,   \* the publication to be decided upon next
          owed,   \* publications to be shown to an identifier
          shown   \* publications it has been shown

vars == <<pub, wants, next, owed, shown>>

Init ==
  /\ pub = << >>
  /\ wants = [i \in Ids |-> {}]
  /\ next = [i \in Ids |-> 1]
  /\ owed = [i \in Ids |-> << >>]
  /\ shown = [i \in Ids |-> << >>]

Arrive(topic) ==
  /\ pub' = Append(pub, topic)
  /\ UNCHANGED <<wants, next, owed, shown>>

\* Several identifiers may be decided upon in one step: those the server does
\* not know at the end of its walk.
Decide(S) ==
  /\ \A i \in S : next[i] <= Len(pub)
  /\ next' = [i \in Ids |-> IF i \in S THEN next[i] + 1 ELSE next[i]]
  /\ owed' = [i \in Ids |-> IF i \in S /\ pub[next[i]] \in wants[i]
                              THEN Append(owed[i], next[i])
                              ELSE owed[i]]
  /\ UNCHANGED <<pub, wants, shown>>

Show(i) ==
  /\ owed[i] # << >>
  /\ shown' = [shown EXCEPT ![i] = Append(@, Head(owed[i]))]
  /\ owed' = [owed EXCEPT ![i] = Tail(@)]
  /\ UNCHANGED <<pub, wants, next>>

\* A command, a departure or a return changes what one identifier wants.
Change(i) ==
  /\ \E wanted \in SUBSET Topics : wants' = [wants EXCEPT ![i] = wanted]
  /\ UNCHANGED <<pub, next, owed, shown>>

Next ==
  \/ \E topic \in Topics : Arrive(topic)
  \/ \E S \in (SUBSET Ids) \ {{}} : Decide(S)
  \/ \E i \in Ids : Show(i) \/ Change(i)

Spec == Init /\ [][Next]_vars

-----------------------------------------------------------------------------
\* What follows from the promise alone: an identifier is shown publications
\* that have arrived, in their order, and none twice.
ShownInOrder ==
  \A i \in Ids : \A j, k \in 1..Len(shown[i]) :
    /\ shown[i][k] \in 1..Len(pub)
    /\ j < k => shown[i][j] < shown[i][k]
=============================================================================
