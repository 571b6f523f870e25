------------------------------ MODULE ListSpec ------------------------------
(***************************************************************************)
(* What the functions of LinkedList.c, and the code of server_util.c that  *)
(* edits a list by hand, do to lists seen as the sequences of TopicList.   *)
(***************************************************************************)
EXTENDS TopicList

S == INSTANCE SequencesExt

CONSTANTS Lists, Node

VARIABLE lists

Init == lists = [l \in Lists |-> EmptyList]

Size(l) == Len(lists[l].nodes)
Becomes(l, nodes) == lists' = [lists EXCEPT ![l] = [nodes |-> nodes, tail |-> Len(nodes)]]

\* A position from the size on means the end, and the last node.
InsertNth(l, n, node) ==
  LET k == IF n > Size(l) THEN Size(l) ELSE n
  IN Becomes(l, S!InsertAt(lists[l].nodes, k + 1, node))
RemoveNth(l, n) ==
  LET k == IF n >= Size(l) THEN Size(l) - 1 ELSE n
  IN Becomes(l, S!RemoveAt(lists[l].nodes, k + 1))
Clear(l) == Becomes(l, << >>)

AppendNode(l, node) == lists' \in Appended(lists, l, node)
Rate(l, topic, sf) ==
  /\ Subscribed(lists[l], topic)
  /\ lists' = [lists EXCEPT ![l] = SetSf(@, topic, sf)]
Remove(l, topic) == lists' = [lists EXCEPT ![l] = Unsubscribe(@, topic)]

=============================================================================
