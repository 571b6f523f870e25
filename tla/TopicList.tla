----------------------------- MODULE TopicList ------------------------------
(***************************************************************************)
(* A client's subscribed_topics list (client_structure in include/util.h)  *)
(* and how server_util.c searches, extends and shortens it.  A list is the *)
(* sequence of nodes reachable from its head, and the position of the node *)
(* its tail pointer names: 0 when the tail names no node of the list.      *)
(***************************************************************************)
EXTENDS Naturals, Sequences

EmptyList == [nodes |-> << >>, tail |-> 0]

\* memcmp / strncmp of a stored name with a topic over strlen(topic) - 1
\* bytes: the last character is not compared.  For the empty topic the count
\* wraps around and strncmp compares whole strings.
Matches(stored, topic) ==
  IF topic = << >>
    THEN stored = << >>
    ELSE \A k \in 1..(Len(topic) - 1) : k <= Len(stored) /\ stored[k] = topic[k]

\* A comparison of whole names: what unsubscribe does.
MatchesExactly(stored, topic) == stored = topic

Hits(list, topic) == {i \in 1..Len(list.nodes) : Matches(list.nodes[i].topic, topic)}
First(S) == CHOOSE i \in S : \A j \in S : i <= j

\* The walk of send_data stops at the first node that matches.
Subscribed(list, topic) == Hits(list, topic) # {}
StoreForward(list, topic) == list.nodes[First(Hits(list, topic))].sf = 1

Without(nodes, k) == [i \in 1..(Len(nodes) - 1) |-> IF i < k THEN nodes[i] ELSE nodes[i + 1]]

\* add_last_improved on this list would write through a pointer to a node
\* that has been freed.
Dangling(list) == list.nodes # << >> /\ list.tail = 0

\* add_last_improved when the tail is good, or not needed: the list is empty.
AddLast(list, node) ==
  [nodes |-> Append(SubSeq(list.nodes, 1, list.tail), node), tail |-> list.tail + 1]

\* The same write when the freed node had become node k of this other list.
\* What followed node k is cut off.  If this list has a freed tail of its own,
\* the new node may be given that memory, and the tail is good again.
Grafts(list, k, node) ==
  {[nodes |-> Append(SubSeq(list.nodes, 1, k), node), tail |-> t] :
     t \in IF list.tail = 0 THEN {0, k + 1} ELSE IF list.tail <= k THEN {list.tail} ELSE {0}}

\* What may become of all the lists when add_last_improved appends to list i:
\* behind a freed tail the node is lost, or linked into another list.
Appended(lists, i, node) ==
  IF ~Dangling(lists[i])
    THEN {[lists EXCEPT ![i] = AddLast(@, node)]}
    ELSE {lists} \cup
         UNION {{[lists EXCEPT ![j] = l] :
                   l \in UNION {Grafts(lists[j], k, node) : k \in 1..Len(lists[j].nodes)}} :
                j \in DOMAIN lists \ {i}}

\* Subscribe to a topic that some node matches: only its sf changes.
SetSf(list, topic, sf) == [list EXCEPT !.nodes[First(Hits(list, topic))].sf = sf]

\* unsubscribe: unlink and free the first node with exactly this name.  Only
\* head and next pointers are updated, so a freed last node stays the tail.
Unsubscribe(list, topic) ==
  LET found == {i \in 1..Len(list.nodes) : MatchesExactly(list.nodes[i].topic, topic)}
      k == First(found)
  IN IF found = {}
       THEN list
       ELSE [nodes |-> Without(list.nodes, k),
             tail  |-> IF list.tail = k THEN 0
                       ELSE IF list.tail > k THEN list.tail - 1 ELSE list.tail]
=============================================================================
