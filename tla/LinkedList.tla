----------------------------- MODULE LinkedList -----------------------------
(***************************************************************************)
(* The linked lists as they lie in memory: nodes with next pointers, lists *)
(* with head, tail and size (include/LinkedList.h), malloc() and free().   *)
(* Each action is one call of a function of LinkedList.c, or one edit that *)
(* server_util.c makes by hand on a list of topics.  free() leaves a node  *)
(* without contents; a write through a pointer to it changes nothing that  *)
(* is ever read, until malloc() has returned that memory again.            *)
(***************************************************************************)
EXTENDS Integers, FiniteSets, TopicList

CONSTANTS Cells,    \* memory for nodes
          NULL,
          Lists,
          Topics,
          ByHand,   \* whether lists may be edited by hand
          MaxSize   \* bound on size, which such edits never decrease

ASSUME LinkedListAssumption ==
  /\ NULL \notin Cells
  /\ IsFiniteSet(Cells)
  /\ ByHand \subseteq BOOLEAN
  /\ MaxSize \in Nat
  /\ Cardinality(Cells) <= MaxSize

VARIABLES heap,     \* what the cells hold
          live,     \* cells between malloc() and free(), but for these:
          kept,     \* what remove_first has handed to a caller that frees none
          lists,
          edited    \* the lists are edited by hand: lists of topics

vars == <<heap, live, kept, lists, edited>>

Node == [topic : Topics, sf : {0, 1}]
Pointer == Cells \cup {NULL}
Freed == [data |-> NULL, next |-> NULL]

TypeOK ==
  /\ heap \in [Cells -> [data : Node \cup {NULL}, next : Pointer]]
  /\ live \subseteq Cells
  /\ kept \subseteq Cells \ live
  /\ lists \in [Lists -> [head : Pointer, tail : Pointer, size : 0..MaxSize]]
  /\ edited \in BOOLEAN

init_list == [head |-> NULL, tail |-> NULL, size |-> 0]

Init ==
  /\ heap = [c \in Cells |-> Freed]
  /\ live = {}
  /\ kept = {}
  /\ lists = [l \in Lists |-> init_list]
  /\ edited \in ByHand

-----------------------------------------------------------------------------
\* Where a walk along next pointers that starts at p is after each step.
following(mem, p) == IF p = NULL THEN NULL ELSE mem[p].next
Steps(mem, p) ==
  LET step[i \in Nat] == IF i = 0 THEN p ELSE following(mem, step[i - 1])
  IN step

\* The node n steps behind the head, and the one before it.
At(l, n) == Steps(heap, lists[l].head)[n]
Before(l, n) == IF n = 0 THEN NULL ELSE At(l, n - 1)

\* heap with p->next = c, for a pointer p that may be NULL or stale.
Linked(p, c) == IF p \in live \cup kept THEN [heap EXCEPT ![p].next = c] ELSE heap

\* malloc() of a node.
New(c) ==
  /\ c \in Cells \ (live \cup kept)
  /\ live' = live \cup {c}
  /\ UNCHANGED kept

\* Mutant: the new node points to the one before it.
add_nth_node_backwards(l, n, c, data) ==
  LET m == IF n > lists[l].size THEN lists[l].size ELSE n
      prev == Before(l, m)
  IN /\ heap' = [Linked(prev, c) EXCEPT ![c] = [data |-> data, next |-> prev]]
     /\ lists' = [lists EXCEPT ![l] = [head |-> IF prev = NULL THEN c ELSE @.head,
                                       tail |-> IF prev = NULL THEN c ELSE @.tail,
                                       size |-> @.size + 1]]

\* Linking a new node c before the n-th, and after the last one.
add_nth_node(l, n, c, data) ==
  LET m == IF n > lists[l].size THEN lists[l].size ELSE n
      prev == Before(l, m)
      curr == At(l, m)
  IN /\ heap' = [Linked(prev, c) EXCEPT ![c] = [data |-> data, next |-> curr]]
     /\ lists' = [lists EXCEPT ![l] = [head |-> IF prev = NULL THEN c ELSE @.head,
                                       tail |-> IF curr = NULL THEN c ELSE @.tail,
                                       size |-> @.size + 1]]

\* Mutant: the tail stays where it was.
add_last_lagging(l, c, data) ==
  /\ heap' = [Linked(lists[l].tail, c) EXCEPT ![c] = [data |-> data, next |-> NULL]]
  /\ lists' = [lists EXCEPT ![l] = [head |-> IF @.head = NULL THEN c ELSE @.head,
                                    tail |-> IF @.head = NULL THEN c ELSE @.tail,
                                    size |-> @.size + 1]]

add_last(l, c, data) ==
  /\ heap' = [IF lists[l].head = NULL THEN heap ELSE Linked(lists[l].tail, c)
                EXCEPT ![c] = [data |-> data, next |-> NULL]]
  /\ lists' = [lists EXCEPT ![l] = [head |-> IF @.head = NULL THEN c ELSE @.head,
                                    tail |-> c,
                                    size |-> @.size + 1]]

\* The functions that copy the data.
add_nth_node_improved(l, n, data) ==
  n >= 0 /\ \E c \in Cells : New(c) /\ add_nth_node(l, n, c, data)
add_last_improved(l, data) == \E c \in Cells : New(c) /\ add_last(l, c, data)

\* The node goes to the caller.  The server's one is empty_queue, which reads
\* its data and drops the pointer: neither the node nor the data is freed.
remove_first(l) ==
  LET first == lists[l].head
  IN /\ first # NULL
     /\ lists' = [lists EXCEPT ![l] = [head |-> heap[first].next,
                                       tail |-> IF heap[first].next = NULL THEN NULL ELSE @.tail,
                                       size |-> @.size - 1]]
     /\ live' = live \ {first}
     /\ kept' = kept \cup {first}
     /\ UNCHANGED heap

\* The n-th node is unlinked and freed: by the edits by hand themselves, by a
\* caller of remove_nth_node as its comment asks.
Unlinked(l, n) == IF n = 0 THEN At(l, 1) ELSE lists[l].head
Drop(l, n) ==
  /\ live' = live \ {At(l, n)}
  /\ UNCHANGED kept
  /\ heap' = [Linked(Before(l, n), At(l, n + 1)) EXCEPT ![At(l, n)] = Freed]

\* Mutant: the size is left alone.
remove_nth_uncounted(l, n) ==
  /\ n >= 0
  /\ lists[l].head # NULL
  /\ LET m == IF n > lists[l].size - 1 THEN lists[l].size - 1 ELSE n
     IN /\ Drop(l, m)
        /\ lists' = [lists EXCEPT ![l].head = Unlinked(l, m),
                                  ![l].tail = IF m > 0 /\ At(l, m + 1) = NULL THEN Before(l, m) ELSE @]

remove_nth_node(l, n) ==
  /\ n >= 0
  /\ lists[l].head # NULL
  /\ LET m == IF n > lists[l].size - 1 THEN lists[l].size - 1 ELSE n
     IN /\ Drop(l, m)
        /\ lists' = [lists EXCEPT ![l] =
                       [head |-> Unlinked(l, m),
                        tail |-> IF m > 0 /\ At(l, m + 1) = NULL THEN Before(l, m) ELSE @.tail,
                        size |-> @.size - 1]]

\* The list is freed with its nodes; its user initialises a new one.
Free(S) ==
  /\ live' = live \ S
  /\ UNCHANGED kept
  /\ heap' = [c \in Cells |-> IF c \in S THEN Freed ELSE heap[c]]
free_list_improved(l) ==
  /\ Free({At(l, n) : n \in 0..(lists[l].size - 1)})
  /\ lists' = [lists EXCEPT ![l] = init_list]

-----------------------------------------------------------------------------
\* The nodes of a list, in order.
Chain(mem, p) ==
  LET length == Cardinality({n \in 0..Cardinality(Cells) : Steps(mem, p)[n] # NULL})
  IN [k \in 1..length |-> Steps(mem, p)[k - 1]]
Path(l) == Chain(heap, lists[l].head)
Length(l) == Len(Path(l))
Found(l, topic) == {n \in 0..(Length(l) - 1) : MatchesExactly(heap[At(l, n)].data.topic, topic)}

\* Mutant: the head is not moved when the first node goes.
remove_by_id_headless(l, id) ==
  /\ Found(l, id) # {}
  /\ Drop(l, First(Found(l, id)))
  /\ UNCHANGED lists

\* The same edit by remove_by_id, on the list of clients, and by unsubscribe:
\* the first node with this key; neither the tail nor the size is looked at.
remove_by_id(l, id) ==
  /\ Found(l, id) # {}
  /\ Drop(l, First(Found(l, id)))
  /\ lists' = [lists EXCEPT ![l].head = Unlinked(l, First(Found(l, id)))]

unsubscribe(l, topic) == edited /\ remove_by_id(l, topic)

\* The walk of subscribe stops at the first node that matches.
Alike(l, topic) == {n \in 0..(Length(l) - 1) : Matches(heap[At(l, n)].data.topic, topic)}
resubscribe(l, topic, sf) ==
  /\ edited
  /\ Alike(l, topic) # {}
  /\ heap' = [heap EXCEPT ![At(l, First(Alike(l, topic)))].data.sf = sf]
  /\ UNCHANGED <<live, kept, lists>>
subscribe(l, topic, sf) ==
  /\ edited
  /\ Alike(l, topic) = {}
  /\ add_last_improved(l, [topic |-> topic, sf |-> sf])

\* Lists of anything else are in the hands of LinkedList.c alone.
ByFunctions(l) ==
  /\ ~edited
  /\ \/ \E data \in Node : \/ add_last_improved(l, data)
                           \/ \E n \in (-1)..(lists[l].size + 1) : add_nth_node_improved(l, n, data)
     \/ remove_first(l)
     \/ \E n \in (-1)..(lists[l].size + 1) : remove_nth_node(l, n)
     \/ free_list_improved(l)

Next ==
  /\ UNCHANGED edited
  /\ \E l \in Lists :
       \/ ByFunctions(l)
       \/ \E topic \in Topics : unsubscribe(l, topic)
       \/ \E topic \in Topics, sf \in {0, 1} :
            \/ resubscribe(l, topic, sf)
            \/ lists[l].size < MaxSize /\ subscribe(l, topic, sf)

Spec == Init /\ [][Next]_vars

-----------------------------------------------------------------------------
\* Properties.

\* Every node that a list reaches is allocated and is reached once, whatever
\* stale tails have been written through: no list runs into freed memory, no
\* two lists share a node, none is a ring, and none has lost its tail to NULL.
Places(c) ==
  {place \in Lists \X (1..Cardinality(Cells)) :
     place[2] <= Length(place[1]) /\ Path(place[1])[place[2]] = c}
Owned ==
  /\ \A c \in Cells : Cardinality(Places(c)) <= IF c \in live THEN 1 ELSE 0
  /\ \A l \in Lists : lists[l].head # NULL => lists[l].tail # NULL

\* What follows node k of a chain s, and the chain that begins at p: each node
\* points to the next, the last one to NULL, and none comes twice.
Succ(s, k) == IF k < Len(s) THEN s[k + 1] ELSE NULL
IsChain(mem, p, s) ==
  /\ s \in Seq(Cells)
  /\ p = Succ(s, 0)
  /\ \A k \in 1..Len(s) : mem[s[k]].next = Succ(s, k)
  /\ \A j, k \in 1..Len(s) : s[j] = s[k] => j = k

\* The lists ls lie in the memory mem as these paths: chains of allocated
\* nodes with contents, no node on two of them; a list with a head has a tail.
LaidOut(mem, alive, ls, paths) ==
  /\ paths \in [Lists -> Seq(Cells)]
  /\ \A l \in Lists :
       /\ IsChain(mem, ls[l].head, paths[l])
       /\ \A k \in 1..Len(paths[l]) : paths[l][k] \in alive /\ mem[paths[l][k]].data \in Node
       /\ ls[l].head # NULL => ls[l].tail # NULL
  /\ \A l, m \in Lists : \A k \in 1..Len(paths[l]), j \in 1..Len(paths[m]) :
       paths[l][k] = paths[m][j] => l = m

\* Owned in the form a call preserves: whatever a write through a stale tail
\* hits, the lists stay chains, and apart from one another.
Chained == LaidOut(heap, live, lists, [l \in Lists |-> Path(l)])

\* In the hands of LinkedList.c a list counts its nodes and knows its last
\* one, so that no call walks off the end (the loops of add_nth_node,
\* remove_nth_node and free_list follow size, not next), and what is allocated
\* without being on a list is what remove_first has handed out: empty_queue
\* leaks each publication that it delivers, and nothing else is lost.
Counted ==
  ~edited =>
    /\ \A l \in Lists :
         /\ lists[l].size = Length(l)
         /\ lists[l].head # NULL => lists[l].tail = At(l, Length(l) - 1)
    /\ \A c \in live \cup kept : Places(c) = {} <=> c \in kept

\* The lists as sequences: what TopicList and the model of the server make of
\* them.  A tail that names none of the list's nodes is 0.
Positions(l, c) == {k \in 1..Length(l) : Path(l)[k] = c}
AsSequence(l) ==
  [nodes |-> [k \in 1..Length(l) |-> heap[Path(l)[k]].data],
   tail  |-> IF Positions(l, lists[l].tail) = {} THEN 0 ELSE First(Positions(l, lists[l].tail))]

AsSpecified == INSTANCE ListSpec WITH lists <- [l \in Lists |-> AsSequence(l)]

\* Call by call, the pointer manipulation does to the nodes what the sequence
\* operation says, freed tails included: this is what justifies TopicList.
FollowsByHand(l) ==
  /\ \A node \in Node :
       /\ subscribe(l, node.topic, node.sf) => AsSpecified!AppendNode(l, node)
       /\ resubscribe(l, node.topic, node.sf) => AsSpecified!Rate(l, node.topic, node.sf)
  /\ \A topic \in Topics : unsubscribe(l, topic) => AsSpecified!Remove(l, topic)
FollowsByFunctions(l) ==
  /\ \A node \in Node :
       /\ add_last_improved(l, node) => AsSpecified!AppendNode(l, node)
       /\ \A n \in 0..MaxSize : add_nth_node_improved(l, n, node) => AsSpecified!InsertNth(l, n, node)
  /\ \A n \in 0..MaxSize : remove_nth_node(l, n) => AsSpecified!RemoveNth(l, n)
  /\ remove_first(l) => AsSpecified!RemoveNth(l, 0)
  /\ free_list_improved(l) => AsSpecified!Clear(l)
Simulates ==
  /\ AsSpecified!Init
  /\ [][\A l \in Lists : IF edited THEN FollowsByHand(l) ELSE FollowsByFunctions(l)]_vars
=============================================================================
