# Verification of the client-server broker

The repository is a small publish/subscribe broker in C. Publishers send UDP
datagrams with a topic and a value to one **server** (`server.c`,
`server_util.c`); **subscribers** (`subscriber.c`, `subscriber_util.c`) hold a
TCP connection to it, subscribe to topics and print what is published on them.
A subscriber that subscribed with `sf = 1` and left gets what it missed when it
comes back with the same identifier. This directory holds TLA+ models of both
programs and of the connections between them, the TLC configurations that check
them, and proofs that TLAPS checks.

## Inventory

| component | state | operations | what makes it correct |
|---|---|---|---|
| select loop (`server.c:58-122`) | `read_fds`, `tmp_fds`, `fdmax` | select, one turn per ready descriptor in ascending order | no watched socket is ignored, no turn blocks on a socket with nothing to read |
| connection requests (`server_util.c:188-249`) | `clients_container`, the new socket | accept, ask for the identifier, add / refuse / bring back a client, empty its queue | one client per identifier, one socket per online client, queued publications in order and once |
| forwarding (`server_util.c:125-166`) | each client's topics and queue | match, send and wait for the acknowledgement, or queue | every subscriber served, none twice, nothing queued for an online client |
| client commands (`server_util.c:272-347`, `server.c:100-114`) | topic lists, `online`, `sock` | subscribe, unsubscribe, exit, the answer | the list says what the user asked for, every command is answered |
| server exit (`server_util.c:251-270`) | all clients | farewell, acknowledgement, close | every client is told |
| topic lists (`LinkedList.c:157-177`, `server_util.c:284-334`) | head, tail, nodes | append, change `sf`, unlink | the tail names the last node |
| subscriber (`subscriber.c`, `subscriber_util.c`) | where it blocks, what it printed | identify, commands, print and acknowledge, leave | each wait gets the header it waits for |
| wire (`include/util.h`) | bytes under way in both directions | `send`, `recv` | a message is read as what it was sent as |
| payloads (`build_msg`, `build_sentBuffer`, `extract_server_to_client_header`, `my_pow`) | buffers | take apart, put together, compute what is printed | the sender, topic and value printed are those published; no array is overrun |
| prompt (`subscriber_util.c:3-43`) | the line read, and `sf` and `cls_hdr` of `main()`, which outlive a turn of the loop | scan a word, a topic, a flag | what is sent is what was typed |
| generic list functions (`LinkedList.c`, `remove_by_id`) | nodes in the heap, `head`, `tail`, `size` | insert, remove, free | pointers and size agree; called by the programs: `init_list`, `add_last_improved`, `remove_first` |
| publisher, test driver, build | - | - | environment, or not part of the system |

The programs share no memory; they meet in the TCP streams (one per subscriber
process) and in the server's UDP socket. What is hard about them is that **both
block in `recv()` inside a handler**, waiting for one particular answer on a
stream that also carries everything else: the server waits for an identifier
(`server_util.c:213`) or an acknowledgement (`:146`, `:181`, `:263`), the
subscriber for the answer to a command (`subscriber_util.c:24`, `:38`,
`subscriber.c:76`). Each looks at the first header of what `recv()` returned and
drops the rest. Add processes that may be killed, clients that come back,
counters that stand for sets (`fdmax`), and a list whose tail pointer one of its
operations forgets. `PROJECT.json` lists these hazards line by line.

## Modules

| module | models | state |
|---|---|---|
| `Wire` | the headers of `util.h`, `send()` and `recv()` on one connection per subscriber process | `c2s`, `s2c` (messages under way), `cliEnd`, `srvEnd` |
| `TopicList` | `subscribed_topics`: search, append, change, remove, and the write through a freed tail | none: operators on `[nodes, tail]` |
| `Subscriber` | the subscriber program, one process per connection | `spc` (where it blocks), `shown` (printed, per identifier), `typed` (bound) |
| `Server` | the server program | `pc` (where it blocks), `clients`, `file` (descriptor table), `read_fds`, `tmp_fds`, `fdmax`, `new_sockfd`, `at` (the walk's client), `cur` (datagram in hand), `udp`, `malformed` (behind these waits a datagram the server cannot take), `stdin`, and `pub` (history: topics in order of arrival) |
| `Broker` | the composition, the environment, fairness, the properties and the refinement mapping | - |
| `Delivery` | abstract: what the broker promises each identifier | `pub`, `wants`, `next`, `owed`, `shown` |
| `LinkedList` | the lists in memory: every function of `LinkedList.c` that changes one, and the edits `server_util.c` makes by hand | `heap`, `live` (nodes of the lists), `kept` (nodes `remove_first` has handed out), `lists`, `edited` |
| `ListSpec` | abstract: what those functions and edits do to sequences | `lists` |
| `Payload` | a datagram taken apart, relayed and shown | none: operators on sequences of bytes |
| `Prompt` | `sscanf()` on a typed line | none: operators on sequences of characters |
| `Formats` | one subscriber and its data: typed lines become headers, datagrams lines on the screen | `sf`, `cls_hdr`, `input`, `output` |
| `MCBroker`, `MCLinkedList`, `MCFormats` | values for TLC | - |
| `Dialogue`, `Ordering`, `Pacing` | the inductive invariants of the delivery properties, each on top of the one before: what is under way between the two ends of a connection, in which order it is, and who waits for it | none: predicates on the state of `Broker` |
| `BrokerProofs`, `DialogueProofs`, `OrderingProofs`, `PacingProofs`, `RefinementProofs`, `DeliveryProofs`, `LinkedListProofs`, `FormatsProofs` | theorems | - |

`Broker` extends `Server` and `Subscriber`, both of which extend `Wire`, and
instantiates `Delivery`; `Dialogue`, `Ordering` and `Pacing` extend it in this order. `LinkedList` extends `TopicList` and instantiates
`ListSpec`. `Formats` extends `Payload` and `Prompt`. The three state machines
meet where one's abstraction is another's subject: a list is a sequence in
`Server` and nodes and pointers in `LinkedList`; a publication is a number in
`Broker` and bytes in `Formats`; a command is a header in `Subscriber` and a
line of text in `Formats`.

**Granularity.** An action runs from one point where the process may block or
turn to another peer to the next. `manage_connection_request` is thus
`AcceptConnection` (up to the `recv()` of the identifier), then `NewClient`,
`RefuseClient` or `ReturnClient`; the latter leads through `SendQueued` and
`AckQueued` to `QueueEmptied`. `send_data` is `ReceiveDatagram`, then for each
client in turn `Skip`, `Enqueue`, or `Forward` and `AckForward`, then
`Forwarded`. `close_all_sockets` is `ReceiveExit`, `SayBye`, `AckBye`, `Stop`.
A command is one action, `ManageCommand` or `ManageExit`, with the answer that
`main()` sends. The ways out through `DIE` once the loop runs, and through SIGPIPE
on a `send()` to a process that is gone, are actions that end the server:
`AcceptFails`, `ReceiveMalformed` (an empty datagram; a type above 3, which ends it
without `DIE`), `NoIdentity`, `IdentityUnrefusable`, `SendQueuedFails`,
`ForwardFails`, `ByeFails`, `LackAck`, `ResponseFails`. Left out are the failures
of the system alone: `select()`, `read()` and `recvfrom()` returning -1. `send()` to a process that is gone may
succeed once; so the failing actions are alternatives to the succeeding ones.

**Data.** A datagram is its number in order of arrival and its topic; a lost
datagram is one that was never published. A topic is a non-empty sequence of
characters, because the program's comparison depends on characters and lengths.
`recv()` takes any non-empty number of whole messages, and the first one counts;
the bounded `recv()` of a command's answer takes one. A buffer nothing was read
into is all zeroes: to the server that is "subscribe to the empty topic", to the
subscriber an INT publication, recorded as number 0 and called a phantom.

**Malformed datagrams.** `recvfrom()` returns 0 for an empty datagram, and
`DIE(ret <= 0)` (`server.c:82`) ends the server. For a type above 3 `build_msg` sets
neither data nor length, and `build_sentBuffer` copies a length that was never set
from NULL (`server_util.c:122`). `Server` takes that length to be other than 0, so
the process ends; that it may be 0, so that a header without data is relayed, is an
outcome in `Formats` (`ignored` and, for type 4, `ended`). One such datagram may
arrive, behind the ones that wait; the server ends there, so no second one matters.

**Freed tail.** After the last node of a non-empty list has been removed its
tail names freed memory. What a write through it does is undefined; the model
takes three outcomes: the new node is lost, it is linked behind a node of
another client's list that was given that memory, or the process ends
(`Corrupt`), then or later. Every later write through the same tail chooses
again, which includes what really happens when it follows the lost node. When
the node is linked into another list, whatever followed there is cut off, and a
tail of that list that had been freed may be good again. `Appended` in
`TopicList` says which lists may result, and run `Heap` shows of the
implementation with pointers that it has no other outcome.

**Bytes and words.** In `Payload` the number of values of a byte, `STRING_LEN`,
the size of the header and `MAX_LEN_BUF` are constants. An `int` has four bytes,
is least significant byte first in memory and wraps around; conversions permute
bytes; memory that was not written is `JUNK`. Where the code writes beyond an
array the model notes it (`fits`) and assumes that nothing else is damaged; where
it reads a length that was not set, the program may end or go on.

## Runs

The runs of `Broker` use `MCBroker`. Identifier A has the processes p1 and p2, so that one
is the reconnection or the rival of the other, B has p3. `CHECK_DEADLOCK` is off
in every run because the system does stop: users and publishers are bounded and
under no obligation, a server that has nothing to do blocks in `select()`, and
it may have exited.

| run | instance | checks |
|---|---|---|
| `Paced` | 3 processes, paced, server exit, 2 datagrams, 2 commands each | `TypeOK`, `QueueNewer`, `StopAndWait`, `AbortsExplained`, `InPace`, `KeepsPromise` |
| `Wild` | 3 processes, unpaced, p1 may be killed, server exit, 1 datagram, 1 command (subscribe or exit) each | `Bookkeeping`, `FdmaxCovers`, `DescriptorsBelow`, `SocketsKnown`, `TurnNeverBlocks`, `AckAligned` |
| `Pair` | p1, p2, unpaced, p1 may be killed, server exit, 2 datagrams, 2 commands (subscribe or exit) each, fair | `InOrder`, `QueueNewer`, `StopAndWait`, `InStep`, `InSequence`, `ServerReturns` |
| `Lists` | p1, p3, paced, 1 datagram, 4 commands each on two topics, fair | `AbortsExplained`, `OwedIsShown` |
| `PacedLive` | 3 processes, paced, server exit, 1 datagram, 2 commands each, fair | `EveryWaitEnds`, `OwedIsShown` |
| `Heap` | `MCLinkedList`: 2 lists, memory for 3 nodes, either edited by hand or not | `TypeOK`, `Owned`, `Chained`, `Counted`, `Simulates` |
| `Formats` | `MCFormats`: datagrams of all types and lines of all shapes, at the boundaries | `TypeOK`, `ShownAsPublished`, `LimitsKept`, `HeaderAsTyped` |

In all five of them one of the datagrams may be malformed (`Malformed = TRUE`); in
the five runs that find a violation none is, so that it is not the reason.

*Paced* (the constant) is the discipline of `test.py`: a user types or starts a
program only when the effects of everything before are visible, and nothing is
published while a program waits for an answer. Without it (`Paced = FALSE`)
anything may happen at any time. Most of the program's guarantees do not survive
that, because the server ends; the unpaced runs show which ones hold up to
that end.

The bounds. Two processes of one identifier meet as rival, as reconnection and
as both in turn; the third gives a second client to walk to, a second socket
above or below theirs, and a second list for a freed tail to damage. Two
publications are needed for an order, and two commands for subscribe-and-leave;
four commands on two topics build a list of two nodes, remove its last one and
subscribe again. `MaxFd = 7` is one descriptor for each process; with
two identifiers and three processes all of them can be in use. `MaxMsgs` and
`MaxTyped` bound only what the environment does (`MaxMsgs` counts the malformed
datagram as well); the programs' counters have no bound of their own.

In `Heap`, three nodes in two lists are enough for insertion and removal at
the head, inside and at the end, for a freed node that the other list is given,
and for a write that hits it there. That such a write cuts off nodes behind the one
it hits needs a fourth node, and only the theorems cover it. `MaxSize = 4` bounds
the `size` of a list edited by hand, which only grows and which `Simulates` does
not look at. The lists are symmetric, and so are the cells.

In `Formats` a byte has three bits, so that an `int` has twelve and holds 10^3
and not 10^4, as the real one holds 10^9 and not 10^10: `my_pow` is right up to
one exponent and wraps beyond it. `Decimals = 2` stands for the six of `%f`: of the
exponents that fit, some are shown in full and some are rounded. `STRING_LEN` is 4: a publisher's topic has up to
four characters, with a NUL behind it or not, and a user's up to five, one more
than fits. `StringLen + 1 + 9 = MaxLenBuf`, as 50 + 1 + 1500 = 1551, so a text has
up to nine, and the header (8 of 14 bytes) leaves less room than that, as 64 of
1551 do: the datagram `sample_payloads.json` uses for its longest STRING, 1500
characters, and its topic of 50 are in the instance, scaled. Commands have room for
four characters. Sign bytes (0, 1 and one that is neither), digits of numbers,
exponents and lengths take their smallest and largest values and some between;
datagrams end before their topic, behind their type or inside their value; lines
have no, one or two spaces too many, a flag or none, a topic or none, and another
line behind them or none. A flag is a byte or wider, negative, or longer than a
`long`, and before the first one `sf` is 0 or -1.

What the properties say:

* `FdmaxCovers`, `DescriptorsBelow`: `fdmax` is incremented and decremented and
  never computed, yet it is never smaller than a watched socket, because no open
  socket is more than one above it.
* `SocketsKnown`, `Bookkeeping`: every watched socket is open and has exactly
  one online client, identifiers and sockets are not shared, the socket of a
  connection in progress is nobody else's.
* `TurnNeverBlocks`: a result of `select()` is still true when its turn comes,
  whatever the handlers before it have read.
* `StopAndWait`, `AckAligned`: at most one unacknowledged message towards a
  subscriber's main loop; an acknowledgement is under way only to a server that
  waits for that very one.
* `InOrder`, `QueueNewer`: over all its connections an identifier is shown each
  publication at most once and in the order of arrival; what is queued for it is
  newer than all it has been shown, and only a client that is offline, or whose
  queue is being emptied, has a queue.
* `AbortsExplained`: at the pace of `test.py` the server aborts only when it is told
  to exit while a client is offline, when a list has lost its tail, or when it has
  taken all datagrams before one that is empty or of no known type.
* `InStep`, `InSequence`, `InPace`: what the proofs of these rest on (see Proofs),
  checked here on an instance each.
* `KeepsPromise`: `Broker` implements `Delivery` (below).
* `ServerReturns`: no `recv()` inside a handler lasts for ever.
* `EveryWaitEnds`, `OwedIsShown`: prompts come back; what is queued for a client
  that has come back, or being forwarded with a subscriber still to be visited,
  is shown.
* `Owned`: whatever has been written through stale tails, every list reaches
  allocated nodes only, no two lists share one and none is a ring. So a freed
  tail costs subscriptions, and damage to other memory, but not a walk that
  never ends.
* `Chained`: the same as `Owned`, in the form that is inductive: each list is a
  chain of allocated nodes that hold data, apart from all others, and has a tail if
  it has a head.
* `Counted`: in the hands of `LinkedList.c` alone, `head`, `tail` and `size`
  agree; its loops follow `size` and would walk off the end otherwise. A node that
  is not freed is on a list, or it is one that `remove_first` has handed out and is on
  none. Its one caller, `empty_queue` (`server_util.c:175-185`), never frees such a
  node (`kept`): the server leaks every queued publication it delivers.
* `Simulates`: each call does to the nodes what `ListSpec` says of sequences.
* `ShownAsPublished`: through both programs, with their conversions back and
  forth and the sign put by one or the other, the user sees the sender, topic and
  value published, wherever the value and the power of ten fit an `int`, and 0 for
  what a datagram is too short for. A FLOAT is printed with `%f`, six decimals
  (`include/subscriber_util.h:18`): it is right to the last one, and exact if its
  exponent is at most 6; for 7 to 9 digits are lost. A sign byte of 0 is a plus and 1 a minus; any
  other may be either (`Signs`), because the programs differ (see Proofs). What
  follows a text may be shown with it, only if no NUL ends it.
* `HeaderAsTyped`: a line that is complete, not indented and has at most one
  space too many is sent as typed, whatever was typed before it or stands behind
  it; of a flag that fits an `int`, its lowest byte. It also says what a line that is
  not complete sends: no flag, the last flag; no topic to unsubscribe from, the last
  topic.
* `LimitsKept`: no array is overrun and no program ended but by a command or topic
  as long as its array (the NUL falls behind it), a text longer than the header
  leaves room for (1487 bytes), an empty datagram, or one of an unknown type. Each
  of these happens in the instance.

The mutants in the modules, each marked `Mutant`, are plausible mistakes in the
code; each property is violated by the one `PROJECT.json` pairs it with.

**Fairness** (`FairSpec`): weak fairness of the server and of each subscriber
process, since the operating system runs a process that can run; nothing is
asked of users, publishers or signals. So liveness never rests on somebody
typing or publishing.

### Refinement

`Broker` implements `Delivery`, whose promise has no processes, sockets or
messages: every publication is decided upon once for every identifier, in the
order of arrival; one that is wanted at that moment is owed; what is owed is
shown, in order, and never dropped. The mapping (`Promise` in `Broker`): an
identifier wants the topics its list matches, as long as it is online or the
matching node has `sf = 1`; the publication to decide upon next is the one in the
server's hand for the clients the walk has yet to reach, and the one after it for
the others; owed is what is on its way to a running process of that identifier,
followed by its queue. `Decide` is then `Forward`, `Enqueue` or `Skip` of one
client, and the end of the walk for all identifiers without a client; `Show` is
`ReceiveData`. Run `Paced` checks it, and `PromiseKept` proves it for every
instance that is paced and has nobody killed. Where the server ends
(`AbortsExplained`), nothing of what was shown or owed changes; a phantom shown
after that end is no publication and is not mapped (`Published`). Without pacing it
does not hold and is not claimed, because a process that is killed takes what was
on its way with it.

`Simulates` is the same idea call by call: `LinkedList`'s nodes, read as
sequences, change as `ListSpec` says. It is stated per operation, not as a
specification to implement, because "some operation of `ListSpec` happened" would
say much less.

### What the documentation says and the program does not do

| run | property | what happens |
|---|---|---|
| `Alike` | `OnlySubscribedTopics` | the last character of a topic is not compared (`server_util.c:139`) |
| `LostTail` | `SubscriptionRecorded` | after the last node was unsubscribed, the next subscription is acknowledged and lost (`server_util.c:305`, tail left at `:313-330`) |
| `Crossing` | `ServerSurvives` | a command typed while a publication is under way is read as the acknowledgement; the server ends (`server_util.c:150`) |
| `OfflineExit` | `ExitIsOrderly` | exit while a client is offline ends in DIE (`server_util.c:266`) |
| `Swallowed` | `EveryWaitEnds` | a command that arrives together with the identifier is dropped and never answered (`server_util.c:213`) |

## Proofs

The theorems about `Broker` are about any number of processes, identifiers,
topics, descriptors, publications and commands, from the named assumptions on the
constants only (`BrokerAssumption` and those of the modules it extends); those
about `LinkedList` about any number of lists and cells, and those about `Formats`
about any size of byte, array and header, any datagrams and any lines. The
discipline of `test.py` is never assumed of the constants: a theorem that needs
it has it in its statement.

| module | theorem | states |
|---|---|---|
| `BrokerProofs` | `BooksInOrder` | `Spec => []Bookkeeping` |
| | `TypeCorrect`, `EverySocketSeen`, `DescriptorsBounded`, `EverySocketKnown` | `TypeOK`, `FdmaxCovers`, `DescriptorsBelow`, `SocketsKnown` |
| `DialogueProofs` | `StaysInStep` | `Spec => []InStep` |
| | `AcksAligned`, `OneAtATime`, `TurnsReady` | `AckAligned`, `StopAndWait`, `TurnNeverBlocks` |
| `OrderingProofs` | `StaysInSequence` | `Spec => []InSequence` |
| | `ShownInOrder`, `QueuesNewer` | `InOrder`, `QueueNewer` |
| `PacingProofs` | `KeepsPace` | `Spec => []InPace` |
| | `AbortsHaveReasons` | `Spec => [](Killable = {} /\ EnoughFds => AbortsExplained)` |
| `RefinementProofs` | `PromiseKept` | `Tame /\ Spec => KeepsPromise` |
| `DeliveryProofs` | `ShownOnceInOrder` | of `Delivery`: `Spec => []ShownInOrder` |
| `LinkedListProofs` | `Inductive` | `Spec => []Invariant` |
| | `TypeCorrect`, `AlwaysChained`, `AlwaysOwned`, `AlwaysCounted` | `TypeOK`, `Chained`, `Owned`, `Counted` |
| | `ImplementsListSpec` | `Spec => Simulates` |
| `FormatsProofs` | `TypeCorrect` | `Spec => []TypeOK` |
| | `SendsAsTyped` | `Spec => HeaderAsTyped` |
| | `KeepsLimits` | `Spec => []LimitsKept` |
| | `ShowsPublished` | `Spec => []ShownAsPublished` |

Every safety property that a passing run checks is thus a theorem, action
properties and refinements included, two of them under the hypotheses in the table.

Among the invariants of `Broker`, `Bookkeeping`, `InStep`,
`InSequence` and `InPace` build on one another: each is inductive relative to those
before it, so its proof takes these as facts of the state before the step and
needs to show again only its own.

**Bookkeeping.** None of its four properties is inductive alone. That `fdmax + 1`
covers a new socket (`FdmaxCovers`) needs the bound on what `accept()` may
return, hence `DescriptorsBelow`: the descriptor below the lowest free one is in
use, and so at most `fdmax`. That `SocketsKnown` survives `ReturnClient` and
`RefuseClient` needs the new socket to be nobody's (`Settling`); that the steps
of a walk are about a client at all needs its position (`Placed`); and that a
command leaves the clients well typed needs its socket to have a peer, which is
`SocketsKnown` again. The proof has a lemma per group of actions, on top of
lemmas about the operators: `recv()` and `send()` keep channels well typed,
`ListType` shows that subscribing and unsubscribing keep the tail within the
list, `CommandType` that a command changes lists only.

**InStep.** `StopAndWait` and `AckAligned` speak of one direction of a connection
each, and neither is kept without the other: the server may send because nothing
it sent is unread, which it knows because it has read the acknowledgement, which
must not have been the one of an earlier message. `Conversing` says for each
connection, by where its two programs stand, everything that may be under way in
both directions (`Ends`, `Down`, `Up`): a command typed while a publication is
coming is the one message more, and it is why `Down` allows two. `FilesMatch`
ties descriptors to connections, so that the server's step on a descriptor is a
step of one conversation and leaves the others alone; `PeersOpen` gives the
walks an open peer. `TurnNeverBlocks` needs what `select()` found to stay
(`StaysReady`): the handlers between `select()` and a socket's turn read from other
sockets only to take an acknowledgement, and no acknowledgement was there to
make the socket ready.

**InSequence.** For an identifier, across all its processes, what was shown is
older than what is under way (`CarriedNewer`), that is older than its queue
(`QueuesSorted`), and the queue is older than what the walk has yet to decide
upon for this client (`Due`, `ShownBefore`). Without the one in the middle a
reconnection could overtake; without `Due`, which differs between clients
behind and before the walk's position, `QueueNewer` would not survive `Enqueue`.
`OneCarried` says that there is only one publication under way in the whole
system, which is what stop-and-wait gives; `Named` that a process and the client
it is taken for have the same identifier; `Numbered` that the datagrams waiting
in the UDP socket follow the one in hand. All this holds without any discipline
and with processes killed at any moment.

**InPace.** What holds in addition when users wait their turn and nobody is killed
(`Tame`): one process waits at a time, what it waits for is under way or its turn
will come (`OneWaits`, `Served`); the server has no connection to a process that
is gone (`Attended`); every loss of the server was announced (`Dismissed`, `Farewell`).
From these, each way for the server to end is excluded in turn (lemma
`WaysToEnd`): the identifier and the acknowledgements do come, and no
`send()` has lost its peer. What remains are the farewell to
a client without a socket, the write through a freed tail and the malformed
datagram, which is `AbortsExplained`. Two hypotheses of `AbortsHaveReasons` are not in that
property and not for the code to keep: `Killable = {}`, because a killed process
takes the server with it (`server.c:108`), and `EnoughFds`, a free descriptor for
every process ever started, because `accept()` fails without one and the server
ends (`server_util.c:198`). The runs that check `AbortsExplained` satisfy both.
`InPace` also says that a phantom is the last thing a user is shown, after the
server's end.

**The refinement.** `PromiseKept` is a step simulation. From the four invariants
(together `Calm`) follow facts that put the mapping in simple terms (`Mapped`): an
identifier has at most one client, whose queue `Queued` is; what is under way is
a set of at most one publication; `NextFor` is the datagram in hand for those the
walk has yet to reach, and one more than what has been taken for everybody else. Each action of the server and of a
subscriber then has a lemma (`...Refines`, `...Stutters`) that says which step of
`Delivery` it is: a datagram's arrival is `Arrive`; `Skip`, `Enqueue` and `Forward`
are `Decide` of one identifier; `Forwarded` is `Decide` of all identifiers without a
client, or nothing if there are none; `ReceiveData` is `Show`; a command, a
departure and a return are `Change` of what one identifier wants, or nothing; all else
leaves the four mapped variables alone. `SendQueued` is among the latter, as what
leaves the queue is under way in the same step; here it matters that nothing else
is under way to that client. The hypothesis `Tame` is that of
the property: without it the refinement is false.

**Delivery.** `ShownOnceInOrder`: the invariant, `Sound`, says of what has been
shown and what is owed together that it is increasing and older than what is to
be decided upon next. So whatever implements `Delivery` inherits this order, and
`PromiseKept` shows that the broker at its pace does.

**The list in memory.** `Invariant` is `TypeOK`, `Chained` and `Counted`. `Owned`,
which says who reaches a node, is what matters and is not inductive: it does not say
that a walk along `next` ends in NULL rather than in a cell that holds nothing, and
the next insertion at such an end would break it. `Chained` names the whole path of
each list. What a call does to the paths is proved once (`Replaced` and `OnlyList`:
one list gets another path, the others keep theirs), and then for the ways the code
relinks nodes: insertion (`IsInserted`), removal, and the write through a stale tail
that cuts another list off behind the node it hits (`CutOff`). `CountedAs` carries
`Counted` along: a call that changes its own list by one node changes its `size` by
one, and a node that leaves a list is freed or kept. Since a path determines what `ListSpec` sees (`View`), the same lemmas give
`Simulates`: each function, and each edit by hand, changes the sequence as
`ListSpec` says, whatever the stale tail hit (`Lands`, `Grafted`).

A list's nodes are found by following `next` n times, a recursive function
(`Steps`). That the recursion has a solution, and that a path of the memory is what
it computes, is shown by the smallest counterexample (lemma `Smallest`): if a
property of n fails for some n, it holds before the first such n, which the step
then contradicts. The induction theorems of the library would need an operator as
an argument, which no installed prover can instantiate.

**The formats.** The assumptions are what the code's arrays and the environment
give. `PayloadAssumption`: an `int` is four bytes, types fit a byte, the header holds
a topic and the buffer a header and the longest number (64 > 51 and 1551 >= 70).
`FormatsAssumption`: the command's array is not longer than the topic's (14 and 50);
datagrams are bytes; a line is a word that is not empty, spaces, a topic and a flag
without white space in them, and anything behind the new line. None bounds a length.

`SendsAsTyped` and `KeepsLimits` rest on what `sscanf()` finds in a line put together
from such parts (`CutWord`, `SkipBlank`, `WordBehind`): a word, then its topic
(`TopicScanned`), or a part of what was read along with the line if there is no topic
(`TopicMisread`), then a number one space further on (`FlagScanned`) or none
(`FlagMissing`); what an `int` holds is stored as it is (`StoredIs`). `LimitsKept` also needs that the program has answered only what has
arrived (`Paired`).

`ShowsPublished` follows a datagram through both programs. `Solvable` shows by the
smallest counterexample that the recursive functions exist, and the lemmas behind it
what they compute: storing a number and reading it back is the identity on the
numbers that fit (`HostStored`, `IntStored`, from `OffAndOn`); a change of byte order
reads the digits from the other end (`OtherOrder`, `NetworkOrder`), and two changes
cancel out (`BackAgain`); taking a number to be unsigned, putting a sign and taking
it to be signed yields the signed number when it fits (`SignPut`, `SignChanged`,
from `SignedIs`); `my_pow` is the power of ten as long as that fits an `int`, because
all smaller ones do (`PowerIs`); the multiple of 10^-6 that is printed is within half a
unit of the number (`RoundedWell`), and is the number itself when that is such a
multiple, as two of them are a unit apart (`NoOther`, `PowerDivides`); a C string ends at its first NUL (`NulOrEnd`), so
the topic survives its copy into an array that may not end with one (`TopicShown`)
and the text may be followed by what was behind it (`TextShown`).

The first attempt at `ShowsPublished` failed: for a FLOAT the subscriber takes any sign
byte but 0 for a minus (`subscriber.c:124`), for an INT the server takes any but 1 for a
plus (`server_util.c:80`). The property as it was held in its run only because that had
no other sign bytes. No document says what they would mean, so this is a hazard and no
finding, `ShownAsPublished` allows either for them, and the run now has them.

**Only model-checked.** `ServerReturns`, `EveryWaitEnds` and `OwedIsShown` are
liveness under fairness, which this prover cannot do.

## Not modelled

* A header or a publication cut in two by TCP: `recv()` returns whole messages.
  With headers of a few dozen bytes and `TCP_NODELAY` asked for it is rare, and
  every line of both programs depends on it.
* The limit of the listen backlog (fewer processes than `MAX_CLIENTS` here), and
  `FD_SETSIZE`, reached after about a thousand reconnections.
* The `double` a FLOAT or a SHORT is computed in. A quotient halfway between two
  numbers of six decimals may be printed as either (`Nearest`); elsewhere a `double`
  is exact enough for every exponent up to 9 and for every SHORT. Beyond 9, where
  `my_pow` has wrapped, the last decimal may differ; no property speaks of it.
* What the C standard leaves undefined of `sscanf("%d")`: a number that no `int` holds
  is stored as the GNU library does it (`Stored`).
* End of file on standard input: the subscriber's loop spins and prints "Wrong
  command.", the server's spins; no state changes.
* `read_fds` of the subscriber, filled without `FD_ZERO`: the loop acts on two bits
  and sets both; a stray bit of another descriptor can only make it spin.
* Start-up errors, argument parsing, socket options; lines other than `exit`
  typed into the server, which it ignores.
* `exist`, `print_int64_t_linkedlist` and `print_string_linkedlist`, which change
  nothing and are never called; NULL for a list, which no caller passes.
* What damage follows a write beyond an array, and the server reading on behind a
  topic of 50 characters: `Formats` notes that it happens.
* `udp_client.py` and `test.py` beyond what they do to the system: a datagram
  arrives, a user types, an effect is awaited.

A process makes one connection; a user who reconnects starts another process with
the same identifier.

## Plan

Done: all modules above, and a theorem for every safety property the passing runs
check. What could follow:

1. an action property of `Broker`: a client's queue shrinks only while its user is
   being given it, and grows only by the datagram in hand;
2. `EnoughFds` from the processes that are open at one time instead of all that were
   ever started;
3. headers cut in two by the stream, in `Wire`.
