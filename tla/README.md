# coral-reef in TLA+

coral-reef is the networking module of the Coral component framework. Its `rpc`
library lets nodes use each other's instances through proxies, over ZeroMQ; its
`flow` library replicates a space of objects to subscribers. This directory
holds TLA+ modules of its protocols and tables, the TLC runs that check them and
proofs for TLAPS. Paths below are relative to the repository's root.

## The system

| Component | State | Operations | Interacts with |
|---|---|---|---|
| Remote calls (`src/rpc/ClientProxy`, `Requestor`, `ClientRequestHandler`, `ServerRequestHandler`, `Invoker`) | messages on their way, the C++ call stack of each node | blocking and asynchronous requests, `react`, dispatch, reply, timeout | everything else: it is how nodes talk |
| ZeroMQ transport (`src/zmq`) | a ROUTER socket and `_lastSender` per acceptor, a DEALER socket per connector | `send`, `receiveReply`, `receive`, `sendReply` | remote calls |
| Barrier (`BarrierManager`, `Node::raiseBarrier`, `Invoker::hitBarrier`) | capacity and hits at the raiser, `_barrierUp` at the others | raise, hit, the signals UP, HIT and DOWN | asynchronous requests, `RequestorManager` broadcasts |
| Instance table (`InstanceManager`) | containers by id, freed ids, ids by key | publish, unpublish, find, add | dispatch looks instances up, parameters add to it |
| Lease table (`LeaseManager`) | `_lessees`, `_lessors`, objects pointing at each other | add, remove, count | nobody yet (`Invoker.cpp:176`, a TODO) |
| Requestors and proxies (`RequestorManager`, `Requestor`, `ClientProxy`) | `_requestors`, `_proxies`, reference counts | get or create, destroy, disconnect | remote calls, node stop |
| Marshalling (`Marshaller`, `Demarshaller`, over the generated `Message.pb`) | a message under construction or being read, shared by nested dispatches | begin, push, marshal; demarshal, pull | remote calls |
| Node (`Node`) | the managers above | start, update, stop and the public operations | owns all of them |
| Flow (`src/flow`: `SpacePublisher`, `SpaceSubscriber`, `ServiceIdMap`) | pending changes, subscribers, ids by service and services by id at both ends | `onGraphChanged`, `publish`, `addSubscriber`, `onSubscribed`, `onPublish` | a space of the `ca` library (external), and remote calls |

There are no threads: a node is one thread, and it runs a request of another
node only inside `react`, called by the application (`Node::update`) or by a
wait. What is hard is therefore:

- *re-entrancy*: a wait serves requests, their services may wait again, and one
  connector and one `_lastSender` are shared by all levels of the stack;
- *ordering*: replies have no identity and are matched to requests by position;
- *timeouts*: a wait that was given up leaves its reply behind;
- *id reuse*: instance ids and the addresses of deleted objects come back while
  others still hold them;
- *partial failure*: an exception of an asynchronous request ends an unrelated wait
  below it; a subscriber that throws stops a publication halfway.

What makes each component correct: a call takes the reply to its own request and
returns; a barrier lets nobody pass before all arrived, and then everybody; ids,
keys and references lead to the instance they were given for; the lease maps
agree; a proxy never outlives what it uses; a replica equals the published space
after every publication. `PROJECT.json` lists the hazards line by line, with the
properties that cover them.

## The modules

### Remote calls: `RpcCalls`

A node's state is its stack of frames: a frame of `handleSynchRequest` that waits
for a reply, or of `dispatchInvocation` that runs a service. `requests[c][s]` and
`replies[c][s]` are the two directions of c's connector to s. A step is what a
node does between two looks at a socket:

| Action | Code |
|---|---|
| `SynchRequest`, `AsynchRequest` | `handleSynchRequest` up to its loop, `handleAsynchRequest` |
| `ReceiveReply`, `NoReplyYet` | the condition of the loop |
| `Dispatch`, `NothingToReact` | `react` with and without a message; `SaveSender` and `LoseSender` are what `receive` makes of `_lastSender` |
| `Reply`, `ReturnNothing`, `Throw` | the three ends of `dispatchInvocation` |
| `ReplyTimeout` | the throw in the loop |

Three kinds of request behave differently: *sync* invocations are replied to with
values or an exception, *management* requests (NEW, LOOKUP) are replied to unless they
throw, and *async* ones (invocations without a return, LEASE) are never replied to.
An exception of the latter two leaves `react` and unwinds the wait that called it.
`SendReply` has the socket's behaviour that matters: ZeroMQ takes the identity
out of `_lastSender` when it is sent, so a second reply without a receive in
between is addressed to nobody and dropped. `receive` reads into `_lastSender` itself
(`ZMQAcceptor.cpp:32`), and the socket empties the message it is given when nothing has
come: a `react` without a message loses the identity too (`LoseSender`).

The constants say which node's application and which node's services call whom
(`AppCalls`, `HandlerCalls`), which kinds are in use, which may throw, and how
many timeouts happen. `Calls` are the identities of the calls made: they bound a
behaviour, and messages carry them for the properties only.

`RemoteCall` is the abstract specification: each call is made, executed once, and
over after that. `RpcCalls` implements it through `Phase`.

### Barrier: `BarrierProtocol`

The raiser has `_capacity`, `_numHits` and whether its application is in
`raiseBarrier`; every client has a queue of signals, a count of hits on their
way, `_barrierUp`, and whether its application waits for the barrier to come up
or to go down. While an application waits, each step is one message and one look
at its condition (`MayReact`); otherwise the application updates the node. The
raiser's stack never grows: `onBarrierHit` makes asynchronous requests only.
Both waits may time out (`TimeoutsAt`). `Barrier` is the abstract
specification: a node passes for the k-th time only when all arrived k times.

### Instance table: `InstanceManager`

`slot` is `_instances`, `freed` and `published` are the sets of the same name.
`newID` takes the least freed id. `published` keeps a key once it has it
(`map::insert`, and no erase in `unpublishInstance`). The references that remote
nodes were given are remembered in `refs`. Where the code uses a deleted
container (`findInstance`, a second `unpublishInstance`, and `getRefType`, which does
not test the result of `getInstance`) the action sets `fault`, and nothing
happens after it. Types of instances are not part of this
module, as a lookup with the wrong type changes nothing in the table; `RemoteObjects`
has them.

### Lease table: `LeaseManager`

The objects `Lessee` live at addresses, and an address is free for the next `new`
as soon as its object is deleted: that makes a stale pointer in a `Lessor`
visible. `LeaseTable` is the abstract specification, a set of leases and the
answers of `removeLease`.

### Requestors, proxies and what they send: `RemoteObjects`, `Messages`, `Wire`, `MessageFormat`

`RemoteObjects` extends `InstanceManager`: one node, the owner, has the table, and
each client has a `RequestorManager` with at most one `Requestor`, for the owner.

| State | Code |
|---|---|
| `requestor[c]` | the entry of `_requestors`: `_proxies`, `_msgClear` and the parameters begun in its `Marshaller` |
| `connected` | `_connected` of the requestors, also of those that outlive their manager |
| `proxies` | the `ClientProxy` objects that applications hold; each holds its requestor |
| `creator` | `_barrierCreator` of the invoker, which holds a requestor too |
| `queue` | what is on its way to the owner |
| `waiting[c]` | the request under way, its reply once there is one, and the instance meant by that |
| `starts`, `running` | how often a node was started, and whether it is between `start` and `stop` |

| Action | Code |
|---|---|
| `Provide`, `Release` | `publishInstance`, `unpublishInstance` at the owner |
| `Lookup`, `Call` | `findRemoteInstance` and `ClientProxy::call` (fields and methods) up to the wait |
| `Pass`, `Receive` | a proxy as a parameter for a third node: `requestLease`, and `OWNER_ANOTHER` read there |
| `Serve` | `dispatchInvocation` for invocations, lookups and leases, with the reply |
| `Answer` | what the caller does with the reply: a proxy, nothing, a result or an exception |
| `Drop` | the destructor of `ClientProxy`, and with the last one of `Requestor` (`onRequestorDestroyed`) |
| `BarrierUp` | the part of `dispatchInvocation` that keeps `_barrierCreator` |
| `Start`, `Stop` | the same of `Node`; stop disconnects the requestors |

`amiss` collects what must not happen: a use of something deleted, an assertion
that would fail, an argument, a result or an instance that is not the one meant.

A client drops a proxy at any time, also while it waits, when what it dispatches may do so;
only the proxies of the call it waits for are held by that call. `Receive` may give a
client a proxy while it waits, too.

`Messages` has the messages and references as the marshaller composes them and the
demarshaller takes them apart. `Wire` translates the values within them (anys, structs,
arrays) to parameters and back, with the asymmetries of the code: `RefusedValue` (an array
of anys, or an interface in an any, at any depth; the parameter is then begun up to there), null anys
and empty arrays, which leave what was there before. `MessageFormat` is
what the generated code does with a message: which fields it writes, under which number
and wire type, how it reads them (the last of several counts, messages within are merged,
unknown enum values are dropped) and `IsInitialized`. Every message goes through
`WriteMessage` and `ReadMessage` before it is looked at.

Values and messages nest, so that `Wire` and `MessageFormat` are recursive. `RemoteObjects`
takes what they do as constant operators, to which `remote_objects.cfg` gives the
definitions of `Wire`: `Received` is `Transmitted`, `MessageType` `Demarshal`, `ParamOf`
`ValueParam`, `Refused` `RefusedValue`, `ValueOf` `PullValue`, and `InitialValue` `Fresh`. `MessageAssumption` says what
`RemoteObjects` relies on: a message that the actions send arrives with the fields they
read, and a value that can be sent arrives as it was. TLC evaluates it in the
run, for the messages and methods of the configuration: an error in `Wire` or
`MessageFormat` that those messages meet makes the assumption fail or a property of the run.

### Flow: `Replication`, `ServiceIds`

`ServiceIds` is `ServiceIdMap`, as operators on a record of its two maps and its
counter, and on graphs of objects with three ports: a facet with a vector of references, a facet
with a value, and a receptacle. `Walk` is `genericGraphWalk`.

`Replication` composes one publisher with its subscribers. The space (external) is
`live`, what the application made of it, and `seen`, what it was when `notifyChanges` last
compared. A subscriber is `replica[s]`: the instances it made, which are never
deleted, the roots of its copy and of its space, and its map of numbers.

| Action | Code |
|---|---|
| `Edit`, `Notify` | the application and the space (external); `SpacePublisher::onGraphChanged` |
| `SetPublished` | `SpacePublisher::setSpace` |
| `AddSubscriber` | `addSubscriber` and the subscriber's `onSubscribed`, `initializeIds` |
| `RefuseSubscriber` | `addSubscriber` when `onSubscribed` throws: the numbers it has given stay |
| `RemoveSubscriber`, `ClearSubscribers` | the same |
| `SetSpace` | `SpaceSubscriber::setSpace`, any number of times; `TooFewIds` is where `initWithIds` reads past the numbers |
| `Publish` | `publish` with its three passes (new and removed objects, their data, changes) and each subscriber's `onPublish`, one after the other |
| `PublishUnheard` | `publish` without subscribers |

The code iterates over sets of pointers in two places, the changed objects and the new ones; the
model takes any order there (`SetToSeqs`). `SpaceMirror` is the abstract
specification: a publication makes the copies of all followers, and no other, the
space as it is then. `setSpace` of NULL and `addSubscriber` without a space throw before they change
anything. The space of a subscriber is empty when it is set, or has the copy's root.

## The runs

Each module is checked through its `MC` module. Operators named `Slip...` above an
operator are mistakes that would be easy to make in its place; each makes a named
property of a run fail.

| Run | What it asks | Bounds |
|---|---|---|
| `rpc_leaf` | Do calls take their own replies and return, when nodes call each other at once? | 3 nodes (a and b call each other, c calls b), 3 calls, sync and async |
| `rpc_chain` | The same for services that call on and back, with one chain of blocking calls; which calls return then? | 3 nodes, 4 calls, one root application |
| `rpc_late` | What still holds with a timeout and exceptions? | 3 nodes, 4 calls, management and async (a sync call is, here, a management one that does not throw), 1 timeout, calls symmetric |
| `rpc_idle` | violation: a service that calls on loses its caller, and its reply goes to nobody | 3 nodes, 2 calls, no timeout |
| `rpc_crossed` | violation: a nested call takes the reply of the call below it | 3 nodes, 4 calls, no timeout |
| `barrier_all` | Does nobody pass early, and everybody eventually? | 3 clients, 3 rounds, 2 timeouts |
| `barrier_spare` | violation: a hit finds no barrier | 3 clients, capacity 2 |
| `instance_once` | Do keys and references keep their instances while ids are used again? | 3 keys, 2 instances, 4 ids |
| `instance_revoke` | violation: a revoked key leads on | 2 keys, 2 instances, 3 ids |
| `lease_maps` | Do the maps agree and implement a set of leases? | 2 ids, 3 endpoints, 3 addresses |
| `flow_replica` | Are the copies of a space the space, after every publication? | 3 objects, 2 values, 2 subscribers, 2 edits, 2 subscriptions, from an empty and from a full space; subscribers symmetric |
| `remote_objects` | Do requestors and proxies live as long as they are needed, and do calls arrive and return as they were meant? | 2 clients, 1 key, 2 instances, 3 ids, 1 restart, 4 messages of which 2 of a client may queue, 3 methods; clients symmetric |

Why these bounds are enough to meet the interesting cases:

- *rpc_leaf*: two calls cross between a and b (each must serve above its wait), and
  the third arrives from c meanwhile, so `_lastSender` has a client to be confused with.
- *rpc_chain*: a's application calls b, and b's service calls c and calls back a, in
  either order or one of them twice, so that a serves above its wait on b while b waits
  above its service; the fourth call is for a second call of the application, or a third
  of the service. The calls to c and back to a return, as their services call nobody (`LeafCallsReturn`);
  that of a's application need not: see *Chains* below.
- *rpc_late*: after the timeout a second and a third call can meet the late
  reply; two clients of b tell whether replies stay with their clients.
- *barrier_all*: three rounds are the least in which a client that is slow to
  leave one round can meet the next but one; two timeouts let `raiseBarrier` be called
  a third time in one round.
- *instance_once*: four ids for three keys and references let an id be released
  and reused while another key and a reference hold their own.
- *lease_maps*: a lease is the only one of its endpoint, of its id, of both or of
  neither, and every address can be reused. The state space is complete.
- *flow_replica*: an edit each before and after a publication, or two before one
  notification, add, remove, move and relink objects; from the full space one edit
  takes two objects away at once. With two subscriptions one follows from the
  beginning and the other joins later, or one leaves and its copy goes stale.
- *remote_objects*: a lookup of each client, a call and a passed reference are four
  messages; after the restart a client holds proxies of two sessions; the third
  id is for an instance returned by reference while two are published. The methods carry a number, an
  empty array, an array of structs of anys, an any, and a reference out.
  Symmetry is sound, as neither of these two runs has a liveness property and no value of
  their configurations names a subscriber or a client.

The runs of bounded counters (`Calls`, `MaxRounds`, `MaxEdits`, `MaxJoins`, `MaxSends`,
`MaxStarts`) may stop when the bound is used up, and `instance_once` after a
fault; only `lease_maps` never stops, and checks for deadlock.

### Lapses

Both `flow_replica` and `remote_objects` check what holds of an application that
avoids certain steps. Each such step is named, and the guard `Allowed("name",
condition)` says exactly when a step is one. With `Lapses = {}` in the configuration all
properties hold; with one name in the set TLC shows in a few steps how the code fails. The
library's documentation warns of none of them. Its tests take some without noticing: the flow tests
set a subscriber's space twice before anything is published (`ReplicaTests.cpp:344`, `:348`),
which is no lapse yet, and publish a removal that nobody hears (`ReplicaTests.cpp:421-423`, `unheard`)
without looking at what comes after it.

Some guards are just the negation of what would go wrong: for `again`, `stale`, `refused`
and `returned` the model without the lapse has no step that could fail, so that
`NothingDeletedUsed` and `CallsAsMeant` show nothing about them; what these two say of
the owner's table, of restarts, of proxies let go in any order and of what is written and read is not
guarded that way. `PROJECT.json` lists those hazards without a property.

| Lapse | The application | What fails |
|---|---|---|
| `quiet` | publishes, lets a subscriber join, or sets the publisher's space again, between an edit and `notifyChanges` | `NumbersAgree` |
| `added` | lets a subscriber join while added objects wait to be published: it gets them twice | `EveryServiceKnown` |
| `unheard` | publishes a removal when nobody subscribes: the numbers are kept (three edits) | `EveryServiceKnown` |
| `unready` | publishes before a subscriber has its space: it throws, and the changes stay | `EveryServiceKnown` |
| `rejoin` | subscribes again: the space stays the first copy, the root does not | `NumbersAgree` |
| `respace` | sets a subscriber's space again when publications have changed its copy: the copy is numbered by the numbers of the subscription, or there are too few | `NumbersAgree`, `EveryServiceKnown` |
| `changed` | changes an object and takes it out before publishing: the changes after it are skipped (three edits, `OnlyFull`, one subscriber); if it is in the space again by then, its old change is applied after its new data (four edits, two objects, one subscriber) | `ImplementsMirror` |
| `linked` | removes an object linked to one that stays: the facet of the latter loses its number | `NumbersAgree` |
| `renumber` | sets the publisher's space again while there are subscribers | `NumbersAgree` |
| `released` | unpublishes an instance that is referred to, or on its way to be | `NothingDeletedUsed` |
| `again` | gets an instance whose proxy it let go of, while another proxy keeps the requestor: `_proxies` has a deleted one | `NothingDeletedUsed` |
| `stale` | passes a proxy of a requestor that was disconnected by `stop` | `NothingDeletedUsed` |
| `refused` | passes an array of anys, or a value with one in it: the message stays begun (`LapseMethods`) | `NothingDeletedUsed` |
| `returned` | returns a reference, or a value that is refused: `marshalException` asserts, except for a field that is a reference, which is found out before the output is begun (`LapseMethods`) | `NothingDeletedUsed` |
| `kept` | has an old value where an empty array or a null any is returned (`LapseMethods`) | `CallsAsMeant` |

### Properties worth a comment

- `OwnReply` relates `result` (the reply taken) to the request, over queues that
  do not say which request a reply is for.
- `RepliesAwaited` says both that `_lastSender` is right when it is used and
  that no reply is ever left behind.
- `StaleAtWorst` is what remains of `OwnReply` when waits are given up: at worst an
  earlier call's reply, of the same client and server. `RepliesInOrder` and
  `ReplyTakenOnce` are the other two remains.
- `EveryRoundHit` relates the raiser's count to the hits ever sent, across
  `raiseBarrier` calls that timed out: `_numHits` survives them, which is why it
  holds.
- `NumbersAgree` relates three things that are kept apart: the publisher's map, the
  subscriber's map, and the two graphs walked in the same order. Numbers
  are never sent with a service, so that this is all that makes a change arrive at the right one.
- `EveryServiceKnown`: a subscriber that lacks a number uses a null service, or throws and
  keeps the changes for everybody. `ImplementsMirror` says the publication is complete.
- `RequestorsCounted` relates the reference counts to the manager's table, across
  lookups that find nothing, barriers, restarts and dropped proxies; `OneProxy` the
  map of a requestor to the proxies there are and to the owner's table.
- `NothingDeletedUsed` and `CallsAsMeant` are about `amiss`: the first says memory is safe
  and no assertion fails, the second that the instance, the arguments and the result are
  those meant, through marshalling, writing, reading and demarshalling.
- `FreedAreDead` and `NeverReplaced` are why reuse of ids is safe for the owner;
  `PublishedStays` and `RefsReach` why it is for keys and references.

### Fairness

`FairSpec` of `RpcCalls` is weak fairness of each node's steps: applications call
`update` regularly (`INode.csl`: "continuously updating") and services return.
Requests are not fair: no application must call. No strong fairness is used: which
client's message `receive` takes next is not assumed. `ReplyTimeout` is not fair.
`FairSpec` of `BarrierProtocol` assumes that each application goes on to its next
round, as the properties are about programs that use the barrier, and that it keeps its node updated,
also outside a wait. Under these a call returns because each wait reacts, which the
mutants without it show.

### Findings

The violations are recorded in `PROJECT.json` with the lines that disagree:
`rpc_idle` (a reply is sent to nobody), `rpc_crossed` (nested requests to one node
exchange replies), `barrier_spare` (an assertion that the documented use of
`capacity` breaks), `instance_revoke` (a key stays after `unpublishInstance`).

## The proofs

| Module | Theorems |
|---|---|
| `RpcCallsProofs` | `TypeOK` and `ReplyTakenOnce`, for all constants; where services make no calls and replies end all calls: `OwnReply`, `RepliesAwaited`, `ServedForWaiter`, `BoundedReentrancy`, and refinement of `RemoteCall!Spec`; where services make no calls, with timeouts and exceptions: `RepliesInOrder`, `StaleAtWorst` |
| `RpcChainProofs` | where services call on, with one chain of blocking calls: `OwnReply`, `RepliesAwaited`, `ServedForWaiter`, and refinement of `RemoteCall!Spec` |
| `BarrierProofs` | `TypeOK`, for all constants; `NoStrayHit`, `EveryRoundHit` and refinement of `Barrier!Spec` in the intended use |
| `InstanceManagerProofs` | `TypeOK`, `FreedAreDead`, `NeverReplaced`, `RefsReach`; `PublishedStays` when no key is used twice |
| `LeaseManagerProofs` | `Mirrored`, `NoDangling`, refinement of `LeaseTable` |
| `RemoteObjectsProofs` | for applications without lapse (`Lapses = {}`): `TypeOKRemote`, `RequestorsCounted`, `OneProxy`, `NothingDeletedUsed`, `CallsAsMeant` |
| `ReplicationLemmas` | what the folds and walks of `ServiceIds` and `Replication` compute, for all their arguments |
| `ReplicationProofs` | for applications without lapse: `TypeOK`, `NumbersAgree`, `EveryServiceKnown`, and refinement of `SpaceMirror!Spec` |

*Remote calls.* The theorems about `OwnReply` and its like in `RpcCallsProofs` hold for any nodes, any calls
between them and any kinds, in the regime `Leaf`: services make no calls, and calls
end with their replies only (no timeouts; no exception but of a sync invocation,
which is replied to). The regime cannot be left: with one timeout a call takes the late
reply of the one before it (`StaleAtWorst` is what is left then), and `rpc_crossed` needs services that call. `OwnReply` is not inductive: it says nothing of
the queues. `LeafInv` says where a call is in each stage: a call that is sent is in one
queue and in one wait, a call that is served is on top of its server's stack with
`_lastSender` its client, a call that is answered has its reply on
the connector its wait looks at. It also says that each of these is in one place
only, and that a stack is a wait, a service, or a service above a
wait. Then the reply a wait finds can only be its own, since one connector has no
other reply. One lemma per action shows that a step keeps `LeafInv`; the lemmas at the
head of the module are about stacks and queues. The refinement is by one
lemma, a case per action.

*Chains.* In the regime `Blocking` the services may call on in any way, also back to a
node that waits, but one node's application starts all calls, and all are waited for; calls end
with their replies only. `rpc_crossed` shows what happens without the second part: two
services run at once and the requests cross. The calls under way then form a chain, and
`Chain` numbers them (`pos`): each call but the first is made by the service of the one
before it, and only the last is on its way, being served or answered. The frames
of a stack climb along the chain (`Climbing`), and every service but the last waits for the
next call on its own node (`NextWaits`), so that a node whose top frame serves has the last
call, and a reply that is found, which is the last call's, is for the top frame. A request makes the chain
longer, a reply that is taken makes it shorter. `SenderOrNone` is what is true
of `_lastSender`: it has the client of the highest service of the node, or nobody. It has nobody
once the node reacted above that service, be it to a request, whose reply uses the
identity up, or to nothing, which empties it: either way the outer reply is dropped. The theorems
hold then too, as nobody takes a reply that is not his, but the caller waits for ever:
`CallsReturn` fails in `rpc_chain`, and `rpc_idle` shows the shortest way, where the reply is lost to
one `react` without a message. What is left is `LeafCallsReturn`: a call to a service that
makes no calls itself returns, however deep it is made.

*Late replies.* `PlaceInv` is for all constants: a call is in one place, a queue, a service
at some height of a stack, or a connector, and `stage` tells which; a call whose
reply was taken is in none of them any more. That is more than `ReplyTakenOnce` and is
needed for it: a reply must not be sent twice, so that a call must not be served twice.
`OrderInv` adds, where services make no calls, for each client and server: the requests
still queued are the last of those sent, in this order; the request that is served comes right
before them; the replies under way are to earlier ones, in order. Then a reply that is appended is
later than those before it, and what a wait takes is not later than what it waits for. With services that call,
`_lastSender` may belong to another client when the reply is sent (`rpc_crossed`).

*Barrier.* The intended use, `Intended`, is a capacity of as many hits as there are clients, and no
timeout of a wait whose hit was sent; `barrier_spare` shows that the first is
needed, and the second keeps a hit from being sent twice in one round. `RoundInv` says in which of
three situations a client is: it has hit the current round, and then waits with its
flag up and only UPs on their way; or it still waits for the end of an
earlier round, with exactly one DOWN on its way (behind it, UPs of the next barrier
at most); or neither, and then whatever tells it of a barrier tells it of one that is up.
`_numHits` is the number of clients whose hit of this round was counted. The last
hit is then the one with which these are all clients, and a client that
sends a hit sends its first of the round.

*Instance table.* `TableInv` adds to `FreedAreDead` that ids of keys are in the
table. `RefsReach` needs it because `newID` must not return an id of a
live instance. `PublishedStays` needs the assumption, as `map::insert` keeps the old id of a
key that is published again.

*Lease table.* The invariant adds that no two endpoints share a `Lessee` and that
exactly the allocated ones have leases: otherwise deleting one `Lessee` would
take away another endpoint's leases, and a new one would find leases at its address.

*Remote objects.* The theorems are about applications that keep to the rules; the
lapses above say what each rule is for. No property is inductive alone: that a call arrives as
it was meant needs that its id was not given to another instance while it was queued.
`RemoteInv` says of everything that is on its way that it is `Fine`: the ids in a
queued message, in a reply, in a reference that was passed on, and in a proxy are in the table for
the instance that was meant, a key that is looked up is still published if it ever
was, and a message is exactly what the marshaller composes for the call it belongs to. A
request that is waited for is the last of its client's queue until it is served, so that the reply
is for it. For `RequestorsCounted` and `OneProxy` it says that
the proxies in a requestor's map are those of this session, and are held; the counts alone
would not say which requestor the last proxy takes with it. A step of the
clients either is a step of the table (then `InstanceManagerProofs` is used) or leaves
it alone; `Release` cannot take an id that is on its way, as that would be a lapse.

*Flow.* The theorems are for any number of objects, values, subscribers, edits and
subscriptions, and for every space to begin with. `NumbersAgree` is not inductive: it says
something only when nothing waits to be published, and a publication is made of what waits. `FlowInv`
says that there is a history `H` of graphs, one before and one after each pending change:
`H[0]` is the space as it was last published, each change set is the
difference of two neighbours (`Differs`), and the last is `seen`. A follower has a copy of one of
them, of `H[0]` when it heard the last publication, of a later one when it joined since, and
its numbers are the publisher's for what is in that graph (`Follows`: an injection of the objects
into its instances that keeps the references, the values and the numbers).
The copy of a graph walks as the graph does (`WalkIso`, `ViewIso`), which gives `NumbersAgree` from
`Follows` and the copy of a subscriber that joins. The heart is
`PublicationIs`: of every field of an object that was in all graphs of the history, the publication
says what the latest change to it says, if there is one, and that is its value now; all other
objects it makes anew with all their data, under numbers that nobody has. So whichever graph of the
history a follower has, what it hears makes of it a copy of the last one (`HeardIs`, `CaughtIs`),
every number it is told is known, and `PublishKeeps` follows. `EveryServiceKnown` and
the refinement are read off the same lemma. Each rule that `Lapses = {}` stands for is used in the lemma of an
action: `quiet` in that the last graph of the history is the space itself, `added` so that who joins has no
object that is announced later, `changed` so that no change is about an object without a
number or made anew. Two errors of the model came out of these proofs, beyond the bounds of the run: an object that was
changed, removed and added again before a publication (above, `changed`), and `setSpace` of the publisher
between an edit and `notifyChanges` (`quiet`). Both are what the code does, and the model had taken
them for steps of an application that keeps the rules.

The numbers, walks, tables and copies are computed by folds and recursive functions. A fold is a run (`IsRun`), the
sequence of its values, and what a walk does is shown by induction over the rank of an object in the
space, as references lead to later objects only. The library's induction theorems take a predicate
and cannot be used here; `NatSetInduction` and `RankInduction` in `ReplicationLemmas` are induction for a
set (the numbers, or the objects, for which the claim holds), from the library's facts about
well-founded relations.

The assumptions are the named ones of the modules (`RpcAssumption`,
`BarrierAssumption`, `InstanceAssumption`, `LeaseAssumption`, `RemoteAssumption`,
`MessageAssumption`, `ReplicationAssumption`), which TLC evaluates in the runs, and the hypotheses named
above (`Leaf`, `Blocking`, `Flat`, `Intended`, `Lapses = {}`).

Only model-checked:

- liveness (`CallsReturn`, `LeafCallsReturn`, `ImplementsFairRemoteCall`, `HitReturnsEventually`,
  `RaiseReturnsEventually`), which TLAPS does not reach;
- that `Wire` and `MessageFormat` meet `MessageAssumption`: they are recursive operators,
  and the messages nest without bound.

## What is not modelled, and the plan

Not modelled, and why:

- `requestNewInstance` and `REQUEST_NEW` at a client: nothing in the library calls it; the
  dispatch of NEW is one of the management requests of `RpcCalls`.
- Connections that are lost, and messages dropped by a connector that closes without
  linger (`ZMQConnector.cpp`): ZeroMQ reconnects without telling the library, which has no code
  for it.
- A client's requestors for several owners, and calls that arrive at a client while it
  waits: `RpcCalls` has them, without the contents. The two models share no state but the
  order of a connection.
- Enums, the widths of numbers (all go through `double`), and references inside anys.
- Bytes, sizes, reflection and accessors of the generated code: a `WriteMessage` that is read back
  by `ReadMessage` is all that the library uses of it.
- A `stop` made by a service, below which the node waits: clients stop when they wait for nothing.
- A subscriber whose space has a root of its own, or a space of the copy of an earlier subscription:
  `initializeIds` leaves it alone.
- Spaces with cycles, on which `genericGraphWalk` does not return, and components of several
  shapes in one space. `ca` itself is external.
- The Lua transport, the address resolver and module registration: a transport for
  tests, parsing, and set-up without behaviour of its own.

The plan:

1. *Barrier*: a run for the retry of `hitBarrier` after its hit was sent.
2. *Remote calls*: what a caller sees after the timeout that ends a call whose reply went
   to nobody (`rpc_idle`), in the chain.
3. *Flow*: what remains true when a lapse happens, one lapse at a time.
4. *Node*: several owners, and a client that serves above its wait, in `RemoteObjects`.
