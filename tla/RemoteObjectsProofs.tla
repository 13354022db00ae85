------------------------ MODULE RemoteObjectsProofs -------------------------
(***************************************************************************)
(* What an application that keeps to the rules (Lapses = {}) gets of       *)
(* RemoteObjects, for any clients, instances, keys and methods and any     *)
(* bounds: requestors live exactly as long as something needs them, a      *)
(* client has one proxy of an instance, and every call reaches the         *)
(* instance, and brings the arguments and the result, that were meant.     *)
(*                                                                         *)
(* RemoteInv says where ids are while references to them are on their way: *)
(* every message in a queue, every request that is waited for, every reply *)
(* and every reference that was passed on is Fine, that is, its ids are    *)
(* those of the instances that were meant when it was sent.                *)
(***************************************************************************)
EXTENDS RemoteObjects, InstanceManagerProofs

-----------------------------------------------------------------------------
(* The inductive invariant.                                                *)

Live(id, o) == id \in Ids /\ o \in Objects /\ slot[id] = o

\* A key that was published still is.
KeyHolds(k) == published[k] # NoId => bound[k] # None

IsQueue(q) == q \in Seq({q[i] : i \in DOMAIN q})

\* Requests: a key that is looked up leads to no id that was released, the ids of
\* leases and calls are live, and a call is written with all its arguments.
FineLookup(e) ==
  \E k \in Keys, o \in Objects :
    e = Entry(LookupMessage(k, Component[o]), {}, {k}) /\ KeyHolds(k)

FineLease(e) ==
  \E id \in Ids : e = Entry(LeaseMessage(id), {id}, {}) /\ slot[id] \in Objects

CallParams(m, q) ==
  IF q = None THEN Params(m, Len(m.args)) ELSE Append(Params(m, Len(m.args)), InRef(q.id))

FineCall(e) ==
  /\ e.method \in Methods /\ RefusedArgs(e.method) = {} /\ ~Unreturnable(e.method.result)
  /\ e.argument # None => Live(e.argument.id, e.argument.object)
  /\ \E id \in Ids :
       /\ Live(id, e.object)
       /\ e.msg = InvocationMessage(id, e.method, Synchronous(e.method),
                                    CallParams(e.method, e.argument))
       /\ e.ids = {id} \cup IF e.argument = None THEN {} ELSE {e.argument.id}
       /\ e.keys = {}

Fine(e) ==
  \/ e.msg.type = "REQUEST_LOOKUP" /\ FineLookup(e)
  \/ e.msg.type = "REQUEST_LEASE" /\ FineLease(e)
  \/ e.msg.type = "INVOCATION" /\ FineCall(e)

\* Requests that a client waits for.
Asks(e) ==
  \/ e.msg.type = "REQUEST_LOOKUP"
  \/ e.msg.type = "INVOCATION" /\ Synchronous(e.method)

\* The reply to a lookup has the id of its key, or none; that to a call a reference to
\* an instance that no key can take away, or the value of the result.
FoundReply(w) ==
  \E k \in Keys, id \in Ids :
    /\ w.request.keys = {k} /\ published[k] = id
    /\ w.reply = IntReturn(id)
    /\ Live(id, w.found)
    /\ GetRequest(w.request.msg).instance_type = Component[w.found]

RefReply(w) ==
  \E id \in Ids :
    /\ Live(id, w.found)
    /\ w.reply = OutputMessage(<<OutRef(id, w.found)>>)
    /\ \A k \in Keys : bound[k] # None => published[k] # id

ValueReply(w) ==
  LET result == w.request.method.result
  IN  /\ w.found = None
      /\ result \notin Objects \cup {None}
      /\ w.reply = OutputMessage(<<ParamOf(result.type, result.value)>>)

FineReply(w) ==
  \/ /\ w.request.msg.type = "REQUEST_LOOKUP"
     /\ w.reply = NoReply \/ w.reply = IntReturn(NoId) \/ FoundReply(w)
  \/ /\ w.request.msg.type = "INVOCATION"
     /\ RefReply(w) \/ ValueReply(w)

\* A request that is waited for is the last of its client's queue, until it is served.
Queues ==
  \A c \in Clients :
    /\ IsQueue(queue[c])
    /\ Len(queue[c]) <= MaxQueue
    /\ \A i \in 1..Len(queue[c]) :
         /\ Fine(queue[c][i])
         /\ Asks(queue[c][i]) =>
              /\ i = Len(queue[c])
              /\ c \in DOMAIN waiting
              /\ waiting[c].reply = None /\ waiting[c].request = queue[c][i]

\* Who waits for a call has the proxy that it went through.
Callee(e, held) == \E p \in held : p.id \in e.ids

Waits ==
  \A c \in DOMAIN waiting :
    /\ c \in running
    /\ waiting[c] = [request |-> waiting[c].request, reply |-> waiting[c].reply,
                     found |-> waiting[c].found]
    /\ Fine(waiting[c].request) /\ Asks(waiting[c].request)
    /\ waiting[c].request.msg.type = "INVOCATION" => Callee(waiting[c].request, Of(c, session[c]))
    /\ waiting[c].reply # None => FineReply(waiting[c])

\* What a requestor's map has under an id is a proxy of that id, made in this session;
\* no message is left unfinished.
MapOf(c, req) ==
  /\ req = [proxies |-> req.proxies, clear |-> TRUE, begun |-> <<>>]
  /\ \A id \in DOMAIN req.proxies :
       LET p == req.proxies[id]
       IN  p.client = c /\ p.session = session[c] /\ p.id = id

Maps ==
  /\ requestor = [c \in DOMAIN requestor |-> requestor[c]]
  /\ \A c \in DOMAIN requestor : MapOf(c, requestor[c])

\* A proxy of a running session is in the map, and its instance under its id.
InMap(p) ==
  /\ p.client \in DOMAIN requestor
  /\ p.id \in DOMAIN requestor[p.client].proxies
  /\ requestor[p.client].proxies[p.id] = p
  /\ p.component = Component[p.object]
  /\ slot[p.id] = p.object

Proxies ==
  \A p \in proxies :
    /\ p.client \in Clients /\ p.session \in 1..session[p.client]
    /\ p.id \in Ids /\ p.object \in Objects
    /\ p.client \in running /\ p.session = session[p.client] => InMap(p)

Given ==
  \A g \in given :
    g.to \in Clients /\ Live(g.id, g.object) /\ g.component = Component[g.object]

Nodes ==
  /\ session \in [Clients -> Nat \ {0}] /\ starts \in 0..MaxStarts
  /\ \A c \in Clients : session[c] <= starts + 1
  /\ running \subseteq Clients /\ creator \subseteq running
  /\ queue = [c \in Clients |-> queue[c]]

Quiet == fault = FALSE /\ amiss = {}

RemoteInv ==
  /\ TableInv /\ PublishedStays /\ Quiet
  /\ Nodes /\ RequestorsCounted /\ Maps /\ Proxies /\ Given /\ Queues /\ Waits

-----------------------------------------------------------------------------
(* Sequences.                                                              *)

LEMMA AppendQueue ==
  ASSUME NEW q, IsQueue(q), NEW e
  PROVE  /\ IsQueue(Append(q, e))
         /\ Len(q) \in Nat /\ Len(Append(q, e)) = Len(q) + 1
         /\ \A i \in 1..Len(q) : Append(q, e)[i] = q[i]
         /\ Append(q, e)[Len(q) + 1] = e
<1> DEFINE S == {q[i] : i \in DOMAIN q}
           r == Append(q, e)
<1>1. q \in Seq(S) /\ q \in Seq(S \cup {e})
  BY DEF IsQueue
<1>2. /\ r \in Seq(S \cup {e}) /\ Len(q) \in Nat /\ Len(r) = Len(q) + 1
      /\ \A i \in 1..Len(q) : r[i] = q[i]
      /\ r[Len(q) + 1] = e
  <2> HIDE DEF S
  <2> QED BY <1>1
<1>3. IsQueue(r)
  <2>1. r \in [1..Len(r) -> {r[i] : i \in DOMAIN r}] /\ DOMAIN r = 1..Len(r) /\ Len(r) \in Nat
    <3> HIDE DEF r, S
    <3> QED BY <1>2
  <2> HIDE DEF r, S
  <2> QED BY <2>1 DEF IsQueue
<1> QED BY <1>2, <1>3

LEMMA TailQueue ==
  ASSUME NEW q, IsQueue(q), q # <<>>
  PROVE  /\ IsQueue(Tail(q))
         /\ Len(q) \in Nat \ {0} /\ Len(Tail(q)) = Len(q) - 1
         /\ \A i \in 1..Len(Tail(q)) : i + 1 \in 1..Len(q) /\ Tail(q)[i] = q[i + 1]
         /\ Head(q) = q[1]
<1> DEFINE S == {q[i] : i \in DOMAIN q}
           r == Tail(q)
<1>1. q \in Seq(S)
  BY DEF IsQueue
<1>2. /\ r \in Seq(S) /\ Len(q) \in Nat \ {0} /\ Len(r) = Len(q) - 1
      /\ \A i \in 1..Len(r) : i + 1 \in 1..Len(q) /\ r[i] = q[i + 1]
      /\ Head(q) = q[1]
  <2> HIDE DEF S
  <2> QED BY <1>1
<1>3. IsQueue(r)
  <2>1. r \in [1..Len(r) -> {r[i] : i \in DOMAIN r}] /\ DOMAIN r = 1..Len(r) /\ Len(r) \in Nat
    <3> HIDE DEF r, S
    <3> QED BY <1>2
  <2> HIDE DEF r, S
  <2> QED BY <2>1 DEF IsQueue
<1> QED BY <1>2, <1>3

-----------------------------------------------------------------------------
(* Steps of the table.                                                     *)

\* What a new id, or nothing, changes of the table.
Grows ==
  /\ \A id \in Ids : slot[id] \in Objects => slot'[id] = slot[id]
  /\ \A k \in Keys :
       \/ published'[k] = published[k] /\ bound'[k] = bound[k]
       \/ /\ published[k] = NoId /\ published'[k] \in Ids /\ bound'[k] \in Objects
          /\ slot[published'[k]] = None

\* What the end of k takes away.
Frees(k) ==
  /\ published[k] \in Ids /\ ~InUse(published[k])
  /\ bound[k] # None
  /\ slot' = [slot EXCEPT ![published[k]] = None]
  /\ published' = published
  /\ bound' = [bound EXCEPT ![k] = None]

LEMMA PublishGrows ==
  ASSUME TableInv, NEW k \in Keys, NEW o \in Objects, Publish(k, o)
  PROVE  Grows
<1>1. PICK id \in Ids : Contain(id, o) /\ Enter(k, id)
  BY DEF Publish
<1>2. slot[id] = None /\ slot' = [slot EXCEPT ![id] = o]
  BY <1>1, NewIDDead
<1>3. published[k] = NoId /\ bound' = [bound EXCEPT ![k] = o]
  BY RemoteAssumption DEF Publish
<1>4. published' = [published EXCEPT ![k] = id]
  BY <1>1, <1>3 DEF Enter
<1>5. None \notin Objects /\ TypeOK
  BY InstanceAssumption DEF TableInv
<1>6. \A i \in Ids : slot[i] \in Objects => slot'[i] = slot[i]
  BY <1>2, <1>5 DEF TypeOK
<1> QED BY <1>2, <1>3, <1>4, <1>5, <1>6 DEF Grows, TypeOK

LEMMA AddInstanceGrows ==
  ASSUME TableInv, NEW o \in Objects, AddInstance(o)
  PROVE  /\ Grows
         /\ \E id \in Ids : slot[id] = None /\ slot' = [slot EXCEPT ![id] = o]
<1>1. PICK id \in Ids : Contain(id, o)
  BY DEF AddInstance
<1>2. slot[id] = None /\ slot' = [slot EXCEPT ![id] = o]
  BY <1>1, NewIDDead
<1>3. published' = published /\ bound' = bound
  BY DEF AddInstance
<1>4. \A i \in Ids : slot[i] \in Objects => slot'[i] = slot[i]
  BY <1>2, InstanceAssumption DEF TableInv, TypeOK
<1> QED BY <1>2, <1>3, <1>4 DEF Grows

LEMMA ReleaseFrees ==
  ASSUME TableInv, PublishedStays, Lapses = {}, NEW k \in Keys, Release(k)
  PROVE  Frees(k) /\ fault' = fault
<1>1. /\ published[k] # NoId /\ bound[k] # None
      /\ bound' = [bound EXCEPT ![k] = None] /\ published' = published
  BY RemoteAssumption DEF Release, Unpublish
<1>2. ~InUse(published[k])
  BY <1>1 DEF Release, Allowed
<1>3. published[k] \in Ids /\ slot[published[k]] # None
  BY <1>1 DEF PublishedStays
<1>4. published[k] \notin freed
  BY <1>3 DEF TableInv, FreedAreDead
<1>5. slot' = [slot EXCEPT ![published[k]] = None] /\ fault' = fault
  BY <1>4 DEF Release, Unpublish, Delete
<1> QED BY <1>1, <1>2, <1>3, <1>5 DEF Frees

\* A live id is in the table and not freed, so that getInstance finds its instance.
LEMMA LiveFound ==
  ASSUME TableInv, NEW id \in Ids, slot[id] \in Objects
  PROVE  id \notin freed /\ GetInstance(id) = slot[id]
<1>1. slot[id] # None
  BY InstanceAssumption
<1>2. id \notin freed /\ ~(id >= numIds)
  BY <1>1 DEF TableInv, FreedAreDead
<1>3. id < numIds
  BY <1>2, InstanceAssumption DEF TableInv, TypeOK, Ids
<1> QED BY <1>2, <1>3 DEF GetInstance

\* A requestor, a request and a reply stay as they should be while the table grows.
LEMMA FineGrows ==
  ASSUME TableInv, Grows, NEW e, Fine(e)
  PROVE  Fine(e)'
<1>1. ASSUME NEW id, NEW o, Live(id, o) PROVE Live(id, o)'
  BY <1>1 DEF Live, Grows
<1>2. ASSUME NEW k \in Keys, KeyHolds(k) PROVE KeyHolds(k)'
  BY <1>2, InstanceAssumption DEF KeyHolds, Grows
<1>3. FineLookup(e) => FineLookup(e)'
  BY <1>2 DEF FineLookup
<1>4. FineLease(e) => FineLease(e)'
  BY DEF FineLease, Grows
<1>5. FineCall(e) => FineCall(e)'
  BY <1>1 DEF FineCall
<1> QED BY <1>3, <1>4, <1>5 DEF Fine

LEMMA ReplyGrows ==
  ASSUME TableInv, Grows, NEW w, FineReply(w)
  PROVE  FineReply(w)'
<1>1. ASSUME NEW id, NEW o, Live(id, o) PROVE Live(id, o)'
  BY <1>1 DEF Live, Grows
<1>2. FoundReply(w) => FoundReply(w)'
  <2> SUFFICES ASSUME FoundReply(w) PROVE FoundReply(w)'
    OBVIOUS
  <2>1. PICK k \in Keys, id \in Ids :
          /\ w.request.keys = {k} /\ published[k] = id
          /\ w.reply = IntReturn(id)
          /\ Live(id, w.found)
          /\ GetRequest(w.request.msg).instance_type = Component[w.found]
    BY DEF FoundReply
  <2>2. published[k] # NoId
    BY <2>1, InstanceAssumption DEF Ids
  <2>3. published'[k] = id
    BY <2>1, <2>2 DEF Grows
  <2>4. Live(id, w.found)'
    BY <1>1, <2>1
  <2> QED BY <2>1, <2>3, <2>4 DEF FoundReply
<1>3. RefReply(w) => RefReply(w)'
  <2> SUFFICES ASSUME RefReply(w) PROVE RefReply(w)'
    OBVIOUS
  <2>1. PICK id \in Ids :
          /\ Live(id, w.found)
          /\ w.reply = OutputMessage(<<OutRef(id, w.found)>>)
          /\ \A k \in Keys : bound[k] # None => published[k] # id
    BY DEF RefReply
  <2>2. Live(id, w.found)'
    BY <1>1, <2>1
  <2>3. slot[id] # None
    BY <2>1, InstanceAssumption DEF Live
  <2>4. \A k \in Keys : bound'[k] # None => published'[k] # id
    BY <2>1, <2>3 DEF Grows
  <2> QED BY <2>1, <2>2, <2>4 DEF RefReply
<1>4. ValueReply(w) => ValueReply(w)'
  BY DEF ValueReply
<1> QED BY <1>2, <1>3, <1>4 DEF FineReply

\* They also stay so when a key is ended, which no one uses.
LEMMA FineFrees ==
  ASSUME TableInv, NEW j \in Keys, Frees(j),
         NEW e, Fine(e), published[j] \notin Mentions(e)
  PROVE  Fine(e)'
<1>1. ASSUME NEW id, NEW o, Live(id, o), id # published[j] PROVE Live(id, o)'
  BY <1>1 DEF Live, Frees, TableInv, TypeOK
<1>2. \A k \in e.keys : published[k] # published[j]
  BY DEF Mentions
<1>3. \A id \in e.ids : id # published[j]
  BY DEF Mentions
<1>4. FineLookup(e) => FineLookup(e)'
  <2> SUFFICES ASSUME NEW k \in Keys, NEW o \in Objects,
                      e = Entry(LookupMessage(k, Component[o]), {}, {k}), KeyHolds(k)
               PROVE  KeyHolds(k)'
    BY DEF FineLookup
  <2>1. k # j
    BY <1>2 DEF Entry
  <2> QED BY <2>1 DEF KeyHolds, Frees, TableInv, TypeOK
<1>5. FineLease(e) => FineLease(e)'
  <2> SUFFICES ASSUME NEW id \in Ids, e = Entry(LeaseMessage(id), {id}, {}), slot[id] \in Objects
               PROVE  slot'[id] \in Objects
    BY DEF FineLease
  <2>1. id # published[j]
    BY <1>3 DEF Entry
  <2> QED BY <2>1 DEF Frees, TableInv, TypeOK
<1>6. FineCall(e) => FineCall(e)'
  <2> SUFFICES ASSUME FineCall(e) PROVE FineCall(e)'
    OBVIOUS
  <2>1. PICK id \in Ids :
          /\ Live(id, e.object)
          /\ e.msg = InvocationMessage(id, e.method, Synchronous(e.method),
                                       CallParams(e.method, e.argument))
          /\ e.ids = {id} \cup IF e.argument = None THEN {} ELSE {e.argument.id}
          /\ e.keys = {}
    BY DEF FineCall
  <2>2. Live(id, e.object)'
    BY <1>1, <1>3, <2>1
  <2>3. e.argument # None => Live(e.argument.id, e.argument.object)'
    BY <1>1, <1>3, <2>1 DEF FineCall
  <2> QED BY <2>1, <2>2, <2>3 DEF FineCall
<1> QED BY <1>4, <1>5, <1>6 DEF Fine

LEMMA ReplyFrees ==
  ASSUME TableInv, PublishedStays, NEW j \in Keys, Frees(j),
         NEW w, FineReply(w), published[j] \notin Mentions(w.request)
  PROVE  FineReply(w)'
<1>1. ASSUME NEW id, NEW o, Live(id, o), id # published[j] PROVE Live(id, o)'
  BY <1>1 DEF Live, Frees, TableInv, TypeOK
<1>2. FoundReply(w) => FoundReply(w)'
  <2> SUFFICES ASSUME FoundReply(w) PROVE FoundReply(w)'
    OBVIOUS
  <2>1. PICK k \in Keys, id \in Ids :
          /\ w.request.keys = {k} /\ published[k] = id
          /\ w.reply = IntReturn(id)
          /\ Live(id, w.found)
          /\ GetRequest(w.request.msg).instance_type = Component[w.found]
    BY DEF FoundReply
  <2>2. id # published[j]
    BY <2>1 DEF Mentions
  <2>3. Live(id, w.found)' /\ published'[k] = id
    BY <1>1, <2>1, <2>2 DEF Frees
  <2> QED BY <2>1, <2>3 DEF FoundReply
<1>3. RefReply(w) => RefReply(w)'
  <2> SUFFICES ASSUME RefReply(w) PROVE RefReply(w)'
    OBVIOUS
  <2>1. PICK id \in Ids :
          /\ Live(id, w.found)
          /\ w.reply = OutputMessage(<<OutRef(id, w.found)>>)
          /\ \A k \in Keys : bound[k] # None => published[k] # id
    BY DEF RefReply
  <2>2. Live(id, w.found)'
    BY <1>1, <2>1 DEF Frees
  <2>3. \A k \in Keys : bound'[k] # None => published'[k] # id
    BY <2>1 DEF Frees, TableInv, TypeOK
  <2> QED BY <2>1, <2>2, <2>3 DEF RefReply
<1>4. ValueReply(w) => ValueReply(w)'
  BY DEF ValueReply
<1> QED BY <1>2, <1>3, <1>4 DEF FineReply

-----------------------------------------------------------------------------
(* Steps that leave the clients alone.                                     *)

\* What is kept when a client's variables are.
LEMMA RequestorsSame ==
  ASSUME RequestorsCounted, Maps, UNCHANGED <<session, running, requestor, connected, creator>>,
         proxies' = proxies, DOMAIN waiting' = DOMAIN waiting
  PROVE  RequestorsCounted' /\ Maps'
<1>1. \A c, s : Of(c, s)' = Of(c, s)
  BY DEF Of
<1>2. RequestorsCounted'
  BY <1>1 DEF RequestorsCounted
<1> QED BY <1>2 DEF Maps, MapOf

LEMMA ProxiesGrow ==
  ASSUME Proxies, Grows, UNCHANGED <<session, running, requestor, proxies>>
  PROVE  Proxies'
<1>1. ASSUME NEW p \in proxies, InMap(p), p.id \in Ids, p.object \in Objects PROVE InMap(p)'
  BY <1>1 DEF InMap, Grows
<1> QED BY <1>1 DEF Proxies

LEMMA GivenGrow ==
  ASSUME Given, Grows, given' = given
  PROVE  Given'
<1>1. ASSUME NEW id, NEW o, Live(id, o) PROVE Live(id, o)'
  BY <1>1 DEF Live, Grows
<1> QED BY <1>1 DEF Given

LEMMA QueuesGrow ==
  ASSUME TableInv, Queues, Grows, queue' = queue, waiting' = waiting
  PROVE  Queues'
BY FineGrows DEF Queues

LEMMA WaitsGrow ==
  ASSUME TableInv, Waits, Grows, UNCHANGED <<waiting, running, session, proxies>>
  PROVE  Waits'
<1> SUFFICES ASSUME NEW c \in DOMAIN waiting
             PROVE  /\ Fine(waiting[c].request)'
                    /\ (waiting[c].request.msg.type = "INVOCATION" => Callee(waiting[c].request, Of(c, session[c])))'
                    /\ (waiting[c].reply # None => FineReply(waiting[c]))'
  BY DEF Waits
<1>1. Fine(waiting[c].request)'
  BY FineGrows DEF Waits
<1>2. Of(c, session[c])' = Of(c, session[c])
  BY DEF Of
<1>3. (waiting[c].reply # None => FineReply(waiting[c]))'
  BY ReplyGrows DEF Waits
<1> QED BY <1>1, <1>2, <1>3 DEF Waits

LEMMA ProvideStep ==
  ASSUME RemoteInv, NEW k \in Keys, NEW o \in Objects, Provide(k, o), TableInv', PublishedStays'
  PROVE  RemoteInv'
<1> USE DEF RemoteInv
<1>1. Publish(k, o) /\ UNCHANGED clientVars
  BY DEF Provide
<1>2. Grows
  BY <1>1, PublishGrows
<1>3. Proxies' /\ Given' /\ Queues' /\ Waits'
  BY <1>1, <1>2, ProxiesGrow, GivenGrow, QueuesGrow, WaitsGrow DEF clientVars
<1>4. RequestorsCounted' /\ Maps'
  BY <1>1, RequestorsSame DEF clientVars
<1>5. Nodes' /\ Quiet'
  BY <1>1 DEF Nodes, Quiet, clientVars, Publish
<1> QED BY <1>3, <1>4, <1>5

LEMMA ReleaseStep ==
  ASSUME RemoteInv, Lapses = {}, NEW k \in Keys, Release(k), TableInv', PublishedStays'
  PROVE  RemoteInv'
<1> USE DEF RemoteInv
<1>1. Frees(k) /\ fault' = fault /\ UNCHANGED clientVars
  BY ReleaseFrees DEF Release
<1>2. ASSUME NEW id, NEW o, Live(id, o), id # published[k] PROVE Live(id, o)'
  BY <1>1, <1>2 DEF Live, Frees, TableInv, TypeOK
<1>3. Proxies'
  <2> SUFFICES ASSUME NEW p \in proxies, p.client \in running, p.session = session[p.client]
               PROVE  InMap(p)'
    BY <1>1 DEF Proxies, clientVars
  <2>1. InMap(p) /\ p.id \in Ids /\ p.object \in Objects
    BY DEF Proxies
  <2>2. <<p.client, p.session>> \in connected
    BY <2>1 DEF InMap, RequestorsCounted
  <2>3. p.id # published[k]
    BY <1>1, <2>2 DEF Frees, InUse
  <2>4. Live(p.id, p.object)'
    BY <1>2, <2>1, <2>3 DEF Live, InMap
  <2> QED BY <1>1, <2>1, <2>4 DEF InMap, Live, clientVars
<1>4. Given'
  <2> SUFFICES ASSUME NEW g \in given PROVE Live(g.id, g.object)'
    BY <1>1 DEF Given, clientVars
  <2>1. g.id # published[k]
    BY <1>1 DEF Frees, InUse
  <2> QED BY <1>2, <2>1 DEF Given
<1>5. Queues'
  <2> SUFFICES ASSUME NEW c \in Clients, NEW i \in 1..Len(queue[c]) PROVE Fine(queue[c][i])'
    BY <1>1 DEF Queues, clientVars
  <2>1. i \in DOMAIN queue[c]
    <3>1. queue[c] \in Seq({queue[c][n] : n \in DOMAIN queue[c]})
      BY DEF Queues, IsQueue
    <3> QED BY <3>1
  <2>2. published[k] \notin Mentions(queue[c][i])
    BY <1>1, <2>1 DEF Frees, InUse
  <2>3. Fine(queue[c][i])
    BY DEF Queues
  <2>4. queue'[c][i] = queue[c][i]
    BY <1>1 DEF clientVars
  <2> QED BY <1>1, <2>2, <2>3, <2>4, FineFrees
<1>6. Waits'
  <2> SUFFICES ASSUME NEW c \in DOMAIN waiting
               PROVE  /\ Fine(waiting[c].request)'
                      /\ (waiting[c].request.msg.type = "INVOCATION" => Callee(waiting[c].request, Of(c, session[c])))'
                      /\ (waiting[c].reply # None => FineReply(waiting[c]))'
    BY <1>1 DEF Waits, clientVars
  <2>1. waiting' = waiting /\ proxies' = proxies /\ session' = session
    BY <1>1 DEF clientVars
  <2>2. c \in Clients
    BY DEF Waits, Nodes
  <2>3. published[k] \notin Mentions(waiting[c].request)
    BY <1>1, <2>2 DEF Frees, InUse
  <2>4. Fine(waiting[c].request)'
    BY <1>1, <2>1, <2>3, FineFrees DEF Waits
  <2>5. (waiting[c].reply # None => FineReply(waiting[c]))'
    BY <1>1, <2>1, <2>3, ReplyFrees DEF Waits
  <2>6. Of(c, session[c])' = Of(c, session[c])
    BY <2>1 DEF Of
  <2> QED BY <2>1, <2>4, <2>5, <2>6 DEF Waits
<1>7. RequestorsCounted' /\ Maps'
  BY <1>1, RequestorsSame DEF clientVars
<1>8. Nodes' /\ Quiet'
  BY <1>1 DEF Nodes, Quiet, clientVars
<1> QED BY <1>3, <1>4, <1>5, <1>6, <1>7, <1>8

-----------------------------------------------------------------------------
(* Requestors.                                                             *)

LEMMA AssignAt ==
  ASSUME NEW f, NEW x, NEW v
  PROVE  /\ DOMAIN Assign(f, x, v) = DOMAIN f \cup {x}
         /\ Assign(f, x, v)[x] = v
         /\ \A y \in DOMAIN f \ {x} : Assign(f, x, v)[y] = f[y]
         /\ Assign(f, x, v) = [y \in DOMAIN Assign(f, x, v) |-> Assign(f, x, v)[y]]
BY DEF Assign

LEMMA EraseAt ==
  ASSUME NEW f, NEW x
  PROVE  /\ DOMAIN Erase(f, x) = DOMAIN f \ {x}
         /\ \A y \in DOMAIN f \ {x} : Erase(f, x)[y] = f[y]
         /\ Erase(f, x) = [y \in DOMAIN Erase(f, x) |-> Erase(f, x)[y]]
BY DEF Erase, Restrict

\* What keeps a requestor.
Needed(c) == c \in running /\ (Of(c, session[c]) # {} \/ c \in creator \/ c \in DOMAIN waiting)

LEMMA CountedNeeded ==
  RequestorsCounted <=>
    /\ \A c \in Clients : c \in DOMAIN requestor <=> Needed(c)
    /\ DOMAIN requestor \subseteq Clients
    /\ connected = {<<c, session[c]>> : c \in DOMAIN requestor}
BY DEF RequestorsCounted, Needed

\* Whoever is connected is in its manager, in the session that runs.
LEMMA ConnectedIs ==
  ASSUME RequestorsCounted, NEW c, NEW s
  PROVE  <<c, s>> \in connected <=> c \in DOMAIN requestor /\ s = session[c]
BY DEF RequestorsCounted

LEMMA ConnectedInMap ==
  ASSUME RequestorsCounted, Proxies, NEW p \in proxies, <<p.client, p.session>> \in connected
  PROVE  /\ p.client \in Clients /\ p.client \in running /\ p.client \in DOMAIN requestor
         /\ p.session = session[p.client]
         /\ InMap(p) /\ Live(p.id, p.object)
         /\ p \in Of(p.client, session[p.client])
<1>1. p.client \in DOMAIN requestor /\ p.session = session[p.client]
  BY ConnectedIs
<1>2. p.client \in Clients /\ p.client \in running
  BY <1>1 DEF RequestorsCounted
<1>3. InMap(p) /\ p.id \in Ids /\ p.object \in Objects
  BY <1>1, <1>2 DEF Proxies
<1> QED BY <1>1, <1>2, <1>3 DEF InMap, Live, Of

\* A requestor is put in the manager, or changed there.
LEMMA RequestorSet ==
  ASSUME RequestorsCounted, Maps, NEW c \in Clients, NEW req, MapOf(c, req),
         requestor' = Assign(requestor, c, req),
         connected' = connected \cup {<<c, session[c]>>},
         session' = session, Needed(c)',
         \A d \in Clients \ {c} : Needed(d)' <=> Needed(d)
  PROVE  /\ RequestorsCounted' /\ Maps'
         /\ \A d \in DOMAIN requestor \ {c} : requestor'[d] = requestor[d]
         /\ DOMAIN requestor' = DOMAIN requestor \cup {c} /\ requestor'[c] = req
<1>1. /\ DOMAIN requestor' = DOMAIN requestor \cup {c}
      /\ requestor'[c] = req
      /\ \A d \in DOMAIN requestor \ {c} : requestor'[d] = requestor[d]
      /\ requestor' = [d \in DOMAIN requestor' |-> requestor'[d]]
  <2>1. requestor' = [d \in DOMAIN requestor \cup {c} |-> IF d = c THEN req ELSE requestor[d]]
    BY DEF Assign
  <2> QED BY <2>1
<1>2. Maps'
  <2>1. \A d, r : MapOf(d, r)' <=> MapOf(d, r)
    BY DEF MapOf
  <2>2. ASSUME NEW d \in DOMAIN requestor' PROVE MapOf(d, requestor'[d])
    BY <1>1 DEF Maps
  <2> QED BY <1>1, <2>1, <2>2 DEF Maps
<1>3. RequestorsCounted'
  <2>1. /\ \A d \in Clients : d \in DOMAIN requestor <=> Needed(d)
        /\ DOMAIN requestor \subseteq Clients
        /\ connected = {<<d, session[d]>> : d \in DOMAIN requestor}
    BY CountedNeeded
  <2>2. \A d \in Clients : d \in DOMAIN requestor' <=> Needed(d)'
    BY <1>1, <2>1
  <2>3. DOMAIN requestor' \subseteq Clients
    BY <1>1, <2>1
  <2>4. connected' = {<<d, session'[d]>> : d \in DOMAIN requestor'}
    BY <1>1, <2>1
  <2> QED BY <2>2, <2>3, <2>4 DEF RequestorsCounted, Needed
<1> QED BY <1>1, <1>2, <1>3

\* A new requestor has nothing begun and no proxies.
LEMMA GetOrCreated ==
  ASSUME Maps, NEW c
  PROVE  MapOf(c, GetOrCreateRequestor(c))
<1>1. CASE c \in DOMAIN requestor
  BY <1>1 DEF Maps, GetOrCreateRequestor
<1>2. CASE c \notin DOMAIN requestor
  <2>1. DOMAIN <<>> = {}
    OBVIOUS
  <2>2. GetOrCreateRequestor(c) = [proxies |-> <<>>, clear |-> TRUE, begun |-> <<>>]
    BY <1>2 DEF GetOrCreateRequestor, NewRequestor
  <2> QED BY <2>1, <2>2 DEF MapOf
<1> QED BY <1>1, <1>2

\* The proxies of others are where they were, whoever gets a requestor.
LEMMA ProxiesSet ==
  ASSUME Proxies, NEW c, UNCHANGED <<proxies, session, running, slot>>,
         DOMAIN requestor' = DOMAIN requestor \cup {c},
         requestor'[c] = GetOrCreateRequestor(c),
         \A d \in DOMAIN requestor \ {c} : requestor'[d] = requestor[d]
  PROVE  Proxies'
<1>1. \A d \in DOMAIN requestor : requestor'[d] = requestor[d]
  BY DEF GetOrCreateRequestor
<1>2. \A p : InMap(p) => InMap(p)'
  BY <1>1 DEF InMap
<1> QED BY <1>2 DEF Proxies

-----------------------------------------------------------------------------
(* Requests.                                                               *)

\* A request that is sent is fine, and its client waits for it if it asks; the client
\* waited for nothing, and so nothing in its queue asks.
LEMMA SendKeeps ==
  ASSUME Nodes, Queues, Waits, NEW c \in Clients, NEW e, CanSend(c), Send(c, e),
         Fine(e), UNCHANGED <<slot, published, bound, session, running, proxies>>,
         \/ waiting' = waiting /\ ~Asks(e)
         \/ /\ Expect(c, e) /\ Asks(e)
            /\ e.msg.type = "INVOCATION" => Callee(e, Of(c, session[c]))
  PROVE  Queues' /\ Waits' /\ queue' = [d \in Clients |-> queue'[d]]
<1>1. \A r : Fine(r)' <=> Fine(r)
  BY DEF Fine, FineLookup, FineLease, FineCall, Live, KeyHolds
<1>2. \A w : FineReply(w)' <=> FineReply(w)
  BY DEF FineReply, FoundReply, RefReply, ValueReply, Live
<1>3. \A d, s : Of(d, s)' = Of(d, s)
  BY DEF Of
<1>4. c \in running /\ c \notin DOMAIN waiting /\ Len(queue[c]) < MaxQueue
  BY DEF CanSend, Free
<1>5. /\ queue' = [queue EXCEPT ![c] = Append(queue[c], e)]
      /\ queue = [d \in Clients |-> queue[d]]
  BY DEF Send, Nodes
<1>6. queue' = [d \in Clients |-> queue'[d]]
  BY <1>5
<1>7. /\ queue'[c] = Append(queue[c], e)
      /\ \A d \in Clients \ {c} : queue'[d] = queue[d]
  BY <1>5
<1>8. /\ \A d \in DOMAIN waiting : d # c /\ d \in DOMAIN waiting' /\ waiting'[d] = waiting[d]
      /\ DOMAIN waiting' \subseteq DOMAIN waiting \cup {c}
      /\ c \in DOMAIN waiting' =>
           /\ waiting'[c] = [request |-> e, reply |-> None, found |-> None]
           /\ Asks(e)
           /\ e.msg.type = "INVOCATION" => Callee(e, Of(c, session[c]))
      /\ Asks(e) => c \in DOMAIN waiting'
  <2>1. CASE waiting' = waiting /\ ~Asks(e)
    BY <1>4, <2>1
  <2>2. CASE Expect(c, e) /\ Asks(e) /\ (e.msg.type = "INVOCATION" => Callee(e, Of(c, session[c])))
    <3> DEFINE w == [request |-> e, reply |-> None, found |-> None]
    <3>1. waiting' = [d \in DOMAIN waiting \cup {c} |-> IF d = c THEN w ELSE waiting[d]]
      BY <2>2 DEF Expect, Assign
    <3> HIDE DEF w
    <3>2. /\ DOMAIN waiting' = DOMAIN waiting \cup {c} /\ waiting'[c] = w
          /\ \A d \in DOMAIN waiting : d # c /\ waiting'[d] = waiting[d]
      BY <1>4, <3>1
    <3> QED BY <2>2, <3>2 DEF w
  <2> QED BY <2>1, <2>2
<1>9. Queues'
  <2> SUFFICES ASSUME NEW d \in Clients
               PROVE  /\ IsQueue(queue'[d])
                      /\ Len(queue'[d]) <= MaxQueue
                      /\ \A i \in 1..Len(queue'[d]) :
                           /\ Fine(queue'[d][i])
                           /\ Asks(queue'[d][i]) =>
                                /\ i = Len(queue'[d])
                                /\ d \in DOMAIN waiting'
                                /\ waiting'[d].reply = None /\ waiting'[d].request = queue'[d][i]
    BY <1>1 DEF Queues, Asks
  <2>1. CASE d # c
    BY <1>7, <1>8, <2>1 DEF Queues
  <2>2. CASE d = c
    <3> DEFINE q == queue[c]
               r == Append(q, e)
    <3>1. IsQueue(q) /\ \A i \in 1..Len(q) : Fine(q[i]) /\ ~Asks(q[i])
      BY <1>4 DEF Queues
    <3>2. /\ IsQueue(r) /\ Len(q) \in Nat /\ Len(r) = Len(q) + 1
          /\ \A i \in 1..Len(q) : r[i] = q[i]
          /\ r[Len(q) + 1] = e
      <4> HIDE DEF q
      <4> QED BY <3>1, AppendQueue
    <3>3. MaxQueue \in Nat
      BY RemoteAssumption
    <3>4. Len(r) <= MaxQueue
      BY <1>4, <3>2, <3>3
    <3>5. \A i \in 1..Len(r) : i \in 1..Len(q) \/ (i = Len(r) /\ r[i] = e)
      <4> HIDE DEF q, r
      <4> QED BY <3>2
    <3>6. \A i \in 1..Len(r) :
            /\ Fine(r[i])
            /\ Asks(r[i]) => i = Len(r) /\ r[i] = e /\ c \in DOMAIN waiting'
      <4> HIDE DEF q, r
      <4> QED BY <1>8, <3>1, <3>2, <3>5
    <3>7. queue'[d] = r
      BY <1>7, <2>2
    <3> HIDE DEF q, r
    <3> QED BY <1>8, <2>2, <3>2, <3>4, <3>6, <3>7
  <2> QED BY <2>1, <2>2
<1>10. Waits'
  <2> SUFFICES ASSUME NEW d \in DOMAIN waiting'
               PROVE  /\ d \in running
                      /\ waiting'[d] = [request |-> waiting'[d].request, reply |-> waiting'[d].reply,
                                        found |-> waiting'[d].found]
                      /\ Fine(waiting'[d].request) /\ Asks(waiting'[d].request)
                      /\ waiting'[d].request.msg.type = "INVOCATION" => Callee(waiting'[d].request, Of(d, session[d]))
                      /\ waiting'[d].reply # None => FineReply(waiting'[d])
    BY <1>1, <1>2, <1>3 DEF Waits, Asks
  <2>1. CASE d # c
    BY <1>8, <2>1 DEF Waits
  <2>2. CASE d = c
    BY <1>4, <1>8, <2>2
  <2> QED BY <2>1, <2>2
<1> QED BY <1>6, <1>9, <1>10

LEMMA LookupStep ==
  ASSUME RemoteInv, Lapses = {}, NEW c \in Clients, NEW k \in Keys, NEW o \in Objects,
         Lookup(c, k, Component[o]), TableInv', PublishedStays'
  PROVE  RemoteInv'
<1> USE DEF RemoteInv
<1> DEFINE e == Entry(LookupMessage(k, Component[o]), {}, {k})
           req == GetOrCreateRequestor(c)
<1>1. /\ CanSend(c) /\ Send(c, e) /\ Expect(c, e)
      /\ requestor' = Assign(requestor, c, req)
      /\ connected' = connected \cup {<<c, session[c]>>}
      /\ amiss' = amiss \cup Note(~req.clear, "assertion")
      /\ UNCHANGED <<tableVars, session, running, starts, proxies, creator, given>>
  BY DEF Lookup
<1>2. Fine(e) /\ Asks(e) /\ e.msg.type = "REQUEST_LOOKUP"
  <2>1. KeyHolds(k)
    BY DEF Lookup, Allowed, KeyHolds
  <2>2. e.msg.type = "REQUEST_LOOKUP"
    BY DEF Entry, LookupMessage
  <2> QED BY <2>1, <2>2 DEF Fine, FineLookup, Asks
<1>3. MapOf(c, req)
  BY GetOrCreated
<1> HIDE DEF e, req
<1>4. Queues' /\ Waits' /\ queue' = [d \in Clients |-> queue'[d]]
  BY <1>1, <1>2, SendKeeps DEF tableVars
<1>5. /\ RequestorsCounted' /\ Maps'
      /\ \A d \in DOMAIN requestor \ {c} : requestor'[d] = requestor[d]
      /\ DOMAIN requestor' = DOMAIN requestor \cup {c} /\ requestor'[c] = req
  <2>1. DOMAIN waiting' = DOMAIN waiting \cup {c}
    BY <1>1, AssignAt DEF Expect
  <2>2. \A d, s : Of(d, s)' = Of(d, s)
    BY <1>1 DEF Of
  <2>3. c \in running
    BY <1>1 DEF CanSend, Free
  <2>4. Needed(c)'
    BY <1>1, <2>1, <2>3 DEF Needed
  <2>5. \A d \in Clients \ {c} : Needed(d)' <=> Needed(d)
    BY <1>1, <2>1, <2>2 DEF Needed
  <2> QED BY <1>1, <1>3, <2>4, <2>5, RequestorSet
<1>6. Proxies'
  BY <1>1, <1>5, ProxiesSet DEF req, tableVars
<1>7. Given'
  BY <1>1 DEF Given, Live, tableVars
<1>8. Nodes'
  BY <1>1, <1>4 DEF Nodes
<1>9. Quiet'
  BY <1>1, <1>3 DEF Quiet, Note, MapOf, tableVars
<1> QED BY <1>4, <1>5, <1>6, <1>7, <1>8, <1>9

LEMMA PassStep ==
  ASSUME RemoteInv, NEW p \in proxies, NEW d \in Clients, Pass(p, d), TableInv', PublishedStays'
  PROVE  RemoteInv'
<1> USE DEF RemoteInv
<1> DEFINE c == p.client
           e == Entry(LeaseMessage(p.id), {p.id}, {})
           g == [to |-> d, id |-> p.id, object |-> p.object, component |-> p.component]
<1>1. /\ CanSend(c) /\ Send(c, e) /\ <<c, p.session>> \in connected
      /\ given' = given \cup {g}
      /\ UNCHANGED <<tableVars, session, running, starts, requestor, connected, proxies, creator,
                     waiting, amiss>>
  BY DEF Pass
<1>2. c \in Clients /\ InMap(p) /\ Live(p.id, p.object)
  BY <1>1, ConnectedInMap
<1>3. Fine(e) /\ ~Asks(e)
  <2>1. e.msg.type = "REQUEST_LEASE"
    BY DEF Entry, LeaseMessage
  <2>2. FineLease(e)
    BY <1>2 DEF FineLease, Live
  <2> QED BY <2>1, <2>2 DEF Fine, Asks
<1>4. Given'
  <2>1. g.to \in Clients /\ Live(g.id, g.object) /\ g.component = Component[g.object]
    BY <1>2 DEF InMap
  <2>2. \A id, o : Live(id, o)' <=> Live(id, o)
    BY <1>1 DEF Live, tableVars
  <2> HIDE DEF g
  <2> QED BY <1>1, <2>1, <2>2 DEF Given
<1> HIDE DEF e, g, c
<1>5. Queues' /\ Waits' /\ queue' = [n \in Clients |-> queue'[n]]
  BY <1>1, <1>2, <1>3, SendKeeps DEF tableVars
<1>6. RequestorsCounted' /\ Maps'
  BY <1>1, RequestorsSame
<1>7. Proxies'
  BY <1>1 DEF Proxies, InMap, tableVars
<1>8. Nodes' /\ Quiet'
  BY <1>1, <1>5 DEF Nodes, Quiet, tableVars
<1> QED BY <1>4, <1>5, <1>6, <1>7, <1>8

\* The parameters of a call are a sequence, with the reference behind the values.
LEMMA ParamsAre ==
  ASSUME NEW m \in Methods
  PROVE  /\ Len(m.args) \in Nat /\ DOMAIN m.args = 1..Len(m.args)
         /\ Params(m, Len(m.args)) \in Seq({Params(m, Len(m.args))[i] : i \in 1..Len(m.args)})
         /\ Len(Params(m, Len(m.args))) = Len(m.args)
         /\ \A i \in 1..Len(m.args) :
              Params(m, Len(m.args))[i] = ParamOf(m.args[i].type, m.args[i].value)
<1> DEFINE n == Len(m.args)
           ps == Params(m, n)
<1>1. m.args \in Seq({m.args[i] : i \in DOMAIN m.args})
  BY MessageAssumption
<1>2. n \in Nat /\ DOMAIN m.args = 1..n
  BY <1>1
<1>3. ps = [i \in 1..n |-> ps[i]] /\ \A i \in 1..n : ps[i] = ParamOf(m.args[i].type, m.args[i].value)
  BY DEF Params
<1>4. ps \in Seq({ps[i] : i \in 1..n}) /\ Len(ps) = n
  <2> DEFINE S == {ps[i] : i \in 1..n}
  <2>1. ps \in [1..n -> S]
    <3> HIDE DEF n, ps
    <3> QED BY <1>3
  <2> HIDE DEF n, ps, S
  <2>2. ps \in Seq(S) /\ Len(ps) = n
    BY <1>2, <2>1
  <2> QED BY <2>2 DEF S
<1> QED BY <1>2, <1>3, <1>4

LEMMA CallParamsAre ==
  ASSUME NEW m \in Methods, NEW q
  PROVE  /\ <<>> \o CallParams(m, q) = CallParams(m, q)
         /\ \A i \in DOMAIN m.args : CallParams(m, q)[i] = ParamOf(m.args[i].type, m.args[i].value)
         /\ q # None => CallParams(m, q)[Len(m.args) + 1] = InRef(q.id)
<1> DEFINE n == Len(m.args)
           ps == Params(m, n)
           S == {ps[i] : i \in 1..n}
           a == InRef(q.id)
<1>1. n \in Nat /\ DOMAIN m.args = 1..n /\ ps \in Seq(S) /\ Len(ps) = n
  BY ParamsAre
<1>2. \A i \in 1..n : ps[i] = ParamOf(m.args[i].type, m.args[i].value)
  BY ParamsAre
<1>3. /\ <<>> \o ps = ps /\ <<>> \o Append(ps, a) = Append(ps, a)
      /\ \A i \in 1..n : Append(ps, a)[i] = ps[i]
      /\ Append(ps, a)[n + 1] = a
  <2> HIDE DEF n, ps, S, a
  <2>1. ps \in Seq(S \cup {a}) /\ Append(ps, a) \in Seq(S \cup {a})
    BY <1>1
  <2> QED BY <1>1, <2>1
<1> HIDE DEF a
<1>4. CallParams(m, q) = IF q = None THEN ps ELSE Append(ps, a)
  BY DEF CallParams, a
<1> HIDE DEF n, ps, S
<1> QED BY <1>1, <1>2, <1>3, <1>4 DEF a, n

\* What a call sends, when its arguments are not refused and the proxy that it passes
\* is of the same requestor.
LEMMA CallSends ==
  ASSUME RemoteInv, Lapses = {}, NEW p \in proxies, NEW m \in Methods,
         NEW q \in {None} \cup {other \in proxies : other.client = p.client}, Call(p, m, q)
  PROVE  LET e == CallEntry(p, m, q, CallParams(m, q)) IN
         /\ CanSend(p.client) /\ Send(p.client, e)
         /\ \/ waiting' = waiting /\ ~Synchronous(m)
            \/ Expect(p.client, e) /\ Synchronous(m)
         /\ <<p.client, p.session>> \in connected
         /\ RefusedArgs(m) = {} /\ ~Unreturnable(m.result)
         /\ q # None => <<p.client, q.session>> \in connected
         /\ requestor' = requestor /\ amiss' = {}
         /\ UNCHANGED <<tableVars, session, running, starts, connected, proxies, creator, given>>
<1> USE DEF RemoteInv
<1> DEFINE c == p.client
           req == requestor[c]
           pushed == Pushed(m, q, p.session)
           params == req.begun \o pushed.params
           e == CallEntry(p, m, q, params)
<1>1. /\ CanSend(c) /\ <<c, p.session>> \in connected
      /\ RefusedArgs(m) = {} /\ ~Unreturnable(m.result)
      /\ ~(q # None /\ q.session # p.session)
      /\ amiss' = amiss \cup Note(~req.clear, "assertion")
      /\ UNCHANGED <<tableVars, session, running, starts, connected, proxies, creator, given>>
  BY DEF Call, Allowed
<1>2. pushed = [params |-> CallParams(m, q), thrown |-> FALSE]
  BY <1>1 DEF Pushed, CallParams
<1>3. c \in DOMAIN requestor
  BY <1>1, ConnectedInMap
<1>4. req = [proxies |-> req.proxies, clear |-> TRUE, begun |-> <<>>]
  BY <1>3 DEF Maps, MapOf
<1>5. params = CallParams(m, q)
  <2>1. req.begun = <<>>
    <3> HIDE DEF req
    <3> QED BY <1>4
  <2>2. pushed.params = CallParams(m, q)
    <3> HIDE DEF pushed
    <3> QED BY <1>2
  <2> HIDE DEF req, pushed
  <2> QED BY <2>1, <2>2, CallParamsAre
<1>6. /\ MarshalInvocation(c, params) /\ Send(c, e)
      /\ IF Synchronous(m) THEN Expect(c, e) ELSE UNCHANGED waiting
  <2>1. pushed.thrown = FALSE
    <3> HIDE DEF pushed
    <3> QED BY <1>2
  <2> QED BY <2>1 DEF Call
<1>7. requestor' = requestor
  <2>1. requestor' = [requestor EXCEPT ![c] = Compose(req, TRUE, <<>>)]
    BY <1>6 DEF MarshalInvocation
  <2>2. Compose(req, TRUE, <<>>) = req
    <3> HIDE DEF req
    <3> QED BY <1>4 DEF Compose
  <2>3. requestor = [d \in DOMAIN requestor |-> requestor[d]]
    BY DEF Maps
  <2> QED BY <1>3, <2>1, <2>2, <2>3
<1>8. amiss' = {}
  <2>1. req.clear = TRUE /\ amiss = {}
    <3> HIDE DEF req
    <3> QED BY <1>4 DEF Quiet
  <2> QED BY <1>1, <2>1 DEF Note
<1>9. q # None => <<c, q.session>> \in connected
  BY <1>1
<1> HIDE DEF c, params, pushed, req
<1> QED BY <1>1, <1>5, <1>6, <1>7, <1>8, <1>9 DEF c

LEMMA CallFine ==
  ASSUME RemoteInv, NEW p \in proxies, NEW m \in Methods,
         NEW q \in {None} \cup {other \in proxies : other.client = p.client},
         <<p.client, p.session>> \in connected, RefusedArgs(m) = {}, ~Unreturnable(m.result),
         q # None => <<p.client, q.session>> \in connected
  PROVE  LET e == CallEntry(p, m, q, CallParams(m, q)) IN
         Fine(e) /\ (Asks(e) <=> Synchronous(m)) /\ e.msg.type = "INVOCATION"
<1> DEFINE e == CallEntry(p, m, q, CallParams(m, q))
<1>1. /\ e.msg = InvocationMessage(p.id, m, Synchronous(m), CallParams(m, q))
      /\ e.ids = {p.id} \cup IF q = None THEN {} ELSE {q.id}
      /\ e.keys = {} /\ e.object = p.object /\ e.method = m /\ e.argument = q
  BY DEF CallEntry
<1>2. e.msg.type = "INVOCATION"
  BY <1>1 DEF InvocationMessage
<1>3. Live(p.id, p.object)
  BY ConnectedInMap DEF RemoteInv
<1>4. q # None => Live(q.id, q.object)
  BY ConnectedInMap DEF RemoteInv
<1> HIDE DEF e
<1>5. FineCall(e)
  <2>1. p.id \in Ids
    BY <1>3 DEF Live
  <2> QED BY <1>1, <1>3, <1>4, <2>1 DEF FineCall
<1> QED BY <1>1, <1>2, <1>5 DEF Fine, Asks, e

LEMMA CallStep ==
  ASSUME RemoteInv, Lapses = {}, NEW p \in proxies, NEW m \in Methods,
         NEW q \in {None} \cup {other \in proxies : other.client = p.client}, Call(p, m, q),
         TableInv', PublishedStays'
  PROVE  RemoteInv'
<1> USE DEF RemoteInv
<1> DEFINE c == p.client
           e == CallEntry(p, m, q, CallParams(m, q))
<1>1. /\ CanSend(c) /\ Send(c, e)
      /\ \/ waiting' = waiting /\ ~Synchronous(m)
         \/ Expect(c, e) /\ Synchronous(m)
      /\ <<c, p.session>> \in connected
      /\ RefusedArgs(m) = {} /\ ~Unreturnable(m.result)
      /\ q # None => <<c, q.session>> \in connected
      /\ requestor' = requestor /\ amiss' = {}
      /\ UNCHANGED <<tableVars, session, running, starts, connected, proxies, creator, given>>
  BY CallSends
<1>2. Fine(e) /\ (Asks(e) <=> Synchronous(m)) /\ e.msg.type = "INVOCATION"
  BY <1>1, CallFine
<1>3. /\ c \in Clients /\ c \in running /\ c \in DOMAIN requestor
      /\ p \in Of(c, session[c])
  BY <1>1, ConnectedInMap
<1>9. Callee(e, Of(c, session[c]))
  BY <1>3 DEF Callee, CallEntry
<1> HIDE DEF e, c
<1>4. Queues' /\ Waits' /\ queue' = [n \in Clients |-> queue'[n]]
  BY <1>1, <1>2, <1>3, <1>9, SendKeeps DEF tableVars
<1>5. RequestorsCounted' /\ Maps'
  <2>1. DOMAIN waiting' \subseteq DOMAIN waiting \cup {c} /\ DOMAIN waiting \subseteq DOMAIN waiting'
    <3>1. CASE waiting' = waiting
      BY <3>1
    <3>2. CASE Expect(c, e)
      <4> DEFINE w == [request |-> e, reply |-> None, found |-> None]
      <4>1. waiting' = Assign(waiting, c, w)
        BY <3>2 DEF Expect
      <4> HIDE DEF w
      <4>2. DOMAIN waiting' = DOMAIN waiting \cup {c}
        BY <4>1 DEF Assign
      <4> QED BY <4>2
    <3> QED BY <1>1, <3>1, <3>2
  <2>2. \A d, s : Of(d, s)' = Of(d, s)
    BY <1>1 DEF Of
  <2>3. \A d \in Clients : d \in DOMAIN requestor <=> Needed(d)
    BY CountedNeeded
  <2>4. \A d \in Clients : Needed(d)' <=> Needed(d)
    BY <1>1, <1>3, <2>1, <2>2 DEF Needed
  <2>5. RequestorsCounted'
    <3>1. /\ DOMAIN requestor' \subseteq Clients
          /\ connected' = {<<d, session'[d]>> : d \in DOMAIN requestor'}
      BY <1>1 DEF RequestorsCounted
    <3> QED BY <1>1, <2>3, <2>4, <3>1 DEF RequestorsCounted, Needed
  <2> QED BY <1>1, <2>5 DEF Maps, MapOf
<1>6. Proxies'
  BY <1>1 DEF Proxies, InMap, tableVars
<1>7. Given'
  BY <1>1 DEF Given, Live, tableVars
<1>8. Nodes' /\ Quiet'
  BY <1>1, <1>4 DEF Nodes, Quiet, tableVars
<1> QED BY <1>4, <1>5, <1>6, <1>7, <1>8

\* Nothing is sent and nothing of the table changes.
LEMMA QueuesQuiet ==
  ASSUME Queues, Waits, UNCHANGED <<tableVars, queue, waiting>>,
         \A c \in DOMAIN waiting :
           c \in running' /\ \A p \in Of(c, session[c]) : p \in Of(c, session[c])' \/ ~HeldByCall(p)
  PROVE  Queues' /\ Waits'
<1>1. \A r : Fine(r)' <=> Fine(r)
  BY DEF Fine, FineLookup, FineLease, FineCall, Live, KeyHolds, tableVars
<1>2. \A w : FineReply(w)' <=> FineReply(w)
  BY DEF FineReply, FoundReply, RefReply, ValueReply, Live, tableVars
<1>3. Queues'
  BY <1>1 DEF Queues
<1>4. \A c \in DOMAIN waiting :
        Callee(waiting[c].request, Of(c, session[c])) => Callee(waiting[c].request, Of(c, session[c])')
  BY DEF Callee, HeldByCall, Of
<1>5. Waits'
  BY <1>1, <1>2, <1>4 DEF Waits
<1> QED BY <1>3, <1>5

LEMMA BarrierUpStep ==
  ASSUME RemoteInv, NEW c \in Clients, BarrierUp(c), TableInv', PublishedStays'
  PROVE  RemoteInv'
<1> USE DEF RemoteInv
<1> DEFINE req == GetOrCreateRequestor(c)
<1>1. /\ c \in running /\ creator' = creator \cup {c}
      /\ requestor' = Assign(requestor, c, req)
      /\ connected' = connected \cup {<<c, session[c]>>}
      /\ UNCHANGED <<tableVars, session, running, starts, proxies, queue, sends, waiting, given,
                     amiss>>
  BY DEF BarrierUp
<1>2. MapOf(c, req)
  BY GetOrCreated
<1>3. \A d, s : Of(d, s)' = Of(d, s)
  BY <1>1 DEF Of
<1>4. /\ RequestorsCounted' /\ Maps'
      /\ \A d \in DOMAIN requestor \ {c} : requestor'[d] = requestor[d]
      /\ DOMAIN requestor' = DOMAIN requestor \cup {c} /\ requestor'[c] = req
  <2>1. Needed(c)'
    BY <1>1 DEF Needed
  <2>2. \A d \in Clients \ {c} : Needed(d)' <=> Needed(d)
    BY <1>1, <1>3 DEF Needed
  <2> HIDE DEF req
  <2> QED BY <1>1, <1>2, <2>1, <2>2, RequestorSet
<1>5. Proxies'
  BY <1>1, <1>4, ProxiesSet DEF tableVars
<1>6. Queues' /\ Waits'
  <2>1. \A d \in DOMAIN waiting : d \in running
    BY DEF Waits
  <2> QED BY <1>1, <1>3, <2>1, QueuesQuiet
<1>7. Given'
  BY <1>1 DEF Given, Live, tableVars
<1>8. Nodes' /\ Quiet'
  BY <1>1 DEF Nodes, Quiet, tableVars
<1> QED BY <1>4, <1>5, <1>6, <1>7, <1>8

-----------------------------------------------------------------------------
(* Proxies.                                                                *)

\* An id that has a proxy gets it again, of the same instance; any other a new one.
LEMMA ProxyGot ==
  ASSUME RequestorsCounted, Maps, Proxies, Quiet, Lapses = {}, NEW c \in Clients, c \in running,
         session[c] \in Nat \ {0}, NEW id, NEW o, Live(id, o),
         GetOrCreateProxy(c, id, o, Component[o])
  PROVE  /\ amiss' = {}
         /\ connected' = connected \cup {<<c, session[c]>>}
         /\ \E req, p :
              /\ requestor' = Assign(requestor, c, req) /\ MapOf(c, req)
              /\ \A i \in DOMAIN GetOrCreateRequestor(c).proxies :
                   i \in DOMAIN req.proxies /\ req.proxies[i] = GetOrCreateRequestor(c).proxies[i]
              /\ proxies' = proxies \cup {p}
              /\ p.client = c /\ p.session = session[c] /\ p.id = id /\ p.object = o
              /\ p.component = Component[o] /\ id \in DOMAIN req.proxies /\ req.proxies[id] = p
<1> DEFINE old == GetOrCreateRequestor(c)
           known == id \in DOMAIN old.proxies
           new == NewProxy(c, id, o, Component[o])
           req == Insert(old, id, new)
<1>1. /\ ~(known /\ old.proxies[id] \notin proxies)
      /\ requestor' = Assign(requestor, c, req)
      /\ proxies' = IF known THEN proxies ELSE proxies \cup {new}
      /\ connected' = connected \cup {<<c, session[c]>>}
      /\ amiss' = amiss \cup Note(known /\ old.proxies[id] \notin proxies, "deleted proxy")
                        \cup Note(known /\ old.proxies[id].object # o, "other instance")
  BY DEF GetOrCreateProxy, Allowed
<1>2. MapOf(c, old)
  BY GetOrCreated
<1>3. CASE known
  <2> DEFINE p == old.proxies[id]
  <2>1. p \in proxies /\ p.client = c /\ p.session = session[c] /\ p.id = id
    BY <1>1, <1>2, <1>3 DEF MapOf
  <2>2. InMap(p)
    BY <2>1 DEF Proxies
  <2>3. p.object = o /\ p.component = Component[o]
    BY <2>1, <2>2 DEF InMap, Live
  <2>4. req = old
    BY <1>3 DEF Insert
  <2>5. amiss' = {}
    BY <1>1, <1>3, <2>3 DEF Note, Quiet
  <2>6. proxies' = proxies \cup {p}
    BY <1>1, <1>3, <2>1
  <2> HIDE DEF p, new, req
  <2> QED BY <1>1, <1>2, <1>3, <2>1, <2>3, <2>4, <2>5, <2>6 DEF p
<1>4. CASE ~known
  <2>1. /\ new.client = c /\ new.session = session[c] /\ new.id = id /\ new.object = o
        /\ new.component = Component[o]
    BY DEF NewProxy
  <2>2. req = [proxies |-> Assign(old.proxies, id, new), clear |-> old.clear, begun |-> old.begun]
    BY <1>4 DEF Insert
  <2>3. old.clear = TRUE /\ old.begun = <<>>
    <3> HIDE DEF old
    <3> QED BY <1>2 DEF MapOf
  <2> HIDE DEF new, req
  <2>4. /\ DOMAIN req.proxies = DOMAIN old.proxies \cup {id} /\ req.proxies[id] = new
        /\ \A i \in DOMAIN old.proxies : req.proxies[i] = old.proxies[i]
    <3> HIDE DEF old
    <3>1. req.proxies = Assign(old.proxies, id, new)
      BY <2>2
    <3> QED BY <1>4, <3>1 DEF Assign
  <2>5. MapOf(c, req)
    <3>1. req = [proxies |-> req.proxies, clear |-> TRUE, begun |-> <<>>]
      BY <2>2, <2>3
    <3> HIDE DEF old
    <3> QED BY <1>2, <2>1, <2>4, <3>1 DEF MapOf
  <2>6. amiss' = {}
    BY <1>1, <1>4 DEF Note, Quiet
  <2> HIDE DEF old
  <2> QED BY <1>1, <1>4, <2>1, <2>4, <2>5, <2>6 DEF old
<1> QED BY <1>3, <1>4

\* Whoever gets a proxy has a requestor from then on, and what it had before.
LEMMA ProxyKept ==
  ASSUME RequestorsCounted, Maps, Proxies, Quiet, Nodes, Lapses = {},
         NEW c \in Clients, c \in running, NEW id, NEW o, Live(id, o),
         GetOrCreateProxy(c, id, o, Component[o]),
         UNCHANGED <<slot, session, running, creator>>,
         DOMAIN waiting' \ {c} = DOMAIN waiting \ {c}
  PROVE  /\ RequestorsCounted' /\ Maps' /\ Proxies' /\ amiss' = {}
         /\ \A d, s : Of(d, s) \subseteq Of(d, s)'
<1>1. session[c] \in Nat \ {0}
  BY DEF Nodes
<1>2. amiss' = {} /\ connected' = connected \cup {<<c, session[c]>>}
  BY <1>1, ProxyGot
<1>3. PICK req, p :
        /\ requestor' = Assign(requestor, c, req) /\ MapOf(c, req)
        /\ \A i \in DOMAIN GetOrCreateRequestor(c).proxies :
             i \in DOMAIN req.proxies /\ req.proxies[i] = GetOrCreateRequestor(c).proxies[i]
        /\ proxies' = proxies \cup {p}
        /\ p.client = c /\ p.session = session[c] /\ p.id = id /\ p.object = o
        /\ p.component = Component[o] /\ id \in DOMAIN req.proxies /\ req.proxies[id] = p
  BY <1>1, ProxyGot
<1>4. /\ \A d, s : Of(d, s) \subseteq Of(d, s)'
      /\ \A d, s : d # c => Of(d, s)' = Of(d, s)
      /\ p \in Of(c, session[c])'
  BY <1>3 DEF Of
<1>5. /\ RequestorsCounted' /\ Maps'
      /\ \A d \in DOMAIN requestor \ {c} : requestor'[d] = requestor[d]
      /\ DOMAIN requestor' = DOMAIN requestor \cup {c} /\ requestor'[c] = req
  <2>1. Needed(c)'
    BY <1>4 DEF Needed
  <2>2. \A d \in Clients \ {c} : Needed(d)' <=> Needed(d)
    BY <1>4 DEF Needed
  <2> QED BY <1>2, <1>3, <2>1, <2>2, RequestorSet
<1>6. Proxies'
  <2>1. ASSUME NEW r \in proxies, InMap(r) PROVE InMap(r)'
    <3>1. CASE r.client = c
      <4>1. c \in DOMAIN requestor /\ GetOrCreateRequestor(c) = requestor[c]
        BY <2>1, <3>1 DEF InMap, GetOrCreateRequestor
      <4>2. r.id \in DOMAIN req.proxies /\ req.proxies[r.id] = r
        BY <1>3, <2>1, <3>1, <4>1 DEF InMap
      <4> QED BY <1>5, <2>1, <3>1, <4>1, <4>2 DEF InMap
    <3>2. CASE r.client # c
      BY <1>5, <2>1, <3>2 DEF InMap
    <3> QED BY <3>1, <3>2
  <2>2. InMap(p)'
    BY <1>3, <1>5 DEF InMap, Live
  <2>3. /\ p.client \in Clients /\ p.session \in 1..session[p.client]
        /\ p.id \in Ids /\ p.object \in Objects
    BY <1>1, <1>3 DEF Live
  <2> QED BY <1>3, <2>1, <2>2, <2>3 DEF Proxies
<1> QED BY <1>2, <1>4, <1>5, <1>6

LEMMA ReceiveStep ==
  ASSUME RemoteInv, Lapses = {}, NEW g \in given, Receive(g), TableInv', PublishedStays'
  PROVE  RemoteInv'
<1> USE DEF RemoteInv
<1>1. /\ g.to \in running /\ GetOrCreateProxy(g.to, g.id, g.object, g.component)
      /\ given' = given \ {g}
      /\ UNCHANGED <<tableVars, session, running, starts, creator, queue, sends, waiting>>
  BY DEF Receive
<1>2. g.to \in Clients /\ Live(g.id, g.object) /\ g.component = Component[g.object]
  BY DEF Given
<1>3. /\ RequestorsCounted' /\ Maps' /\ Proxies' /\ amiss' = {}
      /\ \A d, s : Of(d, s) \subseteq Of(d, s)'
  BY <1>1, <1>2, ProxyKept DEF tableVars
<1>4. Queues' /\ Waits'
  <2>1. \A d \in DOMAIN waiting : d \in running /\ Of(d, session[d]) \subseteq Of(d, session[d])'
    BY <1>1, <1>3 DEF Waits
  <2> QED BY <1>1, <2>1, QueuesQuiet
<1>5. Given'
  BY <1>1 DEF Given, Live, tableVars
<1>6. Nodes' /\ Quiet'
  BY <1>1, <1>3 DEF Nodes, Quiet, tableVars
<1> QED BY <1>3, <1>4, <1>5, <1>6


-----------------------------------------------------------------------------
(* Requestors that go.                                                     *)

\* The destructor finds a requestor in its manager or disconnected.
LEMMA DestroyedIs ==
  ASSUME RequestorsCounted, NEW c, NEW s, DestroyRequestor(c, s)
  PROVE  /\ amiss' = amiss /\ connected' = connected \ {<<c, s>>}
         /\ \/ <<c, s>> \notin connected /\ requestor' = requestor
            \/ /\ c \in DOMAIN requestor /\ s = session[c]
               /\ requestor' = Erase(requestor, c)
<1>1. CASE <<c, s>> \notin connected
  BY <1>1 DEF DestroyRequestor
<1>2. CASE <<c, s>> \in connected
  <2>1. c \in DOMAIN requestor /\ s = session[c] /\ c \in running
    BY <1>2, ConnectedIs DEF RequestorsCounted
  <2>2. OnRequestorDestroyed(c) /\ connected' = connected \ {<<c, s>>}
    BY <1>2, <2>1 DEF DestroyRequestor
  <2> QED BY <2>1, <2>2 DEF OnRequestorDestroyed, Note
<1> QED BY <1>1, <1>2

\* A requestor is taken out of the manager, when nothing needs it any more.
LEMMA RequestorErased ==
  ASSUME RequestorsCounted, Maps, NEW c,
         requestor' = Erase(requestor, c),
         connected' = connected \ {<<c, session[c]>>},
         session' = session, ~Needed(c)',
         \A d \in Clients \ {c} : Needed(d)' <=> Needed(d)
  PROVE  /\ RequestorsCounted' /\ Maps'
         /\ DOMAIN requestor' = DOMAIN requestor \ {c}
         /\ \A d \in DOMAIN requestor \ {c} : requestor'[d] = requestor[d]
<1>1. /\ DOMAIN requestor' = DOMAIN requestor \ {c}
      /\ \A d \in DOMAIN requestor \ {c} : requestor'[d] = requestor[d]
      /\ requestor' = [d \in DOMAIN requestor' |-> requestor'[d]]
  <2>1. requestor' = [d \in DOMAIN requestor \ {c} |-> requestor[d]]
    BY DEF Erase, Restrict
  <2> QED BY <2>1
<1>2. Maps'
  BY <1>1 DEF Maps, MapOf
<1>3. RequestorsCounted'
  <2>1. /\ \A d \in Clients : d \in DOMAIN requestor <=> Needed(d)
        /\ DOMAIN requestor \subseteq Clients
        /\ connected = {<<d, session[d]>> : d \in DOMAIN requestor}
    BY CountedNeeded
  <2>2. \A d \in Clients : d \in DOMAIN requestor' <=> Needed(d)'
    BY <1>1, <2>1
  <2>3. DOMAIN requestor' \subseteq Clients
    BY <1>1, <2>1
  <2>4. connected' = {<<d, session'[d]>> : d \in DOMAIN requestor'}
    BY <1>1, <2>1
  <2> QED BY <2>2, <2>3, <2>4 DEF RequestorsCounted, Needed
<1> QED BY <1>1, <1>2, <1>3

\* No requestor comes or goes, and neither does what it is needed for.
LEMMA RequestorsKept ==
  ASSUME RequestorsCounted, Maps, UNCHANGED <<requestor, connected, session>>,
         \A d \in Clients : Needed(d)' <=> Needed(d)
  PROVE  RequestorsCounted' /\ Maps'
<1>1. /\ \A d \in Clients : d \in DOMAIN requestor <=> Needed(d)
      /\ DOMAIN requestor \subseteq Clients
      /\ connected = {<<d, session[d]>> : d \in DOMAIN requestor}
  BY CountedNeeded
<1>2. RequestorsCounted'
  BY <1>1 DEF RequestorsCounted, Needed
<1> QED BY <1>2 DEF Maps, MapOf

\* The proxies that are left, once the requestor of c is gone.
LEMMA ProxiesErased ==
  ASSUME Proxies, NEW c, UNCHANGED <<session, slot>>,
         proxies' \subseteq proxies, running' \subseteq running,
         DOMAIN requestor \ {c} \subseteq DOMAIN requestor',
         \A d \in DOMAIN requestor \ {c} : requestor'[d] = requestor[d],
         c \in running' => Of(c, session[c])' = {}
  PROVE  Proxies'
<1> SUFFICES ASSUME NEW p \in proxies', p.client \in running', p.session = session[p.client]
             PROVE  InMap(p)'
  BY DEF Proxies
<1>1. p \in Of(p.client, session[p.client])'
  BY DEF Of
<1>2. p.client # c
  BY <1>1
<1>3. InMap(p)
  BY DEF Proxies
<1> QED BY <1>2, <1>3 DEF InMap

\* The last proxy takes the requestor along, except while its client has a barrier up or
\* waits.
LEMMA DropStep ==
  ASSUME RemoteInv, NEW p \in proxies, Drop(p), TableInv', PublishedStays'
  PROVE  RemoteInv'
<1> USE DEF RemoteInv
<1> DEFINE c == p.client
           s == p.session
           destroys == Of(c, s) = {p} /\ ~KeptWithout(c, s)
<1>1. /\ ~HeldByCall(p)
      /\ proxies' = proxies \ {p}
      /\ IF destroys THEN DestroyRequestor(c, s) ELSE UNCHANGED <<requestor, connected, amiss>>
      /\ UNCHANGED <<tableVars, session, running, starts, creator, queue, sends, waiting, given>>
  BY DEF Drop
<1>2. c \in Clients
  BY DEF Proxies
<1>3. /\ \A d, n : Of(d, n)' = Of(d, n) \ {p}
      /\ \A d, n : d # c \/ n # s => Of(d, n)' = Of(d, n)
  BY <1>1 DEF Of
<1>4. \A d \in Clients \ {c} : Needed(d)' <=> Needed(d)
  BY <1>1, <1>3 DEF Needed
<1>5. Queues' /\ Waits'
  <2>1. \A d \in DOMAIN waiting :
          d \in running' /\ \A q \in Of(d, session[d]) : q \in Of(d, session[d])' \/ ~HeldByCall(q)
    <3>1. session' = session /\ running' = running
      BY <1>1
    <3> QED BY <1>1, <3>1 DEF Waits, Of
  <2> QED BY <1>1, <2>1, QueuesQuiet
<1>6. CASE destroys /\ c \in DOMAIN requestor /\ s = session[c] /\ requestor' = Erase(requestor, c)
  <2>1. amiss' = amiss /\ connected' = connected \ {<<c, session[c]>>}
    BY <1>1, <1>6, DestroyedIs
  <2>2. c \notin creator /\ c \notin DOMAIN waiting
    BY <1>6 DEF KeptWithout
  <2>3. Of(c, session[c])' = {}
    <3>1. session' = session
      BY <1>1
    <3>2. Of(c, s)' = {}
      BY <1>3, <1>6
    <3> QED BY <1>6, <3>1, <3>2 DEF Of
  <2>4. ~Needed(c)'
    BY <1>1, <1>6, <2>2, <2>3 DEF Needed
  <2>5. /\ RequestorsCounted' /\ Maps'
        /\ DOMAIN requestor' = DOMAIN requestor \ {c}
        /\ \A d \in DOMAIN requestor \ {c} : requestor'[d] = requestor[d]
    BY <1>1, <1>4, <1>6, <2>1, <2>4, RequestorErased
  <2>6. Proxies'
    BY <1>1, <2>3, <2>5, ProxiesErased DEF tableVars
  <2>7. Given'
    BY <1>1 DEF Given, Live, tableVars
  <2>8. Nodes' /\ Quiet'
    BY <1>1, <2>1 DEF Nodes, Quiet, tableVars
  <2> QED BY <1>5, <2>5, <2>6, <2>7, <2>8
<1>7. CASE /\ requestor' = requestor /\ connected' = connected /\ amiss' = amiss
           /\ destroys => <<c, s>> \notin connected
  <2>1. Needed(c)' <=> Needed(c)
    <3>1. CASE s = session[c]
      <4>1. Needed(c)' => Needed(c)
        BY <1>1, <1>3 DEF Needed
      <4>2. CASE destroys
        <5>1. c \notin DOMAIN requestor
          BY <1>7, <3>1, <4>2, ConnectedIs
        <5>2. ~Needed(c)
          BY <1>2, <5>1, CountedNeeded
        <5> QED BY <4>1, <5>2
      <4>3. CASE ~destroys
        <5>1. c \in creator \/ c \in DOMAIN waiting \/ Of(c, session[c])' # {}
          <6>1. p \in Of(c, s)
            BY DEF Of
          <6>2. c \in creator \/ c \in DOMAIN waiting \/ Of(c, s) \ {p} # {}
            BY <3>1, <4>3, <6>1 DEF KeptWithout
          <6>3. session' = session
            BY <1>1
          <6> QED BY <1>3, <3>1, <6>2, <6>3 DEF Of
        <5> QED BY <1>1, <4>1, <5>1 DEF Needed
      <4> QED BY <4>2, <4>3
    <3>2. CASE s # session[c]
      BY <1>1, <1>3, <3>2 DEF Needed
    <3> QED BY <3>1, <3>2
  <2>2. RequestorsCounted' /\ Maps'
    BY <1>1, <1>4, <1>7, <2>1, RequestorsKept
  <2>3. Proxies'
    BY <1>1, <1>7 DEF Proxies, InMap, tableVars
  <2>4. Given'
    BY <1>1 DEF Given, Live, tableVars
  <2>5. Nodes' /\ Quiet'
    BY <1>1, <1>7 DEF Nodes, Quiet, tableVars
  <2> QED BY <1>5, <2>2, <2>3, <2>4, <2>5
<1>8. CASE destroys
  <2>1. /\ amiss' = amiss /\ connected' = connected \ {<<c, s>>}
        /\ \/ <<c, s>> \notin connected /\ requestor' = requestor
           \/ c \in DOMAIN requestor /\ s = session[c] /\ requestor' = Erase(requestor, c)
    BY <1>1, <1>8, DestroyedIs
  <2> HIDE DEF RemoteInv, c, s, destroys
  <2>2. CASE <<c, s>> \notin connected /\ requestor' = requestor
    <3>1. connected' = connected
      BY <2>1, <2>2
    <3> QED BY <1>7, <2>1, <2>2, <3>1
  <2>3. CASE c \in DOMAIN requestor /\ s = session[c] /\ requestor' = Erase(requestor, c)
    BY <1>6, <1>8, <2>3
  <2> QED BY <2>1, <2>2, <2>3
<1>9. CASE ~destroys
  <2> HIDE DEF RemoteInv, c, s, destroys
  <2> QED BY <1>1, <1>7, <1>9
<1> QED BY <1>8, <1>9

\* A client that stops leaves its proxies to sessions that are over.
LEMMA StopStep ==
  ASSUME RemoteInv, NEW c \in Clients, Stop(c), TableInv', PublishedStays'
  PROVE  RemoteInv'
<1> USE DEF RemoteInv
<1>1. /\ c \in running /\ c \notin DOMAIN waiting
      /\ running' = running \ {c} /\ creator' = creator \ {c}
      /\ requestor' = Erase(requestor, c)
      /\ connected' = connected \ {<<c, session[c]>>}
      /\ UNCHANGED <<tableVars, session, starts, proxies, queue, sends, waiting, given, amiss>>
  BY DEF Stop, Free, Disconnect
<1>2. \A d, s : Of(d, s)' = Of(d, s)
  BY <1>1 DEF Of
<1>3. ~Needed(c)'
  BY <1>1 DEF Needed
<1>4. \A d \in Clients \ {c} : Needed(d)' <=> Needed(d)
  BY <1>1, <1>2 DEF Needed
<1>5. /\ RequestorsCounted' /\ Maps'
      /\ DOMAIN requestor' = DOMAIN requestor \ {c}
      /\ \A d \in DOMAIN requestor \ {c} : requestor'[d] = requestor[d]
  BY <1>1, <1>3, <1>4, RequestorErased
<1>6. Proxies'
  BY <1>1, <1>5, ProxiesErased DEF tableVars
<1>7. Queues' /\ Waits'
  <2>1. \A d \in DOMAIN waiting : d \in running'
    BY <1>1 DEF Waits
  <2> QED BY <1>1, <1>2, <2>1, QueuesQuiet
<1>8. Given'
  BY <1>1 DEF Given, Live, tableVars
<1>9. Nodes' /\ Quiet'
  BY <1>1 DEF Nodes, Quiet, tableVars
<1> QED BY <1>5, <1>6, <1>7, <1>8, <1>9

\* A client that starts again has no proxies in its new session.
LEMMA StartStep ==
  ASSUME RemoteInv, NEW c \in Clients, Start(c), TableInv', PublishedStays'
  PROVE  RemoteInv'
<1> USE DEF RemoteInv
<1>1. /\ c \notin running /\ starts < MaxStarts /\ starts' = starts + 1
      /\ running' = running \cup {c}
      /\ session' = [session EXCEPT ![c] = session[c] + 1]
      /\ UNCHANGED <<tableVars, requestor, connected, proxies, creator, queue, sends, waiting,
                     given, amiss>>
  BY DEF Start
<1>2. /\ session \in [Clients -> Nat \ {0}] /\ starts \in 0..MaxStarts /\ MaxStarts \in Nat
      /\ \A d \in Clients : session[d] <= starts + 1
  BY RemoteAssumption DEF Nodes
<1>3. /\ session'[c] = session[c] + 1
      /\ \A d \in Clients \ {c} : session'[d] = session[d]
      /\ session' \in [Clients -> Nat \ {0}]
  <2>1. session[c] + 1 \in Nat \ {0}
    BY <1>2
  <2> QED BY <1>1, <1>2, <2>1
<1>4. \A q \in proxies : q.client = c => q.session \in 1..session[c] /\ q.session # session[c] + 1
  <2> SUFFICES ASSUME NEW q \in proxies, q.client = c
               PROVE  q.session \in 1..session[c] /\ q.session # session[c] + 1
    OBVIOUS
  <2>1. q.session \in 1..session[c] /\ session[c] \in Nat
    BY <1>2 DEF Proxies
  <2> QED BY <2>1
<1>5. c \notin DOMAIN requestor /\ c \notin creator /\ c \notin DOMAIN waiting
  BY <1>1 DEF RequestorsCounted, Nodes, Waits
<1>6. Of(c, session[c])' = {}
  BY <1>1, <1>3, <1>4 DEF Of
<1>7. \A d \in Clients \ {c} : Of(d, session[d])' = Of(d, session[d])
  BY <1>1, <1>3 DEF Of
<1>8. RequestorsCounted' /\ Maps'
  <2>1. /\ \A d \in Clients : d \in DOMAIN requestor <=> Needed(d)
        /\ DOMAIN requestor \subseteq Clients
        /\ connected = {<<d, session[d]>> : d \in DOMAIN requestor}
    BY CountedNeeded
  <2>2. ~Needed(c)'
    BY <1>1, <1>5, <1>6 DEF Needed
  <2>3. \A d \in Clients \ {c} : Needed(d)' <=> Needed(d)
    BY <1>1, <1>7 DEF Needed
  <2>4. \A d \in DOMAIN requestor : session'[d] = session[d]
    BY <1>3, <1>5, <2>1
  <2>5. \A d \in Clients : d \in DOMAIN requestor' <=> Needed(d)'
    BY <1>1, <1>5, <2>1, <2>2, <2>3
  <2>6. DOMAIN requestor' \subseteq Clients
    BY <1>1, <2>1
  <2>7. connected' = {<<d, session'[d]>> : d \in DOMAIN requestor'}
    BY <1>1, <2>1, <2>4
  <2>8. RequestorsCounted'
    BY <2>5, <2>6, <2>7 DEF RequestorsCounted, Needed
  <2>9. Maps'
    BY <1>1, <2>4 DEF Maps, MapOf
  <2> QED BY <2>8, <2>9
<1>9. Proxies'
  <2> SUFFICES ASSUME NEW q \in proxies
               PROVE  /\ q.client \in Clients /\ q.session \in 1..session'[q.client]
                      /\ q.id \in Ids /\ q.object \in Objects
                      /\ q.client \in running' /\ q.session = session'[q.client] => InMap(q)'
    BY <1>1 DEF Proxies
  <2>1. /\ q.client \in Clients /\ q.session \in 1..session[q.client]
        /\ q.id \in Ids /\ q.object \in Objects
        /\ q.client \in running /\ q.session = session[q.client] => InMap(q)
    BY DEF Proxies
  <2>2. CASE q.client = c
    <3>1. session[c] \in Nat /\ q.session \in 1..session[c]
      BY <1>2, <1>4, <2>2
    <3>2. q.session \in 1..(session[c] + 1)
      BY <3>1
    <3> QED BY <1>3, <1>4, <2>1, <2>2, <3>2
  <2>3. CASE q.client # c
    <3>1. InMap(q) => InMap(q)'
      BY <1>1 DEF InMap, tableVars
    <3> QED BY <1>1, <1>3, <2>1, <2>3, <3>1
  <2> QED BY <2>2, <2>3
<1>10. Queues' /\ Waits'
  <2>1. \A d \in DOMAIN waiting : d \in running' /\ Of(d, session[d]) \subseteq Of(d, session[d])'
    <3>1. \A d \in DOMAIN waiting : d \in running /\ d \in Clients /\ d # c
      BY <1>5 DEF Waits, Nodes
    <3> QED BY <1>1, <1>7, <3>1
  <2> QED BY <1>1, <2>1, QueuesQuiet
<1>11. Given'
  BY <1>1 DEF Given, Live, tableVars
<1>12. Nodes' /\ Quiet'
  <2>1. starts' \in 0..MaxStarts /\ starts \in Nat
    BY <1>1, <1>2
  <2>2. \A d \in Clients : session'[d] <= starts' + 1
    <3> SUFFICES ASSUME NEW d \in Clients PROVE session'[d] <= starts' + 1
      OBVIOUS
    <3>1. session[d] \in Nat /\ session[d] <= starts + 1 /\ starts \in Nat
      BY <1>2, <2>1
    <3>2. session'[d] = session[d] \/ session'[d] = session[d] + 1
      BY <1>3
    <3> QED BY <1>1, <3>1, <3>2
  <2> QED BY <1>1, <1>3, <2>1, <2>2 DEF Nodes, Quiet, tableVars
<1> QED BY <1>8, <1>9, <1>10, <1>11, <1>12

-----------------------------------------------------------------------------
(* Requests that are served.                                               *)

\* The table is as it was, as far as ids lead anywhere.
LEMMA SameGrows ==
  ASSUME slot' = slot, published' = published, bound' = bound
  PROVE  Grows
BY DEF Grows

\* A reference is read as it was written.
LEMMA ReferencesRead ==
  ASSUME NEW id, NEW o
  PROVE  /\ HasRef(InRef(id)) /\ PullRef(InRef(id)).instance_id = id
         /\ PullRef(OutRef(id, o)).instance_id = id
         /\ PullRef(OutRef(id, o)).instance_type = Component[o]
<1> DEFINE in == [owner |-> "OWNER_RECEIVER", instance_id |-> id, facet_idx |-> 0]
           out == [owner |-> "OWNER_SENDER", instance_id |-> id, facet_idx |-> 0,
                   instance_type |-> Component[o], owner_endpoint |-> "owner"]
<1>1. ASSUME NEW ref PROVE HasRef(<<[ref_type |-> ref]>>) /\ PullRef(<<[ref_type |-> ref]>>) = ref
  BY DEF HasRef, PullRef
<1>2. InRef(id) = <<[ref_type |-> in]>> /\ OutRef(id, o) = <<[ref_type |-> out]>>
  BY DEF InRef, OutRef, RefParam
<1>3. HasRef(InRef(id)) /\ PullRef(InRef(id)) = in /\ PullRef(OutRef(id, o)) = out
  <2> HIDE DEF in, out
  <2> QED BY <1>1, <1>2
<1> QED BY <1>3

\* The first message of a queue goes, and its client's wait gets a reply, or none yet.
LEMMA ServedKeeps ==
  ASSUME TableInv, Nodes, Queues, Waits, Grows, NEW c \in Clients, queue[c] # <<>>,
         queue' = [queue EXCEPT ![c] = Tail(@)], UNCHANGED <<session, running, proxies>>,
         \/ waiting' = waiting
         \/ \E msg, o :
              /\ Reply(c, msg, o) /\ Asks(queue[c][1])
              /\ \A r : r = queue[c][1] => FineReply([request |-> r, reply |-> msg, found |-> o])'
  PROVE  /\ Queues' /\ Waits' /\ queue' = [d \in Clients |-> queue'[d]]
         /\ DOMAIN waiting' = DOMAIN waiting
<1> DEFINE q == queue[c]
           t == Tail(q)
<1>1. /\ queue' = [queue EXCEPT ![c] = t]
      /\ queue = [d \in Clients |-> queue[d]]
  BY DEF Nodes
<1>2. /\ queue' = [d \in Clients |-> queue'[d]] /\ queue'[c] = t
      /\ \A d \in Clients \ {c} : queue'[d] = queue[d]
  BY <1>1
<1>3. IsQueue(q) /\ Len(q) <= MaxQueue
  BY DEF Queues
<1>4. /\ IsQueue(t)
      /\ Len(q) \in Nat \ {0} /\ Len(t) = Len(q) - 1
      /\ \A i \in 1..Len(t) : i + 1 \in 1..Len(q) /\ t[i] = q[i + 1]
  <2>1. q # <<>>
    OBVIOUS
  <2> HIDE DEF q
  <2> QED BY <1>3, <2>1, TailQueue
<1>5. \A i \in 1..Len(q) :
        /\ Fine(q[i])
        /\ Asks(q[i]) =>
             /\ i = Len(q) /\ c \in DOMAIN waiting
             /\ waiting[c].reply = None /\ waiting[c].request = q[i]
  BY DEF Queues
<1>6. \A r : Fine(r) => Fine(r)'
  BY FineGrows
<1>7. \A d, s : Of(d, s)' = Of(d, s)
  BY DEF Of
<1>8. /\ DOMAIN waiting' = DOMAIN waiting
      /\ \A d \in DOMAIN waiting : d # c => waiting'[d] = waiting[d]
      /\ \/ waiting' = waiting
         \/ /\ Asks(q[1])
            /\ c \in DOMAIN waiting =>
                 /\ waiting'[c] = [request |-> waiting'[c].request, reply |-> waiting'[c].reply,
                                   found |-> waiting'[c].found]
                 /\ waiting'[c].request = waiting[c].request
                 /\ waiting[c].request = q[1] => FineReply(waiting[c])'
  <2>1. CASE waiting' = waiting
    BY <2>1
  <2>2. ASSUME NEW msg, NEW o, Reply(c, msg, o), Asks(q[1]),
               \A r : r = q[1] => FineReply([request |-> r, reply |-> msg, found |-> o])'
        PROVE  /\ DOMAIN waiting' = DOMAIN waiting
               /\ \A d \in DOMAIN waiting : d # c => waiting'[d] = waiting[d]
               /\ c \in DOMAIN waiting =>
                    /\ waiting'[c] = [request |-> waiting'[c].request, reply |-> waiting'[c].reply,
                                      found |-> waiting'[c].found]
                    /\ waiting'[c].request = waiting[c].request
                    /\ waiting[c].request = q[1] => FineReply(waiting[c])'
    <3> DEFINE w == [request |-> waiting[c].request, reply |-> msg, found |-> o]
    <3>1. waiting' = [waiting EXCEPT ![c] = w]
      BY <2>2 DEF Reply
    <3>2. w = [request |-> w.request, reply |-> w.reply, found |-> w.found]
          /\ w.request = waiting[c].request
      OBVIOUS
    <3>3. ASSUME NEW r, r = q[1], waiting[c].request = r
          PROVE  FineReply([request |-> r, reply |-> msg, found |-> o])'
      BY <2>2, <3>3
    <3>4. ASSUME NEW v, v = w, waiting[c].request = q[1] PROVE FineReply(v)'
      <4>1. PICK r : r = q[1]
        OBVIOUS
      <4>2. v = [request |-> r, reply |-> msg, found |-> o]
        BY <3>4, <4>1
      <4> QED BY <3>3, <3>4, <4>1, <4>2
    <3> HIDE DEF w
    <3>5. DOMAIN waiting' = DOMAIN waiting /\ \A d \in DOMAIN waiting : d # c => waiting'[d] = waiting[d]
      BY <3>1
    <3>6. c \in DOMAIN waiting => waiting'[c] = w
      BY <3>1
    <3>7. ASSUME c \in DOMAIN waiting, waiting[c].request = q[1] PROVE FineReply(waiting[c])'
      <4>1. PICK v : v = waiting'[c]
        OBVIOUS
      <4>2. FineReply(v)'
        BY <3>4, <3>6, <3>7, <4>1
      <4> QED BY <4>1, <4>2
    <3> QED BY <2>2, <3>2, <3>5, <3>6, <3>7
  <2> QED BY <2>1, <2>2
<1> HIDE DEF q, t
<1>9. Queues'
  <2> SUFFICES ASSUME NEW d \in Clients
               PROVE  /\ IsQueue(queue'[d])
                      /\ Len(queue'[d]) <= MaxQueue
                      /\ \A i \in 1..Len(queue'[d]) :
                           /\ Fine(queue[d][i])'
                           /\ Asks(queue'[d][i]) =>
                                /\ i = Len(queue'[d])
                                /\ d \in DOMAIN waiting'
                                /\ waiting'[d].reply = None /\ waiting'[d].request = queue'[d][i]
    BY DEF Queues, Asks
  <2>1. CASE d # c
    BY <1>2, <1>6, <1>8, <2>1 DEF Queues
  <2>2. CASE d = c
    <3>1. MaxQueue \in Nat
      BY RemoteAssumption
    <3>2. Len(t) <= MaxQueue
      BY <1>3, <1>4, <3>1
    <3>3. ASSUME NEW i \in 1..Len(t)
          PROVE  /\ i + 1 \in 1..Len(q) /\ t[i] = q[i + 1]
                 /\ i + 1 = Len(q) => i = Len(t)
                 /\ 1 \in 1..Len(q) /\ 1 # Len(q)
      <4>1. i + 1 \in 1..Len(q) /\ t[i] = q[i + 1]
        BY <1>4
      <4>2. Len(q) \in Nat \ {0} /\ Len(t) = Len(q) - 1 /\ i \in Nat /\ 1 <= i /\ i <= Len(t)
        BY <1>4
      <4> QED BY <4>1, <4>2
    <3>4. ASSUME NEW i \in 1..Len(t)
          PROVE  /\ Fine(t[i])
                 /\ Asks(t[i]) =>
                      /\ i = Len(t)
                      /\ c \in DOMAIN waiting'
                      /\ waiting'[c].reply = None /\ waiting'[c].request = t[i]
      <4>1. Fine(t[i]) /\ ~Asks(q[1])
        BY <1>5, <3>3
      <4>2. waiting' = waiting
        BY <1>8, <4>1
      <4> QED BY <1>5, <3>3, <4>1, <4>2
    <3>5. \A i \in 1..Len(t) : Fine(queue[c][i])'
      BY <1>2, <1>6, <3>4
    <3> QED BY <1>2, <1>4, <2>2, <3>2, <3>4, <3>5
  <2> QED BY <2>1, <2>2
<1>10. Waits'
  <2> SUFFICES ASSUME NEW d \in DOMAIN waiting
               PROVE  /\ d \in running
                      /\ waiting'[d] = [request |-> waiting'[d].request, reply |-> waiting'[d].reply,
                                        found |-> waiting'[d].found]
                      /\ Fine(waiting[d].request)' /\ Asks(waiting'[d].request)
                      /\ waiting'[d].request.msg.type = "INVOCATION" => Callee(waiting'[d].request, Of(d, session[d]))
                      /\ waiting'[d].reply # None => FineReply(waiting[d])'
    BY <1>7, <1>8 DEF Waits, Asks
  <2>1. /\ d \in running
        /\ waiting[d] = [request |-> waiting[d].request, reply |-> waiting[d].reply,
                         found |-> waiting[d].found]
        /\ Fine(waiting[d].request) /\ Asks(waiting[d].request)
        /\ waiting[d].request.msg.type = "INVOCATION" => Callee(waiting[d].request, Of(d, session[d]))
        /\ waiting[d].reply # None => FineReply(waiting[d])
    BY DEF Waits
  <2>2. waiting'[d].request = waiting[d].request
    BY <1>8
  <2>3. Fine(waiting[d].request)'
    BY <1>6, <2>1, <2>2
  <2>4. CASE waiting'[d] = waiting[d]
    <3>1. waiting'[d].reply # None => FineReply(waiting[d])'
      BY <2>1, <2>4, ReplyGrows
    <3> QED BY <2>1, <2>3, <2>4, <3>1
  <2>5. CASE waiting'[d] # waiting[d]
    <3>1. d = c /\ Asks(q[1])
      BY <1>8, <2>5
    <3>2. 1 \in 1..Len(q)
      BY <1>4
    <3>3. waiting[c].request = q[1]
      BY <1>5, <3>1, <3>2
    <3>4. FineReply(waiting[d])'
      BY <1>8, <2>5, <3>1, <3>3
    <3> QED BY <1>8, <2>1, <2>2, <2>3, <2>5, <3>1, <3>4
  <2> QED BY <2>4, <2>5
<1> QED BY <1>2, <1>8, <1>9, <1>10

\* A lookup that is served: its key leads to the instance published under it, or to none.
LEMMA ServedLookup ==
  ASSUME RemoteInv, NEW c, NEW e, FineLookup(e), ServeLookup(c, Received(e.msg))
  PROVE  /\ Grows /\ fault' = fault
         /\ \E msg, o :
              /\ Reply(c, msg, o)
              /\ FineReply([request |-> e, reply |-> msg, found |-> o])'
<1> USE DEF RemoteInv
<1>1. PICK k \in Keys, ob \in Objects :
        e = Entry(LookupMessage(k, Component[ob]), {}, {k}) /\ KeyHolds(k)
  BY DEF FineLookup
<1>2. e.msg = LookupMessage(k, Component[ob]) /\ e.keys = {k}
  BY <1>1 DEF Entry
<1>3. /\ e.msg.type = "REQUEST_LOOKUP"
      /\ GetRequest(e.msg) = [lookup_key |-> k, instance_type |-> Component[ob]]
  BY <1>2 DEF LookupMessage, GetRequest, Reads
<1>4. GetRequest(Received(e.msg)) = [lookup_key |-> k, instance_type |-> Component[ob]]
  BY <1>2, MessageAssumption DEF LookupArrives
<1> DEFINE id == published[k]
           w(msg, o) == [request |-> e, reply |-> msg, found |-> o]
<1>5. \/ id = NoId /\ Reply(c, IntReturn(NoId), None) /\ UNCHANGED tableVars
      \/ id \in freed /\ FindInstance(k)
      \/ /\ id \notin freed \cup {NoId}
         /\ IF Component[slot[id]] = Component[ob]
            THEN FindInstance(k) /\ Reply(c, IntReturn(id), slot[id])
            ELSE Reply(c, NoReply, None) /\ UNCHANGED tableVars
  BY <1>4 DEF ServeLookup
<1>6. id # NoId => id \in Ids /\ slot[id] = bound[k] /\ bound[k] \in Objects /\ id \notin freed
  <2> SUFFICES ASSUME id # NoId
               PROVE  id \in Ids /\ slot[id] = bound[k] /\ bound[k] \in Objects /\ id \notin freed
    OBVIOUS
  <2>1. bound[k] # None
    BY <1>1 DEF KeyHolds
  <2>2. id \in Ids /\ slot[id] = bound[k]
    BY <2>1 DEF PublishedStays
  <2>3. bound[k] \in Objects
    BY <2>1 DEF TableInv, TypeOK
  <2> QED BY <2>2, <2>3, LiveFound
<1>7. CASE Reply(c, IntReturn(NoId), None) /\ UNCHANGED tableVars
  <2>1. FineReply(w(IntReturn(NoId), None))'
    BY <1>3 DEF FineReply
  <2> QED BY <1>7, <2>1, SameGrows DEF tableVars
<1>8. CASE Reply(c, NoReply, None) /\ UNCHANGED tableVars
  <2>1. FineReply(w(NoReply, None))'
    BY <1>3 DEF FineReply
  <2> QED BY <1>8, <2>1, SameGrows DEF tableVars
<1>9. CASE /\ id # NoId /\ Component[slot[id]] = Component[ob]
           /\ FindInstance(k) /\ Reply(c, IntReturn(id), slot[id])
  <2>1. UNCHANGED <<slot, published, bound, fault>>
    BY <1>6, <1>9 DEF FindInstance
  <2>2. PICK i \in Ids, o \in Objects : i = id /\ o = slot[id]
    BY <1>6, <1>9
  <2>3. FineReply(w(IntReturn(i), o))'
    <3>1. Live(i, o)'
      BY <2>1, <2>2 DEF Live
    <3>2. published'[k] = i
      BY <2>1, <2>2
    <3>3. GetRequest(e.msg).instance_type = Component[o]
      BY <1>3, <1>9, <2>2
    <3>4. FoundReply(w(IntReturn(i), o))'
      BY <1>2, <3>1, <3>2, <3>3 DEF FoundReply
    <3> QED BY <1>3, <3>4 DEF FineReply
  <2>4. Reply(c, IntReturn(i), o)
    BY <1>9, <2>2
  <2> QED BY <2>1, <2>3, <2>4, SameGrows
<1>10. \/ Reply(c, IntReturn(NoId), None) /\ UNCHANGED tableVars
       \/ Reply(c, NoReply, None) /\ UNCHANGED tableVars
       \/ /\ id # NoId /\ Component[slot[id]] = Component[ob]
          /\ FindInstance(k) /\ Reply(c, IntReturn(id), slot[id])
  <2>1. CASE id = NoId /\ Reply(c, IntReturn(NoId), None) /\ UNCHANGED tableVars
    BY <2>1
  <2>2. id \notin freed
    <3>1. \A i \in Ids : i # NoId
      BY InstanceAssumption DEF Ids
    <3>2. freed \subseteq Ids
      BY DEF TableInv, TypeOK
    <3> QED BY <1>6, <3>1, <3>2
  <2>3. CASE /\ id \notin freed \cup {NoId}
             /\ IF Component[slot[id]] = Component[ob]
                THEN FindInstance(k) /\ Reply(c, IntReturn(id), slot[id])
                ELSE Reply(c, NoReply, None) /\ UNCHANGED tableVars
    <3> HIDE DEF id
    <3> QED BY <2>3
  <2> QED BY <1>5, <2>1, <2>2, <2>3
<1> QED BY <1>7, <1>8, <1>9, <1>10

\* What a fine call brings to the owner.
LEMMA CallArrives ==
  ASSUME NEW e, FineCall(e)
  PROVE  \E id \in Ids :
           /\ Live(id, e.object)
           /\ MessageType(Received(e.msg)) = "INVOCATION"
           /\ Received(e.msg).invocation =
                [instance_id |-> id, member |-> e.method, synch |-> Synchronous(e.method),
                 params |-> CallParams(e.method, e.argument)]
<1>1. PICK id \in Ids :
        /\ Live(id, e.object)
        /\ e.msg = InvocationMessage(id, e.method, Synchronous(e.method),
                                     CallParams(e.method, e.argument))
  BY DEF FineCall
<1>2. e.method \in Methods /\ RefusedArgs(e.method) = {}
  BY DEF FineCall
<1>3. InvocationArrives(id, e.method, CallParams(e.method, e.argument))
  <2>1. CASE e.argument = None
    <3>1. CallParams(e.method, e.argument) = Params(e.method, Len(e.method.args))
      BY <2>1 DEF CallParams
    <3> QED BY <1>2, <3>1, MessageAssumption
  <2>2. CASE e.argument # None
    <3>1. e.argument.id \in Ids
      BY <2>2 DEF FineCall, Live
    <3>2. CallParams(e.method, e.argument) =
            Append(Params(e.method, Len(e.method.args)), InRef(e.argument.id))
      BY <2>2 DEF CallParams
    <3> QED BY <1>2, <3>1, <3>2, MessageAssumption
  <2> QED BY <2>1, <2>2
<1> QED BY <1>1, <1>3 DEF InvocationArrives

\* A call that is served reaches its instance, with its arguments.
LEMMA ServedCall ==
  ASSUME RemoteInv, NEW c, NEW e, FineCall(e), ServeInvocation(c, e, Received(e.msg).invocation)
  PROVE  amiss' = {} /\ ReturnOutput(c, e.method.result)
<1> USE DEF RemoteInv
<1> DEFINE m == e.method
           q == e.argument
           call == Received(e.msg).invocation
           args == call.member.args
           params == call.params
           reached == GetInstance(call.instance_id)
           got(i) == ValueOf(params[i], args[i].type, InitialValue(args[i].type))
           last == params[Len(args) + 1]
           argument == IF HasRef(last) THEN GetInstance(PullRef(last).instance_id) ELSE None
<1>1. PICK id \in Ids :
        /\ Live(id, e.object)
        /\ call = [instance_id |-> id, member |-> m, synch |-> Synchronous(m),
                   params |-> CallParams(m, q)]
  BY CallArrives
<1>2. call.instance_id = id /\ call.member = m /\ params = CallParams(m, q)
  <2> HIDE DEF call, m, q
  <2> QED BY <1>1
<1>3. m \in Methods /\ RefusedArgs(m) = {} /\ ~Unreturnable(m.result)
  BY DEF FineCall
<1>4. reached = e.object /\ reached # None
  <2>1. GetInstance(id) = e.object /\ e.object # None
    BY <1>1, LiveFound, InstanceAssumption DEF Live
  <2> HIDE DEF call
  <2> QED BY <1>2, <2>1
<1>5. \A i \in DOMAIN args : got(i) = m.args[i].value
  <2> SUFFICES ASSUME NEW i \in DOMAIN m.args
               PROVE  ValueOf(CallParams(m, q)[i], m.args[i].type, InitialValue(m.args[i].type))
                        = m.args[i].value
    BY <1>2
  <2>1. CallParams(m, q)[i] = ParamOf(m.args[i].type, m.args[i].value)
    <3> HIDE DEF m, q
    <3> QED BY <1>3, CallParamsAre
  <2>2. ValueArrives(m.args[i])
    BY <1>3, MessageAssumption
  <2> QED BY <2>1, <2>2 DEF ValueArrives
<1>6. q # None => argument = q.object /\ argument # None
  <2> SUFFICES ASSUME q # None PROVE argument = q.object /\ argument # None
    OBVIOUS
  <2>1. Live(q.id, q.object)
    BY DEF FineCall
  <2>2. GetInstance(q.id) = q.object /\ q.object # None
    BY <2>1, LiveFound, InstanceAssumption DEF Live
  <2>3. CallParams(m, q)[Len(m.args) + 1] = InRef(q.id)
    <3> HIDE DEF m, q
    <3> QED BY <1>3, CallParamsAre
  <2>4. HasRef(last) /\ PullRef(last).instance_id = q.id
    <3>1. last = InRef(q.id)
      <4> HIDE DEF call, q, m
      <4> QED BY <1>2, <2>3
    <3> QED BY <3>1, ReferencesRead
  <2> HIDE DEF call, last, q
  <2> QED BY <2>2, <2>4
<1>7. /\ amiss' = amiss
           \cup Note(reached # e.object, "other instance")
           \cup Note(\E i \in DOMAIN args : got(i) # m.args[i].value, "other argument")
           \cup Note(q # None /\ HasRef(last) /\ argument = None, "null instance")
           \cup Note(q # None /\ argument # q.object, "other argument")
           \cup Note(ThrownInOutput(call.member), "assertion")
      /\ ReturnOutput(c, call.member.result)
  BY <1>4 DEF ServeInvocation
<1>8. ~ThrownInOutput(m)
  BY <1>3 DEF ThrownInOutput
<1> HIDE DEF call, reached, last, argument, got, q, m
<1> QED BY <1>2, <1>3, <1>4, <1>5, <1>6, <1>7, <1>8 DEF Note, Quiet, m

\* What is returned is the result of the method, a value or a reference that stays.
LEMMA ServedReturn ==
  ASSUME RemoteInv, NEW c, NEW e, FineCall(e), e.msg.type = "INVOCATION",
         ReturnOutput(c, e.method.result)
  PROVE  /\ Grows /\ fault' = fault
         /\ \/ waiting' = waiting
            \/ \E msg, o :
                 /\ Reply(c, msg, o) /\ Asks(e)
                 /\ FineReply([request |-> e, reply |-> msg, found |-> o])'
<1> USE DEF RemoteInv
<1> DEFINE result == e.method.result
           w(msg, o) == [request |-> e, reply |-> msg, found |-> o]
<1>1. ~Unreturnable(result) /\ None \notin Objects
  BY InstanceAssumption DEF FineCall
<1>2. CASE result = None
  <2>1. UNCHANGED <<tableVars, waiting>>
    BY <1>1, <1>2 DEF ReturnOutput
  <2> QED BY <2>1, SameGrows DEF tableVars
<1>3. CASE result \in Objects
  <2>1. PICK ob \in Objects : ob = result
    BY <1>3
  <2>2. /\ AddInstance(ob)
        /\ \E id \in Ids : slot'[id] # slot[id] /\ Reply(c, OutputMessage(<<OutRef(id, ob)>>), ob)
    BY <1>1, <2>1 DEF ReturnOutput
  <2>3. Grows
    BY <2>2, AddInstanceGrows
  <2>4. PICK id \in Ids : slot[id] = None /\ slot' = [slot EXCEPT ![id] = ob]
    BY <2>2, AddInstanceGrows
  <2>5. Reply(c, OutputMessage(<<OutRef(id, ob)>>), ob)
    BY <2>2, <2>4 DEF TableInv, TypeOK
  <2>6. UNCHANGED <<published, bound, fault>>
    BY <2>2 DEF AddInstance
  <2>7. FineReply(w(OutputMessage(<<OutRef(id, ob)>>), ob))'
    <3>1. Live(id, ob)'
      BY <2>4 DEF Live, TableInv, TypeOK
    <3>2. \A k \in Keys : bound[k] # None => published[k] # id
      BY <2>4 DEF PublishedStays
    <3>3. RefReply(w(OutputMessage(<<OutRef(id, ob)>>), ob))'
      BY <2>6, <3>1, <3>2 DEF RefReply
    <3> QED BY <3>3 DEF FineReply
  <2>8. Asks(e)
    BY <1>1, <2>1 DEF Asks, Synchronous
  <2> QED BY <2>3, <2>5, <2>6, <2>7, <2>8
<1>4. CASE result \notin Objects \cup {None}
  <2> DEFINE msg == OutputMessage(<<ParamOf(result.type, result.value)>>)
  <2>1. Reply(c, msg, None) /\ UNCHANGED tableVars
    BY <1>1, <1>4 DEF ReturnOutput
  <2>2. FineReply(w(msg, None))'
    <3>1. ValueReply(w(msg, None))'
      BY <1>4 DEF ValueReply
    <3> QED BY <3>1 DEF FineReply
  <2>3. Asks(e)
    BY <1>4 DEF Asks, Synchronous
  <2> HIDE DEF msg
  <2> QED BY <2>1, <2>2, <2>3, SameGrows DEF tableVars
<1> QED BY <1>2, <1>3, <1>4

\* What is served is fine, and is served for what it is.
LEMMA ServedOne ==
  ASSUME RemoteInv, NEW c \in Clients, Serve(c)
  PROVE  \E e :
           /\ e = queue[c][1] /\ queue[c] # <<>>
           /\ \/ /\ e.msg.type = "REQUEST_LOOKUP" /\ FineLookup(e)
                 /\ ServeLookup(c, Received(e.msg)) /\ amiss' = {}
              \/ UNCHANGED <<tableVars, waiting>> /\ amiss' = {}
              \/ /\ e.msg.type = "INVOCATION" /\ FineCall(e)
                 /\ ServeInvocation(c, e, Received(e.msg).invocation)
<1> USE DEF RemoteInv
<1>1. PICK e : e = queue[c][1]
  OBVIOUS
<1>2. queue[c] # <<>>
  BY DEF Serve
<1>3. Head(queue[c]) = e /\ Fine(e)
  <2>1. IsQueue(queue[c])
    BY DEF Queues
  <2>2. Head(queue[c]) = queue[c][1] /\ 1 \in 1..Len(queue[c])
    <3> DEFINE q == queue[c]
    <3>1. IsQueue(q) /\ q # <<>>
      BY <1>2, <2>1
    <3> HIDE DEF q
    <3>2. Head(q) = q[1] /\ Len(q) \in Nat \ {0}
      BY <3>1, TailQueue
    <3> QED BY <3>2 DEF q
  <2> QED BY <1>1, <2>2 DEF Queues
<1> DEFINE message == Received(e.msg)
           type == MessageType(message)
<1>4. \/ type = "REQUEST_LOOKUP" /\ ServeLookup(c, message) /\ UNCHANGED amiss
      \/ type = "INVOCATION" /\ ServeInvocation(c, e, message.invocation)
      \/ /\ type = "REQUEST_LEASE"
         /\ amiss' = amiss \cup Note(GetInstance(GetRequest(message).lease_instance_id) = None,
                                     "no instance")
         /\ UNCHANGED <<tableVars, waiting>>
      \/ type = "INVALID" /\ UNCHANGED <<tableVars, waiting>>
  BY <1>3 DEF Serve
<1>5. CASE e.msg.type = "REQUEST_LOOKUP" /\ FineLookup(e)
  <2>1. PICK k \in Keys, o \in Objects : e.msg = LookupMessage(k, Component[o])
    BY <1>5 DEF FineLookup, Entry
  <2>2. type = "REQUEST_LOOKUP"
    BY <2>1, MessageAssumption DEF LookupArrives
  <2>3. ServeLookup(c, message) /\ amiss' = amiss
    BY <1>4, <2>2
  <2> QED BY <1>1, <1>2, <1>5, <2>3 DEF Quiet
<1>6. CASE e.msg.type = "REQUEST_LEASE" /\ FineLease(e)
  <2>1. PICK id \in Ids : e.msg = LeaseMessage(id) /\ slot[id] \in Objects
    BY <1>6 DEF FineLease, Entry
  <2>2. type = "REQUEST_LEASE" /\ GetRequest(message).lease_instance_id = id
    BY <2>1, MessageAssumption DEF LeaseArrives
  <2>3. GetInstance(id) # None
    BY <2>1, LiveFound, InstanceAssumption
  <2>4. amiss' = amiss /\ UNCHANGED <<tableVars, waiting>>
    BY <1>4, <2>2, <2>3 DEF Note
  <2> QED BY <1>1, <1>2, <2>4 DEF Quiet
<1>7. CASE e.msg.type = "INVOCATION" /\ FineCall(e)
  <2>1. type = "INVOCATION"
    BY <1>7, CallArrives
  <2>2. ServeInvocation(c, e, message.invocation)
    BY <1>4, <2>1
  <2> QED BY <1>1, <1>2, <1>7, <2>2
<1> QED BY <1>3, <1>5, <1>6, <1>7 DEF Fine

LEMMA ServeStep ==
  ASSUME RemoteInv, NEW c \in Clients, Serve(c), TableInv', PublishedStays'
  PROVE  RemoteInv'
<1> USE DEF RemoteInv
<1>1. PICK e :
        /\ e = queue[c][1] /\ queue[c] # <<>>
        /\ \/ /\ e.msg.type = "REQUEST_LOOKUP" /\ FineLookup(e)
              /\ ServeLookup(c, Received(e.msg)) /\ amiss' = {}
           \/ UNCHANGED <<tableVars, waiting>> /\ amiss' = {}
           \/ /\ e.msg.type = "INVOCATION" /\ FineCall(e)
              /\ ServeInvocation(c, e, Received(e.msg).invocation)
  BY ServedOne
<1>2. /\ queue' = [queue EXCEPT ![c] = Tail(@)]
      /\ UNCHANGED <<session, running, starts, requestor, connected, proxies, creator, sends, given>>
  BY DEF Serve
<1>3. /\ Grows /\ fault' = fault /\ amiss' = {}
      /\ \/ waiting' = waiting
         \/ \E msg, o :
              /\ Reply(c, msg, o) /\ Asks(e)
              /\ FineReply([request |-> e, reply |-> msg, found |-> o])'
  <2>1. CASE e.msg.type = "REQUEST_LOOKUP" /\ FineLookup(e) /\ ServeLookup(c, Received(e.msg))
             /\ amiss' = {}
    BY <2>1, ServedLookup DEF Asks
  <2>2. CASE UNCHANGED <<tableVars, waiting>> /\ amiss' = {}
    BY <2>2, SameGrows DEF tableVars
  <2>3. CASE /\ e.msg.type = "INVOCATION" /\ FineCall(e)
             /\ ServeInvocation(c, e, Received(e.msg).invocation)
    <3>1. amiss' = {} /\ ReturnOutput(c, e.method.result)
      BY <2>3, ServedCall
    <3> QED BY <2>3, <3>1, ServedReturn
  <2> QED BY <1>1, <2>1, <2>2, <2>3
<1>4. Queues' /\ Waits' /\ queue' = [d \in Clients |-> queue'[d]] /\ DOMAIN waiting' = DOMAIN waiting
  BY <1>1, <1>2, <1>3, ServedKeeps
<1>5. RequestorsCounted' /\ Maps'
  BY <1>2, <1>4, RequestorsSame
<1>6. Proxies' /\ Given'
  BY <1>2, <1>3, ProxiesGrow, GivenGrow
<1>7. Nodes' /\ Quiet'
  BY <1>2, <1>3, <1>4 DEF Nodes, Quiet
<1> QED BY <1>4, <1>5, <1>6, <1>7

-----------------------------------------------------------------------------
(* Replies that are taken.                                                 *)

LEMMA AnsweredKeeps ==
  ASSUME Nodes, Queues, Waits, NEW c \in DOMAIN waiting, waiting[c].reply # None,
         UNCHANGED <<tableVars, queue, session, running>>, waiting' = Erase(waiting, c),
         \A d, s : Of(d, s) \subseteq Of(d, s)'
  PROVE  Queues' /\ Waits'
<1>1. \A r : Fine(r)' <=> Fine(r)
  BY DEF Fine, FineLookup, FineLease, FineCall, Live, KeyHolds, tableVars
<1>2. \A w : FineReply(w)' <=> FineReply(w)
  BY DEF FineReply, FoundReply, RefReply, ValueReply, Live, tableVars
<1>3. DOMAIN waiting' = DOMAIN waiting \ {c} /\ \A d \in DOMAIN waiting' : waiting'[d] = waiting[d]
  <2>1. waiting' = [d \in DOMAIN waiting \ {c} |-> waiting[d]]
    BY DEF Erase, Restrict
  <2> QED BY <2>1
<1>4. Queues'
  BY <1>1, <1>3 DEF Queues
<1>5. Waits'
  <2>1. \A d \in DOMAIN waiting : Of(d, session[d]) \subseteq Of(d, session[d])'
    OBVIOUS
  <2> QED BY <1>1, <1>2, <1>3, <2>1 DEF Waits, Callee
<1> QED BY <1>4, <1>5

\* Without an instance the requestor stays if it has proxies or a barrier.
LEMMA AnsweredNone ==
  ASSUME RemoteInv, NEW c \in DOMAIN waiting, NotFound(c), waiting' = Erase(waiting, c),
         UNCHANGED <<tableVars, session, running, creator>>
  PROVE  RequestorsCounted' /\ Maps' /\ Proxies' /\ amiss' = {} /\ proxies' = proxies
<1> USE DEF RemoteInv
<1>1. c \in running /\ c \in Clients
  BY DEF Waits, Nodes
<1>2. DOMAIN waiting' = DOMAIN waiting \ {c}
  BY DEF Erase, Restrict
<1>3. proxies' = proxies /\ amiss = {}
  BY DEF NotFound, Quiet
<1>4. \A d, s : Of(d, s)' = Of(d, s)
  BY <1>3 DEF Of
<1>5. \A d \in Clients \ {c} : Needed(d)' <=> Needed(d)
  BY <1>2, <1>4 DEF Needed
<1>6. Needed(c)' <=> Of(c, session[c]) # {} \/ c \in creator
  BY <1>1, <1>2, <1>4 DEF Needed
<1>7. c \in DOMAIN requestor
  BY <1>1, CountedNeeded DEF Needed
<1>8. CASE Of(c, session[c]) = {} /\ c \notin creator
  <2>1. DestroyRequestor(c, session[c])
    BY <1>8 DEF NotFound
  <2>2. /\ amiss' = amiss /\ connected' = connected \ {<<c, session[c]>>}
        /\ requestor' = Erase(requestor, c)
    BY <1>7, <2>1, DestroyedIs, ConnectedIs
  <2>3. /\ RequestorsCounted' /\ Maps'
        /\ DOMAIN requestor' = DOMAIN requestor \ {c}
        /\ \A d \in DOMAIN requestor \ {c} : requestor'[d] = requestor[d]
    BY <1>5, <1>6, <1>8, <2>2, RequestorErased
  <2>4. Of(c, session[c])' = {}
    BY <1>4, <1>8
  <2>5. Proxies'
    BY <1>3, <2>3, <2>4, ProxiesErased DEF tableVars
  <2> QED BY <1>3, <2>2, <2>3, <2>5
<1>9. CASE ~(Of(c, session[c]) = {} /\ c \notin creator)
  <2>1. UNCHANGED <<requestor, connected, amiss>>
    BY <1>9 DEF NotFound
  <2>2. Needed(c)' <=> Needed(c)
    BY <1>1, <1>6, <1>9 DEF Needed
  <2>3. RequestorsCounted' /\ Maps'
    BY <1>5, <2>1, <2>2, RequestorsKept
  <2>4. Proxies'
    BY <1>3, <2>1 DEF Proxies, InMap, tableVars
  <2> QED BY <1>3, <2>1, <2>3, <2>4
<1> QED BY <1>8, <1>9

\* A result is taken as it was sent, by a client that has its proxies still.
LEMMA AnsweredValue ==
  ASSUME RemoteInv, Lapses = {}, NEW c \in DOMAIN waiting, waiting' = Erase(waiting, c),
         waiting[c].request.msg.type = "INVOCATION", ValueReply(waiting[c]),
         TakeResult(waiting[c].request.method, Received(waiting[c].reply).output),
         UNCHANGED <<tableVars, session, running, creator>>
  PROVE  RequestorsCounted' /\ Maps' /\ Proxies' /\ amiss' = {} /\ proxies' = proxies
<1> USE DEF RemoteInv
<1> DEFINE m == waiting[c].request.method
           a == m.result
           params == Received(waiting[c].reply).output
<1>1. c \in running /\ c \in Clients /\ Of(c, session[c]) # {}
  BY DEF Waits, Nodes, Callee
<1>2. UNCHANGED <<requestor, connected, proxies>>
  BY DEF TakeResult
<1>3. m \in Methods /\ ~Unreturnable(a)
  BY DEF Waits, Fine, FineCall
<1>4. a \notin Objects \cup {None} /\ waiting[c].reply = OutputMessage(<<ParamOf(a.type, a.value)>>)
  BY DEF ValueReply
<1>5. params = <<ParamOf(a.type, a.value)>> /\ ValueArrives(a)
  BY <1>3, <1>4, MessageAssumption DEF OutputArrives
<1>6. params[1] = ParamOf(a.type, a.value)
  <2> HIDE DEF params
  <2> QED BY <1>5
<1>7. m.old = InitialValue(a.type)
  BY DEF TakeResult, Allowed
<1>8. ValueOf(params[1], a.type, m.old) = a.value
  BY <1>5, <1>6, <1>7 DEF ValueArrives
<1>9. amiss' = {}
  BY <1>8 DEF TakeResult, Note, Quiet
<1>10. DOMAIN waiting' = DOMAIN waiting \ {c}
  BY DEF Erase, Restrict
<1>11. \A d, s : Of(d, s)' = Of(d, s)
  BY <1>2 DEF Of
<1>12. \A d \in Clients : Needed(d)' <=> Needed(d)
  BY <1>1, <1>10, <1>11 DEF Needed
<1>13. RequestorsCounted' /\ Maps'
  BY <1>2, <1>12, RequestorsKept
<1>14. Proxies'
  BY <1>2 DEF Proxies, InMap, tableVars
<1> QED BY <1>2, <1>9, <1>13, <1>14

LEMMA AnswerStep ==
  ASSUME RemoteInv, Lapses = {}, NEW c \in Clients, Answer(c), TableInv', PublishedStays'
  PROVE  RemoteInv'
<1> USE DEF RemoteInv
<1> DEFINE w == waiting[c]
           reply == Received(w.reply)
           type == MessageType(reply)
<1>1. /\ c \in DOMAIN waiting /\ w.reply # None
      /\ waiting' = Erase(waiting, c)
      /\ UNCHANGED <<tableVars, session, running, starts, creator, queue, sends, given>>
  BY DEF Answer
<1>2. (CASE type = "EXCEPTION" -> UNCHANGED <<requestor, connected, proxies, amiss>>
         [] type # "EXCEPTION" /\ w.request.msg.type = "REQUEST_LOOKUP" ->
              IF w.reply = NoReply \/ reply.ret_int = NoId THEN NotFound(c)
              ELSE GetOrCreateProxy(c, reply.ret_int, w.found, GetRequest(w.request.msg).instance_type)
         [] type = "RETURN" /\ w.request.msg.type = "INVOCATION" /\ w.found # None ->
              LET ref == PullRef(reply.output[1])
              IN  GetOrCreateProxy(c, ref.instance_id, w.found, ref.instance_type)
         [] OTHER -> TakeResult(w.request.method, reply.output))
  BY DEF Answer
<1>3. FineReply(w) /\ c \in running
  BY <1>1 DEF Waits
<1>4. DOMAIN waiting' = DOMAIN waiting \ {c}
  BY <1>1 DEF Erase, Restrict
<1>5. /\ RequestorsCounted' /\ Maps' /\ Proxies' /\ amiss' = {}
      /\ \A d, s : Of(d, s) \subseteq Of(d, s)'
  <2>1. ASSUME proxies' = proxies PROVE \A d, s : Of(d, s) \subseteq Of(d, s)'
    BY <2>1 DEF Of
  <2>2. ASSUME NEW id, NEW o, Live(id, o), GetOrCreateProxy(c, id, o, Component[o])
        PROVE  /\ RequestorsCounted' /\ Maps' /\ Proxies' /\ amiss' = {}
               /\ \A d, s : Of(d, s) \subseteq Of(d, s)'
    BY <1>1, <1>3, <1>4, <2>2, ProxyKept DEF tableVars
  <2>3. CASE /\ w.request.msg.type = "REQUEST_LOOKUP"
             /\ w.reply = NoReply \/ w.reply = IntReturn(NoId)
    <3>1. type # "EXCEPTION"
      BY <2>3, MessageAssumption DEF IntReturnArrives
    <3>2. w.reply = IntReturn(NoId) => reply.ret_int = NoId
      BY MessageAssumption DEF IntReturnArrives
    <3>3. NotFound(c)
      <4> HIDE DEF w, reply, type
      <4> QED BY <1>2, <2>3, <3>1, <3>2
    <3> QED BY <1>1, <2>1, <3>3, AnsweredNone
  <2>4. CASE w.request.msg.type = "REQUEST_LOOKUP" /\ FoundReply(w)
    <3>1. PICK id \in Ids :
            /\ w.reply = IntReturn(id) /\ Live(id, w.found)
            /\ GetRequest(w.request.msg).instance_type = Component[w.found]
      BY <2>4 DEF FoundReply
    <3>2. type = "RETURN" /\ reply.ret_int = id
      BY <3>1, MessageAssumption DEF IntReturnArrives
    <3>3. id # NoId
      BY InstanceAssumption DEF Ids
    <3>4. w.reply # NoReply
      <4>1. DOMAIN IntReturn(id) = {"type", "ret_int"} /\ DOMAIN NoReply = {}
        BY DEF IntReturn, NoReply
      <4> QED BY <3>1, <4>1
    <3>5. GetOrCreateProxy(c, id, w.found, Component[w.found])
      <4> HIDE DEF w, reply, type
      <4> QED BY <1>2, <2>4, <3>1, <3>2, <3>3, <3>4
    <3> QED BY <2>2, <3>1, <3>5
  <2>5. CASE w.request.msg.type = "INVOCATION" /\ RefReply(w)
    <3>1. PICK id \in Ids : Live(id, w.found) /\ w.reply = OutputMessage(<<OutRef(id, w.found)>>)
      BY <2>5 DEF RefReply
    <3>2. w.found \in Objects /\ w.found # None
      BY <3>1, InstanceAssumption DEF Live
    <3>3. type = "RETURN" /\ reply.output = <<OutRef(id, w.found)>>
      BY <3>1, <3>2, MessageAssumption DEF OutputArrives
    <3>4. reply.output[1] = OutRef(id, w.found)
      <4> HIDE DEF reply, w
      <4> QED BY <3>3
    <3>5. GetOrCreateProxy(c, PullRef(reply.output[1]).instance_id, w.found,
                           PullRef(reply.output[1]).instance_type)
      <4> HIDE DEF w, reply, type
      <4> QED BY <1>2, <2>5, <3>2, <3>3
    <3>6. GetOrCreateProxy(c, id, w.found, Component[w.found])
      BY <3>4, <3>5, ReferencesRead
    <3> QED BY <2>2, <3>1, <3>6
  <2>6. CASE w.request.msg.type = "INVOCATION" /\ ValueReply(w)
    <3> DEFINE a == w.request.method.result
    <3>1. /\ w.found = None /\ a \notin Objects \cup {None}
          /\ w.reply = OutputMessage(<<ParamOf(a.type, a.value)>>)
      BY <2>6 DEF ValueReply
    <3>2. w.request.method \in Methods /\ ~Unreturnable(a)
      BY <1>1, <2>6 DEF Waits, Fine, FineCall
    <3>3. type = "RETURN"
      BY <3>1, <3>2, MessageAssumption DEF OutputArrives
    <3>4. TakeResult(w.request.method, reply.output)
      <4> HIDE DEF w, reply, type
      <4> QED BY <1>2, <2>6, <3>1, <3>3
    <3> QED BY <1>1, <2>1, <2>6, <3>4, AnsweredValue
  <2> HIDE DEF w, reply, type
  <2> QED BY <1>3, <2>3, <2>4, <2>5, <2>6 DEF FineReply
<1> HIDE DEF w, reply, type
<1>6. Queues' /\ Waits'
  BY <1>1, <1>5, AnsweredKeeps DEF w
<1>7. Given'
  BY <1>1 DEF Given, Live, tableVars
<1>8. Nodes' /\ Quiet'
  BY <1>1, <1>5 DEF Nodes, Quiet, tableVars
<1> QED BY <1>5, <1>6, <1>7, <1>8

-----------------------------------------------------------------------------
(* The invariant.                                                          *)

LEMMA RemoteInit == InitRemote => RemoteInv
<1> SUFFICES ASSUME InitRemote PROVE RemoteInv
  OBVIOUS
<1> USE DEF InitRemote
<1>1. TableInv
  BY TableInit
<1>2. PublishedStays
  BY DEF Init, PublishedStays
<1>3. DOMAIN requestor = {} /\ DOMAIN waiting = {}
  OBVIOUS
<1>4. Quiet
  BY DEF Init, Quiet
<1>5. Nodes
  BY RemoteAssumption DEF Nodes
<1>6. RequestorsCounted
  BY <1>3 DEF RequestorsCounted, Of
<1>7. Maps
  BY <1>3 DEF Maps
<1>8. Proxies /\ Given
  BY DEF Proxies, Given
<1>9. Queues
  <2>1. \A c \in Clients : queue[c] = <<>>
    OBVIOUS
  <2>2. IsQueue(<<>>) /\ Len(<<>>) = 0 /\ 0 <= MaxQueue /\ 1..0 = {}
    <3>1. \A S : <<>> \in Seq(S)
      OBVIOUS
    <3> QED BY <3>1, RemoteAssumption DEF IsQueue
  <2> QED BY <2>1, <2>2 DEF Queues
<1>10. Waits
  BY <1>3 DEF Waits
<1> QED BY <1>1, <1>2, <1>4, <1>5, <1>6, <1>7, <1>8, <1>9, <1>10 DEF RemoteInv

\* Each step is one of the table's own, or none of its business.
LEMMA TableSteps ==
  ASSUME RemoteInv, [NextRemote]_allVars
  PROVE  [Next]_vars
<1> USE DEF RemoteInv
<1>1. UNCHANGED tableVars => [Next]_vars
  BY DEF tableVars, vars
<1>2. CASE UNCHANGED allVars
  BY <1>1, <1>2 DEF allVars
<1>3. ASSUME NEW k \in Keys, NEW o \in Objects, Provide(k, o) PROVE [Next]_vars
  BY <1>3 DEF Provide, Next
<1>4. ASSUME NEW k \in Keys, Release(k) PROVE [Next]_vars
  BY <1>4 DEF Release, Next
<1>5. ASSUME NEW c \in Clients, Serve(c) PROVE [Next]_vars
  <2>1. PICK e :
          \/ /\ e.msg.type = "REQUEST_LOOKUP" /\ FineLookup(e)
             /\ ServeLookup(c, Received(e.msg))
          \/ UNCHANGED <<tableVars, waiting>>
          \/ /\ e.msg.type = "INVOCATION" /\ FineCall(e)
             /\ ServeInvocation(c, e, Received(e.msg).invocation)
    BY <1>5, ServedOne
  <2>2. CASE FineLookup(e) /\ ServeLookup(c, Received(e.msg))
    <3>1. PICK k \in Keys, o \in Objects : e.msg = LookupMessage(k, Component[o])
      BY <2>2 DEF FineLookup, Entry
    <3>2. GetRequest(Received(e.msg)).lookup_key = k
      <4>1. GetRequest(Received(e.msg)) = [lookup_key |-> k, instance_type |-> Component[o]]
        BY <3>1, MessageAssumption DEF LookupArrives
      <4> QED BY <4>1
    <3>3. FindInstance(k) \/ UNCHANGED tableVars
      BY <2>2, <3>2 DEF ServeLookup
    <3> QED BY <1>1, <3>3 DEF Next
  <2>3. CASE FineCall(e) /\ ServeInvocation(c, e, Received(e.msg).invocation)
    <3> DEFINE result == e.method.result
    <3>1. ReturnOutput(c, result) /\ ~Unreturnable(result) /\ None \notin Objects
      BY <2>3, ServedCall, InstanceAssumption DEF FineCall
    <3> HIDE DEF result
    <3>2. (result \in Objects /\ AddInstance(result)) \/ UNCHANGED tableVars
      <4>1. CASE result = None
        BY <3>1, <4>1 DEF ReturnOutput
      <4>2. CASE result \in Objects
        BY <3>1, <4>2 DEF ReturnOutput
      <4>3. CASE result \notin Objects \cup {None}
        BY <3>1, <4>3 DEF ReturnOutput
      <4> QED BY <4>1, <4>2, <4>3
    <3> QED BY <1>1, <3>2 DEF Next
  <2> QED BY <1>1, <2>1, <2>2, <2>3
<1>6. ASSUME NEW c \in Clients, BarrierUp(c) \/ Answer(c) \/ Stop(c) \/ Start(c) PROVE [Next]_vars
  BY <1>1, <1>6 DEF BarrierUp, Answer, Stop, Start
<1>7. ASSUME NEW c \in Clients, NEW k \in Keys, NEW o \in Objects, Lookup(c, k, Component[o])
      PROVE  [Next]_vars
  BY <1>1, <1>7 DEF Lookup
<1>8. ASSUME NEW p, NEW m, NEW q, Call(p, m, q) PROVE [Next]_vars
  BY <1>1, <1>8 DEF Call
<1>9. ASSUME NEW p, NEW d, Pass(p, d) \/ Drop(p) \/ Receive(p) PROVE [Next]_vars
  BY <1>1, <1>9 DEF Pass, Drop, Receive
<1> HIDE DEF RemoteInv
<1> QED BY <1>2, <1>3, <1>4, <1>5, <1>6, <1>7, <1>8, <1>9 DEF NextRemote

LEMMA RemoteStutter == RemoteInv /\ UNCHANGED allVars => RemoteInv'
<1> SUFFICES ASSUME RemoteInv, UNCHANGED allVars PROVE RemoteInv'
  OBVIOUS
<1> USE DEF RemoteInv
<1>1. UNCHANGED tableVars /\ UNCHANGED clientVars
  BY DEF allVars
<1>2. TableInv' /\ PublishedStays'
  BY <1>1 DEF TableInv, TypeOK, FreedAreDead, KeysInTable, PublishedStays, tableVars
<1>3. RequestorsCounted' /\ Maps'
  BY <1>1, RequestorsSame DEF clientVars
<1>4. Grows
  BY <1>1, SameGrows DEF tableVars
<1>5. Proxies' /\ Given' /\ Queues' /\ Waits'
  BY <1>1, <1>4, ProxiesGrow, GivenGrow, QueuesGrow, WaitsGrow DEF clientVars
<1>6. Nodes' /\ Quiet'
  BY <1>1 DEF Nodes, Quiet, clientVars, tableVars
<1> QED BY <1>2, <1>3, <1>5, <1>6

LEMMA RemoteNext ==
  ASSUME Lapses = {}
  PROVE  RemoteInv /\ [NextRemote]_allVars => RemoteInv'
<1> SUFFICES ASSUME RemoteInv, [NextRemote]_allVars PROVE RemoteInv'
  OBVIOUS
<1>1. TableInv' /\ PublishedStays'
  <2>1. [Next]_vars /\ KeyReuse = FALSE
    BY TableSteps, RemoteAssumption, InstanceAssumption
  <2> QED BY <2>1, TableNext, KeysNext DEF RemoteInv
<1>2. CASE UNCHANGED allVars
  BY <1>2, RemoteStutter
<1>3. ASSUME NEW k \in Keys, NEW o \in Objects, Provide(k, o) PROVE RemoteInv'
  BY <1>1, <1>3, ProvideStep
<1>4. ASSUME NEW k \in Keys, Release(k) PROVE RemoteInv'
  BY <1>1, <1>4, ReleaseStep
<1>5. ASSUME NEW c \in Clients, NEW k \in Keys, NEW o \in Objects, Lookup(c, k, Component[o])
      PROVE  RemoteInv'
  BY <1>1, <1>5, LookupStep
<1>6. ASSUME NEW p \in proxies, NEW m \in Methods,
             NEW q \in {None} \cup {other \in proxies : other.client = p.client}, Call(p, m, q)
      PROVE  RemoteInv'
  BY <1>1, <1>6, CallStep
<1>7. ASSUME NEW p \in proxies, NEW d \in Clients, Pass(p, d) PROVE RemoteInv'
  BY <1>1, <1>7, PassStep
<1>8. ASSUME NEW g \in given, Receive(g) PROVE RemoteInv'
  BY <1>1, <1>8, ReceiveStep
<1>9. ASSUME NEW p \in proxies, Drop(p) PROVE RemoteInv'
  BY <1>1, <1>9, DropStep
<1>10. ASSUME NEW c \in Clients, BarrierUp(c) PROVE RemoteInv'
  BY <1>1, <1>10, BarrierUpStep
<1>11. ASSUME NEW c \in Clients, Serve(c) PROVE RemoteInv'
  BY <1>1, <1>11, ServeStep
<1>12. ASSUME NEW c \in Clients, Answer(c) PROVE RemoteInv'
  BY <1>1, <1>12, AnswerStep
<1>13. ASSUME NEW c \in Clients, Stop(c) PROVE RemoteInv'
  BY <1>1, <1>13, StopStep
<1>14. ASSUME NEW c \in Clients, Start(c) PROVE RemoteInv'
  BY <1>1, <1>14, StartStep
<1> QED BY <1>2, <1>3, <1>4, <1>5, <1>6, <1>7, <1>8, <1>9, <1>10, <1>11, <1>12, <1>13, <1>14
        DEF NextRemote

LEMMA RemoteAlways ==
  ASSUME Lapses = {}
  PROVE  SpecRemote => []RemoteInv
BY RemoteInit, RemoteNext, PTL DEF SpecRemote

-----------------------------------------------------------------------------
(* What follows from it.                                                   *)

\* What the clients hold is of their sessions and of ids the owner handed out, whatever
\* RequestorManager, Requestor and InstanceManager do in between.
THEOREM RemoteTypeCorrect ==
  ASSUME Lapses = {}
  PROVE  SpecRemote => []TypeOKRemote
<1>1. RemoteInv => TypeOKRemote
  <2> SUFFICES ASSUME RemoteInv PROVE TypeOKRemote
    OBVIOUS
  <2> USE DEF RemoteInv
  <2>1. TypeOK
    BY DEF TableInv
  <2>2. session \in [Clients -> 1..(starts + 1)] /\ starts <= MaxStarts
    <3>1. ASSUME NEW c \in Clients PROVE session[c] \in 1..(starts + 1)
      <4>1. session[c] \in Nat \ {0} /\ session[c] <= starts + 1 /\ starts \in 0..MaxStarts
        BY DEF Nodes
      <4> QED BY <4>1
    <3>2. session \in [Clients -> Nat \ {0}] /\ starts \in 0..MaxStarts
      BY DEF Nodes
    <3> QED BY <3>1, <3>2
  <2>3. /\ running \subseteq Clients /\ creator \subseteq running /\ DOMAIN waiting \subseteq running
        /\ \A c \in Clients : Len(queue[c]) <= MaxQueue
    BY DEF Nodes, Waits, Queues
  <2>4. connected \subseteq {<<c, session[c]>> : c \in running}
    BY DEF RequestorsCounted
  <2>5. \A p \in proxies : p.client \in Clients /\ p.session \in 1..session[p.client]
                             /\ p.id \in Ids /\ p.object \in Objects
    BY DEF Proxies
  <2> QED BY <2>1, <2>2, <2>3, <2>4, <2>5 DEF TypeOKRemote
<1> QED BY <1>1, RemoteAlways, PTL

\* The counted references of Requestor, Invoker and RequestorManager: a requestor is in
\* the manager's map exactly while a proxy, a barrier or a caller needs it.
THEOREM RequestorsLive ==
  ASSUME Lapses = {}
  PROVE  SpecRemote => []RequestorsCounted
<1>1. RemoteInv => RequestorsCounted
  BY DEF RemoteInv
<1> QED BY <1>1, RemoteAlways, PTL

\* getOrCreateProxy gives one proxy of an instance, and it is of that instance, as long
\* as the requestor is connected.
THEOREM ProxiesSingle ==
  ASSUME Lapses = {}
  PROVE  SpecRemote => []OneProxy
<1>1. RemoteInv => OneProxy
  BY ConnectedInMap DEF RemoteInv, OneProxy, InMap
<1> QED BY <1>1, RemoteAlways, PTL

\* Neither the owner nor a client follows a pointer to what was deleted, and the
\* assertions of the marshaller and of the managers hold.
THEOREM DeletedUnused ==
  ASSUME Lapses = {}
  PROVE  SpecRemote => []NothingDeletedUsed
<1>1. RemoteInv => NothingDeletedUsed
  BY DEF RemoteInv, Quiet, NothingDeletedUsed
<1> QED BY <1>1, RemoteAlways, PTL

\* invokeInstance reaches the instance that the proxy was made for with the arguments
\* of the call, and the caller gets what the method returned.
THEOREM CallsMeant ==
  ASSUME Lapses = {}
  PROVE  SpecRemote => []CallsAsMeant
<1>1. RemoteInv => CallsAsMeant
  BY DEF RemoteInv, Quiet, CallsAsMeant
<1> QED BY <1>1, RemoteAlways, PTL

=============================================================================
