--------------------------- MODULE RemoteObjects ----------------------------
(***************************************************************************)
(* Remote instances as the nodes that use them see them: one node, the     *)
(* owner, has the table of InstanceManager; each client has a              *)
(* RequestorManager with at most one Requestor, for the owner, and the     *)
(* Requestor a Marshaller and a map from ids to proxies.                   *)
(*                                                                         *)
(* Proxies and requestors are counted references: the last proxy of a      *)
(* requestor takes it along, and it takes itself out of the manager.  When *)
(* a client stops, its requestors are disconnected; those with proxies     *)
(* stay.  A client that starts again is a new session.                     *)
(*                                                                         *)
(* A connection keeps the order of messages.  While a request waits for    *)
(* its reply the client does nothing else, except that it dispatches what  *)
(* other nodes send.                                                       *)
(*                                                                         *)
(* amiss collects what must not happen; where the code's assertions would  *)
(* end the program, it goes on as the build without them does.             *)
(*                                                                         *)
(* Lapses names what an application may do that the library does not cope  *)
(* with; the guards Allowed(...) say when a step is such a lapse.          *)
(*                                                                         *)
(* What happens to a message on its way, and to a value that becomes a     *)
(* parameter, is given by constants: the operators of Wire, in the module  *)
(* that TLC checks.  MessageAssumption is what the rest relies on.         *)
(*                                                                         *)
(* The operators named Slip... are variants of the one below them with a   *)
(* plausible mistake; no action uses them.                                 *)
(***************************************************************************)
EXTENDS InstanceManager, Messages, Functions

CONSTANTS
  Clients,
  Component,    \* the component type of each instance
  Methods,      \* each [kind, args, result, old]: a "method" or a "field" that is read, the
                \* values it is called with and returns, with their types, and what the
                \* caller has where the result goes; the result is None for asynchronous
                \* methods, an instance for out references
  Lapses,       \* a subset of AllLapses
  MaxStarts,    \* bound on restarts, of all clients
  MaxSends,     \* bound on messages, of all clients
  MaxQueue,     \* bound on the messages of a client that the owner has not served
  Received(_),       \* a message, written and read
  MessageType(_),    \* demarshal
  ParamOf(_, _),     \* valueToPBParam: a type and a value of it
  Refused(_, _),     \* whether it throws for the value
  ValueOf(_, _, _),  \* PBParamToValue: a parameter, its type and the old value
  InitialValue(_)    \* AnyValue::create

AllLapses == {"released", "again", "stale", "refused", "returned", "kept"}

ASSUME RemoteAssumption ==
  /\ Lapses \subseteq AllLapses
  /\ {MaxStarts, MaxSends, MaxQueue} \subseteq Nat
  /\ DOMAIN Component = Objects
  /\ ~KeyReuse

-----------------------------------------------------------------------------
(* Messages and parameters.                                                *)

Typed(type, value) == [type |-> type, value |-> value]

\* The parameters for the first n arguments of a method.
Params(m, n) == [i \in 1..n |-> ParamOf(m.args[i].type, m.args[i].value)]

\* A reference to an instance of the receiver.
InRef(id) == RefParam([owner |-> "OWNER_RECEIVER", id |-> id])

\* A reference to an instance of the sender, under an id of its own.
OutRef(id, o) ==
  RefParam([owner |-> "OWNER_SENDER", id |-> id, component |-> Component[o], endpoint |-> "owner"])

\* Whether the caller waits: for a result, out parameters or the value of a field.
Synchronous(m) == m.result # None

\* Neither a reference nor what valueToPBParam refuses can be returned.
IsReference(result) == result \notin Objects \cup {None} /\ result.type.kind = "interface"
Unreturnable(result) ==
  /\ result \notin Objects \cup {None}
  /\ result.type.kind = "interface" \/ Refused(result.type, result.value)

\* The exception comes with the output begun, against which marshalException has an
\* assertion; only onGetField looks for a reference before.
ThrownInOutput(m) == Unreturnable(m.result) /\ ~(m.kind = "field" /\ IsReference(m.result))

RefusedArgs(m) == {i \in DOMAIN m.args : Refused(m.args[i].type, m.args[i].value)}

\* No reply comes: the client waits until its time is over.
NoReply == <<>>

LookupArrives(k, component) ==
  LET message == Received(LookupMessage(k, component))
  IN  /\ MessageType(message) = "REQUEST_LOOKUP"
      /\ GetRequest(message) = [lookup_key |-> k, instance_type |-> component]

LeaseArrives(id) ==
  LET message == Received(LeaseMessage(id))
  IN  /\ MessageType(message) = "REQUEST_LEASE"
      /\ GetRequest(message) = [lease_instance_id |-> id]

InvocationArrives(id, m, params) ==
  LET message == Received(InvocationMessage(id, m, Synchronous(m), params))
  IN  /\ MessageType(message) = "INVOCATION"
      /\ message.invocation =
           [instance_id |-> id, member |-> m, synch |-> Synchronous(m), params |-> params]

IntReturnArrives(value) ==
  LET message == Received(IntReturn(value))
  IN  MessageType(message) = "RETURN" /\ message.ret_int = value

OutputArrives(params) ==
  LET message == Received(OutputMessage(params))
  IN  MessageType(message) = "RETURN" /\ message.output = params

\* A value that is not refused is what its parameter is read as, where a
\* new value was before.
ValueArrives(a) == ValueOf(ParamOf(a.type, a.value), a.type, InitialValue(a.type)) = a.value

\* What arrives is what was sent; Wire has this for the values that are not refused.
ASSUME MessageAssumption ==
  /\ MessageType(Received(NoReply)) # "EXCEPTION"
  /\ \A k \in Keys, o \in Objects : LookupArrives(k, Component[o])
  /\ \A id \in Ids : LeaseArrives(id)
  /\ \A id \in Ids \cup {NoId} : IntReturnArrives(id)
  /\ \A id \in Ids, o \in Objects : OutputArrives(<<OutRef(id, o)>>)
  /\ \A m \in Methods :
       /\ m.args \in Seq({m.args[i] : i \in DOMAIN m.args})
       /\ RefusedArgs(m) = {} =>
            LET params == Params(m, Len(m.args)) IN
            /\ \A id \in Ids : InvocationArrives(id, m, params)
            /\ \A id, other \in Ids : InvocationArrives(id, m, Append(params, InRef(other)))
            /\ \A i \in DOMAIN m.args : ValueArrives(m.args[i])
       /\ \/ m.result \in Objects \cup {None}
          \/ Unreturnable(m.result)
          \/ OutputArrives(<<ParamOf(m.result.type, m.result.value)>>) /\ ValueArrives(m.result)

-----------------------------------------------------------------------------
(* The state.                                                              *)

VARIABLES
  session,    \* the number of the current or last session
  running,    \* the clients between start and stop
  starts,     \* the number of restarts
  requestor,  \* _requestors: the requestor in the manager of each client that has one
  connected,  \* <<client, session>> of the requestors with _connected
  proxies,    \* the proxies the applications hold
  creator,    \* the clients with a _barrierCreator, the owner
  queue,      \* messages on their way to the owner
  waiting,    \* the request that each client that waits does so for, and its reply
  sends,      \* the number of messages
  given,      \* references on their way from one client to another
  amiss       \* history: what must not happen and did

clientVars == <<session, running, starts, requestor, connected, proxies, creator, queue, sends,
                waiting, given, amiss>>
tableVars == <<numIds, slot, freed, published, bound, refs, released, fault>>
allVars == <<tableVars, clientVars>>

InitRemote ==
  /\ Init
  /\ session = [c \in Clients |-> 1]
  /\ running = Clients
  /\ starts = 0
  /\ requestor = <<>>
  /\ connected = {}
  /\ proxies = {}
  /\ creator = {}
  /\ queue = [c \in Clients |-> <<>>]
  /\ waiting = <<>>
  /\ sends = 0
  /\ given = {}
  /\ amiss = {}

Allowed(lapse, happens) == happens => lapse \in Lapses
Note(happened, what) == IF happened THEN {what} ELSE {}

Free(c) == c \in running /\ c \notin DOMAIN waiting

\* operator[] of a map, and its erase.
Assign(map, key, value) ==
  [k \in DOMAIN map \cup {key} |-> IF k = key THEN value ELSE map[k]]
Erase(map, key) == Restrict(map, DOMAIN map \ {key})

-----------------------------------------------------------------------------
(* Requestors and their proxies.                                           *)

\* A requestor: _proxies, _msgClear and what an unfinished message has by then.
NewRequestor == [proxies |-> <<>>, clear |-> TRUE, begun |-> <<>>]
Compose(req, clear, begun) == [proxies |-> req.proxies, clear |-> clear, begun |-> begun]
GetOrCreateRequestor(c) == IF c \in DOMAIN requestor THEN requestor[c] ELSE NewRequestor

\* The proxies of a session; its requestor lives as long as one does, or _barrierCreator.
Of(c, s) == {p \in proxies : p.client = c /\ p.session = s}

NewProxy(c, id, o, component) ==
  LET proxy(n) == [client |-> c, session |-> session[c], id |-> id, object |-> o,
                   component |-> component, copy |-> n]
  IN  IF proxy(1) \in proxies THEN proxy(2) ELSE proxy(1)

\* map::insert keeps what is there.
Insert(req, id, proxy) ==
  IF id \in DOMAIN req.proxies THEN req
  ELSE [proxies |-> Assign(req.proxies, id, proxy), clear |-> req.clear, begun |-> req.begun]

\* getOrCreateProxy: the proxy in the map, even if deleted by now, or a new one.
SlipAlwaysNew(c, id, o, component) ==
  LET req == GetOrCreateRequestor(c)
      proxy == NewProxy(c, id, o, component)
  IN  /\ requestor' = Assign(requestor, c, Insert(req, id, proxy))
      /\ proxies' = proxies \cup {proxy}
      /\ connected' = connected \cup {<<c, session[c]>>}
      /\ UNCHANGED amiss
GetOrCreateProxy(c, id, o, component) ==
  LET req == GetOrCreateRequestor(c)
      known == id \in DOMAIN req.proxies
      proxy == NewProxy(c, id, o, component)
  IN  /\ Allowed("again", known /\ req.proxies[id] \notin proxies)
      /\ requestor' = Assign(requestor, c, Insert(req, id, proxy))
      /\ proxies' = IF known THEN proxies ELSE proxies \cup {proxy}
      /\ connected' = connected \cup {<<c, session[c]>>}
      /\ amiss' = amiss \cup Note(known /\ req.proxies[id] \notin proxies, "deleted proxy")
                        \cup Note(known /\ req.proxies[id].object # o, "other instance")

\* onRequestorDestroyed: the manager must have it.
SlipStayRegistered(c) == UNCHANGED <<requestor, amiss>>
OnRequestorDestroyed(c) ==
  /\ requestor' = Erase(requestor, c)
  /\ amiss' = amiss \cup Note(c \notin DOMAIN requestor, "assertion")

\* The destructor of a requestor tells the manager, if it is connected.
DestroyRequestor(c, s) ==
  /\ connected' = connected \ {<<c, s>>}
  /\ CASE <<c, s>> \notin connected -> UNCHANGED <<requestor, amiss>>
       [] <<c, s>> \in connected /\ c \in running /\ session[c] = s -> OnRequestorDestroyed(c)
       [] OTHER -> amiss' = amiss \cup {"deleted manager"} /\ UNCHANGED requestor

\* A client that waits has the proxy that it calls through, and the one it passes.
HeldByCall(p) ==
  /\ p.client \in DOMAIN waiting /\ p.session = session[p.client]
  /\ p.id \in waiting[p.client].request.ids

\* What else keeps the requestor of a session: _barrierCreator, or a request that waits.
KeptWithout(c, s) == s = session[c] /\ (c \in creator \/ c \in DOMAIN waiting)

\* The application lets go of a proxy; while it waits, what it dispatches may.
Drop(p) ==
  /\ ~fault
  /\ ~HeldByCall(p)
  /\ proxies' = proxies \ {p}
  /\ IF Of(p.client, p.session) = {p} /\ ~KeptWithout(p.client, p.session)
     THEN DestroyRequestor(p.client, p.session)
     ELSE UNCHANGED <<requestor, connected, amiss>>
  /\ UNCHANGED <<tableVars, session, running, starts, creator, queue, sends, waiting, given>>

-----------------------------------------------------------------------------
(* Requests.                                                               *)

\* An entry is a message with the ids and the keys it is about.  It is written when it
\* is sent, which depends on nothing else and so is left until it is read.
Entry(message, ids, keys) == [msg |-> message, ids |-> ids, keys |-> keys]

\* That of a call, with the instance, the method and the argument that are meant.
CallEntry(p, m, q, params) ==
  [msg |-> InvocationMessage(p.id, m, Synchronous(m), params),
   ids |-> {p.id} \cup IF q = None THEN {} ELSE {q.id},
   keys |-> {}, object |-> p.object, method |-> m, argument |-> q]

Send(c, entry) ==
  /\ queue' = [queue EXCEPT ![c] = Append(@, entry)]
  /\ sends' = sends + 1
CanSend(c) == ~fault /\ Free(c) /\ Len(queue[c]) < MaxQueue /\ sends < MaxSends
Expect(c, entry) ==
  waiting' = Assign(waiting, c, [request |-> entry, reply |-> None, found |-> None])

\* findRemoteInstance, as far as sending the request.
Lookup(c, k, component) ==
  LET entry == Entry(LookupMessage(k, component), {}, {k}) IN
  /\ CanSend(c)
  /\ Allowed("released", published[k] # NoId /\ bound[k] = None)
  /\ requestor' = Assign(requestor, c, GetOrCreateRequestor(c))
  /\ connected' = connected \cup {<<c, session[c]>>}
  /\ amiss' = amiss \cup Note(~GetOrCreateRequestor(c).clear, "assertion")
  /\ Send(c, entry) /\ Expect(c, entry)
  /\ UNCHANGED <<tableVars, session, running, starts, proxies, creator, given>>

\* The parameters of a call: values up to one that is refused, which is begun, then the
\* reference.
Pushed(m, q, current) ==
  LET bad == RefusedArgs(m)
      last == IF bad = {} THEN Len(m.args) ELSE CHOOSE i \in bad : \A j \in bad : i <= j
      values == Params(m, last)
  IN  CASE bad # {} -> [params |-> values, thrown |-> TRUE]
        [] bad = {} /\ q = None -> [params |-> values, thrown |-> FALSE]
        [] OTHER -> IF q.session = current
                    THEN [params |-> Append(values, InRef(q.id)), thrown |-> FALSE]
                    ELSE [params |-> values, thrown |-> TRUE]

\* A call through proxy p, with a reference to q as its last argument if q is one.  An
\* exception leaves the message begun; a proxy of another session is one of another
\* requestor, whose lease is refused as that requestor is disconnected.
SlipKeepParameters(c, params) ==
  requestor' = [requestor EXCEPT ![c] = Compose(@, TRUE, params)]
MarshalInvocation(c, params) ==
  requestor' = [requestor EXCEPT ![c] = Compose(@, TRUE, <<>>)]

Call(p, m, q) ==
  LET c == p.client
      req == requestor[c]
      pushed == Pushed(m, q, p.session)
      params == req.begun \o pushed.params
      entry == CallEntry(p, m, q, params)
  IN  /\ CanSend(c)
      /\ <<c, p.session>> \in connected
      /\ Allowed("refused", RefusedArgs(m) # {})
      /\ Allowed("returned", Unreturnable(m.result))
      /\ Allowed("stale", q # None /\ q.session # p.session)
      /\ amiss' = amiss \cup Note(~req.clear, "assertion")
      /\ IF pushed.thrown
         THEN /\ requestor' = [requestor EXCEPT ![c] = Compose(@, FALSE, params)]
              /\ UNCHANGED <<queue, sends, waiting>>
         ELSE /\ MarshalInvocation(c, params)
              /\ Send(c, entry)
              /\ IF Synchronous(m) THEN Expect(c, entry) ELSE UNCHANGED waiting
      /\ UNCHANGED <<tableVars, session, running, starts, connected, proxies, creator, given>>

\* A client passes a proxy on to another one: the owner is asked for a lease, and the
\* reference goes out to the other, in the order of two connections.
Pass(p, d) ==
  /\ CanSend(p.client)
  /\ d # p.client
  /\ <<p.client, p.session>> \in connected
  /\ Send(p.client, Entry(LeaseMessage(p.id), {p.id}, {}))
  /\ given' = given \cup {[to |-> d, id |-> p.id, object |-> p.object, component |-> p.component]}
  /\ UNCHANGED <<tableVars, session, running, starts, requestor, connected, proxies, creator, waiting, amiss>>

\* The other client gets it, even while it waits for a reply.
Receive(g) ==
  /\ ~fault
  /\ g.to \in running
  /\ GetOrCreateProxy(g.to, g.id, g.object, g.component)
  /\ given' = given \ {g}
  /\ UNCHANGED <<tableVars, session, running, starts, creator, queue, sends, waiting>>

\* A message of the owner about its barrier.
BarrierUp(c) ==
  /\ ~fault
  /\ c \in running
  /\ creator' = creator \cup {c}
  /\ requestor' = Assign(requestor, c, GetOrCreateRequestor(c))
  /\ connected' = connected \cup {<<c, session[c]>>}
  /\ UNCHANGED <<tableVars, session, running, starts, proxies, queue, sends, waiting, given, amiss>>

-----------------------------------------------------------------------------
(* The owner.                                                              *)

\* The ids that an entry leads to by now.
Mentions(entry) == entry.ids \cup {published[k] : k \in entry.keys}

\* Whether someone has, or is about to get, a reference to it.
InUse(id) ==
  \/ \E p \in proxies : p.id = id /\ <<p.client, p.session>> \in connected
  \/ \E g \in given : g.id = id
  \/ \E c \in Clients :
       \/ c \in DOMAIN waiting /\ id \in Mentions(waiting[c].request)
       \/ \E i \in DOMAIN queue[c] : id \in Mentions(queue[c][i])

Release(k) ==
  /\ Allowed("released", published[k] # NoId /\ InUse(published[k]))
  /\ Unpublish(k)
  /\ UNCHANGED clientVars

\* A node publishes an instance once, under one key.
Provide(k, o) ==
  /\ \A other \in Keys : bound[other] # o
  /\ Publish(k, o)
  /\ UNCHANGED clientVars

GetInstance(id) == IF id \in Ids /\ id \notin freed /\ id < numIds THEN slot[id] ELSE None

Reply(c, msg, o) ==
  waiting' = [waiting EXCEPT ![c] = [request |-> @.request, reply |-> msg, found |-> o]]

Raise(c, what) == Reply(c, ExceptionMessage("REMOTING", "rpc.RemotingException", what), None)

\* findInstance throws for another type, and management requests get no exception back.
ServeLookup(c, msg) ==
  LET request == GetRequest(msg)
      k == request.lookup_key
      id == published[k]
  IN  \/ id = NoId /\ Reply(c, IntReturn(NoId), None) /\ UNCHANGED tableVars
      \/ id \in freed /\ FindInstance(k) /\ UNCHANGED waiting
      \/ /\ id \notin freed \cup {NoId}
         /\ IF Component[slot[id]] = request.instance_type
            THEN FindInstance(k) /\ Reply(c, IntReturn(id), slot[id])
            ELSE Reply(c, NoReply, None) /\ UNCHANGED tableVars

\* onMethod and onGetField, once the call is made: the result or the out parameter.
ReturnOutput(c, result) ==
  CASE result = None -> UNCHANGED <<tableVars, waiting>>
    [] Unreturnable(result) -> Raise(c, "References can't be passed via return") /\ UNCHANGED tableVars
    [] result \in Objects ->
         /\ AddInstance(result)
         /\ \E id \in Ids :
              /\ slot'[id] # slot[id]
              /\ Reply(c, OutputMessage(<<OutRef(id, result)>>), result)
    [] OTHER -> /\ Reply(c, OutputMessage(<<ParamOf(result.type, result.value)>>), None)
                /\ UNCHANGED tableVars

\* invokeInstance: the arguments are read by the types the method has for them; what
\* getInstance finds for a reference is used without a check.
ServeInvocation(c, entry, call) ==
  LET args == call.member.args
      params == call.params
      reached == GetInstance(call.instance_id)
      got(i) == ValueOf(params[i], args[i].type, InitialValue(args[i].type))
      refers == entry.argument # None
      last == params[Len(args) + 1]
      argument == IF HasRef(last) THEN GetInstance(PullRef(last).instance_id) ELSE None
  IN  IF reached = None
      THEN /\ amiss' = amiss \cup {"other instance"}
           /\ IF call.synch THEN Raise(c, "No such instance") ELSE UNCHANGED waiting
           /\ UNCHANGED tableVars
      ELSE /\ amiss' = amiss
                \cup Note(reached # entry.object, "other instance")
                \cup Note(\E i \in DOMAIN args : got(i) # entry.method.args[i].value, "other argument")
                \cup Note(refers /\ HasRef(last) /\ argument = None, "null instance")
                \cup Note(refers /\ argument # entry.argument.object, "other argument")
                \cup Note(ThrownInOutput(call.member), "assertion")
           /\ ReturnOutput(c, call.member.result)

Serve(c) ==
  /\ ~fault
  /\ queue[c] # <<>>
  /\ queue' = [queue EXCEPT ![c] = Tail(@)]
  /\ \E message \in {Received(Head(queue[c]).msg)} :
       LET type == MessageType(message) IN
         \/ type = "REQUEST_LOOKUP" /\ ServeLookup(c, message) /\ UNCHANGED amiss
         \/ type = "INVOCATION" /\ ServeInvocation(c, Head(queue[c]), message.invocation)
         \/ /\ type = "REQUEST_LEASE"
            /\ amiss' = amiss \cup Note(GetInstance(GetRequest(message).lease_instance_id) = None,
                                        "no instance")
            /\ UNCHANGED <<tableVars, waiting>>
         \/ /\ type = "INVALID"
            /\ amiss' = amiss \cup {"invalid message"}
            /\ UNCHANGED <<tableVars, waiting>>
  /\ UNCHANGED <<session, running, starts, requestor, connected, proxies, creator, sends, given>>

-----------------------------------------------------------------------------
(* Replies.                                                                *)

\* What was looked for is not there: the requestor goes if nothing else needs it.
NotFound(c) ==
  /\ IF Of(c, session[c]) = {} /\ c \notin creator
     THEN DestroyRequestor(c, session[c])
     ELSE UNCHANGED <<requestor, connected, amiss>>
  /\ UNCHANGED proxies

\* The result is read by its type into what the caller has there.
TakeResult(m, params) ==
  /\ Allowed("kept", m.old # InitialValue(m.result.type))
  /\ amiss' = amiss \cup Note(ValueOf(params[1], m.result.type, m.old) # m.result.value, "other result")
  /\ UNCHANGED <<requestor, connected, proxies>>

Answer(c) ==
  /\ ~fault
  /\ c \in DOMAIN waiting
  /\ waiting[c].reply # None
  /\ \E reply \in {Received(waiting[c].reply)} :
       LET type == MessageType(reply)
           request == waiting[c].request
           o == waiting[c].found
       IN  CASE type = "EXCEPTION" -> UNCHANGED <<requestor, connected, proxies, amiss>>
           [] type # "EXCEPTION" /\ request.msg.type = "REQUEST_LOOKUP" ->
                IF waiting[c].reply = NoReply \/ reply.ret_int = NoId THEN NotFound(c)
                ELSE GetOrCreateProxy(c, reply.ret_int, o, GetRequest(request.msg).instance_type)
           [] type = "RETURN" /\ request.msg.type = "INVOCATION" /\ o # None ->
                LET ref == PullRef(reply.output[1])
                IN  GetOrCreateProxy(c, ref.instance_id, o, ref.instance_type)
           [] OTHER -> TakeResult(request.method, reply.output)
  /\ waiting' = Erase(waiting, c)
  /\ UNCHANGED <<tableVars, session, running, starts, creator, queue, sends, given>>

-----------------------------------------------------------------------------
(* The life of a client node.                                              *)

\* stop: first the invoker with _barrierCreator goes, then the manager, which
\* disconnects the requestors it still has.
SlipLeaveConnected(c) == UNCHANGED connected
Disconnect(c) == connected' = connected \ {<<c, session[c]>>}

Stop(c) ==
  /\ ~fault
  /\ Free(c)
  /\ running' = running \ {c}
  /\ creator' = creator \ {c}
  /\ requestor' = Erase(requestor, c)
  /\ Disconnect(c)
  /\ UNCHANGED <<tableVars, session, starts, proxies, queue, sends, waiting, given, amiss>>

Start(c) ==
  /\ ~fault
  /\ c \notin running
  /\ starts < MaxStarts
  /\ starts' = starts + 1
  /\ running' = running \cup {c}
  /\ session' = [session EXCEPT ![c] = @ + 1]
  /\ UNCHANGED <<tableVars, requestor, connected, proxies, creator, queue, sends, waiting, given,
                 amiss>>

NextRemote ==
  \/ \E k \in Keys, o \in Objects : Provide(k, o)
  \/ \E k \in Keys : Release(k)
  \/ \E c \in Clients, k \in Keys, o \in Objects : Lookup(c, k, Component[o])
  \/ \E p \in proxies, m \in Methods :
       \E q \in {None} \cup {other \in proxies : other.client = p.client} : Call(p, m, q)
  \/ \E p \in proxies, d \in Clients : Pass(p, d)
  \/ \E g \in given : Receive(g)
  \/ \E p \in proxies : Drop(p)
  \/ \E c \in Clients : BarrierUp(c) \/ Serve(c) \/ Answer(c) \/ Stop(c) \/ Start(c)

SpecRemote == InitRemote /\ [][NextRemote]_allVars

-----------------------------------------------------------------------------
(* Properties.                                                             *)

\* What the clients have is of their sessions and of the table's ids.
TypeOKRemote ==
  /\ TypeOK
  /\ session \in [Clients -> 1..(starts + 1)] /\ starts <= MaxStarts
  /\ running \subseteq Clients /\ creator \subseteq running
  /\ connected \subseteq {<<c, session[c]>> : c \in running}
  /\ \A p \in proxies : p.client \in Clients /\ p.session \in 1..session[p.client]
                          /\ p.id \in Ids /\ p.object \in Objects
  /\ \A c \in Clients : Len(queue[c]) <= MaxQueue
  /\ DOMAIN waiting \subseteq running

\* A requestor is in the manager exactly as long as something needs it: never is one
\* left there that was deleted, nor one that nothing leads to; the connected ones are
\* those of the manager.
RequestorsCounted ==
  /\ \A c \in Clients :
       c \in DOMAIN requestor <=>
         c \in running /\ (Of(c, session[c]) # {} \/ c \in creator \/ c \in DOMAIN waiting)
  /\ DOMAIN requestor \subseteq Clients
  /\ connected = {<<c, session[c]>> : c \in DOMAIN requestor}

\* For an instance that it has under an id a client has one proxy at a time, and what
\* its map says under the id is that proxy.
OneProxy ==
  \A p \in proxies : <<p.client, p.session>> \in connected =>
    /\ requestor[p.client].proxies[p.id] = p
    /\ p.component = Component[p.object]
    /\ slot[p.id] = p.object

\* Nothing deleted is used and no assertion fails.
NothingDeletedUsed ==
  /\ ~fault
  /\ amiss \cap {"deleted proxy", "deleted manager", "null instance", "assertion"} = {}

\* What is called is the instance a proxy was made for, with the arguments of the call,
\* and the caller gets the result of the call, whatever was sent or given up before.
CallsAsMeant ==
  amiss \cap {"other instance", "other argument", "other result", "no instance",
             "invalid message"} = {}

=============================================================================
