---------------------------- MODULE Replication -----------------------------
(***************************************************************************)
(* The flow library: a SpacePublisher collects the changes of a space and  *)
(* publishes them to SpaceSubscribers, each of which keeps a copy.         *)
(*                                                                         *)
(* The space is that of the ca library, which is outside this repository.  *)
(* An application edits objects; notifyChanges compares what is below the  *)
(* root with what it was when last notified, and tells the publisher of    *)
(* the objects that were added, removed and changed.                       *)
(*                                                                         *)
(* Lapses names what an application may do that the library does not cope  *)
(* with; the guards Allowed(...) say when a step is such a lapse.          *)
(*                                                                         *)
(* The operators named Slip... are variants of the one below them with a   *)
(* plausible mistake; no action uses them.                                 *)
(***************************************************************************)
EXTENDS ServiceIds, FiniteSets

CONSTANTS
  Space,        \* the objects, first the root; references lead to later ones
  Subscribers,
  Values,       \* values of the field val
  Default,      \* its value in a new object
  Starts,       \* what the objects may be when the space is first published
  Lapses,       \* a subset of AllLapses
  MaxEdits,     \* bound on the edits of the application
  MaxJoins,     \* bound on subscriptions
  None          \* no space, no copy

AllLapses ==
  {"quiet", "added", "unheard", "unready", "rejoin", "respace", "changed", "linked", "renumber"}

Objects == ToSet(Space)
Root == Space[1]

\* What an object can be.
Data == [members : Seq(Objects), val : Values, link : Objects \cup {Nil}]

\* References lead to objects that come later.
Later(o) == {Space[i] : i \in {j \in DOMAIN Space : \E k \in 1..(j - 1) : Space[k] = o}}
Ordered(g) == \A o \in Objects : Refs(g[o]) \subseteq Later(o)

ASSUME ReplicationAssumption ==
  /\ Space \in Seq(Objects) /\ Len(Space) > 0 /\ IsInjective(Space) /\ Default \in Values
  /\ Lapses \subseteq AllLapses
  /\ Starts \subseteq [Objects -> Data] /\ \A g \in Starts : Ordered(g)
  /\ MaxEdits \in Nat /\ MaxJoins \in Nat
  /\ Nil \notin Objects \cup Nat \cup (Nat \X Ports) /\ None \notin Objects \cup Nat /\ None # Nil

VARIABLES
  live,     \* the objects of the space
  seen,     \* what they were when notifyChanges was last called
  pending,  \* _allChanges
  ids,      \* _graphIds of the publisher
  subs,     \* _subscribers
  replica,  \* the subscribers
  broken,   \* subscribers that used a null service, or numbers they do not have
  edits, joins

vars == <<live, seen, pending, ids, subs, replica, broken, edits, joins>>

Blank == [members |-> <<>>, val |-> Default, link |-> Nil]

\* A subscriber: the instances of its copy, _rootObject, the root of _space
\* (None without a space, Nil without a root), _ids, _graphIds and ready.
Fresh == [heap |-> <<>>, root |-> Nil, space |-> None, ids |-> <<>>, map |-> NoIds, ready |-> FALSE]

Init ==
  /\ live \in Starts
  /\ seen = live
  /\ pending = <<>>
  /\ ids = InitIds(live, Root)
  /\ subs = <<>>
  /\ replica = [s \in Subscribers |-> Fresh]
  /\ broken = {}
  /\ edits = 0 /\ joins = 0

Allowed(lapse, happens) == happens => lapse \in Lapses

-----------------------------------------------------------------------------
(* The space.                                                              *)

Below(g) == ToSet(Met(g, Root))
Added == Below(live) \ Below(seen)
Removed == Below(seen) \ Below(live)
Changed == {o \in Below(seen) \cap Below(live) : live[o] # seen[o]}
Unnotified == live # seen /\ Added \cup Removed \cup Changed # {}

\* The application sets a field or a receptacle of an object, in the space or not.
Edit(o) ==
  /\ edits < MaxEdits
  /\ edits' = edits + 1
  /\ \E data \in {[live[o] EXCEPT !.val = v] : v \in Values}
                   \cup {[live[o] EXCEPT !.link = x] : x \in Later(o) \cup {Nil}}
                   \cup {[live[o] EXCEPT !.members = xs] : xs \in UNION {SetToSeqs(X) : X \in SUBSET Later(o)}} :
       /\ data # live[o]
       /\ live' = [live EXCEPT ![o] = data]
  /\ UNCHANGED <<seen, pending, ids, subs, replica, broken, joins>>

\* notifyChanges of the space, which calls onGraphChanged if there are any changes.
\* The order of the changed objects is that of a container of pointers.
\* onGraphChanged keeps the changes.
Notify ==
  /\ Unnotified
  /\ \E order \in SetToSeqs(Changed) :
       pending' = Append(pending,
         [added |-> Added, removed |-> Removed,
          changed |-> [i \in DOMAIN order |->
            [object |-> order[i], now |-> live[order[i]],
             fields |-> {f \in DOMAIN Blank : live[order[i]][f] # seen[order[i]][f]}]]])
  /\ seen' = live
  /\ UNCHANGED <<live, ids, subs, replica, broken, edits, joins>>

-----------------------------------------------------------------------------
(* The publisher.                                                          *)

\* The elements of a sequence that are in a set.
Among(sequence, set) ==
  FoldLeft(LAMBDA acc, x : IF x \in set THEN Append(acc, x) ELSE acc, <<>>, sequence)

\* The numbers of a set up to last, in their order.
Ascending(numbers, last) == Among([n \in 1..last |-> n], numbers)

\* The port whose data a change is about.
PortOf == [link |-> "object", members |-> "team", val |-> "info"]

\* createChange: references go by number; in a vector those without one are left out.
Numbers(m, xs) == [i \in DOMAIN xs |-> GetId(m, Referred(xs[i]))]
SlipWithZeros(m, field, data) == [name |-> field, value |->
  IF field = "members" THEN Numbers(m, data.members) ELSE data[field]]
ChangeOf(m, field, data) == [name |-> field, value |->
  CASE field = "members" -> Among(Numbers(m, data.members), Nat \ {0})
    [] field = "link" -> IF data.link = Nil THEN Nil ELSE GetId(m, Referred(data.link))
    [] field = "val" -> data.val]

\* A change under the number n, after those it has.
AddChange(table, n, change) ==
  [k \in DOMAIN table \cup {n} |->
     IF k # n THEN table[k]
     ELSE IF k \in DOMAIN table THEN Append(table[k], change) ELSE <<change>>]

\* processNewObjects for all change sets, in order: [map, new].
SlipNeverRemove(m, p) ==
  [map |-> m, new |-> UNION {p[i].added : i \in DOMAIN p} \ UNION {p[i].removed : i \in DOMAIN p}]
ProcessNewObjects(m, p) ==
  FoldLeft(LAMBDA acc, set :
             LET new == acc.new \cup set.added IN
             [map |-> RemoveObjects(acc.map, live, set.removed \ new), new |-> new \ set.removed],
           [map |-> m, new |-> {}], p)

\* getNewObjectChanges: all the data of a new object, as it is now.
SlipNoLink(o) == [object |-> o, now |-> live[o], fields |-> {"members", "val"}]
NewObject(o) ==
  [object |-> o, now |-> live[o],
   fields |-> {"members", "val"} \cup (IF live[o].link = Nil THEN {} ELSE {"link"})]

\* processServiceChanges and the loop over connections of one object: the fields of c.
ObjectChanges(m, c, table) ==
  LET add(t, field) ==
        IF field \notin c.fields THEN t
        ELSE AddChange(t, GetId(m, <<c.object, PortOf[field]>>), ChangeOf(m, field, c.now))
  IN  add(add(add(table, "link"), "members"), "val")

\* processChanges returns at the first object without a number.
Numbered(m, changed) ==
  LET lost == SelectInSeq(changed, LAMBDA c : ~HasId(m, Self(c.object)))
  IN  IF lost = 0 THEN changed ELSE SubSeq(changed, 1, lost - 1)

\* processAllSpaceChanges up to the subscribers: new objects in the order of a set
\* of pointers, then sent in the order of their numbers.
Publication(order, removed) ==
  LET map == FoldLeft(ShallowObjectId, removed.map, order)
      data == [i \in DOMAIN order |-> NewObject(order[i])]
                \o FlattenSeq([i \in DOMAIN pending |-> Numbered(map, pending[i].changed)])
  IN  [map |-> map, last |-> map.last,
       changes |-> FoldLeft(LAMBDA table, c : ObjectChanges(map, c, table), <<>>, data),
       objects |-> Ascending({GetId(map, Self(o)) : o \in ToSet(order)}, map.last)]

\* calculateData and getOrderedIds: what a subscriber starts with.
Snapshot ==
  LET ordered == GetOrderedIds(ids, live, Root)
  IN  [space |-> live, map |-> ordered.map, ids |-> ordered.ids]

-----------------------------------------------------------------------------
(* A subscriber.                                                           *)

\* initializeIds: an empty space gets the copy, and the numbers are paired with it.
InitializeIds(r) ==
  LET space == IF r.space = Nil THEN r.root ELSE r.space
  IN  IF r.root # Nil /\ space = r.root
      THEN [r EXCEPT !.space = space, !.ready = TRUE, !.map = InitWithIds(r.heap, space, r.ids)]
      ELSE [r EXCEPT !.space = space]

\* onSubscribed: the archive is restored to new instances.
SlipShareNothing(r, g, numbers) == [r EXCEPT !.ids = numbers]
OnSubscribed(r, g, numbers) ==
  LET order == Met(g, Root)
      at(o) == IF o = Nil THEN Nil
               ELSE Len(r.heap) + (CHOOSE i \in DOMAIN order : order[i] = o)
      copy == [i \in DOMAIN order |->
                 [members |-> [k \in DOMAIN g[order[i]].members |-> at(g[order[i]].members[k])],
                  val |-> g[order[i]].val, link |-> at(g[order[i]].link)]]
  IN  InitializeIds([r EXCEPT !.heap = @ \o copy, !.root = at(Root), !.ids = numbers])

\* applyReceivedNewObjects: an instance for each new number.
NewInstances(r, numbers) ==
  FoldLeft(LAMBDA acc, n :
             [acc EXCEPT !.heap = Append(@, Blank),
                         !.map = ShallowGivenObjectId(@, Len(acc.heap) + 1, n)],
           r, numbers)

\* applyRefChange and setField on service n.  A number unknown in a vector is an
\* exception, and so is a service of another type; one unknown in a receptacle is null.
ApplyChange(acc, n, change) ==
  LET service == GetService(acc.rep.map, n)
      known(id) == GetService(acc.rep.map, id) # Nil
      target(id) == IF known(id) THEN GetService(acc.rep.map, id)[1] ELSE Nil
      fits(id) == known(id) => GetService(acc.rep.map, id)[2] = "info"
      setLink(x) == [acc EXCEPT !.rep.heap[service[1]].link = x]
      fail == [acc EXCEPT !.out = "thrown"]
  IN  CASE acc.out # "ok" -> acc
        [] acc.out = "ok" /\ service[2] # PortOf[change.name] -> fail
        [] acc.out = "ok" /\ service[2] = "info" ->
             [acc EXCEPT !.rep.heap[service[1]].val = change.value]
        [] acc.out = "ok" /\ service[2] = "object" ->
             IF change.value = Nil THEN setLink(Nil)
             ELSE IF fits(change.value) THEN setLink(target(change.value)) ELSE fail
        [] acc.out = "ok" /\ service[2] = "team" ->
             IF \A k \in DOMAIN change.value : known(change.value[k]) /\ fits(change.value[k])
             THEN [acc EXCEPT !.rep.heap[service[1]].members =
                     [k \in DOMAIN change.value |-> target(change.value[k])]]
             ELSE fail

\* applyReceivedChanges: [rep, out].  Changes of an unknown service are passed over at
\* first; the loop that reports the changed services to the space then uses a null one.
ApplyReceivedChanges(r, publication) ==
  LET table == publication.changes
      start == [rep |-> NewInstances(r, publication.objects), out |-> "ok"]
      known(n) == GetService(start.rep.map, n) # Nil
      applied == FoldLeft(LAMBDA acc, n :
                            FoldLeft(LAMBDA a, c : ApplyChange(a, n, c), acc, table[n]),
                          start, Ascending({n \in DOMAIN table : known(n)}, publication.last))
  IN  IF applied.out = "ok" /\ \E n \in DOMAIN table : ~known(n)
      THEN [applied EXCEPT !.out = "broken"] ELSE applied

OnPublish(r, publication) ==
  IF r.ready THEN ApplyReceivedChanges(r, publication) ELSE [rep |-> r, out |-> "thrown"]

-----------------------------------------------------------------------------
(* The operations.                                                         *)

\* SpacePublisher::setSpace, again.
SetPublished ==
  /\ Allowed("renumber", subs # <<>>)
  /\ Allowed("quiet", Unnotified)
  /\ ids' = InitIds(live, Root)
  /\ UNCHANGED <<live, seen, pending, subs, replica, broken, edits, joins>>

\* addSubscriber: the space as it is, whether notified or not.
AddSubscriber(s) ==
  /\ joins < MaxJoins
  /\ s \notin broken
  /\ Allowed("quiet", Unnotified)
  /\ Allowed("added", \E i \in DOMAIN pending : pending[i].added # {})
  /\ Allowed("rejoin", replica[s].root # Nil)
  /\ joins' = joins + 1
  /\ \E snapshot \in {Snapshot} :
       /\ ids' = snapshot.map
       /\ replica' = [replica EXCEPT ![s] = OnSubscribed(@, snapshot.space, snapshot.ids)]
  /\ subs' = Append(subs, s)
  /\ UNCHANGED <<live, seen, pending, broken, edits>>

\* addSubscriber of one whose space is of another model: onSubscribed throws, when
\* the publisher has numbered what had no number.
RefuseSubscriber ==
  /\ Allowed("quiet", Unnotified)
  /\ Allowed("added", \E i \in DOMAIN pending : pending[i].added # {})
  /\ ids' = Snapshot.map
  /\ UNCHANGED <<live, seen, pending, subs, replica, broken, edits, joins>>

\* removeSubscriber and clearSubscribers.
RemoveSubscriber(s) ==
  /\ s \in ToSet(subs)
  /\ subs' = RemoveFirst(subs, s)
  /\ UNCHANGED <<live, seen, pending, ids, replica, broken, edits, joins>>

ClearSubscribers ==
  /\ Len(subs) > 1
  /\ subs' = <<>>
  /\ UNCHANGED <<live, seen, pending, ids, replica, broken, edits, joins>>

\* The list of numbers ends before the walk over the copy: initWithIds reads on.
TooFewIds(r) == r.root # Nil /\ Cardinality(ToSet(Walk(r.heap)[r.root])) > Len(r.ids)

\* SpaceSubscriber::setSpace, before or after the subscription or again, with an empty
\* space or the one of the copy: the numbers are paired as they were when it began.
Respaced(r) == InitializeIds([r EXCEPT !.space = Nil])
SetSpace(s) ==
  /\ s \notin broken
  /\ Allowed("respace", \/ TooFewIds(replica[s])
                        \/ replica[s].ready /\ Respaced(replica[s]) # replica[s])
  /\ IF TooFewIds(replica[s])
     THEN broken' = broken \cup {s} /\ UNCHANGED replica
     ELSE replica' = [replica EXCEPT ![s] = Respaced(@)] /\ UNCHANGED broken
  /\ UNCHANGED <<live, seen, pending, ids, subs, edits, joins>>

\* publish with subscribers.  One that throws ends it for those after it, and the
\* changes are kept.
SlipKeepChanges(publication) ==
  LET heard == [s \in ToSet(subs) |-> OnPublish(replica[s], publication)] IN
  /\ replica' = [s \in Subscribers |-> IF s = subs[1] THEN heard[s].rep ELSE replica[s]]
  /\ pending' = <<>>
  /\ UNCHANGED broken
Deliver(publication) ==
  LET step(acc, s) ==
        IF acc.out # "ok" THEN acc
        ELSE LET heard == OnPublish(acc.replica[s], publication) IN
             [replica |-> [acc.replica EXCEPT ![s] = heard.rep], out |-> heard.out,
              broken |-> IF heard.out = "broken" THEN acc.broken \cup {s} ELSE acc.broken]
      end == FoldLeft(step, [replica |-> replica, out |-> "ok", broken |-> broken], subs)
  IN  /\ replica' = end.replica
      /\ broken' = end.broken
      /\ pending' = IF end.out = "ok" THEN <<>> ELSE pending

\* An object that changed and then left the space, and may be in it again.
ChangedAndRemoved ==
  \E k \in DOMAIN pending : \E i \in 1..(k - 1) : \E j \in DOMAIN pending[i].changed :
    pending[i].changed[j].object \in pending[k].removed

Publish ==
  /\ pending # <<>> /\ subs # <<>>
  /\ ToSet(subs) \cap broken = {}
  /\ Allowed("quiet", Unnotified)
  /\ Allowed("changed", ChangedAndRemoved)
  /\ Allowed("unready", \E s \in ToSet(subs) : ~replica[s].ready)
  /\ \E removed \in {ProcessNewObjects(ids, pending)} :
       /\ Allowed("linked", \E o \in Below(live) \ removed.new : \E p \in Ports :
                              HasId(removed.map, Self(o)) /\ ~HasId(removed.map, <<o, p>>))
       /\ \E publication \in {Publication(order, removed) : order \in SetToSeqs(removed.new)} :
            /\ ids' = publication.map
            /\ Deliver(publication)
  /\ UNCHANGED <<live, seen, subs, edits, joins>>

\* publish without subscribers: the changes are forgotten.
PublishUnheard ==
  /\ pending # <<>> /\ subs = <<>>
  /\ Allowed("unheard", \E i \in DOMAIN pending : pending[i].removed # {})
  /\ pending' = <<>>
  /\ UNCHANGED <<live, seen, ids, subs, replica, broken, edits, joins>>

Next ==
  \/ \E o \in Objects : Edit(o)
  \/ Notify
  \/ SetPublished
  \/ RefuseSubscriber
  \/ \E s \in Subscribers : AddSubscriber(s) \/ RemoveSubscriber(s) \/ SetSpace(s)
  \/ ClearSubscribers
  \/ Publish
  \/ PublishUnheard

Spec == Init /\ [][Next]_vars

-----------------------------------------------------------------------------
(* Properties.                                                             *)

\* What a walk from each object of a graph sees.
View(g) ==
  LET view[o \in DOMAIN g] ==
        [members |-> [k \in DOMAIN g[o].members |-> view[g[o].members[k]]],
         val |-> g[o].val,
         link |-> IF g[o].link = Nil THEN Nil ELSE view[g[o].link]]
  IN  view

Copy(s) == IF replica[s].root = Nil THEN None ELSE View(replica[s].heap)[replica[s].root]

\* Numbers and instances stay within what has been handed out, subscriptions are
\* of subscribers that have a copy, and only those with a space are ready.
TypeOK ==
  /\ \A s \in DOMAIN ids.toId : s[1] \in Objects /\ ids.toId[s] \in 1..ids.last
  /\ \A n \in DOMAIN ids.toService : n \in 1..ids.last
  /\ \A s \in ToSet(subs) : replica[s].root # Nil
  /\ \A s \in Subscribers :
       /\ replica[s].ready => replica[s].space \in DOMAIN replica[s].heap
       /\ \A n \in DOMAIN replica[s].map.toService :
            replica[s].map.toService[n][1] \in DOMAIN replica[s].heap
  /\ broken \subseteq Subscribers

\* Whenever a follower has been told everything, the walks over the space and over
\* its copy meet services under the same numbers, and by its number the follower
\* finds each one: what the next publication relies on.
NumbersAgree ==
  pending = <<>> /\ ~Unnotified =>
    \A s \in {t \in ToSet(subs) : replica[t].ready} :
      LET ours == Walk(live)[Root]
          theirs == Walk(replica[s].heap)[replica[s].root]
          map == replica[s].map
      IN  /\ Len(ours) = Len(theirs)
          /\ \A i \in DOMAIN ours :
               /\ GetId(ids, ours[i]) = GetId(map, theirs[i])
               /\ GetService(map, GetId(ids, ours[i])) = theirs[i]

\* No publication makes a subscriber look for a service it does not have: none
\* uses a null service, and none throws, which would keep the changes.
EveryServiceKnown ==
  [][/\ broken' = broken
     /\ Publish => pending' = <<>>]_vars

\* The copies implement the mirror of the space.
Mirror ==
  INSTANCE SpaceMirror WITH
    source <- View(live)[Root],
    copies <- [s \in Subscribers |-> Copy(s)],
    following <- ToSet(subs)
ImplementsMirror == Mirror!Spec

=============================================================================
