----------------------------- MODULE ServiceIds -----------------------------
(***************************************************************************)
(* flow.ServiceIdMap: the numbers by which a publisher and its subscribers *)
(* name the services of a graph of objects.                                *)
(*                                                                         *)
(* A graph g gives each object the data of its ports.  One component       *)
(* stands for all: its ports are, in this order, a facet "team" with a     *)
(* vector of references (members), a facet "info" with a value (val) and a *)
(* receptacle "link".  References lead to the facet "info" of an object    *)
(* and are written as the object.  Graphs are finite and have no cycles:   *)
(* genericGraphWalk does not return from one.                              *)
(***************************************************************************)
EXTENDS Naturals, Sequences, SequencesExt, Functions

CONSTANT Nil   \* a null reference

\* The objects that the data of an object refers to.
Refs(data) == ToSet(data.members) \cup ({data.link} \ {Nil})

\* Services are pairs of an object and a port; the object itself is one.
Self(o) == <<o, "object">>
Ports == {"object", "team", "info"}
Referred(o) == <<o, "info">>

\* genericGraphWalk: the services met from each object, with repetitions.
Walk(g) ==
  LET walk[o \in DOMAIN g] ==
        <<Self(o), <<o, "team">> >>
          \o FlattenSeq([i \in DOMAIN g[o].members |-> walk[g[o].members[i]]])
          \o <<Referred(o)>>
          \o (IF g[o].link = Nil THEN <<>> ELSE walk[g[o].link])
  IN  walk

\* The objects among them, in the order they are first met.
Met(g, root) ==
  FoldLeft(LAMBDA met, s : IF s[2] # "object" \/ Contains(met, s[1]) THEN met ELSE Append(met, s[1]),
           <<>>, Walk(g)[root])

-----------------------------------------------------------------------------
(* The map.                                                                *)

\* _objectIdMap, _idObjectMap and _currentId.
NoIds == [toId |-> <<>>, toService |-> <<>>, last |-> 0]

HasId(m, s) == s \in DOMAIN m.toId
GetId(m, s) == IF HasId(m, s) THEN m.toId[s] ELSE 0
GetService(m, id) == IF id \in DOMAIN m.toService THEN m.toService[id] ELSE Nil

\* std::map::insert: what the key has already stays.
Insert(map, key, x) == [k \in DOMAIN map \cup {key} |-> IF k \in DOMAIN map THEN map[k] ELSE x]

InsertInMap(m, s, id) ==
  [toId |-> Insert(m.toId, s, id), toService |-> Insert(m.toService, id, s), last |-> m.last]

\* insertInMap( service ): under the next number.
InsertNext(m, s) ==
  InsertInMap([toId |-> m.toId, toService |-> m.toService, last |-> m.last + 1], s, m.last + 1)

\* Every service of the graph below o that has no number gets the next one.
ObjectId(m, g, o) ==
  FoldLeft(LAMBDA acc, s : IF HasId(acc, s) THEN acc ELSE InsertNext(acc, s), m, Walk(g)[o])

\* init
InitIds(g, root) == ObjectId(NoIds, g, root)

\* The numbers of all services below root in the order of the walk, each once;
\* services without one are numbered first, with all that is below their provider.
GetOrderedIds(m, g, root) ==
  LET step(acc, s) ==
        LET map == IF HasId(acc.map, s) THEN acc.map ELSE ObjectId(acc.map, g, s[1])
        IN  IF s \in acc.marked THEN [map |-> map, marked |-> acc.marked, ids |-> acc.ids]
            ELSE [map |-> map, marked |-> acc.marked \cup {s},
                  ids |-> Append(acc.ids, GetId(map, s))]
      end == FoldLeft(step, [map |-> m, ids |-> <<>>, marked |-> {}], Walk(g)[root])
  IN  [map |-> end.map, ids |-> end.ids]

\* initWithIds: the services below root get the given numbers, in the order of the walk.
InitWithIds(g, root, ids) ==
  LET step(acc, s) ==
        IF HasId(acc.map, s) THEN acc
        ELSE [map |-> InsertInMap(acc.map, s, Head(acc.ids)), ids |-> Tail(acc.ids)]
  IN  FoldLeft(step, [map |-> NoIds, ids |-> ids], Walk(g)[root]).map

\* shallowObjectId: an object and then its facets, under the next numbers.
ShallowObjectId(m, o) ==
  InsertNext(InsertNext(InsertNext(m, Self(o)), <<o, "team">>), Referred(o))

\* shallowGivenObjectId: the same from a given number on.
ShallowGivenObjectId(m, o, id) ==
  InsertInMap(InsertInMap(InsertInMap(m, Self(o), id), <<o, "team">>, id + 1), Referred(o), id + 2)

\* Services lose their numbers; the numbers keep their services.
Forget(m, services) ==
  [toId |-> Restrict(m.toId, DOMAIN m.toId \ services), toService |-> m.toService, last |-> m.last]

\* removeObject, of each of some objects that has a number: the services at all ports,
\* at a receptacle one of another object.  In what order makes no difference.
SlipForgetOne(m, g, objects) == Forget(m, {Self(o) : o \in objects})
RemoveObjects(m, g, objects) ==
  LET ports(o) == {Self(o), <<o, "team">>, Referred(o)}
                    \cup (IF g[o].link = Nil THEN {} ELSE {Referred(g[o].link)})
  IN  Forget(m, UNION {ports(o) : o \in {x \in objects : HasId(m, Self(x))}})

=============================================================================
