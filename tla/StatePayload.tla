---------------------------- MODULE StatePayload ----------------------------
(***************************************************************************)
(* StatePayload: what a poll of a slave makes of the values of its entities.     *)
(* The name of an entity is a path into the payload: keys of objects and         *)
(* indices of arrays.  Three payloads are built alike: the state that goes to    *)
(* MQTT, the body of the HTTP push, and the context its URL is filled from.      *)
(*                                                                           *)
(* A payload is a function from the paths that exist in it to what is there.     *)
(***************************************************************************)
EXTENDS Naturals, Sequences, FiniteSets, SequencesExt, FiniteSetsExt

CONSTANTS
  Indices,  \* the tokens of paths that are indices; all others are keys
  TooHigh,  \* those above MAX_ARRAY_INDEX
  Layouts,  \* the entities a slave may have, and what it pushes
  Thrown    \* a payload that could not be built

(* Entities come in a sequence, and each name has at least one token.               *)
PayloadAssumption ==
  \A l \in Layouts :
    /\ l.entities \in Seq(Range(l.entities))
    /\ \A e \in Range(l.entities) : e.path \in Seq(Range(e.path)) \ {<<>>}

VARIABLES
  slave,    \* entities, root and placeholders of the push, and whether it is polled for MQTT
  values,   \* mqttValue of each entity; Undefined when there is none
  state,    \* payload of the state topic
  pushed    \* what came of the push

vars == <<slave, values, state, pushed>>

Object == <<"object">>
Array == <<"array">>
Null == <<"null">>
Undefined == <<"undefined">>
Value(n) == <<"value", n>>
Containers == {Object, Array}

(* The container that token t names a place in.                                  *)
Kind(t) == IF t \in Indices THEN Array ELSE Object

Empty == [p \in {} |-> Null]

(* getByPath.                                                               *)
GetByPath(tree, path) == IF path \in DOMAIN tree THEN tree[path] ELSE Undefined

(***************************************************************************)
(* setByPath.                                                               *)
(***************************************************************************)

(* What is at the i-th step of path is there, and is not the container it needs.     *)
Blocked(tree, path, i) ==
  i < Len(path) /\ GetByPath(tree, SubSeq(path, 1, i)) \notin {Undefined, Null, Kind(path[i + 1])}

(* The step at which the assignment is given up, or the one behind the last.         *)
Stop(tree, path) ==
  Min({i \in 0 .. Len(path) :
         Blocked(tree, path, i) \/ (i > 0 /\ path[i] \in TooHigh)} \cup {Len(path) + 1})

(* A value in the place of an object is taken for one.                             *)
Throws(tree, path) ==
  LET i == Stop(tree, path)
  IN  /\ i < Len(path)
      /\ Blocked(tree, path, i)
      /\ i > 0 => path[i] \notin TooHigh
      /\ GetByPath(tree, SubSeq(path, 1, i)) \notin Containers
      /\ Kind(path[i + 1]) = Object

(* Mutant: containers are made on the way whether they are there or not.              *)
SetByPathAnew(tree, path, value) ==
  IF tree = Thrown \/ Throws(tree, path) THEN Thrown
  ELSE LET stop == Stop(tree, path)
           made == {SubSeq(path, 1, i) : i \in 0 .. Min({stop, Len(path)}) - 1}
           done == IF stop > Len(path) THEN {path} ELSE {}
           kept == {p \in DOMAIN tree : \A q \in made \ {<<>>} : ~IsPrefix(q, p)}
       IN  [p \in made \cup kept \cup {q \in done : value # Undefined} |->
              IF p \in done THEN value
              ELSE IF p \in made THEN Kind(path[Len(p) + 1])
              ELSE tree[p]]

(* Containers are made on the way; a value replaces what was at its place.           *)
SetByPath(tree, path, value) ==
  IF tree = Thrown \/ Throws(tree, path) THEN Thrown
  ELSE LET stop == Stop(tree, path)
           made == {SubSeq(path, 1, i) : i \in 0 .. Min({stop, Len(path)}) - 1}
           done == IF stop > Len(path) THEN {path} ELSE {}
           kept == {p \in DOMAIN tree : \A q \in done : ~IsPrefix(q, p)}
       IN  [p \in made \cup kept \cup {q \in done : value # Undefined} |->
              IF p \in done THEN value
              ELSE IF p \in made THEN Kind(path[Len(p) + 1])
              ELSE tree[p]]

(* The payload of the entities in S with values v, in the order they have.             *)
Built(S, v, default) ==
  FoldLeft(LAMBDA tree, n :
             IF n \notin S THEN tree
             ELSE SetByPath(tree, slave.entities[n].path, IF v[n] = Undefined THEN default ELSE v[n]),
           Empty, [n \in DOMAIN slave.entities |-> n])

IsObject(tree) == tree # Thrown /\ GetByPath(tree, <<>>) = Object

(* tree with value for a key of the payload itself.                                *)
WithKey(tree, key, value) ==
  [p \in {q \in DOMAIN tree : ~IsPrefix(<<key>>, q)} \cup {<<>>, <<key>>} |->
     IF p = <<>> THEN Object ELSE IF p = <<key>> THEN value ELSE tree[p]]

(***************************************************************************)
(* The payloads.                                                            *)
(***************************************************************************)

Entities == DOMAIN slave.entities
Exposed == {n \in Entities : ~slave.entities[n].variable}
Pushed == {n \in Exposed : slave.entities[n].push}

(* getStatePayload: raw values of selects are added under a name of their own.          *)
StateOf(v) ==
  LET tree == Built(Exposed, v, Null)
  IN  IF IsObject(tree) /\ (\E n \in Exposed : slave.entities[n].select /\ v[n] # Undefined)
        THEN WithKey(tree, "modbusValues", Object) ELSE tree

(* getHttpPushPayload, without the root.                                         *)
BodyOf(v) == Built(Pushed, v, Undefined)

(* The context of getResolvedHttpPushUrl.                                         *)
ContextOf(v) ==
  LET tree == Built(Entities, v, Undefined)
  IN  IF tree = Thrown THEN tree
      ELSE WithKey(IF IsObject(tree) THEN tree ELSE Empty, "pollDate", Value(0))

(* pushState: the outcome, the body that is sent and what its URL was filled from.       *)
PushOf(v) ==
  LET Outcome(what) == [what |-> what, body |-> Empty, url |-> Empty]
      body == BodyOf(v)
      url == ContextOf(v)
      sub == GetByPath(body, slave.root)
      inside == {p \in DOMAIN body : IsStrictPrefix(slave.root, p)}
  IN  IF url = Thrown THEN Outcome("failed")
      ELSE IF \E p \in slave.placeholders : GetByPath(url, p) \in {Undefined, Null}
        THEN Outcome("unresolved")
      ELSE IF body = Thrown THEN Outcome("failed")
      ELSE IF slave.root # <<>> /\ sub = Undefined THEN Outcome("no root")
      ELSE IF inside = {} /\ sub \in Containers \cup {Undefined} THEN Outcome("nothing selected")
      ELSE [what |-> "sent", body |-> body, url |-> url]

Nothing == [what |-> "nothing", body |-> Empty, url |-> Empty]

(* A poll has read the slave, and each entity has a value or none.  Its state is          *)
(* published unless the slave is only pushed; then it is pushed.                       *)
Poll ==
  /\ \E answered \in SUBSET Entities :
       values' = [n \in Entities |-> IF n \in answered THEN Value(n) ELSE Undefined]
  /\ state' = IF slave.mqtt THEN StateOf(values') ELSE Empty
  /\ pushed' = IF state' = Thrown THEN Nothing ELSE PushOf(values')
  /\ UNCHANGED slave

Init ==
  /\ slave \in Layouts
  /\ values = [n \in DOMAIN slave.entities |-> Undefined]
  /\ state = Empty
  /\ pushed = Nothing

Next == Poll

Spec == Init /\ [][Next]_vars

(***************************************************************************)
(* Properties.                                                              *)
(***************************************************************************)

(* Two paths that cannot both have a value.                                       *)
Conflict(p, q) ==
  LET common == {i \in 0 .. Min({Len(p), Len(q)}) : SubSeq(p, 1, i) = SubSeq(q, 1, i)}
      i == Max(common)
  IN  i \in {Len(p), Len(q)} \/ Kind(p[i + 1]) # Kind(q[i + 1])

(* The entities of S whose names are in no conflict with others, too high or reserved.   *)
Clear(S) ==
  {n \in S :
     LET path == slave.entities[n].path
     IN  /\ \A m \in S \ {n} : ~Conflict(path, slave.entities[m].path)
         /\ \A i \in DOMAIN path : path[i] \notin TooHigh
         /\ path[1] \notin {"pollDate", "modbusValues"}}

(* Those that begin with an index make the payload an array, which has no room for        *)
(* pollDate: the URL is filled without them.                                      *)
KeyedFirst(S) == {n \in S : Kind(slave.entities[n].path[1]) = Object}

Holds(tree, S, default) ==
  tree # Thrown =>
    \A n \in S :
      GetByPath(tree, slave.entities[n].path) = IF values[n] = Undefined THEN default ELSE values[n]

(* An entity whose name is in no conflict with others has its value, and none but its     *)
(* own, at its place in the state, in what is pushed and in the URL, whatever conflicts    *)
(* there are between others, and in whatever order they come (Slave.ts, setByPath).       *)
EntitiesKeepTheirPlace ==
  /\ state # Empty => Holds(state, Clear(Exposed), Null)
  /\ pushed.what = "sent" =>
       /\ Holds(pushed.body, Clear(Pushed), Undefined)
       /\ Holds(pushed.url, KeyedFirst(Clear(Entities)), Undefined)

(* Building a payload never throws (Slave.ts, setByPath: "Type conflicts (e.g. mixing a   *)
(* root array with root object keys) are skipped with a warning so building a payload      *)
(* never throws").                                                           *)
PayloadNeverThrows == state # Thrown
=============================================================================
