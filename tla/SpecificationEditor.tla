------------------------ MODULE SpecificationEditor ------------------------
(***************************************************************************)
(* SpecificationEditor: one specification from its file to the page that     *)
(* edits it and back.  SpecPersistence reads it and fills in what old files  *)
(* lack; the page asks for it twice when it opens, and once more after it    *)
(* was saved, and shows what comes; entities are added, copied, moved and    *)
(* deleted meanwhile.  What is kept of an entity is its id.                  *)
(***************************************************************************)
EXTENDS Naturals, Sequences, FiniteSets, SequencesExt, FiniteSetsExt

CONSTANTS
  Files,        \* the files there may be at the beginning, of any version
  MaxEntities,  \* bound: entities that are made
  MaxRequests   \* bound: requests of the page under way

VARIABLES
  file,      \* the file of the specification
  loaded,    \* ConfigSpecification.specifications: its entry
  shown,     \* currentSpecification of the page, <<>> when it shows none
  touched,   \* isTouched of the page
  requests,  \* requests of the page, each with its answer
  made       \* history: how many entities were made

vars == <<file, loaded, shown, touched, requests, made>>

(* A specification is the sequence of its entities and nextEntityId, 0 without.     *)
(* The key of an entity tells it from all others, whatever id it gets.            *)
Entity(id, key) == [id |-> id, key |-> key]

IdsOf(spec) == {spec.entities[i].id : i \in DOMAIN spec.entities}

(***************************************************************************)
(* SpecPersistence.                                                          *)
(***************************************************************************)

(* postProcessSpec: nextEntityId as the entities of an old file suggest.          *)
Processed(spec) ==
  [spec EXCEPT !.nextEntityId =
     FoldLeft(LAMBDA n, e : IF n = 0 \/ e.id > n + 1 THEN e.id + 1 ELSE n, @, spec.entities)]

Restart ==
  /\ loaded' = Processed(file)
  /\ UNCHANGED <<file, shown, touched, requests, made>>

(* writeSpecification: file and memory get what was posted.                      *)
Written(spec) ==
  /\ file' = spec
  /\ loaded' = spec

(***************************************************************************)
(* Requests of the page: "first" and "values" open it, "reread" follows "post".  *)
(* The server takes them as they are sent; the answers take their time.          *)
(***************************************************************************)

Request(kind, body) == [kind |-> kind, body |-> body]

(* ngOnInit.                                                                *)
OpenPage ==
  /\ shown = <<>>
  /\ requests = {}
  /\ requests' = {Request("first", loaded)}
  /\ UNCHANGED <<file, loaded, shown, touched, made>>

(* saveSpecification.                                                       *)
Save ==
  /\ shown # <<>>
  /\ touched
  /\ shown[1].entities # <<>>
  /\ Cardinality(requests) < MaxRequests
  /\ Written(shown[1])
  /\ requests' = requests \cup {Request("post", shown[1])}
  /\ UNCHANGED <<shown, touched, made>>

(* The answer arrives, and the page asks for the next.  What it shows takes the place   *)
(* of whatever was edited (setCurrentSpecification).                             *)
Arrive(r) ==
  /\ LET next == CASE r.kind = "first" -> {Request("values", loaded)}
                   [] r.kind = "post"  -> {Request("reread", loaded)}
                   [] OTHER            -> {}
     IN requests' = (requests \ {r}) \cup next
  /\ IF r.kind = "post" THEN UNCHANGED <<shown, touched>>
     ELSE shown' = <<r.body>> /\ touched' = FALSE
  /\ UNCHANGED <<file, loaded, made>>

(* closeAndBack: answers that are still to come find no page.                     *)
ClosePage ==
  /\ shown # <<>>
  /\ shown' = <<>>
  /\ touched' = FALSE
  /\ requests' = {}
  /\ UNCHANGED <<file, loaded, made>>

(***************************************************************************)
(* Editing.                                                                 *)
(***************************************************************************)

Edited(entities) ==
  /\ shown' = <<[shown[1] EXCEPT !.entities = entities]>>
  /\ touched' = TRUE
  /\ UNCHANGED <<file, loaded, requests, made>>

(* addEntity: behind the entity it copies, or at the end.                        *)
Added(position, id) ==
  /\ made < MaxEntities
  /\ made' = made + 1
  /\ shown' = <<[entities     |-> InsertAt(shown[1].entities, position + 1, Entity(id, made')),
                 nextEntityId |-> id + 1]>>
  /\ touched' = TRUE
  /\ UNCHANGED <<file, loaded, requests>>

(* Mutant: nextEntityId is taken as it is when there is one.                       *)
AddEntityNext(position) ==
  LET next == shown[1].nextEntityId
  IN  Added(position, IF next = 0 THEN Max(IdsOf(shown[1]) \cup {1}) + 1 ELSE next)

(* The next id, unless an entity has it or a higher one.                           *)
AddEntity(position) ==
  LET next == shown[1].nextEntityId
      above == Max(IdsOf(shown[1]) \cup {1}) + 1
  IN  Added(position, IF next = 0 \/ above > next THEN above ELSE next)

DeleteEntity(position) == Edited(RemoveAt(shown[1].entities, position))

Drop(from, to) ==
  LET entities == shown[1].entities
  IN  Edited(InsertAt(RemoveAt(entities, from), to, entities[from]))

Edit ==
  /\ shown # <<>>
  /\ LET places == DOMAIN shown[1].entities
     IN \/ \E p \in places \cup {0} : AddEntity(p)
        \/ \E p \in places : DeleteEntity(p)
        \/ \E p, q \in places : p # q /\ Drop(p, q)

Init ==
  /\ file \in Files
  /\ loaded = Processed(file)
  /\ shown = <<>>
  /\ touched = FALSE
  /\ requests = {}
  /\ made = Max({e.key : e \in ToSet(file.entities)} \cup {0})

Next ==
  \/ Restart
  \/ OpenPage \/ Save \/ ClosePage
  \/ \E r \in requests : Arrive(r)
  \/ Edit

Spec == Init /\ [][Next]_vars

(***************************************************************************)
(* Properties.                                                              *)
(***************************************************************************)

UniqueIds(spec) == \A i, j \in DOMAIN spec.entities : spec.entities[i].id = spec.entities[j].id => i = j

(* A file that nobody has edited has an id for each entity.                        *)
EditorAssumption ==
  /\ Files \subseteq [entities : Seq([id : Nat, key : Nat]), nextEntityId : Nat]
  /\ \A f \in Files : UniqueIds(f)

(* No two entities of a specification have one id, on the page or in its file: topics,   *)
(* selections of slaves and translations go by it.  It holds for old files too, though     *)
(* the nextEntityId that is filled in for them may be in use (specification.component.ts:   *)
(* addEntity; specPersistence.ts: postProcessSpec).                                *)
EntityIdsUnique == UniqueIds(file) /\ (shown # <<>> => UniqueIds(shown[1]))

=============================================================================
