-------------------------- MODULE SlaveReferences --------------------------
(***************************************************************************)
(* The slaves of one bus, in memory (ConfigBus.busses) and in their files     *)
(* (BusPersistence).  A slave may reference another one of its bus and then    *)
(* takes all but its own few fields from it: in memory these are copied, in    *)
(* its file they are left out, and reading the files copies them again.        *)
(*                                                                           *)
(* Handlers of HTTP requests run to their end, and write their files on the    *)
(* way: only a crash of the process can come in between.                      *)
(***************************************************************************)
EXTENDS Integers

CONSTANTS
  Ids,    \* slave ids
  Specs,  \* file names of specifications
  None    \* undefined

ASSUME IdsAssumption == Ids \subseteq Nat
ASSUME NoneAssumption == None \notin Ids \cup Specs

VARIABLES
  slaves, \* IBus.slaves, by slave id
  files   \* the files s<slave id>.yaml of the bus

vars == <<slaves, files>>

(* The fields outside OWN_SLAVE_FIELDS: the specification, and pollMode for    *)
(* all others.                                                              *)
Configurations ==
  [spec : Specs \cup {None}, poll : {"unset", "intervall", "trigger"}]

Slave == [ref : Ids \cup {None}, conf : Configurations]

(* What stripInheritedFields leaves.                                        *)
Stripped == [spec |-> None, poll |-> "unset"]

(* The slaves of m that reference slave id.                                  *)
ReferencingSlaves(m, id) == {x \in DOMAIN m : m[x].ref = id}

(* resolveReference, applyInheritance.                                      *)
Resolved(s) ==
  IF s.ref = None THEN s
  ELSE IF s.ref \in DOMAIN slaves THEN [ref |-> s.ref, conf |-> slaves[s.ref].conf]
  ELSE [ref |-> s.ref, conf |-> Stripped]

(* The file of s.                                                           *)
Persisted(s) == IF s.ref = None THEN s ELSE [ref |-> s.ref, conf |-> Stripped]

(* Mutant: the slaves that reference the written ones are left as they are.   *)
WrittenAlone(m, new) ==
  [x \in DOMAIN m \cup DOMAIN new |-> IF x \in DOMAIN new THEN new[x] ELSE m[x]]

(* The slaves of new are written over those of m; the slaves that reference    *)
(* one of them that is no reference itself follow it.                        *)
Written(m, new) ==
  [x \in DOMAIN m \cup DOMAIN new |->
     IF x \in DOMAIN new THEN new[x]
     ELSE IF m[x].ref \in DOMAIN new /\ new[m[x].ref].ref = None
       THEN [ref |-> m[x].ref, conf |-> new[m[x].ref].conf]
     ELSE m[x]]

(* The files after the slaves of new were written.                          *)
PersistedIn(f, new) ==
  [x \in DOMAIN f \cup DOMAIN new |->
     IF x \in DOMAIN new THEN Persisted(new[x]) ELSE f[x]]

(* ConfigBus.writeslave for each slave of new.                               *)
WriteSlaves(new) ==
  /\ slaves' = Written(slaves, new)
  /\ files' = PersistedIn(files, new)

(***************************************************************************)
(* Reading the files.                                                       *)
(***************************************************************************)

(* Mutant: a file without a specification is not loaded.                      *)
LoadedWithSpec(f) == {id \in DOMAIN f : f[id].conf.spec # None}

Loaded(f) == {id \in DOMAIN f : f[id].conf.spec # None \/ f[id].ref # None}

(* readBusses resolves the references in the order of the slave ids, so that a *)
(* slave finds the one it references resolved if that has the lower id.        *)
Materialized(f, conf, id) ==
  IF f[id].ref = None THEN f[id].conf
  ELSE IF f[id].ref \notin Loaded(f) THEN Stripped
  ELSE IF f[id].ref < id THEN conf[f[id].ref]
  ELSE f[f[id].ref].conf

(* The process starts with the files f.                                      *)
StartWith(f) ==
  /\ files' = f
  /\ \E conf \in [Loaded(f) -> Configurations] :
       /\ \A id \in Loaded(f) : conf[id] = Materialized(f, conf, id)
       /\ slaves' = [id \in Loaded(f) |-> [ref |-> f[id].ref, conf |-> conf[id]]]

Restart == StartWith(files)

(***************************************************************************)
(* The routes.                                                              *)
(***************************************************************************)

(* Mutant: a reference may point to a reference.                             *)
MayReferenceAny(id, ref) == ref # None => ref # id /\ ref \in DOMAIN slaves

MayReference(id, ref) ==
  ref # None => ref # id /\ ref \in DOMAIN slaves /\ slaves[ref].ref = None

(* POST /slave.                                                             *)
WriteSlave(id, s) ==
  /\ MayReference(id, s.ref)
  /\ WriteSlaves([x \in {id} |-> Resolved(s)])

(* POST /specification for a slave: its specification is set once the          *)
(* specification is saved.                                                  *)
SaveSpecification(id, spec) ==
  /\ id \in DOMAIN slaves
  /\ LET s == [ref |-> slaves[id].ref, conf |-> [spec |-> spec, poll |-> slaves[id].conf.poll]]
     IN  WriteSlaves([x \in {id} |-> Resolved(s)])

(* The slaves DELETE /specification takes the specification from.             *)
Users(spec) == {x \in DOMAIN slaves : slaves[x].conf.spec = spec /\ slaves[x].ref = None}

Cleared(x) ==
  [ref |-> None,
   conf |-> [spec |-> None,
             poll |-> IF slaves[x].conf.poll = "unset" THEN "intervall"
                                                       ELSE slaves[x].conf.poll]]

DeleteSpecification(spec) == WriteSlaves([x \in Users(spec) |-> Cleared(x)])

CrashWhileClearing(spec) ==
  \E S \in SUBSET Users(spec) : StartWith(PersistedIn(files, [x \in S |-> Cleared(x)]))

(* detachSlave.                                                             *)
Detached(x) == [ref |-> None, conf |-> slaves[x].conf]

Without(m, id) == [x \in DOMAIN m \ {id} |-> m[x]]

MayDelete(id, detach) == detach \/ ReferencingSlaves(slaves, id) = {}

(* DELETE /slave.  The references are detached first; unlinking the file may   *)
(* fail, which is only logged.                                              *)
DeleteSlave(id, detach) ==
  LET new == [x \in IF detach THEN ReferencingSlaves(slaves, id) ELSE {} |-> Detached(x)]
  IN  /\ MayDelete(id, detach)
      /\ slaves' = Without(Written(slaves, new), id)
      /\ \/ files' = PersistedIn(files, new)
         \/ id \in DOMAIN slaves /\ files' = Without(PersistedIn(files, new), id)

(* Mutant: the file of the deleted slave goes first.                          *)
CrashAfterUnlink(id) ==
  /\ id \in DOMAIN slaves
  /\ \E S \in SUBSET ReferencingSlaves(slaves, id) :
       StartWith(Without(PersistedIn(files, [x \in S |-> Detached(x)]), id))

CrashWhileDetaching(id) ==
  \E S \in SUBSET ReferencingSlaves(slaves, id) :
    StartWith(PersistedIn(files, [x \in S |-> Detached(x)]))

Init ==
  /\ slaves = [x \in {} |-> Stripped]
  /\ files = [x \in {} |-> Stripped]

Next ==
  \/ \E id \in Ids :
       \/ \E s \in Slave : WriteSlave(id, s)
       \/ \E spec \in Specs : SaveSpecification(id, spec)
       \/ \E detach \in BOOLEAN : DeleteSlave(id, detach)
       \/ CrashWhileDetaching(id)
  \/ \E spec \in Specs : DeleteSpecification(spec) \/ CrashWhileClearing(spec)
  \/ Restart

Spec == Init /\ [][Next]_vars

(***************************************************************************)
(* Properties.                                                              *)
(***************************************************************************)

IsSlaveList(m) == DOMAIN m \subseteq Ids /\ \A id \in DOMAIN m : m[id] \in Slave

(* Types, and that each slave in memory has its file with its reference.      *)
TypeOK ==
  /\ IsSlaveList(slaves)
  /\ IsSlaveList(files)
  /\ \A id \in DOMAIN slaves : id \in DOMAIN files /\ files[id].ref = slaves[id].ref

(* Among any slaves there is one whose reference leads out of them.            *)
Acyclic(m) ==
  \A S \in (SUBSET DOMAIN m) \ {{}} : \E id \in S : m[id].ref \notin S

(* No sequence of requests, crashes and leftover files makes slaves reference  *)
(* each other in a circle: the check of POST /slave looks at one end of the     *)
(* new reference only, and roots become references later.                     *)
NoCycles == Acyclic(slaves) /\ Acyclic(files)

Follows(m) ==
  \A id \in DOMAIN m :
    m[id].ref \in DOMAIN m /\ m[m[id].ref].ref = None => m[id].conf = m[m[id].ref].conf

(* A slave whose reference leads to a slave that has none has the same           *)
(* configuration as that, whichever of the two was written, saved, detached or  *)
(* read last.                                                               *)
FollowsRoot == Follows(slaves)

Standalone(id) == id \in DOMAIN slaves /\ slaves[id].ref = None

(* A configured slave that is no reference, or references such a one directly. *)
Configured(id) ==
  /\ slaves[id].conf.spec # None
  /\ Standalone(id) \/ Standalone(slaves[id].ref)

Keeps(id) == id \in DOMAIN slaves' /\ slaves'[id].conf = slaves[id].conf

(* The configuration of a slave survives a restart, and the deletion of any     *)
(* other slave, even one that it references and even if the process crashes on *)
(* the way: "they keep the inherited values as their own".                    *)
ConfigurationSurvives ==
  [][/\ Restart => \A id \in DOMAIN slaves : Configured(id) => Keeps(id)
     /\ \A x \in Ids :
          (\E detach \in BOOLEAN : DeleteSlave(x, detach)) \/ CrashWhileDetaching(x)
            => \A id \in DOMAIN slaves \ {x} : Configured(id) => Keeps(id)]_vars

(* "the backend never orphans a slave": the file a slave takes its             *)
(* configuration from does not go while the slave still references it.         *)
NoSlaveIsOrphaned ==
  [][\A id \in DOMAIN slaves :
       LET root == slaves[id].ref
       IN  root \in DOMAIN files /\ id \in DOMAIN slaves' /\ slaves'[id].ref = root
             => root \in DOMAIN files']_vars

(* "Rejecting a chain here is what keeps the inheritance one level deep": no     *)
(* slave references a slave that is a reference itself.                       *)
OneLevelDeep ==
  \A id \in DOMAIN slaves :
    slaves[id].ref \in DOMAIN slaves => slaves[slaves[id].ref].ref = None
=============================================================================
