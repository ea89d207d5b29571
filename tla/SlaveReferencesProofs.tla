------------------------ MODULE SlaveReferencesProofs ------------------------
(***************************************************************************)
(* Proofs about SlaveReferences, for any number of slaves and specifications. *)
(***************************************************************************)
EXTENDS SlaveReferences, TLAPS

(* The references of slaves in memory are those of their files.               *)
Matches(m, f) == \A id \in DOMAIN m : id \in DOMAIN f /\ f[id].ref = m[id].ref

(* The slaves of new may be written over f: their references are new ones to    *)
(* standalone slaves outside new, or none, or old ones.                        *)
Acceptable(f, new) ==
  \A x \in DOMAIN new :
    \/ new[x].ref = None
    \/ /\ new[x].ref \in DOMAIN f \ DOMAIN new
       /\ f[new[x].ref].ref = None
    \/ x \in DOMAIN f /\ f[x].ref = new[x].ref

(* A reference that is written has the configuration of its root.             *)
Current(m, new) ==
  \A x \in DOMAIN new :
    new[x].ref # None =>
      /\ DOMAIN new = {x}
      /\ new[x].ref \in DOMAIN m \ {x} => new[x].conf = m[new[x].ref].conf

(***************************************************************************)
(* The operators on lists of slaves.                                        *)
(***************************************************************************)

(* Writing files keeps them files of slaves, with the references written.      *)
LEMMA PersistedRefs ==
  ASSUME NEW f, NEW new, IsSlaveList(f), IsSlaveList(new)
  PROVE  /\ IsSlaveList(PersistedIn(f, new))
         /\ DOMAIN PersistedIn(f, new) = DOMAIN f \cup DOMAIN new
         /\ \A x \in DOMAIN new : PersistedIn(f, new)[x].ref = new[x].ref
         /\ \A x \in DOMAIN f \ DOMAIN new : PersistedIn(f, new)[x].ref = f[x].ref
<1>1. \A s \in Slave : Persisted(s) \in Slave /\ Persisted(s).ref = s.ref
  BY DEF Persisted, Slave, Stripped, Configurations
<1> QED
  BY <1>1 DEF PersistedIn, IsSlaveList

(* The slaves in memory after a write, with their references.                 *)
LEMMA WrittenRefs ==
  ASSUME NEW m, NEW new, IsSlaveList(m), IsSlaveList(new)
  PROVE  /\ IsSlaveList(Written(m, new))
         /\ DOMAIN Written(m, new) = DOMAIN m \cup DOMAIN new
         /\ \A x \in DOMAIN new : Written(m, new)[x] = new[x]
         /\ \A x \in DOMAIN m \ DOMAIN new : Written(m, new)[x].ref = m[x].ref
  BY DEF Written, IsSlaveList, Slave

(* References to standalone slaves close no circle.                           *)
LEMMA PersistedAcyclic ==
  ASSUME NEW f, NEW new, IsSlaveList(f), IsSlaveList(new), Acyclic(f), Acceptable(f, new)
  PROVE  Acyclic(PersistedIn(f, new))
<1> DEFINE g == PersistedIn(f, new)
<1>1. /\ DOMAIN g = DOMAIN f \cup DOMAIN new
      /\ \A x \in DOMAIN new : g[x].ref = new[x].ref
      /\ \A x \in DOMAIN f \ DOMAIN new : g[x].ref = f[x].ref
  <2>1. DOMAIN g = DOMAIN f \cup DOMAIN new
    BY PersistedRefs
  <2>2. \A x \in DOMAIN new : g[x].ref = new[x].ref
    BY DEF PersistedIn, Persisted
  <2>3. \A x \in DOMAIN f \ DOMAIN new : g[x].ref = f[x].ref
    BY PersistedRefs
  <2> QED
    BY <2>1, <2>2, <2>3
<1>2. SUFFICES ASSUME NEW S \in SUBSET DOMAIN g, S # {}
               PROVE  \E id \in S : g[id].ref \notin S
  BY DEF Acyclic
<1> HIDE DEF g
<1>3. None \notin S
  BY <1>1, NoneAssumption DEF IsSlaveList
<1>4. CASE \E x \in S \cap DOMAIN new : new[x].ref = None
  BY <1>1, <1>3, <1>4
<1>5. CASE \E x \in S \cap DOMAIN new :
              new[x].ref \in DOMAIN f \ DOMAIN new /\ f[new[x].ref].ref = None
  <2>1. PICK x \in S \cap DOMAIN new :
               new[x].ref \in DOMAIN f \ DOMAIN new /\ f[new[x].ref].ref = None
    BY <1>5
  <2>2. CASE new[x].ref \in S
    BY <1>1, <1>3, <2>1, <2>2
  <2>3. CASE new[x].ref \notin S
    BY <1>1, <2>1, <2>3
  <2> QED
    BY <2>2, <2>3
<1>6. CASE \A x \in S \cap DOMAIN new : x \in DOMAIN f /\ f[x].ref = new[x].ref
  <2>1. S \in (SUBSET DOMAIN f) \ {{}}
    BY <1>1, <1>2, <1>6
  <2>2. \A x \in S : g[x].ref = f[x].ref
    BY <1>1, <1>6, <2>1
  <2> QED
    BY <2>1, <2>2 DEF Acyclic
<1> QED
  BY <1>4, <1>5, <1>6 DEF Acceptable

(* A part of the slaves has no circle the whole has not.                      *)
LEMMA PartAcyclic ==
  ASSUME NEW m, NEW f, Matches(m, f), Acyclic(f)
  PROVE  Acyclic(m)
  BY DEF Matches, Acyclic

LEMMA WrittenFollows ==
  ASSUME NEW m, NEW new, IsSlaveList(m), IsSlaveList(new), Follows(m), Current(m, new)
  PROVE  Follows(Written(m, new))
<1> DEFINE w == Written(m, new)
<1>1. /\ DOMAIN w = DOMAIN m \cup DOMAIN new
      /\ \A x \in DOMAIN new : w[x] = new[x]
      /\ \A x \in DOMAIN m \ DOMAIN new : w[x].ref = m[x].ref
  <2>1. DOMAIN w = DOMAIN m \cup DOMAIN new
    BY WrittenRefs
  <2>2. \A x \in DOMAIN new : w[x] = new[x]
    BY DEF Written
  <2>3. \A x \in DOMAIN m \ DOMAIN new : w[x].ref = m[x].ref
    BY WrittenRefs
  <2> QED
    BY <2>1, <2>2, <2>3
<1>2. \A x \in DOMAIN m \ DOMAIN new :
        IF m[x].ref \in DOMAIN new /\ new[m[x].ref].ref = None
          THEN w[x].conf = new[m[x].ref].conf
          ELSE w[x] = m[x]
  BY DEF Written
<1>3. None \notin DOMAIN w
  BY <1>1, NoneAssumption DEF IsSlaveList
<1> HIDE DEF w
<1>4. SUFFICES ASSUME NEW id \in DOMAIN w, w[id].ref \in DOMAIN w, w[w[id].ref].ref = None
               PROVE  w[id].conf = w[w[id].ref].conf
  BY DEF Follows, w
<1>5. CASE id \in DOMAIN new
  <2>1. new[id].ref # None /\ new[id].ref # id
    BY <1>1, <1>3, <1>4, <1>5
  <2>2. /\ DOMAIN new = {id}
        /\ new[id].ref \in DOMAIN m \ {id}
        /\ new[id].conf = m[new[id].ref].conf
    BY <1>1, <1>4, <1>5, <2>1 DEF Current
  <2>3. w[new[id].ref] = m[new[id].ref]
    BY <1>2, <2>1, <2>2
  <2> QED
    BY <1>1, <1>5, <2>2, <2>3
<1>6. CASE id \notin DOMAIN new /\ m[id].ref \in DOMAIN new
  BY <1>1, <1>2, <1>4, <1>6
<1>7. CASE id \notin DOMAIN new /\ m[id].ref \notin DOMAIN new
  <2>1. w[id] = m[id] /\ m[id].ref \in DOMAIN m
    BY <1>1, <1>2, <1>4, <1>7
  <2>2. m[m[id].ref].ref = None
    BY <1>1, <1>4, <1>7, <2>1
  <2>3. w[m[id].ref] = m[m[id].ref]
    BY <1>1, <1>2, <1>3, <1>7, <2>1, <2>2
  <2>4. m[id].conf = m[m[id].ref].conf
    BY <1>1, <1>4, <1>7, <2>1, <2>2 DEF Follows
  <2> QED
    BY <2>1, <2>3, <2>4
<1> QED
  BY <1>5, <1>6, <1>7
(***************************************************************************)
(* The inductive invariant.                                                 *)
(***************************************************************************)

IInv == TypeOK /\ NoCycles /\ FollowsRoot

(* What a write does to the files and the slaves in memory.                   *)
LEMMA WriteKeepsTypes ==
  ASSUME NEW m, NEW f, NEW new,
         IsSlaveList(m), IsSlaveList(f), IsSlaveList(new), Matches(m, f)
  PROVE  /\ IsSlaveList(Written(m, new))
         /\ IsSlaveList(PersistedIn(f, new))
         /\ Matches(Written(m, new), PersistedIn(f, new))
<1>1. IsSlaveList(Written(m, new))
  BY WrittenRefs
<1>2. IsSlaveList(PersistedIn(f, new))
  BY PersistedRefs
<1>3. Matches(Written(m, new), PersistedIn(f, new))
  BY DEF Matches, Written, PersistedIn, Persisted
<1> QED
  BY <1>1, <1>2, <1>3

(* Deleting a slave from memory, and its file or not.                         *)
LEMMA WithoutKeepsTypes ==
  ASSUME NEW m, NEW f, NEW id, IsSlaveList(m), IsSlaveList(f), Matches(m, f)
  PROVE  /\ IsSlaveList(Without(m, id))
         /\ IsSlaveList(Without(f, id))
         /\ Matches(Without(m, id), f)
         /\ Matches(Without(m, id), Without(f, id))
  BY DEF Without, IsSlaveList, Matches

LEMMA WithoutAcyclic ==
  ASSUME NEW f, NEW id, Acyclic(f)
  PROVE  Acyclic(Without(f, id))
<1>1. Matches(Without(f, id), f)
  BY DEF Matches, Without
<1> QED
  BY <1>1, PartAcyclic

(* Without a slave, the others follow their roots as before.                  *)
LEMMA WithoutFollows ==
  ASSUME NEW m, NEW id, Follows(m)
  PROVE  Follows(Without(m, id))
  BY DEF Follows, Without

(* Reading files without circles puts slaves into memory that follow their    *)
(* roots.                                                                   *)
LEMMA StartPreserves ==
  ASSUME NEW f, IsSlaveList(f), Acyclic(f), StartWith(f)
  PROVE  IInv'
<1>1. PICK conf \in [Loaded(f) -> Configurations] :
        /\ \A id \in Loaded(f) : conf[id] = Materialized(f, conf, id)
        /\ slaves' = [id \in Loaded(f) |-> [ref |-> f[id].ref, conf |-> conf[id]]]
  BY DEF StartWith
<1>2. files' = f /\ Loaded(f) \subseteq DOMAIN f
  BY DEF StartWith, Loaded
<1>3. IsSlaveList(slaves') /\ Matches(slaves', f)
  BY <1>1, <1>2 DEF IsSlaveList, Slave, Matches
<1>4. TypeOK'
  BY <1>2, <1>3 DEF TypeOK, Matches
<1>5. NoCycles'
  BY <1>2, <1>3, PartAcyclic DEF NoCycles
<1>6. Follows(slaves')
  <2>1. SUFFICES ASSUME NEW id \in Loaded(f), f[id].ref \in Loaded(f), f[f[id].ref].ref = None
                 PROVE  conf[id] = conf[f[id].ref]
    BY <1>1 DEF Follows
  <2>2. f[id].ref # None
    BY <1>2, <2>1, NoneAssumption DEF IsSlaveList
  <2>3. conf[f[id].ref] = f[f[id].ref].conf
    BY <1>1, <2>1 DEF Materialized
  <2> QED
    BY <1>1, <2>1, <2>2, <2>3 DEF Materialized
<1> QED
  BY <1>4, <1>5, <1>6 DEF IInv, FollowsRoot

LEMMA WritePreserves ==
  ASSUME IInv, NEW new, IsSlaveList(new),
         Acceptable(files, new), Current(slaves, new), WriteSlaves(new)
  PROVE  IInv'
<1>1. /\ slaves' = Written(slaves, new)
      /\ files' = PersistedIn(files, new)
      /\ IsSlaveList(slaves) /\ IsSlaveList(files) /\ Matches(slaves, files)
  BY DEF WriteSlaves, IInv, TypeOK, Matches
<1>2. IsSlaveList(slaves') /\ IsSlaveList(files') /\ Matches(slaves', files')
  BY <1>1, WriteKeepsTypes
<1>3. Acyclic(files')
  BY <1>1, PersistedAcyclic DEF IInv, NoCycles
<1>4. Acyclic(slaves')
  BY <1>2, <1>3, PartAcyclic
<1>5. Follows(slaves')
  BY <1>1, WrittenFollows DEF IInv, FollowsRoot
<1> QED
  BY <1>2, <1>3, <1>4, <1>5 DEF IInv, TypeOK, NoCycles, FollowsRoot, Matches

(***************************************************************************)
(* The actions.                                                             *)
(***************************************************************************)

LEMMA OneWritten ==
  ASSUME IInv, NEW id \in Ids, NEW s \in Slave,
         MayReference(id, s.ref) \/ (id \in DOMAIN slaves /\ slaves[id].ref = s.ref),
         WriteSlaves([x \in {id} |-> Resolved(s)])
  PROVE  IInv'
<1>1. IsSlaveList(slaves) /\ IsSlaveList(files) /\ Matches(slaves, files)
  BY DEF IInv, TypeOK, Matches
<1>2. PICK r : r = Resolved(s)
  OBVIOUS
<1>3. r \in Slave /\ r.ref = s.ref
  BY <1>1, <1>2 DEF Resolved, IsSlaveList, Slave, Stripped, Configurations
<1>4. PICK new : new = [x \in {id} |-> r]
  OBVIOUS
<1>5. IsSlaveList(new)
  BY <1>3, <1>4 DEF IsSlaveList
<1>6. Acceptable(files, new)
  BY <1>1, <1>3, <1>4, NoneAssumption DEF Acceptable, MayReference, Matches
<1>7. Current(slaves, new)
  BY <1>2, <1>3, <1>4 DEF Current, Resolved
<1>8. WriteSlaves(new)
  BY <1>2, <1>4
<1> QED
  BY <1>5, <1>6, <1>7, <1>8, WritePreserves

(* Standalone slaves may be written in any number.                            *)
LEMMA StandaloneWritten ==
  ASSUME NEW f, NEW m, NEW new, \A x \in DOMAIN new : new[x].ref = None
  PROVE  Acceptable(f, new) /\ Current(m, new)
  BY DEF Acceptable, Current

LEMMA ClearedSlaves ==
  ASSUME IInv, NEW spec \in Specs, NEW S \in SUBSET Users(spec)
  PROVE  /\ IsSlaveList([x \in S |-> Cleared(x)])
         /\ \A x \in S : Cleared(x).ref = None
<1>1. \A x \in S : x \in Ids /\ slaves[x] \in Slave
  BY DEF IInv, TypeOK, IsSlaveList, Users
<1>2. \A x \in S : Cleared(x) \in Slave /\ Cleared(x).ref = None
  BY <1>1 DEF Cleared, Slave, Configurations
<1> QED
  BY <1>1, <1>2 DEF IsSlaveList

LEMMA DetachedSlaves ==
  ASSUME IInv, NEW S \in SUBSET DOMAIN slaves
  PROVE  /\ IsSlaveList([x \in S |-> Detached(x)])
         /\ \A x \in S : Detached(x).ref = None
<1>1. \A x \in S : x \in Ids /\ slaves[x] \in Slave
  BY DEF IInv, TypeOK, IsSlaveList
<1>2. \A x \in S : Detached(x) \in Slave /\ Detached(x).ref = None
  BY <1>1 DEF Detached, Slave
<1> QED
  BY <1>1, <1>2 DEF IsSlaveList

(* The process starts with files that standalone slaves were written to.       *)
LEMMA CrashPreserves ==
  ASSUME IInv, NEW new, IsSlaveList(new), \A x \in DOMAIN new : new[x].ref = None,
         StartWith(PersistedIn(files, new))
  PROVE  IInv'
<1>1. IsSlaveList(files) /\ Acyclic(files)
  BY DEF IInv, TypeOK, NoCycles
<1>2. Acceptable(files, new)
  BY StandaloneWritten
<1>3. PICK f : f = PersistedIn(files, new)
  OBVIOUS
<1>4. IsSlaveList(f)
  BY <1>1, <1>3, PersistedRefs
<1>5. Acyclic(f)
  BY <1>1, <1>2, <1>3, PersistedAcyclic
<1>6. StartWith(f)
  BY <1>3
<1> QED
  BY <1>4, <1>5, <1>6, StartPreserves

LEMMA DeletePreserves ==
  ASSUME IInv, NEW id \in Ids, NEW detach \in BOOLEAN, DeleteSlave(id, detach)
  PROVE  IInv'
<1>1. IsSlaveList(slaves) /\ IsSlaveList(files) /\ Matches(slaves, files)
  BY DEF IInv, TypeOK, Matches
<1>2. PICK S \in SUBSET DOMAIN slaves :
        S = IF detach THEN ReferencingSlaves(slaves, id) ELSE {}
  BY DEF ReferencingSlaves
<1>3. PICK new : new = [x \in S |-> Detached(x)]
  OBVIOUS
<1>4. IsSlaveList(new) /\ \A x \in DOMAIN new : new[x].ref = None
  BY <1>3, DetachedSlaves
<1>5. PICK m, f : m = Written(slaves, new) /\ f = PersistedIn(files, new)
  OBVIOUS
<1>6. slaves' = Without(m, id) /\ (files' = f \/ files' = Without(f, id))
  BY <1>2, <1>3, <1>5 DEF DeleteSlave
<1>7. IsSlaveList(m) /\ IsSlaveList(f) /\ Matches(m, f)
  BY <1>1, <1>4, <1>5, WriteKeepsTypes
<1>8. Acyclic(f) /\ Follows(m)
  BY <1>1, <1>4, <1>5, StandaloneWritten, PersistedAcyclic, WrittenFollows
     DEF IInv, NoCycles, FollowsRoot
<1>9. IsSlaveList(slaves') /\ IsSlaveList(files') /\ Matches(slaves', files')
  BY <1>6, <1>7, WithoutKeepsTypes
<1>10. Acyclic(files')
  BY <1>6, <1>8, WithoutAcyclic
<1>11. Acyclic(slaves')
  BY <1>9, <1>10, PartAcyclic
<1>12. Follows(slaves')
  BY <1>6, <1>8, WithoutFollows
<1> QED
  BY <1>9, <1>10, <1>11, <1>12 DEF IInv, TypeOK, NoCycles, FollowsRoot, Matches

LEMMA InitInvariant == Init => IInv
  BY DEF Init, IInv, TypeOK, IsSlaveList, NoCycles, Acyclic, FollowsRoot, Follows

LEMMA StepInvariant == IInv /\ [Next]_vars => IInv'
<1> SUFFICES ASSUME IInv, [Next]_vars
             PROVE  IInv'
  OBVIOUS
<1>1. ASSUME NEW id \in Ids, NEW s \in Slave, WriteSlave(id, s)
      PROVE  IInv'
  <2>1. MayReference(id, s.ref) \/ (id \in DOMAIN slaves /\ slaves[id].ref = s.ref)
    BY <1>1 DEF WriteSlave
  <2>2. WriteSlaves([x \in {id} |-> Resolved(s)])
    BY <1>1 DEF WriteSlave
  <2> QED
    BY <2>1, <2>2, OneWritten
<1>2. ASSUME NEW id \in Ids, NEW spec \in Specs, SaveSpecification(id, spec)
      PROVE  IInv'
  <2>1. PICK s : s = [ref |-> slaves[id].ref, conf |-> [spec |-> spec, poll |-> slaves[id].conf.poll]]
    OBVIOUS
  <2>2. s \in Slave /\ s.ref = slaves[id].ref /\ id \in DOMAIN slaves
    BY <1>2, <2>1 DEF SaveSpecification, IInv, TypeOK, IsSlaveList, Slave, Configurations
  <2>3. WriteSlaves([x \in {id} |-> Resolved(s)])
    BY <1>2, <2>1 DEF SaveSpecification
  <2> QED
    BY <2>2, <2>3, OneWritten
<1>3. ASSUME NEW spec \in Specs, DeleteSpecification(spec)
      PROVE  IInv'
  <2>1. PICK new : new = [x \in Users(spec) |-> Cleared(x)]
    OBVIOUS
  <2>2. IsSlaveList(new) /\ \A x \in DOMAIN new : new[x].ref = None
    BY <2>1, ClearedSlaves
  <2>3. WriteSlaves(new)
    BY <1>3, <2>1 DEF DeleteSpecification
  <2> QED
    BY <2>2, <2>3, StandaloneWritten, WritePreserves
<1>4. ASSUME NEW spec \in Specs, CrashWhileClearing(spec)
      PROVE  IInv'
  <2>1. PICK S \in SUBSET Users(spec) : StartWith(PersistedIn(files, [x \in S |-> Cleared(x)]))
    BY <1>4 DEF CrashWhileClearing
  <2>2. PICK new : new = [x \in S |-> Cleared(x)]
    OBVIOUS
  <2>3. IsSlaveList(new) /\ \A x \in DOMAIN new : new[x].ref = None
    BY <2>2, ClearedSlaves
  <2> QED
    BY <2>1, <2>2, <2>3, CrashPreserves
<1>5. ASSUME NEW id \in Ids, NEW detach \in BOOLEAN, DeleteSlave(id, detach)
      PROVE  IInv'
  BY <1>5, DeletePreserves
<1>6. ASSUME NEW id \in Ids, CrashWhileDetaching(id)
      PROVE  IInv'
  <2>1. PICK S \in SUBSET DOMAIN slaves : StartWith(PersistedIn(files, [x \in S |-> Detached(x)]))
    BY <1>6 DEF CrashWhileDetaching, ReferencingSlaves
  <2>2. PICK new : new = [x \in S |-> Detached(x)]
    OBVIOUS
  <2>3. IsSlaveList(new) /\ \A x \in DOMAIN new : new[x].ref = None
    BY <2>2, DetachedSlaves
  <2> QED
    BY <2>1, <2>2, <2>3, CrashPreserves
<1>7. CASE Restart
  <2>1. PICK f : f = files
    OBVIOUS
  <2>2. IsSlaveList(f) /\ Acyclic(f) /\ StartWith(f)
    BY <1>7, <2>1 DEF Restart, IInv, TypeOK, NoCycles
  <2> QED
    BY <2>2, StartPreserves
<1>8. CASE UNCHANGED vars
  BY <1>8 DEF vars, IInv, TypeOK, IsSlaveList, NoCycles, Acyclic, FollowsRoot, Follows
<1> QED
  BY <1>1, <1>2, <1>3, <1>4, <1>5, <1>6, <1>7, <1>8 DEF Next

LEMMA InvariantHolds == Spec => []IInv
  BY InitInvariant, StepInvariant, PTL DEF Spec

(***************************************************************************)
(* Configurations survive.                                                  *)
(***************************************************************************)

(* The file of a standalone slave holds what is in memory.                    *)
Stored(m, f) == \A id \in DOMAIN m : m[id].ref = None => f[id] = m[id]

LEMMA WrittenStored ==
  ASSUME NEW m, NEW f, NEW new,
         IsSlaveList(m), IsSlaveList(new), Matches(m, f), Stored(m, f)
  PROVE  Stored(Written(m, new), PersistedIn(f, new))
<1>1. None \notin DOMAIN new
  BY NoneAssumption DEF IsSlaveList
<1> QED
  BY <1>1 DEF Stored, Written, PersistedIn, Persisted, Matches

LEMMA StartStored ==
  ASSUME NEW f, IsSlaveList(f), StartWith(f)
  PROVE  Stored(slaves', files')
<1>1. PICK conf \in [Loaded(f) -> Configurations] :
        /\ \A id \in Loaded(f) : conf[id] = Materialized(f, conf, id)
        /\ slaves' = [id \in Loaded(f) |-> [ref |-> f[id].ref, conf |-> conf[id]]]
  BY DEF StartWith
<1>2. files' = f /\ Loaded(f) \subseteq DOMAIN f
  BY DEF StartWith, Loaded
<1>3. \A id \in Loaded(f) : f[id].ref = None => conf[id] = f[id].conf
  BY <1>1 DEF Materialized
<1>4. \A id \in Loaded(f) : f[id] = [ref |-> f[id].ref, conf |-> f[id].conf]
  BY <1>2 DEF IsSlaveList, Slave
<1> QED
  BY <1>1, <1>2, <1>3, <1>4 DEF Stored

SInv == IInv /\ Stored(slaves, files)

LEMMA StepStored == SInv /\ [Next]_vars => SInv'
<1> SUFFICES ASSUME SInv, [Next]_vars
             PROVE  Stored(slaves', files')
  BY StepInvariant DEF SInv
<1>1. IInv /\ IInv'
  BY StepInvariant DEF SInv
<1>2. IsSlaveList(slaves) /\ IsSlaveList(files) /\ Matches(slaves, files) /\ Stored(slaves, files)
  BY <1>1 DEF SInv, IInv, TypeOK, Matches
<1>3. IsSlaveList(files')
  BY <1>1 DEF IInv, TypeOK
<1>4. ASSUME NEW new, DOMAIN new \subseteq Ids, WriteSlaves(new)
      PROVE  Stored(slaves', files')
  <2>1. None \notin DOMAIN new
    BY <1>4, NoneAssumption
  <2> QED
    BY <1>2, <1>4, <2>1 DEF WriteSlaves, Stored, Written, PersistedIn, Persisted, Matches
<1>5. ASSUME NEW id \in Ids, NEW s \in Slave, WriteSlave(id, s)
      PROVE  Stored(slaves', files')
  <2>1. PICK new : new = [x \in {id} |-> Resolved(s)]
    OBVIOUS
  <2> QED
    BY <1>4, <1>5, <2>1 DEF WriteSlave
<1>6. ASSUME NEW id \in Ids, NEW spec \in Specs, SaveSpecification(id, spec)
      PROVE  Stored(slaves', files')
  <2>1. PICK s : s = [ref |-> slaves[id].ref,
                      conf |-> [spec |-> spec, poll |-> slaves[id].conf.poll]]
    OBVIOUS
  <2>2. PICK new : new = [x \in {id} |-> Resolved(s)]
    OBVIOUS
  <2> QED
    BY <1>4, <1>6, <2>1, <2>2 DEF SaveSpecification
<1>7. ASSUME NEW spec \in Specs, DeleteSpecification(spec)
      PROVE  Stored(slaves', files')
  <2>1. PICK new : new = [x \in Users(spec) |-> Cleared(x)]
    OBVIOUS
  <2>2. DOMAIN new \subseteq Ids
    BY <1>2, <2>1 DEF Users, IsSlaveList
  <2> QED
    BY <1>4, <1>7, <2>1, <2>2 DEF DeleteSpecification
<1>8. ASSUME NEW id \in Ids, NEW detach \in BOOLEAN, DeleteSlave(id, detach)
      PROVE  Stored(slaves', files')
  <2>1. PICK S \in SUBSET DOMAIN slaves :
          S = IF detach THEN ReferencingSlaves(slaves, id) ELSE {}
    BY DEF ReferencingSlaves
  <2>2. PICK new : new = [x \in S |-> Detached(x)]
    OBVIOUS
  <2>3. IsSlaveList(new)
    BY <1>1, <2>2, DetachedSlaves
  <2>4. PICK m, f : m = Written(slaves, new) /\ f = PersistedIn(files, new)
    OBVIOUS
  <2>5. Stored(m, f)
    BY <1>2, <2>3, <2>4, WrittenStored
  <2>6. slaves' = Without(m, id) /\ (files' = f \/ files' = Without(f, id))
    BY <1>8, <2>1, <2>2, <2>4 DEF DeleteSlave
  <2>7. DOMAIN m \subseteq DOMAIN f
    BY <1>2, <2>4 DEF Written, PersistedIn, Matches
  <2> QED
    BY <2>5, <2>6, <2>7 DEF Stored, Without
<1>9. ASSUME NEW f, files' = f, StartWith(f)
      PROVE  Stored(slaves', files')
  BY <1>3, <1>9, StartStored
<1>10. CASE \/ \E spec \in Specs : CrashWhileClearing(spec)
            \/ \E id \in Ids : CrashWhileDetaching(id)
            \/ Restart
  <2>1. PICK f : StartWith(f)
    BY <1>10 DEF CrashWhileClearing, CrashWhileDetaching, Restart
  <2>2. files' = f
    BY <2>1 DEF StartWith
  <2> QED
    BY <1>9, <2>1, <2>2
<1>11. CASE UNCHANGED vars
  BY <1>2, <1>11 DEF vars, Stored
<1> QED
  BY <1>5, <1>6, <1>7, <1>8, <1>10, <1>11 DEF Next

LEMMA StoredHolds == Spec => []SInv
<1>1. Init => SInv
  BY InitInvariant DEF SInv, Init, Stored
<1> QED
  BY <1>1, StepStored, PTL DEF Spec

(* What the files f must hold for the configuration of slave id to be read      *)
(* from them: its own or that of its standalone root.                         *)
HoldsConfiguration(f, id) ==
  \E x \in Loaded(f) :
    /\ f[x].ref = None
    /\ f[x].conf = slaves[id].conf
    /\ id \in Loaded(f) /\ (id = x \/ f[id].ref = x)

LEMMA StartKeeps ==
  ASSUME NEW f, IsSlaveList(f), StartWith(f), NEW id \in DOMAIN slaves, HoldsConfiguration(f, id)
  PROVE  Keeps(id)
<1>1. PICK conf \in [Loaded(f) -> Configurations] :
        /\ \A y \in Loaded(f) : conf[y] = Materialized(f, conf, y)
        /\ slaves' = [y \in Loaded(f) |-> [ref |-> f[y].ref, conf |-> conf[y]]]
  BY DEF StartWith
<1>2. PICK x \in Loaded(f) :
        /\ f[x].ref = None
        /\ f[x].conf = slaves[id].conf
        /\ id \in Loaded(f) /\ (id = x \/ f[id].ref = x)
  BY DEF HoldsConfiguration
<1>3. conf[x] = f[x].conf
  BY <1>1, <1>2 DEF Materialized
<1>4. x # None
  BY <1>2, NoneAssumption DEF IsSlaveList, Loaded
<1>5. conf[id] = slaves[id].conf
  BY <1>1, <1>2, <1>3, <1>4 DEF Materialized
<1> QED
  BY <1>1, <1>2, <1>5 DEF Keeps

(* The files of a configured slave hold its configuration, before and while it  *)
(* is detached.                                                             *)
LEMMA ConfigurationIsHeld ==
  ASSUME SInv, NEW id \in DOMAIN slaves, Configured(id), NEW x \in Ids,
         NEW S \in SUBSET ReferencingSlaves(slaves, x)
  PROVE  HoldsConfiguration(PersistedIn(files, [y \in S |-> Detached(y)]), id)
<1>1. IsSlaveList(slaves) /\ IsSlaveList(files) /\ Matches(slaves, files) /\ Stored(slaves, files)
  BY DEF SInv, IInv, TypeOK, Matches
<1>2. PICK f : f = PersistedIn(files, [y \in S |-> Detached(y)])
  OBVIOUS
<1>3. \A y \in DOMAIN files : y \in DOMAIN f /\ (y \notin S => f[y] = files[y])
  BY <1>2 DEF PersistedIn
<1>4. \A y \in S : y \in DOMAIN f /\ f[y].ref = None /\ f[y].conf = slaves[y].conf
  BY <1>2 DEF PersistedIn, Persisted, Detached
<1>5. \A y \in S : slaves[y].ref # None
  BY NoneAssumption DEF ReferencingSlaves
<1>6. CASE id \in S
  <2>1. id \in DOMAIN f /\ f[id].ref = None /\ f[id].conf = slaves[id].conf
    BY <1>4, <1>6
  <2>2. id \in Loaded(f)
    BY <2>1 DEF Loaded, Configured
  <2> QED
    BY <1>2, <2>1, <2>2 DEF HoldsConfiguration
<1>7. CASE id \notin S /\ Standalone(id)
  <2>1. f[id] = slaves[id] /\ id \in DOMAIN f
    BY <1>1, <1>3, <1>7 DEF Standalone, Stored, Matches
  <2>2. id \in Loaded(f) /\ f[id].ref = None /\ f[id].conf = slaves[id].conf
    BY <1>7, <2>1 DEF Loaded, Configured, Standalone
  <2> QED
    BY <1>2, <2>2 DEF HoldsConfiguration
<1>8. CASE id \notin S /\ ~Standalone(id)
  <2>1. PICK r : r = slaves[id].ref
    OBVIOUS
  <2>2. r \in DOMAIN slaves /\ slaves[r].ref = None
    BY <1>8, <2>1 DEF Configured, Standalone
  <2>3. slaves[id].conf = slaves[r].conf
    BY <2>1, <2>2 DEF SInv, IInv, FollowsRoot, Follows
  <2>4. f[r] = slaves[r] /\ r \in DOMAIN f
    BY <1>1, <1>3, <1>5, <2>2 DEF Stored, Matches
  <2>5. r \in Loaded(f) /\ f[r].ref = None /\ f[r].conf = slaves[id].conf
    BY <2>2, <2>3, <2>4 DEF Loaded, Configured
  <2>6. id \in DOMAIN f /\ f[id].ref = r
    BY <1>1, <1>3, <1>8, <2>1 DEF Matches
  <2>7. r # None
    BY <1>1, <2>2, NoneAssumption DEF IsSlaveList
  <2>8. id \in Loaded(f)
    BY <2>6, <2>7 DEF Loaded
  <2> QED
    BY <1>2, <2>5, <2>6, <2>8 DEF HoldsConfiguration
<1> QED
  BY <1>6, <1>7, <1>8

(***************************************************************************)
(* Theorems.                                                                *)
(***************************************************************************)

(* Types, and each slave in memory has its file with its reference.            *)
THEOREM TypeCorrect == Spec => []TypeOK
<1>1. IInv => TypeOK
  BY DEF IInv
<1> QED
  BY <1>1, InvariantHolds, PTL

(* No sequence of requests, crashes and leftover files makes slaves reference  *)
(* each other in a circle, for any number of slaves, although POST /slave       *)
(* looks at one end of a new reference only.                                 *)
THEOREM ReferencesAcyclic == Spec => []NoCycles
<1>1. IInv => NoCycles
  BY DEF IInv
<1> QED
  BY <1>1, InvariantHolds, PTL

(* A slave that references a slave that is no reference has its configuration,  *)
(* after any sequence of requests, crashes and restarts.                      *)
THEOREM RootIsFollowed == Spec => []FollowsRoot
<1>1. IInv => FollowsRoot
  BY DEF IInv
<1> QED
  BY <1>1, InvariantHolds, PTL

(* No slave loses the file it takes its configuration from while it references  *)
(* it, whatever is deleted and wherever the process crashes.                  *)
THEOREM NobodyOrphaned == Spec => NoSlaveIsOrphaned
<1> DEFINE Kept ==
      \A id \in DOMAIN slaves :
        LET root == slaves[id].ref
        IN  root \in DOMAIN files /\ id \in DOMAIN slaves' /\ slaves'[id].ref = root
              => root \in DOMAIN files'
<1>1. IInv /\ [Next]_vars => Kept
  <2> SUFFICES ASSUME IInv, [Next]_vars
               PROVE  Kept
    OBVIOUS
  <2>1. CASE DOMAIN files \subseteq DOMAIN files'
    BY <2>1
  <2>2. ASSUME NEW x \in Ids, NEW detach \in BOOLEAN, DeleteSlave(x, detach)
        PROVE  Kept
    <3>1. SUFFICES ASSUME NEW id \in DOMAIN slaves, id \in DOMAIN slaves',
                          slaves[id].ref \in DOMAIN files, slaves'[id].ref = slaves[id].ref
                   PROVE  slaves[id].ref \in DOMAIN files'
      OBVIOUS
    <3>2. slaves[id].ref # None
      BY <3>1, NoneAssumption DEF IInv, TypeOK, IsSlaveList
    <3>3. slaves[id].ref # x
      <4>1. SUFFICES ASSUME slaves[id].ref = x
                     PROVE  FALSE
        OBVIOUS
      <4>2. id \in ReferencingSlaves(slaves, x) /\ detach
        BY <2>2, <4>1 DEF DeleteSlave, MayDelete, ReferencingSlaves
      <4>3. slaves'[id].ref = None
        BY <2>2, <3>1, <4>2 DEF DeleteSlave, Without, Written, Detached
      <4> QED
        BY <3>1, <3>2, <4>3
    <3> QED
      BY <2>2, <3>1, <3>3 DEF DeleteSlave, Without, PersistedIn
  <2>5. CASE Restart \/ UNCHANGED vars
    BY <2>1, <2>5 DEF Restart, StartWith, vars
  <2>6. CASE \E id \in Ids, s \in Slave : WriteSlave(id, s)
    BY <2>1, <2>6 DEF WriteSlave, WriteSlaves, PersistedIn
  <2>7. CASE \E id \in Ids, spec \in Specs : SaveSpecification(id, spec)
    BY <2>1, <2>7 DEF SaveSpecification, WriteSlaves, PersistedIn
  <2>8. CASE \E spec \in Specs : DeleteSpecification(spec)
    BY <2>1, <2>8 DEF DeleteSpecification, WriteSlaves, PersistedIn
  <2>9. CASE \E spec \in Specs : CrashWhileClearing(spec)
    BY <2>1, <2>9 DEF CrashWhileClearing, StartWith, PersistedIn
  <2>10. CASE \E id \in Ids : CrashWhileDetaching(id)
    BY <2>1, <2>10 DEF CrashWhileDetaching, StartWith, PersistedIn
  <2> QED
    BY <2>2, <2>5, <2>6, <2>7, <2>8, <2>9, <2>10 DEF Next
<1>2. IInv /\ [Next]_vars => [Kept]_vars
  BY <1>1
<1> QED
  BY <1>2, InvariantHolds, PTL DEF Spec, NoSlaveIsOrphaned

(* A configured slave keeps its configuration over a restart, and over the      *)
(* deletion of another slave, even one it references and even if the process    *)
(* crashes on the way.                                                       *)
THEOREM NothingForgotten == Spec => ConfigurationSurvives
<1> DEFINE Survives ==
      /\ Restart => \A id \in DOMAIN slaves : Configured(id) => Keeps(id)
      /\ \A x \in Ids :
           (\E detach \in BOOLEAN : DeleteSlave(x, detach)) \/ CrashWhileDetaching(x)
             => \A id \in DOMAIN slaves \ {x} : Configured(id) => Keeps(id)
<1>1. SInv => Survives
  <2> SUFFICES ASSUME SInv
               PROVE  Survives
    OBVIOUS
  <2>1. IsSlaveList(slaves) /\ IsSlaveList(files) /\ Matches(slaves, files)
    BY DEF SInv, IInv, TypeOK, Matches
  <2>2. ASSUME NEW x \in Ids, NEW S \in SUBSET ReferencingSlaves(slaves, x),
               StartWith(PersistedIn(files, [y \in S |-> Detached(y)])),
               NEW id \in DOMAIN slaves, Configured(id)
        PROVE  Keeps(id)
    <3>1. PICK new : new = [y \in S |-> Detached(y)]
      OBVIOUS
    <3>2. IsSlaveList(new)
      BY <3>1, DetachedSlaves DEF SInv, ReferencingSlaves
    <3>3. PICK f : f = PersistedIn(files, new)
      OBVIOUS
    <3>4. IsSlaveList(f)
      BY <2>1, <3>2, <3>3, PersistedRefs
    <3>5. HoldsConfiguration(f, id)
      BY <2>2, <3>1, <3>3, ConfigurationIsHeld
    <3>6. StartWith(f)
      BY <2>2, <3>1, <3>3
    <3> QED
      BY <3>4, <3>5, <3>6, StartKeeps
  <2>3. ASSUME Restart, NEW id \in DOMAIN slaves, Configured(id)
        PROVE  Keeps(id)
    <3>1. PICK f : f = files
      OBVIOUS
    <3>2. PICK g : g = PersistedIn(files, [y \in {} |-> Detached(y)])
      OBVIOUS
    <3>3. HoldsConfiguration(f, id)
      <4>1. DOMAIN g = DOMAIN f /\ \A y \in DOMAIN f : g[y] = f[y]
        BY <3>1, <3>2 DEF PersistedIn
      <4>2. id \in Ids /\ {} \in SUBSET ReferencingSlaves(slaves, id)
        BY <2>1 DEF IsSlaveList
      <4>3. HoldsConfiguration(g, id)
        BY <2>3, <3>2, <4>2, ConfigurationIsHeld
      <4> QED
        BY <4>1, <4>3 DEF HoldsConfiguration, Loaded
    <3>4. IsSlaveList(f) /\ StartWith(f)
      BY <2>1, <2>3, <3>1 DEF Restart
    <3> QED
      BY <3>3, <3>4, StartKeeps
  <2>4. ASSUME NEW x \in Ids, NEW detach \in BOOLEAN, DeleteSlave(x, detach),
               NEW id \in DOMAIN slaves \ {x}, Configured(id)
        PROVE  Keeps(id)
    <3>1. PICK S \in SUBSET ReferencingSlaves(slaves, x) :
            S = IF detach THEN ReferencingSlaves(slaves, x) ELSE {}
      OBVIOUS
    <3>2. PICK new : new = [y \in S |-> Detached(y)]
      OBVIOUS
    <3>3. slaves' = Without(Written(slaves, new), x)
      BY <2>4, <3>1, <3>2 DEF DeleteSlave
    <3>4. id \in DOMAIN slaves' /\ slaves'[id] = Written(slaves, new)[id]
      BY <3>3 DEF Without, Written
    <3>5. CASE id \in S
      BY <3>2, <3>4, <3>5 DEF Written, Detached, Keeps
    <3>6. CASE id \notin S
      <4>1. slaves[id].ref \notin S
        BY <2>1, <2>4, <3>1, NoneAssumption
           DEF Configured, Standalone, ReferencingSlaves, IsSlaveList
      <4> QED
        BY <3>2, <3>4, <3>6, <4>1 DEF Written, Keeps
    <3> QED
      BY <3>5, <3>6
  <2> QED
    BY <2>2, <2>3, <2>4 DEF CrashWhileDetaching
<1>2. SInv /\ [Next]_vars => [Survives]_vars
  BY <1>1
<1> QED
  BY <1>2, StoredHolds, PTL DEF Spec, ConfigurationSurvives
=============================================================================
