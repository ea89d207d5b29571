----------------------------- MODULE SlaveCards -----------------------------
(***************************************************************************)
(* SlaveCards: the page with the slaves of one bus, a card each, and the        *)
(* slaves the server has stored.  A card shows a copy of its slave and a form   *)
(* over it; its specification comes later, and fills the list of the entities   *)
(* that are announced.  The slave stores the others.                           *)
(*                                                                           *)
(* Requests reach the server as they are sent; their answers come in any        *)
(* order, and go to the card they were sent for though the page may have        *)
(* replaced it.                                                             *)
(***************************************************************************)
EXTENDS Naturals, Sequences, FiniteSets, SequencesExt, FiniteSetsExt

CONSTANTS
  Ids,         \* slave ids
  Specs,       \* specifications
  EntitiesOf,  \* the entities of each
  None,        \* undefined
  Beginnings,  \* what the server may have stored when the page is opened
  MaxCards,    \* bound: cards that are made
  MaxSteps,    \* bound: steps of the user
  MaxRequests  \* bound: requests under way

SlaveType ==
  [ref : Ids \cup {None}, spec : Specs \cup {None},
   hidden : SUBSET UNION {EntitiesOf[s] : s \in Specs}]

(* No slave is orphaned when the page is opened.                                  *)
CardsAssumption ==
  /\ Ids \subseteq Nat /\ IsFiniteSet(Ids)
  /\ None \notin Ids /\ None \notin Specs
  /\ \A s \in Beginnings :
       /\ DOMAIN s \subseteq Ids
       /\ \A id \in DOMAIN s : s[id] \in SlaveType /\ s[id].ref \in DOMAIN s \cup {None}

VARIABLES
  stored,   \* the slaves on the server
  cards,    \* every IuiSlave that was made; replaced ones are not listed
  forms,    \* their slaveForms
  cache,    \* specCache
  requests, \* requests under way, with their answers
  steps     \* history: the steps of the user

vars == <<stored, cards, forms, cache, requests, steps>>

(* Islave: noDiscoverEntities is hidden.                                        *)
Slave(ref, spec, hidden) == [ref |-> ref, spec |-> spec, hidden |-> hidden]

IsReference(slave) == slave.ref # None

(***************************************************************************)
(* The server.                                                              *)
(***************************************************************************)

(* A slave as it is sent: a reference with what it takes from its root.            *)
Sent(db, id) ==
  LET s == db[id]
  IN  IF IsReference(s) /\ s.ref \in DOMAIN db
        THEN Slave(s.ref, db[s.ref].spec, db[s.ref].hidden) ELSE s

(* Of a reference only the fields of its own are kept.                             *)
Kept(slave) == IF IsReference(slave) THEN Slave(slave.ref, None, {}) ELSE slave

MayStore(id, slave) ==
  IsReference(slave) => slave.ref \in DOMAIN stored \ {id} /\ ~IsReference(stored[slave.ref])

WithSlave(id, slave) == [x \in DOMAIN stored \cup {id} |-> IF x = id THEN Kept(slave) ELSE stored[x]]

References(id) == {x \in DOMAIN stored : stored[x].ref = id}

(* Deleting a slave detaches its references.                                     *)
WithoutSlave(id) ==
  [x \in DOMAIN stored \ {id} |->
     IF stored[x].ref = id THEN Slave(None, stored[id].spec, stored[id].hidden) ELSE stored[x]]

(***************************************************************************)
(* Requests.  wanted is history: the announced entities the user saw on saving.   *)
(***************************************************************************)

Request(kind, id, slave, wanted) == [kind |-> kind, id |-> id, slave |-> slave, wanted |-> wanted]

(* postSlave, beside the requests others: nothing comes back when it is refused.     *)
Post(id, slave, kind, wanted, others) ==
  IF ~MayStore(id, slave) THEN requests' = others /\ UNCHANGED stored
  ELSE /\ stored' = WithSlave(id, slave)
       /\ requests' = others \cup {Request(kind, id, Sent(stored', id), wanted)}

ListRequest(db) == [kind |-> "list", slaves |-> [id \in DOMAIN db |-> Sent(db, id)]]

(* deleteSlave: 409 while others reference it, then once more with the user's consent. *)
PostDelete(id, detach, others) ==
  IF References(id) # {} /\ ~detach
    THEN requests' = others \cup {[kind |-> "conflict", id |-> id]} /\ UNCHANGED stored
    ELSE /\ stored' = WithoutSlave(id)
         /\ requests' = others \cup {[kind |-> "deleted", id |-> id]}

(***************************************************************************)
(* A specification reaches a card.                                            *)
(***************************************************************************)

(* buildDiscoverEntityList.  of is history: the specification it lists.             *)
Listing(form, card) ==
  [form EXCEPT !.chosen = EntitiesOf[card.has] \ card.slave.hidden, !.of = card.has]

(* Mutant: what was hidden before stays so.                                       *)
HiddenKept(hidden, spec, then, chosen) ==
  IF then = "save" THEN hidden \cup (EntitiesOf[spec] \ chosen) ELSE hidden

(* noDiscoverEntities, as the callbacks leave it.                                 *)
Hidden(hidden, spec, then, chosen) ==
  CASE then = "show"   -> hidden
    [] then = "change" -> {}
    [] then = "save"   -> EntitiesOf[spec] \ chosen

(* It is here: the callback of addSpecificationToUiSlave for card k.                *)
Reaches(k, card, spec, then, chosen, wanted, others) ==
  LET c == [card EXCEPT !.has = spec, !.slave.hidden = Hidden(@, spec, then, chosen)]
  IN  /\ cards' = [cards EXCEPT ![k] = c]
      /\ cache' = cache \cup {spec}
      /\ IF then = "save"
           THEN Post(c.id, c.slave, "saved", wanted, others) /\ UNCHANGED forms
           ELSE /\ forms' = [forms EXCEPT ![c.form] = Listing(@, c)]
                /\ requests' = others
                /\ UNCHANGED stored

SpecRequest(k, spec, then, chosen, wanted) ==
  [kind |-> "spec", card |-> k, spec |-> spec, then |-> then, chosen |-> chosen, wanted |-> wanted]

(* addSpecificationToUiSlave for card k, which has become card.                     *)
AddSpecification(k, card, then, chosen, wanted) ==
  IF card.slave.spec \in cache
    THEN Reaches(k, card, card.slave.spec, then, chosen, wanted, requests)
    ELSE /\ cards' = [cards EXCEPT ![k] = card]
         /\ requests' = requests \cup {SpecRequest(k, card.slave.spec, then, chosen, wanted)}
         /\ UNCHANGED <<stored, forms, cache>>

(***************************************************************************)
(* The list of cards.                                                       *)
(***************************************************************************)

Shown == {k \in DOMAIN cards : cards[k].listed}

(* getUiSlave: the form of a reference has its own fields only.                     *)
Form(slave) ==
  LET full == ~IsReference(slave)
      here == full /\ slave.spec \in cache
  IN  [full |-> full, touched |-> FALSE, spec |-> IF full THEN slave.spec ELSE None,
       chosen |-> IF here THEN EntitiesOf[slave.spec] \ slave.hidden ELSE {},
       of |-> IF here THEN slave.spec ELSE None]

Card(id, slave, key) ==
  [id |-> id, slave |-> slave, form |-> key, listed |-> TRUE,
   has |-> IF ~IsReference(slave) /\ slave.spec \in cache THEN slave.spec ELSE None]

Unlisted(ks) == [k \in DOMAIN cards |-> [cards[k] EXCEPT !.listed = @ /\ k \notin ks]]

(* The numbers of S from the lowest to the highest.                              *)
Ascending(S) ==
  CHOOSE q \in [1 .. Cardinality(S) -> S] : \A i, j \in 1 .. Cardinality(S) : i < j => q[i] < q[j]

(* New cards for the slaves of answer take the place of the cards ks.               *)
Show(answer, ks, others) ==
  LET ids == Ascending(DOMAIN answer)
      n == Len(cards)
      missing == {i \in DOMAIN ids : ~IsReference(answer[ids[i]])
                                       /\ answer[ids[i]].spec \notin cache \cup {None}}
  IN  /\ cards' = Unlisted(ks) \o [i \in DOMAIN ids |-> Card(ids[i], answer[ids[i]], Len(forms) + i)]
      /\ forms' = forms \o [i \in DOMAIN ids |-> Form(answer[ids[i]])]
      /\ requests' = others \cup
           {SpecRequest(n + i, answer[ids[i]].spec, "show", {}, None) : i \in missing}
      /\ UNCHANGED <<stored, cache>>

(* findIndex: the first card of slave id, if there is one.                          *)
First(id) == LET ks == {k \in Shown : cards[k].id = id} IN IF ks = {} THEN {} ELSE {Min(ks)}

(* updateUiSlaveData: the form and all else of the card stays.                       *)
ShowData(r, others) ==
  /\ requests' = others
  /\ IF First(r.id) = {} THEN UNCHANGED cards
     ELSE LET k == Min(First(r.id))
          IN  cards' = Append(Unlisted({k}), [cards[k] EXCEPT !.slave = r.slave, !.has = None])
  /\ UNCHANGED <<stored, cache, forms>>

(* A request is answered.                                                    *)
Arrive(r) ==
  LET others == requests \ {r}
  IN  CASE r.kind = "spec"     -> Reaches(r.card, cards[r.card], r.spec, r.then, r.chosen, r.wanted, others)
        [] r.kind = "list"     -> Show(r.slaves, Shown, others)
        [] r.kind = "saved"    -> Show([id \in {r.id} |-> r.slave], First(r.id), others)
        [] r.kind = "added"    -> Show([id \in {r.id} |-> r.slave], {}, others)
        [] r.kind = "polled"   -> ShowData(r, others)
        [] r.kind = "conflict" -> PostDelete(r.id, TRUE, others) /\ UNCHANGED <<cards, forms, cache>>
        [] r.kind = "deleted"  -> requests' = others \cup {ListRequest(stored)}
                                    /\ UNCHANGED <<stored, cards, forms, cache>>

(***************************************************************************)
(* The user, at card k.                                                     *)
(***************************************************************************)

FormOf(k) == forms[cards[k].form]

Touched(k, form) == forms' = [forms EXCEPT ![cards[k].form] = [form EXCEPT !.touched = TRUE]]

(* Any field that is not modelled.                                             *)
Touch(k) == Touched(k, FormOf(k)) /\ UNCHANGED <<stored, cards, cache, requests>>

(* discoverEntitiesList.                                                      *)
Choose(k) ==
  /\ FormOf(k).of # None
  /\ \E chosen \in SUBSET EntitiesOf[FormOf(k).of] : Touched(k, [FormOf(k) EXCEPT !.chosen = chosen])
  /\ UNCHANGED <<stored, cards, cache, requests>>

(* onSpecificationChange: a specification that is here replaces the list at once.     *)
ChangeSpecification(k, spec) ==
  /\ FormOf(k).full
  /\ FormOf(k).spec # spec
  /\ LET card == [cards[k] EXCEPT !.slave.spec = spec, !.has = IF spec = None THEN None ELSE @]
         form == [FormOf(k) EXCEPT !.spec = spec, !.touched = TRUE]
     IN  IF spec \in cache
           THEN /\ cards' = [cards EXCEPT ![k] = [card EXCEPT !.has = spec, !.slave.hidden = {}]]
                /\ forms' = [forms EXCEPT ![card.form] = Listing(form, cards'[k])]
                /\ UNCHANGED requests
           ELSE /\ cards' = [cards EXCEPT ![k] = card]
                /\ forms' = [forms EXCEPT ![card.form] = form]
                /\ requests' = IF spec = None THEN requests
                               ELSE requests \cup {SpecRequest(k, spec, "change", {}, None)}
  /\ UNCHANGED <<stored, cache>>

(* What the user sees announced: none of it while the list is of another specification. *)
Wanted(form) ==
  IF form.spec # None /\ form.of = form.spec THEN [spec |-> form.spec, chosen |-> form.chosen] ELSE None

(* saveSlave.  A detached reference whose answer is not here has no fields to save.    *)
Save(k) ==
  /\ FormOf(k).touched
  /\ LET card == cards[k]
         form == FormOf(k)
     IN  IF IsReference(card.slave) \/ form.spec = None
           THEN /\ IsReference(card.slave) \/ form.full
                /\ Post(card.id, card.slave, "saved", None, requests)
                /\ UNCHANGED <<cards, forms, cache>>
           ELSE AddSpecification(k, [card EXCEPT !.slave.spec = form.spec],
                                 "save", form.chosen, Wanted(form))

(* cancelSlave: back to the slave of the card.                                   *)
Cancel(k) ==
  /\ FormOf(k).touched
  /\ LET card == cards[k]
         form == [FormOf(k) EXCEPT !.touched = FALSE]
     IN  forms' = [forms EXCEPT ![card.form] =
                     IF IsReference(card.slave) \/ ~form.full THEN form
                     ELSE IF card.has = None
                       THEN [form EXCEPT !.spec = card.slave.spec, !.chosen = {}, !.of = None]
                       ELSE Listing([form EXCEPT !.spec = card.slave.spec], card)]
  /\ UNCHANGED <<stored, cards, cache, requests>>

(* pollSlave.                                                               *)
Poll(k) ==
  /\ ~FormOf(k).touched
  /\ cards[k].slave.spec # None
  /\ cards[k].id \in DOMAIN stored
  /\ requests' = requests \cup
       {Request("polled", cards[k].id, Sent(stored, cards[k].id), None)}
  /\ UNCHANGED <<stored, cards, forms, cache>>

(* detachSlave.                                                             *)
Detach(k) ==
  /\ ~FormOf(k).touched
  /\ IsReference(cards[k].slave)
  /\ cards' = [cards EXCEPT ![k].slave.ref = None]
  /\ Post(cards[k].id, cards'[k].slave, "saved", None, requests)
  /\ UNCHANGED <<forms, cache>>

Delete(k) ==
  /\ ~FormOf(k).touched
  /\ PostDelete(cards[k].id, FALSE, requests)
  /\ UNCHANGED <<cards, forms, cache>>

(* addSlave.                                                                *)
Add(id, ref) ==
  /\ First(id) = {}
  /\ ref \in {None} \cup {cards[k].id : k \in {x \in Shown : ~IsReference(cards[x].slave)}}
  /\ Post(id, Slave(ref, None, {}), "added", None, requests)
  /\ UNCHANGED <<cards, forms, cache>>

UserStep ==
  /\ steps < MaxSteps
  /\ steps' = steps + 1
  /\ Len(cards) < MaxCards
  /\ Cardinality(requests) < MaxRequests
  /\ \/ \E k \in Shown :
          \/ Touch(k) \/ Choose(k)
          \/ \E spec \in Specs \cup {None} : ChangeSpecification(k, spec)
          \/ Save(k) \/ Cancel(k) \/ Poll(k) \/ Detach(k) \/ Delete(k)
     \/ \E id \in Ids, ref \in Ids \cup {None} : Add(id, ref)

Answer ==
  /\ Len(cards) < MaxCards
  /\ \E r \in requests : Arrive(r)
  /\ UNCHANGED steps

Init ==
  /\ stored \in Beginnings
  /\ cards = <<>>
  /\ forms = <<>>
  /\ cache = {}
  /\ requests = {ListRequest(stored)}
  /\ steps = 0

Next == UserStep \/ Answer

Spec == Init /\ [][Next]_vars

(***************************************************************************)
(* Properties.                                                              *)
(***************************************************************************)

(* What the server has stored is what the user saw when saving: the specification of   *)
(* the form, and of its entities those are announced that the list showed selected,    *)
(* also after polls, cancelled edits and answers for cards that were replaced.  This   *)
(* is said of lists that were of this specification (saveSlave).                    *)
SavesWhatIsShown ==
  \A r \in requests : r.kind = "saved" /\ r.wanted # None =>
    /\ r.slave.spec = r.wanted.spec
    /\ EntitiesOf[r.slave.spec] \ r.slave.hidden = r.wanted.chosen \cap EntitiesOf[r.slave.spec]
=============================================================================
