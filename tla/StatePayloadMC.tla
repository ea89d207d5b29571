--------------------------- MODULE StatePayloadMC ---------------------------
(* Three entities in every order, with names that do and do not conflict.  *)
EXTENDS StatePayload

Entity(path, variable, push, select) ==
  [path |-> path, variable |-> variable, push |-> push, select |-> select]

Names == {<<"a">>, <<"a", "b">>, <<"a", "d">>, <<"a", "0", "b">>, <<"0", "b">>, <<"a", "9999">>, <<"c">>}

ThreeEntities ==
  {[entities |-> <<Entity(p, FALSE, TRUE, FALSE), Entity(q, FALSE, TRUE, TRUE), Entity(r, r = <<"c">>, FALSE, FALSE)>>,
    root |-> IF mqtt THEN <<>> ELSE <<"a">>,
    placeholders |-> IF mqtt THEN {} ELSE {<<"c">>, <<"pollDate">>},
    mqtt |-> mqtt] :
     p \in Names, q \in Names, r \in Names, mqtt \in BOOLEAN}
=============================================================================
