----------------------------- MODULE EntityStore -----------------------------
(***************************************************************************)
(* What the entity-component World promises: a map from the handles of     *)
(* living entities to the values of their components.  A handle, once its  *)
(* entity is destroyed, never names an entity again.                       *)
(***************************************************************************)
CONSTANTS Components, Values, Default, Handles

VARIABLES store,     \* living handle -> component -> value
          issued     \* every handle createEntity has returned

vars == <<store, issued>>

Valuations == UNION {[mask -> Values] : mask \in SUBSET Components}

TypeOK == /\ issued \subseteq Handles
          /\ \E living \in SUBSET issued : store \in [living -> Valuations]

Init == /\ store = [h \in {} |-> {}]
        /\ issued = {}

Create == \E h \in Handles \ issued :
             /\ issued' = issued \union {h}
             /\ store' = [k \in DOMAIN store \union {h} |->
                             IF k = h THEN [c \in {} |-> Default] ELSE store[k]]

Destroy(h) == /\ h \in DOMAIN store
              /\ store' = [k \in DOMAIN store \ {h} |-> store[k]]
              /\ UNCHANGED issued

Put(h, c, v) == /\ h \in DOMAIN store
                /\ store' = [store EXCEPT ![h] =
                       [k \in DOMAIN @ \union {c} |-> IF k = c THEN v ELSE @[k]]]
                /\ UNCHANGED issued

Take(h, c) == /\ h \in DOMAIN store /\ c \in DOMAIN store[h]
              /\ store' = [store EXCEPT ![h] = [k \in DOMAIN @ \ {c} |-> @[k]]]
              /\ UNCHANGED issued

Next == \/ Create
        \/ \E h \in DOMAIN store :
              \/ Destroy(h)
              \/ \E c \in Components : Take(h, c) \/ \E v \in Values : Put(h, c, v)

Spec == Init /\ [][Next]_vars
==============================================================================
