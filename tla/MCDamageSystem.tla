---------------------------- MODULE MCDamageSystem ----------------------------
(* One bare target and one whose shield absorbs half of the damage.        *)
EXTENDS DamageSystem

CONSTANTS bare, shielded

MCTargets == {bare, shielded}
MCShield  == [t \in MCTargets |-> IF t = bare THEN 0 ELSE 50]
==============================================================================
