------------------------------ MODULE MCNetplay ------------------------------
(* The spawn points of the checked instance of Netplay.                    *)
EXTENDS Netplay
TwoPoints == {[x |-> 0, team |-> 0, radius |-> 1, priority |-> 1],
              [x |-> 3, team |-> 1, radius |-> 1, priority |-> 0]}
==============================================================================
