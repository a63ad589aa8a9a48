---------------------------- MODULE MCPhysicsWorld ----------------------------
(* The bodies and entities of the checked instance of PhysicsWorld.        *)
EXTENDS PhysicsWorld
Shape(k, r, h, off) == [kind |-> k, r |-> r, h |-> h, off |-> off]
Floor == [type |-> "static", mass |-> 0, enabled |-> TRUE, shape |-> Shape("box", 1, 0, 0)]
Ball == [type |-> "dynamic", mass |-> 1, enabled |-> TRUE, shape |-> Shape("sphere", 1, 0, 0)]
FewEntities == {<<1, 0>>, <<2, 0>>}
HighBall == [Ball EXCEPT !.shape.off = 2]
FloorAndBalls == ({<<1, 0>>} \X {Floor, Ball}) \union ({<<2, 0>>} \X {Ball, HighBall})
Capsule == Shape("capsule", 1, 1, 0)
==============================================================================
