------------------------- MODULE CharacterController -------------------------
(***************************************************************************)
(* Move-and-slide: what the physics step does to one character controller  *)
(* among the bodies of the world.  A body is [shape, at, type, cc], a      *)
(* character [at, want, grounded, coyote], its desired velocity along one  *)
(* axis; a step lasts one unit of time, the unit of length is the skin the *)
(* character keeps to what it was swept against.                           *)
(***************************************************************************)
EXTENDS CollisionGeometry, SequencesExt

Skin == 1
GroundCheckDist == 2
CoyoteWindow == 2

(* The nearest of what a capsule meets within limit, as a set of at most   *)
(* one distance.  Neither a collider's enabled flag nor its offset counts, *)
(* capsules and characters let it through.                                 *)
SweptDistance(b, shape, start, dir) ==
    CASE b.shape.kind = "sphere" -> CapsuleSweepVsSphere(start, dir, shape.r, shape.h, b.at, b.shape.r)
      [] b.shape.kind = "box"    -> CapsuleSweepVsBox(start, dir, shape.r, shape.h, b.at, b.shape.r)
      [] OTHER -> Miss
SweepAgainst(bs, shape, start, dir, limit) ==
    LET hits == {SweptDistance(b, shape, start, dir) : b \in {x \in ToSet(bs) : ~x.cc}} \intersect 0..limit - 1
    IN  {t \in hits : \A u \in hits : t <= u}

SweepCapsule_DynamicOnly(bs, shape, start, dir, limit) ==
    SweepAgainst(SelectSeq(bs, LAMBDA b : b.type = "dynamic"), shape, start, dir, limit)
SweepCapsule(bs, shape, start, dir, limit) == SweepAgainst(bs, shape, start, dir, limit)

ClampGroundedVelocity(v, grounded) == IF grounded /\ v[2] < 0 THEN <<v[1], 0>> ELSE v
SlideAlongSurface(v, normal) == Minus(v, Times(Dot(v, normal), normal))
UpdateGroundedState(c, grounded) ==
    LET coyote == IF ~grounded /\ c.grounded THEN CoyoteWindow ELSE c.coyote
    IN  [c EXCEPT !.grounded = grounded, !.coyote = Positive(coyote - 1)]

Way(n) == IF n = 0 THEN 0 ELSE Sign(n)

(* Where a displacement takes the character: a skin short of what it meets *)
(* and on by what slides along it.  The normal is the way back, so that    *)
(* nothing is left to slide.                                               *)
Swept(bs, shape, at, move) ==
    LET len == Abs(move[1] + move[2])
        dir == <<Way(move[1]), Way(move[2])>>
        hits == SweepCapsule(bs, shape, at, dir, len)
        safe == Times(Positive((CHOOSE t \in hits : TRUE) - Skin), dir)
    IN  IF len = 0 THEN at
        ELSE IF hits = {} THEN Plus(at, move)
        ELSE Plus(Plus(at, safe), SlideAlongSurface(Minus(move, safe), Times(-1, dir)))

UpdateCharacter(bs, shape, c) ==
    LET at == Swept(bs, shape, c.at, ClampGroundedVelocity(c.want, c.grounded))
    IN  UpdateGroundedState([c EXCEPT !.at = at],
                            SweepCapsule(bs, shape, at, Up(-1), GroundCheckDist) # {})

(* The capsule and a sphere or a box have a point of their insides in      *)
(* common.  A move along an axis enters a body if it leads from outside it *)
(* through its inside, wherever it ends.  A box is tall for a capsule that *)
(* cannot stand around it, one end above and one below, clear of it.       *)
Overlapping(shape, at, b) ==
    LET box == b.shape.kind = "box"
        dx == Positive(Abs(at[1] - b.at[1]) - IF box THEN b.shape.r ELSE 0)
        dy == Positive(Abs(at[2] - b.at[2]) - shape.h - IF box THEN b.shape.r ELSE 0)
        r  == shape.r + IF box THEN 0 ELSE b.shape.r
    IN  dx * dx + dy * dy < r * r

Span(i, j) == i..j \union j..i
Enters(shape, from, to, b) ==
    /\ ~Overlapping(shape, from, b)
    /\ \E p \in Span(from[1], to[1]) \X Span(from[2], to[2]) : Overlapping(shape, p, b)
Tall(shape, b) == b.shape.kind = "box" /\ b.shape.r + shape.r >= shape.h
==============================================================================
