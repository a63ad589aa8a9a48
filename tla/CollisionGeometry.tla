-------------------------- MODULE CollisionGeometry --------------------------
(***************************************************************************)
(* The narrow and the broad phase of the physics module.  A rotation is    *)
(* the identity, a shape the record [kind, r, h, off]: a sphere of radius  *)
(* r, a box of half extent r, a capsule of radius r about an upright       *)
(* segment of half length h, all moved up by localOffset off, which only   *)
(* the bounding box heeds.  Contact tests and bounding boxes are those of  *)
(* a vertical line, where a position is an integer and the line is taken   *)
(* as the axis of least overlap; a contact is [normal, depth], a manifold  *)
(* a sequence of at most one.  Rays and sweeps are those of the plane of   *)
(* the line and one horizontal: a point is <<x, y>>, a direction a unit    *)
(* vector of an axis; they give a distance, rounded down, or -1.           *)
(***************************************************************************)
EXTENDS Integers, Sequences

Root(n) == CHOOSE k \in 0..n : k * k >= n /\ \A j \in 0..n : j * j >= n => k <= j   \* rounded up
Abs(x) == IF x < 0 THEN -x ELSE x
Clamp(x, lo, hi) == IF x < lo THEN lo ELSE IF x > hi THEN hi ELSE x
Sign(x) == IF x < 0 THEN -1 ELSE 1                 \* unitY when degenerate
NoContact == << >>
Contact(n, d) == <<[normal |-> n, depth |-> d]>>
Flipped(m) == [i \in DOMAIN m |-> [m[i] EXCEPT !.normal = -@]]

TestSphereSphere(a, posA, b, posB) ==
    LET dist == Abs(posB - posA)
    IN  IF dist >= a.r + b.r THEN NoContact
        ELSE Contact(Sign(posB - posA), a.r + b.r - dist)

(* The separating axis theorem; the axis points from A to B.               *)
TestBoxBox(a, posA, b, posB) ==
    LET overlap == a.r + b.r - Abs(posB - posA)
    IN  IF overlap <= 0 THEN NoContact ELSE Contact(Sign(posB - posA), overlap)

(* Here the normal points from the box to the sphere, that is from B to A. *)
TestSphereBox(sphere, spherePos, box, boxPos) ==
    LET local == spherePos - boxPos
        diff == local - Clamp(local, -box.r, box.r)
    IN  IF Abs(diff) >= sphere.r THEN NoContact
        ELSE Contact(Sign(diff), sphere.r - Abs(diff))

(* The gap between the segments of two upright capsules, with its sign.    *)
SegmentGap(a, posA, b, posB) ==
    LET d == posB - posA
    IN  IF Abs(d) <= a.h + b.h THEN 0 ELSE d - Sign(d) * (a.h + b.h)

TestCapsuleCapsule(a, posA, b, posB) ==
    LET gap == SegmentGap(a, posA, b, posB)
    IN  IF Abs(gap) >= a.r + b.r THEN NoContact
        ELSE Contact(Sign(gap), a.r + b.r - Abs(gap))

TestSphereCapsule(sphere, spherePos, capsule, capsulePos) ==
    LET diff == (spherePos - capsulePos)
                - Clamp(spherePos - capsulePos, -capsule.h, capsule.h)
    IN  IF Abs(diff) >= sphere.r + capsule.r THEN NoContact
        ELSE Contact(Sign(diff), sphere.r + capsule.r - Abs(diff))

(* The pairs with no test of their own never touch.                        *)
NarrowPhase(dyn, dynPos, stat, statPos) ==
    CASE dyn.kind = "sphere" /\ stat.kind = "sphere" -> TestSphereSphere(dyn, dynPos, stat, statPos)
      [] dyn.kind = "sphere" /\ stat.kind = "box" -> TestSphereBox(dyn, dynPos, stat, statPos)
      [] dyn.kind = "box" /\ stat.kind = "box" -> TestBoxBox(dyn, dynPos, stat, statPos)
      [] dyn.kind = "box" /\ stat.kind = "sphere" -> Flipped(TestSphereBox(stat, statPos, dyn, dynPos))
      [] dyn.kind = "capsule" /\ stat.kind = "capsule" -> TestCapsuleCapsule(dyn, dynPos, stat, statPos)
      [] dyn.kind = "sphere" /\ stat.kind = "capsule" -> TestSphereCapsule(dyn, dynPos, stat, statPos)
      [] OTHER -> NoContact
------------------------------------------------------------------------------
(* Rays.  From inside, a sphere and a box are hit at distance 0; a capsule *)
(* is not hit at all.                                                      *)
Miss == -1
Plus(p, q) == <<p[1] + q[1], p[2] + q[2]>>
Times(k, p) == <<k * p[1], k * p[2]>>
Minus(p, q) == Plus(p, Times(-1, q))
Dot(p, q) == p[1] * q[1] + p[2] * q[2]
Up(y) == <<0, y>>
Positive(n) == IF n < 0 THEN 0 ELSE n


(* The slab of the other axis is passed or not, that of dir gives the      *)
(* distance.                                                               *)
RayVsBox(origin, dir, center, half) ==
    LET o == Minus(origin, center)  along == Dot(o, dir)
    IN  IF along > half \/ (\E i \in {1, 2} : dir[i] = 0 /\ Abs(o[i]) > half) THEN Miss
        ELSE Positive(-half - along)

RayVsSphere(origin, dir, center, radius) ==
    LET m == Minus(origin, center)
        b == Dot(m, dir)
        c == Dot(m, m) - radius * radius
    IN  IF (c > 0 /\ b > 0) \/ b * b < c THEN Miss ELSE Positive(-b - Root(b * b - c))

(* Along the axis of the capsule, the only way it is cast at here, the     *)
(* quadratic is 0/0: the comparisons with NaN choose the top cap, from     *)
(* whichever side the ray comes.                                           *)
RayVsCapsule(origin, dir, center, shape) ==
    LET t == Dot(Minus(Plus(center, Up(shape.h)), origin), dir) - shape.r
    IN  IF t >= 0 THEN t ELSE Miss

(* One end of the capsule stands for all of it, the upper one unless the   *)
(* way is down ...                                                         *)
CapsuleSweepVsSphere(start, dir, radius, half, center, sphereRadius) ==
    RayVsSphere(Plus(start, Up(IF dir[2] < 0 THEN -half ELSE half)), dir, center, radius + sphereRadius)

(* ... or the two ends, whatever lies between them.                        *)
Nearer(t, u) == IF t = Miss \/ (u # Miss /\ u < t) THEN u ELSE t
CapsuleSweepVsBox_Top(start, dir, radius, half, center, boxHalf) ==
    RayVsBox(Plus(start, Up(half)), dir, center, boxHalf + radius)
CapsuleSweepVsBox(start, dir, radius, half, center, boxHalf) ==
    Nearer(RayVsBox(Plus(start, Up(half)), dir, center, boxHalf + radius),
           RayVsBox(Plus(start, Up(-half)), dir, center, boxHalf + radius))
------------------------------------------------------------------------------
(* Bounding boxes are closed intervals <<min, max>>.                       *)
ComputeAABB(shape, pos) ==
    LET e == IF shape.kind = "capsule" THEN shape.h + shape.r ELSE shape.r
    IN  <<pos + shape.off - e, pos + shape.off + e>>
Intersects(a, b) == a[1] <= b[2] /\ b[1] <= a[2]
==============================================================================
