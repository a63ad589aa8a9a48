------------------------------ MODULE StaticBVH ------------------------------
(***************************************************************************)
(* The tree over the boxes of the static bodies.  A node is [aabb, entry,  *)
(* kids]; the entries are records [body, aabb].                            *)
(***************************************************************************)
EXTENDS CollisionGeometry, FiniteSets, SequencesExt

LOCAL Lowest(S) == CHOOSE x \in S : \A y \in S : x <= y
LOCAL Highest(S) == CHOOSE x \in S : \A y \in S : x >= y
Hull(boxes) == <<Lowest({b[1] : b \in boxes}), Highest({b[2] : b \in boxes})>>

(* A slice is cut at the mean centre, in the middle when the cut leaves    *)
(* one side empty.  (Centres are doubled to stay integers.)                *)
Centre2(e) == e.aabb[1] + e.aabb[2]
MeanBelow(s, e) == Len(s) * Centre2(e) < FoldSeq(LAMBDA x, acc : acc + Centre2(x), 0, s)

Cut(s) ==
    LET lo == SelectSeq(s, LAMBDA e : MeanBelow(s, e))
        hi == SelectSeq(s, LAMBDA e : ~MeanBelow(s, e))
        half == Len(s) \div 2
    IN  IF lo = << >> \/ hi = << >>
        THEN <<SubSeq(s, 1, half), SubSeq(s, half + 1, Len(s))>>
        ELSE <<lo, hi>>

RECURSIVE Build(_)
Build(s) == IF Len(s) = 0 THEN << >>
            ELSE [aabb |-> Hull({e.aabb : e \in ToSet(s)}),
                  entry |-> IF Len(s) = 1 THEN s[1].body ELSE 0,
                  kids |-> IF Len(s) = 1 THEN << >>
                           ELSE LET c == Cut(s) IN <<Build(c[1]), Build(c[2])>>]

RECURSIVE Query(_, _)
Query(node, box) ==
    IF node = << >> THEN << >>
    ELSE IF ~Intersects(node.aabb, box) THEN << >>
    ELSE IF node.kids = << >> THEN <<node.entry>>
    ELSE Query(node.kids[1], box) \o Query(node.kids[2], box)
==============================================================================
