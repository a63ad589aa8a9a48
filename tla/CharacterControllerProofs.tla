---------------------- MODULE CharacterControllerProofs ----------------------
(***************************************************************************)
(* Proof about CharacterController, for every capsule, every number of     *)
(* bodies of any size and at any place, and every walk along the axes: no  *)
(* step leads into or through a box that is tall enough.                   *)
(***************************************************************************)
EXTENDS CharacterController, WellFoundedInduction, TLAPS

Body == [shape : [kind : {"box", "sphere", "capsule"}, r : Nat, h : Nat, off : Int],
         at : Int \X Int, type : {"static", "kinematic", "dynamic"}, cc : BOOLEAN]
Capsule == [kind : {"capsule"}, r : Nat, h : Nat, off : Int]
Dirs == {<<1, 0>>, <<-1, 0>>, <<0, 1>>, <<0, -1>>}
AlongAxis == {<<v, 0>> : v \in Int} \union {<<0, v>> : v \in Int}
Character == [at : Int \X Int, want : AlongAxis, grounded : BOOLEAN, coyote : Nat]
Reached(at, k, dir) == Plus(at, Times(k, dir))
Obstacles(bs) == {b \in ToSet(bs) : ~b.cc}

LEMMA Bodies ==
    ASSUME NEW bs \in Seq(Body), NEW b \in ToSet(bs)
    PROVE  b \in Body /\ b.shape.r \in Nat /\ b.at \in Int \X Int
<1>1. PICK i \in DOMAIN bs : b = bs[i]
  BY DEF ToSet
<1>2. b \in Body
  <2> HIDE DEF Body
  <2> QED BY <1>1
<1> QED BY <1>2 DEF Body

(* Squares.                                                                *)
LEMMA SquareOrder ==
    ASSUME NEW d \in Nat, NEW r \in Nat, d >= r
    PROVE  d * d >= r * r
<1>1. d * d >= d * r
  OBVIOUS
<1>2. d * r >= r * r
  OBVIOUS
<1> QED BY <1>1, <1>2

(* Where the capsule has a point in common with a box.                     *)
LEMMA OverlapBounds ==
    ASSUME NEW shape \in Capsule, NEW b \in Body, b.shape.kind = "box", NEW p \in Int \X Int, Overlapping(shape, p, b)
    PROVE  /\ Abs(p[1] - b.at[1]) < b.shape.r + shape.r
           /\ Abs(p[2] - b.at[2]) < b.shape.r + shape.r + shape.h
<1> DEFINE dx == Positive(Abs(p[1] - b.at[1]) - b.shape.r)
           dy == Positive(Abs(p[2] - b.at[2]) - shape.h - b.shape.r)
           r == shape.r
<1>1. r \in Nat /\ b.shape.r \in Nat /\ shape.h \in Nat /\ b.at \in Int \X Int
  BY DEF Body, Capsule
<1>2. dx \in Nat /\ dy \in Nat
  BY <1>1 DEF Positive, Abs
<1>3. dx * dx + dy * dy < r * r
  BY <1>1 DEF Overlapping
<1>4. dx * dx \in Nat /\ dy * dy \in Nat /\ r * r \in Nat
  BY <1>1, <1>2
<1>5. dx < r /\ dy < r
  <2> HIDE DEF dx, dy, r
  <2>1. dx >= r => dx * dx >= r * r
    BY <1>1, <1>2, SquareOrder
  <2>2. dy >= r => dy * dy >= r * r
    BY <1>1, <1>2, SquareOrder
  <2>3. dx * dx < r * r /\ dy * dy < r * r
    BY <1>3, <1>4
  <2>4. ~(dx >= r) /\ ~(dy >= r)
    BY <1>4, <2>1, <2>2, <2>3
  <2> QED BY <1>1, <1>2, <2>4
<1> QED BY <1>1, <1>5 DEF Positive, Abs

(* A ray along an axis that passes the slab of the other axis, and has not *)
(* left the box behind, meets it before it is inside.                      *)
LEMMA RayMeetsBox ==
    ASSUME NEW o \in Int \X Int, NEW c \in Int \X Int, NEW dir \in Dirs, NEW H \in Nat, NEW s \in Nat,
           \A i \in {1, 2} : dir[i] = 0 => Abs(o[i] - c[i]) <= H,
           Dot(Minus(o, c), dir) <= H, s > 0, s > -H - Dot(Minus(o, c), dir)
    PROVE  RayVsBox(o, dir, c, H) \in 0 .. s - 1
<1>1. Minus(o, c) = <<o[1] - c[1], o[2] - c[2]>>
  BY DEF Minus, Plus, Times
<1>2. ~(\E i \in {1, 2} : dir[i] = 0 /\ Abs(Minus(o, c)[i]) > H)
  BY <1>1 DEF Abs
<1>3. Dot(Minus(o, c), dir) \in Int
  BY <1>1 DEF Dot, Dirs
<1>4. RayVsBox(o, dir, c, H) = Positive(-H - Dot(Minus(o, c), dir))
  BY <1>2, <1>3 DEF RayVsBox
<1> QED BY <1>3, <1>4 DEF Positive

(* Every ray misses or has a distance.                                     *)
LEMMA RayType ==
    ASSUME NEW o \in Int \X Int, NEW c \in Int \X Int, NEW dir \in Dirs, NEW H \in Nat
    PROVE  RayVsBox(o, dir, c, H) \in Nat \union {Miss}
<1>1. Minus(o, c) = <<o[1] - c[1], o[2] - c[2]>>
  BY DEF Minus, Plus, Times
<1>2. Dot(Minus(o, c), dir) \in Int
  BY <1>1 DEF Dot, Dirs
<1> HIDE DEF Miss
<1> QED BY <1>2 DEF RayVsBox, Positive

LEMMA NearerOfTwo ==
    ASSUME NEW t \in Nat \union {Miss}, NEW u \in Nat \union {Miss}, NEW s \in Nat,
           t \in 0 .. s - 1 \/ u \in 0 .. s - 1
    PROVE  Nearer(t, u) \in 0 .. s - 1
BY DEF Nearer, Miss

(* A step that would overlap a tall box meets it first, with one end.      *)
LEMMA TallIsMet ==
    ASSUME NEW shape \in Capsule, NEW b \in Body, Tall(shape, b), NEW at \in Int \X Int, NEW dir \in Dirs, NEW s \in Nat,
           ~Overlapping(shape, at, b), Overlapping(shape, Reached(at, s, dir), b)
    PROVE  SweptDistance(b, shape, at, dir) \in 0 .. s - 1
<1> DEFINE H == b.shape.r + shape.r
           h == shape.h
           p == Reached(at, s, dir)
           c == b.at
           top == Plus(at, Up(h))
           low == Plus(at, Up(-h))
           t == RayVsBox(top, dir, c, H)
           u == RayVsBox(low, dir, c, H)
<1>1. H \in Nat /\ h \in Nat /\ c \in Int \X Int /\ H >= h /\ b.shape.kind = "box"
  <2>1. b.shape.r \in Nat /\ shape.r \in Nat /\ shape.h \in Nat /\ b.at \in Int \X Int
    BY DEF Body, Capsule
  <2>2. b.shape.kind = "box" /\ b.shape.r + shape.r >= shape.h
    BY DEF Tall
  <2> QED BY <2>1, <2>2
<1>2. p = <<at[1] + s * dir[1], at[2] + s * dir[2]>> /\ p \in Int \X Int
  BY DEF Reached, Plus, Times, Dirs
<1>3. Abs(p[1] - c[1]) < H /\ Abs(p[2] - c[2]) < H + h
  BY <1>1, <1>2, OverlapBounds
<1>4. s > 0
  <2>1. s = 0 => p = at
    BY <1>2 DEF Dirs
  <2> QED BY <2>1
<1>5. /\ top \in Int \X Int /\ low \in Int \X Int
      /\ top = <<at[1], at[2] + h>> /\ low = <<at[1], at[2] - h>>
  BY <1>1 DEF Plus, Up
<1>6. t \in Nat \union {Miss} /\ u \in Nat \union {Miss}
  BY <1>1, <1>5, RayType
<1>7. SweptDistance(b, shape, at, dir) = Nearer(t, u)
  BY <1>1 DEF SweptDistance, CapsuleSweepVsBox
<1>8. /\ Dot(Minus(top, c), dir) = (at[1] - c[1]) * dir[1] + (at[2] + h - c[2]) * dir[2]
      /\ Dot(Minus(low, c), dir) = (at[1] - c[1]) * dir[1] + (at[2] - h - c[2]) * dir[2]
  BY <1>1, <1>5 DEF Dot, Minus, Plus, Times, Dirs
<1>9. t \in 0 .. s - 1 \/ u \in 0 .. s - 1
  <2> HIDE DEF H, h, c, top, low
  <2>1. \A e \in {top, low} :
            /\ \A i \in {1, 2} : dir[i] = 0 => Abs(e[i] - c[i]) <= H
            /\ Dot(Minus(e, c), dir) <= H /\ s > -H - Dot(Minus(e, c), dir)
            => RayVsBox(e, dir, c, H) \in 0 .. s - 1
    BY <1>1, <1>4, <1>5, RayMeetsBox
  <2>2. \E e \in {top, low} :
            /\ \A i \in {1, 2} : dir[i] = 0 => Abs(e[i] - c[i]) <= H
            /\ Dot(Minus(e, c), dir) <= H /\ s > -H - Dot(Minus(e, c), dir)
    <3> SUFFICES \/ /\ \A i \in {1, 2} : dir[i] = 0 => Abs(top[i] - c[i]) <= H
                    /\ Dot(Minus(top, c), dir) <= H /\ s > -H - Dot(Minus(top, c), dir)
                 \/ /\ \A i \in {1, 2} : dir[i] = 0 => Abs(low[i] - c[i]) <= H
                    /\ Dot(Minus(low, c), dir) <= H /\ s > -H - Dot(Minus(low, c), dir)
      OBVIOUS
    <3> HIDE DEF p
    <3>1. CASE dir = <<1, 0>>
      BY <1>1, <1>2, <1>3, <1>5, <1>8, <3>1 DEF Abs
    <3>2. CASE dir = <<-1, 0>>
      BY <1>1, <1>2, <1>3, <1>5, <1>8, <3>2 DEF Abs
    <3>3. CASE dir = <<0, 1>>
      BY <1>1, <1>2, <1>3, <1>4, <1>5, <1>8, <3>3 DEF Abs
    <3>4. CASE dir = <<0, -1>>
      BY <1>1, <1>2, <1>3, <1>4, <1>5, <1>8, <3>4 DEF Abs
    <3> QED BY <3>1, <3>2, <3>3, <3>4 DEF Dirs
  <2> QED BY <2>1, <2>2
<1> QED BY <1>6, <1>7, <1>9, NearerOfTwo

(***************************************************************************)
(* The move of a step.                                                     *)
(***************************************************************************)
LEMMA SmallestNat ==
    ASSUME NEW S \in SUBSET Nat, S # {}
    PROVE  \E t \in S : \A u \in S : t <= u
<1>1. PICK t \in S : \A u \in S : ~(<<u, t>> \in OpToRel(<, Nat))
  BY NatLessThanWellFounded, WFMin
<1>2. \A u \in S : ~(u < t)
  BY <1>1 DEF OpToRel
<1> QED BY <1>2

(* What a sweep meets is nearer than the limit and the nearest there is.   *)
LEMMA SweepGives ==
    ASSUME NEW bs, NEW shape, NEW at, NEW dir, NEW len \in Nat
    PROVE  LET hits == SweepCapsule(bs, shape, at, dir, len)
           IN  /\ hits \subseteq 0 .. len - 1
               /\ \A b \in Obstacles(bs) :
                      SweptDistance(b, shape, at, dir) \in 0 .. len - 1 =>
                          hits # {} /\ \A t \in hits : t <= SweptDistance(b, shape, at, dir)
<1> DEFINE S == {SweptDistance(b, shape, at, dir) : b \in Obstacles(bs)} \intersect 0 .. len - 1
           hits == SweepCapsule(bs, shape, at, dir, len)
<1>1. hits = {t \in S : \A u \in S : t <= u} /\ S \subseteq 0 .. len - 1
  BY DEF SweepCapsule, SweepAgainst, Obstacles
<1>2. \A b \in Obstacles(bs) : SweptDistance(b, shape, at, dir) \in 0 .. len - 1
          => SweptDistance(b, shape, at, dir) \in S
  OBVIOUS
<1> HIDE DEF S, hits
<1>3. S # {} => hits # {}
  <2> SUFFICES ASSUME S # {} PROVE hits # {}
    OBVIOUS
  <2>1. S \in SUBSET Nat
    BY <1>1
  <2>2. PICK t \in S : \A u \in S : t <= u
    BY <2>1, SmallestNat
  <2> QED BY <1>1, <2>2
<1> QED BY <1>1, <1>2, <1>3 DEF hits

(* A step goes some way along its axis, no farther than to what it meets.  *)
LEMMA SweptGives ==
    ASSUME NEW bs, NEW shape, NEW at \in Int \X Int, NEW move \in AlongAxis
    PROVE  \E dir \in Dirs, k \in Nat :
               /\ Swept(bs, shape, at, move) = Reached(at, k, dir)
               /\ \A b \in Obstacles(bs), s \in 1 .. k : SweptDistance(b, shape, at, dir) \notin 0 .. s - 1
<1> DEFINE len == Abs(move[1] + move[2])
           dir == <<Way(move[1]), Way(move[2])>>
           hits == SweepCapsule(bs, shape, at, dir, len)
           t == CHOOSE x \in hits : TRUE
           k == Positive(t - Skin)
           safe == Times(k, dir)
           W == Swept(bs, shape, at, move)
<1>1. CASE len = 0
  <2>1. W = at
    BY <1>1 DEF Swept
  <2>2. Reached(at, 0, <<1, 0>>) = at
    BY DEF Reached, Plus, Times
  <2>3. <<1, 0>> \in Dirs /\ 0 \in Nat /\ 1 .. 0 = {}
    BY DEF Dirs
  <2> QED BY <2>1, <2>2, <2>3
<1>2. CASE len # 0
  <2>1. len \in Nat /\ move \in Int \X Int
    BY DEF AlongAxis, Abs
  <2>2. dir \in Dirs /\ move = <<len * dir[1], len * dir[2]>>
    <3>1. PICK v \in Int : move = <<v, 0>> \/ move = <<0, v>>
      BY DEF AlongAxis
    <3> QED BY <1>2, <3>1 DEF Way, Sign, Abs, Dirs
  <2>3. /\ hits \subseteq 0 .. len - 1
        /\ \A b \in Obstacles(bs) :
               SweptDistance(b, shape, at, dir) \in 0 .. len - 1 =>
                   hits # {} /\ \A x \in hits : x <= SweptDistance(b, shape, at, dir)
    <3> HIDE DEF dir, len
    <3> QED BY <2>1, SweepGives
  <2>4. CASE hits = {}
    <3>1. W = Plus(at, move)
      BY <1>2, <2>4 DEF Swept
    <3>2. W = Reached(at, len, dir)
      <4> HIDE DEF len, dir
      <4> QED BY <2>1, <2>2, <3>1 DEF Reached, Plus, Times
    <3>3. \A b \in Obstacles(bs), s \in 1 .. len : SweptDistance(b, shape, at, dir) \notin 0 .. s - 1
      <4> HIDE DEF len, dir, hits
      <4> QED BY <2>1, <2>3, <2>4
    <3> HIDE DEF len, dir, hits, W
    <3> QED BY <2>1, <2>2, <3>2, <3>3 DEF W
  <2>5. CASE hits # {}
    <3>1. t \in hits
      BY <2>5
    <3>2. W = Plus(Plus(at, safe), SlideAlongSurface(Minus(move, safe), Times(-1, dir)))
      BY <1>2, <2>5 DEF Swept
    <3>3. t \in 0 .. len - 1 /\ k \in Nat /\ k <= t
      <4> HIDE DEF hits, t, len
      <4> QED BY <2>1, <2>3, <3>1 DEF Positive, Skin
    <3>4. SlideAlongSurface(Minus(move, safe), Times(-1, dir)) = <<0, 0>>
      <4> HIDE DEF hits, t, len, k
      <4>1. safe = <<k * dir[1], k * dir[2]>> /\ Times(-1, dir) = <<-dir[1], -dir[2]>>
        BY <2>2 DEF Times, Dirs
      <4> HIDE DEF dir, safe
      <4>2. Minus(move, safe) = <<(len - k) * dir[1], (len - k) * dir[2]>>
        <5>1. Minus(move, safe) = <<move[1] + (-1) * safe[1], move[2] + (-1) * safe[2]>>
          BY DEF Minus, Plus, Times
        <5>2. Minus(move, safe) = <<len * dir[1] + (-1) * (k * dir[1]), len * dir[2] + (-1) * (k * dir[2])>>
          BY <2>2, <4>1, <5>1
        <5>3. dir = <<1, 0>> \/ dir = <<-1, 0>> \/ dir = <<0, 1>> \/ dir = <<0, -1>>
          BY <2>2 DEF Dirs
        <5> QED BY <2>1, <3>3, <5>2, <5>3
      <4> QED BY <2>1, <2>2, <3>3, <4>1, <4>2 DEF SlideAlongSurface, Minus, Plus, Times, Dot, Dirs
    <3>5. W = Reached(at, k, dir)
      <4> HIDE DEF hits, t, len, k, dir
      <4> QED BY <2>2, <3>2, <3>3, <3>4 DEF Reached, Plus, Times, Dirs
    <3>6. \A b \in Obstacles(bs), s \in 1 .. k : SweptDistance(b, shape, at, dir) \notin 0 .. s - 1
      <4> HIDE DEF hits, t, len, k, dir
      <4> QED BY <2>1, <2>3, <3>1, <3>3
    <3> HIDE DEF hits, t, k, dir, W
    <3> QED BY <2>2, <3>3, <3>5, <3>6 DEF W
  <2> QED BY <2>4, <2>5
<1> QED BY <1>1, <1>2

(* A step keeps the types, and stops short of what it meets.               *)
LEMMA StepMoves ==
    ASSUME NEW bs, NEW shape, NEW c \in Character
    PROVE  /\ UpdateCharacter(bs, shape, c) \in Character
           /\ \E dir \in Dirs, k \in Nat :
                  /\ UpdateCharacter(bs, shape, c).at = Reached(c.at, k, dir)
                  /\ \A b \in Obstacles(bs), s \in 1 .. k : SweptDistance(b, shape, c.at, dir) \notin 0 .. s - 1
<1> DEFINE move == ClampGroundedVelocity(c.want, c.grounded)
           at == Swept(bs, shape, c.at, move)
           g == SweepCapsule(bs, shape, at, Up(-1), GroundCheckDist) # {}
           e == Positive((IF ~g /\ c.grounded THEN CoyoteWindow ELSE c.coyote) - 1)
           d == UpdateCharacter(bs, shape, c)
<1>1. c.at \in Int \X Int /\ c.want \in AlongAxis /\ c.coyote \in Nat
  BY DEF Character
<1>2. move \in AlongAxis
  BY <1>1 DEF ClampGroundedVelocity, AlongAxis
<1>3. PICK dir \in Dirs, k \in Nat :
          /\ at = Reached(c.at, k, dir)
          /\ \A b \in Obstacles(bs), s \in 1 .. k : SweptDistance(b, shape, c.at, dir) \notin 0 .. s - 1
  <2> HIDE DEF move
  <2> QED BY <1>1, <1>2, SweptGives
<1>4. at \in Int \X Int
  <2> HIDE DEF at
  <2> QED BY <1>1, <1>3 DEF Reached, Plus, Times, Dirs
<1>5. d = [[c EXCEPT !.at = at] EXCEPT !.grounded = g, !.coyote = e]
  BY DEF UpdateCharacter, UpdateGroundedState, Character
<1>6. g \in BOOLEAN /\ e \in Nat
  <2>1. g \in BOOLEAN
    OBVIOUS
  <2> DEFINE n == IF ~g /\ c.grounded THEN CoyoteWindow ELSE c.coyote
  <2>2. n \in Nat
    <3> HIDE DEF g
    <3> QED BY <1>1 DEF CoyoteWindow
  <2>3. e = Positive(n - 1)
    OBVIOUS
  <2> HIDE DEF n, e
  <2>4. e \in Nat
    BY <2>2, <2>3 DEF Positive
  <2> QED BY <2>1, <2>4
<1> HIDE DEF at, g, e, d
<1>7. d.at = at /\ d \in Character
  BY <1>4, <1>5, <1>6 DEF Character
<1> QED BY <1>3, <1>7 DEF d

(* Where a move that goes along an axis has come by.                       *)
LEMMA OnTheWay ==
    ASSUME NEW at \in Int \X Int, NEW dir \in Dirs, NEW k \in Nat, NEW to, to = Reached(at, k, dir),
           NEW p \in Span(at[1], to[1]) \X Span(at[2], to[2])
    PROVE  \E s \in 0 .. k : p = Reached(at, s, dir)
<1>1. to = <<at[1] + k * dir[1], at[2] + k * dir[2]>>
  BY DEF Reached, Plus, Times
<1>2. p = <<p[1], p[2]>> /\ p[1] \in Span(at[1], at[1] + k * dir[1]) /\ p[2] \in Span(at[2], at[2] + k * dir[2])
  BY <1>1
<1>3. PICK s \in 0 .. k : p[1] = at[1] + s * dir[1] /\ p[2] = at[2] + s * dir[2]
  <2>1. CASE dir = <<1, 0>>
    <3>1. p[1] - at[1] \in 0 .. k /\ p[2] = at[2]
      BY <1>2, <2>1 DEF Span
    <3> QED BY <1>2, <2>1, <3>1 DEF Span
  <2>2. CASE dir = <<-1, 0>>
    <3>1. at[1] - p[1] \in 0 .. k /\ p[2] = at[2]
      BY <1>2, <2>2 DEF Span
    <3> QED BY <1>2, <2>2, <3>1 DEF Span
  <2>3. CASE dir = <<0, 1>>
    <3>1. p[2] - at[2] \in 0 .. k /\ p[1] = at[1]
      BY <1>2, <2>3 DEF Span
    <3> QED BY <1>2, <2>3, <3>1 DEF Span
  <2>4. CASE dir = <<0, -1>>
    <3>1. at[2] - p[2] \in 0 .. k /\ p[1] = at[1]
      BY <1>2, <2>4 DEF Span
    <3> QED BY <1>2, <2>4, <3>1 DEF Span
  <2> QED BY <2>1, <2>2, <2>3, <2>4 DEF Dirs
<1> QED BY <1>2, <1>3 DEF Reached, Plus, Times

(* The character's part of PhysicsWorld::step never leads from outside a   *)
(* tall box into it or through it, whatever bodies there are, in whatever  *)
(* order, and wherever the character is and wants to go.                   *)
THEOREM TallBoxesHold ==
    ASSUME NEW bs \in Seq(Body), NEW shape \in Capsule, NEW c \in Character,
           NEW b \in ToSet(bs), ~b.cc, Tall(shape, b)
    PROVE  ~Enters(shape, c.at, UpdateCharacter(bs, shape, c).at, b)
<1> SUFFICES ASSUME Enters(shape, c.at, UpdateCharacter(bs, shape, c).at, b)
             PROVE  FALSE
  OBVIOUS
<1> DEFINE to == UpdateCharacter(bs, shape, c).at
<1>1. b \in Body /\ b \in Obstacles(bs) /\ c.at \in Int \X Int
  BY Bodies DEF Obstacles, Character
<1>2. PICK dir \in Dirs, k \in Nat :
          /\ to = Reached(c.at, k, dir)
          /\ \A x \in Obstacles(bs), s \in 1 .. k : SweptDistance(x, shape, c.at, dir) \notin 0 .. s - 1
  BY StepMoves
<1>3. PICK p \in Span(c.at[1], to[1]) \X Span(c.at[2], to[2]) : Overlapping(shape, p, b)
  BY DEF Enters
<1> HIDE DEF to
<1>4. PICK s \in 0 .. k : p = Reached(c.at, s, dir)
  BY <1>1, <1>2, <1>3, OnTheWay
<1>5. SweptDistance(b, shape, c.at, dir) \in 0 .. s - 1
  <2>1. ~Overlapping(shape, c.at, b)
    BY DEF Enters
  <2> QED BY <1>1, <1>3, <1>4, <2>1, TallIsMet
<1>6. s \in 1 .. k
  BY <1>5
<1> QED BY <1>1, <1>2, <1>5, <1>6
==============================================================================
