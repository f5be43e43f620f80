----------------------------- MODULE AoiProofs ------------------------------
(***************************************************************************)
(* Proofs about the area of interest, for every map with whole coordinates,*)
(* every depth, radius and set of positions.                               *)
(*                                                                         *)
(* First the quadtree: the boxes on the way to a leaf exist (by induction  *)
(* on the depth, over a set of numbers), a point of the map is in all the  *)
(* boxes on the way to its leaf, so a query passes over no entry of its    *)
(* square.  Then the invariant AoiInv, step by step.                       *)
(***************************************************************************)
EXTENDS Aoi, WellFoundedInduction, TLAPS

Coordinate == [x : Int, y : Int]
IntBox == [left : Int, bottom : Int, right : Int, top : Int]

\* Induction over the numbers, for a set of them.
LEMMA SetInduction ==
    ASSUME NEW S, 0 \in S, \A n \in Nat : n \in S => n + 1 \in S
    PROVE  Nat \subseteq S
<1> DEFINE R == OpToRel(<, Nat)
           T == Nat \ S
<1>1. IsWellFoundedOn(R, Nat)
  BY NatLessThanWellFounded, Zenon
<1> SUFFICES ASSUME T # {} PROVE FALSE
  OBVIOUS
<1>2. PICK x \in T : \A y \in T : ~ (<<y, x>> \in R)
  <2>1. T \subseteq Nat
    OBVIOUS
  <2> HIDE DEF R, T
  <2> QED BY <1>1, <2>1, WFMin
<1>3. x - 1 \in T
  <2>1. x \in Nat /\ x \notin S /\ x # 0
    OBVIOUS
  <2>2. x - 1 \in Nat /\ (x - 1) + 1 = x
    BY <2>1
  <2>3. x - 1 \notin S
    BY <2>1, <2>2
  <2> QED BY <2>2, <2>3
<1>4. <<x - 1, x>> \in R
  <2>1. x - 1 \in Nat /\ x \in Nat /\ x - 1 < x
    BY <1>3
  <2> QED BY <2>1, Zenon DEF OpToRel
<1> QED BY <1>2, <1>3, <1>4

-----------------------------------------------------------------------------
(* The boxes                                                               *)

\* The boxes on the way to a leaf, as a function on the first n of them.
Way(f, leaf, n) ==
    f = [k \in 0 .. n |-> IF k = 0 THEN BBox ELSE Child(f[k - 1], leaf[k])]

\* genChildren comes to an end: the recursive function exists.
LEMMA BoxDef ==
    ASSUME NEW leaf
    PROVE  /\ Box(leaf)[0] = BBox
           /\ \A k \in 1 .. Depth : Box(leaf)[k] = Child(Box(leaf)[k - 1], leaf[k])
<1> DEFINE S == {n \in Nat : \E f : Way(f, leaf, n)}
<1>1. 0 \in S
  <2>1. Way([k \in 0 .. 0 |-> BBox], leaf, 0)
    BY DEF Way
  <2> QED BY <2>1
<1>2. ASSUME NEW n \in Nat, n \in S PROVE n + 1 \in S
  <2>1. PICK f : Way(f, leaf, n)
    BY <1>2
  <2> DEFINE g == [k \in 0 .. n + 1 |-> IF k \in 0 .. n THEN f[k] ELSE Child(f[n], leaf[n + 1])]
  <2>2. \A k \in 0 .. n + 1 : g[k] = IF k = 0 THEN BBox ELSE Child(g[k - 1], leaf[k])
    <3> SUFFICES ASSUME NEW k \in 0 .. n + 1
                 PROVE  g[k] = IF k = 0 THEN BBox ELSE Child(g[k - 1], leaf[k])
      OBVIOUS
    <3>1. CASE k = 0
      BY <2>1, <3>1 DEF Way
    <3>2. CASE k \in 1 .. n
      <4>1. k - 1 \in 0 .. n /\ k # 0 /\ k \in 0 .. n
        BY <3>2
      <4>2. g[k] = f[k] /\ g[k - 1] = f[k - 1]
        BY <4>1
      <4>3. f[k] = Child(f[k - 1], leaf[k])
        BY <2>1, <4>1 DEF Way
      <4> QED BY <4>1, <4>2, <4>3
    <3>3. CASE k = n + 1
      <4>1. k - 1 = n /\ k # 0 /\ n \in 0 .. n /\ k \notin 0 .. n
        BY <3>3
      <4>2. g[k - 1] = f[n] /\ g[k] = Child(f[n], leaf[n + 1])
        BY <3>3, <4>1
      <4> QED BY <3>3, <4>1, <4>2
    <3> QED BY <3>1, <3>2, <3>3
  <2>3. g = [k \in 0 .. n + 1 |-> IF k = 0 THEN BBox ELSE Child(g[k - 1], leaf[k])]
    <3>1. g = [k \in 0 .. n + 1 |-> g[k]]
      OBVIOUS
    <3> HIDE DEF g
    <3> QED BY <2>2, <3>1, Zenon
  <2>4. Way(g, leaf, n + 1)
    BY <2>3, Zenon DEF Way
  <2> QED BY <2>4
<1>3. Depth \in S
  <2> HIDE DEF S
  <2> QED BY <1>1, <1>2, SetInduction, BoundAssumption
<1>4. \E f : Way(f, leaf, Depth)
  BY <1>3
<1>5. Way(Box(leaf), leaf, Depth)
  <2>1. Box(leaf) = CHOOSE f : Way(f, leaf, Depth)
    BY DEF Box, Way
  <2> QED BY <1>4, <2>1
<1> QED BY <1>5, BoundAssumption DEF Way

\* A child that holds a point of the box exists, and First is one.
LEMMA FirstHolds ==
    ASSUME NEW b \in IntBox, NEW p \in Coordinate, Within(b, p)
    PROVE  /\ First(b, p) \in 1 .. 4
           /\ Within(Child(b, First(b, p)), p)
<1> DEFINE cx == (b.left + b.right) \div 2
           cy == (b.top + b.bottom) \div 2
           H(i) == Within(Child(b, i), p)
           F(i) == H(i) /\ \A j \in 1 .. i - 1 : ~ H(j)
<1>1. /\ b.left \in Int /\ b.right \in Int /\ b.top \in Int /\ b.bottom \in Int
      /\ p.x \in Int /\ p.y \in Int /\ cx \in Int /\ cy \in Int
  BY DEF IntBox, Coordinate
<1>2. /\ Child(b, 1) = [left |-> b.left, bottom |-> cy, right |-> cx, top |-> b.top]
      /\ Child(b, 2) = [left |-> cx, bottom |-> cy, right |-> b.right, top |-> b.top]
      /\ Child(b, 3) = [left |-> b.left, bottom |-> b.bottom, right |-> cx, top |-> cy]
      /\ Child(b, 4) = [left |-> cx, bottom |-> b.bottom, right |-> b.right, top |-> cy]
  BY DEF Child
<1> HIDE DEF cx, cy
<1>3. H(1) \/ H(2) \/ H(3) \/ H(4)
  BY <1>1, <1>2 DEF Within
<1> HIDE DEF H
<1>4. \E i \in 1 .. 4 : F(i)
  <2>1. H(1) => F(1)
    OBVIOUS
  <2>2. H(2) /\ ~ H(1) => F(2)
    <3>1. \A j \in 1 .. 2 - 1 : j = 1
      OBVIOUS
    <3> QED BY <3>1
  <2>3. H(3) /\ ~ H(1) /\ ~ H(2) => F(3)
    <3>1. \A j \in 1 .. 3 - 1 : j = 1 \/ j = 2
      OBVIOUS
    <3> QED BY <3>1
  <2>4. H(4) /\ ~ H(1) /\ ~ H(2) /\ ~ H(3) => F(4)
    <3>1. \A j \in 1 .. 4 - 1 : j = 1 \/ j = 2 \/ j = 3
      OBVIOUS
    <3> QED BY <3>1
  <2>5. F(1) \/ F(2) \/ F(3) \/ F(4)
    BY <1>3, <2>1, <2>2, <2>3, <2>4
  <2> HIDE DEF F
  <2> QED BY <2>5
<1>5. First(b, p) = CHOOSE i \in 1 .. 4 : F(i)
  BY DEF First, F, H
<1>6. First(b, p) \in 1 .. 4 /\ F(First(b, p))
  <2> HIDE DEF F
  <2> QED BY <1>4, <1>5
<1> QED BY <1>6 DEF H

\* The coordinates of a child are whole numbers: the centre is rounded.
LEMMA ChildType ==
    ASSUME NEW b \in IntBox, NEW i \in 1 .. 4
    PROVE  Child(b, i) \in IntBox
<1>1. /\ (b.left + b.right) \div 2 \in Int
      /\ (b.top + b.bottom) \div 2 \in Int
  BY DEF IntBox
<1>2. i = 1 \/ i = 2 \/ i = 3 \/ i = 4
  OBVIOUS
<1> QED BY <1>1, <1>2 DEF Child, IntBox

\* Leaves that agree on their first n steps have the first boxes in common.
LEMMA BoxAgree ==
    ASSUME NEW n \in 0 .. Depth, NEW leaf, NEW other,
           \A k \in 1 .. n : leaf[k] = other[k]
    PROVE  \A k \in 0 .. n : Box(leaf)[k] = Box(other)[k]
<1> DEFINE S == {k \in Nat : k <= n => Box(leaf)[k] = Box(other)[k]}
<1>1. 0 \in S
  BY BoxDef
<1>2. ASSUME NEW k \in Nat, k \in S PROVE k + 1 \in S
  <2> SUFFICES ASSUME k + 1 <= n PROVE Box(leaf)[k + 1] = Box(other)[k + 1]
    OBVIOUS
  <2>1. k + 1 \in 1 .. n /\ k + 1 \in 1 .. Depth /\ (k + 1) - 1 = k /\ k <= n
    BY BoundAssumption
  <2>2. Box(leaf)[k] = Box(other)[k]
    BY <1>2, <2>1
  <2> QED BY <2>1, <2>2, BoxDef
<1>3. Nat \subseteq S
  <2> HIDE DEF S
  <2> QED BY <1>1, <1>2, SetInduction
<1> QED BY <1>3, BoundAssumption

\* The boxes on the way to a leaf that follows First all hold the point.
LEMMA FollowHolds ==
    ASSUME NEW p \in Coordinate, Within(BBox, p), NEW n \in 0 .. Depth, NEW leaf,
           \A k \in 1 .. n : leaf[k] = First(Box(leaf)[k - 1], p)
    PROVE  \A k \in 0 .. n : Box(leaf)[k] \in IntBox /\ Within(Box(leaf)[k], p)
<1> DEFINE S == {k \in Nat : k <= n => Box(leaf)[k] \in IntBox /\ Within(Box(leaf)[k], p)}
<1>1. 0 \in S
  BY BoxDef, MapAssumption DEF IntBox
<1>2. ASSUME NEW k \in Nat, k \in S PROVE k + 1 \in S
  <2> SUFFICES ASSUME k + 1 <= n
               PROVE  Box(leaf)[k + 1] \in IntBox /\ Within(Box(leaf)[k + 1], p)
    OBVIOUS
  <2>1. k + 1 \in 1 .. n /\ k + 1 \in 1 .. Depth /\ (k + 1) - 1 = k /\ k <= n
    BY BoundAssumption
  <2>2. Box(leaf)[k] \in IntBox /\ Within(Box(leaf)[k], p)
    BY <1>2, <2>1
  <2>3. Box(leaf)[k + 1] = Child(Box(leaf)[k], First(Box(leaf)[k], p))
    BY <2>1, BoxDef
  <2> QED BY <2>2, <2>3, FirstHolds, ChildType
<1>3. Nat \subseteq S
  <2> HIDE DEF S
  <2> QED BY <1>1, <1>2, SetInduction
<1> QED BY <1>3, BoundAssumption

\* A point of the map has a leaf, and all the boxes on the way to it hold it.
LEMMA LeafHolds ==
    ASSUME NEW p \in Coordinate, Within(BBox, p)
    PROVE  /\ LeafOf(p) \in Leaf
           /\ \A k \in 0 .. Depth : /\ Box(LeafOf(p))[k] \in IntBox
                                    /\ Within(Box(LeafOf(p))[k], p)
<1> DEFINE Follows(leaf, n) == \A k \in 1 .. n : leaf[k] = First(Box(leaf)[k - 1], p)
           S == {n \in Nat : n <= Depth => \E leaf \in Leaf : Follows(leaf, n)}
<1>1. 0 \in S
  <2>1. [k \in 1 .. Depth |-> 1] \in Leaf
    BY DEF Leaf
  <2>2. Follows([k \in 1 .. Depth |-> 1], 0)
    OBVIOUS
  <2> QED BY <2>1, <2>2
<1>2. ASSUME NEW n \in Nat, n \in S PROVE n + 1 \in S
  <2> SUFFICES ASSUME n + 1 <= Depth PROVE \E leaf \in Leaf : Follows(leaf, n + 1)
    OBVIOUS
  <2>1. n \in 0 .. Depth /\ n <= Depth /\ n + 1 \in 1 .. Depth
    BY BoundAssumption
  <2>2. PICK leaf \in Leaf : Follows(leaf, n)
    BY <1>2, <2>1
  <2>3. Box(leaf)[n] \in IntBox /\ Within(Box(leaf)[n], p)
    BY <2>1, <2>2, FollowHolds
  <2>4. PICK i \in 1 .. 4 : i = First(Box(leaf)[n], p)
    BY <2>3, FirstHolds
  <2>5. PICK next \in Leaf : next = [leaf EXCEPT ![n + 1] = i]
    BY <2>1 DEF Leaf
  <2>6. next[n + 1] = i /\ \A k \in 1 .. n : next[k] = leaf[k]
    BY <2>1, <2>5, BoundAssumption DEF Leaf
  <2>7. \A k \in 0 .. n : Box(next)[k] = Box(leaf)[k]
    BY <2>1, <2>6, BoxAgree
  <2>8. Follows(next, n + 1)
    <3> SUFFICES ASSUME NEW k \in 1 .. n + 1
                 PROVE  next[k] = First(Box(next)[k - 1], p)
      OBVIOUS
    <3>1. CASE k \in 1 .. n
      <4>1. k - 1 \in 0 .. n
        BY <3>1
      <4> QED BY <2>2, <2>6, <2>7, <3>1, <4>1
    <3>2. CASE k = n + 1
      <4>1. k - 1 = n /\ n \in 0 .. n
        BY <3>2
      <4> QED BY <2>4, <2>6, <2>7, <3>2, <4>1
    <3> QED BY <3>1, <3>2
  <2> QED BY <2>8
<1>3. Depth \in S
  <2> HIDE DEF S
  <2> QED BY <1>1, <1>2, SetInduction, BoundAssumption
<1>4. \E leaf \in Leaf : Follows(leaf, Depth)
  BY <1>3, BoundAssumption
<1>5. LeafOf(p) \in Leaf /\ Follows(LeafOf(p), Depth)
  BY <1>4 DEF LeafOf
<1> QED BY <1>5, FollowHolds, BoundAssumption

\* A box with a point in the square is not passed over.
LEMMA MeetingBox ==
    ASSUME NEW b \in IntBox, NEW p \in Coordinate, NEW q \in Coordinate,
           Within(b, p), Inside(Square(q), p)
    PROVE  ~ Apart(Square(q), b)
BY BoundAssumption DEF IntBox, Coordinate, Within, Inside, Square, Apart

\* query finds what a look at every entry would find.
LEMMA SearchExact ==
    ASSUME NEW tr, NEW q \in Coordinate,
           \A e \in tr : /\ e.pos \in Coordinate /\ Within(BBox, e.pos)
                         /\ e.leaf = LeafOf(e.pos)
    PROVE  Search(tr, Square(q)) = {e \in tr : Inside(Square(q), e.pos)}
<1>1. \A e \in tr : Inside(Square(q), e.pos) => Visited(e.leaf, Square(q))
  <2> SUFFICES ASSUME NEW e \in tr, Inside(Square(q), e.pos), NEW k \in 0 .. Depth
               PROVE  ~ Apart(Square(q), Box(e.leaf)[k])
    BY DEF Visited
  <2> QED BY LeafHolds, MeetingBox
<1> QED BY <1>1 DEF Search

-----------------------------------------------------------------------------
(* The invariant                                                           *)

Thing == [id : Id \cup {0}, pos : Coordinate, qtree : Leaf \cup {<< >>}, list : SUBSET Id]

\* An entry is of a character and a position of the map, in its leaf.
Placed(e) == /\ e \in [leaf : Leaf, id : Id, pos : Point]
             /\ e.leaf = LeafOf(e.pos) /\ Within(BBox, e.pos)

TypeInv ==
    /\ \A e \in tree : Placed(e)
    /\ nobj \in 0 .. MaxObject /\ nupdate \in 0 .. MaxUpdate
    /\ object \in [Id -> 0 .. nobj]
    /\ obj \in [Object -> Thing]
    /\ \A id \in Id : object[id] # 0 => obj[object[id]].id = id
    /\ \A n \in 1 .. nobj : obj[n].id \in Id /\ obj[n].id \notin obj[n].list
    /\ strayed \subseteq moved
    /\ \A m \in updating : /\ m.id \in Id /\ m.id \in moved
                           /\ m.c \in 1 .. nobj /\ obj[m.c].id = m.id
                           /\ m.pos \in Point

\* The tree and the lists, as far as characters that never moved go.
SightInv ==
    /\ \A e \in tree : e.id \notin moved =>
            object[e.id] # 0 /\ e.pos = obj[object[e.id]].pos
    /\ \A i \in Id \ moved : object[i] # 0 =>
            obj[object[i]].qtree = LeafOf(obj[object[i]].pos)
    /\ \A i, j \in Id \ moved : i # j /\ object[i] # 0 =>
            (Sees(i, j) <=> /\ object[j] # 0
                            /\ Inside(Square(obj[object[i]].pos), obj[object[j]].pos))

AoiInv == TypeInv /\ SightInv /\ Findable

\* The positions characters take have whole coordinates.
LEMMA PointType == Point \subseteq Coordinate
BY MapAssumption DEF Coordinate

\* What is known of an entry in its place.
LEMMA PlacedPos ==
    ASSUME NEW e, Placed(e)
    PROVE  /\ e.pos \in Coordinate /\ Within(BBox, e.pos) /\ e.leaf = LeafOf(e.pos)
           /\ e.id \in Id
BY PointType DEF Placed

\* What a query answers.
LEMMA QueryExactly ==
    ASSUME NEW tr, \A e \in tr : Placed(e), NEW id, NEW q \in Coordinate
    PROVE  /\ Query(tr, id, Square(q)) \subseteq Id \ {id}
           /\ \A j : j \in Query(tr, id, Square(q)) <=>
                        /\ j # id
                        /\ \E e \in tr : e.id = j /\ Inside(Square(q), e.pos)
<1>1. Search(tr, Square(q)) = {e \in tr : Inside(Square(q), e.pos)}
  BY PlacedPos, SearchExact
<1> QED BY <1>1, PlacedPos DEF Query

\* The entries after a character was put into the tree.
LEMMA PutFacts ==
    ASSUME NEW tr, \A e \in tr : Placed(e), NEW id \in Id, NEW p \in Point, Within(BBox, p)
    PROVE  LET new == [leaf |-> LeafOf(p), id |-> id, pos |-> p]
               put == Put(tr, LeafOf(p), id, p)
           IN  /\ \A e \in put : Placed(e)
               /\ new \in put /\ new.id = id /\ new.pos = p
               /\ \A e \in put : e = new \/ e \in tr
               /\ \A e \in tr : e.id # id => e \in put
<1> DEFINE new == [leaf |-> LeafOf(p), id |-> id, pos |-> p]
<1>1. LeafOf(p) \in Leaf
  BY PointType, LeafHolds
<1>2. Placed(new) /\ new.id = id /\ new.pos = p
  BY <1>1 DEF Placed
<1> HIDE DEF new
<1>3. Put(tr, LeafOf(p), id, p) = Drop(tr, LeafOf(p), id) \cup {new}
  BY DEF Put, new
<1>4. /\ Drop(tr, LeafOf(p), id) \subseteq tr
      /\ \A e \in tr : e.id # id => e \in Drop(tr, LeafOf(p), id)
  BY DEF Drop
<1>5. /\ \A e \in Put(tr, LeafOf(p), id, p) : Placed(e)
      /\ new \in Put(tr, LeafOf(p), id, p)
      /\ \A e \in Put(tr, LeafOf(p), id, p) : e = new \/ e \in tr
      /\ \A e \in tr : e.id # id => e \in Put(tr, LeafOf(p), id, p)
  BY <1>2, <1>3, <1>4
<1> QED BY <1>2, <1>5 DEF new

\* An object after its list was changed.
LEMMA ListChanged ==
    ASSUME NEW t \in Thing, NEW list \in SUBSET Id,
           NEW u, u = [t EXCEPT !.list = list]
    PROVE  /\ u \in Thing
           /\ u.id = t.id /\ u.pos = t.pos /\ u.qtree = t.qtree /\ u.list = list
BY DEF Thing

\* The objects after a newcomer was added to the lists of a set of characters.
LEMMA MutualFields ==
    ASSUME NEW o \in [Object -> Thing], NEW S, NEW id \in Id,
           NEW f, f = Mutual(o, S, id)
    PROVE  /\ f \in [Object -> Thing]
           /\ \A n \in Object :
                 /\ f[n].id = o[n].id /\ f[n].pos = o[n].pos /\ f[n].qtree = o[n].qtree
                 /\ f[n].list = IF \E j \in S : object[j] = n
                                THEN o[n].list \cup {id} ELSE o[n].list
<1> DEFINE Hit(n) == \E j \in S : object[j] = n
<1>2. /\ f = [n \in Object |-> f[n]]
      /\ \A n \in Object : f[n] = IF Hit(n) THEN [o[n] EXCEPT !.list = @ \cup {id}] ELSE o[n]
  BY Zenon DEF Mutual
<1>3. \A n \in Object : /\ f[n] \in Thing
                        /\ f[n].id = o[n].id /\ f[n].pos = o[n].pos
                        /\ f[n].qtree = o[n].qtree
                        /\ f[n].list = IF Hit(n) THEN o[n].list \cup {id} ELSE o[n].list
  <2> SUFFICES ASSUME NEW n \in Object
               PROVE  /\ f[n] \in Thing
                      /\ f[n].id = o[n].id /\ f[n].pos = o[n].pos
                      /\ f[n].qtree = o[n].qtree
                      /\ f[n].list = IF Hit(n) THEN o[n].list \cup {id} ELSE o[n].list
    BY Zenon
  <2>1. PICK list : list = o[n].list \cup {id}
    OBVIOUS
  <2>2. o[n] \in Thing /\ list \in SUBSET Id
    BY <2>1 DEF Thing
  <2>3. f[n] = IF Hit(n) THEN [o[n] EXCEPT !.list = list] ELSE o[n]
    BY <1>2, <2>1, Zenon
  <2> HIDE DEF Hit
  <2> QED BY <2>1, <2>2, <2>3, ListChanged
<1>4. f \in [Object -> Thing]
  BY <1>2, <1>3
<1> QED BY <1>3, <1>4, Zenon

\* The objects after a character was taken out of the lists of a set of others.
LEMMA SeparateFields ==
    ASSUME NEW o \in [Object -> Thing], NEW S, NEW id \in Id,
           NEW f, f = Separate(o, S, id)
    PROVE  /\ f \in [Object -> Thing]
           /\ \A n \in Object :
                 /\ f[n].id = o[n].id /\ f[n].pos = o[n].pos /\ f[n].qtree = o[n].qtree
                 /\ f[n].list = IF \E j \in S : object[j] = n
                                THEN o[n].list \ {id} ELSE o[n].list
<1> DEFINE Hit(n) == \E j \in S : object[j] = n
<1>2. /\ f = [n \in Object |-> f[n]]
      /\ \A n \in Object : f[n] = IF Hit(n) THEN [o[n] EXCEPT !.list = @ \ {id}] ELSE o[n]
  BY Zenon DEF Separate
<1>3. \A n \in Object : /\ f[n] \in Thing
                        /\ f[n].id = o[n].id /\ f[n].pos = o[n].pos
                        /\ f[n].qtree = o[n].qtree
                        /\ f[n].list = IF Hit(n) THEN o[n].list \ {id} ELSE o[n].list
  <2> SUFFICES ASSUME NEW n \in Object
               PROVE  /\ f[n] \in Thing
                      /\ f[n].id = o[n].id /\ f[n].pos = o[n].pos
                      /\ f[n].qtree = o[n].qtree
                      /\ f[n].list = IF Hit(n) THEN o[n].list \ {id} ELSE o[n].list
    BY Zenon
  <2>1. PICK list : list = o[n].list \ {id}
    OBVIOUS
  <2>2. o[n] \in Thing /\ list \in SUBSET Id
    BY <2>1 DEF Thing
  <2>3. f[n] = IF Hit(n) THEN [o[n] EXCEPT !.list = list] ELSE o[n]
    BY <1>2, <2>1, Zenon
  <2> HIDE DEF Hit
  <2> QED BY <2>1, <2>2, <2>3, ListChanged
<1>4. f \in [Object -> Thing]
  BY <1>2, <1>3
<1> QED BY <1>3, <1>4, Zenon

\* Characters share no object.
LEMMA OwnObject ==
    ASSUME TypeInv, NEW i \in Id, object[i] # 0
    PROVE  /\ object[i] \in 1 .. nobj /\ object[i] \in Object
           /\ obj[object[i]] \in Thing
           /\ obj[object[i]].id = i /\ i \notin obj[object[i]].list
           /\ obj[object[i]].pos \in Coordinate
           /\ \A j \in Id : object[j] = object[i] => j = i
<1>1. object[i] \in 1 .. nobj /\ object[i] \in Object
  BY BoundAssumption DEF TypeInv, Object
<1>2. obj[object[i]] \in Thing
  BY <1>1 DEF TypeInv
<1>3. \A j \in Id : object[j] = object[i] => j = i
  BY DEF TypeInv
<1> QED BY <1>1, <1>2, <1>3 DEF TypeInv, Thing

\* Who is near is near to him.
LEMMA NearBoth ==
    ASSUME NEW p \in Coordinate, NEW q \in Coordinate
    PROVE  Inside(Square(p), q) <=> Inside(Square(q), p)
BY BoundAssumption DEF Coordinate, Inside, Square

\* A character that never moved has entries where it is, and nowhere else.
LEMMA UnmovedEntry ==
    ASSUME AoiInv, NEW i \in Id \ moved, NEW q
    PROVE  object[i] # 0 =>
             ((\E e \in tree : e.id = i /\ Inside(q, e.pos))
                <=> Inside(q, obj[object[i]].pos))
BY DEF AoiInv, TypeInv, SightInv, Findable, OnMap

\* The empty map.
LEMMA InitAoi == Init => AoiInv
<1> SUFFICES ASSUME Init PROVE AoiInv
  OBVIOUS
<1>1. None \in Thing
  BY DEF None, Thing, Coordinate
<1>2. TypeInv
  BY <1>1, BoundAssumption DEF Init, TypeInv
<1> QED BY <1>2 DEF Init, AoiInv, SightInv, Findable, OnMap

-----------------------------------------------------------------------------
(* One lemma per action                                                    *)

\* aoi.insert: the newcomer's list is exact by the query, and the others it
\* finds get it into theirs.
LEMMA InsertAoi ==
    ASSUME AoiInv, NEW id \in Id, NEW p \in Point, Insert(id, p)
    PROVE  AoiInv'
<1> DEFINE n == nobj + 1
<1>1. TypeInv /\ SightInv /\ Findable
  BY DEF AoiInv
<1>2. PICK tr : tr = Put(tree, LeafOf(p), id, p)
  OBVIOUS
<1>3. PICK list : list = {j \in Query(tr, id, Square(p)) : object[j] # 0}
  OBVIOUS
<1>4. PICK new : new = [id |-> id, pos |-> p, qtree |-> LeafOf(p), list |-> list]
  OBVIOUS
<1>5. /\ object[id] = 0 /\ nobj < MaxObject /\ Within(BBox, p)
      /\ tree' = tr /\ nobj' = n
      /\ obj' = [Mutual(obj, list, id) EXCEPT ![n] = new]
      /\ object' = [object EXCEPT ![id] = n]
      /\ UNCHANGED <<updating, nupdate, moved, strayed>>
  BY <1>2, <1>3, <1>4 DEF Insert
<1>6. p \in Coordinate
  BY PointType
<1>7. PICK e0 : e0 = [leaf |-> LeafOf(p), id |-> id, pos |-> p]
  OBVIOUS
<1>8. /\ \A e \in tr : Placed(e)
      /\ e0 \in tr /\ e0.id = id /\ e0.pos = p
      /\ \A e \in tr : e = e0 \/ e \in tree
      /\ \A e \in tree : e.id # id => e \in tr
  BY <1>1, <1>2, <1>5, <1>7, PutFacts DEF TypeInv
<1>9. /\ list \subseteq Id \ {id}
      /\ \A j \in Id : j \in list <=>
            /\ j # id /\ object[j] # 0
            /\ \E e \in tr : e.id = j /\ Inside(Square(p), e.pos)
  BY <1>3, <1>6, <1>8, QueryExactly
<1>10. /\ n \in Object /\ n \notin 1 .. nobj /\ n \in Nat /\ n # 0 /\ nobj \in Nat
       /\ n \in 0 .. MaxObject /\ 1 .. n = (1 .. nobj) \cup {n}
       /\ 0 .. nobj \subseteq 0 .. n
  BY <1>1, <1>5, BoundAssumption DEF TypeInv, Object
<1>11. new \in Thing /\ new.id = id /\ new.pos = p /\ new.qtree = LeafOf(p) /\ new.list = list
  <2>1. LeafOf(p) \in Leaf
    BY <1>5, <1>6, LeafHolds
  <2>2. list \in SUBSET Id
    BY <1>9
  <2> QED BY <1>4, <1>6, <2>1, <2>2 DEF Thing
<1>12. PICK o : o = Mutual(obj, list, id)
  OBVIOUS
<1>13. /\ o \in [Object -> Thing]
       /\ \A k \in Object :
             /\ o[k].id = obj[k].id /\ o[k].pos = obj[k].pos /\ o[k].qtree = obj[k].qtree
             /\ o[k].list = IF \E j \in list : object[j] = k
                            THEN obj[k].list \cup {id} ELSE obj[k].list
  <2>1. obj \in [Object -> Thing]
    BY <1>1 DEF TypeInv
  <2> QED BY <1>12, <2>1, MutualFields
<1>14. /\ obj' \in [Object -> Thing] /\ obj'[n] = new
       /\ \A k \in Object : k # n => obj'[k] = o[k]
  BY <1>5, <1>10, <1>11, <1>12, <1>13
<1>15. /\ object' \in [Id -> 0 .. n] /\ object'[id] = n
       /\ \A i \in Id : i # id => object'[i] = object[i]
  BY <1>1, <1>5, <1>10 DEF TypeInv
\* The others' objects: they are old ones, and have the newcomer in their
\* lists when it has them in its own.
<1>16. \A k \in 1 .. nobj : k \in Object /\ k # n /\ obj'[k] = o[k] /\ obj'[k].id = obj[k].id
  <2> SUFFICES ASSUME NEW k \in 1 .. nobj
               PROVE  k \in Object /\ k # n /\ obj'[k] = o[k] /\ obj'[k].id = obj[k].id
    OBVIOUS
  <2>1. k \in Object /\ k # n
    BY <1>5, <1>10, BoundAssumption DEF Object
  <2>2. obj'[k] = o[k]
    BY <1>14, <2>1
  <2> QED BY <1>13, <2>1, <2>2
<1>17. ASSUME NEW i \in Id, i # id, object[i] # 0
       PROVE  /\ object'[i] = object[i] /\ object[i] \in 1 .. nobj
              /\ obj'[object[i]].id = i
              /\ obj'[object[i]].pos = obj[object[i]].pos
              /\ obj'[object[i]].qtree = obj[object[i]].qtree
              /\ obj'[object[i]].list = IF i \in list THEN obj[object[i]].list \cup {id}
                                        ELSE obj[object[i]].list
  <2>1. object[i] \in 1 .. nobj /\ obj[object[i]].id = i
    BY <1>1, <1>17, OwnObject
  <2>2. (\E j \in list : object[j] = object[i]) <=> i \in list
    BY <1>1, <1>9, <1>17, OwnObject
  <2> QED BY <1>13, <1>15, <1>16, <1>17, <2>1, <2>2
<1>18. TypeInv'
  <2>1. \A i \in Id : object'[i] # 0 => obj'[object'[i]].id = i
    BY <1>11, <1>14, <1>15, <1>17
  <2>2. \A k \in 1 .. n : obj'[k].id \in Id /\ obj'[k].id \notin obj'[k].list
    <3>1. obj'[n].id \in Id /\ obj'[n].id \notin obj'[n].list
      BY <1>9, <1>11, <1>14
    <3>2. ASSUME NEW k \in 1 .. nobj
          PROVE  obj'[k].id \in Id /\ obj'[k].id \notin obj'[k].list
      <4>1. obj[k].id \in Id /\ obj[k].id \notin obj[k].list
        BY <1>1 DEF TypeInv
      <4>2. \A j \in list : object[j] = k => obj[k].id = j
        BY <1>1, <1>9, <3>2 DEF TypeInv
      <4>3. k \in Object /\ obj'[k] = o[k] /\ o[k].id = obj[k].id
        BY <1>13, <1>16
      <4>4. CASE \E j \in list : object[j] = k
        <5>1. o[k].list = obj[k].list \cup {id}
          BY <1>13, <4>3, <4>4
        <5>2. obj[k].id # id
          BY <1>9, <4>2, <4>4
        <5> QED BY <4>1, <4>3, <5>1, <5>2
      <4>5. CASE ~ \E j \in list : object[j] = k
        <5>1. o[k].list = obj[k].list
          BY <1>13, <4>3, <4>5
        <5> QED BY <4>1, <4>3, <5>1
      <4> QED BY <4>4, <4>5
    <3> QED BY <1>10, <3>1, <3>2
  <2>3. \A m \in updating : /\ m.id \in Id /\ m.id \in moved
                            /\ m.c \in 1 .. n /\ obj'[m.c].id = m.id /\ m.pos \in Point
    BY <1>1, <1>10, <1>16 DEF TypeInv
  <2> QED BY <1>1, <1>5, <1>8, <1>10, <1>14, <1>15, <2>1, <2>2, <2>3 DEF TypeInv, Placed
<1>19. \A e \in tr : e.id \notin moved =>
         object'[e.id] # 0 /\ e.pos = obj'[object'[e.id]].pos
  <2> SUFFICES ASSUME NEW e \in tr, e.id \notin moved
               PROVE  object'[e.id] # 0 /\ e.pos = obj'[object'[e.id]].pos
    OBVIOUS
  <2>1. CASE e = e0
    BY <2>1, <1>8, <1>10, <1>11, <1>14, <1>15
  <2>2. CASE e \in tree
    <3>1. e.id \in Id
      BY <1>8, PlacedPos
    <3>2. object[e.id] # 0 /\ e.pos = obj[object[e.id]].pos
      BY <1>1, <2>2 DEF SightInv
    <3> QED BY <1>5, <1>17, <3>1, <3>2
  <2> QED BY <1>8, <2>1, <2>2
<1>20. \A i \in Id \ moved : object'[i] # 0 =>
         obj'[object'[i]].qtree = LeafOf(obj'[object'[i]].pos)
  <2> SUFFICES ASSUME NEW i \in Id \ moved, object'[i] # 0
               PROVE  obj'[object'[i]].qtree = LeafOf(obj'[object'[i]].pos)
    OBVIOUS
  <2>1. CASE i = id
    BY <2>1, <1>11, <1>14, <1>15
  <2>2. CASE i # id
    <3>1. object[i] # 0
      BY <1>15, <2>2
    <3>2. obj[object[i]].qtree = LeafOf(obj[object[i]].pos)
      BY <1>1, <3>1 DEF SightInv
    <3> QED BY <1>17, <2>2, <3>1, <3>2
  <2> QED BY <2>1, <2>2
<1>21. ASSUME NEW i \in Id \ moved, NEW j \in Id \ moved, i # j, object'[i] # 0
       PROVE  j \in obj'[object'[i]].list <=>
                /\ object'[j] # 0
                /\ Inside(Square(obj'[object'[i]].pos), obj'[object'[j]].pos)
  <2>1. \A k \in Id \ moved : k # id =>
           (k \in list <=> object[k] # 0 /\ Inside(Square(p), obj[object[k]].pos))
    <3> SUFFICES ASSUME NEW k \in Id \ moved, k # id, object[k] # 0
                 PROVE  k \in list <=> Inside(Square(p), obj[object[k]].pos)
      BY <1>9
    <3>1. (\E e \in tr : e.id = k /\ Inside(Square(p), e.pos))
             <=> (\E e \in tree : e.id = k /\ Inside(Square(p), e.pos))
      BY <1>8
    <3> QED BY <1>9, <3>1, UnmovedEntry
  <2>2. CASE i = id
    <3>1. j # id /\ object'[j] = object[j] /\ obj'[object'[i]] = new
      BY <1>14, <1>15, <1>21, <2>2
    <3>2. object[j] # 0 => obj'[object'[j]].pos = obj[object[j]].pos
      BY <1>17, <3>1
    <3> QED BY <1>11, <2>1, <3>1, <3>2
  <2>3. CASE i # id /\ j = id
    <3>1. object[i] # 0
      BY <1>15, <1>21, <2>3
    <3>2. id \notin obj[object[i]].list
      BY <1>1, <1>5, <1>21, <2>3, <3>1 DEF SightInv, Sees
    <3>3. id \in obj'[object'[i]].list <=> i \in list
      BY <1>17, <2>3, <3>1, <3>2
    <3>4. obj'[object'[i]].pos = obj[object[i]].pos /\ obj[object[i]].pos \in Coordinate
      BY <1>1, <1>17, <2>3, <3>1, OwnObject
    <3>5. object'[j] # 0 /\ obj'[object'[j]].pos = p
      BY <1>10, <1>11, <1>14, <1>15, <2>3
    <3> QED BY <1>6, <2>1, <2>3, <3>1, <3>3, <3>4, <3>5, NearBoth
  <2>4. CASE i # id /\ j # id
    <3>1. object[i] # 0 /\ object'[j] = object[j]
      BY <1>15, <1>21, <2>4
    <3>2. j \in obj'[object'[i]].list <=> j \in obj[object[i]].list
      <4>1. obj'[object'[i]].list = IF i \in list THEN obj[object[i]].list \cup {id}
                                    ELSE obj[object[i]].list
        BY <1>17, <2>4, <3>1
      <4> QED BY <2>4, <4>1
    <3>3. j \in obj[object[i]].list <=>
            object[j] # 0 /\ Inside(Square(obj[object[i]].pos), obj[object[j]].pos)
      BY <1>1, <1>21, <3>1 DEF SightInv, Sees
    <3> QED BY <1>17, <2>4, <3>1, <3>2, <3>3
  <2> QED BY <2>2, <2>3, <2>4
<1>22. SightInv'
  BY <1>5, <1>19, <1>20, <1>21 DEF SightInv, Sees
<1>23. Findable'
  <2> SUFFICES ASSUME NEW i \in Id, object'[i] # 0, i \notin strayed
               PROVE  \E e \in tr : e.id = i /\ e.pos = obj'[object'[i]].pos
    BY <1>5 DEF Findable, OnMap
  <2>1. CASE i = id
    BY <2>1, <1>8, <1>11, <1>14, <1>15
  <2>2. CASE i # id
    <3>1. object[i] # 0 /\ obj'[object'[i]].pos = obj[object[i]].pos
      BY <1>15, <1>17, <2>2
    <3>2. PICK e \in tree : e.id = i /\ e.pos = obj[object[i]].pos
      BY <1>1, <3>1 DEF Findable, OnMap
    <3> QED BY <1>8, <2>2, <3>1, <3>2
  <2> QED BY <2>1, <2>2
<1> QED BY <1>18, <1>22, <1>23 DEF AoiInv

\* aoi.remove: an entry of a character that never moved is in the leaf its
\* object names, and who has it in his list is in its own.
LEMMA RemoveAoi ==
    ASSUME AoiInv, NEW id \in Id, Remove(id)
    PROVE  AoiInv'
<1>1. TypeInv /\ SightInv /\ Findable
  BY DEF AoiInv
<1>2. PICK c : c = obj[object[id]]
  OBVIOUS
<1>3. /\ object[id] # 0
      /\ tree' = Drop(tree, c.qtree, id)
      /\ obj' = Separate(obj, c.list, id)
      /\ object' = [object EXCEPT ![id] = 0]
      /\ UNCHANGED <<nobj, updating, nupdate, moved, strayed>>
  BY <1>2 DEF Remove
<1>4. /\ \A e \in tree' : e \in tree /\ ~ (e.leaf = c.qtree /\ e.id = id)
      /\ \A e \in tree : e.id # id => e \in tree'
  BY <1>3 DEF Drop
<1>5. PICK o : o = Separate(obj, c.list, id)
  OBVIOUS
<1>6. /\ o \in [Object -> Thing]
      /\ \A k \in Object :
            /\ o[k].id = obj[k].id /\ o[k].pos = obj[k].pos /\ o[k].qtree = obj[k].qtree
            /\ o[k].list = IF \E j \in c.list : object[j] = k
                           THEN obj[k].list \ {id} ELSE obj[k].list
  <2>1. obj \in [Object -> Thing]
    BY <1>1 DEF TypeInv
  <2> QED BY <1>5, <2>1, SeparateFields
<1>7. obj' = o
  BY <1>3, <1>5
<1>8. /\ object' \in [Id -> 0 .. nobj] /\ object'[id] = 0
      /\ \A i \in Id : i # id => object'[i] = object[i]
  BY <1>1, <1>3 DEF TypeInv
<1>9. c \in Thing /\ c.list \subseteq Id
  BY <1>1, <1>2, <1>3, OwnObject DEF Thing
<1>10. ASSUME NEW i \in Id, object'[i] # 0
       PROVE  /\ i # id /\ object[i] # 0 /\ object'[i] = object[i]
              /\ obj'[object[i]].id = i
              /\ obj'[object[i]].pos = obj[object[i]].pos
              /\ obj'[object[i]].qtree = obj[object[i]].qtree
              /\ obj'[object[i]].list = IF i \in c.list THEN obj[object[i]].list \ {id}
                                        ELSE obj[object[i]].list
  <2>1. i # id /\ object'[i] = object[i] /\ object[i] # 0
    BY <1>8, <1>10
  <2>2. object[i] \in Object /\ obj[object[i]].id = i
    BY <1>1, <2>1, OwnObject
  <2>3. (\E j \in c.list : object[j] = object[i]) <=> i \in c.list
    BY <1>1, <1>9, <2>1, OwnObject
  <2> QED BY <1>6, <1>7, <2>1, <2>2, <2>3
<1>11. TypeInv'
  <2>1. \A i \in Id : object'[i] # 0 => obj'[object'[i]].id = i
    BY <1>10
  <2>2. ASSUME NEW k \in 1 .. nobj
        PROVE  obj'[k].id = obj[k].id /\ obj'[k].id \in Id /\ obj'[k].id \notin obj'[k].list
    <3>1. obj[k].id \in Id /\ obj[k].id \notin obj[k].list
      BY <1>1 DEF TypeInv
    <3>2. k \in Object
      BY <1>1, BoundAssumption DEF TypeInv, Object
    <3>3. o[k].id = obj[k].id /\ o[k].list \subseteq obj[k].list
      <4>1. CASE \E j \in c.list : object[j] = k
        BY <1>6, <3>2, <4>1
      <4>2. CASE ~ \E j \in c.list : object[j] = k
        BY <1>6, <3>2, <4>2
      <4> QED BY <4>1, <4>2
    <3> QED BY <1>7, <3>1, <3>3
  <2> QED BY <1>1, <1>3, <1>4, <1>6, <1>7, <1>8, <2>1, <2>2 DEF TypeInv, Placed
<1>12. \A e \in tree' : e.id \notin moved =>
         object'[e.id] # 0 /\ e.pos = obj'[object'[e.id]].pos
  <2> SUFFICES ASSUME NEW e \in tree', e.id \notin moved
               PROVE  object'[e.id] # 0 /\ e.pos = obj'[object'[e.id]].pos
    OBVIOUS
  <2>1. e \in tree /\ e.id \in Id /\ e.leaf = LeafOf(e.pos)
    BY <1>1, <1>4, PlacedPos DEF TypeInv
  <2>2. object[e.id] # 0 /\ e.pos = obj[object[e.id]].pos
    BY <1>1, <2>1 DEF SightInv
  <2>3. e.id # id
    <3> SUFFICES ASSUME e.id = id PROVE FALSE
      OBVIOUS
    <3>1. c.qtree = LeafOf(c.pos) /\ e.pos = c.pos
      BY <1>1, <1>2, <2>1, <2>2 DEF SightInv
    <3> QED BY <1>4, <2>1, <3>1
  <2>4. object'[e.id] # 0
    BY <1>8, <2>1, <2>2, <2>3
  <2> QED BY <1>10, <2>1, <2>2, <2>4
<1>13. \A i \in Id \ moved : object'[i] # 0 =>
         obj'[object'[i]].qtree = LeafOf(obj'[object'[i]].pos)
  <2> SUFFICES ASSUME NEW i \in Id \ moved, object'[i] # 0
               PROVE  obj'[object'[i]].qtree = LeafOf(obj'[object'[i]].pos)
    OBVIOUS
  <2>1. object[i] # 0
    BY <1>10
  <2>2. obj[object[i]].qtree = LeafOf(obj[object[i]].pos)
    BY <1>1, <2>1 DEF SightInv
  <2> QED BY <1>10, <2>2
<1>14. ASSUME NEW i \in Id \ moved, NEW j \in Id \ moved, i # j, object'[i] # 0
       PROVE  j \in obj'[object'[i]].list <=>
                /\ object'[j] # 0
                /\ Inside(Square(obj'[object'[i]].pos), obj'[object'[j]].pos)
  <2>1. /\ i # id /\ object[i] # 0 /\ object'[i] = object[i]
        /\ obj'[object'[i]].pos = obj[object[i]].pos
        /\ obj'[object'[i]].list = IF i \in c.list THEN obj[object[i]].list \ {id}
                                   ELSE obj[object[i]].list
    BY <1>10, <1>14
  <2>2. j \in obj[object[i]].list <=>
          object[j] # 0 /\ Inside(Square(obj[object[i]].pos), obj[object[j]].pos)
    BY <1>1, <1>14, <2>1 DEF SightInv, Sees
  <2>3. CASE j = id
    <3>1. i \notin c.list => j \notin obj[object[i]].list
      <4> SUFFICES ASSUME i \notin c.list PROVE ~ Inside(Square(obj[object[i]].pos), c.pos)
        BY <1>2, <2>2, <2>3
      <4>1. ~ Inside(Square(c.pos), obj[object[i]].pos)
        BY <1>1, <1>2, <1>3, <1>14, <2>1, <2>3 DEF SightInv, Sees
      <4>2. c.pos \in Coordinate /\ obj[object[i]].pos \in Coordinate
        BY <1>1, <1>2, <1>3, <2>1, OwnObject
      <4> QED BY <4>1, <4>2, NearBoth
    <3>2. j \notin obj'[object'[i]].list
      BY <2>1, <2>3, <3>1
    <3> QED BY <1>8, <2>3, <3>2
  <2>4. CASE j # id
    <3>1. object'[j] = object[j]
      BY <1>8, <2>4
    <3>2. j \in obj'[object'[i]].list <=> j \in obj[object[i]].list
      BY <2>1, <2>4
    <3> QED BY <1>10, <2>1, <2>2, <3>1, <3>2
  <2> QED BY <2>3, <2>4
<1>15. SightInv'
  BY <1>3, <1>12, <1>13, <1>14 DEF SightInv, Sees
<1>16. Findable'
  <2> SUFFICES ASSUME NEW i \in Id, object'[i] # 0, i \notin strayed
               PROVE  \E e \in tree' : e.id = i /\ e.pos = obj'[object'[i]].pos
    BY <1>3 DEF Findable, OnMap
  <2>1. i # id /\ object[i] # 0 /\ obj'[object'[i]].pos = obj[object[i]].pos
    BY <1>10
  <2>2. PICK e \in tree : e.id = i /\ e.pos = obj[object[i]].pos
    BY <1>1, <2>1 DEF Findable, OnMap
  <2> QED BY <1>4, <2>1, <2>2
<1> QED BY <1>11, <1>15, <1>16 DEF AoiInv

\* aoi.update up to its line of log: from here on the character counts as moved.
LEMMA UpdateBeginAoi ==
    ASSUME AoiInv, NEW id \in Id, NEW p \in Point, UpdateBegin(id, p)
    PROVE  AoiInv'
<1>1. TypeInv /\ SightInv /\ Findable
  BY DEF AoiInv
<1>2. PICK m : m = [id |-> id, c |-> object[id], pos |-> p]
  OBVIOUS
<1>3. /\ object[id] # 0 /\ nupdate < MaxUpdate
      /\ updating' = updating \cup {m} /\ nupdate' = nupdate + 1
      /\ moved' = moved \cup {id}
      /\ UNCHANGED <<tree, object, obj, nobj, strayed>>
  BY <1>2 DEF UpdateBegin
<1>4. /\ m.id = id /\ m.pos = p
      /\ m.c \in 1 .. nobj /\ obj[m.c].id = id
  BY <1>1, <1>2, <1>3, OwnObject
<1>5. TypeInv'
  <2>1. nupdate' \in 0 .. MaxUpdate
    BY <1>1, <1>3, BoundAssumption DEF TypeInv
  <2> QED BY <1>1, <1>3, <1>4, <2>1 DEF TypeInv
<1>6. SightInv'
  BY <1>1, <1>3 DEF SightInv, Sees
<1>7. Findable'
  BY <1>1, <1>3 DEF Findable, OnMap
<1> QED BY <1>5, <1>6, <1>7 DEF AoiInv

\* aoi.update to a place off the map: only entries of the moved one go.
LEMMA UpdateOutsideAoi ==
    ASSUME AoiInv, NEW m \in updating, UpdateOutside(m)
    PROVE  AoiInv'
<1>1. TypeInv /\ SightInv /\ Findable
  BY DEF AoiInv
<1>2. /\ updating' = updating \ {m}
      /\ strayed' = strayed \cup {m.id}
      /\ UNCHANGED <<object, obj, nobj, nupdate, moved>>
      /\ \A e \in tree' : e \in tree
      /\ \A e \in tree : e.id # m.id => e \in tree'
  BY DEF UpdateOutside, Drop
<1>3. m.id \in moved
  BY <1>1 DEF TypeInv
<1>4. TypeInv'
  BY <1>1, <1>2, <1>3 DEF TypeInv, Placed
<1>5. SightInv'
  BY <1>1, <1>2 DEF SightInv, Sees
<1>6. Findable'
  BY <1>1, <1>2 DEF Findable, OnMap
<1> QED BY <1>4, <1>5, <1>6 DEF AoiInv

\* The rest of aoi.update: the object may be stale, but it was the moved one's.
LEMMA UpdateEndAoi ==
    ASSUME AoiInv, NEW m \in updating, UpdateEnd(m)
    PROVE  AoiInv'
<1>1. TypeInv /\ SightInv /\ Findable
  BY DEF AoiInv
<1>2. /\ m.id \in Id /\ m.id \in moved /\ m.pos \in Point /\ m.pos \in Coordinate
      /\ m.c \in 1 .. nobj /\ m.c \in Object /\ obj[m.c].id = m.id /\ obj[m.c] \in Thing
  BY <1>1, PointType, BoundAssumption DEF TypeInv, Object
<1>3. PICK dropped : dropped = Drop(tree, obj[m.c].qtree, m.id)
  OBVIOUS
<1>4. PICK tr : tr = Put(dropped, LeafOf(m.pos), m.id, m.pos)
  OBVIOUS
<1>5. PICK nlist : nlist = Query(tr, m.id, Square(m.pos))
  OBVIOUS
<1>6. /\ Within(BBox, m.pos) /\ updating' = updating \ {m}
      /\ tree' = tr
      /\ obj' = [obj EXCEPT ![m.c].pos = m.pos, ![m.c].list = nlist]
      /\ strayed' = IF object[m.id] = m.c THEN strayed ELSE strayed \cup {m.id}
      /\ UNCHANGED <<object, nobj, nupdate, moved>>
  BY <1>3, <1>4, <1>5 DEF UpdateEnd, Moved
<1>7. PICK e0 : e0 = [leaf |-> LeafOf(m.pos), id |-> m.id, pos |-> m.pos]
  OBVIOUS
<1>8. /\ \A e \in dropped : e \in tree /\ Placed(e)
      /\ \A e \in tree : e.id # m.id => e \in dropped
  BY <1>1, <1>3 DEF Drop, TypeInv
<1>9. /\ \A e \in tr : Placed(e)
      /\ e0 \in tr /\ e0.id = m.id /\ e0.pos = m.pos
      /\ \A e \in tr : e = e0 \/ e \in dropped
      /\ \A e \in dropped : e.id # m.id => e \in tr
  BY <1>2, <1>4, <1>6, <1>7, <1>8, PutFacts
<1>10. nlist \subseteq Id \ {m.id}
  BY <1>2, <1>5, <1>9, QueryExactly
<1>11. /\ obj' \in [Object -> Thing]
       /\ \A k \in Object : k # m.c => obj'[k] = obj[k]
       /\ obj'[m.c].id = m.id /\ obj'[m.c].pos = m.pos /\ obj'[m.c].list = nlist
  <2>1. PICK at : at = obj[m.c]
    OBVIOUS
  <2>2. PICK t : t = [at EXCEPT !.pos = m.pos, !.list = nlist]
    OBVIOUS
  <2>3. at \in Thing /\ at.id = m.id
    BY <1>2, <2>1
  <2>4. t \in Thing /\ t.id = m.id /\ t.pos = m.pos /\ t.list = nlist
    BY <1>2, <1>10, <2>2, <2>3 DEF Thing
  <2>5. obj' = [obj EXCEPT ![m.c] = t]
    BY <1>2, <1>6, <2>1, <2>2
  <2>6. obj \in [Object -> Thing]
    BY <1>1 DEF TypeInv
  <2> QED BY <1>2, <2>4, <2>5, <2>6
<1>12. \A i \in Id : i # m.id /\ object[i] # 0 => obj'[object[i]] = obj[object[i]]
  BY <1>1, <1>2, <1>11, OwnObject
<1>13. TypeInv'
  <2>1. \A i \in Id : object[i] # 0 => obj'[object[i]].id = i
    <3> SUFFICES ASSUME NEW i \in Id, object[i] # 0 PROVE obj'[object[i]].id = i
      OBVIOUS
    <3>1. object[i] \in Object /\ obj[object[i]].id = i
      BY <1>1, OwnObject
    <3> QED BY <1>2, <1>11, <3>1
  <2>2. ASSUME NEW k \in 1 .. nobj
        PROVE  obj'[k].id = obj[k].id /\ obj'[k].id \in Id /\ obj'[k].id \notin obj'[k].list
    <3>1. k \in Object /\ obj[k].id \in Id /\ obj[k].id \notin obj[k].list
      BY <1>1, BoundAssumption DEF TypeInv, Object
    <3>2. CASE k = m.c
      BY <1>2, <1>10, <1>11, <3>2
    <3>3. CASE k # m.c
      BY <1>11, <3>1, <3>3
    <3> QED BY <3>2, <3>3
  <2>3. strayed' \subseteq moved
    BY <1>1, <1>2, <1>6 DEF TypeInv
  <2> QED BY <1>1, <1>6, <1>9, <1>11, <2>1, <2>2, <2>3 DEF TypeInv, Placed
<1>14. SightInv'
  <2>1. \A i \in Id \ moved : object[i] # 0 => obj'[object[i]] = obj[object[i]]
    BY <1>2, <1>12
  <2>2. \A e \in tr : e.id \notin moved =>
          object[e.id] # 0 /\ e.pos = obj'[object[e.id]].pos
    <3> SUFFICES ASSUME NEW e \in tr, e.id \notin moved
                 PROVE  object[e.id] # 0 /\ e.pos = obj'[object[e.id]].pos
      OBVIOUS
    <3>1. e \in tree /\ e.id \in Id
      BY <1>2, <1>8, <1>9, PlacedPos
    <3> QED BY <1>1, <2>1, <3>1 DEF SightInv
  <2>3. \A i \in Id \ moved : object[i] # 0 =>
          obj'[object[i]].qtree = LeafOf(obj'[object[i]].pos)
    BY <1>1, <2>1 DEF SightInv
  <2>4. \A i, j \in Id \ moved : i # j /\ object[i] # 0 =>
          (j \in obj'[object[i]].list <=>
             object[j] # 0 /\ Inside(Square(obj'[object[i]].pos), obj'[object[j]].pos))
    BY <1>1, <2>1 DEF SightInv, Sees
  <2> QED BY <1>6, <2>2, <2>3, <2>4 DEF SightInv, Sees
<1>15. Findable'
  <2> SUFFICES ASSUME NEW i \in Id, object[i] # 0, i \notin strayed'
               PROVE  \E e \in tr : e.id = i /\ e.pos = obj'[object[i]].pos
    <3>1. tree' = tr /\ object' = object
      BY <1>6
    <3> QED BY <3>1 DEF Findable, OnMap
  <2>1. CASE i = m.id
    BY <1>6, <1>9, <1>11, <2>1
  <2>2. CASE i # m.id
    <3>1. i \notin strayed
      BY <1>6
    <3>2. PICK e \in tree : e.id = i /\ e.pos = obj[object[i]].pos
      BY <1>1, <3>1 DEF Findable, OnMap
    <3> QED BY <1>8, <1>9, <1>12, <2>2, <3>2
  <2> QED BY <2>1, <2>2
<1> QED BY <1>13, <1>14, <1>15 DEF AoiInv

\* Every step keeps the invariant.
LEMMA NextAoi == AoiInv /\ [Next]_vars => AoiInv'
<1> SUFFICES ASSUME AoiInv, [Next]_vars PROVE AoiInv'
  OBVIOUS
<1>1. CASE Next
  BY <1>1, InsertAoi, RemoveAoi, UpdateBeginAoi, UpdateOutsideAoi, UpdateEndAoi DEF Next
<1>2. CASE UNCHANGED vars
  BY <1>2 DEF vars, AoiInv, TypeInv, SightInv, Findable, OnMap, Sees
<1> QED BY <1>1, <1>2

\* The invariant holds in every reachable state.
LEMMA AoiHolds == Spec => []AoiInv
<1>1. Init => AoiInv
  BY InitAoi
<1>2. AoiInv /\ [Next]_vars => AoiInv'
  BY NextAoi
<1> QED BY <1>1, <1>2, PTL DEF Spec

-----------------------------------------------------------------------------
(* The theorems                                                            *)

\* The tree holds every entry in the leaf of its position, and an object is of
\* the character that has it and never in its own list: aoi.insert, aoi.remove
\* and the two halves of aoi.update, in every order.
THEOREM TypeHolds == Spec => []TypeOK
<1>1. AoiInv => TypeOK
  <2> SUFFICES ASSUME AoiInv PROVE TypeOK
    OBVIOUS
  <2>1. TypeInv
    BY DEF AoiInv
  <2>2. ASSUME NEW n \in 1 .. nobj PROVE obj[n].list \subseteq Id \ {obj[n].id}
    <3>1. n \in Object
      BY <2>1, BoundAssumption DEF TypeInv, Object
    <3> QED BY <2>1, <3>1 DEF TypeInv, Thing
  <2> QED BY <2>1, <2>2 DEF TypeInv, TypeOK, Placed
<1> QED BY <1>1, AoiHolds, PTL

\* quadtree.query passes over no entry of its square: for every map, depth,
\* radius and set of positions, the search down the boxes is exact.
THEOREM QueryExactHolds == Spec => []QueryExact
<1>1. AoiInv => QueryExact
  <2> SUFFICES ASSUME AoiInv, NEW p \in Point
               PROVE  Search(tree, Square(p)) = {e \in tree : Inside(Square(p), e.pos)}
    BY DEF QueryExact
  <2>1. \A e \in tree : e.pos \in Coordinate /\ Within(BBox, e.pos) /\ e.leaf = LeafOf(e.pos)
    BY PlacedPos DEF AoiInv, TypeInv
  <2>2. p \in Coordinate
    BY PointType
  <2> QED BY <2>1, <2>2, SearchExact
<1> QED BY <1>1, AoiHolds, PTL

\* The lists of aoi.lua are exact and mutual among characters that never moved.
THEOREM UnmovedSeeEachOtherHolds == Spec => []UnmovedSeeEachOther
<1>1. AoiInv => UnmovedSeeEachOther
  BY DEF AoiInv, SightInv, UnmovedSeeEachOther, OnMap
<1> QED BY <1>1, AoiHolds, PTL

\* aoi.remove leaves no entry of a character that never moved.
THEOREM NoGhostHolds == Spec => []NoGhost
<1>1. AoiInv => NoGhost
  BY PlacedPos DEF AoiInv, TypeInv, SightInv, NoGhost, OnMap
<1> QED BY <1>1, AoiHolds, PTL

\* A character on the map has an entry where its object says it is.
THEOREM FindableHolds == Spec => []Findable
<1>1. AoiInv => Findable
  BY DEF AoiInv
<1> QED BY <1>1, AoiHolds, PTL
=============================================================================
