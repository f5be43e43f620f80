-------------------------------- MODULE Aoi ---------------------------------
(***************************************************************************)
(* The area of interest of a map: lualib/map/aoi.lua over the quadtree of  *)
(* lualib/map/quadtree.lua, as map.lua uses them.  aoi.insert and          *)
(* aoi.remove run without a pause; aoi.update looks its object up, writes  *)
(* a line of log, which is a call, and goes on with the object it found.   *)
(*                                                                         *)
(* The tree is the set of the entries of its leaves; a leaf is named by the*)
(* path of child numbers that leads to it.  Objects are tables that        *)
(* coroutines hold on to, so they have an identity, a number.              *)
(***************************************************************************)
EXTENDS Integers, Sequences, FiniteSets

CONSTANTS
    Id,          \* the characters (agents) of the map
    BBox,        \* conf.bbox
    Depth,       \* MAX_DEPTH
    Radius,      \* conf.radius
    Point,       \* the positions characters take, some outside the map
    MaxObject,   \* bound: insertions
    MaxUpdate    \* bound: updates

ASSUME BoundAssumption ==
    /\ Depth \in Nat /\ Radius \in Nat
    /\ MaxObject \in Nat /\ MaxUpdate \in Nat
ASSUME MapAssumption ==
    /\ BBox \in [left : Int, bottom : Int, right : Int, top : Int]
    /\ Point \subseteq [x : Int, y : Int]

VARIABLES
    tree,        \* entries of the quadtree
    object,      \* the object of each character, or 0
    obj,         \* the objects: id, pos, qtree (its leaf), list
    nobj,        \* objects made so far
    updating,    \* coroutines suspended in aoi.update
    nupdate,     \* updates begun so far
    moved,       \* history: characters that were ever updated
    strayed      \* history: characters updated to a place off the map, or
                 \* through an object that was removed meanwhile

vars == <<tree, object, obj, nobj, updating, nupdate, moved, strayed>>

Object == 1 .. MaxObject
Leaf == [1 .. Depth -> 1 .. 4]
None == [id |-> 0, pos |-> [x |-> 0, y |-> 0], qtree |-> << >>, list |-> {}]

Init ==
    /\ tree = {}
    /\ object = [id \in Id |-> 0]
    /\ obj = [n \in Object |-> None]
    /\ nobj = 0
    /\ updating = {}
    /\ nupdate = 0
    /\ moved = {}
    /\ strayed = {}

-----------------------------------------------------------------------------
(* quadtree.lua                                                            *)

\* The child i of a box: top left, top right, bottom left, bottom right.
Child(b, i) ==
    LET cx == (b.left + b.right) \div 2
        cy == (b.top + b.bottom) \div 2
    IN  CASE i = 1 -> [left |-> b.left, bottom |-> cy, right |-> cx, top |-> b.top]
          [] i = 2 -> [left |-> cx, bottom |-> cy, right |-> b.right, top |-> b.top]
          [] i = 3 -> [left |-> b.left, bottom |-> b.bottom, right |-> cx, top |-> cy]
          [] i = 4 -> [left |-> cx, bottom |-> b.bottom, right |-> b.right, top |-> cy]

Within(b, p) == /\ b.left <= p.x /\ p.x <= b.right
                /\ b.bottom <= p.y /\ p.y <= b.top

\* The boxes on the way to a leaf, from the root to the leaf.
Box(leaf) ==
    LET box[k \in 0 .. Depth] ==
            IF k = 0 THEN BBox ELSE Child(box[k - 1], leaf[k])
    IN  box

\* insert goes into the first child that holds the point, down to a leaf.
First(b, p) == CHOOSE i \in 1 .. 4 : /\ Within(Child(b, i), p)
                                     /\ \A j \in 1 .. i - 1 : ~ Within(Child(b, j), p)

LeafOf(p) == CHOOSE leaf \in Leaf :
                \A k \in 1 .. Depth : leaf[k] = First(Box(leaf)[k - 1], p)

\* Mutant: remove looks for the character at the root, which holds no entry.
DropAtRoot(tr, leaf, id) == {e \in tr : ~ (e.leaf = << >> /\ e.id = id)}
Drop(tr, leaf, id) == {e \in tr : ~ (e.leaf = leaf /\ e.id = id)}
Put(tr, leaf, id, p) == Drop(tr, leaf, id) \cup {[leaf |-> leaf, id |-> id, pos |-> p]}

\* The square of an area of interest, without its border.
Square(p) == [left |-> p.x - Radius, right |-> p.x + Radius,
              bottom |-> p.y - Radius, top |-> p.y + Radius]
Inside(q, p) == q.left < p.x /\ p.x < q.right /\ q.bottom < p.y /\ p.y < q.top

\* Mutant: top and bottom are swapped, as if y grew downwards.
ApartSwapped(q, b) == \/ q.left > b.right    \/ q.right < b.left
                      \/ q.bottom < b.bottom \/ q.top > b.top
Apart(q, b) == \/ q.left > b.right  \/ q.right < b.left
               \/ q.top < b.bottom  \/ q.bottom > b.top

\* query goes into the boxes that are not apart from the square, and finds the
\* entries of the leaves it gets to that are in the square.
Visited(leaf, q) == \A k \in 0 .. Depth : ~ Apart(q, Box(leaf)[k])
Search(tr, q) == {e \in tr : Visited(e.leaf, q) /\ Inside(q, e.pos)}

Query(tr, id, q) == {e.id : e \in Search(tr, q)} \ {id}

-----------------------------------------------------------------------------
(* aoi.lua                                                                 *)

\* Mutant: only the newcomer learns of the others.
MutualForgotten(o, S, id) == o
\* The lists of the objects in S, with id added or taken away.
Mutual(o, S, id) ==
    [n \in Object |-> IF \E j \in S : object[j] = n
                      THEN [o[n] EXCEPT !.list = @ \cup {id}] ELSE o[n]]
Separate(o, S, id) ==
    [n \in Object |-> IF \E j \in S : object[j] = n
                      THEN [o[n] EXCEPT !.list = @ \ {id}] ELSE o[n]]

\* aoi.insert, for a character that has no object and a position on the map.
Insert(id, p) ==
    /\ object[id] = 0
    /\ nobj < MaxObject
    /\ Within(BBox, p)
    /\ LET tr == Put(tree, LeafOf(p), id, p)
           list == {j \in Query(tr, id, Square(p)) : object[j] # 0}
           new == [id |-> id, pos |-> p, qtree |-> LeafOf(p), list |-> list]
       IN  /\ tree' = tr
           /\ obj' = [Mutual(obj, list, id) EXCEPT ![nobj + 1] = new]
    /\ nobj' = nobj + 1
    /\ object' = [object EXCEPT ![id] = nobj + 1]
    /\ UNCHANGED <<updating, nupdate, moved, strayed>>

\* aoi.remove
Remove(id) ==
    /\ object[id] # 0
    /\ LET c == obj[object[id]] IN
        /\ tree' = Drop(tree, c.qtree, id)
        /\ obj' = Separate(obj, c.list, id)
    /\ object' = [object EXCEPT ![id] = 0]
    /\ UNCHANGED <<nobj, updating, nupdate, moved, strayed>>

\* aoi.update up to its line of log: the object is looked up.
UpdateBegin(id, p) ==
    /\ object[id] # 0
    /\ nupdate < MaxUpdate
    /\ updating' = updating \cup {[id |-> id, c |-> object[id], pos |-> p]}
    /\ nupdate' = nupdate + 1
    /\ moved' = moved \cup {id}
    /\ UNCHANGED <<tree, object, obj, nobj, strayed>>

\* The rest: the entry is taken out of the leaf the object names, which stays
\* its first leaf, and put into the leaf of the new position, if there is one.
UpdateOutside(m) ==
    /\ ~ Within(BBox, m.pos)
    /\ updating' = updating \ {m}
    /\ tree' = Drop(tree, obj[m.c].qtree, m.id)
    /\ strayed' = strayed \cup {m.id}
    /\ UNCHANGED <<object, obj, nobj, nupdate, moved>>

\* Mutant: the entry goes back into the leaf the object names.
MovedInPlace(tr, leaf, id, p) == Put(tr, leaf, id, p)
\* Mutant: the new entry is put before the old one is taken out.
MovedThenDropped(tr, leaf, id, p) == Drop(Put(tr, LeafOf(p), id, p), leaf, id)
Moved(tr, leaf, id, p) == Put(Drop(tr, leaf, id), LeafOf(p), id, p)

UpdateEnd(m) ==
    /\ Within(BBox, m.pos)
    /\ updating' = updating \ {m}
    /\ LET c == obj[m.c]
           tr == Moved(tree, c.qtree, m.id, m.pos)
           nlist == Query(tr, m.id, Square(m.pos))
       IN  /\ tree' = tr
           /\ obj' = [obj EXCEPT ![m.c].pos = m.pos, ![m.c].list = nlist]
    /\ strayed' = IF object[m.id] = m.c THEN strayed ELSE strayed \cup {m.id}
    /\ UNCHANGED <<object, nobj, nupdate, moved>>

Next ==
    \/ \E id \in Id : \/ \E p \in Point : Insert(id, p) \/ UpdateBegin(id, p)
                      \/ Remove(id)
    \/ \E m \in updating : UpdateOutside(m) \/ UpdateEnd(m)

Spec == Init /\ [][Next]_vars

-----------------------------------------------------------------------------
(* Properties                                                              *)

\* The shape of the state: an object belongs to the character that has it.
TypeOK ==
    /\ tree \subseteq [leaf : Leaf, id : Id, pos : Point]
    /\ \A e \in tree : e.leaf = LeafOf(e.pos)
    /\ nobj \in 0 .. MaxObject /\ nupdate \in 0 .. MaxUpdate
    /\ \A id \in Id : /\ object[id] \in 0 .. nobj
                      /\ object[id] # 0 => obj[object[id]].id = id
    /\ \A n \in 1 .. nobj : obj[n].list \subseteq Id \ {obj[n].id}

\* The descent of quadtree.query through the boxes finds what a look at every
\* entry would find, for every square and wherever the centres of the boxes
\* fall: on an entry, on a border of the square, or off the middle of a box of
\* odd width.
QueryExact ==
    \A p \in Point :
        Search(tree, Square(p)) = {e \in tree : Inside(Square(p), e.pos)}

Sees(i, j) == j \in obj[object[i]].list
OnMap == {id \in Id : object[id] # 0}

\* Among characters that never moved the lists of aoi.lua are exact and mutual,
\* through every order of arrivals and departures: each holds the other when
\* it is within its radius.
UnmovedSeeEachOther ==
    \A i, j \in OnMap \ moved :
        i # j => (Sees(i, j) <=> Inside(Square(obj[object[i]].pos), obj[object[j]].pos))

\* No entry is left of a character that never moved and is gone.
NoGhost ==
    \A e \in tree : e.id \notin moved => e.id \in OnMap

\* However often it moved, a character stays findable where it is: every query
\* around its position meets its entry, even while old entries of it are left.
Findable ==
    \A id \in OnMap \ strayed :
        \E e \in tree : e.id = id /\ e.pos = obj[object[id]].pos

\* What map.lua:30 and map.lua:46 call the list of those in view: the list of
\* a character holds the characters within its radius.  The code does not keep
\* it: aoi.update tells nobody's list but its own.
ViewList ==
    \A i, j \in OnMap :
        i # j => (Sees(i, j) <=> Inside(Square(obj[object[i]].pos), obj[object[j]].pos))
=============================================================================
