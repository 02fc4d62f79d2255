--------------------------- MODULE TileJobsProofs ---------------------------
(***************************************************************************)
(* What DeepChildren lists and what a call of InvalidateAndPrime reports,  *)
(* for any tile, any zoom level and any number of workers: JobInv is shown *)
(* to be inductive, and the properties of TileJobs follow from it.         *)
(***************************************************************************)
EXTENDS TileJobs, FunctionTheorems, FiniteSetTheorems, WellFoundedInduction, TLAPS

-----------------------------------------------------------------------------
(***************************************************************************)
(* Numbers and sizes.                                                      *)
(***************************************************************************)

\* A set of numbers has a least one.
LEMMA LeastOf ==
    ASSUME NEW T, T \subseteq Nat, T # {}
    PROVE  \E x \in T : \A y \in T : x <= y
<1> DEFINE R == OpToRel(<, Nat)
<1>1. IsWellFoundedOn(R, Nat)
    BY NatLessThanWellFounded
<1>2. \A x, y \in Nat : y < x => <<y, x>> \in R
    BY DEF OpToRel
<1> HIDE DEF R
<1>3. PICK x \in T : \A y \in T : ~(<<y, x>> \in R)
    BY <1>1, WFMin
<1>4. \A y \in T : ~(y < x)
    BY <1>2, <1>3
<1> QED
    BY <1>4

\* A power of two is the number of subsets.
LEMMA PowerCounts ==
    ASSUME NEW n \in Nat
    PROVE  /\ IsFiniteSet(SUBSET (1..n))
           /\ Cardinality(SUBSET (1..n)) = 2 ^ n
           /\ 2 ^ n \in Nat
<1>1. IsFiniteSet(1..n) /\ Cardinality(1..n) = n
    BY FS_Interval
<1>2. IsFiniteSet(SUBSET (1..n)) /\ Cardinality(SUBSET (1..n)) = 2 ^ n
    BY <1>1, FS_SUBSET
<1> QED
    BY <1>2, FS_CardinalityType

\* Each one is twice the one before.
LEMMA PowerDoubles ==
    ASSUME NEW n \in Nat
    PROVE  2 ^ (n + 1) = 2 * 2 ^ n
<1> DEFINE P == SUBSET (1..n)
           Q == {s \cup {n + 1} : s \in P}
           f == [s \in P |-> s \cup {n + 1}]
<1>1. /\ IsFiniteSet(P) /\ Cardinality(P) = 2 ^ n /\ 2 ^ n \in Nat
      /\ Cardinality(SUBSET (1..(n + 1))) = 2 ^ (n + 1)
    BY PowerCounts
<1>2. \A s \in P : n + 1 \notin s
    OBVIOUS
<1>3. SUBSET (1..(n + 1)) = P \cup Q
  <2>1. ASSUME NEW s \in SUBSET (1..(n + 1))
        PROVE  s \in P \cup Q
    <3>1. s \ {n + 1} \in P
        OBVIOUS
    <3>2. CASE n + 1 \in s
      <4>1. s = (s \ {n + 1}) \cup {n + 1}
          BY <3>2
      <4> QED
          BY <3>1, <4>1
    <3>3. CASE n + 1 \notin s
        BY <3>1, <3>3
    <3> QED
        BY <3>2, <3>3
  <2>2. ASSUME NEW s \in P \cup Q
        PROVE  s \in SUBSET (1..(n + 1))
    <3>1. CASE s \in P
        BY <3>1
    <3>2. CASE s \in Q
      <4>1. PICK u \in P : s = u \cup {n + 1}
          BY <3>2
      <4> QED
          BY <4>1
    <3> QED
        BY <3>1, <3>2
  <2> HIDE DEF P, Q
  <2> QED
      BY <2>1, <2>2
<1>4. P \cap Q = {}
    BY <1>2
<1>5. f \in Bijection(P, Q)
  <2>1. \A s, u \in P : s \cup {n + 1} = u \cup {n + 1} => s = u
    <3> SUFFICES ASSUME NEW s \in P, NEW u \in P, s \cup {n + 1} = u \cup {n + 1}
                 PROVE  s = u
        OBVIOUS
    <3>1. s = (s \cup {n + 1}) \ {n + 1} /\ u = (u \cup {n + 1}) \ {n + 1}
        BY <1>2
    <3> QED
        BY <3>1
  <2>2. f \in [P -> Q] /\ (\A y \in Q : \E s \in P : f[s] = y)
      OBVIOUS
  <2>3. \A s, u \in P : f[s] = f[u] => s = u
      BY <2>1
  <2> QED
      BY <2>2, <2>3, Fun_IsBij
<1> HIDE DEF P, Q, f
<1>6. IsFiniteSet(Q) /\ Cardinality(Q) = Cardinality(P)
    BY <1>1, <1>5, FS_Bijection DEF ExistsBijection
<1>7. Cardinality(P \cup Q) = Cardinality(P) + Cardinality(Q) - Cardinality(P \cap Q)
    BY <1>1, <1>6, FS_Union
<1>8. Cardinality(P \cap Q) = 0
    BY <1>4, FS_EmptySet
<1>9. Cardinality(P \cup Q) = 2 ^ (n + 1)
    BY <1>1, <1>3
<1>10. \A m, c, d, e, k : m \in Nat /\ c = m /\ d = c /\ e = 0 /\ k = c + d - e => k = 2 * m
    OBVIOUS
<1> QED
    BY <1>1, <1>6, <1>7, <1>8, <1>9, <1>10

\* So all are positive, the first is one.
LEMMA PowerIsPositive ==
    /\ 2 ^ 0 = 1
    /\ \A n \in Nat : 2 ^ n \in Nat /\ 2 ^ n >= 1
<1>1. 2 ^ 0 = 1
    OBVIOUS
<1>2. ASSUME NEW n \in Nat
      PROVE  2 ^ n \in Nat /\ 2 ^ n >= 1
  <2>1. /\ IsFiniteSet(SUBSET (1..n)) /\ Cardinality(SUBSET (1..n)) = 2 ^ n /\ 2 ^ n \in Nat
      BY PowerCounts
  <2>2. {} \in SUBSET (1..n)
      OBVIOUS
  <2>3. 2 ^ n # 0
      BY <2>1, <2>2, FS_EmptySet
  <2> QED
      BY <2>1, <2>3
<1> QED
    BY <1>1, <1>2

-----------------------------------------------------------------------------
(***************************************************************************)
(* The levels below the root.                                              *)
(***************************************************************************)
Side(z) == 2 ^ (z - Root.Zoom)

\* The sides of the levels' squares.
LEMMA Sides ==
    /\ Side(Root.Zoom) = 1
    /\ \A z \in Int : z >= Root.Zoom => /\ Side(z) \in Nat /\ Side(z) >= 1
                                        /\ Side(z + 1) = 2 * Side(z)
<1>1. Root.Zoom \in Int
    BY DeepAssumption DEF Tile
<1>2. Side(Root.Zoom) = 1
  <2>1. Root.Zoom - Root.Zoom = 0
      BY <1>1
  <2> QED
      BY <2>1, PowerIsPositive DEF Side
<1>3. ASSUME NEW z \in Int, z >= Root.Zoom
      PROVE  /\ Side(z) \in Nat /\ Side(z) >= 1
             /\ Side(z + 1) = 2 * Side(z)
  <2>1. PICK k \in Nat : k = z - Root.Zoom
      BY <1>1, <1>3
  <2>2. (z + 1) - Root.Zoom = k + 1
      BY <1>1, <2>1
  <2>3. 2 ^ (k + 1) = 2 * 2 ^ k
      BY PowerDoubles
  <2>4. 2 ^ k \in Nat /\ 2 ^ k >= 1
      BY PowerIsPositive
  <2>5. Side(z) = 2 ^ k
      BY <2>1, Zenon DEF Side
  <2>6. Side(z + 1) = 2 ^ (k + 1)
      BY <2>2, Zenon DEF Side
  <2> QED
      BY <2>3, <2>4, <2>5, <2>6
<1> QED
    BY <1>2, <1>3

\* A coordinate of a tile of a level, as an offset and as a range.
LEMMA OffsetIsRange ==
    ASSUME NEW a \in Int, NEW n \in Nat, NEW x
    PROVE  (\E i \in 0..(n - 1) : x = a + i) <=> (x \in Int /\ a <= x /\ x < a + n)
<1>1. ASSUME NEW i \in 0..(n - 1), x = a + i
      PROVE  x \in Int /\ a <= x /\ x < a + n
    BY <1>1
<1>2. ASSUME x \in Int, a <= x, x < a + n
      PROVE  \E i \in 0..(n - 1) : x = a + i
  <2>1. x - a \in 0..(n - 1) /\ x = a + (x - a)
      BY <1>2
  <2> QED
      BY <2>1
<1> QED
    BY <1>1, <1>2

\* A level is a square of tiles.
LEMMA LevelIsSquare ==
    ASSUME NEW z \in Int, z >= Root.Zoom, NEW t
    PROVE  t \in Level(z) <=>
              /\ t \in Tile /\ t.Zoom = z
              /\ Side(z) * Root.X <= t.X /\ t.X < Side(z) * Root.X + Side(z)
              /\ Side(z) * Root.Y <= t.Y /\ t.Y < Side(z) * Root.Y + Side(z)
<1>1. Root.X \in Int /\ Root.Y \in Int
    BY DeepAssumption DEF Tile
<1>2. Side(z) \in Nat
    BY Sides
<1>3. PICK n, a, b : n = Side(z) /\ a = Side(z) * Root.X /\ b = Side(z) * Root.Y
    OBVIOUS
<1>4. n \in Nat /\ a \in Int /\ b \in Int
    BY <1>1, <1>2, <1>3
<1>5. Level(z) = {[X |-> a + i, Y |-> b + j, Zoom |-> z] : i, j \in 0..(n - 1)}
    BY <1>3 DEF Level, Side
<1>6. ASSUME t \in Level(z)
      PROVE  /\ t \in Tile /\ t.Zoom = z
             /\ a <= t.X /\ t.X < a + n /\ b <= t.Y /\ t.Y < b + n
  <2>1. PICK i, j \in 0..(n - 1) : t = [X |-> a + i, Y |-> b + j, Zoom |-> z]
      BY <1>5, <1>6
  <2> QED
      BY <1>4, <2>1 DEF Tile
<1>7. ASSUME t \in Tile, t.Zoom = z, a <= t.X, t.X < a + n, b <= t.Y, t.Y < b + n
      PROVE  t \in Level(z)
  <2>1. t.X \in Int /\ t.Y \in Int /\ t = [X |-> t.X, Y |-> t.Y, Zoom |-> z]
      BY <1>7 DEF Tile
  <2>2. PICK i \in 0..(n - 1) : t.X = a + i
      BY <1>4, <1>7, <2>1, OffsetIsRange
  <2>3. PICK j \in 0..(n - 1) : t.Y = b + j
      BY <1>4, <1>7, <2>1, OffsetIsRange
  <2> QED
      BY <1>5, <2>1, <2>2, <2>3
<1> QED
    BY <1>3, <1>6, <1>7

\* The root is all of its level.
LEMMA RootLevel ==
    /\ Root \in Tile /\ Root.Zoom \in Int /\ Root \in Level(Root.Zoom)
    /\ \A t \in Level(Root.Zoom) : t = Root
<1>1. Root \in Tile /\ Root.X \in Int /\ Root.Y \in Int /\ Root.Zoom \in Int
    BY DeepAssumption DEF Tile
<1>2. Side(Root.Zoom) = 1
    BY Sides
<1>3. ASSUME NEW t
      PROVE  t \in Level(Root.Zoom) <=>
                /\ t \in Tile /\ t.Zoom = Root.Zoom
                /\ Root.X <= t.X /\ t.X < Root.X + 1
                /\ Root.Y <= t.Y /\ t.Y < Root.Y + 1
    BY <1>1, <1>2, LevelIsSquare
<1>4. Root \in Level(Root.Zoom)
    BY <1>1, <1>3
<1>5. ASSUME NEW t \in Level(Root.Zoom)
      PROVE  t = Root
  <2>1. t \in Tile /\ t.Zoom = Root.Zoom /\ t.X = Root.X /\ t.Y = Root.Y
      BY <1>1, <1>3 DEF Tile
  <2> QED
      BY <1>1, <2>1 DEF Tile
<1> QED
    BY <1>1, <1>4, <1>5

\* Twice a level's side is the side of the next one.
LEMMA NextLevel ==
    ASSUME NEW z \in Int, z >= Root.Zoom, NEW t
    PROVE  LET n == Side(z)
               a == Side(z) * Root.X
               b == Side(z) * Root.Y
           IN  /\ n \in Nat /\ n >= 1 /\ a \in Int /\ b \in Int
               /\ t \in Level(z + 1) <=>
                     /\ t \in Tile /\ t.Zoom = z + 1
                     /\ 2 * a <= t.X /\ t.X < 2 * a + 2 * n
                     /\ 2 * b <= t.Y /\ t.Y < 2 * b + 2 * n
<1>1. Root.X \in Int /\ Root.Y \in Int /\ Root.Zoom \in Int
    BY DeepAssumption DEF Tile
<1>2. Side(z) \in Nat /\ Side(z) >= 1 /\ Side(z + 1) = 2 * Side(z)
    BY Sides
<1>3. /\ (2 * Side(z)) * Root.X = 2 * (Side(z) * Root.X)
      /\ (2 * Side(z)) * Root.Y = 2 * (Side(z) * Root.Y)
      /\ Side(z) * Root.X \in Int /\ Side(z) * Root.Y \in Int
    BY <1>1, <1>2
<1>4. z + 1 \in Int /\ z + 1 >= Root.Zoom
    BY <1>1
<1> QED
    BY <1>2, <1>3, <1>4, LevelIsSquare

\* The children of a level's tiles are on the next level.
LEMMA ChildrenOfLevel ==
    ASSUME NEW z \in Int, z >= Root.Zoom, NEW t \in Level(z), NEW c \in Children(t)
    PROVE  c \in Level(z + 1)
<1>1. PICK n, a, b : n = Side(z) /\ a = Side(z) * Root.X /\ b = Side(z) * Root.Y
    OBVIOUS
<1>2. n \in Nat /\ a \in Int /\ b \in Int
    BY <1>1, NextLevel
<1>3. /\ t \in Tile /\ t.Zoom = z
      /\ a <= t.X /\ t.X < a + n /\ b <= t.Y /\ t.Y < b + n
    BY <1>1, LevelIsSquare
<1>4. PICK i, j \in 0..1 : c = [X |-> 2 * t.X + i, Y |-> 2 * t.Y + j, Zoom |-> t.Zoom + 1]
    BY DEF Children
<1>5. /\ c \in Tile /\ c.Zoom = z + 1
      /\ 2 * a <= c.X /\ c.X < 2 * a + 2 * n
      /\ 2 * b <= c.Y /\ c.Y < 2 * b + 2 * n
    BY <1>2, <1>3, <1>4 DEF Tile
<1> QED
    BY <1>1, <1>5, NextLevel

\* A number is twice its half, or one more.
LEMMA HalfOf ==
    ASSUME NEW x \in Int
    PROVE  \E h \in Int, i \in 0..1 : x = 2 * h + i
<1>1. x \div 2 \in Int /\ x % 2 \in 0..1 /\ x = 2 * (x \div 2) + (x % 2)
    OBVIOUS
<1> QED
    BY <1>1

\* The tiles of the next level are children of the level's tiles.
LEMMA ParentLevel ==
    ASSUME NEW z \in Int, z >= Root.Zoom, NEW c \in Level(z + 1)
    PROVE  \E t \in Level(z) : c \in Children(t)
<1>1. PICK n, a, b : n = Side(z) /\ a = Side(z) * Root.X /\ b = Side(z) * Root.Y
    OBVIOUS
<1>2. /\ n \in Nat /\ a \in Int /\ b \in Int
      /\ c \in Tile /\ c.Zoom = z + 1
      /\ 2 * a <= c.X /\ c.X < 2 * a + 2 * n
      /\ 2 * b <= c.Y /\ c.Y < 2 * b + 2 * n
    BY <1>1, NextLevel
<1>3. c.X \in Int /\ c.Y \in Int /\ c = [X |-> c.X, Y |-> c.Y, Zoom |-> z + 1]
    BY <1>2 DEF Tile
<1>4. PICK p \in Int, i \in 0..1 : c.X = 2 * p + i
    BY <1>3, HalfOf
<1>5. PICK q \in Int, j \in 0..1 : c.Y = 2 * q + j
    BY <1>3, HalfOf
<1>6. PICK t : t = [X |-> p, Y |-> q, Zoom |-> z]
    OBVIOUS
<1>7. /\ t \in Tile /\ t.Zoom = z
      /\ a <= t.X /\ t.X < a + n /\ b <= t.Y /\ t.Y < b + n
    BY <1>2, <1>4, <1>5, <1>6 DEF Tile
<1>8. t \in Level(z)
    BY <1>1, <1>7, LevelIsSquare
<1>9. c \in Children(t)
    BY <1>3, <1>4, <1>5, <1>6 DEF Children
<1> QED
    BY <1>8, <1>9

\* A tile is the child of one tile.
LEMMA OneParent ==
    ASSUME NEW t \in Tile, NEW u \in Tile, NEW c, c \in Children(t), c \in Children(u)
    PROVE  t = u
<1>1. PICK i, j \in 0..1 : c = [X |-> 2 * t.X + i, Y |-> 2 * t.Y + j, Zoom |-> t.Zoom + 1]
    BY DEF Children
<1>2. PICK k, l \in 0..1 : c = [X |-> 2 * u.X + k, Y |-> 2 * u.Y + l, Zoom |-> u.Zoom + 1]
    BY DEF Children
<1>3. /\ t.X \in Int /\ t.Y \in Int /\ t.Zoom \in Int
      /\ u.X \in Int /\ u.Y \in Int /\ u.Zoom \in Int
      /\ t = [X |-> t.X, Y |-> t.Y, Zoom |-> t.Zoom]
      /\ u = [X |-> u.X, Y |-> u.Y, Zoom |-> u.Zoom]
    BY DEF Tile
<1>4. 2 * t.X + i = 2 * u.X + k /\ 2 * t.Y + j = 2 * u.Y + l /\ t.Zoom + 1 = u.Zoom + 1
    BY <1>1, <1>2
<1>5. t.X = u.X /\ t.Y = u.Y /\ t.Zoom = u.Zoom
    BY <1>3, <1>4
<1> QED
    BY <1>3, <1>5

\* A tile has four children.
LEMMA FourChildren ==
    ASSUME NEW t \in Tile
    PROVE  IsFiniteSet(Children(t)) /\ Cardinality(Children(t)) = 4
<1> DEFINE At(i, j) == [X |-> 2 * t.X + i, Y |-> 2 * t.Y + j, Zoom |-> t.Zoom + 1]
<1>1. t.X \in Int /\ t.Y \in Int /\ t.Zoom \in Int
    BY DEF Tile
<1>2. \A i, j, k, l \in 0..1 : At(i, j) = At(k, l) => i = k /\ j = l
    BY <1>1
<1>3. Children(t) = {At(0, 0), At(0, 1), At(1, 0), At(1, 1)}
  <2>1. 0..1 = {0, 1}
      OBVIOUS
  <2> QED
      BY <2>1 DEF Children
<1> HIDE DEF At
<1>4. IsFiniteSet({At(0, 0)}) /\ Cardinality({At(0, 0)}) = 1
    BY FS_Singleton
<1>5. At(0, 1) \notin {At(0, 0)}
    BY <1>2
<1>6. IsFiniteSet({At(0, 0), At(0, 1)}) /\ Cardinality({At(0, 0), At(0, 1)}) = 2
  <2>1. {At(0, 0), At(0, 1)} = {At(0, 0)} \cup {At(0, 1)}
      OBVIOUS
  <2> QED
      BY <1>4, <1>5, <2>1, FS_AddElement
<1>7. At(1, 0) \notin {At(0, 0), At(0, 1)}
    BY <1>2
<1>8. /\ IsFiniteSet({At(0, 0), At(0, 1), At(1, 0)})
      /\ Cardinality({At(0, 0), At(0, 1), At(1, 0)}) = 3
  <2>1. {At(0, 0), At(0, 1), At(1, 0)} = {At(0, 0), At(0, 1)} \cup {At(1, 0)}
      OBVIOUS
  <2> QED
      BY <1>6, <1>7, <2>1, FS_AddElement
<1>9. At(1, 1) \notin {At(0, 0), At(0, 1), At(1, 0)}
    BY <1>2
<1>10. /\ IsFiniteSet({At(0, 0), At(0, 1), At(1, 0), At(1, 1)})
       /\ Cardinality({At(0, 0), At(0, 1), At(1, 0), At(1, 1)}) = 4
  <2>1. {At(0, 0), At(0, 1), At(1, 0), At(1, 1)}
            = {At(0, 0), At(0, 1), At(1, 0)} \cup {At(1, 1)}
      OBVIOUS
  <2> QED
      BY <1>8, <1>9, <2>1, FS_AddElement
<1> QED
    BY <1>3, <1>10

\* The descendants: tiles at and below the root's level, with their children.
LEMMA DescendantsAreTiles ==
    /\ Root \in Descendants /\ Descendants \subseteq Tile
    /\ \A t \in Descendants : /\ t.Zoom \in Int /\ t.Zoom >= Root.Zoom
                              /\ t \in Level(t.Zoom)
    /\ \A t : t \in Descendants => t = Root \/ t.Zoom <= MaxZoom
<1>1. Root.Zoom \in Int /\ MaxZoom \in Int
    BY DeepAssumption DEF Tile
<1>2. ASSUME NEW t \in Descendants
      PROVE  /\ t \in Tile /\ t.Zoom \in Int /\ t.Zoom >= Root.Zoom
             /\ t \in Level(t.Zoom)
             /\ t = Root \/ t.Zoom <= MaxZoom
  <2>1. CASE t = Root
      BY <1>1, <2>1, RootLevel
  <2>2. CASE t \in UNION {Level(z) : z \in Root.Zoom..MaxZoom}
    <3>1. PICK z \in Root.Zoom..MaxZoom : t \in Level(z)
        BY <2>2
    <3>2. z \in Int /\ z >= Root.Zoom /\ z <= MaxZoom
        BY <1>1
    <3>3. t \in Tile /\ t.Zoom = z
        BY <3>1, <3>2, LevelIsSquare
    <3> QED
        BY <3>1, <3>2, <3>3
  <2> QED
      BY <2>1, <2>2 DEF Descendants
<1> QED
    BY <1>2 DEF Descendants

\* Above the deepest level the children are descendants.
LEMMA ChildrenBelow ==
    ASSUME NEW t \in Descendants, t.Zoom < MaxZoom
    PROVE  Children(t) \subseteq Descendants
<1>1. /\ t.Zoom \in Int /\ t.Zoom >= Root.Zoom /\ t \in Level(t.Zoom)
      /\ Root.Zoom \in Int /\ MaxZoom \in Int
    BY DescendantsAreTiles, DeepAssumption DEF Tile
<1>2. ASSUME NEW c \in Children(t)
      PROVE  c \in Descendants
  <2>1. c \in Level(t.Zoom + 1)
      BY <1>1, ChildrenOfLevel
  <2>2. t.Zoom + 1 \in Root.Zoom..MaxZoom
      BY <1>1
  <2> QED
      BY <2>1, <2>2 DEF Descendants
<1> QED
    BY <1>2

\* Below the root a descendant has a parent that is one.
LEMMA ParentAbove ==
    ASSUME NEW c \in Descendants \ {Root}
    PROVE  \E t \in Descendants : t.Zoom < c.Zoom /\ t.Zoom < MaxZoom /\ c \in Children(t)
<1>1. /\ c.Zoom \in Int /\ c.Zoom >= Root.Zoom /\ c \in Level(c.Zoom) /\ c.Zoom <= MaxZoom
      /\ Root.Zoom \in Int /\ MaxZoom \in Int
    BY DescendantsAreTiles, DeepAssumption DEF Tile
<1>2. c.Zoom # Root.Zoom
    BY <1>1, RootLevel
<1>3. PICK z \in Int : z = c.Zoom - 1
    BY <1>1
<1>4. z >= Root.Zoom /\ c.Zoom = z + 1 /\ z < MaxZoom /\ z \in Root.Zoom..MaxZoom
    BY <1>1, <1>2, <1>3
<1>5. PICK t \in Level(z) : c \in Children(t)
    BY <1>1, <1>4, ParentLevel
<1>6. t.Zoom = z
    BY <1>4, LevelIsSquare
<1>7. t \in Descendants
    BY <1>4 DEF Descendants
<1> QED
    BY <1>4, <1>5, <1>6, <1>7

-----------------------------------------------------------------------------
(***************************************************************************)
(* DeepInv holds when DeepChildren is called.                              *)
(***************************************************************************)
LEMMA DeepInitInv ==
    ASSUME DeepInit
    PROVE  DeepInv
<1>1. /\ sending = {Root} /\ sent = {} /\ wg = 1 /\ closed = FALSE
      /\ inHand = Nothing /\ tiles = {} /\ listed = Nothing
    BY DEF DeepInit
<1>2. Received = {} /\ Spawned = {Root} /\ Parents = {}
    BY <1>1 DEF Received, Spawned, Parents
<1>3. DeepTypes
    BY <1>1, DescendantsAreTiles DEF DeepTypes
<1>4. HandedOverOnce /\ SpawnedInOrder
    BY <1>1, <1>2 DEF HandedOverOnce, SpawnedInOrder
<1>5. Counted
  <2>1. IsFiniteSet({Root}) /\ Cardinality({Root}) = 1
      BY FS_Singleton
  <2>2. IsFiniteSet({}) /\ Cardinality({}) = 0
      BY FS_EmptySet
  <2> QED
      BY <1>1, <2>1, <2>2 DEF Counted
<1>6. NearlyComplete
    BY <1>1 DEF NearlyComplete
<1> QED
    BY <1>3, <1>4, <1>5, <1>6 DEF DeepInv

\* What DeepChildren leaves alone, DeepInv survives.
LEMMA DeepStutter ==
    ASSUME DeepInv, UNCHANGED deepVars
    PROVE  DeepInv'
<1>1. /\ sending' = sending /\ sent' = sent /\ wg' = wg /\ closed' = closed
      /\ inHand' = inHand /\ tiles' = tiles /\ listed' = listed
    BY DEF deepVars
<1>2. Received' = Received /\ Spawned' = Spawned /\ Parents' = Parents
    BY <1>1 DEF Received, Spawned, Parents
<1>3. DeepTypes' /\ HandedOverOnce'
    BY <1>1, <1>2 DEF DeepInv, DeepTypes, HandedOverOnce
<1>4. SpawnedInOrder'
    BY <1>2 DEF DeepInv, SpawnedInOrder
<1>5. Counted' /\ NearlyComplete'
    BY <1>1 DEF DeepInv, Counted, NearlyComplete
<1> QED
    BY <1>3, <1>4, <1>5 DEF DeepInv

\* No descendant is the Nothing that stands for no tile.
LEMMA NothingIsNoTile == Nothing \notin Descendants
BY DescendantsAreTiles, DeepAssumption

\* A tile passes from a sender to the collector.
LEMMA ReceiveKeeps ==
    ASSUME DeepInv, NEW t \in sending, Receive(t)
    PROVE  DeepInv'
<1>1. /\ inHand = Nothing /\ inHand' = t
      /\ sending' = sending \ {t} /\ sent' = sent \cup {t}
      /\ wg' = wg /\ closed' = closed /\ tiles' = tiles /\ listed' = listed
    BY DEF Receive
<1>2. /\ sending \subseteq Descendants /\ sent \subseteq Descendants
      /\ tiles \subseteq Descendants
    BY DEF DeepInv, DeepTypes
<1>3. /\ sending \cap Received = {} /\ sent \subseteq Received
    BY DEF DeepInv, HandedOverOnce
<1>4. t \in Descendants /\ t # Nothing /\ Nothing \notin tiles
    BY <1>2, NothingIsNoTile
<1>5. Received = tiles /\ Received' = tiles \cup {t}
    BY <1>1, <1>4 DEF Received
<1>6. t \notin Received /\ t \notin sent
    BY <1>3
<1>7. Spawned' = Spawned /\ Parents' = Parents
  <2>1. Spawned' = Spawned
      BY <1>1, <1>5 DEF Spawned
  <2>2. Received' \ sent' = Received \ sent
      BY <1>1, <1>5, <1>6
  <2> QED
      BY <2>1, <2>2 DEF Parents
<1>8. DeepTypes'
    BY <1>1, <1>2, <1>4 DEF DeepInv, DeepTypes
<1>9. HandedOverOnce'
    BY <1>1, <1>3, <1>5, <1>6 DEF HandedOverOnce
<1>10. SpawnedInOrder'
    BY <1>7 DEF DeepInv, SpawnedInOrder
<1>11. Counted'
  <2>1. /\ IsFiniteSet(sending) /\ IsFiniteSet(sent) /\ IsFiniteSet(tiles)
        /\ wg = Cardinality(sending) + Cardinality(sent)
        /\ closed => wg = 0
      BY DEF DeepInv, Counted
  <2>2. IsFiniteSet(sending') /\ Cardinality(sending') = Cardinality(sending) - 1
      BY <1>1, <2>1, FS_RemoveElement
  <2>3. IsFiniteSet(sent') /\ Cardinality(sent') = Cardinality(sent) + 1
      BY <1>1, <1>6, <2>1, FS_AddElement
  <2>4. Cardinality(sending) \in Nat /\ Cardinality(sent) \in Nat
      BY <2>1, FS_CardinalityType
  <2>5. wg' = Cardinality(sending') + Cardinality(sent')
      BY <1>1, <2>1, <2>2, <2>3, <2>4
  <2> QED
      BY <1>1, <2>1, <2>2, <2>3, <2>5 DEF Counted
<1>12. NearlyComplete'
    BY <1>1 DEF DeepInv, NearlyComplete
<1> QED
    BY <1>8, <1>9, <1>10, <1>11, <1>12 DEF DeepInv

\* Children are spawned once: their only parent has not done it before.
LEMMA ChildrenAreNew ==
    ASSUME DeepInv, NEW t \in sent
    PROVE  Children(t) \cap Spawned = {}
<1>1. t \in Descendants /\ t \in Tile /\ t.Zoom \in Int /\ t.Zoom >= Root.Zoom
      /\ Root.Zoom \in Int
    BY DescendantsAreTiles, RootLevel DEF DeepInv, DeepTypes
<1>2. Received \subseteq Descendants
    BY DEF DeepInv, DeepTypes, Received
<1>3. SUFFICES ASSUME NEW c \in Children(t), c \in Spawned
               PROVE  FALSE
    OBVIOUS
<1>4. c # Root
    BY <1>1 DEF Children
<1>5. PICK u \in Parents : c \in Children(u)
    BY <1>3, <1>4 DEF DeepInv, SpawnedInOrder
<1>6. u \in Tile
    BY <1>2, DescendantsAreTiles DEF Parents
<1>7. u = t
    BY <1>1, <1>3, <1>5, <1>6, OneParent
<1> QED
    BY <1>5, <1>7 DEF Parents

\* A goroutine spawns four for the children, or none, and is counted out.
LEMMA SpawnKeeps ==
    ASSUME DeepInv, NEW t \in sent, Spawn(t)
    PROVE  DeepInv'
<1>1. /\ sent' = sent \ {t} /\ inHand' = inHand
      /\ closed' = closed /\ tiles' = tiles /\ listed' = listed
    BY DEF Spawn
<1>2. /\ sending \subseteq Descendants /\ sent \subseteq Descendants
    BY DEF DeepInv, DeepTypes
<1>3. /\ sending \cap Received = {} /\ sent \subseteq Received
    BY DEF DeepInv, HandedOverOnce
<1>4. t \in Descendants /\ t \in Tile /\ t \in Received /\ t.Zoom \in Int /\ MaxZoom \in Int
    BY <1>2, <1>3, DescendantsAreTiles, DeepAssumption
<1>5. Received' = Received
    BY <1>1 DEF Received
<1>6. /\ IsFiniteSet(sending) /\ IsFiniteSet(sent) /\ IsFiniteSet(tiles)
      /\ wg = Cardinality(sending) + Cardinality(sent)
      /\ closed => wg = 0
    BY DEF DeepInv, Counted
<1>7. IsFiniteSet(sent') /\ Cardinality(sent') = Cardinality(sent) - 1
    BY <1>1, <1>6, FS_RemoveElement
<1>8. /\ Cardinality(sending) \in Nat /\ Cardinality(sent) \in Nat
      /\ Cardinality(sent') \in Nat
    BY <1>6, <1>7, FS_CardinalityType
<1>9. ~closed
    BY <1>6, <1>7, <1>8
<1>10. NearlyComplete'
    BY <1>1 DEF DeepInv, NearlyComplete
<1>11. ASSUME t.Zoom >= MaxZoom, wg' = wg - 1, sending' = sending
       PROVE  DeepInv'
  <2>1. Spawned' = Spawned
      BY <1>5, <1>11 DEF Spawned
  <2>2. Parents' = Parents
      BY <1>1, <1>4, <1>5, <1>11 DEF Parents
  <2>3. DeepTypes'
      BY <1>1, <1>11 DEF DeepInv, DeepTypes
  <2>4. HandedOverOnce'
      BY <1>1, <1>3, <1>5, <1>11 DEF DeepInv, HandedOverOnce
  <2>5. SpawnedInOrder'
      BY <2>1, <2>2 DEF DeepInv, SpawnedInOrder
  <2>6. Counted'
      BY <1>1, <1>6, <1>7, <1>8, <1>9, <1>11 DEF Counted
  <2> QED
      BY <1>10, <2>3, <2>4, <2>5, <2>6 DEF DeepInv
<1>12. ASSUME t.Zoom < MaxZoom, wg' = wg + 4 - 1, sending' = sending \cup Children(t)
       PROVE  DeepInv'
  <2>1. Spawned' = Spawned \cup Children(t)
      BY <1>5, <1>12 DEF Spawned
  <2>2. Parents' = Parents \cup {t}
      BY <1>1, <1>4, <1>5, <1>12 DEF Parents
  <2>3. Children(t) \cap Spawned = {}
      BY ChildrenAreNew
  <2>4. Children(t) \subseteq Descendants
      BY <1>4, <1>12, ChildrenBelow
  <2>5. DeepTypes'
      BY <1>1, <1>2, <1>12, <2>4 DEF DeepInv, DeepTypes
  <2>6. HandedOverOnce'
    <3>1. sending' \cap Received' = {}
        BY <1>3, <1>5, <1>12, <2>3 DEF Spawned
    <3> QED
        BY <1>1, <1>3, <1>5, <3>1 DEF DeepInv, HandedOverOnce
  <2>7. SpawnedInOrder'
    <3>1. /\ Root \in Spawned
          /\ \A c \in Spawned \ {Root} : \E p \in Parents : c \in Children(p)
          /\ \A p \in Parents : Children(p) \subseteq Spawned
        BY DEF DeepInv, SpawnedInOrder
    <3>2. \A c \in Spawned' \ {Root} : \E p \in Parents' : c \in Children(p)
        BY <2>1, <2>2, <3>1
    <3>3. \A p \in Parents' : Children(p) \subseteq Spawned'
        BY <2>1, <2>2, <3>1
    <3> QED
        BY <2>1, <3>1, <3>2, <3>3 DEF SpawnedInOrder
  <2>8. Counted'
    <3>1. IsFiniteSet(Children(t)) /\ Cardinality(Children(t)) = 4
        BY <1>4, FourChildren
    <3>2. sending \cap Children(t) = {}
        BY <2>3 DEF Spawned
    <3>3. /\ IsFiniteSet(sending')
          /\ Cardinality(sending') = Cardinality(sending) + Cardinality(Children(t))
                                        - Cardinality(sending \cap Children(t))
        BY <1>6, <1>12, <3>1, FS_Union
    <3>4. Cardinality(sending \cap Children(t)) = 0
        BY <3>2, FS_EmptySet
    <3>5. wg' = Cardinality(sending') + Cardinality(sent')
        BY <1>6, <1>7, <1>8, <1>12, <3>1, <3>3, <3>4
    <3> QED
        BY <1>1, <1>6, <1>7, <1>9, <3>3, <3>5 DEF Counted
  <2> QED
      BY <1>10, <2>5, <2>6, <2>7, <2>8 DEF DeepInv
<1> QED
    BY <1>11, <1>12 DEF Spawn

\* The collector appends what it had in hand.
LEMMA AppendKeeps ==
    ASSUME DeepInv, Append
    PROVE  DeepInv'
<1>1. /\ inHand # Nothing /\ tiles' = tiles \cup {inHand} /\ inHand' = Nothing
      /\ sending' = sending /\ sent' = sent /\ wg' = wg
      /\ closed' = closed /\ listed' = listed
    BY DEF Append
<1>2. inHand \in Descendants /\ tiles \subseteq Descendants
    BY <1>1 DEF DeepInv, DeepTypes
<1>3. Received' = Received
    BY <1>1 DEF Received
<1>4. Spawned' = Spawned /\ Parents' = Parents
    BY <1>1, <1>3 DEF Spawned, Parents
<1>5. DeepTypes'
    BY <1>1, <1>2 DEF DeepInv, DeepTypes
<1>6. HandedOverOnce'
    BY <1>1, <1>2, <1>3, NothingIsNoTile DEF DeepInv, HandedOverOnce
<1>7. SpawnedInOrder'
    BY <1>4 DEF DeepInv, SpawnedInOrder
<1>8. Counted'
  <2>1. IsFiniteSet(tiles')
      BY <1>1, FS_AddElement DEF DeepInv, Counted
  <2> QED
      BY <1>1, <2>1 DEF DeepInv, Counted
<1>9. NearlyComplete'
    BY <1>1 DEF DeepInv, NearlyComplete
<1> QED
    BY <1>5, <1>6, <1>7, <1>8, <1>9 DEF DeepInv

\* The caller closes the channel.
LEMMA CloseKeeps ==
    ASSUME DeepInv, Close
    PROVE  DeepInv'
<1>1. /\ wg = 0 /\ closed' = TRUE
      /\ sending' = sending /\ sent' = sent /\ wg' = wg
      /\ inHand' = inHand /\ tiles' = tiles /\ listed' = listed
    BY DEF Close
<1>2. Received' = Received /\ Spawned' = Spawned /\ Parents' = Parents
    BY <1>1 DEF Received, Spawned, Parents
<1>3. DeepTypes' /\ HandedOverOnce'
    BY <1>1, <1>2 DEF DeepInv, DeepTypes, HandedOverOnce
<1>4. SpawnedInOrder'
    BY <1>2 DEF DeepInv, SpawnedInOrder
<1>5. Counted' /\ NearlyComplete'
    BY <1>1 DEF DeepInv, Counted, NearlyComplete
<1> QED
    BY <1>3, <1>4, <1>5 DEF DeepInv

\* When the channel is closed, every goroutine has returned.
LEMMA ClosedIsQuiet ==
    ASSUME DeepInv, closed
    PROVE  sending = {} /\ sent = {}
<1>1. /\ IsFiniteSet(sending) /\ IsFiniteSet(sent)
      /\ Cardinality(sending) + Cardinality(sent) = 0
    BY DEF DeepInv, Counted
<1>2. Cardinality(sending) \in Nat /\ Cardinality(sent) \in Nat
    BY <1>1, FS_CardinalityType
<1>3. Cardinality(sending) = 0 /\ Cardinality(sent) = 0
    BY <1>1, <1>2
<1> QED
    BY <1>1, <1>3, FS_EmptySet

\* By then every descendant was handed over: of those that were not, one at
\* the highest level would have a parent whose goroutine spawned it.
LEMMA ClosedIsComplete ==
    ASSUME DeepInv, closed
    PROVE  Received = Descendants
<1>1. sending = {} /\ sent = {}
    BY ClosedIsQuiet
<1>2. Received \subseteq Descendants
    BY DEF DeepInv, DeepTypes, Received
<1>3. Spawned = Received /\ Parents = {t \in Received : t.Zoom < MaxZoom}
    BY <1>1 DEF Spawned, Parents
<1>4. ASSUME Descendants \ Received # {}
      PROVE  FALSE
  <2> DEFINE D == Descendants \ Received
             Z == {t.Zoom - Root.Zoom : t \in D}
  <2>1. Root.Zoom \in Int
      BY RootLevel
  <2>2. \A t \in Descendants : t.Zoom \in Int /\ t.Zoom >= Root.Zoom
      BY DescendantsAreTiles
  <2>3. Z \subseteq Nat /\ Z # {}
      BY <1>4, <2>1, <2>2
  <2>4. PICK z \in Z : \A y \in Z : z <= y
      BY <2>3, LeastOf
  <2>5. PICK t \in D : z = t.Zoom - Root.Zoom
      BY <2>4
  <2>6. \A u \in D : t.Zoom - Root.Zoom <= u.Zoom - Root.Zoom
      BY <2>4, <2>5
  <2>7. t # Root
      BY <1>3 DEF DeepInv, SpawnedInOrder
  <2>8. PICK u \in Descendants : u.Zoom < t.Zoom /\ u.Zoom < MaxZoom /\ t \in Children(u)
      BY <2>7, ParentAbove
  <2>9. u \notin D
      BY <2>1, <2>2, <2>6, <2>8
  <2>10. u \in Parents
      BY <1>3, <2>8, <2>9
  <2>11. t \in Received
      BY <1>3, <2>8, <2>10 DEF DeepInv, SpawnedInOrder
  <2> QED
      BY <2>11
<1> QED
    BY <1>2, <1>4

\* DeepChildren returns.
LEMMA ReturnKeeps ==
    ASSUME DeepInv, Return
    PROVE  DeepInv'
<1>1. /\ closed
      /\ sending' = sending /\ sent' = sent /\ wg' = wg
      /\ closed' = closed /\ inHand' = inHand /\ tiles' = tiles
    BY DEF Return
<1>2. Received' = Received /\ Spawned' = Spawned /\ Parents' = Parents
    BY <1>1 DEF Received, Spawned, Parents
<1>3. /\ tiles \subseteq Descendants /\ inHand \in Descendants \cup {Nothing}
      /\ inHand \notin tiles /\ IsFiniteSet(tiles)
    BY DEF DeepInv, DeepTypes, HandedOverOnce, Counted
<1>4. (tiles \cup {inHand}) \ {Nothing} = Descendants
    BY <1>1, ClosedIsComplete DEF Received
<1>5. tiles = Descendants \/ \E t \in Descendants : tiles = Descendants \ {t}
  <2>1. CASE inHand = Nothing
      BY <1>3, <1>4, <2>1, NothingIsNoTile
  <2>2. CASE inHand # Nothing
    <3>1. inHand \in Descendants /\ tiles = Descendants \ {inHand}
        BY <1>3, <1>4, <2>2, NothingIsNoTile
    <3> QED
        BY <3>1
  <2> QED
      BY <2>1, <2>2
<1>6. inHand # Nothing => tiles \cup {inHand} = Descendants
    BY <1>3, <1>4, NothingIsNoTile
<1>7. IsFiniteSet(tiles \cup {inHand})
    BY <1>3, FS_AddElement
<1>8. \/ listed' = tiles
      \/ inHand # Nothing /\ listed' = tiles \cup {inHand}
      \/ listed' = Torn
    BY DEF Return
<1>9. DeepTypes'
  <2>1. listed' \in (SUBSET Descendants) \cup {Nothing, Torn}
      BY <1>3, <1>6, <1>8
  <2> QED
      BY <1>1, <2>1 DEF DeepInv, DeepTypes
<1>10. HandedOverOnce'
    BY <1>1, <1>2 DEF DeepInv, HandedOverOnce
<1>11. SpawnedInOrder'
    BY <1>2 DEF DeepInv, SpawnedInOrder
<1>12. Counted'
    BY <1>1 DEF DeepInv, Counted
<1>13. NearlyComplete'
    BY <1>3, <1>5, <1>6, <1>7, <1>8 DEF NearlyComplete
<1> QED
    BY <1>9, <1>10, <1>11, <1>12, <1>13 DEF DeepInv

\* Every step of DeepChildren keeps DeepInv.
LEMMA DeepStepKeeps ==
    ASSUME DeepInv, DeepStep
    PROVE  DeepInv'
BY ReceiveKeeps, SpawnKeeps, AppendKeeps, CloseKeeps, ReturnKeeps DEF DeepStep

-----------------------------------------------------------------------------
(***************************************************************************)
(* JobInv holds when InvalidateAndPrime is called.                         *)
(***************************************************************************)
LEMMA JobInitInv ==
    ASSUME Init
    PROVE  JobInv
<1>1. /\ prime \in BOOLEAN /\ phase = "list" /\ todo = {} /\ jobs = {}
      /\ job = [w \in Workers |-> Nothing]
      /\ ended = {} /\ treated = {} /\ cached = {} /\ succeeded = 0
      /\ status = "none" /\ code = 200 /\ crashed = FALSE
    BY DEF Init
<1>2. DeepInv
    BY DeepInitInv DEF Init
<1>3. IsFiniteSet({}) /\ Cardinality({}) = 0
    BY FS_EmptySet
<1>4. JobTypes
    BY <1>1, <1>3 DEF JobTypes
<1>5. WorkOnList /\ InOnePlace
    BY <1>1 DEF WorkOnList, InOnePlace
<1>6. EachFailedOne
    BY <1>1 DEF EachFailedOne
<1>7. Reported
    BY <1>1, <1>3 DEF Reported
<1> QED
    BY <1>2, <1>4, <1>5, <1>6, <1>7 DEF JobInv

\* The work is on finitely many tiles, all of them descendants.
LEMMA WorkIsFinite ==
    ASSUME JobInv
    PROVE  /\ IsFiniteSet(treated) /\ IsFiniteSet(cached) /\ IsFiniteSet(treated \ cached)
           /\ todo \cup jobs \cup treated \cup cached \subseteq Descendants
           /\ phase \in {"work", "answered"} => /\ listed \notin {Nothing, Torn}
                                               /\ listed \subseteq Descendants
                                               /\ IsFiniteSet(listed)
                                               /\ cached \subseteq listed
<1>1. phase \in {"list", "undefined"} \/ phase \in {"work", "answered"}
    BY DEF JobInv, JobTypes
<1>2. cached \subseteq treated
    BY DEF JobInv, WorkOnList
<1>3. ASSUME phase \in {"list", "undefined"}
      PROVE  IsFiniteSet(treated) /\ todo \cup jobs \cup treated \cup cached = {}
    BY <1>3, FS_EmptySet DEF JobInv, WorkOnList
<1>4. ASSUME phase \in {"work", "answered"}
      PROVE  /\ listed \notin {Nothing, Torn}
             /\ listed \subseteq Descendants /\ IsFiniteSet(listed)
             /\ todo \cup jobs \cup treated \subseteq listed
             /\ IsFiniteSet(treated)
  <2>1. /\ listed \notin {Nothing, Torn}
        /\ todo \cup jobs \cup treated \subseteq listed
      BY <1>4 DEF JobInv, WorkOnList
  <2>2. listed \subseteq Descendants
      BY <2>1 DEF JobInv, DeepInv, DeepTypes
  <2>3. IsFiniteSet(listed)
      BY <2>1 DEF JobInv, DeepInv, NearlyComplete
  <2>4. IsFiniteSet(treated)
      BY <2>1, <2>3, FS_Subset
  <2> QED
      BY <2>1, <2>2, <2>3, <2>4
<1>5. IsFiniteSet(treated)
    BY <1>1, <1>3, <1>4
<1>6. IsFiniteSet(cached) /\ IsFiniteSet(treated \ cached)
    BY <1>2, <1>5, FS_Subset
<1>7. todo \cup jobs \cup treated \cup cached \subseteq Descendants
    BY <1>1, <1>2, <1>3, <1>4
<1> QED
    BY <1>2, <1>4, <1>5, <1>6, <1>7

\* A tile that is treated and not cached counts as failed.
LEMMA MoreFail ==
    ASSUME JobInv, NEW t, treated' = treated \cup {t}, cached' = cached
    PROVE  Cardinality(treated' \ cached') >= Cardinality(treated \ cached)
<1>1. IsFiniteSet(treated \ cached) /\ IsFiniteSet(treated)
    BY WorkIsFinite
<1>2. IsFiniteSet(treated') /\ IsFiniteSet(treated' \ cached')
    BY <1>1, FS_AddElement, FS_Subset
<1>3. treated \ cached \subseteq treated' \ cached'
    OBVIOUS
<1>4. Cardinality(treated \ cached) <= Cardinality(treated' \ cached')
    BY <1>2, <1>3, FS_Subset
<1>5. Cardinality(treated \ cached) \in Nat /\ Cardinality(treated' \ cached') \in Nat
    BY <1>1, <1>2, FS_CardinalityType
<1> QED
    BY <1>4, <1>5

\* Once there is a list, DeepChildren does not change it.
LEMMA ListedOnce ==
    ASSUME DeepStep, listed # Nothing
    PROVE  listed' = listed
BY DEF DeepStep, Receive, Spawn, Append, Close, Return

\* DeepChildren and its collector take a step.
LEMMA ListTilesKeeps ==
    ASSUME JobInv, ListTiles
    PROVE  JobInv'
<1>1. /\ prime' = prime /\ phase' = phase /\ todo' = todo /\ jobs' = jobs
      /\ job' = job /\ ended' = ended
      /\ treated' = treated /\ cached' = cached /\ succeeded' = succeeded
      /\ status' = status /\ code' = code /\ crashed' = crashed
    BY DEF ListTiles, workVars
<1>2. DeepInv'
    BY DeepStepKeeps DEF JobInv, ListTiles
<1>3. phase \in {"list", "undefined"} \/ phase \in {"work", "answered"}
    BY DEF JobInv, JobTypes
<1>4. phase \in {"work", "answered"} => listed' = listed
    BY ListedOnce DEF JobInv, WorkOnList, ListTiles
<1>5. phase \in {"list", "undefined"} =>
         /\ todo \cup jobs \cup treated \cup cached = {}
         /\ \A w \in Workers : job[w] = Nothing
    BY DEF JobInv, WorkOnList
<1>6. JobTypes'
    BY <1>1 DEF JobInv, JobTypes
<1>7. WorkOnList'
    BY <1>1, <1>4 DEF JobInv, WorkOnList
<1>8. InOnePlace'
  <2>1. CASE phase \in {"list", "undefined"}
      BY <1>1, <1>5, <2>1 DEF InOnePlace
  <2>2. CASE phase \in {"work", "answered"}
      BY <1>1, <1>4, <2>2 DEF JobInv, InOnePlace
  <2> QED
      BY <1>3, <2>1, <2>2
<1>9. EachFailedOne'
    BY <1>1 DEF JobInv, EachFailedOne
<1>10. Reported'
  <2>1. phase = "answered" => Verdict' = Verdict
      BY <1>1, <1>4 DEF Verdict
  <2> QED
      BY <1>1, <2>1 DEF JobInv, Reported
<1> QED
    BY <1>2, <1>6, <1>7, <1>8, <1>9, <1>10 DEF JobInv

\* The handler takes the list, or is lost in a torn one.
LEMMA BeginWorkKeeps ==
    ASSUME JobInv, BeginWork
    PROVE  JobInv'
<1>1. /\ phase = "list" /\ UNCHANGED deepVars
      /\ prime' = prime /\ jobs' = jobs
      /\ job' = job /\ ended' = ended
      /\ treated' = treated /\ cached' = cached /\ succeeded' = succeeded
      /\ status' = status /\ code' = code /\ crashed' = crashed
    BY DEF BeginWork, workVars
<1>2. DeepInv' /\ listed' = listed
    BY <1>1, DeepStutter DEF JobInv, deepVars
<1>3. /\ todo = {} /\ jobs = {} /\ treated = {} /\ cached = {}
      /\ ended = {} /\ ~crashed
      /\ \A w \in Workers : job[w] = Nothing
    BY <1>1 DEF JobInv, WorkOnList
<1>4. \/ listed \notin {Nothing, Torn} /\ phase' = "work" /\ todo' = listed
      \/ phase' = "undefined" /\ todo' = todo
    BY DEF BeginWork
<1>5. JobTypes'
    BY <1>1, <1>4 DEF JobInv, JobTypes
<1>6. WorkOnList'
    BY <1>1, <1>2, <1>3, <1>4 DEF JobInv, WorkOnList
<1>7. InOnePlace'
    BY <1>1, <1>3 DEF InOnePlace
<1>8. EachFailedOne'
  <2>1. treated' \ cached' = {} /\ ended' = {}
      BY <1>1, <1>3
  <2> QED
      BY <2>1, FS_EmptySet DEF EachFailedOne
<1>9. Reported'
    BY <1>1, <1>4 DEF JobInv, Reported
<1> QED
    BY <1>2, <1>5, <1>6, <1>7, <1>8, <1>9 DEF JobInv

\* A tile is invalidated, or not, and counted.
LEMMA InvalidateTileKeeps ==
    ASSUME JobInv, NEW t \in todo, InvalidateTile(t)
    PROVE  JobInv'
<1>1. /\ phase = "work" /\ ~prime /\ UNCHANGED deepVars
      /\ todo' = todo \ {t} /\ treated' \in {treated, treated \cup {t}}
      /\ succeeded' = succeeded + 1
      /\ prime' = prime /\ phase' = phase /\ jobs' = jobs /\ job' = job
      /\ ended' = ended /\ cached' = cached
      /\ status' = status /\ code' = code /\ crashed' = crashed
    BY DEF InvalidateTile
<1>2. DeepInv' /\ listed' = listed
    BY <1>1, DeepStutter DEF JobInv, deepVars
<1>3. JobTypes'
    BY <1>1 DEF JobInv, JobTypes
<1>4. WorkOnList'
    BY <1>1, <1>2 DEF JobInv, WorkOnList
<1>5. InOnePlace'
    BY <1>1 DEF InOnePlace
<1>6. Cardinality(treated' \ cached') >= Cardinality(treated \ cached)
  <2>1. CASE treated' = treated
    <3>1. Cardinality(treated \ cached) \in Nat
        BY WorkIsFinite, FS_CardinalityType
    <3> QED
        BY <1>1, <2>1, <3>1
  <2>2. CASE treated' = treated \cup {t}
      BY <1>1, <2>2, MoreFail
  <2> QED
      BY <1>1, <2>1, <2>2
<1>7. /\ IsFiniteSet(treated' \ cached') /\ Cardinality(treated' \ cached') \in Nat
      /\ Cardinality(treated \ cached) \in Nat
  <2>1. IsFiniteSet(treated) /\ IsFiniteSet(treated \ cached)
      BY WorkIsFinite
  <2>2. IsFiniteSet(treated')
      BY <1>1, <2>1, FS_AddElement
  <2> QED
      BY <2>1, <2>2, FS_Subset, FS_CardinalityType
<1>8. EachFailedOne'
  <2>1. Cardinality(ended) \in Nat
      BY FS_CardinalityType DEF JobInv, JobTypes
  <2>2. todo' \cup jobs' # {} => Cardinality(treated \ cached) >= Cardinality(ended)
      BY <1>1 DEF JobInv, EachFailedOne
  <2> QED
      BY <1>1, <1>6, <1>7, <2>1, <2>2 DEF EachFailedOne
<1>9. Reported'
    BY <1>1 DEF JobInv, Reported
<1> QED
    BY <1>2, <1>3, <1>4, <1>5, <1>8, <1>9 DEF JobInv

\* A tile is submitted.
LEMMA SubmitKeeps ==
    ASSUME JobInv, NEW t \in todo, Submit(t)
    PROVE  JobInv'
<1>1. /\ phase = "work" /\ prime /\ ~crashed /\ UNCHANGED deepVars
      /\ todo' = todo \ {t} /\ jobs' = jobs \cup {t}
      /\ prime' = prime /\ phase' = phase /\ job' = job /\ ended' = ended
      /\ treated' = treated /\ cached' = cached /\ succeeded' = succeeded
      /\ status' = status /\ code' = code /\ crashed' = crashed
    BY DEF Submit, workVars
<1>2. DeepInv' /\ listed' = listed
    BY <1>1, DeepStutter DEF JobInv, deepVars
<1>3. todo' \cup jobs' = todo \cup jobs
    BY <1>1
<1>4. JobTypes'
    BY <1>1 DEF JobInv, JobTypes
<1>5. WorkOnList'
    BY <1>1, <1>2 DEF JobInv, WorkOnList
<1>6. InOnePlace'
    BY <1>1, <1>2, <1>3 DEF JobInv, InOnePlace
<1>7. EachFailedOne'
    BY <1>1, <1>3 DEF JobInv, EachFailedOne
<1>8. Reported'
    BY <1>1 DEF JobInv, Reported
<1> QED
    BY <1>2, <1>4, <1>5, <1>6, <1>7, <1>8 DEF JobInv

\* What is known of a tile that a running worker has in hand.
LEMMA JobAtHand ==
    ASSUME JobInv, NEW w \in Workers, Running(w), job[w] # Nothing
    PROVE  /\ job[w] \in listed /\ job[w] \in Descendants
           /\ job[w] \notin todo \cup jobs /\ job[w] \notin treated /\ job[w] \notin cached
           /\ \A v \in Workers : v # w => job[v] # job[w]
<1>1. phase = "work" /\ prime /\ ~crashed
    BY DEF Running
<1>2. /\ job[w] \in listed \ (todo \cup jobs \cup treated)
      /\ \A v \in Workers : v # w => job[v] # job[w]
    BY <1>1 DEF JobInv, InOnePlace
<1>3. job[w] \in Descendants
    BY <1>1, <1>2, WorkIsFinite
<1> QED
    BY <1>2, <1>3 DEF JobInv, WorkOnList

\* A worker that lays its tile down leaves the others in one place.
LEMMA LaidDown ==
    ASSUME JobInv, NEW w \in Workers, Running(w), job[w] # Nothing,
           job' = [job EXCEPT ![w] = Nothing],
           prime' = prime, todo' = todo, jobs' = jobs, listed' = listed, crashed' = crashed,
           treated' = treated \/ treated' = treated \cup {job[w]},
           ended' = ended \/ ended' = ended \cup {w}
    PROVE  /\ job' \in [Workers -> Descendants \cup {Nothing}]
           /\ InOnePlace'
<1>1. phase = "work" /\ prime /\ ~crashed
    BY DEF Running
<1>2. job \in [Workers -> Descendants \cup {Nothing}]
    BY DEF JobInv, JobTypes
<1>3. job' \in [Workers -> Descendants \cup {Nothing}]
    BY <1>2
<1>4. /\ todo \cap jobs = {}
      /\ (todo \cup jobs) \cap treated = {}
      /\ \A v \in Workers : job[v] # Nothing =>
            /\ job[v] \in listed \ (todo \cup jobs \cup treated)
            /\ v \notin ended
            /\ \A u \in Workers : u # v => job[u] # job[v]
    BY <1>1 DEF JobInv, InOnePlace
<1>5. (todo' \cup jobs') \cap treated' = {}
    BY <1>4
<1>6. ASSUME NEW v \in Workers, job'[v] # Nothing
      PROVE  /\ job'[v] \in listed' \ (todo' \cup jobs' \cup treated')
             /\ v \notin ended'
             /\ \A u \in Workers : u # v => job'[u] # job'[v]
  <2>1. v # w /\ job'[v] = job[v] /\ job[v] # job[w]
      BY <1>2, <1>4, <1>6
  <2>2. job[v] \in listed' \ (todo' \cup jobs' \cup treated') /\ v \notin ended'
      BY <1>4, <1>6, <2>1
  <2>3. ASSUME NEW u \in Workers, u # v
        PROVE  job'[u] # job'[v]
    <3>1. CASE u = w
        BY <1>2, <1>6, <3>1
    <3>2. CASE u # w
        BY <1>2, <1>4, <1>6, <2>1, <2>3, <3>2
    <3> QED
        BY <3>1, <3>2
  <2> QED
      BY <2>1, <2>2, <2>3
<1> QED
    BY <1>3, <1>4, <1>5, <1>6 DEF InOnePlace

\* A worker takes a tile out of the channel.
LEMMA TakeJobKeeps ==
    ASSUME JobInv, NEW w \in Workers, Running(w), job[w] = Nothing,
           NEW t \in jobs, job' = [job EXCEPT ![w] = t], jobs' = jobs \ {t},
           UNCHANGED <<deepVars, prime, phase, todo, ended, workVars>>
    PROVE  JobInv'
<1>1. /\ phase = "work" /\ prime /\ ~crashed /\ w \notin ended
      /\ UNCHANGED deepVars
      /\ prime' = prime /\ phase' = phase /\ todo' = todo /\ ended' = ended
      /\ treated' = treated /\ cached' = cached /\ succeeded' = succeeded
      /\ status' = status /\ code' = code /\ crashed' = crashed
    BY DEF Running, workVars
<1>2. DeepInv' /\ listed' = listed
    BY <1>1, DeepStutter DEF JobInv, deepVars
<1>3. t \in Descendants /\ t \in listed /\ t # Nothing
    BY <1>1, WorkIsFinite, NothingIsNoTile DEF JobInv, WorkOnList
<1>4. job \in [Workers -> Descendants \cup {Nothing}]
    BY DEF JobInv, JobTypes
<1>5. job' \in [Workers -> Descendants \cup {Nothing}]
    BY <1>3, <1>4
<1>6. JobTypes'
    BY <1>1, <1>5 DEF JobInv, JobTypes
<1>7. WorkOnList'
    BY <1>1, <1>2 DEF JobInv, WorkOnList
<1>8. InOnePlace'
  <2>1. /\ todo \cap jobs = {}
        /\ (todo \cup jobs) \cap treated = {}
        /\ \A v \in Workers : job[v] # Nothing =>
              /\ job[v] \in listed \ (todo \cup jobs \cup treated)
              /\ v \notin ended
              /\ \A u \in Workers : u # v => job[u] # job[v]
      BY <1>1 DEF JobInv, InOnePlace
  <2>2. job'[w] = t /\ \A v \in Workers : v # w => job'[v] = job[v] /\ job[v] # t
      BY <1>3, <1>4, <2>1
  <2>3. ASSUME NEW v \in Workers, job'[v] # Nothing
        PROVE  /\ job'[v] \in listed' \ (todo' \cup jobs' \cup treated')
               /\ v \notin ended'
               /\ \A u \in Workers : u # v => job'[u] # job'[v]
    <3>1. CASE v = w
        BY <1>1, <1>2, <1>3, <2>1, <2>2, <3>1
    <3>2. CASE v # w
        BY <1>1, <1>2, <2>1, <2>2, <2>3, <3>2
    <3> QED
        BY <3>1, <3>2
  <2> QED
      BY <1>1, <2>1, <2>3 DEF InOnePlace
<1>9. EachFailedOne'
    BY <1>1 DEF JobInv, EachFailedOne
<1>10. Reported'
    BY <1>1 DEF JobInv, Reported
<1> QED
    BY <1>2, <1>6, <1>7, <1>8, <1>9, <1>10 DEF JobInv

\* A worker finds the channel empty and closed.
LEMMA NoMoreJobsKeeps ==
    ASSUME JobInv, NEW w \in Workers, Running(w), job[w] = Nothing,
           jobs = {}, todo = {}, ended' = ended \cup {w},
           UNCHANGED <<job, jobs, deepVars, prime, phase, todo, workVars>>
    PROVE  JobInv'
<1>1. /\ phase = "work" /\ prime /\ ~crashed
      /\ UNCHANGED deepVars /\ job' = job /\ jobs' = jobs
      /\ prime' = prime /\ phase' = phase /\ todo' = todo
      /\ treated' = treated /\ cached' = cached /\ succeeded' = succeeded
      /\ status' = status /\ code' = code /\ crashed' = crashed
    BY DEF Running, workVars
<1>2. DeepInv' /\ listed' = listed
    BY <1>1, DeepStutter DEF JobInv, deepVars
<1>3. JobTypes'
    BY <1>1, FS_AddElement DEF JobInv, JobTypes
<1>4. WorkOnList'
    BY <1>1, <1>2 DEF JobInv, WorkOnList
<1>5. InOnePlace'
    BY <1>1, <1>2 DEF JobInv, InOnePlace
<1>6. EachFailedOne'
    BY <1>1 DEF EachFailedOne
<1>7. Reported'
    BY <1>1 DEF JobInv, Reported
<1> QED
    BY <1>2, <1>3, <1>4, <1>5, <1>6, <1>7 DEF JobInv

\* A worker takes a job or returns.
LEMMA TakeKeeps ==
    ASSUME JobInv, NEW w \in Workers, Take(w)
    PROVE  JobInv'
<1>1. Running(w) /\ job[w] = Nothing
    BY DEF Take
<1>2. ASSUME NEW t \in jobs, job' = [job EXCEPT ![w] = t], jobs' = jobs \ {t},
             UNCHANGED ended
      PROVE  JobInv'
  <2>1. UNCHANGED <<deepVars, prime, phase, todo, ended, workVars>>
      BY <1>2 DEF Take
  <2> QED
      BY <1>1, <1>2, <2>1, TakeJobKeeps
<1>3. ASSUME jobs = {}, todo = {}, ended' = ended \cup {w}, UNCHANGED <<job, jobs>>
      PROVE  JobInv'
  <2>1. UNCHANGED <<job, jobs, deepVars, prime, phase, todo, workVars>>
      BY <1>3 DEF Take
  <2> QED
      BY <1>1, <1>3, <2>1, NoMoreJobsKeeps
<1> QED
    BY <1>2, <1>3 DEF Take

\* A worker passes over a tile.
LEMMA SkipJobKeeps ==
    ASSUME JobInv, NEW w \in Workers, SkipJob(w)
    PROVE  JobInv'
<1>1. /\ Running(w) /\ job[w] # Nothing /\ job' = [job EXCEPT ![w] = Nothing]
      /\ UNCHANGED deepVars
      /\ prime' = prime /\ phase' = phase /\ todo' = todo /\ jobs' = jobs /\ ended' = ended
      /\ treated' = treated /\ cached' = cached /\ succeeded' = succeeded
      /\ status' = status /\ code' = code /\ crashed' = crashed
    BY DEF SkipJob, workVars
<1>2. DeepInv' /\ listed' = listed /\ phase = "work"
    BY <1>1, DeepStutter DEF JobInv, deepVars, Running
<1>3. job' \in [Workers -> Descendants \cup {Nothing}] /\ InOnePlace'
    BY <1>1, <1>2, LaidDown
<1>4. JobTypes'
    BY <1>1, <1>3 DEF JobInv, JobTypes
<1>5. WorkOnList'
    BY <1>1, <1>2 DEF JobInv, WorkOnList
<1>6. EachFailedOne'
    BY <1>1 DEF JobInv, EachFailedOne
<1>7. Reported'
    BY <1>1, <1>2 DEF JobInv, Reported
<1> QED
    BY <1>2, <1>3, <1>4, <1>5, <1>6, <1>7 DEF JobInv

\* A worker caches a tile and reports a success.
LEMMA PrimeTileKeeps ==
    ASSUME JobInv, NEW w \in Workers, PrimeTile(w)
    PROVE  JobInv'
<1>1. /\ Running(w) /\ job[w] # Nothing /\ job' = [job EXCEPT ![w] = Nothing]
      /\ treated' = treated \cup {job[w]} /\ cached' = cached \cup {job[w]}
      /\ succeeded' = succeeded + 1
      /\ code' = IF job[w] \in EmptyTiles THEN 204 ELSE code
      /\ UNCHANGED deepVars
      /\ prime' = prime /\ phase' = phase /\ todo' = todo /\ jobs' = jobs /\ ended' = ended
      /\ status' = status /\ crashed' = crashed
    BY DEF PrimeTile
<1>2. DeepInv' /\ listed' = listed /\ phase = "work" /\ prime /\ ~crashed
    BY <1>1, DeepStutter DEF JobInv, deepVars, Running
<1>3. job' \in [Workers -> Descendants \cup {Nothing}] /\ InOnePlace'
    BY <1>1, <1>2, LaidDown
<1>4. /\ job[w] \in listed /\ job[w] \notin treated /\ job[w] \notin cached
    BY <1>1, JobAtHand
<1>5. JobTypes'
    BY <1>1, <1>3 DEF JobInv, JobTypes
<1>6. WorkOnList'
    BY <1>1, <1>2, <1>4 DEF JobInv, WorkOnList
<1>7. EachFailedOne'
  <2>1. treated' \ cached' = treated \ cached
      BY <1>1, <1>4
  <2> QED
      BY <1>1, <2>1 DEF JobInv, EachFailedOne
<1>8. Reported'
  <2>1. IsFiniteSet(cached)
      BY WorkIsFinite
  <2>2. Cardinality(cached') = Cardinality(cached) + 1
      BY <1>1, <1>4, <2>1, FS_AddElement
  <2>3. succeeded = Cardinality(cached)
      BY <1>2 DEF JobInv, Reported
  <2>4. (code' = 204) = (cached' \cap EmptyTiles # {})
    <3>1. (code = 204) = (cached \cap EmptyTiles # {})
        BY DEF JobInv, Reported
    <3>2. CASE job[w] \in EmptyTiles
        BY <1>1, <3>2
    <3>3. CASE job[w] \notin EmptyTiles
      <4>1. cached' \cap EmptyTiles = cached \cap EmptyTiles
          BY <1>1, <3>3
      <4> QED
          BY <1>1, <3>1, <3>3, <4>1
    <3> QED
        BY <3>2, <3>3
  <2> QED
      BY <1>1, <1>2, <2>2, <2>3, <2>4 DEF Reported
<1> QED
    BY <1>2, <1>3, <1>5, <1>6, <1>7, <1>8 DEF JobInv

\* A worker gives up on a response that is refused.
LEMMA RefuseTileKeeps ==
    ASSUME JobInv, NEW w \in Workers, RefuseTile(w)
    PROVE  JobInv'
<1>1. /\ Running(w) /\ job[w] # Nothing /\ job' = [job EXCEPT ![w] = Nothing]
      /\ treated' = treated \cup {job[w]} /\ ended' = ended \cup {w}
      /\ UNCHANGED deepVars
      /\ prime' = prime /\ phase' = phase /\ todo' = todo /\ jobs' = jobs
      /\ cached' = cached /\ succeeded' = succeeded
      /\ status' = status /\ code' = code /\ crashed' = crashed
    BY DEF RefuseTile
<1>2. /\ DeepInv' /\ listed' = listed /\ phase = "work" /\ prime /\ ~crashed
      /\ w \notin ended
    BY <1>1, DeepStutter DEF JobInv, deepVars, Running
<1>3. job' \in [Workers -> Descendants \cup {Nothing}] /\ InOnePlace'
    BY <1>1, <1>2, LaidDown
<1>4. /\ job[w] \in listed /\ job[w] \notin treated /\ job[w] \notin cached
    BY <1>1, JobAtHand
<1>5. JobTypes'
    BY <1>1, <1>3, FS_AddElement DEF JobInv, JobTypes
<1>6. WorkOnList'
    BY <1>1, <1>2, <1>4 DEF JobInv, WorkOnList
<1>7. EachFailedOne'
  <2>1. IsFiniteSet(treated \ cached) /\ IsFiniteSet(ended)
      BY WorkIsFinite DEF JobInv, JobTypes
  <2>2. treated' \ cached' = (treated \ cached) \cup {job[w]}
      BY <1>1, <1>4
  <2>3. Cardinality(treated' \ cached') = Cardinality(treated \ cached) + 1
      BY <1>4, <2>1, <2>2, FS_AddElement
  <2>4. Cardinality(ended') = Cardinality(ended) + 1
      BY <1>1, <1>2, <2>1, FS_AddElement
  <2>5. Cardinality(treated \ cached) \in Nat /\ Cardinality(ended) \in Nat
      BY <2>1, FS_CardinalityType
  <2>6. todo' \cup jobs' # {} => Cardinality(treated \ cached) >= Cardinality(ended)
      BY <1>1 DEF JobInv, EachFailedOne
  <2>7. todo' \cup jobs' # {} => Cardinality(treated' \ cached') >= Cardinality(ended')
      BY <2>3, <2>4, <2>5, <2>6
  <2> QED
      BY <2>7 DEF EachFailedOne
<1>8. Reported'
    BY <1>1, <1>2 DEF JobInv, Reported
<1> QED
    BY <1>2, <1>3, <1>5, <1>6, <1>7, <1>8 DEF JobInv

\* A worker takes the process down.
LEMMA FailTileKeeps ==
    ASSUME JobInv, NEW w \in Workers, FailTile(w)
    PROVE  JobInv'
<1>1. /\ Running(w) /\ job[w] # Nothing
      /\ treated' = treated \cup {job[w]} /\ crashed' = TRUE
      /\ UNCHANGED deepVars
      /\ prime' = prime /\ phase' = phase /\ todo' = todo /\ jobs' = jobs
      /\ job' = job /\ ended' = ended /\ cached' = cached /\ succeeded' = succeeded
      /\ status' = status /\ code' = code
    BY DEF FailTile
<1>2. DeepInv' /\ listed' = listed /\ phase = "work"
    BY <1>1, DeepStutter DEF JobInv, deepVars, Running
<1>3. job[w] \in listed
    BY <1>1, JobAtHand
<1>4. JobTypes'
    BY <1>1 DEF JobInv, JobTypes
<1>5. WorkOnList'
    BY <1>1, <1>2, <1>3 DEF JobInv, WorkOnList
<1>6. InOnePlace'
    BY <1>1 DEF InOnePlace
<1>7. EachFailedOne'
  <2>1. Cardinality(treated' \ cached') >= Cardinality(treated \ cached)
      BY <1>1, MoreFail
  <2>2. IsFiniteSet(treated) /\ IsFiniteSet(treated \ cached) /\ IsFiniteSet(ended)
      BY WorkIsFinite DEF JobInv, JobTypes
  <2>3. IsFiniteSet(treated' \ cached')
      BY <1>1, <2>2, FS_AddElement, FS_Subset
  <2>4. /\ Cardinality(treated \ cached) \in Nat /\ Cardinality(ended) \in Nat
        /\ Cardinality(treated' \ cached') \in Nat
      BY <2>2, <2>3, FS_CardinalityType
  <2>5. todo' \cup jobs' # {} => Cardinality(treated \ cached) >= Cardinality(ended)
      BY <1>1 DEF JobInv, EachFailedOne
  <2> QED
      BY <1>1, <2>1, <2>4, <2>5 DEF EachFailedOne
<1>8. Reported'
    BY <1>1, <1>2 DEF JobInv, Reported
<1> QED
    BY <1>2, <1>4, <1>5, <1>6, <1>7, <1>8 DEF JobInv

\* The handler answers.
LEMMA AnswerKeeps ==
    ASSUME JobInv, Answer
    PROVE  JobInv'
<1>1. /\ phase = "work" /\ ~crashed /\ todo = {} /\ (prime => ended = Workers)
      /\ phase' = "answered" /\ status' = Verdict
      /\ UNCHANGED deepVars
      /\ prime' = prime /\ todo' = todo /\ jobs' = jobs
      /\ job' = job /\ ended' = ended /\ treated' = treated /\ cached' = cached
      /\ succeeded' = succeeded /\ code' = code /\ crashed' = crashed
    BY DEF Answer
<1>2. DeepInv' /\ listed' = listed
    BY <1>1, DeepStutter DEF JobInv, deepVars
<1>3. Verdict' = Verdict /\ Verdict \in {"ok", "failed"}
    BY <1>1, <1>2 DEF Verdict
<1>4. JobTypes'
    BY <1>1, <1>3 DEF JobInv, JobTypes
<1>5. WorkOnList'
    BY <1>1, <1>2 DEF JobInv, WorkOnList
<1>6. InOnePlace'
    BY <1>1, <1>2 DEF JobInv, InOnePlace
<1>7. EachFailedOne'
    BY <1>1 DEF JobInv, EachFailedOne
<1>8. Reported'
    BY <1>1, <1>3 DEF JobInv, Reported
<1> QED
    BY <1>2, <1>4, <1>5, <1>6, <1>7, <1>8 DEF JobInv

\* Nothing happens.
LEMMA JobStutter ==
    ASSUME JobInv, UNCHANGED vars
    PROVE  JobInv'
<1>1. /\ UNCHANGED deepVars /\ phase' = phase
      /\ prime' = prime /\ todo' = todo /\ jobs' = jobs
      /\ job' = job /\ ended' = ended /\ treated' = treated /\ cached' = cached
      /\ succeeded' = succeeded /\ code' = code /\ crashed' = crashed /\ status' = status
    BY DEF vars, workVars
<1>2. DeepInv' /\ listed' = listed
    BY <1>1, DeepStutter DEF JobInv, deepVars
<1>3. JobTypes' /\ WorkOnList'
    BY <1>1, <1>2 DEF JobInv, JobTypes, WorkOnList
<1>4. InOnePlace' /\ EachFailedOne'
    BY <1>1, <1>2 DEF JobInv, InOnePlace, EachFailedOne
<1>5. Reported'
    BY <1>1, <1>2 DEF JobInv, Reported, Verdict
<1> QED
    BY <1>2, <1>3, <1>4, <1>5 DEF JobInv

\* Every step keeps JobInv.
LEMMA JobStep ==
    ASSUME JobInv, [Next]_vars
    PROVE  JobInv'
<1>1. ASSUME HandlerStep
      PROVE  JobInv'
    BY <1>1, ListTilesKeeps, BeginWorkKeeps, InvalidateTileKeeps, SubmitKeeps, AnswerKeeps
    DEF HandlerStep
<1>2. ASSUME NEW w \in Workers, WorkerStep(w)
      PROVE  JobInv'
    BY <1>2, TakeKeeps, SkipJobKeeps, PrimeTileKeeps, RefuseTileKeeps, FailTileKeeps
    DEF WorkerStep
<1>3. ASSUME UNCHANGED vars
      PROVE  JobInv'
    BY <1>3, JobStutter
<1> QED
    BY <1>1, <1>2, <1>3 DEF Next

-----------------------------------------------------------------------------
(***************************************************************************)
(* What follows from JobInv.                                               *)
(***************************************************************************)

\* JobInv is an invariant of a call of InvalidateAndPrime.
THEOREM JobInvariant == Spec => []JobInv
<1>1. Init => JobInv
    BY JobInitInv
<1>2. JobInv /\ [Next]_vars => JobInv'
    BY JobStep
<1> QED
    BY <1>1, <1>2, PTL DEF Spec

\* Every tile that is listed, queued, worked on or cached is a descendant of
\* the one that was asked for, at any zoom (tile.go 99-150, cache.go 46-191).
THEOREM JobTypeCorrect == Spec => []TypeOK
<1>1. ASSUME JobInv
      PROVE  TypeOK
  <2>1. /\ sending \in Lists /\ sent \in Lists /\ tiles \in Lists
        /\ closed \in BOOLEAN /\ inHand \in Descendants \cup {Nothing}
        /\ listed \in Lists \cup {Nothing, Torn}
      BY <1>1 DEF JobInv, DeepInv, DeepTypes, Lists
  <2>2. wg \in Nat
    <3>1. IsFiniteSet(sending) /\ IsFiniteSet(sent)
          /\ wg = Cardinality(sending) + Cardinality(sent)
        BY <1>1 DEF JobInv, DeepInv, Counted
    <3>2. Cardinality(sending) \in Nat /\ Cardinality(sent) \in Nat
        BY <3>1, FS_CardinalityType
    <3> QED
        BY <3>1, <3>2
  <2>3. todo \in Lists /\ jobs \in Lists /\ treated \in Lists /\ cached \in Lists
      BY <1>1, WorkIsFinite DEF Lists
  <2> QED
      BY <1>1, <2>1, <2>2, <2>3 DEF JobInv, JobTypes, TypeOK
<1> QED
    BY <1>1, JobInvariant, PTL

\* The WaitGroup counts every goroutine that may send, so none sends on the
\* closed channel (tile.go 114-139).
THEOREM NeverSendsOnClosed == Spec => []NoSendOnClosed
<1>1. ASSUME JobInv
      PROVE  NoSendOnClosed
    BY <1>1, ClosedIsQuiet DEF JobInv, DeepInv, Counted, NoSendOnClosed
<1> QED
    BY <1>1, JobInvariant, PTL

\* The collector that nobody waits for costs the list one tile at most,
\* however many there are (tile.go 104-121).
THEOREM LosesAtMostOne == Spec => []AtMostLastTileLost
<1>1. ASSUME JobInv
      PROVE  AtMostLastTileLost
    BY <1>1 DEF JobInv, DeepInv, NearlyComplete, AtMostLastTileLost
<1> QED
    BY <1>1, JobInvariant, PTL

\* A priming call reports what it cached, and "ok" only if that is all that
\* was listed, for any number of workers (cache.go 143-188).
THEOREM ReportsAreTrue == Spec => []ReportIsTrue
<1>1. ASSUME JobInv, phase = "answered", prime
      PROVE  /\ succeeded = Cardinality(cached)
             /\ (status = "ok") = (cached = listed)
  <2>1. succeeded = Cardinality(cached) /\ status = Verdict
      BY <1>1 DEF JobInv, Reported
  <2>2. IsFiniteSet(listed) /\ cached \subseteq listed
      BY <1>1, WorkIsFinite
  <2>3. Cardinality(cached) = Cardinality(listed) <=> cached = listed
      BY <2>2, FS_Subset
  <2> QED
      BY <2>1, <2>3 DEF Verdict
<1>2. JobInv => ReportIsTrue
    BY <1>1 DEF ReportIsTrue
<1> QED
    BY <1>2, JobInvariant, PTL

\* When the handler has answered all workers are gone, and jobs are left only
\* if each of them failed one of its own (cache.go 143-188, 194-236).
THEOREM WorkersAreGone == Spec => []NoWorkerOutlivesHandler
<1>1. ASSUME JobInv, phase = "answered", prime
      PROVE  /\ \A w \in Workers : job[w] = Nothing /\ w \in ended
             /\ jobs # {} => Cardinality(treated \ cached) >= Cardinality(Workers)
  <2>1. ended = Workers /\ ~crashed
      BY <1>1 DEF JobInv, Reported
  <2>2. \A w \in Workers : job[w] # Nothing => w \notin ended
      BY <1>1, <2>1 DEF JobInv, InOnePlace
  <2>3. jobs # {} => Cardinality(treated \ cached) >= Cardinality(ended)
      BY <1>1 DEF JobInv, EachFailedOne
  <2> QED
      BY <2>1, <2>2, <2>3
<1>2. JobInv => NoWorkerOutlivesHandler
    BY <1>1 DEF NoWorkerOutlivesHandler
<1> QED
    BY <1>2, JobInvariant, PTL

\* The report goes out as a 204 exactly if an empty tile was primed
\* (helpers.go:221).
THEOREM EmptyTileHidesReport == Spec => []ReportLostToEmptyTile
<1>1. ASSUME JobInv
      PROVE  ReportLostToEmptyTile
    BY <1>1 DEF JobInv, Reported, ReportLostToEmptyTile
<1> QED
    BY <1>1, JobInvariant, PTL
=============================================================================
