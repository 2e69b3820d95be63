------------------------- MODULE MessageTreeProofs --------------------------
(***************************************************************************)
(* What the helpers of MessageTree return, for every tree.  The recursive  *)
(* functions PathTo and DeepestLeaf are computed by induction along the    *)
(* ids.                                                                    *)
(***************************************************************************)
EXTENDS MessageTree, WellFoundedInduction, TLAPS

(* The induction principle: a non-empty set of numbers has a least member, *)
(* so a claim that fails for some number fails for a least one.            *)
LEMMA Least == ASSUME NEW T \in SUBSET Nat, T # {} PROVE \E x \in T : \A y \in T : x <= y
<1> DEFINE R == OpToRel(<, Nat)
<1>1. IsWellFoundedOn(R, Nat)
  BY NatLessThanWellFounded
<1>2. PICK x \in T : \A y \in T : ~(<<y, x>> \in R)
  <2> HIDE DEF R
  <2> QED BY <1>1, WFMin
<1>3. \A a, b \in Nat : a < b => <<a, b>> \in R
  BY DEF OpToRel
<1> HIDE DEF R
<1>4. ASSUME NEW y \in T PROVE x <= y
  <2>1. ~(<<y, x>> \in R)
    BY <1>2
  <2>2. y < x => <<y, x>> \in R
    BY <1>3
  <2> QED BY <2>1, <2>2
<1> QED BY <1>4

(* What is needed of a tree: positive ids, and the foreign key.            *)
Tree(t) == DOMAIN t \subseteq Nat \ {0} /\ ParentsExist(t)

(* f computes the paths of the ids up to n. *)
Computes(f, t, n) ==
  f = [k \in 0 .. n |-> IF k \in DOMAIN t THEN Append(f[t[k].parent], k) ELSE << >>]

(* The definition, read at one id. *)
LEMMA ComputesAt ==
  ASSUME NEW t, NEW n, NEW f, Computes(f, t, n), NEW k \in 0 .. n
  PROVE  /\ k \in DOMAIN t => f[k] = Append(f[t[k].parent], k)
         /\ k \notin DOMAIN t => f[k] = << >>
<1> DEFINE B(j) == IF j \in DOMAIN t THEN Append(f[t[j].parent], j) ELSE << >>
<1>1. f = [j \in 0 .. n |-> B(j)]
  BY DEF Computes
<1>2. f[k] = B(k)
  <2> HIDE DEF B
  <2> QED BY <1>1
<1> QED BY <1>2

(* Two computations agree as far as both reach. *)
LEMMA ComputesSame ==
  ASSUME NEW t, Tree(t), NEW n \in Nat, NEW m \in Nat, NEW f, NEW g,
         Computes(f, t, n), Computes(g, t, m)
  PROVE  \A k \in Nat : k <= n /\ k <= m => f[k] = g[k]
<1> DEFINE T == {k \in Nat : k <= n /\ k <= m /\ f[k] # g[k]}
<1> SUFFICES ASSUME T # {} PROVE FALSE
  OBVIOUS
<1>1. PICK x \in T : \A y \in T : x <= y
  BY Least
<1>2. CASE x \in DOMAIN t
  <2>1. t[x].parent \in Nat /\ t[x].parent < x
    BY <1>2 DEF Tree, ParentsExist, NoMsg
  <2>2. f[t[x].parent] = g[t[x].parent]
    BY <2>1, <1>1
  <2>3. x \in 0 .. n /\ x \in 0 .. m
    BY <1>1
  <2>4. f[x] = Append(f[t[x].parent], x)
    BY <2>3, <1>2, ComputesAt
  <2>5. g[x] = Append(g[t[x].parent], x)
    BY <2>3, <1>2, ComputesAt
  <2> QED BY <2>2, <2>4, <2>5, <1>1
<1>3. CASE x \notin DOMAIN t
  BY <1>3, <1>1, ComputesAt
<1> QED BY <1>2, <1>3

(* There is a computation up to any id. *)
LEMMA ComputesExists ==
  ASSUME NEW t, Tree(t), NEW n \in Nat PROVE \E f : Computes(f, t, n)
<1> DEFINE T == {k \in Nat : ~ \E f : Computes(f, t, k)}
<1> SUFFICES ASSUME T # {} PROVE FALSE
  OBVIOUS
<1>1. PICK x \in T : \A y \in T : x <= y
  BY Least
<1>2. CASE x = 0
  <2> DEFINE f == [k \in 0 .. 0 |-> << >>]
  <2>1. Computes(f, t, 0)
    BY DEF Computes, Tree
  <2> QED BY <2>1, <1>2
<1>3. CASE x # 0
  <2>1. x - 1 \in Nat /\ x - 1 \notin T
    BY <1>1, <1>3
  <2>2. PICK f : Computes(f, t, x - 1)
    BY <2>1
  <2> DEFINE B(k) == IF k \in DOMAIN t THEN Append(f[t[k].parent], k) ELSE << >>
             g == [k \in 0 .. x |-> B(k)]
  <2>3. ASSUME NEW k \in 0 .. x, k \in DOMAIN t
        PROVE t[k].parent \in 0 .. (x - 1)
    BY <2>3 DEF Tree, ParentsExist, NoMsg
  <2>4. ASSUME NEW k \in 0 .. (x - 1) PROVE f[k] = g[k]
    <3>1. k \in 0 .. x /\ g[k] = B(k)
      BY <2>4
    <3>2. /\ k \in DOMAIN t => f[k] = Append(f[t[k].parent], k)
          /\ k \notin DOMAIN t => f[k] = << >>
      BY <2>2, <2>4, ComputesAt
    <3> QED BY <3>1, <3>2
  <2>5. Computes(g, t, x)
    BY <2>3, <2>4 DEF Computes
  <2> QED BY <2>5
<1> QED BY <1>2, <1>3

(* PathTo is what such a computation returns. *)
LEMMA PathUp ==
  ASSUME NEW t, Tree(t), NEW m \in Nat
  PROVE \E f : Computes(f, t, m) /\ PathTo(t, m) = f[m]
<1> DEFINE f == CHOOSE f : Computes(f, t, m)
<1>1. Computes(f, t, m)
  BY ComputesExists
<1>2. PathTo(t, m) = f[m]
  BY DEF PathTo, Computes
<1> QED BY <1>1, <1>2

(* The path of a message is that of its parent with the message appended. *)
LEMMA PathStep ==
  ASSUME NEW t, Tree(t), NEW m \in Nat
  PROVE  PathTo(t, m) = IF m \in DOMAIN t THEN Append(PathTo(t, t[m].parent), m)
                                          ELSE << >>
<1>1. PICK f : Computes(f, t, m) /\ PathTo(t, m) = f[m]
  BY PathUp
<1>2. CASE m \in DOMAIN t
  <2>1. t[m].parent \in Nat /\ t[m].parent < m
    BY <1>2 DEF Tree, ParentsExist, NoMsg
  <2>2. PICK g : Computes(g, t, t[m].parent) /\ PathTo(t, t[m].parent) = g[t[m].parent]
    BY <2>1, PathUp
  <2>3. f[t[m].parent] = g[t[m].parent]
    BY <2>1, <2>2, <1>1, ComputesSame
  <2>4. f[m] = Append(f[t[m].parent], m)
    BY <1>1, <1>2, ComputesAt
  <2> QED BY <1>1, <2>2, <2>3, <2>4, <1>2
<1>3. CASE m \notin DOMAIN t
  BY <1>1, <1>3, ComputesAt
<1> QED BY <1>2, <1>3

-----------------------------------------------------------------------------
(* A parent is an older message of the tree, or none. *)
LEMMA ParentOf ==
  ASSUME NEW t, Tree(t), NEW m \in DOMAIN t
  PROVE  /\ m \in Nat /\ m > 0
         /\ t[m].parent \in Nat /\ t[m].parent < m
         /\ t[m].parent # 0 => t[m].parent \in DOMAIN t
BY DEF Tree, ParentsExist, NoMsg

(* What is known of the path of m: it runs in the tree, ends in m, and each *)
(* beginning of it is the path of the message it ends in.                   *)
Shaped(t, m, p) ==
  /\ p \in Seq(DOMAIN t)
  /\ m \in DOMAIN t => Len(p) > 0 /\ p[Len(p)] = m
  /\ m \notin DOMAIN t => p = << >>
  /\ \A i \in 1 .. Len(p) : PathTo(t, p[i]) = SubSeq(p, 1, i)

(* Sequences, position by position. *)
LEMMA AppendAt ==
  ASSUME NEW S, NEW q \in Seq(S), NEW x \in S
  PROVE  /\ Append(q, x) \in Seq(S)
         /\ Len(Append(q, x)) = Len(q) + 1
         /\ Append(q, x)[Len(q) + 1] = x
         /\ \A i \in 1 .. Len(q) : Append(q, x)[i] = q[i]
OBVIOUS

LEMMA SubSeqAt ==
  ASSUME NEW S, NEW q \in Seq(S), NEW n \in 0 .. Len(q)
  PROVE  /\ SubSeq(q, 1, n) \in Seq(S)
         /\ Len(SubSeq(q, 1, n)) = n
         /\ \A i \in 1 .. n : SubSeq(q, 1, n)[i] = q[i]
OBVIOUS

LEMMA SameSeq ==
  ASSUME NEW S, NEW p \in Seq(S), NEW q \in Seq(S), Len(p) = Len(q),
         \A i \in 1 .. Len(p) : p[i] = q[i]
  PROVE  p = q
OBVIOUS

(* The beginnings of an appended sequence. *)
LEMMA SubSeqOfAppend ==
  ASSUME NEW S, NEW q \in Seq(S), NEW x \in S
  PROVE  /\ SubSeq(Append(q, x), 1, Len(q) + 1) = Append(q, x)
         /\ \A i \in 1 .. Len(q) : SubSeq(Append(q, x), 1, i) = SubSeq(q, 1, i)
<1> DEFINE p == Append(q, x)
<1>1. /\ p \in Seq(S) /\ Len(p) = Len(q) + 1
      /\ \A i \in 1 .. Len(q) : p[i] = q[i]
  BY AppendAt
<1> HIDE DEF p
<1>0. Len(q) \in Nat
  OBVIOUS
<1>2. SubSeq(p, 1, Len(p)) = p
  <2>1. Len(p) \in 0 .. Len(p)
    BY <1>1
  <2>2. /\ SubSeq(p, 1, Len(p)) \in Seq(S)
        /\ Len(SubSeq(p, 1, Len(p))) = Len(p)
        /\ \A i \in 1 .. Len(p) : SubSeq(p, 1, Len(p))[i] = p[i]
    BY <1>1, <2>1, SubSeqAt
  <2> QED BY <1>1, <2>2, SameSeq
<1>3. ASSUME NEW i \in 1 .. Len(q)
      PROVE  SubSeq(p, 1, i) = SubSeq(q, 1, i)
  <2>1. i \in 0 .. Len(q) /\ i \in 0 .. Len(p)
    BY <1>1, <1>0
  <2>2. /\ SubSeq(p, 1, i) \in Seq(S) /\ Len(SubSeq(p, 1, i)) = i
        /\ \A j \in 1 .. i : SubSeq(p, 1, i)[j] = p[j]
    BY <1>1, <2>1, SubSeqAt
  <2>3. /\ SubSeq(q, 1, i) \in Seq(S) /\ Len(SubSeq(q, 1, i)) = i
        /\ \A j \in 1 .. i : SubSeq(q, 1, i)[j] = q[j]
    BY <2>1, SubSeqAt
  <2>4. \A j \in 1 .. i : SubSeq(p, 1, i)[j] = SubSeq(q, 1, i)[j]
    BY <1>1, <2>1, <2>2, <2>3
  <2> QED BY <2>2, <2>3, <2>4, SameSeq
<1> QED BY <1>1, <1>2, <1>3 DEF p

(* Every path has that shape. *)
LEMMA PathShaped ==
  ASSUME NEW t, Tree(t), NEW m \in Nat
  PROVE  Shaped(t, m, PathTo(t, m))
<1> DEFINE T == {k \in Nat : ~ Shaped(t, k, PathTo(t, k))}
<1> SUFFICES ASSUME T # {} PROVE FALSE
  OBVIOUS
<1>1. PICK x \in T : \A y \in T : x <= y
  BY Least
<1>2. CASE x \notin DOMAIN t
  <2>1. PathTo(t, x) = << >>
    BY <1>2, PathStep
  <2> QED BY <2>1, <1>1, <1>2 DEF Shaped
<1>3. CASE x \in DOMAIN t
  <2> DEFINE q == PathTo(t, t[x].parent)
             p == PathTo(t, x)
  <2>1. t[x].parent \in Nat /\ t[x].parent < x /\ x \in Nat
    BY <1>3, ParentOf
  <2>2. Shaped(t, t[x].parent, q)
    BY <2>1, <1>1
  <2>3. p = Append(q, x)
    BY <1>3, PathStep
  <2>4. q \in Seq(DOMAIN t) /\ \A i \in 1 .. Len(q) : PathTo(t, q[i]) = SubSeq(q, 1, i)
    BY <2>2 DEF Shaped
  <2> HIDE DEF q
  <2>5. /\ p \in Seq(DOMAIN t) /\ Len(p) = Len(q) + 1 /\ p[Len(q) + 1] = x
        /\ \A i \in 1 .. Len(q) : p[i] = q[i]
    <3> HIDE DEF p
    <3> QED BY <2>3, <2>4, <1>3, AppendAt
  <2>6. /\ SubSeq(p, 1, Len(q) + 1) = p
        /\ \A i \in 1 .. Len(q) : SubSeq(p, 1, i) = SubSeq(q, 1, i)
    <3> HIDE DEF p
    <3> QED BY <2>3, <2>4, <1>3, SubSeqOfAppend
  <2>7. Len(q) \in Nat
    BY <2>4
  <2>8. ASSUME NEW i \in 1 .. Len(p)
        PROVE  PathTo(t, p[i]) = SubSeq(p, 1, i)
    <3>1. CASE i = Len(q) + 1
      BY <3>1, <2>5, <2>6
    <3>2. CASE i \in 1 .. Len(q)
      BY <3>2, <2>4, <2>5, <2>6
    <3>3. i = Len(q) + 1 \/ i \in 1 .. Len(q)
      <4> HIDE DEF p
      <4> QED BY <2>5, <2>7
    <3> QED BY <3>1, <3>2, <3>3
  <2>9. Len(p) > 0 /\ p[Len(p)] = x
    <3> HIDE DEF p
    <3> QED BY <2>5, <2>7
  <2>10. Shaped(t, x, p)
    BY <2>5, <2>8, <2>9, <1>3 DEF Shaped
  <2> QED BY <2>10, <1>1
<1> QED BY <1>2, <1>3

(* A tree that holds another one has the same paths there. *)
Extends(u, t) == /\ DOMAIN t \subseteq DOMAIN u
                 /\ \A k \in DOMAIN t : u[k].parent = t[k].parent

(* Paths do not change when a tree grows. *)
LEMMA SamePaths ==
  ASSUME NEW t, Tree(t), NEW u, Tree(u), Extends(u, t)
  PROVE  \A m \in DOMAIN t \cup {NoMsg} : PathTo(u, m) = PathTo(t, m)
<1> DEFINE T == {k \in Nat : k \in DOMAIN t \cup {NoMsg} /\ PathTo(u, k) # PathTo(t, k)}
<1>0. DOMAIN t \cup {NoMsg} \subseteq Nat
  BY DEF Tree, NoMsg
<1> SUFFICES ASSUME T # {} PROVE FALSE
  BY <1>0
<1>1. PICK x \in T : \A y \in T : x <= y
  BY Least
<1>2. CASE x = NoMsg
  <2>1. x \notin DOMAIN t /\ x \notin DOMAIN u /\ x \in Nat
    BY <1>2 DEF Tree, NoMsg
  <2> QED BY <2>1, PathStep, <1>1
<1>3. CASE x \in DOMAIN t
  <2>1. /\ t[x].parent \in Nat /\ t[x].parent < x
        /\ t[x].parent # 0 => t[x].parent \in DOMAIN t
    BY <1>3, ParentOf
  <2>2. PathTo(u, t[x].parent) = PathTo(t, t[x].parent)
    BY <2>1, <1>1 DEF NoMsg
  <2>3. x \in DOMAIN u /\ u[x].parent = t[x].parent
    BY <1>3 DEF Extends
  <2>4. PathTo(t, x) = Append(PathTo(t, t[x].parent), x)
    BY <1>1, <1>3, PathStep
  <2>5. PathTo(u, x) = Append(PathTo(u, t[x].parent), x)
    BY <1>1, <2>3, PathStep
  <2> QED BY <2>2, <2>4, <2>5, <1>1
<1> QED BY <1>1, <1>2, <1>3

(* Deleting rows with what hangs below them leaves a tree. *)
LEMMA WithoutIsTree ==
  ASSUME NEW t, Tree(t), NEW ids
  PROVE  /\ Tree(Without(t, ids))
         /\ Extends(t, Without(t, ids))
         /\ \A k \in DOMAIN Without(t, ids) : Without(t, ids)[k] = t[k]
<1> DEFINE D == {k \in DOMAIN t : Range(PathTo(t, k)) \cap ids = {}}
           u == Without(t, ids)
<1>1. DOMAIN u = D /\ \A k \in D : u[k] = t[k]
  BY DEF Without, Restrict
<1>2. ASSUME NEW k \in D, t[k].parent # 0
      PROVE  t[k].parent \in D
  <2> DEFINE q == PathTo(t, t[k].parent)
  <2>1. k \in DOMAIN t /\ t[k].parent \in DOMAIN t /\ t[k].parent \in Nat /\ k \in Nat
    BY <1>2, ParentOf
  <2>2. q \in Seq(DOMAIN t)
    BY <2>1, PathShaped DEF Shaped
  <2>3. PathTo(t, k) = Append(q, k)
    BY <2>1, PathStep
  <2> HIDE DEF q
  <2>4. Range(q) \subseteq Range(PathTo(t, k))
    <3>1. Append(q, k) \in Seq(DOMAIN t)
          /\ Len(Append(q, k)) = Len(q) + 1 /\ \A i \in 1 .. Len(q) : Append(q, k)[i] = q[i]
      BY <2>1, <2>2, AppendAt
    <3>2. DOMAIN q = 1 .. Len(q) /\ DOMAIN Append(q, k) = 1 .. (Len(q) + 1) /\ Len(q) \in Nat
      BY <3>1, <2>2
    <3> QED BY <2>3, <3>1, <3>2 DEF Range
  <2>5. Range(PathTo(t, k)) \cap ids = {}
    BY <1>2
  <2> QED BY <2>1, <2>4, <2>5 DEF q
<1>3. \A k \in DOMAIN u : u[k] = t[k]
  BY <1>1
<1>4. Extends(t, u)
  BY <1>1 DEF Extends
<1>5. Tree(u)
  <2> HIDE DEF D, u
  <2>1. D \subseteq DOMAIN t
    BY DEF D
  <2>2. ASSUME NEW k \in DOMAIN u
        PROVE  u[k].parent = 0 \/ (u[k].parent \in DOMAIN u /\ u[k].parent < k)
    BY <2>1, <2>2, <1>1, <1>2, ParentOf
  <2> QED BY <2>1, <2>2, <1>1 DEF Tree, ParentsExist, NoMsg
<1> QED BY <1>3, <1>4, <1>5

-----------------------------------------------------------------------------
(* The newest of some messages. *)

(* A bounded, non-empty set of numbers has a maximum. *)
LEMMA Greatest ==
  ASSUME NEW n \in Nat, NEW S \in SUBSET (0 .. n), S # {}
  PROVE  Max(S) \in S /\ \A y \in S : y <= Max(S)
<1> DEFINE T == {n - x : x \in S}
<1>1. T \in SUBSET Nat /\ T # {}
  <2>1. \A x \in S : n - x \in Nat
    OBVIOUS
  <2>2. PICK x \in S : TRUE
    OBVIOUS
  <2>3. n - x \in T
    OBVIOUS
  <2> QED BY <2>1, <2>3
<1>2. PICK a \in T : \A b \in T : a <= b
  BY <1>1, Least
<1>3. PICK x \in S : a = n - x
  BY <1>2
<1>4. \A y \in S : n - x <= n - y
  BY <1>2, <1>3
<1>5. \A y \in S : x >= y
  BY <1>4
<1> QED BY <1>5 DEF Max

(* Newest is that maximum, 0 of nothing. *)
LEMMA NewestIs ==
  ASSUME NEW n \in Nat, NEW S \in SUBSET (0 .. n)
  PROVE  /\ S = {} => Newest(S) = 0
         /\ S # {} => Newest(S) \in S /\ \A y \in S : y <= Newest(S)
BY Greatest DEF Newest, NoMsg

(* What active_path returns: the path of the leaf if it is stored, else of  *)
(* some stored message, and nothing only from an empty tree.                *)
LEMMA ActivePathIs ==
  ASSUME NEW t, Tree(t), NEW n \in Nat, DOMAIN t \subseteq 1 .. n, NEW l
  PROVE  /\ l \in DOMAIN t => ActivePath(t, l) = PathTo(t, l)
         /\ \E m \in DOMAIN t \cup {NoMsg} : /\ ActivePath(t, l) = PathTo(t, m)
                                             /\ m = NoMsg => DOMAIN t = {}
                                             /\ Last0(ActivePath(t, l)) = m
<1> DEFINE m == IF l \in DOMAIN t THEN l ELSE Newest(DOMAIN t)
<1>1. DOMAIN t \in SUBSET (0 .. n)
  OBVIOUS
<1>2. m \in DOMAIN t \/ (m = 0 /\ DOMAIN t = {})
  BY <1>1, NewestIs
<1>3. ActivePath(t, l) = PathTo(t, m)
  BY DEF ActivePath
<1>4. m \in Nat /\ 0 \notin DOMAIN t
  BY <1>2 DEF Tree
<1>5. Shaped(t, m, PathTo(t, m))
  BY <1>4, PathShaped
<1>6. Last0(PathTo(t, m)) = m
  BY <1>2, <1>4, <1>5 DEF Shaped, Last0, NoMsg
<1> HIDE DEF m
<1>7. l \in DOMAIN t => m = l
  BY DEF m
<1> QED BY <1>2, <1>3, <1>4, <1>6, <1>7 DEF NoMsg

(* AppliedAt is the last position of a path that holds a cutoff. *)
LEMMA AppliedAtIs ==
  ASSUME NEW cutoffs, NEW S, NEW path \in Seq(S)
  PROVE  LET a == AppliedAt(cutoffs, path)
         IN  /\ a \in 0 .. Len(path)
             /\ a > 0 => path[a] \in cutoffs
             /\ \A i \in a + 1 .. Len(path) : path[i] \notin cutoffs
<1> DEFINE T == {i \in DOMAIN path : path[i] \in cutoffs}
<1>1. Len(path) \in Nat /\ DOMAIN path = 1 .. Len(path)
  OBVIOUS
<1>2. T \in SUBSET (0 .. Len(path))
  BY <1>1
<1>3. /\ T = {} => Newest(T) = 0
      /\ T # {} => Newest(T) \in T /\ \A y \in T : y <= Newest(T)
  BY <1>1, <1>2, NewestIs
<1>4. AppliedAt(cutoffs, path) = Newest(T)
  BY DEF AppliedAt
<1> DEFINE a == Newest(T)
<1>5. a \in 0 .. Len(path)
  BY <1>1, <1>2, <1>3
<1>6. a > 0 => path[a] \in cutoffs
  BY <1>3
<1>7. ASSUME NEW i \in a + 1 .. Len(path), path[i] \in cutoffs PROVE FALSE
  <2>1. i \in T
    BY <1>1, <1>5, <1>7
  <2>2. i <= a
    BY <2>1, <1>3
  <2> QED BY <2>2, <1>5, <1>1
<1> HIDE DEF a
<1> QED BY <1>4, <1>5, <1>6, <1>7 DEF a
-----------------------------------------------------------------------------
(* deepest_leaf *)

(* f computes the deepest leaf of the messages from n on. *)
Descends(f, t, n) ==
  f = [k \in {j \in DOMAIN t : j >= n} |->
         IF Children(t, k) = {} THEN k ELSE f[Newest(Children(t, k))]]

(* The newest child is a child. *)
LEMMA NewestChild ==
  ASSUME NEW t, Tree(t), NEW n \in Nat, DOMAIN t \subseteq 1 .. n,
         NEW m \in DOMAIN t, Children(t, m) # {}
  PROVE  /\ Newest(Children(t, m)) \in DOMAIN t
         /\ t[Newest(Children(t, m))].parent = m
         /\ m < Newest(Children(t, m))
<1>1. Children(t, m) \in SUBSET (0 .. n)
  BY DEF Children
<1>2. Newest(Children(t, m)) \in Children(t, m)
  BY <1>1, NewestIs
<1>3. Newest(Children(t, m)) \in DOMAIN t /\ t[Newest(Children(t, m))].parent = m
  BY <1>2 DEF Children
<1> QED BY <1>3, ParentOf

(* There is a computation for all messages, by induction from the newest. *)
LEMMA DescendsExists ==
  ASSUME NEW t, Tree(t), NEW n \in Nat, DOMAIN t \subseteq 1 .. n
  PROVE  \E f : Descends(f, t, 0)
<1> DEFINE T == {j \in Nat : j <= n + 1 /\ \E f : Descends(f, t, n + 1 - j)}
           U == {j \in Nat : j <= n + 1 /\ j \notin T}
<1> SUFFICES ASSUME U # {} PROVE FALSE
  <2>1. n + 1 \in T
    OBVIOUS
  <2>2. (n + 1) - (n + 1) = 0
    OBVIOUS
  <2> QED BY <2>1, <2>2
<1>1. PICK x \in U : \A y \in U : x <= y
  BY Least
<1>2. CASE x = 0
  <2> DEFINE f == [k \in {} |-> 0]
  <2>1. {j \in DOMAIN t : j >= n + 1} = {}
    OBVIOUS
  <2>2. Descends(f, t, n + 1)
    BY <2>1 DEF Descends
  <2>3. \E g : Descends(g, t, n + 1 - x)
    BY <2>2, <1>2
  <2> QED BY <2>3, <1>1
<1>3. CASE x # 0
  <2>1. x - 1 \in Nat /\ x - 1 \notin U /\ x - 1 <= n + 1
    BY <1>1, <1>3
  <2>2. PICK f : Descends(f, t, n + 1 - (x - 1))
    BY <2>1
  <2> DEFINE a == n + 1 - x
             Q == {j \in DOMAIN t : j >= a}
             R == {j \in DOMAIN t : j >= a + 1}
             B(k) == IF Children(t, k) = {} THEN k ELSE f[Newest(Children(t, k))]
             g == [k \in Q |-> B(k)]
  <2>3. a \in Nat /\ n + 1 - (x - 1) = a + 1
    BY <1>1
  <2>4. ASSUME NEW k \in R PROVE f[k] = B(k)
    <3> HIDE DEF a
    <3>1. f = [j \in R |-> B(j)]
      BY <2>2, <2>3 DEF Descends
    <3> HIDE DEF B, R
    <3> QED BY <3>1
  <2>5. ASSUME NEW k \in R PROVE f[k] = g[k]
    <3>1. k \in Q
      BY <2>3
    <3>2. g[k] = B(k)
      BY <3>1
    <3> QED BY <2>4, <3>2
  <2>6. ASSUME NEW k \in Q, Children(t, k) # {}
        PROVE  f[Newest(Children(t, k))] = g[Newest(Children(t, k))]
    <3>1. Newest(Children(t, k)) \in DOMAIN t /\ k < Newest(Children(t, k))
      BY <2>6, NewestChild
    <3>2. Newest(Children(t, k)) \in R
      BY <3>1, <2>3
    <3> QED BY <3>2, <2>5
  <2>7. Descends(g, t, a)
    <3>1. \A k \in Q : B(k) = IF Children(t, k) = {} THEN k
                                ELSE g[Newest(Children(t, k))]
      BY <2>6
    <3> HIDE DEF a
    <3> QED BY <3>1 DEF Descends
  <2> QED BY <2>7, <1>1
<1> QED BY <1>2, <1>3

(* DeepestLeaf goes on from the newest child, and stops without one. *)
LEMMA DeepestStep ==
  ASSUME NEW t, Tree(t), NEW n \in Nat, DOMAIN t \subseteq 1 .. n, NEW m \in DOMAIN t
  PROVE  /\ Children(t, m) = {} => DeepestLeaf(t, m) = m
         /\ Children(t, m) # {} =>
              DeepestLeaf(t, m) = DeepestLeaf(t, Newest(Children(t, m)))
<1> DEFINE B(f, k) == IF Children(t, k) = {} THEN k ELSE f[Newest(Children(t, k))]
           f == CHOOSE f : f = [k \in DOMAIN t |-> B(f, k)]
<1>1. {j \in DOMAIN t : j >= 0} = DOMAIN t
  BY DEF Tree
<1>2. \E g : g = [k \in DOMAIN t |-> B(g, k)]
  BY <1>1, DescendsExists DEF Descends
<1>3. f = [k \in DOMAIN t |-> B(f, k)]
  BY <1>2
<1>4. \A k \in DOMAIN t : DeepestLeaf(t, k) = f[k]
  BY DEF DeepestLeaf
<1>5. ASSUME NEW k \in DOMAIN t PROVE f[k] = B(f, k)
  <2> HIDE DEF B, f
  <2> QED BY <1>3
<1> HIDE DEF f
<1> QED BY <1>4, <1>5, NewestChild

(* It is a stored message without children that m leads to. *)
LEMMA DeepestLeafIs ==
  ASSUME NEW t, Tree(t), NEW n \in Nat, DOMAIN t \subseteq 1 .. n, NEW m \in DOMAIN t
  PROVE  /\ DeepestLeaf(t, m) \in DOMAIN t
         /\ Children(t, DeepestLeaf(t, m)) = {}
         /\ m \in Range(PathTo(t, DeepestLeaf(t, m)))
<1> DEFINE Good(k) == /\ DeepestLeaf(t, k) \in DOMAIN t
                      /\ Children(t, DeepestLeaf(t, k)) = {}
                      /\ k \in Range(PathTo(t, DeepestLeaf(t, k)))
           T == {n - k : k \in {j \in DOMAIN t : ~ Good(j)}}
<1> SUFFICES ASSUME T # {} PROVE FALSE
  OBVIOUS
<1>1. T \in SUBSET Nat
  OBVIOUS
<1>2. PICK a \in T : \A b \in T : a <= b
  BY <1>1, Least
<1>3. PICK x \in DOMAIN t : a = n - x /\ ~ Good(x)
  BY <1>2
<1>4. ASSUME NEW y \in DOMAIN t, x < y PROVE Good(y)
  <2>1. n - y < n - x
    BY <1>4
  <2>2. ~ Good(y) => n - y \in T
    OBVIOUS
  <2> HIDE DEF T, Good
  <2>3. n - y \in Nat /\ n - x \in Nat
    OBVIOUS
  <2> QED BY <1>2, <1>3, <2>1, <2>2, <2>3
<1>5. CASE Children(t, x) = {}
  <2>1. DeepestLeaf(t, x) = x
    BY <1>5, DeepestStep
  <2>2. Shaped(t, x, PathTo(t, x))
    BY PathShaped DEF Tree
  <2>3. x \in Range(PathTo(t, x))
    BY <2>2, SMTT(30) DEF Shaped, Range
  <2> QED BY <1>3, <1>5, <2>1, <2>3
<1>6. CASE Children(t, x) # {}
  <2> DEFINE y == Newest(Children(t, x))
             d == DeepestLeaf(t, y)
             p == PathTo(t, d)
  <2>1. y \in DOMAIN t /\ t[y].parent = x /\ x < y
    BY <1>6, NewestChild
  <2>2. DeepestLeaf(t, x) = d
    BY <1>6, DeepestStep
  <2>3. Good(y)
    BY <2>1, <1>4
  <2>4. d \in DOMAIN t /\ Shaped(t, d, p)
    BY <2>3, PathShaped DEF Tree
  <2>5. PICK i \in 1 .. Len(p) : p[i] = y
    <3>1. y \in Range(p)
      BY <2>3
    <3> HIDE DEF p, y
    <3> QED BY <3>1, <2>4 DEF Range, Shaped
  <2>6. PathTo(t, y) = SubSeq(p, 1, i)
    BY <2>4, <2>5 DEF Shaped
  <2>7. PathTo(t, y) = Append(PathTo(t, x), y)
    BY <2>1, PathStep DEF Tree
  <2>8. x \in Range(PathTo(t, y))
    <3> DEFINE q == PathTo(t, x)
    <3>1. Shaped(t, x, q)
      BY PathShaped DEF Tree
    <3>2. q \in Seq(DOMAIN t) /\ Len(q) > 0 /\ q[Len(q)] = x
      BY <3>1 DEF Shaped
    <3> HIDE DEF q, y
    <3>3. /\ Append(q, y) \in Seq(DOMAIN t) /\ Len(Append(q, y)) = Len(q) + 1
          /\ \A j \in 1 .. Len(q) : Append(q, y)[j] = q[j]
      BY <3>2, <2>1, AppendAt
    <3>4. Len(q) \in DOMAIN Append(q, y) /\ Append(q, y)[Len(q)] = x
      BY <3>2, <3>3
    <3>5. x \in Range(Append(q, y))
      BY <3>4 DEF Range
    <3> QED BY <3>5, <2>7 DEF q
  <2>9. x \in Range(p)
    <3>1. p \in Seq(DOMAIN t) /\ i \in 0 .. Len(p)
      BY <2>4 DEF Shaped
    <3> HIDE DEF p
    <3>2. /\ SubSeq(p, 1, i) \in Seq(DOMAIN t) /\ Len(SubSeq(p, 1, i)) = i
          /\ \A j \in 1 .. i : SubSeq(p, 1, i)[j] = p[j]
      BY <3>1, SubSeqAt
    <3>3. PICK j \in DOMAIN SubSeq(p, 1, i) : SubSeq(p, 1, i)[j] = x
      BY <2>6, <2>8 DEF Range
    <3>4. j \in 1 .. i /\ p[j] = x /\ j \in DOMAIN p
      BY <3>1, <3>2, <3>3, SMTT(30)
    <3> QED BY <3>4 DEF Range
  <2>10. Good(x)
    BY <2>2, <2>3, <2>9
  <2> QED BY <2>10, <1>3
<1> QED BY <1>5, <1>6
=============================================================================
