---------------------------- MODULE LibraryProofs ---------------------------
(***************************************************************************)
(* Proofs about Library and the trees of PromptTrees, for any number of    *)
(* requests, owners, definitions and uploads, over any sound database.     *)
(*                                                                         *)
(* A copy is examined first: Before is a strict order, so that ids grow    *)
(* along it, and in a tree of two levels a folder comes before its         *)
(* members, so that every parent is found.  What a step does to sound rows *)
(* is stated next; their trees may have any depth.                         *)
(*                                                                         *)
(* TwoLevels is not inductive, because requests carry rows and trees they  *)
(* have read earlier.  TreeInv says what is still true of those: a folder  *)
(* that a row will go to may be gone, but as long as it is there it is a   *)
(* folder of the same owner (no step changes kind or owner, and no id is   *)
(* given out twice: Steady); a tree that was read stays sound, but its     *)
(* definitions may be gone; and a snapshot that is not stale has counted   *)
(* the copies that are there.  LevelsInv adds the levels of those trees    *)
(* that no import or copy made deeper, from where a step may put a row     *)
(* (Placed).  TablesInv does the same as TreeInv for the other tables, and *)
(* MediaInv for the uploads as long as requests follow one another.        *)
(***************************************************************************)
EXTENDS Library, FiniteSetTheorems, WellFoundedInduction, TLAPS

USE TreesAssumption, LibraryAssumption DEF TreesAssumption, LibraryAssumption, Kinds

(* The induction principle: a non-empty set of numbers has a least member, *)
(* so a claim that fails for some number fails for a least one.            *)
LEMMA Least == ASSUME NEW T \in SUBSET Nat, T # {} PROVE \E x \in T : \A y \in T : x <= y
<1> DEFINE R == OpToRel(<, Nat)
<1>1. IsWellFoundedOn(R, Nat)
  BY NatLessThanWellFounded
<1>2. PICK x \in T : \A y \in T : ~(<<y, x>> \in R)
  <2> HIDE DEF R
  <2> QED BY <1>1, WFMin
<1>3. \A a, b \in Nat : a < b => <<a, b>> \in R
  BY DEF OpToRel
<1> HIDE DEF R
<1>4. ASSUME NEW y \in T PROVE x <= y
  <2>1. ~(<<y, x>> \in R)
    BY <1>2
  <2>2. y < x => <<y, x>> \in R
    BY <1>3
  <2> QED BY <2>1, <2>2
<1> QED BY <1>4

-----------------------------------------------------------------------------
(* Copies of trees. *)

(* Sound rows of prompt_nodes: ids, foreign keys, and trees that keep to   *)
(* themselves.                                                             *)
SoundRows(rows, defs, last) ==
  /\ last \in Nat
  /\ DOMAIN rows \subseteq 1 .. last
  /\ \A n \in DOMAIN rows : rows[n] \in NodeRows(DOMAIN rows, defs, last)
  /\ WithinOwner(rows)

(* What is known of a tree that a request has read, for as long as it      *)
(* keeps it: a definition of it may be gone by the time it is copied.      *)
SoundTree(tree, last) == SoundRows(tree, Defs, last)

LEMMA TreeIsFinite ==
  ASSUME NEW tree, NEW last, SoundTree(tree, last), NEW S \in SUBSET DOMAIN tree
  PROVE  IsFiniteSet(S) /\ Cardinality(S) \in Nat /\ Cardinality(S) <= Cardinality(DOMAIN tree)
         /\ IsFiniteSet(DOMAIN tree) /\ Cardinality(DOMAIN tree) \in Nat
<1>1. IsFiniteSet(1 .. last)
  BY FS_Interval DEF SoundTree, SoundRows
<1>2. IsFiniteSet(DOMAIN tree)
  BY <1>1, FS_Subset DEF SoundTree, SoundRows
<1>3. IsFiniteSet(S) /\ Cardinality(S) <= Cardinality(DOMAIN tree)
  BY <1>2, FS_Subset
<1> QED
  BY <1>2, <1>3, FS_CardinalityType

(* The order in which the rows of a tree are copied is strict and total. *)
LEMMA BeforeIsOrder ==
  ASSUME NEW tree, NEW last, SoundTree(tree, last),
         NEW a \in DOMAIN tree, NEW b \in DOMAIN tree, NEW c \in DOMAIN tree
  PROVE  /\ ~Before(tree, a, a)
         /\ Before(tree, a, b) /\ Before(tree, b, c) => Before(tree, a, c)
         /\ a # b => Before(tree, a, b) \/ Before(tree, b, a)
<1>1. /\ a \in Nat /\ b \in Nat /\ c \in Nat
      /\ tree[a].ord \in Nat /\ tree[b].ord \in Nat /\ tree[c].ord \in Nat
  BY DEF SoundTree, SoundRows, NodeRows
<1> QED
  BY <1>1 DEF Before

(* So the ids of the copies are given out one after the other. *)
LEMMA CopyIdGrows ==
  ASSUME NEW tree, NEW last, SoundTree(tree, last), lastId \in Nat,
         NEW a \in DOMAIN tree, NEW b \in DOMAIN tree, Before(tree, a, b)
  PROVE  CopyId(tree, a) < CopyId(tree, b)
<1> DEFINE A == {k \in DOMAIN tree : Before(tree, k, a)}
           B == {k \in DOMAIN tree : Before(tree, k, b)}
<1>1. A \subseteq B /\ a \in B /\ a \notin A
  BY BeforeIsOrder
<1>2. IsFiniteSet(B) /\ Cardinality(A) \in Nat /\ Cardinality(B) \in Nat
  BY TreeIsFinite
<1>3. CopyId(tree, a) = lastId + 1 + Cardinality(A) /\ CopyId(tree, b) = lastId + 1 + Cardinality(B)
  BY DEF CopyId, NextId
<1> HIDE DEF A, B
<1>4. Cardinality(A) <= Cardinality(B) /\ Cardinality(A) # Cardinality(B)
  BY <1>1, <1>2, FS_Subset
<1> QED
  BY <1>2, <1>3, <1>4

LEMMA CopyIds ==
  ASSUME NEW tree, NEW last, SoundTree(tree, last), lastId \in Nat
  PROVE  /\ \A n \in DOMAIN tree :
              CopyId(tree, n) \in lastId + 1 .. lastId + Cardinality(DOMAIN tree)
         /\ \A a, b \in DOMAIN tree : CopyId(tree, a) = CopyId(tree, b) => a = b
<1>1. ASSUME NEW n \in DOMAIN tree
      PROVE  CopyId(tree, n) \in lastId + 1 .. lastId + Cardinality(DOMAIN tree)
  <2> DEFINE A == {k \in DOMAIN tree : Before(tree, k, n)}
  <2>1. A \subseteq DOMAIN tree /\ n \notin A
    BY BeforeIsOrder
  <2>2. /\ IsFiniteSet(DOMAIN tree) /\ Cardinality(A) \in Nat /\ Cardinality(DOMAIN tree) \in Nat
        /\ Cardinality(A) <= Cardinality(DOMAIN tree)
    BY TreeIsFinite
  <2>3. CopyId(tree, n) = lastId + 1 + Cardinality(A)
    BY DEF CopyId, NextId
  <2> HIDE DEF A
  <2>4. Cardinality(A) # Cardinality(DOMAIN tree)
    BY <2>1, <2>2, FS_Subset
  <2> QED
    BY <2>2, <2>3, <2>4
<1>2. ASSUME NEW a \in DOMAIN tree, NEW b \in DOMAIN tree, CopyId(tree, a) = CopyId(tree, b)
      PROVE  a = b
  <2>1. CopyId(tree, a) \in Int /\ CopyId(tree, b) \in Int
    BY <1>1
  <2>2. ~Before(tree, a, b) /\ ~Before(tree, b, a)
    BY <1>2, <2>1, CopyIdGrows
  <2> QED
    BY <2>2, BeforeIsOrder
<1> QED
  BY <1>1, <1>2

(* The place of a copy: below the copy of its parent, if that comes first. *)
CopyParent(tree, n) ==
  LET p == tree[n].parent IN
    IF p \in DOMAIN tree /\ Before(tree, p, n) THEN CopyId(tree, p) ELSE Root

(* In a tree of two levels a folder is copied before what it holds. *)
LEMMA FolderFirst ==
  ASSUME NEW tree, NEW last, SoundTree(tree, last), InTwoLevels(tree), NEW n \in DOMAIN tree
  PROVE  /\ tree[n].parent # Root => tree[n].parent \in DOMAIN tree
         /\ CopyParent(tree, n) = IF tree[n].parent = Root THEN Root ELSE CopyId(tree, tree[n].parent)
<1>1. CASE tree[n].parent = Root
  <2>1. Root \notin DOMAIN tree
    BY DEF SoundTree, SoundRows, Root
  <2> QED BY <1>1, <2>1 DEF CopyParent
<1>2. CASE tree[n].parent # Root
  <2>1. tree[n].parent \in DOMAIN tree /\ Before(tree, tree[n].parent, n)
    BY <1>2 DEF InTwoLevels, Shallow, Before
  <2> QED BY <1>2, <2>1 DEF CopyParent
<1> QED BY <1>1, <1>2

(* The rows of a copy. *)
CopyRow(tree, n, o, src) ==
  [owner |-> o, parent |-> CopyParent(tree, n),
   ord |-> tree[n].ord, kind |-> tree[n].kind, def |-> tree[n].def, on |-> tree[n].on,
   src |-> IF src = NoOwner THEN tree[n].src ELSE src]

LEMMA CopyIs ==
  ASSUME NEW tree, NEW last, SoundTree(tree, last), lastId \in Nat, NEW o, NEW src,
         NEW batch, batch = CopyOf(tree, o, src)
  PROVE  /\ \A n \in DOMAIN tree : CopyId(tree, n) \in DOMAIN batch
         /\ \A m \in DOMAIN batch : \E n \in DOMAIN tree : m = CopyId(tree, n)
         /\ Cardinality(DOMAIN batch) = Cardinality(DOMAIN tree)
         /\ \A n \in DOMAIN tree : batch[CopyId(tree, n)] = CopyRow(tree, n, o, src)
<1> DEFINE parentOf(n) == LET p == tree[n].parent IN
              IF p \in DOMAIN tree /\ Before(tree, p, n) THEN CopyId(tree, p) ELSE Root
           rowOf(n) == [tree[n] EXCEPT !.owner = o, !.parent = parentOf(n),
                                       !.src = IF src = NoOwner THEN @ ELSE src]
           Ids == {CopyId(tree, n) : n \in DOMAIN tree}
           node0(m) == CHOOSE n \in DOMAIN tree : CopyId(tree, n) = m
<1>1. CopyOf(tree, o, src) = [m \in Ids |-> rowOf(node0(m))]
  BY DEF CopyOf
<1>2. ASSUME NEW n \in DOMAIN tree PROVE node0(CopyId(tree, n)) = n
  BY CopyIds
<1>3. ASSUME NEW n \in DOMAIN tree PROVE parentOf(n) = CopyParent(tree, n)
  BY DEF CopyParent
<1>4. ASSUME NEW n \in DOMAIN tree
      PROVE  rowOf(n) = [owner |-> o, parent |-> parentOf(n),
               ord |-> tree[n].ord, kind |-> tree[n].kind, def |-> tree[n].def,
               on |-> tree[n].on, src |-> IF src = NoOwner THEN tree[n].src ELSE src]
  <2>1. tree[n] \in NodeRows(DOMAIN tree, Defs, last)
    BY DEF SoundTree, SoundRows
  <2>2. rowOf(n) = [tree[n] EXCEPT !.owner = o, !.parent = parentOf(n),
                                   !.src = IF src = NoOwner THEN tree[n].src ELSE src]
    OBVIOUS
  <2> DEFINE s == IF src = NoOwner THEN tree[n].src ELSE src
             p == parentOf(n)
             F == {"owner", "parent", "ord", "kind", "def", "on", "src"}
  <2>3. tree[n] = [f \in F |-> tree[n][f]]
    BY <2>1 DEF NodeRows
  <2> HIDE DEF s, p, parentOf
  <2>4. rowOf(n) = [f \in F |-> IF f = "owner" THEN o ELSE IF f = "parent" THEN p
                                ELSE IF f = "src" THEN s ELSE tree[n][f]]
    BY <2>2, <2>3 DEF s, p
  <2> HIDE DEF rowOf
  <2>5. rowOf(n) = [owner |-> o, parent |-> p, ord |-> tree[n].ord, kind |-> tree[n].kind,
                    def |-> tree[n].def, on |-> tree[n].on, src |-> s]
    BY <2>4
  <2> QED BY <2>5 DEF s, p
<1>5. Cardinality(Ids) = Cardinality(DOMAIN tree)
  <2> DEFINE f == [n \in DOMAIN tree |-> CopyId(tree, n)]
  <2>1. f \in Bijection(DOMAIN tree, Ids)
    BY CopyIds DEF Bijection, Injection, Surjection, IsInjective
  <2>2. ExistsBijection(DOMAIN tree, Ids)
    BY <2>1 DEF ExistsBijection
  <2>3. IsFiniteSet(DOMAIN tree)
    BY TreeIsFinite
  <2> HIDE DEF Ids
  <2> QED BY <2>2, <2>3, FS_Bijection
<1>6. ASSUME NEW n \in DOMAIN tree
      PROVE  CopyOf(tree, o, src)[CopyId(tree, n)] = rowOf(n)
  <2>1. CopyId(tree, n) \in Ids
    OBVIOUS
  <2> HIDE DEF rowOf, node0, Ids
  <2> QED BY <1>1, <1>2, <2>1
<1>7. DOMAIN CopyOf(tree, o, src) = Ids
  <2> HIDE DEF rowOf, node0, Ids
  <2> QED BY <1>1
<1>8. ASSUME NEW n \in DOMAIN tree PROVE rowOf(n) = CopyRow(tree, n, o, src)
  BY <1>3, <1>4 DEF CopyRow
<1> HIDE DEF rowOf, parentOf
<1> QED BY <1>5, <1>6, <1>7, <1>8

(* What is inserted is the tree that was read, if that has two levels. *)
LEMMA CopyHasShape ==
  ASSUME NEW tree, NEW last, SoundTree(tree, last), InTwoLevels(tree), lastId \in Nat,
         NEW o, NEW src, NEW batch, batch = CopyOf(tree, o, src)
  PROVE  SameShape(tree, batch)
<1> DEFINE f == [n \in DOMAIN tree |-> CopyId(tree, n)]
<1>1. /\ \A n \in DOMAIN tree : CopyId(tree, n) \in DOMAIN batch
      /\ \A n \in DOMAIN tree : batch[CopyId(tree, n)] = CopyRow(tree, n, o, src)
  BY CopyIs
<1>2. ASSUME NEW n \in DOMAIN tree
      PROVE  /\ batch[CopyId(tree, n)].parent =
                  IF tree[n].parent = Root THEN Root ELSE CopyId(tree, tree[n].parent)
             /\ batch[CopyId(tree, n)].ord = tree[n].ord
             /\ batch[CopyId(tree, n)].kind = tree[n].kind
             /\ batch[CopyId(tree, n)].def = tree[n].def
  <2>1. batch[CopyId(tree, n)] = CopyRow(tree, n, o, src)
    BY <1>1
  <2>2. CopyParent(tree, n) = IF tree[n].parent = Root THEN Root ELSE CopyId(tree, tree[n].parent)
    BY FolderFirst
  <2> QED BY <2>1, <2>2 DEF CopyRow
<1>3. \A n \in DOMAIN tree : tree[n].parent # Root => tree[n].parent \in DOMAIN tree
  BY FolderFirst
<1>4. f \in [DOMAIN tree -> DOMAIN batch]
  BY <1>1
<1>5. \A a, b \in DOMAIN tree : f[a] = f[b] => a = b
  BY CopyIds
<1>6. \A a \in DOMAIN tree :
        /\ batch[f[a]].parent = IF tree[a].parent = Root THEN Root ELSE f[tree[a].parent]
        /\ batch[f[a]].ord = tree[a].ord /\ batch[f[a]].kind = tree[a].kind
        /\ batch[f[a]].def = tree[a].def
  BY <1>2, <1>3
<1> HIDE DEF f
<1> QED BY <1>4, <1>5, <1>6 DEF SameShape

(* A row of a tree of two levels: it stands at the root, or it is a ref in *)
(* a folder.  No folder is a ref, so this says it of the folder as well.   *)
InFolder(rows, n) ==
  \/ rows[n].parent = Root
  \/ rows[n].kind = "ref" /\ rows[n].parent \in DOMAIN rows /\ rows[rows[n].parent].kind = "folder"

LEMMA CopyInFolders ==
  ASSUME NEW tree, NEW last, SoundTree(tree, last), InTwoLevels(tree), lastId \in Nat,
         NEW o, NEW src, NEW batch, batch = CopyOf(tree, o, src), NEW m \in DOMAIN batch
  PROVE  InFolder(batch, m)
<1>1. /\ \A n \in DOMAIN tree : CopyId(tree, n) \in DOMAIN batch
      /\ \A n \in DOMAIN tree : batch[CopyId(tree, n)] = CopyRow(tree, n, o, src)
  BY CopyIs
<1>2. PICK n \in DOMAIN tree : m = CopyId(tree, n)
  BY CopyIs
<1>3. ASSUME NEW k \in DOMAIN tree
      PROVE  /\ batch[CopyId(tree, k)].kind = tree[k].kind
             /\ batch[CopyId(tree, k)].parent = CopyParent(tree, k)
  <2>1. batch[CopyId(tree, k)] = CopyRow(tree, k, o, src)
    BY <1>1
  <2> QED BY <2>1 DEF CopyRow
<1>4. CopyParent(tree, n) = IF tree[n].parent = Root THEN Root ELSE CopyId(tree, tree[n].parent)
  BY FolderFirst
<1>5. tree[n].parent # Root =>
        tree[n].kind = "ref" /\ tree[n].parent \in DOMAIN tree /\ tree[tree[n].parent].kind = "folder"
  BY DEF InTwoLevels, Shallow
<1>6. CASE tree[n].parent = Root
  BY <1>2, <1>3, <1>4, <1>6 DEF InFolder
<1>7. CASE tree[n].parent # Root
  <2>1. PICK p \in DOMAIN tree : p = tree[n].parent
    BY <1>5, <1>7
  <2>2. batch[m].parent = CopyId(tree, p) /\ batch[m].kind = "ref" /\ tree[p].kind = "folder"
    BY <1>2, <1>3, <1>4, <1>5, <1>7, <2>1
  <2> QED BY <1>1, <1>3, <2>2 DEF InFolder
<1> QED BY <1>6, <1>7

(* A copy is sound, whatever happened since the tree was read. *)
LEMMA CopyIsSound ==
  ASSUME NEW tree, NEW last, SoundTree(tree, last), lastId \in Nat, last <= lastId,
         NEW o \in Owners, NEW src \in {NoOwner} \cup Templates \cup Packs,
         NEW batch, batch = CopyOf(tree, o, src),
         NEW defs, \A n \in DOMAIN batch : batch[n].def \in {NoDef} \cup defs
  PROVE  /\ SoundRows(batch, defs, lastId + Cardinality(DOMAIN batch))
         /\ DOMAIN batch \subseteq lastId + 1 .. lastId + Cardinality(DOMAIN batch)
         /\ \A m \in DOMAIN batch : batch[m].owner = o
<1> DEFINE to == lastId + Cardinality(DOMAIN tree)
<1>1. /\ \A n \in DOMAIN tree : CopyId(tree, n) \in DOMAIN batch
      /\ \A m \in DOMAIN batch : \E n \in DOMAIN tree : m = CopyId(tree, n)
      /\ Cardinality(DOMAIN batch) = Cardinality(DOMAIN tree)
      /\ \A n \in DOMAIN tree : batch[CopyId(tree, n)] = CopyRow(tree, n, o, src)
  BY CopyIs
<1>2. ASSUME NEW n \in DOMAIN tree PROVE batch[CopyId(tree, n)].owner = o
  <2>1. batch[CopyId(tree, n)] = CopyRow(tree, n, o, src)
    BY <1>1
  <2> QED BY <2>1 DEF CopyRow
<1>3. \A n \in DOMAIN tree : CopyParent(tree, n) \in {Root} \cup DOMAIN batch
  BY <1>1 DEF CopyParent
<1>4. Cardinality(DOMAIN tree) \in Nat
  BY TreeIsFinite
<1>5. \A n \in DOMAIN tree : CopyId(tree, n) \in lastId + 1 .. to
  BY CopyIds
<1>6. DOMAIN batch \subseteq lastId + 1 .. to /\ to \in Nat
  BY <1>1, <1>4, <1>5
<1>7. ASSUME NEW n \in DOMAIN tree
      PROVE  batch[CopyId(tree, n)] \in NodeRows(DOMAIN batch, defs, to)
  <2> DEFINE row == batch[CopyId(tree, n)]
             p == CopyParent(tree, n)
             s == IF src = NoOwner THEN tree[n].src ELSE src
  <2>1. row = [owner |-> o, parent |-> p, ord |-> tree[n].ord, kind |-> tree[n].kind,
               def |-> tree[n].def, on |-> tree[n].on, src |-> s]
    BY <1>1 DEF CopyRow
  <2>2. /\ tree[n].ord \in 0 .. last /\ tree[n].kind \in {"folder", "ref", "content", "history"}
        /\ tree[n].on \in BOOLEAN /\ tree[n].src \in {NoOwner} \cup Templates \cup Packs
    BY DEF SoundTree, SoundRows, NodeRows
  <2>3. p \in {Root} \cup DOMAIN batch
    BY <1>3
  <2>4. s \in {NoOwner} \cup Templates \cup Packs
    BY <2>2
  <2>5. CopyId(tree, n) \in DOMAIN batch
    BY <1>1
  <2>6. tree[n].def \in {NoDef} \cup defs
    <3>1. row.def \in {NoDef} \cup defs
      BY <2>5
    <3> QED BY <3>1, <2>1
  <2>7. tree[n].ord \in 0 .. to
    BY <2>2, <1>4 DEF SoundTree, SoundRows
  <2> HIDE DEF p, s, row, to
  <2>9. row \in NodeRows(DOMAIN batch, defs, to)
    BY <2>1, <2>2, <2>3, <2>4, <2>6, <2>7 DEF NodeRows
  <2> QED BY <2>9 DEF row
<1>8. \A m \in DOMAIN batch : \E n \in DOMAIN tree : m = CopyId(tree, n)
  BY <1>1
<1>9. \A m \in DOMAIN batch : batch[m].owner = o
  BY <1>2, <1>8
<1>10. SoundRows(batch, defs, to)
  <2>1. \A m \in DOMAIN batch : batch[m] \in NodeRows(DOMAIN batch, defs, to)
    BY <1>7, <1>8
  <2>2. WithinOwner(batch)
    BY <1>9, <2>1 DEF WithinOwner, NodeRows
  <2>3. DOMAIN batch \subseteq 1 .. to
    BY <1>6
  <2> QED BY <1>6, <2>1, <2>2, <2>3 DEF SoundRows
<1> QED BY <1>1, <1>6, <1>9, <1>10

-----------------------------------------------------------------------------
(* What the statements of a request do to sound rows. *)

(* A tree that is put beside the rows that are there. *)
LEMMA JoinedAreSound ==
  ASSUME NEW rows, NEW defs, NEW last, SoundRows(rows, defs, last),
         NEW batch, NEW more, NEW end, SoundRows(batch, more, end),
         DOMAIN rows \cap DOMAIN batch = {}, defs \subseteq more, last <= end,
         NEW all, all = [n \in DOMAIN rows \cup DOMAIN batch |->
                           IF n \in DOMAIN batch THEN batch[n] ELSE rows[n]]
  PROVE  SoundRows(all, more, end)
<1>1. /\ DOMAIN all = DOMAIN rows \cup DOMAIN batch
      /\ \A n \in DOMAIN rows : all[n] = rows[n]
      /\ \A n \in DOMAIN batch : all[n] = batch[n]
  OBVIOUS
<1>2. last \in Nat /\ end \in Nat /\ DOMAIN rows \subseteq 1 .. last /\ DOMAIN batch \subseteq 1 .. end
  BY DEF SoundRows
<1>3. ASSUME NEW n \in DOMAIN rows PROVE rows[n] \in NodeRows(DOMAIN all, more, end)
  BY <1>1, <1>2 DEF SoundRows, NodeRows
<1>4. ASSUME NEW n \in DOMAIN batch PROVE batch[n] \in NodeRows(DOMAIN all, more, end)
  BY <1>1, <1>2 DEF SoundRows, NodeRows
<1>5. WithinOwner(all)
  BY <1>1 DEF SoundRows, WithinOwner
<1>6. DOMAIN all \subseteq 1 .. end
  BY <1>1, <1>2
<1> QED
  BY <1>1, <1>2, <1>3, <1>4, <1>5, <1>6 DEF SoundRows

(* Some rows are rewritten; the kind and the owner of a row never change. *)
LEMMA RewrittenAreSound ==
  ASSUME NEW rows, NEW defs, NEW last, SoundRows(rows, defs, last),
         NEW all, DOMAIN all = DOMAIN rows, NEW more, NEW end \in Nat, last <= end,
         \A n \in DOMAIN all :
            /\ all[n] \in NodeRows(DOMAIN all, more, end)
            /\ all[n].kind = rows[n].kind /\ all[n].owner = rows[n].owner
            /\ all[n].parent # Root => rows[all[n].parent].owner = all[n].owner
  PROVE  SoundRows(all, more, end)
<1>1. ASSUME NEW n \in DOMAIN all, all[n].parent # Root
      PROVE  all[n].parent \in DOMAIN all /\ all[all[n].parent].owner = all[n].owner
  BY <1>1 DEF NodeRows
<1>2. WithinOwner(all)
  BY <1>1 DEF WithinOwner
<1>3. DOMAIN all \subseteq 1 .. end
  BY DEF SoundRows
<1> QED
  BY <1>2, <1>3 DEF SoundRows

(* A row goes with its parent, however deep it stands. *)
LEMMA GoneIsClosed ==
  ASSUME NEW ids, NEW n \in DOMAIN node, node[n].parent # Root, node[n].parent \in Gone(ids)
  PROVE  n \in Gone(ids)
<1> DEFINE below == {k \in DOMAIN node : node[k].parent # Root}
           Takes(S) == {k \in below : node[k].parent \in ids \cup S}
           down == {k \in below : \A S \in SUBSET below : Takes(S) \subseteq S => k \in S}
<1>1. Gone(ids) = ids \cup down
  BY DEF Gone
<1>2. ASSUME NEW S \in SUBSET below, Takes(S) \subseteq S PROVE n \in S
  <2>1. node[n].parent \in ids \cup S
    BY <1>1, <1>2
  <2>2. n \in Takes(S)
    BY <2>1
  <2> QED BY <1>2, <2>2
<1> QED BY <1>1, <1>2

(* Deleting rows takes what is in them along, so nothing comes loose. *)
LEMMA CascadeIsSound ==
  ASSUME SoundRows(node, DOMAIN def, lastId), NEW ids \in SUBSET DOMAIN node,
         NEW left, left = Without(ids)
  PROVE  SoundRows(left, DOMAIN def, lastId)
         /\ DOMAIN left \subseteq DOMAIN node /\ \A n \in DOMAIN left : left[n] = node[n]
<1>1. /\ DOMAIN left = DOMAIN node \ Gone(ids)
      /\ \A n \in DOMAIN left : left[n] = node[n]
  BY DEF Without
<1>2. ASSUME NEW n \in DOMAIN left, left[n].parent # Root
      PROVE  left[n].parent \in DOMAIN left
  <2>1. n \in DOMAIN node /\ n \notin Gone(ids) /\ node[n].parent \in DOMAIN node /\ node[n].parent # Root
    BY <1>1, <1>2 DEF SoundRows, WithinOwner
  <2>2. node[n].parent \notin Gone(ids)
    BY <2>1, GoneIsClosed
  <2> QED
    BY <1>1, <2>1, <2>2
<1>3. ASSUME NEW n \in DOMAIN left PROVE left[n] \in NodeRows(DOMAIN left, DOMAIN def, lastId)
  <2>1. node[n] \in NodeRows(DOMAIN node, DOMAIN def, lastId)
    BY <1>1 DEF SoundRows
  <2>2. node[n].parent \in {Root} \cup DOMAIN left
    BY <1>1, <1>2
  <2> QED
    BY <1>1, <2>1, <2>2 DEF NodeRows
<1>4. WithinOwner(left)
  BY <1>1, <1>2 DEF SoundRows, WithinOwner
<1> QED
  BY <1>1, <1>3, <1>4 DEF SoundRows

(* Deleting definitions leaves their nodes without one. *)
LEMMA UnlinkedAreSound ==
  ASSUME NEW rows, NEW defs, NEW last, SoundRows(rows, defs, last), NEW ds,
         NEW left, left = Unlinked(rows, ds)
  PROVE  SoundRows(left, defs \ ds, last) /\ DOMAIN left = DOMAIN rows
         /\ \A n \in DOMAIN rows : /\ left[n].owner = rows[n].owner
                                   /\ left[n].kind = rows[n].kind
                                   /\ left[n].parent = rows[n].parent
<1>1. /\ DOMAIN left = DOMAIN rows
      /\ \A n \in DOMAIN rows : left[n] =
           IF rows[n].def \in ds THEN [rows[n] EXCEPT !.def = NoDef] ELSE rows[n]
  BY DEF Unlinked
<1>2. ASSUME NEW n \in DOMAIN rows
      PROVE  /\ left[n] \in NodeRows(DOMAIN left, defs \ ds, last)
             /\ left[n].owner = rows[n].owner
             /\ left[n].kind = rows[n].kind
             /\ left[n].parent = rows[n].parent
  <2>1. rows[n] \in NodeRows(DOMAIN left, defs, last)
    BY <1>1 DEF SoundRows
  <2> QED
    BY <1>1, <2>1 DEF NodeRows
<1>3. WithinOwner(left)
  BY <1>1, <1>2 DEF SoundRows, WithinOwner
<1> QED
  BY <1>1, <1>2, <1>3 DEF SoundRows

(* The nodes of an owner are a sound tree of their own. *)
LEMMA NodesOfAreSound ==
  ASSUME SoundRows(node, DOMAIN def, lastId), DOMAIN def \subseteq Defs, NEW o,
         NEW tree, tree = NodesOf(o)
  PROVE  /\ SoundTree(tree, lastId)
         /\ DOMAIN tree = {n \in DOMAIN node : node[n].owner = o}
         /\ \A n \in DOMAIN tree : tree[n] = node[n]
<1>1. /\ DOMAIN tree = {n \in DOMAIN node : node[n].owner = o}
      /\ \A n \in DOMAIN tree : tree[n] = node[n]
  BY DEF NodesOf
<1>2. ASSUME NEW n \in DOMAIN tree PROVE tree[n] \in NodeRows(DOMAIN tree, Defs, lastId)
  <2>1. node[n] \in NodeRows(DOMAIN node, DOMAIN def, lastId)
    BY <1>1 DEF SoundRows
  <2>2. node[n].parent \in {Root} \cup DOMAIN tree
    BY <1>1 DEF SoundRows, WithinOwner
  <2> QED
    BY <1>1, <2>1, <2>2 DEF NodeRows
<1>3. WithinOwner(tree)
  BY <1>1 DEF SoundRows, WithinOwner
<1> QED
  BY <1>1, <1>2, <1>3 DEF SoundTree, SoundRows

-----------------------------------------------------------------------------
(* The trees and the requests that work on them. *)

(* The rows of prompt_nodes are sound with the definitions that are there. *)
RowsInv == SoundRows(node, DOMAIN def, lastId) /\ DOMAIN def \subseteq Defs

(* A row that is about to be written: if the folder it goes to is still    *)
(* there, it is a folder of the same owner.                                *)
Pending(row) ==
  /\ row \in NodeRows(1 .. lastId, Defs, lastId + 1)
  /\ \/ row.parent = Root
     \/ /\ row.kind = "ref"
        /\ row.parent \in DOMAIN node => /\ node[row.parent].kind = "folder"
                                         /\ node[row.parent].owner = row.owner

(* One that was read from the node id, wherever it stands; and one that is *)
(* about to be written over it.                                            *)
Checked(id, row) ==
  /\ row \in NodeRows(1 .. lastId, Defs, lastId) /\ id \in 1 .. lastId
  /\ id \in DOMAIN node => node[id].kind = row.kind /\ node[id].owner = row.owner
Rewrite(id, row) == Pending(row) /\ Checked(id, row)

(* What a request holds that concerns trees. *)
TreeHeld(w) ==
  /\ w.pc = "insert" => Pending(w.row)
  /\ w.pc = "check" => Checked(w.id, w.row)
  /\ w.pc = "write" => Rewrite(w.id, w.row)
  /\ w.pc \in {"count", "copy"} => /\ w.to \in Sessions /\ w.src \in Templates \cup Packs
                                   /\ SoundTree(w.read, lastId)
  /\ w.pc = "copy" => w = [pc |-> "copy", to |-> w.to, src |-> w.src, read |-> w.read,
                           fresh |-> w.fresh]
  /\ w.pc = "copy" /\ w.fresh => CopiesThere(w.to, w.src) = {}
  /\ w.pc \in {"create", "list", "paste"} => w.to \in Owners
  /\ w.pc = "paste" => SoundTree(w.read, lastId)
  /\ w.pc = "import" => w.to \in Templates \cup Packs /\ w.tree \in Bundles

RequestsInv == /\ DOMAIN req = Requests
               /\ \A r \in Requests : "pc" \in DOMAIN req[r] /\ TreeHeld(req[r])

TreeInv == RowsInv /\ RequestsInv

(* What no step does to the nodes: a node keeps its kind and its owner, and *)
(* an id is not given out again.                                            *)
Steady ==
  /\ lastId' \in Nat /\ lastId <= lastId'
  /\ \A n \in DOMAIN node' : IF n \in DOMAIN node
       THEN node'[n].kind = node[n].kind /\ node'[n].owner = node[n].owner
       ELSE n > lastId

LEMMA PendingStays ==
  ASSUME RowsInv, Steady, NEW row, Pending(row) PROVE Pending(row)'
<1>1. row \in NodeRows(1 .. lastId', Defs, lastId' + 1)
  BY DEF Pending, NodeRows, Steady, RowsInv, SoundRows
<1>2. row.parent # Root /\ row.parent \in DOMAIN node' => row.parent \in DOMAIN node
  BY DEF Pending, NodeRows, Steady, RowsInv, SoundRows
<1> QED
  BY <1>1, <1>2 DEF Pending, Steady

LEMMA CheckedStays ==
  ASSUME RowsInv, Steady, NEW id, NEW row, Checked(id, row) PROVE Checked(id, row)'
<1>1. row \in NodeRows(1 .. lastId', Defs, lastId') /\ id \in 1 .. lastId'
  BY DEF Checked, NodeRows, Steady, RowsInv, SoundRows
<1>2. id \in DOMAIN node' => id \in DOMAIN node
  BY DEF Checked, Steady, RowsInv, SoundRows
<1> QED
  BY <1>1, <1>2 DEF Checked, Steady

LEMMA TreeStays ==
  ASSUME RowsInv, Steady, NEW tree, SoundTree(tree, lastId) PROVE SoundTree(tree, lastId)'
<1>1. \A n \in DOMAIN tree : tree[n] \in NodeRows(DOMAIN tree, Defs, lastId')
  BY DEF SoundTree, SoundRows, NodeRows, Steady
<1> QED
  BY <1>1 DEF SoundTree, SoundRows, Steady

(* What a request holds stays true when others take their steps, but a     *)
(* count of the copies only as long as nothing is written.                 *)
LEMMA HeldStays ==
  ASSUME RowsInv, Steady, NEW w, TreeHeld(w),
         w.pc = "copy" => ~w.fresh \/ UNCHANGED node
  PROVE  TreeHeld(w)'
<1>1. w.pc = "insert" => Pending(w.row)'
  BY PendingStays DEF TreeHeld
<1>2. /\ w.pc = "check" => Checked(w.id, w.row)'
      /\ w.pc = "write" => Rewrite(w.id, w.row)'
  BY PendingStays, CheckedStays DEF TreeHeld, Rewrite
<1>3. w.pc \in {"count", "copy"} \/ w.pc = "paste" => SoundTree(w.read, lastId)'
  BY TreeStays DEF TreeHeld
<1>4. w.pc = "copy" /\ w.fresh => (CopiesThere(w.to, w.src) = {})'
  BY DEF TreeHeld, CopiesThere
<1> QED
  BY <1>1, <1>2, <1>3, <1>4 DEF TreeHeld

LEMMA StaleStays ==
  ASSUME RowsInv, Steady, NEW w, "pc" \in DOMAIN w, TreeHeld(w), w.pc = "copy",
         NEW x, x = [w EXCEPT !.fresh = FALSE]
  PROVE  "pc" \in DOMAIN x /\ TreeHeld(x)'
<1>1. w = [pc |-> "copy", to |-> w.to, src |-> w.src, read |-> w.read, fresh |-> w.fresh]
      /\ w.to \in Sessions /\ w.src \in Templates \cup Packs /\ SoundTree(w.read, lastId)
  BY DEF TreeHeld
<1>2. x = [pc |-> "copy", to |-> w.to, src |-> w.src, read |-> w.read, fresh |-> FALSE]
  BY <1>1
<1>3. "pc" \in DOMAIN x /\ x.pc = "copy" /\ x.to = w.to /\ x.src = w.src /\ x.read = w.read
      /\ x.fresh = FALSE
  BY <1>2
<1>4. SoundTree(x.read, lastId)'
  BY <1>1, <1>3, TreeStays
<1> QED
  BY <1>1, <1>2, <1>3, <1>4 DEF TreeHeld

(* One request goes on to w; a commit makes the snapshots of others stale. *)
Commits(r) == req' = Goes(r, req'[r])
GoesOn(r) == req' = [req EXCEPT ![r] = req'[r]] /\ UNCHANGED node

LEMMA RequestsStep ==
  ASSUME TreeInv, RowsInv', Steady, NEW r \in Requests, Commits(r) \/ GoesOn(r),
         "pc" \in DOMAIN req'[r], NEW w, w = req'[r], TreeHeld(w)'
  PROVE  TreeInv'
<1>1. DOMAIN req' = Requests
  BY DEF Commits, GoesOn, Goes, TreeInv, RequestsInv
<1>2. ASSUME NEW k \in Requests, k # r
      PROVE  \E x : req'[k] = x /\ "pc" \in DOMAIN x /\ TreeHeld(x)'
  <2>1. PICK v : v = req[k]
    OBVIOUS
  <2>2. "pc" \in DOMAIN v /\ TreeHeld(v)
    BY <2>1 DEF TreeInv, RequestsInv
  <2>3. CASE req'[k] = v /\ (v.pc = "copy" => UNCHANGED node)
    BY <2>2, <2>3, HeldStays DEF TreeInv
  <2>4. CASE v.pc = "copy" /\ req'[k] = [v EXCEPT !.fresh = FALSE]
    <3>1. PICK x : x = [v EXCEPT !.fresh = FALSE]
      OBVIOUS
    <3> QED BY <2>2, <2>4, <3>1, StaleStays DEF TreeInv
  <2> QED
    BY <1>2, <2>1, <2>3, <2>4 DEF Commits, GoesOn, Goes, TreeInv, RequestsInv
<1>3. ASSUME NEW k \in Requests PROVE ("pc" \in DOMAIN req[k] /\ TreeHeld(req[k]))'
  <2>1. PICK x : req'[k] = x /\ "pc" \in DOMAIN x /\ TreeHeld(x)'
    BY <1>2
  <2> QED
    BY <2>1
<1> QED
  BY <1>1, <1>3 DEF TreeInv, RequestsInv

LEMMA Turns ==
  ASSUME DOMAIN req = Requests, NEW r \in Requests, NEW w
  PROVE  /\ req' = Goes(r, w) => req'[r] = w /\ Commits(r)
         /\ req' = [req EXCEPT ![r] = w] /\ UNCHANGED node => req'[r] = w /\ GoesOn(r)
BY DEF Goes, Commits, GoesOn

LEMMA ServedGoes == \A r : Served(r) = Goes(r, Done)
BY DEF Served, Goes

(* A request that has nothing to do with trees by now. *)
TreePcs == {"insert", "check", "write", "count", "copy", "create", "list", "paste", "import"}
Aside(r) == /\ Commits(r) \/ GoesOn(r)
            /\ "pc" \in DOMAIN req'[r] /\ req'[r].pc \notin TreePcs

LEMMA DoneIsAside ==
  ASSUME TreeInv, NEW r \in Requests,
         req' = Served(r) \/ (req' = ServedUnchanged(r) /\ UNCHANGED node)
  PROVE  Aside(r)
<1>1. /\ req' = Goes(r, Done) \/ (req' = [req EXCEPT ![r] = Done] /\ UNCHANGED node)
      /\ DOMAIN req = Requests
  BY ServedGoes DEF ServedUnchanged, TreeInv, RequestsInv
<1>2. req'[r] = Done /\ (Commits(r) \/ GoesOn(r))
  BY <1>1, Turns
<1> QED
  BY <1>2 DEF Aside, Done, TreePcs

LEMMA AsideStep ==
  ASSUME TreeInv, RowsInv', Steady, NEW r \in Requests, Aside(r)
  PROVE  TreeInv'
<1>1. PICK w : w = req'[r]
  OBVIOUS
<1>2. TreeHeld(w)'
  BY <1>1 DEF Aside, TreePcs, TreeHeld
<1> QED
  BY <1>1, <1>2, RequestsStep DEF Aside

(* Steps that write no nodes. *)
LEMMA RowsStay ==
  ASSUME RowsInv, UNCHANGED <<node, lastId>>, DOMAIN def \subseteq DOMAIN def', DOMAIN def' \subseteq Defs
  PROVE  RowsInv' /\ Steady
<1>1. \A n \in DOMAIN node : node[n] \in NodeRows(DOMAIN node, DOMAIN def', lastId)
  BY DEF RowsInv, SoundRows, NodeRows
<1>2. SoundRows(node, DOMAIN def', lastId)
  BY <1>1 DEF RowsInv, SoundRows
<1>3. Steady
  BY DEF Steady, RowsInv, SoundRows
<1> QED
  BY <1>2, <1>3 DEF RowsInv

(* The requests of the library that read or write other tables. *)
OtherTables(r) ==
  \/ ValidateDefinition(r) \/ CreateType(r) \/ ListType(r) \/ DeleteType(r)
  \/ EnsureSession(r) \/ StorePatch(r) \/ PromotePatch(r) \/ PromoteBase(r)
  \/ WriteUpload(r) \/ RecordUpload(r) \/ UnwriteUpload(r)
  \/ GetAsset(r) \/ UnlinkAsset(r) \/ DropAsset(r) \/ CheckAvatar(r) \/ GetFace(r) \/ SetFace(r)
  \/ DeleteOwnerGet(r) \/ DeleteOwnerOrphans(r)
  \/ CreatePack(r) \/ CreateSessionGet(r) \/ CreateSession(r) \/ Drop(r)

LEMMA TurnsAside ==
  ASSUME TreeInv, NEW r \in Requests, NEW w, "pc" \in DOMAIN w, w.pc \notin TreePcs,
         req' = Goes(r, w) \/ (UNCHANGED node /\ (req' = [req EXCEPT ![r] = w] \/ Begins(r, w)))
  PROVE  Aside(r)
<1>1. /\ DOMAIN req = Requests
      /\ req' = Goes(r, w) \/ (UNCHANGED node /\ req' = [req EXCEPT ![r] = w])
  BY DEF Begins, TreeInv, RequestsInv
<1> QED
  BY <1>1, Turns DEF Aside

LEMMA OtherTablesAside ==
  ASSUME TreeInv, NEW r \in Requests, OtherTables(r)
  PROVE  Aside(r) /\ UNCHANGED <<node, lastId, def>>
<1> USE DEF OnlyReads, treeVars, libVars
<1>1. DOMAIN req = Requests /\ "pc" \in DOMAIN req[r]
  BY DEF TreeInv, RequestsInv
<1>2. CASE ValidateDefinition(r)
  <2>1. PICK d, row : Begins(r, [pc |-> "store", id |-> d, row |-> row])
    BY <1>2 DEF ValidateDefinition
  <2> QED BY <1>2, <2>1, TurnsAside DEF ValidateDefinition, TreePcs
<1>3. CASE CreateType(r) \/ DeleteType(r) \/ StorePatch(r) \/ RecordUpload(r) \/ DropAsset(r)
           \/ CreatePack(r) \/ CreateSession(r)
  <2>1. req' = Served(r) /\ UNCHANGED <<node, lastId, def>>
    BY <1>3 DEF CreateType, DeleteType, StorePatch, RecordUpload, DropAsset, CreatePack,
       CreateSession
  <2> QED BY <2>1, DoneIsAside
<1>4. CASE ListType(r)
  <2>1. PICK t : Begins(r, [pc |-> "droptype", id |-> t])
    BY <1>4 DEF ListType
  <2> QED BY <1>4, <2>1, TurnsAside DEF ListType, TreePcs
<1>5. CASE EnsureSession(r)
  <2>1. PICK s, d, f : Begins(r, [pc |-> "patch", to |-> s, id |-> d, fields |-> f])
    BY <1>5 DEF EnsureSession
  <2> QED BY <1>5, <2>1, TurnsAside DEF EnsureSession, TreePcs
<1>6. CASE PromotePatch(r)
  <2>1. PICK s, d, f : Begins(r, [pc |-> "base", to |-> s, id |-> d, fields |-> f])
    BY <1>6 DEF PromotePatch
  <2> QED BY <1>6, <2>1, TurnsAside DEF PromotePatch, TreePcs
<1>7. CASE PromoteBase(r)
  <2>1. PICK w : /\ w = [pc |-> "promote", to |-> req[r].to, id |-> req[r].id,
                         fields |-> req[r].fields, base |-> def[req[r].id]]
                 /\ req' = [req EXCEPT ![r] = w]
    BY <1>7 DEF PromoteBase
  <2>2. "pc" \in DOMAIN w /\ w.pc \notin TreePcs
    BY <2>1 DEF TreePcs
  <2> QED BY <1>7, <2>1, <2>2, TurnsAside DEF PromoteBase
<1>8. CASE WriteUpload(r)
  <2>1. PICK p, c : Begins(r, [pc |-> "row", path |-> p, hash |-> c])
    BY <1>8 DEF WriteUpload
  <2> QED BY <1>8, <2>1, TurnsAside DEF WriteUpload, TreePcs
<1>9. CASE UnwriteUpload(r) \/ Drop(r)
  <2>1. req' = ServedUnchanged(r) /\ UNCHANGED <<node, lastId, def>>
    BY <1>9 DEF UnwriteUpload, Drop
  <2> QED BY <2>1, DoneIsAside
<1>10. CASE GetAsset(r)
  <2>1. PICK p : Begins(r, [pc |-> "unlink", path |-> p, why |-> "user"])
    BY <1>10 DEF GetAsset
  <2> QED BY <1>10, <2>1, TurnsAside DEF GetAsset, TreePcs
<1>11. CASE UnlinkAsset(r)
  <2>1. PICK w : w = [req[r] EXCEPT !.pc = "droprow"] /\ req' = [req EXCEPT ![r] = w]
    BY <1>11 DEF UnlinkAsset
  <2>2. "pc" \in DOMAIN w /\ w.pc \notin TreePcs
    BY <1>1, <2>1 DEF TreePcs
  <2> QED BY <1>11, <2>1, <2>2, TurnsAside DEF UnlinkAsset
<1>12. CASE CheckAvatar(r)
  <2>1. PICK w : /\ w \in {Done, [pc |-> "unlink", path |-> req[r].path, why |-> "gc"]}
                 /\ req' = [req EXCEPT ![r] = w]
    BY <1>12 DEF CheckAvatar
  <2>2. "pc" \in DOMAIN w /\ w.pc \notin TreePcs
    BY <2>1 DEF TreePcs, Done
  <2> QED BY <1>12, <2>1, <2>2, TurnsAside DEF CheckAvatar
<1>13. CASE GetFace(r)
  <2>1. PICK o, p, old : Begins(r, [pc |-> "face", to |-> o, path |-> p, old |-> old])
    BY <1>13 DEF GetFace
  <2> QED BY <1>13, <2>1, TurnsAside DEF GetFace, TreePcs
<1>14. CASE SetFace(r)
  <2>1. PICK old : req' = Goes(r, [pc |-> "gc", path |-> old])
    BY <1>14 DEF SetFace
  <2>2. PICK w : w = [pc |-> "gc", path |-> old]
    OBVIOUS
  <2>3. "pc" \in DOMAIN w /\ w.pc \notin TreePcs
    BY <2>2 DEF TreePcs
  <2> QED BY <1>14, <2>1, <2>2, <2>3, TurnsAside DEF SetFace
<1>15. CASE DeleteOwnerGet(r)
  <2>1. PICK o, all, p : Begins(r, [pc |-> "orphans", id |-> o, all |-> all, path |-> p])
    BY <1>15 DEF DeleteOwnerGet
  <2> QED BY <1>15, <2>1, TurnsAside DEF DeleteOwnerGet, TreePcs
<1>16. CASE DeleteOwnerOrphans(r)
  <2>1. PICK o, p, ds, rows : req' = [req EXCEPT ![r] = [pc |-> "drop", id |-> o, path |-> p,
                                         orphans |-> ds, read |-> rows]]
    BY <1>16 DEF DeleteOwnerOrphans
  <2>2. PICK w : w = [pc |-> "drop", id |-> o, path |-> p, orphans |-> ds, read |-> rows]
    OBVIOUS
  <2>3. "pc" \in DOMAIN w /\ w.pc \notin TreePcs
    BY <2>2 DEF TreePcs
  <2>4. UNCHANGED <<node, lastId, def>> /\ req' = [req EXCEPT ![r] = w]
    BY <1>16, <2>1, <2>2 DEF DeleteOwnerOrphans
  <2> QED BY <2>3, <2>4, TurnsAside
<1>17. CASE CreateSessionGet(r)
  <2>1. PICK s, t, p : Begins(r, [pc |-> "session", to |-> s, of |-> t, path |-> p])
    BY <1>17 DEF CreateSessionGet
  <2> QED BY <1>17, <2>1, TurnsAside DEF CreateSessionGet, TreePcs
<1> QED
  BY <1>2, <1>3, <1>4, <1>5, <1>6, <1>7, <1>8, <1>9, <1>10, <1>11, <1>12, <1>13, <1>14, <1>15,
     <1>16, <1>17 DEF OtherTables

-----------------------------------------------------------------------------
(* The steps on trees. *)

LEMMA HeldStep ==
  ASSUME TreeInv, RowsInv', Steady, NEW r \in Requests, NEW w, "pc" \in DOMAIN w, TreeHeld(w)',
         req' = Goes(r, w) \/ (req' = [req EXCEPT ![r] = w] /\ UNCHANGED node)
  PROVE  TreeInv'
<1>1. DOMAIN req = Requests
  BY DEF TreeInv, RequestsInv
<1>2. req'[r] = w /\ (Commits(r) \/ GoesOn(r))
  BY <1>1, Turns
<1> QED
  BY <1>2, RequestsStep

LEMMA ReadStep ==
  ASSUME TreeInv, UNCHANGED <<node, def, lastId>>, NEW r \in Requests,
         NEW w, "pc" \in DOMAIN w, TreeHeld(w),
         req' = Goes(r, w) \/ req' = [req EXCEPT ![r] = w] \/ Begins(r, w)
  PROVE  TreeInv'
<1>1. RowsInv /\ RowsInv' /\ Steady
  BY RowsStay DEF TreeInv, RowsInv
<1>2. TreeHeld(w)'
  BY <1>1, HeldStays
<1> QED
  BY <1>1, <1>2, HeldStep DEF Begins

(* New nodes that stand beside the others. *)
LEMMA InsertedAreSound ==
  ASSUME RowsInv, NEW batch, InsertAll(batch), Cardinality(DOMAIN batch) \in Nat,
         SoundRows(batch, DOMAIN def', lastId + Cardinality(DOMAIN batch)),
         DOMAIN batch \subseteq lastId + 1 .. lastId + Cardinality(DOMAIN batch),
         DOMAIN def \subseteq DOMAIN def', DOMAIN def' \subseteq Defs
  PROVE  RowsInv' /\ Steady
<1>1. /\ lastId' = lastId + Cardinality(DOMAIN batch)
      /\ node' = [n \in DOMAIN node \cup DOMAIN batch |->
                    IF n \in DOMAIN batch THEN batch[n] ELSE node[n]]
  BY DEF InsertAll
<1>2. /\ lastId \in Nat /\ lastId' \in Nat /\ lastId <= lastId'
      /\ DOMAIN node \cap DOMAIN batch = {} /\ SoundRows(node, DOMAIN def, lastId)
  BY <1>1 DEF RowsInv, SoundRows
<1>3. SoundRows(node', DOMAIN def', lastId')
  BY <1>1, <1>2, JoinedAreSound
<1>4. Steady
  BY <1>1, <1>2 DEF Steady
<1> QED
  BY <1>3, <1>4 DEF RowsInv

(* The last of some sort_orders. *)
LEMMA MaxIsMember ==
  ASSUME NEW n \in Nat, NEW S \in SUBSET (-1 .. n), S # {} PROVE Max(S) \in S
<1> DEFINE T == {n - x : x \in S}
<1>1. T \in SUBSET Nat /\ T # {}
  <2>1. \A x \in S : n - x \in Nat
    OBVIOUS
  <2> QED BY <2>1
<1>2. PICK d \in T : \A y \in T : d <= y
  BY <1>1, Least
<1>3. PICK x \in S : d = n - x
  BY <1>2
<1>4. \A y \in S : x >= y
  BY <1>2, <1>3
<1> QED
  BY <1>4 DEF Max

LEMMA NextOrderIs ==
  ASSUME NEW tree, NEW last, SoundTree(tree, last), NEW p
  PROVE  NextOrder(tree, p) \in 0 .. last + 1
<1> DEFINE S == {-1} \cup {tree[n].ord : n \in {k \in DOMAIN tree : tree[k].parent = p}}
<1>1. S \in SUBSET (-1 .. last) /\ S # {} /\ last \in Nat
  BY DEF SoundTree, SoundRows, NodeRows
<1>2. Max(S) \in S
  <2> HIDE DEF S
  <2> QED BY <1>1, MaxIsMember
<1>3. NextOrder(tree, p) = 1 + Max(S)
  BY DEF NextOrder
<1> HIDE DEF S
<1>4. Max(S) \in -1 .. last
  BY <1>1, <1>2
<1> QED
  BY <1>1, <1>3, <1>4

LEMMA CreateListStep ==
  ASSUME TreeInv, NEW r \in Requests, CreateList(r) PROVE TreeInv'
<1>1. PICK o \in Owners \cap (owners \cup spent), kind \in {"folder", "ref"},
           d \in Defs \cup {NoDef}, parent \in {Root} \cup DOMAIN node :
        /\ (d = NoDef) = (kind = "folder")
        /\ TwoLevel(kind, parent, NodesOf(o))
        /\ req' = [req EXCEPT ![r] = [pc |-> "insert",
             row |-> Row(o, parent, NextOrder(NodesOf(o), parent), kind, d, NoOwner)]]
  BY DEF CreateList
<1>2. PICK row : row = Row(o, parent, NextOrder(NodesOf(o), parent), kind, d, NoOwner)
  OBVIOUS
<1>3. PICK w : w = [pc |-> "insert", row |-> row]
  OBVIOUS
<1>4. /\ SoundTree(NodesOf(o), lastId)
      /\ DOMAIN NodesOf(o) = {n \in DOMAIN node : node[n].owner = o}
      /\ \A n \in DOMAIN NodesOf(o) : NodesOf(o)[n] = node[n]
  BY NodesOfAreSound DEF TreeInv, RowsInv
<1>5. NextOrder(NodesOf(o), parent) \in 0 .. lastId + 1
  BY <1>4, NextOrderIs
<1>6. row \in NodeRows(1 .. lastId, Defs, lastId + 1)
  BY <1>2, <1>5 DEF Row, NodeRows, TreeInv, RowsInv, SoundRows
<1>7. row.parent = parent /\ row.kind = kind /\ row.owner = o
  BY <1>2 DEF Row
<1>8. Pending(row)
  BY <1>1, <1>4, <1>6, <1>7 DEF Pending, TwoLevel
<1>9. TreeHeld(w) /\ "pc" \in DOMAIN w
  BY <1>3, <1>8 DEF TreeHeld
<1>10. UNCHANGED <<node, def, lastId>>
  BY DEF CreateList, treeVars
<1> QED
  BY <1>1, <1>2, <1>3, <1>9, <1>10, ReadStep

(* A pending row is stored: its folder is there, and a folder of its owner. *)
LEMMA StoredIsSound ==
  ASSUME RowsInv, NEW row, Pending(row), MayStore(row, <<>>)
  PROVE  /\ row \in NodeRows(DOMAIN node, DOMAIN def, lastId + 1)
         /\ \/ row.parent = Root
            \/ /\ row.kind = "ref" /\ row.parent \in DOMAIN node
               /\ node[row.parent].kind = "folder" /\ node[row.parent].owner = row.owner
<1>1. row.parent \in {Root} \cup DOMAIN node /\ row.def \in {NoDef} \cup DOMAIN def
  BY DEF MayStore
<1>2. row \in NodeRows(DOMAIN node, DOMAIN def, lastId + 1)
  BY <1>1 DEF Pending, NodeRows
<1>3. ASSUME row.parent # Root
      PROVE  /\ row.kind = "ref" /\ row.parent \in DOMAIN node
             /\ node[row.parent].kind = "folder" /\ node[row.parent].owner = row.owner
  BY <1>1, <1>3 DEF Pending
<1> QED
  BY <1>2, <1>3

(* A row stays where it is, or goes to the root or as a ref into a folder, *)
(* unless the request that places it copies or imports a deeper tree.      *)
Placed(r) == Steady /\ \A n \in DOMAIN node' :
  \/ n \in DOMAIN node /\ node'[n].parent = node[n].parent
  \/ node'[n].owner \in Deepened(r)
  \/ InFolder(node', n)

LEMMA CreateInsertStep ==
  ASSUME TreeInv, NEW r \in Requests, CreateInsert(r) PROVE TreeInv' /\ Placed(r)
<1>1. PICK row : row = req[r].row
  OBVIOUS
<1>2. Pending(row) /\ MayStore(row, <<>>) /\ RowsInv
  BY <1>1 DEF CreateInsert, TreeInv, RequestsInv, TreeHeld
<1>3. /\ row \in NodeRows(DOMAIN node, DOMAIN def, lastId + 1)
      /\ \/ row.parent = Root
         \/ /\ row.kind = "ref" /\ row.parent \in DOMAIN node
            /\ node[row.parent].kind = "folder" /\ node[row.parent].owner = row.owner
  BY <1>2, StoredIsSound
<1>4. /\ lastId \in Nat /\ DOMAIN node \subseteq 1 .. lastId
      /\ \A n \in DOMAIN node : node[n] \in NodeRows(DOMAIN node, DOMAIN def, lastId)
      /\ WithinOwner(node) /\ DOMAIN def \subseteq Defs
  BY <1>2 DEF RowsInv, SoundRows
<1>5. PICK id : id = lastId + 1
  OBVIOUS
<1>6. /\ lastId' = id /\ DOMAIN node' = DOMAIN node \cup {id} /\ def' = def
      /\ node'[id] = row /\ \A n \in DOMAIN node : node'[n] = node[n]
  <2>1. InsertAll([n \in {id} |-> row]) /\ def' = def
    BY <1>1, <1>5 DEF CreateInsert, NextId, rowVars
  <2>2. Cardinality({id}) = 1
    BY FS_Singleton
  <2> QED
    BY <2>1, <2>2, <1>4, <1>5 DEF InsertAll
<1>7. id \notin DOMAIN node /\ id \in Nat /\ id > lastId
  BY <1>4, <1>5
<1>8. \A n \in DOMAIN node' : node'[n] \in NodeRows(DOMAIN node', DOMAIN def', lastId')
  <2>1. row \in NodeRows(DOMAIN node', DOMAIN def', lastId')
    BY <1>3, <1>5, <1>6 DEF NodeRows
  <2>2. ASSUME NEW n \in DOMAIN node PROVE node[n] \in NodeRows(DOMAIN node', DOMAIN def', lastId')
    BY <1>4, <1>5, <1>6 DEF NodeRows
  <2> QED
    BY <2>1, <2>2, <1>6
<1>9. WithinOwner(node')
  BY <1>3, <1>4, <1>6, <1>7 DEF WithinOwner
<1>10. DOMAIN node' \subseteq 1 .. lastId'
  BY <1>4, <1>5, <1>6
<1>11. RowsInv'
  BY <1>4, <1>5, <1>6, <1>8, <1>9, <1>10 DEF RowsInv, SoundRows
<1>12. Steady
  BY <1>4, <1>5, <1>6, <1>7 DEF Steady
<1>13. Aside(r)
  BY DoneIsAside DEF CreateInsert
<1>14. InFolder(node', id)
  BY <1>3, <1>6, <1>7 DEF InFolder
<1>15. Placed(r)
  BY <1>6, <1>12, <1>14 DEF Placed
<1> QED
  BY <1>11, <1>13, <1>12, <1>15, AsideStep

LEMMA UpdateGetStep ==
  ASSUME TreeInv, NEW r \in Requests, UpdateGet(r) PROVE TreeInv'
<1>1. PICK n \in DOMAIN node : req' = [req EXCEPT ![r] = [pc |-> "check", id |-> n, row |-> node[n]]]
  BY DEF UpdateGet
<1>2. PICK row : row = node[n]
  OBVIOUS
<1>3. PICK w : w = [pc |-> "check", id |-> n, row |-> row]
  OBVIOUS
<1>4. row \in NodeRows(DOMAIN node, DOMAIN def, lastId) /\ DOMAIN node \subseteq 1 .. lastId
      /\ lastId \in Nat /\ DOMAIN def \subseteq Defs
  BY <1>2 DEF TreeInv, RowsInv, SoundRows
<1>5. row \in NodeRows(1 .. lastId, Defs, lastId)
  BY <1>4 DEF NodeRows
<1>6. Checked(n, row)
  BY <1>2, <1>4, <1>5 DEF Checked
<1>7. TreeHeld(w) /\ "pc" \in DOMAIN w
  BY <1>3, <1>6 DEF TreeHeld
<1>8. UNCHANGED <<node, def, lastId>>
  BY DEF UpdateGet, treeVars
<1> QED
  BY <1>1, <1>2, <1>3, <1>7, <1>8, ReadStep

(* The fields that update_node may change. *)
LEMMA EditedRow ==
  ASSUME RowsInv, lastId # 0, NEW old \in NodeRows(1 .. lastId, Defs, lastId),
         NEW new \in Edited(old)
  PROVE  /\ new \in NodeRows(1 .. lastId, Defs, lastId)
         /\ new.kind = old.kind /\ new.owner = old.owner
<1>1. DOMAIN node \subseteq 1 .. lastId /\ lastId \in Nat
  BY DEF RowsInv, SoundRows
<1>2. CASE new \in {[old EXCEPT !.parent = p] : p \in {Root} \cup DOMAIN node}
  BY <1>1, <1>2 DEF NodeRows
<1>3. CASE new \in {[old EXCEPT !.ord = o] : o \in 0 .. 1}
  BY <1>1, <1>3 DEF NodeRows
<1>4. CASE new \in {[old EXCEPT !.def = d] : d \in Defs \cup {NoDef}}
  BY <1>4 DEF NodeRows
<1>5. CASE new \in {[old EXCEPT !.on = ~@], [old EXCEPT !.src = NoOwner]}
  BY <1>5 DEF NodeRows
<1> QED
  BY <1>2, <1>3, <1>4, <1>5 DEF Edited

LEMMA UpdateCheckStep ==
  ASSUME TreeInv, NEW r \in Requests, UpdateCheck(r) PROVE TreeInv'
<1>1. PICK old : old = req[r].row
  OBVIOUS
<1>2. PICK new \in Edited(old) :
        /\ TwoLevel(new.kind, new.parent, NodesOf(new.owner))
        /\ req' = [req EXCEPT ![r] = [pc |-> "write", id |-> req[r].id, row |-> new]]
  BY <1>1 DEF UpdateCheck
<1>3. PICK id : id = req[r].id
  OBVIOUS
<1>4. PICK w : w = [pc |-> "write", id |-> id, row |-> new]
  OBVIOUS
<1>5. Checked(id, old)
  BY <1>1, <1>3 DEF UpdateCheck, TreeInv, RequestsInv, TreeHeld
<1>6. /\ lastId \in Nat /\ lastId # 0 /\ id \in 1 .. lastId
      /\ old \in NodeRows(1 .. lastId, Defs, lastId)
  BY <1>5 DEF Checked, TreeInv, RowsInv, SoundRows
<1>7. /\ new \in NodeRows(1 .. lastId, Defs, lastId)
      /\ new.kind = old.kind /\ new.owner = old.owner
  BY <1>6, EditedRow DEF TreeInv
<1>8. /\ DOMAIN NodesOf(new.owner) = {n \in DOMAIN node : node[n].owner = new.owner}
      /\ \A n \in DOMAIN NodesOf(new.owner) : NodesOf(new.owner)[n] = node[n]
  BY NodesOfAreSound DEF TreeInv, RowsInv
<1>9. Rewrite(id, new)
  <2>1. new \in NodeRows(1 .. lastId, Defs, lastId + 1)
    BY <1>6, <1>7 DEF NodeRows
  <2>2. Pending(new)
    BY <1>2, <1>7, <1>8, <2>1 DEF Pending, TwoLevel
  <2> QED
    BY <1>5, <1>7, <2>2 DEF Rewrite, Checked
<1>10. TreeHeld(w) /\ "pc" \in DOMAIN w
  BY <1>4, <1>9 DEF TreeHeld
<1>11. UNCHANGED <<node, def, lastId>>
  BY DEF UpdateCheck, treeVars
<1> QED
  BY <1>2, <1>3, <1>4, <1>10, <1>11, ReadStep

LEMMA UpdateWriteStep ==
  ASSUME TreeInv, NEW r \in Requests, UpdateWrite(r) PROVE TreeInv' /\ Placed(r)
<1>1. PICK id, row : id = req[r].id /\ row = req[r].row
  OBVIOUS
<1>2. RowsInv /\ Rewrite(id, row) /\ UNCHANGED <<def, lastId>>
  BY <1>1 DEF UpdateWrite, TreeInv, RequestsInv, TreeHeld, rowVars
<1>3. CASE id \notin DOMAIN node
  <2>1. UNCHANGED node /\ Aside(r)
    BY <1>1, <1>3, DoneIsAside DEF UpdateWrite
  <2>2. RowsInv' /\ Steady
    BY <1>2, <2>1, RowsStay DEF RowsInv
  <2> QED
    BY <2>1, <2>2, AsideStep DEF Placed
<1>4. CASE id \in DOMAIN node
  <2>1. MayStore(row, <<>>) /\ node' = [node EXCEPT ![id] = row] /\ Aside(r)
    BY <1>1, <1>4, DoneIsAside DEF UpdateWrite
  <2>2. /\ row \in NodeRows(DOMAIN node, DOMAIN def, lastId + 1)
        /\ \/ row.parent = Root
           \/ /\ row.kind = "ref" /\ row.parent \in DOMAIN node
              /\ node[row.parent].kind = "folder" /\ node[row.parent].owner = row.owner
    BY <1>2, <2>1, StoredIsSound DEF Rewrite
  <2>3. /\ lastId \in Nat /\ DOMAIN node' = DOMAIN node
        /\ node'[id] = row /\ \A n \in DOMAIN node : n # id => node'[n] = node[n]
    BY <1>2, <1>4, <2>1 DEF RowsInv, SoundRows
  <2>4. row \in NodeRows(DOMAIN node', DOMAIN def, lastId)
    BY <1>2, <2>2, <2>3 DEF Rewrite, Checked, NodeRows
  <2>5. \A n \in DOMAIN node' :
           /\ node'[n] \in NodeRows(DOMAIN node', DOMAIN def, lastId)
           /\ node'[n].kind = node[n].kind /\ node'[n].owner = node[n].owner
           /\ node'[n].parent # Root => node[node'[n].parent].owner = node'[n].owner
    BY <1>2, <2>2, <2>3, <2>4 DEF Rewrite, Checked, RowsInv, SoundRows, WithinOwner
  <2>6. SoundRows(node', DOMAIN def, lastId)
    BY <1>2, <2>3, <2>5, RewrittenAreSound DEF RowsInv
  <2>7. RowsInv' /\ Steady
    BY <1>2, <2>3, <2>5, <2>6 DEF RowsInv, Steady
  <2>8. InFolder(node', id)
    BY <2>2, <2>3, <2>5 DEF InFolder
  <2>9. Placed(r)
    BY <2>3, <2>7, <2>8 DEF Placed
  <2> QED
    BY <2>1, <2>7, <2>9, AsideStep
<1> QED
  BY <1>3, <1>4

LEMMA ReorderStep ==
  ASSUME TreeInv, NEW r \in Requests, Reorder(r) PROVE TreeInv' /\ Placed(r)
<1>1. PICK o \in Owners, first \in DOMAIN node, second \in DOMAIN node :
        /\ first # second
        /\ node[first].owner = o \/ node[second].owner = o
        /\ node' = [n \in DOMAIN node |->
                     IF node[n].owner # o THEN node[n]
                     ELSE [node[n] EXCEPT !.ord = CASE n = first -> 0
                                                    [] n = second -> 1
                                                    [] OTHER -> @]]
  BY DEF Reorder
<1>2. RowsInv /\ UNCHANGED <<def, lastId>> /\ Aside(r)
  BY DoneIsAside DEF Reorder, rowVars, TreeInv
<1>3. lastId \in Nat /\ lastId # 0
  BY <1>1, <1>2 DEF RowsInv, SoundRows
<1>4. DOMAIN node' = DOMAIN node
  BY <1>1
<1>5. ASSUME NEW n \in DOMAIN node
      PROVE  /\ node'[n] \in NodeRows(DOMAIN node', DOMAIN def, lastId)
             /\ node'[n].kind = node[n].kind /\ node'[n].owner = node[n].owner
             /\ node'[n].parent = node[n].parent
  <2>1. node[n] \in NodeRows(DOMAIN node', DOMAIN def, lastId)
    BY <1>2, <1>4 DEF RowsInv, SoundRows
  <2>2. PICK k \in 0 .. lastId : node'[n] = node[n] \/ node'[n] = [node[n] EXCEPT !.ord = k]
    <3> DEFINE k == CASE n = first -> 0 [] n = second -> 1 [] OTHER -> node[n].ord
    <3>1. k \in 0 .. lastId
      BY <1>3, <2>1 DEF NodeRows
    <3>2. node'[n] = node[n] \/ node'[n] = [node[n] EXCEPT !.ord = k]
      BY <1>1
    <3> HIDE DEF k
    <3> QED BY <3>1, <3>2
  <2> QED
    BY <2>1, <2>2 DEF NodeRows
<1>6. \A n \in DOMAIN node' :
         /\ node'[n] \in NodeRows(DOMAIN node', DOMAIN def, lastId)
         /\ node'[n].kind = node[n].kind /\ node'[n].owner = node[n].owner
         /\ node'[n].parent # Root => node[node'[n].parent].owner = node'[n].owner
  BY <1>2, <1>4, <1>5 DEF RowsInv, SoundRows, WithinOwner
<1>7. SoundRows(node', DOMAIN def, lastId)
  BY <1>2, <1>3, <1>4, <1>6, RewrittenAreSound DEF RowsInv
<1>8. RowsInv' /\ Steady
  BY <1>2, <1>3, <1>4, <1>6, <1>7 DEF RowsInv, Steady
<1>9. Placed(r)
  BY <1>4, <1>5, <1>8 DEF Placed
<1> QED
  BY <1>2, <1>8, <1>9, AsideStep

LEMMA CascadeRows ==
  ASSUME RowsInv, NEW ids \in SUBSET DOMAIN node, node' = Without(ids),
         UNCHANGED <<def, lastId>>
  PROVE  RowsInv' /\ Steady /\ \A r : Placed(r)
<1>1. /\ SoundRows(node', DOMAIN def, lastId)
      /\ DOMAIN node' \subseteq DOMAIN node /\ \A n \in DOMAIN node' : node'[n] = node[n]
  BY CascadeIsSound DEF RowsInv
<1>2. RowsInv' /\ Steady
  BY <1>1 DEF RowsInv, Steady, SoundRows
<1> QED
  BY <1>1, <1>2 DEF Placed

LEMMA DeleteSteps ==
  ASSUME TreeInv, NEW r \in Requests,
         DeleteChildren(r) \/ DeleteSelf(r) \/ DeleteSession(r)
  PROVE  TreeInv' /\ Placed(r)
<1>1. PICK ids \in SUBSET DOMAIN node : node' = Without(ids)
  <2>1. CASE DeleteChildren(r)
    BY <2>1 DEF DeleteChildren
  <2>2. CASE DeleteSelf(r)
    BY <2>2 DEF DeleteSelf
  <2>3. CASE DeleteSession(r)
    <3>1. PICK s : node' = Without(DOMAIN NodesOf(s))
      BY <2>3 DEF DeleteSession
    <3>2. DOMAIN NodesOf(s) \subseteq DOMAIN node
      BY DEF NodesOf
    <3> QED BY <3>1, <3>2
  <2> QED BY <2>1, <2>2, <2>3
<1>2. UNCHANGED <<def, lastId>>
  BY DEF DeleteChildren, DeleteSelf, DeleteSession, rowVars
<1>3. RowsInv' /\ Steady /\ Placed(r)
  BY <1>1, <1>2, CascadeRows DEF TreeInv
<1>4. Aside(r)
  <2>1. CASE DeleteSelf(r) \/ DeleteSession(r)
    BY <2>1, DoneIsAside DEF DeleteSelf, DeleteSession
  <2>2. CASE DeleteChildren(r)
    <3>1. PICK n : req' = Goes(r, [pc |-> "self", id |-> n])
      BY <2>2 DEF DeleteChildren
    <3>2. PICK w : w = [pc |-> "self", id |-> n]
      OBVIOUS
    <3>3. "pc" \in DOMAIN w /\ w.pc \notin TreePcs
      BY <3>2 DEF TreePcs
    <3> QED BY <3>1, <3>2, <3>3, TurnsAside
  <2> QED BY <2>1, <2>2
<1> QED
  BY <1>3, <1>4, AsideStep

LEMMA MaterializeReadStep ==
  ASSUME TreeInv, NEW r \in Requests, MaterializeRead(r) PROVE TreeInv'
<1>1. PICK s \in Sessions, src \in Templates \cup Packs :
        req' = [req EXCEPT ![r] = [pc |-> "count", to |-> s, src |-> src, read |-> NodesOf(src)]]
  BY DEF MaterializeRead
<1>2. PICK tree : tree = NodesOf(src)
  OBVIOUS
<1>3. PICK w : w = [pc |-> "count", to |-> s, src |-> src, read |-> tree]
  OBVIOUS
<1>4. SoundTree(tree, lastId)
  BY <1>2, NodesOfAreSound DEF TreeInv, RowsInv
<1>5. TreeHeld(w) /\ "pc" \in DOMAIN w
  BY <1>3, <1>4 DEF TreeHeld
<1>6. UNCHANGED <<node, def, lastId>>
  BY DEF MaterializeRead, treeVars
<1> QED
  BY <1>1, <1>2, <1>3, <1>5, <1>6, ReadStep

LEMMA MaterializeCountStep ==
  ASSUME TreeInv, NEW r \in Requests, MaterializeCount(r) PROVE TreeInv'
<1>1. PICK v : v = req[r]
  OBVIOUS
<1>2. v.pc = "count" /\ TreeHeld(v) /\ UNCHANGED <<node, def, lastId>>
  BY <1>1 DEF MaterializeCount, treeVars, TreeInv, RequestsInv
<1>3. CASE CopiesThere(v.to, v.src) = {}
  <2>1. PICK w : w = [pc |-> "copy", to |-> v.to, src |-> v.src, read |-> v.read, fresh |-> TRUE]
    OBVIOUS
  <2>2. req' = [req EXCEPT ![r] = w]
    BY <1>1, <1>3, <2>1 DEF MaterializeCount
  <2>3. TreeHeld(w) /\ "pc" \in DOMAIN w
    BY <1>2, <1>3, <2>1 DEF TreeHeld
  <2> QED
    BY <1>2, <2>2, <2>3, ReadStep
<1>4. CASE CopiesThere(v.to, v.src) # {}
  <2>1. Aside(r)
    BY <1>1, <1>2, <1>4, DoneIsAside DEF MaterializeCount
  <2>2. RowsInv' /\ Steady
    BY <1>2, RowsStay DEF TreeInv, RowsInv
  <2> QED
    BY <2>1, <2>2, AsideStep
<1> QED
  BY <1>3, <1>4

(* A copy that is stored, in materialize_owner_nodes and in copy_nodes.    *)
(* Only that of a tree of more than two levels may lose the shape.         *)
LEMMA CopyStored ==
  ASSUME TreeInv, NEW r \in Requests, NEW tree, SoundTree(tree, lastId),
         NEW o \in Owners, NEW src \in {NoOwner} \cup Templates \cup Packs,
         NEW batch, batch = CopyOf(tree, o, src),
         \A n \in DOMAIN batch : MayStore(batch[n], batch),
         InsertAll(batch), UNCHANGED def,
         ~InTwoLevels(tree) => o \in Deepened(r)
  PROVE  /\ RowsInv' /\ Placed(r)
         /\ InTwoLevels(tree) => SameShape(tree, [n \in DOMAIN node' \ DOMAIN node |-> node'[n]])
<1>1. lastId \in Nat /\ lastId <= lastId /\ RowsInv /\ DOMAIN node \subseteq 1 .. lastId
  BY DEF TreeInv, RowsInv, SoundRows
<1>2. \A n \in DOMAIN batch : batch[n].def \in {NoDef} \cup DOMAIN def
  BY DEF MayStore
<1>3. /\ SoundRows(batch, DOMAIN def, lastId + Cardinality(DOMAIN batch))
      /\ DOMAIN batch \subseteq lastId + 1 .. lastId + Cardinality(DOMAIN batch)
      /\ \A n \in DOMAIN batch : batch[n].owner = o
  BY <1>1, <1>2, CopyIsSound
<1>4. Cardinality(DOMAIN batch) \in Nat
  BY <1>1, CopyIs, TreeIsFinite
<1>5. RowsInv' /\ Steady
  BY <1>1, <1>3, <1>4, InsertedAreSound DEF RowsInv
<1>6. PICK new : new = [n \in DOMAIN node' \ DOMAIN node |-> node'[n]]
  OBVIOUS
<1>7. /\ DOMAIN node' = DOMAIN node \cup DOMAIN batch /\ DOMAIN node \cap DOMAIN batch = {}
      /\ \A n \in DOMAIN batch : node'[n] = batch[n]
      /\ \A n \in DOMAIN node : node'[n] = node[n]
  <2>1. DOMAIN node \cap DOMAIN batch = {}
    BY <1>1, <1>3
  <2> QED BY <2>1 DEF InsertAll
<1>8. new = batch
  <2>1. batch = [n \in DOMAIN batch |-> batch[n]]
    BY ZenonT(60) DEF CopyOf
  <2>2. DOMAIN new = DOMAIN batch
    BY <1>6, <1>7
  <2> QED
    BY <1>6, <1>7, <2>1, <2>2
<1>9. InTwoLevels(tree) => SameShape(tree, batch)
  BY <1>1, CopyHasShape
<1>10. ASSUME NEW n \in DOMAIN batch PROVE node'[n].owner \in Deepened(r) \/ InFolder(node', n)
  <2>1. CASE InTwoLevels(tree)
    <3>1. InFolder(batch, n)
      BY <1>1, <2>1, CopyInFolders
    <3> QED BY <1>7, <3>1 DEF InFolder
  <2>2. CASE ~InTwoLevels(tree)
    BY <1>3, <1>7, <2>2
  <2> QED BY <2>1, <2>2
<1>11. Placed(r)
  BY <1>5, <1>7, <1>10 DEF Placed
<1> QED
  BY <1>5, <1>6, <1>8, <1>9, <1>11

LEMMA MaterializeCopyStep ==
  ASSUME TreeInv, NEW r \in Requests, MaterializeCopy(r)
  PROVE  /\ TreeInv' /\ Placed(r)
         /\ InTwoLevels(req[r].read) =>
              SameShape(req[r].read, [n \in DOMAIN node' \ DOMAIN node |-> node'[n]])
<1>1. PICK w : w = req[r]
  OBVIOUS
<1>2. w.pc = "copy" /\ w.to \in Sessions /\ w.src \in Templates \cup Packs /\ SoundTree(w.read, lastId)
  BY <1>1 DEF MaterializeCopy, TreeInv, RequestsInv, TreeHeld
<1>3. PICK batch : batch = CopyOf(w.read, w.to, w.src)
  OBVIOUS
<1>4. /\ \A n \in DOMAIN batch : MayStore(batch[n], batch)
      /\ InsertAll(batch) /\ UNCHANGED def
  BY <1>1, <1>3 DEF MaterializeCopy, rowVars
<1>5. w.to \in Owners
  BY <1>2 DEF Owners
<1>6. ~InTwoLevels(w.read) => w.to \in Deepened(r)
  BY <1>1, <1>2 DEF Deepened
<1>7. /\ RowsInv' /\ Placed(r)
      /\ InTwoLevels(w.read) => SameShape(w.read, [n \in DOMAIN node' \ DOMAIN node |-> node'[n]])
  BY <1>2, <1>3, <1>4, <1>5, <1>6, CopyStored
<1>8. Aside(r)
  BY DoneIsAside DEF MaterializeCopy
<1> QED
  BY <1>1, <1>7, <1>8, AsideStep DEF Placed

LEMMA DuplicateReadSteps ==
  ASSUME TreeInv, NEW r \in Requests,
         DuplicateGet(r) \/ DuplicateCreate(r) \/ DuplicateList(r)
  PROVE  TreeInv'
<1>1. CASE DuplicateGet(r)
  <2>1. PICK o \in owners \ Sessions, c \in Owners \ (owners \cup spent) :
           req' = [req EXCEPT ![r] = [pc |-> "create", of |-> o, to |-> c, path |-> face[o]]]
    BY <1>1 DEF DuplicateGet
  <2>2. PICK p : p = face[o]
    OBVIOUS
  <2>3. PICK w : w = [pc |-> "create", of |-> o, to |-> c, path |-> p]
    OBVIOUS
  <2>4. TreeHeld(w) /\ "pc" \in DOMAIN w
    BY <2>1, <2>3 DEF TreeHeld
  <2>5. UNCHANGED <<node, def, lastId>>
    BY <1>1 DEF DuplicateGet, treeVars
  <2> QED
    BY <2>1, <2>3, <2>4, <2>5, <2>2, ReadStep
<1>2. CASE DuplicateCreate(r)
  <2>1. PICK o, c : o = req[r].of /\ c = req[r].to
    OBVIOUS
  <2>2. PICK w : w = [pc |-> "list", of |-> o, to |-> c]
    OBVIOUS
  <2>3. c \in Owners
    BY <1>2, <2>1 DEF DuplicateCreate, TreeInv, RequestsInv, TreeHeld
  <2>4. TreeHeld(w) /\ "pc" \in DOMAIN w
    BY <2>2, <2>3 DEF TreeHeld
  <2>5. req' = Goes(r, w) /\ UNCHANGED <<node, def, lastId>>
    BY <1>2, <2>1, <2>2 DEF DuplicateCreate
  <2> QED
    BY <2>4, <2>5, ReadStep
<1>3. CASE DuplicateList(r)
  <2>1. PICK c, tree : c = req[r].to /\ tree = NodesOf(req[r].of)
    OBVIOUS
  <2>2. PICK w : w = [pc |-> "paste", to |-> c, read |-> tree]
    OBVIOUS
  <2>3. c \in Owners
    BY <1>3, <2>1 DEF DuplicateList, TreeInv, RequestsInv, TreeHeld
  <2>4. SoundTree(tree, lastId)
    BY <2>1, NodesOfAreSound DEF TreeInv, RowsInv
  <2>5. TreeHeld(w) /\ "pc" \in DOMAIN w
    BY <2>2, <2>3, <2>4 DEF TreeHeld
  <2>6. req' = [req EXCEPT ![r] = w] /\ UNCHANGED <<node, def, lastId>>
    BY <1>3, <2>1, <2>2 DEF DuplicateList, treeVars
  <2> QED
    BY <2>5, <2>6, ReadStep
<1> QED
  BY <1>1, <1>2, <1>3

LEMMA DuplicatePasteStep ==
  ASSUME TreeInv, NEW r \in Requests, DuplicatePaste(r)
  PROVE  /\ TreeInv' /\ Placed(r)
         /\ InTwoLevels(req[r].read) =>
              SameShape(req[r].read, [n \in DOMAIN node' \ DOMAIN node |-> node'[n]])
<1>1. PICK w : w = req[r]
  OBVIOUS
<1>2. w.pc = "paste" /\ w.to \in Owners /\ SoundTree(w.read, lastId)
  BY <1>1 DEF DuplicatePaste, TreeInv, RequestsInv, TreeHeld
<1>3. PICK batch : batch = CopyOf(w.read, w.to, NoOwner)
  OBVIOUS
<1>4. /\ \A n \in DOMAIN batch : MayStore(batch[n], batch)
      /\ InsertAll(batch) /\ UNCHANGED def
  BY <1>1, <1>3 DEF DuplicatePaste, rowVars
<1>5. ~InTwoLevels(w.read) => w.to \in Deepened(r)
  BY <1>1, <1>2 DEF Deepened
<1>6. /\ RowsInv' /\ Placed(r)
      /\ InTwoLevels(w.read) => SameShape(w.read, [n \in DOMAIN node' \ DOMAIN node |-> node'[n]])
  BY <1>2, <1>3, <1>4, <1>5, CopyStored
<1>7. Aside(r)
  BY DoneIsAside DEF DuplicatePaste
<1> QED
  BY <1>1, <1>6, <1>7, AsideStep DEF Placed

(* The steps on definitions and on whole packs and templates. *)
LEMMA DefinitionSteps ==
  ASSUME TreeInv, NEW r \in Requests, StoreDefinition(r) \/ Promote(r) PROVE TreeInv'
<1>1. UNCHANGED <<node, lastId>> /\ Aside(r) /\ DOMAIN def \subseteq Defs
  BY DoneIsAside DEF StoreDefinition, Promote, TreeInv, RowsInv
<1>2. DOMAIN def \subseteq DOMAIN def' /\ DOMAIN def' \subseteq Defs
  <2>1. CASE StoreDefinition(r)
    <3>1. PICK d \in IF req[r].id = NoDef THEN Defs \ (DOMAIN def \cup spent) ELSE {req[r].id} \cap DOMAIN def :
             def' = With(def, d, req[r].row)
      BY <2>1 DEF StoreDefinition
    <3>2. d \in Defs /\ DOMAIN def' = DOMAIN def \cup {d}
      BY <1>1, <3>1 DEF With
    <3> QED BY <1>1, <3>2
  <2>2. CASE Promote(r)
    <3>1. DOMAIN def' = DOMAIN def
      BY <2>2 DEF Promote
    <3> QED BY <1>1, <3>1
  <2> QED BY <2>1, <2>2
<1>3. RowsInv' /\ Steady
  BY <1>1, <1>2, RowsStay DEF TreeInv
<1> QED
  BY <1>1, <1>3, AsideStep

LEMMA DeleteDefinitionStep ==
  ASSUME TreeInv, NEW r \in Requests, DeleteDefinition(r) PROVE TreeInv' /\ Placed(r)
<1>1. PICK d \in DOMAIN def : /\ def' = [k \in DOMAIN def \ {d} |-> def[k]]
                              /\ node' = Unlinked(node, {d})
  BY DEF DeleteDefinition
<1>2. RowsInv /\ UNCHANGED lastId /\ Aside(r)
  BY DoneIsAside DEF DeleteDefinition, TreeInv
<1>3. DOMAIN def' = DOMAIN def \ {d}
  BY <1>1
<1>4. PICK all, ds : all = node' /\ ds = {d}
  OBVIOUS
<1>5. SoundRows(node, DOMAIN def, lastId) /\ all = Unlinked(node, ds)
  BY <1>1, <1>2, <1>4 DEF RowsInv
<1>6. /\ SoundRows(all, DOMAIN def \ ds, lastId) /\ DOMAIN all = DOMAIN node
      /\ \A n \in DOMAIN node : /\ all[n].owner = node[n].owner /\ all[n].kind = node[n].kind
                                /\ all[n].parent = node[n].parent
  BY <1>5, UnlinkedAreSound
<1>7. RowsInv'
  BY <1>2, <1>3, <1>4, <1>6 DEF RowsInv
<1>8. lastId \in Nat
  BY <1>5 DEF SoundRows
<1>9. Steady
  BY <1>2, <1>4, <1>6, <1>8 DEF Steady
<1>10. Placed(r)
  BY <1>4, <1>6, <1>9 DEF Placed
<1> QED
  BY <1>2, <1>7, <1>9, <1>10, AsideStep

LEMMA DeleteOwnerStep ==
  ASSUME TreeInv, NEW r \in Requests, DeleteOwner(r) PROVE TreeInv' /\ Placed(r)
<1>1. PICK o, ds, p : o = req[r].id /\ ds = req[r].orphans /\ p = req[r].path
  OBVIOUS
<1>2. PICK left : left = Without(DOMAIN NodesOf(o))
  OBVIOUS
<1>3. /\ def' = [d \in DOMAIN def \ ds |-> def[d]] /\ node' = Unlinked(left, ds)
      /\ req' = Goes(r, [pc |-> "gc", path |-> p]) /\ UNCHANGED lastId /\ RowsInv
  BY <1>1, <1>2 DEF DeleteOwner, TreeInv
<1>4. DOMAIN NodesOf(o) \in SUBSET DOMAIN node
  BY DEF NodesOf
<1>5. /\ SoundRows(left, DOMAIN def, lastId)
      /\ DOMAIN left \subseteq DOMAIN node /\ \A n \in DOMAIN left : left[n] = node[n]
  BY <1>2, <1>3, <1>4, CascadeIsSound DEF RowsInv
<1>6. DOMAIN def' = DOMAIN def \ ds
  BY <1>3
<1>7. PICK all : all = node'
  OBVIOUS
<1>8. /\ SoundRows(all, DOMAIN def \ ds, lastId) /\ DOMAIN all = DOMAIN left
      /\ \A n \in DOMAIN left : /\ all[n].owner = left[n].owner /\ all[n].kind = left[n].kind
                                /\ all[n].parent = left[n].parent
  BY <1>3, <1>5, <1>7, UnlinkedAreSound
<1>9. RowsInv'
  BY <1>3, <1>6, <1>7, <1>8 DEF RowsInv
<1>10. lastId \in Nat
  BY <1>3 DEF RowsInv, SoundRows
<1>11. Steady
  BY <1>3, <1>5, <1>7, <1>8, <1>10 DEF Steady
<1>12. Aside(r)
  <2>1. PICK w : w = [pc |-> "gc", path |-> p]
    OBVIOUS
  <2>2. "pc" \in DOMAIN w /\ w.pc \notin TreePcs
    BY <2>1 DEF TreePcs
  <2> QED BY <1>3, <2>1, <2>2, TurnsAside
<1>13. Placed(r)
  BY <1>5, <1>7, <1>8, <1>11 DEF Placed
<1> QED
  BY <1>9, <1>11, <1>12, <1>13, AsideStep

LEMMA ImportAssetsStep ==
  ASSUME TreeInv, NEW r \in Requests, ImportAssets(r) PROVE TreeInv'
<1>1. PICK o \in Templates \cup Packs, b \in Bundles : \E c, p, new :
        Begins(r, [pc |-> "import", to |-> o, path |-> p, hash |-> c, tree |-> b, new |-> new])
  BY DEF ImportAssets
<1>2. PICK c, p, new :
        Begins(r, [pc |-> "import", to |-> o, path |-> p, hash |-> c, tree |-> b, new |-> new])
  BY <1>1
<1>3. PICK w : w = [pc |-> "import", to |-> o, path |-> p, hash |-> c, tree |-> b, new |-> new]
  OBVIOUS
<1>4. TreeHeld(w) /\ "pc" \in DOMAIN w
  BY <1>3 DEF TreeHeld
<1>5. UNCHANGED <<node, def, lastId>>
  BY DEF ImportAssets, treeVars
<1> QED
  BY <1>2, <1>3, <1>4, <1>5, ReadStep

(* The rows of a bundle below their new owner: the tree it has, whatever  *)
(* its depth.                                                              *)
LEMMA BundleIsSound ==
  ASSUME lastId \in Nat, NEW b \in Bundles, NEW o \in Owners, NEW d, NEW defs, d \in defs,
         NEW batch, batch = BundleRows(b, o, d)
  PROVE  /\ DOMAIN batch = lastId + 1 .. lastId + Len(b)
         /\ Cardinality(DOMAIN batch) = Len(b) /\ Len(b) \in Nat
         /\ SoundRows(batch, defs, lastId + Len(b))
         /\ \A n \in DOMAIN batch : batch[n].owner = o
         /\ InTwoLevels(b) => \A n \in DOMAIN batch : InFolder(batch, n)
<1>1. b \in Seq([parent : Nat, ord : Nat, kind : Kinds]) /\ SoundBundle(b)
  BY BundlesAssumption DEF BundlesAssumption
<1>2. Len(b) \in Nat /\ DOMAIN b = 1 .. Len(b)
  BY <1>1
<1>3. DOMAIN batch = lastId + 1 .. lastId + Len(b)
  BY DEF BundleRows, NextId
<1>4. Cardinality(DOMAIN batch) = Len(b)
  <2>1. lastId + 1 \in Int /\ lastId + Len(b) \in Int
    BY <1>2
  <2>2. PICK from, to \in Int : from = lastId + 1 /\ to = lastId + Len(b)
    BY <2>1
  <2>3. Cardinality(from .. to) = IF from > to THEN 0 ELSE to - from + 1
    BY FS_Interval
  <2> QED BY <1>2, <1>3, <2>2, <2>3
<1>5. ASSUME NEW i \in DOMAIN b
      PROVE  /\ i \in 1 .. Len(b) /\ b[i].parent \in 0 .. i - 1 /\ b[i].ord \in 0 .. Len(b)
             /\ b[i].kind \in {"folder", "ref", "content", "history"}
  BY <1>1, <1>2 DEF SoundBundle
<1>6. ASSUME NEW n \in DOMAIN batch
      PROVE  \E i \in DOMAIN b :
               /\ n = lastId + i
               /\ batch[n] = [owner |-> o,
                              parent |-> IF b[i].parent = Root THEN Root ELSE lastId + b[i].parent,
                              ord |-> b[i].ord, kind |-> b[i].kind,
                              def |-> IF b[i].kind = "ref" THEN d ELSE NoDef, on |-> TRUE,
                              src |-> NoOwner]
  <2>1. n - lastId \in DOMAIN b /\ n = lastId + (n - lastId)
    BY <1>2, <1>3
  <2> QED BY <1>3, <2>1 DEF BundleRows, NextId, Row
<1>7. ASSUME NEW i \in DOMAIN b
      PROVE  lastId + i \in DOMAIN batch /\ batch[lastId + i].kind = b[i].kind
  <2>1. lastId + i \in DOMAIN batch /\ i \in Int
    BY <1>3, <1>5
  <2>2. PICK j \in DOMAIN b : lastId + i = lastId + j /\ batch[lastId + i].kind = b[j].kind
    BY <1>6, <2>1
  <2>3. i = j
    BY <1>5, <2>2
  <2> QED BY <2>1, <2>2, <2>3
<1>8. ASSUME NEW n \in DOMAIN batch
      PROVE  /\ batch[n] \in NodeRows(DOMAIN batch, defs, lastId + Len(b))
             /\ batch[n].owner = o
             /\ InTwoLevels(b) => InFolder(batch, n)
  <2>1. PICK i \in DOMAIN b :
          /\ n = lastId + i
          /\ batch[n] = [owner |-> o,
                         parent |-> IF b[i].parent = Root THEN Root ELSE lastId + b[i].parent,
                         ord |-> b[i].ord, kind |-> b[i].kind,
                         def |-> IF b[i].kind = "ref" THEN d ELSE NoDef, on |-> TRUE,
                         src |-> NoOwner]
    BY <1>6
  <2>2. /\ b[i].parent \in 0 .. i - 1 /\ b[i].ord \in 0 .. Len(b) /\ i \in 1 .. Len(b)
        /\ b[i].kind \in {"folder", "ref", "content", "history"}
    BY <1>5
  <2>3. b[i].parent # Root => b[i].parent \in DOMAIN b
    BY <1>2, <2>2 DEF Root
  <2>4. (IF b[i].parent = Root THEN Root ELSE lastId + b[i].parent) \in {Root} \cup DOMAIN batch
    BY <1>7, <2>3
  <2>5. b[i].ord \in 0 .. lastId + Len(b)
    BY <1>2, <2>2
  <2>6. batch[n] \in NodeRows(DOMAIN batch, defs, lastId + Len(b))
    BY <2>1, <2>2, <2>4, <2>5 DEF NodeRows
  <2>7. ASSUME InTwoLevels(b) PROVE InFolder(batch, n)
    <3>1. batch[n].kind = b[i].kind
          /\ batch[n].parent = IF b[i].parent = Root THEN Root ELSE lastId + b[i].parent
      BY <2>1
    <3>2. CASE b[i].parent = Root
      BY <3>1, <3>2 DEF InFolder
    <3>3. CASE b[i].parent # Root
      <4>1. b[b[i].parent].kind = "folder" /\ b[i].kind = "ref"
        BY <2>7, <3>3 DEF InTwoLevels, Shallow
      <4>2. /\ lastId + b[i].parent \in DOMAIN batch
            /\ batch[lastId + b[i].parent].kind = "folder"
        BY <1>7, <2>3, <3>3, <4>1
      <4> QED BY <3>1, <3>3, <4>1, <4>2 DEF InFolder
    <3> QED BY <3>2, <3>3
  <2>8. batch[n].owner = o
    BY <2>1
  <2> QED BY <2>6, <2>7, <2>8
<1>9. WithinOwner(batch)
  BY <1>8 DEF WithinOwner, NodeRows
<1>10. SoundRows(batch, defs, lastId + Len(b))
  BY <1>2, <1>3, <1>8, <1>9 DEF SoundRows
<1> QED
  BY <1>2, <1>3, <1>4, <1>8, <1>10

LEMMA ImportStep ==
  ASSUME TreeInv, NEW r \in Requests, Import(r) PROVE TreeInv' /\ Placed(r)
<1>1. PICK o, p, b : o = req[r].to /\ p = req[r].path /\ b = req[r].tree
  OBVIOUS
<1>2. PICK d \in Defs \ (DOMAIN def \cup spent), t \in Types \cup {Reserved}, v \in Values :
        /\ def' = With(def, d, Definition(t, v, v, p))
        /\ InsertAll(BundleRows(b, o, d))
  BY <1>1 DEF Import
<1>3. RowsInv /\ lastId \in Nat /\ o \in Owners /\ b \in Bundles /\ Aside(r)
  BY <1>1, DoneIsAside DEF Import, TreeInv, RequestsInv, TreeHeld, RowsInv, SoundRows, Owners
<1>4. DOMAIN def' = DOMAIN def \cup {d} /\ DOMAIN def \subseteq Defs
  BY <1>2, <1>3 DEF With, RowsInv
<1>5. PICK batch : batch = BundleRows(b, o, d)
  OBVIOUS
<1>6. d \in DOMAIN def'
  BY <1>4
<1>7. /\ DOMAIN batch = lastId + 1 .. lastId + Len(b)
      /\ Cardinality(DOMAIN batch) = Len(b) /\ Len(b) \in Nat
      /\ SoundRows(batch, DOMAIN def', lastId + Len(b))
      /\ \A n \in DOMAIN batch : batch[n].owner = o
      /\ InTwoLevels(b) => \A n \in DOMAIN batch : InFolder(batch, n)
  BY <1>3, <1>5, <1>6, BundleIsSound
<1>8. DOMAIN def \subseteq DOMAIN def' /\ DOMAIN def' \subseteq Defs /\ InsertAll(batch)
  BY <1>2, <1>4, <1>5
<1>9. RowsInv' /\ Steady
  BY <1>3, <1>7, <1>8, InsertedAreSound
<1>10. /\ DOMAIN node' = DOMAIN node \cup DOMAIN batch /\ DOMAIN node \cap DOMAIN batch = {}
       /\ \A n \in DOMAIN batch : node'[n] = batch[n]
       /\ \A n \in DOMAIN node : node'[n] = node[n]
  <2>1. DOMAIN node \cap DOMAIN batch = {}
    BY <1>3, <1>7 DEF RowsInv, SoundRows
  <2> QED BY <1>8, <2>1 DEF InsertAll
<1>11. ~InTwoLevels(b) => o \in Deepened(r)
  BY <1>1 DEF Deepened, Import
<1>12. ASSUME NEW n \in DOMAIN batch PROVE node'[n].owner \in Deepened(r) \/ InFolder(node', n)
  BY <1>7, <1>10, <1>11 DEF InFolder
<1>13. Placed(r)
  BY <1>9, <1>10, <1>12 DEF Placed
<1> QED
  BY <1>3, <1>9, <1>13, AsideStep

(* The magic nodes of a template. *)
LEMMA TwoInserted ==
  ASSUME RowsInv, NEW a, NEW b, NEW batch,
         batch = [n \in {NextId, NextId + 1} |-> IF n = NextId THEN a ELSE b],
         InsertAll(batch), UNCHANGED def,
         a \in NodeRows({NextId, NextId + 1}, DOMAIN def', NextId + 1), a.parent = Root,
         b \in NodeRows({NextId, NextId + 1}, DOMAIN def', NextId + 1), b.parent = Root
  PROVE  RowsInv' /\ \A r : Placed(r)
<1>1. lastId \in Nat /\ DOMAIN def' \subseteq Defs /\ DOMAIN node \subseteq 1 .. lastId
  BY DEF RowsInv, SoundRows
<1>2. PICK id : id = lastId + 1
  OBVIOUS
<1>3. Cardinality({id, id + 1}) = 2
  <2>1. IsFiniteSet({id}) /\ Cardinality({id}) = 1
    BY FS_Singleton
  <2>2. id + 1 \notin {id} /\ {id} \cup {id + 1} = {id, id + 1}
    BY <1>1, <1>2
  <2>3. Cardinality({id} \cup {id + 1}) = Cardinality({id}) + 1
    BY <2>1, <2>2, FS_AddElement
  <2> QED BY <2>1, <2>2, <2>3
<1>4. /\ DOMAIN batch = {id, id + 1} /\ batch[id] = a /\ batch[id + 1] = b
      /\ id # id + 1 /\ id + 1 = lastId + 2 /\ id \in Nat
  BY <1>1, <1>2 DEF NextId
<1>5. \A n \in DOMAIN batch : batch[n] \in NodeRows(DOMAIN batch, DOMAIN def', lastId + 2)
  BY <1>2, <1>4 DEF NextId
<1>6. WithinOwner(batch) /\ \A n \in DOMAIN batch : batch[n].parent = Root
  BY <1>4 DEF WithinOwner
<1>7. SoundRows(batch, DOMAIN def', lastId + Cardinality(DOMAIN batch))
  BY <1>1, <1>2, <1>3, <1>4, <1>5, <1>6 DEF SoundRows
<1>8. /\ DOMAIN batch \subseteq lastId + 1 .. lastId + Cardinality(DOMAIN batch)
      /\ Cardinality(DOMAIN batch) \in Nat
  <2>1. Cardinality(DOMAIN batch) = 2 /\ lastId \in Nat
    BY <1>1, <1>3, <1>4
  <2>2. {id, id + 1} \subseteq lastId + 1 .. lastId + 2
    BY <1>1, <1>2
  <2> QED BY <1>4, <2>1, <2>2
<1>9. RowsInv' /\ Steady
  BY <1>1, <1>7, <1>8, InsertedAreSound
<1>10. \A n \in DOMAIN node' : (n \in DOMAIN node /\ node'[n] = node[n]) \/ node'[n].parent = Root
  BY <1>6 DEF InsertAll
<1> QED
  BY <1>9, <1>10 DEF Placed, InFolder

LEMMA CreateTemplateStep ==
  ASSUME TreeInv, NEW r \in Requests, CreateTemplate(r) PROVE TreeInv' /\ Placed(r)
<1>1. PICK o \in Templates : InsertAll(MagicNodes(o))
  BY DEF CreateTemplate
<1>2. RowsInv /\ lastId \in Nat /\ o \in Owners /\ Aside(r) /\ UNCHANGED def /\ DOMAIN def \subseteq Defs
  BY <1>1, DoneIsAside DEF CreateTemplate, TreeInv, RowsInv, SoundRows, Owners
<1>3. PICK a, b : a = Row(o, Root, 0, "content", NoDef, NoOwner) /\ b = Row(o, Root, 1, "history", NoDef, NoOwner)
  OBVIOUS
<1>4. a \in NodeRows({NextId, NextId + 1}, DOMAIN def', NextId + 1) /\ a.parent = Root
  BY <1>2, <1>3 DEF Row, NodeRows, NextId
<1>5. b \in NodeRows({NextId, NextId + 1}, DOMAIN def', NextId + 1) /\ b.parent = Root
  BY <1>2, <1>3 DEF Row, NodeRows, NextId
<1>6. InsertAll([n \in {NextId, NextId + 1} |-> IF n = NextId THEN a ELSE b])
  BY <1>1, <1>3 DEF MagicNodes
<1>7. RowsInv' /\ Placed(r)
  BY <1>2, <1>4, <1>5, <1>6, TwoInserted
<1> QED
  BY <1>2, <1>7, AsideStep DEF Placed

-----------------------------------------------------------------------------
(* The trees in every state. *)

LEMMA TreeStart == Init => TreeInv
<1> SUFFICES ASSUME Init PROVE TreeInv
  OBVIOUS
<1>1. PICK s \in Seeds : /\ node = s.node /\ def = s.def /\ lastId = Cardinality(DOMAIN s.node)
                         /\ SoundDatabase(s)
  BY DEF Init
<1>2. PICK last : last = Cardinality(DOMAIN s.node)
  OBVIOUS
<1>3. /\ IsFiniteSet(DOMAIN s.node) /\ s.node \in [1 .. last -> NodeRows(1 .. last, DOMAIN s.def, last)]
      /\ WithinOwner(s.node) /\ DOMAIN s.def \subseteq Defs
  BY <1>1, <1>2 DEF SoundDatabase
<1>4. lastId \in Nat
  BY <1>1, <1>3, FS_CardinalityType
<1>5. RowsInv
  BY <1>1, <1>2, <1>3, <1>4 DEF RowsInv, SoundRows
<1>6. \A r \in Requests : req[r] = Waiting
  BY DEF Init
<1>7. RequestsInv
  BY <1>6 DEF RequestsInv, TreeHeld, Waiting, Init
<1> QED
  BY <1>5, <1>7 DEF TreeInv

LEMMA TreeKeeps == TreeInv /\ [Next]_vars => TreeInv'
<1> SUFFICES ASSUME TreeInv, [Next]_vars PROVE TreeInv'
  OBVIOUS
<1>1. CASE UNCHANGED vars
  BY <1>1 DEF vars, treeVars, TreeInv, RowsInv, RequestsInv, TreeHeld, Rewrite, Checked, Pending,
     CopiesThere
<1>2. ASSUME NEW r \in Requests, OtherTables(r) PROVE TreeInv'
  <2>1. Aside(r) /\ UNCHANGED <<node, lastId, def>>
    BY <1>2, OtherTablesAside
  <2>2. RowsInv' /\ Steady
    BY <2>1, RowsStay DEF TreeInv, RowsInv
  <2> QED
    BY <2>1, <2>2, AsideStep
<1>3. ASSUME NEW r \in Requests, TreeStep(r) PROVE TreeInv'
  BY <1>3, CreateListStep, CreateInsertStep, UpdateGetStep, UpdateCheckStep, UpdateWriteStep,
     DeleteSteps, ReorderStep, MaterializeReadStep, MaterializeCountStep, MaterializeCopyStep,
     DuplicateReadSteps, DuplicatePasteStep DEF TreeStep
<1>4. ASSUME NEW r \in Requests, Step(r), ~TreeStep(r), ~OtherTables(r) PROVE TreeInv'
  <2>1. \/ StoreDefinition(r) \/ Promote(r) \/ DeleteDefinition(r) \/ DeleteOwner(r)
        \/ ImportAssets(r) \/ Import(r) \/ CreateTemplate(r) \/ DeleteSession(r)
    BY <1>4 DEF Step, OtherTables
  <2> QED
    BY <2>1, DefinitionSteps, DeleteDefinitionStep, DeleteOwnerStep, ImportAssetsStep, ImportStep,
       CreateTemplateStep, DeleteSteps
<1>5. ASSUME Next PROVE \E r \in Requests : Step(r) \/ Drop(r)
  BY <1>5 DEF Next
<1>6. \A r : Drop(r) => OtherTables(r)
  BY DEF OtherTables
<1> QED
  BY <1>1, <1>2, <1>3, <1>4, <1>5, <1>6

LEMMA TreeAlways == Spec => []TreeInv
BY TreeStart, TreeKeeps, PTL DEF Spec

(* The check "so two concurrent calls can't both materialize" works: a     *)
(* copy is inserted only into a session that holds none from that kind of  *)
(* source.  A snapshot that is not stale still counts what is there.       *)
THEOREM OneCopyHolds == Spec => OneCopy
<1>1. ASSUME TreeInv, NEW r \in Requests, MaterializeCopy(r)
      PROVE  CopiesThere(req[r].to, req[r].src) = {}
  <2>1. PICK w : w = req[r]
    OBVIOUS
  <2>2. w.pc = "copy" /\ w.fresh /\ TreeHeld(w)
    BY <1>1, <2>1 DEF MaterializeCopy, MayUpgrade, TreeInv, RequestsInv
  <2> QED
    BY <2>1, <2>2 DEF TreeHeld
<1>2. TreeInv /\ [Next]_vars =>
        [\A r \in Requests : MaterializeCopy(r) => CopiesThere(req[r].to, req[r].src) = {}]_vars
  BY <1>1
<1> QED
  BY <1>2, TreeAlways, PTL DEF Spec, OneCopy

(* What materialize_owner_nodes and copy_nodes insert is the tree that was *)
(* read, folders and members alike, whatever happened in between, if that  *)
(* tree has two levels.                                                    *)
THEOREM CopyKeepsShapeHolds == Spec => CopyKeepsShape
<1>1. TreeInv /\ [Next]_vars =>
        [\A r \in Requests : (MaterializeCopy(r) \/ DuplicatePaste(r)) /\ InTwoLevels(req[r].read)
           => SameShape(req[r].read, [n \in DOMAIN node' \ DOMAIN node |-> node'[n]])]_vars
  BY MaterializeCopyStep, DuplicatePasteStep
<1> QED
  BY <1>1, TreeAlways, PTL DEF Spec, CopyKeepsShape

-----------------------------------------------------------------------------
(* The levels of the trees. *)

(* In a tree that was never given deeper rows, everything stands at the    *)
(* root or is a ref in a folder.                                           *)
LevelsInv == \A n \in DOMAIN node : node[n].owner \notin deep => InFolder(node, n)

LEMMA LevelsStart == Init => LevelsInv
<1> SUFFICES ASSUME Init PROVE LevelsInv
  OBVIOUS
<1>1. PICK s \in Seeds : node = s.node /\ InTwoLevels(s.node)
  BY DEF Init, SoundDatabase
<1> QED
  BY <1>1 DEF LevelsInv, InFolder, InTwoLevels, Shallow

LEMMA LevelsStep ==
  ASSUME TreeInv, TreeInv', LevelsInv, NEW r, Placed(r), deep' = deep \cup Deepened(r)
  PROVE  LevelsInv'
<1> SUFFICES ASSUME NEW n \in DOMAIN node', node'[n].owner \notin deep' PROVE InFolder(node', n)
  BY DEF LevelsInv, InFolder
<1>1. CASE n \in DOMAIN node /\ node'[n].parent = node[n].parent
  <2>1. node'[n].owner = node[n].owner /\ node'[n].kind = node[n].kind
    BY <1>1 DEF Placed, Steady
  <2>2. InFolder(node, n)
    BY <1>1, <2>1 DEF LevelsInv
  <2>3. node'[n].parent # Root => node'[n].parent \in DOMAIN node'
    BY DEF TreeInv, RowsInv, SoundRows, WithinOwner
  <2> QED
    BY <1>1, <2>1, <2>2, <2>3 DEF InFolder, Placed, Steady
<1>2. CASE node'[n].owner \in Deepened(r)
  BY <1>2
<1> QED
  BY <1>1, <1>2 DEF Placed

LEMMA LevelsKeep == TreeInv /\ LevelsInv /\ [Next]_vars => LevelsInv'
<1> SUFFICES ASSUME TreeInv, LevelsInv, [Next]_vars PROVE LevelsInv'
  OBVIOUS
<1>1. TreeInv'
  BY TreeKeeps
<1>2. CASE UNCHANGED node /\ deep \subseteq deep'
  BY <1>2 DEF LevelsInv, InFolder
<1>3. ASSUME NEW r \in Requests, Step(r), deep' = deep \cup Deepened(r) PROVE LevelsInv'
  <2>1. CASE \/ CreateInsert(r) \/ UpdateWrite(r) \/ DeleteChildren(r) \/ DeleteSelf(r)
             \/ Reorder(r) \/ MaterializeCopy(r) \/ DuplicatePaste(r)
             \/ DeleteDefinition(r) \/ DeleteOwner(r) \/ Import(r) \/ CreateTemplate(r)
             \/ DeleteSession(r)
    <3>1. Placed(r)
      BY <2>1, CreateInsertStep, UpdateWriteStep, DeleteSteps, ReorderStep, MaterializeCopyStep,
         DuplicatePasteStep, DeleteDefinitionStep, DeleteOwnerStep, ImportStep, CreateTemplateStep
    <3> QED BY <1>1, <1>3, <3>1, LevelsStep
  <2>2. CASE OtherTables(r)
    BY <1>2, <1>3, <2>2, OtherTablesAside
  <2>3. CASE \/ CreateList(r) \/ UpdateGet(r) \/ UpdateCheck(r) \/ MaterializeRead(r)
             \/ MaterializeCount(r) \/ DuplicateGet(r) \/ DuplicateCreate(r) \/ DuplicateList(r)
             \/ StoreDefinition(r) \/ Promote(r) \/ ImportAssets(r)
    <3>1. UNCHANGED node
      BY <2>3 DEF CreateList, UpdateGet, UpdateCheck, MaterializeRead, MaterializeCount,
         DuplicateGet, DuplicateCreate, DuplicateList, StoreDefinition, Promote, ImportAssets,
         treeVars
    <3> QED BY <1>2, <1>3, <3>1
  <2> QED BY <1>3, <2>1, <2>2, <2>3 DEF Step, TreeStep, OtherTables
<1>4. CASE UNCHANGED vars
  BY <1>2, <1>4 DEF vars, treeVars
<1>5. ASSUME NEW r, Drop(r), UNCHANGED deep PROVE LevelsInv'
  BY <1>2, <1>5 DEF Drop, treeVars
<1> QED
  BY <1>3, <1>4, <1>5 DEF Next

LEMMA LevelsAlways == Spec => []LevelsInv
BY LevelsStart, LevelsKeep, TreeAlways, PTL DEF Spec

-----------------------------------------------------------------------------
(* The other tables. *)

(* Rows in use have not been deleted before, a deleted template leaves no  *)
(* session behind that uses it.                                            *)
DefsInv == /\ DOMAIN def \subseteq Defs \ spent
           /\ \A d \in DOMAIN def : def[d] \in DefRows
OwnersInv == /\ owners \subseteq Owners \ spent
             /\ uses \in [Sessions -> {NoOwner} \cup (Templates \cap owners)]
PatchesInv == /\ DOMAIN patch = Sessions
              /\ \A s \in Sessions : \A d \in DOMAIN patch[s] : patch[s][d] \in PatchRows
PathsInv == types \subseteq Types /\ file \subseteq Paths /\ DOMAIN asset \subseteq Paths

(* Every owner may have an avatar but a template. *)
FacesInv == DOMAIN face = Owners /\ \A t \in Templates : face[t] = NoPath

(* What a request holds that goes into these tables. *)
TablesHeld(w) ==
  /\ w.pc = "store" => w.row \in DefRows
  /\ w.pc \in {"patch", "base", "promote"} => w.to \in Sessions /\ w.fields \in PatchRows
  /\ w.pc = "promote" => w.base \in DefRows
  /\ w.pc \in {"row", "unlink", "droprow"} => w.path \in Paths
  /\ w.pc = "unlink" => w = [pc |-> "unlink", path |-> w.path, why |-> w.why]
  /\ w.pc \in {"orphans", "drop"} => w.id \in Templates \cup Packs
  /\ w.pc = "drop" => w.orphans \subseteq Defs
  /\ w.pc = "import" => w.path \in Paths \cup {NoPath} /\ (w.new => w.path \in Paths)
  /\ w.pc = "session" => w.to \in Sessions /\ w.of \in {NoOwner} \cup Templates
  /\ w.pc \in {"create", "import"} /\ w.to \in Templates => w.path = NoPath
  /\ w.pc = "face" => w.to \notin Templates

HeldInv == \A r \in Requests : TablesHeld(req[r])

TablesInv == DefsInv /\ OwnersInv /\ PatchesInv /\ PathsInv /\ FacesInv /\ HeldInv

(* A turn of one request changes nothing that the others hold. *)
LEMMA HeldTurns ==
  ASSUME TreeInv, HeldInv, NEW r \in Requests, NEW w, TablesHeld(w),
         req' = Goes(r, w) \/ req' = [req EXCEPT ![r] = w] \/ Begins(r, w)
  PROVE  HeldInv'
<1>1. req' = Goes(r, w) \/ req' = [req EXCEPT ![r] = w]
  BY DEF Begins
<1>2. DOMAIN req = Requests /\ \A k \in Requests : "pc" \in DOMAIN req[k]
  BY DEF TreeInv, RequestsInv
<1>3. req'[r] = w
  BY <1>1, <1>2 DEF Goes
<1>4. ASSUME NEW k \in Requests, k # r PROVE TablesHeld(req'[k])
  <2>1. PICK v : v = req[k]
    OBVIOUS
  <2>2. TablesHeld(v) /\ "pc" \in DOMAIN v
    BY <1>2, <2>1 DEF HeldInv
  <2>3. req'[k] = v \/ (v.pc = "copy" /\ req'[k] = [v EXCEPT !.fresh = FALSE])
    BY <1>1, <1>2, <1>4, <2>1 DEF Goes
  <2>4. CASE v.pc = "copy" /\ req'[k] = [v EXCEPT !.fresh = FALSE]
    <3>1. req'[k].pc = "copy"
      BY <2>2, <2>4
    <3> QED BY <3>1 DEF TablesHeld
  <2> QED
    BY <2>2, <2>3, <2>4
<1> QED
  BY <1>3, <1>4 DEF HeldInv

PlainPcs == {"insert", "check", "write", "self", "count", "copy", "list", "paste", "droptype", "gc",
             "done"}

LEMMA PlainTurns ==
  ASSUME TreeInv, HeldInv, NEW r \in Requests, NEW w, w.pc \in PlainPcs,
         req' = Goes(r, w) \/ req' = [req EXCEPT ![r] = w] \/ Begins(r, w)
  PROVE  HeldInv'
<1>1. TablesHeld(w)
  BY DEF TablesHeld, PlainPcs
<1> QED
  BY <1>1, HeldTurns

LEMMA DoneTurns ==
  ASSUME TreeInv, HeldInv, NEW r \in Requests, req' = Served(r) \/ req' = ServedUnchanged(r)
  PROVE  HeldInv'
<1>1. req' = Goes(r, Done) \/ req' = [req EXCEPT ![r] = Done]
  BY ServedGoes DEF ServedUnchanged
<1>2. Done.pc \in PlainPcs
  BY DEF Done, PlainPcs
<1> QED
  BY <1>1, <1>2, PlainTurns

LEMMA TreeStepsKeepHeld ==
  ASSUME TreeInv, HeldInv, FacesInv, NEW r \in Requests, TreeStep(r)
  PROVE  HeldInv'
<1>1. CASE CreateList(r)
  <2>1. PICK row : req' = [req EXCEPT ![r] = [pc |-> "insert", row |-> row]]
    BY <1>1 DEF CreateList
  <2>2. PICK w : w = [pc |-> "insert", row |-> row]
    OBVIOUS
  <2>3. w.pc \in PlainPcs
    BY <2>2 DEF PlainPcs
  <2> QED BY <2>1, <2>2, <2>3, PlainTurns
<1>2. CASE CreateInsert(r) \/ UpdateWrite(r) \/ DeleteSelf(r) \/ Reorder(r) \/ MaterializeCopy(r)
           \/ DuplicatePaste(r)
  <2>1. req' = Served(r) \/ req' = ServedUnchanged(r)
    BY <1>2 DEF CreateInsert, UpdateWrite, DeleteSelf, Reorder, MaterializeCopy, DuplicatePaste
  <2> QED BY <2>1, DoneTurns
<1>3. CASE UpdateGet(r)
  <2>1. PICK n \in DOMAIN node : req' = [req EXCEPT ![r] = [pc |-> "check", id |-> n, row |-> node[n]]]
    BY <1>3 DEF UpdateGet
  <2>2. PICK row : row = node[n]
    OBVIOUS
  <2>3. PICK w : w = [pc |-> "check", id |-> n, row |-> row]
    OBVIOUS
  <2>4. w.pc \in PlainPcs
    BY <2>3 DEF PlainPcs
  <2> QED BY <2>1, <2>2, <2>3, <2>4, PlainTurns
<1>4. CASE UpdateCheck(r)
  <2>1. PICK new : req' = [req EXCEPT ![r] = [pc |-> "write", id |-> req[r].id, row |-> new]]
    BY <1>4 DEF UpdateCheck
  <2>2. PICK id : id = req[r].id
    OBVIOUS
  <2>3. PICK w : w = [pc |-> "write", id |-> id, row |-> new]
    OBVIOUS
  <2>4. w.pc \in PlainPcs
    BY <2>3 DEF PlainPcs
  <2> QED BY <2>1, <2>2, <2>3, <2>4, PlainTurns
<1>5. CASE DeleteChildren(r)
  <2>1. PICK n : req' = Goes(r, [pc |-> "self", id |-> n])
    BY <1>5 DEF DeleteChildren
  <2>2. PICK w : w = [pc |-> "self", id |-> n]
    OBVIOUS
  <2>3. w.pc \in PlainPcs
    BY <2>2 DEF PlainPcs
  <2> QED BY <2>1, <2>2, <2>3, PlainTurns
<1>6. CASE MaterializeRead(r)
  <2>1. PICK s, src : req' = [req EXCEPT ![r] = [pc |-> "count", to |-> s, src |-> src, read |-> NodesOf(src)]]
    BY <1>6 DEF MaterializeRead
  <2>2. PICK tree : tree = NodesOf(src)
    OBVIOUS
  <2>3. PICK w : w = [pc |-> "count", to |-> s, src |-> src, read |-> tree]
    OBVIOUS
  <2>4. w.pc \in PlainPcs
    BY <2>3 DEF PlainPcs
  <2> QED BY <2>1, <2>2, <2>3, <2>4, PlainTurns
<1>7. CASE MaterializeCount(r)
  <2>1. PICK v : v = req[r]
    OBVIOUS
  <2>2. CASE req' = ServedUnchanged(r)
    BY <2>2, DoneTurns
  <2>3. CASE req' = [req EXCEPT ![r] = [pc |-> "copy", to |-> v.to, src |-> v.src,
                                        read |-> v.read, fresh |-> TRUE]]
    <3>1. PICK w : w = [pc |-> "copy", to |-> v.to, src |-> v.src, read |-> v.read, fresh |-> TRUE]
      OBVIOUS
    <3>2. w.pc \in PlainPcs
      BY <3>1 DEF PlainPcs
    <3> QED BY <2>3, <3>1, <3>2, PlainTurns
  <2> QED BY <1>7, <2>1, <2>2, <2>3 DEF MaterializeCount
<1>8. CASE DuplicateGet(r)
  <2>1. PICK o \in owners \ Sessions, c \in Owners \ (owners \cup spent) :
           /\ SameKind(o, c)
           /\ req' = [req EXCEPT ![r] = [pc |-> "create", of |-> o, to |-> c, path |-> face[o]]]
    BY <1>8 DEF DuplicateGet
  <2>2. PICK p : p = face[o]
    OBVIOUS
  <2>3. PICK w : w = [pc |-> "create", of |-> o, to |-> c, path |-> p]
    OBVIOUS
  <2>4. c \in Templates => p = NoPath
    BY <2>1, <2>2 DEF SameKind, FacesInv
  <2>5. TablesHeld(w)
    BY <2>3, <2>4 DEF TablesHeld
  <2> QED BY <2>1, <2>2, <2>3, <2>5, HeldTurns
<1>9. CASE DuplicateCreate(r)
  <2>1. PICK o, c : o = req[r].of /\ c = req[r].to
    OBVIOUS
  <2>2. req' = Goes(r, [pc |-> "list", of |-> o, to |-> c])
    BY <1>9, <2>1 DEF DuplicateCreate
  <2>3. PICK w : w = [pc |-> "list", of |-> o, to |-> c]
    OBVIOUS
  <2>4. w.pc \in PlainPcs
    BY <2>3 DEF PlainPcs
  <2> QED BY <2>2, <2>3, <2>4, PlainTurns
<1>10. CASE DuplicateList(r)
  <2>1. PICK c, tree : c = req[r].to /\ tree = NodesOf(req[r].of)
    OBVIOUS
  <2>2. req' = [req EXCEPT ![r] = [pc |-> "paste", to |-> c, read |-> tree]]
    BY <1>10, <2>1 DEF DuplicateList
  <2>3. PICK w : w = [pc |-> "paste", to |-> c, read |-> tree]
    OBVIOUS
  <2>4. w.pc \in PlainPcs
    BY <2>3 DEF PlainPcs
  <2> QED BY <2>2, <2>3, <2>4, PlainTurns
<1> QED
  BY <1>1, <1>2, <1>3, <1>4, <1>5, <1>6, <1>7, <1>8, <1>9, <1>10 DEF TreeStep

LEMMA PatchRowsAre ==
  ASSUME NEW v \in Values, NEW f \in {NoPatch} \cup Fields(v)
  PROVE  f \in PatchRows
<1>1. \A F \in SUBSET {"text", "trig"} : \A g \in [F -> Values] : g \in PatchRows
  BY DEF PatchRows
<1>2. CASE f = NoPatch
  <2>1. f \in [{} -> Values]
    BY <1>2 DEF NoPatch
  <2> QED BY <1>1, <2>1
<1>3. CASE f \in Fields(v)
  <2>1. \/ f \in [{"text"} -> Values] \/ f \in [{"trig"} -> Values] \/ f \in [{"text", "trig"} -> Values]
    BY <1>3 DEF Fields
  <2> QED BY <1>1, <2>1
<1> QED
  BY <1>2, <1>3

LEMMA LibraryDones ==
  ASSUME TreeInv, HeldInv, NEW r \in Requests,
         \/ StoreDefinition(r) \/ DeleteDefinition(r) \/ CreateType(r) \/ DeleteType(r)
         \/ StorePatch(r) \/ Promote(r) \/ RecordUpload(r) \/ UnwriteUpload(r) \/ DropAsset(r)
         \/ Import(r) \/ CreateTemplate(r) \/ CreatePack(r) \/ CreateSession(r) \/ DeleteSession(r)
         \/ Drop(r)
  PROVE  HeldInv'
<1>1. req' = Served(r) \/ req' = ServedUnchanged(r)
  BY DEF StoreDefinition, DeleteDefinition, CreateType, DeleteType, StorePatch, Promote, RecordUpload,
         UnwriteUpload, DropAsset, Import, CreateTemplate, CreatePack, CreateSession, DeleteSession, Drop
<1> QED
  BY <1>1, DoneTurns

LEMMA DefinitionReads ==
  ASSUME TreeInv, TablesInv, NEW r \in Requests,
         \/ ValidateDefinition(r) \/ ListType(r) \/ EnsureSession(r) \/ PromotePatch(r)
         \/ PromoteBase(r)
  PROVE  HeldInv'
<1> USE DEF TablesInv
<1>1. CASE ValidateDefinition(r)
  <2>1. PICK d \in DOMAIN def \cup {NoDef}, t \in types \cup {Reserved}, v \in Values,
             p \in DOMAIN asset \cup {NoPath} :
          Begins(r, [pc |-> "store", id |-> d, row |-> Definition(t, v, v, p)])
    BY <1>1 DEF ValidateDefinition
  <2>2. PICK row : row = Definition(t, v, v, p)
    OBVIOUS
  <2>3. PICK w : w = [pc |-> "store", id |-> d, row |-> row]
    OBVIOUS
  <2>4. row \in DefRows
    BY <2>1, <2>2 DEF Definition, DefRows, PathsInv
  <2>5. TablesHeld(w)
    BY <2>3, <2>4 DEF TablesHeld
  <2> QED BY <2>1, <2>2, <2>3, <2>5, HeldTurns
<1>2. CASE ListType(r)
  <2>1. PICK t : Begins(r, [pc |-> "droptype", id |-> t])
    BY <1>2 DEF ListType
  <2>2. PICK w : w = [pc |-> "droptype", id |-> t]
    OBVIOUS
  <2>3. w.pc \in PlainPcs
    BY <2>2 DEF PlainPcs
  <2> QED BY <2>1, <2>2, <2>3, PlainTurns
<1>3. CASE EnsureSession(r)
  <2>1. PICK s \in Sessions \cap owners, d \in Defs, f \in {NoPatch} \cup UNION {Fields(v) : v \in Values} :
          Begins(r, [pc |-> "patch", to |-> s, id |-> d, fields |-> f])
    BY <1>3 DEF EnsureSession
  <2>2. PICK w : w = [pc |-> "patch", to |-> s, id |-> d, fields |-> f]
    OBVIOUS
  <2>3. f \in PatchRows
    <3>1. CASE \E v \in Values : f \in Fields(v)
      BY <3>1, PatchRowsAre
    <3>2. CASE f = NoPatch
      <4>1. f \in [{} -> Values]
        BY <3>2 DEF NoPatch
      <4> QED BY <4>1 DEF PatchRows
    <3> QED BY <3>1, <3>2
  <2>4. TablesHeld(w)
    BY <2>2, <2>3 DEF TablesHeld
  <2> QED BY <2>1, <2>2, <2>4, HeldTurns
<1>4. CASE PromotePatch(r)
  <2>1. PICK s \in Sessions \cap owners : \E d \in DOMAIN patch[s] :
          Begins(r, [pc |-> "base", to |-> s, id |-> d, fields |-> patch[s][d]])
    BY <1>4 DEF PromotePatch
  <2>2. PICK d \in DOMAIN patch[s] :
          Begins(r, [pc |-> "base", to |-> s, id |-> d, fields |-> patch[s][d]])
    BY <2>1
  <2>3. PICK f : f = patch[s][d]
    OBVIOUS
  <2>4. PICK w : w = [pc |-> "base", to |-> s, id |-> d, fields |-> f]
    OBVIOUS
  <2>5. f \in PatchRows
    BY <2>2, <2>3 DEF PatchesInv
  <2>6. TablesHeld(w)
    BY <2>4, <2>5 DEF TablesHeld
  <2> QED BY <2>2, <2>3, <2>4, <2>6, HeldTurns
<1>5. CASE PromoteBase(r)
  <2>1. PICK v, b : v = req[r] /\ b = def[v.id]
    OBVIOUS
  <2>2. PICK w : w = [pc |-> "promote", to |-> v.to, id |-> v.id, fields |-> v.fields, base |-> b]
    OBVIOUS
  <2>3. /\ v.pc = "base" /\ v.id \in DOMAIN def /\ TablesHeld(v)
        /\ req' = [req EXCEPT ![r] = w]
    BY <1>5, <2>1, <2>2 DEF PromoteBase, HeldInv
  <2>4. b \in DefRows
    BY <2>1, <2>3 DEF DefsInv
  <2>5. TablesHeld(w)
    BY <2>2, <2>3, <2>4 DEF TablesHeld
  <2> QED BY <2>3, <2>5, HeldTurns
<1> QED
  BY <1>1, <1>2, <1>3, <1>4, <1>5

LEMMA MediaReads ==
  ASSUME TreeInv, TablesInv, NEW r \in Requests,
         \/ WriteUpload(r) \/ GetAsset(r) \/ UnlinkAsset(r) \/ CheckAvatar(r) \/ GetFace(r)
         \/ SetFace(r)
  PROVE  HeldInv'
<1> USE DEF TablesInv
<1>1. CASE WriteUpload(r)
  <2>1. PICK p \in Paths, c \in Contents : Begins(r, [pc |-> "row", path |-> p, hash |-> c])
    BY <1>1 DEF WriteUpload
  <2>2. PICK w : w = [pc |-> "row", path |-> p, hash |-> c]
    OBVIOUS
  <2>3. TablesHeld(w)
    BY <2>2 DEF TablesHeld
  <2> QED BY <2>1, <2>2, <2>3, HeldTurns
<1>2. CASE GetAsset(r)
  <2>1. PICK p \in DOMAIN asset : Begins(r, [pc |-> "unlink", path |-> p, why |-> "user"])
    BY <1>2 DEF GetAsset
  <2>2. PICK w : w = [pc |-> "unlink", path |-> p, why |-> "user"]
    OBVIOUS
  <2>3. TablesHeld(w)
    BY <2>2 DEF TablesHeld, PathsInv
  <2> QED BY <2>1, <2>2, <2>3, HeldTurns
<1>3. CASE UnlinkAsset(r)
  <2>1. PICK v : v = req[r]
    OBVIOUS
  <2>2. PICK w : w = [v EXCEPT !.pc = "droprow"]
    OBVIOUS
  <2>3. v.pc = "unlink" /\ TablesHeld(v) /\ req' = [req EXCEPT ![r] = w]
    BY <1>3, <2>1, <2>2 DEF UnlinkAsset, HeldInv
  <2>4. v = [pc |-> "unlink", path |-> v.path, why |-> v.why] /\ v.path \in Paths
    BY <2>3 DEF TablesHeld
  <2>5. w.pc = "droprow" /\ w.path \in Paths
    BY <2>2, <2>4
  <2>6. TablesHeld(w)
    BY <2>5 DEF TablesHeld
  <2> QED BY <2>3, <2>6, HeldTurns
<1>4. CASE CheckAvatar(r)
  <2>1. PICK v : v = req[r]
    OBVIOUS
  <2>2. PICK w : w = [pc |-> "unlink", path |-> v.path, why |-> "gc"]
    OBVIOUS
  <2>3. CASE req' = [req EXCEPT ![r] = Done]
    BY <2>3, DoneTurns DEF ServedUnchanged
  <2>4. CASE v.path \in DOMAIN asset /\ req' = [req EXCEPT ![r] = w]
    <3>1. TablesHeld(w)
      BY <2>2, <2>4 DEF TablesHeld, PathsInv
    <3> QED BY <2>4, <3>1, HeldTurns
  <2> QED BY <1>4, <2>1, <2>2, <2>3, <2>4 DEF CheckAvatar
<1>5. CASE GetFace(r)
  <2>1. PICK o \in owners \ Templates, p \in DOMAIN asset :
          Begins(r, [pc |-> "face", to |-> o, path |-> p, old |-> face[o]])
    BY <1>5 DEF GetFace
  <2>2. PICK old : old = face[o]
    OBVIOUS
  <2>3. PICK w : w = [pc |-> "face", to |-> o, path |-> p, old |-> old]
    OBVIOUS
  <2>4. TablesHeld(w)
    BY <2>1, <2>3 DEF TablesHeld
  <2> QED BY <2>1, <2>2, <2>3, <2>4, HeldTurns
<1>6. CASE SetFace(r)
  <2>1. PICK old : req' = Goes(r, [pc |-> "gc", path |-> old])
    BY <1>6 DEF SetFace
  <2>2. PICK w : w = [pc |-> "gc", path |-> old]
    OBVIOUS
  <2>3. w.pc \in PlainPcs
    BY <2>2 DEF PlainPcs
  <2> QED BY <2>1, <2>2, <2>3, PlainTurns
<1> QED
  BY <1>1, <1>2, <1>3, <1>4, <1>5, <1>6

LEMMA OwnerReads ==
  ASSUME TreeInv, TablesInv, NEW r \in Requests,
         \/ DeleteOwnerGet(r) \/ DeleteOwnerOrphans(r) \/ DeleteOwner(r) \/ ImportAssets(r)
         \/ CreateSessionGet(r)
  PROVE  HeldInv'
<1> USE DEF TablesInv
<1>1. CASE DeleteOwnerGet(r)
  <2>1. PICK o \in owners \ Sessions, all \in BOOLEAN :
          Begins(r, [pc |-> "orphans", id |-> o, all |-> all,
                     path |-> IF o \in Packs THEN face[o] ELSE NoPath])
    BY <1>1 DEF DeleteOwnerGet
  <2>2. PICK p : p = IF o \in Packs THEN face[o] ELSE NoPath
    OBVIOUS
  <2>3. PICK w : w = [pc |-> "orphans", id |-> o, all |-> all, path |-> p]
    OBVIOUS
  <2>4. o \in Templates \cup Packs
    BY <2>1 DEF OwnersInv, Owners
  <2>5. TablesHeld(w)
    BY <2>3, <2>4 DEF TablesHeld
  <2> QED BY <2>1, <2>2, <2>3, <2>5, HeldTurns
<1>2. CASE DeleteOwnerOrphans(r)
  <2>1. PICK v, ds, rows : /\ v = req[r] /\ rows = node
                           /\ ds = IF v.all THEN Orphans(v.id) ELSE {}
    OBVIOUS
  <2>2. PICK w : w = [pc |-> "drop", id |-> v.id, path |-> v.path, orphans |-> ds, read |-> rows]
    OBVIOUS
  <2>3. v.pc = "orphans" /\ TablesHeld(v) /\ req' = [req EXCEPT ![r] = w]
    BY <1>2, <2>1, <2>2 DEF DeleteOwnerOrphans, HeldInv
  <2>4. ds \subseteq Defs
    BY <2>1 DEF Orphans, UsedBy, NodesOf, TreeInv, RowsInv, SoundRows, NodeRows
  <2>5. TablesHeld(w)
    BY <2>2, <2>3, <2>4 DEF TablesHeld
  <2> QED BY <2>3, <2>5, HeldTurns
<1>3. CASE DeleteOwner(r)
  <2>1. PICK p : p = req[r].path
    OBVIOUS
  <2>2. PICK w : w = [pc |-> "gc", path |-> p]
    OBVIOUS
  <2>3. w.pc \in PlainPcs /\ req' = Goes(r, w)
    BY <1>3, <2>1, <2>2 DEF DeleteOwner, PlainPcs
  <2> QED BY <2>3, PlainTurns
<1>4. CASE ImportAssets(r)
  <2>1. PICK o \in (Templates \cup Packs) \ (owners \cup spent), c \in Contents, bundled \in BOOLEAN :
          LET same == {p \in DOMAIN asset : asset[p] = c} IN
            \E p \in IF o \in Templates \/ ~bundled THEN {NoPath}
                     ELSE IF same # {} THEN same ELSE {q \in Paths : FreshPath(q)}, b \in Bundles :
              Begins(r, [pc |-> "import", to |-> o, path |-> p, hash |-> c, tree |-> b,
                         new |-> p # NoPath /\ same = {}])
    BY <1>4 DEF ImportAssets
  <2>2. PICK same : same = {p \in DOMAIN asset : asset[p] = c}
    OBVIOUS
  <2>3. PICK p \in IF o \in Templates \/ ~bundled THEN {NoPath}
                   ELSE IF same # {} THEN same ELSE {q \in Paths : FreshPath(q)}, b \in Bundles :
          Begins(r, [pc |-> "import", to |-> o, path |-> p, hash |-> c, tree |-> b,
                     new |-> p # NoPath /\ same = {}])
    BY <2>1, <2>2
  <2>4. PICK new : new = (p # NoPath /\ same = {})
    OBVIOUS
  <2>5. PICK w : w = [pc |-> "import", to |-> o, path |-> p, hash |-> c, tree |-> b, new |-> new]
    OBVIOUS
  <2>6. p \in Paths \cup {NoPath} /\ (o \in Templates => p = NoPath)
    BY <2>2, <2>3 DEF PathsInv
  <2>7. TablesHeld(w)
    BY <2>4, <2>5, <2>6 DEF TablesHeld
  <2> QED BY <2>3, <2>4, <2>5, <2>7, HeldTurns
<1>5. CASE CreateSessionGet(r)
  <2>1. PICK s \in Sessions \ (owners \cup spent), t \in {NoOwner} \cup (Templates \cap owners),
             p \in {NoPath} \cup DOMAIN asset \cup {face[o] : o \in Packs \cap owners} :
          Begins(r, [pc |-> "session", to |-> s, of |-> t, path |-> p])
    BY <1>5 DEF CreateSessionGet
  <2>2. PICK w : w = [pc |-> "session", to |-> s, of |-> t, path |-> p]
    OBVIOUS
  <2>3. TablesHeld(w)
    BY <2>1, <2>2 DEF TablesHeld
  <2> QED BY <2>1, <2>2, <2>3, HeldTurns
<1> QED
  BY <1>1, <1>2, <1>3, <1>4, <1>5

(* Which steps change which tables. *)
LEMMA TreeStepsChange ==
  ASSUME NEW r \in Requests, TreeStep(r)
  PROVE  UNCHANGED <<def, uses, spent>> /\ (UNCHANGED <<owners, face>> \/ DuplicateCreate(r))
BY DEF TreeStep, CreateList, CreateInsert, UpdateGet, UpdateCheck, UpdateWrite, DeleteChildren,
       DeleteSelf, Reorder, MaterializeRead, MaterializeCount, MaterializeCopy, DuplicateGet,
       DuplicateCreate, DuplicateList, DuplicatePaste, treeVars, rowVars

LEMMA LibraryStepsChange ==
  ASSUME NEW r \in Requests, Step(r) \/ (Drop(r) /\ UNCHANGED libVars)
  PROVE  /\ \/ UNCHANGED <<def, spent>>
            \/ StoreDefinition(r) \/ DeleteDefinition(r) \/ Promote(r) \/ DropAsset(r)
            \/ DeleteOwner(r) \/ Import(r) \/ DeleteSession(r)
         /\ \/ UNCHANGED <<owners, uses, spent>>
            \/ DuplicateCreate(r) \/ DeleteDefinition(r) \/ DropAsset(r) \/ DeleteOwner(r)
            \/ Import(r) \/ CreateTemplate(r) \/ CreatePack(r) \/ CreateSession(r) \/ DeleteSession(r)
         /\ UNCHANGED patch \/ StorePatch(r) \/ Promote(r)
         /\ \/ UNCHANGED <<types, asset, file>>
            \/ CreateType(r) \/ DeleteType(r) \/ WriteUpload(r) \/ RecordUpload(r)
            \/ UnwriteUpload(r) \/ UnlinkAsset(r) \/ DropAsset(r) \/ ImportAssets(r) \/ Import(r)
         /\ \/ UNCHANGED face
            \/ DuplicateCreate(r) \/ SetFace(r) \/ Import(r) \/ CreatePack(r) \/ CreateSession(r)
<1> USE DEF treeVars, libVars, OnlyReads
<1>1. CASE TreeStep(r) /\ UNCHANGED libVars
  BY <1>1, TreeStepsChange
<1>2. CASE Drop(r) /\ UNCHANGED libVars
  BY <1>2 DEF Drop
<1>3. CASE \/ ValidateDefinition(r) \/ StoreDefinition(r) \/ DeleteDefinition(r)
           \/ CreateType(r) \/ ListType(r) \/ DeleteType(r)
           \/ EnsureSession(r) \/ StorePatch(r)
           \/ PromotePatch(r) \/ PromoteBase(r) \/ Promote(r)
  <2>1. CASE ValidateDefinition(r) \/ ListType(r) \/ EnsureSession(r) \/ PromotePatch(r) \/ PromoteBase(r)
    BY <2>1 DEF ValidateDefinition, ListType, EnsureSession, PromotePatch, PromoteBase
  <2>2. CASE StoreDefinition(r) \/ DeleteDefinition(r) \/ CreateType(r)
    BY <2>2 DEF StoreDefinition, DeleteDefinition, CreateType
  <2>3. CASE DeleteType(r) \/ StorePatch(r) \/ Promote(r)
    BY <2>3 DEF DeleteType, StorePatch, Promote
  <2> QED BY <1>3, <2>1, <2>2, <2>3
<1>4. CASE \/ WriteUpload(r) \/ RecordUpload(r) \/ UnwriteUpload(r) \/ DropAsset(r)
           \/ GetAsset(r) \/ UnlinkAsset(r) \/ CheckAvatar(r) \/ GetFace(r) \/ SetFace(r)
  BY <1>4 DEF WriteUpload, RecordUpload, UnwriteUpload, DropAsset, GetAsset, UnlinkAsset,
     CheckAvatar, GetFace, SetFace
<1>5. CASE \/ DeleteOwnerGet(r) \/ DeleteOwnerOrphans(r) \/ DeleteOwner(r)
           \/ ImportAssets(r) \/ Import(r)
           \/ CreateTemplate(r) \/ CreatePack(r) \/ CreateSessionGet(r) \/ CreateSession(r) \/ DeleteSession(r)
  BY <1>5 DEF DeleteOwnerGet, DeleteOwnerOrphans, DeleteOwner, ImportAssets, Import, CreateTemplate,
     CreatePack, CreateSessionGet, CreateSession, DeleteSession
<1> QED
  BY <1>1, <1>2, <1>3, <1>4, <1>5 DEF Step

LEMMA FoldedRow ==
  ASSUME NEW row \in DefRows, NEW f \in PatchRows PROVE Folded(row, f) \in DefRows
<1>1. PICK F \in SUBSET {"text", "trig"} : f \in [F -> Values]
  BY DEF PatchRows
<1>2. \A k \in F : f[k] \in Values
  BY <1>1
<1>3. DOMAIN f = F
  BY <1>1
<1>4. DOMAIN row = {"type", "text", "trig", "avatar"} /\ row.type \in Types \cup {Reserved}
      /\ row.text \in Values /\ row.trig \in Values /\ row.avatar \in Paths \cup {NoPath}
  BY DEF DefRows
<1>5. Folded(row, f) = [k \in {"type", "text", "trig", "avatar"} |-> IF k \in F THEN f[k] ELSE row[k]]
  BY <1>3, <1>4 DEF Folded, Over
<1>6. Folded(row, f) = [type |-> row.type, text |-> IF "text" \in F THEN f["text"] ELSE row.text,
        trig |-> IF "trig" \in F THEN f["trig"] ELSE row.trig, avatar |-> row.avatar]
  BY <1>1, <1>5
<1> QED
  BY <1>2, <1>4, <1>6 DEF DefRows

LEMMA MergedPatch ==
  ASSUME NEW old \in PatchRows, NEW new \in PatchRows PROVE Merged(old, new) \in PatchRows
<1>1. PICK F \in SUBSET {"text", "trig"} : old \in [F -> Values]
  BY DEF PatchRows
<1>2. PICK G \in SUBSET {"text", "trig"} : new \in [G -> Values]
  BY DEF PatchRows
<1>3. Merged(old, new) \in [F \cup G -> Values]
  BY <1>1, <1>2 DEF Merged
<1>4. F \cup G \in SUBSET {"text", "trig"}
  OBVIOUS
<1> QED
  BY <1>3, <1>4 DEF PatchRows

LEMMA DefsKept ==
  ASSUME TreeInv, TablesInv, NEW r \in Requests,
         \/ StoreDefinition(r) \/ DeleteDefinition(r) \/ Promote(r) \/ DropAsset(r)
         \/ DeleteOwner(r) \/ Import(r) \/ DeleteSession(r)
  PROVE  DefsInv'
<1>1. PICK v : v = req[r]
  OBVIOUS
<1>2. TablesHeld(v) /\ DefsInv /\ owners \subseteq Owners
  BY <1>1 DEF TablesInv, HeldInv, OwnersInv
<1>3. CASE StoreDefinition(r)
  <2>1. v.row \in DefRows
    BY <1>1, <1>2, <1>3 DEF StoreDefinition, TablesHeld
  <2>2. PICK d \in IF v.id = NoDef THEN Defs \ (DOMAIN def \cup spent) ELSE {v.id} \cap DOMAIN def :
          def' = With(def, d, v.row)
    BY <1>1, <1>3 DEF StoreDefinition
  <2>3. d \in Defs \ spent /\ spent' = spent
    BY <1>2, <1>3, <2>2 DEF StoreDefinition, DefsInv
  <2> QED BY <1>2, <2>1, <2>2, <2>3 DEF DefsInv, With
<1>4. CASE DeleteDefinition(r)
  BY <1>2, <1>4 DEF DeleteDefinition, DefsInv
<1>5. CASE Promote(r)
  <2>1. PICK new : new = Folded(v.base, v.fields)
    OBVIOUS
  <2>2. new \in DefRows
    BY <1>1, <1>2, <1>5, <2>1, FoldedRow DEF Promote, TablesHeld
  <2>3. def' = [k \in DOMAIN def |-> IF k = v.id THEN new ELSE def[k]] /\ spent' = spent
    BY <1>1, <1>5, <2>1 DEF Promote
  <2> QED BY <1>2, <2>2, <2>3 DEF DefsInv
<1>6. CASE DropAsset(r)
  <2>1. v.path \in Paths /\ spent' = spent \cup {v.path} /\ def' = def
    BY <1>1, <1>2, <1>6 DEF DropAsset, TablesHeld
  <2> QED BY <1>2, <2>1 DEF DefsInv
<1>7. CASE DeleteOwner(r)
  <2>1. /\ v.id \in Owners /\ spent' = spent \cup {v.id} \cup v.orphans
        /\ def' = [d \in DOMAIN def \ v.orphans |-> def[d]]
    BY <1>1, <1>2, <1>7 DEF DeleteOwner, TablesHeld, Owners
  <2> QED BY <1>2, <2>1 DEF DefsInv
<1>8. CASE Import(r)
  <2>1. PICK d \in Defs \ (DOMAIN def \cup spent), t \in Types \cup {Reserved}, x \in Values :
          def' = With(def, d, Definition(t, x, x, v.path))
    BY <1>1, <1>8 DEF Import
  <2>2. PICK row : row = Definition(t, x, x, v.path)
    OBVIOUS
  <2>3. v.path \in Paths \cup {NoPath} /\ spent' = spent
    BY <1>1, <1>2, <1>8 DEF Import, TablesHeld
  <2>4. row \in DefRows
    BY <2>2, <2>3 DEF Definition, DefRows
  <2> QED BY <1>2, <2>1, <2>2, <2>3, <2>4 DEF DefsInv, With
<1>9. CASE DeleteSession(r)
  <2>1. PICK s \in Sessions : spent' = spent \cup {s} /\ def' = def
    BY <1>9 DEF DeleteSession
  <2>2. s \in Owners
    BY DEF Owners
  <2> QED BY <1>2, <2>1, <2>2 DEF DefsInv
<1> QED
  BY <1>3, <1>4, <1>5, <1>6, <1>7, <1>8, <1>9

LEMMA OwnersKept ==
  ASSUME TreeInv, TablesInv, NEW r \in Requests,
         \/ DuplicateCreate(r) \/ DeleteDefinition(r) \/ DropAsset(r) \/ DeleteOwner(r)
         \/ Import(r) \/ CreateTemplate(r) \/ CreatePack(r) \/ CreateSession(r) \/ DeleteSession(r)
  PROVE  OwnersInv'
<1>1. PICK v : v = req[r]
  OBVIOUS
<1>2. TablesHeld(v) /\ TreeHeld(v) /\ OwnersInv /\ DOMAIN def \subseteq Defs
  BY <1>1 DEF TablesInv, HeldInv, TreeInv, RequestsInv, RowsInv
<1>3. CASE DuplicateCreate(r) \/ Import(r)
  <2>1. v.to \in Owners
    BY <1>1, <1>2, <1>3 DEF DuplicateCreate, Import, TreeHeld, Owners
  <2>2. owners' = owners \cup {v.to} /\ v.to \notin spent /\ UNCHANGED <<uses, spent>>
    BY <1>1, <1>3 DEF DuplicateCreate, Import
  <2> QED BY <1>2, <2>1, <2>2 DEF OwnersInv
<1>4. CASE DeleteDefinition(r)
  <2>1. PICK d \in Defs : spent' = spent \cup {d} /\ UNCHANGED <<owners, uses>>
    BY <1>2, <1>4 DEF DeleteDefinition
  <2> QED BY <1>2, <2>1 DEF OwnersInv
<1>5. CASE DropAsset(r)
  <2>1. v.path \in Paths /\ spent' = spent \cup {v.path} /\ UNCHANGED <<owners, uses>>
    BY <1>1, <1>2, <1>5 DEF DropAsset, TablesHeld
  <2> QED BY <1>2, <2>1 DEF OwnersInv
<1>6. CASE DeleteOwner(r)
  <2>1. /\ spent' = spent \cup {v.id} \cup v.orphans /\ owners' = owners \ {v.id}
        /\ uses' = [s \in Sessions |-> IF uses[s] = v.id THEN NoOwner ELSE uses[s]]
        /\ v.orphans \subseteq Defs
    BY <1>1, <1>2, <1>6 DEF DeleteOwner, TablesHeld
  <2> QED BY <1>2, <2>1 DEF OwnersInv
<1>7. CASE CreateTemplate(r) \/ CreatePack(r)
  <2>1. PICK o \in (Templates \cup Packs) \ spent : owners' = owners \cup {o} /\ UNCHANGED <<uses, spent>>
    BY <1>7 DEF CreateTemplate, CreatePack
  <2> QED BY <1>2, <2>1 DEF OwnersInv, Owners
<1>8. CASE CreateSession(r)
  <2>1. v.to \in Sessions /\ v.of \in {NoOwner} \cup (Templates \cap owners)
    BY <1>1, <1>2, <1>8 DEF CreateSession, TablesHeld
  <2>2. /\ owners' = owners \cup {v.to} /\ v.to \notin spent /\ spent' = spent
        /\ uses' = [uses EXCEPT ![v.to] = v.of]
    BY <1>1, <1>8 DEF CreateSession
  <2> QED BY <1>2, <2>1, <2>2 DEF OwnersInv, Owners
<1>9. CASE DeleteSession(r)
  <2>1. PICK s \in Sessions : /\ owners' = owners \ {s} /\ spent' = spent \cup {s} /\ uses' = uses
    BY <1>9 DEF DeleteSession
  <2>2. Templates \cap owners' = Templates \cap owners
    BY <2>1
  <2> QED BY <1>2, <2>1, <2>2 DEF OwnersInv
<1> QED
  BY <1>3, <1>4, <1>5, <1>6, <1>7, <1>8, <1>9

LEMMA PatchesKept ==
  ASSUME TablesInv, NEW r \in Requests, StorePatch(r) \/ Promote(r)
  PROVE  PatchesInv'
<1>1. PICK v : v = req[r]
  OBVIOUS
<1>2. TablesHeld(v) /\ PatchesInv
  BY <1>1 DEF TablesInv, HeldInv
<1>3. PICK s, d : s = v.to /\ d = v.id
  OBVIOUS
<1>4. s \in Sessions /\ v.fields \in PatchRows
  BY <1>1, <1>2, <1>3 DEF StorePatch, Promote, TablesHeld
<1>5. PICK rest : rest = [k \in DOMAIN patch[s] \ {d} |-> patch[s][k]]
  OBVIOUS
<1>6. \A k \in DOMAIN rest : rest[k] \in PatchRows
  BY <1>2, <1>4, <1>5 DEF PatchesInv
<1>7. PICK new : patch' = patch \/ (/\ patch' = [patch EXCEPT ![s] = new]
                                    /\ \A k \in DOMAIN new : new[k] \in PatchRows)
  <2>1. CASE Promote(r)
    <3>1. patch' = [patch EXCEPT ![s] = rest]
      BY <1>1, <1>3, <1>5, <2>1 DEF Promote
    <3> QED BY <1>6, <3>1
  <2>2. CASE StorePatch(r)
    <3>1. PICK old : old = IF d \in DOMAIN patch[s] THEN patch[s][d] ELSE NoPatch
      OBVIOUS
    <3>2. old \in PatchRows
      <4>1. NoPatch \in [{} -> Values]
        BY DEF NoPatch
      <4>2. NoPatch \in PatchRows
        BY <4>1 DEF PatchRows
      <4> QED BY <1>2, <1>4, <3>1, <4>2 DEF PatchesInv
    <3>3. PICK merged : merged = Merged(old, v.fields)
      OBVIOUS
    <3>4. merged \in PatchRows
      BY <1>4, <3>2, <3>3, MergedPatch
    <3>5. PICK more : more = With(rest, d, merged)
      OBVIOUS
    <3>6. \A k \in DOMAIN more : more[k] \in PatchRows
      BY <1>6, <3>4, <3>5 DEF With
    <3>7. patch' = patch \/ patch' = [patch EXCEPT ![s] = rest] \/ patch' = [patch EXCEPT ![s] = more]
      BY <1>1, <1>3, <1>5, <2>2, <3>1, <3>3, <3>5 DEF StorePatch
    <3> QED BY <1>6, <3>6, <3>7
  <2> QED BY <2>1, <2>2
<1> QED
  BY <1>2, <1>4, <1>7 DEF PatchesInv

LEMMA PathsKept ==
  ASSUME TablesInv, NEW r \in Requests,
         \/ CreateType(r) \/ DeleteType(r) \/ WriteUpload(r) \/ RecordUpload(r)
         \/ UnwriteUpload(r) \/ UnlinkAsset(r) \/ DropAsset(r) \/ ImportAssets(r) \/ Import(r)
  PROVE  PathsInv'
<1>1. PICK v : v = req[r]
  OBVIOUS
<1>2. TablesHeld(v) /\ PathsInv
  BY <1>1 DEF TablesInv, HeldInv
<1>3. CASE CreateType(r)
  BY <1>2, <1>3 DEF CreateType, PathsInv
<1>4. CASE DeleteType(r)
  BY <1>2, <1>4 DEF DeleteType, PathsInv
<1>5. CASE WriteUpload(r)
  <2>1. PICK p \in Paths : file' = file \cup {p}
    BY <1>5 DEF WriteUpload
  <2> QED BY <1>2, <1>5, <2>1 DEF WriteUpload, PathsInv
<1>6. CASE RecordUpload(r)
  <2>1. v.path \in Paths /\ asset' = With(asset, v.path, v.hash) /\ UNCHANGED <<types, file>>
    BY <1>1, <1>2, <1>6 DEF RecordUpload, TablesHeld
  <2>2. DOMAIN asset' = DOMAIN asset \cup {v.path}
    BY <2>1 DEF With
  <2> QED BY <1>2, <2>1, <2>2 DEF PathsInv
<1>7. CASE UnwriteUpload(r)
  BY <1>2, <1>7 DEF UnwriteUpload, PathsInv
<1>8. CASE UnlinkAsset(r)
  BY <1>2, <1>8 DEF UnlinkAsset, PathsInv
<1>9. CASE DropAsset(r)
  BY <1>2, <1>9 DEF DropAsset, PathsInv
<1>10. CASE ImportAssets(r)
  <2>1. PICK o \in (Templates \cup Packs) \ (owners \cup spent), c \in Contents, bundled \in BOOLEAN :
          LET same == {p \in DOMAIN asset : asset[p] = c} IN
            \E p \in IF o \in Templates \/ ~bundled THEN {NoPath}
                     ELSE IF same # {} THEN same ELSE {q \in Paths : FreshPath(q)} :
              file' = IF p = NoPath THEN file ELSE file \cup (IF same = {} THEN {p} ELSE {})
    BY <1>10 DEF ImportAssets
  <2>2. PICK same : same = {p \in DOMAIN asset : asset[p] = c}
    OBVIOUS
  <2>3. PICK p \in IF o \in Templates \/ ~bundled THEN {NoPath}
                   ELSE IF same # {} THEN same ELSE {q \in Paths : FreshPath(q)} :
          file' = IF p = NoPath THEN file ELSE file \cup (IF same = {} THEN {p} ELSE {})
    BY <2>1, <2>2
  <2>4. file' \subseteq file \cup Paths /\ UNCHANGED <<types, asset>>
    BY <1>10, <2>3 DEF ImportAssets
  <2> QED BY <1>2, <2>4 DEF PathsInv
<1>11. CASE Import(r)
  <2>1. v.new => v.path \in Paths
    BY <1>1, <1>2, <1>11 DEF Import, TablesHeld
  <2>2. /\ asset' = IF v.new THEN With(asset, v.path, v.hash) ELSE asset
        /\ UNCHANGED <<types, file>>
    BY <1>1, <1>11 DEF Import
  <2>3. DOMAIN asset' = DOMAIN asset \/ (v.new /\ DOMAIN asset' = DOMAIN asset \cup {v.path})
    BY <2>2 DEF With
  <2> QED BY <1>2, <2>1, <2>2, <2>3 DEF PathsInv
<1> QED
  BY <1>3, <1>4, <1>5, <1>6, <1>7, <1>8, <1>9, <1>10, <1>11

LEMMA FacesKept ==
  ASSUME TablesInv, NEW r \in Requests,
         DuplicateCreate(r) \/ SetFace(r) \/ Import(r) \/ CreatePack(r) \/ CreateSession(r)
  PROVE  FacesInv'
<1>1. PICK v : v = req[r]
  OBVIOUS
<1>2. TablesHeld(v) /\ FacesInv
  BY <1>1 DEF TablesInv, HeldInv
<1>3. PICK o, p : face' = face \/ (face' = [face EXCEPT ![o] = p] /\ (o \in Templates => p = NoPath))
  <2>1. CASE DuplicateCreate(r) \/ Import(r)
    <3>1. face' = [face EXCEPT ![v.to] = v.path] /\ (v.to \in Templates => v.path = NoPath)
      BY <1>1, <1>2, <2>1 DEF DuplicateCreate, Import, TablesHeld
    <3> QED BY <3>1
  <2>2. CASE SetFace(r)
    <3>1. face' \in {face, [face EXCEPT ![v.to] = v.path]} /\ v.to \notin Templates
      BY <1>1, <1>2, <2>2 DEF SetFace, TablesHeld
    <3> QED BY <3>1
  <2>3. CASE CreatePack(r)
    BY <2>3 DEF CreatePack
  <2>4. CASE CreateSession(r)
    <3>1. face' = [face EXCEPT ![v.to] = v.path] /\ v.to \in Sessions
      BY <1>1, <1>2, <2>4 DEF CreateSession, TablesHeld
    <3> QED BY <3>1
  <2> QED BY <2>1, <2>2, <2>3, <2>4
<1> QED
  BY <1>2, <1>3 DEF FacesInv, Owners

LEMMA TablesStart == Init => TablesInv
<1> SUFFICES ASSUME Init PROVE TablesInv
  OBVIOUS
<1>1. PICK s \in Seeds : /\ def = s.def /\ owners = s.owners /\ uses = s.uses /\ types = s.types
                         /\ patch = s.patch /\ asset = s.asset /\ file = DOMAIN s.asset
                         /\ face = s.face /\ SoundDatabase(s)
  BY DEF Init
<1>2. DefsInv
  BY <1>1 DEF DefsInv, Init, SoundDatabase
<1>3. OwnersInv
  BY <1>1 DEF OwnersInv, Init, SoundDatabase
<1>4. PatchesInv
  BY <1>1 DEF PatchesInv, SoundDatabase
<1>5. PathsInv
  BY <1>1 DEF PathsInv, SoundDatabase
<1>6. HeldInv
  <2>1. \A r \in Requests : req[r] = Waiting
    BY DEF Init
  <2> QED BY <2>1 DEF HeldInv, TablesHeld, Waiting
<1>7. FacesInv
  BY <1>1 DEF FacesInv, SoundDatabase
<1> QED
  BY <1>2, <1>3, <1>4, <1>5, <1>6, <1>7 DEF TablesInv

LEMMA TablesKeep == TreeInv /\ TablesInv /\ [Next]_vars => TablesInv'
<1> SUFFICES ASSUME TreeInv, TablesInv, [Next]_vars PROVE TablesInv'
  OBVIOUS
<1>1. CASE UNCHANGED vars
  <2>1. UNCHANGED <<def, owners, uses, spent, face, patch, types, file, asset, req>>
    BY <1>1 DEF vars, treeVars, libVars
  <2>2. DefsInv' /\ OwnersInv' /\ PatchesInv' /\ PathsInv' /\ FacesInv' /\ HeldInv'
    BY <2>1 DEF TablesInv, DefsInv, OwnersInv, PatchesInv, PathsInv, FacesInv, HeldInv
  <2> QED BY <2>2 DEF TablesInv
<1>2. CASE Next
  <2>1. PICK r \in Requests : Step(r) \/ (Drop(r) /\ UNCHANGED libVars)
    BY <1>2 DEF Next, libVars
  <2>2. DefsInv'
    <3>1. UNCHANGED <<def, spent>> => DefsInv'
      BY DEF TablesInv, DefsInv
    <3> QED BY <2>1, <3>1, LibraryStepsChange, DefsKept
  <2>3. OwnersInv'
    <3>1. UNCHANGED <<owners, uses, spent>> => OwnersInv'
      BY DEF TablesInv, OwnersInv
    <3> QED BY <2>1, <3>1, LibraryStepsChange, OwnersKept
  <2>4. PatchesInv'
    <3>1. UNCHANGED patch => PatchesInv'
      BY DEF TablesInv, PatchesInv
    <3> QED BY <2>1, <3>1, LibraryStepsChange, PatchesKept
  <2>5. PathsInv'
    <3>1. UNCHANGED <<types, asset, file>> => PathsInv'
      BY DEF TablesInv, PathsInv
    <3> QED BY <2>1, <3>1, LibraryStepsChange, PathsKept
  <2>6. HeldInv'
    <3>1. HeldInv /\ FacesInv
      BY DEF TablesInv
    <3>2. CASE TreeStep(r)
      BY <3>1, <3>2, TreeStepsKeepHeld
    <3>3. CASE ~TreeStep(r)
      BY <2>1, <3>1, <3>3, LibraryDones, DefinitionReads, MediaReads, OwnerReads DEF Step
    <3> QED BY <3>2, <3>3
  <2>7. FacesInv'
    <3>1. UNCHANGED face => FacesInv'
      BY DEF TablesInv, FacesInv
    <3> QED BY <2>1, <3>1, LibraryStepsChange, FacesKept
  <2> QED BY <2>2, <2>3, <2>4, <2>5, <2>6, <2>7 DEF TablesInv
<1> QED
  BY <1>1, <1>2

LEMMA TablesAlways == Spec => []TablesInv
BY TablesStart, TablesKeep, TreeAlways, PTL DEF Spec

(* Rows are well formed and no foreign key dangles; over any interleaving  *)
(* of moves, deletions, imports and copies every row stays in its own tree,*)
(* and in a tree that no import or copy made deeper everything stands at   *)
(* the root or is a ref in a folder there.                                 *)
THEOREM TwoLevelsHolds == Spec => []TwoLevels
<1>1. TreeInv /\ LevelsInv /\ TablesInv => TwoLevels
  <2> SUFFICES ASSUME TreeInv, LevelsInv, TablesInv PROVE TwoLevels
    OBVIOUS
  <2>1. \A s \in Sessions \cap owners : uses[s] \in {NoOwner} \cup owners
    BY DEF TablesInv, OwnersInv
  <2>2. /\ \A n \in DOMAIN node : node[n] \in NodeRows(DOMAIN node, DOMAIN def, lastId)
        /\ DOMAIN node \subseteq 1 .. lastId /\ WithinOwner(node)
    BY DEF TreeInv, RowsInv, SoundRows
  <2>3. /\ DOMAIN def \subseteq Defs \ spent /\ owners \subseteq Owners \ spent
        /\ \A d \in DOMAIN def : def[d] \in DefRows
        /\ types \subseteq Types /\ file \subseteq Paths /\ DOMAIN asset \subseteq Paths
    BY DEF TablesInv, DefsInv, OwnersInv, PathsInv
  <2>4. ASSUME NEW n \in DOMAIN node, node[n].owner \notin deep PROVE Shallow(node, n)
    <3>1. CASE node[n].parent = Root
      BY <3>1 DEF Shallow
    <3>2. CASE node[n].parent # Root
      <4>1. PICK p : p = node[n].parent
        OBVIOUS
      <4>2. /\ p \in DOMAIN node /\ node[p].owner = node[n].owner
            /\ node[n].kind = "ref" /\ node[p].kind = "folder"
        BY <2>2, <2>4, <3>2, <4>1 DEF LevelsInv, InFolder, WithinOwner
      <4>3. node[p].parent = Root
        BY <2>4, <4>2 DEF LevelsInv, InFolder
      <4> QED BY <4>1, <4>2, <4>3 DEF Shallow
    <3> QED BY <3>1, <3>2
  <2> QED BY <2>1, <2>2, <2>3, <2>4 DEF TwoLevels, TypeOK
<1> QED
  BY <1>1, TreeAlways, LevelsAlways, TablesAlways, PTL

(* Promoting a patch nobody touched since it was read changes nothing for  *)
(* the session: promote_local_definition folds the patch into the row in   *)
(* the transaction that drops it.                                          *)
THEOREM PromoteKeepsEffectiveHolds == Spec => PromoteKeepsEffective
<1>1. ASSUME PatchesInv, NEW r \in Requests, NEW s \in Sessions, NEW d \in Defs,
             Promote(r), req[r].to = s, req[r].id = d, d \in DOMAIN def, def[d] = req[r].base,
             d \in DOMAIN patch[s], patch[s][d] = req[r].fields
      PROVE  Effective(s, d)' = Effective(s, d)
  <2>1. PICK row, f : row = req[r].base /\ f = req[r].fields
    OBVIOUS
  <2>2. PICK new : new = Over(row, f)
    OBVIOUS
  <2>3. Effective(s, d) = new
    BY <1>1, <2>1, <2>2 DEF Effective
  <2>4. def'[d] = new
    BY <1>1, <2>1, <2>2 DEF Promote, Folded
  <2>5. d \notin DOMAIN patch'[s]
    BY <1>1 DEF Promote, PatchesInv
  <2> QED BY <2>3, <2>4, <2>5 DEF Effective
<1>2. TablesInv /\ [Next]_vars =>
        [\A r \in Requests, s \in Sessions, d \in Defs :
           (/\ Promote(r) /\ req[r].to = s /\ req[r].id = d
            /\ d \in DOMAIN def /\ def[d] = req[r].base
            /\ d \in DOMAIN patch[s] /\ patch[s][d] = req[r].fields)
             => Effective(s, d)' = Effective(s, d)]_vars
  BY <1>1 DEF TablesInv
<1> QED
  BY <1>2, TablesAlways, PTL DEF Spec, PromoteKeepsEffective

-----------------------------------------------------------------------------
(* The media library, as long as requests follow one another. *)

(* An avatar that may be used: it is there, or a user deleted it. *)
Kept(p) == p \in {NoPath} \cup DOMAIN asset \cup removed

(* Rows and files while a request that holds w is served. *)
MediaRows(w) ==
  /\ w.pc = "row" \/ (w.pc = "import" /\ w.new) =>
       w.path \in file /\ DOMAIN asset = file \ {w.path}
  /\ w.pc = "droprow" => w.path \notin file /\ DOMAIN asset = file \cup {w.path}
  /\ w.pc \notin {"row", "droprow"} /\ ~(w.pc = "import" /\ w.new) => DOMAIN asset = file

(* And the avatars in use, with the one that the request will put to use   *)
(* or that it has found unused.                                            *)
MediaFaces(w) ==
  /\ \A p \in InUseAvatars : Kept(p)
  /\ w.pc \in {"create", "session", "face"} \/ (w.pc = "import" /\ ~w.new) => Kept(w.path)
  /\ w.pc = "store" => Kept(w.row.avatar)
  /\ w.pc = "promote" => Kept(w.base.avatar)
  /\ w.pc = "unlink" => w.path \in file
  /\ w.pc \in {"unlink", "droprow"} => w.why = "user" \/ w.path \notin InUseAvatars

MediaAround(w) == MediaRows(w) /\ MediaFaces(w)

MediaInv == alone =>
  /\ \A a, b \in Requests : InFlight(a) /\ InFlight(b) => a = b
  /\ \A r \in Requests : InFlight(r) => MediaAround(req[r])
  /\ (\A r \in Requests : ~InFlight(r)) => MediaAround(Waiting)

(* The requests that others wait for are served alone. *)
LEMMA OthersStay ==
  ASSUME TreeInv, NEW r \in Requests, Step(r), NEW k \in Requests, k # r, ~InFlight(k)
  PROVE  req'[k] = req[k]
<1> USE DEF Served, ServedUnchanged, Goes, Begins, InFlight
<1>1. DOMAIN req = Requests /\ req[k].pc # "copy"
  BY DEF TreeInv, RequestsInv
<1>2. CASE TreeStep(r)
  <2>1. CASE CreateList(r) \/ CreateInsert(r) \/ UpdateGet(r) \/ UpdateCheck(r) \/ UpdateWrite(r)
    BY <1>1, <2>1 DEF CreateList, CreateInsert, UpdateGet, UpdateCheck, UpdateWrite
  <2>2. CASE DeleteChildren(r) \/ DeleteSelf(r) \/ Reorder(r) \/ MaterializeRead(r)
             \/ MaterializeCount(r)
    BY <1>1, <2>2 DEF DeleteChildren, DeleteSelf, Reorder, MaterializeRead, MaterializeCount
  <2>3. CASE MaterializeCopy(r) \/ DuplicateGet(r) \/ DuplicateCreate(r) \/ DuplicateList(r)
             \/ DuplicatePaste(r)
    BY <1>1, <2>3 DEF MaterializeCopy, DuplicateGet, DuplicateCreate, DuplicateList, DuplicatePaste
  <2> QED BY <1>2, <2>1, <2>2, <2>3 DEF TreeStep
<1>3. CASE ValidateDefinition(r) \/ StoreDefinition(r) \/ DeleteDefinition(r) \/ CreateType(r)
           \/ ListType(r) \/ DeleteType(r) \/ EnsureSession(r) \/ StorePatch(r)
  BY <1>1, <1>3 DEF ValidateDefinition, StoreDefinition, CreateType, ListType, DeleteType,
     EnsureSession, StorePatch, DeleteDefinition
<1>4. CASE PromotePatch(r) \/ PromoteBase(r) \/ Promote(r) \/ WriteUpload(r) \/ RecordUpload(r)
           \/ UnwriteUpload(r) \/ DropAsset(r)
  BY <1>1, <1>4 DEF PromotePatch, PromoteBase, Promote, WriteUpload, RecordUpload, UnwriteUpload,
     DropAsset
<1>5. CASE GetAsset(r) \/ UnlinkAsset(r) \/ CheckAvatar(r) \/ GetFace(r) \/ SetFace(r)
           \/ DeleteOwnerGet(r) \/ DeleteOwnerOrphans(r) \/ DeleteOwner(r)
  BY <1>1, <1>5 DEF GetAsset, UnlinkAsset, CheckAvatar, GetFace, SetFace, DeleteOwnerGet,
     DeleteOwnerOrphans, DeleteOwner
<1>6. CASE ImportAssets(r) \/ Import(r) \/ CreateTemplate(r) \/ CreatePack(r) \/ CreateSessionGet(r)
           \/ CreateSession(r) \/ DeleteSession(r)
  BY <1>1, <1>6 DEF ImportAssets, Import, CreateTemplate, CreatePack, CreateSessionGet,
     CreateSession, DeleteSession
<1> QED
  BY <1>2, <1>3, <1>4, <1>5, <1>6 DEF Step

LEMMA MediaTurns ==
  ASSUME TreeInv, MediaInv, NEW r \in Requests, Step(r),
         alone' = (alone /\ \A k \in Requests \ {r} : ~InFlight(k)),
         MediaAround(req[r]) => MediaAround(req[r])'
  PROVE  MediaInv'
<1> SUFFICES ASSUME alone'
             PROVE  /\ \A a, b \in Requests : InFlight(a)' /\ InFlight(b)' => a = b
                    /\ \A k \in Requests : InFlight(k)' => MediaAround(req[k])'
                    /\ (\A k \in Requests : ~InFlight(k)') => MediaAround(Waiting)'
  BY DEF MediaInv
<1>1. alone /\ \A k \in Requests : k # r => ~InFlight(k)
  OBVIOUS
<1>2. MediaAround(req[r])
  <2>1. CASE InFlight(r)
    BY <1>1, <2>1 DEF MediaInv
  <2>2. CASE ~InFlight(r)
    <3>1. MediaAround(Waiting) /\ req[r].pc \in {"waiting", "done"}
      BY <1>1, <2>2 DEF MediaInv, InFlight
    <3> QED BY <3>1 DEF MediaAround, MediaRows, MediaFaces, Waiting
  <2> QED BY <2>1, <2>2
<1>3. MediaAround(req[r])'
  BY <1>2
<1>4. \A k \in Requests : k # r => ~InFlight(k)'
  BY <1>1, OthersStay DEF InFlight
<1>5. ~InFlight(r)' => MediaAround(Waiting)'
  BY <1>3 DEF InFlight, MediaAround, MediaRows, MediaFaces, Waiting, InUseAvatars, Kept
<1> QED
  BY <1>3, <1>4, <1>5

(* Steps that concern no avatar and no file. *)
MediaPcs == {"row", "droprow", "import", "create", "session", "face", "store", "promote", "unlink"}

LEMMA MediaQuiet ==
  ASSUME NEW v, MediaAround(v), v.pc \notin {"row", "droprow", "import"},
         UNCHANGED <<asset, file, removed>>, \A p \in InUseAvatars' : Kept(p),
         NEW w, w.pc \notin MediaPcs
  PROVE  MediaAround(w)'
BY DEF MediaAround, MediaRows, MediaFaces, MediaPcs, Kept

QuietTreeStep(r) ==
  \/ CreateList(r) \/ CreateInsert(r)
  \/ UpdateGet(r) \/ UpdateCheck(r) \/ UpdateWrite(r)
  \/ DeleteChildren(r) \/ DeleteSelf(r) \/ Reorder(r)
  \/ MaterializeRead(r) \/ MaterializeCount(r) \/ MaterializeCopy(r)
  \/ DuplicateList(r) \/ DuplicatePaste(r)

QuietStep(r) ==
  \/ DeleteDefinition(r) \/ CreateType(r) \/ ListType(r) \/ DeleteType(r)
  \/ EnsureSession(r) \/ StorePatch(r) \/ PromotePatch(r)
  \/ DeleteOwnerGet(r) \/ DeleteOwnerOrphans(r) \/ DeleteOwner(r)
  \/ CreateTemplate(r) \/ DeleteSession(r)

LEMMA QuietPcs ==
  ASSUME TreeInv, NEW r \in Requests, QuietTreeStep(r) \/ QuietStep(r)
  PROVE  req[r].pc \notin {"row", "droprow", "import"} /\ req'[r].pc \notin MediaPcs
<1> USE DEF Served, ServedUnchanged, Goes, Begins, Done, Waiting, MediaPcs
<1>1. DOMAIN req = Requests
  BY DEF TreeInv, RequestsInv
<1>2. CASE CreateList(r) \/ CreateInsert(r) \/ UpdateGet(r) \/ UpdateCheck(r) \/ UpdateWrite(r)
  BY <1>1, <1>2 DEF CreateList, CreateInsert, UpdateGet, UpdateCheck, UpdateWrite
<1>3. CASE DeleteChildren(r) \/ DeleteSelf(r) \/ Reorder(r) \/ MaterializeRead(r)
  <2>1. CASE DeleteChildren(r)
    <3>1. PICK n : req[r] = Waiting /\ req' = Goes(r, [pc |-> "self", id |-> n])
      BY <2>1 DEF DeleteChildren
    <3> QED BY <1>1, <3>1
  <2>2. CASE DeleteSelf(r) \/ Reorder(r)
    <3>1. (req[r] = Waiting \/ req[r].pc = "self") /\ req' = Served(r)
      BY <2>2 DEF DeleteSelf, Reorder
    <3> QED BY <1>1, <3>1
  <2>3. CASE MaterializeRead(r)
    BY <1>1, <2>3 DEF MaterializeRead
  <2> QED BY <1>3, <2>1, <2>2, <2>3
<1>4. CASE MaterializeCount(r) \/ MaterializeCopy(r) \/ DuplicateList(r) \/ DuplicatePaste(r)
  BY <1>1, <1>4 DEF MaterializeCount, MaterializeCopy, DuplicateList, DuplicatePaste
<1>5. CASE DeleteDefinition(r) \/ CreateType(r) \/ ListType(r) \/ DeleteType(r)
  BY <1>1, <1>5 DEF DeleteDefinition, CreateType, ListType, DeleteType
<1>6. CASE EnsureSession(r) \/ StorePatch(r) \/ PromotePatch(r) \/ DeleteOwnerGet(r)
  BY <1>1, <1>6 DEF EnsureSession, StorePatch, PromotePatch, DeleteOwnerGet
<1>7. CASE DeleteOwnerOrphans(r) \/ DeleteOwner(r) \/ CreateTemplate(r) \/ DeleteSession(r)
  BY <1>1, <1>7 DEF DeleteOwnerOrphans, DeleteOwner, CreateTemplate, DeleteSession
<1> QED
  BY <1>2, <1>3, <1>4, <1>5, <1>6, <1>7 DEF QuietTreeStep, QuietStep

LEMMA QuietChanges ==
  ASSUME NEW r \in Requests, TablesInv,
         (QuietTreeStep(r) /\ UNCHANGED libVars) \/ QuietStep(r)
  PROVE  UNCHANGED <<asset, file>> /\ \A p \in InUseAvatars' : p = NoPath \/ p \in InUseAvatars
<1> USE DEF treeVars, rowVars, libVars, OnlyReads, InUseAvatars
<1>1. CASE QuietTreeStep(r) /\ UNCHANGED libVars
  BY <1>1 DEF QuietTreeStep, CreateList, CreateInsert, UpdateGet, UpdateCheck, UpdateWrite,
     DeleteChildren, DeleteSelf, Reorder, MaterializeRead, MaterializeCount, MaterializeCopy,
     DuplicateList, DuplicatePaste
<1>2. CASE \/ CreateType(r) \/ ListType(r) \/ DeleteType(r) \/ EnsureSession(r) \/ StorePatch(r)
           \/ PromotePatch(r) \/ DeleteOwnerGet(r) \/ DeleteOwnerOrphans(r)
  <2>1. UNCHANGED <<asset, file, owners, face, def>>
    BY <1>2 DEF CreateType, ListType, DeleteType, EnsureSession, StorePatch, PromotePatch,
       DeleteOwnerGet, DeleteOwnerOrphans
  <2> QED BY <2>1
<1>3. CASE DeleteDefinition(r)
  BY <1>3 DEF DeleteDefinition
<1>4. CASE DeleteOwner(r)
  BY <1>4 DEF DeleteOwner
<1>5. CASE CreateTemplate(r)
  <2>1. PICK t \in Templates : owners' = owners \cup {t} /\ UNCHANGED <<asset, file, face, def>>
    BY <1>5 DEF CreateTemplate
  <2>2. face[t] = NoPath
    BY DEF TablesInv, FacesInv
  <2> QED BY <2>1, <2>2
<1>6. CASE DeleteSession(r)
  BY <1>6 DEF DeleteSession
<1> QED
  BY <1>1, <1>2, <1>3, <1>4, <1>5, <1>6 DEF QuietStep

LEMMA QuietSteps ==
  ASSUME TreeInv, TablesInv, NEW r \in Requests, UNCHANGED removed,
         (QuietTreeStep(r) /\ UNCHANGED libVars) \/ QuietStep(r), MediaAround(req[r])
  PROVE  MediaAround(req[r])'
<1>1. PICK v, w : v = req[r] /\ w = req'[r]
  OBVIOUS
<1>2. v.pc \notin {"row", "droprow", "import"} /\ w.pc \notin MediaPcs
  BY <1>1, QuietPcs
<1>3. UNCHANGED <<asset, file>> /\ \A p \in InUseAvatars' : Kept(p)
  BY QuietChanges DEF MediaAround, MediaFaces, Kept
<1>4. MediaAround(v)
  BY <1>1
<1>5. MediaAround(w)'
  BY <1>2, <1>3, <1>4, MediaQuiet
<1> QED
  BY <1>1, <1>5

(* Steps on definitions and owners that carry an avatar. *)
LEMMA MediaUses ==
  ASSUME NEW v, MediaAround(v), v.pc \notin {"row", "droprow", "import"},
         UNCHANGED <<asset, file, removed>>, \A p \in InUseAvatars' : Kept(p),
         NEW w, w.pc \notin {"row", "droprow", "import", "unlink"},
         w.pc \in {"create", "session", "face"} => Kept(w.path),
         w.pc = "store" => Kept(w.row.avatar),
         w.pc = "promote" => Kept(w.base.avatar)
  PROVE  MediaAround(w)'
BY DEF MediaAround, MediaRows, MediaFaces, Kept

LEMMA DefinitionMedia ==
  ASSUME TreeInv, TablesInv, NEW r \in Requests, UNCHANGED removed, MediaAround(req[r]),
         ValidateDefinition(r) \/ StoreDefinition(r) \/ PromoteBase(r) \/ Promote(r)
  PROVE  MediaAround(req[r])'
<1>1. PICK v, w : v = req[r] /\ w = req'[r]
  OBVIOUS
<1>2. DOMAIN req = Requests /\ MediaAround(v) /\ TablesHeld(v)
  BY <1>1 DEF TreeInv, RequestsInv, TablesInv, HeldInv
<1>3. \A p \in InUseAvatars : Kept(p)
  BY <1>2 DEF MediaAround, MediaFaces
<1>4. CASE ValidateDefinition(r)
  <2>1. PICK d \in DOMAIN def \cup {NoDef}, t \in types \cup {Reserved}, x \in Values,
             p \in DOMAIN asset \cup {NoPath} :
          Begins(r, [pc |-> "store", id |-> d, row |-> Definition(t, x, x, p)])
    BY <1>4 DEF ValidateDefinition
  <2>2. v.pc = "waiting" /\ w.pc = "store" /\ w.row.avatar = p
    BY <1>1, <1>2, <2>1 DEF Begins, Waiting, Definition
  <2>3. UNCHANGED <<asset, file, InUseAvatars>> /\ Kept(p)
    BY <1>4, <2>1 DEF ValidateDefinition, OnlyReads, treeVars, libVars, InUseAvatars, Kept
  <2>4. MediaAround(w)'
    BY <1>2, <1>3, <2>2, <2>3, MediaUses
  <2> QED BY <1>1, <2>4
<1>5. CASE StoreDefinition(r)
  <2>1. v.pc = "store" /\ w.pc = "done" /\ Kept(v.row.avatar)
    BY <1>1, <1>2, <1>5 DEF StoreDefinition, Served, Done, MediaAround, MediaFaces
  <2>2. PICK d : def' = With(def, d, v.row)
    BY <1>1, <1>5 DEF StoreDefinition
  <2>3. UNCHANGED <<asset, file, owners, face>>
    BY <1>5 DEF StoreDefinition, libVars
  <2>4. \A p \in InUseAvatars' : p = v.row.avatar \/ p \in InUseAvatars
    BY <2>2, <2>3 DEF InUseAvatars, With
  <2>5. MediaAround(w)'
    BY <1>2, <1>3, <2>1, <2>3, <2>4, MediaUses
  <2> QED BY <1>1, <2>5
<1>6. CASE PromoteBase(r)
  <2>1. v.pc = "base" /\ v.id \in DOMAIN def /\ w.pc = "promote" /\ w.base = def[v.id]
    BY <1>1, <1>2, <1>6 DEF PromoteBase
  <2>2. UNCHANGED <<asset, file, InUseAvatars>>
    BY <1>6 DEF PromoteBase, OnlyReads, treeVars, libVars, InUseAvatars
  <2>3. Kept(w.base.avatar)
    BY <1>3, <2>1 DEF InUseAvatars
  <2>4. MediaAround(w)'
    BY <1>2, <1>3, <2>1, <2>2, <2>3, MediaUses
  <2> QED BY <1>1, <2>4
<1>7. CASE Promote(r)
  <2>1. v.pc = "promote" /\ w.pc = "done" /\ Kept(v.base.avatar)
    BY <1>1, <1>2, <1>7 DEF Promote, Served, Done, MediaAround, MediaFaces
  <2>2. PICK new : new = Folded(v.base, v.fields)
    OBVIOUS
  <2>3. new.avatar = v.base.avatar
    <3>1. PICK F \in SUBSET {"text", "trig"} : v.fields \in [F -> Values]
      BY <1>2, <2>1 DEF TablesHeld, PatchRows
    <3>2. "avatar" \notin DOMAIN v.fields
      BY <3>1
    <3>3. "avatar" \in DOMAIN v.base
      BY <1>2, <2>1 DEF TablesHeld, DefRows
    <3> QED BY <2>2, <3>2, <3>3 DEF Folded, Over
  <2>4. /\ def' = [k \in DOMAIN def |-> IF k = v.id THEN new ELSE def[k]]
        /\ UNCHANGED <<asset, file, owners, face>>
    BY <1>1, <1>7, <2>2 DEF Promote
  <2>5. \A p \in InUseAvatars' : p = v.base.avatar \/ p \in InUseAvatars
    BY <2>3, <2>4 DEF InUseAvatars
  <2>6. MediaAround(w)'
    BY <1>2, <1>3, <2>1, <2>4, <2>5, MediaUses
  <2> QED BY <1>1, <2>6
<1> QED
  BY <1>4, <1>5, <1>6, <1>7

LEMMA OwnerMedia ==
  ASSUME TreeInv, TablesInv, NEW r \in Requests, UNCHANGED removed, MediaAround(req[r]),
         \/ (DuplicateGet(r) \/ DuplicateCreate(r)) /\ UNCHANGED libVars
         \/ CreatePack(r) \/ CreateSessionGet(r) \/ CreateSession(r) \/ GetFace(r) \/ SetFace(r)
  PROVE  MediaAround(req[r])'
<1> USE DEF libVars
<1>1. PICK v, w : v = req[r] /\ w = req'[r]
  OBVIOUS
<1>2. DOMAIN req = Requests /\ MediaAround(v)
  BY <1>1 DEF TreeInv, RequestsInv
<1>3. \A p \in InUseAvatars : Kept(p)
  BY <1>2 DEF MediaAround, MediaFaces
<1>4. CASE DuplicateGet(r) /\ UNCHANGED libVars
  <2>1. PICK o \in owners \ Sessions, c \in Owners \ (owners \cup spent) :
          req' = [req EXCEPT ![r] = [pc |-> "create", of |-> o, to |-> c, path |-> face[o]]]
    BY <1>4 DEF DuplicateGet
  <2>2. v.pc = "waiting" /\ w.pc = "create" /\ w.path = face[o]
    BY <1>1, <1>2, <1>4, <2>1 DEF DuplicateGet, Waiting
  <2>3. UNCHANGED <<asset, file, InUseAvatars>> /\ Kept(face[o])
    BY <1>3, <1>4, <2>1 DEF DuplicateGet, treeVars, InUseAvatars
  <2>4. MediaAround(w)'
    BY <1>2, <1>3, <2>2, <2>3, MediaUses
  <2> QED BY <1>1, <2>4
<1>5. CASE (DuplicateCreate(r) /\ UNCHANGED libVars) \/ CreateSession(r)
  <2>1. v.pc \in {"create", "session"} /\ w.pc \in {"list", "done"} /\ Kept(v.path)
    BY <1>1, <1>2, <1>5 DEF DuplicateCreate, CreateSession, Goes, Served, Done, MediaAround, MediaFaces
  <2>2. /\ owners' = owners \cup {v.to} /\ face' = [face EXCEPT ![v.to] = v.path]
        /\ UNCHANGED <<asset, file, def>>
    BY <1>1, <1>5 DEF DuplicateCreate, CreateSession
  <2>3. v.to \in Owners /\ DOMAIN face = Owners /\ owners \subseteq Owners
    BY <1>1, <1>5 DEF DuplicateCreate, CreateSession, TreeInv, RequestsInv, TreeHeld, TablesInv,
       FacesInv, HeldInv, TablesHeld, OwnersInv, Owners
  <2>4. \A p \in InUseAvatars' : p = v.path \/ p \in InUseAvatars
    BY <2>2, <2>3 DEF InUseAvatars
  <2>5. MediaAround(w)'
    BY <1>2, <1>3, <2>1, <2>2, <2>4, MediaUses
  <2> QED BY <1>1, <2>5
<1>6. CASE CreatePack(r)
  <2>1. v.pc = "waiting" /\ w.pc = "done"
    BY <1>1, <1>2, <1>6 DEF CreatePack, Waiting, Served, Done
  <2>2. PICK o \in Packs, q \in DOMAIN asset \cup {NoPath} :
          /\ owners' = owners \cup {o} /\ face' = [face EXCEPT ![o] = q]
    BY <1>6 DEF CreatePack
  <2>3. o \in Owners /\ DOMAIN face = Owners /\ owners \subseteq Owners /\ Kept(q)
        /\ UNCHANGED <<asset, file, def>>
    BY <1>6, <2>2 DEF CreatePack, TablesInv, FacesInv, OwnersInv, Owners, Kept
  <2>4. \A p \in InUseAvatars' : p = q \/ p \in InUseAvatars
    BY <2>2, <2>3 DEF InUseAvatars
  <2>5. MediaAround(w)'
    BY <1>2, <1>3, <2>1, <2>3, <2>4, MediaUses
  <2> QED BY <1>1, <2>5
<1>7. CASE CreateSessionGet(r)
  <2>1. PICK s \in Sessions \ (owners \cup spent), t \in {NoOwner} \cup (Templates \cap owners),
             p \in {NoPath} \cup DOMAIN asset \cup {face[o] : o \in Packs \cap owners} :
          Begins(r, [pc |-> "session", to |-> s, of |-> t, path |-> p])
    BY <1>7 DEF CreateSessionGet
  <2>2. v.pc = "waiting" /\ w.pc = "session" /\ w.path = p
    BY <1>1, <1>2, <2>1 DEF Begins, Waiting
  <2>3. UNCHANGED <<asset, file, InUseAvatars>> /\ Kept(p)
    BY <1>3, <1>7, <2>1 DEF CreateSessionGet, OnlyReads, treeVars, InUseAvatars, Kept
  <2>4. MediaAround(w)'
    BY <1>2, <1>3, <2>2, <2>3, MediaUses
  <2> QED BY <1>1, <2>4
<1>8. CASE GetFace(r)
  <2>1. PICK o \in owners \ Templates, p \in DOMAIN asset :
          Begins(r, [pc |-> "face", to |-> o, path |-> p, old |-> face[o]])
    BY <1>8 DEF GetFace
  <2>2. v.pc = "waiting" /\ w.pc = "face" /\ w.path = p
    BY <1>1, <1>2, <2>1 DEF Begins, Waiting
  <2>3. UNCHANGED <<asset, file, InUseAvatars>> /\ Kept(p)
    BY <1>8, <2>1 DEF GetFace, OnlyReads, treeVars, InUseAvatars, Kept
  <2>4. MediaAround(w)'
    BY <1>2, <1>3, <2>2, <2>3, MediaUses
  <2> QED BY <1>1, <2>4
<1>9. CASE SetFace(r)
  <2>1. v.pc = "face" /\ w.pc = "gc" /\ Kept(v.path)
    BY <1>1, <1>2, <1>9 DEF SetFace, Goes, MediaAround, MediaFaces
  <2>2. /\ face' \in {face, [face EXCEPT ![v.to] = v.path]}
        /\ UNCHANGED <<asset, file, def, owners>>
    BY <1>1, <1>9 DEF SetFace
  <2>3. DOMAIN face = Owners /\ owners \subseteq Owners
    BY DEF TablesInv, FacesInv, OwnersInv
  <2>4. \A p \in InUseAvatars' : p = v.path \/ p \in InUseAvatars
    BY <2>2, <2>3 DEF InUseAvatars
  <2>5. MediaAround(w)'
    BY <1>2, <1>3, <2>1, <2>2, <2>4, MediaUses
  <2> QED BY <1>1, <2>5
<1> QED
  BY <1>4, <1>5, <1>6, <1>7, <1>8, <1>9

(* Steps on the media library. *)
LEMMA UploadMedia ==
  ASSUME TreeInv, TablesInv, NEW r \in Requests, UNCHANGED removed, MediaAround(req[r]),
         WriteUpload(r) \/ RecordUpload(r) \/ UnwriteUpload(r) \/ GetAsset(r)
  PROVE  MediaAround(req[r])'
<1> USE DEF libVars, treeVars, OnlyReads
<1>1. PICK v, w : v = req[r] /\ w = req'[r]
  OBVIOUS
<1>2. DOMAIN req = Requests /\ MediaRows(v) /\ MediaFaces(v)
  BY <1>1 DEF TreeInv, RequestsInv, MediaAround
<1>3. UNCHANGED InUseAvatars
  BY DEF WriteUpload, RecordUpload, UnwriteUpload, GetAsset, InUseAvatars
<1>4. MediaRows(w)' /\ MediaFaces(w)'
  <2>1. CASE WriteUpload(r)
    <3>1. PICK p \in Paths, c \in Contents : /\ FreshPath(p)
                                             /\ Begins(r, [pc |-> "row", path |-> p, hash |-> c])
                                             /\ file' = file \cup {p}
      BY <2>1 DEF WriteUpload
    <3>2. v.pc = "waiting" /\ w.pc = "row" /\ w.path = p /\ UNCHANGED asset
      BY <1>1, <1>2, <2>1, <3>1 DEF WriteUpload, Begins, Waiting
    <3>3. DOMAIN asset = file /\ p \notin file
      BY <1>2, <3>1, <3>2 DEF MediaRows, FreshPath
    <3>4. MediaRows(w)'
      BY <3>1, <3>2, <3>3 DEF MediaRows
    <3> QED BY <1>2, <1>3, <3>2, <3>4 DEF MediaFaces, Kept
  <2>2. CASE RecordUpload(r)
    <3>1. /\ v.pc = "row" /\ w.pc = "done" /\ DOMAIN asset' = DOMAIN asset \cup {v.path}
          /\ UNCHANGED file
      BY <1>1, <1>2, <2>2 DEF RecordUpload, Served, Done, With
    <3>2. DOMAIN asset' = file'
      BY <1>2, <3>1 DEF MediaRows
    <3> QED BY <1>2, <1>3, <3>1, <3>2 DEF MediaRows, MediaFaces, Kept
  <2>3. CASE UnwriteUpload(r)
    <3>1. v.pc = "row" /\ w.pc = "done" /\ file' = file \ {v.path} /\ UNCHANGED asset
      BY <1>1, <1>2, <2>3 DEF UnwriteUpload, ServedUnchanged, Done
    <3>2. DOMAIN asset' = file'
      BY <1>2, <3>1 DEF MediaRows
    <3> QED BY <1>2, <1>3, <3>1, <3>2 DEF MediaRows, MediaFaces, Kept
  <2>4. CASE GetAsset(r)
    <3>1. PICK p \in DOMAIN asset : Begins(r, [pc |-> "unlink", path |-> p, why |-> "user"])
      BY <2>4 DEF GetAsset
    <3>2. /\ v.pc = "waiting" /\ w.pc = "unlink" /\ w.path = p /\ w.why = "user"
          /\ UNCHANGED <<asset, file>>
      BY <1>1, <1>2, <2>4, <3>1 DEF GetAsset, Begins, Waiting
    <3>3. DOMAIN asset = file
      BY <1>2, <3>2 DEF MediaRows
    <3> QED BY <1>2, <1>3, <3>1, <3>2, <3>3 DEF MediaRows, MediaFaces, Kept
  <2> QED BY <2>1, <2>2, <2>3, <2>4
<1> QED
  BY <1>1, <1>4 DEF MediaAround

LEMMA DeleteMedia ==
  ASSUME TreeInv, TablesInv, NEW r \in Requests, MediaAround(req[r]),
         \/ (UnlinkAsset(r) \/ CheckAvatar(r)) /\ UNCHANGED removed
         \/ DropAsset(r)
  PROVE  MediaAround(req[r])'
<1> USE DEF libVars, treeVars, OnlyReads
<1>1. PICK v, w : v = req[r] /\ w = req'[r]
  OBVIOUS
<1>2. DOMAIN req = Requests /\ MediaRows(v) /\ MediaFaces(v) /\ TablesHeld(v)
  BY <1>1 DEF TreeInv, RequestsInv, MediaAround, TablesInv, HeldInv
<1>3. UNCHANGED InUseAvatars
  BY DEF UnlinkAsset, DropAsset, CheckAvatar, InUseAvatars
<1>4. MediaRows(w)' /\ MediaFaces(w)'
  <2>1. CASE UnlinkAsset(r) /\ UNCHANGED removed
    <3>1. /\ v.pc = "unlink" /\ w = [v EXCEPT !.pc = "droprow"] /\ file' = file \ {v.path}
          /\ UNCHANGED asset
      BY <1>1, <1>2, <2>1 DEF UnlinkAsset
    <3>2. v = [pc |-> "unlink", path |-> v.path, why |-> v.why]
      BY <1>2, <3>1 DEF TablesHeld
    <3>3. w.pc = "droprow" /\ w.path = v.path /\ w.why = v.why
      BY <3>1, <3>2
    <3>4. DOMAIN asset = file /\ v.path \in file
      BY <1>2, <3>1 DEF MediaRows, MediaFaces
    <3>5. v.why = "user" \/ v.path \notin InUseAvatars
      BY <1>2, <3>1 DEF MediaFaces
    <3>6. MediaRows(w)'
      BY <3>1, <3>3, <3>4 DEF MediaRows
    <3> QED BY <1>2, <1>3, <2>1, <3>1, <3>3, <3>5, <3>6 DEF MediaFaces, Kept
  <2>2. CASE DropAsset(r)
    <3>1. /\ v.pc = "droprow" /\ w.pc = "done" /\ DOMAIN asset' = DOMAIN asset \ {v.path}
          /\ UNCHANGED file
          /\ removed' = IF v.why = "user" THEN removed \cup {v.path} ELSE removed
      BY <1>1, <1>2, <2>2 DEF DropAsset, Served, Done
    <3>2. DOMAIN asset' = file'
      BY <1>2, <3>1 DEF MediaRows
    <3>3. v.why = "user" \/ v.path \notin InUseAvatars
      BY <1>2, <3>1 DEF MediaFaces
    <3>4. \A p \in InUseAvatars' : Kept(p)'
      BY <1>2, <1>3, <3>1, <3>3 DEF MediaFaces, Kept
    <3> QED BY <3>1, <3>2, <3>4 DEF MediaRows, MediaFaces
  <2>3. CASE CheckAvatar(r) /\ UNCHANGED removed
    <3>1. /\ v.pc = "gc" /\ UNCHANGED <<asset, file>>
          /\ \/ w.pc = "done"
             \/ /\ w.pc = "unlink" /\ w.path = v.path
                /\ ~Referenced(v.path) /\ v.path \in DOMAIN asset
      BY <1>1, <1>2, <2>3 DEF CheckAvatar, Done
    <3>2. DOMAIN asset = file
      BY <1>2, <3>1 DEF MediaRows
    <3>3. w.pc = "unlink" => w.path \in file /\ w.path \notin InUseAvatars
      BY <3>1, <3>2 DEF Referenced, InUseAvatars
    <3> QED BY <1>2, <1>3, <2>3, <3>1, <3>2, <3>3 DEF MediaRows, MediaFaces, Kept
  <2> QED BY <2>1, <2>2, <2>3
<1> QED
  BY <1>1, <1>4 DEF MediaAround

LEMMA ImportMedia ==
  ASSUME TreeInv, TablesInv, NEW r \in Requests, UNCHANGED removed, MediaAround(req[r]),
         ImportAssets(r) \/ Import(r)
  PROVE  MediaAround(req[r])'
<1>1. PICK v, w : v = req[r] /\ w = req'[r]
  OBVIOUS
<1>2. DOMAIN req = Requests /\ MediaRows(v) /\ MediaFaces(v)
  BY <1>1 DEF TreeInv, RequestsInv, MediaAround
<1>3. CASE ImportAssets(r)
  <2>1. PICK o \in (Templates \cup Packs) \ (owners \cup spent), c \in Contents, bundled \in BOOLEAN :
          LET same == {p \in DOMAIN asset : asset[p] = c} IN
            \E p \in IF o \in Templates \/ ~bundled THEN {NoPath}
                     ELSE IF same # {} THEN same ELSE {q \in Paths : FreshPath(q)}, b \in Bundles :
              /\ Begins(r, [pc |-> "import", to |-> o, path |-> p, hash |-> c, tree |-> b,
                            new |-> p # NoPath /\ same = {}])
              /\ file' = IF p = NoPath THEN file ELSE file \cup (IF same = {} THEN {p} ELSE {})
    BY <1>3 DEF ImportAssets
  <2>2. PICK same : same = {p \in DOMAIN asset : asset[p] = c}
    OBVIOUS
  <2>3. PICK p \in IF o \in Templates \/ ~bundled THEN {NoPath}
                   ELSE IF same # {} THEN same ELSE {q \in Paths : FreshPath(q)}, b \in Bundles :
          /\ Begins(r, [pc |-> "import", to |-> o, path |-> p, hash |-> c, tree |-> b,
                        new |-> p # NoPath /\ same = {}])
          /\ file' = IF p = NoPath THEN file ELSE file \cup (IF same = {} THEN {p} ELSE {})
    BY <2>1, <2>2
  <2>4. PICK new \in BOOLEAN : new = (p # NoPath /\ same = {})
    OBVIOUS
  <2>5. v.pc = "waiting" /\ w.pc = "import" /\ w.path = p /\ w.new = new
    BY <1>1, <1>2, <2>3, <2>4 DEF Begins, Waiting
  <2>6. DOMAIN asset = file /\ UNCHANGED <<asset, InUseAvatars>>
    BY <1>2, <1>3, <2>5 DEF MediaRows, ImportAssets, treeVars, InUseAvatars
  <2>7. CASE new
    <3>1. p \notin file /\ file' = file \cup {p}
      BY <2>3, <2>4, <2>7 DEF FreshPath
    <3>2. MediaRows(w)'
      BY <2>5, <2>6, <2>7, <3>1 DEF MediaRows
    <3> QED BY <1>1, <1>2, <2>5, <2>6, <2>7, <3>2 DEF MediaAround, MediaFaces, Kept
  <2>8. CASE ~new
    <3>1. file' = file /\ Kept(p)
      BY <2>2, <2>3, <2>4, <2>8 DEF Kept
    <3>2. MediaRows(w)'
      BY <2>5, <2>6, <2>8, <3>1 DEF MediaRows
    <3> QED BY <1>1, <1>2, <2>5, <2>6, <2>8, <3>1, <3>2 DEF MediaAround, MediaFaces, Kept
  <2> QED BY <2>7, <2>8
<1>4. CASE Import(r)
  <2>1. v.pc = "import" /\ w.pc = "done"
    BY <1>1, <1>2, <1>4 DEF Import, Served, Done
  <2>2. PICK d, row : def' = With(def, d, row) /\ row.avatar = v.path
    <3>1. PICK d \in Defs \ (DOMAIN def \cup spent), t \in Types \cup {Reserved}, x \in Values :
            def' = With(def, d, Definition(t, x, x, v.path))
      BY <1>1, <1>4 DEF Import
    <3>2. PICK row : row = Definition(t, x, x, v.path)
      OBVIOUS
    <3>3. row.avatar = v.path
      BY <3>2 DEF Definition
    <3> QED BY <3>1, <3>2, <3>3
  <2>3. /\ owners' = owners \cup {v.to} /\ face' = [face EXCEPT ![v.to] = v.path]
        /\ asset' = IF v.new THEN With(asset, v.path, v.hash) ELSE asset
        /\ UNCHANGED file
    BY <1>1, <1>4 DEF Import
  <2>4. DOMAIN asset' = IF v.new THEN DOMAIN asset \cup {v.path} ELSE DOMAIN asset
    BY <2>3 DEF With
  <2>5. DOMAIN asset' = file'
    BY <1>2, <2>1, <2>3, <2>4 DEF MediaRows
  <2>6. Kept(v.path)'
    BY <1>2, <2>1, <2>4 DEF MediaFaces, Kept
  <2>7. v.to \in Owners /\ DOMAIN face = Owners /\ owners \subseteq Owners
    BY <1>1, <2>1 DEF TreeInv, RequestsInv, TreeHeld, TablesInv, FacesInv, OwnersInv, Owners
  <2>8. \A p \in InUseAvatars' : p = v.path \/ p \in InUseAvatars
    BY <2>2, <2>3, <2>7 DEF InUseAvatars, With
  <2>9. \A p \in InUseAvatars' : Kept(p)'
    BY <1>2, <2>4, <2>6, <2>8 DEF MediaFaces, Kept
  <2> QED BY <1>1, <2>1, <2>5, <2>9 DEF MediaAround, MediaRows, MediaFaces
<1> QED
  BY <1>3, <1>4

LEMMA MediaStart == Init => MediaInv
<1> SUFFICES ASSUME Init PROVE MediaInv
  OBVIOUS
<1>1. PICK s \in Seeds : /\ def = s.def /\ owners = s.owners /\ face = s.face /\ asset = s.asset
                         /\ file = DOMAIN s.asset /\ SoundDatabase(s)
  BY DEF Init
<1>2. \A r \in Requests : req[r] = Waiting
  BY DEF Init
<1>3. MediaAround(Waiting)
  BY <1>1 DEF MediaAround, MediaRows, MediaFaces, Waiting, InUseAvatars, Kept, SoundDatabase
<1> QED
  BY <1>2, <1>3 DEF MediaInv, InFlight, Waiting

LEMMA MediaKeeps == TreeInv /\ TablesInv /\ MediaInv /\ [Next]_vars => MediaInv'
<1> SUFFICES ASSUME TreeInv, TablesInv, MediaInv, [Next]_vars PROVE MediaInv'
  OBVIOUS
<1>1. CASE UNCHANGED vars
  <2>1. UNCHANGED <<req, def, owners, face, asset, file, removed, alone>>
    BY <1>1 DEF vars, treeVars, libVars
  <2>2. \A w : MediaAround(w)' <=> MediaAround(w)
    BY <2>1 DEF MediaAround, MediaRows, MediaFaces, Kept, InUseAvatars
  <2> QED BY <2>1, <2>2 DEF MediaInv, InFlight
<1>2. CASE Next
  <2>1. PICK r \in Requests :
          \/ Step(r) /\ alone' = (alone /\ \A k \in Requests \ {r} : ~InFlight(k))
          \/ Drop(r) /\ alone' = FALSE /\ UNCHANGED <<libVars, removed>>
    BY <1>2 DEF Next
  <2>2. CASE alone' = FALSE
    BY <2>2 DEF MediaInv
  <2>3. CASE Step(r) /\ alone' = (alone /\ \A k \in Requests \ {r} : ~InFlight(k))
    <3>1. ASSUME MediaAround(req[r]) PROVE MediaAround(req[r])'
      <4>1. CASE TreeStep(r) /\ UNCHANGED <<libVars, removed>>
        BY <3>1, <4>1, QuietSteps, OwnerMedia DEF TreeStep, QuietTreeStep
      <4>2. CASE DropAsset(r)
        BY <3>1, <4>2, DeleteMedia
      <4>3. CASE ~(TreeStep(r) /\ UNCHANGED <<libVars, removed>>) /\ ~DropAsset(r)
        BY <2>3, <3>1, <4>3, QuietSteps, DefinitionMedia, OwnerMedia, UploadMedia, DeleteMedia,
           ImportMedia DEF Step, QuietStep
      <4> QED BY <4>1, <4>2, <4>3
    <3> QED BY <2>3, <3>1, MediaTurns
  <2> QED BY <2>1, <2>2, <2>3
<1> QED
  BY <1>1, <1>2

LEMMA MediaAlways == Spec => []MediaInv
BY MediaStart, MediaKeeps, TreeAlways, TablesAlways, PTL DEF Spec

(* Between requests that never overlapped and were never cut short, rows   *)
(* and files agree, and an avatar somebody uses is there unless a user     *)
(* deleted it: neither upload, import, replacement nor collection loses    *)
(* one or leaves one behind.                                               *)
THEOREM MediaIntactHolds == Spec => []MediaIntact
<1>1. MediaInv => MediaIntact
  BY DEF MediaInv, MediaIntact, MediaAround, MediaRows, MediaFaces, Waiting, Kept
<1> QED
  BY <1>1, MediaAlways, PTL
=============================================================================
