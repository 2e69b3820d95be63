----------------------------- MODULE MessageTree ----------------------------
(***************************************************************************)
(* The message tree of a session: the pure helpers of shirita-core/src/    *)
(* tree.rs and the storage's view of parents and subtrees.                 *)
(*                                                                         *)
(* A tree is a function from the ids of the stored messages to records     *)
(* with at least a field parent; NoMsg stands for a NULL parent_id.  Ids   *)
(* are positive numbers in order of creation, so they carry what           *)
(* created_at is used for: a parent is older than its children, and the    *)
(* newest of some messages is the one with the greatest id.                *)
(***************************************************************************)
EXTENDS Naturals, Sequences, FiniteSetsExt

NoMsg == 0

Newest(ids) == IF ids = {} THEN NoMsg ELSE Max(ids)

(* The messages from the root down to m, m last; empty if m is unknown. *)
PathTo(t, m) ==
  LET up[k \in 0 .. m] == IF k \in DOMAIN t THEN Append(up[t[k].parent], k)
                                            ELSE << >>
  IN  up[m]

(* active_path: an unknown or absent leaf falls back to the newest message. *)
ActivePath(t, leaf) ==
  PathTo(t, IF leaf \in DOMAIN t THEN leaf ELSE Newest(DOMAIN t))

Last0(path) == IF path = << >> THEN NoMsg ELSE path[Len(path)]

Children(t, m) == {k \in DOMAIN t : t[k].parent = m}

(* deepest_leaf: follow the newest child until there is none. *)
DeepestLeaf(t, m) ==
  LET down[k \in DOMAIN t] == IF Children(t, k) = {} THEN k
                                ELSE down[Newest(Children(t, k))]
  IN  down[m]

(* m and everything below it. *)
Subtree(t, m) == {k \in DOMAIN t : m \in Range(PathTo(t, k))}

(* What ON DELETE CASCADE leaves of t when the rows ids are deleted. *)
Without(t, ids) ==
  Restrict(t, {k \in DOMAIN t : Range(PathTo(t, k)) \cap ids = {}})

(* The foreign key of messages.parent_id, with ids in creation order. *)
ParentsExist(t) == \A k \in DOMAIN t :
  t[k].parent = NoMsg \/ (t[k].parent \in DOMAIN t /\ t[k].parent < k)

(* The position in path of the latest cutoff that lies on it, 0 if none.   *)
AppliedAt(cutoffs, path) ==
  Newest({i \in DOMAIN path : path[i] \in cutoffs})
=============================================================================
