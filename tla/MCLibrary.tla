----------------------------- MODULE MCLibrary -----------------------------
EXTENDS Library, TLC

CONSTANTS r1, r2, t1, t2, p1, p2, p3, s1, s2, d1, d2, d3, f1, f2, c1, c2, custom

MCTemplates == {t1, t2}
MCPacks == {p1, p2, p3}
MCSessions == {s1, s2}
Symmetry == Permutations({r1, r2})

(* One: a template whose folder comes after its member in table order, two *)
(* packs, a session that uses the template; d1 is shared, d2 is not.       *)
(* Two: the session has its own copy of the template by now.               *)
One == [
  node |-> (1 :> Row(t1, Root, 1, "folder", NoDef, NoOwner)) @@ (2 :> Row(t1, 1, 0, "ref", d1, NoOwner))
        @@ (3 :> Row(p1, Root, 0, "ref", d2, NoOwner)) @@ (4 :> Row(p2, Root, 0, "ref", d1, NoOwner)),
  def |-> (d1 :> Definition(custom, 0, 0, NoPath)) @@ (d2 :> Definition(Reserved, 0, 0, f1)),
  owners |-> {t1, p1, p2, s1},
  uses |-> [s \in MCSessions |-> IF s = s1 THEN t1 ELSE NoOwner],
  face |-> [o \in MCTemplates \cup MCPacks \cup MCSessions |-> IF o = p1 THEN f1 ELSE NoPath],
  types |-> {custom},
  patch |-> [s \in MCSessions |-> IF s = s1 THEN d2 :> [trig |-> 1] ELSE NoPatch],
  asset |-> (f1 :> c1)]
Two == [One EXCEPT
  !.node = @ @@ (5 :> Row(s1, Root, 1, "folder", NoDef, t1)) @@ (6 :> Row(s1, 5, 0, "ref", d1, t1)),
  !.patch = [s \in MCSessions |-> NoPatch]]
MCSeeds == {One, Two}

(* A folder with a ref; folders in one another, the ref before its folder  *)
(* in table order; a folder below a ref.                                   *)
BundleRow(parent, ord, kind) == [parent |-> parent, ord |-> ord, kind |-> kind]
MCBundles == {
  <<BundleRow(0, 0, "folder"), BundleRow(1, 0, "ref")>>,
  <<BundleRow(0, 0, "folder"), BundleRow(1, 1, "folder"), BundleRow(2, 0, "ref")>>,
  <<BundleRow(0, 0, "ref"), BundleRow(1, 0, "folder")>>}
=============================================================================
