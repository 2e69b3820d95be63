------------------------------- MODULE Portable ------------------------------
(***************************************************************************)
(* Bundles: templates and packs leave as one document and come back as     *)
(* new rows (shirita-core/src/portable.rs; shirita-web/src/routes/         *)
(* import_export.rs and the exports of packs.rs).                          *)
(*                                                                         *)
(* nodes is a tree in table order, a node names its parent by its place;   *)
(* defs is a function from ids to definitions.  In a document a node and a *)
(* definition have local ids, here their places in the document's lists.   *)
(* A definition's refs are the /assets/ paths of its text, its avatar is a *)
(* path or "".  Stored files are a function from paths to their bytes.     *)
(***************************************************************************)
EXTENDS Integers, SequencesExt

NoRef == 0
NoPathHere == ""

-----------------------------------------------------------------------------
(* Export. *)

\* mutant
FilterEnabledSelfOnly(nodes) == SelectSeq(nodes, LAMBDA n : n.on)

(* A node is kept when it and all its ancestors are enabled; the walk ends *)
(* on a cycle, and keeps nothing of it.                                    *)
FilterEnabled(nodes) ==
  LET Up(i) == IF nodes[i].parent \in DOMAIN nodes THEN nodes[i].parent ELSE 0
      above[k \in 0..Len(nodes), i \in 0..Len(nodes)] ==
        IF k = 0 \/ i = 0 THEN i ELSE above[k - 1, Up(i)]
      kept(i) == /\ above[Len(nodes), i] = 0
                 /\ \A k \in 0..Len(nodes) : above[k, i] # 0 => nodes[above[k, i]].on
  IN  SelectSeq(nodes, LAMBDA n : kept(n.id))

(* inline_subtree: a ref whose definition is gone is skipped; the others'  *)
(* definitions are listed once each.  A parent that was not kept is none.  *)
Inlined(kept, defs) ==
  LET sound == SelectSeq(kept, LAMBDA n : n.kind = "ref" => n.def \in DOMAIN defs)
      used == FoldLeft(LAMBDA ds, n : IF n.kind # "ref" \/ n.def \in ToSet(ds) THEN ds
                                      ELSE Append(ds, n.def), <<>>, sound)
      Lid(id) == SelectInSeq(kept, LAMBDA n : n.id = id)
  IN  [nodes |-> [i \in DOMAIN sound |->
                    [sound[i] EXCEPT !.id = Lid(@), !.parent = Lid(@),
                                     !.def = SelectInSeq(used, LAMBDA d : d = sound[i].def)]],
       defs |-> [i \in DOMAIN used |-> defs[used[i]]]]

(* A template leaves with what is switched on, a pack with everything.     *)
ExportTemplate(nodes, defs) == [face |-> NoPathHere] @@ Inlined(FilterEnabled(nodes), defs)
ExportPack(face, nodes, defs) == [face |-> face] @@ Inlined(nodes, defs)

-----------------------------------------------------------------------------
(* The files of a pack: its face, the avatars of its definitions, and what *)
(* html and css point at.  Other texts are never scanned.                  *)

Marked(d) == d.type \in {"html", "css"}

CollectPackAssets(doc) ==
  LET paths == <<doc.face>> \o FlattenSeq([i \in DOMAIN doc.defs |->
                 <<doc.defs[i].avatar>> \o (IF Marked(doc.defs[i]) THEN doc.defs[i].refs ELSE <<>>)])
  IN  FoldLeft(LAMBDA out, p : IF p = NoPathHere \/ p \in ToSet(out) THEN out ELSE Append(out, p),
               <<>>, paths)

(* What is not in the map is blanked. *)
RewritePackAssets(doc, map) ==
  LET New(p) == IF p \in DOMAIN map THEN map[p] ELSE NoPathHere
      Def(d) == [d EXCEPT !.avatar = New(@),
                          !.refs = IF ~Marked(d) THEN @
                                   ELSE SelectSeq([i \in DOMAIN @ |-> New(@[i])],
                                                  LAMBDA p : p # NoPathHere)]
  IN  [doc EXCEPT !.face = New(@), !.defs = [i \in DOMAIN @ |-> Def(@[i])]]

(* The files of the zip that the document names: bytes that are stored     *)
(* already are reused, others get a fresh path.                            *)
Restored(doc, zip, files, fresh) ==
  LET One(acc, p) ==
        LET same == {q \in DOMAIN acc.files : acc.files[q] = zip[p]}
        IN  IF p \notin DOMAIN zip THEN acc
            ELSE IF same # {} THEN [acc EXCEPT !.map = (p :> CHOOSE q \in same : TRUE) @@ @]
            ELSE [files |-> (Head(acc.left) :> zip[p]) @@ acc.files,
                  map |-> (p :> Head(acc.left)) @@ acc.map, left |-> Tail(acc.left)]
  IN  FoldLeft(One, [files |-> files, map |-> <<>>, left |-> fresh], CollectPackAssets(doc))

-----------------------------------------------------------------------------
(* Import. *)

(* Parents before children, layer by layer.  A ref without its definition  *)
(* is left out, a parent that is not in the document makes a root, and     *)
(* what hangs on a cycle is never reached.                                 *)
ParentFirst(doc) ==
  LET ids == {doc.nodes[i].id : i \in DOMAIN doc.nodes}
      Ready(done, n) == n.parent \notin ids \/ n.parent \in done
      Lacks(n) == n.kind = "ref" /\ n.def \notin DOMAIN doc.defs
      Take(acc, n) == IF n.id \in acc.done \/ ~Ready(acc.done, n) THEN acc
                      ELSE [done |-> acc.done \cup {n.id},
                            out |-> IF Lacks(n) THEN acc.out ELSE Append(acc.out, n)]
      Layer(acc, k) == FoldLeft(Take, acc, doc.nodes)
  IN  FoldLeft(Layer, [done |-> {}, out |-> <<>>], doc.nodes).out

(* The rows that one transaction stores, places for ids again: it fails    *)
(* as a whole when a node's parent was left out.                           *)
Rejected == [nodes |-> <<"rejected">>, defs |-> <<>>]

Imported(doc) ==
  LET out == ParentFirst(doc)
      Place(id) == SelectInSeq(out, LAMBDA n : n.id = id)
      ids == {doc.nodes[i].id : i \in DOMAIN doc.nodes}
  IN  IF \E i \in DOMAIN out : out[i].parent \in ids /\ Place(out[i].parent) = 0 THEN Rejected
      ELSE [nodes |-> [i \in DOMAIN out |-> [out[i] EXCEPT !.id = i, !.parent = Place(@)]],
            defs |-> doc.defs]

ImportPack(doc, zip, files, fresh) ==
  LET restored == Restored(doc, zip, files, fresh)
      written == RewritePackAssets(doc, restored.map)
  IN  [face |-> written.face, files |-> restored.files] @@ Imported(written)

(* persist_defs: blank definitions are dropped unless their payload is     *)
(* elsewhere; one of the same name and type is kept, overwritten in place  *)
(* or joined by a second one.                                              *)
Anchors(d) == \/ d.type \in {"regex_rule", "first_message"}
              \/ d.type \in {"char", "persona"} /\ (d.name # "" \/ d.avatar # NoPathHere)

PersistDef(table, d, onConflict, id) ==
  LET same == {k \in DOMAIN table : table[k].name = d.name /\ table[k].type = d.type}
  IN  IF d.blank /\ ~Anchors(d) THEN table
      ELSE IF same = {} \/ onConflict = "duplicate" THEN (id :> d) @@ table
      ELSE IF onConflict = "overwrite" THEN [table EXCEPT ![CHOOSE k \in same : TRUE] = d]
      ELSE table
=============================================================================
