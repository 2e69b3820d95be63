------------------------------- MODULE Library ------------------------------
(***************************************************************************)
(* What templates, packs and sessions share: definitions and their types,  *)
(* a session's patches over definitions, the media library, and the        *)
(* deletion and import of whole packs and templates, beside the tree       *)
(* operations of PromptTrees (shirita-web/src/routes/definitions.rs,       *)
(* types.rs, local_overrides.rs, assets.rs, packs.rs, templates.rs,        *)
(* import_export.rs, sessions.rs; shirita-core/src/storage/sqlite.rs).     *)
(*                                                                         *)
(* A definition's texts are two fields with values in Values: content      *)
(* (name goes with it) and trigger (scan goes with it).  A path names an   *)
(* upload in the assets directory; content tells equal uploads apart from  *)
(* others (the hash column).  A bundle is the tree of a document that is   *)
(* imported, of any depth, its rows in the order in which they are         *)
(* inserted.                                                               *)
(*                                                                         *)
(* removed, alone and deep are history: the uploads that a user deleted,   *)
(* whether no two requests have overlapped and none was cut short, and the *)
(* owners that were given a tree of more than two levels, by an import or  *)
(* by a copy of such a tree.                                               *)
(***************************************************************************)
EXTENDS PromptTrees, Sequences

CONSTANTS Types,      \* container types beside the reserved ones
          Reserved,   \* stands for the reserved types
          Values, Paths, Contents,
          Bundles,    \* trees to import: sequences of [parent, ord, kind]
          Seeds       \* databases to begin with

VARIABLES types,      \* table def_types: the types registered by users
          patch,      \* override_config.local_definitions: session -> id -> fields
          asset,      \* table assets: path -> hash
          file,       \* the assets directory: paths
          removed, alone, deep

libVars == <<types, patch, asset, file>>
vars == <<req, treeVars, libVars, removed, alone, deep>>

OnlyReads == UNCHANGED <<treeVars, libVars>>
(* f with k mapped to v, whether or not it was there. *)
With(f, k, v) == [x \in DOMAIN f \cup {k} |-> IF x = k THEN v ELSE f[x]]
Begins(r, w) == req[r] = Waiting /\ req' = [req EXCEPT ![r] = w]

Definition(t, text, trig, avatar) == [type |-> t, text |-> text, trig |-> trig, avatar |-> avatar]
NoPatch == <<>>

Kinds == {"folder", "ref", "content", "history"}

(* The rows of prompt_nodes, in a table with these nodes and definitions,  *)
(* those of definitions, and a patch over one of them.                     *)
NodeRows(nodes, defs, last) ==
  [owner : Owners, parent : {Root} \cup nodes, ord : 0 .. last,
   kind : Kinds, def : {NoDef} \cup defs,
   on : BOOLEAN, src : {NoOwner} \cup Templates \cup Packs]
DefRows == [type : Types \cup {Reserved}, text : Values, trig : Values,
            avatar : Paths \cup {NoPath}]
PatchRows == UNION {[fields -> Values] : fields \in SUBSET {"text", "trig"}}

(* The tree that enforce_two_level lets users build: everything stands at  *)
(* the root or is a ref in a folder there.                                 *)
Shallow(rows, n) ==
  \/ rows[n].parent = Root
  \/ LET p == rows[n].parent IN
       p \in DOMAIN rows /\ rows[p].parent = Root /\ rows[p].kind = "folder" /\ rows[n].kind = "ref"
InTwoLevels(rows) == \A n \in DOMAIN rows : Shallow(rows, n)

(* A parent is a row of the same tree. *)
WithinOwner(rows) == \A n \in DOMAIN rows :
  rows[n].parent # Root => /\ rows[n].parent \in DOMAIN rows
                           /\ rows[rows[n].parent].owner = rows[n].owner

(* Ids are not shared between tables, and the databases to begin with are  *)
(* sound (an empty one is).                                               *)
SoundDatabase(s) ==
  LET last == Cardinality(DOMAIN s.node) IN
    /\ IsFiniteSet(DOMAIN s.node)
    /\ s.node \in [1 .. last -> NodeRows(1 .. last, DOMAIN s.def, last)]
    /\ InTwoLevels(s.node) /\ WithinOwner(s.node)
    /\ DOMAIN s.def \subseteq Defs /\ \A d \in DOMAIN s.def : s.def[d] \in DefRows
    /\ s.owners \subseteq Owners
    /\ s.uses \in [Sessions -> {NoOwner} \cup (Templates \cap s.owners)]
    /\ DOMAIN s.patch = Sessions
    /\ \A k \in Sessions : /\ DOMAIN s.patch[k] \subseteq Defs
                            /\ \A d \in DOMAIN s.patch[k] : s.patch[k][d] \in PatchRows
    /\ s.types \subseteq Types /\ DOMAIN s.asset \subseteq Paths
    /\ DOMAIN s.face = Owners /\ \A t \in Templates : s.face[t] = NoPath
    /\ \A o \in s.owners : s.face[o] \in {NoPath} \cup DOMAIN s.asset
    /\ \A d \in DOMAIN s.def : s.def[d].avatar \in {NoPath} \cup DOMAIN s.asset

(* Parents come before their children; positions are counted in the bundle. *)
SoundBundle(b) == \A i \in DOMAIN b : /\ b[i].parent \in 0 .. i - 1
                                      /\ b[i].ord \in 0 .. Len(b)
                                      /\ b[i].kind \in Kinds

ASSUME BundlesAssumption == /\ Bundles \subseteq Seq([parent : Nat, ord : Nat, kind : Kinds])
                            /\ \A b \in Bundles : SoundBundle(b)

ASSUME LibraryAssumption == /\ Defs \cap Owners = {} /\ Paths \cap (Defs \cup Owners) = {}
                            /\ \A s \in Seeds : SoundDatabase(s)

-----------------------------------------------------------------------------
(* Definitions and their types. *)

(* validate_type, before the row is stored; create_definition has no id yet. *)
ValidateDefinition(r) ==
  /\ \E d \in DOMAIN def \cup {NoDef}, t \in types \cup {Reserved}, v \in Values,
        p \in DOMAIN asset \cup {NoPath} :
       Begins(r, [pc |-> "store", id |-> d, row |-> Definition(t, v, v, p)])
  /\ OnlyReads

(* create_definition makes a new id; update_definition finds its row or    *)
(* answers that there is none.                                             *)
StoreDefinition(r) ==
  /\ req[r].pc = "store"
  /\ \E d \in IF req[r].id = NoDef THEN Defs \ (DOMAIN def \cup spent) ELSE {req[r].id} \cap DOMAIN def :
       def' = With(def, d, req[r].row)
  /\ req' = Served(r)
  /\ UNCHANGED <<node, owners, uses, face, lastId, spent, libVars>>

DeleteDefinition(r) ==
  /\ req[r] = Waiting
  /\ \E d \in DOMAIN def : /\ def' = [k \in DOMAIN def \ {d} |-> def[k]]
                           /\ node' = Unlinked(node, {d})
                           /\ spent' = spent \cup {d}
  /\ req' = Served(r)
  /\ UNCHANGED <<owners, uses, face, lastId, libVars>>

CreateType(r) ==
  /\ req[r] = Waiting
  /\ \E t \in Types \ types : types' = types \cup {t}
  /\ req' = Served(r)
  /\ UNCHANGED <<treeVars, patch, asset, file>>

(* types::delete: refused while a definition has the type. *)
InUse(t) == \E d \in DOMAIN def : def[d].type = t

ListType(r) ==
  /\ \E t \in types : ~InUse(t) /\ Begins(r, [pc |-> "droptype", id |-> t])
  /\ OnlyReads

DeleteType(r) ==
  /\ req[r].pc = "droptype"
  /\ types' = types \ {req[r].id}
  /\ req' = Served(r)
  /\ UNCHANGED <<treeVars, patch, asset, file>>

-----------------------------------------------------------------------------
(* A session's patches over definitions. *)

(* json_patch: a field of the new patch replaces the old one's, others stay. *)
Merged(old, new) ==
  [f \in DOMAIN old \cup DOMAIN new |-> IF f \in DOMAIN new THEN new[f] ELSE old[f]]

Fields(v) == {[text |-> v], [trig |-> v], [text |-> v, trig |-> v]}

EnsureSession(r) ==
  /\ \E s \in Sessions \cap owners, d \in Defs, f \in {NoPatch} \cup UNION {Fields(v) : v \in Values} :
       Begins(r, [pc |-> "patch", to |-> s, id |-> d, fields |-> f])
  /\ OnlyReads

(* set_local_definition, and clear_local_definition (no fields). *)
StorePatch(r) ==
  /\ req[r].pc = "patch"
  /\ LET s == req[r].to
         d == req[r].id
         old == IF d \in DOMAIN patch[s] THEN patch[s][d] ELSE NoPatch
         rest == [k \in DOMAIN patch[s] \ {d} |-> patch[s][k]]
     IN patch' = IF s \notin owners THEN patch
                 ELSE [patch EXCEPT ![s] = IF req[r].fields = NoPatch THEN rest
                                           ELSE With(rest, d, Merged(old, req[r].fields))]
  /\ req' = Served(r)
  /\ UNCHANGED <<treeVars, types, asset, file>>

(* promote_local_definition reads the session, then the definition. *)
PromotePatch(r) ==
  /\ \E s \in Sessions \cap owners : \E d \in DOMAIN patch[s] :
       Begins(r, [pc |-> "base", to |-> s, id |-> d, fields |-> patch[s][d]])
  /\ OnlyReads

PromoteBase(r) ==
  /\ req[r].pc = "base"
  /\ req[r].id \in DOMAIN def
  /\ req' = [req EXCEPT ![r] = [pc |-> "promote", to |-> req[r].to, id |-> req[r].id,
                                fields |-> req[r].fields, base |-> def[req[r].id]]]
  /\ OnlyReads

(* The definition as the session sees it: its patch over the row. *)
Over(row, fields) == [k \in DOMAIN row |-> IF k \in DOMAIN fields THEN fields[k] ELSE row[k]]
FoldContentOnly(row, fields) ==                                     \* mutant
  [row EXCEPT !.text = IF "text" \in DOMAIN fields THEN fields.text ELSE @]
Folded(row, fields) == Over(row, fields)

(* The row and the patch in one transaction. *)
Promote(r) ==
  /\ req[r].pc = "promote"
  /\ LET s == req[r].to
         d == req[r].id
     IN /\ def' = [k \in DOMAIN def |-> IF k = d THEN Folded(req[r].base, req[r].fields) ELSE def[k]]
        /\ patch' = [patch EXCEPT ![s] = [k \in DOMAIN patch[s] \ {d} |-> patch[s][k]]]
  /\ req' = Served(r)
  /\ UNCHANGED <<node, owners, uses, face, lastId, spent, types, asset, file>>

-----------------------------------------------------------------------------
(* The media library. *)

FreshPath(p) == p \notin DOMAIN asset \cup file \cup spent

(* upload: the file, then its row. *)
WriteUpload(r) ==
  /\ \E p \in Paths, c \in Contents :
       /\ FreshPath(p)
       /\ Begins(r, [pc |-> "row", path |-> p, hash |-> c])
       /\ file' = file \cup {p}
  /\ UNCHANGED <<treeVars, types, patch, asset>>

RecordUpload(r) ==
  /\ req[r].pc = "row"
  /\ asset' = With(asset, req[r].path, req[r].hash)
  /\ req' = Served(r)
  /\ UNCHANGED <<treeVars, types, patch, file>>

(* create_asset failed: the file is taken back. *)
UnwriteUpload(r) ==
  /\ req[r].pc = "row"
  /\ file' = file \ {req[r].path}
  /\ req' = ServedUnchanged(r)
  /\ UNCHANGED <<treeVars, types, patch, asset>>

(* assets::delete does not ask who uses the asset. *)
GetAsset(r) ==
  /\ \E p \in DOMAIN asset : Begins(r, [pc |-> "unlink", path |-> p, why |-> "user"])
  /\ OnlyReads

UnlinkAsset(r) ==
  /\ req[r].pc = "unlink"
  /\ file' = file \ {req[r].path}
  /\ req' = [req EXCEPT ![r] = [@ EXCEPT !.pc = "droprow"]]
  /\ UNCHANGED <<treeVars, types, patch, asset>>

DropAsset(r) ==
  /\ req[r].pc = "droprow"
  /\ asset' = [p \in DOMAIN asset \ {req[r].path} |-> asset[p]]
  /\ spent' = spent \cup {req[r].path}
  /\ removed' = IF req[r].why = "user" THEN removed \cup {req[r].path} ELSE removed
  /\ req' = Served(r)
  /\ UNCHANGED <<node, def, owners, uses, face, lastId, types, patch, file>>

(* is_avatar_referenced: packs, definitions and sessions. *)
FacesOnly(p) == \E o \in owners : face[o] = p                       \* mutant
Referenced(p) == \/ \E o \in owners : face[o] = p
                 \/ \E d \in DOMAIN def : def[d].avatar = p

(* gc_avatar_if_orphaned: two reads, then the file and the row. *)
CheckAvatar(r) ==
  /\ req[r].pc = "gc"
  /\ req' = IF req[r].path = NoPath \/ Referenced(req[r].path) \/ req[r].path \notin DOMAIN asset
            THEN [req EXCEPT ![r] = Done]
            ELSE [req EXCEPT ![r] = [pc |-> "unlink", path |-> req[r].path, why |-> "gc"]]
  /\ OnlyReads

(* packs::update: what it drops is collected.  sessions::patch_session     *)
(* collects nothing.                                                       *)
GetFace(r) ==
  /\ \E o \in owners \ Templates, p \in DOMAIN asset :
       Begins(r, [pc |-> "face", to |-> o, path |-> p, old |-> face[o]])
  /\ OnlyReads

SetFace(r) ==
  /\ req[r].pc = "face"
  /\ LET o == req[r].to
         old == IF o \in Packs /\ req[r].old # req[r].path THEN req[r].old ELSE NoPath
     IN /\ face' = IF o \in owners THEN [face EXCEPT ![o] = req[r].path] ELSE face
        /\ req' = Goes(r, [pc |-> "gc", path |-> old])
  /\ UNCHANGED <<node, def, owners, uses, lastId, spent, libVars>>

-----------------------------------------------------------------------------
(* Whole packs and templates. *)

(* orphaned_definitions_for_template, orphaned_definitions_for_pack: the   *)
(* definitions that only this tree points at.                              *)
UsedBy(o) == {node[n].def : n \in DOMAIN NodesOf(o)} \ {NoDef}
UsedElsewhere(o) == {node[n].def : n \in DOMAIN node \ DOMAIN NodesOf(o)}
Orphans(o) == UsedBy(o) \ UsedElsewhere(o)

(* packs::delete reads the avatar; templates have none. *)
DeleteOwnerGet(r) ==
  /\ \E o \in owners \ Sessions, all \in BOOLEAN :
       Begins(r, [pc |-> "orphans", id |-> o, all |-> all,
                  path |-> IF o \in Packs THEN face[o] ELSE NoPath])
  /\ OnlyReads

DeleteOwnerOrphans(r) ==
  /\ req[r].pc = "orphans"
  /\ req' = [req EXCEPT ![r] = [pc |-> "drop", id |-> req[r].id, path |-> req[r].path,
               orphans |-> IF req[r].all THEN Orphans(req[r].id) ELSE {}, read |-> node]]
  /\ OnlyReads

(* delete_template, delete_pack; chat_sessions.template_id is set to null. *)
DeleteOwner(r) ==
  /\ req[r].pc = "drop"
  /\ LET o == req[r].id IN
       /\ def' = [d \in DOMAIN def \ req[r].orphans |-> def[d]]
       /\ node' = Unlinked(Without(DOMAIN NodesOf(o)), req[r].orphans)
       /\ owners' = owners \ {o}
       /\ uses' = [s \in Sessions |-> IF uses[s] = o THEN NoOwner ELSE uses[s]]
       /\ spent' = spent \cup {o} \cup req[r].orphans
       /\ req' = Goes(r, [pc |-> "gc", path |-> req[r].path])
  /\ UNCHANGED <<face, lastId, libVars>>

(* persist_pack_bundle: an upload with the same bytes is used again,       *)
(* otherwise the file is written before the transaction; a bundle without  *)
(* the file loses its avatar.  import_template_bundle has no assets.       *)
ImportAssets(r) ==
  /\ \E o \in (Templates \cup Packs) \ (owners \cup spent), c \in Contents, bundled \in BOOLEAN :
       LET same == {p \in DOMAIN asset : asset[p] = c} IN
         \E p \in IF o \in Templates \/ ~bundled THEN {NoPath}
                  ELSE IF same # {} THEN same ELSE {q \in Paths : FreshPath(q)}, b \in Bundles :
           /\ Begins(r, [pc |-> "import", to |-> o, path |-> p, hash |-> c, tree |-> b,
                         new |-> p # NoPath /\ same = {}])
           /\ file' = IF p = NoPath THEN file ELSE file \cup (IF same = {} THEN {p} ELSE {})
  /\ UNCHANGED <<treeVars, types, patch, asset>>

(* The rows of a bundle below its new owner; its refs point at d.          *)
BundleRows(b, o, d) ==
  [n \in NextId .. lastId + Len(b) |->
     LET x == b[n - lastId] IN
       Row(o, IF x.parent = Root THEN Root ELSE lastId + x.parent, x.ord, x.kind,
           IF x.kind = "ref" THEN d ELSE NoDef, NoOwner)]

(* import_pack, import_template: assets, owner, definitions and nodes in   *)
(* one transaction, under new ids.  Nobody checks the definitions' types   *)
(* or the depth of the tree.                                               *)
Import(r) ==
  /\ req[r].pc = "import"
  /\ req[r].to \notin owners \cup spent
  /\ \E d \in Defs \ (DOMAIN def \cup spent), t \in Types \cup {Reserved}, v \in Values :
       /\ def' = With(def, d, Definition(t, v, v, req[r].path))
       /\ InsertAll(BundleRows(req[r].tree, req[r].to, d))
  /\ owners' = owners \cup {req[r].to}
  /\ asset' = IF req[r].new THEN With(asset, req[r].path, req[r].hash) ELSE asset
  /\ face' = [face EXCEPT ![req[r].to] = req[r].path]
  /\ req' = Served(r)
  /\ UNCHANGED <<uses, spent, types, patch, file>>

-----------------------------------------------------------------------------
(* Owners. *)

MagicNodes(o) == [n \in {NextId, NextId + 1} |->
                    IF n = NextId THEN Row(o, Root, 0, "content", NoDef, NoOwner)
                    ELSE Row(o, Root, 1, "history", NoDef, NoOwner)]

(* templates::create: the template and its magic nodes in one transaction. *)
CreateTemplate(r) ==
  /\ req[r] = Waiting
  /\ \E t \in Templates \ (owners \cup spent) :
       /\ owners' = owners \cup {t}
       /\ InsertAll(MagicNodes(t))
  /\ req' = Served(r)
  /\ UNCHANGED <<def, uses, face, spent, libVars>>

(* packs::create *)
CreatePack(r) ==
  /\ req[r] = Waiting
  /\ \E o \in Packs \ (owners \cup spent), p \in DOMAIN asset \cup {NoPath} :
       /\ owners' = owners \cup {o}
       /\ face' = [face EXCEPT ![o] = p]
  /\ req' = Served(r)
  /\ UNCHANGED <<node, def, uses, lastId, spent, libVars>>

(* create_session takes the avatar of a mounted pack unless it is given one. *)
CreateSessionGet(r) ==
  /\ \E s \in Sessions \ (owners \cup spent), t \in {NoOwner} \cup (Templates \cap owners) :
       \E p \in {NoPath} \cup DOMAIN asset \cup {face[o] : o \in Packs \cap owners} :
         Begins(r, [pc |-> "session", to |-> s, of |-> t, path |-> p])
  /\ OnlyReads

CreateSession(r) ==
  /\ req[r].pc = "session"
  /\ req[r].of \in owners \cup {NoOwner}
  /\ req[r].to \notin owners \cup spent
  /\ owners' = owners \cup {req[r].to}
  /\ uses' = [uses EXCEPT ![req[r].to] = req[r].of]
  /\ face' = [face EXCEPT ![req[r].to] = req[r].path]
  /\ req' = Served(r)
  /\ UNCHANGED <<node, def, lastId, spent, libVars>>

(* delete_session: what it does to messages is in SessionCopies. *)
DeleteSession(r) ==
  /\ req[r] = Waiting
  /\ \E s \in Sessions \cap owners :
       /\ owners' = owners \ {s}
       /\ node' = Without(DOMAIN NodesOf(s))
       /\ spent' = spent \cup {s}
  /\ req' = Served(r)
  /\ UNCHANGED <<def, uses, face, lastId, libVars>>

-----------------------------------------------------------------------------

Step(r) ==
  \/ TreeStep(r) /\ UNCHANGED <<libVars, removed>>
  \/ DropAsset(r)
  \/ /\ \/ ValidateDefinition(r) \/ StoreDefinition(r) \/ DeleteDefinition(r)
        \/ CreateType(r) \/ ListType(r) \/ DeleteType(r)
        \/ EnsureSession(r) \/ StorePatch(r)
        \/ PromotePatch(r) \/ PromoteBase(r) \/ Promote(r)
        \/ WriteUpload(r) \/ RecordUpload(r) \/ UnwriteUpload(r)
        \/ GetAsset(r) \/ UnlinkAsset(r) \/ CheckAvatar(r) \/ GetFace(r) \/ SetFace(r)
        \/ DeleteOwnerGet(r) \/ DeleteOwnerOrphans(r) \/ DeleteOwner(r)
        \/ ImportAssets(r) \/ Import(r)
        \/ CreateTemplate(r) \/ CreatePack(r) \/ CreateSessionGet(r) \/ CreateSession(r) \/ DeleteSession(r)
     /\ UNCHANGED removed

(* The owner that is given the tree this request has read, if it is deep.  *)
Deepened(r) ==
  IF \/ req[r].pc \in {"copy", "paste"} /\ ~InTwoLevels(req[r].read)
     \/ req[r].pc = "import" /\ ~InTwoLevels(req[r].tree)
  THEN {req[r].to} ELSE {}

Next == \E r \in Requests :
  \/ /\ Step(r)
     /\ alone' = (alone /\ \A k \in Requests \ {r} : ~InFlight(k))
     /\ deep' = deep \cup Deepened(r)
  \/ Drop(r) /\ alone' = FALSE /\ UNCHANGED <<libVars, removed, deep>>

Init == /\ \E s \in Seeds : /\ node = s.node
                            /\ def = s.def
                            /\ owners = s.owners
                            /\ uses = s.uses
                            /\ face = s.face
                            /\ lastId = Cardinality(DOMAIN s.node)
                            /\ types = s.types
                            /\ patch = s.patch
                            /\ asset = s.asset
                            /\ file = DOMAIN s.asset
        /\ req = [r \in Requests |-> Waiting]
        /\ spent = {} /\ removed = {} /\ deep = {}
        /\ alone = TRUE

Spec == Init /\ [][Next]_vars

-----------------------------------------------------------------------------

(* Rows are well formed, and no foreign key dangles. *)
TypeOK == /\ \A n \in DOMAIN node : node[n] \in NodeRows(DOMAIN node, DOMAIN def, lastId)
          /\ DOMAIN node \subseteq 1 .. lastId
          /\ DOMAIN def \subseteq Defs \ spent /\ owners \subseteq Owners \ spent
          /\ \A d \in DOMAIN def : def[d] \in DefRows
          /\ \A s \in Sessions \cap owners : uses[s] \in {NoOwner} \cup owners
          /\ types \subseteq Types /\ file \subseteq Paths /\ DOMAIN asset \subseteq Paths

(* Types; and every tree keeps to itself and, but for one that was         *)
(* imported deeper, to two levels: everything stands at the root or is a   *)
(* ref in a folder of its own tree, over any interleaving of moves,        *)
(* deletions and copies that go by an older state, so that a copy reaches  *)
(* every node.                                                             *)
TwoLevels == /\ TypeOK /\ WithinOwner(node)
             /\ \A n \in DOMAIN node : node[n].owner \notin deep => Shallow(node, n)

(* "so two concurrent calls can't both materialize": a copy is inserted    *)
(* only into a session that holds none from that kind of source.           *)
OneCopy == [][\A r \in Requests :
                MaterializeCopy(r) => CopiesThere(req[r].to, req[r].src) = {}]_vars

(* What is inserted is the tree that was read, folders and members alike,  *)
(* if that has two levels: an imported tree may be deeper, and its copy    *)
(* loses the place of a row that is copied before its parent.              *)
SameShape(old, new) == \E f \in [DOMAIN old -> DOMAIN new] :
  /\ \A a, b \in DOMAIN old : f[a] = f[b] => a = b
  /\ \A a \in DOMAIN old :
       /\ new[f[a]].parent = IF old[a].parent = Root THEN Root ELSE f[old[a].parent]
       /\ new[f[a]].ord = old[a].ord /\ new[f[a]].kind = old[a].kind /\ new[f[a]].def = old[a].def
CopyKeepsShape == [][\A r \in Requests :
  (MaterializeCopy(r) \/ DuplicatePaste(r)) /\ InTwoLevels(req[r].read)
    => SameShape(req[r].read, [n \in DOMAIN node' \ DOMAIN node |-> node'[n]])]_vars

(* Promoting a patch nobody touched since it was read changes nothing for  *)
(* the session: the row takes the patch over before the patch goes.        *)
Effective(s, d) == IF d \in DOMAIN patch[s] THEN Over(def[d], patch[s][d]) ELSE def[d]
PromoteKeepsEffective == [][\A r \in Requests, s \in Sessions, d \in Defs :
  (/\ Promote(r) /\ req[r].to = s /\ req[r].id = d
   /\ d \in DOMAIN def /\ def[d] = req[r].base
   /\ d \in DOMAIN patch[s] /\ patch[s][d] = req[r].fields)
    => Effective(s, d)' = Effective(s, d)]_vars

(* Between requests that never overlapped and were never cut short, rows   *)
(* and files agree, and an avatar somebody uses is there unless a user     *)
(* deleted it: neither upload, import, replacement nor collection loses    *)
(* one or leaves one behind.                                               *)
InUseAvatars == {face[o] : o \in owners} \cup {def[d].avatar : d \in DOMAIN def}
MediaIntact == alone /\ (\A r \in Requests : ~InFlight(r)) =>
  /\ DOMAIN asset = file
  /\ InUseAvatars \subseteq file \cup removed \cup {NoPath}
=============================================================================
