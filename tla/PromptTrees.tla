----------------------------- MODULE PromptTrees ----------------------------
(***************************************************************************)
(* The trees of prompt nodes that templates, packs and sessions own, and   *)
(* the definitions their ref nodes point at (shirita-core/src/storage/     *)
(* sqlite.rs; shirita-web/src/routes/prompt_nodes.rs, templates.rs,        *)
(* packs.rs, local_overrides.rs).                                          *)
(*                                                                         *)
(* A request is served by a row of storage calls, each atomic; requests    *)
(* run side by side on five connections.  A transaction that starts with   *)
(* a SELECT reads a snapshot: its first write fails if anything was        *)
(* committed since (SQLITE_BUSY_SNAPSHOT).  One that starts with a write   *)
(* is atomic here.  A request that is refused, whose call fails or whose   *)
(* client goes away has done what it did so far and no more (Drop).        *)
(*                                                                         *)
(* A slot of req serves one request; their number is the bound of a        *)
(* behaviour.  No id is given out twice: node ids are numbers in the order *)
(* of creation, spent holds the other ids that were deleted.  Names, texts *)
(* and timestamps are left out; meta keeps where a node was copied from.   *)
(***************************************************************************)
EXTENDS Integers, FiniteSetsExt

CONSTANTS Requests,   \* slots, one request each
          Templates, Packs, Sessions,
          Defs,       \* ids of definitions
          NoDef, NoOwner, NoPath

Owners == Templates \cup Packs \cup Sessions
Root == 0

ASSUME TreesAssumption == /\ Templates \cap Packs = {}
                          /\ (Templates \cup Packs) \cap Sessions = {}
                          /\ NoDef \notin Defs /\ NoOwner \notin Owners

VARIABLES req,       \* the requests and what they have read
          node,      \* table prompt_nodes: id -> row
          def,       \* table definitions: id -> row (see Library)
          owners,    \* tables templates, packs, chat_sessions: the ids
          uses,      \* chat_sessions.template_id
          face,      \* packs.identity_json and chat_sessions.avatar: owner -> path
          lastId,    \* the last node id
          spent      \* owners, definitions and uploads that were deleted

treeVars == <<node, def, owners, uses, face, lastId, spent>>
rowVars == <<def, owners, uses, face, spent>>

Waiting == [pc |-> "waiting"]
Done == [pc |-> "done"]

(* After a commit every open snapshot is stale. *)
Served(r) == [k \in Requests |->
                IF k = r THEN Done
                ELSE IF req[k].pc = "copy" THEN [req[k] EXCEPT !.fresh = FALSE] ELSE req[k]]
ServedUnchanged(r) == [req EXCEPT ![r] = Done]
Goes(r, w) == [k \in Requests |->
                IF k = r THEN w
                ELSE IF req[k].pc = "copy" THEN [req[k] EXCEPT !.fresh = FALSE] ELSE req[k]]

-----------------------------------------------------------------------------
(* Rows, foreign keys, and what a deletion takes along. *)

Row(owner, parent, ord, kind, d, src) ==
  [owner |-> owner, parent |-> parent, ord |-> ord, kind |-> kind, def |-> d, on |-> TRUE,
   src |-> src]

(* list_nodes *)
NodesOf(o) == [n \in {k \in DOMAIN node : node[k].owner = o} |-> node[n]]

NextId == lastId + 1

(* parent_id and definition_id are foreign keys; owner_id is not. *)
MayStore(row, batch) == /\ row.parent \in {Root} \cup DOMAIN node \cup DOMAIN batch
                        /\ row.def \in {NoDef} \cup DOMAIN def

InsertAll(batch) == /\ node' = [n \in DOMAIN node \cup DOMAIN batch |->
                                  IF n \in DOMAIN batch THEN batch[n] ELSE node[n]]
                    /\ lastId' = lastId + Cardinality(DOMAIN batch)

(* ON DELETE CASCADE: a row goes with its parent, whatever the depth: what *)
(* goes is the least set that takes along the rows below its own.          *)
Gone(ids) ==
  LET below == {n \in DOMAIN node : node[n].parent # Root}
      Takes(S) == {n \in below : node[n].parent \in ids \cup S}
  IN  ids \cup {n \in below : \A S \in SUBSET below : Takes(S) \subseteq S => n \in S}
Without(ids) == [n \in DOMAIN node \ Gone(ids) |-> node[n]]

(* ON DELETE SET NULL on definition_id. *)
Unlinked(rows, ds) == [n \in DOMAIN rows |->
                         IF rows[n].def \in ds THEN [rows[n] EXCEPT !.def = NoDef] ELSE rows[n]]

(* enforce_two_level: everything but a ref stands at the root, a ref at    *)
(* the root or in a folder among the nodes that were listed.               *)
TwoLevelFoldersOnly(kind, parent, listed) == kind = "ref" \/ parent = Root   \* mutant
TwoLevel(kind, parent, listed) ==
  \/ parent = Root
  \/ kind = "ref" /\ parent \in DOMAIN listed /\ listed[parent].kind = "folder"

NextOrder(listed, parent) ==
  1 + Max({-1} \cup {listed[n].ord : n \in {k \in DOMAIN listed : listed[k].parent = parent}})

-----------------------------------------------------------------------------
(* Single nodes: create_node, update_node, delete_node, reorder_nodes. *)

CreateList(r) ==
  /\ req[r] = Waiting
  /\ \E o \in Owners \cap (owners \cup spent), kind \in {"folder", "ref"}, d \in Defs \cup {NoDef},
        parent \in {Root} \cup DOMAIN node :
       /\ (d = NoDef) = (kind = "folder")
       /\ TwoLevel(kind, parent, NodesOf(o))
       /\ req' = [req EXCEPT ![r] =
            [pc |-> "insert",
             row |-> Row(o, parent, NextOrder(NodesOf(o), parent), kind, d, NoOwner)]]
  /\ UNCHANGED treeVars

CreateInsert(r) ==
  /\ req[r].pc = "insert"
  /\ MayStore(req[r].row, <<>>)
  /\ InsertAll([n \in {NextId} |-> req[r].row])
  /\ req' = Served(r)
  /\ UNCHANGED rowVars

UpdateGet(r) ==
  /\ req[r] = Waiting
  /\ \E n \in DOMAIN node : req' = [req EXCEPT ![r] = [pc |-> "check", id |-> n, row |-> node[n]]]
  /\ UNCHANGED treeVars

(* The fields of the body over those of the row that was read. *)
Edited(old) == {[old EXCEPT !.parent = p] : p \in {Root} \cup DOMAIN node}
               \cup {[old EXCEPT !.ord = o] : o \in 0 .. 1}
               \cup {[old EXCEPT !.def = d] : d \in Defs \cup {NoDef}}
               \cup {[old EXCEPT !.on = ~@], [old EXCEPT !.src = NoOwner]}

UpdateCheck(r) ==
  /\ req[r].pc = "check"
  /\ \E new \in Edited(req[r].row) :
       /\ TwoLevel(new.kind, new.parent, NodesOf(new.owner))
       /\ req' = [req EXCEPT ![r] = [pc |-> "write", id |-> req[r].id, row |-> new]]
  /\ UNCHANGED treeVars

(* The whole row is written, over whatever it has become; none if it has gone. *)
UpdateWrite(r) ==
  /\ req[r].pc = "write"
  /\ IF req[r].id \in DOMAIN node
     THEN /\ MayStore(req[r].row, <<>>)
          /\ node' = [node EXCEPT ![req[r].id] = req[r].row]
          /\ req' = Served(r)
     ELSE /\ req' = ServedUnchanged(r)
          /\ UNCHANGED node
  /\ UNCHANGED <<rowVars, lastId>>

(* delete_node: two statements, and no transaction around them. *)
DeleteChildren(r) ==
  /\ req[r] = Waiting
  /\ \E n \in DOMAIN node :
       /\ node' = Without({k \in DOMAIN node : node[k].parent = n})
       /\ req' = Goes(r, [pc |-> "self", id |-> n])
  /\ UNCHANGED <<rowVars, lastId>>

DeleteSelf(r) ==
  /\ req[r].pc = "self"
  /\ node' = Without({req[r].id} \cap DOMAIN node)
  /\ req' = Served(r)
  /\ UNCHANGED <<rowVars, lastId>>

Reorder(r) ==
  /\ req[r] = Waiting
  /\ \E o \in Owners, first \in DOMAIN node, second \in DOMAIN node :
       /\ first # second
       /\ node[first].owner = o \/ node[second].owner = o
       /\ node' = [n \in DOMAIN node |->
                     IF node[n].owner # o THEN node[n]
                     ELSE [node[n] EXCEPT !.ord = CASE n = first -> 0
                                                    [] n = second -> 1
                                                    [] OTHER -> @]]
  /\ req' = Served(r)
  /\ UNCHANGED <<rowVars, lastId>>

-----------------------------------------------------------------------------
(* Copies of whole trees. *)

(* Roots first, then by sort_order: parents of a tree of two levels are    *)
(* copied before their children, those of a deeper one perhaps not.        *)
BeforeInTable(tree, a, b) ==                                       \* mutant
  tree[a].ord < tree[b].ord \/ (tree[a].ord = tree[b].ord /\ a < b)
Before(tree, a, b) ==
  LET tier(n) == IF tree[n].parent = Root THEN 0 ELSE 1
  IN  \/ tier(a) < tier(b)
      \/ tier(a) = tier(b) /\ tree[a].ord < tree[b].ord
      \/ tier(a) = tier(b) /\ tree[a].ord = tree[b].ord /\ a < b

(* Ids are given out in that order. *)
CopyId(tree, n) == NextId + Cardinality({k \in DOMAIN tree : Before(tree, k, n)})

(* The rows of a copy; a parent is looked up among the nodes copied so far. *)
CopyOf(tree, o, src) ==
  LET parentOf(n) == LET p == tree[n].parent IN
                       IF p \in DOMAIN tree /\ Before(tree, p, n) THEN CopyId(tree, p) ELSE Root
      rowOf(n) == [tree[n] EXCEPT !.owner = o, !.parent = parentOf(n),
                                  !.src = IF src = NoOwner THEN @ ELSE src]
  IN [m \in {CopyId(tree, n) : n \in DOMAIN tree} |->
        rowOf(CHOOSE n \in DOMAIN tree : CopyId(tree, n) = m)]

SameKind(a, b) == \E K \in {Templates, Packs, Sessions} : {a, b} \subseteq K

(* materialize_nodes looks for the session and its template;               *)
(* materialize_pack_nodes looks for neither session nor pack.              *)
MaterializeRead(r) ==
  /\ req[r] = Waiting
  /\ \E s \in Sessions, src \in Templates \cup Packs :
       /\ src \in Templates => s \in owners /\ uses[s] = src
       /\ DOMAIN NodesOf(src) # {}
       /\ req' = [req EXCEPT ![r] =
            [pc |-> "count", to |-> s, src |-> src, read |-> NodesOf(src)]]
  /\ UNCHANGED treeVars

(* Copies in the session from any source of the same kind. *)
CopiesThere(s, src) == {n \in DOMAIN node : /\ node[n].owner = s
                                            /\ node[n].src # NoOwner
                                            /\ SameKind(node[n].src, src)}

MaterializeCount(r) ==
  /\ req[r].pc = "count"
  /\ req' = IF CopiesThere(req[r].to, req[r].src) = {}
            THEN [req EXCEPT ![r] = [pc |-> "copy", to |-> req[r].to, src |-> req[r].src,
                                     read |-> req[r].read, fresh |-> TRUE]]
            ELSE ServedUnchanged(r)
  /\ UNCHANGED treeVars

MayUpgradeAlways(r) == TRUE                                        \* mutant
MayUpgrade(r) == req[r].fresh

MaterializeCopy(r) ==
  /\ req[r].pc = "copy"
  /\ MayUpgrade(r)
  /\ LET batch == CopyOf(req[r].read, req[r].to, req[r].src) IN
       /\ \A n \in DOMAIN batch : MayStore(batch[n], batch)
       /\ InsertAll(batch)
  /\ req' = Served(r)
  /\ UNCHANGED rowVars

(* templates::duplicate, packs::duplicate: get, create, then copy_nodes,   *)
(* which lists before its transaction.                                     *)
DuplicateGet(r) ==
  /\ req[r] = Waiting
  /\ \E o \in owners \ Sessions, c \in Owners \ (owners \cup spent) :
       /\ SameKind(o, c)
       /\ req' = [req EXCEPT ![r] = [pc |-> "create", of |-> o, to |-> c, path |-> face[o]]]
  /\ UNCHANGED treeVars

DuplicateCreate(r) ==
  /\ req[r].pc = "create"
  /\ req[r].to \notin owners \cup spent
  /\ owners' = owners \cup {req[r].to}
  /\ face' = [face EXCEPT ![req[r].to] = req[r].path]
  /\ req' = Goes(r, [pc |-> "list", of |-> req[r].of, to |-> req[r].to])
  /\ UNCHANGED <<node, def, uses, lastId, spent>>

DuplicateList(r) ==
  /\ req[r].pc = "list"
  /\ req' = [req EXCEPT ![r] = [pc |-> "paste", to |-> req[r].to, read |-> NodesOf(req[r].of)]]
  /\ UNCHANGED treeVars

DuplicatePaste(r) ==
  /\ req[r].pc = "paste"
  /\ LET batch == CopyOf(req[r].read, req[r].to, NoOwner) IN
       /\ \A n \in DOMAIN batch : MayStore(batch[n], batch)
       /\ InsertAll(batch)
  /\ req' = Served(r)
  /\ UNCHANGED rowVars

(* A call that fails, or a client that goes away between two calls. *)
InFlight(r) == req[r].pc \notin {"waiting", "done"}
Drop(r) ==
  /\ InFlight(r)
  /\ req' = ServedUnchanged(r)
  /\ UNCHANGED treeVars

TreeStep(r) ==
  \/ CreateList(r) \/ CreateInsert(r)
  \/ UpdateGet(r) \/ UpdateCheck(r) \/ UpdateWrite(r)
  \/ DeleteChildren(r) \/ DeleteSelf(r) \/ Reorder(r)
  \/ MaterializeRead(r) \/ MaterializeCount(r) \/ MaterializeCopy(r)
  \/ DuplicateGet(r) \/ DuplicateCreate(r) \/ DuplicateList(r) \/ DuplicatePaste(r)
=============================================================================
