------------------------------ MODULE StateVars -----------------------------
(***************************************************************************)
(* The variables of a session, and the names and faces of its two sides    *)
(* (shirita-core/src/state.rs, identity.rs, panels.rs; shirita-core/src/   *)
(* conversation.rs and shirita-web/src/routes/variables.rs call them).     *)
(*                                                                         *)
(* A scene s holds the rows a call reads (see PromptAssembly): s.defs,     *)
(* s.nodes, and one record per mounted pack in s.mounts, in mount order,   *)
(* with its nodes and its identity.  A value is a record of its type and   *)
(* content; a literal, the text of an update's value, is a record of its   *)
(* spelling and of the values it parses to, by type.  "" is no name.       *)
(***************************************************************************)
EXTENDS Integers, SequencesExt, Maps

CONSTANTS MaxListLen,   \* MAX_LIST_LEN
          MaxNumber,    \* the largest finite float
          ReservedKeys  \* the keys that begin with "$"

ASSUME StateAssumption == MaxListLen \in Nat \ {0} /\ MaxNumber \in Nat

SystemKeys == <<"$avatar", "$background", "$assistant_name", "$assistant_avatar", "$user_name",
                "$user_avatar">>
SystemNames == ToSet(SystemKeys)
ASSUME ReservedAssumption == SystemNames \subseteq ReservedKeys
VarTypes == {"number", "bool", "string", "list"}
NoValue == [type |-> "none"]
Text(t) == [type |-> "string", val |-> t]

(* system_variables: six empty strings. *)
SystemVariables ==
  [i \in DOMAIN SystemKeys |->
     [name |-> SystemKeys[i], type |-> "string", initial |-> Text(""), scope |-> "system"]]

-----------------------------------------------------------------------------
(* The schema: bricks of type variables, referenced by enabled nodes. *)

DeclNames(schema) == {schema[i].name : i \in DOMAIN schema}
DeclOf(schema, name) == schema[SelectInSeq(schema, LAMBDA d : d.name = name)]

EnabledRefs(s, nodes) ==
  SelectSeq(nodes, LAMBDA n : n.kind = "ref" /\ n.on /\ n.def \in DOMAIN s.defs)

VariablesFromNodes(s, nodes) ==
  LET bricks == SelectSeq(EnabledRefs(s, nodes), LAMBDA n : s.defs[n.def].type = "variables")
  IN  FlattenSeq([i \in DOMAIN bricks |-> s.defs[bricks[i].def].decls])

Scoped(decls, scope) ==
  [i \in DOMAIN decls |-> [name |-> decls[i].name, type |-> decls[i].type,
                           initial |-> decls[i].initial, scope |-> scope]]

(* A later declaration takes the place of an earlier one of that name. *)
Declared(out, decl) ==
  IF decl.name \in DeclNames(out)
  THEN [out EXCEPT ![SelectInSeq(out, LAMBDA d : d.name = decl.name)] = decl]
  ELSE Append(out, decl)
MergeDecls(schema, decls) == FoldLeft(Declared, schema, decls)

(* resolve_schema_from_bricks, resolve_session_schema: system, the         *)
(* effective tree, the packs in mount order, the session's own.            *)
Schema(s) ==
  LET packs == [i \in DOMAIN s.mounts |-> Scoped(VariablesFromNodes(s, s.mounts[i].nodes), "pack")]
  IN  FoldLeft(MergeDecls, SystemVariables,
               <<Scoped(VariablesFromNodes(s, s.nodes), "template")>> \o packs
               \o <<Scoped(s.locals, "local")>>)

SchemaInitials(schema) ==
  [n \in DeclNames(schema) |-> DeclOf(schema, n).initial]

(* effective_state: what the leaf says, else the seed, else the initials. *)
EffectiveState(schema, seed, leaf) ==
  Extended(Extended(SchemaInitials(schema), seed), leaf)

(* variables_block: a line for every variable that is not a system one;    *)
(* no lines, no block.                                                     *)
VariablesBlock(schema, state) ==
  LET own == SelectSeq(schema, LAMBDA d : d.scope # "system")
  IN  [i \in DOMAIN own |->
         [name |-> own[i].name, type |-> own[i].type,
          val |-> IF own[i].name \in DOMAIN state THEN state[own[i].name] ELSE own[i].initial]]

-----------------------------------------------------------------------------
(* Updates: the tags of a reply, and what a panel's rules capture. *)

Actions == {"set", "add", "sub", "toggle", "append", "remove"}

(* A reply is a sequence of pieces: words and state_update tags.  A tag    *)
(* counts when it has a key and an action that exists.                     *)
ParseStateUpdates(reply) ==
  SelectSeq(reply, LAMBDA p : /\ p.piece = "state_update"
                              /\ p.action \in Actions /\ p.key # "")

(* A literal is the value a declared type can make of it, if any. *)
Coerce(lit, type) ==
  IF lit = NoValue THEN NoValue
  ELSE IF type = "string" THEN Text(lit.text)
  ELSE IF type \in DOMAIN lit THEN [type |-> type, val |-> lit[type]]
  ELSE NoValue

(* The current value if it has the type, else the type's zero. *)
Current(state, key, type) ==
  IF key \in DOMAIN state /\ state[key].type = type THEN state[key].val
  ELSE CASE type = "number" -> 0 [] type = "bool" -> FALSE [] type = "list" -> <<>>

Finite(n) == n \in (-MaxNumber)..MaxNumber

(* What an action makes of a variable; NoValue leaves it alone. *)
Changed(state, u, type) ==
  LET now == Current(state, u.key, type)
      Put(v) == [type |-> type, val |-> v]
      number == IF u.lit # NoValue /\ "number" \in DOMAIN u.lit THEN u.lit.number ELSE MaxNumber + 1
      sum == IF u.action = "add" THEN now + number ELSE now - number
      at == SelectInSeq(now, LAMBDA e : e = u.lit.text)
  IN  CASE u.action = "set" -> Coerce(u.lit, type)
        [] u.action \in {"add", "sub"} /\ type = "number" ->
             IF Finite(number) /\ Finite(sum) THEN Put(sum) ELSE NoValue
        [] u.action = "toggle" /\ type = "bool" -> Put(~now)
        [] u.action = "append" /\ type = "list" /\ u.lit # NoValue ->
             IF Len(now) < MaxListLen THEN Put(Append(now, u.lit.text)) ELSE NoValue
        [] u.action = "remove" /\ type = "list" /\ u.lit # NoValue ->
             Put(IF at = 0 THEN now ELSE RemoveAt(now, at))
        [] OTHER -> NoValue

\* mutant
ApplyUpdatesAnyKey(state, schema, updates) ==
  FoldLeft(LAMBDA st, u :
             IF u.key \in DeclNames(schema) /\ Changed(st, u, DeclOf(schema, u.key).type) # NoValue
             THEN Inserted(st, u.key, Changed(st, u, DeclOf(schema, u.key).type)) ELSE st,
           state, updates)

(* One by one; reserved keys and undeclared ones are skipped. *)
Updated(schema, state, u) ==
  LET value == Changed(state, u, DeclOf(schema, u.key).type)
  IN  IF u.key \in ReservedKeys \/ u.key \notin DeclNames(schema) THEN state
      ELSE IF value = NoValue THEN state ELSE Inserted(state, u.key, value)
ApplyUpdates(state, schema, updates) ==
  FoldLeft(LAMBDA st, u : Updated(schema, st, u), state, updates)

(* get_state: what a panel shows, the variables of the active branch. *)
BranchState(s, seed, leaf) == EffectiveState(Schema(s), seed, leaf)

(* apply_state_updates: what a panel's items make of them, kept in the     *)
(* snapshot of a hidden message that becomes the leaf, and shown again.    *)
PanelUpdates(items) == SelectSeq(items, LAMBDA u : u.action \in Actions)
PanelSnapshot(s, seed, leaf, items) ==
  ApplyUpdates(BranchState(s, seed, leaf), Schema(s), PanelUpdates(items))

-----------------------------------------------------------------------------
(* Identity. *)

(* pick: among the enabled refs of a type the one named like the template, *)
(* else the first.                                                         *)
Pick(s, nodes, type, template) ==
  LET refs == SelectSeq(EnabledRefs(s, nodes), LAMBDA n : s.defs[n.def].type = type)
      named == SelectSeq(refs, LAMBDA n : s.defs[n.def].name = template)
  IN  IF named # <<>> THEN s.defs[Head(named).def].name
      ELSE IF refs # <<>> THEN s.defs[Head(refs).def].name ELSE ""

(* The first pack with an enabled ref of the type lends its identity. *)
PackFor(s, type) ==
  LET bound == SelectSeq(s.mounts, LAMBDA p :
                 \E i \in DOMAIN p.nodes : /\ p.nodes[i] \in ToSet(EnabledRefs(s, p.nodes))
                                           /\ s.defs[p.nodes[i].def].type = type)
  IN  IF bound = <<>> THEN "" ELSE Head(bound).name

(* resolve_session_identity: pack nodes come before the tree's own.        *)
Identity(s) ==
  LET combined == FlattenSeq([i \in DOMAIN s.mounts |-> s.mounts[i].nodes]) \o s.nodes
      Side(type) == IF PackFor(s, type) # "" THEN PackFor(s, type)
                    ELSE Pick(s, combined, type, s.template)
  IN  [assistant |-> Side("char"), user |-> Side("persona")]

(* A side without a name leaves what the state says of it. *)
InjectIdentity(state, identity) ==
  LET Said(map, key, name) == IF name = "" THEN map ELSE Inserted(map, key, Text(name))
  IN  Said(Said(state, "$user_name", identity.user), "$assistant_name", identity.assistant)

-----------------------------------------------------------------------------
(* Panels: enabled panel folders, each with its enabled html and css. *)

CollectPanels(s, nodes) ==
  LET folders == SelectSeq([i \in DOMAIN nodes |-> [at |-> i, n |-> nodes[i]]], LAMBDA f :
                   f.n.kind = "folder" /\ f.n.on /\ f.n.tag = "panel")
      Parts(f, type) == SelectSeq(EnabledRefs(s, nodes), LAMBDA n :
                          n.parent = f.at /\ s.defs[n.def].type = type)
  IN  [i \in DOMAIN folders |->
         [html |-> Parts(folders[i], "html"), css |-> Parts(folders[i], "css")]]

SessionPanels(s) ==
  CollectPanels(s, s.nodes)
  \o FlattenSeq([i \in DOMAIN s.mounts |-> CollectPanels(s, s.mounts[i].nodes)])
=============================================================================
