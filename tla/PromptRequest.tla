---------------------------- MODULE PromptRequest ---------------------------
(***************************************************************************)
(* The request of a turn (the second half of shirita-core/src/assembly.rs, *)
(* with assemble_request of conversation.rs and trim_history of budget.rs):*)
(* the active part of the trees becomes segments before and after the      *)
(* history, protocols follow, the rules rewrite the history, and the       *)
(* messages are merged and trimmed.  See PromptAssembly for the scene.     *)
(*                                                                         *)
(* A message is its role, its text and whether it carries images; tokens   *)
(* are what the counter counts.                                            *)
(***************************************************************************)
EXTENDS PromptAssembly

-----------------------------------------------------------------------------
(* Rules.  A pattern is a token, or "invalid"; a rule without targets      *)
(* applies to both sides.                                                  *)

NoText == <<"no text">>

Applies(rule, target, phase) ==
  /\ ~rule.disabled
  /\ rule.scope \in {phase, "both"}
  /\ rule.targets = {} \/ target \in rule.targets
  /\ rule.pattern # "invalid"

ApplyRules(text, rules, target, phase) ==
  LET ran == SelectSeq(rules, LAMBDA r : Applies(r, target, phase))
      Rewrite(t, r) == FlattenSeq([i \in DOMAIN t |-> IF t[i] = r.pattern THEN r.with ELSE <<t[i]>>])
  IN  IF ran = <<>> THEN NoText ELSE FoldLeft(Rewrite, text, ran)

(* What the rules of panels capture from a reply: the words their groups   *)
(* match, in the order of the rules; a null slot captures nothing.         *)
CapturePanelUpdates(reply, rules) ==
  LET live == SelectSeq(rules, LAMBDA r : ~r.disabled /\ r.captures # <<>> /\ r.pattern # "invalid"
                                          /\ \E i \in DOMAIN reply : reply[i].piece = r.pattern)
      Found(r) == reply[SelectInSeq(reply, LAMBDA p : p.piece = r.pattern)].groups
      Slots(r) == SelectSeq([i \in DOMAIN r.captures |-> [key |-> r.captures[i], at |-> i]],
                            LAMBDA c : c.key # "" /\ c.at \in DOMAIN Found(r))
  IN  FlattenSeq([i \in DOMAIN live |->
        [k \in DOMAIN Slots(live[i]) |->
           [action |-> "set", key |-> Slots(live[i])[k].key,
            lit |-> Found(live[i])[Slots(live[i])[k].at]]]])

(* effective_regex_rules: the global ones, then those an enabled node of   *)
(* the tree, then of each pack, refers to.                                 *)
ScopedRules(s, nodes) ==
  LET refs == SelectSeq(EnabledRefs(s, nodes), LAMBDA n : s.defs[n.def].type = "regex_rule")
  IN  [i \in DOMAIN refs |-> s.defs[refs[i].def]]

EffectiveRules(s) ==
  SelectSeq(s.defs, LAMBDA d : d.type = "regex_rule" /\ d.global)
  \o ScopedRules(s, s.nodes) \o FlattenSeq([i \in DOMAIN s.packs |-> ScopedRules(s, s.packs[i])])

-----------------------------------------------------------------------------
(* Segments. *)

Roots(nodes) == SelectSeq([i \in DOMAIN nodes |-> [at |-> i, n |-> nodes[i]]],
                          LAMBDA r : r.n.parent = 0)
Children(nodes, at) == SelectSeq(nodes, LAMBDA n : n.parent = at)

(* maybe_wrap: the node's wish goes before the definition's; blank text is *)
(* never wrapped.                                                          *)
MaybeWrap(s, n, text) ==
  LET def == s.defs[n.def]
      on == IF n.wrap = "unset" THEN def.wrap ELSE n.wrap = "yes"
      tag == SanitizeTag(def.name)
  IN  IF ~on \/ IsBlank(text) THEN text
      ELSE Tagged(IF tag = <<>> THEN <<def.type>> ELSE tag, text)

\* mutant
IncludedIfActive(s, active, n) == Renders(s, n) /\ n.def \in active /\ ~IsBlank(Body(s, n.def))

(* resolve and render_pack_body: enabled, rendering, active, not blank. *)
Included(s, active, n) ==
  n.on /\ Renders(s, n) /\ n.def \in active /\ ~IsBlank(Body(s, n.def))

(* One pack in walk order; a folder that selects one yields its first.     *)
PackRefs(s, active, pack) ==
  LET Below(r) == CASE r.n.kind = "ref" -> <<r.n>>
                    [] r.n.kind = "folder" /\ r.n.on -> Children(pack, r.at)
                    [] OTHER -> <<>>
      Live(r) == SelectSeq(Below(r), LAMBDA n : Included(s, active, n))
      Yield(r, live) == IF r.n.kind = "folder" /\ r.n.one /\ live # <<>> THEN <<Head(live)>> ELSE live
      roots == Roots(pack)
  IN  FlattenSeq([i \in DOMAIN roots |-> Yield(roots[i], Live(roots[i]))])

(* A content node shows all the packs, grouped by type in the order of     *)
(* first appearance.                                                       *)
Grouped(s, refs) ==
  LET TypeOf(n) == s.defs[n.def].type
      types == FoldLeft(LAMBDA ts, n : IF TypeOf(n) \in ToSet(ts) THEN ts ELSE Append(ts, TypeOf(n)),
                        <<>>, refs)
      Group(t) == SelectSeq(refs, LAMBDA n : TypeOf(n) = t)
      Content(t) == Joined([k \in DOMAIN Group(t) |-> Body(s, Group(t)[k].def)])
  IN  [i \in DOMAIN types |-> Tagged(<<types[i]>>, Content(types[i]))]
PackSegments(s, active) ==
  Grouped(s, FlattenSeq([i \in DOMAIN s.packs |-> PackRefs(s, active, s.packs[i])]))

FolderSegments(s, active, r) ==
  LET kids == SelectSeq(Children(s.nodes, r.at), LAMBDA k : Included(s, active, k))
      bodies == [i \in DOMAIN kids |-> MaybeWrap(s, kids[i], Body(s, kids[i].def))]
  IN  IF ~r.n.on \/ kids = <<>> THEN <<>> ELSE <<Tagged(<<r.n.tag>>, Joined(bodies))>>

RootSegments(s, active, r) ==
  CASE r.n.kind = "history" -> <<>>
    [] r.n.kind = "content" -> IF r.n.on THEN PackSegments(s, active) ELSE <<>>
    [] r.n.kind = "folder" -> FolderSegments(s, active, r)
    [] r.n.kind = "ref" -> IF Included(s, active, r.n)
                           THEN <<MaybeWrap(s, r.n, Body(s, r.n.def))>> ELSE <<>>

(* The roots in order; from the first enabled history on they fall behind  *)
(* it.                                                                     *)
Assemble(s) ==
  LET active == Activate(Entries(s), LastOf([i \in DOMAIN s.context |-> s.context[i].text],
                                            MaxScanWindow), s.rolled)
      roots == Roots(s.nodes)
      at == SelectInSeq(roots, LAMBDA r : r.n.kind = "history" /\ r.n.on)
      split == IF at = 0 THEN Len(roots) ELSE at
      Parted(segments) == [before |-> FlattenSeq(SubSeq(segments, 1, split)),
                           after |-> FlattenSeq(SubSeq(segments, split + 1, Len(roots))),
                           history |-> at # 0]
  IN  Parted([i \in DOMAIN roots |-> RootSegments(s, active, roots[i])])

(* The protocols of assemble_request: state_update says the variables, if  *)
(* there are any, html_patch comes once a card has been shown.             *)
ProtocolSegments(s) ==
  LET wanted(d) == /\ d.type = "protocol"
                   /\ \/ d.protocol = "state_update" /\ VariablesBlock(Schema(s), s.vars) # <<>>
                      \/ d.protocol = "html_patch" /\ \E i \in DOMAIN s.context : s.context[i].card
      texts == SelectSeq(s.defs, wanted)
      block == VariablesBlock(Schema(s), s.vars)
  IN  [i \in DOMAIN texts |->
         IF texts[i].protocol = "html_patch" THEN texts[i].content
         ELSE texts[i].content \o <<NL, NL>> \o [k \in DOMAIN block |-> block[k].name]]

-----------------------------------------------------------------------------
(* Messages. *)

System(text) == [role |-> "system", text |-> text, images |-> FALSE]

(* Adjacent messages of a role become one: their texts are joined, and the *)
(* first one's images are kept.                                            *)
Joining(out, m) == IF out # <<>> /\ Last(out).role = m.role
                   THEN [out EXCEPT ![Len(out)].text = @ \o <<NL>> \o m.text]
                   ELSE Append(out, m)
Merged(messages) == FoldLeft(Joining, <<>>, messages)

\* mutant
BuildMessagesInOrder(plan, history, included) ==
  Merged([i \in DOMAIN plan.before |-> System(plan.before[i])]
         \o (IF included THEN history ELSE <<>>)
         \o [i \in DOMAIN plan.after |-> System(plan.after[i])])

(* build_chat_messages: an included history that ends on a user's turn     *)
(* gives it up, and it comes last, merged with nothing.                    *)
BuildMessages(plan, history, included) ==
  LET shown == IF included THEN history ELSE <<>>
      turn == IF shown # <<>> /\ Last(shown).role = "user" THEN <<Last(shown)>> ELSE <<>>
      systems(texts) == [i \in DOMAIN texts |-> System(texts[i])]
  IN  Merged(systems(plan.before) \o SubSeq(shown, 1, Len(shown) - Len(turn))
             \o systems(plan.after)) \o turn

(* Prompt-side rules rewrite the copy that is sent, by role. *)
Rewritten(rules, m) ==
  LET text == ApplyRules(m.text, rules,
                         IF m.role = "assistant" THEN "ai_output" ELSE "user_input", "prompt")
  IN  IF m.role = "system" \/ text = NoText THEN m ELSE [m EXCEPT !.text = text]

(* assemble_request: without a history node the history is included. *)
AssembleRequest(s) ==
  LET plan == Assemble(s)
      rules == EffectiveRules(s)
      noNode == \A i \in DOMAIN s.nodes : s.nodes[i].kind # "history"
  IN  BuildMessages([plan EXCEPT !.after = @ \o ProtocolSegments(s)],
                    [i \in DOMAIN s.context |-> Rewritten(rules, s.context[i])],
                    plan.history \/ noNode)

-----------------------------------------------------------------------------
(* budget.rs *)

Counted(n, m) == n + Len(m.text)
Tokens(messages) == FoldLeft(Counted, 0, messages)

(* Over the window, the oldest go first, one by one until the rest fits;   *)
(* a leading system message and the last message stay.                     *)
Dropped(messages, window, acc, i) ==
  IF acc.size <= window THEN acc ELSE [size |-> acc.size - Len(messages[i].text), from |-> i]
TrimHistory(messages, window) ==
  LET first == IF Head(messages).role = "system" THEN 1 ELSE 0
      Drop(acc, i) == Dropped(messages, window, acc, i)
      dropped == FoldLeft(Drop, [size |-> Tokens(messages), from |-> first],
                          [k \in 1..(Len(messages) - 1 - first) |-> k + first]).from
  IN  IF Tokens(messages) <= window \/ Len(messages) <= 2 THEN messages
      ELSE SubSeq(messages, 1, first) \o SubSeq(messages, dropped + 1, Len(messages))
=============================================================================
