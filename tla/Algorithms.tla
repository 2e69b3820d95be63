------------------------------ MODULE Algorithms ----------------------------
(***************************************************************************)
(* The pure parts of the program, run on one input at a time and compared  *)
(* with what they promise: prompt assembly, trimming, variables, card      *)
(* edits, calls in XML, bundles.  An input is a record whose job names the *)
(* operation; the answer is what the operation returns.                    *)
(***************************************************************************)
EXTENDS PromptRequest, Portable, ReplyText, Providers, McpSetup, RunSettings

CONSTANTS Inputs   \* a sequence of sets of inputs

EnvKey == "env key"   \* what the environment of the process holds

IsSequence(s) == s \in Seq(ToSet(s))

(* A reply updates the state its request was made with; the same items     *)
(* sent by a panel update what the panel shows.                            *)
TurnUpdates(in) == CapturePanelUpdates(in.reply, in.rules) \o ParseStateUpdates(in.reply)
PanelItems(in) == SelectSeq(in.reply, LAMBDA p : p.piece = "state_update")

(* What the inputs are: rows and arguments as the program types them.  The *)
(* word "hidden" is what a caller wants kept, and it lies under a key that *)
(* says so; no key that is typed for a provider is the word for none.      *)
RealConfigs(in) == /\ in.id \in DOMAIN in.table /\ in.config \in McpConfigs
                   /\ \A k \in DOMAIN in.table : in.table[k] \in McpConfigs
RealArguments(arguments) ==
  /\ arguments \in Seq([path : Seq(STRING), text : STRING])
  /\ \A i \in DOMAIN arguments :
       /\ arguments[i].text = "hidden" => Sensitive(arguments[i].path)
       /\ "hidden" \notin ToSet(arguments[i].path)
RealCall(call) ==
  \/ call.op \in {"get_session", "reset_global", "reset_session"}
  \/ call.op = "update_all" /\ IsTyped(call.pairs)
  \/ call.op \in {"put_global", "put_session"} /\ IsBlock(call.block)
RealSession(in) ==
  /\ DOMAIN in.store = {"settings", "config", "shown"} /\ IsTyped(in.store.settings)
  /\ in.store.config # <<>> => DOMAIN in.store.config = {1} /\ IsTyped(in.store.config[1])
  /\ in.calls # <<>> /\ IsSequence(in.calls) /\ \A i \in DOMAIN in.calls : RealCall(in.calls[i])
RealSteps(in) ==
  /\ IsSequence(in.steps)
  /\ \A i \in DOMAIN in.steps :
       LET step == in.steps[i]
       IN  \/ step.op \in {"reply", "use"}
           \/ step.op = "key" /\ step.key # "unset"
RealMessages(messages) ==
  messages \in Seq([role : STRING, text : Seq(STRING), images : BOOLEAN])
RealValue(value) == value.type = "list" => IsSequence(value.val)
RealState(state) == \A n \in DOMAIN state : RealValue(state[n])
RealDecls(decls) ==
  IsSequence(decls) /\ \A i \in DOMAIN decls : decls[i].type \in VarTypes /\ RealValue(decls[i].initial)
RealUpdates(updates) ==
  /\ IsSequence(updates)
  /\ \A i \in DOMAIN updates :
       LET lit == updates[i].lit
       IN  /\ "number" \in DOMAIN lit => Finite(lit.number)
           /\ "list" \in DOMAIN lit => IsSequence(lit.list)
RealTurn(in) ==
  /\ RealState(in.seed) /\ RealState(in.leaf)
  /\ RealUpdates(TurnUpdates(in)) /\ RealUpdates(PanelUpdates(PanelItems(in)))
  /\ RealDecls(in.scene.locals) /\ RealDecls(VariablesFromNodes(in.scene, in.scene.nodes))
  /\ IsSequence(in.scene.mounts)
  /\ \A i \in DOMAIN in.scene.mounts :
       RealDecls(VariablesFromNodes(in.scene, in.scene.mounts[i].nodes))
RealInput(in) ==
  /\ in.job = "messages" => /\ RealMessages(in.history)
                            /\ {in.plan.before, in.plan.after} \subseteq Seq(Seq(STRING))
  /\ in.job = "turn" => RealTurn(in)
  /\ in.job = "trim" => RealMessages(in.messages) /\ in.messages # <<>> /\ in.window \in Nat
  /\ in.job = "server" => RealConfigs(in)
  /\ in.job = "redirect" => in.hops \in Seq(STRING)
  /\ in.job = "preview" => RealArguments(in.arguments)
  /\ in.job = "settings" => RealSession(in)
  /\ in.job = "provider" => RealSteps(in)

ASSUME InputsAssumption == \A i \in DOMAIN Inputs : \A in \in Inputs[i] : RealInput(in)

VARIABLES input, answer, done

vars == <<input, answer, done>>

Pending == <<"pending">>

Init == /\ \E i \in DOMAIN Inputs : input \in Inputs[i]
        /\ answer = Pending /\ done = FALSE

Answers(job, value) == /\ ~done /\ input.job = job
                       /\ answer' = value /\ done' = TRUE
                       /\ UNCHANGED input

(* What a job of several steps answers. *)

ServerAnswer(in) ==
  [shown |-> Redacted(in.table[in.id]),
   saved |-> CASE in.op = "update" -> UpdateServer(in.table, in.id, in.config)
               [] in.op = "create" -> CreateServer(in.table, in.config, "fresh")
               [] in.op = "delete" -> DeleteServer(in.table, in.id)]

SessionAnswer(in) ==
  LET end == FoldLeft(Called, in.store, in.calls)
  IN  [shown |-> end.shown, config |-> end.config, run |-> RunBlock(end.settings, end.config),
       tokens |-> MaxTokens(end.settings), window |-> ContextWindow(end.settings)]

(* The user picks a source and types its key; a reply resolves it. *)
Configured(map, step) ==
  CASE step.op = "use" -> Inserted(map, <<"source">>, TypedValue("text", step.source))
    [] step.op = "key" -> Inserted(map, <<"of", step.source, "api_key">>, TypedValue("text", step.key))
    [] step.op = "reply" -> Migrate(map)
ProviderAnswer(in) ==
  LET end == Migrate(FoldLeft(Configured, in.settings, in.steps))
  IN  [source |-> Source(end), native |-> NativeTools(end), sent |-> Resolve(end, in.env, EnvKey)]

TurnAnswer(in) ==
  LET before == InjectIdentity(EffectiveState(Schema(in.scene), in.seed, in.leaf), Identity(in.scene))
  IN  [before |-> before, panels |-> SessionPanels(in.scene),
       after |-> ApplyUpdates(before, Schema(in.scene), TurnUpdates(in)),
       panel |-> BranchState(in.scene, in.seed,
                             PanelSnapshot(in.scene, in.seed, in.leaf, PanelItems(in)))]

RunActivate == Answers("activate", Activate(input.entries, input.recent, input.rolled))
RunRequest == Answers("request", AssembleRequest(input.scene))
RunMessages == Answers("messages", BuildMessages(input.plan, input.history, input.included))
RunTrim == Answers("trim", TrimHistory(input.messages, input.window))
RunTurn == Answers("turn", TurnAnswer(input))
RunCard == Answers("card", ResolveDisplay(input.path, input.reply, input.reply))
RunXml == Answers("xml", ParseXmlRound(input.words \o FlattenSeq(
                           [i \in DOMAIN input.calls |-> RenderCall(input.calls[i])]
                           \o [i \in DOMAIN input.results |-> RenderResult(input.results[i])])))
RunTree == Answers("tree", [template |-> Imported(ExportTemplate(input.nodes, input.defs)),
                            pack |-> Imported(ExportPack("", input.nodes, input.defs))])
RunFiles == Answers("files", ImportPack(input.doc, input.zip, input.files, input.fresh))
RunPersist == Answers("persist", PersistDef(input.table, input.def, input.onConflict, "new"))

RunStream ==
  LET got == Received(input.adapter, input.wire, input.chunks, input.ending)
  IN  Answers("stream", [reply |-> Reply(got, input.stopAfter),
                         calls |-> SelectSeq(got.events, LAMBDA ev : ev.e = "call")])
RunBody == Answers("body", [openai |-> OpenAiMessages(input), anthropic |-> AnthropicBody(input)])

RunRegistry == Answers("registry", BuildRegistry(input.servers, EffectivePolicy(input.global, input.override)))
RunServer == Answers("server", ServerAnswer(input))
RunPreview == Answers("preview", Preview(input.arguments))
RunRedirect == Answers("redirect", Visited(input.origin, input.hops))
RunSession == Answers("settings", SessionAnswer(input))
RunProvider == Answers("provider", ProviderAnswer(input))
RunCalculate == Answers("math", Calculate(input.expression))

Next == \/ RunActivate \/ RunRequest \/ RunMessages \/ RunTrim \/ RunTurn
        \/ RunCard \/ RunXml \/ RunTree \/ RunFiles \/ RunPersist
        \/ RunStream \/ RunBody \/ RunRegistry \/ RunServer \/ RunPreview
        \/ RunRedirect \/ RunSession \/ RunProvider \/ RunCalculate

Spec == Init /\ [][Next]_vars

Answered(job) == done /\ input.job = job

-----------------------------------------------------------------------------
(* Properties. *)

Mentions(text, key) ==
  \E i \in 1..(Len(text) - Len(key) + 1) : SubSeq(text, i, i + Len(key) - 1) = key

(* An entry is active when it is a seed, or when a chain of at most        *)
(* MaxRounds recursive entries leads to it from one, each saying a keyword *)
(* of the next: the order of the entries, who is active already and how    *)
(* the scanned text grows between two rounds do not matter.                *)
ActivationIsReach ==
  LET E == input.entries
      Said(i, j) == \E k \in DOMAIN E[j].keys : Mentions(E[i].content, E[j].keys[k])
      Window(i) == LastOf(input.recent, E[i].depth)
      Seed(i) == \/ E[i].mode = "constant"
                 \/ E[i].mode = "random" /\ E[i].id \in input.rolled
                 \/ /\ E[i].mode = "keyword"
                    /\ \E m \in DOMAIN Window(i), k \in DOMAIN E[i].keys :
                         Mentions(Window(i)[m], E[i].keys[k])
      near[d \in 0..MaxRounds] ==
        IF d = 0 THEN {i \in DOMAIN E : Seed(i)}
        ELSE near[d - 1] \cup {j \in DOMAIN E : /\ E[j].recursive /\ E[j].mode = "keyword"
                                                /\ \E i \in near[d - 1] : E[i].recursive /\ Said(i, j)}
  IN  Answered("activate") => answer = {E[i].id : i \in near[MaxRounds]}

(* What the request says of the definitions is exactly what is switched    *)
(* on: every place of the tree that is enabled, as its folder is, whose    *)
(* definition renders and is triggered says it once; every pack place once *)
(* per content node, and of a folder that selects one the first that has   *)
(* something to say.  No comment is sent.                                  *)
OnlyEnabledContent ==
  LET s == input.scene
      Live(nodes, i) == /\ nodes[i].on /\ Renders(s, nodes[i])
                        /\ s.defs[nodes[i].def].trigger.mode = "constant" \/ nodes[i].def \in s.rolled
                        /\ ~s.defs[nodes[i].def].blank
                        /\ nodes[i].parent # 0 => nodes[nodes[i].parent].on
      Spoken(nodes, i) == /\ Live(nodes, i)
                          /\ nodes[i].parent # 0 /\ nodes[nodes[i].parent].one =>
                               \A j \in 1..(i - 1) : nodes[j].parent = nodes[i].parent => ~Live(nodes, j)
      Places(nodes, d) == {i \in DOMAIN nodes : nodes[i].def = d /\ Spoken(nodes, i)}
      InTree(d) == Cardinality({i \in DOMAIN s.nodes : s.nodes[i].def = d /\ Live(s.nodes, i)})
      Contents == Cardinality({i \in DOMAIN s.nodes : s.nodes[i].kind = "content" /\ s.nodes[i].on})
      InPacks(d) == FoldLeft(LAMBDA n, p : n + Cardinality(Places(p, d)), 0, s.packs)
      sent == FlattenSeq([i \in DOMAIN answer |-> answer[i].text])
      Said(word) == Cardinality({i \in DOMAIN sent : sent[i] = word})
  IN  Answered("request") =>
        /\ \A d \in DOMAIN s.defs : Said(s.defs[d].word) = InTree(d) + Contents * InPacks(d)
        /\ Said("hidden") = 0

(* The texts, put end to end, are the segments before, the history, the    *)
(* segments after and the user's turn; the turn is the last message, as it *)
(* was written; no two messages before it follow each other with one role. *)
NothingIsLost ==
  LET shown == IF input.included THEN input.history ELSE <<>>
      ends == shown # <<>> /\ Last(shown).role = "user"
      texts == input.plan.before
               \o [i \in 1..(IF ends THEN Len(shown) - 1 ELSE Len(shown)) |-> shown[i].text]
               \o input.plan.after \o (IF ends THEN <<Last(shown).text>> ELSE <<>>)
      rest == IF ends THEN Front(answer) ELSE answer
  IN  Answered("messages") =>
        /\ Joined([i \in DOMAIN answer |-> answer[i].text]) = Joined(texts)
        /\ ends => Last(answer) = Last(shown)
        /\ \A i \in 1..(Len(rest) - 1) : rest[i].role # rest[i + 1].role

(* Trimming keeps the instructions and the turn and as much recent history *)
(* as fits; what it drops is one run of the oldest messages, and it drops  *)
(* no more than it must.                                                   *)
TrimKeepsEnds ==
  LET all == input.messages
      first == IF Head(all).role = "system" THEN 1 ELSE 0
      Without(k) == SubSeq(all, 1, first) \o SubSeq(all, first + k + 1, Len(all))
      k == Len(all) - Len(answer)
  IN  Answered("trim") =>
        /\ answer = Without(k)
        /\ Last(answer) = Last(all)
        /\ k > 0 => Tokens(Without(k - 1)) > input.window
        /\ Tokens(answer) <= input.window \/ Len(answer) <= 2

(* Nothing is lost, reordered or changed on the way to the provider but    *)
(* the old history that does not fit its window.                           *)
RequestIsWhole == NothingIsLost /\ TrimKeepsEnds

(* Declarations from the least to the most specific: tree, packs, session. *)
Sources(s) ==
  <<VariablesFromNodes(s, s.nodes)>>
  \o [i \in DOMAIN s.mounts |-> VariablesFromNodes(s, s.mounts[i].nodes)] \o <<s.locals>>
AllDecls(s) == FlattenSeq(Sources(s))
LastType(decls, n) == decls[SelectLastInSeq(decls, LAMBDA d : d.name = n)].type
(* How long a list may be: its bound, what it was, or what it is set to. *)
Lengths(before, updates, n) ==
  {MaxListLen}
  \cup {Len(before[k].val) : k \in {k \in DOMAIN before \cap {n} : before[k].type = "list"}}
  \cup {Len(u.lit.list) : u \in {u \in ToSet(updates) : u.action = "set" /\ u.key = n
                                                        /\ "list" \in DOMAIN u.lit}}

Follows(before, after, updates, decls) ==
  \A n \in DOMAIN after :
    \/ /\ n \in DOMAIN before
       /\ before[n].type = after[n].type /\ before[n].val = after[n].val
    \/ /\ n \in DeclNames(decls) /\ n \notin ReservedKeys
       /\ after[n].type = LastType(decls, n)
       /\ after[n].type = "list" => \E k \in Lengths(before, updates, n) : Len(after[n].val) <= k
       /\ after[n].type = "number" => Finite(after[n].val)

(* A reply or a panel changes no variable but declared ones, and leaves    *)
(* each with a value of the type its last declaration gives it; the names  *)
(* and faces of the two sides, and whatever else is reserved, are out of   *)
(* its reach.  No list grows past its bound by what is added to it; one    *)
(* that is set is as long as it is.                                        *)
UpdatesFollowSchema ==
  LET s == input.scene
  IN  Answered("turn") =>
        /\ Follows(answer.before, answer.after, TurnUpdates(input), AllDecls(s))
        /\ Follows(BranchState(s, input.seed, input.leaf), answer.panel,
                   PanelUpdates(PanelItems(input)), AllDecls(s))

(* Block k of a reply that was applied changed the card where its text    *)
(* stands, and at no other place that text stands had it changed it else.  *)
SureEdit(base, patches, k) ==
  LET doc == IF k = 1 THEN base ELSE ApplyPatches(base, SubSeq(patches, 1, k - 1))
  IN  /\ OccursAt(doc, patches[k].find) # {}
      /\ \A i \in OccursAt(doc, patches[k].find) :
           Replaced(doc, patches[k], i) = ApplyPatches(base, SubSeq(patches, 1, k))

OverlapsItself(text) ==
  \E n \in 1..(Len(text) - 1) : SubSeq(text, 1, n) = SubSeq(text, Len(text) - n + 1, Len(text))

(* A card is edited only by a whole reply, and only where the edit is      *)
(* meant: each block changes the card at a place where its text stands,    *)
(* and no other place could have been meant, of a text that does not       *)
(* overlap itself.  Otherwise the reply itself is shown.                   *)
CardEditsAreSure ==
  LET patches == ParsePatches(input.reply)
      base == LatestCard(input.path)
  IN  Answered("card") /\ answer # None =>
        /\ answer = ApplyPatches(base, patches)
        /\ \A k \in DOMAIN patches :
             SureEdit(base, patches, k) \/ OverlapsItself(patches[k].find)

(* The same of every text, as html_patch.rs:140-141 has it: "a `find` that *)
(* occurs more than once (or not at all) is ambiguous, so bail rather than *)
(* edit the wrong occurrence".                                             *)
EditsAreUnambiguous ==
  LET patches == ParsePatches(input.reply)
  IN  Answered("card") /\ answer # None =>
        \A k \in DOMAIN patches : SureEdit(LatestCard(input.path), patches, k)

(* A model that calls tools in XML reads its own calls back as they were,  *)
(* and nothing a call or a result carries is taken for another call.       *)
CallsSurviveXml ==
  Answered("xml") =>
    /\ answer.calls = [i \in DOMAIN input.calls |->
                         [id |-> <<input.calls[i].id>>, name |-> input.calls[i].name,
                          arguments |-> <<Json(input.calls[i].arguments)>>]]
    /\ Len(answer.working) = Len(input.words) + 3 * Len(input.results)

(* A tree as its owner sees it: places do not matter, positions do. *)
Described(nodes, defs) ==
  {[ord |-> nodes[i].ord, kind |-> nodes[i].kind, on |-> nodes[i].on,
    text |-> IF nodes[i].kind = "ref" THEN defs[nodes[i].def].text ELSE "",
    parent |-> IF nodes[i].parent = 0 THEN 0 ELSE nodes[nodes[i].parent].ord] :
   i \in DOMAIN nodes}

(* What is exported comes back: a pack whole, a template without what was  *)
(* switched off with its folder, both without the refs to definitions that *)
(* are gone, in whatever order the rows are listed.                        *)
BundleRoundTrips ==
  LET n == input.nodes
      Sound(i) == n[i].kind = "ref" => n[i].def \in DOMAIN input.defs
      On(i) == n[i].on /\ (n[i].parent # 0 => n[n[i].parent].on)
      Part(P(_)) == {d \in Described([i \in DOMAIN n |-> IF Sound(i) THEN n[i]
                                                          ELSE [n[i] EXCEPT !.kind = "gone"]],
                                     input.defs) :
                       \E i \in DOMAIN n : n[i].ord = d.ord /\ P(i)}
  IN  Answered("tree") =>
        /\ Described(answer.template.nodes, answer.template.defs) = Part(LAMBDA i : Sound(i) /\ On(i))
        /\ Described(answer.pack.nodes, answer.pack.defs) = Part(Sound)

(* Every image of an imported pack is the one that was packed, or blank if *)
(* it was not; no file that was there changes; equal bytes are kept once.  *)
NoDeadLinks ==
  LET Kept(p, q) == IF p \in DOMAIN input.zip
                    THEN q \in DOMAIN answer.files /\ answer.files[q] = input.zip[p] ELSE q = ""
      Refs(d) == SelectSeq(d.refs, LAMBDA p : p \in DOMAIN input.zip)
      old == input.doc.defs
  IN  Answered("files") =>
        /\ Kept(input.doc.face, answer.face)
        /\ \A i \in DOMAIN old :
             /\ Kept(old[i].avatar, answer.defs[i].avatar)
             /\ Marked(old[i]) =>
                  /\ Len(answer.defs[i].refs) = Len(Refs(old[i]))
                  /\ \A k \in DOMAIN Refs(old[i]) : Kept(Refs(old[i])[k], answer.defs[i].refs[k])
        /\ \A p \in DOMAIN input.files : answer.files[p] = input.files[p]
        /\ \A p, q \in DOMAIN answer.files \ DOMAIN input.files :
             answer.files[p] = answer.files[q] => p = q

(* What is there is only written over by a definition of the same name and *)
(* type and on demand, and keeps its id; what is not passed over arrives.  *)
NoneIsClobbered ==
  LET old == input.table
      Alike(k) == old[k].name = input.def.name /\ old[k].type = input.def.type
  IN  Answered("persist") =>
        /\ DOMAIN old \subseteq DOMAIN answer
        /\ \A k \in DOMAIN old : answer[k] # old[k] => input.onConflict = "overwrite" /\ Alike(k)
        /\ ~input.def.blank => \/ \E k \in DOMAIN answer : answer[k] = input.def
                               \/ input.onConflict = "skip" /\ \E k \in DOMAIN old : Alike(k)

(* Whatever the order of its rows and the names of its files, a bundle     *)
(* says after its import what it said before its export, and nothing that  *)
(* was there suffers from it.                                              *)
ImportIsWhole == BundleRoundTrips /\ NoDeadLinks /\ NoneIsClobbered

(* The reply is what the model sent, however the bytes were cut: the words *)
(* of the lines that arrived whole, in order, thinking inside balanced     *)
(* tags and nothing else, up to a stop or the end; a call is handed out    *)
(* with all its fragments, those of other calls apart.                     *)
ReplyIsWhatWasSent ==
  LET bytes == FlattenSeq(input.chunks)
      whole == SelectSeq(bytes, LAMBDA b : b.byte = "eol")
      frames == [i \in DOMAIN whole |-> input.wire[whole[i].at]]
      Fatal(f) == f.kind = "junk" \/ (input.adapter = "openai" /\ f.kind \in {"end", "error"})
      last == SelectInSeq(frames, Fatal)
      read == IF last = 0 THEN frames ELSE SubSeq(frames, 1, last - 1)
      WordOf(f, k) == IF k \in DOMAIN f /\ f.kind = "data"
                    THEN <<[think |-> k = "think", v |-> IF "garbled" \in DOMAIN f THEN Replacement ELSE f[k]]>>
                    ELSE <<>>
      sent == FlattenSeq([i \in DOMAIN read |-> WordOf(read[i], "think") \o WordOf(read[i], "text")])
      text == answer.reply.text
      Opened(i) == Cardinality({j \in 1..i : text[j] = "<think>"})
      Closed(i) == Cardinality({j \in 1..i : text[j] = "</think>"})
      heard == FlattenSeq([i \in DOMAIN text |->
                 IF text[i] \in {"<think>", "</think>"} THEN <<>>
                 ELSE <<[think |-> Opened(i) > Closed(i), v |-> text[i]]>>])
      Args(k) == FlattenSeq([i \in DOMAIN read |->
                   IF "parts" \in DOMAIN read[i]
                   THEN FlattenSeq([j \in DOMAIN read[i].parts |->
                          IF read[i].parts[j].index = k THEN read[i].parts[j].args ELSE <<>>])
                   ELSE IF "args" \in DOMAIN read[i] /\ read[i].args.index = k THEN read[i].args.raw
                   ELSE <<>>])
  IN  Answered("stream") =>
        /\ IsPrefix(heard, sent)
        /\ answer.reply.outcome = "final" => heard = sent
        /\ \A i \in DOMAIN text : Opened(i) - Closed(i) \in {0, 1}
        /\ Opened(Len(text)) = Closed(Len(text))
        /\ \A c \in DOMAIN answer.calls : \E k \in 0..1 :
             answer.calls[c].v.id = <<<<"i0">>, <<"i1">>>>[k + 1] /\ answer.calls[c].v.args = Args(k)

(* Both providers get the whole conversation: its parts in order, each     *)
(* once, save what the assistant said before the user ever spoke, which    *)
(* Anthropic refuses; every result after the call it answers; the summary  *)
(* once.  With Anthropic it comes before all that is said; with OpenAI it  *)
(* ends a system message, and that one comes first if the request starts   *)
(* with one or has none; else it stands where the first of them does,      *)
(* which may be after the conversation.                                    *)
BodyKeepsConversation ==
  LET m == input.messages
      AllParts(messages) == FlattenSeq([i \in DOMAIN messages |-> messages[i].parts])
      Plain(parts) == SelectSeq(parts, LAMBDA p : p.type # "summary" /\ p.v # "")
      Said(msgs) == FlattenSeq([i \in DOMAIN msgs |->
                      IF msgs[i].result # <<>> THEN Parts("result", msgs[i].result)
                      ELSE Texts(msgs[i]) \o Parts("image", msgs[i].images) \o Parts("call", msgs[i].calls)])
      spoken == SelectSeq(m, LAMBDA x : x.role # "system" \/ x.control)
      start == SelectInSeq(spoken, LAMBDA x : x.role = "user")
      openai == AllParts(answer.openai)
      anthropic == AllParts(answer.anthropic.messages)
      ResultsFollow(parts) == \A i \in DOMAIN parts : parts[i].type = "result" =>
                                \E j \in 1..(i - 1) : parts[j] = ContentPart("call", parts[i].v)
  IN  Answered("body") =>
        /\ Plain(openai) = Said(m)
        /\ Plain(anthropic) = Said(SubSeq(spoken, start, Len(spoken)))
        /\ answer.anthropic.system = [i \in 1..(Len(m) - Len(spoken)) |->
                                        SelectSeq(m, LAMBDA x : x.role = "system" /\ ~x.control)[i].text]
        /\ Head(answer.anthropic.messages).role = "user"
        /\ \A parts \in {openai, anthropic} :
             /\ ResultsFollow(parts)
             /\ Cardinality({i \in DOMAIN parts : parts[i].type = "summary"}) = Len(input.summary)
        /\ input.summary # <<>> =>
             /\ Head(anthropic).type = "summary"
             /\ \E i \in DOMAIN answer.openai :
                  /\ answer.openai[i].role = "system" /\ Last(answer.openai[i].parts).type = "summary"
                  /\ Head(m).role = "system" \/ (\A x \in ToSet(m) : x.role # "system") => i = 1

(* A run can call the tools that the policy lists and no other: a name     *)
(* stands for one tool of one of the first servers that could be reached,  *)
(* with the access the conversation gave it, else the global one; nothing  *)
(* takes the place of a built-in tool; and a listed tool is only missing   *)
(* when its name is taken or the run has as many as it may have.           *)
RunToolsAreAllowed ==
  LET on == SelectSeq(input.servers, LAMBDA s : s.enabled)
      Reached == {i \in DOMAIN on : i <= MaxEnabled /\ on[i].connects /\ ListTools(on[i].pages).ok}
      Offers(i) == {tool.name : tool \in UNION {Range(on[i].pages[p].tools) : p \in DOMAIN on[i].pages}}
      Access(n) == IF n \in DOMAIN input.override THEN input.override[n]
                   ELSE IF n \in DOMAIN input.global THEN input.global[n] ELSE "off"
      mcp == DOMAIN answer \ DOMAIN Builtin
  IN  Answered("registry") =>
        /\ \A n \in DOMAIN Builtin : answer[n] = Builtin[n]
        /\ Cardinality(mcp) <= MaxEffective
        /\ \A n \in mcp : Callable(answer, n, {})
        /\ \A n \in mcp : /\ McpToolName(answer[n].server, answer[n].tool) = n
                          /\ \E i \in Reached : answer[n].server = on[i].id /\ answer[n].tool \in Offers(i)
                          /\ Access(n) = IF answer[n].ask THEN "ask" ELSE "allow"
        /\ Cardinality(mcp) < MaxEffective =>
             \A i \in Reached : \A tool \in Offers(i) :
               LET n == McpToolName(on[i].id, tool)
               IN  Access(n) # "off" /\ ValidName(n) => n \in mcp

(* What the API shows of a server holds no secret.  An edit changes no     *)
(* record but the one its body names.  When that is the server of its path *)
(* (the settings view sends no other) and the transport is of the same     *)
(* kind, sending back what was shown with another name or address loses no *)
(* secret, where no key stands twice (the first secret of a key is the one *)
(* it keeps), and what is typed in replaces what was there.  A body that   *)
(* names another server replaces that one's record, and its blank secrets  *)
(* are filled from the server of the path.                                 *)
EditsKeepSecrets ==
  LET old == input.table[input.id]
      shown == answer.shown
      now == answer.saved[input.id]
      First(j) == \A k \in 1..(j - 1) : old.pairs[k].key # old.pairs[j].key
      stored == input.op = "update" /\ answer.saved # Refused
  IN  Answered("server") =>
        /\ ~HasSecrets(shown) /\ shown.hasSecret = HasSecrets(old)
        /\ stored => \A k \in DOMAIN input.table \ {input.config.id} : answer.saved[k] = input.table[k]
        /\ stored /\ input.config.id = input.id /\ input.config.kind = old.kind =>
             \A i \in DOMAIN now.pairs : \A j \in DOMAIN old.pairs :
               now.pairs[i].key = old.pairs[j].key /\ First(j) =>
                 now.pairs[i].secret = IF input.config.pairs[i].secret = "" THEN old.pairs[j].secret
                                       ELSE input.config.pairs[i].secret

(* Nothing secret leaves: no secret of a record follows a redirect to      *)
(* another place, and what a user is asked to approve shows no value under *)
(* a sensitive key, however deep it lies.                                  *)
NothingSecretLeaves ==
  /\ Answered("redirect") => ToSet(answer) = {input.origin} /\ Len(answer) <= MaxRedirects
  /\ Answered("preview") => "hidden" \notin ToSet(answer) /\ Len(answer) <= MaxPreview + 1

(* No secret is shown, sent elsewhere or lost by an edit of its server.    *)
SecretsStay == EditsKeepSecrets /\ NothingSecretLeaves

(* However the settings came to be, by the settings routes or by the       *)
(* general one, and whatever override an imported session brings, a run    *)
(* keeps its hard limits and never repeats a call more often than it has   *)
(* rounds; a valid block that the API shows is what the run uses; a limit  *)
(* of no tokens is never sent.                                             *)
RunStaysInBounds ==
  LET last == Last(input.calls).op
      forRun == last \in {"get_session", "put_session", "reset_session"} \/ answer.config = <<>>
  IN  Answered("settings") =>
        /\ Validates(answer.run)
        /\ forRun /\ answer.shown # <<>> =>
             (Validates(answer.shown[1]) => answer.run = answer.shown[1])
        /\ answer.tokens # <<0>>

(* A key that no setting held and that is typed for one source only. *)
OneSourceKey(in, key) ==
  /\ key \notin {"", EnvKey, "ollama"}
  /\ \A k \in DOMAIN in.settings : Setting(in.settings, k) # key
  /\ \A i, j \in DOMAIN in.steps :
       /\ in.steps[i].op = "key" /\ in.steps[i].key = key
       /\ in.steps[j].op = "key" /\ in.steps[j].key = key
       => in.steps[i].source = in.steps[j].source

(* Switching the source keeps the keys of all: the key last typed for a    *)
(* source, if it is not blank, is the one sent to it, and a key that is    *)
(* typed for one source alone, and was stored nowhere before, is never     *)
(* sent to another.  (A flat key of an old version is copied to every      *)
(* source that has none of its own.)                                       *)
SwitchKeepsKeys ==
  LET source == answer.source
      steps == input.steps
      Typed(i) == steps[i].op = "key" /\ steps[i].source = source
  IN  Answered("provider") =>
        /\ source # "ollama" =>
             \A i \in DOMAIN steps :
               Typed(i) /\ steps[i].key # "" /\ (\A j \in DOMAIN steps : j > i => ~Typed(j)) =>
                 answer.sent.api_key = steps[i].key
        /\ \A i \in DOMAIN steps :
             steps[i].op = "key" /\ OneSourceKey(input, steps[i].key)
               /\ answer.sent.api_key = steps[i].key => steps[i].source = source

(* What was set is what is used, within the hard limits.                   *)
RunUsesSettings == RunStaysInBounds /\ SwitchKeepsKeys

(* The value of an expression in postfix order, operands before their sign. *)
ValueOf(postfix) ==
  LET Pop(stack, n) == SubSeq(stack, 1, Len(stack) - n)
      Read(stack, t) ==
        LET y == Last(stack)
            x == stack[Len(stack) - 1]
        IN  IF t \in DOMAIN Numerals THEN Append(stack, <<Numerals[t], 1>>)
            ELSE IF t = "neg" THEN Append(Pop(stack, 1), IF y = NoNumber THEN y ELSE Neg(y))
            ELSE Append(Pop(stack, 2), IF NoNumber \in {x, y} THEN NoNumber ELSE Combined(t, x, y))
  IN  Head(FoldLeft(Read, <<>>, postfix))

(* The calculator reads an expression as it is written: operators of one   *)
(* level from the left, powers from the right, a sign closest of all.      *)
MathReadsTree == Answered("math") => answer = ValueOf(input.postfix)

(* A run calls what it may, and what the calculator answers is right. *)
ToolsAreSound == RunToolsAreAllowed /\ MathReadsTree
=============================================================================
