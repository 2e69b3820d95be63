----------------------------- MODULE MCAlgorithms ---------------------------
(***************************************************************************)
(* Inputs for Algorithms: for every job all the inputs of a small shape.   *)
(***************************************************************************)
EXTENDS Algorithms

(* Five entries that name one another, one letter each. *)
Key(i) == <<<<"k1">>, <<"k2">>, <<"k3">>, <<"k4">>, <<"k5">>>>[i]
Entry(i, mode, says, depth, recursive) ==
  [id |-> i, mode |-> mode, keys |-> <<Key(i)>>, depth |-> depth, recursive |-> recursive,
   content |-> IF says = 0 THEN <<"a">> ELSE <<"a">> \o Key(says)]
ActivateInputs ==
  {[job |-> "activate", rolled |-> rolled,
    recent |-> <<Key(4), Key(2), <<"a">>>>,
    entries |-> [i \in 1..5 |-> Entry(i, IF i = 1 THEN "random" ELSE IF i = c THEN "constant" ELSE "keyword",
                                      IF i = 5 THEN 0 ELSE says[i], IF i = 2 THEN depth ELSE 1, i # flat)]] :
   says \in {f \in [1..4 -> 0..5] : f[4] \in {0, 1, 5} /\ \A i \in 1..4 : f[i] # i}, rolled \in {{}, {1}}, c \in {0, 3}, depth \in {1, 3}, flat \in {0, 2}}

(* One tree and one pack, every place on or off. *)
Def(type, word, mode, blank) ==
  [type |-> type, name |-> <<"1", " ", "b">>, word |-> word, blank |-> blank, wrap |-> FALSE,
   content |-> IF blank THEN <<" ", "{{//", "hidden", "}}", NL>>
               ELSE <<word, "{{//", "hidden", "{{", "v", "}}", "hidden", "}}">>,
   trigger |-> [mode |-> mode, keys |-> <<>>], scan |-> <<>>, global |-> FALSE, decls |-> <<>>,
   protocol |-> ""]
SceneDefs(blank) ==
  <<Def("char", "w1", "constant", FALSE), Def("lore", "w2", "random", FALSE),
    Def("lore", "w3", "constant", blank), Def("html", "w4", "constant", FALSE),
    Def("lore", "w5", "constant", FALSE), Def("char", "w6", "random", FALSE),
    [Def("regex_rule", "rule", "constant", FALSE) EXCEPT !.global = TRUE]
      @@ [disabled |-> FALSE, scope |-> "prompt", targets |-> {}, pattern |-> "hi", with |-> <<"ho">>],
    [Def("protocol", "none", "constant", FALSE) EXCEPT !.protocol = "html_patch",
                                                        !.content = <<"protocol">>]>>
Node(parent, kind, d, on, one) ==
  [parent |-> parent, kind |-> kind, def |-> d, on |-> on, one |-> one, tag |-> "t",
   wrap |-> IF d = 1 THEN "yes" ELSE "unset"]
TreeNodes(on, first) ==
  LET body == <<Node(0, "ref", 1, on[1], FALSE), Node(0, "folder", 0, on[2], FALSE),
                Node(2, "ref", 2, on[3], FALSE), Node(2, "ref", 3, on[4], FALSE),
                Node(0, "history", 0, on[5], FALSE), Node(0, "content", 0, on[6], FALSE),
                Node(0, "ref", 4, TRUE, FALSE)>>
  IN  IF first THEN Append(body, Node(0, "ref", 9, TRUE, FALSE)) ELSE SubSeq(body, 1, 6)
PackNodes(on, one) ==
  <<Node(0, "folder", 0, on[1], one), Node(1, "ref", 2, on[2], FALSE), Node(1, "ref", 5, on[3], FALSE),
    Node(0, "ref", 6, TRUE, FALSE)>>
RequestInputs ==
  {[job |-> "request",
    scene |-> [defs |-> SceneDefs(blank), over |-> <<>>, vars |-> <<>>, rolled |-> rolled,
               nodes |-> TreeNodes(on, blank), packs |-> <<PackNodes(pon, one)>>, mounts |-> <<>>,
               locals |-> <<>>,
               context |-> <<[role |-> "user", text |-> <<"hi">>, card |-> blank, images |-> FALSE]>>]] :
   on \in [1..6 -> BOOLEAN], pon \in [1..3 -> BOOLEAN], one \in BOOLEAN, blank \in BOOLEAN,
   rolled \in {{}, {2}, {2, 6}}}

(* Up to four messages of a history, one or no segment on either side. *)
Message(role, i) == [role |-> role, text |-> <<i>>, images |-> FALSE]
Histories == {[i \in 1..n |-> Message(roles[i], <<"m1", "m2", "m3", "m4">>[i])] :
                n \in 0..4, roles \in [1..4 -> {"user", "assistant", "system"}]}
MessageInputs ==
  {[job |-> "messages", history |-> h, included |-> inc,
    plan |-> [before |-> b, after |-> a, history |-> TRUE]] :
   h \in Histories, inc \in BOOLEAN, b \in {<<>>, <<<<"b1">>, <<"b2">>>>}, a \in {<<>>, <<<<"a1">>>>}}

Sized(role, n) == [role |-> role, text |-> [i \in 1..n |-> "a"], images |-> FALSE]
TrimInputs ==
  {[job |-> "trim", window |-> w, messages |-> [i \in 1..n |-> Sized(IF i = 1 THEN r ELSE "user", s[i])]] :
   w \in {0, 2, 4}, n \in 1..4, r \in {"system", "user"}, s \in [1..4 -> 0..2]}

(* A variable declared three times over, one more, and what a reply says.  *)
Decl(n, type, v) == [name |-> n, type |-> type, initial |-> [type |-> type, val |-> v], scope |-> "none"]
Decls == {<<>>, <<Decl("x", "number", 1)>>, <<Decl("x", "list", <<>>)>>, <<Decl("x", "bool", FALSE)>>}
Lits == {NoValue, [text |-> "2", number |-> 2], [text |-> "9", number |-> 9],
         [text |-> "true", bool |-> TRUE], [text |-> "[a]", list |-> <<"a", "a", "a">>],
         [text |-> "a"]}
Update(a, k, l) == [piece |-> "state_update", action |-> a, key |-> k, lit |-> l]
Replies == {<<Update(a, k, l), [piece |-> "hp", groups |-> <<[text |-> "2", number |-> 2]>>], u>> :
              a \in Actions, k \in {"x", "y", "$mood", "$assistant_name"}, l \in Lits,
              u \in {Update("append", "x", [text |-> "a"]), Update("add", "x", [text |-> "2", number |-> 2]),
                     Update("toggle", "x", NoValue)}}
MCReserved == SystemNames \cup {"$mood"}
Brick(decls) == [type |-> "variables", name |-> "v", decls |-> decls]
VarScene(d1, d2, d3, name) ==
  [defs |-> <<Brick(d1), Brick(d2), [type |-> "char", name |-> "Ann", decls |-> <<>>],
              [type |-> "html", name |-> "h", decls |-> <<>>]>>,
   nodes |-> <<Node(0, "ref", 1, TRUE, FALSE), [Node(0, "folder", 0, TRUE, FALSE) EXCEPT !.tag = "panel"],
               Node(2, "ref", 4, TRUE, FALSE)>>, locals |-> d3, template |-> "T",
   mounts |-> <<[nodes |-> <<Node(0, "ref", 2, TRUE, FALSE), Node(0, "ref", 3, name # "", FALSE)>>,
                 name |-> name]>>]
HpRule == [disabled |-> FALSE, pattern |-> "hp", captures |-> <<"x">>]
TurnsWith(decls, names, leaves) ==
  {[job |-> "turn", scene |-> VarScene(d1, d2, d3, name), seed |-> <<>>, leaf |-> leaf, reply |-> r,
    rules |-> <<HpRule>>] :
   d1 \in decls \ {<<Decl("x", "bool", FALSE)>>}, d2 \in decls, d3 \in {<<Decl("y", "string", ""), Decl("$mood", "string", "")>>}, name \in names,
   leaf \in leaves, r \in Replies}
Leaves == {<<>>, "x" :> [type |-> "list", val |-> <<"a", "b">>],
           "x" :> [type |-> "number", val |-> 3] @@ "z" :> Text("old")}
TurnInputs == TurnsWith(Decls, {"Eve"}, Leaves)

(* A card of three tokens and replies with two blocks; one of the texts to *)
(* find overlaps itself.                                                   *)
Card == {<<"<html>">> \o c : c \in [1..3 -> {"a", "b"}]}
Block(f, r) == <<SearchMarker, f, SepMarker, r, ReplaceMarker>>
CardInputs ==
  {[job |-> "card", path |-> <<[shown |-> None, raw |-> c], [shown |-> None, raw |-> <<"a">>]>>,
    reply |-> <<<<"a">>>> \o Block(f, r) \o (IF two THEN Block(g, <<"a">>) ELSE <<SearchMarker, g>>)] :
   c \in Card, f \in {<<>>, <<"a">>, <<"a", "a">>, <<"a", "b">>}, r \in {<<>>, <<"b">>, <<"c">>},
   g \in {<<"b">>, <<"c">>, <<"b", "a">>}, two \in BOOLEAN}

XmlCalls == {<<>>, <<[id |-> "i", name |-> "n", arguments |-> <<Word("a")>>]>>,
             <<[id |-> "i", name |-> "n", arguments |-> <<Close, Open("k", "n")>>],
               [id |-> "j", name |-> "n", arguments |-> <<>>]>>}
XmlResults == {<<>>, <<[output |-> <<Word("a")>>]>>,
               <<[output |-> <<Open("k", "n"), Json("x"), Close>>], [output |-> <<Close>>]>>}
XmlInputs == {[job |-> "xml", words |-> w, calls |-> c, results |-> r] :
                w \in {<<>>, <<Word("a")>>}, c \in XmlCalls, r \in XmlResults}

(* Trees of four nodes in any order of rows, at most two levels deep. *)
Parents == {p \in [1..4 -> 0..4] : \A i \in 1..4 : p[i] # i /\ (p[i] # 0 => p[p[i]] = 0)}
TreeInputs ==
  {[job |-> "tree", defs |-> defs,
    nodes |-> [i \in 1..4 |-> [id |-> i, parent |-> p[i], on |-> on[i], ord |-> 5 - i,
                               kind |-> IF \E j \in 1..4 : p[j] = i THEN "folder" ELSE "ref",
                               def |-> IF \E j \in 1..4 : p[j] = i THEN NoRef ELSE (i % 3) + 1]]] :
   p \in Parents, on \in [1..4 -> BOOLEAN],
   defs \in {<<[text |-> "d1"], [text |-> "d2"], [text |-> "d3"]>>, <<[text |-> "d1"], [text |-> "d2"]>>}}

Paths == {"p", "q"}
FileInputs ==
  {[job |-> "files", fresh |-> <<"f1", "f2", "f3">>, files |-> files, zip |-> zip,
    doc |-> [face |-> face, nodes |-> <<>>,
             defs |-> <<[type |-> type, avatar |-> av, refs |-> refs]>>]] :
   face \in Paths \cup {""}, av \in Paths \cup {""}, type \in {"html", "char"},
   refs \in {<<>>, <<"q">>, <<"p", "q">>},
   zip \in UNION {[P -> {"b1", "b2"}] : P \in SUBSET Paths},
   files \in {<<>>, "p" :> "b2", "p" :> "b1" @@ "r" :> "b2"}}

PersistInputs ==
  {[job |-> "persist", onConflict |-> c, table |-> t,
    def |-> [name |-> n, type |-> ty, blank |-> b, avatar |-> ""]] :
   c \in {"skip", "overwrite", "duplicate"}, n \in {"", "Ann"}, ty \in {"char", "lore"}, b \in BOOLEAN,
   t \in {[k \in {} |-> 0], "old" :> [name |-> "Ann", type |-> "char", blank |-> FALSE, avatar |-> ""]}}

(* Three lines of either provider, cut once anywhere, whole or without     *)
(* their last byte.                                                        *)
CallPart(k, id, args) == [index |-> k, id |-> id, name |-> id, args |-> args]
OpenAiFrames(i) ==
  {[kind |-> "data", think |-> <<"u1", "u2", "u3">>[i]], [kind |-> "data", text |-> <<"t1", "t2", "t3">>[i]],
   [kind |-> "data", think |-> "both", text |-> "of them", garbled |-> TRUE],
   <<[kind |-> "data", parts |-> <<CallPart(1, <<"i1">>, <<"{">>), CallPart(0, <<"i0">>, <<"{", "}">>)>>],
     [kind |-> "data", parts |-> <<CallPart(1, <<>>, <<"a">>)>>, text |-> "and"],
     [kind |-> "data", parts |-> <<CallPart(1, <<>>, <<"}">>)>>, finish |-> "tool_calls"]>>[i]}
  \cup (IF i = 2 THEN {[kind |-> "end"], [kind |-> "error"], [kind |-> "comment"]} ELSE {})
AnthropicFrames(i) ==
  {[kind |-> "data", think |-> <<"u1", "u2", "u3">>[i]],
   [kind |-> "data", text |-> <<"t1", "t2", "t3">>[i], garbled |-> TRUE],
   <<[kind |-> "data", start |-> [index |-> 1, id |-> <<"i1">>, name |-> <<"n">>, args |-> <<>>]],
     [kind |-> "data", args |-> [index |-> 1, raw |-> <<"{", "}">>]], [kind |-> "data", stop |-> 1]>>[i],
   [kind |-> "data", usage |-> 1, finish |-> "end_turn"]}
  \cup (IF i = 2 THEN {[kind |-> "error"], [kind |-> "junk"]} ELSE {})
StreamsOf(adapter, Frames(_)) ==
  {LET bytes == Spelled(<<f1, f2, f3>>)
       all == SubSeq(bytes, 1, Len(bytes) - lost)
   IN  [job |-> "stream", adapter |-> adapter, wire |-> <<f1, f2, f3>>, stopAfter |-> stopAfter,
        chunks |-> <<SubSeq(all, 1, cut), SubSeq(all, cut + 1, Len(all))>>,
        ending |-> IF lost > 0 THEN "broken" ELSE "end"] :
     f1 \in Frames(1), f2 \in Frames(2), f3 \in Frames(3), cut \in 0..5, lost \in {0, 1}, stopAfter \in {2, 9}}
StreamInputs == StreamsOf("openai", OpenAiFrames) \cup StreamsOf("anthropic", AnthropicFrames)

(* Instructions, some history, the user's turn and a round of tool calls.  *)
Msg(role, text) == [role |-> role, text |-> text, images |-> <<>>, calls |-> <<>>, result |-> <<>>, control |-> FALSE]
Optional(messages) == {<<>>, messages}
BodyInputs ==
  {[job |-> "body", summary |-> summary,
    messages |-> system \o lead \o user \o late \o <<[Msg("user", turn) EXCEPT !.images = images]>> \o round] :
   summary \in Optional(<<"s">>), system \in Optional(<<Msg("system", "s1")>>),
   lead \in Optional(<<Msg("assistant", "a1")>>), user \in Optional(<<Msg("user", "u1"), Msg("assistant", "a2")>>),
   late \in Optional(<<Msg("system", "s2")>>), turn \in {"", "u2"}, images \in Optional(<<"p">>),
   round \in {<<>>,
     <<[Msg("assistant", "") EXCEPT !.calls = <<"c1", "c2">>], [Msg("user", "") EXCEPT !.result = <<"c1">>],
       [Msg("user", "") EXCEPT !.result = <<"c2">>], [Msg("system", "k1") EXCEPT !.control = TRUE]>>,
     <<[Msg("assistant", "a3") EXCEPT !.calls = <<"c1">>], [Msg("user", "") EXCEPT !.result = <<"c1">>],
       [Msg("system", "k1") EXCEPT !.control = TRUE], [Msg("assistant", "a4") EXCEPT !.calls = <<"c2">>],
       [Msg("user", "") EXCEPT !.result = <<"c2">>]>>}}

(* Two servers, up to two pages of tools whose names come close. *)
ToolNamed(n) == [name |-> n, nameless |-> FALSE, big |-> FALSE]
PageOf(names, next) == [tools |-> [i \in DOMAIN names |-> ToolNamed(names[i])], next |-> next]
Listings == {<<PageOf(<<<<"a">>, <<"A">>>>, 0)>>,
             <<PageOf(<<<<"a", "-">>>>, 2), PageOf(<<<<"a", "_", "2d", "_">>>>, 0)>>,
             <<PageOf(<<<<"a">>>>, 2), PageOf(<<<<"b">>>>, 1)>>,
             <<PageOf(<<<<"b">>, <<"a", ".">>>>, 2), PageOf(<<<<"a">>>>, 0)>>,
             <<[PageOf(<<<<"a">>>>, 0) EXCEPT !.tools[1].nameless = TRUE]>>}
ServersWith(id) == {[id |-> id, enabled |-> e, connects |-> c, pages |-> l] :
                      e \in BOOLEAN, c \in BOOLEAN, l \in Listings}
PolicyNames == {McpToolName(<<"x">>, <<"a">>), McpToolName(<<"x">>, <<"a", "-">>),
                McpToolName(<<"y">>, <<"a">>), McpToolName(<<"y">>, <<"b">>)}
RegistryInputs ==
  {[job |-> "registry", servers |-> <<s1, s2, [id |-> <<"z">>, enabled |-> TRUE, connects |-> TRUE,
                                                pages |-> <<PageOf(<<<<"b">>>>, 0)>>]>>,
    global |-> McpToolName(<<"z">>, <<"b">>) :> "allow" @@ [n \in g |-> "allow"],
    override |-> [n \in o |-> "ask"]] :
   s1 \in ServersWith(<<"x">>), s2 \in {s \in ServersWith(<<"y">>) : s.enabled},
   g \in {PolicyNames, {McpToolName(<<"x">>, <<"a">>)}},
   o \in {{}, {McpToolName(<<"x">>, <<"a">>), McpToolName(<<"y">>, <<"b">>)}}}

(* A record with two secrets, edited in every way. *)
Pairs == {<<>>} \cup {<<[key |-> "k", secret |-> v]>> : v \in {"", "v1"}}
         \cup {<<[key |-> k, secret |-> v], [key |-> l, secret |-> w]>> :
                 k \in {"k"}, l \in {"l", "host"}, v \in {"", "v1"}, w \in {"", "v2"}}
Config(id, kind, address, pairs) ==
  [id |-> id, name |-> "n", enabled |-> TRUE, timeout |-> 1, kind |-> kind, command |-> address,
   url |-> [scheme |-> address, credentials |-> address = "", host |-> "far"],
   pairs |-> pairs, hasSecret |-> FALSE]
ServerInputs ==
  {[job |-> "server", op |-> op, id |-> "s1", config |-> Config(id, kind, address, new),
    table |-> "s1" :> Config("s1", "http", "https", old) @@ "s2" :> Config("s2", "stdio", "cmd", <<>>)] :
   op \in {"update", "create", "delete"}, id \in {"", "s1", "s2"}, kind \in {"stdio", "http"},
   address \in {"https", "http", ""}, old \in Pairs, new \in Pairs}

(* Arguments of objects and an array, and up to four redirects. *)
Told(path) == [path |-> path, text |-> IF Sensitive(path) THEN "hidden" ELSE "plain"]
Around(path) == [path |-> path, text |-> ""]
Keys == {"password", "name"}
PreviewInputs ==
  {[job |-> "preview",
    arguments |-> <<Around(<<>>), Told(<<k>>), Around(<<m>>), Told(<<m, l>>), Around(<<m, "list">>),
                    Around(<<m, "list", "[]">>), Told(<<m, "list", "[]", n>>),
                    Told(<<m, "list", "[]", "x">>), Told(<<m, "list", "[]">>)>>] :
   k \in Keys, m \in {"in", "password"}, l \in Keys, n \in Keys}
RedirectInputs == {[job |-> "redirect", origin |-> "here", hops |-> SubSeq(h, 1, n)] :
                     h \in [1..4 -> {"here", "there"}], n \in 0..4}

(* Up to two calls on settings that any client may have left behind. *)
MCDefaultBlock == [enabled |-> FALSE, rounds |-> 2, calls |-> 1, timeout |-> 1, repeats |-> 1,
                   tools |-> {<<"s", ".", "math">>}, prompt |-> "fits", unfinished |-> "fits"]
MCHard == [rounds |-> 2, calls |-> 2, timeout |-> 2]
Blocks == {[MCDefaultBlock EXCEPT !.rounds = r, !.repeats = n, !.prompt = p] :
             r \in 0..3, n \in {1, 2}, p \in {"fits", "blank"}}
Stored == {[key \in {<<"agent", "rounds">>, <<"agent", "repeats">>, <<"agent", "tools">>, <<"max_tokens">>} |->
              CASE key = <<"agent", "rounds">> -> r [] key = <<"agent", "repeats">> -> n
                [] key = <<"agent", "tools">> -> TypedValue("names", t) [] key = <<"max_tokens">> -> TypedValue("num", k)] :
             r \in {TypedValue("num", v) : v \in {0, 2, 9}} \cup {TypedValue("text", "two")},
             n \in {TypedValue("num", v) : v \in {0, 1, 3, 8}},
             t \in {{}, {<<"s", ".", "math">>, <<"s", ".", "finish">>, <<"mcp">>}}, k \in {0, 3, 8}}
Overrides == {<<>>} \cup {<<[f \in DOMAIN MCDefaultBlock |-> TypedValue(FieldType[f], b[f])]>> : b \in Blocks}
             \cup {<<"rounds" :> v>> : v \in {TypedValue("num", 1), TypedValue("num", 9), TypedValue("text", "two")}}
Calls == {[op |-> o] : o \in {"get_session", "reset_global", "reset_session"}}
PutCalls == {[op |-> o, block |-> b] : o \in {"put_global", "put_session"}, b \in Blocks}
SettingsFrom(stored, overrides, Seqs) ==
  {[job |-> "settings", store |-> [settings |-> s, config |-> c, shown |-> <<>>], calls |-> q] :
   s \in stored, c \in overrides, q \in Seqs}
SettingsInputs ==
  SettingsFrom(Stored, Overrides, {<<[op |-> "get_session"]>>})
  \cup SettingsFrom({<<>>} \cup {s \in Stored : /\ s[<<"max_tokens">>].val = 8 /\ s[<<"agent", "tools">>].val = {}
                                            /\ s[<<"agent", "repeats">>].val = 3}, {<<>>} \cup {<<"rounds" :> TypedValue("num", 9)>>},
         {<<a, b>> : a \in PutCalls, b \in Calls}
         \cup {<<[op |-> "update_all", pairs |-> <<"agent", "rounds">> :> TypedValue("num", v)], b>> :
                 v \in {1, 3}, b \in Calls})

(* Up to three steps over an installation with or without the old keys. *)
Steps == {[op |-> "use", source |-> s] : s \in {"openai", "anthropic", "ollama"}}
         \cup {[op |-> "key", source |-> "openai", key |-> k] : k \in {"", "k1", "k2"}}
         \cup {[op |-> "key", source |-> "anthropic", key |-> k] : k \in {"old", "k2", "k3"}}
         \cup {[op |-> "reply"]}
Old == {<<>>, <<"flat", "api_key">> :> TypedValue("text", "old"),
        <<"flat", "api_key">> :> TypedValue("text", "old") @@ <<"flat", "model">> :> TypedValue("text", "m")
        @@ <<"of", "openai", "base_url">> :> TypedValue("text", "openai")
        @@ <<"of", "openai", "native_tools">> :> TypedValue("text", "auto")}
ProviderInputs == {[job |-> "provider", settings |-> o, env |-> e, steps |-> <<a, b, c>>] :
                     o \in Old, e \in {"", "ollama"}, a \in Steps, b \in Steps, c \in Steps}

(* Trees of operators, written with no more brackets than they need. *)
Leaf == {<<"n", d>> : d \in {"0", "1", "2", "3"}}
Shallow == Leaf \cup {<<"neg", l>> : l \in Leaf}
           \cup {<<op, l, r>> : op \in {"+", "-", "*", "/", "%", "^"}, l \in Leaf, r \in Leaf}
Trees == Shallow \cup {<<"neg", t>> : t \in Shallow}
         \cup {<<op, l, r>> : op \in {"+", "-", "/", "%"}, l \in Shallow, r \in Leaf}
         \cup {<<op, l, r>> : op \in {"-", "*", "/"}, l \in Leaf, r \in Shallow}
         \cup {<<"^", l, r>> : l \in Shallow, r \in Leaf}
         \cup {<<"^", l, <<"^", <<"n", "2">>, r>>>> : l \in Leaf, r \in Leaf}
Level(t) == CASE t[1] \in {"+", "-"} -> 1 [] t[1] \in {"*", "/", "%"} -> 2 [] t[1] = "^" -> 3
              [] t[1] = "neg" -> 4 [] t[1] = "n" -> 5
RECURSIVE Written(_, _), Postfix(_)
Written(t, level) ==
  LET k == Level(t)
      text == CASE t[1] = "n" -> <<t[2]>> [] t[1] = "neg" -> <<"-">> \o Written(t[2], 4)
                [] t[1] = "^" -> Written(t[2], 4) \o <<"^">> \o Written(t[3], 3)
                [] OTHER -> Written(t[2], k) \o <<t[1]>> \o Written(t[3], k + 1)
  IN  IF k < level THEN <<"(">> \o text \o <<")">> ELSE text
Postfix(t) == CASE t[1] = "n" -> <<t[2]>> [] t[1] = "neg" -> Append(Postfix(t[2]), "neg")
                [] OTHER -> Postfix(t[2]) \o Postfix(t[3]) \o <<t[1]>>
MathInputs == {[job |-> "math", postfix |-> Postfix(t), expression |-> Written(t, 1)] : t \in Trees}

MCInputs == <<ActivateInputs, RequestInputs, MessageInputs, TrimInputs, TurnInputs,
              CardInputs, XmlInputs, TreeInputs, FileInputs, PersistInputs, StreamInputs, BodyInputs,
              RegistryInputs, ServerInputs, PreviewInputs, RedirectInputs, SettingsInputs,
              ProviderInputs, MathInputs>>
MCCards == <<CardInputs>>
=============================================================================
