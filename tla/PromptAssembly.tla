--------------------------- MODULE PromptAssembly ---------------------------
(***************************************************************************)
(* What the model is sent: the effective prompt tree and the mounted packs *)
(* are filtered by triggers, rendered to segments, laid around the history *)
(* and trimmed to the context window (shirita-core/src/assembly.rs,        *)
(* keyword.rs, budget.rs and the first part of conversation.rs).           *)
(*                                                                         *)
(* Everything is a function of a scene, the rows one request reads:        *)
(*   defs      definitions in table order; an id is a place in it          *)
(*   over      the session's local_definitions: id -> fields it overrides  *)
(*   nodes     the effective tree, packs the mounted trees, in sort order; *)
(*             a node names its parent by its place, 0 at the root         *)
(*   vars      the effective state, schema its declarations (StateVars)    *)
(*   context   the visible messages, oldest first                          *)
(*   rolled    the definitions whose random trigger comes up               *)
(*                                                                         *)
(* A text is a sequence of tokens: letters (in lower case: keys and texts  *)
(* are folded before they are compared), blanks, the braces of variables   *)
(* and comments, the pieces of a tag.  A definition's name is a sequence   *)
(* of characters.                                                          *)
(***************************************************************************)
EXTENDS Integers, SequencesExt, StateVars

CONSTANTS MaxScanWindow,   \* the const of assemble_request
          MaxRounds,       \* of recursive activation
          DefaultDepth     \* DEFAULT_SCAN_DEPTH

ASSUME AssemblyAssumption ==
  /\ {MaxScanWindow, DefaultDepth} \subseteq Nat \ {0} /\ MaxRounds \in Nat

NL == "\n"
Blanks == {" ", NL}
IsBlank(text) == ToSet(text) \subseteq Blanks
Joined(texts) == FlattenSeq([i \in DOMAIN texts |->
                               IF i = 1 THEN texts[i] ELSE <<NL>> \o texts[i]])
LastOf(s, n) == SubSeq(s, IF Len(s) > n THEN Len(s) - n + 1 ELSE 1, Len(s))

-----------------------------------------------------------------------------
(* keyword.rs.  AhoCorasick::new matches as it reads, and find_iter goes   *)
(* on behind a match: what ends first is reported, the longest of those    *)
(* that end there, the first of equal ones, and nothing that overlaps it.  *)

(* The patterns of an index and their owners: blank keys are skipped. *)
PatternsOf(keyed) ==
  FlattenSeq([i \in DOMAIN keyed |->
                [k \in DOMAIN SelectSeq(keyed[i].keys, LAMBDA key : ~IsBlank(key)) |->
                   [id |-> keyed[i].id,
                    key |-> SelectSeq(keyed[i].keys, LAMBDA key : ~IsBlank(key))[k]]]])

EndsWith(text, key) == Len(key) <= Len(text) /\ LastOf(text, Len(key)) = key

Scan(keyed, text) ==
  LET ps == PatternsOf(keyed)
      Read(acc, token) ==
        LET seen == Append(acc.seen, token)
            ending == {p \in DOMAIN ps : EndsWith(seen, ps[p].key)}
            longest == {p \in ending : \A q \in ending : Len(ps[q].key) <= Len(ps[p].key)}
        IN  IF ending = {} THEN [acc EXCEPT !.seen = seen]
            ELSE [seen |-> <<>>,
                  hit |-> acc.hit \cup {ps[CHOOSE p \in longest : \A q \in longest : p <= q].id}]
  IN  FoldLeft(Read, [seen |-> <<>>, hit |-> {}], text).hit

-----------------------------------------------------------------------------
(* Texts: {{var}} and {{// comments }}. *)

(* Only scalars are rendered: an unknown key, or a list, stays as it is. *)
RenderVars(text, vars) ==
  LET Placeholder(i) == /\ i \in 1..(Len(text) - 2)
                        /\ text[i] = "{{" /\ text[i + 2] = "}}"
                        /\ text[i + 1] \in DOMAIN vars
                        /\ vars[text[i + 1]].type # "list"
  IN  FlattenSeq([i \in DOMAIN text |->
        IF Placeholder(i) THEN <<vars[text[i + 1]].val>>
        ELSE IF Placeholder(i - 1) \/ Placeholder(i - 2) THEN <<>> ELSE <<text[i]>>])

(* Comments nest; one alone on its line takes the blanks around it and the *)
(* newline behind it; an open one runs to the end.                         *)
StripComments(text) ==
  LET LineOf(out) == SelectLastInSeq(out, LAMBDA t : t = NL)
      Bare(out) == IsBlank(SubSeq(out, LineOf(out) + 1, Len(out)))
      Open(acc) == [acc EXCEPT !.depth = 1, !.eats = Bare(acc.out),
                               !.out = IF Bare(@) THEN SubSeq(@, 1, LineOf(@)) ELSE @]
      Inside(acc, token) ==
        [acc EXCEPT !.depth = IF token \in {"{{", "{{//"} THEN @ + 1
                              ELSE IF token = "}}" THEN @ - 1 ELSE @]
      Read(acc, token) ==
        IF acc.depth > 0 THEN Inside(acc, token)
        ELSE IF token = "{{//" THEN Open(acc)
        ELSE IF acc.eats /\ token = " " THEN acc
        ELSE IF acc.eats /\ token = NL THEN [acc EXCEPT !.eats = FALSE]
        ELSE [acc EXCEPT !.out = Append(@, token), !.eats = FALSE]
  IN  FoldLeft(Read, [out |-> <<>>, depth |-> 0, eats |-> FALSE], text).out

(* The name of a tag: blanks inside become one _, what XML forbids goes,   *)
(* and a name that does not start like one is prefixed.                    *)
Forbidden == {"<", ">", "&", "/"}
NameStart == {"a", "b", "_"}

SanitizeTag(name) ==
  LET Read(acc, c) ==
        IF c \in Blanks THEN [acc EXCEPT !.gap = acc.out # <<>>]
        ELSE IF c \in Forbidden THEN acc
        ELSE [out |-> (IF acc.gap THEN Append(acc.out, "_") ELSE acc.out) \o <<c>>, gap |-> FALSE]
      out == FoldLeft(Read, [out |-> <<>>, gap |-> FALSE], name).out
  IN  IF out # <<>> /\ Head(out) \notin NameStart THEN <<"tag_">> \o out ELSE out

Tagged(tag, text) == <<"<">> \o tag \o <<">", NL>> \o text \o <<NL, "</">> \o tag \o <<">">>

-----------------------------------------------------------------------------
(* What a definition says here: the session's override of a field, else    *)
(* its own.  A trigger is overridden as a whole, a scan setting too.       *)

Effective(s, d, field) ==
  IF d \in DOMAIN s.over /\ field \in DOMAIN s.over[d] THEN s.over[d][field]
  ELSE s.defs[d][field]

NonRendering == {"regex_rule", "first_message", "html", "css", "variables"}

EffectiveScan(s, d) ==
  LET scan == Effective(s, d, "scan")
      depth == IF "depth" \in DOMAIN scan THEN scan.depth ELSE DefaultDepth
  IN  [depth |-> IF depth = 0 THEN 1 ELSE depth,
       recursive |-> IF "recursive" \in DOMAIN scan THEN scan.recursive ELSE TRUE]

Body(s, d) == RenderVars(StripComments(Effective(s, d, "content")), s.vars)

(* The refs of a tree that name a definition that renders. *)
Renders(s, n) == /\ n.kind = "ref" /\ n.def \in DOMAIN s.defs
                 /\ s.defs[n.def].type \notin NonRendering

(* An entry for every one of them, switched on or not. *)
Entries(s) ==
  LET refs == SelectSeq(FlattenSeq(<<s.nodes>> \o s.packs), LAMBDA n : Renders(s, n))
  IN  [i \in DOMAIN refs |->
         [id |-> refs[i].def,
          mode |-> Effective(s, refs[i].def, "trigger").mode,
          keys |-> Effective(s, refs[i].def, "trigger").keys,
          content |-> Body(s, refs[i].def),
          depth |-> EffectiveScan(s, refs[i].def).depth,
          recursive |-> EffectiveScan(s, refs[i].def).recursive]]

(* Constant entries, random ones that come up, and those whose keys are    *)
(* in the window of messages their depth asks for; one index per depth.    *)
Seeds(entries, recent, rolled) ==
  LET ids(P(_)) == {entries[i].id : i \in {j \in DOMAIN entries : P(entries[j])}}
      grouped(n) == SelectSeq(entries, LAMBDA e : e.mode = "keyword" /\ e.depth = n)
      depths == {entries[i].depth : i \in DOMAIN entries}
  IN  ids(LAMBDA e : e.mode = "constant")
      \cup ids(LAMBDA e : e.mode = "random" /\ e.id \in rolled)
      \cup UNION {Scan(grouped(n), Joined(LastOf(recent, n))) : n \in depths}

\* mutant
ActivateAny(entries, recent, rolled) ==
  LET keyed == SelectSeq(entries, LAMBDA e : e.mode = "keyword")
      Round(active, k) ==
        active \cup Scan(keyed, Joined([i \in DOMAIN SelectSeq(entries, LAMBDA e : e.id \in active) |->
                                          SelectSeq(entries, LAMBDA e : e.id \in active)[i].content]))
  IN  FoldLeft(Round, Seeds(entries, recent, rolled), [k \in 1..MaxRounds |-> k])

(* Then what recursive entries say activates recursive entries, round by   *)
(* round: a round scans the text as it stood when the round began.         *)
Activate(entries, recent, rolled) ==
  LET recursive == SelectSeq(entries, LAMBDA e : e.recursive)
      keyed == SelectSeq(recursive, LAMBDA e : e.mode = "keyword")
      Said(active) == LET said == SelectSeq(recursive, LAMBDA e : e.id \in active)
                      IN  Joined([i \in DOMAIN said |-> said[i].content])
      Round(active, k) == active \cup Scan(keyed, Said(active))
  IN  FoldLeft(Round, Seeds(entries, recent, rolled), [k \in 1..MaxRounds |-> k])
=============================================================================
