------------------------------ MODULE ReplyText -----------------------------
(***************************************************************************)
(* What a reply can carry besides prose: edits of the HTML card shown last *)
(* (shirita-core/src/html_patch.rs, with latest_html_card and              *)
(* resolve_display of conversation.rs) and, for models without tool calls  *)
(* of their own, calls in XML (shirita-core/src/xml_tools.rs).             *)
(***************************************************************************)
EXTENDS Integers, SequencesExt

-----------------------------------------------------------------------------
(* Cards.  A document is a sequence of tokens; a reply is a sequence of    *)
(* lines, each a sequence of tokens or a marker.                           *)

SearchMarker == <<"SEARCH">>
SepMarker == <<"SEPARATOR">>
ReplaceMarker == <<"REPLACE">>
NewLine == "\n"
None == <<"none">>

LinesJoined(lines) ==
  FlattenSeq([i \in DOMAIN lines |-> IF i = 1 THEN lines[i] ELSE <<NewLine>> \o lines[i]])

(* A card opens, behind a fence if there is one, with its doctype.         *)
IsHtmlDocument(text) ==
  LET s == IF text # <<>> /\ Head(text) = "fence" /\ NewLine \in ToSet(text)
           THEN SubSeq(text, SelectInSeq(text, LAMBDA t : t = NewLine) + 1, Len(text)) ELSE text
  IN  s # <<>> /\ Head(s) = "<html>"

(* A block that is not closed ends the parse. *)
ParsePatches(lines) ==
  LET Read(acc, line) ==
        CASE acc.mode = "prose" -> IF line = SearchMarker
                                   THEN [acc EXCEPT !.mode = "find", !.find = <<>>] ELSE acc
          [] acc.mode = "find" -> IF line = SepMarker
                                  THEN [acc EXCEPT !.mode = "replace", !.replace = <<>>]
                                  ELSE [acc EXCEPT !.find = Append(@, line)]
          [] acc.mode = "replace" ->
               IF line # ReplaceMarker THEN [acc EXCEPT !.replace = Append(@, line)]
               ELSE [acc EXCEPT !.mode = "prose",
                                !.out = Append(@, [find |-> LinesJoined(acc.find),
                                                   replace |-> LinesJoined(acc.replace)])]
  IN  FoldLeft(Read, [mode |-> "prose", find |-> <<>>, replace |-> <<>>, out |-> <<>>], lines).out

OccursAt(doc, find) ==
  {i \in 1..(Len(doc) - Len(find) + 1) : SubSeq(doc, i, i + Len(find) - 1) = find}
Replaced(doc, p, i) ==
  SubSeq(doc, 1, i - 1) \o p.replace \o SubSeq(doc, i + Len(p.find), Len(doc))

\* mutant
ApplyPatchesAnywhere(base, patches) ==
  FoldLeft(LAMBDA doc, p : IF doc = None \/ p.find = <<>> \/ OccursAt(doc, p.find) = {} THEN None
                           ELSE Replaced(doc, p, CHOOSE i \in OccursAt(doc, p.find) :
                                                   \A j \in OccursAt(doc, p.find) : i <= j),
           base, patches)

(* One after the other; the text to find must be there, and not again      *)
(* behind its first place: matches that overlap are not looked for.        *)
ApplyPatches(base, patches) ==
  LET Edit(doc, p) ==
        LET at == OccursAt(doc, p.find)
            first == CHOOSE i \in at : \A j \in at : i <= j
        IN  IF doc = None \/ p.find = <<>> \/ at = {} THEN None
            ELSE IF \E j \in at : j >= first + Len(p.find) THEN None
            ELSE Replaced(doc, p, first)
  IN  IF patches = <<>> THEN None ELSE FoldLeft(Edit, base, patches)

Reconstruct(base, lines) ==
  IF base = None THEN None ELSE ApplyPatches(base, ParsePatches(lines))

(* latest_html_card: the last message of the branch that shows a card, as  *)
(* it was rebuilt or as it was written.                                    *)
LatestCard(path) ==
  LET Card(m) == IF IsHtmlDocument(m.shown) THEN m.shown
                 ELSE IF IsHtmlDocument(m.raw) THEN m.raw ELSE None
      at == SelectLastInSeq(path, LAMBDA m : Card(m) # None)
  IN  IF at = 0 THEN None ELSE Card(path[at])

(* resolve_display: the edited card, else the reply without its tags when  *)
(* it had any, else nothing.                                               *)
ResolveDisplay(path, full, cleaned) ==
  LET card == Reconstruct(LatestCard(path), cleaned)
  IN  IF card # None THEN card
      ELSE IF cleaned # full THEN LinesJoined(cleaned) ELSE None

-----------------------------------------------------------------------------
(* Calls in XML.  A text is a sequence of pieces: words, opening tags with *)
(* their attributes, closing tags, JSON values; an opening that never ends *)
(* is "cut".                                                               *)

Word(w) == [t |-> "word", v |-> w]
Json(v) == [t |-> "json", v |-> v]
Open(id, name) == [t |-> "open", id |-> id, name |-> name]
Close == [t |-> "close"]
Malformed == [calls |-> <<"malformed">>, working |-> <<>>]

(* A call runs from its opening to the next closing tag; its body is one   *)
(* JSON value.  Calls without an id are numbered.                          *)
ParseXmlRound(text) ==
  LET Call(acc) == [id |-> IF acc.open.id = "" THEN <<"xml", Len(acc.calls) + 1>> ELSE <<acc.open.id>>,
                    name |-> acc.open.name, arguments |-> acc.body]
      Bad(acc) == \/ acc.open.name = "" \/ Len(acc.body) # 1 \/ acc.body[1].t # "json"
                  \/ \E i \in DOMAIN acc.calls : acc.calls[i].id = Call(acc).id
      Read(acc, p) ==
        IF acc.mode = "bad" THEN acc
        ELSE IF acc.mode = "body"
        THEN IF p.t # "close" THEN [acc EXCEPT !.body = Append(@, p)]
             ELSE IF Bad(acc) THEN [acc EXCEPT !.mode = "bad"]
             ELSE [acc EXCEPT !.mode = "prose", !.calls = Append(@, Call(acc)), !.stray = FALSE]
        ELSE IF p.t = "cut" THEN [acc EXCEPT !.mode = "bad"]
        ELSE IF p.t = "open" THEN [acc EXCEPT !.mode = "body", !.open = p, !.body = <<>>]
        ELSE [acc EXCEPT !.working = Append(@, p), !.stray = @ \/ p.t = "close"]
      end == FoldLeft(Read, [mode |-> "prose", calls |-> <<>>, working |-> <<>>, body |-> <<>>,
                             open |-> Close, stray |-> FALSE], text)
  IN  IF end.mode # "prose" \/ end.stray THEN Malformed
      ELSE [calls |-> end.calls, working |-> end.working]

\* mutant
RawJson(v) == v

(* safe_json: whatever a value holds, its text has no tag in it. *)
SafeJson(v) == <<Json(v)>>

RenderCall(c) == <<Open(c.id, c.name)>> \o SafeJson(c.arguments) \o <<Close>>
RenderResult(r) == <<Word("tool_result")>> \o SafeJson(r.output) \o <<Word("/tool_result")>>
=============================================================================
