------------------------------ MODULE Providers -----------------------------
(***************************************************************************)
(* The adapters to the model providers (shirita-core/src/model): what goes *)
(* out in a request body, how the bytes that come back become events, and  *)
(* how the plain branch of generation_stream (conversation.rs) turns       *)
(* events into the text of a reply.                                        *)
(*                                                                         *)
(* The wire is a sequence of frames, one line each.  A frame is spelled in *)
(* three bytes: a lead byte and its continuation, one character, and the   *)
(* end of the line; a garbled frame has a stray continuation byte instead. *)
(* A byte knows its frame, so a line that is read whole is that frame.     *)
(***************************************************************************)
EXTENDS Integers, SequencesExt

Spelled(wire) ==
  FlattenSeq([i \in DOMAIN wire |->
    (IF "garbled" \in DOMAIN wire[i] THEN <<>> ELSE <<[at |-> i, byte |-> "lead"]>>)
    \o <<[at |-> i, byte |-> "more"], [at |-> i, byte |-> "eol"]>>])

Replacement == "?"   \* U+FFFD

(* decode_utf8_chunk: a character cut in two waits for its other half; a   *)
(* byte that cannot belong to one is replaced.  The end of a line is       *)
(* decoded to the place of its frame.                                      *)
Decode(held, chunk) ==
  LET Lost(h) == IF h = <<>> THEN <<>> ELSE <<[mark |-> Replacement]>>
      Read(acc, b) ==
        CASE b.byte = "lead" -> [held |-> <<b>>, out |-> acc.out \o Lost(acc.held)]
          [] b.byte = "more" ->
               [held |-> <<>>,
                out |-> Append(acc.out, [mark |-> IF acc.held = <<>> THEN Replacement ELSE "char"])]
          [] b.byte = "eol" ->
               [held |-> <<>>, out |-> acc.out \o Lost(acc.held) \o <<[mark |-> "eol", at |-> b.at]>>]
  IN  FoldLeft(Read, [held |-> held, out |-> <<>>], chunk)

-----------------------------------------------------------------------------
(* Frames to events.  A frame has the fields its JSON has: think, text,    *)
(* usage, parts (fragments of tool calls) and finish with OpenAI; start,   *)
(* args and stop of a tool's block with Anthropic.  An ending frame, an    *)
(* error and JSON that does not parse are kinds of their own.              *)

Event(e, v) == <<[e |-> e, v |-> v]>>
If(field, f, e) == IF field \in DOMAIN f THEN Event(e, f[field]) ELSE <<>>

NoCall == [id |-> <<>>, name |-> <<>>, args |-> <<>>]
Parses(args) == args # <<>> /\ Head(args) = "{" /\ Last(args) = "}"

(* ToolCallAccumulator::push: a part adds to the call at its index.        *)
Push(calls, part) ==
  LET grown == [i \in 1..(IF Len(calls) > part.index THEN Len(calls) ELSE part.index + 1) |->
                  IF i \in DOMAIN calls THEN calls[i] ELSE NoCall]
  IN  [grown EXCEPT ![part.index + 1] = [id |-> @.id \o part.id, name |-> @.name \o part.name,
                                         args |-> @.args \o part.args]]

(* One line of OpenAI's: what a stream has to say of it, then whether it   *)
(* is over.  Calls are handed out when the model finishes to call them,    *)
(* unless one's arguments do not parse: those before it are lost as well.  *)
OpenAiFrame(acc, f) ==
  LET calls == IF "parts" \in DOMAIN f THEN FoldLeft(Push, acc.calls, f.parts) ELSE acc.calls
      said == If("usage", f, "usage") \o If("think", f, "think") \o If("text", f, "text")
      due == "finish" \in DOMAIN f /\ f.finish = "tool_calls"
      broken == due /\ \E i \in DOMAIN calls : ~Parses(calls[i].args)
      handed == IF due THEN FlattenSeq([i \in DOMAIN calls |-> Event("call", calls[i])]) ELSE <<>>
  IN  CASE f.kind = "end" -> [acc EXCEPT !.over = "done"]
        [] f.kind \in {"error", "junk"} -> [acc EXCEPT !.over = "error"]
        [] f.kind = "comment" -> acc
        [] f.kind = "data" ->
             [acc EXCEPT !.calls = IF due THEN <<>> ELSE calls,
                         !.over = IF broken THEN "error" ELSE @,
                         !.events = @ \o said \o (IF broken THEN <<>>
                                                  ELSE handed \o If("finish", f, "finished"))]

(* One of Anthropic's.  A block's call is handed out when the block ends;  *)
(* without fragments its arguments are those it started with.  An error    *)
(* event is none of the kinds that are read, and is ignored.               *)
AnthropicFrame(acc, f) ==
  LET open == "stop" \in DOMAIN f /\ f.stop \in DOMAIN acc.calls
      call == acc.calls[f.stop]
      args == IF call.args = <<>> THEN call.initial
              ELSE IF Parses(call.args) THEN call.args ELSE <<"null">>
      Started(c) == (f.start.index :> [id |-> f.start.id, name |-> f.start.name,
                                       initial |-> f.start.args, args |-> <<>>]) @@ c
  IN  CASE f.kind = "junk" -> [acc EXCEPT !.over = "error"]
        [] f.kind \in {"end", "error", "comment"} -> acc
        [] f.kind = "data" ->
             [acc EXCEPT
               !.events = @ \o If("think", f, "think") \o If("text", f, "text")
                            \o (IF open THEN Event("call", [id |-> call.id, name |-> call.name,
                                                            args |-> args]) ELSE <<>>)
                            \o If("usage", f, "usage") \o If("finish", f, "finished"),
               !.calls = IF "start" \in DOMAIN f THEN Started(@)
                         ELSE IF open THEN [k \in DOMAIN @ \ {f.stop} |-> @[k]]
                         ELSE IF "args" \in DOMAIN f /\ f.args.index \in DOMAIN @
                         THEN [@ EXCEPT ![f.args.index].args = @ \o f.args.raw] ELSE @]

(* The loop of both adapters: chunks are decoded, lines are taken as they  *)
(* are completed; what follows the last line break is never read.  A       *)
(* garbled line still parses, with the replacement in its text.            *)
Received(adapter, wire, chunks, ending) ==
  LET Told(line, at) ==
        IF \E i \in DOMAIN line : line[i].mark = Replacement
        THEN [k \in DOMAIN wire[at] |-> IF k \in {"text", "think"} THEN Replacement ELSE wire[at][k]]
        ELSE wire[at]
      Take(acc, ch) ==
        IF acc.over # "open" THEN acc
        ELSE IF ch.mark # "eol" THEN [acc EXCEPT !.line = Append(@, ch)]
        ELSE LET rest == [acc EXCEPT !.line = <<>>]
             IN  IF adapter = "openai" THEN OpenAiFrame(rest, Told(acc.line, ch.at))
                 ELSE AnthropicFrame(rest, Told(acc.line, ch.at))
      Chunk(acc, c) ==
        LET decoded == Decode(acc.held, c)
        IN  FoldLeft(Take, [acc EXCEPT !.held = decoded.held], decoded.out)
      end == FoldLeft(Chunk, [held |-> <<>>, line |-> <<>>, calls |-> <<>>, events |-> <<>>,
                              over |-> "open"], chunks)
  IN  [events |-> end.events,
       over |-> IF end.over # "open" THEN end.over ELSE IF ending = "broken" THEN "error" ELSE "done"]

-----------------------------------------------------------------------------
(* Events to text: reasoning is put between tags. *)

(* render_delta *)
Render(acc, ev) ==
  LET think == ev.e = "think"
      tag == IF think /\ ~acc.reasoning THEN <<"<think>">>
             ELSE IF ~think /\ acc.reasoning THEN <<"</think>">> ELSE <<>>
  IN  IF ev.e \notin {"text", "think"} THEN acc
      ELSE [reasoning |-> think, text |-> acc.text \o tag \o <<ev.v>>]

\* mutant
CloseNever(acc) == acc.text

(* close_reasoning *)
CloseReasoning(acc) == IF acc.reasoning THEN Append(acc.text, "</think>") ELSE acc.text

(* generation_stream without the agent: the stop signal is looked at       *)
(* before each event; a failure throws the text away, a stop keeps it.     *)
Reply(received, stopAfter) ==
  LET stopped == stopAfter <= Len(received.events)
      events == SubSeq(received.events, 1, IF stopped THEN stopAfter ELSE Len(received.events))
      end == FoldLeft(Render, [reasoning |-> FALSE, text |-> <<>>], events)
  IN  IF ~stopped /\ received.over = "error" THEN [outcome |-> "failed", text |-> <<>>]
      ELSE [outcome |-> IF stopped THEN "stopped" ELSE "final", text |-> CloseReasoning(end)]
-----------------------------------------------------------------------------
(* Request bodies.  A message has a role, its words, images, the calls it  *)
(* makes and, when it answers one, that call's id; control marks what the  *)
(* agent loop adds between rounds.  Content is a sequence of parts, text   *)
(* alone being one of them.                                                *)

ContentPart(type, v) == [type |-> type, v |-> v]
Texts(m) == IF m.text = "" THEN <<>> ELSE <<ContentPart("text", m.text)>>
Parts(type, values) == [i \in DOMAIN values |-> ContentPart(type, values[i])]

(* openai_content *)
OpenAiContent(m) ==
  IF m.images = <<>> THEN <<ContentPart("text", m.text)>> ELSE Texts(m) \o Parts("image", m.images)

(* openai_messages: a result is a message of its role; the summary ends    *)
(* the first system message, or is one.  A system message has no images.   *)
OpenAiMessages(req) ==
  LET Out(m) == IF m.result # <<>> THEN [role |-> "tool", parts |-> Parts("result", m.result)]
                ELSE [role |-> m.role, parts |-> OpenAiContent(m) \o Parts("call", m.calls)]
      out == [i \in DOMAIN req.messages |-> Out(req.messages[i])]
      first == SelectInSeq(out, LAMBDA m : m.role = "system")
      summary == Parts("summary", req.summary)
  IN  IF summary = <<>> THEN out
      ELSE IF first = 0 THEN <<[role |-> "system", parts |-> summary]>> \o out
      ELSE [out EXCEPT ![first].parts = @ \o summary]

(* split_data_url: an image by its address alone is none; the program      *)
(* makes data URLs only (attachments.rs).                                  *)
Addresses == {"http"}
IsDataUrl(url) == url \notin Addresses

(* anthropic_content *)
AnthropicContent(m) ==
  IF m.result # <<>> THEN Parts("result", m.result)
  ELSE IF m.calls # <<>> THEN Texts(m) \o Parts("call", m.calls)
  ELSE IF m.images = <<>> THEN <<ContentPart("text", m.text)>>
  ELSE Texts(m) \o Parts("image", SelectSeq(m.images, IsDataUrl))

\* mutant
NoSystem(m) == m.role # "system"

(* What the agent loop says between two rounds keeps its place. *)
InSequence(m) == m.role # "system" \/ m.control

(* anthropic_body: instructions are lifted out of the conversation, which  *)
(* starts with the user; the summary comes before what the user says.      *)
AnthropicBody(req) ==
  LET turns == SelectSeq(req.messages, InSequence)
      out == [i \in DOMAIN turns |->
                [role |-> IF turns[i].role = "assistant" THEN "assistant" ELSE "user",
                 parts |-> AnthropicContent(turns[i])]]
      first == SelectInSeq(out, LAMBDA m : m.role = "user")
      kept == IF first = 0 THEN <<>> ELSE SubSeq(out, first, Len(out))
      summary == Parts("summary", req.summary)
      system == SelectSeq(req.messages, LAMBDA m : ~InSequence(m))
  IN  [system |-> [i \in DOMAIN system |-> system[i].text],
       messages |-> IF summary = <<>> THEN kept
                    ELSE IF first = 0 THEN <<[role |-> "user", parts |-> summary]>>
                    ELSE [kept EXCEPT ![1].parts = summary \o @]]
=============================================================================
