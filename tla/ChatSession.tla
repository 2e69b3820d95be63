----------------------------- MODULE ChatSession ----------------------------
(***************************************************************************)
(* One chat session in the database and everything that works on it at the *)
(* same time:                                                              *)
(*   - streams: calls of send_message and regenerate (shirita-core/src/    *)
(*     conversation.rs), each registered with the generation registry;     *)
(*   - clients: edits, deletions, branch switches (shirita-web/src/routes/ *)
(*     messages.rs), stop, disconnection, deletion of the session;         *)
(*   - the background summarizer (summarize.rs) that a Done event spawns.  *)
(*                                                                         *)
(* Every storage call is one step: it takes effect, and the next call is   *)
(* issued; or it fails (CallFails, and a disjunct of ReadSummaries and of  *)
(* SummPlan).  A client's request whose call fails is one that goes no     *)
(* further.  A stream whose client is gone is dropped at the await it is    *)
(* in: the call it has issued takes effect or does not, and nothing else   *)
(* of it runs.  A stream that was aborted while it was being polled may    *)
(* still run through storage calls that complete inside that poll (module  *)
(* Generations); it never gets past a wait for the provider.               *)
(*                                                                         *)
(* Token counts, prompt assembly and the texts themselves are abstracted:  *)
(* a text is the number of the edit that wrote it, 0 for the original.     *)
(***************************************************************************)
EXTENDS MessageTree

CONSTANTS Streams,      \* calls of send_message / regenerate
          Clients,      \* clients that edit, delete, switch or drop
          Ops,          \* what the clients do, out of AllOps
          Kinds,        \* what the streams do, out of {"send", "regen"}
          Modes,        \* agent settings of a run, out of {"plain", "agent"}
          KeepRecent,   \* values of the setting context.keep_recent
          Free,         \* the session has no registered stream
          MaxMsg        \* bound: messages ever created

AllOps == {"edit", "hide", "unhide", "delete", "switch", "drop"}

ASSUME ChatAssumption == /\ Ops \subseteq AllOps
                         /\ Kinds \subseteq {"send", "regen"}
                         /\ Modes \subseteq {"plain", "agent"}
                         /\ KeepRecent \subseteq Nat
                         /\ Free \notin Streams
                         /\ MaxMsg \in Nat \ {0, 1}

VARIABLES
  exists,    \* the row of chat_sessions is there
  msg,       \* table messages: id -> [parent, role, text, hidden]
  leaf,      \* chat_sessions.active_leaf_id
  next,      \* id of the next message
  summaries, \* table summaries, in creation order
  edits,     \* edits made so far
  st,        \* the local state of each stream
  slot,      \* the registry: the registered stream, or Free
  aborted,   \* streams whose AbortHandle was fired
  stopped,   \* streams whose StopHandle was fired
  job,       \* the local state of each client's request
  claimed,   \* the session is in summarizing()
  summ       \* the local state of the summarizer task of each stream

db == <<exists, msg, leaf, next, summaries, edits>>
registry == <<slot, aborted, stopped>>
background == <<claimed, summ>>
vars == <<db, st, registry, job, background>>

Ids == 1 .. MaxMsg
Message(parent, role) ==
  [parent |-> parent, role |-> role, text |-> 0, hidden |-> FALSE]

(* A new session is empty or holds what seed_first_message puts there: an  *)
(* anchor user turn and the greetings as its children, the first active.   *)
EmptyTree == [m \in {} |-> Message(NoMsg, "user")]
SeededTree == [m \in {1, 2} |-> IF m = 1 THEN Message(NoMsg, "user")
                                         ELSE Message(1, "assistant")]

(* A summary: the last message it stands for, the messages its text tells, *)
(* those left out of it as hidden, and (not in the table, but for the      *)
(* property OneSummaryPerCutoff) whether its task passed over the summary  *)
(* before it.                                                              *)
NoSummary == [cutoff |-> NoMsg, covers |-> {}, skips |-> {}, blind |-> FALSE]

IdleStream == [pc |-> "idle", kind |-> "send", mode |-> "plain", target |-> NoMsg,
               clone |-> 0, leaf |-> NoMsg, path |-> << >>,
               cut |-> 0, sent |-> NoSummary, parent |-> NoMsg, got |-> FALSE, reply |-> NoMsg,
               via |-> "none"]
IdleJob == [pc |-> "idle", op |-> "none", target |-> NoMsg, text |-> 0,
            hidden |-> FALSE, ids |-> {}, leaf |-> NoMsg]
IdleSumm == [pc |-> "idle", leaf |-> NoMsg, path |-> << >>, shown |-> {},
             cutoff |-> NoMsg, covers |-> {}, skips |-> {}, blind |-> FALSE]

Init == /\ exists = TRUE
        /\ \/ msg = EmptyTree /\ leaf = NoMsg /\ next = 1
           \/ msg = SeededTree /\ leaf = 2 /\ next = 3
        /\ summaries = << >>
        /\ edits = 0
        /\ st = [r \in Streams |-> IdleStream]
        /\ slot = Free
        /\ aborted = {}
        /\ stopped = {}
        /\ job = [c \in Clients |-> IdleJob]
        /\ claimed = FALSE
        /\ summ = [r \in Streams |-> IdleSumm]

-----------------------------------------------------------------------------
(* Storage calls. *)

MayInsertUnderAnyParent(parent) == exists                         \* mutant
MayInsertIntoAnySession(parent) ==                                \* mutant
  parent = NoMsg \/ parent \in DOMAIN msg

(* INSERT INTO messages: refused when the session or the parent is gone. *)
MayInsert(parent) == exists /\ (parent = NoMsg \/ parent \in DOMAIN msg)

Insert(parent, role) ==
  /\ msg' = [m \in DOMAIN msg \cup {next} |->
               IF m = next THEN Message(parent, role) ELSE msg[m]]
  /\ next' = next + 1

(* UPDATE messages: the text and the hidden flag of a row, if it is there. *)
Update(m, text, hidden) ==
  msg' = IF m \in DOMAIN msg
           THEN [msg EXCEPT ![m].text = text, ![m].hidden = hidden]
           ELSE msg

(* UPDATE chat_sessions SET active_leaf_id: no row, no effect. *)
PointLeafAt(m) == leaf' = IF exists THEN m ELSE leaf

Cutoffs == {summaries[i].cutoff : i \in DOMAIN summaries}

(* list_summaries, and max_by_key over those whose cutoff lies on the path: *)
(* the latest cutoff, and of two summaries of it the newer one.             *)
Applicable(path) ==
  LET start == AppliedAt(Cutoffs, path)
  IN  IF start = 0 THEN NoSummary
        ELSE summaries[Newest({i \in DOMAIN summaries : summaries[i].cutoff = path[start]})]

-----------------------------------------------------------------------------
(* Streams. *)

Ended == {"cut", "over"}
Running(r) == st[r].pc \notin Ended \cup {"idle"}

(* What is left of a stream that has ended, for the properties to look at: *)
(* of one that replied, what it answered.                                  *)
Remains(r, pc) ==
  IF st[r].reply = NoMsg THEN [IdleStream EXCEPT !.pc = pc]
    ELSE [IdleStream EXCEPT !.pc = pc, !.kind = st[r].kind, !.path = st[r].path,
                            !.parent = st[r].parent, !.reply = st[r].reply]

(* The stream's call has returned, these fields hold what it brought; those *)
(* that nothing looks at any more are set back.                             *)
Proceed(r, new) == st' = [st EXCEPT ![r] = new]

Fail(r) == Proceed(r, [Remains(r, "closing") EXCEPT !.via = "error"])

(* The session's slot goes to a new holder, or to nobody: whoever holds it *)
(* is aborted and stopped (Generations, Install and Remove).               *)
GiveSlot(new) == /\ slot' = new
                 /\ aborted' = aborted \cup ({slot} \ {Free})
                 /\ stopped' = stopped \cup ({slot} \ {Free})

(* A request arrives and its stream takes the session's slot. *)
Start(r) ==
  /\ st[r].pc = "idle"
  /\ \E kind \in Kinds, target \in Ids :
       /\ kind = "send" => target = 1
       /\ kind = "regen" => target \in DOMAIN msg
       /\ Proceed(r, [IdleStream EXCEPT !.pc = "session", !.kind = kind,
                        !.target = IF kind = "send" THEN NoMsg ELSE target])
  /\ GiveSlot(r)
  /\ UNCHANGED <<db, job, background>>

(* get_session *)
ReadSession(r) ==
  /\ st[r].pc = "session"
  /\ \/ ~exists /\ Fail(r)
     \/ exists /\ Proceed(r, [st[r] EXCEPT !.pc = "history", !.leaf = leaf])
  /\ UNCHANGED <<db, registry, job, background>>

(* list_messages, and active_path over what it returned; of the branch the *)
(* prompt gets the turns that are not hidden.                              *)
ReadHistorySend(r) ==
  /\ st[r].pc = "history" /\ st[r].kind = "send"
  /\ LET path == ActivePath(msg, st[r].leaf)
     IN  Proceed(r, [st[r] EXCEPT !.pc = "user", !.leaf = NoMsg, !.path = path,
                                   !.parent = Last0(path)])
  /\ UNCHANGED <<db, registry, job, background>>

IsReply(m) == m \in DOMAIN msg /\ msg[m].role = "assistant"

(* The target must be an assistant message; it is cloned here, and the     *)
(* prompt is the branch that ends in its parent.                           *)
ReadHistoryRegen(r) ==
  /\ st[r].pc = "history" /\ st[r].kind = "regen"
  /\ LET target == st[r].target
     IN  \/ ~IsReply(target) /\ Fail(r)
         \/ IsReply(target) /\ Proceed(r,
              [st[r] EXCEPT !.pc = "summaries", !.clone = msg[target].text, !.leaf = NoMsg,
                            !.path = ActivePath(msg, msg[target].parent),
                            !.parent = msg[target].parent])
  /\ UNCHANGED <<db, registry, job, background>>

(* create_message of the user's turn; the active leaf stays where it is. *)
CreateUser(r) ==
  /\ st[r].pc = "user"
  /\ \/ /\ MayInsert(st[r].parent) /\ next <= MaxMsg
        /\ Insert(st[r].parent, "user")
        /\ Proceed(r, [st[r] EXCEPT !.pc = "summaries", !.parent = next])
     \/ ~MayInsert(st[r].parent) /\ Fail(r) /\ UNCHANGED <<msg, next>>
  /\ UNCHANGED <<exists, leaf, summaries, edits, registry, job, background>>

VisibleFromTooLate(path) ==                                       \* mutant
  IF AppliedAt(Cutoffs, path) = 0 THEN 0
                                  ELSE Min({Len(path), AppliedAt(Cutoffs, path) + 1})

(* applicable_summary: it is sent, and the history starts after its cutoff. *)
(* If the list cannot be read the whole history is sent.                    *)
VisibleFrom(path) == AppliedAt(Cutoffs, path)

ReadSummaries(r) ==
  /\ st[r].pc = "summaries"
  /\ \/ Proceed(r, [st[r] EXCEPT !.pc = "ask", !.cut = VisibleFrom(st[r].path),
                                  !.sent = Applicable(st[r].path)])
     \/ Proceed(r, [st[r] EXCEPT !.pc = "ask", !.cut = 0, !.sent = NoSummary])
  /\ UNCHANGED <<db, registry, job, background>>

(* Assembly, then provider.stream_chat(..).await: nothing races with it. *)
ProviderConnects(r) ==
  /\ st[r].pc = "ask" /\ r \notin aborted
  /\ \E mode \in Modes :
       Proceed(r, [st[r] EXCEPT !.pc = "streaming", !.mode = mode])
  /\ UNCHANGED <<db, registry, job, background>>

ProviderRefuses(r) ==
  /\ st[r].pc = "ask" /\ r \notin aborted
  /\ Fail(r)
  /\ UNCHANGED <<db, registry, job, background>>

(* The select! is biased: once stop was signalled no chunk is taken. *)
Receiving(r) == st[r].pc = "streaming" /\ r \notin aborted /\ r \notin stopped

Chunk(r) ==
  /\ Receiving(r) /\ st[r].mode = "plain"
  /\ Proceed(r, [st[r] EXCEPT !.got = TRUE])
  /\ UNCHANGED <<db, registry, job, background>>

(* The request is behind the stream; regenerate hides its target before it *)
(* stores the new reply.                                                   *)
Persisting(r, via) ==
  [st[r] EXCEPT !.pc = IF st[r].kind = "regen" THEN "hide" ELSE "reply",
                !.via = via, !.cut = 0, !.sent = NoSummary, !.got = FALSE]

ProviderEnds(r) ==
  /\ Receiving(r)
  /\ Proceed(r, Persisting(r, "done"))
  /\ UNCHANGED <<db, registry, job, background>>

(* A provider error, or an agent run that ends without a finish: whatever  *)
(* text came in is discarded.                                              *)
ProviderFails(r) ==
  /\ Receiving(r)
  /\ Fail(r)
  /\ UNCHANGED <<db, registry, job, background>>

HonourStopAfterText(r) ==                                         \* mutant
  /\ st[r].pc = "streaming" /\ r \in stopped /\ st[r].got
  /\ Proceed(r, Persisting(r, "stopped"))
  /\ UNCHANGED <<db, registry, job, background>>

(* Stop: a plain run persists what it has, an agent run has nothing.  An   *)
(* aborted stream sees its stop signal if it is being polled just then.    *)
HonourStop(r) ==
  /\ st[r].pc = "streaming" /\ r \in stopped
  /\ Proceed(r, IF st[r].mode = "plain" THEN Persisting(r, "stopped")
                   ELSE [Remains(r, "closing") EXCEPT !.via = "stopped"])
  /\ UNCHANGED <<db, registry, job, background>>

(* update_message(hidden_target): the clone taken in ReadHistoryRegen is   *)
(* written back whole; the result is ignored.                              *)
HideTarget(r) ==
  /\ st[r].pc = "hide"
  /\ Update(st[r].target, st[r].clone, TRUE)
  /\ Proceed(r, [st[r] EXCEPT !.pc = "reply"])
  /\ UNCHANGED <<exists, leaf, next, summaries, edits, registry, job, background>>

(* The reply hangs from the user turn just created (send_message) or from  *)
(* the parent of the target as it was read (regenerate).                   *)
ActiveLeafNow(r) == leaf                                          \* mutant
ReplyParent(r) == st[r].parent

(* create_message of the reply. *)
CreateReply(r) ==
  /\ st[r].pc = "reply"
  /\ \/ /\ MayInsert(ReplyParent(r)) /\ next <= MaxMsg
        /\ Insert(ReplyParent(r), "assistant")
        /\ Proceed(r, [st[r] EXCEPT !.pc = "leaf", !.reply = next])
     \/ ~MayInsert(ReplyParent(r)) /\ Fail(r) /\ UNCHANGED <<msg, next>>
  /\ UNCHANGED <<exists, leaf, summaries, edits, registry, job, background>>

(* set_session_active_leaf *)
AdvanceLeaf(r) ==
  /\ st[r].pc = "leaf"
  /\ PointLeafAt(st[r].reply)
  /\ Proceed(r, [st[r] EXCEPT !.pc = "closing"])
  /\ UNCHANGED <<exists, msg, next, summaries, edits, registry, job, background>>

ClaimAnyway == TRUE                                               \* mutant
MayClaim == ~claimed

(* The terminal event goes out: Done claims the summarizer and spawns it,  *)
(* and the slot is freed if it is still this stream's.                     *)
Close(r) ==
  /\ st[r].pc = "closing"
  /\ Proceed(r, Remains(r, "over"))
  /\ slot' = IF slot = r THEN Free ELSE slot
  /\ IF st[r].via = "done" /\ MayClaim
       THEN claimed' = TRUE /\ summ' = [summ EXCEPT ![r].pc = "session"]
       ELSE UNCHANGED background
  /\ UNCHANGED <<db, aborted, stopped, job>>

(* A storage call returns an error.  That of HideTarget is ignored, and so *)
(* is that of AdvanceLeaf in send_message; any other ends the stream.      *)
CallFails(r) ==
  /\ \/ st[r].pc \in {"session", "history", "user", "reply"} /\ Fail(r)
     \/ st[r].pc = "leaf" /\ st[r].kind = "regen" /\ Fail(r)
     \/ /\ st[r].pc = "leaf" /\ st[r].kind = "send"
        /\ Proceed(r, [st[r] EXCEPT !.pc = "closing"])
     \/ st[r].pc = "hide" /\ Proceed(r, [st[r] EXCEPT !.pc = "reply"])
  /\ UNCHANGED <<db, registry, job, background>>

(* The storage call that a dropped stream had issued: it takes effect, or  *)
(* it does not.                                                            *)
LastCall(r) ==
  \/ UNCHANGED db
  \/ /\ st[r].pc = "user" /\ MayInsert(st[r].parent) /\ next <= MaxMsg
     /\ Insert(st[r].parent, "user")
     /\ UNCHANGED <<exists, leaf, summaries, edits>>
  \/ /\ st[r].pc = "reply" /\ MayInsert(ReplyParent(r)) /\ next <= MaxMsg
     /\ Insert(ReplyParent(r), "assistant")
     /\ UNCHANGED <<exists, leaf, summaries, edits>>
  \/ /\ st[r].pc = "hide"
     /\ Update(st[r].target, st[r].clone, TRUE)
     /\ UNCHANGED <<exists, leaf, next, summaries, edits>>
  \/ /\ st[r].pc = "leaf"
     /\ PointLeafAt(st[r].reply)
     /\ UNCHANGED <<exists, msg, next, summaries, edits>>

(* The stream is dropped; its closure never runs, the slot is not freed. *)
Dropped(r) == /\ Running(r)
              /\ Proceed(r, Remains(r, "cut"))
              /\ LastCall(r)
              /\ UNCHANGED <<registry, job, background>>

(* An aborted stream ends at an await. *)
Cut(r) == r \in aborted /\ Dropped(r)

(* The client goes away, and the server drops the response body. *)
Disconnect(r) == Dropped(r)

-----------------------------------------------------------------------------
(* The other requests of the clients. *)

Served == [IdleJob EXCEPT !.pc = "done"]
Become(c, new) == job' = [job EXCEPT ![c] = new]
Untouched == UNCHANGED <<st, background>>

(* abort_message *)
Stop ==
  /\ slot # Free
  /\ stopped' = stopped \cup {slot}
  /\ UNCHANGED <<db, slot, aborted, job>> /\ Untouched

(* edit_message: get_message, then update_message of the patched clone. *)
ReadForEdit(c) ==
  /\ job[c].pc = "idle"
  /\ \E m \in DOMAIN msg, op \in Ops \cap {"edit", "hide", "unhide"} :
       /\ Become(c, [IdleJob EXCEPT !.pc = "edit", !.op = op, !.target = m,
                       !.text = IF op = "edit" THEN edits + 1 ELSE msg[m].text,
                       !.hidden = IF op = "edit" THEN msg[m].hidden
                                                 ELSE op = "hide"])
       /\ edits' = IF op = "edit" THEN edits + 1 ELSE edits
  /\ UNCHANGED <<exists, msg, leaf, next, summaries, registry>> /\ Untouched

WriteEdit(c) ==
  /\ job[c].pc = "edit"
  /\ Update(job[c].target, job[c].text, job[c].hidden)
  /\ Become(c, Served)
  /\ UNCHANGED <<exists, leaf, next, summaries, edits, registry>> /\ Untouched

(* delete_message_subtree: the rows of the subtree are read, then the      *)
(* active leaf, and only then is a transaction opened.                     *)
ReadForDelete(c) ==
  /\ job[c].pc = "idle" /\ "delete" \in Ops
  /\ \E m \in DOMAIN msg :
       Become(c, [IdleJob EXCEPT !.pc = "leaf", !.op = "delete", !.target = msg[m].parent,
                                 !.ids = Subtree(msg, m)])
  /\ UNCHANGED <<db, registry>> /\ Untouched

ReadLeafForDelete(c) ==
  /\ job[c].pc = "leaf"
  /\ Become(c, IF exists THEN [job[c] EXCEPT !.pc = "delete", !.leaf = leaf]
                         ELSE Served)
  /\ UNCHANGED <<db, registry>> /\ Untouched

(* Rows below the subtree that are newer go by ON DELETE CASCADE; the leaf *)
(* is written only if the one read was in the subtree.                     *)
CommitDelete(c) ==
  /\ job[c].pc = "delete"
  /\ msg' = Without(msg, job[c].ids)
  /\ IF job[c].leaf \in job[c].ids THEN PointLeafAt(job[c].target)
                                   ELSE UNCHANGED leaf
  /\ Become(c, Served)
  /\ UNCHANGED <<exists, next, summaries, edits, registry>> /\ Untouched

(* set_active_leaf: list_messages and deepest_leaf, then the write. *)
ReadForSwitch(c) ==
  /\ job[c].pc = "idle" /\ "switch" \in Ops
  /\ \E m \in DOMAIN msg :
       Become(c, [IdleJob EXCEPT !.pc = "switch", !.op = "switch",
                                 !.leaf = DeepestLeaf(msg, m)])
  /\ UNCHANGED <<db, registry>> /\ Untouched

CommitSwitch(c) ==
  /\ job[c].pc = "switch"
  /\ PointLeafAt(job[c].leaf)
  /\ Become(c, Served)
  /\ UNCHANGED <<exists, msg, next, summaries, edits, registry>> /\ Untouched

(* delete_session: generations.remove, then the transaction. *)
Unregister(c) ==
  /\ job[c].pc = "idle" /\ "drop" \in Ops
  /\ Become(c, [IdleJob EXCEPT !.pc = "drop", !.op = "drop"])
  /\ GiveSlot(Free)
  /\ UNCHANGED db /\ Untouched

DropSession(c) ==
  /\ job[c].pc = "drop"
  /\ Become(c, Served)
  /\ exists' = FALSE
  /\ msg' = EmptyTree
  /\ leaf' = NoMsg
  /\ summaries' = << >>
  /\ UNCHANGED <<next, edits, registry>> /\ Untouched

-----------------------------------------------------------------------------
(* The summarizer: summarize::run in the task that spawn_summary started   *)
(* for the Done of stream r.  Its state is what the rest of it looks at.   *)

Summarize(r, new) ==
  summ' = [summ EXCEPT ![r] = new] /\ UNCHANGED <<st, registry, job, claimed>>

(* run returns, at any of its early returns or at its end: release. *)
Release(r) == /\ claimed' = FALSE
              /\ summ' = [summ EXCEPT ![r] = IdleSumm]
              /\ UNCHANGED <<st, registry, job>>

SummReadSession(r) ==
  /\ summ[r].pc = "session"
  /\ \/ exists /\ Summarize(r, [IdleSumm EXCEPT !.pc = "history", !.leaf = leaf])
     \/ ~exists /\ Release(r)
  /\ UNCHANGED db

SummReadHistory(r) ==
  /\ summ[r].pc = "history"
  /\ LET path == ActivePath(msg, summ[r].leaf)
     IN  \/ /\ path # << >>
            /\ Summarize(r, [IdleSumm EXCEPT !.pc = "summaries", !.path = path,
                               !.shown = {m \in Range(path) : ~msg[m].hidden}])
         \/ path = << >> /\ Release(r)
  /\ UNCHANGED db

FoldSkippingOne(path, start, keep) ==                             \* mutant
  {i \in DOMAIN path : i > start + 1 /\ i + keep <= Len(path)}

(* fold_range: from after the previous cutoff to keep_recent from the end. *)
Fold(path, start, keep) == {i \in DOMAIN path : i > start /\ i + keep <= Len(path)}

(* The turns after the previous summary's cutoff are folded into it.  If   *)
(* the summaries cannot be listed (unwrap_or_default) the task goes on as  *)
(* if there were none.  Whether the threshold is crossed is left open.     *)
SummPlan(r) ==
  /\ summ[r].pc = "summaries"
  /\ \E keep \in KeepRecent, listed \in BOOLEAN :
       LET path == summ[r].path
           start == IF listed THEN AppliedAt(Cutoffs, path) ELSE 0
           prev == IF listed THEN Applicable(path) ELSE NoSummary
           fold == Fold(path, start, keep)
           folded == {path[i] : i \in fold}
       IN  /\ fold # {}
           /\ Summarize(r, [IdleSumm EXCEPT !.pc = "provider",
                !.cutoff = path[Max(fold)], !.blind = start # AppliedAt(Cutoffs, path),
                !.covers = (folded \cap summ[r].shown) \cup prev.covers,
                !.skips = (folded \ summ[r].shown) \cup prev.skips])
  /\ UNCHANGED db

SummGivesUpSilently(r) == /\ summ[r].pc # "idle"                        \* mutant
                          /\ Summarize(r, IdleSumm)
                          /\ UNCHANGED db

(* Disabled, below the threshold, nothing to fold; at the provider, an     *)
(* error or an empty answer; and a storage error anywhere.                 *)
SummGivesUp(r) == /\ summ[r].pc # "idle"
                  /\ Release(r)
                  /\ UNCHANGED db

SummProviderAnswers(r) == /\ summ[r].pc = "provider"
                          /\ Summarize(r, [summ[r] EXCEPT !.pc = "store"])
                          /\ UNCHANGED db

(* create_summary: the table has no foreign key. *)
SummStore(r) ==
  /\ summ[r].pc = "store"
  /\ summaries' = Append(summaries, [cutoff |-> summ[r].cutoff, covers |-> summ[r].covers,
                                     skips |-> summ[r].skips, blind |-> summ[r].blind])
  /\ Release(r)
  /\ UNCHANGED <<exists, msg, leaf, next, edits>>

-----------------------------------------------------------------------------
StorageStep(r) ==
  \/ ReadSession(r) \/ ReadHistorySend(r) \/ ReadHistoryRegen(r)
  \/ CreateUser(r) \/ ReadSummaries(r)
  \/ HideTarget(r) \/ CreateReply(r) \/ AdvanceLeaf(r) \/ Close(r)
  \/ CallFails(r)

ProviderStep(r) == \/ ProviderConnects(r) \/ ProviderRefuses(r) \/ Chunk(r)
                   \/ ProviderEnds(r) \/ ProviderFails(r)

StreamStep(r) == \/ Start(r) \/ StorageStep(r) \/ ProviderStep(r)
                 \/ HonourStop(r) \/ Cut(r) \/ Disconnect(r)

ClientStep(c) == \/ ReadForEdit(c) \/ WriteEdit(c)
                 \/ ReadForDelete(c) \/ ReadLeafForDelete(c) \/ CommitDelete(c)
                 \/ ReadForSwitch(c) \/ CommitSwitch(c)
                 \/ Unregister(c) \/ DropSession(c)

SummarizerStep(r) == \/ SummReadSession(r) \/ SummReadHistory(r) \/ SummPlan(r)
                     \/ SummGivesUp(r) \/ SummProviderAnswers(r) \/ SummStore(r)

Next == \/ \E r \in Streams : StreamStep(r) \/ SummarizerStep(r)
        \/ \E c \in Clients : ClientStep(c)
        \/ Stop

Spec == Init /\ [][Next]_vars

(* Storage calls return or fail, a stop signal wakes the stream, an        *)
(* aborted stream is ended, and the summarizer task runs on.  A stream is  *)
(* polled as its client reads, so this has the client read on or go.       *)
LocalFairness == \A r \in Streams : /\ WF_vars(StorageStep(r))
                                    /\ WF_vars(HonourStop(r))
                                    /\ WF_vars(Cut(r))
                                    /\ WF_vars(SummarizerStep(r))

(* The provider answers the request, with a stream or with an error. *)
ProviderFairness == \A r \in Streams :
                      WF_vars(ProviderConnects(r) \/ ProviderRefuses(r))

FairSpec == Spec /\ LocalFairness /\ ProviderFairness

-----------------------------------------------------------------------------
Roles == {"user", "assistant"}
StreamPCs == {"idle", "session", "history", "user", "summaries", "ask", "streaming",
              "hide", "reply", "leaf", "closing"} \cup Ended
IdsOrNone == Ids \cup {NoMsg}

SummaryRow == [cutoff : Ids, covers : SUBSET Ids, skips : SUBSET Ids, blind : BOOLEAN]

StreamState == [pc : StreamPCs, kind : {"send", "regen"}, mode : {"plain", "agent"},
                target : IdsOrNone, clone : Nat, leaf : IdsOrNone,
                path : Seq(Ids), cut : Nat,
                sent : SummaryRow \cup {NoSummary},
                parent : IdsOrNone, got : BOOLEAN, reply : IdsOrNone,
                via : {"none", "done", "stopped", "error"}]
JobState == [pc : {"idle", "edit", "leaf", "delete", "switch", "drop", "done"},
             op : AllOps \cup {"none"}, target : IdsOrNone, text : Nat,
             hidden : BOOLEAN, ids : SUBSET Ids, leaf : IdsOrNone]
SummState == [pc : {"idle", "session", "history", "summaries", "provider", "store"},
              leaf : IdsOrNone, path : Seq(Ids), shown : SUBSET Ids,
              cutoff : IdsOrNone, covers : SUBSET Ids, skips : SUBSET Ids,
              blind : BOOLEAN]

TypeOK ==
  /\ exists \in BOOLEAN
  /\ DOMAIN msg \subseteq Ids
  /\ \A m \in DOMAIN msg : msg[m] \in [parent : IdsOrNone, role : Roles,
                                       text : Nat, hidden : BOOLEAN]
  /\ leaf \in IdsOrNone
  /\ next \in 1 .. MaxMsg + 1
  /\ summaries \in Seq(SummaryRow)
  /\ edits \in Nat
  /\ st \in [Streams -> StreamState]
  /\ slot \in Streams \cup {Free}
  /\ aborted \subseteq Streams
  /\ stopped \subseteq Streams
  /\ job \in [Clients -> JobState]
  /\ claimed \in BOOLEAN
  /\ summ \in [Streams -> SummState]

(* The tree is sound whatever runs at the same time: every message hangs   *)
(* from an older stored one (the foreign key of messages.parent_id and its *)
(* ON DELETE CASCADE against inserts that read their parent long before),  *)
(* and every reply from a user's turn: send_message hangs it from the turn *)
(* it created, regenerate from the target's parent, however the tree has   *)
(* changed since they looked.                                              *)
RepliesAnswerUsers == \A m \in DOMAIN msg : msg[m].role = "assistant" =>
  msg[m].parent \in DOMAIN msg /\ msg[msg[m].parent].role = "user"
TreeSound == TypeOK /\ ParentsExist(msg) /\ RepliesAnswerUsers

(* A stored reply sits at the end of exactly the branch its prompt was     *)
(* made from, although the branch was read before the provider was asked   *)
(* and edits, deletions and switches went on meanwhile (conversation.rs:   *)
(* 653-659 and 787-788 against 742-745 and 856-859).                       *)
ReplySitsOnItsPrompt == \A r \in Streams :
  st[r].reply \in DOMAIN msg =>
    PathTo(msg, msg[st[r].reply].parent) =
      IF st[r].kind = "send" THEN Append(st[r].path, st[r].parent) ELSE st[r].path

(* models/summary.rs:1: a summary stands for the history from the start of *)
(* the conversation to its cutoff, inclusive: each message up to there is  *)
(* in its text or was hidden when it was folded, and none beyond.          *)
SummaryIsPrefix == \A s \in Range(summaries) :
  s.cutoff \in DOMAIN msg => s.covers \cup s.skips = Range(PathTo(msg, s.cutoff))

(* What a prompt leaves out of the beginning of its branch is what the      *)
(* summary sent with it stands for, no turn less and none more: each turn   *)
(* before the cut is told by that summary, or was hidden when it, or one    *)
(* folded into it, was made (conversation.rs:184-197 against summarize.rs:  *)
(* 68-113, with switches, deletions and other tasks in between).            *)
SummaryFillsTheCut == \A r \in Streams :
  st[r].pc \in {"ask", "streaming"} =>
    st[r].sent.covers \cup st[r].sent.skips = Range(SubSeq(st[r].path, 1, st[r].cut))

(* The summarizing() claim keeps two tasks from folding the same turns: a  *)
(* cutoff is given a second summary only by a task that could not list the *)
(* first (summarize.rs:69).                                                *)
OneSummaryPerCutoff == \A i, j \in DOMAIN summaries :
  i < j /\ summaries[i].cutoff = summaries[j].cutoff => summaries[j].blind

(* A stream that outlives its session stores no message: none is left      *)
(* behind by, or comes after, delete_session.  (A summary may: its table   *)
(* has no foreign key.)                                                    *)
NothingAfterDrop == ~exists => DOMAIN msg = {}

(* The stop button ends the stream, provided the provider answers and the  *)
(* client reads on.                                                        *)
StopEnds == \A r \in Streams : r \in stopped /\ Running(r) ~> ~Running(r)

(* A claim is given back, provided the summary provider answers, so later  *)
(* turns can be summarized too.                                            *)
ClaimReleased == claimed ~> ~claimed

-----------------------------------------------------------------------------
(* What a comment says and some interleaving refutes.                      *)

(* conversation.rs:849-851 "Hide the old assistant message so the active   *)
(* path only shows the new branch": regenerate hides the old message.  It  *)
(* leaves the text of every message alone.                                 *)
RegenerateOnlyHides ==
  [][\A r \in Streams : HideTarget(r) =>
       \A m \in DOMAIN msg : msg'[m].text = msg[m].text]_vars
=============================================================================
