------------------------------- MODULE McpCalls -----------------------------
(***************************************************************************)
(* The calls of one agent run to an MCP server: McpToolHandler::execute    *)
(* (mcp/mod.rs) with the broker that asks the user (authorization.rs), the *)
(* session and its two transports (stdio.rs, http.rs), and the timeouts    *)
(* agent_loop.rs puts around them.                                         *)
(*                                                                         *)
(* Calls are made one after another; call n carries the id CallId[n] that  *)
(* the model gave it, and the broker knows it by that id alone (the run    *)
(* half of its key is the same for all of them).  Over stdio the server    *)
(* writes lines into a pipe; a line is spelled as the two bytes of one     *)
(* character and an end of line, and is read in whatever pieces arrive.    *)
(* Over HTTP a request and its answer are one exchange.                    *)
(***************************************************************************)
EXTENDS Integers, Sequences

CONSTANTS CallId,       \* the ids the model gives its calls, in order
          AskCalls,     \* those whose tool has the policy "ask"
          MaxNotices    \* bound: notifications the server sends unasked

ASSUME McpAssumption == /\ CallId \in Seq(STRING) /\ AskCalls \subseteq DOMAIN CallId
                        /\ MaxNotices \in Nat

Calls == DOMAIN CallId

VARIABLES transport,  \* of the session
          pc,         \* the run: idle, waiting (for the user), calling, ended
          n,          \* the calls begun
          results,    \* what the calls returned, in order
          pending,    \* the broker: the calls that wait, one for an id
          reply,      \* the decision in the waiter's channel
          prompts,    \* calls the user is shown
          decided,    \* decisions the user made: call and decision
          posts,      \* those on their way to the broker
          nextId,     \* the session's request ids
          asked,      \* request id -> the call it was sent for
          inbox,      \* requests the server has not answered
          notices,    \* notifications it has sent
          pipe,       \* bytes written and not read (stdio)
          buffer,     \* the BufReader's
          line        \* the line a read has taken so far

vars == <<transport, pc, n, results, pending, reply, prompts, decided, posts, nextId, asked, inbox,
          notices, pipe, buffer, line>>
broker == <<pending, reply>>
user == <<prompts, decided, posts>>
stream == <<pipe, buffer, line>>
session == <<nextId, asked>>

Notice == 0   \* the id of a notification

Init == /\ transport \in {"stdio", "http"}
        /\ pc = "idle" /\ n = 0 /\ results = <<>>
        /\ pending = {} /\ reply = "none"
        /\ prompts = {} /\ decided = {} /\ posts = {}
        /\ nextId = 0 /\ asked = <<>> /\ inbox = {} /\ notices = 0
        /\ pipe = <<>> /\ buffer = <<>> /\ line = <<>>

(* The broker's entry under an id. *)
Under(id) == {call \in pending : CallId[call] = id}

(* The call returns; the handler's future is gone and what it held with    *)
(* it: the PendingGuard's entry and the line that was being read.          *)
Return(status, text) ==
  /\ pc' = "idle" /\ results' = Append(results, [status |-> status, text |-> text])

(* parse_result, call_tool and what execute makes of them: the text; what  *)
(* the server calls an error; a JSON-RPC error or more text than allowed.  *)
Normalized(text) == Return("ok", text) \/ Return("rejected", 0) \/ Return("failed", 0)

-----------------------------------------------------------------------------
(* The handler. *)

Send ==
  /\ pc' = "calling"
  /\ nextId' = nextId + 1 /\ asked' = Append(asked, n') /\ inbox' = inbox \cup {nextId'}

(* A call that needs no authorization goes to the server at once. *)
CallAllowed ==
  /\ pc = "idle" /\ n < Len(CallId) /\ n + 1 \notin AskCalls
  /\ n' = n + 1 /\ Send
  /\ UNCHANGED <<transport, results, broker, user, notices, stream>>

(* request_and_wait: the call waits under its id. *)
AskUser ==
  /\ pc = "idle" /\ n + 1 \in AskCalls
  /\ n' = n + 1 /\ pc' = "waiting"
  /\ pending' = (pending \ Under(CallId[n'])) \cup {n'} /\ reply' = "none"
  /\ UNCHANGED <<transport, results, user, session, inbox, notices, stream>>

ApprovedIfDecided ==                                              \* mutant
  /\ pc = "waiting" /\ reply # "none"
  /\ n' = n /\ Send /\ reply' = "none"
  /\ UNCHANGED <<transport, results, pending, user, notices, stream>>

(* The waiter wakes up to a decision; its guard finds nothing to remove.   *)
Approved ==
  /\ pc = "waiting" /\ reply = "approve"
  /\ n' = n /\ Send /\ reply' = "none"
  /\ UNCHANGED <<transport, results, pending, user, notices, stream>>

Denied ==
  /\ pc = "waiting" /\ reply = "deny"
  /\ Return("rejected", 0) /\ reply' = "none"
  /\ UNCHANGED <<transport, n, pending, user, session, inbox, notices, stream>>

ExpireNever == FALSE /\ UNCHANGED vars                            \* mutant

(* MCP_AUTHORIZATION_TIMEOUT_MS without a decision. *)
Expire ==
  /\ pc = "waiting" /\ reply = "none"
  /\ Return("rejected", 0) /\ pending' = pending \ Under(CallId[n])
  /\ UNCHANGED <<transport, n, reply, user, session, inbox, notices, stream>>

(* The session's timeout or the loop's ends the request; what was read of  *)
(* a line is forgotten, the rest of it stays in the stream.                *)
TimeOut ==
  /\ pc = "calling"
  /\ Return("failed", 0) /\ line' = <<>>
  /\ UNCHANGED <<transport, n, broker, user, session, inbox, notices, pipe, buffer>>

StopLeavesPrompt ==                                               \* mutant
  /\ pc \in {"idle", "waiting", "calling"}
  /\ pc' = "ended" /\ line' = <<>>
  /\ UNCHANGED <<transport, n, results, pending, reply, user, session, inbox, notices, pipe, buffer>>

(* The run ends, is stopped or is dropped, whatever it was at. *)
EndRun ==
  /\ pc \in {"idle", "waiting", "calling"}
  /\ pc' = "ended" /\ line' = <<>>
  /\ pending' = IF pc = "waiting" THEN pending \ Under(CallId[n]) ELSE pending
  /\ UNCHANGED <<transport, n, results, reply, user, session, inbox, notices, pipe, buffer>>

-----------------------------------------------------------------------------
(* The user: the prompts are polled, a decision is posted and arrives when *)
(* it does.                                                                *)

(* pending_for_session: what is shown is what is pending at the moment.   *)
ShowPrompts ==
  /\ prompts' = pending
  /\ UNCHANGED <<transport, pc, n, results, broker, decided, posts, session, inbox, notices, stream>>

Decide(call, decision) ==
  /\ call \in prompts /\ \A d \in decided : d.call # call
  /\ decided' = decided \cup {[call |-> call, decision |-> decision]}
  /\ posts' = posts \cup {[call |-> call, decision |-> decision]}
  /\ UNCHANGED <<transport, pc, n, results, broker, prompts, session, inbox, notices, stream>>

(* approve, deny: resolve takes the entry of that id, or answers 404. *)
Resolve(post) ==
  /\ post \in posts /\ posts' = posts \ {post}
  /\ IF Under(CallId[post.call]) = {} THEN UNCHANGED broker
     ELSE pending' = pending \ Under(CallId[post.call]) /\ reply' = post.decision
  /\ UNCHANGED <<transport, pc, n, results, prompts, decided, session, inbox, notices, stream>>

-----------------------------------------------------------------------------
(* The server and the streams.  A byte knows the line it is part of.       *)

Spelled(id) == [i \in 1..3 |-> [id |-> id, byte |-> <<"lead", "more", "eol">>[i]]]

Answer(id) ==
  /\ transport = "stdio" /\ pc # "ended" /\ id \in inbox
  /\ inbox' = inbox \ {id} /\ pipe' = pipe \o Spelled(id)
  /\ UNCHANGED <<transport, pc, n, results, broker, user, session, notices, buffer, line>>

Notify ==
  /\ transport = "stdio" /\ pc # "ended" /\ notices < MaxNotices
  /\ notices' = notices + 1 /\ pipe' = pipe \o Spelled(Notice)
  /\ UNCHANGED <<transport, pc, n, results, broker, user, session, inbox, buffer, line>>

(* fill_buf, when the buffer is used up. *)
Fill(k) ==
  /\ transport = "stdio" /\ pc = "calling" /\ buffer = <<>> /\ k \in 1..Len(pipe)
  /\ buffer' = SubSeq(pipe, 1, k) /\ pipe' = SubSeq(pipe, k + 1, Len(pipe))
  /\ UNCHANGED <<transport, pc, n, results, broker, user, session, inbox, notices, line>>

(* What read_bounded_line takes next, and whether it is UTF-8 by itself. *)
Ends == {i \in DOMAIN buffer : buffer[i].byte = "eol"}
Piece == SubSeq(buffer, 1, IF Ends = {} THEN Len(buffer) ELSE CHOOSE i \in Ends : \A j \in Ends : i <= j)
IsUtf8(bytes) == \A i \in DOMAIN bytes : /\ bytes[i].byte = "lead" => i < Len(bytes)
                                         /\ bytes[i].byte = "more" => i > 1
Reading == transport = "stdio" /\ pc = "calling" /\ buffer # <<>>

(* The error leaves the buffer as it is. *)
NotUtf8 ==
  /\ Reading /\ ~IsUtf8(Piece)
  /\ Return("not utf8", 0) /\ line' = <<>>
  /\ UNCHANGED <<transport, n, broker, user, session, inbox, notices, pipe, buffer>>

Consume == buffer' = SubSeq(buffer, Len(Piece) + 1, Len(buffer))
AnyAnswer(whole) == whole[1].id # Notice                          \* mutant
Wanted(whole) == whole = Spelled(nextId)

TakePiece ==
  /\ Reading /\ IsUtf8(Piece) /\ Ends = {}
  /\ Consume /\ line' = line \o Piece
  /\ UNCHANGED <<transport, pc, n, results, broker, user, session, inbox, notices, pipe>>

(* A line that is not whole is not JSON; one that is for another request,  *)
(* and a notification, are passed over.                                    *)
TakeLine ==
  LET whole == line \o Piece
      Sound == whole = Spelled(whole[1].id)
  IN  /\ Reading /\ IsUtf8(Piece) /\ Ends # {}
      /\ Consume /\ line' = <<>>
      /\ IF Sound /\ ~Wanted(whole) THEN UNCHANGED <<pc, results>>
         ELSE IF Sound THEN Normalized(asked[whole[1].id])
         ELSE Return("failed", 0)
      /\ UNCHANGED <<transport, n, broker, user, session, inbox, notices, pipe>>

(* post, parse_sse: the first message of the body, whichever that is, or   *)
(* none when the body is too long, breaks off or holds no JSON.            *)
FirstMessage == {"answer", "other", "none"}

(* request: a message with another id is not waited out.                   *)
HttpAnswer ==
  /\ transport = "http" /\ pc = "calling" /\ nextId \in inbox
  /\ inbox' = inbox \ {nextId}
  /\ \E first \in FirstMessage :
       IF first = "answer" THEN Normalized(asked[nextId]) ELSE Return("failed", 0)
  /\ UNCHANGED <<transport, n, broker, user, session, notices, stream>>

Next == \/ CallAllowed \/ AskUser \/ Approved \/ Denied \/ Expire \/ TimeOut \/ EndRun
        \/ ShowPrompts
        \/ \E call \in prompts, d \in {"approve", "deny"} : Decide(call, d)
        \/ \E post \in posts : Resolve(post)
        \/ \E id \in inbox : Answer(id)
        \/ Notify
        \/ \E k \in 1..Len(pipe) : Fill(k)
        \/ NotUtf8 \/ TakePiece \/ TakeLine \/ HttpAnswer

(* Timers fire and a woken task runs; the user and the server need not act. *)
Fairness == WF_vars(Expire) /\ WF_vars(TimeOut) /\ WF_vars(Approved) /\ WF_vars(Denied)

Spec == Init /\ [][Next]_vars /\ Fairness

-----------------------------------------------------------------------------
(* Properties. *)

(* The server is only asked to run an "ask" tool for a call the user has   *)
(* approved, that call and not another.  authorization.rs: "stale or       *)
(* mismatched decisions are rejected".                                     *)
SentOnlyIfApproved ==
  \A r \in DOMAIN asked : asked[r] \in AskCalls =>
                            [call |-> asked[r], decision |-> "approve"] \in decided

(* What a call returns is the server's answer to that call, however late   *)
(* the answers to earlier ones arrive and wherever they were cut.          *)
AnswersMatchCalls == \A i \in DOMAIN results : results[i].status = "ok" => results[i].text = i

(* A request is pending exactly while a call waits and no decision has     *)
(* reached it: none outlives its call, by a timeout, a stop or a decision. *)
NoZombies ==
  pending = IF pc = "waiting" /\ reply = "none" THEN {n} ELSE {}

(* Every call returns, or the run is over: a user who never answers and a  *)
(* server that never does cannot hold it up.                               *)
EveryCallReturns == \A i \in Calls : n = i ~> Len(results) >= i \/ pc = "ended"

(* The server only writes UTF-8, so no call fails for want of it.          *)
(* stdio.rs refuses a "non-utf8 stdio message".                            *)
Utf8IsRead == \A i \in DOMAIN results : results[i].status # "not utf8"
=============================================================================
