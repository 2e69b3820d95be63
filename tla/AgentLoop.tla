------------------------------ MODULE AgentLoop -----------------------------
(***************************************************************************)
(* One agent run: shirita-core/src/agent_loop.rs, run, with the helpers    *)
(* apply_replace, apply_patch and commit_finish and the built-in tools of  *)
(* tools.rs that control the answer.                                       *)
(*                                                                         *)
(* In every round the provider is asked with a snapshot of the workspace   *)
(* and answers with a list of tool calls, which are executed in order.     *)
(* The run ends when a call of finish is committed, when it is stopped,    *)
(* and when something fails or a budget is used up.                        *)
(*                                                                         *)
(* What is abstracted: a call is a name and an argument; texts are numbers *)
(* (0 is blank, n is the n-th text written); the messages a round adds to  *)
(* the request.  Whatever makes the loop give up on a round before it      *)
(* looks at the budgets (an error of the provider, too much or malformed   *)
(* XML, empty or duplicate call ids) is one alternative of RoundIsBroken.  *)
(***************************************************************************)
EXTENDS Naturals, Sequences

CONSTANTS MaxRounds,     \* settings.max_rounds
          MaxToolCalls,  \* settings.max_tool_calls
          MaxIdentical,  \* settings.max_identical_call_rounds
          MaxPerRound,   \* bound: calls the model makes in a round
          MaxNamed,      \* bound: revisions the model names in a patch
          MaxOperations  \* MAX_RESPONSE_PATCH_OPS

(* AgentSettings::sanitized clamps the settings of every run. *)
ASSUME AgentAssumption == /\ MaxRounds \in Nat \ {0}
                          /\ MaxToolCalls \in Nat \ {0}
                          /\ MaxIdentical \in 1 .. MaxRounds
                          /\ MaxPerRound \in Nat
                          /\ MaxNamed \in Nat
                          /\ MaxOperations \in Nat \ {0}

VARIABLES pc,         \* where the run is
          stop,       \* the StopToken is cancelled
          round,      \* run_state.round
          total,      \* total_calls
          identical,  \* identical_rounds
          calls,      \* the calls of the latest round with calls to execute
          results,    \* the statuses of its calls so far, in order
          failed,     \* preceding_failed
          workspace,  \* run_state.workspace
          candidate,  \* the copy a patch works on, and how many operations it has left
          history     \* the calls of all rounds that got to execution

vars == <<pc, stop, round, total, identical, calls, results, failed, workspace, candidate, history>>
budgets == <<round, total, identical, calls, history>>

Ended == {"finished", "stopped", "failed"}

Call == [name : {"finish"}, arg : {"workspace", "response"}]
   \cup [name : {"patch"}, arg : 0 .. MaxNamed]
   \cup [name : {"replace", "other"}, arg : {"any"}]

CallLists == UNION {[1 .. n -> Call] : n \in 0 .. MaxPerRound}
Statuses == {"ok", "not_ok"}

NoPatch == [text |-> 0, left |-> 0]

Init == /\ pc = "start"
        /\ stop = FALSE
        /\ round = 0 /\ total = 0 /\ identical = 0
        /\ calls = << >> /\ results = << >> /\ failed = FALSE
        /\ workspace = [text |-> 0, revision |-> 0]
        /\ candidate = NoPatch
        /\ history = << >>

Goto(from, to) == pc = from /\ pc' = to

-----------------------------------------------------------------------------
(* The rounds. *)

(* The transport is chosen; native calls may not be supported. *)
SelectTransport ==
  /\ Goto("start", "top") \/ Goto("start", "failed")
  /\ UNCHANGED <<stop, budgets, results, failed, workspace, candidate>>

BeginRound ==
  /\ Goto("top", "ask") /\ round < MaxRounds /\ ~stop
  /\ round' = round + 1
  /\ UNCHANGED <<stop, total, identical, calls, history, results, failed, workspace, candidate>>

StopBeforeRound ==
  /\ Goto("top", "stopped") /\ round < MaxRounds /\ stop
  /\ UNCHANGED <<stop, budgets, results, failed, workspace, candidate>>

OutOfRoundsUnlessStopped ==                                       \* mutant
  /\ Goto("top", "failed") /\ round = MaxRounds /\ ~stop
  /\ UNCHANGED <<stop, budgets, results, failed, workspace, candidate>>

(* "configured Agent round limit reached before finish" *)
OutOfRounds ==
  /\ Goto("top", "failed") /\ round = MaxRounds
  /\ UNCHANGED <<stop, budgets, results, failed, workspace, candidate>>

(* provider.stream_chat(..).await: with a stream or with an error. *)
ProviderAnswers ==
  /\ Goto("ask", "reading") \/ Goto("ask", "failed")
  /\ UNCHANGED <<stop, budgets, results, failed, workspace, candidate>>

(* The select! is biased: stop is looked at before the provider's stream. *)
StopReading ==
  /\ Goto("reading", "stopped") /\ stop
  /\ UNCHANGED <<stop, budgets, results, failed, workspace, candidate>>

RoundIsBroken ==
  /\ Goto("reading", "failed") /\ ~stop
  /\ UNCHANGED <<stop, budgets, results, failed, workspace, candidate>>

MayExecuteOneMore(list, n, same) ==                               \* mutant
  n <= MaxToolCalls + 1 /\ (list # << >> => same <= MaxIdentical)
MayExecute(list, n, same) ==
  n <= MaxToolCalls /\ (list # << >> => same <= MaxIdentical)

(* How often the same calls came in a row; no calls at all start over. *)
IdenticalRounds(list) ==
  IF list # << >> /\ list = calls THEN identical + 1 ELSE 1

(* The provider's stream ends: the calls are counted and compared with     *)
(* those of the round before, and executed if both budgets allow it.       *)
RoundIsRead ==
  /\ pc = "reading" /\ ~stop
  /\ \E list \in CallLists :
       /\ calls' = list
       /\ total' = total + Len(list)
       /\ identical' = IdenticalRounds(list)
       /\ \/ /\ MayExecute(list, total', identical')
             /\ pc' = "calls"
             /\ history' = Append(history, list)
          \/ /\ ~MayExecute(list, total', identical')
             /\ pc' = "failed"
             /\ UNCHANGED history
  /\ results' = << >> /\ failed' = FALSE
  /\ UNCHANGED <<stop, round, workspace, candidate>>

-----------------------------------------------------------------------------
(* The calls of a round. *)

Current == calls[Len(results) + 1]
Left == Len(results) < Len(calls)

(* The call is over: its result is kept. *)
Push(status) == results' = Append(results, status)

StopBeforeCall ==
  /\ Goto("calls", "stopped") /\ Left /\ stop
  /\ UNCHANGED <<stop, budgets, results, failed, workspace, candidate>>

(* finish after a call that did not succeed: skipped, and the rest of the  *)
(* round with it.                                                          *)
SkipFinish ==
  /\ Goto("calls", "append") /\ Left /\ ~stop
  /\ Current.name = "finish" /\ failed
  /\ Push("not_ok")
  /\ UNCHANGED <<stop, budgets, failed, workspace, candidate>>

StartAnyCall ==                                                   \* mutant
  /\ Goto("calls", "executing") /\ Left /\ ~stop
  /\ UNCHANGED <<stop, budgets, results, failed, workspace, candidate>>

StartCall ==
  /\ Goto("calls", "executing") /\ Left /\ ~stop
  /\ ~(Current.name = "finish" /\ failed)
  /\ UNCHANGED <<stop, budgets, results, failed, workspace, candidate>>

StopExecuting ==
  /\ Goto("executing", "stopped") /\ stop
  /\ UNCHANGED <<stop, budgets, results, failed, workspace, candidate>>

(* finish is valid: it is committed once the calls are over, at once. *)
FinishIsValid ==
  /\ Goto("executing", "commit") /\ ~stop
  /\ Current.name = "finish"
  /\ UNCHANGED <<stop, budgets, results, failed, workspace, candidate>>

FinishIsInvalidOpenFence ==                                       \* mutant
  /\ Goto("executing", "calls") /\ ~stop
  /\ Current.name = "finish"
  /\ Push("not_ok")
  /\ UNCHANGED <<stop, budgets, failed, workspace, candidate>>

(* finish is rejected or times out: still no later call is executed. *)
FinishIsInvalid ==
  /\ Goto("executing", "append") /\ ~stop
  /\ Current.name = "finish"
  /\ Push("not_ok")
  /\ UNCHANGED <<stop, budgets, failed, workspace, candidate>>

CallSucceeds == Push("ok") /\ UNCHANGED failed

ExecuteOther ==
  /\ Goto("executing", "calls") /\ ~stop
  /\ Current.name = "other"
  /\ CallSucceeds
  /\ UNCHANGED <<stop, budgets, workspace, candidate>>

(* Any call may be rejected (its arguments, its size, a tool that is not   *)
(* enabled), fail, or time out.                                            *)
CallFails ==
  /\ Goto("executing", "calls") /\ ~stop
  /\ Current.name # "finish"
  /\ Push("not_ok") /\ failed' = TRUE
  /\ UNCHANGED <<stop, budgets, workspace, candidate>>

(* A new text, blank or not, under a new revision. *)
Write(text) == workspace' = [text |-> text, revision |-> workspace.revision + 1]
NewText == workspace.revision + 1

Replace ==
  /\ Goto("executing", "calls") /\ ~stop
  /\ Current.name = "replace"
  /\ \E text \in {0, NewText} : Write(text)
  /\ CallSucceeds
  /\ UNCHANGED <<stop, budgets, candidate>>

(* apply_patch, with no await in it: the revision must be the current one  *)
(* (otherwise CallFails); the operations, one or more, are applied in turn *)
(* to a copy of the text, which takes its place once all have been.        *)
StartPatch ==
  /\ Goto("executing", "patching") /\ ~stop
  /\ Current.name = "patch"
  /\ Current.arg = workspace.revision
  /\ \E n \in 1 .. MaxOperations : candidate' = [text |-> workspace.text, left |-> n]
  /\ UNCHANGED <<stop, budgets, results, failed, workspace>>

ReplaceOneInPlace ==                                              \* mutant
  /\ Goto("patching", "patching") /\ candidate.left > 0
  /\ \E text \in {0, NewText} : /\ workspace' = [workspace EXCEPT !.text = text]
                               /\ candidate' = [text |-> text, left |-> candidate.left - 1]
  /\ UNCHANGED <<stop, budgets, results, failed>>

(* The search text of an operation occurs once and the result fits. *)
ReplaceOne ==
  /\ Goto("patching", "patching") /\ candidate.left > 0
  /\ \E text \in {0, NewText} : candidate' = [text |-> text, left |-> candidate.left - 1]
  /\ UNCHANGED <<stop, budgets, results, failed, workspace>>

(* "search_not_found", "search_not_unique", "response_too_large". *)
PatchBreaks ==
  /\ Goto("patching", "calls") /\ candidate.left > 0
  /\ candidate' = NoPatch
  /\ Push("not_ok") /\ failed' = TRUE
  /\ UNCHANGED <<stop, budgets, workspace>>

PatchIsWhole ==
  /\ Goto("patching", "calls") /\ candidate.left = 0
  /\ Write(candidate.text)
  /\ candidate' = NoPatch
  /\ CallSucceeds
  /\ UNCHANGED <<stop, budgets>>

-----------------------------------------------------------------------------
(* The end of a round. *)

(* finish with a response, which is never blank, replaces the workspace.   *)
CommitResponse ==
  /\ Goto("commit", "finished")
  /\ Current.arg = "response"
  /\ Write(NewText)
  /\ UNCHANGED <<stop, budgets, results, failed, candidate>>

CommitWorkspace ==
  /\ Goto("commit", "finished")
  /\ Current.arg = "workspace" /\ workspace.text # 0
  /\ UNCHANGED <<stop, budgets, results, failed, workspace, candidate>>

(* "empty_response", or a response that is too large: the run goes on. *)
RejectCommit ==
  /\ Goto("commit", "append")
  /\ Current.arg = "workspace" => workspace.text = 0
  /\ Push("not_ok")
  /\ UNCHANGED <<stop, budgets, failed, workspace, candidate>>

CallsAreOver ==
  /\ Goto("calls", "append") /\ ~Left
  /\ UNCHANGED <<stop, budgets, results, failed, workspace, candidate>>

(* append_round: the results join the request. *)
AppendRound ==
  /\ Goto("append", "top")
  /\ UNCHANGED <<stop, budgets, results, failed, workspace, candidate>>

(* The user stops the run. *)
Stop ==
  /\ pc \notin Ended /\ ~stop
  /\ stop' = TRUE
  /\ UNCHANGED <<pc, budgets, results, failed, workspace, candidate>>

-----------------------------------------------------------------------------
ToolReturns == \/ FinishIsValid \/ FinishIsInvalid
               \/ ExecuteOther \/ CallFails \/ Replace \/ StartPatch

Local == \/ SelectTransport \/ BeginRound \/ StopBeforeRound \/ OutOfRounds
         \/ StopReading \/ StopBeforeCall \/ SkipFinish \/ StartCall \/ StopExecuting
         \/ ReplaceOne \/ PatchBreaks \/ PatchIsWhole
         \/ CommitResponse \/ CommitWorkspace \/ RejectCommit
         \/ CallsAreOver \/ AppendRound

Provider == ProviderAnswers \/ RoundIsBroken \/ RoundIsRead

Next == Local \/ ToolReturns \/ Provider \/ Stop

Spec == Init /\ [][Next]_vars

(* The run's own code goes on; a tool returns or is timed out; the         *)
(* provider answers a request.  Nothing makes the stream of its answer end. *)
Fairness == /\ WF_vars(Local)
            /\ WF_vars(ToolReturns)
            /\ WF_vars(ProviderAnswers)

FairSpec == Spec /\ Fairness

-----------------------------------------------------------------------------
FlagsOK == stop \in BOOLEAN /\ failed \in BOOLEAN

StateOK == /\ pc \in {"start", "top", "ask", "reading", "calls", "executing",
                      "patching", "commit", "append"} \cup Ended
           /\ round \in 0 .. MaxRounds
           /\ total \in Nat
           /\ identical \in Nat
           /\ calls \in Seq(Call)
           /\ results \in Seq(Statuses)
           /\ workspace \in [text : Nat, revision : Nat]
           /\ candidate \in [text : Nat, left : Nat]
           /\ history \in Seq(Seq(Call))

TypeOK == FlagsOK /\ StateOK

(* An answer leaves the run only by a finish all of whose predecessors in  *)
(* its round succeeded, and it is never blank.                             *)
AnswerIsEarned == pc = "finished" =>
  /\ \A k \in DOMAIN results : results[k] = "ok"
  /\ Left /\ Current.name = "finish"
  /\ workspace.text # 0

(* "Terminal fence by name: later calls are never executed, whether this   *)
(* finish validates or not" (agent_loop.rs:216-218): at most the last call *)
(* with a result is a finish.                                              *)
FenceHolds == \A k \in 1 .. Len(results) :
  calls[k].name = "finish" => k = Len(results) /\ pc \notin {"executing", "patching"}

(* No more calls are executed than the settings allow, over all rounds.    *)
CallsIn(h) == LET upto[n \in 0 .. Len(h)] == IF n = 0 THEN 0 ELSE upto[n - 1] + Len(h[n])
              IN  upto[Len(h)]
WithinBudget == CallsIn(history) <= MaxToolCalls

(* The same calls are never executed in more than MaxIdentical rounds      *)
(* running, whatever the rounds before them did.                           *)
RepeatsAreCutOff == \A i \in 1 .. Len(history) :
  i + MaxIdentical <= Len(history) /\ history[i] # << >> =>
    \E j \in i + 1 .. i + MaxIdentical : history[j] # history[i]

(* A run keeps the limits of its settings. *)
LimitsHold == TypeOK /\ WithinBudget /\ RepeatsAreCutOff

(* A revision names one text for good, so a patch that names the current   *)
(* revision is applied to the text its author saw; and a call that is      *)
(* answered as failed has changed nothing, a patch that fails after some   *)
(* of its operations included.                                             *)
RevisionNamesText ==
  [][workspace' # workspace =>
       /\ workspace'.revision = workspace.revision + 1
       /\ pc' = "finished" \/ results' = Append(results, "ok")]_vars

(* A run ends, unless the provider never ends an answer; and once it is    *)
(* stopped it ends even when the provider goes silent in the middle of an  *)
(* answer and when a tool hangs.                                           *)
RunEnds == /\ <>[](pc \in Ended \cup {"reading"})
           /\ stop ~> pc \in Ended
=============================================================================
