--------------------------- MODULE AgentLoopProofs --------------------------
(***************************************************************************)
(* Proofs about AgentLoop, for any budgets and any number of calls in a    *)
(* round.                                                                  *)
(*                                                                         *)
(* AnswerIsEarned is not inductive: whether the calls before a finish have *)
(* succeeded is known to the code only through preceding_failed, so one    *)
(* needs what that flag says about the results so far, that no finish has  *)
(* a result while calls may still be executed, and where in the round the  *)
(* run is.  LimitsHold is three invariants, each with its own              *)
(* strengthening: what total_calls and identical_rounds say about the      *)
(* history of the run while it can go on.                                  *)
(***************************************************************************)
EXTENDS AgentLoop, WellFoundedInduction, TLAPS

(* The induction principle: a non-empty set of numbers has a least member, *)
(* so a claim that fails for some number fails for a least one.            *)
LEMMA Least == ASSUME NEW T \in SUBSET Nat, T # {} PROVE \E x \in T : \A y \in T : x <= y
<1> DEFINE R == OpToRel(<, Nat)
<1>1. IsWellFoundedOn(R, Nat)
  BY NatLessThanWellFounded
<1>2. PICK x \in T : \A y \in T : ~(<<y, x>> \in R)
  <2> HIDE DEF R
  <2> QED BY <1>1, WFMin
<1>3. \A a, b \in Nat : a < b => <<a, b>> \in R
  BY DEF OpToRel
<1> HIDE DEF R
<1>4. ASSUME NEW y \in T PROVE x <= y
  <2>1. ~(<<y, x>> \in R)
    BY <1>2
  <2>2. y < x => <<y, x>> \in R
    BY <1>3
  <2> QED BY <2>1, <2>2
<1> QED BY <1>4

InRound == pc \in {"calls", "executing", "patching", "commit"}

(* Results are those of the first calls of the round. *)
ResultsAreCounted ==
  /\ Len(results) <= Len(calls)
  /\ pc \in {"executing", "patching", "commit"} => Left

(* preceding_failed says whether some call of the round did not succeed. *)
FlagIsRight == InRound /\ ~failed =>
  \A k \in 1 .. Len(results) : results[k] = "ok"

(* While calls may still be executed, no finish has a result. *)
NoFinishYet == InRound =>
  \A k \in 1 .. Len(results) : calls[k].name # "finish"

(* A finish is executed, and committed, only with the flag down. *)
FinishIsClear ==
  /\ pc = "executing" /\ Current.name = "finish" => ~failed
  /\ pc = "patching" => Current.name = "patch"
  /\ pc = "commit" => Current.name = "finish" /\ ~failed

Inv == /\ TypeOK
       /\ ResultsAreCounted
       /\ FlagIsRight
       /\ NoFinishYet
       /\ FinishIsClear
       /\ FenceHolds
       /\ AnswerIsEarned

USE AgentAssumption DEF AgentAssumption

-----------------------------------------------------------------------------
(* A round's calls are a sequence of calls. *)
LEMMA CallListsAreSequences == \A list \in CallLists : list \in Seq(Call)
  BY DEF CallLists

LEMMA TypeInit == Init => TypeOK
<1>1. Init => FlagsOK
  BY DEF Init, FlagsOK
<1>2. Init => StateOK
  BY DEF Init, StateOK, Ended, Statuses, NoPatch
<1> QED
  BY <1>1, <1>2 DEF TypeOK

(* Whether the run is stopped and whether a call has failed. *)
LEMMA FlagsStep == FlagsOK /\ [Next]_vars => FlagsOK'
<1> SUFFICES ASSUME FlagsOK, [Next]_vars PROVE FlagsOK'
  OBVIOUS
<1> USE DEF FlagsOK
<1>1. CASE Local
  BY <1>1 DEF Local, SelectTransport, BeginRound, StopBeforeRound, OutOfRounds,
     StopReading, StopBeforeCall, SkipFinish, StartCall, StopExecuting, CommitResponse,
     CommitWorkspace, RejectCommit, CallsAreOver, AppendRound, ReplaceOne,
     PatchBreaks, PatchIsWhole, CallSucceeds
<1>2. CASE ToolReturns
  BY <1>2 DEF ToolReturns, FinishIsValid, FinishIsInvalid, ExecuteOther, CallFails,
     Replace, StartPatch, CallSucceeds
<1>3. CASE Provider
  BY <1>3 DEF Provider, ProviderAnswers, RoundIsBroken, RoundIsRead
<1>4. CASE Stop
  BY <1>4 DEF Stop
<1>5. CASE UNCHANGED vars
  BY <1>5 DEF vars
<1> QED
  BY <1>1, <1>2, <1>3, <1>4, <1>5 DEF Next

LEMMA StateStep == StateOK /\ [Next]_vars => StateOK'
<1> SUFFICES ASSUME StateOK, [Next]_vars PROVE StateOK'
  OBVIOUS
<1> USE DEF StateOK, Ended, Goto, Statuses, budgets
<1>1. CASE Local
  <2>1. CASE SelectTransport \/ BeginRound \/ StopBeforeRound \/ OutOfRounds
    BY <2>1 DEF SelectTransport, BeginRound, StopBeforeRound, OutOfRounds
  <2>2. CASE StopReading \/ StopBeforeCall \/ StartCall \/ StopExecuting
    BY <2>2 DEF StopReading, StopBeforeCall, StartCall, StopExecuting
  <2>3. CASE SkipFinish
    BY <2>3 DEF SkipFinish, Push
  <2>4. CASE RejectCommit
    BY <2>4 DEF RejectCommit, Push
  <2>5. CASE CommitResponse
    BY <2>5 DEF CommitResponse, Write, NewText
  <2>6. CASE CommitWorkspace \/ CallsAreOver \/ AppendRound
    BY <2>6 DEF CommitWorkspace, CallsAreOver, AppendRound
  <2>7. CASE ReplaceOne
    BY <2>7 DEF ReplaceOne, NewText
  <2>8. CASE PatchBreaks
    BY <2>8 DEF PatchBreaks, Push, NoPatch
  <2>9. CASE PatchIsWhole
    BY <2>9 DEF PatchIsWhole, CallSucceeds, Push, Write, NoPatch
  <2> QED
    BY <1>1, <2>1, <2>2, <2>3, <2>4, <2>5, <2>6, <2>7, <2>8, <2>9 DEF Local
<1>2. CASE ToolReturns
  <2>1. CASE FinishIsValid
    BY <2>1 DEF FinishIsValid
  <2>2. CASE FinishIsInvalid
    BY <2>2 DEF FinishIsInvalid, Push
  <2>3. CASE ExecuteOther
    BY <2>3 DEF ExecuteOther, CallSucceeds, Push
  <2>4. CASE CallFails
    BY <2>4 DEF CallFails, Push
  <2>5. CASE Replace
    BY <2>5 DEF Replace, CallSucceeds, Push, Write, NewText
  <2>6. CASE StartPatch
    BY <2>6 DEF StartPatch
  <2> QED
    BY <1>2, <2>1, <2>2, <2>3, <2>4, <2>5, <2>6 DEF ToolReturns
<1>3. CASE Provider
  <2>1. CASE ProviderAnswers \/ RoundIsBroken
    BY <2>1 DEF ProviderAnswers, RoundIsBroken
  <2>2. CASE RoundIsRead
    <3>1. PICK list \in CallLists :
            /\ calls' = list
            /\ total' = total + Len(list)
            /\ identical' = IdenticalRounds(list)
            /\ \/ pc' = "calls" /\ history' = Append(history, list)
               \/ pc' = "failed" /\ history' = history
      BY <2>2 DEF RoundIsRead
    <3>2. list \in Seq(Call) /\ Len(list) \in Nat
      BY CallListsAreSequences
    <3>3. total' \in Nat /\ identical' \in Nat
      BY <3>1, <3>2 DEF IdenticalRounds
    <3>4. calls' \in Seq(Call) /\ pc' \in {"calls", "failed"}
      BY <3>1, <3>2
    <3>5. history' \in Seq(Seq(Call))
      <4>1. CASE history' = Append(history, list)
        BY <3>2, <4>1
      <4> QED
        BY <3>1, <4>1
    <3>6. results' = << >> /\ UNCHANGED <<round, workspace, candidate>>
      BY <2>2 DEF RoundIsRead
    <3> QED
      BY <3>3, <3>4, <3>5, <3>6
  <2> QED
    BY <1>3, <2>1, <2>2 DEF Provider
<1>4. CASE Stop
  BY <1>4 DEF Stop
<1>5. CASE UNCHANGED vars
  BY <1>5 DEF vars
<1> QED
  BY <1>1, <1>2, <1>3, <1>4, <1>5 DEF Next

LEMMA TypeStep == TypeOK /\ [Next]_vars => TypeOK'
  BY FlagsStep, StateStep DEF TypeOK

(* Type correctness of a run. *)
THEOREM TypeCorrect == Spec => []TypeOK
  BY TypeInit, TypeStep, PTL DEF Spec

-----------------------------------------------------------------------------
(* What a result adds to the results. *)
LEMMA PushAdds ==
  ASSUME results \in Seq(Statuses), NEW status \in Statuses, Push(status)
  PROVE  /\ results' \in Seq(Statuses)
         /\ Len(results') = Len(results) + 1
         /\ results'[Len(results')] = status
         /\ \A k \in 1 .. Len(results) : results'[k] = results[k]
  BY DEF Push

LEMMA InvInit == Init => Inv
<1> SUFFICES ASSUME Init PROVE Inv
  OBVIOUS
<1>1. TypeOK
  BY TypeInit
<1>2. pc = "start" /\ Len(results) = 0 /\ Len(calls) = 0
  BY DEF Init
<1> QED
  BY <1>1, <1>2 DEF Inv, ResultsAreCounted, FlagIsRight, NoFinishYet, FinishIsClear,
     FenceHolds, AnswerIsEarned, InRound

(* A step that leaves the round and touches neither calls nor results. *)
Quiet == /\ UNCHANGED <<calls, results>>
         /\ pc' \notin {"calls", "executing", "patching", "commit", "finished"}

LEMMA QuietStep == Inv /\ TypeOK' /\ Quiet => Inv'
  BY DEF Quiet, Inv, ResultsAreCounted, FlagIsRight, NoFinishYet, FinishIsClear,
     FenceHolds, AnswerIsEarned, InRound

(* A finish is answered with a failure: no call of the round follows. *)
LEMMA FinishAnswered ==
  ASSUME Inv, TypeOK', Push("not_ok"), UNCHANGED calls,
         InRound, Left, Current.name = "finish", pc' = "append"
  PROVE  Inv'
<1>1. /\ Len(results) \in Nat /\ Len(results') = Len(results) + 1
      /\ Len(results') <= Len(calls')
  <2>1. results \in Seq(Statuses) /\ calls \in Seq(Call)
    BY DEF Inv, TypeOK, StateOK
  <2>2. Len(calls) \in Nat /\ Len(results) \in Nat
    BY <2>1
  <2>3. Len(results') = Len(results) + 1
    BY <2>1, PushAdds DEF Statuses
  <2> QED
    BY <2>2, <2>3 DEF Left
<1>2. \A k \in 1 .. Len(results') : calls'[k].name = "finish" => k = Len(results')
  BY <1>1 DEF Inv, NoFinishYet
<1> QED
  BY <1>1, <1>2 DEF Inv, ResultsAreCounted, FlagIsRight, NoFinishYet, FinishIsClear,
     FenceHolds, AnswerIsEarned, InRound

(* Another call is answered: the round goes on. *)
LEMMA CallAnswered ==
  ASSUME Inv, TypeOK', NEW status \in Statuses, Push(status), UNCHANGED calls,
         pc \in {"executing", "patching"}, pc' = "calls", Current.name # "finish",
         (status = "ok" /\ failed' = failed) \/ failed'
  PROVE  Inv'
<1>1. /\ Len(results) \in Nat /\ Len(results') = Len(results) + 1
      /\ results'[Len(results) + 1] = status
      /\ \A k \in 1 .. Len(results) : results'[k] = results[k]
  <2>1. results \in Seq(Statuses)
    BY DEF Inv, TypeOK, StateOK
  <2> QED
    BY <2>1, PushAdds
<1>2. ResultsAreCounted'
  BY <1>1 DEF Inv, ResultsAreCounted, Left
<1>3. FlagIsRight'
  BY <1>1 DEF Inv, FlagIsRight, InRound
<1>4. NoFinishYet'
  BY <1>1 DEF Inv, NoFinishYet, InRound, Current
<1>5. FenceHolds'
  BY <1>4 DEF FenceHolds, NoFinishYet, InRound
<1> QED
  BY <1>2, <1>3, <1>4, <1>5 DEF Inv, FinishIsClear, AnswerIsEarned

LEMMA InvStep == Inv /\ [Next]_vars => Inv'
<1> SUFFICES ASSUME Inv, [Next]_vars PROVE Inv'
  OBVIOUS
<1>0. TypeOK /\ TypeOK'
  BY TypeStep DEF Inv
<1> USE DEF Goto, budgets
<1>1. CASE \/ SelectTransport \/ BeginRound \/ StopBeforeRound \/ OutOfRounds
           \/ ProviderAnswers \/ StopReading \/ RoundIsBroken \/ StopBeforeCall
           \/ StopExecuting \/ CallsAreOver \/ AppendRound
  <2>1. Quiet
    BY <1>1 DEF Quiet, SelectTransport, BeginRound, StopBeforeRound, OutOfRounds,
       ProviderAnswers, StopReading, RoundIsBroken, StopBeforeCall, StopExecuting,
       CallsAreOver, AppendRound
  <2> QED
    BY <1>0, <2>1, QuietStep
<1>2. CASE Stop \/ UNCHANGED vars
  <2>1. UNCHANGED <<pc, calls, results, failed, workspace>>
    BY <1>2 DEF Stop, vars
  <2> QED
    BY <1>0, <2>1 DEF Inv, ResultsAreCounted, FlagIsRight, NoFinishYet, FinishIsClear,
       FenceHolds, AnswerIsEarned, InRound, Left, Current
<1>3. CASE RoundIsRead
  <2>1. Len(results') = 0 /\ pc' \in {"calls", "failed"} /\ Len(calls') \in Nat
    BY <1>0, <1>3 DEF RoundIsRead, TypeOK, StateOK
  <2> QED
    BY <1>0, <2>1 DEF Inv, ResultsAreCounted, FlagIsRight, NoFinishYet, FinishIsClear,
       FenceHolds, AnswerIsEarned, InRound
<1>4. CASE SkipFinish
  BY <1>0, <1>4, FinishAnswered DEF SkipFinish, InRound
<1>5. CASE FinishIsInvalid
  BY <1>0, <1>5, FinishAnswered DEF FinishIsInvalid, InRound, Inv, ResultsAreCounted
<1>6. CASE RejectCommit
  BY <1>0, <1>6, FinishAnswered DEF RejectCommit, InRound, Inv, ResultsAreCounted,
     FinishIsClear
<1>7. CASE StartCall \/ FinishIsValid \/ StartPatch \/ ReplaceOne
  <2>1. /\ UNCHANGED <<calls, results, failed, workspace>> /\ Left /\ InRound
        /\ \/ pc' = "executing" /\ ~(Current.name = "finish" /\ failed)
           \/ pc' = "patching" /\ Current.name = "patch"
           \/ pc' = "commit" /\ Current.name = "finish" /\ ~failed
    BY <1>7 DEF StartCall, FinishIsValid, StartPatch, ReplaceOne, InRound, Inv,
       ResultsAreCounted, FinishIsClear
  <2> QED
    BY <1>0, <2>1 DEF Inv, ResultsAreCounted, FlagIsRight, NoFinishYet, FinishIsClear,
       FenceHolds, AnswerIsEarned, InRound, Left, Current
<1>8. CASE ExecuteOther \/ Replace \/ PatchIsWhole
  <2>1. /\ Push("ok") /\ UNCHANGED <<calls, failed>> /\ Current.name # "finish"
        /\ pc \in {"executing", "patching"} /\ pc' = "calls"
    BY <1>8 DEF ExecuteOther, Replace, PatchIsWhole, CallSucceeds, Inv, FinishIsClear
  <2> QED
    BY <1>0, <2>1, CallAnswered DEF Statuses
<1>9. CASE CallFails \/ PatchBreaks
  BY <1>0, <1>9, CallAnswered DEF CallFails, PatchBreaks, Statuses, Inv, FinishIsClear
<1>10. CASE CommitResponse \/ CommitWorkspace
  <2>1. /\ UNCHANGED <<calls, results>> /\ pc = "commit" /\ pc' = "finished"
    BY <1>10 DEF CommitResponse, CommitWorkspace
  <2>2. workspace'.text # 0
    BY <1>0, <1>10 DEF CommitResponse, CommitWorkspace, Write, NewText, TypeOK, StateOK
  <2>3. /\ \A k \in DOMAIN results : results[k] = "ok"
        /\ \A k \in 1 .. Len(results) : calls[k].name # "finish"
        /\ Left /\ Current.name = "finish"
    <3>1. DOMAIN results = 1 .. Len(results)
      BY <1>0 DEF TypeOK, StateOK
    <3> QED
      BY <2>1, <3>1 DEF Inv, FlagIsRight, NoFinishYet, FinishIsClear, ResultsAreCounted, InRound
  <2> QED
    BY <1>0, <2>1, <2>2, <2>3 DEF Inv, ResultsAreCounted, FlagIsRight, NoFinishYet,
       FinishIsClear, FenceHolds, AnswerIsEarned, InRound, Left, Current
<1> QED
  BY <1>1, <1>2, <1>3, <1>4, <1>5, <1>6, <1>7, <1>8, <1>9, <1>10
     DEF Next, Local, ToolReturns, Provider

LEMMA Invariant == Spec => []Inv
  BY InvInit, InvStep, PTL DEF Spec

-----------------------------------------------------------------------------
(* agent_loop.rs:171-178 and commit_finish: an answer leaves the run only  *)
(* by a finish all of whose predecessors in its round succeeded, and it is *)
(* not blank.                                                              *)
THEOREM AnswersAreEarned == Spec => []AnswerIsEarned
  BY Invariant, PTL DEF Inv

(* agent_loop.rs:216-218, the terminal fence: nothing is executed after a  *)
(* finish of the same round.                                               *)
THEOREM TheFenceHolds == Spec => []FenceHolds
  BY Invariant, PTL DEF Inv

(* apply_replace, apply_patch, commit_finish: a changed workspace has a    *)
(* new revision, and the call that changed it is not answered as failed.   *)
THEOREM RevisionsNameTexts == Spec => RevisionNamesText
<1> DEFINE Step == workspace' # workspace =>
             /\ workspace'.revision = workspace.revision + 1
             /\ pc' = "finished" \/ results' = Append(results, "ok")
<1>1. ASSUME [Next]_vars, workspace' # workspace
      PROVE  CommitResponse \/ Replace \/ PatchIsWhole
  BY <1>1 DEF Next, vars, Local, ToolReturns, Provider, SelectTransport, BeginRound,
     StopBeforeRound, OutOfRounds, StopReading, StopBeforeCall, SkipFinish, StartCall,
     StopExecuting, CommitWorkspace, RejectCommit, CallsAreOver, AppendRound,
     StartPatch, ReplaceOne, PatchBreaks, FinishIsValid, FinishIsInvalid, ExecuteOther,
     CallFails, ProviderAnswers,
     RoundIsBroken, RoundIsRead, Stop
<1>2. [Next]_vars => [Step]_vars
  BY <1>1 DEF CommitResponse, Replace, PatchIsWhole, CallSucceeds, Write, Push, Goto
<1> QED
  BY <1>2, PTL DEF Spec, RevisionNamesText

-----------------------------------------------------------------------------
(* The budget of identical rounds.  identical_rounds bounds the length of  *)
(* the run of equal rounds at the end of the history, as long as the run   *)
(* can go on and previous_signature is that of the last round.             *)

EqualFrom(k) == /\ history[k] # << >>
                /\ \A j \in k .. Len(history) : history[j] = history[k]

LastIsCompared == pc # "failed" =>
  IF history = << >> THEN calls = << >> ELSE calls = history[Len(history)]

RunIsCounted == pc # "failed" => \A k \in 1 .. Len(history) :
  EqualFrom(k) => Len(history) + 1 <= identical + k

RepeatInv == StateOK /\ LastIsCompared /\ RunIsCounted /\ RepeatsAreCutOff

LEMMA RepeatInit == Init => RepeatInv
<1> SUFFICES ASSUME Init PROVE RepeatInv
  OBVIOUS
<1>1. StateOK
  BY TypeInit DEF TypeOK
<1>2. history = << >> /\ calls = << >> /\ Len(history) = 0
  BY DEF Init
<1> QED
  BY <1>1, <1>2 DEF RepeatInv, LastIsCompared, RunIsCounted, RepeatsAreCutOff

(* A round that gets to execution. *)
LEMMA RoundJoinsHistory ==
  ASSUME RepeatInv, pc = "reading", pc' = "calls",
         NEW list \in Seq(Call),
         calls' = list, history' = Append(history, list),
         identical' = IdenticalRounds(list),
         list # << >> => identical' <= MaxIdentical
  PROVE  LastIsCompared' /\ RunIsCounted' /\ RepeatsAreCutOff'
<1> DEFINE n == Len(history)
<1>1. /\ n \in Nat /\ Len(history') = n + 1 /\ history'[n + 1] = list
      /\ \A k \in 1 .. n : history'[k] = history[k]
      /\ history' # << >> /\ identical \in Nat /\ identical' \in Nat
  <2>1. history \in Seq(Seq(Call)) /\ identical \in Nat
    BY DEF RepeatInv, StateOK
  <2>2. identical' \in Nat
    BY <2>1 DEF IdenticalRounds
  <2>3. /\ n \in Nat /\ Len(history') = n + 1 /\ history'[n + 1] = list
        /\ \A k \in 1 .. n : history'[k] = history[k]
    BY <2>1
  <2>4. history' # << >>
    BY <2>3
  <2> QED
    BY <2>1, <2>2, <2>3, <2>4
<1>2. LastIsCompared'
  BY <1>1 DEF LastIsCompared
<1>3. ASSUME NEW k \in 1 .. n, list # << >>,
             \A j \in k .. n + 1 : history'[j] = list
      PROVE  identical' = identical + 1 /\ n + 1 <= identical + k
  <2>1. \A j \in k .. n : history[j] = list
    BY <1>1, <1>3
  <2>2. EqualFrom(k)
    BY <1>1, <1>3, <2>1 DEF EqualFrom
  <2>3. n + 1 <= identical + k
    BY <2>2 DEF RepeatInv, RunIsCounted
  <2>4. calls = list
    BY <1>1, <2>1 DEF RepeatInv, LastIsCompared
  <2> QED
    BY <1>3, <2>3, <2>4 DEF IdenticalRounds
<1>4. RunIsCounted'
  <2> SUFFICES ASSUME NEW k \in 1 .. n + 1, EqualFrom(k)' PROVE n + 2 <= identical' + k
    BY <1>1 DEF RunIsCounted
  <2>1. CASE k = n + 1
    BY <1>1, <2>1 DEF IdenticalRounds
  <2>2. CASE k \in 1 .. n
    <3>1. list # << >> /\ \A j \in k .. n + 1 : history'[j] = list
      BY <1>1, <2>2 DEF EqualFrom
    <3>2. identical' = identical + 1 /\ n + 1 <= identical + k
      BY <1>3, <2>2, <3>1
    <3> QED
      BY <1>1, <2>2, <3>2
  <2> QED
    BY <1>1, <2>1, <2>2
<1>5. RepeatsAreCutOff'
  <2> SUFFICES ASSUME NEW i \in 1 .. n + 1, i + MaxIdentical <= n + 1,
                      history'[i] # << >>,
                      \A j \in i + 1 .. i + MaxIdentical : history'[j] = history'[i]
               PROVE  FALSE
    BY <1>1 DEF RepeatsAreCutOff
  <2>1. i \in 1 .. n
    BY <1>1
  <2>2. CASE i + MaxIdentical <= n
    BY <1>1, <2>1, <2>2 DEF RepeatInv, RepeatsAreCutOff
  <2>3. CASE i + MaxIdentical = n + 1
    <3>1. history'[n + 1] = history'[i]
      BY <1>1, <2>1, <2>3
    <3>2. list # << >> /\ \A j \in i .. n + 1 : history'[j] = list
      BY <1>1, <2>1, <2>3, <3>1, SMTT(30)
    <3>3. identical' = identical + 1 /\ n + 1 <= identical + i
      BY <1>3, <2>1, <3>2
    <3> QED
      BY <1>1, <2>1, <2>3, <3>2, <3>3
  <2>4. n \in Nat /\ MaxIdentical \in Nat
    BY <1>1
  <2> QED
    BY <2>1, <2>2, <2>3, <2>4
<1> QED
  BY <1>2, <1>4, <1>5

LEMMA RepeatStep == RepeatInv /\ [Next]_vars => RepeatInv'
<1> SUFFICES ASSUME RepeatInv, [Next]_vars PROVE RepeatInv'
  OBVIOUS
<1>0. StateOK'
  BY StateStep DEF RepeatInv
<1>1. CASE RoundIsRead
  <2>1. PICK list \in CallLists :
          /\ calls' = list /\ identical' = IdenticalRounds(list)
          /\ \/ /\ MayExecute(list, total', identical')
                /\ pc' = "calls" /\ history' = Append(history, list)
             \/ pc' = "failed" /\ history' = history
    BY <1>1 DEF RoundIsRead
  <2>2. list \in Seq(Call) /\ pc = "reading"
    BY <1>1, CallListsAreSequences DEF RoundIsRead
  <2>3. CASE pc' = "calls"
    BY <1>0, <2>1, <2>2, <2>3, RoundJoinsHistory DEF MayExecute, RepeatInv
  <2>4. CASE pc' = "failed"
    BY <1>0, <2>1, <2>4 DEF RepeatInv, LastIsCompared, RunIsCounted, RepeatsAreCutOff
  <2> QED
    BY <2>1, <2>3, <2>4
<1>2. CASE ~RoundIsRead
  <2>1. UNCHANGED <<calls, history, identical>> /\ (pc = "failed" => pc' = "failed")
    BY <1>2 DEF Next, vars, budgets, Goto, Local, ToolReturns, Provider, SelectTransport,
       BeginRound, StopBeforeRound, OutOfRounds, StopReading, StopBeforeCall, SkipFinish,
       StartCall, StopExecuting, CommitResponse, CommitWorkspace, RejectCommit,
       CallsAreOver, AppendRound, FinishIsValid, FinishIsInvalid, ExecuteOther, CallFails,
       Replace, StartPatch, ReplaceOne, PatchBreaks, PatchIsWhole, ProviderAnswers, RoundIsBroken, Stop
  <2> QED
    BY <1>0, <2>1 DEF RepeatInv, LastIsCompared, RunIsCounted, RepeatsAreCutOff, EqualFrom
<1> QED
  BY <1>1, <1>2

(* agent_loop.rs:157-163: the same calls are not executed in more than     *)
(* max_identical_call_rounds rounds running.                               *)
THEOREM RepeatsEnd == Spec => []RepeatsAreCutOff
<1>1. RepeatInv => RepeatsAreCutOff
  BY DEF RepeatInv
<1> QED
  BY RepeatInit, RepeatStep, <1>1, PTL DEF Spec

-----------------------------------------------------------------------------
(* The budget of calls.  total_calls is what the rounds in the history     *)
(* hold, as long as the run can go on; a round that fails the check is     *)
(* counted but not executed.                                               *)

(* f counts the calls of the rounds of h up to n. *)
Counts(f, h, n) ==
  f = [k \in 0 .. n |-> IF k = 0 THEN 0 ELSE f[k - 1] + Len(h[k])]

LEMMA CountsAt ==
  ASSUME NEW f, NEW h, NEW n \in Nat, Counts(f, h, n), NEW k \in 0 .. n
  PROVE  /\ k = 0 => f[k] = 0
         /\ k # 0 => f[k] = f[k - 1] + Len(h[k])
<1> DEFINE B(j) == IF j = 0 THEN 0 ELSE f[j - 1] + Len(h[j])
<1>1. f = [j \in 0 .. n |-> B(j)]
  BY DEF Counts
<1>2. f[k] = B(k)
  <2> HIDE DEF B
  <2> QED BY <1>1
<1> QED BY <1>2

(* Any number of rounds can be counted. *)
LEMMA CountsExists ==
  ASSUME NEW h, NEW n \in Nat PROVE \E f : Counts(f, h, n)
<1> DEFINE T == {k \in Nat : ~ \E f : Counts(f, h, k)}
<1> SUFFICES ASSUME T # {} PROVE FALSE
  OBVIOUS
<1>1. PICK x \in T : \A y \in T : x <= y
  BY Least
<1>2. CASE x = 0
  <2> DEFINE f == [k \in 0 .. 0 |-> 0]
  <2>1. Counts(f, h, 0)
    BY DEF Counts
  <2> QED BY <2>1, <1>2
<1>3. CASE x # 0
  <2>1. x - 1 \in Nat /\ x - 1 \notin T
    BY <1>1, <1>3
  <2>2. PICK f : Counts(f, h, x - 1)
    BY <2>1
  <2> DEFINE B(k) == IF k = 0 THEN 0 ELSE f[k - 1] + Len(h[k])
             g == [k \in 0 .. x |-> B(k)]
  <2>3. ASSUME NEW k \in 0 .. x - 1 PROVE f[k] = g[k]
    <3>1. k \in 0 .. x /\ g[k] = B(k)
      BY <2>3
    <3>2. /\ k = 0 => f[k] = 0
          /\ k # 0 => f[k] = f[k - 1] + Len(h[k])
      BY <2>1, <2>2, <2>3, CountsAt
    <3> QED BY <3>1, <3>2
  <2>4. ASSUME NEW k \in 0 .. x PROVE k = 0 \/ f[k - 1] = g[k - 1]
    <3>1. k # 0 => k - 1 \in 0 .. x - 1
      BY <2>1
    <3> HIDE DEF g
    <3> QED BY <2>3, <3>1
  <2>5. Counts(g, h, x)
    BY <2>4 DEF Counts
  <2> QED BY <2>5
<1> QED BY <1>2, <1>3

(* Two histories that agree as far as both are counted have equal counts. *)
LEMMA CountsSame ==
  ASSUME NEW h, NEW u, NEW n \in Nat, NEW m \in Nat, n <= m,
         \A k \in 1 .. n : h[k] = u[k],
         NEW f, NEW g, Counts(f, h, n), Counts(g, u, m)
  PROVE  \A k \in 0 .. n : f[k] = g[k]
<1> DEFINE T == {k \in Nat : k <= n /\ f[k] # g[k]}
<1> SUFFICES ASSUME T # {} PROVE FALSE
  OBVIOUS
<1>1. PICK x \in T : \A y \in T : x <= y
  BY Least
<1>2. x \in 0 .. n /\ x \in 0 .. m
  BY <1>1
<1>3. CASE x = 0
  BY <1>1, <1>2, <1>3, CountsAt
<1>4. CASE x # 0
  <2>1. f[x - 1] = g[x - 1] /\ h[x] = u[x]
    BY <1>1, <1>4
  <2>2. f[x] = f[x - 1] + Len(h[x]) /\ g[x] = g[x - 1] + Len(u[x])
    BY <1>2, <1>4, CountsAt
  <2> QED BY <1>1, <2>1, <2>2
<1> QED BY <1>3, <1>4

LEMMA CallsInIs ==
  ASSUME NEW h, Len(h) \in Nat
  PROVE  \E f : Counts(f, h, Len(h)) /\ CallsIn(h) = f[Len(h)]
<1> DEFINE f == CHOOSE f : Counts(f, h, Len(h))
<1>1. Counts(f, h, Len(h))
  BY CountsExists
<1>2. CallsIn(h) = f[Len(h)]
  BY DEF CallsIn, Counts
<1> QED BY <1>1, <1>2

(* One more round adds its calls. *)
LEMMA CallsInAppend ==
  ASSUME NEW S, NEW h \in Seq(S), NEW l \in S
  PROVE  CallsIn(Append(h, l)) = CallsIn(h) + Len(l)
<1> DEFINE u == Append(h, l)
           n == Len(h)
<1>1. /\ n \in Nat /\ Len(u) = n + 1 /\ u[n + 1] = l
      /\ \A k \in 1 .. n : h[k] = u[k]
  OBVIOUS
<1> HIDE DEF u
<1>2. PICK f : Counts(f, h, n) /\ CallsIn(h) = f[n]
  BY <1>1, CallsInIs
<1>3. PICK g : Counts(g, u, n + 1) /\ CallsIn(u) = g[n + 1]
  BY <1>1, CallsInIs
<1> HIDE DEF n
<1>4. n + 1 \in Nat /\ n <= n + 1 /\ n \in 0 .. n /\ n + 1 \in 0 .. n + 1 /\ n + 1 # 0
  BY <1>1
<1>5. f[n] = g[n]
  BY <1>1, <1>2, <1>3, <1>4, CountsSame
<1>6. g[n + 1] = g[n + 1 - 1] + Len(u[n + 1])
  BY <1>3, <1>4, CountsAt
<1>7. n + 1 - 1 = n
  BY <1>1
<1> QED BY <1>1, <1>2, <1>3, <1>5, <1>6, <1>7 DEF u

LEMMA CallsInNone == CallsIn(<< >>) = 0
<1>1. Len(<< >>) = 0
  OBVIOUS
<1>2. PICK f : Counts(f, << >>, 0) /\ CallsIn(<< >>) = f[0]
  BY <1>1, CallsInIs
<1> QED BY <1>2, CountsAt

TotalIsRight == pc # "failed" => total = CallsIn(history)
BudgetInv == StateOK /\ TotalIsRight /\ WithinBudget

LEMMA BudgetInit == Init => BudgetInv
<1> SUFFICES ASSUME Init PROVE BudgetInv
  OBVIOUS
<1>1. StateOK
  BY TypeInit DEF TypeOK
<1>2. CallsIn(history) = 0 /\ total = 0
  BY CallsInNone DEF Init
<1> QED BY <1>1, <1>2 DEF BudgetInv, TotalIsRight, WithinBudget

LEMMA BudgetStep == BudgetInv /\ [Next]_vars => BudgetInv'
<1> SUFFICES ASSUME BudgetInv, [Next]_vars PROVE BudgetInv'
  OBVIOUS
<1>0. StateOK /\ StateOK'
  BY StateStep DEF BudgetInv
<1>1. CASE RoundIsRead
  <2>1. PICK list \in CallLists :
          /\ total' = total + Len(list)
          /\ \/ /\ MayExecute(list, total', identical')
                /\ pc' = "calls" /\ history' = Append(history, list)
             \/ pc' = "failed" /\ history' = history
    BY <1>1 DEF RoundIsRead
  <2>2. list \in Seq(Call) /\ pc = "reading" /\ history \in Seq(Seq(Call))
    BY <1>0, <1>1, CallListsAreSequences DEF RoundIsRead, StateOK
  <2>3. CASE pc' = "calls"
    <3>1. total' = CallsIn(history')
      BY <2>1, <2>2, <2>3, CallsInAppend DEF BudgetInv, TotalIsRight
    <3>2. total' <= MaxToolCalls
      BY <2>1, <2>3 DEF MayExecute
    <3> QED BY <1>0, <3>1, <3>2 DEF BudgetInv, TotalIsRight, WithinBudget
  <2>4. CASE pc' = "failed"
    BY <1>0, <2>1, <2>4 DEF BudgetInv, TotalIsRight, WithinBudget
  <2> QED
    BY <2>1, <2>3, <2>4
<1>2. CASE ~RoundIsRead
  <2>1. UNCHANGED <<history, total>> /\ (pc = "failed" => pc' = "failed")
    BY <1>2 DEF Next, vars, budgets, Goto, Local, ToolReturns, Provider, SelectTransport,
       BeginRound, StopBeforeRound, OutOfRounds, StopReading, StopBeforeCall, SkipFinish,
       StartCall, StopExecuting, CommitResponse, CommitWorkspace, RejectCommit,
       CallsAreOver, AppendRound, FinishIsValid, FinishIsInvalid, ExecuteOther, CallFails,
       Replace, StartPatch, ReplaceOne, PatchBreaks, PatchIsWhole, ProviderAnswers, RoundIsBroken, Stop
  <2> QED
    BY <1>0, <2>1 DEF BudgetInv, TotalIsRight, WithinBudget
<1> QED
  BY <1>1, <1>2

(* agent_loop.rs:151-163: a run keeps the limits of its settings: over all *)
(* its rounds it executes no more calls than max_tool_calls, and the same  *)
(* calls not in more than max_identical_call_rounds rounds running.        *)
THEOREM LimitsAreKept == Spec => []LimitsHold
<1>1. BudgetInv => WithinBudget
  BY DEF BudgetInv
<1>2. Spec => []WithinBudget
  BY BudgetInit, BudgetStep, <1>1, PTL DEF Spec
<1> QED
  BY TypeCorrect, RepeatsEnd, <1>2, PTL DEF LimitsHold
=============================================================================
