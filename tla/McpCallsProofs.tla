---------------------------- MODULE McpCallsProofs --------------------------
(***************************************************************************)
(* Proofs about McpCalls, for any number of calls and notifications.       *)
(*                                                                         *)
(* What the calls return and what the broker keeps is right whatever ids   *)
(* the model gives its calls.  A decision finds its call by that id, so    *)
(* that the server is asked only what was approved rests on an assumption: *)
(* no two calls of a run have the same id.  Calls in XML break it, and     *)
(* then the property fails, as the run stale_approval shows.               *)
(***************************************************************************)
EXTENDS McpCalls, TLAPS

IdsDiffer == \A i, j \in Calls : CallId[i] = CallId[j] => i = j

Status == {"ok", "rejected", "failed", "not utf8"}
Decision == [call : Calls, decision : {"approve", "deny"}]

Typed == /\ pc \in {"idle", "waiting", "calling", "ended"}
         /\ n \in 0..Len(CallId)
         /\ results \in Seq([status : Status, text : 0..Len(CallId)])
         /\ pending \subseteq Calls /\ reply \in {"none", "approve", "deny"}
         /\ prompts \subseteq Calls /\ decided \subseteq Decision /\ posts \subseteq decided
         /\ asked \in Seq(Calls) /\ nextId = Len(asked)

(* A call is under way after all before it have returned, and the latest   *)
(* request is its own.                                                     *)
OneAtATime == /\ pc = "idle" => Len(results) = n
              /\ pc \in {"waiting", "calling"} => n \in Calls /\ Len(results) = n - 1
              /\ pc = "calling" => nextId \in DOMAIN asked /\ asked[nextId] = n

Inv == Typed /\ NoZombies /\ OneAtATime /\ AnswersMatchCalls

LEMMA InitInv == Init => Inv
  BY DEF Init, Inv, Typed, NoZombies, OneAtATime, AnswersMatchCalls

-----------------------------------------------------------------------------
(* A request is sent for the call under way. *)
LEMMA SendInv ==
  ASSUME Inv, Send, n' \in Calls, Len(results) = n' - 1,
         UNCHANGED <<results, prompts, decided, posts>>, pending' = {}, reply' \in {"none", "approve", "deny"}
  PROVE  Inv'
<1> USE DEF Inv, Send
<1>1. asked' \in Seq(Calls) /\ nextId' = Len(asked') /\ nextId' \in DOMAIN asked' /\ asked'[nextId'] = n'
  BY DEF Typed
<1>2. Typed'
  BY <1>1 DEF Typed, Calls
<1>3. NoZombies' /\ OneAtATime'
  BY <1>1 DEF NoZombies, OneAtATime
<1>4. AnswersMatchCalls'
  BY DEF AnswersMatchCalls
<1> QED
  BY <1>2, <1>3, <1>4

(* A call returns: with its own text, or with none. *)
LEMMA OneReturnInv ==
  ASSUME Inv, NEW result \in [status : Status, text : {0, n}],
         result.status = "ok" => result.text = n,
         pc' = "idle", results' = Append(results, result), pc \in {"waiting", "calling"}, pending' = {},
         reply' \in {"none", "approve", "deny"}, UNCHANGED <<n, prompts, decided, posts, nextId, asked>>
  PROVE  Inv'
<1> USE DEF Inv
<1>1. /\ results' \in Seq([status : Status, text : 0..Len(CallId)])
      /\ Len(results') = n /\ results'[n] = result
      /\ \A i \in DOMAIN results' : i # n => i \in DOMAIN results /\ results'[i] = results[i]
  BY McpAssumption DEF Typed, OneAtATime, Calls
<1>2. Typed'
  BY <1>1 DEF Typed
<1>3. NoZombies' /\ OneAtATime'
  BY <1>1 DEF NoZombies, OneAtATime
<1>4. AnswersMatchCalls'
  BY <1>1 DEF AnswersMatchCalls
<1> QED
  BY <1>2, <1>3, <1>4

Returned == \/ Return("ok", n)
            \/ Return("rejected", 0) \/ Return("failed", 0) \/ Return("not utf8", 0)

LEMMA ReturnInv ==
  ASSUME Inv, Returned, pc \in {"waiting", "calling"}, pending' = {},
         reply' \in {"none", "approve", "deny"}, UNCHANGED <<n, prompts, decided, posts, nextId, asked>>
  PROVE  Inv'
<1> DEFINE Result(status, text) == [status |-> status, text |-> text]
           Possible == {Result("ok", n), Result("rejected", 0), Result("failed", 0), Result("not utf8", 0)}
<1> n \in Nat
  BY McpAssumption DEF Inv, Typed
<1>1. ASSUME NEW r \in Possible
      PROVE  r \in [status : Status, text : {0, n}] /\ (r.status = "ok" => r.text = n)
  <2>1. CASE r = Result("ok", n)
    BY <2>1 DEF Status
  <2>2. CASE r = Result("rejected", 0)
    BY <2>2 DEF Status
  <2>3. CASE r = Result("failed", 0)
    BY <2>3 DEF Status
  <2>4. CASE r = Result("not utf8", 0)
    BY <2>4 DEF Status
  <2> QED
    BY <1>1, <2>1, <2>2, <2>3, <2>4
<1>2. /\ pc' = "idle"
      /\ \E r \in Possible : results' = Append(results, r)
  BY Zenon DEF Returned, Return
<1>3. PICK r \in Possible : results' = Append(results, r)
  BY <1>2
<1> HIDE DEF Possible
<1> QED
  BY <1>1, <1>2, <1>3, OneReturnInv

(* Nothing Inv speaks of changes. *)
LEMMA StutterInv ==
  ASSUME Inv, UNCHANGED <<pc, n, results, pending, reply, prompts, decided, posts, nextId, asked>>
  PROVE  Inv'
  BY DEF Inv, Typed, NoZombies, OneAtATime, AnswersMatchCalls

(* The answer to the latest request is for the call under way.             *)
LEMMA NormalizedInv ==
  ASSUME Inv, pc = "calling", Normalized(asked[nextId]),
         UNCHANGED <<n, pending, reply, prompts, decided, posts, nextId, asked>>
  PROVE  Inv'
<1>1. asked[nextId] = n /\ pending = {} /\ n \in 0..Len(CallId) /\ reply \in {"none", "approve", "deny"}
  BY DEF Inv, OneAtATime, NoZombies, Typed
<1>2. Returned
  <2>1. CASE Return("ok", asked[nextId])
    BY <1>1, <2>1 DEF Returned
  <2>2. CASE Return("rejected", 0)
    BY <2>2 DEF Returned
  <2>3. CASE Return("failed", 0)
    BY <2>3 DEF Returned
  <2> QED
    BY <2>1, <2>2, <2>3 DEF Normalized
<1> QED
  BY <1>1, <1>2, ReturnInv

-----------------------------------------------------------------------------
LEMMA NextInv ==
  ASSUME Inv, Next PROVE Inv'
<1> USE McpAssumption
<1>1. CASE CallAllowed
  BY <1>1, SendInv DEF CallAllowed, Inv, Typed, NoZombies, OneAtATime, Calls, broker, user
<1>2. CASE AskUser
  <2>1. n + 1 \in Calls /\ Under(CallId[n + 1]) = {}
    BY <1>2 DEF AskUser, McpAssumption, Calls, Under, Inv, NoZombies
  <2>2. Typed'
    BY <1>2, <2>1 DEF AskUser, Inv, Typed, user, session, Calls
  <2>3. NoZombies' /\ OneAtATime'
    BY <1>2, <2>1 DEF AskUser, Inv, Typed, NoZombies, OneAtATime
  <2>4. AnswersMatchCalls'
    BY <1>2 DEF AskUser, Inv, AnswersMatchCalls
  <2> QED
    BY <2>2, <2>3, <2>4 DEF Inv
<1>3. CASE Approved
  BY <1>3, SendInv DEF Approved, Inv, Typed, NoZombies, OneAtATime, user
<1>4. CASE Denied
  <2>1. Returned
    BY <1>4 DEF Denied, Returned
  <2> QED
    BY <1>4, <2>1, ReturnInv DEF Denied, Inv, NoZombies, user, session
<1>5. CASE Expire
  <2>1. Returned
    BY <1>5 DEF Expire, Returned
  <2>2. pending' = {}
    BY <1>5 DEF Expire, Inv, NoZombies, Under
  <2> QED
    BY <1>5, <2>1, <2>2, ReturnInv DEF Expire, Inv, Typed, user, session
<1>6. CASE TimeOut
  <2>1. Returned
    BY <1>6 DEF TimeOut, Returned
  <2> QED
    BY <1>6, <2>1, ReturnInv DEF TimeOut, Inv, Typed, NoZombies, broker, user, session
<1>7. CASE EndRun
  <2>1. pending' = {}
    BY <1>7 DEF EndRun, Inv, NoZombies, Under
  <2> QED
    BY <1>7, <2>1 DEF EndRun, Inv, Typed, NoZombies, OneAtATime, AnswersMatchCalls, user, session
<1>8. CASE ShowPrompts
  BY <1>8 DEF ShowPrompts, Inv, Typed, NoZombies, OneAtATime, AnswersMatchCalls, broker, session
<1>9. CASE \E call \in prompts, d \in {"approve", "deny"} : Decide(call, d)
  <2>1. Typed'
    BY <1>9 DEF Decide, Inv, Typed, Decision, broker, session
  <2> QED
    BY <1>9, <2>1 DEF Decide, Inv, NoZombies, OneAtATime, AnswersMatchCalls, broker, session
<1>10. CASE \E post \in posts : Resolve(post)
  <2>1. PICK post \in posts : Resolve(post)
    BY <1>10
  <2>2. post.decision \in {"approve", "deny"}
    BY DEF Inv, Typed, Decision
  <2>3. CASE Under(CallId[post.call]) = {}
    BY <2>1, <2>3 DEF Resolve, Inv, Typed, NoZombies, OneAtATime, AnswersMatchCalls, broker, session
  <2>4. CASE Under(CallId[post.call]) # {}
    <3>1. pc = "waiting" /\ reply = "none" /\ pending = {n} /\ pending' = {}
      BY <2>1, <2>4 DEF Resolve, Under, Inv, NoZombies
    <3>2. Typed' /\ NoZombies'
      BY <2>1, <2>2, <2>4, <3>1 DEF Resolve, Inv, Typed, NoZombies, session
    <3> QED
      BY <2>1, <3>2 DEF Resolve, Inv, OneAtATime, AnswersMatchCalls, session
  <2> QED
    BY <2>3, <2>4
<1>11. CASE (\E id \in inbox : Answer(id)) \/ Notify \/ (\E k \in 1..Len(pipe) : Fill(k)) \/ TakePiece
  BY <1>11, StutterInv DEF Answer, Notify, Fill, TakePiece, broker, user, session
<1>12. CASE NotUtf8
  <2>1. Returned
    BY <1>12 DEF NotUtf8, Returned
  <2> QED
    BY <1>12, <2>1, ReturnInv DEF NotUtf8, Reading, Inv, Typed, NoZombies, broker, user, session
<1>13. CASE TakeLine
  <2> DEFINE whole == line \o Piece
             sound == whole = Spelled(whole[1].id)
  <2>1. CASE sound /\ ~Wanted(whole)
    BY <1>13, <2>1, StutterInv DEF TakeLine, broker, user, session
  <2>2. CASE sound /\ Wanted(whole)
    <3>1. whole[1].id = nextId
      BY <2>2 DEF Wanted, Spelled
    <3> QED
      BY <1>13, <2>2, <3>1, NormalizedInv DEF TakeLine, Reading, broker, user, session
  <2>3. CASE ~sound
    <3>1. Returned
      BY <1>13, <2>3 DEF TakeLine, Returned
    <3> QED
      BY <1>13, <3>1, ReturnInv DEF TakeLine, Reading, Inv, Typed, NoZombies, broker, user, session
  <2> QED
    BY <2>1, <2>2, <2>3
<1>14. CASE HttpAnswer
  <2>1. Normalized(asked[nextId])
    BY <1>14 DEF HttpAnswer, Normalized
  <2> QED
    BY <1>14, <2>1, NormalizedInv DEF HttpAnswer, broker, user, session
<1> QED
  BY <1>1, <1>2, <1>3, <1>4, <1>5, <1>6, <1>7, <1>8, <1>9, <1>10, <1>11, <1>12, <1>13, <1>14 DEF Next

LEMMA InvIsInvariant == Spec => []Inv
<1>1. Inv /\ [Next]_vars => Inv'
  BY NextInv, StutterInv DEF vars
<1> QED
  BY <1>1, InitInv, PTL DEF Spec

(* No answer is taken for another call's, however many calls time out and  *)
(* are answered late: the session's request ids tell them apart, whatever  *)
(* ids the model gave the calls.                                           *)
THEOREM AnswersHold == Spec => []AnswersMatchCalls
<1>1. Inv => AnswersMatchCalls
  BY DEF Inv
<1> QED
  BY <1>1, InvIsInvariant, PTL

(* The broker keeps nothing for a call that is over, and loses no call     *)
(* that waits, even when calls share an id.                                *)
THEOREM NoZombieRequests == Spec => []NoZombies
<1>1. Inv => NoZombies
  BY DEF Inv
<1> QED
  BY <1>1, InvIsInvariant, PTL

-----------------------------------------------------------------------------
(* With ids that differ, a decision reaches no other call.                 *)

(* What the waiter is told was decided for the call it waits with. *)
ReplyIsForWaiter == pc = "waiting" /\ reply # "none" => [call |-> n, decision |-> reply] \in decided

Approval == ReplyIsForWaiter /\ SentOnlyIfApproved

(* A request is sent for a call that may be sent. *)
LEMMA SendApproval ==
  ASSUME Inv, Approval, Send, UNCHANGED decided,
         n' \in AskCalls => [call |-> n', decision |-> "approve"] \in decided
  PROVE  Approval'
<1>1. SentOnlyIfApproved'
  <2> SUFFICES ASSUME NEW r \in DOMAIN asked', asked'[r] \in AskCalls
               PROVE  [call |-> asked'[r], decision |-> "approve"] \in decided
    BY DEF SentOnlyIfApproved
  <2>1. CASE r = Len(asked) + 1
    BY <2>1 DEF Send, Inv, Typed
  <2>2. CASE r # Len(asked) + 1
    <3>1. r \in DOMAIN asked /\ asked'[r] = asked[r]
      BY <2>2 DEF Send, Inv, Typed
    <3> QED
      BY <3>1 DEF Approval, SentOnlyIfApproved
  <2> QED
    BY <2>1, <2>2
<1> QED
  BY <1>1 DEF Approval, ReplyIsForWaiter, Send

(* Nothing is sent and no waiter is told anything new. *)
LEMMA SilentApproval ==
  ASSUME Approval, asked' = asked, decided \subseteq decided',
         pc' = "waiting" /\ reply' # "none" => pc = "waiting" /\ n' = n /\ reply' = reply
  PROVE  Approval'
  BY DEF Approval, ReplyIsForWaiter, SentOnlyIfApproved

LEMMA NextApproval ==
  ASSUME IdsDiffer, Inv, Approval, Next PROVE Approval'
<1>1. CASE CallAllowed
  BY <1>1, SendApproval DEF CallAllowed, user
<1>2. CASE Approved
  <2>1. n' \in AskCalls => [call |-> n', decision |-> "approve"] \in decided
    BY <1>2 DEF Approved, Approval, ReplyIsForWaiter
  <2> QED
    BY <1>2, <2>1, SendApproval DEF Approved, user
<1>3. CASE \E post \in posts : Resolve(post)
  <2>1. PICK post \in posts : Resolve(post)
    BY <1>3
  <2>2. post.call \in Calls /\ post \in decided /\ post = [call |-> post.call, decision |-> post.decision]
    BY DEF Inv, Typed, Decision
  <2>3. CASE Under(CallId[post.call]) = {}
    BY <2>1, <2>3, SilentApproval DEF Resolve, broker, session
  <2>4. CASE Under(CallId[post.call]) # {}
    <3>1. post.call = n
      BY <2>2, <2>4 DEF Under, Inv, NoZombies, OneAtATime, IdsDiffer
    <3>2. ReplyIsForWaiter'
      BY <2>1, <2>2, <2>4, <3>1 DEF Resolve, ReplyIsForWaiter
    <3> QED
      BY <2>1, <3>2 DEF Resolve, Approval, SentOnlyIfApproved, session
  <2> QED
    BY <2>3, <2>4
<1>4. CASE AskUser \/ Denied \/ Expire \/ TimeOut \/ EndRun
  BY <1>4, SilentApproval DEF AskUser, Denied, Expire, TimeOut, EndRun, Return, broker, user, session
<1>5. CASE ShowPrompts \/ \E call \in prompts, d \in {"approve", "deny"} : Decide(call, d)
  BY <1>5, SilentApproval DEF ShowPrompts, Decide, broker, session
<1>6. CASE (\E id \in inbox : Answer(id)) \/ Notify \/ (\E k \in 1..Len(pipe) : Fill(k)) \/ TakePiece
  BY <1>6, SilentApproval DEF Answer, Notify, Fill, TakePiece, broker, user, session
<1>7. CASE NotUtf8 \/ TakeLine \/ HttpAnswer
  <2>1. UNCHANGED <<asked, decided>>
    BY <1>7 DEF NotUtf8, TakeLine, HttpAnswer, user, session
  <2>2. pc' # "waiting"
    BY <1>7 DEF NotUtf8, TakeLine, HttpAnswer, Reading, Normalized, Return
  <2> QED
    BY <2>1, <2>2, SilentApproval
<1> QED
  BY <1>1, <1>2, <1>3, <1>4, <1>5, <1>6, <1>7 DEF Next

(* An "ask" tool runs only for a call the user approved, if no two calls   *)
(* of the run have the same id.                                            *)
THEOREM ApprovalHolds == ASSUME IdsDiffer PROVE Spec => []SentOnlyIfApproved
<1>1. Init => Approval
  BY DEF Init, Approval, ReplyIsForWaiter, SentOnlyIfApproved
<1>2. Inv /\ Approval /\ [Next]_vars => Approval'
  BY NextApproval, SilentApproval DEF vars
<1>3. Approval => SentOnlyIfApproved
  BY DEF Approval
<1> QED
  BY <1>1, <1>2, <1>3, InvIsInvariant, PTL DEF Spec
=============================================================================
