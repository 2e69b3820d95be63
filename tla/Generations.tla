---------------------------- MODULE Generations -----------------------------
(***************************************************************************)
(* The registry of in-flight generations (shirita-web/src/generations.rs)  *)
(* and the HTTP handlers that use it (shirita-web/src/routes/chat.rs:      *)
(* send, regenerate_message, abort_message; routes/sessions.rs:            *)
(* delete_session).                                                        *)
(*                                                                         *)
(* A request is one call of send or regenerate_message.  Its handler       *)
(* awaits resolve_provider, draws a generation id, installs its abort and  *)
(* stop handles in the session's slot (cutting the previous holder) and    *)
(* returns the event stream, which the server then polls.  The stream is   *)
(* wrapped by futures::stream::abortable: the abort flag is read before a  *)
(* poll and after a poll that is pending, never inside one, so a stream    *)
(* that is being polled when it is aborted runs on to the end of that      *)
(* poll.  What the stream does inside a poll is in module ChatSession.     *)
(*                                                                         *)
(* The map is behind one Mutex.  In replace and remove the guard lives to  *)
(* the end of the if-let body, so the swap, the abort and the stop are one *)
(* step for every other user of the map.  The id is drawn before the lock  *)
(* is taken, so that is a step of its own.                                 *)
(***************************************************************************)
EXTENDS Naturals

CONSTANTS Sessions,   \* session ids
          Requests,   \* calls of send / regenerate_message
          NoSlot      \* the map has no entry for the session

ASSUME GenerationsAssumption == NoSlot \notin Requests

VARIABLES pc,       \* where each request is
          sess,     \* the session each request is for
          genId,    \* the id drawn for each request
          nextGen,  \* NEXT_GEN
          slot,     \* the map: session -> the request whose handles it holds
          aborted,  \* AbortHandle: the hard abort flag
          stopped   \* StopHandle: the cooperative stop signal

vars == <<pc, sess, genId, nextGen, slot, aborted, stopped>>

Streaming == {"parked", "polling"}
Ended == {"gaveup", "cut", "disconnected", "over"}
PC == {"idle", "resolving", "allocated", "ending"} \cup Streaming \cup Ended

Init == /\ pc = [r \in Requests |-> "idle"]
        /\ sess \in [Requests -> Sessions]
        /\ genId = [r \in Requests |-> 0]
        /\ nextGen = 0
        /\ slot = [s \in Sessions |-> NoSlot]
        /\ aborted = [r \in Requests |-> FALSE]
        /\ stopped = [r \in Requests |-> FALSE]

Goto(r, from, to) == /\ pc[r] = from
                     /\ pc' = [pc EXCEPT ![r] = to]

-----------------------------------------------------------------------------
(* The handler. *)

(* The request arrives and awaits resolve_provider. *)
Arrive(r) ==
  /\ Goto(r, "idle", "resolving")
  /\ UNCHANGED <<sess, genId, nextGen, slot, aborted, stopped>>

(* The client goes away at the handler's only await: the future is dropped *)
(* with nothing registered.                                                *)
GiveUp(r) ==
  /\ Goto(r, "resolving", "gaveup")
  /\ UNCHANGED <<sess, genId, nextGen, slot, aborted, stopped>>

(* replace, before the lock: NEXT_GEN.fetch_add. *)
Allocate(r) ==
  /\ Goto(r, "resolving", "allocated")
  /\ genId' = [genId EXCEPT ![r] = nextGen]
  /\ nextGen' = nextGen + 1
  /\ UNCHANGED <<sess, slot, aborted, stopped>>

CutPolitely(s) ==                                                 \* mutant
  /\ aborted' = aborted
  /\ stopped' = [r \in Requests |-> stopped[r] \/ slot[s] = r]

(* Whoever holds the session's slot is aborted, then told to stop. *)
Cut(s) ==
  /\ aborted' = [r \in Requests |-> aborted[r] \/ slot[s] = r]
  /\ stopped' = [r \in Requests |-> stopped[r] \/ slot[s] = r]

InstallIfVacant(r) ==                                             \* mutant
  /\ Goto(r, "allocated", "parked")
  /\ slot' = [slot EXCEPT ![sess[r]] = IF @ = NoSlot THEN r ELSE @]
  /\ UNCHANGED <<sess, genId, nextGen, aborted, stopped>>

(* replace, under the lock; the handler then returns the stream. *)
Install(r) ==
  /\ Goto(r, "allocated", "parked")
  /\ slot' = [slot EXCEPT ![sess[r]] = r]
  /\ Cut(sess[r])
  /\ UNCHANGED <<sess, genId, nextGen>>

-----------------------------------------------------------------------------
(* The stream, as the server polls it. *)

BeginPoll(r) ==
  /\ ~aborted[r]
  /\ Goto(r, "parked", "polling")
  /\ UNCHANGED <<sess, genId, nextGen, slot, aborted, stopped>>

(* The abort flag is read before the inner stream is polled: the stream    *)
(* ends with no terminal event, so nothing de-registers it.                *)
PollAborted(r) ==
  /\ aborted[r]
  /\ Goto(r, "parked", "cut")
  /\ UNCHANGED <<sess, genId, nextGen, slot, aborted, stopped>>

(* The inner stream is pending: the flag is read once more. *)
Park(r) ==
  /\ Goto(r, "polling", IF aborted[r] THEN "cut" ELSE "parked")
  /\ UNCHANGED <<sess, genId, nextGen, slot, aborted, stopped>>

(* The inner stream yields a delta, a tool event, ...: handed on as it is. *)
EmitProgress(r) ==
  /\ Goto(r, "polling", "parked")
  /\ UNCHANGED <<sess, genId, nextGen, slot, aborted, stopped>>

(* Done, Stopped or Error comes out of the inner stream, aborted or not. *)
EmitTerminal(r) ==
  /\ Goto(r, "polling", "ending")
  /\ UNCHANGED <<sess, genId, nextGen, slot, aborted, stopped>>

(* finish, from the closure that sees the terminal event. *)
Finish(r) ==
  /\ Goto(r, "ending", "over")
  /\ slot' = [slot EXCEPT ![sess[r]] =
                IF @ # NoSlot /\ genId[@] = genId[r] THEN NoSlot ELSE @]
  /\ UNCHANGED <<sess, genId, nextGen, aborted, stopped>>

(* The client goes away: the server drops the response body, and with it   *)
(* the stream.  The closure never runs.                                    *)
Disconnect(r) ==
  /\ Goto(r, "parked", "disconnected")
  /\ UNCHANGED <<sess, genId, nextGen, slot, aborted, stopped>>

-----------------------------------------------------------------------------
(* The other users of the registry. *)

(* remove, from delete_session. *)
Remove(s) ==
  /\ slot' = [slot EXCEPT ![s] = NoSlot]
  /\ Cut(s)
  /\ UNCHANGED <<pc, sess, genId, nextGen>>

(* stop, from abort_message.  (It answers whether a slot was found; one    *)
(* that a disconnected stream left behind is found too.)                   *)
Stop(s) ==
  /\ stopped' = [r \in Requests |-> stopped[r] \/ slot[s] = r]
  /\ UNCHANGED <<pc, sess, genId, nextGen, slot, aborted>>

-----------------------------------------------------------------------------
RequestStep(r) == \/ Arrive(r) \/ GiveUp(r) \/ Allocate(r) \/ Install(r)
                  \/ BeginPoll(r) \/ PollAborted(r)
                  \/ Park(r) \/ EmitProgress(r) \/ EmitTerminal(r)
                  \/ Finish(r) \/ Disconnect(r)

SessionStep(s) == Remove(s) \/ Stop(s)

Next == \/ \E r \in Requests : RequestStep(r)
        \/ \E s \in Sessions : SessionStep(s)

Spec == Init /\ [][Next]_vars

-----------------------------------------------------------------------------
TypeOK == /\ pc \in [Requests -> PC]
          /\ sess \in [Requests -> Sessions]
          /\ genId \in [Requests -> Nat]
          /\ nextGen \in Nat
          /\ slot \in [Sessions -> Requests \cup {NoSlot}]
          /\ aborted \in [Requests -> BOOLEAN]
          /\ stopped \in [Requests -> BOOLEAN]

(* A request that still may be polled again: its stream exists and nothing *)
(* has aborted it.                                                         *)
Live(r) == pc[r] \in Streaming /\ ~aborted[r]

(* A stream that may still be polled is the one its session's slot holds,  *)
(* so the stop button, a newer request and the deletion of the session all *)
(* reach it.  A finish that evicted somebody else's slot, or a replace     *)
(* that forgot to abort, would leave a live stream out of reach.           *)
LiveIsRegistered == \A r \in Requests : Live(r) => slot[sess[r]] = r

(* generations.rs:1-3: "A newer generation aborts the prior one for the    *)
(* same session": never two streams of a session that may be polled again. *)
OneLiveStream == \A r, q \in Requests :
                   Live(r) /\ Live(q) /\ sess[r] = sess[q] => r = q

(* The stop button reaches the stream: an abort_message call leaves no     *)
(* live stream of the session without its stop signal.                     *)
StopReachesLive ==
  [][\A s \in Sessions : Stop(s) =>
       \A r \in Requests : Live(r) /\ sess[r] = s => stopped'[r]]_vars

(* A finishing stream "only de-registers itself when it's still the        *)
(* current one" (generations.rs:5-8): the end of one request never takes   *)
(* the slot of another one away.                                           *)
FinishEvictsOnlyItself ==
  [][\A r, q \in Requests :
       pc[r] = "ending" /\ pc'[r] = "over" /\ q # r /\ slot[sess[q]] = q
         => slot'[sess[q]] = q]_vars

-----------------------------------------------------------------------------
(* The registry implements SingleFlight: the driver of a session is the    *)
(* request in its slot for as long as its stream is being polled.          *)
Owner == [s \in Sessions |-> IF slot[s] # NoSlot /\ pc[slot[s]] \in Streaming
                               THEN slot[s] ELSE NoSlot]
Begun == {r \in Requests : pc[r] \notin {"idle", "resolving", "gaveup", "allocated"}}

SF == INSTANCE SingleFlight WITH owner <- Owner, begun <- Begun, Nobody <- NoSlot

(* At most one request drives a session, and one that lost it never does   *)
(* again.                                                                  *)
ImplementsSingleFlight == SF!Spec
=============================================================================
