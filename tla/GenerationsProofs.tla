-------------------------- MODULE GenerationsProofs -------------------------
(***************************************************************************)
(* Proofs about Generations, for any sessions and any number of requests.  *)
(*                                                                         *)
(* LiveIsRegistered is not inductive: finish compares generation ids, so   *)
(* one needs that ids which were drawn are distinct, hence that they are   *)
(* below the counter, and that a slot holds a request of its own session   *)
(* that was installed.                                                     *)
(***************************************************************************)
EXTENDS Generations, TLAPS

Drawn(r) == pc[r] \notin {"idle", "resolving", "gaveup"}
Installed(r) == Drawn(r) /\ pc[r] # "allocated"

IdsBelowCounter == \A r \in Requests : Drawn(r) => genId[r] < nextGen

IdsDistinct == \A r, q \in Requests :
  Drawn(r) /\ Drawn(q) /\ genId[r] = genId[q] => r = q

SlotsHoldTheirOwn == \A s \in Sessions : slot[s] # NoSlot =>
  sess[slot[s]] = s /\ Installed(slot[s])

Inv == /\ TypeOK
       /\ IdsBelowCounter
       /\ IdsDistinct
       /\ SlotsHoldTheirOwn
       /\ LiveIsRegistered

USE GenerationsAssumption

-----------------------------------------------------------------------------
(* Every variable keeps its type. *)
LEMMA TypeInit == Init => TypeOK
  BY DEF Init, TypeOK, PC

LEMMA TypeStep == TypeOK /\ [Next]_vars => TypeOK'
<1> SUFFICES ASSUME TypeOK, [Next]_vars PROVE TypeOK'
  OBVIOUS
<1> USE DEF TypeOK, PC, Streaming, Ended
<1>1. ASSUME NEW r \in Requests, RequestStep(r) PROVE TypeOK'
  <2>1. CASE Arrive(r) \/ GiveUp(r) \/ BeginPoll(r) \/ PollAborted(r)
    BY <2>1 DEF Arrive, GiveUp, BeginPoll, PollAborted, Goto
  <2>2. CASE Park(r) \/ EmitProgress(r) \/ EmitTerminal(r) \/ Disconnect(r)
    BY <2>2 DEF Park, EmitProgress, EmitTerminal, Disconnect, Goto
  <2>3. CASE Allocate(r)
    BY <2>3 DEF Allocate, Goto
  <2>4. CASE Install(r)
    BY <2>4 DEF Install, Cut, Goto
  <2>5. CASE Finish(r)
    BY <2>5 DEF Finish, Goto
  <2> QED
    BY <1>1, <2>1, <2>2, <2>3, <2>4, <2>5 DEF RequestStep
<1>2. ASSUME NEW s \in Sessions, SessionStep(s) PROVE TypeOK'
  BY <1>2 DEF SessionStep, Remove, Stop, Cut
<1>3. CASE UNCHANGED vars
  BY <1>3 DEF vars
<1> QED
  BY <1>1, <1>2, <1>3 DEF Next

(* Type correctness of the registry and of the requests. *)
THEOREM TypeCorrect == Spec => []TypeOK
  BY TypeInit, TypeStep, PTL DEF Spec

-----------------------------------------------------------------------------
LEMMA InvInit == Init => Inv
<1> SUFFICES ASSUME Init PROVE Inv
  OBVIOUS
<1>1. TypeOK
  BY TypeInit
<1> QED
  BY <1>1 DEF Init, Inv, TypeOK, IdsBelowCounter, IdsDistinct, SlotsHoldTheirOwn,
     LiveIsRegistered, Live, Streaming, Drawn

LEMMA InvStep == Inv /\ [Next]_vars => Inv'
<1> SUFFICES ASSUME Inv, [Next]_vars PROVE Inv'
  OBVIOUS
<1> USE DEF Inv
<1>0. TypeOK'
  BY TypeStep
<1> USE DEF TypeOK, PC, Streaming, Ended, Drawn, Installed, Live
<1>1. ASSUME NEW r \in Requests, Arrive(r) \/ GiveUp(r) PROVE Inv'
  BY <1>0, <1>1 DEF Arrive, GiveUp, Goto, IdsBelowCounter, IdsDistinct,
     SlotsHoldTheirOwn, LiveIsRegistered
<1>2. ASSUME NEW r \in Requests, Allocate(r) PROVE Inv'
  <2>1. IdsBelowCounter' /\ IdsDistinct'
    BY <1>2 DEF Allocate, Goto, IdsBelowCounter, IdsDistinct
  <2>2. SlotsHoldTheirOwn' /\ LiveIsRegistered'
    BY <1>2 DEF Allocate, Goto, SlotsHoldTheirOwn, LiveIsRegistered
  <2> QED
    BY <1>0, <2>1, <2>2
<1>3. ASSUME NEW r \in Requests, Install(r) PROVE Inv'
  <2>1. IdsBelowCounter' /\ IdsDistinct'
    BY <1>3 DEF Install, Goto, IdsBelowCounter, IdsDistinct
  <2>2. SlotsHoldTheirOwn'
    BY <1>3 DEF Install, Goto, SlotsHoldTheirOwn
  <2>3. LiveIsRegistered'
    BY <1>3 DEF Install, Cut, Goto, LiveIsRegistered
  <2> QED
    BY <1>0, <2>1, <2>2, <2>3
<1>4. ASSUME NEW r \in Requests,
             BeginPoll(r) \/ PollAborted(r) \/ Park(r) \/ EmitProgress(r)
               \/ EmitTerminal(r) \/ Disconnect(r)
      PROVE Inv'
  <2>1. IdsBelowCounter' /\ IdsDistinct'
    BY <1>4 DEF BeginPoll, PollAborted, Park, EmitProgress, EmitTerminal, Disconnect,
       Goto, IdsBelowCounter, IdsDistinct
  <2>2. SlotsHoldTheirOwn' /\ LiveIsRegistered'
    BY <1>4 DEF BeginPoll, PollAborted, Park, EmitProgress, EmitTerminal, Disconnect,
       Goto, SlotsHoldTheirOwn, LiveIsRegistered
  <2> QED
    BY <1>0, <2>1, <2>2
<1>5. ASSUME NEW r \in Requests, Finish(r) PROVE Inv'
  <2>1. IdsBelowCounter' /\ IdsDistinct'
    BY <1>5 DEF Finish, Goto, IdsBelowCounter, IdsDistinct
  <2>2. SlotsHoldTheirOwn'
    BY <1>5 DEF Finish, Goto, SlotsHoldTheirOwn
  <2>3. ASSUME NEW q \in Requests, Live(q)' PROVE slot'[sess'[q]] = q
    <3>1. q # r /\ Live(q) /\ slot[sess[q]] = q
      BY <1>5, <2>3 DEF Finish, Goto, LiveIsRegistered
    <3>2. genId[q] # genId[r]
      BY <1>5, <3>1 DEF Finish, Goto, IdsDistinct
    <3> QED
      BY <1>5, <3>1, <3>2 DEF Finish, Goto
  <2> QED
    BY <1>0, <2>1, <2>2, <2>3 DEF LiveIsRegistered
<1>6. ASSUME NEW s \in Sessions, Remove(s) PROVE Inv'
  <2>1. IdsBelowCounter' /\ IdsDistinct'
    BY <1>6 DEF Remove, IdsBelowCounter, IdsDistinct
  <2>2. SlotsHoldTheirOwn' /\ LiveIsRegistered'
    BY <1>6 DEF Remove, Cut, SlotsHoldTheirOwn, LiveIsRegistered
  <2> QED
    BY <1>0, <2>1, <2>2
<1>7. ASSUME NEW s \in Sessions, Stop(s) PROVE Inv'
  BY <1>0, <1>7 DEF Stop, IdsBelowCounter, IdsDistinct, SlotsHoldTheirOwn,
     LiveIsRegistered
<1>8. CASE UNCHANGED vars
  BY <1>0, <1>8 DEF vars, IdsBelowCounter, IdsDistinct, SlotsHoldTheirOwn,
     LiveIsRegistered
<1> QED
  BY <1>1, <1>2, <1>3, <1>4, <1>5, <1>6, <1>7, <1>8 DEF Next, RequestStep, SessionStep

LEMMA Invariant == Spec => []Inv
  BY InvInit, InvStep, PTL DEF Spec

(* The stop button, a newer request and the deletion of the session reach  *)
(* every stream that may still be polled: generations.rs keeps it in its   *)
(* session's slot.                                                         *)
THEOREM LiveRegistered == Spec => []LiveIsRegistered
  BY Invariant, PTL DEF Inv

(* Never two streams of one session that may be polled again, for any      *)
(* number of requests (generations.rs:1-3).                                *)
THEOREM AtMostOneLive == Spec => []OneLiveStream
<1>1. LiveIsRegistered => OneLiveStream
  BY DEF LiveIsRegistered, OneLiveStream
<1> QED
  BY <1>1, LiveRegistered, PTL

-----------------------------------------------------------------------------
(* abort_message leaves no live stream of its session unsignalled. *)
THEOREM StopReaches == Spec => StopReachesLive
<1>1. ASSUME Inv, NEW s \in Sessions, Stop(s), NEW r \in Requests, Live(r), sess[r] = s
      PROVE stopped'[r]
  BY <1>1 DEF Inv, TypeOK, LiveIsRegistered, Stop
<1>2. Inv /\ [Next]_vars =>
        [\A s \in Sessions : Stop(s) =>
           \A r \in Requests : Live(r) /\ sess[r] = s => stopped'[r]]_vars
  BY <1>1
<1> QED
  BY <1>2, Invariant, PTL DEF Spec, StopReachesLive

(* A stream that ends takes nobody else's slot away (generations.rs:5-8).  *)
THEOREM FinishEvictsItself == Spec => FinishEvictsOnlyItself
<1>1. ASSUME Inv, Next, NEW r \in Requests, NEW q \in Requests,
             pc[r] = "ending", pc'[r] = "over", q # r, slot[sess[q]] = q
      PROVE slot'[sess[q]] = q
  <2>1. Finish(r)
    BY <1>1 DEF Inv, TypeOK, Next, RequestStep, SessionStep, Arrive, GiveUp, Allocate,
       Install, BeginPoll, PollAborted, Park, EmitProgress, EmitTerminal, Finish,
       Disconnect, Remove, Stop, Goto
  <2>2. Drawn(q) /\ Drawn(r)
    BY <1>1 DEF Inv, TypeOK, SlotsHoldTheirOwn, Installed, Drawn
  <2>3. genId[q] # genId[r]
    BY <1>1, <2>2 DEF Inv, IdsDistinct
  <2> QED
    BY <1>1, <2>1, <2>3 DEF Inv, TypeOK, Finish
<1>2. Inv /\ [Next]_vars =>
        [\A r, q \in Requests :
           pc[r] = "ending" /\ pc'[r] = "over" /\ q # r /\ slot[sess[q]] = q
             => slot'[sess[q]] = q]_vars
  BY <1>1
<1> QED
  BY <1>2, Invariant, PTL DEF Spec, FinishEvictsOnlyItself

-----------------------------------------------------------------------------
(* The registry implements the abstract specification: a handler step is a *)
(* stutter until the stream is installed, which is Begin; a stream that    *)
(* stops being polled while it holds its slot is End.                      *)

LEMMA OwnerHoldsSlot ==
  ASSUME Inv, NEW s \in Sessions, slot[s] # NoSlot
  PROVE  slot[s] \in Requests /\ sess[slot[s]] = s /\ Installed(slot[s])
  BY DEF Inv, TypeOK, SlotsHoldTheirOwn

LEMMA StreamStepMaps ==
  ASSUME Inv, NEW r \in Requests,
         BeginPoll(r) \/ PollAborted(r) \/ Park(r) \/ EmitProgress(r)
           \/ EmitTerminal(r) \/ Disconnect(r)
  PROVE  SF!End(sess[r]) \/ UNCHANGED <<Owner, Begun>>
<1> USE DEF BeginPoll, PollAborted, Park, EmitProgress, EmitTerminal, Disconnect, Goto
<1>1. pc[r] \in Streaming /\ pc'[r] \in Streaming \cup {"cut", "ending", "disconnected"}
  BY DEF Inv, TypeOK, Streaming
<1>2. \A q \in Requests : q # r => pc'[q] = pc[q]
  BY DEF Inv, TypeOK
<1>3. UNCHANGED <<slot, sess>>
  OBVIOUS
<1>4. Begun' = Begun
  BY <1>1, <1>2 DEF Begun, Streaming
<1>5. sess[r] \in Sessions
  BY DEF Inv, TypeOK
<1>6. CASE slot[sess[r]] = r /\ pc'[r] \notin Streaming
  <2>1. Owner[sess[r]] = r /\ r # NoSlot
    BY <1>1, <1>5, <1>6 DEF Owner
  <2>2. ASSUME NEW s \in Sessions
        PROVE  Owner'[s] = IF s = sess[r] THEN NoSlot ELSE Owner[s]
    <3>1. CASE s = sess[r]
      BY <1>3, <1>6, <3>1 DEF Owner
    <3>2. CASE s # sess[r]
      <4>1. slot[s] # r
        BY <3>2, OwnerHoldsSlot
      <4> QED
        BY <1>2, <1>3, <3>2, <4>1, OwnerHoldsSlot DEF Owner
    <3> QED
      BY <3>1, <3>2
  <2>3. Owner' = [Owner EXCEPT ![sess[r]] = NoSlot]
    BY <2>2 DEF Owner
  <2> QED
    BY <1>4, <2>1, <2>3 DEF SF!End
<1>7. CASE ~(slot[sess[r]] = r /\ pc'[r] \notin Streaming)
  <2>1. ASSUME NEW s \in Sessions
        PROVE  Owner'[s] = Owner[s]
    <3>1. CASE slot[s] = r
      <4>1. s = sess[r]
        BY <3>1, OwnerHoldsSlot
      <4> QED
        BY <1>1, <1>3, <1>7, <3>1, <4>1 DEF Owner
    <3>2. CASE slot[s] # r
      BY <1>2, <1>3, <3>2, OwnerHoldsSlot DEF Owner
    <3> QED
      BY <3>1, <3>2
  <2> QED
    BY <1>4, <2>1 DEF Owner
<1> QED
  BY <1>6, <1>7

LEMMA InstallMaps ==
  ASSUME Inv, NEW r \in Requests, Install(r)
  PROVE  SF!Begin(r, sess[r])
<1> USE DEF Install, Goto
<1>1. r \notin Begun
  BY DEF Begun
<1>2. Begun' = Begun \cup {r}
  BY DEF Inv, TypeOK, Begun
<1>3. sess[r] \in Sessions
  BY DEF Inv, TypeOK
<1>4. ASSUME NEW s \in Sessions
      PROVE  Owner'[s] = IF s = sess[r] THEN r ELSE Owner[s]
  <2>1. CASE s = sess[r]
    BY <2>1 DEF Inv, TypeOK, Owner, Streaming
  <2>2. CASE s # sess[r]
    <3>1. slot'[s] = slot[s] /\ slot[s] # r
      BY <2>2, OwnerHoldsSlot DEF Inv, TypeOK
    <3> QED
      BY <2>2, <3>1, OwnerHoldsSlot DEF Inv, TypeOK, Owner
  <2> QED
    BY <2>1, <2>2
<1>5. Owner' = [Owner EXCEPT ![sess[r]] = r]
  <2> HIDE DEF Install, Goto
  <2>1. Owner' = [s \in Sessions |-> IF s = sess[r] THEN r ELSE Owner[s]]
    BY <1>4 DEF Owner
  <2> QED
    BY <2>1 DEF Owner
<1> QED
  BY <1>1, <1>2, <1>5 DEF SF!Begin

LEMMA FinishMaps ==
  ASSUME Inv, NEW r \in Requests, Finish(r)
  PROVE  UNCHANGED <<Owner, Begun>>
<1> USE DEF Finish, Goto
<1>1. Begun' = Begun
  BY DEF Inv, TypeOK, Begun
<1>2. ASSUME NEW s \in Sessions
      PROVE  Owner'[s] = Owner[s]
  <2>1. CASE slot[s] = r
    <3>1. Owner[s] = NoSlot /\ slot'[s] \in {r, NoSlot} /\ pc'[r] = "over"
      BY <2>1 DEF Inv, TypeOK, Owner, Streaming
    <3> QED
      BY <3>1 DEF Owner, Streaming
  <2>2. CASE slot[s] # r
    <3>1. slot'[s] = slot[s]
      <4>1. CASE slot[s] = NoSlot
        BY <4>1 DEF Inv, TypeOK
      <4>2. CASE slot[s] # NoSlot
        <5>1. genId[slot[s]] # genId[r]
          BY <2>2, <4>2, OwnerHoldsSlot DEF Inv, IdsDistinct, Installed, Drawn
        <5> QED
          BY <5>1 DEF Inv, TypeOK
      <4> QED
        BY <4>1, <4>2
    <3> QED
      BY <2>2, <3>1, OwnerHoldsSlot DEF Inv, TypeOK, Owner
  <2> QED
    BY <2>1, <2>2
<1> QED
  BY <1>1, <1>2 DEF Owner

LEMMA StepMaps == Inv /\ [Next]_vars => [SF!Next]_<<Owner, Begun>>
<1> SUFFICES ASSUME Inv, [Next]_vars PROVE [SF!Next]_<<Owner, Begun>>
  OBVIOUS
<1>1. ASSUME NEW r \in Requests, Arrive(r) \/ GiveUp(r) \/ Allocate(r)
      PROVE UNCHANGED <<Owner, Begun>>
  <2>1. Begun' = Begun
    BY <1>1 DEF Inv, TypeOK, Arrive, GiveUp, Allocate, Goto, Begun
  <2>2. ASSUME NEW s \in Sessions PROVE Owner'[s] = Owner[s]
    BY <1>1, OwnerHoldsSlot DEF Inv, TypeOK, Arrive, GiveUp, Allocate, Goto, Owner,
       Installed, Drawn
  <2> QED
    BY <2>1, <2>2 DEF Owner
<1>2. ASSUME NEW s \in Sessions, Remove(s)
      PROVE  SF!End(s) \/ UNCHANGED <<Owner, Begun>>
  <2>1. Begun' = Begun
    BY <1>2 DEF Remove, Begun
  <2>2. Owner' = [Owner EXCEPT ![s] = NoSlot]
    BY <1>2 DEF Inv, TypeOK, Remove, Owner
  <2>3. Owner[s] = NoSlot => Owner' = Owner
    BY <2>2 DEF Owner
  <2> QED
    BY <2>1, <2>2, <2>3 DEF SF!End
<1>3. ASSUME NEW s \in Sessions, Stop(s) PROVE UNCHANGED <<Owner, Begun>>
  BY <1>3 DEF Stop, Owner, Begun
<1>4. CASE UNCHANGED vars
  BY <1>4 DEF vars, Owner, Begun
<1>5. \A r \in Requests : sess[r] \in Sessions
  BY DEF Inv, TypeOK
<1> QED
  BY <1>1, <1>2, <1>3, <1>4, <1>5, StreamStepMaps, InstallMaps, FinishMaps
     DEF Next, RequestStep, SessionStep, SF!Next

(* At most one request drives a session, a newer one takes over at once,   *)
(* and one that lost the session never drives it again.                    *)
THEOREM RegistryImplementsSingleFlight == Spec => ImplementsSingleFlight
<1>1. Init => SF!Init
  BY DEF Init, SF!Init, Owner, Begun
<1>2. Inv /\ [Next]_vars => [SF!Next]_(SF!vars)
  BY StepMaps DEF SF!vars
<1> QED
  BY <1>1, <1>2, Invariant, PTL DEF Spec, SF!Spec, ImplementsSingleFlight
=============================================================================
