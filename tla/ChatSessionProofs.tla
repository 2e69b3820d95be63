-------------------------- MODULE ChatSessionProofs -------------------------
(***************************************************************************)
(* Proofs about ChatSession: its six safety invariants, for any number of  *)
(* streams and clients and any number of messages.                         *)
(*                                                                         *)
(* A stream remembers a branch it read long ago, whose messages may have   *)
(* been deleted since; a summary's cutoff may be gone as well.  What they  *)
(* still mean can only be said of the tree of all messages ever created:   *)
(* ids are never used twice and parents never change, so that tree only    *)
(* grows, and the table holds a part of it that is closed under parents.   *)
(* The invariant History says that such a tree exists on which             *)
(*   - the table, with its parents and roles, is a part,                   *)
(*   - every branch a stream or the summarizer holds is a path, and the    *)
(*     message a stream answers ends exactly the branch of its prompt,     *)
(*   - every summary, stored or in the making, stands for the whole path   *)
(*     of its cutoff.                                                      *)
(* An insert is a step to a larger tree, everything else keeps the tree.   *)
(*                                                                         *)
(* Beside it: TypeInv (types, the foreign key, ids below next) and         *)
(* CutoffInv (one summarizer task, a cutoff no stored summary has unless   *)
(* the task passed over it).                                               *)
(***************************************************************************)
EXTENDS ChatSession, MessageTreeProofs

USE ChatAssumption DEF ChatAssumption

-----------------------------------------------------------------------------
(* Types. *)

Row == [parent : IdsOrNone, role : Roles, text : Nat, hidden : BOOLEAN]
(* A summarizer task that has planned knows the cutoff of its summary. *)
Task == {s \in SummState : s.pc \in {"provider", "store"} => s.cutoff \in Ids}

(* The table of messages: typed, ids below next, parents stored and older.  *)
Stored == /\ exists \in BOOLEAN
          /\ next \in 1 .. MaxMsg + 1
          /\ DOMAIN msg \subseteq 1 .. next - 1
          /\ \A m \in DOMAIN msg : msg[m] \in Row
          /\ ParentsExist(msg)

Pointers == /\ leaf \in IdsOrNone
            /\ edits \in Nat
            /\ slot \in Streams \cup {Free}
            /\ aborted \subseteq Streams
            /\ stopped \subseteq Streams
            /\ claimed \in BOOLEAN

Tables == /\ summaries \in Seq(SummaryRow)
          /\ st \in [Streams -> StreamState]
          /\ job \in [Clients -> JobState]
          /\ summ \in [Streams -> Task]

TypeInv == Stored /\ Pointers /\ Tables

(* The type invariant of the runs. *)
LEMMA TypeInvImpliesTypeOK == TypeInv => TypeOK /\ ParentsExist(msg)
<1> SUFFICES ASSUME TypeInv PROVE TypeOK /\ ParentsExist(msg)
  OBVIOUS
<1>1. Stored /\ Pointers /\ Tables
  BY DEF TypeInv
<1>2. summ \in [Streams -> SummState]
  BY <1>1 DEF Tables, Task
<1>3. DOMAIN msg \subseteq Ids
  BY <1>1 DEF Stored, Ids
<1> QED BY <1>1, <1>2, <1>3 DEF Stored, Pointers, Tables, TypeOK, Row, SummaryRow

(* The table of messages is a tree. *)
LEMMA StoredTree == Stored => /\ Tree(msg)
                              /\ DOMAIN msg \subseteq Ids
                              /\ DOMAIN msg \subseteq 1 .. MaxMsg
  BY DEF Stored, Tree, Ids

(* The four ways the table changes: an insert, *)
LEMMA InsertStored ==
  ASSUME Stored, NEW parent, NEW role \in Roles, MayInsert(parent), next <= MaxMsg,
         Insert(parent, role), exists' = exists
  PROVE  Stored'
<1>1. parent \in IdsOrNone /\ (parent = NoMsg \/ parent \in DOMAIN msg)
  BY DEF MayInsert, Stored, IdsOrNone, Ids
<1>2. Message(parent, role) \in Row
  BY <1>1 DEF Message, Row
<1>3. /\ DOMAIN msg' = DOMAIN msg \cup {next}
      /\ \A m \in DOMAIN msg' :
           msg'[m] = IF m = next THEN Message(parent, role) ELSE msg[m]
  BY DEF Insert
<1>4. next' = next + 1 /\ next \in Nat /\ next' \in 1 .. MaxMsg + 1
  BY DEF Insert, Stored
<1>5. DOMAIN msg' \subseteq 1 .. next' - 1
  BY <1>3, <1>4 DEF Stored
<1>6. \A m \in DOMAIN msg' : msg'[m] \in Row
  BY <1>2, <1>3 DEF Stored
<1>7. ParentsExist(msg')
  <2> SUFFICES ASSUME NEW k \in DOMAIN msg'
               PROVE  \/ msg'[k].parent = NoMsg
                      \/ msg'[k].parent \in DOMAIN msg' /\ msg'[k].parent < k
    BY DEF ParentsExist
  <2>1. CASE k = next
    BY <2>1, <1>1, <1>3, <1>4 DEF Message, Stored
  <2>2. CASE k # next
    BY <2>2, <1>3 DEF Stored, ParentsExist
  <2> QED BY <2>1, <2>2
<1> QED BY <1>4, <1>5, <1>6, <1>7 DEF Stored

(* an update, which keeps ids, parents and roles, *)
LEMMA UpdateStored ==
  ASSUME Stored, NEW m, NEW text \in Nat, NEW hidden \in BOOLEAN,
         Update(m, text, hidden), UNCHANGED <<exists, next>>
  PROVE  /\ Stored'
         /\ DOMAIN msg' = DOMAIN msg
         /\ \A k \in DOMAIN msg : /\ msg'[k].parent = msg[k].parent
                                  /\ msg'[k].role = msg[k].role
<1>1. CASE m \notin DOMAIN msg
  <2>1. msg' = msg
    BY <1>1 DEF Update
  <2> QED BY <2>1 DEF Stored
<1>2. CASE m \in DOMAIN msg
  <2>1. msg' = [msg EXCEPT ![m].text = text, ![m].hidden = hidden]
    BY <1>2 DEF Update
  <2>2. DOMAIN msg' = DOMAIN msg
    BY <2>1
  <2>3. ASSUME NEW k \in DOMAIN msg
        PROVE  /\ msg'[k] \in Row
               /\ msg'[k].parent = msg[k].parent
               /\ msg'[k].role = msg[k].role
    <3>1. msg[k] \in Row
      BY DEF Stored
    <3> QED BY <2>1, <3>1 DEF Row
  <2>4. ParentsExist(msg')
    BY <2>2, <2>3 DEF Stored, ParentsExist
  <2> QED BY <2>2, <2>3, <2>4 DEF Stored
<1> QED BY <1>1, <1>2

(* a deletion with its cascade, which keeps the rows it leaves, *)
LEMMA DeleteStored ==
  ASSUME Stored, NEW ids, msg' = Without(msg, ids), UNCHANGED <<exists, next>>
  PROVE  /\ Stored'
         /\ DOMAIN msg' \subseteq DOMAIN msg
         /\ \A k \in DOMAIN msg' : msg'[k] = msg[k]
<1>1. Tree(msg)
  BY StoredTree
<1>2. /\ Tree(msg') /\ Extends(msg, msg')
      /\ \A k \in DOMAIN msg' : msg'[k] = msg[k]
  BY <1>1, WithoutIsTree
<1> QED BY <1>2 DEF Stored, Tree, Extends

(* and delete_session. *)
LEMMA EmptyStored ==
  ASSUME Stored, msg' = EmptyTree, exists' \in BOOLEAN, next' = next
  PROVE  Stored'
<1>1. DOMAIN msg' = {}
  BY DEF EmptyTree
<1> QED BY <1>1 DEF Stored, ParentsExist

(* The call a dropped stream had issued. *)
LEMMA LastCallStored ==
  ASSUME TypeInv, NEW r \in Streams, LastCall(r) PROVE Stored' /\ leaf' \in IdsOrNone
<1> USE DEF TypeInv, Pointers
<1>0. st[r] \in StreamState
  BY DEF Tables
<1>1. CASE UNCHANGED db
  BY <1>1 DEF db, Stored
<1>2. CASE /\ st[r].pc = "user" /\ MayInsert(st[r].parent) /\ next <= MaxMsg
           /\ Insert(st[r].parent, "user")
           /\ UNCHANGED <<exists, leaf, summaries, edits>>
  BY <1>2, InsertStored DEF Roles
<1>3. CASE /\ st[r].pc = "reply" /\ MayInsert(ReplyParent(r)) /\ next <= MaxMsg
           /\ Insert(ReplyParent(r), "assistant")
           /\ UNCHANGED <<exists, leaf, summaries, edits>>
  BY <1>3, InsertStored DEF Roles
<1>4. CASE /\ st[r].pc = "hide"
           /\ Update(st[r].target, st[r].clone, TRUE)
           /\ UNCHANGED <<exists, leaf, next, summaries, edits>>
  <2>1. st[r].clone \in Nat
    BY <1>0 DEF StreamState
  <2> QED BY <1>4, <2>1, UpdateStored
<1>5. CASE /\ st[r].pc = "leaf"
           /\ PointLeafAt(st[r].reply)
           /\ UNCHANGED <<exists, msg, next, summaries, edits>>
  BY <1>5, <1>0 DEF Stored, PointLeafAt, StreamState
<1> QED BY <1>1, <1>2, <1>3, <1>4, <1>5 DEF LastCall

(* The foreign key holds whatever the processes do in between. *)
LEMMA StoredStep == TypeInv /\ [Next]_vars => Stored'
<1> SUFFICES ASSUME TypeInv, [Next]_vars PROVE Stored'
  OBVIOUS
<1>0. Stored
  BY DEF TypeInv
<1>1. ASSUME NEW r \in Streams, StreamStep(r) PROVE Stored'
  <2>0. st[r] \in StreamState
    BY DEF TypeInv, Tables
  <2>1. CASE CreateUser(r)
    <3>1. CASE MayInsert(st[r].parent) /\ next <= MaxMsg /\ Insert(st[r].parent, "user")
      BY <2>1, <3>1, <1>0, InsertStored DEF CreateUser, Roles
    <3>2. CASE UNCHANGED <<msg, next>>
      BY <2>1, <3>2, <1>0 DEF CreateUser, Stored
    <3> QED BY <2>1, <3>1, <3>2 DEF CreateUser
  <2>2. CASE CreateReply(r)
    <3>1. CASE /\ MayInsert(ReplyParent(r)) /\ next <= MaxMsg
               /\ Insert(ReplyParent(r), "assistant")
      BY <2>2, <3>1, <1>0, InsertStored DEF CreateReply, Roles
    <3>2. CASE UNCHANGED <<msg, next>>
      BY <2>2, <3>2, <1>0 DEF CreateReply, Stored
    <3> QED BY <2>2, <3>1, <3>2 DEF CreateReply
  <2>3. CASE HideTarget(r)
    <3>1. st[r].clone \in Nat
      BY <2>0 DEF StreamState
    <3> QED BY <2>3, <3>1, <1>0, UpdateStored DEF HideTarget
  <2>4. CASE LastCall(r)
    BY <2>4, LastCallStored
  <2>5. CASE UNCHANGED <<exists, msg, next>>
    BY <2>5, <1>0 DEF Stored
  <2> QED
    BY <1>1, <2>1, <2>2, <2>3, <2>4, <2>5
    DEF StreamStep, StorageStep, ProviderStep, Start, ReadSession, ReadHistorySend,
        ReadHistoryRegen, ReadSummaries, AdvanceLeaf, Close, ProviderConnects,
        ProviderRefuses, Chunk, ProviderEnds, ProviderFails, HonourStop, Cut, Disconnect,
        CallFails, Dropped, db
<1>2. ASSUME NEW r \in Streams, SummarizerStep(r) PROVE Stored'
  BY <1>2, <1>0 DEF SummarizerStep, SummReadSession, SummReadHistory, SummPlan,
     SummGivesUp, SummProviderAnswers, SummStore, db, Stored
<1>3. ASSUME NEW c \in Clients, ClientStep(c) PROVE Stored'
  <2>0. job[c] \in JobState
    BY DEF TypeInv, Tables
  <2>1. CASE WriteEdit(c)
    <3>1. job[c].text \in Nat /\ job[c].hidden \in BOOLEAN
      BY <2>0 DEF JobState
    <3> QED BY <2>1, <3>1, <1>0, UpdateStored DEF WriteEdit
  <2>2. CASE CommitDelete(c)
    BY <2>2, <1>0, DeleteStored DEF CommitDelete
  <2>3. CASE DropSession(c)
    BY <2>3, <1>0, EmptyStored DEF DropSession
  <2>4. CASE UNCHANGED <<exists, msg, next>>
    BY <2>4, <1>0 DEF Stored
  <2> QED
    BY <1>3, <2>1, <2>2, <2>3, <2>4
    DEF ClientStep, ReadForEdit, ReadForDelete, ReadLeafForDelete, ReadForSwitch,
        CommitSwitch, Unregister, db
<1>4. CASE Stop
  BY <1>4, <1>0 DEF Stop, db, Stored
<1>5. CASE UNCHANGED vars
  BY <1>5, <1>0 DEF vars, db, Stored
<1> QED BY <1>1, <1>2, <1>3, <1>4, <1>5 DEF Next

(* A branch that list_messages and active_path return. *)
LEMMA BranchTyped ==
  ASSUME Stored, NEW l
  PROVE  /\ ActivePath(msg, l) \in Seq(Ids)
         /\ Range(ActivePath(msg, l)) \subseteq Ids
         /\ Last0(ActivePath(msg, l)) \in IdsOrNone
<1> DEFINE p == ActivePath(msg, l)
<1>1. Tree(msg) /\ DOMAIN msg \subseteq 1 .. MaxMsg /\ DOMAIN msg \subseteq Ids
  BY StoredTree
<1>2. PICK m \in DOMAIN msg \cup {NoMsg} : p = PathTo(msg, m) /\ Last0(p) = m
  BY <1>1, ActivePathIs
<1>3. m \in Nat
  BY <1>1 DEF NoMsg
<1>4. PathTo(msg, m) \in Seq(DOMAIN msg)
  BY <1>1, <1>3, PathShaped DEF Shaped
<1> HIDE DEF p
<1>5. p \in Seq(Ids)
  BY <1>1, <1>2, <1>4
<1>6. Range(p) \subseteq Ids
  BY <1>5 DEF Range
<1> QED BY <1>1, <1>2, <1>5, <1>6 DEF IdsOrNone, p

(* The summary that stands for the path up to start: none at its beginning. *)
StoredAt(path, start, s) ==
  \/ start = 0 /\ s = NoSummary
  \/ /\ start \in 1 .. Len(path)
     /\ \E i \in DOMAIN summaries : s = summaries[i] /\ s.cutoff = path[start]

(* What applicable_summary returns: a summary at the latest cutoff. *)
LEMMA ApplicableIs ==
  ASSUME Tables, NEW path \in Seq(Ids)
  PROVE  LET start == AppliedAt(Cutoffs, path)
         IN  /\ start \in 0 .. Len(path)
             /\ \A i \in start + 1 .. Len(path) : path[i] \notin Cutoffs
             /\ StoredAt(path, start, Applicable(path))
             /\ Applicable(path) \in SummaryRow \cup {NoSummary}
<1> DEFINE start == AppliedAt(Cutoffs, path)
           at == {i \in DOMAIN summaries : summaries[i].cutoff = path[start]}
<1>1. /\ start \in 0 .. Len(path)
      /\ start > 0 => path[start] \in Cutoffs
      /\ \A i \in start + 1 .. Len(path) : path[i] \notin Cutoffs
  BY AppliedAtIs
<1>2. Applicable(path) = IF start = 0 THEN NoSummary ELSE summaries[Newest(at)]
  BY DEF Applicable
<1>3. Len(path) \in Nat
  OBVIOUS
<1>4. summaries \in Seq(SummaryRow)
  BY DEF Tables
<1> HIDE DEF start
<1>5. CASE start # 0
  <2>1. start \in 1 .. Len(path) /\ path[start] \in Cutoffs
    BY <1>1, <1>3, <1>5
  <2>2. at # {}
    BY <2>1 DEF Cutoffs
  <2>3. Len(summaries) \in Nat /\ at \in SUBSET (0 .. Len(summaries))
    BY <1>4
  <2> HIDE DEF at
  <2>4. Newest(at) \in at
    BY <2>2, <2>3, Greatest DEF Newest
  <2>5. Newest(at) \in DOMAIN summaries /\ summaries[Newest(at)].cutoff = path[start]
    BY <2>4 DEF at
  <2>6. summaries[Newest(at)] \in SummaryRow
    BY <1>4, <2>5
  <2> QED BY <1>1, <1>2, <1>5, <2>1, <2>5, <2>6 DEF StoredAt, start
<1>6. CASE start = 0
  BY <1>1, <1>2, <1>6 DEF StoredAt, start
<1> QED BY <1>5, <1>6

(* The local states of the streams. *)
LEMMA ProceedTyped ==
  ASSUME NEW r \in Streams, NEW new \in StreamState,
         st \in [Streams -> StreamState], Proceed(r, new)
  PROVE  st' \in [Streams -> StreamState]
  BY DEF Proceed

LEMMA IdleTyped == IdleStream \in StreamState
  BY DEF IdleStream, StreamState, StreamPCs, IdsOrNone, NoMsg

LEMMA RemainsTyped ==
  ASSUME NEW r \in Streams, st \in [Streams -> StreamState], NEW pc \in Ended \cup {"closing"}
  PROVE  /\ Remains(r, pc) \in StreamState
         /\ \A via \in {"error", "stopped"} :
              [Remains(r, pc) EXCEPT !.via = via] \in StreamState
<1>1. st[r] \in StreamState /\ IdleStream \in StreamState
  BY IdleTyped
<1>2. Remains(r, pc) \in StreamState
  <2>1. pc \in StreamPCs
    BY DEF StreamPCs, Ended
  <2>2. [IdleStream EXCEPT !.pc = pc] \in StreamState
    BY <1>1, <2>1 DEF StreamState
  <2>3. [IdleStream EXCEPT !.pc = pc, !.kind = st[r].kind, !.path = st[r].path,
           !.parent = st[r].parent, !.reply = st[r].reply] \in StreamState
    BY <1>1, <2>1 DEF StreamState
  <2> QED BY <2>2, <2>3 DEF Remains
<1> HIDE DEF Remains
<1> QED BY <1>2 DEF StreamState

LEMMA FailTyped ==
  ASSUME NEW r \in Streams, st \in [Streams -> StreamState], Fail(r)
  PROVE  st' \in [Streams -> StreamState]
  BY RemainsTyped, ProceedTyped DEF Fail

LEMMA PersistingTyped ==
  ASSUME NEW r \in Streams, st \in [Streams -> StreamState], NEW via \in {"done", "stopped"}
  PROVE  Persisting(r, via) \in StreamState
<1>1. st[r] \in StreamState
  OBVIOUS
<1> DEFINE pc == IF st[r].kind = "regen" THEN "hide" ELSE "reply"
<1>2. pc \in StreamPCs
  BY DEF StreamPCs
<1>3. Persisting(r, via) = [st[r] EXCEPT !.pc = pc, !.via = via, !.cut = 0,
                                          !.sent = NoSummary, !.got = FALSE]
  BY DEF Persisting
<1>4. via \in {"none", "done", "stopped", "error"} /\ 0 \in Nat /\ FALSE \in BOOLEAN
      /\ NoSummary \in SummaryRow \cup {NoSummary}
  OBVIOUS
<1> HIDE DEF pc
<1>5. [st[r] EXCEPT !.pc = pc, !.via = via, !.cut = 0, !.sent = NoSummary, !.got = FALSE]
        \in StreamState
  BY <1>1, <1>2, <1>4 DEF StreamState
<1> QED BY <1>3, <1>5

LEMMA StreamsStep == TypeInv /\ [Next]_vars => st' \in [Streams -> StreamState]
<1> SUFFICES ASSUME TypeInv, [Next]_vars PROVE st' \in [Streams -> StreamState]
  OBVIOUS
<1>0. Stored /\ st \in [Streams -> StreamState]
  BY DEF TypeInv, Tables
<1>1. ASSUME NEW r \in Streams, StreamStep(r) PROVE st' \in [Streams -> StreamState]
  <2>0. st[r] \in StreamState
    BY <1>0
  <2> USE DEF StreamState, StreamPCs, Ended
  <2>1. CASE Start(r)
    <3>1. PICK kind \in Kinds, target \in Ids :
            Proceed(r, [IdleStream EXCEPT !.pc = "session", !.kind = kind,
                          !.target = IF kind = "send" THEN NoMsg ELSE target])
      BY <2>1 DEF Start
    <3> DEFINE T == IF kind = "send" THEN NoMsg ELSE target
    <3>2. T \in IdsOrNone
      BY DEF IdsOrNone
    <3>3. Proceed(r, [IdleStream EXCEPT !.pc = "session", !.kind = kind, !.target = T])
      BY <3>1
    <3> HIDE DEF T
    <3>4. [IdleStream EXCEPT !.pc = "session", !.kind = kind, !.target = T] \in StreamState
      <4>1. kind \in {"send", "regen"}
        OBVIOUS
      <4>2. IdleStream \in StreamState
        BY IdleTyped
      <4> QED BY <3>2, <4>1, <4>2
    <3> HIDE DEF StreamState, StreamPCs, Ended
    <3> QED BY <1>0, <3>3, <3>4, ProceedTyped
  <2>2. CASE ReadSession(r)
    <3>1. [st[r] EXCEPT !.pc = "history", !.leaf = leaf] \in StreamState
      BY <2>0 DEF TypeInv, Pointers
    <3> HIDE DEF StreamState, StreamPCs, Ended
    <3> QED BY <2>2, <1>0, <3>1, ProceedTyped, FailTyped DEF ReadSession
  <2>3. CASE ReadHistorySend(r)
    <3> DEFINE path == ActivePath(msg, st[r].leaf)
    <3>1. path \in Seq(Ids) /\ Range(path) \subseteq Ids /\ Last0(path) \in IdsOrNone
      BY <1>0, BranchTyped
    <3> DEFINE new == [st[r] EXCEPT !.pc = "user", !.leaf = NoMsg, !.path = path,
                                    !.parent = Last0(path)]
    <3>2. Proceed(r, new)
      BY <2>3 DEF ReadHistorySend
    <3> HIDE DEF path
    <3>3. new \in StreamState
      BY <2>0, <3>1 DEF IdsOrNone
    <3> HIDE DEF StreamState, StreamPCs, Ended
    <3> QED BY <1>0, <3>2, <3>3, ProceedTyped
  <2>4. CASE ReadHistoryRegen(r)
    <3> DEFINE target == st[r].target
               path == ActivePath(msg, msg[target].parent)
               new == [st[r] EXCEPT !.pc = "summaries", !.clone = msg[target].text,
                         !.leaf = NoMsg, !.path = path, !.parent = msg[target].parent]
    <3>1. CASE IsReply(target) /\ Proceed(r, new)
      <4>1. msg[target] \in Row
        BY <3>1, <1>0 DEF IsReply, Stored
      <4>2. path \in Seq(Ids) /\ Range(path) \subseteq Ids
        BY <1>0, BranchTyped
      <4>3. msg[target].parent \in IdsOrNone /\ msg[target].text \in Nat /\ NoMsg \in IdsOrNone
        BY <4>1 DEF Row, IdsOrNone
      <4>4. new \in StreamState
        <5> HIDE DEF path, target
        <5> QED BY <2>0, <4>2, <4>3
      <4> HIDE DEF StreamState, StreamPCs, Ended
      <4> QED BY <1>0, <3>1, <4>4, ProceedTyped
    <3>2. CASE Fail(r)
      BY <1>0, <3>2, FailTyped
    <3> QED BY <2>4, <3>1, <3>2 DEF ReadHistoryRegen
  <2>5. CASE CreateUser(r)
    <3>1. next <= MaxMsg => [st[r] EXCEPT !.pc = "summaries", !.parent = next] \in StreamState
      <4>1. next <= MaxMsg => next \in IdsOrNone
        BY <1>0 DEF Stored, IdsOrNone, Ids
      <4> QED BY <2>0, <4>1
    <3> HIDE DEF StreamState, StreamPCs, Ended
    <3> QED BY <2>5, <1>0, <3>1, ProceedTyped, FailTyped DEF CreateUser
  <2>6. CASE ReadSummaries(r)
    <3> DEFINE path == st[r].path
               Read(cut, sent) == [st[r] EXCEPT !.pc = "ask", !.cut = cut, !.sent = sent]
    <3>1. VisibleFrom(path) \in Nat /\ Applicable(path) \in SummaryRow \cup {NoSummary}
      <4>1. path \in Seq(Ids)
        BY <2>0
      <4> HIDE DEF path
      <4>2. VisibleFrom(path) \in 0 .. Len(path) /\ Len(path) \in Nat
        BY <4>1, AppliedAtIs DEF VisibleFrom
      <4>3. Applicable(path) \in SummaryRow \cup {NoSummary}
        BY <4>1, ApplicableIs DEF TypeInv
      <4> QED BY <4>2, <4>3
    <3>2. \A cut \in Nat, sent \in SummaryRow \cup {NoSummary} : Read(cut, sent) \in StreamState
      BY <2>0
    <3>3. Proceed(r, Read(VisibleFrom(path), Applicable(path))) \/ Proceed(r, Read(0, NoSummary))
      BY <2>6 DEF ReadSummaries
    <3> HIDE DEF Read, path
    <3> HIDE DEF StreamState, StreamPCs, Ended
    <3> QED BY <1>0, <3>1, <3>2, <3>3, ProceedTyped
  <2>7. CASE ProviderConnects(r)
    <3>1. \A mode \in Modes : [st[r] EXCEPT !.pc = "streaming", !.mode = mode] \in StreamState
      BY <2>0
    <3> HIDE DEF StreamState, StreamPCs, Ended
    <3> QED BY <2>7, <1>0, <3>1, ProceedTyped DEF ProviderConnects
  <2>8. CASE ProviderRefuses(r) \/ ProviderFails(r)
    BY <2>8, <1>0, FailTyped DEF ProviderRefuses, ProviderFails
  <2>9. CASE Chunk(r)
    <3>1. [st[r] EXCEPT !.got = TRUE] \in StreamState
      BY <2>0
    <3> HIDE DEF StreamState, StreamPCs, Ended
    <3> QED BY <2>9, <1>0, <3>1, ProceedTyped DEF Chunk
  <2>10. CASE ProviderEnds(r)
    <3>1. Persisting(r, "done") \in StreamState
      BY <1>0, PersistingTyped
    <3> HIDE DEF StreamState, StreamPCs, Ended
    <3> QED BY <2>10, <1>0, <3>1, ProceedTyped DEF ProviderEnds
  <2>11. CASE HonourStop(r)
    <3>1. Persisting(r, "stopped") \in StreamState
      BY <1>0, PersistingTyped
    <3>2. [Remains(r, "closing") EXCEPT !.via = "stopped"] \in StreamState
      BY <1>0, RemainsTyped
    <3> HIDE DEF StreamState, StreamPCs, Ended
    <3> QED BY <2>11, <1>0, <3>1, <3>2, ProceedTyped DEF HonourStop
  <2>12. CASE HideTarget(r)
    <3>1. [st[r] EXCEPT !.pc = "reply"] \in StreamState
      BY <2>0
    <3> HIDE DEF StreamState, StreamPCs, Ended
    <3> QED BY <2>12, <1>0, <3>1, ProceedTyped DEF HideTarget
  <2>13. CASE CreateReply(r)
    <3>1. next <= MaxMsg => [st[r] EXCEPT !.pc = "leaf", !.reply = next] \in StreamState
      <4>1. next <= MaxMsg => next \in IdsOrNone
        BY <1>0 DEF Stored, IdsOrNone, Ids
      <4> QED BY <2>0, <4>1
    <3> HIDE DEF StreamState, StreamPCs, Ended
    <3> QED BY <2>13, <1>0, <3>1, ProceedTyped, FailTyped DEF CreateReply
  <2>14. CASE AdvanceLeaf(r)
    <3>1. [st[r] EXCEPT !.pc = "closing"] \in StreamState
      BY <2>0
    <3> HIDE DEF StreamState, StreamPCs, Ended
    <3> QED BY <2>14, <1>0, <3>1, ProceedTyped DEF AdvanceLeaf
  <2>15. CASE Close(r) \/ Dropped(r)
    <3>0. "over" \in Ended /\ "cut" \in Ended
      OBVIOUS
    <3> HIDE DEF StreamState, StreamPCs, Ended
    <3>1. Remains(r, "over") \in StreamState /\ Remains(r, "cut") \in StreamState
      BY <1>0, <3>0, RemainsTyped
    <3> QED BY <2>15, <1>0, <3>1, ProceedTyped DEF Close, Dropped
  <2>16. CASE CallFails(r)
    <3>1. /\ [st[r] EXCEPT !.pc = "closing"] \in StreamState
          /\ [st[r] EXCEPT !.pc = "reply"] \in StreamState
      BY <2>0
    <3> HIDE DEF StreamState, StreamPCs, Ended
    <3> QED BY <2>16, <1>0, <3>1, ProceedTyped, FailTyped DEF CallFails
  <2> HIDE DEF StreamState, StreamPCs, Ended
  <2> QED
    BY <1>1, <2>1, <2>2, <2>3, <2>4, <2>5, <2>6, <2>7, <2>8, <2>9, <2>10, <2>11, <2>12,
       <2>13, <2>14, <2>15, <2>16 DEF StreamStep, StorageStep, ProviderStep, Cut, Disconnect
<1>2. ASSUME NEW r \in Streams, SummarizerStep(r) PROVE st' = st
  BY <1>2 DEF SummarizerStep, SummReadSession, SummReadHistory, SummPlan,
     SummGivesUp, SummProviderAnswers, SummStore, Summarize, Release
<1>3. ASSUME NEW c \in Clients, ClientStep(c) PROVE st' = st
  BY <1>3 DEF ClientStep, ReadForEdit, WriteEdit, ReadForDelete, ReadLeafForDelete,
     CommitDelete, ReadForSwitch, CommitSwitch, Unregister, DropSession, Untouched
<1>4. CASE Stop \/ UNCHANGED vars
  BY <1>4, <1>0 DEF Stop, vars, Untouched
<1> QED BY <1>0, <1>1, <1>2, <1>3, <1>4 DEF Next

-----------------------------------------------------------------------------
(* The local states of the clients' requests. *)
LEMMA JobsStep == TypeInv /\ [Next]_vars => job' \in [Clients -> JobState]
<1> SUFFICES ASSUME TypeInv, [Next]_vars PROVE job' \in [Clients -> JobState]
  OBVIOUS
<1>0. Stored /\ Pointers /\ job \in [Clients -> JobState]
  BY DEF TypeInv, Tables
<1>1. ASSUME NEW r \in Streams, StreamStep(r) \/ SummarizerStep(r) PROVE job' = job
  BY <1>1 DEF StreamStep, StorageStep, ProviderStep, Start, ReadSession, ReadHistorySend,
     ReadHistoryRegen, CreateUser, CreateReply, HideTarget, ReadSummaries, AdvanceLeaf, CallFails,
     Close, ProviderConnects, ProviderRefuses, Chunk, ProviderEnds, ProviderFails,
     HonourStop, Cut, Disconnect, Dropped, SummarizerStep, SummReadSession,
     SummReadHistory, SummPlan, SummGivesUp, SummProviderAnswers, SummStore, Summarize,
     Release
<1>2. ASSUME NEW c \in Clients, ClientStep(c) PROVE job' \in [Clients -> JobState]
  <2>0. job[c] \in JobState
    BY <1>0
  <2>1. ASSUME NEW new \in JobState, Become(c, new) PROVE job' \in [Clients -> JobState]
    BY <1>0, <2>1 DEF Become
  <2> USE DEF JobState
  <2>2. Served \in JobState
    BY DEF Served, IdleJob, IdsOrNone, NoMsg
  <2>3. CASE ReadForEdit(c)
    <3>1. PICK m \in DOMAIN msg, op \in Ops \cap {"edit", "hide", "unhide"} :
            Become(c, [IdleJob EXCEPT !.pc = "edit", !.op = op, !.target = m,
                         !.text = IF op = "edit" THEN edits + 1 ELSE msg[m].text,
                         !.hidden = IF op = "edit" THEN msg[m].hidden ELSE op = "hide"])
      BY <2>3 DEF ReadForEdit
    <3>2. msg[m].text \in Nat /\ msg[m].hidden \in BOOLEAN /\ m \in IdsOrNone
      BY <1>0, StoredTree DEF Stored, Row, IdsOrNone
    <3>3. (IF op = "edit" THEN edits + 1 ELSE msg[m].text) \in Nat
      BY <1>0, <3>2 DEF Pointers
    <3>4. (IF op = "edit" THEN msg[m].hidden ELSE op = "hide") \in BOOLEAN
      BY <3>2
    <3> DEFINE T == IF op = "edit" THEN edits + 1 ELSE msg[m].text
               H == IF op = "edit" THEN msg[m].hidden ELSE op = "hide"
    <3>5. ASSUME NEW x \in Nat, NEW h \in BOOLEAN
          PROVE  [IdleJob EXCEPT !.pc = "edit", !.op = op, !.target = m, !.text = x,
                                 !.hidden = h] \in JobState
      BY <3>2 DEF IdleJob, AllOps, IdsOrNone, NoMsg
    <3> HIDE DEF JobState
    <3>6. Become(c, [IdleJob EXCEPT !.pc = "edit", !.op = op, !.target = m, !.text = T,
                                    !.hidden = H])
      BY <3>1
    <3> HIDE DEF T, H
    <3>7. T \in Nat /\ H \in BOOLEAN
      BY <3>3, <3>4 DEF T, H
    <3> QED BY <2>1, <3>5, <3>6, <3>7
  <2>4. CASE ReadForDelete(c)
    <3>1. PICK m \in DOMAIN msg :
            Become(c, [IdleJob EXCEPT !.pc = "leaf", !.op = "delete",
                         !.target = msg[m].parent, !.ids = Subtree(msg, m)])
      BY <2>4 DEF ReadForDelete
    <3>2. Subtree(msg, m) \subseteq Ids /\ msg[m].parent \in IdsOrNone
      BY <1>0, StoredTree DEF Subtree, Stored, Row
    <3>3. [IdleJob EXCEPT !.pc = "leaf", !.op = "delete",
             !.target = msg[m].parent, !.ids = Subtree(msg, m)] \in JobState
      BY <3>2 DEF IdleJob, AllOps, IdsOrNone, NoMsg
    <3> QED BY <2>1, <3>1, <3>3
  <2>5. CASE ReadLeafForDelete(c)
    <3>1. [job[c] EXCEPT !.pc = "delete", !.leaf = leaf] \in JobState
      BY <1>0, <2>0 DEF Pointers
    <3> QED BY <2>1, <2>2, <2>5, <3>1 DEF ReadLeafForDelete
  <2>6. CASE ReadForSwitch(c)
    <3>1. PICK m \in DOMAIN msg :
            Become(c, [IdleJob EXCEPT !.pc = "switch", !.op = "switch",
                                      !.leaf = DeepestLeaf(msg, m)])
      BY <2>6 DEF ReadForSwitch
    <3>2. DeepestLeaf(msg, m) \in IdsOrNone
      BY <1>0, StoredTree, DeepestLeafIs DEF IdsOrNone
    <3>3. [IdleJob EXCEPT !.pc = "switch", !.op = "switch",
             !.leaf = DeepestLeaf(msg, m)] \in JobState
      <4> HIDE DEF DeepestLeaf
      <4> QED BY <3>2 DEF IdleJob, AllOps, IdsOrNone, NoMsg
    <3> QED BY <2>1, <3>1, <3>3
  <2>7. CASE Unregister(c)
    <3>1. [IdleJob EXCEPT !.pc = "drop", !.op = "drop"] \in JobState
      BY DEF IdleJob, AllOps, IdsOrNone, NoMsg
    <3> QED BY <2>1, <2>7, <3>1 DEF Unregister
  <2>8. CASE WriteEdit(c) \/ CommitDelete(c) \/ CommitSwitch(c) \/ DropSession(c)
    BY <2>1, <2>2, <2>8 DEF WriteEdit, CommitDelete, CommitSwitch, DropSession
  <2> QED BY <1>2, <2>3, <2>4, <2>5, <2>6, <2>7, <2>8 DEF ClientStep
<1>3. CASE Stop \/ UNCHANGED vars
  BY <1>3, <1>0 DEF Stop, vars
<1> QED BY <1>0, <1>1, <1>2, <1>3 DEF Next

-----------------------------------------------------------------------------
(* The leaf, the registry and the claim. *)
LEMMA PointersStep == TypeInv /\ [Next]_vars => Pointers'
<1> SUFFICES ASSUME TypeInv, [Next]_vars PROVE Pointers'
  OBVIOUS
<1>0. Stored /\ Pointers /\ job \in [Clients -> JobState] /\ st \in [Streams -> StreamState]
  BY DEF TypeInv, Tables
<1> USE DEF Pointers, GiveSlot, registry, background, db
<1>1. ASSUME NEW r \in Streams, StreamStep(r) PROVE Pointers'
  <2>1. st[r].reply \in IdsOrNone
    BY <1>0 DEF StreamState
  <2>2. CASE Start(r)
    BY <2>2, <1>0 DEF Start
  <2>3. CASE AdvanceLeaf(r)
    BY <2>3, <2>1, <1>0 DEF AdvanceLeaf, PointLeafAt
  <2>4. CASE Close(r)
    BY <2>4, <1>0 DEF Close
  <2>5. CASE Dropped(r)
    <3>1. leaf' \in IdsOrNone
      BY <2>5, LastCallStored DEF Dropped
    <3>2. edits' = edits
      BY <2>5 DEF Dropped, LastCall
    <3> QED BY <2>5, <3>1, <3>2, <1>0 DEF Dropped
  <2>6. CASE UNCHANGED <<leaf, edits, slot, aborted, stopped, claimed>>
    BY <2>6, <1>0
  <2> QED
    BY <1>1, <2>2, <2>3, <2>4, <2>5, <2>6
    DEF StreamStep, StorageStep, ProviderStep, ReadSession, ReadHistorySend,
        ReadHistoryRegen, CreateUser, ReadSummaries, HideTarget, CreateReply, CallFails,
        ProviderConnects, ProviderRefuses, Chunk, ProviderEnds, ProviderFails, HonourStop,
        Cut, Disconnect
<1>2. ASSUME NEW r \in Streams, SummarizerStep(r) PROVE Pointers'
  BY <1>2, <1>0 DEF SummarizerStep, SummReadSession, SummReadHistory, SummPlan,
     SummGivesUp, SummProviderAnswers, SummStore, Summarize, Release
<1>3. ASSUME NEW c \in Clients, ClientStep(c) PROVE Pointers'
  <2>1. job[c].target \in IdsOrNone /\ job[c].leaf \in IdsOrNone
    BY <1>0 DEF JobState
  <2>2. CASE ReadForEdit(c)
    BY <2>2, <1>0 DEF ReadForEdit, Untouched
  <2>3. CASE CommitDelete(c)
    BY <2>3, <2>1, <1>0 DEF CommitDelete, PointLeafAt, Untouched
  <2>4. CASE CommitSwitch(c)
    BY <2>4, <2>1, <1>0 DEF CommitSwitch, PointLeafAt, Untouched
  <2>5. CASE Unregister(c)
    BY <2>5, <1>0 DEF Unregister, Untouched
  <2>6. CASE DropSession(c)
    BY <2>6, <1>0 DEF DropSession, Untouched, IdsOrNone, NoMsg
  <2>7. CASE UNCHANGED <<leaf, edits, slot, aborted, stopped, claimed>>
    BY <2>7, <1>0
  <2> QED
    BY <1>3, <2>2, <2>3, <2>4, <2>5, <2>6, <2>7
    DEF ClientStep, WriteEdit, ReadForDelete, ReadLeafForDelete, ReadForSwitch, Untouched
<1>4. CASE Stop
  BY <1>4, <1>0 DEF Stop, Untouched
<1>5. CASE UNCHANGED vars
  BY <1>5, <1>0 DEF vars
<1> QED BY <1>1, <1>2, <1>3, <1>4, <1>5 DEF Next

-----------------------------------------------------------------------------
(* What the summarizer plans. *)

LEMMA IdleSummTyped == IdleSumm \in Task /\ IdleSumm \in SummState
  BY DEF Task, IdleSumm, SummState, IdsOrNone, NoMsg

(* The turns to fold are those from after start to keep from the end. *)
LEMMA FoldIs ==
  ASSUME NEW S, NEW path \in Seq(S), NEW start \in 0 .. Len(path), NEW keep \in Nat,
         Fold(path, start, keep) # {}
  PROVE  LET end == Max(Fold(path, start, keep))
         IN  /\ end \in start + 1 .. Len(path)
             /\ Fold(path, start, keep) = start + 1 .. end
<1> DEFINE F == Fold(path, start, keep)
           end == Max(F)
<1>1. DOMAIN path = 1 .. Len(path) /\ Len(path) \in Nat
  OBVIOUS
<1>2. F \in SUBSET (0 .. Len(path))
  BY <1>1 DEF Fold
<1>3. end \in F /\ \A y \in F : y <= end
  BY <1>1, <1>2, Greatest
<1> HIDE DEF end
<1>4. end \in 1 .. Len(path) /\ end > start /\ end + keep <= Len(path)
  BY <1>1, <1>3 DEF Fold
<1>5. \A i \in F : i \in start + 1 .. end
  BY <1>1, <1>3, <1>4 DEF Fold
<1>6. \A i \in start + 1 .. end : i \in F
  BY <1>1, <1>4 DEF Fold
<1> HIDE DEF F
<1>7. F = start + 1 .. end
  BY <1>5, <1>6
<1> QED BY <1>1, <1>4, <1>7 DEF F, end

(* new is the task of r after it has planned to keep so many turns. *)
Planned(r, keep, listed, new) ==
  LET path == summ[r].path
      start == IF listed THEN AppliedAt(Cutoffs, path) ELSE 0
      prev == IF listed THEN Applicable(path) ELSE NoSummary
      fold == Fold(path, start, keep)
      folded == {path[i] : i \in fold}
  IN  /\ fold # {}
      /\ new = [IdleSumm EXCEPT !.pc = "provider",
           !.cutoff = path[Max(fold)], !.blind = start # AppliedAt(Cutoffs, path),
           !.covers = (folded \cap summ[r].shown) \cup prev.covers,
           !.skips = (folded \ summ[r].shown) \cup prev.skips]

(* A step of SummPlan goes to a planned task. *)
LEMMA SummPlanIs ==
  ASSUME NEW r \in Streams, SummPlan(r)
  PROVE  \E keep, listed, new : /\ keep \in KeepRecent /\ listed \in BOOLEAN
                                /\ Planned(r, keep, listed, new) /\ Summarize(r, new)
  BY DEF SummPlan, Planned

(* The plan folds the turns from after a stored summary on its branch, or   *)
(* from the beginning, to a later one, and adds what that summary stands    *)
(* for.  It ends where no summary does, unless it passed over the latest.   *)
LEMMA PlannedIs ==
  ASSUME Tables, NEW r \in Streams, NEW keep \in KeepRecent, NEW listed \in BOOLEAN,
         NEW new, Planned(r, keep, listed, new)
  PROVE  /\ new \in Task /\ new.pc = "provider"
         /\ new.blind \/ new.cutoff \notin Cutoffs
         /\ \E start \in 0 .. Len(summ[r].path), end \in 1 .. Len(summ[r].path) : \E prev :
              LET path == summ[r].path
              IN  /\ start < end
                  /\ StoredAt(path, start, prev)
                  /\ new.cutoff = path[end]
                  /\ new.covers \cup new.skips =
                       {path[i] : i \in start + 1 .. end} \cup (prev.covers \cup prev.skips)
<1> DEFINE path == summ[r].path
           latest == AppliedAt(Cutoffs, path)
           start == IF listed THEN latest ELSE 0
           prev == IF listed THEN Applicable(path) ELSE NoSummary
           fold == Fold(path, start, keep)
           end == Max(fold)
           folded == {path[i] : i \in fold}
           covers == (folded \cap summ[r].shown) \cup prev.covers
           skips == (folded \ summ[r].shown) \cup prev.skips
<1>1. summ[r] \in SummState
  BY DEF Tables, Task
<1>2. path \in Seq(Ids) /\ summ[r].shown \subseteq Ids /\ Len(path) \in Nat
  BY <1>1 DEF SummState
<1>3. keep \in Nat
  OBVIOUS
<1>4. /\ fold # {}
      /\ new = [IdleSumm EXCEPT !.pc = "provider", !.cutoff = path[end],
                   !.blind = start # latest, !.covers = covers, !.skips = skips]
  BY DEF Planned
<1> HIDE DEF path
<1>5. /\ latest \in 0 .. Len(path)
      /\ \A i \in latest + 1 .. Len(path) : path[i] \notin Cutoffs
      /\ StoredAt(path, latest, Applicable(path))
      /\ Applicable(path) \in SummaryRow \cup {NoSummary}
  BY <1>2, ApplicableIs
<1>6. /\ start \in 0 .. Len(path) /\ StoredAt(path, start, prev)
      /\ prev \in SummaryRow \cup {NoSummary}
  BY <1>2, <1>5 DEF StoredAt
<1> HIDE DEF start, latest, prev
<1>7. end \in start + 1 .. Len(path) /\ fold = start + 1 .. end
  BY <1>2, <1>3, <1>4, <1>6, FoldIs
<1> HIDE DEF fold, end
<1>8. end \in 1 .. Len(path) /\ start < end /\ start \in Nat /\ end \in Nat
  BY <1>2, <1>6, <1>7
<1>9. path[end] \in Ids /\ (start = latest => path[end] \notin Cutoffs)
  BY <1>2, <1>5, <1>7, <1>8
<1>10. folded \subseteq Ids
  <2>1. \A i \in fold : i \in 1 .. Len(path)
    BY <1>2, <1>7, <1>8
  <2> QED BY <2>1, <1>2
<1>11. covers \subseteq Ids /\ skips \subseteq Ids
  <2> HIDE DEF folded
  <2>1. prev.covers \subseteq Ids /\ prev.skips \subseteq Ids
    BY <1>6 DEF SummaryRow, NoSummary
  <2> QED BY <2>1, <1>10
<1>12. covers \cup skips = folded \cup (prev.covers \cup prev.skips)
  <2> HIDE DEF folded
  <2> QED OBVIOUS
<1> HIDE DEF covers, skips
<1> DEFINE blind == start # latest
<1>13. /\ new \in SummState /\ new.pc = "provider"
       /\ new.cutoff = path[end] /\ new.covers = covers /\ new.skips = skips
       /\ new.blind = blind
  <2>1. blind \in BOOLEAN
    OBVIOUS
  <2>2. new = [IdleSumm EXCEPT !.pc = "provider", !.cutoff = path[end],
                 !.blind = blind, !.covers = covers, !.skips = skips]
    BY <1>4
  <2> HIDE DEF blind
  <2> QED BY <1>9, <1>11, <2>1, <2>2, IdleSummTyped DEF SummState, IdsOrNone
<1>14. folded = {path[i] : i \in start + 1 .. end}
  BY <1>7
<1> HIDE DEF folded
<1> QED BY <1>6, <1>8, <1>9, <1>12, <1>13, <1>14 DEF path, Task

(* The summarizer tasks and the table of summaries. *)
LEMMA SummarizersStep ==
  TypeInv /\ [Next]_vars => /\ summ' \in [Streams -> Task]
                            /\ summaries' \in Seq(SummaryRow)
<1> SUFFICES ASSUME TypeInv, [Next]_vars
             PROVE  summ' \in [Streams -> Task] /\ summaries' \in Seq(SummaryRow)
  OBVIOUS
<1>0. /\ Stored /\ Pointers /\ Tables
      /\ summ \in [Streams -> Task] /\ summaries \in Seq(SummaryRow)
  BY DEF TypeInv, Tables
<1>1. ASSUME NEW r \in Streams, SummarizerStep(r)
      PROVE  summ' \in [Streams -> Task] /\ summaries' \in Seq(SummaryRow)
  <2>0. summ[r] \in Task /\ summ[r] \in SummState
    BY <1>0 DEF Task
  <2>1. ASSUME NEW new \in Task, Summarize(r, new)
        PROVE  summ' \in [Streams -> Task]
    BY <1>0, <2>1 DEF Summarize
  <2>2. Release(r) => summ' \in [Streams -> Task]
    BY <1>0, IdleSummTyped DEF Release
  <2>3. CASE SummReadSession(r)
    <3>1. [IdleSumm EXCEPT !.pc = "history", !.leaf = leaf] \in Task
      BY <1>0, IdleSummTyped DEF Task, SummState, Pointers
    <3> QED BY <2>1, <2>2, <2>3, <3>1, <1>0 DEF SummReadSession, db
  <2>4. CASE SummReadHistory(r)
    <3> DEFINE path == ActivePath(msg, summ[r].leaf)
               new == [IdleSumm EXCEPT !.pc = "summaries", !.path = path,
                                       !.shown = {m \in Range(path) : ~msg[m].hidden}]
    <3>1. path \in Seq(Ids) /\ Range(path) \subseteq Ids
      BY <1>0, BranchTyped
    <3>2. Summarize(r, new) \/ Release(r)
      BY <2>4 DEF SummReadHistory
    <3>3. new \in Task
      <4> HIDE DEF path
      <4> QED BY <3>1, IdleSummTyped DEF SummState, Task
    <3>4. summaries' = summaries
      BY <2>4 DEF SummReadHistory, db
    <3> QED BY <2>1, <2>2, <3>2, <3>3, <3>4, <1>0
  <2>5. CASE SummPlan(r)
    <3>1. PICK keep, listed, new : /\ keep \in KeepRecent /\ listed \in BOOLEAN
                                   /\ Planned(r, keep, listed, new) /\ Summarize(r, new)
      BY <2>5, SummPlanIs
    <3>2. new \in Task
      BY <1>0, <3>1, PlannedIs
    <3>3. summaries' = summaries
      BY <2>5 DEF SummPlan, db
    <3> QED BY <2>1, <3>1, <3>2, <3>3, <1>0
  <2>6. CASE SummGivesUp(r)
    BY <2>2, <2>6, <1>0 DEF SummGivesUp, db
  <2>7. CASE SummProviderAnswers(r)
    <3>1. [summ[r] EXCEPT !.pc = "store"] \in Task
      BY <2>0, <2>7 DEF SummProviderAnswers, Task, SummState
    <3> QED BY <2>1, <2>7, <3>1, <1>0 DEF SummProviderAnswers, db
  <2>8. CASE SummStore(r)
    <3> DEFINE row == [cutoff |-> summ[r].cutoff, covers |-> summ[r].covers,
                       skips |-> summ[r].skips, blind |-> summ[r].blind]
    <3>1. row \in SummaryRow
      BY <2>0, <2>8 DEF SummStore, Task, SummState, SummaryRow
    <3>2. summaries' = Append(summaries, row) /\ Release(r)
      BY <2>8 DEF SummStore
    <3> HIDE DEF row
    <3> QED BY <2>2, <3>1, <3>2, <1>0
  <2> QED BY <1>1, <2>3, <2>4, <2>5, <2>6, <2>7, <2>8 DEF SummarizerStep
<1>2. ASSUME NEW r \in Streams, StreamStep(r)
      PROVE  summ' \in [Streams -> Task] /\ summaries' = summaries
  <2>1. CASE Close(r)
    <3>1. [summ[r] EXCEPT !.pc = "session"] \in Task
      <4>1. summ[r] \in SummState
        BY <1>0 DEF Task
      <4> QED BY <4>1 DEF Task, SummState
    <3>2. \/ summ' = [summ EXCEPT ![r].pc = "session"]
          \/ summ' = summ
      BY <2>1 DEF Close, background
    <3> QED BY <2>1, <3>1, <3>2, <1>0 DEF Close, db
  <2>2. CASE Dropped(r)
    BY <2>2, <1>0 DEF Dropped, LastCall, db, background
  <2>3. CASE UNCHANGED <<summaries, summ>>
    BY <2>3, <1>0
  <2> QED
    BY <1>2, <2>1, <2>2, <2>3
    DEF StreamStep, StorageStep, ProviderStep, Start, ReadSession, ReadHistorySend,
        ReadHistoryRegen, CreateUser, ReadSummaries, HideTarget, CreateReply, AdvanceLeaf,
        CallFails, ProviderConnects, ProviderRefuses, Chunk, ProviderEnds, ProviderFails, HonourStop,
        Cut, Disconnect, db, background
<1>3. ASSUME NEW c \in Clients, ClientStep(c)
      PROVE  summ' = summ /\ (summaries' = summaries \/ summaries' = << >>)
  BY <1>3 DEF ClientStep, ReadForEdit, WriteEdit, ReadForDelete, ReadLeafForDelete,
     CommitDelete, ReadForSwitch, CommitSwitch, Unregister, DropSession, Untouched, db,
     background
<1>4. CASE Stop \/ UNCHANGED vars
  BY <1>4, <1>0 DEF Stop, vars, Untouched, db, background
<1>5. << >> \in Seq(SummaryRow)
  OBVIOUS
<1> QED BY <1>0, <1>1, <1>2, <1>3, <1>4, <1>5 DEF Next

-----------------------------------------------------------------------------
(* Together: the types hold. *)
LEMMA TypeInit == Init => TypeInv
<1> SUFFICES ASSUME Init PROVE TypeInv
  OBVIOUS
<1>1. ASSUME msg = EmptyTree /\ leaf = NoMsg /\ next = 1
      PROVE  Stored /\ leaf \in IdsOrNone
  <2>1. DOMAIN msg = {}
    BY <1>1 DEF EmptyTree
  <2>2. Stored
    BY <1>1, <2>1 DEF Init, Stored, ParentsExist
  <2> QED BY <1>1, <2>2 DEF IdsOrNone
<1>2. ASSUME msg = SeededTree /\ leaf = 2 /\ next = 3
      PROVE  Stored /\ leaf \in IdsOrNone
  <2>1. /\ DOMAIN msg = {1, 2}
        /\ msg[1] = Message(NoMsg, "user") /\ msg[2] = Message(1, "assistant")
    BY <1>2 DEF SeededTree
  <2>2. Message(NoMsg, "user") \in Row /\ Message(1, "assistant") \in Row
    BY DEF Message, Row, IdsOrNone, Ids, Roles, NoMsg
  <2>3. ParentsExist(msg)
    BY <2>1 DEF ParentsExist, Message, NoMsg
  <2>4. /\ next \in 1 .. MaxMsg + 1 /\ DOMAIN msg \subseteq 1 .. next - 1
        /\ 2 \in Ids /\ exists \in BOOLEAN
    BY <1>2, <2>1 DEF Ids, Init
  <2>5. \A m \in DOMAIN msg : msg[m] \in Row
    BY <2>1, <2>2
  <2> QED BY <1>2, <2>3, <2>4, <2>5 DEF Stored, IdsOrNone
<1>3. Stored /\ leaf \in IdsOrNone
  BY <1>1, <1>2 DEF Init
<1>4. Tables
  <2>1. st \in [Streams -> StreamState]
    BY IdleTyped DEF Init
  <2>2. summ \in [Streams -> Task]
    BY IdleSummTyped DEF Init
  <2>3. IdleJob \in JobState
    BY DEF IdleJob, JobState, IdsOrNone, NoMsg
  <2>4. job \in [Clients -> JobState] /\ summaries \in Seq(SummaryRow)
    BY <2>3 DEF Init
  <2> QED BY <2>1, <2>2, <2>4 DEF Tables
<1>5. Pointers
  BY <1>3 DEF Init, Pointers
<1> QED BY <1>3, <1>4, <1>5 DEF TypeInv

LEMMA TypeStep == TypeInv /\ [Next]_vars => TypeInv'
<1> SUFFICES ASSUME TypeInv, [Next]_vars PROVE TypeInv'
  OBVIOUS
<1>1. Stored' /\ Pointers'
  BY StoredStep, PointersStep
<1>2. Tables'
  BY StreamsStep, JobsStep, SummarizersStep DEF Tables
<1> QED BY <1>1, <1>2 DEF TypeInv

(* The types, the foreign key and the order of the ids hold in every state. *)
THEOREM TypesHold == Spec => []TypeInv
  BY TypeInit, TypeStep, PTL DEF Spec

-----------------------------------------------------------------------------
(* Nothing is stored once the session is gone. *)
LEMMA LastCallDrop ==
  ASSUME TypeInv, NothingAfterDrop, NEW r \in Streams, LastCall(r)
  PROVE  NothingAfterDrop'
<1>0. Stored /\ st[r] \in StreamState
  BY DEF TypeInv, Tables
<1>1. CASE UNCHANGED db
  BY <1>1 DEF db, NothingAfterDrop
<1>2. CASE exists /\ exists' = exists
  BY <1>2 DEF NothingAfterDrop
<1>3. CASE /\ Update(st[r].target, st[r].clone, TRUE)
           /\ UNCHANGED <<exists, leaf, next, summaries, edits>>
  <2>1. st[r].clone \in Nat
    BY <1>0 DEF StreamState
  <2> QED BY <1>0, <1>3, <2>1, UpdateStored DEF NothingAfterDrop
<1>4. CASE UNCHANGED <<exists, msg>>
  BY <1>4 DEF NothingAfterDrop
<1> QED BY <1>1, <1>2, <1>3, <1>4 DEF LastCall, MayInsert

LEMMA DropStep == TypeInv /\ NothingAfterDrop /\ [Next]_vars => NothingAfterDrop'
<1> SUFFICES ASSUME TypeInv, NothingAfterDrop, [Next]_vars PROVE NothingAfterDrop'
  OBVIOUS
<1>0. Stored /\ Tables
  BY DEF TypeInv
<1>1. ASSUME NEW r \in Streams, StreamStep(r) PROVE NothingAfterDrop'
  <2>0. st[r] \in StreamState
    BY <1>0 DEF Tables
  <2>1. CASE CreateUser(r) \/ CreateReply(r)
    BY <2>1 DEF CreateUser, CreateReply, MayInsert, NothingAfterDrop
  <2>2. CASE HideTarget(r)
    <3>1. st[r].clone \in Nat
      BY <2>0 DEF StreamState
    <3> QED BY <2>2, <3>1, <1>0, UpdateStored DEF HideTarget, NothingAfterDrop
  <2>3. CASE LastCall(r)
    BY <2>3, LastCallDrop
  <2>4. CASE UNCHANGED <<exists, msg>>
    BY <2>4 DEF NothingAfterDrop
  <2> QED
    BY <1>1, <2>1, <2>2, <2>3, <2>4
    DEF StreamStep, StorageStep, ProviderStep, Start, ReadSession, ReadHistorySend,
        ReadHistoryRegen, ReadSummaries, AdvanceLeaf, Close, ProviderConnects,
        ProviderRefuses, Chunk, ProviderEnds, ProviderFails, HonourStop, Cut, Disconnect,
        CallFails, Dropped, db
<1>2. ASSUME NEW r \in Streams, SummarizerStep(r) PROVE UNCHANGED <<exists, msg>>
  BY <1>2 DEF SummarizerStep, SummReadSession, SummReadHistory, SummPlan,
     SummGivesUp, SummProviderAnswers, SummStore, db
<1>3. ASSUME NEW c \in Clients, ClientStep(c) PROVE NothingAfterDrop'
  <2>0. job[c] \in JobState
    BY <1>0 DEF Tables
  <2>1. CASE WriteEdit(c)
    <3>1. job[c].text \in Nat /\ job[c].hidden \in BOOLEAN
      BY <2>0 DEF JobState
    <3> QED BY <2>1, <3>1, <1>0, UpdateStored DEF WriteEdit, NothingAfterDrop
  <2>2. CASE CommitDelete(c)
    BY <2>2, <1>0, DeleteStored DEF CommitDelete, NothingAfterDrop
  <2>3. CASE DropSession(c)
    BY <2>3 DEF DropSession, EmptyTree, NothingAfterDrop
  <2>4. CASE UNCHANGED <<exists, msg>>
    BY <2>4 DEF NothingAfterDrop
  <2> QED
    BY <1>3, <2>1, <2>2, <2>3, <2>4
    DEF ClientStep, ReadForEdit, ReadForDelete, ReadLeafForDelete, ReadForSwitch,
        CommitSwitch, Unregister, db
<1>4. CASE Stop \/ UNCHANGED vars
  BY <1>4 DEF Stop, vars, db, NothingAfterDrop
<1>5. UNCHANGED <<exists, msg>> => NothingAfterDrop'
  BY DEF NothingAfterDrop
<1> QED BY <1>1, <1>2, <1>3, <1>4, <1>5 DEF Next

(* A stream, an edit or a summarizer that outlives its session stores no   *)
(* message: each insert is refused by the missing session row, and the     *)
(* updates only touch rows that are there.                                 *)
THEOREM NothingAfterDropHolds == Spec => []NothingAfterDrop
<1>1. Init => NothingAfterDrop
  BY DEF Init, NothingAfterDrop
<1> QED BY <1>1, TypesHold, DropStep, PTL DEF Spec

-----------------------------------------------------------------------------
(* One summarizer task at a time, and the claim is held while it runs. *)
OneTask == /\ \A r \in Streams : summ[r].pc # "idle" => claimed
           /\ \A r, q \in Streams : summ[r].pc # "idle" /\ summ[q].pc # "idle" => r = q

(* The summary in the making ends where no stored one does, unless its task *)
(* passed that one over.                                                    *)
NewCutoff == \A r \in Streams :
  summ[r].pc \in {"provider", "store"} => summ[r].blind \/ summ[r].cutoff \notin Cutoffs

CutoffInv == OneTask /\ NewCutoff /\ OneSummaryPerCutoff

(* The claim and the cutoffs, where neither changes. *)
LEMMA CutoffUnchanged ==
  CutoffInv /\ UNCHANGED <<summaries, claimed, summ>> => CutoffInv'
  BY DEF CutoffInv, OneTask, NewCutoff, OneSummaryPerCutoff, Cutoffs

(* The task of r goes on, not yet or still with a cutoff of its own. *)
LEMMA CutoffGoesOn ==
  ASSUME Tables, CutoffInv, NEW r \in Streams, NEW new, summ' = [summ EXCEPT ![r] = new],
         UNCHANGED <<summaries, claimed>>, summ[r].pc # "idle",
         new.pc \in {"provider", "store"} => new.blind \/ new.cutoff \notin Cutoffs
  PROVE  CutoffInv'
<1>1. \A q \in Streams : summ'[q] = IF q = r THEN new ELSE summ[q]
  BY DEF Tables
<1>2. OneTask'
  BY <1>1 DEF CutoffInv, OneTask
<1>3. Cutoffs' = Cutoffs
  BY DEF Cutoffs
<1>4. NewCutoff'
  BY <1>1, <1>3 DEF CutoffInv, NewCutoff
<1>5. OneSummaryPerCutoff'
  BY DEF CutoffInv, OneSummaryPerCutoff
<1> QED BY <1>2, <1>4, <1>5 DEF CutoffInv

(* A task that returns was the only one. *)
LEMMA CutoffReleased ==
  ASSUME Tables, CutoffInv, NEW r \in Streams, Release(r), summ[r].pc # "idle"
  PROVE  OneTask' /\ \A q \in Streams : summ'[q].pc = "idle"
<1>1. \A q \in Streams : summ'[q] = IF q = r THEN IdleSumm ELSE summ[q]
  BY DEF Tables, Release
<1>2. \A q \in Streams : summ'[q].pc = "idle"
  BY <1>1 DEF CutoffInv, OneTask, IdleSumm
<1> QED BY <1>2 DEF OneTask

(* The claim keeps a second task from the same cutoff. *)
LEMMA CutoffStep == TypeInv /\ CutoffInv /\ [Next]_vars => CutoffInv'
<1> SUFFICES ASSUME TypeInv, CutoffInv, [Next]_vars PROVE CutoffInv'
  OBVIOUS
<1>0. Tables /\ summ \in [Streams -> Task] /\ summaries \in Seq(SummaryRow)
  BY DEF TypeInv, Tables
<1>1. ASSUME NEW r \in Streams, StreamStep(r) PROVE CutoffInv'
  <2>1. CASE Close(r)
    <3>1. CASE claimed' = TRUE /\ summ' = [summ EXCEPT ![r].pc = "session"] /\ MayClaim
      <4>1. \A q \in Streams : summ[q].pc = "idle"
        BY <3>1 DEF CutoffInv, OneTask, MayClaim
      <4>2. \A q \in Streams : summ'[q].pc = IF q = r THEN "session" ELSE "idle"
        <5>1. summ[r] \in SummState
          BY <1>0 DEF Task
        <5> QED BY <3>1, <4>1, <5>1, <1>0 DEF SummState
      <4>3. OneTask' /\ NewCutoff'
        BY <3>1, <4>2 DEF OneTask, NewCutoff
      <4>4. OneSummaryPerCutoff'
        BY <2>1 DEF Close, db, CutoffInv, OneSummaryPerCutoff
      <4> QED BY <4>3, <4>4 DEF CutoffInv
    <3>2. CASE UNCHANGED background
      BY <2>1, <3>2, CutoffUnchanged DEF Close, db, background
    <3> QED BY <2>1, <3>1, <3>2 DEF Close
  <2>2. CASE Dropped(r)
    BY <2>2, CutoffUnchanged DEF Dropped, LastCall, db, background
  <2>3. CASE UNCHANGED <<summaries, claimed, summ>>
    BY <2>3, CutoffUnchanged
  <2> QED
    BY <1>1, <2>1, <2>2, <2>3
    DEF StreamStep, StorageStep, ProviderStep, Start, ReadSession, ReadHistorySend,
        ReadHistoryRegen, CreateUser, ReadSummaries, HideTarget, CreateReply, AdvanceLeaf,
        CallFails, ProviderConnects, ProviderRefuses, Chunk, ProviderEnds, ProviderFails, HonourStop,
        Cut, Disconnect, db, background
<1>2. ASSUME NEW r \in Streams, SummarizerStep(r) PROVE CutoffInv'
  <2>0. summ[r] \in SummState
    BY <1>0 DEF Task
  <2>1. ASSUME Release(r), UNCHANGED db, summ[r].pc # "idle" PROVE CutoffInv'
    BY <1>0, <2>1, CutoffReleased
    DEF CutoffInv, NewCutoff, OneSummaryPerCutoff, db
  <2>2. CASE SummReadSession(r)
    <3> DEFINE new == [IdleSumm EXCEPT !.pc = "history", !.leaf = leaf]
    <3>1. new.pc = "history"
      BY DEF IdleSumm
    <3>2. CASE Summarize(r, new)
      <4> HIDE DEF new
      <4> QED BY <2>2, <3>1, <3>2, <1>0, CutoffGoesOn DEF SummReadSession, Summarize, db
    <3>3. CASE Release(r)
      BY <2>1, <2>2, <3>3 DEF SummReadSession
    <3> QED BY <2>2, <3>2, <3>3 DEF SummReadSession
  <2>3. CASE SummReadHistory(r)
    <3> DEFINE path == ActivePath(msg, summ[r].leaf)
               new == [IdleSumm EXCEPT !.pc = "summaries", !.path = path,
                                       !.shown = {m \in Range(path) : ~msg[m].hidden}]
    <3>1. new.pc = "summaries"
      <4> HIDE DEF path
      <4> QED BY DEF IdleSumm
    <3>2. CASE Summarize(r, new)
      <4> HIDE DEF new
      <4> QED BY <2>3, <3>1, <3>2, <1>0, CutoffGoesOn DEF SummReadHistory, Summarize, db
    <3>3. CASE Release(r)
      BY <2>1, <2>3, <3>3 DEF SummReadHistory
    <3>4. Summarize(r, new) \/ Release(r)
      BY <2>3 DEF SummReadHistory
    <3> QED BY <3>2, <3>3, <3>4
  <2>4. CASE SummPlan(r)
    <3>1. PICK keep, listed, new : /\ keep \in KeepRecent /\ listed \in BOOLEAN
                                   /\ Planned(r, keep, listed, new) /\ Summarize(r, new)
      BY <2>4, SummPlanIs
    <3>2. new.blind \/ new.cutoff \notin Cutoffs
      BY <1>0, <3>1, PlannedIs
    <3> QED BY <2>4, <3>1, <3>2, <1>0, CutoffGoesOn DEF SummPlan, Summarize, db
  <2>5. CASE SummGivesUp(r)
    BY <2>1, <2>5 DEF SummGivesUp
  <2>6. CASE SummProviderAnswers(r)
    <3> DEFINE new == [summ[r] EXCEPT !.pc = "store"]
    <3>1. new.cutoff = summ[r].cutoff /\ new.blind = summ[r].blind
      BY <2>0 DEF SummState
    <3>2. summ[r].pc = "provider" /\ (summ[r].blind \/ summ[r].cutoff \notin Cutoffs)
      BY <2>6 DEF SummProviderAnswers, CutoffInv, NewCutoff
    <3>3. Summarize(r, new)
      BY <2>6 DEF SummProviderAnswers
    <3> HIDE DEF new
    <3> QED BY <2>6, <3>1, <3>2, <3>3, <1>0, CutoffGoesOn DEF SummProviderAnswers, Summarize, db
  <2>7. CASE SummStore(r)
    <3> DEFINE row == [cutoff |-> summ[r].cutoff, covers |-> summ[r].covers,
                       skips |-> summ[r].skips, blind |-> summ[r].blind]
    <3>1. /\ summ[r].pc = "store" /\ Release(r)
          /\ summaries' = Append(summaries, row)
      BY <2>7 DEF SummStore
    <3>2. (row.blind \/ row.cutoff \notin Cutoffs) /\ row \in SummaryRow
      BY <2>0, <3>1, <1>0 DEF CutoffInv, NewCutoff, SummaryRow, SummState, Task
    <3> HIDE DEF row
    <3>3. OneTask' /\ NewCutoff'
      BY <1>0, <3>1, CutoffReleased DEF NewCutoff
    <3>4. OneSummaryPerCutoff'
      <4>1. /\ DOMAIN summaries = 1 .. Len(summaries) /\ Len(summaries) \in Nat
            /\ DOMAIN summaries' = 1 .. (Len(summaries) + 1)
            /\ summaries'[Len(summaries) + 1] = row
            /\ \A i \in 1 .. Len(summaries) : summaries'[i] = summaries[i]
        BY <1>0, <3>1, <3>2, AppendAt
      <4>2. \A i \in DOMAIN summaries : summaries[i].cutoff = row.cutoff => row.blind
        BY <3>2 DEF Cutoffs
      <4>3. \A i, j \in DOMAIN summaries :
              i < j /\ summaries[i].cutoff = summaries[j].cutoff => summaries[j].blind
        BY DEF CutoffInv, OneSummaryPerCutoff
      <4> QED BY <4>1, <4>2, <4>3 DEF OneSummaryPerCutoff
    <3> QED BY <3>3, <3>4 DEF CutoffInv
  <2> QED BY <1>2, <2>2, <2>3, <2>4, <2>5, <2>6, <2>7 DEF SummarizerStep
<1>3. ASSUME NEW c \in Clients, ClientStep(c) PROVE CutoffInv'
  <2>1. CASE DropSession(c)
    BY <2>1 DEF DropSession, Untouched, background, CutoffInv, OneTask, NewCutoff,
       OneSummaryPerCutoff, Cutoffs
  <2>2. CASE UNCHANGED <<summaries, claimed, summ>>
    BY <2>2, CutoffUnchanged
  <2> QED
    BY <1>3, <2>1, <2>2 DEF ClientStep, ReadForEdit, WriteEdit, ReadForDelete,
       ReadLeafForDelete, CommitDelete, ReadForSwitch, CommitSwitch, Unregister, Untouched,
       db, background
<1>4. CASE Stop \/ UNCHANGED vars
  BY <1>4, CutoffUnchanged DEF Stop, vars, Untouched, db, background
<1> QED BY <1>1, <1>2, <1>3, <1>4 DEF Next

(* A second summary that ends in the same message is only made by a task   *)
(* that passed over the first: any other plans a cutoff beyond those       *)
(* stored on its branch, and the claim of summarizing() lets no other task *)
(* store one in between.                                                   *)
THEOREM OneSummaryPerCutoffHolds == Spec => []OneSummaryPerCutoff
<1>1. Init => CutoffInv
  BY DEF Init, CutoffInv, OneTask, NewCutoff, OneSummaryPerCutoff, IdleSumm
<1>2. CutoffInv => OneSummaryPerCutoff
  BY DEF CutoffInv
<1> QED BY <1>1, <1>2, TypesHold, CutoffStep, PTL DEF Spec
-----------------------------------------------------------------------------
(* The history: all is the tree of all messages ever created, in which     *)
(* every reply answers a user's turn,                                      *)
Full(all) ==
  /\ DOMAIN all = 1 .. next - 1
  /\ \A k \in DOMAIN all :
       /\ all[k].parent \in Nat /\ all[k].parent < k
       /\ all[k].role = "assistant" =>
            all[k].parent \in DOMAIN all /\ all[all[k].parent].role = "user"

(* and the table is a part of it. *)
Keeps(all) == /\ Extends(all, msg)
              /\ \A k \in DOMAIN msg : msg[k].role = all[k].role

(* The branch that ends in what the stream answers. *)
Prompt(s) == IF s.kind = "send" THEN Append(s.path, s.parent) ELSE s.path

OnTree(all, path) == \E m \in DOMAIN all \cup {NoMsg} : path = PathTo(all, m)

Answering == {"summaries", "ask", "streaming", "hide", "reply", "leaf"}
Replied == {"leaf", "closing"} \cup Ended

(* The branch a stream read is a path; while it answers, and once it has    *)
(* replied, the message it answers ends the branch of its prompt.           *)
StreamOn(all, s) ==
  /\ OnTree(all, s.path)
  /\ s.pc = "user" => /\ s.kind = "send" /\ s.parent \in DOMAIN all \cup {NoMsg}
                      /\ s.path = PathTo(all, s.parent)
  /\ s.pc \in Answering => /\ s.parent \in DOMAIN all
                           /\ all[s.parent].role = "user"
                           /\ PathTo(all, s.parent) = Prompt(s)
  /\ s.reply # NoMsg => /\ s.pc \in Replied
                        /\ s.reply \in DOMAIN all /\ all[s.reply].parent = s.parent
                        /\ PathTo(all, s.parent) = Prompt(s)

(* A summary stands for the path of its cutoff. *)
StandsFor(all, x) == /\ x.cutoff \in DOMAIN all
                     /\ x.covers \cup x.skips = Range(PathTo(all, x.cutoff))

TaskOn(all, x) == /\ x.pc = "summaries" => OnTree(all, x.path)
                  /\ x.pc \in {"provider", "store"} => StandsFor(all, x)

StreamsOn(all) == \A r \in Streams : StreamOn(all, st[r])
TasksOn(all) == \A r \in Streams : TaskOn(all, summ[r])
SummariesOn(all) == \A i \in DOMAIN summaries : StandsFor(all, summaries[i])

Recorded(all) == /\ Full(all) /\ Keeps(all)
                 /\ StreamsOn(all) /\ TasksOn(all) /\ SummariesOn(all)
History == \E all : Recorded(all)

-----------------------------------------------------------------------------
(* The tree of all messages is a tree, and 0 is none of them. *)
LEMMA FullIsTree == ASSUME TypeInv, NEW all, Full(all)
                    PROVE  Tree(all) /\ DOMAIN all \subseteq Nat /\ NoMsg \notin DOMAIN all
<1>1. next \in Nat /\ next > 0
  BY DEF TypeInv, Stored
<1>2. DOMAIN all = 1 .. next - 1
  BY DEF Full
<1>3. ASSUME NEW k \in DOMAIN all
      PROVE  all[k].parent = 0 \/ (all[k].parent \in DOMAIN all /\ all[k].parent < k)
  <2>1. all[k].parent \in Nat /\ all[k].parent < k /\ k \in 1 .. next - 1
    BY <1>2 DEF Full
  <2> QED BY <1>1, <1>2, <2>1
<1> QED BY <1>1, <1>2, <1>3 DEF Tree, ParentsExist, NoMsg

(* What is stored is seen the same in the whole history. *)
LEMMA StoredPaths ==
  ASSUME TypeInv, NEW all, Full(all), Keeps(all)
  PROVE  \A m \in DOMAIN msg \cup {NoMsg} : PathTo(msg, m) = PathTo(all, m)
<1>1. Tree(msg) /\ Tree(all) /\ Extends(all, msg)
  BY FullIsTree, StoredTree DEF TypeInv, Keeps
<1> QED BY <1>1, SamePaths

(* The path of no message. *)
LEMMA NoPath == ASSUME TypeInv, NEW all, Full(all) PROVE PathTo(all, NoMsg) = << >>
<1>1. Tree(all) /\ NoMsg \notin DOMAIN all /\ NoMsg \in Nat
  BY FullIsTree DEF NoMsg
<1> QED BY <1>1, PathStep

Grows(u, t) == /\ Tree(t) /\ Tree(u) /\ Extends(u, t)
               /\ \A k \in DOMAIN t : u[k].role = t[k].role

(* A tree that keeps the old paths: what holds on the old tree              *)
(* holds on it too. *)
LEMMA GrowsSelf == ASSUME TypeInv, NEW all, Full(all) PROVE Grows(all, all)
  BY FullIsTree DEF Grows, Extends

LEMMA OnTreeGrows ==
  ASSUME NEW t, NEW u, Grows(u, t), NEW path, OnTree(t, path) PROVE OnTree(u, path)
<1>1. PICK m \in DOMAIN t \cup {NoMsg} : path = PathTo(t, m)
  BY DEF OnTree
<1>2. PathTo(u, m) = PathTo(t, m)
  BY SamePaths DEF Grows
<1> QED BY <1>1, <1>2 DEF OnTree, Grows, Extends

LEMMA StreamGrows ==
  ASSUME NEW t, NEW u, Grows(u, t), NEW s, StreamOn(t, s) PROVE StreamOn(u, s)
<1>1. \A m \in DOMAIN t \cup {NoMsg} : PathTo(u, m) = PathTo(t, m)
  BY SamePaths DEF Grows
<1>2. \A m \in DOMAIN t : m \in DOMAIN u /\ u[m].role = t[m].role /\ u[m].parent = t[m].parent
  BY DEF Grows, Extends
<1>3. OnTree(u, s.path)
  BY OnTreeGrows DEF StreamOn
<1>4. s.reply # NoMsg => PathTo(u, s.parent) = PathTo(t, s.parent)
  <2> SUFFICES ASSUME s.reply # NoMsg PROVE s.parent \in DOMAIN t \cup {NoMsg}
    BY <1>1
  <2>1. s.reply \in DOMAIN t /\ t[s.reply].parent = s.parent
    BY DEF StreamOn
  <2> QED BY <2>1, ParentOf DEF Grows, NoMsg
<1> QED BY <1>1, <1>2, <1>3, <1>4 DEF StreamOn

LEMMA StandsForGrows ==
  ASSUME NEW t, NEW u, Grows(u, t), NEW x, StandsFor(t, x) PROVE StandsFor(u, x)
<1>1. \A m \in DOMAIN t \cup {NoMsg} : PathTo(u, m) = PathTo(t, m)
  BY SamePaths DEF Grows
<1> QED BY <1>1 DEF StandsFor, Grows, Extends

LEMMA TaskGrows ==
  ASSUME NEW t, NEW u, Grows(u, t), NEW x, TaskOn(t, x) PROVE TaskOn(u, x)
  BY OnTreeGrows, StandsForGrows DEF TaskOn

(* The history after an insert. *)
Grown(all, parent, role) ==
  [k \in DOMAIN all \cup {next} |-> IF k = next THEN Message(parent, role) ELSE all[k]]

(* An insert: the tree grows by the new message, whose path is that of      *)
(* its parent and itself. *)
LEMMA GrownIs ==
  ASSUME TypeInv, NEW all, Full(all), Keeps(all), NEW parent, NEW role \in Roles,
         MayInsert(parent), Insert(parent, role), TypeInv',
         role = "assistant" => parent \in DOMAIN all /\ all[parent].role = "user"
  PROVE  \E u : /\ Full(u)' /\ Keeps(u)' /\ Grows(u, all)
                /\ parent \in DOMAIN all \cup {NoMsg}
                /\ next \in DOMAIN u /\ u[next].parent = parent /\ u[next].role = role
                /\ PathTo(u, next) = Append(PathTo(all, parent), next)
<1> PICK u : u = Grown(all, parent, role)
  OBVIOUS
<1>1. next \in Nat /\ next > 0 /\ next' = next + 1
  BY DEF Insert, TypeInv, Stored
<1>2. DOMAIN all = 1 .. next - 1
  BY DEF Full
<1>3. /\ DOMAIN u = DOMAIN all \cup {next}
      /\ \A k \in DOMAIN all : u[k] = all[k]
      /\ u[next] = Message(parent, role)
  BY <1>1, <1>2 DEF Grown
<1>4. parent \in DOMAIN all \cup {NoMsg} /\ parent \in Nat /\ parent < next
  BY <1>1, <1>2 DEF MayInsert, Keeps, Extends, NoMsg
<1>5. u[next].parent = parent /\ u[next].role = role
  BY <1>3 DEF Message
<1>6. DOMAIN u = 1 .. next' - 1
  BY <1>1, <1>2, <1>3
<1>7. ASSUME NEW k \in DOMAIN u
      PROVE  /\ u[k].parent \in Nat /\ u[k].parent < k
             /\ u[k].role = "assistant" =>
                  u[k].parent \in DOMAIN u /\ u[u[k].parent].role = "user"
  <2>1. CASE k = next
    BY <2>1, <1>3, <1>4, <1>5
  <2>2. CASE k \in DOMAIN all
    BY <2>2, <1>3 DEF Full
  <2> QED BY <2>1, <2>2, <1>3
<1>8. Full(u)'
  BY <1>6, <1>7 DEF Full
<1>9. /\ DOMAIN msg' = DOMAIN msg \cup {next}
      /\ \A k \in DOMAIN msg' : msg'[k] = IF k = next THEN Message(parent, role) ELSE msg[k]
  BY DEF Insert
<1>10. Keeps(u)'
  <2>1. DOMAIN msg \subseteq DOMAIN all
    BY DEF Keeps, Extends
  <2>2. ASSUME NEW k \in DOMAIN msg'
        PROVE  k \in DOMAIN u /\ u[k].parent = msg'[k].parent /\ msg'[k].role = u[k].role
    <3>1. CASE k = next
      BY <3>1, <1>3, <1>9
    <3>2. CASE k # next
      BY <3>2, <2>1, <1>3, <1>9 DEF Keeps, Extends
    <3> QED BY <3>1, <3>2
  <2> QED BY <2>2 DEF Keeps, Extends
<1>11. Tree(all) /\ Tree(u)
  <2>1. Tree(all)
    BY FullIsTree
  <2>2. Tree(u)
    <3>1. DOMAIN u \subseteq Nat \ {0}
      BY <1>1, <1>6
    <3>2. \A k \in DOMAIN u : u[k].parent = 0 \/ (u[k].parent \in DOMAIN u /\ u[k].parent < k)
      BY <1>1, <1>6, <1>7
    <3> QED BY <3>1, <3>2 DEF Tree, ParentsExist, NoMsg
  <2> QED BY <2>1, <2>2
<1>12. Grows(u, all)
  BY <1>3, <1>11 DEF Grows, Extends
<1>13. PathTo(u, next) = Append(PathTo(all, parent), next)
  <2>1. PathTo(u, next) = Append(PathTo(u, parent), next)
    BY <1>1, <1>3, <1>5, <1>11, PathStep
  <2>2. PathTo(u, parent) = PathTo(all, parent)
    BY <1>4, <1>12, SamePaths DEF Grows
  <2> QED BY <2>1, <2>2
<1> QED BY <1>3, <1>4, <1>5, <1>8, <1>10, <1>12, <1>13

(* A step that adds no row and keeps parents and roles keeps the tree. *)
LEMMA SameTree ==
  ASSUME NEW all, Full(all), Keeps(all), next' = next, DOMAIN msg' \subseteq DOMAIN msg,
         \A k \in DOMAIN msg' : msg'[k].parent = msg[k].parent /\ msg'[k].role = msg[k].role
  PROVE  Full(all)' /\ Keeps(all)'
<1>1. Full(all)'
  BY DEF Full
<1>2. Keeps(all)'
  BY DEF Keeps, Extends
<1> QED BY <1>1, <1>2

(* Stream r goes on from a history to one that holds it. *)
LEMMA StreamGoesOn ==
  ASSUME TypeInv, NEW all, Recorded(all), NEW u, Grows(u, all), Full(u)', Keeps(u)',
         NEW r \in Streams, NEW new, st' = [st EXCEPT ![r] = new], StreamOn(u, new),
         summaries' = summaries,
         \A q \in Streams : summ'[q] = summ[q] \/ summ'[q].pc = "session"
  PROVE  History'
<1>1. \A q \in Streams : st'[q] = IF q = r THEN new ELSE st[q]
  BY DEF TypeInv, Tables
<1>2. StreamsOn(u)'
  <2>1. \A q \in Streams : StreamOn(u, st'[q])
    BY <1>1, StreamGrows DEF Recorded, StreamsOn
  <2> QED BY <2>1 DEF StreamsOn
<1>3. TasksOn(u)'
  <2>1. \A q \in Streams : TaskOn(u, summ[q])
    BY TaskGrows DEF Recorded, TasksOn
  <2>2. \A q \in Streams : summ'[q].pc = "session" => TaskOn(u, summ'[q])
    BY DEF TaskOn
  <2>3. \A q \in Streams : TaskOn(u, summ'[q])
    BY <2>1, <2>2
  <2> QED BY <2>3 DEF TasksOn
<1>4. SummariesOn(u)'
  <2>1. \A i \in DOMAIN summaries : StandsFor(u, summaries[i])
    BY StandsForGrows DEF Recorded, SummariesOn
  <2> QED BY <2>1 DEF SummariesOn
<1> QED BY <1>2, <1>3, <1>4 DEF History, Recorded

(* A step of the stream that leaves the branch and what hangs from it alone. *)
LEMMA StreamCarries ==
  ASSUME NEW all, NEW s, StreamOn(all, s), NEW new,
         new.path = s.path, new.kind = s.kind, new.parent = s.parent, new.reply = s.reply,
         new.pc # "user", new.pc \in Answering => s.pc \in Answering,
         s.pc \in Replied => new.pc \in Replied
  PROVE  StreamOn(all, new)
  BY DEF StreamOn, Prompt

(* A branch just read is a path of the tree. *)
LEMMA BranchOnTree ==
  ASSUME TypeInv, NEW all, Full(all), Keeps(all), NEW l
  PROVE  LET path == ActivePath(msg, l)
         IN  /\ OnTree(all, path)
             /\ Last0(path) \in DOMAIN all \cup {NoMsg}
             /\ path = PathTo(all, Last0(path))
             /\ l \in DOMAIN msg => path = PathTo(all, l)
<1> DEFINE path == ActivePath(msg, l)
<1>1. Stored /\ Tree(msg) /\ DOMAIN msg \subseteq 1 .. MaxMsg /\ MaxMsg \in Nat
  BY StoredTree DEF TypeInv
<1>2. PICK m \in DOMAIN msg \cup {NoMsg} : path = PathTo(msg, m) /\ Last0(path) = m
  BY <1>1, ActivePathIs
<1>3. l \in DOMAIN msg => path = PathTo(msg, l)
  BY <1>1, ActivePathIs
<1> HIDE DEF path
<1>4. \A k \in DOMAIN msg \cup {NoMsg} : PathTo(msg, k) = PathTo(all, k)
  BY StoredPaths
<1>5. DOMAIN msg \subseteq DOMAIN all
  BY DEF Keeps, Extends
<1> QED BY <1>2, <1>3, <1>4, <1>5 DEF OnTree, path

(* What is left of a stream still lies on the tree. *)
LEMMA RemainsOn ==
  ASSUME TypeInv, NEW all, Full(all), NEW r \in Streams, StreamOn(all, st[r]),
         NEW pc \in Ended \cup {"closing"}
  PROVE  /\ StreamOn(all, Remains(r, pc))
         /\ \A via : StreamOn(all, [Remains(r, pc) EXCEPT !.via = via])
<1>1. st[r] \in StreamState
  BY DEF TypeInv, Tables
<1>2. pc # "user" /\ pc \notin Answering /\ pc \in Replied
  BY DEF Answering, Replied, Ended
<1>3. ASSUME NEW new, new = Remains(r, pc) \/ \E via : new = [Remains(r, pc) EXCEPT !.via = via]
      PROVE  StreamOn(all, new)
  <2>1. CASE st[r].reply = NoMsg
    <3>1. new.pc = pc /\ new.path = << >> /\ new.reply = NoMsg
      BY <2>1, <1>3 DEF Remains, IdleStream
    <3>2. OnTree(all, << >>)
      BY NoPath DEF OnTree
    <3> QED BY <3>1, <3>2, <1>2 DEF StreamOn
  <2>2. CASE st[r].reply # NoMsg
    <3> DEFINE rest == [IdleStream EXCEPT !.pc = pc, !.kind = st[r].kind,
                          !.path = st[r].path, !.parent = st[r].parent, !.reply = st[r].reply]
    <3>1. Remains(r, pc) = rest
      BY <2>2 DEF Remains
    <3>2. \A via : LET x == [rest EXCEPT !.via = via]
                   IN  /\ x.pc = rest.pc /\ x.kind = rest.kind /\ x.path = rest.path
                       /\ x.parent = rest.parent /\ x.reply = rest.reply
      BY DEF IdleStream
    <3>3. /\ rest.pc = pc /\ rest.kind = st[r].kind /\ rest.path = st[r].path
          /\ rest.parent = st[r].parent /\ rest.reply = st[r].reply
      BY DEF IdleStream
    <3> HIDE DEF rest
    <3>4. /\ new.pc = pc /\ new.kind = st[r].kind /\ new.path = st[r].path
          /\ new.parent = st[r].parent /\ new.reply = st[r].reply
      <4>1. CASE new = Remains(r, pc)
        BY <4>1, <3>1, <3>3
      <4>2. CASE \E via : new = [Remains(r, pc) EXCEPT !.via = via]
        <5>1. PICK via : new = [rest EXCEPT !.via = via]
          BY <4>2, <3>1
        <5> QED BY <5>1, <3>2, <3>3
      <4> QED BY <4>1, <4>2, <1>3
    <3> QED BY <3>4, <1>2, StreamCarries
  <2> QED BY <2>1, <2>2
<1> QED BY <1>3

(* A stream is dropped: its last call may insert a row. *)
LEMMA DroppedOn ==
  ASSUME TypeInv, TypeInv', NEW all, Recorded(all), NEW r \in Streams, Dropped(r)
  PROVE  History'
<1>1. StreamOn(all, st[r]) /\ Full(all) /\ Keeps(all)
  BY DEF Recorded, StreamsOn
<1>2. st' = [st EXCEPT ![r] = Remains(r, "cut")] /\ summ' = summ /\ LastCall(r)
  BY DEF Dropped, Proceed, background
<1>3. "cut" \in Ended
  BY DEF Ended
<1>4. StreamOn(all, Remains(r, "cut"))
  BY <1>1, <1>3, RemainsOn
<1> PICK new : new = Remains(r, "cut")
  OBVIOUS
<1>5. ASSUME next' = next, DOMAIN msg' \subseteq DOMAIN msg, summaries' = summaries,
             \A k \in DOMAIN msg' : /\ msg'[k].parent = msg[k].parent
                                    /\ msg'[k].role = msg[k].role
      PROVE  History'
  <2>1. Full(all)' /\ Keeps(all)' /\ Grows(all, all)
    BY <1>1, <1>5, SameTree, GrowsSelf
  <2> QED BY <2>1, <1>2, <1>4, <1>5, StreamGoesOn
<1>6. ASSUME NEW parent, NEW role \in Roles, MayInsert(parent), Insert(parent, role),
             summaries' = summaries,
             role = "assistant" => parent \in DOMAIN all /\ all[parent].role = "user"
      PROVE  History'
  <2>1. PICK u : Full(u)' /\ Keeps(u)' /\ Grows(u, all)
    BY <1>1, <1>6, GrownIs
  <2>2. StreamOn(u, Remains(r, "cut"))
    BY <2>1, <1>4, StreamGrows
  <2> QED BY <2>1, <2>2, <1>2, <1>6, StreamGoesOn
<1>7. CASE UNCHANGED <<msg, next, summaries>>
  BY <1>5, <1>7
<1>8. CASE /\ st[r].pc = "user" /\ MayInsert(st[r].parent)
           /\ Insert(st[r].parent, "user")
           /\ summaries' = summaries
  BY <1>6, <1>8 DEF Roles
<1>9. CASE /\ st[r].pc = "reply" /\ MayInsert(ReplyParent(r))
           /\ Insert(ReplyParent(r), "assistant")
           /\ summaries' = summaries
  BY <1>1, <1>6, <1>9 DEF Roles, ReplyParent, StreamOn, Answering
<1>10. CASE /\ Update(st[r].target, st[r].clone, TRUE)
            /\ UNCHANGED <<exists, leaf, next, summaries, edits>>
  <2>1. st[r].clone \in Nat
    BY DEF TypeInv, Tables, StreamState
  <2> QED BY <1>5, <1>10, <2>1, UpdateStored DEF TypeInv
<1> QED BY <1>2, <1>7, <1>8, <1>9, <1>10 DEF LastCall, db

(* Every step of a stream. *)
LEMMA HistoryStream ==
  ASSUME TypeInv, TypeInv', NEW all, Recorded(all), NEW r \in Streams, StreamStep(r)
  PROVE  History'
<1> DEFINE s == st[r]
<1>0. StreamOn(all, s) /\ Full(all) /\ Keeps(all) /\ s \in StreamState
  BY DEF Recorded, StreamsOn, TypeInv, Tables
<1> HIDE DEF s
(* A step that writes nothing of the tree. *)
<1>1. ASSUME NEW new, Proceed(r, new), StreamOn(all, new), UNCHANGED <<msg, next, summaries>>,
             \A q \in Streams : summ'[q] = summ[q] \/ summ'[q].pc = "session"
      PROVE  History'
  <2>1. Full(all)' /\ Keeps(all)' /\ Grows(all, all)
    BY <1>0, <1>1, SameTree, GrowsSelf
  <2> QED BY <2>1, <1>1, StreamGoesOn DEF Proceed
<1>2. ASSUME NEW new, Proceed(r, new), UNCHANGED <<msg, next, summaries, summ>>,
             new.path = s.path, new.kind = s.kind, new.parent = s.parent,
             new.reply = s.reply, new.pc # "user", new.pc \in Answering => s.pc \in Answering,
             s.pc \in Replied => new.pc \in Replied
      PROVE  History'
  <2>1. StreamOn(all, new)
    BY <1>0, <1>2, StreamCarries
  <2> QED BY <2>1, <1>1, <1>2
<1>3. ASSUME Fail(r), UNCHANGED <<msg, next, summaries, summ>> PROVE History'
  <2> DEFINE new == [Remains(r, "closing") EXCEPT !.via = "error"]
  <2>1. StreamOn(all, new)
    BY <1>0, RemainsOn DEF s
  <2>2. Proceed(r, new)
    BY <1>3 DEF Fail
  <2> HIDE DEF new
  <2> QED BY <2>1, <2>2, <1>1, <1>3
<1>4. CASE Start(r)
  <2>1. PICK kind \in Kinds, target \in Ids :
          Proceed(r, [IdleStream EXCEPT !.pc = "session", !.kind = kind,
                        !.target = IF kind = "send" THEN NoMsg ELSE target])
    BY <1>4 DEF Start
  <2> DEFINE new == [IdleStream EXCEPT !.pc = "session", !.kind = kind,
                       !.target = IF kind = "send" THEN NoMsg ELSE target]
  <2>2. new.pc = "session" /\ new.path = << >> /\ new.reply = NoMsg
    BY DEF IdleStream
  <2>3. PathTo(all, NoMsg) = << >>
    BY <1>0, NoPath
  <2> HIDE DEF new
  <2>4. OnTree(all, new.path)
    BY <2>2, <2>3 DEF OnTree
  <2>5. StreamOn(all, new)
    BY <2>2, <2>4 DEF StreamOn, Answering
  <2> QED BY <2>1, <2>5, <1>1, <1>4 DEF Start, db, background, new
<1>5. CASE ReadSession(r)
  <2> DEFINE new == [s EXCEPT !.pc = "history", !.leaf = leaf]
  <2>1. /\ new.pc = "history" /\ new.path = s.path /\ new.kind = s.kind
        /\ new.parent = s.parent /\ new.reply = s.reply
    BY <1>0 DEF StreamState
  <2>2. s.pc = "session" /\ (Proceed(r, new) \/ Fail(r))
    BY <1>5 DEF ReadSession, s
  <2> HIDE DEF new
  <2> QED BY <2>1, <2>2, <1>2, <1>3, <1>5 DEF ReadSession, db, background, Answering, Replied, Ended
<1>6. CASE ReadHistorySend(r)
  <2> DEFINE path == ActivePath(msg, st[r].leaf)
             new == [st[r] EXCEPT !.pc = "user", !.leaf = NoMsg, !.path = path,
                                  !.parent = Last0(path)]
  <2>1. Proceed(r, new) /\ s.pc = "history" /\ s.kind = "send"
    BY <1>6 DEF ReadHistorySend, s
  <2>2. /\ OnTree(all, path) /\ Last0(path) \in DOMAIN all \cup {NoMsg}
        /\ path = PathTo(all, Last0(path))
    BY <1>0, BranchOnTree
  <2> HIDE DEF path
  <2>3. /\ new.pc = "user" /\ new.kind = s.kind /\ new.path = path
        /\ new.parent = Last0(path) /\ new.reply = s.reply
    BY <1>0 DEF StreamState, s
  <2> HIDE DEF new
  <2>4. s.reply = NoMsg
    BY <1>0, <2>1 DEF StreamOn, Replied, Ended
  <2>5. StreamOn(all, new)
    BY <2>1, <2>2, <2>3, <2>4 DEF StreamOn, Answering
  <2> QED BY <2>1, <2>5, <1>1, <1>6 DEF ReadHistorySend, db, background
<1>7. CASE ReadHistoryRegen(r)
  <2> DEFINE target == st[r].target
             parent == msg[target].parent
             path == ActivePath(msg, parent)
             new == [st[r] EXCEPT !.pc = "summaries", !.clone = msg[target].text,
                       !.leaf = NoMsg, !.path = path, !.parent = parent]
  <2>1. s.pc = "history" /\ s.kind = "regen"
    BY <1>7 DEF ReadHistoryRegen, s
  <2>2. CASE IsReply(target) /\ Proceed(r, new)
    <3>1. target \in DOMAIN msg /\ msg[target].role = "assistant"
      BY <2>2 DEF IsReply
    <3>2. target \in DOMAIN all /\ all[target].role = "assistant" /\ all[target].parent = parent
      BY <3>1, <1>0 DEF Keeps, Extends
    <3>3. parent \in DOMAIN all /\ all[parent].role = "user"
      BY <3>2, <1>0 DEF Full
    <3>4. parent \in DOMAIN msg
      <4>1. ParentsExist(msg)
        BY DEF TypeInv, Stored
      <4>2. parent # NoMsg
        BY <3>3, <1>0, FullIsTree
      <4> QED BY <4>1, <4>2, <3>1 DEF ParentsExist
    <3>5. OnTree(all, path) /\ path = PathTo(all, parent)
      BY <3>4, <1>0, BranchOnTree
    <3> HIDE DEF path, parent
    <3>6. /\ new.pc = "summaries" /\ new.kind = s.kind /\ new.path = path
          /\ new.parent = parent /\ new.reply = s.reply
      BY <1>0 DEF StreamState, s
    <3> HIDE DEF new
    <3>7. s.reply = NoMsg
      BY <1>0, <2>1 DEF StreamOn, Replied, Ended
    <3>8. StreamOn(all, new)
      BY <2>1, <3>3, <3>5, <3>6, <3>7 DEF StreamOn, Answering, Prompt
    <3> QED BY <2>2, <3>8, <1>1, <1>7 DEF ReadHistoryRegen, db, background
  <2>3. CASE Fail(r)
    BY <2>3, <1>3, <1>7 DEF ReadHistoryRegen, db, background
  <2> QED BY <2>2, <2>3, <1>7 DEF ReadHistoryRegen
<1>8. CASE CreateUser(r)
  <2>1. s.pc = "user"
    BY <1>8 DEF CreateUser, s
  <2> DEFINE new == [s EXCEPT !.pc = "summaries", !.parent = next]
  <2>2. CASE MayInsert(s.parent) /\ Insert(s.parent, "user") /\ Proceed(r, new)
    <3>1. PICK u : /\ Full(u)' /\ Keeps(u)' /\ Grows(u, all)
                   /\ next \in DOMAIN u /\ u[next].role = "user"
                   /\ PathTo(u, next) = Append(PathTo(all, s.parent), next)
      BY <2>2, <1>0, GrownIs DEF Roles
    <3>2. /\ new.pc = "summaries" /\ new.path = s.path /\ new.kind = s.kind
          /\ new.parent = next /\ new.reply = s.reply
      BY <1>0 DEF StreamState
    <3> HIDE DEF new
    <3>3. s.reply = NoMsg /\ s.kind = "send" /\ s.path = PathTo(all, s.parent)
      BY <1>0, <2>1 DEF StreamOn, Replied, Ended
    <3>4. OnTree(u, s.path)
      BY <1>0, <3>1, OnTreeGrows DEF StreamOn
    <3>5. StreamOn(u, new)
      BY <3>1, <3>2, <3>3, <3>4 DEF StreamOn, Prompt
    <3> QED BY <2>2, <3>1, <3>5, <1>8, StreamGoesOn DEF CreateUser, Proceed, background
  <2>3. CASE Fail(r) /\ UNCHANGED <<msg, next>>
    BY <2>3, <1>3, <1>8 DEF CreateUser, background
  <2> QED BY <2>2, <2>3, <1>8 DEF CreateUser, s
<1>9. CASE CreateReply(r)
  <2>1. s.pc = "reply"
    BY <1>9 DEF CreateReply, s
  <2>2. /\ s.parent \in DOMAIN all /\ all[s.parent].role = "user"
        /\ PathTo(all, s.parent) = Prompt(s)
    BY <1>0, <2>1 DEF StreamOn, Answering
  <2> DEFINE new == [s EXCEPT !.pc = "leaf", !.reply = next]
  <2>3. CASE MayInsert(s.parent) /\ Insert(s.parent, "assistant") /\ Proceed(r, new)
    <3>1. PICK u : /\ Full(u)' /\ Keeps(u)' /\ Grows(u, all)
                   /\ next \in DOMAIN u /\ u[next].parent = s.parent
      BY <2>2, <2>3, <1>0, GrownIs DEF Roles
    <3>2. /\ new.pc = "leaf" /\ new.path = s.path /\ new.kind = s.kind
          /\ new.parent = s.parent /\ new.reply = next
      BY <1>0 DEF StreamState
    <3> HIDE DEF new
    <3>3. s.parent \in DOMAIN u /\ u[s.parent].role = "user"
      BY <2>2, <3>1 DEF Grows, Extends
    <3>4. PathTo(u, s.parent) = Prompt(new)
      BY <2>2, <3>1, <3>2, SamePaths DEF Grows, Prompt
    <3>5. OnTree(u, s.path)
      BY <1>0, <3>1, OnTreeGrows DEF StreamOn
    <3>6. StreamOn(u, new)
      BY <3>1, <3>2, <3>3, <3>4, <3>5 DEF StreamOn, Replied
    <3> QED BY <2>3, <3>1, <3>6, <1>9, StreamGoesOn DEF CreateReply, Proceed, background
  <2>4. CASE Fail(r) /\ UNCHANGED <<msg, next>>
    BY <2>4, <1>3, <1>9 DEF CreateReply, background
  <2> QED BY <2>3, <2>4, <1>9 DEF CreateReply, ReplyParent, s
<1>10. CASE HideTarget(r)
  <2> DEFINE new == [s EXCEPT !.pc = "reply"]
  <2>1. /\ new.pc = "reply" /\ new.path = s.path /\ new.kind = s.kind
        /\ new.parent = s.parent /\ new.reply = s.reply
    BY <1>0 DEF StreamState
  <2>2. s.pc = "hide" /\ Proceed(r, new) /\ UNCHANGED <<summaries, summ>>
    BY <1>10 DEF HideTarget, background, s
  <2> HIDE DEF new
  <2>3. StreamOn(all, new)
    BY <1>0, <2>1, <2>2, StreamCarries DEF Answering, Replied, Ended
  <2>4. Full(all)' /\ Keeps(all)' /\ Grows(all, all)
    <3>1. s.clone \in Nat
      BY <1>0 DEF StreamState
    <3> QED BY <3>1, <1>0, <1>10, UpdateStored, SameTree, GrowsSelf DEF HideTarget, TypeInv, s
  <2> QED BY <2>2, <2>3, <2>4, StreamGoesOn DEF Proceed
<1>11. CASE Close(r)
  <2>1. StreamOn(all, Remains(r, "over"))
    BY <1>0, RemainsOn DEF s, Ended
  <2>2. \A q \in Streams : summ'[q] = summ[q] \/ summ'[q].pc = "session"
    <3>1. summ' = [summ EXCEPT ![r].pc = "session"] \/ summ' = summ
      BY <1>11 DEF Close, background
    <3>2. summ \in [Streams -> Task] /\ summ[r] \in SummState
      BY DEF TypeInv, Tables, Task
    <3> QED BY <3>1, <3>2 DEF SummState
  <2> QED BY <2>1, <2>2, <1>1, <1>11 DEF Close, db
<1>12. CASE Dropped(r)
  BY <1>12, DroppedOn
<1>13. CASE \/ ReadSummaries(r) \/ ProviderConnects(r) \/ Chunk(r) \/ ProviderEnds(r)
            \/ (HonourStop(r) /\ s.mode = "plain") \/ AdvanceLeaf(r)
  <2>1. PICK new : /\ Proceed(r, new) /\ new.path = s.path /\ new.kind = s.kind
                   /\ new.parent = s.parent /\ new.reply = s.reply
                   /\ new.pc # "user"
                   /\ new.pc \in Answering => s.pc \in Answering
                   /\ s.pc \in Replied => new.pc \in Replied
    <3> USE DEF StreamState, Answering, Replied, Ended, Persisting
    <3>1. CASE ReadSummaries(r)
      <4>1. PICK cut, sent : Proceed(r, [s EXCEPT !.pc = "ask", !.cut = cut, !.sent = sent])
        BY <3>1 DEF ReadSummaries, s
      <4>2. s.pc = "summaries"
        BY <3>1 DEF ReadSummaries, s
      <4> QED BY <4>1, <4>2, <1>0
    <3>2. CASE ProviderConnects(r)
      <4>1. PICK mode \in Modes : Proceed(r, [s EXCEPT !.pc = "streaming", !.mode = mode])
        BY <3>2 DEF ProviderConnects, s
      <4>2. s.pc = "ask"
        BY <3>2 DEF ProviderConnects, s
      <4> QED BY <4>1, <4>2, <1>0
    <3>3. CASE Chunk(r)
      <4>1. Proceed(r, [s EXCEPT !.got = TRUE]) /\ s.pc = "streaming"
        BY <3>3 DEF Chunk, Receiving, s
      <4> QED BY <4>1, <1>0
    <3>4. CASE ProviderEnds(r)
      <4>1. Proceed(r, Persisting(r, "done")) /\ s.pc = "streaming"
        BY <3>4 DEF ProviderEnds, Receiving, s
      <4> QED BY <4>1, <1>0 DEF s
    <3>5. CASE HonourStop(r) /\ s.mode = "plain"
      <4>1. Proceed(r, Persisting(r, "stopped")) /\ s.pc = "streaming"
        BY <3>5 DEF HonourStop, s
      <4> QED BY <4>1, <1>0 DEF s
    <3>6. CASE AdvanceLeaf(r)
      <4>1. Proceed(r, [s EXCEPT !.pc = "closing"]) /\ s.pc = "leaf"
        BY <3>6 DEF AdvanceLeaf, s
      <4> QED BY <4>1, <1>0
    <3> QED BY <1>13, <3>1, <3>2, <3>3, <3>4, <3>5, <3>6
  <2>2. UNCHANGED <<msg, next, summaries, summ>>
    BY <1>13 DEF ReadSummaries, ProviderConnects, Chunk, ProviderEnds, HonourStop,
       AdvanceLeaf, db, background
  <2> QED BY <2>1, <2>2, <1>2
<1>14. CASE ProviderRefuses(r) \/ ProviderFails(r)
  BY <1>14, <1>3 DEF ProviderRefuses, ProviderFails, db, background
<1>15. CASE HonourStop(r) /\ s.mode # "plain"
  <2> DEFINE new == [Remains(r, "closing") EXCEPT !.via = "stopped"]
  <2>1. StreamOn(all, new)
    BY <1>0, RemainsOn DEF s
  <2>2. Proceed(r, new)
    BY <1>15 DEF HonourStop, s
  <2> HIDE DEF new
  <2> QED BY <2>1, <2>2, <1>1, <1>15 DEF HonourStop, db, background
<1>16. CASE CallFails(r)
  <2>1. UNCHANGED <<msg, next, summaries, summ>>
    BY <1>16 DEF CallFails, db, background
  <2>2. CASE s.pc = "leaf" /\ Proceed(r, [s EXCEPT !.pc = "closing"])
    BY <2>1, <2>2, <1>0, <1>2 DEF StreamState, Answering, Replied, Ended
  <2>3. CASE s.pc = "hide" /\ Proceed(r, [s EXCEPT !.pc = "reply"])
    BY <2>1, <2>3, <1>0, <1>2 DEF StreamState, Answering, Replied, Ended
  <2> QED BY <1>16, <2>1, <2>2, <2>3, <1>3 DEF CallFails, s
<1> QED BY <1>4, <1>5, <1>6, <1>7, <1>8, <1>9, <1>10, <1>11, <1>12, <1>13, <1>14, <1>15, <1>16
  DEF StreamStep, StorageStep, ProviderStep, Cut, Disconnect

(* The beginnings of a path are the paths of its messages. *)
LEMMA BeginningIs ==
  ASSUME TypeInv, NEW all, Full(all), NEW p, OnTree(all, p), NEW i \in 1 .. Len(p)
  PROVE  /\ p[i] \in DOMAIN all
         /\ PathTo(all, p[i]) = SubSeq(p, 1, i)
         /\ Range(PathTo(all, p[i])) = {p[j] : j \in 1 .. i}
<1>1. Tree(all) /\ DOMAIN all \subseteq Nat /\ NoMsg \in Nat
  BY FullIsTree DEF NoMsg
<1>2. PICK m \in Nat : p = PathTo(all, m)
  BY <1>1 DEF OnTree
<1>3. Shaped(all, m, p)
  BY <1>1, <1>2, PathShaped
<1>4. p \in Seq(DOMAIN all) /\ PathTo(all, p[i]) = SubSeq(p, 1, i)
  BY <1>3 DEF Shaped
<1>5. /\ SubSeq(p, 1, i) \in Seq(DOMAIN all) /\ Len(SubSeq(p, 1, i)) = i
      /\ \A j \in 1 .. i : SubSeq(p, 1, i)[j] = p[j]
  BY <1>4, SubSeqAt
<1>6. DOMAIN SubSeq(p, 1, i) = 1 .. i
  BY <1>5
<1>7. Range(SubSeq(p, 1, i)) = {p[j] : j \in 1 .. i}
  BY <1>5, <1>6 DEF Range
<1>8. p[i] \in DOMAIN all
  BY <1>4
<1> QED BY <1>4, <1>7, <1>8

(* What a summary stored on a branch stands for is the branch up to there. *)
LEMMA StoredStandsFor ==
  ASSUME TypeInv, NEW all, Recorded(all), NEW path \in Seq(Ids), OnTree(all, path),
         NEW start, NEW s, StoredAt(path, start, s)
  PROVE  /\ s.covers \cup s.skips = {path[j] : j \in 1 .. start}
         /\ s.covers \cup s.skips = Range(SubSeq(path, 1, start))
<1>1. CASE start = 0 /\ s = NoSummary
  <2>1. s.covers \cup s.skips = {}
    BY <1>1 DEF NoSummary
  <2>2. {path[j] : j \in 1 .. start} = {}
    BY <1>1
  <2>3. SubSeq(path, 1, 0) = << >>
    OBVIOUS
  <2>4. Range(<< >>) = {}
    BY DEF Range
  <2> QED BY <1>1, <2>1, <2>2, <2>3, <2>4
<1>2. CASE start \in 1 .. Len(path) /\ \E i \in DOMAIN summaries : /\ s = summaries[i]
                                                                 /\ s.cutoff = path[start]
  <2>1. StandsFor(all, s) /\ s.cutoff = path[start]
    BY <1>2 DEF Recorded, SummariesOn
  <2>2. /\ PathTo(all, path[start]) = SubSeq(path, 1, start)
        /\ Range(PathTo(all, path[start])) = {path[j] : j \in 1 .. start}
    BY <1>2, BeginningIs DEF Recorded
  <2> QED BY <2>1, <2>2 DEF StandsFor
<1> QED BY <1>1, <1>2 DEF StoredAt

(* A plan stands for the path of its cutoff: the turns it folds and what    *)
(* the summary at the previous cutoff stands for are all of that path. *)
LEMMA PlannedStandsFor ==
  ASSUME TypeInv, NEW all, Recorded(all), NEW r \in Streams, summ[r].pc = "summaries",
         NEW keep \in KeepRecent, NEW listed \in BOOLEAN, NEW new,
         Planned(r, keep, listed, new)
  PROVE  TaskOn(all, new)
<1> DEFINE path == summ[r].path
<1>1. PICK start \in 0 .. Len(path), end \in 1 .. Len(path) : \E prev :
        /\ start < end
        /\ StoredAt(path, start, prev)
        /\ new.cutoff = path[end]
        /\ new.covers \cup new.skips =
             {path[i] : i \in start + 1 .. end} \cup (prev.covers \cup prev.skips)
  BY PlannedIs DEF TypeInv
<1> PICK prev :
        /\ start < end
        /\ StoredAt(path, start, prev)
        /\ new.cutoff = path[end]
        /\ new.covers \cup new.skips =
             {path[i] : i \in start + 1 .. end} \cup (prev.covers \cup prev.skips)
  BY <1>1
<1>2. new.pc = "provider"
  BY PlannedIs DEF TypeInv
<1>3. OnTree(all, path) /\ Full(all)
  BY DEF Recorded, TasksOn, TaskOn
<1>4. path \in Seq(Ids)
  BY DEF TypeInv, Tables, Task, SummState
<1> HIDE DEF path
<1>5. Len(path) \in Nat /\ start \in Nat /\ end \in Nat
  BY <1>4
<1>6. prev.covers \cup prev.skips = {path[j] : j \in 1 .. start}
  BY <1>1, <1>3, <1>4, StoredStandsFor
<1>7. {path[i] : i \in start + 1 .. end} \cup {path[j] : j \in 1 .. start}
        = {path[i] : i \in 1 .. end}
  <2>1. \A i : i \in 1 .. end <=> i \in start + 1 .. end \/ i \in 1 .. start
    BY <1>1, <1>5
  <2> QED BY <2>1
<1>8. /\ path[end] \in DOMAIN all
      /\ Range(PathTo(all, path[end])) = {path[i] : i \in 1 .. end}
  <2>1. end \in 1 .. Len(path)
    BY <1>1
  <2>2. TypeInv /\ Full(all) /\ OnTree(all, path)
    BY <1>3
  <2>3. /\ path[end] \in DOMAIN all
        /\ PathTo(all, path[end]) = SubSeq(path, 1, end)
        /\ Range(PathTo(all, path[end])) = {path[j] : j \in 1 .. end}
    BY <2>1, <2>2, BeginningIs
  <2> QED BY <2>3
<1>9. StandsFor(all, new)
  BY <1>1, <1>6, <1>7, <1>8 DEF StandsFor
<1> QED BY <1>2, <1>9 DEF TaskOn

(* Every step of the summarizer. *)
LEMMA HistorySummarizer ==
  ASSUME TypeInv, NEW all, Recorded(all), NEW r \in Streams, SummarizerStep(r)
  PROVE  History'
<1>0. /\ Full(all) /\ Keeps(all) /\ TaskOn(all, summ[r]) /\ summ[r] \in SummState
      /\ summ \in [Streams -> Task] /\ summaries \in Seq(SummaryRow)
  BY DEF Recorded, TasksOn, TypeInv, Tables, Task
<1>1. /\ UNCHANGED <<st, msg, next>>
      /\ SummStore(r) \/ summaries' = summaries
  BY DEF SummarizerStep, SummReadSession, SummReadHistory, SummPlan, SummGivesUp,
     SummProviderAnswers, SummStore, Summarize, Release, db
<1>2. Full(all)' /\ Keeps(all)' /\ StreamsOn(all)'
  BY <1>0, <1>1 DEF Recorded, StreamsOn, Full, Keeps, Extends
<1>3. PICK new : summ' = [summ EXCEPT ![r] = new] /\ TaskOn(all, new)
  <2>1. CASE Release(r)
    <3>1. TaskOn(all, IdleSumm)
      BY DEF IdleSumm, TaskOn
    <3> QED BY <2>1, <3>1 DEF Release
  <2>2. CASE SummReadSession(r)
    <3> DEFINE new == [IdleSumm EXCEPT !.pc = "history", !.leaf = leaf]
    <3>1. new.pc = "history"
      BY DEF IdleSumm
    <3>2. Release(r) \/ summ' = [summ EXCEPT ![r] = new]
      BY <2>2 DEF SummReadSession, Summarize
    <3> HIDE DEF new
    <3> QED BY <2>1, <3>1, <3>2 DEF TaskOn
  <2>3. CASE SummReadHistory(r)
    <3> DEFINE path == ActivePath(msg, summ[r].leaf)
               new == [IdleSumm EXCEPT !.pc = "summaries", !.path = path,
                                       !.shown = {m \in Range(path) : ~msg[m].hidden}]
    <3>1. OnTree(all, path)
      BY <1>0, BranchOnTree
    <3>2. Release(r) \/ summ' = [summ EXCEPT ![r] = new]
      BY <2>3 DEF SummReadHistory, Summarize
    <3>3. new.pc = "summaries" /\ new.path = path
      <4> HIDE DEF path
      <4> QED BY DEF IdleSumm
    <3> HIDE DEF new, path
    <3> QED BY <2>1, <3>1, <3>2, <3>3 DEF TaskOn
  <2>4. CASE SummPlan(r)
    <3>1. PICK keep, listed, new : /\ keep \in KeepRecent /\ listed \in BOOLEAN
                                   /\ Planned(r, keep, listed, new) /\ Summarize(r, new)
      BY <2>4, SummPlanIs
    <3>2. summ[r].pc = "summaries"
      BY <2>4 DEF SummPlan
    <3> QED BY <3>1, <3>2, PlannedStandsFor DEF Summarize
  <2>5. CASE SummProviderAnswers(r)
    <3> DEFINE new == [summ[r] EXCEPT !.pc = "store"]
    <3>1. /\ new.pc = "store" /\ new.cutoff = summ[r].cutoff
          /\ new.covers = summ[r].covers /\ new.skips = summ[r].skips
      BY <1>0 DEF SummState
    <3>2. summ[r].pc = "provider" /\ summ' = [summ EXCEPT ![r] = new]
      BY <2>5 DEF SummProviderAnswers, Summarize
    <3> HIDE DEF new
    <3> QED BY <1>0, <3>1, <3>2, ZenonT(60) DEF TaskOn, StandsFor
  <2> QED BY <2>1, <2>2, <2>3, <2>4, <2>5 DEF SummarizerStep, SummGivesUp, SummStore
<1>4. TasksOn(all)'
  <2>1. \A q \in Streams : summ'[q] = IF q = r THEN new ELSE summ[q]
    BY <1>0, <1>3
  <2>2. \A q \in Streams : TaskOn(all, summ'[q])
    BY <1>3, <2>1 DEF Recorded, TasksOn
  <2> QED BY <2>2 DEF TasksOn
<1>5. SummariesOn(all)'
  <2>0. \A i \in DOMAIN summaries : StandsFor(all, summaries[i])
    BY DEF Recorded, SummariesOn
  <2>1. CASE summaries' = summaries
    BY <2>0, <2>1 DEF SummariesOn
  <2>2. CASE SummStore(r)
    <3> DEFINE row == [cutoff |-> summ[r].cutoff, covers |-> summ[r].covers,
                       skips |-> summ[r].skips, blind |-> summ[r].blind]
    <3>1. summaries' = Append(summaries, row) /\ summ[r].pc = "store"
      BY <2>2 DEF SummStore
    <3>2. StandsFor(all, row)
      BY <1>0, <3>1 DEF TaskOn, StandsFor
    <3>3. row \in SummaryRow
      <4>1. summ[r].cutoff \in Ids
        BY <1>0, <3>1 DEF Task
      <4> QED BY <1>0, <4>1 DEF SummState, SummaryRow
    <3> HIDE DEF row
    <3>4. /\ DOMAIN summaries = 1 .. Len(summaries) /\ Len(summaries) \in Nat
          /\ DOMAIN summaries' = 1 .. (Len(summaries) + 1)
          /\ summaries'[Len(summaries) + 1] = row
          /\ \A i \in 1 .. Len(summaries) : summaries'[i] = summaries[i]
      BY <1>0, <3>1, <3>3, AppendAt
    <3>5. \A i \in DOMAIN summaries' : StandsFor(all, summaries'[i])
      BY <2>0, <3>2, <3>4
    <3> QED BY <3>5 DEF SummariesOn
  <2> QED BY <1>1, <2>1, <2>2
<1> QED BY <1>2, <1>4, <1>5 DEF Recorded, History

(* Every step of a client: messages only go, and keep their parents. *)
LEMMA HistoryClient ==
  ASSUME TypeInv, NEW all, Recorded(all), NEW c \in Clients, ClientStep(c)
  PROVE  History'
<1>0. Full(all) /\ Keeps(all) /\ Stored /\ job[c] \in JobState
  BY DEF Recorded, TypeInv, Tables
<1>1. /\ UNCHANGED <<st, summ, next>>
      /\ summaries' = summaries \/ summaries' = << >>
  BY DEF ClientStep, ReadForEdit, WriteEdit, ReadForDelete, ReadLeafForDelete,
     CommitDelete, ReadForSwitch, CommitSwitch, Unregister, DropSession, Untouched, db,
     background
<1>2. StreamsOn(all)' /\ TasksOn(all)' /\ SummariesOn(all)'
  BY <1>1 DEF Recorded, StreamsOn, TasksOn, SummariesOn
<1>3. Full(all)' /\ Keeps(all)'
  <2>1. CASE WriteEdit(c)
    <3>1. job[c].text \in Nat /\ job[c].hidden \in BOOLEAN
      BY <1>0 DEF JobState
    <3>2. /\ DOMAIN msg' = DOMAIN msg
          /\ \A k \in DOMAIN msg : /\ msg'[k].parent = msg[k].parent
                                   /\ msg'[k].role = msg[k].role
      BY <1>0, <2>1, <3>1, UpdateStored DEF WriteEdit
    <3> QED BY <3>2, <1>0, <1>1, SameTree
  <2>2. CASE CommitDelete(c)
    <3>1. /\ DOMAIN msg' \subseteq DOMAIN msg
          /\ \A k \in DOMAIN msg' : msg'[k] = msg[k]
      BY <1>0, <2>2, DeleteStored DEF CommitDelete
    <3> QED BY <3>1, <1>0, <1>1, SameTree
  <2>3. CASE DropSession(c)
    <3>1. DOMAIN msg' = {}
      BY <2>3 DEF DropSession, EmptyTree
    <3> QED BY <3>1, <1>0, <1>1, SameTree
  <2>4. CASE msg' = msg
    BY <2>4, <1>0, <1>1, SameTree
  <2> QED
    BY <2>1, <2>2, <2>3, <2>4 DEF ClientStep, ReadForEdit, ReadForDelete,
       ReadLeafForDelete, ReadForSwitch, CommitSwitch, Unregister, db
<1> QED BY <1>2, <1>3 DEF Recorded, History

(* A new session is its own history. *)
LEMMA HistoryInit == Init => History
<1> SUFFICES ASSUME Init PROVE History
  OBVIOUS
<1>0. TypeInv
  BY TypeInit
<1> DEFINE all == msg
<1>1. Full(all) /\ Keeps(all)
  <2>1. CASE msg = EmptyTree /\ next = 1
    <3>1. DOMAIN msg = {}
      BY <2>1 DEF EmptyTree
    <3> QED BY <2>1, <3>1 DEF Full, Keeps, Extends
  <2>2. CASE msg = SeededTree /\ next = 3
    <3>1. /\ DOMAIN msg = {1, 2}
          /\ msg[1] = Message(NoMsg, "user") /\ msg[2] = Message(1, "assistant")
      BY <2>2 DEF SeededTree
    <3>2. DOMAIN msg = 1 .. next - 1
      BY <2>2, <3>1
    <3> QED BY <3>1, <3>2 DEF Full, Keeps, Extends, Message, NoMsg
  <2> QED BY <2>1, <2>2 DEF Init
<1>2. PathTo(all, NoMsg) = << >>
  BY <1>0, <1>1, NoPath
<1> HIDE DEF all
<1>3. OnTree(all, << >>)
  BY <1>2 DEF OnTree
<1>4. StreamOn(all, IdleStream) /\ TaskOn(all, IdleSumm)
  BY <1>3 DEF StreamOn, TaskOn, IdleStream, IdleSumm, Answering
<1>5. StreamsOn(all) /\ TasksOn(all) /\ SummariesOn(all)
  BY <1>4 DEF Init, StreamsOn, TasksOn, SummariesOn
<1> QED BY <1>1, <1>5 DEF Recorded, History

(* Every step of the system. *)
LEMMA HistoryStep == TypeInv /\ TypeInv' /\ History /\ [Next]_vars => History'
<1> SUFFICES ASSUME TypeInv, TypeInv', History, [Next]_vars PROVE History'
  OBVIOUS
<1>1. PICK all : Recorded(all)
  BY DEF History
<1>2. CASE Next
  <2>1. CASE Stop
    <3>1. Recorded(all)'
      BY <1>1, <2>1 DEF Stop, Untouched, db, background, Recorded, Full, Keeps, Extends,
         StreamsOn, TasksOn, SummariesOn
    <3> QED BY <3>1 DEF History
  <2> QED BY <1>1, <1>2, <2>1, HistoryStream, HistorySummarizer, HistoryClient DEF Next
<1>3. CASE UNCHANGED vars
  <2>1. Recorded(all)'
    BY <1>1, <1>3 DEF vars, db, background, Recorded, Full, Keeps, Extends,
       StreamsOn, TasksOn, SummariesOn
  <2> QED BY <2>1 DEF History
<1> QED BY <1>2, <1>3

LEMMA HistoryHolds == Spec => []History
  BY HistoryInit, HistoryStep, TypesHold, PTL DEF Spec

-----------------------------------------------------------------------------
(* What the request of a stream leaves out is what its summary stands for. *)
Filled(s) == s.pc \in {"ask", "streaming"} =>
  s.sent.covers \cup s.sent.skips = Range(SubSeq(s.path, 1, s.cut))

LEMMA FilledStep ==
  TypeInv /\ History /\ SummaryFillsTheCut /\ [Next]_vars => SummaryFillsTheCut'
<1> SUFFICES ASSUME TypeInv, History, SummaryFillsTheCut, [Next]_vars
             PROVE  SummaryFillsTheCut'
  OBVIOUS
<1>0. st \in [Streams -> StreamState] /\ \A r \in Streams : Filled(st[r])
  BY DEF TypeInv, Tables, SummaryFillsTheCut, Filled
<1>1. ASSUME st' = st PROVE SummaryFillsTheCut'
  BY <1>1 DEF SummaryFillsTheCut
<1>2. ASSUME NEW r \in Streams, StreamStep(r) PROVE SummaryFillsTheCut'
  <2>0. st[r] \in StreamState
    BY <1>0
  <2>1. ASSUME NEW new, Proceed(r, new), Filled(new) PROVE SummaryFillsTheCut'
    <3>1. \A q \in Streams : st'[q] = IF q = r THEN new ELSE st[q]
      BY <1>0, <2>1 DEF Proceed
    <3>2. \A q \in Streams : Filled(st'[q])
      BY <1>0, <2>1, <3>1
    <3> QED BY <3>2 DEF SummaryFillsTheCut, Filled
  <2>2. CASE ReadSummaries(r)
    <3> DEFINE path == st[r].path
               Read(cut, sent) == [st[r] EXCEPT !.pc = "ask", !.cut = cut, !.sent = sent]
    <3>1. path \in Seq(Ids)
      BY <2>0 DEF StreamState
    <3>2. PICK all : Recorded(all) /\ OnTree(all, path)
      BY DEF History, Recorded, StreamsOn, StreamOn
    <3>3. PICK cut, sent : Proceed(r, Read(cut, sent)) /\ StoredAt(path, cut, sent)
      <4>1. Proceed(r, Read(VisibleFrom(path), Applicable(path))) \/ Proceed(r, Read(0, NoSummary))
        BY <2>2 DEF ReadSummaries
      <4> HIDE DEF Read, path
      <4>2. StoredAt(path, VisibleFrom(path), Applicable(path))
        BY <3>1, ApplicableIs DEF TypeInv, VisibleFrom
      <4>3. StoredAt(path, 0, NoSummary)
        BY DEF StoredAt
      <4> QED BY <4>1, <4>2, <4>3
    <3>4. /\ Read(cut, sent).path = path /\ Read(cut, sent).cut = cut
          /\ Read(cut, sent).sent = sent
      BY <2>0 DEF StreamState
    <3> HIDE DEF Read, path
    <3>5. sent.covers \cup sent.skips = Range(SubSeq(path, 1, cut))
      BY <3>1, <3>2, <3>3, StoredStandsFor
    <3>6. Filled(Read(cut, sent))
      BY <3>4, <3>5 DEF Filled
    <3> QED BY <2>1, <3>3, <3>6
  <2>3. CASE ProviderConnects(r)
    <3>1. PICK mode \in Modes :
            Proceed(r, [st[r] EXCEPT !.pc = "streaming", !.mode = mode])
      BY <2>3 DEF ProviderConnects
    <3> DEFINE new == [st[r] EXCEPT !.pc = "streaming", !.mode = mode]
    <3>2. /\ new.cut = st[r].cut /\ new.path = st[r].path /\ new.sent = st[r].sent
          /\ st[r].pc = "ask"
      BY <2>0, <2>3 DEF StreamState, ProviderConnects
    <3>3. Proceed(r, new)
      BY <3>1
    <3> HIDE DEF new
    <3>4. Filled(new)
      BY <1>0, <3>2 DEF Filled
    <3> QED BY <2>1, <3>3, <3>4
  <2>4. CASE Chunk(r)
    <3> DEFINE new == [st[r] EXCEPT !.got = TRUE]
    <3>1. /\ new.cut = st[r].cut /\ new.path = st[r].path /\ new.sent = st[r].sent
          /\ new.pc = st[r].pc
      BY <2>0 DEF StreamState
    <3>2. Proceed(r, new)
      BY <2>4 DEF Chunk
    <3> HIDE DEF new
    <3>3. Filled(new)
      BY <1>0, <3>1 DEF Filled
    <3> QED BY <2>1, <3>2, <3>3
  <2>5. CASE ~ReadSummaries(r) /\ ~ProviderConnects(r) /\ ~Chunk(r)
    <3>1. \E new : Proceed(r, new) /\ new.pc \notin {"ask", "streaming"}
      <4> USE DEF StreamState
      <4>0. \A pc : Remains(r, pc).pc = pc /\ \A via : [Remains(r, pc) EXCEPT !.via = via].pc = pc
        BY DEF Remains, IdleStream
      <4>1. CASE Start(r)
        <5>1. \A kind, target : [IdleStream EXCEPT !.pc = "session", !.kind = kind,
                                   !.target = target].pc = "session"
          BY DEF IdleStream
        <5> QED BY <4>1, <5>1 DEF Start
      <4>2. CASE Close(r) \/ Dropped(r) \/ Fail(r)
        <5>1. /\ Remains(r, "over").pc = "over" /\ Remains(r, "cut").pc = "cut"
              /\ [Remains(r, "closing") EXCEPT !.via = "error"].pc = "closing"
          BY <4>0
        <5> HIDE DEF Remains
        <5> QED BY <4>2, <5>1 DEF Close, Dropped, Fail
      <4>3. CASE \/ ReadSession(r) \/ CreateUser(r) \/ CreateReply(r) \/ ProviderRefuses(r)
                 \/ ProviderFails(r) \/ HideTarget(r) \/ AdvanceLeaf(r) \/ CallFails(r)
        <5>1. /\ [st[r] EXCEPT !.pc = "history", !.leaf = leaf].pc = "history"
              /\ [st[r] EXCEPT !.pc = "summaries", !.parent = next].pc = "summaries"
              /\ [st[r] EXCEPT !.pc = "leaf", !.reply = next].pc = "leaf"
              /\ [st[r] EXCEPT !.pc = "reply"].pc = "reply"
              /\ [st[r] EXCEPT !.pc = "closing"].pc = "closing"
          BY <2>0
        <5> QED BY <4>2, <4>3, <5>1 DEF ReadSession, CreateUser, CreateReply,
              ProviderRefuses, ProviderFails, HideTarget, AdvanceLeaf, CallFails
      <4>4. CASE ReadHistorySend(r)
        <5> DEFINE path == ActivePath(msg, st[r].leaf)
                   new == [st[r] EXCEPT !.pc = "user", !.leaf = NoMsg, !.path = path,
                                        !.parent = Last0(path)]
        <5>1. Proceed(r, new)
          BY <4>4 DEF ReadHistorySend
        <5> HIDE DEF path
        <5>2. new.pc = "user"
          BY <2>0
        <5> QED BY <5>1, <5>2
      <4>5. CASE ReadHistoryRegen(r)
        <5> DEFINE target == st[r].target
                   path == ActivePath(msg, msg[target].parent)
                   new == [st[r] EXCEPT !.pc = "summaries", !.clone = msg[target].text,
                             !.leaf = NoMsg, !.path = path, !.parent = msg[target].parent]
        <5>1. Proceed(r, new) \/ Fail(r)
          BY <4>5 DEF ReadHistoryRegen
        <5> HIDE DEF path, target
        <5>2. new.pc = "summaries"
          BY <2>0
        <5> QED BY <4>2, <5>1, <5>2
      <4>6. CASE ProviderEnds(r) \/ HonourStop(r)
        <5>1. \A via : Persisting(r, via).pc \in {"hide", "reply"}
          BY <2>0 DEF Persisting
        <5>2. \/ Proceed(r, Persisting(r, "done")) \/ Proceed(r, Persisting(r, "stopped"))
              \/ Proceed(r, [Remains(r, "closing") EXCEPT !.via = "stopped"])
          BY <4>6 DEF ProviderEnds, HonourStop
        <5>3. [Remains(r, "closing") EXCEPT !.via = "stopped"].pc = "closing"
          BY <4>0
        <5> HIDE DEF Persisting, Remains
        <5> QED BY <5>1, <5>2, <5>3
      <4> QED BY <1>2, <2>5, <4>1, <4>2, <4>3, <4>4, <4>5, <4>6
        DEF StreamStep, StorageStep, ProviderStep, Cut, Disconnect
    <3> QED BY <2>1, <3>1 DEF Filled
  <2> QED BY <2>2, <2>3, <2>4, <2>5
<1>3. ASSUME NEW r \in Streams, SummarizerStep(r) PROVE st' = st
  BY <1>3 DEF SummarizerStep, SummReadSession, SummReadHistory, SummPlan, SummGivesUp,
     SummProviderAnswers, SummStore, Summarize, Release
<1>4. ASSUME NEW c \in Clients, ClientStep(c) PROVE st' = st
  BY <1>4 DEF ClientStep, ReadForEdit, WriteEdit, ReadForDelete, ReadLeafForDelete,
     CommitDelete, ReadForSwitch, CommitSwitch, Unregister, DropSession, Untouched
<1>5. CASE Stop \/ UNCHANGED vars
  BY <1>1, <1>5 DEF Stop, vars, Untouched
<1> QED BY <1>1, <1>2, <1>3, <1>4, <1>5 DEF Next

-----------------------------------------------------------------------------
(* The stored tree is sound: typed, closed under parents, and every reply  *)
(* hangs from a user's turn.                                               *)
THEOREM TreeSoundHolds == Spec => []TreeSound
<1>1. TypeInv /\ History => TreeSound
  <2> SUFFICES ASSUME TypeInv, History PROVE TreeSound
    OBVIOUS
  <2>1. PICK all : Full(all) /\ Keeps(all)
    BY DEF History, Recorded
  <2>2. TypeOK /\ ParentsExist(msg)
    BY TypeInvImpliesTypeOK
  <2>3. NoMsg \notin DOMAIN all
    BY <2>1, FullIsTree
  <2>4. RepliesAnswerUsers
    BY <2>1, <2>2, <2>3 DEF RepliesAnswerUsers, Full, Keeps, Extends, ParentsExist
  <2> QED BY <2>2, <2>4 DEF TreeSound
<1> QED BY <1>1, TypesHold, HistoryHolds, PTL

(* A stored reply sits at the end of the branch its prompt was made from,  *)
(* whatever was edited, deleted or switched while the provider answered.   *)
THEOREM ReplySitsOnItsPromptHolds == Spec => []ReplySitsOnItsPrompt
<1>1. TypeInv /\ History => ReplySitsOnItsPrompt
  <2> SUFFICES ASSUME TypeInv, History, NEW r \in Streams, st[r].reply \in DOMAIN msg
               PROVE  PathTo(msg, msg[st[r].reply].parent) = Prompt(st[r])
    BY DEF ReplySitsOnItsPrompt, Prompt
  <2> DEFINE reply == st[r].reply
  <2>1. PICK all : Full(all) /\ Keeps(all) /\ StreamOn(all, st[r])
    BY DEF History, Recorded, StreamsOn
  <2>2. reply # NoMsg /\ Tree(msg)
    BY StoredTree DEF TypeInv, Tree, NoMsg
  <2>3. all[reply].parent = st[r].parent /\ PathTo(all, st[r].parent) = Prompt(st[r])
    BY <2>1, <2>2 DEF StreamOn
  <2>4. msg[reply].parent = st[r].parent
    BY <2>1, <2>3 DEF Keeps, Extends
  <2>5. msg[reply].parent \in DOMAIN msg \cup {NoMsg}
    BY <2>2, ParentOf DEF NoMsg
  <2>6. PathTo(msg, msg[reply].parent) = PathTo(all, msg[reply].parent)
    BY <2>1, <2>5, StoredPaths
  <2> QED BY <2>3, <2>4, <2>6
<1> QED BY <1>1, TypesHold, HistoryHolds, PTL

(* A stored summary stands for the conversation up to its cutoff, no turn  *)
(* left out and none beyond.                                               *)
THEOREM SummaryIsPrefixHolds == Spec => []SummaryIsPrefix
<1>1. TypeInv /\ History => SummaryIsPrefix
  <2> SUFFICES ASSUME TypeInv, History, NEW i \in DOMAIN summaries,
                      summaries[i].cutoff \in DOMAIN msg
               PROVE  summaries[i].covers \cup summaries[i].skips
                        = Range(PathTo(msg, summaries[i].cutoff))
    BY DEF SummaryIsPrefix, Range
  <2>1. PICK all : Full(all) /\ Keeps(all) /\ StandsFor(all, summaries[i])
    BY DEF History, Recorded, SummariesOn
  <2>2. PathTo(msg, summaries[i].cutoff) = PathTo(all, summaries[i].cutoff)
    BY <2>1, StoredPaths
  <2> QED BY <2>1, <2>2 DEF StandsFor
<1> QED BY <1>1, TypesHold, HistoryHolds, PTL

(* The turns that a prompt leaves out of the beginning of its branch are   *)
(* those that the summary sent with it stands for.                         *)
THEOREM SummaryFillsTheCutHolds == Spec => []SummaryFillsTheCut
<1>1. Init => SummaryFillsTheCut
  BY DEF Init, SummaryFillsTheCut, IdleStream
<1> QED BY <1>1, TypesHold, HistoryHolds, FilledStep, PTL DEF Spec
=============================================================================
