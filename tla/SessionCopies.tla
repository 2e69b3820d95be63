---------------------------- MODULE SessionCopies ---------------------------
(***************************************************************************)
(* Sessions that are made from sessions: fork_session (shirita-web/src/    *)
(* routes/messages.rs), duplicate_session, and import_session of what      *)
(* export_session wrote (routes/sessions.rs).  Each is a row of storage    *)
(* calls with nothing around them: clients go on working in the source,    *)
(* and in the copy as soon as its row is there; a call may fail; the       *)
(* request may be dropped between two calls.                               *)
(*                                                                         *)
(* Session 0 is there from the start, request j makes session j.  A        *)
(* message's id says its session and its created_at: clones have a fresh   *)
(* id and keep created_at.  Texts, names and the session's other columns   *)
(* are left out; a session's prompt nodes are a set (copy_nodes reads and  *)
(* writes them, their tree does not matter here).                          *)
(***************************************************************************)
EXTENDS MessageTree

CONSTANTS Copies,      \* requests that copy a session
          Kinds,       \* what they ask for, out of AllKinds
          Started,     \* how many messages session 0 may have at first
          MaxMsg,      \* bound: messages ever created by clients
          MaxChanges,  \* bound: what clients do meanwhile
          MaxFaults    \* bound: storage calls that fail

AllKinds == {"fork", "duplicate", "import"}

ASSUME CopiesAssumption == /\ {Copies, MaxMsg, MaxChanges, MaxFaults} \subseteq Nat
                           /\ Kinds \subseteq AllKinds
                           /\ Started \subseteq 0 .. MaxMsg

VARIABLES sessions,  \* table chat_sessions: session -> active_leaf_id
          parent,    \* table messages: id -> parent_id
          nodes,     \* table prompt_nodes: <<session, node>>
          digests,   \* table summaries: [session, cutoff]
          clock,     \* created_at of the next message
          changes,   \* what clients have done so far
          faults,    \* calls that have failed
          pruned,    \* history: sessions in which messages were deleted
          job        \* the requests

tables == <<sessions, parent, nodes, digests>>
bounds == <<clock, changes, faults, pruned>>
vars == <<tables, bounds, job>>

Jobs == 1 .. Copies
Span == MaxMsg + 1
Id(s, k) == s * Span + k
SessionOf(m) == m \div Span
CreatedAt(m) == m % Span

(* The table with some more rows. *)
With(rows) == [m \in DOMAIN rows \cup DOMAIN parent |->
                 IF m \in DOMAIN rows THEN rows[m] ELSE parent[m]]

(* list_messages: the rows of one session. *)
Listed(s) == [m \in {k \in DOMAIN parent : SessionOf(k) = s} |-> [parent |-> parent[m]]]
NoTree == [m \in {} |-> [parent |-> NoMsg]]

IdleJob == [pc |-> "idle", kind |-> "fork", src |-> 0, target |-> NoMsg,
            leaf |-> NoMsg, read |-> NoTree, todo |-> {}]

Init == /\ \E n \in Started :
             /\ parent \in {p \in [1 .. n -> 0 .. n] : \A k \in 1 .. n : p[k] < k}
             /\ \E l \in 0 .. n : sessions = [s \in {0} |-> l]
             /\ clock = n + 1
        /\ nodes = {<<0, 0>>}
        /\ digests = {}
        /\ changes = 0 /\ faults = 0
        /\ pruned = {}
        /\ job = [j \in Jobs |-> IdleJob]

-----------------------------------------------------------------------------
(* What is copied, and into what. *)

(* fork_session: the path to the message (the newest one if it is gone),   *)
(* then every other message that hangs on the path, oldest first.  Only    *)
(* these: what hangs below an alternative stays behind, and so does a      *)
(* second root, although the comment there speaks of "the full branching   *)
(* history".                                                               *)
ForkPath(w) == ActivePath(w.read, w.target)

NoAlternatives(w) == {}                                            \* mutant
Alternatives(w) ==
  {m \in DOMAIN w.read \ Range(ForkPath(w)) : w.read[m].parent \in Range(ForkPath(w))}

(* The messages that are copied, and the order in which they are inserted: *)
(* oldest first, and of a fork the path (the root first) before the rest.  *)
Batch(w) == IF w.kind = "fork" THEN Range(ForkPath(w)) \cup Alternatives(w)
                               ELSE DOMAIN w.read
Earlier(w, a, b) == LET late(m) == w.kind = "fork" /\ m \in Alternatives(w)
                    IN  IF late(a) = late(b) THEN a < b ELSE late(b)

Copied(j) == Batch(job[j])

(* idmap: the fresh id of the copy of m. *)
Image(j, m) == Id(j, CreatedAt(m))

OldParent(j, m) == job[j].read[m].parent                           \* mutant
NewParent(j, m) == LET p == job[j].read[m].parent
                   IN  IF p \in Copied(j) THEN Image(j, p) ELSE NoMsg

(* create_messages: row after row, each of which needs its session and its *)
(* parent to be there by then.                                             *)
Insertable(j) ==
  /\ j \in DOMAIN sessions
  /\ \A m \in Copied(j) :
       \/ NewParent(j, m) \in DOMAIN parent \cup {NoMsg}
       \/ \E e \in Copied(j) : Earlier(job[j], e, m) /\ NewParent(j, m) = Image(j, e)

(* new_leaf: a fork opens on the last message it inserted, the others on   *)
(* the copy of the leaf that was read with the session, if it was listed.  *)
Opening(w) == IF w.kind = "fork"
                THEN Newest(IF Alternatives(w) = {} THEN Range(ForkPath(w)) ELSE Alternatives(w))
              ELSE IF w.leaf \in DOMAIN w.read THEN w.leaf ELSE NoMsg

-----------------------------------------------------------------------------
(* The requests, one step per storage call. *)

Ended == {"answered", "failed"}
Running(j) == job[j].pc \notin Ended \cup {"idle"}
Proceed(j, pc) == job' = [job EXCEPT ![j].pc = pc]

(* What is left of a request that has ended, for the properties to look at.*)
HasCopied(w) == w.pc \in {"insert", "leaf", "digests", "digest"}
Remains(w, pc) == IF HasCopied(w)
                    THEN [IdleJob EXCEPT !.pc = pc, !.kind = w.kind, !.src = w.src,
                                         !.target = w.target, !.read = w.read]
                    ELSE [IdleJob EXCEPT !.pc = pc]
End(j, pc) == job' = [job EXCEPT ![j] = Remains(@, pc)]
Goto(j, pc) == IF pc \in Ended THEN End(j, pc) ELSE Proceed(j, pc)

Request(j) ==
  /\ job[j].pc = "idle"
  /\ \E kind \in Kinds, src \in DOMAIN sessions :
     \E target \in IF kind = "fork" THEN DOMAIN Listed(src) ELSE {NoMsg} :
       job' = [job EXCEPT ![j] = [IdleJob EXCEPT !.pc = "session", !.kind = kind,
                                                 !.src = src, !.target = target]]
  /\ UNCHANGED <<tables, bounds>>

GetSession(j) ==
  /\ job[j].pc = "session"
  /\ \/ job[j].src \notin DOMAIN sessions /\ Goto(j, "failed")
     \/ /\ job[j].src \in DOMAIN sessions
        /\ job' = [job EXCEPT ![j].leaf = sessions[job[j].src],
                              ![j].pc = IF job[j].kind = "duplicate"
                                          THEN "create" ELSE "list"]
  /\ UNCHANGED <<tables, bounds>>

AfterList(w) == CASE w.kind = "duplicate" -> "insert"
                  [] w.kind = "import" -> "create"
                  [] w.kind = "fork" -> IF ForkPath(w) = << >> THEN "failed" ELSE "create"

ListMessages(j) ==
  /\ job[j].pc = "list"
  /\ LET w == [job[j] EXCEPT !.read = Listed(job[j].src)]
     IN  job' = [job EXCEPT ![j] = IF AfterList(w) = "failed" THEN Remains(w, "failed")
                                   ELSE [w EXCEPT !.pc = AfterList(w)]]
  /\ UNCHANGED <<tables, bounds>>

CreateSession(j) ==
  /\ job[j].pc = "create"
  /\ sessions' = [s \in DOMAIN sessions \cup {j} |-> IF s = j THEN NoMsg ELSE sessions[s]]
  /\ Goto(j, IF job[j].kind = "import" THEN "insert" ELSE "nodes")
  /\ UNCHANGED <<parent, nodes, digests, bounds>>

AfterNodes(w) == IF w.kind = "fork" THEN "insert" ELSE "list"

CopyNodes(j) ==
  /\ job[j].pc = "nodes"
  /\ nodes' = nodes \cup {<<j, row[2]>> : row \in {r \in nodes : r[1] = job[j].src}}
  /\ Goto(j, AfterNodes(job[j]))
  /\ UNCHANGED <<sessions, parent, digests, bounds>>

InsertMessages(j) ==
  /\ job[j].pc = "insert"
  /\ \/ ~Insertable(j) /\ Goto(j, "failed") /\ UNCHANGED parent
     \/ /\ Insertable(j)
        /\ parent' = With([m \in {Image(j, k) : k \in Copied(j)} |->
                             NewParent(j, Id(job[j].src, CreatedAt(m)))])
        /\ Goto(j, IF Opening(job[j]) = NoMsg THEN "answered" ELSE "leaf")
  /\ UNCHANGED <<sessions, nodes, digests, bounds>>

AfterLeaf(w) == IF w.kind = "fork" THEN "digests" ELSE "answered"

SetLeaf(j) ==
  /\ job[j].pc = "leaf"
  /\ sessions' = IF j \in DOMAIN sessions
                   THEN [sessions EXCEPT ![j] = Image(j, Opening(job[j]))] ELSE sessions
  /\ Goto(j, AfterLeaf(job[j]))
  /\ UNCHANGED <<parent, nodes, digests, bounds>>

AllDigests(j) ==                                                   \* mutant
  {d.cutoff : d \in {e \in digests : e.session = job[j].src}}

(* The digests of the source whose cutoff has a copy. *)
Carried(j) == {d.cutoff : d \in {e \in digests : e.session = job[j].src}} \cap Copied(j)

ListDigests(j) ==
  /\ job[j].pc = "digests"
  /\ job' = [job EXCEPT ![j].todo = Carried(j), ![j].pc = "digest"]
  /\ UNCHANGED <<tables, bounds>>

CreateDigest(j) ==
  /\ job[j].pc = "digest"
  /\ \E c \in job[j].todo :
       /\ digests' = digests \cup {[session |-> j, cutoff |-> Image(j, c)]}
       /\ job' = [job EXCEPT ![j].todo = @ \ {c}]
  /\ UNCHANGED <<sessions, parent, nodes, bounds>>

(* The last get_session of a fork. *)
Answer(j) ==
  /\ job[j].pc = "digest" /\ job[j].todo = {}
  /\ Goto(j, IF j \in DOMAIN sessions THEN "answered" ELSE "failed")
  /\ UNCHANGED <<tables, bounds>>

(* A storage call fails.  The nodes are not missed, and a fork does not    *)
(* miss its leaf and its digests either; anything else ends the request    *)
(* and leaves what it has written.                                         *)
Shrugged(j) == LET w == job[j] IN
  CASE w.pc = "nodes" -> [w EXCEPT !.pc = AfterNodes(w)]
    [] w.kind = "fork" /\ w.pc \in {"leaf", "digests"} ->
         [w EXCEPT !.pc = IF w.pc = "leaf" THEN "digests" ELSE "digest"]
    [] w.pc = "digest" /\ w.todo # {} -> [w EXCEPT !.todo = @ \ {Newest(w.todo)}]
    [] OTHER -> Remains(w, "failed")

Fault(j) == /\ Running(j) /\ faults < MaxFaults
            /\ faults' = faults + 1
            /\ job' = [job EXCEPT ![j] = Shrugged(j)]
            /\ UNCHANGED <<tables, clock, changes, pruned>>

(* The request is dropped: what it was about to do is not done. *)
Drop(j) == /\ Running(j)
           /\ Goto(j, "failed")
           /\ UNCHANGED <<tables, bounds>>

-----------------------------------------------------------------------------
(* What clients do in a session meanwhile, one step per storage call. *)

Change == changes < MaxChanges /\ changes' = changes + 1 /\ UNCHANGED <<faults, job>>

(* A turn: create_message, or create_message_and_advance_leaf. *)
AddMessage(s) ==
  /\ Change /\ clock <= MaxMsg
  /\ \E p \in IF Listed(s) = NoTree THEN {NoMsg} ELSE DOMAIN Listed(s), advance \in BOOLEAN :
       /\ parent' = With([m \in {Id(s, clock)} |-> p])
       /\ sessions' = IF advance THEN [sessions EXCEPT ![s] = Id(s, clock)] ELSE sessions
  /\ clock' = clock + 1
  /\ UNCHANGED <<nodes, digests, pruned>>

DeleteSubtree(s) ==
  /\ Change
  /\ \E m \in DOMAIN Listed(s) :
       /\ parent' = Restrict(parent, DOMAIN parent \ Subtree(Listed(s), m))
       /\ sessions' = IF sessions[s] \in Subtree(Listed(s), m)
                        THEN [sessions EXCEPT ![s] = parent[m]] ELSE sessions
  /\ pruned' = pruned \cup {s}
  /\ UNCHANGED <<nodes, digests, clock>>

SwitchLeaf(s) ==
  /\ Change
  /\ \E m \in DOMAIN Listed(s) :
       sessions' = [sessions EXCEPT ![s] = DeepestLeaf(Listed(s), m)]
  /\ UNCHANGED <<parent, nodes, digests, clock, pruned>>

Summarize(s) ==
  /\ Change
  /\ \E m \in DOMAIN Listed(s) : digests' = digests \cup {[session |-> s, cutoff |-> m]}
  /\ UNCHANGED <<sessions, parent, nodes, clock, pruned>>

DeleteSession(s) ==
  /\ Change
  /\ sessions' = Restrict(sessions, DOMAIN sessions \ {s})
  /\ parent' = Restrict(parent, {m \in DOMAIN parent : SessionOf(m) # s})
  /\ nodes' = {row \in nodes : row[1] # s}
  /\ digests' = {d \in digests : d.session # s}
  /\ UNCHANGED <<clock, pruned>>

-----------------------------------------------------------------------------
Forking(j) == ListDigests(j) \/ CreateDigest(j) \/ Answer(j)
Copying(j) == \/ GetSession(j) \/ ListMessages(j) \/ CreateSession(j) \/ CopyNodes(j)
              \/ InsertMessages(j) \/ SetLeaf(j)
Client(s) == \/ AddMessage(s) \/ DeleteSubtree(s) \/ SwitchLeaf(s) \/ Summarize(s)
             \/ DeleteSession(s)

Next == \/ \E j \in Jobs : Request(j) \/ Copying(j) \/ Forking(j) \/ Fault(j) \/ Drop(j)
        \/ \E s \in DOMAIN sessions : Client(s)

Spec == Init /\ [][Next]_vars

-----------------------------------------------------------------------------
(* Type invariant: rows, requests and counters have the shapes the code    *)
(* gives them; a session's active leaf is an id of that session.           *)
TypeOK ==
  /\ DOMAIN sessions \subseteq 0 .. Copies
  /\ \A s \in DOMAIN sessions : sessions[s] = NoMsg \/ SessionOf(sessions[s]) = s
  /\ \A m \in DOMAIN parent : SessionOf(m) \in 0 .. Copies /\ CreatedAt(m) \in 1 .. MaxMsg
  /\ \A row \in nodes : row[1] \in 0 .. Copies
  /\ clock \in 1 .. MaxMsg + 1 /\ changes <= MaxChanges /\ faults <= MaxFaults
  /\ pruned \subseteq 0 .. Copies
  /\ \A j \in Jobs : job[j].kind \in AllKinds

(* clone_messages "rewiring parent links so the reply tree survives a      *)
(* copy", fork_session's idmap: whatever clients do in the meantime to the *)
(* source and to the copy, a copied message hangs below the copies of the  *)
(* messages its original hung below, up to the root.                       *)
Ages(path) == [i \in DOMAIN path |-> CreatedAt(path[i])]
PathsSurvive ==
  \A j \in Jobs : \A m \in Copied(j) : Image(j, m) \in DOMAIN parent =>
    Ages(PathTo(Listed(j), Image(j, m))) = Ages(PathTo(job[j].read, m))

(* clone_messages: "parent-before-child (created_at order), which the      *)
(* batched insert needs"; fork_session: path first, then the others.  The  *)
(* insert of a copy is refused only if the copy itself was deleted.        *)
NoBatchIsRefused ==
  \A j \in Jobs : job[j].pc = "insert" /\ j \in DOMAIN sessions => Insertable(j)

(* A copy goes in and keeps its shape. *)
CopiesAreSound == TypeOK /\ PathsSurvive /\ NoBatchIsRefused

(* What a request owes: everything that was listed; of a fork, the message *)
(* asked for (or the newest) with all above it, and "sibling messages      *)
(* (swipes) for every message on the path" but the root, or a continuation *)
(* of the last one.  Turns that follow a swipe are not owed.               *)
Owed(j) ==
  LET w == job[j]
      node == IF w.target \in DOMAIN w.read THEN w.target ELSE Newest(DOMAIN w.read)
      above == {m \in DOMAIN w.read : node \in Subtree(w.read, m)}
  IN  IF w.kind = "fork" THEN {m \in DOMAIN w.read : {m, w.read[m].parent} \cap above # {}}
                         ELSE DOMAIN w.read

(* An answered copy has every message that is owed, unless somebody        *)
(* deleted from it meanwhile: a failed call that the request shrugs off    *)
(* never costs one.  For a fork that is the branch and its swipes, which   *)
(* is less than the whole tree of the source.                              *)
AnsweredCopyIsWhole ==
  \A j \in Jobs : job[j].pc = "answered" /\ j \in DOMAIN sessions \ pruned =>
    \A m \in Owed(j) : Image(j, m) \in DOMAIN parent

(* Summaries of a fork: a digest's cutoff is a message of the digest's own *)
(* session, still there unless messages of that session were deleted.      *)
DigestsStayHome ==
  \A d \in digests :
    /\ SessionOf(d.cutoff) = d.session
    /\ d.session \in DOMAIN sessions \ pruned => d.cutoff \in DOMAIN parent
=============================================================================
