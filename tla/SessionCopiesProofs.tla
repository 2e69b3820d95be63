------------------------ MODULE SessionCopiesProofs ------------------------
(***************************************************************************)
(* Proofs about SessionCopies, for any number of requests, messages, client*)
(* changes and failures.                                                   *)
(*                                                                         *)
(* A request is in one of three stages: Early, when nothing refers to the  *)
(* session it will make; Empty, when that session is there and none of the *)
(* copies is; Full, when they were inserted.  All along, a copied message  *)
(* that is there hangs where it was put (Mirrors): that is all that has to *)
(* be kept while clients add and delete, and the paths follow from it.     *)
(*                                                                         *)
(* What is hard is that an id is fresh.  The code draws it at random; here *)
(* it is a session and a created_at, copies keep created_at, and a         *)
(* duplicate lists its source after its own session has appeared, when     *)
(* clients may have written in both and when other requests may have       *)
(* copied from the one into the other's source.  Descent says that no two  *)
(* messages get the same id all the same: every age was written in one     *)
(* session, home, and messages only ever go to sessions that were created  *)
(* later, rank.                                                            *)
(***************************************************************************)
EXTENDS SessionCopies, MessageTreeProofs

USE CopiesAssumption DEF CopiesAssumption

-----------------------------------------------------------------------------
(* Ids: a session and a created_at. *)

LEMMA Quotient ==
  ASSUME NEW y \in Nat \ {0}, NEW x \in Nat
  PROVE  x = y * (x \div y) + (x % y) /\ x % y \in 0 .. y - 1 /\ x \div y \in Nat
OBVIOUS

LEMMA SameQuotient ==
  ASSUME NEW y \in Nat \ {0}, NEW a \in Nat, NEW b \in Nat,
         NEW r \in 0 .. y - 1, NEW s \in 0 .. y - 1, y * a + r = y * b + s
  PROVE  a = b /\ r = s
<1>1. CASE a < b
  <2>1. y * b >= y * (a + 1)
    BY <1>1
  <2>2. y * (a + 1) = y * a + y
    OBVIOUS
  <2> QED BY <2>1, <2>2
<1>2. CASE b < a
  <2>1. y * a >= y * (b + 1)
    BY <1>2
  <2>2. y * (b + 1) = y * b + y
    OBVIOUS
  <2> QED BY <2>1, <2>2
<1> QED BY <1>1, <1>2

AllSessions == 0 .. Copies

(* An id says its session and its age. *)
LEMMA IdParts ==
  ASSUME NEW s \in Nat, NEW k \in 0 .. MaxMsg
  PROVE  Id(s, k) \in Nat /\ SessionOf(Id(s, k)) = s /\ CreatedAt(Id(s, k)) = k
<1>1. Span \in Nat \ {0} /\ k \in 0 .. Span - 1
  BY DEF Span
<1>2. Id(s, k) \in Nat /\ Id(s, k) = Span * s + k
  BY <1>1 DEF Id
<1>3. /\ Id(s, k) = Span * (Id(s, k) \div Span) + (Id(s, k) % Span)
      /\ Id(s, k) % Span \in 0 .. Span - 1 /\ Id(s, k) \div Span \in Nat
  BY <1>1, <1>2, Quotient
<1>4. Id(s, k) \div Span = s /\ Id(s, k) % Span = k
  BY <1>1, <1>2, <1>3, SameQuotient
<1> QED BY <1>2, <1>4 DEF SessionOf, CreatedAt

LEMMA PartsOfId ==
  ASSUME NEW m \in Nat
  PROVE  /\ SessionOf(m) \in Nat /\ CreatedAt(m) \in 0 .. MaxMsg
         /\ m = Id(SessionOf(m), CreatedAt(m))
<1>1. Span \in Nat \ {0}
  BY DEF Span
<1>2. m = Span * (m \div Span) + (m % Span) /\ m % Span \in 0 .. Span - 1 /\ m \div Span \in Nat
  BY <1>1, Quotient
<1>3. m % Span \in 0 .. MaxMsg
  BY <1>2 DEF Span
<1>4. (m \div Span) * Span = Span * (m \div Span)
  BY <1>1, <1>2
<1> QED BY <1>1, <1>2, <1>3, <1>4 DEF SessionOf, CreatedAt, Id

(* Within a session the older message has the smaller id. *)
LEMMA IdsAge ==
  ASSUME NEW a \in Nat, NEW b \in Nat, SessionOf(a) = SessionOf(b)
  PROVE  (a < b) <=> (CreatedAt(a) < CreatedAt(b))
<1>1. /\ a = SessionOf(a) * Span + CreatedAt(a) /\ b = SessionOf(b) * Span + CreatedAt(b)
      /\ CreatedAt(a) \in Nat /\ CreatedAt(b) \in Nat /\ SessionOf(b) \in Nat
  BY PartsOfId DEF Id
<1>2. SessionOf(b) * Span \in Nat
  BY <1>1 DEF Span
<1> QED BY <1>1, <1>2

(* The ids that messages can have; none is NoMsg. *)
Limit == (Copies + 1) * Span
Msgs == {m \in 1 .. Limit : SessionOf(m) \in AllSessions /\ CreatedAt(m) \in 1 .. MaxMsg}

LEMMA IdIsMsg ==
  ASSUME NEW s \in AllSessions, NEW k \in 1 .. MaxMsg
  PROVE  Id(s, k) \in Msgs /\ SessionOf(Id(s, k)) = s /\ CreatedAt(Id(s, k)) = k
<1>1. Id(s, k) \in Nat /\ SessionOf(Id(s, k)) = s /\ CreatedAt(Id(s, k)) = k
  BY IdParts DEF AllSessions
<1>2. Id(s, k) \in 1 .. Limit
  <2>1. s * Span <= Copies * Span /\ Span = MaxMsg + 1 /\ s * Span \in Nat /\ Copies * Span \in Nat
    BY DEF Span, AllSessions
  <2>2. (Copies + 1) * Span = Copies * Span + Span
    BY DEF Span
  <2> QED BY <2>1, <2>2, <1>1 DEF Id, Limit
<1> QED BY <1>1, <1>2 DEF Msgs

LEMMA MsgIs ==
  ASSUME NEW m \in Msgs
  PROVE  /\ m \in Nat /\ m > 0 /\ SessionOf(m) \in AllSessions /\ CreatedAt(m) \in 1 .. MaxMsg
         /\ m = Id(SessionOf(m), CreatedAt(m))
BY PartsOfId DEF Msgs, Limit, Span

-----------------------------------------------------------------------------
(* What a request copies. *)

PCs == {"idle", "session", "list", "create", "nodes", "insert", "leaf", "digests", "digest"}
         \cup Ended
Trees == UNION {[ids -> [parent : Nat]] : ids \in SUBSET Msgs}
JobRows == [pc : PCs, kind : AllKinds, src : AllSessions, target : Nat, leaf : Nat,
            read : Trees, todo : SUBSET Nat]

LEMMA TreesAre ==
  ASSUME NEW t \in Trees
  PROVE  /\ DOMAIN t \subseteq Msgs /\ DOMAIN t \subseteq 1 .. Limit /\ Limit \in Nat
         /\ DOMAIN t \subseteq Nat \ {0}
         /\ \A m \in DOMAIN t : t[m].parent \in Nat
BY DEF Trees, Msgs, Limit, Span

LEMMA NoTreeIs == NoTree \in Trees /\ DOMAIN NoTree = {} /\ Tree(NoTree)
<1>1. DOMAIN NoTree = {} /\ NoTree \in [{} -> [parent : Nat]]
  BY DEF NoTree
<1> QED BY <1>1 DEF Trees, Tree, ParentsExist

(* The path that a fork copies is the path of a stored message, or empty.  *)
LEMMA ForkPathIs ==
  ASSUME NEW w, w.read \in Trees, Tree(w.read)
  PROVE  /\ Range(ForkPath(w)) \subseteq DOMAIN w.read
         /\ \A m \in Range(ForkPath(w)) :
              LET p == w.read[m].parent IN p = NoMsg \/ (p \in Range(ForkPath(w)) /\ p < m)
         /\ ForkPath(w) # << >> => Range(ForkPath(w)) # {}
<1> DEFINE t == w.read
           q == ForkPath(w)
<1>1. PICK m \in DOMAIN t \cup {NoMsg} : ActivePath(t, w.target) = PathTo(t, m)
  BY TreesAre, ActivePathIs
<1>2. q = PathTo(t, m) /\ m \in Nat
  BY <1>1, TreesAre DEF ForkPath, NoMsg
<1>3. Shaped(t, m, q)
  BY <1>2, PathShaped
<1>4. q \in Seq(DOMAIN t) /\ Range(q) = {q[i] : i \in 1 .. Len(q)}
  BY <1>3 DEF Shaped, Range
<1>5. ASSUME NEW k \in Range(q), t[k].parent # NoMsg
      PROVE  t[k].parent \in Range(q) /\ t[k].parent < k
  <2>1. PICK i \in 1 .. Len(q) : q[i] = k
    BY <1>4, <1>5
  <2>2. k \in DOMAIN t /\ k \in Nat
    BY <1>4, <2>1, TreesAre
  <2>3. t[k].parent \in DOMAIN t /\ t[k].parent < k /\ t[k].parent \in Nat
    BY <2>2, <1>5, ParentOf DEF NoMsg
  <2>4. PathTo(t, k) = Append(PathTo(t, t[k].parent), k) /\ PathTo(t, k) = SubSeq(q, 1, i)
    BY <2>1, <2>2, <1>3, PathStep DEF Shaped
  <2>5. Shaped(t, t[k].parent, PathTo(t, t[k].parent))
    BY <2>3, PathShaped
  <2> DEFINE a == PathTo(t, t[k].parent)
  <2>6. a \in Seq(DOMAIN t) /\ Len(a) > 0 /\ a[Len(a)] = t[k].parent
    BY <2>5, <2>3 DEF Shaped
  <2>7. Append(a, k)[Len(a)] = t[k].parent /\ Len(Append(a, k)) = Len(a) + 1
    BY <2>6, <2>2, AppendAt
  <2>8. /\ Len(SubSeq(q, 1, i)) = i
        /\ \A h \in 1 .. i : SubSeq(q, 1, i)[h] = q[h]
    BY <1>4, <2>1, SubSeqAt
  <2>9. Len(a) + 1 = i /\ Len(a) \in 1 .. i /\ q[Len(a)] = t[k].parent
    BY <2>4, <2>6, <2>7, <2>8
  <2> QED BY <2>9, <2>3, <2>1, <1>4
<1>6. q # << >> => Range(q) # {}
  BY <1>4
<1> QED BY <1>4, <1>5, <1>6

(* What is copied is closed under parents, and parents come earlier. *)
LEMMA BatchIs ==
  ASSUME NEW w, w.read \in Trees, Tree(w.read)
  PROVE  /\ Batch(w) \subseteq DOMAIN w.read
         /\ \A m \in Batch(w) :
              LET p == w.read[m].parent
              IN  p = NoMsg \/ (p \in Batch(w) /\ p < m /\ Earlier(w, p, m))
<1> DEFINE t == w.read
           R == Range(ForkPath(w))
           A == Alternatives(w)
<1>1. /\ R \subseteq DOMAIN t /\ A = {m \in DOMAIN t \ R : t[m].parent \in R}
      /\ \A m \in R : t[m].parent = NoMsg \/ (t[m].parent \in R /\ t[m].parent < m)
  BY ForkPathIs DEF Alternatives
<1>2. \A m \in DOMAIN t : /\ m \in Nat /\ t[m].parent \in Nat /\ t[m].parent < m
                          /\ t[m].parent = NoMsg \/ t[m].parent \in DOMAIN t
  BY ParentOf DEF NoMsg
<1>3. CASE w.kind = "fork"
  <2>1. Batch(w) = R \cup A
    BY <1>3 DEF Batch
  <2>2. \A m \in R : t[m].parent # NoMsg => Earlier(w, t[m].parent, m)
    BY <1>1, <1>3 DEF Earlier
  <2>3. \A m \in A : Earlier(w, t[m].parent, m)
    BY <1>1, <1>3 DEF Earlier
  <2> HIDE DEF A, R
  <2>4. \A m \in R \cup A : t[m].parent = NoMsg \/
             (t[m].parent \in R \cup A /\ t[m].parent < m /\ Earlier(w, t[m].parent, m))
    BY <1>1, <1>2, <2>2, <2>3
  <2> QED BY <2>1, <2>4, <1>1
<1>4. CASE w.kind # "fork"
  <2>1. Batch(w) = DOMAIN t
    BY <1>4 DEF Batch
  <2>2. \A m \in DOMAIN t : Earlier(w, t[m].parent, m)
    BY <1>2, <1>4 DEF Earlier
  <2> QED BY <2>1, <2>2, <1>2
<1> QED BY <1>3, <1>4

-----------------------------------------------------------------------------
(* The invariant. *)

(* The session of a request is not there yet; is there, and the copied     *)
(* messages are not; has received them.                                    *)
Early(w) == w.pc \in {"idle", "session", "create"} \/ (w.pc = "list" /\ w.kind # "duplicate")
Empty(w) == w.pc \in {"nodes", "insert"} \/ (w.pc = "list" /\ w.kind = "duplicate")
Full(w) == w.pc \in {"leaf", "digests", "digest", "answered"}

(* Messages: ids below the clock, and the foreign key within a session. *)
RowsInv ==
  /\ clock \in 1 .. MaxMsg + 1
  /\ DOMAIN parent \subseteq Msgs
  /\ \A m \in DOMAIN parent : CreatedAt(m) < clock
  /\ \A m \in DOMAIN parent : \/ parent[m] = NoMsg
                              \/ /\ parent[m] \in DOMAIN parent
                                 /\ SessionOf(parent[m]) = SessionOf(m)
                                 /\ CreatedAt(parent[m]) < CreatedAt(m)

(* The other tables and the counters. *)
TablesInv ==
  /\ DOMAIN sessions \subseteq AllSessions
  /\ \A s \in DOMAIN sessions : \/ sessions[s] = NoMsg
                                \/ sessions[s] \in Msgs /\ SessionOf(sessions[s]) = s
  /\ \A row \in nodes : row[1] \in AllSessions
  /\ changes \in 0 .. MaxChanges /\ faults \in 0 .. MaxFaults
  /\ pruned \subseteq AllSessions

(* What a request has read is a tree of its source. *)
ReadIsTree(w) == /\ Tree(w.read)
                 /\ \A m \in DOMAIN w.read : SessionOf(m) = w.src /\ CreatedAt(m) < clock

(* Before its session is made nothing refers to it. *)
Unborn(j) == /\ j \notin DOMAIN sessions
             /\ \A m \in DOMAIN parent : SessionOf(m) # j
             /\ \A d \in digests : d.session # j

(* A copied message that is there hangs where it was put. *)
Mirrors(j) == \A m \in Copied(j) :
  Image(j, m) \in DOMAIN parent => parent[Image(j, m)] = NewParent(j, m)

Present(j) == \A m \in Copied(j) : Image(j, m) \in DOMAIN parent

(* An import copies no nodes; a leaf is set where there is one; only a     *)
(* fork that copies digests has some left to copy.                         *)
Stage(w) == /\ w.pc = "nodes" => w.kind # "import"
            /\ w.pc = "leaf" => Opening(w) # NoMsg
            /\ w.pc # "digest" => w.todo = {}

JobInv(j) == /\ ReadIsTree(job[j])
             /\ Early(job[j]) => Unborn(j)
             /\ Mirrors(j)
             /\ Full(job[j]) /\ j \in DOMAIN sessions \ pruned => Present(j)
             /\ job[j].todo \subseteq Copied(j)
             /\ Stage(job[j])

SourcesInv == \A i, j \in Jobs : Early(job[j]) => job[i].src # j

JobsInv == job \in [Jobs -> JobRows] /\ SourcesInv /\ \A j \in Jobs : JobInv(j)

DigestsInv == \A d \in digests :
  /\ d.session \in AllSessions
  /\ d.cutoff \in Msgs /\ SessionOf(d.cutoff) = d.session
  /\ d.session \in DOMAIN sessions \ pruned => d.cutoff \in DOMAIN parent

(* No two messages of a session have the same age, although a duplicate    *)
(* keeps the ages of messages that may be younger than itself: home says   *)
(* in which session the message of each age was written, rank orders the   *)
(* sessions by their creation, born have been created.  Messages come only *)
(* from older sessions, so none of the source was written in the copy.     *)
LineOf(j, home, rank) ==
  /\ Early(job[j]) => \A k \in 1 .. clock - 1 : home[k] # j
  /\ Empty(job[j]) =>
       /\ rank[job[j].src] < rank[j]
       /\ \A m \in DOMAIN parent : SessionOf(m) = j => home[CreatedAt(m)] = j
       /\ \A m \in DOMAIN job[j].read : rank[home[CreatedAt(m)]] < rank[j]
Line(home, rank, born) ==
  /\ home \in [1 .. MaxMsg -> AllSessions] /\ rank \in [AllSessions -> Nat] /\ born \in Nat
  /\ \A s \in AllSessions : rank[s] < born
  /\ \A m \in DOMAIN parent :
       home[CreatedAt(m)] = SessionOf(m) \/ rank[home[CreatedAt(m)]] < rank[SessionOf(m)]
  /\ \A j \in Jobs : LineOf(j, home, rank)
Descent == \E home, rank, born : Line(home, rank, born)

Inv == RowsInv /\ TablesInv /\ JobsInv /\ DigestsInv /\ Descent

-----------------------------------------------------------------------------
(* Requests. *)

Typed == clock \in Nat /\ job \in [Jobs -> JobRows]

(* Copies have ids of their own session, and distinct ones. *)
LEMMA ImageIs ==
  ASSUME Typed, NEW j \in Jobs, ReadIsTree(job[j])
  PROVE  /\ Copied(j) \subseteq DOMAIN job[j].read
         /\ \A m \in DOMAIN job[j].read :
              /\ m \in Msgs /\ m = Id(job[j].src, CreatedAt(m))
              /\ Image(j, m) \in Msgs /\ SessionOf(Image(j, m)) = j
              /\ CreatedAt(Image(j, m)) = CreatedAt(m) /\ CreatedAt(m) < clock
<1>1. job[j].read \in Trees /\ j \in AllSessions
  BY DEF Typed, JobRows, Jobs, AllSessions
<1>2. Copied(j) \subseteq DOMAIN job[j].read
  BY <1>1, BatchIs DEF Copied, ReadIsTree
<1>3. ASSUME NEW m \in DOMAIN job[j].read
      PROVE  m \in Msgs /\ SessionOf(m) = job[j].src /\ CreatedAt(m) < clock
  BY <1>1, TreesAre DEF ReadIsTree
<1>4. ASSUME NEW m \in DOMAIN job[j].read
      PROVE  CreatedAt(m) \in 1 .. MaxMsg /\ m = Id(job[j].src, CreatedAt(m))
  BY <1>3, MsgIs
<1> QED BY <1>1, <1>2, <1>3, <1>4, IdIsMsg DEF Image

(* What is copied depends on what was asked for and what was read. *)
LEMMA SameBatch ==
  ASSUME NEW v, NEW w, v.read = w.read, v.kind = w.kind, v.target = w.target
  PROVE  Batch(v) = Batch(w)
<1>1. ForkPath(v) = ForkPath(w)
  BY DEF ForkPath
<1>2. Alternatives(v) = Alternatives(w)
  BY <1>1 DEF Alternatives
<1> QED BY <1>1, <1>2 DEF Batch

LEMMA NoBatch ==
  ASSUME NEW v, v.read = NoTree
  PROVE  Batch(v) = {}
  BY BatchIs, NoTreeIs

(* A request goes on: it reads nothing new and is no earlier than it was. *)
Later(w, v) ==
  /\ v.src \in {0, w.src}
  /\ Early(v) => Early(w)
  /\ Empty(v) => Empty(w) /\ v.src = w.src
  /\ Full(v) => Full(w)
  /\ \/ v.read = w.read /\ v.kind = w.kind /\ v.target = w.target /\ v.src = w.src
     \/ v.read = NoTree
  /\ v.todo \subseteq Batch(v)
  /\ Stage(v)

(* The tables change, and not in what the request i relies on. *)
Calm(i) ==
  /\ clock' \in Nat /\ clock <= clock'
  /\ Early(job[i]) => Unborn(i)'
  /\ \A m \in DOMAIN parent' : SessionOf(m) = i /\ CreatedAt(m) < clock =>
                                 m \in DOMAIN parent /\ parent'[m] = parent[m]
  /\ i \in DOMAIN sessions' \ pruned' =>
       /\ i \in DOMAIN sessions \ pruned
       /\ \A m \in DOMAIN parent : SessionOf(m) = i => m \in DOMAIN parent'

LEMMA JobKeeps ==
  ASSUME Typed, Typed', NEW i \in Jobs, JobInv(i), Later(job[i], job'[i]), Calm(i)
  PROVE  JobInv(i)'
<1> DEFINE w == job[i]
           v == job'[i]
<1>1. ReadIsTree(w)
  BY DEF JobInv
<1>2. ReadIsTree(job[i])'
  <2>1. CASE v.read = w.read /\ v.src = w.src
    <3>1. \A m \in DOMAIN w.read : CreatedAt(m) < clock'
      BY <1>1, ImageIs, MsgIs DEF Calm, Typed
    <3> QED BY <2>1, <3>1, <1>1 DEF ReadIsTree
  <2>2. CASE v.read = NoTree
    BY <2>2, NoTreeIs DEF ReadIsTree
  <2> QED BY <2>1, <2>2 DEF Later
<1>3. Early(v) => Unborn(i)'
  BY DEF Later, Calm
<1>4. CASE v.read = w.read /\ v.kind = w.kind /\ v.target = w.target
  <2>1. Copied(i)' = Copied(i)
    BY <1>4, SameBatch DEF Copied
  <2>2. \A m : NewParent(i, m)' = NewParent(i, m)
    BY <1>4, <2>1 DEF NewParent, Image
  <2>3. \A m \in Copied(i) : /\ SessionOf(Image(i, m)) = i
                             /\ CreatedAt(Image(i, m)) < clock
    BY <1>1, ImageIs
  <2>4. Mirrors(i)'
    BY <2>1, <2>2, <2>3 DEF JobInv, Mirrors, Calm, Image
  <2>5. Full(v) /\ i \in DOMAIN sessions' \ pruned' => Present(i)'
    BY <2>1, <2>3 DEF JobInv, Present, Calm, Image, Later
  <2>6. v.todo \subseteq Copied(i)' /\ Stage(v)
    BY DEF Later, Copied
  <2> QED BY <1>2, <1>3, <2>4, <2>5, <2>6 DEF JobInv
<1>5. CASE v.read = NoTree
  <2>1. Copied(i)' = {} /\ v.todo = {} /\ Stage(v)
    BY <1>5, NoBatch DEF Copied, Later
  <2> QED BY <1>2, <1>3, <2>1 DEF JobInv, Mirrors, Present
<1> QED BY <1>4, <1>5 DEF Later

Unmoved(j) == \A i \in Jobs : i # j => job'[i] = job[i]

LEMMA Itself ==
  ASSUME Typed, NEW i \in Jobs, JobInv(i)
  PROVE  Later(job[i], job[i])
  BY DEF Later, JobInv, Copied

LEMMA IdleJobIs ==
  /\ IdleJob \in JobRows
  /\ IdleJob.pc = "idle" /\ IdleJob.src = 0 /\ IdleJob.read = NoTree /\ IdleJob.todo = {}
  BY NoTreeIs DEF IdleJob, JobRows, PCs, AllKinds, AllSessions, NoMsg

LEMMA RemainsIs ==
  ASSUME NEW w \in JobRows, NEW pc \in Ended
  PROVE  /\ Remains(w, pc) \in JobRows
         /\ Remains(w, pc).pc = pc /\ Remains(w, pc).todo = {}
         /\ Remains(w, pc).src \in {0, w.src}
         /\ \/ /\ Remains(w, pc).read = w.read /\ Remains(w, pc).kind = w.kind
               /\ Remains(w, pc).target = w.target /\ Remains(w, pc).src = w.src
            \/ Remains(w, pc).read = NoTree
<1>1. CASE HasCopied(w)
  BY <1>1, NoTreeIs DEF Remains, IdleJob, JobRows, PCs, AllKinds, AllSessions, NoMsg
<1>2. CASE ~HasCopied(w)
  BY <1>2, NoTreeIs DEF Remains, IdleJob, JobRows, PCs, AllKinds, AllSessions, NoMsg
<1> QED BY <1>1, <1>2

LEMMA EndIsLater ==
  ASSUME NEW w \in JobRows, NEW pc \in Ended, pc = "answered" => Full(w)
  PROVE  Later(w, Remains(w, pc))
<1> DEFINE v == Remains(w, pc)
<1>1. v.pc = pc /\ ~Early(v) /\ ~Empty(v) /\ (Full(v) => Full(w)) /\ v.pc \notin {"nodes", "leaf"}
  BY RemainsIs DEF Early, Empty, Full, Ended
<1> QED BY <1>1, RemainsIs DEF Later, Stage

(* Only the job of the request moves, to v. *)
To(j, v) == v \in JobRows /\ job' = [job EXCEPT ![j] = v]

LEMMA ToIs ==
  ASSUME Typed, clock' \in Nat, NEW j \in Jobs, NEW v, To(j, v)
  PROVE  Typed' /\ job'[j] = v /\ Unmoved(j)
  BY DEF Typed, To, Unmoved

Advances(j) == \E v : To(j, v) /\ Later(job[j], v)

LEMMA EndAdvances ==
  ASSUME Typed, NEW j \in Jobs, NEW pc \in Ended, pc = "answered" => Full(job[j]), End(j, pc)
  PROVE  Advances(j)
<1>1. To(j, Remains(job[j], pc))
  BY RemainsIs DEF End, To, Typed
<1> QED BY <1>1, EndIsLater DEF Advances, Typed

(* A request goes on to another call and keeps what it has read. *)
LEMMA ProceedAdvances ==
  ASSUME Typed, NEW j \in Jobs, JobInv(j), NEW pc \in PCs, Proceed(j, pc),
         LET v == [job[j] EXCEPT !.pc = pc]
         IN  /\ Early(v) => Early(job[j])
             /\ Empty(v) => Empty(job[j])
             /\ Full(v) => Full(job[j])
             /\ pc \notin {"nodes", "leaf"} /\ job[j].pc # "digest"
  PROVE  Advances(j)
<1> DEFINE v == [job[j] EXCEPT !.pc = pc]
<1>1. /\ v \in JobRows /\ v.pc = pc /\ v.read = job[j].read /\ v.kind = job[j].kind
      /\ v.target = job[j].target /\ v.src = job[j].src /\ v.todo = job[j].todo
  BY DEF Typed, JobRows
<1>2. To(j, v)
  BY <1>1 DEF To, Proceed, Typed
<1>3. Batch(v) = Batch(job[j])
  BY <1>1, SameBatch
<1> HIDE DEF v
<1>4. Later(job[j], v)
  <2> USE DEF v
  <2> QED BY <1>1, <1>3 DEF Later, JobInv, Copied, Stage
<1> QED BY <1>2, <1>4 DEF Advances

LEMMA GotoAdvances ==
  ASSUME Typed, NEW j \in Jobs, JobInv(j), NEW pc \in PCs, Goto(j, pc),
         LET v == [job[j] EXCEPT !.pc = pc]
         IN  /\ Early(v) => Early(job[j])
             /\ Empty(v) => Empty(job[j])
             /\ Full(v) => Full(job[j])
             /\ pc \notin {"nodes", "leaf"} /\ job[j].pc # "digest"
  PROVE  Advances(j)
<1>1. CASE pc \in Ended
  <2>1. pc = "answered" => Full(job[j])
    BY DEF Full, Typed, JobRows
  <2> QED BY <1>1, <2>1, EndAdvances DEF Goto
<1>2. CASE pc \notin Ended
  BY <1>2, ProceedAdvances DEF Goto
<1> QED BY <1>1, <1>2

LEMMA FailAdvances ==
  ASSUME Typed, NEW j \in Jobs, Goto(j, "failed")
  PROVE  Advances(j)
  BY EndAdvances DEF Goto, Ended

LEMMA GetSessionAdvances ==
  ASSUME Typed, TablesInv, NEW j \in Jobs, JobInv(j), GetSession(j)
  PROVE  Advances(j)
<1>1. CASE Goto(j, "failed")
  BY <1>1, FailAdvances
<1>2. CASE /\ job[j].src \in DOMAIN sessions
           /\ job' = [job EXCEPT ![j].leaf = sessions[job[j].src],
                                 ![j].pc = IF job[j].kind = "duplicate" THEN "create" ELSE "list"]
  <2> DEFINE pc == IF job[j].kind = "duplicate" THEN "create" ELSE "list"
             v == [job[j] EXCEPT !.leaf = sessions[job[j].src], !.pc = pc]
  <2>1. sessions[job[j].src] \in Nat
    BY <1>2, MsgIs DEF TablesInv, NoMsg
  <2>2. pc \in PCs /\ job[j].pc = "session"
    BY DEF PCs, GetSession
  <2>3. To(j, v)
    <3>1. v \in JobRows
      BY <2>1, <2>2 DEF Typed, JobRows
    <3> QED BY <1>2, <3>1 DEF To, Typed
  <2>4. /\ v.pc = pc /\ v.read = job[j].read /\ v.kind = job[j].kind
        /\ v.target = job[j].target /\ v.src = job[j].src /\ v.todo = job[j].todo
    BY DEF Typed, JobRows
  <2>5. Batch(v) = Batch(job[j])
    BY <2>4, SameBatch
  <2>6. Early(job[j]) /\ Early(v) /\ ~Empty(v) /\ ~Full(v) /\ v.pc \notin {"nodes", "leaf"}
    BY <2>2, <2>4 DEF Early, Empty, Full
  <2>7. Later(job[j], v)
    <3> HIDE DEF v
    <3> QED BY <2>2, <2>4, <2>5, <2>6 DEF Later, JobInv, Copied, Stage
  <2> QED BY <2>3, <2>7 DEF Advances
<1> QED BY <1>1, <1>2 DEF GetSession

LEMMA CopyNodesAdvances ==
  ASSUME Typed, NEW j \in Jobs, JobInv(j), CopyNodes(j)
  PROVE  Advances(j)
<1> DEFINE pc == AfterNodes(job[j])
<1>1. job[j].pc = "nodes" /\ job[j].kind # "import" /\ job[j].kind \in AllKinds /\ Goto(j, pc)
  BY DEF CopyNodes, JobInv, Stage, Typed, JobRows
<1>2. pc \in PCs /\ pc \notin {"nodes", "leaf"}
      /\ (job[j].kind = "fork" => pc = "insert") /\ (job[j].kind # "fork" => pc = "list")
  BY DEF AfterNodes, PCs
<1> DEFINE v == [job[j] EXCEPT !.pc = pc]
<1>3. v.pc = pc /\ v.kind = job[j].kind
  BY DEF Typed, JobRows
<1>4. ~Early(v) /\ Empty(v) /\ Empty(job[j]) /\ ~Full(v)
  BY <1>1, <1>2, <1>3 DEF Early, Empty, Full, AllKinds
<1> QED BY <1>1, <1>2, <1>4, GotoAdvances

LEMMA SetLeafAdvances ==
  ASSUME Typed, NEW j \in Jobs, JobInv(j), SetLeaf(j)
  PROVE  Advances(j)
<1> DEFINE pc == AfterLeaf(job[j])
           v == [job[j] EXCEPT !.pc = pc]
<1>1. Goto(j, pc) /\ job[j].pc = "leaf" /\ pc \in {"digests", "answered"} /\ pc \in PCs
  BY DEF SetLeaf, AfterLeaf, PCs, Ended
<1>2. v.pc = pc
  BY DEF Typed, JobRows
<1>3. ~Early(v) /\ ~Empty(v) /\ Full(job[j]) /\ pc \notin {"nodes", "leaf"}
  BY <1>1, <1>2 DEF Early, Empty, Full
<1> QED BY <1>1, <1>3, GotoAdvances

LEMMA AnswerAdvances ==
  ASSUME Typed, NEW j \in Jobs, JobInv(j), Answer(j)
  PROVE  Advances(j)
<1>1. \E pc \in Ended : Goto(j, pc)
  BY DEF Answer, Ended
<1>2. Full(job[j])
  BY DEF Answer, Full
<1> QED BY <1>1, <1>2, EndAdvances DEF Goto

(* The digests that are left to copy. *)
LEMMA TodoAdvances ==
  ASSUME Typed, NEW j \in Jobs, JobInv(j), job[j].pc \in {"digests", "digest"},
         NEW S, S \subseteq Copied(j),
         To(j, [job[j] EXCEPT !.todo = S, !.pc = "digest"])
  PROVE  Advances(j)
<1> DEFINE v == [job[j] EXCEPT !.todo = S, !.pc = "digest"]
<1>1. /\ v.pc = "digest" /\ v.read = job[j].read /\ v.kind = job[j].kind
      /\ v.target = job[j].target /\ v.src = job[j].src /\ v.todo = S
  BY DEF Typed, JobRows
<1>2. Batch(v) = Batch(job[j])
  BY <1>1, SameBatch
<1>3. ~Early(v) /\ ~Empty(v) /\ Full(job[j]) /\ v.pc \notin {"nodes", "leaf"}
  BY <1>1 DEF Early, Empty, Full
<1>4. Later(job[j], v)
  <2> HIDE DEF v
  <2> QED BY <1>1, <1>2, <1>3 DEF Later, Copied, Stage
<1> QED BY <1>4 DEF Advances

LEMMA CopiedIsNat ==
  ASSUME Typed, NEW j \in Jobs, JobInv(j)
  PROVE  Copied(j) \subseteq Nat
  BY ImageIs, MsgIs DEF JobInv

LEMMA ListDigestsAdvances ==
  ASSUME Typed, NEW j \in Jobs, JobInv(j), ListDigests(j)
  PROVE  Advances(j)
<1>1. Carried(j) \subseteq Copied(j) /\ Carried(j) \in SUBSET Nat
  BY CopiedIsNat DEF Carried
<1> DEFINE v == [job[j] EXCEPT !.todo = Carried(j), !.pc = "digest"]
<1>2. v \in JobRows
  BY <1>1 DEF Typed, JobRows, PCs
<1>3. To(j, v)
  BY <1>2 DEF To, ListDigests, Typed
<1>4. job[j].pc \in {"digests", "digest"}
  BY DEF ListDigests
<1> QED BY <1>1, <1>3, <1>4, TodoAdvances

LEMMA CreateDigestAdvances ==
  ASSUME Typed, NEW j \in Jobs, JobInv(j), CreateDigest(j)
  PROVE  Advances(j)
<1>1. PICK c \in job[j].todo : job' = [job EXCEPT ![j].todo = @ \ {c}]
  BY DEF CreateDigest
<1> DEFINE v == [job[j] EXCEPT !.todo = job[j].todo \ {c}, !.pc = "digest"]
<1>2. v \in JobRows
  BY DEF Typed, JobRows, PCs
<1>3. job[j].pc = "digest"
  BY DEF CreateDigest
<1>4. v = [job[j] EXCEPT !.todo = job[j].todo \ {c}]
  BY <1>3 DEF Typed, JobRows
<1>5. To(j, v)
  <2> HIDE DEF v
  <2> QED BY <1>1, <1>2, <1>4 DEF To, Typed
<1>6. job[j].todo \ {c} \subseteq Copied(j) /\ job[j].pc \in {"digests", "digest"}
  BY <1>3 DEF JobInv
<1> QED BY <1>5, <1>6, TodoAdvances

LEMMA DropAdvances ==
  ASSUME Typed, NEW j \in Jobs, Drop(j)
  PROVE  Advances(j)
  BY FailAdvances DEF Drop

LEMMA FaultAdvances ==
  ASSUME Typed, NEW j \in Jobs, JobInv(j), Fault(j)
  PROVE  Advances(j)
<1> DEFINE w == job[j]
<1>1. job' = [job EXCEPT ![j] = Shrugged(j)] /\ w \in JobRows
  BY DEF Fault, Typed
<1>2. CASE w.pc = "nodes"
  <2>1. Shrugged(j) = [w EXCEPT !.pc = AfterNodes(w)] /\ w.kind # "import"
    BY <1>2 DEF Shrugged, JobInv, Stage
  <2> DEFINE pc == AfterNodes(w)
             v == [w EXCEPT !.pc = pc]
  <2>2. pc \in PCs /\ pc \notin {"nodes", "leaf"}
        /\ (w.kind = "fork" => pc = "insert") /\ (w.kind # "fork" => pc = "list")
    BY DEF AfterNodes, PCs
  <2>3. v.pc = pc /\ v.kind = w.kind
    BY <1>1 DEF JobRows
  <2>4. ~Early(v) /\ Empty(v) /\ Empty(w) /\ ~Full(v)
    BY <1>1, <1>2, <2>1, <2>2, <2>3 DEF Early, Empty, Full, AllKinds, JobRows
  <2>5. Proceed(j, pc)
    BY <1>1, <2>1 DEF Proceed, Typed
  <2> QED BY <1>2, <2>2, <2>4, <2>5, ProceedAdvances
<1>3. CASE w.kind = "fork" /\ w.pc = "leaf"
  <2>1. Shrugged(j) = [w EXCEPT !.pc = "digests"]
    BY <1>3 DEF Shrugged
  <2>2. Proceed(j, "digests")
    BY <1>1, <2>1 DEF Proceed, Typed
  <2> DEFINE v == [w EXCEPT !.pc = "digests"]
  <2>3. v.pc = "digests"
    BY <1>1 DEF JobRows
  <2>4. ~Early(v) /\ ~Empty(v) /\ Full(w) /\ "digests" \in PCs
    BY <1>3, <2>3 DEF Early, Empty, Full, PCs
  <2> QED BY <1>3, <2>2, <2>4, ProceedAdvances
<1>4. CASE w.kind = "fork" /\ w.pc = "digests"
  <2>1. Shrugged(j) = [w EXCEPT !.pc = "digest"]
    BY <1>4 DEF Shrugged
  <2>2. Proceed(j, "digest")
    BY <1>1, <2>1 DEF Proceed, Typed
  <2> DEFINE v == [w EXCEPT !.pc = "digest"]
  <2>3. v.pc = "digest"
    BY <1>1 DEF JobRows
  <2>4. ~Early(v) /\ ~Empty(v) /\ Full(w) /\ "digest" \in PCs
    BY <1>4, <2>3 DEF Early, Empty, Full, PCs
  <2> QED BY <1>4, <2>2, <2>4, ProceedAdvances
<1>5. CASE w.pc = "digest" /\ w.todo # {}
  <2>1. Shrugged(j) = [w EXCEPT !.todo = @ \ {Newest(w.todo)}]
    BY <1>5 DEF Shrugged
  <2> DEFINE S == w.todo \ {Newest(w.todo)}
             v == [w EXCEPT !.todo = S, !.pc = "digest"]
  <2>2. v \in JobRows
    BY <1>1 DEF JobRows, PCs
  <2>3. Shrugged(j) = v
    BY <1>1, <1>5, <2>1 DEF JobRows
  <2>4. To(j, v)
    BY <1>1, <2>2, <2>3 DEF To
  <2>5. S \subseteq Copied(j)
    BY DEF JobInv
  <2> QED BY <1>5, <2>4, <2>5, TodoAdvances
<1>6. CASE /\ w.pc # "nodes" /\ ~(w.kind = "fork" /\ w.pc \in {"leaf", "digests"})
           /\ ~(w.pc = "digest" /\ w.todo # {})
  <2>1. Shrugged(j) = Remains(w, "failed")
    BY <1>6 DEF Shrugged
  <2>2. End(j, "failed")
    BY <1>1, <2>1 DEF End, Typed
  <2> QED BY <2>2, EndAdvances DEF Ended
<1> QED BY <1>2, <1>3, <1>4, <1>5, <1>6

-----------------------------------------------------------------------------
(* Steps in which requests only go on. *)

LEMMA JobsKeep ==
  ASSUME Typed, JobsInv, Typed', \A i \in Jobs : Later(job[i], job'[i]),
         \A i \in Jobs : Calm(i)
  PROVE  JobsInv'
<1>1. \A i \in Jobs : JobInv(i)'
  BY JobKeeps DEF JobsInv
<1>2. \A i \in Jobs : i # 0 /\ (Early(job'[i]) => Early(job[i])) /\ job'[i].src \in {0, job[i].src}
  BY DEF Later, Jobs
<1>3. SourcesInv'
  BY <1>2 DEF JobsInv, SourcesInv
<1> QED BY <1>1, <1>3 DEF JobsInv, Typed

LEMMA LineKeeps ==
  ASSUME NEW home, NEW rank, NEW born, Line(home, rank, born), JobsInv,
         \A i \in Jobs : Later(job[i], job'[i]),
         DOMAIN parent' \subseteq DOMAIN parent, clock' = clock
  PROVE  Line(home, rank, born)'
<1>1. ASSUME NEW i \in Jobs PROVE LineOf(i, home, rank)'
  <2>1. Later(job[i], job'[i]) /\ LineOf(i, home, rank)
    BY DEF Line
  <2>2. DOMAIN job'[i].read \subseteq DOMAIN job[i].read
    BY <2>1, NoTreeIs DEF Later
  <2> QED BY <2>1, <2>2 DEF Later, LineOf
<1> QED BY <1>1 DEF Line

LEMMA AllLater ==
  ASSUME Typed, JobsInv, NEW j \in Jobs, Advances(j), clock' \in Nat
  PROVE  Typed' /\ \A i \in Jobs : Later(job[i], job'[i])
<1>1. PICK v : To(j, v) /\ Later(job[j], v)
  BY DEF Advances
<1>2. Typed' /\ job'[j] = v /\ Unmoved(j)
  BY <1>1, ToIs
<1>3. \A i \in Jobs : Later(job[i], job[i])
  BY Itself DEF JobsInv
<1> QED BY <1>1, <1>2, <1>3 DEF Unmoved

LEMMA NoneMoves ==
  ASSUME Typed, JobsInv, job' = job, clock' \in Nat
  PROVE  Typed' /\ \A i \in Jobs : Later(job[i], job'[i])
<1>1. \A i \in Jobs : Later(job[i], job[i])
  BY Itself DEF JobsInv
<1> QED BY <1>1 DEF Typed

(* Nothing that a request relies on changes in these steps. *)
LEMMA CalmIf ==
  ASSUME RowsInv, JobsInv, DOMAIN sessions' \subseteq DOMAIN sessions, parent' = parent, clock' = clock,
         pruned' = pruned,
         \A d \in digests' : \/ d \in digests
                             \/ d.session \in DOMAIN sessions
                             \/ d.session \in Jobs /\ ~Early(job[d.session])
  PROVE  \A i \in Jobs : Calm(i)
<1> SUFFICES ASSUME NEW i \in Jobs PROVE Calm(i)
  OBVIOUS
<1>1. Early(job[i]) => Unborn(i)'
  BY DEF JobsInv, JobInv, Unborn
<1>2. clock \in Nat
  BY DEF RowsInv
<1> QED BY <1>1, <1>2 DEF Calm

(* What list_messages returns is a tree. *)
LEMMA ListedIs ==
  ASSUME RowsInv, NEW s
  PROVE  /\ Listed(s) \in Trees /\ Tree(Listed(s))
         /\ DOMAIN Listed(s) = {m \in DOMAIN parent : SessionOf(m) = s}
         /\ \A m \in DOMAIN Listed(s) : Listed(s)[m].parent = parent[m]
<1> DEFINE D == {m \in DOMAIN parent : SessionOf(m) = s}
           t == Listed(s)
<1>1. DOMAIN t = D /\ t = [m \in D |-> [parent |-> parent[m]]]
  BY DEF Listed
<1>2. \A m \in D : t[m] = [parent |-> parent[m]]
  BY <1>1
<1>3. ASSUME NEW m \in D
      PROVE  /\ m \in Msgs /\ m \in Nat \ {0} /\ parent[m] \in Nat
             /\ parent[m] = NoMsg \/ (parent[m] \in D /\ parent[m] < m)
  <2>1. m \in Msgs /\ m \in Nat \ {0}
    BY MsgIs DEF RowsInv
  <2>2. CASE parent[m] # NoMsg
    <3>1. parent[m] \in D /\ CreatedAt(parent[m]) < CreatedAt(m) /\ SessionOf(parent[m]) = SessionOf(m)
      BY <2>2 DEF RowsInv
    <3>2. parent[m] \in Nat
      BY <3>1, MsgIs DEF RowsInv
    <3> QED BY <2>1, <3>1, <3>2, IdsAge
  <2> QED BY <2>1, <2>2 DEF NoMsg
<1>4. t \in [D -> [parent : Nat]] /\ D \in SUBSET Msgs
  BY <1>1, <1>3
<1>5. t \in Trees
  BY <1>4 DEF Trees
<1>6. ParentsExist(t) /\ DOMAIN t \subseteq Nat \ {0}
  <2> HIDE DEF t, D
  <2> QED BY <1>1, <1>2, <1>3 DEF ParentsExist
<1> QED BY <1>1, <1>2, <1>5, <1>6 DEF Tree

LEMMA InvIsTyped == Inv => Typed
  BY DEF Inv, Typed, RowsInv, JobsInv

LEMMA QuietKeeps ==
  ASSUME Inv, NEW j \in Jobs, Advances(j),
         parent' = parent, clock' = clock, pruned' = pruned, DOMAIN sessions' = DOMAIN sessions,
         \A d \in digests' : d \in digests \/ (d.session = j /\ ~Early(job[j]))
  PROVE  RowsInv' /\ JobsInv' /\ Descent'
<1>1. Typed /\ RowsInv /\ JobsInv /\ clock' \in Nat
  BY InvIsTyped DEF Inv, Typed
<1>2. Typed' /\ \A i \in Jobs : Later(job[i], job'[i])
  BY <1>1, AllLater
<1>3. \A i \in Jobs : Calm(i)
  BY <1>1, CalmIf
<1>4. JobsInv'
  BY <1>1, <1>2, <1>3, JobsKeep
<1>5. PICK home, rank, born : Line(home, rank, born)
  BY DEF Inv, Descent
<1>6. Line(home, rank, born)'
  BY <1>1, <1>2, <1>5, LineKeeps
<1>7. Descent'
  BY <1>6 DEF Descent
<1>8. RowsInv'
  BY <1>1 DEF RowsInv
<1> QED BY <1>4, <1>7, <1>8

(* The other tables, when no digest is made. *)
LEMMA QuietTables ==
  ASSUME Inv, parent' = parent, sessions' = sessions, digests' = digests, pruned' = pruned,
         changes' = changes, faults' \in 0 .. MaxFaults,
         \A row \in nodes' : row[1] \in AllSessions
  PROVE  TablesInv' /\ DigestsInv'
  BY DEF Inv, TablesInv, DigestsInv

LEMMA GetSessionKeeps ==
  ASSUME Inv, NEW j \in Jobs, GetSession(j)
  PROVE  Inv'
<1>1. Typed /\ TablesInv /\ JobInv(j)
  BY InvIsTyped DEF Inv, JobsInv
<1>2. UNCHANGED <<tables, bounds>>
  BY DEF GetSession
<1>3. Advances(j)
  BY <1>1, GetSessionAdvances
<1>4. RowsInv' /\ JobsInv' /\ Descent'
  BY <1>2, <1>3, QuietKeeps DEF tables, bounds
<1>5. TablesInv' /\ DigestsInv'
  BY <1>1, <1>2, QuietTables DEF tables, bounds, TablesInv
<1> QED BY <1>4, <1>5 DEF Inv

LEMMA CopyNodesKeeps ==
  ASSUME Inv, NEW j \in Jobs, CopyNodes(j)
  PROVE  Inv'
<1>1. Typed /\ TablesInv /\ JobInv(j)
  BY InvIsTyped DEF Inv, JobsInv
<1>2. UNCHANGED <<sessions, parent, digests, bounds>>
  BY DEF CopyNodes
<1>3. Advances(j)
  BY <1>1, CopyNodesAdvances
<1>4. RowsInv' /\ JobsInv' /\ Descent'
  BY <1>2, <1>3, QuietKeeps DEF bounds
<1>5. \A row \in nodes' : row[1] \in AllSessions
  <2>1. \A row \in nodes' : row \in nodes \/ \E r \in nodes : row = <<j, r[2]>>
    BY DEF CopyNodes
  <2> QED BY <1>1, <2>1 DEF TablesInv, Jobs, AllSessions
<1>6. TablesInv' /\ DigestsInv'
  BY <1>1, <1>2, <1>5, QuietTables DEF bounds, TablesInv
<1> QED BY <1>4, <1>6 DEF Inv

LEMMA ListDigestsKeeps ==
  ASSUME Inv, NEW j \in Jobs, ListDigests(j)
  PROVE  Inv'
<1>1. Typed /\ TablesInv /\ JobInv(j)
  BY InvIsTyped DEF Inv, JobsInv
<1>2. UNCHANGED <<tables, bounds>>
  BY DEF ListDigests
<1>3. Advances(j)
  BY <1>1, ListDigestsAdvances
<1>4. RowsInv' /\ JobsInv' /\ Descent'
  BY <1>2, <1>3, QuietKeeps DEF tables, bounds
<1>5. TablesInv' /\ DigestsInv'
  BY <1>1, <1>2, QuietTables DEF tables, bounds, TablesInv
<1> QED BY <1>4, <1>5 DEF Inv

LEMMA AnswerKeeps ==
  ASSUME Inv, NEW j \in Jobs, Answer(j)
  PROVE  Inv'
<1>1. Typed /\ TablesInv /\ JobInv(j)
  BY InvIsTyped DEF Inv, JobsInv
<1>2. UNCHANGED <<tables, bounds>>
  BY DEF Answer
<1>3. Advances(j)
  BY <1>1, AnswerAdvances
<1>4. RowsInv' /\ JobsInv' /\ Descent'
  BY <1>2, <1>3, QuietKeeps DEF tables, bounds
<1>5. TablesInv' /\ DigestsInv'
  BY <1>1, <1>2, QuietTables DEF tables, bounds, TablesInv
<1> QED BY <1>4, <1>5 DEF Inv

LEMMA DropKeeps ==
  ASSUME Inv, NEW j \in Jobs, Drop(j)
  PROVE  Inv'
<1>1. Typed /\ TablesInv
  BY InvIsTyped DEF Inv
<1>2. UNCHANGED <<tables, bounds>>
  BY DEF Drop
<1>3. Advances(j)
  BY <1>1, DropAdvances
<1>4. RowsInv' /\ JobsInv' /\ Descent'
  BY <1>2, <1>3, QuietKeeps DEF tables, bounds
<1>5. TablesInv' /\ DigestsInv'
  BY <1>1, <1>2, QuietTables DEF tables, bounds, TablesInv
<1> QED BY <1>4, <1>5 DEF Inv

LEMMA FaultKeeps ==
  ASSUME Inv, NEW j \in Jobs, Fault(j)
  PROVE  Inv'
<1>1. Typed /\ TablesInv /\ JobInv(j)
  BY InvIsTyped DEF Inv, JobsInv
<1>2. UNCHANGED <<tables, clock, changes, pruned>> /\ faults' \in 0 .. MaxFaults
  BY <1>1 DEF Fault, TablesInv
<1>3. Advances(j)
  BY <1>1, FaultAdvances
<1>4. RowsInv' /\ JobsInv' /\ Descent'
  BY <1>2, <1>3, QuietKeeps DEF tables
<1>5. TablesInv' /\ DigestsInv'
  BY <1>1, <1>2, QuietTables DEF tables, TablesInv
<1> QED BY <1>4, <1>5 DEF Inv

(* The active leaf of a copy is one of its messages, there or not. *)
LEMMA OpeningIs ==
  ASSUME Typed, NEW j \in Jobs, JobInv(j)
  PROVE  Opening(job[j]) = NoMsg \/ Opening(job[j]) \in DOMAIN job[j].read
<1> DEFINE w == job[j]
           S == IF Alternatives(w) = {} THEN Range(ForkPath(w)) ELSE Alternatives(w)
<1>1. w.read \in Trees /\ Tree(w.read)
  BY DEF Typed, JobRows, JobInv, ReadIsTree
<1>2. CASE w.kind = "fork"
  <2>1. S \subseteq DOMAIN w.read
    BY <1>1, ForkPathIs DEF Alternatives
  <2>2. S \in SUBSET (0 .. Limit) /\ Limit \in Nat
    BY <1>1, <2>1, TreesAre
  <2>3. Newest(S) = NoMsg \/ Newest(S) \in S
    <3> HIDE DEF S
    <3> QED BY <2>2, NewestIs DEF NoMsg
  <2> QED BY <1>2, <2>1, <2>3 DEF Opening
<1>3. CASE w.kind # "fork"
  BY <1>3 DEF Opening
<1> QED BY <1>2, <1>3

LEMMA SetLeafKeeps ==
  ASSUME Inv, NEW j \in Jobs, SetLeaf(j)
  PROVE  Inv'
<1>1. Typed /\ TablesInv /\ JobInv(j) /\ DigestsInv
  BY InvIsTyped DEF Inv, JobsInv
<1>2. UNCHANGED <<parent, nodes, digests, bounds>> /\ DOMAIN sessions' = DOMAIN sessions
  BY DEF SetLeaf
<1>3. Advances(j)
  BY <1>1, SetLeafAdvances
<1>4. RowsInv' /\ JobsInv' /\ Descent'
  BY <1>2, <1>3, QuietKeeps DEF bounds
<1>5. Image(j, Opening(job[j])) \in Msgs /\ SessionOf(Image(j, Opening(job[j]))) = j
  <2>1. Opening(job[j]) \in DOMAIN job[j].read
    BY <1>1, OpeningIs DEF SetLeaf, JobInv, Stage
  <2> QED BY <1>1, <2>1, ImageIs DEF JobInv
<1>6. TablesInv'
  BY <1>1, <1>2, <1>5 DEF TablesInv, bounds, SetLeaf
<1>7. DigestsInv'
  BY <1>1, <1>2 DEF DigestsInv, bounds
<1> QED BY <1>4, <1>6, <1>7 DEF Inv

LEMMA CreateDigestKeeps ==
  ASSUME Inv, NEW j \in Jobs, CreateDigest(j)
  PROVE  Inv'
<1>1. Typed /\ TablesInv /\ JobInv(j) /\ DigestsInv
  BY InvIsTyped DEF Inv, JobsInv
<1>2. UNCHANGED <<sessions, parent, nodes, bounds>>
  BY DEF CreateDigest
<1>3. PICK c \in job[j].todo : digests' = digests \cup {[session |-> j, cutoff |-> Image(j, c)]}
  BY DEF CreateDigest
<1>4. Full(job[j]) /\ ~Early(job[j])
  BY DEF CreateDigest, Full, Early
<1> DEFINE new == [session |-> j, cutoff |-> Image(j, c)]
<1>5. new.session = j /\ new.cutoff = Image(j, c)
  OBVIOUS
<1>6. c \in Copied(j) /\ j \in AllSessions
  BY DEF JobInv, Jobs, AllSessions, Inv, JobsInv
<1>7. Image(j, c) \in Msgs /\ SessionOf(Image(j, c)) = j
  BY <1>1, <1>6, ImageIs DEF JobInv
<1>8. j \in DOMAIN sessions \ pruned => Image(j, c) \in DOMAIN parent
  BY <1>1, <1>4, <1>6 DEF JobInv, Present
<1>9. digests' = digests \cup {new}
  BY <1>3
<1> HIDE DEF new
<1>10. Advances(j)
  BY <1>1, CreateDigestAdvances
<1>11. \A d \in digests' : d \in digests \/ (d.session = j /\ ~Early(job[j]))
  BY <1>4, <1>5, <1>9
<1>12. RowsInv' /\ JobsInv' /\ Descent'
  BY <1>2, <1>10, <1>11, QuietKeeps DEF bounds
<1>13. TablesInv'
  BY <1>1, <1>2 DEF TablesInv, bounds
<1>14. DigestsInv'
  BY <1>1, <1>2, <1>5, <1>6, <1>7, <1>8, <1>9 DEF DigestsInv, bounds
<1> QED BY <1>12, <1>13, <1>14 DEF Inv

(* Where requests other than j stand still. *)
LEMMA OthersKeep ==
  ASSUME Typed, JobsInv, Typed', NEW j \in Jobs, Unmoved(j),
         \A i \in Jobs : i # j => Calm(i), JobInv(j)',
         \A i \in Jobs : i # j => (Early(job[i]) => job'[j].src # i),
         Early(job'[j]) => Early(job[j]) /\ job'[j].src # j
  PROVE  JobsInv'
<1>1. \A i \in Jobs : Later(job[i], job[i])
  BY Itself DEF JobsInv
<1>2. ASSUME NEW i \in Jobs, i # j PROVE JobInv(i)'
  <2>1. job'[i] = job[i]
    BY <1>2 DEF Unmoved
  <2> QED BY <1>1, <1>2, <2>1, JobKeeps DEF JobsInv
<1>3. SourcesInv'
  BY DEF SourcesInv, JobsInv, Unmoved
<1> QED BY <1>2, <1>3 DEF JobsInv, Typed

LEMMA RequestKeeps ==
  ASSUME Inv, NEW j \in Jobs, Request(j)
  PROVE  Inv'
<1>1. Typed /\ RowsInv /\ TablesInv /\ JobsInv /\ JobInv(j) /\ DigestsInv
  BY InvIsTyped DEF Inv, JobsInv
<1>2. UNCHANGED <<tables, bounds>> /\ job[j].pc = "idle"
  BY DEF Request
<1>3. PICK kind \in Kinds, src \in DOMAIN sessions :
        \E target \in IF kind = "fork" THEN DOMAIN Listed(src) ELSE {NoMsg} :
          job' = [job EXCEPT ![j] = [IdleJob EXCEPT !.pc = "session", !.kind = kind,
                                                    !.src = src, !.target = target]]
  BY DEF Request
<1>4. PICK target \in IF kind = "fork" THEN DOMAIN Listed(src) ELSE {NoMsg} :
          job' = [job EXCEPT ![j] = [IdleJob EXCEPT !.pc = "session", !.kind = kind,
                                                    !.src = src, !.target = target]]
  BY <1>3
<1> DEFINE v == [IdleJob EXCEPT !.pc = "session", !.kind = kind, !.src = src, !.target = target]
<1>5. target \in Nat
  <2>1. DOMAIN Listed(src) \subseteq Nat
    BY <1>1, ListedIs DEF Tree
  <2> QED BY <2>1 DEF NoMsg
<1>6. v \in JobRows
  BY <1>1, <1>5, IdleJobIs DEF JobRows, PCs, TablesInv
<1>7. v.pc = "session" /\ v.src = src /\ v.read = NoTree /\ v.todo = {}
  BY IdleJobIs DEF JobRows
<1>8. To(j, v)
  BY <1>4, <1>6 DEF To
<1> HIDE DEF v
<1>9. Typed' /\ job'[j] = v /\ Unmoved(j)
  BY <1>1, <1>2, <1>8, ToIs DEF bounds, Typed
<1>10. \A i \in Jobs : Calm(i)
  BY <1>1, <1>2, CalmIf DEF tables, bounds
<1>11. Early(job[j]) /\ Early(v) /\ ~Empty(v) /\ ~Full(v) /\ Stage(v)
  BY <1>2, <1>7 DEF Early, Empty, Full, Stage
<1>12. Copied(j)' = {}
  BY <1>7, <1>9, NoBatch DEF Copied
<1>13. JobInv(j)'
  <2>1. Unborn(j)'
    BY <1>10, <1>11 DEF Calm
  <2>2. ReadIsTree(v)'
    BY <1>7, NoTreeIs DEF ReadIsTree
  <2> QED BY <1>7, <1>9, <1>11, <1>12, <2>1, <2>2 DEF JobInv, Mirrors, ReadIsTree
<1>14. \A i \in Jobs : Early(job[i]) => src # i
  BY <1>1 DEF JobsInv, JobInv, Unborn
<1>15. JobsInv'
  BY <1>1, <1>7, <1>9, <1>10, <1>11, <1>13, <1>14, OthersKeep
<1>16. PICK home, rank, born : Line(home, rank, born)
  BY DEF Inv, Descent
<1>17. \A i \in Jobs : LineOf(i, home, rank)'
  <2>1. LineOf(j, home, rank)'
    BY <1>2, <1>9, <1>11, <1>16 DEF LineOf, Line, tables, bounds
  <2>2. \A i \in Jobs : i # j => LineOf(i, home, rank)'
    BY <1>2, <1>9, <1>16 DEF LineOf, Line, tables, bounds, Unmoved
  <2> QED BY <2>1, <2>2
<1>18. Line(home, rank, born)'
  BY <1>2, <1>16, <1>17 DEF Line, tables
<1>19. Descent'
  BY <1>18 DEF Descent
<1>20. RowsInv'
  BY <1>1, <1>2 DEF RowsInv, tables, bounds
<1>21. TablesInv' /\ DigestsInv'
  BY <1>1, <1>2, QuietTables DEF tables, bounds, TablesInv
<1> QED BY <1>15, <1>19, <1>20, <1>21 DEF Inv

(* What a duplicate reads was written in older sessions, and nothing that  *)
(* was written in the copy by then has the same age.                       *)
LEMMA SourceIsOlder ==
  ASSUME RowsInv, NEW home, NEW rank, NEW born, Line(home, rank, born),
         NEW j \in Jobs, job[j].src \in AllSessions, Empty(job[j]),
         NEW m \in DOMAIN parent, SessionOf(m) = job[j].src
  PROVE  /\ rank[home[CreatedAt(m)]] < rank[j]
         /\ \A n \in DOMAIN parent : SessionOf(n) = j => CreatedAt(m) # CreatedAt(n)
<1> DEFINE k == CreatedAt(m)
           s == job[j].src
<1>1. k \in 1 .. MaxMsg /\ j \in AllSessions
  BY DEF RowsInv, Msgs, Jobs, AllSessions
<1>2. home[k] \in AllSessions /\ rank[home[k]] \in Nat /\ rank[j] \in Nat /\ rank[s] \in Nat
  BY <1>1 DEF Line
<1>3. rank[s] < rank[j] /\ \A n \in DOMAIN parent : SessionOf(n) = j => home[CreatedAt(n)] = j
  BY DEF Line, LineOf
<1>4. home[k] = s \/ rank[home[k]] < rank[s]
  BY DEF Line
<1>5. rank[home[k]] < rank[j]
  BY <1>2, <1>3, <1>4
<1>6. ASSUME NEW n \in DOMAIN parent, SessionOf(n) = j, CreatedAt(n) = k PROVE FALSE
  BY <1>2, <1>3, <1>5, <1>6
<1> QED BY <1>5, <1>6

LEMMA ListMessagesKeeps ==
  ASSUME Inv, NEW j \in Jobs, ListMessages(j)
  PROVE  Inv'
<1>1. Typed /\ RowsInv /\ TablesInv /\ JobsInv /\ JobInv(j) /\ DigestsInv
  BY InvIsTyped DEF Inv, JobsInv
<1>2. UNCHANGED <<tables, bounds>> /\ job[j].pc = "list"
  BY DEF ListMessages
<1> DEFINE t == Listed(job[j].src)
           w == [job[j] EXCEPT !.read = t]
<1>3. /\ t \in Trees /\ Tree(t) /\ DOMAIN t = {m \in DOMAIN parent : SessionOf(m) = job[j].src}
      /\ \A m \in DOMAIN t : t[m].parent = parent[m]
  BY <1>1, ListedIs
<1>4. job' = [job EXCEPT ![j] = IF AfterList(w) = "failed" THEN Remains(w, "failed")
                                ELSE [w EXCEPT !.pc = AfterList(w)]]
  BY DEF ListMessages
<1> HIDE DEF t
<1>5. /\ w \in JobRows /\ w.pc = "list" /\ w.read = t /\ w.kind = job[j].kind
      /\ w.src = job[j].src /\ w.todo = job[j].todo
  BY <1>1, <1>2, <1>3 DEF Typed, JobRows
<1> HIDE DEF w
<1>6. TablesInv' /\ DigestsInv'
  BY <1>1, <1>2, QuietTables DEF tables, bounds, TablesInv
<1>7. CASE AfterList(w) = "failed"
  <2> DEFINE v == Remains(w, "failed")
  <2>1. v \in JobRows /\ v.pc = "failed" /\ v.todo = {} /\ v.src \in {0, job[j].src}
    BY <1>5, RemainsIs DEF Ended
  <2>2. v.read = NoTree
    BY <1>5, IdleJobIs DEF Remains, HasCopied, JobRows
  <2>3. To(j, v)
    BY <1>4, <1>7, <2>1 DEF To
  <2>4. Later(job[j], v)
    <3> HIDE DEF v
    <3> QED BY <2>1, <2>2 DEF Later, Early, Empty, Full, Stage
  <2>5. Advances(j)
    BY <2>3, <2>4 DEF Advances
  <2>6. RowsInv' /\ JobsInv' /\ Descent'
    BY <1>2, <2>5, QuietKeeps DEF tables, bounds
  <2> QED BY <1>6, <2>6 DEF Inv
<1>8. CASE AfterList(w) # "failed"
  <2> DEFINE pc == AfterList(w)
             v == [w EXCEPT !.pc = pc]
  <2>1. /\ w.kind = "duplicate" => pc = "insert"
        /\ w.kind # "duplicate" => pc = "create"
        /\ w.kind \in AllKinds
    BY <1>5, <1>8 DEF AfterList, JobRows, AllKinds
  <2> HIDE DEF pc
  <2>2. /\ v \in JobRows /\ v.pc = pc /\ v.read = t /\ v.kind = job[j].kind
        /\ v.src = job[j].src /\ v.todo = job[j].todo
    BY <1>5, <2>1 DEF JobRows, PCs
  <2>3. To(j, v)
    BY <1>4, <1>8, <2>2 DEF To, pc
  <2> HIDE DEF v
  <2>4. Typed' /\ job'[j] = v /\ Unmoved(j)
    BY <1>1, <1>2, <2>3, ToIs DEF bounds, Typed
  <2>5. \A i \in Jobs : Calm(i)
    BY <1>1, <1>2, CalmIf DEF tables, bounds
  <2>6. /\ job[j].kind # "duplicate" => Early(job[j]) /\ Early(v) /\ ~Empty(v)
        /\ job[j].kind = "duplicate" => Empty(job[j]) /\ Empty(v) /\ ~Early(v)
        /\ ~Full(v) /\ Stage(v)
    BY <1>1, <1>2, <1>5, <2>1, <2>2 DEF Early, Empty, Full, Stage, JobInv
  <2>7. ReadIsTree(v)
    BY <1>1, <1>3, <2>2 DEF ReadIsTree, RowsInv
  <2>8. ReadIsTree(job[j])'
    BY <1>2, <2>4, <2>7 DEF ReadIsTree, bounds
  <2>9. PICK home, rank, born : Line(home, rank, born)
    BY DEF Inv, Descent
  <2>10. job[j].src \in AllSessions
    BY <1>1 DEF Typed, JobRows
  <2>11. ASSUME NEW m \in DOMAIN t PROVE Id(j, CreatedAt(m)) \notin DOMAIN parent
    <3>1. m \in DOMAIN parent /\ SessionOf(m) = job[j].src /\ m \in Msgs
      BY <1>1, <1>3, <2>11 DEF RowsInv
    <3>2. SessionOf(Id(j, CreatedAt(m))) = j /\ CreatedAt(Id(j, CreatedAt(m))) = CreatedAt(m)
      BY <3>1, MsgIs, IdIsMsg DEF Jobs, AllSessions
    <3>3. CASE job[j].kind = "duplicate"
      BY <1>1, <2>6, <2>9, <2>10, <3>1, <3>2, <3>3, SourceIsOlder
    <3>4. CASE job[j].kind # "duplicate"
      BY <1>1, <2>6, <3>2, <3>4 DEF JobInv, Unborn
    <3> QED BY <3>3, <3>4
  <2>12. Copied(j)' \subseteq DOMAIN t
    BY <2>2, <2>4, <2>8, ImageIs, BatchIs, <1>3 DEF Copied
  <2>13. \A m \in Copied(j)' : Image(j, m) \notin DOMAIN parent'
    BY <1>2, <2>11, <2>12 DEF Image, tables
  <2>14. v.todo \subseteq Copied(j)'
    BY <1>1, <1>2, <2>2 DEF JobInv, Stage
  <2>15. JobInv(j)'
    <3>1. Early(job'[j]) => Unborn(j)'
      BY <2>4, <2>5, <2>6 DEF Calm
    <3>2. Mirrors(j)'
      BY <2>13 DEF Mirrors, Image
    <3> QED BY <2>4, <2>6, <2>8, <2>14, <3>1, <3>2 DEF JobInv
  <2>16. \A i \in Jobs : Early(job[i]) => job[j].src # i
    BY <1>1 DEF JobsInv, SourcesInv
  <2>17. JobsInv'
    BY <1>1, <2>2, <2>4, <2>5, <2>6, <2>15, <2>16, OthersKeep
  <2>18. LineOf(j, home, rank)'
    <3>1. CASE job[j].kind = "duplicate"
      <4>1. \A m \in DOMAIN t : rank[home[CreatedAt(m)]] < rank[j]
        BY <1>1, <1>3, <2>6, <2>9, <2>10, <3>1, SourceIsOlder
      <4> QED BY <1>2, <2>2, <2>4, <2>6, <2>9, <3>1, <4>1 DEF LineOf, Line, tables
    <3>2. CASE job[j].kind # "duplicate"
      BY <1>2, <2>4, <2>6, <2>9, <3>2 DEF LineOf, Line, bounds
    <3> QED BY <3>1, <3>2
  <2>19. \A i \in Jobs : i # j => LineOf(i, home, rank)'
    BY <1>2, <2>4, <2>9 DEF LineOf, Line, tables, bounds, Unmoved
  <2>20. Line(home, rank, born)'
    BY <1>2, <2>9, <2>18, <2>19 DEF Line, tables
  <2>21. Descent'
    BY <2>20 DEF Descent
  <2>22. RowsInv'
    BY <1>1, <1>2 DEF RowsInv, tables, bounds
  <2> QED BY <1>6, <2>17, <2>21, <2>22 DEF Inv
<1> QED BY <1>7, <1>8

LEMMA CreateSessionKeeps ==
  ASSUME Inv, NEW j \in Jobs, CreateSession(j)
  PROVE  Inv'
<1>1. Typed /\ RowsInv /\ TablesInv /\ JobsInv /\ JobInv(j) /\ DigestsInv
  BY InvIsTyped DEF Inv, JobsInv
<1>2. UNCHANGED <<parent, nodes, digests, bounds>> /\ job[j].pc = "create"
  BY DEF CreateSession
<1>3. /\ DOMAIN sessions' = DOMAIN sessions \cup {j} /\ sessions'[j] = NoMsg
      /\ \A s \in DOMAIN sessions : s # j => sessions'[s] = sessions[s]
  BY DEF CreateSession
<1>4. Early(job[j]) /\ Unborn(j) /\ j \in AllSessions
  BY <1>1, <1>2 DEF Early, JobInv, Jobs, AllSessions
<1> DEFINE pc == IF job[j].kind = "import" THEN "insert" ELSE "nodes"
           v == [job[j] EXCEPT !.pc = pc]
<1>5. pc \in {"insert", "nodes"} /\ pc \in PCs \ Ended
  BY DEF PCs, Ended
<1>6. Proceed(j, pc)
  BY <1>5 DEF CreateSession, Goto
<1>7. /\ v \in JobRows /\ v.pc = pc /\ v.read = job[j].read /\ v.kind = job[j].kind
      /\ v.target = job[j].target /\ v.src = job[j].src /\ v.todo = job[j].todo
  BY <1>1, <1>5 DEF Typed, JobRows
<1>8. To(j, v)
  BY <1>1, <1>6, <1>7 DEF To, Proceed, Typed
<1>9. ~Early(v) /\ Empty(v) /\ ~Full(v) /\ v.todo = {} /\ Stage(v)
  BY <1>1, <1>2, <1>5, <1>7 DEF Early, Empty, Full, Stage, JobInv
<1> HIDE DEF v, pc
<1>10. Typed' /\ job'[j] = v /\ Unmoved(j)
  BY <1>1, <1>2, <1>8, ToIs DEF bounds, Typed
<1>11. ASSUME NEW i \in Jobs, i # j PROVE Calm(i)
  <2>1. Early(job[i]) => Unborn(i)'
    BY <1>1, <1>2, <1>3, <1>11 DEF JobsInv, JobInv, Unborn
  <2>2. clock \in Nat
    BY <1>1 DEF Typed
  <2> QED BY <1>2, <1>3, <1>11, <2>1, <2>2 DEF Calm, bounds
<1>12. JobInv(j)'
  <2>1. Copied(j)' = Copied(j)
    BY <1>7, <1>10, SameBatch DEF Copied
  <2>2. \A m : NewParent(j, m)' = NewParent(j, m)
    BY <1>7, <1>10, <2>1 DEF NewParent, Image
  <2>3. Mirrors(j)'
    BY <1>1, <1>2, <2>1, <2>2 DEF JobInv, Mirrors, Image
  <2>4. ReadIsTree(job[j])'
    BY <1>1, <1>2, <1>7, <1>10 DEF JobInv, ReadIsTree, bounds
  <2> QED BY <1>9, <1>10, <2>3, <2>4 DEF JobInv
<1>13. \A i \in Jobs : Early(job[i]) => v.src # i
  BY <1>1, <1>7 DEF JobsInv, SourcesInv
<1>14. JobsInv'
  BY <1>1, <1>9, <1>10, <1>11, <1>12, <1>13, OthersKeep
<1>15. PICK home, rank, born : Line(home, rank, born)
  BY DEF Inv, Descent
<1> DEFINE next == [rank EXCEPT ![j] = born]
<1>16. /\ next \in [AllSessions -> Nat] /\ next[j] = born /\ born + 1 \in Nat
       /\ \A s \in AllSessions : s # j => next[s] = rank[s]
       /\ \A s \in AllSessions : next[s] < born + 1
  BY <1>4, <1>15 DEF Line
<1>17. \A k \in 1 .. clock - 1 : k \in 1 .. MaxMsg /\ home[k] \in AllSessions /\ home[k] # j
  BY <1>1, <1>4, <1>15 DEF Line, LineOf, RowsInv
<1>18. \A s \in AllSessions : rank[s] < born
  BY <1>15 DEF Line
<1> HIDE DEF next
<1>19. ASSUME NEW m \in DOMAIN parent
       PROVE  home[CreatedAt(m)] = SessionOf(m) \/ next[home[CreatedAt(m)]] < next[SessionOf(m)]
  <2>1. CreatedAt(m) \in 1 .. clock - 1 /\ SessionOf(m) \in AllSessions /\ SessionOf(m) # j
    BY <1>1, <1>4 DEF RowsInv, Msgs, Unborn
  <2>2. home[CreatedAt(m)] = SessionOf(m) \/ rank[home[CreatedAt(m)]] < rank[SessionOf(m)]
    BY <1>15 DEF Line
  <2> QED BY <1>16, <1>17, <2>1, <2>2
<1>20. ASSUME NEW i \in Jobs, NEW m \in DOMAIN job[i].read
       PROVE  CreatedAt(m) \in 1 .. clock - 1
  <2>1. CreatedAt(m) < clock /\ m \in Msgs
    BY <1>1, ImageIs DEF JobsInv, JobInv
  <2> QED BY <1>1, <2>1, MsgIs DEF RowsInv
<1>21. LineOf(j, home, next)'
  <2>1. next[job[j].src] < next[j]
    <3>1. job[j].src # j /\ job[j].src \in AllSessions
      BY <1>1, <1>4 DEF JobsInv, SourcesInv, Typed, JobRows
    <3> QED BY <1>16, <1>18, <3>1
  <2>2. \A m \in DOMAIN job[j].read : next[home[CreatedAt(m)]] < next[j]
    BY <1>16, <1>17, <1>18, <1>20
  <2> QED BY <1>2, <1>4, <1>7, <1>9, <1>10, <2>1, <2>2 DEF LineOf, Unborn
<1>22. ASSUME NEW i \in Jobs, i # j PROVE LineOf(i, home, next)'
  <2>1. job'[i] = job[i] /\ LineOf(i, home, rank) /\ i \in AllSessions
    BY <1>10, <1>15, <1>22 DEF Unmoved, Line, Jobs, AllSessions
  <2>2. Empty(job[i]) => next[job[i].src] < next[i]
    <3>1. job[i].src # j /\ job[i].src \in AllSessions
      BY <1>1, <1>4 DEF JobsInv, SourcesInv, Typed, JobRows
    <3> QED BY <1>16, <1>22, <2>1, <3>1 DEF LineOf
  <2>3. Empty(job[i]) => \A m \in DOMAIN job[i].read : next[home[CreatedAt(m)]] < next[i]
    BY <1>16, <1>17, <1>20, <1>22, <2>1 DEF LineOf
  <2> QED BY <1>2, <2>1, <2>2, <2>3 DEF LineOf, bounds
<1>23. Line(home, next, born + 1)'
  BY <1>2, <1>15, <1>16, <1>19, <1>21, <1>22 DEF Line
<1>24. Descent'
  BY <1>23 DEF Descent
<1>25. RowsInv'
  BY <1>1, <1>2 DEF RowsInv, bounds
<1>26. TablesInv'
  BY <1>1, <1>2, <1>3, <1>4 DEF TablesInv, bounds
<1>27. DigestsInv'
  BY <1>1, <1>2, <1>3, <1>4 DEF DigestsInv, bounds, Unborn
<1> QED BY <1>14, <1>24, <1>25, <1>26, <1>27 DEF Inv

(* Where an insert puts the copies. *)
LEMMA InsertedRows ==
  ASSUME Typed, RowsInv, NEW j \in Jobs, JobInv(j),
         parent' = With([m \in {Image(j, k) : k \in Copied(j)} |->
                           NewParent(j, Id(job[j].src, CreatedAt(m)))])
  PROVE  /\ DOMAIN parent' = DOMAIN parent \cup {Image(j, k) : k \in Copied(j)}
         /\ \A k \in Copied(j) : parent'[Image(j, k)] = NewParent(j, k)
         /\ \A m \in DOMAIN parent : SessionOf(m) # j => parent'[m] = parent[m]
         /\ \A m \in DOMAIN parent : \/ parent'[m] = parent[m]
                                     \/ \E k \in Copied(j) : m = Image(j, k)
<1> DEFINE I == {Image(j, k) : k \in Copied(j)}
           new == [m \in I |-> NewParent(j, Id(job[j].src, CreatedAt(m)))]
<1>1. DOMAIN new = I /\ \A m \in I : new[m] = NewParent(j, Id(job[j].src, CreatedAt(m)))
  OBVIOUS
<1>2. /\ DOMAIN parent' = I \cup DOMAIN parent
      /\ \A m \in I : parent'[m] = new[m]
      /\ \A m \in DOMAIN parent : m \notin I => parent'[m] = parent[m]
  <2> HIDE DEF new
  <2> QED BY <1>1 DEF With
<1>3. \A k \in Copied(j) : /\ Id(job[j].src, CreatedAt(Image(j, k))) = k
                           /\ SessionOf(Image(j, k)) = j
  BY ImageIs DEF JobInv
<1>4. \A k \in Copied(j) : new[Image(j, k)] = NewParent(j, k)
  BY <1>1, <1>3
<1> HIDE DEF new
<1> QED BY <1>2, <1>3, <1>4

LEMMA InsertedIsTree ==
  ASSUME Typed, NEW j \in Jobs, JobInv(j), NEW k \in Copied(j)
  PROVE  \/ NewParent(j, k) = NoMsg /\ job[j].read[k].parent = NoMsg
         \/ \E p \in Copied(j) : /\ p = job[j].read[k].parent /\ p < k
                                 /\ Earlier(job[j], p, k)
                                 /\ NewParent(j, k) = Image(j, p)
                                 /\ SessionOf(Image(j, p)) = SessionOf(Image(j, k))
                                 /\ CreatedAt(Image(j, p)) < CreatedAt(Image(j, k))
<1> DEFINE w == job[j]
           p == w.read[k].parent
<1>1. w.read \in Trees /\ Tree(w.read) /\ ReadIsTree(w)
  BY DEF Typed, JobRows, JobInv, ReadIsTree
<1>2. p = NoMsg \/ (p \in Copied(j) /\ p < k /\ Earlier(w, p, k))
  BY <1>1, BatchIs DEF Copied
<1>3. CASE p \in Copied(j) /\ p < k /\ Earlier(w, p, k)
  <2>1. p \in DOMAIN w.read /\ k \in DOMAIN w.read
    BY <1>1, <1>3, ImageIs
  <2>2. CreatedAt(p) < CreatedAt(k)
    <3>1. p \in Nat /\ k \in Nat /\ SessionOf(p) = SessionOf(k)
      BY <1>1, <2>1 DEF Tree, ReadIsTree
    <3> QED BY <1>3, <3>1, IdsAge
  <2>3. NewParent(j, k) = Image(j, p)
    BY <1>3 DEF NewParent
  <2>4. /\ SessionOf(Image(j, p)) = j /\ SessionOf(Image(j, k)) = j
        /\ CreatedAt(Image(j, p)) = CreatedAt(p) /\ CreatedAt(Image(j, k)) = CreatedAt(k)
    BY <1>1, <2>1, ImageIs
  <2> QED BY <1>3, <2>2, <2>3, <2>4
<1>4. CASE p = NoMsg
  <2>1. NoMsg \notin Copied(j)
    BY <1>1, ImageIs, MsgIs DEF NoMsg
  <2> QED BY <1>4, <2>1 DEF NewParent
<1> QED BY <1>2, <1>3, <1>4

LEMMA InsertedKeeps ==
  ASSUME Inv, NEW j \in Jobs, InsertMessages(j), Insertable(j),
         parent' = With([m \in {Image(j, k) : k \in Copied(j)} |->
                           NewParent(j, Id(job[j].src, CreatedAt(m)))]),
         Goto(j, IF Opening(job[j]) = NoMsg THEN "answered" ELSE "leaf")
  PROVE  Inv'
<1>1. Typed /\ RowsInv /\ TablesInv /\ JobsInv /\ JobInv(j) /\ DigestsInv
  BY InvIsTyped DEF Inv, JobsInv
<1>2. UNCHANGED <<sessions, nodes, digests, bounds>> /\ job[j].pc = "insert"
  BY DEF InsertMessages
<1> DEFINE I == {Image(j, k) : k \in Copied(j)}
<1>3. /\ DOMAIN parent' = DOMAIN parent \cup I
      /\ \A k \in Copied(j) : parent'[Image(j, k)] = NewParent(j, k)
      /\ \A m \in DOMAIN parent : SessionOf(m) # j => parent'[m] = parent[m]
      /\ \A m \in DOMAIN parent : parent'[m] = parent[m] \/ m \in I
  BY <1>1, InsertedRows
<1>4. \A k \in Copied(j) :
        /\ k \in DOMAIN job[j].read /\ Image(j, k) \in Msgs /\ SessionOf(Image(j, k)) = j
        /\ CreatedAt(Image(j, k)) = CreatedAt(k) /\ CreatedAt(k) < clock
  BY <1>1, ImageIs DEF JobInv
<1>5. \A m \in I : m \in Msgs /\ SessionOf(m) = j /\ CreatedAt(m) < clock
  BY <1>4
<1>6. RowsInv'
  <2>1. ASSUME NEW m \in I
        PROVE  \/ parent'[m] = NoMsg
               \/ /\ parent'[m] \in DOMAIN parent'
                  /\ SessionOf(parent'[m]) = SessionOf(m)
                  /\ CreatedAt(parent'[m]) < CreatedAt(m)
    <3>1. PICK k \in Copied(j) : m = Image(j, k)
      OBVIOUS
    <3> QED BY <1>1, <1>3, <3>1, InsertedIsTree
  <2>2. ASSUME NEW m \in DOMAIN parent, m \notin I
        PROVE  \/ parent'[m] = NoMsg
               \/ /\ parent'[m] \in DOMAIN parent'
                  /\ SessionOf(parent'[m]) = SessionOf(m)
                  /\ CreatedAt(parent'[m]) < CreatedAt(m)
    BY <1>1, <1>3, <2>2 DEF RowsInv
  <2> QED BY <1>1, <1>2, <1>3, <1>5, <2>1, <2>2 DEF RowsInv, bounds
<1>7. TablesInv'
  BY <1>1, <1>2 DEF TablesInv, bounds
<1>8. DigestsInv'
  BY <1>1, <1>2, <1>3 DEF DigestsInv, bounds
<1>9. \E v : /\ To(j, v) /\ ~Early(v) /\ ~Empty(v) /\ v.todo = {} /\ v.read = job[j].read
             /\ v.kind = job[j].kind /\ v.target = job[j].target /\ v.src = job[j].src
             /\ Stage(v)
  <2>1. CASE Opening(job[j]) = NoMsg
    <3> DEFINE v == Remains(job[j], "answered")
    <3>1. To(j, v)
      BY <1>1, <2>1, RemainsIs DEF Goto, End, To, Ended, Typed
    <3>2. /\ v.pc = "answered" /\ v.todo = {} /\ v.read = job[j].read
          /\ v.kind = job[j].kind /\ v.target = job[j].target /\ v.src = job[j].src
      BY <1>1, <1>2, IdleJobIs DEF Remains, HasCopied, JobRows
    <3> HIDE DEF v
    <3> QED BY <3>1, <3>2 DEF Early, Empty, Stage
  <2>2. CASE Opening(job[j]) # NoMsg
    <3> DEFINE v == [job[j] EXCEPT !.pc = "leaf"]
    <3>1. /\ v \in JobRows /\ v.pc = "leaf" /\ v.todo = job[j].todo /\ v.read = job[j].read
          /\ v.kind = job[j].kind /\ v.target = job[j].target /\ v.src = job[j].src
          /\ v.leaf = job[j].leaf
      BY <1>1 DEF Typed, JobRows, PCs
    <3>2. To(j, v)
      BY <1>1, <2>2, <3>1 DEF Goto, Proceed, To, Ended, Typed
    <3> HIDE DEF v
    <3>3. Opening(v) = Opening(job[j])
      <4>1. ForkPath(v) = ForkPath(job[j])
        BY <3>1 DEF ForkPath
      <4>2. Alternatives(v) = Alternatives(job[j])
        BY <3>1, <4>1 DEF Alternatives
      <4> QED BY <3>1, <4>1, <4>2 DEF Opening
    <3> QED BY <1>1, <1>2, <2>2, <3>1, <3>2, <3>3 DEF Early, Empty, Stage, JobInv
  <2> QED BY <2>1, <2>2
<1>10. PICK v : /\ To(j, v) /\ ~Early(v) /\ ~Empty(v) /\ v.todo = {} /\ v.read = job[j].read
                /\ v.kind = job[j].kind /\ v.target = job[j].target /\ v.src = job[j].src
                /\ Stage(v)
  BY <1>9
<1>11. Typed' /\ job'[j] = v /\ Unmoved(j)
  BY <1>1, <1>2, <1>10, ToIs DEF bounds, Typed
<1>12. ASSUME NEW i \in Jobs, i # j PROVE Calm(i)
  <2>1. Early(job[i]) => Unborn(i)'
    BY <1>1, <1>2, <1>3, <1>5, <1>12 DEF JobsInv, JobInv, Unborn
  <2>2. clock \in Nat
    BY <1>1 DEF Typed
  <2>3. \A m \in DOMAIN parent' : SessionOf(m) = i => m \in DOMAIN parent /\ parent'[m] = parent[m]
    BY <1>3, <1>5, <1>12
  <2> QED BY <1>2, <1>3, <2>1, <2>2, <2>3 DEF Calm, bounds
<1>13. JobInv(j)'
  <2>1. Copied(j)' = Copied(j)
    BY <1>10, <1>11, SameBatch DEF Copied
  <2>2. \A m : NewParent(j, m)' = NewParent(j, m)
    BY <1>10, <1>11, <2>1 DEF NewParent, Image
  <2>3. Mirrors(j)' /\ Present(j)'
    BY <1>3, <2>1, <2>2 DEF Mirrors, Present, Image
  <2>4. ReadIsTree(job[j])'
    BY <1>1, <1>2, <1>10, <1>11 DEF JobInv, ReadIsTree, bounds
  <2> QED BY <1>10, <1>11, <2>3, <2>4 DEF JobInv
<1>14. \A i \in Jobs : Early(job[i]) => v.src # i
  BY <1>1, <1>10 DEF JobsInv, SourcesInv
<1>15. JobsInv'
  BY <1>1, <1>10, <1>11, <1>12, <1>13, <1>14, OthersKeep
<1>16. PICK home, rank, born : Line(home, rank, born)
  BY DEF Inv, Descent
<1>17. Empty(job[j])
  BY <1>2 DEF Empty
<1>18. ASSUME NEW m \in DOMAIN parent'
       PROVE  home[CreatedAt(m)] = SessionOf(m) \/ rank[home[CreatedAt(m)]] < rank[SessionOf(m)]
  <2>1. CASE m \in DOMAIN parent
    BY <1>16, <2>1 DEF Line
  <2>2. CASE m \in I
    <3>1. PICK k \in Copied(j) : m = Image(j, k)
      BY <2>2
    <3>2. rank[home[CreatedAt(k)]] < rank[j]
      BY <1>4, <1>16, <1>17, <3>1 DEF Line, LineOf
    <3> QED BY <1>4, <3>1, <3>2
  <2> QED BY <1>3, <2>1, <2>2
<1>19. LineOf(j, home, rank)'
  BY <1>10, <1>11 DEF LineOf
<1>20. ASSUME NEW i \in Jobs, i # j PROVE LineOf(i, home, rank)'
  <2>1. job'[i] = job[i] /\ LineOf(i, home, rank)
    BY <1>11, <1>16, <1>20 DEF Unmoved, Line
  <2>2. \A m \in DOMAIN parent' : SessionOf(m) = i => m \in DOMAIN parent
    BY <1>3, <1>5, <1>20
  <2> QED BY <1>2, <2>1, <2>2 DEF LineOf, bounds
<1>21. Line(home, rank, born)'
  BY <1>16, <1>18, <1>19, <1>20 DEF Line
<1>22. Descent'
  BY <1>21 DEF Descent
<1> QED BY <1>6, <1>7, <1>8, <1>15, <1>22 DEF Inv

LEMMA InsertMessagesKeeps ==
  ASSUME Inv, NEW j \in Jobs, InsertMessages(j)
  PROVE  Inv'
<1>1. Typed /\ TablesInv
  BY InvIsTyped DEF Inv
<1>2. UNCHANGED <<sessions, nodes, digests, bounds>>
  BY DEF InsertMessages
<1>3. CASE Goto(j, "failed") /\ parent' = parent
  <2>1. Advances(j)
    BY <1>1, <1>3, FailAdvances
  <2>2. RowsInv' /\ JobsInv' /\ Descent'
    BY <1>2, <1>3, <2>1, QuietKeeps DEF bounds
  <2>3. TablesInv' /\ DigestsInv'
    BY <1>1, <1>2, <1>3, QuietTables DEF bounds, TablesInv
  <2> QED BY <2>2, <2>3 DEF Inv
<1> QED BY <1>3, InsertedKeeps DEF InsertMessages

-----------------------------------------------------------------------------
(* Clients. *)

LEMMA ChangeIs ==
  ASSUME Inv, Change
  PROVE  job' = job /\ changes' \in 0 .. MaxChanges /\ faults' \in 0 .. MaxFaults
  BY DEF Inv, TablesInv, Change

(* A step of a client, seen from the requests. *)
LEMMA ClientKeeps ==
  ASSUME Inv, Change, clock' = clock, DOMAIN parent' \subseteq DOMAIN parent,
         \A i \in Jobs : Calm(i)
  PROVE  JobsInv' /\ Descent'
<1>1. Typed /\ JobsInv /\ clock' \in Nat /\ job' = job
  BY InvIsTyped, ChangeIs DEF Inv, Typed
<1>2. Typed' /\ \A i \in Jobs : Later(job[i], job'[i])
  BY <1>1, NoneMoves
<1>3. JobsInv'
  BY <1>1, <1>2, JobsKeep
<1>4. PICK home, rank, born : Line(home, rank, born)
  BY DEF Inv, Descent
<1>5. Line(home, rank, born)'
  BY <1>1, <1>2, <1>4, LineKeeps
<1> QED BY <1>3, <1>5 DEF Descent

LEMMA SwitchLeafKeeps ==
  ASSUME Inv, NEW s \in DOMAIN sessions, SwitchLeaf(s)
  PROVE  Inv'
<1>1. RowsInv /\ TablesInv /\ JobsInv /\ DigestsInv
  BY DEF Inv
<1>2. Change /\ UNCHANGED <<parent, nodes, digests, clock, pruned>>
  BY DEF SwitchLeaf
<1>3. PICK m \in DOMAIN Listed(s) : sessions' = [sessions EXCEPT ![s] = DeepestLeaf(Listed(s), m)]
  BY DEF SwitchLeaf
<1>4. DeepestLeaf(Listed(s), m) \in Msgs /\ SessionOf(DeepestLeaf(Listed(s), m)) = s
  <2>1. /\ Tree(Listed(s)) /\ Listed(s) \in Trees
        /\ DOMAIN Listed(s) = {k \in DOMAIN parent : SessionOf(k) = s}
    BY <1>1, ListedIs
  <2>2. DeepestLeaf(Listed(s), m) \in DOMAIN Listed(s)
    BY <2>1, TreesAre, DeepestLeafIs
  <2> QED BY <1>1, <2>1, <2>2 DEF RowsInv
<1>5. DOMAIN sessions' = DOMAIN sessions
  BY <1>3
<1>6. \A i \in Jobs : Calm(i)
  BY <1>1, <1>2, <1>5, CalmIf
<1>7. JobsInv' /\ Descent'
  BY <1>2, <1>6, ClientKeeps
<1>8. RowsInv'
  BY <1>1, <1>2 DEF RowsInv
<1>9. TablesInv'
  BY <1>1, <1>2, <1>3, <1>4, ChangeIs DEF TablesInv
<1>10. DigestsInv'
  BY <1>1, <1>2, <1>5 DEF DigestsInv
<1> QED BY <1>7, <1>8, <1>9, <1>10 DEF Inv

LEMMA SummarizeKeeps ==
  ASSUME Inv, NEW s \in DOMAIN sessions, Summarize(s)
  PROVE  Inv'
<1>1. RowsInv /\ TablesInv /\ JobsInv /\ DigestsInv
  BY DEF Inv
<1>2. Change /\ UNCHANGED <<sessions, parent, nodes, clock, pruned>>
  BY DEF Summarize
<1>3. PICK m \in DOMAIN Listed(s) : digests' = digests \cup {[session |-> s, cutoff |-> m]}
  BY DEF Summarize
<1> DEFINE new == [session |-> s, cutoff |-> m]
<1>4. new.session = s /\ new.cutoff = m /\ digests' = digests \cup {new}
  BY <1>3
<1> HIDE DEF new
<1>5. m \in DOMAIN parent /\ SessionOf(m) = s /\ m \in Msgs /\ s \in AllSessions
  <2>1. m \in DOMAIN parent /\ SessionOf(m) = s
    BY <1>1, ListedIs
  <2> QED BY <1>1, <2>1 DEF RowsInv, TablesInv
<1>6. \A i \in Jobs : Calm(i)
  BY <1>1, <1>2, <1>4, CalmIf
<1>7. JobsInv' /\ Descent'
  BY <1>2, <1>6, ClientKeeps
<1>8. RowsInv'
  BY <1>1, <1>2 DEF RowsInv
<1>9. TablesInv'
  BY <1>1, <1>2, ChangeIs DEF TablesInv
<1>10. DigestsInv'
  BY <1>1, <1>2, <1>4, <1>5 DEF DigestsInv
<1> QED BY <1>7, <1>8, <1>9, <1>10 DEF Inv

LEMMA DeleteSessionKeeps ==
  ASSUME Inv, NEW s \in DOMAIN sessions, DeleteSession(s)
  PROVE  Inv'
<1>1. RowsInv /\ TablesInv /\ JobsInv /\ DigestsInv
  BY DEF Inv
<1>2. /\ Change /\ clock' = clock /\ pruned' = pruned
      /\ DOMAIN sessions' = DOMAIN sessions \ {s}
      /\ \A k \in DOMAIN sessions' : sessions'[k] = sessions[k]
      /\ DOMAIN parent' = {m \in DOMAIN parent : SessionOf(m) # s}
      /\ \A m \in DOMAIN parent' : parent'[m] = parent[m]
      /\ nodes' \subseteq nodes /\ digests' \subseteq digests
  BY DEF DeleteSession, Restrict
<1>3. ASSUME NEW i \in Jobs PROVE Calm(i)
  <2>1. Early(job[i]) => Unborn(i)'
    BY <1>1, <1>2 DEF JobsInv, JobInv, Unborn
  <2>2. clock \in Nat
    BY <1>1 DEF RowsInv
  <2> QED BY <1>2, <2>1, <2>2 DEF Calm
<1>4. JobsInv' /\ Descent'
  BY <1>2, <1>3, ClientKeeps
<1>5. RowsInv'
  BY <1>1, <1>2 DEF RowsInv
<1>6. TablesInv'
  BY <1>1, <1>2, ChangeIs DEF TablesInv
<1>7. DigestsInv'
  BY <1>1, <1>2 DEF DigestsInv
<1> QED BY <1>4, <1>5, <1>6, <1>7 DEF Inv

(* What hangs below a deleted message is deleted with it. *)
LEMMA SubtreeIsClosed ==
  ASSUME RowsInv, NEW s, NEW m,
         NEW k \in DOMAIN parent, parent[k] \in Subtree(Listed(s), m)
  PROVE  k \in Subtree(Listed(s), m)
<1> DEFINE t == Listed(s)
           p == parent[k]
<1>1. Tree(t) /\ DOMAIN t = {n \in DOMAIN parent : SessionOf(n) = s}
  BY ListedIs
<1>2. p \in DOMAIN t /\ m \in Range(PathTo(t, p)) /\ p \in Nat
  BY <1>1 DEF Subtree, Tree
<1>3. p # NoMsg
  BY <1>1, <1>2 DEF Tree, NoMsg
<1>4. k \in DOMAIN t /\ k \in Nat /\ t[k].parent = p
  BY <1>1, <1>2, <1>3, ListedIs DEF RowsInv, Tree
<1>5. PathTo(t, k) = Append(PathTo(t, p), k)
  BY <1>1, <1>4, PathStep
<1>6. PathTo(t, p) \in Seq(DOMAIN t)
  BY <1>1, <1>2, PathShaped DEF Shaped
<1>7. PICK i \in 1 .. Len(PathTo(t, p)) : PathTo(t, p)[i] = m
  BY <1>2, <1>6 DEF Range
<1>8. m \in Range(PathTo(t, k))
  <2>1. /\ Append(PathTo(t, p), k)[i] = m /\ Append(PathTo(t, p), k) \in Seq(DOMAIN t)
        /\ i \in 1 .. Len(Append(PathTo(t, p), k))
    BY <1>4, <1>6, <1>7, AppendAt
  <2> QED BY <1>5, <2>1 DEF Range
<1> QED BY <1>4, <1>8 DEF Subtree

LEMMA DeleteSubtreeKeeps ==
  ASSUME Inv, NEW s \in DOMAIN sessions, DeleteSubtree(s)
  PROVE  Inv'
<1>1. RowsInv /\ TablesInv /\ JobsInv /\ DigestsInv
  BY DEF Inv
<1>2. PICK m \in DOMAIN Listed(s) :
        /\ parent' = Restrict(parent, DOMAIN parent \ Subtree(Listed(s), m))
        /\ sessions' = IF sessions[s] \in Subtree(Listed(s), m)
                         THEN [sessions EXCEPT ![s] = parent[m]] ELSE sessions
  BY DEF DeleteSubtree
<1> DEFINE S == Subtree(Listed(s), m)
<1>3. \A k \in S : k \in DOMAIN parent /\ SessionOf(k) = s
  BY <1>1, ListedIs DEF Subtree
<1>4. \A k \in DOMAIN parent : parent[k] \in S => k \in S
  BY <1>1, SubtreeIsClosed
<1>5. m \in DOMAIN parent /\ SessionOf(m) = s
  BY <1>1, ListedIs
<1> HIDE DEF S
<1>6. /\ Change /\ clock' = clock /\ pruned' = pruned \cup {s}
      /\ nodes' = nodes /\ digests' = digests
      /\ DOMAIN parent' = DOMAIN parent \ S
      /\ \A k \in DOMAIN parent' : parent'[k] = parent[k]
  BY <1>2 DEF DeleteSubtree, Restrict, S
<1>7. /\ DOMAIN sessions' = DOMAIN sessions
      /\ \A k \in DOMAIN sessions : sessions'[k] = sessions[k] \/ (k = s /\ sessions'[k] = parent[m])
  BY <1>2
<1>8. ASSUME NEW i \in Jobs PROVE Calm(i)
  <2>1. Early(job[i]) => Unborn(i)'
    BY <1>1, <1>6, <1>7 DEF JobsInv, JobInv, Unborn
  <2>2. clock \in Nat
    BY <1>1 DEF RowsInv
  <2> QED BY <1>3, <1>6, <1>7, <2>1, <2>2 DEF Calm
<1>9. JobsInv' /\ Descent'
  BY <1>6, <1>8, ClientKeeps
<1>10. RowsInv'
  BY <1>1, <1>4, <1>6 DEF RowsInv
<1>11. parent[m] = NoMsg \/ (parent[m] \in Msgs /\ SessionOf(parent[m]) = s)
  BY <1>1, <1>5 DEF RowsInv
<1>12. TablesInv'
  BY <1>1, <1>6, <1>7, <1>11, ChangeIs DEF TablesInv
<1>13. DigestsInv'
  BY <1>1, <1>3, <1>6, <1>7 DEF DigestsInv
<1> QED BY <1>9, <1>10, <1>12, <1>13 DEF Inv

LEMMA AddMessageKeeps ==
  ASSUME Inv, NEW s \in DOMAIN sessions, AddMessage(s)
  PROVE  Inv'
<1>1. Typed /\ RowsInv /\ TablesInv /\ JobsInv /\ DigestsInv
  BY InvIsTyped DEF Inv
<1>2. /\ Change /\ clock \in 1 .. MaxMsg /\ clock' = clock + 1
      /\ nodes' = nodes /\ digests' = digests /\ pruned' = pruned
  BY <1>1 DEF AddMessage, RowsInv
<1> DEFINE new == Id(s, clock)
<1>3. PICK p \in IF Listed(s) = NoTree THEN {NoMsg} ELSE DOMAIN Listed(s), advance \in BOOLEAN :
        /\ parent' = With([m \in {new} |-> p])
        /\ sessions' = IF advance THEN [sessions EXCEPT ![s] = new] ELSE sessions
  BY DEF AddMessage
<1>4. s \in AllSessions /\ new \in Msgs /\ SessionOf(new) = s /\ CreatedAt(new) = clock
  BY <1>1, <1>2, IdIsMsg DEF TablesInv
<1>5. p = NoMsg \/ (p \in DOMAIN parent /\ SessionOf(p) = s)
  <2>1. DOMAIN Listed(s) = {k \in DOMAIN parent : SessionOf(k) = s}
    BY <1>1, ListedIs
  <2> QED BY <2>1
<1> HIDE DEF new
<1>6. new \notin DOMAIN parent
  BY <1>1, <1>4 DEF RowsInv
<1>7. /\ DOMAIN parent' = DOMAIN parent \cup {new} /\ parent'[new] = p
      /\ \A m \in DOMAIN parent : parent'[m] = parent[m]
  <2> DEFINE row == [m \in {new} |-> p]
  <2>1. DOMAIN row = {new} /\ row[new] = p
    OBVIOUS
  <2> HIDE DEF row
  <2>2. parent' = With(row)
    BY <1>3 DEF row
  <2> QED BY <1>6, <2>1, <2>2 DEF With
<1>8. /\ DOMAIN sessions' = DOMAIN sessions
      /\ \A k \in DOMAIN sessions : sessions'[k] = sessions[k] \/ (k = s /\ sessions'[k] = new)
  BY <1>3
<1>9. \A i \in Jobs : Early(job[i]) => i # s
  BY <1>1 DEF JobsInv, JobInv, Unborn
<1>10. ASSUME NEW i \in Jobs PROVE Calm(i)
  <2>1. Early(job[i]) => Unborn(i)'
    BY <1>1, <1>2, <1>4, <1>7, <1>8, <1>9 DEF JobsInv, JobInv, Unborn
  <2> QED BY <1>2, <1>4, <1>7, <1>8, <2>1 DEF Calm
<1>11. job' = job /\ clock' \in Nat
  BY <1>2, ChangeIs
<1>12. JobsInv'
  BY <1>1, <1>10, <1>11, NoneMoves, JobsKeep
<1>13. PICK home, rank, born : Line(home, rank, born)
  BY DEF Inv, Descent
<1>14. PICK next \in [1 .. MaxMsg -> AllSessions] :
         next[clock] = s /\ \A k \in 1 .. clock - 1 : next[k] = home[k]
  <2> DEFINE n == [home EXCEPT ![clock] = s]
  <2>1. /\ n \in [1 .. MaxMsg -> AllSessions] /\ n[clock] = s
        /\ \A k \in 1 .. clock - 1 : n[k] = home[k]
    BY <1>2, <1>4, <1>13 DEF Line
  <2> QED BY <2>1
<1>15. \A m \in DOMAIN parent : CreatedAt(m) \in 1 .. clock - 1
  BY <1>1 DEF RowsInv, Msgs
<1>16. ASSUME NEW i \in Jobs PROVE LineOf(i, next, rank)'
  <2>1. LineOf(i, home, rank)
    BY <1>13 DEF Line
  <2>2. ASSUME NEW m \in DOMAIN job[i].read PROVE CreatedAt(m) \in 1 .. clock - 1
    <3>1. CreatedAt(m) < clock /\ m \in Msgs
      BY <1>1, ImageIs DEF JobsInv, JobInv
    <3> QED BY <1>2, <3>1, MsgIs
  <2>3. Early(job[i]) => \A k \in 1 .. clock' - 1 : next[k] # i
    <3>1. \A k \in 1 .. clock' - 1 : k = clock \/ k \in 1 .. clock - 1
      BY <1>2
    <3> QED BY <1>9, <1>14, <2>1, <3>1 DEF LineOf
  <2>4. Empty(job[i]) => \A m \in DOMAIN parent' : SessionOf(m) = i => next[CreatedAt(m)] = i
    BY <1>4, <1>7, <1>14, <1>15, <2>1 DEF LineOf
  <2>5. Empty(job[i]) => \A m \in DOMAIN job[i].read : rank[next[CreatedAt(m)]] < rank[i]
    BY <1>14, <2>1, <2>2 DEF LineOf
  <2>6. Empty(job[i]) => rank[job[i].src] < rank[i]
    BY <2>1 DEF LineOf
  <2>7. /\ Early(job'[i]) = Early(job[i]) /\ Empty(job'[i]) = Empty(job[i])
        /\ job'[i].src = job[i].src /\ job'[i].read = job[i].read
    BY <1>11
  <2> QED BY <2>3, <2>4, <2>5, <2>6, <2>7 DEF LineOf
<1>17. ASSUME NEW m \in DOMAIN parent'
       PROVE  next[CreatedAt(m)] = SessionOf(m) \/ rank[next[CreatedAt(m)]] < rank[SessionOf(m)]
  BY <1>4, <1>7, <1>13, <1>14, <1>15 DEF Line
<1>18. Line(next, rank, born)'
  <2>1. /\ rank \in [AllSessions -> Nat] /\ born \in Nat
        /\ \A k \in AllSessions : rank[k] < born
    BY <1>13 DEF Line
  <2> QED BY <1>14, <1>16, <1>17, <2>1 DEF Line
<1>19. Descent'
  BY <1>18 DEF Descent
<1>20. RowsInv'
  <2>1. clock' \in 1 .. MaxMsg + 1 /\ DOMAIN parent' \subseteq Msgs
    BY <1>1, <1>2, <1>4, <1>7 DEF RowsInv
  <2>2. \A m \in DOMAIN parent' : CreatedAt(m) < clock'
    BY <1>2, <1>4, <1>7, <1>15
  <2>3. p = NoMsg \/ CreatedAt(p) < clock
    BY <1>1, <1>5 DEF RowsInv
  <2>4. ASSUME NEW m \in DOMAIN parent', parent'[m] # NoMsg
        PROVE  /\ parent'[m] \in DOMAIN parent'
               /\ SessionOf(parent'[m]) = SessionOf(m)
               /\ CreatedAt(parent'[m]) < CreatedAt(m)
    <3>1. CASE m = new
      BY <1>4, <1>5, <1>7, <2>3, <2>4, <3>1
    <3>2. CASE m \in DOMAIN parent
      <4>1. parent'[m] = parent[m]
        BY <1>7, <3>2
      <4>2. /\ parent[m] \in DOMAIN parent /\ SessionOf(parent[m]) = SessionOf(m)
            /\ CreatedAt(parent[m]) < CreatedAt(m)
        BY <1>1, <2>4, <3>2, <4>1 DEF RowsInv
      <4> QED BY <4>1, <4>2, <1>7
    <3> QED BY <1>7, <3>1, <3>2
  <2> QED BY <2>1, <2>2, <2>4 DEF RowsInv
<1>21. TablesInv'
  BY <1>1, <1>2, <1>4, <1>8, ChangeIs DEF TablesInv
<1>22. DigestsInv'
  BY <1>1, <1>2, <1>7, <1>8 DEF DigestsInv
<1> QED BY <1>12, <1>19, <1>20, <1>21, <1>22 DEF Inv

-----------------------------------------------------------------------------
(* The invariant holds. *)

LEMMA InvInit == Init => Inv
<1> SUFFICES ASSUME Init PROVE Inv
  OBVIOUS
<1>1. PICK n \in Started :
        /\ parent \in {p \in [1 .. n -> 0 .. n] : \A k \in 1 .. n : p[k] < k}
        /\ \E l \in 0 .. n : sessions = [s \in {0} |-> l]
        /\ clock = n + 1
  BY DEF Init
<1>2. PICK l \in 0 .. n : sessions = [s \in {0} |-> l]
  BY <1>1
<1>3. n \in 0 .. MaxMsg /\ clock \in 1 .. MaxMsg + 1 /\ clock - 1 = n
  BY <1>1
<1>4. \A k \in 1 .. n : k \in Msgs /\ SessionOf(k) = 0 /\ CreatedAt(k) = k
  <2>1. \A k \in 1 .. n : Id(0, k) = k
    BY <1>3 DEF Id, Span
  <2> QED BY <1>3, <2>1, IdIsMsg DEF AllSessions
<1>5. /\ DOMAIN parent = 1 .. n
      /\ \A k \in 1 .. n : parent[k] \in 0 .. n /\ parent[k] < k
  BY <1>1
<1>6. DOMAIN sessions = {0} /\ sessions[0] = l
  BY <1>2
<1>7. /\ nodes = {<<0, 0>>} /\ digests = {} /\ changes = 0 /\ faults = 0 /\ pruned = {}
      /\ job = [j \in Jobs |-> IdleJob]
  BY DEF Init
<1>8. RowsInv
  BY <1>3, <1>4, <1>5 DEF RowsInv, NoMsg
<1>9. TablesInv
  BY <1>4, <1>6, <1>7 DEF TablesInv, AllSessions, NoMsg
<1>10. DigestsInv
  BY <1>7 DEF DigestsInv
<1>11. \A j \in Jobs : job[j] = IdleJob /\ j # 0
  BY <1>7 DEF Jobs
<1>12. /\ Early(IdleJob) /\ ~Empty(IdleJob) /\ ~Full(IdleJob) /\ Stage(IdleJob)
       /\ Batch(IdleJob) = {}
  BY IdleJobIs, NoBatch DEF Early, Empty, Full, Stage
<1>13. ASSUME NEW j \in Jobs PROVE JobInv(j)
  <2>1. Unborn(j)
    BY <1>4, <1>5, <1>6, <1>7, <1>11 DEF Unborn
  <2>2. ReadIsTree(IdleJob)
    BY IdleJobIs, NoTreeIs DEF ReadIsTree
  <2>3. Copied(j) = {}
    BY <1>11, <1>12 DEF Copied
  <2> QED BY <1>11, <1>12, <2>1, <2>2, <2>3, IdleJobIs DEF JobInv, Mirrors
<1>14. JobsInv
  BY <1>7, <1>11, <1>13, IdleJobIs DEF JobsInv, SourcesInv
<1>15. Descent
  <2> DEFINE home == [k \in 1 .. MaxMsg |-> 0]
             rank == [s \in AllSessions |-> 0]
  <2>1. /\ home \in [1 .. MaxMsg -> AllSessions] /\ rank \in [AllSessions -> Nat]
        /\ \A k \in 1 .. MaxMsg : home[k] = 0
        /\ \A s \in AllSessions : rank[s] < 1
    BY DEF AllSessions
  <2> HIDE DEF home, rank
  <2>2. \A j \in Jobs : LineOf(j, home, rank)
    BY <1>3, <1>11, <1>12, <2>1 DEF LineOf
  <2>3. Line(home, rank, 1)
    BY <1>3, <1>4, <1>5, <2>1, <2>2 DEF Line
  <2> QED BY <2>3 DEF Descent
<1> QED BY <1>8, <1>9, <1>10, <1>14, <1>15 DEF Inv

LEMMA InvStep == Inv /\ [Next]_vars => Inv'
<1> SUFFICES ASSUME Inv, [Next]_vars PROVE Inv'
  OBVIOUS
<1>1. ASSUME NEW j \in Jobs, Request(j) \/ Copying(j) \/ Forking(j) \/ Fault(j) \/ Drop(j)
      PROVE  Inv'
  <2>1. CASE Request(j)
    BY <2>1, RequestKeeps
  <2>2. CASE GetSession(j)
    BY <2>2, GetSessionKeeps
  <2>3. CASE ListMessages(j)
    BY <2>3, ListMessagesKeeps
  <2>4. CASE CreateSession(j)
    BY <2>4, CreateSessionKeeps
  <2>5. CASE CopyNodes(j)
    BY <2>5, CopyNodesKeeps
  <2>6. CASE InsertMessages(j)
    BY <2>6, InsertMessagesKeeps
  <2>7. CASE SetLeaf(j)
    BY <2>7, SetLeafKeeps
  <2>8. CASE ListDigests(j)
    BY <2>8, ListDigestsKeeps
  <2>9. CASE CreateDigest(j)
    BY <2>9, CreateDigestKeeps
  <2>10. CASE Answer(j)
    BY <2>10, AnswerKeeps
  <2>11. CASE Fault(j)
    BY <2>11, FaultKeeps
  <2>12. CASE Drop(j)
    BY <2>12, DropKeeps
  <2> QED BY <1>1, <2>1, <2>2, <2>3, <2>4, <2>5, <2>6, <2>7, <2>8, <2>9, <2>10, <2>11, <2>12
             DEF Copying, Forking
<1>2. ASSUME NEW s \in DOMAIN sessions, Client(s)
      PROVE  Inv'
  <2>1. CASE AddMessage(s)
    BY <2>1, AddMessageKeeps
  <2>2. CASE DeleteSubtree(s)
    BY <2>2, DeleteSubtreeKeeps
  <2>3. CASE SwitchLeaf(s)
    BY <2>3, SwitchLeafKeeps
  <2>4. CASE Summarize(s)
    BY <2>4, SummarizeKeeps
  <2>5. CASE DeleteSession(s)
    BY <2>5, DeleteSessionKeeps
  <2> QED BY <1>2, <2>1, <2>2, <2>3, <2>4, <2>5 DEF Client
<1>3. CASE UNCHANGED vars
  <2>1. UNCHANGED <<sessions, parent, nodes, digests, clock, changes, faults, pruned, job>>
    BY <1>3 DEF vars, tables, bounds
  <2>2. RowsInv' /\ TablesInv' /\ DigestsInv'
    BY <2>1 DEF Inv, RowsInv, TablesInv, DigestsInv
  <2>3. Typed /\ JobsInv /\ clock' \in Nat
    BY <2>1, InvIsTyped DEF Inv, Typed
  <2>4. Typed' /\ \A i \in Jobs : Later(job[i], job'[i])
    BY <2>1, <2>3, NoneMoves
  <2>5. \A i \in Jobs : Calm(i)
    BY <2>1, <2>3, CalmIf DEF Inv
  <2>6. JobsInv'
    BY <2>3, <2>4, <2>5, JobsKeep
  <2>7. PICK home, rank, born : Line(home, rank, born)
    BY DEF Inv, Descent
  <2>8. Line(home, rank, born)'
    BY <2>1, <2>3, <2>4, <2>7, LineKeeps
  <2> QED BY <2>2, <2>6, <2>8 DEF Inv, Descent
<1> QED BY <1>1, <1>2, <1>3 DEF Next

LEMMA InvHolds == Spec => []Inv
  BY InvInit, InvStep, PTL DEF Spec

-----------------------------------------------------------------------------
(* What the invariant says of the copies. *)

LEMMA InvIsTypeOK == Inv => TypeOK
<1> SUFFICES ASSUME Inv PROVE TypeOK
  OBVIOUS
<1>1. RowsInv /\ TablesInv /\ job \in [Jobs -> JobRows]
  BY DEF Inv, JobsInv
<1>2. \A m \in DOMAIN parent : SessionOf(m) \in 0 .. Copies /\ CreatedAt(m) \in 1 .. MaxMsg
  BY <1>1 DEF RowsInv, Msgs, AllSessions
<1>3. \A j \in Jobs : job[j].kind \in AllKinds
  BY <1>1 DEF JobRows
<1> QED BY <1>1, <1>2, <1>3 DEF TypeOK, RowsInv, TablesInv, AllSessions

LEMMA AgesOfAppend ==
  ASSUME NEW S, NEW q \in Seq(S), NEW x \in S, NEW R, NEW r \in Seq(R), NEW y \in R,
         Ages(q) = Ages(r), CreatedAt(x) = CreatedAt(y)
  PROVE  Ages(Append(q, x)) = Ages(Append(r, y))
<1>1. DOMAIN Ages(q) = 1 .. Len(q) /\ DOMAIN Ages(r) = 1 .. Len(r)
  BY DEF Ages
<1>2. Len(q) = Len(r) /\ Len(q) \in Nat
  BY <1>1
<1>3. \A i \in 1 .. Len(q) : CreatedAt(q[i]) = CreatedAt(r[i])
  <2>1. \A i \in 1 .. Len(q) : Ages(q)[i] = CreatedAt(q[i]) /\ Ages(r)[i] = CreatedAt(r[i])
    BY <1>2 DEF Ages
  <2> QED BY <2>1
<1> DEFINE a == Append(q, x)
           b == Append(r, y)
<1>4. /\ DOMAIN a = 1 .. Len(q) + 1 /\ a[Len(q) + 1] = x
      /\ \A i \in 1 .. Len(q) : a[i] = q[i]
  BY AppendAt
<1>5. /\ DOMAIN b = 1 .. Len(q) + 1 /\ b[Len(q) + 1] = y
      /\ \A i \in 1 .. Len(q) : b[i] = r[i]
  BY AppendAt, <1>2
<1> HIDE DEF a, b
<1>6. \A i \in 1 .. Len(q) + 1 : CreatedAt(a[i]) = CreatedAt(b[i])
  <2>1. \A i \in 1 .. Len(q) + 1 : i = Len(q) + 1 \/ i \in 1 .. Len(q)
    BY <1>2
  <2> QED BY <2>1, <1>3, <1>4, <1>5
<1>7. Ages(a) = Ages(b)
  BY <1>4, <1>5, <1>6 DEF Ages
<1> QED BY <1>7 DEF a, b

(* By the minimal copied message whose path would be another one. *)
LEMMA PathsAreKept == Inv => PathsSurvive
<1> SUFFICES ASSUME Inv, NEW j \in Jobs,
                    NEW n \in Copied(j), Image(j, n) \in DOMAIN parent,
                    Ages(PathTo(Listed(j), Image(j, n))) # Ages(PathTo(job[j].read, n))
             PROVE  FALSE
  BY DEF PathsSurvive
<1> DEFINE t == Listed(j)
           u == job[j].read
           Moved(m) == /\ m \in Copied(j) /\ Image(j, m) \in DOMAIN parent
                       /\ Ages(PathTo(t, Image(j, m))) # Ages(PathTo(u, m))
           M == {m \in Nat : Moved(m)}
<1>1. Typed /\ RowsInv /\ JobInv(j) /\ ReadIsTree(job[j])
  BY InvIsTyped DEF Inv, JobsInv, JobInv
<1>2. Tree(t) /\ Tree(u)
  BY <1>1, ListedIs DEF ReadIsTree
<1>3. DOMAIN t = {k \in DOMAIN parent : SessionOf(k) = j} /\ \A k \in DOMAIN t : t[k].parent = parent[k]
  BY <1>1, ListedIs
<1>4. n \in M
  BY <1>1, CopiedIsNat
<1>5. PICK m \in M : \A k \in M : m <= k
  <2> HIDE DEF Moved
  <2>1. M \in SUBSET Nat /\ M # {}
    BY <1>4
  <2> QED BY <2>1, Least
<1>6. /\ m \in Nat /\ m \in Copied(j) /\ m \in DOMAIN u
      /\ Image(j, m) \in DOMAIN parent /\ Image(j, m) \in Nat
      /\ SessionOf(Image(j, m)) = j /\ CreatedAt(Image(j, m)) = CreatedAt(m)
  BY <1>1, <1>5, ImageIs, MsgIs
<1>7. Image(j, m) \in DOMAIN t /\ t[Image(j, m)].parent = NewParent(j, m)
  <2>1. Image(j, m) \in DOMAIN t
    BY <1>3, <1>6
  <2> QED BY <1>1, <1>3, <1>6, <2>1 DEF JobInv, Mirrors
<1> DEFINE q == PathTo(t, NewParent(j, m))
           r == PathTo(u, u[m].parent)
<1>8. PathTo(t, Image(j, m)) = Append(q, Image(j, m)) /\ PathTo(u, m) = Append(r, m)
  BY <1>2, <1>6, <1>7, PathStep
<1>9. NewParent(j, m) \in Nat /\ u[m].parent \in Nat
  BY <1>2, <1>6, <1>7, ParentOf
<1>10. q \in Seq(DOMAIN t) /\ r \in Seq(DOMAIN u)
  BY <1>2, <1>9, PathShaped DEF Shaped
<1>11. Ages(q) = Ages(r)
  <2>1. CASE NewParent(j, m) = NoMsg /\ u[m].parent = NoMsg
    <3>1. NoMsg \in Nat /\ NoMsg \notin DOMAIN t /\ NoMsg \notin DOMAIN u
      BY <1>2 DEF Tree, NoMsg
    <3>2. PathTo(t, NoMsg) = << >> /\ PathTo(u, NoMsg) = << >>
      BY <1>2, <3>1, PathStep
    <3> QED BY <2>1, <3>2
  <2>2. CASE \E p \in Copied(j) : p = u[m].parent /\ p < m /\ NewParent(j, m) = Image(j, p)
    <3>1. PICK p \in Copied(j) : p = u[m].parent /\ p < m /\ NewParent(j, m) = Image(j, p)
      BY <2>2
    <3>2. Image(j, p) \in DOMAIN t \/ Image(j, p) = NoMsg
      BY <1>2, <1>7, <3>1, ParentOf DEF NoMsg
    <3>3. Image(j, p) # NoMsg /\ p \in Nat
      BY <1>1, <3>1, ImageIs, MsgIs DEF NoMsg
    <3>4. Image(j, p) \in DOMAIN parent
      BY <1>3, <3>2, <3>3
    <3>5. p \notin M
      BY <1>5, <1>6, <3>1, <3>3
    <3>6. ~ Moved(p)
      BY <3>3, <3>5
    <3> QED BY <3>1, <3>4, <3>6
  <2> QED BY <1>1, <1>6, <2>1, <2>2, InsertedIsTree
<1>12. Ages(Append(q, Image(j, m))) = Ages(Append(r, m))
  <2> HIDE DEF q, r, t, u
  <2> QED BY <1>6, <1>7, <1>10, <1>11, AgesOfAppend
<1>13. Moved(m)
  BY <1>5
<1> QED BY <1>8, <1>12, <1>13

(* Each row's parent goes in before it. *)
LEMMA NoneIsRefused == Inv => NoBatchIsRefused
<1> SUFFICES ASSUME Inv, NEW j \in Jobs, j \in DOMAIN sessions PROVE Insertable(j)
  BY DEF NoBatchIsRefused
<1>1. Typed /\ JobInv(j)
  BY InvIsTyped DEF Inv, JobsInv
<1>2. ASSUME NEW m \in Copied(j)
      PROVE  \/ NewParent(j, m) \in DOMAIN parent \cup {NoMsg}
             \/ \E e \in Copied(j) : Earlier(job[j], e, m) /\ NewParent(j, m) = Image(j, e)
  BY <1>1, InsertedIsTree
<1> QED BY <1>2 DEF Insertable

LEMMA CopiesAre == Inv => CopiesAreSound
  BY InvIsTypeOK, PathsAreKept, NoneIsRefused DEF CopiesAreSound

(* What a request owes it copies. *)
LEMMA OwedIsCopied ==
  ASSUME NEW j \in Jobs PROVE Owed(j) \subseteq Copied(j)
<1> DEFINE w == job[j]
           node == IF w.target \in DOMAIN w.read THEN w.target ELSE Newest(DOMAIN w.read)
           above == {m \in DOMAIN w.read : node \in Subtree(w.read, m)}
<1>1. CASE w.kind = "fork"
  <2>1. ForkPath(w) = PathTo(w.read, node)
    BY DEF ForkPath, ActivePath
  <2>2. above \subseteq Range(ForkPath(w))
    BY <2>1 DEF Subtree
  <2>3. Owed(j) = {m \in DOMAIN w.read : {m, w.read[m].parent} \cap above # {}}
    BY <1>1 DEF Owed
  <2>4. Copied(j) = Range(ForkPath(w)) \cup Alternatives(w)
    BY <1>1 DEF Copied, Batch
  <2> HIDE DEF above
  <2> QED BY <2>2, <2>3, <2>4 DEF Alternatives
<1>2. CASE w.kind # "fork"
  BY <1>2 DEF Owed, Copied, Batch
<1> QED BY <1>1, <1>2

LEMMA AnsweredIsWhole == Inv => AnsweredCopyIsWhole
<1> SUFFICES ASSUME Inv, NEW j \in Jobs, job[j].pc = "answered", j \in DOMAIN sessions \ pruned
             PROVE  Present(j)
  BY OwedIsCopied DEF AnsweredCopyIsWhole, Present
<1> QED BY DEF Inv, JobsInv, JobInv, Full

LEMMA DigestsAreHome == Inv => DigestsStayHome
  BY DEF Inv, DigestsInv, DigestsStayHome

-----------------------------------------------------------------------------
(* Whatever clients do to the source and to the copy between two storage    *)
(* calls of fork_session, duplicate_session or import_session: the batch of *)
(* rows that is inserted is never refused, and a copied message that is     *)
(* there hangs below the copies of the messages its original hung below.    *)
THEOREM CopiesAreSoundHolds == Spec => []CopiesAreSound
  BY InvHolds, CopiesAre, PTL

(* A request that answers has copied every message it owes: of a duplicate  *)
(* or an import all that was listed; of a fork the path and what hangs      *)
(* directly on it, the swipes of its turns and the continuations of its     *)
(* last one, but not the turns that follow a swipe.  What is missing from   *)
(* the copy later a client has deleted.                                     *)
THEOREM AnsweredCopyIsWholeHolds == Spec => []AnsweredCopyIsWhole
  BY InvHolds, AnsweredIsWhole, PTL

(* A summary that fork_session copies, like one that is made in place, cuts *)
(* off at a message of its own session.                                     *)
THEOREM DigestsStayHomeHolds == Spec => []DigestsStayHome
  BY InvHolds, DigestsAreHome, PTL
=============================================================================
