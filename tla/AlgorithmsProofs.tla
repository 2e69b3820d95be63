-------------------------- MODULE AlgorithmsProofs --------------------------
(***************************************************************************)
(* Proofs about the operations of Algorithms, for any inputs that are rows *)
(* and arguments as the program types them.                                *)
(*                                                                         *)
(* A job is done in one step, so what has to be carried along is little:   *)
(* Computed says that an answer is what the operation returns for the      *)
(* input.  The rest is about the operations, most of which are folds, for  *)
(* sequences of any length.  What a fold has after none, one, two ... of   *)
(* its members is a run of its step (Runs), proved once for all the steps  *)
(* (Step, IterRuns); what is true of each of them follows by induction     *)
(* along the run, from the least place where it would fail.                *)
(***************************************************************************)
EXTENDS Algorithms, FiniteSetTheorems, SequenceTheorems, WellFoundedInduction, TLAPS

-----------------------------------------------------------------------------
(* Numbers and folds. *)

(* The induction principle: a non-empty set of numbers has a least member, *)
(* so a claim that fails for some number fails for a least one.            *)
LEMMA Least == ASSUME NEW T \in SUBSET Nat, T # {} PROVE \E x \in T : \A y \in T : x <= y
<1> DEFINE R == OpToRel(<, Nat)
<1>1. IsWellFoundedOn(R, Nat)
  BY NatLessThanWellFounded
<1>2. PICK x \in T : \A y \in T : ~(<<y, x>> \in R)
  <2> HIDE DEF R
  <2> QED BY <1>1, WFMin
<1>3. \A a, b \in Nat : a < b => <<a, b>> \in R
  BY DEF OpToRel
<1> HIDE DEF R
<1>4. ASSUME NEW y \in T PROVE x <= y
  <2>1. ~(<<y, x>> \in R)
    BY <1>2
  <2>2. y < x => <<y, x>> \in R
    BY <1>3
  <2> QED BY <2>1, <2>2
<1> QED BY <1>4

(* What CHOOSE takes for the least and the largest member. *)
LEMMA MinIn ==
  ASSUME NEW T \in SUBSET Nat, T # {}
  PROVE  Min(T) \in T /\ \A y \in T : Min(T) <= y
<1>1. PICK x \in T : \A y \in T : x <= y
  BY Least
<1> QED BY <1>1 DEF Min

LEMMA MaxIn ==
  ASSUME NEW n \in Nat, NEW T \in SUBSET (1 .. n), T # {}
  PROVE  Max(T) \in T /\ \A y \in T : Max(T) >= y
<1> DEFINE D == {d \in Nat : n - d \in T}
<1>1. D # {}
  <2>1. PICK t \in T : TRUE
    OBVIOUS
  <2>2. n - t \in Nat /\ n - (n - t) = t
    BY <2>1
  <2> QED BY <2>2
<1>2. PICK d \in D : \A e \in D : d <= e
  <2> HIDE DEF D
  <2>1. D \in SUBSET Nat
    BY DEF D
  <2> QED BY <2>1, <1>1, Least
<1>3. n - d \in T /\ \A y \in T : n - d >= y
  <2>1. n - d \in T
    BY <1>2
  <2>2. ASSUME NEW y \in T PROVE n - d >= y
    <3>1. n - y \in Nat /\ n - (n - y) = y
      BY <2>2
    <3>2. n - y \in D
      BY <3>1, <2>2
    <3>3. d <= n - y
      BY <3>2, <1>2
    <3> QED BY <3>3, <3>1, <2>1
  <2> QED BY <2>1, <2>2
<1> QED BY <1>3 DEF Max

(* Without its largest member a set of numbers up to n is one up to n - 1. *)
LEMMA MaxOut ==
  ASSUME NEW n \in Nat, NEW T \in SUBSET (1 .. n), T # {}
  PROVE  T \ {Max(T)} \in SUBSET (1 .. (n - 1))
<1> DEFINE m == Max(T)
<1>1. m \in T /\ \A y \in T : m >= y
  BY MaxIn
<1> HIDE DEF m
<1>2. ASSUME NEW y \in T \ {m} PROVE y \in 1 .. (n - 1)
  <2>1. y \in 1 .. n /\ m \in 1 .. n /\ m >= y /\ y # m
    BY <1>1, <1>2
  <2> QED BY <2>1
<1>3. T \ {m} \in SUBSET (1 .. (n - 1))
  BY <1>2
<1> QED BY <1>3 DEF m

(* The largest of the first k numbers is k. *)
LEMMA MaxUpTo == ASSUME NEW n \in Nat, n # 0 PROVE Max(1 .. n) = n
<1> DEFINE m == Max(1 .. n)
<1>1. 1 .. n \in SUBSET (1 .. n) /\ 1 .. n # {} /\ n \in 1 .. n
  OBVIOUS
<1>2. m \in 1 .. n /\ \A y \in 1 .. n : m >= y
  BY <1>1, MaxIn
<1> HIDE DEF m
<1>3. m = n
  BY <1>1, <1>2
<1> QED BY <1>3 DEF m

(* The steps of the folds the model is built from, under one name. *)
Step(fold, p, acc, x) ==
  CASE fold = "called" -> Called(acc, x)
    [] fold = "configured" -> Configured(acc, x)
    [] fold = "counted" -> Counted(acc, x)
    [] fold = "joining" -> Joining(acc, x)
    [] fold = "dropped" -> Dropped(p[1], p[2], acc, x)
    [] fold = "declared" -> Declared(acc, x)
    [] fold = "merged" -> MergeDecls(acc, x)
    [] fold = "updated" -> Updated(p[1], acc, x)


Iter(it, fold, p, b, s, n) ==
  it = [T \in SUBSET (1 .. n) |-> IF T = {} THEN b ELSE Step(fold, p, it[T \ {Max(T)}], s[Max(T)])]

(* The function by which a fold is defined exists, so that CHOOSE finds    *)
(* it.                                                                     *)
LEMMA IterExists ==
  ASSUME NEW fold, NEW p, NEW b, NEW s, NEW n \in Nat PROVE \E it : Iter(it, fold, p, b, s, n)
<1> DEFINE Bad == {k \in Nat : ~ \E it : Iter(it, fold, p, b, s, k)}
<1> SUFFICES ASSUME Bad # {} PROVE FALSE
  OBVIOUS
<1>1. PICK k \in Bad : \A j \in Bad : k <= j
  <2> HIDE DEF Bad
  <2>1. Bad \in SUBSET Nat
    BY DEF Bad
  <2> QED BY <2>1, Least
<1>2. CASE k = 0
  <2>1. Iter([T \in SUBSET (1 .. 0) |-> b], fold, p, b, s, 0)
    BY DEF Iter
  <2> QED BY <2>1, <1>2, <1>1
<1>3. CASE k # 0
  <2>1. k - 1 \in Nat /\ k - 1 \notin Bad
    BY <1>1, <1>3
  <2>2. PICK f : Iter(f, fold, p, b, s, k - 1)
    BY <2>1
  <2> DEFINE H(T, g) == IF T = {} THEN b ELSE Step(fold, p, g[T \ {Max(T)}], s[Max(T)])
             it == [T \in SUBSET (1 .. k) |-> H(T, f)]
  <2>3. f = [T \in SUBSET (1 .. (k - 1)) |-> H(T, f)]
    BY <2>2 DEF Iter
  <2>4. ASSUME NEW T \in SUBSET (1 .. (k - 1)) PROVE it[T] = f[T]
    <3>1. T \in SUBSET (1 .. k)
      BY <2>4, <1>3
    <3> HIDE DEF H
    <3> QED BY <3>1, <2>3, <2>4
  <2>5. ASSUME NEW T \in SUBSET (1 .. k), T # {} PROVE it[T \ {Max(T)}] = f[T \ {Max(T)}]
    <3>1. T \ {Max(T)} \in SUBSET (1 .. (k - 1))
      BY <2>5, MaxOut
    <3> HIDE DEF it
    <3> QED BY <3>1, <2>4
  <2>6. ASSUME NEW T \in SUBSET (1 .. k) PROVE H(T, f) = H(T, it)
    <3> HIDE DEF it
    <3> QED BY <2>5, <2>6
  <2>7. it = [T \in SUBSET (1 .. k) |-> H(T, it)]
    <3>1. it = [T \in SUBSET (1 .. k) |-> H(T, f)]
      OBVIOUS
    <3> HIDE DEF H, it
    <3> QED BY <3>1, <2>6
  <2>8. Iter(it, fold, p, b, s, k)
    <3> HIDE DEF it
    <3> QED BY <2>7 DEF Iter
  <2> QED BY <2>8, <1>1
<1> QED BY <1>2, <1>3

(* F is what a fold has after none, one, two ... of the members of s. *)
Runs(F, fold, p, b, s, n) == F[0] = b /\ \A k \in 1 .. n : F[k] = Step(fold, p, F[k - 1], s[k])

(* Read at the first k numbers, it is the run of the fold. *)
LEMMA IterRuns ==
  ASSUME NEW fold, NEW p, NEW b, NEW s, NEW n \in Nat, NEW it, Iter(it, fold, p, b, s, n)
  PROVE  \E F : Runs(F, fold, p, b, s, n) /\ F[n] = it[1 .. n]
<1> DEFINE H(T) == IF T = {} THEN b ELSE Step(fold, p, it[T \ {Max(T)}], s[Max(T)])
           F == [k \in 0 .. n |-> it[1 .. k]]
<1>1. it = [T \in SUBSET (1 .. n) |-> H(T)]
  BY DEF Iter
<1>2. ASSUME NEW k \in 0 .. n PROVE it[1 .. k] = H(1 .. k) /\ F[k] = it[1 .. k]
  <2>1. 1 .. k \in SUBSET (1 .. n)
    BY <1>2
  <2>2. F[k] = it[1 .. k]
    BY <1>2
  <2> HIDE DEF H, F
  <2> QED BY <1>1, <2>1, <2>2
<1>3. F[0] = b
  <2>1. 1 .. 0 = {} /\ 0 \in 0 .. n
    OBVIOUS
  <2>2. H({}) = b
    OBVIOUS
  <2> HIDE DEF H, F
  <2> QED BY <2>1, <2>2, <1>2
<1>4. ASSUME NEW k \in 1 .. n PROVE F[k] = Step(fold, p, F[k - 1], s[k])
  <2>1. Max(1 .. k) = k /\ (1 .. k) \ {k} = 1 .. (k - 1) /\ 1 .. k # {}
    <3>1. k \in Nat /\ k # 0 /\ k \in 1 .. k
      BY <1>4
    <3>2. (1 .. k) \ {k} = 1 .. (k - 1)
      BY <3>1
    <3> QED BY <3>1, <3>2, MaxUpTo
  <2>2. k \in 0 .. n /\ k - 1 \in 0 .. n
    BY <1>4
  <2>3. H(1 .. k) = Step(fold, p, it[1 .. (k - 1)], s[k])
    BY <2>1
  <2> HIDE DEF H, F
  <2> QED BY <1>2, <2>2, <2>3
<1>5. F[n] = it[1 .. n]
  OBVIOUS
<1> HIDE DEF F
<1> QED BY <1>3, <1>4, <1>5 DEF Runs

CalledEnd(b, s) == FoldLeft(Called, b, s)

(* A fold ends where its run ends. *)
LEMMA CalledFold ==
  ASSUME NEW b, NEW s, NEW n \in Nat, DOMAIN s = 1 .. n
  PROVE  \E F : Runs(F, "called", <<>>, b, s, n) /\ CalledEnd(b, s) = F[n]
<1> DEFINE Is(i) == i = [T \in SUBSET (1 .. n) |-> IF T = {} THEN b ELSE Called(i[T \ {Max(T)}], s[Max(T)])]
           p == <<>>
           it == CHOOSE i : Is(i)
<1>1. CalledEnd(b, s) = it[1 .. n]
  BY DEF CalledEnd, FoldLeft, MapThenFoldSet
<1>2. \A a, x : Step("called", p, a, x) = Called(a, x)
  BY DEF Step
<1>3. \A i : Is(i) <=> Iter(i, "called", p, b, s, n)
  BY <1>2 DEF Iter
<1> HIDE DEF Is, p
<1>4. Iter(it, "called", p, b, s, n)
  BY <1>3, IterExists
<1> HIDE DEF it
<1>5. \E F : Runs(F, "called", p, b, s, n) /\ F[n] = it[1 .. n]
  BY <1>4, IterRuns
<1> QED BY <1>1, <1>5 DEF p

ConfiguredEnd(b, s) == FoldLeft(Configured, b, s)

(* A fold ends where its run ends. *)
LEMMA ConfiguredFold ==
  ASSUME NEW b, NEW s, NEW n \in Nat, DOMAIN s = 1 .. n
  PROVE  \E F : Runs(F, "configured", <<>>, b, s, n) /\ ConfiguredEnd(b, s) = F[n]
<1> DEFINE Is(i) == i = [T \in SUBSET (1 .. n) |-> IF T = {} THEN b ELSE Configured(i[T \ {Max(T)}], s[Max(T)])]
           p == <<>>
           it == CHOOSE i : Is(i)
<1>1. ConfiguredEnd(b, s) = it[1 .. n]
  BY DEF ConfiguredEnd, FoldLeft, MapThenFoldSet
<1>2. \A a, x : Step("configured", p, a, x) = Configured(a, x)
  BY DEF Step
<1>3. \A i : Is(i) <=> Iter(i, "configured", p, b, s, n)
  BY <1>2 DEF Iter
<1> HIDE DEF Is, p
<1>4. Iter(it, "configured", p, b, s, n)
  BY <1>3, IterExists
<1> HIDE DEF it
<1>5. \E F : Runs(F, "configured", p, b, s, n) /\ F[n] = it[1 .. n]
  BY <1>4, IterRuns
<1> QED BY <1>1, <1>5 DEF p

CountedEnd(b, s) == FoldLeft(Counted, b, s)

(* A fold ends where its run ends. *)
LEMMA CountedFold ==
  ASSUME NEW b, NEW s, NEW n \in Nat, DOMAIN s = 1 .. n
  PROVE  \E F : Runs(F, "counted", <<>>, b, s, n) /\ CountedEnd(b, s) = F[n]
<1> DEFINE Is(i) == i = [T \in SUBSET (1 .. n) |-> IF T = {} THEN b ELSE Counted(i[T \ {Max(T)}], s[Max(T)])]
           p == <<>>
           it == CHOOSE i : Is(i)
<1>1. CountedEnd(b, s) = it[1 .. n]
  BY DEF CountedEnd, FoldLeft, MapThenFoldSet
<1>2. \A a, x : Step("counted", p, a, x) = Counted(a, x)
  BY DEF Step
<1>3. \A i : Is(i) <=> Iter(i, "counted", p, b, s, n)
  BY <1>2 DEF Iter
<1> HIDE DEF Is, p
<1>4. Iter(it, "counted", p, b, s, n)
  BY <1>3, IterExists
<1> HIDE DEF it
<1>5. \E F : Runs(F, "counted", p, b, s, n) /\ F[n] = it[1 .. n]
  BY <1>4, IterRuns
<1> QED BY <1>1, <1>5 DEF p

JoiningEnd(b, s) == FoldLeft(Joining, b, s)

(* A fold ends where its run ends. *)
LEMMA JoiningFold ==
  ASSUME NEW b, NEW s, NEW n \in Nat, DOMAIN s = 1 .. n
  PROVE  \E F : Runs(F, "joining", <<>>, b, s, n) /\ JoiningEnd(b, s) = F[n]
<1> DEFINE Is(i) == i = [T \in SUBSET (1 .. n) |-> IF T = {} THEN b ELSE Joining(i[T \ {Max(T)}], s[Max(T)])]
           p == <<>>
           it == CHOOSE i : Is(i)
<1>1. JoiningEnd(b, s) = it[1 .. n]
  BY DEF JoiningEnd, FoldLeft, MapThenFoldSet
<1>2. \A a, x : Step("joining", p, a, x) = Joining(a, x)
  BY DEF Step
<1>3. \A i : Is(i) <=> Iter(i, "joining", p, b, s, n)
  BY <1>2 DEF Iter
<1> HIDE DEF Is, p
<1>4. Iter(it, "joining", p, b, s, n)
  BY <1>3, IterExists
<1> HIDE DEF it
<1>5. \E F : Runs(F, "joining", p, b, s, n) /\ F[n] = it[1 .. n]
  BY <1>4, IterRuns
<1> QED BY <1>1, <1>5 DEF p

DroppedEnd(messages, window, b, s) == FoldLeft(LAMBDA acc, i : Dropped(messages, window, acc, i), b, s)

(* A fold ends where its run ends. *)
LEMMA DroppedFold ==
  ASSUME NEW messages, NEW window, NEW b, NEW s, NEW n \in Nat, DOMAIN s = 1 .. n
  PROVE  \E F : Runs(F, "dropped", <<messages, window>>, b, s, n) /\ DroppedEnd(messages, window, b, s) = F[n]
<1> DEFINE Is(i) == i = [T \in SUBSET (1 .. n) |-> IF T = {} THEN b ELSE Dropped(messages, window, i[T \ {Max(T)}], s[Max(T)])]
           p == <<messages, window>>
           it == CHOOSE i : Is(i)
<1>1. DroppedEnd(messages, window, b, s) = it[1 .. n]
  BY DEF DroppedEnd, FoldLeft, MapThenFoldSet
<1>2. \A a, x : Step("dropped", p, a, x) = Dropped(messages, window, a, x)
  BY DEF Step
<1>3. \A i : Is(i) <=> Iter(i, "dropped", p, b, s, n)
  BY <1>2 DEF Iter
<1> HIDE DEF Is, p
<1>4. Iter(it, "dropped", p, b, s, n)
  BY <1>3, IterExists
<1> HIDE DEF it
<1>5. \E F : Runs(F, "dropped", p, b, s, n) /\ F[n] = it[1 .. n]
  BY <1>4, IterRuns
<1> QED BY <1>1, <1>5 DEF p

DeclaredEnd(b, s) == FoldLeft(Declared, b, s)

(* A fold ends where its run ends. *)
LEMMA DeclaredFold ==
  ASSUME NEW b, NEW s, NEW n \in Nat, DOMAIN s = 1 .. n
  PROVE  \E F : Runs(F, "declared", <<>>, b, s, n) /\ DeclaredEnd(b, s) = F[n]
<1> DEFINE Is(i) == i = [T \in SUBSET (1 .. n) |-> IF T = {} THEN b ELSE Declared(i[T \ {Max(T)}], s[Max(T)])]
           p == <<>>
           it == CHOOSE i : Is(i)
<1>1. DeclaredEnd(b, s) = it[1 .. n]
  BY DEF DeclaredEnd, FoldLeft, MapThenFoldSet
<1>2. \A a, x : Step("declared", p, a, x) = Declared(a, x)
  BY DEF Step
<1>3. \A i : Is(i) <=> Iter(i, "declared", p, b, s, n)
  BY <1>2 DEF Iter
<1> HIDE DEF Is, p
<1>4. Iter(it, "declared", p, b, s, n)
  BY <1>3, IterExists
<1> HIDE DEF it
<1>5. \E F : Runs(F, "declared", p, b, s, n) /\ F[n] = it[1 .. n]
  BY <1>4, IterRuns
<1> QED BY <1>1, <1>5 DEF p

MergeDeclsEnd(b, s) == FoldLeft(MergeDecls, b, s)

(* A fold ends where its run ends. *)
LEMMA MergeDeclsFold ==
  ASSUME NEW b, NEW s, NEW n \in Nat, DOMAIN s = 1 .. n
  PROVE  \E F : Runs(F, "merged", <<>>, b, s, n) /\ MergeDeclsEnd(b, s) = F[n]
<1> DEFINE Is(i) == i = [T \in SUBSET (1 .. n) |-> IF T = {} THEN b ELSE MergeDecls(i[T \ {Max(T)}], s[Max(T)])]
           p == <<>>
           it == CHOOSE i : Is(i)
<1>1. MergeDeclsEnd(b, s) = it[1 .. n]
  BY DEF MergeDeclsEnd, FoldLeft, MapThenFoldSet
<1>2. \A a, x : Step("merged", p, a, x) = MergeDecls(a, x)
  BY DEF Step
<1>3. \A i : Is(i) <=> Iter(i, "merged", p, b, s, n)
  BY <1>2 DEF Iter
<1> HIDE DEF Is, p
<1>4. Iter(it, "merged", p, b, s, n)
  BY <1>3, IterExists
<1> HIDE DEF it
<1>5. \E F : Runs(F, "merged", p, b, s, n) /\ F[n] = it[1 .. n]
  BY <1>4, IterRuns
<1> QED BY <1>1, <1>5 DEF p

UpdatedEnd(schema, b, s) == FoldLeft(LAMBDA st, u : Updated(schema, st, u), b, s)

(* A fold ends where its run ends. *)
LEMMA UpdatedFold ==
  ASSUME NEW schema, NEW b, NEW s, NEW n \in Nat, DOMAIN s = 1 .. n
  PROVE  \E F : Runs(F, "updated", <<schema>>, b, s, n) /\ UpdatedEnd(schema, b, s) = F[n]
<1> DEFINE Is(i) == i = [T \in SUBSET (1 .. n) |-> IF T = {} THEN b ELSE Updated(schema, i[T \ {Max(T)}], s[Max(T)])]
           p == <<schema>>
           it == CHOOSE i : Is(i)
<1>1. UpdatedEnd(schema, b, s) = it[1 .. n]
  BY DEF UpdatedEnd, FoldLeft, MapThenFoldSet
<1>2. \A a, x : Step("updated", p, a, x) = Updated(schema, a, x)
  BY DEF Step
<1>3. \A i : Is(i) <=> Iter(i, "updated", p, b, s, n)
  BY <1>2 DEF Iter
<1> HIDE DEF Is, p
<1>4. Iter(it, "updated", p, b, s, n)
  BY <1>3, IterExists
<1> HIDE DEF it
<1>5. \E F : Runs(F, "updated", p, b, s, n) /\ F[n] = it[1 .. n]
  BY <1>4, IterRuns
<1> QED BY <1>1, <1>5 DEF p


-----------------------------------------------------------------------------
(* What a job answers, and that its input is one the program can be in. *)

Computed ==
  /\ RealInput(input)
  /\ Answered("messages") => answer = BuildMessages(input.plan, input.history, input.included)
  /\ Answered("trim") => answer = TrimHistory(input.messages, input.window)
  /\ Answered("turn") => answer = TurnAnswer(input)
  /\ Answered("server") => answer = ServerAnswer(input)
  /\ Answered("preview") => answer = Preview(input.arguments)
  /\ Answered("redirect") => answer = Visited(input.origin, input.hops)
  /\ Answered("settings") => answer = SessionAnswer(input)
  /\ Answered("provider") => answer = ProviderAnswer(input)

(* Nothing has been answered yet. *)
LEMMA ComputedInit == Init => Computed
  BY InputsAssumption DEF Init, Computed, Answered

(* Only an action answers, once, and with what the operation returns. *)
LEMMA ComputedStep == Computed /\ [Next]_vars => Computed'
<1> SUFFICES ASSUME Computed, [Next]_vars PROVE Computed'
  OBVIOUS
<1>1. CASE UNCHANGED vars
  BY <1>1 DEF Computed, vars, Answered
<1>2. CASE Next
  <2>1. UNCHANGED input /\ done' /\ ~done
    BY <1>2 DEF Next, RunActivate, RunRequest, RunMessages, RunTrim, RunTurn, RunCard, RunXml,
                RunTree, RunFiles, RunPersist, RunStream, RunBody, RunRegistry, RunServer, RunPreview,
                RunRedirect, RunSession, RunProvider, RunCalculate, Answers
  <2>2. RealInput(input')
    BY <2>1 DEF Computed
  <2>3. CASE RunServer
    BY <2>1, <2>2, <2>3 DEF RunServer, Answers, Computed, Answered
  <2>4. CASE RunPreview
    BY <2>1, <2>2, <2>4 DEF RunPreview, Answers, Computed, Answered
  <2>5. CASE RunRedirect
    BY <2>1, <2>2, <2>5 DEF RunRedirect, Answers, Computed, Answered
  <2>6. CASE RunSession
    BY <2>1, <2>2, <2>6 DEF RunSession, Answers, Computed, Answered
  <2>7. CASE RunProvider
    BY <2>1, <2>2, <2>7 DEF RunProvider, Answers, Computed, Answered
  <2>8. CASE RunActivate \/ RunRequest
    BY <2>1, <2>2, <2>8 DEF RunActivate, RunRequest, Answers, Computed, Answered
  <2>9. CASE RunCard \/ RunXml \/ RunTree \/ RunFiles
    BY <2>1, <2>2, <2>9 DEF RunCard, RunXml, RunTree, RunFiles, Answers, Computed, Answered
  <2>10. CASE RunPersist \/ RunStream \/ RunBody \/ RunRegistry \/ RunCalculate
    BY <2>1, <2>2, <2>10
       DEF RunPersist, RunStream, RunBody, RunRegistry, RunCalculate, Answers, Computed, Answered
  <2>11. CASE RunMessages
    BY <2>1, <2>2, <2>11 DEF RunMessages, Answers, Computed, Answered
  <2>12. CASE RunTrim
    BY <2>1, <2>2, <2>12 DEF RunTrim, Answers, Computed, Answered
  <2>13. CASE RunTurn
    BY <2>1, <2>2, <2>13 DEF RunTurn, Answers, Computed, Answered
  <2> QED BY <1>2, <2>3, <2>4, <2>5, <2>6, <2>7, <2>8, <2>9, <2>10, <2>11, <2>12,
            <2>13 DEF Next
<1> QED BY <1>1, <1>2

(* Every answer is the one its input calls for. *)
THEOREM EveryAnswerComputed == Spec => []Computed
  BY ComputedInit, ComputedStep, PTL DEF Spec

-----------------------------------------------------------------------------
(* Secrets: redirects. *)

LEMMA VisitedStays ==
  ASSUME NEW origin, NEW hops \in Seq(STRING)
  PROVE  ToSet(Visited(origin, hops)) = {origin} /\ Len(Visited(origin, hops)) <= MaxRedirects
<1> DEFINE c == [i \in DOMAIN hops |-> hops[i] # origin \/ i >= MaxRedirects]
           I == {i \in 1 .. Len(hops) : hops[i] # origin \/ i >= MaxRedirects}
           stop == IF I # {} THEN Min(I) ELSE 0
           kept == IF stop = 0 THEN hops ELSE SubSeq(hops, 1, stop - 1)
<1>1. MaxRedirects \in Nat \ {0}
  BY McpAssumption
<1>2. Len(c) = Len(hops) /\ {i \in 1 .. Len(c) : c[i]} = I
  <2>1. DOMAIN hops = 1 .. Len(hops) /\ Len(hops) \in Nat
    OBVIOUS
  <2>2. c \in [1 .. Len(hops) -> BOOLEAN]
    BY <2>1
  <2>3. Len(c) = Len(hops)
    <3> HIDE DEF c
    <3>1. c \in Seq(BOOLEAN) /\ DOMAIN c = 1 .. Len(hops)
      BY <2>1, <2>2
    <3> QED BY <3>1, <2>1
  <2> QED BY <2>1, <2>3
<1>3. Visited(origin, hops) = <<origin>> \o kept
  <2>1. SelectInSeq(c, LAMBDA b : b) = stop
    BY <1>2 DEF SelectInSeq
  <2> HIDE DEF stop
  <2> QED BY <2>1 DEF Visited
<1>4. kept \in Seq(STRING) /\ Len(kept) < MaxRedirects /\ \A i \in 1 .. Len(kept) : kept[i] = origin
  <2>1. CASE I = {}
    <3>1. kept = hops
      BY <2>1
    <3>2. \A i \in 1 .. Len(hops) : hops[i] = origin /\ ~(i >= MaxRedirects)
      BY <2>1
    <3>3. Len(hops) < MaxRedirects
      <4>1. Len(hops) \in Nat
        OBVIOUS
      <4>2. Len(hops) # 0 => Len(hops) \in 1 .. Len(hops)
        BY <4>1
      <4> QED BY <4>1, <4>2, <3>2, <1>1
    <3> HIDE DEF kept
    <3> QED BY <3>1, <3>2, <3>3
  <2>2. CASE I # {}
    <3> DEFINE m == Min(I)
    <3>1. m \in I /\ \A y \in I : m <= y
      <4>1. I \in SUBSET Nat
        OBVIOUS
      <4> HIDE DEF I
      <4> QED BY <4>1, <2>2, MinIn
    <3>2. kept = SubSeq(hops, 1, m - 1)
      <4>1. stop = m /\ m # 0
        BY <2>2, <3>1
      <4> HIDE DEF stop, m
      <4> QED BY <4>1
    <3> HIDE DEF m
    <3>3. m \in 1 .. Len(hops) /\ \A i \in 1 .. (m - 1) : i \notin I
      BY <3>1
    <3>4. \A i \in 1 .. (m - 1) : hops[i] = origin /\ i < MaxRedirects
      BY <3>3, <1>1
    <3>5. Len(kept) = m - 1 /\ kept \in Seq(STRING) /\ \A i \in 1 .. (m - 1) : kept[i] = hops[i]
      <4> HIDE DEF kept, I
      <4> QED BY <3>2, <3>3
    <3>6. m - 1 < MaxRedirects
      <4>1. m - 1 \in Nat /\ (m - 1 # 0 => m - 1 \in 1 .. (m - 1))
        BY <3>3
      <4> QED BY <4>1, <3>4, <1>1
    <3> HIDE DEF kept, I
    <3> QED BY <3>4, <3>5, <3>6
  <2> QED BY <2>1, <2>2
<1> HIDE DEF kept
<1>5. Len(<<origin>> \o kept) = Len(kept) + 1 /\ DOMAIN (<<origin>> \o kept) = 1 .. (Len(kept) + 1)
  BY <1>4
<1>6. \A i \in 1 .. (Len(kept) + 1) : (<<origin>> \o kept)[i] = origin
  BY <1>4
<1>7. Len(kept) \in Nat
  BY <1>4
<1> QED BY <1>1, <1>3, <1>4, <1>5, <1>6, <1>7 DEF ToSet

-----------------------------------------------------------------------------
(* Secrets: previews. *)

FlatIter(f, q, n) == f = [i \in 1 .. n |-> IF i = 1 THEN q[i] ELSE f[i - 1] \o q[i]]

(* The function by which FlattenSeq is defined exists. *)
LEMMA FlatIterExists == ASSUME NEW q, NEW n \in Nat PROVE \E f : FlatIter(f, q, n)
<1> DEFINE Bad == {k \in Nat : ~ \E f : FlatIter(f, q, k)}
<1> SUFFICES ASSUME Bad # {} PROVE FALSE
  OBVIOUS
<1>1. PICK k \in Bad : \A j \in Bad : k <= j
  <2> HIDE DEF Bad
  <2>1. Bad \in SUBSET Nat
    BY DEF Bad
  <2> QED BY <2>1, Least
<1>2. CASE k = 0
  <2>1. FlatIter(<<>>, q, 0)
    BY DEF FlatIter
  <2> QED BY <2>1, <1>2, <1>1
<1>3. CASE k # 0
  <2>1. k - 1 \in Nat /\ k - 1 \notin Bad
    BY <1>1, <1>3
  <2>2. PICK f : FlatIter(f, q, k - 1)
    BY <2>1
  <2> DEFINE H(i, g) == IF i = 1 THEN q[i] ELSE g[i - 1] \o q[i]
             h == [i \in 1 .. k |-> H(i, f)]
  <2>3. f = [i \in 1 .. (k - 1) |-> H(i, f)]
    BY <2>2 DEF FlatIter
  <2>4. ASSUME NEW i \in 1 .. (k - 1) PROVE h[i] = f[i]
    <3>1. i \in 1 .. k
      BY <2>4
    <3> HIDE DEF H
    <3> QED BY <3>1, <2>3, <2>4
  <2>5. ASSUME NEW i \in 1 .. k PROVE H(i, f) = H(i, h)
    <3>1. i # 1 => i - 1 \in 1 .. (k - 1)
      BY <2>5, <1>1
    <3> HIDE DEF h
    <3> QED BY <3>1, <2>4
  <2>6. h = [i \in 1 .. k |-> H(i, h)]
    <3>1. h = [i \in 1 .. k |-> H(i, f)]
      OBVIOUS
    <3> HIDE DEF H, h
    <3> QED BY <3>1, <2>5
  <2>7. FlatIter(h, q, k)
    <3> HIDE DEF h
    <3> QED BY <2>6 DEF FlatIter
  <2> QED BY <2>7, <1>1
<1> QED BY <1>2, <1>3

(* What is put end to end is made of what it is put together from. *)
LEMMA FlattenIn ==
  ASSUME NEW S, NEW q \in Seq(Seq(S)) PROVE FlattenSeq(q) \in Seq(S)
<1> DEFINE n == Len(q)
<1>1. n \in Nat /\ Len(q) = n /\ DOMAIN q = 1 .. n /\ \A i \in 1 .. n : q[i] \in Seq(S)
  OBVIOUS
<1> HIDE DEF n
<1>2. CASE n = 0
  BY <1>1, <1>2 DEF FlattenSeq
<1>3. CASE n # 0
  <2> DEFINE f == CHOOSE f : FlatIter(f, q, n)
  <2>1. FlattenSeq(q) = f[n]
    BY <1>1, <1>3 DEF FlattenSeq, FlatIter
  <2>2. FlatIter(f, q, n)
    BY <1>1, FlatIterExists
  <2> HIDE DEF f
  <2>3. f = [i \in 1 .. n |-> IF i = 1 THEN q[i] ELSE f[i - 1] \o q[i]]
    BY <2>2 DEF FlatIter
  <2> DEFINE Bad == {k \in 1 .. n : f[k] \notin Seq(S)}
  <2>4. Bad = {}
    <3> SUFFICES ASSUME Bad # {} PROVE FALSE
      OBVIOUS
    <3>1. PICK k \in Bad : \A j \in Bad : k <= j
      <4> HIDE DEF Bad
      <4>1. Bad \in SUBSET Nat
        BY DEF Bad
      <4> QED BY <4>1, Least
    <3>2. k \in 1 .. n /\ f[k] \notin Seq(S)
      OBVIOUS
    <3>3. k # 1 /\ f[k] = f[k - 1] \o q[k]
      BY <3>2, <2>3, <1>1
    <3>4. f[k - 1] \in Seq(S)
      BY <3>1, <3>2, <3>3, <1>1
    <3> QED BY <3>2, <3>3, <3>4, <1>1
  <2>5. n \in 1 .. n
    BY <1>1, <1>3
  <2> QED BY <2>1, <2>4, <2>5
<1> QED BY <1>2, <1>3

(* A value, and one that holds nothing a caller wants kept. *)
Values == [path : Seq(STRING), text : STRING \cup {"[redacted]"}]
Plain == {v \in Values : v.text # "hidden" /\ "hidden" \notin ToSet(v.path)}
Words == (STRING \cup {"[redacted]", "..."}) \ {"hidden"}

(* The last member of a sequence is one of its members. *)
LEMMA LastIn == ASSUME NEW s \in Seq(STRING), s # <<>> PROVE Last(s) \in ToSet(s)
<1>1. Len(s) \in Nat /\ DOMAIN s = 1 .. Len(s) /\ Len(s) # 0
  OBVIOUS
<1>2. Len(s) \in 1 .. Len(s)
  BY <1>1
<1> QED BY <1>1, <1>2 DEF Last, ToSet

(* What a conditional singleton holds. *)
LEMMA OneOrNone == ASSUME NEW S, NEW x \in S PROVE <<>> \in Seq(S) /\ <<x>> \in Seq(S)
  OBVIOUS

(* The members of a sequence over S are in S. *)
LEMMA ElementIn == ASSUME NEW S, NEW s \in Seq(S), NEW i \in DOMAIN s PROVE s[i] \in S
  OBVIOUS

(* What is redacted holds no hidden text, and its paths no hidden key. *)
LEMMA RedactPlain == ASSUME NEW args, RealArguments(args) PROVE Redact(args) \in Seq(Plain)
<1> DEFINE Seen(v) == IF v.path # <<>> /\ Sensitive(Front(v.path)) THEN <<>>
                      ELSE <<[v EXCEPT !.text = IF Sensitive(v.path) THEN "[redacted]" ELSE @]>>
           q == [i \in DOMAIN args |-> Seen(args[i])]
<1>1. args \in Seq([path : Seq(STRING), text : STRING])
  BY DEF RealArguments
<1>2. ASSUME NEW i \in DOMAIN args PROVE Seen(args[i]) \in Seq(Plain)
  <2>1. PICK v : v = args[i]
    OBVIOUS
  <2>2. v \in Values
    <3>1. args[i] \in [path : Seq(STRING), text : STRING]
      BY <1>1, <1>2, ElementIn
    <3> QED BY <3>1, <2>1 DEF Values
  <2>3. (v.text = "hidden" => Sensitive(v.path)) /\ "hidden" \notin ToSet(v.path)
    BY <1>2, <2>1 DEF RealArguments
  <2> DEFINE w == [v EXCEPT !.text = IF Sensitive(v.path) THEN "[redacted]" ELSE @]
  <2>4. w \in Values /\ w.path = v.path /\ w.text # "hidden"
    BY <2>2, <2>3 DEF Values
  <2>5. w \in Plain
    <3> HIDE DEF w
    <3> QED BY <2>3, <2>4 DEF Plain
  <2>6. Seen(args[i]) \in {<<>>, <<w>>}
    BY <2>1
  <2>7. <<>> \in Seq(Plain) /\ <<w>> \in Seq(Plain)
    BY <2>5, OneOrNone
  <2> HIDE DEF Seen, w
  <2> QED BY <2>6, <2>7
<1>3. q \in Seq(Seq(Plain))
  <2>1. DOMAIN args = 1 .. Len(args) /\ Len(args) \in Nat
    BY <1>1
  <2> HIDE DEF Seen
  <2> QED BY <1>2, <2>1
<1>4. Redact(args) = FlattenSeq(q)
  BY DEF Redact
<1> HIDE DEF q
<1> QED BY <1>3, <1>4, FlattenIn

(* What is printed of it holds none either. *)
LEMMA PrintedPlain == ASSUME NEW args \in Seq(Plain) PROVE Printed(args) \in Seq(Words)
<1> DEFINE Key(v) == IF v.path = <<>> \/ Last(v.path) = "[]" THEN <<>> ELSE <<Last(v.path)>>
           Told(v) == Key(v) \o (IF v.text = "" THEN <<>> ELSE <<v.text>>)
           q == [i \in DOMAIN args |-> Told(args[i])]
<1>1. ASSUME NEW v \in Plain PROVE Told(v) \in Seq(Words)
  <2>1. v.path \in Seq(STRING) /\ v.text \in Words /\ "hidden" \notin ToSet(v.path)
    BY <1>1 DEF Plain, Values, Words
  <2>2. v.path # <<>> => Last(v.path) \in ToSet(v.path)
    BY <2>1, LastIn
  <2>3. v.path # <<>> => Last(v.path) \in Words
    <3>1. ToSet(v.path) \subseteq STRING
      BY <2>1 DEF ToSet
    <3> QED BY <2>1, <2>2, <3>1 DEF Words
  <2> DEFINE words == IF v.text = "" THEN <<>> ELSE <<v.text>>
  <2>4. Key(v) \in Seq(Words)
    <3>1. CASE v.path = <<>> \/ Last(v.path) = "[]"
      BY <3>1
    <3>2. CASE ~(v.path = <<>> \/ Last(v.path) = "[]")
      <4>1. <<Last(v.path)>> \in Seq(Words) /\ Key(v) = <<Last(v.path)>>
        BY <3>2, <2>3
      <4> QED BY <4>1
    <3> QED BY <3>1, <3>2
  <2>5. words \in Seq(Words)
    <3>1. <<>> \in Seq(Words) /\ <<v.text>> \in Seq(Words)
      BY <2>1, OneOrNone
    <3> QED BY <3>1
  <2>6. Told(v) = Key(v) \o words
    OBVIOUS
  <2> HIDE DEF Key, words, Told
  <2> QED BY <2>4, <2>5, <2>6
<1>2. q \in Seq(Seq(Words))
  <2>1. DOMAIN args = 1 .. Len(args) /\ Len(args) \in Nat /\ \A i \in DOMAIN args : args[i] \in Plain
    OBVIOUS
  <2> HIDE DEF Told
  <2> QED BY <1>1, <2>1
<1>3. Printed(args) = FlattenSeq(q)
  BY DEF Printed
<1> HIDE DEF q
<1> QED BY <1>2, <1>3, FlattenIn

(* A preview shows nothing hidden, and is bounded. *)
LEMMA PreviewHides ==
  ASSUME NEW args, RealArguments(args)
  PROVE  "hidden" \notin ToSet(Preview(args)) /\ Len(Preview(args)) <= MaxPreview + 1
<1> DEFINE words == Printed(Redact(args))
           p == IF Len(words) > MaxPreview THEN SubSeq(words, 1, MaxPreview) \o <<"...">> ELSE words
<1>1. words \in Seq(Words)
  BY RedactPlain, PrintedPlain
<1>2. Preview(args) = p
  BY DEF Preview
<1> HIDE DEF words
<1>3. MaxPreview \in Nat
  BY McpAssumption
<1>4. p \in Seq(Words) /\ Len(p) <= MaxPreview + 1
  <2>1. "..." \in Words
    BY DEF Words
  <2>2. CASE Len(words) > MaxPreview
    <3>1. SubSeq(words, 1, MaxPreview) \in Seq(Words) /\ Len(SubSeq(words, 1, MaxPreview)) = MaxPreview
      BY <1>1, <1>3, <2>2
    <3> QED BY <1>3, <2>1, <2>2, <3>1
  <2>3. CASE ~(Len(words) > MaxPreview)
    <3>1. p = words /\ Len(words) \in Nat
      BY <1>1, <2>3
    <3> QED BY <1>1, <1>3, <2>3, <3>1
  <2> QED BY <2>2, <2>3
<1> HIDE DEF p
<1>5. ToSet(p) \subseteq Words
  BY <1>4 DEF ToSet
<1> QED BY <1>2, <1>4, <1>5 DEF Words

-----------------------------------------------------------------------------
(* Secrets: records. *)

LEMMA RedactedHides ==
  ASSUME NEW c \in McpConfigs
  PROVE  ~HasSecrets(Redacted(c)) /\ Redacted(c).hasSecret = HasSecrets(c)
<1> DEFINE ps == [i \in DOMAIN c.pairs |-> [c.pairs[i] EXCEPT !.secret = ""]]
<1>1. Redacted(c) = [c EXCEPT !.pairs = ps, !.hasSecret = HasSecrets(c)]
  BY DEF Redacted, McpConfigs
<1>2. Redacted(c).pairs = ps /\ Redacted(c).hasSecret = HasSecrets(c)
  BY <1>1 DEF McpConfigs
<1>3. \A i \in DOMAIN ps : ps[i].secret = ""
  BY DEF McpConfigs
<1> HIDE DEF ps
<1> QED BY <1>2, <1>3 DEF HasSecrets

PairSeqs == Seq([key : STRING, secret : STRING])

(* A blank secret keeps the first one that is stored under its key. *)
LEMMA MergeKeeps ==
  ASSUME NEW stored \in PairSeqs, NEW incoming \in PairSeqs,
         NEW i \in DOMAIN incoming, NEW j \in DOMAIN stored,
         incoming[i].key = stored[j].key, \A k \in 1 .. (j - 1) : stored[k].key # stored[j].key
  PROVE  MergePairs(stored, incoming)[i].secret =
           IF incoming[i].secret = "" THEN stored[j].secret ELSE incoming[i].secret
<1> DEFINE key == incoming[i].key
           I == {k \in 1 .. Len(stored) : stored[k].key = key}
           at == SelectInSeq(stored, LAMBDA p : p.key = key)
           kept == IF at = 0 THEN "" ELSE stored[at].secret
<1>1. at = j
  <2>1. j \in I /\ \A k \in I : j <= k
    BY DEF PairSeqs
  <2>2. I \in SUBSET Nat
    OBVIOUS
  <2>3. at = Min(I)
    <3>1. at = IF I # {} THEN Min(I) ELSE 0
      BY DEF SelectInSeq
    <3> HIDE DEF at, I
    <3> QED BY <3>1, <2>1
  <2> HIDE DEF I, at
  <2>4. Min(I) \in I /\ \A k \in I : Min(I) <= k
    BY <2>1, <2>2, MinIn
  <2>5. j \in Nat /\ Min(I) \in Nat /\ j <= Min(I) /\ Min(I) <= j
    BY <2>1, <2>2, <2>4
  <2> QED BY <2>3, <2>5
<1>2. kept = stored[j].secret
  <2>1. j # 0
    BY DEF PairSeqs
  <2> HIDE DEF at
  <2> QED BY <1>1, <2>1
<1>3. MergePairs(stored, incoming)[i] = [incoming[i] EXCEPT !.secret = IF @ = "" THEN kept ELSE @]
  BY DEF MergePairs, PairSeqs
<1> HIDE DEF kept, at
<1>4. incoming[i] \in [key : STRING, secret : STRING]
  BY ElementIn DEF PairSeqs
<1> QED BY <1>2, <1>3, <1>4

(* Merging keeps what is typed, and the first secret of a key that is      *)
(* left blank.                                                             *)
LEMMA MergePairsKeys ==
  ASSUME NEW stored \in PairSeqs, NEW incoming \in PairSeqs
  PROVE  /\ DOMAIN MergePairs(stored, incoming) = DOMAIN incoming
         /\ \A i \in DOMAIN incoming : MergePairs(stored, incoming)[i].key = incoming[i].key
<1> DEFINE Kept(key) == LET i == SelectInSeq(stored, LAMBDA p : p.key = key)
                        IN  IF i = 0 THEN "" ELSE stored[i].secret
           merged == [i \in DOMAIN incoming |->
                        [incoming[i] EXCEPT !.secret = IF @ = "" THEN Kept(incoming[i].key) ELSE @]]
<1>1. MergePairs(stored, incoming) = merged
  BY DEF MergePairs
<1>2. \A i \in DOMAIN incoming : incoming[i] \in [key : STRING, secret : STRING]
  BY ElementIn DEF PairSeqs
<1> HIDE DEF Kept
<1>3. DOMAIN merged = DOMAIN incoming /\ \A i \in DOMAIN incoming : merged[i].key = incoming[i].key
  BY <1>2
<1> QED BY <1>1, <1>3

(* An update that is not refused stores the merged pairs. *)
LEMMA UpdateKeepsSecrets ==
  ASSUME NEW table, NEW id \in DOMAIN table, \A k \in DOMAIN table : table[k] \in McpConfigs,
         NEW incoming \in McpConfigs, incoming.id = id, incoming.kind = table[id].kind,
         UpdateServer(table, id, incoming) # Refused
  PROVE  UpdateServer(table, id, incoming)[id].pairs = MergePairs(table[id].pairs, incoming.pairs)
<1> DEFINE merged == MergeSecrets(table[id], incoming)
<1>1. merged.id = id /\ merged.pairs = MergePairs(table[id].pairs, incoming.pairs)
  BY DEF MergeSecrets, McpConfigs
<1> HIDE DEF merged
<1>2. UpdateServer(table, id, incoming) = [k \in DOMAIN table |-> IF k = merged.id THEN merged ELSE table[k]]
  BY DEF UpdateServer, merged
<1> QED BY <1>1, <1>2

(* An update changes no record but the one the body names. *)
LEMMA UpdateTouchesOne ==
  ASSUME NEW table, NEW id, NEW incoming \in McpConfigs,
         UpdateServer(table, id, incoming) # Refused
  PROVE  \A k \in DOMAIN table \ {incoming.id} : UpdateServer(table, id, incoming)[k] = table[k]
<1> DEFINE merged == MergeSecrets(table[id], incoming)
<1>1. merged.id = incoming.id
  BY DEF MergeSecrets, McpConfigs
<1> HIDE DEF merged
<1>2. UpdateServer(table, id, incoming) = [k \in DOMAIN table |-> IF k = merged.id THEN merged ELSE table[k]]
  BY DEF UpdateServer, merged
<1> QED BY <1>1, <1>2

(* An answer that is computed keeps the secrets. *)
LEMMA SecretsStayStep == Computed => SecretsStay
<1> SUFFICES ASSUME Computed PROVE SecretsStay
  OBVIOUS
<1>1. CASE Answered("server")
  <2>1. RealConfigs(input) /\ answer = ServerAnswer(input)
    BY <1>1 DEF Computed, RealInput, Answered
  <2> DEFINE old == input.table[input.id]
  <2>2. answer.shown = Redacted(old)
    BY <2>1 DEF ServerAnswer
  <2>3. ~HasSecrets(answer.shown) /\ answer.shown.hasSecret = HasSecrets(old)
    BY <2>1, <2>2, RedactedHides DEF RealConfigs
  <2>4. ASSUME input.op = "update", answer.saved # Refused, input.config.id = input.id,
               input.config.kind = old.kind,
               NEW i \in DOMAIN answer.saved[input.id].pairs, NEW j \in DOMAIN old.pairs,
               answer.saved[input.id].pairs[i].key = old.pairs[j].key,
               \A k \in 1 .. (j - 1) : old.pairs[k].key # old.pairs[j].key
        PROVE  answer.saved[input.id].pairs[i].secret =
                 IF input.config.pairs[i].secret = "" THEN old.pairs[j].secret
                 ELSE input.config.pairs[i].secret
    <3>1. answer.saved = UpdateServer(input.table, input.id, input.config)
      BY <2>1, <2>4 DEF ServerAnswer
    <3>2. answer.saved[input.id].pairs = MergePairs(old.pairs, input.config.pairs)
      BY <2>1, <2>4, <3>1, UpdateKeepsSecrets DEF RealConfigs
    <3>3. old.pairs \in PairSeqs /\ input.config.pairs \in PairSeqs
      BY <2>1 DEF RealConfigs, McpConfigs, PairSeqs
    <3> HIDE DEF old
    <3>4. i \in DOMAIN input.config.pairs /\ input.config.pairs[i].key = old.pairs[j].key
      BY <2>4, <3>2, <3>3, MergePairsKeys
    <3>5. j \in DOMAIN old.pairs /\ \A k \in 1 .. (j - 1) : old.pairs[k].key # old.pairs[j].key
      BY <2>4 DEF old
    <3>6. PICK ps, qs : ps = old.pairs /\ qs = input.config.pairs
      OBVIOUS
    <3>7. MergePairs(ps, qs)[i].secret = IF qs[i].secret = "" THEN ps[j].secret ELSE qs[i].secret
      BY <3>3, <3>4, <3>5, <3>6, MergeKeeps
    <3> QED BY <3>2, <3>6, <3>7
  <2>5. ASSUME input.op = "update", answer.saved # Refused
        PROVE  \A k \in DOMAIN input.table \ {input.config.id} : answer.saved[k] = input.table[k]
    BY <2>1, <2>5, UpdateTouchesOne DEF ServerAnswer, RealConfigs
  <2>6. EditsKeepSecrets
    BY <2>3, <2>4, <2>5 DEF EditsKeepSecrets
  <2>7. NothingSecretLeaves
    BY <1>1 DEF NothingSecretLeaves, Answered
  <2> QED BY <2>6, <2>7 DEF SecretsStay
<1>2. CASE Answered("redirect")
  <2>1. input.hops \in Seq(STRING) /\ answer = Visited(input.origin, input.hops)
    BY <1>2 DEF Computed, RealInput, Answered
  <2>2. ToSet(answer) = {input.origin} /\ Len(answer) <= MaxRedirects
    BY <2>1, VisitedStays
  <2> QED BY <1>2, <2>2 DEF SecretsStay, EditsKeepSecrets, NothingSecretLeaves, Answered
<1>3. CASE Answered("preview")
  <2>1. RealArguments(input.arguments) /\ answer = Preview(input.arguments)
    BY <1>3 DEF Computed, RealInput, Answered
  <2>2. "hidden" \notin ToSet(answer) /\ Len(answer) <= MaxPreview + 1
    BY <2>1, PreviewHides
  <2> QED BY <1>3, <2>2 DEF SecretsStay, EditsKeepSecrets, NothingSecretLeaves, Answered
<1>4. CASE ~Answered("server") /\ ~Answered("redirect") /\ ~Answered("preview")
  BY <1>4 DEF SecretsStay, EditsKeepSecrets, NothingSecretLeaves
<1> QED BY <1>1, <1>2, <1>3, <1>4

(* What the API shows of an MCP server holds no secret; an edit changes no *)
(* record but the one its body names, and loses no secret there, if that   *)
(* is the server of its path, its transport is of the same kind and no key *)
(* of it stands twice; a redirect takes no secret to another place, and a  *)
(* call that waits for consent shows none, for every table, edit, chain of *)
(* redirects and tree of arguments.                                        *)
THEOREM ServersKeepSecrets == Spec => []SecretsStay
  BY EveryAnswerComputed, SecretsStayStep, PTL

-----------------------------------------------------------------------------
(* Settings: the limits of a run. *)

FieldNames == {"enabled", "rounds", "calls", "timeout", "repeats", "tools", "prompt", "unfinished"}

(* The fields of a block and their types. *)
LEMMA FieldFacts ==
  /\ DOMAIN FieldType = FieldNames
  /\ FieldType["enabled"] = "bool" /\ FieldType["rounds"] = "num" /\ FieldType["calls"] = "num"
  /\ FieldType["timeout"] = "num" /\ FieldType["repeats"] = "num" /\ FieldType["tools"] = "names"
  /\ FieldType["prompt"] = "text" /\ FieldType["unfinished"] = "text"
  /\ DOMAIN OfType = {"bool", "num", "names", "text"}
  /\ OfType["num"] = Nat
  BY DEF FieldType, FieldNames, OfType

(* A field of a block has the type of its name. *)
LEMMA FieldTyped == \A f \in FieldNames : FieldType[f] \in DOMAIN OfType
  BY FieldFacts DEF FieldNames

(* The defaults are a valid block. *)
LEMMA DefaultFacts ==
  /\ DOMAIN DefaultBlock = FieldNames /\ IsBlock(DefaultBlock) /\ Validates(DefaultBlock)
  /\ Hard.rounds \in Nat /\ Hard.calls \in Nat /\ Hard.timeout \in Nat
  /\ U32 \in Nat /\ Hard.rounds < U32 /\ Hard.calls < U32
  BY SettingsAssumption, FieldFacts DEF IsBlock

(* Whatever is stored, a block read from it is a block. *)
LEMMA FromSettingsBlock == ASSUME NEW map, IsTyped(map) PROVE IsBlock(FromSettings(map))
<1> DEFINE b == FromSettings(map)
<1>1. b = [f \in FieldNames |-> b[f]]
  BY DefaultFacts DEF FromSettings
<1>2. ASSUME NEW f \in FieldNames PROVE b[f] \in OfType[FieldType[f]]
  <2> DEFINE key == <<"agent", f>>
  <2>1. b[f] = IF ~Has(map, key, FieldType[f]) THEN DefaultBlock[f]
               ELSE IF f \in Narrow THEN map[key].val % U32 ELSE map[key].val
    BY <1>2, DefaultFacts DEF FromSettings
  <2>2. DefaultBlock[f] \in OfType[FieldType[f]]
    BY <1>2, DefaultFacts DEF IsBlock
  <2>3. Has(map, key, FieldType[f]) => map[key].val \in OfType[FieldType[f]]
    <3> HIDE DEF key
    <3> QED BY DEF Has, IsTyped
  <2>4. f \in Narrow => OfType[FieldType[f]] = Nat
    BY FieldFacts DEF Narrow
  <2>5. \A n \in Nat : n % U32 \in Nat
    BY DefaultFacts
  <2> HIDE DEF b, key
  <2> QED BY <2>1, <2>2, <2>3, <2>4, <2>5
<1> HIDE DEF b
<1> QED BY <1>1, <1>2, FieldFacts DEF IsBlock, b

TypedConfig(config) == config # <<>> => DOMAIN config = {1} /\ IsTyped(config[1])

(* The override of a session is no block or a block. *)
LEMMA OverrideBlock ==
  ASSUME NEW config, TypedConfig(config)
  PROVE  SessionOverride(config) = <<>> \/ \E b : SessionOverride(config) = <<b>> /\ IsBlock(b)
<1> DEFINE json == config[1]
           Reads == \A f \in DOMAIN json : json[f].type = FieldType[f] /\ (f \in Narrow => json[f].val < U32)
           b == [f \in DOMAIN DefaultBlock |-> IF f \in DOMAIN json THEN json[f].val ELSE DefaultBlock[f]]
<1>1. CASE config # <<>> /\ Reads
  <2>1. SessionOverride(config) = <<b>>
    BY <1>1 DEF SessionOverride
  <2>2. b = [f \in FieldNames |-> b[f]]
    BY DefaultFacts
  <2>3. ASSUME NEW f \in FieldNames PROVE b[f] \in OfType[FieldType[f]]
    <3>1. DefaultBlock[f] \in OfType[FieldType[f]]
      BY <2>3, DefaultFacts DEF IsBlock
    <3>2. f \in DOMAIN json => json[f].val \in OfType[FieldType[f]]
      <4>1. IsTyped(json)
        BY <1>1 DEF TypedConfig
      <4> HIDE DEF json
      <4> QED BY <1>1, <4>1 DEF IsTyped
    <3>3. b[f] = IF f \in DOMAIN json THEN json[f].val ELSE DefaultBlock[f]
      BY <2>3, DefaultFacts
    <3> HIDE DEF b, json
    <3> QED BY <3>1, <3>2, <3>3
  <2> HIDE DEF b
  <2>4. IsBlock(b)
    BY <2>2, <2>3, FieldFacts DEF IsBlock
  <2> QED BY <2>1, <2>4
<1>2. CASE ~(config # <<>> /\ Reads)
  BY <1>2 DEF SessionOverride
<1> QED BY <1>1, <1>2

(* The numbers of a block are numbers. *)
LEMMA BlockNumbers ==
  ASSUME NEW b, IsBlock(b)
  PROVE  b.rounds \in Nat /\ b.calls \in Nat /\ b.timeout \in Nat /\ b.repeats \in Nat /\ DOMAIN b = FieldNames
<1>1. DOMAIN b = FieldNames
  BY FieldFacts DEF IsBlock
<1>2. \A f \in FieldNames : FieldType[f] = "num" => b[f] \in Nat
  BY <1>1, FieldFacts DEF IsBlock
<1> QED BY <1>1, <1>2, FieldFacts DEF FieldNames

(* Cutting a block to the limits makes it valid, and leaves a valid one.   *)
LEMMA SanitizedFacts ==
  ASSUME NEW b, IsBlock(b)
  PROVE  Validates(Sanitized(b)) /\ (Validates(b) => Sanitized(b) = b)
<1>1. /\ b.rounds \in Nat /\ b.calls \in Nat /\ b.timeout \in Nat /\ b.repeats \in Nat
      /\ DOMAIN b = FieldNames /\ b = [f \in FieldNames |-> b[f]]
  BY BlockNumbers, FieldFacts DEF IsBlock
<1>2. /\ Hard.rounds \in Nat \ {0} /\ Hard.calls \in Nat \ {0} /\ Hard.timeout \in Nat \ {0}
      /\ DefaultBlock.prompt = "fits" /\ DefaultBlock.unfinished = "fits"
  BY DefaultFacts, BlockNumbers DEF Validates
<1>3. \A n, h \in Nat : h # 0 => Clamp(n, 1, h) \in 1 .. h /\ (n \in 1 .. h => Clamp(n, 1, h) = n)
  BY DEF Clamp
<1>4. PICK s : s = Sanitized(b)
  OBVIOUS
<1>5. /\ s.rounds = Clamp(b.rounds, 1, Hard.rounds) /\ s.calls = Clamp(b.calls, 1, Hard.calls)
      /\ s.timeout = Clamp(b.timeout, 1, Hard.timeout) /\ s.repeats = Clamp(b.repeats, 1, s.rounds)
      /\ s.tools = b.tools \cap CapabilityNames
      /\ s.prompt = (IF b.prompt = "fits" THEN b.prompt ELSE DefaultBlock.prompt)
      /\ s.unfinished = (IF b.unfinished = "fits" THEN b.unfinished ELSE DefaultBlock.unfinished)
      /\ s.enabled = b.enabled /\ s = [f \in FieldNames |-> s[f]]
  BY <1>1, <1>4 DEF Sanitized, FieldNames
<1>6. s.rounds \in 1 .. Hard.rounds /\ s.rounds \in Nat \ {0}
  BY <1>1, <1>2, <1>3, <1>5
<1>7. Validates(s)
  BY <1>1, <1>2, <1>3, <1>5, <1>6 DEF Validates
<1>8. ASSUME Validates(b) PROVE s = b
  <2>1. s.rounds = b.rounds /\ s.calls = b.calls /\ s.timeout = b.timeout /\ s.repeats = b.repeats
    BY <1>1, <1>2, <1>3, <1>5, <1>6, <1>8 DEF Validates
  <2>2. s.tools = b.tools /\ s.prompt = b.prompt /\ s.unfinished = b.unfinished /\ s.enabled = b.enabled
    BY <1>5, <1>8 DEF Validates
  <2>3. \A f \in FieldNames : s[f] = b[f]
    BY <2>1, <2>2 DEF FieldNames
  <2> QED BY <1>1, <1>5, <2>3
<1> QED BY <1>4, <1>7, <1>8

Narrowed(b) == \A f \in Narrow : b[f] \in Nat /\ b[f] < U32

(* A valid block fits the width of its fields. *)
LEMMA ValidIsNarrow == ASSUME NEW b, IsBlock(b), Validates(b) PROVE Narrowed(b)
<1>1. b.rounds \in Nat /\ b.calls \in Nat /\ b.repeats \in Nat
  BY BlockNumbers
<1>2. b.rounds < U32 /\ b.calls < U32 /\ b.repeats < U32
  BY <1>1, DefaultFacts DEF Validates
<1> QED BY <1>1, <1>2 DEF Narrowed, Narrow

(* A block is written as typed settings. *)
LEMMA BlockAsSettings ==
  ASSUME NEW b, IsBlock(b)
  PROVE  /\ \A f \in FieldNames : /\ <<"agent", f>> \in DOMAIN ToSettings(b)
                                  /\ ToSettings(b)[<<"agent", f>>] = TypedValue(FieldType[f], b[f])
         /\ \A key \in DOMAIN ToSettings(b) : \E f \in FieldNames : key = <<"agent", f>>
<1>1. DOMAIN b = FieldNames
  BY BlockNumbers
<1>2. DOMAIN ToSettings(b) = {<<"agent", f>> : f \in FieldNames}
  BY <1>1 DEF ToSettings
<1>3. ASSUME NEW f \in FieldNames
      PROVE  ToSettings(b)[<<"agent", f>>] = TypedValue(FieldType[f], b[f])
  <2>1. PICK key : key = <<"agent", f>>
    OBVIOUS
  <2>2. key \in DOMAIN ToSettings(b) /\ key[2] = f
    BY <1>2, <2>1
  <2>3. ToSettings(b)[key] = TypedValue(FieldType[key[2]], b[key[2]])
    BY <1>1, <1>2, <2>2 DEF ToSettings
  <2> QED BY <2>1, <2>2, <2>3
<1> QED BY <1>2, <1>3

(* A field of a block is stored as a value of its type. *)
LEMMA TypedField ==
  ASSUME NEW b, IsBlock(b), NEW f \in FieldNames
  PROVE  LET v == TypedValue(FieldType[f], b[f])
         IN  DOMAIN v = {"type", "val"} /\ v.type \in DOMAIN OfType /\ v.val \in OfType[v.type]
<1>1. b[f] \in OfType[FieldType[f]] /\ FieldType[f] \in DOMAIN OfType
  BY FieldTyped, BlockNumbers DEF IsBlock
<1> QED BY <1>1 DEF TypedValue

(* The settings a block is written as are typed. *)
LEMMA ToSettingsTyped == ASSUME NEW b, IsBlock(b) PROVE IsTyped(ToSettings(b))
<1> SUFFICES ASSUME NEW key \in DOMAIN ToSettings(b)
             PROVE  LET v == ToSettings(b)[key]
                    IN  DOMAIN v = {"type", "val"} /\ v.type \in DOMAIN OfType /\ v.val \in OfType[v.type]
  BY DEF IsTyped
<1>1. PICK f \in FieldNames : key = <<"agent", f>>
  BY BlockAsSettings
<1>2. ToSettings(b)[key] = TypedValue(FieldType[f], b[f])
  BY <1>1, BlockAsSettings
<1> QED BY <1>2, TypedField

(* Typed settings extended by typed settings are typed. *)
LEMMA ExtendedTyped ==
  ASSUME NEW map, NEW pairs, IsTyped(map), IsTyped(pairs) PROVE IsTyped(Extended(map, pairs))
  BY DEF IsTyped, Extended

(* A block that is stored and read again is the same. *)
LEMMA StoredReadsBack ==
  ASSUME NEW map, NEW b, IsBlock(b), Validates(b)
  PROVE  FromSettings(Extended(map, ToSettings(b))) = b
<1> DEFINE m == Extended(map, ToSettings(b))
<1>1. ASSUME NEW f \in FieldNames PROVE FromSettings(m)[f] = b[f]
  <2> DEFINE key == <<"agent", f>>
  <2>1. key \in DOMAIN m /\ m[key] = TypedValue(FieldType[f], b[f])
    BY BlockAsSettings DEF Extended
  <2>2. FromSettings(m)[f] = IF ~Has(m, key, FieldType[f]) THEN DefaultBlock[f]
                             ELSE IF f \in Narrow THEN m[key].val % U32 ELSE m[key].val
    BY <1>1, DefaultFacts DEF FromSettings
  <2> HIDE DEF m, key
  <2>3. Has(m, key, FieldType[f]) /\ m[key].val = b[f]
    BY <2>1 DEF Has, TypedValue
  <2>4. f \in Narrow => b[f] % U32 = b[f]
    BY ValidIsNarrow, DefaultFacts DEF Narrowed
  <2> QED BY <2>2, <2>3, <2>4
<1>2. FromSettings(m) = [f \in FieldNames |-> FromSettings(m)[f]]
  BY DefaultFacts DEF FromSettings
<1>3. b = [f \in FieldNames |-> b[f]]
  BY FieldFacts DEF IsBlock
<1> HIDE DEF m
<1> QED BY <1>1, <1>2, <1>3 DEF m

AsConfig(b) == <<[f \in DOMAIN b |-> TypedValue(FieldType[f], b[f])]>>

(* A valid block that is stored as an override reads back as it was. *)
LEMMA ConfigReadsBack ==
  ASSUME NEW b, IsBlock(b), Validates(b)
  PROVE  TypedConfig(AsConfig(b)) /\ SessionOverride(AsConfig(b)) = <<b>>
<1> DEFINE json == [f \in DOMAIN b |-> TypedValue(FieldType[f], b[f])]
           back == [f \in DOMAIN DefaultBlock |-> IF f \in DOMAIN json THEN json[f].val ELSE DefaultBlock[f]]
<1>1. DOMAIN json = FieldNames /\ b = [f \in FieldNames |-> b[f]]
  BY BlockNumbers, FieldFacts DEF IsBlock
<1>2. \A f \in FieldNames : json[f] = TypedValue(FieldType[f], b[f])
  BY BlockNumbers
<1>3. AsConfig(b) = <<json>>
  BY DEF AsConfig
<1> HIDE DEF json
<1>4. IsTyped(json)
  BY <1>1, <1>2, TypedField DEF IsTyped
<1>5. \A f \in DOMAIN json : json[f].type = FieldType[f] /\ (f \in Narrow => json[f].val < U32)
  BY <1>1, <1>2, ValidIsNarrow DEF TypedValue, Narrowed
<1>6. back = b
  <2>1. ASSUME NEW f \in FieldNames PROVE json[f].val = b[f]
    <3>1. json[f] = TypedValue(FieldType[f], b[f])
      BY <1>2
    <3> QED BY <3>1 DEF TypedValue
  <2>2. back = [f \in FieldNames |-> IF f \in FieldNames THEN json[f].val ELSE DefaultBlock[f]]
    BY <1>1, DefaultFacts
  <2> HIDE DEF back
  <2> QED BY <1>1, <2>1, <2>2
<1>7. SessionOverride(<<json>>) = <<back>>
  <2>1. <<json>> # <<>> /\ <<json>>[1] = json
    OBVIOUS
  <2> QED BY <1>5, <2>1 DEF SessionOverride
<1>8. TypedConfig(<<json>>)
  BY <1>4 DEF TypedConfig
<1> HIDE DEF back
<1> QED BY <1>3, <1>6, <1>7, <1>8

StoreOk(store) == /\ DOMAIN store = {"settings", "config", "shown"}
                  /\ IsTyped(store.settings) /\ TypedConfig(store.config)

(* What a call leaves is well formed, and a valid block that it shows of   *)
(* the session, or of the settings when the session has no override, is    *)
(* the block that is in force.                                             *)
CallFacts(end, op) ==
  /\ StoreOk(end)
  /\ (op \in {"get_session", "put_session", "reset_session"} \/ end.config = <<>>) /\ end.shown # <<>> =>
       (Validates(end.shown[1]) =>
          EffectiveBlock(FromSettings(end.settings), SessionOverride(end.config)) = end.shown[1])

(* What is shown, if anything, is the block in force. *)
LEMMA Views ==
  ASSUME NEW store, NEW override
  PROVE  LET v == View(store, override)
         IN  v # <<>> => v[1] = EffectiveBlock(FromSettings(store.settings), override)
  BY DEF View

(* Each call keeps the store typed and shows what a run will use. *)
LEMMA GetSessionFacts ==
  ASSUME NEW store, StoreOk(store) PROVE CallFacts(GetSession(store), "get_session")
<1> DEFINE override == SessionOverride(store.config)
           shown == IF store.config # <<>> /\ override = <<>> THEN <<>> ELSE View(store, override)
<1>1. PICK end : end = GetSession(store)
  OBVIOUS
<1>2. /\ DOMAIN end = DOMAIN store /\ end.settings = store.settings /\ end.config = store.config
      /\ end.shown = shown
  BY <1>1 DEF GetSession, StoreOk
<1>3. shown # <<>> => shown[1] = EffectiveBlock(FromSettings(store.settings), override)
  BY Views
<1> HIDE DEF shown
<1> QED BY <1>1, <1>2, <1>3 DEF CallFacts, StoreOk

LEMMA UpdateAllFacts ==
  ASSUME NEW store, StoreOk(store), NEW pairs, IsTyped(pairs)
  PROVE  CallFacts(UpdateAll(store, pairs), "update_all")
<1>1. PICK end : end = UpdateAll(store, pairs)
  OBVIOUS
<1>2. /\ DOMAIN end = DOMAIN store /\ end.settings = Extended(store.settings, pairs)
      /\ end.config = store.config /\ end.shown = <<>>
  BY <1>1 DEF UpdateAll, StoreOk
<1>3. IsTyped(end.settings)
  BY <1>2, ExtendedTyped DEF StoreOk
<1> QED BY <1>1, <1>2, <1>3 DEF CallFacts, StoreOk

LEMMA PutGlobalFacts ==
  ASSUME NEW store, StoreOk(store), NEW b, IsBlock(b)
  PROVE  CallFacts(PutGlobal(store, b), "put_global")
<1>1. PICK end : end = PutGlobal(store, b)
  OBVIOUS
<1>2. CASE Validates(b)
  <2>1. /\ DOMAIN end = DOMAIN store /\ end.settings = Extended(store.settings, ToSettings(b))
        /\ end.config = store.config /\ end.shown = <<b>>
    BY <1>1, <1>2 DEF PutGlobal, UpdateAll, StoreOk
  <2>2. IsTyped(end.settings)
    BY <2>1, ExtendedTyped, ToSettingsTyped DEF StoreOk
  <2>3. FromSettings(end.settings) = b
    BY <1>2, <2>1, StoredReadsBack
  <2>4. end.config = <<>> => EffectiveBlock(FromSettings(end.settings), SessionOverride(end.config)) = b
    BY <2>3 DEF SessionOverride, EffectiveBlock
  <2>5. StoreOk(end) /\ end.shown[1] = b
    BY <2>1, <2>2 DEF StoreOk
  <2> QED BY <1>1, <2>4, <2>5 DEF CallFacts
<1>3. CASE ~Validates(b)
  <2>1. /\ DOMAIN end = DOMAIN store /\ end.settings = store.settings /\ end.config = store.config
        /\ end.shown = <<>>
    BY <1>1, <1>3 DEF PutGlobal, StoreOk
  <2> QED BY <1>1, <2>1 DEF CallFacts, StoreOk
<1> QED BY <1>2, <1>3

LEMMA ResetGlobalFacts ==
  ASSUME NEW store, StoreOk(store) PROVE CallFacts(ResetGlobal(store), "reset_global")
<1> DEFINE left == [key \in DOMAIN store.settings \ DOMAIN ToSettings(DefaultBlock) |-> store.settings[key]]
<1>1. PICK end : end = ResetGlobal(store)
  OBVIOUS
<1>2. /\ DOMAIN end = DOMAIN store /\ end.settings = left /\ end.config = store.config
      /\ end.shown = <<DefaultBlock>>
  BY <1>1 DEF ResetGlobal, StoreOk
<1>3. IsTyped(left)
  BY DEF StoreOk, IsTyped
<1>4. \A f \in FieldNames : <<"agent", f>> \notin DOMAIN left
  BY BlockAsSettings, DefaultFacts
<1> HIDE DEF left
<1>5. FromSettings(left) = DefaultBlock
  <2>1. FromSettings(left) = [f \in FieldNames |-> DefaultBlock[f]]
    BY <1>4, DefaultFacts DEF FromSettings, Has
  <2>2. DefaultBlock = [f \in FieldNames |-> DefaultBlock[f]]
    BY DefaultFacts, FieldFacts DEF IsBlock
  <2> QED BY <2>1, <2>2
<1>6. end.config = <<>> =>
        EffectiveBlock(FromSettings(end.settings), SessionOverride(end.config)) = DefaultBlock
  BY <1>2, <1>5 DEF SessionOverride, EffectiveBlock
<1>7. StoreOk(end) /\ end.shown[1] = DefaultBlock
  BY <1>2, <1>3 DEF StoreOk
<1> QED BY <1>1, <1>6, <1>7 DEF CallFacts

LEMMA PutSessionFacts ==
  ASSUME NEW store, StoreOk(store), NEW b, IsBlock(b)
  PROVE  CallFacts(PutSession(store, b), "put_session")
<1>1. PICK end : end = PutSession(store, b)
  OBVIOUS
<1>2. CASE Validates(b)
  <2>1. /\ DOMAIN end = DOMAIN store /\ end.settings = store.settings /\ end.config = AsConfig(b)
        /\ end.shown = View(store, <<b>>)
    BY <1>1, <1>2 DEF PutSession, StoreOk, AsConfig
  <2>2. TypedConfig(end.config) /\ SessionOverride(end.config) = <<b>>
    BY <1>2, <2>1, ConfigReadsBack
  <2>3. end.shown # <<>> => end.shown[1] = EffectiveBlock(FromSettings(store.settings), <<b>>)
    BY <2>1, Views
  <2> QED BY <1>1, <2>1, <2>2, <2>3 DEF CallFacts, StoreOk
<1>3. CASE ~Validates(b)
  <2>1. /\ DOMAIN end = DOMAIN store /\ end.settings = store.settings /\ end.config = store.config
        /\ end.shown = <<>>
    BY <1>1, <1>3 DEF PutSession, StoreOk
  <2> QED BY <1>1, <2>1 DEF CallFacts, StoreOk
<1> QED BY <1>2, <1>3

LEMMA ResetSessionFacts ==
  ASSUME NEW store, StoreOk(store) PROVE CallFacts(ResetSession(store), "reset_session")
<1>1. PICK end : end = ResetSession(store)
  OBVIOUS
<1>2. /\ DOMAIN end = DOMAIN store /\ end.settings = store.settings /\ end.config = <<>>
      /\ end.shown = View(store, <<>>)
  BY <1>1 DEF ResetSession, StoreOk
<1>3. end.shown # <<>> => end.shown[1] = EffectiveBlock(FromSettings(store.settings), <<>>)
  BY <1>2, Views
<1>4. SessionOverride(end.config) = <<>> /\ TypedConfig(end.config)
  BY <1>2 DEF SessionOverride, TypedConfig
<1> QED BY <1>1, <1>2, <1>3, <1>4 DEF CallFacts, StoreOk

(* Each call of the routes keeps what the run relies on. *)
LEMMA CalledFacts ==
  ASSUME NEW store, StoreOk(store), NEW call, RealCall(call)
  PROVE  CallFacts(Called(store, call), call.op)
<1>1. CASE call.op = "get_session"
  BY <1>1, GetSessionFacts DEF Called
<1>2. CASE call.op = "update_all" /\ IsTyped(call.pairs)
  BY <1>2, UpdateAllFacts DEF Called
<1>3. CASE call.op = "put_global" /\ IsBlock(call.block)
  BY <1>3, PutGlobalFacts DEF Called
<1>4. CASE call.op = "reset_global"
  BY <1>4, ResetGlobalFacts DEF Called
<1>5. CASE call.op = "put_session" /\ IsBlock(call.block)
  BY <1>5, PutSessionFacts DEF Called
<1>6. CASE call.op = "reset_session"
  BY <1>6, ResetSessionFacts DEF Called
<1> QED BY <1>1, <1>2, <1>3, <1>4, <1>5, <1>6 DEF RealCall

(* The length and the places of a sequence. *)
LEMMA IsSequenceFacts ==
  ASSUME NEW s, IsSequence(s)
  PROVE  Len(s) \in Nat /\ DOMAIN s = 1 .. Len(s) /\ (Len(s) = 0 => s = <<>>)
<1> DEFINE S == ToSet(s)
<1>1. s \in Seq(S)
  BY DEF IsSequence
<1> HIDE DEF S
<1> QED BY <1>1

(* After any calls from a well-formed store the last one has the facts. *)
LEMMA SessionFacts ==
  ASSUME NEW in, RealSession(in)
  PROVE  CallFacts(CalledEnd(in.store, in.calls), Last(in.calls).op)
<1> DEFINE n == Len(in.calls)
           end == CalledEnd(in.store, in.calls)
<1>1. /\ DOMAIN in.calls = 1 .. n /\ in.calls # <<>> /\ StoreOk(in.store)
      /\ \A k \in 1 .. n : RealCall(in.calls[k])
  <2>1. n \in Nat /\ DOMAIN in.calls = 1 .. n
    BY IsSequenceFacts DEF RealSession
  <2> QED BY <2>1 DEF RealSession, StoreOk, TypedConfig
<1>2. n \in Nat /\ n # 0
  <2>1. n \in Nat /\ (n = 0 => in.calls = <<>>)
    BY IsSequenceFacts DEF RealSession
  <2> QED BY <2>1 DEF RealSession
<1>3. PICK F : /\ F[0] = in.store /\ end = F[n]
               /\ \A k \in 1 .. n : F[k] = Called(F[k - 1], in.calls[k])
  <2>1. PICK F : Runs(F, "called", <<>>, in.store, in.calls, n) /\ end = F[n]
    BY <1>1, <1>2, CalledFold
  <2>2. \A acc, x : Step("called", <<>>, acc, x) = Called(acc, x)
    BY DEF Step
  <2> HIDE DEF end, n
  <2> QED BY <2>1, <2>2 DEF Runs
<1> DEFINE Bad == {k \in 0 .. n : ~StoreOk(F[k])}
<1>4. Bad = {}
  <2> SUFFICES ASSUME Bad # {} PROVE FALSE
    OBVIOUS
  <2>1. PICK k \in Bad : \A j \in Bad : k <= j
    <3> HIDE DEF Bad
    <3>1. Bad \in SUBSET Nat
      BY <1>2 DEF Bad
    <3> QED BY <3>1, Least
  <2>2. k # 0 /\ k \in 1 .. n /\ k - 1 \in 0 .. n
    BY <1>1, <1>2, <1>3, <2>1
  <2>3. StoreOk(F[k - 1])
    BY <1>2, <2>1, <2>2
  <2>4. StoreOk(F[k])
    BY <1>1, <1>3, <2>2, <2>3, CalledFacts DEF CallFacts
  <2> QED BY <2>1, <2>4
<1>5. StoreOk(F[n - 1]) /\ F[n] = Called(F[n - 1], in.calls[n]) /\ RealCall(in.calls[n])
  BY <1>1, <1>2, <1>3, <1>4
<1>6. Last(in.calls) = in.calls[n]
  BY DEF Last
<1> HIDE DEF end, n
<1> QED BY <1>3, <1>5, <1>6, CalledFacts DEF end

(* After any calls a run stays within its limits and uses what was shown. *)
LEMMA RunInBounds == Computed => RunStaysInBounds
<1> SUFFICES ASSUME Computed, Answered("settings") PROVE RunStaysInBounds
  BY DEF RunStaysInBounds
<1> DEFINE end == CalledEnd(input.store, input.calls)
           last == Last(input.calls).op
           block == EffectiveBlock(FromSettings(end.settings), SessionOverride(end.config))
<1>1. RealSession(input) /\ answer = SessionAnswer(input)
  BY DEF Computed, RealInput, Answered
<1>2. CallFacts(end, last)
  BY <1>1, SessionFacts
<1> HIDE DEF end, last
<1>3. /\ answer.shown = end.shown /\ answer.config = end.config /\ answer.run = Sanitized(block)
      /\ answer.tokens = MaxTokens(end.settings)
  BY <1>1 DEF SessionAnswer, CalledEnd, RunBlock, end
<1>4. IsBlock(block)
  <2>1. IsBlock(FromSettings(end.settings))
    BY <1>2, FromSettingsBlock DEF CallFacts, StoreOk
  <2>2. SessionOverride(end.config) = <<>> \/ \E b : SessionOverride(end.config) = <<b>> /\ IsBlock(b)
    BY <1>2, OverrideBlock DEF CallFacts, StoreOk
  <2> QED BY <2>1, <2>2 DEF EffectiveBlock
<1> HIDE DEF block
<1>5. Validates(answer.run) /\ (Validates(block) => answer.run = block)
  BY <1>3, <1>4, SanitizedFacts
<1>6. ASSUME last \in {"get_session", "put_session", "reset_session"} \/ answer.config = <<>>,
             answer.shown # <<>>, Validates(answer.shown[1])
      PROVE  answer.run = answer.shown[1]
  <2>1. block = answer.shown[1]
    BY <1>2, <1>3, <1>6 DEF CallFacts, block
  <2> QED BY <1>5, <1>6, <2>1
<1>7. answer.tokens # <<0>>
  BY <1>3 DEF MaxTokens
<1> QED BY <1>5, <1>6, <1>7 DEF RunStaysInBounds, last

-----------------------------------------------------------------------------
(* Settings: the keys of the providers. *)

LEMMA InsertedSetting ==
  ASSUME NEW map, NEW key, NEW v, NEW q
  PROVE  Setting(Inserted(map, key, TypedValue("text", v)), q) = IF q = key THEN v ELSE Setting(map, q)
  BY DEF Setting, Has, Inserted, TypedValue

(* A migration fills what the source in use lacks, from the flat keys. *)
LEMMA MigrateSetting ==
  ASSUME NEW map, NEW q
  PROVE  \/ Setting(Migrate(map), q) = Setting(map, q)
         \/ /\ Setting(map, q) = "unset"
            /\ \E f \in Fields : /\ q = <<"of", Source(map), f>>
                                 /\ Setting(Migrate(map), q) = Setting(map, <<"flat", f>>)
<1> DEFINE old == {f \in Fields : /\ Setting(map, <<"of", Source(map), f>>) = "unset"
                                  /\ Setting(map, <<"flat", f>>) # "unset"}
           keys == {<<"of", Source(map), f>> : f \in old}
           pairs == [key \in keys |-> map[<<"flat", key[3]>>]]
<1>1. Migrate(map) = Extended(map, pairs)
  BY DEF Migrate
<1>2. CASE q \in keys
  <2>1. PICK f \in old : q = <<"of", Source(map), f>>
    BY <1>2
  <2>2. q[3] = f
    BY <2>1
  <2>3. pairs[q] = map[<<"flat", f>>]
    BY <1>2, <2>2
  <2>4. q \in DOMAIN Migrate(map) /\ Migrate(map)[q] = map[<<"flat", f>>]
    <3> HIDE DEF keys, old
    <3>1. DOMAIN pairs = keys
      OBVIOUS
    <3> HIDE DEF pairs
    <3> QED BY <1>1, <1>2, <2>3, <3>1 DEF Extended
  <2>5. Has(map, <<"flat", f>>, "text") /\ Setting(map, <<"flat", f>>) = map[<<"flat", f>>].val
    BY <2>1 DEF Setting
  <2>6. Has(Migrate(map), q, "text") /\ Setting(Migrate(map), q) = map[<<"flat", f>>].val
    BY <2>4, <2>5 DEF Setting, Has
  <2> QED BY <2>1, <2>5, <2>6
<1>3. CASE q \notin keys
  <2>1. DOMAIN pairs = keys
    OBVIOUS
  <2> HIDE DEF keys, pairs
  <2>2. /\ q \in DOMAIN Migrate(map) <=> q \in DOMAIN map
        /\ q \in DOMAIN map => Migrate(map)[q] = map[q]
    BY <1>1, <1>3, <2>1 DEF Extended
  <2> QED BY <2>2 DEF Setting, Has
<1> QED BY <1>2, <1>3

(* So what is stored after it was stored before.                           *)
LEMMA MigrateSource ==
  ASSUME NEW map, NEW q
  PROVE  \/ Setting(Migrate(map), q) = Setting(map, q)
         \/ \E f \in Fields : Setting(Migrate(map), q) = Setting(map, <<"flat", f>>)
  BY MigrateSetting

(* A step that types a key of one source only. *)
OwnKey(in, i) == in.steps[i].op = "key" /\ OneSourceKey(in, in.steps[i].key)

(* No key of one source only is stored under another, or flat.             *)
KeysApart(in, map) ==
  \A i \in DOMAIN in.steps :
    OwnKey(in, i) =>
      /\ \A s : Setting(map, <<"of", s, "api_key">>) = in.steps[i].key => s = in.steps[i].source
      /\ \A f : Setting(map, <<"flat", f>>) # in.steps[i].key

(* Migration takes no key from one source to another. *)
LEMMA MigrateKeepsApart ==
  ASSUME NEW in, RealSteps(in), NEW map, KeysApart(in, map) PROVE KeysApart(in, Migrate(map))
<1> SUFFICES ASSUME NEW i \in DOMAIN in.steps, OwnKey(in, i)
             PROVE  /\ \A s : Setting(Migrate(map), <<"of", s, "api_key">>) = in.steps[i].key =>
                                s = in.steps[i].source
                    /\ \A f : Setting(Migrate(map), <<"flat", f>>) # in.steps[i].key
  BY DEF KeysApart
<1> DEFINE k == in.steps[i].key
<1>1. /\ \A s : Setting(map, <<"of", s, "api_key">>) = k => s = in.steps[i].source
      /\ \A f : Setting(map, <<"flat", f>>) # k
  BY DEF KeysApart
<1> HIDE DEF k
<1>2. ASSUME NEW q, Setting(Migrate(map), q) = k PROVE Setting(map, q) = k
  <2>1. \/ Setting(Migrate(map), q) = Setting(map, q)
        \/ \E f \in Fields : Setting(Migrate(map), q) = Setting(map, <<"flat", f>>)
    BY MigrateSource
  <2> QED BY <1>1, <1>2, <2>1
<1> QED BY <1>1, <1>2 DEF k

(* No step mixes the keys of two sources. *)
LEMMA ConfiguredKeepsApart ==
  ASSUME NEW in, RealSteps(in), NEW map, KeysApart(in, map), NEW j \in DOMAIN in.steps
  PROVE  KeysApart(in, Configured(map, in.steps[j]))
<1> DEFINE step == in.steps[j]
<1>1. CASE step.op = "reply"
  BY <1>1, MigrateKeepsApart DEF Configured
<1>2. CASE step.op = "use"
  <2>1. Configured(map, step) = Inserted(map, <<"source">>, TypedValue("text", step.source))
    BY <1>2 DEF Configured
  <2>2. \A q : q # <<"source">> => Setting(Configured(map, step), q) = Setting(map, q)
    BY <2>1, InsertedSetting
  <2>3. \A s, f : <<"of", s, f>> # <<"source">> /\ <<"flat", f>> # <<"source">>
    OBVIOUS
  <2> QED BY <2>2, <2>3 DEF KeysApart
<1>3. CASE step.op = "key"
  <2> DEFINE at == <<"of", step.source, "api_key">>
  <2>1. Configured(map, step) = Inserted(map, at, TypedValue("text", step.key))
    BY <1>3 DEF Configured
  <2>2. \A q : Setting(Configured(map, step), q) = IF q = at THEN step.key ELSE Setting(map, q)
    BY <2>1, InsertedSetting
  <2>3. \A s, f : <<"flat", f>> # at /\ (<<"of", s, "api_key">> = at => s = step.source)
    OBVIOUS
  <2>4. \A i \in DOMAIN in.steps :
          OwnKey(in, i) /\ in.steps[i].key = step.key => in.steps[i].source = step.source
    BY <1>3 DEF OwnKey, OneSourceKey
  <2> HIDE DEF at, step
  <2> QED BY <2>2, <2>3, <2>4 DEF KeysApart, step
<1> QED BY <1>1, <1>2, <1>3 DEF RealSteps

(* The steps of a user, one by one. *)
LEMMA ConfiguredRun ==
  ASSUME NEW in, RealSteps(in)
  PROVE  \E F : /\ F[0] = in.settings
                /\ \A k \in 1 .. Len(in.steps) : F[k] = Configured(F[k - 1], in.steps[k])
                /\ ConfiguredEnd(in.settings, in.steps) = F[Len(in.steps)]
<1>1. Len(in.steps) \in Nat /\ DOMAIN in.steps = 1 .. Len(in.steps)
  BY IsSequenceFacts DEF RealSteps
<1>2. PICK F : Runs(F, "configured", <<>>, in.settings, in.steps, Len(in.steps))
               /\ ConfiguredEnd(in.settings, in.steps) = F[Len(in.steps)]
  BY <1>1, ConfiguredFold
<1>3. \A acc, x : Step("configured", <<>>, acc, x) = Configured(acc, x)
  BY DEF Step
<1> QED BY <1>2, <1>3 DEF Runs

(* After all the steps the keys of two sources are still apart. *)
LEMMA StepsKeepApart ==
  ASSUME NEW in, RealSteps(in)
  PROVE  KeysApart(in, Migrate(ConfiguredEnd(in.settings, in.steps)))
<1> DEFINE n == Len(in.steps)
           end == ConfiguredEnd(in.settings, in.steps)
<1>1. n \in Nat /\ DOMAIN in.steps = 1 .. n
  BY IsSequenceFacts DEF RealSteps
<1>2. PICK F : /\ F[0] = in.settings /\ end = F[n]
               /\ \A k \in 1 .. n : F[k] = Configured(F[k - 1], in.steps[k])
  BY ConfiguredRun
<1>3. KeysApart(in, in.settings)
  <2> SUFFICES ASSUME NEW i \in DOMAIN in.steps, OwnKey(in, i), NEW q
               PROVE  Setting(in.settings, q) # in.steps[i].key
    BY DEF KeysApart
  <2>1. q \in DOMAIN in.settings => Setting(in.settings, q) # in.steps[i].key
    BY DEF OwnKey, OneSourceKey
  <2>2. q \notin DOMAIN in.settings => Setting(in.settings, q) = "unset"
    BY DEF Setting, Has
  <2>3. in.steps[i].key # "unset"
    BY DEF RealSteps, OwnKey
  <2> QED BY <2>1, <2>2, <2>3
<1> DEFINE Bad == {k \in 0 .. n : ~KeysApart(in, F[k])}
<1>4. Bad = {}
  <2> SUFFICES ASSUME Bad # {} PROVE FALSE
    OBVIOUS
  <2>1. PICK k \in Bad : \A j \in Bad : k <= j
    <3> HIDE DEF Bad
    <3>1. Bad \in SUBSET Nat
      BY <1>1 DEF Bad
    <3> QED BY <3>1, Least
  <2>2. k # 0 /\ k \in 1 .. n /\ k - 1 \in 0 .. n
    BY <1>1, <1>2, <1>3, <2>1
  <2>3. KeysApart(in, F[k - 1])
    BY <1>1, <2>1, <2>2
  <2>4. KeysApart(in, F[k])
    BY <1>1, <1>2, <2>2, <2>3, ConfiguredKeepsApart
  <2> QED BY <2>1, <2>4
<1>5. KeysApart(in, F[n])
  BY <1>1, <1>4
<1> HIDE DEF end, n
<1> QED BY <1>2, <1>5, MigrateKeepsApart DEF end

(* A key stays where it was typed until another is typed there. *)
LEMMA ConfiguredKeeps ==
  ASSUME NEW map, NEW step, NEW source, NEW k, k # "unset",
         Setting(map, <<"of", source, "api_key">>) = k,
         step.op \in {"use", "key", "reply"}, ~(step.op = "key" /\ step.source = source)
  PROVE  Setting(Configured(map, step), <<"of", source, "api_key">>) = k
<1> DEFINE q == <<"of", source, "api_key">>
<1>1. CASE step.op = "reply"
  BY <1>1, MigrateSetting DEF Configured
<1>2. CASE step.op = "use"
  <2>1. Configured(map, step) = Inserted(map, <<"source">>, TypedValue("text", step.source))
    BY <1>2 DEF Configured
  <2>2. q # <<"source">>
    OBVIOUS
  <2> HIDE DEF q
  <2> QED BY <2>1, <2>2, InsertedSetting DEF q
<1>3. CASE step.op = "key"
  <2>1. /\ Configured(map, step)
             = Inserted(map, <<"of", step.source, "api_key">>, TypedValue("text", step.key))
        /\ q # <<"of", step.source, "api_key">>
    BY <1>3 DEF Configured
  <2> HIDE DEF q
  <2> QED BY <2>1, InsertedSetting DEF q
<1> QED BY <1>1, <1>2, <1>3

(* The last key that is typed for a source is the one stored for it. *)
LEMMA LastKeyStays ==
  ASSUME NEW in, RealSteps(in), NEW i \in DOMAIN in.steps, in.steps[i].op = "key",
         \A j \in DOMAIN in.steps :
           j > i => ~(in.steps[j].op = "key" /\ in.steps[j].source = in.steps[i].source)
  PROVE  Setting(Migrate(ConfiguredEnd(in.settings, in.steps)),
                 <<"of", in.steps[i].source, "api_key">>) = in.steps[i].key
<1> DEFINE n == Len(in.steps)
           end == ConfiguredEnd(in.settings, in.steps)
           q == <<"of", in.steps[i].source, "api_key">>
<1>1. n \in Nat /\ DOMAIN in.steps = 1 .. n /\ i \in 1 .. n
  BY IsSequenceFacts DEF RealSteps
<1>2. PICK F : /\ F[0] = in.settings /\ end = F[n]
               /\ \A k \in 1 .. n : F[k] = Configured(F[k - 1], in.steps[k])
  BY ConfiguredRun
<1>3. Setting(F[i], q) = in.steps[i].key
  <2>1. F[i] = Inserted(F[i - 1], q, TypedValue("text", in.steps[i].key))
    BY <1>1, <1>2 DEF Configured
  <2> HIDE DEF q
  <2> QED BY <2>1, InsertedSetting
<1>4. in.steps[i].key # "unset"
  BY DEF RealSteps
<1> DEFINE Bad == {k \in i .. n : Setting(F[k], q) # in.steps[i].key}
<1>5. Bad = {}
  <2> SUFFICES ASSUME Bad # {} PROVE FALSE
    OBVIOUS
  <2>1. PICK k \in Bad : \A j \in Bad : k <= j
    <3> HIDE DEF Bad, q
    <3>1. Bad \in SUBSET Nat
      BY <1>1 DEF Bad
    <3> QED BY <3>1, Least
  <2>2. k # i /\ k \in 1 .. n /\ k > i /\ k - 1 \in i .. n
    BY <1>1, <1>3, <2>1
  <2>3. Setting(F[k - 1], q) = in.steps[i].key
    <3>1. k - 1 \notin Bad
      <4> HIDE DEF Bad, q
      <4> QED BY <1>1, <2>1, <2>2
    <3> HIDE DEF n, q
    <3> QED BY <2>2, <3>1
  <2>4. in.steps[k].op \in {"use", "key", "reply"}
    BY <1>1, <2>2 DEF RealSteps
  <2>5. Setting(F[k], q) = in.steps[i].key
    <3>1. F[k] = Configured(F[k - 1], in.steps[k]) /\ k \in DOMAIN in.steps
      BY <1>1, <1>2, <2>2
    <3>2. ~(in.steps[k].op = "key" /\ in.steps[k].source = in.steps[i].source)
      BY <2>2, <3>1
    <3> QED BY <1>4, <2>3, <2>4, <3>1, <3>2, ConfiguredKeeps
  <2> QED BY <2>1, <2>5
<1>6. Setting(F[n], q) = in.steps[i].key
  BY <1>1, <1>5
<1> HIDE DEF end, n, q
<1>7. Setting(Migrate(end), q) = in.steps[i].key
  BY <1>2, <1>4, <1>6, MigrateSetting
<1> QED BY <1>7 DEF end, q

(* So the key that is sent is the key of its source. *)
LEMMA KeysStay == Computed => SwitchKeepsKeys
<1> SUFFICES ASSUME Computed, Answered("provider") PROVE SwitchKeepsKeys
  BY DEF SwitchKeepsKeys
<1> DEFINE end == Migrate(ConfiguredEnd(input.settings, input.steps))
           steps == input.steps
           own == Setting(end, <<"of", Source(end), "api_key">>)
<1>1. RealSteps(input) /\ answer = ProviderAnswer(input)
  BY DEF Computed, RealInput, Answered
<1>2. answer.source = Source(end) /\ answer.sent = Resolve(end, input.env, EnvKey)
  BY <1>1 DEF ProviderAnswer, ConfiguredEnd
<1>3. KeysApart(input, end)
  BY <1>1, StepsKeepApart
<1>4. ASSUME NEW i \in DOMAIN steps, steps[i].op = "key", answer.source # "ollama",
             steps[i].source = answer.source, steps[i].key # "",
             \A j \in DOMAIN steps : j > i => ~(steps[j].op = "key" /\ steps[j].source = answer.source)
      PROVE  answer.sent.api_key = steps[i].key
  <2>1. own = steps[i].key
    BY <1>1, <1>2, <1>4, LastKeyStays
  <2>2. steps[i].key # "" /\ steps[i].key # "unset"
    BY <1>1, <1>4 DEF RealSteps
  <2> HIDE DEF end
  <2> DEFINE c == ResolveConfig(end)
  <2>3. c.source = Source(end) /\ c.api_key = OrElse(own, "")
    BY DEF ResolveConfig
  <2>4. OrElse(own, "") = steps[i].key
    BY <2>1, <2>2 DEF OrElse
  <2> HIDE DEF c
  <2>5. Resolve(end, input.env, EnvKey).api_key = IF c.source = "ollama" THEN "ollama" ELSE c.api_key
    BY <2>2, <2>3, <2>4 DEF Resolve, c
  <2> QED BY <1>2, <1>4, <2>3, <2>4, <2>5
<1>5. ASSUME NEW i \in DOMAIN steps, OwnKey(input, i), answer.sent.api_key = steps[i].key
      PROVE  steps[i].source = answer.source
  <2>1. steps[i].key \notin {"", EnvKey, "ollama"}
    BY <1>5 DEF OwnKey, OneSourceKey
  <2>2. answer.sent.api_key \in {"ollama", EnvKey, OrElse(own, "")}
    <3> HIDE DEF end
    <3> DEFINE c == ResolveConfig(end)
    <3>1. c.api_key = OrElse(own, "")
      BY DEF ResolveConfig
    <3>2. EnvProvider(input.env, EnvKey).api_key \in {"ollama", EnvKey}
      BY DEF EnvProvider
    <3>3. Resolve(end, input.env, EnvKey).api_key
            \in {EnvProvider(input.env, EnvKey).api_key, "ollama", c.api_key}
      <4> HIDE DEF c
      <4> QED BY DEF Resolve, c
    <3> HIDE DEF c
    <3> QED BY <1>2, <3>1, <3>2, <3>3
  <2>3. own = steps[i].key
    BY <1>5, <2>1, <2>2 DEF OrElse
  <2> HIDE DEF end
  <2> QED BY <1>2, <1>3, <1>5, <2>3 DEF KeysApart
<1> HIDE DEF end
<1> QED BY <1>4, <1>5 DEF SwitchKeepsKeys, OwnKey

(* Whatever the routes were called with and whatever a bundle brought, a   *)
(* run keeps its limits and uses the block that is shown; whatever sources *)
(* were picked, migrated and given keys, the key last typed for a source,  *)
(* if not blank, is sent to it, and one that was typed for it alone and    *)
(* stored nowhere before is sent to no other.                              *)
THEOREM RunsUseSettings == Spec => []RunUsesSettings
<1>1. Computed => RunUsesSettings
  BY RunInBounds, KeysStay DEF RunUsesSettings
<1> QED BY <1>1, EveryAnswerComputed, PTL

-----------------------------------------------------------------------------
(* Requests: what is put end to end. *)

LEMMA FlattenIs ==
  ASSUME NEW q, Len(q) \in Nat \ {0}
  PROVE  \E f : FlatIter(f, q, Len(q)) /\ FlattenSeq(q) = f[Len(q)]
<1> DEFINE n == Len(q)
           f == CHOOSE f : FlatIter(f, q, n)
<1>1. FlattenSeq(q) = f[n]
  BY DEF FlattenSeq, FlatIter
<1>2. FlatIter(f, q, n)
  BY FlatIterExists
<1> HIDE DEF f
<1> QED BY <1>1, <1>2

(* Two computations of FlattenSeq agree as far as their sequences do. *)
LEMMA FlatAgree ==
  ASSUME NEW f, NEW q, NEW n \in Nat, FlatIter(f, q, n),
         NEW g, NEW r, NEW m \in Nat, FlatIter(g, r, m),
         n <= m, \A i \in 1 .. n : q[i] = r[i]
  PROVE  \A i \in 1 .. n : f[i] = g[i]
<1> DEFINE Bad == {k \in 1 .. n : f[k] # g[k]}
<1> SUFFICES ASSUME Bad # {} PROVE FALSE
  OBVIOUS
<1>1. PICK k \in Bad : \A j \in Bad : k <= j
  <2> HIDE DEF Bad
  <2>1. Bad \in SUBSET Nat
    BY DEF Bad
  <2> QED BY <2>1, Least
<1>2. k \in 1 .. n /\ k \in 1 .. m /\ f[k] # g[k]
  BY <1>1
<1>3. /\ f[k] = IF k = 1 THEN q[k] ELSE f[k - 1] \o q[k]
      /\ g[k] = IF k = 1 THEN r[k] ELSE g[k - 1] \o r[k]
  BY <1>2 DEF FlatIter
<1>4. k # 1 => f[k - 1] = g[k - 1]
  BY <1>1, <1>2
<1> QED BY <1>2, <1>3, <1>4

(* One more sequence is put at the end. *)
LEMMA FlattenAppend ==
  ASSUME NEW S, NEW q \in Seq(S), NEW x \in S
  PROVE  FlattenSeq(Append(q, x)) = IF q = <<>> THEN x ELSE FlattenSeq(q) \o x
<1> DEFINE n == Len(q)
           r == Append(q, x)
<1>1. /\ n \in Nat /\ Len(r) = n + 1 /\ r[n + 1] = x /\ \A i \in 1 .. n : r[i] = q[i]
      /\ (n = 0 <=> q = <<>>)
  OBVIOUS
<1>2. PICK g : FlatIter(g, r, n + 1) /\ FlattenSeq(r) = g[n + 1]
  <2>1. Len(r) \in Nat \ {0} /\ Len(r) = n + 1
    BY <1>1
  <2> HIDE DEF r, n
  <2> QED BY <2>1, FlattenIs
<1> HIDE DEF n, r
<1>3. g[n + 1] = IF n + 1 = 1 THEN r[n + 1] ELSE g[n] \o r[n + 1]
  <2>1. \A k \in 1 .. (n + 1) : g[k] = IF k = 1 THEN r[k] ELSE g[k - 1] \o r[k]
    BY <1>2 DEF FlatIter
  <2>2. PICK k \in 1 .. (n + 1) : k = n + 1 /\ k - 1 = n
    BY <1>1
  <2>3. g[k] = IF k = 1 THEN r[k] ELSE g[k - 1] \o r[k]
    BY <2>1
  <2> QED BY <2>2, <2>3
<1>4. CASE n = 0
  BY <1>1, <1>2, <1>3, <1>4 DEF r
<1>5. CASE n # 0
  <2>1. PICK f : FlatIter(f, q, n) /\ FlattenSeq(q) = f[n]
    BY <1>1, <1>5, FlattenIs DEF n
  <2>2. f[n] = g[n]
    <3>1. n <= n + 1 /\ n + 1 \in Nat /\ n \in 1 .. n
      BY <1>1, <1>5
    <3> QED BY <1>1, <1>2, <2>1, <3>1, FlatAgree
  <2> QED BY <1>1, <1>2, <1>3, <1>5, <2>1, <2>2 DEF r
<1> QED BY <1>4, <1>5

(* What a text is made of, and a text. *)
Letters == STRING \cup {NL}
Writings == Seq(Letters)

(* Of no texts nothing is joined. *)
LEMMA JoinedEmpty == Joined(<<>>) = <<>>
  BY DEF Joined, FlattenSeq

(* What is joined is a text. *)
LEMMA JoinedIn == ASSUME NEW q \in Seq(Writings) PROVE Joined(q) \in Writings
<1> DEFINE w == [i \in DOMAIN q |-> IF i = 1 THEN q[i] ELSE <<NL>> \o q[i]]
<1>1. w \in Seq(Seq(Letters))
  <2>1. \A i \in DOMAIN q : q[i] \in Seq(Letters)
    BY ElementIn DEF Writings
  <2>2. <<NL>> \in Seq(Letters)
    BY DEF Letters
  <2>3. \A i \in DOMAIN q : <<NL>> \o q[i] \in Seq(Letters)
    BY <2>1, <2>2
  <2>4. DOMAIN q = 1 .. Len(q) /\ Len(q) \in Nat
    OBVIOUS
  <2> QED BY <2>1, <2>3, <2>4
<1>2. Joined(q) = FlattenSeq(w)
  BY DEF Joined
<1> HIDE DEF w
<1> QED BY <1>1, <1>2, FlattenIn DEF Writings

(* One more text follows a line break, unless it is the first. *)
LEMMA JoinedAppend ==
  ASSUME NEW q \in Seq(Writings), NEW t \in Writings
  PROVE  Joined(Append(q, t)) = IF q = <<>> THEN t ELSE Joined(q) \o (<<NL>> \o t)
<1> DEFINE n == Len(q)
           W(r) == [i \in DOMAIN r |-> IF i = 1 THEN r[i] ELSE <<NL>> \o r[i]]
           x == IF n = 0 THEN t ELSE <<NL>> \o t
<1>1. n \in Nat /\ DOMAIN q = 1 .. n /\ (n = 0 <=> q = <<>>)
  OBVIOUS
<1>2. <<NL>> \o t \in Writings /\ \A i \in DOMAIN q : <<NL>> \o q[i] \in Writings /\ q[i] \in Writings
  <2>1. <<NL>> \in Seq(Letters)
    BY DEF Letters
  <2>2. \A i \in DOMAIN q : q[i] \in Seq(Letters)
    BY ElementIn DEF Writings
  <2> QED BY <2>1, <2>2 DEF Writings
<1>3. W(q) \in Seq(Writings) /\ x \in Writings
  <2>1. \A i \in DOMAIN q : (IF i = 1 THEN q[i] ELSE <<NL>> \o q[i]) \in Writings
    BY <1>2
  <2> QED BY <1>1, <1>2, <2>1
<1>4. W(Append(q, t)) = Append(W(q), x)
  <2>1. DOMAIN Append(q, t) = 1 .. (n + 1) /\ DOMAIN W(q) = 1 .. n
    BY <1>1
  <2>2. \A i \in 1 .. n : Append(q, t)[i] = q[i]
    BY <1>1
  <2>3. Append(q, t)[n + 1] = t
    BY <1>1
  <2>4. ASSUME NEW i \in 1 .. (n + 1) PROVE W(Append(q, t))[i] = Append(W(q), x)[i]
    <3>1. W(Append(q, t))[i] = IF i = 1 THEN Append(q, t)[i] ELSE <<NL>> \o Append(q, t)[i]
      BY <2>1
    <3>2. Len(W(q)) = n
      BY <1>1, <1>3, <2>1
    <3>3. Append(W(q), x)[i] = IF i = n + 1 THEN x ELSE W(q)[i]
      <4> HIDE DEF x
      <4> QED BY <1>1, <1>3, <3>2
    <3>4. i # n + 1 => i \in 1 .. n /\ W(q)[i] = IF i = 1 THEN q[i] ELSE <<NL>> \o q[i]
      BY <1>1
    <3>5. n = 0 <=> n + 1 = 1
      BY <1>1
    <3> HIDE DEF W, n
    <3> QED BY <2>2, <2>3, <3>1, <3>3, <3>4, <3>5
  <2>5. DOMAIN Append(W(q), x) = 1 .. (n + 1)
    <3> HIDE DEF x
    <3> QED BY <1>1, <1>3, <2>1
  <2>6. W(Append(q, t)) = [i \in 1 .. (n + 1) |-> W(Append(q, t))[i]]
    BY <2>1
  <2>7. Append(W(q), x) = [i \in 1 .. (n + 1) |-> Append(W(q), x)[i]]
    <3>1. PICK z : z = Append(W(q), x)
      OBVIOUS
    <3> HIDE DEF x, W
    <3>2. z \in Seq(Writings) /\ DOMAIN z = 1 .. (n + 1)
      BY <1>3, <2>5, <3>1
    <3>3. z = [i \in 1 .. (n + 1) |-> z[i]]
      BY <3>2
    <3> QED BY <3>1, <3>3
  <2> HIDE DEF W, x, n
  <2> QED BY <2>4, <2>6, <2>7
<1>5. Joined(q) = FlattenSeq(W(q)) /\ Joined(Append(q, t)) = FlattenSeq(W(Append(q, t)))
  BY DEF Joined
<1>6. W(q) = <<>> <=> q = <<>>
  BY <1>1, <1>3
<1> HIDE DEF W, x
<1>7. FlattenSeq(Append(W(q), x)) = IF W(q) = <<>> THEN x ELSE FlattenSeq(W(q)) \o x
  BY <1>3, FlattenAppend
<1> QED BY <1>1, <1>4, <1>5, <1>6, <1>7 DEF x

-----------------------------------------------------------------------------
(* Requests: merging. *)

Msgs == [role : STRING \cup {"system"}, text : Writings, images : BOOLEAN]
TextsOf(ms) == [i \in DOMAIN ms |-> ms[i].text]
Apart(ms) == \A i \in 1 .. (Len(ms) - 1) : ms[i].role # ms[i + 1].role

(* The texts of messages are texts, one for each. *)
LEMMA TextsOfIn ==
  ASSUME NEW ms \in Seq(Msgs)
  PROVE  TextsOf(ms) \in Seq(Writings) /\ Len(TextsOf(ms)) = Len(ms) /\ DOMAIN TextsOf(ms) = 1 .. Len(ms)
<1>1. DOMAIN ms = 1 .. Len(ms) /\ Len(ms) \in Nat
  OBVIOUS
<1>2. \A i \in DOMAIN ms : ms[i].text \in Writings
  <2> TAKE i \in DOMAIN ms
  <2>1. ms[i] \in Msgs
    BY ElementIn
  <2> QED BY <2>1 DEF Msgs
<1>3. TextsOf(ms) \in [1 .. Len(ms) -> Writings]
  BY <1>1, <1>2 DEF TextsOf
<1> QED BY <1>1, <1>3

(* One more message has one more text. *)
LEMMA TextsOfAppend ==
  ASSUME NEW ms \in Seq(Msgs), NEW m \in Msgs
  PROVE  TextsOf(Append(ms, m)) = Append(TextsOf(ms), m.text)
<1> DEFINE n == Len(ms)
           a == TextsOf(Append(ms, m))
           b == Append(TextsOf(ms), m.text)
<1>1. n \in Nat /\ Append(ms, m) \in Seq(Msgs) /\ Len(Append(ms, m)) = n + 1
  OBVIOUS
<1>2. m.text \in Writings
  BY DEF Msgs
<1>3. a \in Seq(Writings) /\ Len(a) = n + 1
  BY <1>1, TextsOfIn
<1>4. b \in Seq(Writings) /\ Len(b) = n + 1
  BY <1>2, TextsOfIn
<1>5. ASSUME NEW i \in 1 .. (n + 1) PROVE a[i] = b[i]
  <2>1. i \in DOMAIN Append(ms, m)
    BY <1>1
  <2>2. a[i] = Append(ms, m)[i].text
    BY <2>1 DEF TextsOf
  <2>3. CASE i = n + 1
    <3>1. Append(ms, m)[i] = m
      BY <2>3
    <3>2. b[i] = m.text
      BY <2>3, <1>2, TextsOfIn
    <3> QED BY <2>2, <3>1, <3>2
  <2>4. CASE i # n + 1
    <3>1. Append(ms, m)[i] = ms[i] /\ i \in DOMAIN ms
      BY <2>4
    <3>2. b[i] = TextsOf(ms)[i]
      BY <2>4, <1>2, TextsOfIn
    <3>3. TextsOf(ms)[i] = ms[i].text
      BY <3>1 DEF TextsOf
    <3> QED BY <2>2, <3>1, <3>2, <3>3
  <2> QED BY <2>3, <2>4
<1> HIDE DEF a, b
<1>6. a = [i \in 1 .. (n + 1) |-> a[i]] /\ b = [i \in 1 .. (n + 1) |-> b[i]]
  BY <1>3, <1>4
<1>7. a = b
  BY <1>5, <1>6
<1> QED BY <1>7 DEF a, b

(* One more message joins the others at the end, or follows them. *)
Told(ms) == Joined(TextsOf(ms))
After(told, none, t) == IF none THEN t ELSE told \o (<<NL>> \o t)

(* One more message is told after the others. *)
LEMMA ToldAppend ==
  ASSUME NEW ms \in Seq(Msgs), NEW m \in Msgs
  PROVE  Told(Append(ms, m)) = After(Told(ms), ms = <<>>, m.text)
<1>1. TextsOf(ms) \in Seq(Writings) /\ m.text \in Writings
  BY TextsOfIn DEF Msgs
<1>2. TextsOf(ms) = <<>> <=> ms = <<>>
  <2>1. Len(TextsOf(ms)) = Len(ms)
    BY TextsOfIn
  <2> QED BY <1>1, <2>1
<1> QED BY <1>1, <1>2, TextsOfAppend, JoinedAppend DEF Told, After

(* Putting texts end to end is associative. *)
Cat(x, y) == x \o y
LEMMA CatAssociates ==
  ASSUME NEW x \in Writings, NEW y \in Writings, NEW z \in Writings
  PROVE  Cat(x, Cat(y, z)) = Cat(Cat(x, y), z)
<1>1. x \o (y \o z) = (x \o y) \o z
  BY DEF Writings
<1> QED BY <1>1 DEF Cat

(* Texts end to end are a text. *)
LEMMA TextConcat ==
  ASSUME NEW x \in Writings, NEW y \in Writings PROVE x \o y \in Writings /\ <<NL>> \o y \in Writings
<1>1. <<NL>> \in Seq(Letters)
  BY DEF Letters
<1> QED BY <1>1 DEF Writings

(* However a message joins the others, it is told after them, and equal    *)
(* roles stay apart.                                                       *)
LEMMA JoiningFacts ==
  ASSUME NEW out \in Seq(Msgs), NEW m \in Msgs
  PROVE  /\ Joining(out, m) \in Seq(Msgs) /\ Joining(out, m) # <<>>
         /\ Told(Joining(out, m)) = After(Told(out), out = <<>>, m.text)
         /\ Apart(out) => Apart(Joining(out, m))
<1> DEFINE n == Len(out)
           merges == out # <<>> /\ Last(out).role = m.role
<1>1. n \in Nat /\ DOMAIN out = 1 .. n /\ (n = 0 <=> out = <<>>) /\ Last(out) = out[n]
  BY DEF Last
<1>2. CASE ~merges
  <2>1. Joining(out, m) = Append(out, m)
    BY <1>2 DEF Joining
  <2>2. Append(out, m) \in Seq(Msgs) /\ Len(Append(out, m)) = n + 1
    OBVIOUS
  <2>3. ASSUME Apart(out), NEW i \in 1 .. n PROVE Append(out, m)[i].role # Append(out, m)[i + 1].role
    <3>1. CASE i = n
      BY <1>1, <1>2, <3>1
    <3>2. CASE i # n
      <4>1. i \in 1 .. (n - 1) /\ i + 1 \in 1 .. n
        <5> HIDE DEF n
        <5> QED BY <1>1, <2>3, <3>2
      <4>2. \A j \in 1 .. n : Append(out, m)[j] = out[j]
        OBVIOUS
      <4> QED BY <2>3, <4>1, <4>2 DEF Apart
    <3> QED BY <3>1, <3>2
  <2>4. Append(out, m) # <<>>
    <3>1. Len(Append(out, m)) # 0
      <4> HIDE DEF n
      <4> QED BY <1>1, <2>2
    <3>2. Len(<<>>) = 0
      OBVIOUS
    <3> QED BY <3>1, <3>2, Zenon
  <2>5. Apart(out) => Apart(Append(out, m))
    BY <1>1, <2>2, <2>3 DEF Apart
  <2> QED BY <2>1, <2>2, <2>4, <2>5, ToldAppend
<1>3. CASE merges
  <2> DEFINE last == out[n]
             front == SubSeq(out, 1, n - 1)
             more == [last EXCEPT !.text = @ \o <<NL>> \o m.text]
             now == [out EXCEPT ![n] = more]
  <2>1. n # 0 /\ last \in Msgs /\ n \in DOMAIN out
    BY <1>1, <1>3
  <2>2. more \in Msgs /\ more.role = last.role /\ more.text = last.text \o (<<NL>> \o m.text)
    <3>1. last.text \in Writings /\ m.text \in Writings /\ <<NL>> \in Writings
      <4>1. <<NL>> \in Seq(Letters)
        BY DEF Letters
      <4> QED BY <2>1, <4>1 DEF Msgs, Writings
    <3>2. last.text \o <<NL>> \o m.text = last.text \o (<<NL>> \o m.text)
      <4>1. Cat(last.text, Cat(<<NL>>, m.text)) = Cat(Cat(last.text, <<NL>>), m.text)
        BY <3>1, CatAssociates
      <4> QED BY <4>1 DEF Cat
    <3>3. last.text \o (<<NL>> \o m.text) \in Writings
      BY <3>1, TextConcat
    <3>4. more = [last EXCEPT !.text = last.text \o (<<NL>> \o m.text)]
      BY <3>2
    <3> HIDE DEF last
    <3> QED BY <2>1, <3>3, <3>4 DEF Msgs
  <2>3. Joining(out, m) = now
    BY <1>1, <1>3, <2>1 DEF Joining
  <2> HIDE DEF more
  <2>4. now \in Seq(Msgs) /\ Len(now) = n /\ now # <<>> /\ \A i \in 1 .. n : now[i].role = out[i].role
    <3>1. DOMAIN now = 1 .. n /\ \A i \in 1 .. n : now[i] = IF i = n THEN more ELSE out[i]
      BY <1>1
    <3>2. \A i \in 1 .. n : now[i] \in Msgs
      BY <1>1, <2>2, <3>1, ElementIn
    <3>3. now \in [1 .. n -> Msgs]
      BY <1>1, <3>1, <3>2
    <3> HIDE DEF now, n
    <3>4. now \in Seq(Msgs) /\ Len(now) = n
      BY <1>1, <3>1, <3>3
    <3>5. now # <<>>
      BY <1>1, <2>1, <3>4
    <3>6. \A i \in 1 .. n : now[i].role = out[i].role
      BY <2>2, <3>1 DEF n
    <3> QED BY <3>4, <3>5, <3>6
  <2>5. Apart(out) => Apart(now)
    <3> HIDE DEF now
    <3> QED BY <1>1, <2>4 DEF Apart
  <2>6. front \in Seq(Msgs) /\ Len(front) = n - 1 /\ \A i \in 1 .. (n - 1) : front[i] = out[i]
    BY <1>1, <2>1
  <2>7. out = Append(front, last) /\ now = Append(front, more)
    <3> HIDE DEF front, last, n
    <3>1. ASSUME NEW x \in Msgs
          PROVE  Append(front, x) = [i \in 1 .. n |-> IF i = n THEN x ELSE out[i]]
      <4>1. PICK z : z = Append(front, x)
        OBVIOUS
      <4>2. z \in Seq(Msgs) /\ DOMAIN z = 1 .. n
        BY <1>1, <2>1, <2>6, <4>1
      <4>3. \A i \in 1 .. n : z[i] = IF i = n THEN x ELSE out[i]
        BY <1>1, <2>1, <2>6, <4>1
      <4>4. z = [i \in 1 .. n |-> z[i]]
        BY <4>2
      <4> QED BY <4>1, <4>3, <4>4
    <3>2. out = [i \in 1 .. n |-> IF i = n THEN last ELSE out[i]]
      <4>1. out = [i \in 1 .. n |-> out[i]]
        BY <1>1
      <4> QED BY <4>1 DEF last
    <3>3. now = [i \in 1 .. n |-> IF i = n THEN more ELSE out[i]]
      BY <1>1
    <3> HIDE DEF now
    <3> QED BY <2>1, <2>2, <3>1, <3>2, <3>3
  <2> HIDE DEF now, front, last
  <2>8. /\ Told(out) = After(Told(front), front = <<>>, last.text)
        /\ Told(now) = After(Told(front), front = <<>>, more.text)
    BY <2>1, <2>2, <2>6, <2>7, ToldAppend
  <2>9. Told(now) = Told(out) \o (<<NL>> \o m.text)
    <3> DEFINE t == <<NL>> \o m.text
    <3>1. Told(front) \in Writings /\ last.text \in Writings /\ t \in Writings /\ <<NL>> \o last.text \in Writings
      BY <2>1, <2>6, JoinedIn, TextsOfIn, TextConcat DEF Told, Msgs
    <3>2. <<NL>> \in Writings
      <4>1. <<NL>> \in Seq(Letters)
        BY DEF Letters
      <4> QED BY <4>1 DEF Writings
    <3> HIDE DEF t
    <3>3. <<NL>> \o (last.text \o t) = (<<NL>> \o last.text) \o t
      <4>1. Cat(<<NL>>, Cat(last.text, t)) = Cat(Cat(<<NL>>, last.text), t)
        BY <3>1, <3>2, CatAssociates
      <4> QED BY <4>1 DEF Cat
    <3>4. Told(front) \o ((<<NL>> \o last.text) \o t) = (Told(front) \o (<<NL>> \o last.text)) \o t
      <4>1. Cat(Told(front), Cat(Cat(<<NL>>, last.text), t)) = Cat(Cat(Told(front), Cat(<<NL>>, last.text)), t)
        <5>1. Cat(<<NL>>, last.text) \in Writings
          BY <3>1 DEF Cat
        <5> QED BY <3>1, <5>1, CatAssociates
      <4> QED BY <4>1 DEF Cat
    <3>5. more.text = last.text \o t
      BY <2>2 DEF t
    <3>6. Told(now) = Told(out) \o t
      BY <2>8, <3>3, <3>4, <3>5 DEF After
    <3> QED BY <3>6 DEF t
  <2> QED BY <1>3, <2>3, <2>4, <2>5, <2>9 DEF After
<1> QED BY <1>2, <1>3

(* The messages join one by one. *)
LEMMA MergedRun ==
  ASSUME NEW ms \in Seq(Msgs)
  PROVE  \E F : /\ F[0] = <<>>
                /\ \A k \in 1 .. Len(ms) : F[k] = Joining(F[k - 1], ms[k])
                /\ JoiningEnd(<<>>, ms) = F[Len(ms)]
<1>1. Len(ms) \in Nat /\ DOMAIN ms = 1 .. Len(ms)
  OBVIOUS
<1>2. PICK F : Runs(F, "joining", <<>>, <<>>, ms, Len(ms)) /\ JoiningEnd(<<>>, ms) = F[Len(ms)]
  BY <1>1, JoiningFold
<1>3. \A acc, x : Step("joining", <<>>, acc, x) = Joining(acc, x)
  BY DEF Step
<1> QED BY <1>2, <1>3 DEF Runs

(* Merging keeps what is told and leaves no two messages of a role         *)
(* together.                                                               *)
LEMMA MergedFacts ==
  ASSUME NEW ms \in Seq(Msgs)
  PROVE  /\ Merged(ms) \in Seq(Msgs) /\ (Merged(ms) = <<>> <=> ms = <<>>)
         /\ Told(Merged(ms)) = Told(ms) /\ Apart(Merged(ms))
<1> DEFINE n == Len(ms)
           Upto(k) == SubSeq(ms, 1, k)
<1>1. n \in Nat /\ DOMAIN ms = 1 .. n /\ (n = 0 <=> ms = <<>>)
  OBVIOUS
<1>2. PICK F : /\ F[0] = <<>>
               /\ \A k \in 1 .. n : F[k] = Joining(F[k - 1], ms[k])
               /\ JoiningEnd(<<>>, ms) = F[n]
  BY MergedRun
<1> DEFINE Good(k) == /\ F[k] \in Seq(Msgs) /\ (F[k] = <<>> <=> k = 0)
                      /\ Told(F[k]) = Told(Upto(k)) /\ Apart(F[k])
           Bad == {k \in 0 .. n : ~Good(k)}
<1>3. \A k \in 1 .. n : /\ Upto(k) = Append(Upto(k - 1), ms[k]) /\ Upto(k - 1) \in Seq(Msgs)
                        /\ ms[k] \in Msgs /\ (Upto(k - 1) = <<>> <=> k - 1 = 0)
  BY <1>1
<1>4. Bad = {}
  <2> SUFFICES ASSUME Bad # {} PROVE FALSE
    OBVIOUS
  <2>1. PICK k \in Bad : \A j \in Bad : k <= j
    <3> HIDE DEF Bad
    <3>1. Bad \in SUBSET Nat
      BY <1>1 DEF Bad
    <3> QED BY <3>1, Least
  <2>2. Good(0)
    <3>1. Upto(0) = <<>> /\ <<>> \in Seq(Msgs) /\ Apart(<<>>)
      BY <1>1 DEF Apart
    <3> QED BY <1>2, <3>1
  <2>3. k # 0 /\ k \in 1 .. n /\ k - 1 \in 0 .. n
    <3> HIDE DEF Good
    <3> QED BY <1>1, <2>1, <2>2
  <2>4. Good(k - 1)
    <3> HIDE DEF Good
    <3> QED BY <1>1, <2>1, <2>3
  <2>5. F[k] = Joining(F[k - 1], ms[k])
    BY <1>2, <2>3
  <2> HIDE DEF Upto
  <2>6. /\ F[k] \in Seq(Msgs) /\ F[k] # <<>> /\ Apart(F[k])
        /\ Told(F[k]) = After(Told(F[k - 1]), F[k - 1] = <<>>, ms[k].text)
    <3>1. PICK out \in Seq(Msgs), m \in Msgs : out = F[k - 1] /\ m = ms[k]
      BY <1>3, <2>3, <2>4
    <3>2. Apart(out) /\ F[k] = Joining(out, m)
      BY <2>4, <2>5, <3>1
    <3>3. /\ Joining(out, m) \in Seq(Msgs) /\ Joining(out, m) # <<>> /\ Apart(Joining(out, m))
          /\ Told(Joining(out, m)) = After(Told(out), out = <<>>, m.text)
      BY <3>2, JoiningFacts
    <3> QED BY <3>1, <3>2, <3>3
  <2>7. Told(Upto(k)) = After(Told(Upto(k - 1)), Upto(k - 1) = <<>>, ms[k].text)
    <3> HIDE DEF n, Good
    <3>1. Upto(k) = Append(Upto(k - 1), ms[k]) /\ Upto(k - 1) \in Seq(Msgs) /\ ms[k] \in Msgs
      BY <1>3, <2>3
    <3> QED BY <3>1, ToldAppend, Zenon
  <2>8. Good(k)
    BY <1>3, <2>3, <2>4, <2>6, <2>7
  <2> HIDE DEF Good
  <2> QED BY <2>1, <2>8
<1>5. Upto(n) = ms
  BY <1>1
<1>6. Good(n)
  <2> HIDE DEF Good
  <2> QED BY <1>1, <1>4
<1>7. Merged(ms) = F[n]
  BY <1>2 DEF Merged, JoiningEnd
<1> HIDE DEF n, Upto
<1> QED BY <1>1, <1>5, <1>6, <1>7


-----------------------------------------------------------------------------
(* Requests: what a turn sends. *)

(* The texts of messages end to end. *)
LEMMA TextsOfConcat ==
  ASSUME NEW x \in Seq(Msgs), NEW y \in Seq(Msgs)
  PROVE  TextsOf(x \o y) = TextsOf(x) \o TextsOf(y)
<1> DEFINE n == Len(x)
           m == Len(y)
           a == TextsOf(x \o y)
           b == TextsOf(x) \o TextsOf(y)
<1>1. n \in Nat /\ m \in Nat /\ x \o y \in Seq(Msgs) /\ Len(x \o y) = n + m
  OBVIOUS
<1>2. a \in Seq(Writings) /\ Len(a) = n + m
  BY <1>1, TextsOfIn
<1>3. /\ TextsOf(x) \in Seq(Writings) /\ TextsOf(y) \in Seq(Writings)
      /\ Len(TextsOf(x)) = n /\ Len(TextsOf(y)) = m
  BY TextsOfIn
<1>4. b \in Seq(Writings) /\ Len(b) = n + m
  BY <1>1, <1>3
<1>5. ASSUME NEW i \in 1 .. (n + m) PROVE a[i] = b[i]
  <2>1. i \in DOMAIN (x \o y)
    BY <1>1
  <2>2. a[i] = (x \o y)[i].text
    BY <2>1 DEF TextsOf
  <2>3. CASE i <= n
    <3>1. (x \o y)[i] = x[i] /\ i \in DOMAIN x
      BY <1>1, <2>3
    <3>2. b[i] = TextsOf(x)[i]
      BY <1>1, <1>3, <2>3
    <3>3. TextsOf(x)[i] = x[i].text
      BY <3>1 DEF TextsOf
    <3> QED BY <2>2, <3>1, <3>2, <3>3
  <2>4. CASE ~(i <= n)
    <3>1. (x \o y)[i] = y[i - n] /\ i - n \in DOMAIN y
      BY <1>1, <2>4
    <3>2. b[i] = TextsOf(y)[i - n]
      BY <1>1, <1>3, <2>4
    <3>3. TextsOf(y)[i - n] = y[i - n].text
      BY <3>1 DEF TextsOf
    <3> QED BY <2>2, <3>1, <3>2, <3>3
  <2> QED BY <2>3, <2>4
<1> HIDE DEF a, b
<1>6. a = [i \in 1 .. (n + m) |-> a[i]] /\ b = [i \in 1 .. (n + m) |-> b[i]]
  BY <1>2, <1>4
<1>7. a = b
  BY <1>5, <1>6
<1> QED BY <1>7 DEF a, b

(* The segments before and after the history. *)
Systems(texts) == [i \in DOMAIN texts |-> System(texts[i])]

(* Segments become messages with their texts. *)
LEMMA SystemsTexts ==
  ASSUME NEW t \in Seq(Seq(STRING))
  PROVE  Systems(t) \in Seq(Msgs) /\ TextsOf(Systems(t)) = t
<1>1. DOMAIN t = 1 .. Len(t) /\ Len(t) \in Nat
  OBVIOUS
<1>2. ASSUME NEW i \in DOMAIN t PROVE System(t[i]) \in Msgs /\ System(t[i]).text = t[i]
  <2>1. t[i] \in Seq(STRING)
    BY ElementIn
  <2>2. t[i] \in Writings
    BY <2>1 DEF Writings, Letters
  <2> QED BY <2>2 DEF System, Msgs
<1>3. Systems(t) \in [1 .. Len(t) -> Msgs]
  BY <1>1, <1>2 DEF Systems
<1>4. Systems(t) \in Seq(Msgs) /\ DOMAIN Systems(t) = DOMAIN t
  <2>1. PICK n \in Nat : n = Len(t)
    BY <1>1
  <2>2. PICK z \in [1 .. n -> Msgs] : z = Systems(t)
    BY <1>3, <2>1
  <2>3. z \in Seq(Msgs)
    OBVIOUS
  <2>4. DOMAIN z = 1 .. n
    OBVIOUS
  <2> QED BY <1>1, <2>1, <2>2, <2>3, <2>4
<1>5. TextsOf(Systems(t)) = [i \in DOMAIN t |-> t[i]]
  <2>1. \A i \in DOMAIN t : Systems(t)[i].text = t[i]
    BY <1>2 DEF Systems
  <2> QED BY <1>4, <2>1 DEF TextsOf
<1> QED BY <1>4, <1>5

(* The rows of a history are messages. *)
LEMMA HistoryIn == ASSUME NEW h, RealMessages(h) PROVE h \in Seq(Msgs)
<1>1. [role : STRING, text : Seq(STRING), images : BOOLEAN] \subseteq Msgs
  BY DEF Msgs, Writings, Letters
<1>2. h \in Seq([role : STRING, text : Seq(STRING), images : BOOLEAN])
  BY DEF RealMessages
<1>3. \A i \in DOMAIN h : h[i] \in Msgs
  BY <1>1, <1>2, ElementIn
<1>4. h \in [1 .. Len(h) -> Msgs] /\ Len(h) \in Nat
  BY <1>2, <1>3
<1> QED BY <1>4

(* What NothingIsLost says of one request. *)
Whole(before, after, shown, sent) ==
  LET ends == shown # <<>> /\ Last(shown).role = "user"
      texts == before
               \o [i \in 1..(IF ends THEN Len(shown) - 1 ELSE Len(shown)) |-> shown[i].text]
               \o after \o (IF ends THEN <<Last(shown).text>> ELSE <<>>)
      rest == IF ends THEN Front(sent) ELSE sent
  IN  /\ Joined([i \in DOMAIN sent |-> sent[i].text]) = Joined(texts)
      /\ ends => Last(sent) = Last(shown)
      /\ \A i \in 1..(Len(rest) - 1) : rest[i].role # rest[i + 1].role

Sent(before, after, shown) ==
  LET turn == IF shown # <<>> /\ Last(shown).role = "user" THEN <<Last(shown)>> ELSE <<>>
  IN  Merged(Systems(before) \o SubSeq(shown, 1, Len(shown) - Len(turn)) \o Systems(after)) \o turn

(* A request that is built holds all that was to be sent, in order. *)
LEMMA SentWhole ==
  ASSUME NEW before \in Seq(Seq(STRING)), NEW after \in Seq(Seq(STRING)), NEW shown \in Seq(Msgs)
  PROVE  Whole(before, after, shown, Sent(before, after, shown))
<1> DEFINE ends == shown # <<>> /\ Last(shown).role = "user"
           k == IF ends THEN Len(shown) - 1 ELSE Len(shown)
           told == SubSeq(shown, 1, k)
           past == [i \in 1..k |-> shown[i].text]
           ms == Systems(before) \o told \o Systems(after)
           sent == Sent(before, after, shown)
<1>1. Len(shown) \in Nat /\ (shown # <<>> => Len(shown) # 0 /\ Last(shown) \in Msgs)
  <2>1. shown # <<>> => Len(shown) \in DOMAIN shown
    OBVIOUS
  <2> QED BY <2>1, ElementIn DEF Last
<1>2. k \in 0 .. Len(shown)
  BY <1>1
<1>3. told \in Seq(Msgs) /\ Len(told) = k /\ \A i \in 1 .. k : told[i] = shown[i]
  <2> HIDE DEF k
  <2> QED BY <1>1, <1>2
<1>4. TextsOf(told) = past
  <2> HIDE DEF told, k
  <2>1. DOMAIN told = 1 .. k
    BY <1>3
  <2> QED BY <1>3, <2>1 DEF TextsOf
<1>5. sent = Merged(ms) \o (IF ends THEN <<Last(shown)>> ELSE <<>>)
  <2>1. Len(<<Last(shown)>>) = 1 /\ Len(<<>>) = 0
    OBVIOUS
  <2>2. CASE ends
    BY <2>1, <2>2 DEF Sent
  <2>3. CASE ~ends
    <3>1. Len(shown) - 0 = Len(shown)
      BY <1>1
    <3> QED BY <2>1, <2>3, <3>1 DEF Sent
  <2> QED BY <2>2, <2>3
<1> HIDE DEF sent, told, k, past
<1>6. ms \in Seq(Msgs) /\ TextsOf(ms) = before \o past \o after
  <2>1. Systems(before) \in Seq(Msgs) /\ Systems(after) \in Seq(Msgs)
    BY SystemsTexts
  <2>2. Systems(before) \o told \in Seq(Msgs)
    BY <1>3, <2>1
  <2>3. TextsOf(Systems(before) \o told) = TextsOf(Systems(before)) \o TextsOf(told)
    BY <1>3, <2>1, TextsOfConcat
  <2>4. TextsOf(Systems(before)) = before /\ TextsOf(Systems(after)) = after
    BY SystemsTexts
  <2>5. ms \in Seq(Msgs)
    BY <2>1, <2>2
  <2>6. TextsOf(ms) = TextsOf(Systems(before) \o told) \o TextsOf(Systems(after))
    BY <2>1, <2>2, TextsOfConcat
  <2>7. TextsOf(ms) = before \o past \o after
    BY <1>4, <2>3, <2>4, <2>6
  <2> QED BY <2>5, <2>7
<1> HIDE DEF ms
<1>7. /\ Merged(ms) \in Seq(Msgs) /\ (Merged(ms) = <<>> <=> ms = <<>>)
      /\ Told(Merged(ms)) = Told(ms) /\ Apart(Merged(ms))
  BY <1>6, MergedFacts
<1>8. before \o past \o after \in Seq(Writings)
  BY <1>6, TextsOfIn
<1>9. CASE ~ends
  <2>1. sent = Merged(ms)
    BY <1>5, <1>7, <1>9
  <2>2. (before \o past \o after) \o <<>> = before \o past \o after
    BY <1>8
  <2>3. Joined([i \in DOMAIN sent |-> sent[i].text]) = Joined((before \o past \o after) \o <<>>)
    BY <1>6, <1>7, <2>1, <2>2 DEF Told, TextsOf
  <2> QED BY <1>7, <1>9, <2>1, <2>3 DEF Whole, Apart, past, k, sent
<1>10. CASE ends
  <2>1. Last(shown) \in Msgs /\ Last(shown).text \in Writings
    BY <1>1, <1>10 DEF Msgs
  <2>2. PICK turn \in Msgs : turn = Last(shown)
    BY <2>1
  <2>3. sent = Append(Merged(ms), turn)
    BY <1>5, <1>7, <1>10, <2>2
  <2>4. Told(sent) = Told(Append(ms, turn))
    BY <1>6, <1>7, <2>3, ToldAppend
  <2>5. TextsOf(Append(ms, turn)) = (before \o past \o after) \o <<turn.text>>
    <3>1. Append(before \o past \o after, turn.text) = (before \o past \o after) \o <<turn.text>>
      BY <1>8, <2>1, <2>2
    <3> QED BY <1>6, <3>1, TextsOfAppend
  <2>6. Last(sent) = turn /\ Front(sent) = Merged(ms)
    <3>1. PICK out \in Seq(Msgs) : out = Merged(ms)
      BY <1>7
    <3>2. Last(Append(out, turn)) = turn /\ Front(Append(out, turn)) = out
      <4>1. Len(Append(out, turn)) = Len(out) + 1 /\ Len(out) \in Nat
        OBVIOUS
      <4>2. Append(out, turn)[Len(out) + 1] = turn
        OBVIOUS
      <4>3. SubSeq(Append(out, turn), 1, Len(out)) = out
        OBVIOUS
      <4> QED BY <4>1, <4>2, <4>3 DEF Last, Front
    <3> QED BY <2>3, <3>1, <3>2
  <2>7. Joined([i \in DOMAIN sent |-> sent[i].text]) = Joined((before \o past \o after) \o <<Last(shown).text>>)
    BY <2>2, <2>4, <2>5 DEF Told, TextsOf
  <2> QED BY <1>7, <1>10, <2>2, <2>6, <2>7 DEF Whole, Apart, past, k, sent
<1> QED BY <1>9, <1>10

(* An answer that is computed has lost nothing. *)
LEMMA NothingIsLostStep == Computed => NothingIsLost
<1> SUFFICES ASSUME Computed, Answered("messages") PROVE NothingIsLost
  BY DEF NothingIsLost
<1> DEFINE shown == IF input.included THEN input.history ELSE <<>>
<1>1. /\ RealMessages(input.history) /\ {input.plan.before, input.plan.after} \subseteq Seq(Seq(STRING))
      /\ answer = BuildMessages(input.plan, input.history, input.included)
  BY DEF Computed, Answered, RealInput
<1>2. shown \in Seq(Msgs)
  <2>1. <<>> \in Seq(Msgs)
    OBVIOUS
  <2> QED BY <1>1, <2>1, HistoryIn
<1>3. answer = Sent(input.plan.before, input.plan.after, shown)
  BY <1>1 DEF BuildMessages, Sent, Systems
<1> HIDE DEF shown
<1>4. Whole(input.plan.before, input.plan.after, shown, answer)
  BY <1>1, <1>2, <1>3, SentWhole
<1> QED BY <1>4 DEF Whole, NothingIsLost, shown

-----------------------------------------------------------------------------
(* Requests: trimming. *)

(* The messages are counted one by one. *)
LEMMA CountedRun ==
  ASSUME NEW ms \in Seq(Msgs)
  PROVE  \E F : /\ F[0] = 0
                /\ \A k \in 1 .. Len(ms) : F[k] = Counted(F[k - 1], ms[k])
                /\ CountedEnd(0, ms) = F[Len(ms)]
<1>1. Len(ms) \in Nat /\ DOMAIN ms = 1 .. Len(ms)
  OBVIOUS
<1>2. PICK F : Runs(F, "counted", <<>>, 0, ms, Len(ms)) /\ CountedEnd(0, ms) = F[Len(ms)]
  BY <1>1, CountedFold
<1>3. \A acc, x : Step("counted", <<>>, acc, x) = Counted(acc, x)
  BY DEF Step
<1> QED BY <1>2, <1>3 DEF Runs

(* The count is the sum of the lengths of the texts. *)
LEMMA TokensRun ==
  ASSUME NEW ms \in Seq(Msgs)
  PROVE  \E F : /\ F[0] = 0
                /\ \A k \in 1 .. Len(ms) : F[k] = F[k - 1] + Len(ms[k].text)
                /\ \A k \in 0 .. Len(ms) : F[k] \in Nat
                /\ Tokens(ms) = F[Len(ms)]
<1> DEFINE n == Len(ms)
<1>1. n \in Nat /\ DOMAIN ms = 1 .. n
  OBVIOUS
<1>2. PICK F : /\ F[0] = 0
               /\ \A k \in 1 .. n : F[k] = Counted(F[k - 1], ms[k])
               /\ CountedEnd(0, ms) = F[n]
  BY CountedRun
<1>3. \A k \in 1 .. n : F[k] = F[k - 1] + Len(ms[k].text)
  BY <1>2 DEF Counted
<1>4. \A k \in 1 .. n : Len(ms[k].text) \in Nat
  <2> TAKE k \in 1 .. n
  <2>1. ms[k] \in Msgs
    BY <1>1, ElementIn
  <2> QED BY <2>1 DEF Msgs, Writings
<1> DEFINE Bad == {k \in 0 .. n : F[k] \notin Nat}
<1>5. Bad = {}
  <2> SUFFICES ASSUME Bad # {} PROVE FALSE
    OBVIOUS
  <2>1. PICK k \in Bad : \A j \in Bad : k <= j
    <3> HIDE DEF Bad
    <3>1. Bad \in SUBSET Nat
      BY <1>1 DEF Bad
    <3> QED BY <3>1, Least
  <2>2. k # 0 /\ k \in 1 .. n /\ k - 1 \in 0 .. n /\ k - 1 \notin Bad
    <3> HIDE DEF n
    <3> QED BY <1>1, <1>2, <2>1
  <2>3. F[k - 1] \in Nat
    BY <2>2
  <2>4. F[k] = F[k - 1] + Len(ms[k].text) /\ Len(ms[k].text) \in Nat
    <3> HIDE DEF n
    <3> QED BY <1>3, <1>4, <2>2
  <2>5. F[k] \in Nat
    BY <2>3, <2>4
  <2> QED BY <2>1, <2>5
<1>6. Tokens(ms) = F[n]
  BY <1>2 DEF Tokens, CountedEnd
<1> QED BY <1>2, <1>3, <1>5, <1>6

(* Messages end to end weigh what both weigh. *)
LEMMA TokensConcat ==
  ASSUME NEW x \in Seq(Msgs), NEW y \in Seq(Msgs)
  PROVE  Tokens(x \o y) = Tokens(x) + Tokens(y) /\ Tokens(x) \in Nat /\ Tokens(y) \in Nat
<1> DEFINE n == Len(x)
           m == Len(y)
<1>1. n \in Nat /\ m \in Nat /\ x \o y \in Seq(Msgs) /\ Len(x \o y) = n + m
  OBVIOUS
<1>2. PICK F : /\ F[0] = 0
               /\ \A k \in 1 .. n : F[k] = F[k - 1] + Len(x[k].text)
               /\ \A k \in 0 .. n : F[k] \in Nat
               /\ Tokens(x) = F[n]
  BY TokensRun
<1>3. PICK G : /\ G[0] = 0
               /\ \A k \in 1 .. m : G[k] = G[k - 1] + Len(y[k].text)
               /\ \A k \in 0 .. m : G[k] \in Nat
               /\ Tokens(y) = G[m]
  BY TokensRun
<1>4. PICK H : /\ H[0] = 0
               /\ \A k \in 1 .. (n + m) : H[k] = H[k - 1] + Len((x \o y)[k].text)
               /\ \A k \in 0 .. (n + m) : H[k] \in Nat
               /\ Tokens(x \o y) = H[n + m]
  <2>1. PICK z \in Seq(Msgs) : z = x \o y
    BY <1>1
  <2>2. Len(z) = n + m
    BY <1>1, <2>1
  <2> QED BY <2>1, <2>2, TokensRun
<1>5. /\ \A k \in 1 .. n : (x \o y)[k] = x[k]
      /\ \A k \in 1 .. m : (x \o y)[n + k] = y[k]
  OBVIOUS
<1> HIDE DEF n, m
<1>6. /\ \A k \in 1 .. n : H[k] = H[k - 1] + Len(x[k].text)
      /\ \A k \in 1 .. m : H[n + k] = H[n + k - 1] + Len(y[k].text)
  <2>1. ASSUME NEW k \in 1 .. n PROVE H[k] = H[k - 1] + Len(x[k].text)
    <3>1. k \in 1 .. (n + m)
      BY <1>1
    <3> QED BY <1>4, <1>5, <3>1
  <2>2. ASSUME NEW k \in 1 .. m PROVE H[n + k] = H[n + k - 1] + Len(y[k].text)
    <3>1. PICK j \in 1 .. (n + m) : j = n + k
      BY <1>1
    <3>2. H[j] = H[j - 1] + Len((x \o y)[j].text)
      BY <1>4
    <3>3. (x \o y)[j] = y[k] /\ j - 1 = n + k - 1
      BY <1>1, <1>5, <3>1
    <3>4. H[j] = H[n + k - 1] + Len(y[k].text)
      BY <3>2, <3>3
    <3> QED BY <3>1, <3>4
  <2> QED BY <2>1, <2>2
<1> DEFINE Bad == {k \in 0 .. n : H[k] # F[k]}
           Worse == {k \in 0 .. m : H[n + k] # F[n] + G[k]}
<1>7. Bad = {}
  <2> SUFFICES ASSUME Bad # {} PROVE FALSE
    OBVIOUS
  <2>1. PICK k \in Bad : \A j \in Bad : k <= j
    <3> HIDE DEF Bad
    <3>1. Bad \in SUBSET Nat
      BY <1>1 DEF Bad
    <3> QED BY <3>1, Least
  <2>2. k \in 1 .. n /\ k - 1 \in 0 .. n /\ k - 1 \notin Bad
    BY <1>1, <1>2, <1>4, <2>1
  <2>3. H[k - 1] = F[k - 1] /\ H[k] # F[k]
    BY <2>1, <2>2
  <2> QED BY <1>2, <1>6, <2>2, <2>3
<1>8. H[n] = F[n]
  BY <1>1, <1>7
<1>9. Worse = {}
  <2> SUFFICES ASSUME Worse # {} PROVE FALSE
    OBVIOUS
  <2>1. PICK k \in Worse : \A j \in Worse : k <= j
    <3> HIDE DEF Worse
    <3>1. Worse \in SUBSET Nat
      BY <1>1 DEF Worse
    <3> QED BY <3>1, Least
  <2>2. k # 0
    <3>1. n + 0 = n /\ F[n] \in Nat /\ F[n] + 0 = F[n]
      BY <1>1, <1>2
    <3> QED BY <1>3, <1>8, <2>1, <3>1
  <2>3. k \in 1 .. m /\ k - 1 \in 0 .. m /\ k - 1 \notin Worse
    BY <1>1, <2>1, <2>2
  <2>4. H[n + (k - 1)] = F[n] + G[k - 1] /\ H[n + k] # F[n] + G[k]
    BY <2>1, <2>3
  <2>5. H[n + k] = H[n + (k - 1)] + Len(y[k].text) /\ G[k] = G[k - 1] + Len(y[k].text)
    <3>1. n + k - 1 = n + (k - 1)
      BY <1>1, <2>3
    <3> QED BY <1>3, <1>6, <2>3, <3>1
  <2>6. G[k - 1] \in Nat /\ G[k] \in Nat /\ F[n] \in Nat
    BY <1>1, <1>2, <1>3, <2>3
  <2>7. Len(y[k].text) \in Nat
    <3>1. y[k] \in Msgs
      BY <2>3, ElementIn DEF m
    <3> QED BY <3>1 DEF Msgs, Writings
  <2> HIDE DEF Worse, n, m
  <2>8. PICK front \in Nat, back \in Nat, size \in Nat :
            front = F[n] /\ back = G[k - 1] /\ size = Len(y[k].text)
    BY <2>6, <2>7
  <2>9. H[n + k] = (front + back) + size /\ G[k] = back + size
    BY <2>4, <2>5, <2>8
  <2>10. \A a, b, c \in Nat : (a + b) + c = a + (b + c)
    OBVIOUS
  <2> QED BY <2>4, <2>8, <2>9, <2>10
<1>10. H[n + m] = F[n] + G[m] /\ F[n] \in Nat /\ G[m] \in Nat
  <2>1. n \in 0 .. n /\ m \in 0 .. m
    BY <1>1
  <2>2. m \notin Worse
    BY <1>9
  <2> QED BY <1>2, <1>3, <2>1, <2>2
<1> QED BY <1>2, <1>3, <1>4, <1>10

(* One message weighs its text. *)
LEMMA TokensOne == ASSUME NEW m \in Msgs PROVE Tokens(<<m>>) = Len(m.text) /\ Len(m.text) \in Nat
<1>1. PICK s \in Seq(Msgs) : s = <<m>>
  <2>1. <<m>> \in Seq(Msgs)
    OBVIOUS
  <2> QED BY <2>1
<1>2. Len(s) = 1 /\ s[1] = m /\ 1 \in 1 .. 1
  BY <1>1
<1>3. PICK F : /\ F[0] = 0
               /\ \A k \in 1 .. Len(s) : F[k] = F[k - 1] + Len(s[k].text)
               /\ \A k \in 0 .. Len(s) : F[k] \in Nat
               /\ Tokens(s) = F[Len(s)]
  BY TokensRun
<1>4. F[1] = F[1 - 1] + Len(m.text) /\ Tokens(s) = F[1]
  BY <1>2, <1>3
<1>5. Len(m.text) \in Nat
  BY DEF Msgs, Writings
<1> QED BY <1>1, <1>3, <1>4, <1>5

(* What all but a run of k messages after the first ones weigh. *)
Upto(ms, i) == Tokens(SubSeq(ms, 1, i))
Without(ms, first, k) == SubSeq(ms, 1, first) \o SubSeq(ms, first + k + 1, Len(ms))

(* The first i messages weigh one text more than those before. *)
LEMMA UptoStep ==
  ASSUME NEW ms \in Seq(Msgs), NEW i \in 1 .. Len(ms)
  PROVE  Upto(ms, i) = Upto(ms, i - 1) + Len(ms[i].text) /\ Len(ms[i].text) \in Nat
<1>1. Len(ms) \in Nat /\ i \in DOMAIN ms
  OBVIOUS
<1>2. ms[i] \in Msgs
  BY <1>1, ElementIn
<1>3. SubSeq(ms, 1, i - 1) \in Seq(Msgs) /\ <<ms[i]>> \in Seq(Msgs)
  BY <1>2
<1>4. SubSeq(ms, 1, i) = SubSeq(ms, 1, i - 1) \o <<ms[i]>>
  <2>1. 1 \in 1 .. Len(ms) /\ i \in 1 .. Len(ms)
    BY <1>1
  <2> QED BY <2>1, SubSeqRecursiveSecond
<1> QED BY <1>2, <1>3, <1>4, TokensConcat, TokensOne DEF Upto

(* A weight is a number. *)
LEMMA UptoIn ==
  ASSUME NEW ms \in Seq(Msgs), NEW i \in 0 .. Len(ms)
  PROVE  Upto(ms, i) \in Nat
<1>1. SubSeq(ms, 1, i) \in Seq(Msgs)
  OBVIOUS
<1> QED BY <1>1, TokensConcat DEF Upto

(* The messages are those up to a place and those after it. *)
LEMMA SplitAt ==
  ASSUME NEW ms \in Seq(Msgs), NEW i \in 0 .. Len(ms)
  PROVE  SubSeq(ms, 1, Len(ms)) = SubSeq(ms, 1, i) \o SubSeq(ms, i + 1, Len(ms))
<1>1. 1 \in 1 .. (Len(ms) + 1) /\ i \in (1 - 1) .. Len(ms) /\ Len(ms) \in i .. Len(ms)
  OBVIOUS
<1> QED BY <1>1, ConcatAdjacentSubSeq

(* What is left without a run of messages weighs that run less. *)
LEMMA WithoutWeighs ==
  ASSUME NEW ms \in Seq(Msgs), NEW first \in 0 .. Len(ms), NEW k \in 0 .. (Len(ms) - first)
  PROVE  Tokens(Without(ms, first, k)) = Upto(ms, first) + Upto(ms, Len(ms)) - Upto(ms, first + k)
<1> DEFINE n == Len(ms)
           rest == SubSeq(ms, first + k + 1, n)
<1>1. n \in Nat /\ first + k \in 0 .. n
  OBVIOUS
<1>2. SubSeq(ms, 1, first) \in Seq(Msgs) /\ SubSeq(ms, 1, first + k) \in Seq(Msgs) /\ rest \in Seq(Msgs)
  BY <1>1
<1>3. SubSeq(ms, 1, n) = SubSeq(ms, 1, first + k) \o rest
  BY <1>1, SplitAt
<1> HIDE DEF rest
<1>4. Upto(ms, n) = Upto(ms, first + k) + Tokens(rest) /\ Tokens(rest) \in Nat
  BY <1>2, <1>3, TokensConcat DEF Upto
<1>5. Tokens(Without(ms, first, k)) = Upto(ms, first) + Tokens(rest)
  BY <1>2, TokensConcat DEF Upto, Without, rest
<1>6. Upto(ms, first) \in Nat /\ Upto(ms, n) \in Nat /\ Upto(ms, first + k) \in Nat
  BY <1>1, UptoIn
<1> HIDE DEF n
<1> QED BY <1>4, <1>5, <1>6 DEF n

(* What TrimKeepsEnds says of one request. *)
Trimmed(all, window, sent) ==
  LET first == IF Head(all).role = "system" THEN 1 ELSE 0
      k == Len(all) - Len(sent)
  IN  /\ sent = Without(all, first, k)
      /\ Last(sent) = Last(all)
      /\ k > 0 => Tokens(Without(all, first, k - 1)) > window
      /\ Tokens(sent) <= window \/ Len(sent) <= 2

(* How far the cut moves: what has been dropped is what it has passed. *)
CutAt(D, all, window, first, j) ==
  /\ D[j].from \in first .. (first + j)
  /\ D[j].size = Upto(all, Len(all)) - (Upto(all, D[j].from) - Upto(all, first))
  /\ D[j].size <= window \/ D[j].from = first + j
  /\ D[j].from > first => Upto(all, Len(all)) - (Upto(all, D[j].from - 1) - Upto(all, first)) > window

CutRun(D, all, window, b, first, m) ==
  /\ D[0] = b
  /\ \A j \in 1 .. m : D[j] = Dropped(all, window, D[j - 1], j + first)
  /\ DroppedEnd(all, window, b, [j \in 1 .. m |-> j + first]) = D[m]

(* The oldest messages go one by one. *)
LEMMA DroppedRun ==
  ASSUME NEW all, NEW window, NEW b, NEW first \in Nat, NEW m \in Nat
  PROVE  \E D : CutRun(D, all, window, b, first, m)
<1>1. PICK s : s = [j \in 1 .. m |-> j + first]
  OBVIOUS
<1>2. DOMAIN s = 1 .. m /\ \A j \in 1 .. m : s[j] = j + first
  BY <1>1
<1>3. PICK D : Runs(D, "dropped", <<all, window>>, b, s, m) /\ DroppedEnd(all, window, b, s) = D[m]
  BY <1>2, DroppedFold
<1>4. \A acc, x : Step("dropped", <<all, window>>, acc, x) = Dropped(all, window, acc, x)
  BY DEF Step
<1>5. D[0] = b /\ \A j \in 1 .. m : D[j] = Dropped(all, window, D[j - 1], j + first)
  BY <1>2, <1>3, <1>4 DEF Runs
<1>6. DroppedEnd(all, window, b, [j \in 1 .. m |-> j + first]) = D[m]
  BY <1>1, <1>3
<1> QED BY <1>5, <1>6 DEF CutRun

(* At every step the cut has gone no further than it must. *)
LEMMA CutFacts ==
  ASSUME NEW all \in Seq(Msgs), NEW window \in Nat, NEW first \in Nat, NEW m \in Nat,
         first + m <= Len(all), NEW D,
         D[0] = [size |-> Upto(all, Len(all)), from |-> first],
         \A j \in 1 .. m : D[j] = Dropped(all, window, D[j - 1], j + first)
  PROVE  CutAt(D, all, window, first, m)
<1> DEFINE Bad == {j \in 0 .. m : ~CutAt(D, all, window, first, j)}
<1> SUFFICES ASSUME Bad # {} PROVE FALSE
  OBVIOUS
<1>1. PICK j \in Bad : \A k \in Bad : j <= k
  <2> HIDE DEF Bad
  <2>1. Bad \in SUBSET Nat
    BY DEF Bad
  <2> QED BY <2>1, Least
<1>2. Len(all) \in Nat /\ first \in 0 .. Len(all)
  OBVIOUS
<1>3. Upto(all, Len(all)) \in Nat /\ Upto(all, first) \in Nat
  BY <1>2, UptoIn
<1>4. CutAt(D, all, window, first, 0)
  <2>1. D[0].from = first /\ D[0].size = Upto(all, Len(all))
    OBVIOUS
  <2> QED BY <1>3, <2>1 DEF CutAt
<1>5. j \in 1 .. m /\ j - 1 \in 0 .. m /\ j - 1 \notin Bad
  BY <1>1, <1>4
<1>6. CutAt(D, all, window, first, j - 1)
  BY <1>5
<1>7. PICK was : was = D[j - 1]
  OBVIOUS
<1>8. /\ was.from \in first .. (first + (j - 1))
      /\ was.size = Upto(all, Len(all)) - (Upto(all, was.from) - Upto(all, first))
      /\ was.size <= window \/ was.from = first + (j - 1)
      /\ was.from > first => Upto(all, Len(all)) - (Upto(all, was.from - 1) - Upto(all, first)) > window
  BY <1>6, <1>7 DEF CutAt
<1>9. D[j] = IF was.size <= window THEN was ELSE [size |-> was.size - Len(all[j + first].text), from |-> j + first]
  BY <1>5, <1>7 DEF Dropped
<1>10. CASE was.size <= window
  <2>1. D[j] = was
    BY <1>9, <1>10
  <2>2. was.from \in first .. (first + j)
    BY <1>5, <1>8
  <2>3. CutAt(D, all, window, first, j)
    BY <1>8, <1>10, <2>1, <2>2 DEF CutAt
  <2> QED BY <1>1, <2>3
<1>11. CASE ~(was.size <= window)
  <2>1. PICK i \in 1 .. Len(all) : i = first + j
    BY <1>2, <1>5
  <2>2. was.from = i - 1 /\ j + first = i
    BY <1>5, <1>8, <1>11, <2>1
  <2>3. Upto(all, i) = Upto(all, i - 1) + Len(all[i].text) /\ Len(all[i].text) \in Nat
    BY UptoStep
  <2>4. Upto(all, i - 1) \in Nat
    BY <1>2, UptoIn
  <2>5. D[j].from = i /\ D[j].size = was.size - Len(all[i].text)
    BY <1>9, <1>11, <2>2
  <2>6. was.size = Upto(all, Len(all)) - (Upto(all, i - 1) - Upto(all, first))
    BY <1>8, <2>2
  <2>7. D[j].size = Upto(all, Len(all)) - (Upto(all, i) - Upto(all, first))
    <3>1. PICK weight \in Nat, before \in Nat, past \in Nat, size \in Nat :
              /\ weight = Upto(all, Len(all)) /\ before = Upto(all, first)
              /\ past = Upto(all, i - 1) /\ size = Len(all[i].text)
      BY <1>3, <2>3, <2>4
    <3>2. was.size = weight - (past - before) /\ Upto(all, i) = past + size /\ D[j].size = was.size - size
      BY <2>3, <2>5, <2>6, <3>1
    <3>3. D[j].size = weight - ((past + size) - before)
      BY <3>2
    <3> QED BY <3>1, <3>2, <3>3
  <2>8. Upto(all, Len(all)) - (Upto(all, i - 1) - Upto(all, first)) > window
    BY <1>3, <1>11, <2>4, <2>6
  <2>9. i \in first .. (first + j) /\ i = first + j
    BY <1>5, <2>1
  <2>10. CutAt(D, all, window, first, j)
    BY <2>5, <2>7, <2>8, <2>9 DEF CutAt
  <2> QED BY <1>1, <2>10
<1> QED BY <1>10, <1>11

(* Messages without a run of them: how many, and which is the last. *)
LEMMA WithoutIn ==
  ASSUME NEW all \in Seq(Msgs), NEW first \in 0 .. Len(all), NEW k \in 0 .. (Len(all) - first)
  PROVE  /\ Without(all, first, k) \in Seq(Msgs) /\ Len(Without(all, first, k)) = Len(all) - k
         /\ k < Len(all) - first => Last(Without(all, first, k)) = Last(all)
         /\ k = 0 => Without(all, first, k) = all
<1> DEFINE n == Len(all)
           x == SubSeq(all, 1, first)
           y == SubSeq(all, first + k + 1, n)
<1>1. n \in Nat /\ DOMAIN all = 1 .. n /\ first \in 0 .. n /\ k \in 0 .. (n - first)
  OBVIOUS
<1>2. x \in Seq(Msgs) /\ y \in Seq(Msgs) /\ Len(x) = first /\ Len(y) = n - first - k
  <2>1. x \in Seq(Msgs) /\ Len(x) = first
    BY <1>1
  <2>2. PICK a \in Int : a = first + k + 1
    BY <1>1
  <2> HIDE DEF n
  <2>3. /\ SubSeq(all, a, n) \in Seq(Msgs)
        /\ Len(SubSeq(all, a, n)) = IF a <= n THEN n - a + 1 ELSE 0
    <3>1. \A i \in a .. n : all[i] \in Msgs
      BY <1>1, <2>2, ElementIn
    <3> QED BY <1>1, <3>1, SubSeqProperties
  <2>4. (IF a <= n THEN n - a + 1 ELSE 0) = n - first - k
    BY <1>1, <2>2
  <2> QED BY <2>1, <2>2, <2>3, <2>4
<1>3. k < n - first => y[n - first - k] = all[n]
  <2>1. SUFFICES ASSUME k < n - first PROVE y[n - first - k] = all[n]
    OBVIOUS
  <2>2. PICK a \in Int, i \in Int : a = first + k + 1 /\ i = n - first - k
    <3>1. first + k + 1 \in Int /\ n - first - k \in Int
      BY <1>1
    <3> QED BY <3>1
  <2> HIDE DEF n
  <2>3. \A j \in a .. n : all[j] \in Msgs
    BY <1>1, <2>2, ElementIn
  <2>4. \A j \in 1 .. (n - a + 1) : SubSeq(all, a, n)[j] = all[a + j - 1]
    BY <1>1, <2>3, SubSeqProperties
  <2>5. i \in 1 .. (n - a + 1) /\ a + i - 1 = n
    BY <1>1, <2>1, <2>2
  <2> QED BY <2>2, <2>4, <2>5
<1>4. k = 0 => x \o y = SubSeq(all, 1, n) /\ SubSeq(all, 1, n) = all
  <2>1. SubSeq(all, 1, n) = all
    BY SubSeqFull
  <2>2. k = 0 => first + k + 1 = first + 1
    OBVIOUS
  <2> QED BY <2>1, <2>2, SplitAt
<1> HIDE DEF x, y
<1>5. x \o y \in Seq(Msgs) /\ Len(x \o y) = n - k
  <2> HIDE DEF n
  <2> QED BY <1>1, <1>2
<1>6. k < n - first => (x \o y)[n - k] = y[n - first - k]
  <2> HIDE DEF n
  <2>1. Len(y) = n - first - k /\ Len(x) = first
    BY <1>2
  <2> QED BY <1>1, <1>2, <2>1
<1> QED BY <1>3, <1>4, <1>5, <1>6 DEF Last, Without, x, y

(* A history that is trimmed keeps its ends and as much as fits. *)
LEMMA TrimFacts ==
  ASSUME NEW all \in Seq(Msgs), all # <<>>, NEW window \in Nat
  PROVE  Trimmed(all, window, TrimHistory(all, window))
<1> DEFINE n == Len(all)
           first == IF Head(all).role = "system" THEN 1 ELSE 0
           m == n - 1 - first
           start == [size |-> Tokens(all), from |-> first]
           sent == TrimHistory(all, window)
<1>1. n \in Nat \ {0} /\ first \in 0 .. 1 /\ first \in 0 .. n
  OBVIOUS
<1>2. Upto(all, n) = Tokens(all) /\ Tokens(all) \in Nat
  <2>1. SubSeq(all, 1, n) = all /\ n \in 0 .. Len(all)
    BY <1>1, SubSeqFull
  <2>2. Upto(all, n) \in Nat
    BY <2>1, UptoIn
  <2> HIDE DEF n
  <2> QED BY <2>1, <2>2 DEF Upto
<1>3. CASE Tokens(all) <= window \/ n <= 2
  <2>1. sent = all
    BY <1>3 DEF TrimHistory
  <2>2. Without(all, first, 0) = all /\ n - n = 0
    BY <1>1, WithoutIn
  <2> HIDE DEF sent
  <2>3. Trimmed(all, window, sent)
    BY <1>1, <1>3, <2>1, <2>2 DEF Trimmed
  <2> QED BY <2>3 DEF sent
<1>4. CASE ~(Tokens(all) <= window \/ n <= 2)
  <2>1. m \in Nat /\ first \in Nat /\ first + m = n - 1
    BY <1>1, <1>4
  <2>2. sent = SubSeq(all, 1, first)
               \o SubSeq(all, DroppedEnd(all, window, start, [k \in 1 .. m |-> k + first]).from + 1, n)
    BY <1>4 DEF TrimHistory, DroppedEnd
  <2> HIDE DEF m, start, first
  <2>3. PICK D : /\ D[0] = start
                 /\ \A j \in 1 .. m : D[j] = Dropped(all, window, D[j - 1], j + first)
                 /\ DroppedEnd(all, window, start, [j \in 1 .. m |-> j + first]) = D[m]
    <3>1. PICK D : CutRun(D, all, window, start, first, m)
      BY <2>1, DroppedRun
    <3> QED BY <3>1 DEF CutRun
  <2>4. CutAt(D, all, window, first, m)
    <3>1. D[0] = [size |-> Upto(all, n), from |-> first]
      BY <1>2, <2>3 DEF start
    <3>2. first + m <= n
      BY <1>1, <2>1
    <3> QED BY <2>1, <2>3, <3>1, <3>2, CutFacts
  <2>5. PICK from : from = D[m].from
    OBVIOUS
  <2>6. PICK k \in 0 .. (n - first) : k = from - first /\ k < n - first /\ from = first + k
    BY <1>1, <2>1, <2>4, <2>5 DEF CutAt
  <2>7. sent = Without(all, first, k)
    BY <2>2, <2>3, <2>5, <2>6 DEF Without
  <2>8. Len(sent) = n - k /\ Last(sent) = Last(all) /\ n - Len(sent) = k
    <3>1. /\ Len(Without(all, first, k)) = n - k
          /\ k < n - first => Last(Without(all, first, k)) = Last(all)
      BY <1>1, <2>6, WithoutIn
    <3> HIDE DEF n
    <3>2. n - (n - k) = k
      BY <1>1, <2>6
    <3> QED BY <2>6, <2>7, <3>1, <3>2
  <2>9. /\ Upto(all, first) \in Nat /\ Upto(all, n) \in Nat /\ Upto(all, first + k) \in Nat
        /\ k # 0 => Upto(all, first + (k - 1)) \in Nat
    BY <1>1, <2>6, UptoIn
  <2>10. k > 0 => Tokens(Without(all, first, k - 1)) > window
    <3>1. SUFFICES ASSUME k > 0 PROVE Tokens(Without(all, first, k - 1)) > window
      OBVIOUS
    <3>2. k - 1 \in 0 .. (n - first) /\ from > first /\ from - 1 = first + (k - 1)
      BY <1>1, <2>6, <3>1
    <3>3. Tokens(Without(all, first, k - 1)) = Upto(all, first) + Upto(all, n) - Upto(all, first + (k - 1))
      BY <1>1, <3>2, WithoutWeighs
    <3>4. Upto(all, n) - (Upto(all, first + (k - 1)) - Upto(all, first)) > window
      BY <2>4, <2>5, <3>2 DEF CutAt
    <3> HIDE DEF n
    <3> QED BY <2>9, <3>1, <3>3, <3>4
  <2>11. Tokens(sent) <= window \/ Len(sent) <= 2
    <3>1. Tokens(sent) = Upto(all, first) + Upto(all, n) - Upto(all, first + k)
      BY <1>1, <2>6, <2>7, WithoutWeighs
    <3>2. D[m].size = Upto(all, n) - (Upto(all, first + k) - Upto(all, first))
      BY <2>4, <2>5, <2>6 DEF CutAt
    <3>3. D[m].size <= window \/ from = first + m
      BY <2>4, <2>5 DEF CutAt
    <3>4. CASE from = first + m
      BY <1>1, <2>1, <2>6, <2>8, <3>4
    <3>5. CASE D[m].size <= window
      <4>1. Tokens(sent) = D[m].size
        <5> HIDE DEF n
        <5> QED BY <2>9, <3>1, <3>2
      <4> QED BY <3>5, <4>1
    <3> QED BY <3>3, <3>4, <3>5
  <2> HIDE DEF sent
  <2>12. Trimmed(all, window, sent)
    BY <2>7, <2>8, <2>10, <2>11 DEF Trimmed, first
  <2> QED BY <2>12 DEF sent
<1> QED BY <1>3, <1>4

(* An answer that is computed is trimmed so. *)
LEMMA TrimKeepsEndsStep == Computed => TrimKeepsEnds
<1> SUFFICES ASSUME Computed, Answered("trim") PROVE TrimKeepsEnds
  BY DEF TrimKeepsEnds
<1>1. /\ RealMessages(input.messages) /\ input.messages # <<>> /\ input.window \in Nat
      /\ answer = TrimHistory(input.messages, input.window)
  BY DEF Computed, Answered, RealInput
<1>2. Trimmed(input.messages, input.window, answer)
  BY <1>1, HistoryIn, TrimFacts
<1> QED BY <1>2 DEF Trimmed, Without, TrimKeepsEnds

(* Nothing is lost, reordered or changed on the way to the provider but    *)
(* the old history that does not fit its window.                           *)
THEOREM RequestsAreWhole == Spec => []RequestIsWhole
<1>1. Computed => RequestIsWhole
  BY NothingIsLostStep, TrimKeepsEndsStep DEF RequestIsWhole
<1> QED BY <1>1, EveryAnswerComputed, PTL

-----------------------------------------------------------------------------
(* Variables: the declarations. *)

(* The first declaration of a name. *)
First(schema, n, i) == /\ i \in DOMAIN schema /\ schema[i].name = n
                       /\ \A j \in DOMAIN schema : schema[j].name = n => i <= j

(* A schema declares a name by the first that has it. *)
DeclAt(schema, n) == SelectInSeq(schema, LAMBDA d : d.name = n)
LEMMA DeclIs ==
  ASSUME NEW D, NEW schema \in Seq(D), NEW n \in DeclNames(schema)
  PROVE  First(schema, n, DeclAt(schema, n)) /\ DeclOf(schema, n) = schema[DeclAt(schema, n)]
<1> DEFINE I == {i \in 1 .. Len(schema) : schema[i].name = n}
           at == DeclAt(schema, n)
<1>1. DOMAIN schema = 1 .. Len(schema) /\ Len(schema) \in Nat
  OBVIOUS
<1>2. at = IF I # {} THEN Min(I) ELSE 0
  BY DEF SelectInSeq, DeclAt
<1>3. DeclOf(schema, n) = schema[at]
  BY DEF DeclOf, DeclAt
<1>4. I # {} /\ I \in SUBSET Nat
  BY <1>1 DEF DeclNames
<1> HIDE DEF at
<1>5. at \in I /\ \A j \in I : at <= j
  <2> HIDE DEF I
  <2> QED BY <1>2, <1>4, MinIn
<1>6. First(schema, n, at)
  BY <1>1, <1>5 DEF First
<1> QED BY <1>3, <1>6 DEF at

(* There is one first. *)
LEMMA FirstOnce ==
  ASSUME NEW D, NEW schema \in Seq(D), NEW n, NEW i, NEW j, First(schema, n, i), First(schema, n, j)
  PROVE  i = j
<1>1. i \in Nat /\ j \in Nat /\ i <= j /\ j <= i
  BY DEF First
<1> QED BY <1>1

(* The last declaration of a name gives its type. *)
LEMMA LastTypeIs ==
  ASSUME NEW E, NEW decls \in Seq(E), NEW i \in DOMAIN decls,
         \A j \in DOMAIN decls : decls[j].name = decls[i].name => j <= i
  PROVE  LastType(decls, decls[i].name) = decls[i].type
<1> DEFINE n == decls[i].name
           m == Len(decls)
           I == {j \in 1 .. m : decls[j].name = n}
           at == SelectLastInSeq(decls, LAMBDA d : d.name = n)
<1>1. DOMAIN decls = 1 .. m /\ m \in Nat
  OBVIOUS
<1>2. at = IF I # {} THEN Max(I) ELSE 0
  BY DEF SelectLastInSeq
<1>3. LastType(decls, n) = decls[at].type
  BY DEF LastType
<1> HIDE DEF at, m
<1>4. i \in I /\ I \in SUBSET (1 .. m)
  BY <1>1
<1>5. at \in I /\ \A j \in I : at >= j
  <2> HIDE DEF I
  <2> QED BY <1>1, <1>2, <1>4, MaxIn
<1>6. at = i
  <2>1. at \in 1 .. m /\ i \in 1 .. m /\ at <= i /\ at >= i
    BY <1>1, <1>4, <1>5
  <2> QED BY <1>1, <2>1
<1> QED BY <1>3, <1>6

(* A declaration at the end gives its name a type, and no other name. *)
LEMMA LastTypeAppend ==
  ASSUME NEW E, NEW decls \in Seq(E), NEW e \in E
  PROVE  /\ DeclNames(Append(decls, e)) = DeclNames(decls) \cup {e.name}
         /\ LastType(Append(decls, e), e.name) = e.type
         /\ \A n \in DeclNames(decls) : n # e.name => LastType(Append(decls, e), n) = LastType(decls, n)
<1> DEFINE m == Len(decls)
<1>1. PICK more : more = Append(decls, e)
  OBVIOUS
<1>2. /\ m \in Nat /\ DOMAIN decls = 1 .. m /\ more \in Seq(E) /\ DOMAIN more = 1 .. (m + 1)
      /\ more[m + 1] = e /\ \A i \in 1 .. m : more[i] = decls[i]
  BY <1>1
<1> HIDE DEF m
<1>3. DeclNames(more) = DeclNames(decls) \cup {e.name}
  <2>1. ASSUME NEW n \in DeclNames(more) PROVE n \in DeclNames(decls) \cup {e.name}
    <3>1. PICK i \in 1 .. (m + 1) : more[i].name = n
      BY <1>2 DEF DeclNames
    <3>2. CASE i = m + 1
      BY <1>2, <3>1, <3>2
    <3>3. CASE i # m + 1
      <4>1. i \in 1 .. m
        BY <1>2, <3>3
      <4> QED BY <1>2, <3>1, <4>1 DEF DeclNames
    <3> QED BY <3>2, <3>3
  <2>2. ASSUME NEW n \in DeclNames(decls) PROVE n \in DeclNames(more)
    <3>1. PICK i \in 1 .. m : decls[i].name = n
      BY <1>2 DEF DeclNames
    <3>2. i \in 1 .. (m + 1)
      BY <1>2
    <3> QED BY <1>2, <3>1, <3>2 DEF DeclNames
  <2>3. e.name \in DeclNames(more)
    <3>1. m + 1 \in 1 .. (m + 1)
      BY <1>2
    <3> QED BY <1>2, <3>1 DEF DeclNames
  <2> QED BY <2>1, <2>2, <2>3
<1>4. LastType(more, e.name) = e.type
  <2>1. m + 1 \in DOMAIN more /\ \A j \in DOMAIN more : j <= m + 1
    BY <1>2
  <2> QED BY <1>2, <2>1, LastTypeIs
<1>5. ASSUME NEW n \in DeclNames(decls), n # e.name PROVE LastType(more, n) = LastType(decls, n)
  <2> DEFINE I == {j \in 1 .. m : decls[j].name = n}
  <2>1. I # {} /\ I \in SUBSET (1 .. m)
    BY <1>2, <1>5 DEF DeclNames
  <2>2. PICK i \in I : \A j \in I : i >= j
    <3> HIDE DEF I
    <3> QED BY <1>2, <2>1, MaxIn
  <2>3. LastType(decls, n) = decls[i].type
    <3>1. i \in DOMAIN decls /\ decls[i].name = n /\ \A j \in DOMAIN decls : decls[j].name = n => j <= i
      BY <1>2, <2>2
    <3> QED BY <3>1, LastTypeIs
  <2>4. LastType(more, n) = more[i].type
    <3>1. i \in DOMAIN more /\ more[i].name = n
      BY <1>2
    <3>2. ASSUME NEW j \in DOMAIN more, more[j].name = n PROVE j <= i
      <4>1. j # m + 1
        BY <1>2, <1>5, <3>2
      <4>2. j \in 1 .. m
        BY <1>2, <4>1
      <4> QED BY <1>2, <2>2, <3>2, <4>2
    <3>3. i \in DOMAIN more /\ \A j \in DOMAIN more : more[j].name = more[i].name => j <= i
      BY <3>1, <3>2
    <3> HIDE DEF I
    <3> QED BY <1>2, <3>1, <3>3, LastTypeIs
  <2> QED BY <1>2, <2>3, <2>4
<1> QED BY <1>1, <1>3, <1>4, <1>5

(* A declaration takes its name over, and leaves the others. *)
LEMMA DeclaredFacts ==
  ASSUME NEW D, NEW out \in Seq(D), NEW d \in D
  PROVE  /\ Declared(out, d) \in Seq(D)
         /\ DeclNames(Declared(out, d)) = DeclNames(out) \cup {d.name}
         /\ DeclOf(Declared(out, d), d.name) = d
         /\ \A n \in DeclNames(out) : n # d.name => DeclOf(Declared(out, d), n) = DeclOf(out, n)
<1> DEFINE m == Len(out)
<1>1. m \in Nat /\ DOMAIN out = 1 .. m /\ \A i \in 1 .. m : out[i] \in D
  OBVIOUS
<1>2. CASE d.name \in DeclNames(out)
  <2>1. PICK i : i = DeclAt(out, d.name)
    OBVIOUS
  <2>11. First(out, d.name, i)
    BY <1>2, <2>1, DeclIs
  <2>2. PICK new : new = [out EXCEPT ![i] = d]
    OBVIOUS
  <2>3. Declared(out, d) = new
    <3>1. Declared(out, d) = [out EXCEPT ![DeclAt(out, d.name)] = d]
      BY <1>2 DEF Declared, DeclAt
    <3> QED BY <2>1, <2>2, <3>1
  <2>4. i \in 1 .. m /\ out[i].name = d.name
    BY <1>1, <2>11 DEF First
  <2>5. new \in Seq(D) /\ DOMAIN new = 1 .. m /\ new[i] = d /\ \A j \in 1 .. m : j # i => new[j] = out[j]
    BY <1>1, <2>2, <2>4
  <2> HIDE DEF m
  <2>6. \A j \in 1 .. m : new[j].name = out[j].name
    BY <2>4, <2>5
  <2>7. \A n, j : First(new, n, j) <=> First(out, n, j)
    BY <1>1, <2>5, <2>6 DEF First
  <2>8. DeclNames(new) = DeclNames(out)
    BY <1>1, <2>5, <2>6 DEF DeclNames
  <2>9. DeclOf(new, d.name) = d
    <3>1. PICK j : First(new, d.name, j) /\ DeclOf(new, d.name) = new[j]
      BY <1>2, <2>5, <2>8, DeclIs
    <3>2. j = i
      BY <2>11, <2>7, <3>1, FirstOnce
    <3> QED BY <2>5, <3>1, <3>2
  <2>10. ASSUME NEW n \in DeclNames(out), n # d.name PROVE DeclOf(new, n) = DeclOf(out, n)
    <3>1. PICK j : First(new, n, j) /\ DeclOf(new, n) = new[j]
      BY <2>5, <2>8, DeclIs
    <3>2. PICK k : First(out, n, k) /\ DeclOf(out, n) = out[k]
      BY DeclIs
    <3>3. j = k
      BY <2>7, <3>1, <3>2, FirstOnce
    <3>4. k \in 1 .. m /\ k # i
      BY <1>1, <2>4, <2>10, <3>2 DEF First
    <3> QED BY <2>5, <3>1, <3>2, <3>3, <3>4
  <2> QED BY <1>2, <2>3, <2>5, <2>8, <2>9, <2>10
<1>3. CASE d.name \notin DeclNames(out)
  <2>1. PICK new : new = Append(out, d)
    OBVIOUS
  <2>2. Declared(out, d) = new
    BY <1>3, <2>1 DEF Declared
  <2>3. /\ new \in Seq(D) /\ DOMAIN new = 1 .. (m + 1) /\ new[m + 1] = d
        /\ \A j \in 1 .. m : new[j] = out[j]
    BY <1>1, <2>1
  <2> HIDE DEF m
  <2>4. DeclNames(new) = DeclNames(out) \cup {d.name}
    BY <2>1, LastTypeAppend
  <2>5. DeclOf(new, d.name) = d
    <3>1. PICK j : First(new, d.name, j) /\ DeclOf(new, d.name) = new[j]
      BY <2>3, <2>4, DeclIs
    <3>2. j \in 1 .. (m + 1) /\ new[j].name = d.name
      BY <2>3, <3>1 DEF First
    <3>3. j \notin 1 .. m
      BY <1>1, <1>3, <2>3, <3>2 DEF DeclNames
    <3>4. j = m + 1
      BY <1>1, <3>2, <3>3
    <3> QED BY <2>3, <3>1, <3>4
  <2>6. ASSUME NEW n \in DeclNames(out), n # d.name PROVE DeclOf(new, n) = DeclOf(out, n)
    <3>1. PICK j : First(new, n, j) /\ DeclOf(new, n) = new[j]
      BY <2>3, <2>4, DeclIs
    <3>2. PICK k : First(out, n, k) /\ DeclOf(out, n) = out[k]
      BY DeclIs
    <3>3. j \in 1 .. m
      <4>1. j \in 1 .. (m + 1) /\ new[j].name = n
        BY <2>3, <3>1 DEF First
      <4>2. j # m + 1
        BY <2>3, <2>6, <4>1
      <4> QED BY <1>1, <4>1, <4>2
    <3>4. First(out, n, j)
      <4>1. out[j].name = n
        BY <2>3, <3>1, <3>3 DEF First
      <4>2. ASSUME NEW x \in 1 .. m, out[x].name = n PROVE j <= x
        <5>1. x \in DOMAIN new /\ new[x].name = n
          BY <1>1, <2>3, <4>2
        <5> QED BY <3>1, <5>1 DEF First
      <4> QED BY <1>1, <3>3, <4>1, <4>2 DEF First
    <3>5. j = k
      BY <3>2, <3>4, FirstOnce
    <3> QED BY <2>3, <3>1, <3>2, <3>3, <3>5
  <2> QED BY <2>2, <2>3, <2>4, <2>5, <2>6
<1> QED BY <1>2, <1>3

(* A schema says what the declarations so far say: it has no other names,  *)
(* and the types of the last of each.                                      *)
Says(D, schema, src) ==
  /\ schema \in Seq(D)
  /\ \A n \in DeclNames(schema) :
       n \notin SystemNames => n \in DeclNames(src) /\ DeclOf(schema, n).type = LastType(src, n)

(* d is what e declares, for some scope. *)
Same(d, e) == d.name = e.name /\ d.type = e.type

LEMMA DeclaredSays ==
  ASSUME NEW D, NEW E, NEW schema, NEW src \in Seq(E), Says(D, schema, src),
         NEW d \in D, NEW e \in E, Same(d, e)
  PROVE  Says(D, Declared(schema, d), Append(src, e))
<1>1. schema \in Seq(D)
  BY DEF Says
<1>2. PICK new : new = Declared(schema, d)
  OBVIOUS
<1>3. /\ new \in Seq(D) /\ DeclNames(new) = DeclNames(schema) \cup {d.name} /\ DeclOf(new, d.name) = d
      /\ \A n \in DeclNames(schema) : n # d.name => DeclOf(new, n) = DeclOf(schema, n)
  BY <1>1, <1>2, DeclaredFacts
<1>4. PICK more : more = Append(src, e)
  OBVIOUS
<1>5. /\ DeclNames(more) = DeclNames(src) \cup {e.name} /\ LastType(more, e.name) = e.type
      /\ \A n \in DeclNames(src) : n # e.name => LastType(more, n) = LastType(src, n)
  BY <1>4, LastTypeAppend
<1>6. ASSUME NEW n \in DeclNames(new), n \notin SystemNames
      PROVE  n \in DeclNames(more) /\ DeclOf(new, n).type = LastType(more, n)
  <2>1. CASE n = d.name
    BY <1>3, <1>5, <2>1 DEF Same
  <2>2. CASE n # d.name
    <3>1. n \in DeclNames(schema) /\ n # e.name
      BY <1>3, <2>2 DEF Same
    <3>2. n \in DeclNames(src) /\ DeclOf(schema, n).type = LastType(src, n)
      BY <1>6, <3>1 DEF Says
    <3> QED BY <1>3, <1>5, <2>2, <3>1, <3>2
  <2> QED BY <2>1, <2>2
<1>7. Says(D, new, more)
  BY <1>3, <1>6 DEF Says
<1> QED BY <1>2, <1>4, <1>7

(* The declarations before the next one. *)
LEMMA DeclsUpto ==
  ASSUME NEW E, NEW src \in Seq(E), NEW decls \in Seq(E)
  PROVE  /\ src \o SubSeq(decls, 1, 0) = src /\ src \o SubSeq(decls, 1, Len(decls)) = src \o decls
         /\ \A k \in 1 .. Len(decls) :
              /\ src \o SubSeq(decls, 1, k - 1) \in Seq(E)
              /\ src \o SubSeq(decls, 1, k) = Append(src \o SubSeq(decls, 1, k - 1), decls[k])
<1>1. SubSeq(decls, 1, Len(decls)) = decls
  BY SubSeqFull
<1>2. SubSeq(decls, 1, 0) = <<>>
  OBVIOUS
<1>3. src \o <<>> = src
  OBVIOUS
<1>4. ASSUME NEW k \in 1 .. Len(decls)
      PROVE  /\ src \o SubSeq(decls, 1, k - 1) \in Seq(E)
             /\ src \o SubSeq(decls, 1, k) = Append(src \o SubSeq(decls, 1, k - 1), decls[k])
  <2>1. PICK front : front = SubSeq(decls, 1, k - 1)
    OBVIOUS
  <2>2. front \in Seq(E) /\ decls[k] \in E
    BY <2>1
  <2>3. SubSeq(decls, 1, k) = Append(front, decls[k])
    BY <2>1, SubSeqRecursiveSecond
  <2>4. src \o Append(front, decls[k]) = Append(src \o front, decls[k])
    BY <2>2
  <2>5. src \o front \in Seq(E)
    BY <2>2
  <2> QED BY <2>1, <2>3, <2>4, <2>5
<1> QED BY <1>1, <1>2, <1>3, <1>4

Merging(G, schema, scoped) ==
  /\ G[0] = schema
  /\ \A k \in 1 .. Len(scoped) : G[k] = Declared(G[k - 1], scoped[k])
  /\ MergeDecls(schema, scoped) = G[Len(scoped)]

(* Merging takes declarations over one by one. *)
LEMMA MergeRun ==
  ASSUME NEW D, NEW schema, NEW scoped \in Seq(D) PROVE \E G : Merging(G, schema, scoped)
<1>1. Len(scoped) \in Nat /\ DOMAIN scoped = 1 .. Len(scoped)
  OBVIOUS
<1>2. PICK G : Runs(G, "declared", <<>>, schema, scoped, Len(scoped)) /\ DeclaredEnd(schema, scoped) = G[Len(scoped)]
  BY <1>1, DeclaredFold
<1>3. \A acc, x : Step("declared", <<>>, acc, x) = Declared(acc, x)
  BY DEF Step
<1>4. G[0] = schema /\ \A k \in 1 .. Len(scoped) : G[k] = Declared(G[k - 1], scoped[k])
  BY <1>2, <1>3 DEF Runs
<1>5. MergeDecls(schema, scoped) = DeclaredEnd(schema, scoped)
  BY DEF MergeDecls, DeclaredEnd
<1> QED BY <1>2, <1>4, <1>5 DEF Merging

(* So the schema says what it said and what is merged into it. *)
LEMMA MergeSays ==
  ASSUME NEW D, NEW E, NEW schema, NEW src \in Seq(E), Says(D, schema, src),
         NEW decls \in Seq(E), NEW scoped \in Seq(D), Len(scoped) = Len(decls),
         \A k \in 1 .. Len(decls) : Same(scoped[k], decls[k])
  PROVE  Says(D, MergeDecls(schema, scoped), src \o decls)
<1> DEFINE m == Len(decls)
           SoFar(k) == src \o SubSeq(decls, 1, k)
<1>1. m \in Nat /\ \A k \in 1 .. m : decls[k] \in E /\ scoped[k] \in D
  OBVIOUS
<1>2. /\ SoFar(0) = src /\ SoFar(m) = src \o decls
      /\ \A k \in 1 .. m : SoFar(k - 1) \in Seq(E) /\ SoFar(k) = Append(SoFar(k - 1), decls[k])
  BY DeclsUpto, SMTT(30)
<1>3. PICK G : Merging(G, schema, scoped)
  BY MergeRun
<1>4. /\ G[0] = schema /\ MergeDecls(schema, scoped) = G[m]
      /\ \A k \in 1 .. m : G[k] = Declared(G[k - 1], scoped[k])
  BY <1>3 DEF Merging
<1> HIDE DEF SoFar
<1> DEFINE Bad == {k \in 0 .. m : ~Says(D, G[k], SoFar(k))}
<1>5. Bad = {}
  <2> SUFFICES ASSUME Bad # {} PROVE FALSE
    OBVIOUS
  <2>1. PICK k \in Bad : \A j \in Bad : k <= j
    <3> HIDE DEF Bad
    <3>1. Bad \in SUBSET Nat
      BY <1>1 DEF Bad
    <3> QED BY <3>1, Least
  <2>2. k # 0
    BY <1>2, <1>4, <2>1
  <2>3. k \in 1 .. m /\ k - 1 \in 0 .. m /\ k - 1 \notin Bad
    <3> HIDE DEF m
    <3> QED BY <1>1, <2>1, <2>2
  <2> HIDE DEF m
  <2>4. Says(D, G[k - 1], SoFar(k - 1))
    BY <2>3
  <2>5. Says(D, Declared(G[k - 1], scoped[k]), Append(SoFar(k - 1), decls[k]))
    <3>1. SoFar(k - 1) \in Seq(E) /\ scoped[k] \in D /\ decls[k] \in E /\ Same(scoped[k], decls[k])
      BY <1>1, <1>2, <2>3 DEF m
    <3> QED BY <2>4, <3>1, DeclaredSays
  <2>6. Says(D, G[k], SoFar(k))
    BY <1>2, <1>4, <2>3, <2>5
  <2> QED BY <2>1, <2>6
<1>6. Says(D, G[m], SoFar(m))
  <2>1. m \in 0 .. m
    BY <1>1
  <2> QED BY <1>5, <2>1
<1> QED BY <1>2, <1>4, <1>6

(* At first there are the system's names only. *)
LEMMA SystemSays ==
  ASSUME NEW D, SystemVariables \in Seq(D) PROVE Says(D, SystemVariables, <<>>)
<1>1. DOMAIN SystemVariables = DOMAIN SystemKeys /\ \A i \in DOMAIN SystemKeys : SystemVariables[i].name = SystemKeys[i]
  BY DEF SystemVariables
<1>2. ASSUME NEW n \in DeclNames(SystemVariables) PROVE n \in SystemNames
  <2>1. PICK i \in DOMAIN SystemKeys : SystemKeys[i] = n
    BY <1>1 DEF DeclNames
  <2> QED BY <2>1 DEF SystemNames, ToSet
<1> QED BY <1>2 DEF Says

(* Giving declarations a scope keeps what they declare. *)
LEMMA ScopedSame ==
  ASSUME NEW decls, NEW scope, IsSequence(decls)
  PROVE  /\ Len(Scoped(decls, scope)) = Len(decls) /\ DOMAIN Scoped(decls, scope) = 1 .. Len(decls)
         /\ \A i \in 1 .. Len(decls) : /\ Same(Scoped(decls, scope)[i], decls[i])
                                       /\ Scoped(decls, scope)[i].initial = decls[i].initial
<1>1. PICK new : new = Scoped(decls, scope)
  OBVIOUS
<1>2. Len(decls) \in Nat /\ DOMAIN decls = 1 .. Len(decls)
  BY IsSequenceFacts
<1>3. new = [i \in 1 .. Len(decls) |-> [name |-> decls[i].name, type |-> decls[i].type,
                                         initial |-> decls[i].initial, scope |-> scope]]
  BY <1>1, <1>2 DEF Scoped
<1>4. Len(new) = Len(decls) /\ DOMAIN new = 1 .. Len(decls)
  BY <1>2, <1>3
<1>5. \A i \in 1 .. Len(decls) : Same(new[i], decls[i]) /\ new[i].initial = decls[i].initial
  BY <1>3 DEF Same
<1> QED BY <1>1, <1>4, <1>5

(* What a schema is merged from: its sources, each with its scope. *)
Scopes(s) ==
  <<Scoped(VariablesFromNodes(s, s.nodes), "template")>>
  \o [i \in DOMAIN s.mounts |-> Scoped(VariablesFromNodes(s, s.mounts[i].nodes), "pack")]
  \o <<Scoped(s.locals, "local")>>

(* Three sequences end to end, the first and the last of one member. *)
LEMMA EndToEnd ==
  ASSUME NEW S, NEW a \in S, NEW q \in Seq(S), NEW z \in S
  PROVE  /\ <<a>> \o q \o <<z>> \in Seq(S) /\ Len(<<a>> \o q \o <<z>>) = Len(q) + 2
         /\ (<<a>> \o q \o <<z>>)[1] = a /\ (<<a>> \o q \o <<z>>)[Len(q) + 2] = z
         /\ \A i \in 1 .. Len(q) : (<<a>> \o q \o <<z>>)[i + 1] = q[i]
<1>1. PICK front : front = <<a>> \o q
  OBVIOUS
<1>2. front \in Seq(S) /\ Len(front) = Len(q) + 1 /\ front[1] = a /\ Len(q) \in Nat
  BY <1>1
<1>3. \A i \in 1 .. Len(q) : front[i + 1] = q[i]
  BY <1>1
<1>4. PICK all : all = front \o <<z>>
  OBVIOUS
<1>5. all \in Seq(S) /\ Len(all) = Len(q) + 2 /\ all[Len(q) + 2] = z
  BY <1>2, <1>4
<1>6. \A i \in 1 .. (Len(q) + 1) : all[i] = front[i]
  BY <1>2, <1>4
<1>7. all[1] = a
  <2>1. 1 \in 1 .. (Len(q) + 1)
    BY <1>2
  <2> QED BY <1>2, <1>6, <2>1
<1>8. ASSUME NEW i \in 1 .. Len(q) PROVE all[i + 1] = q[i]
  <2>1. i + 1 \in 1 .. (Len(q) + 1)
    BY <1>2
  <2> QED BY <1>3, <1>6, <2>1
<1>9. all = <<a>> \o q \o <<z>>
  BY <1>1, <1>4
<1> QED BY <1>5, <1>7, <1>8, <1>9

(* What an input says of its scene. *)
RealScene(s) ==
  /\ RealDecls(s.locals) /\ RealDecls(VariablesFromNodes(s, s.nodes)) /\ IsSequence(s.mounts)
  /\ \A i \in DOMAIN s.mounts : RealDecls(VariablesFromNodes(s, s.mounts[i].nodes))

(* A sequence is one over any set that has its members. *)
LEMMA SeqOver ==
  ASSUME NEW x, NEW n \in Nat, IsSequence(x) \/ (Len(x) = n /\ x = [i \in 1 .. n |-> x[i]]),
         NEW S, \A i \in DOMAIN x : x[i] \in S
  PROVE  x \in Seq(S)
<1>1. PICK k \in Nat : x = [i \in 1 .. k |-> x[i]]
  <2>1. CASE IsSequence(x)
    <3> DEFINE T == ToSet(x)
    <3>1. x \in Seq(T)
      BY <2>1 DEF IsSequence
    <3> HIDE DEF T
    <3> QED BY <3>1
  <2> QED BY <2>1
<1>2. DOMAIN x = 1 .. k
  BY <1>1
<1> QED BY <1>1, <1>2

(* Declarations of a type there is, with a value of it at first. *)
WellFormed(D) == \A d \in D : d.type \in VarTypes /\ RealValue(d.initial)

(* The sets the declarations of a scene are from: E as they are stored, D  *)
(* as they stand in a schema.                                              *)
DeclSets(s, D, E) ==
  /\ SystemVariables \in Seq(D) /\ WellFormed(D)
  /\ Sources(s) \in Seq(Seq(E)) /\ Scopes(s) \in Seq(Seq(D))
  /\ Len(Sources(s)) = Len(s.mounts) + 2 /\ Len(Scopes(s)) = Len(s.mounts) + 2
  /\ \A i \in 1 .. (Len(s.mounts) + 2) :
       /\ Len(Scopes(s)[i]) = Len(Sources(s)[i])
       /\ \A k \in 1 .. Len(Sources(s)[i]) : Same(Scopes(s)[i][k], Sources(s)[i][k])

(* Well-formed declarations stay so when they are given a scope. *)
LEMMA ScopedReal ==
  ASSUME NEW decls, NEW scope, RealDecls(decls)
  PROVE  /\ decls \in Seq(ToSet(decls))
         /\ Scoped(decls, scope) \in Seq(ToSet(Scoped(decls, scope)))
         /\ WellFormed(ToSet(Scoped(decls, scope)))
<1>1. IsSequence(decls) /\ \A i \in DOMAIN decls : decls[i].type \in VarTypes /\ RealValue(decls[i].initial)
  BY DEF RealDecls
<1>2. Len(decls) \in Nat /\ DOMAIN decls = 1 .. Len(decls)
  BY <1>1, IsSequenceFacts
<1>3. PICK new : new = Scoped(decls, scope)
  OBVIOUS
<1>4. /\ Len(new) = Len(decls) /\ DOMAIN new = 1 .. Len(decls)
      /\ \A i \in 1 .. Len(decls) : Same(new[i], decls[i]) /\ new[i].initial = decls[i].initial
  BY <1>1, <1>3, ScopedSame
<1>5. WellFormed(ToSet(new))
  <2>1. ASSUME NEW i \in DOMAIN new PROVE new[i].type \in VarTypes /\ RealValue(new[i].initial)
    BY <1>1, <1>2, <1>4, <2>1 DEF Same
  <2> QED BY <2>1 DEF WellFormed, ToSet
<1>6. new \in Seq(ToSet(new))
  <2>1. new = [i \in 1 .. Len(decls) |-> new[i]]
    BY <1>3, <1>4 DEF Scoped
  <2>2. \A i \in DOMAIN new : new[i] \in ToSet(new)
    BY DEF ToSet
  <2> QED BY <1>2, <1>4, <2>1, <2>2, SeqOver
<1> QED BY <1>1, <1>3, <1>5, <1>6 DEF IsSequence

(* The system's declarations are well formed. *)
LEMMA SystemReal ==
  SystemVariables \in Seq(ToSet(SystemVariables)) /\ WellFormed(ToSet(SystemVariables))
<1>1. PICK n \in Nat : DOMAIN SystemKeys = 1 .. n
  <2>1. DOMAIN SystemKeys = 1 .. 6
    BY DEF SystemKeys
  <2> QED BY <2>1
<1>2. /\ DOMAIN SystemVariables = 1 .. n
      /\ \A i \in 1 .. n : SystemVariables[i].type = "string" /\ SystemVariables[i].initial = Text("")
      /\ SystemVariables = [i \in 1 .. n |-> SystemVariables[i]] /\ Len(SystemVariables) = n
  <2> DEFINE Line(i) == [name |-> SystemKeys[i], type |-> "string", initial |-> Text(""), scope |-> "system"]
  <2>1. SystemVariables = [i \in 1 .. n |-> Line(i)]
    BY <1>1 DEF SystemVariables
  <2>2. \A i \in 1 .. n : Line(i).type = "string" /\ Line(i).initial = Text("")
    OBVIOUS
  <2> HIDE DEF Line
  <2>3. PICK x : x = SystemVariables
    OBVIOUS
  <2>4. DOMAIN x = 1 .. n /\ Len(x) = n /\ (\A i \in 1 .. n : x[i] = Line(i)) /\ x = [i \in 1 .. n |-> x[i]]
    BY <2>1, <2>3
  <2> QED BY <2>2, <2>3, <2>4
<1>3. \A i \in 1 .. n : SystemVariables[i] \in ToSet(SystemVariables)
  BY <1>2 DEF ToSet
<1>4. RealValue(Text("")) /\ "string" \in VarTypes
  BY DEF RealValue, Text, VarTypes
<1> QED BY <1>2, <1>3, <1>4, SeqOver DEF WellFormed, ToSet

LEMMA DeclSetsExist ==
  ASSUME NEW s, RealScene(s) PROVE \E D, E : DeclSets(s, D, E)
<1> DEFINE tree == VariablesFromNodes(s, s.nodes)
           pack(i) == VariablesFromNodes(s, s.mounts[i].nodes)
           m == Len(s.mounts)
           q == [i \in DOMAIN s.mounts |-> pack(i)]
           p == [i \in DOMAIN s.mounts |-> Scoped(pack(i), "pack")]
           T == Scoped(tree, "template")
           L == Scoped(s.locals, "local")
           E == ToSet(tree) \cup (UNION {ToSet(pack(i)) : i \in 1 .. m}) \cup ToSet(s.locals)
           D == ToSet(SystemVariables) \cup ToSet(T) \cup (UNION {ToSet(p[i]) : i \in 1 .. m}) \cup ToSet(L)
<1>1. m \in Nat /\ DOMAIN s.mounts = 1 .. m
  BY IsSequenceFacts DEF RealScene
<1>2. RealDecls(tree) /\ RealDecls(s.locals) /\ \A i \in 1 .. m : RealDecls(pack(i))
  BY <1>1 DEF RealScene
<1>3. /\ q = [i \in 1 .. m |-> pack(i)] /\ p = [i \in 1 .. m |-> Scoped(pack(i), "pack")]
      /\ Sources(s) = <<tree>> \o q \o <<s.locals>> /\ Scopes(s) = <<T>> \o p \o <<L>>
  BY <1>1 DEF Sources, Scopes
<1>31. T = Scoped(tree, "template") /\ L = Scoped(s.locals, "local")
  OBVIOUS
<1> HIDE DEF tree, pack, T, L, q, p, m
<1>4. SystemVariables \in Seq(D)
  <2>1. ToSet(SystemVariables) \subseteq D
    OBVIOUS
  <2> HIDE DEF D
  <2> QED BY <2>1, SystemReal
<1>5. T \in Seq(D) /\ L \in Seq(D) /\ tree \in Seq(E) /\ s.locals \in Seq(E)
  <2>1. ToSet(T) \subseteq D /\ ToSet(L) \subseteq D
    OBVIOUS
  <2>3. ToSet(tree) \subseteq E /\ ToSet(s.locals) \subseteq E
    OBVIOUS
  <2>2. /\ T \in Seq(ToSet(T)) /\ L \in Seq(ToSet(L))
        /\ tree \in Seq(ToSet(tree)) /\ s.locals \in Seq(ToSet(s.locals))
    BY <1>2, <1>31, ScopedReal
  <2> HIDE DEF D, E
  <2> QED BY <2>1, <2>2, <2>3
<1>6. ASSUME NEW i \in 1 .. m PROVE q[i] \in Seq(E) /\ p[i] \in Seq(D)
  <2>1. ToSet(pack(i)) \subseteq E /\ ToSet(p[i]) \subseteq D
    OBVIOUS
  <2>2. q[i] = pack(i) /\ p[i] = Scoped(pack(i), "pack")
    BY <1>3
  <2>3. pack(i) \in Seq(ToSet(pack(i))) /\ Scoped(pack(i), "pack") \in Seq(ToSet(Scoped(pack(i), "pack")))
    BY <1>2, ScopedReal
  <2> HIDE DEF D, E
  <2> QED BY <2>1, <2>2, <2>3
<1>7. WellFormed(D)
  <2>1. WellFormed(ToSet(SystemVariables)) /\ WellFormed(ToSet(T)) /\ WellFormed(ToSet(L))
    BY <1>2, <1>31, SystemReal, ScopedReal
  <2>2. \A i \in 1 .. m : WellFormed(ToSet(p[i]))
    BY <1>2, <1>3, ScopedReal
  <2>3. ASSUME NEW d \in D PROVE d.type \in VarTypes /\ RealValue(d.initial)
    <3>1. CASE d \in ToSet(SystemVariables) \cup ToSet(T) \cup ToSet(L)
      BY <2>1, <3>1 DEF WellFormed
    <3>2. CASE d \in UNION {ToSet(p[i]) : i \in 1 .. m}
      <4>1. PICK i \in 1 .. m : d \in ToSet(p[i])
        BY <3>2
      <4> QED BY <2>2, <4>1 DEF WellFormed
    <3> QED BY <2>3, <3>1, <3>2
  <2> HIDE DEF D
  <2> QED BY <2>3 DEF WellFormed
<1> HIDE DEF D, E
<1>8. PICK S, R : S = Seq(E) /\ R = Seq(D)
  OBVIOUS
<1>9. /\ Sources(s) \in Seq(S) /\ Len(Sources(s)) = m + 2
      /\ Sources(s)[1] = tree /\ Sources(s)[m + 2] = s.locals /\ \A i \in 1 .. m : Sources(s)[i + 1] = q[i]
  <2>1. q \in Seq(S) /\ Len(q) = m
    BY <1>1, <1>3, <1>6, <1>8
  <2>2. tree \in S /\ s.locals \in S
    BY <1>5, <1>8
  <2>3. PICK all : all = <<tree>> \o q \o <<s.locals>>
    OBVIOUS
  <2>4. /\ all \in Seq(S) /\ Len(all) = Len(q) + 2 /\ all[1] = tree /\ all[Len(q) + 2] = s.locals
        /\ \A i \in 1 .. Len(q) : all[i + 1] = q[i]
    BY <2>1, <2>2, <2>3, EndToEnd
  <2> QED BY <1>3, <2>1, <2>3, <2>4
<1>10. /\ Scopes(s) \in Seq(R) /\ Len(Scopes(s)) = m + 2
       /\ Scopes(s)[1] = T /\ Scopes(s)[m + 2] = L /\ \A i \in 1 .. m : Scopes(s)[i + 1] = p[i]
  <2>1. p \in Seq(R) /\ Len(p) = m
    BY <1>1, <1>3, <1>6, <1>8
  <2>2. T \in R /\ L \in R
    BY <1>5, <1>8
  <2>3. PICK all : all = <<T>> \o p \o <<L>>
    OBVIOUS
  <2>4. /\ all \in Seq(R) /\ Len(all) = Len(p) + 2 /\ all[1] = T /\ all[Len(p) + 2] = L
        /\ \A i \in 1 .. Len(p) : all[i + 1] = p[i]
    BY <2>1, <2>2, <2>3, EndToEnd
  <2> QED BY <1>3, <2>1, <2>3, <2>4
<1>11. ASSUME NEW i \in 1 .. (m + 2)
       PROVE  /\ Len(Scopes(s)[i]) = Len(Sources(s)[i])
              /\ \A k \in 1 .. Len(Sources(s)[i]) : Same(Scopes(s)[i][k], Sources(s)[i][k])
  <2>1. PICK decls, scope : RealDecls(decls) /\ Sources(s)[i] = decls /\ Scopes(s)[i] = Scoped(decls, scope)
    <3>1. CASE i = 1
      BY <1>2, <1>9, <1>10, <1>31, <3>1
    <3>2. CASE i = m + 2
      BY <1>2, <1>9, <1>10, <1>31, <3>2
    <3>3. CASE i # 1 /\ i # m + 2
      <4>1. PICK j \in 1 .. m : i = j + 1
        <5>1. i - 1 \in 1 .. m /\ i = (i - 1) + 1
          BY <1>1, <3>3
        <5> QED BY <5>1
      <4>2. RealDecls(pack(j)) /\ q[j] = pack(j) /\ p[j] = Scoped(pack(j), "pack")
        BY <1>2, <1>3
      <4> QED BY <1>9, <1>10, <4>1, <4>2
    <3> QED BY <3>1, <3>2, <3>3
  <2>2. IsSequence(decls)
    BY <2>1 DEF RealDecls
  <2> QED BY <2>1, <2>2, ScopedSame
<1>12. DeclSets(s, D, E)
  <2>1. m = Len(s.mounts) /\ Sources(s) \in Seq(Seq(E)) /\ Scopes(s) \in Seq(Seq(D))
    BY <1>8, <1>9, <1>10 DEF m
  <2> QED BY <1>4, <1>7, <1>9, <1>10, <1>11, <2>1 DEF DeclSets
<1> QED BY <1>12

(* So the schema of a scene says what all its sources say. *)
LEMMA SchemaSays ==
  ASSUME NEW s, RealScene(s) PROVE \E D : WellFormed(D) /\ Says(D, Schema(s), AllDecls(s))
<1>1. PICK D, E : DeclSets(s, D, E)
  BY DeclSetsExist
<1>2. PICK q, w, n : q = Sources(s) /\ w = Scopes(s) /\ n = Len(s.mounts) + 2
  OBVIOUS
<1>3. /\ WellFormed(D) /\ SystemVariables \in Seq(D) /\ q \in Seq(Seq(E)) /\ w \in Seq(Seq(D))
      /\ Len(q) = n /\ Len(w) = n
      /\ \A i \in 1 .. n : /\ Len(w[i]) = Len(q[i])
                           /\ \A k \in 1 .. Len(q[i]) : Same(w[i][k], q[i][k])
  BY <1>1, <1>2 DEF DeclSets
<1>4. n \in Nat \ {0}
  <2>1. Len(s.mounts) \in Nat
    BY IsSequenceFacts DEF RealScene
  <2> QED BY <1>2, <2>1
<1>5. DOMAIN w = 1 .. n /\ \A i \in 1 .. n : q[i] \in Seq(E) /\ w[i] \in Seq(D)
  <2>1. DOMAIN w = 1 .. Len(w) /\ DOMAIN q = 1 .. Len(q)
    BY <1>3
  <2> QED BY <1>3, <2>1
<1>6. PICK G : Runs(G, "merged", <<>>, SystemVariables, w, n) /\ MergeDeclsEnd(SystemVariables, w) = G[n]
  BY <1>4, <1>5, MergeDeclsFold
<1>7. Schema(s) = G[n]
  BY <1>2, <1>6 DEF Schema, Scopes, MergeDeclsEnd
<1>8. G[0] = SystemVariables /\ \A k \in 1 .. n : G[k] = MergeDecls(G[k - 1], w[k])
  <2>1. \A acc, x : Step("merged", <<>>, acc, x) = MergeDecls(acc, x)
    BY DEF Step
  <2> QED BY <1>6, <2>1 DEF Runs
<1>9. PICK f : FlatIter(f, q, n) /\ FlattenSeq(q) = f[n]
  BY <1>3, <1>4, FlattenIs
<1>10. \A k \in 1 .. n : f[k] = IF k = 1 THEN q[k] ELSE f[k - 1] \o q[k]
  BY <1>9 DEF FlatIter
<1>11. ASSUME NEW k \in 1 .. n, NEW src \in Seq(E), Says(D, G[k - 1], src)
       PROVE  Says(D, G[k], src \o q[k])
  <2>1. PICK schema, decls, scoped : schema = G[k - 1] /\ decls = q[k] /\ scoped = w[k]
    OBVIOUS
  <2>2. /\ decls \in Seq(E) /\ scoped \in Seq(D) /\ Len(scoped) = Len(decls)
        /\ \A j \in 1 .. Len(decls) : Same(scoped[j], decls[j])
    BY <1>3, <1>5, <2>1
  <2>3. Says(D, MergeDecls(schema, scoped), src \o decls)
    BY <1>11, <2>1, <2>2, MergeSays
  <2> QED BY <1>8, <2>1, <2>3
<1> DEFINE Bad == {k \in 1 .. n : ~(f[k] \in Seq(E) /\ Says(D, G[k], f[k]))}
<1>12. Bad = {}
  <2> SUFFICES ASSUME Bad # {} PROVE FALSE
    OBVIOUS
  <2>1. PICK k \in Bad : \A j \in Bad : k <= j
    <3> HIDE DEF Bad
    <3>1. Bad \in SUBSET Nat
      BY <1>4 DEF Bad
    <3> QED BY <3>1, Least
  <2>2. k \in 1 .. n /\ q[k] \in Seq(E)
    BY <1>5
  <2>3. CASE k = 1
    <3>1. Says(D, G[0], <<>>) /\ <<>> \in Seq(E)
      BY <1>3, <1>8, SystemSays
    <3>2. Says(D, G[k], <<>> \o q[k])
      <4>1. k - 1 = 0
        BY <2>3
      <4>2. Says(D, G[k - 1], <<>>)
        BY <3>1, <4>1
      <4> QED BY <1>11, <2>2, <3>1, <4>2
    <3>3. <<>> \o q[k] = q[k]
      BY <2>2
    <3>4. f[k] = q[k]
      BY <1>10, <2>2, <2>3
    <3> QED BY <2>1, <2>2, <3>2, <3>3, <3>4
  <2>4. CASE k # 1
    <3>1. k - 1 \in 1 .. n /\ k - 1 \notin Bad
      <4> HIDE DEF Bad
      <4> QED BY <1>4, <2>1, <2>2, <2>4
    <3>2. f[k - 1] \in Seq(E) /\ Says(D, G[k - 1], f[k - 1])
      BY <3>1
    <3>3. f[k] = f[k - 1] \o q[k]
      BY <1>10, <2>2, <2>4
    <3>4. Says(D, G[k], f[k])
      BY <1>11, <2>2, <3>2, <3>3
    <3>5. f[k] \in Seq(E)
      BY <2>2, <3>2, <3>3
    <3> QED BY <2>1, <3>4, <3>5
  <2> QED BY <2>3, <2>4
<1>13. Says(D, G[n], f[n])
  <2>1. n \in 1 .. n
    BY <1>4
  <2> QED BY <1>12, <2>1
<1>14. f[n] = AllDecls(s)
  BY <1>2, <1>9 DEF AllDecls
<1> QED BY <1>3, <1>7, <1>13, <1>14

(* What a schema makes of a name. *)
LEMMA DeclReal ==
  ASSUME NEW D, WellFormed(D), NEW schema \in Seq(D), NEW n \in DeclNames(schema)
  PROVE  DeclOf(schema, n).type \in VarTypes /\ RealValue(DeclOf(schema, n).initial)
<1>1. PICK i : First(schema, n, i) /\ DeclOf(schema, n) = schema[i]
  BY DeclIs
<1>2. schema[i] \in D
  BY <1>1 DEF First
<1> QED BY <1>1, <1>2 DEF WellFormed

(* What a branch shows is well formed, and it shows all there is. *)
Shows(state, schema, seed, leaf) ==
  /\ RealState(state) /\ DOMAIN state = DeclNames(schema) \cup DOMAIN seed \cup DOMAIN leaf
  /\ \A n \in DOMAIN leaf : state[n] = leaf[n]

LEMMA EffectiveReal ==
  ASSUME NEW D, WellFormed(D), NEW schema \in Seq(D), NEW seed, RealState(seed), NEW leaf, RealState(leaf)
  PROVE  Shows(EffectiveState(schema, seed, leaf), schema, seed, leaf)
<1>1. PICK first : first = SchemaInitials(schema)
  OBVIOUS
<1>2. RealState(first) /\ DOMAIN first = DeclNames(schema)
  <2>1. \A n \in DeclNames(schema) : RealValue(DeclOf(schema, n).initial)
    BY DeclReal
  <2> QED BY <1>1, <2>1 DEF SchemaInitials, RealState
<1>3. PICK second : second = Extended(first, seed)
  OBVIOUS
<1>4. RealState(second) /\ DOMAIN second = DeclNames(schema) \cup DOMAIN seed
  BY <1>2, <1>3 DEF Extended, RealState
<1>5. PICK third : third = Extended(second, leaf)
  OBVIOUS
<1>6. /\ RealState(third) /\ DOMAIN third = DeclNames(schema) \cup DOMAIN seed \cup DOMAIN leaf
      /\ \A n \in DOMAIN leaf : third[n] = leaf[n]
  BY <1>4, <1>5 DEF Extended, RealState
<1>7. third = EffectiveState(schema, seed, leaf)
  BY <1>1, <1>3, <1>5 DEF EffectiveState
<1> QED BY <1>6, <1>7 DEF Shows

(* Names are well formed. *)
LEMMA InjectReal ==
  ASSUME NEW state, RealState(state), NEW identity PROVE RealState(InjectIdentity(state, identity))
<1>1. \A map, key, name : RealState(map) => RealState(Inserted(map, key, Text(name)))
  BY DEF RealState, RealValue, Inserted, Text
<1> DEFINE Said(map, key, name) == IF name = "" THEN map ELSE Inserted(map, key, Text(name))
<1>2. \A map, key, name : RealState(map) => RealState(Said(map, key, name))
  BY <1>1
<1>3. InjectIdentity(state, identity) =
        Said(Said(state, "$user_name", identity.user), "$assistant_name", identity.assistant)
  BY DEF InjectIdentity
<1> HIDE DEF Said
<1> QED BY <1>2, <1>3

(* Updates of literals that are what they are typed as. *)
RealUpdate(u) ==
  /\ "number" \in DOMAIN u.lit => Finite(u.lit.number)
  /\ "list" \in DOMAIN u.lit => IsSequence(u.lit.list)

(* A sequence over any set is one. *)
LEMMA SequenceIs == ASSUME NEW S, NEW x \in Seq(S) PROVE IsSequence(x)
<1>1. PICK n \in Nat : n = Len(x) /\ DOMAIN x = 1 .. n /\ x = [i \in 1 .. n |-> x[i]]
  OBVIOUS
<1>2. \A i \in DOMAIN x : x[i] \in ToSet(x)
  BY DEF ToSet
<1>3. x \in Seq(ToSet(x))
  BY <1>1, <1>2, SeqOver
<1> QED BY <1>3 DEF IsSequence

(* What a list is before it is changed. *)
LEMMA CurrentList ==
  ASSUME NEW state, RealState(state), NEW key
  PROVE  /\ IsSequence(Current(state, key, "list"))
         /\ \/ Current(state, key, "list") = <<>>
            \/ /\ key \in DOMAIN state /\ state[key].type = "list"
               /\ Current(state, key, "list") = state[key].val
<1>1. CASE key \in DOMAIN state /\ state[key].type = "list"
  BY <1>1 DEF Current, RealState, RealValue
<1>2. CASE ~(key \in DOMAIN state /\ state[key].type = "list")
  <2> DEFINE zero(type) == CASE type = "number" -> 0 [] type = "bool" -> FALSE [] type = "list" -> <<>>
  <2>1. Current(state, key, "list") = zero("list")
    BY <1>2, Zenon DEF Current
  <2>2. zero("list") = <<>>
    OBVIOUS
  <2> HIDE DEF zero
  <2>3. IsSequence(<<>>)
    <3>1. <<>> \in Seq({})
      OBVIOUS
    <3> QED BY <3>1, SequenceIs
  <2> QED BY <2>1, <2>2, <2>3
<1> QED BY <1>1, <1>2

(* A list without one of its members. *)
LEMMA RemoveAtFacts ==
  ASSUME NEW now, IsSequence(now), NEW at \in 1 .. Len(now)
  PROVE  IsSequence(RemoveAt(now, at)) /\ Len(RemoveAt(now, at)) <= Len(now)
<1>0. PICK S : now \in Seq(S)
  BY DEF IsSequence
<1>1. PICK front, back : front = SubSeq(now, 1, at - 1) /\ back = SubSeq(now, at + 1, Len(now))
  OBVIOUS
<1>2. front \in Seq(S) /\ Len(front) = at - 1
  BY <1>0, <1>1
<1>3. back \in Seq(S) /\ Len(back) = Len(now) - at
  BY <1>0, <1>1
<1>4. front \o back \in Seq(S) /\ Len(front \o back) = Len(now) - 1
  BY <1>0, <1>2, <1>3
<1>5. Len(now) - 1 <= Len(now)
  BY <1>0
<1> QED BY <1>1, <1>4, <1>5, SequenceIs DEF RemoveAt

(* A value has the type it is made for; a list is as it is set, within its *)
(* bound, or no longer than it was.                                        *)
Fits(state, u, type, v) ==
  /\ v.type = type /\ RealValue(v)
  /\ type = "number" => Finite(v.val)
  /\ type = "list" => \/ u.action = "set" /\ "list" \in DOMAIN u.lit /\ v.val = u.lit.list
                      \/ Len(v.val) <= MaxListLen
                      \/ Len(v.val) <= Len(Current(state, u.key, "list"))

LEMMA ChangedFits ==
  ASSUME NEW state, RealState(state), NEW u, RealUpdate(u), NEW type \in VarTypes,
         Changed(state, u, type) # NoValue
  PROVE  Fits(state, u, type, Changed(state, u, type))
<1> DEFINE now == Current(state, u.key, type)
           Put(x) == [type |-> type, val |-> x]
           number == IF u.lit # NoValue /\ "number" \in DOMAIN u.lit THEN u.lit.number ELSE MaxNumber + 1
           sum == IF u.action = "add" THEN now + number ELSE now - number
           at == SelectInSeq(now, LAMBDA e : e = u.lit.text)
<1>1. PICK v : v = Changed(state, u, type)
  OBVIOUS
<1>2. \/ u.action = "set" /\ v = Coerce(u.lit, type)
      \/ type = "number" /\ Finite(sum) /\ v = Put(sum)
      \/ type = "bool" /\ v = Put(~now)
      \/ u.action = "append" /\ type = "list" /\ u.lit # NoValue /\ Len(now) < MaxListLen
           /\ v = Put(Append(now, u.lit.text))
      \/ u.action = "remove" /\ type = "list" /\ v = Put(IF at = 0 THEN now ELSE RemoveAt(now, at))
  BY <1>1 DEF Changed
<1>3. type = "list" => IsSequence(now) /\ now = Current(state, u.key, "list")
  BY CurrentList
<1> HIDE DEF sum, number
<1>4. CASE u.action = "set" /\ v = Coerce(u.lit, type)
  <2>1. CASE type = "string"
    BY <1>4, <2>1, <1>1 DEF Coerce, Text, Fits, RealValue
  <2>2. CASE type # "string"
    <3>1. type \in DOMAIN u.lit /\ v = [type |-> type, val |-> u.lit[type]]
      BY <1>1, <1>4, <2>2 DEF Coerce
    <3> QED BY <1>1, <1>4, <3>1 DEF Fits, RealValue, RealUpdate
  <2> QED BY <2>1, <2>2
<1>5. CASE type = "number" /\ Finite(sum) /\ v = Put(sum)
  BY <1>1, <1>5 DEF Fits, RealValue
<1>6. CASE type = "bool" /\ v = Put(~now)
  BY <1>1, <1>6 DEF Fits, RealValue
<1>7. CASE type = "list" /\ u.lit # NoValue /\ Len(now) < MaxListLen /\ v = Put(Append(now, u.lit.text))
  <2> HIDE DEF now
  <2>1. PICK more : more = Append(now, u.lit.text)
    OBVIOUS
  <2>2. PICK S : now \in Seq(S) /\ u.lit.text \in S
    <3>1. now \in Seq(ToSet(now))
      BY <1>3, <1>7 DEF IsSequence
    <3>2. now \in Seq(ToSet(now) \cup {u.lit.text})
      BY <3>1
    <3> QED BY <3>2
  <2>3. more \in Seq(S) /\ Len(more) = Len(now) + 1 /\ Len(now) \in Nat
    BY <2>1, <2>2
  <2>6. IsSequence(more)
    BY <2>3, SequenceIs
  <2>4. Len(more) <= MaxListLen
    BY <1>7, <2>2, <2>3, StateAssumption
  <2>5. v.type = "list" /\ v.val = more
    BY <1>7, <2>1
  <2> QED BY <1>1, <1>7, <2>4, <2>5, <2>6 DEF Fits, RealValue
<1>8. CASE type = "list" /\ v = Put(IF at = 0 THEN now ELSE RemoveAt(now, at))
  <2>1. at = 0 \/ at \in 1 .. Len(now)
    <3> DEFINE I == {i \in 1 .. Len(now) : now[i] = u.lit.text}
    <3>1. at = IF I # {} THEN Min(I) ELSE 0
      BY DEF SelectInSeq
    <3> HIDE DEF at
    <3>2. I \in SUBSET Nat /\ I \in SUBSET (1 .. Len(now))
      OBVIOUS
    <3> HIDE DEF I
    <3> QED BY <3>1, <3>2, MinIn
  <2> HIDE DEF at, now
  <2>2. PICK less : less = IF at = 0 THEN now ELSE RemoveAt(now, at)
    OBVIOUS
  <2>3. IsSequence(less) /\ Len(less) <= Len(now)
    <3>1. IsSequence(now) /\ Len(now) \in Nat
      BY <1>3, <1>8, IsSequenceFacts
    <3> QED BY <2>1, <2>2, <3>1, RemoveAtFacts
  <2>4. v.type = "list" /\ v.val = less
    BY <1>8, <2>2
  <2> QED BY <1>1, <1>3, <1>8, <2>3, <2>4 DEF Fits, RealValue
<1> QED BY <1>2, <1>4, <1>5, <1>6, <1>7, <1>8

(* The lengths a list may have are numbers, and its bound is one of them. *)
LEMMA LengthsIn ==
  ASSUME NEW before, RealState(before), NEW updates, RealUpdates(updates), NEW n
  PROVE  Lengths(before, updates, n) \in SUBSET Nat /\ MaxListLen \in Lengths(before, updates, n)
<1>1. ASSUME NEW k \in DOMAIN before, before[k].type = "list" PROVE Len(before[k].val) \in Nat
  BY <1>1, IsSequenceFacts DEF RealState, RealValue
<1>2. ASSUME NEW u \in ToSet(updates), "list" \in DOMAIN u.lit PROVE Len(u.lit.list) \in Nat
  BY <1>2, IsSequenceFacts DEF RealUpdates, ToSet
<1> QED BY <1>1, <1>2, StateAssumption DEF Lengths

(* A value that fits follows its declaration, and its list is no longer    *)
(* than it may be.                                                         *)
LEMMA FitsFollows ==
  ASSUME NEW before, RealState(before), NEW state, RealState(state),
         NEW updates, RealUpdates(updates), NEW decls, Follows(before, state, updates, decls),
         NEW u \in ToSet(updates), NEW type, NEW v, Fits(state, u, type, v),
         u.key \in DeclNames(decls), u.key \notin ReservedKeys, type = LastType(decls, u.key)
  PROVE  Follows(before, Inserted(state, u.key, v), updates, decls)
<1>1. PICK key, L : key = u.key /\ L = Lengths(before, updates, u.key)
  OBVIOUS
<1>2. L \in SUBSET Nat /\ MaxListLen \in L
  BY <1>1, LengthsIn
<1>3. ASSUME type = "list" PROVE \E k \in L : Len(v.val) <= k
  <2>1. Len(v.val) \in Nat
    BY <1>3, IsSequenceFacts DEF Fits, RealValue
  <2>2. CASE u.action = "set" /\ "list" \in DOMAIN u.lit /\ v.val = u.lit.list
    <3>1. Len(u.lit.list) \in L
      BY <1>1, <2>2 DEF Lengths
    <3> QED BY <2>1, <2>2, <3>1
  <2>3. CASE Len(v.val) <= MaxListLen
    BY <1>2, <2>3
  <2>4. CASE Len(v.val) <= Len(Current(state, key, "list"))
    <3>1. PICK now : now = Current(state, key, "list")
      OBVIOUS
    <3>2. /\ IsSequence(now)
          /\ now = <<>> \/ (key \in DOMAIN state /\ state[key].type = "list" /\ now = state[key].val)
      BY <3>1, CurrentList
    <3>3. Len(now) \in Nat
      BY <3>2, IsSequenceFacts
    <3>4. CASE now = <<>>
      <4>1. Len(v.val) <= 0 /\ MaxListLen \in Nat
        BY <2>4, <3>1, <3>4, StateAssumption
      <4>2. Len(v.val) <= MaxListLen
        BY <2>1, <4>1
      <4> QED BY <1>2, <4>2
    <3>5. CASE key \in DOMAIN state /\ state[key].type = "list" /\ now = state[key].val
      <4>1. CASE key \in DOMAIN before /\ before[key].type = state[key].type /\ before[key].val = state[key].val
        <5>1. Len(before[key].val) \in L
          BY <1>1, <3>5, <4>1 DEF Lengths
        <5> QED BY <2>4, <3>1, <3>5, <4>1, <5>1
      <4>2. CASE \E k \in L : Len(state[key].val) <= k
        <5>1. PICK k \in L : Len(now) <= k
          BY <3>5, <4>2
        <5>2. Len(v.val) <= k
          BY <1>2, <2>1, <2>4, <3>1, <3>3, <5>1
        <5> QED BY <5>2
      <4> QED BY <1>1, <3>5, <4>1, <4>2 DEF Follows
    <3> QED BY <3>2, <3>4, <3>5
  <2> QED BY <1>1, <1>3, <2>2, <2>3, <2>4 DEF Fits
<1>4. PICK new : new = Inserted(state, key, v)
  OBVIOUS
<1>5. /\ DOMAIN new = DOMAIN state \cup {key} /\ new[key] = v
      /\ \A n \in DOMAIN state : n # key => new[n] = state[n]
  BY <1>4 DEF Inserted
<1>6. /\ key \in DeclNames(decls) /\ key \notin ReservedKeys /\ v.type = LastType(decls, key)
      /\ v.type = "list" => \E k \in Lengths(before, updates, key) : Len(v.val) <= k
      /\ v.type = "number" => Finite(v.val)
  BY <1>1, <1>3 DEF Fits
<1>7. ASSUME NEW n \in DOMAIN new
      PROVE  \/ n \in DOMAIN before /\ before[n].type = new[n].type /\ before[n].val = new[n].val
             \/ /\ n \in DeclNames(decls) /\ n \notin ReservedKeys /\ new[n].type = LastType(decls, n)
                /\ new[n].type = "list" => \E k \in Lengths(before, updates, n) : Len(new[n].val) <= k
                /\ new[n].type = "number" => Finite(new[n].val)
  <2>1. CASE n = key
    BY <1>5, <1>6, <2>1
  <2>2. CASE n # key
    <3>1. n \in DOMAIN state /\ new[n] = state[n]
      BY <1>5, <2>2
    <3> QED BY <3>1 DEF Follows
  <2> QED BY <2>1, <2>2
<1>8. Follows(before, new, updates, decls)
  BY <1>7 DEF Follows
<1> QED BY <1>1, <1>4, <1>8

(* What updates leave of a state, as far as they have been made. *)
Kept(before, state, updates, decls) ==
  RealState(state) /\ DOMAIN before \subseteq DOMAIN state /\ Follows(before, state, updates, decls)

(* One update keeps it. *)
LEMMA UpdatedKept ==
  ASSUME NEW D, WellFormed(D), NEW schema, NEW decls, Says(D, schema, decls),
         NEW before, RealState(before), NEW updates, RealUpdates(updates),
         NEW state, Kept(before, state, updates, decls), NEW u \in ToSet(updates)
  PROVE  Kept(before, Updated(schema, state, u), updates, decls)
<1> DEFINE type == DeclOf(schema, u.key).type
           value == Changed(state, u, type)
<1>1. CASE u.key \in ReservedKeys \/ u.key \notin DeclNames(schema) \/ value = NoValue
  <2>1. Updated(schema, state, u) = state
    BY <1>1 DEF Updated
  <2> QED BY <2>1
<1>2. CASE ~(u.key \in ReservedKeys \/ u.key \notin DeclNames(schema) \/ value = NoValue)
  <2>1. Updated(schema, state, u) = Inserted(state, u.key, value)
    BY <1>2 DEF Updated
  <2>2. u.key \in DeclNames(decls) /\ type = LastType(decls, u.key)
    BY <1>2, ReservedAssumption DEF Says
  <2>3. type \in VarTypes
    BY <1>2, DeclReal DEF Says
  <2>4. RealUpdate(u)
    BY DEF RealUpdates, RealUpdate, ToSet
  <2>5. RealState(state)
    BY DEF Kept
  <2> HIDE DEF type
  <2>6. Fits(state, u, type, value)
    BY <1>2, <2>3, <2>4, <2>5, ChangedFits
  <2> HIDE DEF value
  <2>7. Follows(before, Inserted(state, u.key, value), updates, decls)
    BY <1>2, <2>2, <2>5, <2>6, FitsFollows DEF Kept
  <2>8. RealState(Inserted(state, u.key, value)) /\ DOMAIN before \subseteq DOMAIN Inserted(state, u.key, value)
    <3>1. RealValue(value)
      BY <2>6 DEF Fits
    <3> QED BY <2>5, <3>1 DEF Inserted, RealState, Kept
  <2> QED BY <2>1, <2>7, <2>8 DEF Kept
<1> QED BY <1>1, <1>2

(* So does a reply's or a panel's sequence of them. *)
LEMMA ApplyUpdatesKept ==
  ASSUME NEW D, WellFormed(D), NEW schema, NEW decls, Says(D, schema, decls),
         NEW before, RealState(before), NEW updates, RealUpdates(updates)
  PROVE  Kept(before, ApplyUpdates(before, schema, updates), updates, decls)
<1>1. PICK n \in Nat : n = Len(updates) /\ DOMAIN updates = 1 .. n
  BY IsSequenceFacts DEF RealUpdates
<1>2. PICK G : Runs(G, "updated", <<schema>>, before, updates, n) /\ UpdatedEnd(schema, before, updates) = G[n]
  BY <1>1, UpdatedFold
<1>3. ApplyUpdates(before, schema, updates) = G[n]
  BY <1>2 DEF ApplyUpdates, UpdatedEnd
<1>4. G[0] = before /\ \A k \in 1 .. n : G[k] = Updated(schema, G[k - 1], updates[k])
  <2>1. \A acc, x : Step("updated", <<schema>>, acc, x) = Updated(schema, acc, x)
    BY DEF Step
  <2> QED BY <1>2, <2>1 DEF Runs
<1>5. \A k \in 1 .. n : updates[k] \in ToSet(updates)
  BY <1>1 DEF ToSet
<1> DEFINE Bad == {k \in 0 .. n : ~Kept(before, G[k], updates, decls)}
<1>6. Bad = {}
  <2> SUFFICES ASSUME Bad # {} PROVE FALSE
    OBVIOUS
  <2>1. PICK k \in Bad : \A j \in Bad : k <= j
    <3> HIDE DEF Bad
    <3>1. Bad \in SUBSET Nat
      BY DEF Bad
    <3> QED BY <3>1, Least
  <2>2. Kept(before, before, updates, decls)
    BY DEF Kept, Follows
  <2>3. k # 0
    BY <1>4, <2>1, <2>2
  <2>4. k \in 1 .. n /\ k - 1 \in 0 .. n /\ k - 1 \notin Bad
    <3>1. k \in 0 .. n
      OBVIOUS
    <3> HIDE DEF Bad
    <3> QED BY <2>1, <2>3, <3>1
  <2>5. Kept(before, G[k - 1], updates, decls)
    BY <2>4
  <2>6. Kept(before, Updated(schema, G[k - 1], updates[k]), updates, decls)
    BY <1>5, <2>4, <2>5, UpdatedKept
  <2> QED BY <1>4, <2>1, <2>4, <2>6
<1>7. n \in 0 .. n
  OBVIOUS
<1> QED BY <1>3, <1>6, <1>7

(* An answer that is computed follows the schema. *)
LEMMA UpdatesFollowSchemaStep == Computed => UpdatesFollowSchema
<1> SUFFICES ASSUME Computed, Answered("turn") PROVE UpdatesFollowSchema
  BY DEF UpdatesFollowSchema
<1>1. PICK s, seed, leaf, updates, items :
        /\ s = input.scene /\ seed = input.seed /\ leaf = input.leaf
        /\ updates = TurnUpdates(input) /\ items = PanelItems(input)
  OBVIOUS
<1>2. /\ RealScene(s) /\ RealState(seed) /\ RealState(leaf)
      /\ RealUpdates(updates) /\ RealUpdates(PanelUpdates(items))
  BY <1>1 DEF Computed, Answered, RealInput, RealTurn, RealScene
<1>3. PICK schema, decls : schema = Schema(s) /\ decls = AllDecls(s)
  OBVIOUS
<1>4. PICK D : WellFormed(D) /\ Says(D, schema, decls)
  BY <1>2, <1>3, SchemaSays
<1>5. schema \in Seq(D)
  BY <1>4 DEF Says
<1>6. PICK effective, before, snapshot, after :
        /\ effective = EffectiveState(schema, seed, leaf)
        /\ before = InjectIdentity(effective, Identity(s))
        /\ after = ApplyUpdates(before, schema, updates)
        /\ snapshot = ApplyUpdates(effective, schema, PanelUpdates(items))
  OBVIOUS
<1>7. RealState(effective) /\ DOMAIN effective = DeclNames(schema) \cup DOMAIN seed \cup DOMAIN leaf
  <2>1. Shows(EffectiveState(schema, seed, leaf), schema, seed, leaf)
    BY <1>2, <1>4, <1>5, EffectiveReal
  <2> QED BY <1>6, <2>1 DEF Shows
<1>8. RealState(before)
  BY <1>6, <1>7, InjectReal
<1>9. Kept(before, after, updates, decls) /\ Kept(effective, snapshot, PanelUpdates(items), decls)
  BY <1>2, <1>4, <1>6, <1>7, <1>8, ApplyUpdatesKept
<1>10. PICK panel : panel = EffectiveState(schema, seed, snapshot)
  OBVIOUS
<1>11. Follows(effective, panel, PanelUpdates(items), decls)
  <2>1. RealState(snapshot)
    BY <1>9 DEF Kept
  <2>2. Shows(EffectiveState(schema, seed, snapshot), schema, seed, snapshot)
    BY <1>2, <1>4, <1>5, <2>1, EffectiveReal
  <2>3. DOMAIN panel = DOMAIN snapshot
    BY <1>7, <1>9, <1>10, <2>2 DEF Kept, Shows
  <2>4. \A n \in DOMAIN panel : n \in DOMAIN snapshot /\ panel[n] = snapshot[n]
    BY <1>10, <2>2, <2>3 DEF Shows
  <2> QED BY <1>9, <2>4 DEF Kept, Follows
<1>12. answer.before = before /\ answer.after = after /\ answer.panel = panel
  <2>1. answer = TurnAnswer(input)
    BY DEF Computed
  <2> QED BY <1>1, <1>3, <1>6, <1>10, <2>1 DEF TurnAnswer, BranchState, PanelSnapshot
<1>13. effective = BranchState(s, seed, leaf)
  BY <1>3, <1>6 DEF BranchState
<1> QED BY <1>1, <1>3, <1>9, <1>11, <1>12, <1>13 DEF Kept, UpdatesFollowSchema

(* A reply or a panel changes no variable but declared ones, and leaves    *)
(* each with a value of the type its last declaration gives it; the names  *)
(* and faces of the two sides are out of its reach.  What is added to a    *)
(* list stays within its bound.                                            *)
THEOREM UpdatesFollow == Spec => []UpdatesFollowSchema
BY UpdatesFollowSchemaStep, EveryAnswerComputed, PTL
=============================================================================
