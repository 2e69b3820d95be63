# Shirita in TLA+

Shirita is a role-play chat application: a Rust core (`shirita-core`), a web server
(`shirita-web`), a Vue client (`shirita-ui`) and a desktop shell (`shirita-tauri`).  This
directory holds a formal model of the core and the server: the streams that generate replies
and the message tree they write into, the agent loop and its MCP calls, the library of prompt
trees, packs and definitions, and the pure parts that turn all of it into a request and a
reply back into state.  TLC checks every model on a small instance; TLAPS proves the safety
properties of all six models of concurrent work for every value of their constants, and three
of the pure parts' (requests, settings, secrets) for inputs of any size.

    tlc -workers 2 -config MCGenerations.cfg MCGenerations.tla
    tlapm GenerationsProofs.tla

## 1. The system and its parts

| Component | State it keeps | Operations | Interacts with |
|---|---|---|---|
| Generation registry (`shirita-web/src/generations.rs`) | map session -> (generation id, abort handle, stop handle), a global counter | `replace`, `finish`, `remove`, `stop` | chat handlers, `delete_session` |
| Chat handlers (`routes/chat.rs`) | the set `summarizing()` | `send`, `regenerate_message`, `abort_message`, `spawn_summary` | registry, streams, summarizer |
| Generation streams (`conversation.rs`) | locals of an async stream across some ten awaits | `send_message`, `regenerate`, `generation_stream`, `StopToken` | storage, provider, agent loop |
| Message routes (`routes/messages.rs`) | none (read, then write) | edit/hide, delete a subtree, switch the active leaf, fork | storage |
| Message tree (`tree.rs`) | none | `active_path`, `deepest_leaf` | everything that reads messages |
| Storage (`storage/sqlite.rs`, `migrations/`) | SQLite: sessions, messages, summaries, prompt nodes, definitions, packs, patches, assets, settings, MCP servers | one call each | everything |
| Summarizer (`summarize.rs`) | a spawned task | `run`, `fold_range` | storage, provider |
| Agent loop (`agent_loop.rs`, `agent.rs`, `tools.rs`) | round and call counters, the response workspace | `run`, patch/replace/finish | provider, tools |
| Prompt trees and packs (`routes/prompt_nodes.rs`, `packs.rs`, `templates.rs`) | rows of trees, owners | create, move, delete, clear, copy, materialize | assembly, variables, export |
| Definitions, types, local overrides (`routes/definitions.rs`, `types.rs`, `local_overrides.rs`) | rows, a patch per session and definition | CRUD, promote, discard | assembly, trees |
| Media (`routes/assets.rs`, `attachments.rs`) | a row and a file per upload | upload, delete, collect, restore | definitions, packs, sessions, import |
| Prompt assembly, activation, budget (`assembly.rs`, `keyword.rs`, `budget.rs`, `identity.rs`, `panels.rs`) | none | pure | streams |
| State variables (`state.rs`, `routes/variables.rs`) | a snapshot per message | declare, update, read | streams |
| Cards and calls in replies (`html_patch.rs`, `xml_tools.rs`) | none | pure | streams, agent loop |
| Portable formats (`portable.rs`, `routes/import_export.rs`) | none | export, import with new ids and paths | library, UI |
| Model providers (`model/`) | the reader's partial line and open calls | a body out, a stream of events in | streams, summarizer, agent loop |
| Settings (`agent.rs`, `routes/settings.rs`, `routes/agent_settings.rs`, `provider_select.rs`) | key-value rows, an override per session | read, write, reset, migrate | every run |
| MCP (`mcp/`, `routes/mcp.rs`) | server records with secrets; per run: connections, pending authorizations | CRUD, discover, call, authorize | agent loop, UI |
| Authentication (`auth.rs`, `auth_password.rs`) | token sessions | setup, login, logout | every route |
| UI chat store (`shirita-ui/src/stores/chat.ts`) | the transcript shown, the stream being read | load, send, regenerate, stop, switch | the HTTP API |

What makes the system hard, and for each part what makes it correct:

* **Many actors, no lock on a session.**  A stream reads the session, the messages and the
  summaries in separate storage calls, waits for the provider, and writes with what it read
  at the start.  Meanwhile clients edit, hide, delete, switch branches, stop, disconnect or
  delete the session, and another stream may replace it.  The tree must stay a tree, a reply
  must sit on the branch its prompt was made from, no message may be left of a deleted session.
* **Check, then write.**  Routes on trees and packs read, decide and write in separate calls on
  five connections. Trees must keep to themselves and to the levels they were given (two, but an
  import may bring more), a template is copied into a session once, a file and its row are there
  together.
* **Two ways to end a stream.**  The hard abort (`Abortable`) and dropping the SSE body end it
  at whatever await it is in, and a query already handed to SQLite may still take effect.
  The cooperative stop is seen only where the code selects on it.
* **Claims, slots and requests for approval** that must be given back on every path.
* **Budgets and fences** of the agent loop, across rounds; answers of an MCP server that come
  late, in pieces, or never.
* **Pure code with many cases.**  Triggers, switches, merges, cuts and trims decide together
  what a model is sent; wire formats cut anything anywhere.

The hazards, each at its line and with the properties that watch it, are listed in
`PROJECT.json` under `hazards`.

## 2. Modules

    SingleFlight  <== Generations   <-- MCGenerations, GenerationsProofs
    MessageTree   <-- ChatSession   <-- MCChatSession, ChatSessionProofs
    MessageTree   <-- SessionCopies <-- MCSessionCopies, SessionCopiesProofs
    AgentLoop     <-- MCAgentLoop, AgentLoopProofs
    McpCalls      <-- MCMcpCalls, McpCallsProofs
    PromptTrees   <-- Library       <-- MCLibrary, LibraryProofs
    StateVars <-- PromptAssembly <-- PromptRequest --+
    Tools <-- McpSetup, RunSettings -----------------+-- Algorithms <-- MCAlgorithms
    Portable, ReplyText, Providers ------------------+              <-- AlgorithmsProofs
    Maps <-- StateVars, Tools, McpSetup, RunSettings, Algorithms
    MessageTreeProofs <-- ChatSessionProofs, SessionCopiesProofs

`<==` is a refinement, `<--` EXTENDS or INSTANCE.

**SingleFlight** is what the registry promises: per session at most one generation is in
flight; one begins only in an idle session or by ending the one before; one ends.

**Generations** is the registry and the streams it steers, for any number of sessions and
requests. `replace` is two actions, `Allocate`, which takes the id outside the lock, and
`Install`, which under the lock swaps the slot and aborts the stream it held (`Cut`): other
threads run between the two, but not between the swap and the abort. A poll of an `Abortable`
stream is a step of its own (`BeginPoll` ... `Park`): the abort flag is looked at before the
inner stream runs, so a stream aborted in mid-poll may still emit. `Finish` is the terminal
event's closure, `Disconnect` the drop of the response body, which never reaches it.

**MessageTree** has the tree functions over messages numbered in creation order.

**ChatSession** is one session in the database with everything that works on it.  One step
is one storage call (or one wait for the provider).  A stream is a record with the locals
it carries over its awaits (the leaf, the branch and the clone it read, the parent it will
write under).  `Dropped` ends it at an await: the call it had issued takes effect or not.
Any storage call may fail (`CallFails`); where the code goes on after a failure, so does the
model: a summarizer that cannot list the summaries goes on as if there were none, and is `blind`
from then on.  The registry is reduced to one slot (`GiveSlot`), which module Generations
justifies: swap and abort are one step there too.  The summarizer is a task per `Done`, from
claim to release.  A summary knows the turns it tells (`covers`) and those that were hidden when
it, or one folded into it, was made (`skips`).

**SessionCopies** is `fork_session`, `duplicate_session` and an export followed by an import.
Each storage call is a step; clients add, delete, switch and summarize in the source, and in the
copy as soon as `create_session` has put it into the list; a call fails, or the request is
dropped. A message's id is its session and its `created_at`, so `idmap` is visible in the ids
and clones keep their age; the order of the batch is `Earlier`, `sort_by`'s comparison. A fork
takes the path and what hangs directly on it (`Alternatives`), as the code does. Texts and the
columns that are copied as they are stay out; the prompt nodes that go along are a set
(PromptTrees copies trees row by row).

**AgentLoop** is one agent run: rounds, calls, the finish fence, the budgets, the revisions
of the response workspace, stop and timeouts.  A patch is a step per replacement on a `candidate`
(`StartPatch`, `ReplaceOne`), which becomes the text when all have been made (`PatchIsWhole`) and
is dropped when one fails (`PatchBreaks`).

**McpCalls** is what happens inside one of its calls when the tool is an MCP server's: the
broker that asks the user, the ids the answers are matched by, the two transports and the
time-outs around them.  Over stdio a line is two bytes of a character and an end of line and
is read in whatever pieces arrive; over HTTP an answer is one exchange.  `CallId` names the
call as the model did, which native calls do uniquely and calls in XML do not.

**PromptTrees** has the trees of prompt nodes that templates, packs and sessions own, and the
routes that change them: one action per storage call, two requests at a time. A SQLite
transaction that begins with a read is `fresh` until any other commit, and its first write fails
if it is not; `Drop` ends a request after any of its calls (an error, a refusal, a client that
went away). A copied tree gets its ids in the order in which `copy_tree` inserts the rows inside
one transaction (`Before`, `CopyId`). **Library** adds to it definitions and their types, the
session's patches and how they are promoted, whole packs and templates that are deleted or
imported, and the media library, where a row and a file are two steps. An import inserts the
tree of its bundle whatever its depth, as the routes do, and deleting a node takes all that is
below it; `deep` remembers the owners that were given a tree of more than two levels, by an
import or by a copy.

**StateVars, PromptAssembly, PromptRequest** follow one turn through the core: declarations
and updates of variables, names and faces; triggers, rounds of activation, tags and comments;
segments before and after the history, injected parts, rules, merging and trimming.  They are
operators over a *scene*, the rows one request reads.  A text is a sequence of tokens, a
regular expression is a word with its replacement, a definition's place in the table is its id.

**Portable** is export and import: a document with local ids, the enabled part of a tree, new
ids and paths for what comes in, equal files stored once. **ReplyText** is edits of the card
shown last, and tool calls written in XML. **Providers** is both adapters: request bodies out,
and bytes (one character is two bytes, a line ends in a third) to lines to events to the text of
a reply in. **Tools** is the registry of a run and the calculator's parser over rationals (the
descent through sums, products and factors is one recursive function; the property evaluates the
same expression by its `postfix` form instead). **McpSetup** is MCP servers as they are kept
(secrets blanked and merged back), discovered (pages, names, limits) and registered under two
policies, with redirects and previews. The arguments of a call are a flat list of leaves, each a
path of keys and a text. **RunSettings** is the agent's settings, global and per session, and
the provider's, with the migration of their old keys. **Maps** says what an insert or an extend
leaves of a map.

**Algorithms** runs these on one input at a time: an input names its job, the action of that
job (`RunTurn`, `RunStream`, ...) gives the answer, and each property compares the answer with
a definition of its own (a least fixed point, an inverse, a count, a walk over the input).
`InputsAssumption` says what an input is: rows, messages and arguments as the program types
them; a text that is to stay hidden lies under a key the program calls sensitive.

What is abstracted: the texts of messages (the number of the edit that wrote one), the
workspace's text (the number of the write, 0 when blank), tokens (a number each message
carries; in ChatSession whether the threshold is crossed is left open), the `updated_at` of
rows, wording and logging everywhere.  Sessions share nothing in ChatSession but the process,
so one is enough there; Generations has two.

## 3. What the runs check

| Run | Instance | Shows |
|---|---|---|
| `generations` | 2 sessions, 3 requests | live streams stay registered, hence within reach of stop and replace and at most one per session, and SingleFlight is implemented |
| `chat` | 2 streams (send or regenerate), 1 client that deletes, unhides, switches or drops the session; storage calls that fail; `keep_recent` 1; 5 messages | the tree stays sound, replies sit at the end of the branch their prompt was made from, no message is left after `delete_session`, a summary stands for exactly the prefix of its cutoff, what a prompt leaves out of its branch is what its summary stands for |
| `chat_live` | 2 sends, plain and agent; `keep_recent` 0 | no two summaries of one cutoff, although both streams spawn the summarizer, unless one could not list the other; a claim is given back; a stopped stream ends |
| `agent` | 3 rounds, 4 calls in all, 2 identical rounds, at most 2 calls a round, patches of up to 2 replacements | an answer is earned and not blank, the fence and the budgets hold, revisions name texts for good, a stop ends the run, a run ends |
| `copies` | 1 copy of a session of 3 messages in any tree, 2 changes by clients, 1 failing call | a copied message hangs below the copies of what its original hung below, no batch of clones is refused, an answered copy has what it owes (a fork the branch and its swipes), digests refer to their own session |
| `library` | 2 requests of any kind; 2 templates, 3 packs, 2 sessions, 3 definitions, 2 uploads; two seeded databases; three bundles, two of them deeper than two levels | trees keep to themselves, and to two levels unless they were imported deeper; a template is materialized once, copies of trees of two levels keep their shape, a promotion keeps what the session saw; between requests that did not overlap, rows and files of the media library agree and no avatar in use is collected |
| `algorithms` | 100,000 inputs of 19 jobs | see below |
| `mcp` | 3 calls, the first two of an "ask" tool, 1 notification, either transport | nothing is sent without approval, answers belong to their calls, no request for approval outlives its call, every call returns |

Bounds. Three requests let a stream be superseded by one that is itself superseded; two streams
and a client give every pairwise race of a stream with a stream, of a stream with a client and
of the summarizer with both; five messages hold the seeded greeting, a turn with its reply and a
regenerated sibling or another turn (a regeneration hides what it replaces, so `unhide` is the
only change of visibility a client needs); `MaxToolCalls` 4 is crossed by a third round of two,
and `MaxIdentical` 2 by three equal rounds. A copy writes nothing but its own rows, so what
another copy could do to it a client's changes do, and one copy is enough; two changes are a
digest and a deletion, or one in the source and one in the copy. In `library` two requests are
every pairwise race; the seeds have what the races need (a folder after its member, a template
in use, a patched definition, a media file in use, and in the second a session that already has
its copy). In `mcp` two asked calls give an approval that is late for the first and comes while
the second waits, and the third call reads what the servers wrote for the other two.

`algorithms` has one property per promise, over families chosen so that its cases occur:

* `ActivationIsReach`: what is active is the least set that contains the constants, the rolled
  and what the scanned text or an active entry reaches within the rounds (five entries that
  name one another, depths, non-recursive ones);
* `OnlyEnabledContent`: every switch on or off in a tree with a folder, a pack and a
  one-of folder; no text of what is off is sent, what is on is said as often as it is placed;
* `RequestIsWhole`: histories of up to four messages and every window: nothing is lost or
  doubled in merging, roles alternate before the user's turn, trimming drops the oldest
  history and no more than it must (in messages without images);
* `UpdatesFollowSchema`: three sources that declare a variable with different types, replies of
  three updates, a reserved key that a session declares; a variable keeps its declared type, a
  list its bound unless it is set (the list that is set is longer than it), the panel shows what
  is stored;
* `CardEditsAreSure`: an edit is made where its text stands and could have been meant nowhere
  else, or the reply is shown as it is, for texts that do not overlap themselves (`card_edit`
  has one that does);
* `CallsSurviveXml`: calls and results that contain markup come back as they went;
* `ImportIsWhole`: trees of four rows and two levels in any order (deeper ones are imported in
  `library`), equal, missing and taken files, definitions that are there already;
* `ReplyIsWhatWasSent`: three lines of either provider cut once anywhere, with the last byte
  lost, an error, a stop;
* `BodyKeepsConversation`: tool rounds, late system parts, images and a summary in both bodies;
  with Anthropic the summary comes before all that is said, with OpenAI it ends the first system
  message, wherever that stands;
* `SecretsStay`: records with two secrets edited every way, arguments two levels deep, four
  redirects; no secret is lost by an edit that names the server it is put to, keeps its kind and
  names no key twice;
* `RunUsesSettings`: settings any client may have left behind, two calls on them, three steps of
  switching providers; a key that was typed for one source only and was not there before goes to
  no other (`OneSourceKey`);
* `ToolsAreSound`: two servers whose tools come close in name, two policies; every expression
  of up to three operators.

`CHECK_DEADLOCK FALSE` where the system may stop: all requests were served, the input was
answered, the run is over, or `MaxMsg` messages exist.

Every property of a passing run has a mutant in `PROJECT.json`: a definition changed the way
a bug would change it (marked `\* mutant` in the modules, next to the original), under which
TLC finds the property violated.

## 4. Fairness


* `ChatSession!LocalFairness`: storage calls return, a stop signal wakes the `select!`
  (`StopToken::cancelled`), an aborted stream is dropped, the summarizer task runs on (its
  provider call included), and the client of a stream reads on or goes away: a response body is
  polled no more while its client does not read. `ProviderFairness`, separately: the provider
  answers the request, with a stream or an error; chunks, and the end of the stream, are never
  promised. Without `ProviderFairness` a stop does not end a plain stream that waits for the
  provider to accept the request: `open_stream` is awaited outside the `select!`
  (`conversation.rs:533`).
* `AgentLoop!Fairness`: the run's own code goes on, a tool returns or is timed out
  (`tokio::time::timeout` around every call), the provider answers a request.  It need
  not end its answer, so `RunEnds` allows a run that reads for ever.
* `McpCalls!Fairness`: the timers of the broker and of the call fire and a decision that has
  arrived wakes its waiter.  The user and the server owe nothing.

## 5. What is proved

Seven modules hold the proofs about the models, `MessageTreeProofs` lemmas that two of them
share.  Every property that a passing run checks on Generations, ChatSession, SessionCopies,
AgentLoop, McpCalls and Library is proved, liveness excepted, and three of those it checks on
Algorithms.

**`GenerationsProofs`**, under `GenerationsAssumption` (`NoSlot` is no request's id):

* `TypeCorrect`: `Spec => []TypeOK`;
* `LiveRegistered`, `AtMostOneLive`: a stream that is neither aborted nor gone holds its
  session's slot, hence no session has two;
* `StopReaches`, `FinishEvictsItself`: two action properties;
* `RegistryImplementsSingleFlight`: the refinement.

The invariant is not inductive by itself: a stream keeps its slot through the `finish` of
another one only because ids are distinct, and they stay distinct only because every id is
below the counter.  So `Inv` is `TypeOK`, `IdsBelowCounter`, `IdsDistinct`,
`SlotsHoldTheirOwn` (a slot names a stream of its own session) and `LiveIsRegistered`;
`InvInit` and `InvStep` prove it inductive with a step per action, and the refinement maps
`Install` to an `End` of the old holder together with a `Begin` of the new one, everything
else to an `End` or a stutter (`StepMaps`).

**`ChatSessionProofs`**, for any number of streams, clients and messages, any `keep_recent`:

* `TypesHold`: types, the foreign key, ids in the order of creation;
* `TreeSoundHolds`, `ReplySitsOnItsPromptHolds`, `SummaryIsPrefixHolds`,
  `SummaryFillsTheCutHolds`: the tree, where replies sit, what summaries stand for and what a
  prompt leaves to them;
* `NothingAfterDropHolds`: no message is left of a deleted session;
* `OneSummaryPerCutoffHolds`.

What a stream, a summary or a prompt holds was read long ago, and the messages may be gone. So
the argument goes by the tree of all messages ever created, of which the table is a part closed
under parents. `History` says that such a tree exists, that branches that are held are paths in
it and that summaries, stored or in the making, stand for the whole path of their cutoff; an
insert is a step to a larger tree (paths stay as they were, `SamePaths`), a deletion keeps the
tree. A prompt that was cut carries its summary along (`sent`), so that what it leaves out and
what that summary stands for are compared at the moment it is built. `CutoffInv` says that the
one task between claim and release plans a cutoff that no stored summary has, unless it is
`blind`.

**`SessionCopiesProofs`**, for any number of copying requests, client changes and failed calls:

* `CopiesAreSoundHolds`: no batch of clones is refused, and copied messages hang below the
  copies of what their originals hung below;
* `AnsweredCopyIsWholeHolds`: an answered copy has what it owes, a duplicate or import all that
  was listed, a fork the branch and what hangs directly on it (which is less than the source's
  tree, see section 6);
* `DigestsStayHomeHolds`.

A request is `Early` (nothing refers to its session), `Empty` (the session is there, the copies
are not) or `Full`.  `Mirrors` (a copy that is there hangs where it was put) survives whatever
clients do, and `PathsAreKept` derives the paths from it, by the first copied message whose path
would differ.  The insert is safe because every copied message's parent is copied and `Earlier`
(`BatchIs`: the path of a fork is closed under parents, and what is not on it hangs from it).
Ids are sessions and ages in the model, and random in the code; that they are as fresh is
`Descent`: every age was written in one session, and messages only go to sessions created later.
It is needed because a duplicate lists its source after its own session has appeared, and it
is what lets one copy be made of another, which the run's single request does not.

**`AgentLoopProofs`**, for every bound on rounds, calls and edits:

* `TypeCorrect`: `Spec => []TypeOK`;
* `AnswersAreEarned` (`AnswerIsEarned`): the run finishes with a text that is not blank, by a
  `finish` all of whose predecessors in its round succeeded;
* `TheFenceHolds` (`FenceHolds`): nothing of a round is executed after its `finish`;
* `RevisionsNameTexts` (`RevisionNamesText`): a changed workspace has a new revision, and the
  call that changed it is not answered as failed;
* `LimitsAreKept` (`LimitsHold`), of which `RepeatsEnd` is a part: no more calls than
  `max_tool_calls` are executed in all, and the same calls in no more rounds in a row than
  allowed.

The first two rest on what holds in the middle of a round: `ResultsAreCounted` (as many
results as calls answered), `FlagIsRight` (unless the flag is set, every result so far is a
success), `NoFinishYet` and `FinishIsClear` (where a `finish` may stand among the calls).
`RepeatsEnd` rests on `LastIsCompared` (a round is compared with the last of the history) and
`RunIsCounted` (the counter is at least the length of the run of equal rounds), the budget on
`BudgetInv`: the calls of all rounds of the history, added up by a recursive function over the
rounds, are what `total_calls` counted, unless the run has failed.

**`McpCallsProofs`**, for any number of calls and notifications:

* `AnswersHold` (`AnswersMatchCalls`) and `NoZombieRequests` (`NoZombies`), whatever ids the calls
  have;
* `ApprovalHolds` (`SentOnlyIfApproved`), under `IdsDiffer` (no two calls of the run have the same
  id).

`Inv` adds to the first two `Typed` and `OneAtATime` (as many results as calls that are over,
and the latest request is for the call that reads); only one call is ever pending, so ids do not
matter to it. `Approval` adds to the third `ReplyIsForWaiter` (what the waiter is told was
decided for the call that waits), and that is what `IdsDiffer` gives. Without it
`SentOnlyIfApproved` does not hold; see section 6.

**`LibraryProofs`**, for any number of requests, owners, definitions and uploads, from any sound
database, under the assumptions that ids of different tables differ:

* `OneCopyHolds`: a template or pack is materialized into a session once, also by requests
  that race;
* `CopyKeepsShapeHolds`: what is inserted is the tree that was read, if that has two levels (ids
  grow along the order in which rows are copied, so a member finds its folder);
* `TwoLevelsHolds`: rows are well formed, no foreign key dangles, every row's parent is a row of
  the same tree, and in a tree that no import or copy made deeper everything stands at the root
  or in a folder there;
* `PromoteKeepsEffectiveHolds`: a promotion keeps what its session saw;
* `MediaIntactHolds`: as long as requests do not overlap, rows and files agree and no avatar in
  use is lost.

`TwoLevels` is not inductive, because requests write what they decided on earlier reads.
`TreeInv` says what stays true of that: the folder a row will go to may be gone by now, but
while it is there it is a node of the same owner (`Placed`), since no step changes a row's kind
or owner or gives out an id twice (`Steady`). `LevelsInv` says the rest for owners that are not
`deep`: it is a folder, at the root. A snapshot that is not stale still counts the copies that
are there, which is why the transaction that inserts one finds none. `TablesInv` does the same
for patches, definitions and packs; `MediaInv` says what each request is about to do with its
file.

**`MessageTreeProofs`** computes `PathTo` and `DeepestLeaf`, which are recursive functions, for
every tree.  Here and in three other modules the argument is by `Least` (from the library's
`WFMin`): a claim that fails for some number fails for a least one.

**`AlgorithmsProofs`**, for inputs of any size under `InputsAssumption`, `SettingsAssumption`
(the hard limits fit 32 bits, the default block keeps them), `McpAssumption` and
`StateAssumption` (the limits are positive numbers) and `ReservedAssumption` (the system's own
variables begin with `$`):

* `RequestsAreWhole` (`RequestIsWhole`): joining turns of one role loses, doubles and reorders
  nothing, roles alternate before the user's turn, and trimming drops the oldest history, no
  more than it must;
* `RunsUseSettings` (`RunUsesSettings`): whatever is stored, a run keeps its limits and uses the
  block that is shown; the key last typed for a source is the one it is sent, and a key that was
  typed for one source only, and that no setting held before, reaches no other;
* `UpdatesFollow` (`UpdatesFollowSchema`): whatever tree, packs and session declare and whatever
  a reply or a panel sends, only declared variables that are not reserved change, each has the
  type of its last declaration, numbers stay finite and nothing is added to a full list;
* `ServersKeepSecrets` (`SecretsStay`): what is shown of a server holds no secret; an edit
  touches no record but the one its body names, and loses no secret if that is the server of its
  path, of the same kind, with no key twice; a redirect takes none elsewhere, a preview shows
  none.

The invariant is short (`Computed`: an answer is what the operation returns for the input,
`EveryAnswerComputed`); the work is in the operations, nearly all of them folds. A fold is
computed once for every step (`Step`, `Iter`, `IterRuns`): what it has after none, one, two ...
members is a run of its step (`Runs`), and each fold of the model has a lemma that names its run
(`CalledFold`, `JoiningFold`, ...). What holds along a run is proved from the least place where
it would fail. For settings that is `CallFacts`, a fact per route: what is stored keeps its
types, though not its bounds, which is why a run bounds it again (`Sanitized`), and a valid
block that is shown is the one in force. For keys it is `KeysApart`, about keys typed for one
source only that were not there before: migration copies flat keys into every source. For
requests `Told` says what a sequence of messages tells, and `Joined` that joining tells the
same; how much is trimmed is a place in the history (`CutAt`), found on the weights of its
beginnings (`Upto`). For variables there are two runs, one in the other: declarations are merged
source by source and one by one, and `Says` keeps that the schema has the type of the last
declaration so far; then `Kept` holds after each update, by `ChangedFits`, which goes through
the six actions. `RealTurn` assumes of declarations and updates what their parsers return (types
that exist, lists that are lists, finite numbers), since `SelectSeq`, which picks them, is
nothing the provers can compute; TLC evaluates it for every input.

What stays with TLC: liveness under fairness (`StopEnds`, `ClaimReleased`, `RunEnds`,
`EveryCallReturns`), which is out of the prover's reach, and eight properties of
Algorithms.

* `ActivationIsReach`, `OnlyEnabledContent`, `ToolsAreSound` and `ImportIsWhole` compare
  recursion over data (rounds of activation, a tree's rows, expressions, documents) with a
  reference that is defined over the same data: their proofs are inductions over it.
* `ReplyIsWhatWasSent`, `CallsSurviveXml` and `BodyKeepsConversation` are about wire formats, each
  an encoder followed by a decoder that are recursive over texts.
* `CardEditsAreSure` is about places of one text in another, of which the matcher finds some, by
  recursion over the text.

## 6. Where the code and what is said of it part

Four runs end in a counterexample; each checks a statement of the repository.

* `stale_approval`: the broker's comment says that stale decisions are rejected
  (`mcp/authorization.rs:3-5`).  A call in XML without an id of its own is numbered within its
  reply, so the next round has a call of the same id, and a late approval of one releases the
  other.
* `utf8`: `read_bounded_line` reads "one newline-framed message up to `cap` bytes"
  (`mcp/stdio.rs:35-36`), but decodes each buffer by itself: a character that straddles two
  buffers fails the call.
* `card_edit`: a text to find "that occurs more than once (or not at all) is ambiguous, so bail
  rather than edit the wrong occurrence" (`html_patch.rs:140-141`). `match_indices` gives
  matches that do not overlap, so a text that stands twice across itself counts as one (two
  equal rows in a run of three), and the first place is edited.
* `lost_edit`: a comment in `regenerate` says that it hides the old reply.  It writes back a
  clone taken before the provider was asked, over an edit made meanwhile.

Further divergences and corners that the models contain, or that were met while writing them,
and that no run isolates:

* a stop is said to save the text so far (ARCHITECTURE.md:251); the client aborts its own fetch
  right after (`stores/chat.ts:275-276`), and the stream is dropped before it persists;
* going back is said to be switching the active leaf (ARCHITECTURE.md:633); a regenerated reply
  was hidden and stays hidden (`conversation.rs:686`, `852-854`), so the next prompt lacks it;
* the abort route says the stream persists and ends (`chat.rs:168-170`); see section 4;
* a fork is said to clone "the full history" (README.md:79) and to capture "the full branching
  history" (`messages.rs:142-144`); it copies the path and the messages whose parent is on it
  (`messages.rs:147-156`).  Turns that follow a swipe stay behind, and so does a second root;
* a fork is said to open on the copied leaf (`messages.rs:119-121`); it opens on the newest
  descendant (`messages.rs:197`);
* a turn that was hidden when it was folded and is shown again later is in neither the summary nor
  the prompt; a summarizer that cannot list the summaries folds from the start again
  (`summarize.rs:69`), and `create_summary` can still append after `delete_session` (its table
  refers to no session);
* a stream whose client stops reading is polled no more, so what an abort or a stop has asked of
  it happens when the client reads on or goes (section 4 assumes that it does);
* a client that disconnects leaves a stale slot behind; the next request replaces it;
* a turn whose generation failed stays in the database; a summary is not made anew when a turn
  it covers is edited; a copy that fails leaves an empty session;
* the nodes of any pack count as a session's own, so a second mounted pack is not copied;
* bundles: a pack that names a parent the import skipped is refused whole; the import routes
  store any nesting (`import_export.rs:193-242`, `383-434`), although `portable.rs:40` has it
  that "the 2-level API prevents" a cycle of parents; where an import put a folder below a ref,
  a `PUT` can make one; copies insert roots first and the rest by place (`sqlite.rs:85`,
  `1002`), which is right for two levels only: in a deeper tree a row that comes before its
  folder moves to the root;
* the flat provider key of old installations is copied into every source that is switched to
  (the settings page writes an empty key first, which hides it), and a migration may overwrite
  a key written meanwhile;
* a global regex rule that a node refers to as well is applied twice, although the comment calls
  the two sets exclusive (`conversation.rs:227-228`); merged turns keep the images of the first
  only;
* keywords are said to give "a set of IDs that match any of the keywords" (`keyword.rs:35`);
  `find_iter` (line 40) gives matches that do not overlap, so a keyword across another one's
  match is missed. A patch of the agent's workspace looks for its places like a card edit
  (`agent_loop.rs`), with the same corner;
* stored settings are cut to 32 bits before they are bounded (`as u32`); an agent override is
  saved before it is validated with the global one and then answered with an error; the
  session route shows an imported override as it is, while a run bounds it;
* a summary is appended to the first system message of an OpenAI body wherever that stands
  (`openai.rs:94`), which is after the conversation if the request has only a late one; the
  Anthropic adapter drops an image that is not a base64 data URL (`anthropic.rs:51-57`; none is
  made);
* MCP: the path names the secrets and the body the row that is written
  (`routes/mcp.rs:141-165`): put to one server's path, a body that names another replaces that
  one's record and fills it with the secrets of the first (the user interface never sends one);
  of two headers with one name the second loses its secret on an edit; a notification before the
  answer fails a call over HTTP; two redirects are followed, not three; `http://[::1]` is
  refused;
* a `set` stores a list of any length, although the constant is called the upper bound on the
  length of a list (`state.rs:293-296`): only `append` looks at it;
* Anthropic bodies may begin with the result of a call that a summary has cut off; a stream's
  last line without an end of line is not read; the calculator takes `-2^2` for 4.

## 7. Not modelled, and the plan

* **Authentication** (`auth.rs`, `auth_password.rs`): password hashes and cookies over single
  storage calls; no interleaving of it touches the state of another part.
* **Shells** (`shirita-tauri`, start-up and routing of `shirita-web`): I/O.
* **UI chat store and the rest of the UI**: what it asks of the server (stop, then disconnect)
  is an input of ChatSession; its own optimistic turns are the next step of the plan.
* **Parts left out of what is modelled**: connection handling of providers and token usage,
  attachments on disk, the zip container, character cards of other programs, the seed, titles
  and the order of lists, random numbers and status texts of tools, the MCP handshake, the cap
  on the length of a line, and the listing of models.  `components` in `PROJECT.json` says so
  for each.
* McpCalls counts request ids from the first call, sends in one step, and has one run; another
  run has a session and a `run_id` of its own.

Next, in this order:

1. `ChatStore`: the client's store with optimistic turns and responses that arrive late,
   composed with the server's session.
2. `AuthSessions`.
3. A proof that a run's tools are those both policies allow (`McpSetup`), the next of the pure
   parts for which short inductions are enough.
