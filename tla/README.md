# Stuart, verified: TLA+ models and proofs of the ashby repository

The repository holds *Stuart*, a program that turns recordings of meetings and journals into
transcripts and evidence-backed minutes (`src/ashby/modules/meetings` with its doors in
`src/ashby/interfaces`), and *Ash*, a small home assistant core (`src/ashby/brain`,
`capabilities`, `control`, `devices`). Stuart carries the logic that is hard to get right: long
pipelines in daemon threads, while a web process cancels, renames, selects and deletes what they
work on, with nothing but files between them and no lock anywhere. This project models that
logic.

Paths below are relative to `src/ashby/modules/meetings` unless they say otherwise.

## 1. Inventory

| Part | State it keeps | Operations | Hard behaviour | What makes it correct |
|---|---|---|---|---|
| Run execution (`pipeline/job_runner.py`, `primary_outputs.py`) | status, progress, artifacts, errors, outputs of a run; the files of its directory; the thread's position | `run_job`: resolve, normalize, a loop over plan steps, thirteen checkpoints, sub-stages of a formalize step, three exits | cancel requests and deletions between any two steps; a crash, then a second invocation over the same files; any adapter may raise | nothing published past the truth gate; a timely cancel obeyed; success hands out everything, of one invocation; completed runs final; every started run ends |
| Run manifest store (`store.py`, `manifests.py`) | `run.json`, `events.jsonl` | `create_run`, `update_run_state`, `get_run_state` | whole-document load/change/save by several writers through one temporary name; crash between replace and append | readers see whole documents; a confirmed update stays; the log trails the manifest |
| Web API run control (`src/ashby/interfaces/web/app.py`, `runs.py`) | none of its own: the files of the other parts | start, cancel, rename, poll, delete, reformalize, transcribe | handlers run between the steps of the job threads | as for the parts it acts on |
| Session pointers and transcript versions (`session_state.py`, `transcript_versions.py`, `overlays.py`) | `session_state.json` (active version, active overlay, overlay of each version), version files, two indexes | set, seed, create, backfill, list, resolve, delete | unlocked read-modify-write by thread and handlers; pointers that outlive what they point to | the pointers agree with each other and with the files |
| Deletion (`delete_ops.py`) | none of its own | delete a run, a session, a transcript version (with cascade) | the run's thread is still working; a removal raises half way; the process ends in between | what is gone is neither found nor listed; a session leaves nothing; a run keeps the version it used |
| Search index (`index/`, `pipeline/search.py`) | five SQLite tables | ingest, refresh speaker maps, delete, search, list | transactions against directories that appear and vanish between reading and writing | no row without the rows it refers to; rows only of runs that exist; names of the right version |
| Alignment, transcript integrity (`pipeline/align.py`, `job_runner.py` 252-380) | transcript files of a run | time-overlap attribution, splitting, merging, integrity check | boundaries: empty, zero-length, overlapping segments; engines that are off or fail | every word kept once and in order, ids canonical, speakers heard, no placeholder in a strict run |
| Templates (`template_registry.py`, `templates/`, `web/templates_api.py`) | a directory for each version | create, new version, delete, discover, load | written and deleted file by file while threads discover all of them, thrice a run | a run is formalized by the text it recorded; failures have a write, a deletion or a crash behind them |
| Export (`export/bundle.py`) | zip files | bundle a session or a run | runs go on while files are collected; names that do not say the formats; a crash in the middle of a zip | the bundle has what was there and asked for; what is answered can be opened |
| Uploads, input resolution (`web/uploads.py`, `input_resolver.py`) | temporary files, contributions | stream, register, resolve | awaits between chunks; temporary files that go by the name the client gave | a contribution is one upload, whole; a run's input is one that was recorded |
| LLM gateway and service (`src/ashby/interfaces/llm_gateway`, `src/ashby/modules/llm`) | queue of requests, the kept provider; receipts of a run | validate, ask a provider, answer; fall back, refuse, keep | a provider that never answers, clients that gave up, either process ending | the receipts explain the draft at every moment; a formalization ends |
| Profiles and gating (`src/ashby/core/profile.py`, `execution_gating.py`, `adapters/adapter_matrix.py`) | environment | select adapters | a remote call under a local profile | LOCAL_ONLY never leaves the machine |
| Truth policy (`truth/`, `src/ashby/core/truth`) | none | judge a draft against its evidence | reads transcript and names for itself, while speakers are renamed | nothing published that the evidence does not bear out |
| Chat (`chat/`, handlers in `web/app.py`) | none | search, hydrate, answer, add actions | what was found is deleted or indexed anew before it is cited | every citation was retrieved, every jump lands |
| Formalize, render (`formalize/`, `render/`) | drafts, pages, evidence maps | draft with or without a model, page, evidence map | each stage chooses its transcript by its own rule | tokens and anchors stand for the segments the draft was made from |
| Adapters (`adapters/`, `render/pdf_weasyprint.py`) | files | external engines | may raise at any time | external |
| CLI, router, plans (`cli_stuart.py`, `plan_builder.py`, `router/`) | none | build plans | clarification | plans the runner accepts |
| Telegram door (`src/ashby/interfaces/telegram`, `src/io/telegram`) | a flow per user, an inbox of files, prompts on the screen | file, mode, speakers, confirm, cancel | prompts stay on the screen; same names; replies lost; restarts | a recording is run once at the most and as confirmed |
| Ash core (`src/ashby/brain`, `capabilities`, `control`, `devices`, `core/router.py`) | lighting and heat sessions, pending questions, likings | utterances to device calls | what runs out or is taken away between two messages; commands that fail | what Ash believes of a lamp is so; no lamp touched that nobody meant |
| Observability, storage locator, schemas, UI, scripts | logs | | | not modelled, see section 7 |

How they interact: the web process calls `create_run`, then starts `run_job` in a daemon thread
(`app.py` 423) or as a background task; the CLI calls it in its own process. From there on the
thread and the handlers share only files: `run.json` (the thread writes, pollers read, the
rename handler writes), `inputs/cancel.json` (the cancel handler writes, the thread tests), the
session's pointers and version files (both write), the SQLite index (both write), and the run
directory itself (the delete handlers remove it). The handlers are coroutines without an `await`
inside, so they do not interleave with each other, only with threads and other processes.

## 2. Modules

| Module | What it is |
|---|---|
| `RunLifecycle` | abstract: the status of a run and the request that binds it |
| `RunJob` | one run: `run_job` statement by statement, invocation after invocation, with the web process beside it |
| `MCRunJob` | the plans the doors create, for TLC |
| `RunJobProofs` | invariant, safety and refinement theorems of `RunJob` |
| `AtomicManifest` | abstract: a document of which every writer owns a field |
| `ManifestFile` | `run.json` as inodes, names and open files |
| `MCManifestFile` | instances for TLC |
| `Invocations` | one run, invoked several times at once: its files and `run.json` |
| `MCInvocations` | two invocations, for TLC |
| `OverlapProofs` | invariant, safety and refinement theorems of `ManifestFile` and `Invocations` |
| `SessionPointers` | one session: `session_state.json`, version files and their two indexes under several run threads and the web process |
| `MCSessionPointers` | plans for TLC |
| `SessionPointersProofs` | invariant and safety theorems of `SessionPointers` |
| `SearchIndex` | the SQLite index as a value and its transactions as operators |
| `Library` | directories, documents and the index under threads, deletions, renames, faults and crashes |
| `MCLibrary` | an instance for TLC |
| `LibraryProofs` | invariant and safety theorems of `Library` |
| `Uploads` | uploads becoming contributions, and runs finding their input |
| `TemplateStore` | user templates, written and deleted beside the runs that load them |
| `TemplateStoreProofs` | invariant and safety theorems of `TemplateStore` |
| `ExportBundle` | bundles of sessions and runs |
| `StoresProofs` | invariants and safety theorems of `Uploads` and `ExportBundle` |
| `MCStores` | instances of those three for TLC |
| `Alignment` | from what the engines hear to a transcript version |
| `AlignmentProofs` | what aligning does to any transcript, and the safety theorems of `Alignment` |
| `Grounding` | draft, truth gate, page and evidence map, by what they cite and name |
| `LLMGateway` | runs and chat as clients of the gateway, with the provider behind it |
| `Chat` | from a question to an answer with citations and actions |
| `AshCore` | messages to the house, and its lamps |
| `StuartDoor` | the Telegram door of Stuart |
| `ServicesProofs` | invariant and safety theorems of `Grounding`, `LLMGateway`, `Chat`, `AshCore` and `StuartDoor` |
| `MCServices` | instances of those six for TLC |

### RunJob and the code

`pc` is the statement of `run_job` the thread is about to execute; its labels carry the names of
the pipeline operations, and `chk_...` is the `_raise_if_cancelled` in front of one. `th` holds
its locals (`sub` is `sub_i` of `bump`, `sel` is `selected_trv`, `used` is
`consumed_transcript_version_id`, `reused` is `did_reuse`). `run` is `run.json`; `dir` is the
run directory, where `dir.wrote[f]` is the number of the invocation that wrote file `f` (0:
absent), `dir.stamp` the version id inside the transcript, `dir.draft` the version the minutes
were made of and `dir.gate` the verdict in the gate report. `ses` is the session: versions on
disk, the active pointer, and the ids ever minted.

Each operation of the pipeline is one action: it raises `FileExistsError` when a file of its own
is there (the write-once rails), else writes and records its files (`Produce`). At every such
label `AdapterRaises` writes some of the files and raises, and `Crash` writes some and kills the
thread. `CancelRead` and `CancelWrite` are the two halves of the cancel handler. Two variables
only observe: `timely` says that a checkpoint lay ahead when the receipt was written, or that
the run was invoked again after it.

Abstractions, each towards more behaviour or explained here: the content of files is what the
properties distinguish; a failed adapter may have written any subset of its files;
`update_run_state` is one step (the thread is the only writer here, ManifestFile has the
others); emitting a transcript version (file, index lines, overlay seed, active pointer) is one
step here and taken apart in SessionPointers; the speaker overlays, the digests of artifacts,
search results and run directory deletion are not in the state.

### ManifestFile and the code

An update is `LoadOpen`, `LoadRead` (`load_manifest` and the assignments), `OpenTmp` (`open(tmp,
"w")`: creates or truncates), `CloseTmp` (`json.dump`, close), `Replace` (`tmp.replace(path)`)
and, for `update_run_state`, `AppendEvent`. `content` belongs to inodes, so that a file that is
open keeps its content when its name moves on. An inode that two writers had open at once is
`mixed`: what the last close leaves there is its own document, or a mixture `json.load` rejects
(`Torn`), according to the lengths of the two. A poll is two steps, open and read. Power loss (a
rename without `fsync`) is outside the model: a crash is the death of a process.

### Invocations and the code

The web process runs `run_job` in a thread, `stuart go` in a process of its own; nothing but the
files keeps two of them apart. `inv[t]` is where invocation `t` is and its locals. `Invoke` is
the test of the status (`job_runner.py` 525), which no later line repeats. Then come the files,
`Receipt` to `Pdf`, in their order. For each, `Test` is the `exists()` of its stage, `Work` what
is read and made between that and the write, `Test` again the second look of `dump_json` and of
the transcriber where there is one (`Rechecked`, `Retests`), and `Put` the write. After every
file its artifact is recorded: `Load` and `Save` are the two halves of `update_run_state`, and
`Save` may rename over `run.json` what another invocation has put into the temporary file they
share. `Finish` is `get_run_state` and `build_primary_outputs`; `Fault` raises, inside the `try`
or before it. A file is the number of who wrote it and whose draft it is made of.

Three variables only observe: `raced` has the files that two had found missing when one was
written, `overlaid` says that a save replaced what its load had not seen (or was another's),
`allowed` has the drafts a gate has let pass. `raced` and `overlaid` are the exceptions in the
properties: the code has no lock, so each holds up to a window, and the window is named.

Abstractions: the plan is one formalize step without diarization, with or without audio, and
nobody cancels (`RunJob` has the other plans); a process that dies is an invocation that takes no
more steps; appending to `events.jsonl` succeeds; stamping a transcript with its version is no
write of its own; `fts_ingest.json` and the text page go the way of files that are there; what an
unreadable manifest does inside a save is in `ManifestFile` and a `Fault` here.

### SessionPointers and the code

`state` is the document in `session_state.json`: the active version, the legacy overlay pointer,
the overlay of each version (`Unset`: no entry) and whether a title was set; `Torn` is the empty
file `write_text` leaves between truncating and writing. `Loaded` is the repair
`load_session_state` makes, and `WithActive`, `WithActiveOverlay`, `WithOverlayOf` and
`WithSeed` are what the setters make of a loaded document. A thread goes through `Load`, which
fails the run on a torn file, and a save step; a handler through `AskActive`, `AskMap` or
`AskTitle` and a save step. Between the two, other threads act: the handlers are coroutines
without an `await` inside, so no other handler does. `TruncateState` and `WriteTitle` are the
two halves of the title handler's `write_text`; if a thread replaces the file between them, the
title goes to the file that has lost its name (`orphaned`). Saving otherwise is one step
(`ManifestFile` has its parts).

`Mint`, `AppendIndex` and `AppendLookup` are the three writes of `create_transcript_version` in
a run's thread; `Backfill`, `BackfillIndex` and `BackfillLookup` are the same three in a
listing, which notes the runs that are represented (`AskList`) and then goes through the runs,
while their threads go on. The process may end between any two of them. A run's step is its
`plan`: it transcribes, formalizes, copies another run's transcripts, sets a speaker map, or
ended in a release that had no versions. `text` holds the runs with a transcript in their
directory, which is what a backfill looks at: it therefore also makes versions for runs that
copied their transcript or were given a version to work from. What a run does after its pointers
are set is one step, `Work`. `want`, `asked`, `titled`, `overlap`, `deleted`, `raced` and `cut`
only observe; `cut` has the versions whose writer, a run or a listing, was between its two index
lines when the process ended.

Abstractions: the web process is the only one that handles requests; a deletion with cascade and
the refresh of the search index after a new map are in Library.

### SearchIndex, Library and the code

`SearchIndex` has one operator for each transaction of `index/ingest.py` and `sqlite_fts.py`
(`Ingested`, `Refreshed`, `WithoutRuns`, `WithoutSession`) and one for what each door reads
(`SearchHits`, `ListedSessions`). A table is the set of runs or sessions with rows, together
with what the properties tell apart: the status of a run, the file its segments came from.

`Library` composes it with the directories. `disk` is `runs/<id>`: whether `run.json` and the
transcript are there, and the document's status, consumed and produced versions. `ses` is
`sessions/<id>`, `kept` the contribution and overlay directories. A thread (`pc`, `held`) goes
through the steps that other runs or the index can see, each load and each save of `run.json`
apart: a save makes the directories it needs, which is how a deleted run comes back. The web
process handles one request (`op`) at a time, but each removal of a tree and each transaction is
a step of its own between those of the threads, and `Abort` makes it raise half way.
`delete_session`, `delete_run`, the cascade (`Dependents` is
`list_run_dependencies_for_transcript`) and the refresh after a speaker map follow the order of
the calls in `delete_ops.py` and `app.py`. `excused` observes which runs raced with a request,
and how; each property names the kinds it admits. A run makes at most one version here, so that
versions go by their run.

### Uploads, TemplateStore, ExportBundle and the code

`Uploads`: `tmp` is the temporary file that goes by the client's name, place by place. `Open`,
`Chunk` and `Add` are the parts of `store_upload` between its awaits; `Body` is
`store_upload_bytes`, which has none. `Add` and `Record` are the two halves of
`add_contribution`, between which only a thread can look (`Resolve`).

`TemplateStore`: `tree` holds the version directories by how much of each is there. `Create` and
`NewVersion` make a directory, `Fill` writes its files one by one, `Remove` and `EndDelete` are
`rmtree`. A thread loads thrice (to record the version, to validate, to formalize), each time
discovering all templates of the mode (`Scan`, `LoadAll`) before it picks and reads its own.

`ExportBundle`: an export collects versions, then runs, then creates, writes and closes a zip. A
zip's name says session and type; the web door answers with one that exists, the command line
refuses. A run's files are looked up one after the other (`LookUp`) and read together
(`ReadRun`). The bundle of one run lists files first and reads them while it writes. `during`
observes what was deleted while an export was under way, and which zips two wrote at once.

### Alignment, Grounding, LLMGateway, Chat and the code

`Alignment`: a text is the sequence of its words. `SplitCounts` is `_split_text_by_weights`
(largest remainders, then donations), `AlignOne` is `_align_one_segment`, `Merged` and
`Renumbered` the rest of `align_transcript_time_overlap`. The actions are the stages of a run up
to the minting of a version; what the engines hear is chosen, and each may be off or fail. A
loop of the code that carries something on is a function of the number of elements it has gone
through, defined by recursion on it (`Sums`, `Compact`, `Merged`, the counts in `SplitCounts`), so
that what it does can be proved; a sort is by rank (`Before`, `Ahead`). Shares are exact
fractions; the code's are floats. `Aligned` was compared with the Python functions on 600 random
transcripts and gave the same segments each time. An earlier form of it, written with folds, did
not when shares were donated; none of the recordings of the run could show that.

`Grounding`: a draft is the set of its items, with what each cites, and of its people. The
stages open the transcript by rules of their own, which is what the module is about:
`FormalizeReads`, `GateReads`, `RenderReads` and `MapReads` are four functions of the code, and
`Blocks` is the policy. The evidence map looks for the mode at the top of `run.json`, where
nothing writes one, and so takes every run for a meeting's: it prefers the aligned transcript,
and a journal's map is one claim of the transcript's ends (`Claimed`). `Rename` makes another
speaker map the active one between any two stages.

`LLMGateway`: a run writes receipts and answers file by file (`Write`). The gateway serves one
request at a time, because its handlers call the provider without an `await`; a client that gave
up leaves its request in the queue. A draft without a model is `DraftAlone`, which fails for the
runs in `Bare`: the deterministic journal of a transcript without segments cites segment 0, and
its own guard refuses that. `provider` and `keyed` are the module-level provider and the
environment. Either process may end at any step.

`Chat`: `Search`, `SearchEverywhere`, `Hydrate`, `ModelAnswers` (or `ModelFails`,
`NothingFound`) and `Augment` are what a chat handler does in order; `IndexRun`, `DeleteRun` and
`DeleteVersion` are done by threads and other processes meanwhile.

### AshCore, StuartDoor and the code

`AshCore`: a message is what `extract_intent` made of a text, and the phrases the handlers look
for. `Meant` is what it becomes in a session or after "which lights?"; each action is one way
through `handle_text`. A command is two calls to a lamp, of which one may fail, or the answer
may be lost, or an exception may be raised. `last` observes whose command was the last to each
lamp, if it went through, and how the message named the lamp.

`StuartDoor`: `flow` is `user_data["stuart_door_state"]`, `inbox` the files on disk, `onscreen`
the kinds of prompts that were ever sent: their buttons stay. The handlers are actions of the
same names; `shown` observes the newest prompt of each user.

## 3. Runs

| Run | Bounds | Shows |
|---|---|---|
| `doors` | 2 invocations, 1 crash, 13 plans, versions t1 (existing) and t2 (emitted), active pointer t1 or none | for every plan of a door, with cancel, selection and deletion between any two steps: `PublishedOnlyPastGate`, `CancelHonoured`, `OutputsComplete`, `SingleInvocationOutputs`, `CompletedIsFinal`, `ProgressNeverBackwards`, `LifecycleSpec`, the refinement of RunLifecycle, and, with fairness, `StartedRunsEnd` |
| `manifest` | 1 writer, 2 readers, 3 updates, 2 crashes, 4 inodes | `ManifestWhole`, `LogFollowsManifest` and `AtomicSpec`, the refinement of AtomicManifest |
| `pair` | 2 writers, 2 updates each, 1 crash, 4 inodes | `TornNeedsOverlap`: a manifest that stays unreadable comes from overlapping writes or a crash, from nothing else |
| `twice` | 2 invocations, with or without audio, a fault wherever one may be | `SuccessIsOwn`, `OnlyAllowedPublished`, `SavesExplained` (`OutputsKept`, `RestIsTerminal`), `ReceiptExcludes`: what the write-once files and the receipt guarantee when a run is invoked twice at once |
| `pointers` | 3 runs in 5 plans, 3 versions, 1 overlay and the null one, 2 requests, 1 restart | `PointersAgree`, `RequestsKept`, `ActiveExists` and `ListingTrue` (what is listed can be opened, unless the process ended between its index lines; a run has two versions only after listings that overlapped it) |
| `library` | 1 session, a run that succeeded and a new one in 3 plans, 3 requests, 1 fault, 1 crash | `TablesConsistent`, `DeletionsWhole` (its parts: `GoneRowsExplained`, `SessionGone`), `ConsumersKeepTheirVersion`, `NamesFollowVersion` |
| `stores` | 3 uploads of one name, one of them whole, a pinned and an unpinned run, 1 stop; 2 titles, 3 template versions, 1 run, 1 crash; 3 requests, 2 exports, 1 crash | `ContributionsTrue`, `InputsRecorded`; `FailuresExplained`, `TextsKept` (`LineageKept`, `NeverOlder`); `AnswersWhole`, `FreshAnswersComplete`, `BundlesFull` |
| `services` | 5 recordings with every subset of 6 turns; 10 pairs of transcripts, 3 speaker maps, 11 answers of a model; 2 runs, one of them a journal without segments, and a chat at the gateway, 1 stop; 5 segments, 5 questions, 2 changes; 2 users of 2 lamps, 17 messages, 3 of them sent, silences of 11 and 31 s; 2 uploads of one name, 5 presses | `AlignmentFaithful` (`WordsKept`, `IdsCanonical`, `SpeakersHeard`, `StrictNeverPlaceholder`), `PublishedGrounded` (`CitationsTraced`, `AnchorsTraced`, `NamesBacked`), `FallbacksExplained`, `FormalizeEnds`, `ChatGrounded` (`CitationsRetrieved`, `JumpsLand`), `BeliefsExplained`, `CommandsMeant`, `RunsAsConfirmed` |
| `invoked`, `extract`, `torn`, `back` | the smallest that shows it | section 6 |

Why the bounds are enough. A plan of the doors has at most one formalize step, so one existing
and one emitted version are all a run can meet. Two invocations with a crash between them reach
every combination of files left behind and files found, because the first invocation may stop at
every label; a third finds what a second finds, or less. One cancel request is enough because
the receipt is never removed and a second one changes nothing. Inodes are reused when no name
and no open file refers to them, so four serve two readers, `run.json` and `run.json.tmp`. In
`pointers`, two documents that are saved over each other need two actors: each plan has two
threads at work or one beside the handlers, and a run of an older release for the backfill.
Three versions are one that was there, one that a run makes and one that a listing adds; one
overlay and the null pointer tell a kept from a lost map. The versions are interchangeable (the
set of plans names all of them alike), hence the symmetry. All runs switch the deadlock check
off: a run that completed, with its bounded numbers of invocations and updates used, really
stops.

In `twice`, every window is one between two actors: a file is found missing by two, a document
is saved over what one other has saved; the theorems hold for any number of them. The
invocations are interchangeable, hence the symmetry.

In `library`, a new run beside an old one is enough for each race of a deletion with a thread;
three requests let one name speakers or move the active pointer before and after a deletion. The
plans are a run that transcribes, one whose plan names the version it works from, and one that
takes the active version, which no plan shows. A fault and a crash together leave what two
faults would. `stores` and `services` check several modules at once: since these share neither
variables nor files, one of them (`scenario`) moves in each behaviour, and their states add up
instead of multiplying. Three uploads of one name are needed for one that overlaps two; two
template versions and one deletion for an id that is used again; two exports for an answer with
another's zip. The recordings have gaps just under and over the merging distance, segments of no
time, and words that do not divide by the weights; the subsets of the turns have none, one and
several speakers, dominant or not. The silences are just over the two timeouts of the house. Two
members with one file name are what the door's inbox confuses.

Every property is paired with a mutant, a slip in the code it is about that it must catch, among
them: an unclamped sub-stage counter, the gate skipped, the last checkpoint dropped, artifacts
overwritten, the manifest written in place, the event logged before the replacement, the active
version changed without its overlay, rows that a deletion keeps, a cascade that looks at outputs
only, names that are not taken out, a temporary file that is not truncated, a file written
without a look, a failure that is swallowed, a zip answered with before it is written, merged
segments that keep their ids, a stage that prefers the wrong transcript, a failure without its
receipt, a timeout that only a served request has, citations that are not looked up, a session
that does not run out, a choice that is shown and not kept. The mutated definitions stand before
those they replace, marked `mutant:`.

## 4. Fairness

`FairSpec` adds weak fairness of `Thread`, all steps of the executing thread together: a daemon
thread that has been started is scheduled, and the engines it calls return or raise. The code
has no timeout of its own around an engine, so that an engine that hangs hangs its run; that is
an assumption about the engines. Nothing is assumed of users, of crashes or of a second
invocation. Since fairness is of the disjunction, TLC may choose failure at every step;
`StartedRunsEnd` holds because every exit records a status.

In `LLMGateway` (and `services`, where it is restricted to that scenario) each run's own steps
and its timeout are weakly fair: the thread is scheduled, and the HTTP client's clock runs.
Nothing is assumed of gateway and provider: `FormalizeEnds` holds although neither may ever
answer. The other specifications state safety only and assume no fairness.

## 5. Proofs

Checked by TLAPS for all values of the constants that satisfy the modules' assumptions: any set
of plans, any versions, any number of invocations, requests, faults and crashes, of readers,
inodes and updates, uploads and presses.

`RunJobProofs`. The invariant `IInv` is `TypeOK /\ ThreadInv /\ GateInv /\ CancelInv`. None of
its parts is inductive alone: that the gate has allowed the draft is kept by a rendering step
only because of where the thread is (`GateInv`), where the thread is determines the step index
that `Cur` is read at (`ThreadInv`), and a receipt obeyed at the next checkpoint stays obeyed
only if a step cannot pass the last one with a timely receipt (`CancelInv`, which relates
`PastLastCheck` to the receipt). The proof has one lemma for each kind of step; `Invariance`
combines them; `TypeCorrect`, `GateBeforePublish` and `CancelObeyed` follow; `CompletedStays`
and `RefinesLifecycle` are proved step by step under the invariant.

What a run has to show for itself rests on a second invariant, `ResultInv`, inductive together
with `IInv`. `KindInv`: at which labels the step at hand formalizes, and whether it copies its
transcript. `LeadInv`: no file is in the directory without one of those that the first
operation writes (`Lead`: the resolved input of an audio plan, else the transcript or its copy),
so that a thread which has got past that operation found the directory empty; without it,
`SingleInvocationOutputs` is not inductive, since an invocation that finds files might add its
own. `OutputInv`: how far a formalize step has come, which version its transcript and draft can
be traced to there, what it has recorded, and that every formalize step passed has delivered.
`ProgressInv`: what is shown is at most what the next report will say, which needs the
arithmetic of `bump` (lemma `ProgressFacts`) for any number of steps.
`EverythingHandedOut`, `OneInvocation` and `ProgressAdvances` follow.

`OverlapProofs`, of `ManifestFile`. Under the assumption `OneWriter` (at most one writer, the
case of a run nobody renames) `IInv` is `TypeOK /\ FilesInv /\ UpdateInv`: the temporary file is
never the published one and only its writer has it open, and a document in memory is one update
ahead of the published one. `AlwaysWhole`, `LogBehind` and the refinement `RefinesAtomic`
follow. Without the assumption they are false; the run `torn` shows how. What is left for any
number of writers is `TornExplained`, by `SharedInv`: at every moment, a torn file is still
being written, or two had it open at once, or a writer died.

`OverlapProofs`, of `Invocations`. For any number of invocations, the types and the four
properties of them that `twice` checks. `Inv` has besides them where an invocation can be
(`FlowInv`). `OwnInv` and `RaceInv` carry `SuccessIsOwn`: a file that an invocation has passed
is its own or raced, and a file that is there and that it will still write is raced; either
alone is not inductive, since a `Put` of one invocation changes what the other has found.
`GateInv` says, unless two wrote the draft, that it has been allowed once anyone is past the
gate, and so has every draft in hand for a page. `HoldsInv` makes the receipt a lock: whoever
saves anything has written it or it is raced, so that it has one holder; by `EndedInv` a
completed run, and a loaded document that is one, has a holder that has ended, so that no save
is left to change it (`ReceiptDoesExclude`). `SavesInv` relates documents: as long as no save
has overlapped another, `run.json` has every artifact that was recorded (`KeptInv`) and a status
that the places of the invocations explain (`StatusInv`), which gives `SavesAlwaysExplained`.

`SessionPointersProofs`. For any number of threads, versions, overlays, requests and restarts,
`TypeCorrect`, `PointersAlwaysAgree` and `RequestsAlwaysKept`. `PointersAgree` speaks of the
file and of every snapshot, because an old snapshot may be saved at any time; what makes it hold
is the repair in `load_session_state` (lemma `LoadedFields`: after it the active version has an
entry), without which seeding could give the active version an overlay that the legacy pointer
does not show (`WithSeedFields`). `RequestsKept` is not inductive: that seeding loses no
requested map needs `SeedInv` (a thread about to seed has seen no entry), and that the title
handler writes back what was wished needs `WebInv` (while it writes, the file is torn, so that
any save in between is noted as overlapping). One lemma for each setter, one for a save
(`SaveStep`), one for each kind of step. Two more invariants build on it. `KnownInv`: neither
the document nor a snapshot, a thread or a request names a version that never was, unless a plan
does; since snapshots are saved later, `ActiveAlwaysExists` needs it of all of them.
`ListingInv`: who is writing the lines of which version (`MintedInv`), and, for every listing
under way, that the runs it has still to go through, and the one whose version it has at hand,
either ended before and have no version listed or are noted as raced (`TwinInv`). A file whose
run or listing was cut off before the first line does not count, since nobody lists it: that is
why the invariant speaks of lines and not of files. `ListingAlwaysTrue` follows.

`LibraryProofs`. `IInv` adds to the types and `TablesConsistent`: which places a request can be
at (`OpInv`); a thread at work has its manifest, unless it raced or a removal failed
(`DirsInv`); rows of what is gone are explained, if not yet by an exception then by the request
at hand (`RowsInv`); how far the deletion of a session has come, what it has passed stays gone
(`ClearInv`); and what was confirmed stays gone (`ConfirmedInv`). `SessionGone` is not inductive
without the last three, since a session deletion is five steps during which threads and
half-failed removals go on. The lemma `Effect` says once what any thread step may do to the
store, `Shrinks` what a removal does; each action is then one of the two. `LibraryTyped`,
`IndexConsistent` and `DeletionsExplained` follow; no assumption beyond those of the modules.

`ConsumersTraced` has an invariant of its own, `ConsumeInv`: a document or a thread names no
version but the run's own (`DocsInv`), what a thread relies on is there already before it is
recorded (`RelyInv`), and a cascade under way has every run still ahead of it that might rely on
its version (`CascadeInv`). It assumes `OldUses`: what a run that has succeeded before the
model's first state has used is there. `NamesAlwaysFollow` rests on `NamesInv`: between minting
and indexing, a run's version is the active one or another was activated (`ActiveInv`), which is
when the index takes the active version's names for the run's; maps vanish with the overlays of
their session (`OverlaysInv`).

`TemplateStoreProofs`. Under `TitlesAssumption` (every title has candidates for an id) and
`TemplateBoundsAssumption`: a number belongs to one version and grows (`TreeInv`); what is not
whole is at the writer's hand or was left by a process that ended (`WriterInv`); a run that no
write overlapped sees its templates as they were when it was created, in every place of its
thread (`CalmInv`), which is why `TemplateFailuresAlwaysExplained` holds; the versions a run was
created with, has recorded and is about to read are in order as long as its template is there
(`LineInv`), which gives `TextsAlwaysKept`.

`StoresProofs`, on uploads. Under `PostsAssumption`: an upload that shares its file with nobody
finds there what it has written (`StreamInv`, by the lemma `ChunkFollows`), what is about to be
copied is complete (`CopyInv`), what is recorded is complete or overlapped (`RecordInv`), a
recorded manifest is never written again (`AnswerInv`). `ContributionsAlwaysTrue` follows;
`InputsAlwaysRecorded` adds that no step but the deletion of the session takes a manifest away
(`ManifestsStay`). `UploadsTyped` needs that an upload sends no more than it has, and that a file
holds no more than some upload of its name has (`SizesInv`).

`StoresProofs`, on exports. Under `RequestsAssumption` and `ExportBoundsAssumption`: exports have
numbers of their own and a zip carries that of its maker (`NumbersInv`), so that of two exports
only the one that made a zip adds to it; what is being written has or will have what was listed
(`WriteInv`); a zip that is open has a writer, or a process ended (`OpenInv`); what there was at
the beginning is collected, or is where the export will still look, or was deleted (`HadInv`).
`AnswersCanBeOpened`, `FreshAnswersAlwaysComplete` and `BundlesAlwaysFull` follow. `HadInv` was
not inductive at first: with two runs, an earlier form of the model let the files of one be read
by what was looked up of the other, which the instance with one run could not show.

`ServicesProofs`, on five modules that share nothing.

- `Grounding`, under `SourcesAssumption` (a journal's model answer names nobody): what the gate
  let pass stays true although the map it looked at may change (`GateInv`, with `seen` as
  history). `PublicationGrounded` relates the four rules by which the stages choose a
  transcript, and what a meeting's map anchors to what its page cites. `GroundingTyped` is the
  type invariant, from the same invariant.
- `LLMGateway`, under `GatewayAssumption`: `RunInv` says what files a run has at each label
  (`WrittenAt`) and that a draft is written after what explains it; a failure is explained by its
  receipt, or is that of a run in `Bare` which may use no model. `FallbacksAlwaysExplained` and
  `GatewayTyped` (a provider is there whenever one is being asked) follow.
- `StuartDoor`, under `DoorAssumption`: flows are of different uploads and their file is theirs
  or a later one (`FlowsInv`), a confirm prompt of the flow at hand shows it unless a later reply
  was lost (`PromptsInv`), a run's flow is over (`RunsInv`). `RunsConfirmed` and `DoorTyped`
  follow.
- `AshCore`, under `AshAssumption`: `HouseInv`, the types with `BeliefsExplained`, is inductive.
  Every message that gets as far as a lamp comes down to one form (`Commands`, by
  `LampMessages`): it is about the lamp (`MeantAbout`), touches no other, and if it went through,
  lamp, session and the memory of what was done last agree. `BeliefsAlwaysExplained`,
  `CommandsAlwaysMeant` and `HouseTyped` follow; the levels need the clamping of every sum that a
  phrase, an emphasis or a number can come to (`AdjustedLevel`, `WordTyped`).
- `Chat`, under `ChatAssumption` (the index is finite, and a question of a session names one):
  what was found is of the asker's session and the evidence is what was found, in its order
  (`FoundInv`), so that the anchors a reply falls back on are of the evidence and there is one
  if there is evidence (`FallbackFacts`). Deletions meanwhile change neither (`LibraryKeeps`).
  `ChatAlwaysGrounded` and `ChatTyped` follow.

`AlignmentProofs`. Under `RecordingAssumption` (segments are numbered from 0 and begin in their
order, as the engine gives them and as the stub makes them). The run's own invariant `AlignInv`
is simple; the weight is on `AlignedKeeps`, which says for any segments and turns what one call of
`Aligned` does. It goes along the code:

- *Shares.* The whole parts of the shares leave over no more words than there are weights
  (`SharesLeave`: by induction, `W * t <= n * s <= W * t + k * W` for the first k of them), the
  remainders have ranks without gaps (`Ranks`, `OfRank`), hence what is rounded up makes the sum
  exactly the number of words (`RoundedTotal`); donations move words and make none
  (`DonatedCounts`). So the pieces, put together, are the text (`PiecesWhole`), and the code's
  tail at line 69 is never needed.
- *Speakers.* Every span of a segment lies within it, and within it its speaker was heard
  (`OverlapsMet`). Sorting and compacting keep that (`InTimeOrderTyped`, `CompactMet`), so every
  part is given to somebody heard in it and no word of the segment is lost (`AlignOneGiven`).
- *Merging.* Joining neighbours of one speaker is sound only because a segment that kept its
  speaker begins before all that follow it: the join takes the first one's beginning, and may
  mark the whole as diarized. `InOrder` says that; it is the one place where the proof needs the
  recordings to be in order, and `SharedKept` shows that cutting segments at turns, which may
  overlap and so come out of order, does not break it. `MergedKept` follows.

`AlignmentAlwaysFaithful` and `AlignmentTyped` conclude. Induction over the elements of a
sequence is done on sets of numbers (`Inductively`, by the well-foundedness of `<` on `Nat`, and
`UpTo`), with the set of the n for which a claim holds in the place of a predicate. That a
function defined by recursion exists, and takes the steps it was given, is `Recursion`; that it
keeps what each step keeps, `StaysIn`.

Only model-checked: liveness (`StartedRunsEnd`, `FormalizeEnds`; temporal proofs under fairness
are out of the prover's reach). Types are proved of every module, for all constants; TLC checks
them in `doors`, where they bound the sub-stage counter.

## 6. Where the code and what is said of it disagree

Each is a run with `expect: violation` that checks one statement of the repository.

- `invoked`: what raises before the `try` at `job_runner.py` 668 ends the thread and leaves the
  run `queued`; the UI polls for ever.
- `extract`: the extract step reads locals that only a formalize step binds.
- `torn`: two writers of one manifest share the temporary file.
- `back`: a run that is deleted while its thread saves progress comes back, with its manifest.

Seen while modelling, and not made runs of:

- Runs and manifests. `reuse_run_id` is looked at before an explicit or active version, the
  reverse of `src/docs/stuart/transcript_versioning_model_v1.md`. A confirmed title, a confirmed
  speaker map or a worker's last status is overwritten by a whole document loaded before it.
  `aligned_transcript.json` is stamped with the version id after its digest was recorded
  (`job_runner.py` 910, 959), so that the pointer of a succeeded run carries a stale one. The
  de-duplication key of an artifact (`store.py` 279) takes all artifacts without path and digest
  for one.
- Invocations. The docstring of `run_job` says "do not rerun succeeded/failed runs" (522), but
  the status is tested only when it begins: one that tested it before another succeeded sets the
  run back to `running`, and to `failed` at the first file that is there. Where the plan needs
  the audio the receipt prevents that (`ReceiptExcludes`); where it names a transcript, nothing.
- Versions. Dependencies on a version are visible only once a run has succeeded, if the plan
  does not name it, so that the version a run works from can be deleted without cascade
  (`excused.late` in `Library`). The run of a deleted version is backfilled by the next listing
  (`transcript_versions.py` 224, against the docstring at 220). A version whose process ended
  between the two index lines (180, 181) stays listed and can be neither opened, made active nor
  deleted by the web API, since all three resolve it by the second one, and nothing writes that
  line later; a formalize step that names it reads its file. One cut off before the first line is
  a file nobody lists.
- Index. Runs are indexed while they are running, and keep that status in the index (`ingest.py`
  444).
- Evidence. The docstring of `build_evidence_map` says "claims derived from minutes.json or
  journal.json" (`evidence_map.py` 295). The second never happens: the mode is read from the top
  of `run.json` (308-313), which no writer of that file puts there, so that a journal's
  citations do not reach its map. The next line says that anchors resolve to transcript
  segments, but the aligned transcript is read also where the minutes were made from the stub's.
  A journal is drafted from the aligned transcript and shown by `transcript.json`.
  `PublishedGrounded` therefore leaves out the pages of journals that have an aligned
  transcript, and the maps of meetings whose stub transcript was aligned; of a journal's map it
  says that it is of the transcript's ends. A transcript of the speech adapter carries the name
  of the runtime root or nothing as `session_id`, so that formalizing looks up another session's
  speaker map, despite the comment on canonical identity. The policy lets a display name of a
  label pass that the overlay leaves out.
- Model. The docstrings of `formalize/` say that an invalid answer fails loudly; an answer that
  the gateway rejects falls back and the run succeeds. The deterministic journal of a transcript
  without segments cites segment 0 (`journal_json.py` 169-171), which the citation guard refuses
  (353, 414, 473): where it is the fall-back, the run fails with a receipt that tells of the
  model only, and where no model is allowed it fails with none. `FallbacksExplained` says so.
- Chat. A jump to segment 0 is dropped (`answer.py` 280, `int(... or -1)`).
- Extract. Its pattern wants `SPEAKER_00:` at the start of a line, which lines of a transcript
  made by the speech engine do not have.
- House. The result of a device command is discarded, so that replies claim what failed. Any
  message after "which lights?" becomes the name of a group, and a session starts for a group
  that does not exist. "Back one" repeats the last change instead of undoing it. "Turn off the
  lights" without a session asks nothing. An agreed temperature is remembered and never sent to
  the thermostat, though `comfort.py` says that the caller should set it. "Want me to dim them?"
  cannot be answered by "yes".
- Door. A confirm button of an older file runs the newer one with default choices. The flow's
  stage is never read.

## 7. Not modelled, and what is next

Not modelled: observability (logging whose failures are swallowed and which nothing reads back),
the storage locator (path arithmetic), the browser UI and the scripts; what the external engines
and the language model say, beyond its citations and names; the wording and layout of drafts,
pages and PDFs; how Ash understands a text (`brain/nlu`); clarification dialogues and slash
commands, which keep no state; parameter normalisation; `telegram_set_speaker_map` and
`reformalize` of the Telegram runner, which only tests call; the plug and heat hints of
`handle_message`. Schemas are modelled where a run depends on what they refuse (`Grounding`),
elsewhere as a raise among the outcomes of an operation.

Next: abstract specifications for `Library` (an index that mirrors the runs) and for
`SessionPointers` (a register for each request), with the steps of the detailed ones that
implement them; and `Invocations` with diarization and a cancel request.
