# Formal models of Afroid

Afroid turns a founder's idea into a generated software project. A web IDE and a
browser extension collect ideas; a set of FastAPI services queues them, evaluates
and certifies them, and builds them with language models. This directory holds
TLA+ models of the part of the system where order, failure and concurrency
decide whether it works, the TLC configurations that check them, and TLAPS proofs
of the most important properties for every size of the system. Line numbers are
those of the files under `src/`.

## 1. The system

### Components, their state and how they interact

| component | state | operations | interacts with |
|---|---|---|---|
| Build dispatch (`orchestrator/app/routes/builder.py`, `services/task_queue.py`, `services/durable_store.py`) | one durable record per `session_id` (`orchestrator_kv`), tasks held by Cloud Tasks, in-process build tasks | `POST /builder/start`, `POST /builder/_run`, `GET /builder/status` | Cloud Tasks, Postgres, swarm, watch |
| Swarm (`agents/parallel_builder.py`) | files of the milestones, the working copy of the record, a scratch directory per project name | `execute_parallel_build` and its event callback | model vendors, build dispatch |
| Build watch (`routes/ws.py` 195-253, `apps/web/.../ide/page.tsx` 1690-1870) | a tail per socket; in the IDE the terminal, the number of lines shown, the flags of the watch | `/ws/build/{id}`, `GET /builder/status`, loading of the files | durable record, gateway, workspace |
| Generation jobs (`routes/orchestrate.py`, `agents/graph.py`, `services/job_store.py`) | one document per job, the pipeline's own state object | start, approve, status, `/ws/job/{id}` | durable store, session sockets |
| Session sockets (`routes/ws.py` 22-181) | per session a list of sockets | connect, disconnect, broadcast | IDE, jobs |
| Gateway (`gateway/app/main.py`) | none; two pipes per bridged socket | HTTP proxy, `ws_proxy` | every service |
| Idea queue (`intake`) | ideas (pending ... synced, completed, rejected), writers, evaluators, evaluations | submit, next, claim, certify, start-project, status, evaluate | orchestrator (draft blueprint), certify, workspace, event bus |
| Certification (`certify`) | designations, meant to be one per submission | designate, list, fetch, PDF | intake |
| Workspace (`workspace`) | a directory per user | project folders, files, git, terminal | intake, IDE |
| Authentication (`auth`, `apps/web/src/stores/auth-store.ts`) | users, refresh tokens; KYC sessions in the memory of an instance; two tokens in the browser's localStorage | register, login, refresh, logout, KYC | all |
| Platform (`platform`) | organizations, members, projects, startup profiles, subscriptions | CRUD, checkout, Stripe webhook | Stripe |
| Incubation (`incubate`) | opportunities | seeding, matching, autofill, grant writer | web |
| Model registry (`orchestrator/app/services/model_registry.py`) | per process: catalog, defaults | discover, register, set a default, resolve | jobs |
| Notification, codegen, vector store | rows, or nothing | one request, one answer | third parties |
| Shared code (`shared`) | per process: rate-limit windows | middleware, JWT, event bus (logs only) | all |

Orchestrator instances share nothing but Postgres and the queue. Within an
instance every handler and background task runs on one asyncio loop, so an action
of the models is the code between two awaits that matter.

### What is hard, and what makes each part correct

- **Dispatch.** Cloud Tasks delivers at least once and retries with backoff; the
  guard of the worker reads the record before the claim is written; every write
  is a full document and a failed write is swallowed; the enqueue may time out
  after it succeeded. Correct: a running record has somebody behind it, a
  delivery is acked only for a finished build, one execution writes at a time,
  every build settles and every task is dropped in the end.
- **Swarm.** One model call per milestone, in parallel; failures are collected.
  Correct: a complete record has every answered file in milestone order, progress
  is never ahead of the files, the directory holds what the record names.
- **Watch.** Snapshots over a socket, polling after it broke, a log that keeps its
  last 400 lines, a retry that starts the log again, a close that arrives while
  the previous message is still being handled. Correct: lines come once and in
  order, none is missing, the watch ends, a completion is seen, and carried out
  once.
- **Jobs.** Two writers of one document; a verdict that must be stored before it
  is announced. Correct: no forged verdict, none announced early, every job and
  every stream ends.
- **Session sockets.** A loop over a list that others change during its awaits.
  Correct: at most once, to everybody, and the dead are forgotten.
- **Request handlers over rows.** One database session per request, which the
  middleware commits after the answer was made: rows are read without a lock, an UPDATE
  names the columns that differ from what was read, its row lock is held to the commit,
  through calls to other services. Correct: an idea stays with its builder, a
  submission has one designation whose columns belong together, slugs and
  payments are not shared or lost, unless calls overlapped in the one way the code leaves
  open.
- **Effects in two services.** A project folder and the idea's status, a
  Stripe session and a subscription's row, a proof of identity and the panel that shows
  it. Correct: an answer of success stands for both, and a failure between the two
  leaves nothing a later success would build on.
- **Tokens.** Rotation while several parts of a page, and several tabs, share one pair.
  Correct: one at a time they never lose the session, and a used token yields nothing.
- **Memory of one process.** Catalogs, KYC sessions and rate-limit windows are lost with
  the instance. Correct: until then they mean what they say.

`PROJECT.json` lists each hazard at its line, with the properties that watch it.

## 2. Modules

| module | what it is |
|---|---|
| `BuildDispatch` | one key of the build store and everything that may write it |
| `BuildPromise` | abstract: what a reader of that record is promised |
| `ParallelBuild` | the swarm, its record and the project directory |
| `BuildWatch` | record, tail, socket (direct or through the gateway), IDE |
| `JobPipeline` | one generation job, its document, approve calls, its tail |
| `JobPromise` | abstract: what the readers of a job are promised |
| `SessionHub` | the sockets of one session |
| `IdeaQueue` | ideas: submission, claims, status, start-project with its folder |
| `Certification` | compliance, originality, score, grade and award of one request |
| `Designations` | evaluators and their votes; the designation of a submission |
| `Accounts` | one user's tokens, at the service and in the browser |
| `KycSessions` | identity sessions of several instances and the IDE's panel |
| `Billing` | checkout, Stripe's subscription and its events, the webhook in its two halves |
| `Tenancy` | organizations, members, projects and their slugs |
| `ModelRegistry` | an instance's catalog, and the model of each call of a job |
| `RateLimiter` | the sliding window of a client |
| `PipelineProofs` | proofs about `BuildDispatch`, `JobPipeline` and their composition |
| `BuildWatchProofs` | proofs about `BuildWatch` |
| `OverlapProofs` | proofs about `SessionHub`, `ParallelBuild`, `Billing` and their composition |
| `InstanceProofs` | proofs about `ModelRegistry` and `RateLimiter` |
| `IntakeProofs` | proofs about `IdeaQueue`, `Designations`, `Certification` and `WorkspaceFiles` |
| `PlatformProofs` | proofs about `Tenancy` and `Incubation` |
| `AuthProofs` | proofs about `KycSessions` and `Accounts` |
| `ServicesProofs` | the composition of the services |
| `WorkspaceFiles` | files, the IDE, commands and agents that replace lines |
| `Incubation` | seeding of opportunities, matching |
| `MCPipelines`, `MCOverlaps`, `MCServices` | compositions: see below |
| `MC*` | instances for TLC; the `.cfg` files are named `<MC module>_<run>.cfg` |

### BuildDispatch

`rec` is the row of `durable_store`, with what the worker's guard looks at: the
status, the age of `worker_started_at`, the events recorded and whose request
wrote it. `req` is the program counter of each `/start` handler
(`StartPersist`, `EnqueueAccepted` / `EnqueueRefused`, `ReplyArrives` /
`ReplyLost`, `InlineFallback`); `task` and `wait` are Cloud Tasks' side; `pc`,
`job`, `link`, `sent`, `age`, `step` describe each execution: `guard` and `check`
are the two reads of `run_build_worker`, `claim` and `build` are
`_run_parallel_build`. `Persist` is `_persist_build`: the write happens, or it is
lost and nobody is told. Faults are members of `Faults` and are counted, so a
behaviour has at most `MaxFaults` of them.

Cloud Tasks is external. It is modelled by what the code relies on: a task is
delivered while it is held, not before its backoff has passed; a 2xx within
the deadline drops it, everything else keeps it; a second copy may be delivered
("duplicate"); an attempt past the deadline has failed for the queue while the
handler goes on ("slow").

`BuildPromise` is a five-action state machine over (status, events done). The
refinement mapping is `status <- rec.status, done <- rec.step`, with `Ends <- {Steps}` (a build
is complete after its last event only); `PromiseKept` is its specification.

### ParallelBuild

One execution per member of `Builds`, all over the directory of one project name.
`store` is the working copy the callback mutates, `due` says that it has to be
written through before the build goes on, `rec` is the record a watcher sees.
`Answer` takes any list of paths (the empty list is a failed call), in any order of
the milestones; `Gather` is `asyncio.gather`; files are written in the order
of the milestones; only a build without any file falls back to the scaffold. A write that
fails leaves the file as it was or emptied by `open` (`Cut`).

### BuildWatch

`rec` is driven by a reduced version of the dispatch (`Queue`, `Begin`, `Report`,
`Finish`, `GiveUp`), where a run also begins over a record that was left running by an instance
that died, with log lines `<<attempt, number>>` and the cap of the log.
`srv`, `sig`, `missing` are the tail's locals; `chan` is the socket, in order,
with a `Close` at its end. The client is `streamBuildStatus`, `applyBuildSnapshot`
and `pollBuildStatus`: `writing[h]` counts the files a handler still has to write,
because each of them is an await during which other events are handled. With
`route = "gateway"` the socket runs through `ws_proxy`, whose bridge accepts the client
first and does not pass the orchestrator's close on.

### JobPipeline

`live` is the object the graph's nodes work on, `doc` the stored document. The nodes
make `left` model calls with up to `Retries` attempts each. `StoreFails` is the `put` of a
decided job that raises one of the caught exceptions (orchestrate.py 79), before or after its
commit: the except branch (133-146) then makes an error of it. `Vanish` is an
exception of a type `_run_pipeline` does not catch, also one raised in that branch, or the end of
the process. `ApproveRead` and `ApproveWrite` are the two halves of `approve_architecture`.
The tail is the owner's or a stranger's, who hears `not_found` (`TailForeign`, ws.py 293-296);
an exception in it closes the socket with nothing said (`TailBreaks`, 318-326).

`JobPromise` is a six-action state machine: accept, decide, store, withdraw, tell, rewrite. The
refinement mapping reads the pipeline's own state and the stored document as absent, open or a
result with its files (`View`), whether an approve call has written (`Disturbed`), and which result
was taken back (`Withdrawn`); `JobPromiseKept` is its specification. A step of the promise may
decide and store at once, as the error path does. Withdraw is what the code leaves readers with
when the store raises: a complete result may be seen before the error that replaces it, but only
until the session was told.

### SessionHub

`list` holds every list made for the session, `entry` the one the dict names, since
a broadcast goes on walking the list it began with after the entry was
replaced. `Send` takes the element at the loop's index of the list as it is now; `Without`
is the list with the dead ones removed. An exception other than a disconnect ends the handler
and leaves its socket on the list (`HandlerRaises`).

### IdeaQueue

`stock` is the row of each idea, `ask` the calls in flight: loaded (what they will
write is `set`, the columns changed in their copy), asked (the workspace answered),
flushed (holding `rowLock`), done. `folder` is what the user's `NEW_PROJECT_SYNCED`
holds: `CreateFolder` is `create_project` of the workspace, whose `mkdir` comes before its
files. `Contested` bounds which ideas are claimed and patched.

### Certification and Designations

`Certification` holds operators, with `Designate` as the one action that applies them to a
body; scores are in hundredths, so every division in the code is exact here but one: the average
of three texts or more is a sum of floats in the code, which may fall short of a bound that
the exact average meets (70%, 80% and 90% add up to less than three times 0.8). `MayMiss` says when,
and `BatchVerdict` is the set of verdicts that are possible.
`Designations` adds the votes (`ballot`, medians over the evaluators) and the
upsert of `store.py`: look, then insert or change the columns that differ, with
`scalar_one_or_none` raising once there are two rows.

### Accounts

`token` is the fate of each pair's refresh token, `store` what localStorage holds,
`part` what each part of the web application waits for. `ReadToken` and
`ExchangeToken` are the two halves of `refresh_tokens`; `loadUser`, `refreshTokens`
and `logout` of the store are the browser's actions.

### KycSessions, Billing, Tenancy, ModelRegistry, RateLimiter, WorkspaceFiles, Incubation

One action per handler, split where the code awaits and another request can come in
between: checkout (look, make a customer and a session, commit), `create_project` of the
platform (count, insert), the seeder (look for each title, commit at the end), the panel's
clicks (sent, served, answered). What comes from outside is an action of its own: Stripe
sends, repeats and reorders, an instance restarts, a token ages, a command writes a
file. A webhook of `Billing` reads its row (`WebhookRead`) and later commits the columns that differ
from what it read (`WebhookCommit`, `Merged`), so that two of them on one row may mix their columns;
`torn` records the rows that were handled from a copy that was no longer true.
`WorkspaceFiles` keeps how each line ends and which words are not UTF-8, since reading turns
`\r\n` into `\n` and such bytes into U+FFFD (`ReadText`, `Decoded`), `replace-lines` compares what was
read and writes all of it back. `MatchOpportunities` picks any page
of the table and any order of equal scores, since its `SELECT` names neither.

### Compositions

`MCPipelines` (builds and jobs), `MCOverlaps` (`SessionHub`, `ParallelBuild` and `Billing`, whose
sockets, builds, checkouts and webhooks are interchangeable) and `MCServices` (the other ten modules
above) put components that share no state into one run: `focus`, chosen at the beginning, is the
component of the behaviour, the others stay in their initial state. The
components that do interact are in one module: `IdeaQueue` with the workspace's
folders, `Accounts` and `KycSessions` with the browser, `Designations` with the intake's
evaluations and the engines, `BuildWatch` with gateway and IDE.

## 3. Runs

Passing runs explore their whole state space.

| run | what it shows | states |
|---|---|---|
| `faults` | Two `/start` calls on one key, every fault but crashes and lost writes. A running record has an execution behind it (`RunningHasWriter`), every started build settles for good (`EventuallySettled`), the queue gets rid of every task (`TaskDrains`). | 251 371 |
| `pipelines` | Builds: one `/start`; crashes, failed reads, build errors; a retry that waits out the staleness window. Acked means complete (`AckedIsComplete`), one writer at a time (`SingleWriterInFile`), the record refines `BuildPromise` (`PromiseKept`), the build completes (`EventuallyComplete`). Jobs: two approve calls, two attempts per model call, two calls per node. The result's `put` may raise, the tail may break and may be a stranger's. A job keeps its promise (`JobPromiseKept`), the last word of a stream that was not broken off is its verdict (`StreamIsTrue`), jobs and streams end (`JobSettles`, `StreamEnds`). | 124 837 |
| `watch` | Two attempts, three lines, a cap of two, both routes. `TerminalInOrder`, `AllLinesShown`, `WatchEndsDirect`, `CompletionSeen`. | 740 546 |
| `overlaps` | Three sockets, two broadcasts: `AtMostOnce`, `MissedAtMostRemoved` (431 504 states). Two builds of one name, two milestones, answers of up to two files over two paths, one lost write: `SwarmDelivers`, `ProgressHonest`, `WorkspaceHoldsBuild` (554 866). Two checkouts, rows for both, two webhooks in flight: a row that was handled in order and never from a stale copy says of its subscription what Stripe says (`MirrorsStripe`), and a payment the webhook was told of is on a row, unless a second payment for the same row took its place (`PaidIsServed`; 392 950). | 1 379 320 |
| `services` | Each service alone, two calls at a time and what may fail between their steps; the properties are in the next table. | 877 780 |

The properties of `services`, besides the types (`ServicesTyped`):

| module (states) | property | what it says |
|---|---|---|
| `IdeaQueue` (118 697) | `ClaimLostOnlyInOverlap` | A builder loses an idea only to a claim that overlapped, or after a PATCH put it back into the queue. |
| | `StartedHasFolder` | Who was told that the project was started has the whole folder of this idea, not that of another with its slug, nor the rest of a failed attempt. |
| `Certification` (61 479) | `AwardIsEarned` | An award is: some jurisdiction, every rule of each, originality 80% on average, a score in a band; whoever has all that gets it, but for three texts or more of exactly 80%, whose floats may fall short. |
| `Designations` (189 486) | `SecondRowOnlyInOverlap` | A second designation of a submission comes only from a call that looked before the first was there. |
| | `IdMatchesScore` | However upserts mix, the certificate's id is the digest of the score beside it, and of no other row. |
| `Accounts` (221 914) | `UnknownOnlyToRival` | One at a time, the parts of a page never lose the session. |
| | `ReuseOnlyAfterRead` | A used refresh token yields a pair only to a refresh that had read its row before. |
| `KycSessions` (138 728) | `VerifiedAtService` | What the panel shows as verified with the service's proof is verified at some instance. |
| `Tenancy` (21 180) | `SlugSharedOnlyInOverlap` | Two projects share a slug only if their creations overlapped, never within one organization. |
| `ModelRegistry` (89 960) | `JobModelHonored` | A job runs on the model it named, until its instance restarts or it moves. |
| `RateLimiter` (21 429) | `LimitExact` | No more than the limit in any window, wherever it begins; who is refused has a full window behind, and is told to within a second when there is room again. |
| `WorkspaceFiles` (4 383) | `EditIsPrecise` | A replacement replaces the lines its agent saw, and all others read as they did. |
| `Incubation` (10 524) | `OffersAreBest` | No better opportunity is left out, none is offered twice. |

The other runs show where the code does not do what a comment or a docstring says:

| run | property violated | what happens |
|---|---|---|
| `crash_early_retry` | `EventuallyComplete` | An instance dies in mid-build. The retry comes within the 1800 s of the dead claim, is answered 200 (`in_progress`) and the task is dropped: the build stays `running` (builder.py 644 against 428-429 and 560-561). |
| `lost_reply` | `SingleWriter` | The enqueue times out after Cloud Tasks took the task: the inline fallback and the delivery write the same key (task_queue.py 152 against durable_store.py 15-16, builder.py 487-489). |
| `loaded_twice` | `LoadedOnce` | The server closes right after the final snapshot; `onclose` runs while the files are still being written, starts polling, and the build is loaded again (page.tsx 1856 against 1855). |
| `bridge` | `WatchEnds` | The orchestrator's end of the bridge closes; `gather` waits for the other pipe, so the IDE's socket stays open and nothing fails over (gateway main.py 146 against 106-111 and page.tsx 1855). |
| `approve_race` | `StoredVerdictStays` | An approve call writes back a document it read before the result was stored: the result is gone (orchestrate.py 326 against durable_store.py 15-16). |
| `reproducible` | `GradeMatchesScore` | Two designations of one submission overlap; the second writes only the columns that differ from what it read, and the row keeps the grade or the award of one with the score of the other (certify/app/store.py 48 against pitch_deck.py 4). |
| `skipped` | `ReachesAll` | A socket leaves while a broadcast waits in a send; the index skips the next socket (ws.py 55 against 52). |

Deadlock is checked in the dispatch runs on one component (time always passes). The other
systems may come to rest, when every handler has ended, and say so in their cfg. TLC's
coverage counts a composed next-state relation as one action; its expression-level
coverage of `faults`, `pipelines`, `overlaps` and `services` shows every action and disjunct of
the composed modules taken, except the lost write of `BuildDispatch`, which no
passing run allows (the proofs do).

### Bounds, and why they are enough

- `Runs` has two members: the hazards of the dispatch need two executions on a key
  (delivery and fallback, delivery and duplicate). A third waits for a slot; the
  proofs have no such bound. `Steps` is 1 or 2 because an event only has to be
  distinguishable from the first and the last.
- `Stale`, `Deadline`, `Backoff` are ticks. `faults` keeps the code's equality of
  window and deadline (1800 s both); the other runs have the deadline larger, as
  attempts that end in time need it. `Backoff = 0` against `Backoff = Stale` is the
  difference between `crash_early_retry` and `pipelines`. The deployed queue
  retries after 0.1 s (DEPLOYED_LIVE_STATE_REPORT.md 97).
- `MaxFaults` is 2 or 3: pairs of faults of different kinds, and with a retry.
- `Lines = 3`, `Cap = 2` lets the log outgrow its cap within one attempt and
  `Attempts = 2` restarts it; `Window` bounds unread snapshots, so that the client
  may be late by two; `Polls = 2` includes the case that the polls are used up (the code
  has hundreds, and only the end of them matters).
- Two milestones, two paths and two files per answer have the same path named twice
  in one answer, in two milestones and in two builds.
- Three sockets are the least with which one is skipped and another remains.
- The services have two calls in flight: each of their hazards is one of two calls that
  overlap, or of one call that fails and is repeated. Two ideas share a slug, and one of
  them is claimed and patched (`Contested`): claims of different ideas touch different rows.
  Three evaluators with the founder among them give medians of no, one and two votes.
- `MaxPairs = 3` is a sign-in, its refresh and a refresh of that; a token that is reused
  needs no more. `MaxEvents = 2` per Stripe subscription has a payment and a change or an end,
  in any order and repeated; `Hooks` has the two webhooks that overlap. In `overlaps` the same three
  names are sockets and ids of rows, the same two are broadcasts, builds and checkouts, so that one
  set of permutations serves all of them.
- `Limit = 2`, `Window = 4`, `MaxTime = 14` fill three windows; the theorem has no bounds.
- `MaxLines = 3` leaves lines before, in and after a replaced range. Three KYC ids are the
  panel's, the service's and those of the session asked for after it. Two titles and
  two seeders fill four rows, more than a page of three.
- Bodies of `Certification` take scores at and beside a band's edge, every jurisdiction with
  rules and one without, and texts whose originality is 80% exactly on average, three of them too.

### Fairness, and why the code justifies it

Only `faults`, `pipelines` and `watch` check liveness; the services' properties are safety
and their specification states no fairness.

Weak fairness of the steps of a handler that was entered: its event loop goes on
scheduling it. Cloud Tasks keeps dispatching what it holds. Time passes. The build
of `BuildWatch` goes on, which `EventuallySettled` shows for the dispatch. The
client's loop handles what arrived. Nothing makes a caller start a build, connect,
approve, or a fault happen: those actions have no fairness, and neither has the write of an approve
call that read, whose `put` may raise. A model call may fail
every time, but it ends: `graph.py` gives it 90 s, and the swarm relies on the
timeouts of the vendors' clients, an assumption of `EventuallySettled`.

## 4. Proofs

`tlapm` checks every step; no theorem rests on an unproved statement.

`PipelineProofs`, for any sets of callers and executions, any number of events,
faults, and any timing constants (`ConstantsAssumption`):

- `TypeCorrect`: `Spec => []TypeOK`.
- `RunningIsWritten`: `[]RunningHasWriter`. Inductive together with `TypeOK`: every step that
  takes an execution out of `build` writes a final status in the same step, or is a
  counted crash or lost write.
- `OneWriter`: `[]SingleWriterInFile`. The property says nothing of why a second execution
  cannot begin; the invariant `FileInv` does. Its parts: `OneRun` (one execution at most is
  busy, and the record is what its stage says: after a claim it is running with the
  execution's own step), `Linked` (an open execution has its task still held by the queue, a
  busy one that is not open is the fallback and there is no task), `Started` (before the
  handler is done there is no execution, and for a refused enqueue no task).
- `AckedBuilt`: `[]AckedIsComplete`. `RecoveryInv` adds `AckedInv` (an acked task has nobody
  working for it and a complete record) and `StaleInv` (a running record nobody works on
  has age plus remaining backoff at least the staleness window, and an execution in the
  guard finds a running record stale), which is where `RetryOutlivesClaim`
  (`Backoff >= Stale`) enters: the guard then runs the build and does not answer 200.
- `PromiseIsKept`: `SingleFile => (Spec => PromiseKept)`: initial states map to initial
  states and every step to a step of `BuildPromise` or a stutter. `SingleFile` is needed:
  with two executions the record goes back and forth.
- `DispatchIsWatchable`: under the same condition the record also keeps the wider promise of the
  watched one (`WatchedRecord` below), in which a run may be complete after any number of events:
  the record that `BuildWatch` reduces to status, lines and progress and the one made here
  are held to one abstract specification.

and for any number of approve calls, model calls and attempts:

- `JobTypes`: `[]JobTypeOK`, with `Counted` as strengthening (files made plus calls left are at
  most `Calls`, and a tail that goes on has not used up its misses).
- `JobPromiseIsKept`: `JobSpec => JobPromiseKept`. Within the promise are the error path from a node
  and from the store, a task that vanishes and documents written back at any moment. The
  promise is as wide as the code makes it: until the session was told, a complete result on which the
  store raised is withdrawn for an error with the same files (`Withdraw`, once), and an approve call
  may bring it back. `VerdictInv`: a
  final document, stored or held by an approve call, is the one the pipeline ended with, or the
  complete one it took back, and past
  its store the pipeline has its state in the store unless an approve call has written. `OpenInv`:
  before that the pipeline is undecided, and nobody holds a document of a job that was not
  there. The same invariants give `NoForgedVerdict` (`[]StoreNeverAhead`) and `ToldAfterStored`
  (`[]ToldIsStored`).
- `StreamsAreTrue`: `[]StreamIsTrue`, of streams that were not broken off as far as it is about
  their end, of all as far as it is about what they say; a stranger's says `not_found` only.
  `TailInv`: the signature begins with the phase that was sent
  last, so that a final document that looks unchanged is one whose verdict went out.
- `JobAdvances`: the safe half of `JobSettles`. Stage, calls left and attempts made are a measure
  that is bounded, every step of the pipeline moves forward, and no approve call and no
  tail moves back. What is left to TLC is that the step is taken.
- `PipelinesCompose`: the specifications that TLC runs (`BuildsSpec`, `PipelinesSpec`) imply the
  components' own, with their fairness.

`BuildWatchProofs`, for any length and cap of the log, snapshots under way, polls and attempts
(`WatchAssumption`):

- `WatchTypes`: `[]TypeOK`; `TerminalOrdered`: `[]TerminalInOrder`; `NoLineMissing`:
  `[]AllLinesShown`, from `WatchInv`. The client compares lengths and never looks at a line, so
  what keeps the terminal in order is a fact about all the logs it will get to see: `Chronicle`
  (in each of them, and from an earlier to a later one, a line at a greater place was logged
  later), which holds even though a retry starts the log again and the cap drops its beginning.
  `ShownFirst` says that what the client has not been shown comes after what it has;
  `FirstRun` that below the cap the logs of a first run are beginnings of one another.
- `WatchedRecord`: `Spec => RecordPromised`, the refinement of `BuildPromise` by the record
  of this module, its lines taken for the events.
- `WatchComesToRest`: every step of a behaviour uses up part of a measure with an end
  (`WatchMeasured`, `WatchAdvances`): the record's attempt, status and lines first, then the tail's
  status, reading and misses, then the client's connection, messages, polls and files.
- `WatchOverAtRest`: where no due step has anything left to do, the page has an outcome, unless
  the gateway's bridge holds its socket open (the finding of the run `bridge`). From `RestInv`: a
  client that stopped polling or whose socket closed under it is no longer building, and a direct
  tail that ended has left its close last in the channel. With `WatchComesToRest` this is the
  safe half of `WatchEndsDirect`; what is left to TLC is that a due step is taken.

`OverlapProofs`, for any sockets, broadcasts and number of lists (`HubAssumption`: there is
room for one), any number of milestones and builds, any answers and any scaffold
(`SwarmAssumption`), and any rows, checkouts, events and webhooks (`BillingAssumption`):

- `HubTypes`: `[]HubTypeOK`; `NeverTwice`: `[]AtMostOnce`; `MissedBounded`:
  `[]MissedAtMostRemoved`, all from `HubInv`. A walk goes on over a list from which others
  remove sockets, so its position is no measure of whom it has met. `ListsApart` (no list names
  a socket twice) and `Ahead` (nobody at or after the position was visited) give `AtMostOnce`:
  removals shift sockets down, towards what the walk has passed, never up. For the bound on the
  missed, `OwedFirst` keeps the sockets present at the start a beginning of the list, with as many
  of them visited as the position says: each removal behind the position costs one at most.
- `SwarmTypes`; `EveryAnswerDelivered`: `[]SwarmDelivers`; `ProgressCovered`: `[]ProgressHonest`;
  `DirectoryHoldsBuild`: `[]WorkspaceHoldsBuild`. `SwarmInv` says where each build stands
  (`Stands`: what is written is the flattened answers up to a milestone and a file), what its
  documents may be (`Documents`: their progress is covered by their files; a complete record is
  what memory holds and no write comes after it), and that every path on the disk is
  some build's last version of it or cut by a write of such a build that failed (`DiskHolds`).
  `ProgressHonest` speaks of whole milestones: progress is
  floor(100k/n), which is 0 or repeats itself when there are more milestones than per cent, so
  "how many files" cannot be read from it.
- `BillingTypes`; `RowsMirrorStripe`: `[]MirrorsStripe`; `PaymentsServed`: `[]PaidIsServed`.
  `EventsNumbered` (Stripe's last event carries the present status, a checkout's event is its
  first), `RowsFollow` (a row has the status its last handled event gave it, unless they came out of
  order or the row is torn), `HooksKnow` (what a webhook in flight read: a row of its checkout, and
  one that had a subscription still has one), `RowsReserved` (the row a checkout has found or
  flushed is nobody else's until it is committed), `PaidRowTaken` (a told payment's row belongs
  to a payment for that row, torn or not).
- `OverlapsCompose` and `OverlapsTypes`: a behaviour of the composition is one of each component, so
  what is proved of any of them holds of it, and its types too (`[]OverlapsTyped`).

`InstanceProofs`, for any instances, agents, models and jobs (`ModelAssumption`: the two models the
code falls back on are built in), and for any clients, limit, window and unit of time
(`LimiterAssumption`):

- `ModelTypes`, and `JobKeepsModel`: `[]JobModelHonored`. `KnownStill`: the model a job
  named is listed by the instance it started on until that instance restarts, because
  nothing takes an entry out of a catalog.
- `LimiterTypes`: `[]LimiterTypeOK`. `WindowIsRespected`: `[]WindowRespected`. The property looks at
  the history, the code only at the deque; `DroppedHaveLeft` joins them: every entry before a
  deque's head is older than the window, now and from now on. A call is let through when the
  deque has room, so the entry `Limit` calls before it was dropped.
- `LimitIsExact`: `[]LimitExact`, the other direction too. `DequeFits` (a deque never holds more
  than `Limit` entries) and `TimesInOrder` make the head of a full deque the `Limit`-th last call
  let through, on which both the refusal and the answer's `Retry-After` depend; `ToldJustly`
  keeps them true as time passes.

`IntakeProofs`, for any ideas, users, slugs, calls, rows and requests (`IdeaAssumption`; `RowIds`
finite; evaluators and requests give integer points, texts are sequences of integers), and any
files, editors and words (`FileAssumption`: what the IDE and commands write, and agents put in, are
lines):

- `IdeaTypes`; `StartedFolders`: `[]StartedHasFolder`; `ClaimsLostInOverlap`:
  `ClaimLostOnlyInOverlap`. `LockHeld`: a row is locked by one call, which
  has flushed it; `SetFits`: only a claim names an assignee, and it names its caller;
  `PendingWasReopened` and `ClaimsMet`: an idea that is pending with an assignee was put back by a PATCH,
  and a claim that nobody overtook has met one without assignee, or such an idea;
  `OwnsFolder`: a call that had its 2xx owns the folder, and a folder never changes its owner.
- `IdsMatchScores`: `[]IdMatchesScore`; `SecondRowsOverlap`: `SecondRowOnlyInOverlap`. An upsert
  writes the columns that differ from what it read, which another one may have replaced since.
  `DesInv`: an id is written if and only if its score is, so the pair stays together whatever the
  rest of the row becomes; the grade does not (`GradeMatchesScore` is violated by `reproducible`).
- `DesignationTypes`: `[]DesTypeOK`: one vote per evaluator and none of the founder, and a score
  that stays on its scale from the votes to the row. `ScoreFits`: weights add up to 100 and points are
  clamped; `AscendingIsThere`: scores can be put into order, so a median is one of them or between two.
- `AwardsAreEarned`: `[]AwardIsEarned`. The verdicts in between (per rule, per jurisdiction, per
  text) are shown to add up to the conditions of the property, the last one over averages that the
  code computes per text and then over texts. That an award is deserved has no proviso; that what is
  deserved is awarded leaves out three texts or more at exactly 80%, where floats decide.
- `FileTypes`: `[]FileTypeOK`; `EditsArePrecise`: `EditIsPrecise`. The tool joins the lines before,
  the text and the lines after, and the file is split again when it is next read; lines are
  compared as they read, after decoding. `FileInv` keeps
  what makes that harmless: only the last line of a file, or of what an agent saw of it, may
  lack its end, so the pieces stay apart. The exception in the property is where they do not: the
  text that is appended to a last line without an end.

`PlatformProofs`, for any organizations, names, projects, titles and rows:

- `TenancyTypes`; `SlugsSharedInOverlap`: `[]SlugSharedOnlyInOverlap`. `CountStillHolds`: a creation
  that has counted and was not overtaken still finds nothing like its slug.
- `IncubationTypes`; `OffersAreTheBest`: `[]OffersAreBest`, for any titles, regions, rows and page
  (`IncubationAssumption`: a finite table). `TitlesOnce`: unless seedings overlapped, no
  title is there twice, nor about to be added by a seeding that nobody overtook. `OffersFit`: an
  answer is the beginning of a list that names every fitting row of its page once, best first,
  so a row that is missing from a full answer is no better than its last one.

`AuthProofs`, for any instances, clicks and identities, any parts of the page and pairs:

- `KycTypes`; `PanelIsTrue`: `[]VerifiedAtService`. `ClicksApart`: unless clicks crossed, a simulation
  in flight is of the session that the panel shows; `SimulatedHere`: its answer is true of some
  instance until one restarts.
- `AccountTypes`; `SessionLostToRival`: `[]UnknownOnlyToRival`; `RotationHolds`: `ReuseOnlyAfterRead`.
  `TokensMade` and `GotIsNew`: a pair that is under way is live and nobody else's;
  `UsedIsGone`: a used token is exchanged or revoked, and who still comes with it has met the other;
  `TakerIsOut`: a stored token that is gone was taken by a refresh or logout whose answer is still
  to come; `PurgedIsOld`: only expired tokens are purged.

**Recursive functions.** Broadcasts drop sockets from a list (`Without`), the swarm flattens its
answers, and `Certification` adds up scores: functions defined by recursion and folds over them.
The library's induction theorems take an operator as a parameter, which no installed prover
instantiates; its theorem of a minimum in a well-founded order (`WFMin`) takes a set. `NatInd`, proved
from it in two modules, is induction for a set `I` of numbers: 0 is in `I`, and `k + 1` when `k` is. Each use
defines `I` as the set of numbers at which a statement holds. That a recursive function exists at
all is the first of them: the functions on `0..n` (or on the subsets of a set) that satisfy the
recursion exist for every `n`, and the `CHOOSE` of the definition is then one of them.

`ServicesProofs`: `ServicesCompose` and `ServicesTypes`, for any set of services in focus
(`FocusAssumption`): a behaviour of `ServicesSpec` is one of each service's own specification, so what
is proved of a service holds of the composed one, and all types hold together (`[]ServicesTyped`).

So every invariant and every safety property (`[][A]_v` and refinement) of a passing run is also
a theorem. Only model-checked: liveness (`EventuallySettled`, `EventuallyComplete`, `TaskDrains`,
`JobSettles`, `StreamEnds`, `WatchEndsDirect`, `CompletionSeen`), which needs fairness and
`ENABLED`, out of the prover's reach; and the runs that expect a violation.

## 5. Known deviations that no run shows

Seen while reading or from a model that had to excuse them. The properties are stated so that
they leave out exactly these, and say in their comments what they leave out:

- The write of the final status may be lost; the worker then re-reads a record that says
  `running` and answers 200 (builder.py 655-662).
- When `put` raises on a complete job, the except branch stores and tells an error, with the files of
  the complete one (orchestrate.py 79, 135-139); the complete one may have been seen before.
- One read of the store or one send that raises closes the job stream with neither verdict nor
  `not_found` (ws.py 318-326).
- Two claims of one idea that both read `pending`: the second waits for the first one's row lock and
  then overwrites its assignee (ideas.py 258 against "Claim a pending idea for evaluation", 252).
- Two first designations of one submission leave two rows, and every later upsert raises
  (store.py 38 against "one certificate per idea", 35).
- Two refreshes with one token that both read its row are both given a pair (auth.py 198 against
  "Token rotation: delete old, create new", 197).
- Identity sessions are lost when their instance restarts: a verified one reads `pending_scan`
  (kyc.py 44 against "alongside DB persistence", 43).
- A Stripe event that comes late, or again, after the deletion makes a canceled subscription active
  (billing.py 261, 270 against "Mark a subscription canceled when it ends", 282).
- Two webhooks on one row that both read before either commits mix their columns: a checkout of one
  subscription over the end of another leaves the new one `canceled` (billing.py 250, 261; platform
  main.py 64).
- `replace-lines` rewrites the whole file as it was decoded: bytes that are not UTF-8 become U+FFFD and
  every `\r\n` becomes `\n`, also on lines it does not replace (fs.py 215, 250 against "precisely
  replace a line range", 209).
- Three texts or more whose originality is 80% on average may be marked as needing review, as their
  floats add up to less (ip_verifier.py 156-163).
- A startup profile without a region makes matching answer 500 (engine/matching.py 55; the column is
  nullable, platform.py 130).
- A file whose write fails may be left empty, and the build fails over it (parallel_builder.py 953).
- An error record is final for the watcher (page.tsx 1770) and retried by the queue
  (builder.py 657): a later completion is not seen by that watch.
- A job's status is `analyzing` until the end, because the document is stored only at the start
  and the end (orchestrate.py 79; job_store.py 3 says "real-time").
- The approval gate of the graph looks at the pipeline's own copy and lets every job
  pass (graph.py 485, 506); an approve call never reaches it.
- A greeting that fails (ws.py 105), or any exception in the handler but a disconnect (116-181),
  leaves its socket registered until a broadcast fails on it.
- The dashboard's page and layout both call `loadUser`, and tabs share localStorage: of two
  refreshes with one token the refused one clears what the other has stored, and the user
  is signed out (auth-store.ts 104). `UnknownOnlyToRival` says that nothing else does.
- A logout with an expired access token is refused by the service, and the browser forgets
  the refresh token it leaves alive (auth.py 211).
- `certify_idea` asks for no jurisdiction and gives no text (ideas.py 317), so that its
  certificates are never awarded.
- A second checkout of an organization replaces its row's subscription, and Stripe goes on
  charging for the first (billing.py 253); so it does after the organization is deleted.
- The count behind a project's slug is read twice; the second read raises as soon as it is
  positive (projects.py 63), so that a second project of one name is a 500.
- Text without a last newline that is appended to a file without one joins its last line
  (fs.py 241).
- A registered model is forgotten on restart, and unknown to other instances: the job goes on
  with a default (model_registry.py 277).
- The KYC panel shows a made-up proof when the service fails, and never polls; the table
  `kyc_verifications` is written by nobody.
- Two seedings at once double every programme, and the next one raises
  (opportunity_seeder.py 245).
- Emails and texts are reported delivered whatever the provider answered (notifications.py 27-53).
- The limiter takes an exception of a handler on an exempt path for its own and calls the handler
  a second time (rate_limit.py 50 and 66).
- `build_error` is documented (parallel_builder.py 839) and never emitted.
- A build longer than 1800 s is delivered again with a stale claim and starts over.

## 6. Not modelled, and the plan

Left out, each with its reason in `PROJECT.json`:

- views of the web application other than the watch, the auth store and the KYC panel, the
  extension, SDK, UI package and CLI: they send single requests and render answers;
- the assistant, completion, diagnosis, blueprints from an idea, autofill, the grant writer, code
  generation, PDF and pitch layout: text in, text out, no state;
- notification, vector search, BYO provider, git: one outgoing call or command per
  request;
- registering as a writer, one insert, which enters `IdeaQueue` as the set `Writers`;
- deployment scripts, whose queue settings enter `BuildDispatch` as constants.

What remains to be done: abstract specifications of more components, with proofs that they are
implemented, as `PromiseIsKept` and `JobPromiseIsKept` are for builds and jobs; a measure like that
of `JobAdvances` and `WatchComesToRest` for the retries of the dispatch.
