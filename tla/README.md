# A formal model of ETNPILOT

ETNPILOT runs coding agents for a project: a queue hands jobs to workers, a
workflow engine works their steps, agents propose file changes, people approve
them, and everything that happened is kept in sealed receipts. This directory
models the parts of it where processes, callbacks, people, clocks and crashes
meet. `*.tla` are the modules, `*.cfg` the instances that TLC checks,
`*Proof.tla` the proofs that TLAPS checks, and `PROJECT.json` ties every
definition to the lines it stands for. Paths such as `workflow/queue.js` are
below the implementation directory `src/src/`; `docs/` is `src/docs/`.

Contents: 1 the system, 2 the modules, 3 what is checked, 4 fairness,
5 what is proved, 6 where code and documents disagree, 7 what was seen without
a run, 8 what is not modelled, 9 the plan.

## 1. The system

JavaScript on one event loop per process; what runs concurrently is several
*processes* (workers, command line, terminal, page, webhook service) over one
SQLite file and one checkout, and inside a process everything between two
`await`s. A step of a model is therefore one SQL statement, one file operation,
or the code from one `await` to the next.

| component | state it keeps | operations | what is hard | what makes it correct |
|---|---|---|---|---|
| Durable queue (`workflow/queue.js`) | rows of `workflow_jobs`: status, owner and end of the lease, attempts, checkpoint | enqueue, claim, heartbeat, checkpoint, complete, fail, abandon, requestCancel, resume, recovery of expired leases | operators read and write in two statements; leases expire under a living worker; retries | one executor at a time; side effects never replayed silently; cancellations kept; bounded attempts; no starvation |
| Queue worker (`workflow/queue-worker.js`) | active job, its abort controller, stopping | poll, execute, heartbeat timer, settle, stop | crash or cancellation between execution and settlement | as above |
| Workflow engine (`workflow/engine.js`) | status of each step, map of running promises, fatal error | ready list, blocking, start, retry, timeout, abort | events awaited in the middle of a scan; an attempt that outlives its timeout | dependency order, honest verdict, every run ends, no step at work after the end |
| Approval inbox (`core/approval-inbox.js`) | rows of requests with expiry | create, decide, expire, the waiting handler | two deciders, the clock and an abort between two polls | one final decision; nobody waits for a dead request, or the reverse |
| Approvals of a run (`core/harness.js`, `gitlab/approvals.js`) | grants for the run, taint | #approve, GitLab comments | a grant being given while outside text arrives | nothing unapproved goes ahead; a grant ends with outside text (it does not: section 6) |
| Chat and undo (`runtime/chat-session.js`, `workspace-lease.js`, `file-effects.js`) | session file of turns, journal of effects, lease row, budget | turn, undo, compact, recover | several processes; a person with an editor; late writes of stopped runs; crash in an undo | lease kept, numbering, undo spares others' work and leaves nothing of its own |
| Project runs (`runtime/project-runner.js`) | receipt, worktree, verdict | set-up, begin, steps and evidence, seal, publish, clean up | failure at every point, late attempts, death; a removal that looks first and acts later | begun receipts sealed; success means all the evidence; a removal takes nothing it had seen |
| Resuming and locks (`runtime/resume-plan.js`, `worktree-lock.js`, `git/worktrees.js`) | plan read from a receipt, lock file | plan, lock, adopt, restore | a plan gets old; stale locks removed by two processes | continue on the ground the receipt describes |
| Receipts (`core/receipt-store.js`) | append-only chain | append, seal, verify | attempts that answer after the seal, half lines | nothing follows the seal |
| GitLab webhooks and trigger (`gitlab/webhook-server.js`, `issue-trigger.js`, `publisher.js`, `pipelines.js`) | delivery ids, job checkpoints, the remote branch, merge request, status and notes | receive, enqueue, run, push, open, await the pipeline, tell | duplicate delivery, every remote call may fail, death between two | a delivery is run once; what is pushed was reviewed; the status is earned |
| Harness and receipts (`core/harness.js`, `receipt-store.js`, `receipt-signing.js`) | invocations, their spans, the chain of entries | run, spawn, append, verify | concurrent appends, a failing span or append, half a line | what a caller is told is on record; altering shows; no agent works for itself |
| Steps (`workflow/definition.js`, `ladder.js`, `quorum.js`) | attempts, votes, feedback | validate, triage, baseline, climb, verify, review, tally | many combinations, files by hand | what passed was verified as the file asks |
| Router, adapters, metering (`providers/`, `observability/metered-call.js`) | place in the route, requests counted, tokens charged | invoke, retry, fall back, tool loop, stream | a failed call may have had effects; several agents spend one number | tools asked for once; spending bounded; charged once |
| Telemetry (`observability/telemetry.js`, `runtime/gc.js`) | file of spans, archives, totals | append, rotate, report, collect | two processes, one file, moved aside while it is read | tokens charged once; a report counts nothing twice and misses only what moved while it read |
| Tool server (`providers/mcp-client.js`), plugins (`plugins/`) | numbered requests, child process | call, call back, abort, limit, close | late and unknown answers, silence, death | an answer reaches who asked; everything ends; nothing keeps running |
| Workspace tools (`providers/workspace-tools.js`), policy (`policy/engine.js`) | none; rules | search, read, write, edit, run, fetch; decide | an approval takes minutes; effects that hide in a tool | each effect has its own yes; compare before write |
| Configuration (`config/layers.js`, `settings.js`), trust (`trust/trust.js`) | three layers; fingerprints of projects | merge, save; ask, trust, revoke | two surfaces write; what was trusted changes | nothing gets quieter than committed; what acts was agreed to |
| Content (`content/provenance.js`, `runtime/project-content.js`, `forge/author*.js`), first run (`config/init.js`, `migrate.js`) | files under `.etnpilot`, lock, records of drafts | review, lock, capture, create, change, remove, apply, undo, import | two pages, a person's editor, a crash between two files | what is used was locked; agents whole; people keep their text |
| Accounts (`auth/`, `ui/accounts.js`) | file of logins, lock, vault | save, renew, move, sign in | a refresh token is good once; stale locks | renewed once; the login stays readable |
| Page (`ui/client/`, `ui/server.js`) | what was read last, what is open, requests under way | poll, open, verify, start, save, remove, sign in, chat | answers out of order or lost | what stands beside a thing is about it; the page catches up |
| Terminal (`tui/app.js`, `cli/chat.js`) | lists, cursor, detail; prompt, questions, lines ahead | keys, polls; turns and answers | lists change under the cursor; a person types ahead | a key acts on what is drawn; a line answers its own question |
| Secrets, supply chain, code graph, checks, formats of providers | -- | -- | formats | -- |

Interactions. The webhook service *enqueues*; a worker *claims* and calls the
issue trigger, which writes checkpoints through the worker's lease and starts a
project run. The run calls the engine; the engine's steps call the harness,
whose agents call providers and tools; a tool that needs a person calls the
harness's approval, which creates an inbox row and *polls* it. People decide
from other processes, in the row or by a comment. The worker's abort signal
(cancellation, shutdown) goes down the same way. Evidence comes up: the run
appends to its receipt after each step, and a later run plans from it. The
surfaces read all of it by requests or polls, in processes of their own, and
write files that the next run loads through the layers, the trust and the lock.

## 2. The modules

| module | stands for | state | actions |
|---|---|---|---|
| `WorkflowQueue` | the table and its statements | `row` (status, owner, attempts, due, lapsed, effects), `ahead` (who is before whom in `ORDER BY`) | operators named after the methods: one SQL statement each |
| `QueueService` | worker loops, operators, webhook, time around `WorkflowQueue` | `pc`, `job`, `aborted`, `safe`, `stopping` per worker; `opc`, `target`, `seen` per operator | one per await of `#loop`/`#run`, one per read and one per write of an operator, `Unrenewed` (a lease expires), `Due` (a delay ends), `Crash` |
| `StepGraph` | what a run promises about its steps | `flow`, `status` | Start, Finish, Block |
| `WorkflowEngine` | `run`, `executeWithRetry`, `withTimeout` | the scheduler's place, ready list (as positions in the listed order) and cursor; promise, attempt and operations of each step | scheduler turns and wake-ups, ends of attempts, timers, abort |
| `RunApprovals` | the table of requests; harness, waiting handlers and deciders around it | `record`, `overdue`, place of each wait, grants, taint, comments, decisions in progress | asking, polling, comments, decisions in two statements, abort, taint |
| `ChatWorkspace` | chat operations under the workspace lease | lease, files, turns, journal, budget, place of each process | turn, undo, compact (each await), a person's edit, late write, crash, recovery |
| `ProjectRun` | runs in one worktree and its lock file; the entries of a receipt and what a plan reads in it | `lock`, `taking`, `tries`; `tree`, `receipt`, `plan`, `status`, `call`, `digest` per run | planning; the lock: create, write, look, remove, give back; adopt, begin, steps with evidence, both seals, publish, look at the worktree and remove it (two steps), release; kill and edit |
| `StepKinds` | one step of any kind, and what the page accepts of a file | `file`, `step`, attempts, votes, outcome | triage, baseline, climb, verify, review, tally, gate, agent, check, abort |
| `AgentRun` | the file of entries of a receipt; the invocations that append to it | `file`, `half`, `tail`, `pending`, `line`; `run[n]` | append in parts, which may be refused, fail, or leave half a line; start, spawn, provider ends, span ends or fails, receipt; seal, whoever is still at work |
| `IssueTrigger` | deliveries, their jobs, and what GitLab shows | `job`, `at`, `result`, `pushed`, `opened`, `verdict`, `noted`, `ci` | deliver, refuse, respond, each call of the trigger and its failure, cancel, resume, crash |
| `ProviderCall` | router, retry and tool loop of several agents | `at`, `pc`, `tries`, `round`, `used`, `counted` | the router's, the adapter's and the answer's steps; stop |
| `Telemetry` | meters, write queues, file and archives of spans, reports | `meter`, `ledger`, `queue`, `file`, `archives`, `reading` | stream, answer, fail, end of span; measure, rotate, append; report in parts; gc in two |
| `McpClient` | one tool server's client | `child`, `pending`, `pipe`, `at`, `closed`, `stop` | initialize, list, ask, give up, answer, bad output, exit, kill |
| `PluginHost` | loader, host side and process of each plugin | `loader`, `life`, `asked`, `call`, `hostCall`, `registered`, `held` | load in order, call both ways, time out, abort, misbehave, die, close |
| `PolicyEngine` | which effect a rule set gives an operation | -- (operators) | -- |
| `WorkspaceTools` | tools of two agents in one workspace, over `PolicyEngine` | `disk`, `call` | invoke, each decision, each effect, an edit by hand |
| `Settings` | layers and the writes of surfaces, over `PolicyEngine` | `layers`, `writing` | read, try, write; edit by hand |
| `Trust` | the guard in front of the commands | `version`, `trusted`, place and reading of each command | guard, show, agree, refuse, record, revoke; the project changes |
| `ContentLock` | review, lock, capture and use of content | `disk`, `lock`, `job`, `shown`, `used` | one file read at a time, lock dialog, lock command, start, verify; edit |
| `AgentFiles` | requests of two pages about agents and workflows | `agents`, `prompts`, `flows`, `request` | each check, each file written or removed; server ends |
| `Authoring` | drafts, applications and undos of two surfaces | `text`, `drafts`, `records`, place of each | draft, refine, each compare and write, record, undo; edit, crash |
| `Setup` | init, import and drafting, of page and terminal | `file`, `at`, `todo`, `read` | each file looked for and written; edit, crash |
| `Logins` | the file of logins under its lock, and its renewal | `file`, `lock`, `service`, `vault`, `proc` | lock in parts, renew, move, write, forget; crash, staleness |
| `Requests` | what a page has asked: answered in any order or not at all | `flight` | operators: ask, answer, lose, take |
| `RunsPage`, `ReceiptPanel`, `RunDialog`, `SettingsPage`, `WorktreeView`, `AccountsPage`, `ChatView` | a view of the page with the part of the server it talks to; all but `SettingsPage` over `Requests` or a line of their own | what was read, what is open, what is under way | each handler, each answer, each loss |
| `TerminalWindow`, `ChatTerminal` | the terminal's window; the chat of the command line | lists, cursor, detail, painted row; prompt, lines, questions | keys, polls, answers; lines, questions, turns, end |

`MC*` modules put components beside each other and give their instances values;
`WorkflowEngine` is run as it is. `MCProgress` extends `QueueService`, `MCRuns`
extends `ProjectRun`, `MCAsking` extends `RunApprovals`, `MCConversations`
`ChatWorkspace` and `MCSurfaces` `Logins`, and each takes its other components by
`INSTANCE ... WITH`: the variable `part` says which of them a behaviour is of,
and the others rest in one initial state. What a theorem is about is a constant
of the MC module, with an ASSUME where it needs one. A property of such a run is
a property of the module it extends, or a conjunction of properties of its parts,
about one question, each under its `part`. Components in one run do not interact
there; those that do are composed in one module: `QueueService` over
`WorkflowQueue`, `WorkspaceTools` and `Settings` over `PolicyEngine`, the views
over `Requests`; the worktree's lock is part of `ProjectRun`, the chain of
entries of `AgentRun`. `WorkflowEngine` implements the abstract `StepGraph`
(`Promise == INSTANCE StepGraph WITH flow <- flow, status <- status`, checked as
`StepsInOrder`). The theorems are in eight modules whose names end with `Proof`
(section 5).

Conventions. A definition that starts with `Slip` is a faulty variant of the
definition after it: a bug that could plausibly be written there. Each property
of a run has one at least, named in `PROJECT.json`, and does not survive it, so
a property that passes says something about the code; a property that is a
conjunction has several, for several of its parts. Variables called *history*
are read by properties and never by an action's guard: `forced`, `stale`,
`touched` (queue: which jobs an operator forced, wrote on an outdated read, or
whose executor passed its side-effect checkpoint), `covered`, `outside`
(approvals), `foreign` and the fields `first`, `wrote` of an effect (chat),
`meddled`, `unsent` and `published` in part (`published` also decides the
clean-up), and those that the modules mark so. Where the code checks and acts
without holding anything in between, a history variable names what came into
that window (`late`, `crossed`, `touched`, `raced`, `mixed`, the span's `due`), and
the property exempts what is named and nothing else. A constant whose name starts with `Max`,
or is marked *bound*, only keeps an instance small, and the guard it appears in
is the only thing it changes.

Abstractions to know of. A digest of a worktree is the worktree; a hash chain is
a sequence; a lease's time is a flag that says it is over (`lapsed`), which any
heartbeat may precede or follow; the cost of a model run is one or two units;
comparing and writing one file is one step (the documented remaining race);
taking the run-start digest and appending it is one step, and so is going back
to a digest; in `ProjectRun` an append to a receipt meets no I/O error. Retries
appear in the engine and not again in `ProjectRun`. In `AgentRun` an append is in
parts, may fail and may leave half a line, which the next append completes to a
line nobody can read; attempts that were given up answer and append after the
seal, and the store refuses them (`core/receipt-store.js:32`). A pattern of a rule is the set it matches; a setting stands for each way of
narrowing; what a model answers, a draft says or a reviewer finds is a free
choice.

## 3. What is checked

Runs that pass:

| run | parts and their instances | properties |
|---|---|---|
| `EngineSafety` | all 25 acyclic graphs on three listed steps, fail-fast on and off, 0 or 1 retries, concurrency 2 | `TypeOK`, `UnwatchedWereTold`, `EndsHonestly`, `StepsInOrder`, `RunEnds` |
| `Progress` | *starve*: 2 jobs, 1 worker, 1 operator; *cancel*: 1 job, 2 workers (one mortal), 1 operator, 2 attempts; *operate*: 1 job, 1 worker, 2 operators, 2 attempts; *gitlab*: a request and its comments; *runs*: a run and its continuation of 2 steps, one mortal; *plugins*: 2 plugins, 2 calls; *provider*: 2 agents, a route of 2, 2 attempts, 2 rounds, 3 requests; *mcp*: 2 agents, 4 requests, 2 at a time | `WellTyped`, `SoleExecution`, `CheckpointTruthful`, `NoSilentReplay`, `CancelHonoured`, `CallsAreCounted`, `AnswersReachTheirCallers`, `WorkEnds` |
| `Asking` | *desk*: 2 requests of a workflow's agent under two scopes, 2 reviewers, inbox; *sharing*: 2 requests under one scope, 1 reviewer, inbox; *gitlab*: 2 requests under one scope, comments as well; *tools*: 2 agents, 2 policies, 2 files, 2 hosts, 2 commands, a hook; *settings*: 3 committed layers, 7 settings, 2 surfaces, 2 changes; *trust*: 2 projects of 2 versions, 2 commands | `WellTyped`, `AsApproved`, `DecisionsHold`, `DecisionFinal`, `OnlyWhatWasAgreed`, `NeverQuieter` |
| `Conversations` | *chat*: 2 processes (one mortal), 1 conversation, 1 file that is absent or `a`, budget 3; *view*: 2 conversations, 2 messages, 2 requests under way; *terminal*: 2 agents, 5 lines, 2 turns, 3 questions; *page*: 1 run, 2 requests under way | `WellTyped`, `LeaseKept`, `TurnsInOrder`, `ScreenIsTrue`, `LinesAreMeant`, `UndoSpares`, `UndoComplete`, `LeaseReturned`, `PageKeepsUp` |
| `Runs` | *project*: a run and its continuation, a fork of three steps, the first of them mortal, stopped or out of time at any point, telemetry may fail, ETNPilot's own files make removals forced, a person edits, between the look and the removal too; *contend*: three runs that want one worktree, one mortal; *issue*: 2 deliveries of one issue, each sent twice; *agents*: 3 invocations of 2 agents, 2 failures of file, span or process; *steps*: 76 files of ladders, quorums, gates, agent and check steps; *spans*: 2 processes, 3 requests, 2 milliseconds | `WellTyped`, `ReceiptsTell`, `KnownGrounds`, `DeliveriesHold`, `PassedIsVerified`, `CostsAreCounted`, `NothingLost` |
| `Surfaces` | *receipt*: 2 receipts, 2 checks; *dialog*; *content*: 2 files, 2 readers; *agents*: 3 agents, 1 workflow, 2 pages; *settings*: 2 models; *worktrees*: 1; *logins*: 2 processes; *accounts*: 2 sign-ins; *author*: 2 surfaces; *pageAuthor*: the page alone, 3 texts; *window*: 4 lists of 2; *setup*: a page that looks, or page and terminal at once | `WellTyped`, `ShownBelongs`, `LoginsKept`, `FilesStayWhole` |

Runs that find a disagreement: `QueueShared`, `EngineStall`, `RunAlone`,
`StatusEarned`, `ToolsRepeated`, `GrantsEnd` (section 6).

The runs are few and each asks one kind of question, of all the components it
concerns. What must come about in the queue (no job passed over for ever, no
cancellation left pending, no crash unnoticed), the end of waits and of runs are parts
of `WorkEnds`; `AttemptsBounded`, `LeaseOwnership`, `BudgetBound` and
`NewestFirst` are proved (section 5) and in no run.

Why these bounds. *Queue*: all statements but the claim and the sweep name one
job, so what goes wrong with a job needs one job; two workers are needed for a
double execution (*cancel*), two operators for a forced and an unforced
resumption that overlap (*operate*), two attempts for a retry that is neither the
first nor beyond the limit; the order between jobs matters to the claim only,
hence the second job of *starve*. Two workers under two operators at once are
left to the theorems, which hold for any number of either. *Engine*: three steps give a step in the middle, both listing
orders of a chain, a fork and a join; concurrency two makes the limit and the
race matter. *Approvals*: requests interact through grants and taint only; two
scopes show that a grant covers nothing beside its own, one scope that it does
cover both. *Chat*: a second process
is the only competitor a lease can have; a file that may be absent, and be
written twice by one turn, is what merging journals and putting back turn on; a
limit of three lets a run start below and end above. *Runs*: a continuation
after a continuation needs three runs; a fork needs three steps (one finished,
one lost, one carried). `Concurrency` is 1 in the run models; see section 7 for
what changes at 2. *Providers, tool servers, plugins*: with two callers one may
be given the other's answer, be hit by the other's timeout, or spend the other's
share; a route of two has a next provider and an end. *Pages*: two requests
under way are what makes an answer late; two things to look at, what makes it be
about the other. *Files*: a person's edit, and one crash, between any two steps
of two writers; a second edit or crash meets the same checks again. *Agents*:
three names are a circle that is neither a loop nor an exchange. *Steps*: the
files are chosen so that each kind of step has each of its options once, and the
graphs of gates and quorums include circles of one, two and three.
*Settings*: two changes are a check on one surface that the other overtakes.
*Receipts*: two failures are a half line and another on its way; with one date
and one key window in the run the key is always trusted, and the theorem covers
every other case. *Costs*: three requests
of two processes are two rotations in one millisecond, of which the second
replaces what the first moved aside, and a piece that moves while a report reads.
*Chat*: Enter sends a second message while the first is under way with the last
message of the bound, and once: nothing is claimed of a page after that.

`CHECK_DEADLOCK FALSE` stands where the system, or one part of it, may really
stop: all requests are answered, a run or a process ended, a page asked nothing
more, the bound on a person's edits is used up. That nobody waits for ever is
the liveness properties' to say.

What the less obvious properties say.

- `SoleExecution`: claims, leases, recovery, retries, cancellation and crashes
  never let two workers execute one job; only a forced replay, or an operator
  who writes what an old read told it, does (`forced`, `stale`).
- `CheckpointTruthful`: a job whose executor passed its side-effect checkpoint
  says so in its row, which is what an operator reads before forcing a replay.
- `UnwatchedWereTold`: an operation that goes on after its step stopped waiting
  for it has been told to stop. `EndsHonestly`: when `run()` returns by itself no
  step is at work, so the receipt's seal is the last word; and the verdict is
  what the steps came to.
- `WorkEnds`: whatever hangs, is silent or dies, a job, a wait, a run, a call of a
  plugin, of a provider and of a tool server ends, and the processes that were
  told to go are gone. `PageKeepsUp`: a run that was started never vanishes from
  the page, and the page comes to show what the server knows.
- `CallsAreCounted`: no path through retries and fallbacks asks for the tools of
  a task again at another provider or interface, unless a connection broke after
  tools had run (section 6), and all agents of a workflow together stay within
  its number of requests, but for one per switch of interface.
- `AsApproved`: an operation that went ahead was approved or covered; every
  effect of a tool is allowed or was approved, the ones hidden in it included; a
  write replaces what the person was shown. `DecisionFinal`: a decision stays as
  it was made. `DecisionsHold`: it reaches the operation, and no request is left
  when its wait is over. What it does not say is that grants end when text from
  outside comes in: they do not (section 6).
- `NeverQuieter`: whatever the user's files say, a committed denial stands, no
  operation gets less than the weaker of what the committed rules and the
  committed default give it, and what is locked keeps its value; and what a
  surface saves can be loaded.
- `UndoSpares`, `UndoComplete`: an undo overwrites only what its turn wrote and
  puts back only what that turn found; what it leaves behind was changed by
  somebody else.
- `ScreenIsTrue`: the message accepted last is in the conversation on the page.
  `LinesAreMeant`: a line answers a question only if it was typed at that
  question's prompt; a turn goes where the policy allows.
- `ReceiptsTell`: whatever fails, telemetry included, a run that began its receipt
  and was not killed leaves it sealed, except one that failed and could not export
  its telemetry either (section 7), and a success holds every step's evidence.
  What the caller of an agent was told is on record unless a line was spoiled, a
  reader finds the file valid exactly when no line was and the key was trusted,
  the signed lines in another order do not pass for the sealed file, however late
  an attempt appends; no agent is reached through the agents it called.
- `KnownGrounds`: a continuation finds the worktree as the receipt says the last
  finished step left it, the work of a step it does not repeat is there, and a
  lock of a living process belongs to a run that will release it; and a file the
  page accepted has an order to run in (`HasCycle` against its definition). The
  first two
  speak of runs with which nobody *meddled*: no other hand changed the worktree
  between their plan and their end. The plan's checks are not repeated after the
  lock is taken, and the person's edits are outside the program.
- `DeliveriesHold`: a delivery's run is started once, unless somebody resumed it
  by force; a request on GitLab belongs to a branch that was pushed, and an
  attempt past its run that has one succeeded and passed its review.
- `PassedIsVerified`: a step passed only if its file's verifiers said so for the
  last attempt, with as many distinct voices as required.
- `CostsAreCounted`: tokens are charged once; a span that was written stays until
  gc takes its piece or a rotation in the same millisecond replaces it; a report
  counts no span twice, and when it is done it has counted every span written
  before it began but for those in pieces that were moved, replaced or collected
  while it read.
- `NothingLost`: the worktree goes only by a run on its way out that looked and
  found nothing to lose; what is lost all the same came into it after that look,
  and only where the removal is a forced one.
- `ShownBelongs`: verdict, plan, model, code and key belong to what is on the
  screen; a disabled button comes back.
- `FilesStayWhole`: each part spares everything but what came into the window that
  the code leaves between its check and its act. What a run uses was locked
  (always); a lock is of what the page was shown, save for a file changed between
  the two reads of that lock; a missing prompt or a circle goes through an agent
  that a request wrote or removed on a check which another request's write had
  made old; a removal loses only work that came after its check, where git was
  told to force it; a draft or an undo overwrites only text that came after it had
  looked at that file; an import spares what people wrote (but for the
  orchestrator's two files, which are rewritten), and leaves an agent without its
  prompt only if it wrote under another caller's `dry`.
- `LoginsKept`: a refresh token is spent once, and the login can be read after
  every crash but one between forgetting and writing (`torn`).

## 4. Fairness

Assumed only where the code's own scheduling gives it, per process, and in a run
of several parts only of the part at work.

- Queue: a living worker's loop goes on (its timer fires, its next statement is
  issued); an execution returns or throws (every step has a timeout); a lease
  that is not renewed expires and a delay ends (time passes). Nothing of
  operators; mortal workers may die at any time.
- Engine: the scheduler's code runs on; a step's attempt ends at the latest by
  its timer (`timeoutMs`, 30 minutes by default), its event is delivered or
  times out.
- Approvals: the waiting handler polls. Nothing of people, nothing of time: the
  deadline itself is not assumed, only that the handler notices it once passed.
- Chat: a run ends (step timeouts), and the code of an operation goes on while
  its process lives.
- Runs: a process goes on; evidence that is being taken is taken; an attempt may
  hang for ever, and then the engine's clock ends the wait.
- Plugins: the loader goes on; the timers of requests and calls fire (`GivenUp`,
  `AskedGivenUp`); a killed process exits and its exit is noticed. Nothing of
  the worker's own code.
- Providers: router and adapter go on; a call of the model returns or fails
  (the request has a timeout); the timer of a step or of the run stops an agent.
- Tool server: its client's timers fire, the kill after the grace time is sent,
  and a killed process is gone. Nothing of the server: it may stay silent.
- Page: the poll's timer fires while the page is looked at; a request arrives or
  is lost, and an answer that came is handled. Losses are not bounded.

All of it is weak fairness: each of these actions stays enabled until taken.

## 5. What is proved

TLAPS proves these for every value of the constants: any number of jobs,
workers, steps, requests, runs, agents and files, every limit, every crash. Each
invariant is the conjunction `Fit` (or the one named) of the parts below; that it
holds at first and is kept by every step are lemmas of their own, one for each
part where there are several. Eight modules hold them: `ProgressProof` (about
`MCProgress`), `ConversationsProof`, `RunsProof` and, on top of it,
`RecordsProof` (`MCRuns`), `AskingProof` (`MCAsking`), `RunApprovalsProof`,
`WorkflowEngineProof`, `LoginsProof`. Theorems named `...Always...`,
`EffectsApproved`, `DecisionsReach` and `TrustIsAgreed` are of the compositions'
own specifications and properties, as the runs check them; the others are of one
module.

| theorem | property | argument |
|---|---|---|
| `ProgressProof!TypeCorrect` | `TypeOK` | each statement is shown to write a row again (`StatementsTyped`), each worker and operator step to stay typed |
| `AttemptsBound` | `AttemptsBounded` | not inductive alone: `AttemptsFit` adds that a queued row has no attempt behind it and that a scheduled retry still has one left |
| `LeasesOwned` | `LeaseOwnership` | `LeaseFit`, row by row, with the `stale` exception |
| `ExecutionSole` | `SoleExecution` | `Holds`: an engaged worker's row still names it (active, its own), or is orphaned, unless forced or stale. Two workers cannot both be named. `Keeps` is what a single statement must preserve; `StepKinds` splits `Next` into the few effects on a row |
| `EffectsTold` | `CheckpointTruthful` | inductive with `TypeOK`: a checkpoint that is noted is in the row in the same statement, only a resumption clears it, and every other statement keeps it (`EffectsKept`) |
| `ReplayForced`, `CancelKeepsItsWord` | `NoSilentReplay`, `CancelHonoured` | action properties, from `TypeOK` and what each statement's WHERE clause admits |
| `ConversationsProof!TypeCorrect` | `TypeOK` | journals stay journals through merging and taking back (`EffectExtended`, `JournalTyped`) |
| `LeaseHeld` | `LeaseKept` | two processes at work would both be the owner (`OthersRest`) |
| `NumberedInOrder`, `WithinBudget` | `TurnsInOrder`, `BudgetBound` | `Conversations` == `TypeOK`, `LeaseKept`, both properties and `OpFits`: what an operation read at its beginning still fits when it writes, because `LeaseKept` keeps every other process at rest |
| `UndoneInOrder` | `NewestFirst` | every undo takes back the newest successful turn not undone yet; from `Conversations` |
| `SparesOthers` | `UndoSpares` | `Sound`: every journal, recorded or in the making, is `Truthful`: `before` is what the turn found first, `after` is among what it wrote (the fields `first` and `wrote` are history) |
| `UndoneWhole` | `UndoComplete` | `Traced`, for a file nobody else touched: what the turns not yet undone found and left of it form a chain that ends in the file (`Linked`, `Stands`), and an undo under way stands at one place of it (`UndoerFit`) |
| `WorkflowEngineProof!TypeCorrect` | `TypeOK` | with `ReadyFit`: the ready list holds positions, and is not empty while its first is announced |
| `EndsTruly` | `EndsHonestly` | `InStep`: the status of a step and the state of its promise agree; `FatalFit`: an error is remembered exactly when a step failed; `EndFit`: a run that is over is over for the reason it gives |
| `ToldToStop` | `UnwatchedWereTold` | an operation is watched by its step's present attempt, or was told on the way out of its attempt |
| `Implements` | `StepsInOrder` | the refinement of `StepGraph`: every step of the engine starts, ends or blocks steps as the promise has it, or changes no status; `MayFollow` says that what waits on the ready list may still start |
| `RunApprovalsProof!TypeCorrect` | `TypeOK` | -- |
| `DecidedOnce` | `DecisionFinal` | `RowsKept`: no statement changes a row that is decided |
| `ApprovedOnly` | `OnlyWhatWasApproved` | `AnswerFit` and `GrantsFit`: every grant goes back to a person's yes for the run, for the same invocation and scope |
| `DeskCleared` | `NoneLeftPending` | `WaitFit`: who has stopped waiting has closed its row |
| `Obeyed` | `DecisionCounts` | for the inbox (`Door = "inbox"`); what the GitLab handler does otherwise is in section 7 |
| `AskedAgain` | `AsksAgain` | of invocations made outside a workflow, where a mark is on the invocation itself; inside one it is false (section 6) |
| `AskingProof!EffectsApproved` | `AsApproved` | `CallsFit`, `ToolsFit`: every effect that is done has its own decision behind it, and what is written replaces what was shown; the approvals by the lemmas of `RunApprovalsProof`, for each of their three instances |
| `DecisionsReach` | `DecisionsHold` | by the same lemmas, for any requests, invocations, workflow runs and scopes, whichever invocation is of which workflow run; only `Door = "inbox"` is assumed. It says nothing of grants after outside text |
| `TrustIsAgreed` | `OnlyWhatWasAgreed` | `AgreedFit`, `CopyFit`: every copy of the file that a command holds, too, names only what was agreed to; a command about to write holds the file as it is, unless two writers crossed (`WithdrawnFit`: a revocation stays) |
| `ProgressProof!CallsTypeCorrect`, `CallsAlwaysCounted` | `CallsAreCounted` | `PlaceFit`: whoever sleeps has a try left, whoever works tools a round; `SpendFit`: what was sent, and what the meter has counted ahead of being sent again, is at most what was counted and one for each switch; `OnceFit`: an agent's tools were asked for where its call is now, in a conversation that holds their results, unless a connection broke after them |
| `AnswersAlwaysReach` | `AnswersReachTheirCallers` | `ServerFit`: a numbered request belongs to its caller, who waits for it; a server that is gone has no request open; `HostFit`: a worker that is owed or owes an answer is held |
| `RunsProof!IssueTypeCorrect`, `RunOnce`, `Reviewed`, `DeliveriesKept`, `DeliveriesAlwaysHold` | `DeliveriesHold` | `StartFit`: a start is owed for each time the row was queued; `RequestFit`: requests belong to attempts that were started, and the present attempt has none while it runs |
| `RunsProof!SealedAlways` | `SealsItsReceipt` | `StageFit`: each stage of the run with whether its receipt is begun and sealed, telemetry failing or not; exempt is a run that failed and could not export its telemetry either (`unsent`) |
| `CompleteSuccess` | `SuccessIsComplete` | `StepFit`: the engine counts a step as done only with its evidence, and finishes when no step is left to start. That then every step succeeded needs the order of the steps (`OrderAssumption`): a minimal step that did not would be startable |
| `Grounded` | `KnownGround` | `GroundFit`: a plan nobody meddled with is true of the worktree until the receipt begins; whoever changes the worktree spoils the plans of the others (`TouchGives`) |
| `NotLockedOut` | `NoneLockedOut` | `LockFit`: who the lock file names is filling it, holds it, or is dead |
| `LosslessRemoval` | `NothingLost` | action property. `LookFit`: who is about to remove the worktree looked, and what it saw was nothing to lose; one action removes, every other one leaves a worktree. So what is lost differs from what was `looked` at, which git only lets pass when it is told to force |
| `RecordsProof!ReceiptsAlwaysTell` | `ReceiptsTell` | `SealedAlways` and, of the chain of entries, `PlaceFit` (an entry waits, was taken or was refused), `LineFit` and `SignedFit` (the line being written is the next, linked to the last that was taken; each entry is signed once), `TakenFit` (nothing is taken behind the seal), `LinkFit` (where no line is spoiled, all that was taken is there, each linked to the one before, the seal last), `ToldFit` (who returned has its entry taken), `DepthFit` |
| `CostsAlwaysCounted` | `CostsAreCounted` | `ChargeFit`: a meter has charged what it was told; `PieceFit`: no span is in two pieces; `ReadFit`: what a report still owes is in a piece it has still to read, which holds nothing it has counted; what is moved, replaced or collected meanwhile is owed no more |
| `StepsAlwaysVerified` | `PassedIsVerified` | `FileFit`, `PointFit`: the file and the place in it; `VerdictsFit`: the approvals of the attempt are a beginning of the list it has to pass, and all of it when the step passed; `VotesFit`: a quorum that passed had all its votes and enough of them |
| `LoginsProof!TypeCorrect`, `LoginsAreKept` | `LoginsKept` | `Whole`: who works under the lock holds it and its work fits the file, so the file can be read; while nothing went wrong, `TokensFit`: the token in the file is the service's good one unless its renewal is under way |
| `ConversationsProof!LinesAlwaysMeant` | `LinesAreMeant` | `WaitingFit`: who waits for a line is the loop, though not during a turn, or the question on the screen; `QuestionFit`: while its turn runs, the prompt is that of the open question |
| `ScreenAlwaysTrue` | `ScreenIsTrue` | `ViewFit`, which holds while `orderly`: what each request under way will answer is told apart by whether it was read before or after the turn (`Following`); a message that was taken is pending or shown, once |

Assumptions: only the named ASSUMEs of the modules, which TLC evaluates in the
runs: limits are numbers, the absent owner is no worker, mortal processes are
processes, a route is a list, each delivery is about a known issue, no agent is
called "session", the dependencies of a workflow form no circle (both
`WorkflowEngine` and the page refuse one: `workflow/engine.js:122`), no worktree
is not a worktree. Three theorems have a hypothesis of their own, and say so:
`Obeyed` and `DecisionsReach` (`Door = "inbox"`; GitLab's handler takes one answer
for another, section 7) and `AskedAgain` (each invocation is outside a workflow;
inside one the code does otherwise, section 6).

What proving changed. `PublishedIsReviewed` used to say that a merge request on
GitLab comes from a run of the present attempt that succeeded. The proof did not
go through, rightly: after a crash, a forced resumption and a cancellation the
job's present attempt may have thrown while the request of the one before is
there. Three mishaps are needed, and the run allows one. It now speaks of
attempts that are past their run, which is what the trigger decides on. That
nothing follows the seal of a receipt is not inductive over the file: an append
that was accepted before the seal may still be on its way, and a late one is
refused by what the store *took*, not by what is written; hence `TakenFit`. The
loss of a worktree could only be stated with what the run had seen of it
(`looked`): the look and the removal are two commands of git. The lock's module
became a part of `ProjectRun`, and `LastLeft` and the engine's ready list are
positions instead of filtered sequences: the same values, without recursion.

`AttemptsBounded`, `LeaseOwnership`, `BudgetBound` and `NewestFirst` have no run
property of their own; the proofs cover them for every instance.
`OnlyWhatWasApproved` is a part of `AsApproved`; `DecisionCounts` and
`NoneLeftPending` of `DecisionsHold`; `SealsItsReceipt` and `SuccessIsComplete` of
`ReceiptsTell`; `KnownGround` and `NoneLockedOut` of `KnownGrounds`; the type
correctness of each module of a composition of its `WellTyped`. `AsksAgain` is a
part of none: the run `GrantsEnd` shows it violated.

Only model-checked: `NeverQuieter`, `ShownBelongs` and `FilesStayWhole`; of
`KnownGrounds`, that carried work is there (`CarriedIsThere`) and that an accepted
file has an order; of `ProjectRun`, its `TypeOK`. `CarriedIsThere` and that `TypeOK`
rest on what `Carried`, a recursive function over the steps, computes. Out of the
prover's reach and left to TLC: every liveness property (fairness, ENABLED;
`RunEnds`, `WorkEnds`, `LeaseReturned`, `PageKeepsUp`), and what a recursively
defined operator computes for every input (induction over data).

## 6. Where code and documents disagree

- `QueueShared` (`WorkersNeverShare`): `resume` and `requestCancel`
  (`workflow/queue.js:211`, `:258`) check what they read and write without
  repeating the check. A cancellation decided on "queued" overwrites a row that
  a worker has claimed; an unforced resumption then hands the job to a second
  worker while the first still executes. `workflow/queue-worker.js:5-6`:
  "workers never take the same job."
- `EngineStall` (`ReturnsSummary`): with `failFast` off and a chain listed
  backwards (c, b, a), the failure of a leaves c pending after the one pass of
  the scan, and `run()` throws "stalled" (`workflow/engine.js:85`).
  `docs/architecture.md:171`: the engine "returns a summary rather than throwing
  when `failFast` is disabled."
- `RunAlone` (`WorksAlone`): only continuations take the worktree's lock
  (`project-runner.js:58-60`), so between two steps of the run that made it the
  plan finds the worktree free and its tree as expected, and a continuation
  works beside it. `resume-plan.js:163`: "nobody else is working in the
  worktree". The passing runs assume `Patient`: nobody continues a run that is
  still working.
- `StatusEarned` (the invariant `SuccessIsEarned` of `IssueTrigger`): the
  trigger sets the commit status to "success" unless a pipeline failed
  (`gitlab/issue-trigger.js:91`). With `failFast` off a run that failed returns
  its summary; nothing is published, there is no pipeline, and the commit shows
  success. `docs/architecture.md:171`: "Publishing, the CLI exit code, and the
  GitLab commit status all key off `summary.status`".
- `ToolsRepeated` (`ToolsNotRepeated`): a connection that breaks after tools ran
  counts as an unreachable host (`providers/openai-compatible.js:285`,
  `anthropic.js:286`), and the router goes on to the next provider
  (`providers/router.js:99`), which asks for the tools of the task again.
  `docs/architecture.md:57-58` on when to stop instead: "This prevents duplicate
  file changes or tool calls after an ambiguous failure."
- `GrantsEnd` (`AsksAgain`): the harness keeps and looks up a person's yes under
  the `runId` of the invocation (`core/harness.js:403`, `:424`) and marks text from
  outside under `metadata.workflowRunId ?? runId` (`:295`). Every step of a workflow
  sets `workflowRunId`, so the mark meets no grant: a yes "for the run" goes on
  answering for that agent after it has read text nobody here wrote.
  `core/harness.js:452-453`: "once a run has pulled in text nobody here wrote,
  every run-scoped yes in it falls back to asking again"; `docs/first-real-run.md:350`
  says the same. What is left is that grants do not cross from one agent to
  another, and that an invocation outside a workflow does ask again (`AskedAgain`).

## 7. Seen while modelling, without a run of their own

Each can be reproduced: with the constants given, or, where a property is
named, by asking for it under the constants of the run its module is a part of
(a property that no run asks for stands in the module for this).

- An abort during the await of `workflow.step.started` is not heard by that
  step, which runs to its end (`workflow/engine.js:162`): `CancellationPropagates`
  under the constants of `EngineSafety`.
- The GitLab handler takes "approved-for-run", decided from the command line,
  for a refusal (`gitlab/approvals.js:75`): `DecisionCounts` with
  `Door = "gitlab"`.
- A `cancel_requested` row that an outdated write left without a lease is never
  swept (`workflow/queue.js:307`): why `CancelPending` excepts `stale`.
- With observability's `failureMode` "fail", the catch of `runWorkflow` may throw
  before it seals (`project-runner.js:411` before `:419`, against the comment at
  `:266-268`): such a run leaves its receipt begun and unsealed. `SealsItsReceipt`
  names these runs (`unsent`) and holds for all others.
- An append that fails is not tried again, the seal's included, and the half line
  it may leave spoils the one that completes it (`core/receipt-store.js:27`).
- The lock file is blank between being opened and filled, two processes may
  remove one stale file in turn, a lock older than a day counts as stale under a
  living run, and a release removes whichever file is there
  (`runtime/worktree-lock.js`): two runs can hold the lock. The properties of
  the run models are stated so that they say what still holds.
- With `Concurrency` 2, two steps' digests may be recorded out of order;
  resuming with `--reset-partial` then goes back to a tree without the later
  step's work although its result is carried over: `CarriedIsThere` with
  `Concurrency = 2`.
- A continuation does not copy the carried steps' agent entries into its own
  receipt, so continuing it runs those steps again.

Plugins, providers, tool servers.

- A worker that exits before all plugins are set up leaves its registrations
  behind: its clean-up is armed only afterwards (`plugins/load-plugin.js:73`,
  against `docs/plugin-isolation.md`): `GoneIsUnregistered`. A fetch whose
  approval arrives after the worker's end is still sent; calls that are pending
  at a graceful exit wait for their own timers.
- A connection that breaks after tools ran: section 6. `ToolsRunOnce` excepts
  exactly these agents (`cutOff`).
- Each switch of interface costs a request the meter does not count, which
  `SpendingBounded` allows for.
- One agent's timeout or abort at a tool server closes it for all agents.
- With observability's `failureMode` "fail", an agent that failed and whose span
  cannot be exported either leaves no receipt (`core/harness.js`).
- Spans: a report lists the pieces before it reads them, so a rotation in between
  makes it miss the piece that was moved (`observability/telemetry.js:190-207`,
  against the comment at `:178-180`); two rotations in one millisecond, of two
  processes, replace a piece (`:183-187`); gc removes archives with their costs.
  `CostsAreCounted` names these three and holds for every other span. Usage after
  a crash is not counted, budgets are per process, and a line of telemetry that
  is half written is not modelled.

Steps, deliveries.

- A ladder in a file written by hand may verify with nothing
  (`workflow/definition.js:7-9` against `content/load-project.js:31-37`):
  `SomethingVerified`. The comparison that ends a stuck ladder survives a tier
  that errored; the baseline stops at the first failing command; a duplicated
  need is rejected as a circle.
- The first checkpoint of the trigger is outside its `try`
  (`gitlab/issue-trigger.js:66`): if it fails, or the process dies, the commit
  stays "running". A checkpoint that throws after publishing leaves "failed"
  beside a merge request. A canceled, skipped, manual or late pipeline counts as
  success. Two deliveries of one issue share one status.

Settings, trust, content, files.

- With a committed default "allow", a user's rule that names a command decides
  over a committed human rule that does not (`policy/engine.js:132-138`,
  `config/layers.js:212-215`, against `docs/settings.md:34`): `NeverQuieter`
  promises no more than the weaker of the committed rules and default. An empty
  section replaces the committed one. A refusal that two files cause cannot be
  mended from a surface; two surfaces that save at once lose a change.
- `trustProject` reads the authority anew after the answer: what changed in
  between is trusted unseen (`raced`). Two commands that read the file before
  either writes lose a trust or a revocation (`crossed`).
- `lockReviewedContent` compares one capture and writes another
  (`runtime/project-content.js:122-130`): `LocksWhatWasShown`. The dialog sends
  the digest of the review as refreshed since.
- Concurrent requests about agents can close a circle, or delete what is being
  referred to (`crossed` in `AgentFiles`); a server that ends between prompt and
  manifest leaves a prompt of nobody.
- `applyDraft` compares, then writes (`forge/author.js:321-336`): a file that a
  person made or changed between the two is overwritten or adopted, and the undo
  then removes it (`raced` in `Authoring`). The undo does not look at which
  application it was shown.
- A look writes when an import of the same process is under way, for `dry` is
  one variable of the module (`config/migrate.js:353`, against `:77-78`):
  `LookWritesNothing` with `Together <- {{"look", "page"}}`. A crash between
  prompt and manifest leaves a prompt that later imports skip.
- A run's secrets come from a store without a refresher
  (`secrets/resolver.js:147`, against `docs/login.md:19`): `RenewedByItself`. The
  lock of the logins counts as stale after 30 s, which a slow renewal may take;
  breaking it and releasing it remove whichever file is there; the old vault
  item is forgotten before the file is written (`torn`).

Surfaces.

- The page: an answer about readiness that comes after the click enables Start
  again (two runs); typing is lost on a redraw in places
  (`ui/client/core.js:3-4`); what is running is marked after the receipts were
  read (`runtime/project-state.js:286`); the diff of a worktree may stand under
  another (`DiffBelongs`); a write between the check and `git worktree remove
  --force` is lost (`late`); prices are dropped by the row of a model, for a
  local `state` shadows the page's (`ui/client/worktrees.js:418`): `PricesKept`;
  closing after Save closes whichever editor is open; leaving a sign-in ends the
  polling of another one (`OwnEndOnly`); the chat's text box is cleared after
  its await, a turn that ends fast is drawn twice, an undo may go to the
  conversation opened since.
- The terminal: an approval shows no more than fits, and the key decides on it
  all the same (`tui/app.js:833-836`, against `docs/tui.md`):
  `DecidesWhatIsShown`; two keys in one chunk are both read before the first is
  drawn; lines typed ahead of a question are dropped; an interrupted question
  leaves its waiter.

## 8. What is not modelled

`PROJECT.json` lists every component with its status and the reason. In short:

- formats: the translation of requests and streams of providers, compaction of
  conversations, secrets and supply-chain scans, prices, the validation of each
  configuration section, rendering, wording, arguments of commands;
- sequential code with nothing in between: survey, diagnosis, evaluations, smoke
  tests, fixtures, sandbox set-up, replay, receipts' views, the code graph;
- protocols left out although they are ones: the merge train, questions of an
  agent to a person, proposals, the worker that matches expressions, the garbage
  collection of sealed receipts and branches, the editors of ladders;
- drift of the configuration in a resumed run, and runs in the checkout itself,
  whose lease is `ChatWorkspace`'s.

External code (SQLite, git, the file system, GitLab, a browser) appears as the
atomicity of a statement, a command and a file operation, and as requests that
are answered in any order or not at all. Components in one run of several parts
do not act on each other there: that a worker's abort reaches a run, say, is in
`QueueService` (the worker) and in `ProjectRun` (any abort, at any time), each
with the other side free.

## 9. The plan

Order: what loses or repeats work first (queue, engine), then what lets work
happen (approvals), then what people's files depend on (chat, runs), then what
surrounds them: providers, tools and plugins; receipts, steps, deliveries and
costs; settings, trust, content, logins; the surfaces. That is done. Left:

1. proofs that are left: `ShownBelongs`, `FilesStayWhole`, `NeverQuieter`; type
   correctness of `ProjectRun` and `CarriedIsThere`, which need what `Carried`
   computes;
2. the protocols of section 8 that are left out: merge train, questions,
   proposals, garbage collection beside a resumption;
3. an abstract job (what who submits one is promised) that `QueueService`
   implements.

## Running it

    tlc -workers 2 -config Progress.cfg MCProgress.tla
    tlc -workers 2 -config EngineSafety.cfg WorkflowEngine.tla
    tlapm ProgressProof.tla

Each run takes one and a half to four minutes with two workers, the largest some
two million states; each proof takes two to eight minutes (`ConversationsProof` and
`RunsProof` are the longest).

The map in `PROJECT.json` names, for each module, the definitions that stand for
a handler or a piece of state; a helper whose code lies within the lines of one
that is named has no entry of its own.
