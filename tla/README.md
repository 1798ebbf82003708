# TLA+ specifications of e2b-agent-runtime

e2b-agent-runtime is a controller that gives coding agents remote workspaces in
E2B sandboxes: it starts and supervises the sandboxes, clones and publishes
repositories through a GitHub App, drives browsers, and leads a coding task from
a plan to a pull request through evidence, repair budgets and a completion gate.
Its clients call MCP tools over HTTP. The controller is one Node.js process per
deployment unit: tool calls interleave at every `await`, several controllers
may share one Postgres database, and every sandbox, GitHub, Chromium and
database request can fail, time out or lose its answer.

This directory models the parts of it in which those interleavings decide
something. Paths such as `src/workflow/task-store.ts` are relative to the
repository's root.

Contents: [inventory](#inventory), [modules](#modules), [runs](#runs),
[what the models show](#what-the-models-show), [proofs](#proofs),
[what is not modelled](#not-modelled), [plan](#plan).

## Inventory

For every component: its state (S), its operations (O), whom it talks to (I),
what is hard (H), and what makes it correct (C). The module that models it
follows its name.

### Keyed in-process locks: `KeyedLock`
`src/runtime/repository-lock.ts`, and the same code again in
`src/workflow/task-store.ts:49-80` and `src/workflow/pr-repair-store.ts`.
- S: a map from a key to the promise of its present owner.
- O: `acquire` (wait while the map has a promise, then store one's own and
  return a release function), `withLock`.
- I: task updates with files, all repository tools, the PR repair tools.
- H: no queue but that of the JavaScript engine: between a release and the job
  of the first waiter, any job queued earlier runs.
- C: one task per key at a time; a waiter is always woken; where nothing
  overtakes, first come first served; every call gets in.

### Coding task workflow: `CodingTask`
`src/workflow/{task-store,evidence-ledger,validation-repair-manager,completion-gate,plan-registry,checkpoint-manager}.ts`,
called by `src/mcp/tools/phase5-tools.ts`.
- S: the task row (state, counters of commands and repairs, base and current
  commit, plan state), the evidence ledger, validation cycles, repair attempts,
  checkpoints; outside of it the Git checkout in the sandbox.
- O: scan, set plan, update step, record command, start and complete a cycle,
  start and complete a repair attempt, resume, evaluate the gate, abandon.
- I: every operation asks Git in the sandbox between the read of the task and
  its write.
- H: decisions on copies; two transactions per operation; failed Git commands
  that read like empty answers; a ledger that is listed 100 records at a time.
- C: the budgets hold, up to a known overshoot; a blocked task has spent one;
  no command counts without its record; the gate lets through what it
  documents; evidence is stale once a repair changed code.

### Worker sessions: `WorkerSessions`
`src/runtime/{session-registry,concurrency-gate,e2b-worker-manager,lifecycle-reconciler}.ts`,
started by `src/controller/server.ts`.
- S: the registry of session rows (a map in memory written to a file, or a
  table), the gate's flag, and outside of it the sandboxes.
- O: create, run a command, destroy, destroy all, a reconciler's pass every
  60 s (expire, probe, mark as gone).
- I: the E2B API; the registry is read by status tools and by workspaces.
- H: limit test and save are several awaits apart; overlapping passes (a
  `setInterval` does not wait); whole-row writes with Postgres; file writes that
  overlap, fail, or are cut off by a restart, which reads the file again.
- C: bounded number of active sessions; only a restart forgets a running
  sandbox; a session that was ended comes back only by a restart on an older
  file; a dead one is noticed.

### Leases and the clean-up job: `Lease`
`src/persistence/postgres/leases.ts`, `src/persistence/memory/store.ts`,
`src/runtime/cleanup.ts`.
- S: a row per lease name: owner, expiry, whether released.
- O: acquire (insert, else look, else update), release, look.
- I: `CleanupService` would hold one while it deletes old rows; nothing in this
  commit starts that service.
- H: three queries with no transaction; a clock read before the first of them;
  answers that are lost after the write.
- C: never two holders; a holder's belief is backed by the table.

### Pull request repair: `PrRepair`
`src/workflow/pr-repair-store.ts`, `src/mcp/tools/phase8-tools.ts`,
`src/github/client.ts`.
- S: a row per repair session (state, attached, current and latest pushed head,
  head of the checks, cycles, commits), cached in memory and saved to a file;
  the clone in the worker; the head branch at GitHub.
- O: attach, start the workspace, plan, start and complete a cycle, preflight,
  push, refresh CI, post a response, and look-ups that record evidence.
- I: GitHub, Git in the worker, the task store, the evidence ledger.
- H: locks are per tool and session, so that different tools interleave on one
  row, and two of them take none; the cached object is changed before a save
  that may throw; other people push to the same branch; shells amend, reset and
  rebase the clone, and preflight tests no ancestry.
- C: what is recorded as pushed was the head of the branch; a session that
  preflight calls ready can be pushed, unless a shell took commits off its
  clone; the cycle limit survives failed saves and restarts; a task has one
  repair session.

### Repository tools: `RepositoryPublish`
`src/mcp/tools/repository-tools.ts`, `src/e2b/git-operations.ts`,
`src/github/preflight.ts`.
- S: the repository state and the validation records in a worker session's row,
  in the registry's file or in Postgres; the clone, its branches and its HEAD;
  the working branches at GitHub.
- O: bind, clone, write a file, apply a patch, create a branch, commit, record a
  validation, preflight, publish, hand off.
- I: the session registry, Git in the worker, GitHub.
- H: preflight and `validation_record` take no lock; with Postgres a tool works
  on a copy of the row and writes the whole of it; the branch of the row is
  pushed, but what is confirmed before and recorded after is HEAD, which may be
  on another branch; shells edit, commit, check out and reset beside the tools; a
  push whose answer is lost; a file that is older than the row when it is read
  again.
- C: where HEAD is on the branch that is pushed, a push publishes what was
  confirmed and the head that is handed off is on that branch; with files only a
  restart forgets, and only what was being saved or spoilt.

### Coding workspaces, terminals and their output: `Terminals`
`src/workspace/*.ts`, `src/terminal/terminal-manager.ts`,
`src/terminal/pty-buffer.ts`, `src/mcp/tools/phase4-tools.ts`.
- S: a record per workspace (status, worker session), a map of terminals per
  workspace, per terminal a bounded ring of bytes with two cursors.
- O: start a workspace (worker, clone, first terminal, or roll back), destroy
  it; open, write, read from a cursor, close, close all.
- I: worker sessions, PTYs of the sandbox.
- H: a start that fails half-way; `destroyWorkspace` during another; errors that
  are swallowed; a ring that overflows, and reads that cut a character.
- C: no worker and no PTY is out of reach; a closed terminal leaves the map; a
  reader follows on.

### Browser sessions: `BrowserSessions`
`src/browser/browser-session-manager.ts`, `src/mcp/tools/phase6-tools.ts`.
- S: a map of sessions (state, pages, a promise chain as lock, trace flag), and
  the Chromium behind each.
- O: open, new page, close page, navigate, start and stop a trace, close.
- H: the limit is tested before the launch; whoever waits for the chain does not
  look at the session again; closing and tracing do not wait for it; the error of
  `browser.close()` is swallowed.
- C: bounded overshoot of the limit; no Chromium without a session, but for those
  whose closing failed; no state that nobody ends; the chain serves in order and
  always moves.

### Page evidence and assertions: `PageEvidence`
`src/browser/{evidence-collector,page-inspector,browser-assertions}.ts`.
- S: per page bounded lists of console messages, errors and requests, and the
  map of element references.
- O: listen, record, read from a cursor, snapshot, assert, clear.
- H: cursors are indices into a list that loses its oldest entries; snapshots
  overlap; some assertions read a window of the list.
- C: what an assertion may overlook, what a reader may miss, whose references
  resolve.

### Browser verification cycles: `VerificationCycles`
`src/browser/verification-cycle-manager.ts`.
- S: per task the list of cycles. O: start, complete, get.
- H: cycles are completed twice, late, and out of order.
- C: "verified" is what was last said of the latest cycle.

### Controller and authentication: `Access`
`src/controller/{auth,app,ui}.ts`, the trigger of
`src/persistence/postgres/migrations/0003_auth_trigger_and_admin.ts`,
`src/scripts/auth-cli.ts`.
- S: memberships, grants of OAuth clients, static tokens, cookies; Supabase's
  users, authorizations and consents.
- O: sign up, sign in, the bearer check of `/mcp`, consent, approve, deny,
  revoke, administer a membership, create, rotate and revoke tokens; and what
  migration 0002 lets a user's token do at Supabase: revoke a grant by a function
  (`:138-160`), update its row (`:93-95`).
- H: a check is two queries; sign-ups overlap; approval is a write at Supabase
  and one of our own, whose error is swallowed; any token of a user, one of an
  OAuth client's too, may write the user's grants.
- C: who was told to be out stays out until somebody readmits; there is an owner;
  whoever has consented can revoke.

### Parts without a module
- Plans and task creation (`src/workflow/{plan-registry,task-store}.ts`): a step
  update writes back the whole plan it read; one active task per workspace is a
  unique index that only Postgres has.
- GitHub App tokens (`src/github/token-broker.ts`): a cache with expiry and the
  refresh in flight, which callers share.
- Postgres client, migrations, import of local state
  (`src/persistence/postgres/*.ts`, `src/persistence/migration/*.ts`).
- Rate limiter, quotas, idempotency records: state in tables, no caller.
- Browser actions, previews, accessibility scans and artifacts.
- Repository intelligence, search, diff review, failure classifiers: functions
  of text.
- Providers, provisioning, configuration, scripts, logging, metrics, redaction.

## Modules

| Module | Models | Uses |
|---|---|---|
| `KeyedLock` | `RepositoryLockManager` and its two copies, job by job | `FifoLock` |
| `FifoLock` | abstract: a lock with a line of callers per key | |
| `CodingTask` | every phase 5 tool that writes an existing task | `RepairBudget` |
| `RepairBudget` | abstract: attempts that open and are charged | |
| `WorkerSessions` | registry, gate, worker manager and reconciler | |
| `Lease` | `PostgresLeaseManager` | |
| `PrRepair` | the phase 8 tools, their store, the clone and the branch | |
| `RepositoryPublish` | the repository tools of one worker session | |
| `Terminals` | one workspace: its start and end, its terminals, the output of one | |
| `BrowserSessions` | `BrowserSessionManager` | `FifoLock` |
| `PageEvidence` | lists, cursors, references and assertions of one page | |
| `VerificationCycles` | `VerificationCycleManager` for one task | |
| `Access` | who is let in, and what changes it | |
| `MC...` | symmetry sets, views and sets of tools for the runs | its module |
| `LocksProofs` | theorems about `KeyedLock` and `Lease` | both, `FifoLock`, TLAPS |
| `BrowserProofs` | theorems about the three browser modules | all three, `FifoLock`, TLAPS |
| the other `...Proofs` | theorems about the module of that name | its module, TLAPS |

### How code becomes actions

A JavaScript function runs without interruption from one `await` that really
waits to the next, so **one action is one such stretch**. What a function keeps
in its locals across an `await` is a record in `calls` (`act` in
`WorkerSessions`), whose field `at` names the `await` the function stands at;
returning and throwing reset the record. An `await` of a function that awaits no
I/O resumes in the same drain of the microtask queue; `KeyedLock` shows those
jobs one by one, and the other modules take them as one stretch. With Postgres,
every query is a stretch of its own; a transaction with an advisory lock or
`FOR UPDATE` is one step of whoever holds it.

Requests that leave the process have explicit outcomes: an answer, a failure
that the code catches (the action of the `catch`), or a failure it does not
(`Abort`, `GiveUp`, `...Fails`). A controller that dies is `Restart`
(`WorkerSessions`, `PrRepair`, `RepositoryPublish`), `Crash` (`Lease`) or
`Abort` (`CodingTask`). A call that is refused before its first effect is no
step. Variables marked *ghost* in a module record what somebody was told or what
has happened; what the code does never depends on them. `At`, `Goto`, `GotoWith`
and `Return` only write down where a call stands.

### CodingTask

| TLA+ | Code |
|---|---|
| `task` | `CodingTaskState`, the row or file of `TaskStore`; of the plan only what the gate tells apart |
| `evidence` | the records of `EvidenceLedger`, by timestamp; `lost` when the file was rewritten without it |
| `attempts` | repair attempt ids handed out |
| `tree` | the checkout in the sandbox: commit, branch, whether it is dirty |
| `calls` | the tool calls in flight |
| `Begin` | `getTask` at the start of each handler |
| `Update` | `updateTask`; `UseDb` chooses between the `UPDATE` (which has no `base_sha` column) and the cached object that the updater changes in place |
| `Record*`, `Cycle*`, `Repair*`, `Resume*`, `Gate*`, `Scan*`, `Plan*`, `Step*`, `Abandon` | the handlers, one action per stretch |
| `Answers` | `execOneShot`: a failing command is an empty output with exit code 0 |
| `Visible`, `Rewritten` | `listEvidence` returns the `Window` oldest records (100 in the code), and with files the ledger is rewritten from them; `Kept` are the records there are, `ListedWhole` says that one listing returns them all |
| `Edit`, `Commit`, `LeaveBranch` | external: the agent in its terminals |

`NoSha` stands for the empty string and for `unknown`. Limits of 0 do not
occur: `createTask` replaces them by the defaults.

**RepairBudget** has `open` and `spent`: an attempt opens only while the budget
is not spent, charging it closes it. `CodingTask` implements it where calls do
not overlap, with `spent <- task.repairs` and `open <- task.attempt # 0`.

### KeyedLock and FifoLock

| TLA+ | Code |
|---|---|
| `owner` | the map `locks`: whose promise is stored under a key |
| `waiters` | the callers that await that promise, in the order of their `await`s |
| `jobs` | the microtask queue |
| `Call`, `CallAgain` | an event, or the code after a release, calls `acquire` |
| `Wait`, `Enter` | the `while (this.locks.has(key))` test: it awaits, or it stores its own promise |
| `Hop` | a job between a resolved promise and the code that awaits it |
| `Settle` | the I/O of the locked task ends |
| `Exit`, `Done` | `finally`: the entry is deleted, the promise resolved, its waiters queued; then the caller's own continuation |

`Prompt` allows tasks that end without I/O, `Burst` the number of jobs that one
turn of the event loop queues. `FifoLock!Pass` is a turn that ends without any
`await`; only `BrowserSessions` has those.

### WorkerSessions

| TLA+ | Code |
|---|---|
| `row` | a `RuntimeSession`'s state in the registry |
| `saved` | with files, the same in the registry's file |
| `crossed` | ghost: writes of the file have overlapped, or one has failed, since the last restart |
| `box` | external: the sandbox in E2B |
| `overdue` | sessions past `expiresAt` |
| `gate` | `ConcurrencyGate.locked` |
| `act` | clients' calls and reconciler passes in flight |
| `GateEnter`, `GateWake`, `GateList` | `checkAndAcquire`: one wait of 50 ms, then the count of active rows |
| `Spawn`, `Save`, `PrepareFails`, `SaveFails`, `Killed` | `createWorker` and its roll-back |
| `RunStart`, `RunRead`, `RunWrite` | `runCommand`: with Postgres `updateSession` reads the row and later writes the whole of it |
| `Destroy*`, `Kill`, `Mark`, `Spared`, `Finish` | `destroyWorker`, `destroyAll` |
| `PassStart`, `PassLate`, `Expire`, `PassProbe`, `MarkGone` | a pass of `LifecycleReconciler` |
| `Update`, `Snapshot`, `Rename`, `WriteFails` | `updateSession` and `saveSession`; with files `persist()`: what the map holds once the directory is there is written to a temporary file and renamed over the registry's |
| `Restart` | a new process: with files `load()` reads what was renamed last |

With files, `updateSession` changes the map in one stretch, and the write of the
file follows; it may fail, leave the map ahead of the file, and overlap others.
Overlapping writes are renamed in any order, and two of one millisecond share a
temporary file and can leave one that does not parse, which `load()` takes for
an empty registry. The state `failed` of a session is never set by the
code. The expiry of a session that is not active is never read, so `Overdue`
is limited to active ones.

### Lease

`row` is the lease's row, `now` the one clock all controllers and the database
share, `calls` the controllers' calls in flight, `granted` the time until which
each believes to hold the lease. `Insert`, `Select`, `Decide`, `Update` are the
three queries of `acquireLease` and the test between them; `Release` is
`releaseLease`. `Fail` lets any query fail or lose its answer after it took
effect. The in-memory manager keeps a map of its own per process and arbitrates
nothing between controllers; it is not modelled.

### PrRepair

| TLA+ | Code |
|---|---|
| `remote` | external: the head branch at GitHub. A sha is the history it names, so that a fast-forward is `IsPrefix` |
| `local`, `dirty` | the clone of each session's worker and its working tree |
| `history` | ghost: whether a shell took commits off a session's clone, and whether it was cloned again since |
| `mem`, `disk` | `PullRequestRepairStore`: the cached row and the saved one |
| `bound`, `evidence` | what the tools write into the task store and the ledger |
| `Save`, `SaveThrows` | `updatePRRepair`, which changes the cached object, saves, and then caches a copy |
| `Attach*`, `WorkspaceStart`/`Start*`, `PlanSet`, `Cycle*`, `Complete*`, `Push*`, `RefreshCi`/`CiVerdict`, `PostReviewResponse`, `List*`, `PrGet`... | the tools `github_pr_*`, one action per stretch |
| `count`, `own` of a call | `commitsCreated` as the handler's own object shows it: an update changes that object until a save has replaced it |
| `PreflightReady`, `FinalHandoff` | the two tools that decide or report and change nothing; operators the properties use |
| `GiveUp`, `Restart`, `Edit`, `Commit`, `OthersPush` | failures, a restart on the disk, shells of the worker, other people |
| `Rewrite` | external: `git reset`, `rebase` or `commit --amend` in a shell: the clone goes back to a part of its history; the commits that a rebase or an amend puts on it are `Commit` |

The tests that start `WorkspaceStart`, `PushRepair` and `Attach` are
`withLock` per tool and session or task; `cycle_complete` and `plan_set` take no
lock, so theirs have none. `granted` and `acked` count what clients were told.

### RepositoryPublish

| TLA+ | Code |
|---|---|
| `storage` | whether the registry keeps files or Postgres rows; both are explored |
| `row` | `repositoryState` and the failed `validationRecords` of the session |
| `saved`, `crossed` | as in `WorkerSessions` |
| `clone` | the clone in the worker: the branch that HEAD is on, the tip of each branch |
| `remote` | the working branches at GitHub |
| `shells` | ghost: the commits that shells made, or put on a branch |
| `repo.pushed` | ghost in the row: the branch that was pushed, if HEAD was on it when the published head was read |
| `LockFree` | `repositoryLock.acquire(sessionId)` |
| `Store`, `ReadAgain`, `Write` | `updateSession`: with files the object itself, with Postgres a second read and the write of the whole row |
| `Snapshot`, `Rename` | with files, `persist()` |
| `Bind`...`PublishHead` | the tools; `Preflight` and `ValidationRecord` need no lock |
| `BranchCheckout`, `BranchCreated` | `git_create_branch`: the branch is checked out before its head is read and the row written; a call that ends between leaves HEAD on a branch that the row does not name |
| `PublishBranch`, `PublishPush`, `PublishHead` | `github_publish_branch`: HEAD is compared with the confirmed sha (`git-operations.ts:144`), the row's branch is pushed (`:293`), HEAD is recorded (`:300`) |
| `ShellCommit`, `ShellCheckout`, `ShellReset` | external: shells of the worker, which need no lock |
| `Restart`, `GiveUp` | a new process, which reads the file; the failures |

HEAD also leaves the row's branch by a stale write-back with Postgres, which
brings an older `workingBranch` back, by a shell's checkout, and by a second
`git_create_branch` after a publication. Writes of the file on account of other
sessions' rows, which would save this one's too, are not modelled.

### Terminals

`state`, `noted` and `worker` are the workspace, its `runtimeSessionId` and the
worker; `terms`, `shut` and `pty` the map of terminals and the one with a PTY
(number 1: the tools pass no sandbox, so that the others echo); `buffer` and
`min` the `PtyBuffer`, `cursor` where the client reads next. `Start`,
`WorkerCreated`, `Cloned`, `PtyCreated`, `StartFails` and `RolledBack` are
`startWorkspace`, `Destroy` and `Destroyed` are `destroyWorkspace`, `CloseAll`
and `Killed` are `closeAllTerminals`. `Output` is what the ring receives: any byte
of a PTY that is live, or the echo of whole characters by `terminal_write`, also
beside a PTY. Of the bytes `"h"` and `"t"` are the two of one character: `Decoded` gives the length `read` adds to the
cursor, in which a cut byte counts as the three bytes of U+FFFD. One workspace
is enough, as its id is told only when the start returns.

### BrowserSessions, PageEvidence, VerificationCycles

`listed`, `state`, `pages` and `traced` are `activeSessions` and the fields of a
record, `up` the Chromium processes, `swallowed` (ghost) the sessions whose
`browser.close()` was rejected and the error swallowed: `BrowserClosed` goes on
as if it had worked (`browser-session-manager.ts:141,362`) and Chromium may go on
running. `chain` is the promise chain `handle.lock`:
the calls in the order they put their promise on it. `Join` is `acquireLock`,
`MyTurn` the resolution of the promise before one's own, `Leave` the release.
`Open`, `Launched`, `Opened`, `OpenFails` are `openSession`, and so on for pages,
navigation, closing and tracing.

`PageEvidence` numbers the entries of a page. `list` is one of the collector's
lists, `Attach` each `browser_navigate`, which adds listeners again; `Push` is
`pushToRingBuffer`, `NextCursor` the cursor of a read. `registry` and `maps` are
`elementRefRegistry` and the maps handed to `captureSnapshot`, which fills them
after its awaits. In `VerificationCycles` every operation is one stretch;
`Verdict` is `completeCycle` and `HasPassedCycle` is `getTaskVerificationState`.

### Access

`member`, `grant` and `tokens` are the tables; `asked` and `consented` are
Supabase's; `joining` is the open transactions of the sign-up trigger.
`UserComes`, `ClientComes`, `CheckGrant` and `TokenComes` are
`createAuthMiddleware`, `Approve*`, `Deny` and `Revoke` the consent and account
routes, `Administer*` the membership route, `CreateToken`, `RevokeTokens` and
`Rotate` the commands of `auth-cli`. `RpcRevoke` and `UpdateOwn` are what
migration 0002 serves at Supabase to any token of a user, whichever client it
was issued to: `revoke_current_user_client_grant` and the policy
`grants_update_own`. `told` is who was told to be out, and
`Readmit` and `Readmitted` end that when somebody readmits; `missed` are the
users whose row is absent because an error was swallowed or because their own
token made it another client's. The trigger counts `auth.users` where the model
counts `member`: the two differ only for users who were there before the trigger
or were deleted at Supabase. There is one client, so that the row of another
client is never made this one's.

## Runs

`tlc -workers 2 -config X.cfg MCModule.tla` checks one of them; the longest
takes between two and three minutes. The largest have 2.8 million distinct states
(`workers_db`), 1.8 million (`terminals`), 1.2 million (`repository_publish`) and
1.0 million (`pr_repair`).

| Run (cfg) | Asks | Bounds |
|---|---|---|
| `task_serial` (CodingTaskSerial) | `GateSound`, `ChangeClearsEvidence`, `BudgetSpec`: with one call at a time and Git that answers, is the gate right, does a repair clear the evidence, are the budgets exact? | the 9 tools the gate's verdict depends on, Postgres store, a listing of 1 record (so that a second one is beyond it), 2 commits, 2 records, repair limit 1, 3 attempts |
| `task_overlap` (CodingTaskOverlap) | `CommandOvershoot`, `CountedHasEvidence`, `RepairOvershoot`, `BlockedHasReason`: how far do two calls pass the limits, does each counted command have its record, is a blocked task really out of budget? | 2 calls, the 6 tools that count, block, resume or abandon, files, limits 1, 3 records, 3 attempts |
| `lock_bursts` (KeyedLockBursts) | `Exclusive`, `NoLostWakeup`: with any order of jobs, do two tasks overlap, is a waiter forgotten, does everything stop? | 4 callers (an owner, two waiters and one who overtakes), 2 keys, 2 jobs per turn |
| `lock_fair` (KeyedLockFair) | `FifoSpec`, `EveryCallEnters`: where tasks wait for I/O, first come first served, and all get in? | 4 callers, 2 keys, 1 job per turn |
| `lease_one_holder` (LeaseOneHolder) | `OneHolder`, `HolderInTable`: can two controllers believe to hold the lease? | 3 owners, a lease of 2 ticks, 4 ticks: a call can outlast its lease and the next one |
| `workers_files` (WorkersFiles) | `NoOrphan`, `LeftForGood`, `DeadIsNoticed`: what but a restart forgets a running sandbox, what brings an ended session back, does a dead one stay active? | 1 session (each property is about one; with two the liveness check takes too long), 2 clients, 2 passes that may overlap, requests that answer, restarts on the file, writes of it that overlap |
| `workers_db` (WorkersDb) | `ActiveOvershoot`: how far do creates and stale writes pass the maximum, over failures and restarts? | 3 sessions, 2 clients, 1 pass, maximum 1: the bound 2 is reached, 3 would be possible |
| `pr_repair` (PrRepair) | `RecordedWasRemote`, `CycleAccounts`, `OneRepairPerTask`, `CreatedOvershoot`, `PreflightIsSafe`: is what is recorded as pushed on the branch, do the counts survive, is a ready session pushable? | 1 task, 2 sessions (so that a second attach has one to create), 2 calls, 1 cycle, 2 commits by anybody, 1 push, and in each behaviour 1 mishap: a save that throws, or a clone whose history a shell rewrites. Both together only the theorems cover |
| `repository_publish` (RepositoryPublish) | `PublishedWasPushed`, `PublishesWhatWasConfirmed`, `NothingForgotten`: is what is handed off on the branch, what is pushed confirmed, what does the row forget? | 2 calls, 1 working branch besides the base, 1 commit, 1 failed validation, both storages, shells that commit, check out and reset, restarts. With a second branch or commit there are over five million states; HEAD leaves the row's branch in this instance too, for the base branch and back, and the theorems hold for any number of both |
| `browser` (BrowserSessions) | `SessionOvershoot`, `NoLeakedBrowser`, `NoStuckState`, `ChainMoves`, `OneAtATime`: how far is the limit passed, which Chromium can nobody close, who is stuck? `OverlookedErrors`, `ReadsOn`, `RefsOfTheLatest`: what do assertions and readers miss? `VerifiedByLatest`: what does verified stand for? | 3 sessions under a limit of 1, 2 calls, 2 pages of a session under a limit of 1; a page with 2 listeners, 5 entries through a list of 3 with a window of 2, 3 snapshots; 2 cycles completed twice each, on 2 commits |
| `terminals` (Terminals) | `NothingStranded`, `ClosedIsForgotten`, `ReadsFollowOn`: is a worker or PTY out of reach, a closed terminal kept, a byte read twice or skipped? | 2 calls, 3 terminals under a limit of 2, 7 bytes, any of a PTY and whole characters of an echo, through a ring of 4 read 3 at a time: it overflows, and a read can cut a character at either end |
| `access` (Access) | `LateIsRefused`, `SomeOwner`, `ConsentIsConnected`: is anybody let in who was told to be out, is there an owner, can each consent be revoked? | 2 users, 2 requests, 2 static tokens; an administrator sets one role and two statuses; a user's token at Supabase revokes and rewrites its grant |

The type invariants are proved, not run: those of `CodingTask`, `PrRepair`,
`RepositoryPublish`, `Terminals`, `WorkerSessions`, `VerificationCycles` and
`Access` as theorems, those of `KeyedLock`, `Lease`, `BrowserSessions` and
`PageEvidence` within the inductive invariants.

**Why the bounds are enough.** Each counter is bounded at the first value past
the one a property speaks about, with as many calls as the property needs to go
wrong: two calls show every overshoot, stale copy and lost write of one await,
and where a property has a theorem it holds for any number. The other
constants called "bound of the instance" only stop the environment and the
clients from going on; no property holds because of them, except that a call
which would need a step beyond a bound stays where it is.

**States taken together.** Five runs use a `VIEW`.
- `task_overlap`: its tools look neither at the branch nor at the worktree nor
  into the evidence, and there is one commit.
- `pr_repair`: no guard and no property tells two session states apart that are
  neither `REPAIRING` nor `BLOCKED`; passing evidence only chooses between two
  such states.
- `repository_publish`: what a published head was matters only while the row says
  published and HEAD was on the branch that was pushed.
- `terminals`: the bytes that have left the ring are kept for the proofs.
- `browser`: a session that has left the map and has no call in flight is never
  looked at again, but for whether it left a Chromium behind that nobody tried to
  close. The three modules of this run share no state, and no property
  relates them: `part` says which of them a behaviour is about.

`access` has the constraint `Apart`: the steps of static tokens and those of
users read and write different variables, so that they are explored one without
the other; the two meet only in the calls in flight.

**Deadlock.** It is checked for the lock, the leases and the workers. A task
may stop: with files, an abandoned one at its bounds has no more steps. A pull
request, a session's repository, a page, a workspace and the access tables stop
at the bounds of their instances, and destroyed things have no steps.

**Fairness.** Only two specifications have any.
- `KeyedLock!FairSpec`: jobs in the microtask queue run (weak fairness); the I/O
  of a task ends, and the event loop delivers what is deliverable again and
  again (strong fairness). The code justifies it: every command in the sandbox
  and every database query has a timeout.
- `WorkerSessions!FairSpec`: every pass of the reconciler goes on (weak
  fairness): `setInterval` starts one every minute, and each request in it
  answers or times out. Nothing is assumed of clients or sandboxes.
  `DeadIsNoticed` is about behaviours in which restarts come to an end, as each
  of them ends the passes there are.

Nothing is assumed of the page operations of Chromium: closing a page has no
timeout in the code, and `ChainMoves` says instead that whoever waits, waits for
a call that will release the chain if it ever returns.

**Symmetry** is used for calls, callers, keys, owners, users and sessions where
a run has no liveness property; no module orders them. Repair sessions are
ordered by creation and are not symmetric.

## What the models show

Statements of the documents that the code does not keep. None is the subject of
a run of its own: the models have the code's behaviour, and the properties above
are stated as they really hold.

1. `README.md:247` has `validation_cycle_start` enforce the repair budget.
   `validation-repair-manager.ts:89` looks at the budget in state `REPAIRING`
   only, and the refusal itself moves the task to `BLOCKED`, so that the same
   call passes the second time (`CycleStart`, `RefuseRepair` of `CodingTask`).
2. `ARCHITECTURE_MAP.md:199` has the gate block a dirty worktree. `execOneShot`
   (`e2b-worker-manager.ts:259`) turns a failing command into an empty output
   with exit code 0, which `evaluate` reads as clean; `GateSound` is checked
   where Git answers.
3. `leases.ts:30` means to renew a lease that is already owned; `acquireLease`
   returns true before it reaches that `UPDATE` (`Decide` of `Lease`).
4. `README.md:140,143-144` give maxima of workers, repair cycles and commands.
   Each is tested on a copy or a count that is several awaits old:
   `ActiveOvershoot`, `RepairOvershoot` and `CommandOvershoot` say how far the
   maximum can be passed. The limit on browser sessions is tested before
   Chromium is launched, and does not count sessions in state `FAILED`, which a
   call in flight can bring back: `SessionOvershoot`.
5. `README.md:258` lists `coding_completion_gate` as read-only; it writes
   `READY_TO_PUBLISH`.
6. `phase8-tools.ts:1061` has `github_pr_preflight_push` check fast-forward
   safety. The handler (1059-1105) compares shas and tests no ancestry: after an
   amend, a reset or a rebase in a shell it answers ready, and the push that
   follows is not a fast-forward. `PreflightIsSafe` is about clones whose history
   no shell rewrote since they were made, and `pr_repair` without that condition
   fails.
7. `docs/MCP_TOOL_CATALOG.md:12` requires a preflight before external writes.
   `github_publish_branch` and `github_pr_push_repair` ask for confirmed shas
   and look for no preflight.

What the models say besides:
- Tasks: `recordCommand` stores a new head without marking older evidence stale,
  so that `ChangeClearsEvidence` speaks of repairs only. A failed check recorded
  while the gate awaits the diff review does not stop `READY_TO_PUBLISH`. With
  Postgres the base commit found by a scan is not stored, as the `UPDATE` has no
  such column. `execution_record_command` passes no result on, so that its
  records say `passed` (`RealExecution = FALSE`).
- Repository tools: with Postgres a `validation_record` or a preflight that read
  the row earlier undoes a binding, a clone or a publication, which is why
  `NothingForgotten` is stated for files. A publication compares the sha of HEAD
  with the confirmed one but not the branch HEAD is on, pushes the branch of the
  row and records HEAD as its head. So after a `git_create_branch` that failed
  past its checkout, a stale write-back or a checkout in a shell, the published
  head is one that was never pushed; and a handoff after a second
  `git_create_branch` names the new branch, which is not at GitHub, with the old
  published head. `PublishedWasPushed` and `PublishesWhatWasConfirmed` say what is
  left: where HEAD was on the branch that is pushed, both hold. A second clone that
  fails leaves a row that says cloned, without a clone. The commits a
  handoff lists come from the clone and may be newer than its head.
- The registry's file: a restart finds an older row while a write is pending; and
  after writes that overlapped or failed any older row, or no row at all, since
  two writes of one millisecond share a temporary file. A session that was
  destroyed is then listed as active until the reconciler's next pass, and a
  binding, a clone or a publication is forgotten (`LeftForGood`,
  `NothingForgotten`).
- Pull requests: a verdict of `github_pr_refresh_ci` is written for whatever
  head the session has by then. The head of the final handoff is the current one,
  which need not have been pushed.
- Terminals: a read that cuts a character moves the cursor by up to two bytes
  too many for each byte of it, and skips as much output without a gap being
  reported (`ReadsFollowOn`). An error of `destroySession` is swallowed and the
  workspace is `DESTROYED` all the same (`ignored`). A PTY or a clone that fails
  still gives a `READY` workspace. `terminal_open` looks at no state and opens
  terminals in destroyed workspaces. The tools pass no sandbox, so that
  `terminal_exec` answers with a mock result and exit code 0.
- Browsers: `browser.close().catch(() => {})` (`browser-session-manager.ts:141`,
  `:362`) drops a session whose Chromium may still run, and nothing can reach it
  again (`swallowed`). Each `browser_navigate` adds listeners, and one message is then
  recorded several times. `http-status-below` and `no-failed-requests` read the
  100 oldest of up to 2000 entries, and `browser_network_read` returns no cursor
  to go on with (`OverlookedErrors`). Closing a session clears no list.
  A snapshot by one client invalidates the references of another. To a client
  that names no head no verification is stale, and a completed cycle may be
  completed again.
- Access: after a revocation Supabase redirects at once, so that no approval makes
  the grant active again. But the policy `grants_update_own`
  (`0002_supabase_oauth_schema.sql:93-95`) lets any token of the user do so, and
  one that the revoked client still holds is one of those, which is
  why `LateIsRefused` counts such an update as a readmission. An error of the grant's upsert is swallowed (`missed`).
  Administration asks for the role and not for the status. Of overlapping
  first sign-ups each becomes an owner. Signing out clears cookies only.

## Proofs

`tlapm M.tla` checks the proofs of module `M`. Every theorem holds for all
values of the constants that satisfy the named assumptions of the modelled
module, and assumes no more unless the table says so. The assumptions are that
limits are positive, that the value which stands for "none" is none of the set
it is added to, that flags are Booleans, and, where something is counted
(`CodingTask`, `WorkerSessions`, `PrRepair`, `BrowserSessions`), that finitely
many calls are in flight; `BrowserSessions` also assumes finitely many session
ids. What holds for any bound holds without one: a bound only removes steps.

TLC checked `FifoInv`, `GateKnows`, `RepairKnows` and `FreshInv` on instances
like those of the runs before they were proved.

### Locks and leases: `LocksProofs`

| Theorem | States | Argument |
|---|---|---|
| `MutualExclusion`, `NoWaiterForgotten` | `Exclusive`, `NoLostWakeup` | `LockInv`: an entry's owner is inside under that key and whoever is inside has the entry; who is listed under an entry waits for it |
| `FirstComeFirstServed` | tasks wait for I/O and an event queues one job => `FifoSpec` | `FifoInv`: the microtask queue is empty, or one job, or all whom a promise resumed, each once, and behind them the caller that resolved it. So nobody can get between them, and the line of a key is its waiters followed by those about to test the map (`Tries`) |
| `OneHolderAlways`, `HolderAlwaysInTable` | `OneHolder`, `HolderInTable` | `LeaseInv`: clocks read are not ahead; a row seen as one's own and active still stands, because only its expiry lets others replace it; expiries never shrink |

### Coding tasks: `CodingTaskProofs`

| Theorem | States | Argument |
|---|---|---|
| `TypeCorrect` | `TypeOK` | one lemma per group of handlers; a stretch changes one call and at most one other variable |
| `CommandsBounded` | the command count is at most limit - 1 + calls | inductive: count + calls that passed the check <= limit - 1 + calls. A call passes only below the limit; it then moves from the second summand to the first |
| `CountedIsRecorded` | counted commands <= records | inductive: count + calls between the two writes <= records; an abort only loses the second summand |
| `BlockedOnlyWhenSpent` | a blocked task has spent a budget | `BlockedInv`: a call that will refuse has read a spent budget, and no step refills one. Without it a refusal could be founded on nothing |
| `RepairsBounded` | `RepairOvershoot`: the repair count passes the limit by less than the triangular number of the calls | a potential: the count, and what the calls in flight may still add once the budget is spent. Each of the calls about to open an attempt opens it to those that will not open one any more; while an attempt is open all of these may complete it, otherwise only those that are completing one now. No step raises the sum |
| `BudgetImplemented` | calls do not overlap => `RepairBudget!Spec` | `RepairBudgetInv`: an attempt is open, or about to be, only with budget left; each step opens, charges, or stutters |
| `GateIsSound` | `GateSound` | `GateKnows`: what the gate was told at its earlier awaits (branch, status, log, evidence) is still so at the later ones, as nobody else works on the task; the listing it read is the ledger when that fits in one |
| `ChangesClear` | `ChangeClearsEvidence` | `RepairKnows`: between `markStaleEvidence` and the charge of the attempt no record is fresh |

`GateSound` and `ChangeClearsEvidence` have their conditions in their
statements. A gate that lists the `Window` oldest records knows nothing of later
failures, and with files `markStaleEvidence` reaches what one listing returns:
with a longer ledger TLC finds a record that stays fresh over a repair. So both
speak of a ledger that fits in one listing (`ListedWhole`; the second only with
files).

### Worker sessions: `WorkerSessionsProofs`

| Theorem | States | Argument |
|---|---|---|
| `TypeCorrect` | `TypeOK` | together with: whoever is past choosing a session has one |
| `NothingForgotten` | requests do not fail => `NoOrphan`: no step but a restart forgets a running sandbox | `OrphanInv`: a row that left `active`, and every call or pass about to write one, has a dead sandbox behind it; a copy that `runCommand` holds is of such a row or of a running session |
| `OvershootBounded` | active sessions <= maximum - 1 + calls | `BoundInv`: active sessions, those whose active copy will be written back, and creates past the gate are together at most that. Counting active rows alone is not inductive: a stale copy can revive one. `FileInv`: what a restart reads, and what will be renamed over it, has no more active sessions than the bound |
| `NothingComesBack` | files => `LeftForGood`: an ended session comes back only by a restart, while a write is pending or after two have overlapped or one has failed | `FreshInv`: only a create makes a row active, and what it is about to save has a sandbox, no row, and no other call at it, because all the others got their session from the rows. `FilesInv`: while no writes overlapped or failed, a file that differs from the rows has a write pending |

### Pull request repair: `PrRepairProofs`

| Theorem | States | Argument |
|---|---|---|
| `TypeCorrect` | `TypeOK` | with what each call in flight has read (`CallsKnown`), and that the cached and the saved row never differ in the task and the head of the attach (`RowsAgree`) |
| `CyclesAccounted` | `CycleAccounts` | `Accounts`: granted cycles <= saved cycles <= cached cycles <= the limit, and the cached ones exceed the granted ones by at most the saves that threw; likewise for pushes. A restart goes back to the saved row |
| `OneRepair` | `OneRepairPerTask` | `Attaching`: at most one call at a time attaches a task; until it creates its row no row is of that task, and before it updates the task that row is saved |
| `CreatedBounded` | `CreatedOvershoot` | `Overshoot`: a session that is not `REPAIRING` has as many commits to spare as calls are still completing on it; one that is has one per call of the cycle |
| `RecordedHeadsWereRemote` | `RecordedWasRemote`; of the final handoff, where no shell rewrote the clone | `Heads`: what is recorded is in the history of the branch, and the head of the attach is in all a session's tools read of a clone that kept its history |
| `PreflightSafe` | `PreflightIsSafe`, where no shell rewrote the clone since it was made | `Clones`: what one clone shares with another session's clone came through GitHub, since a commit makes a history that nobody else has (`Fresh`) |

### Repository tools: `RepositoryPublishProofs`

| Theorem | States | Argument |
|---|---|---|
| `TypeCorrect` | `TypeOK` | one lemma per tool |
| `HandoffIsPushed` | `PublishedWasPushed`: where HEAD was on the branch that was pushed, commit by commit | `PublishInv`: what any row, file or copy a call holds says is published of the pushed branch is at GitHub or of shells; copies and files matter because they are written back |
| `ConfirmedIsPublished` | `PublishesWhatWasConfirmed`: where HEAD was on the row's branch when it was confirmed | `PublishInv`: two calls are never both under the lock, so that between confirmation and push only shells change what is on the branch |
| `FilesForgetNothing` | `NothingForgotten`: only a restart forgets, and only while a write is pending or after two have overlapped or one has failed | `FilesInv`: with files no call waits between its read of the row and its change of it, and one that works on the clone does so on a bound session; while no writes overlapped or failed, the file is the row but for a write that is pending |

### Terminals: `TerminalsProofs`

| Theorem | States | Argument |
|---|---|---|
| `TypeCorrect` | `TypeOK` | |
| `NobodyStranded` | `NothingStranded` | `HeldInv`: while `startWorkspace` runs its caller is alone and no terminal was opened; a worker that runs is of a ready workspace or of a call that will make it so or end it |
| `ClosedLeaves` | `ClosedIsForgotten` | part of `HeldInv` |
| `BufferIsTheEnd` | `KeepsTheEnd`: `PtyBuffer` holds the end of the output byte by byte and drops only when full | one case per way a chunk meets the ring |
| `FollowingReads` | `ReadsFollowOn` | from it, and from what decoding a cut chunk adds to the cursor |

### Browser: `BrowserProofs`

| Theorem | States | Argument |
|---|---|---|
| `NothingLeaks`, `NothingSticks` | `NoLeakedBrowser` (a Chromium whose closing failed excepted), `NoStuckState` | `UseInv`: both, together with the types of the sessions and calls. A call stays at its `await` until its own step, and that step is the one that leaves the map, the process and the state in order |
| `ChainsMove` | `ChainMoves` | `LineInv`: a chain is calls on its session, each once, and a call that is inside is the first of them; `OpeningInv`: who opens a session is alone with it |
| `ServedInOrder` | `OneAtATime`, the refinement of `FifoLock` | each step joins a line, passes or is granted its turn, releases, or stutters, by `LineInv` |
| `Overshoot` | sessions in use <= limit - 1 + calls | a count over a larger set: the sessions in use and those that a call in flight can bring back (`LiveSessions`). Only `openSession` adds one, and it counts all but those of other calls |
| `ErrorsOverlooked`, `ReadingOn` | `OverlookedErrors`, `ReadsOn` | `ListInv`: a list is a run of consecutive entries that ends with the last one recorded, however many listeners record each message (`Heard`, a recursive function, by induction over the listeners); `ReaderInv`: a cursor stands behind what the list had lost when it was read |
| `LatestRefs` | `RefsOfTheLatest` | `RefsInv`: every map holds the references of its own snapshot or none, and the page's is that of the snapshot begun last |
| `VerdictIsLatest`, `CyclesTyped` | `VerifiedByLatest`, the type invariant | `CyclesInv`: a cycle in progress has no report, and one that passed has a last report of its own head with no failure. `VerifiedByLatest` alone knows nothing of a cycle that is completed again |

### Access: `AccessProofs`

| Theorem | States | Argument |
|---|---|---|
| `AccessTypes` | types, and that a request which decides about a user knows which | one step per action |
| `OwnerExists` | `SomeOwner` | `Founded`: a sign-up that found somebody registered still finds somebody when it commits, and whoever joins has no row; so the first row is an owner's |
| `ConsentsAreConnected` | `ConsentIsConnected` | the call that writes a grant after the consent knows its user (`WhoKnown`) and stays until it has written, and nobody deletes a grant; where the user's own token makes the row another client's, `missed` says so |
| `LateNeverIn` | `LateIsRefused` | who is told to be out really is out in the table (`MemberOut`, `GrantOut`, `TokenOut`), whom only a call that began to readmit, or an update with the user's own token, which ends what was told, changes, and a request on its way can only be late for the table it has yet to read (`LateKnown`) |

### What stays with TLC

Every safety property and every refinement that a run checks is proved. Two
properties are only model-checked, `EveryCallEnters` and `DeadIsNoticed`: they
are liveness properties, and fairness and `ENABLED` are beyond the prover.

The proofs have shaped two definitions. `KeyedLock!Tries` takes the queue as it
is under the conditions of `FifoSpec` (at most one caller in it that does not
try, at its end) instead of filtering it; TLC found both equal on the instance
of `lock_fair`. `PageEvidence!Heard` is a recursive function on the number of
listeners, which the prover can unfold. The induction principles of the library
cannot be used (they take an operator as parameter), so that the induction over
listeners is by a least counterexample.

## Not modelled

| Part | Why |
|---|---|
| session registries that share one file (`session-registry.ts:98`; `server.ts:39`, `workspace-orchestrator.ts:75`, `phase6-tools.ts:32`, the default worker manager), and the one `.tmp` name they write (`:110`) | each loads the file once and rewrites it whole: what another registry wrote is lost. Known, no property: one registry is modelled |
| a restart between `Sandbox.create` and `saveSession` (`e2b-worker-manager.ts:60`) | modelled: it leaves a sandbox that only E2B's own timeout ends, and is the exception in `NoOrphan`; nothing recovers it |
| plan steps (`plan-registry.ts:121`), checkpoints' contents, several tasks per workspace (`task-store.ts:88`) | planned |
| saves of other sessions' rows to the file that `RepositoryPublish` writes | would save this session's row too; without them the file is older for longer |
| another OAuth client's grants | one client: the row of another is never renamed into this one's |
| shells that fetch or pull (`PrRepair`, `RepositoryPublish`); HEAD off the head branch (`PrRepair`) | a clone gets commits of GitHub by being cloned; the second is in `RepositoryPublish` |
| the tools that only read (of repositories, pull requests, pages), `authorize`, the scan for secrets | change nothing; where a decision depends on them it is an operator |
| browser actions, accessibility scans, previews, artifacts, `closeAllWorkspaceSessions` | forwarded to Playwright, or a map in one stretch, or no caller |
| GitHub App tokens (`token-broker.ts:65`) | the cache is cleared by no caller, so that its race with a refresh cannot occur |
| migrations (`migrations/runner.ts:47`) | run once at start under an advisory lock |
| import of local state, `CleanupService`, in-memory leases, rate limiter, quotas, idempotency records | no caller in this commit |
| scan, search, diff review, classifiers, redaction, path checks | functions of text |
| drain at shutdown, health and metadata routes, dynamic client registration, the mode without a database | no state that a request of another reads, or a comparison with one token |
| resize and signals of terminals, `terminal_exec` | keep nothing that is read again |
| providers, provisioning, configuration, scripts, logging, metrics | adapters and one-shot programs |

## Plan

Done: all modules above with their runs; theorems for all their safety
properties and refinements. Left, in this order:

1. Proofs: the parts of the models that no property of a run states yet, such as
   what `PrRepair` promises after a restart, and `RepairBudget` for calls that
   overlap, if there is an abstract budget that allows the known overshoot.
2. Plans and their steps; several tasks per workspace.
3. Several registries over one file.
4. Two working branches under TLC, with a smaller set of tools at a time.
