# A formal model of cloud-mcp-server

cloud-mcp-server is one Python process (uvicorn, `mcp_server/main.py`) that gives a remote model
tools on a Linux machine: shell commands, background jobs, coding agents, a browser, a desktop, a
memory, skills, and deployment of the server itself. Nearly everything that can go wrong in it
lies between its parts: event-loop handlers, worker threads, detached processes and JSON files
that several of them write. This directory models those parts in TLA+, checks the models with
TLC, and proves the core of them with TLAPS.

## The system

### How it runs

`main.py` registers each tool twice, for MCP and for REST. A tool defined with `def` runs **on the
event loop**, so such tools never overlap: starting, querying, listing and stopping jobs, spawning
agents, reading and acting on them. A tool defined with `async def` runs its work in
`asyncio.to_thread`: `wait_jobs`, `run_commands_parallel`, `wait_agents`, and every memory, skill,
browser, desktop and deploy tool. Threads overlap each other and the loop. systemd restarts the
process when it dies (`systemd/cloud-mcp.service`: `Restart=always`, no `KillMode`, so the whole
control group is killed with it).

### Components

| Component | State | Operations | Interacts with | Hard behaviour |
|---|---|---|---|---|
| Background jobs (`tools_jobs.py`) | `jobs/<id>/meta.json`, `_PROCS`, watcher and capture threads, the process | start, status, list, output, stop, wait, run in parallel | event loop, threads, OS processes | watcher against status calls, timeout against stop, unlocked start, restart |
| Agents (`tools_agents.py`) | `agents/<id>/meta.json`, `_WORKERS`, a worker process, a provider process | spawn, list, get, wait, cancel, despawn, retry, message | server and worker process both write meta.json, without a lock | lost updates, stale snapshots, cancel racing completion, orphans |
| Agent teams (`tools_agents.py`) | `agents/teams/<id>.json` and its agents | spawn_agents, team wait, cancel, despawn, retry | agents | partial spawn failure, a missing child |
| Browser tab lease (`tools_browser_semantic.py`) | per-tab RLock and `_LEASE_STATE` | lease, observe, find, act, open, close, do | browser over CDP | fail-fast busy tabs, stale observations, leaked tabs |
| Memory (`tools_memory.py`) | Markdown files, SQLite index, vectors | add, search, get, update, delete, sync | embedding worker | unlocked read-modify-write, stale index |
| Embedding worker (`embedding_manager.py`, `embedding_worker.py`) | a child process on pipes | embed | memory, skills | timeout, idle exit, request and answer pairing |
| OAuth (`oauth.py`) | clients, codes, tokens; a JSON file | register, authorize, token, verify | every request | single use of codes, expiry, persistence |
| Self-deployment (`tools_update.py`, `self_deploy_worker.py`) | a state file, staged files, backups | deploy, status; copy, restart, health, rollback | systemd, the running server | failure in mid-copy, rollback, being killed by the restart |
| Skills (`tools_skills.py`) | SKILL.md files, SQLite index | register, search, get | embedding worker | precedence of managed skills, index sync |
| Rate limit (`security.py`) | per-client timestamps | check | every request | window boundary |
| Shell, files, desktop, routing, proxies | none of their own | many | OS | input/output only |

What makes each correct:

* **Jobs**: a reported end is true, is never taken back, and comes; nothing is forgotten in memory.
* **Agents**: a terminal result stays on disk; a cancelled agent runs no more; a spawned agent ends.
* **Teams**: the team's state is its members'; a team can be cancelled and removed.
* **Tab lease**: one operation per tab; the busy flag says so exactly; a lease always ends.
* **Memory**: an added entry is not lost; the index follows the files.
* **Embedding**: an answer belongs to its request; a dead worker is replaced.
* **OAuth**: a code is used once and only by its client; an expired token is refused.
* **Self-deployment**: success or the old version, and a status that says which.

## Modules

| Module | What it is | Models |
|---|---|---|
| `Jobs` | specification | `tools_jobs.py` |
| `JobLifecycle` | abstract specification | what a client of `tools_jobs.py` may rely on |
| `JobsProofs` | proofs | invariants of `Jobs`; `Jobs` implements `JobLifecycle` |
| `Agent` | specification | `tools_agents.py`: one agent's handlers, worker, capture thread, provider |
| `AgentProofs` | proofs | the inductive invariants of `Agent` and `AgentTeams`; cancel, the order of attempts, what stands on disk; what a failed spawn, a summary, cancel and despawn of a team leave; `AgentTeams` implements `Agent` |
| `AgentTeams` | composition | extends `Agent` with the team files and handlers |
| `TabLease` | specification | the tab leases of `tools_browser_semantic.py` and the tools that nest them |
| `TabLeaseProofs` | proofs | locks and entries count the nested tools; exclusion, the busy flag, the elements of a batch |
| `SelfDeploy` | specification | `tools_update.py`, `self_deploy_worker.py`, the service unit |
| `SelfDeployProofs` | proofs | types, the inductive invariant, what a reported result means |
| `Memory` | specification | `tools_memory.py`: day files, index, sync |
| `MemoryProofs` | proofs | the inductive invariant; what an answer rests on, what spoils an index or loses an entry |
| `Access` | specification | `oauth.py`, the rate limiter of `security.py`, the check of `main.py:108-136` |
| `AccessProofs` | proofs | the inductive invariant; what a client has been answered stands; the limiter's windows are exact |
| `Embedding` | specification | `embedding_manager.py`, `embedding_worker.py` |
| `EmbeddingProofs` | proofs | the inductive invariant; a caller gets its own answer |
| `Skills` | specification | `tools_skills.py` |
| `SkillsProofs` | proofs | the inductive invariant; what an answer rests on, what loses a row |
| `MC*` | instances for TLC | the symmetry sets; the `.cfg` files give the constants |

Operators that begin with `\* Mutant:` in their comment are broken versions of the operator that
follows them. They are in no specification: each stands for a plausible bug, and shows that a
property notices it.

### Jobs

State: `meta` is meta.json (status, is there a pid, exit code, the note of `_normalize_status`),
`tracked` the keys of `_PROCS`, `proc` the bash process as the kernel knows it, `watcher` the
watcher thread, `lock` the one case in which `_LOCK` is held across a sleep, and per caller where
its call has got to. The times of a job are two flags that a clock action sets: `deadline` passed
or not, `quiet` since the last output or not.

Every section under `_LOCK` is one action. Steps of their own are what the code does outside it:
the two writes of `start_background_job` (`StartWrite`, `Register`) with `Popen` between them,
`stop_job`'s signal (`StopSignal`) after its record (`StopMark`), the watcher's TERM, second and
KILL, and each status that `wait_jobs` reads (`Wait`). The tools that run on the event loop share
the caller `Loop`; `wait_jobs` and `run_commands_parallel` run in `Threads`. Every tool takes any job
whose meta.json exists, one that another thread is still starting included.

`JobLifecycle` is what a client sees: a job is unborn, active, and ends once; the end may be
relabelled "timeout" and nothing else. `Jobs` implements it under the mapping `Life`, in which a
job is unborn as long as its start is not over. That condition matters: a listing that falls between
the two writes of `start_background_job` takes the job for a dead untracked one, answers "failed"
and writes it, and the second write then puts "running" back. A `wait_jobs` that is given such a job does
the same. `WaitReportStands` therefore tells two answers apart: an end that was read of a job whose
start is over stands; "failed" of a job without a pid (`unstarted`) stands unless the job has a pid by now.

### Agent and AgentTeams

No lock joins the server and a worker, and neither does one join the server's own threads; so
every read and every write of meta.json is an action, and a write writes the copy its writer read
earlier (`snap`). The server's handlers run on `Loop`, `wait_agents` in `Waiters`; a worker's program
counter follows `_worker` and `_run_provider_attempt`, its capture thread reads and writes once per
event, and the provider is a process that exits at will, ignores SIGTERM at will and obeys SIGKILL.
Three switches say what the surroundings do. `CgroupKill`: a restart of the service kills workers and
providers, as the shipped unit has it. `SpawnRace`: a worker may be quick enough to read meta.json
before `spawn_agent` has made its second write. `CaptureLag`: a capture thread may outlive the
two-second join. The unit gives the first; nothing in the code gives the absence of the other two, which is a
matter of timing. So no theorem assumes anything of the switches, and runs that turn the races off say so.

`Errors` says which errors may come at any moment besides those the code expects: a worker that
ends by itself (`crash`: killed for want of memory, an exception outside its `try`), an exception in the
attempt, from `Popen` through the recording of the provider's pid (1102) and the start of the capture
threads (1105) to the poll loop, which the handler at 1166 answers with "failed" (`raise`), and a
capture thread that fails (`capture`). After the second, the provider runs on beside a worker that
is done with it (`WorkerRaises`, `WorkerUnwatched`).

`AgentTeams` extends `Agent`. A team handler goes through its children, and each turn is a handler of
`Agent` on the same event loop, so that workers and waiting threads go on during it and a restart
may fall between any two turns.

### TabLease

A thread's call is a stack of tools, because `browser_do` calls tools that take its lease again;
each tool goes through the steps of `_tab_lease` (find the tab, lock or 409, enter it in
`_LEASE_STATE`, find the tab again, run, and the `finally` in two steps). An exception ends the tools
of the stack one after the other. Every tool fails at every command, the person at the browser
closes tabs, and documents are loaded by the tools and by the page itself. Of a page the module
keeps which document it shows and whether that document has been observed: the ids of elements
begin anew in each document. A batch may name elements under an observation (`given`), find them by
queries (`els`, `inferred`), and name them by an id alone (`bare`), as every action of a `browser_do`
may; what is compared with the page is the one observation the code compares (`Expected`, `Fits`).

### SelfDeploy

The repository, the runtime directory and the backups map files to versions; `Gone` and `Torn` are
the missing and the half-copied file. The handler's checks, the copy file by file (back up, then
replace), pip, restart, health check, success and rollback are actions, and so is the failure of
each. Restarts kill the helpers or do not (`Kills`), because systemd kills what is in the service's
control group and an operator may have set `KillMode=process`; a `systemctl` that fails may also leave the
server and the helpers as they are (`Systemctl`), which the rollback does not notice. Two helpers may overlap: nothing in
the code keeps them apart. `was` (the runtime when the deployment began) and `alone` (no other
helper has run beside it) are history, read by properties only.

### Memory

`file`, `rows` and `sig` are the day files, the rows of the index, and the signature under which a
file was indexed. A tool's calls are split where another thread or a person can come between: read,
write (`_atomic_write`), parse, open the write transaction, stat, digest, commit; and for the sync the
glob, the snapshot of signatures, the purge, and per file the stat, the digest and the touch. A
transaction is open for one thread at a time and others wait or are refused; any other failure
raises, and a raised call closes its connection, which undoes the transaction. `alone` is history: no
other thread and no person has changed a file or the index since the call began.

### Access

The handlers of `oauth.py` and the middleware run on the event loop and await nothing after the body
of the request is read, so each is one action; what can come between its assignments and its answer is
a failing disk or the end of the process (`SaveFails`, `RecoveryFails`), and `Restart` between any two.
`clients`, `codes` and `tokens` are the three dictionaries, `store` the file, which keeps two of them,
`hits` the deques of the limiter. `now` is a clock that `Tick` moves. `approved`, `grants`, `told` and
`served` are history: what the person with the password agreed to, which tokens were made for which
codes, what clients have been answered, which requests were let through. A client that the server has
forgotten takes part in an authorization and is written down in the exchange (`Recoverable`).

### Embedding

A thread's `worker_vectors` is split wherever the worker or another thread can come between: the lock,
the look at `_WORKER`, the write, the wait, the read, the two seconds after SIGTERM, the release. A
worker process is its state and its two pipes; it can die anywhere, need not load its model and need
not answer. A line on a pipe is the text it is about, because nothing in the protocol numbers requests.
A text in `Large` does not fit the pipe: it is written only while the worker reads. `worker_status` is a
call that takes the lock and gives it back.

### Skills

Locations are numbers in the order in which a sync parses them, registered ones first and managed ones
last; a file has a version and gives a name. `rows` is the table, one row for a name, with the version
that was parsed and the one the signature was taken of. A sync is taken step by step: the paths, each
parse, the rows as they are read, the deletions, and for each name the comparison and the write. The
sync keeps what it has read to its end. `list` stands for the three tools that only read afterwards;
`getpath` may index a file that the sync did not find, and `search` indexes once more, with other
vectors, what the embedding worker gave no vectors for earlier. `alone` is as in `Memory`.

## Checks

Every run is a `.cfg` file here. "States" counts the distinct ones, up to symmetry; of a violated run,
those found before the counterexample.

| Run | Module, configuration | Properties | Shows | States |
|---|---|---|---|---|
| `jobs` | `MCJobs`, `Jobs.cfg` | JobsInv, StatusTruth, WatcherAccountsForJob, WaitReportStands, ImplementsLifecycle | two jobs, a thread, a restart that jobs survive | 3,052,095 |
| `jobs_live` | `MCJobs`, `Jobs_live.cfg` | TimedJobsSettle, StopKillsProcess, WaitsEnd | one job, under fairness | 23,222 |
| `agent_races` | `Agent`, `Agent_races.cfg` | CancelledMeansStopped, OnlyRacesUndo | all three races and every error allowed, one waiting thread | 4,387,499 |
| `agent_live` | `Agent`, `Agent_live.cfg` | NoOrphanBehindResult, CompletedHasResult, EndStands, WorkerEnds, AgentSettles | one agent, two attempts, all handlers, every error, no race, under fairness | 74,360 |
| `agent_again` | `MCAgent`, `Agent_again.cfg` | OneAttemptAtATime | retry and message, which start a second agent; every error | 5,733,164 |
| `teams` | `MCAgentTeams`, `AgentTeams.cfg` | TeamInv, NoneRevived, FailedSpawnCleansUp, SummaryStands, CancelReachesAll, DespawnTakesChildren | two teams, two children, workers that crash, no race | 3,682,236 |
| `tabs` | `MCTabLease`, `TabLease.cfg` | LeaseInv, Exclusive, BusyWhileUsed, ElementsOfThisDocument | two threads, two tabs, every tool | 4,807,204 |
| `deploy` | `MCSelfDeploy`, `SelfDeploy.cfg` | DeployInv, RollbackRestores, SuccessIsServed | two deployments of two files | 7,243,235 |
| `memory` | `MCMemory`, `Memory.cfg` | IndexInv, OnlyRacesSpoil, LossOnlyByRace | two threads, a day, two entries, a person | 2,583,565 |
| `embedding` | `Embedding`, `Embedding.cfg` | AnswersBelong, EmbeddingInv, CallsReturn | two threads, a text that does not fit the pipe, three processes, under fairness | 25,200 |
| `access` | `MCAccess`, `Access.cfg` | AccessInv, ToldStands, WindowExact | two clients, two codes, two tokens, four moments, the store lost once | 2,893,847 |
| `skills` | `MCSkills`, `Skills.cfg` | SkillsInv, OnlyRacesSpoil | a registered and a managed location, two names, two threads, a person | 4,095,383 |

The type invariant of a module is a conjunct of the invariant named `...Inv` (of `TeamInv` for `Agent`, whose
states the team run contains). Each of these is inductive, or is what the inductive one contains besides the
types (`DeployInv`), or contains it (`IndexInv` contains `MemoryInv`): TLC checks what the proofs rest
on. Two invariants of the proofs are in no `.cfg`:

* `AgentInv`, which with `TeamInv` makes `TeamIInv`. Named on the INVARIANTS line of any of the four agent and team
  runs, TLC finds it to hold. With one agent, a waiting thread, every error and `Ops` {"spawn", "get", "cancel", "despawn", "wait"}, TLC finds
  `TeamIInv`, the properties of `teams` (but for `NoneRevived`, with the races) and `Spec` of `Agent`, as a property of
  `TeamSpec`, to hold: with the races off in a minute, with all three and no `CgroupKill` in half an hour.
* `LimiterInv` of `AccessProofs`, which holds with two callers, a window of two ticks and a clock of five.

`IndexInv` also holds with two days, one entry and one thread.

### What the properties say

* **Jobs.** `StatusTruth`: an end in meta.json is true of the process, whichever of four writers
  wrote it last. `WatcherAccountsForJob`: no entry of `_PROCS` without a watcher, no watcher gone
  before an end is on disk, though a status call may pop the entry before the watcher's first line.
  `WaitReportStands`: the ends that `wait_jobs` reads one by one stay true together, but for the answer
  it gives about a job whose start is not over.
* **Agents.** `OnlyRacesUndo`: whatever the switches allow, an end on disk gives way to "starting" or
  "running" by the steps named in `UndoRace` only: the second write of a spawn whose worker is under way,
  a worker or capture thread that cancel or despawn did not wait for, a capture thread that outlived its
  join. `EndStands`: without those races, never. `CancelledMeansStopped`: behind "cancelled", a worker whose pid
  is on disk and which this server still holds (it started it, and has not reaped it) takes no step; of a
  worker that was not on record yet, or that an earlier server started, nothing is claimed. `CompletedHasResult`,
  `OneAttemptAtATime`, `NoOrphanBehindResult`: the order of result and status, of the attempts, of provider and
  verdict. Behind "failed" a provider may run.
* **Teams.** A failed spawn leaves no child running; a summary's "over" still holds when it is
  returned; cancel reaches every child; a team is removed only with its children, of which a waiting
  thread can bring back a lone "failed" and nothing else. Each speaks of the children whose end no race of
  `OnlyRacesUndo` has undone (`revived`, a history of those steps); in the run there are none (`NoneRevived`).
  `TeamInv` says why: what a loop over the children may rely on of those it has left behind.
* **Tabs.** Leases exclude, `busy` says so exactly, and a lease is given back whatever fails. The
  elements that a batch has found by one query, or was named under an observation, are of the document that
  its tab shows, also beside ids that came without one (`ElementsOfThisDocument`).
* **Deployment.** See the proofs.
* **Memory.** `AnswersFollowFiles` (in `IndexInv`): a tool that nobody got in the way of reads an index that is the
  files, whatever failed before it. `OnlyRacesSpoil`: an index goes wrong only by a step of a call about
  that day that was itself interfered with. `LossOnlyByRace`: so does an entry get lost.
* **Access.** `AccessInv` (`GrantsApproved`, `ClientsApproved`, `TokensGranted`): a token stands for
  one approval, of its code and for its client, while the code was good, and no retry, refusal,
  recovery, failed save or restart gives a second one; a client nobody registered is known only
  through an approval. `ToldStands`: what a client has been answered, a token or a registration, is
  accepted, exactly as long as was said, and in the store. `WindowExact`: no window lets through more
  than the limit, and none that is not full refuses.
* **Embedding.** `AnswersBelong`: vectors are of the caller's own text, and between two calls there is
  nothing on the pipes that a later one could take for its answer. `OneWorker` (in `EmbeddingInv`): a
  process nobody will use again has been told to end. `CallsReturn`: every call comes back, unless large
  requests wait for ever for a worker that does not read; an indexing call even then.
* **Skills.** `AnswersFollowFiles` (in `SkillsInv`): a tool that nobody got in the way of answers from
  rows that are the files, the managed one where two give a name, whatever swaps of names, reads by path,
  races and failures came before. `OnlyRacesSpoil`: a row that was right is lost only by a step of a call that
  was itself interfered with, or to a file of the same name that is read by its path.

### Bounds, and why they are enough

* *Two jobs, one thread.* A race over one job needs its watcher, the event loop and one thread.
  The second job is what makes a list or a wait of several, and a parallel start, more than one step.
  `QuietArgs` is off in `jobs` (stalls are in `jobs_live`) and the proofs have no bound.
* *One agent* where handlers, worker and capture thread race: they meet only in the agent's own
  file. Two where an action makes another agent. `Errors` has every kind of error in the agent runs; the
  team run has crashes only, since an error in an attempt ends the worker as a crash does, with one more write. `MaxAttempts` is 2 where a retry of the provider
  matters, else 1: a third attempt begins in the state the second begins in.
* *Two teams of two children in all*: a loop interrupted between its turns, and disjointness.
* *Two tabs, two threads, two documents a tab*: one tab to fight over and one to be created;
  before and after a navigation. `browser_find` and the activation of a tab are run inside the other
  tools, where they nest deeper, and not called by themselves. A browser_do runs one action (`MaxActions`) and a batch resolves one
  query (`MaxQueries`); two queries make a different behaviour, finding 4.
* *Two files, two deployments, three versions*: a failure before, at and after a file; the second
  deployment after or beside the first; a file edited between them, one added and one removed.
* *One day, two entries, two threads, three writes* (`MaxVersion`): the entry of one call and that of
  another or of a person in the same file, and an edit before and after each signature. Days share
  nothing but the loop over them.
* *Two clients, two codes, two tokens* (`Access`): one client from the environment and one that can be
  registered or recovered; a second code and token for what must not happen twice. A code is good for
  one tick and a token for two, a window is one tick and lets two requests through, and the clock stops
  after three ticks: each expiry has a moment before, at and after it.
* *Two threads, three processes, one of two texts large* (`Embedding`): the lock has two who want it;
  a worker that was given up may linger while its successor, and the successor's, are started.
* *Two locations, two names, two versions* (`Skills`): the managed and the registered file, there from
  the start or not, and one edit that renames, changes or breaks either; removals are not bounded. One
  thread searches and the other registers and reads by path (`Ops`): every step of a sync then meets
  every other step of another.
* One restart (`MaxRestarts`): after it no thread, worker or watcher is left that a second one could
  interrupt in a new way, except those begun after it, which are as before it.

Deadlock is checked in `jobs`, `jobs_live`, `tabs`, `deploy`, `memory`, `embedding`, `access` and `skills`. The agent and team runs
turn it off: ids are used once and restarts are bounded, so their systems do stop.

### Fairness

`Jobs!Fairness`: watcher threads are scheduled, deadlines pass, a process that was sent SIGKILL
exits, a waiting thread goes round its loop, and the event loop goes on from `stop_job`'s record to
its signal. No client is assumed to call anything and no process to end by itself.

`Agent!FairSpec`: the event loop finishes the handler it has begun and a worker takes its steps
(its limits, three-second wait and SIGKILL are such steps); the server reaps a worker that has ended; a
capture thread that has read an event writes it, and comes to the end of a stream whose provider is
gone, which is strong fairness because events are read in between. `Polled` is an assumption about the
client, that it asks for the agent again and again: only `get`, `list` or `wait_agents` notices a dead
worker, so `AgentSettles` cannot hold without it. `WorkerEnds` excepts the wait of
`tools_agents.py:1097`, which has no limit.

`Embedding!Fairness`: a thread takes its steps, among which are the ends of its time limits; the lock
is given sooner or later to whoever keeps asking, which `threading.Lock` does not promise but the
interpreter's waiting threads get (strong fairness of `Acquire`); a process that has decided to end, or
was sent SIGKILL, is gone at some time. Nothing is assumed of the model: it need not load nor answer.

## Proofs

`JobsProofs`, for any sets of jobs and threads, any number of restarts, jobs that survive them or not:

* `Invariance`: `JobsInv` is inductive. The checked properties are not so by themselves. `StatusTruth`
  needs to know that while a watcher runs without an entry in `_PROCS` somebody else has recorded the
  end (`JobInv`), and that whoever else has to do with a job whose start is not over has read and
  written of it nothing but "failed", without a pid (`CallInv`), so that the second, unlocked write of
  `start_background_job` overwrites nothing but its own first or that. There is a lemma per kind of write
  (a normalisation of any set of jobs, the two writes of a start, the watcher's turns, `stop_job`'s mark), and
  the actions that write no status are taken together in `CallStep` and `ThreadStep`.
* `TypeCorrect`, `StatusIsTruthful`, `WatchersAccountForJobs`, `WaitReportsStand` follow from it.
* `JobsImplementLifecycle`: `Jobs` implements `JobLifecycle`. `LifeStep` shows that each action moves
  the life of each job as `Following` allows; the cases are whether the start of the job is over
  before and after the step.

`SelfDeployProofs`, for any files, any number of deployments and any mixture of restarts:

* `TypeCorrect`; `Invariance` and `HelpersCanRestore`: `DeployInv` is inductive relative to the types.
  A helper that was alone has at each moment what it needs to restore every file: what it has copied it
  has backed up as it was, or knows to have been missing; the rest is untouched; in the rollback only
  the rest of the manifest is not yet restored. The other helpers that are at work are not alone
  (`OneAlone`), so nothing is claimed of them: the step of one helper need not be compared with the
  invariant of another.
* `RolledBackIsRestored`: "rolled_back" after a copy that had ended means that the runtime is as it
  was. `SuccessMeansServed`: "success" means that the server runs what the runtime holds.

`AccessProofs`, for any clients, codes, tokens and callers, any lifetimes and limits, any number of
failed saves, restarts and losses of the store:

* `Invariance`: `AccessInv` is inductive. That two tokens never stand for the same code is not so by
  itself: it needs that a code which is still good has no token (`CodesApproved`), and that a code is
  good only from its approval to `CodeTTL` after. That nobody is known unasked needs the same of the
  store (`ClientsApproved`), from which a restart brings clients back; that only a client whose code
  was approved is recovered comes from `CodesApproved` again. `Recovered`, `Saved` and `TokensKept` are
  the lemmas that the actions share.
* `WindowsHold`: `WindowExact`, with an invariant of its own (`LimiterInv`), for any windows and limits. The code
  keeps a deque of moments and drops from its head what is too old; the property counts what each window of the
  past let through. They agree because the deque counts, for each window that still reaches the present, what was let
  through in it (`Tracks`): the head that is dropped is of no such window (`PrunedDrops`, `PrunedTracks`), a request
  that is let through adds one to the present moment and to the deque alike (`AddTracks`), and a tick only takes
  windows away (`TickTracks`). That a request is let through only below the limit then bounds the window that ends now
  and, by induction, each one before.
* `AnswersStand`: `ToldStands`. It is restated as `ToldKept`, which speaks of presence only, since a
  token, in memory and in the store, says of itself when it expires (`Expiry`). `NothingLost` is the
  core: an action that tells and grants nothing may write the store with what is in memory, because
  everything that was told is there. A restart is the converse.

`EmbeddingProofs`, for any threads, texts and worker processes:

* `Invariance`: `EmbeddingInv` is inductive. Nothing on the pipes numbers a request, so that an answer
  belongs to its text only because of what is on the pipes when the lock is given back: nothing
  (`PipeInv`: a worker is `Quiet` between two calls, `Ready` when a request is written, and `Asked`, with
  that one text on its way, while its caller waits). Each way out of a call either has read the answer
  or has discarded the worker.
* `OwnAnswers`: `AnswersBelong`.

`TabLeaseProofs`, for any tabs, threads, documents, actions and queries:

* `Invariance`: `LeaseInv` is inductive. A lock and an entry each are a number, and what the number must
  be is read off the stack of the one thread that holds it: how many of its nested tools are between
  taking and giving back (`Counted`; a tool that has just been called or has created a tab is not).
  `MovedStack`, `TopCalls`, `TopLeft` and their neighbours say how that count changes when the topmost
  tool moves, calls or ends; stacks are at most four deep because each tool calls only `Callees`.
* `OneAtWork`, `BusyIsUsed`: `Exclusive` and `BusyWhileUsed`. `ActsOnItsDocument`:
  `ElementsOfThisDocument`. The elements a batch has found, or was named under an observation, are of
  documents from the one given to the one the tab shows now; without one given, the element of a first query
  is of the very document whose observation is expected (`ElementInv`).

`AgentProofs`, for any agents, waiting threads and operations, any number of attempts and restarts:

* `Invariance`: `AgentInv` is inductive, under every setting of the three switches and with any errors. It says
  to which attempt each provider belongs and when it must be gone (`AttemptInv`); that only `cancel`'s own
  write says "cancelled" (`CopiesLive`); that until the worker has written its verdict no copy that may
  still be written holds an end, and that whoever holds a verdict holds it with the providers gone and the
  result in its place (`CopyInv`, `ResultInv`); what a handler that is about to write "failed" knows
  (`ThreadInv`), and what the event loop may rely on while it spawns and cancels: that the worker is gone, or
  killed, before it writes "cancelled" (`LoopInv`).
* `AttemptsInTurn` (`OneAttemptAtATime`), `CancelStops` (`CancelledMeansStopped`), `NoneLeftRunning`
  (`NoOrphanBehindResult`) and `CompletedIsWritten` (`CompletedHasResult`) follow from it.
* `OnlyRacesUndoEnds` (`OnlyRacesUndo`): a live copy is written by the loop's second write, by a worker before its
  verdict or by a capture thread; for the last two `AgentInv` leaves no end to be replaced but a cancel's, or
  a despawn. `EndStands`, the same with the races off, is left to TLC: that they are off is an assumption about
  timing, and a theorem under it would say less than this one.
* The steps are proved by the kind of turn they are: `TurnKeeps` for the agent's own processes, which
  leave the other agents and the server alone; `ServerTurn` for a handler, which changes one agent
  and one thread; `ThreadTurn` for a step of a waiting thread. `Kept` says what any step may do to an
  agent: what was over stays over, unless it is a race of `UndoRace`.

`AgentProofs` also proves of `AgentTeams`, for any teams, sizes, agents and waiting threads:

* `TeamInvariance`: `TeamIInv` is inductive. It contains `AgentInv`, which carries over because every turn of a
  team handler is a move of `Agent` (`AgentMoves`, `MovesKeep`). What `AgentProofs` knows of any move
  (`Kept`) gives what the loops rely on: a child that was found at an end, or gone, stays so or is one of
  `revived`, whatever workers and waiting threads do until the loop is round. So `VisitInv` can say of the
  children left behind that they are over or revived, and `EndsInv` the same of an end that the loop has
  read. `JobInv` ties the handler to the child's handler that it runs.
* `TeamStates` (`TeamInv`), `FailuresCleanUp`, `SummariesStand`, `CancelsReachAll` and `DespawnsTakeChildren`, for
  the properties of the run, under every setting of the switches: each says "over, or revived by a race", and what a
  race is `OnlyRacesUndoEnds` says, which `TeamsImplementAgents` carries over to teams. A summary counts: that as
  many ends as children are all the children needs that the set of children is finite (`FilesInv`).
* `TeamsImplementAgents`: `TeamSpec => Spec`. For the agents, the team handlers do nothing that a client could
  not do who calls spawn, get, cancel and despawn one after the other; so what is true of every behaviour of
  `Agent` is true with teams as well. Its hypothesis is that `Ops` has these four, as the server has; the run
  `teams` leaves them out to be small, and `TeamIInv` does not need it.

`MemoryProofs`, for any days, ids, texts, threads and tools, any number of versions of a file:

* `Invariance`: `MemoryInv` is inductive. `FileInv` and `CallInv` hold whatever overlaps: a signature is of a
  version that its file has had, an id stays with its day, and what a call has read of a file's version is
  not newer than the file. `ReadInv` and `SyncInv` are claimed only of a call that is still `alone`: what it
  has parsed and read is the file, the signatures it has still to compare are those of the table, and each day
  that is done with has an up-to-date one (`Seen`). So a step that changes a file or the index leaves nothing
  to be shown of the other calls but `CallInv` (`Loud`, `FromOutside`), and a step that changes neither leaves
  them as they were (`Quiet`); what is left is one lemma an action, about the stepping call alone.
* `Indexed` (`IndexInv`): at the end of its sync a call that is alone has seen every day, and the index of such
  a day, where it is sound, is its text (`SeenIsRead`). `Spoiled` (`OnlyRacesSpoil`): a write or a removal
  cannot spoil an index, because no signature is of the new version; a purge leaves nothing to be spoilt; a
  commit or a touch of a call that is alone records what the file is. `Kept` (`LossOnlyByRace`).

`SkillsProofs`, for any locations, names, threads and operations, any number of edits:

* `Invariance`: `SkillsInv` is inductive. `CallInv` is what a call knows whoever got in its way, `SyncInv` what it
  knows while it is alone. In the parse loop, each name has the last of the files parsed so far that give it, and
  the files to come are later ones (`Last`): so a managed file wins whatever the loop began with. In the loop over
  names, each name that is done with has its right row, and each that is not still has the row that was read. Still,
  but for one case: a write under one name removes the row that its file had under another, because no two rows share a
  location. A row may thus be gone since it was read; but then the file it was of gives another name by now, so the
  comparison with what was parsed fails as it should. As in `MemoryProofs`, a step that changes files or rows
  leaves nothing of other calls to be shown but `CallInv` (`Loud`, `FromOutside`), and one that changes neither
  leaves them as they were (`Quiet`).
* `RacesSpoil`: `OnlyRacesSpoil`. A purge or a write of a call that is alone takes no right row from any name
  (`AloneSpares`, `WriteSpares`), except where `skill_get` of a path puts its file in the place of another.

The proofs rest on the ASSUMEs of the modules only, which TLC evaluates on each run. Every invariant and every
action property that a run checks is stated by a theorem, but for `EndStands` and `NoneRevived`, which need the races
switched off. Also only model-checked are the six liveness properties
(`TimedJobsSettle`, `StopKillsProcess`, `WaitsEnd`, `WorkerEnds`, `AgentSettles`, `CallsReturn`): they need
fairness, that is ENABLED, which is beyond the prover.

## Where the code differs from what it says

The runs check what holds. For the first three, `SelfDeploy` and `Memory` also state the claim that
the code does not keep. No run checks it; added to `SelfDeploy.cfg` as a property
(`ControllerSurvives`, `AutomaticRollback`) or to `Memory.cfg` as an invariant (`EditsAreIndexed`),
it makes TLC show the behaviour described within seconds.

1. `ControllerSurvives`. README.md:415 of the repository says that the helper survives a restart of the
   service. The unit sets no `KillMode`, the helper is in the service's control group
   (`start_new_session` does not change that), and its own `systemctl restart` kills it: the result
   stays "running", without health check or rollback.
2. `AutomaticRollback`. `main` holds a manifest only after `copy_managed` has returned
   (`self_deploy_worker.py:109`). When the copy fails in the middle nothing is restored, the service
   is restarted on old, new and half-copied files, and "rolled_back" is reported. `RollbackRestores` is
   therefore stated for copies that had ended.
3. `EditsAreIndexed`. `_index_file` parses first and takes the signature last (`tools_memory.py:382`,
   `:404`). A write in between is recorded as indexed and never indexed.
4. A `browser_act` batch with two queries and no `observation_id`. `_resolve_actions`
   keeps the observation of the last query only (`tools_browser_semantic.py:444`), so an element found
   before a navigation is used, by its id, in the page after it. `ElementsOfThisDocument` excepts such
   a batch; with `MaxQueries = 2` and without the exception TLC finds it. Ids without an observation are not
   protected either, which README.md:97 does not promise: `_batch_js` compares the one observation it is
   given, if any, with the page (455-457). So an `e1` that is given alone, or through `browser_do`, which never
   passes an observation (763), is whatever `e1` is in the document of the moment; beside a query, the
   query's new observation speaks for it. In the model such an id is `bare`, and no property claims anything of it.
5. `_normalize` (`tools_agents.py:388`) tests a worker's pid after it has read
   meta.json and writes that copy back with "failed" and "Agent worker exited before recording a
   terminal result."; a worker that records its result in between is reported failed for good.
   `EndStands` therefore allows one end to replace another. A thread of `wait_agents` that is at this
   point while the agent, or its team, is despawned makes the directory again, with a meta.json
   that says "failed" and nothing else; `DespawnTakesChildren` therefore speaks of prompts and of ends
   and not of directories. With one waiting thread TLC shows it.

Observed besides, with no property against it: a listing or a `wait_jobs` during the unlocked start of a job
answers "failed" for one that will run; `wait_jobs` takes "killed", which precedes the signal, for an end;
after a restart, no timeout of a surviving job is enforced; a job that ignores the SIGTERM of `stop_job` runs
on behind "killed"; an agent whose worker cannot record the pid of its provider, or cannot watch it, is "failed" while
the provider runs on, and nothing ends that but a restart of the service; a rollback whose `systemctl restart`
fails is "rolled_back" as long as something answers the health check, be it the old process with the code
that was to be rolled back; `run_commands_parallel` forgets the jobs it has started when a later start raises; a team one of whose
children was despawned alone is "running" for good and can be neither retried nor despawned;
two memory calls that overlap on one day lose one of the two entries; the 409 that asks for a retry of
memory_update never clears once finding 3 has struck; text between the entries of a day file is
lost when a tool rewrites it; helpers of two
deployments overwrite each other; the helper's write of "rolling_back" is outside its inner
`try`, so that a full disk ends it without a rollback; `skill_register` answers 409 when a sync that began earlier
deletes the new row; `skill_get` of a path puts a registered file in the place of a managed one of that
name until the next call; a row that is replaced under another name leaves its old entry in the
full-text table; a request of more than a pipe's buffer is written to the embedding worker before the time
limit begins, with `WORKER_LOCK` held; a token whose save failed is valid in the running server though
its client never heard of it; the limiter keeps an entry for every address it has seen.

## Not modelled

Command construction, provider catalogs and the extraction of results from a provider's output;
the ranking, vectors and text of memories and skills, the full-text tables and lists of resources; a
wrong password, the login page and OAuth's scopes, which change nothing; the API key and the key that
nginx has checked, which pass a request by OAuth and the limiter; JavaScript in pages; shell, file and desktop tools, which
are one call into the operating system each; declarations of routes and the stateless proxies of
`main.py`; installation. meta.json and result files are written in one piece in every module; the
shared temporary file behind `_write_meta`, through which a replace may find its file gone or publish another writer's
text, is below that grain. A pid is never used again
by another process. The server's own writes of an agent's meta.json succeed, and a `spawn_agents` that is refused for
one child before it has made that child's directory is left out, being the failure at that child. The mtime of a file
changes with every write. A person who edits day files leaves each entry in the file of its day: an entry that is
pasted into another day's file, whose row `INSERT OR REPLACE` would take away from the first, is left out. The clock does not go back. A managed
`SKILL.md` deeper than `*/SKILL.md`, which only `skill_get` of its path would index, is left out. Desktop
calls of several threads share the one screen, clipboard and focus; the server keeps no state about them
that a property could be stated of.

## What could come next

1. `MetaStore`: the tmp-and-replace protocol with several writers, and whether it implements the atomic write that
   `Jobs` and `Agent` use.
2. An abstract index, of which `Memory` and `Skills` are two implementations: their invariants already have the same
   shape (what a call that is alone has read, and has still to compare).
3. The browser: that a tab which `browser_do` has created and not yet leased may be taken by another call.
