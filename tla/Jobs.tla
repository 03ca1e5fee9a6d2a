-------------------------------- MODULE Jobs --------------------------------
(***************************************************************************)
(* Background jobs: mcp_server/tools_jobs.py.                              *)
(*                                                                         *)
(* A job is a bash process in a session of its own and a file meta.json.   *)
(* The server keeps the Popen objects in _PROCS, and per job one watcher   *)
(* thread and two capture threads.  _LOCK guards every read-modify-write   *)
(* of meta.json except the two writes of start_background_job that precede *)
(* the registration of the process.  A section under _LOCK is one action   *)
(* here, save the one that does not end at once: the watcher's             *)
(* TERM - sleep(1) - KILL, during which the variable lock names the job.   *)
(*                                                                         *)
(* Synchronous tools run on the event loop (Loop), one at a time;          *)
(* wait_jobs and run_commands_parallel run in Threads.                     *)
(***************************************************************************)
EXTENDS Naturals, FiniteSets

CONSTANTS
    Jobs,         \* job ids; uuid4 never repeats, so an id is used once
    Loop,         \* the event loop thread
    Threads,      \* threads of asyncio.to_thread
    NoJob,        \* no job: the lock is free, the caller works on none
    TimeoutArgs,  \* does a caller pass timeout_s: a set of Booleans
    QuietArgs,    \* does a caller pass no_output_timeout_s
    KillsGroup,   \* does the service manager kill the jobs with the server
    MaxRestarts   \* bound: restarts of the server in a behaviour

ASSUME JobsAssumption ==
    /\ NoJob \notin Jobs
    /\ Loop \notin Threads
    /\ TimeoutArgs \subseteq BOOLEAN
    /\ QuietArgs \subseteq BOOLEAN
    /\ KillsGroup \in BOOLEAN
    /\ MaxRestarts \in Nat

VARIABLES
    meta,      \* [Jobs -> Meta]: meta.json; status "absent" when there is none
    tracked,   \* the keys of _PROCS
    proc,      \* [Jobs -> Procs]: the bash process, as the kernel knows it
    deadline,  \* [Jobs -> Deadlines]: the watcher's deadline and the clock
    quiet,     \* [Jobs -> Quiets]: last_output_at and the clock
    watcher,   \* [Jobs -> Watchers]: the watcher thread
    lock,      \* the job whose watcher sleeps holding _LOCK, or NoJob
    at,        \* [Callers -> Places]: what a caller's thread is doing
    job,       \* [Callers -> Jobs or NoJob]: the job it starts or stops
    mine,      \* [Callers -> SUBSET Jobs]: the jobs it started or waits for
    seen,      \* [Callers -> [Jobs -> Answers]]: the answers of one wait round
    limit,     \* [Callers -> BOOLEAN]: was wait_jobs given a timeout_s
    restarts

vars == <<meta, tracked, proc, deadline, quiet, watcher, lock,
          at, job, mine, seen, limit, restarts>>
callVars == <<at, job, mine, seen, limit>>

Callers   == {Loop} \cup Threads
Active    == {"starting", "running", "stalled"}
Terminal  == {"completed", "failed", "timeout", "killed"}
Statuses  == {"absent"} \cup Active \cup Terminal
Exits     == {"zero", "nonzero"}
Procs     == {"none", "alive", "doomed"} \cup Exits
Deadlines == {"none", "unset", "ahead", "passed"}
Quiets    == {"off", "fresh", "quiet"}
Running   == {"begin", "poll", "tick", "grace", "final"}
Watchers  == {"none", "done", "gone"} \cup Running
Places    == {"idle", "next", "launch", "register", "poll", "returned", "raised",
              "TERM", "KILL"}
Meta      == [status : Statuses, pid : BOOLEAN, exit : {"none"} \cup Exits,
              note : BOOLEAN]

MetaOf(s, p) == [status |-> s, pid |-> p, exit |-> "none", note |-> FALSE]

\* What wait_jobs keeps of a get_job_status: the status, "unstarted" for a
\* "failed" without a pid.
Answers    == Statuses \cup {"unseen", "unstarted"}
EndAnswers == Terminal \cup {"unstarted"}
Answer(m)  == IF m.status = "failed" /\ ~m.pid THEN "unstarted" ELSE m.status
Unseen     == [j \in Jobs |-> "unseen"]

Init ==
    /\ meta     = [j \in Jobs |-> MetaOf("absent", FALSE)]
    /\ tracked  = {}
    /\ proc     = [j \in Jobs |-> "none"]
    /\ deadline = [j \in Jobs |-> "none"]
    /\ quiet    = [j \in Jobs |-> "off"]
    /\ watcher  = [j \in Jobs |-> "none"]
    /\ lock     = NoJob
    /\ at       = [c \in Callers |-> "idle"]
    /\ job      = [c \in Callers |-> NoJob]
    /\ mine     = [c \in Callers |-> {}]
    /\ seen     = [c \in Callers |-> Unseen]
    /\ limit    = [c \in Callers |-> FALSE]
    /\ restarts = 0

-----------------------------------------------------------------------------
(* State functions. *)

\* "doomed": SIGKILL was sent, the exit is a matter of time.
Alive(j)    == proc[j] \in {"alive", "doomed"}
PidAlive(j) == meta[j].pid /\ Alive(j)
LockFree    == lock = NoJob

\* A thread with no call: its last one, if any, is over.
Free(c)      == c \in Threads /\ at[c] \in {"idle", "returned", "raised"}
\* The start of j is over: it returned, raised, or died with the server.
StartOver(j) == meta[j].status # "absent" /\ \A c \in Callers : job[c] = j => at[c] \in {"TERM", "KILL"}

ExitStatus(code) == IF code = "zero" THEN "completed" ELSE "failed"
\* Where a caller is after start_background_job returned, or raised.
AfterStart(c) == IF c = Loop THEN "idle" ELSE "next"
AfterRaise(c) == IF c = Loop THEN "idle" ELSE "raised"

\* The job has exited but its watcher has not said so, or nobody watches it.
Unnoticed(j) == meta[j].status \in Active /\ IF j \in tracked THEN ~Alive(j) ELSE ~PidAlive(j)

\* meta.json of j as _normalize_status leaves it.
Normalized(j) ==
    IF ~Unnoticed(j) THEN meta[j]
    ELSE IF j \in tracked
         THEN [meta[j] EXCEPT !.status = ExitStatus(proc[j]), !.exit = proc[j]]
         ELSE [meta[j] EXCEPT !.status = "failed", !.exit = "none", !.note = TRUE]

Normalize(S) ==
    /\ meta'    = [j \in Jobs |-> IF j \in S THEN Normalized(j) ELSE meta[j]]
    /\ tracked' = tracked \ {j \in S : Unnoticed(j)}

-----------------------------------------------------------------------------
(* start_background_job, called by a tool on the loop or, once per command, *)
(* by run_commands_parallel in a thread.                                    *)

\* run_commands_parallel begins; its jobs and its wait have a timeout.
ParallelCall(c) ==
    /\ Free(c)
    /\ at'    = [at EXCEPT ![c] = "next"]
    /\ mine'  = [mine EXCEPT ![c] = {}]
    /\ seen'  = [seen EXCEPT ![c] = Unseen]
    /\ limit' = [limit EXCEPT ![c] = TRUE]
    /\ UNCHANGED <<meta, tracked, proc, deadline, quiet, watcher, lock, job, restarts>>

\* The unlocked first write of meta.json: status "starting", no pid.
StartWrite(c, j, timed, quieted) ==
    /\ at[c] = AfterStart(c)
    /\ c # Loop => timed /\ ~quieted
    /\ meta[j].status = "absent"
    /\ meta'     = [meta EXCEPT ![j] = MetaOf("starting", FALSE)]
    /\ deadline' = [deadline EXCEPT ![j] = IF timed THEN "unset" ELSE "none"]
    /\ quiet'    = [quiet EXCEPT ![j] = IF quieted THEN "fresh" ELSE "off"]
    /\ at'       = [at EXCEPT ![c] = "launch"]
    /\ job'      = [job EXCEPT ![c] = j]
    /\ UNCHANGED <<tracked, proc, watcher, lock, mine, seen, limit, restarts>>

\* An empty command or a bad cwd: 400 before meta.json exists.  The commands
\* of the same parallel call that already run keep running.
StartRefused(c) ==
    /\ c \in Threads /\ at[c] = "next"
    /\ at' = [at EXCEPT ![c] = "raised"]
    /\ UNCHANGED <<meta, tracked, proc, deadline, quiet, watcher, lock, job, mine, seen, limit, restarts>>

\* Popen.
Launch(c) ==
    /\ at[c] = "launch"
    /\ proc' = [proc EXCEPT ![job[c]] = "alive"]
    /\ at'   = [at EXCEPT ![c] = "register"]
    /\ UNCHANGED <<meta, tracked, deadline, quiet, watcher, lock, job, mine, seen, limit, restarts>>

\* Popen raises OSError: the local dictionary is written, without the lock.
LaunchFails(c) ==
    /\ at[c] = "launch"
    /\ meta' = [meta EXCEPT ![job[c]] = MetaOf("failed", FALSE)]
    /\ at'   = [at EXCEPT ![c] = AfterRaise(c)]
    /\ job'  = [job EXCEPT ![c] = NoJob]
    /\ UNCHANGED <<tracked, proc, deadline, quiet, watcher, lock, mine, seen, limit, restarts>>

\* Under the lock: _PROCS, and meta.json overwritten from the local dictionary
\* whatever it says by now.  Then the threads start and the call returns.
Register(c) ==
    LET this == job[c] IN
    /\ at[c] = "register"
    /\ LockFree
    /\ tracked' = tracked \cup {this}
    /\ meta'    = [meta EXCEPT ![this] = MetaOf("running", TRUE)]
    /\ watcher' = [watcher EXCEPT ![this] = "begin"]
    /\ at'      = [at EXCEPT ![c] = AfterStart(c)]
    /\ job'     = [job EXCEPT ![c] = NoJob]
    /\ mine'    = [mine EXCEPT ![c] = IF c = Loop THEN {} ELSE @ \cup {this}]
    /\ UNCHANGED <<proc, deadline, quiet, lock, seen, limit, restarts>>

-----------------------------------------------------------------------------
(* _append_stream and _watch_process. *)

\* A line of output: last_output_at moves, the rest of meta.json is written
\* back as it is, be the status final or "stalled".
Append(j) ==
    /\ watcher[j] \notin {"none", "gone"}
    /\ LockFree
    /\ quiet[j] = "quiet"
    /\ quiet' = [quiet EXCEPT ![j] = "fresh"]
    /\ UNCHANGED <<meta, tracked, proc, deadline, watcher, lock, callVars, restarts>>

\* _PROCS.get(job_id); the deadline counts from here.
WatchBegin(j) ==
    /\ watcher[j] = "begin"
    /\ watcher'  = [watcher EXCEPT ![j] = IF j \in tracked THEN "poll" ELSE "done"]
    /\ deadline' = [deadline EXCEPT ![j] =
                       IF j \in tracked /\ @ = "unset" THEN "ahead" ELSE @]
    /\ UNCHANGED <<meta, tracked, proc, quiet, lock, callVars, restarts>>

\* proc.poll(), outside the lock.
WatchPoll(j) ==
    /\ watcher[j] = "poll"
    /\ watcher' = [watcher EXCEPT ![j] = IF Alive(j) THEN "tick" ELSE "final"]
    /\ UNCHANGED <<meta, tracked, proc, deadline, quiet, lock, callVars, restarts>>

MarkStalled(j) ==
    meta' = [meta EXCEPT ![j].status =
                IF quiet[j] = "quiet" /\ @ = "running" THEN "stalled" ELSE @]

\* The locked body of the loop, deadline not reached.
WatchTick(j) ==
    /\ watcher[j] = "tick"
    /\ LockFree
    /\ deadline[j] # "passed"
    /\ MarkStalled(j)
    /\ watcher' = [watcher EXCEPT ![j] = "poll"]
    /\ UNCHANGED <<tracked, proc, deadline, quiet, lock, callVars, restarts>>

\* The locked body, deadline reached: SIGTERM, then sleep(1) with the lock held.
\* SIGTERM itself is no step: a process may exit, with any code, at any time.
WatchTimeout(j) ==
    /\ watcher[j] = "tick"
    /\ LockFree
    /\ deadline[j] = "passed"
    /\ MarkStalled(j)
    /\ lock'    = j
    /\ watcher' = [watcher EXCEPT ![j] = "grace"]
    /\ UNCHANGED <<tracked, proc, deadline, quiet, callVars, restarts>>

SigKill(j) == proc' = [proc EXCEPT ![j] = IF @ = "alive" THEN "doomed" ELSE @]

\* A plausible slip: SIGTERM is taken to be enough.
WatchKillTermOnly(j) ==
    /\ watcher[j] = "grace"
    /\ lock'    = NoJob
    /\ watcher' = [watcher EXCEPT ![j] = "final"]
    /\ UNCHANGED <<meta, tracked, proc, deadline, quiet, callVars, restarts>>

\* A plausible slip: a process that is gone leaves the lock held.
WatchKillKeepsLock(j) ==
    /\ watcher[j] = "grace"
    /\ SigKill(j)
    /\ lock'    = IF Alive(j) THEN NoJob ELSE lock
    /\ watcher' = [watcher EXCEPT ![j] = "final"]
    /\ UNCHANGED <<meta, tracked, deadline, quiet, callVars, restarts>>

\* After the second: SIGKILL if the process is there, and the lock is released.
WatchKill(j) ==
    /\ watcher[j] = "grace"
    /\ SigKill(j)
    /\ lock'    = NoJob
    /\ watcher' = [watcher EXCEPT ![j] = "final"]
    /\ UNCHANGED <<meta, tracked, deadline, quiet, callVars, restarts>>

\* A plausible slip: "killed" is not looked at.
FinalStatusForgetsKilled(j) ==
    IF deadline[j] = "passed" /\ proc[j] # "zero" THEN "timeout"
    ELSE ExitStatus(proc[j])

\* A plausible slip: every exit after the deadline counts as a timeout.
FinalStatusIgnoresExit(j) ==
    IF deadline[j] = "passed" THEN "timeout"
    ELSE IF meta[j].status = "killed" THEN "killed"
    ELSE ExitStatus(proc[j])

\* The status the watcher writes last.
FinalStatus(j) ==
    IF deadline[j] = "passed" /\ proc[j] # "zero" THEN "timeout"
    ELSE IF meta[j].status = "killed" THEN "killed"
    ELSE ExitStatus(proc[j])

\* A plausible slip: _PROCS.pop is left to the status calls.
WatchFinalKeepsEntry(j) ==
    /\ watcher[j] = "final"
    /\ ~Alive(j)
    /\ LockFree
    /\ meta'    = [meta EXCEPT ![j].status = FinalStatus(j), ![j].exit = proc[j]]
    /\ watcher' = [watcher EXCEPT ![j] = "done"]
    /\ UNCHANGED <<tracked, proc, deadline, quiet, lock, callVars, restarts>>

\* proc.wait() returned: the final write, and _PROCS.pop.
WatchFinal(j) ==
    /\ watcher[j] = "final"
    /\ ~Alive(j)
    /\ LockFree
    /\ meta'    = [meta EXCEPT ![j].status = FinalStatus(j), ![j].exit = proc[j]]
    /\ tracked' = tracked \ {j}
    /\ watcher' = [watcher EXCEPT ![j] = "done"]
    /\ UNCHANGED <<proc, deadline, quiet, lock, callVars, restarts>>

-----------------------------------------------------------------------------
(* Tools on the event loop. *)

\* get_job_status, and stop_job of a job that turns out not to be active, be
\* it that a thread is still starting it.
Status(j) ==
    /\ at[Loop] = "idle"
    /\ LockFree
    /\ meta[j].status # "absent"
    /\ Normalize({j})
    /\ UNCHANGED <<proc, deadline, quiet, watcher, lock, callVars, restarts>>

\* list_jobs: every job with a meta.json, those being started included.
List ==
    /\ at[Loop] = "idle"
    /\ LockFree
    /\ Normalize({j \in Jobs : meta[j].status # "absent"})
    /\ UNCHANGED <<proc, deadline, quiet, watcher, lock, callVars, restarts>>

\* A plausible slip: the status is not looked at before "killed" is written.
StopMarkAnyStatus(j, sig) ==
    /\ at[Loop] = "idle"
    /\ LockFree
    /\ meta[j].pid
    /\ meta' = [meta EXCEPT ![j].status = "killed"]
    /\ at'   = [at EXCEPT ![Loop] = IF meta[j].pid THEN sig ELSE "idle"]
    /\ job'  = [job EXCEPT ![Loop] = IF meta[j].pid THEN j ELSE NoJob]
    /\ UNCHANGED <<tracked, proc, deadline, quiet, watcher, lock, mine, seen, limit, restarts>>

\* stop_job: "killed" is written under the lock ...
StopMark(j, sig) ==
    /\ at[Loop] = "idle"
    /\ LockFree
    /\ meta[j].status \in Active /\ ~Unnoticed(j)
    /\ meta' = [meta EXCEPT ![j].status = "killed"]
    /\ at'   = [at EXCEPT ![Loop] = IF meta[j].pid THEN sig ELSE "idle"]
    /\ job'  = [job EXCEPT ![Loop] = IF meta[j].pid THEN j ELSE NoJob]
    /\ UNCHANGED <<tracked, proc, deadline, quiet, watcher, lock, mine, seen, limit, restarts>>

\* A plausible slip: the signal's name is ignored, TERM is sent.
StopSignalAlwaysTerm ==
    /\ at[Loop] \in {"TERM", "KILL"}
    /\ at'  = [at EXCEPT ![Loop] = "idle"]
    /\ job' = [job EXCEPT ![Loop] = NoJob]
    /\ UNCHANGED <<meta, tracked, proc, deadline, quiet, watcher, lock, mine, seen, limit, restarts>>

\* ... and the group is signalled after it is released.
StopSignal ==
    /\ at[Loop] \in {"TERM", "KILL"}
    /\ IF at[Loop] = "KILL" THEN SigKill(job[Loop]) ELSE UNCHANGED proc
    /\ at'  = [at EXCEPT ![Loop] = "idle"]
    /\ job' = [job EXCEPT ![Loop] = NoJob]
    /\ UNCHANGED <<meta, tracked, deadline, quiet, watcher, lock, mine, seen, limit, restarts>>

-----------------------------------------------------------------------------
(* wait_jobs in a thread, called as a tool or by run_commands_parallel. *)

\* Any jobs with a meta.json, those that another thread is starting included.
WaitCall(c, S, timed) ==
    /\ Free(c)
    /\ S # {} /\ \A j \in S : meta[j].status # "absent"
    /\ at'    = [at EXCEPT ![c] = "poll"]
    /\ mine'  = [mine EXCEPT ![c] = S]
    /\ seen'  = [seen EXCEPT ![c] = Unseen]
    /\ limit' = [limit EXCEPT ![c] = timed]
    /\ UNCHANGED <<meta, tracked, proc, deadline, quiet, watcher, lock, job, restarts>>

\* run_commands_parallel has started its commands and waits for them.
ParallelWait(c) ==
    /\ c \in Threads /\ at[c] = "next"
    /\ mine[c] # {}
    /\ at' = [at EXCEPT ![c] = "poll"]
    /\ UNCHANGED <<meta, tracked, proc, deadline, quiet, watcher, lock, job, mine, seen, limit, restarts>>

\* One get_job_status of the round; other threads run between two of them.
WaitStatus(c, j) ==
    /\ at[c] = "poll"
    /\ LockFree
    /\ j \in mine[c] /\ seen[c][j] = "unseen"
    /\ Normalize({j})
    /\ seen' = [seen EXCEPT ![c][j] = Answer(Normalized(j))]
    /\ UNCHANGED <<proc, deadline, quiet, watcher, lock, at, job, mine, limit, restarts>>

RoundOver(c) == at[c] = "poll" /\ \A j \in mine[c] : seen[c][j] # "unseen"

\* A plausible slip: "timeout" is missing from wait_jobs's terminal set.
AllEndedButTimeout(c) == \A j \in mine[c] : seen[c][j] \in EndAnswers \ {"timeout"}

AllEnded(c)  == \A j \in mine[c] : seen[c][j] \in EndAnswers

\* Every status is terminal, or timeout_s is over.
WaitReturn(c) ==
    /\ RoundOver(c)
    /\ AllEnded(c) \/ limit[c]
    /\ at' = [at EXCEPT ![c] = "returned"]
    /\ UNCHANGED <<meta, tracked, proc, deadline, quiet, watcher, lock, job, mine, seen, limit, restarts>>

WaitAgain(c) ==
    /\ RoundOver(c)
    /\ ~AllEnded(c)
    /\ seen' = [seen EXCEPT ![c] = Unseen]
    /\ UNCHANGED <<meta, tracked, proc, deadline, quiet, watcher, lock, at, job, mine, limit, restarts>>

-----------------------------------------------------------------------------
(* The environment: processes, the clock, the service manager. *)

ProcExit(j) ==
    /\ Alive(j)
    /\ \E code \in Exits : proc' = [proc EXCEPT ![j] = code]
    /\ UNCHANGED <<meta, tracked, deadline, quiet, watcher, lock, callVars, restarts>>

DeadlinePasses(j) ==
    /\ deadline[j] = "ahead" /\ watcher[j] \in Running
    /\ deadline' = [deadline EXCEPT ![j] = "passed"]
    /\ UNCHANGED <<meta, tracked, proc, quiet, watcher, lock, callVars, restarts>>

QuietPasses(j) ==
    /\ quiet[j] = "fresh" /\ watcher[j] \in Running
    /\ quiet' = [quiet EXCEPT ![j] = "quiet"]
    /\ UNCHANGED <<meta, tracked, proc, deadline, watcher, lock, callVars, restarts>>

\* The server dies and systemd starts it again (Restart=always).  Memory and
\* threads are lost; with KillMode=control-group, the default the unit keeps,
\* the jobs die too, and nobody learns their exit codes.
Restart ==
    /\ restarts < MaxRestarts
    /\ restarts' = restarts + 1
    /\ tracked'  = {}
    /\ watcher'  = [j \in Jobs |-> IF watcher[j] \in Running THEN "gone" ELSE watcher[j]]
    /\ lock'     = NoJob
    /\ proc'     = [j \in Jobs |-> IF KillsGroup /\ Alive(j) THEN "nonzero" ELSE proc[j]]
    /\ at'       = [c \in Callers |-> "idle"]
    /\ job'      = [c \in Callers |-> NoJob]
    /\ mine'     = [c \in Callers |-> {}]
    /\ seen'     = [c \in Callers |-> Unseen]
    /\ limit'    = [c \in Callers |-> FALSE]
    /\ UNCHANGED <<meta, deadline, quiet>>

-----------------------------------------------------------------------------
Start(c) ==
    \/ \E j \in Jobs, timed \in TimeoutArgs, quieted \in QuietArgs : StartWrite(c, j, timed, quieted)
    \/ Launch(c) \/ LaunchFails(c) \/ Register(c)

Watch(j) == WatchBegin(j) \/ WatchPoll(j) \/ WatchTick(j) \/ WatchTimeout(j)
              \/ WatchKill(j) \/ WatchFinal(j)

Wait(c) == (\E j \in Jobs : WaitStatus(c, j)) \/ WaitReturn(c) \/ WaitAgain(c)

Next ==
    \/ \E c \in Callers : Start(c)
    \/ \E c \in Threads :
          \/ ParallelCall(c) \/ StartRefused(c) \/ ParallelWait(c) \/ Wait(c)
          \/ \E S \in SUBSET Jobs, timed \in TimeoutArgs : WaitCall(c, S, timed)
    \/ \E j \in Jobs :
          \/ Append(j) \/ Watch(j) \/ Status(j)
          \/ \E sig \in {"TERM", "KILL"} : StopMark(j, sig)
          \/ ProcExit(j) \/ DeadlinePasses(j) \/ QuietPasses(j)
    \/ List \/ StopSignal \/ Restart

Spec == Init /\ [][Next]_vars

\* Threads are scheduled, time passes, and SIGKILL ends a process.  No client
\* need call anything, and no process need end by itself.
Fairness ==
    /\ \A j \in Jobs :
          /\ WF_vars(Watch(j))
          /\ WF_vars(DeadlinePasses(j))
          /\ WF_vars(proc[j] = "doomed" /\ ProcExit(j))
    /\ \A c \in Threads : WF_vars(Wait(c))
    /\ WF_vars(StopSignal)

FairSpec == Spec /\ Fairness

-----------------------------------------------------------------------------
(* Properties. *)

\* Every variable has its type; the lock is held by a watcher in its grace
\* second and by no one else.
TypeOK ==
    /\ meta \in [Jobs -> Meta]
    /\ tracked \subseteq Jobs
    /\ proc \in [Jobs -> Procs]
    /\ deadline \in [Jobs -> Deadlines]
    /\ quiet \in [Jobs -> Quiets]
    /\ watcher \in [Jobs -> Watchers]
    /\ lock \in Jobs \cup {NoJob}
    /\ \A j \in Jobs : lock = j <=> watcher[j] = "grace"
    /\ at \in [Callers -> Places]
    /\ job \in [Callers -> Jobs \cup {NoJob}]
    /\ mine \in [Callers -> SUBSET Jobs]
    /\ seen \in [Callers -> [Jobs -> Answers]]
    /\ limit \in [Callers -> BOOLEAN]
    /\ restarts \in 0..MaxRestarts

\* What meta.json says of an end is true of the process, whoever wrote it: the
\* watcher, a status call, a listing, or stop_job, in any order.  A job that
\* was registered and is "failed" without the note of _normalize_status has
\* exited with another code than 0; with the note it has exited.
StatusTruth ==
    \A j \in Jobs :
        /\ meta[j].status = "completed" => proc[j] = "zero"
        /\ meta[j].status = "timeout" => proc[j] = "nonzero" /\ deadline[j] = "passed"
        /\ meta[j].status = "failed" /\ meta[j].pid =>
              proc[j] \in (IF meta[j].note THEN Exits ELSE {"nonzero"})
        /\ meta[j].exit # "none" => meta[j].exit = proc[j]

\* No job is forgotten: an entry of _PROCS has a watcher that will remove it,
\* and a watcher ends only when the job's end is on disk, even when a status
\* call popped the entry before the watcher looked for it.
WatcherAccountsForJob ==
    \A j \in Jobs :
        /\ j \in tracked => watcher[j] \in Running
        /\ watcher[j] = "done" => meta[j].status \in Terminal

\* wait_jobs reads the statuses one by one (341), yet its answer holds as a
\* whole: an end it has read is still the job's when it returns and ever after,
\* up to the watcher's relabelling to "timeout".  One end does not hold, and
\* the answer shows it by its lack of a pid: a job that another thread was
\* just starting (226-248) is answered "failed", and is registered afterwards.
WaitReportStands ==
    \A c \in Threads, j \in Jobs :
        /\ seen[c][j] \in Terminal => meta[j].status \in {seen[c][j], "timeout"}
        /\ seen[c][j] = "unstarted" => meta[j].status = "failed" \/ meta[j].pid

\* A client's view: the job as it is once start_background_job is over.
Life(j) ==
    IF ~StartOver(j) THEN "unborn"
    ELSE IF meta[j].status \in Active THEN "active" ELSE meta[j].status

Ended(j) == IF proc[j] \in Exits THEN proc[j] ELSE "pending"

Lifecycle == INSTANCE JobLifecycle WITH
    life  <- [j \in Jobs |-> Life(j)],
    ended <- [j \in Jobs |-> Ended(j)]

\* tools_jobs.py implements the abstract life of a job: an end is never undone,
\* "killed" is never lost to "failed", and only "timeout" relabels.
ImplementsLifecycle == Lifecycle!Spec

\* A job with a timeout comes to an end that its watcher records, even when
\* the process ignores SIGTERM and whatever clients call meanwhile, unless the
\* server restarts.
TimedJobsSettle ==
    \A j \in Jobs :
        watcher[j] \in Running /\ deadline[j] # "none"
            ~> watcher[j] = "gone"
               \/ (watcher[j] = "done" /\ ~Alive(j) /\ meta[j].status \in Terminal)

\* stop_job with KILL ends the process, although the signal is sent after the
\* lock is released and the server may die in between.
StopKillsProcess ==
    \A j \in Jobs : at[Loop] = "KILL" /\ job[Loop] = j ~> ~Alive(j)

\* wait_jobs returns, without a timeout_s of its own, when its jobs have one.
WaitsEnd ==
    \A c \in Threads :
        (at[c] = "poll"
            /\ \A j \in mine[c] : deadline[j] # "none" /\ watcher[j] \in Running \cup {"done"})
        ~> at[c] # "poll"

-----------------------------------------------------------------------------
(* The inductive invariant. *)

Starting(c) == at[c] \in {"launch", "register"}
Stopping(c) == at[c] \in {"TERM", "KILL"}

\* What a caller's thread relies on between two steps.
CallInv(c) ==
    /\ at[c] \in {"TERM", "KILL"} => c = Loop
    /\ c = Loop => mine[c] = {}
    /\ Starting(c) \/ Stopping(c) <=> job[c] \in Jobs
    /\ Starting(c) =>
          /\ meta[job[c]].status \in {"starting", "failed"}
          /\ ~meta[job[c]].pid
          /\ at[c] = "launch" <=> proc[job[c]] = "none"
          /\ \A d \in Callers : job[d] = job[c] => d = c
    /\ Stopping(c) => meta[job[c]].pid
    /\ \A j \in mine[c] : meta[j].status # "absent"
    /\ \A j \in Jobs :
          /\ seen[c][j] # "unseen" => j \in mine[c]
          /\ seen[c][j] \in Terminal => meta[j].pid

\* How meta.json, _PROCS, the process and the watcher of a job agree.
JobInv(j) ==
    /\ meta[j].pid <=> watcher[j] # "none"
    /\ ~meta[j].pid => /\ meta[j].status \in {"absent", "starting", "failed"}
                       /\ meta[j].exit = "none"
                       /\ j \notin tracked
    /\ meta[j].pid => /\ meta[j].status \notin {"absent", "starting"}
                      /\ proc[j] # "none"
    /\ meta[j].status = "absent" => proc[j] = "none"
    /\ j \in tracked => watcher[j] \in Running
    /\ watcher[j] \in Running /\ j \notin tracked =>
          meta[j].status \in {"completed", "failed"} /\ ~Alive(j)
    /\ watcher[j] = "done" => meta[j].status \in Terminal /\ ~Alive(j)
    /\ watcher[j] \in Running \cup {"done"} => ~meta[j].note

JobsInv ==
    /\ TypeOK
    /\ \A c \in Callers : CallInv(c)
    /\ \A j \in Jobs : JobInv(j)
    /\ StatusTruth
    /\ WaitReportStands
=============================================================================
