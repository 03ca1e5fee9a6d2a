------------------------------- MODULE Agent -------------------------------
(***************************************************************************)
(* Delegated agents (mcp_server/tools_agents.py).  An agent is a directory *)
(* with meta.json and result.txt.  Its worker is a process of its own: it  *)
(* runs the provider CLI, once per attempt, beside a capture thread that   *)
(* turns each event of the provider into a read and a write of meta.json.  *)
(* The server reads and writes the same file from its event loop (spawn,   *)
(* get, list and the actions) and from the threads of wait_agents.  Nobody *)
(* takes a lock, so every read and every write is a step of its own, and   *)
(* what a writer writes is the copy it read earlier.  A write replaces the *)
(* file in one piece.                                                      *)
(***************************************************************************)
EXTENDS Naturals, FiniteSets

CONSTANTS
    Agents, NoAgent,
    Loop,          \* the event loop: one handler at a time
    Waiters,       \* threads that run wait_agents
    Ops,           \* the operations clients ask for
    MaxAttempts,   \* retries + 1 (line 1144)
    Limits,        \* the limits of an attempt that may run out (1113-1116)
    MaxRestarts,   \* bound: restarts of the server
    Errors,        \* bound: the kinds of errors that may come unasked
    CgroupKill,    \* a restart kills the workers and providers with the server
    SpawnRace,     \* a worker may read meta.json before its spawn has returned
    CaptureLag     \* a capture thread may go on after its two-second join, or after an error that
                   \* has ended the attempt

ASSUME LoopAssumption == Loop \notin Waiters
ASSUME NoAgentAssumption == NoAgent \notin Agents
ASSUME AttemptsAssumption == MaxAttempts \in Nat \ {0}
ASSUME RestartsAssumption == MaxRestarts \in Nat
ASSUME LimitsAssumption == Limits \subseteq {"timeout", "stalled"}
ASSUME ErrorsAssumption == Errors \subseteq {"crash", "raise", "capture"}
ASSUME FlagsAssumption == {CgroupKill, SpawnRace, CaptureLag} \subseteq BOOLEAN

VARIABLES
    meta,      \* meta[a]: what meta.json holds, status "absent" without the directory
    result,    \* result[a]: result.txt; "absent" without it and the prompt files,
               \* "stray" when it is alone in a directory made again
    wrk,       \* wrk[a]: the worker process
    prov,      \* prov[a][k]: the provider process of the k-th attempt
    cap,       \* cap[a][k]: the capture thread of the k-th attempt
    kids,      \* kids[a]: _WORKERS holds a (the worker is not yet reaped)
    thr,       \* thr[t]: the server's event loop and wait threads
    restarts

files == <<meta, result>>
procs == <<wrk, prov, cap, kids>>
vars == <<meta, result, wrk, prov, cap, kids, thr, restarts>>

-----------------------------------------------------------------------------
Attempts == 1..MaxAttempts
Threads  == Waiters \cup {Loop}

Ended == {"completed", "failed", "timeout", "stalled", "cancelled"}
Verdicts == {"completed", "timeout", "stalled"}
Live  == {"starting", "running"}

\* provider: the attempt whose pid is recorded, 0 for none.
Meta == [status: Ended \cup Live \cup {"absent"}, worker: BOOLEAN,
         provider: 0..MaxAttempts]

Absent == [status |-> "absent", worker |-> FALSE, provider |-> 0]

Idle == [op |-> "none", pc |-> "idle", a |-> NoAgent, snap |-> Absent,
         ids |-> {}, todo |-> {}, seen |-> {}]

NoWorker == [pc |-> "none", att |-> 0, snap |-> Absent, stop |-> "none", sig |-> "none"]

NoCapture == [pc |-> "off", snap |-> Absent]

Init ==
    /\ meta = [a \in Agents |-> Absent]
    /\ result = [a \in Agents |-> "absent"]
    /\ wrk = [a \in Agents |-> NoWorker]
    /\ prov = [a \in Agents |-> [k \in Attempts |-> "none"]]
    /\ cap = [a \in Agents |-> [k \in Attempts |-> NoCapture]]
    /\ kids = [a \in Agents |-> FALSE]
    /\ thr = [t \in Threads |-> Idle]
    /\ restarts = 0

Exists(a)  == meta[a].status # "absent"
Up(a)      == wrk[a].pc \notin {"none", "done", "dead"}
Runs(a)    == Up(a) /\ wrk[a].sig # "kill"
Running    == {"up", "term"}
Known(a)   == wrk[a].pc # "none"
HasPrompt(a) == result[a] \notin {"absent", "stray"}

\* os.kill(pid, 0) also succeeds for a worker that has ended and is not yet reaped.
PidAlive(a) == Up(a) \/ kids[a]

\* The second write of a's spawn is still to come.
Late(a) == thr[Loop].pc = "late" /\ thr[Loop].a = a

\* _write_meta makes the directory again when it is gone.
Put(a, m) == meta' = [meta EXCEPT ![a] = m]

-----------------------------------------------------------------------------
(* The server's side: the handlers of the event loop and wait_agents.      *)

AtLoop(p, op) == thr[Loop].pc = p /\ thr[Loop].op = op
Goto(t, p)    == thr' = [thr EXCEPT ![t].pc = p]
Finish(t)     == thr' = [thr EXCEPT ![t] = Idle]

Fresh(a) == wrk[a].pc = "none" /\ ~Exists(a)

\* The first half of _spawn_internal: a new directory and its first meta.json.
SpawnBegin(a) ==
    /\ Fresh(a)
    /\ LET m == [Absent EXCEPT !.status = "starting"] IN
       /\ Put(a, m)
       /\ thr' = [thr EXCEPT ![Loop] = [Idle EXCEPT !.op = "spawn", !.pc = "popen",
                                                    !.a = a, !.snap = m]]
    /\ result' = [result EXCEPT ![a] = "empty"]
    /\ UNCHANGED <<procs, restarts>>

SpawnAgent(a) == thr[Loop].pc = "idle" /\ "spawn" \in Ops /\ SpawnBegin(a)

\* retry and message start a new agent from the prompt of an old one.  A message wants an agent
\* that has ended and left a session id, which the worker's own final write may record.
MayRespawn ==
    /\ thr[Loop].pc = "act" /\ HasPrompt(thr[Loop].a)
    /\ \/ thr[Loop].op = "retry"
       \/ thr[Loop].op = "message" /\ thr[Loop].snap.status \in Ended \ {"cancelled"}

Respawn(a) == MayRespawn /\ SpawnBegin(a)

\* There is nothing to start from, or the spawn is refused before it has made its directory, the CLI or
\* the working directory being gone.
SpawnRefused ==
    /\ thr[Loop].pc = "act" /\ thr[Loop].op \in {"retry", "message"} /\ Finish(Loop)
    /\ UNCHANGED <<files, procs, restarts>>

SpawnPopen(a) ==
    /\ AtLoop("popen", "spawn") /\ thr[Loop].a = a
    /\ wrk' = [wrk EXCEPT ![a].pc = "boot"]
    /\ kids' = [kids EXCEPT ![a] = TRUE]
    /\ Goto(Loop, "late")
    /\ UNCHANGED <<files, prov, cap, restarts>>

SpawnFails(a) ==
    /\ AtLoop("popen", "spawn") /\ thr[Loop].a = a
    /\ Put(a, [thr[Loop].snap EXCEPT !.status = "failed"])
    /\ wrk' = [wrk EXCEPT ![a].pc = "dead"]
    /\ Finish(Loop)
    /\ UNCHANGED <<result, prov, cap, kids, restarts>>

\* The spawn's second write: the record it built before the worker existed.
SpawnLate(a) ==
    /\ AtLoop("late", "spawn") /\ thr[Loop].a = a
    /\ Put(a, [thr[Loop].snap EXCEPT !.status = "running", !.worker = TRUE]) /\ Finish(Loop)
    /\ UNCHANGED <<result, procs, restarts>>

\* get_agent, one item of list_agents, and every action begin with reading meta.json.
Begin(op, a) ==
    /\ thr[Loop].pc = "idle"
    /\ IF Exists(a)
       THEN thr' = [thr EXCEPT ![Loop] = [Idle EXCEPT !.op = op, !.pc = "check", !.a = a,
                                                      !.snap = meta[a]]]
       ELSE Finish(Loop)
    /\ UNCHANGED <<files, procs, restarts>>

Call(op, a) ==
    Known(a) /\ op \in Ops \cap {"get", "cancel", "despawn", "retry", "message"} /\ Begin(op, a)

WorkerGone(t) ==
    thr[t].snap.status \in Live /\ thr[t].snap.worker /\ ~PidAlive(thr[t].a)

Term(a, k) ==
    prov' = IF k \in Attempts /\ prov[a][k] = "up"
            THEN [prov EXCEPT ![a][k] = "term"] ELSE prov

\* _normalize: the test of the worker's pid, on the copy read before, ...
Check(t) ==
    /\ thr[t].pc = "check"
    /\ IF WorkerGone(t)
       THEN Goto(t, "mark") /\ Term(thr[t].a, thr[t].snap.provider)
       ELSE Goto(t, "act") /\ UNCHANGED prov
    /\ UNCHANGED <<files, wrk, cap, kids, restarts>>

\* Mutant: the verdict is put into the answer only.
MarkAnswerOnly(t) ==
    /\ thr[t].pc = "mark"
    /\ thr' = [thr EXCEPT ![t].pc = "act", ![t].snap.status = "failed"]
    /\ UNCHANGED <<files, procs, restarts>>

\* Mutant: the copy is written before the verdict is put into it.
MarkWritesCopy(t) ==
    /\ thr[t].pc = "mark" /\ Put(thr[t].a, thr[t].snap)
    /\ thr' = [thr EXCEPT ![t].pc = "act", ![t].snap.status = "failed"]
    /\ UNCHANGED <<result, procs, restarts>>

\* ... and the write of that copy.
Mark(t) ==
    /\ thr[t].pc = "mark"
    /\ LET m == [thr[t].snap EXCEPT !.status = "failed"] IN
       /\ Put(thr[t].a, m)
       /\ thr' = [thr EXCEPT ![t].pc = "act", ![t].snap = m]
    /\ UNCHANGED <<result, procs, restarts>>

\* The answer of get_agent; result.txt is read here.
Answer == AtLoop("act", "get") /\ Finish(Loop) /\ UNCHANGED <<files, procs, restarts>>

CancelFinished ==
    /\ AtLoop("act", "cancel") /\ thr[Loop].snap.status \in Ended /\ Finish(Loop)
    /\ UNCHANGED <<files, procs, restarts>>

\* Signals go to the pids in the copy read; only a worker in _WORKERS is waited for.
CancelSignal(s) ==
    /\ AtLoop("act", "cancel") /\ thr[Loop].snap.status \notin Ended
    /\ LET a == thr[Loop].a
           m == thr[Loop].snap IN
       /\ IF s = "kill" /\ m.provider \in Attempts /\ prov[a][m.provider] \in Running
          THEN prov' = [prov EXCEPT ![a][m.provider] = "bad"]
          ELSE Term(a, m.provider)
       /\ wrk' = IF m.worker /\ Runs(a) THEN [wrk EXCEPT ![a].sig = s] ELSE wrk
       /\ Goto(Loop, IF kids[a] THEN "wait1" ELSE "write")
    /\ UNCHANGED <<files, cap, kids, restarts>>

CancelWaited ==
    /\ thr[Loop].pc \in {"wait1", "wait2"} /\ ~Up(thr[Loop].a) /\ Goto(Loop, "write")
    /\ UNCHANGED <<files, procs, restarts>>

\* Mutant: no SIGKILL after the two seconds.
CancelWaitsLonger ==
    /\ thr[Loop].pc = "wait1" /\ Up(thr[Loop].a) /\ Goto(Loop, "wait2")
    /\ UNCHANGED <<files, procs, restarts>>

CancelEscalate ==
    /\ thr[Loop].pc = "wait1" /\ Up(thr[Loop].a)
    /\ wrk' = IF thr[Loop].snap.worker THEN [wrk EXCEPT ![thr[Loop].a].sig = "kill"] ELSE wrk
    /\ Goto(Loop, "wait2")
    /\ UNCHANGED <<files, prov, cap, kids, restarts>>

CancelGivesUp ==
    /\ thr[Loop].pc = "wait2" /\ Up(thr[Loop].a) /\ Goto(Loop, "write")
    /\ UNCHANGED <<files, procs, restarts>>

CancelWrite ==
    /\ thr[Loop].pc = "write" /\ Put(thr[Loop].a, [thr[Loop].snap EXCEPT !.status = "cancelled"])
    /\ Finish(Loop) /\ UNCHANGED <<result, procs, restarts>>

Despawn ==
    /\ AtLoop("act", "despawn")
    /\ IF thr[Loop].snap.status \in Ended
       THEN /\ Put(thr[Loop].a, Absent)
            /\ result' = [result EXCEPT ![thr[Loop].a] = "absent"]
            /\ Finish(Loop)
       ELSE Finish(Loop) /\ UNCHANGED files
    /\ UNCHANGED <<procs, restarts>>

\* wait_agents reads its agents, or those its team's file lists, one after the other, each time
\* round.
WaitCall(t, S) ==
    /\ t \in Waiters /\ thr[t].pc = "idle" /\ "wait" \in Ops
    /\ S # {} /\ \A a \in S: Known(a)
    /\ thr' = [thr EXCEPT ![t] = [Idle EXCEPT !.op = "wait", !.pc = "read",
                                              !.ids = S, !.todo = S]]
    /\ UNCHANGED <<files, procs, restarts>>

WaitRead(t, a) ==
    /\ thr[t].pc = "read" /\ a \in thr[t].todo
    /\ IF Exists(a)
       THEN thr' = [thr EXCEPT ![t].pc = "check", ![t].a = a, ![t].snap = meta[a]]
       ELSE Finish(t)
    /\ UNCHANGED <<files, procs, restarts>>

WaitNext(t) ==
    /\ thr[t].op = "wait" /\ thr[t].pc = "act"
    /\ LET a == thr[t].a
           rest == thr[t].todo \ {a} IN
       thr' = [thr EXCEPT ![t].pc = IF rest = {} THEN "decide" ELSE "read",
                          ![t].todo = rest, ![t].a = NoAgent, ![t].snap = Absent,
                          ![t].seen = IF thr[t].snap.status \in Ended THEN @ \cup {a} ELSE @]
    /\ UNCHANGED <<files, procs, restarts>>

\* _wait_condition
Met(mode, n, total) ==
    CASE mode = "all" -> n >= total
      [] mode = "any" -> n >= 1
      [] OTHER        -> n >= (total \div 2) + 1

\* It answers when its condition is met, and at the latest when its time is up.
WaitReturn(t) == thr[t].pc = "decide" /\ Finish(t) /\ UNCHANGED <<files, procs, restarts>>

WaitAgain(t) ==
    /\ thr[t].pc = "decide"
    /\ \E mode \in {"all", "any", "majority"}:
          ~Met(mode, Cardinality(thr[t].seen), Cardinality(thr[t].ids))
    /\ thr' = [thr EXCEPT ![t].pc = "read", ![t].todo = thr[t].ids, ![t].seen = {}]
    /\ UNCHANGED <<files, procs, restarts>>

-----------------------------------------------------------------------------
(* The worker process: _worker and _run_provider_attempt.                  *)

At(a, p)       == Runs(a) /\ wrk[a].pc = p
Move(a, p)     == wrk' = [wrk EXCEPT ![a].pc = p]
Hold(a, p, m)  == wrk' = [wrk EXCEPT ![a].pc = p, ![a].snap = m]
Cancelled(a)   == meta[a].status = "cancelled"

\* Ending a worker ends its capture threads: they are daemons.
Leave(a, p) ==
    /\ wrk' = [wrk EXCEPT ![a] = [@ EXCEPT !.pc = p, !.snap = Absent, !.sig = "none",
                                      !.stop = "none"]]
    /\ cap' = [cap EXCEPT ![a] = [k \in Attempts |-> NoCapture]]

\* Write the copy it holds and go on.
Flush(a, p) == Put(a, wrk[a].snap) /\ wrk' = [wrk EXCEPT ![a].pc = p, ![a].snap = Absent]

WorkerBoot(a) ==
    /\ At(a, "boot")
    /\ SpawnRace \/ ~Late(a)
    /\ IF Exists(a) /\ HasPrompt(a)
       THEN Hold(a, "hello", [meta[a] EXCEPT !.status = "running"]) /\ UNCHANGED cap
       ELSE Leave(a, "dead")
    /\ UNCHANGED <<files, prov>>

WorkerHello(a) == At(a, "hello") /\ Flush(a, "top") /\ UNCHANGED <<result, prov, cap>>

\* The top of the loop over attempts; a missing file raises into the handler of line 1166.
WorkerTop(a) ==
    /\ At(a, "top")
    /\ IF Cancelled(a) THEN Leave(a, "done")
       ELSE /\ UNCHANGED cap
            /\ IF ~Exists(a) THEN Move(a, "except")
               ELSE IF wrk[a].att = 0 THEN Move(a, "popen")
               ELSE Hold(a, "retry", [meta[a] EXCEPT !.provider = 0])
    /\ UNCHANGED <<files, prov>>

WorkerRetry(a) == At(a, "retry") /\ Flush(a, "popen") /\ UNCHANGED <<result, prov, cap>>

WorkerPopen(a) ==
    /\ At(a, "popen")
    /\ IF Exists(a)
       THEN LET k == wrk[a].att + 1 IN
            /\ wrk' = [wrk EXCEPT ![a].pc = "look", ![a].att = k, ![a].stop = "none"]
            /\ prov' = [prov EXCEPT ![a][k] = "up"]
       ELSE Move(a, "except") /\ UNCHANGED prov
    /\ UNCHANGED <<files, cap>>

\* Any statement of the attempts may raise, before the provider is started or after; nobody stops
\* a provider that is left.
WorkerRaises(a) ==
    /\ "raise" \in Errors
    /\ Runs(a) /\ wrk[a].pc \in {"top", "retry", "popen", "look", "record", "poll", "after"}
    /\ CaptureLag \/ \A k \in Attempts: cap[a][k].pc = "off"
    /\ Hold(a, "except", Absent) /\ UNCHANGED <<files, prov, cap>>

\* Cancelled while the provider was being started: terminate it, wait without a limit.
WorkerLook(a) ==
    /\ At(a, "look")
    /\ IF Cancelled(a) THEN Move(a, "drain") /\ Term(a, wrk[a].att)
       ELSE /\ UNCHANGED prov
            /\ IF Exists(a)
               THEN Hold(a, "record", [meta[a] EXCEPT !.provider = wrk[a].att])
               ELSE Move(a, "except")
    /\ UNCHANGED <<files, cap>>

WorkerDrain(a) ==
    /\ At(a, "drain") /\ prov[a][wrk[a].att] \notin Running /\ Leave(a, "done")
    /\ UNCHANGED <<files, prov>>

\* The pid is recorded before the capture thread starts.
WorkerRecord(a) ==
    /\ At(a, "record") /\ Flush(a, "poll") /\ cap' = [cap EXCEPT ![a][wrk[a].att].pc = "line"]
    /\ UNCHANGED <<result, prov>>

\* The pid is recorded, and the capture thread does not start.
WorkerUnwatched(a) ==
    /\ "raise" \in Errors /\ At(a, "record")
    /\ Flush(a, "except") /\ UNCHANGED <<result, prov, cap>>

\* One turn of the poll loop that finds a reason to stop (the others change nothing).
WorkerStop(a, why) ==
    /\ At(a, "poll") /\ prov[a][wrk[a].att] \in Running
    /\ IF Exists(a)
       THEN /\ why = "cancelled" <=> Cancelled(a)
            /\ wrk' = [wrk EXCEPT ![a].pc = "stop", ![a].stop = why]
            /\ Term(a, wrk[a].att)
       ELSE Move(a, "except") /\ UNCHANGED prov
    /\ UNCHANGED <<files, cap>>

\* Mutant: after three seconds the provider is left to itself.
WorkerLetsGo(a) ==
    /\ At(a, "stop") /\ prov[a][wrk[a].att] \in Running /\ Move(a, "join")
    /\ UNCHANGED <<files, prov, cap>>

\* Mutant: SIGTERM, and a wait without the three seconds.
WorkerWaits(a) ==
    /\ At(a, "stop") /\ prov[a][wrk[a].att] \notin Running /\ Move(a, "join")
    /\ UNCHANGED <<files, prov, cap>>

WorkerKill(a) ==
    /\ At(a, "stop") /\ prov[a][wrk[a].att] \in Running
    /\ prov' = [prov EXCEPT ![a][wrk[a].att] = "bad"] /\ Move(a, "join")
    /\ UNCHANGED <<files, cap>>

WorkerSeesExit(a) ==
    /\ Runs(a) /\ wrk[a].pc \in {"poll", "stop"} /\ prov[a][wrk[a].att] \notin Running
    /\ Move(a, "join") /\ UNCHANGED <<files, prov, cap>>

\* The join of the capture threads gives up after two seconds; a stream whose provider is gone is
\* taken to be read by then, unless CaptureLag.
WorkerJoin(a) ==
    /\ At(a, "join")
    /\ CaptureLag \/ prov[a][wrk[a].att] \in Running \/ cap[a][wrk[a].att].pc = "off"
    /\ Move(a, "after")
    /\ UNCHANGED <<files, prov, cap>>

Succeeded(a) == prov[a][wrk[a].att] = "ok" /\ wrk[a].stop = "none"

WorkerAfter(a) ==
    /\ At(a, "after")
    /\ IF Exists(a) /\ (Cancelled(a) \/ wrk[a].stop = "cancelled") THEN Leave(a, "done")
       ELSE /\ UNCHANGED cap
            /\ Move(a, IF ~Exists(a) THEN "except"
                       ELSE IF Succeeded(a) \/ wrk[a].att = MaxAttempts THEN "finish"
                       ELSE "top")
    /\ UNCHANGED <<files, prov>>

\* The handler of any exception in the attempts: read again, write the error.
WorkerExcept(a) ==
    /\ At(a, "except")
    /\ IF ~Exists(a) THEN Leave(a, "dead")
       ELSE IF Cancelled(a) THEN Leave(a, "done")
       ELSE Hold(a, "error", [meta[a] EXCEPT !.status = "failed"]) /\ UNCHANGED cap
    /\ UNCHANGED <<files, prov>>

FinalStatus(a) ==
    IF wrk[a].stop \in {"timeout", "stalled"} THEN wrk[a].stop
    ELSE IF prov[a][wrk[a].att] = "ok" THEN "completed" ELSE "failed"

\* Mutant: only a failure has its result.txt written.
FinishUnwritten(a) ==
    /\ At(a, "finish")
    /\ IF Cancelled(a) THEN Leave(a, "done")
       ELSE /\ Hold(a, IF FinalStatus(a) = "completed" THEN "final" ELSE "result",
                    [meta[a] EXCEPT !.status = FinalStatus(a), !.provider = 0])
            /\ UNCHANGED cap
    /\ UNCHANGED <<files, prov>>

\* The last look: read, decide the status, write result.txt, write meta.json.
WorkerFinish(a) ==
    /\ At(a, "finish")
    /\ IF ~Exists(a) THEN Leave(a, "dead")
       ELSE IF Cancelled(a) THEN Leave(a, "done")
       ELSE /\ Hold(a, "result", [meta[a] EXCEPT !.status = FinalStatus(a), !.provider = 0])
            /\ UNCHANGED cap
    /\ UNCHANGED <<files, prov>>

WorkerResult(a) ==
    /\ Runs(a) /\ wrk[a].pc \in {"result", "error"}
    /\ IF Exists(a)
       THEN /\ result' = [result EXCEPT ![a] = IF ~HasPrompt(a) THEN "stray"
                                                ELSE IF wrk[a].pc = "result" THEN "final"
                                                ELSE "error"]
            /\ Move(a, "final") /\ UNCHANGED cap
       ELSE Leave(a, "dead") /\ UNCHANGED result
    /\ UNCHANGED <<meta, prov>>

WorkerFinal(a) ==
    /\ At(a, "final") /\ Put(a, wrk[a].snap)
    /\ wrk' = [wrk EXCEPT ![a] = [@ EXCEPT !.pc = "exit", !.snap = Absent]]
    /\ UNCHANGED <<result, prov, cap>>

WorkerExit(a) == At(a, "exit") /\ Leave(a, "done") /\ UNCHANGED <<files, prov>>

WorkerDies(a) == Up(a) /\ wrk[a].sig # "none" /\ Leave(a, "dead") /\ UNCHANGED <<files, prov>>

\* A worker may also end unasked: killed by the system, or by an exception outside the attempts.
WorkerCrashes(a) == "crash" \in Errors /\ Up(a) /\ Leave(a, "dead") /\ UNCHANGED <<files, prov>>

\* _reap_worker
Reap(a) ==
    /\ kids[a] /\ ~Up(a) /\ kids' = [kids EXCEPT ![a] = FALSE]
    /\ UNCHANGED <<files, wrk, prov, cap, thr, restarts>>

-----------------------------------------------------------------------------
(* The capture thread, the provider, and the end of the server.            *)

\* _record_provider_event: the read of one event, ...
EventRead(a, k) ==
    /\ Runs(a) /\ cap[a][k].pc = "line" /\ Exists(a) /\ ~Cancelled(a)
    /\ cap' = [cap EXCEPT ![a][k] = [pc |-> "write", snap |-> meta[a]]]
    /\ UNCHANGED <<files, wrk, prov, kids, thr, restarts>>

\* ... and its write of that copy, with counters and phase brought up to date.
EventWrite(a, k) ==
    /\ Runs(a) /\ cap[a][k].pc = "write" /\ Put(a, cap[a][k].snap)
    /\ cap' = [cap EXCEPT ![a][k] = [pc |-> "line", snap |-> Absent]]
    /\ UNCHANGED <<result, wrk, prov, kids, thr, restarts>>

CaptureEnd(a, k) ==
    /\ Runs(a) /\ cap[a][k].pc = "line" /\ prov[a][k] \notin Running
    /\ cap' = [cap EXCEPT ![a][k] = NoCapture]
    /\ UNCHANGED <<files, wrk, prov, kids, thr, restarts>>

\* An exception ends the capture thread alone.
CaptureFails(a, k) ==
    /\ "capture" \in Errors /\ Runs(a) /\ cap[a][k].pc # "off"
    /\ cap' = [cap EXCEPT ![a][k] = NoCapture]
    /\ UNCHANGED <<files, wrk, prov, kids, thr, restarts>>

ProviderExit(a, k) ==
    /\ prov[a][k] \in Running
    /\ \E c \in {"ok", "bad"}: prov' = [prov EXCEPT ![a][k] = c]
    /\ UNCHANGED <<files, wrk, cap, kids, thr, restarts>>

Stopped(w) == IF w.pc \in {"none", "done", "dead"} THEN w
              ELSE [w EXCEPT !.pc = "dead", !.snap = Absent, !.sig = "none", !.stop = "none"]

Restart ==
    /\ restarts < MaxRestarts
    /\ restarts' = restarts + 1
    /\ thr' = [t \in Threads |-> Idle]
    /\ kids' = [a \in Agents |-> FALSE]
    /\ IF CgroupKill
       THEN /\ wrk' = [a \in Agents |-> Stopped(wrk[a])]
            /\ prov' = [a \in Agents |-> [k \in Attempts |->
                           IF prov[a][k] \in Running THEN "bad" ELSE prov[a][k]]]
            /\ cap' = [a \in Agents |-> [k \in Attempts |-> NoCapture]]
       ELSE UNCHANGED <<wrk, prov, cap>>
    /\ UNCHANGED files

-----------------------------------------------------------------------------
\* What a worker does if nothing goes wrong in it, and what may.
WorkerGoesOn(a) ==
    /\ UNCHANGED <<kids, thr, restarts>>
    /\ \/ WorkerBoot(a) \/ WorkerHello(a) \/ WorkerTop(a) \/ WorkerRetry(a)
       \/ WorkerPopen(a) \/ WorkerLook(a) \/ WorkerDrain(a)
       \/ WorkerRecord(a) \/ (\E why \in Limits \cup {"cancelled"}: WorkerStop(a, why))
       \/ WorkerKill(a) \/ WorkerSeesExit(a) \/ WorkerJoin(a) \/ WorkerAfter(a)
       \/ WorkerExcept(a) \/ WorkerFinish(a) \/ WorkerResult(a) \/ WorkerFinal(a)
       \/ WorkerExit(a) \/ WorkerDies(a)

WorkerErrs(a) ==
    /\ UNCHANGED <<kids, thr, restarts>>
    /\ WorkerRaises(a) \/ WorkerUnwatched(a) \/ WorkerCrashes(a)

Worker(a) == WorkerGoesOn(a) \/ WorkerErrs(a)

Capture(a, k) ==
    EventRead(a, k) \/ EventWrite(a, k) \/ CaptureEnd(a, k) \/ CaptureFails(a, k)

\* What goes on whatever the event loop does.
Background ==
    \/ \E a \in Agents: Worker(a) \/ Reap(a)
    \/ \E a \in Agents, k \in Attempts: Capture(a, k) \/ ProviderExit(a, k)
    \/ \E t \in Waiters, S \in SUBSET Agents: WaitCall(t, S)
    \/ \E t \in Waiters, a \in Agents: WaitRead(t, a)
    \/ \E t \in Waiters: Check(t) \/ Mark(t) \/ WaitNext(t) \/ WaitReturn(t) \/ WaitAgain(t)

\* The handler on the event loop.
Handler ==
    \/ \E a \in Agents: Respawn(a) \/ SpawnPopen(a) \/ SpawnFails(a) \/ SpawnLate(a)
    \/ SpawnRefused \/ Check(Loop) \/ Mark(Loop) \/ Answer
    \/ CancelFinished \/ (\E s \in {"soft", "kill"}: CancelSignal(s)) \/ CancelWaited
    \/ CancelEscalate \/ CancelGivesUp \/ CancelWrite \/ Despawn

Calls == \E a \in Agents: SpawnAgent(a) \/ \E op \in Ops: Call(op, a)

Next == Background \/ Handler \/ Calls \/ Restart

Spec == Init /\ [][Next]_vars

-----------------------------------------------------------------------------
TypeOK ==
    /\ meta \in [Agents -> Meta]
    /\ result \in [Agents -> {"absent", "stray", "empty", "error", "final"}]
    /\ wrk \in [Agents -> [pc: {"none", "boot", "hello", "top", "retry", "popen", "look", "drain",
                                "record", "poll", "stop", "join", "after", "except", "finish",
                                "result", "error", "final", "exit", "done", "dead"},
                           att: 0..MaxAttempts, snap: Meta,
                           stop: {"none", "cancelled", "timeout", "stalled"},
                           sig: {"none", "soft", "kill"}]]
    /\ prov \in [Agents -> [Attempts -> {"none", "up", "term", "ok", "bad"}]]
    /\ cap \in [Agents -> [Attempts -> [pc: {"off", "line", "write"}, snap: Meta]]]
    /\ kids \in [Agents -> BOOLEAN]
    /\ thr \in [Threads -> [op: {"none", "spawn", "get", "cancel", "despawn", "retry",
                                 "message", "wait"},
                            pc: {"idle", "popen", "late", "check", "mark", "act", "wait1", "wait2",
                                 "write", "read", "decide"},
                            a: Agents \cup {NoAgent}, snap: Meta, ids: SUBSET Agents,
                            todo: SUBSET Agents, seen: SUBSET Agents]]
    /\ restarts \in 0..MaxRestarts

\* An attempt begins only when the provider of every earlier attempt is gone: a worker waits for
\* its provider, killed if need be, before it retries (tools_agents.py:1117-1126).
OneAttemptAtATime ==
    \A a \in Agents: \A j, k \in Attempts:
        j < k /\ prov[a][k] # "none" => prov[a][j] \in {"ok", "bad"}

\* What says completed, timeout or stalled has no provider running behind it: the worker writes its
\* verdict after it has waited for the provider, killed if need be (1120-1126, 1198-1212).  "failed"
\* promises no such thing: an error of the attempts, at 1102 say, leaves the provider to itself.
NoOrphanBehindResult ==
    \A a \in Agents: meta[a].status \in Verdicts => \A k \in Attempts: prov[a][k] \notin Running

\* An agent that says completed, and is not despawned, has its result: result.txt is written before
\* meta.json says so (1197-1212).
CompletedHasResult ==
    \A a \in Agents: meta[a].status = "completed" /\ HasPrompt(a) => result[a] = "final"

\* A terminal status on disk is never replaced by starting or running, whoever still holds an
\* older copy: cancel waits for the worker it tracks, escalating to SIGKILL (766-776), the worker
\* writes last, and the others write an end of their own.  That may be another one: _normalize,
\* with a copy read before the worker's "completed", replaces it by "failed" (388-396).  The three
\* switches are off: with any of them on it does not hold.
EndStands ==
    [][\A a \in Agents: meta[a].status \in Ended => meta'[a].status \in Ended \cup {"absent"}]_vars

\* The steps that may undo what an end on disk says.
UndoRace(a) ==
    \/ Late(a) /\ wrk[a].pc # "boot"
    \/ Runs(a) /\ meta[a].status = "absent"
    \/ Runs(a) /\ meta[a].status = "cancelled" /\ ~(meta[a].worker /\ kids[a])
    \/ /\ Runs(a) /\ wrk[a].pc \notin {"poll", "stop", "join"}
       /\ \E k \in Attempts: cap[a][k].pc = "write"

\* Whatever the switches allow, an end gives way to starting or running, or to a despawned agent's
\* return, by three steps only: the second write of a spawn whose worker is under way already
\* (517-518); a worker or capture thread that is still to notice the cancel or the despawn, and that
\* cancel did not wait for, the server not holding it or its pid not on disk (762-777); and a capture
\* thread that has outlived the wait for it (1127).  No reader revives anything (388-399).
OnlyRacesUndo ==
    [][\A a \in Agents:
          Known(a) /\ meta[a].status \in Ended \cup {"absent"} /\ meta'[a].status \in Live => UndoRace(a)]_vars

\* While the server still holds the worker of a cancelled agent whose pid is on disk, that worker
\* takes no step: cancel has waited for its death, or has killed it.
CancelledMeansStopped ==
    \A a \in Agents: meta[a].status = "cancelled" /\ meta[a].worker /\ kids[a]
                        => ~Runs(a)

\* What providers p say of the attempts of worker w.
Past == {"top", "retry", "popen", "join", "after", "finish", "result"}

AttemptInv(w, p) ==
    /\ w.pc \in {"none", "boot", "hello"} => w.att = 0
    /\ w.pc \in {"top", "retry", "popen"} => w.att < MaxAttempts
    /\ w.pc \in {"look", "drain", "record", "poll", "stop", "join", "after", "finish", "result"} =>
          w.att # 0
    /\ \A k \in Attempts:
          /\ k > w.att => p[k] = "none"
          /\ k < w.att => p[k] \in {"ok", "bad"}
          /\ k = w.att => p[k] # "none" /\ (w.pc \in Past => p[k] \notin Running)

\* Only cancel writes "cancelled", and it does so when the worker it tracks has ended or is killed.
CopiesLive(w, c) == w.snap.status # "cancelled" /\ \A k \in Attempts: c[k].snap.status # "cancelled"

\* Until the worker has written its verdict, meta.json holds no end but a cancel's, and no copy of
\* one is about.  Every copy that is written early is live, and every verdict is written with the
\* provider gone and the result in its place.
CopyInv(w, c, m) ==
    /\ w.pc \notin {"none", "exit", "done", "dead"} /\ m.status \in Ended => m.status = "cancelled"
    /\ w.pc \in {"hello", "retry", "record"} => w.snap.status \in Live
    /\ w.pc \in {"result", "error", "final"} => w.snap.status \in Ended
    /\ w.pc = "error" => w.snap.status = "failed"
    /\ \A k \in Attempts:
          /\ c[k].snap.status \in Ended => w.pc = "exit"
          /\ w.pc \in {"none", "boot"} => c[k].pc = "off"
          /\ c[k].pc = "write" => c[k].snap.status # "absent"

Says(w, c, m, S) ==
    \/ w.pc = "final" /\ w.snap.status \in S
    \/ m.status \in S
    \/ \E k \in Attempts: c[k].snap.status \in S

ResultInv(w, p, c, m, r) ==
    /\ Says(w, c, m, Verdicts) => \A k \in Attempts: p[k] \notin Running
    /\ Says(w, c, m, {"completed"}) => r \notin {"empty", "error"}

Handling == {"check", "mark", "act", "wait1", "wait2", "write"}

ThreadInv(t) ==
    /\ thr[t].pc \in Handling \cup {"popen", "late"} => thr[t].a \in Agents
    /\ thr[t].pc \in Handling => Known(thr[t].a)
    /\ \A a \in thr[t].todo \cup thr[t].ids: Known(a)
    /\ thr[t].pc = "mark" => thr[t].snap.status \in Live /\ ~Up(thr[t].a)

LoopInv ==
    LET a == thr[Loop].a
        snap == thr[Loop].snap IN
    /\ thr[Loop].pc \in {"popen", "late"} => thr[Loop].op = "spawn" /\ meta[a].status # "cancelled"
    /\ thr[Loop].pc = "popen" => wrk[a].pc = "none"
    /\ thr[Loop].pc \in {"popen", "late"} /\ wrk[a].pc \in {"none", "boot"} => meta[a].status = "starting"
    /\ thr[Loop].pc = "late" => Known(a)
    /\ thr[Loop].pc \in {"wait1", "wait2", "write"} => thr[Loop].op = "cancel" /\ snap.status \notin Ended
    /\ thr[Loop].pc \in Handling /\ thr[Loop].op = "cancel" /\ snap.status \notin Ended =>
          meta[a].status # "cancelled"
    /\ thr[Loop].pc = "wait2" /\ snap.worker => ~Runs(a)
    /\ thr[Loop].pc = "write" /\ snap.worker /\ kids[a] => ~Runs(a)

\* The inductive invariant: while a worker is at work, meta.json holds no end but a cancel's; whoever holds a
\* verdict holds it with the providers of all attempts gone and the result in its place; and who is about to write
\* "failed" or "cancelled" knows of the worker what it needs (lines 388-394, 517-521, 760-777, 1083-1212).
AgentInv ==
    /\ TypeOK
    /\ \A a \in Agents: /\ AttemptInv(wrk[a], prov[a]) /\ CopiesLive(wrk[a], cap[a])
                        /\ CopyInv(wrk[a], cap[a], meta[a])
                        /\ ResultInv(wrk[a], prov[a], cap[a], meta[a], result[a])
    /\ \A t \in Threads: ThreadInv(t)
    /\ LoopInv
    /\ CancelledMeansStopped

\* The event loop and the workers keep running, and no error has to come; the time limits of an
\* attempt and of cancel's waits pass; a stream that has ended is read to its end.
WorkerFairness ==
    \A a \in Agents:
        /\ WF_vars(WorkerGoesOn(a)) /\ WF_vars(Reap(a))
        /\ \A k \in Attempts: WF_vars(EventWrite(a, k)) /\ SF_vars(CaptureEnd(a, k))

\* A client keeps asking.
Polled == \A a \in Agents: SF_vars(Call("get", a))

FairSpec == Spec /\ WF_vars(Handler) /\ WorkerFairness /\ Polled

\* Every worker ends: an attempt is bounded by its time limit and by SIGKILL.  The exception is the
\* wait of line 1097, which has no limit.
WorkerEnds == \A a \in Agents: Up(a) ~> (~Up(a) \/ wrk[a].pc = "drain")

\* An agent whose worker is on record reaches a terminal status, if somebody asks for it, even when
\* a restart has killed the worker.
AgentSettles ==
    \A a \in Agents: meta[a].worker ~> meta[a].status \in Ended \cup {"absent"}
=============================================================================
