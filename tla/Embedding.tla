----------------------------- MODULE Embedding ------------------------------
(***************************************************************************)
(* The embedding worker: a child process that turns texts into vectors and *)
(* ends when it is idle (embedding_worker.py), and the threads of memory   *)
(* and skill tools that talk to it over two pipes, one at a time behind    *)
(* WORKER_LOCK (embedding_manager.py).  A line on a pipe is the text it is *)
(* about: nothing else says which request an answer belongs to.            *)
(***************************************************************************)
EXTENDS Naturals, Sequences

CONSTANTS
    Threads, NoThread,
    Texts, NoText,   \* NoText also stands for an answer without vectors
    Large,           \* texts that do not fit into the pipe
    Procs, NoProc    \* bound: worker processes there are at once

ASSUME NoThreadAssumption == NoThread \notin Threads
ASSUME NoTextAssumption == NoText \notin Texts /\ Large \subseteq Texts
ASSUME NoProcAssumption == NoProc \notin Procs

VARIABLES
    lock,    \* the thread that holds WORKER_LOCK
    worker,  \* _WORKER
    proc,    \* proc[p]: a worker process with its two pipes
    thr      \* thr[t]: the call a thread runs

vars == <<lock, worker, proc, thr>>

-----------------------------------------------------------------------------
Unborn == [st |-> "dead", busy |-> NoText, in |-> <<>>, out |-> <<>>, sig |-> "none"]

\* op: "search" may start a worker and wait for one, "index" does neither, "status" only looks.
\* p: the local variable proc; then: where discarding the worker goes on.
Idle == [op |-> "none", pc |-> "idle", text |-> NoText, p |-> NoProc, tries |-> 0, res |-> NoText,
         then |-> "release"]

Init ==
    /\ lock = NoThread /\ worker = NoProc
    /\ proc = [p \in Procs |-> Unborn]
    /\ thr = [t \in Threads |-> Idle]

At(t, l)  == thr[t].pc = l
Alive(p)  == proc[p].st # "dead"
Mine(t)   == proc[thr[t].p]
Go(t, r)  == thr' = [thr EXCEPT ![t] = r]

\* The end of a call: with vectors, or without.
Done(t, x) == Go(t, [Idle EXCEPT !.op = thr[t].op, !.pc = "release", !.text = thr[t].text, !.res = x])

-----------------------------------------------------------------------------
(* worker_vectors and worker_status.                                       *)

Call(t, op, x) ==
    /\ At(t, "idle")
    /\ Go(t, [Idle EXCEPT !.op = op, !.pc = "lock", !.text = IF op = "status" THEN NoText ELSE x])
    /\ UNCHANGED <<lock, worker, proc>>

Acquire(t) ==
    /\ At(t, "lock") /\ lock = NoThread /\ lock' = t
    /\ Go(t, [thr[t] EXCEPT !.pc = IF thr[t].op = "status" THEN "release" ELSE "get"])
    /\ UNCHANGED <<worker, proc>>

\* An indexing call does not wait: its caller takes feature vectors.
LockTaken(t) ==
    /\ At(t, "lock") /\ thr[t].op = "index" /\ lock # NoThread
    /\ Go(t, Idle)
    /\ UNCHANGED <<lock, worker, proc>>

\* _live_worker_locked.
Reuse(t) ==
    /\ At(t, "get") /\ worker # NoProc /\ Alive(worker)
    /\ Go(t, [thr[t] EXCEPT !.pc = "write", !.p = worker])
    /\ UNCHANGED <<lock, worker, proc>>

Dead == worker # NoProc => ~Alive(worker)

\* _start_worker_locked, in place of a worker that is dead or of none.
Start(t, p) ==
    /\ At(t, "get") /\ Dead /\ thr[t].op = "search"
    /\ ~Alive(p) /\ worker \in {p, NoProc}
    /\ worker' = p
    /\ proc' = [proc EXCEPT ![p] = [Unborn EXCEPT !.st = "load"]]
    /\ Go(t, [thr[t] EXCEPT !.pc = "write", !.p = p])
    /\ UNCHANGED lock

\* An indexing call starts no worker; or Popen raises.
NoWorker(t) ==
    /\ At(t, "get") /\ Dead
    /\ worker' = NoProc
    /\ proc' = IF worker = NoProc THEN proc ELSE [proc EXCEPT ![worker] = Unborn]
    /\ Done(t, NoText)
    /\ UNCHANGED lock

\* A large request is written while the worker reads it, and has no time limit.
Blocked(t) ==
    At(t, "write") /\ thr[t].text \in Large /\ Mine(t).st \notin {"first", "idle", "dead"}

Write(t) ==
    /\ At(t, "write") /\ Alive(thr[t].p) /\ ~Blocked(t)
    /\ proc' = [proc EXCEPT ![thr[t].p].in = Append(@, thr[t].text)]
    /\ Go(t, [thr[t] EXCEPT !.pc = "select"])
    /\ UNCHANGED <<lock, worker>>

\* Mutant: the process is let go without a signal.
SignalForgotten(p) == [proc EXCEPT ![p] = IF Alive(p) THEN [Unborn EXCEPT !.st = "gone"] ELSE Unborn]

\* SIGTERM; the pipes are closed, and what the process does until it is gone nobody sees.
Signal(p) ==
    [proc EXCEPT ![p] = IF Alive(p) THEN [Unborn EXCEPT !.st = "gone", !.sig = "term"] ELSE Unborn]

\* discard_worker_locked(terminate=True), and where the call goes on once the process is dead or,
\* after two seconds, killed.
Discard(t, then) ==
    /\ worker' = NoProc
    /\ proc' = Signal(thr[t].p)
    /\ Go(t, [thr[t] EXCEPT !.pc = "term", !.then = then, !.tries = 1])

\* Any exception: a search tries once more with a new worker.
Retry(t) == Discard(t, IF thr[t].op = "search" /\ thr[t].tries = 0 THEN "get" ELSE "release")

WriteBreaks(t) == At(t, "write") /\ ~Alive(thr[t].p) /\ Retry(t) /\ UNCHANGED lock

\* Mutant: the worker is kept, and its answer is still to come.
TimeoutKeeps(t) ==
    /\ At(t, "select") /\ Mine(t).out = <<>> /\ Alive(thr[t].p)
    /\ Done(t, NoText)
    /\ UNCHANGED <<lock, worker, proc>>

\* Mutant: only an indexing call has a limit.
TimeoutOfIndex(t) ==
    /\ At(t, "select") /\ Mine(t).out = <<>> /\ Alive(thr[t].p) /\ thr[t].op = "index"
    /\ Discard(t, "release")
    /\ UNCHANGED lock

\* select returns with nothing to read, after 20 or 120 seconds.
Timeout(t) ==
    /\ At(t, "select") /\ Mine(t).out = <<>> /\ Alive(thr[t].p)
    /\ Discard(t, "release")
    /\ UNCHANGED lock

\* A line, whatever its "ok".
Read(t) ==
    /\ At(t, "select") /\ Mine(t).out # <<>>
    /\ proc' = [proc EXCEPT ![thr[t].p].out = Tail(@)]
    /\ Done(t, Head(Mine(t).out))
    /\ UNCHANGED <<lock, worker>>

\* The worker ended before it answered, or in the middle of a line.
ReadBreaks(t) ==
    /\ At(t, "select") /\ Mine(t).out = <<>> /\ ~Alive(thr[t].p)
    /\ Retry(t) /\ UNCHANGED lock

AfterTerm(t) == IF thr[t].then = "release" THEN Done(t, NoText) ELSE Go(t, [thr[t] EXCEPT !.pc = "get"])

Terminated(t) ==
    /\ At(t, "term") /\ ~Alive(thr[t].p)
    /\ AfterTerm(t)
    /\ UNCHANGED <<lock, worker, proc>>

KillAfterTwoSeconds(t) ==
    /\ At(t, "term") /\ Alive(thr[t].p)
    /\ proc' = [proc EXCEPT ![thr[t].p].sig = "kill"]
    /\ AfterTerm(t)
    /\ UNCHANGED <<lock, worker>>

Release(t) ==
    /\ At(t, "release") /\ lock' = NoThread
    /\ Go(t, Idle)
    /\ UNCHANGED <<worker, proc>>

-----------------------------------------------------------------------------
(* The worker process.                                                     *)

Turn(p, st, r) == proc[p].st = st /\ proc' = [proc EXCEPT ![p] = r] /\ UNCHANGED <<lock, worker, thr>>

Load(p) == Turn(p, "load", [proc[p] EXCEPT !.st = "first"])

\* The line it emits is read as the answer to the request that is waiting.
LoadFails(p) == Turn(p, "load", [proc[p] EXCEPT !.st = "leave", !.out = Append(@, NoText)])

\* The first request is waited for without limit, the later ones for IDLE_SECONDS.
Take(p) ==
    \E st \in {"first", "idle"}:
        /\ proc[p].in # <<>>
        /\ Turn(p, st, [proc[p] EXCEPT !.st = "embed", !.busy = Head(proc[p].in), !.in = Tail(@)])

\* process_line: one line for each request, with its vectors or without; with IDLE_SECONDS of 0 the
\* worker then ends.
Answer(p, x, st) ==
    /\ x \in {proc[p].busy, NoText}
    /\ Turn(p, "embed", [proc[p] EXCEPT !.st = st, !.busy = NoText, !.out = Append(@, x)])

\* select finds nothing; a request may still arrive before the process is gone.
IdleOut(p) == proc[p].in = <<>> /\ Turn(p, "idle", [proc[p] EXCEPT !.st = "leave"])

\* Killed by a signal, by the kernel short of memory, or by a library; a line it has written can
\* still be read.
Die(p) ==
    /\ Alive(p)
    /\ proc' = [proc EXCEPT ![p] = [Unborn EXCEPT !.out = proc[p].out]]
    /\ UNCHANGED <<lock, worker, thr>>

\* It has said that it will, or was killed.
Exit(p) == (proc[p].st = "leave" \/ proc[p].sig = "kill") /\ Die(p)

-----------------------------------------------------------------------------
Step(t) ==
    \/ LockTaken(t) \/ Reuse(t) \/ (\E p \in Procs: Start(t, p)) \/ NoWorker(t)
    \/ Write(t) \/ WriteBreaks(t) \/ Timeout(t) \/ Read(t) \/ ReadBreaks(t)
    \/ Terminated(t) \/ KillAfterTwoSeconds(t) \/ Release(t)

ProcStep(p) ==
    \/ Load(p) \/ LoadFails(p) \/ Take(p) \/ IdleOut(p) \/ Die(p)
    \/ \E x \in Texts \cup {NoText}, st \in {"idle", "leave"}: Answer(p, x, st)

Next ==
    \/ \E t \in Threads: \/ \E op \in {"search", "index", "status"}, x \in Texts: Call(t, op, x)
                         \/ Acquire(t) \/ Step(t)
    \/ \E p \in Procs: ProcStep(p)

Spec == Init /\ [][Next]_vars

\* Threads are scheduled, their time limits run out, a thread that asks for the lock again and again
\* gets it, and processes that have ended themselves or were killed are gone at some time.  The
\* worker need neither load its model nor answer.
Fairness ==
    /\ \A t \in Threads: WF_vars(Step(t)) /\ SF_vars(Acquire(t))
    /\ \A p \in Procs: WF_vars(Exit(p))

FairSpec == Spec /\ Fairness

-----------------------------------------------------------------------------
\* Types; and the lock is held exactly by the thread that is between its acquire and its release.
TypeOK ==
    /\ lock \in Threads \cup {NoThread} /\ worker \in Procs \cup {NoProc}
    /\ \A t \in Threads: lock = t <=> thr[t].pc \notin {"idle", "lock"}
    /\ proc \in [Procs -> [st: {"load", "first", "embed", "idle", "leave", "gone", "dead"},
                           busy: Texts \cup {NoText}, in: Seq(Texts), out: Seq(Texts \cup {NoText}),
                           sig: {"none", "term", "kill"}]]
    /\ thr \in [Threads -> [op: {"none", "search", "index", "status"},
                            pc: {"idle", "lock", "get", "write", "select", "term", "release"},
                            text: Texts \cup {NoText}, p: Procs \cup {NoProc}, tries: 0..1,
                            res: Texts \cup {NoText}, then: {"get", "release"}]]

\* Vectors are those of the caller's own texts, although nothing on the pipes says so: no answer is
\* left for a later request by a timeout, a retry, a worker that failed to load or one that ended
\* between two requests.  Whenever nobody talks to the worker there is no line to be read, and none
\* that it will still read.
AnswersBelong ==
    /\ \A t \in Threads: thr[t].res \in {NoText, thr[t].text}
    /\ lock = NoThread /\ worker # NoProc /\ Alive(worker) =>
          /\ proc[worker].out = <<>> /\ proc[worker].busy = NoText
          /\ proc[worker].in # <<>> => proc[worker].st = "leave"

\* There is one worker: a process with the model in memory that nobody will use again has been
\* signalled to end.
OneWorker == \A p \in Procs: Alive(p) => p = worker \/ proc[p].sig # "none"

\* What a call has in its hands, at each of its points.
CallInv(t) ==
    /\ thr[t].res \in {NoText, thr[t].text}
    /\ thr[t].pc # "release" => thr[t].res = NoText
    /\ thr[t].pc \in {"get", "write", "select", "term"} => thr[t].text \in Texts
    /\ thr[t].pc = "lock" /\ thr[t].op # "status" => thr[t].text \in Texts
    /\ thr[t].pc \in {"write", "select"} => thr[t].p = worker /\ worker # NoProc
    /\ thr[t].pc = "term" => worker = NoProc /\ thr[t].p # NoProc

\* Nothing is on the pipes of p, but requests that it will not read, and no answer will come.
Quiet(p) ==
    /\ proc[p].out = <<>> /\ proc[p].busy = NoText /\ proc[p].st \in {"first", "idle", "leave", "dead"}
    /\ proc[p].in # <<>> => proc[p].st = "leave"

\* No request of this call is written yet.  A worker that was started for it may have failed to load,
\* and said so, before it is asked anything.
Ready(p) ==
    \/ Quiet(p)
    \/ /\ proc[p].busy = NoText /\ proc[p].in = <<>>
       /\ \/ proc[p].st = "load" /\ proc[p].out = <<>>
          \/ proc[p].st \in {"leave", "dead"} /\ proc[p].out = <<NoText>>

\* Request x is on its way to p, is being worked on, has been answered, or never will be.
Asked(p, x) ==
    \/ proc[p].st = "embed" /\ proc[p].busy = x /\ proc[p].in = <<>> /\ proc[p].out = <<>>
    \/ /\ proc[p].busy = NoText
       /\ \/ proc[p].st \in {"load", "first", "idle"} /\ proc[p].in = <<x>> /\ proc[p].out = <<>>
          \/ proc[p].st = "idle" /\ proc[p].in = <<>> /\ proc[p].out \in {<<x>>, <<NoText>>}
          \/ /\ proc[p].st \in {"leave", "dead"} /\ proc[p].out \in {<<>>, <<x>>, <<NoText>>}
             /\ proc[p].in # <<>> => proc[p].st = "leave"

\* The pipes hold what the one thread that talks to the worker is waiting for, and nothing else.
PipeInv ==
    /\ \A t \in Threads: At(t, "write") => Ready(worker)
    /\ \A t \in Threads: At(t, "select") => Asked(worker, thr[t].text)
    /\ worker # NoProc /\ (\A t \in Threads: ~At(t, "write") /\ ~At(t, "select")) => Quiet(worker)

EmbeddingInv == TypeOK /\ OneWorker /\ (\A t \in Threads: CallInv(t)) /\ PipeInv

\* Every call comes back, on a worker that never answers, dies or cannot be started, unless requests
\* that do not fit the pipe wait for ever for a worker that does not read; and an indexing call even
\* then.
CallsReturn ==
    /\ []<>(\A t \in Threads: ~Blocked(t)) => \A t \in Threads: ~At(t, "idle") ~> At(t, "idle")
    /\ \A t \in Threads: At(t, "lock") /\ thr[t].op = "index" ~> ~At(t, "lock")
=============================================================================
