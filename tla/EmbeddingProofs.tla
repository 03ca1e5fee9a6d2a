--------------------------- MODULE EmbeddingProofs ---------------------------
(***************************************************************************)
(* Proofs about Embedding, for any threads, any texts, small or large, and *)
(* any number of worker processes, which may end at any moment.            *)
(***************************************************************************)
EXTENDS Embedding, SequenceTheorems, TLAPS

USE NoThreadAssumption, NoTextAssumption, NoProcAssumption

ProcState == [st: {"load", "first", "embed", "idle", "leave", "gone", "dead"},
              busy: Texts \cup {NoText}, in: Seq(Texts), out: Seq(Texts \cup {NoText}),
              sig: {"none", "term", "kill"}]
ThreadState == [op: {"none", "search", "index", "status"},
                pc: {"idle", "lock", "get", "write", "select", "term", "release"},
                text: Texts \cup {NoText}, p: Procs \cup {NoProc}, tries: 0..1,
                res: Texts \cup {NoText}, then: {"get", "release"}]

\* The types, in the form the proofs use.
Typed ==
    /\ lock \in Threads \cup {NoThread} /\ worker \in Procs \cup {NoProc}
    /\ \A t \in Threads: lock = t <=> thr[t].pc \notin {"idle", "lock"}
    /\ proc \in [Procs -> ProcState] /\ thr \in [Threads -> ThreadState]

LEMMA Types == (TypeOK <=> Typed) /\ (TypeOK' <=> Typed')
BY DEF TypeOK, Typed, ProcState, ThreadState

LEMMA UnbornIsProc == Unborn \in ProcState /\ \A s \in {"load", "gone", "dead"}: [Unborn EXCEPT !.st = s] \in ProcState
<1>1. <<>> \in Seq(Texts) /\ <<>> \in Seq(Texts \cup {NoText})
  OBVIOUS
<1> QED
  BY <1>1 DEF Unborn, ProcState

-----------------------------------------------------------------------------
(* The worker process: what it does leaves the pipes as their owner needs  *)
(* them.                                                                   *)

\* A turn of a process concerns nobody but its owner.
LEMMA TurnKeeps ==
    ASSUME EmbeddingInv, NEW p \in Procs, NEW r \in ProcState,
           proc' = [proc EXCEPT ![p] = r], UNCHANGED <<lock, worker, thr>>,
           r.st # "dead" => Alive(p) /\ r.sig = proc[p].sig,
           Quiet(p) => Quiet(p)', Ready(p) => Ready(p)',
           \A x \in Texts: Asked(p, x) => Asked(p, x)'
    PROVE  EmbeddingInv'
<1> USE DEF EmbeddingInv
<1>1. proc' \in [Procs -> ProcState] /\ proc'[p] = r /\ \A q \in Procs \ {p}: proc'[q] = proc[q]
  BY Types DEF Typed
<1>2. TypeOK'
  BY <1>1, Types DEF Typed
<1>3. OneWorker'
  BY <1>1 DEF OneWorker, Alive
<1>4. ASSUME NEW t \in Threads PROVE CallInv(t)'
  BY DEF CallInv
<1>5. ASSUME NEW q \in Procs
      PROVE  /\ Quiet(q) => Quiet(q)'
             /\ Ready(q) => Ready(q)'
             /\ \A x \in Texts: Asked(q, x) => Asked(q, x)'
  <2>1. CASE q = p
    BY <2>1
  <2>2. CASE q # p
    BY <1>1, <2>2 DEF Quiet, Ready, Asked
  <2> QED
    BY <2>1, <2>2
<1>6. PipeInv'
  <2>1. worker' = worker /\ thr' = thr /\ worker \in Procs \cup {NoProc}
    BY Types DEF Typed
  <2>2. \A t \in Threads: At(t, "write") \/ At(t, "select") => worker \in Procs /\ thr[t].text \in Texts
    BY <2>1 DEF CallInv, At
  <2> QED
    BY <1>5, <2>1, <2>2 DEF PipeInv, At
<1> QED
  BY <1>2, <1>3, <1>4, <1>6

LEMMA ProcStepKeeps ==
    ASSUME EmbeddingInv, NEW p \in Procs, ProcStep(p)
    PROVE  EmbeddingInv'
<1> DEFINE o == proc[p]
<1>1. /\ o \in ProcState /\ o.in \in Seq(Texts) /\ o.out \in Seq(Texts \cup {NoText})
      /\ o.busy \in Texts \cup {NoText} /\ proc \in [Procs -> ProcState]
  BY Types DEF EmbeddingInv, Typed, ProcState
<1>2. CASE Load(p)
  <2> DEFINE r == [o EXCEPT !.st = "first"]
  <2>1. proc' = [proc EXCEPT ![p] = r] /\ UNCHANGED <<lock, worker, thr>> /\ o.st = "load"
    BY <1>2 DEF Load, Turn
  <2>2. r \in ProcState /\ r.st # "dead" /\ Alive(p) /\ r.sig = o.sig
    BY <1>1, <2>1 DEF ProcState, Alive
  <2>3. proc'[p] = r
    BY <1>1, <2>1
  <2>4. (Quiet(p) => Quiet(p)') /\ (Ready(p) => Ready(p)') /\ \A x \in Texts: Asked(p, x) => Asked(p, x)'
    BY <1>1, <2>1, <2>3 DEF Quiet, Ready, Asked, ProcState
  <2> QED
    BY <2>1, <2>2, <2>4, TurnKeeps
<1>3. CASE LoadFails(p)
  <2> DEFINE r == [o EXCEPT !.st = "leave", !.out = Append(@, NoText)]
  <2>1. proc' = [proc EXCEPT ![p] = r] /\ UNCHANGED <<lock, worker, thr>> /\ o.st = "load"
    BY <1>3 DEF LoadFails, Turn
  <2>2. r \in ProcState /\ r.st # "dead" /\ Alive(p) /\ r.sig = o.sig
    <3>1. Append(o.out, NoText) \in Seq(Texts \cup {NoText})
      BY <1>1
    <3> QED
      BY <1>1, <2>1, <3>1 DEF ProcState, Alive
  <2>3. proc'[p] = r
    BY <1>1, <2>1
  <2>4. (Quiet(p) => Quiet(p)') /\ (Ready(p) => Ready(p)') /\ \A x \in Texts: Asked(p, x) => Asked(p, x)'
    <3>1. o.out = <<>> => r.out = <<NoText>>
      BY <1>1
    <3> QED
      BY <1>1, <2>1, <2>3, <3>1 DEF Quiet, Ready, Asked, ProcState
  <2> QED
    BY <2>1, <2>2, <2>4, TurnKeeps
<1>4. CASE Take(p)
  <2> DEFINE r == [o EXCEPT !.st = "embed", !.busy = Head(o.in), !.in = Tail(@)]
  <2>1. /\ proc' = [proc EXCEPT ![p] = r] /\ UNCHANGED <<lock, worker, thr>>
        /\ o.st \in {"first", "idle"} /\ o.in # <<>>
    BY <1>4 DEF Take, Turn
  <2>2. r \in ProcState /\ r.st # "dead" /\ Alive(p) /\ r.sig = o.sig
    <3>1. Head(o.in) \in Texts /\ Tail(o.in) \in Seq(Texts)
      BY <1>1, <2>1
    <3> QED
      BY <1>1, <2>1, <3>1 DEF ProcState, Alive
  <2>3. proc'[p] = r
    BY <1>1, <2>1
  <2>4. (Quiet(p) => Quiet(p)') /\ (Ready(p) => Ready(p)') /\ \A x \in Texts: Asked(p, x) => Asked(p, x)'
    <3>1. \A x \in Texts: o.in = <<x>> => r.busy = x /\ r.in = <<>>
      BY <1>1
    <3>2. r.st = "embed" /\ r.out = o.out
      BY <1>1 DEF ProcState
    <3> QED
      BY <1>1, <2>1, <2>3, <3>1, <3>2 DEF Quiet, Ready, Asked
  <2> QED
    BY <2>1, <2>2, <2>4, TurnKeeps
<1>5. CASE IdleOut(p)
  <2> DEFINE r == [o EXCEPT !.st = "leave"]
  <2>1. proc' = [proc EXCEPT ![p] = r] /\ UNCHANGED <<lock, worker, thr>> /\ o.st = "idle" /\ o.in = <<>>
    BY <1>5 DEF IdleOut, Turn
  <2>2. r \in ProcState /\ r.st # "dead" /\ Alive(p) /\ r.sig = o.sig
    BY <1>1, <2>1 DEF ProcState, Alive
  <2>3. proc'[p] = r
    BY <1>1, <2>1
  <2>4. (Quiet(p) => Quiet(p)') /\ (Ready(p) => Ready(p)') /\ \A x \in Texts: Asked(p, x) => Asked(p, x)'
    BY <1>1, <2>1, <2>3 DEF Quiet, Ready, Asked, ProcState
  <2> QED
    BY <2>1, <2>2, <2>4, TurnKeeps
<1>6. CASE Die(p)
  <2> DEFINE r == [Unborn EXCEPT !.out = o.out]
  <2>1. proc' = [proc EXCEPT ![p] = r] /\ UNCHANGED <<lock, worker, thr>>
    BY <1>6 DEF Die
  <2>2. r \in ProcState /\ r.st = "dead" /\ r.in = <<>> /\ r.busy = NoText /\ r.out = o.out
    BY <1>1, UnbornIsProc DEF ProcState, Unborn
  <2>3. proc'[p] = r
    BY <1>1, <2>1
  <2>4. (Quiet(p) => Quiet(p)') /\ (Ready(p) => Ready(p)') /\ \A x \in Texts: Asked(p, x) => Asked(p, x)'
    <3> HIDE DEF r
    <3> QED
      BY <1>1, <2>1, <2>2, <2>3 DEF Quiet, Ready, Asked
  <2> QED
    BY <2>1, <2>2, <2>4, TurnKeeps
<1>7. ASSUME NEW y \in Texts \cup {NoText}, NEW st \in {"idle", "leave"}, Answer(p, y, st)
      PROVE  EmbeddingInv'
  <2> DEFINE r == [o EXCEPT !.st = st, !.busy = NoText, !.out = Append(@, y)]
  <2>1. /\ proc' = [proc EXCEPT ![p] = r] /\ UNCHANGED <<lock, worker, thr>>
        /\ o.st = "embed" /\ y \in {o.busy, NoText}
    BY <1>7 DEF Answer, Turn
  <2>2. r \in ProcState /\ r.st # "dead" /\ Alive(p) /\ r.sig = o.sig
    <3>1. Append(o.out, y) \in Seq(Texts \cup {NoText})
      BY <1>1
    <3> QED
      BY <1>1, <2>1, <3>1 DEF ProcState, Alive
  <2>3. proc'[p] = r
    BY <1>1, <2>1
  <2>4. (Quiet(p) => Quiet(p)') /\ (Ready(p) => Ready(p)') /\ \A x \in Texts: Asked(p, x) => Asked(p, x)'
    <3>1. o.out = <<>> => r.out = <<y>>
      BY <1>1
    <3>2. r.st = st /\ r.busy = NoText /\ r.in = o.in
      BY <1>1 DEF ProcState
    <3> HIDE DEF r
    <3> QED
      BY <1>1, <2>1, <2>3, <3>1, <3>2 DEF Quiet, Ready, Asked
  <2> QED
    BY <2>1, <2>2, <2>4, TurnKeeps
<1> QED
  BY <1>2, <1>3, <1>4, <1>5, <1>6, <1>7 DEF ProcStep

-----------------------------------------------------------------------------
(* The thread that holds the lock.                                         *)

\* What the pipes must hold when thread t has the lock, or nobody has it.
PipesOf(t) ==
    /\ At(t, "write") => Ready(worker)
    /\ At(t, "select") => Asked(worker, thr[t].text)
    /\ worker # NoProc /\ ~At(t, "write") /\ ~At(t, "select") => Quiet(worker)

LEMMA HolderKeeps ==
    ASSUME EmbeddingInv, NEW t \in Threads, NEW r \in ThreadState,
           thr' = [thr EXCEPT ![t] = r],
           lock \in {t, NoThread}, lock' \in {t, NoThread}, lock' = t <=> r.pc \notin {"idle", "lock"},
           worker' \in Procs \cup {NoProc}, proc' \in [Procs -> ProcState],
           OneWorker', CallInv(t)', PipesOf(t)'
    PROVE  EmbeddingInv'
<1> USE DEF EmbeddingInv
<1>1. /\ thr \in [Threads -> ThreadState] /\ thr' \in [Threads -> ThreadState]
      /\ thr'[t] = r /\ \A u \in Threads \ {t}: thr'[u] = thr[u]
  BY Types DEF Typed
<1>2. \A u \in Threads \ {t}: thr[u].pc \in {"idle", "lock"}
  BY Types DEF Typed
<1>3. TypeOK'
  <2>1. \A u \in Threads: lock' = u <=> thr'[u].pc \notin {"idle", "lock"}
    BY <1>1, <1>2
  <2> QED
    BY <1>1, <2>1, Types DEF Typed
<1>4. ASSUME NEW u \in Threads PROVE CallInv(u)'
  BY <1>1, <1>2 DEF CallInv
<1>5. PipeInv'
  <2>1. \A u \in Threads \ {t}: ~At(u, "write")' /\ ~At(u, "select")'
    BY <1>1, <1>2 DEF At
  <2> QED
    BY <2>1 DEF PipeInv, PipesOf
<1> QED
  BY <1>3, <1>4, <1>5

\* A thread that has not the lock.
LEMMA OutsideKeeps ==
    ASSUME EmbeddingInv, NEW t \in Threads, NEW r \in ThreadState,
           thr' = [thr EXCEPT ![t] = r], UNCHANGED <<lock, worker, proc>>,
           thr[t].pc \in {"idle", "lock"}, r.pc \in {"idle", "lock"}, r.res = NoText,
           r.pc = "lock" => r.op = "status" \/ r.text \in Texts
    PROVE  EmbeddingInv'
<1> USE DEF EmbeddingInv
<1>1. /\ thr \in [Threads -> ThreadState] /\ thr' \in [Threads -> ThreadState]
      /\ thr'[t] = r /\ \A u \in Threads \ {t}: thr'[u] = thr[u]
  BY Types DEF Typed
<1>2. TypeOK'
  BY <1>1, Types DEF Typed
<1>3. OneWorker'
  BY DEF OneWorker, Alive
<1>4. ASSUME NEW u \in Threads PROVE CallInv(u)'
  BY <1>1 DEF CallInv
<1>5. PipeInv'
  BY <1>1 DEF PipeInv, At, Ready, Asked, Quiet
<1> QED
  BY <1>2, <1>3, <1>4, <1>5

\* Where the thread with the lock is, so are the pipes.
LEMMA HoldersPipes ==
    ASSUME EmbeddingInv, NEW t \in Threads, lock \in {t, NoThread}
    PROVE  PipesOf(t)
<1>1. \A u \in Threads \ {t}: thr[u].pc \in {"idle", "lock"}
  BY Types DEF EmbeddingInv, Typed
<1> QED
  BY <1>1 DEF EmbeddingInv, PipeInv, PipesOf, At

LEMMA Holds ==
    ASSUME EmbeddingInv, NEW t \in Threads
    PROVE  /\ thr \in [Threads -> ThreadState] /\ thr[t] \in ThreadState /\ CallInv(t) /\ OneWorker
           /\ proc \in [Procs -> ProcState] /\ worker \in Procs \cup {NoProc}
           /\ lock = t <=> thr[t].pc \notin {"idle", "lock"}
BY Types DEF EmbeddingInv, Typed

LEMMA IdleIsThread ==
    Idle \in ThreadState /\ Idle.pc = "idle" /\ Idle.res = NoText /\ Idle.then = "release"
BY DEF Idle, ThreadState

\* The record that Done leaves.
LEMMA DoneState ==
    ASSUME EmbeddingInv, NEW t \in Threads, NEW x \in Texts \cup {NoText}, x \in {NoText, thr[t].text},
           Done(t, x), lock = t, UNCHANGED lock,
           worker' \in Procs \cup {NoProc}, proc' \in [Procs -> ProcState], OneWorker',
           worker' # NoProc => Quiet(worker)'
    PROVE  EmbeddingInv'
<1> DEFINE r == [Idle EXCEPT !.op = thr[t].op, !.pc = "release", !.text = thr[t].text, !.res = x]
<1>1. thr' = [thr EXCEPT ![t] = r]
  BY DEF Done, Go
<1>2. r \in ThreadState /\ r.pc = "release" /\ r.res = x /\ r.text = thr[t].text
  <2>1. thr[t].op \in {"none", "search", "index", "status"} /\ thr[t].text \in Texts \cup {NoText}
    BY Holds DEF ThreadState
  <2> QED
    BY <2>1, IdleIsThread DEF ThreadState
<1> HIDE DEF r
<1>3. thr'[t] = r
  BY <1>1, Holds
<1>4. CallInv(t)'
  BY <1>2, <1>3 DEF CallInv
<1>5. PipesOf(t)'
  BY <1>2, <1>3 DEF PipesOf, At
<1> QED
  BY <1>1, <1>2, <1>4, <1>5, HolderKeeps, NoThreadAssumption

LEMMA CallKeeps ==
    ASSUME EmbeddingInv, NEW t \in Threads, NEW op \in {"search", "index", "status"}, NEW x \in Texts,
           Call(t, op, x)
    PROVE  EmbeddingInv'
<1> DEFINE y == IF op = "status" THEN NoText ELSE x
           r == [Idle EXCEPT !.op = op, !.pc = "lock", !.text = y]
<1>1. y \in Texts \cup {NoText}
  OBVIOUS
<1>2. thr' = [thr EXCEPT ![t] = r] /\ UNCHANGED <<lock, worker, proc>> /\ thr[t].pc = "idle"
  BY DEF Call, Go, At
<1> HIDE DEF y
<1>3. r \in ThreadState /\ r.pc = "lock" /\ r.res = NoText
  BY <1>1, IdleIsThread DEF ThreadState
<1> HIDE DEF r
<1>4. r.op = "status" \/ r.text \in Texts
  BY IdleIsThread DEF r, y, ThreadState
<1> QED
  BY <1>2, <1>3, <1>4, OutsideKeeps

LEMMA LockTakenKeeps ==
    ASSUME EmbeddingInv, NEW t \in Threads, LockTaken(t)
    PROVE  EmbeddingInv'
<1>1. thr' = [thr EXCEPT ![t] = Idle] /\ UNCHANGED <<lock, worker, proc>> /\ thr[t].pc = "lock"
  BY DEF LockTaken, Go, At
<1> QED
  BY <1>1, IdleIsThread, OutsideKeeps

LEMMA AcquireKeeps ==
    ASSUME EmbeddingInv, NEW t \in Threads, Acquire(t)
    PROVE  EmbeddingInv'
<1> DEFINE l == IF thr[t].op = "status" THEN "release" ELSE "get"
           r == [thr[t] EXCEPT !.pc = l]
<1>1. /\ thr' = [thr EXCEPT ![t] = r] /\ UNCHANGED <<worker, proc>> /\ thr[t].pc = "lock"
      /\ lock = NoThread /\ lock' = t
  BY DEF Acquire, Go, At
<1>2. l \in {"release", "get"}
  OBVIOUS
<1>3. thr[t].op # "status" => thr[t].text \in Texts
  BY <1>1, Holds DEF CallInv
<1> HIDE DEF l
<1>4. r \in ThreadState /\ r.pc = l /\ r.res = thr[t].res /\ r.text = thr[t].text
  BY <1>2, Holds DEF ThreadState
<1> HIDE DEF r
<1>5. thr'[t] = r
  BY <1>1, Holds
<1>6. CallInv(t)'
  BY <1>1, <1>2, <1>3, <1>4, <1>5, Holds DEF CallInv, l
<1>7. PipesOf(t)'
  BY <1>1, <1>2, <1>4, <1>5, HoldersPipes DEF PipesOf, At, Quiet
<1>8. OneWorker'
  BY <1>1, Holds DEF OneWorker, Alive
<1> QED
  BY <1>1, <1>2, <1>4, <1>6, <1>7, <1>8, Holds, HolderKeeps

LEMMA ReuseKeeps ==
    ASSUME EmbeddingInv, NEW t \in Threads, Reuse(t)
    PROVE  EmbeddingInv'
<1> DEFINE r == [thr[t] EXCEPT !.pc = "write", !.p = worker]
<1>1. /\ thr' = [thr EXCEPT ![t] = r] /\ UNCHANGED <<lock, worker, proc>> /\ thr[t].pc = "get"
      /\ worker # NoProc
  BY DEF Reuse, Go, At
<1>2. r \in ThreadState /\ r.pc = "write" /\ r.p = worker /\ r.res = thr[t].res /\ r.text = thr[t].text
  BY Holds DEF ThreadState
<1> HIDE DEF r
<1>3. thr'[t] = r
  BY <1>1, Holds
<1>4. CallInv(t)'
  BY <1>1, <1>2, <1>3, Holds DEF CallInv
<1>5. lock = t
  BY <1>1, Holds
<1>6. PipesOf(t)'
  BY <1>1, <1>2, <1>3, <1>5, HoldersPipes DEF PipesOf, At, Ready, Quiet
<1>7. OneWorker'
  BY <1>1, Holds DEF OneWorker, Alive
<1> QED
  BY <1>1, <1>2, <1>4, <1>5, <1>6, <1>7, Holds, HolderKeeps

LEMMA StartKeeps ==
    ASSUME EmbeddingInv, NEW t \in Threads, NEW p \in Procs, Start(t, p)
    PROVE  EmbeddingInv'
<1> DEFINE r == [thr[t] EXCEPT !.pc = "write", !.p = p]
           n == [Unborn EXCEPT !.st = "load"]
<1>1. /\ thr' = [thr EXCEPT ![t] = r] /\ lock' = lock /\ thr[t].pc = "get"
      /\ worker' = p /\ worker \in {p, NoProc} /\ proc' = [proc EXCEPT ![p] = n]
  BY DEF Start, Go, At
<1>2. r \in ThreadState /\ r.pc = "write" /\ r.p = p /\ r.res = thr[t].res /\ r.text = thr[t].text
  BY Holds DEF ThreadState
<1>3. n \in ProcState /\ n.st = "load" /\ n.out = <<>> /\ n.in = <<>> /\ n.busy = NoText
  BY UnbornIsProc DEF Unborn, ProcState
<1> HIDE DEF r, n
<1>4. thr'[t] = r /\ proc'[p] = n /\ \A q \in Procs \ {p}: proc'[q] = proc[q]
  BY <1>1, Holds
<1>5. CallInv(t)'
  BY <1>1, <1>2, <1>4, Holds DEF CallInv
<1>6. lock = t
  BY <1>1, Holds
<1>7. PipesOf(t)'
  BY <1>1, <1>2, <1>3, <1>4 DEF PipesOf, At, Ready
<1>8. OneWorker'
  BY <1>1, <1>4, Holds DEF OneWorker, Alive
<1> QED
  BY <1>1, <1>2, <1>3, <1>5, <1>6, <1>7, <1>8, Holds, HolderKeeps

LEMMA NoWorkerKeeps ==
    ASSUME EmbeddingInv, NEW t \in Threads, NoWorker(t)
    PROVE  EmbeddingInv'
<1>1. /\ Done(t, NoText) /\ lock' = lock /\ thr[t].pc = "get" /\ worker' = NoProc /\ Dead
      /\ proc' = IF worker = NoProc THEN proc ELSE [proc EXCEPT ![worker] = Unborn]
  BY DEF NoWorker, At
<1>2. proc' \in [Procs -> ProcState]
  BY <1>1, Holds, UnbornIsProc
<1>3. OneWorker'
  <2>1. \A p \in Procs: proc'[p] = proc[p] \/ proc'[p].st = "dead"
    BY <1>1, Holds DEF Unborn
  <2> QED
    BY <1>1, <2>1, Holds DEF OneWorker, Alive, Dead
<1> QED
  BY <1>1, <1>2, <1>3, Holds, DoneState

LEMMA WriteKeeps ==
    ASSUME EmbeddingInv, NEW t \in Threads, Write(t)
    PROVE  EmbeddingInv'
<1>1. UNCHANGED <<lock, worker>> /\ thr[t].pc = "write" /\ Alive(thr[t].p)
  BY DEF Write, At
<1>2. PICK p \in Procs, x \in Texts: thr[t].text = x /\ thr[t].p = p /\ worker = p /\ lock = t
  BY <1>1, Holds DEF CallInv
<1> DEFINE r == [thr[t] EXCEPT !.pc = "select"]
           n == [proc[p] EXCEPT !.in = Append(@, x)]
<1>3. proc' = [proc EXCEPT ![p] = n] /\ thr' = [thr EXCEPT ![t] = r]
  BY <1>2 DEF Write, Go
<1>4. r \in ThreadState /\ r.pc = "select" /\ r.p = p /\ r.res = thr[t].res /\ r.text = x
  BY <1>2, Holds DEF ThreadState
<1>5. proc[p] \in ProcState /\ proc[p].in \in Seq(Texts)
  BY <1>2, Holds DEF ProcState
<1>6. /\ n \in ProcState /\ n.st = proc[p].st /\ n.out = proc[p].out /\ n.busy = proc[p].busy
      /\ n.sig = proc[p].sig /\ (proc[p].in = <<>> => n.in = <<x>>)
  <2>1. Append(proc[p].in, x) \in Seq(Texts)
    BY <1>5
  <2>2. proc[p].in = <<>> => Append(proc[p].in, x) = <<x>>
    BY <1>5
  <2> QED
    BY <1>5, <2>1, <2>2 DEF ProcState
<1> HIDE DEF r, n
<1>7. thr'[t] = r /\ proc'[p] = n /\ \A q \in Procs \ {p}: proc'[q] = proc[q]
  BY <1>1, <1>2, <1>3, Holds
<1>8. CallInv(t)'
  BY <1>1, <1>2, <1>4, <1>7, Holds DEF CallInv
<1>9. PipesOf(t)'
  <2>1. Ready(p)
    BY <1>1, <1>2, HoldersPipes DEF PipesOf, At
  <2>2. Asked(p, x)'
    BY <1>1, <1>2, <1>6, <1>7, <2>1 DEF Ready, Quiet, Asked, Alive
  <2> QED
    BY <1>1, <1>2, <1>4, <1>7, <2>2 DEF PipesOf, At
<1>10. OneWorker'
  BY <1>1, <1>2, <1>6, <1>7, Holds DEF OneWorker, Alive
<1> QED
  BY <1>1, <1>2, <1>3, <1>4, <1>6, <1>8, <1>9, <1>10, Holds, HolderKeeps

\* _discard_worker_locked of the worker this call talks to.
LEMMA DiscardKeeps ==
    ASSUME EmbeddingInv, NEW t \in Threads, NEW l \in {"get", "release"}, Discard(t, l), lock' = lock,
           thr[t].pc \in {"write", "select"}
    PROVE  EmbeddingInv'
<1>1. PICK p \in Procs: thr[t].p = p /\ worker = p /\ lock = t
  BY Holds DEF CallInv
<1> DEFINE r == [thr[t] EXCEPT !.pc = "term", !.then = l, !.tries = 1]
           n == IF Alive(p) THEN [Unborn EXCEPT !.st = "gone", !.sig = "term"] ELSE Unborn
<1>2. worker' = NoProc /\ proc' = [proc EXCEPT ![p] = n] /\ thr' = [thr EXCEPT ![t] = r]
  BY <1>1 DEF Discard, Signal, Go
<1>3. r \in ThreadState /\ r.pc = "term" /\ r.p = p /\ r.res = thr[t].res /\ r.text = thr[t].text
  <2>1. 1 \in 0..1 /\ thr[t] \in ThreadState
    BY Holds
  <2>2. r \in ThreadState
    BY <2>1 DEF ThreadState
  <2> QED
    BY <1>1, <2>1 DEF ThreadState
<1>4. n \in ProcState /\ (n.st # "dead" => n.sig # "none")
  <2>1. Unborn \in ProcState /\ Unborn.st = "dead"
    BY UnbornIsProc DEF Unborn
  <2> QED
    BY <2>1 DEF ProcState
<1> HIDE DEF r, n
<1>5. thr'[t] = r /\ proc'[p] = n /\ \A q \in Procs \ {p}: proc'[q] = proc[q]
  BY <1>2, Holds
<1>6. CallInv(t)'
  BY <1>1, <1>2, <1>3, <1>5, Holds DEF CallInv
<1>7. PipesOf(t)'
  BY <1>2, <1>3, <1>5 DEF PipesOf, At
<1>8. OneWorker'
  BY <1>1, <1>2, <1>4, <1>5, Holds DEF OneWorker, Alive
<1> QED
  BY <1>1, <1>2, <1>3, <1>4, <1>6, <1>7, <1>8, Holds, HolderKeeps

LEMMA RetryKeeps ==
    ASSUME EmbeddingInv, NEW t \in Threads, WriteBreaks(t) \/ Timeout(t) \/ ReadBreaks(t)
    PROVE  EmbeddingInv'
<1>1. lock' = lock /\ thr[t].pc \in {"write", "select"}
  BY DEF WriteBreaks, Timeout, ReadBreaks, At
<1>2. PICK l \in {"get", "release"}: Discard(t, l)
  BY DEF WriteBreaks, Timeout, ReadBreaks, Retry
<1> QED
  BY <1>1, <1>2, DiscardKeeps

LEMMA ReadKeeps ==
    ASSUME EmbeddingInv, NEW t \in Threads, Read(t)
    PROVE  EmbeddingInv'
<1>1. UNCHANGED <<lock, worker>> /\ thr[t].pc = "select"
  BY DEF Read, At
<1>2. PICK p \in Procs, x \in Texts: thr[t].text = x /\ thr[t].p = p /\ worker = p /\ lock = t
  BY <1>1, Holds DEF CallInv
<1> DEFINE n == [proc[p] EXCEPT !.out = Tail(@)]
           a == Head(proc[p].out)
<1>3. proc[p].out # <<>> /\ proc' = [proc EXCEPT ![p] = n] /\ Done(t, a)
  BY <1>2 DEF Read, Mine
<1>4. Asked(p, x)
  BY <1>1, <1>2, HoldersPipes DEF PipesOf, At
<1>5. proc[p].out \in {<<x>>, <<NoText>>} /\ proc[p].busy = NoText
      /\ proc[p].st \in {"idle", "leave", "dead"} /\ (proc[p].in # <<>> => proc[p].st = "leave")
  BY <1>3, <1>4 DEF Asked
<1>6. a \in {x, NoText} /\ Tail(proc[p].out) = <<>>
  <2>1. \A y: Head(<<y>>) = y /\ Tail(<<y>>) = <<>>
    OBVIOUS
  <2>2. CASE proc[p].out = <<x>>
    BY <2>1, <2>2
  <2>3. CASE proc[p].out = <<NoText>>
    BY <2>1, <2>3
  <2> QED
    BY <1>5, <2>2, <2>3
<1>7. proc[p] \in ProcState
  BY Holds
<1>8. /\ n \in ProcState /\ n.st = proc[p].st /\ n.out = <<>> /\ n.in = proc[p].in /\ n.busy = NoText
      /\ n.sig = proc[p].sig
  BY <1>5, <1>6, <1>7 DEF ProcState
<1> HIDE DEF n, a
<1>9. proc'[p] = n /\ \A q \in Procs \ {p}: proc'[q] = proc[q]
  BY <1>3, Holds
<1>10. OneWorker'
  BY <1>1, <1>2, <1>8, <1>9, Holds DEF OneWorker, Alive
<1>11. Quiet(p)'
  BY <1>5, <1>8, <1>9 DEF Quiet
<1> QED
  BY <1>1, <1>2, <1>3, <1>6, <1>8, <1>10, <1>11, Holds, DoneState

LEMMA TerminatedKeeps ==
    ASSUME EmbeddingInv, NEW t \in Threads, Terminated(t) \/ KillAfterTwoSeconds(t)
    PROVE  EmbeddingInv'
<1>1. UNCHANGED <<lock, worker>> /\ thr[t].pc = "term" /\ AfterTerm(t)
  BY DEF Terminated, KillAfterTwoSeconds, At
<1>2. PICK p \in Procs: thr[t].p = p /\ worker = NoProc /\ lock = t
  <2>1. thr[t].p # NoProc /\ worker = NoProc /\ lock = t
    BY <1>1, Holds DEF CallInv
  <2>2. thr[t].p \in Procs \cup {NoProc}
    BY Holds DEF ThreadState
  <2> QED
    BY <2>1, <2>2
<1>3. /\ proc' \in [Procs -> ProcState]
      /\ \A q \in Procs: proc'[q].st = proc[q].st /\ proc'[q].sig \in {proc[q].sig, "kill"}
  <2>1. CASE proc' = proc
    BY <2>1, Holds
  <2>2. CASE proc' = [proc EXCEPT ![p].sig = "kill"]
    <3>1. [proc[p] EXCEPT !.sig = "kill"] \in ProcState
      BY Holds DEF ProcState
    <3> QED
      BY <2>2, <3>1, Holds DEF ProcState
  <2> QED
    BY <1>2, <2>1, <2>2 DEF Terminated, KillAfterTwoSeconds
<1>4. OneWorker'
  BY <1>1, <1>3, Holds DEF OneWorker, Alive
<1>5. CASE thr[t].then = "release"
  <2>1. Done(t, NoText)
    BY <1>1, <1>5 DEF AfterTerm
  <2> QED
    BY <1>1, <1>2, <1>3, <1>4, <2>1, Holds, DoneState
<1>6. CASE thr[t].then # "release"
  <2> DEFINE r == [thr[t] EXCEPT !.pc = "get"]
  <2>1. thr' = [thr EXCEPT ![t] = r]
    BY <1>1, <1>6 DEF AfterTerm, Go
  <2>2. r \in ThreadState /\ r.pc = "get" /\ r.res = thr[t].res /\ r.text = thr[t].text
    BY Holds DEF ThreadState
  <2> HIDE DEF r
  <2>3. thr'[t] = r
    BY <2>1, Holds
  <2>4. CallInv(t)' /\ PipesOf(t)'
    BY <1>1, <1>2, <2>2, <2>3, Holds DEF CallInv, PipesOf, At
  <2> QED
    BY <1>1, <1>2, <1>3, <1>4, <2>1, <2>2, <2>4, Holds, HolderKeeps
<1> QED
  BY <1>5, <1>6

LEMMA ReleaseKeeps ==
    ASSUME EmbeddingInv, NEW t \in Threads, Release(t)
    PROVE  EmbeddingInv'
<1>1. thr' = [thr EXCEPT ![t] = Idle] /\ UNCHANGED <<worker, proc>> /\ thr[t].pc = "release" /\ lock' = NoThread
  BY DEF Release, Go, At
<1>2. lock = t
  BY <1>1, Holds
<1>3. thr'[t] = Idle
  BY <1>1, Holds
<1>4. CallInv(t)'
  BY <1>3, IdleIsThread DEF CallInv
<1>5. PipesOf(t)'
  BY <1>1, <1>2, <1>3, IdleIsThread, HoldersPipes DEF PipesOf, At, Quiet
<1>6. OneWorker'
  BY <1>1, Holds DEF OneWorker, Alive
<1> QED
  BY <1>1, <1>2, <1>4, <1>5, <1>6, Holds, HolderKeeps, IdleIsThread

-----------------------------------------------------------------------------
LEMMA InitHolds == Init => EmbeddingInv
<1> SUFFICES ASSUME Init PROVE EmbeddingInv
  OBVIOUS
<1>1. /\ \A t \in Threads: thr[t] = Idle
      /\ \A p \in Procs: proc[p] = Unborn
      /\ lock = NoThread /\ worker = NoProc
  BY DEF Init
<1>2. TypeOK
  <2>1. thr \in [Threads -> ThreadState] /\ proc \in [Procs -> ProcState]
    BY IdleIsThread, UnbornIsProc DEF Init
  <2> QED
    BY <1>1, <2>1, IdleIsThread, Types DEF Typed
<1>3. OneWorker
  BY <1>1 DEF OneWorker, Alive, Unborn
<1>4. \A t \in Threads: CallInv(t)
  BY <1>1, IdleIsThread DEF CallInv
<1>5. PipeInv
  BY <1>1, IdleIsThread DEF PipeInv, At
<1> QED
  BY <1>2, <1>3, <1>4, <1>5 DEF EmbeddingInv

LEMMA StepKeeps == EmbeddingInv /\ [Next]_vars => EmbeddingInv'
<1> SUFFICES ASSUME EmbeddingInv, [Next]_vars PROVE EmbeddingInv'
  OBVIOUS
<1>1. ASSUME NEW t \in Threads, NEW op \in {"search", "index", "status"}, NEW x \in Texts, Call(t, op, x)
      PROVE  EmbeddingInv'
  BY <1>1, CallKeeps
<1>2. ASSUME NEW t \in Threads, Acquire(t) PROVE EmbeddingInv'
  BY <1>2, AcquireKeeps
<1>3. ASSUME NEW t \in Threads, Step(t) PROVE EmbeddingInv'
  BY <1>3, LockTakenKeeps, ReuseKeeps, StartKeeps, NoWorkerKeeps, WriteKeeps, RetryKeeps, ReadKeeps,
     TerminatedKeeps, ReleaseKeeps DEF Step
<1>4. ASSUME NEW p \in Procs, ProcStep(p) PROVE EmbeddingInv'
  BY <1>4, ProcStepKeeps
<1>5. CASE UNCHANGED vars
  <2>1. UNCHANGED <<lock, worker, proc, thr>>
    BY <1>5 DEF vars
  <2>2. TypeOK' /\ OneWorker'
    BY <2>1, Types DEF EmbeddingInv, Typed, OneWorker, Alive
  <2>3. \A t \in Threads: CallInv(t)'
    BY <2>1 DEF EmbeddingInv, CallInv
  <2>4. PipeInv'
    BY <2>1 DEF EmbeddingInv, PipeInv, At, Ready, Asked, Quiet
  <2> QED
    BY <2>2, <2>3, <2>4 DEF EmbeddingInv
<1> QED
  BY <1>1, <1>2, <1>3, <1>4, <1>5 DEF Next

\* There is one worker, and the pipes hold what the thread with the lock waits for, and nothing else.
THEOREM Invariance == Spec => []EmbeddingInv
BY InitHolds, StepKeeps, PTL DEF Spec

\* Vectors are those of the caller's own texts, and no answer is left for a later request.
THEOREM OwnAnswers == Spec => []AnswersBelong
<1>1. EmbeddingInv => AnswersBelong
  <2> SUFFICES ASSUME EmbeddingInv PROVE AnswersBelong
    OBVIOUS
  <2>1. \A t \in Threads: thr[t].res \in {NoText, thr[t].text}
    BY DEF EmbeddingInv, CallInv
  <2>2. ASSUME lock = NoThread, worker # NoProc PROVE Quiet(worker)
    <3>1. \A t \in Threads: thr[t].pc \in {"idle", "lock"}
      BY <2>2, Types DEF EmbeddingInv, Typed
    <3> QED
      BY <2>2, <3>1 DEF EmbeddingInv, PipeInv, At
  <2> QED
    BY <2>1, <2>2 DEF AnswersBelong, Quiet
<1> QED
  BY <1>1, Invariance, PTL
=============================================================================
