---------------------------- MODULE AgentProofs ----------------------------
(***************************************************************************)
(* Proofs about Agent, for any agents and waiting threads, any number of   *)
(* attempts and restarts, and every setting of the three switches, and     *)
(* about AgentTeams, for any teams besides.                                *)
(***************************************************************************)
EXTENDS AgentTeams, FiniteSetTheorems, TLAPS

USE LoopAssumption, NoAgentAssumption, AttemptsAssumption, RestartsAssumption, LimitsAssumption

WorkerState == [pc: {"none", "boot", "hello", "top", "retry", "popen", "look", "drain", "record",
                     "poll", "stop", "join", "after", "except", "finish", "result", "error", "final",
                     "exit", "done", "dead"},
                att: 0..MaxAttempts, snap: Meta, stop: {"none", "cancelled", "timeout", "stalled"},
                sig: {"none", "soft", "kill"}]
Life == {"none", "up", "term", "ok", "bad"}
ProviderState == [Attempts -> Life]
CaptureState == [Attempts -> [pc: {"off", "line", "write"}, snap: Meta]]
ResultState == {"absent", "stray", "empty", "error", "final"}
ThreadState == [op: {"none", "spawn", "get", "cancel", "despawn", "retry", "message", "wait"},
                pc: {"idle", "popen", "late", "check", "mark", "act", "wait1", "wait2", "write", "read",
                     "decide"},
                a: Agents \cup {NoAgent}, snap: Meta, ids: SUBSET Agents, todo: SUBSET Agents,
                seen: SUBSET Agents]

\* The types, in the form the proofs use.
Typed ==
    /\ meta \in [Agents -> Meta] /\ result \in [Agents -> ResultState]
    /\ wrk \in [Agents -> WorkerState] /\ prov \in [Agents -> ProviderState]
    /\ cap \in [Agents -> CaptureState] /\ kids \in [Agents -> BOOLEAN]
    /\ thr \in [Threads -> ThreadState] /\ restarts \in 0..MaxRestarts

LEMMA Types == (TypeOK <=> Typed) /\ (TypeOK' <=> Typed')
BY DEF TypeOK, Typed, WorkerState, Life, ProviderState, CaptureState, ResultState, ThreadState

LEMMA Constants ==
    /\ Absent \in Meta /\ Idle \in ThreadState /\ NoWorker \in WorkerState
    /\ [k \in Attempts |-> NoCapture] \in CaptureState
    /\ [k \in Attempts |-> "none"] \in ProviderState
<1>1. Absent \in Meta
  BY DEF Absent, Meta
<1>2. Idle \in ThreadState
  BY <1>1 DEF Idle, ThreadState
<1>3. NoWorker \in WorkerState
  BY <1>1 DEF NoWorker, WorkerState
<1>4. NoCapture \in [pc: {"off", "line", "write"}, snap: Meta]
  BY <1>1 DEF NoCapture
<1> QED
  BY <1>1, <1>2, <1>3, <1>4 DEF CaptureState, ProviderState, Life

-----------------------------------------------------------------------------
(* A step of the agent's own processes: its worker, capture threads and    *)
(* providers.                                                              *)

UpAs(w)   == w.pc \notin {"none", "done", "dead"}
RunsAs(w) == UpAs(w) /\ w.sig # "kill"

\* v is what became of worker w without anybody starting it.
Fades(w, v) ==
    /\ v.pc \in {"none", "boot"} => v.pc = w.pc
    /\ w.pc = "none" => v.pc = "none"
    /\ UpAs(v) => UpAs(w)
    /\ RunsAs(v) => RunsAs(w)

AgentOK(w, p, c, m, r) ==
    AttemptInv(w, p) /\ CopiesLive(w, c) /\ CopyInv(w, c, m) /\ ResultInv(w, p, c, m, r)

\* The capture threads hold the copies they held.
SameCopies(c, d) ==
    \A k \in Attempts: c[k].snap = d[k].snap /\ (c[k].pc = "write" => d[k].pc = "write")

Turned(a, w, p, c, m, r) ==
    /\ wrk' = [wrk EXCEPT ![a] = w] /\ prov' = [prov EXCEPT ![a] = p] /\ cap' = [cap EXCEPT ![a] = c]
    /\ meta' = [meta EXCEPT ![a] = m] /\ result' = [result EXCEPT ![a] = r]
    /\ UNCHANGED <<kids, thr, restarts>>

LEMMA AgentFacts ==
    ASSUME AgentInv, NEW a \in Agents
    PROVE  /\ meta[a] \in Meta /\ wrk[a] \in WorkerState /\ prov[a] \in ProviderState
           /\ cap[a] \in CaptureState /\ result[a] \in ResultState
           /\ AttemptInv(wrk[a], prov[a]) /\ CopiesLive(wrk[a], cap[a]) /\ CopyInv(wrk[a], cap[a], meta[a])
           /\ ResultInv(wrk[a], prov[a], cap[a], meta[a], result[a])
           /\ AgentOK(wrk[a], prov[a], cap[a], meta[a], result[a])
           /\ SameCopies(cap[a], cap[a])
<1>1. Typed
  BY Types DEF AgentInv
<1> QED
  BY <1>1 DEF Typed, AgentInv, AgentOK, SameCopies

\* A turn leaves the other agents and the server alone.
LEMMA TurnKeeps ==
    ASSUME AgentInv, NEW a \in Agents, NEW w \in WorkerState, NEW p \in ProviderState,
           NEW c \in CaptureState, NEW m \in Meta, NEW r \in ResultState,
           Turned(a, w, p, c, m, r), AgentOK(w, p, c, m, r),
           m.status # "cancelled" \/ m = meta[a], Fades(wrk[a], w),
           w.pc \in {"none", "boot"} => m = meta[a]
    PROVE  AgentInv'
<1>1. Typed
  BY Types DEF AgentInv
<1>2. /\ wrk'[a] = w /\ prov'[a] = p /\ cap'[a] = c /\ meta'[a] = m /\ result'[a] = r
      /\ kids' = kids /\ thr' = thr /\ restarts' = restarts
  BY <1>1 DEF Turned, Typed
<1>3. ASSUME NEW b \in Agents, b # a
      PROVE  /\ wrk'[b] = wrk[b] /\ prov'[b] = prov[b] /\ cap'[b] = cap[b] /\ meta'[b] = meta[b]
             /\ result'[b] = result[b]
  BY <1>1, <1>3 DEF Turned, Typed
<1>4. TypeOK'
  <2>1. Typed'
    BY <1>1, <1>2 DEF Turned, Typed
  <2> QED
    BY <2>1, Types
<1>5. \A b \in Agents: Fades(wrk[b], wrk'[b])
  BY <1>2, <1>3 DEF Fades
<1>6. \A b \in Agents: /\ meta'[b].status = "cancelled" => meta'[b] = meta[b]
                       /\ wrk'[b].pc \in {"none", "boot"} => meta'[b] = meta[b]
  BY <1>2, <1>3
<1>7. ASSUME NEW b \in Agents PROVE AgentOK(wrk[b], prov[b], cap[b], meta[b], result[b])'
  <2>1. CASE b = a
    BY <2>1, <1>2
  <2>2. CASE b # a
    BY <2>2, <1>3, AgentFacts DEF AgentOK
  <2> QED
    BY <2>1, <2>2
<1>8. /\ \A b \in Agents: Runs(b)' => Runs(b)
      /\ \A b \in Agents: Up(b)' => Up(b)
      /\ \A b \in Agents: Known(b)' <=> Known(b)
      /\ \A b \in Agents: wrk'[b].pc \in {"none", "boot"} => wrk[b].pc = wrk'[b].pc
  BY <1>5 DEF Fades, Runs, Up, Known, RunsAs, UpAs
<1>9. ASSUME NEW t \in Threads PROVE ThreadInv(t)'
  <2>1. ThreadInv(t) /\ thr[t].todo \cup thr[t].ids \subseteq Agents
    BY <1>1 DEF AgentInv, Typed, ThreadState
  <2>2. thr[t].pc \in Handling => thr[t].a \in Agents
    BY <2>1 DEF ThreadInv
  <2>3. "mark" \in Handling
    BY DEF Handling
  <2> QED
    BY <2>1, <2>2, <2>3, <1>2, <1>8 DEF ThreadInv
<1>10. LoopInv'
  <2>1. Loop \in Threads
    BY DEF Threads
  <2>2. thr[Loop].pc \in Handling \cup {"popen", "late"} => thr[Loop].a \in Agents
    BY <2>1 DEF AgentInv, ThreadInv
  <2>3. CASE thr[Loop].a \in Agents
    BY <2>3, <1>2, <1>6, <1>8 DEF LoopInv, AgentInv, Known
  <2>4. CASE thr[Loop].a \notin Agents
    BY <2>4, <2>2, <1>2 DEF LoopInv, Handling
  <2> QED
    BY <2>3, <2>4
<1>11. CancelledMeansStopped'
  BY <1>2, <1>6, <1>8 DEF AgentInv, CancelledMeansStopped
<1> QED
  BY <1>4, <1>7, <1>9, <1>10, <1>11 DEF AgentInv, AgentOK

-----------------------------------------------------------------------------
(* The forms that the worker's steps have.                                 *)

Going == {"boot", "hello", "top", "retry", "popen", "look", "drain", "record", "poll", "stop", "join", "after",
          "except", "finish", "result", "error", "final", "exit"}

\* Where it holds no copy.
Walking == Going \ {"boot", "hello", "retry", "record", "result", "error", "final", "exit"}

Moved(w, x)   == [w EXCEPT !.pc = x]
Held(w, x, m) == [w EXCEPT !.pc = x, !.snap = m]
Begun(w, k)   == [w EXCEPT !.pc = "look", !.att = k, !.stop = "none"]
Left(w, x)    == [w EXCEPT !.pc = x, !.snap = Absent, !.sig = "none", !.stop = "none"]
NoCaptures    == [k \in Attempts |-> NoCapture]

LEMMA MovedFields ==
    ASSUME NEW w \in WorkerState, NEW x \in Going
    PROVE  /\ Moved(w, x) \in WorkerState
           /\ Moved(w, x).pc = x /\ Moved(w, x).att = w.att /\ Moved(w, x).snap = w.snap
           /\ Moved(w, x).stop = w.stop /\ Moved(w, x).sig = w.sig
BY DEF Moved, WorkerState, Going

LEMMA HeldFields ==
    ASSUME NEW w \in WorkerState, NEW x \in Going, NEW m \in Meta
    PROVE  /\ Held(w, x, m) \in WorkerState
           /\ Held(w, x, m).pc = x /\ Held(w, x, m).att = w.att /\ Held(w, x, m).snap = m
           /\ Held(w, x, m).stop = w.stop /\ Held(w, x, m).sig = w.sig
BY DEF Held, WorkerState, Going

LEMMA BegunFields ==
    ASSUME NEW w \in WorkerState, NEW k \in Attempts
    PROVE  /\ Begun(w, k) \in WorkerState
           /\ Begun(w, k).pc = "look" /\ Begun(w, k).att = k /\ Begun(w, k).snap = w.snap
           /\ Begun(w, k).stop = "none" /\ Begun(w, k).sig = w.sig
<1>1. k \in 0..MaxAttempts
  BY DEF Attempts
<1> QED
  BY <1>1 DEF Begun, WorkerState

LEMMA LeftFields ==
    ASSUME NEW w \in WorkerState, NEW x \in {"done", "dead"}
    PROVE  /\ Left(w, x) \in WorkerState
           /\ Left(w, x).pc = x /\ Left(w, x).att = w.att /\ Left(w, x).snap = Absent
BY Constants DEF Left, WorkerState

\* The worker has still to write its verdict.
Early(w) ==
    /\ w.pc \in Going \ {"boot", "final", "exit"} /\ w.snap.status # "cancelled"
    /\ w.pc \in {"hello", "retry", "record"} => w.snap.status \in Live
    /\ w.pc \in {"result", "error"} => w.snap.status \in Ended
    /\ w.pc = "error" => w.snap.status = "failed"

\* Until then meta.json holds no verdict, nor does any copy.
LEMMA EarlyKeeps ==
    ASSUME AgentInv, NEW a \in Agents, Runs(a), wrk[a].pc \notin {"final", "exit"},
           NEW w \in WorkerState, NEW p \in ProviderState, NEW c \in CaptureState, NEW m \in Meta,
           Turned(a, w, p, c, m, result[a]), Early(w), AttemptInv(w, p),
           m = meta[a] \/ m.status \in Live, SameCopies(c, cap[a])
    PROVE  AgentInv'
<1>1. wrk[a].pc \notin {"none", "exit", "done", "dead"}
  BY DEF Runs, Up
<1>2. m.status \in Ended => m.status = "cancelled" /\ m = meta[a]
  BY <1>1, AgentFacts DEF CopyInv, Live, Ended
<1>3. \A k \in Attempts: c[k].snap.status \notin Ended /\ (c[k].pc = "write" => c[k].snap.status # "absent")
  BY <1>1, AgentFacts DEF CopyInv, SameCopies
<1>4. CopiesLive(w, c)
  BY <1>3 DEF CopiesLive, Early, Ended
<1>5. CopyInv(w, c, m)
  BY <1>2, <1>3 DEF CopyInv, Early, Going
<1>6. ResultInv(w, p, c, m, result[a])
  <2>1. Verdicts \subseteq Ended /\ "cancelled" \notin Verdicts /\ {"completed"} \subseteq Verdicts
    BY DEF Verdicts, Ended
  <2>2. w.pc # "final"
    BY DEF Early
  <2> QED
    BY <1>2, <1>3, <2>1, <2>2 DEF ResultInv, Says
<1>7. Fades(wrk[a], w) /\ w.pc \notin {"none", "boot"}
  BY <1>1 DEF Fades, UpAs, RunsAs, Runs, Early, Going
<1>8. m.status # "cancelled" \/ m = meta[a]
  BY DEF Live
<1> QED
  BY <1>4, <1>5, <1>6, <1>7, <1>8, AgentFacts, TurnKeeps DEF AgentOK

\* The program counter alone.
LEMMA WalkKeeps ==
    ASSUME AgentInv, NEW a \in Agents, NEW x \in Walking, Runs(a), wrk[a].pc \notin {"final", "exit"},
           Move(a, x), UNCHANGED <<files, cap, kids, thr, restarts>>,
           NEW p \in ProviderState, prov' = [prov EXCEPT ![a] = p], AttemptInv(Moved(wrk[a], x), p)
    PROVE  AgentInv'
<1>1. Typed
  BY Types DEF AgentInv
<1>2. Turned(a, Moved(wrk[a], x), p, cap[a], meta[a], result[a])
  BY <1>1 DEF Turned, Typed, Move, Moved, files
<1>3. Moved(wrk[a], x) \in WorkerState /\ Moved(wrk[a], x).pc = x /\ Moved(wrk[a], x).snap = wrk[a].snap
  BY AgentFacts, MovedFields DEF Walking
<1>4. Early(Moved(wrk[a], x)) /\ SameCopies(cap[a], cap[a])
  BY <1>3, AgentFacts DEF Early, CopiesLive, Walking, SameCopies
<1> QED
  BY <1>2, <1>3, <1>4, AgentFacts, EarlyKeeps

\* The program counter and a copy of meta.json.
LEMMA HoldKeeps ==
    ASSUME AgentInv, NEW a \in Agents, NEW x \in Going, NEW m \in Meta, Runs(a), wrk[a].pc \notin {"final", "exit"},
           Hold(a, x, m), UNCHANGED <<files, prov, cap, kids, thr, restarts>>,
           Early(Held(wrk[a], x, m)), AttemptInv(Held(wrk[a], x, m), prov[a])
    PROVE  AgentInv'
<1>1. Typed
  BY Types DEF AgentInv
<1>2. Turned(a, Held(wrk[a], x, m), prov[a], cap[a], meta[a], result[a])
  BY <1>1 DEF Turned, Typed, Hold, Held, files
<1>3. Held(wrk[a], x, m) \in WorkerState /\ SameCopies(cap[a], cap[a])
  BY AgentFacts, HeldFields DEF SameCopies
<1> QED
  BY <1>2, <1>3, AgentFacts, EarlyKeeps

\* The write of the copy.
LEMMA FlushKeeps ==
    ASSUME AgentInv, NEW a \in Agents, NEW x \in Walking, Runs(a), wrk[a].pc \in {"hello", "retry", "record"},
           NEW c \in CaptureState, SameCopies(c, cap[a]),
           Flush(a, x), cap' = [cap EXCEPT ![a] = c], UNCHANGED <<result, prov, kids, thr, restarts>>,
           AttemptInv(Held(wrk[a], x, Absent), prov[a])
    PROVE  AgentInv'
<1>1. Typed
  BY Types DEF AgentInv
<1>2. Turned(a, Held(wrk[a], x, Absent), prov[a], c, wrk[a].snap, result[a])
  BY <1>1 DEF Turned, Typed, Flush, Put, Held
<1>3. /\ Held(wrk[a], x, Absent) \in WorkerState /\ Held(wrk[a], x, Absent).pc = x
      /\ Held(wrk[a], x, Absent).snap = Absent
  BY AgentFacts, HeldFields, Constants DEF Walking
<1>4. Early(Held(wrk[a], x, Absent))
  BY <1>3 DEF Early, Walking, Absent
<1>5. wrk[a].snap \in Meta /\ wrk[a].snap.status \in Live
  BY AgentFacts DEF WorkerState, CopyInv
<1> QED
  BY <1>2, <1>3, <1>4, <1>5, AgentFacts, EarlyKeeps

\* The end of the worker.
LEMMA LeaveKeeps ==
    ASSUME AgentInv, NEW a \in Agents, NEW x \in {"done", "dead"}, Up(a),
           Leave(a, x), UNCHANGED <<files, prov, kids, thr, restarts>>
    PROVE  AgentInv'
<1>1. Typed
  BY Types DEF AgentInv
<1> DEFINE w == Left(wrk[a], x)
<1>2. Turned(a, w, prov[a], NoCaptures, meta[a], result[a])
  <2>1. wrk' = [wrk EXCEPT ![a] = Left(wrk[a], x)] /\ cap' = [cap EXCEPT ![a] = NoCaptures]
    BY <1>1 DEF Typed, Leave, Left, NoCaptures
  <2> QED
    BY <1>1, <2>1 DEF Turned, Typed, files
<1>3. w \in WorkerState /\ w.pc = x /\ w.att = wrk[a].att /\ w.snap = Absent
  BY AgentFacts, LeftFields
<1> HIDE DEF w
<1>4. Fades(wrk[a], w)
  BY <1>3 DEF Fades, UpAs, RunsAs, Up
<1>5. NoCaptures \in CaptureState /\ \A k \in Attempts: NoCaptures[k].pc = "off" /\ NoCaptures[k].snap = Absent
  BY Constants DEF NoCaptures, NoCapture
<1>6. AttemptInv(w, prov[a])
  BY <1>3, AgentFacts DEF AttemptInv, Past
<1>7. CopiesLive(w, NoCaptures)
  BY <1>3, <1>5 DEF CopiesLive, Absent
<1>8. CopyInv(w, NoCaptures, meta[a])
  BY <1>3, <1>5 DEF CopyInv, Absent, Ended
<1>9. ResultInv(w, prov[a], NoCaptures, meta[a], result[a])
  <2>1. ASSUME NEW S \in {Verdicts, {"completed"}}, Says(w, NoCaptures, meta[a], S)
        PROVE  Says(wrk[a], cap[a], meta[a], S)
    BY <1>3, <1>5, <2>1 DEF Says, Verdicts, Absent
  <2> QED
    BY <2>1, AgentFacts DEF ResultInv
<1> QED
  BY <1>2, <1>3, <1>4, <1>5, <1>6, <1>7, <1>8, <1>9, AgentFacts, TurnKeeps DEF AgentOK

-----------------------------------------------------------------------------
(* The worker, action by action.                                           *)

LEMMA BootKeeps ==
    ASSUME AgentInv, NEW a \in Agents, WorkerBoot(a), UNCHANGED <<kids, thr, restarts>> PROVE AgentInv'
<1> USE DEF WorkerBoot
<1>1. Runs(a) /\ wrk[a].pc = "boot" /\ Up(a)
  BY DEF At, Runs
<1>2. CASE Exists(a) /\ HasPrompt(a)
  <2>1. PICK m \in Meta: m = [meta[a] EXCEPT !.status = "running"]
    BY AgentFacts DEF Meta, Live
  <2>2. m.status = "running"
    BY <2>1, AgentFacts DEF Meta
  <2>3. /\ Held(wrk[a], "hello", m).pc = "hello" /\ Held(wrk[a], "hello", m).att = wrk[a].att
        /\ Held(wrk[a], "hello", m).snap = m /\ "hello" \in Going
    <3>1. "hello" \in Going /\ wrk[a] \in WorkerState
      BY AgentFacts DEF Going
    <3> QED
      BY <3>1, HeldFields
  <2>4. AttemptInv(Held(wrk[a], "hello", m), prov[a])
    BY <2>3, <1>1, AgentFacts DEF AttemptInv, Past
  <2>5. Early(Held(wrk[a], "hello", m))
    BY <2>2, <2>3 DEF Early, Live
  <2>6. Hold(a, "hello", m) /\ UNCHANGED <<files, prov, cap>>
    BY <1>2, <2>1
  <2> QED
    BY <1>1, <2>3, <2>4, <2>5, <2>6, HoldKeeps
<1>3. CASE ~(Exists(a) /\ HasPrompt(a))
  <2>1. Leave(a, "dead") /\ UNCHANGED <<files, prov>>
    BY <1>3
  <2> QED
    BY <1>1, <2>1, LeaveKeeps
<1> QED
  BY <1>2, <1>3

LEMMA HelloKeeps ==
    ASSUME AgentInv, NEW a \in Agents, WorkerHello(a), UNCHANGED <<kids, thr, restarts>> PROVE AgentInv'
<1> USE DEF WorkerHello
<1>1. Runs(a) /\ wrk[a].pc = "hello" /\ "top" \in Walking
  BY DEF At, Walking, Going
<1>2. Held(wrk[a], "top", Absent).pc = "top" /\ Held(wrk[a], "top", Absent).att = wrk[a].att
  BY <1>1, AgentFacts, HeldFields, Constants DEF Walking
<1>3. AttemptInv(Held(wrk[a], "top", Absent), prov[a])
  BY <1>1, <1>2, AgentFacts DEF AttemptInv, Past, Attempts
<1>4. cap' = [cap EXCEPT ![a] = cap[a]] /\ cap[a] \in CaptureState
  BY Types, AgentFacts DEF AgentInv, Typed
<1>5. Flush(a, "top") /\ UNCHANGED <<result, prov>>
  OBVIOUS
<1> QED
  BY <1>1, <1>3, <1>4, <1>5, AgentFacts, FlushKeeps

\* Between two attempts no provider runs.
LEMMA NoneRuns ==
    ASSUME AgentInv, NEW a \in Agents, wrk[a].pc \in Past
    PROVE  \A k \in Attempts: prov[a][k] \notin Running
<1> TAKE k \in Attempts
<1>1. AttemptInv(wrk[a], prov[a]) /\ wrk[a].att \in Nat /\ k \in Nat
  BY AgentFacts DEF WorkerState, Attempts
<1>2. k > wrk[a].att \/ k < wrk[a].att \/ k = wrk[a].att
  BY <1>1
<1> QED
  BY <1>1, <1>2 DEF AttemptInv, Running

\* A move without a signal to the provider.
LEMMA StrollKeeps ==
    ASSUME AgentInv, NEW a \in Agents, NEW x \in Walking, Runs(a), wrk[a].pc \notin {"final", "exit"},
           Move(a, x), UNCHANGED <<files, prov, cap, kids, thr, restarts>>,
           x \in {"top", "popen"} => wrk[a].att < MaxAttempts,
           x \notin {"top", "popen", "except"} => wrk[a].att # 0,
           x \in Past => \A k \in Attempts: prov[a][k] \notin Running
    PROVE  AgentInv'
<1>1. Moved(wrk[a], x).pc = x /\ Moved(wrk[a], x).att = wrk[a].att
  BY AgentFacts, MovedFields DEF Walking
<1>2. AttemptInv(Moved(wrk[a], x), prov[a])
  BY <1>1, AgentFacts DEF AttemptInv, Walking, Going
<1>3. prov' = [prov EXCEPT ![a] = prov[a]] /\ prov[a] \in ProviderState
  BY Types, AgentFacts DEF AgentInv, Typed
<1> QED
  BY <1>2, <1>3, WalkKeeps

LEMMA TopKeeps ==
    ASSUME AgentInv, NEW a \in Agents, WorkerTop(a), UNCHANGED <<kids, thr, restarts>> PROVE AgentInv'
<1> USE DEF WorkerTop
<1>1. Runs(a) /\ wrk[a].pc = "top" /\ Up(a) /\ wrk[a].att < MaxAttempts
  BY AgentFacts DEF At, Runs, AttemptInv
<1>2. \A k \in Attempts: prov[a][k] \notin Running
  BY <1>1, NoneRuns DEF Past
<1>3. CASE Cancelled(a)
  BY <1>1, <1>3, LeaveKeeps
<1>4. ASSUME NEW x \in {"except", "popen"}, Move(a, x), UNCHANGED cap PROVE AgentInv'
  <2>1. x \in Walking
    BY DEF Walking, Going
  <2> QED
    BY <1>1, <1>2, <1>4, <2>1, StrollKeeps
<1>5. CASE ~Cancelled(a) /\ (~Exists(a) \/ wrk[a].att = 0)
  BY <1>4, <1>5
<1>6. CASE ~Cancelled(a) /\ Exists(a) /\ wrk[a].att # 0
  <2>1. PICK m \in Meta: m = [meta[a] EXCEPT !.provider = 0]
    BY AgentFacts DEF Meta
  <2>2. m.status \in Live
    <3>1. m.status = meta[a].status
      BY <2>1, AgentFacts DEF Meta
    <3> QED
      BY <1>1, <1>6, <3>1, AgentFacts DEF CopyInv, Cancelled, Exists, Meta
  <2>3. "retry" \in Going /\ wrk[a] \in WorkerState
    BY AgentFacts DEF Going
  <2> DEFINE w == Held(wrk[a], "retry", m)
  <2>4. w.pc = "retry" /\ w.att = wrk[a].att /\ w.snap = m
    BY <2>3, HeldFields
  <2>5. AttemptInv(w, prov[a])
    BY <2>4, <1>1, AgentFacts DEF AttemptInv, Past
  <2>6. Early(w)
    BY <2>2, <2>3, <2>4 DEF Early, Live
  <2>7. Hold(a, "retry", m) /\ UNCHANGED <<files, prov, cap>>
    BY <1>6, <2>1
  <2> QED
    BY <1>1, <2>3, <2>5, <2>6, <2>7, HoldKeeps
<1> QED
  BY <1>3, <1>5, <1>6

LEMMA RetryKeeps ==
    ASSUME AgentInv, NEW a \in Agents, WorkerRetry(a), UNCHANGED <<kids, thr, restarts>> PROVE AgentInv'
<1> USE DEF WorkerRetry
<1>1. Runs(a) /\ wrk[a].pc = "retry" /\ "popen" \in Walking
  BY DEF At, Walking, Going
<1>2. Held(wrk[a], "popen", Absent).pc = "popen" /\ Held(wrk[a], "popen", Absent).att = wrk[a].att
  BY <1>1, AgentFacts, HeldFields, Constants DEF Walking
<1>3. AttemptInv(Held(wrk[a], "popen", Absent), prov[a])
  BY <1>1, <1>2, AgentFacts DEF AttemptInv, Past, Attempts
<1>4. cap' = [cap EXCEPT ![a] = cap[a]] /\ cap[a] \in CaptureState
  BY Types, AgentFacts DEF AgentInv, Typed
<1>5. Flush(a, "popen") /\ UNCHANGED <<result, prov>>
  OBVIOUS
<1> QED
  BY <1>1, <1>3, <1>4, <1>5, AgentFacts, FlushKeeps

\* An error leaves the provider as it is.
LEMMA RaisesKeeps ==
    ASSUME AgentInv, NEW a \in Agents, WorkerRaises(a), UNCHANGED <<kids, thr, restarts>> PROVE AgentInv'
<1>1. Runs(a) /\ wrk[a].pc \notin {"final", "exit"} /\ "except" \in Going /\ wrk[a] \in WorkerState
  BY AgentFacts DEF WorkerRaises, Going
<1>2. /\ Held(wrk[a], "except", Absent).pc = "except" /\ Held(wrk[a], "except", Absent).att = wrk[a].att
      /\ Held(wrk[a], "except", Absent).snap = Absent
  BY <1>1, HeldFields, Constants
<1>3. AttemptInv(Held(wrk[a], "except", Absent), prov[a])
  BY <1>2, AgentFacts DEF AttemptInv, Past
<1>4. Early(Held(wrk[a], "except", Absent))
  BY <1>1, <1>2 DEF Early, Absent
<1> QED
  BY <1>1, <1>3, <1>4, HoldKeeps, Constants DEF WorkerRaises

-----------------------------------------------------------------------------
(* The worker and its provider.                                            *)

With(p, k, s) == [p EXCEPT ![k] = s]

LEMMA WithFields ==
    ASSUME NEW p \in ProviderState, NEW k \in Attempts, NEW s \in Life
    PROVE  With(p, k, s) \in ProviderState /\ With(p, k, s)[k] = s /\ \A j \in Attempts \ {k}: With(p, k, s)[j] = p[j]
BY DEF With, ProviderState

\* Providers p are as q, but for what has happened to those that ran.
SameRun(p, q) == \A j \in Attempts: p[j] = q[j] \/ (q[j] \in Running /\ p[j] # "none")

LEMMA SameRunKeeps ==
    ASSUME NEW w \in WorkerState, NEW p \in ProviderState, NEW q \in ProviderState, SameRun(p, q)
    PROVE  /\ AttemptInv(w, q) => AttemptInv(w, p)
           /\ \A c, m, r: ResultInv(w, q, c, m, r) => ResultInv(w, p, c, m, r)
<1>1. \A j \in Attempts: /\ q[j] = "none" => p[j] = "none"
                         /\ q[j] # "none" => p[j] # "none"
                         /\ q[j] \in {"ok", "bad"} => p[j] \in {"ok", "bad"}
                         /\ q[j] \notin Running => p[j] \notin Running
  BY DEF SameRun, Running
<1>2. AttemptInv(w, q) => AttemptInv(w, p)
  BY <1>1 DEF AttemptInv
<1>3. \A c, m, r: ResultInv(w, q, c, m, r) => ResultInv(w, p, c, m, r)
  BY <1>1 DEF ResultInv
<1> QED
  BY <1>2, <1>3

LEMMA TermStep ==
    ASSUME AgentInv, NEW a \in Agents, NEW k, Term(a, k)
    PROVE  \E p \in ProviderState: prov' = [prov EXCEPT ![a] = p] /\ SameRun(p, prov[a])
<1>1. prov \in [Agents -> ProviderState] /\ prov[a] \in ProviderState
  BY Types DEF AgentInv, Typed
<1>2. CASE k \in Attempts /\ prov[a][k] = "up"
  <2>1. prov' = [prov EXCEPT ![a] = With(prov[a], k, "term")]
    BY <1>1, <1>2 DEF Term, With
  <2>2. "term" \in Life
    BY DEF Life
  <2> DEFINE p == With(prov[a], k, "term")
  <2>3. p \in ProviderState /\ p[k] = "term" /\ \A j \in Attempts \ {k}: p[j] = prov[a][j]
    BY <1>1, <1>2, <2>2, WithFields
  <2> HIDE DEF p
  <2>4. SameRun(p, prov[a])
    BY <1>2, <2>3 DEF SameRun, Running
  <2> QED
    BY <2>1, <2>3, <2>4 DEF p
<1>3. CASE ~(k \in Attempts /\ prov[a][k] = "up")
  BY <1>1, <1>3 DEF Term, SameRun
<1> QED
  BY <1>2, <1>3

LEMMA PopenKeeps ==
    ASSUME AgentInv, NEW a \in Agents, WorkerPopen(a), UNCHANGED <<kids, thr, restarts>> PROVE AgentInv'
<1> USE DEF WorkerPopen
<1>1. Runs(a) /\ wrk[a].pc = "popen" /\ wrk[a] \in WorkerState /\ prov[a] \in ProviderState
  BY AgentFacts DEF At
<1>2. CASE ~Exists(a)
  <2>1. "except" \in Walking /\ "except" \notin Past
    BY DEF Walking, Going, Past
  <2> QED
    BY <1>1, <1>2, <2>1, StrollKeeps
<1>3. CASE Exists(a)
  <2>1. PICK k \in Attempts: k = wrk[a].att + 1
    BY <1>1, AgentFacts DEF AttemptInv, Attempts, WorkerState
  <2> DEFINE w == Begun(wrk[a], k)
  <2>2. w \in WorkerState /\ w.pc = "look" /\ w.att = k /\ w.snap = wrk[a].snap
    BY <1>1, BegunFields
  <2>3. "up" \in Life
    BY DEF Life
  <2> DEFINE p == With(prov[a], k, "up")
  <2>4. p \in ProviderState /\ p[k] = "up" /\ \A j \in Attempts \ {k}: p[j] = prov[a][j]
    BY <1>1, <2>3, WithFields
  <2>5. Typed
    BY Types DEF AgentInv
  <2>6. Turned(a, w, p, cap[a], meta[a], result[a])
    BY <1>3, <2>1, <2>5 DEF Turned, Typed, With, Begun, files
  <2> HIDE DEF p, w
  <2>7. AttemptInv(w, p)
    <3>1. ASSUME NEW j \in Attempts
          PROVE  /\ j > k => p[j] = "none"
                 /\ j < k => p[j] \in {"ok", "bad"}
      <4>1. /\ j > wrk[a].att => prov[a][j] = "none"
            /\ j < wrk[a].att => prov[a][j] \in {"ok", "bad"}
            /\ j = wrk[a].att => prov[a][j] # "none" /\ prov[a][j] \notin Running
        BY <1>1, AgentFacts DEF AttemptInv, Past
      <4>2. prov[a][j] \in Life
        BY <1>1 DEF ProviderState
      <4>3. j \in Nat /\ wrk[a].att \in Nat
        BY <1>1 DEF Attempts, WorkerState
      <4> QED
        BY <2>1, <2>4, <4>1, <4>2, <4>3 DEF Running, Life
    <3>2. k # 0
      BY DEF Attempts
    <3> QED
      BY <2>2, <2>4, <3>1, <3>2 DEF AttemptInv, Past
  <2>8. Early(w)
    BY <2>2, AgentFacts DEF Early, Going, CopiesLive
  <2> QED
    BY <1>1, <2>2, <2>4, <2>6, <2>7, <2>8, AgentFacts, EarlyKeeps
<1> QED
  BY <1>2, <1>3

LEMMA LookKeeps ==
    ASSUME AgentInv, NEW a \in Agents, WorkerLook(a), UNCHANGED <<kids, thr, restarts>> PROVE AgentInv'
<1> USE DEF WorkerLook
<1>1. Runs(a) /\ wrk[a].pc = "look" /\ wrk[a] \in WorkerState /\ wrk[a].att # 0
  BY AgentFacts DEF At, AttemptInv
<1>2. CASE Cancelled(a)
  <2>1. PICK p \in ProviderState: prov' = [prov EXCEPT ![a] = p] /\ SameRun(p, prov[a])
    BY <1>2, TermStep
  <2>2. "drain" \in Walking
    BY DEF Walking, Going
  <2>3. /\ Moved(wrk[a], "drain") \in WorkerState /\ Moved(wrk[a], "drain").pc = "drain"
        /\ Moved(wrk[a], "drain").att = wrk[a].att
    BY <1>1, <2>2, MovedFields DEF Walking
  <2>4. AttemptInv(Moved(wrk[a], "drain"), prov[a])
    BY <1>1, <2>3, AgentFacts DEF AttemptInv, Past
  <2>5. AttemptInv(Moved(wrk[a], "drain"), p)
    BY <2>1, <2>3, <2>4, AgentFacts, SameRunKeeps
  <2> QED
    BY <1>1, <1>2, <2>1, <2>2, <2>5, WalkKeeps
<1>3. CASE ~Cancelled(a) /\ Exists(a)
  <2>1. PICK m \in Meta: m = [meta[a] EXCEPT !.provider = wrk[a].att]
    BY <1>1, AgentFacts DEF Meta, WorkerState
  <2>2. m.status \in Live
    <3>1. m.status = meta[a].status
      BY <2>1, AgentFacts DEF Meta
    <3> QED
      BY <1>1, <1>3, <3>1, AgentFacts DEF CopyInv, Cancelled, Exists, Meta
  <2>3. "record" \in Going
    BY DEF Going
  <2> DEFINE w == Held(wrk[a], "record", m)
  <2>4. w.pc = "record" /\ w.att = wrk[a].att /\ w.snap = m
    BY <1>1, <2>3, HeldFields
  <2>5. AttemptInv(w, prov[a])
    BY <2>4, <1>1, AgentFacts DEF AttemptInv, Past
  <2>6. Early(w)
    BY <2>2, <2>3, <2>4 DEF Early, Live
  <2>7. Hold(a, "record", m) /\ UNCHANGED <<files, prov, cap>>
    BY <1>3, <2>1
  <2> QED
    BY <1>1, <2>3, <2>5, <2>6, <2>7, HoldKeeps
<1>4. CASE ~Cancelled(a) /\ ~Exists(a)
  <2>1. "except" \in Walking /\ "except" \notin Past
    BY DEF Walking, Going, Past
  <2> QED
    BY <1>1, <1>4, <2>1, StrollKeeps
<1> QED
  BY <1>2, <1>3, <1>4

LEMMA DrainKeeps ==
    ASSUME AgentInv, NEW a \in Agents, WorkerDrain(a), UNCHANGED <<kids, thr, restarts>> PROVE AgentInv'
BY LeaveKeeps DEF WorkerDrain, At, Runs

\* The write of the provider's pid, before an attempt goes on or after its failure.
LEMMA RecordFlushKeeps ==
    ASSUME AgentInv, NEW a \in Agents, At(a, "record"), NEW x \in {"poll", "except"}, Flush(a, x),
           NEW c \in CaptureState, SameCopies(c, cap[a]),
           cap' = [cap EXCEPT ![a] = c], UNCHANGED <<result, prov, kids, thr, restarts>>
    PROVE  AgentInv'
<1>1. Runs(a) /\ wrk[a].pc = "record" /\ x \in Walking
  BY DEF At, Walking, Going
<1>2. Held(wrk[a], x, Absent).pc = x /\ Held(wrk[a], x, Absent).att = wrk[a].att
  BY <1>1, AgentFacts, HeldFields, Constants DEF Walking
<1>3. AttemptInv(Held(wrk[a], x, Absent), prov[a])
  BY <1>1, <1>2, AgentFacts DEF AttemptInv, Past
<1> QED
  BY <1>1, <1>3, FlushKeeps

LEMMA RecordKeeps ==
    ASSUME AgentInv, NEW a \in Agents, WorkerRecord(a), UNCHANGED <<kids, thr, restarts>> PROVE AgentInv'
<1> USE DEF WorkerRecord
<1>1. wrk[a].att \in Attempts
  BY AgentFacts DEF At, AttemptInv, WorkerState, Attempts
<1> DEFINE c == [cap[a] EXCEPT ![wrk[a].att].pc = "line"]
<1>2. c \in CaptureState /\ SameCopies(c, cap[a])
  BY <1>1, AgentFacts DEF CaptureState, SameCopies
<1>3. cap' = [cap EXCEPT ![a] = c]
  BY Types DEF AgentInv, Typed
<1> HIDE DEF c
<1> QED
  BY <1>2, <1>3, RecordFlushKeeps

LEMMA UnwatchedKeeps ==
    ASSUME AgentInv, NEW a \in Agents, WorkerUnwatched(a), UNCHANGED <<kids, thr, restarts>> PROVE AgentInv'
<1>1. cap' = [cap EXCEPT ![a] = cap[a]] /\ cap[a] \in CaptureState /\ SameCopies(cap[a], cap[a])
  BY Types, AgentFacts DEF AgentInv, Typed, WorkerUnwatched, SameCopies
<1> QED
  BY <1>1, RecordFlushKeeps DEF WorkerUnwatched

LEMMA StopKeeps ==
    ASSUME AgentInv, NEW a \in Agents, NEW why \in Limits \cup {"cancelled"}, WorkerStop(a, why),
           UNCHANGED <<kids, thr, restarts>>
    PROVE  AgentInv'
<1> USE DEF WorkerStop
<1>1. Runs(a) /\ wrk[a].pc = "poll" /\ wrk[a] \in WorkerState /\ wrk[a].att # 0
  BY AgentFacts DEF At, AttemptInv
<1>2. CASE ~Exists(a)
  <2>1. "except" \in Walking /\ "except" \notin Past
    BY DEF Walking, Going, Past
  <2> QED
    BY <1>1, <1>2, <2>1, StrollKeeps
<1>3. CASE Exists(a)
  <2>1. PICK p \in ProviderState: prov' = [prov EXCEPT ![a] = p] /\ SameRun(p, prov[a])
    BY <1>3, TermStep
  <2> DEFINE w == [wrk[a] EXCEPT !.pc = "stop", !.stop = why]
  <2>2. w \in WorkerState /\ w.pc = "stop" /\ w.att = wrk[a].att /\ w.snap = wrk[a].snap
    BY <1>1 DEF WorkerState
  <2>3. Turned(a, w, p, cap[a], meta[a], result[a])
    BY <1>3, <2>1, Types DEF Turned, Typed, AgentInv, files
  <2> HIDE DEF w
  <2>4. AttemptInv(w, prov[a])
    BY <1>1, <2>2, AgentFacts DEF AttemptInv, Past
  <2>5. AttemptInv(w, p)
    BY <2>1, <2>2, <2>4, AgentFacts, SameRunKeeps
  <2>6. Early(w)
    BY <2>2, AgentFacts DEF Early, Going, CopiesLive
  <2> QED
    BY <1>1, <2>2, <2>3, <2>5, <2>6, AgentFacts, EarlyKeeps
<1> QED
  BY <1>2, <1>3

LEMMA KillKeeps ==
    ASSUME AgentInv, NEW a \in Agents, WorkerKill(a), UNCHANGED <<kids, thr, restarts>> PROVE AgentInv'
<1> USE DEF WorkerKill
<1>1. Runs(a) /\ wrk[a].pc = "stop" /\ wrk[a] \in WorkerState /\ wrk[a].att # 0 /\ prov[a] \in ProviderState
  BY AgentFacts DEF At, AttemptInv
<1>2. wrk[a].att \in Attempts /\ "bad" \in Life
  BY <1>1 DEF WorkerState, Attempts, Life
<1> DEFINE p == With(prov[a], wrk[a].att, "bad")
<1>3. /\ p \in ProviderState /\ p[wrk[a].att] = "bad"
      /\ \A j \in Attempts \ {wrk[a].att}: p[j] = prov[a][j]
  BY <1>1, <1>2, WithFields
<1>4. prov' = [prov EXCEPT ![a] = p]
  BY Types DEF AgentInv, Typed, With
<1> HIDE DEF p
<1>5. "join" \in Walking
  BY DEF Walking, Going
<1>6. Moved(wrk[a], "join").pc = "join" /\ Moved(wrk[a], "join").att = wrk[a].att
  BY <1>1, <1>5, MovedFields DEF Walking
<1>7. AttemptInv(Moved(wrk[a], "join"), p)
  BY <1>1, <1>2, <1>3, <1>6, AgentFacts DEF AttemptInv, Running, Attempts
<1> QED
  BY <1>1, <1>3, <1>4, <1>5, <1>7, WalkKeeps

\* No provider of an attempt runs when that of the last one does not.
LEMMA LastRuns ==
    ASSUME AgentInv, NEW a \in Agents, prov[a][wrk[a].att] \notin Running
    PROVE  \A k \in Attempts: prov[a][k] \notin Running
<1> TAKE k \in Attempts
<1>1. AttemptInv(wrk[a], prov[a]) /\ wrk[a].att \in Nat /\ k \in Nat
  BY AgentFacts DEF WorkerState, Attempts
<1>2. k > wrk[a].att \/ k < wrk[a].att \/ k = wrk[a].att
  BY <1>1
<1> QED
  BY <1>1, <1>2 DEF AttemptInv, Running

LEMMA SeesExitKeeps ==
    ASSUME AgentInv, NEW a \in Agents, WorkerSeesExit(a), UNCHANGED <<kids, thr, restarts>> PROVE AgentInv'
<1>1. Runs(a) /\ wrk[a].pc \in {"poll", "stop"} /\ wrk[a].att # 0 /\ "join" \in Walking
  BY AgentFacts DEF WorkerSeesExit, AttemptInv, Walking, Going
<1> QED
  BY <1>1, LastRuns, StrollKeeps DEF WorkerSeesExit

LEMMA JoinKeeps ==
    ASSUME AgentInv, NEW a \in Agents, WorkerJoin(a), UNCHANGED <<kids, thr, restarts>> PROVE AgentInv'
<1>1. Runs(a) /\ wrk[a].pc = "join" /\ wrk[a].att # 0 /\ "after" \in Walking
  BY AgentFacts DEF WorkerJoin, At, AttemptInv, Walking, Going
<1>2. \A k \in Attempts: prov[a][k] \notin Running
  BY <1>1, NoneRuns DEF Past
<1> QED
  BY <1>1, <1>2, StrollKeeps DEF WorkerJoin

LEMMA AfterKeeps ==
    ASSUME AgentInv, NEW a \in Agents, WorkerAfter(a), UNCHANGED <<kids, thr, restarts>> PROVE AgentInv'
<1> USE DEF WorkerAfter
<1>1. /\ Runs(a) /\ Up(a) /\ wrk[a].pc = "after" /\ wrk[a].att # 0 /\ wrk[a].att \in 0..MaxAttempts
  BY AgentFacts DEF At, AttemptInv, WorkerState, Runs
<1>2. \A k \in Attempts: prov[a][k] \notin Running
  BY <1>1, NoneRuns DEF Past
<1>3. CASE Exists(a) /\ (Cancelled(a) \/ wrk[a].stop = "cancelled")
  BY <1>1, <1>3, LeaveKeeps
<1>4. ASSUME NEW x \in {"except", "finish", "top"}, Move(a, x), UNCHANGED cap,
             x = "top" => wrk[a].att # MaxAttempts
      PROVE  AgentInv'
  <2>1. x \in Walking /\ (x = "top" => wrk[a].att < MaxAttempts)
    BY <1>1, <1>4 DEF Walking, Going
  <2> QED
    BY <1>1, <1>2, <1>4, <2>1, StrollKeeps
<1>5. CASE ~(Exists(a) /\ (Cancelled(a) \/ wrk[a].stop = "cancelled"))
  BY <1>4, <1>5
<1> QED
  BY <1>3, <1>5

LEMMA ExceptKeeps ==
    ASSUME AgentInv, NEW a \in Agents, WorkerExcept(a), UNCHANGED <<kids, thr, restarts>> PROVE AgentInv'
<1> USE DEF WorkerExcept
<1>1. Runs(a) /\ wrk[a].pc = "except" /\ wrk[a] \in WorkerState /\ Up(a)
  BY AgentFacts DEF At, Runs
<1>2. CASE ~Exists(a) \/ Cancelled(a)
  BY <1>1, <1>2, LeaveKeeps
<1>3. CASE Exists(a) /\ ~Cancelled(a)
  <2>1. PICK m \in Meta: m = [meta[a] EXCEPT !.status = "failed"]
    BY AgentFacts DEF Meta, Ended
  <2>2. m.status = "failed"
    BY <2>1, AgentFacts DEF Meta
  <2>3. "error" \in Going
    BY DEF Going
  <2> DEFINE w == Held(wrk[a], "error", m)
  <2>4. w.pc = "error" /\ w.att = wrk[a].att /\ w.snap = m
    BY <1>1, <2>3, HeldFields
  <2>5. AttemptInv(w, prov[a])
    BY <2>4, <1>1, AgentFacts DEF AttemptInv, Past
  <2>6. Early(w)
    BY <2>2, <2>3, <2>4 DEF Early, Ended
  <2>7. Hold(a, "error", m) /\ UNCHANGED <<files, prov, cap>>
    BY <1>3, <2>1
  <2> QED
    BY <1>1, <2>3, <2>5, <2>6, <2>7, HoldKeeps
<1> QED
  BY <1>2, <1>3

LEMMA FinishKeeps ==
    ASSUME AgentInv, NEW a \in Agents, WorkerFinish(a), UNCHANGED <<kids, thr, restarts>> PROVE AgentInv'
<1> USE DEF WorkerFinish
<1>1. Runs(a) /\ wrk[a].pc = "finish" /\ wrk[a] \in WorkerState /\ Up(a)
  BY AgentFacts DEF At, Runs
<1>2. CASE ~Exists(a) \/ Cancelled(a)
  BY <1>1, <1>2, LeaveKeeps
<1>3. CASE Exists(a) /\ ~Cancelled(a)
  <2>1. FinalStatus(a) \in Ended \ {"cancelled"}
    BY DEF FinalStatus, Ended
  <2>2. PICK m \in Meta: m = [meta[a] EXCEPT !.status = FinalStatus(a), !.provider = 0]
    <3>1. meta[a] \in Meta /\ 0 \in 0..MaxAttempts
      BY AgentFacts
    <3> QED
      BY <2>1, <3>1 DEF Meta
  <2>3. m.status \in Ended \ {"cancelled"}
    BY <2>1, <2>2, AgentFacts DEF Meta
  <2>4. "result" \in Going
    BY DEF Going
  <2> DEFINE w == Held(wrk[a], "result", m)
  <2>5. w.pc = "result" /\ w.att = wrk[a].att /\ w.snap = m
    BY <1>1, <2>4, HeldFields
  <2>6. AttemptInv(w, prov[a])
    BY <2>5, <1>1, AgentFacts DEF AttemptInv, Past
  <2>7. Early(w)
    BY <2>3, <2>4, <2>5 DEF Early
  <2>8. Hold(a, "result", m) /\ UNCHANGED <<files, prov, cap>>
    BY <1>3, <2>2
  <2> QED
    BY <1>1, <2>4, <2>6, <2>7, <2>8, HoldKeeps
<1> QED
  BY <1>2, <1>3

\* result.txt is written before meta.json.
LEMMA ResultKeeps ==
    ASSUME AgentInv, NEW a \in Agents, WorkerResult(a), UNCHANGED <<kids, thr, restarts>> PROVE AgentInv'
<1> USE DEF WorkerResult
<1>1. Runs(a) /\ wrk[a].pc \in {"result", "error"} /\ wrk[a] \in WorkerState /\ Up(a)
  BY AgentFacts DEF Runs
<1>2. Typed
  BY Types DEF AgentInv
<1>3. CASE Exists(a)
  <2>1. PICK r \in ResultState: /\ r = IF ~HasPrompt(a) THEN "stray" ELSE IF wrk[a].pc = "result" THEN "final"
                                        ELSE "error"
                                /\ result' = [result EXCEPT ![a] = r]
    BY <1>3 DEF ResultState
  <2> DEFINE w == Moved(wrk[a], "final")
  <2>2. w \in WorkerState /\ w.pc = "final" /\ w.att = wrk[a].att /\ w.snap = wrk[a].snap /\ w.sig = wrk[a].sig
    <3>1. "final" \in Going
      BY DEF Going
    <3> QED
      BY <3>1, <1>1, MovedFields
  <2>3. Turned(a, w, prov[a], cap[a], meta[a], r)
    BY <1>2, <1>3, <2>1 DEF Turned, Typed, Move, Moved
  <2> HIDE DEF w
  <2>4. AttemptInv(w, prov[a])
    BY <1>1, <2>2, AgentFacts DEF AttemptInv, Past
  <2>5. CopiesLive(w, cap[a])
    BY <2>2, AgentFacts DEF CopiesLive
  <2>6. CopyInv(w, cap[a], meta[a])
    BY <1>1, <2>2, AgentFacts DEF CopyInv
  <2>7. ResultInv(w, prov[a], cap[a], meta[a], r)
    <3>1. meta[a].status \notin Verdicts \cup {"completed"}
      BY <1>1, AgentFacts DEF CopyInv, Verdicts, Ended
    <3>2. \A k \in Attempts: cap[a][k].snap.status \notin Verdicts \cup {"completed"}
      BY <1>1, AgentFacts DEF CopyInv, Verdicts, Ended
    <3>3. CASE wrk[a].pc = "result"
      BY <3>1, <3>2, <3>3, <2>1, NoneRuns DEF ResultInv, Past
    <3>4. CASE wrk[a].pc = "error"
      <4>1. w.snap.status = "failed"
        BY <2>2, <3>4, AgentFacts DEF CopyInv
      <4> QED
        BY <3>1, <3>2, <4>1 DEF ResultInv, Says, Verdicts
    <3> QED
      BY <1>1, <3>3, <3>4
  <2>8. Fades(wrk[a], w)
    BY <1>1, <2>2 DEF Fades, UpAs, RunsAs, Runs, Up
  <2> QED
    BY <2>1, <2>2, <2>3, <2>4, <2>5, <2>6, <2>7, <2>8, AgentFacts, TurnKeeps DEF AgentOK
<1>4. CASE ~Exists(a)
  <2>1. Leave(a, "dead") /\ UNCHANGED <<files, prov>>
    BY <1>4 DEF files
  <2> QED
    BY <1>1, <2>1, LeaveKeeps
<1> QED
  BY <1>3, <1>4

LEMMA FinalKeeps ==
    ASSUME AgentInv, NEW a \in Agents, WorkerFinal(a), UNCHANGED <<kids, thr, restarts>> PROVE AgentInv'
<1> USE DEF WorkerFinal
<1>1. Runs(a) /\ wrk[a].pc = "final" /\ wrk[a] \in WorkerState /\ wrk[a].snap \in Meta
  BY AgentFacts DEF At, WorkerState
<1> DEFINE w == Held(wrk[a], "exit", Absent)
<1>2. "exit" \in Going
  BY DEF Going
<1>3. w \in WorkerState /\ w.pc = "exit" /\ w.att = wrk[a].att /\ w.snap = Absent /\ w.sig = wrk[a].sig
  BY <1>1, <1>2, HeldFields, Constants
<1>4. Turned(a, w, prov[a], cap[a], wrk[a].snap, result[a])
  BY Types DEF AgentInv, Turned, Typed, Held, Put
<1> HIDE DEF w
<1>5. AttemptInv(w, prov[a])
  BY <1>1, <1>3, AgentFacts DEF AttemptInv, Past
<1>6. CopiesLive(w, cap[a]) /\ wrk[a].snap.status # "cancelled"
  BY <1>3, AgentFacts DEF CopiesLive, Absent
<1>7. CopyInv(w, cap[a], wrk[a].snap)
  BY <1>1, <1>3, AgentFacts DEF CopyInv
<1>8. ResultInv(w, prov[a], cap[a], wrk[a].snap, result[a])
  <2>1. ASSUME NEW S, Says(w, cap[a], wrk[a].snap, S) PROVE Says(wrk[a], cap[a], meta[a], S)
    BY <1>1, <1>3, <2>1 DEF Says
  <2> QED
    BY <2>1, AgentFacts DEF ResultInv
<1>9. Fades(wrk[a], w)
  BY <1>1, <1>3 DEF Fades, UpAs, RunsAs, Runs, Up
<1> QED
  BY <1>1, <1>3, <1>4, <1>5, <1>6, <1>7, <1>8, <1>9, AgentFacts, TurnKeeps DEF AgentOK

LEMMA EndKeeps ==
    ASSUME AgentInv, NEW a \in Agents, WorkerExit(a) \/ WorkerDies(a) \/ WorkerCrashes(a),
           UNCHANGED <<kids, thr, restarts>>
    PROVE  AgentInv'
BY LeaveKeeps DEF WorkerExit, WorkerDies, WorkerCrashes, At, Runs

-----------------------------------------------------------------------------
(* The provider and the capture thread.                                    *)

\* A turn in which the worker itself takes no step.
LEMMA WorkerStill ==
    ASSUME AgentInv, NEW a \in Agents
    PROVE  Fades(wrk[a], wrk[a])
BY DEF Fades

LEMMA ProviderExitKeeps ==
    ASSUME AgentInv, NEW a \in Agents, NEW k \in Attempts, ProviderExit(a, k) PROVE AgentInv'
<1>1. PICK s \in {"ok", "bad"}: prov' = [prov EXCEPT ![a][k] = s]
  BY DEF ProviderExit
<1>2. prov[a][k] \in Running /\ UNCHANGED <<files, wrk, cap, kids, thr, restarts>>
  BY DEF ProviderExit
<1>3. wrk[a] \in WorkerState /\ prov[a] \in ProviderState /\ s \in Life
  BY AgentFacts DEF Life
<1> DEFINE p == With(prov[a], k, s)
<1>4. p \in ProviderState /\ p[k] = s /\ \A j \in Attempts \ {k}: p[j] = prov[a][j]
  BY <1>3, WithFields
<1>5. Turned(a, wrk[a], p, cap[a], meta[a], result[a])
  BY <1>1, <1>2, Types DEF AgentInv, Turned, Typed, With, files
<1> HIDE DEF p
<1>6. SameRun(p, prov[a])
  BY <1>2, <1>4 DEF SameRun
<1>7. AgentOK(wrk[a], p, cap[a], meta[a], result[a])
  BY <1>3, <1>4, <1>6, AgentFacts, SameRunKeeps DEF AgentOK
<1> QED
  BY <1>4, <1>5, <1>7, WorkerStill, AgentFacts, TurnKeeps

CaptureEntry == [pc: {"off", "line", "write"}, snap: Meta]

\* A step of a capture thread.  What it writes is its own copy, what it reads is on disk.
LEMMA CaptureKeeps ==
    ASSUME AgentInv, NEW a \in Agents, NEW k \in Attempts, Runs(a), cap[a][k].pc # "off",
           NEW m \in Meta, m = meta[a] \/ m = cap[a][k].snap,
           NEW e \in CaptureEntry,
           e.snap \in {Absent, meta[a]}, e.snap.status # "cancelled", e.pc = "write" => e.snap.status # "absent",
           cap' = [cap EXCEPT ![a][k] = e], meta' = [meta EXCEPT ![a] = m],
           UNCHANGED <<result, wrk, prov, kids, thr, restarts>>
    PROVE  AgentInv'
<1> DEFINE c == [cap[a] EXCEPT ![k] = e]
<1>1. c \in CaptureState /\ c[k] = e /\ \A j \in Attempts \ {k}: c[j] = cap[a][j]
  BY AgentFacts DEF CaptureState, CaptureEntry
<1>2. Turned(a, wrk[a], prov[a], c, m, result[a])
  BY Types DEF AgentInv, Turned, Typed
<1> HIDE DEF c
<1>3. wrk[a].pc \notin {"none", "boot", "done", "dead"}
  BY AgentFacts DEF CopyInv, Runs, Up
<1>4. \A j \in Attempts: c[j].snap = cap[a][j].snap \/ c[j].snap = Absent \/ (c[j].snap = meta[a] /\ ~Cancelled(a))
  BY <1>1 DEF Cancelled
<1>5. CopiesLive(wrk[a], c)
  BY <1>4, AgentFacts DEF CopiesLive, Cancelled, Absent
<1>6. CopyInv(wrk[a], c, m)
  <2>1. m.status \in Ended => m.status = "cancelled" \/ wrk[a].pc = "exit"
    BY <1>3, AgentFacts DEF CopyInv
  <2>2. \A j \in Attempts: c[j].snap.status \in Ended => wrk[a].pc = "exit"
    BY <1>3, <1>4, AgentFacts DEF CopyInv, Cancelled, Absent, Ended
  <2>3. \A j \in Attempts: c[j].pc = "write" => c[j].snap.status # "absent"
    BY <1>1, AgentFacts DEF CopyInv
  <2> QED
    BY <1>3, <2>1, <2>2, <2>3, AgentFacts DEF CopyInv
<1>7. ResultInv(wrk[a], prov[a], c, m, result[a])
  <2>1. ASSUME NEW S \in {Verdicts, {"completed"}}, Says(wrk[a], c, m, S) PROVE Says(wrk[a], cap[a], meta[a], S)
    <3>1. Absent.status \notin S
      BY DEF Absent, Verdicts
    <3> QED
      BY <1>4, <2>1, <3>1 DEF Says
  <2> QED
    BY <2>1, AgentFacts DEF ResultInv
<1>8. m.status # "cancelled" \/ m = meta[a]
  BY AgentFacts DEF CopiesLive
<1> QED
  BY <1>1, <1>2, <1>3, <1>5, <1>6, <1>7, <1>8, WorkerStill, AgentFacts, TurnKeeps DEF AgentOK

LEMMA CaptureStepKeeps ==
    ASSUME AgentInv, NEW a \in Agents, NEW k \in Attempts, Capture(a, k) PROVE AgentInv'
<1>1. /\ NoCapture \in CaptureEntry /\ NoCapture.snap = Absent
      /\ meta \in [Agents -> Meta] /\ meta[a] \in Meta
  BY Constants, Types DEF NoCapture, AgentInv, Typed, CaptureEntry
<1>2. CASE EventRead(a, k)
  <2>1. PICK e: e = [pc |-> "write", snap |-> meta[a]]
    OBVIOUS
  <2>2. e \in CaptureEntry /\ e.snap \in {Absent, meta[a]} /\ e.snap.status \notin {"cancelled", "absent"}
    BY <1>1, <1>2, <2>1 DEF EventRead, CaptureEntry, Cancelled, Exists
  <2>3. meta' = [meta EXCEPT ![a] = meta[a]] /\ UNCHANGED result
    BY <1>1, <1>2 DEF EventRead, files
  <2>4. /\ Runs(a) /\ cap[a][k].pc # "off" /\ cap' = [cap EXCEPT ![a][k] = e]
        /\ UNCHANGED <<result, wrk, prov, kids, thr, restarts>>
    BY <1>2, <2>1, <2>3 DEF EventRead
  <2> QED
    BY <1>1, <2>2, <2>3, <2>4, CaptureKeeps
<1>3. CASE EventWrite(a, k)
  <2>1. PICK e: e = [pc |-> "line", snap |-> Absent]
    OBVIOUS
  <2>2. e \in CaptureEntry /\ e.snap = Absent /\ e.pc # "write"
    BY <2>1, Constants DEF CaptureEntry
  <2>3. PICK m \in Meta: m = cap[a][k].snap
    BY AgentFacts DEF CaptureState
  <2>4. /\ Runs(a) /\ cap[a][k].pc # "off" /\ meta' = [meta EXCEPT ![a] = m] /\ cap' = [cap EXCEPT ![a][k] = e]
        /\ UNCHANGED <<result, wrk, prov, kids, thr, restarts>>
    BY <1>3, <2>1, <2>3 DEF EventWrite, Put
  <2>5. e.snap \in {Absent, meta[a]} /\ e.snap.status # "cancelled"
    BY <2>2 DEF Absent
  <2> QED
    BY <2>2, <2>3, <2>4, <2>5, CaptureKeeps
<1>4. CASE CaptureEnd(a, k) \/ CaptureFails(a, k)
  <2>1. PICK e: e = NoCapture
    OBVIOUS
  <2>2. meta' = [meta EXCEPT ![a] = meta[a]] /\ UNCHANGED result
    BY <1>1, <1>4 DEF CaptureEnd, CaptureFails, files
  <2>3. /\ e \in CaptureEntry
        /\ e.snap \in {Absent, meta[a]} /\ e.snap.status # "cancelled" /\ e.pc # "write"
    BY <1>1, <2>1 DEF Absent, NoCapture
  <2>5. /\ Runs(a) /\ cap[a][k].pc # "off" /\ cap' = [cap EXCEPT ![a][k] = e]
        /\ UNCHANGED <<result, wrk, prov, kids, thr, restarts>>
    BY <1>4, <2>1, <2>2 DEF CaptureEnd, CaptureFails
  <2> QED
    BY <1>1, <2>2, <2>3, <2>5, CaptureKeeps
<1> QED
  BY <1>2, <1>3, <1>4 DEF Capture

-----------------------------------------------------------------------------
(* The server.  Its handlers, and the threads of wait_agents, one turn.    *)

SpawnPcs == {"popen", "late"}

LEMMA ThreadFacts ==
    ASSUME AgentInv, NEW t \in Threads
    PROVE  /\ thr[t] \in ThreadState /\ ThreadInv(t) /\ Loop \in Threads
           /\ thr[t].pc \in Handling \cup SpawnPcs => thr[t].a \in Agents
           /\ thr[t].todo \cup thr[t].ids \subseteq Agents
           /\ thr[t].pc \in Handling => Known(thr[t].a)
           /\ \A a \in thr[t].todo \cup thr[t].ids: Known(a)
<1>1. thr[t] \in ThreadState /\ ThreadInv(t) /\ Loop \in Threads
  BY Types DEF AgentInv, Typed, Threads
<1> QED
  BY <1>1 DEF ThreadInv, SpawnPcs, ThreadState

\* A turn of a thread that changes nothing but where the thread is.
LEMMA ThreadTurn ==
    ASSUME AgentInv, NEW t \in Threads, NEW s \in ThreadState, thr' = [thr EXCEPT ![t] = s],
           UNCHANGED <<files, procs, restarts>>, ThreadInv(t)', t = Loop => LoopInv'
    PROVE  AgentInv'
<1>1. Typed
  BY Types DEF AgentInv
<1>2. /\ \A u \in Threads \ {t}: thr'[u] = thr[u]
      /\ meta' = meta /\ result' = result /\ wrk' = wrk /\ prov' = prov /\ cap' = cap /\ kids' = kids
      /\ restarts' = restarts /\ thr' \in [Threads -> ThreadState]
  BY <1>1 DEF Typed, files, procs
<1>3. TypeOK'
  BY <1>1, <1>2, Types DEF Typed
<1>4. \A a \in Agents: AgentOK(wrk[a], prov[a], cap[a], meta[a], result[a])'
  BY <1>2, AgentFacts DEF AgentOK
<1>5. ASSUME NEW u \in Threads PROVE ThreadInv(u)'
  <2>1. CASE u # t
    BY <2>1, <1>2, ThreadFacts DEF ThreadInv, Known, Up
  <2> QED
    BY <2>1
<1>6. LoopInv'
  <2>1. CASE t # Loop
    <3>1. thr'[Loop] = thr[Loop]
      BY <2>1, <1>2 DEF Threads
    <3> QED
      BY <3>1, <1>2 DEF AgentInv, LoopInv, Runs, Up, Known
  <2> QED
    BY <2>1
<1>7. CancelledMeansStopped'
  BY <1>2 DEF AgentInv, CancelledMeansStopped, Runs, Up
<1> QED
  BY <1>3, <1>4, <1>5, <1>6, <1>7 DEF AgentInv, AgentOK

LEMMA FinishTurn ==
    ASSUME AgentInv, NEW t \in Threads, Finish(t), UNCHANGED <<files, procs, restarts>>
    PROVE  AgentInv'
<1>1. thr' = [thr EXCEPT ![t] = Idle] /\ Idle \in ThreadState
  BY Constants DEF Finish
<1>2. Idle.pc = "idle" /\ Idle.todo = {} /\ Idle.ids = {}
  BY DEF Idle
<1>3. thr'[t] = Idle
  BY <1>1, Types DEF AgentInv, Typed
<1>4. t = Loop => LoopInv'
  BY <1>2, <1>3 DEF LoopInv, Handling
<1>5. ThreadInv(t)'
  BY <1>2, <1>3 DEF ThreadInv, Handling
<1> QED
  BY <1>1, <1>4, <1>5, ThreadTurn

-----------------------------------------------------------------------------
(* wait_agents.                                                            *)

LEMMA WaitCallKeeps ==
    ASSUME AgentInv, NEW t \in Waiters, NEW S \in SUBSET Agents, WaitCall(t, S) PROVE AgentInv'
<1>1. PICK s: s = [Idle EXCEPT !.op = "wait", !.pc = "read", !.ids = S, !.todo = S]
  OBVIOUS
<1>2. s \in ThreadState /\ s.pc = "read" /\ s.ids = S /\ s.todo = S
  BY <1>1, Constants DEF Idle, ThreadState
<1>3. t \in Threads /\ t # Loop
  BY DEF Threads
<1>4. thr' = [thr EXCEPT ![t] = s] /\ UNCHANGED <<files, procs, restarts>>
  BY <1>1 DEF WaitCall
<1>5. thr'[t] = s /\ wrk' = wrk
  BY <1>3, <1>4, Types DEF AgentInv, Typed, procs
<1>6. ThreadInv(t)'
  BY <1>2, <1>5 DEF ThreadInv, Handling, WaitCall, Known
<1> QED
  BY <1>2, <1>3, <1>4, <1>6, ThreadTurn

LEMMA WaitReadKeeps ==
    ASSUME AgentInv, NEW t \in Waiters, NEW a \in Agents, WaitRead(t, a) PROVE AgentInv'
<1>1. t \in Threads /\ t # Loop /\ a \in thr[t].todo /\ UNCHANGED <<files, procs, restarts>>
  BY DEF Threads, WaitRead
<1>2. CASE Exists(a)
  <2>1. PICK s: s = [thr[t] EXCEPT !.pc = "check", !.a = a, !.snap = meta[a]]
    OBVIOUS
  <2>2. thr[t] \in ThreadState /\ meta[a] \in Meta
    BY <1>1, ThreadFacts, AgentFacts
  <2>3. /\ s \in ThreadState /\ s.pc = "check" /\ s.a = a /\ s.ids = thr[t].ids /\ s.todo = thr[t].todo
    BY <2>1, <2>2 DEF ThreadState
  <2>4. thr' = [thr EXCEPT ![t] = s]
    BY <2>1, <1>1, <1>2, Types DEF AgentInv, Typed, WaitRead
  <2>5. thr'[t] = s /\ wrk' = wrk
    BY <1>1, <2>4, Types DEF AgentInv, Typed, procs
  <2>6. ThreadInv(t)'
    BY <1>1, <2>3, <2>5, ThreadFacts DEF ThreadInv, Known
  <2> QED
    BY <1>1, <2>3, <2>4, <2>6, ThreadTurn
<1>3. CASE ~Exists(a)
  BY <1>1, <1>3, FinishTurn DEF WaitRead
<1> QED
  BY <1>2, <1>3

LEMMA WaitNextKeeps ==
    ASSUME AgentInv, NEW t \in Waiters, WaitNext(t) PROVE AgentInv'
<1>1. t \in Threads /\ t # Loop /\ thr[t].pc = "act" /\ thr[t] \in ThreadState /\ thr[t].a \in Agents
  BY ThreadFacts DEF Threads, WaitNext, Handling
<1>2. PICK b, S, E: /\ b = thr[t].a /\ S = thr[t].todo \ {b}
                    /\ E = IF thr[t].snap.status \in Ended THEN thr[t].seen \cup {b} ELSE thr[t].seen
  OBVIOUS
<1>3. S \in SUBSET Agents /\ E \in SUBSET Agents /\ S \subseteq thr[t].todo
  BY <1>1, <1>2 DEF ThreadState
<1>4. PICK x \in {"decide", "read"}: x = IF S = {} THEN "decide" ELSE "read"
  OBVIOUS
<1>5. PICK s: s = [thr[t] EXCEPT !.pc = x, !.todo = S, !.a = NoAgent, !.snap = Absent, !.seen = E]
  OBVIOUS
<1>6. s \in ThreadState /\ s.pc = x /\ s.ids = thr[t].ids /\ s.todo = S
  BY <1>1, <1>3, <1>4, <1>5, Constants DEF ThreadState
<1>7. thr' = [thr EXCEPT ![t] = s] /\ UNCHANGED <<files, procs, restarts>>
  <2>1. thr \in [Threads -> ThreadState]
    BY Types DEF AgentInv, Typed
  <2>2. UNCHANGED <<files, procs, restarts>>
    BY DEF WaitNext
  <2> QED
    BY <1>1, <1>2, <1>4, <1>5, <2>1, <2>2 DEF WaitNext
<1>8. thr'[t] = s /\ wrk' = wrk
  BY <1>1, <1>7, Types DEF AgentInv, Typed, procs
<1>9. ThreadInv(t)'
  BY <1>1, <1>3, <1>4, <1>6, <1>8, ThreadFacts DEF ThreadInv, Known, Handling
<1> QED
  BY <1>1, <1>6, <1>7, <1>9, ThreadTurn

LEMMA WaitReturnKeeps ==
    ASSUME AgentInv, NEW t \in Waiters, WaitReturn(t) PROVE AgentInv'
BY FinishTurn DEF WaitReturn, Threads

LEMMA WaitAgainKeeps ==
    ASSUME AgentInv, NEW t \in Waiters, WaitAgain(t) PROVE AgentInv'
<1>1. t \in Threads /\ t # Loop /\ thr[t] \in ThreadState
  BY ThreadFacts DEF Threads
<1>2. PICK s: s = [thr[t] EXCEPT !.pc = "read", !.todo = thr[t].ids, !.seen = {}]
  OBVIOUS
<1>3. s \in ThreadState /\ s.pc = "read" /\ s.ids = thr[t].ids /\ s.todo = thr[t].ids
  BY <1>1, <1>2 DEF ThreadState
<1>4. thr' = [thr EXCEPT ![t] = s] /\ UNCHANGED <<files, procs, restarts>>
  BY <1>1, <1>2, Types DEF AgentInv, Typed, WaitAgain
<1>5. thr'[t] = s /\ wrk' = wrk
  BY <1>1, <1>4, Types DEF AgentInv, Typed, procs
<1>6. ThreadInv(t)'
  BY <1>1, <1>3, <1>5, ThreadFacts DEF ThreadInv, Known, Handling
<1> QED
  BY <1>1, <1>3, <1>4, <1>6, ThreadTurn

-----------------------------------------------------------------------------
(* A turn of a thread that touches one agent.                              *)

Served(a, w, p, m, r, q, t, s) ==
    /\ wrk' = [wrk EXCEPT ![a] = w] /\ prov' = [prov EXCEPT ![a] = p] /\ kids' = [kids EXCEPT ![a] = q]
    /\ meta' = [meta EXCEPT ![a] = m] /\ result' = [result EXCEPT ![a] = r]
    /\ thr' = [thr EXCEPT ![t] = s] /\ UNCHANGED <<cap, restarts>>

ServerOK(a, w, p, m, r, q) ==
    /\ AgentOK(w, p, cap[a], m, r)
    /\ m.status = "cancelled" /\ m.worker /\ q => ~RunsAs(w)
    /\ ~Known(a) \/ Fades(wrk[a], w)
    /\ Known(a) => w.pc # "none"

LEMMA ServerTurn ==
    ASSUME AgentInv, NEW a \in Agents, NEW w \in WorkerState, NEW p \in ProviderState, NEW m \in Meta,
           NEW r \in ResultState, NEW q \in BOOLEAN, NEW t \in Threads, NEW s \in ThreadState,
           Served(a, w, p, m, r, q, t, s), ServerOK(a, w, p, m, r, q), LoopInv', ThreadInv(t)'
    PROVE  AgentInv'
<1> USE DEF ServerOK
<1>1. Typed
  BY Types DEF AgentInv
<1>2. /\ \A u \in Threads \ {t}: thr'[u] = thr[u]
      /\ wrk'[a] = w /\ prov'[a] = p /\ meta'[a] = m /\ result'[a] = r /\ kids'[a] = q
      /\ cap' = cap /\ restarts' = restarts
  BY <1>1 DEF Typed, Served
<1>3. ASSUME NEW b \in Agents, b # a
      PROVE  /\ wrk'[b] = wrk[b] /\ prov'[b] = prov[b] /\ meta'[b] = meta[b] /\ result'[b] = result[b]
             /\ kids'[b] = kids[b]
  BY <1>1, <1>3 DEF Typed, Served
<1>4. TypeOK'
  <2>1. /\ meta' \in [Agents -> Meta] /\ result' \in [Agents -> ResultState]
        /\ wrk' \in [Agents -> WorkerState] /\ prov' \in [Agents -> ProviderState]
        /\ kids' \in [Agents -> BOOLEAN] /\ thr' \in [Threads -> ThreadState]
    BY <1>1 DEF Typed, Served
  <2> QED
    BY <1>1, <1>2, <2>1, Types DEF Typed
<1>5. ASSUME NEW b \in Agents PROVE AgentOK(wrk[b], prov[b], cap[b], meta[b], result[b])'
  <2>1. CASE b = a
    BY <2>1, <1>2
  <2>2. CASE b # a
    BY <2>2, <1>2, <1>3, AgentFacts DEF AgentOK
  <2> QED
    BY <2>1, <2>2
<1>6. ASSUME NEW u \in Threads PROVE ThreadInv(u)'
  <2>1. CASE u # t
    <3>1. ThreadInv(u) /\ thr'[u] = thr[u] /\ thr[u].todo \cup thr[u].ids \subseteq Agents
      BY <2>1, <1>2, ThreadFacts
    <3>2. \A b \in Agents: Known(b) => Known(b)' /\ (Up(b)' => Up(b))
      BY <1>2, <1>3 DEF Known, Up, Fades, UpAs
    <3>3. CASE thr[u].pc \in Handling \cup SpawnPcs
      <4>1. thr[u].a \in Agents
        BY <3>3, ThreadFacts
      <4> QED
        BY <3>1, <3>2, <3>3, <4>1 DEF ThreadInv, Handling
    <3>4. CASE thr[u].pc \notin Handling \cup SpawnPcs
      BY <3>1, <3>2, <3>4 DEF ThreadInv, Handling, SpawnPcs
    <3> QED
      BY <3>3, <3>4
  <2> QED
    BY <2>1
<1>7. CancelledMeansStopped'
  <2>1. ASSUME NEW b \in Agents, (meta[b].status = "cancelled" /\ meta[b].worker /\ kids[b])'
        PROVE  ~Runs(b)'
    <3>1. CASE b = a
      BY <3>1, <2>1, <1>2 DEF Runs, Up, RunsAs, UpAs
    <3>2. CASE b # a
      BY <3>2, <2>1, <1>3 DEF AgentInv, CancelledMeansStopped, Runs, Up
    <3> QED
      BY <3>1, <3>2
  <2> QED
    BY <2>1 DEF CancelledMeansStopped
<1> QED
  BY <1>4, <1>5, <1>6, <1>7 DEF AgentInv, AgentOK

\* What the event loop relies on is left alone by the other threads.
LEMMA LoopStill ==
    ASSUME AgentInv, UNCHANGED <<wrk, kids>>, thr'[Loop] = thr[Loop],
           \A b \in Agents: /\ meta'[b].status = "cancelled" => meta[b].status = "cancelled"
                            /\ wrk[b].pc \in {"none", "boot"} => meta'[b] = meta[b]
    PROVE  LoopInv'
<1>1. thr[Loop].pc \in Handling \cup SpawnPcs => thr[Loop].a \in Agents
  BY ThreadFacts DEF Threads
<1>2. CASE thr[Loop].a \in Agents
  BY <1>2 DEF AgentInv, LoopInv, Runs, Up, Known
<1>3. CASE thr[Loop].a \notin Agents
  BY <1>1, <1>3 DEF LoopInv, Handling, SpawnPcs
<1> QED
  BY <1>2, <1>3

\* A write of what is no verdict, by somebody else than the worker.
LEMMA PutOK ==
    ASSUME NEW w \in WorkerState, NEW p \in ProviderState, NEW c \in CaptureState, NEW m \in Meta, NEW r \in ResultState,
           AgentOK(w, p, c, m, r), NEW n \in Meta, n.status \notin Verdicts,
           n.status = "failed" => w.pc \in {"none", "exit", "done", "dead"},
           NEW q \in ResultState, q \in {r, "absent"} \/ w.pc = "none"
    PROVE  AgentOK(w, p, c, n, q)
<1>1. "completed" \in Verdicts /\ Ended \subseteq Verdicts \cup {"failed", "cancelled"}
  BY DEF Verdicts, Ended
<1>2. AttemptInv(w, p) /\ CopiesLive(w, c)
  BY DEF AgentOK
<1>3. CopyInv(w, c, n)
  BY <1>1 DEF AgentOK, CopyInv
<1>4. ResultInv(w, p, c, n, q)
  <2>1. ASSUME NEW S \in {Verdicts, {"completed"}}, Says(w, c, n, S) PROVE Says(w, c, m, S) /\ w.pc # "none"
    <3>1. n.status \notin S /\ S \subseteq Ended
      BY <1>1 DEF Verdicts, Ended
    <3> QED
      BY <2>1, <3>1 DEF Says, AgentOK, CopyInv
  <2> QED
    BY <2>1 DEF AgentOK, ResultInv
<1> QED
  BY <1>2, <1>3, <1>4 DEF AgentOK

-----------------------------------------------------------------------------
(* The handlers.                                                           *)

Placed(s, x) == [s EXCEPT !.pc = x]
Pcs == {"idle", "popen", "late", "check", "mark", "act", "wait1", "wait2", "write", "read", "decide"}

LEMMA PlacedFields ==
    ASSUME NEW s \in ThreadState, NEW x \in Pcs
    PROVE  /\ Placed(s, x) \in ThreadState
           /\ Placed(s, x).pc = x /\ Placed(s, x).op = s.op /\ Placed(s, x).a = s.a /\ Placed(s, x).snap = s.snap
           /\ Placed(s, x).ids = s.ids /\ Placed(s, x).todo = s.todo
BY DEF Placed, ThreadState, Pcs

LEMMA Goes ==
    ASSUME AgentInv, NEW t \in Threads, NEW x \in Pcs, Goto(t, x)
    PROVE  /\ thr' = [thr EXCEPT ![t] = Placed(thr[t], x)] /\ thr'[t] = Placed(thr[t], x)
           /\ Placed(thr[t], x) \in ThreadState
           /\ thr'[t].pc = x /\ thr'[t].op = thr[t].op /\ thr'[t].a = thr[t].a /\ thr'[t].snap = thr[t].snap
           /\ thr'[t].ids = thr[t].ids /\ thr'[t].todo = thr[t].todo
           /\ \A u \in Threads \ {t}: thr'[u] = thr[u]
<1>1. thr \in [Threads -> ThreadState] /\ thr[t] \in ThreadState
  BY Types DEF AgentInv, Typed
<1>2. thr' = [thr EXCEPT ![t] = Placed(thr[t], x)]
  BY <1>1 DEF Goto, Placed
<1> QED
  BY <1>1, <1>2, PlacedFields

LEMMA CheckKeeps ==
    ASSUME AgentInv, NEW t \in Threads, Check(t) PROVE AgentInv'
<1>1. PICK x \in {"mark", "act"}: /\ Goto(t, x)
                                  /\ x = "mark" => WorkerGone(t)
                                  /\ \E k: Term(thr[t].a, k) \/ UNCHANGED prov
  BY DEF Check
<1>2. thr[t].pc = "check" /\ UNCHANGED <<files, wrk, cap, kids, restarts>>
  BY DEF Check
<1>3. PICK a \in Agents: a = thr[t].a
  BY <1>2, ThreadFacts DEF Handling
<1>4. x \in Pcs
  BY DEF Pcs
<1>5. PICK p \in ProviderState: prov' = [prov EXCEPT ![a] = p] /\ SameRun(p, prov[a])
  <2>1. CASE UNCHANGED prov
    <3>1. prov' = [prov EXCEPT ![a] = prov[a]] /\ SameRun(prov[a], prov[a]) /\ prov[a] \in ProviderState
      BY <2>1, AgentFacts, Types DEF AgentInv, Typed, SameRun
    <3> QED
      BY <3>1
  <2>2. ASSUME NEW k, Term(a, k) PROVE \E p \in ProviderState: prov' = [prov EXCEPT ![a] = p] /\ SameRun(p, prov[a])
    BY <2>2, TermStep
  <2> QED
    BY <1>1, <1>3, <2>1, <2>2
<1> DEFINE s == Placed(thr[t], x)
<1>6. Served(a, wrk[a], p, meta[a], result[a], kids[a], t, s)
  <2>1. thr' = [thr EXCEPT ![t] = s]
    BY <1>1, <1>4, Goes
  <2> QED
    BY <1>2, <1>5, <2>1, Types DEF AgentInv, Typed, Served, files
<1>7. /\ thr'[t] = s /\ s \in ThreadState /\ s.pc = x /\ s.op = thr[t].op /\ s.a = a /\ s.snap = thr[t].snap
      /\ s.ids = thr[t].ids /\ s.todo = thr[t].todo /\ \A u \in Threads \ {t}: thr'[u] = thr[u]
  BY <1>1, <1>3, <1>4, Goes, PlacedFields, ThreadFacts
<1> HIDE DEF s
<1>8. LoopInv'
  <2>1. CASE t = Loop
    BY <2>1, <1>2, <1>3, <1>7 DEF AgentInv, LoopInv, Handling, files
  <2>2. CASE t # Loop
    <3>1. thr'[Loop] = thr[Loop]
      BY <2>2, <1>7 DEF Threads
    <3> QED
      BY <3>1, <1>2, LoopStill DEF files
  <2> QED
    BY <2>1, <2>2
<1>9. ThreadInv(t)'
  <2>1. x = "mark" => thr[t].snap.status \in Live /\ ~Up(a)
    BY <1>1, <1>3 DEF WorkerGone, PidAlive
  <2>2. Known(a) /\ \A b \in thr[t].todo \cup thr[t].ids: Known(b)
    BY <1>2, <1>3, ThreadFacts DEF Handling
  <2> QED
    BY <1>2, <1>7, <2>1, <2>2 DEF ThreadInv, Known, Up, Handling
<1>10. AgentOK(wrk[a], p, cap[a], meta[a], result[a])
  BY <1>5, AgentFacts, SameRunKeeps DEF AgentOK
<1>11. meta[a].status = "cancelled" /\ meta[a].worker /\ kids[a] => ~RunsAs(wrk[a])
  BY DEF AgentInv, CancelledMeansStopped, Runs, Up, RunsAs, UpAs
<1>12. kids[a] \in BOOLEAN
  BY Types DEF AgentInv, Typed
<1>13. ServerOK(a, wrk[a], p, meta[a], result[a], kids[a])
  BY <1>10, <1>11, WorkerStill DEF ServerOK, Known
<1> QED
  BY <1>6, <1>7, <1>8, <1>9, <1>12, <1>13, AgentFacts, ServerTurn

LEMMA MarkKeeps ==
    ASSUME AgentInv, NEW t \in Threads, Mark(t) PROVE AgentInv'
<1>1. thr[t].pc = "mark" /\ UNCHANGED <<result, procs, restarts>> /\ thr[t] \in ThreadState
  BY ThreadFacts DEF Mark
<1>2. PICK a \in Agents: a = thr[t].a
  BY <1>1, ThreadFacts DEF Handling
<1>3. PICK m: m = [thr[t].snap EXCEPT !.status = "failed"]
  OBVIOUS
<1>4. m \in Meta /\ m.status = "failed"
  BY <1>1, <1>3 DEF ThreadState, Meta, Ended
<1>5. PICK s: s = [thr[t] EXCEPT !.pc = "act", !.snap = m]
  OBVIOUS
<1>6. s \in ThreadState /\ s.pc = "act" /\ s.snap = m /\ s.a = a /\ s.ids = thr[t].ids /\ s.todo = thr[t].todo
  BY <1>1, <1>2, <1>4, <1>5 DEF ThreadState
<1>7. thr' = [thr EXCEPT ![t] = s] /\ meta' = [meta EXCEPT ![a] = m]
  BY <1>1, <1>2, <1>3, <1>5, Types DEF AgentInv, Typed, Mark, Put
<1>8. Served(a, wrk[a], prov[a], m, result[a], kids[a], t, s)
  BY <1>1, <1>7, Types DEF AgentInv, Typed, Served, procs
<1>9. /\ thr'[t] = s /\ \A u \in Threads \ {t}: thr'[u] = thr[u]
      /\ meta'[a] = m /\ \A b \in Agents \ {a}: meta'[b] = meta[b]
  BY <1>6, <1>7, Types DEF AgentInv, Typed
<1>10. Known(a) /\ ~Up(a) /\ wrk[a].pc \in {"done", "dead"}
  BY <1>1, <1>2, ThreadFacts DEF ThreadInv, Handling, Known, Up
<1>11. LoopInv'
  <2>1. CASE t = Loop
    BY <2>1, <1>4, <1>6, <1>9 DEF LoopInv, Handling, Ended
  <2>2. CASE t # Loop
    <3>1. thr'[Loop] = thr[Loop]
      BY <2>2, <1>9 DEF Threads
    <3> QED
      BY <3>1, <1>1, <1>4, <1>9, <1>10, LoopStill DEF procs
  <2> QED
    BY <2>1, <2>2
<1>12. ThreadInv(t)'
  BY <1>1, <1>6, <1>9, <1>10, ThreadFacts DEF ThreadInv, Known, Handling, procs
<1>13. kids[a] \in BOOLEAN
  BY Types DEF AgentInv, Typed
<1>14. AgentOK(wrk[a], prov[a], cap[a], m, result[a])
  BY <1>4, <1>10, AgentFacts, PutOK DEF Verdicts
<1>15. ServerOK(a, wrk[a], prov[a], m, result[a], kids[a])
  BY <1>4, <1>14, WorkerStill DEF ServerOK, Known
<1> QED
  BY <1>4, <1>6, <1>8, <1>11, <1>12, <1>13, <1>15, AgentFacts, ServerTurn

\* The event loop goes on to the next point of its handler.
LEMMA WaitedKeeps ==
    ASSUME AgentInv, CancelWaited \/ CancelGivesUp PROVE AgentInv'
<1>1. Loop \in Threads /\ "write" \in Pcs
  BY DEF Threads, Pcs
<1>2. /\ thr[Loop].pc \in {"wait1", "wait2"} /\ Goto(Loop, "write") /\ UNCHANGED <<files, procs, restarts>>
      /\ thr[Loop].pc = "wait2" \/ ~Up(thr[Loop].a)
  BY DEF CancelWaited, CancelGivesUp
<1>3. PICK a \in Agents: a = thr[Loop].a
  BY <1>1, <1>2, ThreadFacts DEF Handling
<1> DEFINE s == Placed(thr[Loop], "write")
<1>4. /\ thr' = [thr EXCEPT ![Loop] = s] /\ thr'[Loop] = s /\ s \in ThreadState /\ s.pc = "write"
      /\ s.op = thr[Loop].op /\ s.a = a /\ s.snap = thr[Loop].snap /\ s.ids = thr[Loop].ids
      /\ s.todo = thr[Loop].todo
  BY <1>1, <1>2, <1>3, Goes, PlacedFields, ThreadFacts
<1> HIDE DEF s
<1>5. wrk' = wrk /\ meta' = meta /\ kids' = kids
  BY <1>2 DEF files, procs
<1>6. LoopInv'
  BY <1>2, <1>3, <1>4, <1>5 DEF AgentInv, LoopInv, Handling, Runs, Up
<1>7. ThreadInv(Loop)'
  BY <1>1, <1>2, <1>3, <1>4, <1>5, ThreadFacts DEF ThreadInv, Known, Handling
<1> QED
  BY <1>1, <1>2, <1>4, <1>6, <1>7, ThreadTurn

\* The handlers that answer and are over.
LEMMA OverKeeps ==
    ASSUME AgentInv, SpawnRefused \/ Answer \/ CancelFinished PROVE AgentInv'
<1>1. Finish(Loop) /\ UNCHANGED <<files, procs, restarts>> /\ thr[Loop].pc = "act"
  BY DEF SpawnRefused, Answer, CancelFinished, AtLoop
<1> QED
  BY <1>1, FinishTurn DEF Threads

LEMMA BeginKeeps ==
    ASSUME AgentInv, NEW op \in {"get", "cancel", "despawn", "retry", "message"}, NEW a \in Agents, Known(a),
           Begin(op, a)
    PROVE  AgentInv'
<1>1. Loop \in Threads /\ UNCHANGED <<files, procs, restarts>>
  BY DEF Threads, Begin
<1>2. CASE Exists(a)
  <2>1. PICK s: s = [Idle EXCEPT !.op = op, !.pc = "check", !.a = a, !.snap = meta[a]]
    OBVIOUS
  <2>2. meta[a] \in Meta
    BY AgentFacts
  <2>3. /\ s \in ThreadState /\ s.op = op /\ s.pc = "check" /\ s.a = a /\ s.snap = meta[a] /\ s.ids = {}
        /\ s.todo = {}
    BY <1>1, <2>1, <2>2, Constants DEF Idle, ThreadState
  <2>4. thr' = [thr EXCEPT ![Loop] = s]
    BY <2>1, <1>2 DEF Begin
  <2>5. thr'[Loop] = s /\ wrk' = wrk /\ meta' = meta /\ kids' = kids
    BY <1>1, <2>4, Types DEF AgentInv, Typed, procs, files
  <2>6. LoopInv'
    BY <2>3, <2>5 DEF LoopInv, Ended
  <2>7. ThreadInv(Loop)'
    BY <2>3, <2>5 DEF ThreadInv, Known
  <2> QED
    BY <1>1, <2>3, <2>4, <2>6, <2>7, ThreadTurn
<1>3. CASE ~Exists(a)
  BY <1>1, <1>3, FinishTurn DEF Begin
<1> QED
  BY <1>2, <1>3

-----------------------------------------------------------------------------
(* Cancel and despawn.                                                     *)

Signed(w, s) == [w EXCEPT !.sig = s]

LEMMA SignedFields ==
    ASSUME NEW w \in WorkerState, NEW s \in {"soft", "kill"}
    PROVE  /\ Signed(w, s) \in WorkerState
           /\ Signed(w, s).pc = w.pc /\ Signed(w, s).att = w.att /\ Signed(w, s).snap = w.snap
           /\ Signed(w, s).sig = s
BY DEF Signed, WorkerState

\* w after a signal, or without one.
Signalled(w, v) == w.pc = v.pc /\ w.att = v.att /\ w.snap = v.snap /\ Fades(v, w)

LEMMA SignalStep ==
    ASSUME AgentInv, NEW a \in Agents, NEW s \in {"soft", "kill"}, NEW b \in BOOLEAN,
           b => Up(a) /\ (s = "kill" \/ Runs(a)),
           wrk' = IF b THEN [wrk EXCEPT ![a].sig = s] ELSE wrk
    PROVE  \E w \in WorkerState: /\ wrk' = [wrk EXCEPT ![a] = w] /\ Signalled(w, wrk[a])
                                 /\ b /\ s = "kill" => ~RunsAs(w)
<1>1. wrk \in [Agents -> WorkerState] /\ wrk[a] \in WorkerState
  BY Types DEF AgentInv, Typed
<1>2. CASE b
  <2> DEFINE w == Signed(wrk[a], s)
  <2>1. wrk' = [wrk EXCEPT ![a] = w]
    BY <1>1, <1>2 DEF Signed
  <2>2. w \in WorkerState /\ w.pc = wrk[a].pc /\ w.att = wrk[a].att /\ w.snap = wrk[a].snap /\ w.sig = s
    BY <1>1, SignedFields
  <2> HIDE DEF w
  <2>3. Signalled(w, wrk[a]) /\ (s = "kill" => ~RunsAs(w))
    BY <1>2, <2>2 DEF Signalled, Fades, UpAs, RunsAs, Up, Runs
  <2> QED
    BY <2>1, <2>2, <2>3
<1>3. CASE ~b
  BY <1>1, <1>3 DEF Signalled, Fades
<1> QED
  BY <1>2, <1>3

LEMMA KillStep ==
    ASSUME AgentInv, NEW a \in Agents, NEW k \in Attempts, prov[a][k] \in Running,
           prov' = [prov EXCEPT ![a][k] = "bad"]
    PROVE  \E p \in ProviderState: prov' = [prov EXCEPT ![a] = p] /\ SameRun(p, prov[a])
<1> DEFINE p == With(prov[a], k, "bad")
<1>1. prov' = [prov EXCEPT ![a] = p]
  BY Types DEF AgentInv, Typed, With
<1>2. "bad" \in Life
  BY DEF Life
<1>3. p \in ProviderState /\ p[k] = "bad" /\ \A j \in Attempts \ {k}: p[j] = prov[a][j]
  BY <1>2, AgentFacts, WithFields
<1> HIDE DEF p
<1>4. SameRun(p, prov[a])
  BY <1>3 DEF SameRun, Running
<1> QED
  BY <1>1, <1>3, <1>4

\* A turn of cancel that sends signals and goes on.
LEMMA SignalTurn ==
    ASSUME AgentInv, NEW a \in Agents, a = thr[Loop].a, thr[Loop].op = "cancel", thr[Loop].snap.status \notin Ended,
           thr[Loop].pc \in {"act", "wait1"}, NEW x \in {"wait1", "wait2", "write"}, Goto(Loop, x),
           NEW w \in WorkerState, wrk' = [wrk EXCEPT ![a] = w], Signalled(w, wrk[a]),
           NEW p \in ProviderState, prov' = [prov EXCEPT ![a] = p], SameRun(p, prov[a]),
           UNCHANGED <<files, cap, kids, restarts>>,
           x = "wait2" /\ thr[Loop].snap.worker => ~RunsAs(w), x = "write" => ~kids[a]
    PROVE  AgentInv'
<1>1. Loop \in Threads /\ x \in Pcs
  BY DEF Threads, Pcs
<1> DEFINE s == Placed(thr[Loop], x)
<1>2. /\ thr' = [thr EXCEPT ![Loop] = s] /\ thr'[Loop] = s /\ s \in ThreadState /\ s.pc = x
      /\ s.op = thr[Loop].op /\ s.a = a /\ s.snap = thr[Loop].snap /\ s.ids = thr[Loop].ids
      /\ s.todo = thr[Loop].todo
  BY <1>1, Goes, PlacedFields, ThreadFacts
<1> HIDE DEF s
<1>3. wrk'[a] = w /\ prov'[a] = p /\ meta' = meta /\ result' = result /\ kids' = kids /\ kids[a] \in BOOLEAN
  BY Types DEF AgentInv, Typed, files
<1>4. Served(a, w, p, meta[a], result[a], kids[a], Loop, s)
  BY <1>2, <1>3, Types DEF AgentInv, Typed, Served
<1>5. meta[a].status # "cancelled"
  BY DEF AgentInv, LoopInv, Handling
<1>6. AgentOK(w, p, cap[a], meta[a], result[a])
  <2>1. AgentOK(wrk[a], p, cap[a], meta[a], result[a])
    BY AgentFacts, SameRunKeeps DEF AgentOK
  <2>2. AttemptInv(w, p) /\ CopiesLive(w, cap[a])
    BY <2>1 DEF AgentOK, AttemptInv, CopiesLive, Signalled
  <2>3. CopyInv(w, cap[a], meta[a])
    BY <2>1 DEF AgentOK, CopyInv, Signalled
  <2>4. ResultInv(w, p, cap[a], meta[a], result[a])
    BY <2>1 DEF AgentOK, ResultInv, Says, Signalled
  <2> QED
    BY <2>2, <2>3, <2>4 DEF AgentOK
<1>7. ServerOK(a, w, p, meta[a], result[a], kids[a])
  BY <1>5, <1>6 DEF ServerOK, Signalled, Known
<1>8. LoopInv'
  BY <1>2, <1>3, <1>5 DEF LoopInv, Runs, Up, RunsAs, UpAs
<1>9. ThreadInv(Loop)'
  <2>1. \A b \in Agents: wrk'[b].pc = wrk[b].pc
    BY <1>3, Types DEF AgentInv, Typed, Signalled
  <2>2. Known(a) /\ \A b \in thr[Loop].todo \cup thr[Loop].ids: b \in Agents /\ Known(b)
    BY <1>1, ThreadFacts DEF Handling
  <2>3. s.pc # "mark"
    BY <1>2
  <2> QED
    BY <1>2, <2>1, <2>2, <2>3 DEF ThreadInv, Known
<1> QED
  BY <1>1, <1>2, <1>3, <1>4, <1>7, <1>8, <1>9, AgentFacts, ServerTurn

LEMMA CancelSignalKeeps ==
    ASSUME AgentInv, NEW s \in {"soft", "kill"}, CancelSignal(s) PROVE AgentInv'
<1>1. /\ thr[Loop].pc = "act" /\ thr[Loop].op = "cancel" /\ thr[Loop].snap.status \notin Ended
      /\ UNCHANGED <<files, cap, kids, restarts>> /\ Loop \in Threads
  BY DEF CancelSignal, AtLoop, Threads
<1>2. PICK a \in Agents: a = thr[Loop].a
  BY <1>1, ThreadFacts DEF Handling
<1>3. PICK b \in BOOLEAN: b = (thr[Loop].snap.worker /\ Runs(a))
  OBVIOUS
<1>4. wrk' = IF b THEN [wrk EXCEPT ![a].sig = s] ELSE wrk
  BY <1>2, <1>3 DEF CancelSignal
<1>5. b => Up(a) /\ (s = "kill" \/ Runs(a))
  BY <1>3 DEF Runs
<1>6. PICK w \in WorkerState: wrk' = [wrk EXCEPT ![a] = w] /\ Signalled(w, wrk[a])
  BY <1>4, <1>5, SignalStep
<1>7. PICK k: k = thr[Loop].snap.provider
  OBVIOUS
<1>8. PICK p \in ProviderState: prov' = [prov EXCEPT ![a] = p] /\ SameRun(p, prov[a])
  <2>1. CASE s = "kill" /\ k \in Attempts /\ prov[a][k] \in Running
    <3>1. prov' = [prov EXCEPT ![a][k] = "bad"]
      BY <1>2, <1>7, <2>1 DEF CancelSignal
    <3> QED
      BY <2>1, <3>1, KillStep
  <2>2. CASE ~(s = "kill" /\ k \in Attempts /\ prov[a][k] \in Running)
    <3>1. Term(a, k)
      BY <1>2, <1>7, <2>2 DEF CancelSignal
    <3> QED
      BY <3>1, TermStep
  <2> QED
    BY <2>1, <2>2
<1>9. PICK x \in {"wait1", "wait2", "write"}: x = IF kids[a] THEN "wait1" ELSE "write"
  OBVIOUS
<1>10. Goto(Loop, x)
  BY <1>2, <1>9 DEF CancelSignal
<1> QED
  BY <1>1, <1>2, <1>6, <1>8, <1>9, <1>10, SignalTurn

LEMMA CancelEscalateKeeps ==
    ASSUME AgentInv, CancelEscalate PROVE AgentInv'
<1>1. /\ thr[Loop].pc = "wait1" /\ Goto(Loop, "wait2") /\ Loop \in Threads
      /\ UNCHANGED <<files, prov, cap, kids, restarts>>
      /\ thr[Loop].op = "cancel" /\ thr[Loop].snap.status \notin Ended
  BY DEF CancelEscalate, Threads, AgentInv, LoopInv
<1>2. PICK a \in Agents: a = thr[Loop].a
  BY <1>1, ThreadFacts DEF Handling
<1>3. PICK b \in BOOLEAN: b = thr[Loop].snap.worker
  BY <1>1, ThreadFacts DEF ThreadState, Meta
<1>4. wrk' = IF b THEN [wrk EXCEPT ![a].sig = "kill"] ELSE wrk
  BY <1>2, <1>3 DEF CancelEscalate
<1>5. b => Up(a)
  BY <1>2 DEF CancelEscalate
<1>6. PICK w \in WorkerState: wrk' = [wrk EXCEPT ![a] = w] /\ Signalled(w, wrk[a]) /\ (b => ~RunsAs(w))
  <2>1. PICK s \in {"soft", "kill"}: s = "kill"
    OBVIOUS
  <2>2. wrk' = IF b THEN [wrk EXCEPT ![a].sig = s] ELSE wrk
    BY <1>4, <2>1
  <2> QED
    BY <1>5, <2>1, <2>2, SignalStep
<1>7. prov' = [prov EXCEPT ![a] = prov[a]] /\ prov[a] \in ProviderState /\ SameRun(prov[a], prov[a])
  BY <1>1, Types DEF AgentInv, Typed, SameRun
<1>8. PICK x \in {"wait1", "wait2", "write"}: x = "wait2"
  OBVIOUS
<1>9. Goto(Loop, x) /\ (x = "wait2" /\ thr[Loop].snap.worker => ~RunsAs(w)) /\ (x = "write" => ~kids[a])
  BY <1>1, <1>3, <1>6, <1>8
<1> QED
  BY <1>1, <1>2, <1>6, <1>7, <1>9, SignalTurn

\* A handler that ends with a write: nothing is left to say of its thread.
LEMMA LastTurn ==
    ASSUME AgentInv, NEW a \in Agents, NEW w \in WorkerState, NEW m \in Meta, NEW r \in ResultState,
           a = thr[Loop].a, Finish(Loop),
           wrk' = [wrk EXCEPT ![a] = w], meta' = [meta EXCEPT ![a] = m], result' = [result EXCEPT ![a] = r],
           UNCHANGED <<prov, cap, kids, restarts>>,
           AgentOK(w, prov[a], cap[a], m, r),
           m.status = "cancelled" /\ m.worker /\ kids[a] => ~RunsAs(w),
           ~Known(a) \/ w = wrk[a], w.pc # "none" \/ w = wrk[a]
    PROVE  AgentInv'
<1>1. Loop \in Threads /\ Idle \in ThreadState
  BY Constants DEF Threads
<1>2. Idle.pc = "idle" /\ Idle.todo = {} /\ Idle.ids = {}
  BY DEF Idle
<1>3. thr' = [thr EXCEPT ![Loop] = Idle] /\ thr'[Loop] = Idle
  BY <1>1, Types DEF AgentInv, Typed, Finish
<1>4. kids[a] \in BOOLEAN
  BY Types DEF AgentInv, Typed
<1>5. Served(a, w, prov[a], m, r, kids[a], Loop, Idle)
  BY <1>3, Types DEF AgentInv, Typed, Served
<1>6. ServerOK(a, w, prov[a], m, r, kids[a])
  <2>1. ~Known(a) \/ Fades(wrk[a], w)
    BY WorkerStill
  <2>2. Known(a) => w.pc # "none"
    BY DEF Known
  <2> QED
    BY <2>1, <2>2 DEF ServerOK
<1>7. LoopInv' /\ ThreadInv(Loop)'
  BY <1>2, <1>3 DEF LoopInv, ThreadInv, Handling
<1> QED
  BY <1>1, <1>4, <1>5, <1>6, <1>7, AgentFacts, ServerTurn

LEMMA CancelWriteKeeps ==
    ASSUME AgentInv, CancelWrite PROVE AgentInv'
<1>1. thr[Loop].pc = "write" /\ Loop \in Threads /\ thr[Loop].snap \in Meta
  BY ThreadFacts DEF CancelWrite, Threads, ThreadState
<1>2. PICK a \in Agents: a = thr[Loop].a
  BY <1>1, ThreadFacts DEF Handling
<1>3. PICK m: m = [thr[Loop].snap EXCEPT !.status = "cancelled"]
  OBVIOUS
<1>4. m \in Meta /\ m.status = "cancelled" /\ m.worker = thr[Loop].snap.worker
  BY <1>1, <1>3 DEF Meta, Ended
<1>5. /\ Finish(Loop) /\ meta' = [meta EXCEPT ![a] = m] /\ wrk' = [wrk EXCEPT ![a] = wrk[a]]
      /\ result' = [result EXCEPT ![a] = result[a]] /\ UNCHANGED <<prov, cap, kids, restarts>>
  BY <1>2, <1>3, Types DEF AgentInv, Typed, CancelWrite, Put, procs
<1>6. m.worker /\ kids[a] => ~RunsAs(wrk[a])
  BY <1>1, <1>2, <1>4 DEF AgentInv, LoopInv, Runs, Up, RunsAs, UpAs
<1>7. AgentOK(wrk[a], prov[a], cap[a], m, result[a])
  BY <1>4, AgentFacts, PutOK DEF Verdicts
<1> QED
  BY <1>2, <1>4, <1>5, <1>6, <1>7, AgentFacts, LastTurn

LEMMA DespawnKeeps ==
    ASSUME AgentInv, Despawn PROVE AgentInv'
<1>1. thr[Loop].pc = "act" /\ Loop \in Threads /\ UNCHANGED <<procs, restarts>>
  BY DEF Despawn, AtLoop, Threads
<1>2. CASE thr[Loop].snap.status \in Ended
  <2>1. PICK a \in Agents: a = thr[Loop].a
    BY <1>1, ThreadFacts DEF Handling
  <2>2. PICK r \in ResultState: r = "absent"
    BY DEF ResultState
  <2>3. Absent \in Meta /\ Absent.status = "absent"
    BY Constants DEF Absent
  <2>4. /\ Finish(Loop) /\ meta' = [meta EXCEPT ![a] = Absent] /\ wrk' = [wrk EXCEPT ![a] = wrk[a]]
        /\ result' = [result EXCEPT ![a] = r] /\ UNCHANGED <<prov, cap, kids, restarts>>
    BY <1>1, <1>2, <2>1, <2>2, Types DEF AgentInv, Typed, Despawn, Put, procs
  <2>5. AgentOK(wrk[a], prov[a], cap[a], Absent, r)
    BY <2>2, <2>3, AgentFacts, PutOK DEF Verdicts
  <2> QED
    BY <2>1, <2>3, <2>4, <2>5, AgentFacts, LastTurn
<1>3. CASE thr[Loop].snap.status \notin Ended
  <2>1. Finish(Loop) /\ UNCHANGED files
    BY <1>3 DEF Despawn
  <2> QED
    BY <1>1, <2>1, FinishTurn
<1> QED
  BY <1>2, <1>3

-----------------------------------------------------------------------------
(* Spawn.                                                                  *)

LEMMA SpawnBeginKeeps ==
    ASSUME AgentInv, NEW a \in Agents, SpawnBegin(a) PROVE AgentInv'
<1>1. Loop \in Threads /\ wrk[a].pc = "none" /\ UNCHANGED <<procs, restarts>>
  BY DEF SpawnBegin, Fresh, Threads
<1>2. PICK m: m = [Absent EXCEPT !.status = "starting"]
  OBVIOUS
<1>3. m \in Meta /\ m.status = "starting"
  BY <1>2, Constants DEF Meta, Absent, Live
<1>4. PICK s: s = [Idle EXCEPT !.op = "spawn", !.pc = "popen", !.a = a, !.snap = m]
  OBVIOUS
<1>5. s \in ThreadState /\ s.op = "spawn" /\ s.pc = "popen" /\ s.a = a /\ s.ids = {} /\ s.todo = {}
  BY <1>3, <1>4, Constants DEF Idle, ThreadState
<1>6. PICK r \in ResultState: r = "empty"
  BY DEF ResultState
<1>7. Served(a, wrk[a], prov[a], m, r, kids[a], Loop, s)
  <2>1. meta' = [meta EXCEPT ![a] = m] /\ thr' = [thr EXCEPT ![Loop] = s] /\ result' = [result EXCEPT ![a] = r]
    BY <1>2, <1>4, <1>6 DEF SpawnBegin, Put
  <2> QED
    BY <1>1, <2>1, Types DEF AgentInv, Typed, Served, procs
<1>8. thr'[Loop] = s /\ meta'[a] = m /\ wrk' = wrk /\ kids[a] \in BOOLEAN
  BY <1>1, <1>7, Types DEF AgentInv, Typed, Served, procs
<1>9. s.pc \notin Handling
  BY <1>5 DEF Handling
<1>10. AgentOK(wrk[a], prov[a], cap[a], m, r)
  BY <1>1, <1>3, AgentFacts, PutOK DEF Verdicts
<1>11. ServerOK(a, wrk[a], prov[a], m, r, kids[a])
  BY <1>1, <1>3, <1>10 DEF ServerOK, Known
<1>12. LoopInv' /\ ThreadInv(Loop)'
  BY <1>1, <1>3, <1>5, <1>8, <1>9 DEF LoopInv, ThreadInv, Handling
<1> QED
  BY <1>1, <1>3, <1>5, <1>7, <1>8, <1>11, <1>12, AgentFacts, ServerTurn

\* The agent that is being spawned has no worker yet.
LEMMA PopenFacts ==
    ASSUME AgentInv, NEW a \in Agents, AtLoop("popen", "spawn"), thr[Loop].a = a
    PROVE  /\ Loop \in Threads /\ thr[Loop] \in ThreadState /\ thr[Loop].snap \in Meta
           /\ wrk[a].pc = "none" /\ wrk[a].att = 0 /\ meta[a].status = "starting" /\ ~Known(a)
           /\ wrk[a].snap.status # "cancelled" /\ AttemptInv(wrk[a], prov[a])
           /\ \A k \in Attempts: cap[a][k].pc = "off" /\ cap[a][k].snap.status \notin Ended
<1>1. Loop \in Threads
  BY DEF Threads
<1>2. thr[Loop] \in ThreadState
  BY <1>1, ThreadFacts
<1>3. wrk[a].pc = "none" /\ meta[a].status = "starting"
  BY DEF AgentInv, LoopInv, AtLoop
<1>4. /\ wrk[a].att = 0 /\ wrk[a].snap.status # "cancelled" /\ AttemptInv(wrk[a], prov[a])
      /\ \A k \in Attempts: cap[a][k].pc = "off" /\ cap[a][k].snap.status \notin Ended
  BY <1>3, AgentFacts DEF AttemptInv, CopiesLive, CopyInv
<1> QED
  BY <1>1, <1>2, <1>3, <1>4 DEF ThreadState, Known

LEMMA SpawnPopenKeeps ==
    ASSUME AgentInv, NEW a \in Agents, SpawnPopen(a) PROVE AgentInv'
<1>1. /\ AtLoop("popen", "spawn") /\ thr[Loop].a = a /\ Goto(Loop, "late") /\ UNCHANGED <<files, prov, cap, restarts>>
      /\ "late" \in Pcs /\ "boot" \in Going
  BY DEF SpawnPopen, Pcs, Going
<1> DEFINE w == Moved(wrk[a], "boot")
           s == Placed(thr[Loop], "late")
<1>2. /\ w \in WorkerState /\ w.pc = "boot" /\ w.att = wrk[a].att /\ w.snap = wrk[a].snap
  BY <1>1, AgentFacts, MovedFields
<1>3. /\ s \in ThreadState /\ s.pc = "late" /\ s.op = "spawn" /\ s.a = a /\ s.ids = thr[Loop].ids
      /\ s.todo = thr[Loop].todo /\ thr' = [thr EXCEPT ![Loop] = s] /\ thr'[Loop] = s
  BY <1>1, Goes, PlacedFields, PopenFacts DEF AtLoop
<1>4. Served(a, w, prov[a], meta[a], result[a], TRUE, Loop, s)
  BY <1>1, <1>3, Types DEF AgentInv, Typed, Served, SpawnPopen, Moved, files
<1> HIDE DEF w, s
<1>5. wrk'[a] = w /\ meta' = meta /\ \A b \in Agents \ {a}: wrk'[b] = wrk[b]
  BY <1>1, <1>4, Types DEF AgentInv, Typed, Served, files
<1>6. AgentOK(w, prov[a], cap[a], meta[a], result[a])
  <2>1. AttemptInv(w, prov[a])
    BY <1>1, <1>2, PopenFacts DEF AttemptInv, Past
  <2>2. CopiesLive(w, cap[a])
    BY <1>2, AgentFacts DEF CopiesLive
  <2>3. CopyInv(w, cap[a], meta[a])
    BY <1>1, <1>2, PopenFacts DEF CopyInv, Ended
  <2>4. ResultInv(w, prov[a], cap[a], meta[a], result[a])
    BY <1>1, <1>2, PopenFacts DEF ResultInv, Says, Verdicts, Ended
  <2> QED
    BY <2>1, <2>2, <2>3, <2>4 DEF AgentOK
<1>7. ServerOK(a, w, prov[a], meta[a], result[a], TRUE)
  BY <1>1, <1>2, <1>6, PopenFacts DEF ServerOK
<1>8. LoopInv'
  BY <1>1, <1>2, <1>3, <1>5, PopenFacts DEF LoopInv, Handling, Known
<1>9. ThreadInv(Loop)'
  <2>1. \A b \in thr[Loop].todo \cup thr[Loop].ids: b \in Agents /\ Known(b)
    BY <1>1, PopenFacts, ThreadFacts
  <2> QED
    BY <1>2, <1>3, <1>5, <2>1 DEF ThreadInv, Handling, Known
<1>10. Loop \in Threads
  BY DEF Threads
<1> QED
  BY <1>2, <1>3, <1>4, <1>7, <1>8, <1>9, <1>10, AgentFacts, ServerTurn

LEMMA SpawnFailsKeeps ==
    ASSUME AgentInv, NEW a \in Agents, SpawnFails(a) PROVE AgentInv'
<1>1. AtLoop("popen", "spawn") /\ thr[Loop].a = a /\ Finish(Loop) /\ UNCHANGED <<result, prov, cap, kids, restarts>>
  BY DEF SpawnFails
<1>2. PICK m: m = [thr[Loop].snap EXCEPT !.status = "failed"]
  OBVIOUS
<1>3. m \in Meta /\ m.status = "failed"
  BY <1>1, <1>2, PopenFacts DEF Meta, Ended
<1>4. PICK w: w = [wrk[a] EXCEPT !.pc = "dead"]
  OBVIOUS
<1>5. w \in WorkerState /\ w.pc = "dead" /\ w.att = wrk[a].att /\ w.snap = wrk[a].snap
  BY <1>4, AgentFacts DEF WorkerState
<1>6. wrk' = [wrk EXCEPT ![a] = w] /\ meta' = [meta EXCEPT ![a] = m] /\ result' = [result EXCEPT ![a] = result[a]]
  BY <1>1, <1>2, <1>4, Types DEF AgentInv, Typed, SpawnFails, Put
<1>7. AgentOK(w, prov[a], cap[a], m, result[a])
  <2>1. AttemptInv(w, prov[a])
    BY <1>1, <1>5, PopenFacts DEF AttemptInv, Past
  <2>2. CopiesLive(w, cap[a])
    BY <1>5, AgentFacts DEF CopiesLive
  <2>3. CopyInv(w, cap[a], m)
    BY <1>1, <1>5, PopenFacts DEF CopyInv
  <2>4. ResultInv(w, prov[a], cap[a], m, result[a])
    BY <1>1, <1>3, <1>5, PopenFacts DEF ResultInv, Says, Verdicts, Ended
  <2> QED
    BY <2>1, <2>2, <2>3, <2>4 DEF AgentOK
<1>8. w.pc # "none" /\ ~Known(a) /\ m.status # "cancelled"
  BY <1>1, <1>3, <1>5, PopenFacts
<1> QED
  BY <1>1, <1>3, <1>5, <1>6, <1>7, <1>8, AgentFacts, LastTurn

LEMMA SpawnLateKeeps ==
    ASSUME AgentInv, NEW a \in Agents, SpawnLate(a) PROVE AgentInv'
<1>1. /\ Late(a) /\ thr[Loop].a = a /\ Finish(Loop) /\ UNCHANGED <<result, procs, restarts>> /\ Loop \in Threads
  BY DEF SpawnLate, AtLoop, Late, Threads
<1>2. PICK m: m = [thr[Loop].snap EXCEPT !.status = "running", !.worker = TRUE]
  OBVIOUS
<1>3. m \in Meta /\ m.status = "running"
  <2>1. thr[Loop].snap \in Meta
    BY <1>1, ThreadFacts DEF ThreadState
  <2> QED
    BY <1>2, <2>1 DEF Meta, Live
<1>4. /\ wrk' = [wrk EXCEPT ![a] = wrk[a]] /\ meta' = [meta EXCEPT ![a] = m]
      /\ result' = [result EXCEPT ![a] = result[a]] /\ UNCHANGED <<prov, cap, kids, restarts>>
  BY <1>1, <1>2, Types DEF AgentInv, Typed, SpawnLate, Put, procs
<1>5. AgentOK(wrk[a], prov[a], cap[a], m, result[a])
  BY <1>3, AgentFacts, PutOK DEF Verdicts
<1> QED
  BY <1>1, <1>3, <1>4, <1>5, AgentFacts, LastTurn

-----------------------------------------------------------------------------
(* The rest: the reaping of a worker, the restart of the server, the       *)
(* initial states.                                                         *)

LEMMA ReapKeeps ==
    ASSUME AgentInv, NEW a \in Agents, Reap(a) PROVE AgentInv'
<1>1. /\ ~Up(a) /\ kids' = [kids EXCEPT ![a] = FALSE] /\ meta' = meta /\ result' = result /\ wrk' = wrk
      /\ prov' = prov /\ cap' = cap /\ thr' = thr /\ restarts' = restarts
  BY DEF Reap, files
<1>2. Typed
  BY Types DEF AgentInv
<1>3. TypeOK'
  BY <1>1, <1>2, Types DEF Typed
<1>4. \A b \in Agents: kids'[b] => kids[b]
  BY <1>1, <1>2 DEF Typed
<1>5. \A b \in Agents: AgentOK(wrk[b], prov[b], cap[b], meta[b], result[b])'
  BY <1>1, AgentFacts DEF AgentOK
<1>6. \A t \in Threads: ThreadInv(t)'
  BY <1>1 DEF AgentInv, ThreadInv, Known, Up
<1>7. LoopInv'
  <2>1. thr[Loop].pc \in Handling \cup SpawnPcs => thr[Loop].a \in Agents
    BY ThreadFacts DEF Threads
  <2> QED
    BY <1>1, <1>4, <2>1 DEF AgentInv, LoopInv, Runs, Up, Handling, SpawnPcs, Known
<1>8. CancelledMeansStopped'
  BY <1>1, <1>4 DEF AgentInv, CancelledMeansStopped, Runs, Up
<1> QED
  BY <1>3, <1>5, <1>6, <1>7, <1>8 DEF AgentInv, AgentOK

LEMMA StoppedFields ==
    ASSUME NEW w \in WorkerState
    PROVE  /\ Stopped(w) \in WorkerState /\ ~UpAs(Stopped(w)) /\ Stopped(w).att = w.att
           /\ Stopped(w).snap \in {w.snap, Absent}
           /\ Stopped(w).pc = IF UpAs(w) THEN "dead" ELSE w.pc
<1>1. CASE UpAs(w)
  <2>1. Stopped(w) = Left(w, "dead")
    BY <1>1 DEF Stopped, Left, UpAs
  <2>2. "dead" \in {"done", "dead"}
    OBVIOUS
  <2> QED
    BY <1>1, <2>1, <2>2, LeftFields DEF UpAs
<1>2. CASE ~UpAs(w)
  BY <1>2 DEF Stopped, UpAs
<1> QED
  BY <1>1, <1>2

Shot(p) == [k \in Attempts |-> IF p[k] \in Running THEN "bad" ELSE p[k]]

LEMMA ShotFields ==
    ASSUME NEW p \in ProviderState
    PROVE  Shot(p) \in ProviderState /\ SameRun(Shot(p), p)
BY DEF Shot, ProviderState, Life, SameRun, Running

\* An agent whose processes are all killed.
LEMMA StoppedOK ==
    ASSUME NEW w \in WorkerState, NEW p \in ProviderState, NEW c \in CaptureState, NEW m \in Meta, NEW r \in ResultState,
           AgentOK(w, p, c, m, r)
    PROVE  AgentOK(Stopped(w), Shot(p), NoCaptures, m, r)
<1> DEFINE v == Stopped(w)
           q == Shot(p)
<1>1. /\ v.att = w.att /\ v.snap \in {w.snap, Absent} /\ v.pc = IF UpAs(w) THEN "dead" ELSE w.pc
      /\ v.pc \in {"none", "done", "dead"}
  BY StoppedFields DEF UpAs
<1>2. \A k \in Attempts: NoCaptures[k].pc = "off" /\ NoCaptures[k].snap = Absent
  BY DEF NoCaptures, NoCapture
<1>3. AgentOK(w, q, c, m, r)
  BY ShotFields, SameRunKeeps DEF AgentOK
<1> HIDE DEF v, q
<1>4. AttemptInv(v, q)
  BY <1>1, <1>3 DEF AgentOK, AttemptInv, Past
<1>5. CopiesLive(v, NoCaptures)
  BY <1>1, <1>2, <1>3 DEF AgentOK, CopiesLive, Absent
<1>6. CopyInv(v, NoCaptures, m)
  BY <1>1, <1>2 DEF CopyInv, Absent, Ended
<1>7. ResultInv(v, q, NoCaptures, m, r)
  <2>1. ASSUME NEW S \in {Verdicts, {"completed"}}, Says(v, NoCaptures, m, S) PROVE Says(w, c, m, S)
    BY <1>1, <1>2, <2>1 DEF Says, Verdicts, Absent
  <2> QED
    BY <1>3, <2>1 DEF AgentOK, ResultInv
<1> QED
  BY <1>4, <1>5, <1>6, <1>7 DEF AgentOK, v, q

\* After a restart the server begins anew.
LEMMA RestartKeeps ==
    ASSUME AgentInv, Restart PROVE AgentInv'
<1>1. Typed
  BY Types DEF AgentInv
<1>2. /\ thr' = [t \in Threads |-> Idle] /\ kids' = [a \in Agents |-> FALSE] /\ meta' = meta /\ result' = result
      /\ restarts' \in 0..MaxRestarts
  BY <1>1 DEF Restart, files, Typed
<1>3. ASSUME NEW a \in Agents
      PROVE  \/ wrk'[a] = Stopped(wrk[a]) /\ cap'[a] = NoCaptures /\ prov'[a] = Shot(prov[a])
             \/ wrk'[a] = wrk[a] /\ cap'[a] = cap[a] /\ prov'[a] = prov[a]
  <2>1. CASE CgroupKill
    BY <1>2, <2>1 DEF Restart, Shot, NoCaptures
  <2>2. CASE ~CgroupKill
    BY <1>2, <2>2 DEF Restart
  <2> QED
    BY <2>1, <2>2
<1>4. /\ thr' \in [Threads -> ThreadState] /\ kids' \in [Agents -> BOOLEAN]
      /\ \A t \in Threads: thr'[t] = Idle
  BY <1>2, Constants
<1>5. ASSUME NEW a \in Agents
      PROVE  /\ wrk'[a] \in WorkerState /\ prov'[a] \in ProviderState /\ cap'[a] \in CaptureState
             /\ AgentOK(wrk'[a], prov'[a], cap'[a], meta[a], result[a])
  <2>1. CASE wrk'[a] = wrk[a] /\ cap'[a] = cap[a] /\ prov'[a] = prov[a]
    BY <2>1, AgentFacts
  <2>2. CASE wrk'[a] = Stopped(wrk[a]) /\ cap'[a] = NoCaptures /\ prov'[a] = Shot(prov[a])
    <3>1. NoCaptures \in CaptureState
      BY Constants DEF NoCaptures
    <3> QED
      BY <2>2, <3>1, AgentFacts, StoppedOK, StoppedFields, ShotFields
  <2> QED
    BY <1>3, <2>1, <2>2
<1>6. TypeOK'
  <2>1. wrk' \in [Agents -> WorkerState] /\ prov' \in [Agents -> ProviderState] /\ cap' \in [Agents -> CaptureState]
    <3>1. /\ \E f: wrk' = [a \in Agents |-> f[a]]
          /\ \E f: prov' = [a \in Agents |-> f[a]]
          /\ \E f: cap' = [a \in Agents |-> f[a]]
      BY <1>1 DEF Restart, Typed
    <3> QED
      BY <1>5, <3>1
  <2> QED
    BY <1>1, <1>2, <1>4, <2>1, Types DEF Typed
<1>7. Idle.pc = "idle" /\ Idle.todo = {} /\ Idle.ids = {} /\ Loop \in Threads
  BY DEF Idle, Threads
<1>8. LoopInv' /\ \A t \in Threads: ThreadInv(t)'
  BY <1>4, <1>7 DEF LoopInv, ThreadInv, Handling
<1>9. CancelledMeansStopped'
  BY <1>2 DEF CancelledMeansStopped
<1> QED
  BY <1>2, <1>5, <1>6, <1>8, <1>9 DEF AgentInv, AgentOK

LEMMA InitHolds == Init => AgentInv
<1> SUFFICES ASSUME Init PROVE AgentInv
  OBVIOUS
<1> USE DEF Init
<1>1. TypeOK
  <2>1. restarts \in 0..MaxRestarts
    OBVIOUS
  <2>2. \A a \in Agents: /\ [k \in Attempts |-> NoCapture] \in CaptureState
                         /\ [k \in Attempts |-> "none"] \in ProviderState
    BY Constants
  <2>3. cap \in [Agents -> CaptureState] /\ prov \in [Agents -> ProviderState]
    BY <2>2
  <2>4. meta \in [Agents -> Meta] /\ result \in [Agents -> ResultState] /\ wrk \in [Agents -> WorkerState]
        /\ kids \in [Agents -> BOOLEAN] /\ thr \in [Threads -> ThreadState]
    BY Constants DEF ResultState
  <2> QED
    BY <2>1, <2>3, <2>4, Types DEF Typed
<1>2. ASSUME NEW a \in Agents
      PROVE  /\ wrk[a].pc = "none" /\ wrk[a].att = 0 /\ wrk[a].snap = Absent
             /\ meta[a].status = "absent" /\ meta[a].worker = FALSE /\ kids[a] = FALSE
             /\ \A k \in Attempts: prov[a][k] = "none" /\ cap[a][k].pc = "off" /\ cap[a][k].snap = Absent
  BY DEF NoWorker, NoCapture, Absent
<1>3. ASSUME NEW a \in Agents PROVE AgentOK(wrk[a], prov[a], cap[a], meta[a], result[a])
  <2>1. ASSUME NEW k \in Attempts PROVE ~(k < wrk[a].att) /\ k # wrk[a].att
    <3>1. wrk[a].att = 0
      BY <1>2
    <3>2. ~(k < 0) /\ k # 0
      BY DEF Attempts
    <3> QED
      BY <3>1, <3>2
  <2>2. AttemptInv(wrk[a], prov[a])
    BY <1>2, <2>1 DEF AttemptInv
  <2>3. Absent.status = "absent"
    BY DEF Absent
  <2>4. CopiesLive(wrk[a], cap[a]) /\ CopyInv(wrk[a], cap[a], meta[a])
    <3>1. wrk[a].pc = "none" /\ wrk[a].snap.status = "absent" /\ meta[a].status = "absent"
      BY <1>2, <2>3
    <3>2. \A k \in Attempts: cap[a][k].pc = "off" /\ cap[a][k].snap.status = "absent"
      BY <1>2, <2>3
    <3>3. CopiesLive(wrk[a], cap[a])
      BY <3>1, <3>2 DEF CopiesLive
    <3> QED
      BY <3>1, <3>2, <3>3 DEF CopyInv, Ended
  <2>5. ResultInv(wrk[a], prov[a], cap[a], meta[a], result[a])
    BY <1>2, <2>3 DEF ResultInv, Says, Verdicts
  <2> QED
    BY <2>2, <2>4, <2>5 DEF AgentOK
<1>4. /\ \A t \in Threads: thr[t] = Idle
      /\ Loop \in Threads /\ Idle.pc = "idle" /\ Idle.todo = {} /\ Idle.ids = {}
  BY DEF Threads, Idle
<1>5. LoopInv /\ \A t \in Threads: ThreadInv(t)
  BY <1>4 DEF LoopInv, ThreadInv, Handling
<1>6. CancelledMeansStopped
  BY <1>2 DEF CancelledMeansStopped
<1> QED
  BY <1>1, <1>3, <1>5, <1>6 DEF AgentInv, AgentOK

-----------------------------------------------------------------------------
(* The inductive invariant, and what follows from it in each state.        *)

LEMMA WorkerKeeps ==
    ASSUME AgentInv, NEW a \in Agents, Worker(a) PROVE AgentInv'
<1>1. UNCHANGED <<kids, thr, restarts>>
  BY DEF Worker, WorkerGoesOn, WorkerErrs
<1>2. CASE WorkerErrs(a)
  BY <1>1, <1>2, RaisesKeeps, UnwatchedKeeps, EndKeeps DEF WorkerErrs
<1>3. CASE WorkerGoesOn(a)
  BY <1>1, <1>3, BootKeeps, HelloKeeps, TopKeeps, RetryKeeps, PopenKeeps, LookKeeps, DrainKeeps, RecordKeeps,
     StopKeeps, KillKeeps, SeesExitKeeps, JoinKeeps, AfterKeeps, ExceptKeeps, FinishKeeps, ResultKeeps, FinalKeeps,
     EndKeeps DEF WorkerGoesOn
<1> QED
  BY <1>2, <1>3 DEF Worker

LEMMA BackgroundKeeps == ASSUME AgentInv, Background PROVE AgentInv'
<1>1. ASSUME NEW a \in Agents, Worker(a) \/ Reap(a) PROVE AgentInv'
  BY <1>1, WorkerKeeps, ReapKeeps
<1>2. ASSUME NEW a \in Agents, NEW k \in Attempts, Capture(a, k) \/ ProviderExit(a, k) PROVE AgentInv'
  BY <1>2, CaptureStepKeeps, ProviderExitKeeps
<1>3. ASSUME NEW t \in Waiters, NEW S \in SUBSET Agents, WaitCall(t, S) PROVE AgentInv'
  BY <1>3, WaitCallKeeps
<1>4. ASSUME NEW t \in Waiters, NEW a \in Agents, WaitRead(t, a) PROVE AgentInv'
  BY <1>4, WaitReadKeeps
<1>5. ASSUME NEW t \in Waiters, Check(t) \/ Mark(t) \/ WaitNext(t) \/ WaitReturn(t) \/ WaitAgain(t) PROVE AgentInv'
  BY <1>5, CheckKeeps, MarkKeeps, WaitNextKeeps, WaitReturnKeeps, WaitAgainKeeps DEF Threads
<1> QED
  BY <1>1, <1>2, <1>3, <1>4, <1>5 DEF Background

LEMMA HandlerKeeps == ASSUME AgentInv, Handler PROVE AgentInv'
<1>1. ASSUME NEW a \in Agents, Respawn(a) \/ SpawnPopen(a) \/ SpawnFails(a) \/ SpawnLate(a) PROVE AgentInv'
  BY <1>1, SpawnBeginKeeps, SpawnPopenKeeps, SpawnFailsKeeps, SpawnLateKeeps DEF Respawn
<1>2. CASE Check(Loop) \/ Mark(Loop)
  BY <1>2, CheckKeeps, MarkKeeps DEF Threads
<1>3. CASE SpawnRefused \/ Answer \/ CancelFinished
  BY <1>3, OverKeeps
<1>4. ASSUME NEW s \in {"soft", "kill"}, CancelSignal(s) PROVE AgentInv'
  BY <1>4, CancelSignalKeeps
<1>5. CASE CancelWaited \/ CancelGivesUp
  BY <1>5, WaitedKeeps
<1>6. CASE CancelEscalate \/ CancelWrite \/ Despawn
  BY <1>6, CancelEscalateKeeps, CancelWriteKeeps, DespawnKeeps
<1> QED
  BY <1>1, <1>2, <1>3, <1>4, <1>5, <1>6 DEF Handler

LEMMA CallsKeep == ASSUME AgentInv, Calls PROVE AgentInv'
<1>1. ASSUME NEW a \in Agents, SpawnAgent(a) PROVE AgentInv'
  BY <1>1, SpawnBeginKeeps DEF SpawnAgent
<1>2. ASSUME NEW a \in Agents, NEW op \in Ops, Call(op, a) PROVE AgentInv'
  BY <1>2, BeginKeeps DEF Call
<1> QED
  BY <1>1, <1>2 DEF Calls

LEMMA StutterKeeps == ASSUME AgentInv, UNCHANGED vars PROVE AgentInv'
<1>1. /\ meta' = meta /\ result' = result /\ wrk' = wrk /\ prov' = prov /\ cap' = cap /\ kids' = kids
      /\ thr' = thr /\ restarts' = restarts
  BY DEF vars
<1>2. TypeOK'
  BY <1>1, Types DEF AgentInv, Typed
<1>3. \A a \in Agents: AgentOK(wrk[a], prov[a], cap[a], meta[a], result[a])'
  BY <1>1, AgentFacts DEF AgentOK
<1>4. (\A t \in Threads: ThreadInv(t)') /\ LoopInv' /\ CancelledMeansStopped'
  BY <1>1 DEF AgentInv, ThreadInv, LoopInv, CancelledMeansStopped, Runs, Up, Known
<1> QED
  BY <1>2, <1>3, <1>4 DEF AgentInv, AgentOK

LEMMA StepKeeps == AgentInv /\ [Next]_vars => AgentInv'
BY BackgroundKeeps, HandlerKeeps, CallsKeep, RestartKeeps, StutterKeeps DEF Next

\* What each copy of meta.json, each worker, provider and thread may be, in every reachable state.
THEOREM Invariance == Spec => []AgentInv
BY InitHolds, StepKeeps, PTL DEF Spec

\* An attempt begins only when the providers of the earlier ones are gone, whatever races.
THEOREM AttemptsInTurn == Spec => []OneAttemptAtATime
<1>1. AgentInv => OneAttemptAtATime
  <2> SUFFICES ASSUME AgentInv, NEW a \in Agents, NEW j \in Attempts, NEW k \in Attempts, j < k,
                      prov[a][k] # "none"
               PROVE  prov[a][j] \in {"ok", "bad"}
    BY DEF OneAttemptAtATime
  <2>1. AttemptInv(wrk[a], prov[a]) /\ wrk[a].att \in Nat /\ j \in Nat /\ k \in Nat
    BY AgentFacts DEF WorkerState, Attempts
  <2>2. ~(k > wrk[a].att)
    BY <2>1 DEF AttemptInv
  <2>3. j < wrk[a].att
    BY <2>1, <2>2
  <2> QED
    BY <2>1, <2>3 DEF AttemptInv
<1> QED
  BY <1>1, Invariance, PTL

\* Behind "cancelled" no worker runs that is on record and that the server still holds, whatever races.
THEOREM CancelStops == Spec => []CancelledMeansStopped
<1>1. AgentInv => CancelledMeansStopped
  BY DEF AgentInv
<1> QED
  BY <1>1, Invariance, PTL

\* Behind a verdict no provider of any attempt runs, whatever fails, races or is killed.
THEOREM NoneLeftRunning == Spec => []NoOrphanBehindResult
<1>1. AgentInv => NoOrphanBehindResult
  <2> SUFFICES ASSUME AgentInv, NEW a \in Agents, meta[a].status \in Verdicts, NEW k \in Attempts
               PROVE  prov[a][k] \notin Running
    BY DEF NoOrphanBehindResult
  <2> QED
    BY AgentFacts DEF ResultInv, Says
<1> QED
  BY <1>1, Invariance, PTL

\* "completed" is on disk only when the result is, whatever fails, races or is killed.
THEOREM CompletedIsWritten == Spec => []CompletedHasResult
<1>1. AgentInv => CompletedHasResult
  <2> SUFFICES ASSUME AgentInv, NEW a \in Agents, meta[a].status = "completed", HasPrompt(a)
               PROVE  result[a] = "final"
    BY DEF CompletedHasResult
  <2> QED
    BY AgentFacts DEF ResultInv, Says, HasPrompt, ResultState
<1> QED
  BY <1>1, Invariance, PTL

-----------------------------------------------------------------------------
(* What a step may do to an agent.                                         *)

\* What says that it has ended, or that it is not there, comes to say that it lives by a race only.
\* Nothing forgets an agent, only its spawn puts the prompt files there, and who removes meta.json
\* removes them.
Kept(a) ==
    /\ Known(a) /\ meta[a].status \in Ended \cup {"absent"} /\ meta'[a].status \in Live => UndoRace(a)
    /\ Known(a) => Known(a)' /\ (HasPrompt(a)' => HasPrompt(a))
    /\ (HasPrompt(a) => Exists(a)) => (HasPrompt(a)' => Exists(a)')

Writing == {"hello", "retry", "record", "final"}

\* A step of a worker, without what becomes of the worker itself.
Aims(a) ==
    /\ \A b \in Agents \ {a}: wrk'[b] = wrk[b] /\ meta'[b] = meta[b] /\ result'[b] = result[b]
    /\ meta' = meta \/ (Runs(a) /\ wrk[a].pc \in Writing /\ meta'[a] = wrk[a].snap)
    /\ HasPrompt(a)' => HasPrompt(a)

LEMMA WorkerAims ==
    ASSUME Typed, NEW a \in Agents, Worker(a) PROVE Aims(a)
<1> USE DEF Aims, Typed, At, Runs, Up, Move, Hold, Flush, Leave, Put, HasPrompt, files, Writing
<1>1. CASE WorkerBoot(a) \/ WorkerTop(a) \/ WorkerLook(a)
  BY <1>1 DEF WorkerBoot, WorkerTop, WorkerLook
<1>2. CASE WorkerHello(a) \/ WorkerRetry(a) \/ WorkerRecord(a) \/ WorkerFinal(a) \/ WorkerUnwatched(a)
  BY <1>2 DEF WorkerHello, WorkerRetry, WorkerRecord, WorkerFinal, WorkerUnwatched
<1>3. CASE WorkerPopen(a) \/ WorkerRaises(a) \/ WorkerDrain(a)
  BY <1>3 DEF WorkerPopen, WorkerRaises, WorkerDrain
<1>4. ASSUME NEW why \in Limits \cup {"cancelled"}, WorkerStop(a, why) PROVE Aims(a)
  BY <1>4 DEF WorkerStop
<1>5. CASE WorkerKill(a) \/ WorkerSeesExit(a) \/ WorkerJoin(a) \/ WorkerAfter(a)
  BY <1>5 DEF WorkerKill, WorkerSeesExit, WorkerJoin, WorkerAfter
<1>6. CASE WorkerExcept(a) \/ WorkerFinish(a) \/ WorkerResult(a)
  BY <1>6 DEF WorkerExcept, WorkerFinish, WorkerResult
<1>7. CASE WorkerExit(a) \/ WorkerDies(a) \/ WorkerCrashes(a)
  BY <1>7 DEF WorkerExit, WorkerDies, WorkerCrashes
<1> QED
  BY <1>1, <1>2, <1>3, <1>4, <1>5, <1>6, <1>7 DEF Worker, WorkerGoesOn, WorkerErrs

LEMMA WorkerStays ==
    ASSUME Typed, NEW a \in Agents, Worker(a) PROVE wrk'[a].pc # "none"
<1>1. wrk \in [Agents -> WorkerState] /\ wrk[a] \in WorkerState
  BY DEF Typed
<1>2. ASSUME NEW x, x # "none", Move(a, x) PROVE wrk'[a].pc # "none"
  BY <1>1, <1>2 DEF Move, WorkerState
<1>3. ASSUME NEW x, NEW m, x # "none", Hold(a, x, m) PROVE wrk'[a].pc # "none"
  BY <1>1, <1>3 DEF Hold, WorkerState
<1>4. ASSUME NEW x, x # "none", Flush(a, x) PROVE wrk'[a].pc # "none"
  BY <1>1, <1>4 DEF Flush, WorkerState
<1>5. ASSUME NEW x, x # "none", Leave(a, x) PROVE wrk'[a].pc # "none"
  BY <1>1, <1>5 DEF Leave, WorkerState
<1>6. CASE WorkerBoot(a) \/ WorkerTop(a) \/ WorkerLook(a) \/ WorkerRaises(a)
  BY <1>2, <1>3, <1>5, <1>6 DEF WorkerBoot, WorkerTop, WorkerLook, WorkerRaises
<1>7. CASE WorkerHello(a) \/ WorkerRetry(a) \/ WorkerRecord(a) \/ WorkerUnwatched(a)
  BY <1>4, <1>7 DEF WorkerHello, WorkerRetry, WorkerRecord, WorkerUnwatched
<1>8. CASE WorkerFinal(a)
  BY <1>1, <1>8 DEF WorkerFinal, WorkerState
<1>9. CASE WorkerPopen(a)
  <2>1. CASE Exists(a)
    <3>1. PICK k: wrk' = [wrk EXCEPT ![a].pc = "look", ![a].att = k, ![a].stop = "none"]
      BY <1>9, <2>1 DEF WorkerPopen
    <3> QED
      BY <1>1, <3>1 DEF WorkerState
  <2>2. CASE ~Exists(a)
    BY <1>2, <1>9, <2>2 DEF WorkerPopen
  <2> QED
    BY <2>1, <2>2
<1>10. CASE WorkerDrain(a) \/ WorkerKill(a) \/ WorkerSeesExit(a) \/ WorkerJoin(a)
  BY <1>2, <1>5, <1>10 DEF WorkerDrain, WorkerKill, WorkerSeesExit, WorkerJoin
<1>11. ASSUME NEW why \in Limits \cup {"cancelled"}, WorkerStop(a, why) PROVE wrk'[a].pc # "none"
  <2>1. CASE Exists(a)
    BY <1>1, <1>11, <2>1 DEF WorkerStop, WorkerState
  <2>2. CASE ~Exists(a)
    BY <1>2, <1>11, <2>2 DEF WorkerStop
  <2> QED
    BY <2>1, <2>2
<1>12. CASE WorkerAfter(a)
  <2>1. PICK x \in {"except", "finish", "top"}: Move(a, x) \/ Leave(a, "done")
    BY <1>12 DEF WorkerAfter
  <2> QED
    BY <1>2, <1>5, <2>1
<1>13. CASE WorkerExcept(a) \/ WorkerFinish(a) \/ WorkerResult(a)
  BY <1>2, <1>3, <1>5, <1>13 DEF WorkerExcept, WorkerFinish, WorkerResult
<1>14. CASE WorkerExit(a) \/ WorkerDies(a) \/ WorkerCrashes(a)
  BY <1>5, <1>14 DEF WorkerExit, WorkerDies, WorkerCrashes
<1> QED
  BY <1>6, <1>7, <1>8, <1>9, <1>10, <1>11, <1>12, <1>13, <1>14 DEF Worker, WorkerGoesOn, WorkerErrs

\* Where an early end can only be a cancel's, a copy that is live comes back by a race.
LEMMA CopyRaces ==
    ASSUME AgentInv, NEW a \in Agents, Runs(a), wrk[a].pc # "exit", meta[a].status \in Ended \cup {"absent"}
    PROVE  UndoRace(a)
<1>1. wrk[a].pc \notin {"none", "exit", "done", "dead"}
  BY DEF Runs, Up
<1>2. meta[a].status \in {"cancelled", "absent"}
  BY <1>1, AgentFacts DEF CopyInv
<1>3. meta[a].status = "cancelled" => ~(meta[a].worker /\ kids[a])
  BY DEF AgentInv, CancelledMeansStopped
<1> QED
  BY <1>2, <1>3 DEF UndoRace

\* A step that leaves the workers alone, and writes what is not live if it writes.
LEMMA QuietKept ==
    ASSUME NEW a \in Agents, wrk'[a].pc = wrk[a].pc,
           \/ result'[a] = result[a] /\ (meta'[a] = meta[a] \/ meta'[a].status \in Ended)
           \/ meta'[a].status = "absent" /\ result'[a] = "absent"
    PROVE  Kept(a)
BY DEF Kept, Known, HasPrompt, Exists, Ended, Live

LEMMA WorkerKept ==
    ASSUME AgentInv, NEW b \in Agents, Worker(b), NEW a \in Agents PROVE Kept(a)
<1>1. Aims(b) /\ wrk'[b].pc # "none"
  BY Types, WorkerAims, WorkerStays DEF AgentInv
<1>2. CASE a # b
  BY <1>1, <1>2, QuietKept DEF Aims
<1>3. CASE a = b
  <2>1. CASE meta'[a] = meta[a]
    BY <1>1, <1>3, <2>1 DEF Kept, Aims, Known, Exists, Ended, Live
  <2>2. CASE meta'[a] # meta[a]
    <3>1. Runs(a) /\ wrk[a].pc \in Writing /\ meta'[a] = wrk[a].snap
      BY <1>1, <1>3, <2>2 DEF Aims
    <3>2. meta'[a].status \in Live \cup Ended
      BY <3>1, AgentFacts DEF CopyInv, Writing
    <3>3. Exists(a)' /\ wrk[a].pc # "exit"
      BY <3>1, <3>2 DEF Exists, Live, Ended, Writing
    <3> QED
      BY <1>1, <1>3, <3>1, <3>3, CopyRaces DEF Kept, Aims, Known
  <2> QED
    BY <2>1, <2>2
<1> QED
  BY <1>2, <1>3

LEMMA CaptureKept ==
    ASSUME AgentInv, NEW b \in Agents, NEW k \in Attempts, Capture(b, k) \/ ProviderExit(b, k), NEW a \in Agents
    PROVE  Kept(a)
<1>1. Typed
  BY Types DEF AgentInv
<1>2. wrk' = wrk /\ result' = result
  BY DEF Capture, EventRead, EventWrite, CaptureEnd, CaptureFails, ProviderExit, files
<1>3. CASE EventWrite(b, k) /\ a = b
  <2>1. Runs(a) /\ cap[a][k].pc = "write" /\ meta'[a] = cap[a][k].snap
    BY <1>1, <1>3 DEF EventWrite, Put, Typed
  <2>2. Exists(a)'
    BY <2>1, AgentFacts DEF CopyInv, Exists
  <2>3. meta[a].status \in Ended \cup {"absent"} => UndoRace(a)
    <3>1. CASE wrk[a].pc = "exit"
      BY <2>1, <3>1 DEF UndoRace
    <3> QED
      BY <2>1, <3>1, CopyRaces
  <2> QED
    BY <1>2, <2>2, <2>3 DEF Kept, Known, HasPrompt
<1>4. CASE ~(EventWrite(b, k) /\ a = b)
  <2>1. meta'[a] = meta[a]
    BY <1>1, <1>4 DEF Typed, Capture, EventRead, EventWrite, CaptureEnd, CaptureFails, ProviderExit, Put, files
  <2> QED
    BY <1>2, <2>1, QuietKept
<1> QED
  BY <1>3, <1>4

\* Marking writes "failed", and the rest of a wait writes nothing.
LEMMA CheckKept ==
    ASSUME AgentInv, NEW t \in Threads, Check(t) \/ Mark(t), NEW a \in Agents PROVE Kept(a)
<1>1. Typed /\ thr[t] \in ThreadState
  BY Types DEF AgentInv, Typed
<1>2. wrk' = wrk /\ result' = result
  BY DEF Check, Mark, files, procs
<1>3. meta'[a] = meta[a] \/ meta'[a].status \in Ended
  <2>1. CASE Check(t)
    BY <2>1 DEF Check, files
  <2>2. CASE Mark(t)
    <3>1. PICK m: m = [thr[t].snap EXCEPT !.status = "failed"]
      OBVIOUS
    <3>2. m.status = "failed"
      BY <1>1, <3>1 DEF ThreadState, Meta
    <3>3. meta' = [meta EXCEPT ![thr[t].a] = m]
      BY <2>2, <3>1 DEF Mark, Put
    <3>4. meta'[a] = meta[a] \/ meta'[a] = m
      BY <1>1, <3>3 DEF Typed
    <3> QED
      BY <3>2, <3>4 DEF Ended
  <2> QED
    BY <2>1, <2>2
<1> QED
  BY <1>2, <1>3, QuietKept

LEMMA WaitKept ==
    ASSUME AgentInv, NEW t \in Waiters, NEW S \in SUBSET Agents, NEW b \in Agents, NEW a \in Agents,
           WaitCall(t, S) \/ WaitRead(t, b) \/ WaitNext(t) \/ WaitReturn(t) \/ WaitAgain(t)
    PROVE  Kept(a)
<1>1. meta' = meta /\ result' = result /\ wrk' = wrk
  BY DEF WaitCall, WaitRead, WaitNext, WaitReturn, WaitAgain, files, procs
<1> QED
  BY <1>1, QuietKept

LEMMA SignalKept ==
    ASSUME AgentInv, NEW s \in {"soft", "kill"}, CancelSignal(s) \/ CancelWaited \/ CancelEscalate \/ CancelGivesUp,
           NEW a \in Agents
    PROVE  Kept(a)
<1>1. Typed
  BY Types DEF AgentInv
<1>2. meta' = meta /\ result' = result
  BY DEF CancelSignal, CancelWaited, CancelEscalate, CancelGivesUp, files
<1>3. wrk'[a].pc = wrk[a].pc
  BY <1>1 DEF Typed, WorkerState, CancelSignal, CancelWaited, CancelEscalate, CancelGivesUp, procs
<1> QED
  BY <1>2, <1>3, QuietKept

\* The handlers that end here.
LEMMA OverKept ==
    ASSUME AgentInv, SpawnRefused \/ Answer \/ CancelFinished \/ CancelWrite \/ Despawn, NEW a \in Agents
    PROVE  Kept(a)
<1>1. Typed /\ Loop \in Threads
  BY Types DEF AgentInv, Threads
<1>2. wrk' = wrk
  BY DEF SpawnRefused, Answer, CancelFinished, CancelWrite, Despawn, procs
<1>3. \/ result'[a] = result[a] /\ (meta'[a] = meta[a] \/ meta'[a].status \in Ended)
      \/ meta'[a].status = "absent" /\ result'[a] = "absent"
  <2>1. CASE SpawnRefused \/ Answer \/ CancelFinished
    BY <2>1 DEF SpawnRefused, Answer, CancelFinished, files
  <2>2. CASE CancelWrite
    <3>1. PICK m: m = [thr[Loop].snap EXCEPT !.status = "cancelled"]
      OBVIOUS
    <3>2. m.status = "cancelled"
      BY <1>1, <3>1 DEF Typed, ThreadState, Meta
    <3>3. meta' = [meta EXCEPT ![thr[Loop].a] = m]
      BY <2>2, <3>1 DEF CancelWrite, Put
    <3>4. meta'[a] = meta[a] \/ meta'[a] = m
      BY <1>1, <3>3 DEF Typed
    <3> QED
      BY <2>2, <3>2, <3>4 DEF Ended, CancelWrite
  <2>3. CASE Despawn
    BY <1>1, <2>3 DEF Despawn, Put, Typed, Absent, files
  <2> QED
    BY <2>1, <2>2, <2>3
<1> QED
  BY <1>2, <1>3, QuietKept

LEMMA SpawnKept ==
    ASSUME AgentInv, NEW b \in Agents, SpawnBegin(b) \/ SpawnPopen(b) \/ SpawnFails(b) \/ SpawnLate(b), NEW a \in Agents
    PROVE  Kept(a)
<1>1. Typed /\ Loop \in Threads /\ thr \in [Threads -> ThreadState]
  BY Types DEF AgentInv, Typed, Threads
<1>2. CASE SpawnBegin(b)
  <2>1. wrk' = wrk
    BY <1>2 DEF SpawnBegin, procs
  <2>2. CASE a # b
    <3>1. meta'[a] = meta[a] /\ result'[a] = result[a]
      BY <1>1, <1>2, <2>2 DEF SpawnBegin, Put, Typed
    <3> QED
      BY <2>1, <3>1, QuietKept
  <2>3. CASE a = b
    <3>1. ~Known(a)
      BY <1>2, <2>3 DEF SpawnBegin, Fresh, Known
    <3>2. Exists(a)'
      BY <1>1, <1>2, <2>3 DEF SpawnBegin, Put, Typed, Absent, Exists
    <3> QED
      BY <3>1, <3>2 DEF Kept
  <2> QED
    BY <2>2, <2>3
<1>3. CASE SpawnPopen(b)
  <2>1. wrk[b].pc = "none"
    BY <1>3, PopenFacts DEF SpawnPopen
  <2>2. meta' = meta /\ result' = result /\ (a # b => wrk'[a] = wrk[a])
    BY <1>1, <1>3, <2>1 DEF SpawnPopen, Typed, files
  <2> QED
    BY <2>1, <2>2 DEF Kept, Known, HasPrompt, Exists, Live, Ended
<1>4. CASE SpawnFails(b)
  <2>1. wrk[b].pc = "none" /\ thr[Loop].snap \in Meta
    BY <1>4, PopenFacts DEF SpawnFails
  <2>2. PICK m: m = [thr[Loop].snap EXCEPT !.status = "failed"]
    OBVIOUS
  <2>3. m.status = "failed"
    BY <2>1, <2>2 DEF Meta
  <2>4. meta' = [meta EXCEPT ![b] = m] /\ (a # b => wrk'[a] = wrk[a]) /\ result' = result
    BY <1>1, <1>4, <2>2 DEF SpawnFails, Put, Typed
  <2>5. meta'[a] = meta[a] \/ meta'[a] = m
    BY <1>1, <2>4 DEF Typed
  <2> QED
    BY <2>1, <2>3, <2>4, <2>5 DEF Kept, Known, HasPrompt, Exists, Live, Ended
<1>5. CASE SpawnLate(b)
  <2>1. Late(b) /\ wrk' = wrk /\ result' = result /\ (a # b => meta'[a] = meta[a])
    BY <1>1, <1>5 DEF SpawnLate, AtLoop, Late, Put, Typed, procs
  <2>2. a = b => Exists(a)'
    <3>1. PICK m: m = [thr[Loop].snap EXCEPT !.status = "running", !.worker = TRUE]
      OBVIOUS
    <3>2. m.status = "running"
      BY <1>1, <3>1 DEF ThreadState, Meta
    <3>3. a = b => meta'[a] = m
      BY <1>1, <1>5, <3>1 DEF SpawnLate, Put, Typed
    <3> QED
      BY <3>2, <3>3 DEF Exists
  <2>3. a = b /\ meta[a].status \in Ended \cup {"absent"} => UndoRace(a)
    BY <2>1 DEF AgentInv, LoopInv, Late, UndoRace, Ended
  <2> QED
    BY <2>1, <2>2, <2>3 DEF Kept, Known, HasPrompt, Exists, Live, Ended
<1> QED
  BY <1>2, <1>3, <1>4, <1>5

LEMMA BeginKept ==
    ASSUME AgentInv, NEW op, NEW b \in Agents, Begin(op, b), NEW a \in Agents PROVE Kept(a)
<1>1. meta' = meta /\ wrk' = wrk /\ result' = result
  BY DEF Begin, files, procs
<1> QED
  BY <1>1, QuietKept

LEMMA RestartKept ==
    ASSUME AgentInv, Restart, NEW a \in Agents PROVE Kept(a)
<1>1. meta' = meta /\ result' = result
  BY DEF Restart, files
<1>2. wrk[a].pc # "none" => wrk'[a].pc # "none"
  <2>1. wrk'[a] = wrk[a] \/ wrk'[a] = Stopped(wrk[a])
    BY DEF Restart
  <2>2. Stopped(wrk[a]).pc = IF UpAs(wrk[a]) THEN "dead" ELSE wrk[a].pc
    BY AgentFacts, StoppedFields
  <2> QED
    BY <2>1, <2>2
<1> QED
  BY <1>1, <1>2 DEF Kept, Known, HasPrompt, Exists, Ended, Live

LEMMA StepKept ==
    ASSUME AgentInv, [Next]_vars, NEW a \in Agents PROVE Kept(a)
<1>1. CASE UNCHANGED vars
  <2>1. meta' = meta /\ wrk' = wrk /\ result' = result
    BY <1>1 DEF vars
  <2> QED
    BY <2>1, QuietKept
<1>2. CASE Background
  <2>1. ASSUME NEW b \in Agents, Reap(b) PROVE Kept(a)
    <3>1. meta' = meta /\ wrk' = wrk /\ result' = result
      BY <2>1 DEF Reap, files
    <3> QED
      BY <3>1, QuietKept
  <2>2. ASSUME NEW t \in Waiters, NEW S \in SUBSET Agents, WaitCall(t, S) PROVE Kept(a)
    BY <2>2, WaitKept
  <2>3. ASSUME NEW t \in Waiters, NEW b \in Agents, WaitRead(t, b) PROVE Kept(a)
    <3>1. {} \in SUBSET Agents
      OBVIOUS
    <3> QED
      BY <2>3, <3>1, WaitKept
  <2>4. ASSUME NEW t \in Waiters, Check(t) \/ Mark(t) \/ WaitNext(t) \/ WaitReturn(t) \/ WaitAgain(t)
        PROVE  Kept(a)
    <3>1. {} \in SUBSET Agents /\ t \in Threads
      BY DEF Threads
    <3> QED
      BY <2>4, <3>1, CheckKept, WaitKept
  <2> QED
    BY <1>2, <2>1, <2>2, <2>3, <2>4, WorkerKept, CaptureKept DEF Background
<1>3. CASE Handler
  <2>1. ASSUME NEW b \in Agents, Respawn(b) \/ SpawnPopen(b) \/ SpawnFails(b) \/ SpawnLate(b) PROVE Kept(a)
    BY <2>1, SpawnKept DEF Respawn
  <2>2. ASSUME NEW s \in {"soft", "kill"}, CancelSignal(s) PROVE Kept(a)
    BY <2>2, SignalKept
  <2>3. CASE CancelWaited \/ CancelEscalate \/ CancelGivesUp
    <3>1. "soft" \in {"soft", "kill"}
      OBVIOUS
    <3> QED
      BY <2>3, <3>1, SignalKept
  <2>4. Loop \in Threads
    BY DEF Threads
  <2> QED
    BY <1>3, <2>1, <2>2, <2>3, <2>4, CheckKept, OverKept DEF Handler
<1>4. CASE Calls
  BY <1>4, SpawnKept, BeginKept DEF Calls, SpawnAgent, Call
<1>5. CASE Restart
  BY <1>5, RestartKept
<1> QED
  BY <1>1, <1>2, <1>3, <1>4, <1>5 DEF Next

\* An end on disk gives way by one of three races only, whatever the switches allow.
THEOREM OnlyRacesUndoEnds == Spec => OnlyRacesUndo
<1>1. AgentInv /\ [Next]_vars =>
          \A a \in Agents:
             Known(a) /\ meta[a].status \in Ended \cup {"absent"} /\ meta'[a].status \in Live => UndoRace(a)
  BY StepKept DEF Kept
<1> QED
  BY <1>1, Invariance, PTL DEF Spec, OnlyRacesUndo

-----------------------------------------------------------------------------
(* AgentTeams: what a step of the composition is to the agents.             *)

USE TeamsAssumption, SizesAssumption

ChildOps == {"get", "cancel", "despawn"}

AgentMoves ==
    \/ [Next]_vars
    \/ thr[Loop].pc = "idle" /\ \E a \in Agents: SpawnBegin(a)
    \/ \E op \in ChildOps, a \in Agents: Known(a) /\ Begin(op, a)

\* With what becomes of the history.
TeamMoves == AgentMoves /\ Revives

LEMMA MovesKeep == ASSUME AgentInv, AgentMoves PROVE AgentInv'
BY StepKeeps, SpawnBeginKeeps, BeginKeeps DEF AgentMoves, ChildOps

LEMMA MovesKept == ASSUME AgentInv, AgentMoves, NEW a \in Agents PROVE Kept(a)
BY StepKept, SpawnKept, BeginKept DEF AgentMoves

\* What has ended, and what has been removed, stays so, unless the history tells.
LEMMA StaysKnown ==
    ASSUME AgentInv, TeamMoves, NEW a \in Agents, Known(a)
    PROVE  Known(a)' /\ (~HasPrompt(a) => ~HasPrompt(a)') /\ (RestsOver(a) => RestsOver(a)')
<1>1. Known(a)' /\ (~HasPrompt(a) => ~HasPrompt(a)')
  BY MovesKept DEF Kept, TeamMoves
<1>2. RestsOver(a) => RestsOver(a)'
  BY DEF TeamMoves, Revives, RestsOver, IsOver
<1> QED
  BY <1>1, <1>2

LEMMA History == ASSUME [TeamNext]_tvars PROVE Revives
<1>1. CASE TeamNext
  BY <1>1 DEF TeamNext
<1>2. CASE UNCHANGED tvars
  BY <1>2 DEF tvars, vars, files, Revives, IsOver
<1> QED
  BY <1>1, <1>2

LEMMA Grows ==
    ASSUME TeamMoves PROVE revived \subseteq revived' /\ (revived \subseteq Agents => revived' \subseteq Agents)
BY DEF TeamMoves, Revives

\* The loop.
Onward ==
    /\ thr'[Loop].pc \in Handling /\ thr'[Loop].op = thr[Loop].op /\ thr'[Loop].a = thr[Loop].a
    /\ \/ thr'[Loop].snap = thr[Loop].snap /\ meta' = meta
       \/ thr'[Loop].snap.status = "failed" /\ meta'[thr[Loop].a].status = "failed"

LEMMA LoopFacts ==
    ASSUME AgentInv
    PROVE  /\ Loop \in Threads /\ thr \in [Threads -> ThreadState] /\ thr[Loop] \in ThreadState
           /\ thr[Loop].pc \in Handling \cup {"popen", "late"} => thr[Loop].a \in Agents
           /\ thr[Loop].snap \in Meta /\ meta \in [Agents -> Meta]
<1>1. Loop \in Threads
  BY DEF Threads
<1>2. Typed
  BY Types DEF AgentInv
<1> QED
  BY <1>1, <1>2 DEF AgentInv, ThreadInv, Typed, ThreadState

LEMMA GoesOn ==
    ASSUME AgentInv, Check(Loop) \/ Mark(Loop) \/ (\E s \in {"soft", "kill"}: CancelSignal(s)) \/ CancelWaited
                     \/ CancelEscalate \/ CancelGivesUp
    PROVE  Onward
<1>1. CASE ~Mark(Loop)
  <2>1. PICK x \in {"mark", "act", "wait1", "wait2", "write"}: Goto(Loop, x)
    BY <1>1 DEF Check, CancelSignal, CancelWaited, CancelEscalate, CancelGivesUp
  <2>2. x \in Pcs /\ x \in Handling
    BY DEF Pcs, Handling
  <2>3. meta' = meta
    BY <1>1 DEF Check, CancelSignal, CancelWaited, CancelEscalate, CancelGivesUp, files
  <2> QED
    BY <2>1, <2>2, <2>3, Goes, LoopFacts DEF Onward
<1>2. CASE Mark(Loop)
  <2>1. thr[Loop].a \in Agents
    BY <1>2, LoopFacts DEF Mark, Handling
  <2>2. PICK m: m = [thr[Loop].snap EXCEPT !.status = "failed"]
    OBVIOUS
  <2>3. m.status = "failed"
    BY <2>2, LoopFacts DEF Meta
  <2>4. meta'[thr[Loop].a] = m
    BY <1>2, <2>1, <2>2, LoopFacts DEF Mark, Put
  <2>5. PICK s: s = [thr[Loop] EXCEPT !.pc = "act", !.snap = m]
    OBVIOUS
  <2>6. s.pc = "act" /\ s.snap = m /\ s.op = thr[Loop].op /\ s.a = thr[Loop].a
    BY <2>5, LoopFacts DEF ThreadState
  <2>7. thr'[Loop] = s
    BY <1>2, <2>2, <2>5, LoopFacts DEF Mark
  <2> QED
    BY <2>3, <2>4, <2>6, <2>7 DEF Onward, Handling
<1> QED
  BY <1>1, <1>2

LEMMA Finishes ==
    ASSUME AgentInv, Finish(Loop) PROVE thr'[Loop] = Idle /\ thr'[Loop].pc = "idle"
BY LoopFacts DEF Finish, Idle

LEMMA BeginsSpawn ==
    ASSUME AgentInv, NEW a \in Agents, SpawnBegin(a)
    PROVE  thr'[Loop].pc = "popen" /\ thr'[Loop].op = "spawn" /\ thr'[Loop].a = a /\ Fresh(a)
<1>1. PICK s: s = [Idle EXCEPT !.op = "spawn", !.pc = "popen", !.a = a,
                               !.snap = [Absent EXCEPT !.status = "starting"]]
  OBVIOUS
<1>2. s.pc = "popen" /\ s.op = "spawn" /\ s.a = a
  BY <1>1 DEF Idle
<1>3. thr'[Loop] = s
  BY <1>1, LoopFacts DEF SpawnBegin
<1> QED
  BY <1>2, <1>3 DEF SpawnBegin

LEMMA BeginsCall ==
    ASSUME AgentInv, NEW op, NEW a \in Agents, Begin(op, a)
    PROVE  /\ Exists(a) => /\ thr'[Loop].pc = "check" /\ thr'[Loop].op = op /\ thr'[Loop].a = a
                           /\ thr'[Loop].snap = meta[a]
           /\ ~Exists(a) => thr'[Loop].pc = "idle"
           /\ meta' = meta /\ result' = result
<1>1. PICK s: s = [Idle EXCEPT !.op = op, !.pc = "check", !.a = a, !.snap = meta[a]]
  OBVIOUS
<1>2. s.pc = "check" /\ s.op = op /\ s.a = a /\ s.snap = meta[a]
  BY <1>1 DEF Idle
<1>3. Exists(a) => thr'[Loop] = s
  BY <1>1, LoopFacts DEF Begin
<1>4. ~Exists(a) => thr'[Loop].pc = "idle"
  BY Finishes DEF Begin
<1> QED
  BY <1>2, <1>3, <1>4 DEF Begin, files

\* A step of the handler ends it, begins or continues a spawn, or goes on.
LEMMA HandlerTurns ==
    ASSUME AgentInv, Handler
    PROVE  thr'[Loop].pc \notin Handling \/ (thr[Loop].pc \in Handling /\ Onward)
<1>1. ASSUME NEW a \in Agents, Respawn(a) \/ SpawnPopen(a) \/ SpawnFails(a) \/ SpawnLate(a)
      PROVE  thr'[Loop].pc \notin Handling
  <2>1. CASE Respawn(a)
    BY <1>1, <2>1, BeginsSpawn DEF Respawn, Handling
  <2>2. CASE SpawnPopen(a)
    BY <1>1, <2>2, LoopFacts, Goes DEF SpawnPopen, Pcs, Handling
  <2>3. CASE SpawnFails(a) \/ SpawnLate(a)
    BY <1>1, <2>3, Finishes DEF SpawnFails, SpawnLate, Handling
  <2> QED
    BY <1>1, <2>1, <2>2, <2>3
<1>2. CASE SpawnRefused \/ Answer \/ CancelFinished \/ CancelWrite \/ Despawn
  <2>1. Finish(Loop)
    BY <1>2 DEF SpawnRefused, Answer, CancelFinished, CancelWrite, Despawn
  <2> QED
    BY <2>1, Finishes DEF Handling
<1>3. CASE Check(Loop) \/ Mark(Loop) \/ (\E s \in {"soft", "kill"}: CancelSignal(s)) \/ CancelWaited
           \/ CancelEscalate \/ CancelGivesUp
  <2>1. thr[Loop].pc \in Handling
    BY <1>3 DEF Check, Mark, CancelSignal, CancelWaited, CancelEscalate, CancelGivesUp, AtLoop, Handling
  <2> QED
    BY <1>3, <2>1, GoesOn
<1> QED
  BY <1>1, <1>2, <1>3 DEF Handler

\* What goes on beside the loop leaves the loop alone.
LEMMA BackgroundBeside ==
    ASSUME AgentInv, Background PROVE thr'[Loop] = thr[Loop]
<1>1. Loop \in Threads /\ thr \in [Threads -> ThreadState]
  BY LoopFacts
<1>2. ASSUME NEW t \in Waiters, Check(t) \/ Mark(t) \/ WaitNext(t) \/ WaitReturn(t) \/ WaitAgain(t)
      PROVE  thr'[Loop] = thr[Loop]
  BY <1>1, <1>2 DEF Check, Mark, Goto, WaitNext, WaitReturn, WaitAgain, Finish
<1>3. ASSUME NEW t \in Waiters, NEW S \in SUBSET Agents, WaitCall(t, S) PROVE thr'[Loop] = thr[Loop]
  BY <1>1, <1>3 DEF WaitCall
<1>4. ASSUME NEW t \in Waiters, NEW a \in Agents, WaitRead(t, a) PROVE thr'[Loop] = thr[Loop]
  BY <1>1, <1>4 DEF WaitRead, Finish
<1>5. ASSUME NEW a \in Agents, Worker(a) \/ Reap(a) PROVE thr' = thr
  BY <1>5 DEF Worker, WorkerGoesOn, WorkerErrs, Reap
<1>6. ASSUME NEW a \in Agents, NEW k \in Attempts, Capture(a, k) \/ ProviderExit(a, k) PROVE thr' = thr
  BY <1>6 DEF Capture, EventRead, EventWrite, CaptureEnd, CaptureFails, ProviderExit
<1> QED
  BY <1>2, <1>3, <1>4, <1>5, <1>6 DEF Background

\* Where the loop may be after a step.
LEMMA LoopMoves ==
    ASSUME AgentInv, AgentMoves
    PROVE  \/ thr'[Loop] = thr[Loop]
           \/ thr'[Loop].pc \notin Handling
           \/ thr[Loop].pc \in Handling /\ Onward
           \/ meta' = meta /\ thr'[Loop].a \in Agents /\ thr'[Loop].snap = meta[thr'[Loop].a]
<1>1. ASSUME NEW a \in Agents, SpawnBegin(a) PROVE thr'[Loop].pc \notin Handling
  BY <1>1, BeginsSpawn DEF Handling
<1>2. ASSUME NEW op, NEW a \in Agents, Begin(op, a)
      PROVE  \/ thr'[Loop].pc \notin Handling
             \/ meta' = meta /\ thr'[Loop].a \in Agents /\ thr'[Loop].snap = meta[thr'[Loop].a]
  BY <1>2, BeginsCall DEF Handling
<1>3. CASE Calls
  BY <1>1, <1>2, <1>3 DEF Calls, SpawnAgent, Call
<1>4. CASE Restart
  <2>1. thr'[Loop] = Idle
    BY <1>4, LoopFacts DEF Restart
  <2> QED
    BY <2>1 DEF Idle, Handling
<1>5. CASE UNCHANGED vars
  BY <1>5 DEF vars
<1>6. CASE Handler
  BY <1>6, HandlerTurns
<1>7. CASE Background
  BY <1>7, BackgroundBeside
<1> QED
  BY <1>1, <1>2, <1>3, <1>4, <1>5, <1>6, <1>7 DEF AgentMoves, Next

\* The first two parts of EndsInv.
EndsRead ==
    /\ \A a \in Agents: HasPrompt(a) => Exists(a)
    /\ thr[Loop].pc \in Handling /\ thr[Loop].snap.status \in Ended => RestsOver(thr[Loop].a)

LEMMA EndsReadKept ==
    ASSUME AgentInv, TeamMoves, EndsRead PROVE EndsRead'
<1>1. ASSUME NEW a \in Agents, HasPrompt(a)' PROVE Exists(a)'
  BY <1>1, MovesKept DEF Kept, EndsRead, TeamMoves
<1>2. ASSUME thr'[Loop].pc \in Handling, thr'[Loop].snap.status \in Ended PROVE RestsOver(thr[Loop].a)'
  <2>1. CASE thr'[Loop] = thr[Loop]
    <3>1. RestsOver(thr[Loop].a) /\ thr[Loop].a \in Agents
      BY <1>2, <2>1, LoopFacts DEF EndsRead
    <3>2. Known(thr[Loop].a)
      BY <1>2, <2>1, LoopFacts DEF AgentInv, ThreadInv
    <3>3. \A a \in Agents: Known(a) /\ RestsOver(a)
                             => meta'[a].status \in Ended \cup {"absent"} \/ a \in revived'
      BY StaysKnown DEF RestsOver, IsOver
    <3> QED
      BY <2>1, <3>1, <3>2, <3>3 DEF RestsOver, IsOver
  <2>2. CASE thr[Loop].pc \in Handling /\ Onward
    <3>1. CASE thr'[Loop].snap = thr[Loop].snap /\ meta' = meta
      BY <1>2, <2>2, <3>1, Grows DEF EndsRead, Onward, RestsOver, IsOver
    <3>2. CASE meta'[thr[Loop].a].status = "failed"
      BY <2>2, <3>2 DEF Onward, RestsOver, IsOver, Ended
    <3> QED
      BY <2>2, <3>1, <3>2 DEF Onward
  <2>3. CASE meta' = meta /\ thr'[Loop].a \in Agents /\ thr'[Loop].snap = meta[thr'[Loop].a]
    BY <1>2, <2>3 DEF RestsOver, IsOver
  <2> QED
    BY <1>2, <2>1, <2>2, <2>3, LoopMoves DEF TeamMoves
<1> QED
  BY <1>1, <1>2 DEF EndsRead

-----------------------------------------------------------------------------
(* The files of the teams.                                                 *)

TeamsInv == team \in [Teams -> TeamState] /\ revived \subseteq Agents /\ FilesInv /\ TeamsDisjoint /\ EndsInv

LEMMA SameTeams ==
    ASSUME AgentInv, TeamMoves, TeamsInv, team' = team PROVE TeamsInv'
<1>1. FilesInv' /\ TeamsDisjoint'
  BY StaysKnown DEF TeamsInv, FilesInv, TeamsDisjoint, TeamState
<1>2. EndsInv'
  <2>1. EndsRead'
    BY EndsReadKept DEF EndsRead, EndsInv, TeamsInv
  <2>2. \A a \in Agents: Known(a) /\ RestsOver(a) => RestsOver(a)'
    BY StaysKnown
  <2>3. ASSUME NEW x \in Teams, team'[x].error PROVE Over(x)'
    <3>1. Over(x) /\ team[x].ids \subseteq Agents /\ \A a \in team[x].ids: Known(a)
      BY <2>3 DEF TeamsInv, EndsInv, FilesInv, TeamState
    <3> QED
      BY <2>2, <3>1 DEF Over
  <2> QED
    BY <2>1, <2>3 DEF EndsRead, EndsInv
<1> QED
  BY <1>1, <1>2, Grows DEF TeamsInv

\* The file of team x becomes f.
LEMMA OtherTeams ==
    ASSUME AgentInv, TeamMoves, TeamsInv, NEW x \in Teams, NEW f \in TeamState, team' = [team EXCEPT ![x] = f],
           IsFiniteSet(f.ids), \A a \in f.ids: Known(a)', ~f.there => f = NoFile,
           \A y \in Teams \ {x}: f.ids \cap team[y].ids = {},
           f.error => \A a \in f.ids: RestsOver(a)'
    PROVE  TeamsInv'
<1>1. team'[x] = f /\ \A y \in Teams \ {x}: team'[y] = team[y]
  BY DEF TeamsInv
<1>2. team' \in [Teams -> TeamState]
  BY DEF TeamsInv
<1>3. ASSUME NEW y \in Teams, y # x
      PROVE  /\ IsFiniteSet(team[y].ids) /\ \A a \in team[y].ids: Known(a)' /\ (RestsOver(a) => RestsOver(a)')
             /\ ~team[y].there => team[y] = NoFile
  <2>1. /\ team[y].ids \subseteq Agents /\ \A a \in team[y].ids: Known(a)
        /\ IsFiniteSet(team[y].ids) /\ (~team[y].there => team[y] = NoFile)
    BY DEF TeamsInv, FilesInv, TeamState
  <2> QED
    BY <2>1, StaysKnown
<1>4. FilesInv'
  <2>1. ASSUME NEW y \in Teams
        PROVE  /\ IsFiniteSet(team'[y].ids) /\ \A a \in team'[y].ids: Known(a)'
               /\ ~team'[y].there => team'[y] = NoFile
    BY <1>1, <1>3
  <2> QED
    BY <2>1 DEF FilesInv
<1>5. TeamsDisjoint'
  BY <1>1 DEF TeamsInv, TeamsDisjoint
<1>6. EndsInv'
  <2>1. EndsRead'
    BY EndsReadKept DEF EndsRead, EndsInv, TeamsInv
  <2>2. ASSUME NEW y \in Teams, team'[y].error PROVE Over(y)'
    <3>1. CASE y = x
      BY <1>1, <2>2, <3>1 DEF Over
    <3>2. CASE y # x
      <4>1. Over(y)
        BY <1>1, <2>2, <3>2 DEF TeamsInv, EndsInv
      <4> QED
        BY <1>1, <1>3, <3>2, <4>1 DEF Over
    <3> QED
      BY <3>1, <3>2
  <2> QED
    BY <2>1, <2>2 DEF EndsRead, EndsInv
<1> QED
  BY <1>2, <1>4, <1>5, <1>6, Grows DEF TeamsInv

-----------------------------------------------------------------------------
(* The handler of a team.                                                  *)

JobOK == job \in JobState /\ job.completed \subseteq job.ended /\ JobInv /\ VisitInv

LEMMA Parts ==
    /\ TeamIInv <=> AgentInv /\ TeamsInv /\ JobOK
    /\ TeamIInv' <=> AgentInv' /\ TeamsInv' /\ JobOK'
BY DEF TeamIInv, TeamInv, TeamTypeOK, TeamsInv, JobOK, AgentInv

\* The children of the team that the handler is about.
LEMMA JobKids ==
    ASSUME TeamIInv, TeamMoves, job.op # "none"
    PROVE  /\ job.x \in Teams /\ team[job.x].there /\ team[job.x] \in TeamState
           /\ team[job.x].ids \subseteq Agents /\ NoAgent \notin team[job.x].ids
           /\ job.todo \subseteq team[job.x].ids /\ job.ended \subseteq team[job.x].ids
           /\ \A a \in team[job.x].ids: /\ Known(a) /\ Known(a)' /\ (~HasPrompt(a) => ~HasPrompt(a)')
                                        /\ RestsOver(a) => RestsOver(a)'
<1>1. job.x \in Teams /\ team[job.x].there /\ job.todo \subseteq team[job.x].ids /\ job.ended \subseteq team[job.x].ids
  BY DEF TeamIInv, TeamInv, JobInv
<1>2. team[job.x] \in TeamState /\ team[job.x].ids \subseteq Agents
  BY <1>1 DEF TeamIInv, TeamInv, TeamTypeOK, TeamState
<1>3. \A a \in team[job.x].ids: Known(a)
  BY <1>1 DEF TeamIInv, TeamInv, FilesInv
<1>4. \A a \in team[job.x].ids: Known(a)' /\ (~HasPrompt(a) => ~HasPrompt(a)') /\ (RestsOver(a) => RestsOver(a)')
  BY <1>2, <1>3, StaysKnown DEF TeamIInv, TeamInv
<1> QED
  BY <1>1, <1>2, <1>3, <1>4

LEMMA NoJobOK == ASSUME job' = NoJob PROVE JobOK'
<1>1. NoJob \in JobState /\ NoJob.op = "none" /\ NoJob.pc = "idle" /\ NoJob.completed = {} /\ NoJob.ended = {}
  BY DEF NoJob, JobState
<1>2. JobInv'
  BY <1>1 DEF JobInv, Subs
<1>3. VisitInv'
  BY <1>1 DEF VisitInv
<1> QED
  BY <1>1, <1>2, <1>3 DEF JobOK

\* Without a handler there is no job record.
LEMMA IdleJob == ASSUME TeamIInv, job.op = "none" PROVE job = NoJob
BY DEF TeamIInv, TeamInv, JobInv

\* A step beside the handler.
LEMMA StillJob ==
    ASSUME TeamIInv, TeamMoves, job' = job, team' = team, thr'[Loop] = thr[Loop] PROVE JobOK'
<1>1. CASE job.op = "none"
  BY <1>1, IdleJob, NoJobOK
<1>2. CASE job.op # "none"
  <2>1. job \in JobState /\ job.completed \subseteq job.ended
    BY DEF TeamIInv, TeamInv, TeamTypeOK
  <2>2. job.pc \in Subs => job.a \in Agents
    BY DEF TeamIInv, TeamInv, JobInv
  <2>3. \A a \in Agents: Known(a) => Known(a)'
    BY StaysKnown DEF TeamIInv, TeamInv
  <2>4. JobInv
    BY DEF TeamIInv, TeamInv
  <2>5. JobInv'
    BY <1>2, <2>2, <2>3, <2>4 DEF JobInv, LoopFree, SubOp
  <2>6. VisitInv'
    BY <1>2, JobKids, Grows DEF TeamIInv, TeamInv, VisitInv, Over, Visited
  <2> QED
    BY <2>1, <2>5, <2>6 DEF JobOK
<1> QED
  BY <1>1, <1>2

\* Between two turns: the record of a handler of team x that is not in a turn.
LEMMA PauseOK ==
    ASSUME TeamIInv, TeamMoves, job' \in JobState, job'.completed \subseteq job'.ended,
           job'.pc \in {"next", "sum", "undo"}, job'.op # "none", job'.x \in Teams, team'[job'.x].there,
           thr'[Loop].pc = "idle", job'.a = NoAgent,
           job'.todo \subseteq team'[job'.x].ids, job'.ended \subseteq team'[job'.x].ids,
           job'.op = "spawn" => ~team'[job'.x].error, job'.pc = "undo" => job'.op = "spawn",
           VisitInv'
    PROVE  JobOK'
<1>1. JobInv'
  BY DEF JobInv, LoopFree, Subs
<1> QED
  BY <1>1 DEF JobOK

LEMMA StartOK ==
    ASSUME TeamIInv, NEW x \in Teams, NEW n \in Nat, LoopFree, StartTeam(x, n), UNCHANGED vars, Revives
    PROVE  TeamsInv' /\ JobOK'
<1>1. TeamMoves
  BY DEF TeamMoves, AgentMoves
<1>2. NewFile \in TeamState /\ NewFile.ids = {} /\ NewFile.there /\ ~NewFile.error
  BY DEF NewFile, NoFile, TeamState
<1>3. TeamsInv'
  <2>1. IsFiniteSet({})
    BY FS_EmptySet
  <2> QED
    BY <1>1, <1>2, <2>1, OtherTeams, Parts DEF StartTeam
<1>4. PICK j: j = [NoJob EXCEPT !.op = "spawn", !.pc = "next", !.x = x, !.left = n]
  OBVIOUS
<1>5. /\ j \in JobState /\ j.op = "spawn" /\ j.pc = "next" /\ j.x = x /\ j.todo = {} /\ j.a = NoAgent
      /\ j.completed = {} /\ j.ended = {}
  BY <1>4 DEF NoJob, JobState
<1>6. job' = j /\ thr' = thr /\ team'[x] = NewFile
  BY <1>4 DEF StartTeam, vars, TeamIInv, TeamInv, TeamTypeOK
<1>7. VisitInv'
  BY <1>5, <1>6 DEF VisitInv
<1>8. JobOK'
  BY <1>1, <1>2, <1>5, <1>6, <1>7, PauseOK DEF LoopFree
<1> QED
  BY <1>3, <1>8

LEMMA TeamSpawnKeeps ==
    ASSUME TeamIInv, NEW x \in Teams, TeamSpawn(x), Revives PROVE TeamIInv'
<1>1. TeamMoves /\ AgentInv'
  BY Parts, MovesKeep DEF TeamSpawn, TeamMoves, AgentMoves
<1>2. PICK n \in Sizes: StartTeam(x, n)
  BY DEF TeamSpawn
<1> QED
  BY <1>1, <1>2, StartOK, Parts DEF TeamSpawn

LEMMA TeamRetryKeeps ==
    ASSUME TeamIInv, NEW x \in Teams, NEW y \in Teams, TeamRetry(x, y), Revives PROVE TeamIInv'
<1>1. TeamMoves /\ AgentInv'
  BY Parts, MovesKeep DEF TeamRetry, TeamMoves, AgentMoves
<1>2. Cardinality(team[x].ids) \in Nat
  <2>1. IsFiniteSet(team[x].ids)
    BY DEF TeamIInv, TeamInv, FilesInv
  <2> QED
    BY <2>1, FS_CardinalityType
<1> QED
  BY <1>1, <1>2, StartOK, Parts DEF TeamRetry

LEMMA TeamCallKeeps ==
    ASSUME TeamIInv, NEW op \in TeamOps, NEW x \in Teams, TeamCall(op, x), Revives PROVE TeamIInv'
<1>1. TeamMoves /\ AgentInv' /\ TeamsInv'
  BY Parts, MovesKeep, SameTeams DEF TeamCall, TeamMoves, AgentMoves
<1>2. PICK j: j = [NoJob EXCEPT !.op = op, !.pc = IF op = "cancel" THEN "next" ELSE "sum",
                                !.x = x, !.todo = team[x].ids]
  OBVIOUS
<1>3. op \in {"cancel", "despawn"} /\ team[x].there /\ team[x].ids \subseteq Agents /\ NoAgent \notin team[x].ids
  BY DEF TeamCall, TeamIInv, TeamInv, TeamTypeOK, TeamState
<1>4. /\ j \in JobState /\ j.op = op /\ j.pc \in {"next", "sum"} /\ j.x = x /\ j.todo = team[x].ids /\ j.a = NoAgent
      /\ j.completed = {} /\ j.ended = {} /\ j.pc = (IF op = "cancel" THEN "next" ELSE "sum")
  BY <1>2, <1>3 DEF NoJob, JobState
<1>5. job' = j /\ thr' = thr /\ team' = team
  BY <1>2 DEF TeamCall, vars
<1>6. VisitInv'
  BY <1>3, <1>4, <1>5 DEF VisitInv, Visited
<1>7. JobOK'
  BY <1>1, <1>3, <1>4, <1>5, <1>6, PauseOK DEF TeamCall, LoopFree
<1> QED
  BY <1>1, <1>7, Parts

-----------------------------------------------------------------------------
(* A turn begins.                                                          *)

LEMMA SpawnTurnKeeps ==
    ASSUME TeamIInv, NEW a \in Agents, SpawnTurn(a), Revives PROVE TeamIInv'
<1>1. thr[Loop].pc = "idle" /\ job.op = "spawn" /\ job.pc = "next" /\ job.left > 0 /\ SpawnBegin(a)
  BY DEF SpawnTurn, TeamIInv, TeamInv, JobInv, LoopFree
<1>2. TeamMoves /\ AgentInv' /\ TeamsInv'
  BY <1>1, Parts, MovesKeep, SameTeams DEF SpawnTurn, TeamMoves, AgentMoves
<1>3. thr'[Loop].pc = "popen" /\ thr'[Loop].op = "spawn" /\ thr'[Loop].a = a /\ Fresh(a)
  BY <1>1, BeginsSpawn DEF TeamIInv, TeamInv
<1>4. PICK j: j = [job EXCEPT !.pc = "sub", !.a = a]
  OBVIOUS
<1>5. /\ j \in JobState /\ j.pc = "sub" /\ j.a = a /\ j.op = "spawn" /\ j.x = job.x /\ j.left = job.left
      /\ j.todo = job.todo /\ j.completed = job.completed /\ j.ended = job.ended
      /\ job.completed \subseteq job.ended
  BY <1>1, <1>4 DEF TeamIInv, TeamInv, TeamTypeOK, JobState
<1>6. job' = j /\ team' = team
  BY <1>4 DEF SpawnTurn
<1>7. \A x \in Teams: a \notin team[x].ids
  BY <1>3 DEF TeamIInv, TeamInv, FilesInv, Fresh, Known
<1>8. JobInv'
  <2>1. job.x \in Teams /\ team[job.x].there /\ ~team[job.x].error
        /\ job.todo \subseteq team[job.x].ids /\ job.ended \subseteq team[job.x].ids
    BY <1>1 DEF TeamIInv, TeamInv, JobInv
  <2>2. SubOp' = "spawn"
    BY <1>5, <1>6 DEF SubOp
  <2> QED
    BY <1>1, <1>3, <1>5, <1>6, <1>7, <2>1, <2>2 DEF JobInv, Subs
<1>9. VisitInv'
  <2>1. \A b \in job.ended: RestsOver(b)'
    BY <1>1, <1>2, JobKids DEF TeamIInv, TeamInv, VisitInv
  <2> QED
    BY <1>5, <1>6, <2>1 DEF VisitInv
<1> QED
  BY <1>2, <1>5, <1>6, <1>8, <1>9, Parts DEF JobOK

\* What a turn with a child is.
LEMMA TurnFacts ==
    ASSUME TeamIInv, NEW a \in Agents, ChildTurn(a), Revives
    PROVE  /\ job.pc \in {"sum", "undo", "next"} /\ job.op # "none" /\ job.a = NoAgent /\ TurnOp \in ChildOps
           /\ job.pc = "undo" => job.op = "spawn"
           /\ job.pc = "next" => job.op \in {"cancel", "despawn"}
           /\ a \in job.todo /\ Known(a) /\ TeamMoves
           /\ a \in team[job.x].ids /\ thr[Loop].pc = "idle"
<1>1. Turning /\ a \in job.todo /\ Begin(TurnOp, a)
  BY DEF ChildTurn
<1>2. job.pc \in {"sum", "undo", "next"} /\ (job.pc = "next" => job.op \in {"cancel", "despawn"})
  BY <1>1 DEF Turning
<1>3. job.op # "none"
  BY <1>2, IdleJob DEF NoJob
<1>4. /\ job.a = NoAgent /\ (job.pc = "undo" => job.op = "spawn") /\ thr[Loop].pc = "idle"
      /\ job.x \in Teams /\ job.todo \subseteq team[job.x].ids
  BY <1>2, <1>3 DEF TeamIInv, TeamInv, JobInv, LoopFree
<1>5. TurnOp \in ChildOps
  BY <1>2 DEF TurnOp, ChildOps
<1>6. Known(a)
  BY <1>1, <1>4 DEF TeamIInv, TeamInv, FilesInv
<1> QED
  BY <1>1, <1>2, <1>3, <1>4, <1>5, <1>6 DEF TeamMoves, AgentMoves

LEMMA ChildThere ==
    ASSUME TeamIInv, NEW a \in Agents, ChildTurn(a), Exists(a), Revives PROVE JobOK'
<1>1. Begin(TurnOp, a) /\ team' = team
  BY DEF ChildTurn
<1>2. thr'[Loop].pc = "check" /\ thr'[Loop].op = TurnOp /\ thr'[Loop].a = a /\ thr'[Loop].snap = meta[a]
  BY <1>1, BeginsCall DEF TeamIInv, TeamInv
<1>3. PICK j: j = [job EXCEPT !.todo = job.todo \ {a}, !.a = a, !.pc = InTurn[job.pc]]
  OBVIOUS
<1>4. job' = j
  BY <1>3 DEF ChildTurn
<1>5. /\ job.pc = "sum" => InTurn[job.pc] = "subsum"
      /\ job.pc = "undo" => InTurn[job.pc] = "subundo"
      /\ job.pc = "next" => InTurn[job.pc] = "sub"
  BY DEF InTurn
<1>6. /\ j \in JobState /\ j.todo = job.todo \ {a} /\ j.a = a /\ j.pc = InTurn[job.pc] /\ j.op = job.op /\ j.x = job.x
      /\ j.completed = job.completed /\ j.ended = job.ended /\ j.completed \subseteq j.ended
  BY <1>3, <1>5, TurnFacts DEF TeamIInv, TeamInv, TeamTypeOK, JobState
<1>7. SubOp' = TurnOp /\ j.pc \in Subs
  BY <1>4, <1>5, <1>6, TurnFacts DEF SubOp, TurnOp, Subs
<1>8. JobInv'
  <2>1. /\ job.x \in Teams /\ team[job.x].there /\ job.todo \subseteq team[job.x].ids /\ job.ended \subseteq team[job.x].ids
        /\ job.op = "spawn" => ~team[job.x].error
    BY TurnFacts DEF TeamIInv, TeamInv, JobInv
  <2>2. j.pc = "subundo" => job.op = "spawn"
    BY <1>5, <1>6, TurnFacts
  <2>3. TurnOp # "spawn" /\ "check" \in Handling
    BY TurnFacts DEF ChildOps, Handling
  <2>4. a \in team[job.x].ids /\ job.op # "none"
    BY TurnFacts
  <2> QED
    BY <1>1, <1>2, <1>4, <1>6, <1>7, <2>1, <2>2, <2>3, <2>4 DEF JobInv, Subs
<1>9. VisitInv'
  <2>1. \A b \in team[job.x].ids: (~HasPrompt(b) => ~HasPrompt(b)') /\ (RestsOver(b) => RestsOver(b)')
    BY TurnFacts, JobKids
  <2>2. VisitInv /\ job.ended \subseteq team[job.x].ids
    BY TurnFacts, JobKids DEF TeamIInv, TeamInv
  <2>8. revived \subseteq revived'
    BY TurnFacts, Grows
  <2>3. Visited' \subseteq Visited /\ Visited \subseteq team[job.x].ids
    BY <1>1, <1>4, <1>6, TurnFacts, JobKids DEF Visited
  <2>4. \A b \in j.ended: RestsOver(b)'
    BY <1>6, <2>1, <2>2 DEF VisitInv
  <2>5. j.pc \in {"undo", "subundo"} \/ (j.op = "cancel" /\ j.pc \in {"next", "sub"}) => \A b \in Visited': RestsOver(b)'
    <3>1. (j.pc \in {"undo", "subundo"} \/ (j.op = "cancel" /\ j.pc \in {"next", "sub"}))
              => job.pc \in {"undo", "subundo"} \/ (job.op = "cancel" /\ job.pc \in {"next", "sub"})
      BY <1>5, <1>6, TurnFacts
    <3> QED
      BY <2>1, <2>2, <2>3, <3>1 DEF VisitInv
  <2>6. j.op = "despawn" /\ j.pc \in {"next", "sub"} =>
          Over(job.x) /\ Over(job.x)' /\ \A b \in Visited': b \in revived' \/ ~HasPrompt(b)'
    <3>1. (j.op = "despawn" /\ j.pc \in {"next", "sub"}) => job.op = "despawn" /\ job.pc \in {"next", "sub"}
      BY <1>5, <1>6, TurnFacts
    <3> QED
      BY <1>1, <1>4, <1>6, <2>1, <2>2, <2>3, <2>8, <3>1 DEF VisitInv, Over
  <2>7. Over(job.x) => meta[a].status \in Ended \/ a \in revived'
    BY <2>8, TurnFacts DEF Over, RestsOver, IsOver, Exists
  <2> QED
    BY <1>2, <1>4, <1>6, <2>4, <2>5, <2>6, <2>7 DEF VisitInv
<1> QED
  BY <1>4, <1>6, <1>8, <1>9 DEF JobOK

LEMMA ChildMissing ==
    ASSUME TeamIInv, NEW a \in Agents, ChildTurn(a), ~Exists(a), Revives PROVE JobOK'
<1>1. Begin(TurnOp, a) /\ team' = team
  BY DEF ChildTurn
<1>2. thr'[Loop].pc = "idle" /\ meta' = meta /\ result' = result
  BY <1>1, BeginsCall DEF TeamIInv, TeamInv
<1>3. PICK j: j = [job EXCEPT !.todo = job.todo \ {a}, !.a = NoAgent, !.pc = job.pc]
  OBVIOUS
<1>4. job' = j
  BY <1>3 DEF ChildTurn
<1>5. /\ j \in JobState /\ j.todo = job.todo \ {a} /\ j.a = NoAgent /\ j.pc = job.pc /\ j.op = job.op /\ j.x = job.x
      /\ j.completed = job.completed /\ j.ended = job.ended /\ j.completed \subseteq j.ended
  BY <1>3, TurnFacts DEF TeamIInv, TeamInv, TeamTypeOK, JobState
<1>6. /\ job.x \in Teams /\ team[job.x].there /\ job.todo \subseteq team[job.x].ids /\ job.ended \subseteq team[job.x].ids
      /\ job.op = "spawn" => ~team[job.x].error
  BY TurnFacts DEF TeamIInv, TeamInv, JobInv
<1>7. VisitInv'
  <2>1. \A b \in team[job.x].ids: (~HasPrompt(b) => ~HasPrompt(b)') /\ (RestsOver(b) => RestsOver(b)')
    BY TurnFacts, JobKids
  <2>2. VisitInv
    BY DEF TeamIInv, TeamInv
  <2>3. Visited' \subseteq Visited \cup {a} /\ Visited \subseteq team[job.x].ids
    BY <1>1, <1>4, <1>5, TurnFacts, JobKids DEF Visited
  <2>4. RestsOver(a)' /\ ~HasPrompt(a)'
    BY <1>2 DEF Exists, RestsOver, IsOver, TeamIInv, TeamInv, EndsInv, HasPrompt
  <2>5. revived \subseteq revived'
    BY TurnFacts, Grows
  <2> QED
    BY <1>1, <1>4, <1>5, <1>6, <2>1, <2>2, <2>3, <2>4, <2>5, TurnFacts DEF VisitInv, Over
<1> QED
  BY <1>1, <1>2, <1>4, <1>5, <1>6, <1>7, TurnFacts, PauseOK

LEMMA ChildTurnKeeps ==
    ASSUME TeamIInv, NEW a \in Agents, ChildTurn(a), Revives PROVE TeamIInv'
<1>1. AgentInv' /\ TeamsInv'
  BY TurnFacts, Parts, MovesKeep, SameTeams DEF ChildTurn, TeamMoves
<1> QED
  BY <1>1, ChildThere, ChildMissing, Parts

-----------------------------------------------------------------------------
(* A turn goes on, and ends.                                               *)

\* What the child's handler leaves when it comes back.
LeftBy(a) ==
    /\ thr'[Loop].pc = "idle"
    /\ thr[Loop].op = "cancel" =>
          meta'[a].status = "cancelled" \/ (thr[Loop].snap.status \in Ended /\ meta' = meta)
    /\ thr[Loop].op = "despawn" /\ thr[Loop].snap.status \in Ended =>
          meta'[a].status = "absent" /\ result'[a] = "absent"

LEMMA ChildReturns ==
    ASSUME AgentInv, Handler, thr[Loop].pc \in Handling, thr[Loop].op \in ChildOps, NEW a, a = thr[Loop].a
    PROVE  Onward \/ LeftBy(a)
<1>1. a \in Agents /\ thr[Loop].snap \in Meta /\ meta \in [Agents -> Meta]
  BY LoopFacts
<1>2. result \in [Agents -> ResultState]
  BY Types DEF AgentInv, Typed
<1>3. ASSUME NEW b \in Agents PROVE ~(Respawn(b) \/ SpawnPopen(b) \/ SpawnFails(b) \/ SpawnLate(b))
  BY DEF Respawn, MayRespawn, SpawnPopen, SpawnFails, SpawnLate, AtLoop, ChildOps, Handling
<1>4. ~SpawnRefused
  BY DEF SpawnRefused, ChildOps
<1>5. CASE Check(Loop) \/ Mark(Loop) \/ (\E s \in {"soft", "kill"}: CancelSignal(s)) \/ CancelWaited
           \/ CancelEscalate \/ CancelGivesUp
  BY <1>5, GoesOn
<1>6. CASE Answer
  BY <1>6, Finishes DEF Answer, AtLoop, LeftBy
<1>7. CASE CancelFinished
  BY <1>7, Finishes DEF CancelFinished, AtLoop, LeftBy, files
<1>8. CASE CancelWrite
  <2>1. PICK m: m = [thr[Loop].snap EXCEPT !.status = "cancelled"]
    OBVIOUS
  <2>2. m.status = "cancelled"
    BY <1>1, <2>1 DEF Meta
  <2>3. meta'[a] = m
    BY <1>1, <1>8, <2>1 DEF CancelWrite, Put
  <2>4. thr[Loop].op = "cancel"
    BY <1>8 DEF CancelWrite, AgentInv, LoopInv
  <2> QED
    BY <1>8, <2>2, <2>3, <2>4, Finishes DEF CancelWrite, LeftBy
<1>9. CASE Despawn
  <2>1. thr[Loop].op = "despawn" /\ Finish(Loop)
    BY <1>9 DEF Despawn, AtLoop
  <2>2. ASSUME thr[Loop].snap.status \in Ended PROVE meta'[a].status = "absent" /\ result'[a] = "absent"
    BY <1>1, <1>2, <1>9, <2>2 DEF Despawn, Put, Absent
  <2> QED
    BY <2>1, <2>2, Finishes DEF LeftBy
<1> QED
  BY <1>3, <1>4, <1>5, <1>6, <1>7, <1>8, <1>9 DEF Handler

\* The second half of a spawn.
LEMMA SpawnTurns ==
    ASSUME AgentInv, Handler, thr[Loop].pc \in {"popen", "late"}
    PROVE  \E a \in Agents: /\ a = thr[Loop].a
                            /\ SpawnPopen(a) \/ SpawnFails(a) \/ SpawnLate(a)
<1>1. \A b \in Agents: ~Respawn(b)
  BY DEF Respawn, MayRespawn
<1>2. ~(SpawnRefused \/ Check(Loop) \/ Mark(Loop) \/ Answer \/ CancelFinished)
  BY DEF SpawnRefused, Check, Mark, Answer, CancelFinished, AtLoop
<1>3. ~((\E s \in {"soft", "kill"}: CancelSignal(s)) \/ CancelWaited \/ CancelEscalate \/ CancelGivesUp
        \/ CancelWrite \/ Despawn)
  BY DEF CancelSignal, CancelWaited, CancelEscalate, CancelGivesUp, CancelWrite, Despawn, AtLoop
<1>4. PICK a \in Agents: SpawnPopen(a) \/ SpawnFails(a) \/ SpawnLate(a)
  BY <1>1, <1>2, <1>3 DEF Handler
<1> QED
  BY <1>4 DEF SpawnPopen, SpawnFails, SpawnLate

\* The child's handler takes a step and does not come back.
LEMMA GoOnOK ==
    ASSUME TeamIInv, job.pc \in Subs, SubOp # "spawn", SubStep, Onward, Revives PROVE JobOK'
<1>1. TeamMoves
  BY DEF SubStep, TeamMoves, AgentMoves, Next
<1>2. thr'[Loop].pc \in Handling /\ thr'[Loop].op = thr[Loop].op /\ thr'[Loop].a = thr[Loop].a
  BY DEF Onward
<1>3. job' = job /\ team' = team
  BY <1>2 DEF SubStep, Returns, Handling
<1>4. JobInv'
  BY <1>2, <1>3 DEF TeamIInv, TeamInv, JobInv, SubOp, Subs, LoopFree
<1>5. job.op # "none"
  BY IdleJob DEF NoJob, Subs
<1>6. VisitInv'
  <2>1. VisitInv
    BY DEF TeamIInv, TeamInv
  <2>2. thr[Loop].snap.status \in Ended => thr'[Loop].snap.status \in Ended
    BY DEF Onward, Ended
  <2> QED
    BY <1>1, <1>3, <1>5, <2>1, <2>2, JobKids, Grows DEF VisitInv, Visited, Over
<1> QED
  BY <1>3, <1>4, <1>6 DEF JobOK, TeamIInv, TeamInv, TeamTypeOK

\* What the job becomes when the handler of child job.a comes back.
LEMMA BackToFields ==
    ASSUME TeamIInv, NEW p \in {"sum", "undo", "next"}
    PROVE  /\ BackTo(p) \in JobState /\ BackTo(p).op = job.op /\ BackTo(p).pc = p /\ BackTo(p).x = job.x
           /\ BackTo(p).left = job.left /\ BackTo(p).todo = job.todo /\ BackTo(p).a = NoAgent
           /\ BackTo(p).completed = job.completed /\ BackTo(p).ended = job.ended
           /\ job.completed \subseteq job.ended
BY DEF TeamIInv, TeamInv, TeamTypeOK, BackTo, JobState

LEMMA BackFields ==
    ASSUME TeamIInv, job.pc \in Subs, SubOp # "spawn"
    PROVE  /\ Back \in JobState /\ Back.op = job.op /\ Back.x = job.x /\ Back.todo = job.todo /\ Back.a = NoAgent
           /\ Back.pc = (IF job.pc = "subsum" THEN "sum" ELSE IF job.pc = "subundo" THEN "undo" ELSE "next")
           /\ Back.completed \subseteq Back.ended
           /\ Back.ended = (IF job.pc = "subsum" /\ thr[Loop].snap.status \in Ended
                            THEN job.ended \cup {job.a} ELSE job.ended)
<1>1. CASE job.pc = "subsum"
  <2>1. Back = Counted
    BY <1>1 DEF Back, Spawned
  <2>2. job.a \in Agents
    BY <1>1 DEF TeamIInv, TeamInv, JobInv, Subs
  <2>3. PICK i \in JobState: /\ i = BackTo("sum") /\ i.pc = "sum" /\ i.op = job.op /\ i.x = job.x /\ i.todo = job.todo
                             /\ i.a = NoAgent /\ i.completed = job.completed /\ i.ended = job.ended
    BY BackToFields
  <2>4. PICK C, E: /\ C = IF thr[Loop].snap.status = "completed" THEN i.completed \cup {job.a} ELSE i.completed
                   /\ E = IF thr[Loop].snap.status \in Ended THEN i.ended \cup {job.a} ELSE i.ended
    OBVIOUS
  <2>5. C \in SUBSET Agents /\ E \in SUBSET Agents /\ C \subseteq E
    <3>1. i.completed \subseteq i.ended /\ i.ended \subseteq Agents /\ "completed" \in Ended
      BY <2>3, BackToFields DEF JobState, Ended
    <3> QED
      BY <2>2, <2>4, <3>1
  <2>6. Counted = [i EXCEPT !.completed = C, !.ended = E]
    BY <2>3, <2>4 DEF Counted
  <2>7. /\ Counted \in JobState /\ Counted.op = i.op /\ Counted.pc = i.pc /\ Counted.x = i.x
        /\ Counted.todo = i.todo /\ Counted.a = i.a /\ Counted.completed = C /\ Counted.ended = E
    BY <2>5, <2>6 DEF JobState
  <2> QED
    BY <1>1, <2>1, <2>3, <2>4, <2>5, <2>7
<1>2. CASE job.pc = "subundo"
  <2>1. Back = BackTo("undo")
    BY <1>2 DEF Back, Spawned
  <2> QED
    BY <1>2, <2>1, BackToFields
<1>3. CASE job.pc = "sub"
  <2>1. Back = BackTo("next")
    BY <1>3 DEF Back, SubOp, Spawned
  <2> QED
    BY <1>3, <2>1, BackToFields
<1> QED
  BY <1>1, <1>2, <1>3 DEF Subs

LEMMA ReturnOK ==
    ASSUME TeamIInv, job.pc \in Subs, SubOp # "spawn", SubStep, NEW d, d = job.a, LeftBy(d), Revives PROVE JobOK'
<1>1. TeamMoves
  BY DEF SubStep, TeamMoves, AgentMoves, Next
<1>2. job.op # "none"
  BY IdleJob DEF NoJob, Subs
<1>3. /\ thr[Loop].op = SubOp /\ thr[Loop].a = d /\ d \in Agents /\ thr[Loop].pc \in Handling
      /\ d \in team[job.x].ids /\ (job.pc = "subundo" => job.op = "spawn") /\ (job.op = "spawn" => ~team[job.x].error)
  BY <1>2 DEF TeamIInv, TeamInv, JobInv
<1>4. ~(job.pc = "sub" /\ Returns /\ Spawned)
  BY <1>3 DEF Spawned, Handling
<1>5. job' = Back /\ team' = team
  BY <1>4 DEF SubStep, LeftBy, Returns
<1>6. job.pc = "sub" => SubOp = job.op
  BY DEF SubOp
<1>7. VisitInv'
  <2>1. \A b \in team[job.x].ids: (~HasPrompt(b) => ~HasPrompt(b)') /\ (RestsOver(b) => RestsOver(b)')
    BY <1>1, <1>2, JobKids
  <2>2. VisitInv /\ job.ended \subseteq team[job.x].ids
    BY <1>1, <1>2, JobKids DEF TeamIInv, TeamInv
  <2>3. thr[Loop].snap.status \in Ended => RestsOver(d) /\ RestsOver(d)'
    BY <1>3, <2>1 DEF TeamIInv, TeamInv, EndsInv
  <2>4. Visited' \subseteq Visited \cup {d} /\ Visited \subseteq team[job.x].ids
    BY <1>5, BackFields DEF Visited
  <2>5. \A b \in Back.ended: RestsOver(b)'
    BY <2>1, <2>2, <2>3, BackFields DEF VisitInv
  <2>6. SubOp = "cancel" => RestsOver(d)'
    BY <1>3, <2>3 DEF LeftBy, RestsOver, IsOver, Ended
  <2>7. Back.pc = "undo" \/ (Back.op = "cancel" /\ Back.pc = "next") => \A b \in Visited': RestsOver(b)'
    <3>1. ASSUME Back.pc = "undo" \/ (Back.op = "cancel" /\ Back.pc = "next")
          PROVE  /\ SubOp = "cancel"
                 /\ job.pc \in {"undo", "subundo"} \/ (job.op = "cancel" /\ job.pc \in {"next", "sub"})
      BY <3>1, BackFields DEF SubOp, Subs
    <3> QED
      BY <2>1, <2>2, <2>4, <2>6, <3>1 DEF VisitInv
  <2>8. Back.op = "despawn" /\ Back.pc = "next" => 
          (\A b \in team[job.x].ids: RestsOver(b)') /\ \A b \in Visited': b \in revived' \/ ~HasPrompt(b)'
    <3>1. ASSUME Back.op = "despawn", Back.pc = "next"
          PROVE  SubOp = "despawn" /\ job.op = "despawn" /\ job.pc = "sub"
      BY <3>1, <1>3, BackFields DEF SubOp, Subs
    <3>2. ASSUME Back.op = "despawn", Back.pc = "next" 
          PROVE  Over(job.x) /\ \A b \in Visited: b \in revived \/ ~HasPrompt(b)
      BY <2>2, <3>1, <3>2 DEF VisitInv
    <3>3. ASSUME Back.op = "despawn", Back.pc = "next" PROVE d \in revived' \/ ~HasPrompt(d)'
      <4>1. d \in revived \/ thr[Loop].snap.status \in Ended
        BY <2>2, <3>1, <3>3 DEF VisitInv
      <4> QED
        BY <1>1, <1>3, <3>1, <3>3, <4>1, Grows DEF LeftBy, HasPrompt
    <3>4. job'.x = job.x
      BY <1>5, BackFields
    <3> QED
      BY <1>1, <1>5, <2>1, <2>4, <3>2, <3>3, <3>4, Grows DEF Over
  <2>9. Back.pc \in {"sum", "undo", "next"} /\ Back.x = job.x
    BY BackFields
  <2> QED
    BY <1>5, <2>5, <2>7, <2>8, <2>9, BackFields DEF VisitInv, Over
<1>8. Back.pc \in {"sum", "undo", "next"} /\ Back.ended \subseteq team[job.x].ids /\ (Back.pc = "undo" => job.op = "spawn")
  BY <1>1, <1>2, <1>3, BackFields, JobKids
<1> QED
  BY <1>1, <1>2, <1>3, <1>5, <1>7, <1>8, BackFields, JobKids, PauseOK DEF LeftBy

\* The spawn of child job.a.
LEMMA OneMoreFields ==
    ASSUME TeamIInv, job.left > 0
    PROVE  /\ OneMore \in JobState /\ OneMore.op = job.op /\ OneMore.pc = "next" /\ OneMore.x = job.x
           /\ OneMore.todo = job.todo /\ OneMore.a = NoAgent /\ OneMore.completed = job.completed
           /\ OneMore.ended = job.ended /\ job.completed \subseteq job.ended
<1>1. PICK i \in JobState: /\ i = BackTo("next") /\ i.pc = "next" /\ i.op = job.op /\ i.x = job.x /\ i.left = job.left
                           /\ i.todo = job.todo /\ i.a = NoAgent /\ i.completed = job.completed /\ i.ended = job.ended
  BY BackToFields
<1>2. i.left - 1 \in Nat
  <2>1. i.left \in Nat
    BY DEF JobState
  <2> QED
    BY <1>1, <2>1
<1>3. OneMore = [i EXCEPT !.left = i.left - 1]
  BY <1>1 DEF OneMore
<1> QED
  BY <1>1, <1>2, <1>3, BackToFields DEF JobState

LEMMA GivesUpFields ==
    ASSUME TeamIInv, team[job.x].ids \subseteq Agents
    PROVE  /\ GivesUp \in JobState /\ GivesUp.op = job.op /\ GivesUp.pc = "undo" /\ GivesUp.x = job.x
           /\ GivesUp.todo = team[job.x].ids /\ GivesUp.a = NoAgent /\ GivesUp.completed = job.completed
           /\ GivesUp.ended = job.ended /\ job.completed \subseteq job.ended
<1>1. PICK i \in JobState: /\ i = BackTo("undo") /\ i.pc = "undo" /\ i.op = job.op /\ i.x = job.x
                           /\ i.todo = job.todo /\ i.a = NoAgent /\ i.completed = job.completed /\ i.ended = job.ended
  BY BackToFields
<1>2. GivesUp = [i EXCEPT !.todo = team[job.x].ids]
  BY <1>1 DEF GivesUp
<1> QED
  BY <1>1, <1>2, BackToFields DEF JobState

LEMMA SpawnFacts ==
    ASSUME TeamIInv, SubStep, SubOp = "spawn", Revives
    PROVE  /\ TeamMoves /\ job.op = "spawn" /\ job.pc = "sub" /\ job.left > 0
           /\ thr[Loop].pc \in {"popen", "late"} /\ thr[Loop].op = "spawn" /\ thr[Loop].a = job.a /\ job.a \in Agents
           /\ \A x \in Teams: job.a \notin team[x].ids
           /\ thr[Loop].pc = "late" => Known(job.a)
           /\ ~team[job.x].error
           /\ SpawnPopen(job.a) \/ SpawnFails(job.a) \/ SpawnLate(job.a)
<1>1. job.pc \in Subs /\ Handler /\ TeamMoves
  BY DEF SubStep, Subs, TeamMoves, AgentMoves, Next
<1>2. job.op = "spawn" /\ job.pc = "sub"
  BY <1>1 DEF SubOp, Subs
<1>3. /\ job.left > 0 /\ thr[Loop].pc \in {"popen", "late"} /\ thr[Loop].op = "spawn" /\ thr[Loop].a = job.a
      /\ job.a \in Agents /\ (\A x \in Teams: job.a \notin team[x].ids) /\ (thr[Loop].pc = "late" => Known(job.a))
      /\ ~team[job.x].error
  BY <1>1, <1>2 DEF TeamIInv, TeamInv, JobInv
<1>4. SpawnPopen(job.a) \/ SpawnFails(job.a) \/ SpawnLate(job.a)
  BY <1>1, <1>3, SpawnTurns DEF TeamIInv, TeamInv
<1> QED
  BY <1>1, <1>2, <1>3, <1>4

\* What was an end for a summary or a loop stays one.
LEMMA EndedStay ==
    ASSUME TeamIInv, TeamMoves, job.op # "none" PROVE \A b \in job.ended: RestsOver(b)'
BY JobKids DEF TeamIInv, TeamInv, VisitInv

LEMMA SpawnPopenOK ==
    ASSUME TeamIInv, SubStep, SubOp = "spawn", SpawnPopen(job.a), Revives PROVE TeamIInv'
<1>1. PICK d \in Agents: d = job.a /\ SpawnPopen(d)
  BY SpawnFacts
<1>2. thr'[Loop].pc = "late" /\ thr'[Loop].op = "spawn" /\ thr'[Loop].a = d
  <2>1. Loop \in Threads /\ "late" \in Pcs
    BY LoopFacts DEF TeamIInv, TeamInv, Pcs
  <2> QED
    BY <1>1, <2>1, Goes, SpawnFacts DEF SpawnPopen, TeamIInv, TeamInv
<1>3. job' = job /\ team' = team
  BY <1>2 DEF SubStep, Returns
<1>4. Known(d)'
  <2>1. wrk \in [Agents -> WorkerState] /\ wrk[d] \in WorkerState
    BY Types DEF TeamIInv, TeamInv, AgentInv, Typed
  <2> QED
    BY <1>1, <2>1 DEF SpawnPopen, Known, WorkerState
<1>5. AgentInv' /\ TeamsInv'
  BY <1>3, SpawnFacts, MovesKeep, SameTeams, Parts DEF TeamMoves
<1>6. JobInv'
  <2>1. SubOp' = "spawn"
    BY <1>3 DEF SubOp
  <2> QED
    BY <1>1, <1>2, <1>3, <1>4, <2>1, SpawnFacts DEF TeamIInv, TeamInv, JobInv, Subs
<1>7. VisitInv'
  BY <1>3, SpawnFacts, EndedStay DEF VisitInv
<1> QED
  BY <1>3, <1>5, <1>6, <1>7, Parts DEF JobOK, TeamIInv, TeamInv, TeamTypeOK

LEMMA SpawnFailsOK ==
    ASSUME TeamIInv, SubStep, SubOp = "spawn", SpawnFails(job.a), Revives PROVE TeamIInv'
<1>1. thr'[Loop].pc = "idle" /\ thr[Loop].pc = "popen"
  BY Finishes DEF SpawnFails, AtLoop, TeamIInv, TeamInv
<1>2. job' = GivesUp /\ team' = team
  BY <1>1, SpawnFacts DEF SubStep, Returns, Spawned, Back
<1>3. AgentInv' /\ TeamsInv'
  BY <1>2, SpawnFacts, MovesKeep, SameTeams, Parts DEF TeamMoves
<1>4. VisitInv'
  BY <1>2, SpawnFacts, EndedStay, JobKids, GivesUpFields DEF VisitInv, Visited
<1>5. JobOK'
  BY <1>1, <1>2, <1>4, SpawnFacts, JobKids, GivesUpFields, PauseOK
<1> QED
  BY <1>3, <1>5, Parts

LEMMA SpawnLateOK ==
    ASSUME TeamIInv, SubStep, SubOp = "spawn", SpawnLate(job.a), Revives PROVE TeamIInv'
<1>1. thr'[Loop].pc = "idle" /\ thr[Loop].pc = "late"
  BY Finishes DEF SpawnLate, AtLoop, TeamIInv, TeamInv
<1>2. PICK f: f = [team[job.x] EXCEPT !.ids = team[job.x].ids \cup {job.a}]
  OBVIOUS
<1>3. job' = OneMore /\ team' = [team EXCEPT ![job.x] = f]
  BY <1>1, <1>2, SpawnFacts DEF SubStep, Returns, Spawned, Back
<1>4. /\ f \in TeamState /\ f.ids = team[job.x].ids \cup {job.a} /\ f.there /\ ~f.error
  <2>1. team[job.x] \in TeamState /\ job.a \in Agents /\ team[job.x].there /\ ~team[job.x].error
    BY SpawnFacts, JobKids
  <2> QED
    BY <1>2, <2>1 DEF TeamState
<1>5. AgentInv'
  BY SpawnFacts, MovesKeep, Parts DEF TeamMoves
<1>6. TeamsInv'
  <2>1. IsFiniteSet(f.ids)
    <3>1. IsFiniteSet(team[job.x].ids)
      BY SpawnFacts, JobKids DEF TeamIInv, TeamInv, FilesInv
    <3> QED
      BY <1>4, <3>1, FS_AddElement
  <2>2. ASSUME NEW b \in f.ids PROVE Known(b)'
    <3>1. Known(job.a) => \A b1 \in {job.a}: wrk'[b1].pc # "none"
      BY SpawnFacts, StaysKnown DEF TeamIInv, TeamInv, Known
    <3> QED
      BY <1>1, <1>4, <2>2, <3>1, SpawnFacts, JobKids DEF Known
  <2>3. ASSUME NEW y \in Teams \ {job.x} PROVE f.ids \cap team[y].ids = {}
    BY <1>4, SpawnFacts, JobKids DEF TeamIInv, TeamInv, TeamsDisjoint
  <2>4. job.x \in Teams
    BY SpawnFacts, JobKids
  <2> QED
    BY <1>3, <1>4, <2>1, <2>2, <2>3, <2>4, SpawnFacts, Parts, OtherTeams
<1>7. VisitInv'
  BY <1>3, SpawnFacts, EndedStay, OneMoreFields DEF VisitInv
<1>8. team'[job.x] = f
  BY <1>3, SpawnFacts, JobKids DEF TeamIInv, TeamInv, TeamTypeOK
<1>9. JobOK'
  BY <1>1, <1>3, <1>4, <1>7, <1>8, SpawnFacts, JobKids, OneMoreFields, PauseOK
<1> QED
  BY <1>5, <1>6, <1>9, Parts

LEMMA SubStepKeeps == ASSUME TeamIInv, SubStep, Revives PROVE TeamIInv'
<1>1. CASE SubOp = "spawn"
  BY <1>1, SpawnFacts, SpawnPopenOK, SpawnFailsOK, SpawnLateOK
<1>2. CASE SubOp # "spawn"
  <2>1. TeamMoves /\ Handler /\ job.pc \in Subs
    BY DEF TeamMoves, AgentMoves, Next, SubStep, Subs
  <2>2. thr[Loop].pc \in Handling /\ thr[Loop].op = SubOp /\ thr[Loop].a = job.a
    BY <1>2, <2>1 DEF TeamIInv, TeamInv, JobInv
  <2>3. SubOp \in ChildOps
    <3>1. job.op # "none" /\ job.op \in {"none", "spawn", "cancel", "despawn"}
      BY <2>1, IdleJob DEF NoJob, Subs, TeamIInv, TeamInv, TeamTypeOK, JobState
    <3> QED
      BY <1>2, <3>1 DEF SubOp, ChildOps
  <2>4. PICK d: d = job.a
    OBVIOUS
  <2>5. Onward \/ LeftBy(d)
    BY <2>1, <2>2, <2>3, <2>4, ChildReturns DEF TeamIInv, TeamInv
  <2>6. JobOK'
    BY <1>2, <2>1, <2>4, <2>5, GoOnOK, ReturnOK
  <2>7. team' = team
    <3>1. ~(job.pc = "sub" /\ Spawned)
      BY <2>2 DEF Spawned, Handling
    <3> QED
      BY <3>1 DEF SubStep
  <2> QED
    BY <2>1, <2>6, <2>7, SameTeams, MovesKeep, Parts DEF TeamMoves
<1> QED
  BY <1>1, <1>2

-----------------------------------------------------------------------------
(* The ends.                                                               *)

LEMMA Still ==
    ASSUME TeamIInv, UNCHANGED vars, Revives
    PROVE  TeamMoves /\ AgentInv' /\ thr' = thr /\ meta' = meta /\ result' = result
BY Parts, MovesKeep DEF TeamMoves, AgentMoves, vars

LEMMA UndoEndsKeeps == ASSUME TeamIInv, UndoEnds, Revives PROVE TeamIInv'
<1>1. /\ job.pc = "undo" /\ job.todo = {} /\ team' = [team EXCEPT ![job.x].error = TRUE]
      /\ job' = NoJob /\ UNCHANGED vars
  BY DEF UndoEnds, Reply
<1>2. job.op # "none"
  BY <1>1, IdleJob DEF NoJob
<1>3. job.a = NoAgent
  BY <1>1 DEF TeamIInv, TeamInv, JobInv
<1>4. PICK f: f = [team[job.x] EXCEPT !.error = TRUE]
  OBVIOUS
<1>5. f \in TeamState /\ f.ids = team[job.x].ids /\ f.there
  BY <1>1, <1>2, <1>4, Still, JobKids DEF TeamState
<1>6. ASSUME NEW b \in f.ids PROVE RestsOver(b)'
  <2>1. b \in Visited
    BY <1>1, <1>2, <1>3, <1>5, <1>6, Still, JobKids DEF Visited
  <2> QED
    BY <1>1, <1>2, <1>5, <1>6, <2>1, Still, JobKids DEF TeamIInv, TeamInv, VisitInv
<1>7. TeamsInv'
  <2>1. IsFiniteSet(f.ids) /\ \A y \in Teams \ {job.x}: f.ids \cap team[y].ids = {}
    BY <1>1, <1>2, <1>5, Still, JobKids DEF TeamIInv, TeamInv, FilesInv, TeamsDisjoint
  <2>2. \A b \in f.ids: Known(b)'
    BY <1>1, <1>2, <1>5, Still, JobKids
  <2>3. job.x \in Teams /\ team' = [team EXCEPT ![job.x] = f]
    BY <1>1, <1>2, <1>4, Still, JobKids
  <2> QED
    BY <1>1, <1>5, <1>6, <2>1, <2>2, <2>3, Still, Parts, OtherTeams
<1> QED
  BY <1>1, <1>7, Still, NoJobOK, Parts

LEMMA DespawnEndsKeeps == ASSUME TeamIInv, DespawnEnds, Revives PROVE TeamIInv'
<1>1. /\ job.op = "despawn" /\ team' = [team EXCEPT ![job.x] = NoFile] /\ job' = NoJob /\ UNCHANGED vars
  BY DEF DespawnEnds, Reply
<1>2. NoFile \in TeamState /\ NoFile.ids = {} /\ ~NoFile.error
  BY DEF NoFile, TeamState
<1>3. job.x \in Teams
  BY <1>1, Still, JobKids
<1>4. TeamsInv'
  <2>1. IsFiniteSet(NoFile.ids)
    BY <1>2, FS_EmptySet
  <2>2. \A y \in Teams \ {job.x}: NoFile.ids \cap team[y].ids = {}
    BY <1>2
  <2>3. \A a \in NoFile.ids: Known(a)' /\ RestsOver(a)'
    BY <1>2
  <2>4. AgentInv /\ TeamMoves /\ TeamsInv
    BY <1>1, Still, Parts
  <2> QED
    BY <1>1, <1>2, <1>3, <2>1, <2>2, <2>3, <2>4, OtherTeams
<1> QED
  BY <1>1, <1>4, Still, NoJobOK, Parts

LEMMA SumBeginsKeeps == ASSUME TeamIInv, SumBegins, Revives PROVE TeamIInv'
<1>1. /\ job.pc = "next" /\ thr[Loop].pc = "idle" /\ UNCHANGED vars /\ team' = team
      /\ job' = [job EXCEPT !.pc = "sum", !.todo = team[job.x].ids] /\ job.op # "none"
  BY IdleJob DEF SumBegins, LoopFree
<1>2. PICK j: j = [job EXCEPT !.pc = "sum", !.todo = team[job.x].ids]
  OBVIOUS
<1>3. job.a = NoAgent /\ (job.op = "spawn" => ~team[job.x].error)
  BY <1>1 DEF TeamIInv, TeamInv, JobInv
<1>4. /\ j \in JobState /\ j.pc = "sum" /\ j.op = job.op /\ j.x = job.x /\ j.todo = team[job.x].ids /\ j.a = job.a
      /\ j.completed = job.completed /\ j.ended = job.ended /\ j.completed \subseteq j.ended
  BY <1>1, <1>2, Still, JobKids DEF TeamIInv, TeamInv, TeamTypeOK, JobState
<1>5. job' = j
  BY <1>1, <1>2
<1>6. VisitInv'
  BY <1>1, <1>4, <1>5, Still, EndedStay DEF VisitInv
<1>7. JobOK'
  BY <1>1, <1>3, <1>4, <1>5, <1>6, Still, JobKids, PauseOK
<1> QED
  BY <1>1, <1>7, Still, SameTeams, Parts

\* As many ends as children: every child has ended.
LEMMA AllEnded ==
    ASSUME TeamIInv, job.op # "none", UNCHANGED vars, Revives, Cardinality(job.ended) >= Cardinality(team[job.x].ids)
    PROVE  job.ended = team[job.x].ids
<1>1. job.ended \subseteq team[job.x].ids
  BY Still, JobKids
<1>2. IsFiniteSet(team[job.x].ids)
  BY Still, JobKids DEF TeamIInv, TeamInv, FilesInv
<1>3. Cardinality(job.ended) <= Cardinality(team[job.x].ids)
      /\ (Cardinality(job.ended) = Cardinality(team[job.x].ids) => job.ended = team[job.x].ids)
  BY <1>1, <1>2, FS_Subset
<1>4. Cardinality(job.ended) \in Nat /\ Cardinality(team[job.x].ids) \in Nat
  BY <1>1, <1>2, FS_Subset, FS_CardinalityType
<1>5. Cardinality(job.ended) = Cardinality(team[job.x].ids)
  BY <1>3, <1>4
<1> QED
  BY <1>3, <1>5

LEMMA SumEndsKeeps == ASSUME TeamIInv, SumEnds, Revives PROVE TeamIInv'
<1>1. /\ job.pc = "sum" /\ thr[Loop].pc = "idle" /\ UNCHANGED vars /\ team' = team
  BY DEF SumEnds, LoopFree
<1>2. job.op # "none"
  BY <1>1, IdleJob DEF NoJob
<1>3. JobOK'
  <2>1. CASE job' = NoJob
    BY <2>1, NoJobOK
  <2>2. CASE job' # NoJob
    <3>1. job.op = "despawn" /\ ~(Cardinality(job.ended) < Cardinality(team[job.x].ids))
          /\ job' = [job EXCEPT !.pc = "next", !.todo = team[job.x].ids, !.completed = {}, !.ended = {}]
      BY <2>2 DEF SumEnds, Reply
    <3>2. PICK j: j = [job EXCEPT !.pc = "next", !.todo = team[job.x].ids, !.completed = {}, !.ended = {}]
      OBVIOUS
    <3>3. /\ j \in JobState /\ j.pc = "next" /\ j.op = "despawn" /\ j.x = job.x /\ j.todo = team[job.x].ids
          /\ j.a = job.a /\ j.completed = {} /\ j.ended = {}
      BY <1>1, <1>2, <3>1, <3>2, Still, JobKids DEF TeamIInv, TeamInv, TeamTypeOK, JobState
    <3>4. job' = j
      BY <3>1, <3>2
    <3>5. job.ended = team[job.x].ids
      <4>1. Cardinality(job.ended) \in Nat /\ Cardinality(team[job.x].ids) \in Nat
        <5>1. IsFiniteSet(team[job.x].ids) /\ job.ended \subseteq team[job.x].ids
          BY <1>1, <1>2, Still, JobKids DEF TeamIInv, TeamInv, FilesInv
        <5> QED
          BY <5>1, FS_Subset, FS_CardinalityType
      <4>2. Cardinality(job.ended) >= Cardinality(team[job.x].ids)
        BY <3>1, <4>1
      <4> QED
        BY <1>1, <1>2, <4>2, AllEnded
    <3>6. VisitInv'
      <4>1. \A b \in team[job.x].ids: RestsOver(b)'
        BY <1>1, <1>2, <3>5, Still, EndedStay
      <4> QED
        BY <1>1, <3>3, <3>4, <4>1 DEF VisitInv, Over, Visited
    <3>7. job.a = NoAgent
      BY <1>1 DEF TeamIInv, TeamInv, JobInv
    <3> QED
      BY <1>1, <1>2, <3>3, <3>4, <3>6, <3>7, Still, JobKids, PauseOK
  <2> QED
    BY <2>1, <2>2
<1> QED
  BY <1>1, <1>3, Still, SameTeams, Parts

-----------------------------------------------------------------------------
(* The invariant.                                                          *)

LEMMA InitialTeams == TeamInit => TeamIInv
<1> SUFFICES ASSUME TeamInit PROVE TeamIInv
  OBVIOUS
<1>1. AgentInv
  BY InitHolds DEF TeamInit
<1>2. JobInv /\ VisitInv /\ job \in JobState /\ job.completed \subseteq job.ended
  BY DEF TeamInit, NoJob, JobInv, VisitInv, JobState, Subs
<1>3. NoFile \in TeamState /\ NoFile.ids = {} /\ ~NoFile.error
  BY DEF NoFile, TeamState
<1>4. \A x \in Teams: team[x] = NoFile
  BY DEF TeamInit
<1>5. team \in [Teams -> TeamState] /\ TeamsDisjoint
  BY <1>3, <1>4 DEF TeamInit, TeamsDisjoint
<1>6. FilesInv
  BY <1>3, <1>4, FS_EmptySet DEF FilesInv
<1>7. EndsInv
  <2>1. \A a \in Agents: ~HasPrompt(a)
    BY DEF TeamInit, Init, HasPrompt
  <2>2. thr[Loop].pc = "idle"
    BY DEF TeamInit, Init, Threads, Idle
  <2> QED
    BY <1>3, <1>4, <2>1, <2>2 DEF EndsInv, Handling
<1> QED
  BY <1>1, <1>2, <1>5, <1>6, <1>7, Parts DEF JobOK, TeamsInv, TeamInit

LEMMA TeamStepKeeps == TeamIInv /\ [TeamNext]_tvars => TeamIInv'
<1> SUFFICES ASSUME TeamIInv, [TeamNext]_tvars PROVE TeamIInv'
  OBVIOUS
<1>1. Revives
  BY History
<1>2. CASE Background /\ UNCHANGED <<team, job>>
  BY <1>1, <1>2, Parts, MovesKeep, SameTeams, StillJob, BackgroundBeside DEF TeamMoves, AgentMoves, Next
<1>3. CASE Alone \/ TeamRestart
  <2>1. TeamMoves /\ team' = team
    BY <1>1, <1>3 DEF Alone, TeamRestart, TeamMoves, AgentMoves, Next
  <2>2. job' = NoJob
    BY <1>3, IdleJob DEF Alone, TeamRestart, NoTeamJob
  <2> QED
    BY <1>1, <2>1, <2>2, Parts, MovesKeep, SameTeams, NoJobOK DEF TeamMoves
<1>4. CASE UNCHANGED tvars
  <2>1. UNCHANGED vars /\ team' = team /\ job' = job
    BY <1>4 DEF tvars
  <2> QED
    BY <1>1, <2>1, Still, SameTeams, StillJob, Parts
<1>5. CASE TeamStep
  BY <1>1, <1>5, SpawnTurnKeeps, ChildTurnKeeps, SubStepKeeps, UndoEndsKeeps, SumBeginsKeeps, SumEndsKeeps, DespawnEndsKeeps
  DEF TeamStep
<1>6. CASE \E x \in Teams: TeamSpawn(x) \/ (\E op \in TeamOps: TeamCall(op, x))
  BY <1>1, <1>6, TeamSpawnKeeps, TeamCallKeeps
<1>7. CASE \E x, y \in Teams: TeamRetry(x, y)
  BY <1>1, <1>7, TeamRetryKeeps
<1> QED
  BY <1>2, <1>3, <1>4, <1>5, <1>6, <1>7 DEF TeamNext

\* What the agents, the files of the teams and the handler of a team may be, in every reachable state.
THEOREM TeamInvariance == TeamSpec => []TeamIInv
BY InitialTeams, TeamStepKeeps, PTL DEF TeamSpec

\* What team files and the team handler may be; with it, each kind of value is of its type and a summary
\* counts only ends as completed.
THEOREM TeamStates == TeamSpec => []TeamInv
BY TeamInvariance, PTL DEF TeamIInv

\* A team whose spawning failed has no child left running, but one whose end a race has undone since.
THEOREM FailuresCleanUp == TeamSpec => []FailedSpawnCleansUp
<1>1. TeamIInv => FailedSpawnCleansUp
  BY DEF TeamIInv, TeamInv, EndsInv, FailedSpawnCleansUp
<1> QED
  BY <1>1, TeamInvariance, PTL

\* A summary that says a team is over is right when it is given, although its children were read one
\* after the other, but for a child whose end a race has undone.
THEOREM SummariesStand == TeamSpec => SummaryStands
<1>1. TeamIInv /\ [TeamNext]_tvars =>
          (job.pc = "sum" /\ job'.op = "none" /\ Verdict \in {"completed", "completed_with_failures"} => Over(job.x))
  <2> SUFFICES ASSUME TeamIInv, job.pc = "sum", Verdict \in {"completed", "completed_with_failures"}
               PROVE  Over(job.x)
    OBVIOUS
  <2>1. job.op # "none"
    BY IdleJob DEF NoJob
  <2>2. /\ job.ended \subseteq team[job.x].ids /\ job.completed \subseteq job.ended
        /\ IsFiniteSet(team[job.x].ids)
    BY <2>1 DEF TeamIInv, TeamInv, JobInv, FilesInv, TeamTypeOK
  <2>3. job.ended = team[job.x].ids
    <3>1. CASE job.completed = team[job.x].ids
      BY <2>2, <3>1
    <3>2. CASE Cardinality(job.ended) >= Cardinality(team[job.x].ids)
      <4>1. Cardinality(job.ended) \in Nat /\ Cardinality(team[job.x].ids) \in Nat
        BY <2>2, FS_Subset, FS_CardinalityType
      <4>2. Cardinality(job.ended) <= Cardinality(team[job.x].ids)
            /\ (Cardinality(job.ended) = Cardinality(team[job.x].ids) => job.ended = team[job.x].ids)
        BY <2>2, FS_Subset
      <4>3. Cardinality(job.ended) = Cardinality(team[job.x].ids)
        BY <3>2, <4>1, <4>2
      <4> QED
        BY <4>2, <4>3
    <3> QED
      BY <3>1, <3>2 DEF Verdict
  <2> QED
    BY <2>3 DEF TeamIInv, TeamInv, VisitInv, Over
<1> QED
  BY <1>1, TeamInvariance, PTL DEF TeamSpec, SummaryStands

\* The summary of a cancelled team begins when no child of it is left running, but one whose end a race
\* has undone.
THEOREM CancelsReachAll == TeamSpec => CancelReachesAll
<1>1. TeamIInv /\ [TeamNext]_tvars =>
          (job.op = "cancel" /\ job.pc = "next" /\ job'.pc = "sum" => Over(job.x))
  <2> SUFFICES ASSUME TeamIInv, [TeamNext]_tvars, job.op = "cancel", job.pc = "next", job'.pc = "sum"
               PROVE  Over(job.x)
    OBVIOUS
  <2>1. job.todo = {}
    <3>1. job \in JobState
      BY DEF TeamIInv, TeamInv, TeamTypeOK
    <3>2. CASE SumBegins
      BY <3>2 DEF SumBegins
    <3>3. CASE \E a \in Agents: ChildTurn(a)
      <4>1. PICK a \in Agents: ChildTurn(a)
        BY <3>3
      <4>2. PICK p, b, S: /\ job' = [job EXCEPT !.todo = S, !.a = b, !.pc = p]
                          /\ p = IF Exists(a) THEN InTurn[job.pc] ELSE job.pc
        BY <4>1 DEF ChildTurn
      <4>3. job'.pc = p
        BY <3>1, <4>2 DEF JobState
      <4>4. p \in {"sub", "next"}
        BY <4>2 DEF InTurn
      <4> QED
        BY <4>3, <4>4
    <3>4. job'.pc # "sum" \/ SumBegins \/ (\E a \in Agents: ChildTurn(a))
      <4>1. ~NoTeamJob /\ job' # NoJob
        BY DEF NoTeamJob, NoJob
      <4>2. ~(\E a \in Agents: SpawnTurn(a)) /\ ~SubStep /\ ~UndoEnds /\ ~SumEnds /\ ~DespawnEnds
        BY DEF SpawnTurn, SubStep, UndoEnds, SumEnds, DespawnEnds
      <4>3. CASE job' = job
        BY <4>3
      <4>4. ~TeamRestart /\ ~Alone /\ ~(\E x \in Teams: TeamSpawn(x) \/ (\E op \in TeamOps: TeamCall(op, x)))
            /\ ~(\E x, y \in Teams: TeamRetry(x, y))
        BY <4>1 DEF TeamRestart, Alone, TeamSpawn, TeamCall, TeamRetry
      <4> QED
        BY <4>2, <4>3, <4>4 DEF TeamNext, TeamStep, tvars
    <3> QED
      BY <3>2, <3>3, <3>4
  <2>2. job.a = NoAgent /\ team[job.x].ids \subseteq Agents
    BY DEF TeamIInv, TeamInv, JobInv, TeamTypeOK, TeamState
  <2> QED
    BY <2>1, <2>2 DEF TeamIInv, TeamInv, VisitInv, Visited, Over
<1> QED
  BY <1>1, TeamInvariance, PTL DEF TeamSpec, CancelReachesAll

\* A team that is removed leaves no child that runs and no directory with a prompt, but of a child whose
\* end a race has undone.
THEOREM DespawnsTakeChildren == TeamSpec => DespawnTakesChildren
<1>1. TeamIInv /\ [TeamNext]_tvars =>
          \A x \in Teams: team[x].there /\ ~team'[x].there
                            => \A a \in team[x].ids: a \in revived' \/ (IsOver(a)' /\ ~HasPrompt(a)')
  <2> SUFFICES ASSUME TeamIInv, [TeamNext]_tvars, NEW x \in Teams, team[x].there, ~team'[x].there,
                      NEW a \in team[x].ids
               PROVE  a \in revived' \/ (IsOver(a)' /\ ~HasPrompt(a)')
    OBVIOUS
  <2>1. DespawnEnds /\ x = job.x
    <3>1. team \in [Teams -> TeamState] /\ team' # team
      BY DEF TeamIInv, TeamInv, TeamTypeOK
    <3>2. ASSUME NEW y \in Teams, NEW n, StartTeam(y, n) PROVE FALSE
      <4>1. NewFile.there
        BY DEF NewFile, NoFile
      <4> QED
        BY <3>1, <3>2, <4>1 DEF StartTeam
    <3>3. ~SubStep /\ ~UndoEnds
      <4>1. ASSUME NEW y, NEW S, team' = [team EXCEPT ![y].ids = S] PROVE FALSE
        BY <3>1, <4>1 DEF TeamState
      <4>2. ASSUME NEW y, team' = [team EXCEPT ![y].error = TRUE] PROVE FALSE
        BY <3>1, <4>2 DEF TeamState
      <4> QED
        BY <3>1, <4>1, <4>2 DEF SubStep, UndoEnds
    <3>4. ~(\E b \in Agents: SpawnTurn(b) \/ ChildTurn(b)) /\ ~SumBegins /\ ~SumEnds /\ ~TeamRestart /\ ~Alone
          /\ ~(Background /\ UNCHANGED <<team, job>>) /\ ~UNCHANGED tvars
      BY <3>1 DEF SpawnTurn, ChildTurn, SumBegins, SumEnds, TeamRestart, Alone, tvars
    <3>5. ~(\E y \in Teams: TeamSpawn(y) \/ (\E op \in TeamOps: TeamCall(op, y)))
          /\ ~(\E y, z \in Teams: TeamRetry(y, z))
      BY <3>1, <3>2 DEF TeamSpawn, TeamCall, TeamRetry
    <3>6. DespawnEnds
      BY <3>3, <3>4, <3>5 DEF TeamNext, TeamStep
    <3> QED
      BY <3>1, <3>6 DEF DespawnEnds
  <2>2. /\ job.op = "despawn" /\ job.pc = "next" /\ job.todo = {} /\ UNCHANGED vars /\ job.a = NoAgent
    BY <2>1 DEF DespawnEnds, TeamIInv, TeamInv, JobInv
  <2>3. Revives
    BY History
  <2>4. a \in team[job.x].ids /\ a \in Visited
    BY <2>1, <2>2, <2>3, Still, JobKids DEF Visited
  <2>5. a \in revived \/ (IsOver(a) /\ ~HasPrompt(a))
    BY <2>2, <2>4 DEF TeamIInv, TeamInv, VisitInv, Over, RestsOver
  <2> QED
    BY <2>2, <2>3, <2>5, Still, Grows DEF IsOver, HasPrompt
<1> QED
  BY <1>1, TeamInvariance, PTL DEF TeamSpec, DespawnTakesChildren


-----------------------------------------------------------------------------
(* AgentTeams implements Agent.                                             *)

\* A step of the composition is, for the agents, a handler that a client could have called, a step of
\* one, or a step of an agent's own processes.
LEMMA TeamStepMoves == ASSUME TeamIInv, [TeamNext]_tvars PROVE AgentMoves
<1>1. CASE Background \/ Alone \/ TeamRestart \/ SubStep
  BY <1>1 DEF Alone, TeamRestart, SubStep, Next, AgentMoves
<1>2. CASE UNCHANGED tvars \/ UndoEnds \/ SumBegins \/ SumEnds \/ DespawnEnds
  BY <1>2 DEF tvars, UndoEnds, SumBegins, SumEnds, DespawnEnds, AgentMoves
<1>3. CASE \E x \in Teams: TeamSpawn(x) \/ (\E op \in TeamOps: TeamCall(op, x)) \/ (\E y \in Teams: TeamRetry(x, y))
  BY <1>3 DEF TeamSpawn, TeamCall, TeamRetry, AgentMoves
<1>4. ASSUME NEW a \in Agents, SpawnTurn(a) PROVE AgentMoves
  <2>1. SpawnBegin(a) /\ thr[Loop].pc = "idle"
    BY <1>4 DEF SpawnTurn, TeamIInv, TeamInv, JobInv, LoopFree
  <2> QED
    BY <2>1 DEF AgentMoves
<1>5. ASSUME NEW a \in Agents, ChildTurn(a) PROVE AgentMoves
  BY <1>5, TurnFacts, History DEF TeamMoves
<1> QED
  BY <1>1, <1>2, <1>3, <1>4, <1>5 DEF TeamNext, TeamStep

\* Where a client may call these four handlers, each such move is a step of Agent.
LEMMA MovesAreSteps ==
    ASSUME {"spawn", "get", "cancel", "despawn"} \subseteq Ops, AgentMoves PROVE [Next]_vars
<1>1. CASE thr[Loop].pc = "idle" /\ \E a \in Agents: SpawnBegin(a)
  BY <1>1 DEF SpawnAgent, Calls, Next
<1>2. ASSUME NEW op \in ChildOps, NEW a \in Agents, Known(a), Begin(op, a) PROVE Next
  BY <1>2 DEF ChildOps, Call, Calls, Next
<1> QED
  BY <1>1, <1>2 DEF AgentMoves

\* The handlers of teams do nothing to an agent that the agent's own handlers, called by a client one
\* after the other, could not do: what is true of every behaviour of Agent is true with teams as well.
THEOREM TeamsImplementAgents ==
    ASSUME {"spawn", "get", "cancel", "despawn"} \subseteq Ops PROVE TeamSpec => Spec
<1>1. TeamInit => Init
  BY DEF TeamInit
<1>2. TeamIInv /\ [TeamNext]_tvars => [Next]_vars
  BY TeamStepMoves, MovesAreSteps
<1> QED
  BY <1>1, <1>2, TeamInvariance, PTL DEF TeamSpec, Spec
====================
