----------------------------- MODULE JobsProofs -----------------------------
(***************************************************************************)
(* Proofs about Jobs, for any set of jobs and threads, any restarts, and   *)
(* both settings of KillsGroup.                                            *)
(*                                                                         *)
(* JobsInv is inductive.  _normalize_status is the hard part: three tools  *)
(* run it, on one job or on all, so what it leaves in meta.json is stated  *)
(* first, then what it keeps of the invariant, then the actions follow.    *)
(***************************************************************************)
EXTENDS Jobs, TLAPS

\* The fields of a meta.json.
LEMMA MetaFields ==
    ASSUME NEW m \in Meta
    PROVE  /\ m.status \in Statuses
           /\ m.pid \in BOOLEAN
           /\ m.exit \in {"none"} \cup Exits
           /\ m.note \in BOOLEAN
BY DEF Meta

\* A write of the status keeps the shape of meta.json and its other fields.
LEMMA StatusWrite ==
    ASSUME meta \in [Jobs -> Meta], NEW i \in Jobs, NEW s \in Statuses,
           meta' = [meta EXCEPT ![i].status = s]
    PROVE  /\ meta' \in [Jobs -> Meta]
           /\ \A j \in Jobs \ {i} : meta'[j] = meta[j]
           /\ meta'[i].status = s
           /\ meta'[i].pid = meta[i].pid
           /\ meta'[i].exit = meta[i].exit
           /\ meta'[i].note = meta[i].note
BY DEF Meta

\* So does the watcher's last write, of the status and the exit code.
LEMMA FinalWrite ==
    ASSUME meta \in [Jobs -> Meta], NEW i \in Jobs, NEW s \in Statuses, NEW e \in Exits,
           meta' = [meta EXCEPT ![i].status = s, ![i].exit = e]
    PROVE  /\ meta' \in [Jobs -> Meta]
           /\ \A j \in Jobs \ {i} : meta'[j] = meta[j]
           /\ meta'[i].status = s
           /\ meta'[i].exit = e
           /\ meta'[i].pid = meta[i].pid
           /\ meta'[i].note = meta[i].note
BY DEF Meta

\* _mark_stalled_if_needed turns at most "running" into "stalled", of one job.
LEMMA MarkStalledWrite ==
    ASSUME meta \in [Jobs -> Meta], NEW i \in Jobs, MarkStalled(i)
    PROVE  /\ meta' \in [Jobs -> Meta]
           /\ \A j \in Jobs :
                 /\ meta'[j].pid = meta[j].pid
                 /\ meta'[j].exit = meta[j].exit
                 /\ meta'[j].note = meta[j].note
                 /\ \/ meta'[j].status = meta[j].status
                    \/ meta[j].status = "running" /\ meta'[j].status = "stalled"
<1>1. meta[i].status \in Statuses
  BY MetaFields
<1>2. CASE quiet[i] = "quiet" /\ meta[i].status = "running"
  <2>1. meta' = [meta EXCEPT ![i].status = "stalled"]
    BY <1>2 DEF MarkStalled
  <2> QED
    BY <1>2, <2>1, StatusWrite DEF Statuses, Active
<1>3. CASE ~(quiet[i] = "quiet" /\ meta[i].status = "running")
  <2>1. meta' = [meta EXCEPT ![i].status = meta[i].status]
    BY <1>3 DEF MarkStalled
  <2> QED
    BY <1>1, <2>1, StatusWrite
<1> QED
  BY <1>2, <1>3

-----------------------------------------------------------------------------

\* The vocabulary of states, and the parts of the invariant.
USE JobsAssumption DEF JobsInv, TypeOK, CallInv, JobInv, StatusTruth, WaitReportStands,
    callVars, Callers, Starting, Stopping, Answers, Statuses, Active, Terminal,
    Exits, Procs, Deadlines, Quiets, Running, Watchers, Places, Alive, LockFree

-----------------------------------------------------------------------------
(* _normalize_status. *)

\* What _normalize_status leaves: meta.json as it was, an end read off the exit
\* code of a tracked process, or "failed" with the note.
LEMMA NormalizedFields ==
    ASSUME JobsInv, NEW j \in Jobs
    PROVE  /\ Normalized(j) \in Meta
           /\ Normalized(j).pid = meta[j].pid
           /\ ~Unnoticed(j) => Normalized(j) = meta[j]
           /\ Unnoticed(j) /\ j \in tracked =>
                 /\ Normalized(j).status = ExitStatus(proc[j])
                 /\ Normalized(j).exit = proc[j]
                 /\ Normalized(j).note = meta[j].note
           /\ Unnoticed(j) /\ j \notin tracked =>
                 /\ Normalized(j).status = "failed"
                 /\ Normalized(j).exit = "none"
                 /\ Normalized(j).note
<1>1. meta[j] \in Meta
  OBVIOUS
<1>2. Unnoticed(j) /\ j \in tracked => proc[j] \in Exits
  BY DEF Unnoticed
<1> HIDE DEF JobsInv
<1>3. CASE ~Unnoticed(j)
  BY <1>1, <1>3 DEF Normalized
<1>4. CASE Unnoticed(j) /\ j \in tracked
  BY <1>1, <1>2, <1>4 DEF Normalized, Meta, ExitStatus
<1>5. CASE Unnoticed(j) /\ j \notin tracked
  BY <1>1, <1>5 DEF Normalized, Meta
<1> QED
  BY <1>3, <1>4, <1>5

\* A call of _normalize_status on any set of jobs keeps what meta.json and
\* _PROCS owe each other, and touches no end and no job that is not there.
LEMMA NormalizeKeeps ==
    ASSUME JobsInv, NEW S \in SUBSET Jobs, Normalize(S),
           UNCHANGED <<proc, deadline, watcher, at, job>>
    PROVE  /\ meta' \in [Jobs -> Meta]
           /\ tracked' \subseteq tracked
           /\ \A j \in Jobs :
                 /\ JobInv(j)'
                 /\ meta[j].status \notin Active => meta'[j] = meta[j]
                 /\ meta[j].status \in Active =>
                       meta'[j].status \in Active \cup {"completed", "failed"}
                 /\ meta'[j].pid = meta[j].pid
                 /\ j \in S => meta'[j] = Normalized(j)
           /\ StatusTruth'
<1>1. \A j \in Jobs : meta'[j] = IF j \in S THEN Normalized(j) ELSE meta[j]
  BY DEF Normalize
<1>2. /\ meta' \in [Jobs -> Meta]
      /\ tracked' \subseteq tracked
  BY NormalizedFields DEF Normalize
<1>3. ASSUME NEW j \in Jobs
      PROVE  /\ meta[j].status \notin Active => meta'[j] = meta[j]
             /\ meta[j].status \in Active =>
                   meta'[j].status \in Active \cup {"completed", "failed"}
             /\ meta'[j].pid = meta[j].pid
  BY <1>1, NormalizedFields DEF Unnoticed, ExitStatus
<1>4. ASSUME NEW j \in Jobs PROVE JobInv(j)'
  BY <1>1, NormalizedFields DEF Normalize, Unnoticed, PidAlive, ExitStatus
<1>5. StatusTruth'
  BY <1>1, NormalizedFields DEF Unnoticed, PidAlive, ExitStatus
<1> QED
  BY <1>1, <1>2, <1>3, <1>4, <1>5

\* The calls in progress are not disturbed either.
LEMMA NormalizeStep ==
    ASSUME JobsInv, NEW S \in SUBSET Jobs, Normalize(S),
           UNCHANGED <<proc, deadline, quiet, watcher, lock, callVars, restarts>>
    PROVE  JobsInv'
<1>1. /\ meta' \in [Jobs -> Meta] /\ tracked' \subseteq tracked
      /\ \A j \in Jobs :
            /\ JobInv(j)'
            /\ meta[j].status \notin Active => meta'[j] = meta[j]
            /\ meta[j].status \in Active =>
                  meta'[j].status \in Active \cup {"completed", "failed"}
            /\ meta'[j].pid = meta[j].pid
      /\ StatusTruth'
  BY NormalizeKeeps
<1>2. TypeOK'
  BY <1>1
<1>3. ASSUME NEW d \in Callers PROVE CallInv(d)'
  <2>1. Starting(d) => meta'[job[d]].status \in {"starting", "failed"}
    BY <1>1
  <2>2. CallInv(d) /\ mine[d] \subseteq Jobs
    OBVIOUS
  <2>3. \A j \in Jobs : meta[j].status # "absent" => meta'[j].status # "absent"
    BY <1>1
  <2> HIDE DEF JobsInv
  <2> QED
    BY <1>1, <2>1, <2>2, <2>3
<1>4. WaitReportStands'
  BY <1>1
<1> QED
  BY <1>1, <1>2, <1>3, <1>4

-----------------------------------------------------------------------------
(* The tools that run it. *)

\* job_status keeps the invariant: it is a normalisation of one job.
LEMMA StatusStep ==
    ASSUME JobsInv, NEW i \in Jobs, Status(i)
    PROVE  JobsInv'
BY NormalizeStep DEF Status

\* list_jobs keeps the invariant: it is a normalisation of every job.
LEMMA ListStep ==
    ASSUME JobsInv, List
    PROVE  JobsInv'
BY NormalizeStep DEF List

\* The status call inside wait_jobs keeps the invariant, the ends it has read included.
LEMMA WaitStatusStep ==
    ASSUME JobsInv, NEW c \in Threads, NEW i \in Jobs, WaitStatus(c, i)
    PROVE  JobsInv'
<1>1. /\ Normalize({i})
      /\ UNCHANGED <<proc, deadline, watcher, lock, at, job, mine>>
      /\ i \in mine[c] /\ seen[c][i] = "unseen"
  BY DEF WaitStatus
<1>2. /\ meta' \in [Jobs -> Meta] /\ tracked' \subseteq tracked
      /\ \A j \in Jobs :
            /\ JobInv(j)'
            /\ meta[j].status \notin Active => meta'[j] = meta[j]
            /\ meta[j].status \in Active =>
                  meta'[j].status \in Active \cup {"completed", "failed"}
            /\ meta'[j].pid = meta[j].pid
      /\ meta'[i] = Normalized(i)
      /\ StatusTruth'
  BY <1>1, NormalizeKeeps
<1>3. seen' = [seen EXCEPT ![c] = [seen[c] EXCEPT ![i] = Answer(meta'[i])]]
  BY <1>2 DEF WaitStatus
<1>4. /\ Answer(meta'[i]) \in Answers
      /\ Answer(meta'[i]) \in Terminal => Answer(meta'[i]) = meta'[i].status /\ meta'[i].pid
      /\ Answer(meta'[i]) = "unstarted" => meta'[i].status = "failed"
  <2>1. meta'[i].status \in Statuses /\ JobInv(i)'
    BY <1>2, MetaFields
  <2> QED
    BY <2>1 DEF Answer
<1>5. TypeOK'
  BY <1>1, <1>2, <1>3, <1>4 DEF WaitStatus
<1>6. ASSUME NEW d \in Callers PROVE CallInv(d)'
  <2>0. /\ \A j \in Jobs : \/ seen'[d][j] = seen[d][j]
                           \/ d = c /\ j = i /\ seen'[d][j] = Answer(meta'[i])
        /\ CallInv(d)
    BY <1>3
  <2>1. \A j \in Jobs : seen'[d][j] # "unseen" => j \in mine[d]
    <3> HIDE DEF JobsInv
    <3> QED
      BY <1>1, <2>0
  <2>2. \A j \in Jobs : seen'[d][j] \in Terminal => meta'[j].pid
    <3> HIDE DEF JobsInv
    <3> QED
      BY <1>2, <1>4, <2>0
  <2>3. Starting(d) => meta'[job[d]].status \in {"starting", "failed"}
    BY <1>1, <1>2
  <2>4. CallInv(d) /\ mine[d] \subseteq Jobs
    OBVIOUS
  <2> HIDE DEF JobsInv
  <2> QED
    BY <1>1, <1>2, <2>1, <2>2, <2>3, <2>4
<1>7. WaitReportStands'
  <2> SUFFICES ASSUME NEW d \in Threads, NEW j \in Jobs
               PROVE  /\ seen'[d][j] \in Terminal => meta'[j].status \in {seen'[d][j], "timeout"}
                      /\ seen'[d][j] = "unstarted" => meta'[j].status = "failed" \/ meta'[j].pid
    OBVIOUS
  <2>1. seen'[d][j] = seen[d][j] \/ (j = i /\ seen'[d][j] = Answer(meta'[i]))
    BY <1>3
  <2>2. CASE seen'[d][j] = seen[d][j]
    BY <1>2, <2>2, SMTT(40)
  <2> QED
    BY <1>4, <2>1, <2>2
<1> QED
  BY <1>2, <1>5, <1>6, <1>7

-----------------------------------------------------------------------------
(* The writes of start_background_job. *)

\* start_background_job's first write, of a job nobody else knows yet.
LEMMA StartWriteStep ==
    ASSUME JobsInv, NEW c \in Callers, NEW i \in Jobs, NEW timed \in TimeoutArgs,
           NEW quieted \in QuietArgs, StartWrite(c, i, timed, quieted)
    PROVE  JobsInv'
<1> USE DEF StartWrite, AfterStart, MetaOf, Meta
<1>1. /\ c = Loop => at[c] = "idle"
      /\ c # Loop => at[c] = "next"
      /\ meta[i].status = "absent"
  OBVIOUS
<1>2. TypeOK'
  OBVIOUS
<1>3. ASSUME NEW d \in Callers PROVE CallInv(d)'
  <2>1. ASSUME NEW e \in Callers, job[e] = i PROVE FALSE
    <3>1. Starting(e) => meta[i].status \in {"starting", "failed"}
      BY <2>1
    <3>2. Stopping(e) => meta[i].pid
      BY <2>1
    <3> QED
      BY <1>1, <2>1, <3>1, <3>2
  <2>2. CASE d = c
    BY <2>1, <2>2, <1>1
  <2>3. CASE d # c
    BY <2>1, <2>3, <1>1
  <2> QED
    BY <2>2, <2>3
<1>4. ASSUME NEW j \in Jobs PROVE JobInv(j)'
  BY <1>1
<1>5. StatusTruth' /\ WaitReportStands'
  BY <1>1
<1> QED
  BY <1>2, <1>3, <1>4, <1>5

\* start_background_job's second write and its entry in _PROCS.
LEMMA RegisterStep ==
    ASSUME JobsInv, NEW c \in Callers, Register(c)
    PROVE  JobsInv'
<1>0. PICK i \in Jobs : i = job[c]
  BY DEF Register
<1>1. /\ at[c] = "register"
      /\ lock = NoJob
      /\ watcher[i] = "none" /\ ~meta[i].pid /\ proc[i] # "none" /\ i \notin tracked
      /\ \A d \in Callers : job[d] = i => d = c
      /\ AfterStart(c) \in {"idle", "next"}
  BY <1>0 DEF Register, AfterStart
<1>2. MetaOf("running", TRUE) \in Meta
  BY DEF MetaOf, Meta
<1>3. /\ meta' = [meta EXCEPT ![i] = MetaOf("running", TRUE)]
      /\ tracked' = tracked \cup {i}
      /\ watcher' = [watcher EXCEPT ![i] = "begin"]
      /\ at' = [at EXCEPT ![c] = AfterStart(c)]
      /\ job' = [job EXCEPT ![c] = NoJob]
      /\ mine' = [mine EXCEPT ![c] = IF c = Loop THEN {} ELSE mine[c] \cup {i}]
      /\ UNCHANGED <<proc, deadline, quiet, lock, seen, limit, restarts>>
  BY <1>0 DEF Register
<1>4. TypeOK'
  <2>1. mine' \in [Callers -> SUBSET Jobs]
    BY <1>1, <1>3
  <2>2. \A j \in Jobs : lock' = j <=> watcher'[j] = "grace"
    BY <1>1, <1>3
  <2>3. TypeOK
    OBVIOUS
  <2> HIDE DEF JobsInv
  <2>4. /\ meta' \in [Jobs -> Meta] /\ tracked' \subseteq Jobs /\ watcher' \in [Jobs -> Watchers]
        /\ at' \in [Callers -> Places] /\ job' \in [Callers -> Jobs \cup {NoJob}]
    BY <1>1, <1>2, <1>3, <2>3
  <2> QED
    BY <1>3, <2>1, <2>2, <2>3, <2>4
<1>5. /\ \A j \in Jobs : j # i => meta'[j] = meta[j]
      /\ meta'[i].status = "running" /\ meta'[i].pid
      /\ meta'[i].exit = "none" /\ ~meta'[i].note
  BY <1>1, <1>3 DEF MetaOf
<1>6. ASSUME NEW d \in Callers PROVE CallInv(d)'
  <2>1. \A e \in Callers : job'[e] = i => FALSE
    BY <1>1, <1>3
  <2>2. \A j \in Jobs : meta[j].status # "absent" => meta'[j].status # "absent"
    BY <1>5
  <2>4. CallInv(d) /\ mine[d] \subseteq Jobs
    OBVIOUS
  <2>5. mine[d] \subseteq mine'[d] /\ mine'[d] \subseteq mine[d] \cup {i}
    BY <1>0, <1>1, <1>3
  <2>6. \A j \in mine'[d] : meta'[j].status # "absent"
    BY <1>5, <2>2, <2>4, <2>5
  <2>7. \A j \in Jobs :
           /\ seen'[d][j] # "unseen" => j \in mine'[d]
           /\ seen'[d][j] \in Terminal => meta'[j].pid
    BY <1>1, <1>3, <1>5, <2>4, <2>5
  <2>8. CASE d = c
    BY <1>1, <1>3, <2>6, <2>7, <2>8
  <2>9. CASE d # c
    <3>1. at'[d] = at[d] /\ job'[d] = job[d] /\ job[d] # i
      BY <1>1, <1>3, <2>9
    <3>2. Starting(d) \/ Stopping(d) => meta'[job[d]] = meta[job[d]]
      BY <1>5, <2>4, <3>1
    <3>3. ASSUME NEW e \in Callers, Starting(d), job'[e] = job[d] PROVE e = d
      <4>1. job[d] \in Jobs /\ job[e] = job[d]
        BY <1>1, <1>3, <2>4, <3>3
      <4> QED
        BY <2>4, <3>3, <4>1
    <3>4. proc' = proc
      BY <1>3
    <3>5. Starting(d) => \A e \in Callers : job'[e] = job'[d] => e = d
      BY <3>1, <3>3
    <3>6. Starting(d) \/ Stopping(d) => job[d] \in Jobs
      BY <2>4
    <3>7. UNCHANGED <<seen>>
      BY <1>3
    <3>8. mine'[d] = mine[d]
      BY <1>3, <2>9
    <3> QED
      BY <2>4, <2>6, <2>7, <3>1, <3>2, <3>4, <3>5, <3>6, <3>7, <3>8
  <2> QED
    BY <2>8, <2>9
<1>7. ASSUME NEW j \in Jobs PROVE JobInv(j)'
  <2>1. watcher'[i] = "begin" /\ i \in tracked' /\ proc'[i] # "none"
    BY <1>1, <1>3
  <2>2. JobInv(i)'
    BY <1>5, <2>1
  <2>3. CASE j # i
    BY <1>3, <1>5, <2>3
  <2> QED
    BY <2>2, <2>3
<1>8. StatusTruth'
  <2>1. proc' = proc /\ deadline' = deadline
    BY <1>3
  <2> QED
    BY <1>5, <2>1
<1>9. WaitReportStands'
  <2>1. ASSUME NEW d \in Threads PROVE seen[d][i] \notin Terminal
    <3>1. CallInv(d) /\ ~meta[i].pid /\ i \in Jobs
      BY <1>1
    <3> HIDE DEF JobsInv
    <3> QED
      BY <3>1
  <2>2. WaitReportStands /\ seen' = seen
    BY <1>3
  <2> HIDE DEF JobsInv
  <2> QED
    BY <1>5, <2>1, <2>2
<1> QED
  BY <1>4, <1>6, <1>7, <1>8, <1>9

-----------------------------------------------------------------------------
(* The writes of the watcher and of stop_job. *)

\* The watcher's turn before the end: a stall marked, a deadline found passed.
LEMMA WatchTickStep ==
    ASSUME JobsInv, NEW i \in Jobs, WatchTick(i) \/ WatchTimeout(i)
    PROVE  JobsInv'
<1>1. /\ meta' \in [Jobs -> Meta]
      /\ \A j \in Jobs :
            /\ meta'[j].pid = meta[j].pid
            /\ meta'[j].exit = meta[j].exit
            /\ meta'[j].note = meta[j].note
            /\ \/ meta'[j].status = meta[j].status
               \/ meta[j].status = "running" /\ meta'[j].status = "stalled"
  BY MarkStalledWrite DEF WatchTick, WatchTimeout
<1>2. TypeOK'
  <2>1. TypeOK /\ i \in Jobs
    OBVIOUS
  <2> HIDE DEF JobsInv
  <2> QED
    BY <1>1, <2>1 DEF WatchTick, WatchTimeout
<1>3. ASSUME NEW d \in Callers PROVE CallInv(d)'
  <2>1. UNCHANGED <<proc, at, job, mine, seen>>
    BY DEF WatchTick, WatchTimeout
  <2>2. CallInv(d) /\ mine[d] \subseteq Jobs
    OBVIOUS
  <2> HIDE DEF JobsInv
  <2> QED
    BY <1>1, <2>1, <2>2
<1>4. ASSUME NEW j \in Jobs PROVE JobInv(j)'
  BY <1>1, SMTT(40) DEF WatchTick, WatchTimeout
<1>5. StatusTruth'
  BY <1>1 DEF WatchTick, WatchTimeout
<1>6. WaitReportStands'
  BY <1>1 DEF WatchTick, WatchTimeout
<1> QED
  BY <1>2, <1>3, <1>4, <1>5, <1>6

\* What the watcher's last write may put over what is there.
LEMMA WatchFinalWrite ==
    ASSUME JobsInv, NEW i \in Jobs, WatchFinal(i)
    PROVE  /\ proc[i] \in Exits /\ FinalStatus(i) \in Terminal
           /\ meta' \in [Jobs -> Meta]
           /\ \A j \in Jobs : j # i => meta'[j] = meta[j]
           /\ meta'[i].status = FinalStatus(i) /\ meta'[i].exit = proc[i]
           /\ meta'[i].pid = meta[i].pid /\ meta'[i].note = meta[i].note
           /\ meta[i].status \in Terminal => FinalStatus(i) \in {meta[i].status, "timeout"}
<1>1. proc[i] \in Exits /\ FinalStatus(i) \in Terminal
  BY DEF WatchFinal, FinalStatus, ExitStatus
<1>2. /\ meta' \in [Jobs -> Meta]
      /\ \A j \in Jobs : j # i => meta'[j] = meta[j]
      /\ meta'[i].status = FinalStatus(i) /\ meta'[i].exit = proc[i]
      /\ meta'[i].pid = meta[i].pid /\ meta'[i].note = meta[i].note
  <2>1. meta' = [meta EXCEPT ![i].status = FinalStatus(i), ![i].exit = proc[i]]
    BY DEF WatchFinal
  <2>2. meta \in [Jobs -> Meta] /\ FinalStatus(i) \in Statuses
    BY <1>1
  <2> HIDE DEF JobsInv
  <2> QED
    BY <1>1, <2>1, <2>2, FinalWrite
<1>3. meta[i].status \in Terminal => FinalStatus(i) \in {meta[i].status, "timeout"}
  BY <1>1 DEF WatchFinal, FinalStatus, ExitStatus
<1> QED
  BY <1>1, <1>2, <1>3

\* The watcher's last write keeps the invariant.
LEMMA WatchFinalStep ==
    ASSUME JobsInv, NEW i \in Jobs, WatchFinal(i)
    PROVE  JobsInv'
<1>1. proc[i] \in Exits /\ FinalStatus(i) \in Terminal
  BY WatchFinalWrite
<1>2. /\ meta' \in [Jobs -> Meta]
      /\ \A j \in Jobs : j # i => meta'[j] = meta[j]
      /\ meta'[i].status = FinalStatus(i) /\ meta'[i].exit = proc[i]
      /\ meta'[i].pid = meta[i].pid /\ meta'[i].note = meta[i].note
  BY WatchFinalWrite
<1>3. meta[i].status \in Terminal => FinalStatus(i) \in {meta[i].status, "timeout"}
  BY WatchFinalWrite
<1>4. TypeOK'
  BY <1>2 DEF WatchFinal
<1>5. ASSUME NEW d \in Callers PROVE CallInv(d)'
  BY <1>1, <1>2 DEF WatchFinal
<1>6. ASSUME NEW j \in Jobs PROVE JobInv(j)'
  BY <1>1, <1>2 DEF WatchFinal
<1>7. StatusTruth'
  BY <1>1, <1>2 DEF WatchFinal, FinalStatus, ExitStatus
<1>8. WaitReportStands'
  BY <1>2, <1>3 DEF WatchFinal
<1> QED
  BY <1>4, <1>5, <1>6, <1>7, <1>8

\* stop_job's "killed", recorded before the signal.
LEMMA StopMarkStep ==
    ASSUME JobsInv, NEW i \in Jobs, NEW sig \in {"TERM", "KILL"}, StopMark(i, sig)
    PROVE  JobsInv'
<1>1. /\ meta' \in [Jobs -> Meta]
      /\ \A j \in Jobs : j # i => meta'[j] = meta[j]
      /\ meta'[i].status = "killed" /\ meta'[i].exit = meta[i].exit
      /\ meta'[i].pid = meta[i].pid /\ meta'[i].note = meta[i].note
  <2>1. meta \in [Jobs -> Meta] /\ meta' = [meta EXCEPT ![i].status = "killed"]
    BY DEF StopMark
  <2> HIDE DEF JobsInv
  <2> QED
    BY <2>1, StatusWrite
<1>2. meta[i].pid
  BY DEF StopMark, Unnoticed, PidAlive
<1>3. TypeOK'
  BY <1>1 DEF StopMark
<1>4. ASSUME NEW d \in Callers PROVE CallInv(d)'
  BY <1>1, <1>2 DEF StopMark
<1>5. ASSUME NEW j \in Jobs PROVE JobInv(j)'
  BY <1>1, <1>2 DEF StopMark, Unnoticed
<1>6. StatusTruth' /\ WaitReportStands'
  BY <1>1, <1>2 DEF StopMark
<1> QED
  BY <1>3, <1>4, <1>5, <1>6

-----------------------------------------------------------------------------
(* The other actions change a variable or two. *)

\* An exited process stays exited, so what was said of it stays true.
LEMMA ExitsStand ==
    ASSUME JobsInv, UNCHANGED <<meta, deadline>>,
           \A j \in Jobs : proc[j] \in Exits => proc'[j] = proc[j]
    PROVE  StatusTruth'
<1>1. \A j \in Jobs : meta[j].exit \in {"none"} \cup Exits
  BY MetaFields
<1> QED
  BY <1>1

\* The steps of calls that touch no meta.json of another job.
LEMMA CallStep ==
    ASSUME JobsInv, NEW c \in Callers,
           \/ Launch(c) \/ LaunchFails(c)
           \/ c \in Threads /\ (ParallelCall(c) \/ StartRefused(c) \/ ParallelWait(c) \/ WaitReturn(c)
                                  \/ WaitAgain(c))
           \/ \E S \in SUBSET Jobs, timed \in TimeoutArgs : WaitCall(c, S, timed)
    PROVE  JobsInv'
<1>1. ASSUME Launch(c) PROVE JobsInv'
  BY <1>1 DEF Launch
<1>2. ASSUME LaunchFails(c) PROVE JobsInv'
  BY <1>2 DEF LaunchFails, AfterRaise, MetaOf, Meta
<1>3. ASSUME c \in Threads, ParallelCall(c) PROVE JobsInv'
  BY <1>3 DEF ParallelCall, Free, Unseen
<1>4. ASSUME c \in Threads, StartRefused(c) PROVE JobsInv'
  BY <1>4 DEF StartRefused
<1>5. ASSUME c \in Threads, ParallelWait(c) PROVE JobsInv'
  BY <1>5 DEF ParallelWait
<1>6. ASSUME c \in Threads, WaitReturn(c) PROVE JobsInv'
  BY <1>6 DEF WaitReturn, RoundOver
<1>7. ASSUME c \in Threads, WaitAgain(c) PROVE JobsInv'
  BY <1>7 DEF WaitAgain, Unseen
<1>8. ASSUME NEW S \in SUBSET Jobs, NEW timed \in TimeoutArgs, WaitCall(c, S, timed)
      PROVE  JobsInv'
  BY <1>8 DEF WaitCall, Free, Unseen
<1> QED
  BY <1>1, <1>2, <1>3, <1>4, <1>5, <1>6, <1>7, <1>8

\* The steps of watcher, capture thread, process and clock that write no status.
LEMMA ThreadStep ==
    ASSUME JobsInv, NEW i \in Jobs,
           \/ Append(i) \/ WatchBegin(i) \/ WatchPoll(i) \/ WatchKill(i)
           \/ ProcExit(i) \/ DeadlinePasses(i) \/ QuietPasses(i)
    PROVE  JobsInv'
<1>1. ASSUME Append(i) PROVE JobsInv'
  BY <1>1 DEF Append
<1>2. ASSUME WatchBegin(i) PROVE JobsInv'
  BY <1>2 DEF WatchBegin
<1>3. ASSUME WatchPoll(i) PROVE JobsInv'
  BY <1>3 DEF WatchPoll
<1>4. ASSUME WatchKill(i) PROVE JobsInv'
  <2>1. TypeOK'
    BY <1>4 DEF WatchKill, SigKill
  <2>2. ASSUME NEW d \in Callers PROVE CallInv(d)'
    BY <1>4 DEF WatchKill, SigKill
  <2>3. ASSUME NEW j \in Jobs PROVE JobInv(j)'
    BY <1>4 DEF WatchKill, SigKill
  <2>4. StatusTruth'
    BY <1>4, ExitsStand DEF WatchKill, SigKill
  <2>5. WaitReportStands'
    BY <1>4 DEF WatchKill, SigKill
  <2> QED
    BY <2>1, <2>2, <2>3, <2>4, <2>5
<1>5. ASSUME ProcExit(i) PROVE JobsInv'
  <2>1. TypeOK'
    BY <1>5 DEF ProcExit
  <2>2. ASSUME NEW d \in Callers PROVE CallInv(d)'
    BY <1>5 DEF ProcExit
  <2>3. ASSUME NEW j \in Jobs PROVE JobInv(j)'
    BY <1>5 DEF ProcExit
  <2>4. StatusTruth'
    BY <1>5, ExitsStand DEF ProcExit
  <2>5. WaitReportStands'
    BY <1>5 DEF ProcExit
  <2> QED
    BY <2>1, <2>2, <2>3, <2>4, <2>5
<1>6. ASSUME DeadlinePasses(i) PROVE JobsInv'
  BY <1>6 DEF DeadlinePasses
<1>7. ASSUME QuietPasses(i) PROVE JobsInv'
  BY <1>7 DEF QuietPasses
<1> QED
  BY <1>1, <1>2, <1>3, <1>4, <1>5, <1>6, <1>7

\* stop_job's signal, sent after the lock was released.
LEMMA StopSignalStep ==
    ASSUME JobsInv, StopSignal
    PROVE  JobsInv'
<1>1. TypeOK'
  BY DEF StopSignal, SigKill
<1>2. ASSUME NEW d \in Callers PROVE CallInv(d)'
  BY DEF StopSignal, SigKill
<1>3. ASSUME NEW j \in Jobs PROVE JobInv(j)'
  BY DEF StopSignal, SigKill
<1>4. StatusTruth'
  BY ExitsStand DEF StopSignal, SigKill
<1>5. WaitReportStands'
  BY DEF StopSignal, SigKill
<1> QED
  BY <1>1, <1>2, <1>3, <1>4, <1>5

\* A restart forgets threads and _PROCS and may take the processes with it.
LEMMA RestartStep ==
    ASSUME JobsInv, Restart
    PROVE  JobsInv'
<1>1. TypeOK'
  BY DEF Restart, Unseen
<1>2. ASSUME NEW d \in Callers PROVE CallInv(d)'
  BY DEF Restart, Unseen
<1>3. ASSUME NEW j \in Jobs PROVE JobInv(j)'
  BY DEF Restart, Unseen
<1>4. StatusTruth'
  BY ExitsStand DEF Restart
<1>5. WaitReportStands'
  BY DEF Restart, Unseen
<1> QED
  BY <1>1, <1>2, <1>3, <1>4, <1>5

-----------------------------------------------------------------------------
(* The theorems. *)

\* JobsInv is inductive.
LEMMA NextStep ==
    ASSUME JobsInv, [Next]_vars
    PROVE  JobsInv'
<1> HIDE DEF JobsInv, Callers
<1>1. ASSUME NEW c \in Callers, Start(c) PROVE JobsInv'
  BY <1>1, StartWriteStep, CallStep, RegisterStep DEF Start
<1>2. ASSUME NEW c \in Threads,
             \/ ParallelCall(c) \/ StartRefused(c) \/ ParallelWait(c) \/ Wait(c)
             \/ \E S \in SUBSET Jobs, timed \in TimeoutArgs : WaitCall(c, S, timed)
      PROVE  JobsInv'
  BY <1>2, CallStep, WaitStatusStep DEF Wait, Callers
<1>3. ASSUME NEW j \in Jobs, Watch(j) PROVE JobsInv'
  BY <1>3, ThreadStep, WatchTickStep, WatchFinalStep DEF Watch
<1>4. ASSUME NEW j \in Jobs,
             \/ Append(j) \/ Status(j)
             \/ \E sig \in {"TERM", "KILL"} : StopMark(j, sig)
             \/ ProcExit(j) \/ DeadlinePasses(j) \/ QuietPasses(j)
      PROVE  JobsInv'
  BY <1>4, ThreadStep, StatusStep, StopMarkStep
<1>5. CASE UNCHANGED vars
  BY <1>5 DEF JobsInv, vars, Callers
<1> QED
  BY <1>1, <1>2, <1>3, <1>4, <1>5, ListStep, StopSignalStep, RestartStep DEF Next

\* JobsInv holds throughout, and with it what it is made of.
THEOREM Invariance == Spec => []JobsInv
<1>1. Init => JobsInv
  BY DEF Init, MetaOf, Meta, Unseen
<1>2. JobsInv /\ [Next]_vars => JobsInv'
  BY NextStep
<1> QED
  BY <1>1, <1>2, PTL DEF Spec

\* Every variable has its type; the lock belongs to a watcher in its grace
\* second.
THEOREM TypeCorrect == Spec => []TypeOK
<1>1. JobsInv => TypeOK
  OBVIOUS
<1> QED
  BY <1>1, Invariance, PTL

\* What meta.json says of the end of a job is true of its process.
THEOREM StatusIsTruthful == Spec => []StatusTruth
<1>1. JobsInv => StatusTruth
  OBVIOUS
<1> QED
  BY <1>1, Invariance, PTL

\* No entry of _PROCS without a watcher, no watcher gone before the job's end is
\* on disk.
THEOREM WatchersAccountForJobs == Spec => []WatcherAccountsForJob
<1>1. JobsInv => WatcherAccountsForJob
  BY DEF WatcherAccountsForJob
<1> QED
  BY <1>1, Invariance, PTL

\* The ends wait_jobs reads one by one stay true together, but for the "failed"
\* of a job that was just being started.
THEOREM WaitReportsStand == Spec => []WaitReportStands
<1>1. JobsInv => WaitReportStands
  OBVIOUS
<1> QED
  BY <1>1, Invariance, PTL

-----------------------------------------------------------------------------
(* Jobs implements JobLifecycle. *)

USE DEF StartOver

\* An exit code never changes.
LEMMA EndedStep ==
    ASSUME JobsInv, [Next]_vars, NEW j \in Jobs
    PROVE  proc[j] \in Exits => proc'[j] = proc[j]
<1>1. CASE UNCHANGED proc
  BY <1>1
<1>2. ASSUME NEW c \in Callers, Launch(c) PROVE proc[j] \in Exits => proc'[j] = proc[j]
  BY <1>2 DEF Launch
<1>3. ASSUME NEW i \in Jobs, WatchKill(i) \/ ProcExit(i)
      PROVE  proc[j] \in Exits => proc'[j] = proc[j]
  BY <1>3 DEF WatchKill, ProcExit, SigKill
<1>4. CASE StopSignal
  BY <1>4 DEF StopSignal, SigKill
<1>5. CASE Restart
  BY <1>5 DEF Restart
<1> HIDE DEF JobsInv, Exits, Callers
<1> QED
  BY <1>1, <1>2, <1>3, <1>4, <1>5
     DEF Next, Start, StartWrite, LaunchFails, Register, ParallelCall, StartRefused,
         ParallelWait, Wait, WaitStatus, WaitReturn, WaitAgain, WaitCall, Append, Watch,
         WatchBegin, WatchPoll, WatchTick, WatchTimeout, WatchFinal, Status, StopMark,
         DeadlinePasses, QuietPasses, List, vars

\* The start of j neither ends nor begins, and its status stays or follows.
LEMMA LifeWhenStatusMoves ==
    ASSUME NEW j \in Jobs, StartOver(j)' <=> StartOver(j),
           \/ meta'[j].status = meta[j].status
           \/ /\ meta[j].status \in Active
              /\ \/ meta'[j].status \in Active \cup {"failed", "killed"}
                 \/ meta'[j].status = "completed" /\ proc[j] = "zero"
                 \/ meta'[j].status = "timeout" /\ proc[j] = "nonzero"
           \/ /\ meta[j].status \in {"failed", "killed"}
              /\ meta'[j].status = "timeout" /\ proc[j] = "nonzero"
    PROVE  Life(j)' \in Lifecycle!Following(Life(j), Ended(j))
<1> HIDE DEF StartOver
<1> QED
  BY DEF Life, Ended, Lifecycle!Following, Lifecycle!EndsFor

\* A job whose start is not over may come out of it.
LEMMA LifeWhenStartEnds ==
    ASSUME NEW j \in Jobs, ~StartOver(j), meta'[j].status \in {"starting", "running", "failed"}
    PROVE  Life(j)' \in Lifecycle!Following(Life(j), Ended(j))
<1> HIDE DEF StartOver
<1> QED
  BY DEF Life, Ended, Lifecycle!Following

\* A normalisation moves the life of a job as JobLifecycle allows.
LEMMA LifeAtNormalize ==
    ASSUME JobsInv, NEW S \in SUBSET Jobs, Normalize(S),
           UNCHANGED <<proc, deadline, watcher, at, job>>, NEW j \in Jobs
    PROVE  Life(j)' \in Lifecycle!Following(Life(j), Ended(j))
<1>1. /\ meta[j].status \notin Active => meta'[j] = meta[j]
      /\ meta[j].status \in Active =>
            meta'[j].status \in Active \cup {"completed", "failed"}
  BY NormalizeKeeps
<1>2. meta'[j].status = "completed" => proc[j] = "zero"
  <2>1. StatusTruth'
    BY NormalizeKeeps
  <2> QED
    BY <2>1
<1>3. StartOver(j)' <=> StartOver(j)
  BY <1>1
<1> HIDE DEF JobsInv
<1> QED
  BY <1>1, <1>2, <1>3, LifeWhenStatusMoves

\* Every step moves the life of every job as JobLifecycle allows.
LEMMA LifeStep ==
    ASSUME JobsInv, [Next]_vars, NEW j \in Jobs
    PROVE  Life(j)' \in Lifecycle!Following(Life(j), Ended(j))
<1> DEFINE P == Life(j)' \in Lifecycle!Following(Life(j), Ended(j))
<1> HIDE DEF P
<1>0. TypeOK
  OBVIOUS
<1>1. CASE meta' = meta /\ at' = at /\ job' = job
  BY <1>1, LifeWhenStatusMoves DEF P
<1>2. ASSUME NEW c \in Callers, NEW i \in Jobs, NEW t \in TimeoutArgs, NEW q \in QuietArgs,
             StartWrite(c, i, t, q)
      PROVE  P
  <2>1. i # j => meta'[j] = meta[j] /\ (StartOver(j)' <=> StartOver(j))
    <3>1. job[c] \notin Jobs
      BY <1>2 DEF StartWrite, AfterStart
    <3>2. ASSUME i # j, NEW e \in Callers
          PROVE  (job'[e] = j => at'[e] \in {"TERM", "KILL"})
                    <=> (job[e] = j => at[e] \in {"TERM", "KILL"})
      BY <1>2, <3>1, <3>2 DEF StartWrite
    <3> HIDE DEF JobsInv
    <3>3. ASSUME i # j PROVE meta'[j] = meta[j]
      BY <1>0, <1>2, <3>3 DEF StartWrite
    <3> QED
      BY <3>2, <3>3
  <2>2. i = j => ~StartOver(j) /\ ~StartOver(j)'
    BY <1>2 DEF StartWrite
  <2>3. i = j => Life(j)' = Life(j)
    BY <2>2 DEF Life
  <2>4. i = j => P
    BY <2>3 DEF P, Lifecycle!Following
  <2> QED
    BY <2>1, <2>4, LifeWhenStatusMoves DEF P
<1>3. ASSUME NEW c \in Callers, Launch(c) PROVE P
  <2>1. meta' = meta /\ (StartOver(j)' <=> StartOver(j))
    BY <1>3 DEF Launch
  <2> QED
    BY <2>1, LifeWhenStatusMoves DEF P
<1>4. ASSUME NEW c \in Callers, LaunchFails(c) \/ Register(c) PROVE P
  <2>1. job[c] = j => ~StartOver(j) /\ meta'[j].status \in {"running", "failed"}
    BY <1>4 DEF LaunchFails, Register, MetaOf
  <2>2. job[c] # j => meta'[j] = meta[j] /\ (StartOver(j)' <=> StartOver(j))
    <3> HIDE DEF JobsInv
    <3>1. ASSUME job[c] # j, NEW e \in Callers, e # c
          PROVE  job'[e] = job[e] /\ at'[e] = at[e]
      <4>1. CASE LaunchFails(c)
        BY <1>0, <3>1, <4>1 DEF LaunchFails
      <4>2. CASE Register(c)
        BY <1>0, <3>1, <4>2 DEF Register
      <4> QED
        BY <1>4, <4>1, <4>2
    <3>2. job'[c] = NoJob
      BY <1>0, <1>4 DEF LaunchFails, Register
    <3>3. ASSUME job[c] # j PROVE meta'[j] = meta[j]
      <4>1. CASE LaunchFails(c)
        BY <1>0, <3>3, <4>1 DEF LaunchFails
      <4>2. CASE Register(c)
        BY <1>0, <3>3, <4>2 DEF Register
      <4> QED
        BY <1>4, <4>1, <4>2
    <3> QED
      BY <3>1, <3>2, <3>3
  <2> QED
    BY <2>1, <2>2, LifeWhenStatusMoves, LifeWhenStartEnds DEF P
<1>5. ASSUME NEW i \in Jobs, WatchTick(i) \/ WatchTimeout(i) PROVE P
  <2>1. \/ meta'[j].status = meta[j].status
        \/ meta[j].status = "running" /\ meta'[j].status = "stalled"
    BY <1>5, MarkStalledWrite DEF WatchTick, WatchTimeout
  <2>2. StartOver(j)' <=> StartOver(j)
    <3>1. UNCHANGED <<at, job>>
      BY <1>5 DEF WatchTick, WatchTimeout
    <3> HIDE DEF JobsInv
    <3> QED
      BY <2>1, <3>1
  <2> QED
    BY <2>1, <2>2, LifeWhenStatusMoves DEF P
<1>6. ASSUME NEW i \in Jobs, WatchFinal(i) PROVE P
  <2>1. /\ meta'[i].status = FinalStatus(i) /\ proc[i] \in Exits
        /\ \A k \in Jobs \ {i} : meta'[k] = meta[k]
    BY <1>6, WatchFinalWrite
  <2>2. StartOver(j)' <=> StartOver(j)
    <3>1. at' = at /\ job' = job /\ meta[i].status # "absent" /\ meta'[i].status # "absent"
      BY <1>6, <2>1 DEF WatchFinal, FinalStatus, ExitStatus
    <3> HIDE DEF JobsInv
    <3> QED
      BY <2>1, <3>1
  <2>5. meta[i].status # "absent"
    BY <1>6 DEF WatchFinal
  <2>3. i = j => \/ meta[j].status \in Active
                 \/ meta'[j].status = meta[j].status
                 \/ meta[j].status \in {"failed", "killed"} /\ meta'[j].status = "timeout"
    <3>1. meta[i].status \in Terminal => FinalStatus(i) \in {meta[i].status, "timeout"}
      BY <1>6, WatchFinalWrite
    <3>2. meta[i].status = "completed" => proc[i] = "zero"
      BY <1>6
    <3> HIDE DEF JobsInv
    <3>3. meta[i].status = "completed" => FinalStatus(i) # "timeout"
      BY <3>2 DEF FinalStatus, ExitStatus
    <3>4. meta[i].status \in Active \cup Terminal
      BY <1>0, <1>6, MetaFields, <2>5 DEF WatchFinal
    <3> QED
      BY <2>1, <3>1, <3>3, <3>4
  <2>4. i = j => /\ meta'[j].status \in Terminal
                 /\ meta'[j].status = "completed" => proc[j] = "zero"
                 /\ meta'[j].status = "timeout" => proc[j] = "nonzero"
    BY <2>1 DEF FinalStatus, ExitStatus
  <2> HIDE DEF JobsInv
  <2> QED
    BY <2>1, <2>2, <2>3, <2>4, LifeWhenStatusMoves DEF P
<1>7. ASSUME NEW i \in Jobs, NEW sig \in {"TERM", "KILL"}, StopMark(i, sig) PROVE P
  <2>1. /\ meta'[i].status = "killed" /\ meta[i].status \in Active
        /\ \A k \in Jobs \ {i} : meta'[k] = meta[k]
    BY <1>7, StatusWrite DEF StopMark
  <2>2. StartOver(j)' <=> StartOver(j)
    BY <1>7, <2>1 DEF StopMark
  <2> HIDE DEF JobsInv
  <2> QED
    BY <2>1, <2>2, LifeWhenStatusMoves DEF P
<1>8. CASE StopSignal
  <2>1. meta' = meta /\ (StartOver(j)' <=> StartOver(j))
    BY <1>8 DEF StopSignal
  <2> QED
    BY <2>1, LifeWhenStatusMoves DEF P
<1>9. ASSUME NEW i \in Jobs, Status(i) PROVE P
  <2>1. Normalize({i}) /\ UNCHANGED <<proc, deadline, watcher, at, job>>
    BY <1>9 DEF Status
  <2> HIDE DEF JobsInv
  <2> QED
    BY <2>1, LifeAtNormalize DEF P
<1>10. CASE List
  BY <1>10, LifeAtNormalize DEF List, P
<1>11. ASSUME NEW c \in Threads, NEW i \in Jobs, WaitStatus(c, i) PROVE P
  <2>1. Normalize({i}) /\ UNCHANGED <<proc, deadline, watcher, at, job>>
    BY <1>11 DEF WaitStatus
  <2> HIDE DEF JobsInv
  <2> QED
    BY <2>1, LifeAtNormalize DEF P
<1>12. ASSUME NEW c \in Threads,
              \/ ParallelCall(c) \/ StartRefused(c) \/ ParallelWait(c) \/ WaitReturn(c)
              \/ WaitAgain(c)
              \/ \E S \in SUBSET Jobs, t \in TimeoutArgs : WaitCall(c, S, t)
       PROVE  P
  <2>1. meta' = meta /\ job' = job
    BY <1>12 DEF ParallelCall, StartRefused, ParallelWait, WaitReturn, WaitAgain, WaitCall
  <2>2. \A e \in Callers : at'[e] = at[e] \/ job[e] = NoJob
    BY <1>12 DEF ParallelCall, StartRefused, ParallelWait, WaitReturn, WaitAgain, WaitCall,
                 RoundOver, Free
  <2> HIDE DEF JobsInv
  <2>3. StartOver(j)' <=> StartOver(j)
    BY <2>1, <2>2
  <2> QED
    BY <2>1, <2>3, LifeWhenStatusMoves DEF P
<1>13. CASE Restart
  <2>1. meta' = meta /\ (StartOver(j) => StartOver(j)')
    BY <1>13 DEF Restart
  <2>2. ~StartOver(j) => meta[j].status \in {"absent", "starting", "failed"}
    OBVIOUS
  <2>3. meta[j].status = "absent" => ~StartOver(j) /\ ~StartOver(j)'
    BY <2>1
  <2> QED
    BY <2>1, <2>2, <2>3, LifeWhenStatusMoves, LifeWhenStartEnds DEF P
<1> HIDE DEF JobsInv, Callers
<1>14. ASSUME NEW c \in Callers, Start(c) PROVE P
  BY <1>14, <1>2, <1>3, <1>4 DEF Start
<1>15. ASSUME NEW c \in Threads, Wait(c) PROVE P
  BY <1>15, <1>11, <1>12 DEF Wait
<1>16. ASSUME NEW i \in Jobs,
              Append(i) \/ Watch(i) \/ ProcExit(i) \/ DeadlinePasses(i) \/ QuietPasses(i)
       PROVE  P
  <2>1. CASE WatchTick(i) \/ WatchTimeout(i)
    BY <2>1, <1>5
  <2>2. CASE WatchFinal(i)
    BY <2>2, <1>6
  <2>3. CASE \/ Append(i) \/ WatchBegin(i) \/ WatchPoll(i) \/ WatchKill(i)
             \/ ProcExit(i) \/ DeadlinePasses(i) \/ QuietPasses(i)
    <3>1. meta' = meta /\ at' = at /\ job' = job
      BY <2>3 DEF Append, WatchBegin, WatchPoll, WatchKill, ProcExit, DeadlinePasses,
                  QuietPasses
    <3>2. StartOver(j)' <=> StartOver(j)
      BY <3>1
    <3> QED
      BY <3>1, <3>2, LifeWhenStatusMoves DEF P
  <2> QED
    BY <1>16, <2>1, <2>2, <2>3 DEF Watch
<1>17. CASE UNCHANGED vars
  BY <1>17, <1>1 DEF vars
<1> QED
  BY <1>7, <1>8, <1>9, <1>10, <1>12, <1>13, <1>14, <1>15, <1>16, <1>17 DEF Next, P

\* Every behaviour of tools_jobs.py is one of JobLifecycle: an end is said once,
\* is true, is never taken back, and only ever relabelled "timeout".
THEOREM JobsImplementLifecycle == Spec => ImplementsLifecycle
<1>1. Init => Lifecycle!Init
  BY DEF Init, MetaOf, Life, Ended, Lifecycle!Init
<1>2. JobsInv /\ JobsInv' /\ [Next]_vars => [Lifecycle!Next]_(Lifecycle!vars)
  <2> SUFFICES ASSUME JobsInv, JobsInv', [Next]_vars PROVE Lifecycle!Next
    OBVIOUS
  <2>1. \A j \in Jobs : Life(j)' \in Lifecycle!Following(Life(j), Ended(j))
    BY LifeStep
  <2>2. \A j \in Jobs : Ended(j)' = Ended(j) \/ (Ended(j) = "pending" /\ Ended(j)' \in Exits)
    BY EndedStep DEF Ended
  <2> HIDE DEF JobsInv
  <2> QED
    BY <2>1, <2>2 DEF Lifecycle!Next, Lifecycle!Codes, Ended
<1> QED
  BY <1>1, <1>2, Invariance, PTL DEF Spec, ImplementsLifecycle, Lifecycle!Spec

=============================================================================
