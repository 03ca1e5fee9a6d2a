----------------------------- MODULE SelfDeploy -----------------------------
(***************************************************************************)
(* Self-deployment: the handler cloud_mcp_self_deploy (mcp_server/         *)
(* tools_update.py) and the detached helper it starts                      *)
(* (mcp_server/self_deploy_worker.py), which copies the managed files of   *)
(* the repository into the runtime, installs dependencies, restarts the    *)
(* service, checks its health and rolls back.  Helpers take no lock: two   *)
(* of them may overlap.  Any file operation and any command may fail.      *)
(***************************************************************************)
EXTENDS Naturals

CONSTANTS
    Files,         \* the paths managed_relpaths may list
    Deployments,
    MaxVersion,    \* bound: contents a file can have are 1..MaxVersion
    Kills          \* whether a restart of the service kills the processes it has started: TRUE
                   \* under the shipped unit, which sets no KillMode

ASSUME VersionAssumption == MaxVersion \in Nat \ {0}
ASSUME KillsAssumption == Kills \subseteq BOOLEAN

VARIABLES
    repo, dirty, version,   \* the working tree, with changes that are not committed; last content
    runtime,                \* runtime[f]: what the runtime directory holds
    backup,                 \* backup[d][f]: the backup of deployment d
    record,                 \* record[d]: the status in its result file
    service,                \* the running server: up, and the code it has loaded
    helper                  \* helper[d]: the deployment's process

tree == <<repo, dirty, version>>
vars == <<tree, runtime, backup, record, service, helper>>

-----------------------------------------------------------------------------
Gone == 0                   \* no such file
Torn == MaxVersion + 1      \* half-written by a copy that failed
Contents == 0..MaxVersion + 1

\* kept: copy_managed has returned its manifest.  History, for the properties: was, the runtime
\* when the deployment began; alone, no other helper has run beside it.
NoHelper == [pc |-> "none", todo |-> {}, copied |-> {}, existed |-> {}, kept |-> FALSE,
             was |-> [f \in Files |-> Gone], alone |-> TRUE]

Init ==
    /\ repo \in [Files -> {Gone, 1}] /\ (\E f \in Files: repo[f] # Gone) /\ runtime = repo
    /\ dirty = FALSE /\ version = 1
    /\ backup = [d \in Deployments |-> [f \in Files |-> Gone]]
    /\ record = [d \in Deployments |-> "none"]
    /\ service = [up |-> TRUE, code |-> runtime]
    /\ helper = [d \in Deployments |-> NoHelper]

Quiet == {"none", "tests", "ready", "refused", "done", "dead"}

Active(d)  == helper[d].pc \notin Quiet
At(d, p)   == helper[d].pc = p
Move(d, p) == helper' = [helper EXCEPT ![d].pc = p]

-----------------------------------------------------------------------------
(* The repository, and cloud_mcp_self_deploy.                              *)

Edit(f, v) ==
    /\ version < MaxVersion /\ v \in {Gone, version + 1}
    /\ repo' = [repo EXCEPT ![f] = v] /\ dirty' = TRUE /\ version' = version + 1
    /\ UNCHANGED <<runtime, backup, record, service, helper>>

Commit == dirty /\ dirty' = FALSE
          /\ UNCHANGED <<repo, version, runtime, backup, record, service, helper>>

\* The repository must be clean; then come the compiler, the tests and pip check.
Request(d) ==
    /\ At(d, "none") /\ Move(d, IF dirty THEN "refused" ELSE "tests")
    /\ UNCHANGED <<tree, runtime, backup, record, service>>

Tested(d, pass) ==
    /\ At(d, "tests") /\ Move(d, IF pass THEN "ready" ELSE "refused")
    /\ UNCHANGED <<tree, runtime, backup, record, service>>

-----------------------------------------------------------------------------
(* The helper: the result file says running, and copy_managed lists.       *)

Start(d) ==
    /\ At(d, "ready")
    /\ record' = [record EXCEPT ![d] = "running"]
    /\ LET others == {e \in Deployments \ {d}: Active(e)} IN
       helper' = [e \in Deployments |->
                     IF e = d THEN [NoHelper EXCEPT !.pc = "copy", !.was = runtime,
                                                    !.todo = {f \in Files: repo[f] # Gone},
                                                    !.alone = others = {}]
                     ELSE IF e \in others THEN [helper[e] EXCEPT !.alone = FALSE]
                     ELSE helper[e]]
    /\ UNCHANGED <<tree, runtime, backup, service>>

\* A result file that cannot be written: nobody handles it.
StartFails(d) ==
    /\ At(d, "ready") /\ Move(d, "dead") /\ UNCHANGED <<tree, runtime, backup, record, service>>

\* The files are taken one after the other.
Current(d, f) == f \in helper[d].todo /\ helper[d].existed \ helper[d].copied \subseteq {f}

\* Mutant: the backup is made of what was copied over.
BackupLate(d, f) ==
    /\ At(d, "copy") /\ Current(d, f) /\ runtime[f] # Gone /\ f \notin helper[d].existed
    /\ backup' = [backup EXCEPT ![d][f] = repo[f]]
    /\ helper' = [helper EXCEPT ![d].existed = @ \cup {f}]
    /\ UNCHANGED <<tree, runtime, record, service>>

\* copy_managed: what the runtime has under that name is backed up ...
Backup(d, f) ==
    /\ At(d, "copy") /\ Current(d, f) /\ runtime[f] # Gone /\ f \notin helper[d].existed
    /\ backup' = [backup EXCEPT ![d][f] = runtime[f]]
    /\ helper' = [helper EXCEPT ![d].existed = @ \cup {f}]
    /\ UNCHANGED <<tree, runtime, record, service>>

\* ... and replaced.
Copy(d, f) ==
    /\ At(d, "copy") /\ Current(d, f) /\ repo[f] # Gone
    /\ runtime[f] = Gone \/ f \in helper[d].existed
    /\ runtime' = [runtime EXCEPT ![f] = repo[f]]
    /\ helper' = [helper EXCEPT ![d].copied = @ \cup {f}, ![d].todo = @ \ {f}]
    /\ UNCHANGED <<tree, backup, record, service>>

CopyFails(d) ==
    /\ At(d, "copy") /\ helper[d].todo # {}
    /\ \/ UNCHANGED runtime
       \/ \E f \in Files: /\ Current(d, f) /\ (runtime[f] = Gone \/ f \in helper[d].existed)
                          /\ runtime' = [runtime EXCEPT ![f] = Torn]
    /\ Move(d, "failed") /\ UNCHANGED <<tree, backup, record, service>>

\* Only now does the helper hold the manifest.
CopyDone(d) ==
    /\ At(d, "copy") /\ helper[d].todo = {}
    /\ helper' = [helper EXCEPT ![d].pc = "pip", ![d].kept = TRUE]
    /\ UNCHANGED <<tree, runtime, backup, record, service>>

Pip(d, ok) ==
    /\ At(d, "pip") /\ Move(d, IF ok THEN "restart" ELSE "failed")
    /\ UNCHANGED <<tree, runtime, backup, record, service>>

\* systemctl restart: the server stops, with what belongs to it, and starts from the runtime.
Killed(h, k) ==
    IF k /\ h.pc \notin {"none", "refused", "done"} THEN [h EXCEPT !.pc = "dead"] ELSE h

Restarted(up) == service' = [up |-> up, code |-> runtime]

\* Mutant: the new code is not loaded.
RestartSkipped(d, up) ==
    /\ At(d, "restart") /\ Move(d, IF up THEN "health" ELSE "failed")
    /\ UNCHANGED <<tree, runtime, backup, record, service>>

\* systemctl restarts the server and helper d goes on at p, if it lives; a systemctl that fails may
\* as well leave the server and all helpers as they are.
Systemctl(d, up, p) ==
    LET next == [helper EXCEPT ![d].pc = p] IN
    \/ /\ Restarted(up)
       /\ \E k \in Kills: helper' = [e \in Deployments |-> Killed(next[e], k)]
    \/ ~up /\ helper' = next /\ UNCHANGED service

Restart(d, up) ==
    /\ At(d, "restart") /\ Systemctl(d, up, IF up THEN "health" ELSE "failed")
    /\ UNCHANGED <<tree, runtime, backup, record>>

Health(d, ok) ==
    /\ At(d, "health") /\ (ok => service.up)
    /\ Move(d, IF ok THEN "report" ELSE "failed")
    /\ UNCHANGED <<tree, runtime, backup, record, service>>

\* Mutant: a status no reader of the result file knows.
SucceedOddly(d) ==
    /\ At(d, "report") /\ record' = [record EXCEPT ![d] = "ok"] /\ Move(d, "done")
    /\ UNCHANGED <<tree, runtime, backup, service>>

Succeed(d) ==
    /\ At(d, "report") /\ record' = [record EXCEPT ![d] = "success"] /\ Move(d, "done")
    /\ UNCHANGED <<tree, runtime, backup, service>>

SucceedFails(d) ==
    /\ At(d, "report") /\ Move(d, "failed") /\ UNCHANGED <<tree, runtime, backup, record, service>>

\* The handler of any exception; its own write is outside the inner try.
Fail(d, written) ==
    /\ At(d, "failed")
    /\ record' = IF written THEN [record EXCEPT ![d] = "rolling_back"] ELSE record
    /\ helper' = [helper EXCEPT ![d].pc = IF written THEN "undo" ELSE "dead",
                                ![d].todo = IF helper[d].kept THEN helper[d].copied ELSE {}]
    /\ UNCHANGED <<tree, runtime, backup, service>>

\* Mutant: new files stay.
UndoKeepsNew(d, f) ==
    /\ At(d, "undo") /\ f \in helper[d].todo
    /\ runtime' = [runtime EXCEPT ![f] = IF f \in helper[d].existed THEN backup[d][f] ELSE @]
    /\ helper' = [helper EXCEPT ![d].todo = @ \ {f}]
    /\ UNCHANGED <<tree, backup, record, service>>

\* rollback
Undo(d, f) ==
    /\ At(d, "undo") /\ f \in helper[d].todo
    /\ runtime' = [runtime EXCEPT ![f] = IF f \in helper[d].existed THEN backup[d][f] ELSE Gone]
    /\ helper' = [helper EXCEPT ![d].todo = @ \ {f}]
    /\ UNCHANGED <<tree, backup, record, service>>

\* A rollback that fails in the middle is reported; its report may fail as well.
UndoFails(d, written) ==
    /\ At(d, "undo")
    /\ \/ UNCHANGED runtime
       \/ \E f \in helper[d].todo: runtime' = [runtime EXCEPT ![f] = Torn]
    /\ record' = IF written THEN [record EXCEPT ![d] = "rollback_failed"] ELSE record
    /\ Move(d, IF written THEN "done" ELSE "dead")
    /\ UNCHANGED <<tree, backup, service>>

\* The rollback does not look at what systemctl returns.
UndoRestart(d, up) ==
    /\ At(d, "undo") /\ helper[d].todo = {} /\ Systemctl(d, up, "verify")
    /\ UNCHANGED <<tree, runtime, backup, record>>

Verify(d, ok, written) ==
    /\ At(d, "verify") /\ (ok => service.up)
    /\ record' = IF ~written THEN record
                 ELSE [record EXCEPT ![d] = IF ok THEN "rolled_back" ELSE "rollback_failed"]
    /\ Move(d, IF written THEN "done" ELSE "dead")
    /\ UNCHANGED <<tree, runtime, backup, service>>

-----------------------------------------------------------------------------
\* The service manager starts a server that has ended; an operator restarts it.
ServiceRestart ==
    /\ Restarted(TRUE)
    /\ \E k \in Kills: helper' = [e \in Deployments |-> Killed(helper[e], k)]
    /\ UNCHANGED <<tree, runtime, backup, record>>

Helper(d) ==
    \/ Start(d) \/ StartFails(d)
    \/ (\E f \in Files: Backup(d, f) \/ Copy(d, f) \/ Undo(d, f))
    \/ CopyFails(d) \/ CopyDone(d) \/ Succeed(d) \/ SucceedFails(d)
    \/ \E b \in BOOLEAN: \/ Tested(d, b) \/ Pip(d, b) \/ Restart(d, b) \/ Health(d, b)
                         \/ Fail(d, b) \/ UndoFails(d, b) \/ UndoRestart(d, b)
                         \/ \E c \in BOOLEAN: Verify(d, b, c)

Next ==
    \/ \E d \in Deployments: Request(d) \/ Helper(d)
    \/ Commit \/ ServiceRestart
    \/ \E f \in Files, v \in Contents: Edit(f, v)

Spec == Init /\ [][Next]_vars

-----------------------------------------------------------------------------
Pcs == Quiet \cup {"copy", "pip", "restart", "health", "report", "failed", "undo", "verify"}

HelperState == [pc: Pcs, todo: SUBSET Files, copied: SUBSET Files, existed: SUBSET Files,
                kept: BOOLEAN, was: [Files -> Contents], alone: BOOLEAN]

TypeOK ==
    /\ repo \in [Files -> 0..MaxVersion] /\ dirty \in BOOLEAN /\ version \in 1..MaxVersion
    /\ runtime \in [Files -> Contents]
    /\ backup \in [Deployments -> [Files -> Contents]]
    /\ record \in [Deployments -> {"none", "running", "rolling_back", "success", "rolled_back",
                                   "rollback_failed"}]
    /\ service \in [up: BOOLEAN, code: [Files -> Contents]]
    /\ helper \in [Deployments -> HelperState]

\* A file is as the deployment found it; the deployment knows how it was.
Untouched(d, f) == runtime[f] = helper[d].was[f]
Known(d, f) == helper[d].was[f] = IF f \in helper[d].existed THEN backup[d][f] ELSE Gone

\* No other helper is at work beside one that has been alone, and as long as the manifest counts
\* such a helper can put every file back: what it has reached it knows, the rest is untouched; in
\* the rollback, only what is left of the manifest is not yet restored.
CanRestore(d) ==
    /\ \A e \in Deployments \ {d}: ~Active(e)
    /\ At(d, "copy") =>
          /\ ~helper[d].kept /\ helper[d].todo \cap helper[d].copied = {}
          /\ \A f \in helper[d].existed: Known(d, f)
    /\ At(d, "copy") \/ helper[d].kept =>
          \A f \in Files: IF f \in helper[d].copied THEN Known(d, f) ELSE Untouched(d, f)
    /\ At(d, "undo") /\ helper[d].kept =>
          /\ helper[d].todo \subseteq helper[d].copied
          /\ \A f \in Files \ helper[d].todo: Untouched(d, f)
    /\ At(d, "verify") /\ helper[d].kept => \A f \in Files: Untouched(d, f)

\* From the restart on, the server runs what the runtime directory holds.
Serving(d) == At(d, "health") \/ At(d, "report") => service.code = runtime

\* What makes the two action properties below true; with the types, it is inductive.
DeployInv == \A d \in Deployments: Active(d) /\ helper[d].alone => CanRestore(d) /\ Serving(d)

\* A deployment that fails after its copy has ended (dependencies, restart, health) and reports
\* rolled_back has put every file back, those it had added included, whatever restarts, edits and
\* earlier deployments came before (README.md:412).
RollbackRestores ==
    [][\A d \in Deployments:
          record[d] # "rolled_back" /\ record'[d] = "rolled_back"
             /\ helper[d].alone /\ helper[d].kept
          => runtime = helper[d].was]_vars

\* A success is reported only when the server runs exactly what the runtime directory holds: it
\* was restarted after the last copy.
SuccessIsServed ==
    [][\A d \in Deployments:
          record[d] # "success" /\ record'[d] = "success" /\ helper[d].alone
          => service.code = runtime]_vars

\* Two claims the code does not keep, and no run checks (see the README).  The note of line 141:
\* "... automatic rollback on failure".
AutomaticRollback ==
    [][\A d \in Deployments:
          record[d] # "rolled_back" /\ record'[d] = "rolled_back" /\ helper[d].alone
          => runtime = helper[d].was]_vars

\* "a normal service restart does not kill the deployment controller" (README.md:415).
ControllerSurvives ==
    [][\A d \in Deployments:
          Active(d) /\ service' # service /\ service'.up => helper'[d].pc # "dead"]_vars
=============================================================================
