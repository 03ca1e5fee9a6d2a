---------------------------- MODULE JobLifecycle ----------------------------
(***************************************************************************)
(* What tools_jobs.py promises about a background job, without threads,    *)
(* locks or files: the status a client can read once start_background_job  *)
(* is over, beside what became of the process.  A job is born, is active   *)
(* for a while and ends once.  The end may afterwards be relabelled        *)
(* "timeout", never anything else, and never back to active.  "completed"  *)
(* is said only of a process that has exited with 0, "timeout" only of one *)
(* that has exited with another code.                                      *)
(***************************************************************************)
CONSTANT Jobs

VARIABLES
    life,    \* [Jobs -> "unborn", "active" or an end]
    ended    \* [Jobs -> "pending", "zero" or "nonzero"]: the exit of the process

vars == <<life, ended>>

Ends  == {"completed", "failed", "timeout", "killed"}
Codes == {"zero", "nonzero"}

Init ==
    /\ life  = [j \in Jobs |-> "unborn"]
    /\ ended = [j \in Jobs |-> "pending"]

\* The ends a process with exit e can be given.
EndsFor(e) ==
    {"failed", "killed"}
        \cup (IF e = "zero" THEN {"completed"} ELSE {})
        \cup (IF e = "nonzero" THEN {"timeout"} ELSE {})

\* The statuses that may follow status l of a process with exit e.
Following(l, e) ==
    {l} \cup (CASE l = "unborn" -> {"active", "failed"}
                [] l = "active" -> EndsFor(e)
                [] l \in {"failed", "killed"} /\ e = "nonzero" -> {"timeout"}
                [] OTHER -> {})

\* One call may list, and so settle, several jobs: a step moves any number.
Next ==
    /\ \A j \in Jobs : life'[j] \in Following(life[j], ended[j])
    /\ \A j \in Jobs : ended'[j] = ended[j] \/ (ended[j] = "pending" /\ ended'[j] \in Codes)
    /\ life'  = [j \in Jobs |-> life'[j]]
    /\ ended' = [j \in Jobs |-> ended'[j]]

Spec == Init /\ [][Next]_vars

=============================================================================
