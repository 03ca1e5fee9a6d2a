----------------------------- MODULE AgentTeams -----------------------------
(***************************************************************************)
(* Teams of agents (mcp_server/tools_agents.py): a file that lists the     *)
(* children of a team, and the handlers that spawn, cancel, despawn and    *)
(* retry them.  A team handler runs on the event loop and goes through the *)
(* children one by one; each turn is a handler of Agent, during which the  *)
(* workers and the threads of wait_agents go on.                           *)
(***************************************************************************)
EXTENDS Agent

CONSTANTS Teams, NoTeam,
          Sizes,          \* numbers of tasks clients ask for
          TeamOps         \* what they ask of a team

ASSUME TeamsAssumption == NoTeam \notin Teams
ASSUME SizesAssumption == Sizes \subseteq Nat \ {0}

VARIABLES
    team,    \* team[x]: the team's meta.json
    job,     \* the team handler on the event loop
    revived  \* history: the agents whose end, once on disk, has given way again

tvars == <<vars, team, job, revived>>

NoFile  == [there |-> FALSE, ids |-> {}, error |-> FALSE]
NewFile == [NoFile EXCEPT !.there = TRUE]

\* left: tasks still to spawn; todo: children still to visit; the rest counts for the summary.
NoJob == [op |-> "none", pc |-> "idle", x |-> NoTeam, left |-> 0, todo |-> {}, a |-> NoAgent,
          completed |-> {}, ended |-> {}]

TeamInit ==
    /\ Init
    /\ team = [x \in Teams |-> NoFile]
    /\ job = NoJob
    /\ revived = {}

IsOver(a) == meta[a].status \in Ended \cup {"absent"}

NoTeamJob == job.op = "none"
LoopFree  == thr[Loop].pc = "idle"
Reply     == job' = NoJob

-----------------------------------------------------------------------------
(* Calls.  spawn_agents writes an empty team first.                        *)

StartTeam(x, n) ==
    /\ ~team[x].there
    /\ team' = [team EXCEPT ![x] = NewFile]
    /\ job' = [NoJob EXCEPT !.op = "spawn", !.pc = "next", !.x = x, !.left = n]

TeamSpawn(x) ==
    /\ NoTeamJob /\ LoopFree /\ "spawn" \in TeamOps
    /\ \E n \in Sizes: StartTeam(x, n)
    /\ UNCHANGED vars

TeamCall(op, x) ==
    /\ NoTeamJob /\ LoopFree /\ op \in TeamOps \cap {"cancel", "despawn"}
    /\ team[x].there
    /\ job' = [NoJob EXCEPT !.op = op, !.pc = IF op = "cancel" THEN "next" ELSE "sum",
                            !.x = x, !.todo = team[x].ids]
    /\ UNCHANGED <<vars, team>>

\* Retry reads every child first; one that is missing makes the whole call fail (no step).
TeamRetry(x, y) ==
    /\ NoTeamJob /\ LoopFree /\ "retry" \in TeamOps
    /\ team[x].there /\ team[x].ids # {}
    /\ \A a \in team[x].ids: Exists(a) /\ HasPrompt(a)
    /\ StartTeam(y, Cardinality(team[x].ids))
    /\ UNCHANGED vars

-----------------------------------------------------------------------------
(* The loops over the children.  A turn begins a handler of Agent ("sub"). *)

\* Mutant: nobody counts the tasks.
SpawnTurnUncounted(a) ==
    /\ job.op = "spawn" /\ job.pc = "next"
    /\ SpawnBegin(a)
    /\ job' = [job EXCEPT !.pc = "sub", !.a = a]
    /\ UNCHANGED team

SpawnTurn(a) ==
    /\ job.op = "spawn" /\ job.pc = "next" /\ job.left > 0
    /\ SpawnBegin(a)
    /\ job' = [job EXCEPT !.pc = "sub", !.a = a]
    /\ UNCHANGED team

\* Visit the next child with a handler of the same name, or with get while summing up.
TurnOp   == IF job.pc = "sum" THEN "get" ELSE IF job.pc = "undo" THEN "cancel" ELSE job.op
Turning  == job.pc \in {"sum", "undo"} \/ (job.pc = "next" /\ job.op \in {"cancel", "despawn"})
InTurn   == [sum |-> "subsum", undo |-> "subundo", next |-> "sub"]

\* A child whose meta.json is gone answers 404, which every loop here passes over.
ChildTurn(a) ==
    /\ Turning /\ a \in job.todo /\ Begin(TurnOp, a)
    /\ job' = [job EXCEPT !.todo = @ \ {a}, !.a = IF Exists(a) THEN a ELSE NoAgent,
                          !.pc = IF Exists(a) THEN InTurn[@] ELSE @]
    /\ UNCHANGED team

\* The child handler comes back; a spawn has succeeded if it got as far as its late write.
Returns == thr'[Loop].pc = "idle"
Spawned == job.op = "spawn" /\ thr[Loop].pc = "late"

BackTo(p) == [job EXCEPT !.pc = p, !.a = NoAgent]

Counted ==
    LET s == thr[Loop].snap.status IN
    [BackTo("sum") EXCEPT !.completed = IF s = "completed" THEN @ \cup {job.a} ELSE @,
                          !.ended = IF s \in Ended THEN @ \cup {job.a} ELSE @]

OneMore == [BackTo("next") EXCEPT !.left = @ - 1]
GivesUp == [BackTo("undo") EXCEPT !.todo = team[job.x].ids]

Back ==
    IF job.pc = "subsum" THEN Counted
    ELSE IF job.pc = "subundo" THEN BackTo("undo")
    ELSE IF job.op # "spawn" THEN BackTo("next")
    ELSE IF Spawned THEN OneMore
    ELSE GivesUp

SubStep ==
    /\ job.pc \in {"sub", "subsum", "subundo"} /\ Handler
    /\ job' = IF Returns THEN Back ELSE job
    /\ team' = IF job.pc = "sub" /\ Returns /\ Spawned
               THEN [team EXCEPT ![job.x].ids = @ \cup {job.a}] ELSE team

-----------------------------------------------------------------------------
(* The ends.                                                               *)

\* Mutant: the children that were started are left running.
UndoForgotten ==
    /\ job.pc = "undo" /\ LoopFree
    /\ team' = [team EXCEPT ![job.x].error = TRUE]
    /\ Reply
    /\ UNCHANGED vars

\* spawn_agents gives up: the children are cancelled, the error noted and raised.
UndoEnds ==
    /\ job.pc = "undo" /\ job.todo = {} /\ LoopFree
    /\ team' = [team EXCEPT ![job.x].error = TRUE]
    /\ Reply
    /\ UNCHANGED vars

\* Mutant: one child told to cancel ends the loop.
SumBeginsEarly ==
    /\ job.pc = "next" /\ LoopFree
    /\ \/ job.op = "spawn" /\ job.left = 0
       \/ job.op = "cancel" /\ (job.todo = {} \/ job.todo # team[job.x].ids)
    /\ job' = [job EXCEPT !.pc = "sum", !.todo = team[job.x].ids]
    /\ UNCHANGED <<vars, team>>

\* All tasks are spawned, or all children told to cancel: sum up.
SumBegins ==
    /\ job.pc = "next" /\ LoopFree
    /\ \/ job.op = "spawn" /\ job.left = 0
       \/ job.op = "cancel" /\ job.todo = {}
    /\ job' = [job EXCEPT !.pc = "sum", !.todo = team[job.x].ids]
    /\ UNCHANGED <<vars, team>>

\* Mutant: a child that is being cancelled or was never read counts as well.
VerdictOfAny ==
    LET ids == team[job.x].ids IN
    IF ids # {} /\ job.completed = ids THEN "completed"
    ELSE IF ids # {} /\ job.ended # {} THEN "completed_with_failures"
    ELSE "running"

Verdict ==
    LET ids == team[job.x].ids IN
    IF ids # {} /\ job.completed = ids THEN "completed"
    ELSE IF ids # {} /\ Cardinality(job.ended) >= Cardinality(ids) THEN "completed_with_failures"
    ELSE "running"

SumEnds ==
    /\ job.pc = "sum" /\ job.todo = {} /\ LoopFree
    /\ IF job.op # "despawn" \/ Cardinality(job.ended) < Cardinality(team[job.x].ids)
       THEN Reply
       ELSE job' = [job EXCEPT !.pc = "next", !.todo = team[job.x].ids,
                               !.completed = {}, !.ended = {}]
    /\ UNCHANGED <<vars, team>>

\* Mutant: the team goes first.
DespawnEarly ==
    /\ job.op = "despawn" /\ job.pc = "next" /\ LoopFree
    /\ team' = [team EXCEPT ![job.x] = NoFile]
    /\ Reply
    /\ UNCHANGED vars

DespawnEnds ==
    /\ job.op = "despawn" /\ job.pc = "next" /\ job.todo = {} /\ LoopFree
    /\ team' = [team EXCEPT ![job.x] = NoFile]
    /\ Reply
    /\ UNCHANGED vars

-----------------------------------------------------------------------------
\* A restart loses the team handler; the files stay.
TeamRestart == Restart /\ job' = NoJob /\ UNCHANGED team

Alone == (Handler \/ Calls) /\ NoTeamJob /\ UNCHANGED <<team, job>>

TeamStep ==
    \/ \E a \in Agents: SpawnTurn(a) \/ ChildTurn(a)
    \/ SubStep \/ UndoEnds \/ SumBegins \/ SumEnds \/ DespawnEnds

\* What a step does to the history.
Revives == revived' = revived \cup {a \in Agents: Known(a) /\ IsOver(a) /\ ~IsOver(a)'}

TeamNext ==
    /\ \/ Background /\ UNCHANGED <<team, job>>
       \/ Alone \/ TeamStep \/ TeamRestart
       \/ \E x \in Teams: TeamSpawn(x) \/ (\E op \in TeamOps: TeamCall(op, x))
       \/ \E x, y \in Teams: TeamRetry(x, y)
    /\ Revives

TeamSpec == TeamInit /\ [][TeamNext]_tvars

-----------------------------------------------------------------------------
TeamState == [there: BOOLEAN, ids: SUBSET Agents, error: BOOLEAN]

JobState == [op: {"none", "spawn", "cancel", "despawn"},
             pc: {"idle", "next", "sub", "subsum", "subundo", "sum", "undo"},
             x: Teams \cup {NoTeam}, left: Nat, todo: SUBSET Agents, a: Agents \cup {NoAgent},
             completed: SUBSET Agents, ended: SUBSET Agents]

TeamTypeOK ==
    /\ TypeOK
    /\ team \in [Teams -> TeamState]
    /\ job \in JobState /\ job.completed \subseteq job.ended
    /\ revived \subseteq Agents

\* Over, as far as the reader of an end can rely on it: what undoes an end is one of the three races
\* of OnlyRacesUndo.
RestsOver(a) == IsOver(a) \/ a \in revived
Over(x)      == \A a \in team[x].ids: RestsOver(a)

\* With the three switches off, no end that is on disk ever gives way, whatever the team handlers do
\* with the agents beside their workers (599-911).
NoneRevived == revived = {}

\* A team whose spawning failed has no child left running: those that were started are cancelled,
\* whatever they had come to meanwhile (610-617), or a race has undone their end since.
FailedSpawnCleansUp == \A x \in Teams: team[x].error => Over(x)

\* Children are read one after the other; when the summary says the team is over, it still is, but
\* for children whose end a race has undone (104-121).
SummaryStands ==
    [][job.pc = "sum" /\ job'.op = "none" /\ Verdict \in {"completed", "completed_with_failures"}
         => Over(job.x)]_tvars

\* Cancelling a team leaves no child running, but one whose end a race has undone (851-859).
CancelReachesAll ==
    [][job.op = "cancel" /\ job.pc = "next" /\ job'.pc = "sum" => Over(job.x)]_tvars

\* A team is removed only with its children (860-871): unless a race has undone its end, none runs,
\* and the directories are gone.  What may be there again is a lone meta.json that says "failed": a
\* wait_agents that tested the pid of a worker before, on an older copy, writes that copy afterwards
\* (388-398).
DespawnTakesChildren ==
    [][\A x \in Teams: team[x].there /\ ~team'[x].there
         => \A a \in team[x].ids: a \in revived' \/ (IsOver(a)' /\ ~HasPrompt(a)')]_tvars

-----------------------------------------------------------------------------
(* The inductive invariant.                                                *)

\* A team's children have been started, and are of a team that exists.
FilesInv ==
    \A x \in Teams:
        /\ IsFiniteSet(team[x].ids) /\ \A a \in team[x].ids: Known(a)
        /\ ~team[x].there => team[x] = NoFile

Subs == {"sub", "subsum", "subundo"}
SubOp == IF job.pc = "subsum" THEN "get" ELSE IF job.pc = "subundo" THEN "cancel" ELSE job.op

\* Between two turns the loop is free; in a turn it runs the child's handler.
JobInv ==
    LET ids == team[job.x].ids IN
    /\ job.op = "none" => job = NoJob
    /\ job.op # "none" => /\ job.pc # "idle" /\ job.x \in Teams /\ team[job.x].there
                          /\ job.todo \subseteq ids /\ job.ended \subseteq ids
    /\ job.op = "spawn" => ~team[job.x].error
    /\ job.pc \in {"undo", "subundo"} => job.op = "spawn"
    /\ job.pc \in {"next", "sum", "undo"} => LoopFree /\ job.a = NoAgent
    /\ job.pc \in Subs => thr[Loop].op = SubOp /\ thr[Loop].a = job.a /\ job.a \in Agents
    /\ job.pc \in Subs /\ SubOp # "spawn" => thr[Loop].pc \in Handling /\ job.a \in ids
    /\ job.pc \in Subs /\ SubOp = "spawn" =>
          /\ thr[Loop].pc \in {"popen", "late"} /\ job.left > 0
          /\ \A x \in Teams: job.a \notin team[x].ids
          /\ thr[Loop].pc = "late" => Known(job.a)

Visited == team[job.x].ids \ (job.todo \cup {job.a})

\* No two teams share a child: a retry spawns children of its own (872-887).
TeamsDisjoint ==
    \A x, y \in Teams: x # y => team[x].ids \cap team[y].ids = {}

\* An end that the loop has read is one still, and a team with an error is over.
EndsInv ==
    /\ \A a \in Agents: HasPrompt(a) => Exists(a)
    /\ thr[Loop].pc \in Handling /\ thr[Loop].snap.status \in Ended => RestsOver(thr[Loop].a)
    /\ \A x \in Teams: team[x].error => Over(x)

\* The children that a loop has left behind have ended, or are gone.
VisitInv ==
    /\ \A a \in job.ended: RestsOver(a)
    /\ job.pc \in {"undo", "subundo"} \/ (job.op = "cancel" /\ job.pc \in {"next", "sub"}) =>
          \A a \in Visited: RestsOver(a)
    /\ job.op = "despawn" /\ job.pc \in {"next", "sub"} =>
          Over(job.x) /\ \A a \in Visited: a \in revived \/ ~HasPrompt(a)
    /\ job.op = "despawn" /\ job.pc = "sub" =>
          job.a \in revived \/ thr[Loop].snap.status \in Ended

\* What the team files and the team handler may be between any two steps, whoever else steps (599-911).
TeamInv == TeamTypeOK /\ TeamsDisjoint /\ FilesInv /\ JobInv /\ EndsInv /\ VisitInv

\* Both together are inductive.
TeamIInv == AgentInv /\ TeamInv
=============================================================================
