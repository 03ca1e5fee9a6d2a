------------------------------- MODULE Skills -------------------------------
(***************************************************************************)
(* Skills (mcp_server/tools_skills.py).  A skill is a SKILL.md that gives  *)
(* its own name; it lies under the managed root, or anywhere and has been  *)
(* registered.  An SQLite index has one row for a name and one for a       *)
(* location.  Every tool runs in a thread of its own and begins with       *)
(* _sync_index, which parses all the files and then brings the index up to *)
(* them; no lock joins its steps.  People edit, move and rename skills.    *)
(***************************************************************************)
EXTENDS Naturals, FiniteSets

CONSTANTS
    External,      \* locations 1..External are outside the root,
    Locations,     \* the others, up to this one, are managed
    Names, NoName, \* NoName: what a file that cannot be parsed gives
    Threads,
    Ops,           \* Ops[t]: the tools called in that thread
    MaxEdits       \* bound: times people write a file

ASSUME LocationAssumption == Locations \in Nat /\ External \in 0..Locations
ASSUME NoNameAssumption == NoName \notin Names
ASSUME EditsAssumption == MaxEdits \in Nat \ {0}
ASSUME OpsAssumption == Ops \in [Threads -> SUBSET {"list", "getpath", "search", "register"}]

VARIABLES
    file,   \* file[l]: the SKILL.md there; its version stands for text, mtime and size
    edits,  \* the last version
    regs,   \* the table registrations
    rows,   \* rows[n]: the row of skills with that name
    thr     \* thr[t]: the call a thread runs

vars == <<file, edits, regs, rows, thr>>

-----------------------------------------------------------------------------
Locs == 1..Locations

NoFile == [ver |-> 0, name |-> NoName]
NoRow  == [loc |-> 0, ver |-> 0, sig |-> 0]

\* loc: the path that was asked for, or the one at work; cand: files still to be parsed; parsed: what
\* _parse_skill gave for each name; snap: the rows the sync has read; todo: names, or locations,
\* still to be looked at; row: what is to be written, for name; then: where the call goes on after
\* that.  alone is history: nobody else has changed a file or the index since the call began.
Idle == [op |-> "none", pc |-> "idle", loc |-> 0, cand |-> {}, parsed |-> [n \in Names |-> NoRow],
         snap |-> [n \in Names |-> NoRow], todo |-> {}, name |-> NoName, row |-> NoRow,
         then |-> "each", alone |-> TRUE]

\* There may be skills from the start, and an index of none.
Init ==
    /\ file \in [Locs -> {NoFile} \cup [ver: {1}, name: Names]] /\ edits = 1
    /\ regs = {}
    /\ rows = [n \in Names |-> NoRow]
    /\ thr = [t \in Threads |-> Idle]

At(t, p) == thr[t].pc = p
There(l) == file[l].ver > 0
Parses(l) == There(l) /\ file[l].name \in Names

Go(t, r) == thr' = [thr EXCEPT ![t] = r]

Disturbed(u) == IF thr[u].pc = "idle" THEN thr[u] ELSE [thr[u] EXCEPT !.alone = FALSE]

GoAndDisturb(t, r) == thr' = [u \in Threads |-> IF u = t THEN r ELSE Disturbed(u)]

-----------------------------------------------------------------------------
(* The beginning of a call.                                                *)

\* "list" is skill_list, skill_update_index and skill_get of a name; "getpath" is skill_get of a path.
Call(t, op, l) ==
    /\ At(t, "idle") /\ op \in Ops[t] \ {"register"}
    /\ l > 0 <=> op = "getpath"
    /\ Go(t, [Idle EXCEPT !.op = op, !.pc = "scan", !.loc = l])
    /\ UNCHANGED <<file, edits, regs, rows>>

\* Registrations are never withdrawn.
Registered(l) == regs' = IF l <= External THEN regs \cup {l} ELSE regs

\* skill_register parses the file, and registers it if it is not in the root; it goes on as the others.
Register(t, l) ==
    /\ At(t, "idle") /\ "register" \in Ops[t] /\ Parses(l)
    /\ Registered(l)
    /\ GoAndDisturb(t, [Idle EXCEPT !.op = "list", !.pc = "scan"])
    /\ UNCHANGED <<file, edits, rows>>

-----------------------------------------------------------------------------
(* _sync_index.                                                            *)

\* _registered_paths, then _managed_paths: what there is to be parsed.
Scan(t) ==
    /\ At(t, "scan")
    /\ Go(t, [thr[t] EXCEPT !.pc = "parse", !.cand = {l \in Locs: There(l) /\ (l \in regs \/ l > External)}])
    /\ UNCHANGED <<file, edits, regs, rows>>

\* Mutant: the first file of a name is taken.
KeptFirst(p, n, r) == IF p[n].loc = 0 THEN [p EXCEPT ![n] = r] ELSE p

\* parsed_by_name: a later file takes the name from an earlier one.
Overridden(p, n, r) == [p EXCEPT ![n] = r]

\* _parse_skill of the next file, the managed ones last; a file that is gone or broken is skipped.
Parse(t, l) ==
    /\ At(t, "parse") /\ l \in thr[t].cand /\ \A m \in thr[t].cand: l <= m
    /\ Go(t, [thr[t] EXCEPT !.cand = @ \ {l},
                            !.parsed = IF Parses(l)
                                       THEN Overridden(@, file[l].name, [NoRow EXCEPT !.loc = l, !.ver = file[l].ver])
                                       ELSE @])
    /\ UNCHANGED <<file, edits, regs, rows>>

Expects(t) == {n \in Names: thr[t].parsed[n].loc > 0}

\* Mutant: rows of registered skills go as well.
PurgedExternal(t) == [n \in Names |-> IF n \in Expects(t) /\ rows[n].loc > External THEN rows[n] ELSE NoRow]

\* The rows, as they were read, whose names no file gives.
Purged(t) == [n \in Names |-> IF n \in Expects(t) \/ thr[t].snap[n] = NoRow THEN rows[n] ELSE NoRow]

\* existing: what the names are compared with, to the end of the sync.
Existing(t) ==
    /\ At(t, "parse") /\ thr[t].cand = {}
    /\ Go(t, [thr[t] EXCEPT !.pc = "purge", !.snap = rows])
    /\ UNCHANGED <<file, edits, regs, rows>>

\* They go in one transaction.
Purge(t) ==
    /\ At(t, "purge")
    /\ rows' = Purged(t)
    /\ LET r == [thr[t] EXCEPT !.pc = "each", !.todo = Expects(t)]
       IN  IF rows' = rows THEN Go(t, r) ELSE GoAndDisturb(t, r)
    /\ UNCHANGED <<file, edits, regs>>

\* The same file, mtime, size and hash as in the row: nothing to do.
Fresh(t, n) ==
    LET p == thr[t].parsed[n] IN There(p.loc) /\ thr[t].snap[n] = [p EXCEPT !.sig = file[p.loc].ver]

Skip(t, n) ==
    /\ At(t, "each") /\ n \in thr[t].todo /\ Fresh(t, n)
    /\ Go(t, [thr[t] EXCEPT !.todo = @ \ {n}])
    /\ UNCHANGED <<file, edits, regs, rows>>

\* The parsed text is to be written, with the signature the file has now.
Each(t, n) ==
    /\ At(t, "each") /\ n \in thr[t].todo /\ ~Fresh(t, n)
    /\ There(thr[t].parsed[n].loc)
    /\ Go(t, [thr[t] EXCEPT !.pc = "write", !.todo = @ \ {n}, !.name = n,
                            !.row = [thr[t].parsed[n] EXCEPT !.sig = file[thr[t].parsed[n].loc].ver],
                            !.then = "each"])
    /\ UNCHANGED <<file, edits, regs, rows>>

\* Mutant: a row of another name at that location stays.
WrittenBeside(n, r) == [rows EXCEPT ![n] = r]

\* INSERT OR REPLACE: the row of that name goes, and so does that of the location, whatever its name.
Written(n, r) == [m \in Names |-> IF m = n THEN r ELSE IF rows[m].loc = r.loc THEN NoRow ELSE rows[m]]

\* _upsert, once it has its vectors.
Write(t) ==
    /\ At(t, "write")
    /\ rows' = Written(thr[t].name, thr[t].row)
    /\ GoAndDisturb(t, [thr[t] EXCEPT !.pc = thr[t].then, !.name = NoName, !.row = NoRow, !.then = "each"])
    /\ UNCHANGED <<file, edits, regs>>

\* Every tool goes on from here.
Synced(t) ==
    /\ At(t, "each") /\ thr[t].todo = {}
    /\ Go(t, [Idle EXCEPT !.op = thr[t].op, !.loc = thr[t].loc, !.alone = thr[t].alone,
                          !.pc = CASE thr[t].op = "getpath" -> "find"
                                   [] thr[t].op = "search" -> "embed"
                                   [] OTHER -> "select"])
    /\ UNCHANGED <<file, edits, regs, rows>>

-----------------------------------------------------------------------------
(* What is left of the tools.                                              *)

\* A row is read by name, by location or with all the others, and the call returns.
Select(t) ==
    /\ \/ At(t, "select")
       \/ At(t, "find") /\ \E n \in Names: rows[n].loc = thr[t].loc
    /\ Go(t, Idle)
    /\ UNCHANGED <<file, edits, regs, rows>>

\* skill_get of a path that has no row indexes the file itself, though a managed skill may have its
\* name.
Find(t) ==
    /\ At(t, "find") /\ \A n \in Names: rows[n].loc # thr[t].loc
    /\ Parses(thr[t].loc)
    /\ Registered(thr[t].loc)
    /\ LET r == [thr[t] EXCEPT !.pc = "stat", !.name = file[thr[t].loc].name, !.then = "select",
                               !.row = [NoRow EXCEPT !.loc = thr[t].loc, !.ver = file[thr[t].loc].ver]]
       IN  IF regs' = regs THEN Go(t, r) ELSE GoAndDisturb(t, r)
    /\ UNCHANGED <<file, edits, rows>>

Stat(t) ==
    /\ At(t, "stat") /\ There(thr[t].row.loc)
    /\ Go(t, [thr[t] EXCEPT !.pc = "write", !.row.sig = file[thr[t].row.loc].ver])
    /\ UNCHANGED <<file, edits, regs, rows>>

\* skill_search: ls are the locations of rows whose vectors are of another backend than the query's.
Embed(t, ls) ==
    /\ At(t, "embed") /\ ls \subseteq {rows[n].loc: n \in Names} \ {0}
    /\ Go(t, [thr[t] EXCEPT !.pc = "again", !.todo = ls])
    /\ UNCHANGED <<file, edits, regs, rows>>

\* _ensure_vector_backend parses them once more.
Again(t, l) ==
    /\ At(t, "again") /\ l \in thr[t].todo /\ (There(l) => Parses(l))
    /\ Go(t, IF There(l) THEN [thr[t] EXCEPT !.todo = @ \ {l}, !.pc = "stat", !.name = file[l].name,
                                             !.then = "again",
                                             !.row = [NoRow EXCEPT !.loc = l, !.ver = file[l].ver]]
                         ELSE [thr[t] EXCEPT !.todo = @ \ {l}])
    /\ UNCHANGED <<file, edits, regs, rows>>

Ranked(t) ==
    /\ At(t, "again") /\ thr[t].todo = {}
    /\ Go(t, [thr[t] EXCEPT !.pc = "select"])
    /\ UNCHANGED <<file, edits, regs, rows>>

\* A file that is gone or broken, the database's lock, the disk: what was committed stays.
Raise(t) ==
    /\ thr[t].pc \in {"parse", "purge", "each", "write", "find", "stat", "again"}
    /\ Go(t, Idle)
    /\ UNCHANGED <<file, edits, regs, rows>>

-----------------------------------------------------------------------------
\* A person writes a file, under whatever name, breaks it, or removes it.
Edit(l, n) ==
    /\ edits < MaxEdits /\ edits' = edits + 1
    /\ file' = [file EXCEPT ![l] = [ver |-> edits + 1, name |-> n]]
    /\ thr' = [u \in Threads |-> Disturbed(u)]
    /\ UNCHANGED <<regs, rows>>

Remove(l) ==
    /\ There(l)
    /\ file' = [file EXCEPT ![l] = NoFile]
    /\ thr' = [u \in Threads |-> Disturbed(u)]
    /\ UNCHANGED <<edits, regs, rows>>

\* The process ends; the index is as it was committed.
Crash == thr' = [t \in Threads |-> Idle] /\ UNCHANGED <<file, edits, regs, rows>>

Step(t) ==
    \/ Scan(t) \/ Existing(t) \/ Purge(t) \/ Write(t) \/ Synced(t) \/ Select(t) \/ Find(t) \/ Stat(t) \/ Ranked(t) \/ Raise(t)
    \/ \E l \in Locs: Parse(t, l) \/ Again(t, l)
    \/ \E n \in Names: Skip(t, n) \/ Each(t, n)
    \/ \E ls \in SUBSET Locs: Embed(t, ls)

Next ==
    \/ \E t \in Threads: \/ Step(t)
                         \/ \E op \in Ops[t], l \in 0..Locations: Call(t, op, l)
                         \/ \E l \in Locs: Register(t, l)
    \/ \E l \in Locs: Remove(l) \/ \E n \in Names \cup {NoName}: Edit(l, n)
    \/ Crash

Spec == Init /\ [][Next]_vars

-----------------------------------------------------------------------------
Row == [loc: 0..Locations, ver: 0..MaxEdits, sig: 0..MaxEdits]

\* Types; and no two rows share a location.
TypeOK ==
    /\ file \in [Locs -> [ver: 0..MaxEdits, name: Names \cup {NoName}]] /\ edits \in 0..MaxEdits
    /\ regs \subseteq 1..External
    /\ rows \in [Names -> Row]
    /\ \A m, n \in Names: rows[m].loc = rows[n].loc /\ rows[m].loc > 0 => m = n
    /\ thr \in [Threads -> [op: {"none", "list", "getpath", "search"},
                            pc: {"idle", "scan", "parse", "purge", "each", "write", "find", "select", "stat",
                                 "embed", "again"},
                            loc: 0..Locations, cand: SUBSET Locs, parsed: [Names -> Row],
                            snap: [Names -> Row], todo: SUBSET (Names \cup Locs),
                            name: Names \cup {NoName}, row: Row, then: {"each", "select", "again"},
                            alone: BOOLEAN]]

\* The file a name stands for: the last of those that give it, so a managed one if there is any.
Givers(n) == {l \in Locs: Parses(l) /\ file[l].name = n /\ (l \in regs \/ l > External)}

Right(n) ==
    IF Givers(n) = {} THEN rows[n] = NoRow
    ELSE \E l \in Givers(n): /\ \A m \in Givers(n): m <= l
                             /\ rows[n].loc = l /\ rows[n].ver = file[l].ver

Looping(c) == c.pc = "each" \/ (c.pc = "write" /\ c.then = "each")
Searching(c) == c.pc = "again" \/ (c.pc \in {"stat", "write"} /\ c.then = "again")
Sure(c) == c.pc \in {"find", "embed"} \/ (c.pc = "select" /\ c.op # "getpath") \/ Searching(c)

\* A call that nobody has got in the way of answers from an index that is the files, managed ones
\* first, whatever earlier calls, failures, races and edits have left in it.
AnswersFollowFiles ==
    \A t \in Threads:
        thr[t].alone /\ (thr[t].pc \in {"find", "embed"} \/ (At(t, "select") /\ thr[t].op # "getpath"))
            => \A n \in Names: Right(n)

\* What a call knows, whoever got in its way.
CallInv(c) ==
    /\ c.op = "getpath" => c.loc \in Locs
    /\ (c.pc = "find" => c.op = "getpath") /\ (c.pc = "stat" => c.then # "each")
    /\ c.pc \in {"stat", "write"} =>
          c.row.loc \in Locs /\ c.name \in Names /\ (c.then = "select" => c.op = "getpath")
    /\ Looping(c) => c.todo \subseteq {n \in Names: c.parsed[n].loc > 0}

\* r is what has been parsed for a name if the files in ls give it.
Last(r, ls) ==
    IF r.loc = 0 THEN r = NoRow /\ ls = {}
    ELSE r.loc \in ls /\ (\A l \in ls: l <= r.loc) /\ r.ver = file[r.loc].ver /\ r.sig = 0

\* How far the index is right, at each place of a call that nobody has got in the way of.  A row may
\* be gone since it was read, but then the file it was of has another name by now.
SyncInv(c) ==
    /\ c.pc = "scan" => c.parsed = Idle.parsed
    /\ c.pc = "parse" => /\ \A l \in c.cand: l \in regs \/ l > External
                         /\ \A n \in Names: /\ Last(c.parsed[n], Givers(n) \ c.cand)
                                            /\ \A l \in Givers(n) \ c.cand, m \in c.cand: l < m
    /\ c.pc = "purge" \/ Looping(c) => \A n \in Names: Last(c.parsed[n], Givers(n))
    /\ c.pc = "purge" => c.snap = rows
    /\ Looping(c) => \A n \in Names:
          IF n \in c.todo THEN c.snap[n] = rows[n] \/ c.snap[n].loc # c.parsed[n].loc
          ELSE Right(n) \/ (c.pc = "write" /\ n = c.name)
    /\ c.pc \in {"stat", "write"} => c.row.loc \in Givers(c.name) /\ c.row.ver = file[c.row.loc].ver
    /\ c.pc = "write" /\ c.then = "each" => c.row.loc = c.parsed[c.name].loc /\ c.name \notin c.todo
    /\ Sure(c) => \A n \in Names: Right(n)
    /\ Searching(c) => \A l \in c.todo: \E n \in Names: rows[n].loc = l
    /\ Searching(c) /\ c.pc # "again" => rows[c.name].loc = c.row.loc

\* AnswersFollowFiles, and why: an invariant that every step keeps by itself.
SkillsInv == TypeOK /\ AnswersFollowFiles /\ \A t \in Threads: CallInv(thr[t]) /\ (thr[t].alone => SyncInv(thr[t]))

\* The row of a skill that was right is lost or replaced only by a call that another call, or a person,
\* got in the way of, or by a skill_get of another file of that name: t is the thread that takes the step.
OnlyRacesSpoil ==
    [][\A n \in Names: Right(n) /\ ~Right(n)' /\ UNCHANGED <<file, regs>> =>
          \E t \in Threads:
              /\ thr[t].pc \in {"purge", "write"} /\ thr'[t].pc # thr[t].pc
              /\ ~thr[t].alone \/ (At(t, "write") /\ thr[t].op = "getpath" /\ thr[t].name = n)]_vars
=============================================================================
