------------------------------- MODULE Memory -------------------------------
(***************************************************************************)
(* Persistent memory (mcp_server/tools_memory.py).  A day's memories are a *)
(* Markdown file; an SQLite index holds a row for each of them and, for    *)
(* each file, the signature under which it was indexed.  Every tool runs   *)
(* in a thread of its own and no lock joins its steps: a tool reads a day  *)
(* file, replaces it and indexes it, or brings the index up to date before *)
(* it answers from it.  People edit the same files.  SQLite serialises the *)
(* write transactions, and undoes one that is not committed.               *)
(***************************************************************************)
EXTENDS Naturals

CONSTANTS
    Days,         \* the day files
    Ids,          \* memory ids
    Texts, NoText,
    Threads, NoThread,
    NoDay, NoId,
    Ops,          \* the tools clients call
    MaxVersion    \* bound: times a day file is written

ASSUME NoTextAssumption == NoText \notin Texts
ASSUME NoThreadAssumption == NoThread \notin Threads
ASSUME NoDayAssumption == NoDay \notin Days
ASSUME NoIdAssumption == NoId \notin Ids
ASSUME OpsAssumption == Ops \subseteq {"add", "get", "search", "update", "delete"}
ASSUME VersionAssumption == MaxVersion \in Nat

VARIABLES
    file,    \* file[d]: the day file; ver stands for its mtime, which every write changes
    rows,    \* rows[d]: the rows of memories and memory_fts with that file_path, as committed
    sig,     \* sig[d]: its row of indexed_files; ver 0 when there is none
    db,      \* the thread whose write transaction is open
    thr,     \* thr[t]: the call a thread runs
    home     \* home[i]: the day id i was given out for

vars == <<file, rows, sig, db, thr, home>>

-----------------------------------------------------------------------------
Bodies == [Ids -> Texts \cup {NoText}]
Empty  == [i \in Ids |-> NoText]

File == [there: BOOLEAN, ver: 0..MaxVersion, body: Bodies]
Sig  == [ver: 0..MaxVersion, body: Bodies]
NoSig == [ver |-> 0, body |-> Empty]

Pcs == {"idle", "write", "parse", "lock", "stat", "digest", "commit", "snap", "purge", "each", "compare",
        "touch", "select", "again", "entry"}

\* d: the file at work; body: what was parsed of it; ver, sha: what was read of it for a signature;
\* snap: the signatures _sync_index has read; todo: the files it has still to look at; then: where
\* _index_file returns to.  alone is history: nobody else has changed a file or the index since the
\* call began.
Call == [op: {"none", "add", "get", "search", "update", "delete"}, pc: Pcs, id: Ids \cup {NoId},
         d: Days \cup {NoDay}, body: Bodies, ver: 0..MaxVersion, sha: Bodies, snap: [Days -> Sig],
         todo: SUBSET Days, then: {"done", "each", "again"}, alone: BOOLEAN]

Idle == [op |-> "none", pc |-> "idle", id |-> NoId, d |-> NoDay, body |-> Empty,
         ver |-> 0, sha |-> Empty, snap |-> [d \in Days |-> NoSig], todo |-> {}, then |-> "done",
         alone |-> TRUE]

Init ==
    /\ file = [d \in Days |-> [there |-> FALSE, ver |-> 0, body |-> Empty]]
    /\ rows = [d \in Days |-> Empty]
    /\ sig = [d \in Days |-> NoSig]
    /\ db = NoThread
    /\ thr = [t \in Threads |-> Idle]
    /\ home = [i \in Ids |-> NoDay]

At(t, p) == thr[t].pc = p
Mine(t)  == file[thr[t].d]

\* Thread t goes on as r; others notice only if it has changed a file or the index.
Go(t, r) == thr' = [thr EXCEPT ![t] = r]

Disturbed(u) == IF thr[u].pc = "idle" THEN thr[u] ELSE [thr[u] EXCEPT !.alone = FALSE]

GoAndDisturb(t, r) == thr' = [u \in Threads |-> IF u = t THEN r ELSE Disturbed(u)]

\* Mutant: the connection is left open.
RaiseOpen(t) == Go(t, Idle) /\ db' = db

\* A call that raises closes its connection, which rolls an open transaction back.
Raise(t) == Go(t, Idle) /\ db' = IF db = t THEN NoThread ELSE db

Stored(d, b) == [file EXCEPT ![d] = [there |-> TRUE, ver |-> @.ver + 1, body |-> b]]

-----------------------------------------------------------------------------
(* memory_add, and the write that ends memory_update and memory_delete.    *)

\* Mutant: the day file is not read.
AddCallBlind(t, d, i, x) ==
    /\ At(t, "idle") /\ "add" \in Ops /\ home[i] = NoDay
    /\ home' = [home EXCEPT ![i] = d]
    /\ Go(t, [Idle EXCEPT !.op = "add", !.pc = "write", !.id = i, !.d = d,
                          !.body = [Empty EXCEPT ![i] = x]])
    /\ UNCHANGED <<file, rows, sig, db>>

\* The day file is read at once; an id is a new uuid.
AddCall(t, d, i, x) ==
    /\ At(t, "idle") /\ "add" \in Ops /\ home[i] = NoDay
    /\ home' = [home EXCEPT ![i] = d]
    /\ Go(t, [Idle EXCEPT !.op = "add", !.pc = "write", !.id = i, !.d = d,
                          !.body = [file[d].body EXCEPT ![i] = x]])
    /\ UNCHANGED <<file, rows, sig, db>>

\* _atomic_write replaces the file by what was read of it and changed.
Write(t) ==
    /\ At(t, "write") /\ Mine(t).ver < MaxVersion
    /\ file' = Stored(thr[t].d, thr[t].body)
    /\ GoAndDisturb(t, [Idle EXCEPT !.pc = "parse", !.d = thr[t].d, !.alone = thr[t].alone])
    /\ UNCHANGED <<rows, sig, db, home>>

WriteFails(t) == At(t, "write") /\ Raise(t) /\ UNCHANGED <<file, rows, sig, home>>

-----------------------------------------------------------------------------
(* _index_file: parse, delete and insert rows, take the signature, commit. *)

Parse(t) ==
    /\ At(t, "parse")
    /\ Go(t, [thr[t] EXCEPT !.pc = "lock", !.body = Mine(t).body])
    /\ UNCHANGED <<file, rows, sig, db, home>>

\* The first DELETE opens the write transaction.
Lock(t) ==
    /\ At(t, "lock") /\ db = NoThread /\ db' = t
    /\ Go(t, [thr[t] EXCEPT !.pc = "stat"])
    /\ UNCHANGED <<file, rows, sig, home>>

\* SQLite gives up waiting for another transaction after five seconds.
LockRefused(t) ==
    /\ \E p \in {"lock", "purge", "touch"}: At(t, p)
    /\ db # NoThread /\ Raise(t)
    /\ UNCHANGED <<file, rows, sig, home>>

\* _file_signature: stat, then the digest of a second read; both want the file to be there.
Stat(t) ==
    /\ At(t, "stat")
    /\ IF Mine(t).there THEN Go(t, [thr[t] EXCEPT !.pc = "digest", !.ver = Mine(t).ver]) /\ db' = db
       ELSE Raise(t)
    /\ UNCHANGED <<file, rows, sig, home>>

Digest(t) ==
    /\ At(t, "digest")
    /\ IF Mine(t).there THEN Go(t, [thr[t] EXCEPT !.pc = "commit", !.sha = Mine(t).body]) /\ db' = db
       ELSE Raise(t)
    /\ UNCHANGED <<file, rows, sig, home>>

\* Where the call goes on after a file is indexed or found unchanged.
Onward(t) ==
    IF thr[t].then = "done" THEN Idle
    ELSE [thr[t] EXCEPT !.pc = thr[t].then, !.d = NoDay, !.body = Empty, !.ver = 0, !.sha = Empty,
                        !.todo = @ \ {thr[t].d}]

Commit(t) ==
    /\ At(t, "commit") /\ db' = NoThread
    /\ rows' = [rows EXCEPT ![thr[t].d] = thr[t].body]
    /\ sig' = [sig EXCEPT ![thr[t].d] = [ver |-> thr[t].ver, body |-> thr[t].sha]]
    /\ GoAndDisturb(t, Onward(t))
    /\ UNCHANGED <<file, home>>

-----------------------------------------------------------------------------
(* _sync_index, with which every other tool begins.                        *)

\* The glob.
SyncCall(t, op, i) ==
    /\ At(t, "idle") /\ op \in Ops \ {"add"}
    /\ i \in IF op \in {"update", "delete"} THEN Ids ELSE {NoId}
    /\ Go(t, [Idle EXCEPT !.op = op, !.pc = "snap", !.id = i,
                          !.todo = {d \in Days: file[d].there}])
    /\ UNCHANGED <<file, rows, sig, db, home>>

Vanished(s, ds) == {d \in Days \ ds: s[d].ver # 0}

Snap(t) ==
    /\ At(t, "snap")
    /\ Go(t, [thr[t] EXCEPT !.snap = sig, !.then = "each",
                            !.pc = IF Vanished(sig, thr[t].todo) = {} THEN "each" ELSE "purge"])
    /\ UNCHANGED <<file, rows, sig, db, home>>

\* Mutant: only the signature is deleted.
PurgeKeepsRows(t) ==
    LET gone == Vanished(thr[t].snap, thr[t].todo) IN
    /\ At(t, "purge") /\ db = NoThread /\ rows' = rows
    /\ sig' = [d \in Days |-> IF d \in gone THEN NoSig ELSE sig[d]]
    /\ GoAndDisturb(t, [thr[t] EXCEPT !.pc = "each"])
    /\ UNCHANGED <<file, db, home>>

\* The rows of files that are gone are deleted, in one transaction.
Purge(t) ==
    LET gone == Vanished(thr[t].snap, thr[t].todo) IN
    /\ At(t, "purge") /\ db = NoThread
    /\ rows' = [d \in Days |-> IF d \in gone THEN Empty ELSE rows[d]]
    /\ sig' = [d \in Days |-> IF d \in gone THEN NoSig ELSE sig[d]]
    /\ GoAndDisturb(t, [thr[t] EXCEPT !.pc = "each"])
    /\ UNCHANGED <<file, db, home>>

\* Mutant: a file that is known is not looked at again.
EachKnown(t, d) ==
    /\ At(t, "each") /\ d \in thr[t].todo
    /\ IF ~file[d].there THEN Raise(t)
       ELSE IF thr[t].snap[d].ver # 0
       THEN Go(t, [thr[t] EXCEPT !.todo = @ \ {d}]) /\ db' = db
       ELSE Go(t, [thr[t] EXCEPT !.pc = "compare", !.d = d, !.ver = file[d].ver]) /\ db' = db
    /\ UNCHANGED <<file, rows, sig, home>>

\* A file whose mtime and size are those of its signature is left alone.
Each(t, d) ==
    /\ At(t, "each") /\ d \in thr[t].todo
    /\ IF ~file[d].there THEN Raise(t)
       ELSE IF thr[t].snap[d].ver = file[d].ver
       THEN Go(t, [thr[t] EXCEPT !.todo = @ \ {d}]) /\ db' = db
       ELSE Go(t, [thr[t] EXCEPT !.pc = "compare", !.d = d, !.ver = file[d].ver]) /\ db' = db
    /\ UNCHANGED <<file, rows, sig, home>>

\* The same text under a new mtime is not indexed again.
Compare(t) ==
    LET d == thr[t].d  known == thr[t].snap[d] IN
    /\ At(t, "compare")
    /\ IF file[d].there
       THEN LET same == known.ver # 0 /\ known.body = file[d].body IN
            /\ Go(t, [thr[t] EXCEPT !.pc = IF same THEN "touch" ELSE "parse",
                                    !.ver = IF same THEN @ ELSE 0, !.snap[d] = NoSig])
            /\ db' = db
       ELSE Raise(t)
    /\ UNCHANGED <<file, rows, sig, home>>

\* It has its new mtime recorded, beside the digest that is recorded by now.
Touch(t) ==
    /\ At(t, "touch") /\ db = NoThread
    /\ sig' = [sig EXCEPT ![thr[t].d].ver = IF @ = 0 THEN 0 ELSE thr[t].ver]
    /\ GoAndDisturb(t, Onward(t))
    /\ UNCHANGED <<file, rows, db, home>>

Synced(t) ==
    /\ At(t, "each") /\ thr[t].todo = {}
    /\ Go(t, [thr[t] EXCEPT !.pc = "select", !.snap = Idle.snap, !.then = "done"])
    /\ UNCHANGED <<file, rows, sig, db, home>>

-----------------------------------------------------------------------------
(* What the tools do with the index.                                       *)

\* memory_get, and memory_search without a query.
Answer(t) ==
    /\ At(t, "select") /\ thr[t].op = "get" /\ Go(t, Idle)
    /\ UNCHANGED <<file, rows, sig, db, home>>

\* A query has the files indexed again whose vectors are of another backend than its own; which
\* those are is left open.
Embed(t, ds) ==
    /\ At(t, "select") /\ thr[t].op = "search"
    /\ ds \subseteq {d \in Days: rows[d] # Empty}
    /\ Go(t, [thr[t] EXCEPT !.pc = "again", !.todo = ds, !.then = "again"])
    /\ UNCHANGED <<file, rows, sig, db, home>>

Again(t, d) ==
    /\ At(t, "again") /\ d \in thr[t].todo
    /\ Go(t, IF file[d].there THEN [thr[t] EXCEPT !.pc = "parse", !.d = d]
             ELSE [thr[t] EXCEPT !.todo = @ \ {d}])
    /\ UNCHANGED <<file, rows, sig, db, home>>

Ranked(t) ==
    /\ At(t, "again") /\ thr[t].todo = {} /\ Go(t, Idle)
    /\ UNCHANGED <<file, rows, sig, db, home>>

\* _locate_entry: the row names the file (404 without one), ...
Locate(t) ==
    LET found == {d \in Days: rows[d][thr[t].id] # NoText} IN
    /\ At(t, "select") /\ thr[t].op \in {"update", "delete"}
    /\ IF found = {} THEN Go(t, Idle)
       ELSE \E d \in found: Go(t, [thr[t] EXCEPT !.pc = "entry", !.d = d])
    /\ UNCHANGED <<file, rows, sig, db, home>>

\* ... which is parsed again and must have the entry (409).  A call that asks for no change, or for
\* confirmation, ends here.
Entry(t, x) ==
    /\ At(t, "entry")
    /\ \/ Go(t, Idle)
       \/ /\ Mine(t).body[thr[t].id] # NoText
          /\ x \in IF thr[t].op = "update" THEN Texts ELSE {NoText}
          /\ Go(t, [thr[t] EXCEPT !.pc = "write",
                                  !.body = [Mine(t).body EXCEPT ![thr[t].id] = x]])
    /\ UNCHANGED <<file, rows, sig, db, home>>

-----------------------------------------------------------------------------
\* A person changes texts, strikes entries or pastes them back, or removes the file.
Edit(d, b) ==
    /\ file[d].there /\ file[d].ver < MaxVersion
    /\ b \in Bodies /\ \A i \in Ids: b[i] # NoText => home[i] = d
    /\ file' = Stored(d, b)
    /\ thr' = [t \in Threads |-> Disturbed(t)]
    /\ UNCHANGED <<rows, sig, db, home>>

Remove(d) ==
    /\ file[d].there /\ file[d].ver < MaxVersion
    /\ file' = [file EXCEPT ![d] = [there |-> FALSE, ver |-> @.ver + 1, body |-> Empty]]
    /\ thr' = [t \in Threads |-> Disturbed(t)]
    /\ UNCHANGED <<rows, sig, db, home>>

\* The server dies; SQLite undoes what was not committed.
Crash ==
    /\ thr' = [t \in Threads |-> Idle] /\ db' = NoThread
    /\ UNCHANGED <<file, rows, sig, home>>

Step(t) ==
    \/ Write(t) \/ WriteFails(t) \/ Parse(t) \/ Lock(t) \/ LockRefused(t) \/ Stat(t) \/ Digest(t)
    \/ Commit(t) \/ Snap(t) \/ Purge(t) \/ Compare(t) \/ Touch(t) \/ Synced(t) \/ Answer(t)
    \/ Ranked(t) \/ Locate(t)
    \/ \E d \in Days: Each(t, d) \/ Again(t, d)
    \/ \E ds \in SUBSET Days: Embed(t, ds)
    \/ \E x \in Texts \cup {NoText}: Entry(t, x)

Next ==
    \/ \E t \in Threads: \/ Step(t)
                         \/ \E d \in Days, i \in Ids, x \in Texts: AddCall(t, d, i, x)
                         \/ \E op \in Ops, i \in Ids \cup {NoId}: SyncCall(t, op, i)
    \/ \E d \in Days: Remove(d) \/ \E b \in Bodies: Edit(d, b)
    \/ Crash

Spec == Init /\ [][Next]_vars

-----------------------------------------------------------------------------
Holding == {"stat", "digest", "commit"}

\* Types; and the write transaction is open while a call is between its first DELETE and its commit,
\* however the call ends.
TypeOK ==
    /\ file \in [Days -> File] /\ rows \in [Days -> Bodies] /\ sig \in [Days -> Sig]
    /\ db \in Threads \cup {NoThread}
    /\ \A t \in Threads: db = t <=> thr[t].pc \in Holding
    /\ thr \in [Threads -> Call]
    /\ home \in [Ids -> Days \cup {NoDay}]

\* The index of a day is what its signature says, and the signature is of the text it is taken for.
Sound(d) ==
    /\ rows[d] = sig[d].body
    /\ sig[d].ver = file[d].ver => sig[d].body = file[d].body

\* What a call that nobody has got in the way of reads, it reads of the files as they are: its sync
\* has found every edit, every file that is gone and every file a call before it wrote and, having
\* crashed or been refused the database, did not index.  It needs sound indexes to begin with.
AnswersFollowFiles ==
    \A t \in Threads:
        At(t, "select") /\ thr[t].alone /\ (\A d \in Days: Sound(d))
            => \A d \in Days: rows[d] = file[d].body

\* The index of a day is spoilt only by the last step of a call about that day which another call, or
\* a person, got in the way of: t is the thread that takes the step.
OnlyRacesSpoil ==
    [][\A d \in Days: Sound(d) /\ ~Sound(d)' =>
          \E t \in Threads: /\ thr[t].pc \in {"commit", "touch"} /\ thr'[t].pc # thr[t].pc
                            /\ thr[t].d = d /\ ~thr[t].alone]_vars

\* An entry leaves a file when a person strikes it, when it is deleted by its id, or in a race.
LossOnlyByRace ==
    [][\A t \in Threads, d \in Days, i \in Ids:
          At(t, "write") /\ thr'[t].pc = "parse" /\ thr[t].alone
             /\ file[d].body[i] # NoText /\ file'[d].body[i] # file[d].body[i]
          => thr[t].id = i /\ thr[t].op \in {"update", "delete"}]_vars

-----------------------------------------------------------------------------
(* The inductive invariant.                                                *)

\* Every write of a file, and its removal, gives it a new version; a signature is of one that it has had.
FileInv ==
    \A d \in Days:
        /\ IF file[d].there THEN file[d].ver > 0 ELSE file[d].body = Empty
        /\ sig[d].ver <= file[d].ver /\ (sig[d].ver = 0 => sig[d] = NoSig)
        /\ \A i \in Ids: file[d].body[i] # NoText => home[i] = d

\* The signature of d is up to date.
Seen(d) == sig[d].ver = IF file[d].there THEN file[d].ver ELSE 0

\* Call c is about one file, and what it has read of that file's version is not from the future.
CallInv(c) ==
    /\ c.pc \in {"write", "parse", "lock", "stat", "digest", "commit", "compare", "touch", "entry"} => c.d \in Days
    /\ c.pc \in {"snap", "purge", "each"} => c.d = NoDay
    /\ c.pc \in {"digest", "commit", "compare", "touch"} => 0 < c.ver /\ c.ver <= file[c.d].ver
    /\ c.pc = "again" => c.then = "again"
    /\ c.pc = "entry" => c.op \in {"update", "delete"}
    /\ c.pc = "write" => c.op \in {"add", "update", "delete"}
    /\ c.op \in {"add", "update", "delete"} => c.id \in Ids
    /\ c.pc = "write" => \A i \in Ids: c.body[i] # NoText => home[i] = c.d

\* What c has read is what there is: of its file, ...
ReadInv(c) ==
    LET f == file[c.d] IN
    /\ c.pc = "write" =>
          /\ \A i \in Ids \ {c.id}: c.body[i] = f.body[i]
          /\ c.op = "add" => f.body[c.id] = NoText
    /\ c.pc \in {"lock", "stat", "digest", "commit"} => c.body = f.body
    /\ c.pc \in {"digest", "commit", "compare", "touch"} => f.there /\ c.ver = f.ver
    /\ c.pc = "commit" => c.sha = f.body
    /\ c.pc = "touch" => sig[c.d].ver # 0 /\ sig[c.d].body = f.body

\* ... and in its sync of the signatures it has still to compare; the others are up to date.
Syncing(c) ==
    c.pc \in {"each", "compare", "touch"} \/ (c.pc \in {"parse", "lock", "stat", "digest", "commit"} /\ c.then = "each")

SyncInv(c) ==
    /\ c.pc \in {"snap", "purge"} => c.todo = {d \in Days: file[d].there}
    /\ c.pc = "purge" => c.snap = sig
    /\ Syncing(c) => /\ \A d \in Days: IF d \in c.todo THEN d # c.d => c.snap[d] = sig[d] ELSE Seen(d)
                     /\ c.pc = "compare" => c.snap[c.d] = sig[c.d]
    /\ c.pc = "select" => \A d \in Days: Seen(d)

MemoryInv ==
    /\ TypeOK /\ FileInv
    /\ \A t \in Threads: CallInv(thr[t]) /\ (thr[t].alone => ReadInv(thr[t]) /\ SyncInv(thr[t]))

\* Why an answer follows the files: signatures are of versions the files have had, and a call that nobody
\* gets in the way of has read, and has still to compare, what is on disk and in the table (374-442).
IndexInv == MemoryInv /\ AnswersFollowFiles

\* A claim the code does not keep, and no run checks (see the README): "Manual edits to the Markdown
\* journals are detected and re-indexed automatically" (README.md:366).
EditsAreIndexed ==
    \A t \in Threads:
        At(t, "select") /\ thr[t].alone => \A d \in Days: rows[d] = file[d].body
=============================================================================
