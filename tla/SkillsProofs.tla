---------------------------- MODULE SkillsProofs ----------------------------
(***************************************************************************)
(* Proofs about Skills, for any locations, managed or not, any names and   *)
(* threads, whatever tools they call, and any number of edits.             *)
(***************************************************************************)
EXTENDS Skills, TLAPS

USE LocationAssumption, NoNameAssumption, EditsAssumption, OpsAssumption

File == [ver: 0..MaxEdits, name: Names \cup {NoName}]
Pcs == {"idle", "scan", "parse", "purge", "each", "write", "find", "select", "stat", "embed", "again"}
ThreadState == [op: {"none", "list", "getpath", "search"}, pc: Pcs, loc: 0..Locations, cand: SUBSET Locs,
                parsed: [Names -> Row], snap: [Names -> Row], todo: SUBSET (Names \cup Locs),
                name: Names \cup {NoName}, row: Row, then: {"each", "select", "again"}, alone: BOOLEAN]

OneForALocation == \A m, n \in Names: rows[m].loc = rows[n].loc /\ rows[m].loc > 0 => m = n

Good(c) == CallInv(c) /\ (c.alone => SyncInv(c))

LEMMA Typed ==
    ASSUME SkillsInv
    PROVE  /\ file \in [Locs -> File] /\ edits \in 0..MaxEdits /\ regs \subseteq 1..External
           /\ rows \in [Names -> Row] /\ OneForALocation
           /\ thr \in [Threads -> ThreadState]
           /\ \A t \in Threads: thr[t] \in ThreadState /\ Good(thr[t])
<1>1. thr \in [Threads -> ThreadState]
  BY DEF SkillsInv, TypeOK, ThreadState, Pcs
<1>2. \A t \in Threads: thr[t] \in ThreadState /\ Good(thr[t])
  BY <1>1 DEF SkillsInv, Good
<1> QED
  BY <1>1, <1>2 DEF SkillsInv, TypeOK, File, OneForALocation

LEMMA Numbers ==
    /\ Locations \in Nat /\ External \in 0..Locations /\ MaxEdits \in Nat /\ 0 \in 0..MaxEdits /\ 0 \in 0..Locations
    /\ Locs \subseteq Nat /\ Locs \subseteq 0..Locations /\ 0 \notin Locs /\ 1..External \subseteq Locs
    /\ \A l \in 0..Locations: l > 0 <=> l \in Locs
BY DEF Locs

LEMMA Of ==
    ASSUME NEW c \in ThreadState
    PROVE  /\ c.op \in {"none", "list", "getpath", "search"} /\ c.pc \in Pcs /\ c.loc \in 0..Locations
           /\ c.cand \in SUBSET Locs /\ c.parsed \in [Names -> Row] /\ c.snap \in [Names -> Row]
           /\ c.todo \in SUBSET (Names \cup Locs) /\ c.name \in Names \cup {NoName} /\ c.row \in Row
           /\ c.then \in {"each", "select", "again"} /\ c.alone \in BOOLEAN
BY DEF ThreadState

LEMMA OfFile ==
    ASSUME SkillsInv, NEW l \in Locs
    PROVE  /\ file[l] \in File /\ file[l].ver \in 0..MaxEdits /\ file[l].name \in Names \cup {NoName}
BY Typed DEF File

LEMMA OfRow ==
    ASSUME NEW r \in Row
    PROVE  r.loc \in 0..Locations /\ r.ver \in 0..MaxEdits /\ r.sig \in 0..MaxEdits /\ (r.loc = 0 \/ r.loc \in Locs)
BY Numbers DEF Row

LEMMA NothingTyped == NoRow \in Row /\ NoRow.loc = 0 /\ NoRow.ver = 0 /\ NoRow.sig = 0
BY Numbers DEF NoRow, Row

LEMMA IdleFields ==
    /\ Idle.op = "none" /\ Idle.pc = "idle" /\ Idle.loc = 0 /\ Idle.cand = {}
    /\ Idle.parsed = [n \in Names |-> NoRow] /\ Idle.snap = [n \in Names |-> NoRow] /\ Idle.todo = {}
    /\ Idle.name = NoName /\ Idle.row = NoRow /\ Idle.then = "each" /\ Idle.alone = TRUE
BY DEF Idle

LEMMA IdleTyped == Idle \in ThreadState
<1>1. [n \in Names |-> NoRow] \in [Names -> Row] /\ NoRow \in Row /\ 0 \in 0..Locations
  BY NothingTyped, Numbers
<1> QED
  BY <1>1 DEF Idle, ThreadState, Pcs

LEMMA IdleGood == Good(Idle)
BY IdleFields DEF Good, CallInv, SyncInv, Looping, Searching, Sure

-----------------------------------------------------------------------------
(* What a step of one thread is to the others.                             *)

LEMMA SameGivers ==
    ASSUME UNCHANGED <<file, regs>>
    PROVE  /\ \A n: Givers(n)' = Givers(n)
           /\ \A r, ls: Last(r, ls)' = Last(r, ls)
BY DEF Givers, Parses, There, Last

LEMMA SameRight ==
    ASSUME UNCHANGED <<file, regs>>, NEW n, rows'[n] = rows[n]
    PROVE  Right(n)' = Right(n)
<1>1. Givers(n)' = Givers(n) /\ file' = file
  BY SameGivers
<1> QED
  BY <1>1 DEF Right

\* A step that changes no file and no index.
LEMMA Unchanged ==
    ASSUME UNCHANGED <<file, regs, rows>>, NEW c, Good(c) PROVE Good(c)'
<1>1. \A n: Givers(n)' = Givers(n) /\ Right(n)' = Right(n)
  BY SameGivers, SameRight
<1>2. \A r, ls: Last(r, ls)' = Last(r, ls)
  BY SameGivers
<1>3. CallInv(c)'
  BY DEF Good, CallInv, Looping
<1>4. ASSUME c.alone PROVE SyncInv(c)'
  <2>1. SyncInv(c)
    BY <1>4 DEF Good
  <2> QED
    BY <1>1, <1>2, <2>1 DEF SyncInv, Looping, Searching, Sure
<1> QED
  BY <1>3, <1>4 DEF Good

LEMMA Together ==
    ASSUME file' \in [Locs -> File], edits' \in 0..MaxEdits, regs' \subseteq 1..External,
           rows' \in [Names -> Row], OneForALocation', thr' \in [Threads -> ThreadState],
           \A u \in Threads: \A c: c = thr'[u] => Good(c)'
    PROVE  SkillsInv'
<1>1. TypeOK'
  BY DEF TypeOK, File, ThreadState, Pcs, OneForALocation
<1>2. ASSUME NEW u \in Threads
      PROVE  CallInv(thr[u])' /\ (thr'[u].alone => SyncInv(thr[u])')
  <2>1. PICK c: c = thr'[u]
    OBVIOUS
  <2>2. Good(c)'
    BY <2>1
  <2>3. CallInv(thr[u])'
    BY <2>1, <2>2 DEF Good, CallInv, Looping
  <2>4. ASSUME c.alone PROVE SyncInv(thr[u])'
    <3>1. SyncInv(c)'
      BY <2>2, <2>4 DEF Good
    <3> QED
      BY <2>1, <3>1
  <2> QED
    BY <2>1, <2>3, <2>4
<1>3. AnswersFollowFiles'
  <2>1. ASSUME NEW u \in Threads, thr'[u].alone,
               thr'[u].pc \in {"find", "embed"} \/ (thr'[u].pc = "select" /\ thr'[u].op # "getpath")
        PROVE  \A n \in Names: Right(n)'
    <3>1. PICK c: c = thr'[u]
      OBVIOUS
    <3>2. SyncInv(c)'
      BY <2>1, <3>1 DEF Good
    <3>3. Sure(c)
      BY <2>1, <3>1 DEF Sure
    <3> QED
      BY <3>2, <3>3 DEF SyncInv, Sure, Searching
  <2> QED
    BY <2>1 DEF AnswersFollowFiles, At
<1> QED
  BY <1>1, <1>2, <1>3 DEF SkillsInv

LEMMA Quietly ==
    ASSUME SkillsInv, NEW t \in Threads, NEW r \in ThreadState, Go(t, r), Good(r)',
           UNCHANGED <<file, edits, regs, rows>>
    PROVE  SkillsInv'
<1>1. thr \in [Threads -> ThreadState] /\ thr' = [thr EXCEPT ![t] = r]
  BY Typed DEF Go
<1>2. thr' \in [Threads -> ThreadState] /\ thr'[t] = r /\ \A u \in Threads \ {t}: thr'[u] = thr[u]
  BY <1>1
<1>3. ASSUME NEW u \in Threads, NEW c, c = thr'[u] PROVE Good(c)'
  <2>1. CASE u = t
    <3>1. c = r
      BY <1>2, <1>3, <2>1
    <3> QED
      BY <3>1
  <2>2. CASE u # t
    <3>1. c = thr[u] /\ Good(thr[u])
      BY <1>2, <1>3, <2>2, Typed
    <3> QED
      BY <3>1, Unchanged
  <2> QED
    BY <2>1, <2>2
<1>4. OneForALocation'
  BY Typed DEF OneForALocation
<1>5. file' \in [Locs -> File] /\ edits' \in 0..MaxEdits /\ regs' \subseteq 1..External /\ rows' \in [Names -> Row]
  BY Typed
<1> QED
  BY <1>2, <1>3, <1>4, <1>5, Together

LEMMA Quiet ==
    ASSUME SkillsInv, NEW t \in Threads, NEW r \in ThreadState, Go(t, r), Good(r),
           UNCHANGED <<file, edits, regs, rows>>
    PROVE  SkillsInv'
BY Quietly, Unchanged

LEMMA Ends == ASSUME SkillsInv, NEW t \in Threads, Go(t, Idle), UNCHANGED <<file, edits, regs, rows>> PROVE SkillsInv'
BY IdleTyped, IdleGood, Quiet

LEMMA DisturbedGood ==
    ASSUME SkillsInv, NEW u \in Threads, NEW c, c = Disturbed(u) PROVE c \in ThreadState /\ Good(c)'
<1>1. PICK b: b = thr[u]
  OBVIOUS
<1>2. b \in ThreadState /\ Good(b)
  BY <1>1, Typed
<1>3. CASE b.pc = "idle"
  <2>1. c = b
    BY <1>1, <1>3 DEF Disturbed
  <2>2. CallInv(c)' /\ SyncInv(c)'
    BY <1>2, <1>3, <2>1 DEF Good, CallInv, SyncInv, Looping, Searching, Sure
  <2> QED
    BY <1>2, <2>1, <2>2 DEF Good
<1>4. CASE b.pc # "idle"
  <2>1. c = [b EXCEPT !.alone = FALSE]
    BY <1>1, <1>4 DEF Disturbed
  <2>2. /\ c \in ThreadState /\ c.alone = FALSE /\ c.pc = b.pc /\ c.op = b.op /\ c.loc = b.loc /\ c.row = b.row
        /\ c.name = b.name /\ c.then = b.then /\ c.todo = b.todo /\ c.parsed = b.parsed
    BY <1>2, <2>1 DEF ThreadState
  <2>3. CallInv(c)'
    BY <1>2, <2>2 DEF Good, CallInv, Looping
  <2> QED
    BY <2>2, <2>3 DEF Good
<1> QED
  BY <1>3, <1>4

\* Thread t has changed a registration or the index.
LEMMA Loud ==
    ASSUME SkillsInv, NEW t \in Threads, NEW r \in ThreadState, GoAndDisturb(t, r), Good(r)',
           UNCHANGED <<file, edits>>, regs' \subseteq 1..External, rows' \in [Names -> Row], OneForALocation'
    PROVE  SkillsInv'
<1>1. \A u \in Threads: \A c: c = Disturbed(u) => c \in ThreadState /\ Good(c)'
  BY DisturbedGood
<1>2. thr' \in [Threads -> ThreadState]
  BY <1>1 DEF GoAndDisturb
<1>3. ASSUME NEW u \in Threads, NEW c, c = thr'[u] PROVE Good(c)'
  <2>1. CASE u = t
    <3>1. c = r
      BY <1>3, <2>1 DEF GoAndDisturb
    <3> QED
      BY <3>1
  <2>2. CASE u # t
    <3>1. c = Disturbed(u)
      BY <1>3, <2>2 DEF GoAndDisturb
    <3> QED
      BY <3>1, <1>1
  <2> QED
    BY <2>1, <2>2
<1>4. file' \in [Locs -> File] /\ edits' \in 0..MaxEdits
  BY Typed
<1> QED
  BY <1>2, <1>3, <1>4, Together

\* A person has changed a file.
LEMMA FromOutside ==
    ASSUME SkillsInv, thr' = [u \in Threads |-> Disturbed(u)], UNCHANGED <<regs, rows>>,
           file' \in [Locs -> File], edits' \in 0..MaxEdits
    PROVE  SkillsInv'
<1>1. \A u \in Threads: \A c: c = Disturbed(u) => c \in ThreadState /\ Good(c)'
  BY DisturbedGood
<1>2. thr' \in [Threads -> ThreadState] /\ \A u \in Threads: \A c: c = thr'[u] => Good(c)'
  BY <1>1
<1>3. rows' \in [Names -> Row] /\ OneForALocation' /\ regs' \subseteq 1..External
  BY Typed DEF OneForALocation
<1> QED
  BY <1>2, <1>3, Together

-----------------------------------------------------------------------------
(* The steps of one thread that change neither registrations nor index.    *)

\* A call that begins: whatever the tool, it scans first.
LEMMA BeginsGood ==
    ASSUME NEW op \in {"list", "getpath", "search"}, NEW l \in 0..Locations, op = "getpath" => l \in Locs,
           NEW r, r = [Idle EXCEPT !.op = op, !.pc = "scan", !.loc = l]
    PROVE  r \in ThreadState /\ Good(r) /\ Good(r)'
<1>1. /\ r \in ThreadState /\ r.op = op /\ r.pc = "scan" /\ r.loc = l /\ r.parsed = Idle.parsed
  BY IdleTyped DEF ThreadState, Pcs
<1>2. CallInv(r) /\ SyncInv(r)
  BY <1>1 DEF CallInv, SyncInv, Looping, Searching, Sure
<1>3. CallInv(r)' /\ SyncInv(r)'
  BY <1>1 DEF CallInv, SyncInv, Looping, Searching, Sure
<1> QED
  BY <1>1, <1>2, <1>3 DEF Good

LEMMA Calls ==
    ASSUME SkillsInv, NEW t \in Threads, NEW op \in Ops[t], NEW l \in 0..Locations, Call(t, op, l) PROVE SkillsInv'
<1>1. PICK r: r = [Idle EXCEPT !.op = op, !.pc = "scan", !.loc = l]
  OBVIOUS
<1>2. op \in {"list", "getpath", "search"} /\ (op = "getpath" => l \in Locs)
  BY Numbers DEF Call
<1>3. r \in ThreadState /\ Good(r)
  BY <1>1, <1>2, BeginsGood
<1>4. Go(t, r)
  BY <1>1 DEF Call
<1> QED
  BY <1>3, <1>4, Quiet DEF Call

LEMMA Scans == ASSUME SkillsInv, NEW t \in Threads, Scan(t) PROVE SkillsInv'
<1>1. PICK c: c = thr[t]
  OBVIOUS
<1>2. c \in ThreadState /\ Good(c) /\ c.pc = "scan"
  BY <1>1, Typed DEF Scan, At
<1>3. PICK ls: ls = {l \in Locs: There(l) /\ (l \in regs \/ l > External)}
  OBVIOUS
<1>4. PICK r: r = [c EXCEPT !.pc = "parse", !.cand = ls]
  OBVIOUS
<1>5. /\ r \in ThreadState /\ r.pc = "parse" /\ r.cand = ls /\ r.op = c.op /\ r.loc = c.loc /\ r.alone = c.alone
      /\ r.parsed = c.parsed
  BY <1>2, <1>3, <1>4 DEF ThreadState, Pcs
<1>6. CallInv(r)
  BY <1>2, <1>5 DEF Good, CallInv, Looping
<1>7. ASSUME c.alone PROVE SyncInv(r)
  <2>1. \A n \in Names: c.parsed[n] = NoRow
    BY <1>2, <1>7, IdleFields DEF Good, SyncInv
  <2>2. \A n \in Names: Givers(n) \ ls = {}
    BY <1>3 DEF Givers, Parses
  <2>3. \A n \in Names: Last(c.parsed[n], Givers(n) \ ls)
    BY <2>1, <2>2, NothingTyped DEF Last
  <2>4. \A l \in ls: l \in regs \/ l > External
    BY <1>3
  <2> QED
    BY <1>5, <2>2, <2>3, <2>4 DEF SyncInv, Looping, Searching, Sure
<1>8. Go(t, r)
  BY <1>1, <1>3, <1>4 DEF Scan
<1> QED
  BY <1>5, <1>6, <1>7, <1>8, Quiet DEF Scan, Good

\* The first of the files still to be parsed is parsed.
ParsedUpTo(ps, ls) ==
    \A n \in Names: Last(ps[n], Givers(n) \ ls) /\ \A k \in Givers(n) \ ls, m \in ls: k < m

LEMMA ParsedInOrder ==
    ASSUME SkillsInv, NEW ps \in [Names -> Row], NEW ls \in SUBSET Locs, NEW l \in ls, \A m \in ls: l <= m,
           \A m \in ls: m \in regs \/ m > External,
           ParsedUpTo(ps, ls),
           NEW qs, qs = IF Parses(l) THEN Overridden(ps, file[l].name, [NoRow EXCEPT !.loc = l, !.ver = file[l].ver])
                        ELSE ps
    PROVE  ParsedUpTo(qs, ls \ {l})
<1> SUFFICES ASSUME NEW n \in Names
             PROVE  Last(qs[n], Givers(n) \ (ls \ {l})) /\ \A k \in Givers(n) \ (ls \ {l}), m \in ls \ {l}: k < m
  BY DEF ParsedUpTo
<1>1. l \in Nat /\ ls \subseteq Nat /\ l \in Locs
  BY Numbers
<1>2. Last(ps[n], Givers(n) \ ls) /\ \A k \in Givers(n) \ ls, m \in ls: k < m
  BY DEF ParsedUpTo
<1>3. \A m \in ls \ {l}: l < m
  BY <1>1
<1>4. \A k \in Givers(n) \ (ls \ {l}), m \in ls \ {l}: k < m
  BY <1>2, <1>3
<1>5. CASE l \notin Givers(n)
  <2>1. Givers(n) \ (ls \ {l}) = Givers(n) \ ls
    BY <1>5
  <2>2. ~(Parses(l) /\ file[l].name = n)
    BY <1>1, <1>5 DEF Givers
  <2>3. qs[n] = ps[n]
    BY <2>2 DEF Overridden
  <2> QED
    BY <1>2, <1>4, <2>1, <2>3
<1>6. CASE l \in Givers(n)
  <2>1. Parses(l) /\ file[l].name = n /\ file[l].ver \in 0..MaxEdits
    BY <1>1, <1>6, OfFile DEF Givers
  <2>2. PICK r: r = [NoRow EXCEPT !.loc = l, !.ver = file[l].ver]
    OBVIOUS
  <2>3. qs[n] = r
    BY <2>1, <2>2 DEF Overridden
  <2>4. r.loc = l /\ r.ver = file[l].ver /\ r.sig = 0
    BY <2>2 DEF NoRow
  <2>5. Givers(n) \ (ls \ {l}) = (Givers(n) \ ls) \cup {l} /\ Givers(n) \subseteq Nat
    BY <1>6, Numbers DEF Givers
  <2>6. \A k \in Givers(n) \ (ls \ {l}): k <= l
    BY <1>1, <1>2, <2>5
  <2>7. l # 0
    BY <1>1, Numbers
  <2>8. Last(r, Givers(n) \ (ls \ {l}))
    BY <2>4, <2>5, <2>6, <2>7 DEF Last
  <2> QED
    BY <1>4, <2>3, <2>8
<1> QED
  BY <1>5, <1>6

LEMMA ParsesOne == ASSUME SkillsInv, NEW t \in Threads, NEW l \in Locs, Parse(t, l) PROVE SkillsInv'
<1>1. PICK c: c = thr[t]
  OBVIOUS
<1>2. c \in ThreadState /\ Good(c) /\ c.pc = "parse" /\ l \in c.cand /\ \A m \in c.cand: l <= m
  BY <1>1, Typed DEF Parse, At
<1>3. c.parsed \in [Names -> Row] /\ c.cand \in SUBSET Locs
  BY <1>2, Of
<1>4. PICK qs: qs = IF Parses(l)
                    THEN Overridden(c.parsed, file[l].name, [NoRow EXCEPT !.loc = l, !.ver = file[l].ver])
                    ELSE c.parsed
  OBVIOUS
<1>5. [NoRow EXCEPT !.loc = l, !.ver = file[l].ver] \in Row
  BY OfFile, Numbers DEF NoRow, Row
<1>6. qs \in [Names -> Row]
  BY <1>3, <1>4, <1>5 DEF Overridden
<1>7. PICK r: r = [c EXCEPT !.cand = c.cand \ {l}, !.parsed = qs]
  OBVIOUS
<1>8. /\ r \in ThreadState /\ r.pc = "parse" /\ r.cand = c.cand \ {l} /\ r.parsed = qs
      /\ r.op = c.op /\ r.loc = c.loc /\ r.alone = c.alone
  BY <1>2, <1>3, <1>6, <1>7 DEF ThreadState
<1>9. CallInv(r)
  BY <1>2, <1>8 DEF Good, CallInv, Looping
<1>10. ASSUME c.alone PROVE SyncInv(r)
  <2>1. /\ \A m \in c.cand: m \in regs \/ m > External
        /\ ParsedUpTo(c.parsed, c.cand)
    BY <1>2, <1>10 DEF Good, SyncInv, ParsedUpTo
  <2>2. PICK ps, ls: ps = c.parsed /\ ls = c.cand
    OBVIOUS
  <2>3. ps \in [Names -> Row] /\ ls \in SUBSET Locs /\ l \in ls /\ \A m \in ls: l <= m
    BY <1>2, <1>3, <2>2
  <2>4. /\ \A m \in ls: m \in regs \/ m > External
        /\ ParsedUpTo(ps, ls)
    BY <2>1, <2>2
  <2>5. qs = IF Parses(l) THEN Overridden(ps, file[l].name, [NoRow EXCEPT !.loc = l, !.ver = file[l].ver]) ELSE ps
    BY <1>4, <2>2
  <2>6. ParsedUpTo(qs, ls \ {l})
    BY <2>3, <2>4, <2>5, ParsedInOrder
  <2> QED
    BY <1>8, <2>1, <2>2, <2>6 DEF ParsedUpTo, SyncInv, Looping, Searching, Sure
<1>11. Go(t, r)
  BY <1>1, <1>4, <1>7 DEF Parse
<1> QED
  BY <1>8, <1>9, <1>10, <1>11, Quiet DEF Parse, Good

LEMMA ReadsRows == ASSUME SkillsInv, NEW t \in Threads, Existing(t) PROVE SkillsInv'
<1>1. PICK c: c = thr[t]
  OBVIOUS
<1>2. c \in ThreadState /\ Good(c) /\ c.pc = "parse" /\ c.cand = {}
  BY <1>1, Typed DEF Existing, At
<1>3. PICK r: r = [c EXCEPT !.pc = "purge", !.snap = rows]
  OBVIOUS
<1>4. /\ r \in ThreadState /\ r.pc = "purge" /\ r.snap = rows /\ r.parsed = c.parsed
      /\ r.op = c.op /\ r.loc = c.loc /\ r.alone = c.alone
  BY <1>2, <1>3, Typed DEF ThreadState, Pcs
<1>5. CallInv(r)
  BY <1>2, <1>4 DEF Good, CallInv, Looping
<1>6. ASSUME c.alone PROVE SyncInv(r)
  <2>1. \A n \in Names: Givers(n) \ c.cand = Givers(n)
    BY <1>2
  <2>2. \A n \in Names: Last(c.parsed[n], Givers(n))
    BY <1>2, <1>6, <2>1 DEF Good, SyncInv
  <2> QED
    BY <1>4, <2>2 DEF SyncInv, Looping, Searching, Sure
<1>7. Go(t, r)
  BY <1>1, <1>3 DEF Existing
<1> QED
  BY <1>4, <1>5, <1>6, <1>7, Quiet DEF Existing, Good

\* What has been parsed for a name is what the index should have for it.
LEMMA RightIf ==
    ASSUME NEW n, NEW p, Last(p, Givers(n)), p.loc # 0, rows[n].loc = p.loc, rows[n].ver = p.ver
    PROVE  Right(n)
BY DEF Last, Right

LEMMA RightOnlyIf ==
    ASSUME NEW n, NEW p, Last(p, Givers(n)), Right(n)
    PROVE  IF p.loc = 0 THEN rows[n] = NoRow ELSE rows[n].loc = p.loc /\ rows[n].ver = p.ver
<1>1. CASE p.loc = 0
  BY <1>1 DEF Last, Right
<1>2. CASE p.loc # 0
  <2>1. p.loc \in Givers(n) /\ (\A m \in Givers(n): m <= p.loc) /\ p.ver = file[p.loc].ver
    BY <1>2 DEF Last
  <2>2. PICK l \in Givers(n): (\A m \in Givers(n): m <= l) /\ rows[n].loc = l /\ rows[n].ver = file[l].ver
    BY <2>1 DEF Right
  <2>3. l <= p.loc /\ p.loc <= l /\ l \in Nat /\ p.loc \in Nat
    BY <2>1, <2>2, Numbers DEF Givers
  <2>4. l = p.loc
    BY <2>3
  <2> QED
    BY <1>2, <2>1, <2>2, <2>4
<1> QED
  BY <1>1, <1>2

LEMMA Skips == ASSUME SkillsInv, NEW t \in Threads, NEW n \in Names, Skip(t, n) PROVE SkillsInv'
<1>1. PICK c: c = thr[t]
  OBVIOUS
<1>2. c \in ThreadState /\ Good(c) /\ c.pc = "each" /\ n \in c.todo
  BY <1>1, Typed DEF Skip, At
<1>3. PICK r: r = [c EXCEPT !.todo = c.todo \ {n}]
  OBVIOUS
<1>4. c.todo \in SUBSET (Names \cup Locs) /\ c.parsed[n] \in Row
  BY <1>2, Of
<1>5. /\ r \in ThreadState /\ r.pc = "each" /\ r.todo = c.todo \ {n} /\ r.parsed = c.parsed /\ r.snap = c.snap
      /\ r.op = c.op /\ r.loc = c.loc /\ r.alone = c.alone
  BY <1>2, <1>3, <1>4 DEF ThreadState
<1>6. CallInv(r)
  BY <1>2, <1>5 DEF Good, CallInv, Looping
<1>7. ASSUME c.alone PROVE SyncInv(r)
  <2>1. PICK p: p = c.parsed[n]
    OBVIOUS
  <2>2. /\ \A m \in Names: Last(c.parsed[m], Givers(m))
        /\ \A m \in Names: IF m \in c.todo THEN c.snap[m] = rows[m] \/ c.snap[m].loc # c.parsed[m].loc ELSE Right(m)
    BY <1>2, <1>7 DEF Good, SyncInv, Looping
  <2>3. p.loc # 0
    BY <1>2, <2>1 DEF Good, CallInv, Looping
  <2>4. c.snap[n] = [p EXCEPT !.sig = file[p.loc].ver]
    BY <1>1, <2>1 DEF Skip, Fresh
  <2>5. c.snap[n].loc = p.loc /\ c.snap[n].ver = p.ver
    BY <1>4, <2>1, <2>4 DEF Row
  <2>6. c.snap[n] = rows[n]
    BY <1>2, <2>1, <2>2, <2>5
  <2>7. Right(n)
    BY <2>1, <2>2, <2>3, <2>5, <2>6, RightIf
  <2> QED
    BY <1>5, <2>2, <2>7 DEF SyncInv, Looping, Searching, Sure
<1>8. Go(t, r)
  BY <1>1, <1>3 DEF Skip
<1> QED
  BY <1>5, <1>6, <1>7, <1>8, Quiet DEF Skip, Good

LEMMA LooksAtEach == ASSUME SkillsInv, NEW t \in Threads, NEW n \in Names, Each(t, n) PROVE SkillsInv'
<1>1. PICK c: c = thr[t]
  OBVIOUS
<1>2. c \in ThreadState /\ Good(c) /\ c.pc = "each" /\ n \in c.todo
  BY <1>1, Typed DEF Each, At
<1>3. PICK p: p = c.parsed[n]
  OBVIOUS
<1>4. c.todo \in SUBSET (Names \cup Locs) /\ p \in Row
  BY <1>2, <1>3, Of
<1>5. p.loc # 0 /\ p.loc \in Locs
  BY <1>2, <1>3, <1>4, OfRow DEF Good, CallInv, Looping
<1>6. PICK w: w = [p EXCEPT !.sig = file[p.loc].ver]
  OBVIOUS
<1>7. w \in Row /\ w.loc = p.loc /\ w.ver = p.ver
  BY <1>4, <1>5, <1>6, OfFile DEF Row
<1>8. PICK q: q = [c EXCEPT !.pc = "write", !.todo = c.todo \ {n}]
  OBVIOUS
<1>9. PICK r: r = [q EXCEPT !.name = n, !.row = w, !.then = "each"]
  OBVIOUS
<1>10. /\ q \in ThreadState /\ q.pc = "write" /\ q.todo = c.todo \ {n} /\ q.parsed = c.parsed /\ q.snap = c.snap
       /\ q.op = c.op /\ q.loc = c.loc /\ q.alone = c.alone
  BY <1>2, <1>4, <1>8 DEF ThreadState, Pcs
<1>11. /\ r \in ThreadState /\ r.pc = "write" /\ r.todo = c.todo \ {n} /\ r.parsed = c.parsed /\ r.snap = c.snap
       /\ r.op = c.op /\ r.loc = c.loc /\ r.alone = c.alone /\ r.name = n /\ r.row = w /\ r.then = "each"
  BY <1>7, <1>9, <1>10 DEF ThreadState
<1>12. CallInv(r)
  BY <1>2, <1>5, <1>7, <1>11 DEF Good, CallInv, Looping
<1>13. ASSUME c.alone PROVE SyncInv(r)
  <2>1. /\ \A m \in Names: Last(c.parsed[m], Givers(m))
        /\ \A m \in Names: IF m \in c.todo THEN c.snap[m] = rows[m] \/ c.snap[m].loc # c.parsed[m].loc ELSE Right(m)
    BY <1>2, <1>13 DEF Good, SyncInv, Looping
  <2>2. p.loc \in Givers(n) /\ p.ver = file[p.loc].ver
    BY <1>3, <1>5, <2>1 DEF Last
  <2>3. \A m \in Names: IF m \in r.todo THEN r.snap[m] = rows[m] \/ r.snap[m].loc # r.parsed[m].loc
                        ELSE Right(m) \/ (r.pc = "write" /\ m = r.name)
    BY <1>11, <2>1
  <2> QED
    BY <1>3, <1>7, <1>11, <2>1, <2>2, <2>3 DEF SyncInv, Looping, Searching, Sure
<1>14. r = [c EXCEPT !.pc = "write", !.todo = c.todo \ {n}, !.name = n, !.row = w, !.then = "each"]
  BY <1>2, <1>8, <1>9 DEF ThreadState
<1>15. Go(t, r)
  BY <1>1, <1>3, <1>6, <1>14 DEF Each
<1> QED
  BY <1>11, <1>12, <1>13, <1>15, Quiet DEF Each, Good

LEMMA Syncs == ASSUME SkillsInv, NEW t \in Threads, Synced(t) PROVE SkillsInv'
<1>1. PICK c: c = thr[t]
  OBVIOUS
<1>2. c \in ThreadState /\ Good(c) /\ c.pc = "each" /\ c.todo = {}
  BY <1>1, Typed DEF Synced, At
<1>3. PICK p: p = CASE c.op = "getpath" -> "find" [] c.op = "search" -> "embed" [] OTHER -> "select"
  OBVIOUS
<1>4. p \in {"find", "embed", "select"} /\ (p = "find" => c.op = "getpath") /\ p \in Pcs
  BY <1>3 DEF Pcs
<1>5. PICK r: r = [Idle EXCEPT !.op = c.op, !.loc = c.loc, !.alone = c.alone, !.pc = p]
  OBVIOUS
<1>6. r \in ThreadState /\ r.pc = p /\ r.op = c.op /\ r.loc = c.loc /\ r.alone = c.alone
  BY <1>2, <1>4, <1>5, IdleTyped DEF ThreadState
<1>7. CallInv(r)
  BY <1>2, <1>4, <1>6 DEF Good, CallInv, Looping
<1>8. ASSUME c.alone PROVE SyncInv(r)
  <2>1. \A m \in Names: Right(m)
    BY <1>2, <1>8 DEF Good, SyncInv, Looping
  <2> QED
    BY <1>4, <1>6, <2>1 DEF SyncInv, Looping, Searching, Sure
<1>9. Go(t, r)
  BY <1>1, <1>3, <1>5 DEF Synced
<1> QED
  BY <1>6, <1>7, <1>8, <1>9, Quiet DEF Synced, Good

LEMMA Returns == ASSUME SkillsInv, NEW t \in Threads, Select(t) \/ Raise(t) PROVE SkillsInv'
BY Ends DEF Select, Raise

LEMMA Embeds == ASSUME SkillsInv, NEW t \in Threads, NEW ls \in SUBSET Locs, Embed(t, ls) PROVE SkillsInv'
<1>1. PICK c: c = thr[t]
  OBVIOUS
<1>2. c \in ThreadState /\ Good(c) /\ c.pc = "embed"
  BY <1>1, Typed DEF Embed, At
<1>3. PICK r: r = [c EXCEPT !.pc = "again", !.todo = ls]
  OBVIOUS
<1>4. /\ r \in ThreadState /\ r.pc = "again" /\ r.todo = ls /\ r.op = c.op /\ r.loc = c.loc /\ r.alone = c.alone
  BY <1>2, <1>3 DEF ThreadState, Pcs
<1>5. CallInv(r)
  BY <1>2, <1>4 DEF Good, CallInv, Looping
<1>6. ASSUME c.alone PROVE SyncInv(r)
  <2>1. \A m \in Names: Right(m)
    BY <1>2, <1>6 DEF Good, SyncInv, Sure
  <2>2. \A l \in ls: \E n \in Names: rows[n].loc = l
    BY DEF Embed
  <2> QED
    BY <1>4, <2>1, <2>2 DEF SyncInv, Looping, Searching, Sure
<1>7. Go(t, r)
  BY <1>1, <1>3 DEF Embed
<1> QED
  BY <1>4, <1>5, <1>6, <1>7, Quiet DEF Embed, Good

LEMMA Ranks == ASSUME SkillsInv, NEW t \in Threads, Ranked(t) PROVE SkillsInv'
<1>1. PICK c: c = thr[t]
  OBVIOUS
<1>2. c \in ThreadState /\ Good(c) /\ c.pc = "again"
  BY <1>1, Typed DEF Ranked, At
<1>3. PICK r: r = [c EXCEPT !.pc = "select"]
  OBVIOUS
<1>4. /\ r \in ThreadState /\ r.pc = "select" /\ r.op = c.op /\ r.loc = c.loc /\ r.alone = c.alone
  BY <1>2, <1>3 DEF ThreadState, Pcs
<1>5. CallInv(r)
  BY <1>2, <1>4 DEF Good, CallInv, Looping
<1>6. ASSUME c.alone PROVE SyncInv(r)
  <2>1. \A m \in Names: Right(m)
    BY <1>2, <1>6 DEF Good, SyncInv, Sure, Searching
  <2> QED
    BY <1>4, <2>1 DEF SyncInv, Looping, Searching, Sure
<1>7. Go(t, r)
  BY <1>1, <1>3 DEF Ranked
<1> QED
  BY <1>4, <1>5, <1>6, <1>7, Quiet DEF Ranked, Good

\* Where every name is right, the row of a location is of the name its file gives.
LEMMA RightRow ==
    ASSUME NEW n \in Names, Right(n), rows[n].loc \in Locs
    PROVE  rows[n].loc \in Givers(n) /\ file[rows[n].loc].name = n /\ rows[n].ver = file[rows[n].loc].ver
<1>1. Givers(n) # {}
  BY Numbers DEF Right, NoRow
<1> QED
  BY <1>1 DEF Right, Givers

LEMMA ReadsAgain == ASSUME SkillsInv, NEW t \in Threads, NEW l \in Locs, Again(t, l) PROVE SkillsInv'
<1>1. PICK c: c = thr[t]
  OBVIOUS
<1>2. c \in ThreadState /\ Good(c) /\ c.pc = "again" /\ l \in c.todo /\ (There(l) => Parses(l))
  BY <1>1, Typed DEF Again, At
<1>3. c.todo \in SUBSET (Names \cup Locs)
  BY <1>2, Of
<1>4. ASSUME c.alone
      PROVE  /\ \A m \in Names: Right(m)
             /\ \A k \in c.todo: \E n \in Names: rows[n].loc = k
  BY <1>2, <1>4 DEF Good, SyncInv, Sure, Searching
<1>5. CASE ~There(l)
  <2>1. PICK r: r = [c EXCEPT !.todo = c.todo \ {l}]
    OBVIOUS
  <2>2. r \in ThreadState /\ r.pc = "again" /\ r.todo = c.todo \ {l} /\ r.op = c.op /\ r.loc = c.loc /\ r.alone = c.alone
    BY <1>2, <1>3, <2>1 DEF ThreadState
  <2>3. CallInv(r) /\ (c.alone => SyncInv(r))
    BY <1>2, <1>4, <2>2 DEF Good, CallInv, SyncInv, Looping, Searching, Sure
  <2>4. Go(t, r)
    BY <1>1, <1>5, <2>1 DEF Again
  <2> QED
    BY <2>2, <2>3, <2>4, Quiet DEF Again, Good
<1>6. CASE There(l)
  <2>1. file[l].name \in Names /\ Parses(l)
    BY <1>2, <1>6 DEF Parses
  <2>2. PICK w: w = [NoRow EXCEPT !.loc = l, !.ver = file[l].ver]
    OBVIOUS
  <2>3. w \in Row /\ w.loc = l /\ w.ver = file[l].ver
    BY <2>2, OfFile, Numbers DEF NoRow, Row
  <2>4. PICK q: q = [c EXCEPT !.todo = c.todo \ {l}, !.pc = "stat", !.name = file[l].name]
    OBVIOUS
  <2>5. PICK r: r = [q EXCEPT !.then = "again", !.row = w]
    OBVIOUS
  <2>6. /\ q \in ThreadState /\ q.pc = "stat" /\ q.todo = c.todo \ {l} /\ q.name = file[l].name
        /\ q.op = c.op /\ q.loc = c.loc /\ q.alone = c.alone
    BY <1>2, <1>3, <2>1, <2>4 DEF ThreadState, Pcs
  <2>7. /\ r \in ThreadState /\ r.pc = "stat" /\ r.todo = c.todo \ {l} /\ r.name = file[l].name
        /\ r.op = c.op /\ r.loc = c.loc /\ r.alone = c.alone /\ r.then = "again" /\ r.row = w
    BY <2>3, <2>5, <2>6 DEF ThreadState
  <2>8. CallInv(r)
    BY <1>2, <2>1, <2>3, <2>7 DEF Good, CallInv, Looping
  <2>9. ASSUME c.alone PROVE SyncInv(r)
    <3>1. PICK n \in Names: rows[n].loc = l
      BY <1>2, <1>4, <2>9
    <3>2. l \in Givers(n) /\ file[l].name = n
      BY <1>4, <2>9, <3>1, RightRow
    <3> QED
      BY <1>4, <2>3, <2>7, <2>9, <3>1, <3>2 DEF SyncInv, Looping, Searching, Sure
  <2>10. r = [c EXCEPT !.todo = c.todo \ {l}, !.pc = "stat", !.name = file[l].name, !.then = "again", !.row = w]
    BY <1>2, <2>4, <2>5 DEF ThreadState
  <2>11. Go(t, r)
    BY <1>1, <1>6, <2>2, <2>10 DEF Again
  <2> QED
    BY <2>7, <2>8, <2>9, <2>11, Quiet DEF Again, Good
<1> QED
  BY <1>5, <1>6

LEMMA Stats == ASSUME SkillsInv, NEW t \in Threads, Stat(t) PROVE SkillsInv'
<1>1. PICK c: c = thr[t]
  OBVIOUS
<1>2. c \in ThreadState /\ Good(c) /\ c.pc = "stat"
  BY <1>1, Typed DEF Stat, At
<1>3. c.row \in Row /\ c.row.loc \in Locs
  BY <1>2, Of DEF Good, CallInv
<1>4. PICK w: w = [c.row EXCEPT !.sig = file[c.row.loc].ver]
  OBVIOUS
<1>5. w \in Row /\ w.loc = c.row.loc /\ w.ver = c.row.ver
  BY <1>3, <1>4, OfFile DEF Row
<1>6. PICK r: r = [c EXCEPT !.pc = "write", !.row = w]
  OBVIOUS
<1>7. /\ r \in ThreadState /\ r.pc = "write" /\ r.row = w /\ r.name = c.name /\ r.then = c.then /\ r.todo = c.todo
      /\ r.op = c.op /\ r.loc = c.loc /\ r.alone = c.alone /\ r.parsed = c.parsed /\ r.snap = c.snap
  BY <1>2, <1>5, <1>6 DEF ThreadState, Pcs
<1>8. c.then # "each"
  BY <1>2 DEF Good, CallInv
<1>9. CallInv(r)
  BY <1>2, <1>5, <1>7, <1>8 DEF Good, CallInv, Looping
<1>10. ASSUME c.alone PROVE SyncInv(r)
  BY <1>2, <1>5, <1>7, <1>8, <1>10 DEF Good, SyncInv, Looping, Searching, Sure
<1>11. Go(t, r)
  BY <1>1, <1>4, <1>6 DEF Stat
<1> QED
  BY <1>7, <1>9, <1>10, <1>11, Quiet DEF Stat, Good

-----------------------------------------------------------------------------
(* The steps that change a registration, the index or a file.              *)

LEMMA Purges == ASSUME SkillsInv, NEW t \in Threads, Purge(t) PROVE SkillsInv'
<1>1. PICK c: c = thr[t]
  OBVIOUS
<1>2. c \in ThreadState /\ Good(c) /\ c.pc = "purge" /\ UNCHANGED <<file, edits, regs>>
  BY <1>1, Typed DEF Purge, At
<1>3. PICK ns: ns = {n \in Names: c.parsed[n].loc > 0}
  OBVIOUS
<1>4. \A n \in Names: c.parsed[n] \in Row /\ (n \notin ns => c.parsed[n].loc = 0)
  <2>1. \A n \in Names: c.parsed[n] \in Row
    BY <1>2, Of
  <2>2. \A l \in 0..Locations: ~(l > 0) => l = 0
    BY Numbers
  <2> QED
    BY <1>3, <2>1, <2>2, OfRow
<1>5. rows' = [n \in Names |-> IF n \in ns \/ c.snap[n] = NoRow THEN rows[n] ELSE NoRow]
  BY <1>1, <1>3 DEF Purge, Purged, Expects
<1>6. rows \in [Names -> Row] /\ OneForALocation
  BY Typed
<1>7. rows' \in [Names -> Row]
  BY <1>5, <1>6, NothingTyped
<1>8. OneForALocation'
  <2>1. \A n \in Names: rows'[n] = rows[n] \/ rows'[n].loc = 0
    BY <1>5, NothingTyped
  <2>2. \A n \in Names: rows'[n].loc > 0 => rows'[n] = rows[n]
    BY <2>1
  <2> QED
    BY <1>6, <2>2 DEF OneForALocation
<1>9. PICK r: r = [c EXCEPT !.pc = "each", !.todo = ns]
  OBVIOUS
<1>10. ns \in SUBSET (Names \cup Locs)
  BY <1>3
<1>11. /\ r \in ThreadState /\ r.pc = "each" /\ r.todo = ns /\ r.parsed = c.parsed /\ r.snap = c.snap
       /\ r.op = c.op /\ r.loc = c.loc /\ r.alone = c.alone
  BY <1>2, <1>9, <1>10 DEF ThreadState, Pcs
<1>12. CallInv(r)'
  BY <1>2, <1>3, <1>11 DEF Good, CallInv, Looping
<1>13. ASSUME c.alone PROVE SyncInv(r)'
  <2>1. (\A n \in Names: Last(c.parsed[n], Givers(n))) /\ c.snap = rows
    BY <1>2, <1>13 DEF Good, SyncInv
  <2>2. \A n \in Names: n \in ns => r.snap[n] = rows'[n]
    BY <1>5, <1>11, <2>1
  <2>3. \A n \in Names: n \notin ns => Givers(n)' = {} /\ rows'[n] = NoRow
    BY <1>2, <1>4, <1>5, <2>1, SameGivers DEF Last
  <2>4. \A n \in Names: n \notin ns => Right(n)'
    BY <2>3 DEF Right
  <2>5. \A n \in Names: Last(r.parsed[n], Givers(n))'
    BY <1>2, <1>11, <2>1, SameGivers
  <2> QED
    BY <1>11, <2>2, <2>4, <2>5 DEF SyncInv, Looping, Searching, Sure
<1>14. Good(r)'
  BY <1>11, <1>12, <1>13 DEF Good
<1>15. IF rows' = rows THEN Go(t, r) ELSE GoAndDisturb(t, r)
  BY <1>1, <1>3, <1>9 DEF Purge, Expects
<1>16. regs' \subseteq 1..External
  BY <1>2, Typed
<1>17. CASE rows' = rows
  BY <1>2, <1>11, <1>14, <1>15, <1>17, Quietly
<1>18. CASE rows' # rows
  BY <1>2, <1>7, <1>8, <1>11, <1>14, <1>15, <1>16, <1>18, Loud
<1> QED
  BY <1>17, <1>18

\* What a call that nobody has got in the way of writes takes the row of no other name that is right.
LEMMA WriteSpares ==
    ASSUME NEW n \in Names, NEW r, r.loc \in Givers(n), r.loc \in Locs, rows' = Written(n, r),
           UNCHANGED <<file, regs>>, NEW m \in Names \ {n}, Right(m)
    PROVE  rows'[m] = rows[m] /\ Right(m)'
<1>1. rows[m].loc # r.loc
  <2>1. SUFFICES ASSUME rows[m].loc = r.loc PROVE FALSE
    OBVIOUS
  <2>2. file[r.loc].name = m /\ file[r.loc].name = n
    BY <2>1, RightRow DEF Givers
  <2> QED
    BY <2>2
<1>2. rows'[m] = rows[m]
  BY <1>1 DEF Written
<1> QED
  BY <1>2, SameRight

LEMMA Writes == ASSUME SkillsInv, NEW t \in Threads, Write(t) PROVE SkillsInv'
<1>1. PICK c: c = thr[t]
  OBVIOUS
<1>2. c \in ThreadState /\ Good(c) /\ c.pc = "write" /\ UNCHANGED <<file, edits, regs>>
  BY <1>1, Typed DEF Write, At
<1>3. c.row \in Row /\ c.row.loc \in Locs /\ c.name \in Names /\ c.then \in {"each", "select", "again"}
  BY <1>2, Of DEF Good, CallInv
<1>4. c.row.loc > 0 /\ c.row.loc # 0
  BY <1>3 DEF Locs
<1>5. PICK n: n = c.name
  OBVIOUS
<1>6. rows' = Written(n, c.row)
  BY <1>1, <1>5 DEF Write
<1>7. /\ rows'[n] = c.row /\ n \in Names
      /\ \A m \in Names \ {n}: rows'[m] = IF rows[m].loc = c.row.loc THEN NoRow ELSE rows[m]
  BY <1>3, <1>5, <1>6 DEF Written
<1>8. rows \in [Names -> Row] /\ OneForALocation
  BY Typed
<1>9. rows' \in [Names -> Row]
  BY <1>3, <1>6, <1>8, NothingTyped DEF Written
<1>10. OneForALocation'
  <2>1. \A m \in Names \ {n}: rows'[m].loc > 0 => rows'[m] = rows[m] /\ rows[m].loc # c.row.loc
    BY <1>7, NothingTyped
  <2> QED
    BY <1>7, <1>8, <2>1 DEF OneForALocation
<1>11. PICK r: r = [c EXCEPT !.pc = c.then, !.name = NoName, !.row = NoRow, !.then = "each"]
  OBVIOUS
<1>12. /\ r \in ThreadState /\ r.pc = c.then /\ r.parsed = c.parsed /\ r.snap = c.snap /\ r.todo = c.todo
       /\ r.op = c.op /\ r.loc = c.loc /\ r.alone = c.alone
  BY <1>2, <1>3, <1>11, NothingTyped DEF ThreadState, Pcs
<1>13. CallInv(r)'
  BY <1>2, <1>3, <1>12 DEF Good, CallInv, Looping
<1>14. ASSUME c.alone PROVE SyncInv(r)'
  <2>1. c.row.loc \in Givers(n) /\ c.row.ver = file[c.row.loc].ver
    BY <1>2, <1>5, <1>14 DEF Good, SyncInv
  <2>2. \A m \in Names \ {n}: Right(m) => rows'[m] = rows[m] /\ Right(m)'
    BY <1>2, <1>3, <1>6, <1>7, <2>1, WriteSpares
  <2>3. CASE c.then = "each"
    <3>1. /\ \A m \in Names: Last(c.parsed[m], Givers(m))
          /\ \A m \in Names: IF m \in c.todo THEN c.snap[m] = rows[m] \/ c.snap[m].loc # c.parsed[m].loc
                             ELSE Right(m) \/ m = n
          /\ c.row.loc = c.parsed[n].loc /\ n \notin c.todo
      BY <1>2, <1>5, <1>14, <2>3 DEF Good, SyncInv, Looping
    <3>2. \A m \in Names: Last(c.parsed[m], Givers(m))'
      BY <1>2, <3>1, SameGivers
    <3>3. Right(n)'
      <4>1. c.parsed[n].ver = c.row.ver
        BY <1>4, <1>7, <2>1, <3>1 DEF Last
      <4>2. Givers(n)' = Givers(n) /\ file' = file
        BY <1>2, SameGivers
      <4>3. \A m \in Givers(n): m <= c.row.loc
        BY <1>4, <1>7, <3>1 DEF Last
      <4> QED
        BY <1>7, <2>1, <4>2, <4>3 DEF Right
    <3>4. ASSUME NEW m \in Names, m \in c.todo PROVE c.snap[m] = rows'[m] \/ c.snap[m].loc # c.parsed[m].loc
      <4>1. m # n /\ c.parsed[m].loc # 0
        BY <1>2, <2>3, <3>1, <3>4 DEF Good, CallInv, Looping
      <4>2. c.parsed[m].loc \in Givers(m) /\ c.parsed[n].loc \in Givers(n)
        BY <1>4, <1>7, <3>1, <4>1 DEF Last
      <4>3. c.parsed[m].loc # c.row.loc
        BY <3>1, <4>1, <4>2 DEF Givers
      <4> QED
        BY <1>7, <3>1, <3>4, <4>1, <4>3
    <3>5. \A m \in Names: m \notin c.todo => Right(m)'
      BY <2>2, <3>1, <3>3
    <3> QED
      BY <1>12, <2>3, <3>2, <3>4, <3>5 DEF SyncInv, Looping, Searching, Sure
  <2>4. CASE c.then = "again"
    <3>1. /\ \A m \in Names: Right(m)
          /\ \A l \in c.todo: \E m \in Names: rows[m].loc = l
          /\ rows[n].loc = c.row.loc
      BY <1>2, <1>5, <1>14, <2>4 DEF Good, SyncInv, Sure, Searching
    <3>2. Right(n)'
      <4>1. Givers(n)' = Givers(n) /\ file' = file /\ Givers(n) # {}
        BY <1>2, <2>1, SameGivers
      <4>2. Right(n)
        BY <1>7, <3>1
      <4>3. \A m \in Givers(n): m <= c.row.loc
        BY <3>1, <4>1, <4>2 DEF Right
      <4> QED
        BY <1>7, <2>1, <4>1, <4>3 DEF Right
    <3>3. \A m \in Names: rows'[m].loc = rows[m].loc
      BY <1>7, <2>2, <3>1
    <3> QED
      BY <1>12, <2>2, <2>4, <3>1, <3>2, <3>3 DEF SyncInv, Looping, Searching, Sure
  <2>5. CASE c.then = "select"
    <3>1. c.op = "getpath"
      BY <1>2, <2>5 DEF Good, CallInv
    <3> QED
      BY <1>12, <2>5, <3>1 DEF SyncInv, Looping, Searching, Sure
  <2> QED
    BY <1>3, <2>3, <2>4, <2>5
<1>15. GoAndDisturb(t, r)
  BY <1>1, <1>11 DEF Write
<1>16. regs' \subseteq 1..External
  BY <1>2, Typed
<1> QED
  BY <1>2, <1>9, <1>10, <1>12, <1>13, <1>14, <1>15, <1>16, Loud DEF Good

LEMMA StaysRegistered ==
    ASSUME SkillsInv, NEW l \in Locs, Registered(l) PROVE regs' \subseteq 1..External /\ (l \in regs' \/ l > External)
<1>1. l <= External => l \in 1..External
  BY Numbers DEF Locs
<1>2. l <= External \/ l > External
  BY Numbers
<1> QED
  BY <1>1, <1>2, Typed DEF Registered

LEMMA Registers == ASSUME SkillsInv, NEW t \in Threads, NEW l \in Locs, Register(t, l) PROVE SkillsInv'
<1>1. PICK r: r = [Idle EXCEPT !.op = "list", !.pc = "scan"]
  OBVIOUS
<1>2. r = [Idle EXCEPT !.op = "list", !.pc = "scan", !.loc = 0]
  BY <1>1, IdleTyped, IdleFields DEF ThreadState
<1>3. r \in ThreadState /\ Good(r)'
  BY <1>2, Numbers, BeginsGood
<1>4. GoAndDisturb(t, r) /\ regs' \subseteq 1..External
  BY <1>1, StaysRegistered DEF Register
<1>5. rows' \in [Names -> Row] /\ OneForALocation'
  BY Typed DEF Register, OneForALocation
<1> QED
  BY <1>3, <1>4, <1>5, Loud DEF Register

LEMMA Finds == ASSUME SkillsInv, NEW t \in Threads, Find(t) PROVE SkillsInv'
<1>1. PICK c: c = thr[t]
  OBVIOUS
<1>2. c \in ThreadState /\ Good(c) /\ c.pc = "find" /\ UNCHANGED <<file, edits, rows>>
  BY <1>1, Typed DEF Find, At
<1>3. PICK l: l = c.loc
  OBVIOUS
<1>4. l \in Locs /\ c.op = "getpath" /\ Parses(l) /\ Registered(l) /\ file[l].name \in Names
  BY <1>1, <1>2, <1>3 DEF Good, CallInv, Find, Parses
<1>5. PICK w: w = [NoRow EXCEPT !.loc = l, !.ver = file[l].ver]
  OBVIOUS
<1>6. w \in Row /\ w.loc = l /\ w.ver = file[l].ver
  BY <1>4, <1>5, OfFile, Numbers DEF NoRow, Row
<1>7. PICK q: q = [c EXCEPT !.pc = "stat", !.name = file[l].name]
  OBVIOUS
<1>8. PICK r: r = [q EXCEPT !.then = "select", !.row = w]
  OBVIOUS
<1>9. /\ q \in ThreadState /\ q.pc = "stat" /\ q.name = file[l].name /\ q.todo = c.todo
      /\ q.op = c.op /\ q.loc = c.loc /\ q.alone = c.alone
  BY <1>2, <1>4, <1>7 DEF ThreadState, Pcs
<1>10. /\ r \in ThreadState /\ r.pc = "stat" /\ r.name = file[l].name /\ r.then = "select" /\ r.row = w
       /\ r.op = c.op /\ r.loc = c.loc /\ r.alone = c.alone
  BY <1>6, <1>8, <1>9 DEF ThreadState
<1>11. regs' \subseteq 1..External /\ (l \in regs' \/ l > External)
  BY <1>4, StaysRegistered
<1>12. l \in Givers(file[l].name)'
  BY <1>2, <1>4, <1>11 DEF Givers, Parses, There
<1>13. CallInv(r)'
  BY <1>3, <1>4, <1>6, <1>10 DEF CallInv, Looping
<1>14. SyncInv(r)'
  BY <1>2, <1>6, <1>10, <1>12 DEF SyncInv, Looping, Searching, Sure
<1>15. r = [c EXCEPT !.pc = "stat", !.name = file[l].name, !.then = "select", !.row = w]
  BY <1>2, <1>7, <1>8 DEF ThreadState
<1>16. IF regs' = regs THEN Go(t, r) ELSE GoAndDisturb(t, r)
  BY <1>1, <1>3, <1>5, <1>15 DEF Find
<1>17. rows' \in [Names -> Row] /\ OneForALocation'
  BY <1>2, Typed DEF OneForALocation
<1>18. CASE regs' = regs
  BY <1>2, <1>10, <1>13, <1>14, <1>16, <1>18, Quietly DEF Good
<1>19. CASE regs' # regs
  BY <1>2, <1>10, <1>11, <1>13, <1>14, <1>16, <1>17, <1>19, Loud DEF Good
<1> QED
  BY <1>18, <1>19

LEMMA Outside ==
    ASSUME SkillsInv, NEW l \in Locs, Remove(l) \/ \E n \in Names \cup {NoName}: Edit(l, n) PROVE SkillsInv'
<1>1. file \in [Locs -> File] /\ edits \in 0..MaxEdits
  BY Typed
<1>2. CASE Remove(l)
  <2>1. NoFile \in File
    BY Numbers DEF NoFile, File
  <2>2. file' \in [Locs -> File]
    BY <1>1, <1>2, <2>1 DEF Remove
  <2> QED
    BY <1>1, <1>2, <2>2, FromOutside DEF Remove
<1>3. ASSUME NEW n \in Names \cup {NoName}, Edit(l, n) PROVE SkillsInv'
  <2>1. edits' \in 0..MaxEdits /\ edits' = edits + 1
    BY <1>1, <1>3, Numbers DEF Edit
  <2>2. file' \in [Locs -> File]
    BY <1>1, <1>3, <2>1 DEF Edit, File
  <2> QED
    BY <1>3, <2>1, <2>2, FromOutside DEF Edit
<1> QED
  BY <1>2, <1>3

LEMMA Crashes == ASSUME SkillsInv, Crash PROVE SkillsInv'
<1>1. thr' = [t \in Threads |-> Idle] /\ UNCHANGED <<file, edits, regs, rows>>
  BY DEF Crash
<1>2. thr' \in [Threads -> ThreadState]
  BY <1>1, IdleTyped
<1>3. Good(Idle)'
  BY <1>1, IdleGood, Unchanged
<1>4. \A u \in Threads: \A c: c = thr'[u] => Good(c)'
  <2>1. SUFFICES ASSUME NEW u \in Threads, NEW c, c = thr'[u] PROVE Good(c)'
    OBVIOUS
  <2>2. c = Idle
    BY <1>1, <2>1
  <2>3. Good(c)
    BY <2>2, IdleGood
  <2> QED
    BY <1>1, <2>3, Unchanged
<1>5. /\ file' \in [Locs -> File] /\ edits' \in 0..MaxEdits /\ regs' \subseteq 1..External
      /\ rows' \in [Names -> Row] /\ OneForALocation'
  BY <1>1, Typed DEF OneForALocation
<1> QED
  BY <1>2, <1>4, <1>5, Together

-----------------------------------------------------------------------------
(* The inductive invariant.                                                *)

LEMMA Starts == Init => SkillsInv
<1> SUFFICES ASSUME Init PROVE SkillsInv
  OBVIOUS
<1>1. /\ file \in [Locs -> {NoFile} \cup [ver: {1}, name: Names]] /\ edits = 1 /\ regs = {}
      /\ rows = [n \in Names |-> NoRow] /\ thr = [t \in Threads |-> Idle]
  BY DEF Init
<1>2. 1 \in 0..MaxEdits
  BY EditsAssumption
<1>3. NoFile \in File /\ [ver: {1}, name: Names] \subseteq File
  BY <1>2, Numbers DEF NoFile, File
<1>4. file \in [Locs -> File]
  BY <1>1, <1>3
<1>5. rows \in [Names -> Row] /\ OneForALocation
  <2>1. \A n \in Names: rows[n].loc = 0
    BY <1>1, NothingTyped
  <2>2. OneForALocation
    BY <2>1 DEF OneForALocation
  <2> QED
    BY <1>1, <2>2, NothingTyped
<1>6. thr \in [Threads -> ThreadState]
  BY <1>1, IdleTyped
<1>7. TypeOK
  BY <1>1, <1>2, <1>4, <1>5, <1>6 DEF TypeOK, File, ThreadState, Pcs, OneForALocation
<1>8. \A t \in Threads: CallInv(thr[t]) /\ (thr[t].alone => SyncInv(thr[t]))
  <2>1. CallInv(Idle) /\ SyncInv(Idle)
    BY IdleFields, IdleGood DEF Good
  <2> QED
    BY <1>1, <2>1
<1>9. AnswersFollowFiles
  BY <1>1, IdleFields DEF AnswersFollowFiles, At
<1> QED
  BY <1>7, <1>8, <1>9 DEF SkillsInv

LEMMA StepKeeps == ASSUME SkillsInv, NEW t \in Threads, Step(t) PROVE SkillsInv'
<1>1. CASE Scan(t) \/ Existing(t) \/ Synced(t) \/ Ranked(t) \/ Select(t) \/ Raise(t) \/ Stat(t)
  BY <1>1, Scans, ReadsRows, Syncs, Ranks, Returns, Stats
<1>2. CASE Purge(t) \/ Write(t) \/ Find(t)
  BY <1>2, Purges, Writes, Finds
<1>3. CASE \E l \in Locs: Parse(t, l) \/ Again(t, l)
  BY <1>3, ParsesOne, ReadsAgain
<1>4. CASE \E n \in Names: Skip(t, n) \/ Each(t, n)
  BY <1>4, Skips, LooksAtEach
<1>5. CASE \E ls \in SUBSET Locs: Embed(t, ls)
  BY <1>5, Embeds
<1> QED
  BY <1>1, <1>2, <1>3, <1>4, <1>5 DEF Step

LEMMA NextKeeps == SkillsInv /\ [Next]_vars => SkillsInv'
<1> SUFFICES ASSUME SkillsInv, [Next]_vars PROVE SkillsInv'
  OBVIOUS
<1>1. ASSUME NEW t \in Threads, Step(t) PROVE SkillsInv'
  BY <1>1, StepKeeps
<1>2. ASSUME NEW t \in Threads, NEW op \in Ops[t], NEW l \in 0..Locations, Call(t, op, l) PROVE SkillsInv'
  BY <1>2, Calls
<1>3. ASSUME NEW t \in Threads, NEW l \in Locs, Register(t, l) PROVE SkillsInv'
  BY <1>3, Registers
<1>4. CASE \E l \in Locs: Remove(l) \/ \E n \in Names \cup {NoName}: Edit(l, n)
  BY <1>4, Outside
<1>5. CASE Crash
  BY <1>5, Crashes
<1>6. CASE UNCHANGED vars
  <2>1. UNCHANGED <<file, edits, regs, rows>> /\ thr' = thr
    BY <1>6 DEF vars
  <2>2. \A u \in Threads: \A c: c = thr'[u] => Good(c)'
    <3>1. SUFFICES ASSUME NEW u \in Threads, NEW c, c = thr'[u] PROVE Good(c)'
      OBVIOUS
    <3>2. c = thr[u] /\ Good(thr[u])
      BY <2>1, <3>1, Typed
    <3> QED
      BY <2>1, <3>2, Unchanged
  <2>3. /\ file' \in [Locs -> File] /\ edits' \in 0..MaxEdits /\ regs' \subseteq 1..External
        /\ rows' \in [Names -> Row] /\ OneForALocation' /\ thr' \in [Threads -> ThreadState]
    BY <2>1, Typed DEF OneForALocation
  <2> QED
    BY <2>2, <2>3, Together
<1> QED
  BY <1>1, <1>2, <1>3, <1>4, <1>5, <1>6 DEF Next

\* Types, one row for a location, and: a call that nobody has got in the way of answers from an index
\* that is the files, managed ones first, whatever earlier calls, failures, races and edits left in it.
THEOREM Invariance == Spec => []SkillsInv
BY Starts, NextKeeps, PTL DEF Spec

-----------------------------------------------------------------------------
(* What it takes to lose a row.                                            *)

\* One step of a call that nobody has got in the way of.
LEMMA AloneSpares ==
    ASSUME SkillsInv, NEW t \in Threads, UNCHANGED <<file, regs>>, NEW n \in Names, Right(n), thr[t].alone,
           Purge(t) \/ (Write(t) /\ ~(thr[t].op = "getpath" /\ thr[t].name = n))
    PROVE  Right(n)'
<1>1. PICK c: c = thr[t]
  OBVIOUS
<1>2. c \in ThreadState /\ Good(c) /\ c.alone /\ CallInv(c) /\ SyncInv(c)
  BY <1>1, Typed DEF Good
<1>3. CASE Purge(t)
  <2>1. c.pc = "purge"
    BY <1>1, <1>3 DEF Purge, At
  <2>2. Last(c.parsed[n], Givers(n)) /\ c.parsed[n] \in Row
    BY <1>2, <2>1, Of DEF SyncInv
  <2>3. rows'[n] = IF c.parsed[n].loc > 0 \/ c.snap[n] = NoRow THEN rows[n] ELSE NoRow
    BY <1>1, <1>3 DEF Purge, Purged, Expects
  <2>4. c.parsed[n].loc > 0 \/ c.parsed[n].loc = 0
    BY <2>2, Numbers, OfRow
  <2>5. rows'[n] = rows[n]
    BY <2>2, <2>3, <2>4, RightOnlyIf
  <2> QED
    BY <2>5, SameRight
<1>4. CASE Write(t) /\ ~(c.op = "getpath" /\ c.name = n)
  <2>1. c.pc = "write" /\ rows' = Written(c.name, c.row)
    BY <1>1, <1>4 DEF Write, At
  <2>2. /\ c.row.loc \in Givers(c.name) /\ c.row.ver = file[c.row.loc].ver
        /\ c.row.loc \in Locs /\ c.name \in Names /\ c.then \in {"each", "select", "again"}
    BY <1>2, <2>1, Of DEF CallInv, SyncInv
  <2>3. CASE c.name # n
    BY <2>1, <2>2, <2>3, WriteSpares
  <2>4. CASE c.name = n
    <3>1. c.then # "select"
      BY <1>2, <1>4, <2>1, <2>4 DEF CallInv
    <3>2. rows'[n] = c.row /\ Givers(n)' = Givers(n) /\ file' = file /\ Givers(n) # {}
      BY <2>1, <2>2, <2>4, SameGivers DEF Written
    <3>3. \A l \in Givers(n): l <= c.row.loc
      <4>1. CASE c.then = "each"
        <5>1. Last(c.parsed[n], Givers(n)) /\ c.row.loc = c.parsed[n].loc
          BY <1>2, <2>1, <2>4, <4>1 DEF SyncInv, Looping
        <5> QED
          BY <3>2, <5>1 DEF Last
      <4>2. CASE c.then = "again"
        <5>1. rows[n].loc = c.row.loc
          BY <1>2, <2>1, <2>4, <4>2 DEF SyncInv, Searching
        <5> QED
          BY <3>2, <5>1 DEF Right
      <4> QED
        BY <2>2, <3>1, <4>1, <4>2
    <3> QED
      BY <2>2, <2>4, <3>2, <3>3 DEF Right
  <2> QED
    BY <2>3, <2>4
<1> QED
  BY <1>1, <1>3, <1>4

LEMMA RowsChange ==
    ASSUME Next, rows' # rows PROVE \E t \in Threads: Purge(t) \/ Write(t)
<1>1. ASSUME NEW t \in Threads, Step(t) PROVE Purge(t) \/ Write(t)
  <2>1. ~(Scan(t) \/ Existing(t) \/ Synced(t) \/ Select(t) \/ Find(t) \/ Stat(t) \/ Ranked(t) \/ Raise(t))
    BY DEF Scan, Existing, Synced, Select, Find, Stat, Ranked, Raise
  <2>2. ~\E l \in Locs: Parse(t, l) \/ Again(t, l)
    BY DEF Parse, Again
  <2>3. ~\E n \in Names: Skip(t, n) \/ Each(t, n)
    BY DEF Skip, Each
  <2>4. ~\E ls \in SUBSET Locs: Embed(t, ls)
    BY DEF Embed
  <2> QED
    BY <1>1, <2>1, <2>2, <2>3, <2>4 DEF Step
<1>2. ~Crash /\ ~\E l \in Locs: Remove(l) \/ \E n \in Names \cup {NoName}: Edit(l, n)
  BY DEF Crash, Remove, Edit
<1>3. \A t \in Threads: ~\E l \in Locs: Register(t, l)
  BY DEF Register
<1>4. \A t \in Threads: ~\E op \in Ops[t], l \in 0..Locations: Call(t, op, l)
  BY DEF Call
<1> QED
  BY <1>1, <1>2, <1>3, <1>4 DEF Next

\* A purge or a write takes its thread elsewhere.
LEMMA GoesElsewhere ==
    ASSUME SkillsInv, NEW t \in Threads, Purge(t) \/ Write(t)
    PROVE  thr'[t].pc # thr[t].pc
<1>1. PICK c: c = thr[t]
  OBVIOUS
<1>2. c \in ThreadState
  BY <1>1, Typed
<1>3. CASE Purge(t)
  <2>1. PICK r: r = [c EXCEPT !.pc = "each", !.todo = Expects(t)]
    OBVIOUS
  <2>2. r.pc = "each"
    BY <1>2, <2>1 DEF ThreadState
  <2>3. thr'[t] = r
    BY <1>1, <1>3, <2>1, Typed DEF Purge, Go, GoAndDisturb
  <2> QED
    BY <1>3, <2>2, <2>3 DEF Purge, At
<1>4. CASE Write(t)
  <2>1. PICK r: r = [c EXCEPT !.pc = c.then, !.name = NoName, !.row = NoRow, !.then = "each"]
    OBVIOUS
  <2>2. r.pc = c.then /\ c.then \in {"each", "select", "again"}
    BY <1>2, <2>1 DEF ThreadState
  <2>3. thr'[t] = r
    BY <1>1, <1>4, <2>1 DEF Write, GoAndDisturb
  <2> QED
    BY <1>4, <2>2, <2>3 DEF Write, At
<1> QED
  BY <1>3, <1>4

\* The row of a skill that was right is lost or replaced only by a call that another call, or a person,
\* got in the way of, or by a skill_get of another file of that name.
THEOREM RacesSpoil == Spec => OnlyRacesSpoil
<1>1. SkillsInv /\ [Next]_vars =>
        [\A n \in Names: Right(n) /\ ~Right(n)' /\ UNCHANGED <<file, regs>> =>
           \E t \in Threads:
              /\ thr[t].pc \in {"purge", "write"} /\ thr'[t].pc # thr[t].pc
              /\ ~thr[t].alone \/ (At(t, "write") /\ thr[t].op = "getpath" /\ thr[t].name = n)]_vars
  <2> SUFFICES ASSUME SkillsInv, [Next]_vars, NEW n \in Names, Right(n), ~Right(n)', UNCHANGED <<file, regs>>
               PROVE  \E t \in Threads:
                         /\ thr[t].pc \in {"purge", "write"} /\ thr'[t].pc # thr[t].pc
                         /\ \/ ~thr[t].alone
                            \/ At(t, "write") /\ thr[t].op = "getpath" /\ thr[t].name = n
    OBVIOUS
  <2>1. rows' # rows
    BY SameRight
  <2>2. PICK t \in Threads: Purge(t) \/ Write(t)
    BY <2>1, RowsChange DEF vars
  <2>3. thr[t].pc \in {"purge", "write"} /\ (Write(t) => At(t, "write"))
    BY <2>2 DEF Purge, Write, At
  <2>4. thr'[t].pc # thr[t].pc
    BY <2>2, GoesElsewhere
  <2>5. ~thr[t].alone \/ (Write(t) /\ thr[t].op = "getpath" /\ thr[t].name = n)
    BY <2>2, AloneSpares
  <2> QED
    BY <2>3, <2>4, <2>5
<1> QED
  BY <1>1, Invariance, PTL DEF Spec, OnlyRacesSpoil
=============================================================================
