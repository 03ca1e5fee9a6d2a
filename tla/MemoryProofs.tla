---------------------------- MODULE MemoryProofs ----------------------------
(***************************************************************************)
(* Proofs about Memory, for any days, ids and texts, any threads and any   *)
(* number of versions of a file.                                           *)
(***************************************************************************)
EXTENDS Memory, TLAPS

USE NoTextAssumption, NoThreadAssumption, NoDayAssumption, NoIdAssumption, VersionAssumption, OpsAssumption

Good(c) == CallInv(c) /\ (c.alone => ReadInv(c) /\ SyncInv(c))

LEMMA Typed ==
    ASSUME MemoryInv
    PROVE  /\ file \in [Days -> File] /\ rows \in [Days -> Bodies] /\ sig \in [Days -> Sig]
           /\ thr \in [Threads -> Call] /\ home \in [Ids -> Days \cup {NoDay}]
           /\ db \in Threads \cup {NoThread} /\ FileInv
           /\ \A t \in Threads: thr[t] \in Call /\ Good(thr[t]) /\ (db = t <=> thr[t].pc \in Holding)
BY DEF MemoryInv, TypeOK, Good

LEMMA NothingTyped ==
    /\ Empty \in Bodies /\ NoSig \in Sig /\ Idle \in Call /\ 0 \in 0..MaxVersion
    /\ \A i \in Ids: Empty[i] = NoText
    /\ NoSig.ver = 0 /\ NoSig.body = Empty
<1>1. Empty \in Bodies /\ (\A i \in Ids: Empty[i] = NoText) /\ 0 \in 0..MaxVersion
  BY DEF Empty, Bodies
<1>2. NoSig \in Sig /\ NoSig.ver = 0 /\ NoSig.body = Empty
  BY <1>1 DEF NoSig, Sig
<1>3. [d \in Days |-> NoSig] \in [Days -> Sig]
  BY <1>2
<1>4. Idle \in Call
  BY <1>1, <1>3 DEF Idle, Call, Pcs
<1> QED
  BY <1>1, <1>2, <1>4

LEMMA IdleFields ==
    /\ Idle.op = "none" /\ Idle.pc = "idle" /\ Idle.id = NoId /\ Idle.d = NoDay /\ Idle.body = Empty
    /\ Idle.ver = 0 /\ Idle.sha = Empty /\ Idle.snap = [d \in Days |-> NoSig] /\ Idle.todo = {}
    /\ Idle.then = "done" /\ Idle.alone = TRUE
BY DEF Idle

LEMMA IdleGood == Good(Idle)
BY IdleFields DEF Good, CallInv, ReadInv, SyncInv, Syncing

-----------------------------------------------------------------------------
(* What a step of one thread is to the others.                             *)

\* The write transaction while t goes on as r.
Transaction(t, r) ==
    \/ db' = db /\ (db = t <=> r.pc \in Holding)
    \/ db' = t /\ db = NoThread /\ r.pc \in Holding
    \/ db' = NoThread /\ db \in {t, NoThread} /\ r.pc \notin Holding

LEMMA OneTransaction ==
    ASSUME MemoryInv, NEW t \in Threads, NEW r, Transaction(t, r), thr'[t] = r,
           \A u \in Threads \ {t}: thr'[u].pc = thr[u].pc
    PROVE  db' \in Threads \cup {NoThread} /\ \A u \in Threads: db' = u <=> thr'[u].pc \in Holding
<1>1. db \in Threads \cup {NoThread} /\ \A u \in Threads: db = u <=> thr[u].pc \in Holding
  BY Typed
<1> QED
  BY <1>1 DEF Transaction

\* A step that changes no file and no index.
LEMMA Unchanged ==
    ASSUME UNCHANGED <<file, sig, home>>, NEW c, Good(c) PROVE Good(c)'
<1>1. file' = file /\ sig' = sig /\ home' = home
  OBVIOUS
<1>2. CallInv(c)'
  BY <1>1 DEF Good, CallInv
<1>3. c.alone => ReadInv(c)'
  BY <1>1 DEF Good, ReadInv
<1>4. c.alone => SyncInv(c)'
  BY <1>1 DEF Good, SyncInv, Syncing, Seen
<1> QED
  BY <1>2, <1>3, <1>4 DEF Good

LEMMA Together ==
    ASSUME file' \in [Days -> File], rows' \in [Days -> Bodies], sig' \in [Days -> Sig], FileInv',
           home' \in [Ids -> Days \cup {NoDay}], thr' \in [Threads -> Call], db' \in Threads \cup {NoThread},
           \A u \in Threads: db' = u <=> thr'[u].pc \in Holding,
           \A u \in Threads: \A c: c = thr'[u] => Good(c)'
    PROVE  MemoryInv'
<1>1. TypeOK'
  BY DEF TypeOK
<1>2. ASSUME NEW u \in Threads
      PROVE  CallInv(thr[u])' /\ (thr'[u].alone => ReadInv(thr[u])' /\ SyncInv(thr[u])')
  <2>1. PICK c: c = thr'[u]
    OBVIOUS
  <2>2. Good(c)'
    BY <2>1
  <2>3. CallInv(thr[u])'
    BY <2>1, <2>2 DEF Good, CallInv
  <2>4. c.alone => ReadInv(thr[u])'
    BY <2>1, <2>2 DEF Good, ReadInv
  <2>5. c.alone => SyncInv(thr[u])'
    BY <2>1, <2>2 DEF Good, SyncInv, Syncing, Seen
  <2> QED
    BY <2>1, <2>3, <2>4, <2>5
<1> QED
  BY <1>1, <1>2 DEF MemoryInv

LEMMA Quiet ==
    ASSUME MemoryInv, NEW t \in Threads, NEW r \in Call, Go(t, r), Good(r), Transaction(t, r),
           UNCHANGED <<file, rows, sig, home>>
    PROVE  MemoryInv'
<1>1. thr \in [Threads -> Call] /\ thr' = [thr EXCEPT ![t] = r]
  BY Typed DEF Go
<1>2. thr' \in [Threads -> Call] /\ thr'[t] = r /\ \A u \in Threads \ {t}: thr'[u] = thr[u]
  BY <1>1
<1>3. db' \in Threads \cup {NoThread} /\ \A u \in Threads: db' = u <=> thr'[u].pc \in Holding
  BY <1>2, OneTransaction
<1>4. FileInv'
  BY Typed DEF FileInv
<1>5. ASSUME NEW u \in Threads, NEW c, c = thr'[u] PROVE Good(c)'
  <2>1. Good(c)
    <3>1. CASE u = t
      BY <1>2, <1>5, <3>1
    <3>2. CASE u # t
      <4>1. c = thr[u] /\ Good(thr[u])
        BY <1>2, <1>5, <3>2, Typed
      <4> QED
        BY <4>1
    <3> QED
      BY <3>1, <3>2
  <2> QED
    BY <2>1, Unchanged
<1>6. file' \in [Days -> File] /\ rows' \in [Days -> Bodies] /\ sig' \in [Days -> Sig]
      /\ home' \in [Ids -> Days \cup {NoDay}]
  BY Typed
<1> QED
  BY <1>2, <1>3, <1>4, <1>5, <1>6, Together


\* The call ends, well or by raising.
LEMMA Ends ==
    ASSUME MemoryInv, NEW t \in Threads, UNCHANGED <<file, rows, sig, home>>,
           Raise(t) \/ (Go(t, Idle) /\ db' = db /\ thr[t].pc \notin Holding)
    PROVE  MemoryInv'
<1>1. Idle \in Call /\ Good(Idle) /\ Idle.pc \notin Holding
  BY NothingTyped, IdleFields, IdleGood DEF Holding
<1>2. db \in Threads \cup {NoThread} /\ (db = t <=> thr[t].pc \in Holding)
  BY Typed
<1>3. Go(t, Idle) /\ Transaction(t, Idle)
  BY <1>1, <1>2 DEF Raise, Transaction
<1> QED
  BY <1>1, <1>3, Quiet

\* The call goes on without having opened or ended a transaction.
LEMMA GoesOn ==
    ASSUME MemoryInv, NEW t \in Threads, UNCHANGED <<file, rows, sig, home>>, db' = db,
           NEW r \in Call, Go(t, r), Good(r), thr[t].pc \in Holding <=> r.pc \in Holding
    PROVE  MemoryInv'
<1>1. db = t <=> thr[t].pc \in Holding
  BY Typed
<1>2. Transaction(t, r)
  BY <1>1 DEF Transaction
<1> QED
  BY <1>2, Quiet

LEMMA Of ==
    ASSUME NEW c \in Call
    PROVE  /\ c.op \in {"none", "add", "get", "search", "update", "delete"} /\ c.pc \in Pcs
           /\ c.id \in Ids \cup {NoId} /\ c.d \in Days \cup {NoDay} /\ c.body \in Bodies
           /\ c.ver \in 0..MaxVersion /\ c.sha \in Bodies /\ c.snap \in [Days -> Sig]
           /\ c.todo \in SUBSET Days /\ c.then \in {"done", "each", "again"} /\ c.alone \in BOOLEAN
BY DEF Call

LEMMA OfFile ==
    ASSUME MemoryInv, NEW d \in Days
    PROVE  /\ file[d].there \in BOOLEAN /\ file[d].ver \in 0..MaxVersion /\ file[d].body \in Bodies
           /\ sig[d].ver \in 0..MaxVersion /\ sig[d].body \in Bodies /\ rows[d] \in Bodies
           /\ file[d].ver \in Nat /\ sig[d].ver \in Nat
           /\ IF file[d].there THEN file[d].ver > 0 ELSE file[d].body = Empty
           /\ sig[d].ver <= file[d].ver /\ (sig[d].ver = 0 => sig[d] = NoSig)
           /\ \A i \in Ids: file[d].body[i] # NoText => home[i] = d
<1>1. file[d] \in File /\ sig[d] \in Sig /\ rows[d] \in Bodies
  BY Typed
<1>2. /\ file[d].there \in BOOLEAN /\ file[d].ver \in 0..MaxVersion /\ file[d].body \in Bodies
      /\ sig[d].ver \in 0..MaxVersion /\ sig[d].body \in Bodies
  BY <1>1 DEF File, Sig
<1>3. file[d].ver \in Nat /\ sig[d].ver \in Nat
  BY <1>2
<1>4. FileInv
  BY Typed
<1> QED
  BY <1>1, <1>2, <1>3, <1>4 DEF FileInv

\* A record of a call in which the place alone has changed.
Same(r, c) == /\ r.op = c.op /\ r.id = c.id /\ r.alone = c.alone

LEMMA Parses == ASSUME MemoryInv, NEW t \in Threads, Parse(t) PROVE MemoryInv'
<1>1. PICK c: c = thr[t]
  OBVIOUS
<1>2. c \in Call /\ Good(c) /\ c.pc = "parse"
  BY <1>1, Typed DEF Parse, At
<1>3. c.d \in Days
  BY <1>2 DEF Good, CallInv
<1>4. PICK r: r = [c EXCEPT !.pc = "lock", !.body = file[c.d].body]
  OBVIOUS
<1>5. /\ r \in Call /\ Same(r, c) /\ r.pc = "lock" /\ r.d = c.d /\ r.body = file[c.d].body
      /\ r.snap = c.snap /\ r.todo = c.todo /\ r.then = c.then
  BY <1>2, <1>3, <1>4, OfFile DEF Call, Pcs, Same
<1>6. Good(r)
  BY <1>2, <1>3, <1>5 DEF Good, CallInv, ReadInv, SyncInv, Syncing, Same
<1>7. Go(t, r) /\ db' = db
  BY <1>1, <1>4 DEF Parse, Mine
<1>8. thr[t].pc \notin Holding /\ r.pc \notin Holding
  BY <1>1, <1>2, <1>5 DEF Holding
<1> QED
  BY <1>5, <1>6, <1>7, <1>8, GoesOn DEF Parse

LEMMA Locks == ASSUME MemoryInv, NEW t \in Threads, Lock(t) PROVE MemoryInv'
<1>1. PICK c: c = thr[t]
  OBVIOUS
<1>2. c \in Call /\ Good(c) /\ c.pc = "lock"
  BY <1>1, Typed DEF Lock, At
<1>3. PICK r: r = [c EXCEPT !.pc = "stat"]
  OBVIOUS
<1>4. /\ r \in Call /\ Same(r, c) /\ r.pc = "stat" /\ r.d = c.d /\ r.body = c.body
      /\ r.snap = c.snap /\ r.todo = c.todo /\ r.then = c.then
  BY <1>2, <1>3 DEF Call, Pcs, Same
<1>5. Good(r)
  BY <1>2, <1>4 DEF Good, CallInv, ReadInv, SyncInv, Syncing, Same
<1>6. Go(t, r) /\ Transaction(t, r)
  BY <1>1, <1>3, <1>4 DEF Lock, Transaction, Holding
<1> QED
  BY <1>4, <1>5, <1>6, Quiet DEF Lock

\* The two reads of the signature.
LEMMA Reads == ASSUME MemoryInv, NEW t \in Threads, Stat(t) \/ Digest(t) PROVE MemoryInv'
<1>1. PICK c: c = thr[t]
  OBVIOUS
<1>2. c \in Call /\ Good(c) /\ c.pc = IF Stat(t) THEN "stat" ELSE "digest"
  BY <1>1, Typed DEF Stat, Digest, At
<1>3. c.d \in Days
  BY <1>2 DEF Good, CallInv
<1>4. UNCHANGED <<file, rows, sig, home>>
  BY DEF Stat, Digest
<1>5. CASE ~file[c.d].there
  <2>1. Raise(t)
    BY <1>1, <1>5 DEF Stat, Digest, Mine
  <2> QED
    BY <1>4, <2>1, Ends
<1>6. CASE file[c.d].there /\ Stat(t)
  <2>1. PICK r: r = [c EXCEPT !.pc = "digest", !.ver = file[c.d].ver]
    OBVIOUS
  <2>2. /\ r \in Call /\ Same(r, c) /\ r.pc = "digest" /\ r.d = c.d /\ r.body = c.body /\ r.ver = file[c.d].ver
        /\ r.snap = c.snap /\ r.todo = c.todo /\ r.then = c.then
    BY <1>2, <1>3, <2>1, OfFile DEF Call, Pcs, Same
  <2>3. 0 < r.ver /\ r.ver <= file[c.d].ver
    BY <1>3, <1>6, <2>2, OfFile
  <2>4. Good(r)
    BY <1>2, <1>3, <1>6, <2>2, <2>3 DEF Good, CallInv, ReadInv, SyncInv, Syncing, Same
  <2>5. Go(t, r) /\ db' = db
    BY <1>1, <1>6, <2>1 DEF Stat, Mine
  <2> QED
    BY <1>1, <1>2, <1>4, <1>6, <2>2, <2>4, <2>5, GoesOn DEF Holding
<1>7. CASE file[c.d].there /\ ~Stat(t)
  <2>1. PICK r: r = [c EXCEPT !.pc = "commit", !.sha = file[c.d].body]
    OBVIOUS
  <2>2. /\ r \in Call /\ Same(r, c) /\ r.pc = "commit" /\ r.d = c.d /\ r.body = c.body /\ r.ver = c.ver
        /\ r.snap = c.snap /\ r.todo = c.todo /\ r.then = c.then /\ r.sha = file[c.d].body
    BY <1>2, <1>3, <2>1, OfFile DEF Call, Pcs, Same
  <2>3. Good(r)
    BY <1>2, <1>3, <1>7, <2>2 DEF Good, CallInv, ReadInv, SyncInv, Syncing, Same
  <2>4. Go(t, r) /\ db' = db
    BY <1>1, <1>7, <2>1 DEF Digest, Mine
  <2> QED
    BY <1>1, <1>2, <1>4, <1>7, <2>2, <2>3, <2>4, GoesOn DEF Holding
<1> QED
  BY <1>5, <1>6, <1>7


LEMMA Snaps == ASSUME MemoryInv, NEW t \in Threads, Snap(t) PROVE MemoryInv'
<1>1. PICK c: c = thr[t]
  OBVIOUS
<1>2. c \in Call /\ Good(c) /\ c.pc = "snap"
  BY <1>1, Typed DEF Snap, At
<1>3. PICK r: r = [c EXCEPT !.snap = sig, !.then = "each",
                            !.pc = IF Vanished(sig, c.todo) = {} THEN "each" ELSE "purge"]
  OBVIOUS
<1>4. sig \in [Days -> Sig]
  BY Typed
<1>5. /\ r \in Call /\ Same(r, c) /\ r.pc = IF Vanished(sig, c.todo) = {} THEN "each" ELSE "purge"
      /\ r.d = c.d /\ r.snap = sig /\ r.todo = c.todo /\ r.then = "each"
  BY <1>2, <1>3, <1>4 DEF Call, Pcs, Same
<1>6. c.d = NoDay
  BY <1>2 DEF Good, CallInv
<1>7. CallInv(r) /\ (r.alone => ReadInv(r))
  BY <1>2, <1>5, <1>6 DEF Good, CallInv, ReadInv, Same
<1>8. c.alone => c.todo = {d \in Days: file[d].there}
  BY <1>2 DEF Good, SyncInv
<1>9. ASSUME Vanished(sig, c.todo) # {} PROVE Good(r)
  <2>1. r.pc = "purge"
    BY <1>5, <1>9
  <2>2. r.alone => SyncInv(r)
    BY <1>5, <1>8, <2>1 DEF SyncInv, Syncing, Same
  <2> QED
    BY <1>7, <2>2 DEF Good
<1>10. ASSUME Vanished(sig, c.todo) = {} PROVE Good(r)
  <2>1. r.pc = "each"
    BY <1>5, <1>10
  <2>2. \A d \in Days \ c.todo: sig[d].ver = 0
    BY <1>10 DEF Vanished
  <2>3. c.alone => \A d \in Days \ c.todo: Seen(d)
    BY <1>8, <2>2 DEF Seen
  <2>4. r.alone => SyncInv(r)
    BY <1>5, <2>1, <2>3 DEF SyncInv, Syncing, Same
  <2> QED
    BY <1>7, <2>4 DEF Good
<1>11. Go(t, r) /\ db' = db
  BY <1>1, <1>3 DEF Snap
<1>12. thr[t].pc \notin Holding /\ r.pc \notin Holding
  BY <1>1, <1>2, <1>5 DEF Holding
<1> QED
  BY <1>5, <1>9, <1>10, <1>11, <1>12, GoesOn DEF Snap

LEMMA LooksAtEach == ASSUME MemoryInv, NEW t \in Threads, NEW d \in Days, Each(t, d) PROVE MemoryInv'
<1>1. PICK c: c = thr[t]
  OBVIOUS
<1>2. c \in Call /\ Good(c) /\ c.pc = "each" /\ d \in c.todo
  BY <1>1, Typed DEF Each, At
<1>3. c.snap \in [Days -> Sig] /\ c.todo \in SUBSET Days /\ c.d = NoDay
  BY <1>2, Of DEF Good, CallInv
<1>4. UNCHANGED <<file, rows, sig, home>> /\ c.pc \notin Holding
  BY <1>2 DEF Each, Holding
<1>5. c.alone => \A e \in Days: IF e \in c.todo THEN e # c.d => c.snap[e] = sig[e] ELSE Seen(e)
  BY <1>2 DEF Good, SyncInv, Syncing
<1>6. CASE ~file[d].there
  BY <1>1, <1>4, <1>6, Ends DEF Each
<1>7. CASE file[d].there /\ c.snap[d].ver = file[d].ver
  <2>1. PICK r: r = [c EXCEPT !.todo = c.todo \ {d}]
    OBVIOUS
  <2>2. /\ r \in Call /\ Same(r, c) /\ r.pc = "each" /\ r.d = c.d /\ r.snap = c.snap /\ r.todo = c.todo \ {d}
        /\ r.then = c.then
    BY <1>2, <1>3, <2>1 DEF Call, Same
  <2>3. c.alone => Seen(d)
    BY <1>2, <1>3, <1>5, <1>7 DEF Seen
  <2>4. r.alone => SyncInv(r)
    BY <1>5, <2>2, <2>3 DEF SyncInv, Syncing, Same
  <2>5. Good(r)
    BY <1>2, <1>3, <2>2, <2>4 DEF Good, CallInv, ReadInv, Same
  <2>6. Go(t, r) /\ db' = db
    BY <1>1, <1>7, <2>1 DEF Each
  <2> QED
    BY <1>1, <1>4, <2>2, <2>5, <2>6, GoesOn DEF Holding
<1>8. CASE file[d].there /\ c.snap[d].ver # file[d].ver
  <2>1. PICK r: r = [c EXCEPT !.pc = "compare", !.d = d, !.ver = file[d].ver]
    OBVIOUS
  <2>2. /\ r \in Call /\ Same(r, c) /\ r.pc = "compare" /\ r.d = d /\ r.snap = c.snap /\ r.todo = c.todo
        /\ r.then = c.then /\ r.ver = file[d].ver
    BY <1>2, <2>1, OfFile DEF Call, Pcs, Same
  <2>3. 0 < r.ver /\ r.ver <= file[d].ver
    BY <1>8, <2>2, OfFile
  <2>4. r.alone => SyncInv(r)
    BY <1>2, <1>3, <1>5, <2>2 DEF SyncInv, Syncing, Same
  <2>5. Good(r)
    BY <1>2, <1>8, <2>2, <2>3, <2>4 DEF Good, CallInv, ReadInv, Same
  <2>6. Go(t, r) /\ db' = db
    BY <1>1, <1>8, <2>1 DEF Each
  <2> QED
    BY <1>1, <1>4, <2>2, <2>5, <2>6, GoesOn DEF Holding
<1> QED
  BY <1>6, <1>7, <1>8


LEMMA Compares == ASSUME MemoryInv, NEW t \in Threads, Compare(t) PROVE MemoryInv'
<1>1. PICK c: c = thr[t]
  OBVIOUS
<1>2. c \in Call /\ Good(c) /\ c.pc = "compare"
  BY <1>1, Typed DEF Compare, At
<1>3. c.d \in Days /\ 0 < c.ver /\ c.ver <= file[c.d].ver
  BY <1>2 DEF Good, CallInv
<1>4. c.snap \in [Days -> Sig] /\ c.todo \in SUBSET Days
  BY <1>2, Of
<1>5. UNCHANGED <<file, rows, sig, home>> /\ c.pc \notin Holding
  BY <1>2 DEF Compare, Holding
<1>6. PICK n: n = [c.snap EXCEPT ![c.d] = NoSig]
  OBVIOUS
<1>7. n \in [Days -> Sig] /\ \A e \in Days \ {c.d}: n[e] = c.snap[e]
  BY <1>3, <1>4, <1>6, NothingTyped
<1>8. c.alone => /\ \A e \in Days: IF e \in c.todo THEN e # c.d => c.snap[e] = sig[e] ELSE Seen(e)
                 /\ c.snap[c.d] = sig[c.d] /\ c.ver = file[c.d].ver
  BY <1>2 DEF Good, SyncInv, Syncing, ReadInv
<1>9. c.alone => \A e \in Days: IF e \in c.todo THEN e # c.d => n[e] = sig[e] ELSE Seen(e)
  BY <1>7, <1>8
<1>10. CASE ~file[c.d].there
  BY <1>1, <1>5, <1>10, Ends DEF Compare
<1>11. CASE file[c.d].there /\ c.snap[c.d].ver # 0 /\ c.snap[c.d].body = file[c.d].body
  <2>1. PICK r: r = [c EXCEPT !.pc = "touch", !.ver = c.ver, !.snap = n]
    OBVIOUS
  <2>2. /\ r \in Call /\ Same(r, c) /\ r.pc = "touch" /\ r.d = c.d /\ r.snap = n /\ r.todo = c.todo
        /\ r.then = c.then /\ r.ver = c.ver
    BY <1>2, <1>7, <2>1 DEF Call, Pcs, Same
  <2>3. CallInv(r)
    BY <1>2, <1>3, <2>2 DEF Good, CallInv, Same
  <2>4. r.alone => ReadInv(r)
    BY <1>8, <1>11, <2>2 DEF ReadInv, Same
  <2>5. r.alone => SyncInv(r)
    BY <1>9, <2>2 DEF SyncInv, Syncing, Same
  <2>6. r = [c EXCEPT !.pc = "touch", !.ver = @, !.snap[c.d] = NoSig]
    BY <1>6, <2>1
  <2>7. Go(t, r) /\ db' = db
    BY <1>1, <1>11, <2>6 DEF Compare
  <2> QED
    BY <1>1, <1>5, <2>2, <2>3, <2>4, <2>5, <2>7, GoesOn DEF Holding, Good
<1>12. CASE file[c.d].there /\ ~(c.snap[c.d].ver # 0 /\ c.snap[c.d].body = file[c.d].body)
  <2>1. PICK r: r = [c EXCEPT !.pc = "parse", !.ver = 0, !.snap = n]
    OBVIOUS
  <2>2. /\ r \in Call /\ Same(r, c) /\ r.pc = "parse" /\ r.d = c.d /\ r.snap = n /\ r.todo = c.todo
        /\ r.then = c.then
    BY <1>2, <1>7, <2>1, NothingTyped DEF Call, Pcs, Same
  <2>3. CallInv(r)
    BY <1>2, <1>3, <2>2 DEF Good, CallInv, Same
  <2>4. r.alone => ReadInv(r)
    BY <2>2 DEF ReadInv, Same
  <2>5. r.alone => SyncInv(r)
    BY <1>9, <2>2 DEF SyncInv, Syncing, Same
  <2>6. r = [c EXCEPT !.pc = "parse", !.ver = 0, !.snap[c.d] = NoSig]
    BY <1>6, <2>1
  <2>7. Go(t, r) /\ db' = db
    BY <1>1, <1>12, <2>6 DEF Compare
  <2> QED
    BY <1>1, <1>5, <2>2, <2>3, <2>4, <2>5, <2>7, GoesOn DEF Holding, Good
<1> QED
  BY <1>10, <1>11, <1>12

LEMMA Syncs == ASSUME MemoryInv, NEW t \in Threads, Synced(t) PROVE MemoryInv'
<1>1. PICK c: c = thr[t]
  OBVIOUS
<1>2. c \in Call /\ Good(c) /\ c.pc = "each" /\ c.todo = {}
  BY <1>1, Typed DEF Synced, At
<1>3. PICK r: r = [c EXCEPT !.pc = "select", !.snap = Idle.snap, !.then = "done"]
  OBVIOUS
<1>4. r \in Call /\ Same(r, c) /\ r.pc = "select"
  BY <1>2, <1>3, NothingTyped DEF Call, Pcs, Same
<1>5. c.alone => \A e \in Days: Seen(e)
  BY <1>2 DEF Good, SyncInv, Syncing
<1>6. Good(r)
  BY <1>2, <1>4, <1>5 DEF Good, CallInv, ReadInv, SyncInv, Syncing, Same
<1>7. Go(t, r) /\ db' = db
  BY <1>1, <1>3 DEF Synced
<1>8. thr[t].pc \notin Holding /\ r.pc \notin Holding
  BY <1>1, <1>2, <1>4 DEF Holding
<1> QED
  BY <1>4, <1>6, <1>7, <1>8, GoesOn DEF Synced

\* The tools that only read.
LEMMA Answers ==
    ASSUME MemoryInv, NEW t \in Threads,
           Answer(t) \/ Ranked(t) \/ \E ds \in SUBSET Days: Embed(t, ds)
    PROVE  MemoryInv'
<1>1. thr[t].pc \notin Holding /\ UNCHANGED <<file, rows, sig, db, home>>
  BY DEF Answer, Ranked, Embed, At, Holding
<1>2. CASE Answer(t) \/ Ranked(t)
  BY <1>1, <1>2, Ends DEF Answer, Ranked
<1>3. ASSUME NEW ds \in SUBSET Days, Embed(t, ds) PROVE MemoryInv'
  <2>1. PICK c: c = thr[t]
    OBVIOUS
  <2>2. c \in Call /\ Good(c)
    BY <2>1, Typed
  <2>3. PICK r: r = [c EXCEPT !.pc = "again", !.todo = ds, !.then = "again"]
    OBVIOUS
  <2>4. r \in Call /\ Same(r, c) /\ r.pc = "again" /\ r.then = "again"
    BY <2>2, <2>3 DEF Call, Pcs, Same
  <2>5. Good(r)
    BY <2>2, <2>4 DEF Good, CallInv, ReadInv, SyncInv, Syncing, Same
  <2>6. Go(t, r)
    BY <1>3, <2>1, <2>3 DEF Embed
  <2> QED
    BY <1>1, <2>4, <2>5, <2>6, GoesOn DEF Holding
<1> QED
  BY <1>2, <1>3

LEMMA ReadsAgain == ASSUME MemoryInv, NEW t \in Threads, NEW d \in Days, Again(t, d) PROVE MemoryInv'
<1>1. PICK c: c = thr[t]
  OBVIOUS
<1>2. c \in Call /\ Good(c) /\ c.pc = "again" /\ c.then = "again"
  BY <1>1, Typed DEF Again, At, Good, CallInv
<1>3. PICK r: r = IF file[d].there THEN [c EXCEPT !.pc = "parse", !.d = d] ELSE [c EXCEPT !.todo = c.todo \ {d}]
  OBVIOUS
<1>4. c.todo \in SUBSET Days
  BY <1>2, Of
<1>5. r \in Call /\ Same(r, c) /\ r.then = "again" /\ (r.pc = "again" \/ (r.pc = "parse" /\ r.d = d))
  <2>1. CASE file[d].there
    BY <1>2, <1>3, <2>1 DEF Call, Pcs, Same
  <2>2. CASE ~file[d].there
    BY <1>2, <1>3, <1>4, <2>2 DEF Call, Pcs, Same
  <2> QED
    BY <2>1, <2>2
<1>6. CallInv(r)
  BY <1>2, <1>5 DEF Good, CallInv, Same
<1>7. r.alone => ReadInv(r) /\ SyncInv(r)
  BY <1>5 DEF ReadInv, SyncInv, Syncing
<1>8. Go(t, r) /\ db' = db
  BY <1>1, <1>3 DEF Again
<1>9. thr[t].pc \notin Holding /\ r.pc \notin Holding
  BY <1>1, <1>2, <1>5 DEF Holding
<1> QED
  BY <1>5, <1>6, <1>7, <1>8, <1>9, GoesOn DEF Again, Good

LEMMA Locates == ASSUME MemoryInv, NEW t \in Threads, Locate(t) PROVE MemoryInv'
<1>1. PICK c: c = thr[t]
  OBVIOUS
<1>2. c \in Call /\ Good(c) /\ c.pc = "select" /\ c.op \in {"update", "delete"}
  BY <1>1, Typed DEF Locate, At
<1>3. UNCHANGED <<file, rows, sig, db, home>> /\ c.pc \notin Holding
  BY <1>2 DEF Locate, Holding
<1>4. CASE Go(t, Idle)
  BY <1>1, <1>3, <1>4, Ends
<1>5. ASSUME NEW d \in Days, Go(t, [c EXCEPT !.pc = "entry", !.d = d]) PROVE MemoryInv'
  <2>1. PICK r: r = [c EXCEPT !.pc = "entry", !.d = d]
    OBVIOUS
  <2>2. r \in Call /\ Same(r, c) /\ r.pc = "entry" /\ r.d = d
    BY <1>2, <2>1 DEF Call, Pcs, Same
  <2>3. Good(r)
    BY <1>2, <2>2 DEF Good, CallInv, ReadInv, SyncInv, Syncing, Same
  <2> QED
    BY <1>1, <1>3, <1>5, <2>1, <2>2, <2>3, GoesOn DEF Holding
<1> QED
  BY <1>1, <1>4, <1>5 DEF Locate

LEMMA Changes ==
    ASSUME MemoryInv, NEW t \in Threads, NEW x \in Texts \cup {NoText}, Entry(t, x) PROVE MemoryInv'
<1>1. PICK c: c = thr[t]
  OBVIOUS
<1>2. c \in Call /\ Good(c) /\ c.pc = "entry"
  BY <1>1, Typed DEF Entry, At
<1>3. UNCHANGED <<file, rows, sig, db, home>> /\ c.pc \notin Holding
  BY <1>2 DEF Entry, Holding
<1>4. c.d \in Days /\ c.op \in {"update", "delete"} /\ c.id \in Ids
  BY <1>2 DEF Good, CallInv
<1>5. CASE Go(t, Idle)
  BY <1>1, <1>3, <1>5, Ends
<1>6. CASE /\ file[c.d].body[c.id] # NoText
           /\ Go(t, [c EXCEPT !.pc = "write", !.body = [file[c.d].body EXCEPT ![c.id] = x]])
  <2>1. PICK b: b = [file[c.d].body EXCEPT ![c.id] = x]
    OBVIOUS
  <2>2. /\ b \in Bodies /\ \A i \in Ids \ {c.id}: b[i] = file[c.d].body[i]
    BY <1>4, <2>1, OfFile DEF Bodies
  <2>3. \A i \in Ids: b[i] # NoText => home[i] = c.d
    BY <1>4, <1>6, <2>2, OfFile
  <2>4. PICK r: r = [c EXCEPT !.pc = "write", !.body = b]
    OBVIOUS
  <2>5. r \in Call /\ Same(r, c) /\ r.pc = "write" /\ r.d = c.d /\ r.body = b
    BY <1>2, <2>2, <2>4 DEF Call, Pcs, Same
  <2>6. CallInv(r)
    BY <1>4, <2>3, <2>5 DEF CallInv, Same
  <2>7. ReadInv(r) /\ SyncInv(r)
    BY <1>4, <2>2, <2>5 DEF ReadInv, SyncInv, Syncing, Same
  <2> QED
    BY <1>1, <1>3, <1>6, <2>1, <2>4, <2>5, <2>6, <2>7, GoesOn DEF Good, Holding
<1> QED
  BY <1>1, <1>5, <1>6 DEF Entry, Mine


-----------------------------------------------------------------------------
(* The steps that change a file, the index, or whose an id is.             *)

LEMMA CallStays ==
    ASSUME MemoryInv, file' \in [Days -> File], \A d \in Days: file[d].ver <= file'[d].ver,
           \A i \in Ids: home[i] \in Days => home'[i] = home[i], NEW c \in Call, CallInv(c)
    PROVE  CallInv(c)'
<1>1. \A d \in Days: file[d].ver \in Nat /\ file'[d].ver \in Nat /\ c.ver \in Nat
  BY Of, OfFile DEF File
<1>2. c.pc \in {"digest", "commit", "compare", "touch"} => c.ver <= file'[c.d].ver
  BY <1>1 DEF CallInv
<1>3. c.pc = "write" => \A i \in Ids: c.body[i] # NoText => home'[i] = c.d
  BY DEF CallInv
<1> QED
  BY <1>2, <1>3 DEF CallInv

LEMMA DisturbedStays ==
    ASSUME MemoryInv, file' \in [Days -> File], \A d \in Days: file[d].ver <= file'[d].ver,
           \A i \in Ids: home[i] \in Days => home'[i] = home[i], NEW u \in Threads, NEW c, c = Disturbed(u)
    PROVE  c \in Call /\ c.pc = thr[u].pc /\ Good(c)'
<1>1. PICK b: b = thr[u]
  OBVIOUS
<1>2. b \in Call /\ Good(b)
  BY <1>1, Typed
<1>3. CASE b.pc = "idle"
  <2>1. c = b
    BY <1>1, <1>3 DEF Disturbed
  <2>2. c \in Call /\ CallInv(c) /\ c.pc = "idle"
    BY <1>2, <1>3, <2>1 DEF Good
  <2>3. CallInv(c)'
    BY <2>2, CallStays
  <2> QED
    BY <1>1, <2>1, <2>2, <2>3 DEF Good, ReadInv, SyncInv, Syncing
<1>4. CASE b.pc # "idle"
  <2>1. c = [b EXCEPT !.alone = FALSE]
    BY <1>1, <1>4 DEF Disturbed
  <2>2. /\ c \in Call /\ c.alone = FALSE /\ c.pc = b.pc /\ c.op = b.op /\ c.id = b.id /\ c.d = b.d
        /\ c.body = b.body /\ c.ver = b.ver /\ c.then = b.then
    BY <1>2, <2>1 DEF Call
  <2>3. CallInv(c)
    BY <1>2, <2>2 DEF Good, CallInv
  <2>4. CallInv(c)'
    BY <2>2, <2>3, CallStays
  <2> QED
    BY <1>1, <2>2, <2>4 DEF Good
<1> QED
  BY <1>3, <1>4

\* Thread t has changed a file or the index.
LEMMA Loud ==
    ASSUME MemoryInv, NEW t \in Threads, NEW r \in Call, GoAndDisturb(t, r), Good(r)', Transaction(t, r),
           file' \in [Days -> File], rows' \in [Days -> Bodies], sig' \in [Days -> Sig], FileInv',
           home' = home, \A d \in Days: file[d].ver <= file'[d].ver
    PROVE  MemoryInv'
<1>1. thr'[t] = r /\ \A u \in Threads \ {t}: thr'[u] = Disturbed(u)
  BY DEF GoAndDisturb
<1>2. \A u \in Threads: \A c: c = Disturbed(u) => c \in Call /\ c.pc = thr[u].pc /\ Good(c)'
  BY DisturbedStays
<1>3. thr' \in [Threads -> Call]
  BY <1>2 DEF GoAndDisturb
<1>4. \A u \in Threads \ {t}: thr'[u].pc = thr[u].pc
  BY <1>1, <1>2
<1>5. db' \in Threads \cup {NoThread} /\ \A u \in Threads: db' = u <=> thr'[u].pc \in Holding
  BY <1>1, <1>4, OneTransaction
<1>6. ASSUME NEW u \in Threads, NEW c, c = thr'[u] PROVE Good(c)'
  <2>1. CASE u = t
    <3>1. c = r
      BY <1>1, <1>6, <2>1
    <3> QED
      BY <3>1
  <2>2. CASE u # t
    <3>1. c = Disturbed(u)
      BY <1>1, <1>6, <2>2
    <3> QED
      BY <3>1, <1>2
  <2> QED
    BY <2>1, <2>2
<1>7. home' \in [Ids -> Days \cup {NoDay}]
  BY Typed
<1> QED
  BY <1>3, <1>5, <1>6, <1>7, Together

\* A person has changed a file.
LEMMA FromOutside ==
    ASSUME MemoryInv, thr' = [u \in Threads |-> Disturbed(u)], UNCHANGED <<rows, sig, db, home>>,
           file' \in [Days -> File], FileInv', \A d \in Days: file[d].ver <= file'[d].ver
    PROVE  MemoryInv'
<1>1. \A u \in Threads: \A c: c = Disturbed(u) => c \in Call /\ c.pc = thr[u].pc /\ Good(c)'
  BY DisturbedStays
<1>2. thr' \in [Threads -> Call] /\ \A u \in Threads: thr'[u].pc = thr[u].pc /\ thr'[u] = Disturbed(u)
  BY <1>1
<1>3. db' \in Threads \cup {NoThread} /\ \A u \in Threads: db' = u <=> thr'[u].pc \in Holding
  BY <1>2, Typed
<1>4. \A u \in Threads: \A c: c = thr'[u] => Good(c)'
  BY <1>1, <1>2
<1>5. rows' \in [Days -> Bodies] /\ sig' \in [Days -> Sig] /\ home' \in [Ids -> Days \cup {NoDay}]
  BY Typed
<1> QED
  BY <1>2, <1>3, <1>4, <1>5, Together

\* A file is replaced by b, or removed.
LEMMA FileChanged ==
    ASSUME MemoryInv, NEW d \in Days, NEW f, f \in File, file[d].ver < MaxVersion, f.ver = file[d].ver + 1,
           file' = [file EXCEPT ![d] = f], UNCHANGED <<sig, home>>,
           ~f.there => f.body = Empty, \A i \in Ids: f.body[i] # NoText => home[i] = d
    PROVE  file' \in [Days -> File] /\ FileInv' /\ \A e \in Days: file[e].ver <= file'[e].ver
<1>1. file \in [Days -> File]
  BY Typed
<1>2. file' \in [Days -> File] /\ file'[d] = f /\ \A e \in Days \ {d}: file'[e] = file[e]
  BY <1>1
<1>3. \A e \in Days: file[e].ver \in Nat /\ sig[e].ver \in Nat
  BY OfFile
<1>4. \A e \in Days: file[e].ver <= file'[e].ver
  BY <1>2, <1>3
<1>5. FileInv
  BY Typed
<1>6. ASSUME NEW e \in Days
      PROVE  /\ IF file'[e].there THEN file'[e].ver > 0 ELSE file'[e].body = Empty
             /\ sig'[e].ver <= file'[e].ver /\ (sig'[e].ver = 0 => sig'[e] = NoSig)
             /\ \A i \in Ids: file'[e].body[i] # NoText => home'[i] = e
  <2>1. CASE e = d
    <3>1. /\ IF f.there THEN f.ver > 0 ELSE f.body = Empty
          /\ sig[d].ver <= f.ver
      BY <1>3, <1>5 DEF FileInv
    <3> QED
      BY <1>2, <1>5, <2>1, <3>1 DEF FileInv
  <2>2. CASE e # d
    BY <1>2, <1>5, <2>2 DEF FileInv
  <2> QED
    BY <2>1, <2>2
<1>7. FileInv'
  BY <1>6 DEF FileInv
<1> QED
  BY <1>2, <1>4, <1>7

LEMMA Stores ==
    ASSUME MemoryInv, NEW d \in Days, file[d].ver < MaxVersion, NEW b \in Bodies, file' = Stored(d, b),
           UNCHANGED <<sig, home>>, \A i \in Ids: b[i] # NoText => home[i] = d
    PROVE  file' \in [Days -> File] /\ FileInv' /\ \A e \in Days: file[e].ver <= file'[e].ver
<1>1. PICK f: f = [there |-> TRUE, ver |-> file[d].ver + 1, body |-> b]
  OBVIOUS
<1>2. file[d].ver + 1 \in 0..MaxVersion
  BY OfFile
<1>3. f \in File /\ f.there = TRUE /\ f.ver = file[d].ver + 1 /\ f.body = b
  BY <1>1, <1>2 DEF File
<1>4. file' = [file EXCEPT ![d] = f]
  BY <1>1, Typed DEF Stored
<1> QED
  BY <1>3, <1>4, FileChanged


LEMMA Writes == ASSUME MemoryInv, NEW t \in Threads, Write(t) PROVE MemoryInv'
<1>1. PICK c: c = thr[t]
  OBVIOUS
<1>2. c \in Call /\ Good(c) /\ c.pc = "write"
  BY <1>1, Typed DEF Write, At
<1>3. c.d \in Days /\ (\A i \in Ids: c.body[i] # NoText => home[i] = c.d)
  BY <1>2 DEF Good, CallInv
<1>4. c.body \in Bodies /\ c.alone \in BOOLEAN
  BY <1>2, Of
<1>5. file' \in [Days -> File] /\ FileInv' /\ \A e \in Days: file[e].ver <= file'[e].ver
  BY <1>1, <1>3, <1>4, Stores DEF Write, Mine
<1>6. PICK r: r = [Idle EXCEPT !.pc = "parse", !.d = c.d, !.alone = c.alone]
  OBVIOUS
<1>7. r \in Call /\ r.pc = "parse" /\ r.d = c.d /\ r.then = "done" /\ r.op = "none"
  BY <1>3, <1>4, <1>6, NothingTyped, IdleFields DEF Call, Pcs
<1>8. Good(r)'
  BY <1>3, <1>7 DEF Good, CallInv, ReadInv, SyncInv, Syncing
<1>9. GoAndDisturb(t, r)
  BY <1>1, <1>6 DEF Write
<1>10. db = t <=> c.pc \in Holding
  BY <1>1, Typed
<1>11. Transaction(t, r)
  BY <1>2, <1>7, <1>10 DEF Write, Transaction, Holding
<1>12. rows' \in [Days -> Bodies] /\ sig' \in [Days -> Sig] /\ home' = home
  BY Typed DEF Write
<1> QED
  BY <1>5, <1>7, <1>8, <1>9, <1>11, <1>12, Loud

LEMMA Edits == ASSUME MemoryInv, NEW d \in Days, NEW b \in Bodies, Edit(d, b) PROVE MemoryInv'
<1>1. file' \in [Days -> File] /\ FileInv' /\ \A e \in Days: file[e].ver <= file'[e].ver
  BY Stores DEF Edit
<1> QED
  BY <1>1, FromOutside DEF Edit

LEMMA Removes == ASSUME MemoryInv, NEW d \in Days, Remove(d) PROVE MemoryInv'
<1>1. PICK f: f = [there |-> FALSE, ver |-> file[d].ver + 1, body |-> Empty]
  OBVIOUS
<1>2. file[d].ver + 1 \in 0..MaxVersion
  BY OfFile DEF Remove
<1>3. f \in File /\ f.there = FALSE /\ f.ver = file[d].ver + 1 /\ f.body = Empty
  BY <1>1, <1>2, NothingTyped DEF File
<1>4. file' = [file EXCEPT ![d] = f]
  BY <1>1, Typed DEF Remove
<1>5. \A i \in Ids: f.body[i] = NoText
  BY <1>3, NothingTyped
<1>6. file[d].ver < MaxVersion /\ UNCHANGED <<sig, home>>
  BY DEF Remove
<1>7. \A i \in Ids: f.body[i] # NoText => home[i] = d
  BY <1>5
<1>8. file' \in [Days -> File] /\ FileInv' /\ \A e \in Days: file[e].ver <= file'[e].ver
  BY <1>3, <1>4, <1>6, <1>7, FileChanged
<1> QED
  BY <1>8, FromOutside DEF Remove

\* The index of d is given the signature s.
LEMMA Signs ==
    ASSUME MemoryInv, NEW d \in Days, NEW s \in Sig, sig' = [sig EXCEPT ![d] = s], UNCHANGED <<file, home>>,
           s.ver <= file[d].ver, s.ver = 0 => s = NoSig
    PROVE  /\ sig' \in [Days -> Sig] /\ FileInv' /\ file' \in [Days -> File]
           /\ \A e \in Days: file[e].ver <= file'[e].ver
           /\ sig'[d] = s /\ \A e \in Days \ {d}: sig'[e] = sig[e] /\ (Seen(e) => Seen(e)')
           /\ file[d].there /\ s.ver = file[d].ver => Seen(d)'
<1>1. sig \in [Days -> Sig] /\ file \in [Days -> File] /\ FileInv
  BY Typed
<1>2. sig' \in [Days -> Sig] /\ sig'[d] = s /\ \A e \in Days \ {d}: sig'[e] = sig[e]
  BY <1>1
<1>3. \A e \in Days: file[e].ver <= file'[e].ver
  BY OfFile
<1>4. FileInv'
  BY <1>1, <1>2 DEF FileInv
<1>5. \A e \in Days \ {d}: Seen(e) => Seen(e)'
  BY <1>2 DEF Seen
<1>6. file[d].there /\ s.ver = file[d].ver => Seen(d)'
  BY <1>2 DEF Seen
<1> QED
  BY <1>1, <1>2, <1>3, <1>4, <1>5, <1>6

\* A file is done with: the call goes on to the next one, or ends.
LEMMA GoesOnward ==
    ASSUME MemoryInv, NEW t \in Threads, NEW c, c = thr[t], c.pc \in {"commit", "touch"}, NEW r, r = Onward(t),
           NEW s \in Sig, sig' = [sig EXCEPT ![c.d] = s], UNCHANGED <<file, home>>,
           s.ver <= file[c.d].ver, s.ver = 0 => s = NoSig,
           c.alone => file[c.d].there /\ s.ver = file[c.d].ver
    PROVE  r \in Call /\ r.pc \notin Holding /\ Good(r)'
<1>1. c \in Call /\ Good(c)
  BY Typed
<1>2. c.d \in Days /\ c.todo \in SUBSET Days /\ c.then \in {"done", "each", "again"} /\ c.alone \in BOOLEAN
      /\ c.snap \in [Days -> Sig]
  BY <1>1, Of DEF Good, CallInv
<1>3. CASE c.then = "done"
  <2>1. r = Idle
    BY <1>3 DEF Onward
  <2> QED
    BY <2>1, NothingTyped, IdleFields DEF Holding, Good, CallInv, ReadInv, SyncInv, Syncing
<1>4. CASE c.then # "done"
  <2>1. r = [c EXCEPT !.pc = c.then, !.d = NoDay, !.body = Empty, !.ver = 0, !.sha = Empty,
                      !.todo = c.todo \ {c.d}]
    BY <1>4 DEF Onward
  <2>2. c.then \in Pcs \ Holding
    BY <1>2, <1>4 DEF Pcs, Holding
  <2>3. /\ r \in Call /\ Same(r, c) /\ r.pc = c.then /\ r.d = NoDay /\ r.todo = c.todo \ {c.d}
        /\ r.snap = c.snap /\ r.then = c.then
    <3>1. PICK l, p: l = c.todo \ {c.d} /\ p = c.then
      OBVIOUS
    <3>2. l \in SUBSET Days /\ p \in Pcs /\ Empty \in Bodies /\ 0 \in 0..MaxVersion
      BY <1>2, <2>2, <3>1, NothingTyped
    <3>3. r = [c EXCEPT !.pc = p, !.d = NoDay, !.body = Empty, !.ver = 0, !.sha = Empty, !.todo = l]
      BY <2>1, <3>1
    <3>4. PICK q: q = [c EXCEPT !.pc = p, !.d = NoDay, !.todo = l]
      OBVIOUS
    <3>5. PICK k: k = [q EXCEPT !.body = Empty, !.ver = 0, !.sha = Empty]
      OBVIOUS
    <3>6. q \in Call
      BY <1>1, <3>2, <3>4 DEF Call
    <3>7. k \in Call
      BY <3>2, <3>5, <3>6 DEF Call
    <3>8. r = k
      BY <1>1, <3>3, <3>4, <3>5 DEF Call
    <3>9. /\ r.pc = p /\ r.d = NoDay /\ r.todo = l /\ r.snap = c.snap /\ r.then = c.then
          /\ r.op = c.op /\ r.id = c.id /\ r.alone = c.alone
      BY <1>1, <3>3 DEF Call
    <3> QED
      BY <3>1, <3>7, <3>8, <3>9 DEF Same
  <2>4. c.then \in {"each", "again"}
    BY <1>2, <1>4
  <2>5. CallInv(r)'
    BY <1>1, <2>3, <2>4 DEF Good, CallInv, Same
  <2>6. ReadInv(r)'
    BY <2>3, <2>4 DEF ReadInv
  <2>7. ASSUME r.alone PROVE SyncInv(r)'
    <3>1. CASE c.then = "again"
      BY <2>3, <3>1 DEF SyncInv, Syncing
    <3>2. CASE c.then = "each"
      <4>1. \A e \in Days: IF e \in c.todo THEN e # c.d => c.snap[e] = sig[e] ELSE Seen(e)
        BY <1>1, <2>3, <2>7, <3>2 DEF Good, SyncInv, Syncing, Same
      <4>2. \A e \in Days \ {c.d}: sig'[e] = sig[e] /\ (Seen(e) => Seen(e)')
        BY <1>2, Signs
      <4>3. Seen(c.d)'
        BY <1>2, <2>3, <2>7, Signs DEF Same
      <4>4. ASSUME NEW e \in Days PROVE IF e \in r.todo THEN e # r.d => r.snap[e] = sig'[e] ELSE Seen(e)'
        <5>1. CASE e = c.d
          BY <2>3, <4>3, <5>1
        <5>2. CASE e # c.d
          BY <2>3, <4>1, <4>2, <4>4, <5>2
        <5> QED
          BY <5>1, <5>2
      <4> QED
        BY <2>3, <3>2, <4>4 DEF SyncInv, Syncing
    <3> QED
      BY <2>4, <3>1, <3>2
  <2> QED
    BY <2>2, <2>3, <2>5, <2>6, <2>7 DEF Good
<1> QED
  BY <1>3, <1>4

LEMMA Commits == ASSUME MemoryInv, NEW t \in Threads, Commit(t) PROVE MemoryInv'
<1>1. PICK c: c = thr[t]
  OBVIOUS
<1>2. c \in Call /\ Good(c) /\ c.pc = "commit" /\ (db = t <=> c.pc \in Holding)
  BY <1>1, Typed DEF Commit, At
<1>3. c.d \in Days /\ 0 < c.ver /\ c.ver <= file[c.d].ver /\ (c.alone => file[c.d].there /\ c.ver = file[c.d].ver)
  BY <1>2 DEF Good, CallInv, ReadInv
<1>4. c.body \in Bodies /\ c.ver \in 0..MaxVersion /\ c.sha \in Bodies
  BY <1>2, Of
<1>5. PICK s: s = [ver |-> c.ver, body |-> c.sha]
  OBVIOUS
<1>6. s \in Sig /\ s.ver = c.ver
  BY <1>4, <1>5 DEF Sig
<1>7. /\ s.ver <= file[c.d].ver /\ (s.ver = 0 => s = NoSig)
      /\ c.alone => file[c.d].there /\ s.ver = file[c.d].ver
  BY <1>3, <1>6
<1>8. sig' = [sig EXCEPT ![c.d] = s] /\ UNCHANGED <<file, home>> /\ c.pc \in {"commit", "touch"}
  BY <1>1, <1>2, <1>5 DEF Commit
<1>9. PICK r: r = Onward(t)
  OBVIOUS
<1>10. r \in Call /\ r.pc \notin Holding /\ Good(r)'
  BY <1>1, <1>6, <1>7, <1>8, <1>9, GoesOnward
<1>11. sig' \in [Days -> Sig] /\ FileInv' /\ file' \in [Days -> File] /\ \A e \in Days: file[e].ver <= file'[e].ver
  BY <1>3, <1>6, <1>7, <1>8, Signs
<1>12. rows' \in [Days -> Bodies]
  BY <1>1, <1>4, Typed DEF Commit
<1>13. GoAndDisturb(t, r)
  BY <1>9 DEF Commit
<1>14. Transaction(t, r)
  BY <1>2, <1>10 DEF Commit, Transaction, Holding
<1> QED
  BY <1>8, <1>10, <1>11, <1>12, <1>13, <1>14, Loud

LEMMA Touches == ASSUME MemoryInv, NEW t \in Threads, Touch(t) PROVE MemoryInv'
<1>1. PICK c: c = thr[t]
  OBVIOUS
<1>2. c \in Call /\ Good(c) /\ c.pc = "touch" /\ (db = t <=> c.pc \in Holding)
  BY <1>1, Typed DEF Touch, At
<1>3. /\ c.d \in Days /\ 0 < c.ver /\ c.ver <= file[c.d].ver
      /\ c.alone => file[c.d].there /\ c.ver = file[c.d].ver /\ sig[c.d].ver # 0
  BY <1>2 DEF Good, CallInv, ReadInv
<1>4. c.ver \in 0..MaxVersion
  BY <1>2, Of
<1>5. PICK s: s = [sig[c.d] EXCEPT !.ver = IF sig[c.d].ver = 0 THEN 0 ELSE c.ver]
  OBVIOUS
<1>6. sig[c.d] \in Sig /\ sig \in [Days -> Sig]
  BY <1>3, Typed
<1>7. s \in Sig /\ s.ver = IF sig[c.d].ver = 0 THEN 0 ELSE c.ver
  BY <1>4, <1>5, <1>6, NothingTyped DEF Sig
<1>8. s.ver = 0 => s = NoSig
  <2>1. sig[c.d].ver = 0 => sig[c.d] = NoSig
    BY <1>3, OfFile
  <2>2. sig[c.d].ver = 0 => s = sig[c.d]
    BY <1>5, <1>6 DEF Sig
  <2> QED
    BY <1>3, <1>7, <2>1, <2>2
<1>9. s.ver <= file[c.d].ver /\ (c.alone => file[c.d].there /\ s.ver = file[c.d].ver)
  BY <1>3, <1>7, OfFile
<1>10. sig' = [sig EXCEPT ![c.d] = s] /\ UNCHANGED <<file, home>>
  BY <1>1, <1>5, <1>6 DEF Touch
<1>11. PICK r: r = Onward(t)
  OBVIOUS
<1>12. r \in Call /\ r.pc \notin Holding /\ Good(r)'
  BY <1>1, <1>2, <1>7, <1>8, <1>9, <1>10, <1>11, GoesOnward
<1>13. sig' \in [Days -> Sig] /\ FileInv' /\ file' \in [Days -> File] /\ \A e \in Days: file[e].ver <= file'[e].ver
  BY <1>3, <1>7, <1>8, <1>9, <1>10, Signs
<1>14. rows' \in [Days -> Bodies] /\ GoAndDisturb(t, r)
  BY <1>11, Typed DEF Touch
<1>15. Transaction(t, r)
  BY <1>2, <1>12 DEF Touch, Transaction, Holding
<1> QED
  BY <1>10, <1>12, <1>13, <1>14, <1>15, Loud


LEMMA Purges == ASSUME MemoryInv, NEW t \in Threads, Purge(t) PROVE MemoryInv'
<1>1. PICK c: c = thr[t]
  OBVIOUS
<1>2. c \in Call /\ Good(c) /\ c.pc = "purge" /\ (db = t <=> c.pc \in Holding)
  BY <1>1, Typed DEF Purge, At
<1>3. PICK gone: gone = Vanished(c.snap, c.todo)
  OBVIOUS
<1>4. file' = file /\ home' = home /\ db' = db
  BY DEF Purge
<1>5. /\ sig' = [d \in Days |-> IF d \in gone THEN NoSig ELSE sig[d]]
      /\ rows' = [d \in Days |-> IF d \in gone THEN Empty ELSE rows[d]]
  BY <1>1, <1>3 DEF Purge
<1>6. sig' \in [Days -> Sig] /\ rows' \in [Days -> Bodies] /\ file' \in [Days -> File]
  BY <1>4, <1>5, Typed, NothingTyped
<1>7. FileInv'
  <2>1. FileInv /\ NoSig.ver = 0 /\ \A d \in Days: 0 <= file[d].ver
    BY Typed, NothingTyped, OfFile
  <2> QED
    BY <1>4, <1>5, <2>1 DEF FileInv
<1>8. \A d \in Days: file[d].ver <= file'[d].ver
  BY <1>4, OfFile
<1>9. PICK r: r = [c EXCEPT !.pc = "each"]
  OBVIOUS
<1>10. /\ r \in Call /\ Same(r, c) /\ r.pc = "each" /\ r.d = c.d /\ r.snap = c.snap /\ r.todo = c.todo
       /\ r.then = c.then
  BY <1>2, <1>9 DEF Call, Pcs, Same
<1>11. c.d = NoDay /\ CallInv(r)' /\ ReadInv(r)'
  BY <1>2, <1>10 DEF Good, CallInv, ReadInv, Same
<1>12. ASSUME r.alone PROVE SyncInv(r)'
  <2>1. c.todo = {d \in Days: file[d].there} /\ c.snap = sig
    BY <1>2, <1>10, <1>12 DEF Good, SyncInv, Same
  <2>2. ASSUME NEW d \in Days PROVE IF d \in r.todo THEN r.snap[d] = sig'[d] ELSE Seen(d)'
    <3>1. CASE d \in r.todo
      <4>1. d \notin gone
        BY <1>3, <1>10, <3>1 DEF Vanished
      <4> QED
        BY <1>5, <1>10, <2>1, <3>1, <4>1
    <3>2. CASE d \notin r.todo
      <4>1. ~file[d].there
        BY <1>10, <2>1, <3>2
      <4>2. sig'[d].ver = 0
        <5>1. CASE d \in gone
          BY <1>5, <5>1, NothingTyped
        <5>2. CASE d \notin gone
          BY <1>3, <1>5, <1>10, <2>1, <3>2, <5>2 DEF Vanished
        <5> QED
          BY <5>1, <5>2
      <4> QED
        BY <1>4, <3>2, <4>1, <4>2 DEF Seen
    <3> QED
      BY <3>1, <3>2
  <2> QED
    BY <1>10, <2>2 DEF SyncInv, Syncing
<1>13. GoAndDisturb(t, r)
  BY <1>1, <1>9 DEF Purge
<1>14. Transaction(t, r)
  BY <1>2, <1>4, <1>10 DEF Transaction, Holding
<1> QED
  BY <1>4, <1>6, <1>7, <1>8, <1>10, <1>11, <1>12, <1>13, <1>14, Loud DEF Good

LEMMA Adds ==
    ASSUME MemoryInv, NEW t \in Threads, NEW d \in Days, NEW i \in Ids, NEW x \in Texts, AddCall(t, d, i, x)
    PROVE  MemoryInv'
<1>1. PICK b: b = [file[d].body EXCEPT ![i] = x]
  OBVIOUS
<1>2. b \in Bodies /\ \A j \in Ids \ {i}: b[j] = file[d].body[j]
  BY <1>1, OfFile DEF Bodies
<1>3. home[i] = NoDay /\ home' = [home EXCEPT ![i] = d] /\ file' = file /\ rows' = rows /\ sig' = sig /\ db' = db
  BY DEF AddCall
<1>4. /\ home' \in [Ids -> Days \cup {NoDay}] /\ home'[i] = d /\ \A j \in Ids \ {i}: home'[j] = home[j]
  BY <1>3, Typed
<1>5. \A e \in Days: file[e].ver <= file'[e].ver
  BY <1>3, OfFile
<1>6. \A j \in Ids: home[j] \in Days => home'[j] = home[j]
  BY <1>3, <1>4
<1>7. FileInv'
  <2>1. \A e \in Days: \A j \in Ids: file'[e].body[j] # NoText => home'[j] = e
    BY <1>3, <1>6, OfFile
  <2> QED
    BY <1>3, <2>1, Typed DEF FileInv
<1>8. PICK r: r = [Idle EXCEPT !.op = "add", !.pc = "write", !.id = i, !.d = d, !.body = b]
  OBVIOUS
<1>9. r \in Call /\ r.op = "add" /\ r.pc = "write" /\ r.id = i /\ r.d = d /\ r.body = b /\ r.then = "done"
  BY <1>2, <1>8, NothingTyped, IdleFields DEF Call, Pcs
<1>10. file[d].body[i] = NoText /\ \A j \in Ids: b[j] # NoText => home'[j] = d
  BY <1>2, <1>3, <1>4, <1>6, OfFile
<1>11. Good(r)'
  BY <1>2, <1>3, <1>9, <1>10 DEF Good, CallInv, ReadInv, SyncInv, Syncing
<1>12. thr' = [thr EXCEPT ![t] = r] /\ thr[t].pc = "idle"
  BY <1>1, <1>8 DEF AddCall, Go, At
<1>13. thr' \in [Threads -> Call] /\ thr'[t] = r /\ \A u \in Threads \ {t}: thr'[u] = thr[u]
  BY <1>9, <1>12, Typed
<1>14. Transaction(t, r)
  BY <1>3, <1>9, <1>12, Typed DEF Transaction, Holding
<1>15. db' \in Threads \cup {NoThread} /\ \A u \in Threads: db' = u <=> thr'[u].pc \in Holding
  BY <1>13, <1>14, OneTransaction
<1>16. ASSUME NEW u \in Threads, NEW c, c = thr'[u] PROVE Good(c)'
  <2>1. CASE u = t
    <3>1. c = r
      BY <1>13, <1>16, <2>1
    <3> QED
      BY <1>11, <3>1
  <2>2. CASE u # t
    <3>1. c = thr[u] /\ Good(thr[u]) /\ thr[u] \in Call
      BY <1>13, <1>16, <2>2, Typed
    <3>2. c \in Call /\ Good(c)
      BY <3>1
    <3>3. CallInv(c)'
      <4>1. CallInv(c) /\ file' \in [Days -> File]
        BY <1>3, <3>2, Typed DEF Good
      <4> QED
        BY <1>5, <1>6, <3>2, <4>1, CallStays
    <3>4. c.alone => ReadInv(c)' /\ SyncInv(c)'
      BY <1>3, <3>2 DEF Good, ReadInv, SyncInv, Syncing, Seen
    <3> QED
      BY <3>3, <3>4 DEF Good
  <2> QED
    BY <2>1, <2>2
<1>17. file' \in [Days -> File] /\ rows' \in [Days -> Bodies] /\ sig' \in [Days -> Sig]
  BY <1>3, Typed
<1> QED
  BY <1>4, <1>7, <1>13, <1>15, <1>16, <1>17, Together

LEMMA SyncCalls ==
    ASSUME MemoryInv, NEW t \in Threads, NEW op \in Ops, NEW i \in Ids \cup {NoId}, SyncCall(t, op, i)
    PROVE  MemoryInv'
<1>1. PICK s: s = {d \in Days: file[d].there}
  OBVIOUS
<1>2. PICK r: r = [Idle EXCEPT !.op = op, !.pc = "snap", !.id = i, !.todo = s]
  OBVIOUS
<1>3. /\ r \in Call /\ r.op = op /\ r.pc = "snap" /\ r.id = i /\ r.todo = s /\ r.d = NoDay
      /\ op \in {"get", "search", "update", "delete"}
  <2>1. s \in SUBSET Days /\ op \in {"get", "search", "update", "delete"}
    BY <1>1 DEF SyncCall
  <2> QED
    BY <1>2, <2>1, NothingTyped, IdleFields DEF Call, Pcs
<1>4. op \in {"update", "delete"} => i \in Ids
  BY DEF SyncCall
<1>5. Good(r)
  BY <1>1, <1>3, <1>4 DEF Good, CallInv, ReadInv, SyncInv, Syncing
<1>6. Go(t, r) /\ db' = db /\ thr[t].pc = "idle"
  BY <1>1, <1>2 DEF SyncCall, At
<1>7. thr[t].pc \notin Holding /\ r.pc \notin Holding
  BY <1>3, <1>6 DEF Holding
<1> QED
  BY <1>3, <1>5, <1>6, <1>7, GoesOn DEF SyncCall

LEMMA Crashes == ASSUME MemoryInv, Crash PROVE MemoryInv'
<1>1. file' = file /\ rows' = rows /\ sig' = sig /\ home' = home /\ db' = NoThread
      /\ thr' = [t \in Threads |-> Idle]
  BY DEF Crash
<1>2. thr' \in [Threads -> Call] /\ \A u \in Threads: thr'[u] = Idle
  BY <1>1, NothingTyped
<1>3. Idle.pc \notin Holding
  BY IdleFields DEF Holding
<1>4. \A u \in Threads: db' = u <=> thr'[u].pc \in Holding
  BY <1>1, <1>2, <1>3
<1>5. \A u \in Threads: \A c: c = thr'[u] => Good(c)'
  <2>1. UNCHANGED <<file, sig, home>>
    BY <1>1
  <2>2. \A c: c = Idle => Good(c)
    BY IdleGood
  <2>3. \A c: Good(c) => Good(c)'
    BY <2>1, Unchanged
  <2> QED
    BY <1>2, <2>2, <2>3
<1>6. FileInv'
  BY <1>1, Typed DEF FileInv
<1> QED
  BY <1>1, <1>2, <1>4, <1>5, <1>6, Typed, Together


LEMMA Starts == ASSUME Init PROVE MemoryInv
<1>1. /\ file = [d \in Days |-> [there |-> FALSE, ver |-> 0, body |-> Empty]]
      /\ rows = [d \in Days |-> Empty] /\ sig = [d \in Days |-> NoSig] /\ db = NoThread
      /\ thr = [t \in Threads |-> Idle] /\ home = [i \in Ids |-> NoDay]
  BY DEF Init
<1>2. PICK f: f = [there |-> FALSE, ver |-> 0, body |-> Empty]
  OBVIOUS
<1>3. f \in File /\ f.there = FALSE /\ f.ver = 0 /\ f.body = Empty
  BY <1>2, NothingTyped DEF File
<1>4. \A d \in Days: file[d] = f
  BY <1>1, <1>2
<1>5. file \in [Days -> File]
  BY <1>1, <1>2, <1>3
<1>6. \A t \in Threads: thr[t] = Idle /\ thr[t].pc \notin Holding
  BY <1>1, IdleFields DEF Holding
<1>7. TypeOK
  BY <1>1, <1>5, <1>6, NothingTyped DEF TypeOK
<1>8. FileInv
  <2>1. \A d \in Days: file[d].there = FALSE /\ file[d].ver = 0 /\ file[d].body = Empty /\ sig[d] = NoSig
    BY <1>1, <1>3, <1>4
  <2>2. \A d \in Days: \A i \in Ids: file[d].body[i] = NoText
    BY <2>1, NothingTyped
  <2>3. \A d \in Days: sig[d].ver <= file[d].ver
    <3>1. NoSig.ver = 0 /\ 0 <= 0
      BY NothingTyped
    <3> QED
      BY <2>1, <3>1
  <2> QED
    BY <2>1, <2>2, <2>3 DEF FileInv
<1>9. \A t \in Threads: CallInv(thr[t]) /\ (thr[t].alone => ReadInv(thr[t]) /\ SyncInv(thr[t]))
  <2>1. ASSUME NEW t \in Threads, NEW c, c = thr[t] PROVE Good(c)
    BY <1>6, <2>1, IdleGood
  <2> QED
    BY <2>1 DEF Good
<1> QED
  BY <1>7, <1>8, <1>9 DEF MemoryInv

LEMMA StepKeeps == ASSUME MemoryInv, NEW t \in Threads, Step(t) PROVE MemoryInv'
<1>1. CASE WriteFails(t) \/ LockRefused(t)
  BY <1>1, Ends DEF WriteFails, LockRefused
<1> QED
  BY <1>1, Writes, Parses, Locks, Reads, Commits, Snaps, Purges, Compares, Touches, Syncs, Answers, Locates,
     LooksAtEach, ReadsAgain, Changes
  DEF Step

LEMMA NextKeeps == ASSUME MemoryInv, [Next]_vars PROVE MemoryInv'
<1>1. CASE UNCHANGED vars
  <2>1. file' = file /\ rows' = rows /\ sig' = sig /\ db' = db /\ thr' = thr /\ home' = home
    BY <1>1 DEF vars
  <2>2. \A u \in Threads: \A c: c = thr'[u] => Good(c)'
    <3>1. UNCHANGED <<file, sig, home>>
      BY <2>1
    <3>2. \A c: Good(c) => Good(c)'
      BY <3>1, Unchanged
    <3>3. \A u \in Threads: \A c: c = thr[u] => Good(c)
      <4>1. ASSUME NEW u \in Threads, NEW c, c = thr[u] PROVE Good(c)
        <5>1. Good(thr[u])
          BY Typed
        <5> QED
          BY <4>1, <5>1
      <4> QED
        BY <4>1
    <3> QED
      BY <2>1, <3>2, <3>3
  <2>3. FileInv'
    BY <2>1, Typed DEF FileInv
  <2> QED
    BY <2>1, <2>2, <2>3, Typed, Together
<1>2. CASE Next
  BY <1>2, StepKeeps, Adds, SyncCalls, Removes, Edits, Crashes DEF Next
<1> QED
  BY <1>1, <1>2

\* What a call has read, and what its sync has still to look at, agrees with the files as long as
\* nobody gets in its way.
THEOREM Invariance == Spec => []MemoryInv
<1>1. Init => MemoryInv
  BY Starts
<1>2. MemoryInv /\ [Next]_vars => MemoryInv'
  BY NextKeeps
<1> QED
  BY <1>1, <1>2, PTL DEF Spec


-----------------------------------------------------------------------------
(* What the runs check.                                                    *)

\* The index of a day with an up-to-date signature is, where it is sound, the day's text.
LEMMA SeenIsRead ==
    ASSUME MemoryInv, NEW d \in Days, Seen(d), Sound(d) PROVE rows[d] = file[d].body
<1>1. CASE file[d].there
  BY <1>1 DEF Seen, Sound
<1>2. CASE ~file[d].there
  <2>1. sig[d] = NoSig /\ file[d].body = Empty
    BY <1>2, OfFile DEF Seen
  <2> QED
    BY <2>1, NothingTyped DEF Sound
<1> QED
  BY <1>1, <1>2

\* A call that nobody has got in the way of answers from indexes that agree with the day files, if
\* they were sound: it has noticed every edit and every file that is gone, and what a call before it
\* did not get to index.
THEOREM Indexed == Spec => []IndexInv
<1>1. ASSUME MemoryInv PROVE IndexInv
  <2>1. ASSUME NEW t \in Threads, At(t, "select"), thr[t].alone, \A d \in Days: Sound(d), NEW e \in Days
        PROVE  rows[e] = file[e].body
    <3>1. SyncInv(thr[t])
      BY <1>1, <2>1 DEF MemoryInv
    <3>2. Seen(e)
      BY <2>1, <3>1 DEF SyncInv, At
    <3> QED
      BY <1>1, <2>1, <3>2, SeenIsRead
  <2> QED
    BY <1>1, <2>1 DEF IndexInv, AnswersFollowFiles
<1> QED
  BY <1>1, Invariance, PTL

\* A file's new version is of no signature.
LEMMA NewVersionSound ==
    ASSUME MemoryInv, NEW d \in Days, Sound(d), UNCHANGED <<rows, sig>>, file'[d].ver = file[d].ver + 1
    PROVE  Sound(d)'
<1>1. sig[d].ver # file[d].ver + 1
  BY OfFile
<1> QED
  BY <1>1 DEF Sound

LEMMA SameSound ==
    ASSUME NEW d \in Days, Sound(d), rows'[d] = rows[d], sig'[d] = sig[d], file'[d] = file[d]
    PROVE  Sound(d)'
BY DEF Sound

LEMMA StoredVersion ==
    ASSUME MemoryInv, NEW d \in Days, NEW e \in Days, NEW f, f.ver = file[d].ver + 1,
           file' = [file EXCEPT ![d] = f]
    PROVE  file'[e].ver = file[e].ver + 1 \/ file'[e] = file[e]
BY Typed

LEMMA FileStepsSound ==
    ASSUME MemoryInv, NEW d \in Days, NEW e \in Days, NEW f, f.ver = file[d].ver + 1,
           file' = [file EXCEPT ![d] = f], UNCHANGED <<rows, sig>>, Sound(e)
    PROVE  Sound(e)'
BY StoredVersion, NewVersionSound, SameSound

LEMMA CommitSound ==
    ASSUME MemoryInv, NEW t \in Threads, Commit(t), thr[t].alone, NEW e \in Days, Sound(e)
    PROVE  Sound(e)'
<1>1. PICK c: c = thr[t]
  OBVIOUS
<1>2. c \in Call /\ Good(c) /\ c.pc = "commit" /\ c.alone
  BY <1>1, Typed DEF Commit, At
<1>3. c.d \in Days /\ c.body = file[c.d].body /\ c.sha = file[c.d].body /\ c.ver = file[c.d].ver
  BY <1>2 DEF Good, CallInv, ReadInv
<1>4. /\ rows' = [rows EXCEPT ![c.d] = c.body] /\ file' = file
      /\ sig' = [sig EXCEPT ![c.d] = [ver |-> c.ver, body |-> c.sha]]
  BY <1>1 DEF Commit
<1>5. CASE e = c.d
  <2>1. rows'[e] = c.body /\ sig'[e].body = c.sha /\ file'[e] = file[e]
    BY <1>3, <1>4, <1>5, Typed
  <2> QED
    BY <1>3, <1>5, <2>1 DEF Sound
<1>6. CASE e # c.d
  <2>1. rows'[e] = rows[e] /\ sig'[e] = sig[e] /\ file'[e] = file[e]
    BY <1>4, <1>6, Typed
  <2> QED
    BY <2>1, SameSound
<1> QED
  BY <1>5, <1>6

LEMMA TouchSound ==
    ASSUME MemoryInv, NEW t \in Threads, Touch(t), thr[t].alone, NEW e \in Days, Sound(e)
    PROVE  Sound(e)'
<1>1. PICK c: c = thr[t]
  OBVIOUS
<1>2. c \in Call /\ Good(c) /\ c.pc = "touch" /\ c.alone
  BY <1>1, Typed DEF Touch, At
<1>3. c.d \in Days /\ sig[c.d].body = file[c.d].body
  BY <1>2 DEF Good, CallInv, ReadInv
<1>4. PICK v: v = IF sig[c.d].ver = 0 THEN 0 ELSE c.ver
  OBVIOUS
<1>5. sig \in [Days -> Sig] /\ sig' = [sig EXCEPT ![c.d] = [sig[c.d] EXCEPT !.ver = v]]
  BY <1>1, <1>3, <1>4, Typed DEF Touch
<1>6. rows' = rows /\ file' = file
  BY DEF Touch
<1>7. CASE e = c.d
  <2>1. sig[e] \in Sig /\ sig'[e] = [sig[e] EXCEPT !.ver = v]
    BY <1>3, <1>5, <1>7
  <2>2. sig'[e].body = sig[e].body
    BY <2>1 DEF Sig
  <2> QED
    BY <1>3, <1>6, <1>7, <2>2 DEF Sound
<1>8. CASE e # c.d
  <2>1. rows'[e] = rows[e] /\ sig'[e] = sig[e] /\ file'[e] = file[e]
    BY <1>5, <1>6, <1>8
  <2> QED
    BY <2>1, SameSound
<1> QED
  BY <1>7, <1>8

LEMMA PurgeSound ==
    ASSUME MemoryInv, NEW t \in Threads, Purge(t), NEW e \in Days, Sound(e)
    PROVE  Sound(e)'
<1>1. PICK gone: gone = Vanished(thr[t].snap, thr[t].todo)
  OBVIOUS
<1>2. /\ rows'[e] = IF e \in gone THEN Empty ELSE rows[e]
      /\ sig'[e] = IF e \in gone THEN NoSig ELSE sig[e]
      /\ file' = file
  BY <1>1 DEF Purge
<1>3. CASE e \in gone
  <2>1. rows'[e] = Empty /\ sig'[e].ver = 0 /\ sig'[e].body = Empty
    BY <1>2, <1>3, NothingTyped
  <2>2. file[e].ver = 0 => file[e].body = Empty
    BY OfFile
  <2> QED
    BY <1>2, <2>1, <2>2 DEF Sound
<1>4. CASE e \notin gone
  BY <1>2, <1>4, SameSound
<1> QED
  BY <1>3, <1>4


LEMMA AloneOrNot == ASSUME MemoryInv PROVE \A t \in Threads: thr[t].alone \in BOOLEAN
<1>1. \A t \in Threads: thr[t] \in Call
  BY Typed
<1> QED
  BY <1>1 DEF Call

\* A commit or a touch leaves the other days alone, and takes its thread elsewhere.
LEMMA EndsElsewhere ==
    ASSUME MemoryInv, NEW t \in Threads, Commit(t) \/ Touch(t)
    PROVE  /\ thr[t].pc \in {"commit", "touch"} /\ thr'[t].pc # thr[t].pc
           /\ \A e \in Days \ {thr[t].d}: Sound(e) => Sound(e)'
<1>1. PICK c: c = thr[t]
  OBVIOUS
<1>2. c \in Call /\ c.pc \in {"commit", "touch"}
  BY <1>1, Typed DEF Commit, Touch, At
<1>3. PICK r: r = Onward(t)
  OBVIOUS
<1>4. r.pc \notin {"commit", "touch"}
  <2>1. CASE c.then = "done"
    BY <1>1, <1>3, <2>1, IdleFields DEF Onward
  <2>2. CASE c.then # "done"
    <3>1. r = [c EXCEPT !.pc = c.then, !.d = NoDay, !.body = Empty, !.ver = 0, !.sha = Empty,
                        !.todo = @ \ {c.d}]
      BY <1>1, <1>3, <2>2 DEF Onward
    <3>2. r.pc = c.then /\ c.then \in {"done", "each", "again"}
      BY <1>2, <3>1 DEF Call
    <3> QED
      BY <3>2
  <2> QED
    BY <2>1, <2>2
<1>5. thr'[t] = r
  BY <1>3 DEF Commit, Touch, GoAndDisturb
<1>6. ASSUME NEW e \in Days \ {c.d}, Sound(e) PROVE Sound(e)'
  <2>1. rows'[e] = rows[e] /\ sig'[e] = sig[e] /\ file'[e] = file[e]
    BY <1>1, <1>6, Typed DEF Commit, Touch
  <2> QED
    BY <1>6, <2>1, SameSound
<1> QED
  BY <1>1, <1>2, <1>4, <1>5, <1>6

\* An index that is what its signature says stays so, except in the last step of a call about that day
\* which another call, or a person, has got in the way of.
THEOREM Spoiled == Spec => OnlyRacesSpoil
<1>1. MemoryInv /\ [Next]_vars =>
        [\A d \in Days: Sound(d) /\ ~Sound(d)' =>
            \E t \in Threads: /\ thr[t].pc \in {"commit", "touch"} /\ thr'[t].pc # thr[t].pc
                              /\ thr[t].d = d /\ ~thr[t].alone]_vars
  <2> SUFFICES ASSUME MemoryInv, Next, NEW e \in Days, Sound(e),
                      \A t \in Threads: thr[t].pc \in {"commit", "touch"} /\ thr'[t].pc # thr[t].pc
                                            /\ thr[t].d = e => thr[t].alone
               PROVE  Sound(e)'
    BY AloneOrNot
  <2>1. ASSUME NEW t \in Threads, Commit(t) PROVE Sound(e)'
    <3>1. thr[t].d = e => thr[t].alone
      BY <2>1, EndsElsewhere
    <3> QED
      BY <2>1, <3>1, EndsElsewhere, CommitSound
  <2>2. ASSUME NEW t \in Threads, Touch(t) PROVE Sound(e)'
    <3>1. thr[t].d = e => thr[t].alone
      BY <2>2, EndsElsewhere
    <3> QED
      BY <2>2, <3>1, EndsElsewhere, TouchSound
  <2>3. ASSUME NEW t \in Threads, Purge(t) PROVE Sound(e)'
    BY <2>3, PurgeSound
  <2>4. ASSUME NEW t \in Threads, Write(t) PROVE Sound(e)'
    <3>1. PICK d: d = thr[t].d
      OBVIOUS
    <3>2. d \in Days
      BY <2>4, <3>1, Typed DEF Write, At, Good, CallInv
    <3>3. PICK f: f = [there |-> TRUE, ver |-> file[d].ver + 1, body |-> thr[t].body]
      OBVIOUS
    <3>4. f.ver = file[d].ver + 1 /\ file' = [file EXCEPT ![d] = f] /\ UNCHANGED <<rows, sig>>
      BY <2>4, <3>1, <3>2, <3>3, Typed DEF Write, Stored
    <3> QED
      BY <3>2, <3>4, FileStepsSound
  <2>5. ASSUME NEW d \in Days, NEW b \in Bodies, Edit(d, b) PROVE Sound(e)'
    <3>1. PICK f: f = [there |-> TRUE, ver |-> file[d].ver + 1, body |-> b]
      OBVIOUS
    <3>2. f.ver = file[d].ver + 1 /\ file' = [file EXCEPT ![d] = f] /\ UNCHANGED <<rows, sig>>
      BY <2>5, <3>1, Typed DEF Edit, Stored
    <3> QED
      BY <3>2, FileStepsSound
  <2>6. ASSUME NEW d \in Days, Remove(d) PROVE Sound(e)'
    <3>1. PICK f: f = [there |-> FALSE, ver |-> file[d].ver + 1, body |-> Empty]
      OBVIOUS
    <3>2. f.ver = file[d].ver + 1 /\ file' = [file EXCEPT ![d] = f] /\ UNCHANGED <<rows, sig>>
      BY <2>6, <3>1, Typed DEF Remove
    <3> QED
      BY <3>2, FileStepsSound
  <2>7. CASE UNCHANGED <<file, rows, sig>>
    BY <2>7, SameSound
  <2>8. ASSUME NEW t \in Threads, Step(t) PROVE Sound(e)'
    <3>1. ASSUME WriteFails(t) \/ Parse(t) \/ Lock(t) \/ LockRefused(t) \/ Stat(t) \/ Digest(t) \/ Snap(t)
                 \/ Compare(t) \/ Synced(t) \/ Answer(t) \/ Ranked(t) \/ Locate(t)
                 \/ (\E d \in Days: Each(t, d) \/ Again(t, d))
                 \/ (\E ds \in SUBSET Days: Embed(t, ds))
                 \/ (\E x \in Texts \cup {NoText}: Entry(t, x))
          PROVE  UNCHANGED <<file, rows, sig>>
      BY <3>1 DEF WriteFails, Parse, Lock, LockRefused, Stat, Digest, Snap, Compare, Synced, Answer, Ranked, Locate,
                  Each, Again, Embed, Entry
    <3> QED
      BY <2>1, <2>2, <2>3, <2>4, <2>7, <2>8, <3>1 DEF Step
  <2>9. ASSUME NEW t \in Threads,
               \/ \E d \in Days, i \in Ids, x \in Texts: AddCall(t, d, i, x)
               \/ \E op \in Ops, i \in Ids \cup {NoId}: SyncCall(t, op, i)
        PROVE  UNCHANGED <<file, rows, sig>>
    BY <2>9 DEF AddCall, SyncCall
  <2>10. ASSUME Crash PROVE UNCHANGED <<file, rows, sig>>
    BY <2>10 DEF Crash
  <2> QED
    BY <2>5, <2>6, <2>7, <2>8, <2>9, <2>10 DEF Next
<1> QED
  BY <1>1, Invariance, PTL DEF Spec, OnlyRacesSpoil

\* A thread's step takes it alone to another place.
LEMMA Steps ==
    ASSUME NEW u \in Threads, Step(u) \/ (\E d \in Days, i \in Ids, x \in Texts: AddCall(u, d, i, x))
                              \/ (\E op \in Ops, i \in Ids \cup {NoId}: SyncCall(u, op, i))
    PROVE  \E r: Go(u, r) \/ GoAndDisturb(u, r)
<1>1. ASSUME Write(u) \/ Commit(u) \/ Purge(u) \/ Touch(u) PROVE \E r: GoAndDisturb(u, r)
  BY <1>1 DEF Write, Commit, Purge, Touch
<1>2. ASSUME WriteFails(u) \/ LockRefused(u) PROVE Go(u, Idle)
  BY <1>2 DEF WriteFails, LockRefused, Raise
<1>3. ASSUME Parse(u) \/ Lock(u) \/ Snap(u) \/ Synced(u) \/ Answer(u) \/ Ranked(u) \/ Locate(u)
      PROVE  \E r: Go(u, r)
  BY <1>3 DEF Parse, Lock, Snap, Synced, Answer, Ranked, Locate
<1>4. ASSUME Stat(u) \/ Digest(u) \/ Compare(u) PROVE \E r: Go(u, r)
  BY <1>4 DEF Stat, Digest, Compare, Raise
<1>5. ASSUME NEW d \in Days, Each(u, d) PROVE \E r: Go(u, r)
  BY <1>5 DEF Each, Raise
<1>6. ASSUME NEW d \in Days, Again(u, d) PROVE \E r: Go(u, r)
  BY <1>6 DEF Again
<1>7. ASSUME NEW ds, Embed(u, ds) PROVE \E r: Go(u, r)
  BY <1>7 DEF Embed
<1>8. ASSUME NEW x, Entry(u, x) PROVE \E r: Go(u, r)
  BY <1>8 DEF Entry
<1>9. ASSUME NEW d, NEW i, NEW x, AddCall(u, d, i, x) PROVE \E r: Go(u, r)
  BY <1>9 DEF AddCall
<1>10. ASSUME NEW op, NEW i, SyncCall(u, op, i) PROVE \E r: Go(u, r)
  BY <1>10 DEF SyncCall
<1> QED
  BY <1>1, <1>2, <1>3, <1>4, <1>5, <1>6, <1>7, <1>8, <1>9, <1>10 DEF Step

LEMMA DisturbedPc == ASSUME MemoryInv, NEW t \in Threads PROVE Disturbed(t).pc = thr[t].pc
<1>1. PICK c: c = thr[t]
  OBVIOUS
<1>2. c \in Call
  BY <1>1, Typed
<1>3. [c EXCEPT !.alone = FALSE].pc = c.pc
  BY <1>2 DEF Call
<1> QED
  BY <1>1, <1>3 DEF Disturbed

LEMMA OthersStay ==
    ASSUME MemoryInv, NEW u \in Threads, NEW t \in Threads, u # t, NEW r, Go(u, r) \/ GoAndDisturb(u, r)
    PROVE  thr'[t].pc = thr[t].pc
<1>1. CASE Go(u, r)
  BY <1>1, Typed DEF Go
<1>2. CASE GoAndDisturb(u, r)
  <2>1. thr'[t] = Disturbed(t)
    BY <1>2 DEF GoAndDisturb
  <2> QED
    BY <2>1, DisturbedPc
<1> QED
  BY <1>1, <1>2

\* A call comes from the write to the parse by writing.
LEMMA OnlyWrites ==
    ASSUME MemoryInv, Next, NEW t \in Threads, At(t, "write"), thr'[t].pc = "parse" PROVE Write(t)
<1>1. ASSUME NEW u \in Threads, Step(u) \/ (\E d \in Days, i \in Ids, x \in Texts: AddCall(u, d, i, x))
                                \/ (\E op \in Ops, i \in Ids \cup {NoId}: SyncCall(u, op, i))
      PROVE  Write(t)
  <2>1. u = t
    BY <1>1, Steps, OthersStay DEF At
  <2>2. ~(\E d \in Days, i \in Ids, x \in Texts: AddCall(t, d, i, x))
        /\ ~(\E op \in Ops, i \in Ids \cup {NoId}: SyncCall(t, op, i))
    BY DEF AddCall, SyncCall, At
  <2>3. ~WriteFails(t)
    <3>1. Go(t, Idle) => thr'[t] = Idle
      BY Typed DEF Go
    <3> QED
      BY <3>1, IdleFields DEF WriteFails, Raise
  <2>4. Step(t) => Write(t)
    BY <2>3 DEF Step, At, Parse, Lock, LockRefused, Stat, Digest, Commit, Snap, Purge, Compare, Touch, Synced,
                Answer, Ranked, Locate, Each, Again, Embed, Entry
  <2> QED
    BY <1>1, <2>1, <2>2, <2>4
<1>2. ASSUME NEW d \in Days, Remove(d) \/ \E b \in Bodies: Edit(d, b) PROVE FALSE
  <2>1. thr'[t] = Disturbed(t)
    BY <1>2 DEF Remove, Edit
  <2> QED
    BY <2>1, DisturbedPc DEF At
<1>3. ASSUME Crash PROVE FALSE
  <2>1. thr'[t] = Idle
    BY <1>3 DEF Crash
  <2> QED
    BY <2>1, IdleFields
<1> QED
  BY <1>1, <1>2, <1>3 DEF Next

\* A call that nobody got in the way of loses no entry but the one it was asked to change.
THEOREM Kept == Spec => LossOnlyByRace
<1>1. MemoryInv /\ [Next]_vars =>
        [\A t \in Threads, d \in Days, i \in Ids:
            At(t, "write") /\ thr'[t].pc = "parse" /\ thr[t].alone
               /\ file[d].body[i] # NoText /\ file'[d].body[i] # file[d].body[i]
            => thr[t].id = i /\ thr[t].op \in {"update", "delete"}]_vars
  <2> SUFFICES ASSUME MemoryInv, Next, NEW t \in Threads, NEW d \in Days, NEW i \in Ids,
                      At(t, "write"), thr'[t].pc = "parse", thr[t].alone,
                      file[d].body[i] # NoText, file'[d].body[i] # file[d].body[i]
               PROVE  thr[t].id = i /\ thr[t].op \in {"update", "delete"}
    OBVIOUS
  <2>1. Write(t)
    BY OnlyWrites
  <2>2. PICK c: c = thr[t]
    OBVIOUS
  <2>3. c \in Call /\ Good(c) /\ c.pc = "write" /\ c.alone
    BY <2>2, Typed DEF At
  <2>4. c.d \in Days /\ c.op \in {"add", "update", "delete"}
    BY <2>3 DEF Good, CallInv
  <2>5. /\ \A j \in Ids \ {c.id}: c.body[j] = file[c.d].body[j]
        /\ c.op = "add" => file[c.d].body[c.id] = NoText
    BY <2>3 DEF Good, ReadInv
  <2>6. file' = [file EXCEPT ![c.d] = [there |-> TRUE, ver |-> file[c.d].ver + 1, body |-> c.body]]
    BY <2>1, <2>2, <2>4, Typed DEF Write, Stored
  <2>7. d = c.d
    BY <2>6, Typed
  <2>8. file'[d].body = c.body
    BY <2>4, <2>6, <2>7, Typed
  <2>9. c.id = i
    BY <2>5, <2>7, <2>8
  <2> QED
    BY <2>2, <2>4, <2>5, <2>7, <2>9
<1> QED
  BY <1>1, Invariance, PTL DEF Spec, LossOnlyByRace
=============================================================================
