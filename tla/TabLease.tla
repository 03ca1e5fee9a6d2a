------------------------------ MODULE TabLease ------------------------------
(***************************************************************************)
(* The leases of Chromium tabs (mcp_server/tools_browser_semantic.py).     *)
(* Every browser tool runs in a thread of its own and takes a fail-fast    *)
(* lease of one tab: a re-entrant lock, and an entry in _LEASE_STATE that  *)
(* browser_list_tabs reports as busy.  browser_do holds its lease while it *)
(* calls tools that take it again.  Meanwhile a person uses the same       *)
(* Chromium, and pages navigate by themselves.                             *)
(*                                                                         *)
(* _RESOURCE_LOCKS holds its locks weakly.  A held lock is referenced by   *)
(* its holder, and a lock nobody references is free, so one lock per tab   *)
(* stands for all the objects a tab has in the course of time.             *)
(***************************************************************************)
EXTENDS Naturals, Sequences

CONSTANTS
    Tabs, NoTab, Threads, NoThread,
    Calls,       \* the tools clients call
    MaxDocs,     \* bound: documents a tab loads
    MaxActions,  \* bound: actions of one browser_do
    MaxQueries   \* actions of one browser_act that name their element by a query

ASSUME NoTabAssumption == NoTab \notin Tabs
ASSUME NoThreadAssumption == NoThread \notin Threads
ASSUME BoundsAssumption == {MaxDocs, MaxActions, MaxQueries} \subseteq Nat \ {0}

VARIABLES
    tab,     \* tab[x]: the page target; doc counts its documents, 0 before it is created; seen: the
             \* document's table of element ids has been filled by an observation
    lock,    \* lock[x]: the RLock, its holder and depth
    lease,   \* lease[x]: the entry of _LEASE_STATE
    thr      \* thr[t]: the call a thread runs, as the stack of its tools

vars == <<tab, lock, lease, thr>>

-----------------------------------------------------------------------------
Tools == {"do", "act", "find", "observe", "open", "activate", "close"}

Free == [by |-> NoThread, n |-> 0]

\* els: the documents of the elements that this browser_act has found, or was given with an
\* observation; bare: it names an element by its id alone; saw: the document its browser_find has
\* observed; given and inferred: the documents of the two observations it may expect, 0 for none;
\* ran: the page has run its batch; own: the tab was created by this call.
Idle == [tab |-> NoTab, stack |-> <<>>, raised |-> FALSE, els |-> {}, bare |-> FALSE, saw |-> 0,
         given |-> 0, inferred |-> 0, ran |-> FALSE, own |-> FALSE, acts |-> 0, queries |-> 0]

Init ==
    /\ \E first \in Tabs:
          tab = [x \in Tabs |-> IF x = first THEN [open |-> TRUE, doc |-> 1, seen |-> FALSE]
                                ELSE [open |-> FALSE, doc |-> 0, seen |-> FALSE]]
    /\ lock = [x \in Tabs |-> Free]
    /\ lease = [x \in Tabs |-> Free]
    /\ thr = [t \in Threads |-> Idle]

Top(t)      == Head(thr[t].stack)
Busy(t)     == thr[t].stack # <<>>
At(t, p)    == Busy(t) /\ Top(t).pc = p
In(t, f, p) == At(t, p) /\ Top(t).f = f
Within(t, f) == Len(thr[t].stack) > 1 /\ thr[t].stack[2].f = f
Page(t)     == tab[thr[t].tab]

Goto(t, p)  == thr' = [thr EXCEPT ![t].stack[1].pc = p]

\* Call another tool and go on at p when it has returned.
CallTool(t, f, p) ==
    [thr[t] EXCEPT !.stack = <<[f |-> f, pc |-> "target"], [@[1] EXCEPT !.pc = p]>> \o Tail(@)]

\* The tool on top is left, returning or raising.  No tool here handles an exception: it ends each
\* of them in turn, through the finally of those that have a lease.
Left(t, r) ==
    LET rest == Tail(thr[t].stack) IN
    IF rest = <<>> \/ (r /\ rest[1].pc \in {"target", "return"}) THEN Idle
    ELSE [thr[t] EXCEPT !.stack = IF r THEN [rest EXCEPT ![1].pc = "unmark"] ELSE rest,
                        !.raised = r]

Leave(t)  == thr' = [thr EXCEPT ![t] = Left(t, thr[t].raised)]
Refuse(t) == thr' = [thr EXCEPT ![t] = Left(t, TRUE)]
Raise(t)  == thr' = [thr EXCEPT ![t].stack[1].pc = "unmark", ![t].raised = TRUE]

-----------------------------------------------------------------------------
(* _tab_lease.                                                             *)

\* _target(tab_id): the tab must be there.
Target(t) ==
    /\ At(t, "target")
    /\ IF Page(t).open THEN Goto(t, "lock") ELSE Refuse(t)
    /\ UNCHANGED <<tab, lock, lease>>

\* Mutant: whoever comes gets it.
AcquireAnyway(t) ==
    /\ At(t, "lock")
    /\ lock' = [lock EXCEPT ![thr[t].tab] = [by |-> t, n |-> @.n + 1]] /\ Goto(t, "mark")
    /\ UNCHANGED <<tab, lease>>

\* lock.acquire(blocking=False), or 409 tab_busy.
Acquire(t) ==
    /\ At(t, "lock")
    /\ IF lock[thr[t].tab].by \in {NoThread, t}
       THEN lock' = [lock EXCEPT ![thr[t].tab] = [by |-> t, n |-> @.n + 1]] /\ Goto(t, "mark")
       ELSE Refuse(t) /\ UNCHANGED lock
    /\ UNCHANGED <<tab, lease>>

\* Mutant: the depth is not counted.
MarkOnce(t) ==
    /\ At(t, "mark")
    /\ lease' = [lease EXCEPT ![thr[t].tab] = [by |-> t, n |-> 1]]
    /\ Goto(t, "enter") /\ UNCHANGED <<tab, lock>>

Mark(t) ==
    /\ At(t, "mark")
    /\ lease' = [lease EXCEPT ![thr[t].tab] = [by |-> t, n |-> IF @.by = t THEN @.n + 1 ELSE 1]]
    /\ Goto(t, "enter") /\ UNCHANGED <<tab, lock>>

\* The tab is looked up again under the lease.
Enter(t) ==
    /\ At(t, "enter")
    /\ IF Page(t).open THEN Goto(t, "run") ELSE Raise(t)
    /\ UNCHANGED <<tab, lock, lease>>

\* The finally of the lease: the entry ...
Unmark(t) ==
    /\ At(t, "unmark")
    /\ lease' = [lease EXCEPT ![thr[t].tab] = IF @.by # t THEN @
                                              ELSE IF @.n > 1 THEN [by |-> t, n |-> @.n - 1]
                                              ELSE Free]
    /\ Goto(t, "release") /\ UNCHANGED <<tab, lock>>

\* Mutant: no finally.
ReleaseReturning(t) ==
    /\ At(t, "release")
    /\ lock' = [lock EXCEPT ![thr[t].tab] = IF thr[t].raised THEN @
                                            ELSE IF @.n = 1 THEN Free ELSE [by |-> t, n |-> @.n - 1]]
    /\ Leave(t) /\ UNCHANGED <<tab, lease>>

\* ... and then the lock.
Release(t) ==
    /\ At(t, "release")
    /\ lock' = [lock EXCEPT ![thr[t].tab] = IF @.n = 1 THEN Free ELSE [by |-> t, n |-> @.n - 1]]
    /\ Leave(t) /\ UNCHANGED <<tab, lease>>

-----------------------------------------------------------------------------
(* The tools.  A DevTools command fails when the tab is gone, and may fail *)
(* anyway: it has a time limit.                                            *)

\* A client names a tab it knows, or has the first of the list, and perhaps an element by its id.
Call(t, f, x) ==
    /\ ~Busy(t) /\ f \in Calls /\ tab[x].doc > 0
    /\ \E b \in {FALSE, f = "act"}:
          thr' = [thr EXCEPT ![t] = [Idle EXCEPT !.tab = x, !.bare = b,
                                                !.stack = <<[f |-> f, pc |-> "target"]>>]]
    /\ UNCHANGED <<tab, lock, lease>>

\* browser_act with elements of document d, and the observation_id they were found under.
CallObserved(t, x, d) ==
    /\ ~Busy(t) /\ "act" \in Calls
    /\ d \in 1..tab[x].doc /\ (d = tab[x].doc => tab[x].seen)
    /\ thr' = [thr EXCEPT ![t] = [Idle EXCEPT !.tab = x, !.els = {d}, !.given = d,
                                              !.stack = <<[f |-> "act", pc |-> "target"]>>]]
    /\ UNCHANGED <<tab, lock, lease>>

\* browser_open_url and browser_do with new_tab create their tab before any lease.
CallNew(t, f, x) ==
    /\ ~Busy(t) /\ f \in Calls \cap {"do", "open"} /\ tab[x].doc = 0
    /\ tab' = [tab EXCEPT ![x].open = TRUE, ![x].doc = 1]
    /\ thr' = [thr EXCEPT ![t] = [Idle EXCEPT !.tab = x, !.own = TRUE,
                                              !.stack = <<[f |-> f, pc |-> "created"]>>]]
    /\ UNCHANGED <<lock, lease>>

\* In the foreground the new tab is activated, under a lease of its own.
Created(t, front) ==
    /\ At(t, "created")
    /\ LET next == IF Top(t).f = "do" THEN "target" ELSE "return" IN
       IF front THEN thr' = [thr EXCEPT ![t] = CallTool(t, "activate", next)]
                ELSE Goto(t, next)
    /\ UNCHANGED <<tab, lock, lease>>

Return(t) == At(t, "return") /\ Leave(t) /\ UNCHANGED <<tab, lock, lease>>

\* A command may load a new document: at once, or later (Navigates).
MayNavigate(x) ==
    \/ UNCHANGED tab
    \/ /\ tab[x].doc < MaxDocs
       /\ tab' = [tab EXCEPT ![x].doc = @ + 1, ![x].seen = FALSE]

Observed(x) == tab' = [tab EXCEPT ![x].seen = TRUE]

\* The step of a tool's own: any command of it may fail, an observation after it was made.
Fails(t) ==
    /\ Busy(t) /\ Top(t).pc \in {"run", "busy", "acted"} /\ Raise(t)
    /\ \/ UNCHANGED tab
       \/ In(t, "observe", "run") /\ Page(t).open /\ Observed(thr[t].tab)
    /\ UNCHANGED <<lock, lease>>

ObserveRuns(t) ==
    /\ In(t, "observe", "run") /\ Page(t).open
    /\ Observed(thr[t].tab)
    /\ thr' = [thr EXCEPT ![t].stack[1].pc = "unmark",
                          ![t].saw = IF Within(t, "find") THEN Page(t).doc ELSE @]
    /\ UNCHANGED <<lock, lease>>

FindRuns(t) ==
    /\ In(t, "find", "run") /\ thr' = [thr EXCEPT ![t] = CallTool(t, "observe", "rank")]
    /\ UNCHANGED <<tab, lock, lease>>

\* An element of the observation is the best match; without one, browser_act raises (Fails).
FindRanks(t) ==
    /\ In(t, "find", "rank")
    /\ thr' = [thr EXCEPT ![t].stack[1].pc = "unmark", ![t].saw = 0,
                          ![t].els = IF Within(t, "act") THEN @ \cup {thr[t].saw} ELSE @,
                          ![t].inferred = IF Within(t, "act") THEN thr[t].saw ELSE @]
    /\ UNCHANGED <<tab, lock, lease>>

\* _resolve_actions finds the elements of a batch one after the other; browser_do's has one action.
ActResolves(t) ==
    /\ In(t, "act", "run") /\ thr[t].queries < MaxQueries
    /\ Within(t, "do") => thr[t].queries = 0 /\ ~thr[t].bare
    /\ thr' = [thr EXCEPT ![t] = [CallTool(t, "find", "run") EXCEPT !.queries = @ + 1]]
    /\ UNCHANGED <<tab, lock, lease>>

\* What the batch runs on, in one piece: one of its actions may navigate.
ActPage(t) ==
    /\ MayNavigate(thr[t].tab)
    /\ thr' = [thr EXCEPT ![t].stack[1].pc = "acted", ![t].ran = TRUE]
    /\ UNCHANGED <<lock, lease>>

\* Mutant: whatever was observed.
ActUnchecked(t) == In(t, "act", "run") /\ Page(t).open /\ ActPage(t)

\* The page knows the observations of its own document; the one given is preferred to the one
\* that the last query has made.  Without either nothing is compared.  Ids count from e1 in each
\* document, so a bare id names an element as soon as the document has been observed.
Expected(t) == IF thr[t].given # 0 THEN thr[t].given ELSE thr[t].inferred
Fits(t)     == Expected(t) \in {0, Page(t).doc} /\ (thr[t].bare => Page(t).seen)

ActRuns(t) == In(t, "act", "run") /\ Page(t).open /\ Fits(t) /\ ActPage(t)

\* stale_observation: the page does nothing.  stale_element: it stops at that action; what it has done
\* before is left out, but for the navigation there may be (Navigates).
ActStale(t) ==
    /\ In(t, "act", "run") /\ Page(t).open /\ ~Fits(t)
    /\ Goto(t, "acted") /\ UNCHANGED <<tab, lock, lease>>

\* return_state; browser_do asks for none.
ActEnds(t, state) ==
    /\ In(t, "act", "acted")
    /\ LET call == IF state /\ ~Within(t, "do") THEN CallTool(t, "observe", "unmark")
                   ELSE [thr[t] EXCEPT !.stack[1].pc = "unmark"]
       IN thr' = [thr EXCEPT ![t] = [call EXCEPT !.els = {}, !.bare = FALSE, !.given = 0,
                                                 !.inferred = 0, !.ran = FALSE, !.queries = 0]]
    /\ UNCHANGED <<tab, lock, lease>>

OpenRuns(t, front) ==
    /\ In(t, "open", "run") /\ Page(t).open /\ MayNavigate(thr[t].tab)
    /\ IF front THEN thr' = [thr EXCEPT ![t] = CallTool(t, "activate", "unmark")]
                ELSE Goto(t, "unmark")
    /\ UNCHANGED <<lock, lease>>

ActivateRuns(t) ==
    /\ In(t, "activate", "run") /\ Goto(t, "unmark") /\ UNCHANGED <<tab, lock, lease>>

CloseRuns(t) ==
    /\ In(t, "close", "run")
    /\ tab' = [tab EXCEPT ![thr[t].tab].open = FALSE]
    /\ Goto(t, "unmark") /\ UNCHANGED <<lock, lease>>

\* browser_do under its lease: navigate a tab it has not created, act and wait, observe, close.
DoOpens(t) ==
    /\ In(t, "do", "run")
    /\ \/ Goto(t, "busy")
       \/ ~thr[t].own /\ thr' = [thr EXCEPT ![t] = CallTool(t, "open", "busy")]
    /\ UNCHANGED <<tab, lock, lease>>

\* One action each, which may name its element by an id, and never with an observation.
DoActs(t) ==
    /\ In(t, "do", "busy") /\ thr[t].acts < MaxActions
    /\ \E b \in BOOLEAN:
          thr' = [thr EXCEPT ![t] = [CallTool(t, "act", "busy") EXCEPT !.acts = @ + 1, !.bare = b]]
    /\ UNCHANGED <<tab, lock, lease>>

DoObserves(t) ==
    /\ In(t, "do", "busy")
    /\ \/ Goto(t, "end")
       \/ thr' = [thr EXCEPT ![t] = CallTool(t, "observe", "end")]
    /\ UNCHANGED <<tab, lock, lease>>

DoEnds(t) ==
    /\ In(t, "do", "end")
    /\ \/ Goto(t, "unmark")
       \/ thr[t].own /\ thr' = [thr EXCEPT ![t] = CallTool(t, "close", "unmark")]
    /\ UNCHANGED <<tab, lock, lease>>

-----------------------------------------------------------------------------
(* Chromium and the person before it.                                      *)

Navigates(x) ==
    /\ tab[x].open /\ tab[x].doc < MaxDocs
    /\ tab' = [tab EXCEPT ![x].doc = @ + 1, ![x].seen = FALSE]
    /\ UNCHANGED <<lock, lease, thr>>

UserCloses(x) ==
    /\ tab[x].open /\ tab' = [tab EXCEPT ![x].open = FALSE]
    /\ UNCHANGED <<lock, lease, thr>>

-----------------------------------------------------------------------------
Step(t) ==
    \/ Target(t) \/ Acquire(t) \/ Mark(t) \/ Enter(t) \/ Unmark(t) \/ Release(t)
    \/ (\E b \in BOOLEAN: Created(t, b) \/ ActEnds(t, b) \/ OpenRuns(t, b))
    \/ Return(t) \/ Fails(t)
    \/ ObserveRuns(t) \/ FindRuns(t) \/ FindRanks(t) \/ ActResolves(t) \/ ActRuns(t)
    \/ ActStale(t) \/ ActivateRuns(t) \/ CloseRuns(t)
    \/ DoOpens(t) \/ DoActs(t) \/ DoObserves(t) \/ DoEnds(t)

Next ==
    \/ \E t \in Threads: Step(t)
    \/ \E t \in Threads, f \in Tools, x \in Tabs:
          CallNew(t, f, x) \/ Call(t, f, x)
    \/ \E t \in Threads, x \in Tabs, d \in 1..MaxDocs: CallObserved(t, x, d)
    \/ \E x \in Tabs: Navigates(x) \/ UserCloses(x)

Spec == Init /\ [][Next]_vars

-----------------------------------------------------------------------------
Pcs == {"target", "lock", "mark", "enter", "run", "rank", "acted", "busy", "end", "unmark", "release",
        "created", "return"}

Frame == [f: Tools, pc: Pcs]

TabState == [open: BOOLEAN, doc: 0..MaxDocs, seen: BOOLEAN]

ThreadState ==
    [tab: Tabs \cup {NoTab}, stack: Seq(Frame), raised: BOOLEAN, els: SUBSET (1..MaxDocs),
     bare: BOOLEAN, saw: 0..MaxDocs, given: 0..MaxDocs, inferred: 0..MaxDocs, ran: BOOLEAN, own: BOOLEAN,
     acts: 0..MaxActions, queries: 0..MaxQueries]

TypeOK ==
    /\ tab \in [Tabs -> TabState]
    /\ lock \in [Tabs -> [by: Threads \cup {NoThread}, n: 0..4]]
    /\ lease \in [Tabs -> [by: Threads \cup {NoThread}, n: 0..4]]
    /\ thr \in [Threads -> ThreadState]

\* Some tool of the thread is inside its lease.
Inside(t) == \E i \in 1..Len(thr[t].stack):
                thr[t].stack[i].pc \in {"run", "rank", "acted", "busy", "end"}

\* Two callers are never at work on the same tab, however their tools nest, refuse and fail: nobody
\* takes over another caller's work (README.md:115).
Exclusive ==
    \A t, u \in Threads: t # u /\ Inside(t) /\ Inside(u) => thr[t].tab # thr[u].tab

\* browser_list_tabs reports a tab busy while a caller works on it, and only then (README.md:115):
\* the inner tools of a browser_do do not take its entry away.
BusyWhileUsed ==
    /\ \A t \in Threads: Inside(t) => lease[thr[t].tab].by = t
    /\ \A x \in Tabs: lease[x].by # NoThread => lease[x].by = lock[x].by

\* What a query has found, or was named under an observation, is not acted on in another document,
\* though ids begin anew in each: the page refuses an old observation ("observation_id protects
\* against stale page observations after navigation/reload", README.md:97).  Two things are not
\* protected.  In a batch with two queries and no observation_id, _resolve_actions forgets the
\* observation of the first query (line 444).  And an id without an observation_id is compared with
\* nothing (455-457), whether it comes alone, beside a query, whose observation then speaks for an
\* element it has not seen, or through browser_do, which passes no observation (763): such ids
\* (bare) have no document in this model, and nothing is claimed of them.
ElementsOfThisDocument ==
    [][\A t \in Threads:
          In(t, "act", "run") /\ thr'[t].ran /\ (thr[t].given # 0 \/ thr[t].queries <= 1) =>
             \A d \in thr[t].els: d = Page(t).doc]_vars

\* Whatever fails on the way, a call gives back all it has taken: only a thread that is at work
\* holds a lock, and only that of its tab.
NothingKept ==
    \A x \in Tabs: lock[x].by # NoThread => Busy(lock[x].by) /\ thr[lock[x].by].tab = x

\* Where a tool holds the lock, and where its hold is in the entry.
Holding == {"mark", "enter", "run", "rank", "acted", "busy", "end", "unmark", "release"}
Marked  == Holding \ {"mark", "release"}

\* The tools that f calls.
Callees(f) ==
    CASE f = "do"   -> {"act", "open", "activate", "observe", "close"}
      [] f = "act"  -> {"find", "observe"}
      [] f = "find" -> {"observe"}
      [] f = "open" -> {"activate"}
      [] OTHER      -> {}

\* A tool that waits for another one is inside its lease or about to leave it; or it has created a
\* tab, has no lease yet, and is the one that was called first.
StackInv(s) ==
    \A i \in 1..Len(s):
        /\ s[i].pc \in {"created", "return"} => i = Len(s)
        /\ i > 1 => /\ s[i - 1].f \in Callees(s[i].f)
                    /\ \/ s[i].pc \in {"run", "rank", "busy", "end", "unmark"}
                       \/ s[i].pc \in {"target", "return"} /\ i = Len(s)

\* How many tools of stack s are at one of the points P of a lease: all, but perhaps the one on top
\* and the one at the bottom.
Count(s, P) ==
    Len(s) - (IF s # <<>> /\ s[1].pc \notin P THEN 1 ELSE 0)
           - (IF Len(s) > 1 /\ s[Len(s)].pc \in {"target", "return"} THEN 1 ELSE 0)

\* m[x] says which of the threads, in state th, is how deep in x.
Counted(m, th, P) ==
    \A x \in Tabs:
        /\ m[x].by = NoThread => m[x] = Free
        /\ \A t \in Threads:
              IF th[t].tab = x /\ Count(th[t].stack, P) > 0
              THEN m[x] = [by |-> t, n |-> Count(th[t].stack, P)]
              ELSE m[x].by # t

\* A thread at work has a tab that was created, its tools end once one has raised, and a batch that
\* has run is reported.
CallInv(t) ==
    /\ Busy(t) => thr[t].tab \in Tabs /\ Page(t).doc > 0
    /\ ~Busy(t) => thr[t] = Idle
    /\ StackInv(thr[t].stack)
    /\ thr[t].raised => Top(t).pc \in {"unmark", "release"}
    /\ thr[t].ran => thr[t].raised \/ Top(t).pc = "acted"
    /\ At(t, "created") => Top(t).f \in {"do", "open"}

\* The browser_find of a batch has yet to add its element.
Finding(t) ==
    \E i \in 1..(Len(thr[t].stack) - 1):
        /\ thr[t].stack[i].f = "find"
        /\ thr[t].stack[i].pc \in {"target", "lock", "mark", "enter", "run", "rank"}

\* The elements of a batch are of documents from the one that was given to the one there is; without
\* one given, the element of a first query is of the document that is expected.
ElementInv(t) ==
    /\ thr[t].given <= Page(t).doc
    /\ \A d \in thr[t].els \cup ({thr[t].saw} \ {0}): thr[t].given <= d /\ d <= Page(t).doc
    /\ thr[t].given = 0 /\ thr[t].queries = 0 => thr[t].els = {}
    /\ Finding(t) => thr[t].queries > 0
    /\ thr[t].given = 0 /\ thr[t].queries = 1 =>
          thr[t].els \subseteq (IF Finding(t) THEN {} ELSE {thr[t].inferred})
    \* What browser_find ranks it has observed.
    /\ In(t, "find", "rank") => thr[t].saw # 0
    /\ Within(t, "find") /\ Top(t).pc \in {"unmark", "release"} => thr[t].raised \/ thr[t].saw # 0

LeaseInv ==
    /\ TypeOK /\ NothingKept
    /\ \A x \in Tabs: tab[x].open => tab[x].doc > 0
    /\ Counted(lock, thr, Holding) /\ Counted(lease, thr, Marked)
    /\ \A t \in Threads: CallInv(t) /\ (Busy(t) => ElementInv(t))
=============================================================================
