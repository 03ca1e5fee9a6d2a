-------------------------- MODULE SelfDeployProofs --------------------------
(***************************************************************************)
(* Proofs about SelfDeploy, for any files, any number of deployments that  *)
(* may overlap, and every way a restart may treat their helpers.           *)
(***************************************************************************)
EXTENDS SelfDeploy, TLAPS

\* Contents of files: the versions, no file, and a file half written.
LEMMA Bounds ==
    /\ MaxVersion \in Nat /\ 1 \in 0..MaxVersion /\ 1 \in 1..MaxVersion
    /\ Gone \in 0..MaxVersion /\ Gone \in Contents /\ Torn \in Contents
    /\ 0..MaxVersion \subseteq Contents
BY VersionAssumption DEF Gone, Torn, Contents

-----------------------------------------------------------------------------
(* How the actions write the helpers' states.                              *)

\* A step of other helpers' or of this one leaves it all but its pc.
Keeps(d) ==
    /\ helper'[d].todo = helper[d].todo /\ helper'[d].copied = helper[d].copied
    /\ helper'[d].existed = helper[d].existed /\ helper'[d].kept = helper[d].kept
    /\ helper'[d].was = helper[d].was /\ helper'[d].alone = helper[d].alone

\* A helper that goes on to p, and nothing else of it.
LEMMA Moved ==
    ASSUME TypeOK, NEW d \in Deployments, NEW p \in Pcs, Move(d, p)
    PROVE  /\ helper' \in [Deployments -> HelperState]
           /\ helper'[d].pc = p
           /\ \A e \in Deployments: Keeps(e)
           /\ \A e \in Deployments \ {d}: helper'[e] = helper[e]
BY DEF TypeOK, Move, HelperState, Keeps

\* What a restart leaves of a helper: all but, perhaps, its life.
LEMMA KilledHelper ==
    ASSUME NEW h \in HelperState, NEW k
    PROVE  /\ Killed(h, k) \in HelperState
           /\ Killed(h, k).pc \in {h.pc, "dead"}
           /\ Killed(h, k).todo = h.todo /\ Killed(h, k).copied = h.copied
           /\ Killed(h, k).existed = h.existed /\ Killed(h, k).kept = h.kept
           /\ Killed(h, k).was = h.was /\ Killed(h, k).alone = h.alone
<1>1. "dead" \in Pcs
  BY DEF Pcs, Quiet
<1> QED
  BY <1>1 DEF Killed, HelperState

\* A systemctl restart moves its helper to p and may end every helper there is.
LEMMA RestartMoves ==
    ASSUME TypeOK, NEW d \in Deployments, NEW p \in Pcs, NEW k,
           helper' = [e \in Deployments |-> Killed([helper EXCEPT ![d].pc = p][e], k)]
    PROVE  /\ helper' \in [Deployments -> HelperState]
           /\ helper'[d].pc \in {p, "dead"}
           /\ \A e \in Deployments: Keeps(e)
           /\ \A e \in Deployments \ {d}: helper'[e].pc \in {helper[e].pc, "dead"}
<1>1. PICK h \in HelperState: h = [helper[d] EXCEPT !.pc = p]
  BY ZenonT(60) DEF TypeOK, HelperState
<1>2. /\ h.pc = p /\ h.todo = helper[d].todo /\ h.copied = helper[d].copied
      /\ h.existed = helper[d].existed /\ h.kept = helper[d].kept
      /\ h.was = helper[d].was /\ h.alone = helper[d].alone
  BY <1>1 DEF TypeOK, HelperState
<1>3. \A e \in Deployments: helper'[e] = Killed(IF e = d THEN h ELSE helper[e], k)
  BY <1>1 DEF TypeOK
<1>4. helper'[d] = Killed(h, k) /\ \A e \in Deployments \ {d}: helper'[e] = Killed(helper[e], k)
  BY <1>3
<1>5. \A e \in Deployments: helper[e] \in HelperState
  BY DEF TypeOK
<1>6. Keeps(d) /\ helper'[d].pc \in {p, "dead"} /\ helper'[d] \in HelperState
  BY <1>2, <1>4, KilledHelper DEF Keeps
<1>7. ASSUME NEW e \in Deployments \ {d}
      PROVE  Keeps(e) /\ helper'[e].pc \in {helper[e].pc, "dead"} /\ helper'[e] \in HelperState
  BY <1>4, <1>5, KilledHelper DEF Keeps
<1> QED
  BY <1>6, <1>7

\* systemctl, whether or not it restarts the server: a helper that goes on is at p, and with a
\* success the server has loaded the runtime.
LEMMA SystemctlMoves ==
    ASSUME TypeOK, NEW d \in Deployments, NEW b \in BOOLEAN, NEW p \in Pcs, Systemctl(d, b, p)
    PROVE  /\ helper' \in [Deployments -> HelperState]
           /\ helper'[d].pc \in {p, "dead"}
           /\ \A e \in Deployments: Keeps(e)
           /\ \A e \in Deployments \ {d}: helper'[e].pc \in {helper[e].pc, "dead"}
           /\ service' \in [up: BOOLEAN, code: [Files -> Contents]]
           /\ service'.code = runtime \/ (~b /\ service' = service)
<1>1. CASE Restarted(b) /\ \E k \in Kills:
              helper' = [e \in Deployments |-> Killed([helper EXCEPT ![d].pc = p][e], k)]
  <2>1. PICK k \in Kills: helper' = [e \in Deployments |-> Killed([helper EXCEPT ![d].pc = p][e], k)]
    BY <1>1
  <2>2. service' \in [up: BOOLEAN, code: [Files -> Contents]] /\ service'.code = runtime
    BY <1>1 DEF Restarted, TypeOK
  <2> QED
    BY <2>1, <2>2, RestartMoves
<1>2. CASE ~b /\ helper' = [helper EXCEPT ![d].pc = p] /\ UNCHANGED service
  <2>1. Move(d, p)
    BY <1>2 DEF Move
  <2>2. service' \in [up: BOOLEAN, code: [Files -> Contents]] /\ ~b /\ service' = service
    BY <1>2 DEF TypeOK
  <2> QED
    BY <2>1, <2>2, Moved
<1> QED
  BY <1>1, <1>2 DEF Systemctl

\* The restart after the copy: on to the health check, or to the rollback.
LEMMA RestartStep ==
    ASSUME TypeOK, NEW d \in Deployments, NEW b \in BOOLEAN, Restart(d, b)
    PROVE  /\ helper' \in [Deployments -> HelperState]
           /\ helper'[d].pc \in {"health", "failed", "dead"}
           /\ \A e \in Deployments: Keeps(e)
           /\ \A e \in Deployments \ {d}: helper'[e].pc \in {helper[e].pc, "dead"}
           /\ service' \in [up: BOOLEAN, code: [Files -> Contents]]
           /\ service'.code = runtime \/ (helper'[d].pc # "health" /\ service' = service)
<1>1. PICK p \in {"health", "failed"}: p = IF b THEN "health" ELSE "failed"
  OBVIOUS
<1>2. Systemctl(d, b, p)
  BY <1>1 DEF Restart
<1>3. p \in Pcs
  BY DEF Pcs
<1> QED
  BY <1>1, <1>2, <1>3, SystemctlMoves

\* The restart after the rollback: on to the last health check.
LEMMA UndoRestartStep ==
    ASSUME TypeOK, NEW d \in Deployments, NEW b \in BOOLEAN, UndoRestart(d, b)
    PROVE  /\ helper' \in [Deployments -> HelperState]
           /\ helper'[d].pc \in {"verify", "dead"}
           /\ \A e \in Deployments: Keeps(e)
           /\ \A e \in Deployments \ {d}: helper'[e].pc \in {helper[e].pc, "dead"}
           /\ service' \in [up: BOOLEAN, code: [Files -> Contents]]
           /\ service'.code = runtime \/ (helper'[d].pc # "health" /\ service' = service)
<1>1. Systemctl(d, b, "verify")
  BY DEF UndoRestart
<1>2. "verify" \in Pcs
  BY DEF Pcs
<1> QED
  BY <1>1, <1>2, SystemctlMoves

\* A restart of the service for other reasons may end helpers and changes nothing else of them.
LEMMA ServiceRestartMoves ==
    ASSUME TypeOK, ServiceRestart
    PROVE  /\ helper' \in [Deployments -> HelperState]
           /\ \A e \in Deployments: Keeps(e) /\ helper'[e].pc \in {helper[e].pc, "dead"}
<1>1. PICK k \in Kills: helper' = [e \in Deployments |-> Killed(helper[e], k)]
  BY DEF ServiceRestart
<1> QED
  BY <1>1, KilledHelper DEF TypeOK, Keeps

\* A new deployment has touched nothing; it is alone only if no other is under way.
LEMMA Started ==
    ASSUME TypeOK, NEW d \in Deployments, Start(d)
    PROVE  /\ helper' \in [Deployments -> HelperState]
           /\ helper'[d].pc = "copy" /\ ~helper'[d].kept /\ helper'[d].was = runtime
           /\ helper'[d].copied = {} /\ helper'[d].existed = {}
           /\ helper'[d].alone => \A e \in Deployments \ {d}: ~Active(e)
           /\ \A e \in Deployments \ {d}: /\ helper'[e].pc = helper[e].pc
                                          /\ ~helper'[e].alone \/ ~Active(e)
<1> DEFINE others == {e \in Deployments \ {d}: Active(e)}
           fresh == [NoHelper EXCEPT !.pc = "copy", !.was = runtime,
                                     !.todo = {f \in Files: repo[f] # Gone},
                                     !.alone = others = {}]
<1>1. helper' = [e \in Deployments |-> IF e = d THEN fresh
                                        ELSE IF e \in others THEN [helper[e] EXCEPT !.alone = FALSE]
                                        ELSE helper[e]]
  BY DEF Start
<1>2. /\ fresh \in HelperState
      /\ fresh.pc = "copy" /\ ~fresh.kept /\ fresh.was = runtime /\ fresh.copied = {}
      /\ fresh.existed = {} /\ (fresh.alone <=> others = {})
  <2>1. "copy" \in Pcs /\ {f \in Files: repo[f] # Gone} \in SUBSET Files /\ (others = {}) \in BOOLEAN
    BY DEF Pcs
  <2>2. PICK t: t = {f \in Files: repo[f] # Gone}
    OBVIOUS
  <2>3. PICK a \in BOOLEAN: a = (others = {})
    BY <2>1
  <2>4. fresh = [NoHelper EXCEPT !.pc = "copy", !.was = runtime, !.todo = t, !.alone = a]
    BY <2>2, <2>3, Zenon
  <2> HIDE DEF fresh
  <2>5. fresh = [pc |-> "copy", todo |-> t, copied |-> {}, existed |-> {}, kept |-> FALSE,
                 was |-> runtime, alone |-> a]
    BY <2>4 DEF NoHelper
  <2> QED
    BY <2>1, <2>2, <2>3, <2>5 DEF HelperState, TypeOK
<1> HIDE DEF fresh
<1>3. helper'[d] = fresh /\ \A e \in Deployments \ {d}:
         helper'[e] = IF e \in others THEN [helper[e] EXCEPT !.alone = FALSE] ELSE helper[e]
  BY <1>1
<1>4. ASSUME NEW e \in Deployments \ {d}
      PROVE  /\ helper'[e] \in HelperState /\ helper'[e].pc = helper[e].pc
             /\ ~helper'[e].alone \/ ~Active(e)
  <2>1. helper[e] \in HelperState
    BY DEF TypeOK
  <2>2. CASE e \in others
    <3>1. helper'[e] = [helper[e] EXCEPT !.alone = FALSE]
      BY <1>3, <2>2
    <3> QED
      BY <2>1, <3>1 DEF HelperState
  <2>3. CASE e \notin others
    BY <1>3, <2>1, <2>3
  <2> QED
    BY <2>2, <2>3
<1>5. helper' \in [Deployments -> HelperState]
  BY <1>1, <1>2, <1>3, <1>4
<1> QED
  BY <1>2, <1>3, <1>4, <1>5

\* One file copied aside before it is overwritten.
LEMMA BackedUp ==
    ASSUME TypeOK, NEW d \in Deployments, NEW f \in Files, Backup(d, f)
    PROVE  /\ helper' \in [Deployments -> HelperState]
           /\ backup' \in [Deployments -> [Files -> Contents]]
           /\ \A e \in Deployments \ {d}: helper'[e] = helper[e] /\ backup'[e] = backup[e]
           /\ helper'[d].existed = helper[d].existed \cup {f}
           /\ backup'[d][f] = runtime[f] /\ \A g \in Files \ {f}: backup'[d][g] = backup[d][g]
           /\ helper'[d].pc = helper[d].pc /\ helper'[d].todo = helper[d].todo
           /\ helper'[d].copied = helper[d].copied /\ helper'[d].kept = helper[d].kept
           /\ helper'[d].was = helper[d].was /\ helper'[d].alone = helper[d].alone
BY ZenonT(60) DEF TypeOK, HelperState, Backup

\* One file overwritten.
LEMMA Copied ==
    ASSUME TypeOK, NEW d \in Deployments, NEW f \in Files, Copy(d, f)
    PROVE  /\ helper' \in [Deployments -> HelperState]
           /\ runtime' \in [Files -> Contents]
           /\ \A e \in Deployments \ {d}: helper'[e] = helper[e]
           /\ \A g \in Files \ {f}: runtime'[g] = runtime[g]
           /\ helper'[d].copied = helper[d].copied \cup {f}
           /\ helper'[d].todo = helper[d].todo \ {f}
           /\ helper'[d].pc = helper[d].pc /\ helper'[d].existed = helper[d].existed
           /\ helper'[d].kept = helper[d].kept
           /\ helper'[d].was = helper[d].was /\ helper'[d].alone = helper[d].alone
BY Bounds, ZenonT(60) DEF TypeOK, HelperState, Copy

\* One file put back, or removed if there was none.
LEMMA Undone ==
    ASSUME TypeOK, NEW d \in Deployments, NEW f \in Files, Undo(d, f)
    PROVE  /\ helper' \in [Deployments -> HelperState]
           /\ runtime' \in [Files -> Contents]
           /\ \A e \in Deployments \ {d}: helper'[e] = helper[e]
           /\ runtime'[f] = IF f \in helper[d].existed THEN backup[d][f] ELSE Gone
           /\ \A g \in Files \ {f}: runtime'[g] = runtime[g]
           /\ helper'[d].todo = helper[d].todo \ {f}
           /\ helper'[d].copied = helper[d].copied
           /\ helper'[d].pc = helper[d].pc /\ helper'[d].existed = helper[d].existed
           /\ helper'[d].kept = helper[d].kept
           /\ helper'[d].was = helper[d].was /\ helper'[d].alone = helper[d].alone
<1>1. PICK v \in Contents: v = IF f \in helper[d].existed THEN backup[d][f] ELSE Gone
  BY Bounds DEF TypeOK
<1>2. runtime' = [runtime EXCEPT ![f] = v]
  BY <1>1 DEF Undo
<1>3. /\ runtime' \in [Files -> Contents] /\ runtime'[f] = v
      /\ \A g \in Files \ {f}: runtime'[g] = runtime[g]
  BY <1>2 DEF TypeOK
<1>4. /\ helper' \in [Deployments -> HelperState]
      /\ \A e \in Deployments \ {d}: helper'[e] = helper[e]
      /\ helper'[d].todo = helper[d].todo \ {f}
      /\ helper'[d].copied = helper[d].copied
      /\ helper'[d].pc = helper[d].pc /\ helper'[d].existed = helper[d].existed
      /\ helper'[d].kept = helper[d].kept
      /\ helper'[d].was = helper[d].was /\ helper'[d].alone = helper[d].alone
  BY DEF TypeOK, HelperState, Undo
<1> QED
  BY <1>1, <1>3, <1>4

\* copy_managed returns: from here on the helper has its manifest.
LEMMA CopyEnds ==
    ASSUME TypeOK, NEW d \in Deployments, CopyDone(d)
    PROVE  /\ helper' \in [Deployments -> HelperState]
           /\ \A e \in Deployments \ {d}: helper'[e] = helper[e]
           /\ helper'[d].pc = "pip" /\ helper'[d].kept
           /\ helper'[d].todo = helper[d].todo
           /\ helper'[d].copied = helper[d].copied /\ helper'[d].existed = helper[d].existed
           /\ helper'[d].was = helper[d].was /\ helper'[d].alone = helper[d].alone
<1>1. "pip" \in Pcs
  BY DEF Pcs
<1> QED
  BY <1>1 DEF TypeOK, HelperState, CopyDone

\* An error after the start: what is to be undone is what the manifest, if there is one, lists.
LEMMA Failed ==
    ASSUME TypeOK, NEW d \in Deployments, NEW b \in BOOLEAN, Fail(d, b)
    PROVE  /\ helper' \in [Deployments -> HelperState]
           /\ \A e \in Deployments \ {d}: helper'[e] = helper[e]
           /\ helper'[d].pc \in {"undo", "dead"}
           /\ helper'[d].todo = IF helper[d].kept THEN helper[d].copied ELSE {}
           /\ helper'[d].kept = helper[d].kept
           /\ helper'[d].copied = helper[d].copied /\ helper'[d].existed = helper[d].existed
           /\ helper'[d].was = helper[d].was /\ helper'[d].alone = helper[d].alone
<1>1. PICK p \in {"undo", "dead"}: p = IF b THEN "undo" ELSE "dead"
  OBVIOUS
<1>2. PICK t \in SUBSET Files: t = IF helper[d].kept THEN helper[d].copied ELSE {}
  BY DEF TypeOK, HelperState
<1>3. helper' = [helper EXCEPT ![d].pc = p, ![d].todo = t]
  BY <1>1, <1>2 DEF Fail
<1>4. p \in Pcs
  BY DEF Pcs, Quiet
<1> DEFINE g == [helper[d] EXCEPT !.pc = p]
<1>5. /\ g \in HelperState
      /\ g.pc = p /\ g.copied = helper[d].copied /\ g.existed = helper[d].existed
      /\ g.kept = helper[d].kept /\ g.was = helper[d].was /\ g.alone = helper[d].alone
  BY <1>4 DEF TypeOK, HelperState
<1>6. [g EXCEPT !.todo = t] \in HelperState
  <2> HIDE DEF g
  <2> QED
    BY <1>5 DEF HelperState
<1>7. PICK h \in HelperState: h = [g EXCEPT !.todo = t]
  BY <1>6
<1>8. /\ h.pc = p /\ h.todo = t /\ h.copied = helper[d].copied /\ h.existed = helper[d].existed
      /\ h.kept = helper[d].kept /\ h.was = helper[d].was /\ h.alone = helper[d].alone
  <2> HIDE DEF g
  <2> QED
    BY <1>7, <1>5 DEF HelperState
<1>9. helper' = [helper EXCEPT ![d] = h]
  BY <1>3, <1>7
<1> QED
  BY <1>2, <1>8, <1>9 DEF TypeOK

-----------------------------------------------------------------------------
(* Types.                                                                  *)

\* The types hold at the start.
LEMMA TypeInit == Init => TypeOK
<1> SUFFICES ASSUME Init PROVE TypeOK
  OBVIOUS
<1>1. runtime \in [Files -> Contents] /\ repo \in [Files -> 0..MaxVersion] /\ runtime = repo
  BY Bounds DEF Init
<1>2. NoHelper \in HelperState
  BY Bounds DEF NoHelper, HelperState, Pcs, Quiet
<1>3. version \in 1..MaxVersion
  BY Bounds DEF Init
<1> QED
  BY <1>1, <1>2, <1>3, Bounds DEF Init, TypeOK

\* Every step keeps the types.
LEMMA TypeStep ==
    ASSUME TypeOK, [Next]_vars
    PROVE  TypeOK'
<1> USE DEF tree
<1>1. ASSUME NEW d \in Deployments, NEW p \in Pcs, Move(d, p)
      PROVE  helper' \in [Deployments -> HelperState]
  BY <1>1, Moved
<1>2. ASSUME NEW d \in Deployments, Request(d) PROVE TypeOK'
  <2>1. PICK p \in {"refused", "tests"}: Move(d, p)
    BY <1>2 DEF Request
  <2> QED
    BY <1>1, <1>2, <2>1 DEF Request, TypeOK, Pcs, Quiet
<1>3. ASSUME NEW d \in Deployments, NEW b \in BOOLEAN, Tested(d, b) PROVE TypeOK'
  <2>1. PICK p \in {"ready", "refused"}: Move(d, p)
    BY <1>3 DEF Tested
  <2> QED
    BY <1>1, <1>3, <2>1 DEF Tested, TypeOK, Pcs, Quiet
<1>4. ASSUME NEW d \in Deployments, Start(d) PROVE TypeOK'
  BY <1>4, Started DEF Start, TypeOK
<1>5. ASSUME NEW d \in Deployments, StartFails(d) PROVE TypeOK'
  BY <1>1, <1>5 DEF StartFails, TypeOK, Pcs, Quiet
<1>6. ASSUME NEW d \in Deployments, NEW f \in Files, Backup(d, f) PROVE TypeOK'
  BY <1>6, BackedUp DEF Backup, TypeOK
<1>7. ASSUME NEW d \in Deployments, NEW f \in Files, Copy(d, f) PROVE TypeOK'
  BY <1>7, Copied DEF Copy, TypeOK
<1>8. ASSUME NEW d \in Deployments, NEW f \in Files, Undo(d, f) PROVE TypeOK'
  BY <1>8, Undone DEF Undo, TypeOK
<1>9. ASSUME NEW d \in Deployments, CopyFails(d) PROVE TypeOK'
  <2>1. runtime' \in [Files -> Contents]
    BY <1>9, Bounds DEF CopyFails, TypeOK
  <2> QED
    BY <1>1, <1>9, <2>1 DEF CopyFails, TypeOK, Pcs
<1>10. ASSUME NEW d \in Deployments, CopyDone(d) PROVE TypeOK'
  BY <1>10, CopyEnds DEF CopyDone, TypeOK
<1>11. ASSUME NEW d \in Deployments, NEW b \in BOOLEAN, Pip(d, b) PROVE TypeOK'
  <2>1. PICK p \in {"restart", "failed"}: Move(d, p)
    BY <1>11 DEF Pip
  <2> QED
    BY <1>1, <1>11, <2>1 DEF Pip, TypeOK, Pcs
<1>12. ASSUME NEW d \in Deployments, NEW b \in BOOLEAN, Restart(d, b) PROVE TypeOK'
  BY <1>12, RestartStep DEF Restart, TypeOK
<1>13. ASSUME NEW d \in Deployments, NEW b \in BOOLEAN, Health(d, b) PROVE TypeOK'
  <2>1. PICK p \in {"report", "failed"}: Move(d, p)
    BY <1>13 DEF Health
  <2> QED
    BY <1>1, <1>13, <2>1 DEF Health, TypeOK, Pcs
<1>14. ASSUME NEW d \in Deployments, Succeed(d) PROVE TypeOK'
  BY <1>1, <1>14 DEF Succeed, TypeOK, Pcs, Quiet
<1>15. ASSUME NEW d \in Deployments, SucceedFails(d) PROVE TypeOK'
  BY <1>1, <1>15 DEF SucceedFails, TypeOK, Pcs
<1>16. ASSUME NEW d \in Deployments, NEW b \in BOOLEAN, Fail(d, b) PROVE TypeOK'
  BY <1>16, Failed DEF Fail, TypeOK
<1>17. ASSUME NEW d \in Deployments, NEW b \in BOOLEAN, UndoFails(d, b) PROVE TypeOK'
  <2>1. PICK p \in {"done", "dead"}: Move(d, p)
    BY <1>17 DEF UndoFails
  <2>2. helper' \in [Deployments -> HelperState]
    BY <1>1, <2>1 DEF Pcs, Quiet
  <2>3. runtime' \in [Files -> Contents]
    BY <1>17, Bounds DEF UndoFails, TypeOK, HelperState
  <2> QED
    BY <1>17, <2>2, <2>3 DEF UndoFails, TypeOK
<1>18. ASSUME NEW d \in Deployments, NEW b \in BOOLEAN, UndoRestart(d, b) PROVE TypeOK'
  BY <1>18, UndoRestartStep DEF UndoRestart, TypeOK
<1>19. ASSUME NEW d \in Deployments, NEW b \in BOOLEAN, NEW c \in BOOLEAN, Verify(d, b, c)
       PROVE  TypeOK'
  <2>1. PICK p \in {"done", "dead"}: Move(d, p)
    BY <1>19 DEF Verify
  <2>2. helper' \in [Deployments -> HelperState]
    BY <1>1, <2>1 DEF Pcs, Quiet
  <2> QED
    BY <1>19, <2>2 DEF Verify, TypeOK
<1>20. CASE Commit
  BY <1>20 DEF Commit, TypeOK
<1>21. CASE ServiceRestart
  <2>1. helper' \in [Deployments -> HelperState]
    BY <1>21, ServiceRestartMoves
  <2> QED
    BY <1>21, <2>1 DEF ServiceRestart, Restarted, TypeOK
<1>22. ASSUME NEW f \in Files, NEW v \in Contents, Edit(f, v) PROVE TypeOK'
  BY <1>22, Bounds DEF Edit, TypeOK, Gone
<1>23. CASE UNCHANGED vars
  BY <1>23 DEF TypeOK, vars
<1> QED
  BY <1>2, <1>3, <1>4, <1>5, <1>6, <1>7, <1>8, <1>9, <1>10, <1>11, <1>12, <1>13, <1>14, <1>15,
     <1>16, <1>17, <1>18, <1>19, <1>20, <1>21, <1>22, <1>23 DEF Next, Helper

\* Every file, record and helper keeps to its range, whatever fails and however helpers overlap.
THEOREM TypeCorrect == Spec => []TypeOK
<1>1. Init => TypeOK
  BY TypeInit
<1>2. TypeOK /\ [Next]_vars => TypeOK'
  BY TypeStep
<1> QED
  BY <1>1, <1>2, PTL DEF Spec

-----------------------------------------------------------------------------
(* What a helper that has been alone can put back.                         *)

\* While a helper is active, no other active helper is alone.
LEMMA OneAlone ==
    ASSUME DeployInv, NEW d \in Deployments, Active(d), NEW e \in Deployments \ {d}, Active(e)
    PROVE  ~helper[e].alone
BY DEF DeployInv, CanRestore

\* A step that writes only places in the program, and perhaps restarts the server.
LEMMA PlacesStep ==
    ASSUME TypeOK, DeployInv, \A e \in Deployments: Keeps(e), UNCHANGED <<runtime, backup>>,
           service'.code = runtime \/ service' = service,
           \A e \in Deployments:
              \/ helper'[e].pc \in Quiet
              \/ /\ Active(e)
                 /\ helper'[e].pc \in {"copy", "undo"} => helper'[e].pc = helper[e].pc
                 /\ helper'[e].pc = "verify" =>
                       At(e, "verify") \/ (At(e, "undo") /\ helper[e].todo = {})
                 /\ helper'[e].pc \in {"health", "report"} =>
                       At(e, "health") \/ At(e, "report") \/ service'.code = runtime
    PROVE  DeployInv'
<1> SUFFICES ASSUME NEW d \in Deployments, Active(d)', helper'[d].alone
             PROVE  (CanRestore(d) /\ Serving(d))'
  BY DEF DeployInv
<1>1. /\ Active(d)
      /\ helper'[d].pc \in {"copy", "undo"} => helper'[d].pc = helper[d].pc
      /\ helper'[d].pc = "verify" =>
            At(d, "verify") \/ (At(d, "undo") /\ helper[d].todo = {})
      /\ helper'[d].pc \in {"health", "report"} =>
            At(d, "health") \/ At(d, "report") \/ service'.code = runtime
  BY DEF Active
<1>2. helper[d].alone /\ CanRestore(d) /\ Serving(d)
  BY <1>1 DEF DeployInv, Keeps
<1>3. \A e \in Deployments \ {d}: ~Active(e)'
  BY <1>2 DEF CanRestore, Active
<1>4. \A f \in Files: (Known(d, f) => Known(d, f)') /\ (Untouched(d, f) => Untouched(d, f)')
  BY DEF Known, Untouched, Keeps
<1>5. /\ helper'[d].todo = helper[d].todo /\ helper'[d].copied = helper[d].copied
      /\ helper'[d].existed = helper[d].existed /\ (helper'[d].kept <=> helper[d].kept)
      /\ helper[d].existed \subseteq Files
  BY DEF Keeps, TypeOK, HelperState
<1>6. CanRestore(d)'
  BY <1>1, <1>2, <1>3, <1>4, <1>5 DEF CanRestore, At
<1>7. Serving(d)'
  BY <1>1, <1>2 DEF Serving, At
<1> QED
  BY <1>6, <1>7

\* A step of one helper at work that changes its own state and files: the others that are at work
\* are not alone.
LEMMA OwnStep ==
    ASSUME DeployInv, NEW d \in Deployments, Active(d),
           \A e \in Deployments \ {d}: helper'[e] = helper[e],
           helper'[d].alone <=> helper[d].alone,
           Active(d)' /\ helper'[d].alone /\ CanRestore(d) /\ Serving(d)
              /\ (\A e \in Deployments \ {d}: ~Active(e)')
              => (CanRestore(d) /\ Serving(d))'
    PROVE  DeployInv'
<1>1. ASSUME NEW e \in Deployments \ {d}, Active(e)', helper'[e].alone PROVE FALSE
  BY <1>1, OneAlone DEF Active
<1>2. ASSUME Active(d)', helper'[d].alone PROVE (CanRestore(d) /\ Serving(d))'
  <2>1. CanRestore(d) /\ Serving(d)
    BY <1>2 DEF DeployInv
  <2>2. \A e \in Deployments \ {d}: ~Active(e)'
    BY <2>1 DEF CanRestore, Active
  <2> QED
    BY <1>2, <2>1, <2>2
<1> QED
  BY <1>1, <1>2 DEF DeployInv

\* No helper has begun: the invariant holds of none.
LEMMA DeployInit == Init => DeployInv
<1> SUFFICES ASSUME Init, NEW d \in Deployments PROVE ~Active(d)
  BY DEF DeployInv
<1> QED
  BY DEF Init, NoHelper, Active, Quiet

\* A new deployment keeps the invariant: the others are no longer alone.
LEMMA StartKeeps ==
    ASSUME TypeOK, DeployInv, NEW d \in Deployments, Start(d)
    PROVE  DeployInv'
<1>1. ASSUME NEW e \in Deployments \ {d}, Active(e)', helper'[e].alone PROVE FALSE
  BY <1>1, Started DEF Active
<1>2. ASSUME helper'[d].alone PROVE (CanRestore(d) /\ Serving(d))'
  <2>1. \A e \in Deployments \ {d}: ~Active(e)'
    BY <1>2, Started DEF Active
  <2>2. \A f \in Files: Untouched(d, f)'
    BY Started DEF Untouched, Start
  <2>3. /\ helper'[d].pc = "copy" /\ ~helper'[d].kept
        /\ helper'[d].copied = {} /\ helper'[d].existed = {}
    BY Started
  <2> QED
    BY <2>1, <2>2, <2>3 DEF CanRestore, Serving, At
<1> QED
  BY <1>1, <1>2 DEF DeployInv

\* A backup keeps the invariant: it is taken of an untouched file.
LEMMA BackupKeeps ==
    ASSUME TypeOK, DeployInv, NEW d \in Deployments, NEW f \in Files, Backup(d, f)
    PROVE  DeployInv'
<1>1. Active(d) /\ At(d, "copy") /\ f \in helper[d].todo
  BY DEF Backup, Active, At, Quiet, Current
<1>2. ASSUME CanRestore(d), \A e \in Deployments \ {d}: ~Active(e)'
      PROVE  (CanRestore(d) /\ Serving(d))'
  <2>1. /\ f \notin helper[d].copied /\ Untouched(d, f)
        /\ \A g \in helper[d].existed: Known(d, g)
        /\ \A g \in Files: IF g \in helper[d].copied THEN Known(d, g) ELSE Untouched(d, g)
    BY <1>1, <1>2 DEF CanRestore
  <2>2. Known(d, f)'
    <3>1. /\ f \in helper'[d].existed /\ backup'[d][f] = runtime[f]
          /\ helper'[d].was = helper[d].was
      BY BackedUp
    <3>2. runtime[f] = helper[d].was[f]
      BY <2>1 DEF Untouched
    <3> QED
      BY <3>1, <3>2 DEF Known
  <2>3. \A g \in Files \ {f}: Known(d, g) => Known(d, g)'
    BY BackedUp DEF Known
  <2>4. \A g \in Files: Untouched(d, g) => Untouched(d, g)'
    BY BackedUp DEF Untouched, Backup
  <2>5. /\ helper'[d].existed = helper[d].existed \cup {f} /\ helper[d].existed \subseteq Files
        /\ helper'[d].todo = helper[d].todo /\ helper'[d].copied = helper[d].copied
        /\ helper'[d].pc = "copy" /\ ~helper'[d].kept /\ helper[d].todo \cap helper[d].copied = {}
    BY <1>1, <1>2, BackedUp DEF CanRestore, At, TypeOK, HelperState
  <2> QED
    BY <1>2, <2>1, <2>2, <2>3, <2>4, <2>5 DEF CanRestore, Serving, At
<1>3. /\ \A e \in Deployments \ {d}: helper'[e] = helper[e]
      /\ helper'[d].alone <=> helper[d].alone
  BY BackedUp
<1> QED
  BY <1>1, <1>2, <1>3, OwnStep

\* A copy keeps the invariant: what it overwrites was kept aside first.
LEMMA CopyKeeps ==
    ASSUME TypeOK, DeployInv, NEW d \in Deployments, NEW f \in Files, Copy(d, f)
    PROVE  DeployInv'
<1>1. Active(d) /\ At(d, "copy") /\ f \in helper[d].todo
  BY DEF Copy, Active, At, Quiet, Current
<1>2. ASSUME CanRestore(d), \A e \in Deployments \ {d}: ~Active(e)'
      PROVE  (CanRestore(d) /\ Serving(d))'
  <2>1. /\ f \notin helper[d].copied /\ Untouched(d, f)
        /\ \A g \in helper[d].existed: Known(d, g)
        /\ \A g \in Files: IF g \in helper[d].copied THEN Known(d, g) ELSE Untouched(d, g)
    BY <1>1, <1>2 DEF CanRestore
  <2>2. \A g \in Files: Known(d, g) => Known(d, g)'
    BY Copied DEF Known, Copy
  <2>3. Known(d, f)'
    BY <2>1, <2>2, Copied DEF Known, Untouched, Copy
  <2>4. \A g \in Files \ {f}: Untouched(d, g) => Untouched(d, g)'
    BY Copied DEF Untouched
  <2>5. /\ helper'[d].copied = helper[d].copied \cup {f}
        /\ helper'[d].todo = helper[d].todo \ {f}
        /\ helper'[d].existed = helper[d].existed /\ helper[d].existed \subseteq Files
        /\ helper'[d].pc = "copy" /\ ~helper'[d].kept /\ helper[d].todo \cap helper[d].copied = {}
    BY <1>1, <1>2, Copied DEF CanRestore, At, TypeOK, HelperState
  <2> QED
    BY <1>2, <2>1, <2>2, <2>3, <2>4, <2>5 DEF CanRestore, Serving, At
<1>3. /\ \A e \in Deployments \ {d}: helper'[e] = helper[e]
      /\ helper'[d].alone <=> helper[d].alone
  BY Copied
<1> QED
  BY <1>1, <1>2, <1>3, OwnStep

\* An undone file is what it was before the deployment.
LEMMA UndoKeeps ==
    ASSUME TypeOK, DeployInv, NEW d \in Deployments, NEW f \in Files, Undo(d, f)
    PROVE  DeployInv'
<1>1. Active(d) /\ At(d, "undo") /\ f \in helper[d].todo
  BY DEF Undo, Active, At, Quiet
<1>2. ASSUME CanRestore(d), \A e \in Deployments \ {d}: ~Active(e)'
      PROVE  (CanRestore(d) /\ Serving(d))'
  <2>1. /\ helper'[d].pc = "undo" /\ (helper'[d].kept <=> helper[d].kept)
        /\ helper'[d].todo = helper[d].todo \ {f} /\ helper'[d].copied = helper[d].copied
        /\ helper'[d].existed = helper[d].existed
    BY <1>1, Undone DEF At
  <2>2. ASSUME helper[d].kept
        PROVE  /\ helper'[d].todo \subseteq helper'[d].copied
               /\ \A g \in Files \ helper'[d].todo: Untouched(d, g)'
               /\ \A g \in helper'[d].copied: Known(d, g)'
    <3>1. /\ helper[d].todo \subseteq helper[d].copied /\ helper[d].copied \subseteq Files
          /\ \A g \in Files \ helper[d].todo: Untouched(d, g)
          /\ \A g \in helper[d].copied: Known(d, g)
      BY <1>1, <1>2, <2>2 DEF CanRestore, TypeOK, HelperState
    <3>2. \A g \in Files: Known(d, g) => Known(d, g)'
      BY Undone DEF Known, Undo
    <3>3. Untouched(d, f)'
      BY <1>1, <3>1, Undone DEF Known, Untouched
    <3>4. \A g \in Files \ {f}: Untouched(d, g) => Untouched(d, g)'
      BY Undone DEF Untouched
    <3> QED
      BY <2>1, <3>1, <3>2, <3>3, <3>4
  <2>3. ~At(d, "copy")' /\ ~At(d, "verify")' /\ Serving(d)'
    BY <2>1 DEF At, Serving
  <2>4. helper[d].kept => \A g \in Files: g \notin helper'[d].copied => Untouched(d, g)'
    BY <2>2
  <2> QED
    BY <1>2, <2>1, <2>2, <2>3, <2>4 DEF CanRestore
<1>3. /\ \A e \in Deployments \ {d}: helper'[e] = helper[e]
      /\ helper'[d].alone <=> helper[d].alone
  BY Undone
<1> QED
  BY <1>1, <1>2, <1>3, OwnStep

\* The end of the copy keeps the invariant.
LEMMA CopyDoneKeeps ==
    ASSUME TypeOK, DeployInv, NEW d \in Deployments, CopyDone(d)
    PROVE  DeployInv'
<1>1. Active(d) /\ At(d, "copy")
  BY DEF CopyDone, Active, At, Quiet
<1>2. ASSUME CanRestore(d), \A e \in Deployments \ {d}: ~Active(e)'
      PROVE  (CanRestore(d) /\ Serving(d))'
  <2>1. \A f \in Files: IF f \in helper[d].copied THEN Known(d, f) ELSE Untouched(d, f)
    BY <1>1, <1>2 DEF CanRestore
  <2>2. \A f \in Files: (Known(d, f) => Known(d, f)') /\ (Untouched(d, f) => Untouched(d, f)')
    BY CopyEnds DEF Known, Untouched, CopyDone
  <2>3. helper'[d].pc = "pip" /\ helper'[d].copied = helper[d].copied
    BY CopyEnds
  <2> QED
    BY <1>2, <2>1, <2>2, <2>3 DEF CanRestore, Serving, At
<1>3. /\ \A e \in Deployments \ {d}: helper'[e] = helper[e]
      /\ helper'[d].alone <=> helper[d].alone
  BY CopyEnds
<1> QED
  BY <1>1, <1>2, <1>3, OwnStep

\* A failure keeps the invariant: what is not to be undone was not touched.
LEMMA FailKeeps ==
    ASSUME TypeOK, DeployInv, NEW d \in Deployments, NEW b \in BOOLEAN, Fail(d, b)
    PROVE  DeployInv'
<1>1. Active(d) /\ At(d, "failed")
  BY DEF Fail, Active, At, Quiet
<1>2. ASSUME Active(d)', CanRestore(d), \A e \in Deployments \ {d}: ~Active(e)'
      PROVE  (CanRestore(d) /\ Serving(d))'
  <2>1. helper[d].kept =>
           \A f \in Files: IF f \in helper[d].copied THEN Known(d, f) ELSE Untouched(d, f)
    BY <1>2 DEF CanRestore
  <2>2. \A f \in Files: (Known(d, f) => Known(d, f)') /\ (Untouched(d, f) => Untouched(d, f)')
    BY Failed DEF Known, Untouched, Fail
  <2>3. /\ helper'[d].pc = "undo" /\ (helper'[d].kept <=> helper[d].kept)
        /\ helper'[d].copied = helper[d].copied
        /\ helper[d].kept => helper'[d].todo = helper[d].copied
    BY <1>2, Failed DEF Active, Quiet
  <2> QED
    BY <1>2, <2>1, <2>2, <2>3 DEF CanRestore, Serving, At
<1>3. /\ \A e \in Deployments \ {d}: helper'[e] = helper[e]
      /\ helper'[d].alone <=> helper[d].alone
  BY Failed
<1> QED
  BY <1>1, <1>2, <1>3, OwnStep

\* A copy that fails leaves a helper without a manifest, of which nothing is claimed.
LEMMA CopyFailsKeeps ==
    ASSUME TypeOK, DeployInv, NEW d \in Deployments, CopyFails(d)
    PROVE  DeployInv'
<1>1. Active(d) /\ At(d, "copy")
  BY DEF CopyFails, Active, At, Quiet
<1>2. /\ helper'[d].pc = "failed" /\ Keeps(d)
      /\ \A e \in Deployments \ {d}: helper'[e] = helper[e]
  <2>1. "failed" \in Pcs /\ Move(d, "failed")
    BY DEF Pcs, CopyFails
  <2> QED
    BY <2>1, Moved
<1>3. ASSUME CanRestore(d), \A e \in Deployments \ {d}: ~Active(e)'
      PROVE  (CanRestore(d) /\ Serving(d))'
  <2>1. ~helper'[d].kept
    BY <1>1, <1>2, <1>3 DEF CanRestore, Keeps
  <2> QED
    BY <1>2, <1>3, <2>1 DEF CanRestore, Serving, At
<1>4. helper'[d].alone <=> helper[d].alone
  BY <1>2 DEF Keeps
<1> QED
  BY <1>1, <1>2, <1>3, <1>4, OwnStep

\* A rollback that fails leaves a helper of which nothing is claimed.
LEMMA UndoFailsKeeps ==
    ASSUME TypeOK, DeployInv, NEW d \in Deployments, NEW b \in BOOLEAN, UndoFails(d, b)
    PROVE  DeployInv'
<1>1. Active(d)
  BY DEF UndoFails, Active, At, Quiet
<1>2. PICK p \in {"done", "dead"}: Move(d, p)
  BY DEF UndoFails
<1>3. /\ helper'[d].pc \in Quiet /\ Keeps(d)
      /\ \A e \in Deployments \ {d}: helper'[e] = helper[e]
  BY <1>2, Moved DEF Pcs, Quiet
<1>4. ~Active(d)' /\ (helper'[d].alone <=> helper[d].alone)
  BY <1>3 DEF Active, Keeps
<1> QED
  BY <1>1, <1>3, <1>4, OwnStep

\* DeployInv is inductive relative to the types.
LEMMA DeployStep ==
    ASSUME TypeOK, DeployInv, [Next]_vars
    PROVE  DeployInv'
<1> USE DEF tree
\* One helper moves from one place to another.
<1>1. ASSUME NEW d \in Deployments, NEW p \in Pcs, Move(d, p),
             UNCHANGED <<runtime, backup, service>>,
             \/ p \in Quiet
             \/ Active(d) /\ p \in {"pip", "restart", "failed"}
             \/ p = "report" /\ At(d, "health")
      PROVE  DeployInv'
  <2>1. /\ \A e \in Deployments: Keeps(e) /\ helper'[d].pc = p
        /\ \A e \in Deployments \ {d}: helper'[e].pc = helper[e].pc
    BY <1>1, Moved
  <2>2. At(d, "health") => Active(d)
    BY DEF At, Active, Quiet
  <2>3. \A e \in Deployments \ {d}:
           helper'[e].pc \in Quiet \/ (Active(e) /\ helper'[e].pc = helper[e].pc)
    BY <2>1 DEF Active
  <2>4. \/ helper'[d].pc \in Quiet
        \/ Active(d) /\ helper'[d].pc \in {"pip", "restart", "failed"}
        \/ Active(d) /\ helper'[d].pc = "report" /\ At(d, "health")
    BY <1>1, <2>1, <2>2
  <2> QED
    BY <1>1, <2>1, <2>3, <2>4, PlacesStep DEF At
\* A restart, which may end helpers, or one that fails and changes nothing.
<1>2. ASSUME UNCHANGED <<runtime, backup>>, NEW d \in Deployments, Active(d),
             service'.code = runtime \/ (helper'[d].pc # "health" /\ service' = service),
             \A e \in Deployments: Keeps(e),
             \A e \in Deployments \ {d}: helper'[e].pc \in {helper[e].pc, "dead"},
             \/ helper'[d].pc \in {helper[d].pc, "dead", "health", "failed"}
             \/ helper'[d].pc = "verify" /\ At(d, "undo") /\ helper[d].todo = {}
      PROVE  DeployInv'
  <2>1. "dead" \in Quiet
    BY DEF Quiet
  <2>2. \A e \in Deployments \ {d}:
           helper'[e].pc \in Quiet \/ (Active(e) /\ helper'[e].pc = helper[e].pc)
    BY <1>2, <2>1 DEF Active
  <2> QED
    BY <1>2, <2>1, <2>2, PlacesStep DEF At
<1>3. ASSUME NEW d \in Deployments, Request(d) PROVE DeployInv'
  <2>1. PICK p \in {"refused", "tests"}: Move(d, p)
    BY <1>3 DEF Request
  <2> QED
    BY <1>1, <1>3, <2>1 DEF Request, Pcs, Quiet
<1>4. ASSUME NEW d \in Deployments, NEW b \in BOOLEAN, Tested(d, b) PROVE DeployInv'
  <2>1. PICK p \in {"ready", "refused"}: Move(d, p)
    BY <1>4 DEF Tested
  <2> QED
    BY <1>1, <1>4, <2>1 DEF Tested, Pcs, Quiet
<1>5. ASSUME NEW d \in Deployments, StartFails(d) PROVE DeployInv'
  BY <1>1, <1>5 DEF StartFails, Pcs, Quiet
<1>6. ASSUME NEW d \in Deployments, NEW b \in BOOLEAN, Pip(d, b) PROVE DeployInv'
  <2>1. PICK p \in {"restart", "failed"}: Move(d, p)
    BY <1>6 DEF Pip
  <2>2. Active(d) /\ p \in Pcs
    BY <1>6 DEF Pip, At, Active, Pcs, Quiet
  <2> QED
    BY <1>1, <1>6, <2>1, <2>2 DEF Pip
<1>7. ASSUME NEW d \in Deployments, NEW b \in BOOLEAN, Health(d, b) PROVE DeployInv'
  <2>1. PICK p \in {"report", "failed"}: Move(d, p)
    BY <1>7 DEF Health
  <2>2. Active(d) /\ At(d, "health") /\ p \in Pcs
    BY <1>7 DEF Health, At, Active, Pcs, Quiet
  <2> QED
    BY <1>1, <1>7, <2>1, <2>2 DEF Health
<1>8. ASSUME NEW d \in Deployments, Succeed(d) PROVE DeployInv'
  BY <1>1, <1>8 DEF Succeed, Pcs, Quiet
<1>9. ASSUME NEW d \in Deployments, SucceedFails(d) PROVE DeployInv'
  <2>1. Active(d) /\ "failed" \in Pcs
    BY <1>9 DEF SucceedFails, At, Active, Pcs, Quiet
  <2> QED
    BY <1>1, <1>9, <2>1 DEF SucceedFails
<1>10. ASSUME NEW d \in Deployments, NEW b \in BOOLEAN, NEW c \in BOOLEAN, Verify(d, b, c)
       PROVE  DeployInv'
  <2>1. PICK p \in {"done", "dead"}: Move(d, p)
    BY <1>10 DEF Verify
  <2> QED
    BY <1>1, <1>10, <2>1 DEF Verify, Pcs, Quiet
<1>11. ASSUME NEW d \in Deployments, NEW b \in BOOLEAN, Restart(d, b) PROVE DeployInv'
  <2>1. Active(d) /\ UNCHANGED <<runtime, backup>>
    BY <1>11 DEF Restart, At, Active, Quiet
  <2> QED
    BY <1>2, <1>11, <2>1, RestartStep
<1>12. ASSUME NEW d \in Deployments, NEW b \in BOOLEAN, UndoRestart(d, b) PROVE DeployInv'
  <2>1. /\ Active(d) /\ At(d, "undo") /\ helper[d].todo = {} /\ UNCHANGED <<runtime, backup>>
    BY <1>12 DEF UndoRestart, At, Active, Quiet
  <2> QED
    BY <1>2, <1>12, <2>1, UndoRestartStep
<1>13. CASE ServiceRestart
  <2>1. service'.code = runtime /\ UNCHANGED <<runtime, backup>>
    BY <1>13 DEF ServiceRestart, Restarted
  <2>2. \A e \in Deployments:
           /\ Keeps(e)
           /\ helper'[e].pc \in Quiet \/ (Active(e) /\ helper'[e].pc = helper[e].pc)
    BY <1>13, ServiceRestartMoves DEF Active, Quiet
  <2> QED
    BY <2>1, <2>2, PlacesStep DEF At
<1>14. CASE Commit \/ (\E f \in Files, v \in Contents: Edit(f, v)) \/ UNCHANGED vars
  <2>1. UNCHANGED <<runtime, backup, service, helper>>
    BY <1>14 DEF Commit, Edit, vars
  <2>2. \A e \in Deployments:
           /\ Keeps(e)
           /\ helper'[e].pc \in Quiet \/ (Active(e) /\ helper'[e].pc = helper[e].pc)
    BY <2>1 DEF Active, Keeps
  <2> QED
    BY <2>1, <2>2, PlacesStep DEF At
<1> QED
  BY <1>3, <1>4, <1>5, <1>6, <1>7, <1>8, <1>9, <1>10, <1>11, <1>12, <1>13, <1>14, StartKeeps,
     BackupKeeps, CopyKeeps, UndoKeeps, CopyDoneKeeps, FailKeeps, CopyFailsKeeps, UndoFailsKeeps
     DEF Next, Helper

\* A helper that has been alone knows how every file was that it has touched, and after a restart
\* of its own the server runs what the runtime holds.
THEOREM Invariance == Spec => [](TypeOK /\ DeployInv)
<1>1. Init => TypeOK /\ DeployInv
  BY TypeInit, DeployInit
<1>2. TypeOK /\ DeployInv /\ [Next]_vars => (TypeOK /\ DeployInv)'
  BY TypeStep, DeployStep
<1> QED
  BY <1>1, <1>2, PTL DEF Spec

\* A helper that works alone can at any moment put back what it has touched, and a server it has
\* restarted runs what the runtime directory holds: the part of Invariance a run checks.
THEOREM HelpersCanRestore == Spec => []DeployInv
BY Invariance, PTL

-----------------------------------------------------------------------------
(* The results that are written.                                           *)

\* Who writes the state file, and what.
LEMMA RecordStep ==
    ASSUME [Next]_vars
    PROVE  \/ record' = record
           \/ \E d \in Deployments, r \in {"running", "rolling_back", "rollback_failed"}:
                 record' = [record EXCEPT ![d] = r]
           \/ \E d \in Deployments: Succeed(d)
           \/ \E d \in Deployments, b \in BOOLEAN, c \in BOOLEAN: Verify(d, b, c)
<1> USE DEF tree
<1>1. ASSUME NEW d \in Deployments, Start(d) PROVE record' = [record EXCEPT ![d] = "running"]
  BY <1>1 DEF Start
<1>2. ASSUME NEW d \in Deployments, NEW b \in BOOLEAN, Fail(d, b)
      PROVE  record' = record \/ record' = [record EXCEPT ![d] = "rolling_back"]
  BY <1>2 DEF Fail
<1>3. ASSUME NEW d \in Deployments, NEW b \in BOOLEAN, UndoFails(d, b)
      PROVE  record' = record \/ record' = [record EXCEPT ![d] = "rollback_failed"]
  BY <1>3 DEF UndoFails
<1>4. \/ record' = record
      \/ \E d \in Deployments: Start(d) \/ Succeed(d)
      \/ \E d \in Deployments, b \in BOOLEAN:
            Fail(d, b) \/ UndoFails(d, b) \/ \E c \in BOOLEAN: Verify(d, b, c)
  BY DEF Next, Helper, Commit, ServiceRestart, Edit, Request, Tested, StartFails, Backup, Copy, Undo,
     CopyFails, CopyDone, Pip, Restart, Health, SucceedFails, UndoRestart, vars
<1> QED
  BY <1>1, <1>2, <1>3, <1>4

\* "rolled_back" is written after the health check of a rollback only.
LEMMA OnlyVerify ==
    ASSUME TypeOK, [Next]_vars, NEW d \in Deployments, record[d] # "rolled_back",
           record'[d] = "rolled_back"
    PROVE  At(d, "verify")
<1>1. ASSUME NEW e \in Deployments, NEW r, r # "rolled_back", record' = [record EXCEPT ![e] = r]
      PROVE  FALSE
  BY <1>1 DEF TypeOK
<1>2. ASSUME NEW e \in Deployments, Succeed(e) PROVE FALSE
  BY <1>1, <1>2 DEF Succeed
<1>3. ASSUME NEW e \in Deployments, NEW b \in BOOLEAN, NEW c \in BOOLEAN, Verify(e, b, c)
      PROVE  At(d, "verify")
  BY <1>3 DEF Verify, TypeOK
<1> QED
  BY <1>1, <1>2, <1>3, RecordStep

\* "success" is written by the helper at the end of its deployment only.
LEMMA OnlySucceed ==
    ASSUME TypeOK, [Next]_vars, NEW d \in Deployments, record[d] # "success",
           record'[d] = "success"
    PROVE  At(d, "report")
<1>1. ASSUME NEW e \in Deployments, NEW r, r # "success", record' = [record EXCEPT ![e] = r]
      PROVE  FALSE
  BY <1>1 DEF TypeOK
<1>2. ASSUME NEW e \in Deployments, Succeed(e) PROVE At(d, "report")
  BY <1>2 DEF Succeed, TypeOK
<1>3. ASSUME NEW e \in Deployments, NEW b \in BOOLEAN, NEW c \in BOOLEAN, Verify(e, b, c)
      PROVE  FALSE
  BY <1>1, <1>3 DEF Verify
<1> QED
  BY <1>1, <1>2, <1>3, RecordStep

\* "rolled_back" is written for a deployment whose copy had ended only when every file, added ones
\* included, is what it was when the deployment began.
THEOREM RolledBackIsRestored == Spec => RollbackRestores
<1>1. TypeOK /\ DeployInv /\ [Next]_vars =>
         \A d \in Deployments:
            record[d] # "rolled_back" /\ record'[d] = "rolled_back"
               /\ helper[d].alone /\ helper[d].kept
            => runtime = helper[d].was
  <2> SUFFICES ASSUME TypeOK, DeployInv, [Next]_vars, NEW d \in Deployments,
                      record[d] # "rolled_back", record'[d] = "rolled_back",
                      helper[d].alone, helper[d].kept
               PROVE  runtime = helper[d].was
    OBVIOUS
  <2>1. At(d, "verify")
    BY OnlyVerify
  <2>2. \A f \in Files: runtime[f] = helper[d].was[f]
    BY <2>1 DEF At, Active, Quiet, DeployInv, CanRestore, Untouched
  <2>3. runtime \in [Files -> Contents] /\ helper[d].was \in [Files -> Contents]
    BY DEF TypeOK, HelperState
  <2> QED
    BY <2>2, <2>3
<1> QED
  BY <1>1, Invariance, PTL DEF Spec, RollbackRestores

\* "success" is written only when the server runs what the runtime directory holds.
THEOREM SuccessMeansServed == Spec => SuccessIsServed
<1>1. TypeOK /\ DeployInv /\ [Next]_vars =>
         \A d \in Deployments:
            record[d] # "success" /\ record'[d] = "success" /\ helper[d].alone
            => service.code = runtime
  <2> SUFFICES ASSUME TypeOK, DeployInv, [Next]_vars, NEW d \in Deployments,
                      record[d] # "success", record'[d] = "success", helper[d].alone
               PROVE  service.code = runtime
    OBVIOUS
  <2>1. At(d, "report")
    BY OnlySucceed
  <2> QED
    BY <2>1 DEF At, Active, Quiet, DeployInv, Serving
<1> QED
  BY <1>1, Invariance, PTL DEF Spec, SuccessIsServed
=============================================================================
