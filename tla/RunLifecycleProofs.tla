------------------------- MODULE RunLifecycleProofs -------------------------
(***************************************************************************)
(* Proofs, for any set of runs, any number of items, any quota and any     *)
(* number of restarts, of the safety properties of RunLifecycle: on either *)
(* database IInv is inductive, and what no writer may do to a verdict, an  *)
(* outcome or the quota follows from it; on SQLite (SerialTx), CInv and    *)
(* OInv are invariants besides, every step is a step of RunContract or a   *)
(* stutter, a run passes with all its cases, and the last report ends it.  *)
(***************************************************************************)
EXTENDS RunLifecycle, FiniteSetTheorems, TLAPS

USE DEF Items

(* The initial state satisfies the inductive invariant.                    *)
LEMMA InitIInv == ASSUME Init PROVE IInv
<1> USE RunLifecycleAssumption DEF Init
<1>1. TypeOK BY DEF TypeOK, PcValues
<1>2. LoopBound /\ IdleIsFresh /\ PlanPc /\ AheadNotSent
  BY DEF LoopBound, IdleIsFresh, PlanPc, AheadNotSent, Looping, Runs, Runs
<1>3. ReportsWereSent /\ AcceptedIsOpen BY DEF ReportsWereSent, AcceptedIsOpen
<1>4. StepsHaveVerdict /\ FinishedHasEnded
  BY DEF StepsHaveVerdict, FinishedHasEnded
<1> QED BY <1>1, <1>2, <1>3, <1>4 DEF IInv

(* Every step keeps the variables in their types and the loop index in       *)
(* bounds.                                                                  *)
LEMMA TypeStep ==
  ASSUME TypeOK, LoopBound, AcceptedIsOpen, [Next]_vars PROVE TypeOK' /\ LoopBound'
<1> USE RunLifecycleAssumption
    DEF TypeOK, LoopBound, PcValues, Verdicts, CaseEnded, RunEnded, rows, procs, reap, vars
<1>1. ASSUME NEW r \in PlanRuns, TriggerStart(r) PROVE TypeOK' /\ LoopBound'
  BY <1>1 DEF Runs, TriggerStart, Go
<1>2. ASSUME NEW r \in PlanRuns, SkipItem(r) PROVE TypeOK' /\ LoopBound'
  <2>1. next[r] \in 1..NumItems BY <1>2 DEF SkipItem, ItemsLeft, Runs
  <2>2. next[r] + 1 \in 1..(NumItems + 1) BY <2>1
  <2>3. next' \in [Runs -> 1..(NumItems + 1)]
    BY <1>2, <2>2 DEF SkipItem, NextItem
  <2>4. pc' = [pc EXCEPT ![r] = "item"] BY <1>2 DEF SkipItem, NextItem, Go
  <2>5. \A q \in Runs : q # r => next'[q] = next[q]
    BY <1>2 DEF SkipItem, NextItem
  <2> QED BY <1>2, <2>3, <2>4, <2>5 DEF SkipItem
<1>3. ASSUME NEW r \in PlanRuns, CreateCase(r) PROVE TypeOK' /\ LoopBound'
  BY <1>3 DEF Runs, CreateCase, ItemsLeft, Go
<1>4. ASSUME NEW r \in PlanRuns, DispatchOk(r) PROVE TypeOK' /\ LoopBound'
  BY <1>4 DEF Runs, DispatchOk, NextItem, Go
<1>5. ASSUME NEW r \in PlanRuns, DispatchFail(r) PROVE TypeOK' /\ LoopBound'
  BY <1>5 DEF Runs, DispatchFail, Go
<1>6. ASSUME NEW r \in PlanRuns, FailCase(r) PROVE TypeOK' /\ LoopBound'
  <2>1. next[r] \in 1..NumItems BY <1>6 DEF FailCase, Runs
  <2>2. next' \in [Runs -> 1..(NumItems + 1)]
    <3>1. next[r] + 1 \in 1..(NumItems + 1) BY <2>1
    <3> QED BY <1>6, <3>1 DEF FailCase, NextItem
  <2>3. crStatus' \in [Runs -> [Items -> {"NONE", "RUNNING"} \cup CaseEnded]]
    BY <1>6, <2>1 DEF FailCase
  <2>4. /\ pc' = [pc EXCEPT ![r] = "item"]
        /\ \A q \in Runs : q # r => next'[q] = next[q]
    BY <1>6 DEF FailCase, NextItem, Go
  <2> QED BY <1>6, <2>2, <2>3, <2>4 DEF FailCase
<1>7. ASSUME NEW r \in PlanRuns, TriggerEnd(r) PROVE TypeOK' /\ LoopBound'
  BY <1>7 DEF Runs, TriggerEnd, Go
<1>8. ASSUME NEW r \in DebugRuns, DebugStart(r) PROVE TypeOK' /\ LoopBound'
  BY <1>8 DEF Runs, DebugStart, Go
<1>9. ASSUME NEW r \in DebugRuns, DebugResolveFail(r) PROVE TypeOK' /\ LoopBound'
  BY <1>9 DEF Runs, DebugResolveFail, Go
<1>10. ASSUME NEW r \in DebugRuns, DebugDispatchOk(r) PROVE TypeOK' /\ LoopBound'
  BY <1>10 DEF Runs, DebugDispatchOk, Go
<1>11. ASSUME NEW r \in DebugRuns, DebugDispatchFail(r) PROVE TypeOK' /\ LoopBound'
  BY <1>11 DEF Runs, DebugDispatchFail, Go
<1>12. ASSUME NEW r \in DebugRuns, DebugAnswered(r) PROVE TypeOK' /\ LoopBound'
  BY <1>12 DEF Runs, DebugAnswered, Go
<1>13. ASSUME NEW r \in DebugRuns, DebugTimeout(r) PROVE TypeOK' /\ LoopBound'
  BY <1>13 DEF Runs, DebugTimeout, Go
<1>14. ASSUME NEW r \in DebugRuns, DebugFailCase(r) PROVE TypeOK' /\ LoopBound'
  BY <1>14 DEF Runs, DebugFailCase, Go
<1>15. ASSUME NEW r \in DebugRuns, DebugFailRun(r) PROVE TypeOK' /\ LoopBound'
  BY <1>15 DEF Runs, DebugFailRun, Go
<1>16. ASSUME NEW r \in Runs, NEW i \in Items, LoseTask(r, i) PROVE TypeOK' /\ LoopBound'
  BY <1>16 DEF Runs, LoseTask
<1>17. ASSUME NEW r \in Runs, NEW i \in Items, NEW v \in Verdicts, WorkerReport(r, i, v) PROVE TypeOK' /\ LoopBound'
  <2>1. [run |-> r, item |-> i, verdict |-> v] \in Report
    BY <1>17 DEF Report
  <2>2. reports' \subseteq Report BY <1>17, <2>1 DEF WorkerReport
  <2>3. task' \in [Runs -> [Items -> {"none", "sent", "done"}]]
    BY <1>17 DEF WorkerReport
  <2> QED BY <1>17, <2>2, <2>3 DEF WorkerReport
<1>18. ASSUME NEW m \in reports, ReportBegin(m) PROVE TypeOK' /\ LoopBound'
  <2> DEFINE t == [run |-> m.run, item |-> m.item, verdict |-> m.verdict,
                   accepted |-> Accepts(m), finish |-> "uncounted"]
  <2>1. m \in Report BY <1>18
  <2>2. t \in Tx BY <2>1 DEF Report, Tx, Accepts
  <2>3. tx' \subseteq Tx BY <1>18, <2>2 DEF ReportBegin
  <2>4. waiter' \in [Runs -> {"none", "registered", "taken", "delivered"}]
    BY <1>18 DEF ReportBegin
  <2> QED BY <1>18, <2>3, <2>4 DEF ReportBegin
<1>19. ASSUME NEW t \in tx, ReportCount(t) PROVE TypeOK' /\ LoopBound'
  BY <1>19 DEF Runs, ReportCount, Conclusion, Tx
<1>20. ASSUME NEW t \in tx, ReportCommit(t) PROVE TypeOK' /\ LoopBound'
  <2>1. /\ t.run \in Runs /\ t.item \in Items
        /\ t.verdict \in Verdicts /\ t.accepted \in BOOLEAN
        /\ t.finish \in {"uncounted", "no", "PASSED", "FAILED"}
    BY <1>20 DEF Tx
  <2>2. Seen(t, t.item) \in {"NONE", "RUNNING"} \cup CaseEnded
    BY <2>1, AcceptedIsOpen, <1>20 DEF Seen, AcceptedIsOpen
  <2>3. crStatus' \in [Runs -> [Items -> {"NONE", "RUNNING"} \cup CaseEnded]]
    BY <1>20, <2>1, <2>2 DEF ReportCommit
  <2>4. steps' \in [Runs -> [Items -> Nat]]
    <3>1. steps[t.run][t.item] \in Nat BY <2>1
    <3>2. CASE t.accepted
      <4>1. steps' = [steps EXCEPT ![t.run][t.item] = @ + 1]
        BY <1>20, <3>2 DEF ReportCommit
      <4> QED BY <2>1, <3>1, <4>1
    <3>3. CASE ~t.accepted
      <4>1. steps' = [steps EXCEPT ![t.run][t.item] = @]
        BY <1>20, <3>3 DEF ReportCommit
      <4> QED BY <2>1, <3>1, <4>1
    <3> QED BY <3>2, <3>3
  <2>5. runStatus' \in [Runs -> {"NONE", "RUNNING"} \cup RunEnded]
    BY <1>20, <2>1 DEF ReportCommit, Ends
  <2>6. finishes' \in [Runs -> Nat]
    <3>1. finishes \in [Runs -> Nat] /\ finishes[t.run] \in Nat BY <2>1
    <3>2. CASE Ends(t)
      <4>1. finishes' = [finishes EXCEPT ![t.run] = finishes[t.run] + 1]
        BY <1>20, <3>2 DEF ReportCommit
      <4>2. finishes[t.run] + 1 \in Nat BY <3>1
      <4> QED BY <3>1, <4>1, <4>2
    <3>3. CASE ~Ends(t)
      <4>1. finishes' = [finishes EXCEPT ![t.run] = finishes[t.run]]
        BY <1>20, <3>3 DEF ReportCommit
      <4> QED BY <3>1, <4>1
    <3> QED BY <3>2, <3>3
  <2>7. waiter' \in [Runs -> {"none", "registered", "taken", "delivered"}]
    BY <1>20 DEF ReportCommit, Answer
  <2>8. tx' \subseteq Tx BY <1>20 DEF ReportCommit
  <2> QED
    BY <1>20, <2>3, <2>4, <2>5, <2>6, <2>7, <2>8 DEF ReportCommit
<1>21. ASSUME NEW t \in tx, ReportRollback(t) PROVE TypeOK' /\ LoopBound'
  BY <1>21 DEF Runs, ReportRollback, Answer
<1>22. ASSUME NEW r \in Runs, Cancel(r) PROVE TypeOK' /\ LoopBound'
  BY <1>22 DEF Runs, Cancel, CloseCases
<1>23. ASSUME NEW r \in Runs, Age(r) PROVE TypeOK' /\ LoopBound'
  BY <1>23 DEF Runs, Age
<1>24. ASSUME NEW r \in Runs, ReapCases(r) PROVE TypeOK' /\ LoopBound'
  BY <1>24 DEF Runs, ReapCases, CloseCases
<1>25. ASSUME NEW r \in Runs, ReapRun(r) PROVE TypeOK' /\ LoopBound'
  BY <1>25 DEF Runs, ReapRun
<1>26. ASSUME ReapScan PROVE TypeOK' /\ LoopBound'
  BY <1>26 DEF Runs, ReapScan, RunningRuns
<1>27. ASSUME Restart PROVE TypeOK' /\ LoopBound'
  BY <1>27 DEF Runs, Restart, CloseCases
<1>28. ASSUME UNCHANGED vars PROVE TypeOK' /\ LoopBound'
  BY <1>28 DEF Runs
<1> HIDE DEF TypeOK, LoopBound, IInv, IdleIsFresh, PlanPc, AheadNotSent,
         ReportsWereSent, AcceptedIsOpen, StepsHaveVerdict, FinishedHasEnded
<1> QED
  BY <1>1, <1>2, <1>3, <1>4, <1>5, <1>6, <1>7, <1>8, <1>9, <1>10, <1>11, <1>12, <1>13, <1>14, <1>15, <1>16, <1>17, <1>18, <1>19, <1>20, <1>21, <1>22, <1>23, <1>24, <1>25, <1>26, <1>27, <1>28
  DEF Next, Trigger, Debug, HandleTaskResult, ReapStaleRuns, vars

(* A goroutine that moves on to its next item leaves what lies ahead of it   *)
(* unsent, and the other goroutines alone.                                  *)
LEMMA AdvanceKeepsAhead ==
  ASSUME NEW r \in PlanRuns, AheadNotSent, pc[r] \in Looping,
         \A q \in Runs : q # r =>
           pc'[q] = pc[q] /\ next'[q] = next[q] /\ task'[q] = task[q],
         \A i \in Items : i >= next'[r] => i >= next[r] /\ task'[r][i] = task[r][i]
  PROVE  AheadNotSent'
<1> SUFFICES ASSUME NEW q \in PlanRuns, pc'[q] \in Looping,
                    NEW i \in Items, i >= next'[q]
             PROVE  task'[q][i] = "none"
  BY DEF AheadNotSent, Looping
<1>1. CASE q = r BY <1>1 DEF AheadNotSent
<1>2. CASE q # r BY <1>2 DEF AheadNotSent, Runs
<1> QED BY <1>1, <1>2

(* Closing the open cases of a run leaves the reported verdicts alone.       *)
LEMMA ClosingKeepsVerdicts ==
  ASSUME StepsHaveVerdict, steps' = steps, task' = task,
         \A r \in Runs, i \in Items :
           crStatus[r][i] # "RUNNING" => crStatus'[r][i] = crStatus[r][i]
  PROVE  StepsHaveVerdict'
<1> SUFFICES ASSUME NEW r \in Runs, NEW i \in Items, steps'[r][i] > 0
             PROVE  crStatus'[r][i] \in {"PASSED", "FAILED"} /\ task'[r][i] # "none"
  BY DEF StepsHaveVerdict
<1>1. crStatus[r][i] \in {"PASSED", "FAILED"} /\ task[r][i] # "none"
  BY DEF StepsHaveVerdict
<1> QED BY <1>1

(* What has been sent: no task before its goroutine starts, none for the     *)
(* items ahead, and every report comes from a sent task.                    *)
LEMMA SentStep ==
  ASSUME IInv, [Next]_vars
  PROVE  IdleIsFresh' /\ PlanPc' /\ AheadNotSent' /\ ReportsWereSent'
<1> USE RunLifecycleAssumption
    DEF IInv, TypeOK, LoopBound, IdleIsFresh, PlanPc, AheadNotSent, ReportsWereSent,
        Looping, Runs, rows, procs, reap, vars
<1>1. ASSUME NEW r \in PlanRuns, TriggerStart(r) PROVE IdleIsFresh' /\ PlanPc' /\ AheadNotSent' /\ ReportsWereSent'
  BY <1>1 DEF PcValues, TriggerStart, Go
<1>2. ASSUME NEW r \in PlanRuns, SkipItem(r) PROVE IdleIsFresh' /\ PlanPc' /\ AheadNotSent' /\ ReportsWereSent'
  <2>1. /\ pc' = [pc EXCEPT ![r] = "item"] /\ pc[r] \in Looping
        /\ task' = task /\ reports' = reports /\ tx' = tx
        /\ \A q \in Runs : q # r => runStatus'[q] = runStatus[q]
    BY <1>2 DEF SkipItem, NextItem, Go
  <2>2. /\ next'[r] = next[r] + 1 /\ next[r] \in Nat
        /\ \A q \in Runs : q # r => next'[q] = next[q]
    BY <1>2 DEF SkipItem, NextItem
  <2>3. \A i \in Items : i >= next'[r] => i >= next[r] BY <2>2
  <2>4. IdleIsFresh' /\ PlanPc' /\ ReportsWereSent' BY <2>1, <1>2 DEF SkipItem, PcValues
  <2>5. AheadNotSent'
    <3>1. \A q \in Runs : q # r =>
             pc'[q] = pc[q] /\ next'[q] = next[q] /\ task'[q] = task[q]
      BY <2>1, <2>2
    <3>2. \A i \in Items : i >= next'[r] => i >= next[r] /\ task'[r][i] = task[r][i]
      BY <2>1, <2>3
    <3> HIDE DEF IInv, TypeOK, AheadNotSent, Looping, Runs
    <3> QED BY <2>1, <3>1, <3>2, AdvanceKeepsAhead DEF IInv
  <2> QED BY <2>4, <2>5
<1>3. ASSUME NEW r \in PlanRuns, CreateCase(r) PROVE IdleIsFresh' /\ PlanPc' /\ AheadNotSent' /\ ReportsWereSent'
  BY <1>3, SMTT(20) DEF PcValues, CreateCase, ItemsLeft, Go
<1>4. ASSUME NEW r \in PlanRuns, DispatchOk(r) PROVE IdleIsFresh' /\ PlanPc' /\ AheadNotSent' /\ ReportsWereSent'
  <2>1. /\ pc' = [pc EXCEPT ![r] = "item"] /\ pc[r] = "dispatch"
        /\ reports' = reports /\ tx' = tx /\ runStatus' = runStatus
        /\ task' = [task EXCEPT ![r][next[r]] = "sent"]
    BY <1>4 DEF DispatchOk, NextItem, Go
  <2>2. /\ next'[r] = next[r] + 1 /\ next[r] \in Nat
        /\ \A q \in Runs : q # r => next'[q] = next[q]
    BY <1>4 DEF DispatchOk, NextItem
  <2>3. \A i \in Items : i >= next'[r] => i >= next[r] /\ task'[r][i] = task[r][i]
    BY <2>1, <2>2, SMTT(20) DEF Items
  <2>4. \A q \in Runs : q # r => task'[q] = task[q] /\ pc'[q] = pc[q]
    BY <2>1
  <2>5. \A q \in Runs, i \in Items : task[q][i] # "none" => task'[q][i] # "none"
    BY <2>1
  <2>6. pc'[r] = "item" BY <2>1
  <2>7. IdleIsFresh' BY <2>1, <2>4, <2>6
  <2>8. PlanPc' BY <2>4, <2>6
  <2>9. AheadNotSent'
    <3>1. pc[r] \in Looping BY <2>1
    <3> HIDE DEF IInv, TypeOK, AheadNotSent, Looping, Runs
    <3> QED BY <2>2, <2>3, <2>4, <3>1, AdvanceKeepsAhead DEF IInv
  <2>10. ReportsWereSent' BY <2>1, <2>5 DEF Report, Tx
  <2> QED BY <2>7, <2>8, <2>9, <2>10
<1>5. ASSUME NEW r \in PlanRuns, DispatchFail(r) PROVE IdleIsFresh' /\ PlanPc' /\ AheadNotSent' /\ ReportsWereSent'
  BY <1>5, SMTT(20) DEF PcValues, DispatchFail, Go
<1>6. ASSUME NEW r \in PlanRuns, FailCase(r) PROVE IdleIsFresh' /\ PlanPc' /\ AheadNotSent' /\ ReportsWereSent'
  <2>1. /\ pc' = [pc EXCEPT ![r] = "item"] /\ pc[r] \in Looping
        /\ task' = task /\ reports' = reports /\ tx' = tx
        /\ \A q \in Runs : q # r => runStatus'[q] = runStatus[q]
    BY <1>6 DEF FailCase, NextItem, Go
  <2>2. /\ next'[r] = next[r] + 1 /\ next[r] \in Nat
        /\ \A q \in Runs : q # r => next'[q] = next[q]
    BY <1>6 DEF FailCase, NextItem
  <2>3. \A i \in Items : i >= next'[r] => i >= next[r] BY <2>2
  <2>4. IdleIsFresh' /\ PlanPc' /\ ReportsWereSent' BY <2>1, <1>6 DEF FailCase, PcValues
  <2>5. AheadNotSent'
    <3>1. \A q \in Runs : q # r =>
             pc'[q] = pc[q] /\ next'[q] = next[q] /\ task'[q] = task[q]
      BY <2>1, <2>2
    <3>2. \A i \in Items : i >= next'[r] => i >= next[r] /\ task'[r][i] = task[r][i]
      BY <2>1, <2>3
    <3> HIDE DEF IInv, TypeOK, AheadNotSent, Looping, Runs
    <3> QED BY <2>1, <3>1, <3>2, AdvanceKeepsAhead DEF IInv
  <2> QED BY <2>4, <2>5
<1>7. ASSUME NEW r \in PlanRuns, TriggerEnd(r) PROVE IdleIsFresh' /\ PlanPc' /\ AheadNotSent' /\ ReportsWereSent'
  BY <1>7 DEF PcValues, TriggerEnd, Go
<1>8. ASSUME NEW r \in DebugRuns, DebugStart(r) PROVE IdleIsFresh' /\ PlanPc' /\ AheadNotSent' /\ ReportsWereSent'
  BY <1>8 DEF PcValues, DebugStart, Go
<1>9. ASSUME NEW r \in DebugRuns, DebugResolveFail(r) PROVE IdleIsFresh' /\ PlanPc' /\ AheadNotSent' /\ ReportsWereSent'
  BY <1>9 DEF PcValues, DebugResolveFail, Go
<1>10. ASSUME NEW r \in DebugRuns, DebugDispatchOk(r) PROVE IdleIsFresh' /\ PlanPc' /\ AheadNotSent' /\ ReportsWereSent'
  BY <1>10 DEF PcValues, DebugDispatchOk, Go
<1>11. ASSUME NEW r \in DebugRuns, DebugDispatchFail(r) PROVE IdleIsFresh' /\ PlanPc' /\ AheadNotSent' /\ ReportsWereSent'
  BY <1>11 DEF PcValues, DebugDispatchFail, Go
<1>12. ASSUME NEW r \in DebugRuns, DebugAnswered(r) PROVE IdleIsFresh' /\ PlanPc' /\ AheadNotSent' /\ ReportsWereSent'
  BY <1>12 DEF PcValues, DebugAnswered, Go
<1>13. ASSUME NEW r \in DebugRuns, DebugTimeout(r) PROVE IdleIsFresh' /\ PlanPc' /\ AheadNotSent' /\ ReportsWereSent'
  BY <1>13 DEF PcValues, DebugTimeout, Go
<1>14. ASSUME NEW r \in DebugRuns, DebugFailCase(r) PROVE IdleIsFresh' /\ PlanPc' /\ AheadNotSent' /\ ReportsWereSent'
  <2>1. /\ pc[r] \in {"errCase", "toCase"}
        /\ \/ pc' = [pc EXCEPT ![r] = "errRun"]
           \/ pc' = [pc EXCEPT ![r] = "toRun"]
        /\ next' = next /\ task' = task /\ reports' = reports /\ tx' = tx
        /\ runStatus' = runStatus
    BY <1>14 DEF DebugFailCase, Go
  <2>2. r \notin PlanRuns BY <1>14
  <2>3. IdleIsFresh' BY <2>1
  <2>4. PlanPc' /\ AheadNotSent'
    <3>1. pc \in [Runs -> PcValues] OBVIOUS
    <3>2. \A q \in PlanRuns : pc'[q] = pc[q] BY <2>1, <2>2, <3>1
    <3>3. PlanPc /\ AheadNotSent OBVIOUS
    <3> HIDE DEF TypeOK, IInv
    <3> QED BY <2>1, <3>2, <3>3
  <2>5. ReportsWereSent' BY <2>1
  <2> QED BY <2>3, <2>4, <2>5
<1>15. ASSUME NEW r \in DebugRuns, DebugFailRun(r) PROVE IdleIsFresh' /\ PlanPc' /\ AheadNotSent' /\ ReportsWereSent'
  BY <1>15 DEF PcValues, DebugFailRun, Go
<1>16. ASSUME NEW r \in Runs, NEW i \in Items, LoseTask(r, i) PROVE IdleIsFresh' /\ PlanPc' /\ AheadNotSent' /\ ReportsWereSent'
  BY <1>16 DEF PcValues, LoseTask
<1>17. ASSUME NEW r \in Runs, NEW i \in Items, NEW v \in Verdicts, WorkerReport(r, i, v) PROVE IdleIsFresh' /\ PlanPc' /\ AheadNotSent' /\ ReportsWereSent'
  <2>1. /\ task[r][i] = "sent" /\ task' = [task EXCEPT ![r][i] = "done"]
        /\ reports' = reports \cup {[run |-> r, item |-> i, verdict |-> v]}
        /\ pc' = pc /\ next' = next /\ tx' = tx /\ runStatus' = runStatus
    BY <1>17 DEF WorkerReport
  <2>2. \A q \in Runs, j \in Items : task'[q][j] = "none" <=> task[q][j] = "none"
    BY <2>1
  <2>3. task'[r][i] # "none" BY <2>1
  <2>4. IdleIsFresh' BY <2>1, <2>2
  <2>5. PlanPc' BY <2>1
  <2>6. AheadNotSent' BY <2>1, <2>2
  <2>7. ReportsWereSent' BY <2>1, <2>2, <2>3 DEF Report, Tx
  <2> QED BY <2>4, <2>5, <2>6, <2>7
<1>18. ASSUME NEW m \in reports, ReportBegin(m) PROVE IdleIsFresh' /\ PlanPc' /\ AheadNotSent' /\ ReportsWereSent'
  BY <1>18 DEF PcValues, ReportBegin, Accepts, Report, Tx
<1>19. ASSUME NEW t \in tx, ReportCount(t) PROVE IdleIsFresh' /\ PlanPc' /\ AheadNotSent' /\ ReportsWereSent'
  <2> DEFINE u == [t EXCEPT !.finish = Conclusion(t)]
  <2>1. u.run = t.run /\ u.item = t.item BY <1>19 DEF Tx
  <2>2. /\ tx' = (tx \ {t}) \cup {u}
        /\ task' = task /\ reports' = reports
    BY <1>19 DEF ReportCount
  <2>3. ReportsWereSent'
    <3> HIDE DEF u, TypeOK
    <3> QED BY <1>19, <2>1, <2>2
  <2> QED BY <1>19, <2>3 DEF ReportCount
<1>20. ASSUME NEW t \in tx, ReportCommit(t) PROVE IdleIsFresh' /\ PlanPc' /\ AheadNotSent' /\ ReportsWereSent'
  BY <1>20 DEF PcValues, ReportCommit, Answer, Seen, Ends, Tx
<1>21. ASSUME NEW t \in tx, ReportRollback(t) PROVE IdleIsFresh' /\ PlanPc' /\ AheadNotSent' /\ ReportsWereSent'
  BY <1>21 DEF PcValues, ReportRollback, Answer
<1>22. ASSUME NEW r \in Runs, Cancel(r) PROVE IdleIsFresh' /\ PlanPc' /\ AheadNotSent' /\ ReportsWereSent'
  BY <1>22 DEF PcValues, Cancel, CloseCases
<1>23. ASSUME NEW r \in Runs, Age(r) PROVE IdleIsFresh' /\ PlanPc' /\ AheadNotSent' /\ ReportsWereSent'
  BY <1>23 DEF PcValues, Age
<1>24. ASSUME NEW r \in Runs, ReapCases(r) PROVE IdleIsFresh' /\ PlanPc' /\ AheadNotSent' /\ ReportsWereSent'
  BY <1>24 DEF PcValues, ReapCases, CloseCases
<1>25. ASSUME NEW r \in Runs, ReapRun(r) PROVE IdleIsFresh' /\ PlanPc' /\ AheadNotSent' /\ ReportsWereSent'
  BY <1>25 DEF PcValues, ReapRun
<1>26. ASSUME ReapScan PROVE IdleIsFresh' /\ PlanPc' /\ AheadNotSent' /\ ReportsWereSent'
  BY <1>26 DEF PcValues, ReapScan, RunningRuns
<1>27. ASSUME Restart PROVE IdleIsFresh' /\ PlanPc' /\ AheadNotSent' /\ ReportsWereSent'
  BY <1>27 DEF PcValues, Restart, CloseCases
<1>28. ASSUME UNCHANGED vars PROVE IdleIsFresh' /\ PlanPc' /\ AheadNotSent' /\ ReportsWereSent'
  BY <1>28 DEF PcValues
<1> HIDE DEF TypeOK, LoopBound, IInv, IdleIsFresh, PlanPc, AheadNotSent,
         ReportsWereSent, AcceptedIsOpen, StepsHaveVerdict, FinishedHasEnded
<1> QED
  BY <1>1, <1>2, <1>3, <1>4, <1>5, <1>6, <1>7, <1>8, <1>9, <1>10, <1>11, <1>12, <1>13, <1>14, <1>15, <1>16, <1>17, <1>18, <1>19, <1>20, <1>21, <1>22, <1>23, <1>24, <1>25, <1>26, <1>27, <1>28
  DEF Next, Trigger, Debug, HandleTaskResult, ReapStaleRuns, vars

(* What has been decided: an accepting transaction keeps its row RUNNING,    *)
(* stored steps have a verdict, an announced run has ended.                 *)
LEMMA VerdictStep ==
  ASSUME IInv, [Next]_vars
  PROVE  AcceptedIsOpen' /\ StepsHaveVerdict' /\ FinishedHasEnded'
<1> USE RunLifecycleAssumption
    DEF IInv, TypeOK, LoopBound, AcceptedIsOpen, StepsHaveVerdict, FinishedHasEnded,
        Looping, Runs, RowsFree, Dispatched, RunEnded, CaseEnded, rows, procs, reap, vars
<1>1. ASSUME NEW r \in PlanRuns, TriggerStart(r) PROVE AcceptedIsOpen' /\ StepsHaveVerdict' /\ FinishedHasEnded'
  BY <1>1 DEF IdleIsFresh, AheadNotSent, ReportsWereSent, PlanPc, TriggerStart, Go
<1>2. ASSUME NEW r \in PlanRuns, SkipItem(r) PROVE AcceptedIsOpen' /\ StepsHaveVerdict' /\ FinishedHasEnded'
  BY <1>2 DEF IdleIsFresh, AheadNotSent, ReportsWereSent, PlanPc, SkipItem, ItemsLeft, NextItem, Go
<1>3. ASSUME NEW r \in PlanRuns, CreateCase(r) PROVE AcceptedIsOpen' /\ StepsHaveVerdict' /\ FinishedHasEnded'
  BY <1>3 DEF IdleIsFresh, AheadNotSent, ReportsWereSent, PlanPc, CreateCase, ItemsLeft, Go
<1>4. ASSUME NEW r \in PlanRuns, DispatchOk(r) PROVE AcceptedIsOpen' /\ StepsHaveVerdict' /\ FinishedHasEnded'
  BY <1>4 DEF IdleIsFresh, AheadNotSent, ReportsWereSent, PlanPc, DispatchOk, NextItem, Go
<1>5. ASSUME NEW r \in PlanRuns, DispatchFail(r) PROVE AcceptedIsOpen' /\ StepsHaveVerdict' /\ FinishedHasEnded'
  BY <1>5 DEF IdleIsFresh, AheadNotSent, ReportsWereSent, PlanPc, DispatchFail, Go
<1>6. ASSUME NEW r \in PlanRuns, FailCase(r) PROVE AcceptedIsOpen' /\ StepsHaveVerdict' /\ FinishedHasEnded'
  BY <1>6, SMTT(20) DEF IdleIsFresh, AheadNotSent, ReportsWereSent, PlanPc, FailCase, NextItem, Go
<1>7. ASSUME NEW r \in PlanRuns, TriggerEnd(r) PROVE AcceptedIsOpen' /\ StepsHaveVerdict' /\ FinishedHasEnded'
  BY <1>7 DEF IdleIsFresh, AheadNotSent, ReportsWereSent, PlanPc, TriggerEnd, Go
<1>8. ASSUME NEW r \in DebugRuns, DebugStart(r) PROVE AcceptedIsOpen' /\ StepsHaveVerdict' /\ FinishedHasEnded'
  BY <1>8 DEF IdleIsFresh, AheadNotSent, ReportsWereSent, PlanPc, DebugStart, Go
<1>9. ASSUME NEW r \in DebugRuns, DebugResolveFail(r) PROVE AcceptedIsOpen' /\ StepsHaveVerdict' /\ FinishedHasEnded'
  BY <1>9 DEF IdleIsFresh, AheadNotSent, ReportsWereSent, PlanPc, DebugResolveFail, Go
<1>10. ASSUME NEW r \in DebugRuns, DebugDispatchOk(r) PROVE AcceptedIsOpen' /\ StepsHaveVerdict' /\ FinishedHasEnded'
  BY <1>10 DEF IdleIsFresh, AheadNotSent, ReportsWereSent, PlanPc, DebugDispatchOk, Go
<1>11. ASSUME NEW r \in DebugRuns, DebugDispatchFail(r) PROVE AcceptedIsOpen' /\ StepsHaveVerdict' /\ FinishedHasEnded'
  BY <1>11 DEF IdleIsFresh, AheadNotSent, ReportsWereSent, PlanPc, DebugDispatchFail, Go
<1>12. ASSUME NEW r \in DebugRuns, DebugAnswered(r) PROVE AcceptedIsOpen' /\ StepsHaveVerdict' /\ FinishedHasEnded'
  BY <1>12 DEF IdleIsFresh, AheadNotSent, ReportsWereSent, PlanPc, DebugAnswered, Go
<1>13. ASSUME NEW r \in DebugRuns, DebugTimeout(r) PROVE AcceptedIsOpen' /\ StepsHaveVerdict' /\ FinishedHasEnded'
  BY <1>13 DEF IdleIsFresh, AheadNotSent, ReportsWereSent, PlanPc, DebugTimeout, Go
<1>14. ASSUME NEW r \in DebugRuns, DebugFailCase(r) PROVE AcceptedIsOpen' /\ StepsHaveVerdict' /\ FinishedHasEnded'
  BY <1>14 DEF IdleIsFresh, AheadNotSent, ReportsWereSent, PlanPc, DebugFailCase, Go
<1>15. ASSUME NEW r \in DebugRuns, DebugFailRun(r) PROVE AcceptedIsOpen' /\ StepsHaveVerdict' /\ FinishedHasEnded'
  <2>1. /\ crStatus' = crStatus /\ steps' = steps /\ finishes' = finishes
        /\ task' = task /\ tx' = tx
    BY <1>15 DEF DebugFailRun
  <2>2. \/ runStatus' = [runStatus EXCEPT ![r] = "FAILED"]
        \/ runStatus' = [runStatus EXCEPT ![r] = "ABORTED"]
    BY <1>15 DEF DebugFailRun
  <2> QED BY <2>1, <2>2
<1>16. ASSUME NEW r \in Runs, NEW i \in Items, LoseTask(r, i) PROVE AcceptedIsOpen' /\ StepsHaveVerdict' /\ FinishedHasEnded'
  BY <1>16 DEF IdleIsFresh, AheadNotSent, ReportsWereSent, PlanPc, LoseTask
<1>17. ASSUME NEW r \in Runs, NEW i \in Items, NEW v \in Verdicts, WorkerReport(r, i, v) PROVE AcceptedIsOpen' /\ StepsHaveVerdict' /\ FinishedHasEnded'
  BY <1>17 DEF IdleIsFresh, AheadNotSent, ReportsWereSent, PlanPc, WorkerReport, Report
<1>18. ASSUME NEW m \in reports, ReportBegin(m) PROVE AcceptedIsOpen' /\ StepsHaveVerdict' /\ FinishedHasEnded'
  <2> DEFINE u == [run |-> m.run, item |-> m.item, verdict |-> m.verdict,
                   accepted |-> Accepts(m), finish |-> "uncounted"]
  <2>1. tx' = tx \cup {u} BY <1>18 DEF ReportBegin
  <2>2. /\ u.accepted => u.verdict # "EMPTY" /\ crStatus[u.run][u.item] = "RUNNING"
        /\ \A t \in tx : t.run = u.run /\ t.item = u.item => ~t.accepted
    BY <1>18 DEF ReportBegin, Accepts
  <2>3. AcceptedIsOpen' BY <1>18, <2>1, <2>2 DEF ReportBegin
  <2> QED BY <1>18, <2>3 DEF ReportBegin
<1>19. ASSUME NEW t \in tx, ReportCount(t) PROVE AcceptedIsOpen' /\ StepsHaveVerdict' /\ FinishedHasEnded'
  <2> DEFINE u == [t EXCEPT !.finish = Conclusion(t)]
  <2>1. /\ u.run = t.run /\ u.item = t.item /\ u.verdict = t.verdict
        /\ u.accepted = t.accepted
    BY <1>19 DEF Tx
  <2>2. tx' = (tx \ {t}) \cup {u} /\ crStatus' = crStatus
    BY <1>19 DEF ReportCount
  <2>3. AcceptedIsOpen'
    <3> HIDE DEF u, TypeOK
    <3> QED BY <1>19, <2>1, <2>2
  <2> QED BY <1>19, <2>3 DEF ReportCount
<1>20. ASSUME NEW t \in tx, ReportCommit(t) PROVE AcceptedIsOpen' /\ StepsHaveVerdict' /\ FinishedHasEnded'
  <2>1. /\ t.run \in Runs /\ t.item \in Items /\ t.verdict \in Verdicts
        /\ t.accepted \in BOOLEAN /\ task[t.run][t.item] # "none"
        /\ t.finish \in {"no", "PASSED", "FAILED"}
    BY <1>20 DEF ReportCommit, Tx, ReportsWereSent
  <2>2. \A u \in tx : u.run \in Runs /\ u.item \in Items BY DEF Tx
  <2>3. /\ task' = task /\ tx' = tx \ {t}
        /\ \A q \in Runs, k \in Items : ~(q = t.run /\ k = t.item) =>
             crStatus'[q][k] = crStatus[q][k] /\ steps'[q][k] = steps[q][k]
    BY <1>20, <2>1 DEF ReportCommit
  <2>4. AcceptedIsOpen /\ StepsHaveVerdict OBVIOUS
  <2>5. t.accepted => /\ crStatus'[t.run][t.item] = t.verdict
                      /\ t.verdict \in {"PASSED", "FAILED"}
    BY <1>20, <2>1 DEF ReportCommit, Seen, Verdicts
  <2>6. ~t.accepted => /\ crStatus'[t.run][t.item] = crStatus[t.run][t.item]
                       /\ steps'[t.run][t.item] = steps[t.run][t.item]
    BY <1>20, <2>1 DEF ReportCommit, Seen
  <2>7. AcceptedIsOpen'
    <3> HIDE DEF TypeOK, IInv, FinishedHasEnded, StepsHaveVerdict
    <3> QED BY <2>2, <2>3, <2>4, <2>6
  <2>8. StepsHaveVerdict'
    <3> HIDE DEF TypeOK, IInv, FinishedHasEnded, AcceptedIsOpen
    <3> QED BY <2>1, <2>3, <2>4, <2>5, <2>6
  <2>9. /\ \A q \in Runs : q # t.run =>
             runStatus'[q] = runStatus[q] /\ finishes'[q] = finishes[q]
        /\ \/ runStatus'[t.run] = runStatus[t.run] /\ finishes'[t.run] = finishes[t.run]
           \/ /\ runStatus[t.run] = "RUNNING"
              /\ finishes'[t.run] = finishes[t.run] + 1
              /\ runStatus'[t.run] = t.finish /\ t.finish # "no"
    BY <1>20, <2>1 DEF ReportCommit, Ends
  <2>10. Dispatched(t.run) /\ FinishedHasEnded
         /\ finishes[t.run] \in Nat BY <2>1
  <2>11. \A q \in Runs : Dispatched(q)' = Dispatched(q) BY <2>3
  <2>12. FinishedHasEnded'
    <3> HIDE DEF TypeOK, IInv, Dispatched, AcceptedIsOpen, StepsHaveVerdict
    <3> QED BY <2>1, <2>9, <2>10, <2>11
  <2> QED BY <2>7, <2>8, <2>12
<1>21. ASSUME NEW t \in tx, ReportRollback(t) PROVE AcceptedIsOpen' /\ StepsHaveVerdict' /\ FinishedHasEnded'
  BY <1>21 DEF IdleIsFresh, AheadNotSent, ReportsWereSent, PlanPc, ReportRollback, Answer
<1>22. ASSUME NEW r \in Runs, Cancel(r) PROVE AcceptedIsOpen' /\ StepsHaveVerdict' /\ FinishedHasEnded'
  <2>1. /\ steps' = steps /\ finishes' = finishes /\ task' = task /\ tx' = tx
        /\ \A q \in Runs : q # r => crStatus'[q] = crStatus[q]
        /\ \A i \in Items : crStatus[r][i] # "RUNNING" =>
             crStatus'[r][i] = crStatus[r][i]
    BY <1>22 DEF Cancel, CloseCases
  <2>2. \A t \in tx : t.run = r => ~t.accepted
    BY <1>22 DEF Cancel, Tx
  <2>3. AcceptedIsOpen'
    <3>1. \A t \in tx : t.run \in Runs BY DEF Tx
    <3> QED BY <2>1, <2>2, <3>1, SMTT(20)
  <2>4. StepsHaveVerdict'
    <3>1. \A q \in Runs, i \in Items :
             crStatus[q][i] # "RUNNING" => crStatus'[q][i] = crStatus[q][i]
      BY <2>1
    <3> HIDE DEF IInv, TypeOK, StepsHaveVerdict, Runs
    <3> QED BY <2>1, <3>1, ClosingKeepsVerdicts DEF IInv
  <2>5. FinishedHasEnded' BY <1>22, <2>1 DEF Cancel
  <2> QED BY <2>3, <2>4, <2>5
<1>23. ASSUME NEW r \in Runs, Age(r) PROVE AcceptedIsOpen' /\ StepsHaveVerdict' /\ FinishedHasEnded'
  BY <1>23 DEF IdleIsFresh, AheadNotSent, ReportsWereSent, PlanPc, Age
<1>24. ASSUME NEW r \in Runs, ReapCases(r) PROVE AcceptedIsOpen' /\ StepsHaveVerdict' /\ FinishedHasEnded'
  <2>1. /\ steps' = steps /\ finishes' = finishes /\ task' = task /\ tx' = tx
        /\ \A q \in Runs : q # r => crStatus'[q] = crStatus[q]
        /\ \A i \in Items : crStatus[r][i] # "RUNNING" =>
             crStatus'[r][i] = crStatus[r][i]
    BY <1>24 DEF ReapCases, CloseCases
  <2>2. \A t \in tx : t.run = r => ~t.accepted
    BY <1>24 DEF ReapCases, Tx
  <2>3. AcceptedIsOpen'
    <3>1. \A t \in tx : t.run \in Runs BY DEF Tx
    <3> QED BY <2>1, <2>2, <3>1, SMTT(20)
  <2>4. StepsHaveVerdict'
    <3>1. \A q \in Runs, i \in Items :
             crStatus[q][i] # "RUNNING" => crStatus'[q][i] = crStatus[q][i]
      BY <2>1
    <3> HIDE DEF IInv, TypeOK, StepsHaveVerdict, Runs
    <3> QED BY <2>1, <3>1, ClosingKeepsVerdicts DEF IInv
  <2>5. FinishedHasEnded' BY <1>24, <2>1 DEF ReapCases
  <2> QED BY <2>3, <2>4, <2>5
<1>25. ASSUME NEW r \in Runs, ReapRun(r) PROVE AcceptedIsOpen' /\ StepsHaveVerdict' /\ FinishedHasEnded'
  BY <1>25 DEF IdleIsFresh, AheadNotSent, ReportsWereSent, PlanPc, ReapRun
<1>26. ASSUME ReapScan PROVE AcceptedIsOpen' /\ StepsHaveVerdict' /\ FinishedHasEnded'
  BY <1>26 DEF IdleIsFresh, AheadNotSent, ReportsWereSent, PlanPc, ReapScan, RunningRuns
<1>27. ASSUME Restart PROVE AcceptedIsOpen' /\ StepsHaveVerdict' /\ FinishedHasEnded'
  BY <1>27 DEF IdleIsFresh, AheadNotSent, ReportsWereSent, PlanPc, Restart, CloseCases
<1>28. ASSUME UNCHANGED vars PROVE AcceptedIsOpen' /\ StepsHaveVerdict' /\ FinishedHasEnded'
  BY <1>28 DEF IdleIsFresh, AheadNotSent, ReportsWereSent, PlanPc
<1> HIDE DEF TypeOK, LoopBound, IInv, IdleIsFresh, PlanPc, AheadNotSent,
         ReportsWereSent, AcceptedIsOpen, StepsHaveVerdict, FinishedHasEnded
<1> QED
  BY <1>1, <1>2, <1>3, <1>4, <1>5, <1>6, <1>7, <1>8, <1>9, <1>10, <1>11, <1>12, <1>13, <1>14, <1>15, <1>16, <1>17, <1>18, <1>19, <1>20, <1>21, <1>22, <1>23, <1>24, <1>25, <1>26, <1>27, <1>28
  DEF Next, Trigger, Debug, HandleTaskResult, ReapStaleRuns, vars

(* IInv is an invariant.                                                    *)
THEOREM Inductive == Spec => []IInv
<1>1. IInv /\ [Next]_vars => IInv'
  <2> SUFFICES ASSUME IInv, [Next]_vars PROVE IInv' OBVIOUS
  <2>1. TypeOK' /\ LoopBound' BY TypeStep DEF IInv
  <2> QED BY <2>1, SentStep, VerdictStep DEF IInv
<1> QED BY InitIInv, <1>1, PTL DEF Spec

(* Type correctness.                                                        *)
THEOREM TypeCorrect == Spec => []TypeOK
<1>1. IInv => TypeOK BY DEF IInv
<1> QED BY Inductive, <1>1, PTL

(* A run is announced at most once: once announced it has ended, and nothing *)
(* makes an ended run RUNNING again.                                        *)
THEOREM NotifiedOnce == Spec => []NotifyAtMostOnce
<1>1. IInv => NotifyAtMostOnce
  BY DEF IInv, FinishedHasEnded, NotifyAtMostOnce
<1> QED BY Inductive, <1>1, PTL

(* What each step leaves alone, in the three senses of the next theorems.   *)
Closed ==
  \A r \in Runs, i \in Items : crStatus[r][i] \in CaseEnded =>
    /\ steps'[r][i] = steps[r][i]
    /\ pc' = pc => crStatus'[r][i] = crStatus[r][i]
Reported ==
  \A r \in PlanRuns, i \in Items :
    steps[r][i] > 0 => crStatus'[r][i] = crStatus[r][i]
Announced ==
  \A r \in PlanRuns : finishes[r] > 0 => runStatus'[r] = runStatus[r]

(* No step of Next disturbs a closed case, a reported verdict or an announced *)
(* outcome.                                                                 *)
LEMMA FinalStep ==
  ASSUME IInv, [Next]_vars PROVE Closed /\ Reported /\ Announced
<1> USE RunLifecycleAssumption
    DEF IInv, TypeOK, LoopBound, IdleIsFresh, PlanPc, AheadNotSent, StepsHaveVerdict,
        FinishedHasEnded, Closed, Reported, Announced, Looping, Runs, RunEnded, CaseEnded,
        rows, procs, reap, vars
<1>1. ASSUME NEW r \in PlanRuns, TriggerStart(r) PROVE Closed /\ Reported /\ Announced
  BY <1>1 DEF TriggerStart, Go
<1>2. ASSUME NEW r \in PlanRuns, SkipItem(r) PROVE Closed /\ Reported /\ Announced
  BY <1>2 DEF SkipItem, ItemsLeft, NextItem, Go
<1>3. ASSUME NEW r \in PlanRuns, CreateCase(r) PROVE Closed /\ Reported /\ Announced
  BY <1>3 DEF CreateCase, ItemsLeft, Go
<1>4. ASSUME NEW r \in PlanRuns, DispatchOk(r) PROVE Closed /\ Reported /\ Announced
  BY <1>4 DEF DispatchOk, NextItem, Go
<1>5. ASSUME NEW r \in PlanRuns, DispatchFail(r) PROVE Closed /\ Reported /\ Announced
  BY <1>5 DEF DispatchFail, Go
<1>6. ASSUME NEW r \in PlanRuns, FailCase(r) PROVE Closed /\ Reported /\ Announced
  BY <1>6 DEF FailCase, NextItem, Go
<1>7. ASSUME NEW r \in PlanRuns, TriggerEnd(r) PROVE Closed /\ Reported /\ Announced
  BY <1>7 DEF TriggerEnd, Go
<1>8. ASSUME NEW r \in DebugRuns, DebugStart(r) PROVE Closed /\ Reported /\ Announced
  BY <1>8 DEF DebugStart, Go
<1>9. ASSUME NEW r \in DebugRuns, DebugResolveFail(r) PROVE Closed /\ Reported /\ Announced
  BY <1>9 DEF DebugResolveFail, Go
<1>10. ASSUME NEW r \in DebugRuns, DebugDispatchOk(r) PROVE Closed /\ Reported /\ Announced
  BY <1>10 DEF DebugDispatchOk, Go
<1>11. ASSUME NEW r \in DebugRuns, DebugDispatchFail(r) PROVE Closed /\ Reported /\ Announced
  BY <1>11 DEF DebugDispatchFail, Go
<1>12. ASSUME NEW r \in DebugRuns, DebugAnswered(r) PROVE Closed /\ Reported /\ Announced
  BY <1>12 DEF DebugAnswered, Go
<1>13. ASSUME NEW r \in DebugRuns, DebugTimeout(r) PROVE Closed /\ Reported /\ Announced
  BY <1>13 DEF DebugTimeout, Go
<1>14. ASSUME NEW r \in DebugRuns, DebugFailCase(r) PROVE Closed /\ Reported /\ Announced
  BY <1>14 DEF DebugFailCase, Go
<1>15. ASSUME NEW r \in DebugRuns, DebugFailRun(r) PROVE Closed /\ Reported /\ Announced
  BY <1>15 DEF DebugFailRun, Go
<1>16. ASSUME NEW r \in Runs, NEW i \in Items, LoseTask(r, i) PROVE Closed /\ Reported /\ Announced
  BY <1>16 DEF LoseTask
<1>17. ASSUME NEW r \in Runs, NEW i \in Items, NEW v \in Verdicts, WorkerReport(r, i, v) PROVE Closed /\ Reported /\ Announced
  BY <1>17 DEF WorkerReport, Report
<1>18. ASSUME NEW m \in reports, ReportBegin(m) PROVE Closed /\ Reported /\ Announced
  BY <1>18 DEF ReportBegin, Accepts, Report, Tx
<1>19. ASSUME NEW t \in tx, ReportCount(t) PROVE Closed /\ Reported /\ Announced
  BY <1>19 DEF ReportCount, Conclusion, Tx
<1>20. ASSUME NEW t \in tx, ReportCommit(t) PROVE Closed /\ Reported /\ Announced
  <2>1. t.run \in Runs /\ t.item \in Items /\ t.accepted \in BOOLEAN BY <1>20 DEF Tx
  <2>2. AcceptedIsOpen /\ StepsHaveVerdict /\ FinishedHasEnded OBVIOUS
  <2>3. \A q \in Runs, k \in Items : ~(q = t.run /\ k = t.item) =>
          crStatus'[q][k] = crStatus[q][k] /\ steps'[q][k] = steps[q][k]
    <3>1. /\ crStatus' = [crStatus EXCEPT ![t.run][t.item] = Seen(t, t.item)]
          /\ steps' = [steps EXCEPT ![t.run][t.item] = IF t.accepted THEN @ + 1 ELSE @]
      BY <1>20 DEF ReportCommit
    <3>2. /\ crStatus \in [Runs -> [Items -> {"NONE", "RUNNING"} \cup CaseEnded]]
          /\ steps \in [Runs -> [Items -> Nat]]
      OBVIOUS
    <3> HIDE DEF IInv, Closed, Reported, Announced
    <3> QED BY <3>1, <3>2, <2>1
  <2>4. \/ crStatus[t.run][t.item] = "RUNNING"
        \/ /\ crStatus'[t.run][t.item] = crStatus[t.run][t.item]
           /\ steps'[t.run][t.item] = steps[t.run][t.item]
    <3>1. CASE t.accepted BY <1>20, <2>2, <3>1 DEF AcceptedIsOpen
    <3>2. CASE ~t.accepted
      <4>1. /\ crStatus' = [crStatus EXCEPT ![t.run][t.item] = Seen(t, t.item)]
            /\ steps' = [steps EXCEPT ![t.run][t.item] = IF t.accepted THEN @ + 1 ELSE @]
        BY <1>20 DEF ReportCommit
      <4>2. /\ crStatus \in [Runs -> [Items -> {"NONE", "RUNNING"} \cup CaseEnded]]
            /\ steps \in [Runs -> [Items -> Nat]]
        OBVIOUS
      <4> HIDE DEF IInv, Closed, Reported, Announced
      <4> QED BY <4>1, <4>2, <2>1, <3>2 DEF Seen
    <3> QED BY <3>1, <3>2
  <2>5. \A q \in Runs : runStatus[q] # "RUNNING" => runStatus'[q] = runStatus[q]
    BY <1>20, <2>1 DEF ReportCommit, Ends
  <2>6. Closed /\ Reported
    <3> HIDE DEF IInv, TypeOK, FinishedHasEnded
    <3> QED BY <2>2, <2>3, <2>4
  <2>7. Announced BY <2>2, <2>5
  <2> QED BY <2>6, <2>7
<1>21. ASSUME NEW t \in tx, ReportRollback(t) PROVE Closed /\ Reported /\ Announced
  BY <1>21 DEF ReportRollback, Answer
<1>22. ASSUME NEW r \in Runs, Cancel(r) PROVE Closed /\ Reported /\ Announced
  BY <1>22 DEF Cancel, CloseCases
<1>23. ASSUME NEW r \in Runs, Age(r) PROVE Closed /\ Reported /\ Announced
  BY <1>23 DEF Age
<1>24. ASSUME NEW r \in Runs, ReapCases(r) PROVE Closed /\ Reported /\ Announced
  BY <1>24 DEF ReapCases, CloseCases
<1>25. ASSUME NEW r \in Runs, ReapRun(r) PROVE Closed /\ Reported /\ Announced
  BY <1>25 DEF ReapRun
<1>26. ASSUME ReapScan PROVE Closed /\ Reported /\ Announced
  BY <1>26 DEF ReapScan, RunningRuns
<1>27. ASSUME Restart PROVE Closed /\ Reported /\ Announced
  BY <1>27 DEF Restart, CloseCases
<1>28. ASSUME UNCHANGED vars PROVE Closed /\ Reported /\ Announced
  BY <1>28
<1> HIDE DEF Closed, Reported, Announced
<1> QED
  BY <1>1, <1>2, <1>3, <1>4, <1>5, <1>6, <1>7, <1>8, <1>9, <1>10, <1>11, <1>12, <1>13, <1>14, <1>15, <1>16, <1>17, <1>18, <1>19, <1>20, <1>21, <1>22, <1>23, <1>24, <1>25, <1>26, <1>27, <1>28
  DEF Next, Trigger, Debug, HandleTaskResult, ReapStaleRuns, vars

(* A late report is discarded: a case that has ended has no accepting       *)
(* transaction, so only the goroutine that dispatched it can still change it. *)
THEOREM LateReportsDiscarded == Spec => LateReportDiscarded
<1>1. IInv /\ [Next]_vars => [Closed]_vars BY FinalStep
<1> QED BY Inductive, <1>1, PTL DEF LateReportDiscarded, Spec, Closed

(* A verdict reported for a case of a plan run is final: FailCase, the one   *)
(* unguarded writer, only reaches items that have not been sent.            *)
THEOREM ReportedVerdictsFinal == Spec => ReportedVerdictFinal
<1>1. IInv /\ [Next]_vars => [Reported]_vars BY FinalStep
<1> QED BY Inductive, <1>1, PTL DEF ReportedVerdictFinal, Spec, Reported

(* An announced outcome of a plan run is final: Trigger's unguarded closing  *)
(* UPDATE is only reached by runs that never dispatched a case.             *)
THEOREM AnnouncedOutcomesFinal == Spec => AnnouncedOutcomeFinal
<1>1. IInv /\ [Next]_vars => [Announced]_vars BY FinalStep
<1> QED BY Inductive, <1>1, PTL DEF AnnouncedOutcomeFinal, Spec, Announced

(* Only the creation of a run makes a run RUNNING.                          *)
LEMMA RunningShrinks ==
  ASSUME IInv, [Next]_vars,
         ~ \E r \in PlanRuns : TriggerStart(r),
         ~ \E r \in DebugRuns : DebugStart(r)
  PROVE  RunningRuns' \subseteq RunningRuns
<1> USE RunLifecycleAssumption
    DEF IInv, TypeOK, RunningRuns, RunEnded, Runs, rows, procs, reap, vars
<1>2. ASSUME NEW r \in PlanRuns, SkipItem(r) PROVE RunningRuns' \subseteq RunningRuns
  BY <1>2 DEF SkipItem, ItemsLeft, NextItem, Go
<1>3. ASSUME NEW r \in PlanRuns, CreateCase(r) PROVE RunningRuns' \subseteq RunningRuns
  BY <1>3 DEF CreateCase, ItemsLeft, Go
<1>4. ASSUME NEW r \in PlanRuns, DispatchOk(r) PROVE RunningRuns' \subseteq RunningRuns
  BY <1>4 DEF DispatchOk, NextItem, Go
<1>5. ASSUME NEW r \in PlanRuns, DispatchFail(r) PROVE RunningRuns' \subseteq RunningRuns
  BY <1>5 DEF DispatchFail, Go
<1>6. ASSUME NEW r \in PlanRuns, FailCase(r) PROVE RunningRuns' \subseteq RunningRuns
  BY <1>6 DEF FailCase, NextItem, Go
<1>7. ASSUME NEW r \in PlanRuns, TriggerEnd(r) PROVE RunningRuns' \subseteq RunningRuns
  BY <1>7 DEF TriggerEnd, Go
<1>9. ASSUME NEW r \in DebugRuns, DebugResolveFail(r) PROVE RunningRuns' \subseteq RunningRuns
  BY <1>9 DEF DebugResolveFail, Go
<1>10. ASSUME NEW r \in DebugRuns, DebugDispatchOk(r) PROVE RunningRuns' \subseteq RunningRuns
  BY <1>10 DEF DebugDispatchOk, Go
<1>11. ASSUME NEW r \in DebugRuns, DebugDispatchFail(r) PROVE RunningRuns' \subseteq RunningRuns
  BY <1>11 DEF DebugDispatchFail, Go
<1>12. ASSUME NEW r \in DebugRuns, DebugAnswered(r) PROVE RunningRuns' \subseteq RunningRuns
  BY <1>12 DEF DebugAnswered, Go
<1>13. ASSUME NEW r \in DebugRuns, DebugTimeout(r) PROVE RunningRuns' \subseteq RunningRuns
  BY <1>13 DEF DebugTimeout, Go
<1>14. ASSUME NEW r \in DebugRuns, DebugFailCase(r) PROVE RunningRuns' \subseteq RunningRuns
  BY <1>14 DEF DebugFailCase, Go
<1>15. ASSUME NEW r \in DebugRuns, DebugFailRun(r) PROVE RunningRuns' \subseteq RunningRuns
  BY <1>15 DEF DebugFailRun, Go
<1>16. ASSUME NEW r \in Runs, NEW i \in Items, LoseTask(r, i) PROVE RunningRuns' \subseteq RunningRuns
  BY <1>16 DEF LoseTask
<1>17. ASSUME NEW r \in Runs, NEW i \in Items, NEW v \in Verdicts, WorkerReport(r, i, v) PROVE RunningRuns' \subseteq RunningRuns
  BY <1>17 DEF WorkerReport, Report
<1>18. ASSUME NEW m \in reports, ReportBegin(m) PROVE RunningRuns' \subseteq RunningRuns
  BY <1>18 DEF ReportBegin, Accepts, Report, Tx
<1>19. ASSUME NEW t \in tx, ReportCount(t) PROVE RunningRuns' \subseteq RunningRuns
  BY <1>19 DEF ReportCount, Conclusion, Tx
<1>20. ASSUME NEW t \in tx, ReportCommit(t) PROVE RunningRuns' \subseteq RunningRuns
  BY <1>20 DEF ReportCommit, Answer, Seen, Ends, Tx
<1>21. ASSUME NEW t \in tx, ReportRollback(t) PROVE RunningRuns' \subseteq RunningRuns
  BY <1>21 DEF ReportRollback, Answer
<1>22. ASSUME NEW r \in Runs, Cancel(r) PROVE RunningRuns' \subseteq RunningRuns
  BY <1>22 DEF Cancel, CloseCases
<1>23. ASSUME NEW r \in Runs, Age(r) PROVE RunningRuns' \subseteq RunningRuns
  BY <1>23 DEF Age
<1>24. ASSUME NEW r \in Runs, ReapCases(r) PROVE RunningRuns' \subseteq RunningRuns
  BY <1>24 DEF ReapCases, CloseCases
<1>25. ASSUME NEW r \in Runs, ReapRun(r) PROVE RunningRuns' \subseteq RunningRuns
  BY <1>25 DEF ReapRun
<1>26. ASSUME ReapScan PROVE RunningRuns' \subseteq RunningRuns
  BY <1>26 DEF ReapScan, RunningRuns
<1>27. ASSUME Restart PROVE RunningRuns' \subseteq RunningRuns
  BY <1>27 DEF Restart, CloseCases
<1>28. ASSUME UNCHANGED vars PROVE RunningRuns' \subseteq RunningRuns
  BY <1>28
<1> HIDE DEF TypeOK, IInv, RunningRuns, Runs
<1> QED
  BY <1>2, <1>3, <1>4, <1>5, <1>6, <1>7, <1>9, <1>10, <1>11, <1>12, <1>13, <1>14, <1>15, <1>16, <1>17, <1>18, <1>19, <1>20, <1>21, <1>22, <1>23, <1>24, <1>25, <1>26, <1>27, <1>28
  DEF Next, Trigger, Debug, HandleTaskResult, ReapStaleRuns, vars

(* concurrent_runs is never exceeded: the only steps that add a RUNNING run  *)
(* have counted the others in the same transaction.                         *)
THEOREM QuotaIsRespected == Spec => []QuotaRespected
<1>1. Init => QuotaRespected
  <2> SUFFICES ASSUME Init PROVE QuotaRespected OBVIOUS
  <2>1. RunningRuns = {} BY DEF Init, RunningRuns
  <2> QED BY <2>1, FS_EmptySet, RunLifecycleAssumption DEF QuotaRespected, RunLifecycleAssumption
<1>2. IInv /\ QuotaRespected /\ [Next]_vars => QuotaRespected'
  <2> SUFFICES ASSUME IInv, QuotaRespected, [Next]_vars PROVE QuotaRespected' OBVIOUS
  <2>1. IsFiniteSet(RunningRuns) /\ IsFiniteSet(RunningRuns')
    <3>1. RunningRuns \subseteq Runs /\ RunningRuns' \subseteq Runs BY DEF RunningRuns
    <3> QED BY <3>1, FS_Subset, RunLifecycleAssumption DEF RunLifecycleAssumption
  <2>2. /\ Cardinality(RunningRuns) \in Nat /\ Cardinality(RunningRuns') \in Nat
        /\ Limit \in Nat
    BY <2>1, FS_CardinalityType, RunLifecycleAssumption DEF RunLifecycleAssumption
  <2>3. ASSUME NEW r \in Runs, QuotaAdmits,
               runStatus' = [runStatus EXCEPT ![r] = "RUNNING"]
        PROVE  QuotaRespected'
    <3>1. RunningRuns' \subseteq RunningRuns \cup {r} BY <2>3 DEF RunningRuns, IInv, TypeOK
    <3>2. IsFiniteSet(RunningRuns \cup {r}) BY <2>1, FS_AddElement
    <3>3. /\ Cardinality(RunningRuns \cup {r}) <= Cardinality(RunningRuns) + 1
          /\ Cardinality(RunningRuns \cup {r}) \in Nat
      <4>1. CASE r \in RunningRuns
        <5>1. RunningRuns \cup {r} = RunningRuns BY <4>1
        <5> QED BY <2>2, <5>1
      <4>2. CASE r \notin RunningRuns
        <5>1. Cardinality(RunningRuns \cup {r}) = Cardinality(RunningRuns) + 1
          BY <2>1, <4>2, FS_AddElement
        <5> QED BY <2>2, <5>1
      <4> QED BY <4>1, <4>2
    <3>4. Cardinality(RunningRuns') <= Cardinality(RunningRuns \cup {r})
      BY <3>1, <3>2, FS_Subset
    <3> QED BY <2>2, <2>3, <3>3, <3>4 DEF QuotaAdmits, QuotaRespected
  <2>4. ASSUME NEW r \in PlanRuns, TriggerStart(r) PROVE QuotaRespected'
    BY <2>3, <2>4 DEF TriggerStart, Runs
  <2>5. ASSUME NEW r \in DebugRuns, DebugStart(r) PROVE QuotaRespected'
    BY <2>3, <2>5 DEF DebugStart, Runs
  <2>6. ASSUME ~ \E r \in PlanRuns : TriggerStart(r), ~ \E r \in DebugRuns : DebugStart(r)
        PROVE  QuotaRespected'
    <3>1. RunningRuns' \subseteq RunningRuns BY <2>6, RunningShrinks
    <3>2. Cardinality(RunningRuns') <= Cardinality(RunningRuns) BY <2>1, <3>1, FS_Subset
    <3> QED BY <2>2, <3>2 DEF QuotaRespected
  <2> QED BY <2>4, <2>5, <2>6
<1> QED BY Inductive, <1>1, <1>2, PTL DEF Spec

-----------------------------------------------------------------------------
(* On SQLite: what the contract needs besides.                              *)

(* The initial state satisfies the invariant.                              *)
LEMMA InitCInv == ASSUME Init PROVE CInv
<1> USE RunLifecycleAssumption DEF Init, Runs
<1>1. StartedHasRow BY DEF StartedHasRow
<1>2. NoRowAhead BY DEF NoRowAhead
<1>3. ConclusionHolds BY DEF ConclusionHolds
<1> QED BY <1>1, <1>2, <1>3 DEF CInv

(* A run that has a row keeps it, and a goroutine does not become idle.     *)
LEMMA StartedStep ==
  ASSUME TypeOK, StartedHasRow, [Next]_vars PROVE StartedHasRow'
<1> USE RunLifecycleAssumption
    DEF TypeOK, StartedHasRow, RunEnded, PcValues, Runs, rows, procs, reap, vars
<1>1. ASSUME NEW r \in PlanRuns, TriggerStart(r) PROVE StartedHasRow'
  BY <1>1 DEF TriggerStart, Go
<1>2. ASSUME NEW r \in PlanRuns, Trigger(r) PROVE StartedHasRow'
  BY <1>2 DEF Trigger, SkipItem, CreateCase, DispatchOk, DispatchFail, FailCase,
              TriggerEnd, NextItem, Go
<1>3. ASSUME NEW r \in DebugRuns, DebugStart(r) PROVE StartedHasRow'
  BY <1>3 DEF DebugStart, Go
<1>4. ASSUME NEW r \in DebugRuns, Debug(r) PROVE StartedHasRow'
  BY <1>4 DEF Debug, DebugResolveFail, DebugDispatchOk, DebugDispatchFail,
              DebugAnswered, DebugTimeout, DebugFailCase, DebugFailRun, Go
<1>5. ASSUME NEW r \in Runs, NEW i \in Items,
             LoseTask(r, i) \/ \E v \in Verdicts : WorkerReport(r, i, v)
      PROVE  StartedHasRow'
  BY <1>5 DEF LoseTask, WorkerReport
<1>6. ASSUME HandleTaskResult PROVE StartedHasRow'
  <2>1. /\ pc' = pc
        /\ \A r \in Runs : runStatus[r] # "NONE" => runStatus'[r] # "NONE"
    <3>1. CASE \E m \in reports : ReportBegin(m) BY <3>1 DEF ReportBegin
    <3>2. CASE \E t \in tx : ReportCount(t) BY <3>2 DEF ReportCount
    <3>3. ASSUME NEW t \in tx, ReportCommit(t)
          PROVE  /\ pc' = pc
                 /\ \A r \in Runs : runStatus[r] # "NONE" => runStatus'[r] # "NONE"
      <4>1. t.finish \in {"uncounted", "no", "PASSED", "FAILED"} /\ t.run \in Runs
        BY DEF Tx
      <4>2. runStatus' = [runStatus EXCEPT ![t.run] = IF Ends(t) THEN t.finish ELSE @]
        BY <3>3 DEF ReportCommit
      <4> QED BY <3>3, <4>1, <4>2 DEF ReportCommit
    <3>4. CASE \E t \in tx : ReportRollback(t) BY <3>4 DEF ReportRollback
    <3> QED BY <1>6, <3>1, <3>2, <3>3, <3>4 DEF HandleTaskResult
  <2> QED BY <2>1
<1>7. ASSUME NEW r \in Runs, Cancel(r) \/ Age(r) PROVE StartedHasRow'
  BY <1>7 DEF Cancel, Age
<1>8. ASSUME ReapStaleRuns PROVE StartedHasRow'
  BY <1>8 DEF ReapStaleRuns, ReapScan, ReapCases, ReapRun
<1>9. ASSUME Restart PROVE StartedHasRow'
  BY <1>9 DEF Restart
<1>10. ASSUME UNCHANGED vars PROVE StartedHasRow'
  BY <1>10
<1> HIDE DEF TypeOK, StartedHasRow
<1> QED BY <1>1, <1>2, <1>3, <1>4, <1>5, <1>6, <1>7, <1>8, <1>9, <1>10 DEF Next, vars

(* Goroutines that stay where they are or leave the loop, and rows that      *)
(* neither appear nor disappear.                                            *)
LEMMA RowsKept ==
  ASSUME NoRowAhead, next' = next,
         \A r \in Runs : (pc'[r] = "idle" <=> pc[r] = "idle"),
         \A r \in PlanRuns : pc'[r] \notin {"item", "dispatch", "fail"} \/ pc'[r] = pc[r],
         \A r \in Runs, i \in Items : (crStatus'[r][i] = "NONE" <=> crStatus[r][i] = "NONE")
  PROVE  NoRowAhead'
<1>1. PlanRuns \subseteq Runs /\ DebugRuns \subseteq Runs /\ 1 \in Items
  BY RunLifecycleAssumption DEF Runs
<1> HIDE DEF Items
<1> QED BY <1>1 DEF NoRowAhead

(* Closing the open cases of a run makes no row appear or disappear.         *)
LEMMA ClosingKeepsRows ==
  ASSUME TypeOK, NEW r \in Runs, NEW s \in CaseEnded,
         crStatus' = [crStatus EXCEPT ![r] = CloseCases(r, s)]
  PROVE  \A q \in Runs, i \in Items : crStatus'[q][i] = "NONE" <=> crStatus[q][i] = "NONE"
<1> TAKE q \in Runs, i \in Items
<1>1. crStatus'[q] = IF q = r THEN CloseCases(r, s) ELSE crStatus[q] BY DEF TypeOK
<1>2. CloseCases(r, s)[i] = IF crStatus[r][i] = "RUNNING" THEN s ELSE crStatus[r][i]
  BY DEF CloseCases
<1> QED BY <1>1, <1>2 DEF CaseEnded

(* No case row appears ahead of its goroutine, and none disappears.          *)
LEMMA NoRowStep ==
  ASSUME TypeOK, LoopBound, PlanPc, AcceptedIsOpen, NoRowAhead, [Next]_vars
  PROVE  NoRowAhead'
<1> USE RunLifecycleAssumption
    DEF TypeOK, LoopBound, PlanPc, NoRowAhead, Looping, CaseEnded, PcValues, Runs,
        rows, procs, reap, vars
<1>1. ASSUME NEW r \in PlanRuns, TriggerStart(r) PROVE NoRowAhead'
  BY <1>1 DEF TriggerStart, Go
<1>2. ASSUME NEW r \in PlanRuns, SkipItem(r) PROVE NoRowAhead'
  BY <1>2, SMTT(20) DEF SkipItem, NextItem, Go
<1>3. ASSUME NEW r \in PlanRuns, CreateCase(r) PROVE NoRowAhead'
  <2>1. /\ next[r] \in Items /\ next' = next /\ pc[r] = "item"
        /\ pc' = [pc EXCEPT ![r] = "dispatch"]
        /\ crStatus' = [crStatus EXCEPT ![r][next[r]] = "RUNNING"]
    BY <1>3 DEF CreateCase, ItemsLeft, Go
  <2>2. \A q \in Runs : q # r => pc'[q] = pc[q] /\ crStatus'[q] = crStatus[q]
    BY <2>1
  <2>3. pc'[r] = "dispatch" BY <2>1
  <2>4. \A i \in Items : crStatus'[r][i] = IF i = next[r] THEN "RUNNING" ELSE crStatus[r][i]
    BY <2>1
  <2>5. \A i \in Items : i > next[r] => i >= next[r] BY <2>1
  <2>6. \A i \in Items : i = next[r] => ~(i > next[r]) BY <2>1
  <2>7. PlanRuns \subseteq Runs /\ r \notin DebugRuns /\ DebugRuns \subseteq Runs OBVIOUS
  <2> HIDE DEF TypeOK, Runs, Items, LoopBound, PlanPc
  <2> QED BY <2>1, <2>2, <2>3, <2>4, <2>5, <2>6, <2>7
<1>4. ASSUME NEW r \in PlanRuns, DispatchOk(r) PROVE NoRowAhead'
  <2>1. /\ crStatus' = crStatus /\ next[r] \in Nat
        /\ pc[r] = "dispatch" /\ pc' = [pc EXCEPT ![r] = "item"]
        /\ next' = [next EXCEPT ![r] = @ + 1]
    BY <1>4 DEF DispatchOk, NextItem, Go
  <2>2. next'[r] = next[r] + 1 /\ \A q \in Runs : q # r => next'[q] = next[q] /\ pc'[q] = pc[q]
    BY <2>1
  <2>3. pc'[r] = "item" BY <2>1
  <2>4. \A i \in Items : i >= next'[r] => i > next[r] BY <2>1, <2>2
  <2>5. PlanRuns \subseteq Runs /\ r \notin DebugRuns /\ DebugRuns \subseteq Runs OBVIOUS
  <2> HIDE DEF TypeOK, Runs, Items, LoopBound, PlanPc
  <2> QED BY <2>1, <2>2, <2>3, <2>4, <2>5
<1>5. ASSUME NEW r \in PlanRuns, DispatchFail(r) PROVE NoRowAhead'
  BY <1>5 DEF DispatchFail, Go
<1>6. ASSUME NEW r \in PlanRuns, FailCase(r) PROVE NoRowAhead'
  BY <1>6 DEF FailCase, NextItem, Go
<1>7. ASSUME NEW r \in PlanRuns, TriggerEnd(r) PROVE NoRowAhead'
  BY <1>7 DEF TriggerEnd, Go
<1>8. ASSUME NEW r \in DebugRuns, DebugStart(r) PROVE NoRowAhead'
  BY <1>8 DEF DebugStart, Go
<1>9. ASSUME NEW r \in DebugRuns, Debug(r) PROVE NoRowAhead'
  <2>1. next' = next /\ r \notin PlanRuns
    BY <1>9 DEF Debug, DebugResolveFail, DebugDispatchOk, DebugDispatchFail,
                DebugAnswered, DebugTimeout, DebugFailCase, DebugFailRun
  <2>2. pc[r] # "idle" /\ \E to \in PcValues : to # "idle" /\ pc' = [pc EXCEPT ![r] = to]
    BY <1>9 DEF Debug, DebugResolveFail, DebugDispatchOk, DebugDispatchFail,
                DebugAnswered, DebugTimeout, DebugFailCase, DebugFailRun, Go
  <2>3. crStatus' = crStatus \/ crStatus' = [crStatus EXCEPT ![r][1] = "FAILED"]
    BY <1>9 DEF Debug, DebugResolveFail, DebugDispatchOk, DebugDispatchFail,
                DebugAnswered, DebugTimeout, DebugFailCase, DebugFailRun
  <2>4. crStatus[r][1] # "NONE" BY <2>2
  <2>5. \A q \in Runs, i \in Items : crStatus'[q][i] = "NONE" <=> crStatus[q][i] = "NONE"
    <3>1. CASE crStatus' = crStatus BY <3>1
    <3>2. CASE crStatus' = [crStatus EXCEPT ![r][1] = "FAILED"]
      <4>1. 1 \in Items /\ r \in Runs OBVIOUS
      <4>2. crStatus'[r] = [crStatus[r] EXCEPT ![1] = "FAILED"] BY <3>2, <4>1
      <4>3. \A q \in Runs : q # r => crStatus'[q] = crStatus[q] BY <3>2
      <4>4. \A i \in Items : crStatus'[r][i] = IF i = 1 THEN "FAILED" ELSE crStatus[r][i]
        BY <4>1, <4>2
      <4>5. ASSUME NEW q \in Runs, NEW i \in Items
            PROVE  crStatus'[q][i] = "NONE" <=> crStatus[q][i] = "NONE"
        <5>1. CASE q # r BY <4>3, <5>1
        <5>2. CASE q = r BY <2>4, <4>4, <5>2
        <5> QED BY <5>1, <5>2
      <4> QED BY <4>5
    <3> QED BY <2>3, <3>1, <3>2
  <2>6. /\ \A q \in Runs : pc'[q] = "idle" <=> pc[q] = "idle"
        /\ \A q \in PlanRuns : pc'[q] = pc[q]
    BY <2>1, <2>2
  <2> HIDE DEF TypeOK, NoRowAhead, Runs, Items
  <2> QED BY <2>1, <2>5, <2>6, RowsKept
<1>10. ASSUME NEW r \in Runs, NEW i \in Items,
              LoseTask(r, i) \/ \E v \in Verdicts : WorkerReport(r, i, v)
       PROVE  NoRowAhead'
  <2>1. pc' = pc /\ next' = next /\ crStatus' = crStatus
    BY <1>10 DEF LoseTask, WorkerReport
  <2> HIDE DEF TypeOK, NoRowAhead, Runs, Items
  <2> QED BY <2>1, RowsKept
<1>11. ASSUME HandleTaskResult PROVE NoRowAhead'
  <2>1. CASE \E m \in reports : ReportBegin(m) BY <2>1 DEF ReportBegin
  <2>2. CASE \E t \in tx : ReportCount(t) BY <2>2 DEF ReportCount
  <2>3. ASSUME NEW t \in tx, ReportCommit(t) PROVE NoRowAhead'
    <3>1. t.run \in Runs /\ t.item \in Items /\ t.verdict \in Verdicts
      BY DEF Tx
    <3>2. pc' = pc /\ next' = next BY <2>3 DEF ReportCommit
    <3>3. \A r \in Runs, i \in Items :
            crStatus'[r][i] = "NONE" <=> crStatus[r][i] = "NONE"
      BY <2>3, <3>1, SMTT(20) DEF ReportCommit, Seen, AcceptedIsOpen, Verdicts
    <3> HIDE DEF TypeOK, NoRowAhead, Runs, Items
    <3> QED BY <3>2, <3>3, RowsKept
  <2>4. CASE \E t \in tx : ReportRollback(t) BY <2>4 DEF ReportRollback
  <2> QED BY <1>11, <2>1, <2>2, <2>3, <2>4 DEF HandleTaskResult
<1>12. ASSUME NEW r \in Runs, Cancel(r) \/ Age(r) PROVE NoRowAhead'
  <2>1. /\ pc' = pc /\ next' = next
        /\ crStatus' = crStatus \/ crStatus' = [crStatus EXCEPT ![r] = CloseCases(r, "SKIPPED")]
    BY <1>12 DEF Cancel, Age
  <2> HIDE DEF TypeOK, NoRowAhead, Runs, Items
  <2>2. \A q \in Runs, i \in Items : crStatus'[q][i] = "NONE" <=> crStatus[q][i] = "NONE"
    BY <2>1, ClosingKeepsRows DEF CaseEnded
  <2> QED BY <2>1, <2>2, RowsKept
<1>13. ASSUME ReapStaleRuns PROVE NoRowAhead'
  <2>1. /\ pc' = pc /\ next' = next
        /\ \/ crStatus' = crStatus
           \/ \E r \in Runs : crStatus' = [crStatus EXCEPT ![r] = CloseCases(r, "FAILED")]
    BY <1>13 DEF ReapStaleRuns, ReapScan, ReapCases, ReapRun
  <2> HIDE DEF TypeOK, NoRowAhead, Runs, Items
  <2>2. \A q \in Runs, i \in Items : crStatus'[q][i] = "NONE" <=> crStatus[q][i] = "NONE"
    BY <2>1, ClosingKeepsRows DEF CaseEnded
  <2> QED BY <2>1, <2>2, RowsKept
<1>14. ASSUME Restart PROVE NoRowAhead'
  BY <1>14 DEF Restart, CloseCases
<1>15. ASSUME UNCHANGED vars PROVE NoRowAhead'
  BY <1>15
<1> HIDE DEF TypeOK, LoopBound, PlanPc, NoRowAhead
<1> QED
  BY <1>1, <1>2, <1>3, <1>4, <1>5, <1>6, <1>7, <1>8, <1>9, <1>10, <1>11, <1>12,
     <1>13, <1>14, <1>15
  DEF Next, Trigger, vars

(* On SQLite a step that is not one of a transaction's first two either      *)
(* leaves the case rows and the open transaction alone or leaves none open.  *)
LEMMA SerialStep ==
  ASSUME SerialTx, ConclusionHolds, [Next]_vars,
         ~ \E m \in reports : ReportBegin(m), ~ \E t \in tx : ReportCount(t)
  PROVE  (tx' = tx /\ crStatus' = crStatus) \/ tx' = {}
<1> USE DEF RowsFree, rows, procs, reap, vars
<1> DEFINE P == (tx' = tx /\ crStatus' = crStatus) \/ tx' = {}
<1>1. ASSUME NEW r \in PlanRuns, TriggerStart(r) \/ Trigger(r) PROVE P
  BY <1>1 DEF TriggerStart, Trigger, SkipItem, CreateCase, DispatchOk, DispatchFail,
              FailCase, TriggerEnd
<1>2. ASSUME NEW r \in DebugRuns, DebugStart(r) \/ Debug(r) PROVE P
  BY <1>2 DEF DebugStart, Debug, DebugResolveFail, DebugDispatchOk, DebugDispatchFail,
              DebugAnswered, DebugTimeout, DebugFailCase, DebugFailRun
<1>3. ASSUME NEW r \in Runs, NEW i \in Items,
             LoseTask(r, i) \/ \E v \in Verdicts : WorkerReport(r, i, v)
      PROVE  P
  BY <1>3 DEF LoseTask, WorkerReport
<1>4. ASSUME NEW t \in tx, ReportCommit(t) \/ ReportRollback(t) PROVE P
  <2>1. tx' = tx \ {t} BY <1>4 DEF ReportCommit, ReportRollback
  <2> QED BY <2>1 DEF ConclusionHolds
<1>5. ASSUME NEW r \in Runs, Cancel(r) \/ Age(r) PROVE P
  BY <1>5 DEF Cancel, Age
<1>6. ASSUME ReapStaleRuns PROVE P
  BY <1>6 DEF ReapStaleRuns, ReapScan, ReapCases, ReapRun
<1>7. CASE Restart BY <1>7 DEF Restart
<1>8. CASE UNCHANGED vars BY <1>8
<1> QED
  BY <1>1, <1>2, <1>3, <1>4, <1>5, <1>6, <1>7, <1>8 DEF Next, HandleTaskResult

(* What the one open transaction has concluded from its counts stays true.   *)
LEMMA ConclusionStep ==
  ASSUME TypeOK, ConclusionHolds, [Next]_vars PROVE ConclusionHolds'
<1> SUFFICES ASSUME SerialTx PROVE ConclusionHolds' BY DEF ConclusionHolds
<1>1. ASSUME NEW m \in reports, ReportBegin(m) PROVE ConclusionHolds'
  <2> DEFINE t == [run |-> m.run, item |-> m.item, verdict |-> m.verdict,
                   accepted |-> Accepts(m), finish |-> "uncounted"]
  <2>1. tx' = {t} BY <1>1 DEF ReportBegin, RowsFree
  <2>2. t.finish = "uncounted" OBVIOUS
  <2> HIDE DEF t
  <2> QED BY <2>1, <2>2 DEF ConclusionHolds
<1>2. ASSUME NEW t \in tx, ReportCount(t) PROVE ConclusionHolds'
  <2> DEFINE u == [t EXCEPT !.finish = Conclusion(t)]
  <2>1. tx' = {u} /\ crStatus' = crStatus
    BY <1>2 DEF ReportCount, ConclusionHolds, rows
  <2>2. t \in Tx BY DEF TypeOK
  <2>3. u.finish = Conclusion(t)
        /\ u.run = t.run /\ u.item = t.item /\ u.verdict = t.verdict
        /\ u.accepted = t.accepted
    BY <2>2 DEF Tx
  <2>4. \A i \in Items :
          /\ Conclusion(t) \in {"PASSED", "FAILED"} => Seen(t, i) # "RUNNING"
          /\ Conclusion(t) = "PASSED" => Seen(t, i) # "FAILED"
    <3> HIDE DEF Items
    <3> QED BY DEF Conclusion
  <2>5. \A i \in Items : Seen(u, i)' = Seen(t, i) BY <2>1, <2>3 DEF Seen
  <2> HIDE DEF u
  <2> QED BY <2>1, <2>3, <2>4, <2>5 DEF ConclusionHolds, Seen
<1>3. ASSUME ~ \E m \in reports : ReportBegin(m), ~ \E t \in tx : ReportCount(t)
      PROVE  ConclusionHolds'
  <2>1. CASE tx' = tx /\ crStatus' = crStatus BY <2>1 DEF ConclusionHolds, Seen
  <2>2. CASE tx' = {} BY <2>2 DEF ConclusionHolds
  <2> QED BY <1>3, <2>1, <2>2, SerialStep
<1> QED BY <1>1, <1>2, <1>3

(* CInv is an invariant.                                                    *)
THEOREM ContractInvariant == Spec => []CInv
<1>1. Init => CInv BY InitCInv
<1>2. IInv /\ CInv /\ [Next]_vars => CInv'
  BY StartedStep, NoRowStep, ConclusionStep DEF IInv, CInv
<1> QED BY Inductive, <1>1, <1>2, PTL DEF Spec

-----------------------------------------------------------------------------
(* From rows to phases: each lemma recognises a step of the contract in what *)
(* a handler does to the rows.                                              *)

MapsTo == Contract!Next \/ UNCHANGED Contract!vars

(* Nothing the contract speaks of changes.                                  *)
LEMMA Stutters ==
  ASSUME runStatus' = runStatus, crStatus' = crStatus, finishes' = finishes
  PROVE  MapsTo
BY DEF MapsTo, Contract!vars

(* Open cases are closed, and no others change.                             *)
LEMMA CasesClose ==
  ASSUME TypeOK, TypeOK',
         \A r \in Runs, i \in Items :
           \/ crStatus'[r][i] = crStatus[r][i]
           \/ crStatus[r][i] = "RUNNING" /\ crStatus'[r][i] \in CaseEnded
           \/ crStatus[r][i] \in CaseEnded /\ crStatus'[r][i] \in CaseEnded
  PROVE  Contract!ClosesCases
<1>1. [r \in Runs |-> [i \in Items |-> Phase(crStatus[r][i])]]' \in
        [Runs -> [Items -> Contract!Phases]]
  BY DEF Contract!Phases, Phase
<1>2. ASSUME NEW r \in Runs, NEW i \in Items,
             Phase(crStatus[r][i])' # Phase(crStatus[r][i])
      PROVE  Phase(crStatus[r][i]) = "open" /\ Phase(crStatus[r][i])' = "closed"
  BY <1>2 DEF Phase, CaseEnded
<1> HIDE DEF Items, TypeOK
<1> QED BY <1>1, <1>2 DEF Contract!ClosesCases

(* Runs and cases are closed, unannounced; a closed one may be closed again.  *)
LEMMA Closes ==
  ASSUME TypeOK, TypeOK', finishes' = finishes,
         \A r \in Runs :
           \/ runStatus'[r] = runStatus[r]
           \/ runStatus[r] # "NONE" /\ runStatus'[r] \in RunEnded,
         \A r \in Runs, i \in Items :
           \/ crStatus'[r][i] = crStatus[r][i]
           \/ crStatus[r][i] # "NONE" /\ crStatus'[r][i] \in CaseEnded
  PROVE  MapsTo
<1>1. Contract!ClosesCases
  <2>1. \A r \in Runs, i \in Items :
           \/ crStatus'[r][i] = crStatus[r][i]
           \/ crStatus[r][i] = "RUNNING" /\ crStatus'[r][i] \in CaseEnded
           \/ crStatus[r][i] \in CaseEnded /\ crStatus'[r][i] \in CaseEnded
    BY DEF TypeOK
  <2> HIDE DEF Items
  <2> QED BY <2>1, CasesClose
<1>2. [r \in Runs |-> Phase(runStatus[r])]' \in [Runs -> Contract!Phases]
  BY DEF Contract!Phases, Phase
<1>3. ASSUME NEW r \in Runs, Phase(runStatus[r])' # Phase(runStatus[r])
      PROVE  Phase(runStatus[r]) = "open" /\ Phase(runStatus[r])' = "closed"
  BY <1>3 DEF Phase, RunEnded, TypeOK
<1>4. Contract!Close
  <2> HIDE DEF Items
  <2> QED BY <1>1, <1>2, <1>3 DEF Contract!Close
<1> QED BY <1>4 DEF MapsTo, Contract!Next

(* The phase of a case whose row appears.                                    *)
LEMMA CasePhase ==
  ASSUME TypeOK, NEW r \in Runs, NEW i \in Items,
         crStatus' = [crStatus EXCEPT ![r][i] = "RUNNING"]
  PROVE  [q \in Runs |-> [j \in Items |-> Phase(crStatus[q][j])]]' =
           [[q \in Runs |-> [j \in Items |-> Phase(crStatus[q][j])]]
              EXCEPT ![r][i] = "open"]
BY DEF TypeOK, Phase

(* A run row appears, for a debug run with its case row.                     *)
LEMMA Creates ==
  ASSUME TypeOK, NEW r \in Runs, runStatus[r] = "NONE", finishes' = finishes,
         runStatus' = [runStatus EXCEPT ![r] = "RUNNING"],
         \/ crStatus' = crStatus
         \/ \E i \in Items : /\ crStatus[r][i] = "NONE"
                             /\ crStatus' = [crStatus EXCEPT ![r][i] = "RUNNING"]
  PROVE  MapsTo
<1>1. [q \in Runs |-> Phase(runStatus[q])]' =
        [[q \in Runs |-> Phase(runStatus[q])] EXCEPT ![r] = "open"]
  BY DEF TypeOK, Phase
<1>2. ASSUME NEW i \in Items, crStatus' = [crStatus EXCEPT ![r][i] = "RUNNING"]
      PROVE  [q \in Runs |-> [j \in Items |-> Phase(crStatus[q][j])]]' =
               [[q \in Runs |-> [j \in Items |-> Phase(crStatus[q][j])]]
                  EXCEPT ![r][i] = "open"]
  BY <1>2, CasePhase
<1>3. Phase(runStatus[r]) = "none" BY DEF Phase
<1>4. \A i \in Items : crStatus[r][i] = "NONE" => Phase(crStatus[r][i]) = "none"
  BY DEF Phase
<1> HIDE DEF Items, TypeOK
<1>5. Contract!Create(r) BY <1>1, <1>2, <1>3, <1>4 DEF Contract!Create
<1> QED BY <1>5 DEF MapsTo, Contract!Next

(* A case row of an existing run appears.                                    *)
LEMMA Opens ==
  ASSUME TypeOK, NEW r \in Runs, NEW i \in Items,
         runStatus[r] # "NONE", crStatus[r][i] = "NONE",
         runStatus' = runStatus, finishes' = finishes,
         crStatus' = [crStatus EXCEPT ![r][i] = "RUNNING"]
  PROVE  MapsTo
<1>1. [q \in Runs |-> [j \in Items |-> Phase(crStatus[q][j])]]' =
        [[q \in Runs |-> [j \in Items |-> Phase(crStatus[q][j])]]
           EXCEPT ![r][i] = "open"]
  BY CasePhase
<1>2. Phase(runStatus[r]) # "none" /\ Phase(crStatus[r][i]) = "none" BY DEF Phase
<1> HIDE DEF Items, TypeOK
<1>3. Contract!OpenCase(r, i) BY <1>1, <1>2 DEF Contract!OpenCase
<1> QED BY <1>3 DEF MapsTo, Contract!Next

(* A report ends a RUNNING run and leaves none of its cases open.            *)
LEMMA Announces ==
  ASSUME TypeOK, TypeOK', NEW r \in Runs, runStatus[r] = "RUNNING",
         NEW s \in RunEnded, runStatus' = [runStatus EXCEPT ![r] = s],
         finishes' = [finishes EXCEPT ![r] = @ + 1],
         \A q \in Runs, i \in Items :
           \/ crStatus'[q][i] = crStatus[q][i]
           \/ crStatus[q][i] = "RUNNING" /\ crStatus'[q][i] \in CaseEnded,
         \A i \in Items : crStatus'[r][i] # "RUNNING"
  PROVE  MapsTo
<1>1. Contract!ClosesCases
  <2> HIDE DEF Items, TypeOK
  <2> QED BY CasesClose
<1>2. [q \in Runs |-> Phase(runStatus[q])]' =
        [[q \in Runs |-> Phase(runStatus[q])] EXCEPT ![r] = "closed"]
  BY DEF TypeOK, Phase, RunEnded
<1>3. Phase(runStatus[r]) = "open" BY DEF Phase
<1>4. \A i \in Items : Phase(crStatus[r][i])' # "open" BY DEF Phase
<1> HIDE DEF Items, TypeOK
<1>5. Contract!Announce(r) BY <1>1, <1>2, <1>3, <1>4 DEF Contract!Announce
<1> QED BY <1>5 DEF MapsTo, Contract!Next

-----------------------------------------------------------------------------
(* The steps of the handlers.                                               *)

(* The steps of Trigger and RunCase.                                         *)
LEMMA TriggerMaps ==
  ASSUME IInv, IInv', CInv, NEW r \in PlanRuns, TriggerStart(r) \/ Trigger(r)
  PROVE  MapsTo
<1>1. TypeOK /\ TypeOK' /\ r \in Runs BY DEF IInv, Runs
<1> USE RunLifecycleAssumption DEF rows, reap
<1>2. CASE TriggerStart(r)
  <2>1. runStatus[r] = "NONE" BY <1>1, <1>2 DEF TriggerStart, IInv, IdleIsFresh
  <2>2. /\ runStatus' = [runStatus EXCEPT ![r] = "RUNNING"]
        /\ crStatus' = crStatus /\ finishes' = finishes
    BY <1>2 DEF TriggerStart
  <2> HIDE DEF Items
  <2> QED BY <1>1, <2>1, <2>2, Creates
<1>3. CASE SkipItem(r) \/ DispatchOk(r) \/ DispatchFail(r)
  BY <1>3, Stutters DEF SkipItem, DispatchOk, DispatchFail
<1>4. CASE CreateCase(r)
  <2>1. /\ next[r] \in Items /\ pc[r] = "item"
        /\ runStatus' = runStatus /\ finishes' = finishes
        /\ crStatus' = [crStatus EXCEPT ![r][next[r]] = "RUNNING"]
    BY <1>1, <1>4 DEF CreateCase, ItemsLeft, TypeOK
  <2>2. runStatus[r] # "NONE" BY <1>1, <2>1 DEF CInv, StartedHasRow
  <2>3. crStatus[r][next[r]] = "NONE" BY <1>1, <2>1 DEF CInv, NoRowAhead
  <2> HIDE DEF Items
  <2> QED BY <1>1, <2>1, <2>2, <2>3, Opens
<1>5. CASE FailCase(r)
  <2>1. /\ next[r] \in Items /\ pc[r] = "fail"
        /\ runStatus' = runStatus /\ finishes' = finishes
        /\ crStatus' = [crStatus EXCEPT ![r][next[r]] = "FAILED"]
    BY <1>1, <1>5 DEF FailCase, TypeOK, IInv, LoopBound
  <2>2. crStatus[r][next[r]] # "NONE" BY <1>1, <2>1 DEF CInv, NoRowAhead
  <2>3. \A q \in Runs, i \in Items :
           \/ crStatus'[q][i] = crStatus[q][i]
           \/ crStatus[q][i] # "NONE" /\ crStatus'[q][i] \in CaseEnded
    BY <1>1, <2>1, <2>2 DEF TypeOK, CaseEnded
  <2> HIDE DEF Items
  <2> QED BY <1>1, <2>1, <2>3, Closes
<1>6. CASE TriggerEnd(r)
  <2>1. /\ pc[r] = "item" /\ crStatus' = crStatus /\ finishes' = finishes
        /\ runStatus' = runStatus \/ runStatus' = [runStatus EXCEPT ![r] = "FAILED"]
    BY <1>6 DEF TriggerEnd
  <2>2. runStatus[r] # "NONE" BY <1>1, <2>1 DEF CInv, StartedHasRow
  <2>3. \A q \in Runs : \/ runStatus'[q] = runStatus[q]
                        \/ runStatus[q] # "NONE" /\ runStatus'[q] \in RunEnded
    BY <1>1, <2>1, <2>2 DEF TypeOK, RunEnded
  <2> HIDE DEF Items
  <2> QED BY <1>1, <2>1, <2>3, Closes
<1> QED BY <1>2, <1>3, <1>4, <1>5, <1>6 DEF Trigger

(* The steps of Debug.                                                       *)
LEMMA DebugMaps ==
  ASSUME IInv, IInv', CInv, NEW r \in DebugRuns, DebugStart(r) \/ Debug(r)
  PROVE  MapsTo
<1>1. TypeOK /\ TypeOK' /\ r \in Runs /\ 1 \in Items
  BY RunLifecycleAssumption DEF IInv, Runs
<1> USE DEF rows, reap
<1>2. CASE DebugStart(r)
  <2>1. /\ pc[r] = "idle" /\ finishes' = finishes
        /\ runStatus' = [runStatus EXCEPT ![r] = "RUNNING"]
        /\ crStatus' = [crStatus EXCEPT ![r][1] = "RUNNING"]
    BY <1>2 DEF DebugStart
  <2>2. runStatus[r] = "NONE" BY <1>1, <2>1 DEF IInv, IdleIsFresh
  <2>3. crStatus[r][1] = "NONE" BY <1>1, <2>1 DEF CInv, NoRowAhead
  <2> HIDE DEF Items
  <2> QED BY <1>1, <2>1, <2>2, <2>3, Creates
<1>3. CASE DebugResolveFail(r) \/ DebugDispatchOk(r) \/ DebugDispatchFail(r)
             \/ DebugAnswered(r) \/ DebugTimeout(r)
  BY <1>3, Stutters
  DEF DebugResolveFail, DebugDispatchOk, DebugDispatchFail, DebugAnswered, DebugTimeout
<1>4. CASE DebugFailCase(r)
  <2>1. /\ pc[r] # "idle" /\ runStatus' = runStatus /\ finishes' = finishes
        /\ crStatus' = [crStatus EXCEPT ![r][1] = "FAILED"]
    BY <1>4 DEF DebugFailCase
  <2>2. crStatus[r][1] # "NONE" BY <2>1 DEF CInv, NoRowAhead
  <2>3. \A q \in Runs, i \in Items :
           \/ crStatus'[q][i] = crStatus[q][i]
           \/ crStatus[q][i] # "NONE" /\ crStatus'[q][i] \in CaseEnded
    BY <1>1, <2>1, <2>2 DEF TypeOK, CaseEnded
  <2> HIDE DEF Items
  <2> QED BY <1>1, <2>1, <2>3, Closes
<1>5. CASE DebugFailRun(r)
  <2>1. /\ pc[r] # "idle" /\ crStatus' = crStatus /\ finishes' = finishes
        /\ \E s \in RunEnded : runStatus' = [runStatus EXCEPT ![r] = s]
    BY <1>5 DEF DebugFailRun, RunEnded
  <2>2. runStatus[r] # "NONE" BY <1>1, <2>1 DEF CInv, StartedHasRow
  <2>3. \A q \in Runs : \/ runStatus'[q] = runStatus[q]
                        \/ runStatus[q] # "NONE" /\ runStatus'[q] \in RunEnded
    BY <1>1, <2>1, <2>2 DEF TypeOK
  <2> HIDE DEF Items
  <2> QED BY <1>1, <2>1, <2>3, Closes
<1> QED BY <1>2, <1>3, <1>4, <1>5 DEF Debug

(* A COMMIT announces the run, or closes one case.                           *)
LEMMA CommitMaps ==
  ASSUME SerialTx, IInv, IInv', CInv, NEW t \in tx, ReportCommit(t)
  PROVE  MapsTo
<1>1. TypeOK /\ TypeOK' /\ AcceptedIsOpen BY DEF IInv
<1>2. /\ t.run \in Runs /\ t.item \in Items /\ t.verdict \in Verdicts
      /\ t.finish \in {"no", "PASSED", "FAILED"}
  BY <1>1 DEF TypeOK, Tx, ReportCommit
<1>3. \A i \in Items : crStatus'[t.run][i] = Seen(t, i)
  <2>1. crStatus' = [crStatus EXCEPT ![t.run][t.item] = Seen(t, t.item)]
    BY DEF ReportCommit
  <2>2. crStatus[t.run] \in [Items -> {"NONE", "RUNNING"} \cup CaseEnded]
    BY <1>1, <1>2 DEF TypeOK
  <2>3. crStatus'[t.run] = [crStatus[t.run] EXCEPT ![t.item] = Seen(t, t.item)]
    BY <1>1, <1>2, <2>1 DEF TypeOK
  <2>4. \A i \in Items : i # t.item => Seen(t, i) = crStatus[t.run][i] BY DEF Seen
  <2> HIDE DEF Items
  <2> QED BY <2>2, <2>3, <2>4
<1>4. \A q \in Runs : q # t.run => crStatus'[q] = crStatus[q]
  BY <1>1 DEF ReportCommit, TypeOK
<1>5. \A q \in Runs, i \in Items :
         \/ crStatus'[q][i] = crStatus[q][i]
         \/ crStatus[q][i] = "RUNNING" /\ crStatus'[q][i] \in CaseEnded
  <2> TAKE q \in Runs, i \in Items
  <2>1. CASE q # t.run BY <1>4, <2>1
  <2>2. CASE q = t.run
    <3>1. t.accepted => t.verdict \in CaseEnded /\ crStatus[t.run][t.item] = "RUNNING"
      BY <1>1, <1>2 DEF AcceptedIsOpen, Verdicts, CaseEnded
    <3> QED BY <1>3, <2>2, <3>1 DEF Seen
  <2> QED BY <2>1, <2>2
<1>6. CASE Ends(t)
  <2>1. /\ t.finish \in RunEnded /\ runStatus[t.run] = "RUNNING"
        /\ runStatus' = [runStatus EXCEPT ![t.run] = t.finish]
        /\ finishes' = [finishes EXCEPT ![t.run] = @ + 1]
    BY <1>2, <1>6 DEF ReportCommit, Ends, RunEnded
  <2>2. \A i \in Items : crStatus'[t.run][i] # "RUNNING"
    <3>1. \A i \in Items : Seen(t, i) # "RUNNING"
      BY <1>2, <1>6 DEF CInv, ConclusionHolds, Ends
    <3> QED BY <1>3, <3>1
  <2> HIDE DEF Items
  <2> QED BY <1>1, <1>2, <1>5, <2>1, <2>2, Announces
<1>7. CASE ~Ends(t)
  <2>1. runStatus' = runStatus /\ finishes' = finishes
    BY <1>1, <1>2, <1>7 DEF ReportCommit, TypeOK
  <2>2. \A q \in Runs, i \in Items :
           \/ crStatus'[q][i] = crStatus[q][i]
           \/ crStatus[q][i] # "NONE" /\ crStatus'[q][i] \in CaseEnded
    BY <1>5
  <2> HIDE DEF Items
  <2> QED BY <1>1, <2>1, <2>2, Closes
<1> QED BY <1>6, <1>7

(* Every step of every goroutine maps to a step of the contract.             *)
LEMMA EveryStepMaps ==
  ASSUME SerialTx, IInv, IInv', CInv, [Next]_vars PROVE MapsTo
<1>1. TypeOK /\ TypeOK' BY DEF IInv
<1>2. \A r \in Runs, i \in Items, s \in CaseEnded :
         \/ CloseCases(r, s)[i] = crStatus[r][i]
         \/ crStatus[r][i] # "NONE" /\ CloseCases(r, s)[i] \in CaseEnded
  BY DEF CloseCases
<1>3. ASSUME NEW r \in Runs, NEW s \in CaseEnded,
             crStatus' = [crStatus EXCEPT ![r] = CloseCases(r, s)]
      PROVE  \A q \in Runs, i \in Items :
               \/ crStatus'[q][i] = crStatus[q][i]
               \/ crStatus[q][i] # "NONE" /\ crStatus'[q][i] \in CaseEnded
  BY <1>1, <1>2, <1>3 DEF TypeOK
<1> HIDE DEF Items
<1> USE DEF rows, procs, reap
<1>4. ASSUME NEW r \in Runs, NEW i \in Items,
             LoseTask(r, i) \/ \E v \in Verdicts : WorkerReport(r, i, v)
      PROVE  MapsTo
  BY <1>4, Stutters DEF LoseTask, WorkerReport
<1>5. ASSUME HandleTaskResult PROVE MapsTo
  <2>1. CASE \E m \in reports : ReportBegin(m) BY <2>1, Stutters DEF ReportBegin
  <2>2. CASE \E t \in tx : ReportCount(t) \/ ReportRollback(t)
    BY <2>2, Stutters DEF ReportCount, ReportRollback
  <2>3. CASE \E t \in tx : ReportCommit(t) BY <2>3, CommitMaps
  <2> QED BY <1>5, <2>1, <2>2, <2>3 DEF HandleTaskResult
<1>6. ASSUME NEW r \in Runs, Cancel(r) PROVE MapsTo
  <2>1. /\ runStatus[r] = "RUNNING" /\ finishes' = finishes
        /\ runStatus' = [runStatus EXCEPT ![r] = "ABORTED"]
        /\ crStatus' = [crStatus EXCEPT ![r] = CloseCases(r, "SKIPPED")]
    BY <1>6 DEF Cancel
  <2>2. \A q \in Runs : \/ runStatus'[q] = runStatus[q]
                        \/ runStatus[q] # "NONE" /\ runStatus'[q] \in RunEnded
    BY <1>1, <2>1 DEF TypeOK, RunEnded
  <2> QED BY <1>1, <1>3, <2>1, <2>2, Closes DEF CaseEnded
<1>7. ASSUME NEW r \in Runs, Age(r) PROVE MapsTo
  BY <1>7, Stutters DEF Age
<1>8. ASSUME NEW r \in Runs, ReapCases(r) PROVE MapsTo
  <2>1. /\ finishes' = finishes /\ runStatus' = runStatus
        /\ crStatus' = [crStatus EXCEPT ![r] = CloseCases(r, "FAILED")]
    BY <1>8 DEF ReapCases
  <2> QED BY <1>1, <1>3, <2>1, Closes DEF CaseEnded
<1>9. ASSUME NEW r \in Runs, ReapRun(r) PROVE MapsTo
  <2>1. /\ finishes' = finishes /\ crStatus' = crStatus
        /\ runStatus' = [runStatus EXCEPT ![r] = IF @ = "RUNNING" THEN "FAILED" ELSE @]
    BY <1>9 DEF ReapRun
  <2>2. \A q \in Runs : \/ runStatus'[q] = runStatus[q]
                        \/ runStatus[q] # "NONE" /\ runStatus'[q] \in RunEnded
    BY <1>1, <2>1 DEF TypeOK, RunEnded
  <2> QED BY <1>1, <2>1, <2>2, Closes
<1>10. ASSUME ReapScan PROVE MapsTo
  BY <1>10, Stutters DEF ReapScan
<1>11. ASSUME Restart PROVE MapsTo
  <2>1. finishes' = finishes BY <1>11 DEF Restart
  <2>2. \A q \in Runs : \/ runStatus'[q] = runStatus[q]
                        \/ runStatus[q] # "NONE" /\ runStatus'[q] \in RunEnded
    BY <1>11 DEF Restart, RunEnded
  <2>3. \A q \in Runs, i \in Items :
           \/ crStatus'[q][i] = crStatus[q][i]
           \/ crStatus[q][i] # "NONE" /\ crStatus'[q][i] \in CaseEnded
    BY <1>2, <1>11 DEF Restart, CaseEnded
  <2> QED BY <1>1, <2>1, <2>2, <2>3, Closes
<1>12. CASE UNCHANGED vars BY <1>12, Stutters DEF vars
<1> QED
  BY <1>4, <1>5, <1>6, <1>7, <1>8, <1>9, <1>10, <1>11, <1>12, TriggerMaps, DebugMaps
  DEF Next, ReapStaleRuns

(* The contract is implemented: on SQLite every behaviour of the handlers is *)
(* one of the contract, however many runs, cases and restarts there are.    *)
THEOREM Implements == ASSUME SerialTx PROVE Spec => ImplementsContract
<1>1. Init => Contract!Init
  BY DEF Init, Contract!Init, Phase
<1>2. IInv /\ IInv' /\ CInv /\ [Next]_vars => [Contract!Next]_(Contract!vars)
  BY EveryStepMaps DEF MapsTo
<1> QED
  BY Inductive, ContractInvariant, <1>1, <1>2, PTL
  DEF Spec, ImplementsContract, Contract!Spec

-----------------------------------------------------------------------------
(* What a run passes with.                                                  *)

\* At the moment a run turns PASSED none of its case rows is open or FAILED
\* (PassedOnlyIfAllPassed of RunLifecycle): on SQLite the counts of
\* maybeFinishRun and its UPDATE see one state.
THEOREM PassedAllPassed == ASSUME SerialTx PROVE Spec => PassedOnlyIfAllPassed
<1>1. ASSUME IInv, CInv, [Next]_vars, NEW r \in Runs,
             runStatus[r] # "PASSED", runStatus'[r] = "PASSED"
      PROVE  \A i \in Items : crStatus'[r][i] \notin {"RUNNING", "FAILED"}
  <2>1. TypeOK BY <1>1 DEF IInv
  <2>2. PICK t \in tx : ReportCommit(t)
    <3> USE <1>1, <2>1 DEF TypeOK, rows, procs, reap
    <3> SUFFICES ASSUME ~ \E t \in tx : ReportCommit(t) PROVE FALSE OBVIOUS
    <3>1. ~ \E q \in PlanRuns : TriggerStart(q) BY DEF TriggerStart
    <3>2. ~ \E q \in PlanRuns : Trigger(q)
      BY DEF Trigger, SkipItem, CreateCase, DispatchOk, DispatchFail, FailCase, TriggerEnd
    <3>3. ~ \E q \in DebugRuns : DebugStart(q) BY DEF DebugStart
    <3>4. ~ \E q \in DebugRuns : Debug(q)
      BY DEF Debug, DebugResolveFail, DebugDispatchOk, DebugDispatchFail,
             DebugAnswered, DebugTimeout, DebugFailCase, DebugFailRun
    <3>5. ~ \E q \in Runs, i \in Items :
              LoseTask(q, i) \/ \E v \in Verdicts : WorkerReport(q, i, v)
      BY DEF LoseTask, WorkerReport
    <3>6. ~HandleTaskResult
      BY DEF HandleTaskResult, ReportBegin, ReportCount, ReportRollback
    <3>7. ~ \E q \in Runs : Cancel(q) \/ Age(q) BY DEF Cancel, Age
    <3>8. ~ReapStaleRuns BY DEF ReapStaleRuns, ReapScan, ReapCases, ReapRun
    <3>9. ~Restart BY DEF Restart
    <3> QED BY <3>1, <3>2, <3>3, <3>4, <3>5, <3>6, <3>7, <3>8, <3>9 DEF Next, vars
  <2>3. t.run \in Runs /\ t.item \in Items BY <2>1 DEF TypeOK, Tx
  <2>4. runStatus' = [runStatus EXCEPT ![t.run] = IF Ends(t) THEN t.finish ELSE @]
    BY <2>2 DEF ReportCommit
  <2>5. r = t.run /\ t.finish = "PASSED" BY <1>1, <2>1, <2>3, <2>4 DEF TypeOK
  <2>6. \A i \in Items : crStatus'[r][i] = Seen(t, i)
    BY <2>1, <2>2, <2>3, <2>5 DEF ReportCommit, Seen, TypeOK
  <2>7. \A i \in Items : Seen(t, i) \notin {"RUNNING", "FAILED"}
    BY <1>1, <2>5 DEF CInv, ConclusionHolds
  <2> HIDE DEF Items
  <2> QED BY <2>6, <2>7
<1>2. IInv /\ CInv /\ [Next]_vars =>
        [\A r \in Runs : runStatus[r] # "PASSED" /\ runStatus'[r] = "PASSED" =>
           \A i \in Items : crStatus'[r][i] \notin {"RUNNING", "FAILED"}]_vars
  <2> HIDE DEF Items
  <2> QED BY <1>1
<1> QED BY Inductive, ContractInvariant, <1>2, PTL DEF Spec, PassedOnlyIfAllPassed

-----------------------------------------------------------------------------
(* Why the last report ends the run.                                        *)

\* A task that was sent has a case row.
SentHasRow == \A r \in Runs, i \in Items : task[r][i] # "none" => crStatus[r][i] # "NONE"

\* A report that is not to end its run leaves another case open behind.
AnotherIsOpen ==
  SerialTx => \A t \in tx : t.accepted /\ t.finish = "no" =>
    \E i \in Items \ {t.item} : crStatus[t.run][i] = "RUNNING"

\* Trigger has not created a case yet, and will fail the run if it never does.
NoCaseYet(r) == pc[r] = "item" /\ \A i \in Items : crStatus[r][i] = "NONE"

\* A case has a row and was not sent by the loop that has passed it.
NeverSent(r) == \E i \in Items : i < next[r] /\ task[r][i] = "none" /\ crStatus[r][i] # "NONE"

\* What keeps a run RUNNING: a case, a goroutine that is about to end it, or a
\* case that nobody is going to report.
Open(r) ==
  \/ \E i \in Items : crStatus[r][i] = "RUNNING"
  \/ NoCaseYet(r) \/ NeverSent(r)
  \/ pc[r] \in {"errRun", "toRun"} \/ reapCur = r

StillOpen == SerialTx => \A r \in Runs : runStatus[r] = "RUNNING" => Open(r)

\* The loop index of a debug run stays at its one case.
DebugHasOneCase == \A r \in DebugRuns : next[r] = 1

\* The invariant behind LastReportEndsRun.
OInv == SentHasRow /\ AnotherIsOpen /\ StillOpen /\ DebugHasOneCase

(* A row, once created, stays.                                              *)
LEMMA RowsStay ==
  ASSUME IInv, [Next]_vars, NEW r \in Runs, NEW i \in Items, crStatus[r][i] # "NONE"
  PROVE  crStatus'[r][i] # "NONE"
<1>1. TypeOK /\ AcceptedIsOpen BY DEF IInv
<1> USE <1>1 DEF TypeOK, CaseEnded, rows, procs, reap
<1>2. ASSUME NEW q \in PlanRuns, TriggerStart(q) \/ Trigger(q) PROVE crStatus'[r][i] # "NONE"
  <2>1. \/ crStatus' = crStatus
        \/ \E s \in {"RUNNING", "FAILED"} : crStatus' = [crStatus EXCEPT ![q][next[q]] = s]
    BY <1>2 DEF TriggerStart, Trigger, SkipItem, CreateCase, DispatchOk, DispatchFail,
                FailCase, TriggerEnd
  <2>2. ASSUME NEW s \in {"RUNNING", "FAILED"},
               crStatus' = [crStatus EXCEPT ![q][next[q]] = s]
        PROVE  crStatus'[r][i] # "NONE"
    <3>1. crStatus'[r] = IF r = q THEN [crStatus[r] EXCEPT ![next[q]] = s] ELSE crStatus[r]
      BY <2>2
    <3>2. [crStatus[r] EXCEPT ![next[q]] = s][i] = IF i = next[q] THEN s ELSE crStatus[r][i]
      OBVIOUS
    <3> QED BY <3>1, <3>2
  <2> QED BY <2>1, <2>2
<1>3. ASSUME NEW q \in DebugRuns, DebugStart(q) \/ Debug(q) PROVE crStatus'[r][i] # "NONE"
  <2>1. \/ crStatus' = crStatus
        \/ \E s \in {"RUNNING", "FAILED"} : crStatus' = [crStatus EXCEPT ![q][1] = s]
    BY <1>3 DEF DebugStart, Debug, DebugResolveFail, DebugDispatchOk, DebugDispatchFail,
                DebugAnswered, DebugTimeout, DebugFailCase, DebugFailRun
  <2>2. ASSUME NEW s \in {"RUNNING", "FAILED"},
               crStatus' = [crStatus EXCEPT ![q][1] = s]
        PROVE  crStatus'[r][i] # "NONE"
    <3>1. crStatus'[r] = IF r = q THEN [crStatus[r] EXCEPT ![1] = s] ELSE crStatus[r]
      BY <2>2
    <3>2. [crStatus[r] EXCEPT ![1] = s][i] = IF i = 1 THEN s ELSE crStatus[r][i]
      OBVIOUS
    <3> QED BY <3>1, <3>2
  <2> QED BY <2>1, <2>2
<1>4. ASSUME NEW q \in Runs, NEW j \in Items,
             LoseTask(q, j) \/ \E v \in Verdicts : WorkerReport(q, j, v)
      PROVE  crStatus'[r][i] # "NONE"
  BY <1>4 DEF LoseTask, WorkerReport
<1>5. ASSUME HandleTaskResult PROVE crStatus'[r][i] # "NONE"
  <2>1. ASSUME NEW t \in tx, ReportCommit(t) PROVE crStatus'[r][i] # "NONE"
    <3>1. t.run \in Runs /\ t.item \in Items /\ t.verdict \in Verdicts BY DEF Tx
    <3>2. crStatus' = [crStatus EXCEPT ![t.run][t.item] = Seen(t, t.item)]
      BY <2>1 DEF ReportCommit
    <3>3. crStatus[t.run][t.item] # "NONE" => Seen(t, t.item) # "NONE"
      BY <3>1 DEF Seen, Verdicts
    <3> HIDE DEF Items
    <3> QED BY <3>1, <3>2, <3>3
  <2> QED BY <1>5, <2>1 DEF HandleTaskResult, ReportBegin, ReportCount, ReportRollback
<1>6. ASSUME NEW q \in Runs, NEW s \in CaseEnded,
             crStatus' = [crStatus EXCEPT ![q] = CloseCases(q, s)]
      PROVE  crStatus'[r][i] # "NONE"
  BY <1>6, ClosingKeepsRows
<1>7. ASSUME NEW q \in Runs, Cancel(q) \/ Age(q) PROVE crStatus'[r][i] # "NONE"
  BY <1>6, <1>7 DEF Cancel, Age
<1>8. ASSUME ReapStaleRuns PROVE crStatus'[r][i] # "NONE"
  BY <1>6, <1>8 DEF ReapStaleRuns, ReapScan, ReapCases, ReapRun
<1>9. ASSUME Restart PROVE crStatus'[r][i] # "NONE"
  BY <1>9 DEF Restart, CloseCases
<1>10. CASE UNCHANGED vars BY <1>10 DEF vars
<1> QED
  BY <1>2, <1>3, <1>4, <1>5, <1>7, <1>8, <1>9, <1>10 DEF Next

(* The tasks that a step sends: the loop's item, or the one of a debug run.  *)
LEMMA SendsWithRow ==
  ASSUME IInv, CInv, SentHasRow, DebugHasOneCase, [Next]_vars
  PROVE  SentHasRow' /\ DebugHasOneCase'
<1>1. TypeOK BY DEF IInv
<1>2. ASSUME \A r \in Runs, i \in Items : task'[r][i] # "none" => task[r][i] # "none"
      PROVE  SentHasRow'
  <2> HIDE DEF Items
  <2> QED BY <1>2, RowsStay DEF SentHasRow
<1>3. ASSUME NEW r \in Runs, NEW i \in Items, crStatus[r][i] # "NONE",
             task' = [task EXCEPT ![r][i] = "sent"]
      PROVE  SentHasRow'
  <2>1. \A q \in Runs, j \in Items : task'[q][j] # "none" => task[q][j] # "none" \/ (q = r /\ j = i)
    BY <1>1, <1>3 DEF TypeOK
  <2> HIDE DEF Items
  <2> QED BY <1>3, <2>1, RowsStay DEF SentHasRow
<1> USE DEF rows, procs, reap
<1>4. PlanRuns \subseteq Runs /\ DebugRuns \subseteq Runs /\ PlanRuns \cap DebugRuns = {} /\ 1 \in Items
  BY RunLifecycleAssumption DEF Runs
<1>5. ASSUME NEW r \in PlanRuns, TriggerStart(r) \/ Trigger(r) PROVE SentHasRow' /\ DebugHasOneCase'
  <2>1. DebugHasOneCase'
    BY <1>1, <1>4, <1>5 DEF TypeOK, DebugHasOneCase, TriggerStart, Trigger, SkipItem, CreateCase,
       DispatchOk, DispatchFail, FailCase, TriggerEnd, NextItem
  <2>2. CASE DispatchOk(r)
    <3>1. next[r] \in Items /\ crStatus[r][next[r]] # "NONE"
      BY <1>1, <1>4, <2>2 DEF DispatchOk, IInv, TypeOK, LoopBound, CInv, NoRowAhead
    <3>2. task' = [task EXCEPT ![r][next[r]] = "sent"] BY <2>2 DEF DispatchOk
    <3> HIDE DEF Items
    <3> QED BY <1>3, <1>4, <2>1, <3>1, <3>2
  <2>3. CASE ~DispatchOk(r)
    <3>1. task' = task
      BY <1>5, <2>3 DEF TriggerStart, Trigger, SkipItem, CreateCase, DispatchFail, FailCase, TriggerEnd
    <3> QED BY <1>2, <2>1, <3>1
  <2> QED BY <2>2, <2>3
<1>6. ASSUME NEW r \in DebugRuns, DebugStart(r) \/ Debug(r) PROVE SentHasRow' /\ DebugHasOneCase'
  <2>1. DebugHasOneCase'
    BY <1>6 DEF DebugHasOneCase, DebugStart, Debug, DebugResolveFail, DebugDispatchOk,
       DebugDispatchFail, DebugAnswered, DebugTimeout, DebugFailCase, DebugFailRun
  <2>2. CASE DebugDispatchOk(r)
    <3>1. crStatus[r][1] # "NONE" BY <2>2 DEF DebugDispatchOk, CInv, NoRowAhead
    <3>2. task' = [task EXCEPT ![r][1] = "sent"] BY <2>2 DEF DebugDispatchOk
    <3> HIDE DEF Items
    <3> QED BY <1>3, <1>4, <2>1, <3>1, <3>2
  <2>3. CASE ~DebugDispatchOk(r)
    <3>1. task' = task
      BY <1>6, <2>3 DEF DebugStart, Debug, DebugResolveFail, DebugDispatchFail, DebugAnswered,
         DebugTimeout, DebugFailCase, DebugFailRun
    <3> QED BY <1>2, <2>1, <3>1
  <2> QED BY <2>2, <2>3
<1>7. ASSUME NEW r \in Runs, NEW i \in Items,
             LoseTask(r, i) \/ \E v \in Verdicts : WorkerReport(r, i, v)
      PROVE  SentHasRow' /\ DebugHasOneCase'
  <2>1. task[r][i] = "sent" /\ task' = [task EXCEPT ![r][i] = "done"] /\ next' = next
    BY <1>7 DEF LoseTask, WorkerReport
  <2>2. \A q \in Runs, j \in Items : task'[q][j] # "none" => task[q][j] # "none"
    BY <1>1, <2>1 DEF TypeOK
  <2> QED BY <1>2, <2>1, <2>2 DEF DebugHasOneCase
<1>8. ASSUME task' = task, next' = next PROVE SentHasRow' /\ DebugHasOneCase'
  BY <1>2, <1>8 DEF DebugHasOneCase
<1>9. CASE HandleTaskResult
  BY <1>8, <1>9 DEF HandleTaskResult, ReportBegin, ReportCount, ReportCommit, ReportRollback
<1>10. ASSUME NEW r \in Runs, Cancel(r) \/ Age(r) PROVE SentHasRow' /\ DebugHasOneCase'
  BY <1>8, <1>10 DEF Cancel, Age
<1>11. CASE ReapStaleRuns
  BY <1>8, <1>11 DEF ReapStaleRuns, ReapScan, ReapCases, ReapRun
<1>12. CASE Restart
  <2>1. \A q \in Runs, j \in Items : task'[q][j] # "none" => task[q][j] # "none"
    BY <1>1, <1>12 DEF TypeOK, Restart
  <2> QED BY <1>2, <1>12, <2>1 DEF DebugHasOneCase, Restart
<1>13. CASE UNCHANGED vars BY <1>8, <1>13 DEF vars
<1> QED
  BY <1>5, <1>6, <1>7, <1>9, <1>10, <1>11, <1>12, <1>13 DEF Next

(* A report that concluded "not the last" leaves another case open.          *)
LEMMA AnotherStep ==
  ASSUME IInv, CInv, AnotherIsOpen, [Next]_vars PROVE AnotherIsOpen'
<1> SUFFICES ASSUME SerialTx PROVE AnotherIsOpen' BY DEF AnotherIsOpen
<1>1. TypeOK /\ AcceptedIsOpen /\ ConclusionHolds BY DEF IInv, CInv
<1>2. ASSUME NEW m \in reports, ReportBegin(m) PROVE AnotherIsOpen'
  <2> PICK t : t = [run |-> m.run, item |-> m.item, verdict |-> m.verdict,
                    accepted |-> Accepts(m), finish |-> "uncounted"]
    OBVIOUS
  <2>1. tx' = {t} BY <1>2 DEF ReportBegin, RowsFree
  <2>2. t.finish # "no" OBVIOUS
  <2> QED BY <2>1, <2>2 DEF AnotherIsOpen
<1>3. ASSUME NEW t \in tx, ReportCount(t) PROVE AnotherIsOpen'
  <2> PICK u : u = [t EXCEPT !.finish = Conclusion(t)] OBVIOUS
  <2>1. tx' = {u} /\ crStatus' = crStatus
    BY <1>1, <1>3 DEF ReportCount, ConclusionHolds, rows
  <2>2. t \in Tx BY <1>1 DEF TypeOK
  <2>3. /\ u.finish = Conclusion(t)
        /\ u.run = t.run /\ u.item = t.item /\ u.accepted = t.accepted
        /\ t.item \in Items /\ t.verdict \in Verdicts
    BY <2>2 DEF Tx
  <2>4. ASSUME t.accepted, Conclusion(t) = "no"
        PROVE  \E i \in Items \ {t.item} : crStatus[t.run][i] = "RUNNING"
    <3>1. Seen(t, t.item) = t.verdict /\ t.verdict \in {"PASSED", "FAILED"}
      BY <1>1, <2>3, <2>4 DEF Seen, AcceptedIsOpen, Verdicts
    <3>2. PICK i \in Items : Seen(t, i) = "RUNNING"
      <4> HIDE DEF Items
      <4> QED BY <2>3, <2>4, <3>1 DEF Conclusion
    <3> QED BY <3>1, <3>2 DEF Seen
  <2>5. u.accepted /\ u.finish = "no" =>
          \E i \in Items \ {u.item} : crStatus'[u.run][i] = "RUNNING"
    <3> HIDE DEF Items
    <3> QED BY <2>1, <2>3, <2>4
  <2> HIDE DEF Items
  <2> QED BY <2>1, <2>5 DEF AnotherIsOpen
<1>4. ASSUME ~ \E m \in reports : ReportBegin(m), ~ \E t \in tx : ReportCount(t)
      PROVE  AnotherIsOpen'
  <2>1. CASE tx' = tx /\ crStatus' = crStatus BY <2>1 DEF AnotherIsOpen
  <2>2. CASE tx' = {} BY <2>2 DEF AnotherIsOpen
  <2> QED BY <1>1, <1>4, <2>1, <2>2, SerialStep
<1> QED BY <1>2, <1>3, <1>4

(* A run that a step does not touch stays open.                             *)
LEMMA UntouchedStaysOpen ==
  ASSUME NEW r \in Runs, runStatus[r] = "RUNNING" => Open(r),
         runStatus'[r] = runStatus[r], crStatus'[r] = crStatus[r], pc'[r] = pc[r],
         next'[r] = next[r], task'[r] = task[r], reapCur = r => reapCur' = r
  PROVE  runStatus'[r] = "RUNNING" => Open(r)'
BY DEF Open, NoCaseYet, NeverSent

(* Trigger and Debug leave a run open as long as they leave it RUNNING.      *)
LEMMA TriggerLeavesOpen ==
  ASSUME IInv, CInv, SentHasRow, NEW r \in PlanRuns, TriggerStart(r) \/ Trigger(r),
         runStatus[r] = "RUNNING" => Open(r)
  PROVE  runStatus'[r] = "RUNNING" => Open(r)'
<1>1. /\ TypeOK /\ LoopBound /\ AheadNotSent /\ NoRowAhead
      /\ r \in Runs /\ next[r] \in 1 .. (NumItems + 1) /\ NumItems \in Nat
  BY RunLifecycleAssumption DEF IInv, CInv, TypeOK, Runs
<1> USE <1>1 DEF TypeOK, Open, rows, procs, reap
<1>2. CASE TriggerStart(r)
  BY <1>2 DEF TriggerStart, NoRowAhead, NoCaseYet, Go
<1>3. CASE SkipItem(r)
  <2>1. /\ pc[r] = "item" /\ pc'[r] = "item" /\ next'[r] = next[r] + 1
        /\ UNCHANGED <<runStatus, crStatus, task, reapCur>>
    BY <1>3 DEF SkipItem, NextItem, Go
  <2>2. NoCaseYet(r) => NoCaseYet(r)' BY <2>1 DEF NoCaseYet
  <2>3. NeverSent(r) => NeverSent(r)'
    <3>1. \A i \in Items : i < next[r] => i < next'[r] BY <2>1
    <3> HIDE DEF Items
    <3> QED BY <2>1, <3>1 DEF NeverSent
  <2> HIDE DEF Items
  <2> QED BY <2>1, <2>2, <2>3
<1>4. CASE CreateCase(r)
  <2>1. next[r] \in Items /\ crStatus'[r][next[r]] = "RUNNING"
    BY <1>4 DEF CreateCase, ItemsLeft
  <2> QED BY <2>1
<1>5. CASE DispatchOk(r)
  <2>1. /\ pc[r] = "dispatch" /\ next'[r] = next[r] + 1
        /\ task' = [task EXCEPT ![r][next[r]] = "sent"]
        /\ UNCHANGED <<runStatus, crStatus, reapCur>>
    BY <1>5 DEF DispatchOk, NextItem, Go
  <2>2. \A i \in Items : i < next[r] => task'[r][i] = task[r][i] /\ i < next'[r]
    BY <2>1
  <2> QED BY <2>1, <2>2 DEF NoCaseYet, NeverSent
<1>6. CASE DispatchFail(r)
  BY <1>6 DEF DispatchFail, Go, NoCaseYet, NeverSent
<1>7. CASE FailCase(r)
  <2>1. /\ pc[r] = "fail" /\ next'[r] = next[r] + 1 /\ task' = task
        /\ crStatus' = [crStatus EXCEPT ![r][next[r]] = "FAILED"]
    BY <1>7 DEF FailCase, NextItem, Go
  <2>2. next[r] \in Items /\ task[r][next[r]] = "none"
    BY <2>1 DEF LoopBound, AheadNotSent, Looping
  <2>3. crStatus'[r][next[r]] = "FAILED" BY <2>1, <2>2
  <2>4. next[r] < next'[r] BY <2>1
  <2> QED BY <2>1, <2>2, <2>3, <2>4 DEF NeverSent
<1>8. CASE TriggerEnd(r)
  <2>1. pc[r] = "item" /\ UNCHANGED <<crStatus, next, task, reapCur>>
    BY <1>8 DEF TriggerEnd
  <2>2. CASE Dispatched(r) /\ UNCHANGED runStatus
    <3>1. ~NoCaseYet(r) BY <2>2 DEF Dispatched, SentHasRow, NoCaseYet
    <3> HIDE DEF Items
    <3> QED BY <2>1, <2>2, <3>1 DEF NeverSent
  <2>3. CASE runStatus' = [runStatus EXCEPT ![r] = "FAILED"]
    BY <2>3
  <2> QED BY <1>8, <2>2, <2>3 DEF TriggerEnd
<1> QED
  BY <1>2, <1>3, <1>4, <1>5, <1>6, <1>7, <1>8 DEF Trigger

LEMMA DebugLeavesOpen ==
  ASSUME IInv, DebugHasOneCase, NEW r \in DebugRuns, DebugStart(r) \/ Debug(r),
         runStatus[r] = "RUNNING" => Open(r)
  PROVE  runStatus'[r] = "RUNNING" => Open(r)'
<1>1. TypeOK /\ r \in Runs /\ next[r] = 1 /\ 1 \in Items
  BY RunLifecycleAssumption DEF IInv, Runs, DebugHasOneCase
<1> USE <1>1 DEF TypeOK, Open, rows, procs, reap
<1>2. CASE DebugStart(r)
  <2>1. crStatus'[r][1] = "RUNNING" BY <1>2 DEF DebugStart
  <2> QED BY <2>1
<1>3. ~NeverSent(r) BY DEF NeverSent
<1>4. CASE DebugResolveFail(r) \/ DebugDispatchOk(r) \/ DebugDispatchFail(r)
           \/ DebugAnswered(r) \/ DebugTimeout(r)
  <2>1. /\ pc[r] \in {"resolve", "wait"} /\ UNCHANGED <<runStatus, crStatus, reapCur>>
    BY <1>4 DEF DebugResolveFail, DebugDispatchOk, DebugDispatchFail, DebugAnswered, DebugTimeout
  <2> HIDE DEF Items
  <2> QED BY <1>3, <2>1 DEF NoCaseYet
<1>5. CASE DebugFailCase(r)
  BY <1>5 DEF DebugFailCase, Go
<1>6. CASE DebugFailRun(r)
  BY <1>6 DEF DebugFailRun
<1> QED
  BY <1>2, <1>4, <1>5, <1>6 DEF Debug

(* A COMMIT ends its run or leaves it open.                                  *)
LEMMA CommitLeavesOpen ==
  ASSUME SerialTx, IInv, AnotherIsOpen, NEW t \in tx, ReportCommit(t),
         runStatus[t.run] = "RUNNING" => Open(t.run)
  PROVE  runStatus'[t.run] = "RUNNING" => Open(t.run)'
<1> PICK r \in Runs : r = t.run BY DEF IInv, TypeOK, Tx
<1>1. /\ TypeOK /\ t.item \in Items
      /\ t.finish \in {"no", "PASSED", "FAILED"}
      /\ UNCHANGED <<pc, next, task, reapCur>>
      /\ runStatus' = [runStatus EXCEPT ![r] = IF Ends(t) THEN t.finish ELSE @]
      /\ crStatus' = [crStatus EXCEPT ![r][t.item] = Seen(t, t.item)]
  BY DEF IInv, TypeOK, Tx, ReportCommit, reap
<1>2. CASE Ends(t)
  <2>1. runStatus'[r] = t.finish /\ t.finish # "RUNNING" BY <1>1, <1>2 DEF TypeOK, Ends
  <2> QED BY <2>1
<1>3. CASE runStatus[r] # "RUNNING"
  <2>1. runStatus'[r] # "RUNNING" BY <1>1, <1>3 DEF TypeOK, Ends
  <2> QED BY <2>1
<1>4. CASE t.accepted /\ t.finish = "no"
  <2>1. PICK i \in Items \ {t.item} : crStatus[r][i] = "RUNNING"
    BY <1>4 DEF AnotherIsOpen
  <2>2. crStatus'[r][i] = "RUNNING" BY <1>1, <2>1 DEF TypeOK
  <2> QED BY <2>2 DEF Open
<1>5. CASE ~t.accepted /\ t.finish = "no" /\ runStatus[r] = "RUNNING"
  <2>1. \A i \in Items : crStatus'[r][i] = crStatus[r][i]
    BY <1>1, <1>5 DEF TypeOK, Seen
  <2> HIDE DEF Items
  <2> QED BY <1>1, <1>5, <2>1 DEF Open, NoCaseYet, NeverSent
<1> QED BY <1>1, <1>2, <1>3, <1>4, <1>5 DEF Ends

(* Whatever happens, a RUNNING run stays open.                               *)
LEMMA StillOpenStep ==
  ASSUME IInv, IInv', CInv, OInv, [Next]_vars PROVE StillOpen'
<1> SUFFICES ASSUME SerialTx, NEW q \in Runs PROVE runStatus'[q] = "RUNNING" => Open(q)'
  BY DEF StillOpen
<1>1. TypeOK /\ (runStatus[q] = "RUNNING" => Open(q))
  BY DEF IInv, OInv, StillOpen
<1>2. OInv => AnotherIsOpen /\ SentHasRow /\ DebugHasOneCase
  BY DEF OInv
<1> HIDE DEF Items
<1> USE DEF rows, procs, reap
<1>3. ASSUME NEW r \in PlanRuns, TriggerStart(r) \/ Trigger(r)
      PROVE  runStatus'[q] = "RUNNING" => Open(q)'
  <2>1. CASE q = r BY <1>1, <1>2, <1>3, <2>1, TriggerLeavesOpen
  <2>2. CASE q # r
    BY <1>1, <1>3, <2>2, UntouchedStaysOpen
    DEF TypeOK, TriggerStart, Trigger, SkipItem, CreateCase, DispatchOk, DispatchFail,
        FailCase, TriggerEnd, NextItem, Go
  <2> QED BY <2>1, <2>2
<1>4. ASSUME NEW r \in DebugRuns, DebugStart(r) \/ Debug(r)
      PROVE  runStatus'[q] = "RUNNING" => Open(q)'
  <2>1. CASE q = r BY <1>1, <1>2, <1>4, <2>1, DebugLeavesOpen
  <2>2. CASE q # r
    BY <1>1, <1>4, <2>2, UntouchedStaysOpen
    DEF TypeOK, DebugStart, Debug, DebugResolveFail, DebugDispatchOk, DebugDispatchFail,
        DebugAnswered, DebugTimeout, DebugFailCase, DebugFailRun, Go
  <2> QED BY <2>1, <2>2
<1>5. ASSUME NEW r \in Runs, NEW i \in Items,
             LoseTask(r, i) \/ \E v \in Verdicts : WorkerReport(r, i, v)
      PROVE  runStatus'[q] = "RUNNING" => Open(q)'
  <2>1. /\ task[r][i] = "sent" /\ task' = [task EXCEPT ![r][i] = "done"]
        /\ UNCHANGED <<runStatus, crStatus, pc, next, reapCur>>
    BY <1>5 DEF LoseTask, WorkerReport
  <2>2. \A j \in Items : task[q][j] = "none" => task'[q][j] = "none"
    BY <1>1, <2>1 DEF TypeOK
  <2> QED BY <1>1, <2>1, <2>2 DEF Open, NoCaseYet, NeverSent
<1>6. ASSUME UNCHANGED <<rows, pc, next, task, reapCur>>
      PROVE  runStatus'[q] = "RUNNING" => Open(q)'
  BY <1>1, <1>6, UntouchedStaysOpen
<1>7. CASE HandleTaskResult
  <2>1. ASSUME NEW t \in tx, ReportCommit(t) PROVE runStatus'[q] = "RUNNING" => Open(q)'
    <3>1. CASE q = t.run BY <1>1, <1>2, <2>1, <3>1, CommitLeavesOpen
    <3>2. CASE q # t.run
      BY <1>1, <2>1, <3>2, UntouchedStaysOpen DEF TypeOK, ReportCommit
    <3> QED BY <3>1, <3>2
  <2> QED
    BY <1>6, <1>7, <2>1 DEF HandleTaskResult, ReportBegin, ReportCount, ReportRollback
<1>8. ASSUME NEW r \in Runs, Cancel(r) PROVE runStatus'[q] = "RUNNING" => Open(q)'
  <2>1. CASE q = r BY <1>1, <1>8, <2>1 DEF Cancel, TypeOK
  <2>2. CASE q # r BY <1>1, <1>8, <2>2, UntouchedStaysOpen DEF Cancel, TypeOK
  <2> QED BY <2>1, <2>2
<1>9. ASSUME NEW r \in Runs, Age(r) PROVE runStatus'[q] = "RUNNING" => Open(q)'
  BY <1>1, <1>9, UntouchedStaysOpen DEF Age
<1>10. ASSUME NEW r \in Runs, ReapCases(r) PROVE runStatus'[q] = "RUNNING" => Open(q)'
  <2>1. CASE q = r BY <1>10, <2>1 DEF ReapCases, Open
  <2>2. CASE q # r
    <3>1. reapCur # q BY <1>10, RunLifecycleAssumption DEF ReapCases
    <3> QED BY <1>1, <1>10, <2>2, <3>1, UntouchedStaysOpen DEF ReapCases, TypeOK
  <2> QED BY <2>1, <2>2
<1>11. ASSUME NEW r \in Runs, ReapRun(r) PROVE runStatus'[q] = "RUNNING" => Open(q)'
  <2>1. CASE q = r BY <1>1, <1>11, <2>1 DEF ReapRun, TypeOK
  <2>2. CASE q # r BY <1>1, <1>11, <2>2, UntouchedStaysOpen DEF ReapRun, TypeOK
  <2> QED BY <2>1, <2>2
<1>12. CASE ReapScan BY <1>6, <1>12 DEF ReapScan
<1>13. CASE Restart BY <1>1, <1>13 DEF Restart, TypeOK
<1>14. CASE UNCHANGED vars BY <1>6, <1>14 DEF vars
<1> QED
  BY <1>3, <1>4, <1>5, <1>7, <1>8, <1>9, <1>10, <1>11, <1>12, <1>13, <1>14
  DEF Next, ReapStaleRuns

\* When all cases of a run have ended and nobody is at work on it any more, one
\* of the handlers has ended the run, provided that every case that got a row
\* was sent (LastReportEndsRun of RunLifecycle): on SQLite of two reports of a
\* run the second counts what the first has stored, so one of them is the last.
THEOREM LastReportEnds == ASSUME SerialTx PROVE Spec => []LastReportEndsRun
<1>1. Init => OInv
  BY RunLifecycleAssumption
  DEF Init, OInv, SentHasRow, AnotherIsOpen, StillOpen, DebugHasOneCase, Runs
<1>2. IInv /\ IInv' /\ CInv /\ OInv /\ [Next]_vars => OInv'
  BY SendsWithRow, AnotherStep, StillOpenStep DEF OInv
<1>3. IInv /\ OInv => LastReportEndsRun
  <2> HIDE DEF Items
  <2> QED
    BY DEF OInv, StillOpen, Open, NoCaseYet, NeverSent, LastReportEndsRun, Settled
<1> QED BY Inductive, ContractInvariant, <1>1, <1>2, <1>3, PTL DEF Spec
=============================================================================
