---------------------------- MODULE RunLifecycle ----------------------------
(***************************************************************************)
(* The rows of a functional test run (TestRun and its TestCaseResults) and *)
(* every goroutine that writes them:                                       *)
(*   - runner.Trigger / runner.RunCase: create the run, then walk the plan *)
(*     items, creating one case row and dispatching one task per item;     *)
(*   - runner.Debug: a one-case run whose caller waits for the answer;     *)
(*   - dispatch.HandleTaskResult / maybeFinishRun: a database transaction  *)
(*     per worker report that closes the case and, if it is the last, the  *)
(*     run;                                                                *)
(*   - httpserver.cancelRun, runner.ReapStaleRuns, and the start-up        *)
(*     recovery runner.RecoverInterruptedRuns after a crash.               *)
(* The dispatcher and the worker are reduced to what these handlers see of *)
(* them: a dispatch succeeds or fails, and a dispatched task is reported   *)
(* (with or without a case verdict) or lost.                               *)
(***************************************************************************)
EXTENDS Naturals, FiniteSets

CONSTANTS
  PlanRuns,       (* ids of the runs started by Trigger or RunCase            *)
  DebugRuns,      (* ids of the runs started by Debug                         *)
  NumItems,       (* cases a plan expands to (1 for RunCase)                  *)
  Limit,          (* concurrent_runs quota of the tenant, 0 = unlimited       *)
  SerialTx,       (* TRUE: SQLite, one write transaction at a time;           *)
                  (* FALSE: PostgreSQL READ COMMITTED with row locks          *)
  DispatchMayFail,(* can Dispatch or materializeCaseEx return an error?       *)
  MaxRestarts,    (* bound on scheduler crashes                               *)
  NoRun           (* "no run", for the reaper's current run                   *)

Runs  == PlanRuns \cup DebugRuns
Items == 1..NumItems

ASSUME RunLifecycleAssumption ==
  /\ PlanRuns \cap DebugRuns = {}
  /\ IsFiniteSet(Runs)
  /\ NoRun \notin Runs
  /\ NumItems \in Nat \ {0}
  /\ Limit \in Nat
  /\ SerialTx \in BOOLEAN
  /\ DispatchMayFail \in BOOLEAN
  /\ MaxRestarts \in Nat

VARIABLES
  runStatus,  (* TestRun.status ("NONE": no row yet)                          *)
  crStatus,   (* TestCaseResult.status of item i of run r                     *)
  steps,      (* how often the step results of a case have been inserted      *)
  finishes,   (* how often RunFinished was notified (and the metrics counted) *)
  old,        (* started_at is further back than StaleRunAge                  *)
  pc, next,   (* the goroutine in Trigger or Debug, and its item index        *)
  waiter,     (* Dispatcher.waiters entry of a debug task, and its channel    *)
  task,       (* the task of a case: not sent, at a worker, or done with      *)
  reports,    (* TaskResults on their way from the workers                    *)
  tx,         (* open HandleTaskResult transactions                           *)
  reapTodo, reapCur, (* ReapStaleRuns: runs it selected, run it is closing    *)
  restarts

rows  == <<runStatus, crStatus, steps, finishes, old>>
procs == <<pc, next, waiter>>
reap  == <<reapTodo, reapCur>>
vars  == <<rows, procs, task, reports, tx, reap, restarts>>

CaseEnded == {"PASSED", "FAILED", "SKIPPED"}
RunEnded  == {"PASSED", "FAILED", "ABORTED"}
Verdicts  == {"PASSED", "FAILED", "EMPTY"} \* EMPTY: a result with no case_results
Report    == [run : Runs, item : Items, verdict : Verdicts]
\* A transaction has updated its case row (accepted: the guarded UPDATE hit the
\* row); finish is what maybeFinishRun has concluded from its counts.
Tx        == [run : Runs, item : Items, verdict : Verdicts, accepted : BOOLEAN,
              finish : {"uncounted", "no", "PASSED", "FAILED"}]
PcValues  == {"idle", "item", "dispatch", "fail", "resolve", "wait", "errCase",
              "errRun", "toCase", "toRun", "done"}

\* The type of every variable; in particular no loop of Trigger runs past the
\* plan's items.
TypeOK ==
  /\ runStatus \in [Runs -> {"NONE", "RUNNING"} \cup RunEnded]
  /\ crStatus \in [Runs -> [Items -> {"NONE", "RUNNING"} \cup CaseEnded]]
  /\ steps \in [Runs -> [Items -> Nat]]
  /\ finishes \in [Runs -> Nat]
  /\ old \in [Runs -> BOOLEAN]
  /\ pc \in [Runs -> PcValues]
  /\ next \in [Runs -> 1..(NumItems + 1)]
  /\ waiter \in [Runs -> {"none", "registered", "taken", "delivered"}]
  /\ task \in [Runs -> [Items -> {"none", "sent", "done"}]]
  /\ reports \subseteq Report
  /\ tx \subseteq Tx
  /\ reapTodo \subseteq Runs
  /\ reapCur \in Runs \cup {NoRun}
  /\ restarts \in 0..MaxRestarts

Init ==
  /\ runStatus = [r \in Runs |-> "NONE"]
  /\ crStatus = [r \in Runs |-> [i \in Items |-> "NONE"]]
  /\ steps = [r \in Runs |-> [i \in Items |-> 0]]
  /\ finishes = [r \in Runs |-> 0]
  /\ old = [r \in Runs |-> FALSE]
  /\ pc = [r \in Runs |-> "idle"]
  /\ next = [r \in Runs |-> 1]
  /\ waiter = [r \in Runs |-> "none"]
  /\ task = [r \in Runs |-> [i \in Items |-> "none"]]
  /\ reports = {} /\ tx = {}
  /\ reapTodo = {} /\ reapCur = NoRun
  /\ restarts = 0

-----------------------------------------------------------------------------
(* Writing: on SQLite every write waits for the open write transaction; on  *)
(* PostgreSQL only for the locks it holds on the same case rows.            *)

RowsFree(r, S) ==
  /\ SerialTx => tx = {}
  /\ \A t \in tx : t.run = r /\ t.item \in S => ~t.accepted

RunningRuns == {r \in Runs : runStatus[r] = "RUNNING"}

QuotaOffByOne == Limit = 0 \/ Cardinality(RunningRuns) <= Limit

\* quota.CheckTx(concurrent_runs, 1) in the transaction that creates the run.
QuotaAdmits == Limit = 0 \/ Cardinality(RunningRuns) + 1 <= Limit

CloseAllCases(r, s) ==
  [i \in Items |-> IF crStatus[r][i] # "NONE" THEN s ELSE "NONE"]

\* UPDATE ... SET status = s WHERE run_id = r AND status = RUNNING
CloseCases(r, s) ==
  [i \in Items |-> IF crStatus[r][i] = "RUNNING" THEN s ELSE crStatus[r][i]]

Go(r, to) == pc' = [pc EXCEPT ![r] = to]
NextItem(r) == /\ next' = [next EXCEPT ![r] = @ + 1]
               /\ Go(r, "item")

-----------------------------------------------------------------------------
(* Trigger and RunCase: the run row, then the loop over the plan's items.   *)

TriggerStart(r) ==
  /\ r \in PlanRuns /\ pc[r] = "idle"
  /\ RowsFree(r, {}) /\ QuotaAdmits
  /\ runStatus' = [runStatus EXCEPT ![r] = "RUNNING"]
  /\ Go(r, "item")
  /\ UNCHANGED <<crStatus, steps, finishes, old, next, waiter, task, reports,
                 tx, reap, restarts>>

ItemsLeft(r) == next[r] <= NumItems

\* The referenced case is gone: the item is skipped, no row is created.
SkipItem(r) ==
  /\ pc[r] = "item" /\ ItemsLeft(r)
  /\ NextItem(r)
  /\ UNCHANGED <<rows, waiter, task, reports, tx, reap, restarts>>

CreateCase(r) ==
  /\ pc[r] = "item" /\ ItemsLeft(r)
  /\ RowsFree(r, {})
  /\ crStatus' = [crStatus EXCEPT ![r][next[r]] = "RUNNING"]
  /\ Go(r, "dispatch")
  /\ UNCHANGED <<runStatus, steps, finishes, old, next, waiter, task, reports,
                 tx, reap, restarts>>

DispatchOk(r) ==
  /\ pc[r] = "dispatch"
  /\ task' = [task EXCEPT ![r][next[r]] = "sent"]
  /\ NextItem(r)
  /\ UNCHANGED <<rows, waiter, reports, tx, reap, restarts>>

\* materializeCaseEx, applyOverrides or Dispatch returned an error ...
DispatchFail(r) ==
  /\ DispatchMayFail
  /\ pc[r] = "dispatch"
  /\ Go(r, "fail")
  /\ UNCHANGED <<rows, next, waiter, task, reports, tx, reap, restarts>>

\* ... and the case row is set FAILED, whatever it has become meanwhile.
FailCase(r) ==
  /\ pc[r] = "fail"
  /\ RowsFree(r, {next[r]})
  /\ crStatus' = [crStatus EXCEPT ![r][next[r]] = "FAILED"]
  /\ NextItem(r)
  /\ UNCHANGED <<runStatus, steps, finishes, old, waiter, task, reports, tx,
                 reap, restarts>>

DispatchedLast(r) == task[r][NumItems] # "none"
Dispatched(r) == \E i \in Items : task[r][i] # "none"

\* After the last item: a run with nothing dispatched is set FAILED, again
\* without looking at its current status.
TriggerEnd(r) ==
  /\ pc[r] = "item" /\ next[r] = NumItems + 1
  /\ \/ /\ Dispatched(r)
        /\ UNCHANGED runStatus
     \/ /\ ~Dispatched(r)
        /\ RowsFree(r, {})
        /\ runStatus' = [runStatus EXCEPT ![r] = "FAILED"]
  /\ Go(r, "done")
  /\ UNCHANGED <<crStatus, steps, finishes, old, next, waiter, task, reports,
                 tx, reap, restarts>>

Trigger(r) ==
  \/ SkipItem(r) \/ CreateCase(r) \/ DispatchOk(r)
  \/ DispatchFail(r) \/ FailCase(r) \/ TriggerEnd(r)

-----------------------------------------------------------------------------
(* Debug: run and case row in one transaction, one task, wait for the answer. *)

DebugStart(r) ==
  /\ r \in DebugRuns /\ pc[r] = "idle"
  /\ RowsFree(r, {}) /\ QuotaAdmits
  /\ runStatus' = [runStatus EXCEPT ![r] = "RUNNING"]
  /\ crStatus' = [crStatus EXCEPT ![r][1] = "RUNNING"]
  /\ Go(r, "resolve")
  /\ UNCHANGED <<steps, finishes, old, next, waiter, task, reports, tx, reap,
                 restarts>>

\* resolveInlineFiles fails: the caller gets an error, the rows stay RUNNING.
DebugResolveFail(r) ==
  /\ DispatchMayFail
  /\ pc[r] = "resolve"
  /\ Go(r, "done")
  /\ UNCHANGED <<rows, next, waiter, task, reports, tx, reap, restarts>>

\* The waiter is registered before the task is sent.
DebugDispatchOk(r) ==
  /\ pc[r] = "resolve"
  /\ waiter' = [waiter EXCEPT ![r] = "registered"]
  /\ task' = [task EXCEPT ![r][1] = "sent"]
  /\ Go(r, "wait")
  /\ UNCHANGED <<rows, next, reports, tx, reap, restarts>>

DebugDispatchFail(r) ==
  /\ DispatchMayFail
  /\ pc[r] = "resolve"
  /\ Go(r, "errCase")
  /\ UNCHANGED <<rows, next, waiter, task, reports, tx, reap, restarts>>

DebugAnswered(r) ==
  /\ pc[r] = "wait" /\ waiter[r] = "delivered"
  /\ Go(r, "done")
  /\ UNCHANGED <<rows, next, waiter, task, reports, tx, reap, restarts>>

\* The timer fires; a handler that has already taken the waiter keeps it.
DebugTimeout(r) ==
  /\ pc[r] = "wait"
  /\ waiter' = [waiter EXCEPT ![r] = IF @ = "registered" THEN "none" ELSE @]
  /\ Go(r, "toCase")
  /\ UNCHANGED <<rows, next, task, reports, tx, reap, restarts>>

\* The two updates after a failed dispatch or a timeout look at no status.
DebugFailCase(r) ==
  /\ RowsFree(r, {1})
  /\ \/ pc[r] = "errCase" /\ Go(r, "errRun")
     \/ pc[r] = "toCase"  /\ Go(r, "toRun")
  /\ crStatus' = [crStatus EXCEPT ![r][1] = "FAILED"]
  /\ UNCHANGED <<runStatus, steps, finishes, old, next, waiter, task, reports,
                 tx, reap, restarts>>

DebugFailRun(r) ==
  /\ RowsFree(r, {})
  /\ \/ /\ pc[r] = "errRun"
        /\ runStatus' = [runStatus EXCEPT ![r] = "FAILED"]
     \/ /\ pc[r] = "toRun"
        /\ runStatus' = [runStatus EXCEPT ![r] = "ABORTED"]
  /\ Go(r, "done")
  /\ UNCHANGED <<crStatus, steps, finishes, old, next, waiter, task, reports,
                 tx, reap, restarts>>

Debug(r) ==
  \/ DebugResolveFail(r) \/ DebugDispatchOk(r) \/ DebugDispatchFail(r)
  \/ DebugAnswered(r) \/ DebugTimeout(r) \/ DebugFailCase(r) \/ DebugFailRun(r)

-----------------------------------------------------------------------------
(* The workers: a task is answered once, or never.                          *)

WorkerReport(r, i, v) ==
  /\ task[r][i] = "sent"
  /\ task' = [task EXCEPT ![r][i] = "done"]
  /\ reports' = reports \cup {[run |-> r, item |-> i, verdict |-> v]}
  /\ UNCHANGED <<rows, procs, tx, reap, restarts>>

LoseTask(r, i) ==
  /\ task[r][i] = "sent"
  /\ task' = [task EXCEPT ![r][i] = "done"]
  /\ UNCHANGED <<rows, procs, reports, tx, reap, restarts>>

-----------------------------------------------------------------------------
(* HandleTaskResult: one transaction per report, of three steps.            *)

AcceptsUnguarded(m) == m.verdict # "EMPTY"

\* UPDATE test_case_results ... WHERE id = ? AND status = RUNNING hits the row.
Accepts(m) == m.verdict # "EMPTY" /\ crStatus[m.run][m.item] = "RUNNING"

\* TakeWaiter, BEGIN, and the case UPDATE guarded by status = RUNNING.
ReportBegin(m) ==
  /\ m \in reports
  /\ RowsFree(m.run, {m.item})
  /\ reports' = reports \ {m}
  /\ tx' = tx \cup
       {[run |-> m.run, item |-> m.item, verdict |-> m.verdict,
         accepted |-> Accepts(m), finish |-> "uncounted"]}
  /\ waiter' = [waiter EXCEPT ![m.run] = IF @ = "registered" THEN "taken" ELSE @]
  /\ UNCHANGED <<rows, pc, next, task, reap, restarts>>

\* What the transaction sees: committed rows and its own update.
Seen(t, i) ==
  IF t.accepted /\ i = t.item THEN t.verdict ELSE crStatus[t.run][i]

ConclusionDoneOnly(t) ==
  LET existing == {i \in Items : Seen(t, i) # "NONE"} IN
  IF existing = {} \/ \E i \in existing : Seen(t, i) = "RUNNING" THEN "no"
  ELSE "PASSED"

ConclusionOutsideTx(t) ==
  LET existing == {i \in Items : crStatus[t.run][i] # "NONE"} IN
  IF existing = {} \/ \E i \in existing : crStatus[t.run][i] = "RUNNING" THEN "no"
  ELSE IF \E i \in existing : crStatus[t.run][i] = "FAILED" THEN "FAILED" ELSE "PASSED"

ConclusionAtOnce(t) ==
  IF t.verdict = "FAILED" THEN "FAILED" ELSE "PASSED"

\* maybeFinishRun's counts.
Conclusion(t) ==
  LET existing == {i \in Items : Seen(t, i) # "NONE"} IN
  IF existing = {} \/ \E i \in existing : Seen(t, i) = "RUNNING" THEN "no"
  ELSE IF \E i \in existing : Seen(t, i) = "FAILED" THEN "FAILED" ELSE "PASSED"

ReportCount(t) ==
  /\ t \in tx /\ t.finish = "uncounted"
  /\ tx' = (tx \ {t}) \cup {[t EXCEPT !.finish = Conclusion(t)]}
  /\ UNCHANGED <<rows, procs, task, reports, reap, restarts>>

\* The deferred send of the result to the debug caller.
Answer(r) ==
  waiter' = [waiter EXCEPT ![r] = IF @ = "taken" THEN "delivered" ELSE @]

\* UPDATE test_runs ... WHERE id = ? AND status = RUNNING hits the row.
Ends(t) == t.finish # "no" /\ runStatus[t.run] = "RUNNING"

\* The run UPDATE guarded by status = RUNNING, COMMIT, notification.
ReportCommit(t) ==
  LET r == t.run IN
  /\ t \in tx /\ t.finish # "uncounted"
  /\ tx' = tx \ {t}
  /\ crStatus' = [crStatus EXCEPT ![r][t.item] = Seen(t, t.item)]
  /\ steps' = [steps EXCEPT ![r][t.item] = IF t.accepted THEN @ + 1 ELSE @]
  /\ runStatus' = [runStatus EXCEPT ![r] = IF Ends(t) THEN t.finish ELSE @]
  /\ finishes' = [finishes EXCEPT ![r] = IF Ends(t) THEN @ + 1 ELSE @]
  /\ Answer(r)
  /\ UNCHANGED <<old, pc, next, task, reports, reap, restarts>>

\* Any error rolls the transaction back; the stream handler only logs it.
ReportRollback(t) ==
  /\ t \in tx
  /\ tx' = tx \ {t}
  /\ Answer(t.run)
  /\ UNCHANGED <<rows, pc, next, task, reports, reap, restarts>>

HandleTaskResult ==
  \/ \E m \in reports : ReportBegin(m)
  \/ \E t \in tx : ReportCount(t) \/ ReportCommit(t) \/ ReportRollback(t)

-----------------------------------------------------------------------------
(* cancelRun, the run reaper, and a scheduler crash.                        *)

Cancel(r) ==
  /\ runStatus[r] = "RUNNING"
  /\ RowsFree(r, Items)
  /\ crStatus' = [crStatus EXCEPT ![r] = CloseCases(r, "SKIPPED")]
  /\ runStatus' = [runStatus EXCEPT ![r] = "ABORTED"]
  /\ UNCHANGED <<steps, finishes, old, procs, task, reports, tx, reap, restarts>>

\* Two hours (StaleRunAge) pass; no Trigger or Debug call takes that long.
Age(r) ==
  /\ runStatus[r] = "RUNNING" /\ ~old[r] /\ pc[r] = "done"
  /\ old' = [old EXCEPT ![r] = TRUE]
  /\ UNCHANGED <<runStatus, crStatus, steps, finishes, procs, task, reports, tx,
                 reap, restarts>>

ReapScan ==
  /\ reapTodo = {} /\ reapCur = NoRun
  /\ reapTodo' = {r \in RunningRuns : old[r]}
  /\ UNCHANGED <<rows, procs, task, reports, tx, reapCur, restarts>>

ReapCases(r) ==
  /\ r \in reapTodo /\ reapCur = NoRun
  /\ RowsFree(r, Items)
  /\ crStatus' = [crStatus EXCEPT ![r] = CloseCases(r, "FAILED")]
  /\ reapCur' = r /\ reapTodo' = reapTodo \ {r}
  /\ UNCHANGED <<runStatus, steps, finishes, old, procs, task, reports, tx,
                 restarts>>

ReapRunForgotten(r) ==
  /\ reapCur = r
  /\ reapCur' = NoRun
  /\ UNCHANGED <<rows, procs, task, reports, tx, reapTodo, restarts>>

ReapRun(r) ==
  /\ reapCur = r
  /\ RowsFree(r, {})
  /\ runStatus' = [runStatus EXCEPT ![r] = IF @ = "RUNNING" THEN "FAILED" ELSE @]
  /\ reapCur' = NoRun
  /\ UNCHANGED <<crStatus, steps, finishes, old, procs, task, reports, tx,
                 reapTodo, restarts>>

\* The process dies and starts again: open transactions roll back, goroutines
\* and in-memory waiters are gone, the workers drop the tasks of the lost
\* stream, and RecoverInterruptedRuns runs before anything else.
Restart ==
  /\ restarts < MaxRestarts
  /\ restarts' = restarts + 1
  /\ runStatus' = [r \in Runs |->
       IF runStatus[r] = "RUNNING" THEN "FAILED" ELSE runStatus[r]]
  /\ crStatus' = [r \in Runs |-> CloseCases(r, "FAILED")]
  /\ pc' = [r \in Runs |-> IF pc[r] = "idle" THEN "idle" ELSE "done"]
  /\ waiter' = [r \in Runs |-> "none"]
  /\ task' = [r \in Runs |-> [i \in Items |->
       IF task[r][i] = "sent" THEN "done" ELSE task[r][i]]]
  /\ reports' = {} /\ tx' = {} /\ reapTodo' = {} /\ reapCur' = NoRun
  /\ UNCHANGED <<steps, finishes, old, next>>

ReapStaleRuns == ReapScan \/ \E r \in Runs : ReapCases(r) \/ ReapRun(r)

Next ==
  \/ \E r \in PlanRuns : TriggerStart(r) \/ Trigger(r)
  \/ \E r \in DebugRuns : DebugStart(r) \/ Debug(r)
  \/ \E r \in Runs, i \in Items :
       LoseTask(r, i) \/ \E v \in Verdicts : WorkerReport(r, i, v)
  \/ HandleTaskResult
  \/ \E r \in Runs : Cancel(r) \/ Age(r)
  \/ ReapStaleRuns
  \/ Restart

Spec == Init /\ [][Next]_vars

\* Goroutines that have started are scheduled, an open transaction ends, time
\* passes and the reaper's ticker fires. A worker need not answer, and nobody
\* need start, cancel or restart anything.
Fairness ==
  /\ \A r \in Runs : WF_vars(Trigger(r)) /\ WF_vars(Debug(r)) /\ WF_vars(Age(r))
  /\ \A r \in Runs : WF_vars(ReapCases(r)) /\ WF_vars(ReapRun(r))
  /\ WF_vars(ReapScan)
  /\ WF_vars(\E t \in tx : ReportCount(t) \/ ReportCommit(t) \/ ReportRollback(t))

FairSpec == Spec /\ Fairness

-----------------------------------------------------------------------------
(* What the run lifecycle guarantees.                                       *)

\* A run is announced as finished (RunFinished, the run counters) at most
\* once, however reports, cancellation, the reaper and a restart interleave:
\* the guard of maybeFinishRun's last UPDATE.
NotifyAtMostOnce == \A r \in Runs : finishes[r] <= 1

\* concurrent_runs is never exceeded, whoever creates and ends runs: CheckTx
\* counts in the transaction that inserts the row.
QuotaRespected == Limit # 0 => Cardinality(RunningRuns) <= Limit

\* A late report of a case that cancelRun, the reaper, a timeout or a restart
\* has closed stores no steps, and nobody but the goroutine that dispatched the
\* case changes its status once it has ended (HandleTaskResult's acceptedCR and
\* the WHERE status = RUNNING of every other writer).
LateReportDiscarded ==
  [][\A r \in Runs, i \in Items : crStatus[r][i] \in CaseEnded =>
       /\ steps'[r][i] = steps[r][i]
       /\ pc' = pc => crStatus'[r][i] = crStatus[r][i]]_vars

\* The verdict a worker's report gave a case of a plan run is final: neither
\* dispatchCase's unguarded FAILED, cancelRun, the reaper nor a restart ever
\* replaces it.
ReportedVerdictFinal ==
  [][\A r \in PlanRuns, i \in Items :
       steps[r][i] > 0 => crStatus'[r][i] = crStatus[r][i]]_vars

\* The outcome a plan run was announced with is final, although Trigger's own
\* closing UPDATE does not look at the status it overwrites.
AnnouncedOutcomeFinal ==
  [][\A r \in PlanRuns : finishes[r] > 0 => runStatus'[r] = runStatus[r]]_vars

\* At the moment a run turns PASSED none of its case rows is open or FAILED
\* (on SQLite, where the counts and the UPDATE see one state).
PassedOnlyIfAllPassed ==
  [][\A r \in Runs : runStatus[r] # "PASSED" /\ runStatus'[r] = "PASSED" =>
       \A i \in Items : crStatus'[r][i] \notin {"RUNNING", "FAILED"}]_vars

\* Nobody is going to act on r any more but the reaper.
Settled(r) ==
  /\ pc[r] = "done" /\ reapCur # r
  /\ \A t \in tx \cup reports : t.run # r
  /\ \A i \in Items : crStatus[r][i] # "RUNNING" /\ task[r][i] # "sent"

\* When all cases of a run have ended, one of the handlers has ended the run
\* (the doc comment of maybeFinishRun), provided that every case that got a row
\* was sent: a case that fails to be dispatched after the others were reported
\* leaves the run to the reaper.
LastReportEndsRun ==
  \A r \in Runs :
    Settled(r) /\ (\A i \in Items : task[r][i] = "none" => crStatus[r][i] = "NONE")
      => runStatus[r] # "RUNNING"

\* A run that has started does not stay RUNNING for ever, whatever is lost.
EveryRunEnds ==
  \A r \in Runs : runStatus[r] = "RUNNING" ~> runStatus[r] \in RunEnded

-----------------------------------------------------------------------------
(* The contract.                                                            *)

Phase(status) ==
  IF status = "NONE" THEN "none" ELSE IF status = "RUNNING" THEN "open" ELSE "closed"

Contract == INSTANCE RunContract WITH
  phase <- [r \in Runs |-> Phase(runStatus[r])],
  case <- [r \in Runs |-> [i \in Items |-> Phase(crStatus[r][i])]],
  announced <- finishes,
  excused <- {}

\* On SQLite, every step of every goroutine is a step of the contract or
\* changes nothing it speaks of: no writer reopens a run or a case, a run is
\* created once, and whoever announces it leaves no case open behind.
\* (On PostgreSQL Trigger may create a case between a handler's counts and its
\* COMMIT.)
ImplementsContract == Contract!Spec

-----------------------------------------------------------------------------
(* The inductive invariant behind these properties (RunLifecycleProofs).    *)

Looping == {"item", "dispatch", "fail"}

LoopBound == \A r \in Runs : pc[r] \in {"dispatch", "fail"} => next[r] <= NumItems

\* A run whose goroutine has not started has no row and no task.
IdleIsFresh ==
  \A r \in Runs : pc[r] = "idle" =>
    runStatus[r] = "NONE" /\ \A i \in Items : task[r][i] = "none"

PlanPc == \A r \in PlanRuns : pc[r] \in Looping \cup {"idle", "done"}

\* The items still ahead of a Trigger loop have not been sent.
AheadNotSent ==
  \A r \in PlanRuns : pc[r] \in Looping =>
    \A i \in Items : i >= next[r] => task[r][i] = "none"

\* Reports and their transactions come from tasks that were sent.
ReportsWereSent ==
  /\ \A m \in reports : task[m.run][m.item] # "none"
  /\ \A t \in tx : task[t.run][t.item] # "none"

\* An accepting transaction holds the lock of a row that is RUNNING.
AcceptedIsOpen ==
  /\ \A t \in tx : t.accepted =>
       t.verdict # "EMPTY" /\ crStatus[t.run][t.item] = "RUNNING"
  /\ \A t, u \in tx :
       t.accepted /\ u.accepted /\ t.run = u.run /\ t.item = u.item => t = u

StepsHaveVerdict ==
  \A r \in Runs, i \in Items : steps[r][i] > 0 =>
    crStatus[r][i] \in {"PASSED", "FAILED"} /\ task[r][i] # "none"

FinishedHasEnded ==
  \A r \in Runs :
    /\ finishes[r] <= 1
    /\ finishes[r] > 0 => runStatus[r] \in RunEnded /\ Dispatched(r)

\* The conjunction of the facts above: together they survive every step of
\* every goroutine, which none of them does alone.
IInv ==
  /\ TypeOK /\ LoopBound
  /\ IdleIsFresh /\ PlanPc /\ AheadNotSent /\ ReportsWereSent
  /\ AcceptedIsOpen /\ StepsHaveVerdict /\ FinishedHasEnded

(* What the proofs about the serial database need besides                   *)
(* (RunLifecycleProofs).                                                    *)

\* A run has a row as soon as its goroutine has started.
StartedHasRow == \A r \in Runs : pc[r] # "idle" => runStatus[r] # "NONE"

\* No case row exists before its goroutine has come to it, and the one in hand
\* does.
NoRowAhead ==
  /\ \A r \in Runs, i \in Items : pc[r] = "idle" => crStatus[r][i] = "NONE"
  /\ \A r \in PlanRuns, i \in Items :
       /\ pc[r] = "item" /\ i >= next[r] => crStatus[r][i] = "NONE"
       /\ pc[r] \in {"dispatch", "fail"} /\ i > next[r] => crStatus[r][i] = "NONE"
       /\ pc[r] \in {"dispatch", "fail"} /\ i = next[r] => crStatus[r][i] # "NONE"
  /\ \A r \in DebugRuns : pc[r] # "idle" => crStatus[r][1] # "NONE"

\* On SQLite one transaction is open at a time, and what it has concluded from
\* its counts stays true until it commits.
ConclusionHolds ==
  SerialTx =>
    /\ \A t, u \in tx : t = u
    /\ \A t \in tx, i \in Items :
         /\ t.finish \in {"PASSED", "FAILED"} => Seen(t, i) # "RUNNING"
         /\ t.finish = "PASSED" => Seen(t, i) # "FAILED"

\* The invariant under which every step implements the contract.
CInv == StartedHasRow /\ NoRowAhead /\ ConclusionHolds

-----------------------------------------------------------------------------
(* What comments of the code promise and the code does not keep.            *)

\* maybeFinishRun: "when all cases of the run have ended, sum up and finish".
\* Trigger creates case rows one by one, so "all" are those created so far.
PassedRunHasNoFailedCase ==
  \A r \in PlanRuns : runStatus[r] = "PASSED" =>
    \A i \in Items : crStatus[r][i] # "FAILED"

\* cancelRun: "RUNNING -> ABORTED, pending cases -> SKIPPED". Trigger's loop
\* goes on creating and dispatching cases of the ABORTED run.
AbortedRunHasNoOpenCase ==
  \A r \in PlanRuns : runStatus[r] = "ABORTED" =>
    \A i \in Items : crStatus[r][i] # "RUNNING"

\* maybeFinishRun: "only a RUNNING run can be ended; ... a late result does
\* not overwrite an ABORTED or FAILED run". Trigger's and Debug's own closing
\* UPDATEs have no such guard.
OnlyRunningRunsEnd ==
  [][\A r \in Runs : runStatus'[r] # runStatus[r] =>
       runStatus[r] \in {"NONE", "RUNNING"}]_vars

=============================================================================
