----------------------------- MODULE StressRuns -----------------------------
(***************************************************************************)
(* Stress runs: runner.TriggerStress reserves idle workers exclusively     *)
(* (compare-and-swap on Worker.stress) and sends each a part of the load;  *)
(* dispatch.handleStressResult counts the answers down (stressState) and   *)
(* the one that reaches zero closes the run; runner.ReapStaleRuns closes   *)
(* runs nobody closed and drops their counter.                             *)
(* A connection is one *Worker object of the dispatcher; a worker that     *)
(* reconnects under its id gets another. A task can outlive the session it *)
(* was sent in (client.py clears _dead when it reconnects): its answer     *)
(* then arrives on the worker's next connection, whose reservation it ends.*)
(***************************************************************************)
EXTENDS Integers, FiniteSets, FiniteSetsExt

CONSTANTS
  Runs,        (* ids of the stress runs                                      *)
  Conns,       (* connections of workers with the stress capability           *)
  WorkerId,    (* the id under which a connection registers                   *)
  Online,      (* the connections there are at the start                      *)
  WorkerCount, (* StressTestPlan.worker_count: how many workers a run wants   *)
  DbMayFail,   (* can the UPDATE that closes a run fail?                      *)
  Ageing,      (* bound: the runs that can grow older than StaleRunAge        *)
  MaxRestarts, (* bound on scheduler crashes                                  *)
  NoConn       (* "no worker", for a trigger that is not sending              *)

ASSUME StressRunsAssumption ==
  /\ IsFiniteSet(Runs) /\ IsFiniteSet(Conns)
  /\ NoConn \notin Conns /\ DOMAIN WorkerId = Conns
  /\ Online \subseteq Conns /\ Ageing \subseteq Runs
  /\ WorkerCount \in Nat \ {0}
  /\ DbMayFail \in BOOLEAN
  /\ MaxRestarts \in Nat

VARIABLES
  status, finishes, old,   (* StressRun rows; announcements; past StaleRunAge *)
  tracked, remaining, failed, (* Dispatcher.stressRuns entry of a run         *)
  pc, want, sent, cand, cur,  (* the goroutine in TriggerStress               *)
  stress, until, link,        (* Worker.stress, .stressUntil, .closed         *)
  job,                        (* what became of the task sent on a connection *)
  results, handlers,          (* TaskResults on their way / being handled     *)
  reapPc,                     (* ReapStaleRuns' position for each run         *)
  restarts,
  refused, strayed            (* history, read by properties only             *)

\* refused: how many candidates of a run did not take its task; strayed: the
\* connections whose reservation was ended by the answer of an earlier session.
history == <<refused, strayed>>
rows    == <<status, finishes, old>>
entry   == <<tracked, remaining, failed>>
trigger == <<pc, want, sent, cand, cur>>
conns   == <<stress, until, link>>
vars    == <<rows, entry, trigger, conns, job, results, handlers, reapPc, restarts,
             history>>

\* An answer: of the task sent on conn, received on via.
Result  == [run : Runs, conn : Conns, via : Conns]
Handler == [run : Runs, conn : Conns, via : Conns,
            at : {"until", "failed", "count", "finish"}]
Jobs    == {"none", "sent", "stale", "passed", "failed", "lost"}

\* The type of every variable; in particular no trigger sends to more workers
\* than the run wants.
TypeOK ==
  /\ status \in [Runs -> {"NONE", "RUNNING", "PASSED", "FAILED"}]
  /\ finishes \in [Runs -> Nat] /\ old \in [Runs -> BOOLEAN]
  /\ tracked \in [Runs -> BOOLEAN] /\ remaining \in [Runs -> Int]
  /\ failed \in [Runs -> BOOLEAN]
  /\ pc \in [Runs -> {"idle", "loop", "send", "adjust", "done"}]
  /\ want \in [Runs -> 0..WorkerCount] /\ sent \in [Runs -> 0..WorkerCount]
  /\ cand \in [Runs -> SUBSET Conns] /\ cur \in [Runs -> Conns \cup {NoConn}]
  /\ stress \in [Conns -> BOOLEAN] /\ until \in [Conns -> {"zero", "future", "past"}]
  /\ link \in [Conns -> {"new", "open", "closed"}]
  /\ job \in [Runs -> [Conns -> Jobs]]
  /\ results \subseteq Result /\ handlers \subseteq Handler
  /\ reapPc \in [Runs -> {"no", "row", "drop"}]
  /\ restarts \in 0..MaxRestarts
  /\ refused \in [Runs -> Nat] /\ strayed \subseteq Conns

Init ==
  /\ status = [r \in Runs |-> "NONE"] /\ finishes = [r \in Runs |-> 0]
  /\ old = [r \in Runs |-> FALSE]
  /\ tracked = [r \in Runs |-> FALSE] /\ remaining = [r \in Runs |-> 0]
  /\ failed = [r \in Runs |-> FALSE]
  /\ pc = [r \in Runs |-> "idle"] /\ want = [r \in Runs |-> 0]
  /\ sent = [r \in Runs |-> 0] /\ cand = [r \in Runs |-> {}]
  /\ cur = [r \in Runs |-> NoConn]
  /\ stress = [w \in Conns |-> FALSE] /\ until = [w \in Conns |-> "zero"]
  /\ link = [w \in Conns |-> IF w \in Online THEN "open" ELSE "new"]
  /\ job = [r \in Runs |-> [w \in Conns |-> "none"]]
  /\ results = {} /\ handlers = {}
  /\ reapPc = [r \in Runs |-> "no"]
  /\ restarts = 0
  /\ refused = [r \in Runs |-> 0] /\ strayed = {}

-----------------------------------------------------------------------------
(* TriggerStress.                                                           *)

\* The reservation holds: it was made and its deadline has not passed.
StressActive(w) == stress[w] /\ until[w] # "past"

Open(w) == link[w] = "open"

\* StressWorkers: the connected workers that are not reserved.
StressWorkers == {w \in Conns : Open(w) /\ ~StressActive(w)}

\* The candidates are read, the row is created, the counter is set up.
Start(r) ==
  LET n == Min({WorkerCount, Cardinality(StressWorkers)}) IN
  /\ pc[r] = "idle" /\ n > 0
  /\ status' = [status EXCEPT ![r] = "RUNNING"]
  /\ cand' = [cand EXCEPT ![r] = StressWorkers]
  /\ want' = [want EXCEPT ![r] = n]
  /\ tracked' = [tracked EXCEPT ![r] = TRUE]
  /\ remaining' = [remaining EXCEPT ![r] = n]
  /\ pc' = [pc EXCEPT ![r] = "loop"]
  /\ UNCHANGED <<finishes, old, failed, sent, cur, conns, job, results, handlers,
                 reapPc, restarts, history>>

\* The next candidate, in the order of a Go map: any.
Candidate(r, w) == pc[r] = "loop" /\ sent[r] < want[r] /\ w \in cand[r]

Take(r, w, to) ==
  /\ cand' = [cand EXCEPT ![r] = @ \ {w}]
  /\ cur' = [cur EXCEPT ![r] = w]
  /\ pc' = [pc EXCEPT ![r] = to]

\* DispatchStress: closed, or the compare-and-swap fails (ErrWorkerBusy).
Refused(r, w) ==
  /\ Candidate(r, w) /\ (~Open(w) \/ stress[w])
  /\ Take(r, w, "adjust")
  /\ refused' = [refused EXCEPT ![r] = @ + 1]
  /\ UNCHANGED <<rows, entry, want, sent, conns, job, results, handlers, reapPc, restarts,
                 strayed>>

ReserveUnconditionally(r, w) ==
  /\ Candidate(r, w) /\ Open(w)
  /\ stress' = [stress EXCEPT ![w] = TRUE]
  /\ until' = [until EXCEPT ![w] = "future"]
  /\ Take(r, w, "send")
  /\ UNCHANGED <<rows, entry, want, sent, link, job, results, handlers, reapPc,
                 restarts, history>>

Reserve(r, w) ==
  /\ Candidate(r, w) /\ Open(w) /\ ~stress[w]
  /\ stress' = [stress EXCEPT ![w] = TRUE]
  /\ until' = [until EXCEPT ![w] = "future"]
  /\ Take(r, w, "send")
  /\ UNCHANGED <<rows, entry, want, sent, link, job, results, handlers, reapPc,
                 restarts, history>>

\* The channel accepts the task. On a connection that is closing the pump may
\* still forward it, to a worker whose session ends.
SendOk(r) ==
  /\ pc[r] = "send"
  /\ job' = [job EXCEPT ![r][cur[r]] = IF Open(cur[r]) THEN "sent" ELSE "stale"]
  /\ sent' = [sent EXCEPT ![r] = @ + 1]
  /\ pc' = [pc EXCEPT ![r] = "loop"] /\ cur' = [cur EXCEPT ![r] = NoConn]
  /\ UNCHANGED <<rows, entry, want, cand, conns, results, handlers, reapPc, restarts,
                 history>>

SendFailKeepsReservation(r) ==
  /\ pc[r] = "send"
  /\ pc' = [pc EXCEPT ![r] = "adjust"]
  /\ refused' = [refused EXCEPT ![r] = @ + 1]
  /\ UNCHANGED <<rows, entry, want, sent, cand, cur, conns, job, results, handlers,
                 reapPc, restarts, strayed>>

\* Disconnected, or the channel stayed full for five seconds: EndStress.
SendFail(r) ==
  /\ pc[r] = "send"
  /\ stress' = [stress EXCEPT ![cur[r]] = FALSE]
  /\ until' = [until EXCEPT ![cur[r]] = "zero"]
  /\ pc' = [pc EXCEPT ![r] = "adjust"]
  /\ refused' = [refused EXCEPT ![r] = @ + 1]
  /\ UNCHANGED <<rows, entry, want, sent, cand, cur, link, job, results, handlers,
                 reapPc, restarts, strayed>>

AdjustForgotten(r) ==
  /\ pc[r] = "adjust"
  /\ pc' = [pc EXCEPT ![r] = "loop"] /\ cur' = [cur EXCEPT ![r] = NoConn]
  /\ UNCHANGED <<rows, entry, want, sent, cand, conns, job, results, handlers, reapPc,
                 restarts, history>>

\* AdjustStressRun(run, -1).
Adjust(r) ==
  /\ pc[r] = "adjust"
  /\ remaining' = [remaining EXCEPT ![r] = IF tracked[r] THEN @ - 1 ELSE @]
  /\ pc' = [pc EXCEPT ![r] = "loop"] /\ cur' = [cur EXCEPT ![r] = NoConn]
  /\ UNCHANGED <<rows, tracked, failed, want, sent, cand, conns, job, results,
                 handlers, reapPc, restarts, history>>

\* Enough workers or no more candidates; with nothing sent the run is given up.
LoopEnd(r) ==
  /\ pc[r] = "loop" /\ (sent[r] = want[r] \/ cand[r] = {})
  /\ pc' = [pc EXCEPT ![r] = "done"]
  /\ IF sent[r] = 0
     THEN /\ tracked' = [tracked EXCEPT ![r] = FALSE]
          /\ status' = [status EXCEPT ![r] = "FAILED"]
     ELSE UNCHANGED <<tracked, status>>
  /\ UNCHANGED <<finishes, old, remaining, failed, want, sent, cand, cur, conns, job,
                 results, handlers, reapPc, restarts, history>>

TriggerStress(r) ==
  \/ \E w \in Conns : Refused(r, w) \/ Reserve(r, w)
  \/ SendOk(r) \/ SendFail(r) \/ Adjust(r) \/ LoopEnd(r)

-----------------------------------------------------------------------------
(* The workers and their connections.                                       *)

\* The workers connected under the id of w.
SameWorker(w) == {v \in Conns : WorkerId[v] = WorkerId[w]}

\* What becomes of the tasks sent on the connections S when these close.
Outlived(S) ==
  [r \in Runs |-> [w \in Conns |->
     IF w \in S /\ job[r][w] = "sent" THEN "stale" ELSE job[r][w]]]

Answer(r, w, v, via) ==
  /\ job' = [job EXCEPT ![r][w] = v]
  /\ results' = results \cup {[run |-> r, conn |-> w, via |-> via]}
  /\ UNCHANGED <<rows, entry, trigger, conns, handlers, reapPc, restarts, history>>

Report(r, w, v) == job[r][w] = "sent" /\ Answer(r, w, v, w)

\* A task that was not cancelled when its session ended, or whose cancellation
\* took until the worker was connected again: _dead is false again.
LateReport(r, w, v, via) ==
  /\ job[r][w] = "stale" /\ Open(via) /\ via \in SameWorker(w)
  /\ Answer(r, w, v, via)

\* The worker never answers (its result was dropped, or its process is gone).
Lose(r, w) ==
  /\ job[r][w] \in {"sent", "stale"}
  /\ job' = [job EXCEPT ![r][w] = "lost"]
  /\ UNCHANGED <<rows, entry, trigger, conns, results, handlers, reapPc, restarts,
                 history>>

\* Register: a connection that is still open under the id is shut down.
Connect(w) ==
  /\ link[w] = "new"
  /\ link' = [v \in Conns |->
       IF v = w THEN "open" ELSE IF v \in SameWorker(w) /\ Open(v) THEN "closed" ELSE link[v]]
  /\ job' = Outlived(SameWorker(w) \ {w})
  /\ UNCHANGED <<rows, entry, trigger, stress, until, results, handlers, reapPc, restarts,
                 history>>

Disconnect(w) ==
  /\ Open(w)
  /\ link' = [link EXCEPT ![w] = "closed"]
  /\ job' = Outlived({w})
  /\ UNCHANGED <<rows, entry, trigger, stress, until, results, handlers, reapPc, restarts,
                 history>>

\* Results received but not yet handled are lost with the connection.
DropResult(m) ==
  /\ m \in results /\ ~Open(m.via)
  /\ results' = results \ {m}
  /\ job' = [job EXCEPT ![m.run][m.conn] = "lost"]
  /\ UNCHANGED <<rows, entry, trigger, conns, handlers, reapPc, restarts, history>>

\* The deadline of a reservation (task timeout + 5 minutes) passes; no trigger
\* is that slow.
Expire(w) ==
  /\ stress[w] /\ until[w] = "future"
  /\ \A r \in Runs : pc[r] \in {"idle", "done"}
  /\ until' = [until EXCEPT ![w] = "past"]
  /\ UNCHANGED <<rows, entry, trigger, stress, link, job, results, handlers, reapPc,
                 restarts, history>>

-----------------------------------------------------------------------------
(* HandleTaskResult for a stress run, in the connection's goroutine.        *)

At(h, p) == (handlers \ {h}) \cup {[h EXCEPT !.at = p]}

\* EndStress of the connection that reports, first store.
HandleBegin(m) ==
  /\ m \in results /\ \A h \in handlers : h.via # m.via
  /\ results' = results \ {m}
  /\ handlers' = handlers \cup
       {[run |-> m.run, conn |-> m.conn, via |-> m.via, at |-> "until"]}
  /\ stress' = [stress EXCEPT ![m.via] = FALSE]
  /\ strayed' = IF m.via # m.conn /\ stress[m.via] THEN strayed \cup {m.via} ELSE strayed
  /\ UNCHANGED <<rows, entry, trigger, until, link, job, reapPc, restarts, refused>>

\* EndStress, second store; an untracked run is ignored.
HandleUntil(h) ==
  /\ h.at = "until"
  /\ until' = [until EXCEPT ![h.via] = "zero"]
  /\ handlers' = IF tracked[h.run] THEN At(h, "failed") ELSE handlers \ {h}
  /\ UNCHANGED <<rows, entry, trigger, stress, link, job, results, reapPc, restarts,
                 history>>

HandleFailedForgotten(h) ==
  /\ h.at = "failed" /\ handlers' = At(h, "count")
  /\ UNCHANGED <<rows, entry, trigger, conns, job, results, reapPc, restarts, history>>

HandleFailed(h) ==
  /\ h.at = "failed"
  /\ failed' = [failed EXCEPT ![h.run] = @ \/ job[h.run][h.conn] = "failed"]
  /\ handlers' = At(h, "count")
  /\ UNCHANGED <<rows, tracked, remaining, trigger, conns, job, results, reapPc,
                 restarts, history>>

CountsDownToOne(n) == n <= 1
CountsDownToZero(n) == n <= 0

HandleCount(h) ==
  /\ h.at = "count"
  /\ remaining' = [remaining EXCEPT ![h.run] = @ - 1]
  /\ handlers' = IF CountsDownToZero(remaining[h.run] - 1) THEN At(h, "finish")
                 ELSE handlers \ {h}
  /\ UNCHANGED <<rows, tracked, failed, trigger, conns, job, results, reapPc,
                 restarts, history>>

FinishesAny(r) == TRUE
\* UPDATE stress_runs ... WHERE id = ? AND status = RUNNING hits the row.
Finishes(r) == status[r] = "RUNNING"

HandleFinish(h) ==
  LET r == h.run IN
  /\ h.at = "finish"
  /\ handlers' = handlers \ {h}
  /\ status' = [status EXCEPT ![r] =
       IF ~Finishes(r) THEN @ ELSE IF failed[r] THEN "FAILED" ELSE "PASSED"]
  /\ finishes' = [finishes EXCEPT ![r] = IF Finishes(r) THEN @ + 1 ELSE @]
  /\ tracked' = [tracked EXCEPT ![r] = FALSE]
  /\ UNCHANGED <<old, remaining, failed, trigger, conns, job, results, reapPc,
                 restarts, history>>

\* The UPDATE fails: the entry is kept for a later report.
HandleDbError(h) ==
  /\ DbMayFail /\ h.at = "finish"
  /\ handlers' = handlers \ {h}
  /\ UNCHANGED <<rows, entry, trigger, conns, job, results, reapPc, restarts, history>>

Handle(h) ==
  \/ HandleUntil(h) \/ HandleFailed(h) \/ HandleCount(h)
  \/ HandleFinish(h) \/ HandleDbError(h)

-----------------------------------------------------------------------------
(* The reaper of stale runs and a scheduler crash.                          *)

Age(r) ==
  /\ r \in Ageing /\ status[r] = "RUNNING" /\ ~old[r] /\ pc[r] = "done"
  /\ old' = [old EXCEPT ![r] = TRUE]
  /\ UNCHANGED <<status, finishes, entry, trigger, conns, job, results, handlers,
                 reapPc, restarts, history>>

ReapScan ==
  /\ \A r \in Runs : reapPc[r] = "no"
  /\ reapPc' = [r \in Runs |-> IF status[r] = "RUNNING" /\ old[r] THEN "row" ELSE "no"]
  /\ UNCHANGED <<rows, entry, trigger, conns, job, results, handlers, restarts,
                 history>>

ReapRowForgotten(r) ==
  /\ reapPc[r] = "row"
  /\ reapPc' = [reapPc EXCEPT ![r] = "drop"]
  /\ UNCHANGED <<rows, entry, trigger, conns, job, results, handlers, restarts,
                 history>>

ReapRow(r) ==
  /\ reapPc[r] = "row"
  /\ status' = [status EXCEPT ![r] = IF @ = "RUNNING" THEN "FAILED" ELSE @]
  /\ reapPc' = [reapPc EXCEPT ![r] = "drop"]
  /\ UNCHANGED <<finishes, old, entry, trigger, conns, job, results, handlers,
                 restarts, history>>

\* DropStressRun.
ReapDrop(r) ==
  /\ reapPc[r] = "drop"
  /\ tracked' = [tracked EXCEPT ![r] = FALSE]
  /\ reapPc' = [reapPc EXCEPT ![r] = "no"]
  /\ UNCHANGED <<rows, remaining, failed, trigger, conns, job, results, handlers,
                 restarts, history>>

\* RecoverInterruptedRuns; the workers connect again when they find the
\* scheduler back, with tasks that may still be at work.
Restart ==
  /\ restarts < MaxRestarts
  /\ restarts' = restarts + 1
  /\ status' = [r \in Runs |-> IF status[r] = "RUNNING" THEN "FAILED" ELSE status[r]]
  /\ tracked' = [r \in Runs |-> FALSE]
  /\ pc' = [r \in Runs |-> IF pc[r] = "idle" THEN "idle" ELSE "done"]
  /\ cur' = [r \in Runs |-> NoConn]
  /\ stress' = [w \in Conns |-> FALSE] /\ until' = [w \in Conns |-> "zero"]
  /\ link' = [w \in Conns |-> IF Open(w) THEN "closed" ELSE link[w]]
  /\ job' = Outlived(Conns)
  /\ results' = {} /\ handlers' = {} /\ reapPc' = [r \in Runs |-> "no"]
  /\ UNCHANGED <<finishes, old, remaining, failed, want, sent, cand, history>>

Next ==
  \/ \E r \in Runs : Start(r) \/ TriggerStress(r) \/ Age(r) \/ ReapRow(r) \/ ReapDrop(r)
  \/ \E r \in Runs, w \in Conns :
       \/ Lose(r, w)
       \/ \E v \in {"passed", "failed"} :
            Report(r, w, v) \/ \E via \in Conns : LateReport(r, w, v, via)
  \/ \E w \in Conns : Connect(w) \/ Disconnect(w) \/ Expire(w)
  \/ \E m \in results : DropResult(m) \/ HandleBegin(m)
  \/ \E h \in handlers : Handle(h)
  \/ ReapScan
  \/ Restart

Spec == Init /\ [][Next]_vars

\* Goroutines run, time passes, the reaper's ticker fires; workers may be silent.
Fairness ==
  /\ \A r \in Runs : /\ WF_vars(TriggerStress(r)) /\ WF_vars(Age(r))
                     /\ WF_vars(ReapRow(r)) /\ WF_vars(ReapDrop(r))
  /\ WF_vars(ReapScan)
  /\ \A w \in Conns : WF_vars(\E h \in handlers : h.via = w /\ Handle(h))

FairSpec == Spec /\ Fairness

-----------------------------------------------------------------------------
(* What the stress runs guarantee.                                          *)

\* A stress run that has ended keeps its outcome and is not announced again,
\* although any number of handlers may find the counter at or below zero, and
\* the reaper, a restart and TriggerStress close runs as well.
OutcomeFinal ==
  [][\A r \in Runs : status[r] \in {"PASSED", "FAILED"} =>
       status'[r] = status[r] /\ finishes'[r] = finishes[r]]_vars

\* Two stress runs never drive one connection at the same time (DispatchStress's
\* comment on the compare-and-swap), unless the answer of a task that outlived
\* its session has ended the connection's reservation under its holder.
ExclusiveWorker ==
  \A w \in Conns \ strayed : \A r, q \in Runs :
    job[r][w] = "sent" /\ job[q][w] = "sent" => r = q

\* A reserved connection always has a reason to be: a trigger that is sending on
\* it, a task its worker works on or has lost, or an answer not handled yet.
ReservationHasHolder ==
  \A w \in Conns : stress[w] /\ Open(w) =>
    \E r \in Runs : cur[r] = w \/ job[r][w] \in {"sent", "lost"}
                    \/ [run |-> r, conn |-> w, via |-> w] \in results

\* The tasks a run still owes an answer for: at work, outliving their session or
\* lost; the answers on their way; those being handled and not yet counted.
Owing(r)     == {w \in Conns : job[r][w] \in {"sent", "stale", "lost"}}
Pending(r)   == {m \in results : m.run = r}
Uncounted(r) == {h \in handlers : h.run = r /\ h.at # "finish"}
Owed(r) == Cardinality(Owing(r)) + Cardinality(Pending(r)) + Cardinality(Uncounted(r))

\* The counter of a tracked run is the number of answers it waits for, those of
\* tasks still to be sent among them, less one for every candidate that did not
\* take its task (RegisterStressRun, AdjustStressRun and handleStressResult
\* together): AdjustStressRun counts a candidate down although the loop goes on
\* to replace it.
CounterAgrees ==
  \A r \in Runs : tracked[r] =>
    remaining[r] = Owed(r) + (want[r] - sent[r]) - refused[r]
                   + IF pc[r] = "adjust" THEN 1 ELSE 0

\* The answers close a run when every task it sent has been answered and none is
\* still to be sent ("all have arrived, then sum up", handleStressResult), but
\* for one answer or sending for each candidate that did not take its task.
ClosedWhenAllAnswered ==
  [][\A r \in Runs : finishes'[r] # finishes[r] =>
       Owed(r) + (want[r] - sent[r]) <= refused[r]]_vars

\* A run that its answers close as PASSED has no more failed answers than
\* candidates that did not take their task, in particular none if all did:
\* failed is stored before the counter is decremented.
PassedHasNoFailure ==
  [][\A r \in Runs : status[r] # "PASSED" /\ status'[r] = "PASSED" =>
       Cardinality({w \in Conns : job[r][w] = "failed"}) <= refused[r]]_vars

\* A stress run does not stay RUNNING for ever.
EveryRunEnds == \A r \in Runs : status[r] = "RUNNING" ~> status[r] # "RUNNING"

-----------------------------------------------------------------------------
(* The contract of runs (RunContract), with the tasks as the cases.         *)

Phase(r) == IF status[r] = "NONE" THEN "none" ELSE IF status[r] = "RUNNING" THEN "open" ELSE "closed"

\* A task is open from when it is sent until its answer has been counted.
Unsettled(r, w) ==
  \/ job[r][w] \in {"sent", "stale", "lost"}
  \/ \E m \in results : m.run = r /\ m.conn = w
  \/ \E h \in handlers : h.run = r /\ h.conn = w /\ h.at # "finish"

TaskPhase(r, w) ==
  IF job[r][w] = "none" THEN "none" ELSE IF Unsettled(r, w) THEN "open" ELSE "closed"

Contract == INSTANCE RunContract WITH
  Items <- Conns,
  phase <- [r \in Runs |-> Phase(r)],
  case <- [r \in Runs |-> [w \in Conns |-> TaskPhase(r, w)]],
  announced <- finishes,
  excused <- {r \in Runs : refused[r] > 0}

\* Stress runs keep the contract of test runs: created once, closed once by
\* whoever comes first of the answers, the trigger, the reaper and a restart,
\* a task sent once and settled once, and the end announced at most once, with
\* no answer owed, under way or uncounted unless a candidate did not take its
\* task (that run is excused).
ImplementsContract == Contract!Spec

-----------------------------------------------------------------------------
(* What comments of the code promise and the code does not keep.            *)

\* AdjustStressRun: "decremented when a dispatch fails, so that remaining
\* agrees with the number sent". It does not where the loop sends to another
\* candidate instead: the run is then closed before all its answers are in.
RemainingIsWhatWasSent ==
  \A r \in Runs : tracked[r] /\ pc[r] = "done" => remaining[r] >= Owed(r)

\* When the decrement itself reaches zero, after the other answers came in,
\* nobody closes the run.
LastAnswerEndsRun ==
  \A r \in Runs :
    /\ pc[r] = "done" /\ reapPc[r] = "no"
    /\ Owing(r) = {} /\ \A m \in results \cup handlers : m.run # r
    => status[r] # "RUNNING"

\* Worker.stressUntil: "a stale reservation counts as reusable". StressWorkers
\* offers such a worker, but the compare-and-swap refuses it.
ExpiredIsReusable ==
  [][\A r \in Runs, w \in Conns :
       cur[r] # w /\ cur'[r] = w /\ pc'[r] = "adjust" /\ Open(w) => StressActive(w)]_vars

\* DispatchStress: without the compare-and-swap "one worker would be driven by
\* two stress runs at once". It is, through a task that outlives its session:
\* that task's answer ends the reservation of the new connection
\* (ExclusiveOnConnections), and until then two runs are at work at the worker.
ExclusiveOnConnections ==
  \A w \in Conns, r, q \in Runs : job[r][w] = "sent" /\ job[q][w] = "sent" => r = q

ExclusiveAtWorkers ==
  \A v, w \in Conns, r, q \in Runs :
    /\ WorkerId[v] = WorkerId[w]
    /\ job[r][v] \in {"sent", "stale"} /\ job[q][w] \in {"sent", "stale"}
    => r = q
=============================================================================
