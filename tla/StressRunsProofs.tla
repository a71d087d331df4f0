--------------------------- MODULE StressRunsProofs ---------------------------
(***************************************************************************)
(* For any runs, connections, workers and worker_count, through sessions   *)
(* that end with tasks at work and answers that come late: two stress runs *)
(* never drive one connection unless a late answer ended its reservation,  *)
(* every reservation has a reason to be, and a run that has ended keeps    *)
(* its outcome. The counter is the number of answers still owed, less the  *)
(* candidates that did not take their task; so a run none refused is       *)
(* closed by its answers when all are in, as PASSED only when none failed, *)
(* and stress runs implement the contract of test runs (RunContract).      *)
(***************************************************************************)
EXTENDS StressRuns, FiniteSetTheorems, TLAPS

\* The run r makes use of the worker w and w knows nothing of it yet or has
\* not been told that r is over: sending, at work, answered and not handled.
Holder(r, w) ==
  \/ pc[r] = "send" /\ cur[r] = w
  \/ job[r][w] = "sent"
  \/ [run |-> r, conn |-> w, via |-> w] \in results

\* Of a connection whose reservation no late answer has ended.
HoldersReserve == \A r \in Runs, w \in Conns \ strayed : Holder(r, w) => stress[w]

OneHolder ==
  \A r, q \in Runs, w \in Conns \ strayed : Holder(r, w) /\ Holder(q, w) => r = q

\* ReservationHasHolder, without the trigger that was refused a worker.
ReservationUsed ==
  \A w \in Conns : stress[w] /\ Open(w) =>
    \E r \in Runs : Holder(r, w) \/ job[r][w] = "lost"

\* Nobody has made use of a connection that is still to come.
NewIsFree ==
  \A w \in Conns : link[w] = "new" =>
    /\ ~stress[w]
    /\ \A r \in Runs : /\ job[r][w] = "none" /\ w \notin cand[r]
                       /\ pc[r] = "send" => cur[r] # w

\* A task that has outlived its session is answered on another connection.
StaleIsOver == \A r \in Runs, w \in Conns : job[r][w] = "stale" => ~Open(w)

\* A trigger tries each worker once, and sends to no more than it wants.
CandidatesFresh ==
  \A r \in Runs :
    /\ sent[r] <= want[r]
    /\ \A w \in cand[r] : job[r][w] = "none"
    /\ pc[r] = "send" =>
         cur[r] \in Conns \ cand[r] /\ job[r][cur[r]] = "none" /\ sent[r] < want[r]

\* An answer is on its way or being handled, and only once.
AnswersOfJobs ==
  /\ \A m \in results :
       /\ job[m.run][m.conn] \in {"passed", "failed"}
       /\ \A h \in handlers : ~(h.run = m.run /\ h.conn = m.conn)
       /\ \A n \in results : n.run = m.run /\ n.conn = m.conn => n = m
  /\ \A h \in handlers : job[h.run][h.conn] \in {"passed", "failed"}
  /\ \A h, k \in handlers : h.run = k.run /\ h.conn = k.conn => h = k

\* What has not started has left no trace.
NotStarted ==
  \A r \in Runs : pc[r] = "idle" =>
    /\ status[r] = "NONE" /\ ~tracked[r] /\ reapPc[r] = "no"
    /\ cand[r] = {} /\ \A w \in Conns : job[r][w] = "none"
    /\ sent[r] = 0 /\ refused[r] = 0

\* A run that was given up, with nothing sent, has no task that could answer.
SentCounted ==
  \A r \in Runs : (status[r] = "PASSED" \/ \E w \in Conns : job[r][w] # "none") => sent[r] > 0

\* Nobody stops counting for a run that is still open.
UntrackedIsOver ==
  \A r \in Runs :
    /\ pc[r] # "idle" /\ ~tracked[r] => status[r] # "RUNNING"
    /\ reapPc[r] = "drop" => status[r] # "RUNNING"

\* The handler that is to close a run found its counter at zero or below.
FinishMeansZero == \A h \in handlers : h.at = "finish" => remaining[h.run] <= 0

\* A failed answer is on its way to the flag of its run, or has got there.
FailureRemembered ==
  \A r \in Runs, w \in Conns : tracked[r] /\ job[r][w] = "failed" =>
    \/ failed[r]
    \/ \E m \in results : m.run = r /\ m.conn = w
    \/ \E h \in handlers : h.run = r /\ h.conn = w /\ h.at \in {"until", "failed"}

Protocol ==
  /\ TypeOK /\ HoldersReserve /\ OneHolder /\ ReservationUsed /\ NewIsFree /\ StaleIsOver
  /\ CandidatesFresh /\ AnswersOfJobs /\ NotStarted /\ SentCounted /\ UntrackedIsOver
  /\ FinishMeansZero /\ FailureRemembered
-----------------------------------------------------------------------------
(* What a trigger wants.                                                    *)

(* The smaller of two numbers (FiniteSetsExt chooses it from the set).      *)
LEMMA MinOfTwo ==
  ASSUME NEW a \in Int, NEW b \in Int
  PROVE  Min({a, b}) \in {a, b} /\ Min({a, b}) <= a /\ Min({a, b}) <= b
<1>1. \E x \in {a, b} : \A y \in {a, b} : x <= y OBVIOUS
<1>2. /\ Min({a, b}) \in {a, b}
      /\ \A y \in {a, b} : Min({a, b}) <= y
  BY <1>1, Zenon DEF Min
<1> QED BY <1>2

Wanted == Min({WorkerCount, Cardinality(StressWorkers)})

(* A run never wants more workers than worker_count.                        *)
LEMMA WantedBounds == Wanted \in 0 .. WorkerCount /\ Wanted \in Int
<1>1. /\ IsFiniteSet(StressWorkers)
      /\ Cardinality(StressWorkers) <= Cardinality(Conns)
  BY FS_Subset, StressRunsAssumption DEF StressWorkers
<1>2. Cardinality(StressWorkers) \in Nat /\ Cardinality(Conns) \in Nat
  BY <1>1, FS_CardinalityType, StressRunsAssumption
<1>3. /\ Wanted \in {WorkerCount, Cardinality(StressWorkers)}
      /\ Wanted <= WorkerCount /\ Wanted <= Cardinality(StressWorkers)
  <2>1. WorkerCount \in Int /\ Cardinality(StressWorkers) \in Int
    BY <1>2, StressRunsAssumption
  <2> QED BY <2>1, MinOfTwo DEF Wanted
<1> QED BY <1>1, <1>2, <1>3, StressRunsAssumption

-----------------------------------------------------------------------------
(* The types.                                                               *)

(* A handler moves on within its own code.                                  *)
LEMMA HandlerMoves ==
  ASSUME handlers \subseteq Handler, NEW h \in handlers,
         NEW p \in {"until", "failed", "count", "finish"}
  PROVE  /\ h = [run |-> h.run, conn |-> h.conn, via |-> h.via, at |-> h.at]
         /\ h.run \in Runs /\ h.conn \in Conns /\ h.via \in Conns
         /\ [h EXCEPT !.at = p] = [run |-> h.run, conn |-> h.conn, via |-> h.via, at |-> p]
         /\ At(h, p) \subseteq Handler
<1>1. h \in Handler OBVIOUS
<1>2. /\ h = [run |-> h.run, conn |-> h.conn, via |-> h.via, at |-> h.at]
      /\ h.run \in Runs /\ h.conn \in Conns /\ h.via \in Conns
      /\ [h EXCEPT !.at = p] = [run |-> h.run, conn |-> h.conn, via |-> h.via, at |-> p]
  BY <1>1 DEF Handler
<1>3. [run |-> h.run, conn |-> h.conn, via |-> h.via, at |-> p] \in Handler BY <1>2 DEF Handler
<1> QED BY <1>2, <1>3 DEF At

(* What becomes of one job is of the jobs' type.                            *)
LEMMA JobMoves ==
  ASSUME TypeOK, NEW r \in Runs, NEW w \in Conns, NEW v \in Jobs
  PROVE  [job EXCEPT ![r][w] = v] \in [Runs -> [Conns -> Jobs]]
BY DEF TypeOK

(* And when connections close, only tasks at work on them outlive these.    *)
LEMMA OutlivedJobs ==
  ASSUME TypeOK, NEW S
  PROVE  /\ Outlived(S) \in [Runs -> [Conns -> Jobs]]
         /\ \A r \in Runs, w \in Conns :
              \/ Outlived(S)[r][w] = job[r][w] /\ (w \in S => job[r][w] # "sent")
              \/ w \in S /\ job[r][w] = "sent" /\ Outlived(S)[r][w] = "stale"
BY DEF TypeOK, Outlived, Jobs

(* An answer is of a run and two connections.                               *)
LEMMA ResultParts ==
  ASSUME results \subseteq Result, NEW m \in results
  PROVE  /\ m.run \in Runs /\ m.conn \in Conns /\ m.via \in Conns
         /\ m = [run |-> m.run, conn |-> m.conn, via |-> m.via]
BY DEF Result

(* What an answering worker does, on time or late.                          *)
Answers(r, w, v, via) ==
  /\ \/ job[r][w] = "sent" /\ via = w
     \/ job[r][w] = "stale" /\ Open(via)
  /\ Answer(r, w, v, via)

(* The sessions that end, each with the tasks at work in it.                *)
Sessions ==
  \E w \in Conns : Connect(w) \/ Disconnect(w)

LEMMA SessionsOutlived ==
  ASSUME Sessions PROVE \E S \in SUBSET Conns : job' = Outlived(S)
BY DEF Sessions, Connect, Disconnect, SameWorker

LEMMA SessionsKeep ==
  ASSUME Sessions
  PROVE  UNCHANGED <<rows, entry, trigger, stress, until, results, handlers, reapPc, restarts,
                     history>>
BY DEF Sessions, Connect, Disconnect

(* When sessions end, or the scheduler, tasks at work at most outlive them. *)
LEMMA JobsOutlived ==
  ASSUME TypeOK, Sessions \/ Restart
  PROVE  /\ job' \in [Runs -> [Conns -> Jobs]]
         /\ \A r \in Runs, w \in Conns :
              \/ job'[r][w] = job[r][w] /\ (Restart => job[r][w] # "sent")
              \/ job[r][w] = "sent" /\ job'[r][w] = "stale"
<1>1. \E S \in SUBSET Conns : job' = Outlived(S) /\ (Restart => S = Conns)
  <2>1. CASE Restart BY <2>1 DEF Restart
  <2>2. CASE Sessions /\ ~Restart BY <2>2, SessionsOutlived
  <2> QED BY <2>1, <2>2
<1> QED BY <1>1, OutlivedJobs

(* The kinds of steps the proofs below distinguish.                         *)
LEMMA Steps ==
  ASSUME [Next]_vars
  PROVE  \/ \E r \in Runs : \/ Start(r) \/ TriggerStress(r)
                            \/ Age(r) \/ ReapRow(r) \/ ReapDrop(r)
         \/ \E r \in Runs, w \in Conns : Lose(r, w)
         \/ \E r \in Runs, w \in Conns, v \in {"passed", "failed"}, via \in Conns :
              Answers(r, w, v, via)
         \/ Sessions
         \/ \E w \in Conns : Expire(w)
         \/ \E m \in results : DropResult(m) \/ HandleBegin(m)
         \/ \E h \in handlers : Handle(h)
         \/ ReapScan \/ Restart \/ UNCHANGED vars
<1>1. ASSUME NEW r \in Runs, NEW w \in Conns, NEW v \in {"passed", "failed"},
             Report(r, w, v) \/ \E via \in Conns : LateReport(r, w, v, via)
      PROVE  \E via \in Conns : Answers(r, w, v, via)
  BY <1>1 DEF Report, LateReport, Answers
<1>2. (\E r \in Runs, w \in Conns :
          \/ Lose(r, w)
          \/ \E v \in {"passed", "failed"} :
               Report(r, w, v) \/ \E via \in Conns : LateReport(r, w, v, via))
        => \/ \E r \in Runs, w \in Conns : Lose(r, w)
           \/ \E r \in Runs, w \in Conns, v \in {"passed", "failed"}, via \in Conns :
                Answers(r, w, v, via)
  <2>1. ASSUME NEW r \in Runs, NEW w \in Conns,
               \E v \in {"passed", "failed"} :
                 Report(r, w, v) \/ \E via \in Conns : LateReport(r, w, v, via)
        PROVE  \E v \in {"passed", "failed"}, via \in Conns : Answers(r, w, v, via)
    BY <1>1, <2>1
  <2> QED BY <2>1
<1>3. (\E w \in Conns : Connect(w) \/ Disconnect(w) \/ Expire(w))
        => Sessions \/ \E w \in Conns : Expire(w)
  BY Zenon DEF Sessions
<1> QED BY <1>2, <1>3 DEF Next

(* Every step keeps the types; that a trigger sends to no more than it      *)
(* wants is in CandidatesFresh.                                             *)
LEMMA TypeStep == ASSUME TypeOK, CandidatesFresh, [Next]_vars PROVE TypeOK'
<1> USE StressRunsAssumption
    DEF TypeOK, rows, entry, trigger, conns, history, Result, Handler
<1>1. ASSUME NEW r \in Runs, Start(r) PROVE TypeOK'
  <2>1. Wanted \in 0 .. WorkerCount /\ Wanted \in Int BY WantedBounds
  <2>2. StressWorkers \in SUBSET Conns BY DEF StressWorkers
  <2>3. /\ cand' = [cand EXCEPT ![r] = StressWorkers]
        /\ want' = [want EXCEPT ![r] = Wanted]
        /\ remaining' = [remaining EXCEPT ![r] = Wanted]
        /\ status' = [status EXCEPT ![r] = "RUNNING"]
        /\ tracked' = [tracked EXCEPT ![r] = TRUE]
        /\ pc' = [pc EXCEPT ![r] = "loop"]
        /\ UNCHANGED <<finishes, old, failed, sent, cur, conns, job, results,
                       handlers, reapPc, restarts, history>>
    BY <1>1 DEF Start, Wanted
  <2> QED BY <2>1, <2>2, <2>3
<1>2. ASSUME NEW r \in Runs, NEW w \in Conns, Refused(r, w) PROVE TypeOK'
  BY <1>2 DEF Refused, Take
<1>3. ASSUME NEW r \in Runs, NEW w \in Conns, Reserve(r, w) PROVE TypeOK'
  BY <1>3 DEF Reserve, Take
<1>4. ASSUME NEW r \in Runs, SendOk(r) PROVE TypeOK'
  <2>1. sent[r] + 1 \in 0 .. WorkerCount /\ cur[r] \in Conns
    BY <1>4 DEF SendOk, CandidatesFresh
  <2>2. job' \in [Runs -> [Conns -> Jobs]]
    BY <1>4, <2>1, JobMoves DEF SendOk, Jobs
  <2> QED BY <1>4, <2>1, <2>2 DEF SendOk
<1>5. ASSUME NEW r \in Runs, SendFail(r) PROVE TypeOK'
  <2>1. refused' \in [Runs -> Nat] BY <1>5 DEF SendFail
  <2> QED BY <1>5, <2>1 DEF SendFail
<1>6. ASSUME NEW r \in Runs, Adjust(r) PROVE TypeOK'
  <2>1. remaining' \in [Runs -> Int] BY <1>6 DEF Adjust
  <2> QED BY <1>6, <2>1 DEF Adjust
<1>7. ASSUME NEW r \in Runs, LoopEnd(r) PROVE TypeOK' BY <1>7 DEF LoopEnd
<1>8. ASSUME NEW r \in Runs, Age(r) \/ ReapRow(r) \/ ReapDrop(r) PROVE TypeOK'
  BY <1>8 DEF Age, ReapRow, ReapDrop
<1>9. ASSUME NEW r \in Runs, NEW w \in Conns, Lose(r, w) PROVE TypeOK'
  <2>1. job' \in [Runs -> [Conns -> Jobs]] BY <1>9, JobMoves DEF Lose, Jobs
  <2> QED BY <1>9, <2>1 DEF Lose
<1>10. ASSUME NEW r \in Runs, NEW w \in Conns, NEW v \in {"passed", "failed"},
              NEW via \in Conns, Answers(r, w, v, via)
       PROVE TypeOK'
  <2>1. job' \in [Runs -> [Conns -> Jobs]] BY <1>10, JobMoves DEF Answers, Answer, Jobs
  <2> QED BY <1>10, <2>1 DEF Answers, Answer
<1>11. CASE Sessions
  <2>1. job' \in [Runs -> [Conns -> Jobs]] BY <1>11, JobsOutlived
  <2>2. link' \in [Conns -> {"new", "open", "closed"}]
    BY <1>11 DEF Sessions, Connect, Disconnect
  <2> QED BY <1>11, <2>1, <2>2, SessionsKeep
<1>12. ASSUME NEW w \in Conns, Expire(w) PROVE TypeOK' BY <1>12 DEF Expire
<1>13. ASSUME NEW m \in results, DropResult(m) PROVE TypeOK'
  <2>1. m.run \in Runs /\ m.conn \in Conns OBVIOUS
  <2>2. job' \in [Runs -> [Conns -> Jobs]]
    BY <1>13, <2>1, JobMoves DEF DropResult, Jobs
  <2> QED BY <1>13, <2>2 DEF DropResult
<1>14. ASSUME NEW m \in results, HandleBegin(m) PROVE TypeOK'
  <2>1. m.run \in Runs /\ m.conn \in Conns /\ m.via \in Conns OBVIOUS
  <2> QED BY <1>14, <2>1 DEF HandleBegin
<1>15. ASSUME NEW h \in handlers, Handle(h) PROVE TypeOK'
  <2>1. handlers' \subseteq Handler
    <3>1. \A p \in {"failed", "count", "finish"} : At(h, p) \subseteq Handler
      BY HandlerMoves
    <3> QED
      BY <1>15, <3>1
      DEF Handle, HandleUntil, HandleFailed, HandleCount, HandleFinish, HandleDbError
  <2>2. h.run \in Runs /\ h.conn \in Conns /\ h.via \in Conns BY HandlerMoves
  <2>3. CASE HandleUntil(h) BY <2>1, <2>2, <2>3 DEF HandleUntil
  <2>4. CASE HandleFailed(h) BY <2>1, <2>2, <2>4 DEF HandleFailed
  <2>5. CASE HandleCount(h)
    <3>1. remaining' \in [Runs -> Int] BY <2>5 DEF HandleCount
    <3> QED BY <2>1, <2>5, <3>1 DEF HandleCount
  <2>6. CASE HandleFinish(h)
    <3>1. finishes' \in [Runs -> Nat] BY <2>6 DEF HandleFinish
    <3>2. status' \in [Runs -> {"NONE", "RUNNING", "PASSED", "FAILED"}]
      BY <2>6 DEF HandleFinish
    <3> QED BY <2>1, <2>2, <2>6, <3>1, <3>2 DEF HandleFinish
  <2>7. CASE HandleDbError(h) BY <2>1, <2>7 DEF HandleDbError
  <2> QED BY <1>15, <2>3, <2>4, <2>5, <2>6, <2>7 DEF Handle
<1>16. CASE ReapScan BY <1>16 DEF ReapScan
<1>17. CASE Restart
  <2>1. job' \in [Runs -> [Conns -> Jobs]] BY <1>17, JobsOutlived
  <2> QED BY <1>17, <2>1 DEF Restart
<1>18. CASE UNCHANGED vars BY <1>18 DEF vars
<1> HIDE DEF TypeOK
<1> QED
  BY <1>1, <1>2, <1>3, <1>4, <1>5, <1>6, <1>7, <1>8, <1>9, <1>10, <1>11, <1>12,
     <1>13, <1>14, <1>15, <1>16, <1>17, <1>18, Steps
  DEF TriggerStress
-----------------------------------------------------------------------------
(* Who makes use of a worker.                                               *)

(* Only a reservation makes a holder, and the compare-and-swap grants it    *)
(* only where there is none.                                                *)
LEMMA HolderStep ==
  ASSUME TypeOK, CandidatesFresh, AnswersOfJobs, StaleIsOver, HoldersReserve, OneHolder,
         [Next]_vars
  PROVE  HoldersReserve' /\ OneHolder'
<1> USE DEF TypeOK, rows, entry, trigger, conns, history
<1> DEFINE Goal == HoldersReserve' /\ OneHolder'
           NoNewHolder == \A q \in Runs, v \in Conns : Holder(q, v)' => Holder(q, v)
           Quiet == NoNewHolder /\ UNCHANGED <<stress, strayed>>
<1>1. ASSUME Quiet PROVE Goal
  BY <1>1 DEF HoldersReserve, OneHolder
<1>2. ASSUME NEW r \in Runs, Start(r) PROVE Quiet
  BY <1>2 DEF Start, Holder
<1>3. ASSUME NEW r \in Runs, NEW w \in Conns, Refused(r, w)
      PROVE Quiet
  BY <1>3 DEF Refused, Take, Holder
<1>4. ASSUME NEW r \in Runs, NEW w \in Conns, Reserve(r, w) PROVE Goal
  <2>1. w \in strayed \/ \A q \in Runs : ~Holder(q, w)
    BY <1>4 DEF Reserve, HoldersReserve
  <2>2. \A q \in Runs, v \in Conns : Holder(q, v)' => Holder(q, v) \/ (q = r /\ v = w)
    BY <1>4 DEF Reserve, Take, Candidate, Holder
  <2>3. /\ stress'[w] /\ \A v \in Conns \ {w} : stress'[v] = stress[v]
        /\ strayed' = strayed
    BY <1>4 DEF Reserve
  <2>4. HoldersReserve' BY <2>2, <2>3 DEF HoldersReserve
  <2>5. OneHolder'
    <3> SUFFICES ASSUME NEW p \in Runs, NEW q \in Runs, NEW v \in Conns \ strayed,
                        Holder(p, v)', Holder(q, v)'
                 PROVE  p = q
      BY <2>3 DEF OneHolder
    <3>1. CASE v = w BY <2>1, <2>2, <3>1
    <3>2. CASE v # w BY <2>2, <3>2 DEF OneHolder
    <3> QED BY <3>1, <3>2
  <2> QED BY <2>4, <2>5
<1>5. ASSUME NEW r \in Runs, SendOk(r) PROVE Quiet
  <2>1. cur[r] \in Conns BY <1>5 DEF SendOk, CandidatesFresh
  <2> QED BY <1>5, <2>1 DEF SendOk, Holder
<1>6. ASSUME NEW r \in Runs, SendFail(r) PROVE Goal
  <2>1. cur[r] \in Conns /\ job[r][cur[r]] = "none"
    BY <1>6 DEF SendFail, CandidatesFresh
  <2>2. [run |-> r, conn |-> cur[r], via |-> cur[r]] \notin results
    BY <2>1 DEF AnswersOfJobs
  <2>3. NoNewHolder BY <1>6 DEF SendFail, Holder
  <2>4. cur[r] \in strayed \/ \A q \in Runs : ~Holder(q, cur[r])'
    <3>1. Holder(r, cur[r]) BY <1>6 DEF SendFail, Holder
    <3>2. ~Holder(r, cur[r])' BY <1>6, <2>1, <2>2 DEF SendFail, Holder
    <3>3. cur' = cur BY <1>6 DEF SendFail
    <3> QED BY <2>1, <2>3, <3>1, <3>2, <3>3 DEF OneHolder
  <2>5. /\ stress' = [stress EXCEPT ![cur[r]] = FALSE] /\ cur' = cur
        /\ strayed' = strayed
    BY <1>6 DEF SendFail
  <2> QED BY <2>1, <2>3, <2>4, <2>5 DEF HoldersReserve, OneHolder
<1>7. ASSUME NEW r \in Runs, Adjust(r) \/ LoopEnd(r) PROVE Quiet
  BY <1>7 DEF Adjust, LoopEnd, Holder
<1>8. ASSUME NEW r \in Runs, NEW w \in Conns, Lose(r, w)
      PROVE Quiet
  BY <1>8 DEF Lose, Holder
<1>9. ASSUME NEW r \in Runs, NEW w \in Conns, NEW v \in {"passed", "failed"},
             NEW via \in Conns, Answers(r, w, v, via)
      PROVE Quiet
  <2>1. \A q \in Runs, u \in Conns :
          /\ job'[q][u] = "sent" => job[q][u] = "sent"
          /\ [run |-> q, conn |-> u, via |-> u] \in results' =>
               \/ [run |-> q, conn |-> u, via |-> u] \in results
               \/ q = r /\ u = w /\ via = w
    BY <1>9 DEF Answers, Answer
  <2>2. via = w => Holder(r, w) BY <1>9 DEF Answers, StaleIsOver, Holder
  <2> QED BY <1>9, <2>1, <2>2 DEF Answers, Answer, Holder
<1>10. CASE Sessions
  <2>1. \A q \in Runs, u \in Conns : job'[q][u] = "sent" => job[q][u] = "sent"
    BY <1>10, JobsOutlived
  <2>2. Quiet BY <1>10, <2>1, SessionsKeep DEF Holder
  <2> QED BY <1>1, <2>2
<1>11. ASSUME NEW m \in results, DropResult(m) PROVE Quiet
  <2>1. m.run \in Runs /\ m.conn \in Conns BY ResultParts
  <2> QED BY <1>11, <2>1 DEF DropResult, Holder
<1>12. ASSUME NEW m \in results, HandleBegin(m) PROVE Goal
  <2>1. /\ m.run \in Runs /\ m.conn \in Conns /\ m.via \in Conns
        /\ m = [run |-> m.run, conn |-> m.conn, via |-> m.via]
    BY ResultParts
  <2>2. NoNewHolder BY <1>12 DEF HandleBegin, Holder
  <2>3. m.via \in strayed' \/ \A q \in Runs : ~Holder(q, m.via)'
    <3>1. CASE m.via = m.conn /\ m.via \notin strayed
      <4>1. Holder(m.run, m.via) BY <2>1, <3>1 DEF Holder
      <4>2. job[m.run][m.conn] \notin {"none", "sent"} BY DEF AnswersOfJobs
      <4>3. ~Holder(m.run, m.via)'
        BY <1>12, <2>1, <3>1, <4>2 DEF HandleBegin, Holder, CandidatesFresh
      <4> QED BY <2>1, <2>2, <3>1, <4>1, <4>3 DEF OneHolder
    <3>2. CASE m.via # m.conn /\ m.via \notin strayed /\ ~stress[m.via]
      BY <2>1, <2>2, <3>2 DEF HoldersReserve
    <3>3. CASE m.via \in strayed \/ (m.via # m.conn /\ stress[m.via])
      BY <1>12, <3>3 DEF HandleBegin
    <3> QED BY <3>1, <3>2, <3>3
  <2>4. stress' = [stress EXCEPT ![m.via] = FALSE] /\ strayed \subseteq strayed'
    BY <1>12 DEF HandleBegin
  <2> QED BY <2>1, <2>2, <2>3, <2>4 DEF HoldersReserve, OneHolder
<1>13. CASE Restart
  <2>1. \A q \in Runs, u \in Conns : job'[q][u] # "sent"
    BY <1>13, JobsOutlived
  <2>2. \A q \in Runs, u \in Conns : ~Holder(q, u)'
    BY <1>13, <2>1 DEF Restart, Holder
  <2> QED BY <2>2 DEF HoldersReserve, OneHolder
<1>14. ASSUME UNCHANGED <<pc, cur, job, results, stress, strayed>> PROVE Goal
  BY <1>14 DEF HoldersReserve, OneHolder, Holder
<1> QED
  BY <1>1, <1>2, <1>3, <1>4, <1>5, <1>6, <1>7, <1>8, <1>9, <1>10, <1>11, <1>12,
     <1>13, <1>14, Steps
  DEF TriggerStress, Age, ReapRow, ReapDrop, Expire, Handle, HandleUntil,
      HandleFailed, HandleCount, HandleFinish, HandleDbError, ReapScan, vars

(* A reservation that loses its holder, on an open connection, is given up  *)
(* in the same step, or its task is lost for good.                          *)
LEMMA ReservationStep ==
  ASSUME TypeOK, CandidatesFresh, AnswersOfJobs, ReservationUsed, NewIsFree, [Next]_vars
  PROVE  ReservationUsed'
<1> USE DEF TypeOK, Open, rows, entry, trigger, conns, history
<1> DEFINE Used(r, w) == Holder(r, w) \/ job[r][w] = "lost"
           Kept == \A q \in Runs, v \in Conns :
                     stress'[v] /\ Open(v)' /\ Used(q, v) => Used(q, v)'
           NoMore == \A v \in Conns : stress'[v] /\ Open(v)' => stress[v] /\ Open(v)
<1>1. ASSUME Kept, NoMore PROVE ReservationUsed'
  BY <1>1 DEF ReservationUsed
<1>2. ASSUME NEW r \in Runs, Start(r) PROVE Kept /\ NoMore
  BY <1>2 DEF Start, Holder
<1>3. ASSUME NEW r \in Runs, NEW w \in Conns, Refused(r, w) PROVE Kept /\ NoMore
  BY <1>3 DEF Refused, Candidate, Take, Holder
<1>4. ASSUME NEW r \in Runs, NEW w \in Conns, Reserve(r, w) PROVE ReservationUsed'
  <2>1. Used(r, w)' BY <1>4 DEF Reserve, Take, Holder
  <2>2. \A q \in Runs, v \in Conns : Used(q, v) => Used(q, v)'
    BY <1>4 DEF Reserve, Take, Candidate, Holder
  <2>3. \A v \in Conns : v # w /\ stress'[v] /\ Open(v)' => stress[v] /\ Open(v)
    BY <1>4 DEF Reserve
  <2> SUFFICES ASSUME NEW v \in Conns, stress'[v], Open(v)'
               PROVE  \E q \in Runs : Used(q, v)'
    BY DEF ReservationUsed
  <2>4. CASE v = w BY <2>1, <2>4
  <2>5. CASE v # w
    <3>1. PICK q \in Runs : Used(q, v) BY <2>3, <2>5 DEF ReservationUsed
    <3> QED BY <2>2, <3>1
  <2> QED BY <2>4, <2>5
<1>5. ASSUME NEW r \in Runs, SendOk(r) PROVE Kept /\ NoMore
  <2>1. cur[r] \in Conns BY <1>5 DEF SendOk, CandidatesFresh
  <2> QED BY <1>5, <2>1 DEF SendOk, Holder
<1>6. ASSUME NEW r \in Runs, SendFail(r) PROVE Kept /\ NoMore
  BY <1>6 DEF SendFail, Holder
<1>7. ASSUME NEW r \in Runs, Adjust(r) \/ LoopEnd(r) PROVE Kept /\ NoMore
  BY <1>7 DEF Adjust, LoopEnd, Holder
<1>8. ASSUME NEW r \in Runs, NEW w \in Conns, Lose(r, w) PROVE Kept /\ NoMore
  BY <1>8 DEF Lose, Holder
<1>9. ASSUME NEW r \in Runs, NEW w \in Conns, NEW v \in {"passed", "failed"},
             NEW via \in Conns, Answers(r, w, v, via)
      PROVE Kept /\ NoMore
  <2>1. \A q \in Runs, u \in Conns :
          job'[q][u] = IF q = r /\ u = w THEN v ELSE job[q][u]
    BY <1>9 DEF Answers, Answer
  <2>2. results' = results \cup {[run |-> r, conn |-> w, via |-> via]}
    BY <1>9 DEF Answers, Answer
  <2>3. job[r][w] = "sent" => via = w BY <1>9 DEF Answers
  <2> QED BY <1>9, <2>1, <2>2, <2>3 DEF Answers, Answer, Holder
<1>10. CASE Sessions
  <2>1. NoMore
    BY <1>10 DEF Sessions, Connect, Disconnect, NewIsFree
  <2>2. \A q \in Runs, u \in Conns : Open(u)' => job'[q][u] = job[q][u]
    <3>1. \E T \in SUBSET Conns : job' = Outlived(T) /\ \A u \in T : ~Open(u)'
      <4>1. ASSUME NEW w \in Conns, Connect(w), NEW u \in SameWorker(w) \ {w}
            PROVE  ~Open(u)'
        BY <4>1 DEF Connect, SameWorker
      <4>2. ASSUME NEW w \in Conns, Disconnect(w) PROVE ~Open(w)'
        BY <4>2 DEF Disconnect
      <4>3. ASSUME NEW w \in Conns PROVE SameWorker(w) \ {w} \in SUBSET Conns
        BY DEF SameWorker
      <4>5. CASE \E w \in Conns : Connect(w)
        <5>1. PICK w \in Conns : Connect(w) BY <4>5
        <5>2. job' = Outlived(SameWorker(w) \ {w}) BY <5>1 DEF Connect
        <5> QED BY <4>1, <4>3, <5>1, <5>2
      <4>6. CASE \E w \in Conns : Disconnect(w)
        <5>1. PICK w \in Conns : Disconnect(w) BY <4>6
        <5>2. job' = Outlived({w}) BY <5>1 DEF Disconnect
        <5> QED BY <4>2, <5>1, <5>2
      <4> QED BY <1>10, <4>5, <4>6 DEF Sessions
    <3> QED BY <3>1, OutlivedJobs
  <2>4. Kept
    BY <1>10, <2>2, SessionsKeep DEF Holder
  <2> QED BY <1>1, <2>1, <2>4
<1>11. ASSUME NEW m \in results, DropResult(m) PROVE Kept /\ NoMore
  <2>1. m.run \in Runs /\ m.conn \in Conns BY ResultParts
  <2>2. \A q \in Runs, u \in Conns :
          job'[q][u] = IF q = m.run /\ u = m.conn THEN "lost" ELSE job[q][u]
    BY <1>11, <2>1 DEF DropResult
  <2> QED BY <1>11, <2>2 DEF DropResult, Holder
<1>12. ASSUME NEW m \in results, HandleBegin(m) PROVE Kept /\ NoMore
  <2>1. /\ m.run \in Runs /\ m.conn \in Conns /\ m.via \in Conns
        /\ m = [run |-> m.run, conn |-> m.conn, via |-> m.via]
    BY ResultParts
  <2> QED BY <1>12, <2>1 DEF HandleBegin, Holder
<1>13. CASE Restart BY <1>13 DEF Restart, ReservationUsed
<1>14. ASSUME UNCHANGED <<pc, cur, job, results, stress, link>> PROVE Kept /\ NoMore
  BY <1>14 DEF Holder
<1> QED
  BY <1>1, <1>2, <1>3, <1>4, <1>5, <1>6, <1>7, <1>8, <1>9, <1>10, <1>11, <1>12,
     <1>13, <1>14, Steps
  DEF TriggerStress, Age, ReapRow, ReapDrop, Expire, Handle, HandleUntil,
      HandleFailed, HandleCount, HandleFinish, HandleDbError, ReapScan, vars

(* A trigger turns to connections that are open, and a task outlives its    *)
(* session when the connection closes, for good.                            *)
LEMMA LinkStep ==
  ASSUME TypeOK, CandidatesFresh, AnswersOfJobs, NewIsFree, StaleIsOver, [Next]_vars
  PROVE  NewIsFree' /\ StaleIsOver'
<1>0. ASSUME NEW r \in Runs, NEW w \in Conns,
             \E S \in SUBSET Conns : job' = Outlived(S) /\ w \notin S
      PROVE  job'[r][w] = job[r][w]
  BY <1>0, OutlivedJobs
<1> USE DEF TypeOK, Open, rows, entry, trigger, conns, history
<1> DEFINE Goal == NewIsFree' /\ StaleIsOver'
           SameUse == \A r \in Runs : /\ cand'[r] \subseteq cand[r]
                                      /\ pc'[r] = "send" => pc[r] = "send" /\ cur'[r] = cur[r]
<1>1. ASSUME NEW r \in Runs, Start(r) PROVE Goal
  <2>1. /\ cand' = [cand EXCEPT ![r] = StressWorkers] /\ pc' = [pc EXCEPT ![r] = "loop"]
        /\ UNCHANGED <<stress, link, job, cur>>
    BY <1>1 DEF Start
  <2>2. \A w \in StressWorkers : link[w] # "new" BY DEF StressWorkers
  <2> QED BY <2>1, <2>2 DEF NewIsFree, StaleIsOver
<1>2. ASSUME NEW r \in Runs, NEW w \in Conns, Refused(r, w) \/ Reserve(r, w) PROVE Goal
  <2>1. w \in cand[r] /\ UNCHANGED <<link, job>>
        /\ \A v \in Conns \ {w} : stress'[v] = stress[v]
    BY <1>2 DEF Refused, Reserve, Candidate
  <2>2. link[w] # "new" BY <2>1 DEF NewIsFree
  <2>3. \A q \in Runs : /\ cand'[q] \subseteq cand[q]
                        /\ pc'[q] = "send" => cur'[q] = w \/ (pc[q] = "send" /\ cur'[q] = cur[q])
    BY <1>2 DEF Refused, Reserve, Take, Candidate
  <2>4. NewIsFree'
    <3> SUFFICES ASSUME NEW v \in Conns, link[v] = "new", NEW q \in Runs
                 PROVE  /\ ~stress'[v] /\ job[q][v] = "none" /\ v \notin cand'[q]
                        /\ pc'[q] = "send" => cur'[q] # v
      BY <2>1 DEF NewIsFree
    <3>1. v # w BY <2>2
    <3> QED BY <2>1, <2>3, <3>1 DEF NewIsFree
  <2>5. StaleIsOver' BY <2>1 DEF StaleIsOver
  <2> QED BY <2>4, <2>5
<1>3. ASSUME NEW r \in Runs, SendOk(r) PROVE Goal
  <2>1. cur[r] \in Conns /\ link[cur[r]] # "new"
    BY <1>3 DEF SendOk, CandidatesFresh, NewIsFree
  <2>2. /\ \A q \in Runs, w \in Conns : ~(q = r /\ w = cur[r]) => job'[q][w] = job[q][w]
        /\ job'[r][cur[r]] = IF Open(cur[r]) THEN "sent" ELSE "stale"
        /\ SameUse /\ UNCHANGED <<stress, link>>
    BY <1>3, <2>1 DEF SendOk
  <2> DEFINE c == cur[r]
  <2>3. /\ c \in Conns /\ link[c] # "new"
        /\ \A q \in Runs, w \in Conns : ~(q = r /\ w = c) => job'[q][w] = job[q][w]
        /\ job'[r][c] = IF link[c] = "open" THEN "sent" ELSE "stale"
    BY <2>1, <2>2
  <2> HIDE DEF c
  <2>4. NewIsFree'
    <3> SUFFICES ASSUME NEW w \in Conns, link[w] = "new", NEW q \in Runs
                 PROVE  /\ ~stress[w] /\ job'[q][w] = "none" /\ w \notin cand'[q]
                        /\ pc'[q] = "send" => cur'[q] # w
      BY <2>2 DEF NewIsFree
    <3>1. w # c /\ job'[q][w] = job[q][w] BY <2>3
    <3>2. cand'[q] \subseteq cand[q] /\ (pc'[q] = "send" => pc[q] = "send" /\ cur'[q] = cur[q])
      BY <2>2
    <3> QED BY <3>1, <3>2 DEF NewIsFree
  <2>5. StaleIsOver'
    <3> SUFFICES ASSUME NEW q \in Runs, NEW w \in Conns, job'[q][w] = "stale"
                 PROVE  link[w] # "open"
      BY <2>2 DEF StaleIsOver
    <3>1. CASE q = r /\ w = c BY <2>3, <3>1
    <3>2. CASE ~(q = r /\ w = c) BY <2>3, <3>2 DEF StaleIsOver
    <3> QED BY <3>1, <3>2
  <2> QED BY <2>4, <2>5
<1>4. ASSUME NEW r \in Runs, SendFail(r) \/ Adjust(r) \/ LoopEnd(r) PROVE Goal
  <2>1. /\ SameUse /\ UNCHANGED <<link, job>>
        /\ \A w \in Conns : stress'[w] => stress[w]
    <3>1. CASE SendFail(r) BY <3>1 DEF SendFail
    <3>2. CASE Adjust(r) BY <3>2 DEF Adjust
    <3>3. CASE LoopEnd(r) BY <3>3 DEF LoopEnd
    <3> QED BY <1>4, <3>1, <3>2, <3>3
  <2> QED BY <2>1 DEF NewIsFree, StaleIsOver
<1>5. ASSUME NEW r \in Runs, NEW w \in Conns, NEW v \in {"lost", "passed", "failed"},
             job[r][w] # "none", job' = [job EXCEPT ![r][w] = v],
             UNCHANGED <<trigger, stress, link>>
      PROVE  Goal
  <2>1. \A q \in Runs, u \in Conns : /\ job'[q][u] = "none" <=> job[q][u] = "none"
                                     /\ job'[q][u] = "stale" => job[q][u] = "stale"
    BY <1>5
  <2> QED BY <1>5, <2>1 DEF NewIsFree, StaleIsOver
<1>6. CASE Sessions
  <2>1. /\ \A u \in Conns : link'[u] = "new" => link[u] = "new"
        /\ UNCHANGED <<trigger, stress>>
    BY <1>6, SessionsKeep DEF Sessions, Connect, Disconnect
  <2>2. \A q \in Runs, u \in Conns : job'[q][u] = "none" <=> job[q][u] = "none"
    BY <1>6, JobsOutlived
  <2>3. NewIsFree' BY <2>1, <2>2 DEF NewIsFree
  <2>4. ASSUME NEW q \in Runs, NEW u \in Conns, job'[q][u] = "stale" PROVE ~Open(u)'
    <3>1. ASSUME NEW w \in Conns, Connect(w) PROVE ~Open(u)'
      <4>1. CASE u = w
        <5>1. job[q][u] = "none" BY <3>1, <4>1 DEF Connect, NewIsFree
        <5> QED BY <2>2, <2>4, <5>1
      <4>2. CASE u # w /\ u \in SameWorker(w) BY <3>1, <4>2 DEF Connect
      <4>3. CASE u \notin SameWorker(w) /\ u # w
        <5>0. \E T \in SUBSET Conns : job' = Outlived(T) /\ u \notin T
          BY <3>1, <4>3 DEF Connect, SameWorker
        <5>1. job'[q][u] = job[q][u] BY <5>0, <1>0
        <5> QED BY <2>4, <3>1, <4>3, <5>1 DEF Connect, StaleIsOver
      <4> QED BY <4>1, <4>2, <4>3
    <3>2. ASSUME NEW w \in Conns, Disconnect(w) PROVE ~Open(u)'
      <4>1. CASE u = w BY <3>2, <4>1 DEF Disconnect
      <4>2. CASE u # w
        <5>0. \E T \in SUBSET Conns : job' = Outlived(T) /\ u \notin T
          BY <3>2, <4>2 DEF Disconnect
        <5>1. job'[q][u] = job[q][u] BY <5>0, <1>0
        <5> QED BY <2>4, <3>2, <4>2, <5>1 DEF Disconnect, StaleIsOver
      <4> QED BY <4>1, <4>2
    <3> QED BY <1>6, <3>1, <3>2 DEF Sessions
  <2> QED BY <2>3, <2>4 DEF StaleIsOver
<1>7. ASSUME NEW m \in results, DropResult(m) PROVE Goal
  <2>1. m.run \in Runs /\ m.conn \in Conns BY ResultParts
  <2>2. job[m.run][m.conn] # "none" BY DEF AnswersOfJobs
  <2> QED BY <1>5, <1>7, <2>1, <2>2 DEF DropResult
<1>8. ASSUME NEW m \in results, HandleBegin(m) PROVE Goal
  BY <1>8 DEF HandleBegin, NewIsFree, StaleIsOver
<1>9. CASE Restart
  <2>1. \A q \in Runs, u \in Conns : job'[q][u] = "none" <=> job[q][u] = "none"
    BY <1>9, JobsOutlived
  <2>2. /\ \A u \in Conns : link'[u] # "open" /\ (link'[u] = "new" => link[u] = "new")
        /\ \A q \in Runs : pc'[q] # "send"
        /\ cand' = cand /\ stress' = [w \in Conns |-> FALSE]
    BY <1>9 DEF Restart
  <2> QED BY <2>1, <2>2 DEF NewIsFree, StaleIsOver
<1>10. ASSUME UNCHANGED <<pc, cur, cand, job, stress, link>> PROVE Goal
  BY <1>10 DEF NewIsFree, StaleIsOver
<1>11. ASSUME NEW r \in Runs, NEW w \in Conns, Lose(r, w) PROVE Goal
  BY <1>5, <1>11 DEF Lose
<1>12. ASSUME NEW r \in Runs, NEW w \in Conns, NEW v \in {"passed", "failed"},
              NEW via \in Conns, Answers(r, w, v, via)
       PROVE Goal
  BY <1>5, <1>12 DEF Answers, Answer
<1> QED
  BY <1>1, <1>2, <1>3, <1>4, <1>6, <1>7, <1>8, <1>9, <1>10, <1>11, <1>12, Steps
  DEF TriggerStress, Age, ReapRow, ReapDrop, Expire, Handle, HandleUntil, HandleFailed,
      HandleCount, HandleFinish, HandleDbError, ReapScan, vars

-----------------------------------------------------------------------------
(* Tasks, answers and the trigger's position.                               *)

(* A worker leaves the candidates before anything is sent to it.            *)
LEMMA CandidatesStep ==
  ASSUME TypeOK, CandidatesFresh, AnswersOfJobs, NotStarted, [Next]_vars
  PROVE  CandidatesFresh'
<1> USE DEF TypeOK, CandidatesFresh, rows, entry, trigger, conns, history
<1>1. ASSUME NEW r \in Runs, Start(r) PROVE CandidatesFresh'
  <2>1. StressWorkers \subseteq Conns BY DEF StressWorkers
  <2>2. \A w \in Conns : job[r][w] = "none" BY <1>1 DEF Start, NotStarted
  <2>4. sent[r] = 0 /\ want'[r] = Wanted /\ Wanted \in Nat
    BY <1>1, WantedBounds DEF Start, NotStarted, Wanted
  <2>3. /\ cand' = [cand EXCEPT ![r] = StressWorkers] /\ pc' = [pc EXCEPT ![r] = "loop"]
        /\ job' = job /\ cur' = cur /\ sent' = sent
        /\ \A q \in Runs \ {r} : want'[q] = want[q]
    BY <1>1 DEF Start
  <2> QED BY <2>1, <2>2, <2>3, <2>4
<1>2. ASSUME NEW r \in Runs, NEW w \in Conns, Refused(r, w) \/ Reserve(r, w)
      PROVE CandidatesFresh'
  BY <1>2 DEF Refused, Reserve, Candidate, Take
<1>3. ASSUME NEW r \in Runs, SendOk(r) PROVE CandidatesFresh'
  <2>1. cur[r] \in Conns \ cand[r] BY <1>3 DEF SendOk
  <2> QED BY <1>3, <2>1 DEF SendOk
<1>4. ASSUME NEW r \in Runs, SendFail(r) \/ Adjust(r) \/ LoopEnd(r)
      PROVE CandidatesFresh'
  BY <1>4 DEF SendFail, Adjust, LoopEnd
<1>5. ASSUME NEW r \in Runs, NEW w \in Conns, NEW v \in {"lost", "passed", "failed"},
             job[r][w] # "none", job' = [job EXCEPT ![r][w] = v], UNCHANGED trigger
      PROVE CandidatesFresh'
  <2>1. \A q \in Runs, u \in Conns : job'[q][u] = "none" <=> job[q][u] = "none"
    BY <1>5
  <2> QED BY <1>5, <2>1
<1>6. CASE Sessions
  <2>1. \A q \in Runs, u \in Conns : job'[q][u] = "none" <=> job[q][u] = "none"
    BY <1>6, JobsOutlived
  <2> QED BY <1>6, <2>1, SessionsKeep
<1>7. ASSUME NEW m \in results, DropResult(m) PROVE CandidatesFresh'
  <2>1. m.run \in Runs /\ m.conn \in Conns BY ResultParts
  <2>2. job[m.run][m.conn] # "none" BY DEF AnswersOfJobs
  <2> QED BY <1>5, <1>7, <2>1, <2>2 DEF DropResult
<1>8. CASE Restart
  <2>1. \A q \in Runs, u \in Conns : job'[q][u] = "none" <=> job[q][u] = "none"
    BY <1>8, JobsOutlived
  <2> QED BY <1>8, <2>1 DEF Restart
<1>9. ASSUME UNCHANGED <<trigger, job>> PROVE CandidatesFresh' BY <1>9
<1> QED
  BY <1>1, <1>2, <1>3, <1>4, <1>5, <1>6, <1>7, <1>8, <1>9, Steps
  DEF TriggerStress, Lose, Answers, Answer, Age, ReapRow, ReapDrop, Expire, HandleBegin, Handle,
      HandleUntil, HandleFailed, HandleCount, HandleFinish, HandleDbError, ReapScan, vars

(* A worker answers a task once, its connection handles one answer at a     *)
(* time, and an answer that is lost was not being handled.                  *)
LEMMA AnswersStep ==
  ASSUME TypeOK, CandidatesFresh, AnswersOfJobs, [Next]_vars PROVE AnswersOfJobs'
<1> USE DEF AnswersOfJobs, rows, entry, trigger, conns, history
<1>0. /\ \A h \in handlers : h.run \in Runs /\ h.conn \in Conns
      /\ \A m \in results : m.run \in Runs /\ m.conn \in Conns
  BY HandlerMoves, ResultParts DEF TypeOK
\* Only a task without an answer changes.
<1>a. ASSUME UNCHANGED <<results, handlers>>,
             \A q \in Runs, u \in Conns :
               job[q][u] \in {"passed", "failed"} => job'[q][u] = job[q][u]
      PROVE AnswersOfJobs'
  BY <1>0, <1>a
<1>1. ASSUME NEW r \in Runs, SendOk(r) PROVE AnswersOfJobs'
  <2>1. cur[r] \in Conns /\ job[r][cur[r]] = "none"
    BY <1>1 DEF SendOk, CandidatesFresh
  <2>2. \A q \in Runs, u \in Conns :
          job[q][u] \in {"passed", "failed"} => job'[q][u] = job[q][u]
    BY <1>1, <2>1 DEF SendOk, TypeOK
  <2> QED BY <1>1, <1>a, <2>2 DEF SendOk
<1>2. ASSUME NEW r \in Runs, NEW w \in Conns, Lose(r, w) PROVE AnswersOfJobs'
  <2>1. \A q \in Runs, u \in Conns :
          job[q][u] \in {"passed", "failed"} => job'[q][u] = job[q][u]
    BY <1>2 DEF Lose, TypeOK
  <2> QED BY <1>2, <1>a, <2>1 DEF Lose
<1>3. ASSUME NEW r \in Runs, NEW w \in Conns, NEW v \in {"passed", "failed"},
             NEW via \in Conns, Answers(r, w, v, via)
      PROVE AnswersOfJobs'
  <2> DEFINE n == [run |-> r, conn |-> w, via |-> via]
  <2>1. n.run = r /\ n.conn = w OBVIOUS
  <2>2. results' = results \cup {n} /\ handlers' = handlers BY <1>3 DEF Answers, Answer
  <2>3. job[r][w] \in {"sent", "stale"} BY <1>3 DEF Answers
  <2>4. job'[r][w] = v /\ \A q \in Runs, u \in Conns : ~(q = r /\ u = w) => job'[q][u] = job[q][u]
    BY <1>3 DEF Answers, Answer, TypeOK
  <2>5. /\ \A m \in results : ~(m.run = r /\ m.conn = w)
        /\ \A h \in handlers : ~(h.run = r /\ h.conn = w)
    BY <2>3
  <2> HIDE DEF n
  <2> QED BY <1>0, <2>1, <2>2, <2>4, <2>5
<1>4. CASE Sessions
  <2>1. \A q \in Runs, u \in Conns :
          job[q][u] \in {"passed", "failed"} => job'[q][u] = job[q][u]
    BY <1>4, JobsOutlived
  <2> QED BY <1>4, <1>a, <2>1, SessionsKeep
<1>5. ASSUME NEW m \in results, DropResult(m) PROVE AnswersOfJobs'
  <2>1. \A n \in results \ {m} : ~(n.run = m.run /\ n.conn = m.conn) OBVIOUS
  <2>2. \A q \in Runs, v \in Conns :
          ~(q = m.run /\ v = m.conn) => job'[q][v] = job[q][v]
    BY <1>0, <1>5 DEF DropResult, TypeOK
  <2>3. results' = results \ {m} /\ handlers' = handlers BY <1>5 DEF DropResult
  <2>4. \A h \in handlers : ~(h.run = m.run /\ h.conn = m.conn) OBVIOUS
  <2> QED BY <1>0, <2>1, <2>2, <2>3, <2>4
<1>6. ASSUME NEW m \in results, HandleBegin(m) PROVE AnswersOfJobs'
  <2> DEFINE g == [run |-> m.run, conn |-> m.conn, via |-> m.via, at |-> "until"]
  <2>1. g.run = m.run /\ g.conn = m.conn OBVIOUS
  <2>2. \A n \in results \ {m} : ~(n.run = m.run /\ n.conn = m.conn) OBVIOUS
  <2>3. results' = results \ {m} /\ handlers' = handlers \cup {g} /\ job' = job
    BY <1>6 DEF HandleBegin
  <2> HIDE DEF g
  <2> QED BY <2>1, <2>2, <2>3
<1>7. ASSUME NEW h \in handlers, Handle(h) PROVE AnswersOfJobs'
  <2>1. job' = job /\ results' = results
    BY <1>7 DEF Handle, HandleUntil, HandleFailed, HandleCount, HandleFinish, HandleDbError
  <2>2. CASE handlers' \subseteq handlers BY <2>1, <2>2
  <2>3. ASSUME NEW p \in {"until", "failed", "count", "finish"}, handlers' = At(h, p)
        PROVE  AnswersOfJobs'
    <3> DEFINE g == [h EXCEPT !.at = p]
    <3>1. g.run = h.run /\ g.conn = h.conn BY HandlerMoves DEF TypeOK
    <3>2. handlers' = (handlers \ {h}) \cup {g} BY <2>3 DEF At
    <3> HIDE DEF g
    <3> QED BY <2>1, <3>1, <3>2
  <2> QED
    BY <1>7, <2>2, <2>3
    DEF Handle, HandleUntil, HandleFailed, HandleCount, HandleFinish, HandleDbError
<1>8. CASE Restart BY <1>8 DEF Restart
<1>9. ASSUME UNCHANGED <<job, results, handlers>> PROVE AnswersOfJobs' BY <1>9
<1> HIDE DEF AnswersOfJobs
<1> QED
  BY <1>1, <1>2, <1>3, <1>4, <1>5, <1>6, <1>7, <1>8, <1>9, Steps
  DEF TriggerStress, Start, Refused, Reserve, SendFail, Adjust, LoopEnd, Age, ReapRow, ReapDrop, Expire, ReapScan, vars

(* Only its trigger gives a run a row, a counter and tasks.                 *)
LEMMA NotStartedStep ==
  ASSUME TypeOK, CandidatesFresh, AnswersOfJobs, NotStarted, [Next]_vars PROVE NotStarted'
<1> USE DEF TypeOK, NotStarted, rows, entry, trigger, conns, history
<1>1. ASSUME NEW r \in Runs, Start(r) PROVE NotStarted'
  <2>1. /\ pc' = [pc EXCEPT ![r] = "loop"] /\ job' = job /\ reapPc' = reapPc
        /\ \A q \in Runs \ {r} : /\ status'[q] = status[q] /\ tracked'[q] = tracked[q]
                                /\ cand'[q] = cand[q] /\ sent'[q] = sent[q]
                                /\ refused'[q] = refused[q]
    BY <1>1 DEF Start
  <2> QED BY <2>1
<1>2. ASSUME NEW r \in Runs, NEW w \in Conns, Refused(r, w) \/ Reserve(r, w)
      PROVE NotStarted'
  BY <1>2 DEF Refused, Reserve, Candidate, Take
<1>3. ASSUME NEW r \in Runs, SendOk(r) \/ SendFail(r) \/ Adjust(r) \/ LoopEnd(r)
      PROVE NotStarted'
  BY <1>3 DEF SendOk, SendFail, Adjust, LoopEnd
<1>4. ASSUME NEW r \in Runs, Age(r) \/ ReapRow(r) \/ ReapDrop(r) PROVE NotStarted'
  <2>1. CASE Age(r) BY <2>1 DEF Age
  <2>2. CASE ReapRow(r) BY <2>2 DEF ReapRow
  <2>3. CASE ReapDrop(r) BY <2>3 DEF ReapDrop
  <2> QED BY <1>4, <2>1, <2>2, <2>3
<1>a. ASSUME NEW r \in Runs, NEW w \in Conns, NEW v \in {"lost", "passed", "failed"},
             job[r][w] # "none", job' = [job EXCEPT ![r][w] = v],
             UNCHANGED <<rows, entry, trigger, reapPc, history>>
      PROVE NotStarted'
  <2>1. \A q \in Runs, u \in Conns : job'[q][u] = "none" <=> job[q][u] = "none"
    BY <1>a
  <2> QED BY <1>a, <2>1
<1>5. ASSUME NEW r \in Runs, NEW w \in Conns, Lose(r, w) PROVE NotStarted'
  BY <1>5, <1>a DEF Lose
<1>b. ASSUME NEW r \in Runs, NEW w \in Conns, NEW v \in {"passed", "failed"},
             NEW via \in Conns, Answers(r, w, v, via)
      PROVE NotStarted'
  BY <1>a, <1>b DEF Answers, Answer
<1>6. CASE Sessions
  <2>1. \A q \in Runs, u \in Conns : job'[q][u] = "none" <=> job[q][u] = "none"
    BY <1>6, JobsOutlived
  <2> QED BY <1>6, <2>1, SessionsKeep
<1>7. ASSUME NEW m \in results, DropResult(m) PROVE NotStarted'
  <2>1. m.run \in Runs /\ m.conn \in Conns BY ResultParts
  <2>2. job[m.run][m.conn] # "none" BY DEF AnswersOfJobs
  <2> QED BY <1>7, <1>a, <2>1, <2>2 DEF DropResult
<1>8. ASSUME NEW h \in handlers, Handle(h) PROVE NotStarted'
  <2>1. h.run \in Runs /\ h.conn \in Conns /\ pc[h.run] # "idle"
    BY HandlerMoves DEF AnswersOfJobs
  <2> QED
    BY <1>8, <2>1
    DEF Handle, HandleUntil, HandleFailed, HandleCount, HandleFinish, HandleDbError
<1>9. CASE ReapScan BY <1>9 DEF ReapScan
<1>10. CASE Restart
  <2>1. \A q \in Runs, u \in Conns : job'[q][u] = "none" <=> job[q][u] = "none"
    BY <1>10, JobsOutlived
  <2> QED BY <1>10, <2>1 DEF Restart
<1>11. ASSUME UNCHANGED <<pc, status, tracked, reapPc, cand, job, sent, refused>> PROVE NotStarted'
  BY <1>11
<1> QED
  BY <1>1, <1>2, <1>3, <1>4, <1>5, <1>6, <1>7, <1>8, <1>9, <1>10, <1>11,
     <1>b, Steps
  DEF TriggerStress, Expire, HandleBegin, vars

(* The number of tasks sent never goes back, and only a task's answer can   *)
(* close a run as PASSED.                                                   *)
LEMMA SentStep ==
  ASSUME TypeOK, CandidatesFresh, AnswersOfJobs, NotStarted, SentCounted, [Next]_vars
  PROVE  SentCounted'
<1> USE DEF TypeOK, SentCounted, rows, entry, trigger, conns, history
<1> DEFINE Kept == \A q \in Runs :
             /\ status'[q] = "PASSED" => status[q] = "PASSED"
             /\ \A v \in Conns : job'[q][v] # "none" => job[q][v] # "none"
             /\ sent'[q] = sent[q]
<1>1. ASSUME Kept PROVE SentCounted' BY <1>1
<1>2. ASSUME NEW r \in Runs, Start(r) PROVE Kept BY <1>2 DEF Start
<1>3. ASSUME NEW r \in Runs, SendOk(r) PROVE SentCounted'
  <2>1. cur[r] \in Conns BY <1>3 DEF SendOk, CandidatesFresh
  <2>2. /\ status' = status /\ sent' = [sent EXCEPT ![r] = @ + 1]
        /\ \A q \in Runs \ {r} : job'[q] = job[q]
    BY <1>3 DEF SendOk
  <2>3. sent[r] \in Nat /\ sent'[r] > 0 BY <2>2
  <2> QED BY <2>2, <2>3
<1>4. ASSUME NEW r \in Runs, LoopEnd(r) \/ ReapRow(r) PROVE Kept
  BY <1>4 DEF LoopEnd, ReapRow
<1>a. ASSUME NEW r \in Runs, NEW w \in Conns, NEW v \in {"lost", "passed", "failed"},
             job[r][w] # "none", job' = [job EXCEPT ![r][w] = v], UNCHANGED <<status, sent>>
      PROVE Kept
  <2>1. \A q \in Runs, u \in Conns : job'[q][u] = "none" <=> job[q][u] = "none"
    BY <1>a
  <2> QED BY <1>a, <2>1
<1>5. ASSUME NEW r \in Runs, NEW w \in Conns, Lose(r, w) PROVE Kept
  BY <1>5, <1>a DEF Lose
<1>b. ASSUME NEW r \in Runs, NEW w \in Conns, NEW v \in {"passed", "failed"},
             NEW via \in Conns, Answers(r, w, v, via)
      PROVE Kept
  BY <1>a, <1>b DEF Answers, Answer
<1>6. CASE Sessions
  <2>1. \A q \in Runs, u \in Conns : job'[q][u] = "none" <=> job[q][u] = "none"
    BY <1>6, JobsOutlived
  <2> QED BY <1>6, <2>1, SessionsKeep
<1>7. ASSUME NEW m \in results, DropResult(m) PROVE Kept
  <2>1. m.run \in Runs /\ m.conn \in Conns BY ResultParts
  <2>2. job[m.run][m.conn] # "none" BY DEF AnswersOfJobs
  <2> QED BY <1>7, <1>a, <2>1, <2>2 DEF DropResult
<1>8. ASSUME NEW h \in handlers, HandleFinish(h) PROVE SentCounted'
  <2>1. h.run \in Runs /\ h.conn \in Conns /\ job[h.run][h.conn] # "none"
    BY HandlerMoves DEF AnswersOfJobs
  <2>2. sent[h.run] > 0 BY <2>1
  <2>3. /\ \A q \in Runs \ {h.run} : status'[q] = status[q]
        /\ job' = job /\ sent' = sent
    BY <1>8 DEF HandleFinish
  <2> QED BY <2>2, <2>3
<1>9. CASE Restart
  <2>1. \A q \in Runs, u \in Conns : job'[q][u] = "none" <=> job[q][u] = "none"
    BY <1>9, JobsOutlived
  <2> QED BY <1>9, <2>1 DEF Restart
<1>10. ASSUME UNCHANGED <<status, sent, job>> PROVE Kept BY <1>10
<1> QED
  BY <1>1, <1>2, <1>3, <1>4, <1>5, <1>6, <1>7, <1>8, <1>9, <1>10, <1>b, Steps
  DEF TriggerStress, Refused, Reserve, SendFail, Adjust, Age, ReapDrop, Expire,
      HandleBegin, Handle, HandleUntil, HandleFailed, HandleCount, HandleDbError,
      ReapScan, vars

-----------------------------------------------------------------------------
(* Who closes a run.                                                        *)

(* Whoever drops the counter of a run has closed the row before.            *)
LEMMA UntrackedStep ==
  ASSUME TypeOK, NotStarted, UntrackedIsOver, [Next]_vars PROVE UntrackedIsOver'
<1> USE DEF TypeOK, UntrackedIsOver, rows, entry, trigger, conns, history
<1>1. ASSUME NEW r \in Runs, Start(r) PROVE UntrackedIsOver'
  <2>1. reapPc[r] = "no" BY <1>1 DEF Start, NotStarted
  <2>2. /\ pc' = [pc EXCEPT ![r] = "loop"] /\ status' = [status EXCEPT ![r] = "RUNNING"]
        /\ tracked' = [tracked EXCEPT ![r] = TRUE] /\ reapPc' = reapPc
    BY <1>1 DEF Start
  <2> QED BY <2>1, <2>2
<1>2. ASSUME NEW r \in Runs, NEW w \in Conns, Refused(r, w) \/ Reserve(r, w)
      PROVE UntrackedIsOver'
  BY <1>2 DEF Refused, Reserve, Candidate, Take
<1>3. ASSUME NEW r \in Runs, SendOk(r) \/ SendFail(r) \/ Adjust(r) \/ LoopEnd(r)
      PROVE UntrackedIsOver'
  BY <1>3 DEF SendOk, SendFail, Adjust, LoopEnd
<1>4. ASSUME NEW r \in Runs, Age(r) \/ ReapRow(r) \/ ReapDrop(r) PROVE UntrackedIsOver'
  <2>1. CASE Age(r) BY <2>1, SMTT(20) DEF Age
  <2>2. CASE ReapRow(r) BY <2>2, SMTT(20) DEF ReapRow
  <2>3. CASE ReapDrop(r) BY <2>3, SMTT(20) DEF ReapDrop
  <2> QED BY <1>4, <2>1, <2>2, <2>3
<1>5. ASSUME NEW h \in handlers, HandleFinish(h) PROVE UntrackedIsOver'
  <2>1. h.run \in Runs BY HandlerMoves
  <2>2. status'[h.run] # "RUNNING"
    BY <1>5, <2>1 DEF HandleFinish, Finishes
  <2>3. \A q \in Runs \ {h.run} : status'[q] = status[q] /\ tracked'[q] = tracked[q]
    BY <1>5, <2>1 DEF HandleFinish
  <2>4. pc' = pc /\ reapPc' = reapPc BY <1>5 DEF HandleFinish
  <2> QED BY <2>1, <2>2, <2>3, <2>4
<1>6. CASE ReapScan BY <1>6 DEF ReapScan
<1>7. CASE Restart BY <1>7 DEF Restart
<1>8. ASSUME UNCHANGED <<pc, status, tracked, reapPc>> PROVE UntrackedIsOver'
  BY <1>8
<1> QED
  BY <1>1, <1>2, <1>3, <1>4, <1>5, <1>6, <1>7, <1>8
  DEF Next, TriggerStress, Lose, Report, LateReport, Answer, Connect, Disconnect, Expire, DropResult, HandleBegin,
      Handle, HandleUntil, HandleFailed, HandleCount, HandleDbError, vars

(* The counter of a run that is being closed only goes further down.        *)
LEMMA FinishStep ==
  ASSUME TypeOK, AnswersOfJobs, NotStarted, FinishMeansZero, [Next]_vars
  PROVE  FinishMeansZero'
<1> USE DEF TypeOK, FinishMeansZero, rows, entry, trigger, conns, history
<1>0. \A h \in handlers : h.run \in Runs /\ h.conn \in Conns BY HandlerMoves
<1>1. ASSUME NEW r \in Runs, Start(r) PROVE FinishMeansZero'
  <2>1. \A h \in handlers : h.run # r
    <3>1. \A w \in Conns : job[r][w] = "none" BY <1>1 DEF Start, NotStarted
    <3>2. \A h \in handlers : job[h.run][h.conn] # "none" BY DEF AnswersOfJobs
    <3> HIDE DEF TypeOK
    <3> QED BY <1>0, <3>1, <3>2
  <2>2. handlers' = handlers /\ \A q \in Runs \ {r} : remaining'[q] = remaining[q]
    BY <1>1 DEF Start
  <2> QED BY <1>0, <2>1, <2>2
<1>2. ASSUME NEW r \in Runs, Adjust(r) PROVE FinishMeansZero'
  <2>1. handlers' = handlers /\ \A q \in Runs : remaining'[q] <= remaining[q]
    BY <1>2 DEF Adjust
  <2>2. \A q \in Runs : remaining[q] \in Int /\ remaining'[q] \in Int
    BY <1>2 DEF Adjust
  <2> QED BY <1>0, <2>1, <2>2
<1>3. ASSUME NEW m \in results, HandleBegin(m) PROVE FinishMeansZero'
  BY <1>3 DEF HandleBegin
<1>4. ASSUME NEW h \in handlers, HandleUntil(h) \/ HandleFailed(h) PROVE FinishMeansZero'
  <2>1. remaining' = remaining BY <1>4 DEF HandleUntil, HandleFailed
  <2>2. handlers' \subseteq handlers \/ \E p \in {"failed", "count"} : handlers' = At(h, p)
    BY <1>4 DEF HandleUntil, HandleFailed
  <2>3. ASSUME NEW p \in {"failed", "count"}, handlers' = At(h, p) PROVE FinishMeansZero'
    <3> DEFINE g == [h EXCEPT !.at = p]
    <3>1. g.at = p BY HandlerMoves
    <3>2. handlers' = (handlers \ {h}) \cup {g} BY <2>3 DEF At
    <3> HIDE DEF g
    <3> HIDE DEF TypeOK
    <3> QED BY <2>1, <3>1, <3>2
  <2> QED BY <2>1, <2>2, <2>3
<1>5. ASSUME NEW h \in handlers, HandleCount(h) PROVE FinishMeansZero'
  <2>1. h.run \in Runs /\ remaining[h.run] \in Int BY <1>0
  <2>2. /\ remaining'[h.run] = remaining[h.run] - 1
        /\ \A q \in Runs \ {h.run} : remaining'[q] = remaining[q]
    BY <1>5, <2>1 DEF HandleCount
  <2>3. CASE remaining[h.run] - 1 <= 0
    <3> DEFINE g == [h EXCEPT !.at = "finish"]
    <3>1. g.run = h.run BY HandlerMoves
    <3>2. handlers' = (handlers \ {h}) \cup {g}
      BY <1>5, <2>3 DEF HandleCount, CountsDownToZero, At
    <3> HIDE DEF g
    <3> QED BY <1>0, <2>1, <2>2, <2>3, <3>1, <3>2
  <2>4. CASE ~(remaining[h.run] - 1 <= 0)
    <3>1. handlers' = handlers \ {h}
      BY <1>5, <2>4 DEF HandleCount, CountsDownToZero
    <3>2. \A q \in Runs : remaining[q] \in Int OBVIOUS
    <3> HIDE DEF TypeOK
    <3> QED BY <1>0, <2>1, <2>2, <3>1, <3>2
  <2> QED BY <2>3, <2>4
<1>6. ASSUME NEW h \in handlers, HandleFinish(h) \/ HandleDbError(h) PROVE FinishMeansZero'
  BY <1>6 DEF HandleFinish, HandleDbError
<1>7. CASE Restart BY <1>7 DEF Restart
<1>8. ASSUME UNCHANGED <<remaining, handlers>> PROVE FinishMeansZero' BY <1>8
<1> QED
  BY <1>1, <1>2, <1>3, <1>4, <1>5, <1>6, <1>7, <1>8
  DEF Next, TriggerStress, Refused, Reserve, SendOk, SendFail, LoopEnd, Age, ReapRow,
      ReapDrop, Lose, Report, LateReport, Answer, Connect, Disconnect, Expire, DropResult,
      Handle, ReapScan, vars

(* A failed answer is on its way, or at the handler before the flag, or the *)
(* flag is set; only then does the handler count.                           *)
LEMMA FailureStep ==
  ASSUME TypeOK, CandidatesFresh, AnswersOfJobs, NotStarted, FailureRemembered, [Next]_vars
  PROVE  FailureRemembered'
<1> USE DEF rows, entry, trigger, conns, history
<1>0. /\ \A h \in handlers : h.run \in Runs /\ h.conn \in Conns
      /\ \A m \in results : m.run \in Runs /\ m.conn \in Conns
  BY HandlerMoves, ResultParts DEF TypeOK
<1> DEFINE Known(r, w) ==
             \/ failed[r]
             \/ \E m \in results : m.run = r /\ m.conn = w
             \/ \E h \in handlers : h.run = r /\ h.conn = w /\ h.at \in {"until", "failed"}
           Kept == \A q \in Runs, v \in Conns :
             tracked'[q] /\ job'[q][v] = "failed" =>
               /\ tracked[q] /\ job[q][v] = "failed"
               /\ Known(q, v) => Known(q, v)'
           Recovers == \A q \in Runs, v \in Conns : job'[q][v] = "failed" => job[q][v] = "failed"
<1>1. ASSUME Kept PROVE FailureRemembered' BY <1>1 DEF FailureRemembered
<1>a. ASSUME Recovers, UNCHANGED <<tracked, failed, results, handlers>> PROVE Kept
  BY <1>a
<1>2. ASSUME NEW r \in Runs, Start(r) PROVE Kept
  <2>1. \A w \in Conns : job[r][w] = "none" BY <1>2 DEF Start, NotStarted
  <2>2. /\ \A q \in Runs \ {r} : tracked'[q] = tracked[q]
        /\ UNCHANGED <<job, failed, results, handlers>>
    BY <1>2 DEF Start, TypeOK
  <2> QED BY <2>1, <2>2
<1>3. ASSUME NEW r \in Runs, SendOk(r) PROVE Kept
  <2>1. cur[r] \in Conns BY <1>3 DEF SendOk, CandidatesFresh
  <2>2. Recovers BY <1>3, <2>1 DEF SendOk, TypeOK
  <2> QED BY <1>3, <1>a, <2>2 DEF SendOk
<1>4. ASSUME NEW r \in Runs, LoopEnd(r) \/ ReapDrop(r) PROVE Kept
  BY <1>4 DEF LoopEnd, ReapDrop, TypeOK
<1>5. ASSUME NEW r \in Runs, NEW w \in Conns, Lose(r, w) PROVE Kept
  <2>1. Recovers BY <1>5 DEF Lose, TypeOK
  <2> QED BY <1>5, <1>a, <2>1 DEF Lose
<1>6. ASSUME NEW r \in Runs, NEW w \in Conns, NEW v \in {"passed", "failed"},
             NEW via \in Conns, Answers(r, w, v, via)
      PROVE FailureRemembered'
  <2> DEFINE n == [run |-> r, conn |-> w, via |-> via]
  <2>0. n.run = r /\ n.conn = w OBVIOUS
  <2>1. \A q \in Runs, u \in Conns :
          job'[q][u] = "failed" => (q = r /\ u = w) \/ job[q][u] = "failed"
    BY <1>6 DEF Answers, Answer, TypeOK
  <2>2. results' = results \cup {n} /\ UNCHANGED <<tracked, failed, handlers>>
    BY <1>6 DEF Answers, Answer
  <2> HIDE DEF n
  <2>3. Known(r, w)' BY <2>0, <2>2
  <2>4. \A q \in Runs, u \in Conns : Known(q, u) => Known(q, u)' BY <2>2
  <2> QED BY <2>1, <2>2, <2>3, <2>4 DEF FailureRemembered
<1>7. CASE Sessions
  <2>1. Recovers BY <1>7, JobsOutlived
  <2> QED BY <1>1, <1>7, <1>a, <2>1, SessionsKeep
<1>8. ASSUME NEW m \in results, DropResult(m) PROVE Kept
  <2>1. job'[m.run][m.conn] = "lost" /\ \A q \in Runs, v \in Conns :
          ~(q = m.run /\ v = m.conn) => job'[q][v] = job[q][v]
    BY <1>0, <1>8 DEF DropResult, TypeOK
  <2>2. results' = results \ {m} /\ UNCHANGED <<tracked, failed, handlers>>
    BY <1>8 DEF DropResult
  <2> QED BY <2>1, <2>2
<1>9. ASSUME NEW m \in results, HandleBegin(m) PROVE Kept
  <2> DEFINE g == [run |-> m.run, conn |-> m.conn, via |-> m.via, at |-> "until"]
  <2>1. g.run = m.run /\ g.conn = m.conn /\ g.at = "until" OBVIOUS
  <2>2. /\ results' = results \ {m} /\ handlers' = handlers \cup {g}
        /\ UNCHANGED <<tracked, failed, job>>
    BY <1>9 DEF HandleBegin
  <2> HIDE DEF g
  <2> QED BY <2>1, <2>2
<1>10. ASSUME NEW h \in handlers, HandleUntil(h) PROVE Kept
  <2> DEFINE g == [h EXCEPT !.at = "failed"]
  <2>1. g.run = h.run /\ g.conn = h.conn /\ g.at = "failed"
    BY HandlerMoves DEF TypeOK
  <2>2. handlers' = IF tracked[h.run] THEN (handlers \ {h}) \cup {g} ELSE handlers \ {h}
    BY <1>10 DEF HandleUntil, At
  <2>3. UNCHANGED <<tracked, failed, job, results>> BY <1>10 DEF HandleUntil
  <2> HIDE DEF g
  <2> QED BY <2>1, <2>2, <2>3
<1>11. ASSUME NEW h \in handlers, HandleFailed(h) PROVE Kept
  <2> DEFINE g == [h EXCEPT !.at = "count"]
  <2>1. handlers' = (handlers \ {h}) \cup {g} BY <1>11 DEF HandleFailed, At
  <2>2. /\ failed'[h.run] = (failed[h.run] \/ job[h.run][h.conn] = "failed")
        /\ \A q \in Runs \ {h.run} : failed'[q] = failed[q]
    BY <1>0, <1>11 DEF HandleFailed, TypeOK
  <2>3. UNCHANGED <<tracked, job, results>> BY <1>11 DEF HandleFailed
  <2> HIDE DEF g
  <2> QED BY <1>0, <2>1, <2>2, <2>3
<1>12. ASSUME NEW h \in handlers, HandleCount(h) PROVE Kept
  <2>1. handlers \ {h} \subseteq handlers' /\ h.at = "count"
    BY <1>12 DEF HandleCount, At
  <2> QED BY <1>12, <2>1 DEF HandleCount
<1>13. ASSUME NEW h \in handlers, HandleFinish(h) \/ HandleDbError(h) PROVE Kept
  <2>1. handlers' = handlers \ {h} /\ h.at = "finish" /\ UNCHANGED <<failed, job, results>>
    BY <1>13 DEF HandleFinish, HandleDbError
  <2>2. \A q \in Runs : tracked'[q] => tracked[q]
    BY <1>0, <1>13 DEF HandleFinish, HandleDbError, TypeOK
  <2> QED BY <2>1, <2>2
<1>14. CASE Restart BY <1>14 DEF Restart, FailureRemembered
<1>15. ASSUME UNCHANGED <<tracked, job, failed, results, handlers>> PROVE Kept BY <1>15
<1> QED
  BY <1>1, <1>2, <1>3, <1>4, <1>5, <1>6, <1>7, <1>8, <1>9, <1>10, <1>11, <1>12,
     <1>13, <1>14, <1>15, Steps
  DEF TriggerStress, Refused, Reserve, SendFail, Adjust, Age,
      ReapRow, Expire, Handle, ReapScan, vars

-----------------------------------------------------------------------------
(* The counter.                                                             *)

\* AdjustStressRun is still to be called for the worker that was refused.
Adjusting(r) == IF pc[r] = "adjust" THEN 1 ELSE 0

AnswersFinite == IsFiniteSet(results) /\ IsFiniteSet(handlers)

(* One element more or less counts one more or less.                        *)
LEMMA OneMore ==
  ASSUME NEW S, IsFiniteSet(S), NEW x, x \notin S
  PROVE  /\ Cardinality(S) \in Nat /\ Cardinality(S \cup {x}) = Cardinality(S) + 1
         /\ IsFiniteSet(S \cup {x})
BY FS_AddElement, FS_CardinalityType

(* And one element less.                                                    *)
LEMMA OneLess ==
  ASSUME NEW S, IsFiniteSet(S), NEW x \in S
  PROVE  /\ Cardinality(S) \in Nat /\ Cardinality(S \ {x}) = Cardinality(S) - 1
         /\ IsFiniteSet(S \ {x})
BY FS_RemoveElement, FS_CardinalityType

(* One element for another leaves the count.                                *)
LEMMA OneReplaced ==
  ASSUME NEW S, IsFiniteSet(S), NEW x \in S, NEW y, y \notin S \ {x}
  PROVE  Cardinality((S \ {x}) \cup {y}) = Cardinality(S)
<1>1. /\ Cardinality(S) \in Nat /\ Cardinality(S \ {x}) = Cardinality(S) - 1
      /\ IsFiniteSet(S \ {x})
  BY OneLess
<1>2. Cardinality((S \ {x}) \cup {y}) = Cardinality(S \ {x}) + 1
  BY <1>1, OneMore
<1> QED BY <1>1, <1>2

(* Everything that is counted is finite.                                    *)
LEMMA OwedFinite ==
  ASSUME TypeOK, AnswersFinite, NEW r \in Runs
  PROVE  /\ IsFiniteSet(Owing(r)) /\ Cardinality(Owing(r)) \in Nat
         /\ IsFiniteSet(Pending(r)) /\ Cardinality(Pending(r)) \in Nat
         /\ IsFiniteSet(Uncounted(r)) /\ Cardinality(Uncounted(r)) \in Nat
         /\ remaining[r] \in Int /\ want[r] \in Int /\ sent[r] \in Int /\ refused[r] \in Int
         /\ Adjusting(r) \in {0, 1}
<1>1. IsFiniteSet(Owing(r)) BY FS_Subset, StressRunsAssumption DEF Owing
<1>2. IsFiniteSet(Pending(r)) BY FS_Subset DEF Pending, AnswersFinite
<1>3. IsFiniteSet(Uncounted(r)) BY FS_Subset DEF Uncounted, AnswersFinite
<1>4. want[r] \in Int /\ sent[r] \in Int BY StressRunsAssumption DEF TypeOK
<1>5. remaining[r] \in Int /\ refused[r] \in Int /\ Adjusting(r) \in {0, 1}
  BY DEF TypeOK, Adjusting
<1> QED BY <1>1, <1>2, <1>3, <1>4, <1>5, FS_CardinalityType

(* Answers come and go one at a time.                                       *)
LEMMA FiniteStep == ASSUME AnswersFinite, [Next]_vars PROVE AnswersFinite'
<1> USE DEF AnswersFinite, rows, entry, trigger, conns, history
<1>1. ASSUME NEW r \in Runs, NEW w \in Conns, NEW v \in {"passed", "failed"},
             NEW via \in Conns, Answers(r, w, v, via)
      PROVE AnswersFinite'
  BY <1>1, FS_AddElement DEF Answers, Answer
<1>2. ASSUME NEW m \in results, DropResult(m) PROVE AnswersFinite'
  BY <1>2, FS_RemoveElement DEF DropResult
<1>3. ASSUME NEW m \in results, HandleBegin(m) PROVE AnswersFinite'
  <2>1. IsFiniteSet(results \ {m}) BY FS_RemoveElement
  <2> QED BY <1>3, <2>1, FS_AddElement DEF HandleBegin
<1>4. ASSUME NEW h \in handlers, Handle(h) PROVE AnswersFinite'
  <2>1. IsFiniteSet(handlers \ {h}) BY FS_RemoveElement
  <2>2. \A p \in {"failed", "count", "finish"} : IsFiniteSet(At(h, p))
    BY <2>1, FS_AddElement DEF At
  <2> QED
    BY <1>4, <2>1, <2>2
    DEF Handle, HandleUntil, HandleFailed, HandleCount, HandleFinish, HandleDbError
<1>5. CASE Restart BY <1>5, FS_EmptySet DEF Restart
<1>6. ASSUME UNCHANGED <<results, handlers>> PROVE AnswersFinite' BY <1>6
<1>7. CASE Sessions BY <1>6, <1>7, SessionsKeep
<1> QED
  BY <1>1, <1>2, <1>3, <1>4, <1>5, <1>6, <1>7, Steps
  DEF TriggerStress, Start, Refused, Reserve, SendOk, SendFail, Adjust, LoopEnd,
      Lose, Age, ReapRow, ReapDrop, Expire, ReapScan, vars

\* The counter of the run r agrees.
Agrees(r) ==
  tracked[r] => remaining[r] = Owed(r) + (want[r] - sent[r]) - refused[r] + Adjusting(r)

(* A step that leaves the counter and what it counts alone.                 *)
LEMMA AgreesKept ==
  ASSUME NEW q, Agrees(q), tracked'[q] => tracked[q], remaining'[q] = remaining[q],
         Owing(q)' = Owing(q), Pending(q)' = Pending(q), Uncounted(q)' = Uncounted(q),
         want'[q] = want[q], sent'[q] = sent[q], refused'[q] = refused[q],
         Adjusting(q)' = Adjusting(q)
  PROVE  Agrees(q)'
BY DEF Agrees, Owed

(* A task to be sent is sent, and owed, or refused and taken off.           *)
LEMMA TriggerCounts ==
  ASSUME TypeOK, CandidatesFresh, AnswersOfJobs, NotStarted, AnswersFinite,
         NEW r \in Runs, Start(r) \/ TriggerStress(r),
         \A q \in Runs : Agrees(q), NEW q \in Runs
  PROVE  Agrees(q)'
<1> USE DEF TypeOK, rows, entry, trigger, conns, history
<1> DEFINE F(p) == /\ IsFiniteSet(Owing(p)) /\ Cardinality(Owing(p)) \in Nat
                   /\ IsFiniteSet(Pending(p)) /\ Cardinality(Pending(p)) \in Nat
                   /\ IsFiniteSet(Uncounted(p)) /\ Cardinality(Uncounted(p)) \in Nat
                   /\ remaining[p] \in Int /\ want[p] \in Int /\ sent[p] \in Int
                   /\ refused[p] \in Int /\ Adjusting(p) \in {0, 1}
<1>0. F(q) /\ Agrees(q) BY OwedFinite
<1>1. CASE Start(r)
  <2>1. /\ UNCHANGED <<job, results, handlers, sent, refused>>
        /\ pc' = [pc EXCEPT ![r] = "loop"]
        /\ remaining' = [remaining EXCEPT ![r] = Wanted]
        /\ want' = [want EXCEPT ![r] = Wanted]
        /\ tracked' = [tracked EXCEPT ![r] = TRUE] /\ pc[r] = "idle"
    BY <1>1 DEF Start, Wanted
  <2>2. CASE q # r
    BY <1>0, <2>1, <2>2, AgreesKept DEF Owing, Pending, Uncounted, Adjusting
  <2>3. CASE q = r
    <3>1. (\A w \in Conns : job[r][w] = "none") /\ sent[r] = 0 /\ refused[r] = 0
      BY <2>1 DEF NotStarted
    <3>2. Owing(r)' = {} BY <2>1, <3>1 DEF Owing
    <3>3. Pending(r)' = {}
      <4>1. \A m \in results : m.conn \in Conns /\ job[m.run][m.conn] # "none"
        BY ResultParts DEF AnswersOfJobs
      <4>2. \A m \in results : m.run # r BY <3>1, <4>1
      <4> QED BY <2>1, <4>2 DEF Pending
    <3>4. Uncounted(r)' = {}
      <4>1. \A h \in handlers : h.conn \in Conns /\ job[h.run][h.conn] # "none"
        BY HandlerMoves DEF AnswersOfJobs
      <4> QED BY <2>1, <3>1, <4>1, SMTT(20) DEF Uncounted
    <3>5. Adjusting(r)' = 0 /\ want'[r] = Wanted /\ remaining'[r] = Wanted
      BY <2>1 DEF Adjusting
    <3>6. Owed(r)' = 0 BY <3>2, <3>3, <3>4, FS_EmptySet DEF Owed
    <3> QED BY <2>1, <2>3, <3>1, <3>5, <3>6, WantedBounds DEF Agrees
  <2> QED BY <2>2, <2>3
<1>2. ASSUME NEW w \in Conns, Refused(r, w) \/ Reserve(r, w) PROVE Agrees(q)'
  <2>1. /\ UNCHANGED <<job, results, handlers, tracked, remaining, want, sent>>
        /\ pc[r] = "loop" /\ \A p \in Runs \ {r} : pc'[p] = pc[p] /\ refused'[p] = refused[p]
        /\ \/ pc'[r] = "adjust" /\ refused'[r] = refused[r] + 1
           \/ pc'[r] = "send" /\ refused'[r] = refused[r]
    BY <1>2 DEF Refused, Reserve, Candidate, Take
  <2>2. Owing(q)' = Owing(q) /\ Pending(q)' = Pending(q) /\ Uncounted(q)' = Uncounted(q)
    BY <2>1 DEF Owing, Pending, Uncounted
  <2>3. CASE q # r BY <1>0, <2>1, <2>2, <2>3, AgreesKept DEF Adjusting
  <2>4. CASE q = r
    <3>0. refused[r] \in Int /\ Adjusting(r) = 0 BY <1>0, <2>1, <2>4 DEF Adjusting
    <3>1. \/ Adjusting(r)' = 1 /\ refused'[r] = refused[r] + 1
          \/ Adjusting(r)' = 0 /\ refused'[r] = refused[r]
      BY <2>1 DEF Adjusting
    <3>2. Owed(r)' = Owed(r) /\ Owed(r) \in Int BY <1>0, <2>2, <2>4 DEF Owed
    <3> QED BY <1>0, <2>1, <2>4, <3>0, <3>1, <3>2 DEF Agrees
  <2> QED BY <2>3, <2>4
<1>3. CASE SendOk(r)
  <2>1. cur[r] \in Conns /\ job[r][cur[r]] = "none" /\ pc[r] = "send"
    BY <1>3 DEF SendOk, CandidatesFresh
  <2>2. /\ UNCHANGED <<results, handlers, tracked, remaining, want, refused>>
        /\ pc' = [pc EXCEPT ![r] = "loop"] /\ sent' = [sent EXCEPT ![r] = @ + 1]
        /\ job'[r][cur[r]] \in {"sent", "stale"}
        /\ \A v \in Conns \ {cur[r]} : job'[r][v] = job[r][v]
        /\ \A p \in Runs \ {r} : job'[p] = job[p]
    BY <1>3, <2>1 DEF SendOk
  <2>3. Pending(q)' = Pending(q) /\ Uncounted(q)' = Uncounted(q)
    BY <2>2 DEF Pending, Uncounted
  <2>4. CASE q # r
    <3>1. Owing(q)' = Owing(q) BY <2>2, <2>4 DEF Owing
    <3> QED BY <1>0, <2>2, <2>3, <2>4, <3>1, AgreesKept DEF Adjusting
  <2>5. CASE q = r
    <3>1. Owing(r)' = Owing(r) \cup {cur[r]} /\ cur[r] \notin Owing(r)
      BY <2>1, <2>2 DEF Owing
    <3>2. Cardinality(Owing(r)') = Cardinality(Owing(r)) + 1
      BY <1>0, <2>5, <3>1, OneMore
    <3>3. Adjusting(r)' = 0 /\ Adjusting(r) = 0 /\ sent'[r] = sent[r] + 1
      BY <2>1, <2>2 DEF Adjusting
    <3>4. Owed(r)' = Owed(r) + 1 /\ Owed(r) \in Int
      BY <1>0, <2>2, <2>3, <2>5, <3>2, <3>3 DEF Owed
    <3> QED BY <1>0, <2>2, <2>5, <3>3, <3>4 DEF Agrees
  <2> QED BY <2>4, <2>5
<1>4. CASE SendFail(r)
  <2>1. /\ UNCHANGED <<results, handlers, job, tracked, remaining, want, sent>>
        /\ pc[r] = "send" /\ pc' = [pc EXCEPT ![r] = "adjust"]
        /\ refused' = [refused EXCEPT ![r] = @ + 1]
    BY <1>4 DEF SendFail
  <2>2. Owing(q)' = Owing(q) /\ Pending(q)' = Pending(q) /\ Uncounted(q)' = Uncounted(q)
    BY <2>1 DEF Owing, Pending, Uncounted
  <2>3. CASE q # r BY <1>0, <2>1, <2>2, <2>3, AgreesKept DEF Adjusting
  <2>4. CASE q = r
    <3>1. Adjusting(r)' = 1 /\ Adjusting(r) = 0 /\ refused'[r] = refused[r] + 1
      BY <2>1 DEF Adjusting
    <3>2. Owed(r)' = Owed(r) /\ Owed(r) \in Int BY <1>0, <2>2, <2>4 DEF Owed
    <3> QED BY <1>0, <2>1, <2>4, <3>1, <3>2 DEF Agrees
  <2> QED BY <2>3, <2>4
<1>5. CASE LoopEnd(r)
  <2>1. /\ UNCHANGED <<results, handlers, job, remaining, want, sent, refused>>
        /\ Adjusting(q)' = Adjusting(q) /\ (tracked'[q] => tracked[q])
    BY <1>5 DEF LoopEnd, Adjusting
  <2>2. Owing(q)' = Owing(q) /\ Pending(q)' = Pending(q) /\ Uncounted(q)' = Uncounted(q)
    BY <2>1 DEF Owing, Pending, Uncounted
  <2> QED BY <1>0, <2>1, <2>2, AgreesKept
<1>6. CASE Adjust(r)
  <2>1. /\ UNCHANGED <<results, handlers, job, tracked, want, sent, refused>>
        /\ pc[r] = "adjust" /\ pc' = [pc EXCEPT ![r] = "loop"]
        /\ tracked[r] => remaining'[r] = remaining[r] - 1
        /\ \A p \in Runs \ {r} : remaining'[p] = remaining[p]
    BY <1>6 DEF Adjust
  <2>2. Owing(q)' = Owing(q) /\ Pending(q)' = Pending(q) /\ Uncounted(q)' = Uncounted(q)
    BY <2>1 DEF Owing, Pending, Uncounted
  <2>3. CASE q # r BY <1>0, <2>1, <2>2, <2>3, AgreesKept DEF Adjusting
  <2>4. CASE q = r
    <3>1. Adjusting(r)' = 0 /\ Adjusting(r) = 1 BY <2>1 DEF Adjusting
    <3>2. Owed(r)' = Owed(r) /\ Owed(r) \in Int BY <1>0, <2>2, <2>4 DEF Owed
    <3> QED BY <1>0, <2>1, <2>4, <3>1, <3>2 DEF Agrees
  <2> QED BY <2>3, <2>4
<1> QED BY <1>1, <1>2, <1>3, <1>4, <1>5, <1>6 DEF TriggerStress

\* What the workers, their connections and the handlers leave alone.
TriggerKept(q) == UNCHANGED <<want, sent, refused>> /\ Adjusting(q)' = Adjusting(q)

(* The same of the workers, their connections and the handlers of answers:   *)
(* an answer is owed, on its way, in a handler, and counted, in this order. *)
LEMMA AnswerCounts ==
  ASSUME TypeOK, AnswersOfJobs, AnswersFinite,
         \A q \in Runs : Agrees(q), NEW q \in Runs,
         \/ \E r \in Runs, w \in Conns : Lose(r, w)
         \/ \E r \in Runs, w \in Conns, v \in {"passed", "failed"}, via \in Conns :
              Answers(r, w, v, via)
         \/ Sessions
         \/ \E m \in results : DropResult(m) \/ HandleBegin(m)
         \/ \E h \in handlers : Handle(h)
  PROVE  Agrees(q)'
<1> USE DEF rows, entry, trigger, conns, history
<1> DEFINE F(p) == /\ IsFiniteSet(Owing(p)) /\ Cardinality(Owing(p)) \in Nat
                   /\ IsFiniteSet(Pending(p)) /\ Cardinality(Pending(p)) \in Nat
                   /\ IsFiniteSet(Uncounted(p)) /\ Cardinality(Uncounted(p)) \in Nat
                   /\ remaining[p] \in Int /\ want[p] \in Int /\ sent[p] \in Int
                   /\ refused[p] \in Int /\ Adjusting(p) \in {0, 1}
<1>0. F(q) /\ Agrees(q) BY OwedFinite
<1>a. ASSUME TriggerKept(q), tracked'[q] => tracked[q], remaining'[q] = remaining[q],
             Owing(q)' = Owing(q), Pending(q)' = Pending(q), Uncounted(q)' = Uncounted(q)
      PROVE  Agrees(q)'
  BY <1>0, <1>a, AgreesKept DEF TriggerKept
<1>b. ASSUME TriggerKept(q), tracked'[q] => tracked[q],
             \/ Owed(q)' = Owed(q) /\ remaining'[q] = remaining[q]
             \/ Owed(q)' = Owed(q) - 1 /\ remaining'[q] = remaining[q] - 1
      PROVE  Agrees(q)'
  <2>1. Owed(q) \in Int BY <1>0 DEF Owed
  <2> QED BY <1>0, <1>b, <2>1 DEF TriggerKept, Agrees
<1>1. ASSUME NEW r \in Runs, NEW w \in Conns, Lose(r, w) PROVE Agrees(q)'
  <2>1. UNCHANGED <<results, handlers, tracked, remaining>> /\ TriggerKept(q)
    BY <1>1 DEF Lose, TriggerKept, Adjusting
  <2>2. Owing(q)' = Owing(q) BY <1>1 DEF Lose, Owing, TypeOK
  <2>3. Pending(q)' = Pending(q) /\ Uncounted(q)' = Uncounted(q)
    BY <2>1 DEF Pending, Uncounted
  <2> QED BY <1>a, <2>1, <2>2, <2>3
<1>2. CASE Sessions
  <2>1. UNCHANGED <<results, handlers, tracked, remaining>> /\ TriggerKept(q)
    BY <1>2, SessionsKeep DEF TriggerKept, Adjusting
  <2>2. Owing(q)' = Owing(q)
    <3>1. \A w \in Conns : \/ job'[q][w] = job[q][w]
                           \/ job[q][w] = "sent" /\ job'[q][w] = "stale"
      BY <1>2, JobsOutlived
    <3> QED BY <3>1 DEF Owing
  <2>3. Pending(q)' = Pending(q) /\ Uncounted(q)' = Uncounted(q)
    BY <2>1 DEF Pending, Uncounted
  <2> QED BY <1>a, <2>1, <2>2, <2>3
<1>3. ASSUME NEW r \in Runs, NEW w \in Conns, NEW v \in {"passed", "failed"},
             NEW via \in Conns, Answers(r, w, v, via)
      PROVE Agrees(q)'
  <2> DEFINE n == [run |-> r, conn |-> w, via |-> via]
  <2>1. UNCHANGED <<handlers, tracked, remaining>> /\ results' = results \cup {n}
        /\ TriggerKept(q)
    BY <1>3 DEF Answers, Answer, TriggerKept, Adjusting
  <2>2. /\ job[r][w] \in {"sent", "stale"} /\ job'[r][w] = v
        /\ \A u \in Conns \ {w} : job'[r][u] = job[r][u]
        /\ \A p \in Runs \ {r} : job'[p] = job[p]
    BY <1>3 DEF Answers, Answer, TypeOK
  <2>3. Uncounted(q)' = Uncounted(q) BY <2>1 DEF Uncounted
  <2>4. n.run = r /\ n.conn = w OBVIOUS
  <2>5. n \notin results
    BY <2>2, <2>4 DEF AnswersOfJobs
  <2> HIDE DEF n
  <2>6. CASE q # r
    <3>1. Owing(q)' = Owing(q) BY <2>2, <2>6 DEF Owing
    <3>2. Pending(q)' = Pending(q) BY <2>1, <2>4, <2>6 DEF Pending
    <3> QED BY <1>a, <2>1, <2>3, <3>1, <3>2
  <2>7. CASE q = r
    <3>1. Owing(r)' = Owing(r) \ {w} /\ w \in Owing(r) BY <2>2 DEF Owing
    <3>2. Pending(r)' = Pending(r) \cup {n} /\ n \notin Pending(r)
      BY <2>1, <2>4, <2>5 DEF Pending
    <3>3. Cardinality(Owing(r)') = Cardinality(Owing(r)) - 1
      BY <1>0, <2>7, <3>1, OneLess
    <3>4. Cardinality(Pending(r)') = Cardinality(Pending(r)) + 1
      BY <1>0, <2>7, <3>2, OneMore
    <3>5. Owed(r)' = Owed(r) BY <1>0, <2>1, <2>3, <2>7, <3>3, <3>4 DEF Owed
    <3> QED BY <1>b, <2>1, <2>7, <3>5
  <2> QED BY <2>6, <2>7
<1>4. ASSUME NEW m \in results, DropResult(m) PROVE Agrees(q)'
  <2>1. UNCHANGED <<handlers, tracked, remaining>> /\ results' = results \ {m}
        /\ TriggerKept(q)
    BY <1>4 DEF DropResult, TriggerKept, Adjusting
  <2>2. m.run \in Runs /\ m.conn \in Conns BY ResultParts DEF TypeOK
  <2>3. /\ job[m.run][m.conn] \in {"passed", "failed"} /\ job'[m.run][m.conn] = "lost"
        /\ \A u \in Conns \ {m.conn} : job'[m.run][u] = job[m.run][u]
        /\ \A p \in Runs \ {m.run} : job'[p] = job[p]
    BY <1>4, <2>2 DEF DropResult, TypeOK, AnswersOfJobs
  <2>4. Uncounted(q)' = Uncounted(q) BY <2>1 DEF Uncounted
  <2>5. CASE q # m.run
    <3>1. Owing(q)' = Owing(q) BY <2>3, <2>5 DEF Owing
    <3>2. Pending(q)' = Pending(q) BY <2>1, <2>5 DEF Pending
    <3> QED BY <1>a, <2>1, <2>4, <3>1, <3>2
  <2>6. CASE q = m.run
    <3>1. Owing(q)' = Owing(q) \cup {m.conn} /\ m.conn \notin Owing(q)
      BY <2>2, <2>3, <2>6 DEF Owing
    <3>2. Pending(q)' = Pending(q) \ {m} /\ m \in Pending(q) BY <2>1, <2>6 DEF Pending
    <3>3. Cardinality(Owing(q)') = Cardinality(Owing(q)) + 1
      BY <1>0, <3>1, OneMore
    <3>4. Cardinality(Pending(q)') = Cardinality(Pending(q)) - 1
      BY <1>0, <3>2, OneLess
    <3>5. Owed(q)' = Owed(q) BY <1>0, <2>1, <2>4, <3>3, <3>4 DEF Owed
    <3> QED BY <1>b, <2>1, <3>5
  <2> QED BY <2>5, <2>6
<1>5. ASSUME NEW m \in results, HandleBegin(m) PROVE Agrees(q)'
  <2> DEFINE g == [run |-> m.run, conn |-> m.conn, via |-> m.via, at |-> "until"]
  <2>1. UNCHANGED <<job, tracked, remaining>> /\ results' = results \ {m}
        /\ handlers' = handlers \cup {g} /\ TriggerKept(q)
    BY <1>5 DEF HandleBegin, TriggerKept, Adjusting
  <2>2. /\ g.run = m.run /\ g.conn = m.conn /\ g.at = "until"
        /\ \A h \in handlers : ~(h.run = m.run /\ h.conn = m.conn)
    BY DEF AnswersOfJobs
  <2> HIDE DEF g
  <2>3. Owing(q)' = Owing(q) BY <2>1 DEF Owing
  <2>4. CASE q # m.run
    <3>1. Pending(q)' = Pending(q) /\ Uncounted(q)' = Uncounted(q)
      BY <2>1, <2>2, <2>4 DEF Pending, Uncounted
    <3> QED BY <1>a, <2>1, <2>3, <3>1
  <2>5. CASE q = m.run
    <3>1. Pending(q)' = Pending(q) \ {m} /\ m \in Pending(q) BY <2>1, <2>5 DEF Pending
    <3>2. Uncounted(q)' = Uncounted(q) \cup {g} /\ g \notin Uncounted(q)
      BY <2>1, <2>2, <2>5 DEF Uncounted
    <3>3. Cardinality(Pending(q)') = Cardinality(Pending(q)) - 1
      BY <1>0, <3>1, OneLess
    <3>4. Cardinality(Uncounted(q)') = Cardinality(Uncounted(q)) + 1
      BY <1>0, <3>2, OneMore
    <3>5. Owed(q)' = Owed(q) BY <1>0, <2>1, <2>3, <3>3, <3>4 DEF Owed
    <3> QED BY <1>b, <2>1, <3>5
  <2> QED BY <2>4, <2>5
<1>6. ASSUME NEW h \in handlers, Handle(h) PROVE Agrees(q)'
  <2>0. h.run \in Runs BY HandlerMoves DEF TypeOK
  <2>1. UNCHANGED <<job, results>> /\ TriggerKept(q)
    BY <1>6 DEF Handle, HandleUntil, HandleFailed, HandleCount, HandleFinish, HandleDbError,
                TriggerKept, Adjusting
  <2>2. Owing(q)' = Owing(q) /\ Pending(q)' = Pending(q) BY <2>1 DEF Owing, Pending
  \* The handler of another run.
  <2>3. CASE q # h.run
    <3>1. remaining'[q] = remaining[q] /\ tracked'[q] = tracked[q]
      BY <1>6, <2>0, <2>3
      DEF Handle, HandleUntil, HandleFailed, HandleCount, HandleFinish, HandleDbError, TypeOK
    <3>2. \A p \in {"failed", "count", "finish"} : [h EXCEPT !.at = p].run = h.run
      BY HandlerMoves DEF TypeOK
    <3>3. Uncounted(q)' = Uncounted(q)
      BY <1>6, <2>3, <3>2
      DEF Handle, HandleUntil, HandleFailed, HandleCount, HandleFinish, HandleDbError, At,
          Uncounted
    <3> QED BY <1>a, <2>1, <2>2, <3>1, <3>3
  \* It moves on before the count.
  <2>4. ASSUME q = h.run, NEW p \in {"failed", "count"}, h.at # "finish",
               handlers' = At(h, p), UNCHANGED <<remaining, tracked>>
        PROVE  Agrees(q)'
    <3> DEFINE g == [h EXCEPT !.at = p]
    <3>1. g.run = h.run /\ g.conn = h.conn /\ g.at = p BY HandlerMoves DEF TypeOK
    <3>2. handlers' = (handlers \ {h}) \cup {g} BY <2>4 DEF At
    <3> HIDE DEF g
    <3>3. h \in Uncounted(q) BY <2>4 DEF Uncounted
    <3>4. Uncounted(q)' = (Uncounted(q) \ {h}) \cup {g}
      BY <2>4, <3>1, <3>2 DEF Uncounted
    <3>5. g \notin Uncounted(q) \ {h} BY <3>1 DEF Uncounted, AnswersOfJobs
    <3>6. Cardinality(Uncounted(q)') = Cardinality(Uncounted(q))
      BY <1>0, <3>3, <3>4, <3>5, OneReplaced
    <3>7. Owed(q)' = Owed(q) BY <2>2, <3>6 DEF Owed
    <3> QED BY <1>b, <2>1, <2>4, <3>7
  <2>5. CASE q = h.run /\ HandleUntil(h)
    <3>1. CASE tracked[q]
      BY <2>4, <2>5, <3>1 DEF HandleUntil
    <3>2. CASE ~tracked[q]
      BY <2>5, <3>2 DEF HandleUntil, Agrees
    <3> QED BY <3>1, <3>2
  <2>6. CASE q = h.run /\ HandleFailed(h) BY <2>4, <2>6 DEF HandleFailed
  <2>7. CASE q = h.run /\ HandleCount(h)
    <3>1. /\ h.at = "count" /\ tracked' = tracked
          /\ remaining'[q] = remaining[q] - 1
          /\ handlers' = handlers \ {h} \/ handlers' = At(h, "finish")
      BY <2>0, <2>7 DEF HandleCount, TypeOK
    <3>2. [h EXCEPT !.at = "finish"].at = "finish" BY HandlerMoves DEF TypeOK
    <3>3. h \in Uncounted(q) /\ Uncounted(q)' = Uncounted(q) \ {h}
      BY <2>7, <3>1, <3>2 DEF Uncounted, At
    <3>4. Cardinality(Uncounted(q)') = Cardinality(Uncounted(q)) - 1
      BY <1>0, <3>3, OneLess
    <3>5. Owed(q)' = Owed(q) - 1 BY <1>0, <2>2, <3>4 DEF Owed
    <3> QED BY <1>b, <2>1, <3>1, <3>5
  <2>8. CASE q = h.run /\ HandleFinish(h)
    <3>1. ~tracked'[q] BY <2>0, <2>8 DEF HandleFinish, TypeOK
    <3> QED BY <3>1 DEF Agrees
  <2>9. CASE q = h.run /\ HandleDbError(h)
    <3>1. Uncounted(q)' = Uncounted(q) BY <2>9 DEF HandleDbError, Uncounted
    <3> QED BY <1>a, <2>1, <2>2, <2>9, <3>1 DEF HandleDbError
  <2> QED BY <1>6, <2>3, <2>5, <2>6, <2>7, <2>8, <2>9 DEF Handle
<1> QED BY <1>1, <1>2, <1>3, <1>4, <1>5, <1>6

(* Together, with the steps that stop counting or touch nothing counted.    *)
LEMMA AgreesStep ==
  ASSUME TypeOK, CandidatesFresh, AnswersOfJobs, NotStarted, AnswersFinite,
         \A q \in Runs : Agrees(q), [Next]_vars
  PROVE  \A q \in Runs : Agrees(q)'
<1> SUFFICES ASSUME NEW q \in Runs PROVE Agrees(q)' OBVIOUS
<1> USE DEF rows, entry, trigger, conns, history
<1>1. ASSUME NEW r \in Runs, Start(r) \/ TriggerStress(r) PROVE Agrees(q)'
  BY <1>1, TriggerCounts
<1>2. ASSUME \/ \E r \in Runs, w \in Conns : Lose(r, w)
             \/ \E r \in Runs, w \in Conns, v \in {"passed", "failed"}, via \in Conns :
                  Answers(r, w, v, via)
             \/ Sessions
             \/ \E m \in results : DropResult(m) \/ HandleBegin(m)
             \/ \E h \in handlers : Handle(h)
      PROVE  Agrees(q)'
  BY <1>2, AnswerCounts
<1>3. ASSUME NEW r \in Runs, ReapDrop(r) PROVE Agrees(q)'
  <2>1. UNCHANGED <<job, results, handlers, remaining, want, sent, refused, pc>>
    BY <1>3 DEF ReapDrop
  <2>2. tracked'[q] => tracked[q] BY <1>3 DEF ReapDrop, TypeOK
  <2>3. /\ Owing(q)' = Owing(q) /\ Pending(q)' = Pending(q) /\ Uncounted(q)' = Uncounted(q)
        /\ Adjusting(q)' = Adjusting(q)
    BY <2>1 DEF Owing, Pending, Uncounted, Adjusting
  <2> QED BY <2>1, <2>2, <2>3, AgreesKept
<1>4. CASE Restart BY <1>4 DEF Restart, Agrees
<1>5. ASSUME UNCHANGED <<job, results, handlers, tracked, remaining, want, sent, refused, pc>>
      PROVE  Agrees(q)'
  BY <1>5 DEF Agrees, Owed, Owing, Pending, Uncounted, Adjusting
<1>6. ASSUME \/ \E r \in Runs : Age(r) \/ ReapRow(r)
             \/ \E w \in Conns : Expire(w)
             \/ ReapScan \/ UNCHANGED vars
      PROVE  Agrees(q)'
  BY <1>5, <1>6 DEF Age, ReapRow, Expire, ReapScan, vars
<1> QED BY <1>1, <1>2, <1>3, <1>4, <1>6, Steps, Zenon

-----------------------------------------------------------------------------
(* The invariants.                                                          *)

(* Nothing has started in the initial state.                                *)
LEMMA InitProtocol == Init => Protocol /\ AnswersFinite /\ \A r \in Runs : Agrees(r)
<1> SUFFICES ASSUME Init PROVE Protocol /\ AnswersFinite /\ \A r \in Runs : Agrees(r)
  OBVIOUS
<1> USE StressRunsAssumption DEF Init
<1>1. TypeOK
  <2>1. 0 \in 0 .. WorkerCount /\ 0 \in 0 .. MaxRestarts OBVIOUS
  <2>2. /\ want \in [Runs -> 0..WorkerCount] /\ sent \in [Runs -> 0..WorkerCount]
        /\ restarts \in 0..MaxRestarts
    BY <2>1
  <2>3. job \in [Runs -> [Conns -> Jobs]] BY DEF Jobs
  <2>4. finishes \in [Runs -> Nat] /\ remaining \in [Runs -> Int] /\ refused \in [Runs -> Nat]
    OBVIOUS
  <2>5. link \in [Conns -> {"new", "open", "closed"}] OBVIOUS
  <2> QED BY <2>2, <2>3, <2>4, <2>5 DEF TypeOK
<1>2. HoldersReserve /\ OneHolder BY DEF HoldersReserve, OneHolder, Holder
<1>3. ReservationUsed /\ CandidatesFresh BY DEF ReservationUsed, CandidatesFresh
<1>4. AnswersOfJobs /\ NotStarted BY DEF AnswersOfJobs, NotStarted
<1>5. SentCounted /\ UntrackedIsOver BY DEF SentCounted, UntrackedIsOver
<1>6. FinishMeansZero /\ FailureRemembered BY DEF FinishMeansZero, FailureRemembered
<1>7. NewIsFree /\ StaleIsOver BY DEF NewIsFree, StaleIsOver
<1>8. AnswersFinite BY FS_EmptySet DEF AnswersFinite
<1>9. \A r \in Runs : Agrees(r) BY DEF Agrees
<1> QED BY <1>1, <1>2, <1>3, <1>4, <1>5, <1>6, <1>7, <1>8, <1>9 DEF Protocol

(* Protocol is inductive.                                                   *)
LEMMA Inductive == Spec => [](Protocol /\ AnswersFinite)
<1>1. Init => Protocol /\ AnswersFinite BY InitProtocol
<1>2. Protocol /\ AnswersFinite /\ [Next]_vars => Protocol' /\ AnswersFinite'
  BY TypeStep, HolderStep, ReservationStep, LinkStep, CandidatesStep, AnswersStep,
     NotStartedStep, SentStep, UntrackedStep, FinishStep, FailureStep, FiniteStep
  DEF Protocol
<1> QED BY <1>1, <1>2, PTL DEF Spec

(* The counters agree in every reachable state.                             *)
LEMMA Counting == Spec => [](Protocol /\ AnswersFinite /\ \A r \in Runs : Agrees(r))
<1> DEFINE AllAgree == \A r \in Runs : Agrees(r)
<1>1. Init => AllAgree BY InitProtocol
<1>2. Protocol /\ AnswersFinite /\ AllAgree /\ [Next]_vars => AllAgree'
  BY AgreesStep DEF Protocol
<1> QED BY <1>1, <1>2, Inductive, PTL DEF Spec

-----------------------------------------------------------------------------
(* What holds of the reservations and of the runs' outcomes.                *)

(* The types; in particular no trigger sends to more workers than           *)
(* worker_count.                                                            *)
THEOREM TypeCorrect == Spec => []TypeOK
<1>1. Protocol => TypeOK BY DEF Protocol
<1> QED BY <1>1, Inductive, PTL

(* Two stress runs never drive one connection: while a run is sending on    *)
(* it, at work on it or waiting for its answer to be handled, the           *)
(* connection stays reserved, and the compare-and-swap refuses it to every  *)
(* other run. The one way out is a late answer, of a task that outlived the *)
(* session before: it ends whatever reservation the connection has.         *)
THEOREM WorkersAreExclusive == Spec => []ExclusiveWorker
<1>1. Protocol => ExclusiveWorker BY DEF Protocol, OneHolder, Holder, ExclusiveWorker
<1> QED BY <1>1, Inductive, PTL

(* No reservation of an open connection is left over: whatever made it is   *)
(* still going on, or its task was lost.                                    *)
THEOREM ReservationsHaveHolders == Spec => []ReservationHasHolder
<1>1. Protocol => ReservationHasHolder
  BY DEF Protocol, ReservationUsed, Holder, ReservationHasHolder
<1> QED BY <1>1, Inductive, PTL

(* A run that has ended keeps its outcome, whoever else tries to close it:  *)
(* the answers, the reaper and a restart look at the row, and the trigger,  *)
(* which does not, gives up only a run that no answer can have closed.      *)
THEOREM OutcomesFinal == Spec => OutcomeFinal
<1> DEFINE Final(r) == status[r] \in {"PASSED", "FAILED"} =>
                         status'[r] = status[r] /\ finishes'[r] = finishes[r]
<1>1. ASSUME Protocol, [Next]_vars, NEW q \in Runs PROVE Final(q)
  <2> USE <1>1 DEF Protocol, TypeOK, rows, entry, trigger, conns, history
  <2>1. ASSUME NEW r \in Runs, Start(r) PROVE Final(q)
    <3>1. status[r] = "NONE" BY <2>1 DEF Start, NotStarted
    <3>2. finishes' = finishes /\ \A p \in Runs \ {r} : status'[p] = status[p]
      BY <2>1 DEF Start
    <3> QED BY <3>1, <3>2
  <2>2. ASSUME NEW r \in Runs, LoopEnd(r) PROVE Final(q)
    <3>1. CASE sent[r] = 0
      <4>1. status[r] # "PASSED" BY <3>1 DEF SentCounted
      <4>2. status' = [status EXCEPT ![r] = "FAILED"] /\ finishes' = finishes
        BY <2>2, <3>1 DEF LoopEnd
      <4> QED BY <4>1, <4>2
    <3>2. CASE sent[r] # 0 BY <2>2, <3>2 DEF LoopEnd
    <3> QED BY <3>1, <3>2
  <2>3. ASSUME NEW h \in handlers, HandleFinish(h) PROVE Final(q)
    <3>1. h.run \in Runs BY HandlerMoves
    <3> QED BY <2>3, <3>1 DEF HandleFinish, Finishes
  <2>4. ASSUME NEW r \in Runs, ReapRow(r) PROVE Final(q) BY <2>4 DEF ReapRow
  <2>5. CASE Restart BY <2>5 DEF Restart
  <2>6. ASSUME UNCHANGED <<status, finishes>> PROVE Final(q) BY <2>6
  <2> QED
    BY <2>1, <2>2, <2>3, <2>4, <2>5, <2>6
    DEF Next, TriggerStress, Refused, Reserve, SendOk, SendFail, Adjust, Age, ReapDrop,
        Lose, Report, LateReport, Answer, Connect, Disconnect, Expire, DropResult, HandleBegin,
        Handle, HandleUntil, HandleFailed, HandleCount, HandleDbError, ReapScan, vars
<1>2. Protocol /\ [Next]_vars => \A r \in Runs : Final(r) BY <1>1
<1> QED BY <1>2, Inductive, PTL DEF Spec, OutcomeFinal

-----------------------------------------------------------------------------
(* What holds of the counter, whatever the number of spare workers.         *)

(* The counter of a tracked run is the number of its answers still owed,    *)
(* through tasks that are lost or outlive their session and answers         *)
(* half-way through their handler, and of those still to be sent, less the  *)
(* candidates that refused, whether or not the loop replaces them.          *)
THEOREM CounterIsExact == Spec => []CounterAgrees
<1>1. (\A r \in Runs : Agrees(r)) => CounterAgrees
  BY Zenon DEF Agrees, Adjusting, CounterAgrees
<1> QED BY <1>1, Counting, PTL

(* The handler that closes a run finds no more owed and still to be sent    *)
(* than candidates that refused.                                            *)
LEMMA ClosingFindsExcused ==
  ASSUME Protocol, AnswersFinite, \A r \in Runs : Agrees(r),
         NEW h \in handlers, HandleFinish(h), Finishes(h.run)
  PROVE  /\ h.run \in Runs /\ tracked[h.run]
         /\ Owed(h.run) + (want[h.run] - sent[h.run]) <= refused[h.run]
<1> DEFINE r == h.run
<1>1. r \in Runs BY HandlerMoves DEF Protocol, TypeOK
<1> HIDE DEF r
<1>2. status[r] = "RUNNING" BY DEF Finishes, r
<1>3. pc[r] # "idle" /\ tracked[r]
  BY <1>1, <1>2 DEF Protocol, NotStarted, UntrackedIsOver
<1>4. remaining[r] <= 0 BY DEF HandleFinish, Protocol, FinishMeansZero, r
<1>5. remaining[r] = Owed(r) + (want[r] - sent[r]) - refused[r] + Adjusting(r)
  BY <1>1, <1>3 DEF Agrees
<1>6. /\ Owed(r) \in Int /\ want[r] \in Int /\ sent[r] \in Int /\ refused[r] \in Int
      /\ Adjusting(r) \in {0, 1} /\ remaining[r] \in Int
  BY <1>1, OwedFinite DEF Protocol, Owed
<1>7. Owed(r) + (want[r] - sent[r]) <= refused[r] BY <1>4, <1>5, <1>6
<1> QED BY <1>1, <1>3, <1>7 DEF r

(* Only that handler announces a run or writes PASSED.                      *)
LEMMA ClosedByHandler ==
  ASSUME Protocol, [Next]_vars, NEW r \in Runs,
         finishes'[r] # finishes[r] \/ (status[r] # "PASSED" /\ status'[r] = "PASSED")
  PROVE  \E h \in handlers : /\ HandleFinish(h) /\ h.run = r /\ Finishes(r)
                             /\ (status'[r] = "PASSED" => ~failed[r])
<1> USE DEF Protocol, TypeOK, rows, entry, trigger, conns, history
<1>1. ASSUME NEW h \in handlers, HandleFinish(h)
      PROVE  h.run = r /\ Finishes(r) /\ (status'[r] = "PASSED" => ~failed[r])
  <2>1. h.run \in Runs BY HandlerMoves
  <2> QED BY <1>1, <2>1 DEF HandleFinish, Finishes
<1>2. ~UNCHANGED <<status, finishes>> OBVIOUS
<1>3. \A q \in Runs : ~Start(q) BY DEF Start
<1>4. \A q \in Runs : ~LoopEnd(q) BY DEF LoopEnd
<1>5. \A q \in Runs : ~ReapRow(q) BY DEF ReapRow
<1>6. ~Restart BY DEF Restart
<1>7. \E h \in handlers : HandleFinish(h)
  BY <1>2, <1>3, <1>4, <1>5, <1>6
  DEF Next, TriggerStress, Refused, Reserve, SendOk, SendFail, Adjust, Age, ReapDrop,
      Lose, Report, LateReport, Answer, Connect, Disconnect, Expire, DropResult, HandleBegin,
      Handle, HandleUntil, HandleFailed, HandleCount, HandleDbError, ReapScan, vars
<1> QED BY <1>1, <1>7

(* The answers close a run when all of them are in and no worker is still   *)
(* to be tried, but for one for each candidate that refused; a run no       *)
(* candidate refused is closed by the last of its answers.                  *)
THEOREM RunsCloseWhenAllAnswered == Spec => ClosedWhenAllAnswered
<1> DEFINE AllAgree == \A r \in Runs : Agrees(r)
           Closed(r) == finishes'[r] # finishes[r] =>
                          Owed(r) + (want[r] - sent[r]) <= refused[r]
<1>1. ASSUME Protocol, AnswersFinite, AllAgree, [Next]_vars, NEW r \in Runs,
             finishes'[r] # finishes[r]
      PROVE  Owed(r) + (want[r] - sent[r]) <= refused[r]
  <2>1. PICK h \in handlers : HandleFinish(h) /\ h.run = r /\ Finishes(r)
    BY <1>1, ClosedByHandler
  <2> QED BY <1>1, <2>1, ClosingFindsExcused
<1>2. Protocol /\ AnswersFinite /\ AllAgree /\ [Next]_vars => \A r \in Runs : Closed(r)
  BY <1>1
<1> QED BY <1>2, Counting, PTL DEF Spec, ClosedWhenAllAnswered

(* A failed answer of an open run that the flag does not show is on its way *)
(* or not counted yet, and each is of a connection of its own.              *)
LEMMA UnseenFailures ==
  ASSUME Protocol, AnswersFinite, NEW r \in Runs, tracked[r], ~failed[r]
  PROVE  Cardinality({w \in Conns : job[r][w] = "failed"}) <= Owed(r)
<1> DEFINE F == {w \in Conns : job[r][w] = "failed"}
           U == Pending(r) \cup Uncounted(r)
           f == [w \in F |-> CHOOSE x \in U : x.conn = w]
<1>1. ASSUME NEW w \in F PROVE f[w] \in U /\ f[w].conn = w
  <2>1. \E x \in U : x.conn = w
    <3>1. \/ \E m \in results : m.run = r /\ m.conn = w
          \/ \E h \in handlers : h.run = r /\ h.conn = w /\ h.at \in {"until", "failed"}
      BY DEF Protocol, FailureRemembered
    <3> QED BY <3>1 DEF Pending, Uncounted
  <2> QED BY <2>1
<1>2. /\ IsFiniteSet(Owing(r)) /\ Cardinality(Owing(r)) \in Nat
      /\ IsFiniteSet(Pending(r)) /\ Cardinality(Pending(r)) \in Nat
      /\ IsFiniteSet(Uncounted(r)) /\ Cardinality(Uncounted(r)) \in Nat
  BY OwedFinite DEF Protocol
<1>3. IsFiniteSet(U) /\ Cardinality(U) <= Cardinality(Pending(r)) + Cardinality(Uncounted(r))
  <2>1. Cardinality(Pending(r) \cap Uncounted(r)) \in Nat
    BY <1>2, FS_Intersection, FS_CardinalityType
  <2>2. /\ IsFiniteSet(U)
        /\ Cardinality(U) = Cardinality(Pending(r)) + Cardinality(Uncounted(r))
                              - Cardinality(Pending(r) \cap Uncounted(r))
    BY <1>2, FS_Union
  <2> QED BY <1>2, <2>1, <2>2
<1>4. f \in Injection(F, U)
  <2>1. f \in [F -> U] BY <1>1
  <2>2. \A a, b \in F : f[a] = f[b] => a = b BY <1>1
  <2> HIDE DEF F, U, f
  <2> QED BY <2>1, <2>2, Zenon DEF Injection, IsInjective
<1> HIDE DEF F, U, f
<1>5. IsFiniteSet(F) /\ Cardinality(F) <= Cardinality(U) BY <1>3, <1>4, FS_Injection
<1>6. Cardinality(F) \in Nat /\ Cardinality(U) \in Nat BY <1>3, <1>5, FS_CardinalityType
<1>7. Cardinality(F) <= Owed(r) BY <1>2, <1>3, <1>5, <1>6 DEF Owed
<1> QED BY <1>7 DEF F

(* A run that its answers close as PASSED has no failed answer, but for one *)
(* for each candidate that refused: each failed answer sets the flag before *)
(* it is counted, and no more than those were not counted.                  *)
THEOREM PassedMeansNoFailure == Spec => PassedHasNoFailure
<1> DEFINE AllAgree == \A r \in Runs : Agrees(r)
           Failures(r) == Cardinality({w \in Conns : job[r][w] = "failed"})
           Clean(r) == status[r] # "PASSED" /\ status'[r] = "PASSED" =>
                         Failures(r) <= refused[r]
<1>1. ASSUME Protocol, AnswersFinite, AllAgree, [Next]_vars, NEW r \in Runs,
             status[r] # "PASSED", status'[r] = "PASSED"
      PROVE  Failures(r) <= refused[r]
  <2>1. PICK h \in handlers : HandleFinish(h) /\ h.run = r /\ Finishes(r) /\ ~failed[r]
    BY <1>1, ClosedByHandler
  <2>2. tracked[r] /\ Owed(r) + (want[r] - sent[r]) <= refused[r]
    BY <1>1, <2>1, ClosingFindsExcused
  <2>3. Failures(r) <= Owed(r) BY <1>1, <2>1, <2>2, UnseenFailures
  <2>4. Failures(r) \in Int
    <3>1. IsFiniteSet({w \in Conns : job[r][w] = "failed"})
      BY FS_Subset, StressRunsAssumption
    <3> QED BY <3>1, FS_CardinalityType
  <2>5. /\ Owed(r) \in Int /\ want[r] \in Int /\ sent[r] \in Int /\ refused[r] \in Int
        /\ sent[r] <= want[r]
    BY <1>1, OwedFinite DEF Protocol, Owed, CandidatesFresh
  <2> HIDE DEF Failures
  <2> QED BY <2>2, <2>3, <2>4, <2>5
<1>2. Protocol /\ AnswersFinite /\ AllAgree /\ [Next]_vars => \A r \in Runs : Clean(r)
  BY <1>1
<1> QED BY <1>2, Counting, PTL DEF Spec, PassedHasNoFailure

-----------------------------------------------------------------------------
(* The contract of runs.                                                    *)

\* A trigger that has started has created its row.
RowsStarted == \A r \in Runs : pc[r] # "idle" => status[r] # "NONE"

LEMMA RowsStartedStep ==
  ASSUME TypeOK, RowsStarted, [Next]_vars PROVE RowsStarted'
<1> USE DEF TypeOK, RowsStarted, rows, entry, trigger, conns, history
<1>1. ASSUME NEW r \in Runs,
             \/ Start(r) \/ TriggerStress(r) \/ Age(r) \/ ReapRow(r) \/ ReapDrop(r)
      PROVE RowsStarted'
  <2>1. CASE Start(r) BY <2>1 DEF Start
  <2>2. CASE \E w \in Conns : Refused(r, w) \/ Reserve(r, w)
    BY <2>2 DEF Refused, Reserve, Take, Candidate
  <2>3. CASE SendOk(r) \/ SendFail(r) \/ Adjust(r) BY <2>3 DEF SendOk, SendFail, Adjust
  <2>4. CASE LoopEnd(r) BY <2>4 DEF LoopEnd
  <2>5. CASE Age(r) \/ ReapRow(r) \/ ReapDrop(r) BY <2>5 DEF Age, ReapRow, ReapDrop
  <2> QED BY <1>1, <2>1, <2>2, <2>3, <2>4, <2>5 DEF TriggerStress
<1>2. ASSUME NEW h \in handlers, HandleFinish(h) PROVE RowsStarted'
  <2>1. h.run \in Runs /\ pc' = pc BY <1>2, HandlerMoves DEF HandleFinish
  <2>2. \A r \in Runs : status'[r] = "NONE" => status[r] = "NONE"
    BY <1>2, <2>1 DEF HandleFinish, Finishes
  <2> QED BY <2>1, <2>2
<1>3. ASSUME Restart PROVE RowsStarted'
  BY <1>3 DEF Restart
<1>4. ASSUME UNCHANGED <<pc, status>> PROVE RowsStarted'
  BY <1>4
<1> HIDE DEF RowsStarted
<1> QED
  BY <1>1, <1>2, <1>3, <1>4
  DEF Next, Lose, Report, LateReport, Answer, Connect, Disconnect, Expire, DropResult,
      HandleBegin, Handle, HandleUntil, HandleFailed, HandleCount, HandleDbError, ReapScan, vars

(* Rows that only close, and tasks that are only settled: a step of the     *)
(* contract's Close, or none it sees.                                       *)
TasksSettle ==
  \A r \in Runs, w \in Conns :
    /\ job'[r][w] = "none" <=> job[r][w] = "none"
    /\ Unsettled(r, w)' => Unsettled(r, w)

RowsClose ==
  \A r \in Runs : Phase(r)' # Phase(r) => Phase(r) = "open" /\ Phase(r)' = "closed"

\* Whoever is excused stays so.
ExcusesStay == {r \in Runs : refused[r] > 0} \subseteq {r \in Runs : refused'[r] > 0}

CasesNow == [r \in Runs |-> [w \in Conns |-> TaskPhase(r, w)]]

LEMMA SettlingClosesCases ==
  ASSUME TasksSettle PROVE Contract!ClosesCases
<1>1. \A r \in Runs, w \in Conns :
        /\ TaskPhase(r, w)' \in {"none", "open", "closed"}
        /\ TaskPhase(r, w)' # TaskPhase(r, w) =>
             TaskPhase(r, w) = "open" /\ TaskPhase(r, w)' = "closed"
  BY DEF TasksSettle, TaskPhase
<1>2. CasesNow' \in [Runs -> [Conns -> {"none", "open", "closed"}]]
  BY <1>1 DEF CasesNow
<1>3. \A r \in Runs, w \in Conns : CasesNow'[r][w] # CasesNow[r][w] =>
        CasesNow[r][w] = "open" /\ CasesNow'[r][w] = "closed"
  BY <1>1 DEF CasesNow
<1> QED BY <1>2, <1>3 DEF CasesNow, Contract!ClosesCases, Contract!Phases

LEMMA SettlingIsClose ==
  ASSUME TasksSettle, RowsClose, UNCHANGED finishes, ExcusesStay PROVE Contract!Next
<1>1. [r \in Runs |-> Phase(r)]' \in [Runs -> {"none", "open", "closed"}]
  BY DEF Phase
<1>2. \A r \in Runs : Phase(r)' # Phase(r) => Phase(r) = "open" /\ Phase(r)' = "closed"
  BY DEF RowsClose
<1>3. Contract!Close
  BY <1>1, <1>2, SettlingClosesCases DEF Contract!Close, Contract!Phases
<1> QED BY <1>3 DEF Contract!Next, ExcusesStay

(* A candidate that refused is never forgotten.                             *)
LEMMA ExcusesRemain == ASSUME TypeOK, [Next]_vars PROVE ExcusesStay
<1> USE DEF TypeOK, rows, entry, trigger, conns, history
<1>1. \/ refused' = refused
      \/ \E r \in Runs : refused' = [refused EXCEPT ![r] = @ + 1]
  BY Steps
  DEF TriggerStress, Start, Refused, Reserve, SendOk, SendFail, Adjust, LoopEnd, Lose, Answers,
      Answer, Sessions, Connect, Disconnect, Expire, Age, ReapRow, ReapDrop, DropResult,
      HandleBegin, Handle, HandleUntil, HandleFailed, HandleCount, HandleFinish, HandleDbError,
      ReapScan, Restart, vars
<1>2. \A r \in Runs : refused[r] \in Nat OBVIOUS
<1>3. \A r \in Runs : refused[r] > 0 => refused'[r] > 0 BY <1>1, <1>2
<1> QED BY <1>3 DEF ExcusesStay

(* Every step but a sending settles tasks at most: an answer is owed, under *)
(* way or in a handler one after the other, and never again after that.     *)
LEMMA AllButSendingSettle ==
  ASSUME Protocol, [Next]_vars, \A r \in Runs : ~SendOk(r) PROVE TasksSettle
<1> USE DEF TasksSettle, Unsettled, Protocol, TypeOK, rows, entry, trigger, conns, history
<1>a. ASSUME UNCHANGED <<job, results, handlers>> PROVE TasksSettle
  BY <1>a
<1>1. ASSUME NEW r \in Runs, NEW w \in Conns, Lose(r, w) PROVE TasksSettle
  BY <1>1 DEF Lose
<1>2. ASSUME NEW r \in Runs, NEW w \in Conns, NEW v \in {"passed", "failed"},
             NEW via \in Conns, Answers(r, w, v, via)
      PROVE TasksSettle
  <2> DEFINE n == [run |-> r, conn |-> w, via |-> via]
  <2>1. n.run = r /\ n.conn = w OBVIOUS
  <2>2. /\ job[r][w] \in {"sent", "stale"} /\ job' = [job EXCEPT ![r][w] = v]
        /\ results' = results \cup {n} /\ handlers' = handlers
    BY <1>2 DEF Answers, Answer
  <2> HIDE DEF n
  <2>3. \A q \in Runs, d \in Conns :
          /\ job'[q][d] = IF q = r /\ d = w THEN v ELSE job[q][d]
          /\ (\E m \in results' : m.run = q /\ m.conn = d) =>
               (q = r /\ d = w) \/ \E m \in results : m.run = q /\ m.conn = d
    BY <2>1, <2>2
  <2> SUFFICES ASSUME NEW q \in Runs, NEW d \in Conns
               PROVE  /\ job'[q][d] = "none" <=> job[q][d] = "none"
                      /\ Unsettled(q, d)' => Unsettled(q, d)
    OBVIOUS
  <2>4. CASE q = r /\ d = w BY <2>2, <2>3, <2>4
  <2>5. CASE ~(q = r /\ d = w)
    <3>1. job'[q][d] = job[q][d] BY <2>3, <2>5
    <3> QED BY <2>2, <2>3, <2>5, <3>1
  <2> QED BY <2>4, <2>5
<1>3. CASE Sessions
  <2>1. \A q \in Runs, d \in Conns : \/ job'[q][d] = job[q][d]
                                     \/ job[q][d] = "sent" /\ job'[q][d] = "stale"
    BY <1>3, JobsOutlived
  <2> QED BY <1>3, <2>1, SessionsKeep
<1>4. ASSUME NEW m \in results, DropResult(m) PROVE TasksSettle
  <2>1. m.run \in Runs /\ m.conn \in Conns BY ResultParts
  <2>2. job[m.run][m.conn] \in {"passed", "failed"} BY DEF AnswersOfJobs
  <2>3. \A q \in Runs, d \in Conns :
          job'[q][d] = IF q = m.run /\ d = m.conn THEN "lost" ELSE job[q][d]
    BY <1>4, <2>1 DEF DropResult
  <2> QED BY <1>4, <2>1, <2>2, <2>3 DEF DropResult
<1>5. ASSUME NEW m \in results, HandleBegin(m) PROVE TasksSettle
  <2> DEFINE g == [run |-> m.run, conn |-> m.conn, via |-> m.via, at |-> "until"]
  <2>1. g.run = m.run /\ g.conn = m.conn /\ g.at # "finish" OBVIOUS
  <2>2. job' = job /\ results' = results \ {m} /\ handlers' = handlers \cup {g}
    BY <1>5 DEF HandleBegin
  <2> HIDE DEF g
  <2> QED BY <2>1, <2>2
<1>6. ASSUME NEW h \in handlers, Handle(h) PROVE TasksSettle
  <2>1. job' = job /\ results' = results
    BY <1>6 DEF Handle, HandleUntil, HandleFailed, HandleCount, HandleFinish, HandleDbError
  <2>2. \A k \in handlers' : k.at # "finish" =>
          \E g \in handlers : g.run = k.run /\ g.conn = k.conn /\ g.at # "finish"
    <3>1. handlers' \subseteq handlers \/
            /\ h.at # "finish"
            /\ \E p \in {"failed", "count", "finish"} : handlers' = At(h, p)
      BY <1>6 DEF Handle, HandleUntil, HandleFailed, HandleCount, HandleFinish, HandleDbError
    <3>2. CASE handlers' \subseteq handlers BY <3>2
    <3>3. ASSUME h.at # "finish", NEW p \in {"failed", "count", "finish"},
                 handlers' = At(h, p)
          PROVE  \A k \in handlers' : k.at # "finish" =>
                   \E g \in handlers : g.run = k.run /\ g.conn = k.conn /\ g.at # "finish"
      <4> DEFINE g == [h EXCEPT !.at = p]
      <4>1. g.run = h.run /\ g.conn = h.conn BY HandlerMoves
      <4>2. handlers' = (handlers \ {h}) \cup {g} BY <3>3 DEF At
      <4> HIDE DEF g
      <4> SUFFICES ASSUME NEW k \in handlers', k.at # "finish"
                   PROVE  \E f \in handlers :
                            f.run = k.run /\ f.conn = k.conn /\ f.at # "finish"
        OBVIOUS
      <4>3. CASE k \in handlers BY <4>3
      <4>4. CASE k = g BY <3>3, <4>1, <4>4
      <4> QED BY <4>2, <4>3, <4>4
    <3> QED BY <3>1, <3>2, <3>3
  <2> SUFFICES ASSUME NEW r \in Runs, NEW w \in Conns
               PROVE  /\ job'[r][w] = "none" <=> job[r][w] = "none"
                      /\ Unsettled(r, w)' => Unsettled(r, w)
    OBVIOUS
  <2>3. ASSUME NEW k \in handlers', k.run = r, k.conn = w, k.at # "finish"
        PROVE  \E g \in handlers : g.run = r /\ g.conn = w /\ g.at # "finish"
    BY <2>2, <2>3
  <2> QED BY <2>1, <2>3
<1>7. ASSUME Restart PROVE TasksSettle
  <2>1. \A q \in Runs, d \in Conns : \/ job'[q][d] = job[q][d]
                                     \/ job[q][d] = "sent" /\ job'[q][d] = "stale"
    BY <1>7, JobsOutlived
  <2> QED BY <1>7, <2>1 DEF Restart
<1> HIDE DEF TasksSettle
<1>8. ASSUME NEW r \in Runs, Start(r) \/ TriggerStress(r) \/ Age(r) \/ ReapRow(r) \/ ReapDrop(r)
      PROVE TasksSettle
  BY <1>8, <1>a
  DEF Start, TriggerStress, Refused, Reserve, SendFail, Adjust, LoopEnd, Age, ReapRow, ReapDrop
<1>9. ASSUME NEW w \in Conns, Expire(w) PROVE TasksSettle
  BY <1>9, <1>a DEF Expire
<1>10. ASSUME ReapScan \/ UNCHANGED vars PROVE TasksSettle
  BY <1>10, <1>a DEF ReapScan, vars
<1> QED BY <1>1, <1>2, <1>3, <1>4, <1>5, <1>6, <1>7, <1>8, <1>9, <1>10, Steps

(* Whatever happens to a task, its row only closes.                         *)
LEMMA AllButStartClose ==
  ASSUME Protocol, RowsStarted, [Next]_vars, \A r \in Runs : ~Start(r) PROVE RowsClose
<1> USE DEF RowsClose, Phase, Protocol, TypeOK, rows, entry, trigger, conns, history
<1>1. ASSUME NEW r \in Runs, LoopEnd(r) \/ ReapRow(r) PROVE RowsClose
  BY <1>1 DEF LoopEnd, ReapRow, RowsStarted
<1>2. ASSUME NEW h \in handlers, HandleFinish(h) PROVE RowsClose
  <2>1. h.run \in Runs BY HandlerMoves
  <2>2. \/ status' = status
        \/ /\ status[h.run] = "RUNNING"
           /\ \E v \in {"PASSED", "FAILED"} : status' = [status EXCEPT ![h.run] = v]
    BY <1>2 DEF HandleFinish, Finishes
  <2> QED BY <2>1, <2>2
<1>3. ASSUME Restart PROVE RowsClose
  BY <1>3 DEF Restart
<1>4. ASSUME UNCHANGED status PROVE RowsClose
  BY <1>4
<1> HIDE DEF RowsClose
<1> QED
  BY <1>1, <1>2, <1>3, <1>4
  DEF Next, TriggerStress, Refused, Reserve, SendOk, SendFail, Adjust, Age, ReapDrop, Lose,
      Report, LateReport, Answer, Connect, Disconnect, Expire, DropResult, HandleBegin, Handle,
      HandleUntil, HandleFailed, HandleCount, HandleDbError, ReapScan, vars

(* A run is created by the step that sets up its trigger.                   *)
LEMMA StartCreates ==
  ASSUME Protocol, [Next]_vars, NEW r \in Runs, Start(r) PROVE Contract!Create(r)
<1> USE DEF Protocol, TypeOK, rows, entry, trigger, conns, history
<1>1. status[r] = "NONE" /\ status' = [status EXCEPT ![r] = "RUNNING"]
  BY DEF Start, NotStarted
<1>2. UNCHANGED <<job, results, handlers, finishes>> BY DEF Start
<1>3. [q \in Runs |-> Phase(q)]' = [[q \in Runs |-> Phase(q)] EXCEPT ![r] = "open"]
  BY <1>1 DEF Phase
<1>4. CasesNow' = CasesNow BY <1>2 DEF CasesNow, TaskPhase, Unsettled
<1> QED BY <1>1, <1>2, <1>3, <1>4 DEF Contract!Create, Phase, CasesNow

(* A task is sent to a worker the run has not sent one to.                  *)
LEMMA SendingOpens ==
  ASSUME Protocol, RowsStarted, [Next]_vars, NEW r \in Runs, SendOk(r)
  PROVE  cur[r] \in Conns /\ Contract!OpenCase(r, cur[r])
<1> USE DEF Protocol, TypeOK, rows, entry, trigger, conns, history
<1> DEFINE w == cur[r]
<1>1. /\ w \in Conns /\ job[r][w] = "none" /\ status[r] # "NONE"
      /\ job' = [job EXCEPT ![r][w] = IF Open(w) THEN "sent" ELSE "stale"]
      /\ UNCHANGED <<status, finishes, results, handlers>>
  BY DEF SendOk, CandidatesFresh, RowsStarted
<1> HIDE DEF w
<1>2. \A q \in Runs, d \in Conns :
        TaskPhase(q, d)' = IF q = r /\ d = w THEN "open" ELSE TaskPhase(q, d)
  <2>1. \A q \in Runs, d \in Conns : ~(q = r /\ d = w) => job'[q][d] = job[q][d]
    BY <1>1
  <2>2. job'[r][w] \in {"sent", "stale"} BY <1>1
  <2> QED BY <1>1, <2>1, <2>2 DEF TaskPhase, Unsettled
<1>3. CasesNow' = [CasesNow EXCEPT ![r][w] = "open"]
  <2>1. CasesNow = [q \in Runs |-> [d \in Conns |-> TaskPhase(q, d)]]
    BY DEF CasesNow
  <2>2. CasesNow' = [q \in Runs |->
                      [d \in Conns |-> IF q = r /\ d = w THEN "open" ELSE TaskPhase(q, d)]]
    BY <1>2 DEF CasesNow
  <2>3. [CasesNow[r] EXCEPT ![w] = "open"]
          = [d \in Conns |-> IF d = w THEN "open" ELSE TaskPhase(r, d)]
    BY <1>1, <2>1
  <2>4. CasesNow'[r] = [d \in Conns |-> IF d = w THEN "open" ELSE TaskPhase(r, d)]
    BY <2>2
  <2>5. ASSUME NEW q \in Runs, q # r PROVE CasesNow'[q] = CasesNow[q]
    <3>1. CasesNow[q] = [d \in Conns |-> TaskPhase(q, d)] BY <2>1
    <3>2. CasesNow'[q] = [d \in Conns |-> TaskPhase(q, d)] BY <2>2, <2>5
    <3> QED BY <3>1, <3>2
  <2>6. \A q \in Runs : CasesNow'[q] = [CasesNow EXCEPT ![r] = [CasesNow[r] EXCEPT ![w] = "open"]][q]
    BY <2>1, <2>3, <2>4, <2>5
  <2>7. CasesNow' = [CasesNow EXCEPT ![r] = [CasesNow[r] EXCEPT ![w] = "open"]]
    <3>1. DOMAIN CasesNow' = Runs /\ DOMAIN CasesNow = Runs BY <2>1, <2>2
    <3>2. CasesNow' = [q \in Runs |-> CasesNow'[q]] BY <2>2
    <3> QED BY <2>1, <2>6, <3>1, <3>2
  <2> QED BY <2>7
<1>4. CasesNow[r][w] = "none" BY <1>1 DEF CasesNow, TaskPhase
<1>5. [q \in Runs |-> Phase(q)]' = [q \in Runs |-> Phase(q)]
      /\ [q \in Runs |-> Phase(q)][r] # "none"
  BY <1>1 DEF Phase
<1>6. Contract!OpenCase(r, w)
  BY <1>1, <1>3, <1>4, <1>5 DEF Contract!OpenCase, CasesNow
<1> QED BY <1>1, <1>6 DEF w

LEMMA NoneOfThree ==
  ASSUME NEW a \in Nat, NEW b \in Nat, NEW c \in Nat, a + b + c <= 0
  PROVE  a = 0 /\ b = 0 /\ c = 0
OBVIOUS

(* The handler that closes the run announces it, and finds no task open     *)
(* unless a candidate of the run refused.                                   *)
LEMMA FinishAnnounces ==
  ASSUME Protocol, AnswersFinite, \A q \in Runs : Agrees(q), [Next]_vars,
         NEW h \in handlers, HandleFinish(h), Finishes(h.run)
  PROVE  h.run \in Runs /\ Contract!Announce(h.run)
<1> USE DEF Protocol, TypeOK, rows, entry, trigger, conns, history
<1> DEFINE r == h.run
<1>1. /\ r \in Runs
      /\ refused[r] > 0 \/ (Owing(r) = {} /\ Pending(r) = {} /\ Uncounted(r) = {})
  <2>1. r \in Runs /\ Owed(r) + (want[r] - sent[r]) <= refused[r]
    BY ClosingFindsExcused
  <2> HIDE DEF r
  <2>2. /\ IsFiniteSet(Owing(r)) /\ Cardinality(Owing(r)) \in Nat
        /\ IsFiniteSet(Pending(r)) /\ Cardinality(Pending(r)) \in Nat
        /\ IsFiniteSet(Uncounted(r)) /\ Cardinality(Uncounted(r)) \in Nat
        /\ want[r] \in Int /\ sent[r] \in Int /\ sent[r] <= want[r] /\ refused[r] \in Nat
    BY <2>1, OwedFinite DEF CandidatesFresh
  <2>3. CASE ~(refused[r] > 0)
    <3>0. Cardinality(Owing(r)) + Cardinality(Pending(r)) + Cardinality(Uncounted(r)) <= 0
      BY <2>1, <2>2, <2>3 DEF Owed
    <3>1. /\ Cardinality(Owing(r)) = 0 /\ Cardinality(Pending(r)) = 0
          /\ Cardinality(Uncounted(r)) = 0
      BY <2>2, <3>0, NoneOfThree
    <3> QED BY <2>1, <2>2, <3>1, FS_EmptySet
  <2> QED BY <2>1, <2>3
<1>2. /\ status[r] = "RUNNING" /\ finishes' = [finishes EXCEPT ![r] = @ + 1]
      /\ \E v \in {"PASSED", "FAILED"} : status' = [status EXCEPT ![r] = v]
      /\ job' = job /\ results' = results /\ handlers' = handlers \ {h}
  BY DEF HandleFinish, Finishes
<1> HIDE DEF r
<1>3. [q \in Runs |-> Phase(q)]' = [[q \in Runs |-> Phase(q)] EXCEPT ![r] = "closed"]
  BY <1>1, <1>2 DEF Phase
<1>4. [q \in Runs |-> Phase(q)][r] = "open" BY <1>1, <1>2 DEF Phase
<1>5. TasksSettle
  BY <1>2 DEF TasksSettle, Unsettled
<1>6. refused[r] > 0 \/ \A w \in Conns : ~Unsettled(r, w)
  BY <1>1 DEF Unsettled, Owing, Pending, Uncounted
<1>7. \/ r \in {q \in Runs : refused[q] > 0}
      \/ \A w \in Conns : CasesNow'[r][w] # "open"
  BY <1>1, <1>5, <1>6 DEF TasksSettle, CasesNow, TaskPhase
<1>8. Contract!Announce(r)
  BY <1>2, <1>3, <1>4, <1>5, <1>7, SettlingClosesCases DEF Contract!Announce, CasesNow
<1> QED BY <1>1, <1>8 DEF r

LEMMA ContractStep ==
  ASSUME Protocol, AnswersFinite, \A q \in Runs : Agrees(q), RowsStarted, [Next]_vars
  PROVE  Contract!Next
<1>0. ExcusesStay BY ExcusesRemain DEF Protocol
<1>1. ASSUME NEW r \in Runs, Start(r) PROVE Contract!Next
  BY <1>0, <1>1, StartCreates DEF Contract!Next, ExcusesStay
<1>2. ASSUME NEW r \in Runs, SendOk(r) PROVE Contract!Next
  BY <1>0, <1>2, SendingOpens DEF Contract!Next, ExcusesStay
<1>3. ASSUME NEW h \in handlers, HandleFinish(h), Finishes(h.run) PROVE Contract!Next
  BY <1>0, <1>3, FinishAnnounces DEF Contract!Next, ExcusesStay
<1>4. ASSUME \A r \in Runs : ~Start(r) /\ ~SendOk(r),
             \A h \in handlers : ~(HandleFinish(h) /\ Finishes(h.run))
      PROVE Contract!Next
  <2>1. TasksSettle BY <1>4, AllButSendingSettle
  <2>2. RowsClose BY <1>4, AllButStartClose
  <2>3. \A r \in Runs : finishes'[r] = finishes[r]
    BY <1>4, ClosedByHandler
  <2>4. UNCHANGED finishes
    <3>1. finishes \in [Runs -> Nat] /\ finishes' \in [Runs -> Nat]
      BY TypeStep DEF Protocol, TypeOK
    <3> QED BY <2>3, <3>1
  <2> QED BY <1>0, <2>1, <2>2, <2>4, SettlingIsClose
<1> QED BY <1>1, <1>2, <1>3, <1>4

(* Stress runs keep the contract of test runs: created once, closed once,   *)
(* every task sent and settled once, the end announced at most once and     *)
(* only when every answer has been counted, or a candidate refused the run. *)
THEOREM StressRunsKeepTheContract == Spec => ImplementsContract
<1> DEFINE AllAgree == \A r \in Runs : Agrees(r)
<1>1. Init => RowsStarted /\ Contract!Init
  BY DEF Init, RowsStarted, Contract!Init, Phase, TaskPhase
<1>2. Protocol /\ RowsStarted /\ [Next]_vars => RowsStarted'
  BY RowsStartedStep DEF Protocol
<1>3. Protocol /\ AnswersFinite /\ AllAgree /\ RowsStarted /\ [Next]_vars => Contract!Next
  BY ContractStep
<1> QED BY <1>1, <1>2, <1>3, Counting, PTL DEF Spec, ImplementsContract, Contract!Spec
=============================================================================
