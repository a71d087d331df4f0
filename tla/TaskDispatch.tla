---------------------------- MODULE TaskDispatch ----------------------------
(***************************************************************************)
(* From a run's loop to a worker: Dispatch picks the least loaded worker,  *)
(* reserves it by its load counter, tracks the task, and puts it into the  *)
(* Send channel of the worker's connection; HandleTaskResult untracks it;  *)
(* CancelRun broadcasts a cancel command for every tracked task of a run.  *)
(* Tracking is Dispatcher.taskRuns (task -> run) and Dispatcher.runTasks   *)
(* (run -> set of tasks, behind a pointer): sync.Maps, of which single     *)
(* calls are atomic and sequences of calls are not.                        *)
(*                                                                         *)
(* A worker here is one connection, which leaves or is evicted as in       *)
(* WorkerPool. Capabilities, tenants and stress reservations are left out; *)
(* what a worker does with a task is in WorkerClient, what its result does *)
(* to the rows in RunLifecycle.                                            *)
(***************************************************************************)
EXTENDS Integers, FiniteSets, Sequences, SequencesExt

CONSTANTS
  Tasks,           (* tasks, each dispatched at most once                     *)
  Runs,            (* runs, each with a loop that dispatches its tasks        *)
  RunOf,           (* the run of a task                                       *)
  Cancellable,     (* bound: the runs somebody may cancel                     *)
  Watched,         (* bound: workers that send heartbeats and may be lost     *)
  Workers,         (* connections of workers                                  *)
  MaxConcurrency,  (* what every worker registers as its MaxConcurrency       *)
  Capacity,        (* of a Send channel                                       *)
  NoSet, NoWorker  (* no entry in runTasks; no worker                         *)

ASSUME TaskDispatchAssumption ==
  /\ IsFiniteSet(Tasks) /\ IsFiniteSet(Runs) /\ RunOf \in [Tasks -> Runs]
  /\ Cancellable \subseteq Runs /\ Watched \subseteq Workers
  /\ MaxConcurrency \in Nat \ {0} /\ Capacity \in Nat \ {0}
  /\ NoSet \notin Tasks /\ NoWorker \notin Workers

VARIABLES
  taskRuns,  (* tasks with an entry in taskRuns                               *)
  runTasks,  (* the *runTaskSet of a run, named after the TrackTask call that *)
             (* allocated it                                                  *)
  ids,       (* contents of every runTaskSet                                  *)
  pc,        (* where the goroutine working on a task stands                  *)
  failed,    (* tasks whose dispatch failed: Dispatch itself untracks them    *)
  held,      (* the runTaskSet that goroutine has loaded                      *)
  best,      (* the worker a task's Dispatch has picked                       *)
  reserved,  (* tasks whose Dispatch is between load.Add(1) and load.Add(-1)  *)
  load,      (* Worker.load                                                   *)
  pooled,    (* the workers in Dispatcher.workers                             *)
  closed,    (* those whose closed channel is closed                          *)
  conn,      (* where the goroutine of a connection stands                    *)
  send,      (* Worker.Send: commands                                         *)
  running,   (* tasks at their workers, not answered                          *)
  bcast,     (* CancelRun, per run: the (worker, task) pairs it has to go     *)
             (* through, and whether it was called                            *)
  aimed      (* history: tasks that were sent when CancelRun loaded their set *)
             (* and that no cancel command has reached yet, but for those     *)
             (* whose command was dropped at a full channel                   *)

track == <<taskRuns, runTasks, ids>>
pool  == <<pooled, closed, conn>>
vars  == <<track, pc, failed, held, best, reserved, load, pool, send, running, bcast, aimed>>

Dispatching == {"picked", "reserved", "tracked", "sending"}
Untracking  == {"untrack", "removing", "emptied"}
Command     == [kind : {"task", "cancel"}, task : Tasks]
Loads       == (0 - Cardinality(Runs)) .. (MaxConcurrency + Cardinality(Runs))

\* The type of every variable. taskRuns has an entry for a task from the first
\* step of TrackTask to the first of UntrackTask. SetLoad's Store races with
\* Add(1) and Add(-1) of load, but the drift never exceeds one per loop.
TypeOK ==
  /\ taskRuns = {t \in Tasks : pc[t] \in {"tracked", "sending", "sent", "untrack"}}
  /\ runTasks \in [Runs -> Tasks \cup {NoSet}]
  /\ ids \in [Tasks -> SUBSET Tasks]
  /\ pc \in [Tasks -> {"idle", "sent", "done"} \cup Dispatching \cup Untracking]
  /\ failed \subseteq Tasks
  /\ held \in [Tasks -> Tasks \cup {NoSet}]
  /\ best \in [Tasks -> Workers \cup {NoWorker}]
  /\ reserved \subseteq Tasks
  /\ load \in [Workers -> Loads]
  /\ pooled \subseteq Workers /\ closed \subseteq Workers
  /\ conn \in [Workers -> {"serving", "leaving", "gone"}]
  /\ \A w \in Workers : Len(send[w]) <= Capacity /\ Range(send[w]) \subseteq Command
  /\ running \subseteq Tasks
  /\ \A r \in Runs : bcast[r].todo \subseteq Workers \X Tasks
  /\ aimed \subseteq Tasks

Init ==
  /\ taskRuns = {} /\ runTasks = [r \in Runs |-> NoSet]
  /\ ids = [t \in Tasks |-> {}]
  /\ pc = [t \in Tasks |-> "idle"]
  /\ failed = {}
  /\ held = [t \in Tasks |-> NoSet]
  /\ best = [t \in Tasks |-> NoWorker]
  /\ reserved = {} /\ load = [w \in Workers |-> 0]
  /\ pooled = Workers /\ closed = {} /\ conn = [w \in Workers |-> "serving"]
  /\ send = [w \in Workers |-> <<>>]
  /\ running = {}
  /\ bcast = [r \in Runs |-> [called |-> FALSE, todo |-> {}]]
  /\ aimed = {}

Go(t, to) == pc' = [pc EXCEPT ![t] = to]

\* Dispatch holds the read lock of the pool from its scan to its reservation,
\* CancelRun through its broadcast: who takes the write lock waits.
NotReadLocked ==
  /\ \A t \in Tasks : pc[t] # "picked"
  /\ \A r \in Runs : bcast[r].todo = {}

-----------------------------------------------------------------------------
(* Dispatch, called by a loop with one task in hand.                        *)

LoopFree(r) == \A t \in Tasks : RunOf[t] = r => pc[t] \notin Dispatching /\ t \notin reserved

Eligible == {w \in pooled : load[w] < MaxConcurrency}

\* The scan, under the read lock, which other dispatchers share.
Pick(t, w) ==
  /\ pc[t] = "idle" /\ LoopFree(RunOf[t])
  /\ w \in Eligible /\ \A v \in Eligible : load[w] <= load[v]
  /\ best' = [best EXCEPT ![t] = w]
  /\ Go(t, "picked")
  /\ UNCHANGED <<track, failed, held, reserved, load, pool, send, running, bcast, aimed>>

\* ErrNoWorker: nothing was reserved or tracked.
NoWorkerOnline(t) ==
  /\ pc[t] = "idle" /\ LoopFree(RunOf[t]) /\ Eligible = {}
  /\ Go(t, "done")
  /\ UNCHANGED <<track, failed, held, best, reserved, load, pool, send, running, bcast, aimed>>

\* load.Add(1); the read lock is released.
Reserve(t) ==
  /\ pc[t] = "picked"
  /\ load' = [load EXCEPT ![best[t]] = @ + 1]
  /\ reserved' = reserved \cup {t}
  /\ Go(t, "reserved")
  /\ UNCHANGED <<track, failed, held, best, pool, send, running, bcast, aimed>>

\* TrackTask: taskRuns.Store, which nobody reads before the task is answered,
\* and runTasks.LoadOrStore(run, fresh set);
TrackTask(t) ==
  LET r == RunOf[t] IN
  /\ pc[t] = "reserved"
  /\ taskRuns' = taskRuns \cup {t}
  /\ runTasks' = [runTasks EXCEPT ![r] = IF @ = NoSet THEN t ELSE @]
  /\ held' = [held EXCEPT ![t] = runTasks'[r]]
  /\ Go(t, "tracked")
  /\ UNCHANGED <<ids, failed, best, reserved, load, pool, send, running, bcast, aimed>>

GiveUp(t) == Go(t, "untrack") /\ failed' = failed \cup {t}

AddIdReleases(t) ==
  /\ pc[t] = "tracked"
  /\ ids' = [ids EXCEPT ![held[t]] = @ \cup {t}]
  /\ held' = [held EXCEPT ![t] = NoSet]
  /\ IF best[t] \in closed
       THEN GiveUp(t) /\ load' = [load EXCEPT ![best[t]] = @ - 1]
       ELSE Go(t, "sending") /\ UNCHANGED <<failed, load>>
  /\ UNCHANGED <<taskRuns, runTasks, best, reserved, pool, send, running, bcast, aimed>>

\* then the id, under the mutex of the set; and the first select: a worker that
\* is gone is given up (one that goes before the select is seen by the second).
AddId(t) ==
  /\ pc[t] = "tracked"
  /\ ids' = [ids EXCEPT ![held[t]] = @ \cup {t}]
  /\ held' = [held EXCEPT ![t] = NoSet]
  /\ IF best[t] \in closed THEN GiveUp(t) ELSE Go(t, "sending") /\ UNCHANGED failed
  /\ UNCHANGED <<taskRuns, runTasks, best, reserved, load, pool, send, running, bcast, aimed>>

\* The second select: the task is in the channel; or the worker is gone, or the
\* channel has been full for 5 s, and the task is untracked.
Send(t) ==
  LET w == best[t] IN
  /\ pc[t] = "sending"
  /\ \/ /\ Len(send[w]) < Capacity
        /\ send' = [send EXCEPT ![w] = Append(@, [kind |-> "task", task |-> t])]
        /\ Go(t, "sent") /\ UNCHANGED failed
     \/ /\ w \in closed \/ Len(send[w]) = Capacity
        /\ GiveUp(t) /\ UNCHANGED send
  /\ UNCHANGED <<track, held, best, reserved, load, pool, running, bcast, aimed>>

\* The deferred load.Add(-1); the result may be handled before it.
Release(t) ==
  /\ t \in reserved /\ pc[t] \notin Dispatching
  /\ t \in failed => pc[t] = "done"
  /\ load' = [load EXCEPT ![best[t]] = @ - 1]
  /\ reserved' = reserved \ {t}
  /\ UNCHANGED <<track, pc, failed, held, best, pool, send, running, bcast, aimed>>

-----------------------------------------------------------------------------
(* UntrackTask: the rollback of Dispatch, or deferred by HandleTaskResult.  *)

\* taskRuns.LoadAndDelete, and runTasks.Load.
LoadSet(t) ==
  LET set == runTasks[RunOf[t]] IN
  /\ pc[t] = "untrack"
  /\ taskRuns' = taskRuns \ {t}
  /\ held' = [held EXCEPT ![t] = set]
  /\ Go(t, IF set = NoSet THEN "done" ELSE "removing")
  /\ UNCHANGED <<runTasks, ids, failed, best, reserved, load, pool, send, running, bcast, aimed>>

RemoveIdForgotten(t) ==
  /\ pc[t] = "removing"
  /\ held' = [held EXCEPT ![t] = NoSet]
  /\ Go(t, "done")
  /\ UNCHANGED <<track, failed, best, reserved, load, pool, send, running, bcast, aimed>>

\* Under the set's mutex: remove the id, remember whether the set is empty.
RemoveId(t) ==
  /\ pc[t] = "removing"
  /\ ids' = [ids EXCEPT ![held[t]] = @ \ {t}]
  /\ held' = [held EXCEPT ![t] = NoSet]
  /\ Go(t, IF ids'[held[t]] = {} THEN "emptied" ELSE "done")
  /\ UNCHANGED <<taskRuns, runTasks, failed, best, reserved, load, pool, send, running, bcast, aimed>>

DeleteSetForgotten(t) ==
  /\ pc[t] = "emptied" /\ Go(t, "done")
  /\ UNCHANGED <<track, failed, held, best, reserved, load, pool, send, running, bcast, aimed>>

\* After the mutex: runTasks.Delete(run), whatever the run's set is by now.
DeleteSet(t) ==
  /\ pc[t] = "emptied"
  /\ runTasks' = [runTasks EXCEPT ![RunOf[t]] = NoSet]
  /\ Go(t, "done")
  /\ UNCHANGED <<taskRuns, ids, failed, held, best, reserved, load, pool, send, running, bcast, aimed>>

Untrack(t) == LoadSet(t) \/ RemoveId(t) \/ DeleteSet(t)

-----------------------------------------------------------------------------
(* CancelRun, called at most once: cancelRun's UPDATE lets one call through. *)

\* What CancelRun finds for a run.
Found(r) == IF runTasks[r] = NoSet THEN {} ELSE ids[runTasks[r]]

AudienceBusy == {w \in pooled : load[w] > 0}
\* Every worker of the pool: which one has a task is not recorded.
Audience == pooled

\* The ids of the run's set are copied under its mutex, then the read lock of
\* the pool is taken (who leaves the pool in between might as well have before).
CancelRun(r) ==
  /\ r \in Cancellable /\ ~bcast[r].called
  /\ bcast' = [bcast EXCEPT ![r] = [called |-> TRUE, todo |-> Audience \X Found(r)]]
  /\ aimed' = aimed \cup {t \in Found(r) : pc[t] = "sent"}
  /\ UNCHANGED <<track, pc, failed, held, best, reserved, load, pool, send, running>>

\* A worker whose channel is full is not told.
SendCancel(r, w, t) ==
  /\ <<w, t>> \in bcast[r].todo
  /\ bcast' = [bcast EXCEPT ![r].todo = @ \ {<<w, t>>}]
  /\ IF Len(send[w]) < Capacity
       THEN /\ send' = [send EXCEPT ![w] = Append(@, [kind |-> "cancel", task |-> t])]
            /\ UNCHANGED aimed
       ELSE /\ aimed' = IF best[t] = w THEN aimed \ {t} ELSE aimed
            /\ UNCHANGED send
  /\ UNCHANGED <<track, pc, failed, held, best, reserved, load, pool, running>>

-----------------------------------------------------------------------------
(* A connection and its worker.                                             *)

At(w) == {t \in Tasks : best[t] = w}
Handling(w) == {t \in At(w) : pc[t] \in Untracking} \ failed

\* The pump: commands go down the stream in the order of the channel, or are
\* lost with it. A cancel command finds the task at the worker, or nothing.
Pump(w) ==
  LET cmd == Head(send[w]) IN
  /\ send[w] # <<>> /\ conn[w] # "gone"
  /\ send' = [send EXCEPT ![w] = Tail(@)]
  /\ running' = IF conn[w] = "serving" /\ cmd.kind = "task" THEN running \cup {cmd.task} ELSE running
  /\ aimed' = IF cmd.kind = "cancel" /\ cmd.task \in running \cap At(w)
              THEN aimed \ {cmd.task} ELSE aimed
  /\ UNCHANGED <<track, pc, failed, held, best, reserved, load, pool, bcast>>

\* The worker's result, handled by the goroutine of its connection, one event
\* after the other.
Result(t) ==
  /\ t \in running /\ conn[best[t]] = "serving" /\ Handling(best[t]) = {}
  /\ running' = running \ {t} /\ aimed' = aimed \ {t}
  /\ Go(t, "untrack")
  /\ UNCHANGED <<track, failed, held, best, reserved, load, pool, send, bcast>>

\* SetLoad, for a worker of the pool: what the worker has running, or had when
\* it sent the heartbeat, ahead of which it has sent no result.
Heartbeat(w, n) ==
  /\ w \in Watched /\ n <= Cardinality(running \cap At(w))
  /\ conn[w] = "serving" /\ Handling(w) = {} /\ w \in pooled
  /\ load' = [load EXCEPT ![w] = n]
  /\ UNCHANGED <<track, pc, failed, held, best, reserved, pool, send, running, bcast, aimed>>

\* The stream breaks or the closed channel is seen; Unregister, under the write
\* lock. The worker drops the tasks of a stream it has lost.
Leave(w) ==
  /\ w \in Watched /\ conn[w] = "serving" /\ Handling(w) = {} /\ NotReadLocked
  /\ conn' = [conn EXCEPT ![w] = "leaving"] /\ pooled' = pooled \ {w}
  /\ running' = running \ At(w)
  /\ UNCHANGED <<track, pc, failed, held, best, reserved, load, closed, send, bcast, aimed>>

Shutdown(w) ==
  /\ conn[w] = "leaving"
  /\ conn' = [conn EXCEPT ![w] = "gone"] /\ closed' = closed \cup {w}
  /\ UNCHANGED <<track, pc, failed, held, best, reserved, load, pooled, send, running, bcast, aimed>>

\* ReapStaleWorkers, or Register of a new connection of the same worker.
Evict(w) ==
  /\ w \in Watched \cap pooled /\ NotReadLocked
  /\ pooled' = pooled \ {w} /\ closed' = closed \cup {w}
  /\ UNCHANGED <<track, pc, failed, held, best, reserved, load, conn, send, running, bcast, aimed>>

Dispatch(t) ==
  \/ \E w \in Workers : Pick(t, w)
  \/ NoWorkerOnline(t) \/ Reserve(t)
  \/ TrackTask(t) \/ AddId(t)
  \/ Send(t) \/ Release(t)

Next ==
  \/ \E t \in Tasks : Dispatch(t) \/ Untrack(t) \/ Result(t)
  \/ \E r \in Runs : CancelRun(r) \/ \E w \in Workers, t \in Tasks : SendCancel(r, w, t)
  \/ \E w \in Workers : Pump(w) \/ Leave(w) \/ Shutdown(w) \/ Evict(w)
  \/ \E w \in Workers, n \in 0 .. MaxConcurrency : Heartbeat(w, n)

Spec == Init /\ [][Next]_vars

-----------------------------------------------------------------------------
(* What dispatch and tracking guarantee.                                    *)

\* When every task of a run that was dispatched has been answered or rolled
\* back, the run has no entry left in runTasks, in any interleaving of the loop
\* and the handlers: no leak.
NothingLeft ==
  \A r \in Runs :
    (\A t \in Tasks : RunOf[t] = r => pc[t] \in {"idle", "done"}) => runTasks[r] = NoSet

\* CancelRun never cancels a task that has been handled: what it finds is still
\* in the hands of Dispatch, of a worker, or of its result's handler.
CancelsOnlyUnfinished ==
  \A r \in Runs, t \in Tasks :
    t \in Found(r) => RunOf[t] = r /\ pc[t] \notin {"idle", "done"}

\* The cancel command of a task that CancelRun found sent overtakes nothing and
\* goes nowhere else: unless it is dropped at a full channel or the worker
\* leaves the pool, the task is stopped, or the command is still to be put, or
\* is behind the task in the channel of its worker.
CancelFollowsTask ==
  \A t \in aimed :
    LET w == best[t] IN
    w \in pooled =>
      \/ <<w, t>> \in bcast[RunOf[t]].todo
      \/ \E i \in 1 .. Len(send[w]) :
           /\ send[w][i] = [kind |-> "cancel", task |-> t]
           /\ \A j \in 1 .. Len(send[w]) :
                send[w][j] = [kind |-> "task", task |-> t] => j < i

-----------------------------------------------------------------------------
(* What comments of the code promise and the code does not keep.            *)

\* Dispatch: "reserve inside the lock ... so that several tasks do not pick the
\* same worker and exceed MaxConcurrency". The lock is shared.
ReservationsWithinMax ==
  \A w \in Workers : Cardinality({t \in reserved : best[t] = w}) <= MaxConcurrency

\* CancelRun: "broadcast ... the tasks of the run that have not been answered".
\* A handler that found the set empty deletes the entry after the loop has put
\* the next task into it.
ReachesAllSent == \A t \in Tasks : pc[t] = "sent" => t \in Found(RunOf[t])

\* The same words: the task is tracked, then the cancel command is put, then the
\* task, which is behind its own cancellation in the channel.
CancelNeverOvertakes ==
  \A w \in Workers : \A i, j \in 1 .. Len(send[w]) :
    /\ send[w][i].task = send[w][j].task
    /\ send[w][i].kind = "cancel" /\ send[w][j].kind = "task" => j < i

\* UntrackTask: "after a result, a failed dispatch, or a cancellation". A task
\* whose worker is gone is answered by nobody and stays tracked.
LostAreUntracked ==
  \A t \in Tasks : pc[t] = "sent" => conn[best[t]] # "gone" \/ ~bcast[RunOf[t]].called
=============================================================================
