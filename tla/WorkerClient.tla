----------------------------- MODULE WorkerClient -----------------------------
(***************************************************************************)
(* The worker's side of the stream (WorkerClient in client.py): sessions   *)
(* that break and are re-established, the tasks a session brings, the      *)
(* semaphore that bounds how many run, cancellation, and the bounded       *)
(* outbox that heartbeats, progress and results share.                     *)
(*                                                                         *)
(* All of it runs on one asyncio loop, so an action is what happens        *)
(* between two awaits. A task is a coroutine: "created" until the loop     *)
(* first runs it, "queued" for the semaphore, "running", "cleaning" once   *)
(* its cancellation has been thrown into the engine, "emitting" while the  *)
(* shielded emission of its result is scheduled. The loop runs a created   *)
(* coroutine before the stream is read again, so that only the signal      *)
(* handler comes between. The scheduler sends a task id once: the check    *)
(* for duplicates never fires and is left out.                             *)
(***************************************************************************)
EXTENDS Naturals, FiniteSets, Sequences, SequencesExt

CONSTANTS
  Tasks,           (* the tasks the scheduler sends                            *)
  MaxConcurrency,  (* permits of the semaphore                                 *)
  OutboxMax,       (* capacity of the outbox                                   *)
  MaxSessions,     (* bound: sessions in a behaviour                           *)
  NoTask           (* a heartbeat is of no task                                *)

ASSUME WorkerClientAssumption ==
  /\ MaxConcurrency \in Nat \ {0} /\ OutboxMax \in Nat \ {0}
  /\ MaxSessions \in Nat /\ NoTask \notin Tasks

VARIABLES
  session,   (* how many sessions there have been                              *)
  up,        (* the session's stream is open                                   *)
  dead,      (* self._dead                                                     *)
  stop,      (* self._stop is set                                              *)
  task,      (* where the coroutine of a task stands                           *)
  born,      (* the session that brought a task                                *)
  tasks,     (* self.tasks: the tasks that can be cancelled                    *)
  cancel,    (* tasks whose cancel() was called and has not been thrown yet    *)
  sem,       (* free permits                                                   *)
  outbox     (* self.outbox: <<kind, task>>                                    *)

vars == <<session, up, dead, stop, task, born, tasks, cancel, sem, outbox>>

Kinds     == {"heartbeat", "progress", "result"}
Executing == {"running", "cleaning"}

\* The type of every variable; in particular neither the semaphore nor the
\* outbox ever leaves its bounds.
TypeOK ==
  /\ session \in 0 .. MaxSessions
  /\ up \in BOOLEAN /\ dead \in BOOLEAN /\ stop \in BOOLEAN
  /\ task \in [Tasks -> {"none", "created", "queued", "emitting", "done"} \cup Executing]
  /\ born \in [Tasks -> 0 .. MaxSessions]
  /\ tasks \subseteq Tasks /\ cancel \subseteq Tasks
  /\ sem \in 0 .. MaxConcurrency
  /\ outbox \in BoundedSeq(Kinds \X (Tasks \cup {NoTask}), OutboxMax)

Init ==
  /\ session = 0 /\ up = FALSE /\ dead = FALSE /\ stop = FALSE
  /\ task = [t \in Tasks |-> "none"]
  /\ born = [t \in Tasks |-> 0]
  /\ tasks = {} /\ cancel = {}
  /\ sem = MaxConcurrency
  /\ outbox = <<>>

Go(t, to) == task' = [task EXCEPT ![t] = to]

\* The coroutine ends: the finally of _run_one drops it from self.tasks.
End(t) == Go(t, "done") /\ tasks' = tasks \ {t} /\ cancel' = cancel \ {t}

-----------------------------------------------------------------------------
(* The outbox: _emit.                                                       *)

IsHeartbeat(ev) == ev[1] = "heartbeat"

\* A full outbox drops an event, unless it is a heartbeat: that one takes out
\* the oldest event that is not a heartbeat and every heartbeat before it.
Emitted(ev) ==
  IF Len(outbox) < OutboxMax THEN Append(outbox, ev)
  ELSE IF ~IsHeartbeat(ev) THEN outbox
  ELSE LET victims == {i \in 1 .. Len(outbox) : ~IsHeartbeat(outbox[i])}
           last == IF victims = {} THEN Len(outbox)
                   ELSE CHOOSE i \in victims : \A j \in victims : i <= j
       IN Append(SubSeq(outbox, last + 1, Len(outbox)), ev)

-----------------------------------------------------------------------------
(* Sessions: run and _session.                                              *)

\* No coroutine waits for its first step.
Settled == \A t \in Tasks : task[t] # "created"

Connect ==
  /\ ~up /\ ~stop /\ session < MaxSessions
  /\ session' = session + 1 /\ up' = TRUE /\ dead' = FALSE
  /\ UNCHANGED <<stop, task, born, tasks, cancel, sem, outbox>>

LostNoCancel ==
  /\ up /\ Settled
  /\ up' = FALSE /\ dead' = TRUE /\ outbox' = <<>>
  /\ UNCHANGED <<session, stop, task, born, tasks, cancel, sem>>

\* The stream ends: the finally of _session cancels what self.tasks holds and
\* empties the outbox.
Lost ==
  /\ up /\ Settled
  /\ up' = FALSE /\ dead' = TRUE /\ outbox' = <<>>
  /\ cancel' = cancel \cup tasks
  /\ UNCHANGED <<session, stop, task, born, tasks, sem>>

\* SIGTERM: request_stop; closing the channel ends the session (Lost).
RequestStop ==
  /\ ~stop /\ stop' = TRUE
  /\ cancel' = cancel \cup tasks
  /\ UNCHANGED <<session, up, dead, task, born, tasks, sem, outbox>>

-----------------------------------------------------------------------------
(* Commands.                                                                *)

Receive(t) ==
  /\ up /\ Settled /\ task[t] = "none"
  /\ Go(t, "created") /\ born' = [born EXCEPT ![t] = session]
  /\ UNCHANGED <<session, up, dead, stop, tasks, cancel, sem, outbox>>

\* _cancel: pops the task.
CancelTask(t) ==
  /\ up /\ Settled /\ t \in tasks
  /\ tasks' = tasks \ {t} /\ cancel' = cancel \cup {t}
  /\ UNCHANGED <<session, up, dead, stop, task, born, sem, outbox>>

-----------------------------------------------------------------------------
(* A task: _run_one and _run_one_inner.                                     *)

NobodyQueues == \A t \in Tasks : task[t] # "queued"

\* The coroutine's first step: it registers itself and takes a permit at once
\* if there is one and nobody waits for it.
Begin(t) ==
  /\ task[t] = "created"
  /\ tasks' = tasks \cup {t}
  /\ IF sem > 0 /\ NobodyQueues
       THEN Go(t, "running") /\ sem' = sem - 1
       ELSE Go(t, "queued") /\ UNCHANGED sem
  /\ UNCHANGED <<session, up, dead, stop, born, cancel, outbox>>

Acquire(t) ==
  /\ task[t] = "queued" /\ t \notin cancel /\ sem > 0
  /\ Go(t, "running") /\ sem' = sem - 1
  /\ UNCHANGED <<session, up, dead, stop, born, tasks, cancel, outbox>>

\* Cancelled while it waits for the semaphore: it ends without a result.
CancelledQueued(t) ==
  /\ task[t] = "queued" /\ t \in cancel
  /\ End(t)
  /\ UNCHANGED <<session, up, dead, stop, born, sem, outbox>>

\* CancelledError is thrown into the engine, which may await its clean-up; a
\* second cancel() is thrown into the clean-up.
Throw(t) ==
  /\ task[t] \in Executing /\ t \in cancel
  /\ Go(t, "cleaning") /\ cancel' = cancel \ {t}
  /\ UNCHANGED <<session, up, dead, stop, born, tasks, sem, outbox>>

\* After cancel() the coroutine's next step is the exception.
Progress(t) ==
  /\ task[t] = "running" /\ t \notin cancel
  /\ outbox' = Emitted(<<"progress", t>>)
  /\ UNCHANGED <<session, up, dead, stop, task, born, tasks, cancel, sem>>

FinishKeepsPermit(t) ==
  /\ task[t] \in Executing /\ t \notin cancel
  /\ sem' = IF task[t] = "cleaning" THEN sem ELSE sem + 1
  /\ IF dead THEN End(t) ELSE Go(t, "emitting") /\ UNCHANGED <<tasks, cancel>>
  /\ UNCHANGED <<session, up, dead, stop, born, outbox>>

\* The engine returns, fails or ends its clean-up: the permit is returned; a
\* result is emitted only if the session is not dead.
Finish(t) ==
  /\ task[t] \in Executing /\ t \notin cancel
  /\ sem' = sem + 1
  /\ IF dead THEN End(t) ELSE Go(t, "emitting") /\ UNCHANGED <<tasks, cancel>>
  /\ UNCHANGED <<session, up, dead, stop, born, outbox>>

EmitUnshielded(t) ==
  /\ task[t] = "emitting"
  /\ outbox' = IF t \in cancel THEN outbox ELSE Emitted(<<"result", t>>)
  /\ End(t)
  /\ UNCHANGED <<session, up, dead, stop, born, sem>>

\* The emission is shielded: a cancellation does not stop it any more.
Emit(t) ==
  /\ task[t] = "emitting"
  /\ outbox' = Emitted(<<"result", t>>)
  /\ End(t)
  /\ UNCHANGED <<session, up, dead, stop, born, sem>>

-----------------------------------------------------------------------------
(* _heartbeat_loop and _event_stream.                                       *)

Heartbeat ==
  /\ up
  /\ outbox' = Emitted(<<"heartbeat", NoTask>>)
  /\ UNCHANGED <<session, up, dead, stop, task, born, tasks, cancel, sem>>

Deliver ==
  /\ up /\ outbox # <<>>
  /\ outbox' = Tail(outbox)
  /\ UNCHANGED <<session, up, dead, stop, task, born, tasks, cancel, sem>>

Step(t) ==
  \/ Begin(t) \/ Acquire(t) \/ CancelledQueued(t) \/ Throw(t)
  \/ Finish(t) \/ Emit(t)

Next ==
  \/ Connect \/ Lost \/ RequestStop \/ Heartbeat \/ Deliver
  \/ \E t \in Tasks : Receive(t) \/ CancelTask(t) \/ Progress(t) \/ Step(t)

Spec == Init /\ [][Next]_vars

\* The loop runs every coroutine; the engine ends every task (its timeout, or
\* the cancellation, sees to it); the semaphore serves its waiters in order.
\* Nothing is assumed of the network.
Fairness ==
  \A t \in Tasks :
    /\ WF_vars(Begin(t)) /\ SF_vars(Acquire(t)) /\ WF_vars(CancelledQueued(t))
    /\ WF_vars(Throw(t)) /\ WF_vars(Finish(t)) /\ WF_vars(Emit(t))

FairSpec == Spec /\ Fairness

-----------------------------------------------------------------------------
\* The permits that are out are those of the tasks that execute, on every way
\* out of a task, cancellation included; so current_concurrency, which the
\* heartbeat reports, never exceeds max_concurrency.
PermitsAccounted ==
  sem + Cardinality({t \in Tasks : task[t] \in Executing}) = MaxConcurrency

\* What waits for a permit or executes can be cancelled, or is being cancelled:
\* the scheduler's cancel and a shutdown find queued tasks too, and after a
\* disconnect no task goes on without its cancellation on the way.
CancellableOrCancelled ==
  \A t \in Tasks : task[t] \in {"queued", "running"} =>
    t \in cancel \/ (t \in tasks /\ ~dead)

\* A result that was produced in a live session reaches the outbox, whatever
\* cancellation comes at the same moment, unless the outbox is full.
ResultSurvivesCancel ==
  [][\A t \in Tasks : task[t] = "emitting" /\ task'[t] = "done" /\ Len(outbox) < OutboxMax
       => \E i \in DOMAIN outbox' : outbox'[i] = <<"result", t>>]_vars

\* Every task the worker received comes to its end, and what a broken session
\* leaves behind does not block the tasks of the next one.
EveryTaskEnds == \A t \in Tasks : task[t] = "created" ~> task[t] = "done"

\* "After a disconnect the results and progress of the old session must not be
\* sent": what a session sends is of a task it received. The flag _dead is
\* reset by the next session, which a long clean-up outlives.
OldSessionSilent ==
  [][Deliver => Head(outbox)[2] = NoTask \/ born[Head(outbox)[2]] = session]_vars
=============================================================================
