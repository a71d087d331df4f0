-------------------------- MODULE WorkerClientProofs --------------------------
(***************************************************************************)
(* For any tasks, permits, outbox capacity and number of sessions: the      *)
(* semaphore and the outbox stay in their bounds, every permit that is out  *)
(* is held by a task that executes, a task that waits or runs can be        *)
(* cancelled or is being cancelled, and a cancellation never swallows a     *)
(* result that was produced in a live session.                             *)
(***************************************************************************)
EXTENDS WorkerClient, FiniteSetTheorems, SequenceTheorems,
        WellFoundedInduction, TLAPS

Holders == {t \in Tasks : task[t] \in Executing}

\* What an open session means for the coroutines: it is not dead, and a
\* coroutine that waits for its first step belongs to it.
SessionLive ==
  /\ up => ~dead
  /\ \A t \in Tasks : task[t] = "created" => up

\* The tasks need not be finitely many; those that execute are.
PermitsCounted == IsFiniteSet(Holders) /\ PermitsAccounted

\* The types but for the semaphore's, which is a matter of the count.
TypeButSem ==
  /\ session \in 0 .. MaxSessions
  /\ up \in BOOLEAN /\ dead \in BOOLEAN /\ stop \in BOOLEAN
  /\ task \in [Tasks -> {"none", "created", "queued", "emitting", "done"} \cup Executing]
  /\ born \in [Tasks -> 0 .. MaxSessions]
  /\ tasks \subseteq Tasks /\ cancel \subseteq Tasks
  /\ outbox \in BoundedSeq(Kinds \X (Tasks \cup {NoTask}), OutboxMax)
  /\ sem \in Nat

-----------------------------------------------------------------------------
(* The outbox.                                                              *)

(* A bounded sequence is a sequence that is not too long.                   *)
LEMMA BoundedSeqIsSeq ==
  ASSUME NEW S, NEW n \in Nat
  PROVE  \A s : s \in BoundedSeq(S, n) <=> s \in Seq(S) /\ Len(s) <= n
<1>1. ASSUME NEW s \in BoundedSeq(S, n) PROVE s \in Seq(S) /\ Len(s) <= n
  <2>1. PICK m \in 0 .. n : s \in [1 .. m -> S] BY <1>1 DEF BoundedSeq, SeqOf
  <2> QED BY <2>1
<1>2. ASSUME NEW s \in Seq(S), Len(s) <= n PROVE s \in BoundedSeq(S, n)
  <2>1. Len(s) \in 0 .. n /\ s \in [1 .. Len(s) -> S] BY <1>2, LenProperties
  <2> QED BY <2>1 DEF BoundedSeq, SeqOf
<1> QED BY <1>1, <1>2

(* A set of naturals has a least element.                                  *)
LEMMA LeastNatural ==
  ASSUME NEW T \in SUBSET Nat, T # {}
  PROVE  \E i \in T : \A j \in T : i <= j
<1>1. \E i \in T : \A j \in T : ~(<<j, i>> \in OpToRel(<, Nat))
  BY NatLessThanWellFounded, WFMin
<1>2. \E i \in T : \A j \in T : ~(j < i) BY <1>1, Zenon DEF OpToRel
<1> QED BY <1>2

(* _emit never overfills the outbox: a full one drops the event or, for a   *)
(* heartbeat, at least the oldest event.                                    *)
LEMMA EmittedBounded ==
  ASSUME NEW S, NEW ev \in S, outbox \in BoundedSeq(S, OutboxMax)
  PROVE  Emitted(ev) \in BoundedSeq(S, OutboxMax)
<1> USE WorkerClientAssumption
<1>0. OutboxMax \in Nat OBVIOUS
<1>1. outbox \in Seq(S) /\ Len(outbox) <= OutboxMax BY BoundedSeqIsSeq
<1>2. Len(outbox) \in Nat BY <1>1, LenProperties
<1>3. CASE Len(outbox) < OutboxMax
  <2>1. Append(outbox, ev) \in Seq(S) /\ Len(Append(outbox, ev)) = Len(outbox) + 1
    BY <1>1, AppendProperties
  <2>2. Len(Append(outbox, ev)) <= OutboxMax BY <1>2, <1>3, <2>1
  <2>3. Emitted(ev) = Append(outbox, ev) BY <1>3 DEF Emitted
  <2> QED BY <2>1, <2>2, <2>3, <1>0, BoundedSeqIsSeq, Zenon
<1>4. CASE ~(Len(outbox) < OutboxMax) /\ ~IsHeartbeat(ev)
  BY <1>4 DEF Emitted
<1>5. CASE ~(Len(outbox) < OutboxMax) /\ IsHeartbeat(ev)
  <2> DEFINE victims == {i \in 1 .. Len(outbox) : ~IsHeartbeat(outbox[i])}
             last == IF victims = {} THEN Len(outbox)
                     ELSE CHOOSE i \in victims : \A j \in victims : i <= j
             rest == SubSeq(outbox, last + 1, Len(outbox))
  <2>1. last \in 1 .. Len(outbox)
    <3>1. CASE victims = {} BY <1>1, <1>2, <1>5, <3>1
    <3>2. CASE victims # {}
      <4>1. \E i \in victims : \A j \in victims : i <= j
        <5>1. victims \in SUBSET Nat OBVIOUS
        <5> HIDE DEF victims
        <5> QED BY <3>2, <5>1, LeastNatural
      <4>2. last \in victims BY <3>2, <4>1
      <4> QED BY <4>2
    <3> QED BY <3>1, <3>2
  <2>2. rest \in Seq(S) /\ Len(rest) <= OutboxMax - 1
    <3> HIDE DEF last
    <3>1. \A i \in last + 1 .. Len(outbox) : outbox[i] \in S
      BY <1>1, <1>2, <2>1, ElementOfSeq
    <3>2. /\ rest \in Seq(S)
          /\ Len(rest) = IF last + 1 <= Len(outbox) THEN Len(outbox) - (last + 1) + 1 ELSE 0
      BY <1>2, <2>1, <3>1, SubSeqProperties
    <3> QED BY <1>1, <1>2, <2>1, <3>2
  <2>3. Emitted(ev) = Append(rest, ev) BY <1>5 DEF Emitted
  <2>4. Append(rest, ev) \in Seq(S) /\ Len(Append(rest, ev)) = Len(rest) + 1
    <3> HIDE DEF rest
    <3> QED BY <2>2, AppendProperties
  <2>5. Len(rest) \in Nat BY <2>2, LenProperties
  <2> HIDE DEF rest
  <2>6. Len(Append(rest, ev)) <= OutboxMax BY <2>2, <2>4, <2>5
  <2> QED BY <2>3, <2>4, <2>6, <1>0, BoundedSeqIsSeq, Zenon
<1> QED BY <1>3, <1>4, <1>5

(* Reading the outbox leaves it bounded.                                    *)
LEMMA TailBounded ==
  ASSUME NEW S, outbox \in BoundedSeq(S, OutboxMax), outbox # <<>>
  PROVE  Tail(outbox) \in BoundedSeq(S, OutboxMax)
<1> USE WorkerClientAssumption
<1>1. outbox \in Seq(S) /\ Len(outbox) <= OutboxMax BY BoundedSeqIsSeq
<1>2. Len(outbox) \in Nat BY <1>1, LenProperties
<1>3. Tail(outbox) \in Seq(S) /\ Len(Tail(outbox)) = Len(outbox) - 1
  BY <1>1, HeadTailProperties
<1>4. Len(Tail(outbox)) <= OutboxMax BY <1>1, <1>2, <1>3
<1>5. OutboxMax \in Nat OBVIOUS
<1> QED BY <1>3, <1>4, <1>5, BoundedSeqIsSeq, Zenon
-----------------------------------------------------------------------------
(* Sessions and cancellation.                                               *)

(* The stream is read only when every coroutine has had its first step, so  *)
(* no coroutine begins after its session ended.                             *)
LEMMA SessionStep == ASSUME TypeButSem, SessionLive, [Next]_vars PROVE SessionLive'
<1> USE WorkerClientAssumption DEF TypeButSem, SessionLive, Go
<1>1. CASE Connect BY <1>1 DEF Connect
<1>2. CASE Lost BY <1>2 DEF Lost, Settled
<1>3. CASE RequestStop \/ Heartbeat \/ Deliver
  BY <1>3 DEF RequestStop, Heartbeat, Deliver
<1>4. ASSUME NEW t \in Tasks, Receive(t) PROVE SessionLive'
  BY <1>4 DEF Receive
<1>5. ASSUME NEW t \in Tasks, CancelTask(t) \/ Progress(t) PROVE SessionLive'
  BY <1>5 DEF CancelTask, Progress
<1>6. ASSUME NEW t \in Tasks, Step(t) PROVE SessionLive'
  BY <1>6 DEF Step, Begin, Acquire, CancelledQueued, Throw, Finish, Emit, End
<1>7. CASE UNCHANGED vars BY <1>7 DEF vars
<1> QED BY <1>1, <1>2, <1>3, <1>4, <1>5, <1>6, <1>7 DEF Next

(* Whoever takes a task out of self.tasks cancels it, or ends it; a task    *)
(* registers itself in its first step, which a session still sees.          *)
LEMMA CancellableStep ==
  ASSUME TypeButSem, SessionLive, CancellableOrCancelled, [Next]_vars
  PROVE  CancellableOrCancelled'
<1> USE WorkerClientAssumption
    DEF TypeButSem, SessionLive, CancellableOrCancelled, Go, Executing
<1>1. CASE Connect BY <1>1 DEF Connect
<1>2. CASE Lost BY <1>2 DEF Lost
<1>3. CASE RequestStop \/ Heartbeat \/ Deliver
  BY <1>3 DEF RequestStop, Heartbeat, Deliver
<1>4. ASSUME NEW t \in Tasks, Receive(t) PROVE CancellableOrCancelled'
  BY <1>4 DEF Receive
<1>5. ASSUME NEW t \in Tasks, CancelTask(t) \/ Progress(t)
      PROVE CancellableOrCancelled'
  BY <1>5 DEF CancelTask, Progress
<1>6. ASSUME NEW t \in Tasks, Begin(t) PROVE CancellableOrCancelled'
  BY <1>6 DEF Begin
<1>7. ASSUME NEW t \in Tasks, Acquire(t) \/ CancelledQueued(t) \/ Throw(t)
      PROVE CancellableOrCancelled'
  BY <1>7 DEF Acquire, CancelledQueued, Throw, End
<1>8. ASSUME NEW t \in Tasks, Finish(t) \/ Emit(t) PROVE CancellableOrCancelled'
  BY <1>8 DEF Finish, Emit, End
<1>9. CASE UNCHANGED vars BY <1>9 DEF vars
<1> QED
  BY <1>1, <1>2, <1>3, <1>4, <1>5, <1>6, <1>7, <1>8, <1>9 DEF Next, Step

-----------------------------------------------------------------------------
(* The permits.                                                             *)

(* A task that starts to execute takes one permit.                          *)
LEMMA PermitTaken ==
  ASSUME NEW t \in Tasks, TypeButSem, PermitsCounted,
         task[t] \notin Executing, Go(t, "running"), sem > 0, sem' = sem - 1
  PROVE  PermitsCounted' /\ sem' \in Nat
<1>1. Holders' = Holders \cup {t} BY DEF Holders, TypeButSem, Go, Executing
<1>2. t \notin Holders BY DEF Holders
<1>3. /\ IsFiniteSet(Holders \cup {t})
      /\ Cardinality(Holders \cup {t}) = Cardinality(Holders) + 1
  BY <1>2, FS_AddElement DEF PermitsCounted
<1>4. Cardinality(Holders) \in Nat BY FS_CardinalityType DEF PermitsCounted
<1>5. sem + Cardinality(Holders) = MaxConcurrency
  BY DEF PermitsCounted, PermitsAccounted, Holders
<1>6. sem' + Cardinality(Holders') = MaxConcurrency /\ sem' \in Nat
  BY <1>1, <1>3, <1>4, <1>5 DEF TypeButSem
<1> QED BY <1>1, <1>3, <1>6 DEF PermitsCounted, PermitsAccounted, Holders

(* A task that stops executing returns one.                                 *)
LEMMA PermitReturned ==
  ASSUME NEW t \in Tasks, NEW to, TypeButSem, PermitsCounted,
         task[t] \in Executing, to \notin Executing, Go(t, to), sem' = sem + 1
  PROVE  PermitsCounted' /\ sem' \in Nat
<1>1. Holders' = Holders \ {t} BY DEF Holders, TypeButSem, Go
<1>2. t \in Holders BY DEF Holders
<1>3. /\ IsFiniteSet(Holders \ {t})
      /\ Cardinality(Holders \ {t}) = Cardinality(Holders) - 1
  BY <1>2, FS_RemoveElement DEF PermitsCounted
<1>4. Cardinality(Holders) \in Nat BY FS_CardinalityType DEF PermitsCounted
<1>5. sem + Cardinality(Holders) = MaxConcurrency
  BY DEF PermitsCounted, PermitsAccounted, Holders
<1>6. sem' + Cardinality(Holders') = MaxConcurrency /\ sem' \in Nat
  BY <1>1, <1>3, <1>4, <1>5 DEF TypeButSem
<1> QED BY <1>1, <1>3, <1>6 DEF PermitsCounted, PermitsAccounted, Holders

(* Every other step leaves the permits and their holders as they are.       *)
LEMMA PermitsKept ==
  ASSUME PermitsCounted, TypeButSem, UNCHANGED sem, Holders' = Holders
  PROVE  PermitsCounted' /\ sem' \in Nat
BY DEF PermitsCounted, PermitsAccounted, Holders, TypeButSem

(* Every way into and out of a task keeps the account.                      *)
LEMMA PermitsStep ==
  ASSUME TypeButSem, PermitsCounted, [Next]_vars
  PROVE  PermitsCounted' /\ sem' \in Nat
<1> DEFINE Goal == PermitsCounted' /\ sem' \in Nat
<1> USE WorkerClientAssumption
<1>1. ASSUME UNCHANGED <<task, sem>> PROVE Goal
  <2>1. Holders' = Holders BY <1>1 DEF Holders
  <2> QED BY <1>1, <2>1, PermitsKept
<1>2. ASSUME NEW t \in Tasks, Receive(t) PROVE Goal
  <2>1. Holders' = Holders BY <1>2 DEF Holders, Receive, Go, TypeButSem, Executing
  <2> QED BY <1>2, <2>1, PermitsKept DEF Receive
<1>3. ASSUME NEW t \in Tasks, Begin(t) PROVE Goal
  <2>1. CASE sem > 0 /\ NobodyQueues
    <3>1. task[t] \notin Executing /\ Go(t, "running") /\ sem' = sem - 1
      BY <1>3, <2>1 DEF Begin, Executing
    <3> QED BY <2>1, <3>1, PermitTaken
  <2>2. CASE ~(sem > 0 /\ NobodyQueues)
    <3>1. task[t] = "created" /\ Go(t, "queued") /\ UNCHANGED sem
      BY <1>3, <2>2 DEF Begin
    <3>2. Holders' = Holders BY <3>1 DEF Holders, Go, TypeButSem, Executing
    <3> QED BY <3>1, <3>2, PermitsKept
  <2> QED BY <2>1, <2>2
<1>4. ASSUME NEW t \in Tasks, Acquire(t) PROVE Goal
  <2>1. task[t] \notin Executing /\ Go(t, "running") /\ sem' = sem - 1 /\ sem > 0
    BY <1>4 DEF Acquire, Executing
  <2> QED BY <2>1, PermitTaken
<1>5. ASSUME NEW t \in Tasks, CancelledQueued(t) \/ Throw(t) \/ Emit(t) PROVE Goal
  <2>1. Holders' = Holders
    BY <1>5
    DEF Holders, CancelledQueued, Throw, Emit, End, Go, TypeButSem, Executing
  <2> QED BY <1>5, <2>1, PermitsKept DEF CancelledQueued, Throw, Emit
<1>6. ASSUME NEW t \in Tasks, Finish(t) PROVE Goal
  <2>1. PICK to \in {"done", "emitting"} : Go(t, to)
    BY <1>6 DEF Finish, End
  <2>2. to \notin Executing BY DEF Executing
  <2>3. task[t] \in Executing /\ sem' = sem + 1 BY <1>6 DEF Finish
  <2> QED BY <2>1, <2>2, <2>3, PermitReturned
<1> QED
  BY <1>1, <1>2, <1>3, <1>4, <1>5, <1>6
  DEF Next, Step, Connect, Lost, RequestStop, Heartbeat, Deliver, CancelTask,
      Progress, vars

-----------------------------------------------------------------------------
(* The types.                                                               *)

(* Every step keeps the types; the outbox by the lemmas above.              *)
LEMMA TypeStep ==
  ASSUME TypeButSem, PermitsCounted, [Next]_vars PROVE TypeButSem'
<1> USE WorkerClientAssumption
<1>1. sem' \in Nat BY PermitsStep
<1>2. outbox' \in BoundedSeq(Kinds \X (Tasks \cup {NoTask}), OutboxMax)
  <2> DEFINE Events == Kinds \X (Tasks \cup {NoTask})
  <2>1. outbox \in BoundedSeq(Events, OutboxMax) BY DEF TypeButSem
  <2>2. \A t \in Tasks : <<"progress", t>> \in Events /\ <<"result", t>> \in Events
    BY DEF Kinds
  <2>3. <<"heartbeat", NoTask>> \in Events BY DEF Kinds
  <2> SUFFICES outbox' \in BoundedSeq(Events, OutboxMax) OBVIOUS
  <2> HIDE DEF Events
  <2>4. <<>> \in BoundedSeq(Events, OutboxMax)
    <3>1. <<>> \in Seq(Events) /\ Len(<<>>) <= OutboxMax BY EmptySeq
    <3>2. OutboxMax \in Nat OBVIOUS
    <3> QED BY <3>1, <3>2, BoundedSeqIsSeq, Zenon
  <2>5. CASE UNCHANGED outbox BY <2>1, <2>5
  <2>6. CASE outbox' = <<>> BY <2>4, <2>6
  <2>7. CASE outbox' = Emitted(<<"heartbeat", NoTask>>)
    BY <2>1, <2>3, <2>7, EmittedBounded
  <2>8. ASSUME NEW t \in Tasks,
               outbox' = Emitted(<<"progress", t>>) \/ outbox' = Emitted(<<"result", t>>)
        PROVE  outbox' \in BoundedSeq(Events, OutboxMax)
    BY <2>1, <2>2, <2>8, EmittedBounded
  <2>9. CASE outbox # <<>> /\ outbox' = Tail(outbox)
    BY <2>1, <2>9, TailBounded
  <2> QED
    BY <2>5, <2>6, <2>7, <2>8, <2>9
    DEF Next, Step, Connect, Lost, RequestStop, Heartbeat, Deliver, Receive,
        CancelTask, Progress, Begin, Acquire, CancelledQueued, Throw, Finish, Emit, vars
<1>3. /\ session' \in 0 .. MaxSessions
      /\ up' \in BOOLEAN /\ dead' \in BOOLEAN /\ stop' \in BOOLEAN
      /\ task' \in [Tasks -> {"none", "created", "queued", "emitting", "done"} \cup Executing]
      /\ born' \in [Tasks -> 0 .. MaxSessions]
      /\ tasks' \subseteq Tasks /\ cancel' \subseteq Tasks
  <2> USE DEF TypeButSem, Go, Executing
  <2>1. CASE Connect
    <3>1. session' \in 0 .. MaxSessions BY <2>1 DEF Connect
    <3> QED BY <2>1, <3>1 DEF Connect
  <2>2. CASE Lost \/ RequestStop BY <2>2 DEF Lost, RequestStop
  <2>3. CASE Heartbeat \/ Deliver BY <2>3 DEF Heartbeat, Deliver
  <2>4. CASE \E t \in Tasks : Receive(t) BY <2>4 DEF Receive
  <2>5. CASE \E t \in Tasks : CancelTask(t) \/ Progress(t)
    BY <2>5 DEF CancelTask, Progress
  <2>6. CASE \E t \in Tasks : Begin(t) BY <2>6 DEF Begin
  <2>7. CASE \E t \in Tasks : Acquire(t) \/ CancelledQueued(t) \/ Throw(t)
    BY <2>7 DEF Acquire, CancelledQueued, Throw, End
  <2>8. CASE \E t \in Tasks : Finish(t) \/ Emit(t) BY <2>8 DEF Finish, Emit, End
  <2>9. CASE UNCHANGED vars BY <2>9 DEF vars
  <2> QED
    BY <2>1, <2>2, <2>3, <2>4, <2>5, <2>6, <2>7, <2>8, <2>9 DEF Next, Step
<1> QED BY <1>1, <1>2, <1>3 DEF TypeButSem

-----------------------------------------------------------------------------
(* The worker's bookkeeping holds from the start and every step keeps it.   *)
Bookkeeping ==
  TypeButSem /\ SessionLive /\ CancellableOrCancelled /\ PermitsCounted

(* Bookkeeping is inductive.                                                *)
LEMMA Inductive == Spec => []Bookkeeping
<1>1. Init => Bookkeeping
  <2> SUFFICES ASSUME Init PROVE Bookkeeping OBVIOUS
  <2> USE WorkerClientAssumption DEF Init
  <2>1. outbox \in BoundedSeq(Kinds \X (Tasks \cup {NoTask}), OutboxMax)
    <3> DEFINE Events == Kinds \X (Tasks \cup {NoTask})
    <3> SUFFICES outbox \in BoundedSeq(Events, OutboxMax) OBVIOUS
    <3> HIDE DEF Events
    <3>1. outbox \in Seq(Events) /\ Len(outbox) <= OutboxMax BY EmptySeq
    <3>2. OutboxMax \in Nat OBVIOUS
    <3> QED BY <3>1, <3>2, BoundedSeqIsSeq, Zenon
  <2>2. TypeButSem
    <3>1. session \in 0 .. MaxSessions /\ 0 \in 0 .. MaxSessions /\ sem \in Nat OBVIOUS
    <3>2. born \in [Tasks -> 0 .. MaxSessions] BY <3>1
    <3> QED BY <2>1, <3>1, <3>2 DEF TypeButSem
  <2>3. SessionLive /\ CancellableOrCancelled
    BY DEF SessionLive, CancellableOrCancelled
  <2>4. Holders = {} BY DEF Holders, Executing
  <2>5. PermitsCounted
    <3>1. IsFiniteSet(Holders) /\ Cardinality(Holders) = 0 BY <2>4, FS_EmptySet
    <3>2. sem + Cardinality(Holders) = MaxConcurrency BY <3>1
    <3> QED BY <3>1, <3>2 DEF PermitsCounted, PermitsAccounted, Holders
  <2> QED BY <2>2, <2>3, <2>5 DEF Bookkeeping
<1>2. Bookkeeping /\ [Next]_vars => Bookkeeping'
  BY TypeStep, SessionStep, CancellableStep, PermitsStep DEF Bookkeeping
<1> QED BY <1>1, <1>2, PTL DEF Spec

(* The types, with the bounds of the semaphore and of the outbox, for every *)
(* number of tasks, permits and sessions.                                   *)
THEOREM TypeCorrect == Spec => []TypeOK
<1>1. Bookkeeping => TypeOK
  <2> SUFFICES ASSUME Bookkeeping PROVE TypeOK OBVIOUS
  <2>1. Cardinality(Holders) \in Nat /\ sem + Cardinality(Holders) = MaxConcurrency
    BY FS_CardinalityType DEF Bookkeeping, PermitsCounted, PermitsAccounted, Holders
  <2>2. sem \in 0 .. MaxConcurrency
    BY <2>1, WorkerClientAssumption DEF Bookkeeping, TypeButSem
  <2> QED BY <2>2 DEF Bookkeeping, TypeButSem, TypeOK
<1> QED BY <1>1, Inductive, PTL

(* No permit is lost or returned twice on any way out of a task: not when   *)
(* it is cancelled in the queue, in the engine or in its clean-up.          *)
THEOREM NoPermitLeaks == Spec => []PermitsAccounted
<1>1. Bookkeeping => PermitsAccounted BY DEF Bookkeeping, PermitsCounted
<1> QED BY <1>1, Inductive, PTL

(* Cancellation reaches every task that waits or runs, and a session that   *)
(* ends leaves none behind that is not being cancelled.                     *)
THEOREM CancellationReachesEveryTask == Spec => []CancellableOrCancelled
<1>1. Bookkeeping => CancellableOrCancelled BY DEF Bookkeeping
<1> QED BY <1>1, Inductive, PTL

(* The emission of a result is shielded: whatever cancels the task while it *)
(* is scheduled, the result is in the outbox if there is room for it.       *)
THEOREM ResultsSurviveCancel == Spec => ResultSurvivesCancel
<1> DEFINE Kept(t) ==
      task[t] = "emitting" /\ task'[t] = "done" /\ Len(outbox) < OutboxMax
        => \E i \in DOMAIN outbox' : outbox'[i] = <<"result", t>>
<1>1. ASSUME TypeButSem, [Next]_vars, NEW t \in Tasks PROVE Kept(t)
  <2> SUFFICES ASSUME task[t] = "emitting", task'[t] = "done", Len(outbox) < OutboxMax
               PROVE  \E i \in DOMAIN outbox' : outbox'[i] = <<"result", t>>
    OBVIOUS
  <2>1. Emit(t)
    <3> USE DEF TypeButSem, Go, Executing
    <3>1. task' # task OBVIOUS
    <3>2. PICK u \in Tasks : Receive(u) \/ Step(u)
      BY <1>1, <3>1
      DEF Next, Connect, Lost, RequestStop, Heartbeat, Deliver, CancelTask, Progress, vars
    <3>3. u = t
      BY <1>1, <3>2
      DEF Receive, Step, Begin, Acquire, CancelledQueued, Throw, Finish, Emit, End
    <3> QED
      BY <1>1, <3>2, <3>3
      DEF Receive, Step, Begin, Acquire, CancelledQueued, Throw, Finish
  <2>2. outbox' = Append(outbox, <<"result", t>>) BY <2>1 DEF Emit, Emitted
  <2> DEFINE Events == Kinds \X (Tasks \cup {NoTask})
  <2>3. <<"result", t>> \in Events BY DEF Kinds
  <2>4. outbox \in Seq(Events)
    <3>1. outbox \in BoundedSeq(Events, OutboxMax) BY <1>1 DEF TypeButSem
    <3>2. OutboxMax \in Nat BY WorkerClientAssumption
    <3> HIDE DEF Events
    <3> QED BY <3>1, <3>2, BoundedSeqIsSeq
  <2> HIDE DEF Events
  <2>5. Len(outbox) \in Nat /\ outbox' \in Seq(Events)
        /\ Len(outbox') = Len(outbox) + 1 /\ outbox'[Len(outbox) + 1] = <<"result", t>>
    BY <2>2, <2>3, <2>4, LenProperties, AppendProperties
  <2>6. Len(outbox) + 1 \in DOMAIN outbox' BY <2>5, LenProperties
  <2> QED BY <2>5, <2>6
<1>2. TypeButSem /\ [Next]_vars => \A t \in Tasks : Kept(t) BY <1>1
<1>3. Bookkeeping => TypeButSem BY DEF Bookkeeping
<1> QED BY <1>2, <1>3, Inductive, PTL DEF Spec, ResultSurvivesCancel
=============================================================================
