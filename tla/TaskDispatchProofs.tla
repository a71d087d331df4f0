-------------------------- MODULE TaskDispatchProofs --------------------------
(***************************************************************************)
(* For any tasks, runs, workers and capacities: the load counters drift by  *)
(* at most one per run loop, no run leaves an entry in runTasks behind, a   *)
(* cancellation finds only tasks that are not finished, and the cancel      *)
(* command of a task that was sent never overtakes the task.               *)
(***************************************************************************)
EXTENDS TaskDispatch, FiniteSetTheorems, SequenceTheorems, TLAPS

TaskCmd(t)   == [kind |-> "task", task |-> t]
CancelCmd(t) == [kind |-> "cancel", task |-> t]

\* TypeOK with a channel that is a sequence, and without the bounds of load
\* and the contents of taskRuns.
Typed ==
  /\ runTasks \in [Runs -> Tasks \cup {NoSet}]
  /\ ids \in [Tasks -> SUBSET Tasks]
  /\ pc \in [Tasks -> {"idle", "sent", "done"} \cup Dispatching \cup Untracking]
  /\ failed \subseteq Tasks
  /\ held \in [Tasks -> Tasks \cup {NoSet}]
  /\ best \in [Tasks -> Workers \cup {NoWorker}]
  /\ reserved \subseteq Tasks
  /\ load \in [Workers -> Int]
  /\ pooled \subseteq Workers /\ closed \subseteq Workers
  /\ conn \in [Workers -> {"serving", "leaving", "gone"}]
  /\ send \in [Workers -> Seq(Command)]
  /\ running \subseteq Tasks
  /\ bcast \in [Runs -> [called : BOOLEAN, todo : SUBSET (Workers \X Tasks)]]
  /\ aimed \subseteq Tasks

ChannelsBounded == \A w \in Workers : Len(send[w]) <= Capacity

\* What a task at some position has to know.
Located ==
  \A t \in Tasks :
    /\ pc[t] \in Dispatching \cup {"sent"} \/ t \in reserved => best[t] \in Workers
    /\ pc[t] = "picked" => t \notin reserved
    /\ pc[t] \in {"tracked", "removing"} =>
         held[t] \in Tasks /\ RunOf[held[t]] = RunOf[t]

TrackedFrom == taskRuns = {t \in Tasks : pc[t] \in {"tracked", "sending", "sent", "untrack"}}

InHand(t) == pc[t] \in Dispatching \/ t \in reserved

\* A loop dispatches one task at a time.
OneInHand ==
  \A t, u \in Tasks : InHand(t) /\ InHand(u) /\ RunOf[t] = RunOf[u] => t = u

ReservedAt(w) == {t \in reserved : best[t] = w}

\* A counter is its reservations, off by what a heartbeat has overwritten.
LoadDrift ==
  \A w \in Workers :
    /\ load[w] - Cardinality(ReservedAt(w)) <= MaxConcurrency
    /\ load[w] - Cardinality(ReservedAt(w)) >= 0 - Cardinality(Runs)

\* A set that nobody has allocated yet is empty and nobody has it.
FreshSets ==
  \A s \in Tasks : pc[s] \in {"idle", "picked", "reserved"} =>
    /\ ids[s] = {} /\ runTasks[RunOf[s]] # s
    /\ \A t \in Tasks : held[t] # s

\* What is in the set of a run is on its way to be taken out of that very set.
MembersUnfinished ==
  \A r \in Runs :
    /\ runTasks[r] # NoSet => RunOf[runTasks[r]] = r
    /\ \A t \in Found(r) :
         /\ RunOf[t] = r
         /\ pc[t] \in {"sending", "sent", "untrack", "removing"}
         /\ pc[t] = "removing" => held[t] = runTasks[r]

\* Somebody will see to it that the set of a run is deleted.
Keeps(t, r) ==
  /\ RunOf[t] = r
  /\ \/ pc[t] \in {"tracked", "removing"} /\ held[t] = runTasks[r]
     \/ pc[t] \in {"sending", "sent", "untrack"} /\ t \in ids[runTasks[r]]
     \/ pc[t] = "emptied"

SetsHaveKeepers ==
  \A r \in Runs : runTasks[r] # NoSet => \E t \in Tasks : Keeps(t, r)

\* A task is in its worker's channel once, or at the worker, or nowhere.
OneTaskCommand ==
  /\ \A t \in running : pc[t] = "sent"
  /\ \A w \in Workers, t \in Tasks : \A i \in 1 .. Len(send[w]) :
       send[w][i] = TaskCmd(t) =>
         /\ pc[t] = "sent" /\ best[t] = w /\ t \notin running
         /\ \A j \in 1 .. Len(send[w]) : send[w][j] = TaskCmd(t) => j = i

\* A worker of the pool is served, and has every task that was sent to it or
\* will get it.
SentIsSomewhere ==
  /\ \A w \in pooled : conn[w] = "serving"
  /\ \A t \in Tasks : pc[t] = "sent" /\ conn[best[t]] = "serving" =>
       t \in running \/ \E i \in 1 .. Len(send[best[t]]) : send[best[t]][i] = TaskCmd(t)

\* A broadcast is of the tasks of its run.
BroadcastsOwnTasks ==
  /\ \A t \in aimed : pc[t] = "sent" /\ bcast[RunOf[t]].called
  /\ \A r \in Runs : \A p \in bcast[r].todo : RunOf[p[2]] = r

Tracking ==
  /\ Typed /\ ChannelsBounded /\ Located /\ TrackedFrom /\ OneInHand /\ LoadDrift
  /\ FreshSets /\ MembersUnfinished /\ SetsHaveKeepers
  /\ OneTaskCommand /\ SentIsSomewhere /\ BroadcastsOwnTasks
-----------------------------------------------------------------------------
(* Channels.                                                                *)

(* A command that is put goes behind the others.                            *)
LEMMA Put ==
  ASSUME Typed, NEW w \in Workers, NEW c \in Command
  PROVE  /\ Len(send[w]) \in Nat
         /\ Append(send[w], c) \in Seq(Command)
         /\ Len(Append(send[w], c)) = Len(send[w]) + 1
         /\ \A i \in 1 .. Len(send[w]) : Append(send[w], c)[i] = send[w][i]
         /\ Append(send[w], c)[Len(send[w]) + 1] = c
<1>1. send[w] \in Seq(Command) BY DEF Typed
<1> QED BY <1>1, AppendProperties, LenProperties

(* A command that is taken is the first.                                    *)
LEMMA Taken ==
  ASSUME Typed, NEW w \in Workers, send[w] # <<>>
  PROVE  /\ Len(send[w]) \in Nat \ {0}
         /\ Head(send[w]) = send[w][1] /\ Head(send[w]) \in Command
         /\ Tail(send[w]) \in Seq(Command)
         /\ Len(Tail(send[w])) = Len(send[w]) - 1
         /\ \A i \in 1 .. Len(send[w]) - 1 : Tail(send[w])[i] = send[w][i + 1]
<1>1. send[w] \in Seq(Command) BY DEF Typed
<1>2. Len(send[w]) \in Nat \ {0} BY <1>1, EmptySeq
<1>3. Head(send[w]) = send[w][1] BY <1>1, <1>2
<1> QED BY <1>1, <1>2, <1>3, HeadTailProperties

(* What the commands are, and that they differ.                             *)
LEMMA CommandsAre ==
  /\ \A t \in Tasks : TaskCmd(t) \in Command /\ CancelCmd(t) \in Command
  /\ \A c \in Command : /\ c.kind \in {"task", "cancel"} /\ c.task \in Tasks
                        /\ c.kind = "task" => c = TaskCmd(c.task)
                        /\ c.kind = "cancel" => c = CancelCmd(c.task)
  /\ \A t, u \in Tasks : /\ TaskCmd(t) # CancelCmd(u)
                         /\ TaskCmd(t) = TaskCmd(u) => t = u
                         /\ CancelCmd(t) = CancelCmd(u) => t = u
<1>1. \A t \in Tasks : TaskCmd(t) \in Command /\ CancelCmd(t) \in Command
  BY DEF TaskCmd, CancelCmd, Command
<1>2. \A c \in Command : /\ c.kind \in {"task", "cancel"} /\ c.task \in Tasks
                         /\ c.kind = "task" => c = TaskCmd(c.task)
                         /\ c.kind = "cancel" => c = CancelCmd(c.task)
  BY DEF TaskCmd, CancelCmd, Command
<1>3. \A t \in Tasks : /\ TaskCmd(t).kind = "task" /\ TaskCmd(t).task = t
                       /\ CancelCmd(t).kind = "cancel" /\ CancelCmd(t).task = t
  BY DEF TaskCmd, CancelCmd
<1>4. \A t, u \in Tasks : /\ TaskCmd(t) # CancelCmd(u)
                          /\ TaskCmd(t) = TaskCmd(u) => t = u
                          /\ CancelCmd(t) = CancelCmd(u) => t = u
  BY <1>3
<1> QED BY <1>1, <1>2, <1>4

SendsIt(t) ==
  /\ pc[t] = "sending" /\ Len(send[best[t]]) < Capacity
  /\ send' = [send EXCEPT ![best[t]] = Append(send[best[t]], TaskCmd(t))]
  /\ pc' = [pc EXCEPT ![t] = "sent"] /\ failed' = failed
  /\ UNCHANGED <<track, held, best, reserved, load, pool, running, bcast, aimed>>

SendsNot(t) ==
  /\ pc[t] = "sending" /\ send' = send
  /\ pc' = [pc EXCEPT ![t] = "untrack"] /\ failed' = failed \cup {t}
  /\ UNCHANGED <<track, held, best, reserved, load, pool, running, bcast, aimed>>

(* The second select of Dispatch sends the task or gives it up.             *)
LEMMA SendOutcomes ==
  ASSUME NEW t \in Tasks, Send(t) PROVE SendsIt(t) \/ SendsNot(t)
BY Zenon DEF Send, GiveUp, Go, SendsIt, SendsNot, TaskCmd

-----------------------------------------------------------------------------
(* Types and positions.                                                     *)

(* Every step keeps the types.                                              *)
LEMMA TypedStep == ASSUME Typed, Located, [Next]_vars PROVE Typed'
<1> USE TaskDispatchAssumption
    DEF Typed, track, pool, Dispatching, Untracking, Go, GiveUp
<1>1. ASSUME NEW t \in Tasks, NEW w \in Workers, Pick(t, w) PROVE Typed'
  BY <1>1 DEF Pick
<1>2. ASSUME NEW t \in Tasks, NoWorkerOnline(t) PROVE Typed' BY <1>2 DEF NoWorkerOnline
<1>3. ASSUME NEW t \in Tasks, Reserve(t) \/ Release(t) PROVE Typed'
  <2>1. load' \in [Workers -> Int] BY <1>3 DEF Reserve, Release
  <2>2. pc' \in [Tasks -> {"idle", "sent", "done"} \cup Dispatching \cup Untracking]
    BY <1>3 DEF Reserve, Release
  <2>3. failed' \subseteq Tasks /\ reserved' \subseteq Tasks BY <1>3 DEF Reserve, Release
  <2> QED BY <1>3, <2>1, <2>2, <2>3 DEF Reserve, Release
<1>4. ASSUME NEW t \in Tasks, TrackTask(t) PROVE Typed'
  <2>1. runTasks' \in [Runs -> Tasks \cup {NoSet}] BY <1>4 DEF TrackTask
  <2>2. held' \in [Tasks -> Tasks \cup {NoSet}]
    <3>1. RunOf[t] \in Runs OBVIOUS
    <3>2. runTasks'[RunOf[t]] \in Tasks \cup {NoSet} BY <2>1, <3>1
    <3> QED BY <1>4, <3>2 DEF TrackTask
  <2> QED BY <1>4, <2>1, <2>2 DEF TrackTask
<1>5. ASSUME NEW t \in Tasks, AddId(t) PROVE Typed'
  <2>1. ids' \in [Tasks -> SUBSET Tasks]
    <3>1. held[t] \in Tasks BY <1>5 DEF AddId, Located
    <3>2. ids[held[t]] \cup {t} \in SUBSET Tasks BY <3>1
    <3> QED BY <1>5, <3>1, <3>2 DEF AddId
  <2>2. held' \in [Tasks -> Tasks \cup {NoSet}] BY <1>5 DEF AddId
  <2>3. pc' \in [Tasks -> {"idle", "sent", "done"} \cup Dispatching \cup Untracking]
    BY <1>5 DEF AddId
  <2>4. failed' \subseteq Tasks BY <1>5 DEF AddId
  <2> QED BY <1>5, <2>1, <2>2, <2>3, <2>4 DEF AddId
<1>6. ASSUME NEW t \in Tasks, Send(t) PROVE Typed'
  <2>1. best[t] \in Workers BY <1>6 DEF Send, Located
  <2>2. CASE SendsIt(t)
    <3>1. Append(send[best[t]], TaskCmd(t)) \in Seq(Command)
      BY <2>1, Put, CommandsAre
    <3>2. send' \in [Workers -> Seq(Command)] BY <2>2, <3>1 DEF SendsIt
    <3> QED BY <2>2, <3>2 DEF SendsIt
  <2>3. CASE SendsNot(t) BY <2>3 DEF SendsNot
  <2> QED BY <1>6, <2>2, <2>3, SendOutcomes
<1>7. ASSUME NEW t \in Tasks, LoadSet(t) PROVE Typed'
  <2>1. RunOf[t] \in Runs /\ runTasks[RunOf[t]] \in Tasks \cup {NoSet} OBVIOUS
  <2> QED BY <1>7, <2>1 DEF LoadSet
<1>8. ASSUME NEW t \in Tasks, RemoveId(t) PROVE Typed' BY <1>8 DEF RemoveId, Located
<1>9. ASSUME NEW t \in Tasks, DeleteSet(t) PROVE Typed' BY <1>9 DEF DeleteSet
<1>10. ASSUME NEW t \in Tasks, Result(t) PROVE Typed' BY <1>10 DEF Result
<1>11. ASSUME NEW r \in Runs, CancelRun(r) PROVE Typed'
  <2>1. Found(r) \subseteq Tasks BY DEF Found
  <2>2. pooled \X Found(r) \subseteq Workers \X Tasks BY <2>1
  <2> DEFINE entry == [called |-> TRUE, todo |-> pooled \X Found(r)]
  <2>3. entry \in [called : BOOLEAN, todo : SUBSET (Workers \X Tasks)] BY <2>2
  <2>4. bcast' = [bcast EXCEPT ![r] = entry] BY <1>11 DEF CancelRun, Audience
  <2> HIDE DEF entry
  <2>5. bcast' \in [Runs -> [called : BOOLEAN, todo : SUBSET (Workers \X Tasks)]]
    BY <2>3, <2>4
  <2>6. aimed' \subseteq Tasks BY <1>11, <2>1 DEF CancelRun
  <2> QED BY <1>11, <2>5, <2>6 DEF CancelRun
<1>12. ASSUME NEW r \in Runs, NEW w \in Workers, NEW t \in Tasks, SendCancel(r, w, t)
       PROVE Typed'
  <2>1. bcast[r] \in [called : BOOLEAN, todo : SUBSET (Workers \X Tasks)] OBVIOUS
  <2>2. [bcast[r] EXCEPT !.todo = @ \ {<<w, t>>}]
          \in [called : BOOLEAN, todo : SUBSET (Workers \X Tasks)]
    BY <2>1
  <2>3. bcast' = [bcast EXCEPT ![r] = [bcast[r] EXCEPT !.todo = @ \ {<<w, t>>}]]
    BY <1>12 DEF SendCancel
  <2>4. bcast' \in [Runs -> [called : BOOLEAN, todo : SUBSET (Workers \X Tasks)]]
    BY <2>2, <2>3
  <2>5. send' \in [Workers -> Seq(Command)]
    <3>1. Append(send[w], CancelCmd(t)) \in Seq(Command) BY Put, CommandsAre
    <3> QED BY <1>12, <3>1 DEF SendCancel, CancelCmd
  <2>6. aimed' \subseteq Tasks BY <1>12 DEF SendCancel
  <2> QED BY <1>12, <2>4, <2>5, <2>6 DEF SendCancel
<1>13. ASSUME NEW w \in Workers, Pump(w) PROVE Typed'
  <2>1. send[w] # <<>> BY <1>13 DEF Pump
  <2>2. Head(send[w]) \in Command /\ Tail(send[w]) \in Seq(Command) BY <2>1, Taken
  <2>3. Head(send[w]).task \in Tasks BY <2>2, CommandsAre
  <2>4. send' \in [Workers -> Seq(Command)] BY <1>13, <2>2 DEF Pump
  <2>5. running' \subseteq Tasks /\ aimed' \subseteq Tasks BY <1>13, <2>3 DEF Pump
  <2> QED BY <1>13, <2>4, <2>5 DEF Pump
<1>14. ASSUME NEW w \in Workers, Leave(w) PROVE Typed' BY <1>14 DEF Leave
<1>15. ASSUME NEW w \in Workers, Shutdown(w) \/ Evict(w) PROVE Typed'
  BY <1>15 DEF Shutdown, Evict
<1>16. ASSUME NEW w \in Workers, NEW n \in 0 .. MaxConcurrency, Heartbeat(w, n) PROVE Typed'
  <2>1. load' \in [Workers -> Int] BY <1>16 DEF Heartbeat
  <2> QED BY <1>16, <2>1 DEF Heartbeat
<1>17. CASE UNCHANGED vars BY <1>17 DEF vars
<1> QED
  BY <1>1, <1>2, <1>3, <1>4, <1>5, <1>6, <1>7, <1>8, <1>9, <1>10, <1>11, <1>12,
     <1>13, <1>14, <1>15, <1>16, <1>17 DEF Next, Dispatch, Untrack

(* No channel takes more than its capacity.                                 *)
LEMMA BoundedStep ==
  ASSUME Typed, Located, ChannelsBounded, [Next]_vars PROVE ChannelsBounded'
<1>0. Capacity \in Nat \ {0} BY TaskDispatchAssumption
<1> USE DEF track, pool
<1>l. \A w \in Workers : Len(send[w]) \in Nat /\ Len(send[w]) <= Capacity
  BY Put, LenProperties DEF Typed, ChannelsBounded
<1>1. ASSUME NEW t \in Tasks, Send(t) PROVE ChannelsBounded'
  <2>1. best[t] \in Workers BY <1>1 DEF Send, Located, Dispatching
  <2>2. CASE SendsIt(t)
    <3>1. \A w \in Workers : send'[w] =
            IF w = best[t] THEN Append(send[w], TaskCmd(t)) ELSE send[w]
      BY <2>1, <2>2 DEF SendsIt, Typed
    <3>2. Len(Append(send[best[t]], TaskCmd(t))) = Len(send[best[t]]) + 1
      BY <2>1, Put, CommandsAre
    <3>3. Len(send[best[t]]) < Capacity BY <2>2 DEF SendsIt
    <3>4. Len(Append(send[best[t]], TaskCmd(t))) <= Capacity
      BY <1>0, <1>l, <2>1, <3>2, <3>3
    <3> QED BY <1>l, <3>1, <3>4 DEF ChannelsBounded
  <2>3. CASE SendsNot(t) BY <2>3 DEF SendsNot, ChannelsBounded
  <2> QED BY <1>1, <2>2, <2>3, SendOutcomes
<1>2. ASSUME NEW r \in Runs, NEW w \in Workers, NEW t \in Tasks, SendCancel(r, w, t)
      PROVE ChannelsBounded'
  <2>1. CASE Len(send[w]) < Capacity
    <3>1. \A v \in Workers : send'[v] =
            IF v = w THEN Append(send[w], CancelCmd(t)) ELSE send[v]
      BY <1>2, <2>1 DEF SendCancel, Typed, CancelCmd
    <3>2. Len(Append(send[w], CancelCmd(t))) = Len(send[w]) + 1
      BY Put, CommandsAre
    <3>3. Len(Append(send[w], CancelCmd(t))) <= Capacity BY <1>0, <1>l, <2>1, <3>2
    <3> QED BY <1>l, <3>1, <3>3 DEF ChannelsBounded
  <2>2. CASE ~(Len(send[w]) < Capacity) BY <1>2, <2>2 DEF SendCancel, ChannelsBounded
  <2> QED BY <2>1, <2>2
<1>3. ASSUME NEW w \in Workers, Pump(w) PROVE ChannelsBounded'
  <2>1. send[w] # <<>> BY <1>3 DEF Pump
  <2>2. Len(Tail(send[w])) = Len(send[w]) - 1 BY <2>1, Taken
  <2>3. \A v \in Workers : send'[v] = IF v = w THEN Tail(send[w]) ELSE send[v]
    BY <1>3 DEF Pump, Typed
  <2>4. Len(Tail(send[w])) <= Capacity BY <1>0, <1>l, <2>2
  <2> QED BY <1>l, <2>3, <2>4 DEF ChannelsBounded
<1>4. ASSUME UNCHANGED send PROVE ChannelsBounded' BY <1>4 DEF ChannelsBounded
<1> QED
  BY <1>1, <1>2, <1>3, <1>4
  DEF Next, Dispatch, Untrack, Pick, NoWorkerOnline, Reserve, TrackTask, AddId, Release,
      LoadSet, RemoveId, DeleteSet, Result, CancelRun, Leave, Shutdown, Evict, Heartbeat, vars

(* The positions of the goroutines, and what they hold.                     *)
LEMMA LocatedStep ==
  ASSUME Typed, Located, MembersUnfinished, FreshSets, OneTaskCommand, OneInHand, [Next]_vars
  PROVE  Located'
<1> USE TaskDispatchAssumption
    DEF Typed, Located, track, pool, Dispatching, Untracking, Go, GiveUp
<1>1. ASSUME NEW t \in Tasks, NEW w \in Workers, Pick(t, w) PROVE Located'
  <2>1. t \notin reserved BY <1>1 DEF Pick, LoopFree
  <2>2. w \in Workers BY <1>1 DEF Pick, Eligible
  <2> QED BY <1>1, <2>1, <2>2 DEF Pick
<1>2. ASSUME NEW t \in Tasks, NoWorkerOnline(t) PROVE Located' BY <1>2 DEF NoWorkerOnline
<1>3. ASSUME NEW t \in Tasks, Reserve(t) PROVE Located' BY <1>3 DEF Reserve
<1>4. ASSUME NEW t \in Tasks, Release(t) PROVE Located' BY <1>4 DEF Release
<1>5. ASSUME NEW t \in Tasks, TrackTask(t) PROVE Located'
  <2>1. /\ pc[t] = "reserved" /\ pc' = [pc EXCEPT ![t] = "tracked"]
        /\ held' = [held EXCEPT ![t] = IF runTasks[RunOf[t]] = NoSet THEN t ELSE runTasks[RunOf[t]]]
        /\ best' = best /\ reserved' = reserved
    BY <1>5 DEF TrackTask
  <2>2. RunOf[t] \in Runs /\ runTasks[RunOf[t]] \in Tasks \cup {NoSet} OBVIOUS
  <2>3. runTasks[RunOf[t]] # NoSet => RunOf[runTasks[RunOf[t]]] = RunOf[t]
    BY <2>2 DEF MembersUnfinished
  <2> QED BY <2>1, <2>2, <2>3
<1>6. ASSUME NEW t \in Tasks, AddId(t) PROVE Located'
  <2>1. /\ pc[t] = "tracked" /\ pc'[t] \in {"sending", "untrack"}
        /\ \A u \in Tasks \ {t} : pc'[u] = pc[u] /\ held'[u] = held[u]
        /\ best' = best /\ reserved' = reserved
    BY <1>6 DEF AddId
  <2> QED BY <2>1
<1>7. ASSUME NEW t \in Tasks, Send(t) PROVE Located'
  BY <1>7, SendOutcomes DEF SendsIt, SendsNot
<1>8. ASSUME NEW t \in Tasks, LoadSet(t) PROVE Located'
  <2>1. RunOf[t] \in Runs /\ runTasks[RunOf[t]] \in Tasks \cup {NoSet} OBVIOUS
  <2>2. runTasks[RunOf[t]] # NoSet => RunOf[runTasks[RunOf[t]]] = RunOf[t]
    BY <2>1 DEF MembersUnfinished
  <2> QED BY <1>8, <2>1, <2>2 DEF LoadSet
<1>9. ASSUME NEW t \in Tasks, RemoveId(t) PROVE Located'
  <2>1. /\ pc[t] = "removing" /\ pc'[t] \in {"emptied", "done"}
        /\ \A u \in Tasks \ {t} : pc'[u] = pc[u] /\ held'[u] = held[u]
        /\ best' = best /\ reserved' = reserved
    BY <1>9 DEF RemoveId
  <2> QED BY <2>1
<1>10. ASSUME NEW t \in Tasks, DeleteSet(t) PROVE Located' BY <1>10 DEF DeleteSet
<1>11. ASSUME NEW t \in Tasks, Result(t) PROVE Located' BY <1>11 DEF Result
<1>12. ASSUME UNCHANGED <<pc, best, reserved, held>> PROVE Located' BY <1>12
<1> QED
  BY <1>1, <1>2, <1>3, <1>4, <1>5, <1>6, <1>7, <1>8, <1>9, <1>10, <1>11, <1>12
  DEF Next, Dispatch, Untrack, CancelRun, SendCancel, Pump, Leave, Shutdown, Evict,
      Heartbeat, vars

(* taskRuns follows the positions.                                          *)
LEMMA TrackedFromStep ==
  ASSUME Typed, Located, TrackedFrom, OneTaskCommand, [Next]_vars PROVE TrackedFrom'
<1> USE DEF Typed, TrackedFrom, track, pool, Go, GiveUp, Dispatching, Untracking
<1>1. ASSUME NEW t \in Tasks, NEW w \in Workers, Pick(t, w) PROVE TrackedFrom'
  BY <1>1 DEF Pick
<1>2. ASSUME NEW t \in Tasks, NoWorkerOnline(t) PROVE TrackedFrom'
  BY <1>2 DEF NoWorkerOnline
<1>3. ASSUME NEW t \in Tasks, Reserve(t) PROVE TrackedFrom' BY <1>3 DEF Reserve
<1>4. ASSUME NEW t \in Tasks, TrackTask(t) PROVE TrackedFrom' BY <1>4 DEF TrackTask
<1>5. ASSUME NEW t \in Tasks, AddId(t) PROVE TrackedFrom' BY <1>5 DEF AddId
<1>6. ASSUME NEW t \in Tasks, Send(t) PROVE TrackedFrom'
  BY <1>6, SendOutcomes DEF SendsIt, SendsNot
<1>7. ASSUME NEW t \in Tasks, LoadSet(t) PROVE TrackedFrom' BY <1>7 DEF LoadSet
<1>8. ASSUME NEW t \in Tasks, RemoveId(t) PROVE TrackedFrom' BY <1>8 DEF RemoveId
<1>9. ASSUME NEW t \in Tasks, DeleteSet(t) PROVE TrackedFrom' BY <1>9 DEF DeleteSet
<1>10. ASSUME NEW t \in Tasks, Result(t) PROVE TrackedFrom'
  BY <1>10 DEF Result, OneTaskCommand
<1>11. ASSUME UNCHANGED <<taskRuns, pc>> PROVE TrackedFrom' BY <1>11
<1> QED
  BY <1>1, <1>2, <1>3, <1>4, <1>5, <1>6, <1>7, <1>8, <1>9, <1>10, <1>11
  DEF Next, Dispatch, Untrack, Release, CancelRun, SendCancel, Pump, Leave, Shutdown,
      Evict, Heartbeat, vars

(* A loop takes the next task when the last one is out of its hands.        *)
LEMMA OneInHandStep ==
  ASSUME Typed, Located, OneTaskCommand, OneInHand, [Next]_vars PROVE OneInHand'
<1> USE DEF Typed, track, pool, Go, GiveUp, Untracking
<1> DEFINE Less == \A u \in Tasks : InHand(u)' => InHand(u)
<1>1. ASSUME Less PROVE OneInHand' BY <1>1 DEF OneInHand
<1>2. ASSUME NEW t \in Tasks, NEW w \in Workers, Pick(t, w) PROVE OneInHand'
  <2>1. \A u \in Tasks : RunOf[u] = RunOf[t] => ~InHand(u)
    BY <1>2 DEF Pick, LoopFree, InHand
  <2>2. \A u \in Tasks \ {t} : InHand(u)' = InHand(u)
    BY <1>2 DEF Pick, InHand
  <2> QED BY <2>1, <2>2 DEF OneInHand
<1>3. ASSUME NEW t \in Tasks, NoWorkerOnline(t) PROVE Less
  BY <1>3 DEF NoWorkerOnline, InHand, Dispatching
<1>4. ASSUME NEW t \in Tasks, Reserve(t) PROVE Less
  BY <1>4 DEF Reserve, InHand, Dispatching
<1>5. ASSUME NEW t \in Tasks, TrackTask(t) PROVE Less
  BY <1>5 DEF TrackTask, InHand, Dispatching
<1>6. ASSUME NEW t \in Tasks, AddId(t) PROVE Less BY <1>6 DEF AddId, InHand, Dispatching
<1>7. ASSUME NEW t \in Tasks, Send(t) PROVE Less
  BY <1>7, SendOutcomes DEF SendsIt, SendsNot, InHand, Dispatching
<1>8. ASSUME NEW t \in Tasks, LoadSet(t) \/ DeleteSet(t) PROVE Less
  BY <1>8 DEF LoadSet, DeleteSet, InHand, Dispatching
<1>9. ASSUME NEW t \in Tasks, RemoveId(t) PROVE Less
  BY <1>9 DEF RemoveId, InHand, Dispatching
<1>10. ASSUME NEW t \in Tasks, Result(t) PROVE Less BY <1>10 DEF Result, InHand, Dispatching
<1>11. ASSUME NEW t \in Tasks, Release(t) PROVE Less BY <1>11 DEF Release, InHand
<1>12. ASSUME UNCHANGED <<pc, reserved>> PROVE Less BY <1>12 DEF InHand
<1> QED
  BY <1>1, <1>2, <1>3, <1>4, <1>5, <1>6, <1>7, <1>8, <1>9, <1>10, <1>11, <1>12
  DEF Next, Dispatch, Untrack, CancelRun, SendCancel, Pump, Leave, Shutdown, Evict,
      Heartbeat, vars

(* Load counters.                                                           *)

(* A loop has at most one reservation.                                      *)
LEMMA ReservedFinite ==
  ASSUME Typed, Located, OneInHand, NEW w \in Workers
  PROVE  IsFiniteSet(ReservedAt(w)) /\ Cardinality(ReservedAt(w)) \in 0 .. Cardinality(Runs)
<1> DEFINE at == ReservedAt(w)  run == [t \in at |-> RunOf[t]]
<1>1. IsFiniteSet(Runs) /\ Cardinality(Runs) \in Nat
  BY FS_CardinalityType, TaskDispatchAssumption
<1>2. at \subseteq Tasks BY DEF Typed, ReservedAt
<1>3. \A t, u \in at : RunOf[t] = RunOf[u] => t = u
  BY <1>2 DEF OneInHand, InHand, ReservedAt
<1>4. run \in Injection(at, Runs)
  <2>1. run \in [at -> Runs] BY <1>2, TaskDispatchAssumption
  <2>2. \A t, u \in at : run[t] = run[u] => t = u BY <1>3
  <2> QED BY <2>1, <2>2, Zenon DEF Injection, IsInjective
<1>5. IsFiniteSet(at)
  <2>1. IsFiniteSet(Tasks) BY TaskDispatchAssumption
  <2> HIDE DEF at
  <2> QED BY <1>2, <2>1, FS_Subset
<1>6. Cardinality(at) <= Cardinality(Runs)
  <2> HIDE DEF at, run
  <2> QED BY <1>1, <1>4, FS_Injection
<1>7. Cardinality(at) \in Nat
  <2> HIDE DEF at
  <2> QED BY <1>5, FS_CardinalityType
<1> HIDE DEF at
<1>8. Cardinality(at) \in 0 .. Cardinality(Runs) BY <1>1, <1>6, <1>7
<1> QED BY <1>5, <1>8 DEF at

(* Reservations and heartbeats keep the drift within bounds.                *)
LEMMA LoadDriftStep ==
  ASSUME Typed, Located, OneInHand, LoadDrift, [Next]_vars PROVE LoadDrift'
<1>0. MaxConcurrency \in Nat /\ Cardinality(Runs) \in Nat
  BY FS_CardinalityType, TaskDispatchAssumption
<1>f. \A w \in Workers : /\ IsFiniteSet(ReservedAt(w))
                         /\ Cardinality(ReservedAt(w)) \in 0 .. Cardinality(Runs)
                         /\ load[w] \in Int
  BY ReservedFinite DEF Typed
<1> USE DEF track, pool, Go, GiveUp
<1>1. ASSUME NEW t \in Tasks, NEW w \in Workers, Pick(t, w) PROVE LoadDrift'
  <2>1. t \notin reserved BY <1>1 DEF Pick, LoopFree
  <2>2. \A v \in Workers : ReservedAt(v)' = ReservedAt(v)
    BY <1>1, <2>1 DEF Pick, ReservedAt, Typed
  <2> QED BY <1>1, <2>2 DEF Pick, LoadDrift
<1>2. ASSUME NEW t \in Tasks, Reserve(t) PROVE LoadDrift'
  <2>1. t \notin reserved /\ best[t] \in Workers
    BY <1>2 DEF Reserve, Located, Dispatching
  <2>w. PICK w \in Workers : w = best[t] BY <2>1
  <2>2. ReservedAt(w)' = ReservedAt(w) \cup {t} BY <1>2, <2>w DEF Reserve, ReservedAt
  <2>3. \A v \in Workers \ {w} : ReservedAt(v)' = ReservedAt(v)
    BY <1>2, <2>w DEF Reserve, ReservedAt
  <2>4. t \notin ReservedAt(w) BY <2>1, <2>w DEF ReservedAt
  <2>5. Cardinality(ReservedAt(w)') = Cardinality(ReservedAt(w)) + 1
    BY <1>f, <2>1, <2>2, <2>4, FS_AddElement
  <2>6. /\ load'[w] = load[w] + 1
        /\ \A v \in Workers \ {w} : load'[v] = load[v]
    BY <1>2, <2>1, <2>w DEF Reserve, Typed
  <2>7. load'[w] - Cardinality(ReservedAt(w)') = load[w] - Cardinality(ReservedAt(w))
    BY <1>f, <2>1, <2>5, <2>6
  <2>8. \A v \in Workers :
          load'[v] - Cardinality(ReservedAt(v)') = load[v] - Cardinality(ReservedAt(v))
    BY <2>3, <2>6, <2>7
  <2> QED BY <2>8 DEF LoadDrift
<1>3. ASSUME NEW t \in Tasks, Release(t) PROVE LoadDrift'
  <2>1. t \in reserved /\ best[t] \in Workers BY <1>3 DEF Release, Located
  <2>w. PICK w \in Workers : w = best[t] BY <2>1
  <2>2. ReservedAt(w)' = ReservedAt(w) \ {t} BY <1>3, <2>w DEF Release, ReservedAt
  <2>3. \A v \in Workers \ {w} : ReservedAt(v)' = ReservedAt(v)
    BY <1>3, <2>w DEF Release, ReservedAt
  <2>4. t \in ReservedAt(w) BY <2>1, <2>w DEF ReservedAt
  <2>5. Cardinality(ReservedAt(w)') = Cardinality(ReservedAt(w)) - 1
    BY <1>f, <2>1, <2>2, <2>4, FS_RemoveElement
  <2>6. /\ load'[w] = load[w] - 1
        /\ \A v \in Workers \ {w} : load'[v] = load[v]
    BY <1>3, <2>1, <2>w DEF Release, Typed
  <2>7. load'[w] - Cardinality(ReservedAt(w)') = load[w] - Cardinality(ReservedAt(w))
    BY <1>f, <2>1, <2>5, <2>6
  <2>8. \A v \in Workers :
          load'[v] - Cardinality(ReservedAt(v)') = load[v] - Cardinality(ReservedAt(v))
    BY <2>3, <2>6, <2>7
  <2> QED BY <2>8 DEF LoadDrift
<1>4. ASSUME NEW w \in Workers, NEW n \in 0 .. MaxConcurrency, Heartbeat(w, n)
      PROVE LoadDrift'
  <2>1. \A v \in Workers : ReservedAt(v)' = ReservedAt(v)
    BY <1>4 DEF Heartbeat, ReservedAt
  <2>2. /\ load'[w] = n
        /\ \A v \in Workers \ {w} : load'[v] = load[v]
    BY <1>4 DEF Heartbeat, Typed
  <2> QED BY <1>0, <1>f, <2>1, <2>2 DEF LoadDrift
<1>5. ASSUME UNCHANGED <<load, reserved, best>> PROVE LoadDrift'
  <2>1. \A v \in Workers : ReservedAt(v)' = ReservedAt(v) BY <1>5 DEF ReservedAt
  <2> QED BY <1>5, <2>1 DEF LoadDrift
<1> QED
  BY <1>1, <1>2, <1>3, <1>4, <1>5
  DEF Next, Dispatch, Untrack, NoWorkerOnline, TrackTask, AddId, Send, LoadSet, RemoveId,
      DeleteSet, Result, CancelRun, SendCancel, Pump, Leave, Shutdown, Evict, vars

-----------------------------------------------------------------------------
(* The sets of a run.                                                       *)

(* Nobody touches a set before the TrackTask that allocates it.             *)
LEMMA FreshSetsStep ==
  ASSUME Typed, Located, FreshSets, MembersUnfinished, OneTaskCommand, [Next]_vars
  PROVE  FreshSets'
<1> DEFINE Fresh(s) == pc[s] \in {"idle", "picked", "reserved"}
<1>0. NoSet \notin Tasks /\ RunOf \in [Tasks -> Runs] BY TaskDispatchAssumption
<1>m. \A s \in Tasks, r \in Runs : Fresh(s) => runTasks[r] # s
  BY <1>0 DEF FreshSets, MembersUnfinished
<1> USE DEF Typed, track, pool, Go, GiveUp
<1> DEFINE FewerFresh == \A s \in Tasks : Fresh(s)' => Fresh(s)
<1>1. ASSUME NEW t \in Tasks, TrackTask(t) PROVE FreshSets'
  <2>1. FewerFresh /\ ~Fresh(t)' BY <1>1 DEF TrackTask
  <2>2. ids' = ids BY <1>1 DEF TrackTask
  <2>3. \A r \in Runs : runTasks'[r] \in {runTasks[r], t}
    BY <1>1, <1>0 DEF TrackTask
  <2>4. \A u \in Tasks : held'[u] \in {held[u], runTasks'[RunOf[t]]}
    BY <1>1 DEF TrackTask
  <2>5. ASSUME NEW s \in Tasks, Fresh(s)'
        PROVE  ids'[s] = {} /\ runTasks'[RunOf[s]] # s /\ \A u \in Tasks : held'[u] # s
    <3>1. Fresh(s) /\ s # t BY <2>1, <2>5
    <3>2. \A r \in Runs : runTasks'[r] # s BY <1>m, <2>3, <3>1
    <3>3. RunOf[s] \in Runs /\ RunOf[t] \in Runs BY <1>0
    <3>4. \A u \in Tasks : held[u] # s BY <3>1 DEF FreshSets
    <3>5. ids[s] = {} BY <3>1 DEF FreshSets
    <3> QED BY <2>2, <2>4, <3>2, <3>3, <3>4, <3>5
  <2> QED BY <2>5, Zenon DEF FreshSets
<1>2. ASSUME NEW t \in Tasks, AddId(t) \/ RemoveId(t) PROVE FreshSets'
  <2>1. FewerFresh BY <1>2 DEF AddId, RemoveId
  <2>2. \A s \in Tasks : s # held[t] => ids'[s] = ids[s] BY <1>2 DEF AddId, RemoveId
  <2>3. \A u \in Tasks : held'[u] \in {held[u], NoSet} BY <1>2 DEF AddId, RemoveId
  <2>4. runTasks' = runTasks BY <1>2 DEF AddId, RemoveId
  <2> QED BY <1>0, <2>1, <2>2, <2>3, <2>4 DEF FreshSets
<1>3. ASSUME NEW t \in Tasks, LoadSet(t) PROVE FreshSets'
  <2>1. FewerFresh BY <1>3 DEF LoadSet
  <2>2. \A u \in Tasks : held'[u] \in {held[u], runTasks[RunOf[t]]} BY <1>3 DEF LoadSet
  <2> QED BY <1>0, <1>3, <1>m, <2>1, <2>2 DEF FreshSets, LoadSet
<1>4. ASSUME NEW t \in Tasks, DeleteSet(t) PROVE FreshSets'
  <2>1. FewerFresh BY <1>4 DEF DeleteSet
  <2>2. \A r \in Runs : runTasks'[r] \in {runTasks[r], NoSet} BY <1>4 DEF DeleteSet
  <2> QED BY <1>0, <1>4, <2>1, <2>2 DEF FreshSets, DeleteSet
<1>5. ASSUME FewerFresh, UNCHANGED <<ids, runTasks, held>> PROVE FreshSets'
  BY <1>5 DEF FreshSets
<1>6. ASSUME NEW t \in Tasks, Send(t) PROVE FewerFresh
  BY <1>6, SendOutcomes DEF SendsIt, SendsNot
<1>7. ASSUME NEW t \in Tasks, NEW w \in Workers, Pick(t, w) PROVE FewerFresh
  BY <1>7 DEF Pick
<1>8. ASSUME NEW t \in Tasks, NoWorkerOnline(t) \/ Reserve(t) PROVE FewerFresh
  BY <1>8 DEF NoWorkerOnline, Reserve
<1>9. ASSUME NEW t \in Tasks, Result(t) PROVE FewerFresh BY <1>9 DEF Result
<1>10. ASSUME pc' = pc PROVE FewerFresh BY <1>10
<1> QED
  BY <1>1, <1>2, <1>3, <1>4, <1>5, <1>6, <1>7, <1>8, <1>9, <1>10
  DEF Next, Dispatch, Untrack, Pick, NoWorkerOnline, Reserve, Send, Release, Result,
      CancelRun, SendCancel, Pump, Leave, Shutdown, Evict, Heartbeat, vars

(* Who is in the set of a run stays unfinished until it is out of it.       *)
LEMMA MembersStep ==
  ASSUME Typed, Located, FreshSets, MembersUnfinished, OneTaskCommand, [Next]_vars
  PROVE  MembersUnfinished'
<1>0. NoSet \notin Tasks /\ RunOf \in [Tasks -> Runs] BY TaskDispatchAssumption
<1> DEFINE Inside == {"sending", "sent", "untrack", "removing"}
           Kept   == \A u \in Tasks : /\ pc[u] \in Inside => pc'[u] \in Inside
                                      /\ pc'[u] = "removing" => pc[u] = "removing"
<1>m. \A r \in Runs : /\ runTasks[r] \in Tasks \cup {NoSet}
                      /\ runTasks[r] # NoSet => RunOf[runTasks[r]] = r
                      /\ \A t \in Found(r) :
                           /\ t \in Tasks /\ RunOf[t] = r /\ pc[t] \in Inside
                           /\ pc[t] = "removing" => held[t] = runTasks[r]
  BY DEF MembersUnfinished, Typed, Found
<1> USE DEF Typed, track, pool, Go, GiveUp
<1>1. ASSUME NEW t \in Tasks, TrackTask(t) PROVE MembersUnfinished'
  <2> DEFINE r == RunOf[t]
  <2>1. /\ pc[t] = "reserved" /\ ids' = ids /\ \A u \in Tasks \ {t} : pc'[u] = pc[u]
        /\ \A u \in Tasks \ {t} : held'[u] = held[u]
        /\ \A q \in Runs \ {r} : runTasks'[q] = runTasks[q]
        /\ runTasks'[r] = IF runTasks[r] = NoSet THEN t ELSE runTasks[r]
    BY <1>1, <1>0 DEF TrackTask
  <2>2. ids[t] = {} BY <2>1 DEF FreshSets
  <2>3. \A q \in Runs : /\ Found(q)' = Found(q)
                        /\ Found(q) # {} => runTasks'[q] = runTasks[q]
    BY <1>0, <2>1, <2>2 DEF Found
  <2>4. \A q \in Runs : t \notin Found(q) BY <1>m, <2>1
  <2>5. ASSUME NEW q \in Runs, runTasks'[q] # NoSet PROVE RunOf[runTasks'[q]] = q
    <3>1. CASE runTasks'[q] = runTasks[q] BY <1>m, <2>5, <3>1
    <3>2. CASE q = r /\ runTasks'[q] = t BY <3>2
    <3> QED BY <2>1, <3>1, <3>2
  <2>6. ASSUME NEW q \in Runs, NEW u \in Found(q)'
        PROVE  RunOf[u] = q /\ pc'[u] \in Inside
               /\ (pc'[u] = "removing" => held'[u] = runTasks'[q])
    <3>1. u \in Found(q) /\ u \in Tasks \ {t} /\ runTasks'[q] = runTasks[q]
      BY <1>m, <2>3, <2>4, <2>6
    <3> QED BY <1>m, <2>1, <3>1
  <2> QED BY <2>5, <2>6 DEF MembersUnfinished
<1>2. ASSUME NEW t \in Tasks, AddId(t) PROVE MembersUnfinished'
  <2>1. /\ pc[t] = "tracked" /\ pc'[t] \in {"sending", "untrack"}
        /\ \A u \in Tasks \ {t} : pc'[u] = pc[u] /\ held'[u] = held[u]
        /\ runTasks' = runTasks
        /\ \A s \in Tasks : ids'[s] = IF s = held[t] THEN ids[s] \cup {t} ELSE ids[s]
    BY <1>2 DEF AddId
  <2>2. held[t] \in Tasks /\ RunOf[held[t]] = RunOf[t] BY <2>1 DEF Located
  <2>3. \A q \in Runs : Found(q)' = IF runTasks[q] = held[t] THEN Found(q) \cup {t} ELSE Found(q)
    <3> SUFFICES ASSUME NEW q \in Runs
                 PROVE  Found(q)' = IF runTasks[q] = held[t] THEN Found(q) \cup {t} ELSE Found(q)
      OBVIOUS
    <3>1. CASE runTasks[q] = NoSet BY <1>0, <2>1, <2>2, <3>1 DEF Found
    <3>2. CASE runTasks[q] \in Tasks BY <1>0, <2>1, <2>2, <3>2 DEF Found
    <3> QED BY <1>0, <1>m, <3>1, <3>2
  <2>4. ASSUME NEW q \in Runs, NEW u \in Found(q)'
        PROVE  RunOf[u] = q /\ pc'[u] \in Inside
               /\ (pc'[u] = "removing" => held'[u] = runTasks'[q])
    <3>1. CASE u = t
      <4>1. t \notin Found(q) BY <1>m, <2>1
      <4>2. runTasks[q] = held[t] BY <2>3, <2>4, <3>1, <4>1
      <4>3. RunOf[held[t]] = q BY <1>0, <1>m, <2>2, <4>2
      <4> QED BY <2>1, <2>2, <3>1, <4>3
    <3>2. CASE u # t
      <4>1. u \in Found(q) BY <2>3, <2>4, <3>2
      <4>2. u \in Tasks /\ RunOf[u] = q /\ pc[u] \in Inside
            /\ (pc[u] = "removing" => held[u] = runTasks[q])
        BY <1>m, <4>1
      <4> QED BY <2>1, <3>2, <4>2
    <3> QED BY <3>1, <3>2
  <2>5. \A q \in Runs : runTasks'[q] # NoSet => RunOf[runTasks'[q]] = q BY <1>m, <2>1
  <2> QED BY <2>4, <2>5, Zenon DEF MembersUnfinished
<1>3. ASSUME NEW t \in Tasks, LoadSet(t) PROVE MembersUnfinished'
  <2>1. /\ pc[t] = "untrack" /\ held'[t] = runTasks[RunOf[t]]
        /\ pc'[t] = IF runTasks[RunOf[t]] = NoSet THEN "done" ELSE "removing"
        /\ \A u \in Tasks \ {t} : pc'[u] = pc[u] /\ held'[u] = held[u]
        /\ runTasks' = runTasks /\ ids' = ids
    BY <1>3 DEF LoadSet
  <2>2. \A q \in Runs : Found(q)' = Found(q) BY <2>1 DEF Found
  <2>3. \A q \in Runs : Found(q) # {} => runTasks[q] # NoSet BY DEF Found
  <2>4. ASSUME NEW q \in Runs, NEW u \in Found(q)'
        PROVE  RunOf[u] = q /\ pc'[u] \in Inside
               /\ (pc'[u] = "removing" => held'[u] = runTasks'[q])
    <3>1. u \in Found(q) BY <2>2, <2>4
    <3>2. u \in Tasks /\ RunOf[u] = q /\ pc[u] \in Inside
          /\ (pc[u] = "removing" => held[u] = runTasks[q])
      BY <1>m, <3>1
    <3>3. runTasks[q] # NoSet BY <2>3, <3>1
    <3> QED BY <2>1, <3>2, <3>3
  <2>5. \A q \in Runs : runTasks'[q] # NoSet => RunOf[runTasks'[q]] = q BY <1>m, <2>1
  <2> QED BY <2>4, <2>5, Zenon DEF MembersUnfinished
<1>4. ASSUME NEW t \in Tasks, RemoveId(t) PROVE MembersUnfinished'
  <2>1. /\ pc[t] = "removing" /\ \A u \in Tasks \ {t} : pc'[u] = pc[u] /\ held'[u] = held[u]
        /\ runTasks' = runTasks
        /\ \A s \in Tasks : ids'[s] = IF s = held[t] THEN ids[s] \ {t} ELSE ids[s]
    BY <1>4 DEF RemoveId
  <2>2. \A q \in Runs : Found(q)' = Found(q) \ {t}
    <3> SUFFICES ASSUME NEW q \in Runs PROVE Found(q)' = Found(q) \ {t} OBVIOUS
    <3>1. t \in Found(q) => held[t] = runTasks[q] BY <1>m, <2>1
    <3> QED BY <1>0, <1>m, <2>1, <3>1 DEF Found
  <2> QED BY <1>m, <2>1, <2>2 DEF MembersUnfinished
<1>5. ASSUME NEW t \in Tasks, DeleteSet(t) PROVE MembersUnfinished'
  <2>1. /\ pc[t] = "emptied" /\ held' = held /\ ids' = ids
        /\ \A u \in Tasks \ {t} : pc'[u] = pc[u]
        /\ runTasks'[RunOf[t]] = NoSet
        /\ \A q \in Runs \ {RunOf[t]} : runTasks'[q] = runTasks[q]
    BY <1>5, <1>0 DEF DeleteSet
  <2>2. \A q \in Runs : Found(q)' = IF q = RunOf[t] THEN {} ELSE Found(q)
    BY <2>1 DEF Found
  <2> QED BY <1>m, <2>1, <2>2 DEF MembersUnfinished
<1>6. ASSUME Kept, UNCHANGED <<ids, runTasks, held>> PROVE MembersUnfinished'
  <2>1. \A q \in Runs : Found(q)' = Found(q) BY <1>6 DEF Found
  <2> QED BY <1>m, <1>6, <2>1 DEF MembersUnfinished
<1>7. ASSUME NEW t \in Tasks, Send(t) PROVE Kept
  BY <1>7, SendOutcomes DEF SendsIt, SendsNot
<1>8. ASSUME NEW t \in Tasks, NEW w \in Workers, Pick(t, w) PROVE Kept BY <1>8 DEF Pick
<1>9. ASSUME NEW t \in Tasks, NoWorkerOnline(t) \/ Reserve(t) PROVE Kept
  BY <1>9 DEF NoWorkerOnline, Reserve
<1>10. ASSUME NEW t \in Tasks, Result(t) PROVE Kept BY <1>10 DEF Result
<1>11. ASSUME pc' = pc PROVE Kept BY <1>11
<1> QED
  BY <1>1, <1>2, <1>3, <1>4, <1>5, <1>6, <1>7, <1>8, <1>9, <1>10, <1>11
  DEF Next, Dispatch, Untrack, Pick, NoWorkerOnline, Reserve, Send, Release, Result,
      CancelRun, SendCancel, Pump, Leave, Shutdown, Evict, Heartbeat, vars

(* A set that a run has is left only by somebody who finds it empty, and    *)
(* will delete it, or while others are in it.                               *)
LEMMA KeepersStep ==
  ASSUME Typed, Located, MembersUnfinished, SetsHaveKeepers, OneTaskCommand, [Next]_vars
  PROVE  SetsHaveKeepers'
<1>0. NoSet \notin Tasks /\ RunOf \in [Tasks -> Runs] BY TaskDispatchAssumption
<1> DEFINE Kept == \A u \in Tasks, r \in Runs : runTasks[r] # NoSet /\ Keeps(u, r) => Keeps(u, r)'
<1>k. ASSUME Kept, runTasks' = runTasks PROVE SetsHaveKeepers'
  BY <1>k DEF SetsHaveKeepers
<1> USE DEF Typed, track, pool, Go, GiveUp
<1>1. ASSUME NEW t \in Tasks, TrackTask(t) PROVE SetsHaveKeepers'
  <2>1. /\ pc'[t] = "tracked" /\ ids' = ids /\ \A u \in Tasks \ {t} : pc'[u] = pc[u]
        /\ held'[t] = runTasks'[RunOf[t]]
        /\ \A u \in Tasks \ {t} : held'[u] = held[u]
        /\ \A q \in Runs \ {RunOf[t]} : runTasks'[q] = runTasks[q]
    BY <1>1, <1>0 DEF TrackTask
  <2> SUFFICES ASSUME NEW r \in Runs, runTasks'[r] # NoSet
               PROVE  \E u \in Tasks : Keeps(u, r)'
    BY DEF SetsHaveKeepers
  <2>2. CASE r = RunOf[t] BY <2>1, <2>2 DEF Keeps
  <2>3. CASE r # RunOf[t]
    <3>1. runTasks'[r] = runTasks[r] BY <2>1, <2>3
    <3>2. PICK k \in Tasks : Keeps(k, r) BY <3>1 DEF SetsHaveKeepers
    <3>3. k # t BY <2>3, <3>2 DEF Keeps
    <3>4. Keeps(k, r)' BY <2>1, <3>1, <3>2, <3>3 DEF Keeps
    <3> QED BY <3>4
  <2> QED BY <2>2, <2>3
<1>2. ASSUME NEW t \in Tasks, AddId(t) PROVE SetsHaveKeepers'
  <2>1. /\ pc[t] = "tracked" /\ pc'[t] \in {"sending", "untrack"}
        /\ \A u \in Tasks \ {t} : pc'[u] = pc[u] /\ held'[u] = held[u]
        /\ runTasks' = runTasks
        /\ \A s \in Tasks : ids[s] \subseteq ids'[s]
        /\ held[t] \in Tasks => t \in ids'[held[t]]
    BY <1>2 DEF AddId
  <2>2. \A r \in Runs : runTasks[r] # NoSet => runTasks[r] \in Tasks OBVIOUS
  <2>3. Kept BY <2>1, <2>2 DEF Keeps
  <2> QED BY <1>k, <2>1, <2>3
<1>3. ASSUME NEW t \in Tasks, LoadSet(t) PROVE SetsHaveKeepers'
  <2>1. /\ pc[t] = "untrack" /\ held'[t] = runTasks[RunOf[t]]
        /\ pc'[t] = IF runTasks[RunOf[t]] = NoSet THEN "done" ELSE "removing"
        /\ \A u \in Tasks \ {t} : pc'[u] = pc[u] /\ held'[u] = held[u]
        /\ runTasks' = runTasks /\ ids' = ids
    BY <1>3 DEF LoadSet
  <2>2. Kept BY <2>1 DEF Keeps
  <2> QED BY <1>k, <2>1, <2>2
<1>4. ASSUME NEW t \in Tasks, RemoveId(t) PROVE SetsHaveKeepers'
  <2>1. /\ pc[t] = "removing" /\ held[t] \in Tasks
        /\ pc'[t] = IF ids'[held[t]] = {} THEN "emptied" ELSE "done"
        /\ \A u \in Tasks \ {t} : pc'[u] = pc[u] /\ held'[u] = held[u]
        /\ runTasks' = runTasks
        /\ \A s \in Tasks : ids'[s] = IF s = held[t] THEN ids[s] \ {t} ELSE ids[s]
    BY <1>4 DEF RemoveId, Located
  <2> SUFFICES ASSUME NEW r \in Runs, runTasks[r] # NoSet
               PROVE  \E u \in Tasks : Keeps(u, r)'
    BY <2>1 DEF SetsHaveKeepers
  <2>2. runTasks[r] \in Tasks OBVIOUS
  <2>3. PICK k \in Tasks : Keeps(k, r) BY DEF SetsHaveKeepers
  <2>4. CASE k # t BY <2>1, <2>2, <2>3, <2>4 DEF Keeps
  <2>5. CASE k = t
    <3>1. RunOf[t] = r /\ held[t] = runTasks[r] BY <2>1, <2>3, <2>5 DEF Keeps
    <3>2. CASE ids'[held[t]] = {} BY <2>1, <3>1, <3>2 DEF Keeps
    <3>3. CASE ids'[held[t]] # {}
      <4>1. PICK u \in ids[runTasks[r]] : u # t BY <2>1, <3>1, <3>3
      <4>2. u \in Found(r) /\ u \in Tasks BY <2>2 DEF Found
      <4>3. /\ RunOf[u] = r /\ pc[u] \in {"sending", "sent", "untrack", "removing"}
            /\ pc[u] = "removing" => held[u] = runTasks[r]
        BY <4>2 DEF MembersUnfinished
      <4>4. u \in ids'[runTasks[r]] BY <2>1, <2>2, <4>1
      <4>5. Keeps(u, r)' BY <2>1, <4>1, <4>2, <4>3, <4>4 DEF Keeps
      <4> QED BY <4>2, <4>5
    <3> QED BY <3>2, <3>3
  <2> QED BY <2>4, <2>5
<1>5. ASSUME NEW t \in Tasks, DeleteSet(t) PROVE SetsHaveKeepers'
  <2>1. /\ held' = held /\ ids' = ids
        /\ \A u \in Tasks \ {t} : pc'[u] = pc[u]
        /\ runTasks'[RunOf[t]] = NoSet
        /\ \A q \in Runs \ {RunOf[t]} : runTasks'[q] = runTasks[q]
    BY <1>5, <1>0 DEF DeleteSet
  <2> SUFFICES ASSUME NEW r \in Runs, runTasks'[r] # NoSet
               PROVE  \E u \in Tasks : Keeps(u, r)'
    BY DEF SetsHaveKeepers
  <2>2. r # RunOf[t] /\ runTasks'[r] = runTasks[r] BY <2>1
  <2>3. PICK k \in Tasks : Keeps(k, r) BY <2>2 DEF SetsHaveKeepers
  <2>4. k # t BY <2>2, <2>3 DEF Keeps
  <2>5. Keeps(k, r)' BY <2>1, <2>2, <2>3, <2>4 DEF Keeps
  <2> QED BY <2>5
<1>6. ASSUME NEW t \in Tasks, Send(t) PROVE Kept
  BY <1>6, SendOutcomes DEF SendsIt, SendsNot, Keeps
<1>7. ASSUME NEW t \in Tasks, NEW w \in Workers, Pick(t, w) PROVE Kept
  BY <1>7 DEF Pick, Keeps
<1>8. ASSUME NEW t \in Tasks, NoWorkerOnline(t) \/ Reserve(t) PROVE Kept
  BY <1>8 DEF NoWorkerOnline, Reserve, Keeps
<1>9. ASSUME NEW t \in Tasks, Result(t) PROVE Kept
  BY <1>9 DEF Result, Keeps, OneTaskCommand
<1>10. ASSUME UNCHANGED <<pc, held, ids, runTasks>> PROVE Kept BY <1>10 DEF Keeps
<1> QED
  BY <1>k, <1>1, <1>2, <1>3, <1>4, <1>5, <1>6, <1>7, <1>8, <1>9, <1>10
  DEF Next, Dispatch, Untrack, Pick, NoWorkerOnline, Reserve, Send, Release, Result,
      CancelRun, SendCancel, Pump, Leave, Shutdown, Evict, Heartbeat, vars

-----------------------------------------------------------------------------
(* What is in the channels.                                                 *)

PutsAt(w, c) ==
  /\ Len(send[w]) \in Nat /\ Len(send'[w]) = Len(send[w]) + 1
  /\ send'[w][Len(send[w]) + 1] = c
  /\ \A i \in 1 .. Len(send[w]) : send'[w][i] = send[w][i]
  /\ \A v \in Workers \ {w} : send'[v] = send[v]

(* What is in a channel and is not what was put, was there before.          *)
LEMMA OldCommand ==
  ASSUME NEW b \in Workers, NEW c, PutsAt(b, c), NEW w \in Workers, Len(send[w]) \in Nat,
         NEW j \in 1 .. Len(send'[w]), send'[w][j] # c
  PROVE  j \in 1 .. Len(send[w]) /\ send[w][j] = send'[w][j]
<1>1. CASE w # b BY <1>1 DEF PutsAt
<1>2. CASE w = b
  <2>1. j \in 1 .. Len(send[b]) + 1 BY <1>2 DEF PutsAt
  <2>2. j # Len(send[b]) + 1 BY <1>2 DEF PutsAt
  <2>3. j \in 1 .. Len(send[b]) BY <1>2, <2>1, <2>2
  <2> QED BY <1>2, <2>3 DEF PutsAt
<1> QED BY <1>1, <1>2

TakesAt(w) ==
  /\ Len(send[w]) \in Nat \ {0} /\ Len(send'[w]) = Len(send[w]) - 1
  /\ \A i \in 1 .. Len(send[w]) - 1 : send'[w][i] = send[w][i + 1]
  /\ \A v \in Workers \ {w} : send'[v] = send[v]

(* What the three actions on a channel do to positions in it.               *)
LEMMA ChannelSteps ==
  ASSUME Typed, Located
  PROVE  /\ \A t \in Tasks : SendsIt(t) => best[t] \in Workers /\ PutsAt(best[t], TaskCmd(t))
         /\ \A r \in Runs, w \in Workers, t \in Tasks : SendCancel(r, w, t) =>
              \/ Len(send[w]) < Capacity /\ PutsAt(w, CancelCmd(t)) /\ aimed' = aimed
              \/ send' = send /\ aimed' = IF best[t] = w THEN aimed \ {t} ELSE aimed
         /\ \A w \in Workers : Pump(w) =>
              TakesAt(w) /\ Head(send[w]) = send[w][1] /\ send[w][1] \in Command
<1>1. ASSUME NEW w \in Workers, NEW c \in Command,
             send' = [send EXCEPT ![w] = Append(send[w], c)]
      PROVE  PutsAt(w, c)
  <2>1. send'[w] = Append(send[w], c) /\ \A v \in Workers \ {w} : send'[v] = send[v]
    BY <1>1 DEF Typed
  <2> QED BY <2>1, Put DEF PutsAt
<1>2. ASSUME NEW t \in Tasks, SendsIt(t)
      PROVE  best[t] \in Workers /\ PutsAt(best[t], TaskCmd(t))
  <2>1. best[t] \in Workers BY <1>2 DEF SendsIt, Located, Dispatching
  <2>2. PICK w \in Workers : w = best[t] BY <2>1
  <2>3. send' = [send EXCEPT ![w] = Append(send[w], TaskCmd(t))] BY <1>2, <2>2 DEF SendsIt
  <2>4. PutsAt(w, TaskCmd(t)) BY <1>1, <2>3, CommandsAre
  <2> QED BY <2>1, <2>2, <2>4
<1>3. ASSUME NEW r \in Runs, NEW w \in Workers, NEW t \in Tasks, SendCancel(r, w, t)
      PROVE  \/ Len(send[w]) < Capacity /\ PutsAt(w, CancelCmd(t)) /\ aimed' = aimed
             \/ send' = send /\ aimed' = IF best[t] = w THEN aimed \ {t} ELSE aimed
  <2>1. CASE Len(send[w]) < Capacity
    <3>1. send' = [send EXCEPT ![w] = Append(send[w], CancelCmd(t))] /\ aimed' = aimed
      BY <1>3, <2>1 DEF SendCancel, CancelCmd
    <3> QED BY <1>1, <2>1, <3>1, CommandsAre
  <2>2. CASE ~(Len(send[w]) < Capacity) BY <1>3, <2>2 DEF SendCancel
  <2> QED BY <2>1, <2>2
<1>4. ASSUME NEW w \in Workers, Pump(w)
      PROVE  TakesAt(w) /\ Head(send[w]) = send[w][1] /\ send[w][1] \in Command
  <2>1. send[w] # <<>> BY <1>4 DEF Pump
  <2>2. send'[w] = Tail(send[w]) /\ \A v \in Workers \ {w} : send'[v] = send[v]
    BY <1>4 DEF Pump, Typed
  <2> QED BY <2>1, <2>2, Taken DEF TakesAt
<1> QED BY <1>2, <1>3, <1>4

HasCmd(w, c) == \E i \in 1 .. Len(send[w]) : send[w][i] = c

(* A task command is put once, and taken to the worker.                     *)
LEMMA TaskCommandStep ==
  ASSUME Typed, Located, OneTaskCommand, [Next]_vars PROVE OneTaskCommand'
<1>t. \A w \in Workers : send[w] \in Seq(Command) /\ Len(send[w]) \in Nat
  BY LenProperties DEF Typed
<1> USE DEF track, pool, Go, GiveUp
<1> DEFINE Calm == /\ send' = send /\ running' \subseteq running
                   /\ \A u \in Tasks : pc[u] = "sent" => pc'[u] = "sent" /\ best'[u] = best[u]
<1>c. ASSUME Calm PROVE OneTaskCommand' BY <1>c DEF OneTaskCommand, Typed
<1>1. ASSUME NEW t \in Tasks, Send(t) PROVE OneTaskCommand'
  <2>1. CASE SendsIt(t)
    <3>1. PICK b \in Workers : b = best[t] /\ PutsAt(b, TaskCmd(t))
      BY <2>1, ChannelSteps
    <3>2. /\ pc[t] = "sending" /\ pc'[t] = "sent" /\ best' = best /\ running' = running
          /\ \A u \in Tasks \ {t} : pc'[u] = pc[u]
      BY <2>1 DEF SendsIt, Typed
    <3>3. t \notin running /\ \A v \in Workers : ~HasCmd(v, TaskCmd(t))
      BY <3>2 DEF OneTaskCommand, HasCmd
    <3>4. ASSUME NEW w \in Workers, NEW u \in Tasks, NEW i \in 1 .. Len(send'[w]),
                 send'[w][i] = TaskCmd(u)
          PROVE  /\ pc'[u] = "sent" /\ best'[u] = w /\ u \notin running'
                 /\ \A j \in 1 .. Len(send'[w]) : send'[w][j] = TaskCmd(u) => j = i
      <4>1. CASE u = t
        <5>1. ASSUME NEW j \in 1 .. Len(send'[w]), send'[w][j] = TaskCmd(t)
              PROVE  w = b /\ j = Len(send[b]) + 1
          <6>1. \A k \in 1 .. Len(send[w]) : send[w][k] # TaskCmd(t) BY <3>3 DEF HasCmd
          <6>2. w = b BY <3>1, <5>1, <6>1 DEF PutsAt
          <6>3. j \in 1 .. Len(send[b]) + 1 BY <1>t, <3>1, <5>1, <6>2 DEF PutsAt
          <6>4. j \notin 1 .. Len(send[b]) BY <3>1, <5>1, <6>1, <6>2 DEF PutsAt
          <6> QED BY <1>t, <6>2, <6>3, <6>4
        <5> QED BY <3>1, <3>2, <3>3, <3>4, <4>1, <5>1
      <4>2. CASE u # t
        <5>1. ASSUME NEW j \in 1 .. Len(send'[w]), send'[w][j] = TaskCmd(u)
              PROVE  j \in 1 .. Len(send[w]) /\ send[w][j] = TaskCmd(u)
          <6>1. TaskCmd(u) # TaskCmd(t) BY <4>2, CommandsAre
          <6> QED BY <1>t, <3>1, <5>1, <6>1, OldCommand
        <5> QED BY <3>2, <3>4, <4>2, <5>1 DEF OneTaskCommand
      <4> QED BY <4>1, <4>2
    <3>5. \A u \in running' : pc'[u] = "sent"
      BY <3>2, <3>3 DEF OneTaskCommand, Typed
    <3> QED BY <3>4, <3>5 DEF OneTaskCommand
  <2>2. CASE SendsNot(t) BY <1>c, <2>2 DEF SendsNot, Typed
  <2> QED BY <1>1, <2>1, <2>2, SendOutcomes
<1>2. ASSUME NEW r \in Runs, NEW w \in Workers, NEW t \in Tasks, SendCancel(r, w, t)
      PROVE OneTaskCommand'
  <2>1. pc' = pc /\ best' = best /\ running' = running BY <1>2 DEF SendCancel
  <2>2. CASE PutsAt(w, CancelCmd(t))
    <3>1. ASSUME NEW v \in Workers, NEW u \in Tasks, NEW j \in 1 .. Len(send'[v]),
                 send'[v][j] = TaskCmd(u)
          PROVE  j \in 1 .. Len(send[v]) /\ send[v][j] = TaskCmd(u)
      BY <1>t, <2>2, <3>1, CommandsAre DEF PutsAt
    <3> QED BY <2>1, <3>1 DEF OneTaskCommand
  <2>3. CASE send' = send BY <1>c, <2>1, <2>3
  <2> QED BY <1>2, <2>2, <2>3, ChannelSteps
<1>3. ASSUME NEW w \in Workers, Pump(w) PROVE OneTaskCommand'
  <2>1. TakesAt(w) /\ Head(send[w]) = send[w][1] /\ send[w][1] \in Command
    BY <1>3, ChannelSteps
  <2>2. pc' = pc /\ best' = best BY <1>3 DEF Pump
  <2>3. ASSUME NEW v \in Workers, NEW u \in Tasks, NEW j \in 1 .. Len(send'[v]),
               send'[v][j] = TaskCmd(u)
        PROVE  LET k == IF v = w THEN j + 1 ELSE j
               IN  k \in 1 .. Len(send[v]) /\ send[v][k] = TaskCmd(u)
    BY <1>t, <2>1, <2>3 DEF TakesAt
  <2>4. ASSUME NEW u \in running', u \notin running
        PROVE  u \in Tasks /\ send[w][1] = TaskCmd(u)
    BY <1>3, <2>1, <2>4, CommandsAre DEF Pump
  <2>5. 1 \in 1 .. Len(send[w]) BY <2>1 DEF TakesAt
  <2>6. \A u \in running' : pc'[u] = "sent"
    BY <2>2, <2>4, <2>5 DEF OneTaskCommand
  <2>7. ASSUME NEW v \in Workers, NEW u \in Tasks, NEW i \in 1 .. Len(send'[v]),
               send'[v][i] = TaskCmd(u)
        PROVE  /\ pc'[u] = "sent" /\ best'[u] = v /\ u \notin running'
               /\ \A j \in 1 .. Len(send'[v]) : send'[v][j] = TaskCmd(u) => j = i
    <3>0. Len(send[v]) \in Nat /\ i \in Int BY <1>t
    <3>1. PICK k \in 1 .. Len(send[v]) :
             k = (IF v = w THEN i + 1 ELSE i) /\ send[v][k] = TaskCmd(u)
      BY <2>3, <2>7
    <3>2. /\ pc[u] = "sent" /\ best[u] = v /\ u \notin running
          /\ \A j \in 1 .. Len(send[v]) : send[v][j] = TaskCmd(u) => j = k
      BY <3>1 DEF OneTaskCommand
    <3>3. u \notin running'
      <4>1. SUFFICES ASSUME u \in running' PROVE FALSE OBVIOUS
      <4>2. send[w][1] = TaskCmd(u) BY <2>4, <3>2, <4>1
      <4>3. best[u] = w BY <2>5, <4>2 DEF OneTaskCommand
      <4>4. k = 1 BY <2>5, <3>2, <4>2, <4>3
      <4>5. k = i + 1 BY <3>1, <3>2, <4>3
      <4> QED BY <3>0, <4>4, <4>5, <2>7
    <3>4. ASSUME NEW j \in 1 .. Len(send'[v]), send'[v][j] = TaskCmd(u) PROVE j = i
      <4>1. (IF v = w THEN j + 1 ELSE j) = k BY <2>3, <3>2, <3>4
      <4> QED BY <3>1, <4>1
    <3> QED BY <2>2, <3>2, <3>3, <3>4
  <2> QED BY <2>6, <2>7 DEF OneTaskCommand
<1>4. ASSUME NEW t \in Tasks, Result(t) PROVE OneTaskCommand'
  <2>1. /\ t \in running /\ running' = running \ {t} /\ send' = send /\ best' = best
        /\ \A u \in Tasks \ {t} : pc'[u] = pc[u]
    BY <1>4 DEF Result, Typed
  <2>2. \A v \in Workers : ~HasCmd(v, TaskCmd(t)) BY <2>1 DEF OneTaskCommand, HasCmd
  <2>3. ASSUME NEW v \in Workers, NEW u \in Tasks, NEW i \in 1 .. Len(send'[v]),
               send'[v][i] = TaskCmd(u)
        PROVE  /\ pc'[u] = "sent" /\ best'[u] = v /\ u \notin running'
               /\ \A j \in 1 .. Len(send'[v]) : send'[v][j] = TaskCmd(u) => j = i
    <3>1. u # t BY <2>1, <2>2, <2>3 DEF HasCmd
    <3> QED BY <2>1, <2>3, <3>1 DEF OneTaskCommand
  <2>4. \A u \in running' : pc'[u] = "sent" BY <2>1 DEF OneTaskCommand, Typed
  <2> QED BY <2>3, <2>4 DEF OneTaskCommand
<1> USE DEF Typed
<1>5. ASSUME NEW t \in Tasks, NEW w \in Workers, Pick(t, w) PROVE Calm BY <1>5 DEF Pick
<1>6. ASSUME NEW t \in Tasks, NoWorkerOnline(t) \/ Reserve(t) PROVE Calm
  BY <1>6 DEF NoWorkerOnline, Reserve
<1>7. ASSUME NEW t \in Tasks, TrackTask(t) \/ AddId(t) PROVE Calm
  BY <1>7 DEF TrackTask, AddId
<1>8. ASSUME NEW t \in Tasks, Untrack(t) PROVE Calm
  BY <1>8 DEF Untrack, LoadSet, RemoveId, DeleteSet
<1>9. ASSUME NEW w \in Workers, Leave(w) PROVE Calm BY <1>9 DEF Leave
<1>10. ASSUME UNCHANGED <<pc, best, send, running>> PROVE Calm BY <1>10
<1> QED
  BY <1>c, <1>1, <1>2, <1>3, <1>4, <1>5, <1>6, <1>7, <1>8, <1>9, <1>10
  DEF Next, Dispatch, Release, CancelRun, Shutdown, Evict, Heartbeat, vars

(* A task that was sent is in the channel until it is at the worker.        *)
LEMMA SomewhereStep ==
  ASSUME Typed, Located, OneTaskCommand, SentIsSomewhere, [Next]_vars PROVE SentIsSomewhere'
<1>t. \A w \in Workers : send[w] \in Seq(Command) /\ Len(send[w]) \in Nat
  BY LenProperties DEF Typed
<1>b. \A t \in Tasks : pc[t] = "sent" => best[t] \in Workers BY DEF Located
<1>s. \A t \in Tasks : pc[t] = "sent" /\ conn[best[t]] = "serving" =>
        t \in running \/ HasCmd(best[t], TaskCmd(t))
  BY DEF SentIsSomewhere, HasCmd
<1> DEFINE PooledServe == \A w \in pooled : conn[w] = "serving"
           There == \A t \in Tasks : pc[t] = "sent" /\ conn[best[t]] = "serving" =>
                      t \in running \/ HasCmd(best[t], TaskCmd(t))
<1>d. ASSUME PooledServe', There' PROVE SentIsSomewhere'
  BY <1>d DEF SentIsSomewhere, HasCmd
<1>p. PooledServe BY DEF SentIsSomewhere
<1> HIDE DEF There, PooledServe
<1> USE DEF track, pool, Go, GiveUp
<1> DEFINE Calm == /\ send' = send /\ running' = running
                   /\ \A u \in Tasks : pc'[u] = "sent" => pc[u] = "sent" /\ best'[u] = best[u]
<1>c. ASSUME Calm, conn' = conn, pooled' = pooled PROVE SentIsSomewhere'
  BY <1>c, <1>d, <1>p, <1>s DEF There, PooledServe, HasCmd
<1>1. ASSUME NEW t \in Tasks, Send(t) PROVE SentIsSomewhere'
  <2>1. CASE SendsIt(t)
    <3>1. PICK b \in Workers : b = best[t] /\ PutsAt(b, TaskCmd(t))
      BY <2>1, ChannelSteps
    <3>2. /\ best' = best /\ running' = running /\ conn' = conn /\ pooled' = pooled
          /\ \A u \in Tasks \ {t} : pc'[u] = pc[u]
      BY <2>1 DEF SendsIt, Typed
    <3>3. HasCmd(b, TaskCmd(t))'
      <4>1. Len(send[b]) + 1 \in 1 .. Len(send'[b]) BY <3>1 DEF PutsAt
      <4> QED BY <3>1, <4>1 DEF PutsAt, HasCmd
    <3>4. ASSUME NEW w \in Workers, NEW c, HasCmd(w, c) PROVE HasCmd(w, c)'
      <4>1. PICK i \in 1 .. Len(send[w]) : send[w][i] = c BY <3>4 DEF HasCmd
      <4>2. i \in 1 .. Len(send'[w]) /\ send'[w][i] = c BY <1>t, <3>1, <4>1 DEF PutsAt
      <4> QED BY <4>2 DEF HasCmd
    <3>5. There'
      <4> SUFFICES ASSUME NEW u \in Tasks, pc'[u] = "sent", conn'[best'[u]] = "serving"
                   PROVE  u \in running' \/ HasCmd(best[u], TaskCmd(u))'
        BY <3>2 DEF There
      <4>1. CASE u = t BY <3>1, <3>2, <3>3, <4>1
      <4>2. CASE u # t
        <5>1. best[u] \in Workers /\ (u \in running \/ HasCmd(best[u], TaskCmd(u)))
          BY <1>b, <1>s, <3>2, <4>2
        <5>2. PICK w \in Workers : w = best[u] BY <5>1
        <5>3. best'[u] = w BY <3>2, <5>2
        <5> QED BY <3>2, <3>4, <5>1, <5>2, <5>3
      <4> QED BY <4>1, <4>2
    <3>6. PooledServe' BY <1>p, <3>2 DEF PooledServe
    <3> QED BY <1>d, <3>5, <3>6
  <2>2. CASE SendsNot(t) BY <1>c, <2>2 DEF SendsNot, Typed
  <2> QED BY <1>1, <2>1, <2>2, SendOutcomes
<1>2. ASSUME NEW r \in Runs, NEW w \in Workers, NEW t \in Tasks, SendCancel(r, w, t)
      PROVE SentIsSomewhere'
  <2>1. /\ pc' = pc /\ best' = best /\ running' = running /\ conn' = conn /\ pooled' = pooled
    BY <1>2 DEF SendCancel
  <2>2. CASE PutsAt(w, CancelCmd(t))
    <3>1. ASSUME NEW v \in Workers, NEW c, HasCmd(v, c) PROVE HasCmd(v, c)'
      <4>1. PICK i \in 1 .. Len(send[v]) : send[v][i] = c BY <3>1 DEF HasCmd
      <4>2. i \in 1 .. Len(send'[v]) /\ send'[v][i] = c BY <1>t, <2>2, <4>1 DEF PutsAt
      <4> QED BY <4>2 DEF HasCmd
    <3>2. There'
      <4> SUFFICES ASSUME NEW u \in Tasks, pc'[u] = "sent", conn'[best'[u]] = "serving"
                   PROVE  u \in running' \/ HasCmd(best[u], TaskCmd(u))'
        BY <2>1 DEF There
      <4>1. best[u] \in Workers /\ (u \in running \/ HasCmd(best[u], TaskCmd(u)))
        BY <1>b, <1>s, <2>1
      <4>2. PICK x \in Workers : x = best[u] BY <4>1
      <4>3. best'[u] = x BY <2>1, <4>2
      <4> QED BY <2>1, <3>1, <4>1, <4>2, <4>3
    <3>3. PooledServe' BY <1>p, <2>1 DEF PooledServe
    <3> QED BY <1>d, <3>2, <3>3
  <2>3. CASE send' = send BY <1>c, <2>1, <2>3
  <2> QED BY <1>2, <2>2, <2>3, ChannelSteps
<1>3. ASSUME NEW w \in Workers, Pump(w) PROVE SentIsSomewhere'
  <2>1. TakesAt(w) /\ Head(send[w]) = send[w][1] /\ send[w][1] \in Command
    BY <1>3, ChannelSteps
  <2>2. pc' = pc /\ best' = best /\ conn' = conn /\ pooled' = pooled BY <1>3 DEF Pump
  <2>3. running \subseteq running' BY <1>3 DEF Pump
  <2>4. There'
    <3> SUFFICES ASSUME NEW u \in Tasks, pc'[u] = "sent", conn'[best'[u]] = "serving"
                 PROVE  u \in running' \/ HasCmd(best[u], TaskCmd(u))'
      BY <2>2 DEF There
    <3>1. PICK v \in Workers : v = best[u] /\ v = best'[u] BY <1>b, <2>2
    <3>2. u \in running \/ HasCmd(v, TaskCmd(u)) BY <1>s, <2>2, <3>1
    <3>3. CASE u \in running BY <2>3, <3>3
    <3>4. CASE HasCmd(v, TaskCmd(u))
      <4>1. PICK i \in 1 .. Len(send[v]) : send[v][i] = TaskCmd(u) BY <3>4 DEF HasCmd
      <4>2. CASE v # w
        <5>1. send'[v] = send[v] BY <2>1, <4>2 DEF TakesAt
        <5>2. HasCmd(v, TaskCmd(u))' BY <4>1, <5>1 DEF HasCmd
        <5> QED BY <3>1, <5>2
      <4>3. CASE v = w /\ i = 1
        <5>1. Head(send[w]) = TaskCmd(u) /\ conn[w] = "serving"
          BY <2>1, <2>2, <3>1, <4>1, <4>3
        <5>2. u \in running' BY <1>3, <5>1 DEF Pump, TaskCmd
        <5> QED BY <5>2
      <4>4. CASE v = w /\ i # 1
        <5>1. i - 1 \in 1 .. Len(send'[v]) /\ send'[v][i - 1] = TaskCmd(u)
          BY <1>t, <2>1, <4>1, <4>4 DEF TakesAt
        <5>2. HasCmd(v, TaskCmd(u))' BY <5>1 DEF HasCmd
        <5> QED BY <3>1, <5>2
      <4> QED BY <4>2, <4>3, <4>4
    <3> QED BY <3>2, <3>3, <3>4
  <2>5. PooledServe' BY <1>p, <2>2 DEF PooledServe
  <2> QED BY <1>d, <2>4, <2>5
<1>4. ASSUME NEW t \in Tasks, Result(t) PROVE SentIsSomewhere'
  <2>1. /\ running' = running \ {t} /\ send' = send /\ best' = best /\ conn' = conn
        /\ pooled' = pooled /\ \A u \in Tasks \ {t} : pc'[u] = pc[u]
        /\ pc'[t] = "untrack"
    BY <1>4 DEF Result, Typed
  <2>2. There'
    <3> SUFFICES ASSUME NEW u \in Tasks, pc'[u] = "sent", conn'[best'[u]] = "serving"
                 PROVE  u \in running' \/ HasCmd(best[u], TaskCmd(u))'
      BY <2>1 DEF There
    <3> QED BY <1>s, <2>1 DEF HasCmd
  <2>3. PooledServe' BY <1>p, <2>1 DEF PooledServe
  <2> QED BY <1>d, <2>2, <2>3
<1>5. ASSUME NEW w \in Workers, Leave(w) PROVE SentIsSomewhere'
  <2>1. /\ running' = running \ At(w) /\ send' = send /\ best' = best /\ pc' = pc
        /\ pooled' = pooled \ {w} /\ conn'[w] # "serving"
        /\ \A v \in Workers \ {w} : conn'[v] = conn[v]
    BY <1>5 DEF Leave, Typed
  <2>2. There'
    <3> SUFFICES ASSUME NEW u \in Tasks, pc'[u] = "sent", conn'[best'[u]] = "serving"
                 PROVE  u \in running' \/ HasCmd(best[u], TaskCmd(u))'
      BY <2>1 DEF There
    <3>1. best[u] \in Workers \ {w} /\ conn[best[u]] = "serving" BY <1>b, <2>1
    <3>2. u \notin At(w) BY <3>1 DEF At
    <3> QED BY <1>s, <2>1, <3>1, <3>2 DEF HasCmd
  <2>3. PooledServe' BY <1>p, <2>1 DEF PooledServe, Typed
  <2> QED BY <1>d, <2>2, <2>3
<1>6. ASSUME NEW w \in Workers, Shutdown(w) PROVE SentIsSomewhere'
  <2>1. /\ UNCHANGED <<running, send, best, pc, pooled>>
        /\ conn[w] = "leaving" /\ conn'[w] = "gone"
        /\ \A v \in Workers \ {w} : conn'[v] = conn[v]
    BY <1>6 DEF Shutdown, Typed
  <2>2. There'
    <3> SUFFICES ASSUME NEW u \in Tasks, pc'[u] = "sent", conn'[best'[u]] = "serving"
                 PROVE  u \in running' \/ HasCmd(best[u], TaskCmd(u))'
      BY <2>1 DEF There
    <3>1. conn[best[u]] = "serving" BY <1>b, <2>1
    <3> QED BY <1>s, <2>1, <3>1 DEF HasCmd
  <2>3. PooledServe' BY <1>p, <2>1 DEF PooledServe, Typed
  <2> QED BY <1>d, <2>2, <2>3
<1>7. ASSUME NEW w \in Workers, Evict(w) PROVE SentIsSomewhere'
  <2>1. UNCHANGED <<running, send, best, pc, conn>> /\ pooled' \subseteq pooled
    BY <1>7 DEF Evict
  <2>2. There' BY <1>s, <2>1 DEF There, HasCmd
  <2>3. PooledServe' BY <1>p, <2>1 DEF PooledServe
  <2> QED BY <1>d, <2>2, <2>3
<1> USE DEF Typed
<1>8. ASSUME NEW t \in Tasks, NEW w \in Workers, Pick(t, w) PROVE Calm BY <1>8 DEF Pick
<1>9. ASSUME NEW t \in Tasks, NoWorkerOnline(t) \/ Reserve(t) PROVE Calm
  BY <1>9 DEF NoWorkerOnline, Reserve
<1>10. ASSUME NEW t \in Tasks, TrackTask(t) \/ AddId(t) PROVE Calm
  BY <1>10 DEF TrackTask, AddId
<1>11. ASSUME NEW t \in Tasks, Untrack(t) PROVE Calm
  BY <1>11 DEF Untrack, LoadSet, RemoveId, DeleteSet
<1>12. ASSUME UNCHANGED <<pc, best, send, running>> PROVE Calm BY <1>12
<1> QED
  BY <1>c, <1>1, <1>2, <1>3, <1>4, <1>5, <1>6, <1>7, <1>8, <1>9, <1>10, <1>11, <1>12
  DEF Next, Dispatch, Untrack, Pick, NoWorkerOnline, Reserve, TrackTask, AddId, LoadSet,
      RemoveId, DeleteSet, Release, CancelRun, Heartbeat, vars

-----------------------------------------------------------------------------
(* Cancellation.                                                            *)

(* A broadcast stays a broadcast of the tasks of its run.                   *)
LEMMA BroadcastStep ==
  ASSUME Typed, Located, MembersUnfinished, BroadcastsOwnTasks, [Next]_vars
  PROVE  BroadcastsOwnTasks'
<1> USE DEF track, pool, Go, GiveUp
<1>0. RunOf \in [Tasks -> Runs] BY TaskDispatchAssumption
<1> DEFINE Fewer == /\ aimed' \subseteq aimed /\ \A t \in aimed' : pc'[t] = "sent"
                    /\ \A r \in Runs : /\ bcast'[r].called = bcast[r].called
                                       /\ bcast'[r].todo \subseteq bcast[r].todo
<1>f. ASSUME Fewer PROVE BroadcastsOwnTasks'
  <2>1. \A t \in aimed' : bcast'[RunOf[t]].called BY <1>0, <1>f DEF BroadcastsOwnTasks, Typed
  <2>2. \A r \in Runs : \A p \in bcast'[r].todo : RunOf[p[2]] = r
    BY <1>f DEF BroadcastsOwnTasks
  <2> QED BY <1>f, <2>1, <2>2 DEF BroadcastsOwnTasks
<1> DEFINE Calm == /\ aimed' = aimed /\ bcast' = bcast
                   /\ \A t \in Tasks : pc[t] = "sent" => pc'[t] = "sent"
<1>c. ASSUME Calm PROVE BroadcastsOwnTasks' BY <1>c, <1>f DEF BroadcastsOwnTasks, Typed
<1>1. ASSUME NEW r \in Runs, CancelRun(r) PROVE BroadcastsOwnTasks'
  <2>1. \A t \in Found(r) : t \in Tasks /\ RunOf[t] = r
    BY DEF MembersUnfinished, Typed, Found
  <2>2. /\ aimed' = aimed \cup {t \in Found(r) : pc[t] = "sent"} /\ pc' = pc
        /\ bcast'[r].called /\ bcast'[r].todo = pooled \X Found(r)
        /\ \A q \in Runs \ {r} : bcast'[q] = bcast[q]
    BY <1>1 DEF CancelRun, Audience, Typed
  <2>3. \A t \in aimed' : pc'[t] = "sent" /\ bcast'[RunOf[t]].called
    BY <1>0, <2>1, <2>2 DEF BroadcastsOwnTasks, Typed
  <2>4. \A q \in Runs : \A p \in bcast'[q].todo : RunOf[p[2]] = q
    BY <2>1, <2>2 DEF BroadcastsOwnTasks
  <2> QED BY <2>3, <2>4 DEF BroadcastsOwnTasks
<1>2. ASSUME NEW r \in Runs, NEW w \in Workers, NEW t \in Tasks, SendCancel(r, w, t)
      PROVE BroadcastsOwnTasks'
  <2>1. aimed' \subseteq aimed /\ pc' = pc BY <1>2 DEF SendCancel
  <2>2. bcast[r] \in [called : BOOLEAN, todo : SUBSET (Workers \X Tasks)] BY DEF Typed
  <2>3. \A q \in Runs : /\ bcast'[q].called = bcast[q].called
                        /\ bcast'[q].todo \subseteq bcast[q].todo
    BY <1>2, <2>2 DEF SendCancel, Typed
  <2> QED BY <1>f, <2>1, <2>3 DEF BroadcastsOwnTasks
<1>3. ASSUME NEW w \in Workers, Pump(w) PROVE BroadcastsOwnTasks'
  <2>1. aimed' \subseteq aimed /\ pc' = pc /\ bcast' = bcast BY <1>3 DEF Pump
  <2> QED BY <1>f, <2>1 DEF BroadcastsOwnTasks
<1>4. ASSUME NEW t \in Tasks, Result(t) PROVE BroadcastsOwnTasks'
  <2>1. /\ aimed' = aimed \ {t} /\ bcast' = bcast
        /\ \A u \in Tasks \ {t} : pc'[u] = pc[u]
    BY <1>4 DEF Result, Typed
  <2> QED BY <1>f, <2>1 DEF BroadcastsOwnTasks, Typed
<1> USE DEF Typed
<1>5. ASSUME NEW t \in Tasks, NEW w \in Workers, Pick(t, w) PROVE Calm BY <1>5 DEF Pick
<1>6. ASSUME NEW t \in Tasks, NoWorkerOnline(t) \/ Reserve(t) PROVE Calm
  BY <1>6 DEF NoWorkerOnline, Reserve
<1>7. ASSUME NEW t \in Tasks, TrackTask(t) \/ AddId(t) PROVE Calm
  BY <1>7 DEF TrackTask, AddId
<1>8. ASSUME NEW t \in Tasks, Untrack(t) PROVE Calm
  BY <1>8 DEF Untrack, LoadSet, RemoveId, DeleteSet
<1>9. ASSUME NEW t \in Tasks, Send(t) PROVE Calm
  BY <1>9, SendOutcomes DEF SendsIt, SendsNot
<1>10. ASSUME UNCHANGED <<pc, bcast, aimed>> PROVE Calm BY <1>10
<1> QED
  BY <1>c, <1>1, <1>2, <1>3, <1>4, <1>5, <1>6, <1>7, <1>8, <1>9, <1>10
  DEF Next, Dispatch, Release, Leave, Shutdown, Evict, Heartbeat, vars

\* The cancel command of a task is in its worker's channel behind the task.
Behind(w, t) ==
  \E i \in 1 .. Len(send[w]) :
    /\ send[w][i] = CancelCmd(t)
    /\ \A j \in 1 .. Len(send[w]) : send[w][j] = TaskCmd(t) => j < i

Pending(w, t) == <<w, t>> \in bcast[RunOf[t]].todo \/ Behind(w, t)

(* CancelFollowsTask in these terms.                                        *)
LEMMA Following ==
  CancelFollowsTask <=> \A t \in aimed : best[t] \in pooled => Pending(best[t], t)
BY DEF CancelFollowsTask, Pending, Behind, CancelCmd, TaskCmd

(* Nothing overtakes: every command is put at the end of the channel.       *)
LEMMA FollowsStep ==
  ASSUME Typed, Located, MembersUnfinished, OneTaskCommand, SentIsSomewhere,
         BroadcastsOwnTasks, CancelFollowsTask, [Next]_vars
  PROVE  CancelFollowsTask'
<1>0. RunOf \in [Tasks -> Runs] BY TaskDispatchAssumption
<1>t. \A w \in Workers : send[w] \in Seq(Command) /\ Len(send[w]) \in Nat
  BY LenProperties DEF Typed
<1>a. \A t \in aimed : /\ t \in Tasks /\ pc[t] = "sent" /\ best[t] \in Workers
                       /\ bcast[RunOf[t]].called
  BY DEF BroadcastsOwnTasks, Located, Typed
<1>p. \A t \in aimed : best[t] \in pooled => Pending(best[t], t) BY Following
<1> DEFINE Follows == \A t \in aimed : \A w \in pooled : w = best[t] => Pending(w, t)
<1>q. Follows BY <1>p
<1>g. ASSUME Follows' PROVE CancelFollowsTask'
  BY <1>g DEF CancelFollowsTask, Pending, Behind, CancelCmd, TaskCmd
<1> USE DEF track, pool, Go, GiveUp
<1> DEFINE Calm == /\ send' = send /\ bcast' = bcast /\ pooled' \subseteq pooled
                   /\ aimed' \subseteq aimed /\ \A t \in aimed : best'[t] = best[t]
<1>c. ASSUME Calm PROVE CancelFollowsTask'
  BY <1>c, <1>g, <1>q DEF Pending, Behind
<1>1. ASSUME NEW t \in Tasks, Send(t) PROVE CancelFollowsTask'
  <2>1. CASE SendsIt(t)
    <3>1. PICK b \in Workers : b = best[t] /\ PutsAt(b, TaskCmd(t))
      BY <2>1, ChannelSteps
    <3>2. best' = best /\ bcast' = bcast /\ pooled' = pooled /\ aimed' = aimed
          /\ t \notin aimed
      BY <1>a, <2>1 DEF SendsIt
    <3>3. ASSUME NEW u \in aimed, NEW w \in pooled, w = best[u] PROVE Pending(w, u)'
      <4>1. u \in Tasks /\ u # t /\ w \in Workers BY <1>a, <3>2 DEF Typed
      <4>2. CASE <<w, u>> \in bcast[RunOf[u]].todo BY <3>2, <4>2 DEF Pending
      <4>3. CASE Behind(w, u)
        <5>1. PICK i \in 1 .. Len(send[w]) : /\ send[w][i] = CancelCmd(u)
                   /\ \A j \in 1 .. Len(send[w]) : send[w][j] = TaskCmd(u) => j < i
          BY <4>3 DEF Behind
        <5>2. i \in 1 .. Len(send'[w]) /\ send'[w][i] = CancelCmd(u)
          BY <1>t, <3>1, <4>1, <5>1 DEF PutsAt
        <5>3. ASSUME NEW j \in 1 .. Len(send'[w]), send'[w][j] = TaskCmd(u) PROVE j < i
          <6>1. j \in 1 .. Len(send[w]) /\ send[w][j] = TaskCmd(u)
            <7>1. TaskCmd(u) # TaskCmd(t) BY <4>1, CommandsAre
            <7> QED BY <1>t, <3>1, <4>1, <5>3, <7>1, OldCommand
          <6> QED BY <5>1, <6>1
        <5>4. Behind(w, u)' BY <5>2, <5>3 DEF Behind
        <5> QED BY <5>4 DEF Pending
      <4> QED BY <1>q, <3>3, <4>2, <4>3 DEF Pending
    <3>4. Follows' BY <3>2, <3>3
    <3> QED BY <1>g, <3>4
  <2>2. CASE SendsNot(t) BY <1>c, <2>2 DEF SendsNot
  <2> QED BY <1>1, <2>1, <2>2, SendOutcomes
<1>2. ASSUME NEW r \in Runs, CancelRun(r) PROVE CancelFollowsTask'
  <2>1. \A t \in Found(r) : t \in Tasks /\ RunOf[t] = r
    BY DEF MembersUnfinished, Typed, Found
  <2>2. /\ aimed' = aimed \cup {t \in Found(r) : pc[t] = "sent"}
        /\ UNCHANGED <<best, send, pooled>>
        /\ ~bcast[r].called /\ bcast'[r].todo = pooled \X Found(r)
        /\ \A q \in Runs \ {r} : bcast'[q] = bcast[q]
    BY <1>2 DEF CancelRun, Audience, Typed
  <2>3. ASSUME NEW u \in aimed', NEW w \in pooled, w = best[u] PROVE Pending(w, u)'
    <3>1. CASE u \in Found(r)
      <4>1. <<w, u>> \in bcast'[RunOf[u]].todo BY <2>1, <2>2, <3>1
      <4> QED BY <4>1 DEF Pending
    <3>2. CASE u \in aimed
      <4>1. Pending(w, u) BY <1>q, <2>3, <3>2
      <4>2. RunOf[u] \in Runs \ {r} BY <1>0, <1>a, <2>2, <3>2
      <4> QED BY <2>2, <4>1, <4>2 DEF Pending, Behind
    <3> QED BY <2>2, <3>1, <3>2
  <2>4. Follows' BY <2>2, <2>3
  <2> QED BY <1>g, <2>4
<1>3. ASSUME NEW r \in Runs, NEW x \in Workers, NEW t \in Tasks, SendCancel(r, x, t)
      PROVE CancelFollowsTask'
  <2>1. /\ best' = best /\ pooled' = pooled /\ aimed' \subseteq aimed
        /\ <<x, t>> \in bcast[r].todo
        /\ \A q \in Runs \ {r} : bcast'[q] = bcast[q]
    BY <1>3 DEF SendCancel, Typed
  <2>2. bcast'[r].todo = bcast[r].todo \ {<<x, t>>}
    <3>1. bcast[r] \in [called : BOOLEAN, todo : SUBSET (Workers \X Tasks)] BY DEF Typed
    <3> QED BY <1>3, <3>1 DEF SendCancel, Typed
  <2>3. ASSUME NEW u \in aimed', NEW w \in pooled, w = best[u] PROVE Pending(w, u)'
    <3>1. u \in aimed /\ u \in Tasks /\ w \in Workers /\ RunOf[u] \in Runs
      BY <1>0, <1>a, <2>1 DEF Typed
    <3>2. Pending(w, u) BY <1>q, <2>3, <3>1
    <3>3. CASE Behind(w, u)
      <4>1. CASE PutsAt(x, CancelCmd(t))
        <5>1. PICK i \in 1 .. Len(send[w]) : /\ send[w][i] = CancelCmd(u)
                   /\ \A j \in 1 .. Len(send[w]) : send[w][j] = TaskCmd(u) => j < i
          BY <3>3 DEF Behind
        <5>2. i \in 1 .. Len(send'[w]) /\ send'[w][i] = CancelCmd(u)
          BY <1>t, <3>1, <4>1, <5>1 DEF PutsAt
        <5>3. ASSUME NEW j \in 1 .. Len(send'[w]), send'[w][j] = TaskCmd(u) PROVE j < i
          <6>1. j \in 1 .. Len(send[w]) /\ send[w][j] = TaskCmd(u)
            <7>1. TaskCmd(u) # CancelCmd(t) BY <3>1, CommandsAre
            <7> QED BY <1>t, <3>1, <4>1, <5>3, <7>1, OldCommand
          <6> QED BY <5>1, <6>1
        <5>4. Behind(w, u)' BY <5>2, <5>3 DEF Behind
        <5> QED BY <5>4 DEF Pending
      <4>2. CASE send' = send BY <3>3, <4>2 DEF Pending, Behind
      <4> QED BY <1>3, <4>1, <4>2, ChannelSteps
    <3>4. CASE <<w, u>> \in bcast'[RunOf[u]].todo BY <3>4 DEF Pending
    <3>5. CASE <<w, u>> \in bcast[RunOf[u]].todo /\ <<w, u>> \notin bcast'[RunOf[u]].todo
      <4>1. w = x /\ u = t BY <2>1, <2>2, <3>1, <3>5
      <4>2. CASE PutsAt(x, CancelCmd(t))
        <5>1. Len(send[w]) + 1 \in 1 .. Len(send'[w])
              /\ send'[w][Len(send[w]) + 1] = CancelCmd(u)
          BY <4>1, <4>2 DEF PutsAt
        <5>2. ASSUME NEW j \in 1 .. Len(send'[w]), send'[w][j] = TaskCmd(u)
              PROVE  j < Len(send[w]) + 1
          <6>1. j # Len(send[w]) + 1 BY <3>1, <5>1, <5>2, CommandsAre
          <6> QED BY <1>t, <4>1, <4>2, <6>1 DEF PutsAt
        <5>3. Behind(w, u)' BY <5>1, <5>2 DEF Behind
        <5> QED BY <5>3 DEF Pending
      <4>3. CASE aimed' = (IF best[t] = x THEN aimed \ {t} ELSE aimed)
        BY <2>3, <4>1, <4>3
      <4> QED BY <1>3, <4>2, <4>3, ChannelSteps
    <3> QED BY <3>2, <3>3, <3>4, <3>5 DEF Pending
  <2>4. Follows' BY <2>1, <2>3
  <2> QED BY <1>g, <2>4
<1>4. ASSUME NEW x \in Workers, Pump(x) PROVE CancelFollowsTask'
  <2>1. TakesAt(x) /\ Head(send[x]) = send[x][1] /\ send[x][1] \in Command
    BY <1>4, ChannelSteps
  <2>2. /\ best' = best /\ pooled' = pooled /\ bcast' = bcast /\ aimed' \subseteq aimed
    BY <1>4 DEF Pump
  <2>3. ASSUME NEW u \in aimed', NEW w \in pooled, w = best[u] PROVE Pending(w, u)'
    <3>1. u \in aimed /\ u \in Tasks /\ pc[u] = "sent" /\ w \in Workers
      BY <1>a, <2>2 DEF Typed
    <3>2. CASE <<w, u>> \in bcast[RunOf[u]].todo BY <2>2, <3>2 DEF Pending
    <3>3. CASE Behind(w, u)
      <4>1. PICK i \in 1 .. Len(send[w]) : /\ send[w][i] = CancelCmd(u)
                 /\ \A j \in 1 .. Len(send[w]) : send[w][j] = TaskCmd(u) => j < i
        BY <3>3 DEF Behind
      <4>2. CASE w # x
        <5>1. send'[w] = send[w] BY <2>1, <3>1, <4>2 DEF TakesAt
        <5> QED BY <3>3, <5>1 DEF Pending, Behind
      <4>3. CASE w = x /\ i = 1
        <5>1. \A j \in 1 .. Len(send[w]) : send[w][j] # TaskCmd(u)
          BY <1>t, <3>1, <4>1, <4>3
        <5>2. u \in running BY <2>3, <3>1, <5>1 DEF SentIsSomewhere
        <5>3. Head(send[x]) = CancelCmd(u) BY <2>1, <4>1, <4>3
        <5>4. u \in At(x) BY <2>3, <3>1, <4>3 DEF At
        <5>5. u \notin aimed' BY <1>4, <5>2, <5>3, <5>4 DEF Pump, CancelCmd
        <5> QED BY <2>3, <5>5
      <4>4. CASE w = x /\ i # 1
        <5>1. i - 1 \in 1 .. Len(send'[w]) /\ send'[w][i - 1] = CancelCmd(u)
          BY <1>t, <2>1, <3>1, <4>1, <4>4 DEF TakesAt
        <5>2. ASSUME NEW j \in 1 .. Len(send'[w]), send'[w][j] = TaskCmd(u) PROVE j < i - 1
          <6>1. j + 1 \in 1 .. Len(send[w]) /\ send[w][j + 1] = TaskCmd(u)
            BY <1>t, <2>1, <4>4, <5>2 DEF TakesAt
          <6>2. j + 1 < i BY <4>1, <6>1
          <6> QED BY <1>t, <3>1, <6>2
        <5>3. Behind(w, u)' BY <5>1, <5>2 DEF Behind
        <5> QED BY <5>3 DEF Pending
      <4> QED BY <4>2, <4>3, <4>4
    <3> QED BY <1>q, <2>3, <3>1, <3>2, <3>3 DEF Pending
  <2>4. Follows' BY <2>2, <2>3
  <2> QED BY <1>g, <2>4
<1>5. ASSUME NEW t \in Tasks, NEW w \in Workers, Pick(t, w) PROVE Calm
  BY <1>a, <1>5 DEF Pick, Typed
<1>6. ASSUME NEW t \in Tasks, Result(t) PROVE Calm BY <1>6 DEF Result
<1>7. ASSUME NEW w \in Workers, Leave(w) \/ Evict(w) PROVE Calm BY <1>7 DEF Leave, Evict
<1>8. ASSUME UNCHANGED <<best, send, bcast, pooled, aimed>> PROVE Calm BY <1>8
<1> QED
  BY <1>c, <1>1, <1>2, <1>3, <1>4, <1>5, <1>6, <1>7, <1>8
  DEF Next, Dispatch, Untrack, NoWorkerOnline, Reserve, TrackTask, AddId, LoadSet, RemoveId,
      DeleteSet, Release, Shutdown, Heartbeat, vars

-----------------------------------------------------------------------------
(* The invariant and what follows from it.                                  *)

(* Nothing is dispatched, tracked or sent at the start.                     *)
LEMMA TrackingInit == Init => Tracking /\ CancelFollowsTask
<1> SUFFICES ASSUME Init PROVE Tracking /\ CancelFollowsTask OBVIOUS
<1> USE TaskDispatchAssumption DEF Init
<1>1. Typed
  <2>1. send \in [Workers -> Seq(Command)] OBVIOUS
  <2>2. bcast \in [Runs -> [called : BOOLEAN, todo : SUBSET (Workers \X Tasks)]] OBVIOUS
  <2>3. load \in [Workers -> Int] OBVIOUS
  <2> QED BY <2>1, <2>2, <2>3 DEF Typed
<1>2. ChannelsBounded BY DEF ChannelsBounded
<1>3. Located /\ TrackedFrom /\ OneInHand
  BY DEF Located, TrackedFrom, OneInHand, InHand, Dispatching
<1>4. LoadDrift
  <2>1. Cardinality({}) = 0 BY FS_EmptySet
  <2>2. \A w \in Workers : ReservedAt(w) = {} /\ load[w] = 0 BY DEF ReservedAt
  <2>3. MaxConcurrency \in Nat /\ Cardinality(Runs) \in Nat BY FS_CardinalityType
  <2> HIDE DEF Init
  <2>4. \A w \in Workers : load[w] - Cardinality(ReservedAt(w)) = 0 BY <2>1, <2>2
  <2> QED BY <2>3, <2>4 DEF LoadDrift
<1>5. FreshSets /\ MembersUnfinished /\ SetsHaveKeepers
  BY DEF FreshSets, MembersUnfinished, SetsHaveKeepers, Found
<1>6. OneTaskCommand /\ SentIsSomewhere
  BY DEF OneTaskCommand, SentIsSomewhere
<1>7. BroadcastsOwnTasks /\ CancelFollowsTask
  BY DEF BroadcastsOwnTasks, CancelFollowsTask
<1> QED BY <1>1, <1>2, <1>3, <1>4, <1>5, <1>6, <1>7 DEF Tracking

(* Every step of the loops, the handlers, CancelRun and the connections     *)
(* keeps it.                                                                *)
LEMMA TrackingStep ==
  Tracking /\ CancelFollowsTask /\ [Next]_vars => (Tracking /\ CancelFollowsTask)'
<1> SUFFICES ASSUME Tracking, CancelFollowsTask, [Next]_vars
             PROVE  Tracking' /\ CancelFollowsTask'
  OBVIOUS
<1> USE DEF Tracking
<1>1. Typed' BY TypedStep
<1>2. ChannelsBounded' BY BoundedStep
<1>3. Located' BY LocatedStep
<1>4. TrackedFrom' BY TrackedFromStep
<1>5. OneInHand' BY OneInHandStep
<1>6. LoadDrift' BY LoadDriftStep
<1>7. FreshSets' BY FreshSetsStep
<1>8. MembersUnfinished' BY MembersStep
<1>9. SetsHaveKeepers' BY KeepersStep
<1>10. OneTaskCommand' BY TaskCommandStep
<1>11. SentIsSomewhere' BY SomewhereStep
<1>12. BroadcastsOwnTasks' BY BroadcastStep
<1>13. CancelFollowsTask' BY FollowsStep
<1> QED
  BY <1>1, <1>2, <1>3, <1>4, <1>5, <1>6, <1>7, <1>8, <1>9, <1>10, <1>11, <1>12, <1>13

(* The invariant holds in every state.                                      *)
LEMMA TrackingInvariant == Spec => [](Tracking /\ CancelFollowsTask)
BY TrackingInit, TrackingStep, PTL DEF Spec

(* The drift of a counter is at most one per loop, however heartbeats and   *)
(* reservations race.                                                       *)
LEMMA LoadsBounded == ASSUME Tracking PROVE load \in [Workers -> Loads]
<1>1. MaxConcurrency \in Nat /\ Cardinality(Runs) \in Nat
  BY FS_CardinalityType, TaskDispatchAssumption
<1>2. ASSUME NEW w \in Workers PROVE load[w] \in Loads
  <2>1. /\ Cardinality(ReservedAt(w)) \in 0 .. Cardinality(Runs) /\ load[w] \in Int
        /\ load[w] - Cardinality(ReservedAt(w)) <= MaxConcurrency
        /\ load[w] - Cardinality(ReservedAt(w)) >= 0 - Cardinality(Runs)
    BY ReservedFinite DEF Tracking, Typed, LoadDrift
  <2> QED BY <1>1, <2>1 DEF Loads
<1> QED BY <1>2 DEF Tracking, Typed

\* Variables have their types, taskRuns has exactly the tasks between the two
\* ends of their tracking, no channel exceeds its capacity, and a load counter
\* is off by at most one for every run loop (dispatch.go: Dispatch, SetLoad).
THEOREM TypeCorrect == Spec => []TypeOK
<1>1. ASSUME Tracking PROVE TypeOK
  <2>1. \A w \in Workers : Range(send[w]) \subseteq Command
    <3> SUFFICES ASSUME NEW w \in Workers PROVE Range(send[w]) \subseteq Command OBVIOUS
    <3>1. send[w] \in Seq(Command) BY <1>1 DEF Tracking, Typed
    <3>2. DOMAIN send[w] = 1 .. Len(send[w])
          /\ \A i \in 1 .. Len(send[w]) : send[w][i] \in Command
      BY <3>1
    <3> QED BY <3>2 DEF Range
  <2>2. \A r \in Runs : bcast[r].todo \subseteq Workers \X Tasks
    <3> SUFFICES ASSUME NEW r \in Runs PROVE bcast[r].todo \subseteq Workers \X Tasks OBVIOUS
    <3>1. bcast[r] \in [called : BOOLEAN, todo : SUBSET (Workers \X Tasks)]
      BY <1>1 DEF Tracking, Typed
    <3> QED BY <3>1
  <2>3. load \in [Workers -> Loads] BY <1>1, LoadsBounded
  <2> QED BY <1>1, <2>1, <2>2, <2>3 DEF TypeOK, Tracking, Typed, ChannelsBounded, TrackedFrom
<1>2. Tracking => TypeOK BY <1>1
<1> QED BY <1>2, TrackingInvariant, PTL

\* No leak in runTasks: when every task of a run is answered or rolled back,
\* whatever the loop and the handlers did in between, the run has no entry
\* (dispatch.go: TrackTask, UntrackTask).
THEOREM NothingIsLeft == Spec => []NothingLeft
<1>1. Tracking => NothingLeft
  BY DEF Tracking, NothingLeft, SetsHaveKeepers, Keeps
<1> QED BY <1>1, TrackingInvariant, PTL

\* CancelRun finds only tasks of its run that are not finished (dispatch.go:
\* CancelRun, UntrackTask).
THEOREM CancelsFindUnfinished == Spec => []CancelsOnlyUnfinished
<1>1. Tracking => CancelsOnlyUnfinished
  BY DEF Tracking, CancelsOnlyUnfinished, MembersUnfinished
<1> QED BY <1>1, TrackingInvariant, PTL

\* The cancel command of a task that was sent goes to its worker and never
\* overtakes the task (dispatch.go: CancelRun, Dispatch; worker_service.go: the
\* pump of Connect).
THEOREM CancelsFollowTasks == Spec => []CancelFollowsTask
BY TrackingInvariant, PTL
=============================================================================
