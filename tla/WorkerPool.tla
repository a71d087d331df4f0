------------------------------ MODULE WorkerPool ------------------------------
(***************************************************************************)
(* The scheduler's pool of workers: Dispatcher.workers (worker id ->       *)
(* connection), the goroutine of every worker connection                   *)
(* (WorkerService.Connect), and the reaper of silent workers. A worker     *)
(* that reconnects does so under its old id on a new connection while the  *)
(* old one may still be served. All workers are of one tenant, so they     *)
(* share its worker_slots.                                                 *)
(*                                                                         *)
(* Abstracted: loads and Send channels (TaskDispatch), capabilities, tags  *)
(* and stress reservations (StressRuns), and time, which shows as          *)
(* heartbeats growing stale.                                               *)
(***************************************************************************)
EXTENDS Integers, FiniteSets

CONSTANTS
  Conns,           (* connections, each used for one registration              *)
  Ids,             (* worker ids                                               *)
  IdOf,            (* the id a connection registers                            *)
  Slots,           (* the tenant's worker_slots quota                          *)
  NoConn           (* no connection                                            *)

ASSUME WorkerPoolAssumption ==
  /\ IdOf \in [Conns -> Ids]
  /\ Slots \in Nat \ {0}
  /\ NoConn \notin Conns
  /\ IsFiniteSet(Ids)

VARIABLES
  pool,    (* Dispatcher.workers                                              *)
  conn,    (* where the goroutine of a connection stands                      *)
  closed,  (* connections whose closed channel is closed                      *)
  fresh,   (* connections whose lastSeen is within staleAfter                 *)
  link     (* the network under a connection                                  *)

vars == <<pool, conn, closed, fresh, link>>

\* The type of every variable; only registered connections are in the pool,
\* under their own id, and until their goroutine has unregistered them.
TypeOK ==
  /\ pool \in [Ids -> Conns \cup {NoConn}]
  /\ \A i \in Ids : pool[i] # NoConn =>
       IdOf[pool[i]] = i /\ conn[pool[i]] \in {"serving", "leaving", "told"}
  /\ conn \in [Conns -> {"new", "serving", "leaving", "told", "unregistered", "gone"}]
  /\ closed \subseteq Conns /\ fresh \subseteq Conns
  /\ link \in [Conns -> {"up", "silent", "down"}]

Init ==
  /\ pool = [i \in Ids |-> NoConn]
  /\ conn = [c \in Conns |-> "new"]
  /\ closed = {} /\ fresh = {}
  /\ link = [c \in Conns |-> "up"]

Online == {i \in Ids : pool[i] # NoConn}

-----------------------------------------------------------------------------
(* A connection: Connect.                                                   *)

QuotaOffByOne == Cardinality(Online) <= Slots
QuotaAdmits   == Cardinality(Online) + 1 <= Slots

RegisterKeepsOld(c) ==
  /\ conn[c] = "new"
  /\ IF QuotaAdmits
       THEN /\ pool' = [pool EXCEPT ![IdOf[c]] = c]
            /\ fresh' = fresh \cup {c}
            /\ conn' = [conn EXCEPT ![c] = "serving"]
       ELSE conn' = [conn EXCEPT ![c] = "gone"] /\ UNCHANGED <<pool, fresh>>
  /\ UNCHANGED <<closed, link>>

RegisterDefersFirst(c) ==
  /\ conn[c] = "new"
  /\ closed' = closed \cup ({pool[IdOf[c]]} \ {NoConn})
  /\ IF QuotaAdmits
       THEN /\ pool' = [pool EXCEPT ![IdOf[c]] = c]
            /\ fresh' = fresh \cup {c}
            /\ conn' = [conn EXCEPT ![c] = "serving"]
       ELSE conn' = [conn EXCEPT ![c] = "leaving"] /\ UNCHANGED <<pool, fresh>>
  /\ UNCHANGED link

\* The old connection of the id is shut down first, even if the quota, which
\* counts it as online, then rejects the new one.
Register(c) ==
  /\ conn[c] = "new"
  /\ closed' = closed \cup ({pool[IdOf[c]]} \ {NoConn})
  /\ IF QuotaAdmits
       THEN /\ pool' = [pool EXCEPT ![IdOf[c]] = c]
            /\ fresh' = fresh \cup {c}
            /\ conn' = [conn EXCEPT ![c] = "serving"]
       ELSE conn' = [conn EXCEPT ![c] = "gone"] /\ UNCHANGED <<pool, fresh>>
  /\ UNCHANGED link

\* A heartbeat: SetLoad goes by the worker's id, so it marks as seen the
\* connection that is in the pool, whichever the event came from.
Heartbeat(c) ==
  /\ conn[c] = "serving" /\ link[c] = "up"
  /\ fresh' = fresh \cup ({pool[IdOf[c]]} \ {NoConn})
  /\ UNCHANGED <<pool, conn, closed, link>>

LeaveOnErrorOnly(c) ==
  /\ conn[c] = "serving" /\ link[c] = "down"
  /\ conn' = [conn EXCEPT ![c] = "leaving"]
  /\ UNCHANGED <<pool, closed, fresh, link>>

\* The loop's select: an error from Recv, or the closed channel. While it can
\* still receive events it may go on doing so after it was closed.
Leave(c) ==
  /\ conn[c] = "serving" /\ (link[c] = "down" \/ c \in closed)
  /\ conn' = [conn EXCEPT ![c] = "leaving"]
  /\ UNCHANGED <<pool, closed, fresh, link>>

\* The first of its deferred calls: the probe hub is told.
LoseSessions(c) ==
  /\ conn[c] = "leaving"
  /\ conn' = [conn EXCEPT ![c] = "told"]
  /\ UNCHANGED <<pool, closed, fresh, link>>

UnregisterById(c) ==
  /\ conn[c] = "told"
  /\ pool' = [pool EXCEPT ![IdOf[c]] = NoConn]
  /\ conn' = [conn EXCEPT ![c] = "unregistered"]
  /\ UNCHANGED <<closed, fresh, link>>

\* The deferred Unregister compares pointers: a connection that has been
\* replaced leaves its successor alone.
Unregister(c) ==
  /\ conn[c] = "told"
  /\ pool' = [pool EXCEPT ![IdOf[c]] = IF @ = c THEN NoConn ELSE @]
  /\ conn' = [conn EXCEPT ![c] = "unregistered"]
  /\ UNCHANGED <<closed, fresh, link>>

\* The goroutine returns, which ends the stream.
Shutdown(c) ==
  /\ conn[c] = "unregistered"
  /\ closed' = closed \cup {c}
  /\ conn' = [conn EXCEPT ![c] = "gone"]
  /\ link' = [link EXCEPT ![c] = "down"]
  /\ fresh' = fresh \ {c}
  /\ UNCHANGED pool

-----------------------------------------------------------------------------
(* The reaper of silent workers, and the world.                             *)

\* The reaper's tick deletes every stale worker and shuts it down, under the
\* write lock.
Stale == {i \in Online : pool[i] \notin fresh}

ReapStaleWorkers ==
  /\ Stale # {}
  /\ pool' = [i \in Ids |-> IF i \in Stale THEN NoConn ELSE pool[i]]
  /\ closed' = closed \cup {pool[i] : i \in Stale}
  /\ UNCHANGED <<conn, fresh, link>>

\* staleAfter passes without a heartbeat.
GrowStale(c) ==
  /\ c \in fresh /\ fresh' = fresh \ {c}
  /\ UNCHANGED <<pool, conn, closed, link>>

\* The worker closes the stream or the connection breaks; or it hangs, and no
\* error is ever seen.
LinkFails(c) ==
  /\ conn[c] = "serving" /\ link[c] = "up"
  /\ \E how \in {"silent", "down"} : link' = [link EXCEPT ![c] = how]
  /\ UNCHANGED <<pool, conn, closed, fresh>>

-----------------------------------------------------------------------------
Serve(c) ==
  \/ Register(c) \/ Heartbeat(c)
  \/ Leave(c) \/ LoseSessions(c) \/ Unregister(c) \/ Shutdown(c)

Next ==
  \/ \E c \in Conns : Serve(c) \/ GrowStale(c) \/ LinkFails(c)
  \/ ReapStaleWorkers

Spec == Init /\ [][Next]_vars

\* Goroutines run, the reaper's ticker ticks and time passes: a connection of a
\* worker that has hung grows stale. Nothing is assumed of workers and networks.
Fairness ==
  /\ \A c \in Conns :
       /\ WF_vars(Leave(c)) /\ WF_vars(LoseSessions(c))
       /\ WF_vars(Unregister(c)) /\ WF_vars(Shutdown(c))
       /\ WF_vars(GrowStale(c) /\ \A o \in Conns : IdOf[o] = IdOf[c] /\ conn[o] = "serving"
                                                      => link[o] # "up")
  /\ WF_vars(ReapStaleWorkers)

FairSpec == Spec /\ Fairness

-----------------------------------------------------------------------------
\* A connection that is served and was not shut down is the one in the pool
\* under its id: a worker that reconnects is never left outside the pool by
\* its predecessor's goroutine, and two connections of an id are never both
\* live.
LiveConnIsPooled ==
  \A c \in Conns : conn[c] = "serving" /\ c \notin closed => pool[IdOf[c]] = c

\* The tenant never has more workers online than its quota.
SlotsRespected == Cardinality(Online) <= Slots

\* In the end every connection that was shut down has been let go by its
\* goroutine, even if the worker has hung and Recv never returns.
ClosedIsLetGo == <>[](\A c \in closed : conn[c] = "gone")

\* In the end no worker that has hung is in the pool, even if an older
\* connection of the same id went on sending heartbeats for a while.
HungLeavesPool == <>[](\A c \in Conns : link[c] = "silent" => pool[IdOf[c]] # c)

\* The registered connections of an id that the probe hub has not been told of.
Owed == [i \in Ids |->
          Cardinality({c \in Conns : IdOf[c] = i /\ conn[c] \in {"serving", "leaving"}})]

Presence == INSTANCE WorkerPresence WITH Workers <- Ids, present <- Online, owed <- Owed

\* What the probe hub relies on (Connect's deferred function, and its early
\* returns before it): the hub is told once of every connection that was
\* registered, whoever has taken its place by then, and of no rejected one.
ImplementsPresence == Presence!PresenceSpec

\* worker_slots, "the number of workers online at a time": a registration is
\* rejected only if with it the tenant would have more workers online.
RejectedOnlyOverQuota ==
  [][\A c \in Conns : conn[c] = "new" /\ conn'[c] = "gone"
       => Cardinality(Online \cup {IdOf[c]}) > Slots]_vars
=============================================================================
