------------------------------- MODULE ProbeHub -------------------------------
(***************************************************************************)
(* The scheduler's hub of UI probe sessions (probe.Hub): a registry that   *)
(* routes a session to the worker that holds its browser, calls that send  *)
(* a command and wait for the reply or a timeout (roundTrip), the sweeper  *)
(* that closes idle sessions, and workers that disconnect and come back,   *)
(* of which the hub sees what WorkerPresence says.                         *)
(* The hub's mutex makes each registry access atomic; a call takes it      *)
(* several times, and everything may happen in between.                    *)
(*                                                                         *)
(* A session object is named after the Open call that made it: the same    *)
(* session id may name a later object. One tenant is modelled (another's   *)
(* calls are turned away at the registry); act stands for act, snapshot,   *)
(* eval and run, which differ in their payload only.                       *)
(***************************************************************************)
EXTENDS Naturals, FiniteSets, WorkerPresence

CONSTANTS
  SessionIds,    (* session ids                                                *)
  Calls,         (* calls of the Copilot, each made once                       *)
  Sweeper,       (* the sweeping goroutine                                     *)
  MaxPerTenant, MaxPerWorker,
  MaxOwed,       (* bound: connections of a worker that are served at a time   *)
  None           (* no session, no worker                                      *)

ASSUME ProbeHubAssumption ==
  /\ MaxPerTenant \in Nat /\ MaxPerWorker \in Nat /\ MaxOwed \in Nat
  /\ Sweeper \notin Calls /\ None \notin Calls \cup Workers \cup SessionIds
  /\ IsFiniteSet(SessionIds)

Procs == Calls \cup {Sweeper}

VARIABLES
  sessions,  (* Hub.sessions: id -> session object                            *)
  home,      (* WorkerID of a session object                                  *)
  idle,      (* objects with LastActive older than IdleTTL, not (yet) aged    *)
  aged,      (* objects older than MaxLifetime                                *)
  pending,   (* processes with an entry in Hub.pending                        *)
  pc,        (* where a call stands                                           *)
  op,        (* what it is                                                    *)
  sid,       (* the session id it is about                                    *)
  expired,   (* what the sweeper has collected                                *)
  doing      (* the object it is closing                                      *)

registry == <<sessions, home, idle, aged>>
sweep    == <<expired, doing>>
hub      == <<pending, pc, op, sid, sweep>>
hubVars  == <<registry, presence, hub>>

Registered == {sessions[i] : i \in SessionIds} \ {None}
On(w) == {o \in Registered : home[o] = w}

\* The type of every variable; a registered session has a worker.
HubTypeOK ==
  /\ sessions \in [SessionIds -> Calls \cup {None}]
  /\ \A i \in SessionIds : sessions[i] # None =>
       sid[sessions[i]] = i /\ home[sessions[i]] \in Workers
  /\ home \in [Calls -> Workers \cup {None}]
  /\ idle \subseteq Calls /\ aged \subseteq Calls
  /\ pending \subseteq Procs
  /\ present \subseteq Workers /\ owed \in [Workers -> Nat]
  /\ pc \in [Procs -> {"idle", "trip", "sending", "waiting", "replied", "leaving",
                       "answered", "failed", "next", "done"}]
  /\ op \in [Procs -> {"open", "act", "close", "sweep"}]
  /\ sid \in [Procs -> SessionIds \cup {None}]
  /\ expired \subseteq Calls /\ doing \in Calls \cup {None}

HubInit ==
  /\ sessions = [i \in SessionIds |-> None]
  /\ home = [c \in Calls |-> None]
  /\ idle = {} /\ aged = {} /\ pending = {}
  /\ PresenceInit
  /\ pc = [p \in Procs |-> "idle"]
  /\ op = [p \in Procs |-> "sweep"]
  /\ sid = [p \in Procs |-> None]
  /\ expired = {} /\ doing = None

Go(p, to) == pc' = [pc EXCEPT ![p] = to]

Begin(c, what, i) ==
  /\ pc[c] = "idle"
  /\ op' = [op EXCEPT ![c] = what] /\ sid' = [sid EXCEPT ![c] = i]

-----------------------------------------------------------------------------
(* The calls.                                                               *)

TenantFull == Cardinality(Registered) >= MaxPerTenant

HasRoomUnchecked(w) == w \in present
\* A candidate of pickWorkerLocked: in the pool (its connection may be broken
\* already) and below the per-worker limit.
HasRoom(w) == w \in present /\ Cardinality(On(w)) < MaxPerWorker

\* Open, up to the round trip: it reuses the session, or registers a new one.
Open(c, i) ==
  /\ Begin(c, "open", i)
  /\ \/ /\ sessions[i] # None
        /\ Go(c, "trip") /\ UNCHANGED registry
     \/ /\ sessions[i] = None /\ ~TenantFull
        /\ \E w \in Workers :
             /\ HasRoom(w)
             /\ sessions' = [sessions EXCEPT ![i] = c]
             /\ home' = [home EXCEPT ![c] = w]
        /\ Go(c, "trip") /\ UNCHANGED <<idle, aged>>
     \/ /\ sessions[i] = None /\ (TenantFull \/ \A w \in Workers : ~HasRoom(w))
        /\ Go(c, "done") /\ UNCHANGED registry
  /\ UNCHANGED <<pending, presence, sweep>>

\* Act and its kin: require marks the session as active.
Act(c, i) ==
  /\ Begin(c, "act", i)
  /\ IF sessions[i] = None
       THEN Go(c, "done") /\ UNCHANGED idle
       ELSE Go(c, "trip") /\ idle' = idle \ {sessions[i]}
  /\ UNCHANGED <<sessions, home, aged, pending, presence, sweep>>

Close(c, i) ==
  /\ Begin(c, "close", i)
  /\ Go(c, IF sessions[i] = None THEN "done" ELSE "trip")
  /\ UNCHANGED <<registry, pending, presence, sweep>>

-----------------------------------------------------------------------------
(* roundTrip: route by the registry, send, wait, and clean up.              *)

Route(p) ==
  LET o == sessions[sid[p]]
  IN /\ pc[p] = "trip"
     /\ \/ o = None /\ Go(p, "failed") /\ UNCHANGED <<sessions, pending>>
        \/ /\ o # None /\ home[o] \notin present
           /\ sessions' = [sessions EXCEPT ![sid[p]] = None]
           /\ Go(p, "failed") /\ UNCHANGED pending
        \/ /\ o # None /\ home[o] \in present
           /\ pending' = pending \cup {p}
           /\ Go(p, "sending") /\ UNCHANGED sessions
     /\ UNCHANGED <<home, idle, aged, presence, op, sid, sweep>>

\* The command is in the worker's channel, or the worker is gone or the
\* caller's context has ended.
Send(p) ==
  /\ pc[p] = "sending"
  /\ Go(p, "waiting") \/ Go(p, "leaving")
  /\ UNCHANGED <<registry, pending, presence, op, sid, sweep>>

\* A reply; the pending entry is taken, so a second one finds nobody.
Deliver(p) ==
  /\ pc[p] = "waiting" /\ p \in pending
  /\ pending' = pending \ {p}
  /\ Go(p, "replied")
  /\ UNCHANGED <<registry, presence, op, sid, sweep>>

TimeoutForgotten(p) == FALSE /\ pc[p] = "waiting" /\ UNCHANGED hubVars

\* The timer of the command, or the caller's context.
Timeout(p) ==
  /\ pc[p] = "waiting" /\ Go(p, "leaving")
  /\ UNCHANGED <<registry, pending, presence, op, sid, sweep>>

EndTripKeepsPending(p) ==
  /\ \/ pc[p] = "replied" /\ Go(p, "answered")
     \/ pc[p] = "leaving" /\ Go(p, "failed")
  /\ UNCHANGED <<registry, pending, presence, op, sid, sweep>>

\* The deferred delete of the pending entry.
EndTrip(p) ==
  /\ \/ pc[p] = "replied" /\ Go(p, "answered")
     \/ pc[p] = "leaving" /\ Go(p, "failed")
  /\ pending' = pending \ {p}
  /\ UNCHANGED <<registry, presence, op, sid, sweep>>

Returned(p) == pc[p] \in {"answered", "failed"}

\* After the round trip: Open, if the reply is a state and not a failure, marks
\* whatever object the id names now as active; Close deletes whatever the id
\* names now, answered or not.
AfterCall(c) ==
  /\ Returned(c) /\ Go(c, "done")
  /\ \/ /\ op[c] = "open" /\ pc[c] = "answered"
        /\ idle' = idle \ {sessions[sid[c]]} /\ UNCHANGED sessions
     \/ op[c] \in {"open", "act"} /\ UNCHANGED <<idle, sessions>>
     \/ op[c] = "close" /\ sessions' = [sessions EXCEPT ![sid[c]] = None] /\ UNCHANGED idle
  /\ UNCHANGED <<home, aged, pending, presence, op, sid, sweep>>

-----------------------------------------------------------------------------
(* The sweeper, one goroutine.                                              *)

Collect ==
  /\ pc[Sweeper] = "idle"
  /\ expired' = {o \in Registered : o \in idle \cup aged}
  /\ expired' # {} /\ Go(Sweeper, "next")
  /\ UNCHANGED <<registry, pending, presence, op, sid, doing>>

SweepNext ==
  /\ pc[Sweeper] = "next"
  /\ \E o \in expired :
       /\ doing' = o /\ expired' = expired \ {o}
       /\ sid' = [sid EXCEPT ![Sweeper] = sid[o]]
  /\ Go(Sweeper, "trip")
  /\ UNCHANGED <<registry, pending, presence, op>>

\* The object is deleted if the id still names it.
AfterSweep ==
  /\ Returned(Sweeper)
  /\ sessions' = [sessions EXCEPT ![sid[Sweeper]] = IF @ = doing THEN None ELSE @]
  /\ doing' = None
  /\ Go(Sweeper, IF expired = {} THEN "idle" ELSE "next")
  /\ UNCHANGED <<home, idle, aged, pending, presence, op, sid, expired>>

-----------------------------------------------------------------------------
(* Time and workers.                                                        *)

GrowIdle(o) ==
  /\ o \in Registered \ (idle \cup aged) /\ idle' = idle \cup {o}
  /\ UNCHANGED <<sessions, home, aged, pending, presence, pc, op, sid, sweep>>

GrowOld(o) ==
  /\ o \in Registered \ aged /\ aged' = aged \cup {o}
  /\ idle' = idle \ {o}
  /\ UNCHANGED <<sessions, home, pending, presence, pc, op, sid, sweep>>

WorkerAppears(w) ==
  owed[w] < MaxOwed /\ Appear(w) /\ UNCHANGED <<registry, hub>>

WorkersVanish(gone) == Vanish(gone) /\ UNCHANGED <<registry, hub>>

\* The sessions go by the worker's id, whichever of its connections has ended.
OnWorkerDisconnect(w) ==
  /\ Disconnect(w)
  /\ sessions' = [i \in SessionIds |-> IF sessions[i] \in On(w) THEN None ELSE sessions[i]]
  /\ UNCHANGED <<home, idle, aged, hub>>

Trip(p) == Route(p) \/ Send(p) \/ Deliver(p) \/ Timeout(p) \/ EndTrip(p)

HubNext ==
  \/ \E c \in Calls :
       \/ \E i \in SessionIds : Open(c, i) \/ Act(c, i) \/ Close(c, i)
       \/ AfterCall(c) \/ GrowIdle(c) \/ GrowOld(c)
  \/ \E p \in Procs : Trip(p)
  \/ Collect \/ SweepNext \/ AfterSweep
  \/ \E w \in Workers : WorkerAppears(w) \/ OnWorkerDisconnect(w)
  \/ \E gone \in SUBSET present : WorkersVanish(gone)

HubSpec == HubInit /\ [][HubNext]_hubVars

\* Goroutines run, the sweeper's ticker ticks, timers fire and time passes.
\* Nothing is assumed of workers: replies need not come.
HubFairness ==
  /\ \A p \in Procs : WF_hubVars(Route(p) \/ Send(p) \/ Timeout(p) \/ EndTrip(p))
  /\ \A c \in Calls : WF_hubVars(AfterCall(c)) /\ WF_hubVars(GrowOld(c))
  /\ WF_hubVars(Collect) /\ WF_hubVars(SweepNext) /\ WF_hubVars(AfterSweep)

HubFairSpec == HubSpec /\ HubFairness

-----------------------------------------------------------------------------
\* No worker ever holds more sessions than its limit, through concurrent opens,
\* disconnects, reconnects and sweeps.
WorkerLimit == \A w \in Workers : Cardinality(On(w)) <= MaxPerWorker

\* Hub.pending holds calls that are in their round trip only: it does not grow
\* with timeouts and lost replies.
NoPendingLeak == \A p \in pending : pc[p] \in {"sending", "waiting", "replied", "leaving"}

\* Every session leaves the registry in the end, its worker hanging, gone or
\* back under the same id, and whoever goes on using it.
EverySessionEnds == \A c \in Calls : c \in Registered ~> c \notin Registered

\* Sweep: "there is a window between collecting and deleting (Act refreshes
\* LastActive): ... to avoid deleting a session that has just been reactivated".
SweepSparesReactivated ==
  [][(doing \in Registered /\ doing' = None) => doing \in idle \cup aged]_hubVars
=============================================================================
