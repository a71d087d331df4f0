--------------------------- MODULE WorkerPresence ---------------------------
(***************************************************************************)
(* What the probe hub relies on about the pool of workers, and all it can  *)
(* see of it: which worker ids Dispatcher.Workers lists, and that Connect  *)
(* tells the hub (OnWorkerDisconnect) exactly once of every connection     *)
(* that was registered, and of no other. It is told by id, at any time:    *)
(* before the worker is out of the pool, after, or when it is back on      *)
(* another connection. WorkerPool implements this, ProbeHub is built on it.*)
(***************************************************************************)
EXTENDS Naturals

CONSTANTS Workers    (* worker ids                                          *)

VARIABLES
  present,  (* the ids in the pool                                          *)
  owed      (* registered connections of an id that the hub has not been    *)
            (* told of                                                      *)

presence == <<present, owed>>

PresenceInit == present = {} /\ owed = [w \in Workers |-> 0]

\* A connection of the worker is registered.
Appear(w) ==
  /\ present' = present \cup {w}
  /\ owed' = [owed EXCEPT ![w] = @ + 1]

\* The hub is told of one.
Disconnect(w) ==
  /\ owed[w] > 0 /\ owed' = [owed EXCEPT ![w] = @ - 1]
  /\ UNCHANGED present

\* Workers are unregistered by their goroutines or deleted by the reaper.
Vanish(gone) ==
  /\ gone # {} /\ gone \subseteq present
  /\ present' = present \ gone
  /\ UNCHANGED owed

PresenceNext ==
  \/ \E w \in Workers : Appear(w) \/ Disconnect(w)
  \/ \E gone \in SUBSET present : Vanish(gone)

PresenceSpec == PresenceInit /\ [][PresenceNext]_presence
=============================================================================
