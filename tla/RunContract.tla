---------------------------- MODULE RunContract ----------------------------
(***************************************************************************)
(* What the scheduler promises of test runs, whoever creates, reports,     *)
(* cancels, reaps or recovers them: a run is created once, opens cases and *)
(* is closed once; a case is opened once and closed once; a run is         *)
(* announced at most once, at the moment it is closed, and with no case    *)
(* open, unless something happened that excuses it from that. Closing is   *)
(* all that is said of cancellation, of the reaper, of a restart and of    *)
(* Trigger and Debug giving up. RunLifecycle implements it, with no run    *)
(* ever excused, and so does StressRuns, with the tasks as the cases and   *)
(* the runs excused that a worker did not take its task of.                *)
(***************************************************************************)
EXTENDS Naturals

CONSTANTS Runs, Items

VARIABLES
  phase,     (* of a run                                                      *)
  case,      (* the phase of a case of a run                                  *)
  announced, (* how often the end of a run was announced                      *)
  excused    (* the runs that may be announced with cases open                *)

vars == <<phase, case, announced, excused>>

Phases == {"none", "open", "closed"}

Init ==
  /\ phase = [r \in Runs |-> "none"]
  /\ case = [r \in Runs |-> [i \in Items |-> "none"]]
  /\ announced = [r \in Runs |-> 0]
  /\ excused = {}

\* A run is created empty or, for a debug run, with its case.
Create(r) ==
  /\ phase[r] = "none"
  /\ phase' = [phase EXCEPT ![r] = "open"]
  /\ \/ case' = case
     \/ \E i \in Items : case[r][i] = "none" /\ case' = [case EXCEPT ![r][i] = "open"]
  /\ UNCHANGED announced

\* A run that was closed meanwhile still gets the cases its loop goes on opening.
OpenCase(r, i) ==
  /\ phase[r] # "none" /\ case[r][i] = "none"
  /\ case' = [case EXCEPT ![r][i] = "open"]
  /\ UNCHANGED <<phase, announced>>

\* Open cases are closed, and no others change.
ClosesCases ==
  /\ case' \in [Runs -> [Items -> Phases]]
  /\ \A r \in Runs, i \in Items :
       case'[r][i] # case[r][i] => case[r][i] = "open" /\ case'[r][i] = "closed"

\* Some open runs and some open cases are closed, unannounced.
Close ==
  /\ ClosesCases
  /\ phase' \in [Runs -> Phases]
  /\ \A r \in Runs : phase'[r] # phase[r] => phase[r] = "open" /\ phase'[r] = "closed"
  /\ UNCHANGED announced

\* The report that leaves no case open ends the run, if it is still open; an
\* excused run may be ended by an earlier one.
Announce(r) ==
  /\ phase[r] = "open"
  /\ phase' = [phase EXCEPT ![r] = "closed"]
  /\ ClosesCases
  /\ r \in excused \/ \A i \in Items : case'[r][i] # "open"
  /\ announced' = [announced EXCEPT ![r] = @ + 1]

\* A run that is excused stays so.
Next ==
  /\ excused \subseteq excused'
  /\ \/ Close
     \/ \E r \in Runs : Create(r) \/ Announce(r) \/ \E i \in Items : OpenCase(r, i)

Spec == Init /\ [][Next]_vars
=============================================================================
