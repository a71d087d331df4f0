------------------------------ MODULE Schedules ------------------------------
(***************************************************************************)
(* Scheduled runs of plans: the schedules' rows, the entries of the cron   *)
(* library that fire them (cronsched.Scheduler), the REST handlers that    *)
(* change a row first and its entry afterwards, and the start of the       *)
(* process, which ends the interrupted runs, rebuilds the entries from the *)
(* rows and makes up for a firing that was missed.                         *)
(*                                                                         *)
(* A run of a plan is only counted here; RunLifecycle has its life. Times  *)
(* are abstracted to how a row's next_run_at compares with the clock.      *)
(***************************************************************************)
EXTENDS Integers, FiniteSets

CONSTANTS
  Schedules,    (* ids of schedules                                         *)
  Plans,        (* ids of plans                                             *)
  Exprs,        (* cron expressions                                         *)
  Invalid,      (* those that do not parse                                  *)
  Policies,     (* overlap policies: 1 skips while a run goes on, 2 allows  *)
  Requests,     (* goroutines serving REST and Copilot requests             *)
  Jobs,         (* goroutines of the cron library: firings at one time      *)
  Main,         (* the goroutine of Start, which fires too                  *)
  MaxRunning,   (* bound: RUNNING runs of a plan                            *)
  MaxRestarts,  (* bound: crashes of the process                            *)
  None, Gone    (* no row yet, or no entry; a row that was deleted          *)

ASSUME SchedulesAssumption ==
  /\ IsFiniteSet(Schedules) /\ IsFiniteSet(Plans)
  /\ Invalid \subseteq Exprs /\ Main \notin Jobs
  /\ None \notin Exprs /\ Policies \subseteq {1, 2}
  /\ MaxRunning \in Nat \ {0} /\ MaxRestarts \in Nat

VARIABLES
  plan,      (* the plans' rows: live, or soft-deleted                      *)
  row,       (* the schedules' rows                                         *)
  running,   (* how many RUNNING runs a plan has                            *)
  entry,     (* Scheduler.entries: the expression a schedule is entered with *)
  up,        (* the process: down, in cronsched.Start, or serving           *)
  todo,      (* rows Start has loaded and not gone through                  *)
  req,       (* what a request has read and where it stands                 *)
  job,       (* what a firing has read and where it stands                  *)
  owed,      (* history: catch-ups that are due                             *)
  dropped,   (* history: those a crash took away for good                   *)
  overtaken, (* history: schedules with an entry written from a changed row *)
  restarts

store == <<plan, row, running>>
past  == <<owed, dropped, overtaken>>
vars  == <<store, entry, up, todo, req, job, past, restarts>>

Row == [plan : Plans, expr : Exprs, policy : Policies, enabled : BOOLEAN,
        next : {"none", "ahead", "late", "overdue"}]
\* What stands for "no row" is not a row.
ASSUME NoRowAssumption == None \notin Row /\ Gone \notin Row

\* What Sync looks at in a row, and what a firing keeps of the one it has read.
Asked == [expr : Exprs, enabled : BOOLEAN]
Read == [plan : Plans, expr : Exprs, policy : Policies]
Ask(c) == [expr |-> c.expr, enabled |-> c.enabled]

Idle == [at |-> "idle"]
Request == {Idle} \cup [at : {"save"}, id : Schedules, row : Row]
           \cup [at : {"sync"}, id : Schedules, row : Asked]
           \cup [at : {"remove"}, ids : SUBSET Schedules]
Firing == {Idle} \cup [at : {"read"}, id : Schedules]
          \cup [at : {"count", "trigger", "touch"}, id : Schedules, row : Read]

\* The type of every variable; only an expression that parses is entered.
TypeOK ==
  /\ plan \in [Plans -> {"live", "deleted"}]
  /\ row \in [Schedules -> Row \cup {None, Gone}]
  /\ running \in [Plans -> 0 .. MaxRunning]
  /\ entry \in [Schedules -> (Exprs \ Invalid) \cup {None}]
  /\ up \in {"down", "starting", "up"}
  /\ \A c \in todo : c.id \in Schedules /\ c.row \in Row
  /\ req \in [Requests -> Request] /\ job \in [Jobs \cup {Main} -> Firing]
  /\ owed \subseteq Schedules /\ dropped \subseteq Schedules
  /\ overtaken \subseteq Schedules
  /\ restarts \in 0 .. MaxRestarts

\* The first process of this model starts on what an earlier one left in the store.
Init ==
  /\ plan \in [Plans -> {"live", "deleted"}]
  /\ row \in [Schedules -> Row \cup {None}]
  /\ running \in [Plans -> 0 .. MaxRunning]
  /\ entry = [s \in Schedules |-> None]
  /\ up = "down" /\ todo = {}
  /\ req = [r \in Requests |-> Idle]
  /\ job = [f \in Jobs \cup {Main} |-> Idle]
  /\ owed = {} /\ dropped = {} /\ overtaken = {} /\ restarts = 0

Exists(s) == row[s] \notin {None, Gone}
Entered(s) == Exists(s) /\ row[s].enabled /\ row[s].expr \notin Invalid
\* A request's row still says of the entry what the stored row says.
Current(c, s) == Exists(s) /\ c = Ask(row[s])
SetNext(s, to) == IF Exists(s) THEN [row EXCEPT ![s].next = to] ELSE row

-----------------------------------------------------------------------------
(* The entries (Sync, Remove, addLocked), changed under a mutex.            *)

SyncKeepsDisabled(s, c) ==
  /\ entry' = [entry EXCEPT ![s] = IF c.expr \in Invalid THEN None ELSE c.expr]
  /\ row' = IF c.expr \in Invalid THEN row ELSE SetNext(s, "ahead")

\* Whatever was entered is removed; an enabled row is entered, and its
\* next_run_at written, if its expression parses.
Sync(s, c) ==
  LET enters == c.enabled /\ c.expr \notin Invalid IN
  /\ entry' = [entry EXCEPT ![s] = IF enters THEN c.expr ELSE None]
  /\ row' = IF enters THEN SetNext(s, "ahead") ELSE row

-----------------------------------------------------------------------------
(* Requests.                                                                *)

Begin(r) == up = "up" /\ req[r] = Idle
Go(r, to) == req' = [req EXCEPT ![r] = to]
\* An entry is written: as the row still asks for, or after another request has
\* changed the row.
Wrote(s, asked) == overtaken' = IF asked THEN overtaken \ {s} ELSE overtaken \cup {s}

\* createSchedule: the plan exists; the row; the entry.
Create(r, s, c) ==
  /\ Begin(r) /\ row[s] = None /\ c.next = "none" /\ plan[c.plan] = "live"
  /\ \A q \in Requests : req[q] # Idle => req[q].at = "remove" \/ req[q].id # s
  /\ Go(r, [at |-> "save", id |-> s, row |-> c])
  /\ UNCHANGED <<store, entry, up, todo, job, past, restarts>>

\* updateSchedule: the row is read; a plan that is named must exist, one that
\* is not named is not looked at.
Update(r, s, c) ==
  /\ Begin(r) /\ Exists(s) /\ c.next = row[s].next
  /\ c.plan = row[s].plan \/ plan[c.plan] = "live"
  /\ Go(r, [at |-> "save", id |-> s, row |-> c])
  /\ UNCHANGED <<store, entry, up, todo, job, past, restarts>>

\* Create, or Save: the whole row, inserted again if it has been deleted.
Save(r) ==
  /\ req[r].at = "save"
  /\ row' = [row EXCEPT ![req[r].id] = req[r].row]
  /\ Go(r, [at |-> "sync", id |-> req[r].id, row |-> Ask(req[r].row)])
  /\ overtaken' = overtaken \ {req[r].id}
  /\ UNCHANGED <<plan, running, entry, up, todo, job, owed, dropped, restarts>>

SyncEntry(r) ==
  /\ req[r].at = "sync"
  /\ Sync(req[r].id, req[r].row)
  /\ Go(r, Idle) /\ Wrote(req[r].id, Current(req[r].row, req[r].id))
  /\ UNCHANGED <<plan, running, up, todo, job, owed, dropped, restarts>>

Delete(r, s) ==
  /\ Begin(r) /\ Exists(s)
  /\ row' = [row EXCEPT ![s] = Gone]
  /\ Go(r, [at |-> "remove", ids |-> {s}])
  /\ UNCHANGED <<plan, running, entry, up, todo, job, past, restarts>>

\* The enabled schedules of a plan.
DisabledWith(p) == {s \in Schedules : Exists(s) /\ row[s].plan = p /\ row[s].enabled}

\* deletePlan: the plan is deleted and its schedules disabled in a transaction;
\* then their entries are removed.
DeletePlan(r, p) ==
  /\ Begin(r) /\ plan[p] = "live"
  /\ plan' = [plan EXCEPT ![p] = "deleted"]
  /\ row' = [s \in Schedules |-> IF s \in DisabledWith(p)
                                 THEN [row[s] EXCEPT !.enabled = FALSE] ELSE row[s]]
  /\ Go(r, [at |-> "remove", ids |-> DisabledWith(p)])
  /\ UNCHANGED <<running, entry, up, todo, job, past, restarts>>

RemoveEntry(r) ==
  /\ req[r].at = "remove"
  /\ \/ req[r].ids = {} /\ Go(r, Idle) /\ UNCHANGED <<entry, overtaken>>
     \/ \E s \in req[r].ids :
          /\ entry' = [entry EXCEPT ![s] = None]
          /\ Go(r, [req[r] EXCEPT !.ids = @ \ {s}]) /\ Wrote(s, ~Entered(s))
  /\ UNCHANGED <<store, up, todo, job, owed, dropped, restarts>>

\* Copilot's DeletePlan: the plan only.
AiDeletePlan(r, p) ==
  /\ Begin(r) /\ plan[p] = "live"
  /\ plan' = [plan EXCEPT ![p] = "deleted"]
  /\ UNCHANGED <<row, running, entry, up, todo, req, job, past, restarts>>

\* runPlan and Copilot's TriggerRun: a run that no schedule started.
ManualRun(p) ==
  /\ up = "up" /\ plan[p] = "live" /\ running[p] < MaxRunning
  /\ running' = [running EXCEPT ![p] = @ + 1]
  /\ UNCHANGED <<plan, row, entry, up, todo, req, job, past, restarts>>

\* Somebody ends a run (its last report, the reaper, a cancellation).
RunEnds(p) ==
  /\ up # "down" /\ running[p] > 0
  /\ running' = [running EXCEPT ![p] = @ - 1]
  /\ UNCHANGED <<plan, row, entry, up, todo, req, job, past, restarts>>

-----------------------------------------------------------------------------
(* Firing.                                                                  *)

GoJob(f, to) == job' = [job EXCEPT ![f] = to]

\* The time of an entry has come; next_run_at, if it is the time meant, passes.
Tick(f, s) ==
  /\ up = "up" /\ entry[s] # None /\ job[f] = Idle
  /\ GoJob(f, [at |-> "read", id |-> s])
  /\ row' = IF Exists(s) /\ row[s].next = "ahead" THEN SetNext(s, "late") ELSE row
  /\ UNCHANGED <<plan, running, entry, up, todo, req, past, restarts>>

\* A catch-up is dealt with by a call of Trigger, or by what keeps fire from it.
Settled(f) == owed' = owed \ {job[f].id}

\* A schedule that is gone or disabled does not fire.
ReadRow(f) ==
  LET s == job[f].id IN
  /\ job[f].at = "read"
  /\ IF ~Exists(s) \/ ~row[s].enabled
     THEN GoJob(f, Idle) /\ Settled(f)
     ELSE /\ GoJob(f, [at |-> IF row[s].policy = 2 THEN "trigger" ELSE "count",
                       id |-> s,
                       row |-> [plan |-> row[s].plan, expr |-> row[s].expr,
                                policy |-> row[s].policy]])
          /\ UNCHANGED owed
  /\ UNCHANGED <<store, entry, up, todo, req, dropped, overtaken, restarts>>

\* Skipped while a run of the plan is RUNNING.
CountRunning(f) ==
  /\ job[f].at = "count"
  /\ IF running[job[f].row.plan] = 0
     THEN GoJob(f, [job[f] EXCEPT !.at = "trigger"]) /\ UNCHANGED owed
     ELSE GoJob(f, [job[f] EXCEPT !.at = "touch"]) /\ Settled(f)
  /\ UNCHANGED <<store, entry, up, todo, req, dropped, overtaken, restarts>>

\* Trigger creates a run, unless the plan is deleted, a quota is used up or the
\* plan has no enabled item: an error that fire logs, and goes on to touch.
TriggerRun(f) ==
  LET p == job[f].row.plan IN
  /\ job[f].at = "trigger"
  /\ \/ /\ plan[p] = "live" /\ running[p] < MaxRunning
        /\ running' = [running EXCEPT ![p] = @ + 1]
     \/ UNCHANGED running
  /\ GoJob(f, [job[f] EXCEPT !.at = "touch"]) /\ Settled(f)
  /\ UNCHANGED <<plan, row, entry, up, todo, req, dropped, overtaken, restarts>>

\* touch: next_run_at by the expression the firing has read.
Touch(f) ==
  /\ job[f].at = "touch"
  /\ row' = IF job[f].row.expr \in Invalid THEN row ELSE SetNext(job[f].id, "ahead")
  /\ GoJob(f, Idle)
  /\ UNCHANGED <<plan, running, entry, up, todo, req, past, restarts>>

Fire(f) == ReadRow(f) \/ CountRunning(f) \/ TriggerRun(f) \/ Touch(f)

\* misfireGrace passes after a time that was not met, or the time itself while
\* nothing is entered.
TimePasses(s) ==
  /\ Exists(s)
  /\ \/ row[s].next = "ahead" /\ entry[s] = None /\ row' = SetNext(s, "late")
     \/ row[s].next = "late" /\ row' = SetNext(s, "overdue")
  /\ UNCHANGED <<plan, running, entry, up, todo, req, job, past, restarts>>

-----------------------------------------------------------------------------
(* The process.                                                             *)

\* RecoverInterruptedRuns ends what the last process left RUNNING.
Interrupted == [p \in Plans |-> 0]

LoadedIfTimed == {s \in Schedules : Exists(s) /\ row[s].enabled /\ row[s].next # "none"}
\* The enabled rows, those included that a crash kept from being entered.
Loaded == {s \in Schedules : Exists(s) /\ row[s].enabled}

\* An enabled schedule whose time was missed by more than the grace.
MissedTime(s) == Exists(s) /\ row[s].enabled /\ row[s].next = "overdue"

\* main: the recovery, then Start loads the enabled rows.
Boot ==
  /\ up = "down" /\ up' = "starting"
  /\ running' = Interrupted
  /\ todo' = {[id |-> s, row |-> row[s]] : s \in Loaded}
  /\ owed' = owed \cup {s \in Schedules : MissedTime(s)}
  /\ UNCHANGED <<plan, row, entry, req, job, dropped, overtaken, restarts>>

MissedByNow(c) == row'[c.id].next = "overdue"
\* The row as it was loaded, before entering it moved next_run_at on.
Missed(c) == c.row.next = "overdue"

\* Start's loop: the row is entered, and fired at once if its time was missed.
StartAdd(c) ==
  /\ up = "starting" /\ c \in todo /\ job[Main] = Idle
  /\ Sync(c.id, c.row)
  /\ IF Missed(c) THEN GoJob(Main, [at |-> "read", id |-> c.id]) ELSE UNCHANGED job
  /\ todo' = todo \ {c}
  /\ UNCHANGED <<plan, running, up, req, past, restarts>>

StartDone ==
  /\ up = "starting" /\ todo = {} /\ job[Main] = Idle
  /\ up' = "up"
  /\ UNCHANGED <<store, entry, todo, req, job, past, restarts>>

\* The catch-up Start is firing, if entering the row has moved next_run_at on:
\* nothing tells the next process of it.
CutShort == {s \in owed : job[Main] # Idle /\ job[Main].id = s /\ ~MissedTime(s)}

Crash ==
  /\ up # "down" /\ restarts < MaxRestarts
  /\ restarts' = restarts + 1
  /\ up' = "down" /\ todo' = {}
  /\ entry' = [s \in Schedules |-> None]
  /\ req' = [r \in Requests |-> Idle]
  /\ job' = [f \in Jobs \cup {Main} |-> Idle]
  /\ owed' = owed \ CutShort /\ dropped' = dropped \cup CutShort
  /\ overtaken' = {}
  /\ UNCHANGED store

Serve(r) == Save(r) \/ SyncEntry(r) \/ RemoveEntry(r)

Next ==
  \/ \E r \in Requests :
       \/ Serve(r)
       \/ \E s \in Schedules : Delete(r, s) \/ \E c \in Row : Create(r, s, c) \/ Update(r, s, c)
       \/ \E p \in Plans : DeletePlan(r, p) \/ AiDeletePlan(r, p)
  \/ \E p \in Plans : ManualRun(p) \/ RunEnds(p)
  \/ \E f \in Jobs, s \in Schedules : Tick(f, s)
  \/ \E f \in Jobs \cup {Main} : Fire(f)
  \/ \E s \in Schedules : TimePasses(s)
  \/ Boot \/ StartDone \/ Crash
  \/ \E c \in todo : StartAdd(c)

Spec == Init /\ [][Next]_vars

\* Goroutines run, the process is started again, times come, and every run of
\* this process ends (RunLifecycle, EveryRunEnds). Entries share the goroutines
\* of this model, so a time comes with strong fairness.
Fairness ==
  /\ WF_vars(Boot) /\ WF_vars(StartDone) /\ WF_vars(\E c \in todo : StartAdd(c))
  /\ \A r \in Requests : WF_vars(Serve(r))
  /\ \A f \in Jobs \cup {Main} : WF_vars(Fire(f))
  /\ \A s \in Schedules : SF_vars(\E f \in Jobs : Tick(f, s))
  /\ \A p \in Plans : WF_vars(RunEnds(p))

FairSpec == Spec /\ Fairness

-----------------------------------------------------------------------------
(* What the schedules guarantee.                                            *)

\* The entry of a schedule is what its row asks for, or somebody is about to make
\* it so: Start, the request that saved the row, or one that removes the entry.
Accounted(s) ==
  \/ up = "down"
  \/ entry[s] = IF Entered(s) THEN row[s].expr ELSE None
  \/ \E c \in todo : c.id = s
  \/ \E r \in Requests :
       \/ req[r].at = "sync" /\ req[r].id = s /\ Current(req[r].row, s)
       \/ req[r].at = "remove" /\ s \in req[r].ids /\ ~Entered(s)

\* A schedule's entry agrees with its row, or is about to: through updates,
\* deletions, the deletion of plans, firings, crashes between the row and the
\* entry, and restarts. Only a request that is overtaken between its row and its
\* entry breaks it, until the next request for the schedule or the next start.
EntriesAgree == \A s \in Schedules : s \in overtaken \/ Accounted(s)

\* When a start is over no catch-up is due any more: what one start found missed
\* has been fired, or skipped for a run that goes on, by it or by a later one,
\* although entering a row overwrites the time that tells. A crash takes away no
\* more than the catch-up it cuts short.
MissedAreMadeUp == up = "up" => owed = {}

Runnable(s) == Entered(s) /\ plan[row[s].plan] = "live"

Calls(p) == \E f \in Jobs \cup {Main} : TriggerRun(f) /\ job[f].row.plan = p
Starts(p) == Calls(p) /\ running'[p] > running[p]
Refused(p) == Calls(p) /\ running'[p] = running[p]

\* A plan with a schedule that stays enabled is started again and again, if
\* nobody runs it by hand any more, Trigger refuses no more, and no overtaken
\* request wrote its entry: neither a crash between the row and its entry, nor a
\* run the crash left RUNNING, nor a refusal silences the schedule for ever.
KeepsRunning ==
  \A s \in Schedules, p \in Plans :
    /\ <>[](Runnable(s) /\ row[s].plan = p /\ s \notin overtaken)
    /\ <>[][~ManualRun(p) /\ ~Refused(p)]_vars
    => []<><<Starts(p)>>_vars

-----------------------------------------------------------------------------
(* What comments of the code promise and the code does not keep.            *)

\* "overlap_policy: 1 = skipped if the last run has not ended": two firings (of
\* two schedules of a plan), or a firing and a manual run, overlap.
OverlapRespected ==
  [][\A f \in Jobs \cup {Main} :
       job[f].at = "trigger" /\ job'[f].at = "touch" /\ job[f].row.policy = 1
         => running[job[f].row.plan] = 0]_vars

\* "After a restart, a schedule that is past its NextRunAt by more than 2 minutes
\* is made up for once": addLocked moves next_run_at on before fire is called, and
\* a crash in between leaves nothing to make up for.
NoCatchUpIsLost == dropped = {}

\* "Sync the entry after a create or update, remove it if disabled": of two
\* requests for one schedule, the entry is that of the one that came last to it.
EntriesFollowRows ==
  up = "up" /\ (\A r \in Requests : req[r] = Idle) =>
    \A s \in Schedules : entry[s] = IF Entered(s) THEN row[s].expr ELSE None

\* deletePlan disables the schedules of the plan, "otherwise the entries go on
\* firing, and a restart makes up for them". Copilot's DeletePlan does not; a
\* createSchedule or updateSchedule that has passed its check enables one.
DeletedPlanIsNotEntered ==
  (\A r \in Requests : req[r] = Idle) =>
    \A s \in Schedules : entry[s] # None /\ Exists(s) => plan[row[s].plan] = "live"

\* Sync: "removed when disabled or the expression does not parse". Such a row
\* stays enabled, and every restart finds its next_run_at overdue and fires it.
InvalidNeverRuns ==
  [][job[Main].at = "trigger" /\ job'[Main].at = "touch"
       => job[Main].row.expr \notin Invalid]_vars
=============================================================================
