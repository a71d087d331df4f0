---------------------------- MODULE SchedulesProofs ----------------------------
(***************************************************************************)
(* For any schedules, plans, requests and firings: no catch-up that a start *)
(* found due is still due when a start is over, and the entries of the cron *)
(* library agree with the rows, or are about to, but where an overtaken     *)
(* request wrote one.                                                       *)
(*                                                                         *)
(* Both rest on what a process that is not up has not done (NotUpYet). The  *)
(* first needs to know where a catch-up that is due is to be found: in the  *)
(* row while the process is down, and in what Start has loaded or is firing *)
(* while it starts (CatchUps). The second needs what Start has loaded to be *)
(* what the row says, next_run_at aside (AddsTheRow).                       *)
(***************************************************************************)
EXTENDS Schedules, TLAPS

\* Rows are loaded only while the process starts; what is not up serves nobody,
\* and what is down enters and fires nothing.
NotUpYet ==
  /\ up # "starting" => todo = {}
  /\ up # "up" => /\ \A r \in Requests : req[r] = Idle
                  /\ \A f \in Jobs : job[f] = Idle
  /\ up = "down" => job[Main] = Idle /\ \A s \in Schedules : entry[s] = None

Base == TypeOK /\ NotUpYet

\* Start is going to fire s, or about to call Trigger for it.
InStart(s) ==
  \/ \E c \in todo : c.id = s /\ Missed(c)
  \/ job[Main].at \in {"read", "count", "trigger"} /\ job[Main].id = s

\* Where the catch-ups that are due are to be found.
CatchUps ==
  /\ up = "up" => owed = {}
  /\ up = "starting" => \A s \in owed : InStart(s)
  /\ up = "down" => \A s \in owed : MissedTime(s)

\* What Start has loaded and not gone through, one row of each schedule, is not
\* what it is firing, and what it has read as missed is still so in the store.
LoadedIsStored ==
  /\ \A c \in todo : Missed(c) => MissedTime(c.id)
  /\ \A c \in todo : job[Main] # Idle => job[Main].id # c.id
  /\ \A c, d \in todo : c.id = d.id => c = d

\* The invariant behind MissedAreMadeUp.
Starting == Base /\ CatchUps /\ LoadedIsStored

Due(s) == IF Entered(s) THEN row[s].expr ELSE None

AddsTheRow == \A c \in todo : Current(Ask(c.row), c.id)

\* The invariant behind EntriesAgree.
Entering == Base /\ EntriesAgree /\ AddsTheRow

-----------------------------------------------------------------------------
(* What the steps do to the rows.                                           *)

\* Whether and how a schedule is to be entered stays as it is.
RowsKept ==
  \A t \in Schedules :
    /\ Exists(t)' <=> Exists(t)
    /\ Exists(t) => /\ row'[t].expr = row[t].expr
                    /\ row'[t].enabled = row[t].enabled

\* next_run_at says nothing of that.
LEMMA NextIsSet ==
  ASSUME TypeOK, NEW s \in Schedules,
         NEW to \in {"none", "ahead", "late", "overdue"},
         row' = SetNext(s, to)
  PROVE  row' \in [Schedules -> Row \cup {None, Gone}] /\ RowsKept
<1>1. row \in [Schedules -> Row \cup {None, Gone}]
  BY DEF TypeOK
<1>2. CASE ~Exists(s)
  BY <1>1, <1>2 DEF SetNext, RowsKept, Exists
<1>3. CASE Exists(s)
  <2>1. row[s] \in Row
    BY <1>1, <1>3 DEF Exists
  <2> DEFINE new == [row[s] EXCEPT !.next = to]
  <2>2. new \in Row /\ new.expr = row[s].expr /\ new.enabled = row[s].enabled
    BY <2>1 DEF Row
  <2>3. row' = [row EXCEPT ![s] = new]
    BY <1>1, <1>3 DEF SetNext
  <2>4. new \notin {None, Gone}
    BY <2>2, NoRowAssumption
  <2> HIDE DEF new
  <2> QED
    BY <1>1, <1>3, <2>2, <2>3, <2>4 DEF RowsKept, Exists
<1> QED
  BY <1>2, <1>3

\* Entering a row: the entry is what the row asks for, the rows stay.
LEMMA Synced ==
  ASSUME TypeOK, NEW s \in Schedules, NEW c, c.expr \in Exprs, Sync(s, c)
  PROVE  /\ row' \in [Schedules -> Row \cup {None, Gone}] /\ RowsKept
         /\ entry' \in [Schedules -> (Exprs \ Invalid) \cup {None}]
         /\ \A t \in Schedules \ {s} : entry'[t] = entry[t]
         /\ entry'[s] = IF c.enabled /\ c.expr \notin Invalid THEN c.expr ELSE None
<1>1. row' \in [Schedules -> Row \cup {None, Gone}] /\ RowsKept
  <2>1. CASE c.enabled /\ c.expr \notin Invalid
    <3>1. row' = SetNext(s, "ahead")
      BY <2>1 DEF Sync
    <3> QED
      BY <3>1, NextIsSet
  <2>2. CASE ~(c.enabled /\ c.expr \notin Invalid)
    BY <2>2 DEF Sync, TypeOK, RowsKept, Exists
  <2> QED
    BY <2>1, <2>2
<1> QED
  BY <1>1 DEF Sync, TypeOK

\* What is neither a request that changes a row or has an entry in hand nor the
\* process starting or ending.
Aside ==
  \/ \E p \in Plans : ManualRun(p) \/ RunEnds(p)
  \/ \E f \in Jobs, s \in Schedules : Tick(f, s)
  \/ \E f \in Jobs \cup {Main} : Fire(f)
  \/ \E s \in Schedules : TimePasses(s)

LEMMA AsideKeepsRows ==
  ASSUME TypeOK, Aside
  PROVE  /\ TypeOK' /\ RowsKept /\ owed' \subseteq owed
         /\ UNCHANGED <<plan, entry, up, todo, req, dropped, overtaken, restarts>>
<1>0. /\ row \in [Schedules -> Row \cup {None, Gone}]
      /\ running \in [Plans -> 0 .. MaxRunning] /\ MaxRunning \in Nat
      /\ job \in [Jobs \cup {Main} -> Firing]
  BY SchedulesAssumption DEF TypeOK
<1>1. SUFFICES /\ row' \in [Schedules -> Row \cup {None, Gone}] /\ RowsKept
               /\ running' \in [Plans -> 0 .. MaxRunning]
               /\ job' \in [Jobs \cup {Main} -> Firing]
               /\ owed' \subseteq owed
               /\ UNCHANGED <<plan, entry, up, todo, req, dropped, overtaken, restarts>>
  BY DEF TypeOK
<1>2. ASSUME UNCHANGED row PROVE row' \in [Schedules -> Row \cup {None, Gone}] /\ RowsKept
  BY <1>0, <1>2 DEF RowsKept, Exists
<1>3. ASSUME NEW f \in Jobs \cup {Main}, NEW to \in Firing, GoJob(f, to)
      PROVE  job' \in [Jobs \cup {Main} -> Firing]
  BY <1>0, <1>3 DEF GoJob
<1>4. CASE \E p \in Plans : ManualRun(p) \/ RunEnds(p)
  <2>1. PICK p \in Plans : ManualRun(p) \/ RunEnds(p)
    BY <1>4
  <2>2. UNCHANGED <<plan, row, entry, up, todo, req, job, past, restarts>>
    BY <2>1 DEF ManualRun, RunEnds
  <2>3. running' \in [Plans -> 0 .. MaxRunning]
    BY <1>0, <2>1 DEF ManualRun, RunEnds
  <2> QED
    BY <1>0, <1>2, <2>2, <2>3 DEF past
<1>5. CASE \E f \in Jobs, s \in Schedules : Tick(f, s)
  <2>1. PICK f \in Jobs, s \in Schedules : Tick(f, s)
    BY <1>5
  <2>2. [at |-> "read", id |-> s] \in Firing
    BY DEF Firing
  <2>3. GoJob(f, [at |-> "read", id |-> s])
    BY <2>1 DEF Tick
  <2>4. row' = SetNext(s, "late") \/ UNCHANGED row
    BY <2>1 DEF Tick
  <2>5. row' \in [Schedules -> Row \cup {None, Gone}] /\ RowsKept
    BY <1>2, <2>4, NextIsSet
  <2> QED
    BY <1>0, <1>3, <2>1, <2>2, <2>3, <2>5 DEF Tick, past
<1>6. CASE \E f \in Jobs \cup {Main} : Fire(f)
  <2>1. PICK f \in Jobs \cup {Main} : Fire(f)
    BY <1>6
  <2>2. job[f] \in Firing
    BY <1>0
  <2>3. Idle \in Firing
    BY DEF Firing
  <2>4. CASE ReadRow(f)
    <3> DEFINE s == job[f].id
    <3>1. s \in Schedules
      BY <2>2, <2>4 DEF ReadRow, Idle, Firing
    <3>2. Exists(s) => row[s] \in Row
      BY <1>0, <3>1 DEF Exists
    <3>3. PICK to \in Firing : GoJob(f, to)
      <4>1. CASE ~Exists(s) \/ ~row[s].enabled
        BY <2>3, <2>4, <4>1 DEF ReadRow
      <4>2. CASE ~(~Exists(s) \/ ~row[s].enabled)
        <5> DEFINE to == [at |-> IF row[s].policy = 2 THEN "trigger" ELSE "count",
                          id |-> s,
                          row |-> [plan |-> row[s].plan, expr |-> row[s].expr,
                                   policy |-> row[s].policy]]
        <5>1. to \in Firing
          BY <3>1, <3>2, <4>2 DEF Firing, Row, Read
        <5>2. GoJob(f, to)
          BY <2>4, <4>2 DEF ReadRow
        <5> QED
          BY <5>1, <5>2
      <4> QED
        BY <4>1, <4>2
    <3> HIDE DEF s
    <3> QED
      BY <1>0, <1>2, <1>3, <2>4, <3>3 DEF ReadRow, Settled, store
  <2>5. ASSUME NEW at \in {"trigger", "touch"}, job[f].at \in {"count", "trigger"}
        PROVE  [job[f] EXCEPT !.at = at] \in Firing
    BY <2>2, <2>5 DEF Idle, Firing
  <2>6. CASE CountRunning(f)
    <3>1. PICK at \in {"trigger", "touch"} : GoJob(f, [job[f] EXCEPT !.at = at])
      BY <2>6 DEF CountRunning
    <3>2. job[f].at \in {"count", "trigger"}
      BY <2>6 DEF CountRunning
    <3> QED
      BY <1>0, <1>2, <1>3, <2>5, <2>6, <3>1, <3>2 DEF CountRunning, Settled, store
  <2>7. CASE TriggerRun(f)
    <3>1. GoJob(f, [job[f] EXCEPT !.at = "touch"]) /\ job[f].at \in {"count", "trigger"}
      BY <2>7 DEF TriggerRun
    <3>2. running' \in [Plans -> 0 .. MaxRunning]
      BY <1>0, <2>7 DEF TriggerRun
    <3> QED
      BY <1>0, <1>2, <1>3, <2>5, <2>7, <3>1, <3>2 DEF TriggerRun, Settled
  <2>8. CASE Touch(f)
    <3>1. job[f].id \in Schedules
      BY <2>2, <2>8 DEF Touch, Idle, Firing
    <3>2. row' = SetNext(job[f].id, "ahead") \/ UNCHANGED row
      BY <2>8 DEF Touch
    <3>3. row' \in [Schedules -> Row \cup {None, Gone}] /\ RowsKept
      BY <1>2, <3>1, <3>2, NextIsSet
    <3> QED
      BY <1>0, <1>3, <2>3, <2>8, <3>3 DEF Touch, past
  <2> QED
    BY <2>1, <2>4, <2>6, <2>7, <2>8 DEF Fire
<1>7. CASE \E s \in Schedules : TimePasses(s)
  <2>1. PICK s \in Schedules : TimePasses(s)
    BY <1>7
  <2>2. row' = SetNext(s, "late") \/ row' = SetNext(s, "overdue")
    BY <2>1 DEF TimePasses
  <2>3. row' \in [Schedules -> Row \cup {None, Gone}] /\ RowsKept
    BY <2>2, NextIsSet
  <2> QED
    BY <1>0, <2>1, <2>3 DEF TimePasses, past
<1> QED
  BY <1>4, <1>5, <1>6, <1>7 DEF Aside

-----------------------------------------------------------------------------
(* The types.                                                               *)

\* Setting what a request has in hand touches no other request.
LEMMA OneReqMoves ==
  ASSUME TypeOK, NEW r \in Requests, NEW to \in Request, Go(r, to)
  PROVE  /\ req' \in [Requests -> Request]
         /\ req'[r] = to
         /\ \A q \in Requests \ {r} : req'[q] = req[q]
BY DEF TypeOK, Go

\* What a request at work has in hand.
LEMMA InHand ==
  ASSUME TypeOK, NEW r \in Requests
  PROVE  /\ req[r].at = "save" =>
              /\ req[r].id \in Schedules /\ req[r].row \in Row
              /\ [at |-> "sync", id |-> req[r].id, row |-> Ask(req[r].row)] \in Request
         /\ req[r].at = "sync" => req[r].id \in Schedules /\ req[r].row \in Asked
         /\ req[r].at = "remove" =>
              /\ req[r].ids \in SUBSET Schedules
              /\ \A s : /\ [req[r] EXCEPT !.ids = @ \ {s}] \in Request
                       /\ [req[r] EXCEPT !.ids = @ \ {s}].at = "remove"
                       /\ [req[r] EXCEPT !.ids = @ \ {s}].ids = req[r].ids \ {s}
         /\ req[r] = Idle <=> req[r].at = "idle"
<1>1. req[r] \in Request
  BY DEF TypeOK
<1>2. CASE req[r] = Idle
  BY <1>2 DEF Idle
<1>3. CASE req[r] \in [at : {"save"}, id : Schedules, row : Row]
  <2>1. Ask(req[r].row) \in Asked
    BY <1>3 DEF Ask, Asked, Row
  <2> QED
    BY <1>3, <2>1 DEF Idle, Request
<1>4. CASE req[r] \in [at : {"sync"}, id : Schedules, row : Asked]
  BY <1>4 DEF Idle, Request
<1>5. CASE req[r] \in [at : {"remove"}, ids : SUBSET Schedules]
  BY <1>5 DEF Idle, Request
<1> QED
  BY <1>1, <1>2, <1>3, <1>4, <1>5 DEF Request

RequestStep ==
  \E r \in Requests :
    \/ Serve(r)
    \/ \E s \in Schedules : Delete(r, s) \/ \E c \in Row : Create(r, s, c) \/ Update(r, s, c)
    \/ \E p \in Plans : DeletePlan(r, p) \/ AiDeletePlan(r, p)

\* A row a plan's deletion leaves behind is the row, disabled.
LEMMA PlanIsDeleted ==
  ASSUME TypeOK, NEW r \in Requests, NEW p \in Plans, DeletePlan(r, p)
  PROVE  /\ row' \in [Schedules -> Row \cup {None, Gone}]
         /\ \A s \in Schedules \ DisabledWith(p) : row'[s] = row[s]
         /\ \A s \in DisabledWith(p) : row'[s] \in Row /\ ~row'[s].enabled
<1>1. row \in [Schedules -> Row \cup {None, Gone}]
  BY DEF TypeOK
<1>2. ASSUME NEW s \in DisabledWith(p)
      PROVE  s \in Schedules /\ row[s] \in Row
  BY <1>1, <1>2 DEF DisabledWith, Exists
<1>3. ASSUME NEW c \in Row
      PROVE  [c EXCEPT !.enabled = FALSE] \in Row /\ ~[c EXCEPT !.enabled = FALSE].enabled
  BY <1>3 DEF Row
<1>4. row' = [s \in Schedules |-> IF s \in DisabledWith(p)
                                 THEN [row[s] EXCEPT !.enabled = FALSE] ELSE row[s]]
  BY DEF DeletePlan
<1>5. ASSUME NEW s \in DisabledWith(p)
      PROVE  row'[s] \in Row /\ ~row'[s].enabled
  <2>1. row'[s] = [row[s] EXCEPT !.enabled = FALSE]
    BY <1>2, <1>4, <1>5
  <2> QED
    BY <1>2, <1>3, <1>5, <2>1
<1>6. \A s \in Schedules \ DisabledWith(p) : row'[s] = row[s]
  BY <1>4
<1>7. \A s \in Schedules : row'[s] \in Row \cup {None, Gone}
  BY <1>1, <1>5, <1>6
<1>8. row' \in [Schedules -> Row \cup {None, Gone}]
  BY <1>4, <1>7
<1> QED
  BY <1>5, <1>6, <1>8

LEMMA RequestStepTyped ==
  ASSUME TypeOK, RequestStep
  PROVE  TypeOK' /\ UNCHANGED <<up, todo, job, owed, dropped>>
<1> PICK r \in Requests :
      \/ Serve(r)
      \/ \E s \in Schedules : Delete(r, s) \/ \E c \in Row : Create(r, s, c) \/ Update(r, s, c)
      \/ \E p \in Plans : DeletePlan(r, p) \/ AiDeletePlan(r, p)
  BY DEF RequestStep
<1>1. row \in [Schedules -> Row \cup {None, Gone}]
  BY DEF TypeOK
<1>2. Idle \in Request
  BY DEF Request
<1>3. CASE Save(r)
  <2>1. /\ Go(r, [at |-> "sync", id |-> req[r].id, row |-> Ask(req[r].row)])
        /\ req[r].at = "save"
    BY <1>3 DEF Save
  <2>2. req' \in [Requests -> Request] /\ req[r].row \in Row
    BY <2>1, InHand, OneReqMoves
  <2>3. row' \in [Schedules -> Row \cup {None, Gone}]
    BY <1>1, <1>3, <2>2 DEF Save
  <2> QED
    BY <1>3, <2>2, <2>3 DEF Save, TypeOK
<1>4. CASE SyncEntry(r)
  <2>1. req[r].id \in Schedules /\ req[r].row.expr \in Exprs /\ Sync(req[r].id, req[r].row)
    BY <1>4, InHand DEF SyncEntry, Asked
  <2>2. req' \in [Requests -> Request]
    BY <1>2, <1>4, OneReqMoves DEF SyncEntry
  <2>3. /\ row' \in [Schedules -> Row \cup {None, Gone}]
        /\ entry' \in [Schedules -> (Exprs \ Invalid) \cup {None}]
    BY <2>1, Synced
  <2>4. overtaken' \subseteq Schedules
    BY <1>4, <2>1 DEF SyncEntry, Wrote, TypeOK
  <2> QED
    BY <1>4, <2>2, <2>3, <2>4 DEF SyncEntry, TypeOK
<1>5. CASE RemoveEntry(r)
  <2>1. entry \in [Schedules -> (Exprs \ Invalid) \cup {None}]
    BY DEF TypeOK
  <2>2. /\ req' \in [Requests -> Request]
        /\ entry' \in [Schedules -> (Exprs \ Invalid) \cup {None}]
        /\ overtaken' \subseteq Schedules
    <3>1. CASE Go(r, Idle) /\ UNCHANGED <<entry, overtaken>>
      BY <1>2, <2>1, <3>1, OneReqMoves DEF TypeOK
    <3>2. CASE \E s \in req[r].ids : /\ entry' = [entry EXCEPT ![s] = None]
                                    /\ Go(r, [req[r] EXCEPT !.ids = @ \ {s}])
                                    /\ Wrote(s, ~Entered(s))
      <4>1. PICK s \in req[r].ids : /\ entry' = [entry EXCEPT ![s] = None]
                                    /\ Go(r, [req[r] EXCEPT !.ids = @ \ {s}])
                                    /\ Wrote(s, ~Entered(s))
        BY <3>2
      <4>2. req[r].at = "remove"
        BY <1>5 DEF RemoveEntry
      <4>3. [req[r] EXCEPT !.ids = @ \ {s}] \in Request /\ s \in Schedules
        BY <4>1, <4>2, InHand
      <4>4. overtaken' \subseteq Schedules
        BY <4>1, <4>3 DEF Wrote, TypeOK
      <4> QED
        BY <2>1, <4>1, <4>3, <4>4, OneReqMoves
    <3> QED
      BY <1>5, <3>1, <3>2 DEF RemoveEntry
  <2> QED
    BY <1>5, <2>2 DEF RemoveEntry, TypeOK, store
<1>6. ASSUME NEW s \in Schedules, Delete(r, s)
      PROVE  TypeOK' /\ UNCHANGED <<up, todo, job, owed, dropped>>
  <2>1. [at |-> "remove", ids |-> {s}] \in Request
    BY DEF Request
  <2>2. req' \in [Requests -> Request]
    BY <1>6, <2>1, OneReqMoves DEF Delete
  <2> QED
    BY <1>1, <1>6, <2>2 DEF Delete, TypeOK, past
<1>7. ASSUME NEW s \in Schedules, NEW c \in Row, Create(r, s, c) \/ Update(r, s, c)
      PROVE  TypeOK' /\ UNCHANGED <<up, todo, job, owed, dropped>>
  <2>1. [at |-> "save", id |-> s, row |-> c] \in Request
    BY DEF Request
  <2>2. req' \in [Requests -> Request]
    BY <1>7, <2>1, OneReqMoves DEF Create, Update
  <2> QED
    BY <1>7, <2>2 DEF Create, Update, TypeOK, past, store
<1>8. ASSUME NEW p \in Plans, DeletePlan(r, p) PROVE TypeOK' /\ UNCHANGED <<up, todo, job, owed, dropped>>
  <2>1. [at |-> "remove", ids |-> DisabledWith(p)] \in Request
    BY DEF Request, DisabledWith
  <2>2. req' \in [Requests -> Request]
    BY <1>8, <2>1, OneReqMoves DEF DeletePlan
  <2>3. row' \in [Schedules -> Row \cup {None, Gone}]
    BY <1>8, PlanIsDeleted
  <2>4. plan' \in [Plans -> {"live", "deleted"}]
    BY <1>8 DEF DeletePlan, TypeOK
  <2> QED
    BY <1>8, <2>2, <2>3, <2>4 DEF DeletePlan, TypeOK, past
<1>9. ASSUME NEW p \in Plans, AiDeletePlan(r, p) PROVE TypeOK' /\ UNCHANGED <<up, todo, job, owed, dropped>>
  BY <1>9 DEF AiDeletePlan, TypeOK, past
<1> QED
  BY <1>3, <1>4, <1>5, <1>6, <1>7, <1>8, <1>9 DEF Serve

ProcessStep == Boot \/ StartDone \/ Crash \/ \E c \in todo : StartAdd(c)

LEMMA StepIs == ASSUME Next PROVE RequestStep \/ Aside \/ ProcessStep
BY DEF Next, RequestStep, Aside, ProcessStep

LEMMA ProcessStepTyped == ASSUME TypeOK, ProcessStep PROVE TypeOK'
<1>1. CASE Boot
  <2>1. \A c \in todo' : c.id \in Schedules /\ c.row \in Row
    BY <1>1 DEF Boot, TypeOK, Loaded, Exists
  <2>2. owed' \subseteq Schedules
    BY <1>1 DEF Boot, TypeOK
  <2>3. running' \in [Plans -> 0 .. MaxRunning]
    BY <1>1, SchedulesAssumption DEF Boot, Interrupted
  <2> QED
    BY <1>1, <2>1, <2>2, <2>3 DEF Boot, TypeOK
<1>2. CASE StartDone
  BY <1>2 DEF StartDone, TypeOK, store, past
<1>3. CASE Crash
  <2>1. restarts' \in 0 .. MaxRestarts
    BY <1>3, SchedulesAssumption DEF Crash, TypeOK
  <2>2. req' \in [Requests -> Request] /\ job' \in [Jobs \cup {Main} -> Firing]
    BY <1>3 DEF Crash, Request, Firing
  <2>3. owed' \subseteq Schedules /\ dropped' \subseteq Schedules /\ overtaken' \subseteq Schedules
    BY <1>3 DEF Crash, CutShort, TypeOK
  <2> QED
    BY <1>3, <2>1, <2>2, <2>3 DEF Crash, TypeOK, store
<1>4. ASSUME NEW c \in todo, StartAdd(c) PROVE TypeOK'
  <2>1. c.id \in Schedules /\ c.row \in Row /\ c.row.expr \in Exprs
    BY DEF TypeOK, Row
  <2>2. /\ row' \in [Schedules -> Row \cup {None, Gone}]
        /\ entry' \in [Schedules -> (Exprs \ Invalid) \cup {None}]
    BY <1>4, <2>1, Synced DEF StartAdd
  <2>3. [at |-> "read", id |-> c.id] \in Firing
    BY <2>1 DEF Firing
  <2>4. job' \in [Jobs \cup {Main} -> Firing]
    BY <1>4, <2>1, <2>3 DEF StartAdd, TypeOK, GoJob
  <2> QED
    BY <1>4, <2>2, <2>4 DEF StartAdd, TypeOK, past
<1> QED
  BY <1>1, <1>2, <1>3, <1>4 DEF ProcessStep

LEMMA StutterTyped == ASSUME TypeOK, UNCHANGED vars PROVE TypeOK'
BY DEF TypeOK, vars, store, past

\* What every variable holds, with what it may hold.
THEOREM TypeCorrect == Spec => []TypeOK
<1>1. Init => TypeOK
  BY SchedulesAssumption DEF Init, TypeOK, Request, Firing
<1>2. TypeOK /\ [Next]_vars => TypeOK'
  BY StepIs, RequestStepTyped, AsideKeepsRows, ProcessStepTyped, StutterTyped
<1> QED
  BY <1>1, <1>2, PTL DEF Spec

-----------------------------------------------------------------------------
(* What a process that is not up has not done.                              *)

\* Requests are served, and entries fire, while the process is up; Start fires
\* while it starts.
LEMMA WhoIsUp ==
  ASSUME Base
  PROVE  /\ RequestStep => up = "up"
         /\ \A f \in Jobs : Fire(f) => up = "up"
         /\ Fire(Main) => up # "down"
<1>1. ASSUME NEW f \in Jobs \cup {Main}, Fire(f) PROVE job[f] # Idle
  BY <1>1 DEF Fire, ReadRow, CountRunning, TriggerRun, Touch, Idle
<1>2. ASSUME NEW r \in Requests, Serve(r) PROVE req[r] # Idle
  BY <1>2 DEF Serve, Save, SyncEntry, RemoveEntry, Idle
<1>3. RequestStep => up = "up"
  BY <1>2 DEF RequestStep, Base, NotUpYet, Delete, Create, Update, DeletePlan, AiDeletePlan, Begin
<1> QED
  BY <1>1, <1>3 DEF Base, NotUpYet

\* A firing moves no other one.
LEMMA OneJobMoves ==
  ASSUME TypeOK, NEW f \in Jobs \cup {Main}, Fire(f)
  PROVE  \A g \in (Jobs \cup {Main}) \ {f} : job'[g] = job[g]
BY DEF TypeOK, Fire, ReadRow, CountRunning, TriggerRun, Touch, GoJob

LEMMA BaseKept == ASSUME Base, [Next]_vars PROVE Base'
<1>1. TypeOK'
  BY StepIs, RequestStepTyped, AsideKeepsRows, ProcessStepTyped, StutterTyped DEF Base
<1>2. CASE RequestStep
  <2>1. up = "up" /\ UNCHANGED <<up, todo>>
    BY <1>2, WhoIsUp, RequestStepTyped DEF Base
  <2> QED
    BY <1>1, <2>1 DEF Base, NotUpYet
<1>3. CASE Aside
  <2>1. UNCHANGED <<entry, up, todo, req>>
    BY <1>3, AsideKeepsRows DEF Base
  <2>2. ASSUME up # "up" PROVE \A f \in Jobs : job'[f] = job[f]
    <3>1. ASSUME NEW f \in Jobs, NEW s \in Schedules, Tick(f, s) PROVE FALSE
      BY <2>2, <3>1 DEF Tick
    <3>2. ASSUME NEW f \in Jobs \cup {Main}, Fire(f) PROVE \A g \in Jobs : job'[g] = job[g]
      <4>1. f = Main /\ Main \notin Jobs
        BY <2>2, <3>2, WhoIsUp, SchedulesAssumption
      <4> QED
        BY <3>2, <4>1, OneJobMoves DEF Base
    <3> QED
      BY <1>3, <3>1, <3>2 DEF Aside, ManualRun, RunEnds, TimePasses
  <2>3. ASSUME up = "down" PROVE UNCHANGED job
    BY <1>3, <2>3, WhoIsUp DEF Aside, Tick, ManualRun, RunEnds, TimePasses
  <2> QED
    BY <1>1, <2>1, <2>2, <2>3 DEF Base, NotUpYet
<1>4. CASE Boot
  BY <1>1, <1>4 DEF Boot, Base, NotUpYet
<1>5. CASE StartDone
  BY <1>1, <1>5 DEF StartDone, Base, NotUpYet
<1>6. CASE Crash
  BY <1>1, <1>6 DEF Crash, Base, NotUpYet
<1>7. ASSUME NEW c \in todo, StartAdd(c) PROVE Base'
  <2>1. /\ up = "starting" /\ up' = up /\ req' = req
        /\ \A f \in Jobs : job'[f] = job[f]
    BY <1>7, SchedulesAssumption DEF StartAdd, GoJob, Base, TypeOK
  <2> QED
    BY <1>1, <2>1 DEF Base, NotUpYet
<1>8. CASE UNCHANGED vars
  BY <1>1, <1>8 DEF vars, Base, NotUpYet
<1> QED
  BY <1>2, <1>3, <1>4, <1>5, <1>6, <1>7, <1>8, StepIs DEF ProcessStep

LEMMA BaseAtFirst == ASSUME Init PROVE Base
<1>1. TypeOK
  BY SchedulesAssumption DEF Init, TypeOK, Request, Firing
<1> QED
  BY <1>1 DEF Init, Base, NotUpYet

-----------------------------------------------------------------------------
(* Starts make up for what was missed.                                      *)

\* A time that was missed stays so until next_run_at is written ahead.
LEMMA MissedStays ==
  ASSUME TypeOK, NEW s \in Schedules, NEW t \in Schedules, MissedTime(t),
         NEW to \in {"none", "ahead", "late", "overdue"}, row' = SetNext(s, to),
         s # t \/ to = "overdue"
  PROVE  MissedTime(t)'
<1>1. RowsKept
  BY NextIsSet
<1>2. row'[t].next = "overdue"
  <2>1. row \in [Schedules -> Row \cup {None, Gone}]
    BY DEF TypeOK
  <2>2. CASE Exists(s)
    <3>1. row' = [row EXCEPT ![s].next = to]
      BY <2>2 DEF SetNext
    <3>2. CASE s = t
      <4>1. row[t] \in Row
        BY <2>1, <2>2, <3>2 DEF Exists
      <4> QED
        BY <2>1, <3>1, <3>2, <4>1 DEF Row
    <3> QED
      BY <2>1, <3>1, <3>2 DEF MissedTime
  <2> QED
    BY <2>2 DEF SetNext, MissedTime
<1> QED
  BY <1>1, <1>2 DEF MissedTime, RowsKept

\* A step that leaves alone what Start has in hand.
LEMMA StartingStays ==
  ASSUME Starting, Base', owed' \subseteq owed, UNCHANGED <<up, todo>>,
         up # "up" => job'[Main] = job[Main],
         up # "up" => \A s \in Schedules : MissedTime(s) => MissedTime(s)'
  PROVE  Starting'
<1>1. CASE up = "up"
  BY <1>1 DEF Starting, Base, NotUpYet, CatchUps, LoadedIsStored
<1>2. CASE up # "up"
  <2>1. \A c \in todo : c.id \in Schedules
    BY DEF Starting, Base, TypeOK
  <2>2. CatchUps'
    BY <1>2 DEF Starting, CatchUps, InStart, Missed, Base, TypeOK
  <2>3. LoadedIsStored'
    BY <1>2, <2>1 DEF Starting, LoadedIsStored, Missed
  <2> QED
    BY <2>2, <2>3 DEF Starting
<1> QED
  BY <1>1, <1>2

\* Start fires what it has found missed.
LEMMA StartFires ==
  ASSUME Starting, Base', up # "up", Fire(Main)
  PROVE  Starting'
<1>1. up = "starting" /\ UNCHANGED <<up, todo>> /\ TypeOK /\ owed \subseteq Schedules
  <2>1. up = "starting"
    BY WhoIsUp DEF Starting, Base, TypeOK
  <2>2. UNCHANGED <<up, todo>>
    BY AsideKeepsRows DEF Aside, Starting, Base
  <2> QED
    BY <2>1, <2>2 DEF Starting, Base, TypeOK
<1>2. job[Main] \in Firing /\ job \in [Jobs \cup {Main} -> Firing]
  BY <1>1 DEF TypeOK
<1>3. \A c \in todo : c.id # job[Main].id /\ c.id \in Schedules
  BY <1>1 DEF Fire, ReadRow, CountRunning, TriggerRun, Touch, Idle, Starting, LoadedIsStored, TypeOK
<1>4. /\ job'[Main] = Idle \/ job'[Main].id = job[Main].id
      /\ \A s \in owed' : s \in owed
      /\ \/ job'[Main].at \in {"read", "count", "trigger"}
         \/ job[Main].id \notin owed'
  <2>1. CASE ReadRow(Main)
    BY <1>2, <2>1 DEF ReadRow, GoJob, Settled
  <2>2. ASSUME NEW at \in {"trigger", "touch"}, job[Main].at \in {"count", "trigger"}
        PROVE  [job[Main] EXCEPT !.at = at].at = at /\ [job[Main] EXCEPT !.at = at].id = job[Main].id
    BY <1>2, <2>2 DEF Idle, Firing
  <2>3. CASE CountRunning(Main)
    BY <1>2, <2>2, <2>3 DEF CountRunning, GoJob, Settled
  <2>4. CASE TriggerRun(Main)
    BY <1>2, <2>2, <2>4 DEF TriggerRun, GoJob, Settled
  <2>5. CASE Touch(Main)
    <3>1. job'[Main] = Idle /\ owed' = owed /\ job[Main].at = "touch"
      BY <1>2, <2>5 DEF Touch, GoJob, past
    <3>2. job[Main].id \notin owed
      BY <1>1, <1>3, <3>1 DEF Starting, CatchUps, InStart
    <3> QED
      BY <3>1, <3>2
  <2> QED
    BY <2>1, <2>3, <2>4, <2>5 DEF Fire
<1>5. ASSUME NEW c \in todo, MissedTime(c.id) PROVE MissedTime(c.id)'
  <2>1. CASE UNCHANGED row
    BY <1>5, <2>1 DEF MissedTime, Exists
  <2>2. CASE Touch(Main) /\ row' = SetNext(job[Main].id, "ahead")
    <3>1. job[Main].id \in Schedules
      BY <1>2, <2>2 DEF Touch, Firing, Idle
    <3> QED
      BY <1>1, <1>3, <1>5, <2>2, <3>1, MissedStays
  <2> QED
    BY <2>1, <2>2 DEF Fire, ReadRow, CountRunning, TriggerRun, Touch, store
<1>6. LoadedIsStored'
  BY <1>1, <1>3, <1>4, <1>5 DEF Starting, LoadedIsStored, Missed
<1>7. ASSUME NEW s \in owed' PROVE InStart(s)'
  <2>1. InStart(s)
    BY <1>1, <1>4, <1>7 DEF Starting, CatchUps
  <2>2. CASE \E c \in todo : c.id = s /\ Missed(c)
    BY <1>1, <2>2 DEF InStart, Missed
  <2>3. CASE job[Main].id = s
    <3>1. job'[Main].at \in {"read", "count", "trigger"}
      BY <1>4, <1>7, <2>3
    <3>2. job'[Main].id = s
      BY <1>4, <2>3, <3>1 DEF Idle
    <3> QED
      BY <3>1, <3>2 DEF InStart
  <2> QED
    BY <2>1, <2>2, <2>3 DEF InStart
<1> QED
  BY <1>1, <1>6, <1>7 DEF Starting, CatchUps

\* What is loaded is gone through, and fired if it was missed.
LEMMA StartGoesOn ==
  ASSUME Starting, Base', NEW c \in todo, StartAdd(c)
  PROVE  Starting'
<1>1. /\ TypeOK /\ c.id \in Schedules /\ c.row \in Row /\ c.row.expr \in Exprs
      /\ \A d \in todo : d.id \in Schedules
  BY DEF Starting, Base, TypeOK, Row
<1>2. /\ up = "starting" /\ up' = up /\ owed' = owed /\ todo' = todo \ {c}
      /\ job[Main] = Idle
      /\ IF Missed(c) THEN job'[Main] = [at |-> "read", id |-> c.id] ELSE job'[Main] = Idle
  BY <1>1 DEF StartAdd, GoJob, TypeOK, past
<1>3. \A d \in todo' : d.id # c.id /\ d \in todo
  BY <1>2 DEF Starting, LoadedIsStored
<1>4. ASSUME NEW s \in owed' PROVE InStart(s)'
  <2>1. PICK d \in todo : d.id = s /\ Missed(d)
    BY <1>2 DEF Starting, CatchUps, InStart, Idle
  <2>2. CASE d = c
    BY <1>2, <2>1, <2>2 DEF InStart
  <2>3. CASE d # c
    BY <1>2, <2>1, <2>3 DEF InStart, Missed
  <2> QED
    BY <2>2, <2>3
<1>5. ASSUME NEW d \in todo', Missed(d) PROVE MissedTime(d.id)'
  <2>1. MissedTime(d.id) /\ d.id \in Schedules /\ d.id # c.id
    BY <1>1, <1>3, <1>5 DEF Starting, LoadedIsStored
  <2>2. UNCHANGED row \/ row' = SetNext(c.id, "ahead")
    BY DEF StartAdd, Sync
  <2> QED
    BY <1>1, <2>1, <2>2, MissedStays DEF MissedTime, Exists
<1>6. \A d \in todo' : job'[Main] # Idle => job'[Main].id # d.id
  BY <1>2, <1>3
<1>7. LoadedIsStored'
  BY <1>3, <1>5, <1>6 DEF LoadedIsStored, Missed, Starting
<1> QED
  BY <1>2, <1>4, <1>7 DEF Starting, CatchUps

LEMMA StartingKept == ASSUME Starting, [Next]_vars PROVE Starting'
<1>1. Base /\ Base' /\ TypeOK
  BY BaseKept DEF Starting, Base
<1>2. CASE RequestStep
  BY <1>1, <1>2, WhoIsUp, RequestStepTyped, StartingStays
<1>3. CASE Aside
  <2>1. owed' \subseteq owed /\ UNCHANGED <<up, todo>>
    BY <1>1, <1>3, AsideKeepsRows
  <2>2. CASE up = "up"
    BY <1>1, <2>1, <2>2, StartingStays
  <2>3. CASE up # "up" /\ Fire(Main)
    BY <1>1, <2>3, StartFires
  <2>4. CASE up # "up" /\ \E p \in Plans : ManualRun(p) \/ RunEnds(p)
    <3>1. job' = job /\ row' = row
      BY <2>4 DEF ManualRun, RunEnds
    <3> QED
      BY <1>1, <2>1, <3>1, StartingStays DEF MissedTime, Exists
  <2>5. CASE up # "up" /\ \E s \in Schedules : TimePasses(s)
    <3>1. PICK s \in Schedules : TimePasses(s)
      BY <2>5
    <3>2. ASSUME NEW t \in Schedules, MissedTime(t) PROVE MissedTime(t)'
      <4>1. CASE row' = SetNext(s, "overdue")
        BY <1>1, <3>2, <4>1, MissedStays
      <4>2. CASE row[s].next = "ahead" /\ row' = SetNext(s, "late")
        BY <1>1, <3>2, <4>2, MissedStays DEF MissedTime
      <4> QED
        BY <3>1, <4>1, <4>2 DEF TimePasses
    <3>3. job' = job
      BY <3>1 DEF TimePasses
    <3> QED
      BY <1>1, <2>1, <3>2, <3>3, StartingStays
  <2>6. up # "up" => ~(\E f \in Jobs, s \in Schedules : Tick(f, s)) /\ \A f \in Jobs : ~Fire(f)
    BY <1>1, WhoIsUp DEF Tick
  <2> QED
    BY <1>3, <2>2, <2>3, <2>4, <2>5, <2>6 DEF Aside
<1>4. CASE Boot
  <2>1. /\ up = "down" /\ up' = "starting" /\ UNCHANGED <<row, job>> /\ job[Main] = Idle
        /\ todo' = {[id |-> s, row |-> row[s]] : s \in Loaded}
        /\ owed' = owed \cup {s \in Schedules : MissedTime(s)}
    BY <1>1, <1>4 DEF Boot, Base, NotUpYet
  <2>2. ASSUME NEW s \in owed' PROVE InStart(s)'
    <3>1. MissedTime(s) /\ s \in Schedules
      BY <1>1, <2>1 DEF Starting, CatchUps, TypeOK
    <3>2. [id |-> s, row |-> row[s]] \in todo'
      BY <2>1, <3>1 DEF MissedTime, Loaded
    <3> QED
      BY <3>1, <3>2 DEF InStart, Missed, MissedTime
  <2>3. \A c \in todo' : Missed(c) => MissedTime(c.id)'
    BY <2>1 DEF Missed, MissedTime, Loaded, Exists
  <2>4. LoadedIsStored'
    BY <2>1, <2>3 DEF LoadedIsStored, Missed
  <2> QED
    BY <1>1, <2>1, <2>2, <2>4 DEF Starting, CatchUps
<1>5. CASE StartDone
  <2>1. up = "starting" /\ up' = "up" /\ todo = {} /\ todo' = {} /\ job[Main] = Idle /\ owed' = owed
    BY <1>5 DEF StartDone, past
  <2>2. owed = {}
    BY <2>1 DEF Starting, CatchUps, InStart, Idle
  <2> QED
    BY <1>1, <2>1, <2>2 DEF Starting, CatchUps, LoadedIsStored
<1>6. CASE Crash
  <2>1. up # "down" /\ up' = "down" /\ todo' = {} /\ row' = row /\ owed' = owed \ CutShort
    BY <1>6 DEF Crash, store
  <2>2. ASSUME NEW s \in owed' PROVE MissedTime(s)'
    <3>1. s \in owed /\ s \notin CutShort /\ InStart(s)
      BY <1>1, <2>1 DEF Starting, CatchUps, TypeOK
    <3>2. MissedTime(s)
      BY <3>1 DEF CutShort, InStart, Idle, Starting, LoadedIsStored
    <3> QED
      BY <2>1, <3>2 DEF MissedTime, Exists
  <2> QED
    BY <1>1, <2>1, <2>2 DEF Starting, CatchUps, LoadedIsStored
<1>7. ASSUME NEW c \in todo, StartAdd(c) PROVE Starting'
  BY <1>1, <1>7, StartGoesOn
<1>8. CASE UNCHANGED vars
  BY <1>1, <1>8, StartingStays DEF vars, store, past, MissedTime, Exists
<1> QED
  BY <1>2, <1>3, <1>4, <1>5, <1>6, <1>7, <1>8, StepIs DEF ProcessStep

\* When a start is over no catch-up is due any more (MissedAreMadeUp of
\* Schedules): whatever a start found missed has been fired or skipped, by it or,
\* after crashes, by a later one, but for the catch-up a crash cut short.
THEOREM MissedAreFired == Spec => []MissedAreMadeUp
<1>1. Init => Starting
  BY BaseAtFirst DEF Init, Starting, CatchUps, LoadedIsStored
<1>2. Starting /\ [Next]_vars => Starting'
  BY StartingKept
<1>3. Starting => MissedAreMadeUp
  BY DEF Starting, CatchUps, MissedAreMadeUp
<1> QED
  BY <1>1, <1>2, <1>3, PTL DEF Spec

-----------------------------------------------------------------------------
(* The entries agree with the rows.                                         *)

\* The row of s stays as it is, next_run_at aside.
SameRow(s) ==
  /\ Exists(s)' <=> Exists(s)
  /\ Exists(s) => row'[s].expr = row[s].expr /\ row'[s].enabled = row[s].enabled

LEMMA SameIsDue ==
  ASSUME NEW s \in Schedules, SameRow(s)
  PROVE  /\ Entered(s)' <=> Entered(s)
         /\ Due(s)' = Due(s)
         /\ \A c : Current(c, s) => Exists(s)' /\ c = Ask(row'[s])
BY DEF SameRow, Entered, Due, Current, Ask

\* A schedule stays accounted for if its row and entry stay, and nobody who was
\* about to write the entry goes away.
LEMMA AccountedStays ==
  ASSUME NEW s \in Schedules, Accounted(s), SameRow(s), entry'[s] = entry[s], up' = up,
         (\E c \in todo : c.id = s) => \E c \in todo' : c.id = s,
         \A r \in Requests :
           /\ req[r].at = "sync" /\ req[r].id = s => req'[r] = req[r]
           /\ req[r].at = "remove" /\ s \in req[r].ids
                => req'[r].at = "remove" /\ s \in req'[r].ids
  PROVE  Accounted(s)'
<1>1. /\ Entered(s)' <=> Entered(s)
      /\ Due(s)' = Due(s)
      /\ \A c : Current(c, s) => Exists(s)' /\ c = Ask(row'[s])
  BY SameIsDue
<1>2. CASE up = "down"
  BY <1>2 DEF Accounted
<1>3. CASE entry[s] = Due(s)
  BY <1>1, <1>3 DEF Accounted, Due
<1>4. CASE \E c \in todo : c.id = s
  BY <1>4 DEF Accounted
<1>5. ASSUME NEW r \in Requests, req[r].at = "sync", req[r].id = s, Current(req[r].row, s)
      PROVE  Accounted(s)'
  <2>1. Current(req[r].row, s)' /\ req'[r] = req[r]
    BY <1>1, <1>5 DEF Current
  <2> QED
    BY <1>5, <2>1 DEF Accounted, Current
<1>6. ASSUME NEW r \in Requests, req[r].at = "remove", s \in req[r].ids, ~Entered(s)
      PROVE  Accounted(s)'
  BY <1>1, <1>6 DEF Accounted
<1> QED
  BY <1>2, <1>3, <1>4, <1>5, <1>6 DEF Accounted, Due

\* What a request does to the entries, the rows and what is written down of it.
LEMMA RequestsAgree ==
  ASSUME Entering, RequestStep
  PROVE  EntriesAgree'
<1> SUFFICES ASSUME NEW s \in Schedules, s \notin overtaken' PROVE Accounted(s)'
  BY DEF EntriesAgree
<1>1. /\ TypeOK /\ up' = up /\ todo' = todo
      /\ row \in [Schedules -> Row \cup {None, Gone}]
      /\ entry \in [Schedules -> (Exprs \ Invalid) \cup {None}]
  BY RequestStepTyped DEF Entering, Base, TypeOK
<1>2. s \notin overtaken => Accounted(s)
  BY DEF Entering, EntriesAgree
<1>3. ASSUME NEW r \in Requests, NEW to \in Request, Go(r, to),
             s \notin overtaken, SameRow(s), entry'[s] = entry[s],
             ~(req[r].at = "sync" /\ req[r].id = s),
             req[r].at = "remove" /\ s \in req[r].ids => to.at = "remove" /\ s \in to.ids
      PROVE  Accounted(s)'
  <2>1. req'[r] = to /\ \A q \in Requests \ {r} : req'[q] = req[q]
    BY <1>1, <1>3, OneReqMoves
  <2>2. \A q \in Requests :
           /\ req[q].at = "sync" /\ req[q].id = s => req'[q] = req[q]
           /\ req[q].at = "remove" /\ s \in req[q].ids
                => req'[q].at = "remove" /\ s \in req'[q].ids
    BY <1>3, <2>1
  <2> QED
    BY <1>1, <1>2, <1>3, <2>2, AccountedStays
<1>4. Idle \in Request /\ Idle.at = "idle"
  BY DEF Request, Idle
<1>5. ASSUME row'[s] = row[s] PROVE SameRow(s)
  BY <1>5 DEF SameRow, Exists
<1>6. ASSUME NEW r \in Requests, Save(r) PROVE Accounted(s)'
  <2> PICK to : to = [at |-> "sync", id |-> req[r].id, row |-> Ask(req[r].row)]
    OBVIOUS
  <2>1. /\ req[r].at = "save" /\ Go(r, to) /\ row' = [row EXCEPT ![req[r].id] = req[r].row]
        /\ overtaken' = overtaken \ {req[r].id} /\ entry' = entry
    BY <1>6 DEF Save
  <2>2. /\ req[r].id \in Schedules /\ req[r].row \in Row /\ to \in Request
        /\ to.at = "sync" /\ to.id = req[r].id /\ to.row = Ask(req[r].row)
    BY <1>1, <2>1, InHand
  <2>3. CASE s = req[r].id
    <3>1. row'[s] = req[r].row
      BY <1>1, <2>1, <2>2, <2>3
    <3>2. Current(to.row, s)'
      BY <2>2, <3>1, NoRowAssumption DEF Current, Exists
    <3>3. req'[r] = to
      BY <1>1, <2>1, <2>2, OneReqMoves
    <3> QED
      BY <2>2, <2>3, <3>2, <3>3 DEF Accounted, Current
  <2>4. CASE s # req[r].id
    <3>1. row'[s] = row[s] /\ s \notin overtaken
      BY <1>1, <2>1, <2>4
    <3> QED
      BY <1>3, <1>5, <2>1, <2>2, <3>1
  <2> QED
    BY <2>3, <2>4
<1>7. ASSUME NEW r \in Requests, SyncEntry(r) PROVE Accounted(s)'
  <2>1. /\ req[r].at = "sync" /\ Sync(req[r].id, req[r].row) /\ Go(r, Idle)
        /\ Wrote(req[r].id, Current(req[r].row, req[r].id))
    BY <1>7 DEF SyncEntry
  <2>2. req[r].id \in Schedules /\ req[r].row.expr \in Exprs
    BY <1>1, <2>1, InHand DEF Asked
  <2>3. /\ RowsKept /\ \A t \in Schedules \ {req[r].id} : entry'[t] = entry[t]
        /\ entry'[req[r].id] = IF req[r].row.enabled /\ req[r].row.expr \notin Invalid
                              THEN req[r].row.expr ELSE None
    BY <1>1, <2>1, <2>2, Synced
  <2>4. SameRow(s)
    BY <2>3 DEF RowsKept, SameRow
  <2>5. CASE s = req[r].id
    <3>1. Current(req[r].row, s)
      BY <2>1, <2>5 DEF Wrote
    <3>2. entry'[s] = Due(s)
      BY <2>3, <2>5, <3>1 DEF Current, Ask, Due, Entered
    <3> QED
      BY <2>4, <3>2, SameIsDue DEF Accounted, Due
  <2>6. CASE s # req[r].id
    <3>1. s \notin overtaken
      BY <2>1, <2>6 DEF Wrote
    <3> QED
      BY <1>3, <1>4, <2>1, <2>3, <2>4, <2>6, <3>1
  <2> QED
    BY <2>5, <2>6
<1>8. ASSUME NEW r \in Requests, RemoveEntry(r) PROVE Accounted(s)'
  <2>1. req[r].at = "remove" /\ row' = row
    BY <1>8 DEF RemoveEntry, store
  <2>2. CASE req[r].ids = {} /\ Go(r, Idle) /\ UNCHANGED <<entry, overtaken>>
    BY <1>3, <1>4, <1>5, <2>1, <2>2
  <2>3. ASSUME NEW t \in req[r].ids, entry' = [entry EXCEPT ![t] = None],
               Go(r, [req[r] EXCEPT !.ids = @ \ {t}]), Wrote(t, ~Entered(t))
        PROVE  Accounted(s)'
    <3> PICK to : to = [req[r] EXCEPT !.ids = @ \ {t}]
      OBVIOUS
    <3>1. to \in Request /\ to.at = "remove" /\ to.ids = req[r].ids \ {t} /\ Go(r, to)
      BY <1>1, <2>1, <2>3, InHand
    <3>2. CASE s = t
      <4>1. ~Entered(s) /\ entry'[s] = None
        BY <1>1, <2>3, <3>2 DEF Wrote
      <4> QED
        BY <2>1, <4>1 DEF Accounted, Entered, Exists
    <3>3. CASE s # t
      <4>1. s \notin overtaken /\ entry'[s] = entry[s]
        BY <1>1, <2>3, <3>3 DEF Wrote
      <4> QED
        BY <1>3, <1>5, <2>1, <3>1, <3>3, <4>1
    <3> QED
      BY <3>2, <3>3
  <2> QED
    BY <1>8, <2>2, <2>3 DEF RemoveEntry
<1>9. ASSUME NEW r \in Requests, NEW t \in Schedules, Delete(r, t) PROVE Accounted(s)'
  <2> PICK to : to = [at |-> "remove", ids |-> {t}]
    OBVIOUS
  <2>1. to \in Request /\ to.at = "remove" /\ to.ids = {t}
    BY DEF Request
  <2>2. /\ Go(r, to) /\ req[r] = Idle /\ entry' = entry /\ overtaken' = overtaken
        /\ row' = [row EXCEPT ![t] = Gone]
    BY <1>9 DEF Delete, Begin, past
  <2>3. CASE s = t
    <3>1. ~Entered(s)' /\ req'[r] = to
      BY <1>1, <2>1, <2>2, <2>3, OneReqMoves DEF Entered, Exists
    <3> QED
      BY <2>1, <2>3, <3>1 DEF Accounted
  <2>4. CASE s # t
    <3>1. row'[s] = row[s]
      BY <1>1, <2>2, <2>4
    <3> QED
      BY <1>3, <1>4, <1>5, <2>1, <2>2, <3>1
  <2> QED
    BY <2>3, <2>4
<1>10. ASSUME NEW r \in Requests, NEW t \in Schedules, NEW c \in Row, Create(r, t, c) \/ Update(r, t, c)
       PROVE  Accounted(s)'
  <2> PICK to : to = [at |-> "save", id |-> t, row |-> c]
    OBVIOUS
  <2>1. to \in Request
    BY DEF Request
  <2>2. Go(r, to) /\ req[r] = Idle /\ UNCHANGED <<entry, row, overtaken>>
    BY <1>10 DEF Create, Update, Begin, store, past
  <2> QED
    BY <1>3, <1>4, <1>5, <2>1, <2>2
<1>11. ASSUME NEW r \in Requests, NEW p \in Plans, DeletePlan(r, p) PROVE Accounted(s)'
  <2> PICK to : to = [at |-> "remove", ids |-> DisabledWith(p)]
    OBVIOUS
  <2>1. to \in Request /\ to.at = "remove" /\ to.ids = DisabledWith(p)
    BY DEF Request, DisabledWith
  <2>2. Go(r, to) /\ req[r] = Idle /\ UNCHANGED <<entry, overtaken>>
    BY <1>11 DEF DeletePlan, Begin, past
  <2>3. /\ s \notin DisabledWith(p) => row'[s] = row[s]
        /\ s \in DisabledWith(p) => ~row'[s].enabled
    BY <1>1, <1>11, PlanIsDeleted
  <2>4. CASE s \in DisabledWith(p)
    <3>1. ~Entered(s)' /\ req'[r] = to
      BY <1>1, <2>1, <2>2, <2>3, <2>4, OneReqMoves DEF Entered
    <3> QED
      BY <2>1, <2>4, <3>1 DEF Accounted
  <2>5. CASE s \notin DisabledWith(p)
    BY <1>3, <1>4, <1>5, <2>1, <2>2, <2>3, <2>5
  <2> QED
    BY <2>4, <2>5
<1>12. ASSUME NEW r \in Requests, NEW p \in Plans, AiDeletePlan(r, p) PROVE Accounted(s)'
  <2>1. UNCHANGED <<row, entry, req, overtaken>>
    BY <1>12 DEF AiDeletePlan, past
  <2> QED
    BY <1>1, <1>2, <1>5, <2>1, AccountedStays
<1> QED
  BY <1>6, <1>7, <1>8, <1>9, <1>10, <1>11, <1>12 DEF RequestStep, Serve

\* A step that keeps the rows and nothing else that is entered by.
LEMMA RowsKeptEntering ==
  ASSUME Entering, Base', RowsKept, UNCHANGED <<entry, up, todo, req, overtaken>>
  PROVE  Entering'
<1>1. ASSUME NEW s \in Schedules, s \notin overtaken' PROVE Accounted(s)'
  <2>1. Accounted(s) /\ SameRow(s)
    BY <1>1 DEF Entering, EntriesAgree, RowsKept, SameRow
  <2> QED
    BY <2>1, AccountedStays
<1>2. ASSUME NEW c \in todo PROVE Current(Ask(c.row), c.id)'
  <2>1. c.id \in Schedules /\ Current(Ask(c.row), c.id)
    BY DEF Entering, AddsTheRow, Base, TypeOK
  <2>2. SameRow(c.id)
    BY <2>1 DEF RowsKept, SameRow
  <2> QED
    BY <2>1, <2>2, SameIsDue DEF Current
<1>3. AddsTheRow' /\ EntriesAgree'
  BY <1>1, <1>2 DEF AddsTheRow, EntriesAgree
<1> QED
  BY <1>3 DEF Entering

LEMMA EnteringKept == ASSUME Entering, [Next]_vars PROVE Entering'
<1>1. Base /\ Base' /\ TypeOK
  BY BaseKept DEF Entering, Base
<1>2. CASE RequestStep
  <2>1. up = "up" /\ todo = {} /\ todo' = {}
    BY <1>1, <1>2, WhoIsUp, RequestStepTyped DEF Base, NotUpYet
  <2> QED
    BY <1>1, <1>2, <2>1, RequestsAgree DEF Entering, AddsTheRow
<1>3. CASE Aside
  BY <1>1, <1>3, AsideKeepsRows, RowsKeptEntering
<1>4. CASE Boot
  <2>1. /\ \A s \in Schedules : entry[s] = None
        /\ up' = "starting" /\ UNCHANGED <<row, entry>>
        /\ todo' = {[id |-> s, row |-> row[s]] : s \in Loaded}
    BY <1>1, <1>4 DEF Boot, Base, NotUpYet
  <2>2. AddsTheRow'
    BY <2>1 DEF AddsTheRow, Loaded, Current, Exists
  <2>3. ASSUME NEW s \in Schedules PROVE Accounted(s)'
    <3>1. CASE s \in Loaded
      <4>1. [id |-> s, row |-> row[s]] \in todo'
        BY <2>1, <3>1
      <4> QED
        BY <4>1 DEF Accounted
    <3>2. CASE s \notin Loaded
      BY <2>1, <3>2 DEF Accounted, Loaded, Entered, Exists
    <3> QED
      BY <3>1, <3>2
  <2> QED
    BY <1>1, <2>2, <2>3 DEF Entering, EntriesAgree
<1>5. CASE StartDone
  <2>1. up = "starting" /\ todo = {} /\ UNCHANGED <<row, entry, todo, req, overtaken>>
    BY <1>5 DEF StartDone, store, past
  <2>2. ASSUME NEW s \in Schedules, s \notin overtaken' PROVE Accounted(s)'
    <3>1. Accounted(s)
      BY <2>1, <2>2 DEF Entering, EntriesAgree
    <3> QED
      BY <2>1, <3>1 DEF Accounted, Entered, Exists, Current
  <2> QED
    BY <1>1, <2>1, <2>2 DEF Entering, EntriesAgree, AddsTheRow
<1>6. CASE Crash
  BY <1>1, <1>6 DEF Crash, Entering, EntriesAgree, Accounted, AddsTheRow
<1>7. ASSUME NEW c \in todo, StartAdd(c) PROVE Entering'
  <2>1. /\ up = "starting" /\ up' = up /\ req' = req /\ todo' = todo \ {c}
        /\ overtaken' = overtaken /\ Sync(c.id, c.row)
        /\ c.id \in Schedules /\ c.row \in Row /\ c.row.expr \in Exprs
    BY <1>1, <1>7 DEF StartAdd, TypeOK, Row, past
  <2>2. /\ RowsKept /\ \A t \in Schedules \ {c.id} : entry'[t] = entry[t]
        /\ entry'[c.id] = IF c.row.enabled /\ c.row.expr \notin Invalid THEN c.row.expr ELSE None
    BY <1>1, <2>1, Synced
  <2>3. Current(Ask(c.row), c.id)
    BY <2>1 DEF Entering, AddsTheRow
  <2>4. ASSUME NEW s \in Schedules, s \notin overtaken' PROVE Accounted(s)'
    <3>1. SameRow(s)
      BY <2>2 DEF RowsKept, SameRow
    <3>2. CASE s = c.id
      <4>1. entry'[s] = Due(s)
        BY <2>2, <2>3, <3>2 DEF Current, Ask, Due, Entered
      <4> QED
        BY <3>1, <4>1, SameIsDue DEF Accounted, Due
    <3>3. CASE s # c.id
      <4>1. Accounted(s) /\ entry'[s] = entry[s]
        BY <2>1, <2>2, <2>4, <3>3 DEF Entering, EntriesAgree
      <4>2. (\E d \in todo : d.id = s) => \E d \in todo' : d.id = s
        BY <2>1, <3>3
      <4> QED
        BY <2>1, <3>1, <4>1, <4>2, AccountedStays
    <3> QED
      BY <3>2, <3>3
  <2>5. ASSUME NEW d \in todo' PROVE Current(Ask(d.row), d.id)'
    <3>1. d.id \in Schedules /\ Current(Ask(d.row), d.id)
      BY <1>1, <2>1 DEF Entering, AddsTheRow, TypeOK
    <3>2. SameRow(d.id)
      BY <2>2, <3>1 DEF RowsKept, SameRow
    <3> QED
      BY <3>1, <3>2, SameIsDue DEF Current
  <2> QED
    BY <1>1, <2>4, <2>5 DEF Entering, EntriesAgree, AddsTheRow
<1>8. CASE UNCHANGED vars
  <2>1. RowsKept /\ UNCHANGED <<entry, up, todo, req, overtaken>>
    BY <1>8 DEF vars, store, past, RowsKept, Exists
  <2> QED
    BY <1>1, <2>1, RowsKeptEntering
<1> QED
  BY <1>2, <1>3, <1>4, <1>5, <1>6, <1>7, <1>8, StepIs DEF ProcessStep

\* The entry of every schedule is what its row asks for, or somebody is about to
\* make it so, but where an overtaken request wrote it (EntriesAgree of Schedules):
\* through updates, deletions, crashes and restarts, whatever requests overlap.
THEOREM EntriesAreTheRows == Spec => []EntriesAgree
<1>1. Init => Entering
  BY BaseAtFirst DEF Init, Entering, EntriesAgree, Accounted, AddsTheRow
<1>2. Entering /\ [Next]_vars => Entering'
  BY EnteringKept
<1>3. Entering => EntriesAgree
  BY DEF Entering
<1> QED
  BY <1>1, <1>2, <1>3, PTL DEF Spec
=============================================================================
