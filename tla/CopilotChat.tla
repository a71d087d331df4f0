----------------------------- MODULE CopilotChat -----------------------------
(***************************************************************************)
(* A Copilot conversation: the session and its messages in the scheduler's *)
(* database, the chat requests that the Copilot service answers, and the   *)
(* user's approvals, which come with a request and not from the database.  *)
(*                                                                         *)
(* The model proposes a call of a writing tool; the card appears in the    *)
(* browser tab; the user's answer comes back with the tab's next request,  *)
(* which executes the approved calls that the stored transcript does not   *)
(* show as answered. A request reads the transcript once, at its start,    *)
(* and writes what it did at its end, row by row over REST; in between     *)
(* other tabs, a cut stream, an error or the trash may come.               *)
(*                                                                         *)
(* The agent library and the browser are modelled by what src/ makes of    *)
(* them; a denial is an answer that executes nothing.                      *)
(***************************************************************************)
EXTENDS Integers, Sequences, FiniteSets, SequencesExt

CONSTANTS
  Tabs,     (* browser tabs of the user, all on this session                 *)
  MaxReqs,  (* bound: chat requests, each used once                          *)
  MaxHit,   (* bound: requests that a fault may have struck when one strikes *)
  Calls,    (* calls of writing tools, by tool_call_id                       *)
  Texts,    (* what the user may write                                       *)
  NoText, NoCall

Reqs  == 1 .. MaxReqs
NoReq == 0

ASSUME CopilotChatAssumption ==
  /\ IsFiniteSet(Tabs) /\ IsFiniteSet(Calls)
  /\ MaxReqs \in Nat /\ MaxHit \in Nat
  /\ NoText \notin Texts /\ NoCall \notin Calls
  /\ Texts \cap Calls = {}

VARIABLES
  session,  (* CopilotSession: active, in the trash (expired: for 30 days)   *)
  rows,     (* CopilotMessage rows of the session, in id order               *)
  executed, (* how often the scheduler has executed a call                   *)
  card,     (* what a tab shows of a call                                    *)
  cur,      (* the request whose stream a tab is reading                     *)
  req       (* the chat requests                                             *)

vars == <<session, rows, executed, card, cur, req>>

Row == [kind : {"user"}, of : Texts, by : Reqs]
       \cup [kind : {"call", "result"}, of : Calls, by : Reqs]

\* answers: the tab's answers, until the transcript is fetched; then todo, out,
\* got: approved calls to execute, being executed, and answered; asks: the call
\* its model proposed; queue: rows it has to POST, the first being at "post".
\* ran, before and hit are history: calls it executed, requests that were over
\* when it fetched, and whether a fault struck it.
Req == [pc : {"unused", "history", "user", "run", "persist", "over"},
        text : Texts \cup {NoText}, answers : [Calls -> {"none", "yes", "no"}],
        todo : SUBSET Calls, out : SUBSET Calls, got : SUBSET Calls,
        asks : Calls \cup {NoCall}, queue : Seq(Row), post : {"idle", "checked"},
        ran : SUBSET Calls, before : SUBSET Reqs, hit : BOOLEAN]

\* The type of every variable.
TypeOK ==
  /\ session \in {"active", "trashed", "expired", "gone"}
  /\ rows \in Seq(Row)
  /\ executed \in [Calls -> Nat]
  /\ card \in [Tabs -> [Calls -> {"none", "asked", "yes", "no", "done"}]]
  /\ cur \in [Tabs -> Reqs \cup {NoReq}]
  /\ req \in [Reqs -> Req]

None == [c \in Calls |-> "none"]
Fresh ==
  [pc |-> "unused", text |-> NoText, answers |-> None, todo |-> {}, out |-> {},
   got |-> {}, asks |-> NoCall, queue |-> <<>>, post |-> "idle", ran |-> {},
   before |-> {}, hit |-> FALSE]

\* createCopilotSession: an empty session.
Init ==
  /\ session = "active" /\ rows = <<>>
  /\ executed = [c \in Calls |-> 0]
  /\ card = [t \in Tabs |-> None]
  /\ cur = [t \in Tabs |-> NoReq]
  /\ req = [q \in Reqs |-> Fresh]

Stored(kind, c) == \E i \in DOMAIN rows : rows[i].kind = kind /\ rows[i].of = c

\* Over, and nothing of it is left in the scheduler.
Over(q) == req[q].pc = "over" /\ req[q].queue = <<>>

-----------------------------------------------------------------------------
(* The browser tab.                                                         *)

\* Bound: a tab acts as long as it has a request left to send.
MayAct == \E q \in Reqs : req[q].pc = "unused"

\* openSession: the stored calls without a result get their card back.
Open(t) ==
  /\ MayAct /\ session = "active"
  /\ card' = [card EXCEPT ![t] = [c \in Calls |->
       IF Stored("result", c) THEN "done"
       ELSE IF Stored("call", c) THEN "asked" ELSE "none"]]
  /\ cur' = [cur EXCEPT ![t] = NoReq]
  /\ UNCHANGED <<session, rows, executed, req>>

Answer(t, c, a) ==
  /\ MayAct /\ card[t][c] = "asked"
  /\ card' = [card EXCEPT ![t][c] = a]
  /\ UNCHANGED <<session, rows, executed, cur, req>>

\* stop(): the tab turns away; the server's side of the request may go on.
Stop(t) ==
  /\ MayAct /\ cur[t] # NoReq
  /\ cur' = [cur EXCEPT ![t] = NoReq]
  /\ UNCHANGED <<session, rows, executed, card, req>>

\* A text, or, when every card has its answer, the answers alone. The tab sends
\* its whole view, so the answers it has no outcome for come along either way.
Submit(t, q, x) ==
  /\ cur[t] = NoReq
  /\ \A p \in Reqs : req[p].pc = "unused" <=> p >= q
  /\ x = NoText => /\ \E c \in Calls : card[t][c] \in {"yes", "no"}
                   /\ \A c \in Calls : card[t][c] # "asked"
  /\ req' = [req EXCEPT ![q].pc = "history", ![q].text = x,
               ![q].answers = [c \in Calls |->
                 IF card[t][c] \in {"yes", "no"} THEN card[t][c] ELSE "none"]]
  /\ cur' = [cur EXCEPT ![t] = q]
  /\ UNCHANGED <<session, rows, executed, card>>

\* What the stream of q tells the tab that reads it.
Streams(q, S, state) ==
  card' = [t \in Tabs |-> [c \in Calls |->
    IF cur[t] = q /\ c \in S THEN state ELSE card[t][c]]]

\* The streams of the requests in Q end.
HangUp(Q) == cur' = [t \in Tabs |-> IF cur[t] \in Q THEN NoReq ELSE cur[t]]

-----------------------------------------------------------------------------
(* The chat handler up to the agent's run.                                  *)

\* A text that repeats the last stored message is a resend, and not stored.
ResentFirst(x) ==
  rows # <<>> /\ Head(rows).kind = "user" /\ Head(rows).of = x
Resent(x) ==
  rows # <<>> /\ Last(rows).kind = "user" /\ Last(rows).of = x

AnswerableUnanchored(c) == ~Stored("result", c)

\* _anchor_map_from_rows, _sanitize_client_messages: an answer counts if the
\* transcript knows the call and no result of it.
Answerable(c) == Stored("call", c) /\ ~Stored("result", c)

\* GET messages, which a session in the trash answers with 404 and the chat with
\* 502. The transcript decides, here and for good, whether the user's message is
\* to be stored and which of the client's answers count.
History(q) ==
  LET x == req[q].text
      Answered(a) == {c \in Calls : req[q].answers[c] = a /\ Answerable(c)} IN
  /\ req[q].pc = "history"
  /\ \/ /\ session = "active"
        /\ req' = [req EXCEPT ![q].pc = "user", ![q].text = NoText,
             ![q].answers = None,
             ![q].before = {p \in Reqs : Over(p)},
             ![q].todo = Answered("yes"), ![q].got = Answered("no"),
             ![q].queue = IF x = NoText \/ Resent(x) THEN <<>>
                          ELSE <<[kind |-> "user", of |-> x, by |-> q]>>]
        /\ UNCHANGED cur
     \/ /\ session # "active"
        /\ req' = [req EXCEPT ![q].pc = "over", ![q].text = NoText,
             ![q].answers = None]
        /\ HangUp({q})
  /\ UNCHANGED <<session, rows, executed, card>>

\* The user's message is stored or given up: the run begins. A denial is an
\* answer already.
Dispatch(q) ==
  /\ req[q].pc = "user" /\ req[q].queue = <<>>
  /\ req' = [req EXCEPT ![q].pc = "run"]
  /\ Streams(q, req[q].got, "done")
  /\ UNCHANGED <<session, rows, executed, cur>>

-----------------------------------------------------------------------------
(* The agent's run.                                                         *)

\* The tool's gRPC call reaches the scheduler ...
Execute(q, c) ==
  /\ req[q].pc = "run" /\ c \in req[q].todo
  /\ executed' = [executed EXCEPT ![c] = @ + 1]
  /\ req' = [req EXCEPT ![q].todo = @ \ {c}, ![q].out = @ \cup {c},
               ![q].ran = @ \cup {c}]
  /\ UNCHANGED <<session, rows, card, cur>>

\* ... and its result the run and the stream.
Return(q, c) ==
  /\ req[q].pc = "run" /\ c \in req[q].out
  /\ req' = [req EXCEPT ![q].out = @ \ {c}, ![q].got = @ \cup {c}]
  /\ Streams(q, {c}, "done")
  /\ UNCHANGED <<session, rows, executed, cur>>

AtRest(q) == req[q].todo = {} /\ req[q].out = {}

\* The model proposes a call, with an id of its own; the run will end with it.
Propose(q, c) ==
  /\ req[q].pc = "run" /\ AtRest(q) /\ req[q].asks = NoCall
  /\ \A p \in Reqs : req[p].asks # c
  /\ req' = [req EXCEPT ![q].asks = c]
  /\ Streams(q, {c}, "asked")
  /\ UNCHANGED <<session, rows, executed, cur>>

\* _render_rows: the results first, then the call that waits for its approval.
Rendered(q) ==
  SetToSeq({[kind |-> "result", of |-> c, by |-> q] : c \in req[q].got})
  \o (IF req[q].asks = NoCall THEN <<>>
      ELSE <<[kind |-> "call", of |-> req[q].asks, by |-> q]>>)

\* on_complete: the run has ended.
Complete(q) ==
  /\ req[q].pc = "run" /\ AtRest(q)
  /\ req' = [req EXCEPT ![q].pc = "persist", ![q].got = {},
               ![q].queue = Rendered(q)]
  /\ UNCHANGED <<session, rows, executed, card, cur>>

CutForgotten(q) ==
  /\ req[q].pc = "run"
  /\ req' = [req EXCEPT ![q].pc = "over", ![q].todo = {}, ![q].out = {},
               ![q].got = {}]
  /\ HangUp({q})
  /\ UNCHANGED <<session, rows, executed, card>>

CutWithTheTab(q) ==
  /\ req[q].pc = "run" /\ \E t \in Tabs : cur[t] = q
  /\ req' = [req EXCEPT ![q].pc = "persist", ![q].queue = Rendered(q),
               ![q].todo = {}, ![q].out = {}, ![q].got = {},
               ![q].hit = @ \/ req[q].out # {}]
  /\ UNCHANGED <<session, rows, executed, card, cur>>

\* The idle guard fires or the client disconnects: on_cancel stores what the run
\* has got so far. A call still out loses its result.
Cut(q) ==
  /\ req[q].pc = "run"
  /\ req' = [req EXCEPT ![q].pc = "persist", ![q].queue = Rendered(q),
               ![q].todo = {}, ![q].out = {}, ![q].got = {},
               ![q].hit = @ \/ req[q].out # {}]
  /\ UNCHANGED <<session, rows, executed, card, cur>>

\* Bound: only so many requests are struck by a fault.
MayFail == Cardinality({q \in Reqs : req[q].hit}) < MaxHit

\* A tool or the model's provider raises: the stream ends with the error and
\* neither callback runs.
Fail(q) ==
  /\ req[q].pc = "run" /\ MayFail
  /\ req' = [req EXCEPT ![q].pc = "over", ![q].todo = {}, ![q].out = {},
               ![q].got = {}, ![q].hit = TRUE]
  /\ HangUp({q})
  /\ UNCHANGED <<session, rows, executed, card>>

\* The idle guard fires or the client disconnects while the rows are being
\* stored: the callback is cancelled and the rows to come are lost. A POST that
\* the scheduler is serving goes on.
CutSaving(q) ==
  /\ req[q].pc = "persist" /\ req[q].queue # <<>> /\ MayFail
  /\ req' = [req EXCEPT ![q].pc = "over", ![q].hit = TRUE,
               ![q].queue = IF req[q].post = "idle" THEN <<>> ELSE <<Head(@)>>]
  /\ HangUp({q})
  /\ UNCHANGED <<session, rows, executed, card>>

\* All rows are stored or given up: the stream ends.
Finish(q) ==
  /\ req[q].pc = "persist" /\ req[q].queue = <<>>
  /\ req' = [req EXCEPT ![q].pc = "over"]
  /\ HangUp({q})
  /\ UNCHANGED <<session, rows, executed, card>>

\* The Copilot service dies. A POST that the scheduler is serving goes on.
Crash ==
  LET Live == {q \in Reqs : req[q].pc \notin {"unused", "over"}} IN
  /\ Live # {} /\ MayFail
  /\ req' = [q \in Reqs |-> IF q \notin Live THEN req[q] ELSE
       [req[q] EXCEPT !.pc = "over", !.text = NoText, !.answers = None,
          !.todo = {}, !.out = {}, !.got = {}, !.hit = TRUE,
          !.queue = IF req[q].post = "idle" THEN <<>> ELSE <<Head(@)>>]]
  /\ HangUp(Live)
  /\ UNCHANGED <<session, rows, executed, card>>

-----------------------------------------------------------------------------
(* appendCopilotMessage, which a request calls for each row in turn: the    *)
(* session is read, then the row created. (The title it may give the        *)
(* session is left out.)                                                    *)

Posting(q, at) == req[q].queue # <<>> /\ req[q].post = at

\* A session in the trash is 404; the row is given up.
PostRead(q) ==
  /\ Posting(q, "idle")
  /\ \/ session = "active" /\ req' = [req EXCEPT ![q].post = "checked"]
     \/ session # "active" /\ req' = [req EXCEPT ![q].queue = Tail(@)]
  /\ UNCHANGED <<session, rows, executed, card, cur>>

PostCreate(q) ==
  /\ Posting(q, "checked")
  /\ rows' = Append(rows, Head(req[q].queue))
  /\ req' = [req EXCEPT ![q].post = "idle", ![q].queue = Tail(@)]
  /\ UNCHANGED <<session, executed, card, cur>>

\* The POST fails: _persist_rows logs it and goes on with the next row.
PostFail(q) ==
  /\ req[q].queue # <<>> /\ MayFail
  /\ req' = [req EXCEPT ![q].post = "idle", ![q].queue = Tail(@), ![q].hit = TRUE]
  /\ UNCHANGED <<session, rows, executed, card, cur>>

-----------------------------------------------------------------------------
(* The session's other handlers, and the daily clean-up of the trash.       *)

Delete ==
  /\ session = "active" /\ session' = "trashed"
  /\ UNCHANGED <<rows, executed, card, cur, req>>

\* Thirty days pass, and every request is over.
Expire ==
  /\ session = "trashed" /\ session' = "expired"
  /\ \A q \in Reqs : req[q].pc \in {"unused", "over"} /\ req[q].queue = <<>>
  /\ UNCHANGED <<rows, executed, card, cur, req>>

\* Nothing leaves the trash but by purging: the read before the transaction
\* that deletes the messages and the session cannot be outdated.
Purge ==
  /\ session \in {"trashed", "expired"}
  /\ session' = "gone" /\ rows' = <<>>
  /\ UNCHANGED <<executed, card, cur, req>>

Cleanup ==
  /\ session = "expired"
  /\ session' = "gone" /\ rows' = <<>>
  /\ UNCHANGED <<executed, card, cur, req>>

Browser ==
  \E t \in Tabs :
    \/ Open(t) \/ Stop(t)
    \/ \E c \in Calls, a \in {"yes", "no"} : Answer(t, c, a)
    \/ \E q \in Reqs, x \in Texts \cup {NoText} : Submit(t, q, x)

Chat(q) ==
  \/ History(q) \/ Dispatch(q) \/ Complete(q) \/ Cut(q) \/ CutSaving(q) \/ Fail(q)
  \/ Finish(q)
  \/ \E c \in Calls : Execute(q, c) \/ Return(q, c) \/ Propose(q, c)

Post(q) == PostRead(q) \/ PostCreate(q) \/ PostFail(q)

Next ==
  \/ Browser
  \/ \E q \in Reqs : Chat(q) \/ Post(q)
  \/ Crash
  \/ Delete \/ Expire \/ Purge \/ Cleanup

Spec == Init /\ [][Next]_vars

\* A request's handler keeps going by itself: REST calls time out, and the idle
\* guard cuts a silent stream. Neither model nor tools need conclude anything.
Serve(q) == History(q) \/ Dispatch(q) \/ Cut(q) \/ Finish(q) \/ Post(q)

FairSpec == Spec /\ \A q \in Reqs : WF_vars(Serve(q))

-----------------------------------------------------------------------------
(* What the conversation guarantees.                                        *)

\* An approval is spent: a call that a request executed is executed again only
\* by a request that overlapped it, or after a fault struck the one that did -
\* its result unsaved. Whatever tabs resend, a request that ran to its end and
\* stored its rows, or was cut between two calls, has left the result on record,
\* and _sanitize_client_messages turns the answer down.
ExecutedOnce ==
  \A p, q \in Reqs, c \in Calls :
    p \in req[q].before /\ c \in req[p].ran \cap req[q].ran => req[p].hit

\* Nothing is executed that the transcript does not show as proposed, whatever
\* rows get lost: a card whose call was not stored executes nothing, and a call
\* that was stored stays until its session is purged.
ExecutedIsOnRecord ==
  session # "gone" => \A c \in Calls : executed[c] > 0 => Stored("call", c)

\* A resend of a message that got no reply is not stored twice
\* (_persist_incoming_user), unless the two requests overlapped.
NoEcho ==
  \A i \in 1 .. Len(rows) - 1 :
    LET a == rows[i] b == rows[i + 1] IN
    a.kind = "user" /\ b.kind = "user" /\ a.of = b.of => a.by \notin req[b.by].before

\* A request that was accepted ends, however silent the model is and whatever
\* becomes of its session, if the idle timeout is configured to be above 0 (its
\* default; attach_idle_timeout_stream does nothing otherwise).
RequestsEnd == \A q \in Reqs : req[q].pc = "history" ~> Over(q)

-----------------------------------------------------------------------------
(* What comments of the code promise and the code does not keep.            *)

\* test_approval_anchoring.py: "an executed call is not executed a second time
\* by a resent approval (two tabs, or approved again after a reload)".
ExecutedOnceEver == \A c \in Calls : executed[c] <= 1

\* copilottrash.go, purgeCopilotTrash: the session is deleted "together with its
\* messages".
NoOrphans == session = "gone" => rows = <<>>
=============================================================================
