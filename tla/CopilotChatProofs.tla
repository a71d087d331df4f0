--------------------------- MODULE CopilotChatProofs ---------------------------
(***************************************************************************)
(* For any tabs, calls, texts and number of requests: an approval is spent  *)
(* once its call has been executed, nothing is executed that the transcript *)
(* does not have as proposed, and a resent text is not stored twice.        *)
(***************************************************************************)
EXTENDS CopilotChat, FiniteSetTheorems, SequenceTheorems, TLAPS

\* What a request holds at its stages.
Staged ==
  \A q \in Reqs :
    /\ req[q].pc \in {"unused", "history"} =>
         req[q].queue = <<>> /\ req[q].todo = {} /\ req[q].got = {} /\ req[q].ran = {}
    /\ req[q].pc \in {"persist", "over"} => req[q].todo = {} /\ req[q].got = {}
    /\ req[q].pc # "run" => req[q].out = {}
    /\ req[q].pc = "run" => req[q].queue = <<>>
    /\ req[q].post = "checked" => req[q].queue # <<>>

\* Rows are signed by the request that writes them, once it has read the
\* transcript.
Signed ==
  /\ \A q \in Reqs : \A i \in 1 .. Len(req[q].queue) : req[q].queue[i].by = q
  /\ \A i \in 1 .. Len(rows) : req[rows[i].by].pc \notin {"unused", "history"}

Queued(q, c) ==
  \E i \in 1 .. Len(req[q].queue) :
    req[q].queue[i].kind = "result" /\ req[q].queue[i].of = c

\* The result of an executed call is on its way to the transcript, or there.
ResultsKept ==
  \A p \in Reqs : \A c \in req[p].ran :
    ~req[p].hit /\ session = "active" =>
      c \in req[p].out \cup req[p].got \/ Queued(p, c) \/ Stored("result", c)

\* Who was over when a request fetched is over.
BeforeIsOver == \A q \in Reqs : \A p \in req[q].before : Over(p)

\* What a request executes was not executed by one that was over when it fetched,
\* unless a fault struck that one.
ApprovalsSpent ==
  \A q \in Reqs : \A p \in req[q].before :
    \A c \in (req[q].todo \cup req[q].ran) \cap req[p].ran : req[p].hit

\* What was or will be executed is on record.
OnRecord ==
  session # "gone" =>
    \A c \in Calls :
      executed[c] > 0 \/ (\E q \in Reqs : c \in req[q].todo) => Stored("call", c)

\* A text in a queue does not repeat the last row, if that row is older.
FreshTexts ==
  \A q \in Reqs : \A i \in 1 .. Len(req[q].queue) :
    LET a == rows[Len(rows)] b == req[q].queue[i] IN
    rows # <<>> /\ a.kind = "user" /\ b.kind = "user" /\ a.of = b.of =>
      a.by \notin req[q].before

Transcript ==
  /\ TypeOK /\ Staged /\ Signed /\ ResultsKept /\ BeforeIsOver /\ ApprovalsSpent
  /\ OnRecord /\ FreshTexts /\ NoEcho
-----------------------------------------------------------------------------
(* Types.                                                                   *)

(* Rows to be posted, in an order that is left open.                        *)
LEMMA SetToSeqIs ==
  ASSUME NEW S, IsFiniteSet(S)
  PROVE  /\ SetToSeq(S) \in Seq(S)
         /\ \A x \in S : \E i \in 1 .. Len(SetToSeq(S)) : SetToSeq(S)[i] = x
<1> DEFINE n == Cardinality(S)
           IsList(f) == f \in [1 .. n -> S] /\ IsInjective(f)
<1>1. n \in Nat BY FS_CardinalityType
<1>2. \E f : IsList(f)
  <2>1. ExistsBijection(1 .. n, S) BY FS_CardinalityType
  <2> QED BY <2>1 DEF ExistsBijection, Bijection, Injection, IsInjective
<1>3. IsList(SetToSeq(S)) BY <1>2, Zenon DEF SetToSeq
<1> DEFINE f == SetToSeq(S)
<1>4. f \in Injection(1 .. n, S) BY <1>3 DEF Injection
<1>5. Cardinality(1 .. n) = n /\ IsFiniteSet(1 .. n) BY <1>1, FS_Interval
<1>6. f \in Surjection(1 .. n, S)
  <2> HIDE DEF f
  <2> QED BY <1>4, <1>5, FS_Injection
<1>7. f \in Seq(S) /\ Len(f) = n BY <1>1, <1>3
<1> HIDE DEF f
<1> QED BY <1>6, <1>7 DEF Surjection, f

(* The rows a run leaves.                                                   *)
LEMMA RenderedIs ==
  ASSUME TypeOK, NEW q \in Reqs
  PROVE  /\ Rendered(q) \in Seq(Row)
         /\ \A i \in 1 .. Len(Rendered(q)) : Rendered(q)[i].by = q /\ Rendered(q)[i].kind # "user"
         /\ \A c \in req[q].got : \E i \in 1 .. Len(Rendered(q)) :
              Rendered(q)[i].kind = "result" /\ Rendered(q)[i].of = c
<1> DEFINE Results == {[kind |-> "result", of |-> c, by |-> q] : c \in req[q].got}
           results == SetToSeq(Results)
           call == IF req[q].asks = NoCall THEN <<>>
                   ELSE <<[kind |-> "call", of |-> req[q].asks, by |-> q]>>
<1>1. req[q].got \in SUBSET Calls /\ req[q].asks \in Calls \cup {NoCall} BY DEF TypeOK, Req
<1>2. IsFiniteSet(Results)
  <2>1. IsFiniteSet(req[q].got) BY <1>1, FS_Subset, CopilotChatAssumption
  <2> DEFINE of == [x \in Results |-> x.of]
  <2>2. of \in Injection(Results, req[q].got)
    <3>1. of \in [Results -> req[q].got] OBVIOUS
    <3>2. \A x, y \in Results : of[x] = of[y] => x = y OBVIOUS
    <3> QED BY <3>1, <3>2, Zenon DEF Injection, IsInjective
  <2> HIDE DEF Results, of
  <2> QED BY <2>1, <2>2, FS_Injection
<1>3. Results \subseteq Row /\ \A x \in Results : x.by = q /\ x.kind # "user"
  BY <1>1 DEF Row
<1>4. results \in Seq(Results) /\ \A x \in Results : \E i \in 1 .. Len(results) : results[i] = x
  BY <1>2, SetToSeqIs
<1>5. call \in Seq(Row) /\ \A i \in 1 .. Len(call) : call[i].by = q /\ call[i].kind # "user"
  <2> DEFINE asked == [kind |-> "call", of |-> req[q].asks, by |-> q]
  <2>1. CASE req[q].asks = NoCall BY <2>1
  <2>2. CASE req[q].asks # NoCall
    <3>1. asked \in Row /\ asked.by = q /\ asked.kind # "user" BY <1>1, <2>2 DEF Row
    <3>2. call = <<asked>> BY <2>2
    <3> HIDE DEF asked, call
    <3>3. <<asked>> \in Seq(Row) /\ Len(<<asked>>) = 1 /\ <<asked>>[1] = asked BY <3>1
    <3> QED BY <3>1, <3>2, <3>3
  <2> QED BY <2>1, <2>2
<1>6. Rendered(q) = results \o call BY DEF Rendered
<1>7. ASSUME NEW c \in req[q].got PROVE \E x \in Results : x.kind = "result" /\ x.of = c
  <2> DEFINE x == [kind |-> "result", of |-> c, by |-> q]
  <2>1. x \in Results /\ x.kind = "result" /\ x.of = c OBVIOUS
  <2> HIDE DEF x
  <2> QED BY <2>1
<1> HIDE DEF Results, results, call
<1>8. results \in Seq(Row) /\ \A i \in 1 .. Len(results) : results[i] \in Results
  BY <1>3, <1>4
<1>9. /\ results \o call \in Seq(Row) /\ Len(results \o call) = Len(results) + Len(call)
      /\ Len(results) \in Nat /\ Len(call) \in Nat
      /\ \A i \in 1 .. Len(results) + Len(call) :
           (results \o call)[i] = IF i <= Len(results) THEN results[i] ELSE call[i - Len(results)]
  BY <1>5, <1>8, ConcatProperties, LenProperties
<1>10. \A i \in 1 .. Len(results \o call) :
         (results \o call)[i].by = q /\ (results \o call)[i].kind # "user"
  <2> SUFFICES ASSUME NEW i \in 1 .. Len(results) + Len(call)
               PROVE (results \o call)[i].by = q /\ (results \o call)[i].kind # "user"
    BY <1>9
  <2>1. CASE i <= Len(results)
    <3>1. i \in 1 .. Len(results) BY <1>9, <2>1
    <3> QED BY <1>3, <1>8, <1>9, <2>1, <3>1
  <2>2. CASE ~(i <= Len(results))
    <3>1. i - Len(results) \in 1 .. Len(call) BY <1>9, <2>2
    <3> QED BY <1>5, <1>9, <2>2, <3>1
  <2> QED BY <2>1, <2>2
<1>11. ASSUME NEW c \in req[q].got
       PROVE  \E i \in 1 .. Len(results \o call) :
                (results \o call)[i].kind = "result" /\ (results \o call)[i].of = c
  <2>1. PICK x \in Results : x.kind = "result" /\ x.of = c BY <1>7
  <2>2. PICK i \in 1 .. Len(results) : results[i] = x BY <1>4
  <2>3. i \in 1 .. Len(results \o call) /\ (results \o call)[i] = x BY <1>9, <2>2
  <2> QED BY <2>1, <2>3
<1> QED BY <1>6, <1>9, <1>10, <1>11

-----------------------------------------------------------------------------
(* What the steps do to a request, text, answers and proposals aside.       *)

Others(q)     == \A p \in Reqs \ {q} : req'[p] = req[p]
KeepsQueue(q) == req'[q].queue = req[q].queue /\ req'[q].post = req[q].post
KeepsCalls(q) == req'[q].todo = req[q].todo /\ req'[q].out = req[q].out /\ req'[q].got = req[q].got
KeepsPast(q)  == req'[q].ran = req[q].ran /\ req'[q].before = req[q].before
KeepsHit(q)   == req'[q].hit = req[q].hit
GoesTo(q, from, to) == Others(q) /\ req[q].pc = from /\ req'[q].pc = to
Drops(q) == req'[q].todo = {} /\ req'[q].out = {} /\ req'[q].got = {}

\* Submit; Dispatch; Propose; Finish.
Moves(q) ==
  /\ \/ GoesTo(q, "unused", "history")
     \/ GoesTo(q, "user", "run") /\ req[q].queue = <<>>
     \/ GoesTo(q, "run", "run")
     \/ GoesTo(q, "persist", "over")
  /\ KeepsQueue(q) /\ KeepsCalls(q) /\ KeepsPast(q) /\ KeepsHit(q)
  /\ UNCHANGED <<session, rows, executed>>

TurnedAway(q) ==
  /\ GoesTo(q, "history", "over") /\ session # "active"
  /\ KeepsQueue(q) /\ KeepsCalls(q) /\ KeepsPast(q) /\ KeepsHit(q)
  /\ UNCHANGED <<session, rows, executed>>

Fetches(q) ==
  /\ GoesTo(q, "history", "user") /\ session = "active"
  /\ req'[q].before = {p \in Reqs : Over(p)}
  /\ \A c \in req'[q].todo : Stored("call", c) /\ ~Stored("result", c)
  /\ req'[q].out = req[q].out /\ req'[q].ran = req[q].ran /\ req'[q].post = req[q].post
  /\ \/ req'[q].queue = <<>>
     \/ \E x \in Texts : ~Resent(x) /\ req'[q].queue = <<[kind |-> "user", of |-> x, by |-> q]>>
  /\ KeepsHit(q) /\ UNCHANGED <<session, rows, executed>>

Executes(q, c) ==
  /\ GoesTo(q, "run", "run") /\ c \in req[q].todo
  /\ executed' = [executed EXCEPT ![c] = @ + 1]
  /\ req'[q].todo = req[q].todo \ {c} /\ req'[q].out = req[q].out \cup {c}
  /\ req'[q].got = req[q].got /\ req'[q].ran = req[q].ran \cup {c}
  /\ req'[q].before = req[q].before
  /\ KeepsQueue(q) /\ KeepsHit(q) /\ UNCHANGED <<session, rows>>

Returns(q, c) ==
  /\ GoesTo(q, "run", "run") /\ c \in req[q].out
  /\ req'[q].out = req[q].out \ {c} /\ req'[q].got = req[q].got \cup {c}
  /\ req'[q].todo = req[q].todo
  /\ KeepsQueue(q) /\ KeepsPast(q) /\ KeepsHit(q) /\ UNCHANGED <<session, rows, executed>>

\* Complete; Cut; Fail.
Ends(q) ==
  /\ \/ GoesTo(q, "run", "persist") /\ req'[q].queue = Rendered(q)
        /\ (req[q].out = {} \/ req'[q].hit)
     \/ GoesTo(q, "run", "over") /\ req'[q].queue = req[q].queue /\ req'[q].hit
  /\ req[q].hit => req'[q].hit
  /\ Drops(q) /\ req'[q].post = req[q].post /\ KeepsPast(q)
  /\ UNCHANGED <<session, rows, executed>>

Crashes ==
  /\ \A q \in Reqs :
       \/ req'[q] = req[q]
       \/ /\ req[q].pc \notin {"unused", "over"} /\ req'[q].pc = "over"
          /\ req'[q].hit /\ Drops(q) /\ KeepsPast(q) /\ req'[q].post = req[q].post
          /\ \/ req[q].post = "idle" /\ req'[q].queue = <<>>
             \/ req[q].queue # <<>> /\ req'[q].queue = <<Head(req[q].queue)>>
  /\ UNCHANGED <<session, rows, executed>>

Checks(q) ==
  /\ Others(q) /\ req'[q].pc = req[q].pc /\ req[q].queue # <<>>
  /\ req'[q].queue = req[q].queue /\ req'[q].post = "checked"
  /\ KeepsCalls(q) /\ KeepsPast(q) /\ KeepsHit(q) /\ UNCHANGED <<session, rows, executed>>

\* The first row of a queue is given up.
GivesUp(q) ==
  /\ Others(q) /\ req'[q].pc = req[q].pc /\ req[q].queue # <<>>
  /\ req'[q].queue = Tail(req[q].queue) /\ req'[q].post = "idle"
  /\ session # "active" \/ req'[q].hit
  /\ req[q].hit => req'[q].hit
  /\ KeepsCalls(q) /\ KeepsPast(q) /\ UNCHANGED <<session, rows, executed>>

Stores(q) ==
  /\ Others(q) /\ req'[q].pc = req[q].pc /\ req[q].queue # <<>>
  /\ rows' = Append(rows, Head(req[q].queue))
  /\ req'[q].queue = Tail(req[q].queue) /\ req'[q].post = "idle"
  /\ KeepsCalls(q) /\ KeepsPast(q) /\ KeepsHit(q) /\ UNCHANGED <<session, executed>>

\* The session's handlers; the tabs.
Elsewhere ==
  /\ UNCHANGED <<req, executed>>
  /\ \/ UNCHANGED rows
        /\ \/ session' = session
           \/ session # "gone" /\ session' \in {"trashed", "expired"}
     \/ rows' = <<>> /\ session' = "gone"


(* A tab sends a request.                                                  *)
LEMMA SubmitMoves ==
  ASSUME TypeOK, Staged, NEW q \in Reqs, NEW t \in Tabs, NEW x \in Texts \cup {NoText}, Submit(t, q, x)
  PROVE  req' \in [Reqs -> Req] /\ Moves(q)
<1> DEFINE g == [req[q] EXCEPT !.pc = "history", !.text = x, !.answers = [c \in Calls |-> IF card[t][c] \in {"yes", "no"} THEN card[t][c] ELSE "none"]]
<1>1. req \in [Reqs -> Req] /\ req[q] \in Req BY DEF TypeOK
<1>2. g \in Req BY <1>1 DEF Req
<1>3. req' = [req EXCEPT ![q] = g] BY DEF Submit
<1>4. /\ g.pc = "history" /\ g.todo = req[q].todo /\ g.out = req[q].out
      /\ g.got = req[q].got /\ g.queue = req[q].queue /\ g.post = req[q].post
      /\ g.ran = req[q].ran /\ g.before = req[q].before /\ g.hit = req[q].hit
  BY <1>1 DEF Req
<1>5. req[q].pc = "unused" /\ UNCHANGED <<session, rows, executed>>
  BY CopilotChatAssumption DEF Submit, Reqs
<1> HIDE DEF g
<1>6. req' \in [Reqs -> Req] /\ req'[q] = g /\ Others(q) BY <1>1, <1>2, <1>3 DEF Others
<1> QED BY <1>4, <1>5, <1>6 DEF Moves, GoesTo, KeepsQueue, KeepsCalls, KeepsPast, KeepsHit

(* The run begins.                                                         *)
LEMMA DispatchMoves ==
  ASSUME TypeOK, Staged, NEW q \in Reqs, Dispatch(q)
  PROVE  req' \in [Reqs -> Req] /\ Moves(q)
<1> DEFINE g == [req[q] EXCEPT !.pc = "run"]
<1>1. req \in [Reqs -> Req] /\ req[q] \in Req BY DEF TypeOK
<1>2. g \in Req BY <1>1 DEF Req
<1>3. req' = [req EXCEPT ![q] = g] BY DEF Dispatch
<1>4. /\ g.pc = "run" /\ g.todo = req[q].todo /\ g.out = req[q].out
      /\ g.got = req[q].got /\ g.queue = req[q].queue /\ g.post = req[q].post
      /\ g.ran = req[q].ran /\ g.before = req[q].before /\ g.hit = req[q].hit
  BY <1>1 DEF Req
<1>5. req[q].pc = "user" /\ req[q].queue = <<>> /\ UNCHANGED <<session, rows, executed>>
  BY DEF Dispatch
<1> HIDE DEF g
<1>6. req' \in [Reqs -> Req] /\ req'[q] = g /\ Others(q) BY <1>1, <1>2, <1>3 DEF Others
<1> QED BY <1>4, <1>5, <1>6 DEF Moves, GoesTo, KeepsQueue, KeepsCalls, KeepsPast, KeepsHit

(* The model proposes a call.                                              *)
LEMMA ProposeMoves ==
  ASSUME TypeOK, Staged, NEW q \in Reqs, NEW c \in Calls, Propose(q, c)
  PROVE  req' \in [Reqs -> Req] /\ Moves(q)
<1> DEFINE g == [req[q] EXCEPT !.asks = c]
<1>1. req \in [Reqs -> Req] /\ req[q] \in Req BY DEF TypeOK
<1>2. g \in Req BY <1>1 DEF Req
<1>3. req' = [req EXCEPT ![q] = g] BY DEF Propose
<1>4. /\ g.pc = req[q].pc /\ g.todo = req[q].todo /\ g.out = req[q].out
      /\ g.got = req[q].got /\ g.queue = req[q].queue /\ g.post = req[q].post
      /\ g.ran = req[q].ran /\ g.before = req[q].before /\ g.hit = req[q].hit
  BY <1>1 DEF Req
<1>5. req[q].pc = "run" /\ UNCHANGED <<session, rows, executed>>
  BY DEF Propose
<1> HIDE DEF g
<1>6. req' \in [Reqs -> Req] /\ req'[q] = g /\ Others(q) BY <1>1, <1>2, <1>3 DEF Others
<1> QED BY <1>4, <1>5, <1>6 DEF Moves, GoesTo, KeepsQueue, KeepsCalls, KeepsPast, KeepsHit

(* The stream ends.                                                        *)
LEMMA FinishMoves ==
  ASSUME TypeOK, Staged, NEW q \in Reqs, Finish(q)
  PROVE  req' \in [Reqs -> Req] /\ Moves(q)
<1> DEFINE g == [req[q] EXCEPT !.pc = "over"]
<1>1. req \in [Reqs -> Req] /\ req[q] \in Req BY DEF TypeOK
<1>2. g \in Req BY <1>1 DEF Req
<1>3. req' = [req EXCEPT ![q] = g] BY DEF Finish
<1>4. /\ g.pc = "over" /\ g.todo = req[q].todo /\ g.out = req[q].out
      /\ g.got = req[q].got /\ g.queue = req[q].queue /\ g.post = req[q].post
      /\ g.ran = req[q].ran /\ g.before = req[q].before /\ g.hit = req[q].hit
  BY <1>1 DEF Req
<1>5. req[q].pc = "persist" /\ UNCHANGED <<session, rows, executed>>
  BY DEF Finish
<1> HIDE DEF g
<1>6. req' \in [Reqs -> Req] /\ req'[q] = g /\ Others(q) BY <1>1, <1>2, <1>3 DEF Others
<1> QED BY <1>4, <1>5, <1>6 DEF Moves, GoesTo, KeepsQueue, KeepsCalls, KeepsPast, KeepsHit

(* A call reaches the scheduler.                                           *)
LEMMA ExecuteExecutes ==
  ASSUME TypeOK, Staged, NEW q \in Reqs, NEW c \in Calls, Execute(q, c)
  PROVE  req' \in [Reqs -> Req] /\ Executes(q, c)
<1> DEFINE g == [req[q] EXCEPT !.todo = @ \ {c}, !.out = @ \cup {c}, !.ran = @ \cup {c}]
<1>1. req \in [Reqs -> Req] /\ req[q] \in Req BY DEF TypeOK
<1>2. g \in Req BY <1>1 DEF Req
<1>3. req' = [req EXCEPT ![q] = g] BY DEF Execute
<1>4. /\ g.pc = req[q].pc /\ g.todo = req[q].todo \ {c} /\ g.out = req[q].out \cup {c}
      /\ g.got = req[q].got /\ g.queue = req[q].queue /\ g.post = req[q].post
      /\ g.ran = req[q].ran \cup {c} /\ g.before = req[q].before /\ g.hit = req[q].hit
  BY <1>1 DEF Req
<1>5. /\ req[q].pc = "run" /\ c \in req[q].todo /\ UNCHANGED <<session, rows>>
      /\ executed' = [executed EXCEPT ![c] = @ + 1]
  BY DEF Execute
<1> HIDE DEF g
<1>6. req' \in [Reqs -> Req] /\ req'[q] = g /\ Others(q) BY <1>1, <1>2, <1>3 DEF Others
<1> QED BY <1>4, <1>5, <1>6 DEF Executes, GoesTo, KeepsQueue, KeepsCalls, KeepsPast, KeepsHit

(* A result reaches the run.                                               *)
LEMMA ReturnReturns ==
  ASSUME TypeOK, Staged, NEW q \in Reqs, NEW c \in Calls, Return(q, c)
  PROVE  req' \in [Reqs -> Req] /\ Returns(q, c)
<1> DEFINE g == [req[q] EXCEPT !.out = @ \ {c}, !.got = @ \cup {c}]
<1>1. req \in [Reqs -> Req] /\ req[q] \in Req BY DEF TypeOK
<1>2. g \in Req BY <1>1 DEF Req
<1>3. req' = [req EXCEPT ![q] = g] BY DEF Return
<1>4. /\ g.pc = req[q].pc /\ g.todo = req[q].todo /\ g.out = req[q].out \ {c}
      /\ g.got = req[q].got \cup {c} /\ g.queue = req[q].queue /\ g.post = req[q].post
      /\ g.ran = req[q].ran /\ g.before = req[q].before /\ g.hit = req[q].hit
  BY <1>1 DEF Req
<1>5. req[q].pc = "run" /\ c \in req[q].out /\ UNCHANGED <<session, rows, executed>>
  BY DEF Return
<1> HIDE DEF g
<1>6. req' \in [Reqs -> Req] /\ req'[q] = g /\ Others(q) BY <1>1, <1>2, <1>3 DEF Others
<1> QED BY <1>4, <1>5, <1>6 DEF Returns, GoesTo, KeepsQueue, KeepsCalls, KeepsPast, KeepsHit

(* The run ends.                                                           *)
LEMMA CompleteEnds ==
  ASSUME TypeOK, Staged, NEW q \in Reqs, Complete(q)
  PROVE  req' \in [Reqs -> Req] /\ Ends(q)
<1> DEFINE g == [req[q] EXCEPT !.pc = "persist", !.got = {}, !.queue = Rendered(q)]
<1>1. req \in [Reqs -> Req] /\ req[q] \in Req BY DEF TypeOK
<1>2. g \in Req BY <1>1, RenderedIs DEF Req
<1>3. req' = [req EXCEPT ![q] = g] BY DEF Complete
<1>4. /\ g.pc = "persist" /\ g.todo = req[q].todo /\ g.out = req[q].out
      /\ g.got = {} /\ g.queue = Rendered(q) /\ g.post = req[q].post
      /\ g.ran = req[q].ran /\ g.before = req[q].before /\ g.hit = req[q].hit
  BY <1>1 DEF Req
<1>5. req[q].pc = "run" /\ req[q].todo = {} /\ req[q].out = {} /\ UNCHANGED <<session, rows, executed>>
  BY DEF Complete, AtRest
<1> HIDE DEF g
<1>6. req' \in [Reqs -> Req] /\ req'[q] = g /\ Others(q) BY <1>1, <1>2, <1>3 DEF Others
<1> QED BY <1>4, <1>5, <1>6 DEF Ends, Drops, GoesTo, KeepsQueue, KeepsCalls, KeepsPast, KeepsHit

(* The run is cut.                                                         *)
LEMMA CutEnds ==
  ASSUME TypeOK, Staged, NEW q \in Reqs, Cut(q)
  PROVE  req' \in [Reqs -> Req] /\ Ends(q)
<1> DEFINE g == [req[q] EXCEPT !.pc = "persist", !.queue = Rendered(q), !.todo = {}, !.out = {}, !.got = {}, !.hit = @ \/ req[q].out # {}]
<1>1. req \in [Reqs -> Req] /\ req[q] \in Req BY DEF TypeOK
<1>2. g \in Req BY <1>1, RenderedIs DEF Req
<1>3. req' = [req EXCEPT ![q] = g] BY DEF Cut
<1>4. /\ g.pc = "persist" /\ g.todo = {} /\ g.out = {}
      /\ g.got = {} /\ g.queue = Rendered(q) /\ g.post = req[q].post
      /\ g.ran = req[q].ran /\ g.before = req[q].before /\ g.hit = (req[q].hit \/ req[q].out # {})
  BY <1>1 DEF Req
<1>5. req[q].pc = "run" /\ UNCHANGED <<session, rows, executed>>
  BY DEF Cut
<1> HIDE DEF g
<1>6. req' \in [Reqs -> Req] /\ req'[q] = g /\ Others(q) BY <1>1, <1>2, <1>3 DEF Others
<1> QED BY <1>4, <1>5, <1>6 DEF Ends, Drops, GoesTo, KeepsQueue, KeepsCalls, KeepsPast, KeepsHit

(* The run raises.                                                         *)
LEMMA FailEnds ==
  ASSUME TypeOK, Staged, NEW q \in Reqs, Fail(q)
  PROVE  req' \in [Reqs -> Req] /\ Ends(q)
<1> DEFINE g == [req[q] EXCEPT !.pc = "over", !.todo = {}, !.out = {}, !.got = {}, !.hit = TRUE]
<1>1. req \in [Reqs -> Req] /\ req[q] \in Req BY DEF TypeOK
<1>2. g \in Req BY <1>1 DEF Req
<1>3. req' = [req EXCEPT ![q] = g] BY DEF Fail
<1>4. /\ g.pc = "over" /\ g.todo = {} /\ g.out = {}
      /\ g.got = {} /\ g.queue = req[q].queue /\ g.post = req[q].post
      /\ g.ran = req[q].ran /\ g.before = req[q].before /\ g.hit = TRUE
  BY <1>1 DEF Req
<1>5. req[q].pc = "run" /\ UNCHANGED <<session, rows, executed>>
  BY DEF Fail
<1> HIDE DEF g
<1>6. req' \in [Reqs -> Req] /\ req'[q] = g /\ Others(q) BY <1>1, <1>2, <1>3 DEF Others
<1> QED BY <1>4, <1>5, <1>6 DEF Ends, Drops, GoesTo, KeepsQueue, KeepsCalls, KeepsPast, KeepsHit

(* A POST fails.                                                           *)
LEMMA PostFailGivesUp ==
  ASSUME TypeOK, Staged, NEW q \in Reqs, PostFail(q)
  PROVE  req' \in [Reqs -> Req] /\ GivesUp(q)
<1> DEFINE g == [req[q] EXCEPT !.post = "idle", !.queue = Tail(@), !.hit = TRUE]
<1>1. req \in [Reqs -> Req] /\ req[q] \in Req BY DEF TypeOK
<1>q. req[q].queue \in Seq(Row) /\ req[q].queue # <<>>
  BY <1>1 DEF Req, PostFail
<1>t. Tail(req[q].queue) \in Seq(Row) BY <1>q, HeadTailProperties
<1>2. g \in Req BY <1>1, <1>t DEF Req
<1>3. req' = [req EXCEPT ![q] = g] BY DEF PostFail
<1>4. /\ g.pc = req[q].pc /\ g.todo = req[q].todo /\ g.out = req[q].out
      /\ g.got = req[q].got /\ g.queue = Tail(req[q].queue) /\ g.post = "idle"
      /\ g.ran = req[q].ran /\ g.before = req[q].before /\ g.hit = TRUE
  BY <1>1 DEF Req
<1>5. req[q].queue # <<>> /\ UNCHANGED <<session, rows, executed>>
  BY DEF PostFail
<1> HIDE DEF g
<1>6. req' \in [Reqs -> Req] /\ req'[q] = g /\ Others(q) BY <1>1, <1>2, <1>3 DEF Others
<1> QED BY <1>4, <1>5, <1>6 DEF GivesUp, GoesTo, KeepsQueue, KeepsCalls, KeepsPast, KeepsHit

(* A row is stored.                                                        *)
LEMMA PostCreateStores ==
  ASSUME TypeOK, Staged, NEW q \in Reqs, PostCreate(q)
  PROVE  req' \in [Reqs -> Req] /\ Stores(q)
<1> DEFINE g == [req[q] EXCEPT !.post = "idle", !.queue = Tail(@)]
<1>1. req \in [Reqs -> Req] /\ req[q] \in Req BY DEF TypeOK
<1>q. req[q].queue \in Seq(Row) /\ req[q].queue # <<>>
  BY <1>1 DEF Req, PostCreate, Posting
<1>t. Tail(req[q].queue) \in Seq(Row) BY <1>q, HeadTailProperties
<1>2. g \in Req BY <1>1, <1>t DEF Req
<1>3. req' = [req EXCEPT ![q] = g] BY DEF PostCreate
<1>4. /\ g.pc = req[q].pc /\ g.todo = req[q].todo /\ g.out = req[q].out
      /\ g.got = req[q].got /\ g.queue = Tail(req[q].queue) /\ g.post = "idle"
      /\ g.ran = req[q].ran /\ g.before = req[q].before /\ g.hit = req[q].hit
  BY <1>1 DEF Req
<1>5. /\ req[q].queue # <<>> /\ UNCHANGED <<session, executed>>
      /\ rows' = Append(rows, Head(req[q].queue))
  BY DEF PostCreate, Posting
<1> HIDE DEF g
<1>6. req' \in [Reqs -> Req] /\ req'[q] = g /\ Others(q) BY <1>1, <1>2, <1>3 DEF Others
<1> QED BY <1>4, <1>5, <1>6 DEF Stores, GoesTo, KeepsQueue, KeepsCalls, KeepsPast, KeepsHit

(* The transcript is read, or the session is in the trash.                  *)
LEMMA HistoryFetches ==
  ASSUME TypeOK, Staged, NEW q \in Reqs, History(q)
  PROVE  req' \in [Reqs -> Req] /\ (Fetches(q) \/ TurnedAway(q))
<1> DEFINE Answered(a) == {c \in Calls : req[q].answers[c] = a /\ Answerable(c)}
           x == req[q].text
           row == [kind |-> "user", of |-> x, by |-> q]
           queue == IF x = NoText \/ Resent(x) THEN <<>> ELSE <<row>>
           g == [req[q] EXCEPT !.pc = "user", !.text = NoText, !.answers = None,
                   !.before = {p \in Reqs : Over(p)}, !.todo = Answered("yes"),
                   !.got = Answered("no"), !.queue = queue]
           h == [req[q] EXCEPT !.pc = "over", !.text = NoText, !.answers = None]
<1>1. req \in [Reqs -> Req] /\ req[q] \in Req BY DEF TypeOK
<1>2. x \in Texts \cup {NoText} BY <1>1 DEF Req
<1>3. queue \in Seq(Row)
      /\ (queue = <<>> \/ \E z \in Texts : ~Resent(z) /\ queue = <<[kind |-> "user", of |-> z, by |-> q]>>)
  <2>1. CASE x = NoText \/ Resent(x) BY <2>1
  <2>2. CASE ~(x = NoText \/ Resent(x))
    <3>1. x \in Texts /\ row \in Row BY <1>2, <2>2 DEF Row
    <3>2. queue = <<row>> BY <2>2
    <3> HIDE DEF x, queue
    <3> QED BY <2>2, <3>1, <3>2
  <2> QED BY <2>1, <2>2
<1>4. req[q].pc = "history" /\ UNCHANGED <<session, rows, executed>> BY DEF History
<1>5. \/ session = "active" /\ req' = [req EXCEPT ![q] = g]
      \/ session # "active" /\ req' = [req EXCEPT ![q] = h]
  BY DEF History
<1>6. CASE session = "active" /\ req' = [req EXCEPT ![q] = g]
  <2> HIDE DEF queue, x
  <2>1. g \in Req BY <1>1, <1>3 DEF Req, None
  <2>2. /\ g.pc = "user" /\ g.todo = Answered("yes") /\ g.out = req[q].out
        /\ g.queue = queue /\ g.post = req[q].post /\ g.ran = req[q].ran
        /\ g.before = {p \in Reqs : Over(p)} /\ g.hit = req[q].hit
    BY <1>1 DEF Req
  <2>3. \A c \in Answered("yes") : Stored("call", c) /\ ~Stored("result", c)
    BY DEF Answerable
  <2> HIDE DEF g, Answered
  <2>4. req' \in [Reqs -> Req] /\ req'[q] = g /\ Others(q)
    BY <1>1, <1>6, <2>1 DEF Others
  <2>5. Fetches(q)
    BY <1>3, <1>4, <1>6, <2>2, <2>3, <2>4 DEF Fetches, GoesTo, KeepsHit
  <2> QED BY <2>4, <2>5
<1>7. CASE session # "active" /\ req' = [req EXCEPT ![q] = h]
  <2>1. h \in Req BY <1>1 DEF Req, None
  <2>2. /\ h.pc = "over" /\ h.todo = req[q].todo /\ h.out = req[q].out /\ h.got = req[q].got
        /\ h.queue = req[q].queue /\ h.post = req[q].post /\ h.ran = req[q].ran
        /\ h.before = req[q].before /\ h.hit = req[q].hit
    BY <1>1 DEF Req
  <2> HIDE DEF h
  <2>3. req' \in [Reqs -> Req] /\ req'[q] = h /\ Others(q)
    BY <1>1, <1>7, <2>1 DEF Others
  <2>4. TurnedAway(q)
    BY <1>4, <1>7, <2>2, <2>3
    DEF TurnedAway, GoesTo, KeepsQueue, KeepsCalls, KeepsPast, KeepsHit
  <2> QED BY <2>3, <2>4
<1> QED BY <1>5, <1>6, <1>7

(* The session is found, or the row is given up.                            *)
LEMMA PostReadChecks ==
  ASSUME TypeOK, Staged, NEW q \in Reqs, PostRead(q)
  PROVE  req' \in [Reqs -> Req] /\ (Checks(q) \/ GivesUp(q))
<1> DEFINE g == [req[q] EXCEPT !.post = "checked"]
           h == [req[q] EXCEPT !.queue = Tail(@)]
<1>1. req \in [Reqs -> Req] /\ req[q] \in Req BY DEF TypeOK
<1>2. req[q].queue \in Seq(Row) /\ req[q].queue # <<>> /\ req[q].post = "idle"
  BY <1>1 DEF Req, PostRead, Posting
<1>3. Tail(req[q].queue) \in Seq(Row) BY <1>2, HeadTailProperties
<1>4. UNCHANGED <<session, rows, executed>> BY DEF PostRead
<1>5. \/ session = "active" /\ req' = [req EXCEPT ![q] = g]
      \/ session # "active" /\ req' = [req EXCEPT ![q] = h]
  BY DEF PostRead
<1>6. CASE session = "active" /\ req' = [req EXCEPT ![q] = g]
  <2>1. g \in Req BY <1>1 DEF Req
  <2>2. /\ g.pc = req[q].pc /\ g.todo = req[q].todo /\ g.out = req[q].out /\ g.got = req[q].got
        /\ g.queue = req[q].queue /\ g.post = "checked" /\ g.ran = req[q].ran
        /\ g.before = req[q].before /\ g.hit = req[q].hit
    BY <1>1 DEF Req
  <2> HIDE DEF g
  <2>3. req' \in [Reqs -> Req] /\ req'[q] = g /\ Others(q)
    BY <1>1, <1>6, <2>1 DEF Others
  <2>4. Checks(q)
    BY <1>2, <1>4, <2>2, <2>3 DEF Checks, KeepsCalls, KeepsPast, KeepsHit
  <2> QED BY <2>3, <2>4
<1>7. CASE session # "active" /\ req' = [req EXCEPT ![q] = h]
  <2>1. h \in Req BY <1>1, <1>3 DEF Req
  <2>2. /\ h.pc = req[q].pc /\ h.todo = req[q].todo /\ h.out = req[q].out /\ h.got = req[q].got
        /\ h.queue = Tail(req[q].queue) /\ h.post = req[q].post /\ h.ran = req[q].ran
        /\ h.before = req[q].before /\ h.hit = req[q].hit
    BY <1>1 DEF Req
  <2> HIDE DEF h
  <2>3. req' \in [Reqs -> Req] /\ req'[q] = h /\ Others(q)
    BY <1>1, <1>7, <2>1 DEF Others
  <2>4. GivesUp(q)
    BY <1>2, <1>4, <1>7, <2>2, <2>3 DEF GivesUp, KeepsCalls, KeepsPast
  <2> QED BY <2>3, <2>4
<1> QED BY <1>5, <1>6, <1>7

(* The Copilot service dies.                                                *)
LEMMA CrashCrashes ==
  ASSUME TypeOK, Staged, Crash PROVE req' \in [Reqs -> Req] /\ Crashes
<1> DEFINE Live == {q \in Reqs : req[q].pc \notin {"unused", "over"}}
           rest(q) == IF req[q].post = "idle" THEN <<>> ELSE <<Head(req[q].queue)>>
           g(q) == [req[q] EXCEPT !.pc = "over", !.text = NoText, !.answers = None, !.todo = {},
                      !.out = {}, !.got = {}, !.hit = TRUE, !.queue = rest(q)]
<1>1. req' = [q \in Reqs |-> IF q \notin Live THEN req[q] ELSE g(q)] BY DEF Crash
<1>2. UNCHANGED <<session, rows, executed>> BY DEF Crash
<1>3. ASSUME NEW q \in Reqs
      PROVE  /\ g(q) \in Req /\ g(q).pc = "over" /\ g(q).hit /\ g(q).todo = {} /\ g(q).out = {}
             /\ g(q).got = {} /\ g(q).ran = req[q].ran /\ g(q).before = req[q].before
             /\ g(q).post = req[q].post /\ g(q).queue = rest(q) /\ req[q] \in Req
             /\ (req[q].post # "idle" => req[q].queue # <<>>)
  <2>1. req[q] \in Req BY DEF TypeOK
  <2>2. req[q].queue \in Seq(Row) /\ (req[q].post # "idle" => req[q].queue # <<>>)
    BY <2>1 DEF Req, Staged
  <2>3. rest(q) \in Seq(Row)
    <3>1. CASE req[q].post = "idle" BY <3>1
    <3>2. CASE req[q].post # "idle"
      <4>1. Head(req[q].queue) \in Row BY <2>2, <3>2, HeadTailProperties
      <4> QED BY <3>2, <4>1
    <3> QED BY <3>1, <3>2
  <2> HIDE DEF rest
  <2>4. g(q) \in Req BY <2>1, <2>3 DEF Req, None
  <2> QED BY <2>1, <2>2, <2>4 DEF Req
<1>4. ASSUME NEW q \in Reqs, q \in Live
      PROVE  /\ req[q].pc \notin {"unused", "over"} /\ req'[q].pc = "over"
             /\ req'[q].hit /\ Drops(q) /\ KeepsPast(q) /\ req'[q].post = req[q].post
             /\ \/ req[q].post = "idle" /\ req'[q].queue = <<>>
                \/ req[q].queue # <<>> /\ req'[q].queue = <<Head(req[q].queue)>>
  <2>1. req'[q] = g(q) BY <1>1, <1>4
  <2>2. req[q].pc \notin {"unused", "over"} BY <1>4
  <2> HIDE DEF g, Live
  <2> QED BY <1>3, <2>1, <2>2 DEF Drops, KeepsPast
<1>5. \A q \in Reqs : q \notin Live => req'[q] = req[q] BY <1>1
<1>6. req' \in [Reqs -> Req]
  <2> HIDE DEF g, Live
  <2> QED BY <1>1, <1>3
<1> HIDE DEF g, Live
<1> QED BY <1>2, <1>4, <1>5, <1>6, Zenon DEF Crashes

(* The callback that stores the rows is cut.                                *)
LEMMA CutSavingCrashes ==
  ASSUME TypeOK, Staged, NEW q \in Reqs, CutSaving(q)
  PROVE  req' \in [Reqs -> Req] /\ Crashes
<1> DEFINE rest == IF req[q].post = "idle" THEN <<>> ELSE <<Head(req[q].queue)>>
           g == [req[q] EXCEPT !.pc = "over", !.hit = TRUE, !.queue = rest]
<1>1. req \in [Reqs -> Req] /\ req[q] \in Req BY DEF TypeOK
<1>2. req[q].queue \in Seq(Row) /\ req[q].queue # <<>> BY <1>1 DEF Req, CutSaving
<1>3. rest \in Seq(Row)
  <2>1. Head(req[q].queue) \in Row BY <1>2, HeadTailProperties
  <2> QED BY <2>1
<1>4. /\ req[q].pc = "persist" /\ req[q].todo = {} /\ req[q].out = {} /\ req[q].got = {}
      /\ UNCHANGED <<session, rows, executed>>
  BY DEF CutSaving, Staged
<1>5. req' = [req EXCEPT ![q] = g] BY DEF CutSaving
<1>6. \/ rest = <<>> /\ req[q].post = "idle"
      \/ rest = <<Head(req[q].queue)>>
  OBVIOUS
<1> HIDE DEF rest
<1>7. g \in Req BY <1>1, <1>3 DEF Req
<1>8. /\ g.pc = "over" /\ g.hit /\ g.todo = {} /\ g.out = {} /\ g.got = {} /\ g.queue = rest
      /\ g.ran = req[q].ran /\ g.before = req[q].before /\ g.post = req[q].post
  BY <1>1, <1>4 DEF Req
<1> HIDE DEF g
<1>9. req' \in [Reqs -> Req] /\ req'[q] = g /\ \A p \in Reqs \ {q} : req'[p] = req[p]
  BY <1>1, <1>5, <1>7
<1> QED BY <1>2, <1>4, <1>6, <1>8, <1>9 DEF Crashes, Drops, KeepsPast

\* One request's part of a step.
Acts(q) ==
  \/ Moves(q) \/ TurnedAway(q) \/ Fetches(q)
  \/ \E c \in Calls : Executes(q, c) \/ Returns(q, c)
  \/ Ends(q) \/ Checks(q) \/ GivesUp(q) \/ Stores(q)

(* Every step is one of these.                                              *)
LEMMA StepIs ==
  ASSUME TypeOK, Staged, [Next]_vars
  PROVE  req' \in [Reqs -> Req] /\ ((\E q \in Reqs : Acts(q)) \/ Crashes \/ Elsewhere)
<1> DEFINE Goal == req' \in [Reqs -> Req] /\ ((\E q \in Reqs : Acts(q)) \/ Crashes \/ Elsewhere)
<1>1. ASSUME NEW t \in Tabs, NEW q \in Reqs, NEW x \in Texts \cup {NoText}, Submit(t, q, x)
      PROVE  Goal
  BY <1>1, SubmitMoves DEF Acts
<1>2. ASSUME NEW q \in Reqs, Chat(q) PROVE Goal
  BY <1>2, HistoryFetches, DispatchMoves, CompleteEnds, CutEnds, CutSavingCrashes, FailEnds, FinishMoves,
     ExecuteExecutes, ReturnReturns, ProposeMoves
  DEF Chat, Acts
<1>3. ASSUME NEW q \in Reqs, Post(q) PROVE Goal
  BY <1>3, PostReadChecks, PostCreateStores, PostFailGivesUp DEF Post, Acts
<1>4. ASSUME Crash PROVE Goal BY <1>4, CrashCrashes
<1>5. ASSUME Elsewhere PROVE Goal BY <1>5 DEF Elsewhere, TypeOK
<1>6. ASSUME NEW t \in Tabs, Open(t) \/ Stop(t) \/ \E c \in Calls, a \in {"yes", "no"} : Answer(t, c, a)
      PROVE  Elsewhere
  BY <1>6 DEF Open, Stop, Answer, Elsewhere
<1>7. ASSUME Delete \/ Expire \/ Purge \/ Cleanup PROVE Elsewhere
  BY <1>7 DEF Delete, Expire, Purge, Cleanup, Elsewhere
<1>8. ASSUME UNCHANGED vars PROVE Elsewhere BY <1>8 DEF vars, Elsewhere
<1> HIDE DEF Goal
<1>9. Goal BY <1>1, <1>2, <1>3, <1>4, <1>5, <1>6, <1>7, <1>8, Zenon DEF Next, Browser
<1> QED BY <1>9 DEF Goal

(* Every step keeps the types.                                              *)
LEMMA TypeStep == ASSUME TypeOK, Staged, [Next]_vars PROVE TypeOK'
<1> DEFINE Card == [Tabs -> [Calls -> {"none", "asked", "yes", "no", "done"}]]
           Cur == [Tabs -> Reqs \cup {NoReq}]
<1>1. req' \in [Reqs -> Req] BY StepIs
<1>2. rows' \in Seq(Row)
  <2>1. ASSUME NEW q \in Reqs, Stores(q) PROVE rows' \in Seq(Row)
    <3>1. rows \in Seq(Row) /\ req[q] \in Req BY DEF TypeOK
    <3>2. req[q].queue \in Seq(Row) /\ req[q].queue # <<>> BY <2>1, <3>1 DEF Req, Stores
    <3>3. Head(req[q].queue) \in Row BY <3>2, HeadTailProperties
    <3> QED BY <2>1, <3>1, <3>3, AppendProperties DEF Stores
  <2>2. ASSUME rows' = <<>> PROVE rows' \in Seq(Row) BY <2>2
  <2>3. ASSUME rows' = rows PROVE rows' \in Seq(Row) BY <2>3 DEF TypeOK
  <2> QED
    BY <2>1, <2>2, <2>3, StepIs
    DEF Acts, Moves, TurnedAway, Fetches, Executes, Returns, Ends, Checks, GivesUp, Crashes,
        Elsewhere
<1>3. executed' \in [Calls -> Nat]
  <2>1. ASSUME NEW c \in Calls, executed' = [executed EXCEPT ![c] = @ + 1]
        PROVE  executed' \in [Calls -> Nat]
    BY <2>1 DEF TypeOK
  <2>2. ASSUME executed' = executed PROVE executed' \in [Calls -> Nat] BY <2>2 DEF TypeOK
  <2> QED
    BY <2>1, <2>2, StepIs
    DEF Acts, Moves, TurnedAway, Fetches, Executes, Returns, Ends, Checks, GivesUp, Stores,
        Crashes, Elsewhere
<1>4. session' \in {"active", "trashed", "expired", "gone"}
  <2>1. ASSUME session' = session PROVE session' \in {"active", "trashed", "expired", "gone"}
    BY <2>1 DEF TypeOK
  <2> QED
    BY <2>1, StepIs
    DEF Acts, Moves, TurnedAway, Fetches, Executes, Returns, Ends, Checks, GivesUp, Stores,
        Crashes, Elsewhere
<1>5. card' \in Card
  <2>1. card \in Card BY DEF TypeOK
  <2>2. ASSUME NEW q, NEW S, NEW state \in {"asked", "done"}, Streams(q, S, state) PROVE card' \in Card
    BY <2>1, <2>2 DEF Streams
  <2>3. ASSUME NEW t \in Tabs, Open(t) \/ Stop(t) \/ \E c \in Calls, a \in {"yes", "no"} : Answer(t, c, a)
        PROVE  card' \in Card
    <3>1. CASE Open(t)
      <4>1. [c \in Calls |-> IF Stored("result", c) THEN "done"
                             ELSE IF Stored("call", c) THEN "asked" ELSE "none"]
              \in [Calls -> {"none", "asked", "yes", "no", "done"}]
        OBVIOUS
      <4> QED BY <2>1, <3>1, <4>1 DEF Open
    <3>2. CASE Stop(t) BY <2>1, <3>2 DEF Stop
    <3>3. ASSUME NEW c \in Calls, NEW a \in {"yes", "no"}, Answer(t, c, a) PROVE card' \in Card
      BY <2>1, <3>3 DEF Answer
    <3> QED BY <2>3, <3>1, <3>2, <3>3
  <2>4. ASSUME card' = card PROVE card' \in Card BY <2>1, <2>4
  <2> HIDE DEF Card
  <2>5. ASSUME NEW q \in Reqs, Chat(q) PROVE card' \in Card
    <3>1. ASSUME Dispatch(q) PROVE card' \in Card
      BY <2>2, <3>1 DEF Dispatch
    <3>2. ASSUME NEW c \in Calls, Return(q, c) \/ Propose(q, c) PROVE card' \in Card
      BY <2>2, <3>2 DEF Return, Propose
    <3> QED
      BY <2>4, <2>5, <3>1, <3>2 DEF Chat, History, Complete, Cut, CutSaving, Fail, Finish, Execute
  <2>6. ASSUME NEW t \in Tabs, NEW q \in Reqs, NEW x \in Texts \cup {NoText}, Submit(t, q, x)
        PROVE  card' \in Card
    BY <2>4, <2>6 DEF Submit
  <2>7. ASSUME NEW q \in Reqs, Post(q) PROVE card' \in Card
    BY <2>4, <2>7 DEF Post, PostRead, PostCreate, PostFail
  <2>8. ASSUME Crash \/ Delete \/ Expire \/ Purge \/ Cleanup \/ UNCHANGED vars PROVE card' \in Card
    BY <2>4, <2>8 DEF Crash, Delete, Expire, Purge, Cleanup, vars
  <2> QED BY <2>3, <2>5, <2>6, <2>7, <2>8, Zenon DEF Next, Browser
<1>6. cur' \in Cur
  <2>1. cur \in Cur BY DEF TypeOK
  <2>2. ASSUME NEW Q, HangUp(Q) PROVE cur' \in Cur BY <2>1, <2>2 DEF HangUp
  <2>3. ASSUME NEW t \in Tabs, NEW to \in Reqs \cup {NoReq}, cur' = [cur EXCEPT ![t] = to]
        PROVE  cur' \in Cur
    BY <2>1, <2>3
  <2>4. ASSUME cur' = cur PROVE cur' \in Cur BY <2>1, <2>4
  <2> HIDE DEF Cur
  <2>5. ASSUME NEW q \in Reqs, Chat(q) PROVE cur' \in Cur
    BY <2>2, <2>4, <2>5
    DEF Chat, Dispatch, Return, Propose, History, Complete, Cut, CutSaving, Fail, Finish, Execute
  <2>6. ASSUME NEW t \in Tabs, NEW q \in Reqs, NEW x \in Texts \cup {NoText}, Submit(t, q, x)
        PROVE  cur' \in Cur
    BY <2>3, <2>6 DEF Submit
  <2>7. ASSUME NEW q \in Reqs, Post(q) PROVE cur' \in Cur
    BY <2>4, <2>7 DEF Post, PostRead, PostCreate, PostFail
  <2>8. ASSUME Delete \/ Expire \/ Purge \/ Cleanup \/ UNCHANGED vars PROVE cur' \in Cur
    BY <2>4, <2>8 DEF Delete, Expire, Purge, Cleanup, vars
  <2>9. ASSUME Crash PROVE cur' \in Cur BY <2>2, <2>9 DEF Crash
  <2>10. ASSUME NEW t \in Tabs, Open(t) \/ Stop(t) \/ \E c \in Calls, a \in {"yes", "no"} : Answer(t, c, a)
         PROVE  cur' \in Cur
    BY <2>3, <2>4, <2>10 DEF Open, Stop, Answer
  <2> QED BY <2>5, <2>6, <2>7, <2>8, <2>9, <2>10, Zenon DEF Next, Browser
<1> QED BY <1>1, <1>2, <1>3, <1>4, <1>5, <1>6 DEF TypeOK

(* Every step keeps the stages.                                             *)
LEMMA StagedStep == ASSUME TypeOK, Staged, [Next]_vars PROVE Staged'
<1> DEFINE S(q) ==
      /\ req[q].pc \in {"unused", "history"} =>
           req[q].queue = <<>> /\ req[q].todo = {} /\ req[q].got = {} /\ req[q].ran = {}
      /\ req[q].pc \in {"persist", "over"} => req[q].todo = {} /\ req[q].got = {}
      /\ req[q].pc # "run" => req[q].out = {}
      /\ req[q].pc = "run" => req[q].queue = <<>>
      /\ req[q].post = "checked" => req[q].queue # <<>>
<1>s. ASSUME NEW q \in Reqs PROVE S(q) BY DEF Staged
<1>t. ASSUME NEW q \in Reqs PROVE req[q].post \in {"idle", "checked"} BY DEF TypeOK, Req
<1>q. ASSUME \A q \in Reqs : S(q)' PROVE Staged' BY <1>q DEF Staged
<1>1. ASSUME NEW q \in Reqs, Acts(q) PROVE Staged'
  <2>1. CASE Moves(q)
    BY <1>s, <1>q, <2>1 DEF Moves, GoesTo, Others, KeepsQueue, KeepsCalls, KeepsPast
  <2>2. CASE TurnedAway(q)
    BY <1>s, <1>q, <2>2 DEF TurnedAway, GoesTo, Others, KeepsQueue, KeepsCalls, KeepsPast
  <2>3. CASE Fetches(q)
    <3>1. req[q].post # "checked" BY <1>s, <2>3 DEF Fetches, GoesTo
    <3> QED BY <1>s, <1>q, <2>3, <3>1 DEF Fetches, GoesTo, Others
  <2>4. ASSUME NEW c \in Calls, Executes(q, c) \/ Returns(q, c) PROVE Staged'
    BY <1>s, <1>q, <2>4 DEF Executes, Returns, GoesTo, Others, KeepsQueue
  <2>5. CASE Ends(q)
    <3>1. req[q].post # "checked" BY <1>s, <2>5 DEF Ends, GoesTo
    <3> QED BY <1>s, <1>q, <2>5, <3>1 DEF Ends, Drops, GoesTo, Others
  <2>6. CASE Checks(q) BY <1>s, <1>q, <2>6 DEF Checks, Others, KeepsCalls, KeepsPast
  <2>7. CASE GivesUp(q) \/ Stores(q)
    BY <1>s, <1>q, <2>7 DEF GivesUp, Stores, Others, KeepsCalls, KeepsPast
  <2> QED BY <1>1, <2>1, <2>2, <2>3, <2>4, <2>5, <2>6, <2>7 DEF Acts
<1>2. CASE Crashes
  <2> SUFFICES ASSUME NEW q \in Reqs PROVE S(q)' BY <1>q
  <2>1. CASE req'[q] = req[q] BY <1>s, <2>1
  <2>2. CASE req'[q] # req[q]
    <3>1. /\ req'[q].pc = "over" /\ Drops(q) /\ req'[q].post = req[q].post
          /\ \/ req[q].post = "idle" /\ req'[q].queue = <<>>
             \/ req'[q].queue = <<Head(req[q].queue)>>
      BY <1>2, <2>2 DEF Crashes
    <3> QED BY <3>1 DEF Drops
  <2> QED BY <2>1, <2>2
<1>3. CASE Elsewhere BY <1>3 DEF Elsewhere, Staged
<1> QED BY <1>1, <1>2, <1>3, StepIs

-----------------------------------------------------------------------------
(* Rows and results.                                                        *)

(* Requests and their queues.                                               *)
LEMMA QueueIs ==
  ASSUME TypeOK, NEW q \in Reqs
  PROVE  /\ req[q].queue \in Seq(Row) /\ Len(req[q].queue) \in Nat
         /\ req[q].queue # <<>> =>
              /\ Len(req[q].queue) \in Nat \ {0} /\ Head(req[q].queue) = req[q].queue[1]
              /\ Len(Tail(req[q].queue)) = Len(req[q].queue) - 1
              /\ \A i \in 1 .. Len(req[q].queue) - 1 : Tail(req[q].queue)[i] = req[q].queue[i + 1]
              /\ Len(<<Head(req[q].queue)>>) = 1 /\ <<Head(req[q].queue)>>[1] = req[q].queue[1]
<1>1. req[q].queue \in Seq(Row) BY DEF TypeOK, Req
<1>2. Len(req[q].queue) \in Nat BY <1>1, LenProperties
<1>3. ASSUME req[q].queue # <<>>
      PROVE  /\ Len(req[q].queue) \in Nat \ {0} /\ Head(req[q].queue) = req[q].queue[1]
             /\ Len(Tail(req[q].queue)) = Len(req[q].queue) - 1
             /\ \A i \in 1 .. Len(req[q].queue) - 1 : Tail(req[q].queue)[i] = req[q].queue[i + 1]
  <2>1. Len(req[q].queue) \in Nat \ {0} BY <1>1, <1>3, EmptySeq
  <2>2. Head(req[q].queue) = req[q].queue[1] BY <1>1, <2>1
  <2> QED BY <1>1, <1>3, <2>1, <2>2, HeadTailProperties
<1> QED BY <1>1, <1>2, <1>3

(* A row that is stored is the first of its queue, and the last of all.     *)
LEMMA StoreIs ==
  ASSUME TypeOK, NEW q \in Reqs, Stores(q)
  PROVE  /\ Len(rows) \in Nat /\ Len(rows') = Len(rows) + 1
         /\ \A i \in 1 .. Len(rows) : rows'[i] = rows[i]
         /\ rows'[Len(rows')] = req[q].queue[1]
         /\ 1 \in 1 .. Len(req[q].queue)
<1>1. rows \in Seq(Row) /\ req[q].queue # <<>> BY DEF TypeOK, Stores
<1>2. Head(req[q].queue) = req[q].queue[1] /\ Len(req[q].queue) \in Nat \ {0} BY <1>1, QueueIs
<1>3. rows' = Append(rows, req[q].queue[1]) BY <1>2 DEF Stores
<1>4. req[q].queue[1] \in Row BY <1>2, QueueIs
<1> QED BY <1>1, <1>2, <1>3, <1>4, AppendProperties, LenProperties

(* A request's queue after a step has rows of its queue before, or new ones *)
(* of its own.                                                              *)
LEMMA SignedStep == ASSUME TypeOK, Staged, Signed, [Next]_vars PROVE Signed'
<1> DEFINE Own(q) == \A i \in 1 .. Len(req[q].queue) : req[q].queue[i].by = q
           Read(q) == req[q].pc \notin {"unused", "history"}
           ReadMore == \A q \in Reqs : Read(q) => Read(q)'
           Past == \A i \in 1 .. Len(rows) : Read(rows[i].by)
<1>s. Past /\ \A q \in Reqs : Own(q) BY DEF Signed
<1>g. ASSUME Past', \A q \in Reqs : Own(q)' PROVE Signed' BY <1>g DEF Signed
<1>r. \A i \in 1 .. Len(rows) : rows[i].by \in Reqs BY DEF TypeOK, Row
<1>p. ASSUME ReadMore, rows' = rows PROVE Past' BY <1>p, <1>r, <1>s
<1>1. ASSUME NEW q \in Reqs, Acts(q) PROVE Signed'
  <2>o. \A p \in Reqs \ {q} : req'[p] = req[p]
    BY <1>1 DEF Acts, Moves, TurnedAway, Fetches, Executes, Returns, Ends, Checks, GivesUp,
                Stores, GoesTo, Others
  <2>r. ReadMore
    BY <1>1, <2>o DEF Acts, Moves, TurnedAway, Fetches, Executes, Returns, Ends, Checks, GivesUp,
                Stores, GoesTo
  <2>q. ASSUME Own(q)' PROVE \A p \in Reqs : Own(p)' BY <1>s, <2>o, <2>q
  <2>1. ASSUME req'[q].queue = req[q].queue PROVE Own(q)' BY <1>s, <2>1
  <2>2. CASE Fetches(q)
    <3>1. ASSUME req'[q].queue = <<>> PROVE Own(q)' BY <3>1
    <3>2. ASSUME NEW x \in Texts, req'[q].queue = <<[kind |-> "user", of |-> x, by |-> q]>>
          PROVE  Own(q)'
      BY <3>2
    <3>3. Own(q)' BY <2>2, <3>1, <3>2 DEF Fetches
    <3> QED BY <1>g, <1>p, <2>2, <2>q, <2>r, <3>3 DEF Fetches
  <2>3. CASE Ends(q)
    <3>1. Own(q)' BY <2>1, <2>3, RenderedIs DEF Ends
    <3> QED BY <1>g, <1>p, <2>3, <2>q, <2>r, <3>1 DEF Ends
  <2>4. CASE GivesUp(q) \/ Stores(q)
    <3>1. req[q].queue # <<>> /\ req'[q].queue = Tail(req[q].queue)
      BY <2>4 DEF GivesUp, Stores
    <3>2. Own(q)' BY <1>s, <3>1, QueueIs
    <3>3. CASE GivesUp(q) BY <1>g, <1>p, <2>q, <2>r, <3>2, <3>3 DEF GivesUp
    <3>4. CASE Stores(q)
      <4>1. Read(q)
        <5>1. req[q].pc \in {"unused", "history"} => req[q].queue = <<>> BY DEF Staged
        <5> QED BY <3>1, <5>1
      <4>2. req[q].queue[1].by = q BY <1>s, <3>4, StoreIs
      <4>3. ASSUME NEW i \in 1 .. Len(rows')
            PROVE  req'[rows'[i].by].pc \notin {"unused", "history"}
        <5>1. CASE i \in 1 .. Len(rows)
          <6>1. rows'[i] = rows[i] BY <3>4, <5>1, StoreIs
          <6> QED BY <1>r, <1>s, <2>r, <5>1, <6>1
        <5>2. CASE i = Len(rows')
          <6>1. rows'[i].by = q BY <3>4, <4>2, <5>2, StoreIs
          <6> QED BY <2>r, <4>1, <6>1
        <5> QED BY <3>4, <5>1, <5>2, StoreIs
      <4>4. Past' BY <4>3
      <4> QED BY <1>g, <2>q, <3>2, <4>4
    <3> QED BY <2>4, <3>3, <3>4
  <2>5. CASE Moves(q) \/ TurnedAway(q) \/ Checks(q)
    BY <1>g, <1>p, <2>1, <2>5, <2>q, <2>r DEF Moves, TurnedAway, Checks, KeepsQueue
  <2>6. ASSUME NEW c \in Calls, Executes(q, c) \/ Returns(q, c) PROVE Signed'
    BY <1>g, <1>p, <2>1, <2>6, <2>q, <2>r DEF Executes, Returns, KeepsQueue
  <2> QED BY <1>1, <2>2, <2>3, <2>4, <2>5, <2>6 DEF Acts
<1>2. CASE Crashes
  <2>1. \A q \in Reqs : Own(q)'
    <3> SUFFICES ASSUME NEW q \in Reqs PROVE Own(q)' OBVIOUS
    <3>1. CASE req'[q].queue = req[q].queue BY <1>s, <3>1
    <3>2. CASE req'[q].queue = <<>> BY <3>2
    <3>3. CASE req[q].queue # <<>> /\ req'[q].queue = <<Head(req[q].queue)>>
      <4>1. 1 \in 1 .. Len(req[q].queue) BY <3>3, QueueIs
      <4> QED BY <1>s, <3>3, <4>1, QueueIs
    <3> QED BY <1>2, <3>1, <3>2, <3>3 DEF Crashes
  <2>2. ReadMore BY <1>2 DEF Crashes
  <2> QED BY <1>2, <1>g, <1>p, <2>1, <2>2 DEF Crashes
<1>3. CASE Elsewhere
  <2>1. CASE rows' = rows BY <1>3, <2>1 DEF Elsewhere, Signed
  <2>2. CASE rows' = <<>> BY <1>3, <2>2 DEF Elsewhere, Signed
  <2> QED BY <1>3, <2>1, <2>2 DEF Elsewhere
<1> QED BY <1>1, <1>2, <1>3, StepIs

(* What is stored stays stored until the session is purged.                 *)
LEMMA StoredStays ==
  ASSUME TypeOK, NEW kind, NEW c, Stored(kind, c), rows' = rows \/ \E q \in Reqs : Stores(q)
  PROVE  Stored(kind, c)'
<1>1. CASE rows' = rows BY <1>1 DEF Stored
<1>2. ASSUME NEW q \in Reqs, Stores(q) PROVE Stored(kind, c)'
  <2>1. DOMAIN rows = 1 .. Len(rows) BY DEF TypeOK
  <2>2. rows' = Append(rows, Head(req[q].queue)) BY <1>2 DEF Stores
  <2>3. PICK i \in 1 .. Len(rows) : rows[i].kind = kind /\ rows[i].of = c BY <2>1 DEF Stored
  <2>4. rows \in Seq(Row) BY DEF TypeOK
  <2>5. DOMAIN rows' = 1 .. Len(rows) + 1 BY <2>2, <2>4
  <2>6. rows'[i] = rows[i] BY <1>2, StoreIs
  <2>7. i \in DOMAIN rows' BY <2>4, <2>5
  <2> QED BY <2>3, <2>6, <2>7 DEF Stored
<1> QED BY <1>1, <1>2

(* What is stored now is the first row of a queue.                          *)
LEMMA StoredNow ==
  ASSUME TypeOK, NEW q \in Reqs, Stores(q), NEW kind, NEW c,
         req[q].queue[1].kind = kind, req[q].queue[1].of = c
  PROVE  Stored(kind, c)'
<1>1. rows \in Seq(Row) /\ Len(rows) \in Nat BY LenProperties DEF TypeOK
<1>2. rows' = Append(rows, Head(req[q].queue)) BY DEF Stores
<1>3. DOMAIN rows' = 1 .. Len(rows) + 1 BY <1>1, <1>2
<1>4. rows'[Len(rows) + 1] = req[q].queue[1] /\ Len(rows) + 1 \in DOMAIN rows'
  BY <1>1, <1>3, StoreIs
<1> QED BY <1>4 DEF Stored

(* A result leaves the run for the queue, and the queue for the transcript. *)
LEMMA KeptStep == ASSUME TypeOK, Staged, ResultsKept, [Next]_vars PROVE ResultsKept'
<1> DEFINE Safe(p, c) == c \in req[p].out \cup req[p].got \/ Queued(p, c) \/ Stored("result", c)
           Kept(p) == \A c \in req[p].ran : ~req[p].hit /\ session = "active" => Safe(p, c)
<1>k. \A p \in Reqs : Kept(p) BY DEF ResultsKept
<1>g. ASSUME \A p \in Reqs : Kept(p)' PROVE ResultsKept' BY <1>g DEF ResultsKept
<1>1. ASSUME NEW q \in Reqs, Acts(q) PROVE ResultsKept'
  <2>o. /\ \A p \in Reqs \ {q} : req'[p] = req[p]
        /\ session' = session /\ (rows' = rows \/ Stores(q))
    BY <1>1 DEF Acts, Moves, TurnedAway, Fetches, Executes, Returns, Ends, Checks, GivesUp,
                Stores, GoesTo, Others
  <2>s. \A c : Stored("result", c) => Stored("result", c)' BY <2>o, StoredStays
  <2>p. \A p \in Reqs \ {q} : Kept(p)' BY <1>k, <2>o, <2>s DEF Queued
  <2>q. ASSUME Kept(q)' PROVE ResultsKept' BY <1>g, <2>p, <2>q
  <2>1. CASE Moves(q) \/ TurnedAway(q) \/ Checks(q)
    <3>1. KeepsCalls(q) /\ KeepsPast(q) /\ KeepsHit(q) /\ req'[q].queue = req[q].queue
      BY <2>1 DEF Moves, TurnedAway, Checks, KeepsQueue
    <3>2. Kept(q)' BY <1>k, <2>o, <2>s, <3>1 DEF KeepsCalls, KeepsPast, KeepsHit, Queued
    <3> QED BY <2>q, <3>2
  <2>2. CASE Fetches(q)
    <3>1. req'[q].ran = {} BY <2>2 DEF Fetches, GoesTo, Staged
    <3> QED BY <2>q, <3>1
  <2>3. ASSUME NEW d \in Calls, Executes(q, d) \/ Returns(q, d) PROVE ResultsKept'
    <3>1. /\ KeepsHit(q) /\ req'[q].queue = req[q].queue
          /\ req'[q].ran \subseteq req[q].ran \cup {d}
          /\ req[q].out \cup req[q].got \cup {d} \subseteq req'[q].out \cup req'[q].got
      BY <2>3 DEF Executes, Returns, KeepsQueue, KeepsPast
    <3>2. Kept(q)' BY <1>k, <2>o, <2>s, <3>1 DEF KeepsHit, Queued
    <3> QED BY <2>q, <3>2
  <2>4. CASE Ends(q)
    <3>1. CASE req'[q].hit BY <2>q, <3>1
    <3>2. CASE ~req'[q].hit
      <4>1. /\ req[q].queue = <<>> /\ req[q].out = {} /\ ~req[q].hit
            /\ req'[q].queue = Rendered(q) /\ req'[q].ran = req[q].ran
        BY <2>4, <3>2 DEF Ends, GoesTo, Staged, KeepsPast
      <4>2. \A c : ~Queued(q, c) BY <4>1 DEF Queued
      <4>3. \A c \in req[q].got : Queued(q, c)' BY <4>1, RenderedIs DEF Queued
      <4>4. Kept(q)' BY <1>k, <2>o, <2>s, <4>1, <4>2, <4>3
      <4> QED BY <2>q, <4>4
    <3> QED BY <3>1, <3>2
  <2>5. CASE GivesUp(q)
    <3>1. session' # "active" \/ req'[q].hit BY <2>5 DEF GivesUp
    <3> QED BY <2>q, <3>1
  <2>6. CASE Stores(q)
    <3>1. /\ KeepsCalls(q) /\ KeepsPast(q) /\ KeepsHit(q) /\ req[q].queue # <<>>
          /\ req'[q].queue = Tail(req[q].queue)
      BY <2>6 DEF Stores
    <3>2. ASSUME NEW c, Queued(q, c) PROVE Queued(q, c)' \/ Stored("result", c)'
      <4>1. PICK i \in 1 .. Len(req[q].queue) :
              req[q].queue[i].kind = "result" /\ req[q].queue[i].of = c
        BY <3>2 DEF Queued
      <4>2. CASE i = 1 BY <2>6, <4>1, <4>2, StoredNow
      <4>3. CASE i # 1
        <5>1. i - 1 \in 1 .. Len(req'[q].queue) /\ req'[q].queue[i - 1] = req[q].queue[i]
          BY <3>1, <4>3, QueueIs
        <5> QED BY <4>1, <5>1 DEF Queued
      <4> QED BY <4>2, <4>3
    <3>3. Kept(q)' BY <1>k, <2>o, <2>s, <3>1, <3>2 DEF KeepsCalls, KeepsPast, KeepsHit
    <3> QED BY <2>q, <3>3
  <2> QED BY <1>1, <2>1, <2>2, <2>3, <2>4, <2>5, <2>6 DEF Acts
<1>2. CASE Crashes
  <2>1. \A p \in Reqs : req'[p] = req[p] \/ req'[p].hit BY <1>2 DEF Crashes
  <2>2. rows' = rows /\ session' = session BY <1>2 DEF Crashes
  <2>3. \A p \in Reqs : Kept(p)' BY <1>k, <2>1, <2>2 DEF Queued, Stored
  <2> QED BY <1>g, <2>3
<1>3. CASE Elsewhere
  <2>1. CASE session' = session /\ rows' = rows
    <3>1. \A p \in Reqs : Kept(p)' BY <1>3, <1>k, <2>1 DEF Elsewhere, Queued, Stored
    <3> QED BY <1>g, <3>1
  <2>2. CASE session' # "active" BY <2>2 DEF ResultsKept
  <2> QED BY <1>3, <2>1, <2>2 DEF Elsewhere
<1> QED BY <1>1, <1>2, <1>3, StepIs

(* A request that is over does nothing any more.                            *)
LEMMA OverStays ==
  ASSUME TypeOK, Staged, [Next]_vars, NEW p \in Reqs, Over(p) PROVE req'[p] = req[p]
<1>1. ASSUME NEW q \in Reqs, Acts(q) PROVE req'[p] = req[p]
  BY <1>1 DEF Acts, Moves, TurnedAway, Fetches, Executes, Returns, Ends, Checks, GivesUp,
              Stores, GoesTo, Others, Over
<1>2. CASE Crashes BY <1>2 DEF Crashes, Over
<1>3. CASE Elsewhere BY <1>3 DEF Elsewhere
<1> QED BY <1>1, <1>2, <1>3, StepIs

(* An approval that a request executes has not been spent by one before it. *)
LEMMA SpentStep ==
  ASSUME TypeOK, Staged, ResultsKept, BeforeIsOver, ApprovalsSpent, [Next]_vars
  PROVE  BeforeIsOver' /\ ApprovalsSpent'
<1> DEFINE Mine(q) == req[q].todo \cup req[q].ran
           Spent(q) == \A p \in req[q].before : \A c \in Mine(q) \cap req[p].ran : req[p].hit
           Less(q) == req'[q].before = req[q].before /\ Mine(q)' \subseteq Mine(q)
<1>r. \A q \in Reqs : req[q].before \subseteq Reqs BY DEF TypeOK, Req
<1>o. \A q \in Reqs : \A p \in req[q].before : Over(p) /\ req'[p] = req[p]
  BY <1>r, OverStays DEF BeforeIsOver
<1>l. ASSUME NEW q \in Reqs, Less(q) PROVE Spent(q)' /\ \A p \in req'[q].before : Over(p)'
  <2>1. \A p \in req'[q].before : Over(p)' BY <1>l, <1>o DEF Over
  <2>2. Spent(q) BY DEF ApprovalsSpent
  <2>3. Spent(q)' BY <1>l, <1>o, <2>2
  <2> QED BY <2>1, <2>3
<1>g. ASSUME \A q \in Reqs : Spent(q)' /\ \A p \in req'[q].before : Over(p)'
      PROVE  BeforeIsOver' /\ ApprovalsSpent'
  BY <1>g DEF BeforeIsOver, ApprovalsSpent
<1>1. ASSUME NEW q \in Reqs, Acts(q) PROVE BeforeIsOver' /\ ApprovalsSpent'
  <2>o. \A p \in Reqs \ {q} : req'[p] = req[p]
    BY <1>1 DEF Acts, Moves, TurnedAway, Fetches, Executes, Returns, Ends, Checks, GivesUp,
                Stores, GoesTo, Others
  <2>1. \A p \in Reqs \ {q} : Less(p) BY <2>o
  <2>2. CASE Fetches(q)
    <3>1. /\ req'[q].before = {p \in Reqs : Over(p)} /\ req'[q].ran = {} /\ ~Over(q)
          /\ \A c \in req'[q].todo : ~Stored("result", c)
          /\ session = "active"
      BY <2>2 DEF Fetches, GoesTo, Staged, Over
    <3>2. ASSUME NEW p \in req'[q].before
          PROVE  Over(p)' /\ \A c \in Mine(q)' \cap req'[p].ran : req'[p].hit
      <4>1. p \in Reqs /\ Over(p) /\ req'[p] = req[p] BY <2>o, <3>1, <3>2
      <4>2. req[p].out = {} /\ req[p].got = {} /\ \A c : ~Queued(p, c)
        BY <4>1 DEF Over, Staged, Queued
      <4>3. \A c \in req[p].ran : ~req[p].hit => Stored("result", c)
        BY <3>1, <4>1, <4>2 DEF ResultsKept
      <4>4. Over(p)' BY <4>1 DEF Over
      <4> QED BY <3>1, <4>1, <4>3, <4>4
    <3>3. Spent(q)' /\ \A p \in req'[q].before : Over(p)' BY <3>2
    <3> QED BY <1>g, <1>l, <2>1, <3>3
  <2>3. CASE ~Fetches(q)
    <3>1. Less(q)
      BY <1>1, <2>3
      DEF Acts, Moves, TurnedAway, Executes, Returns, Ends, Checks, GivesUp, Stores, KeepsCalls,
          KeepsPast, Drops
    <3> QED BY <1>g, <1>l, <2>1, <3>1
  <2> QED BY <2>2, <2>3
<1>2. CASE Crashes
  <2>1. \A q \in Reqs : Less(q) BY <1>2 DEF Crashes, Drops, KeepsPast
  <2> QED BY <1>g, <1>l, <2>1
<1>3. CASE Elsewhere
  <2>1. \A q \in Reqs : Less(q) BY <1>3 DEF Elsewhere
  <2> QED BY <1>g, <1>l, <2>1
<1> QED BY <1>1, <1>2, <1>3, StepIs

(* What is to be executed is on record.                                     *)
LEMMA RecordStep == ASSUME TypeOK, Staged, OnRecord, [Next]_vars PROVE OnRecord'
<1> DEFINE Fewer == /\ executed' = executed
                    /\ \A q \in Reqs : \A c \in req'[q].todo : c \in req[q].todo \/ Stored("call", c)
<1>1. ASSUME NEW q \in Reqs, Acts(q) PROVE OnRecord'
  <2>o. /\ \A p \in Reqs \ {q} : req'[p] = req[p]
        /\ session' = session /\ (rows' = rows \/ Stores(q))
    BY <1>1 DEF Acts, Moves, TurnedAway, Fetches, Executes, Returns, Ends, Checks, GivesUp,
                Stores, GoesTo, Others
  <2>s. \A c : Stored("call", c) => Stored("call", c)' BY <2>o, StoredStays
  <2>1. ASSUME NEW d \in Calls, Executes(q, d) PROVE OnRecord'
    <3>1. \A c \in Calls : executed'[c] = IF c = d THEN executed[c] + 1 ELSE executed[c]
      BY <2>1 DEF Executes, TypeOK
    <3>2. d \in req[q].todo /\ req'[q].todo \subseteq req[q].todo BY <2>1 DEF Executes
    <3> QED BY <2>o, <2>s, <3>1, <3>2 DEF OnRecord
  <2>2. ASSUME Fewer PROVE OnRecord' BY <2>2, <2>o, <2>s DEF OnRecord
  <2>3. ASSUME \A d \in Calls : ~Executes(q, d) PROVE Fewer
    BY <1>1, <2>3, <2>o
    DEF Acts, Moves, TurnedAway, Fetches, Returns, Ends, Checks, GivesUp, Stores, KeepsCalls,
        Drops
  <2> QED BY <2>1, <2>2, <2>3
<1>2. CASE Crashes
  <2>1. /\ \A q \in Reqs : req'[q].todo \subseteq req[q].todo
        /\ UNCHANGED <<session, rows, executed>>
    BY <1>2 DEF Crashes, Drops
  <2> QED BY <2>1 DEF OnRecord, Stored
<1>3. CASE Elsewhere BY <1>3 DEF Elsewhere, OnRecord, Stored
<1> QED BY <1>1, <1>2, <1>3, StepIs

-----------------------------------------------------------------------------
(* Texts.                                                                   *)

(* Two rows in a row.                                                       *)
Echo(a, b) == a.kind = "user" /\ b.kind = "user" /\ a.of = b.of

(* A request that is over stores nothing, so that the last row a request    *)
(* has seen of those before it is the last row until another one's.         *)
LEMMA TextsStep ==
  ASSUME TypeOK, Staged, Signed, BeforeIsOver, FreshTexts, NoEcho, [Next]_vars
  PROVE  FreshTexts' /\ NoEcho'
<1> DEFINE New(q) == \A i \in 1 .. Len(req[q].queue) :
             rows # <<>> /\ Echo(rows[Len(rows)], req[q].queue[i]) =>
               rows[Len(rows)].by \notin req[q].before
           SameRows == rows' = rows /\ \A q \in Reqs : req[q].pc \notin {"unused", "history"} => KeepsPast(q)
<1>n. \A q \in Reqs : New(q) BY DEF FreshTexts, Echo
<1>g. ASSUME \A q \in Reqs : New(q)' PROVE FreshTexts' BY <1>g DEF FreshTexts, Echo
<1>t. rows \in Seq(Row) /\ Len(rows) \in Nat BY LenProperties DEF TypeOK
<1>b. \A i \in 1 .. Len(rows) : rows[i].by \in Reqs BY <1>t DEF Row
<1>e. ASSUME SameRows PROVE NoEcho'
  <2>1. \A i \in 1 .. Len(rows) : req'[rows[i].by].before = req[rows[i].by].before
    BY <1>b, <1>e DEF Signed, KeepsPast
  <2>2. \A i \in 1 .. Len(rows) - 1 : i + 1 \in 1 .. Len(rows) BY <1>t
  <2> QED BY <1>e, <2>1, <2>2 DEF NoEcho
<1>1. ASSUME NEW q \in Reqs, Acts(q) PROVE FreshTexts' /\ NoEcho'
  <2>o. \A p \in Reqs \ {q} : req'[p] = req[p]
    BY <1>1 DEF Acts, Moves, TurnedAway, Fetches, Executes, Returns, Ends, Checks, GivesUp,
                Stores, GoesTo, Others
  <2>1. CASE Fetches(q)
    <3>1. rows' = rows /\ SameRows BY <2>1, <2>o DEF Fetches, GoesTo, KeepsPast
    <3>2. New(q)'
      <4>1. CASE req'[q].queue = <<>> BY <4>1
      <4>2. ASSUME NEW x \in Texts, ~Resent(x),
                   req'[q].queue = <<[kind |-> "user", of |-> x, by |-> q]>>
            PROVE  New(q)'
        <5>1. rows # <<>> => ~(rows[Len(rows)].kind = "user" /\ rows[Len(rows)].of = x)
          BY <4>2 DEF Resent, Last
        <5>2. Len(req'[q].queue) = 1 /\ req'[q].queue[1].of = x BY <4>2
        <5> QED BY <3>1, <5>1, <5>2 DEF Echo
      <4> QED BY <2>1, <4>1, <4>2 DEF Fetches
    <3>3. \A p \in Reqs : New(p)' BY <1>n, <2>o, <3>1, <3>2
    <3> QED BY <1>e, <1>g, <3>1, <3>3
  <2>2. CASE Stores(q)
    <3>1. /\ Len(rows') = Len(rows) + 1 /\ \A i \in 1 .. Len(rows) : rows'[i] = rows[i]
          /\ rows'[Len(rows')] = req[q].queue[1] /\ 1 \in 1 .. Len(req[q].queue)
      BY <2>2, StoreIs
    <3>2. /\ KeepsPast(q) /\ req'[q].queue = Tail(req[q].queue) /\ req[q].queue # <<>> /\ ~Over(q)
      BY <2>2 DEF Stores, Over
    <3>3. req[q].queue[1].by = q BY <3>1 DEF Signed
    <3>4. \A p \in Reqs : q \notin req[p].before BY <3>2 DEF BeforeIsOver
    <3>5. \A p \in Reqs : req'[p].before = req[p].before BY <2>o, <3>2 DEF KeepsPast
    <3>6. \A p \in Reqs : New(p)' BY <3>1, <3>3, <3>4, <3>5
    <3>7. ASSUME NEW i \in 1 .. Len(rows') - 1, Echo(rows'[i], rows'[i + 1])
          PROVE  rows'[i].by \notin req'[rows'[i + 1].by].before
      <4>1. CASE i < Len(rows)
        <5>1. i \in 1 .. Len(rows) - 1 /\ i + 1 \in 1 .. Len(rows)
          BY <1>t, <3>1, <4>1
        <5>2. rows'[i] = rows[i] /\ rows'[i + 1] = rows[i + 1] BY <1>t, <3>1, <5>1
        <5> QED BY <1>b, <3>5, <3>7, <5>1, <5>2 DEF NoEcho, Echo
      <4>2. CASE i = Len(rows)
        <5>1. rows # <<>> /\ i \in 1 .. Len(rows) BY <1>t, <3>7, <4>2
        <5>2. rows'[i] = rows[Len(rows)] /\ rows'[i + 1] = req[q].queue[1]
          BY <3>1, <4>2, <5>1
        <5> QED BY <1>n, <3>1, <3>3, <3>5, <3>7, <5>1, <5>2
      <4> QED BY <1>t, <3>1, <4>1, <4>2
    <3>8. NoEcho' BY <3>7 DEF NoEcho, Echo
    <3> QED BY <1>g, <3>6, <3>8
  <2>3. CASE ~Fetches(q) /\ ~Stores(q)
    <3>1. (rows' = rows /\ KeepsPast(q)) \/ \E c \in Calls : Executes(q, c)
      BY <1>1, <2>3 DEF Acts, Moves, TurnedAway, Returns, Ends, Checks, GivesUp
    <3>2. rows' = rows /\ req'[q].before = req[q].before
      BY <3>1 DEF Executes, KeepsPast
    <3>3. \A p \in Reqs : req'[p].before = req[p].before BY <2>o, <3>2
    <3>4. NoEcho'
      <4>1. \A i \in 1 .. Len(rows) - 1 : i + 1 \in 1 .. Len(rows) BY <1>t
      <4> QED BY <1>b, <3>2, <3>3, <4>1 DEF NoEcho
    <3>5. New(q)'
      <4>1. CASE req'[q].queue = req[q].queue BY <1>n, <3>2, <4>1
      <4>2. CASE req'[q].queue = Rendered(q) BY <4>2, RenderedIs DEF Echo
      <4>3. CASE req[q].queue # <<>> /\ req'[q].queue = Tail(req[q].queue)
        BY <1>n, <3>2, <4>3, QueueIs
      <4> QED
        BY <1>1, <2>3, <4>1, <4>2, <4>3
        DEF Acts, Moves, TurnedAway, Executes, Returns, Ends, Checks, GivesUp, KeepsQueue
    <3>6. \A p \in Reqs : New(p)' BY <1>n, <2>o, <3>2, <3>5
    <3> QED BY <1>g, <3>4, <3>6
  <2> QED BY <2>1, <2>2, <2>3
<1>2. CASE Crashes
  <2>1. SameRows BY <1>2 DEF Crashes, KeepsPast
  <2>2. ASSUME NEW q \in Reqs PROVE New(q)'
    <3>1. req'[q].before = req[q].before /\ rows' = rows BY <1>2 DEF Crashes, KeepsPast
    <3>2. CASE req'[q].queue = req[q].queue BY <1>n, <3>1, <3>2
    <3>3. CASE req'[q].queue = <<>> BY <3>3
    <3>4. CASE req[q].queue # <<>> /\ req'[q].queue = <<Head(req[q].queue)>>
      <4>1. 1 \in 1 .. Len(req[q].queue) BY <3>4, QueueIs
      <4> QED BY <1>n, <3>1, <3>4, <4>1, QueueIs
    <3> QED BY <1>2, <3>2, <3>3, <3>4 DEF Crashes
  <2> QED BY <1>e, <1>g, <2>1, <2>2
<1>3. CASE Elsewhere
  <2>1. CASE rows' = rows
    <3>1. SameRows /\ \A q \in Reqs : New(q)' BY <1>3, <1>n, <2>1 DEF Elsewhere, KeepsPast
    <3> QED BY <1>e, <1>g, <3>1
  <2>2. CASE rows' = <<>> BY <2>2 DEF FreshTexts, NoEcho
  <2> QED BY <1>3, <2>1, <2>2 DEF Elsewhere
<1> QED BY <1>1, <1>2, <1>3, StepIs

-----------------------------------------------------------------------------
(* The invariant and what follows from it.                                  *)

(* An empty session and requests that have not been sent.                   *)
LEMMA TranscriptInit == Init => Transcript
<1> SUFFICES ASSUME Init PROVE Transcript OBVIOUS
<1>1. Fresh \in Req
  <2>1. <<>> \in Seq(Row) /\ None \in [Calls -> {"none", "yes", "no"}] BY DEF None
  <2> QED BY <2>1 DEF Fresh, Req
<1>2. \A q \in Reqs : req[q] = Fresh BY DEF Init
<1>3. /\ Fresh.pc = "unused" /\ Fresh.todo = {} /\ Fresh.out = {} /\ Fresh.got = {}
      /\ Fresh.queue = <<>> /\ Fresh.post = "idle" /\ Fresh.ran = {} /\ Fresh.before = {}
  BY DEF Fresh
<1>4. TypeOK
  <2>1. req \in [Reqs -> Req] BY <1>1 DEF Init
  <2>2. rows \in Seq(Row) /\ executed \in [Calls -> Nat] BY DEF Init
  <2>3. card \in [Tabs -> [Calls -> {"none", "asked", "yes", "no", "done"}]]
    BY DEF Init, None
  <2>4. cur \in [Tabs -> Reqs \cup {NoReq}] BY DEF Init
  <2> QED BY <2>1, <2>2, <2>3, <2>4 DEF TypeOK, Init
<1>5. rows = <<>> /\ Len(rows) = 0 /\ \A c \in Calls : executed[c] = 0 BY DEF Init
<1>6. Staged /\ ResultsKept /\ BeforeIsOver /\ ApprovalsSpent
  BY <1>2, <1>3 DEF Staged, ResultsKept, BeforeIsOver, ApprovalsSpent
<1>7. Signed
  <2>1. \A q \in Reqs : Len(req[q].queue) = 0 BY <1>2, <1>3
  <2> QED BY <1>5, <2>1 DEF Signed
<1>8. OnRecord BY <1>2, <1>3, <1>5 DEF OnRecord
<1>9. FreshTexts /\ NoEcho BY <1>5 DEF FreshTexts, NoEcho
<1> QED BY <1>4, <1>6, <1>7, <1>8, <1>9 DEF Transcript

(* Every step of the tabs, the requests and the session keeps it.           *)
LEMMA TranscriptStep == Transcript /\ [Next]_vars => Transcript'
<1> SUFFICES ASSUME Transcript, [Next]_vars PROVE Transcript' OBVIOUS
<1> USE DEF Transcript
<1>1. TypeOK' BY TypeStep
<1>2. Staged' BY StagedStep
<1>3. Signed' BY SignedStep
<1>4. ResultsKept' BY KeptStep
<1>5. BeforeIsOver' /\ ApprovalsSpent' BY SpentStep
<1>6. OnRecord' BY RecordStep
<1>7. FreshTexts' /\ NoEcho' BY TextsStep
<1> QED BY <1>1, <1>2, <1>3, <1>4, <1>5, <1>6, <1>7

(* The invariant holds in every state.                                      *)
LEMMA TranscriptInvariant == Spec => []Transcript
BY TranscriptInit, TranscriptStep, PTL DEF Spec

\* Every variable has its type, however requests are cut, crash or overlap.
THEOREM TypeCorrect == Spec => []TypeOK
<1>1. Transcript => TypeOK BY DEF Transcript
<1> QED BY <1>1, TranscriptInvariant, PTL

\* An approved call is not executed again by a later request, unless a fault
\* struck the request that executed it (main.py: _sanitize_client_messages and
\* on_complete, on_cancel of the chat handler).
THEOREM ExecutedOnlyOnce == Spec => []ExecutedOnce
<1>1. Transcript => ExecutedOnce
  <2> SUFFICES ASSUME Transcript, NEW p \in Reqs, NEW q \in Reqs, NEW c \in Calls,
                      p \in req[q].before, c \in req[p].ran \cap req[q].ran
               PROVE  req[p].hit
    BY DEF ExecutedOnce
  <2> QED BY DEF Transcript, ApprovalsSpent
<1> QED BY <1>1, TranscriptInvariant, PTL

\* Whatever rows get lost, the transcript of a session that is not purged has
\* every executed call as proposed (main.py: _anchor_map_from_rows).
THEOREM ExecutedAreOnRecord == Spec => []ExecutedIsOnRecord
<1>1. Transcript => ExecutedIsOnRecord BY DEF Transcript, OnRecord, ExecutedIsOnRecord
<1> QED BY <1>1, TranscriptInvariant, PTL

\* A resent text is not stored twice by requests that do not overlap
\* (main.py: _persist_incoming_user).
THEOREM NoEchoes == Spec => []NoEcho
<1>1. Transcript => NoEcho BY DEF Transcript
<1> QED BY <1>1, TranscriptInvariant, PTL
=============================================================================
