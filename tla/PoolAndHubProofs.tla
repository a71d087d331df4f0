--------------------------- MODULE PoolAndHubProofs ---------------------------
(***************************************************************************)
(* For any connections, worker ids and quota: the pool's registry keeps its *)
(* types, a live connection is the one in the pool under its id, the tenant *)
(* never has more workers online than worker_slots, and the pool is what   *)
(* the probe hub takes it for (WorkerPresence). For any calls, session ids *)
(* and limits, and any workers that behave so: the hub's registry keeps its *)
(* types and limits, and its table of pending calls does not leak.         *)
(***************************************************************************)
EXTENDS WorkerPool, ProbeHub, FiniteSetTheorems, TLAPS

-----------------------------------------------------------------------------
(* The pool.                                                                *)

(* Registration by registration, TypeOK says more than types: it ties every *)
(* pooled connection to its id and to a goroutine that has not unregistered *)
(* it. That is what keeps Unregister from removing another connection.      *)
LEMMA TypeStep == ASSUME TypeOK, [Next]_vars PROVE TypeOK'
<1> USE WorkerPoolAssumption DEF TypeOK
<1>1. ASSUME NEW c \in Conns, Register(c) PROVE TypeOK'
  <2>1. CASE QuotaAdmits BY <1>1, <2>1 DEF Register
  <2>2. CASE ~QuotaAdmits BY <1>1, <2>2 DEF Register
  <2> QED BY <2>1, <2>2
<1>2. ASSUME NEW c \in Conns, Leave(c) \/ LoseSessions(c) PROVE TypeOK'
  BY <1>2 DEF Leave, LoseSessions
<1>3. ASSUME NEW c \in Conns, Unregister(c) PROVE TypeOK'
  BY <1>3 DEF Unregister
<1>4. ASSUME NEW c \in Conns, Shutdown(c) PROVE TypeOK'
  BY <1>4 DEF Shutdown
<1>5. ASSUME NEW c \in Conns, Heartbeat(c) PROVE TypeOK'
  BY <1>5 DEF Heartbeat
<1>6. ASSUME NEW c \in Conns, GrowStale(c) \/ LinkFails(c) PROVE TypeOK'
  BY <1>6 DEF GrowStale, LinkFails
<1>7. ASSUME ReapStaleWorkers PROVE TypeOK'
  BY <1>7 DEF ReapStaleWorkers, Stale, Online
<1>8. CASE UNCHANGED vars BY <1>8 DEF vars
<1> QED BY <1>1, <1>2, <1>3, <1>4, <1>5, <1>6, <1>7, <1>8 DEF Next, Serve

(* Two connections of an id are never both live, because the one that is    *)
(* replaced is shut down in the same step; and nobody takes a connection    *)
(* out of the pool without shutting it down, but its own goroutine.         *)
LEMMA LiveStep ==
  ASSUME TypeOK, LiveConnIsPooled, [Next]_vars PROVE LiveConnIsPooled'
<1> USE WorkerPoolAssumption DEF TypeOK, LiveConnIsPooled
<1>1. ASSUME NEW c \in Conns, Register(c) PROVE LiveConnIsPooled'
  <2> SUFFICES ASSUME NEW d \in Conns, conn'[d] = "serving", d \notin closed'
               PROVE pool'[IdOf[d]] = d
    OBVIOUS
  <2>1. CASE QuotaAdmits
    <3>1. CASE d = c BY <1>1, <2>1, <3>1 DEF Register
    <3>2. CASE d # c
      <4>1. conn[d] = "serving" /\ d \notin closed BY <1>1, <2>1, <3>2 DEF Register
      <4>2. pool[IdOf[d]] = d BY <4>1
      <4>3. IdOf[d] # IdOf[c] BY <1>1, <4>2 DEF Register
      <4> QED BY <1>1, <2>1, <4>2, <4>3 DEF Register
    <3> QED BY <3>1, <3>2
  <2>2. CASE ~QuotaAdmits
    BY <1>1, <2>2 DEF Register
  <2> QED BY <2>1, <2>2
<1>2. ASSUME NEW c \in Conns, Leave(c) \/ LoseSessions(c) PROVE LiveConnIsPooled'
  BY <1>2 DEF Leave, LoseSessions
<1>3. ASSUME NEW c \in Conns, Unregister(c) PROVE LiveConnIsPooled'
  BY <1>3 DEF Unregister
<1>4. ASSUME NEW c \in Conns, Shutdown(c) PROVE LiveConnIsPooled'
  BY <1>4 DEF Shutdown
<1>5. ASSUME NEW c \in Conns, Heartbeat(c) \/ GrowStale(c) \/ LinkFails(c)
      PROVE LiveConnIsPooled'
  BY <1>5 DEF Heartbeat, GrowStale, LinkFails
<1>6. ASSUME ReapStaleWorkers PROVE LiveConnIsPooled'
  BY <1>6 DEF ReapStaleWorkers, Stale, Online
<1>7. CASE UNCHANGED vars BY <1>7 DEF vars
<1> QED BY <1>1, <1>2, <1>3, <1>4, <1>5, <1>6, <1>7 DEF Next, Serve

(* A step that brings no id online respects the quota.                      *)
LEMMA OnlineShrinks ==
  ASSUME SlotsRespected, Online' \subseteq Online PROVE SlotsRespected'
<1>1. IsFiniteSet(Online)
  BY FS_Subset, WorkerPoolAssumption DEF Online
<1>2. IsFiniteSet(Online')
  BY <1>1, FS_Subset
<1>3. Cardinality(Online') <= Cardinality(Online)
  BY <1>1, FS_Subset
<1>4. Cardinality(Online) \in Nat /\ Cardinality(Online') \in Nat
  BY <1>1, <1>2, FS_CardinalityType
<1> QED BY <1>3, <1>4, WorkerPoolAssumption DEF SlotsRespected

(* Only a registration brings an id online, and it has counted it.          *)
LEMMA SlotsStep ==
  ASSUME TypeOK, SlotsRespected, [Next]_vars PROVE SlotsRespected'
<1> USE WorkerPoolAssumption DEF TypeOK
<1>1. ASSUME NEW c \in Conns, Register(c) PROVE SlotsRespected'
  <2>1. CASE QuotaAdmits
    <3>1. IsFiniteSet(Online) BY FS_Subset DEF Online
    <3>2. Online' \subseteq Online \cup {IdOf[c]} BY <1>1, <2>1 DEF Register, Online
    <3> DEFINE More == Online \cup {IdOf[c]}
    <3>3. IsFiniteSet(More) /\ Cardinality(More) <= Cardinality(Online) + 1
      <4>1. /\ IsFiniteSet(More)
            /\ Cardinality(More) = IF IdOf[c] \in Online THEN Cardinality(Online)
                                   ELSE Cardinality(Online) + 1
        BY <3>1, FS_AddElement
      <4>2. Cardinality(Online) \in Nat BY <3>1, FS_CardinalityType
      <4> HIDE DEF More
      <4> QED BY <4>1, <4>2
    <3>4. /\ IsFiniteSet(Online')
          /\ Cardinality(Online') <= Cardinality(More)
      BY <3>2, <3>3, FS_Subset
    <3>5. /\ Cardinality(Online) \in Nat /\ Cardinality(Online') \in Nat
          /\ Cardinality(More) \in Nat
      BY <3>1, <3>3, <3>4, FS_CardinalityType
    <3> QED BY <2>1, <3>3, <3>4, <3>5 DEF QuotaAdmits, SlotsRespected
  <2>2. CASE ~QuotaAdmits
    <3>1. Online' = Online BY <1>1, <2>2 DEF Register, Online
    <3> QED BY <3>1, OnlineShrinks
  <2> QED BY <2>1, <2>2
<1>2. ASSUME NEW c \in Conns, Unregister(c) PROVE SlotsRespected'
  <2>1. Online' \subseteq Online BY <1>2 DEF Unregister, Online
  <2> QED BY <2>1, OnlineShrinks
<1>3. ASSUME ReapStaleWorkers PROVE SlotsRespected'
  <2>1. Online' \subseteq Online BY <1>3 DEF ReapStaleWorkers, Stale, Online
  <2> QED BY <2>1, OnlineShrinks
<1>4. ASSUME UNCHANGED pool PROVE SlotsRespected'
  BY <1>4, OnlineShrinks DEF Online
<1> QED
  BY <1>1, <1>2, <1>3, <1>4
  DEF Next, Serve, Leave, LoseSessions, Shutdown, Heartbeat, GrowStale, LinkFails, vars

(* The types, and what TypeOK says of pooled connections, for every set of  *)
(* connections and ids.                                                     *)
THEOREM TypeCorrect == Spec => []TypeOK
<1>1. Init => TypeOK BY WorkerPoolAssumption DEF Init, TypeOK
<1>2. TypeOK /\ [Next]_vars => TypeOK' BY TypeStep
<1> QED BY <1>1, <1>2, PTL DEF Spec

(* A worker that reconnects is never left outside the pool by its           *)
(* predecessor's goroutine (Unregister compares pointers), and two          *)
(* connections of an id are never both live.                                *)
THEOREM LiveConnsArePooled == Spec => []LiveConnIsPooled
<1>1. Init => LiveConnIsPooled BY DEF Init, LiveConnIsPooled
<1>2. TypeOK /\ LiveConnIsPooled /\ [Next]_vars => LiveConnIsPooled' BY LiveStep
<1> QED BY TypeCorrect, <1>1, <1>2, PTL DEF Spec

(* The tenant never has more workers online than worker_slots: the count    *)
(* and the registration are made under one write lock.                      *)
THEOREM SlotsAreRespected == Spec => []SlotsRespected
<1>1. Init => SlotsRespected
  BY FS_EmptySet, WorkerPoolAssumption DEF Init, SlotsRespected, Online
<1>2. TypeOK /\ SlotsRespected /\ [Next]_vars => SlotsRespected' BY SlotsStep
<1> QED BY TypeCorrect, <1>1, <1>2, PTL DEF Spec

-----------------------------------------------------------------------------
(* The pool as the probe hub sees it.                                       *)

(* The connections whose disconnect the hub has not been told of.           *)
Serving == {"serving", "leaving"}
Untold(i) == {c \in Conns : IdOf[c] = i /\ conn[c] \in Serving}

(* Only finitely many connections have been registered at any time, however *)
(* many there will be: each step starts at most one.                        *)
FinitelyUntold == \A i \in Ids : IsFiniteSet(Untold(i))

LEMMA OwedIsCount ==
  Owed = [i \in Ids |-> Cardinality(Untold(i))]
BY DEF Owed, Untold, Serving

LEMMA OwedIsCountNext ==
  Owed' = [i \in Ids |-> Cardinality(Untold(i)')]
BY DEF Owed, Untold, Serving

(* A step that leaves every goroutine on its side of the deferred call is   *)
(* invisible in Owed.                                                       *)
LEMMA SameUntold ==
  ASSUME \A c \in Conns : conn'[c] \in Serving <=> conn[c] \in Serving
  PROVE  \A i \in Ids : Untold(i)' = Untold(i)
BY DEF Untold

(* A step of the goroutine of one connection only.                          *)
LEMMA UntoldMore ==
  ASSUME NEW c \in Conns, TypeOK, conn' = [conn EXCEPT ![c] = "serving"], conn[c] = "new"
  PROVE  /\ c \notin Untold(IdOf[c]) /\ Untold(IdOf[c])' = Untold(IdOf[c]) \cup {c}
         /\ \A i \in Ids \ {IdOf[c]} : Untold(i)' = Untold(i)
BY DEF Untold, Serving, TypeOK

LEMMA UntoldLess ==
  ASSUME NEW c \in Conns, TypeOK, conn' = [conn EXCEPT ![c] = "told"], conn[c] = "leaving"
  PROVE  /\ c \in Untold(IdOf[c]) /\ Untold(IdOf[c])' = Untold(IdOf[c]) \ {c}
         /\ \A i \in Ids \ {IdOf[c]} : Untold(i)' = Untold(i)
BY DEF Untold, Serving, TypeOK

LEMMA FinitelyUntoldStep ==
  ASSUME TypeOK, FinitelyUntold, [Next]_vars PROVE FinitelyUntold'
<1> USE WorkerPoolAssumption
<1>1. ASSUME NEW c \in Conns, Register(c) PROVE FinitelyUntold'
  <2>1. CASE QuotaAdmits
    <3>1. conn' = [conn EXCEPT ![c] = "serving"] /\ conn[c] = "new"
      BY <1>1, <2>1 DEF Register
    <3>2. IdOf[c] \in Ids OBVIOUS
    <3>3. IsFiniteSet(Untold(IdOf[c]) \cup {c})
      BY <3>2, FS_AddElement DEF FinitelyUntold
    <3> QED BY <3>1, <3>3, UntoldMore DEF FinitelyUntold
  <2>2. CASE ~QuotaAdmits
    <3>1. conn' = [conn EXCEPT ![c] = "gone"] /\ conn[c] = "new"
      BY <1>1, <2>2 DEF Register
    <3>2. \A d \in Conns : conn'[d] \in Serving <=> conn[d] \in Serving
      BY <3>1 DEF TypeOK, Serving
    <3> QED BY <3>2, SameUntold DEF FinitelyUntold
  <2> QED BY <2>1, <2>2
<1>2. ASSUME NEW c \in Conns, LoseSessions(c) PROVE FinitelyUntold'
  <2>1. conn' = [conn EXCEPT ![c] = "told"] /\ conn[c] = "leaving"
    BY <1>2 DEF LoseSessions
  <2>2. IdOf[c] \in Ids OBVIOUS
  <2>3. IsFiniteSet(Untold(IdOf[c]) \ {c})
    BY <2>2, FS_RemoveElement DEF FinitelyUntold
  <2> QED BY <2>1, <2>3, UntoldLess DEF FinitelyUntold
<1>3. ASSUME \A c \in Conns : conn'[c] \in Serving <=> conn[c] \in Serving
      PROVE FinitelyUntold'
  BY <1>3, SameUntold DEF FinitelyUntold
<1>4. ASSUME NEW c \in Conns, Leave(c) \/ Unregister(c) \/ Shutdown(c) \/ Heartbeat(c)
      PROVE FinitelyUntold'
  BY <1>3, <1>4 DEF Leave, Unregister, Shutdown, Heartbeat, Serving, TypeOK
<1>5. ASSUME UNCHANGED conn PROVE FinitelyUntold'
  BY <1>3, <1>5
<1> QED
  BY <1>1, <1>2, <1>4, <1>5
  DEF Next, Serve, GrowStale, LinkFails, ReapStaleWorkers, vars

LEMMA SameOwed ==
  ASSUME \A i \in Ids : Untold(i)' = Untold(i) PROVE Owed' = Owed
BY OwedIsCount, OwedIsCountNext

LEMMA OwedMore ==
  ASSUME TypeOK, FinitelyUntold,
         NEW c \in Conns, conn' = [conn EXCEPT ![c] = "serving"], conn[c] = "new"
  PROVE  Owed' = [Owed EXCEPT ![IdOf[c]] = @ + 1]
<1> DEFINE i == IdOf[c]
<1>1. i \in Ids BY WorkerPoolAssumption
<1>2. Cardinality(Untold(i)') = Cardinality(Untold(i)) + 1
  <2>1. IsFiniteSet(Untold(i)) BY <1>1 DEF FinitelyUntold
  <2>2. c \notin Untold(i) /\ Untold(i)' = Untold(i) \cup {c} BY UntoldMore
  <2> HIDE DEF i
  <2> QED BY <2>1, <2>2, FS_AddElement
<1>3. \A j \in Ids \ {i} : Cardinality(Untold(j)') = Cardinality(Untold(j))
  BY UntoldMore
<1> HIDE DEF i
<1> QED BY <1>1, <1>2, <1>3, OwedIsCount, OwedIsCountNext DEF i

LEMMA OwedLess ==
  ASSUME TypeOK, FinitelyUntold,
         NEW c \in Conns, conn' = [conn EXCEPT ![c] = "told"], conn[c] = "leaving"
  PROVE  Owed[IdOf[c]] > 0 /\ Owed' = [Owed EXCEPT ![IdOf[c]] = @ - 1]
<1> DEFINE i == IdOf[c]
<1>1. i \in Ids BY WorkerPoolAssumption
<1>2. Cardinality(Untold(i)') = Cardinality(Untold(i)) - 1
  BY <1>1, UntoldLess, FS_RemoveElement DEF FinitelyUntold
<1>3. Cardinality(Untold(i)) \in Nat /\ Cardinality(Untold(i)) # 0
  BY <1>1, UntoldLess, FS_CardinalityType, FS_EmptySet DEF FinitelyUntold
<1>4. \A j \in Ids \ {i} : Cardinality(Untold(j)') = Cardinality(Untold(j))
  BY UntoldLess
<1> HIDE DEF i
<1>5. Owed[i] > 0 BY <1>1, <1>3, OwedIsCount
<1>6. Owed' = [Owed EXCEPT ![i] = @ - 1]
  BY <1>1, <1>2, <1>4, OwedIsCount, OwedIsCountNext
<1> QED BY <1>5, <1>6 DEF i

(* Every step of the pool is a step of the hub's picture of it, or none.    *)
LEMMA PresenceStep ==
  ASSUME TypeOK, FinitelyUntold, [Next]_vars
  PROVE  [Presence!PresenceNext]_(Presence!presence)
<1> USE WorkerPoolAssumption
<1> DEFINE Seen == [Presence!PresenceNext]_(Presence!presence)
<1>a. ASSUME Online' = Online, Owed' = Owed PROVE Seen
  BY <1>a DEF Presence!presence
<1>b. ASSUME Online' \subseteq Online, Owed' = Owed PROVE Seen
  <2> DEFINE gone == Online \ Online'
  <2>1. CASE gone = {}
    BY <1>a, <1>b, <2>1
  <2>2. CASE gone # {}
    <3>1. gone \in SUBSET Online /\ Online' = Online \ gone BY <1>b
    <3>2. Presence!Vanish(gone) BY <1>b, <2>2, <3>1 DEF Presence!Vanish
    <3> QED BY <3>1, <3>2 DEF Presence!PresenceNext
  <2> QED BY <2>1, <2>2
<1>c. ASSUME \A c \in Conns : conn'[c] \in Serving <=> conn[c] \in Serving
      PROVE Owed' = Owed
  BY <1>c, SameUntold, SameOwed
<1>1. ASSUME NEW c \in Conns, Register(c) PROVE Seen
  <2>1. CASE QuotaAdmits
    <3>1. IdOf[c] \in Ids OBVIOUS
    <3>2. Online' = Online \cup {IdOf[c]} BY <1>1, <2>1 DEF Register, Online, TypeOK
    <3>3. Owed' = [Owed EXCEPT ![IdOf[c]] = @ + 1]
      BY <1>1, <2>1, OwedMore DEF Register
    <3>4. Presence!Appear(IdOf[c]) BY <3>2, <3>3 DEF Presence!Appear
    <3> QED BY <3>1, <3>4 DEF Presence!PresenceNext
  <2>2. CASE ~QuotaAdmits
    <3>1. Online' = Online BY <1>1, <2>2 DEF Register, Online
    <3>2. \A d \in Conns : conn'[d] \in Serving <=> conn[d] \in Serving
      BY <1>1, <2>2 DEF Register, TypeOK, Serving
    <3> QED BY <1>a, <1>c, <3>1, <3>2
  <2> QED BY <2>1, <2>2
<1>2. ASSUME NEW c \in Conns, LoseSessions(c) PROVE Seen
  <2>1. IdOf[c] \in Ids OBVIOUS
  <2>2. Online' = Online BY <1>2 DEF LoseSessions, Online
  <2>3. Owed[IdOf[c]] > 0 /\ Owed' = [Owed EXCEPT ![IdOf[c]] = @ - 1]
    BY <1>2, OwedLess DEF LoseSessions
  <2>4. Presence!Disconnect(IdOf[c]) BY <2>2, <2>3 DEF Presence!Disconnect
  <2> QED BY <2>1, <2>4 DEF Presence!PresenceNext
<1>3. ASSUME NEW c \in Conns, Unregister(c) PROVE Seen
  <2>1. Online' \subseteq Online BY <1>3 DEF Unregister, Online
  <2>2. \A d \in Conns : conn'[d] \in Serving <=> conn[d] \in Serving
    BY <1>3 DEF Unregister, TypeOK, Serving
  <2> QED BY <1>b, <1>c, <2>1, <2>2
<1>4. ASSUME NEW c \in Conns,
             Leave(c) \/ Shutdown(c) \/ Heartbeat(c) \/ GrowStale(c) \/ LinkFails(c)
      PROVE Seen
  <2>1. Online' = Online
    BY <1>4 DEF Leave, Shutdown, Heartbeat, GrowStale, LinkFails, Online
  <2>2. \A d \in Conns : conn'[d] \in Serving <=> conn[d] \in Serving
    BY <1>4 DEF Leave, Shutdown, Heartbeat, GrowStale, LinkFails, TypeOK, Serving
  <2> QED BY <1>a, <1>c, <2>1, <2>2
<1>5. ASSUME ReapStaleWorkers PROVE Seen
  <2>1. Online' \subseteq Online BY <1>5 DEF ReapStaleWorkers, Stale, Online
  <2>2. UNCHANGED conn BY <1>5 DEF ReapStaleWorkers
  <2> QED BY <1>b, <1>c, <2>1, <2>2
<1>6. ASSUME UNCHANGED vars PROVE Seen
  <2>1. Online' = Online /\ UNCHANGED conn BY <1>6 DEF vars, Online
  <2> QED BY <1>a, <1>c, <2>1
<1> HIDE DEF Seen
<1>7. ASSUME NEW c \in Conns, Serve(c) \/ GrowStale(c) \/ LinkFails(c) PROVE Seen
  BY <1>1, <1>2, <1>3, <1>4, <1>7 DEF Serve
<1>8. Next => Seen BY <1>5, <1>7 DEF Next
<1>9. Seen BY <1>6, <1>8
<1> QED BY <1>9 DEF Seen

(* The pool is what the probe hub relies on: the hub is told, once, of every *)
(* connection that was registered, and of no rejected one, while reconnects, *)
(* evictions and the reaper change what the id stands for.                  *)
THEOREM PoolImplementsPresence == Spec => ImplementsPresence
<1>1. Init => FinitelyUntold /\ Presence!PresenceInit
  <2> SUFFICES ASSUME Init PROVE FinitelyUntold /\ Presence!PresenceInit
    OBVIOUS
  <2>1. \A i \in Ids : Untold(i) = {} BY DEF Init, Untold, Serving
  <2>2. FinitelyUntold BY <2>1, FS_EmptySet DEF FinitelyUntold
  <2>3. Owed = [i \in Ids |-> 0] BY <2>1, FS_EmptySet, OwedIsCount
  <2>4. Online = {} BY DEF Init, Online
  <2> QED BY <2>2, <2>3, <2>4 DEF Presence!PresenceInit
<1>2. TypeOK /\ FinitelyUntold /\ [Next]_vars =>
        FinitelyUntold' /\ [Presence!PresenceNext]_(Presence!presence)
  BY FinitelyUntoldStep, PresenceStep
<1> QED
  BY TypeCorrect, <1>1, <1>2, PTL DEF Spec, ImplementsPresence, Presence!PresenceSpec

-----------------------------------------------------------------------------
(* The probe hub.                                                           *)

(* Who is named by a registry, a list or a program counter has begun: a     *)
(* session object is made by a call that has left "idle" for good, and a    *)
(* process in or after its round trip has a session id to look up.          *)
ObjectsAreOpened ==
  /\ \A i \in SessionIds : sessions[i] # None => pc[sessions[i]] # "idle"
  /\ \A o \in expired : pc[o] # "idle"
  /\ \A c \in Calls : pc[c] # "idle" => sid[c] \in SessionIds
  /\ pc[Sweeper] \notin {"idle", "next"} => sid[Sweeper] \in SessionIds

HubInv == HubTypeOK /\ ObjectsAreOpened

LEMMA HubInvStep == ASSUME HubInv, [HubNext]_hubVars PROVE HubInv'
<1> USE ProbeHubAssumption DEF HubInv, HubTypeOK, ObjectsAreOpened, Procs
<1> USE DEF registry, presence, sweep, hub, Go
<1>1. ASSUME NEW c \in Calls, NEW i \in SessionIds, Open(c, i) PROVE HubInv'
  <2>1. /\ pc[c] = "idle" /\ sid' = [sid EXCEPT ![c] = i] /\ op' = [op EXCEPT ![c] = "open"]
        /\ pc' = [pc EXCEPT ![c] = "trip"] \/ pc' = [pc EXCEPT ![c] = "done"]
        /\ UNCHANGED <<idle, aged, pending, presence, sweep>>
    BY <1>1 DEF Open, Begin
  <2>2. CASE UNCHANGED <<sessions, home>>
    BY <2>1, <2>2
  <2>3. ASSUME NEW w \in Workers, sessions' = [sessions EXCEPT ![i] = c],
               home' = [home EXCEPT ![c] = w], pc' = [pc EXCEPT ![c] = "trip"]
        PROVE HubInv'
    BY <2>1, <2>3
  <2> QED BY <1>1, <2>2, <2>3 DEF Open
<1>2. ASSUME NEW c \in Calls, NEW i \in SessionIds, Act(c, i) \/ Close(c, i) PROVE HubInv'
  BY <1>2 DEF Act, Close, Begin
<1>3. ASSUME NEW c \in Calls, AfterCall(c) PROVE HubInv'
  BY <1>3 DEF AfterCall, Returned
<1>4. ASSUME NEW c \in Calls, GrowIdle(c) \/ GrowOld(c) PROVE HubInv'
  BY <1>4 DEF GrowIdle, GrowOld
<1>5. ASSUME NEW p \in Procs, Route(p) PROVE HubInv'
  BY <1>5 DEF Route
<1>6. ASSUME NEW p \in Procs, Send(p) \/ Deliver(p) \/ Timeout(p) \/ EndTrip(p)
      PROVE HubInv'
  BY <1>6 DEF Send, Deliver, Timeout, EndTrip
<1>7. ASSUME Collect PROVE HubInv'
  BY <1>7 DEF Collect, Registered
<1>8. ASSUME SweepNext PROVE HubInv'
  BY <1>8 DEF SweepNext
<1>9. ASSUME AfterSweep PROVE HubInv'
  BY <1>9 DEF AfterSweep, Returned
<1>10. ASSUME NEW w \in Workers, WorkerAppears(w) \/ OnWorkerDisconnect(w) PROVE HubInv'
  BY <1>10 DEF WorkerAppears, Appear, OnWorkerDisconnect, Disconnect
<1>11. ASSUME NEW gone \in SUBSET present, WorkersVanish(gone) PROVE HubInv'
  BY <1>11 DEF WorkersVanish, Vanish
<1>12. ASSUME UNCHANGED hubVars PROVE HubInv'
  BY <1>12 DEF hubVars
<1> HIDE DEF HubInv
<1>13. HubNext => HubInv'
  BY <1>1, <1>2, <1>3, <1>4, <1>5, <1>6, <1>7, <1>8, <1>9, <1>10, <1>11 DEF HubNext, Trip
<1> QED BY <1>12, <1>13

(* Only an Open that found its id free registers an object, its own, at a   *)
(* worker with room; every other step leaves the registry as it is or takes *)
(* objects out of it.                                                       *)
LEMMA RegistryStep ==
  ASSUME HubInv, [HubNext]_hubVars
  PROVE  \/ \E c \in Calls, w \in Workers :
              /\ c \notin Registered /\ Registered' = Registered \cup {c}
              /\ ~TenantFull /\ HasRoom(w) /\ home' = [home EXCEPT ![c] = w]
         \/ Registered' \subseteq Registered /\ home' = home
<1> USE ProbeHubAssumption DEF HubInv, HubTypeOK, ObjectsAreOpened, Procs
<1> USE DEF registry, presence, sweep, hub
<1> DEFINE Opens == \E c \in Calls, w \in Workers :
              /\ c \notin Registered /\ Registered' = Registered \cup {c}
              /\ ~TenantFull /\ HasRoom(w) /\ home' = [home EXCEPT ![c] = w]
           Shrinks == Registered' \subseteq Registered /\ home' = home
<1>a. ASSUME UNCHANGED <<sessions, home>> PROVE Shrinks
  BY <1>a DEF Registered
<1>b. ASSUME home' = home,
             \A i \in SessionIds : sessions'[i] \in {sessions[i], None}
      PROVE Shrinks
  BY <1>b DEF Registered
<1>1. ASSUME NEW c \in Calls, NEW i \in SessionIds, Open(c, i) PROVE Opens \/ Shrinks
  <2>1. CASE UNCHANGED <<sessions, home>>
    BY <1>a, <2>1
  <2>2. ASSUME NEW w \in Workers, HasRoom(w), ~TenantFull, sessions[i] = None,
               sessions' = [sessions EXCEPT ![i] = c], home' = [home EXCEPT ![c] = w]
        PROVE Opens
    <3>1. c \notin Registered BY <1>1 DEF Open, Begin, Registered
    <3>2. Registered' = Registered \cup {c} BY <2>2 DEF Registered
    <3> QED BY <2>2, <3>1, <3>2
  <2> QED BY <1>1, <2>1, <2>2 DEF Open
<1>2. ASSUME NEW c \in Calls, NEW i \in SessionIds, Act(c, i) \/ Close(c, i) PROVE Shrinks
  BY <1>2, <1>a DEF Act, Close
<1>3. ASSUME NEW c \in Calls, AfterCall(c) PROVE Shrinks
  BY <1>3, <1>b DEF AfterCall
<1>4. ASSUME NEW p \in Procs, Trip(p) PROVE Shrinks
  BY <1>4, <1>a, <1>b DEF Trip, Route, Send, Deliver, Timeout, EndTrip
<1>5. ASSUME Collect \/ SweepNext PROVE Shrinks
  BY <1>5, <1>a DEF Collect, SweepNext
<1>6. ASSUME AfterSweep PROVE Shrinks
  BY <1>6, <1>b DEF AfterSweep
<1>7. ASSUME NEW w \in Workers, WorkerAppears(w) \/ OnWorkerDisconnect(w) PROVE Shrinks
  BY <1>7, <1>a, <1>b DEF WorkerAppears, OnWorkerDisconnect
<1>8. ASSUME NEW gone \in SUBSET present, WorkersVanish(gone) PROVE Shrinks
  BY <1>8, <1>a DEF WorkersVanish
<1>9. ASSUME UNCHANGED hubVars PROVE Shrinks
  BY <1>9, <1>a DEF hubVars
<1>10. ASSUME NEW c \in Calls, GrowIdle(c) \/ GrowOld(c) PROVE Shrinks
  BY <1>10, <1>a DEF GrowIdle, GrowOld
<1> HIDE DEF Opens, Shrinks
<1>11. HubNext => Opens \/ Shrinks
  BY <1>1, <1>2, <1>3, <1>4, <1>5, <1>6, <1>7, <1>8, <1>10 DEF HubNext
<1> QED BY <1>9, <1>11 DEF Opens, Shrinks

(* Registered objects are finitely many, one per session id at most.        *)
LEMMA RegisteredFinite == IsFiniteSet(Registered) /\ IsFiniteSet(Registered)'
<1>1. ASSUME NEW f PROVE IsFiniteSet({f[i] : i \in SessionIds})
  <2> DEFINE g == [i \in SessionIds |-> f[i]]
             img == {f[i] : i \in SessionIds}
  <2>1. g \in Surjection(SessionIds, img) BY DEF Surjection
  <2> HIDE DEF g, img
  <2> QED BY <2>1, ProbeHubAssumption, FS_Surjection DEF img
<1>2. IsFiniteSet({sessions[i] : i \in SessionIds}) BY <1>1
<1>3. IsFiniteSet({sessions'[i] : i \in SessionIds}) BY <1>1
<1> QED BY <1>2, <1>3, FS_RemoveElement DEF Registered

(* The sessions of the tenant never exceed its limit.                       *)
TenantLimit == Cardinality(Registered) <= MaxPerTenant

LEMMA WorkerLimitStep ==
  ASSUME HubInv, WorkerLimit, [HubNext]_hubVars PROVE WorkerLimit'
<1> SUFFICES ASSUME NEW v \in Workers PROVE Cardinality(On(v)') <= MaxPerWorker
  BY DEF WorkerLimit
<1>1. IsFiniteSet(On(v)) /\ IsFiniteSet(On(v)')
  BY RegisteredFinite, FS_Subset DEF On
<1>2. /\ Cardinality(On(v)) \in Nat /\ Cardinality(On(v)') \in Nat
      /\ Cardinality(On(v)) <= MaxPerWorker
  BY <1>1, FS_CardinalityType DEF WorkerLimit
<1>3. ASSUME On(v)' \subseteq On(v) PROVE Cardinality(On(v)') <= MaxPerWorker
  BY <1>1, <1>2, <1>3, FS_Subset, ProbeHubAssumption
<1>4. ASSUME NEW c \in Calls, NEW w \in Workers, c \notin Registered,
             Registered' = Registered \cup {c}, HasRoom(w), home' = [home EXCEPT ![c] = w]
      PROVE Cardinality(On(v)') <= MaxPerWorker
  <2>1. CASE v = w
    <3>1. On(v)' = On(v) \cup {c} /\ c \notin On(v)
      BY <1>4, <2>1 DEF On, HubInv, HubTypeOK, Registered
    <3>2. Cardinality(On(v)') = Cardinality(On(v)) + 1 BY <1>1, <3>1, FS_AddElement
    <3> QED BY <1>2, <1>4, <2>1, <3>2, ProbeHubAssumption DEF HasRoom
  <2>2. CASE v # w
    <3>1. On(v)' \subseteq On(v)
      <4>1. home'[c] = w BY <1>4 DEF HubInv, HubTypeOK
      <4>2. \A o \in Registered : home'[o] = home[o]
        BY <1>4 DEF HubInv, HubTypeOK, Registered
      <4> QED BY <1>4, <2>2, <4>1, <4>2 DEF On
    <3> QED BY <1>3, <3>1
  <2> QED BY <2>1, <2>2
<1>5. ASSUME Registered' \subseteq Registered, home' = home
      PROVE Cardinality(On(v)') <= MaxPerWorker
  BY <1>3, <1>5 DEF On
<1> QED BY <1>4, <1>5, RegistryStep

LEMMA TenantLimitStep ==
  ASSUME HubInv, TenantLimit, [HubNext]_hubVars PROVE TenantLimit'
<1>1. /\ Cardinality(Registered) \in Nat /\ Cardinality(Registered') \in Nat
      /\ Cardinality(Registered) <= MaxPerTenant
  BY RegisteredFinite, FS_CardinalityType DEF TenantLimit
<1>2. ASSUME Registered' \subseteq Registered PROVE TenantLimit'
  BY <1>1, <1>2, RegisteredFinite, FS_Subset, ProbeHubAssumption DEF TenantLimit
<1>3. ASSUME NEW c \in Calls, c \notin Registered, Registered' = Registered \cup {c},
             ~TenantFull
      PROVE TenantLimit'
  <2>1. Cardinality(Registered') = Cardinality(Registered) + 1
    BY <1>3, RegisteredFinite, FS_AddElement
  <2> QED BY <1>1, <1>3, <2>1, ProbeHubAssumption DEF TenantLimit, TenantFull
<1> QED BY <1>2, <1>3, RegistryStep

(* An entry of the pending table is put there by Route and taken out on     *)
(* every way out of the round trip, at the latest by the deferred delete.   *)
LEMMA PendingStep ==
  ASSUME HubInv, NoPendingLeak, [HubNext]_hubVars PROVE NoPendingLeak'
<1> USE ProbeHubAssumption DEF HubInv, HubTypeOK, Procs, NoPendingLeak
<1> USE DEF registry, presence, sweep, hub, Go
<1>1. ASSUME NEW c \in Calls, NEW i \in SessionIds, Open(c, i) \/ Act(c, i) \/ Close(c, i)
      PROVE NoPendingLeak'
  BY <1>1 DEF Open, Act, Close, Begin
<1>2. ASSUME NEW c \in Calls, AfterCall(c) \/ GrowIdle(c) \/ GrowOld(c)
      PROVE NoPendingLeak'
  BY <1>2 DEF AfterCall, Returned, GrowIdle, GrowOld
<1>3. ASSUME NEW p \in Procs, Trip(p) PROVE NoPendingLeak'
  BY <1>3 DEF Trip, Route, Send, Deliver, Timeout, EndTrip
<1>4. ASSUME Collect \/ SweepNext \/ AfterSweep PROVE NoPendingLeak'
  BY <1>4 DEF Collect, SweepNext, AfterSweep, Returned
<1>5. ASSUME UNCHANGED <<pending, pc>> PROVE NoPendingLeak'
  BY <1>5
<1> HIDE DEF NoPendingLeak
<1>6. HubNext => NoPendingLeak'
  BY <1>1, <1>2, <1>3, <1>4, <1>5
  DEF HubNext, WorkerAppears, OnWorkerDisconnect, WorkersVanish
<1> QED BY <1>5, <1>6 DEF hubVars

(* The hub's types, and that what the registry, the sweeper's list and the  *)
(* calls under way name was opened before, for every number of calls.       *)
THEOREM HubTypeCorrect == HubSpec => []HubTypeOK
<1>1. HubInit => HubInv
  BY ProbeHubAssumption
  DEF HubInit, HubInv, HubTypeOK, ObjectsAreOpened, PresenceInit, Procs
<1>2. HubInv /\ [HubNext]_hubVars => HubInv' BY HubInvStep
<1> QED BY <1>1, <1>2, PTL DEF HubSpec, HubInv

(* No worker ever holds more browser sessions than probe_max_per_worker,    *)
(* and the tenant no more than its limit: Open counts and registers in one  *)
(* section of the mutex, and nothing else adds a session.                   *)
THEOREM LimitsHold == HubSpec => [](WorkerLimit /\ TenantLimit)
<1>1. HubInit => HubInv
  BY ProbeHubAssumption
  DEF HubInit, HubInv, HubTypeOK, ObjectsAreOpened, PresenceInit, Procs
<1>2. HubInit => WorkerLimit /\ TenantLimit
  <2> SUFFICES ASSUME HubInit PROVE WorkerLimit /\ TenantLimit
    OBVIOUS
  <2>1. Registered = {} BY DEF HubInit, Registered
  <2>2. \A w \in Workers : On(w) = {} BY <2>1 DEF On
  <2> QED BY <2>1, <2>2, FS_EmptySet, ProbeHubAssumption DEF WorkerLimit, TenantLimit
<1>3. /\ HubInv /\ WorkerLimit /\ TenantLimit /\ [HubNext]_hubVars
      => HubInv' /\ WorkerLimit' /\ TenantLimit'
  BY HubInvStep, WorkerLimitStep, TenantLimitStep
<1> QED BY <1>1, <1>2, <1>3, PTL DEF HubSpec

(* The pending table holds calls in their round trip only, however replies, *)
(* timeouts and disconnects fall.                                           *)
THEOREM PendingDoesNotLeak == HubSpec => []NoPendingLeak
<1>1. HubInit => HubInv /\ NoPendingLeak
  BY ProbeHubAssumption
  DEF HubInit, HubInv, HubTypeOK, ObjectsAreOpened, PresenceInit, Procs, NoPendingLeak
<1>2. HubInv /\ NoPendingLeak /\ [HubNext]_hubVars => HubInv' /\ NoPendingLeak'
  BY HubInvStep, PendingStep
<1> QED BY <1>1, <1>2, PTL DEF HubSpec
=============================================================================
