------------------------- MODULE ProjectTreeProofs -------------------------
(***************************************************************************)
(* What ProjectTree guarantees, for any number of requests, entities and   *)
(* nodes and any places of insertion: its types, that paths go on          *)
(* following parents through every step but the insertion or move of an    *)
(* overtaken request, that the deletion of a folder takes its subtree or   *)
(* nothing, and that insertions keep siblings numbered.                    *)
(*                                                                         *)
(* That the paths agree is kept step by step (PathsKeptBy...). The         *)
(* deletion needs more: that the nodes a path selects are those displayed  *)
(* below the folder. WaysHold says where a node is by its path alone, each *)
(* id of the path a folder whose own path is what the path has up to       *)
(* there; it follows when the paths agree (AgreeingWaysHold).              *)
(***************************************************************************)
EXTENDS ProjectTree, FiniteSetTheorems, SequenceTheorems, TLAPS

\* The requests that have read a parent's path, and those that have a node.
Structural == {"moveRead", "aiMovePath", "moveTx", "deleteTx"}
Destined == {"count", "insert", "createTx", "check", "mountTx", "moveRead", "moveTx"}

\* What a request x has read and checked, which stays as it is while x waits: the
\* path of its node ends with the node, and the path a move leads to does not
\* lead through it.
Checked(x) ==
  /\ x.at \in {"aiMovePath", "moveTx"} => Len(x.old) # 0 /\ x.old[Len(x.old)] = x.node
  /\ x.at = "moveTx" => ~IntoItself(x.path, x.old)
  /\ x.at = "deleteTx" => Len(x.path) # 0 /\ x.path[Len(x.path)] = x.node

Tree == TypeOK /\ \A r \in Requests : Checked(req[r])

-----------------------------------------------------------------------------
(* What has a type.                                                         *)

LEMMA RequestFields ==
  ASSUME NEW x \in Request
  PROVE  /\ x.at \in Destined => x.parent \in Parents /\ x.path \in Seq(Ids)
         /\ x.at \in {"count", "createTx", "insert", "aiPath", "path", "check", "mountTx"}
              => x.ref \in Refs /\ x.parent \in Parents
         /\ x.at \in {"path", "check", "mountTx", "moveRead"} => x.index \in Indexes
         /\ x.at = "moveTx" => x.index \in Indexes \cup {None}
         /\ x.at = "insert" => x.order \in Nat
         /\ x.at \in Structural => x.node \in Ids
         /\ x.at \in {"aiMovePath", "moveTx"} => x.parent \in Parents /\ x.old \in Seq(Ids)
         /\ x.at = "aiMovePath" => x.from \in Parents
         /\ x.at = "deleteTx" => x.path \in Seq(Ids)
<1>1. CASE x = Idle BY <1>1 DEF Idle, Destined, Structural
<1>2. CASE x \in Creation BY <1>2 DEF Creation, Destined, Structural
<1>3. CASE x \in Mounting BY <1>3 DEF Mounting, Destined, Structural
<1>4. CASE x \in Moving BY <1>4 DEF Moving, Destined, Structural
<1>5. CASE x \in Deletion BY <1>5 DEF Deletion, Destined, Structural
<1> QED BY <1>1, <1>2, <1>3, <1>4, <1>5 DEF Request

\* The rows, one by one.
LEMMA RowFields ==
  ASSUME TypeOK, NEW n \in DOMAIN nodes
  PROVE  /\ n \in Ids /\ n \in 1 .. lastId
         /\ nodes[n] \in Row
         /\ nodes[n].parent \in Parents /\ nodes[n].ref \in Refs /\ nodes[n].order \in Nat
         /\ nodes[n].path \in Seq(Ids)
         /\ Len(nodes[n].path) \in Nat \ {0}
         /\ nodes[n].path[Len(nodes[n].path)] = n
<1>1. nodes[n] \in Row BY DEF TypeOK
<1>2. nodes[n].path # <<>> /\ Last(nodes[n].path) = n BY DEF TypeOK
<1>3. lastId \in 0 .. MaxId /\ MaxId \in Nat BY ProjectTreeAssumption DEF TypeOK
<1>4. nodes[n].path \in Seq(Ids) BY <1>1 DEF Row
<1> QED BY <1>1, <1>2, <1>3, <1>4, EmptySeq DEF TypeOK, Row, Ids, Last

\* The path of whatever may hold a node.
LEMMA PathFields ==
  ASSUME TypeOK, NEW p \in Parents, MayHold(p)
  PROVE  PathOf(p) \in Seq(Ids) /\ Len(PathOf(p)) \in Nat
<1>1. CASE p = 0 BY <1>1, EmptySeq DEF PathOf
<1>2. CASE p # 0
  <2>1. p \in DOMAIN nodes BY <1>2 DEF MayHold, IsFolder
  <2> QED BY <1>2, <2>1, RowFields DEF PathOf
<1> QED BY <1>1, <1>2

LEMMA FiniteTable ==
  ASSUME TypeOK
  PROVE  /\ IsFiniteSet(DOMAIN nodes)
         /\ \A p : IsFiniteSet(ChildrenOf(p)) /\ ChildCount(p) \in Nat
<1>1. lastId \in Int BY ProjectTreeAssumption DEF TypeOK
<1>a. IsFiniteSet(1 .. lastId) BY <1>1, FS_Interval
<1>b. DOMAIN nodes \in SUBSET (1 .. lastId) BY DEF TypeOK
<1>2. IsFiniteSet(DOMAIN nodes) BY <1>a, <1>b, FS_Subset
<1>3. ASSUME NEW p PROVE IsFiniteSet(ChildrenOf(p)) /\ ChildCount(p) \in Nat
  <2>1. ChildrenOf(p) \in SUBSET DOMAIN nodes BY DEF ChildrenOf
  <2>2. IsFiniteSet(ChildrenOf(p)) BY <1>2, <2>1, FS_Subset
  <2> QED BY <2>2, FS_CardinalityType DEF ChildCount
<1> QED BY <1>2, <1>3

LEMMA OrderIsNatural ==
  ASSUME TypeOK, NEW i \in Indexes \cup {None}, NEW p
  PROVE  OrderFor(i, p) \in Nat
BY FiniteTable, ProjectTreeAssumption DEF ProjectTreeAssumption, OrderFor

\* Making room changes orders only.
LEMMA ShiftTyped ==
  ASSUME TypeOK, NEW S
  PROVE  /\ Shift(S) \in [DOMAIN nodes -> Row]
         /\ \A n \in DOMAIN nodes :
              /\ Shift(S)[n].path = nodes[n].path /\ Shift(S)[n].parent = nodes[n].parent
              /\ Shift(S)[n].ref = nodes[n].ref
<1>1. ASSUME NEW n \in DOMAIN nodes
      PROVE  /\ Shift(S)[n] \in Row
             /\ Shift(S)[n].path = nodes[n].path /\ Shift(S)[n].parent = nodes[n].parent
             /\ Shift(S)[n].ref = nodes[n].ref
  <2>1. nodes[n] \in Row /\ nodes[n].order + 1 \in Nat BY RowFields
  <2> QED BY <2>1 DEF Shift, Row
<1> QED BY <1>1 DEF Shift

LEMMA NatDifference ==
  ASSUME NEW a \in Nat, NEW b \in Nat, a <= b
  PROVE  \E c \in Nat : b = a + c
<1>1. b - a \in Nat /\ b = a + (b - a) OBVIOUS
<1> QED BY <1>1

LEMMA ShiftedOrder ==
  ASSUME TypeOK, NEW S, NEW n \in DOMAIN nodes
  PROVE  Shift(S)[n].order = IF n \in S THEN nodes[n].order + 1 ELSE nodes[n].order
<1>1. nodes[n] \in Row BY RowFields
<1> QED BY <1>1 DEF Shift, Row

\* q is what is left of whole beyond the way old, behind the way path and n.
Spliced(q, path, n, old, whole) ==
  /\ q \in Seq(Ids)
  /\ \A i \in 1 .. Len(path) : q[i] = path[i]
  /\ q[Len(path) + 1] = n
  /\ \E more \in Nat :
       /\ Len(whole) = Len(old) + more /\ Len(q) = (Len(path) + 1) + more
       /\ \A j \in 1 .. more : q[(Len(path) + 1) + j] = whole[Len(old) + j]

\* The rewritten path of a node m of the subtree of a moved node n.
LEMMA RepathFields ==
  ASSUME NEW path \in Seq(Ids), NEW n \in Ids, NEW old \in Seq(Ids), NEW m \in DOMAIN nodes,
         nodes[m].path \in Seq(Ids), Len(old) <= Len(nodes[m].path)
  PROVE  Spliced(Repath(path, n, old, m), path, n, old, nodes[m].path)
<1>a. Len(path) \in Nat /\ Len(old) \in Nat /\ Len(nodes[m].path) \in Nat BY LenProperties
<1>b. PICK whole, to, from, q :
        /\ whole = nodes[m].path /\ to = Len(path) + 1 /\ from = Len(old)
        /\ q = Repath(path, n, old, m)
        /\ whole \in Seq(Ids) /\ to \in Nat /\ from \in Nat
  BY <1>a
<1>c. PICK more \in Nat : Len(whole) = from + more BY <1>a, <1>b, NatDifference
<1>d. whole \in Seq(Ids) /\ to \in Nat /\ from \in Nat BY <1>b
<1> USE <1>d
<1> DEFINE head == Append(path, n)
           tail == SubSeq(whole, from + 1, Len(whole))
<1>1. Len(path) \in Nat /\ Len(path) = to - 1 BY <1>a, <1>b
<1>2. /\ head \in Seq(Ids) /\ Len(head) = to
      /\ \A i \in 1 .. to - 1 : head[i] = path[i]
      /\ head[to] = n
  BY <1>1, <1>b, AppendProperties
<1>3. \A i \in from + 1 .. Len(whole) : whole[i] \in Ids BY <1>c, ElementOfSeq
<1>4. /\ tail \in Seq(Ids) /\ Len(tail) = more
      /\ \A j \in 1 .. more : tail[j] = whole[from + j]
  <2>1. /\ tail \in Seq(Ids)
        /\ Len(tail) = IF from + 1 <= Len(whole) THEN Len(whole) - (from + 1) + 1 ELSE 0
        /\ \A j \in 1 .. Len(whole) - (from + 1) + 1 : tail[j] = whole[(from + 1) + j - 1]
    BY <1>c, <1>3, SubSeqProperties
  <2>2. \A j \in 1 .. more : (from + 1) + j - 1 = from + j OBVIOUS
  <2> QED BY <1>c, <2>1, <2>2
<1>5. q = head \o tail BY <1>b DEF Repath
<1> HIDE DEF head, tail
<1>6. /\ head \o tail \in Seq(Ids)
      /\ Len(head \o tail) = Len(head) + Len(tail)
      /\ \A i \in 1 .. Len(head) + Len(tail) :
           (head \o tail)[i] = IF i <= Len(head) THEN head[i] ELSE tail[i - Len(head)]
  <2>1. head \in Seq(Ids) /\ tail \in Seq(Ids) BY <1>2, <1>4
  <2> QED BY <2>1, ConcatProperties, Zenon
<1>7. \A i \in 1 .. to + more : q[i] = IF i <= to THEN head[i] ELSE tail[i - to]
  BY <1>2, <1>4, <1>5, <1>6
<1>8. q \in Seq(Ids) /\ Len(q) = to + more BY <1>2, <1>4, <1>5, <1>6
<1>9. ASSUME NEW j \in 1 .. more PROVE q[to + j] = whole[from + j]
  <2>1. PICK k \in 1 .. to + more : k = to + j /\ ~(k <= to) /\ k - to = j OBVIOUS
  <2>2. q[k] = tail[k - to] BY <1>7, <2>1, Zenon
  <2> QED BY <1>4, <2>1, <2>2
<1>10. to \in 1 .. to + more /\ \A i \in 1 .. to - 1 : i \in 1 .. to + more /\ i <= to
  BY <1>1
<1>11. q[to] = n /\ \A i \in 1 .. to - 1 : q[i] = path[i] BY <1>2, <1>7, <1>10
<1>12. Spliced(q, path, n, old, whole)
  <2>1. /\ Len(whole) = Len(old) + more /\ Len(q) = (Len(path) + 1) + more
        /\ \A j \in 1 .. more : q[(Len(path) + 1) + j] = whole[Len(old) + j]
    BY <1>8, <1>9, <1>b, <1>c
  <2>2. q[Len(path) + 1] = n /\ \A i \in 1 .. Len(path) : q[i] = path[i]
    BY <1>1, <1>11, <1>b
  <2> QED BY <1>8, <2>1, <2>2 DEF Spliced
<1> QED BY <1>12, <1>b

-----------------------------------------------------------------------------
(* What a step does.                                                        *)

\* It reads, or changes entities.
Looks(r) ==
  /\ nodes' = nodes /\ lastId' = lastId
  /\ \E x \in Request :
       /\ req' = [req EXCEPT ![r] = x]
       /\ Checked(x)

\* Nothing changes but orders.
SameWays(t) ==
  /\ t \in [DOMAIN nodes -> Row]
  /\ \A n \in DOMAIN nodes : /\ t[n].path = nodes[n].path
                             /\ t[n].parent = nodes[n].parent
                             /\ t[n].ref = nodes[n].ref

\* It inserts a node where it found its parent.
Adds(r) ==
  /\ req[r].at \in {"insert", "createTx", "mountTx"} /\ IdLeft
  /\ \E t, order : /\ SameWays(t) /\ order \in Nat
                   /\ nodes' = Inserted(t, req[r].parent, req[r].path, req[r].ref, order)
  /\ lastId' = lastId + 1
  /\ Answer(r)

\* It removes nodes that mount an entity.
Drops(r) ==
  /\ Begin(r) /\ UNCHANGED <<lastId, req>>
  /\ \E S : Keep(Ids \ S) /\ \A n \in S \cap DOMAIN nodes : nodes[n].ref # None

Renumbers(r) == Begin(r) /\ SameWays(nodes') /\ UNCHANGED <<lastId, req>>

\* The transactions that insert a row.
LEMMA Adders ==
  ASSUME TypeOK, NEW r \in Requests, Insert(r) \/ CreateApiTx(r) \/ MountTx(r)
  PROVE  Adds(r)
<1>t. req \in [Requests -> Request] BY DEF TypeOK
<1>s. SameWays(nodes) /\ \A S : SameWays(Shift(S))
  BY ShiftTyped DEF SameWays, TypeOK
<1>1. CASE Insert(r)
  <2>1. req[r].order \in Nat BY <1>1, <1>t, RequestFields DEF Insert
  <2> QED BY <1>1, <1>s, <2>1 DEF Insert, Adds
<1>2. CASE CreateApiTx(r)
  <2>1. ChildCount(req[r].parent) \in Nat BY FiniteTable
  <2> QED BY <1>2, <1>s, <2>1 DEF CreateApiTx, Adds
<1>3. CASE MountTx(r)
  <2>1. req[r].index \in Indexes BY <1>3, <1>t, RequestFields DEF MountTx
  <2>2. OrderFor(req[r].index, req[r].parent) \in Nat BY <2>1, OrderIsNatural
  <2> DEFINE t == Shift(Shifted(req[r].index, req[r].parent, 0))
  <2>3. nodes' = Inserted(t, req[r].parent, req[r].path, req[r].ref,
                          OrderFor(req[r].index, req[r].parent))
    BY <1>3 DEF MountTx
  <2>4. SameWays(t) BY <1>s
  <2> HIDE DEF t
  <2> QED BY <1>3, <2>2, <2>3, <2>4 DEF MountTx, Adds
<1> QED BY <1>1, <1>2, <1>3

\* An enumeration of the children has each of them.
LEMMA Listed ==
  ASSUME TypeOK, NEW p, NEW s \in SetToSeqs(ChildrenOf(p))
  PROVE  /\ DOMAIN s \subseteq Nat \ {0}
         /\ \A n \in ChildrenOf(p) : \E i \in DOMAIN s : s[i] = n
<1> DEFINE C == ChildrenOf(p)
           D == 1 .. Cardinality(C)
<1>1. IsFiniteSet(C) /\ Cardinality(C) \in Nat BY FiniteTable DEF ChildCount
<1>2. s \in [D -> C] /\ \A i, j \in D : i # j => s[i] # s[j] BY DEF SetToSeqs
<1>3. IsFiniteSet(D) /\ Cardinality(D) = Cardinality(C) BY <1>1, FS_Interval
<1> HIDE DEF C, D
<1>4. s \in Injection(D, C) BY <1>2 DEF Injection, IsInjective
<1>5. s \in Surjection(D, C) BY <1>1, <1>3, <1>4, FS_Injection
<1>6. \A n \in C : \E i \in D : s[i] = n BY <1>5 DEF Surjection
<1>7. D \subseteq Nat \ {0} BY <1>1 DEF D
<1> QED BY <1>2, <1>6, <1>7 DEF C

\* Every action but the two that rewrite or delete a subtree is one of these.
Does(r) == Looks(r) \/ Adds(r) \/ Drops(r) \/ Renumbers(r) \/ MoveTx(r) \/ DeleteFolderTx(r)

LEMMA StepIs ==
  ASSUME Tree, Next
  PROVE  /\ \E r \in Requests : Does(r)
         /\ api' \in [Apis -> {"none", "live", "deleted"}] /\ begun' \in 0 .. MaxRequests
<1> USE DEF Go
<1>t. TypeOK /\ req \in [Requests -> Request] /\ None \in Refs /\ Apis \subseteq Refs
  BY DEF Tree, TypeOK, Refs
<1>i. Idle \in Request /\ Checked(Idle)
  BY DEF Idle, Request, Checked
<1>f. \A r \in Requests : /\ req[r].at \in {"count", "createTx", "insert", "check", "mountTx", "moveRead", "moveTx"}
                               => req[r].parent \in Parents /\ req[r].path \in Seq(Ids)
                          /\ req[r].at \in {"aiPath", "path"} => req[r].parent \in Parents
                          /\ req[r].at \in {"count", "createTx", "insert", "aiPath", "path", "check", "mountTx"}
                               => req[r].ref \in Refs
  BY <1>t, RequestFields DEF Destined
<1>p. \A p \in Parents : MayHold(p) => PathOf(p) \in Seq(Ids) BY <1>t, PathFields
<1>1. ASSUME NEW r \in Requests, NEW p \in Parents, CreateFolder(r, p) PROVE Looks(r)
  <2> DEFINE x == [at |-> "count", ref |-> None, parent |-> p, path |-> PathOf(p)]
  <2>1. x \in Request BY <1>1, <1>t, <1>p DEF CreateFolder, Creation, Request
  <2>2. Checked(x)
    BY <1>1 DEF CreateFolder, Checked
  <2> QED BY <1>1, <2>1, <2>2 DEF CreateFolder, Looks
<1>2. ASSUME NEW r \in Requests, CountChildren(r) PROVE Looks(r)
  <2> DEFINE x == [at |-> "insert", ref |-> req[r].ref, parent |-> req[r].parent,
                   path |-> req[r].path, order |-> ChildCount(req[r].parent)]
  <2>1. x \in Request BY <1>2, <1>t, <1>f, FiniteTable DEF CountChildren, Creation, Request
  <2>2. Checked(x)
    BY <1>2 DEF CountChildren, Checked
  <2> QED BY <1>2, <2>1, <2>2 DEF CountChildren, Looks
<1>3. ASSUME NEW r \in Requests, NEW p \in Parents, CreateApi(r, p) PROVE Looks(r)
  <2>1. PICK a \in Apis :
          req' = [req EXCEPT ![r] = [at |-> "createTx", ref |-> a, parent |-> p, path |-> PathOf(p)]]
    BY <1>3 DEF CreateApi
  <2> DEFINE x == [at |-> "createTx", ref |-> a, parent |-> p, path |-> PathOf(p)]
  <2>2. x \in Request BY <1>3, <1>t, <1>p DEF CreateApi, Creation, Request
  <2>3. Checked(x)
    BY <1>3 DEF CreateApi, Checked
  <2> QED BY <1>3, <2>1, <2>2, <2>3 DEF CreateApi, Looks
<1>4. ASSUME NEW r \in Requests, NEW a \in Apis, NEW p \in Parents, NEW i \in Indexes,
             Mount(r, a, p, i)
      PROVE  Looks(r)
  <2> DEFINE x == [at |-> "path", ref |-> a, parent |-> p, index |-> i]
  <2>1. x \in Request BY <1>t DEF Mounting, Request
  <2>2. Checked(x)
    BY DEF Checked
  <2> QED BY <1>4, <2>1, <2>2 DEF Mount, Looks
<1>a. ASSUME NEW r \in Requests, Answer(r), nodes' = nodes, lastId' = lastId PROVE Looks(r)
  <2> QED BY <1>a, <1>i DEF Answer, Looks
<1>5. ASSUME NEW r \in Requests, MountPath(r) PROVE Looks(r)
  <2> DEFINE x == [at |-> "check", ref |-> req[r].ref, parent |-> req[r].parent,
                   index |-> req[r].index, path |-> PathOf(req[r].parent)]
  <2>1. CASE MayHold(req[r].parent)
    <3>1. req[r].index \in Indexes BY <1>5, <1>t, RequestFields DEF MountPath
    <3>2. x \in Request
      BY <1>5, <1>t, <1>f, <1>p, <2>1, <3>1 DEF MountPath, Mounting, Request
    <3>3. Checked(x)
      BY <2>1 DEF Checked
    <3> QED BY <1>5, <2>1, <3>2, <3>3 DEF MountPath, Looks
  <2> QED BY <1>5, <1>a, <2>1 DEF MountPath
<1>6. ASSUME NEW r \in Requests, MountCheck(r) PROVE Looks(r)
  <2> DEFINE x == [req[r] EXCEPT !.at = "mountTx"]
  <2>1. CASE Mounts(req[r].ref) = {}
    <3>1. req[r] \in [at : {"check", "mountTx"}, ref : Refs, parent : Parents,
                      index : Indexes, path : Seq(Ids)]
      BY <1>6, <1>t
      DEF MountCheck, Request, Idle, Creation, Mounting, Moving, Deletion
    <3>2. x \in [at : {"check", "mountTx"}, ref : Refs, parent : Parents,
                 index : Indexes, path : Seq(Ids)]
      BY <3>1
    <3>3. x \in Request BY <3>2 DEF Mounting, Request
    <3>4. x.at = "mountTx" /\ x.parent = req[r].parent /\ x.path = req[r].path BY <3>1
    <3>5. Checked(x)
      BY <1>6, <3>4 DEF MountCheck, Checked
    <3> QED BY <1>6, <2>1, <3>3, <3>5 DEF MountCheck, Looks
  <2> QED BY <1>6, <1>a, <2>1 DEF MountCheck
<1>7. ASSUME NEW r \in Requests, NEW a \in Apis, NEW p \in Parents,
             AiCreateApi(r, a, p) \/ AiMount(r, a, p)
      PROVE  Looks(r)
  <2> DEFINE x == [at |-> "aiPath", ref |-> a, parent |-> p]
  <2>1. x \in Request BY <1>t DEF Mounting, Request
  <2>2. Checked(x)
    BY DEF Checked
  <2>4. CASE req' = [req EXCEPT ![r] = x]
    BY <1>7, <2>1, <2>2, <2>4 DEF AiCreateApi, AiMount, Looks
  <2>5. CASE req' = req
    <3>1. req' = [req EXCEPT ![r] = req[r]] BY <1>t, <2>5
    <3>2. req[r].at = "idle" BY <1>7 DEF AiCreateApi, AiMount, Begin
    <3>3. Checked(req[r])
      BY <3>2 DEF Checked
    <3>4. req[r] \in Request BY <1>t
    <3> QED BY <1>7, <3>1, <3>3, <3>4 DEF AiCreateApi, AiMount, Looks
  <2> QED BY <1>7, <2>4, <2>5 DEF AiCreateApi, AiMount
<1>8. ASSUME NEW r \in Requests, AiMountPath(r) PROVE Looks(r)
  <2> DEFINE x == [at |-> "count", ref |-> req[r].ref, parent |-> req[r].parent,
                   path |-> PathOf(req[r].parent)]
  <2>1. CASE MayHold(req[r].parent)
    <3>1. x \in Request BY <1>8, <1>t, <1>f, <1>p, <2>1 DEF AiMountPath, Creation, Request
    <3>2. Checked(x)
      BY <2>1 DEF Checked
    <3> QED BY <1>8, <2>1, <3>1, <3>2 DEF AiMountPath, Looks
  <2> QED BY <1>8, <1>a, <2>1 DEF AiMountPath
<1>9. ASSUME NEW r \in Requests, NEW n \in DOMAIN nodes, NEW p \in Parents,
             NEW i \in Indexes, Move(r, n, p, i)
      PROVE  Looks(r)
  <2> DEFINE x == [at |-> "moveRead", node |-> n, parent |-> p, index |-> i,
                   path |-> PathOf(p)]
  <2>1. n \in Ids BY <1>t, RowFields
  <2>2. x \in Request BY <1>9, <1>p, <2>1 DEF Move, Moving, Request
  <2>3. Checked(x)
    BY <1>9 DEF Move, Checked
  <2> QED BY <1>9, <2>2, <2>3 DEF Move, Looks
<1>10. ASSUME NEW r \in Requests, MoveRead(r) PROVE Looks(r)
  <2> DEFINE n == req[r].node
             x == [at |-> "moveTx", node |-> n, parent |-> req[r].parent,
                   index |-> req[r].index, path |-> req[r].path, old |-> nodes[n].path]
  <2>1. CASE /\ n \in DOMAIN nodes /\ nodes[n].parent # req[r].parent
             /\ ~IntoItself(req[r].path, nodes[n].path)
    <3>1. req[r].index \in Indexes BY <1>10, <1>t, RequestFields DEF MoveRead
    <3>2. n \in Ids /\ nodes[n].path \in Seq(Ids) /\ Len(nodes[n].path) # 0
          /\ nodes[n].path[Len(nodes[n].path)] = n
      BY <1>t, <2>1, RowFields
    <3>3. x \in Request BY <1>10, <1>f, <3>1, <3>2 DEF MoveRead, Moving, Request
    <3>4. Checked(x) BY <2>1, <3>2 DEF Checked
    <3> QED BY <1>10, <2>1, <3>3, <3>4 DEF MoveRead, Looks
  <2> QED BY <1>10, <1>a, <2>1 DEF MoveRead
<1>11. ASSUME NEW r \in Requests, NEW n \in DOMAIN nodes, NEW p \in Parents, AiMove(r, n, p)
       PROVE  Looks(r)
  <2> DEFINE x == [at |-> "aiMovePath", node |-> n, parent |-> p, old |-> nodes[n].path,
                   from |-> nodes[n].parent]
  <2>1. n \in Ids /\ nodes[n].path \in Seq(Ids) /\ Len(nodes[n].path) # 0
        /\ nodes[n].path[Len(nodes[n].path)] = n /\ nodes[n].parent \in Parents
    BY <1>t, RowFields
  <2>2. x \in Request BY <2>1 DEF Moving, Request
  <2>3. Checked(x)
    BY <2>1 DEF Checked
  <2> QED BY <1>11, <2>2, <2>3 DEF AiMove, Looks
<1>12. ASSUME NEW r \in Requests, AiMovePath(r) PROVE Looks(r)
  <2> DEFINE p == req[r].parent
             x == [at |-> "moveTx", node |-> req[r].node, parent |-> p, index |-> None,
                   path |-> PathOf(p), old |-> req[r].old]
  <2>1. CASE MayHold(p) /\ p # req[r].from /\ ~IntoItself(PathOf(p), req[r].old)
    <3>1. req[r].node \in Ids /\ p \in Parents /\ req[r].old \in Seq(Ids)
      BY <1>12, <1>t, RequestFields DEF AiMovePath, Structural
    <3>2. x \in Request BY <1>p, <2>1, <3>1 DEF Moving, Request
    <3>3. Checked(x) BY <1>12, <2>1 DEF AiMovePath, Tree, Checked
    <3> QED BY <1>12, <2>1, <3>2, <3>3 DEF AiMovePath, Looks
  <2> QED BY <1>12, <1>a, <2>1 DEF AiMovePath
<1>13. ASSUME NEW r \in Requests, NEW f \in DOMAIN nodes, DeleteFolder(r, f) PROVE Looks(r)
  <2> DEFINE x == [at |-> "deleteTx", node |-> f, path |-> nodes[f].path]
  <2>1. f \in Ids /\ nodes[f].path \in Seq(Ids) /\ Len(nodes[f].path) # 0
        /\ nodes[f].path[Len(nodes[f].path)] = f
    BY <1>t, RowFields
  <2>2. x \in Request BY <2>1 DEF Deletion, Request
  <2>3. Checked(x) BY <2>1 DEF Checked
  <2> QED BY <1>13, <2>2, <2>3 DEF DeleteFolder, Looks
<1>14. ASSUME NEW r \in Requests, Insert(r) \/ CreateApiTx(r) \/ MountTx(r) PROVE Adds(r)
  BY <1>t, <1>14, Adders
<1>17. ASSUME NEW r \in Requests, NEW n \in DOMAIN nodes, Unmount(r, n) PROVE Drops(r)
  <2>1. Keep(Ids \ {n}) /\ \A m \in {n} \cap DOMAIN nodes : nodes[m].ref # None
    BY <1>17 DEF Unmount, IsFolder
  <2> QED BY <1>17, <2>1 DEF Unmount, Drops
<1>18. ASSUME NEW r \in Requests, NEW a \in Apis, DeleteApi(r, a) PROVE Drops(r)
  <2>1. Keep(Ids \ Mounts(a)) /\ \A m \in Mounts(a) \cap DOMAIN nodes : nodes[m].ref # None
    BY <1>18, ProjectTreeAssumption DEF DeleteApi, Mounts, ProjectTreeAssumption
  <2> QED BY <1>18, <2>1 DEF DeleteApi, Drops
<1>19. ASSUME NEW r \in Requests, NEW a \in Apis, AiDeleteApi(r, a) PROVE Looks(r)
  <2>1. req' = [req EXCEPT ![r] = req[r]] BY <1>19, <1>t DEF AiDeleteApi
  <2>2. req[r].at = "idle" BY <1>19 DEF AiDeleteApi, Begin
  <2>3. Checked(req[r])
    BY <2>2 DEF Checked
  <2>4. req[r] \in Request BY <1>t
  <2> QED BY <1>19, <2>1, <2>3, <2>4 DEF AiDeleteApi, Looks
<1>20. ASSUME NEW r \in Requests, NEW p \in Parents, Reorder(r, p) PROVE Renumbers(r)
  <2>1. PICK s \in SetToSeqs(ChildrenOf(p)) :
          nodes' = [n \in DOMAIN nodes |->
            IF n \notin ChildrenOf(p) THEN nodes[n]
            ELSE [nodes[n] EXCEPT !.order = (CHOOSE i \in DOMAIN s : s[i] = n) - 1]]
    BY <1>20 DEF Reorder
  <2>2. ASSUME NEW n \in ChildrenOf(p) PROVE (CHOOSE i \in DOMAIN s : s[i] = n) - 1 \in Nat
    <3>1. \E i \in DOMAIN s : s[i] = n BY <1>t, <2>2, Listed
    <3>2. DOMAIN s \subseteq Nat \ {0} BY <1>t, Listed
    <3>3. (CHOOSE i \in DOMAIN s : s[i] = n) \in DOMAIN s BY <3>1
    <3> QED BY <3>2, <3>3
  <2>3. ASSUME NEW n \in DOMAIN nodes
        PROVE  /\ nodes'[n] \in Row
               /\ nodes'[n].path = nodes[n].path /\ nodes'[n].parent = nodes[n].parent
               /\ nodes'[n].ref = nodes[n].ref
    <3>1. nodes[n] \in Row BY <1>t, RowFields
    <3>2. CASE n \notin ChildrenOf(p) BY <2>1, <3>1, <3>2
    <3>3. CASE n \in ChildrenOf(p)
      <4>1. PICK k \in Nat : nodes'[n] = [nodes[n] EXCEPT !.order = k] BY <2>1, <2>2, <3>3
      <4> QED BY <3>1, <4>1 DEF Row
    <3> QED BY <3>2, <3>3
  <2>4. DOMAIN nodes' = DOMAIN nodes /\ nodes' = [n \in DOMAIN nodes |-> nodes'[n]]
    BY <2>1
  <2>5. SameWays(nodes') BY <2>3, <2>4 DEF SameWays
  <2> QED BY <1>20, <2>5 DEF Reorder, Renumbers
<1>21. api' \in [Apis -> {"none", "live", "deleted"}]
  <2>1. api \in [Apis -> {"none", "live", "deleted"}] BY <1>t DEF TypeOK
  <2>2. api' = api \/ \E a : api' = [api EXCEPT ![a] = "live"] \/ api' = [api EXCEPT ![a] = "deleted"]
    BY ZenonT(40)
    DEF Next, Step, CreateFolder, CountChildren, CreateApi, Mount, MountPath, MountCheck,
        AiCreateApi, AiMount, AiMountPath, Move, MoveRead, AiMove, AiMovePath, DeleteFolder,
        Insert, CreateApiTx, MountTx, Unmount, DeleteApi, AiDeleteApi, Reorder, MoveTx,
        DeleteFolderTx
  <2> QED BY <2>1, <2>2
<1>23. begun' \in 0 .. MaxRequests
  <2>1. begun \in 0 .. MaxRequests /\ MaxRequests \in Nat
    BY <1>t, ProjectTreeAssumption DEF TypeOK, ProjectTreeAssumption
  <2>2. begun' = begun \/ (begun < MaxRequests /\ begun' = begun + 1)
    BY ZenonT(40)
    DEF Next, Begin, CreateFolder, CreateApi, Mount, AiCreateApi, AiMount, Move, AiMove,
        DeleteFolder, Unmount, DeleteApi, AiDeleteApi, Reorder
  <2> QED BY <2>1, <2>2
<1> HIDE DEF Go
<1>22. \E r \in Requests : Does(r)
  BY <1>1, <1>2, <1>3, <1>4, <1>5, <1>6, <1>7, <1>8, <1>9, <1>10, <1>11, <1>12, <1>13,
     <1>14, <1>17, <1>18, <1>19, <1>20, Zenon
  DEF Next, Step, Does
<1> QED BY <1>21, <1>22, <1>23

-----------------------------------------------------------------------------
(* What the table is after a step.                                          *)

LEMMA PrefixIs ==
  ASSUME NEW s \in Seq(Ids), NEW t \in Seq(Ids)
  PROVE  IsPrefix(s, t) <=> Len(s) <= Len(t) /\ \A i \in 1 .. Len(s) : s[i] = t[i]
<1>1. Len(s) \in Nat /\ Len(t) \in Nat BY LenProperties
<1>2. SubSeq(s, 1, Len(s)) = s BY SubSeqFull
<1>3. ASSUME Len(s) <= Len(t)
      PROVE  /\ SubSeq(t, 1, Len(s)) \in Seq(Ids)
             /\ Len(SubSeq(t, 1, Len(s))) = Len(s)
             /\ \A i \in 1 .. Len(s) : SubSeq(t, 1, Len(s))[i] = t[i]
  <2>1. \A i \in 1 .. Len(s) : t[i] \in Ids BY <1>1, <1>3, ElementOfSeq
  <2> QED BY <1>1, <2>1, SubSeqProperties
<1> QED BY <1>1, <1>2, <1>3, SeqEqual DEF IsPrefix

\* A row keeps all but its order.
SameWay(n) == /\ nodes'[n].path = nodes[n].path
              /\ nodes'[n].parent = nodes[n].parent
              /\ nodes'[n].ref = nodes[n].ref

LEMMA AddsOne ==
  ASSUME TypeOK, NEW r \in Requests, Adds(r)
  PROVE  LET new == lastId + 1 IN
         /\ new \notin DOMAIN nodes /\ new \in Ids
         /\ DOMAIN nodes' = DOMAIN nodes \cup {new}
         /\ nodes' \in [DOMAIN nodes \cup {new} -> Row]
         /\ \A n \in DOMAIN nodes : SameWay(n)
         /\ nodes'[new].parent = req[r].parent /\ nodes'[new].ref = req[r].ref
         /\ nodes'[new].path = Append(req[r].path, new)
         /\ req[r].parent \in Parents /\ req[r].path \in Seq(Ids)
<1>1. PICK t, order : /\ SameWays(t) /\ order \in Nat
                      /\ nodes' = Inserted(t, req[r].parent, req[r].path, req[r].ref, order)
  BY DEF Adds
<1>2. req[r] \in Request /\ req[r].at \in {"insert", "createTx", "mountTx"}
  BY DEF TypeOK, Adds
<1>3. req[r].parent \in Parents /\ req[r].path \in Seq(Ids) /\ req[r].ref \in Refs
  BY <1>2, RequestFields DEF Destined
<1>4. IdLeft /\ t \in [DOMAIN nodes -> Row] BY <1>1 DEF Adds, SameWays
<1> DEFINE new == lastId + 1
           row == [parent |-> req[r].parent, ref |-> req[r].ref,
                   path |-> Append(req[r].path, new), order |-> order]
<1>5. new \notin DOMAIN nodes /\ new \in Ids
  BY <1>4, ProjectTreeAssumption DEF TypeOK, IdLeft, Ids, ProjectTreeAssumption
<1>7. row \in Row
  <2>1. Append(req[r].path, new) \in Seq(Ids) BY <1>3, <1>5, AppendProperties
  <2> QED BY <1>1, <1>3, <2>1 DEF Row
<1>8. nodes' = [n \in DOMAIN nodes \cup {new} |-> IF n # new THEN t[n] ELSE row]
  BY <1>1, <1>4 DEF Inserted
<1>9. nodes'[new].parent = req[r].parent /\ nodes'[new].ref = req[r].ref
      /\ nodes'[new].path = Append(req[r].path, new)
  BY <1>8
<1> HIDE DEF new, row
<1>10. /\ DOMAIN nodes' = DOMAIN nodes \cup {new}
       /\ nodes' \in [DOMAIN nodes \cup {new} -> Row]
       /\ \A n \in DOMAIN nodes : nodes'[n] = t[n]
  BY <1>4, <1>5, <1>7, <1>8
<1>6. \A n \in DOMAIN nodes : SameWay(n) BY <1>1, <1>10 DEF SameWay, SameWays
<1> QED BY <1>3, <1>5, <1>6, <1>9, <1>10 DEF new

LEMMA KeepsSome ==
  ASSUME TypeOK, NEW S, Keep(S)
  PROVE  /\ DOMAIN nodes' = DOMAIN nodes \cap S
         /\ nodes' \in [DOMAIN nodes \cap S -> Row]
         /\ \A n \in DOMAIN nodes \cap S : nodes'[n] = nodes[n]
BY DEF Keep, TypeOK

\* The rows outside the subtree keep their ways, those in it get new paths.
LEMMA MovesSubtree ==
  ASSUME TypeOK, NEW r \in Requests, MoveTx(r), Checked(req[r])
  PROVE  LET n == req[r].node  old == req[r].old  path == req[r].path IN
         /\ n \in Ids /\ old \in Seq(Ids) /\ path \in Seq(Ids) /\ req[r].parent \in Parents
         /\ Len(old) \in Nat \ {0} /\ Len(path) \in Nat /\ old[Len(old)] = n
         /\ nodes' \in [DOMAIN nodes -> Row]
         /\ \A m \in DOMAIN nodes \ Selected(old) : SameWay(m)
         /\ \A m \in Selected(old) :
              /\ nodes'[m].path = Repath(path, n, old, m)
              /\ nodes'[m].ref = nodes[m].ref
              /\ nodes'[m].parent = IF m = n THEN req[r].parent ELSE nodes[m].parent
<1> DEFINE n == req[r].node
           old == req[r].old
           path == req[r].path
           room == Shifted(req[r].index, req[r].parent, n)
           order == OrderFor(req[r].index, req[r].parent)
           t == Shift(room)
<1>1. req[r] \in Request /\ req[r].at = "moveTx" BY DEF TypeOK, MoveTx
<1>2. /\ n \in Ids /\ old \in Seq(Ids) /\ path \in Seq(Ids) /\ req[r].parent \in Parents
      /\ req[r].index \in Indexes \cup {None}
  BY <1>1, RequestFields DEF Destined, Structural
<1>3. Len(old) \in Nat \ {0} /\ Len(path) \in Nat /\ old[Len(old)] = n
  BY <1>1, <1>2, LenProperties DEF Checked
<1>4. order \in Nat BY <1>2, OrderIsNatural
<1>5. t \in [DOMAIN nodes -> Row] /\ \A m \in DOMAIN nodes :
        t[m].path = nodes[m].path /\ t[m].parent = nodes[m].parent /\ t[m].ref = nodes[m].ref
  BY ShiftTyped
<1>6. nodes' = [m \in DOMAIN nodes |->
       IF m \notin Selected(old) THEN t[m]
       ELSE [nodes[m] EXCEPT !.path = Repath(path, n, old, m),
                             !.parent = IF m = n THEN req[r].parent ELSE @,
                             !.order = IF m = n THEN order ELSE @]]
  BY DEF MoveTx
<1> HIDE DEF n, old, path, order, t
<1>7. ASSUME NEW m \in DOMAIN nodes \ Selected(old) PROVE nodes'[m] \in Row /\ SameWay(m)
  BY <1>5, <1>6 DEF SameWay
<1>8. ASSUME NEW m \in Selected(old)
      PROVE  /\ m \in DOMAIN nodes /\ nodes'[m] \in Row
             /\ nodes'[m].path = Repath(path, n, old, m)
             /\ nodes'[m].ref = nodes[m].ref
             /\ nodes'[m].parent = IF m = n THEN req[r].parent ELSE nodes[m].parent
  <2>1. m \in DOMAIN nodes /\ IsPrefix(old, nodes[m].path) BY DEF Selected
  <2>2. nodes[m] \in Row /\ nodes[m].path \in Seq(Ids) BY <2>1, RowFields
  <2>3. Len(old) <= Len(nodes[m].path) BY <1>2, <2>1, <2>2, PrefixIs
  <2>4. Repath(path, n, old, m) \in Seq(Ids)
    BY <1>2, <2>1, <2>2, <2>3, RepathFields DEF Spliced
  <2>5. nodes'[m] = [nodes[m] EXCEPT !.path = Repath(path, n, old, m),
                       !.parent = IF m = n THEN req[r].parent ELSE nodes[m].parent,
                       !.order = IF m = n THEN order ELSE nodes[m].order]
    BY <1>6, <2>1
  <2>6. nodes'[m].path = Repath(path, n, old, m) /\ nodes'[m].ref = nodes[m].ref
        /\ nodes'[m].parent = IF m = n THEN req[r].parent ELSE nodes[m].parent
    BY <2>2, <2>5 DEF Row
  <2>7. nodes'[m] \in Row BY <1>2, <1>4, <2>2, <2>4, <2>5 DEF Row
  <2> QED BY <2>1, <2>6, <2>7
<1>9. \A m \in Selected(old) : m \in DOMAIN nodes BY DEF Selected
<1>10. nodes' \in [DOMAIN nodes -> Row]
  <2>1. DOMAIN nodes' = DOMAIN nodes /\ nodes' = [m \in DOMAIN nodes |-> nodes'[m]] BY <1>6
  <2>2. \A m \in DOMAIN nodes : nodes'[m] \in Row BY <1>7, <1>8
  <2> QED BY <2>1, <2>2
<1> QED BY <1>2, <1>3, <1>7, <1>8, <1>10 DEF n, old, path

-----------------------------------------------------------------------------
(* Types are kept, with what was checked.                                   *)

LEMMA AppendFields ==
  ASSUME NEW path \in Seq(Ids), NEW n \in Ids
  PROVE  LET q == Append(path, n) IN
         /\ q \in Seq(Ids) /\ Len(path) \in Nat /\ Len(q) = Len(path) + 1
         /\ \A i \in 1 .. Len(path) : q[i] = path[i]
         /\ q[Len(path) + 1] = n /\ q # <<>> /\ Last(q) = n
<1>1. Len(path) \in Nat BY LenProperties
<1>2. /\ Append(path, n) \in Seq(Ids) /\ Len(Append(path, n)) = Len(path) + 1
      /\ \A i \in 1 .. Len(path) : Append(path, n)[i] = path[i]
      /\ Append(path, n)[Len(path) + 1] = n
  BY <1>1, AppendProperties
<1> QED BY <1>1, <1>2 DEF Last

\* A rewritten path ends with its own node, the only one with the old path being
\* the moved one.
LEMMA RepathEnds ==
  ASSUME TypeOK, NEW r \in Requests, MoveTx(r), Checked(req[r]),
         NEW m \in Selected(req[r].old)
  PROVE  LET q == Repath(req[r].path, req[r].node, req[r].old, m) IN
         q # <<>> /\ Last(q) = m
<1> DEFINE n == req[r].node
           old == req[r].old
           path == req[r].path
           whole == nodes[m].path
           q == Repath(path, n, old, m)
<1>1. /\ n \in Ids /\ old \in Seq(Ids) /\ path \in Seq(Ids)
      /\ Len(old) \in Nat \ {0} /\ Len(path) \in Nat /\ old[Len(old)] = n
  BY MovesSubtree
<1>2. m \in DOMAIN nodes /\ IsPrefix(old, whole) BY DEF Selected
<1>3. whole \in Seq(Ids) /\ Len(whole) \in Nat \ {0} /\ whole[Len(whole)] = m
  BY <1>2, RowFields
<1>4. Len(old) <= Len(whole) /\ \A i \in 1 .. Len(old) : old[i] = whole[i]
  BY <1>1, <1>2, <1>3, PrefixIs
<1>5. Spliced(q, path, n, old, whole) BY <1>1, <1>2, <1>3, <1>4, RepathFields
<1>p. PICK more \in Nat :
        /\ Len(whole) = Len(old) + more /\ Len(q) = (Len(path) + 1) + more
        /\ \A j \in 1 .. more : q[(Len(path) + 1) + j] = whole[Len(old) + j]
  BY <1>5 DEF Spliced
<1>q. q[Len(path) + 1] = n /\ q \in Seq(Ids) BY <1>5 DEF Spliced
<1> HIDE DEF q, path, old, n, whole
<1>6. q[Len(q)] = m
  <2>1. CASE more = 0
    <3>1. Len(q) = Len(path) + 1 /\ m = n BY <1>1, <1>3, <1>4, <1>p, <2>1
    <3> QED BY <1>q, <3>1
  <2>2. CASE more # 0
    <3>1. more \in 1 .. more BY <2>2
    <3> QED BY <1>3, <1>p, <3>1
  <2> QED BY <2>1, <2>2
<1>7. q # <<>> BY <1>1, <1>p, <1>q, EmptySeq
<1> QED BY <1>6, <1>7 DEF q, path, old, n, Last

\* What the next state's table must be for its type.
Typed ==
  /\ nodes \in [DOMAIN nodes -> Row] /\ DOMAIN nodes \subseteq 1 .. lastId
  /\ \A n \in DOMAIN nodes : nodes[n].path # <<>> /\ Last(nodes[n].path) = n
  /\ lastId \in 0 .. MaxId

LEMMA TypesStep ==
  ASSUME Tree, [Next]_vars
  PROVE  TypeOK' /\ \A r \in Requests : Checked(req'[r])
<1>t. /\ TypeOK /\ lastId \in 0 .. MaxId /\ MaxId \in Nat /\ DOMAIN nodes \subseteq 1 .. lastId
      /\ req \in [Requests -> Request] /\ \A r \in Requests : Checked(req[r])
      /\ \A n \in DOMAIN nodes : nodes[n].path # <<>> /\ Last(nodes[n].path) = n
      /\ nodes \in [DOMAIN nodes -> Row]
  BY ProjectTreeAssumption DEF Tree, TypeOK
<1>i. Idle \in Request /\ Checked(Idle) BY DEF Idle, Request, Checked
<1>a. ASSUME NEW r \in Requests, Answer(r)
      PROVE  req' \in [Requests -> Request] /\ \A q \in Requests : Checked(req'[q])
  BY <1>t, <1>i, <1>a DEF Answer
<1>1. ASSUME NEW r \in Requests, Looks(r)
      PROVE  /\ Typed' /\ req' \in [Requests -> Request]
             /\ \A q \in Requests : Checked(req'[q])
  <2>1. PICK x \in Request : req' = [req EXCEPT ![r] = x] /\ Checked(x)
    BY <1>1 DEF Looks
  <2>2. Typed' BY <1>1, <1>t DEF Looks, Typed
  <2> QED BY <1>t, <2>1, <2>2
<1>2. ASSUME NEW r \in Requests, Adds(r)
      PROVE  /\ Typed' /\ req' \in [Requests -> Request]
             /\ \A q \in Requests : Checked(req'[q])
  <2> DEFINE new == lastId + 1
  <2>1. /\ new \notin DOMAIN nodes /\ new \in Ids
        /\ DOMAIN nodes' = DOMAIN nodes \cup {new}
        /\ nodes' \in [DOMAIN nodes \cup {new} -> Row]
        /\ \A n \in DOMAIN nodes : SameWay(n)
        /\ nodes'[new].path = Append(req[r].path, new) /\ req[r].path \in Seq(Ids)
    BY <1>2, <1>t, AddsOne
  <2>2. nodes'[new].path # <<>> /\ Last(nodes'[new].path) = new BY <2>1, AppendFields
  <2>3. lastId' = new /\ new \in 0 .. MaxId /\ new \in 1 .. new
        /\ \A n \in 1 .. lastId : n \in 1 .. new
    BY <1>2, <1>t DEF Adds, IdLeft
  <2>4. \A n \in DOMAIN nodes : nodes'[n].path # <<>> /\ Last(nodes'[n].path) = n
    BY <1>t, <2>1 DEF SameWay
  <2> HIDE DEF new
  <2>5. \A n \in DOMAIN nodes' : nodes'[n].path # <<>> /\ Last(nodes'[n].path) = n
    BY <2>1, <2>2, <2>4
  <2>6. DOMAIN nodes' \subseteq 1 .. lastId' BY <1>t, <2>1, <2>3
  <2>7. Typed' BY <2>1, <2>3, <2>5, <2>6 DEF Typed
  <2> QED BY <1>2, <1>a, <2>7 DEF Adds
<1>3. ASSUME NEW S, Keep(S), lastId' = lastId PROVE Typed'
  BY <1>3, <1>t, KeepsSome DEF Typed
<1>4. ASSUME NEW r \in Requests, Drops(r)
      PROVE  /\ Typed' /\ req' \in [Requests -> Request]
             /\ \A q \in Requests : Checked(req'[q])
  BY <1>4, <1>3, <1>t DEF Drops
<1>5. ASSUME NEW r \in Requests, Renumbers(r)
      PROVE  /\ Typed' /\ req' \in [Requests -> Request]
             /\ \A q \in Requests : Checked(req'[q])
  BY <1>5, <1>t DEF Renumbers, SameWays, Typed
<1>6. ASSUME NEW r \in Requests, DeleteFolderTx(r)
      PROVE  /\ Typed' /\ req' \in [Requests -> Request]
             /\ \A q \in Requests : Checked(req'[q])
  BY <1>6, <1>3, <1>a DEF DeleteFolderTx
<1>7. ASSUME NEW r \in Requests, MoveTx(r)
      PROVE  /\ Typed' /\ req' \in [Requests -> Request]
             /\ \A q \in Requests : Checked(req'[q])
  <2>1. /\ nodes' \in [DOMAIN nodes -> Row]
        /\ \A m \in DOMAIN nodes \ Selected(req[r].old) : SameWay(m)
        /\ \A m \in Selected(req[r].old) :
             nodes'[m].path = Repath(req[r].path, req[r].node, req[r].old, m)
    BY <1>7, <1>t, MovesSubtree
  <2>2. ASSUME NEW m \in DOMAIN nodes PROVE nodes'[m].path # <<>> /\ Last(nodes'[m].path) = m
    <3>1. CASE m \in Selected(req[r].old)
      <4>1. Checked(req[r]) BY <1>t
      <4>2. LET q == Repath(req[r].path, req[r].node, req[r].old, m) IN q # <<>> /\ Last(q) = m
        BY <1>7, <1>t, <3>1, <4>1, RepathEnds
      <4> QED BY <2>1, <3>1, <4>2
    <3>2. CASE m \notin Selected(req[r].old) BY <1>t, <2>1, <3>2 DEF SameWay
    <3> QED BY <3>1, <3>2
  <2>3. Typed' BY <1>7, <1>t, <2>1, <2>2 DEF Typed, MoveTx
  <2> QED BY <1>7, <1>a, <2>3 DEF MoveTx
<1>8. CASE Next
  <2>1. api' \in [Apis -> {"none", "live", "deleted"}] /\ begun' \in 0 .. MaxRequests
    BY <1>8, StepIs
  <2>2. PICK r \in Requests : Does(r) BY <1>8, StepIs
  <2>3. /\ Typed' /\ req' \in [Requests -> Request]
        /\ \A q \in Requests : Checked(req'[q])
    BY <1>1, <1>2, <1>4, <1>5, <1>6, <1>7, <2>2 DEF Does
  <2> QED BY <2>1, <2>3 DEF TypeOK, Typed
<1>9. CASE UNCHANGED vars
  BY <1>9, <1>t DEF vars, TypeOK
<1> QED BY <1>8, <1>9

-----------------------------------------------------------------------------
(* Paths go on following parents.                                           *)

Agrees(n) ==
  MayHold(nodes[n].parent) /\ nodes[n].path = Append(PathOf(nodes[n].parent), n)

\* A node and its parent that keep their ways.
LEMMA AgreesStill ==
  ASSUME NEW n \in DOMAIN nodes, Agrees(n), SameWay(n),
         nodes[n].parent # 0 => /\ nodes[n].parent \in DOMAIN nodes'
                                /\ SameWay(nodes[n].parent)
  PROVE  Agrees(n)'
<1>1. CASE nodes[n].parent = 0 BY <1>1 DEF Agrees, MayHold, PathOf, SameWay
<1>2. CASE nodes[n].parent # 0
  BY <1>2 DEF Agrees, MayHold, IsFolder, PathOf, SameWay
<1> QED BY <1>1, <1>2

\* A path that selects a node selects its parent, unless it is the node's own.
LEMMA PrefixOfLonger ==
  ASSUME NEW old \in Seq(Ids), NEW s \in Seq(Ids), NEW n \in Ids
  PROVE  IsPrefix(old, Append(s, n)) <=> IsPrefix(old, s) \/ old = Append(s, n)
<1>0. PICK q, k, l : q = Append(s, n) /\ k = Len(old) /\ l = Len(s) OBVIOUS
<1>1. /\ q \in Seq(Ids) /\ k \in Nat /\ l \in Nat /\ Len(q) = l + 1
      /\ \A i \in 1 .. l : q[i] = s[i]
  BY <1>0, AppendFields, LenProperties
<1>2. IsPrefix(old, q) <=> k <= l + 1 /\ \A i \in 1 .. k : old[i] = q[i]
  BY <1>0, <1>1, PrefixIs
<1>3. IsPrefix(old, s) <=> k <= l /\ \A i \in 1 .. k : old[i] = s[i] BY <1>0, PrefixIs
<1>4. CASE k <= l
  <2>1. old # q BY <1>0, <1>1, <1>4
  <2>2. \A i \in 1 .. k : q[i] = s[i] BY <1>1, <1>4
  <2> QED BY <1>0, <1>1, <1>2, <1>3, <1>4, <2>1, <2>2
<1>5. CASE ~(k <= l)
  <2>1. IsPrefix(old, q) => old = q
    <3>1. HAVE IsPrefix(old, q)
    <3>2. k = l + 1 BY <1>1, <1>2, <1>5, <3>1
    <3> QED BY <1>0, <1>1, <1>2, <3>1, <3>2, SeqEqual
  <2>2. old = q => IsPrefix(old, q)
    <3>1. IsPrefix(q, q) BY <1>1, PrefixIs
    <3> QED BY <3>1
  <2> QED BY <1>0, <1>3, <1>5, <2>1, <2>2
<1> QED BY <1>4, <1>5

\* A row of the table agrees, spelt out.
LEMMA ParentOf ==
  ASSUME TypeOK, PathsAgree, NEW n \in DOMAIN nodes
  PROVE  /\ Agrees(n) /\ n \in Ids
         /\ nodes[n].parent = 0 => nodes[n].path = Append(<<>>, n)
         /\ nodes[n].parent # 0 =>
              /\ nodes[n].parent \in DOMAIN nodes /\ nodes[nodes[n].parent].ref = None
              /\ nodes[nodes[n].parent].path \in Seq(Ids)
              /\ nodes[n].path = Append(nodes[nodes[n].parent].path, n)
<1>1. Agrees(n) /\ n \in Ids BY RowFields DEF PathsAgree, Agrees
<1>2. nodes[n].parent # 0 =>
        nodes[n].parent \in DOMAIN nodes /\ nodes[nodes[n].parent].ref = None
  BY <1>1 DEF Agrees, MayHold, IsFolder
<1> QED BY <1>1, <1>2, RowFields DEF Agrees, PathOf

\* Whatever selects the parent selects the node.
LEMMA SelectedBelow ==
  ASSUME TypeOK, PathsAgree, NEW n \in DOMAIN nodes, nodes[n].parent # 0,
         NEW path \in Seq(Ids), nodes[n].parent \in Selected(path)
  PROVE  n \in Selected(path)
<1>1. PICK p : p = nodes[n].parent OBVIOUS
<1>2. IsPrefix(path, nodes[p].path) BY <1>1 DEF Selected
<1>3. n \in Ids /\ nodes[p].path \in Seq(Ids) /\ nodes[n].path = Append(nodes[p].path, n)
  BY <1>1, ParentOf
<1>4. IsPrefix(path, nodes[n].path) BY <1>2, <1>3, PrefixOfLonger
<1> QED BY <1>4 DEF Selected

LEMMA PathsKeptByAdds ==
  ASSUME TypeOK, PathsAgree, NEW r \in Requests, Adds(r), UpToDate(r)
  PROVE  PathsAgree'
<1>0. PICK new, p, path : new = lastId + 1 /\ p = req[r].parent /\ path = req[r].path
  OBVIOUS
<1>1. /\ DOMAIN nodes' = DOMAIN nodes \cup {new}
      /\ \A n \in DOMAIN nodes : SameWay(n)
      /\ nodes'[new].parent = p /\ nodes'[new].path = Append(path, new)
  BY <1>0, AddsOne
<1>2. MayHold(p) /\ path = PathOf(p) BY <1>0 DEF Adds, UpToDate
<1>3. ASSUME NEW n \in DOMAIN nodes PROVE Agrees(n)' BY <1>1, ParentOf, AgreesStill
<1>4. Agrees(new)'
  <2>1. CASE p = 0 BY <1>1, <1>2, <2>1 DEF Agrees, MayHold, PathOf
  <2>2. CASE p # 0
    BY <1>1, <1>2, <2>2 DEF Agrees, MayHold, IsFolder, PathOf, SameWay
  <2> QED BY <2>1, <2>2
<1> QED BY <1>1, <1>3, <1>4 DEF PathsAgree, Agrees

\* A removal that leaves no node behind.
LEMMA PathsKeptByRemoval ==
  ASSUME TypeOK, PathsAgree, NEW S, Keep(Ids \ S),
         \A n \in DOMAIN nodes \ S : nodes[n].parent # 0 => nodes[n].parent \notin S
  PROVE  PathsAgree'
<1>1. /\ DOMAIN nodes' = DOMAIN nodes \cap (Ids \ S)
      /\ \A n \in DOMAIN nodes \cap (Ids \ S) : nodes'[n] = nodes[n]
  BY KeepsSome
<1>2. \A n \in DOMAIN nodes : n \in Ids BY RowFields
<1>3. \A n \in DOMAIN nodes \ S : n \in DOMAIN nodes' /\ SameWay(n)
  BY <1>1, <1>2 DEF SameWay
<1>4. ASSUME NEW n \in DOMAIN nodes' PROVE Agrees(n)'
  BY <1>1, <1>3, ParentOf, AgreesStill
<1> QED BY <1>4 DEF PathsAgree, Agrees

LEMMA PathsKeptByDrops ==
  ASSUME TypeOK, PathsAgree, NEW r \in Requests, Drops(r)
  PROVE  PathsAgree'
<1>1. PICK S : Keep(Ids \ S) /\ \A n \in S \cap DOMAIN nodes : nodes[n].ref # None
  BY DEF Drops
<1>2. \A n \in DOMAIN nodes \ S : nodes[n].parent # 0 => nodes[n].parent \notin S
  BY <1>1, ParentOf
<1> QED BY <1>1, <1>2, PathsKeptByRemoval

LEMMA PathsKeptByDeletion ==
  ASSUME TypeOK, PathsAgree, NEW r \in Requests, DeleteFolderTx(r)
  PROVE  PathsAgree'
<1>1. req[r] \in Request /\ req[r].at = "deleteTx" BY DEF TypeOK, DeleteFolderTx
<1>2. req[r].path \in Seq(Ids) BY <1>1, RequestFields
<1>3. Keep(Ids \ Selected(req[r].path)) BY DEF DeleteFolderTx, DeletedWith
<1>4. \A n \in DOMAIN nodes \ Selected(req[r].path) :
        nodes[n].parent # 0 => nodes[n].parent \notin Selected(req[r].path)
  BY <1>2, SelectedBelow
<1> QED BY <1>3, <1>4, PathsKeptByRemoval

LEMMA PathsKeptBySameWays ==
  ASSUME TypeOK, PathsAgree, DOMAIN nodes' = DOMAIN nodes,
         \A n \in DOMAIN nodes : SameWay(n)
  PROVE  PathsAgree'
<1>1. ASSUME NEW n \in DOMAIN nodes PROVE Agrees(n)' BY ParentOf, AgreesStill
<1> QED BY <1>1 DEF PathsAgree, Agrees

\* Below a moved node, a rewritten path follows the parent's rewritten path.
LEMMA RepathLonger ==
  ASSUME NEW path \in Seq(Ids), NEW n \in Ids, NEW old \in Seq(Ids), NEW m \in DOMAIN nodes,
         NEW q \in DOMAIN nodes, m \in Ids, nodes[q].path \in Seq(Ids),
         nodes[m].path = Append(nodes[q].path, m), IsPrefix(old, nodes[q].path)
  PROVE  Repath(path, n, old, m) = Append(Repath(path, n, old, q), m)
<1>0. PICK s, t, w, v, a, here :
        /\ s = Repath(path, n, old, m) /\ t = Repath(path, n, old, q)
        /\ w = nodes[m].path /\ v = nodes[q].path /\ a = Len(old) /\ here = Len(path) + 1
  OBVIOUS
<1>1. /\ a \in Nat /\ here \in Nat /\ Len(path) = here - 1 /\ Len(v) \in Nat
      /\ w \in Seq(Ids) /\ Len(w) = Len(v) + 1
      /\ \A i \in 1 .. Len(v) : w[i] = v[i]
      /\ w[Len(v) + 1] = m
  BY <1>0, LenProperties, AppendFields
<1>2. a <= Len(v) BY <1>0, PrefixIs
<1>3. a <= Len(w) BY <1>1, <1>2
<1>4. Spliced(s, path, n, old, w) BY <1>0, <1>1, <1>3, RepathFields
<1>5. Spliced(t, path, n, old, v) BY <1>0, <1>2, RepathFields
<1>6. PICK more \in Nat :
        /\ Len(v) = a + more /\ Len(t) = here + more
        /\ \A j \in 1 .. more : t[here + j] = v[a + j]
  BY <1>0, <1>5 DEF Spliced
<1>7. PICK more2 \in Nat :
        /\ Len(w) = a + more2 /\ Len(s) = here + more2
        /\ \A j \in 1 .. more2 : s[here + j] = w[a + j]
  BY <1>0, <1>4 DEF Spliced
<1>8. more2 = more + 1 BY <1>1, <1>6, <1>7
<1>9. /\ s \in Seq(Ids) /\ t \in Seq(Ids)
      /\ \A i \in 1 .. here - 1 : s[i] = path[i] /\ t[i] = path[i]
      /\ s[here] = n /\ t[here] = n
  BY <1>0, <1>1, <1>4, <1>5 DEF Spliced
<1>10. /\ Append(t, m) \in Seq(Ids) /\ Len(Append(t, m)) = (here + more) + 1
       /\ \A i \in 1 .. here + more : Append(t, m)[i] = t[i]
       /\ Append(t, m)[(here + more) + 1] = m
  BY <1>6, <1>9, AppendFields
<1>11. s[(here + more) + 1] = m
  <2>1. more + 1 \in 1 .. more2 /\ here + (more + 1) = (here + more) + 1
        /\ a + (more + 1) = Len(v) + 1
    BY <1>1, <1>6, <1>8
  <2>2. s[here + (more + 1)] = w[a + (more + 1)] BY <1>7, <2>1
  <2> QED BY <1>1, <2>1, <2>2
<1>12. ASSUME NEW i \in 1 .. here + more PROVE s[i] = t[i]
  <2>1. CASE i <= here
    <3>1. i \in 1 .. here - 1 \/ i = here BY <1>1, <2>1
    <3> QED BY <1>9, <3>1
  <2>2. CASE ~(i <= here)
    <3>1. PICK j \in 1 .. more : i = here + j
      <4>1. i - here \in 1 .. more /\ i = here + (i - here) BY <1>1, <2>2
      <4> QED BY <4>1
    <3>2. j \in 1 .. more2 /\ a + j \in 1 .. Len(v) BY <1>1, <1>6, <1>8
    <3> QED BY <1>1, <1>6, <1>7, <3>1, <3>2
  <2> QED BY <2>1, <2>2
<1>13. Len(s) = (here + more) + 1 BY <1>1, <1>7, <1>8
<1>14. \A i \in 1 .. (here + more) + 1 : s[i] = Append(t, m)[i]
  <2>1. \A i \in 1 .. (here + more) + 1 : i \in 1 .. here + more \/ i = (here + more) + 1
    BY <1>1
  <2> QED BY <1>10, <1>11, <1>12, <2>1
<1> QED BY <1>0, <1>9, <1>10, <1>13, <1>14, SeqEqual

\* The moved node's own path.
LEMMA RepathSelf ==
  ASSUME NEW path \in Seq(Ids), NEW n \in DOMAIN nodes, n \in Ids, nodes[n].path \in Seq(Ids)
  PROVE  Repath(path, n, nodes[n].path, n) = Append(path, n)
<1>0. PICK s : s = Repath(path, n, nodes[n].path, n) OBVIOUS
<1>1. Len(nodes[n].path) \in Nat BY LenProperties
<1>2. Spliced(s, path, n, nodes[n].path, nodes[n].path) BY <1>0, <1>1, RepathFields
<1>3. PICK more \in Nat :
        Len(nodes[n].path) = Len(nodes[n].path) + more /\ Len(s) = (Len(path) + 1) + more
  BY <1>2 DEF Spliced
<1>4. Len(path) \in Nat BY LenProperties
<1>5. Len(s) = Len(path) + 1 BY <1>1, <1>3, <1>4
<1>6. /\ s \in Seq(Ids) /\ s[Len(path) + 1] = n /\ \A i \in 1 .. Len(path) : s[i] = path[i]
  BY <1>2 DEF Spliced
<1>7. \A i \in 1 .. Len(path) + 1 : i \in 1 .. Len(path) \/ i = Len(path) + 1 BY <1>4
<1>8. \A i \in 1 .. Len(path) + 1 : s[i] = Append(path, n)[i]
  BY <1>6, <1>7, AppendFields
<1> QED BY <1>0, <1>5, <1>6, <1>8, AppendFields, SeqEqual

\* No child of the folder that takes the moved node is in its subtree, nor is the
\* folder, which the check made sure of when the paths were read.
LEMMA TakerIsOutside ==
  ASSUME TypeOK, PathsAgree, NEW r \in Requests, MoveTx(r), Checked(req[r]), UpToDate(r)
  PROVE  LET p == req[r].parent IN
         /\ p \notin Selected(req[r].old)
         /\ \A m \in ChildrenOf(p) : m \notin Selected(req[r].old)
<1>0. PICK n, p, old, path : /\ n = req[r].node /\ p = req[r].parent
                             /\ old = req[r].old /\ path = req[r].path
  OBVIOUS
<1>1. old \in Seq(Ids) /\ Len(old) # 0 /\ old[Len(old)] = n BY <1>0, MovesSubtree
<1>2. /\ n \in DOMAIN nodes /\ old = nodes[n].path /\ nodes[n].parent # p
      /\ MayHold(p) /\ path = PathOf(p) /\ ~IntoItself(path, old)
  BY <1>0 DEF UpToDate, MoveTx, Checked
<1>3. ~IsPrefix(old, path) /\ path \in Seq(Ids)
  <2>1. path \in Seq(Ids) /\ (path = <<>> => Len(path) = 0) /\ Len(old) \in Nat
    BY <1>0, <1>1, MovesSubtree, EmptySeq, LenProperties
  <2>2. ASSUME IsPrefix(old, path) PROVE FALSE
    <3>1. Len(old) <= Len(path) BY <1>1, <2>1, <2>2, PrefixIs
    <3>2. path # <<>> BY <1>1, <2>1, <3>1
    <3> QED BY <1>2, <2>2, <3>2 DEF IntoItself
  <2> QED BY <2>1, <2>2
<1>4. p \notin Selected(old)
  <2>1. CASE p = 0
    <3>1. 0 \notin DOMAIN nodes BY RowFields DEF Ids
    <3> QED BY <2>1, <3>1 DEF Selected
  <2>2. CASE p # 0 BY <1>2, <1>3, <2>2 DEF PathOf, Selected
  <2> QED BY <2>1, <2>2
<1>5. ASSUME NEW m \in ChildrenOf(p), m \in Selected(old) PROVE FALSE
  <2>1. m \in DOMAIN nodes /\ nodes[m].parent = p /\ IsPrefix(old, nodes[m].path)
    BY <1>5 DEF ChildrenOf, Selected
  <2>2. m \in Ids /\ nodes[m].path = Append(path, m) BY <1>2, <2>1, ParentOf DEF Agrees
  <2>3. old = Append(path, m) BY <1>1, <1>3, <2>1, <2>2, PrefixOfLonger
  <2>4. old[Len(old)] = m BY <1>3, <2>2, <2>3, AppendFields
  <2> QED BY <1>1, <1>2, <2>1, <2>4
<1> QED BY <1>0, <1>4, <1>5

LEMMA PathsKeptByMove ==
  ASSUME TypeOK, PathsAgree, NEW r \in Requests, MoveTx(r), Checked(req[r]), UpToDate(r)
  PROVE  PathsAgree'
<1>0. PICK n, p, old, path, subs :
        /\ n = req[r].node /\ p = req[r].parent /\ old = req[r].old /\ path = req[r].path
        /\ subs = Selected(old)
  OBVIOUS
<1>1. /\ n \in Ids /\ old \in Seq(Ids) /\ path \in Seq(Ids) /\ old[Len(old)] = n
      /\ DOMAIN nodes' = DOMAIN nodes
      /\ \A m \in DOMAIN nodes \ subs : SameWay(m)
      /\ \A m \in subs : /\ nodes'[m].path = Repath(path, n, old, m)
                         /\ nodes'[m].ref = nodes[m].ref
                         /\ nodes'[m].parent = IF m = n THEN p ELSE nodes[m].parent
  BY <1>0, MovesSubtree
<1>2. n \in DOMAIN nodes /\ old = nodes[n].path /\ MayHold(p) /\ path = PathOf(p)
  BY <1>0 DEF UpToDate, MoveTx
<1>3. p \notin subs BY <1>0, TakerIsOutside
<1>4. n \in subs
  <2>1. Len(old) \in Nat BY <1>1, LenProperties
  <2> QED BY <1>0, <1>1, <1>2, <2>1, PrefixIs DEF Selected
\* The nodes elsewhere have their parents elsewhere.
<1>5. ASSUME NEW m \in DOMAIN nodes \ subs PROVE Agrees(m)'
  <2>1. nodes[m].parent # 0 => nodes[m].parent \in DOMAIN nodes \ subs
    BY <1>0, <1>1, ParentOf, SelectedBelow
  <2> QED BY <1>1, <2>1, ParentOf, AgreesStill
\* The moved node.
<1>6. Agrees(n)'
  <2>1. nodes'[n].path = Append(path, n) /\ nodes'[n].parent = p
    BY <1>1, <1>2, <1>4, RepathSelf
  <2>2. CASE p = 0 BY <1>2, <2>1, <2>2 DEF Agrees, MayHold, PathOf
  <2>3. CASE p # 0
    <3>1. p \in DOMAIN nodes \ subs /\ nodes[p].ref = None /\ path = nodes[p].path
      BY <1>2, <1>3, <2>3 DEF MayHold, IsFolder, PathOf
    <3> QED BY <1>1, <2>1, <2>3, <3>1 DEF Agrees, MayHold, IsFolder, PathOf, SameWay
  <2> QED BY <2>2, <2>3
\* The nodes below it have their parents in the subtree.
<1>7. ASSUME NEW m \in subs, m # n PROVE Agrees(m)'
  <2>1. m \in DOMAIN nodes /\ IsPrefix(old, nodes[m].path) BY <1>0 DEF Selected
  <2> DEFINE q == nodes[m].parent
  <2>2. old # nodes[m].path
    <3>1. nodes[m].path[Len(nodes[m].path)] = m BY <2>1, RowFields
    <3> QED BY <1>1, <1>7, <3>1
  <2>3. q # 0
    <3>1. ASSUME q = 0 PROVE FALSE
      <4>1. m \in Ids /\ nodes[m].path = Append(<<>>, m) BY <2>1, <3>1, ParentOf
      <4>2. <<>> \in Seq(Ids) /\ Len(<<>>) = 0 BY EmptySeq
      <4>3. IsPrefix(old, <<>>) BY <1>1, <2>1, <2>2, <4>1, <4>2, PrefixOfLonger
      <4>4. Len(old) <= 0 BY <1>1, <4>2, <4>3, PrefixIs
      <4>5. Len(old) \in Nat \ {0} BY <1>0, MovesSubtree
      <4> QED BY <4>4, <4>5
    <3> QED BY <3>1
  <2>4. /\ q \in DOMAIN nodes /\ nodes[q].ref = None /\ nodes[q].path \in Seq(Ids)
        /\ m \in Ids /\ nodes[m].path = Append(nodes[q].path, m)
    BY <2>1, <2>3, ParentOf
  <2>5. IsPrefix(old, nodes[q].path) BY <1>1, <2>1, <2>2, <2>4, PrefixOfLonger
  <2>6. q \in subs BY <1>0, <2>4, <2>5 DEF Selected
  <2>7. nodes'[m].path = Append(nodes'[q].path, m)
    <3> HIDE DEF q
    <3>1. Repath(path, n, old, m) = Append(Repath(path, n, old, q), m)
      BY <1>1, <2>1, <2>4, <2>5, RepathLonger
    <3> QED BY <1>1, <2>6, <3>1
  <2>8. nodes'[m].parent = q /\ q \in DOMAIN nodes' /\ nodes'[q].ref = None
    BY <1>1, <1>7, <2>4, <2>6
  <2> HIDE DEF q
  <2> QED BY <2>3, <2>7, <2>8 DEF Agrees, MayHold, IsFolder, PathOf
<1>8. \A m \in DOMAIN nodes' : Agrees(m)' BY <1>1, <1>5, <1>6, <1>7
<1> QED BY <1>8 DEF PathsAgree, Agrees

-----------------------------------------------------------------------------
(* The theorems.                                                            *)

LEMMA TreeInit == Init => Tree
<1> SUFFICES ASSUME Init PROVE Tree OBVIOUS
<1>1. Idle \in Request /\ Checked(Idle) BY DEF Idle, Request, Checked
<1>2. \A r \in Requests : req[r] = Idle BY DEF Init
<1>3. DOMAIN nodes = {} BY DEF Init
<1>4. TypeOK
  <2>1. nodes \in [DOMAIN nodes -> Row] BY <1>3 DEF Init
  <2> QED BY <1>1, <1>3, <2>1, ProjectTreeAssumption DEF Init, TypeOK, ProjectTreeAssumption
<1> QED BY <1>1, <1>2, <1>4 DEF Tree

LEMMA TreeStep == Tree /\ [Next]_vars => Tree'
<1> SUFFICES ASSUME Tree, [Next]_vars PROVE Tree' OBVIOUS
<1>1. TypeOK' /\ \A r \in Requests : Checked(req'[r]) BY TypesStep
<1>2. \A r \in Requests : Checked(req[r])' BY <1>1 DEF Checked
<1> QED BY <1>1, <1>2 DEF Tree

THEOREM TreeHolds == Spec => []Tree
<1>1. Init => Tree BY TreeInit
<1>2. Tree /\ [Next]_vars => Tree' BY TreeStep
<1> QED BY <1>1, <1>2, PTL DEF Spec

\* The rows, the entities and what every request holds between its reads and its
\* transaction stay of their types, and every path ends with its own node,
\* whatever interleaves.
THEOREM TypeCorrect == Spec => []TypeOK
<1>1. Tree => TypeOK BY DEF Tree
<1> QED BY <1>1, TreeHolds, PTL

\* While every node hangs below the root or an existing folder and its path is that
\* folder's with its own id behind it, this stays so in every step, of however many
\* requests at once, but the insertion or the move of a request for which the parent
\* or the node has changed since it was read.
THEOREM PathsAreFollowed == Spec => PathsFollowParents
<1>1. ASSUME Tree, [Next]_vars
      PROVE  [/\ PathsAgree
              /\ \A r \in Requests : Commits(r) /\ req[r].at # "deleteTx" => UpToDate(r)
              => PathsAgree']_vars
  <2> SUFFICES ASSUME Next, PathsAgree,
                      \A r \in Requests : Commits(r) /\ req[r].at # "deleteTx" => UpToDate(r)
               PROVE  PathsAgree'
    BY <1>1
  <2>1. PICK r \in Requests : Does(r) BY <1>1, StepIs
  <2>2. TypeOK /\ Checked(req[r]) /\ req \in [Requests -> Request] BY <1>1 DEF Tree, TypeOK
  <2>3. Adds(r) \/ MoveTx(r) => UpToDate(r)
    <3>1. HAVE Adds(r) \/ MoveTx(r)
    <3>2. Answer(r) /\ req[r].at \in {"insert", "createTx", "mountTx", "moveTx"}
      BY <3>1 DEF Adds, MoveTx
    <3>3. Commits(r) BY <2>2, <3>2 DEF Answer, Idle, Commits
    <3> QED BY <3>2, <3>3
  <2>4. CASE Looks(r) \/ Renumbers(r)
    <3>1. DOMAIN nodes' = DOMAIN nodes /\ \A n \in DOMAIN nodes : SameWay(n)
      BY <2>4 DEF Looks, Renumbers, SameWays, SameWay
    <3> QED BY <2>2, <3>1, PathsKeptBySameWays
  <2> QED
    BY <2>1, <2>2, <2>3, <2>4, PathsKeptByAdds, PathsKeptByDrops, PathsKeptByMove,
       PathsKeptByDeletion
    DEF Does
<1> QED BY <1>1, TreeHolds, PTL DEF Spec, PathsFollowParents

-----------------------------------------------------------------------------
(* Numbering.                                                               *)

\* Only the transaction of a request ends it from these states.
LEMMA EndsByItself ==
  ASSUME TypeOK, Next, NEW r \in Requests,
         req[r].at \in {"createTx", "mountTx", "moveTx", "deleteTx"}, Commits(r)
  PROVE  CreateApiTx(r) \/ MountTx(r) \/ MoveTx(r) \/ DeleteFolderTx(r)
<1>1. req \in [Requests -> Request] BY DEF TypeOK
<1>2. PICK s \in Requests :
        \/ Step(s) /\ UNCHANGED begun
        \/ \E p \in Parents : CreateFolder(s, p) \/ CreateApi(s, p) \/ Reorder(s, p)
        \/ \E a \in Apis, p \in Parents :
             \/ AiCreateApi(s, a, p) \/ AiMount(s, a, p)
             \/ \E i \in Indexes : Mount(s, a, p, i)
        \/ \E n \in DOMAIN nodes, p \in Parents :
             AiMove(s, n, p) \/ \E i \in Indexes : Move(s, n, p, i)
        \/ \E n \in DOMAIN nodes : DeleteFolder(s, n) \/ Unmount(s, n)
        \/ \E a \in Apis : DeleteApi(s, a) \/ AiDeleteApi(s, a)
  BY DEF Next
<1>3. req' = req \/ \E x : req' = [req EXCEPT ![s] = x]
  BY <1>2, ZenonT(40)
  DEF Step, CreateFolder, CountChildren, CreateApi, Mount, MountPath, MountCheck,
      AiCreateApi, AiMount, AiMountPath, Move, MoveRead, AiMove, AiMovePath, DeleteFolder,
      Insert, CreateApiTx, MountTx, Unmount, DeleteApi, AiDeleteApi, Reorder, MoveTx,
      DeleteFolderTx, Go, Answer
<1>4. s = r BY <1>1, <1>3 DEF Commits
<1>5. req[r].at # "idle" OBVIOUS
<1>6. ~Begin(r) BY <1>5 DEF Begin
<1>7. Step(r)
  BY <1>2, <1>4, <1>6, Zenon
  DEF CreateFolder, CreateApi, Mount, AiCreateApi, AiMount, Move, AiMove, DeleteFolder,
      Unmount, DeleteApi, AiDeleteApi, Reorder
<1> QED
  BY <1>7
  DEF Step, CountChildren, Insert, MountPath, MountCheck, AiMountPath, MoveRead, AiMovePath

\* One more among siblings numbered without gaps: those from its place on make room.
LEMMA RoomIsMade ==
  ASSUME TypeOK, NEW p, NEW i \in Indexes \cup {None}, Contiguous(nodes, p),
         NEW new, new \notin ChildrenOf(p), ChildrenOf(p)' = ChildrenOf(p) \cup {new},
         nodes'[new].order = OrderFor(i, p),
         \A m \in ChildrenOf(p) :
           nodes'[m].order =
             IF i # None /\ OrderFor(i, p) < ChildCount(p) /\ nodes[m].order >= OrderFor(i, p)
             THEN nodes[m].order + 1 ELSE nodes[m].order
  PROVE  Contiguous(nodes', p)
<1>0. PICK C, c, k : C = ChildrenOf(p) /\ c = ChildCount(p) /\ k = OrderFor(i, p) OBVIOUS
<1>1. IsFiniteSet(C) /\ c \in Nat /\ c = Cardinality(C) BY <1>0, FiniteTable DEF ChildCount
<1>2. k \in 0 .. c /\ (k < c => i # None)
  BY <1>0, <1>1, ProjectTreeAssumption DEF OrderFor, ProjectTreeAssumption
<1>3. {nodes[m].order : m \in C} = 0 .. c - 1
  BY <1>0, <1>1 DEF Contiguous, ChildrenOf
<1>4. \A m \in C : nodes[m].order \in 0 .. c - 1 BY <1>3
<1>5. \A o \in 0 .. c - 1 : \E m \in C : nodes[m].order = o BY <1>3
<1>6. \A m \in C : nodes'[m].order =
        IF k < c /\ nodes[m].order >= k THEN nodes[m].order + 1 ELSE nodes[m].order
  BY <1>0, <1>2
<1>7. Cardinality(C \cup {new}) = c + 1 BY <1>0, <1>1, FS_AddElement
<1>8. \A m \in C : nodes'[m].order \in 0 .. c BY <1>1, <1>2, <1>4, <1>6
<1>9. ASSUME NEW o \in 0 .. c PROVE \E m \in C \cup {new} : nodes'[m].order = o
  <2>1. CASE o < k
    <3>1. PICK m \in C : nodes[m].order = o BY <1>1, <1>2, <1>5, <2>1
    <3> QED BY <1>1, <1>2, <1>6, <2>1, <3>1
  <2>2. CASE o = k BY <1>0, <2>2
  <2>3. CASE o > k
    <3>1. o - 1 \in 0 .. c - 1 /\ o - 1 >= k /\ k < c /\ (o - 1) + 1 = o
      BY <1>1, <1>2, <2>3
    <3>2. PICK m \in C : nodes[m].order = o - 1 BY <1>5, <3>1
    <3> QED BY <1>6, <3>1, <3>2
  <2> QED BY <1>1, <1>2, <2>1, <2>2, <2>3
<1>10. nodes'[new].order \in 0 .. c BY <1>0, <1>2
<1>11. {nodes'[m].order : m \in C \cup {new}} = 0 .. c BY <1>8, <1>9, <1>10
<1>12. C \cup {new} = {m \in DOMAIN nodes' : nodes'[m].parent = p}
  BY <1>0 DEF ChildrenOf
<1>13. (c + 1) - 1 = c BY <1>1
<1> QED BY <1>7, <1>11, <1>12, <1>13 DEF Contiguous

LEMMA CreationKeepsNumbering ==
  ASSUME TypeOK, NEW r \in Requests, CreateApiTx(r), Contiguous(nodes, req[r].parent)
  PROVE  Contiguous(nodes', req[r].parent)
<1>0. PICK new, p : new = lastId + 1 /\ p = req[r].parent OBVIOUS
<1>1. Adds(r) BY Adders
<1>2. /\ new \notin DOMAIN nodes /\ DOMAIN nodes' = DOMAIN nodes \cup {new}
      /\ \A n \in DOMAIN nodes : SameWay(n)
      /\ nodes'[new].parent = p
  BY <1>0, <1>1, AddsOne
<1>3. ChildrenOf(p)' = ChildrenOf(p) \cup {new} /\ new \notin ChildrenOf(p)
  BY <1>2 DEF ChildrenOf, SameWay
<1>4. /\ nodes'[new].order = ChildCount(p)
      /\ \A m \in DOMAIN nodes : nodes'[m].order = nodes[m].order
  <2>1. nodes' = [n \in DOMAIN nodes \cup {new} |->
          IF n # new THEN nodes[n]
          ELSE [parent |-> p, ref |-> req[r].ref, path |-> Append(req[r].path, n),
                order |-> ChildCount(p)]]
    BY <1>0 DEF CreateApiTx, Inserted
  <2> QED BY <1>2, <2>1
<1>5. OrderFor(None, p) = ChildCount(p) BY DEF OrderFor
<1>6. \A m \in ChildrenOf(p) : m \in DOMAIN nodes BY DEF ChildrenOf
<1>7. \A m \in ChildrenOf(p) :
        nodes'[m].order =
          IF None # None /\ OrderFor(None, p) < ChildCount(p)
             /\ nodes[m].order >= OrderFor(None, p)
          THEN nodes[m].order + 1 ELSE nodes[m].order
  BY <1>4, <1>6
<1>8. None \in Indexes \cup {None} /\ Contiguous(nodes, p) BY <1>0
<1>9. nodes'[new].order = OrderFor(None, p) BY <1>4, <1>5
<1> QED BY <1>0, <1>3, <1>7, <1>8, <1>9, RoomIsMade

LEMMA MountKeepsNumbering ==
  ASSUME TypeOK, NEW r \in Requests, MountTx(r), Contiguous(nodes, req[r].parent)
  PROVE  Contiguous(nodes', req[r].parent)
<1>0. PICK new, p, i, S, order :
        /\ new = lastId + 1 /\ p = req[r].parent /\ i = req[r].index
        /\ S = Shifted(i, p, 0) /\ order = OrderFor(i, p)
  OBVIOUS
<1>1. Adds(r) BY Adders
<1>2. /\ new \notin DOMAIN nodes /\ DOMAIN nodes' = DOMAIN nodes \cup {new}
      /\ \A n \in DOMAIN nodes : SameWay(n)
      /\ nodes'[new].parent = p
  BY <1>0, <1>1, AddsOne
<1>3. ChildrenOf(p)' = ChildrenOf(p) \cup {new} /\ new \notin ChildrenOf(p)
  BY <1>2 DEF ChildrenOf, SameWay
<1>4. /\ nodes'[new].order = order
      /\ \A m \in DOMAIN nodes : nodes'[m].order = Shift(S)[m].order
  <2>1. DOMAIN Shift(S) = DOMAIN nodes BY DEF Shift
  <2>2. nodes' = [n \in DOMAIN nodes \cup {new} |->
          IF n # new THEN Shift(S)[n]
          ELSE [parent |-> p, ref |-> req[r].ref, path |-> Append(req[r].path, n),
                order |-> order]]
    BY <1>0, <2>1 DEF MountTx, Inserted
  <2> QED BY <1>2, <2>2
<1>5. \A m \in DOMAIN nodes :
        Shift(S)[m].order = IF m \in S THEN nodes[m].order + 1 ELSE nodes[m].order
  BY ShiftedOrder
<1>6. \A m \in ChildrenOf(p) :
        /\ m \in DOMAIN nodes /\ m # 0
        /\ m \in S <=> i # None /\ order < ChildCount(p) /\ nodes[m].order >= order
  <2>1. \A m \in ChildrenOf(p) : m \in DOMAIN nodes BY DEF ChildrenOf
  <2>2. \A m \in DOMAIN nodes : m # 0 BY RowFields DEF Ids
  <2> QED BY <1>0, <2>1, <2>2 DEF Shifted
<1>7. \A m \in ChildrenOf(p) :
        nodes'[m].order =
          IF i # None /\ OrderFor(i, p) < ChildCount(p) /\ nodes[m].order >= OrderFor(i, p)
          THEN nodes[m].order + 1 ELSE nodes[m].order
  BY <1>0, <1>4, <1>5, <1>6
<1>8. i \in Indexes \cup {None}
  <2>1. req[r] \in Request /\ req[r].at = "mountTx" BY DEF TypeOK, MountTx
  <2> QED BY <1>0, <2>1, RequestFields
<1> QED BY <1>0, <1>3, <1>4, <1>7, <1>8, RoomIsMade

LEMMA MoveKeepsNumbering ==
  ASSUME TypeOK, PathsAgree, NEW r \in Requests, MoveTx(r), Checked(req[r]), UpToDate(r),
         Contiguous(nodes, req[r].parent)
  PROVE  Contiguous(nodes', req[r].parent)
<1>0. PICK n, p, i, old, subs, S, order :
        /\ n = req[r].node /\ p = req[r].parent /\ i = req[r].index /\ old = req[r].old
        /\ subs = Selected(old) /\ S = Shifted(i, p, n) /\ order = OrderFor(i, p)
  OBVIOUS
<1>1. n \in DOMAIN nodes /\ old = nodes[n].path /\ nodes[n].parent # p
  BY <1>0 DEF UpToDate, MoveTx
<1>2. /\ old \in Seq(Ids) /\ Len(old) \in Nat \ {0} /\ old[Len(old)] = n
      /\ \A m \in DOMAIN nodes \ subs : SameWay(m)
      /\ \A m \in subs : nodes'[m].parent = IF m = n THEN p ELSE nodes[m].parent
      /\ DOMAIN nodes' = DOMAIN nodes
  BY <1>0, MovesSubtree
<1>3. n \in subs
  <2>1. IsPrefix(old, old) BY <1>2, PrefixIs
  <2> QED BY <1>0, <1>1, <2>1 DEF Selected
<1>4. ASSUME NEW m \in ChildrenOf(p) PROVE m \in DOMAIN nodes /\ m # n /\ m \notin subs
  BY <1>0, <1>1, TakerIsOutside DEF ChildrenOf
<1>5. ChildrenOf(p)' = ChildrenOf(p) \cup {n} /\ n \notin ChildrenOf(p)
  <2>1. \A m \in DOMAIN nodes : m # n => nodes'[m].parent = nodes[m].parent
    BY <1>2 DEF SameWay
  <2>2. nodes'[n].parent = p BY <1>2, <1>3
  <2> QED BY <1>1, <1>2, <2>1, <2>2 DEF ChildrenOf
<1>6. nodes' = [m \in DOMAIN nodes |->
       IF m \notin subs THEN Shift(S)[m]
       ELSE [nodes[m] EXCEPT !.path = Repath(req[r].path, n, old, m),
                             !.parent = IF m = n THEN p ELSE nodes[m].parent,
                             !.order = IF m = n THEN order ELSE nodes[m].order]]
  BY <1>0 DEF MoveTx
<1>7. nodes'[n].order = order
  <2>1. nodes[n] \in Row BY <1>1, RowFields
  <2>2. nodes'[n] = [nodes[n] EXCEPT !.path = Repath(req[r].path, n, old, n),
                                     !.parent = p, !.order = order]
    BY <1>1, <1>3, <1>6
  <2> QED BY <2>1, <2>2 DEF Row
<1>8. \A m \in ChildrenOf(p) :
        nodes'[m].order = IF m \in S THEN nodes[m].order + 1 ELSE nodes[m].order
  BY <1>4, <1>6, ShiftedOrder
<1>9. \A m \in ChildrenOf(p) :
        m \in S <=> i # None /\ order < ChildCount(p) /\ nodes[m].order >= order
  BY <1>0, <1>4 DEF Shifted
<1>10. \A m \in ChildrenOf(p) :
        nodes'[m].order =
          IF i # None /\ OrderFor(i, p) < ChildCount(p) /\ nodes[m].order >= OrderFor(i, p)
          THEN nodes[m].order + 1 ELSE nodes[m].order
  BY <1>0, <1>8, <1>9
<1>11. i \in Indexes \cup {None}
  <2>1. req[r] \in Request /\ req[r].at = "moveTx" BY DEF TypeOK, MoveTx
  <2> QED BY <1>0, <2>1, RequestFields
<1> QED BY <1>0, <1>5, <1>7, <1>10, <1>11, RoomIsMade

\* Siblings numbered without gaps stay so whatever is created or mounted among them
\* in one transaction, at any index, also one beyond the last, and whatever other
\* requests do meanwhile; and whatever is moved there by a request that was not
\* overtaken.
THEOREM NumberingIsKept == Spec => InsertionKeepsNumbering
<1>1. ASSUME Tree, [Next]_vars
      PROVE  [\A r \in Requests :
                /\ Commits(r) /\ req[r].at \in {"createTx", "mountTx", "moveTx"}
                /\ req[r].at = "moveTx" => PathsAgree /\ UpToDate(r)
                /\ Contiguous(nodes, req[r].parent)
                => Contiguous(nodes', req[r].parent)]_vars
  <2> SUFFICES ASSUME Next, NEW r \in Requests, Commits(r),
                      req[r].at \in {"createTx", "mountTx", "moveTx"},
                      req[r].at = "moveTx" => PathsAgree /\ UpToDate(r),
                      Contiguous(nodes, req[r].parent)
               PROVE  Contiguous(nodes', req[r].parent)
    BY <1>1
  <2>1. TypeOK /\ Checked(req[r]) BY <1>1 DEF Tree
  <2>2. CreateApiTx(r) \/ MountTx(r) \/ MoveTx(r)
    BY <2>1, EndsByItself DEF DeleteFolderTx
  <2>3. MoveTx(r) => PathsAgree /\ UpToDate(r) BY DEF MoveTx
  <2> QED
    BY <2>1, <2>2, <2>3, CreationKeepsNumbering, MountKeepsNumbering, MoveKeepsNumbering
<1> QED BY <1>1, TreeHolds, PTL DEF Spec, InsertionKeepsNumbering

-----------------------------------------------------------------------------
(* The subtree that is displayed is the one a path selects.                 *)

\* The k-th id of n's path is a node, a folder if it is not the last; its own
\* path is what n's path has up to there.
Passes(n, k) ==
  LET m == nodes[n].path[k] IN
  /\ m \in DOMAIN nodes
  /\ Len(nodes[m].path) = k
  /\ \A i \in 1 .. k : nodes[m].path[i] = nodes[n].path[i]
  /\ k < Len(nodes[n].path) => nodes[m].ref = None

\* The path of n leads through folders, the last of which is its parent.
OnItsWay(n) ==
  LET last == Len(nodes[n].path) IN
  /\ \A k \in 1 .. last : Passes(n, k)
  /\ nodes[n].parent = IF last = 1 THEN 0 ELSE nodes[n].path[last - 1]

WaysHold == \A n \in DOMAIN nodes : OnItsWay(n)

LEMMA Least ==
  ASSUME NEW M \in Nat, NEW T \in SUBSET (0 .. M), T # {}
  PROVE  \E x \in T : \A y \in T : x <= y
<1> DEFINE Segments == {1 .. x : x \in T}
           Below == StrictSubsetOrdering(1 .. M)
<1>1. IsFiniteSet(1 .. M) BY FS_Interval
<1>2. IsWellFoundedOn(Below, SUBSET (1 .. M))
  BY <1>1, FS_FiniteSubsetsOfFinite, FS_StrictSubsetOrderingWellFounded
<1>3. \A x \in T : 1 .. x \subseteq 1 .. M OBVIOUS
<1>4. Segments \subseteq SUBSET (1 .. M) /\ Segments # {} BY <1>3, Zenon
<1>5. \E s \in Segments : \A t \in Segments : ~ (<<t, s>> \in Below)
  BY <1>2, <1>4, WFMin
<1>6. PICK x \in T : \A y \in T : ~ (<<1 .. y, 1 .. x>> \in Below) BY <1>5
<1>7. ASSUME NEW y \in T, y < x PROVE FALSE
  <2>1. x \in 1 .. x /\ x \notin 1 .. y BY <1>7
  <2>2. 1 .. y \subseteq 1 .. x BY <1>7
  <2>3. <<1 .. y, 1 .. x>> \in Below BY <1>3, <2>1, <2>2, Zenon DEF StrictSubsetOrdering
  <2> QED BY <1>6, <2>3
<1> QED BY <1>7

LEMMA OneFurther ==
  ASSUME TypeOK, NEW n \in DOMAIN nodes, NEW p \in DOMAIN nodes, nodes[n].parent = p,
         nodes[p].ref = None, OnItsWay(p), nodes[n].path = Append(nodes[p].path, n)
  PROVE  OnItsWay(n)
<1>0. PICK path, l : path = nodes[p].path /\ l = Len(path) OBVIOUS
<1>1. /\ path \in Seq(Ids) /\ l \in Nat \ {0} /\ path[l] = p /\ n \in Ids
  BY <1>0, RowFields
<1>2. /\ Len(nodes[n].path) = l + 1
      /\ \A i \in 1 .. l : nodes[n].path[i] = path[i]
      /\ nodes[n].path[l + 1] = n
  BY <1>0, <1>1, AppendFields
<1>3. Passes(n, l + 1) BY <1>1, <1>2 DEF Passes
<1>4. ASSUME NEW k \in 1 .. l PROVE Passes(n, k)
  <2> DEFINE m == path[k]
  <2>1. /\ m \in DOMAIN nodes /\ Len(nodes[m].path) = k
        /\ \A i \in 1 .. k : nodes[m].path[i] = path[i]
        /\ k < l => nodes[m].ref = None
    BY <1>0 DEF OnItsWay, Passes
  <2>2. nodes[m].ref = None BY <1>1, <2>1
  <2>3. m = nodes[n].path[k] BY <1>2
  <2>4. \A i \in 1 .. k : nodes[n].path[i] = path[i] BY <1>1, <1>2
  <2> HIDE DEF m
  <2> QED BY <2>1, <2>2, <2>3, <2>4 DEF Passes
<1>5. \A k \in 1 .. Len(nodes[n].path) : Passes(n, k)
  <2>1. \A k \in 1 .. l + 1 : k \in 1 .. l \/ k = l + 1 BY <1>1
  <2> QED BY <1>2, <1>3, <1>4, <2>1
<1>6. l + 1 # 1 /\ (l + 1) - 1 = l /\ l \in 1 .. l BY <1>1
<1>7. nodes[n].path[Len(nodes[n].path) - 1] = p BY <1>1, <1>2, <1>6
<1> QED BY <1>2, <1>5, <1>6, <1>7 DEF OnItsWay

\* Paths that follow parents lead through folders: of the nodes whose path does not,
\* take one with the shortest path, and look at its parent.
LEMMA AgreeingWaysHold ==
  ASSUME TypeOK, PathsAgree
  PROVE  WaysHold
<1> SUFFICES ASSUME NEW n0 \in DOMAIN nodes, ~OnItsWay(n0) PROVE FALSE BY DEF WaysHold
<1> DEFINE M == Len(nodes[n0].path)
           T == {l \in 0 .. M : \E n \in DOMAIN nodes :
                                  ~OnItsWay(n) /\ Len(nodes[n].path) = l}
<1>1. M \in Nat BY RowFields
<1>2. M \in T BY <1>1
<1>3. PICK x \in T : \A y \in T : x <= y
  <2>1. T \in SUBSET (0 .. M) /\ T # {} BY <1>2
  <2> HIDE DEF T, M
  <2> QED BY <1>1, <2>1, Least
<1>4. PICK n \in DOMAIN nodes : ~OnItsWay(n) /\ Len(nodes[n].path) = x BY <1>3
<1>5. CASE nodes[n].parent = 0
  <2>1. n \in Ids /\ nodes[n].path = Append(<<>>, n) BY <1>5, ParentOf
  <2>2. <<>> \in Seq(Ids) /\ Len(<<>>) = 0 BY EmptySeq
  <2>3. Len(nodes[n].path) = 1 /\ nodes[n].path[1] = n
    BY <2>1, <2>2, AppendFields
  <2>4. \A k \in 1 .. 1 : Passes(n, k) BY <2>3 DEF Passes
  <2> QED BY <1>4, <1>5, <2>3, <2>4 DEF OnItsWay
<1>6. CASE nodes[n].parent # 0
  <2> DEFINE p == nodes[n].parent
  <2>1. /\ p \in DOMAIN nodes /\ nodes[p].ref = None /\ nodes[p].path \in Seq(Ids)
        /\ n \in Ids /\ nodes[n].path = Append(nodes[p].path, n)
    BY <1>6, ParentOf
  <2>2. Len(nodes[p].path) \in Nat /\ x = Len(nodes[p].path) + 1
    BY <1>4, <2>1, AppendFields
  <2>3. Len(nodes[p].path) \in 0 .. M /\ ~(x <= Len(nodes[p].path)) BY <1>1, <1>3, <2>2
  <2>4. Len(nodes[p].path) \notin T BY <1>3, <2>3
  <2>5. OnItsWay(p) BY <2>1, <2>3, <2>4
  <2> QED BY <1>4, <2>1, <2>5, OneFurther
<1> QED BY <1>5, <1>6

\* One parent after the other.
Climbs(up, n) ==
  up = [k \in 0 .. MaxId |->
          IF k = 0 THEN n
          ELSE IF up[k - 1] \in DOMAIN nodes THEN nodes[up[k - 1]].parent ELSE 0]

\* The path of n read from its end.
Backwards(n) ==
  [k \in 0 .. MaxId |->
     IF k < Len(nodes[n].path) THEN nodes[n].path[Len(nodes[n].path) - k] ELSE 0]

LEMMA PathClimbs ==
  ASSUME TypeOK, WaysHold, NEW n \in DOMAIN nodes
  PROVE  Climbs(Backwards(n), n)
<1>0. PICK path, l, W : path = nodes[n].path /\ l = Len(path) /\ W = Backwards(n) OBVIOUS
<1>1. l \in Nat \ {0} /\ path[l] = n /\ OnItsWay(n) BY <1>0, RowFields DEF WaysHold
<1>2. /\ MaxId \in Nat
      /\ W = [k \in 0 .. MaxId |-> IF k < l THEN path[l - k] ELSE 0]
  BY <1>0, ProjectTreeAssumption DEF Backwards, ProjectTreeAssumption
<1>3. 0 \notin DOMAIN nodes BY RowFields DEF Ids
<1>4. ASSUME NEW k \in 0 .. MaxId
      PROVE  W[k] = IF k = 0 THEN n
                    ELSE IF W[k - 1] \in DOMAIN nodes THEN nodes[W[k - 1]].parent ELSE 0
  <2>1. CASE k = 0
    <3>1. 0 \in 0 .. MaxId /\ 0 < l /\ l - 0 = l BY <1>1, <1>2
    <3> QED BY <1>1, <1>2, <2>1, <3>1
  <2>2. CASE k # 0
    <3>1. PICK j \in 0 .. MaxId : j = k - 1 /\ k = j + 1 BY <1>2, <2>2
    <3>2. CASE j < l
      <4>1. PICK i \in 1 .. l : i = l - j BY <1>1, <3>1, <3>2
      <4>2. PICK a : a = path[i] /\ W[j] = a BY <1>2, <3>1, <3>2, <4>1
      <4>3. Passes(n, i) BY <1>0, <1>1, <4>1 DEF OnItsWay
      <4>4. /\ a \in DOMAIN nodes /\ Len(nodes[a].path) = i
            /\ \A x \in 1 .. i : nodes[a].path[x] = path[x]
        BY <1>0, <4>2, <4>3 DEF Passes
      <4>5. nodes[a].parent = IF i = 1 THEN 0 ELSE nodes[a].path[i - 1]
        BY <4>4 DEF WaysHold, OnItsWay
      <4>6. CASE i = 1
        <5>1. ~(k < l) BY <1>1, <3>1, <4>1, <4>6
        <5>2. W[k] = 0 BY <1>2, <5>1
        <5> QED BY <2>2, <3>1, <4>2, <4>4, <4>5, <4>6, <5>2
      <4>7. CASE i # 1
        <5>1. k < l /\ l - k = i - 1 /\ i - 1 \in 1 .. i BY <1>1, <3>1, <4>1, <4>7
        <5>2. W[k] = path[i - 1] BY <1>2, <5>1
        <5> QED BY <2>2, <3>1, <4>2, <4>4, <4>5, <4>7, <5>1, <5>2
      <4> QED BY <4>6, <4>7
    <3>3. CASE ~(j < l)
      <4>1. ~(k < l) BY <1>1, <3>1, <3>3
      <4>2. W[j] = 0 /\ W[k] = 0 BY <1>2, <3>1, <3>3, <4>1
      <4> QED BY <1>3, <2>2, <3>1, <4>2
    <3> QED BY <3>2, <3>3
  <2> QED BY <2>1, <2>2
<1>5. W = [k \in 0 .. MaxId |->
             IF k = 0 THEN n
             ELSE IF W[k - 1] \in DOMAIN nodes THEN nodes[W[k - 1]].parent ELSE 0]
  <2>1. W = [k \in 0 .. MaxId |-> W[k]] BY <1>2
  <2> QED BY <1>4, <2>1
<1> QED BY <1>0, <1>5 DEF Climbs

\* There is one way to climb.
LEMMA ClimbsAlike ==
  ASSUME NEW n, NEW up, NEW down, Climbs(up, n), Climbs(down, n)
  PROVE  up = down
<1> DEFINE T == {k \in 0 .. MaxId : up[k] # down[k]}
<1>1. MaxId \in Nat BY ProjectTreeAssumption DEF ProjectTreeAssumption
<1>2. ASSUME T # {} PROVE FALSE
  <2>1. PICK k \in T : \A y \in T : k <= y
    <3>1. T \in SUBSET (0 .. MaxId) OBVIOUS
    <3> HIDE DEF T
    <3> QED BY <1>1, <1>2, <3>1, Least
  <2>2. CASE k = 0 BY <1>1, <2>1, <2>2 DEF Climbs
  <2>3. CASE k # 0
    <3>1. k - 1 \in 0 .. MaxId /\ ~(k <= k - 1) BY <1>1, <2>1, <2>3
    <3>2. up[k - 1] = down[k - 1] BY <2>1, <3>1
    <3>3. /\ up[k] = IF up[k - 1] \in DOMAIN nodes THEN nodes[up[k - 1]].parent ELSE 0
          /\ down[k] = IF down[k - 1] \in DOMAIN nodes THEN nodes[down[k - 1]].parent ELSE 0
      BY <2>1, <2>3 DEF Climbs
    <3> QED BY <2>1, <3>2, <3>3
  <2> QED BY <2>2, <2>3
<1>3. \A k \in 0 .. MaxId : up[k] = down[k] BY <1>2
<1>4. up = [k \in 0 .. MaxId |-> up[k]] /\ down = [k \in 0 .. MaxId |-> down[k]]
  BY DEF Climbs
<1> QED BY <1>3, <1>4

LEMMA WayIs ==
  ASSUME TypeOK, WaysHold, NEW n \in DOMAIN nodes
  PROVE  Way(n) = Backwards(n)
<1>1. Climbs(Backwards(n), n) BY PathClimbs
<1>2. Way(n) = CHOOSE up : Climbs(up, n) BY DEF Way, Climbs
<1>3. Climbs(Way(n), n) BY <1>1, <1>2
<1> QED BY <1>1, <1>3, ClimbsAlike

\* The ids of a path differ, so it is not longer than there are ids.
LEMMA PathsAreShort ==
  ASSUME TypeOK, WaysHold, NEW n \in DOMAIN nodes
  PROVE  Len(nodes[n].path) <= MaxId
<1>0. PICK path, l : path = nodes[n].path /\ l = Len(path) OBVIOUS
<1>1. l \in Nat /\ path \in Seq(Ids) /\ OnItsWay(n) BY <1>0, RowFields DEF WaysHold
<1>2. MaxId \in Nat BY ProjectTreeAssumption DEF ProjectTreeAssumption
<1>3. \A k \in 1 .. l : path[k] \in Ids /\ Len(nodes[path[k]].path) = k
  BY <1>0, <1>1, RowFields DEF OnItsWay, Passes
<1> DEFINE f == [k \in 1 .. l |-> path[k]]
<1>4. f \in Injection(1 .. l, 1 .. MaxId) BY <1>3 DEF Injection, IsInjective, Ids
<1>5. /\ IsFiniteSet(1 .. l) /\ Cardinality(1 .. l) = l
      /\ IsFiniteSet(1 .. MaxId) /\ Cardinality(1 .. MaxId) = MaxId
  BY <1>1, <1>2, FS_Interval
<1> HIDE DEF f
<1>6. Cardinality(1 .. l) <= Cardinality(1 .. MaxId) BY <1>4, <1>5, FS_Injection
<1> QED BY <1>0, <1>5, <1>6

LEMMA SelectedIsSubtree ==
  ASSUME TypeOK, WaysHold, NEW f \in DOMAIN nodes
  PROVE  Selected(nodes[f].path) = Subtree(f)
<1>0. PICK l : l = Len(nodes[f].path) OBVIOUS
<1>1. /\ f \in Ids /\ f # 0 /\ l \in Nat \ {0} /\ nodes[f].path \in Seq(Ids)
      /\ nodes[f].path[l] = f
  BY <1>0, RowFields DEF Ids
<1>2. MaxId \in Nat BY ProjectTreeAssumption DEF ProjectTreeAssumption
<1>3. ASSUME NEW n \in DOMAIN nodes
      PROVE  IsPrefix(nodes[f].path, nodes[n].path) <=> \E k \in 0 .. MaxId : Way(n)[k] = f
  <2>0. PICK path, m : path = nodes[n].path /\ m = Len(path) OBVIOUS
  <2>1. /\ m \in Nat \ {0} /\ path \in Seq(Ids) /\ OnItsWay(n) /\ m <= MaxId
    BY <2>0, RowFields, PathsAreShort DEF WaysHold
  <2>2. \A k \in 0 .. MaxId : Way(n)[k] = IF k < m THEN path[m - k] ELSE 0
    BY <2>0, WayIs DEF Backwards
  <2>3. ASSUME IsPrefix(nodes[f].path, path) PROVE \E k \in 0 .. MaxId : Way(n)[k] = f
    <3>1. l <= m /\ path[l] = f BY <1>0, <1>1, <2>0, <2>1, <2>3, PrefixIs
    <3>2. PICK k \in 0 .. MaxId : k = m - l BY <1>1, <1>2, <2>1, <3>1
    <3>3. k < m /\ m - k = l BY <1>1, <2>1, <3>1, <3>2
    <3> QED BY <2>2, <3>1, <3>2, <3>3
  <2>4. ASSUME NEW k \in 0 .. MaxId, Way(n)[k] = f PROVE IsPrefix(nodes[f].path, path)
    <3>1. k < m /\ path[m - k] = f BY <1>1, <2>2, <2>4
    <3>2. PICK j \in 1 .. m : j = m - k BY <1>2, <2>1, <3>1
    <3>3. Passes(n, j) BY <2>0, <2>1, <3>2 DEF OnItsWay
    <3>4. l = j /\ \A i \in 1 .. l : nodes[f].path[i] = path[i]
      BY <1>0, <2>0, <3>1, <3>2, <3>3 DEF Passes
    <3>5. l <= m BY <2>1, <3>2, <3>4
    <3> QED BY <1>0, <1>1, <2>0, <2>1, <3>4, <3>5, PrefixIs
  <2> QED BY <2>0, <2>3, <2>4
<1> QED BY <1>3 DEF Selected, Subtree

\* A path that ends with a node and selects anything is that node's path.
LEMMA SelectingPath ==
  ASSUME TypeOK, WaysHold, NEW path \in Seq(Ids), NEW f, Len(path) # 0, path[Len(path)] = f,
         NEW n \in Selected(path)
  PROVE  f \in DOMAIN nodes /\ nodes[f].path = path
<1>0. PICK l : l = Len(path) OBVIOUS
<1>1. n \in DOMAIN nodes /\ IsPrefix(path, nodes[n].path) BY DEF Selected
<1>2. /\ nodes[n].path \in Seq(Ids) /\ Len(nodes[n].path) \in Nat /\ l \in Nat /\ l # 0
      /\ OnItsWay(n)
  BY <1>0, <1>1, RowFields, LenProperties DEF WaysHold
<1>3. l <= Len(nodes[n].path) /\ \A i \in 1 .. l : path[i] = nodes[n].path[i]
  BY <1>0, <1>1, <1>2, PrefixIs
<1>4. l \in 1 .. l /\ l \in 1 .. Len(nodes[n].path) BY <1>2, <1>3
<1>5. f = nodes[n].path[l] /\ Passes(n, l) BY <1>0, <1>2, <1>3, <1>4 DEF OnItsWay
<1>6. /\ f \in DOMAIN nodes /\ Len(nodes[f].path) = l
      /\ \A i \in 1 .. l : nodes[f].path[i] = path[i]
  BY <1>3, <1>5 DEF Passes
<1>7. nodes[f].path \in Seq(Ids) BY <1>6, RowFields
<1> QED BY <1>0, <1>6, <1>7, SeqEqual

\* While the paths agree, the deletion of a folder, which selects by a path read
\* before its transaction, takes the folder and exactly what hangs below it by the
\* parents at that moment, and takes nothing if the folder is no longer there or has
\* another path, whatever other requests did in between.
THEOREM DeletionTakesTheSubtree == Spec => DeletesTheSubtree
<1>1. ASSUME Tree, [Next]_vars
      PROVE  [\A r \in Requests : PathsAgree /\ req[r].at = "deleteTx" /\ Commits(r) =>
                DOMAIN nodes' =
                  DOMAIN nodes \ IF UpToDate(r) THEN Subtree(req[r].node) ELSE {}]_vars
  <2> SUFFICES ASSUME Next, NEW r \in Requests, PathsAgree, req[r].at = "deleteTx", Commits(r)
               PROVE  DOMAIN nodes' =
                        DOMAIN nodes \ IF UpToDate(r) THEN Subtree(req[r].node) ELSE {}
    BY <1>1
  <2>1. TypeOK /\ WaysHold /\ Checked(req[r]) BY <1>1, AgreeingWaysHold DEF Tree
  <2>2. DeleteFolderTx(r)
    BY <2>1, EndsByItself DEF CreateApiTx, MountTx, MoveTx
  <2>3. Keep(Ids \ Selected(req[r].path)) BY <2>2 DEF DeleteFolderTx, DeletedWith
  <2>4. \A n \in DOMAIN nodes : n \in Ids BY <2>1, RowFields
  <2>5. DOMAIN nodes' = DOMAIN nodes \ Selected(req[r].path)
    <3>1. DOMAIN nodes' = DOMAIN nodes \cap (Ids \ Selected(req[r].path)) BY <2>3 DEF Keep
    <3> QED BY <2>4, <3>1
  <2>6. CASE UpToDate(r)
    <3>1. req[r].node \in DOMAIN nodes /\ req[r].path = nodes[req[r].node].path
      BY <2>6 DEF UpToDate
    <3> QED BY <2>1, <2>5, <2>6, <3>1, SelectedIsSubtree
  <2>7. CASE ~UpToDate(r)
    <3>1. req[r] \in Request BY <2>1 DEF TypeOK
    <3>2. /\ req[r].path \in Seq(Ids) /\ Len(req[r].path) # 0
          /\ req[r].path[Len(req[r].path)] = req[r].node
      BY <2>1, <3>1, RequestFields DEF Checked
    <3>3. ASSUME NEW n \in Selected(req[r].path) PROVE FALSE
      <4>1. req[r].node \in DOMAIN nodes /\ nodes[req[r].node].path = req[r].path
        BY <2>1, <3>2, <3>3, SelectingPath
      <4> QED BY <2>7, <4>1 DEF UpToDate
    <3> QED BY <2>5, <2>7, <3>3
  <2> QED BY <2>6, <2>7
<1> QED BY <1>1, TreeHolds, PTL DEF Spec, DeletesTheSubtree
=============================================================================
