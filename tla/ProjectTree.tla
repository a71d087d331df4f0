---------------------------- MODULE ProjectTree ----------------------------
(***************************************************************************)
(* The directory tree of a project (tree_nodes): folders, and nodes that   *)
(* mount an entity (an API, a case, a suite, a data model: all alike, here *)
(* an API). A node knows its parent and, redundantly, its materialised     *)
(* path "1/4/7/", by which a subtree is selected. The REST handlers and    *)
(* the Copilot tools read what they check before their transaction, so     *)
(* another request may come in between.                                    *)
(*                                                                         *)
(* One tenant and one project; a transaction is one step (SQLite, whose    *)
(* write transactions exclude each other). Ids grow (model.NextID).        *)
(* Renaming a folder changes no modelled state.                            *)
(***************************************************************************)
EXTENDS Integers, SequencesExt

CONSTANTS
  Requests,   (* goroutines serving tree requests, one after another        *)
  Apis,       (* ids of the entities                                        *)
  Indexes,    (* the places a client asks for, or None: at the end          *)
  MaxId,      (* bound: the nodes ever created                              *)
  MaxOrder,   (* bound: how far indexed insertions push siblings            *)
  MaxRequests,(* bound: the requests ever begun                             *)
  None        (* no entity; no index                                        *)

ASSUME ProjectTreeAssumption ==
  /\ MaxId \in Nat /\ MaxOrder \in Nat /\ MaxRequests \in Nat
  /\ Indexes \subseteq Int \cup {None}
  /\ None \notin Apis /\ None \notin Int

VARIABLES
  nodes,   (* tree_nodes: id -> row                                         *)
  api,     (* the entities' rows                                            *)
  lastId,  (* the last id given                                             *)
  req,     (* what a request has read so far                                *)
  begun    (* the number of requests begun                                  *)

vars == <<nodes, api, lastId, req, begun>>

Ids     == 1 .. MaxId
Parents == 0 .. MaxId        \* 0: the root
Idle    == [at |-> "idle"]

Refs == Apis \cup {None}
Row  == [parent : Parents, ref : Refs, path : Seq(Ids), order : Nat]

\* What a request holds between its reads and its transaction.
Creation ==
  [at : {"count", "createTx"}, ref : Refs, parent : Parents, path : Seq(Ids)]
  \cup [at : {"insert"}, ref : Refs, parent : Parents, path : Seq(Ids), order : Nat]
Mounting ==
  [at : {"aiPath"}, ref : Refs, parent : Parents]
  \cup [at : {"path"}, ref : Refs, parent : Parents, index : Indexes]
  \cup [at : {"check", "mountTx"}, ref : Refs, parent : Parents, index : Indexes,
        path : Seq(Ids)]
Moving ==
  [at : {"moveRead"}, node : Ids, parent : Parents, index : Indexes, path : Seq(Ids)]
  \cup [at : {"aiMovePath"}, node : Ids, parent : Parents, old : Seq(Ids), from : Parents]
  \cup [at : {"moveTx"}, node : Ids, parent : Parents, index : Indexes \cup {None},
        path : Seq(Ids), old : Seq(Ids)]
Deletion == [at : {"deleteTx"}, node : Ids, path : Seq(Ids)]
Request  == {Idle} \cup Creation \cup Mounting \cup Moving \cup Deletion

\* The type of every variable; every node's path ends with its own id.
TypeOK ==
  /\ nodes \in [DOMAIN nodes -> Row] /\ DOMAIN nodes \subseteq 1 .. lastId
  /\ \A n \in DOMAIN nodes : nodes[n].path # <<>> /\ Last(nodes[n].path) = n
  /\ api \in [Apis -> {"none", "live", "deleted"}]
  /\ lastId \in 0 .. MaxId
  /\ req \in [Requests -> Request]
  /\ begun \in 0 .. MaxRequests

Init ==
  /\ nodes = [n \in {} |-> Idle]
  /\ api = [a \in Apis |-> "none"]
  /\ lastId = 0
  /\ req = [r \in Requests |-> Idle]
  /\ begun = 0

-----------------------------------------------------------------------------
IsFolder(n)    == n \in DOMAIN nodes /\ nodes[n].ref = None
\* nodePath, nodePathOf: what is refused, and the path that is read.
MayHold(p)     == p = 0 \/ IsFolder(p)
PathOf(p)      == IF p = 0 THEN <<>> ELSE nodes[p].path
ChildrenOf(p)  == {n \in DOMAIN nodes : nodes[n].parent = p}
\* WHERE path LIKE prefix%
Selected(path) == {n \in DOMAIN nodes : IsPrefix(path, nodes[n].path)}

\* childCount and clampIndex; the order at which an insertion takes place.
ChildCount(p)       == Cardinality(ChildrenOf(p))
OrderFor(index, p)  ==
  IF index = None \/ index > ChildCount(p) THEN ChildCount(p)
  ELSE IF index < 0 THEN 0 ELSE index

ShiftedFromNext(index, p, n) ==
  {s \in ChildrenOf(p) \ {n} :
     index # None /\ OrderFor(index, p) < ChildCount(p)
     /\ nodes[s].order > OrderFor(index, p)}

\* shiftOrders: the siblings that make room, n excluded.
Shifted(index, p, n) ==
  {s \in ChildrenOf(p) \ {n} :
     index # None /\ OrderFor(index, p) < ChildCount(p)
     /\ nodes[s].order >= OrderFor(index, p)}

Shift(S) == [n \in DOMAIN nodes |->
               IF n \in S THEN [nodes[n] EXCEPT !.order = @ + 1] ELSE nodes[n]]

\* One more row, in table t, under the path that was read for its parent.
Inserted(t, p, path, ref, order) ==
  [n \in DOMAIN t \cup {lastId + 1} |->
     IF n # lastId + 1 THEN t[n]
     ELSE [parent |-> p, ref |-> ref, path |-> Append(path, n), order |-> order]]

IdLeft    == lastId < MaxId
Answer(r) == req' = [req EXCEPT ![r] = Idle]
Go(r, s)  == req' = [req EXCEPT ![r] = s]

Begin(r)  == req[r].at = "idle" /\ begun < MaxRequests /\ begun' = begun + 1

-----------------------------------------------------------------------------
(* Creating and mounting.                                                   *)

\* createFolder and CreateFolder: the parent's path, the number of its
\* children and the insertion are three statements.
CreateFolder(r, p) ==
  /\ Begin(r) /\ IdLeft /\ MayHold(p)
  /\ Go(r, [at |-> "count", ref |-> None, parent |-> p, path |-> PathOf(p)])
  /\ UNCHANGED <<nodes, api, lastId>>

CountChildren(r) ==
  /\ req[r].at = "count"
  /\ Go(r, [at |-> "insert", ref |-> req[r].ref, parent |-> req[r].parent,
               path |-> req[r].path, order |-> ChildCount(req[r].parent)])
  /\ UNCHANGED <<nodes, api, lastId>>

Insert(r) ==
  /\ req[r].at = "insert" /\ IdLeft
  /\ nodes' = Inserted(nodes, req[r].parent, req[r].path, req[r].ref, req[r].order)
  /\ lastId' = lastId + 1
  /\ Answer(r)
  /\ UNCHANGED api

\* An entity id nobody has been given.
Fresh(a) == api[a] = "none" /\ \A q \in Requests : req[q].at = "createTx" => req[q].ref # a

\* createAPI, createDataModel: the path first, then entity and node together.
CreateApi(r, p) ==
  /\ Begin(r) /\ IdLeft /\ MayHold(p)
  /\ \E a \in Apis :
       Fresh(a) /\ Go(r, [at |-> "createTx", ref |-> a, parent |-> p, path |-> PathOf(p)])
  /\ UNCHANGED <<nodes, api, lastId>>

CreateApiTx(r) ==
  /\ req[r].at = "createTx" /\ IdLeft
  /\ api' = [api EXCEPT ![req[r].ref] = "live"]
  /\ nodes' = Inserted(nodes, req[r].parent, req[r].path, req[r].ref,
                       ChildCount(req[r].parent))
  /\ lastId' = lastId + 1
  /\ Answer(r)

\* mountAPI: the entity, the parent's path and "already mounted?" are read one
\* after another, then the transaction counts, shifts and inserts.
Mount(r, a, p, index) ==
  /\ Begin(r) /\ IdLeft /\ api[a] = "live"
  /\ Go(r, [at |-> "path", ref |-> a, parent |-> p, index |-> index])
  /\ UNCHANGED <<nodes, api, lastId>>

MountPath(r) ==
  /\ req[r].at = "path"
  /\ IF MayHold(req[r].parent)
     THEN Go(r, [at |-> "check", ref |-> req[r].ref, parent |-> req[r].parent,
                    index |-> req[r].index, path |-> PathOf(req[r].parent)])
     ELSE Answer(r)
  /\ UNCHANGED <<nodes, api, lastId>>

Mounts(a) == {n \in DOMAIN nodes : nodes[n].ref = a}

MountCheck(r) ==
  /\ req[r].at = "check"
  /\ IF Mounts(req[r].ref) = {} THEN Go(r, [req[r] EXCEPT !.at = "mountTx"])
     ELSE Answer(r)
  /\ UNCHANGED <<nodes, api, lastId>>

MountTx(r) ==
  LET p == req[r].parent  i == req[r].index  S == Shifted(i, p, 0) IN
  /\ req[r].at = "mountTx" /\ IdLeft
  /\ \A s \in S : nodes[s].order < MaxOrder
  /\ nodes' = Inserted(Shift(S), p, req[r].path, req[r].ref, OrderFor(i, p))
  /\ lastId' = lastId + 1
  /\ Answer(r)
  /\ UNCHANGED api

\* Copilot's CreateApi: the entity is committed, then mounted if a parent is
\* given (mountIfRequested); a parent that is refused leaves it unmounted.
AiCreateApi(r, a, p) ==
  /\ Begin(r) /\ IdLeft /\ Fresh(a)
  /\ api' = [api EXCEPT ![a] = "live"]
  /\ IF p = 0 THEN UNCHANGED req
     ELSE Go(r, [at |-> "aiPath", ref |-> a, parent |-> p])
  /\ UNCHANGED <<nodes, lastId>>

\* MountNode: mountRef reads the entity and does not look for its mounts.
AiMount(r, a, p) ==
  /\ Begin(r) /\ IdLeft /\ api[a] = "live"
  /\ Go(r, [at |-> "aiPath", ref |-> a, parent |-> p])
  /\ UNCHANGED <<nodes, api, lastId>>

AiMountPath(r) ==
  /\ req[r].at = "aiPath"
  /\ IF MayHold(req[r].parent)
     THEN Go(r, [at |-> "count", ref |-> req[r].ref, parent |-> req[r].parent,
                    path |-> PathOf(req[r].parent)])
     ELSE Answer(r)
  /\ UNCHANGED <<nodes, api, lastId>>

-----------------------------------------------------------------------------
(* Moving.                                                                  *)

IntoItselfUnchecked(path, old) == FALSE

\* The cycle check, on the two paths as they were read.
IntoItself(path, old) == path # <<>> /\ IsPrefix(old, path)

\* moveNode: the path of the new parent, then the node.
Move(r, n, p, index) ==
  /\ Begin(r) /\ MayHold(p)
  /\ Go(r, [at |-> "moveRead", node |-> n, parent |-> p, index |-> index,
               path |-> PathOf(p)])
  /\ UNCHANGED <<nodes, api, lastId>>

MoveRead(r) ==
  LET n == req[r].node IN
  /\ req[r].at = "moveRead"
  /\ IF n \notin DOMAIN nodes \/ nodes[n].parent = req[r].parent
        \/ IntoItself(req[r].path, nodes[n].path)
     THEN Answer(r)
     ELSE Go(r, [at |-> "moveTx", node |-> n, parent |-> req[r].parent,
                    index |-> req[r].index, path |-> req[r].path, old |-> nodes[n].path])
  /\ UNCHANGED <<nodes, api, lastId>>

\* Copilot's MoveNode: the node, then the path of the new parent; no index.
AiMove(r, n, p) ==
  /\ Begin(r) /\ n \in DOMAIN nodes
  /\ Go(r, [at |-> "aiMovePath", node |-> n, parent |-> p, old |-> nodes[n].path,
               from |-> nodes[n].parent])
  /\ UNCHANGED <<nodes, api, lastId>>

AiMovePath(r) ==
  LET p == req[r].parent IN
  /\ req[r].at = "aiMovePath"
  /\ IF ~MayHold(p) \/ p = req[r].from \/ IntoItself(PathOf(p), req[r].old)
     THEN Answer(r)
     ELSE Go(r, [at |-> "moveTx", node |-> req[r].node, parent |-> p, index |-> None,
                    path |-> PathOf(p), old |-> req[r].old])
  /\ UNCHANGED <<nodes, api, lastId>>

\* The moved node's path, or the path of a node below it with the prefix changed.
Repath(path, n, old, m) ==
  Append(path, n) \o SubSeq(nodes[m].path, Len(old) + 1, Len(nodes[m].path))

\* The subtree is selected by its old path and rewritten, with the orders the
\* selection read, after the new siblings have made room.
MoveTx(r) ==
  LET n == req[r].node  p == req[r].parent  i == req[r].index
      subs == Selected(req[r].old)
      room == Shifted(i, p, n)
      order == OrderFor(i, p) IN
  /\ req[r].at = "moveTx"
  /\ \A s \in room : nodes[s].order < MaxOrder
  /\ nodes' = [m \in DOMAIN nodes |->
       IF m \notin subs THEN Shift(room)[m]
       ELSE [nodes[m] EXCEPT !.path = Repath(req[r].path, n, req[r].old, m),
                             !.parent = IF m = n THEN p ELSE @,
                             !.order = IF m = n THEN order ELSE @]]
  /\ Answer(r)
  /\ UNCHANGED <<api, lastId>>

-----------------------------------------------------------------------------
(* Removing and reordering.                                                 *)

Keep(S) == nodes' = [n \in DOMAIN nodes \cap S |-> nodes[n]]

DeleteFolder(r, f) ==
  /\ Begin(r) /\ IsFolder(f)
  /\ Go(r, [at |-> "deleteTx", node |-> f, path |-> nodes[f].path])
  /\ UNCHANGED <<nodes, api, lastId>>

DeletesChildrenOnly(f, path) == {f} \cup ChildrenOf(f)
DeletedWith(f, path) == Selected(path)

DeleteFolderTx(r) ==
  /\ req[r].at = "deleteTx"
  /\ Keep(Ids \ DeletedWith(req[r].node, req[r].path))
  /\ Answer(r)
  /\ UNCHANGED <<api, lastId>>

\* unmountAPI deletes the node only.
Unmount(r, n) ==
  /\ Begin(r) /\ n \in DOMAIN nodes /\ ~IsFolder(n)
  /\ Keep(Ids \ {n})
  /\ UNCHANGED <<api, lastId, req>>

\* deleteAPI, deleteCase, deleteSuite, deleteDataModel: with the mounts.
DeleteApi(r, a) ==
  /\ Begin(r) /\ api[a] = "live"
  /\ api' = [api EXCEPT ![a] = "deleted"]
  /\ Keep(Ids \ Mounts(a))
  /\ UNCHANGED <<lastId, req>>

\* Copilot's DeleteApi, DeleteTestCase and DeleteSuite: without them.
AiDeleteApi(r, a) ==
  /\ Begin(r) /\ api[a] = "live"
  /\ api' = [api EXCEPT ![a] = "deleted"]
  /\ UNCHANGED <<nodes, lastId, req>>

\* reorderTree: the client sends the children it was shown, in a new order.
Reorder(r, p) ==
  /\ Begin(r) /\ Cardinality(ChildrenOf(p)) > 1
  /\ \E s \in SetToSeqs(ChildrenOf(p)) :
       nodes' = [n \in DOMAIN nodes |->
         IF n \notin ChildrenOf(p) THEN nodes[n]
         ELSE [nodes[n] EXCEPT !.order = (CHOOSE i \in DOMAIN s : s[i] = n) - 1]]
  /\ UNCHANGED <<api, lastId, req>>

Step(r) ==
  \/ CountChildren(r) \/ Insert(r) \/ CreateApiTx(r)
  \/ MountPath(r) \/ MountCheck(r) \/ MountTx(r) \/ AiMountPath(r)
  \/ MoveRead(r) \/ AiMovePath(r) \/ MoveTx(r) \/ DeleteFolderTx(r)

Next ==
  \E r \in Requests :
    \/ Step(r) /\ UNCHANGED begun
    \/ \E p \in Parents : CreateFolder(r, p) \/ CreateApi(r, p) \/ Reorder(r, p)
    \/ \E a \in Apis, p \in Parents :
         \/ AiCreateApi(r, a, p) \/ AiMount(r, a, p)
         \/ \E i \in Indexes : Mount(r, a, p, i)
    \/ \E n \in DOMAIN nodes, p \in Parents :
         AiMove(r, n, p) \/ \E i \in Indexes : Move(r, n, p, i)
    \/ \E n \in DOMAIN nodes : DeleteFolder(r, n) \/ Unmount(r, n)
    \/ \E a \in Apis : DeleteApi(r, a) \/ AiDeleteApi(r, a)

Spec == Init /\ [][Next]_vars

-----------------------------------------------------------------------------
(* What the tree guarantees.                                                *)

\* The two ways the rows have to say where a node is agree: it hangs below the
\* root or an existing folder, and its path is that folder's path followed by
\* its own id (so a path selects the subtree that is displayed, and the parents
\* form no cycle).
PathsAgree ==
  \A n \in DOMAIN nodes :
    MayHold(nodes[n].parent) /\ nodes[n].path = Append(PathOf(nodes[n].parent), n)

\* The transaction of a request, as a step.
Commits(r) ==
  /\ req[r].at \in {"insert", "createTx", "mountTx", "moveTx", "deleteTx"}
  /\ req'[r].at = "idle"

\* Nothing that a request has read for its transaction has changed since.
UpToDate(r) ==
  LET x == req[r] IN
  /\ x.at # "deleteTx" => MayHold(x.parent) /\ x.path = PathOf(x.parent)
  /\ x.at = "moveTx"   => /\ x.node \in DOMAIN nodes /\ x.old = nodes[x.node].path
                          /\ x.parent # nodes[x.node].parent
  /\ x.at = "deleteTx" => x.node \in DOMAIN nodes /\ x.path = nodes[x.node].path

\* Paths go on following parents through every step but the insertion or the
\* move of a request that has been overtaken: through other insertions, moves of
\* subtrees of any depth, and every removal, also one by a path that is no
\* longer the folder's. The code reads the parent and the paths before its
\* transaction and not again, so an overtaken insertion or move can tear the
\* tree: PathsAgree is no invariant.
PathsFollowParents ==
  [][/\ PathsAgree
     /\ \A r \in Requests : Commits(r) /\ req[r].at # "deleteTx" => UpToDate(r)
     => PathsAgree']_vars

\* The k-th node on the way from n to the root; 0 at the root and beyond a
\* parent that does not exist.
Way(n) == LET up[k \in 0 .. MaxId] ==
                IF k = 0 THEN n
                ELSE IF up[k - 1] \in DOMAIN nodes THEN nodes[up[k - 1]].parent ELSE 0
          IN up

Subtree(f) == {n \in DOMAIN nodes : \E k \in 0 .. MaxId : Way(n)[k] = f}

\* deleteFolder, which selects by a path read before its transaction, removes
\* the folder with exactly what is displayed below it at that moment or, if the
\* folder has been moved or removed in the meantime, nothing at all: while the
\* paths agree it never takes a part of a subtree, nor a node of another.
DeletesTheSubtree ==
  [][\A r \in Requests : PathsAgree /\ req[r].at = "deleteTx" /\ Commits(r) =>
       DOMAIN nodes' = DOMAIN nodes \ IF UpToDate(r) THEN Subtree(req[r].node) ELSE {}]_vars

Contiguous(t, p) ==
  LET C == {n \in DOMAIN t : t[n].parent = p}
  IN {t[n].order : n \in C} = 0 .. Cardinality(C) - 1

\* Siblings numbered 0, 1, 2, ... without gaps stay so when a node is created
\* or mounted among them in a transaction, at any index and whatever has
\* happened since the request began, and when one is moved there by a request
\* that has not been overtaken.
InsertionKeepsNumbering ==
  [][\A r \in Requests :
       /\ Commits(r) /\ req[r].at \in {"createTx", "mountTx", "moveTx"}
       /\ req[r].at = "moveTx" => PathsAgree /\ UpToDate(r)
       /\ Contiguous(nodes, req[r].parent)
       => Contiguous(nodes', req[r].parent)]_vars

-----------------------------------------------------------------------------
(* What comments of the code promise and the code does not keep.            *)

\* PathsAgree, as an invariant: a node created below a folder that is moved or
\* removed between the request's reads and its insertion carries a path, or a
\* parent, that is no longer there.

\* moveNode's cycle check, "the target must be neither the node nor below it",
\* keeps every node below the root. Two moves that overlap each pass it and
\* form a cycle that no listing of the tree shows.
Rooted == \A n \in DOMAIN nodes : \E k \in 1 .. MaxId : Way(n)[k] = 0

\* "A node is created or mounted at the end (order = number of children)":
\* after a removal the orders have gaps and that number is not above them.
AppendedLast ==
  [][\A n \in DOMAIN nodes' \ DOMAIN nodes : \A s \in DOMAIN nodes :
       nodes[s].parent = nodes'[n].parent /\ (\A r \in Requests : req[r].at # "mountTx")
         => nodes[s].order <= nodes'[n].order]_vars

\* mountAPI: "already mounted: 409". Copilot's mountRef does not ask.
MountedOnce == \A a \in Apis : Cardinality(Mounts(a)) <= 1

\* deleteAPI "deletes the mounts with the entity". Copilot's DeleteApi does not,
\* and a mount may have read the entity just before.
MountsAreLive == \A n \in DOMAIN nodes : nodes[n].ref # None => api[nodes[n].ref] = "live"
=============================================================================
