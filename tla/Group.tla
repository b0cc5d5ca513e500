-------------------------------- MODULE Group --------------------------------
(***************************************************************************)
(* The group ratchet of novachannel (crates/core/src/group.rs): a TreeKEM  *)
(* of fixed capacity.  A member commits an add, a removal or an update     *)
(* with fresh secrets for the path from its leaf to the root, each sealed  *)
(* to the resolution of the subtree next to the path; the others apply the *)
(* commit, and a new member joins by a welcome and the commit that adds it.*)
(*                                                                         *)
(* Abstractions.  A member is its leaf key package: key, identity and      *)
(* signature in one.  The secret of a path node is named by the commit and *)
(* the node; it stands for its public key, and gives the secrets above it. *)
(* An epoch's secret is the sequence of root secrets mixed into it, and    *)
(* stands for the transcript hash, too.  An Option is a set with at most   *)
(* one element.  As the module doc demands, commits are applied in one     *)
(* agreed order: a caller commits only when it has applied all of them,    *)
(* and one that has left the group commits nothing.  Members apply commits,*)
(* join and open records as late as they like; records may be lost,        *)
(* repeated and reordered.                                                 *)
(***************************************************************************)
EXTENDS Integers, FiniteSets, Sequences

CONSTANTS
  Capacity,    \* number of leaves
  Members,     \* the leaf key packages, each used for one membership
  Founder,     \* the member that creates the group
  LeaversStay, \* whether a caller that removed itself goes on using its Group
  MaxTraffic   \* bound on commits and records together

ASSUME GroupAssumption ==
  /\ Capacity \in Nat \ {0, 1} /\ Founder \in Members
  /\ LeaversStay \in BOOLEAN /\ MaxTraffic \in Nat

\* A leaf's key pair and a path node's are never the same.
ASSUME KeysDiffer == \A u \in Members : u \notin [commit : Nat, node : Nat]

VARIABLES
  group,    \* group[u]: u's Group, once it created the group or joined
  commits,  \* the commits, in the agreed order
  welcome,  \* welcome[u]: the snapshot sealed to u
  records,  \* the application records sealed so far
  held,     \* history: held[u], the node secrets u's Group has ever held
  opened    \* history: opened[u], the records u opened, with the sender u was told

vars == <<group, commits, welcome, records, held, opened>>

-----------------------------------------------------------------------------
(***************************************************************************)
(* The tree: an array with the root at 0, the leaves last.  (create also   *)
(* demands that the capacity be a power of two; nothing rests on it.)      *)
(***************************************************************************)
Leaves == 0 .. (Capacity - 1)
Nodes == 0 .. (2 * Capacity - 2)

LeafNode(leaf) == Capacity - 1 + leaf

Parent(n) == (n - 1) \div 2

\* The nodes that the loop of direct_path visits from n up.
Above[n \in Nat] == IF n = 0 THEN {} ELSE {Parent(n)} \cup Above[Parent(n)]

DirectPath == [leaf \in Leaves |-> Above[LeafNode(leaf)]]

\* A node with everything below it.
Under == [n \in Nodes |-> {m \in Nodes : m = n \/ n \in Above[m]}]

\* The child of path node d that is off leaf's path: the sibling of the node
\* before d on it.
CoPath(leaf, d) == CHOOSE n \in {2 * d + 1, 2 * d + 2} : LeafNode(leaf) \notin Under[n]

\* resolution: the topmost populated nodes of n's subtree.
Resolution(nodes, n) ==
  {m \in Under[n] : nodes[m] # {} /\ \A p \in Under[n] : p \in Above[m] => nodes[p] = {}}

-----------------------------------------------------------------------------
(***************************************************************************)
(* Operations on one Group.                                                *)
(***************************************************************************)
\* derive_sender_chain; ChainKey::advance moves pos, which is the record's number.
SenderChain(epoch_secret, leaf) == [secret |-> epoch_secret, leaf |-> leaf, pos |-> 0]

IsMember(g, leaf) == g.nodes[LeafNode(leaf)] # {}

BlankLeaves(g) == {leaf \in Leaves : ~IsMember(g, leaf)}

\* A group of one, and the state a joiner starts from before it applies its commit.
NewGroup(nodes, epoch, epoch_secret, leaf) ==
  [nodes |-> nodes, epoch |-> epoch, epoch_secret |-> epoch_secret, my_leaf |-> leaf,
   known_secrets |-> [n \in Nodes |-> {}],
   send_chain |-> SenderChain(epoch_secret, leaf), recv_chains |-> [l \in Leaves |-> {}]]

SpliceFits(nodes, op) ==
  /\ op.kind = "add" => nodes[LeafNode(op.leaf)] = {}
  /\ op.kind = "remove" => nodes[LeafNode(op.leaf)] # {}

Spliced_KeepsPath(nodes, op) ==  \* faulty variant
  CASE op.kind = "add" -> [nodes EXCEPT ![LeafNode(op.leaf)] = op.member]
    [] op.kind = "remove" -> [nodes EXCEPT ![LeafNode(op.leaf)] = {}]
    [] op.kind = "update" -> nodes

\* spliced: the tree the path of a commit is sealed against.
Spliced(nodes, op) ==
  CASE op.kind = "add" -> [nodes EXCEPT ![LeafNode(op.leaf)] = op.member]
    [] op.kind = "remove" ->
         [n \in Nodes |-> IF n = LeafNode(op.leaf) \/ n \in DirectPath[op.leaf] THEN {}
                          ELSE nodes[n]]
    [] op.kind = "update" -> nodes

\* commit's path update: a fresh secret for each node on the path, sealed to the
\* keys of the resolution next to it.
UpdatePath(nodes, leaf, id) ==
  [d \in DirectPath[leaf] |->
     [secret |-> [commit |-> id, node |-> d],
      to |-> UNION {nodes[m] : m \in Resolution(nodes, CoPath(leaf, d))}]]

Apply_KeepsChains(g, nodes, path, known) ==  \* faulty variant
  LET secret == Append(g.epoch_secret, path[0].secret)
  IN [g EXCEPT !.nodes = [n \in Nodes |-> IF n \in DOMAIN path THEN {path[n].secret}
                                          ELSE nodes[n]],
               !.epoch = @ + 1,
               !.epoch_secret = secret,
               !.send_chain = SenderChain(secret, g.my_leaf),
               !.known_secrets = [n \in Nodes |-> IF n \in known THEN {path[n].secret}
                                                  ELSE @[n]]]

\* apply: the post-commit tree and the next epoch, and the path secrets the member
\* knows from now on.
Apply(g, nodes, path, known) ==
  LET secret == Append(g.epoch_secret, path[0].secret)
  IN [g EXCEPT !.nodes = [n \in Nodes |-> IF n \in DOMAIN path THEN {path[n].secret}
                                          ELSE nodes[n]],
               !.epoch = @ + 1,
               !.epoch_secret = secret,
               !.send_chain = SenderChain(secret, g.my_leaf),
               !.recv_chains = [l \in Leaves |-> {}],
               !.known_secrets = [n \in Nodes |-> IF n \in known THEN {path[n].secret}
                                                  ELSE @[n]]]

\* find_and_decrypt: the path nodes whose secret u can unseal, with its leaf key
\* or with the secret it knows of a node in the resolution.
Unseals(u, g, c) ==
  LET pre == Spliced(g.nodes, c.op)
  IN {d \in DOMAIN c.path :
        \E t \in Resolution(pre, CoPath(c.sender_leaf, d)) :
          IF t = LeafNode(g.my_leaf) THEN u \in c.path[d].to
          ELSE g.known_secrets[t] # {} /\ g.known_secrets[t] \subseteq c.path[d].to}

Derivable_OnlyFound(c, found) == found  \* faulty variant

\* The secret found first, nearest to the sender's leaf, gives those above it.
Derivable(c, found) == {d \in DOMAIN c.path : \E f \in found : d <= f}

\* apply_commit accepts c: epoch, sender, signature, operation and one secret.
CanApply(u, g, c) ==
  /\ c.from_epoch = g.epoch
  /\ g.nodes[LeafNode(c.sender_leaf)] = {c.signer}
  /\ SpliceFits(g.nodes, c.op)
  /\ Unseals(u, g, c) # {}

Applied_Unspliced(u, g, c) ==  \* faulty variant
  Apply(g, g.nodes, c.path, Derivable(c, Unseals(u, g, c)))

Applied(u, g, c) ==
  Apply(g, Spliced(g.nodes, c.op), c.path, Derivable(c, Unseals(u, g, c)))

HeldBy(g) == UNION {g.known_secrets[n] : n \in Nodes}

-----------------------------------------------------------------------------
\* create: the founder alone, at leaf 0.
Init ==
  /\ group = [u \in Members |->
       IF u = Founder
       THEN {NewGroup([n \in Nodes |-> IF n = LeafNode(0) THEN {Founder} ELSE {}], 0, <<>>, 0)}
       ELSE {}]
  /\ commits = <<>>
  /\ welcome = [u \in Members |-> {}]
  /\ records = {}
  /\ held = [u \in Members |-> {}]
  /\ opened = [u \in Members |-> <<>>]

MayTalk == Len(commits) + Cardinality(records) < MaxTraffic

\* In u's own view, u is in the group.
InGroup(u, g) == g.nodes[LeafNode(g.my_leaf)] = {u}

Uses(u, g) == LeaversStay \/ InGroup(u, g)

\* What the agreed order asks of callers: all commits applied, and not left.
UpToDate(u, g) == g.epoch = Len(commits) /\ InGroup(u, g)

\* The commit as sent, from the group g before it.
CommitOf(u, g, op, path) ==
  [from_epoch |-> g.epoch, sender_leaf |-> g.my_leaf, signer |-> u, op |-> op,
   path |-> path]

\* commit: the committer is in the new epoch as soon as the call returns.
Commit(u, g, op) ==
  LET pre == Spliced(g.nodes, op)
      path == UpdatePath(pre, g.my_leaf, Len(commits) + 1)
  IN /\ MayTalk /\ UpToDate(u, g)
     /\ SpliceFits(g.nodes, op)
     /\ LET after == Apply(g, pre, path, DOMAIN path)
        IN /\ group' = [group EXCEPT ![u] = {after}]
           /\ held' = [held EXCEPT ![u] = @ \cup HeldBy(after)]
     /\ commits' = Append(commits, CommitOf(u, g, op, path))

\* propose_add: new goes to the first blank leaf; the snapshot sealed to it is the
\* group before the commit.  A full group is an error.
ProposeAdd(u, new) ==
  /\ new # Founder /\ welcome[new] = {}
  /\ \E g \in group[u], leaf \in Leaves :
       /\ ~IsMember(g, leaf) /\ \A l \in BlankLeaves(g) : leaf <= l
       /\ Commit(u, g, [kind |-> "add", leaf |-> leaf, member |-> {new}])
       /\ welcome' = [welcome EXCEPT ![new] =
            {[nodes |-> g.nodes, epoch |-> g.epoch, epoch_secret |-> g.epoch_secret,
              target_leaf |-> leaf]}]
  /\ UNCHANGED <<records, opened>>

\* propose_remove: of any member, the caller included.
ProposeRemove(u, leaf) ==
  /\ \E g \in group[u] :
       /\ IsMember(g, leaf)
       /\ Commit(u, g, [kind |-> "remove", leaf |-> leaf, member |-> {}])
  /\ UNCHANGED <<welcome, records, opened>>

ProposeUpdate(u) ==
  /\ \E g \in group[u] :
       Commit(u, g, [kind |-> "update", leaf |-> g.my_leaf, member |-> {}])
  /\ UNCHANGED <<welcome, records, opened>>

\* apply_commit; every other commit is an error that changes nothing.
ApplyCommit(u, c) ==
  /\ \E g \in group[u] :
       /\ Uses(u, g) /\ CanApply(u, g, c)
       /\ group' = [group EXCEPT ![u] = {Applied(u, g, c)}]
       /\ held' = [held EXCEPT ![u] = @ \cup HeldBy(Applied(u, g, c))]
  /\ UNCHANGED <<commits, welcome, records, opened>>

\* What join starts from: the snapshot, the joiner's leaf key and nothing else.
Joining(snapshot) ==
  NewGroup(snapshot.nodes, snapshot.epoch, snapshot.epoch_secret, snapshot.target_leaf)

\* join's checks, and that the commit can be applied.
CanJoin(u, snapshot, c) ==
  /\ c.from_epoch = snapshot.epoch
  /\ c.op = [kind |-> "add", leaf |-> snapshot.target_leaf, member |-> {u}]
  /\ CanApply(u, Joining(snapshot), c)

Join(u, c) ==
  /\ group[u] = {}
  /\ \E snapshot \in welcome[u] :
       /\ CanJoin(u, snapshot, c)
       /\ group' = [group EXCEPT ![u] = {Applied(u, Joining(snapshot), c)}]
       /\ held' = [held EXCEPT ![u] = @ \cup HeldBy(Applied(u, Joining(snapshot), c))]
  /\ UNCHANGED <<commits, welcome, records, opened>>

\* seal.
Seal(u) ==
  /\ MayTalk
  /\ \E g \in group[u] :
       /\ Uses(u, g)
       /\ records' = records \cup
            {[epoch |-> g.epoch, leaf |-> g.my_leaf, key |-> g.send_chain, from |-> u]}
       /\ group' = [group EXCEPT ![u] = {[g EXCEPT !.send_chain.pos = @ + 1]}]
  /\ UNCHANGED <<commits, welcome, held, opened>>

\* The receive chain of a leaf, from the epoch's secret when it is first needed.
RecvChain(g, leaf) ==
  IF g.recv_chains[leaf] = {} THEN SenderChain(g.epoch_secret, leaf)
  ELSE CHOOSE chain \in g.recv_chains[leaf] : TRUE

\* open returns the record's plaintext: its epoch, its leaf, its number and its key
\* are the expected ones.
Opens(g, r) ==
  /\ r.epoch = g.epoch
  /\ r.leaf # g.my_leaf /\ IsMember(g, r.leaf)
  /\ r.key = RecvChain(g, r.leaf)

Opened(g, leaf) ==
  [g EXCEPT !.recv_chains[leaf] = {[RecvChain(g, leaf) EXCEPT !.pos = @ + 1]}]

\* open, and the identity member_identity gives for the sender's leaf.
Open(u, r) ==
  /\ \E g \in group[u] :
       /\ Uses(u, g) /\ Opens(g, r)
       /\ group' = [group EXCEPT ![u] = {Opened(g, r.leaf)}]
       /\ opened' = [opened EXCEPT
            ![u] = Append(@, [record |-> r, sender |-> g.nodes[LeafNode(r.leaf)]])]
  /\ UNCHANGED <<commits, welcome, records, held>>

Propose(u) ==
  \/ \E new \in Members : ProposeAdd(u, new)
  \/ \E leaf \in Leaves : ProposeRemove(u, leaf)
  \/ ProposeUpdate(u)

Next ==
  \E u \in Members :
    \/ Propose(u)
    \/ \E i \in DOMAIN commits : ApplyCommit(u, commits[i]) \/ Join(u, commits[i])
    \/ Seal(u)
    \/ \E r \in records : Open(u, r)

Spec == Init /\ [][Next]_vars

-----------------------------------------------------------------------------
(***************************************************************************)
(* Properties.                                                             *)
(***************************************************************************)
Secrets == [commit : Nat, node : Nat]
Keys == Members \cup Secrets
Trees == [Nodes -> SUBSET Keys]
Chains == [secret : Seq(Secrets), leaf : Leaves, pos : Nat]
PathNodes == [secret : Secrets, to : SUBSET Keys]
Paths == UNION {[DirectPath[l] -> PathNodes] : l \in Leaves}
Ops == [kind : {"add", "remove", "update"}, leaf : Leaves, member : SUBSET Members]
Records == [epoch : Nat, leaf : Leaves, key : Chains, from : Members]
Readings == [record : Records, sender : SUBSET Keys]
Groups ==
  [nodes : Trees, epoch : Nat, epoch_secret : Seq(Secrets), my_leaf : Leaves,
   known_secrets : [Nodes -> SUBSET Secrets],
   send_chain : Chains, recv_chains : [Leaves -> SUBSET Chains]]
Commits ==
  [from_epoch : Nat, sender_leaf : Leaves, signer : Members, op : Ops, path : Paths]
Snapshots ==
  [nodes : Trees, epoch : Nat, epoch_secret : Seq(Secrets), target_leaf : Leaves]

\* Every variable keeps its type.
TypeOK ==
  /\ group \in [Members -> SUBSET Groups]
  /\ commits \in Seq(Commits)
  /\ welcome \in [Members -> SUBSET Snapshots]
  /\ records \subseteq Records
  /\ held \in [Members -> SUBSET Secrets]
  /\ opened \in [Members -> Seq(Readings)]

\* Members at one epoch have one tree and one epoch secret, whether they committed,
\* applied or joined their way there.
Agreement ==
  \A u, v \in Members : \A g \in group[u], h \in group[v] :
    g.epoch = h.epoch => g.nodes = h.nodes /\ g.epoch_secret = h.epoch_secret

\* A member knows the secret of every populated node above its leaf, and of no other
\* node ("only ancestors of my_leaf").
HoldsItsPath ==
  \A u \in Members : \A g \in group[u] :
    /\ \A n \in Nodes \ DirectPath[g.my_leaf] : g.known_secrets[n] = {}
    /\ InGroup(u, g) =>
         \A n \in DirectPath[g.my_leaf] : g.nodes[n] # {} => g.known_secrets[n] = g.nodes[n]

Removes(c, leaf) == c.op.kind = "remove" /\ c.op.leaf = leaf

\* A member can apply the next commit, unless it is the one removed by it: its path
\* update is readable whoever joined, left or lagged before.
MembersFollow ==
  \A u \in Members : \A g \in group[u] :
    (InGroup(u, g) /\ g.epoch < Len(commits)) =>
      LET c == commits[g.epoch + 1] IN Removes(c, g.my_leaf) \/ CanApply(u, g, c)

\* What a member holds is what the next commit's sender counts on, and it is enough.
PathsHeld == HoldsItsPath /\ MembersFollow

\* Whom commit i removes, and by whom.
Removed(i) ==
  IF commits[i].op.kind # "remove" THEN {}
  ELSE {u \in Members : \E g \in group[u] : g.my_leaf = commits[i].op.leaf /\ g.epoch < i}

\* Nothing sealed in a removal or after it is sealed to a key a removed member holds
\* ("structurally cannot decrypt any later epoch"), whatever it ever held; members
\* that removed themselves aside.
RemovedLearnNothing ==
  \A i, j \in DOMAIN commits : i <= j =>
    \A u \in Removed(i) : \A d \in DOMAIN commits[j].path :
      commits[j].path[d].to \cap ({u} \cup held[u]) = {}

\* Records are opened in the order they were sealed, none twice and none left out,
\* and the sender told is who sealed it.
InOrder ==
  \A u \in Members : \A i \in DOMAIN opened[u] :
    LET o == opened[u][i]
        before == {k \in 1 .. (i - 1) : opened[u][k].record.leaf = o.record.leaf
                                         /\ opened[u][k].record.epoch = o.record.epoch}
    IN /\ o.sender = {o.record.from}
       /\ o.record.key.pos = Cardinality(before)

\* A record of a member's epoch is one it can open as soon as it has opened those
\* before it, unless it is its own.
Readable ==
  \A u \in Members : \A g \in group[u] : \A r \in records :
    (r.epoch = g.epoch /\ r.from # u /\ IsMember(g, r.leaf)
       /\ r.key.pos = RecvChain(g, r.leaf).pos) => Opens(g, r)

\* Every record is read once, in its turn, by whoever is in its epoch.
RecordsRead == InOrder /\ Readable

\* A caller that removed itself opens no record of an epoch that somebody else's
\* commit began after it left ("cannot decrypt any later epoch").
LeaversReadNothing ==
  \A i \in DOMAIN commits : \A r \in records :
    (Removes(commits[i], commits[i].sender_leaf) /\ r.epoch > i) =>
      \A g \in group[commits[i].signer] : ~Opens(g, r)

\* A member that was invited can join ("applies the commit like any other member,
\* reaching the same post-commit epoch").
InvitedCanJoin ==
  \A u \in Members : \A snapshot \in welcome[u] :
    \E i \in DOMAIN commits : CanJoin(u, snapshot, commits[i])

=============================================================================
