----------------------------- MODULE Membership -----------------------------
(***************************************************************************)
(* Joining and leaving the cluster (pkg/cluster, pkg/raftnode): the Raft   *)
(* configuration, the registry of nodes in the replicated KV and its epoch *)
(* are three separate Raft writes, made one after the other by a handler   *)
(* that runs on the leader and may lose the leadership in between.         *)
(*                                                                         *)
(* hashicorp/raft is external: a write of the leader is committed, or the  *)
(* leader loses the leadership while it waits and gets an error although   *)
(* the entry is committed later; a write of any other node fails.          *)
(***************************************************************************)
EXTENDS Naturals, FiniteSets

CONSTANTS
  Node,         \* node ids
  Boot,         \* the node started with -bootstrap
  MaxAddr,      \* bound: addresses a node has over time, numbered from 1 (an
                \* address is the host IP, of the Raft and the HTTP endpoint)
  Movable,      \* the nodes that may restart, with a new address
  MaxLosses,    \* bound: leaders that lose the leadership
  MaxRemoves    \* bound: removal requests

ASSUME MembershipOK ==
  /\ Boot \in Node /\ Movable \subseteq Node
  /\ MaxAddr \in Nat \ {0} /\ MaxLosses \in Nat /\ MaxRemoves \in Nat

None == 0          \* not in the configuration / not in the registry
Addr == 1..MaxAddr

VARIABLES
  voters,     \* raft configuration: address of every voter, or None
  registry,   \* memoryfs:nodes and memoryfs:node:raft:<id>, or None
  epoch,      \* memoryfs:cluster:epoch
  leader,     \* a set: the leader, if there is one
  stopped,    \* nodes whose raft has shut down, after removing themselves
  addr,       \* per node: the address it advertises
  joiner,     \* per node: cluster.Join: "off", "retry", "waiting", "joined"
  ops,        \* handlers in progress
  loop,       \* per node: RunLeaderLoop: "follower", "register", "reconcile", "leader"
  todo,       \* per node: the members ReconcileRaftPeers has not visited
  losses,     \* leaderships lost so far
  removes     \* removals asked for so far

raftVars == <<voters, registry, epoch>>
leadVars == <<leader, stopped, losses>>
vars == <<voters, registry, epoch, leader, stopped, addr, joiner, ops, loop, todo, losses, removes>>

Request == [kind : {"admit"}, id : Node, addr : Addr, at : Node, step : {"wait", "voter", "register", "epoch"}]
        \union [kind : {"remove"}, id : Node, addr : {None}, at : Node, step : {"voter", "register", "epoch"}]

Init ==
  /\ voters = [n \in Node |-> IF n = Boot THEN 1 ELSE None]
  /\ registry = [n \in Node |-> None]
  /\ epoch = 0
  /\ leader = {} /\ stopped = {}
  /\ addr = [n \in Node |-> 1]
  /\ joiner = [n \in Node |-> "off"]
  /\ ops = {}
  /\ loop = [n \in Node |-> "follower"]
  /\ todo = [n \in Node |-> {}]
  /\ losses = 0 /\ removes = 0

---------------------------------------------------------------------------
(* Raft, and processes that stop and start again.                          *)

Elect(n) ==
  /\ leader = {} /\ voters[n] # None /\ n \notin stopped
  /\ leader' = {n}
  /\ UNCHANGED <<raftVars, stopped, losses, addr, joiner, ops, loop, todo, removes>>

LoseLeadership ==
  /\ leader # {} /\ losses < MaxLosses
  /\ losses' = losses + 1
  /\ leader' = {}
  /\ UNCHANGED <<raftVars, stopped, addr, joiner, ops, loop, todo, removes>>

(* One raft write of node n, and whether the caller sees it succeed.       *)
Write(n, ok, effect) ==
  \/ ok /\ n \in leader /\ effect /\ UNCHANGED leadVars
  \/ ~ok /\ n \notin leader /\ UNCHANGED <<raftVars, leadVars>>
  \/ /\ ~ok /\ n \in leader /\ losses < MaxLosses
     /\ effect
     /\ leader' = {} /\ losses' = losses + 1 /\ UNCHANGED stopped

AddVoter(id, a) == voters' = [voters EXCEPT ![id] = a] /\ UNCHANGED <<registry, epoch>>
RemoveVoter(id) == voters' = [voters EXCEPT ![id] = None] /\ UNCHANGED <<registry, epoch>>
registerOps(id, a) == registry' = [registry EXCEPT ![id] = a] /\ UNCHANGED <<voters, epoch>>
removeOps(id) == registry' = [registry EXCEPT ![id] = None] /\ UNCHANGED <<voters, epoch>>
IncrEpoch == epoch' = epoch + 1 /\ UNCHANGED <<voters, registry>>

(* ensureRaftVoter: nothing is written when the address is right already.  *)
ensureRaftVoter(n, id, a, ok) ==
  \/ voters[id] = a /\ ok /\ UNCHANGED <<raftVars, leadVars>>
  \/ voters[id] # a /\ Write(n, ok, AddVoter(id, a))

---------------------------------------------------------------------------
(* cluster.Join: POST /v1/cluster/join to the leader until it succeeds.    *)

StartJoin(n) ==
  /\ n # Boot /\ joiner[n] = "off"
  /\ joiner' = [joiner EXCEPT ![n] = "retry"]
  /\ UNCHANGED <<raftVars, leadVars, addr, ops, loop, todo, removes>>

Acknowledge(n) == joiner' = [joiner EXCEPT ![n] = "joined"]

(* Fault: a voter is answered at once, registered or not.                  *)
AdmitVoterKnown(n) ==
  /\ joiner[n] = "retry" /\ leader # {}
  /\ voters[n] = addr[n]
  /\ Acknowledge(n)
  /\ UNCHANGED <<raftVars, leadVars, addr, ops, loop, todo, removes>>

(* Admit up to the early return: a member that is a voter and registered   *)
(* at this address already is answered at once.                            *)
AdmitKnown(n) ==
  /\ joiner[n] = "retry" /\ leader # {}
  /\ voters[n] = addr[n] /\ registry[n] = addr[n]
  /\ Acknowledge(n)
  /\ UNCHANGED <<raftVars, leadVars, addr, ops, loop, todo, removes>>

Admit(n) ==
  /\ joiner[n] = "retry" /\ leader # {}
  /\ ~(voters[n] = addr[n] /\ registry[n] = addr[n])
  /\ \E l \in leader : ops' = ops \union
       {[kind |-> "admit", id |-> n, addr |-> addr[n], at |-> l, step |-> "wait"]}
  /\ joiner' = [joiner EXCEPT ![n] = "waiting"]
  /\ UNCHANGED <<raftVars, leadVars, addr, loop, todo, removes>>

Goto(op, step) == ops' = (ops \ {op}) \union {[op EXCEPT !.step = step]}

(* Fault: an error of the handler ends the joiner's loop.                  *)
FailForGood(op) == ops' = ops \ {op} /\ UNCHANGED joiner

(* The handler returns an error: the joiner tries again, unless it has     *)
(* restarted meanwhile; whoever asked for a removal gets the error.        *)
Fail(op) ==
  /\ ops' = ops \ {op}
  /\ joiner' = IF op.kind = "admit" /\ joiner[op.id] = "waiting" /\ addr[op.id] = op.addr
               THEN [joiner EXCEPT ![op.id] = "retry"] ELSE joiner

(* waitRaftTCP                                                             *)
AdmitWait(op) ==
  /\ op.kind = "admit" /\ op.step = "wait"
  /\ \/ addr[op.id] = op.addr /\ Goto(op, "voter") /\ UNCHANGED joiner
     \/ addr[op.id] # op.addr /\ Fail(op)
  /\ UNCHANGED <<raftVars, leadVars, addr, loop, todo, removes>>

(* Fault: the error of AddVoter is ignored.                                *)
AdmitVoterIgnored(op) ==
  /\ op.kind = "admit" /\ op.step = "voter"
  /\ \E ok \in BOOLEAN : ensureRaftVoter(op.at, op.id, op.addr, ok)
  /\ Goto(op, "register") /\ UNCHANGED joiner
  /\ UNCHANGED <<addr, loop, todo, removes>>

AdmitVoter(op) ==
  /\ op.kind = "admit" /\ op.step = "voter"
  /\ \/ ensureRaftVoter(op.at, op.id, op.addr, TRUE) /\ Goto(op, "register") /\ UNCHANGED joiner
     \/ ensureRaftVoter(op.at, op.id, op.addr, FALSE) /\ Fail(op)
  /\ UNCHANGED <<addr, loop, todo, removes>>

AdmitRegister(op) ==
  /\ op.kind = "admit" /\ op.step = "register"
  /\ \/ Write(op.at, TRUE, registerOps(op.id, op.addr)) /\ Goto(op, "epoch") /\ UNCHANGED joiner
     \/ Write(op.at, FALSE, registerOps(op.id, op.addr)) /\ Fail(op)
  /\ UNCHANGED <<addr, loop, todo, removes>>

AdmitEpoch(op) ==
  /\ op.kind = "admit" /\ op.step = "epoch"
  /\ \/ /\ Write(op.at, TRUE, IncrEpoch)
        /\ ops' = ops \ {op}
        /\ IF joiner[op.id] = "waiting" /\ addr[op.id] = op.addr
           THEN Acknowledge(op.id) ELSE UNCHANGED joiner
     \/ Write(op.at, FALSE, IncrEpoch) /\ Fail(op)
  /\ UNCHANGED <<addr, loop, todo, removes>>

---------------------------------------------------------------------------
(* Membership.Remove, from RemoveNode and Leave.                           *)

RemoveNode(id) ==
  /\ removes < MaxRemoves /\ removes' = removes + 1
  /\ \E l \in leader : ops' = ops \union
       {[kind |-> "remove", id |-> id, addr |-> None, at |-> l, step |-> "voter"]}
  /\ UNCHANGED <<raftVars, leadVars, addr, joiner, loop, todo>>

(* Raft refuses to remove the last voter, and a leader that removes itself *)
(* shuts down when the entry is committed.                                 *)
RemoveVoterStep(op) ==
  /\ op.kind = "remove" /\ op.step = "voter"
  /\ \/ /\ \E n \in Node \ {op.id} : voters[n] # None
        /\ op.at \in leader /\ RemoveVoter(op.id)
        /\ leader' = leader \ {op.id} /\ stopped' = stopped \union (leader \intersect {op.id})
        /\ Goto(op, "register") /\ UNCHANGED <<losses, joiner>>
     \/ /\ op.at \notin leader \/ \A n \in Node \ {op.id} : voters[n] = None
        /\ Fail(op) /\ UNCHANGED <<raftVars, leadVars>>
     \/ /\ \E n \in Node \ {op.id} : voters[n] # None
        /\ Write(op.at, FALSE, RemoveVoter(op.id)) /\ Fail(op)
  /\ UNCHANGED <<addr, loop, todo, removes>>

RemoveRegistry(op) ==
  /\ op.kind = "remove" /\ op.step = "register"
  /\ \/ Write(op.at, TRUE, removeOps(op.id)) /\ Goto(op, "epoch") /\ UNCHANGED joiner
     \/ Write(op.at, FALSE, removeOps(op.id)) /\ Fail(op)
  /\ UNCHANGED <<addr, loop, todo, removes>>

RemoveEpoch(op) ==
  /\ op.kind = "remove" /\ op.step = "epoch"
  /\ \/ /\ Write(op.at, TRUE, IncrEpoch) /\ ops' = ops \ {op} /\ UNCHANGED joiner
     \/ Write(op.at, FALSE, IncrEpoch) /\ Fail(op)
  /\ UNCHANGED <<addr, loop, todo, removes>>

---------------------------------------------------------------------------
(* RunLeaderLoop polls IsLeader: on the edge it registers the node itself  *)
(* and then visits the members it reads from the registry once.            *)

Poll(n) ==
  /\ \/ n \in leader /\ loop[n] = "follower" /\ loop' = [loop EXCEPT ![n] = "register"]
     \/ n \notin leader /\ loop[n] = "leader" /\ loop' = [loop EXCEPT ![n] = "follower"]
  /\ UNCHANGED <<raftVars, leadVars, addr, joiner, ops, todo, removes>>

(* Fault: ids without a Raft address are listed too.                       *)
MembersUnfiltered == {[id |-> m, addr |-> registry'[m]] : m \in Node}

Members == {[id |-> m, addr |-> registry'[m]] : m \in {k \in Node : registry'[k] # None}}

(* RegisterSelf; its error is only logged.  Then the list is read, unless  *)
(* the node has lost the leadership.                                       *)
RegisterSelf(n) ==
  /\ loop[n] = "register"
  /\ \E ok \in BOOLEAN : Write(n, ok, registerOps(n, addr[n]))
  /\ loop' = [loop EXCEPT ![n] = IF n \in leader' THEN "reconcile" ELSE "leader"]
  /\ todo' = [todo EXCEPT ![n] = IF n \in leader' THEN Members ELSE {}]
  /\ UNCHANGED <<addr, joiner, ops, removes>>

(* One round of the loop of ReconcileRaftPeers, in map order; the first    *)
(* error ends it.                                                          *)
ReconcileRaftPeers(n) ==
  /\ loop[n] = "reconcile"
  /\ \/ /\ todo[n] = {}
        /\ loop' = [loop EXCEPT ![n] = "leader"]
        /\ UNCHANGED <<raftVars, leadVars, todo>>
     \/ \E m \in todo[n] :
          \/ /\ ensureRaftVoter(n, m.id, m.addr, TRUE)
             /\ todo' = [todo EXCEPT ![n] = @ \ {m}]
             /\ UNCHANGED loop
          \/ /\ ensureRaftVoter(n, m.id, m.addr, FALSE)
             /\ todo' = [todo EXCEPT ![n] = {}]
             /\ loop' = [loop EXCEPT ![n] = "leader"]
  /\ UNCHANGED <<addr, joiner, ops, removes>>

(* The process stops and comes back with a new address; its handlers are   *)
(* gone and their callers see an error.                                    *)
RestartNode(n) ==
  /\ n \in Movable /\ addr[n] < MaxAddr
  /\ addr' = [addr EXCEPT ![n] = @ + 1]
  /\ leader' = leader \ {n} /\ stopped' = stopped \ {n} /\ UNCHANGED losses
  /\ ops' = {op \in ops : op.at # n}
  /\ joiner' = [m \in Node |->
       IF m = n THEN IF n = Boot THEN "off" ELSE "retry"
       ELSE IF joiner[m] = "waiting" /\ \E op \in ops : op.kind = "admit" /\ op.id = m /\ op.at = n
            THEN "retry" ELSE joiner[m]]
  /\ loop' = [loop EXCEPT ![n] = "follower"]
  /\ todo' = [todo EXCEPT ![n] = {}]
  /\ UNCHANGED <<raftVars, removes>>

Handler(op) ==
  \/ AdmitWait(op) \/ AdmitVoter(op) \/ AdmitRegister(op) \/ AdmitEpoch(op)
  \/ RemoveVoterStep(op) \/ RemoveRegistry(op) \/ RemoveEpoch(op)

LeaderLoop(n) == Poll(n) \/ RegisterSelf(n) \/ ReconcileRaftPeers(n)

Next ==
  \/ LoseLeadership
  \/ \E n \in Node :
       Elect(n) \/ StartJoin(n) \/ AdmitKnown(n) \/ Admit(n) \/ RemoveNode(n) \/ LeaderLoop(n) \/ RestartNode(n)
  \/ \E op \in ops : Handler(op)

Spec == Init /\ [][Next]_vars

(* The retry loop of Join, the handlers and the leader loop keep running,  *)
(* and Raft elects a leader when there is none.                            *)
FairSpec ==
  /\ Spec
  /\ WF_vars(\E n \in Node : Elect(n))
  /\ \A n \in Node : WF_vars(AdmitKnown(n) \/ Admit(n)) /\ WF_vars(LeaderLoop(n))
  /\ WF_vars(\E op \in ops : Handler(op))

---------------------------------------------------------------------------
TypeOK ==
  /\ voters \in [Node -> Addr \union {None}] /\ registry \in [Node -> Addr \union {None}]
  /\ epoch \in Nat /\ stopped \subseteq Node
  /\ leader \subseteq Node \ stopped /\ Cardinality(leader) <= 1
  /\ addr \in [Node -> Addr] /\ ops \subseteq Request
  /\ joiner \in [Node -> {"off", "retry", "waiting", "joined"}]
  /\ loop \in [Node -> {"follower", "register", "reconcile", "leader"}]
  /\ todo \in [Node -> SUBSET [id : Node, addr : Addr]]
  /\ losses \in 0..MaxLosses /\ removes \in 0..MaxRemoves

(* Until something is removed, a node in the registry, and so a possible   *)
(* target of chains, is a Raft voter (membership.go:57-60: voter first).   *)
RegisteredAreVoters ==
  removes = 0 => \A n \in Node : registry[n] # None => voters[n] # None

(* Until something is removed, a node that was told it has joined is a     *)
(* voter and in the registry, whatever leader answered it.                 *)
JoinedAreMembers ==
  removes = 0 =>
    \A n \in Node : joiner[n] = "joined" => registry[n] # None /\ voters[n] # None

(* A node that starts to join ends up joined, across leader changes and    *)
(* restarts (client.go:25-64, with fewer failures than MaxAttempts).       *)
JoinsComplete == \A n \in Node : joiner[n] = "retry" ~> joiner[n] = "joined"

=============================================================================
