--------------------------- MODULE MetadataProofs ---------------------------
(***************************************************************************)
(* Proofs about the metadata: the members of the Raft group (Membership),  *)
(* the key-value store every member applies the log to (ReplicatedKV) and  *)
(* the namespace that is kept in it (MetaStore).  For every set of nodes,  *)
(* clients and keys, and every interleaving of the handlers.               *)
(***************************************************************************)
EXTENDS Membership, ReplicatedKV, MetaStore, Induction, TLAPS

---------------------------------------------------------------------------
(* Membership.                                                             *)

AddrOrNone == Addr \union {None}

Types ==
  /\ voters \in [Node -> AddrOrNone] /\ registry \in [Node -> AddrOrNone]
  /\ leader \subseteq Node /\ addr \in [Node -> Addr] /\ ops \subseteq Request
  /\ joiner \in [Node -> {"off", "retry", "waiting", "joined"}]
  /\ loop \in [Node -> {"follower", "register", "reconcile", "leader"}]
  /\ todo \in [Node -> SUBSET [id : Node, addr : Addr]]
  /\ removes \in Nat

(* A handler has done what comes before its next step.                     *)
StepDone(op) ==
  /\ op.kind = "admit"
  /\ op.step \in {"register", "epoch"} => voters[op.id] # None
  /\ op.step = "epoch" => registry[op.id] # None

(* While nothing has been removed, leaders and registered nodes are        *)
(* voters, and so is whoever was told that it has joined.                  *)
GrowInv ==
  /\ \A n \in leader : voters[n] # None
  /\ \A n \in Node : registry[n] # None => voters[n] # None
  /\ \A n \in Node : joiner[n] = "joined" => registry[n] # None
  /\ \A op \in ops : StepDone(op)

MemberInv == Types /\ (removes = 0 => GrowInv)

---------------------------------------------------------------------------
LEMMA AddrType == Addr \subseteq Nat /\ None \notin Addr /\ 1 \in Addr
BY MembershipOK DEF Addr, None

LEMMA MemberInit == Init => MemberInv
<1> SUFFICES ASSUME Init PROVE MemberInv
  OBVIOUS
<1>1. voters \in [Node -> AddrOrNone] /\ registry \in [Node -> AddrOrNone]
      /\ addr \in [Node -> Addr]
  BY Zenon, AddrType DEF Init, AddrOrNone
<1>2. Types
  BY Zenon, <1>1 DEF Init, Types
<1> QED BY Zenon, <1>2 DEF Init, MemberInv, GrowInv

(* What the raft writes do: none takes a voter or an entry away, and none  *)
(* makes a leader.                                                         *)
Grows ==
  /\ leader' \subseteq leader
  /\ voters' \in [Node -> AddrOrNone] /\ registry' \in [Node -> AddrOrNone]
  /\ \A m \in Node : voters[m] # None => voters'[m] # None
  /\ \A m \in Node : registry[m] # None => registry'[m] # None

LEMMA VoterWrite ==
  ASSUME Types, NEW n, NEW id \in Node, NEW a \in Addr, NEW ok, ensureRaftVoter(n, id, a, ok)
  PROVE  Grows /\ UNCHANGED registry /\ (ok => voters'[id] # None)
<1>1. a \in AddrOrNone /\ a # None
  BY Zenon, AddrType DEF AddrOrNone
<1> QED BY Zenon, <1>1 DEF Types, Grows, ensureRaftVoter, Write, AddVoter, raftVars, leadVars

LEMMA RegisterWrite ==
  ASSUME Types, NEW n, NEW id \in Node, NEW a \in Addr, NEW ok, Write(n, ok, registerOps(id, a))
  PROVE  /\ Grows /\ UNCHANGED voters /\ (ok => registry'[id] # None)
         /\ \A m \in Node : registry'[m] # registry[m] => m = id /\ n \in leader
<1>1. a \in AddrOrNone /\ a # None
  BY Zenon, AddrType DEF AddrOrNone
<1> QED BY <1>1 DEF Types, Grows, Write, registerOps, raftVars, leadVars

LEMMA EpochWrite ==
  ASSUME Types, NEW n, NEW ok, Write(n, ok, IncrEpoch)
  PROVE  Grows /\ UNCHANGED <<voters, registry>>
BY Zenon DEF Types, Grows, Write, IncrEpoch, raftVars, leadVars

(* The handlers: one moves on, or is gone and the joiner tries again.      *)
LEMMA GotoType ==
  ASSUME Types, NEW op \in ops, op.kind = "admit", NEW step \in {"voter", "register", "epoch"},
         Goto(op, step)
  PROVE  /\ ops' \subseteq Request
         /\ \A o \in ops' : o \in ops \/ (o.kind = "admit" /\ o.id = op.id /\ o.step = step)
<1>1. op \in [kind : {"admit"}, id : Node, addr : Addr, at : Node,
               step : {"wait", "voter", "register", "epoch"}]
  BY Zenon DEF Types, Request
<1>2. [op EXCEPT !.step = step] \in Request /\ [op EXCEPT !.step = step].kind = "admit"
      /\ [op EXCEPT !.step = step].id = op.id /\ [op EXCEPT !.step = step].step = step
  BY Zenon, <1>1 DEF Request
<1> QED BY Zenon, <1>2 DEF Goto, Types

LEMMA FailType ==
  ASSUME Types, NEW op \in ops, Fail(op)
  PROVE  /\ ops' \subseteq ops
         /\ joiner' \in [Node -> {"off", "retry", "waiting", "joined"}]
         /\ \A n \in Node : joiner'[n] = "joined" => joiner[n] = "joined"
BY Zenon DEF Fail, Types

LEMMA AckType ==
  ASSUME Types, NEW id \in Node, Acknowledge(id)
  PROVE  /\ joiner' \in [Node -> {"off", "retry", "waiting", "joined"}]
         /\ \A n \in Node : joiner'[n] = "joined" => joiner[n] = "joined" \/ n = id
BY Zenon DEF Acknowledge, Types

LEMMA OpType ==
  ASSUME Types, NEW op \in ops
  PROVE  op.id \in Node /\ op.kind \in {"admit", "remove"}
         /\ (op.kind = "admit" => op.addr \in Addr) /\ op.at \in Node
BY Zenon DEF Types, Request

(* A step that only adds: what it adds has to be in order.                 *)
LEMMA GrowStep ==
  ASSUME MemberInv, Grows, UNCHANGED <<addr, loop, todo, removes>>, ops' \subseteq Request,
         joiner' \in [Node -> {"off", "retry", "waiting", "joined"}],
         removes = 0 => \A m \in Node : registry'[m] # None => registry[m] # None \/ voters[m] # None,
         removes = 0 => \A m \in Node : joiner'[m] = "joined" => joiner[m] = "joined" \/ registry[m] # None,
         removes = 0 => \A o \in ops' : o \in ops \/ StepDone(o)'
  PROVE  MemberInv'
<1>1. Types'
  BY Zenon DEF MemberInv, Types, Grows
<1>2. ASSUME removes = 0 PROVE GrowInv'
  <2>1. GrowInv
    BY Zenon, <1>2 DEF MemberInv
  <2>2. \A n \in leader' : voters'[n] # None
    BY Zenon, <2>1 DEF GrowInv, Grows, MemberInv, Types
  <2>3. \A n \in Node : registry'[n] # None => voters'[n] # None
    BY Zenon, <1>2, <2>1 DEF GrowInv, Grows
  <2>4. \A n \in Node : joiner'[n] = "joined" => registry'[n] # None
    BY Zenon, <1>2, <2>1 DEF GrowInv, Grows
  <2>5. \A o \in ops : o.id \in Node
    BY Zenon, OpType DEF MemberInv
  <2>6. \A o \in ops : StepDone(o)'
    BY Zenon, <2>1, <2>5 DEF GrowInv, StepDone, Grows
  <2> QED BY Zenon, <1>2, <2>2, <2>3, <2>4, <2>6 DEF GrowInv
<1> QED BY Zenon, <1>1, <1>2 DEF MemberInv

(* The steps of an admission.                                              *)
LEMMA AdmitStep ==
  ASSUME MemberInv, NEW op \in ops,
         AdmitWait(op) \/ AdmitVoter(op) \/ AdmitRegister(op) \/ AdmitEpoch(op)
  PROVE  MemberInv'
<1>1. op.kind = "admit" /\ op.id \in Node /\ op.addr \in Addr /\ Types
      /\ UNCHANGED <<addr, loop, todo, removes>>
  BY Zenon, OpType DEF AdmitWait, AdmitVoter, AdmitRegister, AdmitEpoch, MemberInv
<1>2. ASSUME Fail(op) PROVE /\ ops' \subseteq Request /\ ops' \subseteq ops
                            /\ joiner' \in [Node -> {"off", "retry", "waiting", "joined"}]
                            /\ \A n \in Node : joiner'[n] = "joined" => joiner[n] = "joined"
  BY Zenon, <1>1, <1>2, FailType DEF Types
<1>3. ASSUME UNCHANGED joiner PROVE joiner' \in [Node -> {"off", "retry", "waiting", "joined"}]
  BY Zenon, <1>1, <1>3 DEF Types
<1>4. CASE AdmitWait(op)
  <2>1. Grows /\ UNCHANGED <<voters, registry>>
    BY Zenon, <1>1, <1>4 DEF AdmitWait, raftVars, leadVars, Types, Grows
  <2>2. CASE Goto(op, "voter") /\ UNCHANGED joiner
    <3>1. ops' \subseteq Request /\ \A o \in ops' : o \in ops \/ StepDone(o)'
      BY Zenon, <1>1, <2>2, GotoType DEF StepDone
    <3> QED BY Zenon, <1>1, <1>3, <2>1, <2>2, <3>1, GrowStep
  <2>3. CASE Fail(op)
    BY Zenon, <1>1, <1>2, <2>1, <2>3, GrowStep
  <2> QED BY Zenon, <1>4, <2>2, <2>3 DEF AdmitWait
<1>5. CASE AdmitVoter(op)
  <2>1. CASE ensureRaftVoter(op.at, op.id, op.addr, TRUE) /\ Goto(op, "register") /\ UNCHANGED joiner
    <3>1. Grows /\ UNCHANGED registry /\ voters'[op.id] # None
      BY Zenon, <1>1, <2>1, VoterWrite
    <3>2. ops' \subseteq Request /\ \A o \in ops' : o \in ops \/ StepDone(o)'
      BY Zenon, <1>1, <2>1, <3>1, GotoType DEF StepDone
    <3> QED BY Zenon, <1>1, <1>3, <2>1, <3>1, <3>2, GrowStep
  <2>2. CASE ensureRaftVoter(op.at, op.id, op.addr, FALSE) /\ Fail(op)
    <3>1. Grows /\ UNCHANGED registry
      BY Zenon, <1>1, <2>2, VoterWrite
    <3> QED BY Zenon, <1>1, <1>2, <2>2, <3>1, GrowStep
  <2> QED BY Zenon, <1>5, <2>1, <2>2 DEF AdmitVoter
<1>6. CASE AdmitRegister(op)
  <2>1. removes = 0 => voters[op.id] # None
    BY Zenon, <1>6 DEF AdmitRegister, MemberInv, GrowInv, StepDone
  <2>2. ASSUME NEW ok, Write(op.at, ok, registerOps(op.id, op.addr))
        PROVE  /\ Grows /\ UNCHANGED voters /\ (ok => registry'[op.id] # None)
               /\ removes = 0 => \A m \in Node : registry'[m] # None => registry[m] # None \/ voters[m] # None
    BY ZenonT(40), <1>1, <2>1, <2>2, RegisterWrite
  <2>3. CASE Write(op.at, TRUE, registerOps(op.id, op.addr)) /\ Goto(op, "epoch") /\ UNCHANGED joiner
    <3>1. Grows /\ UNCHANGED voters /\ registry'[op.id] # None
      BY Zenon, <2>2, <2>3
    <3>2. ops' \subseteq Request /\ (removes = 0 => \A o \in ops' : o \in ops \/ StepDone(o)')
      BY Zenon, <1>1, <2>1, <2>3, <3>1, GotoType DEF StepDone
    <3> QED BY Zenon, <1>1, <1>3, <2>2, <2>3, <3>1, <3>2, GrowStep
  <2>4. CASE Write(op.at, FALSE, registerOps(op.id, op.addr)) /\ Fail(op)
    BY Zenon, <1>1, <1>2, <2>2, <2>4, GrowStep
  <2> QED BY Zenon, <1>6, <2>3, <2>4 DEF AdmitRegister
<1>7. CASE AdmitEpoch(op)
  <2>1. removes = 0 => registry[op.id] # None
    BY Zenon, <1>7 DEF AdmitEpoch, MemberInv, GrowInv, StepDone
  <2>2. ASSUME NEW ok, Write(op.at, ok, IncrEpoch) PROVE Grows /\ UNCHANGED <<voters, registry>>
    BY Zenon, <1>1, <2>2, EpochWrite
  <2>3. CASE Write(op.at, TRUE, IncrEpoch) /\ ops' = ops \ {op} /\ Acknowledge(op.id)
    <3>1. ops' \subseteq Request /\ ops' \subseteq ops
      BY Zenon, <1>1, <2>3 DEF Types
    <3>2. /\ joiner' \in [Node -> {"off", "retry", "waiting", "joined"}]
          /\ \A n \in Node : joiner'[n] = "joined" => joiner[n] = "joined" \/ n = op.id
      BY Zenon, <1>1, <2>3, AckType
    <3> QED BY Zenon, <1>1, <2>1, <2>2, <2>3, <3>1, <3>2, GrowStep
  <2>4. CASE Write(op.at, TRUE, IncrEpoch) /\ ops' = ops \ {op} /\ UNCHANGED joiner
    <3>1. ops' \subseteq Request /\ ops' \subseteq ops
      BY Zenon, <1>1, <2>4 DEF Types
    <3> QED BY Zenon, <1>1, <1>3, <2>2, <2>4, <3>1, GrowStep
  <2>5. CASE Write(op.at, FALSE, IncrEpoch) /\ Fail(op)
    BY Zenon, <1>1, <1>2, <2>2, <2>5, GrowStep
  <2> QED BY Zenon, <1>7, <2>3, <2>4, <2>5 DEF AdmitEpoch
<1> QED BY Zenon, <1>4, <1>5, <1>6, <1>7
(* A removal has been asked for if one is at work: only types are left.    *)
LEMMA RemoveStep ==
  ASSUME MemberInv, NEW op \in ops,
         RemoveVoterStep(op) \/ RemoveRegistry(op) \/ RemoveEpoch(op)
  PROVE  MemberInv'
<1>1. op.kind = "remove" /\ op.id \in Node /\ Types /\ UNCHANGED <<addr, loop, todo, removes>>
  BY Zenon, OpType DEF RemoveVoterStep, RemoveRegistry, RemoveEpoch, MemberInv
<1>2. removes # 0
  BY Zenon, <1>1 DEF MemberInv, GrowInv, StepDone
<1>3. voters' \in [Node -> AddrOrNone] /\ registry' \in [Node -> AddrOrNone] /\ leader' \subseteq Node
  BY Zenon, <1>1 DEF RemoveVoterStep, RemoveRegistry, RemoveEpoch, Write, RemoveVoter, removeOps, IncrEpoch,
              raftVars, leadVars, Types, AddrOrNone
<1>4. ASSUME NEW step \in {"register", "epoch"}, Goto(op, step) PROVE ops' \subseteq Request
  <2>1. op \in [kind : {"remove"}, id : Node, addr : {None}, at : Node, step : {"voter", "register", "epoch"}]
    BY Zenon, <1>1 DEF Types, Request
  <2>2. [op EXCEPT !.step = step] \in Request
    BY Zenon, <2>1 DEF Request
  <2> QED BY Zenon, <1>1, <1>4, <2>2 DEF Goto, Types
<1>5. ASSUME Fail(op) PROVE /\ ops' \subseteq Request
                            /\ joiner' \in [Node -> {"off", "retry", "waiting", "joined"}]
  BY Zenon, <1>1, <1>5, FailType DEF Types
<1>6. ops' \subseteq Request /\ joiner' \in [Node -> {"off", "retry", "waiting", "joined"}]
  <2>1. \/ Goto(op, "register") /\ UNCHANGED joiner
        \/ Goto(op, "epoch") /\ UNCHANGED joiner
        \/ ops' = ops \ {op} /\ UNCHANGED joiner
        \/ Fail(op)
    BY Zenon DEF RemoveVoterStep, RemoveRegistry, RemoveEpoch
  <2> QED BY Zenon, <1>1, <1>4, <1>5, <2>1 DEF Types
<1> QED BY Zenon, <1>1, <1>2, <1>3, <1>6 DEF MemberInv, Types

(* The leader loop.                                                        *)
LEMMA LoopStep ==
  ASSUME MemberInv, NEW n \in Node, LeaderLoop(n)
  PROVE  MemberInv'
<1> USE DEF MemberInv
<1>1. CASE Poll(n)
  <2>1. UNCHANGED <<voters, registry, leader, addr, joiner, ops, todo, removes>>
        /\ loop' \in [Node -> {"follower", "register", "reconcile", "leader"}]
    BY Zenon, <1>1 DEF Poll, raftVars, leadVars, Types
  <2> QED BY Zenon, <2>1 DEF Types, GrowInv, StepDone
<1>2. CASE RegisterSelf(n)
  <2>1. UNCHANGED <<addr, joiner, ops, removes>> /\ addr[n] \in Addr
        /\ loop' \in [Node -> {"follower", "register", "reconcile", "leader"}]
    BY Zenon, <1>2 DEF RegisterSelf, Types
  <2>2. /\ Grows /\ UNCHANGED voters
        /\ \A m \in Node : registry'[m] # registry[m] => m = n /\ n \in leader
    BY Zenon, <1>2, <2>1, RegisterWrite DEF RegisterSelf
  <2>3. Members \subseteq [id : Node, addr : Addr]
    BY <2>2 DEF Members, Grows, AddrOrNone
  <2>4. todo' \in [Node -> SUBSET [id : Node, addr : Addr]]
    BY Zenon, <1>2, <2>3 DEF RegisterSelf, Types
  <2>5. Types'
    BY Zenon, <2>1, <2>2, <2>4 DEF Types, Grows
  <2>6. \A o \in ops : o.id \in Node
    BY Zenon, OpType
  <2>7. ASSUME removes = 0 PROVE GrowInv'
    <3>1. GrowInv
      BY Zenon, <2>7
    <3>2. \A m \in leader' : voters'[m] # None
      BY Zenon, <2>2, <3>1 DEF GrowInv, Grows, Types
    <3>3. \A m \in Node : registry'[m] # None => voters'[m] # None
      BY Zenon, <2>2, <3>1 DEF GrowInv
    <3>4. \A m \in Node : joiner'[m] = "joined" => registry'[m] # None
      BY Zenon, <2>1, <2>2, <3>1 DEF GrowInv, Grows
    <3>5. \A o \in ops' : StepDone(o)'
      BY Zenon, <2>1, <2>2, <2>6, <3>1 DEF GrowInv, StepDone, Grows
    <3> QED BY Zenon, <3>2, <3>3, <3>4, <3>5 DEF GrowInv
  <2> QED BY Zenon, <2>1, <2>5, <2>7
<1>3. CASE ReconcileRaftPeers(n)
  <2>1. UNCHANGED <<addr, joiner, ops, removes>>
        /\ loop' \in [Node -> {"follower", "register", "reconcile", "leader"}]
        /\ todo' \in [Node -> SUBSET [id : Node, addr : Addr]]
    BY Zenon, <1>3 DEF ReconcileRaftPeers, Types
  <2>2. Grows /\ UNCHANGED registry
    <3>1. CASE UNCHANGED <<raftVars, leadVars>>
      BY Zenon, <3>1 DEF raftVars, leadVars, Grows, Types
    <3>2. ASSUME NEW m \in todo[n], NEW ok \in BOOLEAN, ensureRaftVoter(n, m.id, m.addr, ok)
          PROVE  Grows /\ UNCHANGED registry
      <4>1. m.id \in Node /\ m.addr \in Addr
        BY DEF Types
      <4> QED BY Zenon, <3>2, <4>1, VoterWrite
    <3> QED BY Zenon, <1>3, <3>1, <3>2 DEF ReconcileRaftPeers
  <2>3. Types'
    BY Zenon, <2>1, <2>2 DEF Types, Grows
  <2>4. \A o \in ops : o.id \in Node
    BY Zenon, OpType
  <2> QED BY Zenon, <2>1, <2>2, <2>3, <2>4 DEF Types, GrowInv, StepDone, Grows
<1> QED BY Zenon, <1>1, <1>2, <1>3 DEF LeaderLoop
(* Elections, joiners and restarts.                                        *)
LEMMA OtherStep ==
  ASSUME MemberInv, NEW n \in Node,
         LoseLeadership \/ Elect(n) \/ StartJoin(n) \/ AdmitKnown(n) \/ Admit(n) \/ RemoveNode(n) \/ RestartNode(n)
  PROVE  MemberInv'
<1> USE DEF MemberInv
<1>1. CASE LoseLeadership
  BY Zenon, <1>1 DEF LoseLeadership, raftVars, Types, GrowInv, StepDone
<1>2. CASE Elect(n)
  BY Zenon, <1>2 DEF Elect, raftVars, Types, GrowInv, StepDone
<1>3. CASE StartJoin(n)
  BY Zenon, <1>3 DEF StartJoin, raftVars, leadVars, Types, GrowInv, StepDone
<1>4. CASE AdmitKnown(n)
  <2>1. registry[n] # None /\ Acknowledge(n)
        /\ UNCHANGED <<voters, registry, leader, addr, ops, loop, todo, removes>>
    BY <1>4, AddrType DEF AdmitKnown, raftVars, leadVars, Types
  <2> QED BY Zenon, <2>1, AckType DEF Types, GrowInv, StepDone
<1>5. CASE Admit(n)
  <2>1. PICK l \in leader : ops' = ops \union
          {[kind |-> "admit", id |-> n, addr |-> addr[n], at |-> l, step |-> "wait"]}
    BY SMTT(30), <1>5 DEF Admit
  <2>2. [kind |-> "admit", id |-> n, addr |-> addr[n], at |-> l, step |-> "wait"] \in Request
    BY SMTT(30) DEF Request, Types
  <2>3. joiner' = [joiner EXCEPT ![n] = "waiting"]
        /\ UNCHANGED <<voters, registry, leader, addr, loop, todo, removes>>
    BY Zenon, <1>5 DEF Admit, raftVars, leadVars
  <2>4. Types'
    BY Zenon, <2>1, <2>2, <2>3 DEF Types
  <2>5. GrowInv => \A o \in ops' : StepDone(o)'
    BY <2>1, <2>3 DEF GrowInv, StepDone
  <2> QED BY SMTT(30), <2>3, <2>4, <2>5 DEF GrowInv, Types
<1>6. CASE RemoveNode(n)
  <2>1. PICK l \in leader : ops' = ops \union
          {[kind |-> "remove", id |-> n, addr |-> None, at |-> l, step |-> "voter"]}
    BY Zenon, <1>6 DEF RemoveNode
  <2>2. [kind |-> "remove", id |-> n, addr |-> None, at |-> l, step |-> "voter"] \in Request
    BY Zenon DEF Request, Types
  <2>3. removes' \in Nat /\ removes' # 0
        /\ UNCHANGED <<voters, registry, leader, addr, joiner, loop, todo>>
    BY <1>6 DEF RemoveNode, raftVars, leadVars, Types
  <2> QED BY Zenon, <2>1, <2>2, <2>3 DEF Types
<1>7. CASE RestartNode(n)
  <2>1. UNCHANGED <<voters, registry, removes>> /\ leader' \subseteq leader /\ ops' \subseteq ops
    BY Zenon, <1>7 DEF RestartNode, raftVars
  <2>2. addr' \in [Node -> Addr]
    <3>1. addr[n] + 1 \in Addr
      BY <1>7, MembershipOK DEF RestartNode, Types, Addr
    <3> QED BY Zenon, <1>7, <3>1 DEF RestartNode, Types
  <2>3. joiner' \in [Node -> {"off", "retry", "waiting", "joined"}]
        /\ \A m \in Node : joiner'[m] = "joined" => joiner[m] = "joined"
    BY Zenon, <1>7 DEF RestartNode, Types
  <2>4. loop' \in [Node -> {"follower", "register", "reconcile", "leader"}]
        /\ todo' \in [Node -> SUBSET [id : Node, addr : Addr]]
    BY Zenon, <1>7 DEF RestartNode, Types
  <2> QED BY <2>1, <2>2, <2>3, <2>4 DEF Types, GrowInv, StepDone
<1> QED BY Zenon, <1>1, <1>2, <1>3, <1>4, <1>5, <1>6, <1>7

LEMMA MemberStep == MemberInv /\ [Next]_vars => MemberInv'
<1> SUFFICES ASSUME MemberInv, [Next]_vars PROVE MemberInv'
  OBVIOUS
<1>1. CASE UNCHANGED vars
  BY Zenon, <1>1 DEF vars, MemberInv, Types, GrowInv, StepDone
<1>2. CASE LoseLeadership
  BY Zenon, <1>2, OtherStep, MembershipOK
<1>3. ASSUME NEW n \in Node,
             \/ Elect(n) \/ StartJoin(n) \/ AdmitKnown(n) \/ Admit(n) \/ RemoveNode(n) \/ RestartNode(n)
             \/ LeaderLoop(n)
      PROVE  MemberInv'
  BY Zenon, <1>3, OtherStep, LoopStep
<1>4. ASSUME NEW op \in ops, Handler(op) PROVE MemberInv'
  BY Zenon, <1>4, AdmitStep, RemoveStep DEF Handler
<1> QED BY Zenon, <1>1, <1>2, <1>3, <1>4 DEF Next

(* Until something is removed, the registry, from which chains are built,  *)
(* names Raft voters only (membership.go:57-60).                           *)
THEOREM RegistryWithinVoters == Spec => []RegisteredAreVoters
<1>1. MemberInv => RegisteredAreVoters
  BY Zenon DEF MemberInv, GrowInv, RegisteredAreVoters
<1> QED BY <1>1, MemberInit, MemberStep, PTL DEF Spec

(* Until something is removed, a node that was told it has joined is a     *)
(* voter and registered, whichever leaders handled its attempts.           *)
THEOREM JoinedStayMembers == Spec => []JoinedAreMembers
<1>1. MemberInv => JoinedAreMembers
  BY Zenon DEF MemberInv, GrowInv, JoinedAreMembers
<1> QED BY <1>1, MemberInit, MemberStep, PTL DEF Spec

---------------------------------------------------------------------------
(* At most one leader, which has not removed itself.                       *)
LeadInv ==
  /\ epoch \in Nat /\ stopped \subseteq Node
  /\ leader \subseteq Node \ stopped /\ (\A m, n \in leader : m = n)
  /\ losses \in 0..MaxLosses /\ removes \in 0..MaxRemoves

(* A step that elects nobody and asks for no removal.                      *)
Calm ==
  /\ epoch' \in {epoch, epoch + 1}
  /\ leader' \subseteq leader /\ leader' \cap stopped' = {} /\ stopped' \subseteq stopped \union leader
  /\ losses' = losses \/ (losses < MaxLosses /\ losses' = losses + 1)
  /\ removes' = removes

LEMMA CalmStep ==
  ASSUME LeadInv, Calm PROVE LeadInv'
<1>1. epoch' \in Nat /\ losses' \in 0..MaxLosses /\ removes' \in 0..MaxRemoves
  BY MembershipOK DEF LeadInv, Calm
<1>2. /\ stopped' \subseteq Node /\ leader' \subseteq Node \ stopped'
      /\ \A m, n \in leader' : m = n
  BY Zenon DEF LeadInv, Calm
<1> QED BY Zenon, <1>1, <1>2 DEF LeadInv

LEMMA HandlerCalm ==
  ASSUME LeadInv, NEW op \in ops, Handler(op) PROVE Calm
<1>1. leader \cap stopped = {}
  BY Zenon DEF LeadInv
<1>2. CASE AdmitWait(op) \/ AdmitVoter(op) \/ AdmitRegister(op)
  BY Zenon, <1>1, <1>2
  DEF AdmitWait, AdmitVoter, AdmitRegister, ensureRaftVoter, Write, AddVoter, registerOps, raftVars, leadVars, Calm
<1>3. CASE AdmitEpoch(op) \/ RemoveEpoch(op)
  BY Zenon, <1>1, <1>3 DEF AdmitEpoch, RemoveEpoch, Write, IncrEpoch, raftVars, leadVars, Calm
<1>4. CASE RemoveRegistry(op)
  BY Zenon, <1>1, <1>4 DEF RemoveRegistry, Write, removeOps, raftVars, leadVars, Calm
<1>5. CASE RemoveVoterStep(op)
  BY Zenon, <1>1, <1>5 DEF RemoveVoterStep, Write, RemoveVoter, raftVars, leadVars, Calm
<1> QED BY Zenon, <1>2, <1>3, <1>4, <1>5 DEF Handler

LEMMA LeadNext == Types /\ LeadInv /\ [Next]_vars => LeadInv'
<1> SUFFICES ASSUME Types, LeadInv, [Next]_vars PROVE LeadInv'
  OBVIOUS
<1>0. leader \cap stopped = {}
  BY Zenon DEF LeadInv
<1>1. CASE UNCHANGED vars
  BY Zenon, <1>1 DEF vars, LeadInv
<1>2. CASE LoseLeadership
  <2>1. Calm
    BY Zenon, <1>2 DEF LoseLeadership, Calm, raftVars
  <2> QED BY Zenon, <2>1, CalmStep
<1>3. ASSUME NEW n \in Node,
             \/ Elect(n) \/ StartJoin(n) \/ AdmitKnown(n) \/ Admit(n) \/ RemoveNode(n) \/ RestartNode(n)
             \/ LeaderLoop(n)
      PROVE  LeadInv'
  <2>1. CASE Elect(n)
    BY Zenon, <2>1 DEF Elect, LeadInv, raftVars
  <2>2. CASE StartJoin(n) \/ AdmitKnown(n) \/ Admit(n) \/ RestartNode(n)
    <3>1. Calm
      BY Zenon, <1>0, <2>2 DEF StartJoin, AdmitKnown, Admit, RestartNode, Calm, raftVars, leadVars
    <3> QED BY Zenon, <3>1, CalmStep
  <2>3. CASE RemoveNode(n)
    BY <2>3, MembershipOK DEF RemoveNode, LeadInv, raftVars, leadVars
  <2>4. CASE LeaderLoop(n)
    <3>1. Calm
      BY Zenon, <1>0, <2>4 DEF LeaderLoop, Poll, RegisterSelf, ReconcileRaftPeers, ensureRaftVoter, Write, AddVoter,
        registerOps, Calm, raftVars, leadVars
    <3> QED BY Zenon, <3>1, CalmStep
  <2> QED BY Zenon, <1>3, <2>1, <2>2, <2>3, <2>4
<1>4. ASSUME NEW op \in ops, Handler(op) PROVE LeadInv'
  BY Zenon, <1>4, HandlerCalm, CalmStep
<1> QED BY Zenon, <1>1, <1>2, <1>3, <1>4 DEF Next

(* There is at most one leader, it is not a node that has shut down after  *)
(* it removed itself, and every handler in progress is one the code has.   *)
THEOREM MembershipTypeCorrect == Spec => []TypeOK
<1>1. Init => LeadInv
  BY MembershipOK DEF Init, LeadInv
<1>2. MemberInv /\ LeadInv => TypeOK
  <2> SUFFICES ASSUME MemberInv, LeadInv PROVE TypeOK
    OBVIOUS
  <2>1. Cardinality(leader) <= 1
    <3>1. CASE leader = {}
      BY <3>1, FS_EmptySet
    <3>2. CASE leader # {}
      <4>1. PICK n : leader = {n}
        BY <3>2 DEF LeadInv
      <4>2. Cardinality({n}) = 1
        BY Zenon, FS_Singleton
      <4> QED BY <4>1, <4>2
    <3> QED BY Zenon, <3>1, <3>2
  <2> QED BY Zenon, <2>1 DEF MemberInv, Types, LeadInv, TypeOK, AddrOrNone
<1>3. MemberInv => Types
  BY Zenon DEF MemberInv
<1> QED BY <1>1, <1>2, <1>3, LeadNext, MemberInit, MemberStep, PTL DEF Spec

---------------------------------------------------------------------------
(* ReplicatedKV.  A store is sound when it has the types of its maps, its  *)
(* sets are finite, and the string under a counter is the counter.         *)

FiniteIn(S) == {T \in SUBSET S : IsFiniteSet(T)}
Store ==
  [str : [Key \union Counter -> Value \union {NoValue} \union Nat],
   hash : [Key -> [Field -> Value \union {NoValue}]],
   sets : [Key -> FiniteIn(Value)],
   incrs : [Counter -> Nat]]
Counts(m) == \A k \in Counter : m.str[k] = IF m.incrs[k] = 0 THEN NoValue ELSE m.incrs[k]
Sound == {m \in Store : Counts(m)}

LEMMA EmptySound == Empty \in Sound
<1>1. {} \in FiniteIn(Value)
  BY Zenon, FS_EmptySet DEF FiniteIn
<1> QED BY Zenon, <1>1 DEF Sound, Store, Counts, Empty

(* A store is its four maps.                                               *)
Maps(s, h, t, c) == [str |-> s, hash |-> h, sets |-> t, incrs |-> c]

LEMMA MapsSound ==
  ASSUME NEW s \in [Key \union Counter -> Value \union {NoValue} \union Nat],
         NEW h \in [Key -> [Field -> Value \union {NoValue}]],
         NEW t \in [Key -> FiniteIn(Value)], NEW c \in [Counter -> Nat],
         \A k \in Counter : s[k] = IF c[k] = 0 THEN NoValue ELSE c[k]
  PROVE  Maps(s, h, t, c) \in Sound
BY Zenon DEF Maps, Sound, Store, Counts

LEMMA SoundMaps ==
  ASSUME NEW m \in Sound
  PROVE  /\ m.str \in [Key \union Counter -> Value \union {NoValue} \union Nat]
         /\ m.hash \in [Key -> [Field -> Value \union {NoValue}]]
         /\ m.sets \in [Key -> FiniteIn(Value)]
         /\ m.incrs \in [Counter -> Nat]
         /\ \A k \in Counter : m.str[k] = IF m.incrs[k] = 0 THEN NoValue ELSE m.incrs[k]
BY Zenon DEF Sound, Store, Counts

LEMMA ChangedStr ==
  ASSUME NEW m \in Sound, NEW x
  PROVE  [m EXCEPT !.str = x] = Maps(x, m.hash, m.sets, m.incrs)
BY DEF Maps, Sound, Store

LEMMA ChangedHash ==
  ASSUME NEW m \in Sound, NEW x
  PROVE  [m EXCEPT !.hash = x] = Maps(m.str, x, m.sets, m.incrs)
BY DEF Maps, Sound, Store

LEMMA ChangedSets ==
  ASSUME NEW m \in Sound, NEW x
  PROVE  [m EXCEPT !.sets = x] = Maps(m.str, m.hash, x, m.incrs)
BY DEF Maps, Sound, Store

LEMMA ChangedCounter ==
  ASSUME NEW m \in Sound, NEW x, NEW y
  PROVE  [m EXCEPT !.str = x, !.incrs = y] = Maps(x, m.hash, m.sets, y)
<1>1. [m EXCEPT !.str = x] = Maps(x, m.hash, m.sets, m.incrs)
  BY Zenon, ChangedStr
<1>2. [m EXCEPT !.str = x, !.incrs = y] = [[m EXCEPT !.str = x] EXCEPT !.incrs = y]
  BY Zenon
<1>3. [Maps(x, m.hash, m.sets, m.incrs) EXCEPT !.incrs = y] = Maps(x, m.hash, m.sets, y)
  BY DEF Maps
<1> QED BY Zenon, <1>1, <1>2, <1>3

LEMMA ChangedIncr ==
  ASSUME NEW m \in Sound, NEW x, NEW y
  PROVE  [m EXCEPT !.incrs = y, !.str = x] = Maps(x, m.hash, m.sets, y)
<1>1. [m EXCEPT !.incrs = y] = Maps(m.str, m.hash, m.sets, y)
  BY DEF Maps, Sound, Store
<1>2. [m EXCEPT !.incrs = y, !.str = x] = [[m EXCEPT !.incrs = y] EXCEPT !.str = x]
  BY Zenon
<1>3. [Maps(m.str, m.hash, m.sets, y) EXCEPT !.str = x] = Maps(x, m.hash, m.sets, y)
  BY DEF Maps
<1> QED BY Zenon, <1>1, <1>2, <1>3

LEMMA ChangedDel ==
  ASSUME NEW m \in Sound, NEW x, NEW y, NEW z
  PROVE  [m EXCEPT !.str = x, !.hash = y, !.sets = z] = Maps(x, y, z, m.incrs)
<1>1. [m EXCEPT !.str = x] = Maps(x, m.hash, m.sets, m.incrs)
  BY Zenon, ChangedStr
<1>2. [m EXCEPT !.str = x, !.hash = y, !.sets = z] =
        [[[m EXCEPT !.str = x] EXCEPT !.hash = y] EXCEPT !.sets = z]
  BY Zenon
<1>3. [Maps(x, m.hash, m.sets, m.incrs) EXCEPT !.hash = y] = Maps(x, y, m.sets, m.incrs)
  BY DEF Maps
<1>4. [Maps(x, y, m.sets, m.incrs) EXCEPT !.sets = z] = Maps(x, y, z, m.incrs)
  BY DEF Maps
<1> QED BY Zenon, <1>1, <1>2, <1>3, <1>4

LEMMA DelSound ==
  ASSUME NEW m \in Sound, NEW k \in Key \union Counter
  PROVE  Del(m, k) \in Sound
<1>1. {} \in FiniteIn(Value)
  BY Zenon, FS_EmptySet DEF FiniteIn
<1>2. CASE k \in Counter
  <2> DEFINE x == [m.str EXCEPT ![k] = NoValue]
             y == [m.incrs EXCEPT ![k] = 0]
  <2>1. Maps(x, m.hash, m.sets, y) \in Sound
    BY Zenon, <1>2, SoundMaps, MapsSound
  <2>2. Del(m, k) = [m EXCEPT !.str = x, !.incrs = y]
    BY Zenon, <1>2 DEF Del
  <2> HIDE DEF x, y
  <2>3. [m EXCEPT !.str = x, !.incrs = y] = Maps(x, m.hash, m.sets, y)
    BY Zenon, ChangedCounter
  <2> QED BY Zenon, <2>1, <2>2, <2>3
<1>3. CASE k \notin Counter
  <2> DEFINE x == [m.str EXCEPT ![k] = NoValue]
             y == [m.hash EXCEPT ![k] = [f \in Field |-> NoValue]]
             z == [m.sets EXCEPT ![k] = {}]
  <2>1. Maps(x, y, z, m.incrs) \in Sound
    BY <1>1, <1>3, SoundMaps, MapsSound
  <2>2. Del(m, k) = [m EXCEPT !.str = x, !.hash = y, !.sets = z]
    BY Zenon, <1>3 DEF Del
  <2> HIDE DEF x, y, z
  <2> QED BY Zenon, <2>1, <2>2, ChangedDel
<1> QED BY Zenon, <1>2, <1>3

LEMMA IncrSound ==
  ASSUME NEW m \in Sound, NEW k \in Counter
  PROVE  Incr(m, k) \in Sound
<1> DEFINE x == [m.str EXCEPT ![k] = m.incrs[k] + 1]
           y == [m.incrs EXCEPT ![k] = @ + 1]
<1>1. Maps(x, m.hash, m.sets, y) \in Sound
  <2>1. /\ x \in [Key \union Counter -> Value \union {NoValue} \union Nat] /\ y \in [Counter -> Nat]
        /\ \A j \in Counter : x[j] = IF y[j] = 0 THEN NoValue ELSE y[j]
    BY SoundMaps
  <2> HIDE DEF x, y
  <2> QED BY Zenon, <2>1, SoundMaps, MapsSound
<1>2. Incr(m, k) = [m EXCEPT !.incrs = y, !.str = x]
  BY Zenon DEF Incr
<1> HIDE DEF x, y
<1> QED BY Zenon, <1>1, <1>2, ChangedIncr

LEMMA ApplySound ==
  ASSUME NEW m \in Sound, NEW op \in Op
  PROVE  applyLocked(m, op) \in Sound
<1>1. CASE op \in [type : {"set"}, key : Key, value : Value]
  <2>1. op.type = "set" /\ op.key \in Key /\ op.key \notin Counter /\ op.value \in Value
    BY Zenon, <1>1, KVConstants
  <2>2. applyLocked(m, op) = [m EXCEPT !.str[op.key] = op.value]
    BY Zenon, <2>1 DEF applyLocked
  <2> DEFINE x == [m.str EXCEPT ![op.key] = op.value]
  <2>3. Maps(x, m.hash, m.sets, m.incrs) \in Sound
    BY <2>1, <2>2, SoundMaps, MapsSound
  <2>4. applyLocked(m, op) = [m EXCEPT !.str = x]
    BY Zenon, <2>2
  <2> HIDE DEF x
  <2> QED BY Zenon, <2>3, <2>4, ChangedStr
<1>2. CASE op \in [type : {"del"}, key : Key \union Counter]
  <2>1. applyLocked(m, op) = Del(m, op.key) /\ op.key \in Key \union Counter
    BY Zenon, <1>2 DEF applyLocked
  <2> QED BY Zenon, <2>1, DelSound
<1>3. CASE op \in [type : {"hset"}, key : Key, field : Field, value : Value]
  <2>1. op.type = "hset" /\ op.key \in Key /\ op.field \in Field /\ op.value \in Value
    BY Zenon, <1>3
  <2>2. applyLocked(m, op) = [m EXCEPT !.hash[op.key][op.field] = op.value]
    BY Zenon, <2>1 DEF applyLocked
  <2> DEFINE x == [m.hash EXCEPT ![op.key][op.field] = op.value]
  <2>3. Maps(m.str, x, m.sets, m.incrs) \in Sound
    BY <2>1, <2>2, SoundMaps, MapsSound
  <2>4. applyLocked(m, op) = [m EXCEPT !.hash = x]
    BY Zenon, <2>2
  <2> HIDE DEF x
  <2> QED BY Zenon, <2>3, <2>4, ChangedHash
<1>4. CASE op \in [type : {"hdel"}, key : Key, field : Field]
  <2>1. op.type = "hdel" /\ op.key \in Key /\ op.field \in Field
    BY Zenon, <1>4
  <2>2. applyLocked(m, op) = [m EXCEPT !.hash[op.key][op.field] = NoValue]
    BY Zenon, <2>1 DEF applyLocked
  <2> DEFINE x == [m.hash EXCEPT ![op.key][op.field] = NoValue]
  <2>3. Maps(m.str, x, m.sets, m.incrs) \in Sound
    BY <2>1, <2>2, SoundMaps, MapsSound
  <2>4. applyLocked(m, op) = [m EXCEPT !.hash = x]
    BY Zenon, <2>2
  <2> HIDE DEF x
  <2> QED BY Zenon, <2>3, <2>4, ChangedHash
<1>5. CASE op \in [type : {"incr"}, key : Counter]
  <2>1. applyLocked(m, op) = Incr(m, op.key) /\ op.key \in Counter
    BY Zenon, <1>5 DEF applyLocked
  <2> QED BY Zenon, <2>1, IncrSound
<1>6. CASE op \in [type : {"sadd", "srem"}, key : Key, value : Value]
  <2>1. op.type \in {"sadd", "srem"} /\ op.key \in Key /\ op.value \in Value
    BY Zenon, <1>6
  <2>2. PICK T : T \in FiniteIn(Value) /\ applyLocked(m, op) = [m EXCEPT !.sets[op.key] = T]
    <3>1. m.sets[op.key] \in SUBSET Value /\ IsFiniteSet(m.sets[op.key])
      BY Zenon, <2>1 DEF Sound, Store, FiniteIn
    <3>2. /\ m.sets[op.key] \union {op.value} \in FiniteIn(Value)
          /\ m.sets[op.key] \ {op.value} \in FiniteIn(Value)
      BY <2>1, <3>1, FS_AddElement, FS_RemoveElement DEF FiniteIn
    <3>3. op.type = "sadd" => applyLocked(m, op) = [m EXCEPT !.sets[op.key] = @ \union {op.value}]
      BY Zenon DEF applyLocked
    <3>4. op.type = "srem" => applyLocked(m, op) = [m EXCEPT !.sets[op.key] = @ \ {op.value}]
      BY Zenon DEF applyLocked
    <3> QED BY Zenon, <2>1, <3>2, <3>3, <3>4
  <2> DEFINE x == [m.sets EXCEPT ![op.key] = T]
  <2>3. Maps(m.str, m.hash, x, m.incrs) \in Sound
    BY Zenon, <2>1, <2>2, SoundMaps, MapsSound
  <2>4. applyLocked(m, op) = [m EXCEPT !.sets = x]
    BY Zenon, <2>2
  <2> HIDE DEF x
  <2> QED BY Zenon, <2>3, <2>4, ChangedSets
<1> QED BY Zenon, <1>1, <1>2, <1>3, <1>4, <1>5, <1>6 DEF Op

(* A batch, and the replay of a log, one entry after the other.            *)
LEMMA BatchSound ==
  ASSUME NEW m \in Sound, NEW batch \in Seq(Op)
  PROVE  Batch(m, batch) \in Sound
<1> DEFINE n == Len(batch)
           F == [ix \in (1..n) \X Sound |-> applyLocked(ix[2], batch[ix[1]])]
           G(f) == [i \in 0..n |-> IF i = 0 THEN m ELSE applyLocked(f[i - 1], batch[i])]
           after == CHOOSE f : f = G(f)
<1>1. \A i \in 1..n : \A x \in Sound : F[<<i, x>>] = applyLocked(x, batch[i]) /\ F[<<i, x>>] \in Sound
  <2>1. \A i \in 1..n : batch[i] \in Op
    OBVIOUS
  <2> QED BY Zenon, <2>1, ApplySound
<1>2. n \in Nat
  OBVIOUS
<1>20. Closed(F, n, Sound)
  <2> HIDE DEF F, n
  <2> QED BY Zenon, <1>1 DEF Closed
<1>21. PICK g : Iterates(g, F, n, Sound, m)
  <2> HIDE DEF F, n
  <2> QED BY Zenon, <1>2, <1>20, Iterate
<1>3. g \in [0..n -> Sound] /\ g[0] = m /\ \A i \in 1..n : g[i] = F[<<i, g[i - 1]>>]
  BY Zenon, <1>21 DEF Iterates
<1>4. g = G(g)
  <2>1. ASSUME NEW i \in 0..n, i # 0 PROVE g[i] = applyLocked(g[i - 1], batch[i])
    <3> HIDE DEF F, n
    <3>1. i \in 1..n /\ g[i - 1] \in Sound
      BY <1>2, <1>3, <2>1
    <3> QED BY Zenon, <1>1, <1>3, <3>1
  <2> HIDE DEF n
  <2> QED BY Zenon, <1>3, <2>1
<1>5. after = G(after)
  <2> HIDE DEF G
  <2> QED BY Zenon, <1>4
<1>6. \A i \in 0..n : after[i] = g[i]
  <2> DEFINE T == {i \in Nat : i <= n => after[i] = g[i]}
  <2>1. 0 \in T
    <3>1. G(after)[0] = m
      BY <1>2
    <3> HIDE DEF after, G
    <3> QED BY Zenon, <1>3, <1>5, <3>1
  <2>2. ASSUME NEW i \in Nat, i \in T PROVE i + 1 \in T
    <3> SUFFICES ASSUME i + 1 <= n PROVE after[i + 1] = g[i + 1]
      OBVIOUS
    <3>1. i + 1 \in 0..n /\ i + 1 # 0 /\ (i + 1) - 1 = i /\ after[i] = g[i]
      BY <1>2, <2>2
    <3>2. G(after)[i + 1] = applyLocked(after[i], batch[i + 1])
      BY Zenon, <3>1
    <3>3. G(g)[i + 1] = applyLocked(g[i], batch[i + 1])
      BY Zenon, <3>1
    <3> HIDE DEF after, G
    <3> QED BY Zenon, <1>4, <1>5, <3>1, <3>2, <3>3
  <2>3. Nat \subseteq T
    <3> HIDE DEF T
    <3> QED BY Zenon, <2>1, <2>2, Induct
  <2> HIDE DEF after, n
  <2> QED BY <1>2, <2>3
<1>7. Batch(m, batch) = after[n]
  BY Zenon DEF Batch
<1> HIDE DEF after, n
<1> QED BY <1>2, <1>3, <1>6, <1>7


LEMMA ReplaySound ==
  ASSUME NEW entries \in Seq(Seq(Op))
  PROVE  /\ Replay(entries, 0) = Empty
         /\ \A i \in 0..Len(entries) : Replay(entries, i) \in Sound
         /\ \A i \in 1..Len(entries) : Replay(entries, i) = Batch(Replay(entries, i - 1), entries[i])
<1> DEFINE n == Len(entries)
           F == [ix \in (1..n) \X Sound |-> Batch(ix[2], entries[ix[1]])]
           G(f) == [i \in 0..n |-> IF i = 0 THEN Empty ELSE Batch(f[i - 1], entries[i])]
           state == CHOOSE f : f = G(f)
<1>1. \A i \in 1..n : \A x \in Sound : F[<<i, x>>] = Batch(x, entries[i]) /\ F[<<i, x>>] \in Sound
  <2>1. \A i \in 1..n : entries[i] \in Seq(Op)
    OBVIOUS
  <2> QED BY Zenon, <2>1, BatchSound
<1>2. n \in Nat
  OBVIOUS
<1>20. Closed(F, n, Sound)
  <2> HIDE DEF F, n
  <2> QED BY Zenon, <1>1 DEF Closed
<1>21. PICK g : Iterates(g, F, n, Sound, Empty)
  <2> HIDE DEF F, n
  <2> QED BY Zenon, <1>2, <1>20, EmptySound, Iterate
<1>3. g \in [0..n -> Sound] /\ g[0] = Empty /\ \A i \in 1..n : g[i] = F[<<i, g[i - 1]>>]
  BY Zenon, <1>21 DEF Iterates
<1>4. g = G(g)
  <2>1. ASSUME NEW i \in 0..n, i # 0 PROVE g[i] = Batch(g[i - 1], entries[i])
    <3> HIDE DEF F, n
    <3>1. i \in 1..n /\ g[i - 1] \in Sound
      BY <1>2, <1>3, <2>1
    <3> QED BY Zenon, <1>1, <1>3, <3>1
  <2> HIDE DEF n
  <2> QED BY Zenon, <1>3, <2>1
<1>5. state = G(state)
  <2> HIDE DEF G
  <2> QED BY Zenon, <1>4
<1>6. state[0] = Empty /\ \A i \in 1..n : state[i] = Batch(state[i - 1], entries[i])
  <2>1. G(state)[0] = Empty
    BY <1>2
  <2>2. ASSUME NEW i \in 1..n PROVE G(state)[i] = Batch(state[i - 1], entries[i])
    <3>1. i \in 0..n /\ i # 0
      BY <1>2
    <3> QED BY Zenon, <3>1
  <2> HIDE DEF state, G
  <2> QED BY Zenon, <1>5, <2>1, <2>2
<1>7. \A i \in 0..n : state[i] \in Sound
  <2> DEFINE T == {i \in Nat : i <= n => state[i] \in Sound}
  <2>1. 0 \in T
    BY Zenon, <1>6, EmptySound
  <2>2. ASSUME NEW i \in Nat, i \in T PROVE i + 1 \in T
    <3> SUFFICES ASSUME i + 1 <= n PROVE state[i + 1] \in Sound
      OBVIOUS
    <3>1. i + 1 \in 1..n /\ (i + 1) - 1 = i /\ state[i] \in Sound
      BY <1>2, <2>2
    <3>2. entries[i + 1] \in Seq(Op)
      BY <3>1
    <3>3. state[i + 1] = Batch(state[i], entries[i + 1])
      BY Zenon, <1>6, <3>1
    <3> HIDE DEF state
    <3> QED BY Zenon, <3>1, <3>2, <3>3, BatchSound
  <2>3. Nat \subseteq T
    <3> HIDE DEF T
    <3> QED BY Zenon, <2>1, <2>2, Induct
  <2> HIDE DEF state, n
  <2> QED BY <1>2, <2>3
<1>8. \A i : Replay(entries, i) = state[i]
  BY Zenon DEF Replay
<1>9. \A i \in 1..n : i - 1 \in 0..n
  BY <1>2
<1> HIDE DEF state
<1> QED BY Zenon, <1>6, <1>7, <1>8, <1>9

(* More entries do not change what the first ones mean.                    *)
LEMMA ReplayKept ==
  ASSUME NEW entries \in Seq(Seq(Op)), NEW batch \in Seq(Op), NEW i \in 0..Len(entries)
  PROVE  Replay(Append(entries, batch), i) = Replay(entries, i)
<1> DEFINE more == Append(entries, batch)
           n == Len(entries)
           T == {k \in Nat : k <= n => Replay(more, k) = Replay(entries, k)}
<1>1. more \in Seq(Seq(Op)) /\ Len(more) = n + 1 /\ n \in Nat /\ \A k \in 1..n : more[k] = entries[k]
  OBVIOUS
<1>2. /\ Replay(more, 0) = Empty
      /\ \A k \in 1..(n + 1) : Replay(more, k) = Batch(Replay(more, k - 1), more[k])
  <2> HIDE DEF more, n
  <2> QED BY Zenon, <1>1, ReplaySound
<1>3. /\ Replay(entries, 0) = Empty
      /\ \A k \in 1..n : Replay(entries, k) = Batch(Replay(entries, k - 1), entries[k])
  BY Zenon, ReplaySound
<1> HIDE DEF more, n
<1>4. 0 \in T
  BY Zenon, <1>2, <1>3
<1>5. ASSUME NEW k \in Nat, k \in T PROVE k + 1 \in T
  <2> SUFFICES ASSUME k + 1 <= n PROVE Replay(more, k + 1) = Replay(entries, k + 1)
    OBVIOUS
  <2>1. /\ k + 1 \in 1..n /\ k + 1 \in 1..(n + 1) /\ (k + 1) - 1 = k
        /\ Replay(more, k) = Replay(entries, k)
    BY <1>1, <1>5
  <2>2. /\ Replay(more, k + 1) = Batch(Replay(more, k), more[k + 1])
        /\ Replay(entries, k + 1) = Batch(Replay(entries, k), entries[k + 1])
        /\ more[k + 1] = entries[k + 1]
    BY Zenon, <1>1, <1>2, <1>3, <2>1
  <2> QED BY Zenon, <2>1, <2>2
<1>6. Nat \subseteq T
  <2> HIDE DEF T
  <2> QED BY Zenon, <1>4, <1>5, Induct
<1>7. i \in Nat /\ i <= n
  BY <1>1 DEF n
<1> QED BY Zenon, <1>6, <1>7 DEF more

(* A snapshot restores to the store it was taken of.                       *)
LEMMA ListHolds ==
  ASSUME NEW S, IsFiniteSet(S)
  PROVE  SetOf(ListOf(S)) = S
<1> DEFINE n == Cardinality(S)
           f == ListOf(S)
<1>1. n \in Nat /\ ExistsBijection(1..n, S)
  BY Zenon, FS_CardinalityType
<1>2. PICK h : h \in Bijection(1..n, S)
  BY Zenon, <1>1 DEF ExistsBijection
<1>3. h \in [1..n -> S] /\ \A i, j \in DOMAIN h : h[i] = h[j] => i = j
  BY Zenon, <1>2 DEF Bijection, Injection, IsInjective
<1>4. f \in [1..n -> S] /\ \A i, j \in DOMAIN f : f[i] = f[j] => i = j
  BY Zenon, <1>3 DEF ListOf
<1>5. f \in Injection(1..n, S)
  BY Zenon, <1>4 DEF Injection, IsInjective
<1>6. IsFiniteSet(1..n) /\ Cardinality(1..n) = n
  BY <1>1, FS_Interval
<1>7. f \in Surjection(1..n, S)
  BY Zenon, <1>5, <1>6, FS_Injection
<1>8. f \in [1..n -> S] /\ \A x \in S : \E i \in 1..n : f[i] = x
  BY Zenon, <1>7 DEF Surjection
<1> HIDE DEF f, n
<1>9. SetOf(f) = S
  BY Zenon, <1>8 DEF SetOf
<1> QED BY Zenon, <1>9 DEF f

LEMMA RestoreSnapshot ==
  ASSUME NEW m \in Sound
  PROVE  Restore(snapshotData(m)) = m
<1>1. /\ snapshotData(m).str = m.str /\ snapshotData(m).hash = m.hash /\ snapshotData(m).incrs = m.incrs
      /\ snapshotData(m).sets = [k \in Key |-> ListOf(m.sets[k])]
  BY Zenon DEF snapshotData
<1>2. \A k \in Key : SetOf(ListOf(m.sets[k])) = m.sets[k]
  BY Zenon, SoundMaps, ListHolds DEF FiniteIn
<1>3. [k \in Key |-> SetOf(snapshotData(m).sets[k])] = m.sets
  BY <1>1, <1>2, SoundMaps
<1>4. Restore(snapshotData(m)) = Maps(m.str, m.hash, m.sets, m.incrs)
  BY Zenon, <1>1, <1>3 DEF Restore, Maps
<1>5. m = Maps(m.str, m.hash, m.sets, m.incrs)
  BY Zenon DEF Sound, Store, Maps
<1> QED BY Zenon, <1>4, <1>5

---------------------------------------------------------------------------
(* Every store, and every snapshot, is a replay of the log.                *)
ReplayInv ==
  /\ log \in Seq(Seq(Op))
  /\ applied \in [Replica -> 0..Len(log)]
  /\ kv = [n \in Replica |-> Replay(log, applied[n])]
  /\ snap = [n \in Replica |-> [index |-> snap[n].index, data |-> snap[n].data]]
  /\ \A n \in Replica :
       /\ snap[n].index \in 0..Len(log)
       /\ snap[n].data = snapshotData(Replay(log, snap[n].index))

LEMMA InitReplay == KVInit => ReplayInv
<1> SUFFICES ASSUME KVInit PROVE ReplayInv
  OBVIOUS
<1>1. log \in Seq(Seq(Op)) /\ Len(log) = 0
  BY DEF KVInit
<1>2. Replay(log, 0) = Empty
  BY Zenon, <1>1, ReplaySound
<1> QED BY <1>1, <1>2 DEF KVInit, ReplayInv

LEMMA CommitReplay ==
  ASSUME ReplayInv, NEW batch \in Seq(Op), Commit(batch)
  PROVE  ReplayInv'
<1>1. log' = Append(log, batch) /\ UNCHANGED <<applied, kv, snap>> /\ log \in Seq(Seq(Op))
  BY Zenon DEF Commit, ReplayInv
<1>2. log' \in Seq(Seq(Op)) /\ \A i \in 0..Len(log) : i \in 0..Len(log')
  BY <1>1
<1>3. \A i \in 0..Len(log) : Replay(log', i) = Replay(log, i)
  BY Zenon, <1>1, ReplayKept
<1>4. applied' \in [Replica -> 0..Len(log')]
  BY Zenon, <1>1, <1>2 DEF ReplayInv
<1>5. kv' = [n \in Replica |-> Replay(log', applied'[n])]
  <2>1. \A n \in Replica : applied[n] \in 0..Len(log)
    BY Zenon DEF ReplayInv
  <2>2. \A n \in Replica : Replay(log', applied[n]) = Replay(log, applied[n])
    BY Zenon, <1>3, <2>1
  <2> QED BY Zenon, <1>1, <2>2 DEF ReplayInv
<1>6. \A n \in Replica :
        /\ snap[n].index \in 0..Len(log')
        /\ snap[n].data = snapshotData(Replay(log', snap[n].index))
  BY Zenon, <1>2, <1>3 DEF ReplayInv
<1> QED BY Zenon, <1>1, <1>2, <1>4, <1>5, <1>6 DEF ReplayInv

(* A step of one replica, whose store is then the replay of what it has    *)
(* applied, and which may save a snapshot.                                 *)
LEMMA ReplicaReplay ==
  ASSUME ReplayInv, NEW n \in Replica, NEW i \in 0..Len(log), NEW s, log' = log,
         applied' = [applied EXCEPT ![n] = i], kv' = [kv EXCEPT ![n] = Replay(log, i)],
         snap' = [snap EXCEPT ![n] = s], s = [index |-> s.index, data |-> s.data],
         s.index \in 0..Len(log), s.data = snapshotData(Replay(log, s.index))
  PROVE  ReplayInv'
<1>1. applied' \in [Replica -> 0..Len(log)]
  BY Zenon DEF ReplayInv
<1>2. kv' = [m \in Replica |-> Replay(log, applied'[m])]
  BY Zenon DEF ReplayInv
<1>3. \A m \in Replica : snap'[m] = IF m = n THEN s ELSE snap[m]
  BY Zenon DEF ReplayInv
<1>4. snap' = [m \in Replica |-> [index |-> snap'[m].index, data |-> snap'[m].data]]
  <2>1. \A m \in Replica : snap[m] = [index |-> snap[m].index, data |-> snap[m].data]
    BY Zenon DEF ReplayInv
  <2>2. \A m \in Replica : snap'[m] = [index |-> snap'[m].index, data |-> snap'[m].data]
    BY Zenon, <1>3, <2>1
  <2>3. snap' = [m \in Replica |-> snap'[m]]
    BY Zenon DEF ReplayInv
  <2> QED BY Zenon, <2>2, <2>3
<1>5. \A m \in Replica :
        /\ snap'[m].index \in 0..Len(log)
        /\ snap'[m].data = snapshotData(Replay(log, snap'[m].index))
  BY Zenon, <1>3 DEF ReplayInv
<1> QED BY Zenon, <1>1, <1>2, <1>4, <1>5 DEF ReplayInv

(* What a replica and its snapshot hold.                                   *)
LEMMA ReplicaHolds ==
  ASSUME ReplayInv, NEW n \in Replica
  PROVE  /\ kv[n] = Replay(log, applied[n]) /\ kv[n] \in Sound /\ applied[n] \in 0..Len(log)
         /\ snap[n] = [index |-> snap[n].index, data |-> snap[n].data]
         /\ snap[n].index \in 0..Len(log) /\ snap[n].data = snapshotData(Replay(log, snap[n].index))
         /\ Restore(snap[n].data) = Replay(log, snap[n].index)
<1>1. /\ kv[n] = Replay(log, applied[n]) /\ applied[n] \in 0..Len(log) /\ log \in Seq(Seq(Op))
      /\ snap[n].index \in 0..Len(log) /\ snap[n].data = snapshotData(Replay(log, snap[n].index))
  BY Zenon DEF ReplayInv
<1>2. snap[n] = [index |-> snap[n].index, data |-> snap[n].data]
  BY Zenon DEF ReplayInv
<1>3. Replay(log, applied[n]) \in Sound /\ Replay(log, snap[n].index) \in Sound
  BY Zenon, <1>1, ReplaySound
<1> QED BY Zenon, <1>1, <1>2, <1>3, RestoreSnapshot

LEMMA NextReplay == ReplayInv /\ [KVNext]_kvVars => ReplayInv'
<1> SUFFICES ASSUME ReplayInv, [KVNext]_kvVars PROVE ReplayInv'
  OBVIOUS
<1>0. log \in Seq(Seq(Op)) /\ Len(log) \in Nat /\ DOMAIN applied = Replica
      /\ kv = [n \in Replica |-> kv[n]] /\ applied = [n \in Replica |-> applied[n]]
      /\ snap = [n \in Replica |-> snap[n]]
  BY DEF ReplayInv
<1>1. CASE UNCHANGED kvVars
  BY Zenon, <1>1 DEF kvVars, ReplayInv
<1>2. ASSUME NEW op \in Op, Commit(<<op>>) PROVE ReplayInv'
  <2>1. <<op>> \in Seq(Op)
    OBVIOUS
  <2> QED BY Zenon, <1>2, <2>1, CommitReplay
<1>3. ASSUME NEW op1 \in Op, NEW op2 \in Op, Commit(<<op1, op2>>) PROVE ReplayInv'
  <2>1. <<op1, op2>> \in Seq(Op)
    OBVIOUS
  <2> QED BY Zenon, <1>3, <2>1, CommitReplay
<1>4. ASSUME NEW n \in Replica, Apply(n) PROVE ReplayInv'
  <2> DEFINE i == applied[n] + 1
  <2>1. /\ i \in 1..Len(log) /\ i - 1 = applied[n] /\ i \in 0..Len(log) /\ log' = log
        /\ applied' = [applied EXCEPT ![n] = i]
        /\ kv' = [kv EXCEPT ![n] = Batch(kv[n], log[i])] /\ snap' = snap
    BY <1>0, <1>4, ReplicaHolds DEF Apply
  <2>2. Batch(kv[n], log[i]) = Replay(log, i)
    <3>1. Replay(log, i) = Batch(Replay(log, i - 1), log[i])
      <4> HIDE DEF i
      <4> QED BY Zenon, <1>0, <2>1, ReplaySound
    <3> QED BY Zenon, <2>1, <3>1, ReplicaHolds
  <2>3. snap' = [snap EXCEPT ![n] = snap[n]]
    BY Zenon, <1>0, <2>1
  <2> HIDE DEF i
  <2> QED BY Zenon, <2>1, <2>2, <2>3, ReplicaHolds, ReplicaReplay
<1>5. ASSUME NEW n \in Replica, Snapshot(n) PROVE ReplayInv'
  <2> DEFINE s == [index |-> applied[n], data |-> snapshotData(kv[n])]
  <2>1. snap' = [snap EXCEPT ![n] = s] /\ UNCHANGED <<log, applied, kv>>
    BY Zenon, <1>5 DEF Snapshot
  <2>2. /\ s = [index |-> s.index, data |-> s.data] /\ s.index \in 0..Len(log)
        /\ s.data = snapshotData(Replay(log, s.index))
    BY Zenon, ReplicaHolds
  <2>3. applied' = [applied EXCEPT ![n] = applied[n]] /\ kv' = [kv EXCEPT ![n] = Replay(log, applied[n])]
    BY <1>0, <2>1, ReplicaHolds
  <2> HIDE DEF s
  <2> QED BY Zenon, <2>1, <2>2, <2>3, ReplicaHolds, ReplicaReplay
<1>6. ASSUME NEW n \in Replica, Restart(n) PROVE ReplayInv'
  <2> DEFINE i == snap[n].index
  <2>1. /\ kv' = [kv EXCEPT ![n] = IF i = 0 THEN Empty ELSE Restore(snap[n].data)]
        /\ applied' = [applied EXCEPT ![n] = i] /\ UNCHANGED <<log, snap>>
    BY Zenon, <1>6 DEF Restart
  <2>2. (IF i = 0 THEN Empty ELSE Restore(snap[n].data)) = Replay(log, i)
    BY Zenon, <1>0, ReplaySound, ReplicaHolds
  <2>3. kv' = [kv EXCEPT ![n] = Replay(log, i)] /\ snap' = [snap EXCEPT ![n] = snap[n]]
    BY Zenon, <1>0, <2>1, <2>2
  <2> HIDE DEF i
  <2> QED BY Zenon, <2>1, <2>3, ReplicaHolds, ReplicaReplay DEF i
<1>7. ASSUME NEW m \in Replica, NEW n \in Replica, InstallSnapshot(m, n) PROVE ReplayInv'
  <2> DEFINE i == snap[m].index
  <2>1. /\ kv' = [kv EXCEPT ![n] = Restore(snap[m].data)]
        /\ applied' = [applied EXCEPT ![n] = i] /\ log' = log /\ snap' = [snap EXCEPT ![n] = snap[m]]
    BY Zenon, <1>7 DEF InstallSnapshot
  <2>2. kv' = [kv EXCEPT ![n] = Replay(log, i)]
    BY Zenon, <2>1, ReplicaHolds
  <2>3. /\ i \in 0..Len(log) /\ snap[m] = [index |-> i, data |-> snap[m].data]
        /\ snap[m].data = snapshotData(Replay(log, i))
    BY Zenon, ReplicaHolds
  <2> QED BY Zenon, <2>1, <2>2, <2>3, ReplicaReplay
<1> QED
  BY Zenon, <1>1, <1>2, <1>3, <1>4, <1>5, <1>6, <1>7 DEF KVNext

(* The store of every node is what a replay of the log up to the index it  *)
(* has applied gives, across restarts and snapshots that are saved,        *)
(* restored and installed (fsm.go:25-69, memory.go:278-330).               *)
THEOREM StoresReplay == KVSpec => []StoreIsReplay
<1>1. ReplayInv => StoreIsReplay
  <2> SUFFICES ASSUME ReplayInv, NEW n \in Replica
               PROVE  /\ kv[n] = Replay(log, applied[n])
                      /\ \A k \in Counter :
                           kv[n].str[k] = IF kv[n].incrs[k] = 0 THEN NoValue ELSE kv[n].incrs[k]
    BY Zenon DEF StoreIsReplay
  <2> QED BY Zenon, ReplicaHolds, SoundMaps
<1> QED BY <1>1, InitReplay, NextReplay, PTL DEF KVSpec

(* No node has applied or saved more of the log than there is, and what it *)
(* holds has the types of MemoryKV (memory.go:14-28).                      *)
THEOREM KVTypeCorrect == KVSpec => []KVTypeOK
<1>1. ReplayInv => KVTypeOK
  BY Zenon DEF ReplayInv, KVTypeOK
<1> QED BY <1>1, InitReplay, NextReplay, PTL DEF KVSpec

---------------------------------------------------------------------------
(* MetaStore: types, and the numbers of inodes.                            *)

Loc ==
  [kind : {"dir", "file"}, parent : Ino \union {NoIno}, name : Name,
   newParent : Ino, newName : Name, ino : Ino \union {NoIno}]

LocTypes ==
  /\ loc \in [Proc -> Loc] /\ DOMAIN pc = Proc
  /\ \A p \in Proc : /\ pc[p] = "make" => loc[p].ino \in Ino
                     /\ pc[p] \in {"renameExists", "renameGet"} => loc[p].parent \in Ino

MetaTypes ==
  /\ MetaTypeOK /\ dep \in Deployment /\ LocTypes
  /\ made \subseteq [ino : Ino, kind : {"dir", "file"}, by : Proc]

LEMMA NoLocType ==
  /\ NoLoc \in Loc /\ NoLoc.ino = NoIno
  /\ NoLink \in [parent : Ino \union {NoIno}, name : Name]
<1>1. NoLink.name \in Name /\ rootIno \in Ino
  BY MetaStoreOK DEF NoLink, rootIno, Ino
<1>2. NoLink \in [parent : Ino \union {NoIno}, name : Name]
  BY Zenon, <1>1 DEF NoLink
<1> QED BY Zenon, <1>1, <1>2 DEF NoLoc, Loc

LEMMA MetaTypesInit == MetaInit => MetaTypes
<1> SUFFICES ASSUME MetaInit PROVE MetaTypes
  OBVIOUS
<1>1. rootIno \in Ino /\ 1 \in Ino
  BY MetaStoreOK DEF rootIno, Ino
<1>2. MetaTypeOK
  BY Zenon, <1>1, NoLocType DEF MetaInit, MetaTypeOK
<1> QED BY Zenon, <1>2, NoLocType DEF MetaInit, MetaTypes, LocTypes

(* A request that goes on, starts or ends.                                 *)
LEMMA MoveTypes ==
  ASSUME MetaTypes, NEW p \in Proc, NEW step,
         Proceed(p, step), step = "make" => loc'[p].ino \in Ino,
         step \in {"renameExists", "renameGet"} => loc'[p].parent \in Ino,
         \E l \in Loc : loc' = [loc EXCEPT ![p] = l]
  PROVE  LocTypes'
<1>1. PICK l \in Loc : loc' = [loc EXCEPT ![p] = l]
  OBVIOUS
<1>2. pc' = [pc EXCEPT ![p] = step]
  BY Zenon DEF Proceed
<1> QED BY Zenon, <1>1, <1>2 DEF MetaTypes, LocTypes

LEMMA ReturnTypes ==
  ASSUME MetaTypes, NEW p \in Proc, Return(p)
  PROVE  LocTypes'
BY Zenon, NoLocType, MoveTypes DEF Return

LEMMA KeepTypes ==
  ASSUME MetaTypes, NEW p \in Proc, NEW step, Proceed(p, step), UNCHANGED loc,
         step # "make", step \in {"renameExists", "renameGet"} => loc[p].parent \in Ino
  PROVE  LocTypes'
<1>1. loc' = [loc EXCEPT ![p] = loc[p]] /\ loc[p] \in Loc
  BY Zenon DEF MetaTypes, LocTypes
<1> QED BY Zenon, <1>1, MoveTypes

LEMMA BeginTypes ==
  ASSUME MetaTypes, NEW p \in Proc, NEW step, NEW l \in Loc, Begin(p, step, l),
         step # "make", step \in {"renameExists", "renameGet"} => l.parent \in Ino
  PROVE  LocTypes'
<1>1. Proceed(p, step) /\ loc' = [loc EXCEPT ![p] = l]
  BY Zenon DEF Begin
<1>2. loc'[p] = l
  BY Zenon, <1>1 DEF MetaTypes, LocTypes
<1> QED BY Zenon, <1>1, <1>2, MoveTypes

(* The tree as a batch leaves it.                                          *)
TreeTypes ==
  /\ attr \in [Ino -> {"none", "dir", "file"}]
  /\ dirent \in [Ino -> [Name -> Ino \union {NoIno}]]
  /\ dotdot \in [Ino -> Ino \union {NoIno}]
  /\ ilink \in [Ino -> [parent : Ino \union {NoIno}, name : Name]]
  /\ index \subseteq Ino

LEMMA MakeBatchTypes ==
  ASSUME MetaTypes, NEW p \in Proc, MakeBatch(p)
  PROVE  /\ TreeTypes' /\ known' \in [Proc -> SUBSET Ino]
         /\ made' \subseteq [ino : Ino, kind : {"dir", "file"}, by : Proc]
<1> DEFINE l == loc[p]
<1>1. l \in Loc /\ l.ino \in Ino
  BY Zenon DEF MakeBatch, MetaTypes, LocTypes
<1>2. /\ l.kind \in {"dir", "file"} /\ l.parent \in Ino \union {NoIno} /\ l.name \in Name
  BY Zenon, <1>1 DEF Loc
<1>3. /\ dirent' = [dirent EXCEPT ![l.parent][l.name] = l.ino]
      /\ attr' = [attr EXCEPT ![l.ino] = l.kind]
      /\ dotdot' = IF l.kind = "dir" THEN [dotdot EXCEPT ![l.ino] = l.parent] ELSE dotdot
      /\ index' = index \union {l.ino}
      /\ ilink' = [ilink EXCEPT ![l.ino] = [parent |-> l.parent, name |-> l.name]]
      /\ \/ /\ known' = [known EXCEPT ![p] = IF l.kind = "dir" THEN @ \union {l.ino} ELSE @]
            /\ made' = made \union {[ino |-> l.ino, kind |-> l.kind, by |-> p]}
         \/ UNCHANGED <<known, made>>
  BY Zenon DEF MakeBatch
<1> HIDE DEF l
<1>4. TreeTypes'
  BY Zenon, <1>1, <1>2, <1>3 DEF TreeTypes, MetaTypes, MetaTypeOK
<1>5. known' \in [Proc -> SUBSET Ino]
  BY <1>1, <1>2, <1>3 DEF MetaTypes, MetaTypeOK
<1>6. made' \subseteq [ino : Ino, kind : {"dir", "file"}, by : Proc]
  BY <1>1, <1>2, <1>3 DEF MetaTypes
<1> QED BY Zenon, <1>4, <1>5, <1>6

LEMMA DropTypes ==
  ASSUME MetaTypes, NEW i \in Ino \union {NoIno}, NEW k, DropInode(i, k)
  PROVE  /\ attr' \in [Ino -> {"none", "dir", "file"}]
         /\ dotdot' \in [Ino -> Ino \union {NoIno}]
         /\ ilink' \in [Ino -> [parent : Ino \union {NoIno}, name : Name]]
         /\ index' \subseteq Ino
BY Zenon, NoLocType DEF DropInode, MetaTypes, MetaTypeOK

LEMMA MetaTypesStep ==
  ASSUME MetaTypes, NEW p \in Proc, Step(p), UNCHANGED dep
  PROVE  MetaTypes'
<1>0. /\ loc[p] \in Loc /\ known[p] \subseteq Ino /\ next_ino \in Ino
      /\ MetaTypeOK /\ LocTypes /\ dep.names[p] \subseteq Name
  BY Zenon, MetaStoreOK DEF MetaTypes, MetaTypeOK, LocTypes
<1>1. ASSUME UNCHANGED <<treeVars, next_ino, known, made>>, LocTypes' PROVE MetaTypes'
  BY Zenon, <1>1 DEF MetaTypes, MetaTypeOK, treeVars
<1>2. CASE MakeCheck(p)
  <2>1. PICK d \in known[p], n \in dep.names[p], k \in {"dir", "file"} :
          /\ Begin(p, "alloc", [NoLoc EXCEPT !.kind = k, !.parent = d, !.name = n])
          /\ UNCHANGED <<treeVars, next_ino, known, made>>
    BY Zenon, <1>2 DEF MakeCheck
  <2>2. [NoLoc EXCEPT !.kind = k, !.parent = d, !.name = n] \in Loc
    BY Zenon, <1>0, NoLocType DEF Loc
  <2> QED BY Zenon, <1>1, <2>1, <2>2, BeginTypes
<1>3. CASE allocIno(p)
  <2>1. next_ino + 1 \in Ino
    BY <1>0, <1>3, MetaStoreOK DEF allocIno, Ino
  <2>2. LocTypes'
    <3>1. CASE dep.raft
      BY Zenon, <1>3, <3>1, KeepTypes DEF allocIno
    <3>2. CASE ~dep.raft
      <4>1. [loc[p] EXCEPT !.ino = next_ino + 1] \in Loc
            /\ [loc[p] EXCEPT !.ino = next_ino + 1].ino = next_ino + 1
        BY Zenon, <1>0, <2>1 DEF Loc
      <4>2. loc' = [loc EXCEPT ![p] = [loc[p] EXCEPT !.ino = next_ino + 1]] /\ Proceed(p, "make")
        BY Zenon, <1>3, <3>2 DEF allocIno
      <4>3. loc'[p].ino \in Ino
        BY Zenon, <1>0, <2>1, <4>1, <4>2 DEF LocTypes
      <4> QED BY Zenon, <4>1, <4>2, <4>3, MoveTypes
    <3> QED BY Zenon, <3>1, <3>2
  <2> QED BY Zenon, <1>3, <2>1, <2>2 DEF allocIno, MetaTypes, MetaTypeOK, treeVars
<1>4. CASE ReadIno(p)
  <2>1. [loc[p] EXCEPT !.ino = next_ino] \in Loc /\ [loc[p] EXCEPT !.ino = next_ino].ino = next_ino
    BY Zenon, <1>0 DEF Loc
  <2>2. loc' = [loc EXCEPT ![p] = [loc[p] EXCEPT !.ino = next_ino]] /\ Proceed(p, "make")
    BY Zenon, <1>4 DEF ReadIno
  <2>3. loc'[p].ino \in Ino
    BY Zenon, <1>0, <2>1, <2>2 DEF LocTypes
  <2>4. LocTypes'
    BY Zenon, <2>1, <2>2, <2>3, MoveTypes
  <2> QED BY Zenon, <1>1, <1>4, <2>4 DEF ReadIno
<1>5. CASE MakeBatch(p)
  <2>1. LocTypes' /\ UNCHANGED next_ino
    BY Zenon, <1>5, ReturnTypes DEF MakeBatch
  <2> QED BY <1>5, <2>1, MakeBatchTypes DEF MetaTypes, MetaTypeOK, TreeTypes
<1>6. CASE RemoveGet(p)
  <2>1. PICK d \in known[p], n \in dep.names[p], k \in {"dir", "file"} :
          /\ Begin(p, "removeAttr", [NoLoc EXCEPT !.kind = k, !.parent = d, !.name = n, !.ino = dirent[d][n]])
          /\ UNCHANGED <<treeVars, next_ino, known, made>>
    BY Zenon, <1>6 DEF RemoveGet
  <2>2. dirent[d][n] \in Ino \union {NoIno}
    BY <1>0 DEF MetaTypeOK
  <2>3. [NoLoc EXCEPT !.kind = k, !.parent = d, !.name = n, !.ino = dirent[d][n]] \in Loc
    BY Zenon, <1>0, <2>2, NoLocType DEF Loc
  <2> QED BY Zenon, <1>1, <2>1, <2>3, BeginTypes
<1>7. CASE RemoveAttr(p) \/ RmdirLen(p) \/ RenameExists(p) \/ WriteFails(p)
  <2>1. pc[p] = "renameExists" => loc[p].parent \in Ino
    BY Zenon, <1>0 DEF LocTypes
  <2>2. LocTypes'
    BY Zenon, <1>7, <2>1, ReturnTypes, KeepTypes DEF RemoveAttr, RmdirLen, RenameExists, WriteFails
  <2> QED BY Zenon, <1>1, <1>7, <2>2 DEF RemoveAttr, RmdirLen, RenameExists, WriteFails
<1>8. CASE RemoveBatch(p)
  <2>1. LocTypes' /\ UNCHANGED <<next_ino, made>>
    BY Zenon, <1>8, ReturnTypes DEF RemoveBatch
  <2>2. loc[p].ino \in Ino \union {NoIno}
    BY Zenon, <1>0 DEF Loc
  <2>3. dirent' \in [Ino -> [Name -> Ino \union {NoIno}]] /\ known' \in [Proc -> SUBSET Ino]
    BY Zenon, <1>0, <1>8 DEF RemoveBatch, MetaTypeOK
  <2> QED BY Zenon, <1>8, <2>1, <2>2, <2>3, DropTypes DEF RemoveBatch, MetaTypes, MetaTypeOK
<1>9. CASE RenameGet(p)
  <2>1. PICK d \in known[p], e \in known[p], n \in dep.names[p], m \in dep.names[p] :
          /\ Begin(p, "renameExists",
                   [NoLoc EXCEPT !.parent = d, !.name = n, !.newParent = e, !.newName = m])
          /\ UNCHANGED <<treeVars, next_ino, known, made>>
    BY Zenon, <1>9 DEF RenameGet
  <2>2. /\ [NoLoc EXCEPT !.parent = d, !.name = n, !.newParent = e, !.newName = m] \in Loc
        /\ [NoLoc EXCEPT !.parent = d, !.name = n, !.newParent = e, !.newName = m].parent \in Ino
    BY Zenon, <1>0, NoLocType DEF Loc
  <2> QED BY Zenon, <1>1, <2>1, <2>2, BeginTypes
<1>10. CASE RenameGetAgain(p)
  <2>1. CASE HExists(loc[p].parent, loc[p].name)
    <3> DEFINE i == dirent[loc[p].parent][loc[p].name]
    <3>1. i \in Ino \union {NoIno}
      BY <1>0, <1>10 DEF RenameGetAgain, MetaTypeOK, LocTypes, Loc
    <3>2. [loc[p] EXCEPT !.ino = i] \in Loc
      BY Zenon, <1>0, <3>1 DEF Loc
    <3>3. loc' = [loc EXCEPT ![p] = [loc[p] EXCEPT !.ino = i]] /\ Proceed(p, "rename")
      BY Zenon, <1>10, <2>1 DEF RenameGetAgain
    <3>4. LocTypes'
      BY Zenon, <3>2, <3>3, MoveTypes
    <3> QED BY Zenon, <1>1, <1>10, <3>4 DEF RenameGetAgain
  <2>2. CASE ~HExists(loc[p].parent, loc[p].name)
    <3>1. LocTypes'
      BY Zenon, <1>10, <2>2, ReturnTypes DEF RenameGetAgain
    <3> QED BY Zenon, <1>1, <1>10, <3>1 DEF RenameGetAgain
  <2> QED BY Zenon, <2>1, <2>2
<1>11. CASE RenameBatch(p)
  <2>1. LocTypes' /\ UNCHANGED <<attr, dotdot, index, next_ino, known, made>>
    BY Zenon, <1>11, ReturnTypes DEF RenameBatch
  <2>2. /\ loc[p].ino \in Ino \union {NoIno} /\ loc[p].newParent \in Ino /\ loc[p].newName \in Name
    BY Zenon, <1>0 DEF Loc
  <2>3. /\ dirent' \in [Ino -> [Name -> Ino \union {NoIno}]]
        /\ ilink' \in [Ino -> [parent : Ino \union {NoIno}, name : Name]]
    BY Zenon, <1>0, <1>11, <2>2 DEF RenameBatch, MetaTypeOK
  <2> QED BY Zenon, <2>1, <2>3 DEF MetaTypes, MetaTypeOK
<1>12. CASE PurgeGet(p)
  <2>1. PICK i \in index :
          /\ Begin(p, "purge", [NoLoc EXCEPT !.ino = i, !.parent = ilink[i].parent, !.name = ilink[i].name])
          /\ UNCHANGED <<treeVars, next_ino, known, made>>
    BY Zenon, <1>12 DEF PurgeGet
  <2>2. i \in Ino /\ ilink[i] \in [parent : Ino \union {NoIno}, name : Name]
    BY Zenon, <1>0 DEF MetaTypeOK
  <2>3. [NoLoc EXCEPT !.ino = i, !.parent = ilink[i].parent, !.name = ilink[i].name] \in Loc
    BY Zenon, <2>2, NoLocType DEF Loc
  <2> QED BY Zenon, <1>1, <2>1, <2>3, BeginTypes
<1>13. CASE PurgeBatch(p)
  <2>1. LocTypes' /\ UNCHANGED <<next_ino, known, made>>
    BY Zenon, <1>13, ReturnTypes DEF PurgeBatch
  <2>2. loc[p].ino \in Ino \union {NoIno}
    BY Zenon, <1>0 DEF Loc
  <2>3. dirent' \in [Ino -> [Name -> Ino \union {NoIno}]]
    BY Zenon, <1>0, <1>13 DEF PurgeBatch, MetaTypeOK
  <2> QED BY Zenon, <1>13, <2>1, <2>2, <2>3, DropTypes DEF PurgeBatch, MetaTypes, MetaTypeOK
<1>14. CASE Lookup(p)
  BY <1>0, <1>14 DEF Lookup, HExists, MetaTypes, MetaTypeOK, LocTypes, treeVars
<1>15. CASE UpdateAttr(p)
  BY Zenon, <1>0, <1>15 DEF UpdateAttr, MetaTypes, MetaTypeOK, LocTypes
<1> QED
  BY Zenon, <1>2, <1>3, <1>4, <1>5, <1>6, <1>7, <1>8, <1>9, <1>10, <1>11, <1>12, <1>13, <1>14, <1>15 DEF Step

LEMMA MetaTypesNext == MetaTypes /\ [MetaNext]_metaVars => MetaTypes'
<1>1. MetaTypes /\ UNCHANGED metaVars => MetaTypes'
  BY Zenon DEF metaVars, MetaTypes, MetaTypeOK, LocTypes
<1>2. MetaTypes /\ MetaNext => MetaTypes'
  BY Zenon, MetaTypesStep DEF MetaNext
<1> QED BY Zenon, <1>1, <1>2

(* Every link, attribute and inode counter, and what an operation carries  *)
(* from one KV call to the next, has its type (store.go:189-473).          *)
THEOREM MetaTypeCorrect == MetaSpec => []MetaTypeOK
<1>1. MetaTypes => MetaTypeOK
  BY Zenon DEF MetaTypes
<1> QED BY <1>1, MetaTypesInit, MetaTypesNext, PTL DEF MetaSpec

---------------------------------------------------------------------------
(* Under Raft the counter is read after it was raised, in a second step:   *)
(* one client at a time makes inodes there.                                *)
OneRaftClient ==
  \A d \in Deployment : d.raft =>
    \A p, q \in Proc : d.names[p] # {} /\ d.names[q] # {} => p = q

(* A number that was drawn and not yet used belongs to one process.        *)
Drawn(p) ==
  /\ pc[p] = "make" =>
       /\ loc[p].ino <= next_ino
       /\ \A m \in made : m.ino # loc[p].ino
       /\ \A q \in Proc \ {p} : pc[q] = "make" => loc[q].ino # loc[p].ino
  /\ pc[p] = "readIno" => dep.raft /\ \A m \in made : m.ino < next_ino

Making(p) == pc[p] \in {"alloc", "readIno", "make"}

InoInv ==
  /\ OneRaftClient
  /\ \A p \in Proc : Drawn(p) /\ (Making(p) => dep.names[p] # {})
  /\ \A m \in made : m.ino <= next_ino
  /\ InodesUnique

LEMMA InoInit == OneRaftClient /\ MetaInit => InoInv
BY Zenon DEF MetaInit, InoInv, Drawn, Making, InodesUnique

(* Under Raft two processes never make an inode at the same time.          *)
LEMMA OneMaker ==
  ASSUME MetaTypes, InoInv, dep.raft, NEW p \in Proc, NEW q \in Proc, Making(p), Making(q)
  PROVE  p = q
BY Zenon DEF MetaTypes, InoInv, OneRaftClient

(* What p does concerns the others only through the counter and made.      *)
Others(p) == \A q \in Proc \ {p} : pc'[q] = pc[q] /\ loc'[q] = loc[q]

LEMMA OthersStay ==
  ASSUME MetaTypes, NEW p \in Proc, NEW step, Proceed(p, step),
         UNCHANGED loc \/ \E l : loc' = [loc EXCEPT ![p] = l]
  PROVE  Others(p) /\ pc'[p] = step
BY Zenon DEF MetaTypes, LocTypes, Proceed, Others

(* A step that draws no number and makes no inode.                         *)
LEMMA IdleStep ==
  ASSUME MetaTypes, InoInv, NEW p \in Proc, UNCHANGED <<dep, next_ino, made>>, Others(p),
         pc'[p] \notin {"make", "readIno"}, pc'[p] = "alloc" => dep.names[p] # {}
  PROVE  InoInv'
<1>1. ASSUME NEW q \in Proc PROVE Drawn(q)' /\ (Making(q)' => dep.names[q] # {})
  <2>1. CASE q = p
    BY Zenon, <2>1 DEF Drawn, Making
  <2>2. CASE q # p
    BY <2>2 DEF InoInv, Drawn, Making, Others
  <2> QED BY Zenon, <2>1, <2>2
<1>2. InodesUnique' /\ \A m \in made' : m.ino <= next_ino'
  BY Zenon DEF InoInv, InodesUnique
<1> QED BY Zenon, <1>1, <1>2 DEF InoInv

LEMMA AllocStep ==
  ASSUME MetaTypes, MetaTypes', InoInv, NEW p \in Proc, allocIno(p), UNCHANGED dep
  PROVE  InoInv'
<1>1. /\ pc[p] = "alloc" /\ next_ino' = next_ino + 1 /\ made' = made
      /\ next_ino \in Nat /\ (\A m \in made : m.ino \in Nat /\ m.ino <= next_ino)
  BY DEF allocIno, MetaTypes, MetaTypeOK, Ino, InoInv
<1>2. Others(p) /\ pc'[p] = IF dep.raft THEN "readIno" ELSE "make"
  <2>1. CASE dep.raft
    BY Zenon, <2>1, OthersStay DEF allocIno
  <2>2. CASE ~dep.raft
    BY Zenon, <2>2, OthersStay DEF allocIno
  <2> QED BY Zenon, <2>1, <2>2
<1>3. ~dep.raft => loc'[p].ino = next_ino + 1
  BY DEF allocIno, MetaTypes, LocTypes, Loc
<1>4. \A q \in Proc : pc[q] = "make" => loc[q].ino \in Nat /\ loc[q].ino <= next_ino
  BY DEF MetaTypes, LocTypes, Ino, InoInv, Drawn
<1>5. Making(p) /\ dep.names[p] # {}
  BY Zenon, <1>1 DEF Making, InoInv
<1>6. ASSUME NEW q \in Proc PROVE Drawn(q)' /\ (Making(q)' => dep.names[q] # {})
  <2>1. CASE q = p
    <3>1. CASE dep.raft
      BY <1>1, <1>2, <1>5, <2>1, <3>1 DEF Drawn
    <3>2. CASE ~dep.raft
      <4>1. \A r \in Proc \ {p} : pc'[r] = "make" => loc'[r].ino # loc'[p].ino
        BY <1>1, <1>2, <1>3, <1>4, <3>2 DEF Others
      <4> QED BY <1>1, <1>2, <1>3, <1>5, <2>1, <3>2, <4>1 DEF Drawn
    <3> QED BY Zenon, <3>1, <3>2
  <2>2. CASE q # p
    <3>1. pc'[q] = pc[q] /\ loc'[q] = loc[q] /\ Drawn(q) /\ (Making(q) => dep.names[q] # {})
      BY Zenon, <1>2, <2>2 DEF Others, InoInv
    <3>2. ASSUME pc[q] = "make", NEW r \in Proc \ {q}, pc'[r] = "make" PROVE loc'[r].ino # loc'[q].ino
      <4>1. CASE r = p
        <5>1. ~dep.raft
          BY Zenon, <1>2, <3>2, <4>1
        <5> QED BY <1>1, <1>3, <1>4, <3>1, <3>2, <4>1, <5>1
      <4>2. CASE r # p
        BY Zenon, <1>2, <3>1, <3>2, <4>2 DEF Others, Drawn
      <4> QED BY Zenon, <4>1, <4>2
    <3>3. pc[q] = "make" => loc[q].ino <= next_ino'
      BY <1>1, <1>4
    <3>4. pc[q] = "readIno" => \A m \in made : m.ino < next_ino'
      BY <1>1
    <3> QED BY Zenon, <1>1, <3>1, <3>2, <3>3, <3>4 DEF Drawn, Making
  <2> QED BY Zenon, <2>1, <2>2
<1>7. InodesUnique' /\ \A m \in made' : m.ino <= next_ino'
  BY <1>1 DEF InoInv, InodesUnique
<1> QED BY Zenon, <1>6, <1>7 DEF InoInv

LEMMA ReadInoStep ==
  ASSUME MetaTypes, InoInv, NEW p \in Proc, ReadIno(p), UNCHANGED dep
  PROVE  InoInv'
<1>1. /\ pc[p] = "readIno" /\ UNCHANGED <<next_ino, made>> /\ Making(p)
      /\ next_ino \in Nat /\ (\A m \in made : m.ino \in Nat) /\ dep.raft
      /\ \A m \in made : m.ino < next_ino
  BY DEF ReadIno, Making, MetaTypes, MetaTypeOK, Ino, InoInv, Drawn
<1>2. Others(p) /\ pc'[p] = "make"
  BY Zenon, OthersStay DEF ReadIno
<1>3. loc'[p].ino = next_ino
  BY Zenon DEF ReadIno, MetaTypes, LocTypes, Loc
<1>4. \A q \in Proc \ {p} : ~Making(q)
  BY Zenon, <1>1, OneMaker
<1>5. \A q \in Proc \ {p} : ~Making(q)'
  BY Zenon, <1>2, <1>4 DEF Making, Others
<1>6. Drawn(p)' /\ dep.names[p] # {}
  <2>1. \A q \in Proc \ {p} : pc'[q] # "make"
    BY Zenon, <1>5 DEF Making
  <2>2. loc'[p].ino <= next_ino' /\ \A m \in made' : m.ino # loc'[p].ino
    BY <1>1, <1>3
  <2>3. dep.names[p] # {}
    BY Zenon, <1>1 DEF InoInv
  <2> QED BY Zenon, <1>2, <2>1, <2>2, <2>3 DEF Drawn
<1>7. InodesUnique' /\ \A m \in made' : m.ino <= next_ino'
  BY Zenon, <1>1 DEF InoInv, InodesUnique
<1> QED BY Zenon, <1>5, <1>6, <1>7 DEF InoInv, Drawn, Making

LEMMA MakeBatchStep ==
  ASSUME MetaTypes, MetaTypes', InoInv, NEW p \in Proc, MakeBatch(p), UNCHANGED dep
  PROVE  InoInv'
<1> DEFINE i == loc[p].ino
<1>1. /\ pc[p] = "make" /\ next_ino' = next_ino /\ Making(p)
      /\ i <= next_ino /\ \A m \in made : m.ino # i
  BY Zenon DEF MakeBatch, Making, InoInv, Drawn
<1>2. \/ made' = made
      \/ \E m : made' = made \union {m} /\ m.ino = i
  <2> DEFINE m == [ino |-> i, kind |-> loc[p].kind, by |-> p]
  <2>1. made' = made \/ made' = made \union {m}
    BY Zenon DEF MakeBatch
  <2>2. m.ino = i
    OBVIOUS
  <2> QED BY Zenon, <2>1, <2>2
<1>3. Others(p) /\ pc'[p] = "idle"
  BY Zenon, OthersStay DEF MakeBatch, Return
<1> HIDE DEF i
<1>4. ASSUME NEW q \in Proc PROVE Drawn(q)' /\ (Making(q)' => dep.names[q] # {})
  <2>1. CASE q = p
    BY Zenon, <1>3, <2>1 DEF Drawn, Making
  <2>2. CASE q # p
    <3>1. pc'[q] = pc[q] /\ loc'[q] = loc[q] /\ Drawn(q) /\ (Making(q) => dep.names[q] # {})
      BY Zenon, <1>3, <2>2 DEF Others, InoInv
    <3>2. pc[q] # "readIno"
      BY <1>1, <2>2, <3>1, OneMaker DEF Drawn, Making
    <3>3. pc[q] = "make" => loc[q].ino # i
      BY Zenon, <1>1, <2>2 DEF InoInv, Drawn, i
    <3>4. pc[q] = "make" => \A m \in made' : m.ino # loc[q].ino
      BY Zenon, <1>2, <3>1, <3>3 DEF Drawn
    <3>5. \A r \in Proc \ {q} : pc'[r] = "make" => pc[r] = "make" /\ loc'[r] = loc[r]
      BY Zenon, <1>3 DEF Others
    <3> QED BY Zenon, <1>1, <3>1, <3>2, <3>4, <3>5 DEF Drawn, Making
  <2> QED BY Zenon, <2>1, <2>2
<1>5. InodesUnique' /\ \A m \in made' : m.ino <= next_ino'
  BY Zenon, <1>1, <1>2 DEF InoInv, InodesUnique
<1> QED BY Zenon, <1>4, <1>5 DEF InoInv

LEMMA InoStep ==
  ASSUME MetaTypes, MetaTypes', InoInv, NEW p \in Proc, Step(p), UNCHANGED dep
  PROVE  InoInv'
<1>1. ASSUME Return(p), UNCHANGED <<next_ino, made>> PROVE InoInv'
  <2>1. Others(p) /\ pc'[p] = "idle"
    BY Zenon, <1>1, OthersStay DEF Return
  <2> QED BY Zenon, <1>1, <2>1, IdleStep
<1>2. ASSUME NEW step, Proceed(p, step), UNCHANGED loc \/ \E l : loc' = [loc EXCEPT ![p] = l],
             UNCHANGED <<next_ino, made>>, step \notin {"make", "readIno", "alloc"}
      PROVE  InoInv'
  <2>1. Others(p) /\ pc'[p] = step
    BY Zenon, <1>2, OthersStay
  <2> QED BY Zenon, <1>2, <2>1, IdleStep
<1>3. CASE MakeCheck(p)
  <2>1. /\ dep.names[p] # {} /\ Proceed(p, "alloc") /\ (\E l : loc' = [loc EXCEPT ![p] = l])
        /\ UNCHANGED <<next_ino, made>>
    BY Zenon, <1>3 DEF MakeCheck, Begin
  <2>2. Others(p) /\ pc'[p] = "alloc"
    BY Zenon, <2>1, OthersStay
  <2> QED BY Zenon, <2>1, <2>2, IdleStep
<1>4. CASE allocIno(p) \/ ReadIno(p) \/ MakeBatch(p)
  BY Zenon, <1>4, AllocStep, ReadInoStep, MakeBatchStep
<1>5. CASE RemoveBatch(p) \/ RenameBatch(p) \/ PurgeBatch(p) \/ WriteFails(p)
  BY Zenon, <1>1, <1>5 DEF RemoveBatch, RenameBatch, PurgeBatch, WriteFails
<1>6. CASE RemoveGet(p) \/ RenameGet(p) \/ PurgeGet(p)
  <2>1. \/ Proceed(p, "removeAttr") \/ Proceed(p, "renameExists") \/ Proceed(p, "purge")
    BY Zenon, <1>6 DEF RemoveGet, RenameGet, PurgeGet, Begin
  <2>2. (\E l : loc' = [loc EXCEPT ![p] = l]) /\ UNCHANGED <<next_ino, made>>
    BY Zenon, <1>6 DEF RemoveGet, RenameGet, PurgeGet, Begin
  <2> QED BY Zenon, <1>2, <2>1, <2>2
<1>7. CASE RemoveAttr(p)
  BY Zenon, <1>1, <1>2, <1>7 DEF RemoveAttr
<1>8. CASE RmdirLen(p)
  BY <1>1, <1>2, <1>8 DEF RmdirLen
<1>9. CASE RenameExists(p)
  BY Zenon, <1>1, <1>2, <1>9 DEF RenameExists
<1>10. CASE RenameGetAgain(p)
  BY Zenon, <1>1, <1>2, <1>10 DEF RenameGetAgain
<1>11. CASE Lookup(p) \/ UpdateAttr(p)
  <2>1. UNCHANGED <<dep, pc, loc, next_ino, made>>
    BY Zenon, <1>11 DEF Lookup, UpdateAttr
  <2> QED BY Zenon, <2>1 DEF InoInv, Drawn, Making, InodesUnique
<1> QED
  BY Zenon, <1>3, <1>4, <1>5, <1>6, <1>7, <1>8, <1>9, <1>10, <1>11 DEF Step

LEMMA InoNext == MetaTypes /\ MetaTypes' /\ InoInv /\ [MetaNext]_metaVars => InoInv'
<1>1. InoInv /\ UNCHANGED metaVars => InoInv'
  BY DEF metaVars, InoInv, Drawn, Making, InodesUnique
<1>2. MetaTypes /\ MetaTypes' /\ InoInv /\ MetaNext => InoInv'
  BY Zenon, InoStep DEF MetaNext
<1> QED BY Zenon, <1>1, <1>2

(* No two acknowledged creations return the same inode: always in a        *)
(* standalone node, and under Raft when one client makes inodes.           *)
THEOREM InodesNumberedOnce == OneRaftClient /\ MetaSpec => []InodesUnique
<1>1. InoInv => InodesUnique
  BY Zenon DEF InoInv
<1> QED BY <1>1, InoInit, InoNext, MetaTypesInit, MetaTypesNext, PTL DEF MetaSpec
=============================================================================
