---------------------------- MODULE MountClient ----------------------------
(***************************************************************************)
(* A mount and the cluster it talks to: cmd/memoryfs/mount.go starts it,   *)
(* pkg/client/meta.go carries its metadata calls to the nodes, the HTTP    *)
(* server answers them (pkg/node/server.go), pkg/fusefs turns the outcome  *)
(* into an errno.  Writes go to the pinned leader, or to every known node  *)
(* in turn while none is pinned; a node that is not the leader answers     *)
(* with a redirect.  Reads go to every known node in turn.  Requests and   *)
(* replies get lost, nodes crash and come back with an empty store,        *)
(* leaders change.                                                         *)
(*                                                                         *)
(* A handler is one step of its node; what the namespace holds is not      *)
(* modelled here (module MetaStore has it), so a handler may accept or     *)
(* reject any call.  The mount runs with -v.                               *)
(***************************************************************************)
EXTENDS Placement

CONSTANTS
  Urls,          \* -nodes of the mount; Urls[1] is the seed
  Op,            \* the operations the application calls
  Bounds         \* bounds of a behaviour: entries of the log, faults (messages
                 \* lost, crashes, leaders deposed), and whether there are calls

NoNode == 0     \* the empty URL

WriteOp == {"mkdir", "create", "symlink", "unlink", "rmdir", "rename", "setattr"}
ReadOp == {"getattr", "lookup", "readdir"}

ASSUME MountOK ==
  /\ NoNode \notin Node /\ Urls \in Seq(Node) /\ Urls # <<>>
  /\ Op \subseteq WriteOp \union ReadOp
  /\ Bounds \subseteq [log : Nat, faults : Nat, calls : BOOLEAN]

VARIABLES
  up,          \* nodes that are running
  leader,      \* the Raft leader, or NoNode
  former,      \* the leader before it
  settled,     \* whether the members have heard from the leader
  metaNodes,   \* RemoteMeta.nodes, {} before the mount has started
  pinned,      \* RemoteMeta.leader
  call,        \* the metadata call in progress, or the outcome of the last one
  faults,
  bound        \* the bounds of this behaviour; never changes

leadVars == <<leader, former, settled>>
mountVars == <<seeds, nodes, metaNodes>>
vars == <<members, applied, up, leadVars, mountVars, pinned, call, faults, bound>>

NoReply == [code |-> 0, leader |-> NoNode, error |-> ""]

Idle == [op |-> "none", at |-> NoNode, todo |-> {}, redirected |-> FALSE,
         resp |-> [leader |-> NoNode, error |-> ""], errno |-> "OK",
         pin |-> NoNode, known |-> 0, runs |-> 0, commits |-> 0]

Init ==
  /\ PlacementInit
  /\ up = Node
  /\ leader \in Boot \union {NoNode} /\ former = NoNode /\ settled = FALSE
  /\ metaNodes = {} /\ pinned = NoNode
  /\ call = Idle
  /\ faults = 0 /\ bound \in Bounds

Busy == call.at # NoNode
Fault == faults < bound.faults /\ faults' = faults + 1

---------------------------------------------------------------------------
(* The cluster.  Raft is external: a leader needs a majority, and a write  *)
(* that returns has been applied by the leader.                            *)

Majority(running) == 2 * Cardinality(running \intersect Current) > Cardinality(Current)

Elect(n) ==
  /\ leader = NoNode /\ n \in up \intersect Current /\ Majority(up)
  /\ leader' = n
  /\ UNCHANGED <<members, applied, up, former, settled, mountVars, pinned, call, faults, bound>>

(* The heartbeats of the leader have reached every running member.         *)
Hear ==
  /\ leader # NoNode /\ ~settled
  /\ settled' = TRUE
  /\ UNCHANGED <<members, applied, up, leader, former, mountVars, pinned, call, faults, bound>>

Depose == leader' = NoNode /\ former' = leader /\ settled' = FALSE

LoseLeadership ==
  /\ leader # NoNode /\ Fault /\ Depose
  /\ UNCHANGED <<members, applied, up, mountVars, pinned, call, bound>>

Crash(n) ==
  /\ n \in up /\ Fault
  /\ up' = up \ {n}
  /\ IF leader # NoNode /\ (n = leader \/ ~Majority(up')) THEN Depose ELSE UNCHANGED leadVars
  /\ UNCHANGED <<members, applied, mountVars, pinned, call, bound>>

(* The FSM starts empty and is filled from the snapshot and the log.       *)
Restart(n) ==
  /\ n \notin up
  /\ up' = up \union {n}
  /\ applied' = [applied EXCEPT ![n] = 1]
  /\ UNCHANGED <<members, leadVars, mountVars, pinned, call, faults, bound>>

(* The batches of registerOps and removeOps, once committed.               *)
Register(n) ==
  /\ leader # NoNode /\ n \in up \ Current /\ Len(members) < bound.log
  /\ Commit(Current \union {n})
  /\ UNCHANGED <<applied, up, leadVars, mountVars, pinned, call, faults, bound>>

Deregister(n) ==
  /\ leader # NoNode /\ n \in Current /\ Current # {n} /\ Len(members) < bound.log
  /\ Commit(Current \ {n})
  /\ IF n = leader THEN Depose ELSE UNCHANGED leadVars
  /\ UNCHANGED <<applied, up, mountVars, pinned, call, faults, bound>>

(* Raft replicates to members; one that was removed may still hear of it.  *)
Apply(n) ==
  /\ n \in up /\ \E v \in ToSet(members) : n \in v
  /\ ApplyNext(n)
  /\ UNCHANGED <<up, leadVars, metaNodes, pinned, call, faults, bound>>

(* LeaderHTTPAddr at node n: the leader Raft knows of, which may be out of *)
(* date or none until the node has heard from the leader, and whose        *)
(* address has to be in this node's own store.                             *)
LeaderHTTPAddr(n) ==
  CASE leader = n -> {n}
    [] leader # n /\ settled /\ n \in Current -> {IF leader \in View(n) THEN leader ELSE NoNode}
    [] OTHER -> {NoNode} \union ({leader, former} \intersect View(n))

---------------------------------------------------------------------------
(* The mount starts, and refreshes its node lists.                         *)

(* ListNodes through post: some node of the list that is running answers.  *)
(* An empty answer leaves RemoteMeta.nodes alone.                          *)
Answers(list) == {View(n) : n \in list \intersect up}
ListNodes(list, answer) == IF answer = {} THEN list ELSE answer

(* runMount: the overview of the seed pins the leader, if the seed knows   *)
(* one; the seeds of the chunk store are the nodes discovered now.  A list *)
(* that cannot be fetched counts as an empty answer.                       *)
Mount ==
  /\ metaNodes = {} /\ Urls[1] \in up
  /\ pinned' \in LeaderHTTPAddr(Urls[1])
  /\ \E first \in Answers(ToSet(Urls)) \union {{}} :
       /\ seeds' = ListNodes(ToSet(Urls), first)
       /\ \E second \in Answers(seeds') \union {{}} :
            /\ metaNodes' = ListNodes(seeds', second)
            /\ nodes' = mergeNodeURLs(seeds', second)
  /\ UNCHANGED <<members, applied, up, leadVars, call, faults, bound>>

(* Fault: the list grows, and departed nodes stay in it.                   *)
RefreshKeepingOld ==
  /\ metaNodes # {}
  /\ \E answer \in Answers(metaNodes) :
       /\ metaNodes' = ListNodes(metaNodes, answer)
       /\ nodes' = mergeNodeURLs(nodes, answer)
  /\ UNCHANGED <<members, applied, up, leadVars, seeds, pinned, call, faults, bound>>

(* The heartbeat, which runs with -v only.                                 *)
RefreshNodes ==
  /\ metaNodes # {}
  /\ \E answer \in Answers(metaNodes) :
       /\ metaNodes' = ListNodes(metaNodes, answer)
       /\ nodes' = mergeNodeURLs(seeds, answer)
  /\ UNCHANGED <<members, applied, up, leadVars, seeds, pinned, call, faults, bound>>

---------------------------------------------------------------------------
(* A metadata call: post, tryPost and doPost of RemoteMeta.                *)

(* Fault: the pinned leader is one candidate among others.                 *)
nodeListAll(op) == metaNodes \union ({pinned} \ {NoNode})

(* Fault: reads go to the pinned leader too.                               *)
nodeListPinned(op) == IF pinned # NoNode THEN {pinned} ELSE metaNodes

nodeList(op) == IF op \in WriteOp /\ pinned # NoNode THEN {pinned} ELSE metaNodes

(* An operation of the FUSE root, of a directory or of a file.             *)
Begin(op) ==
  /\ bound.calls /\ metaNodes # {} /\ ~Busy
  /\ \E n \in nodeList(op) :
       call' = [Idle EXCEPT !.op = op, !.at = n, !.todo = nodeList(op) \ {n},
                            !.pin = pinned, !.known = Cardinality(metaNodes)]
  /\ UNCHANGED <<members, applied, up, leadVars, mountVars, pinned, faults, bound>>

mapMetaErr(err) ==
  CASE err = "file exists" -> "EEXIST"
    [] err = "entry not found" -> "ENOENT"
    [] OTHER -> "EIO"

(* What an operation makes of an error: some do not look at it.            *)
errno(op, err) ==
  CASE err = "" -> "OK"
    [] err # "" /\ op \in {"unlink", "lookup", "getattr"} -> "ENOENT"
    [] err # "" /\ op \in {"readdir", "setattr"} -> "EIO"
    [] OTHER -> mapMetaErr(err)

(* Fault: a redirect is not an error.                                      *)
doPostAnyStatus(resp, reply) ==
  IF reply = NoReply THEN "transport" ELSE IF reply.code = 307 THEN "" ELSE resp.error

(* The error of doPost, given what resp holds after the reply is decoded.  *)
(* A conflict is taken for a redirect.                                     *)
doPost(resp, reply) ==
  CASE reply = NoReply -> "transport"
    [] reply.code \in {307, 409} -> "redirect"
    [] OTHER -> resp.error

(* One response object is decoded into again and again: a field that is    *)
(* missing from a reply keeps its old value.                               *)
Decode(resp, reply) ==
  [leader |-> IF reply.leader # NoNode THEN reply.leader ELSE resp.leader,
   error |-> IF reply.error # "" THEN reply.error ELSE resp.error]

(* The client goes on after a reply, or after none.  On an error a write   *)
(* follows a leader it has been told of, once per node it tries; then the  *)
(* next node is tried, unless a read was told that there is no such entry. *)
Continue(c, reply) ==
  LET resp == Decode(c.resp, reply)
      err == doPost(resp, reply)
      final == c.op \in ReadOp /\ err = "entry not found"
  IN  IF err # "" /\ c.op \in WriteOp /\ ~c.redirected /\ resp.leader # NoNode
      THEN /\ pinned' = resp.leader
           /\ call' = [c EXCEPT !.at = resp.leader, !.redirected = TRUE, !.resp = resp]
      ELSE /\ UNCHANGED pinned
           /\ IF err # "" /\ ~final /\ c.todo # {}
              THEN \E n \in c.todo :
                     call' = [c EXCEPT !.at = n, !.todo = @ \ {n}, !.redirected = FALSE, !.resp = resp]
              ELSE call' = [Idle EXCEPT !.op = c.op, !.errno = errno(c.op, err),
                                        !.commits = c.commits, !.resp.error = resp.error]

Deliver(c, reply) ==
  \/ Continue(c, reply) /\ UNCHANGED faults
  \/ Continue(c, NoReply) /\ Fault

RequestLost ==
  /\ Busy
  /\ Continue(call, NoReply)
  /\ IF call.at \in up THEN Fault ELSE UNCHANGED faults
  /\ UNCHANGED <<members, applied, up, leadVars, mountVars, bound>>

---------------------------------------------------------------------------
(* The server: handleWrite and the handlers of writes, which only the      *)
(* leader runs, and handleFS and the handlers of reads.                    *)

(* Fault: the redirect does not say where to.                              *)
RedirectSilent ==
  /\ Busy /\ call.op \in WriteOp /\ call.at \in up /\ leader # call.at
  /\ Deliver(call, [code |-> 307, leader |-> NoNode, error |-> ""])
  /\ UNCHANGED <<members, applied, up, leadVars, mountVars, bound>>

Redirect ==
  /\ Busy /\ call.op \in WriteOp /\ call.at \in up /\ leader # call.at
  /\ \E l \in LeaderHTTPAddr(call.at) :
       Deliver(call, [code |-> 307, leader |-> l, error |-> ""])
  /\ UNCHANGED <<members, applied, up, leadVars, mountVars, bound>>

(* The status the handlers give an error.                                  *)
ErrorCode(op) ==
  CASE op \in {"unlink", "lookup", "getattr"} -> 404
    [] op \in {"setattr", "readdir"} -> 500
    [] OTHER -> 409

ErrorReply(err) == [code |-> ErrorCode(call.op), leader |-> NoNode, error |-> err]

Running == [call EXCEPT !.runs = @ + 1]

(* The handler finds the name taken, missing, or anything else wrong.      *)
Reject ==
  /\ Busy /\ call.op \in WriteOp /\ leader = call.at
  /\ \E err \in {"file exists", "entry not found", "other"} : Deliver(Running, ErrorReply(err))
  /\ UNCHANGED <<members, applied, up, leadVars, mountVars, bound>>

Committed == [Running EXCEPT !.commits = @ + 1]

Execute ==
  /\ Busy /\ call.op \in WriteOp /\ leader = call.at
  /\ Deliver(Committed, [code |-> 200, leader |-> NoNode, error |-> ""])
  /\ UNCHANGED <<members, applied, up, leadVars, mountVars, bound>>

(* The leader is deposed while it waits for its batch, and gets an error;  *)
(* the batch may be committed all the same.                                *)
ExecuteDeposed ==
  /\ Busy /\ call.op \in WriteOp /\ leader = call.at /\ Fault /\ Depose
  /\ \E c \in {Running, Committed} : Continue(c, ErrorReply("other"))
  /\ UNCHANGED <<members, applied, up, mountVars, bound>>

(* A read is answered from the node's own, possibly lagging, store.        *)
Read ==
  /\ Busy /\ call.op \in ReadOp /\ call.at \in up
  /\ \E reply \in {[code |-> 200, leader |-> NoNode, error |-> ""],
                   ErrorReply("entry not found")} : Deliver(call, reply)
  /\ UNCHANGED <<members, applied, up, leadVars, mountVars, bound>>

Serve == Redirect \/ Reject \/ Execute \/ ExecuteDeposed \/ Read

Next ==
  \/ LoseLeadership \/ Hear \/ Mount \/ RefreshNodes \/ RequestLost \/ Serve
  \/ \E n \in Node :
       Elect(n) \/ Crash(n) \/ Restart(n) \/ Register(n) \/ Deregister(n) \/ Apply(n)
  \/ \E op \in Op : Begin(op)

Spec == Init /\ [][Next]_vars

(* Raft elects leaders, its heartbeats and entries reach the members, the  *)
(* nodes answer or the 300 s timeout of the HTTP client ends the wait, the *)
(* ticker of the heartbeat goes on, and the application keeps calling.     *)
FairSpec ==
  /\ Spec
  /\ WF_vars(\E n \in Node : Elect(n)) /\ WF_vars(Hear)
  /\ \A n \in Node : WF_vars(n \in Current /\ Apply(n))
  /\ WF_vars(RefreshNodes) /\ WF_vars(Serve \/ RequestLost) /\ WF_vars(\E op \in Op : Begin(op))

---------------------------------------------------------------------------
TypeOK ==
  /\ PlacementTypeOK
  /\ up \subseteq Node /\ leader \in up \union {NoNode} /\ former \in Node \union {NoNode}
  /\ settled \in BOOLEAN
  /\ metaNodes \subseteq Node /\ pinned \in Node \union {NoNode}
  /\ call.at \in Node \union {NoNode} /\ call.todo \subseteq Node
  /\ bound \in Bounds /\ faults \in 0..bound.faults

(* A call that starts with a pinned leader is over once its handler has    *)
(* run, whatever is lost and whoever becomes leader: nothing is unlinked   *)
(* or created twice by one system call (client/meta.go:217-253, 333-335).  *)
AtMostOnce == Busy /\ call.pin # NoNode => call.runs = 0

(* A FUSE operation that returns 0 has been committed: neither a redirect, *)
(* a lost reply nor a field left over from an earlier reply is taken for a *)
(* success (client/meta.go:236-255, 312-327).                              *)
SuccessCommitted ==
  [][Busy /\ call'.at = NoNode /\ call.op \in WriteOp /\ call'.errno = "OK" =>
       call'.commits >= 1]_vars

(* A read goes without an answer only if as many things went wrong as the  *)
(* mount knew nodes: one node that can be reached is enough, and the       *)
(* leader plays no part in it (client/meta.go:212-231, 330-339).           *)
ReadAnswered ==
  [][Busy /\ call.op \in ReadOp /\ call'.at = NoNode =>
       call'.errno = "OK" \/ call'.resp.error # "" \/ call.known <= faults']_vars

(* Once the cluster is quiet, every running member has the last list and   *)
(* namespace, and so every lookup and every list the mount fetches is up   *)
(* to date; the mount works from that list and its seeds.  This needs the  *)
(* heartbeat, and that the nodes that answer the mount are members: a      *)
(* removed node that keeps running may keep the mount on its own old list  *)
(* (client/meta.go:166-178, storage/chunk.go:75-85).                       *)
ViewsConverge ==
  <>[](metaNodes \intersect up # {} /\ metaNodes \intersect up \subseteq Current) =>
  <>[](/\ \A n \in Current \intersect up : applied[n] = Len(members)
       /\ metaNodes = Current /\ nodes = seeds \union Current)

(* Writes find the leader in the end if the node they are pinned to is a   *)
(* member that runs: it redirects them (server.go:620, meta.go:237-239).   *)
PinFollowsLeader ==
  []<>(Busy /\ call.op \in WriteOp) /\ <>[](leader # NoNode /\ pinned \in up \intersect Current) =>
    <>[](pinned = leader)

(* "Leader down: Raft elects a new leader; the mount follows the redirect" *)
(* (distributed-memory-storage-design.md:247): when there is a leader for  *)
(* good, writes end up pinned to it, even if the old one is down.          *)
FailoverFollowed ==
  <>[](leader # NoNode) => <>[](pinned \in {leader, NoNode})
=============================================================================
