----------------------------- MODULE MetaStore -----------------------------
(***************************************************************************)
(* The namespace (pkg/meta/store.go) on top of the replicated KV.  Every   *)
(* operation reads some keys one by one and then writes one batch; reads   *)
(* and batches of several requests interleave.  A batch is one Raft entry  *)
(* and atomic.  The number of a new inode comes from KV.Incr, which is     *)
(* atomic in a standalone node (MemoryKV) but an Apply followed by a read  *)
(* of the local FSM under Raft (RaftKV).                                   *)
(***************************************************************************)
EXTENDS Naturals, FiniteSets

CONSTANTS
  Proc,        \* requests served at the same time, one per client
  Name,        \* names of directory entries (checkName holds)
  Deployment,  \* the ways the store is used: per process the names its client
               \* works with; raft: RaftKV on the leader, else MemoryKV of a
               \* standalone node; ttl: files expire
  MaxIno       \* bound: inodes ever allocated

ASSUME MetaStoreOK ==
  /\ Deployment \subseteq [names : [Proc -> SUBSET Name], raft : BOOLEAN, ttl : BOOLEAN]
  /\ MaxIno \in Nat \ {0} /\ Name # {}

rootIno == 1
Ino == 1..MaxIno
NoIno == 0

VARIABLES
  dep,      \* the deployment, which never changes
  attr,     \* ino keys: "none", "dir", "file" (a symlink is a file here)
  dirent,   \* dirent hashes: ino or NoIno per directory and name
  dotdot,   \* field ".." of the dirent hash, NoIno when "." and ".." are missing
  ilink,    \* ilink keys: parent and name, parent NoIno when there is no key
  index,    \* the inode index set
  next_ino, \* the counter
  pc,       \* per process: its next KV call, "idle" between requests
  loc,      \* per process: arguments and values read so far
  known,    \* per process: directories its client holds a reference to
  made      \* history: acknowledged creations

treeVars == <<attr, dirent, dotdot, ilink, index>>
metaVars == <<dep, attr, dirent, dotdot, ilink, index, next_ino, pc, loc, known, made>>

NoLink == [parent |-> NoIno, name |-> CHOOSE n \in Name : TRUE]
NoLoc == [kind |-> "file", parent |-> rootIno, name |-> NoLink.name,
          newParent |-> rootIno, newName |-> NoLink.name, ino |-> NoIno]

(* After initRoot: the batch of the root inode also takes number 1.        *)
MetaInit ==
  /\ dep \in Deployment
  /\ attr = [i \in Ino |-> IF i = rootIno THEN "dir" ELSE "none"]
  /\ dirent = [i \in Ino |-> [n \in Name |-> NoIno]]
  /\ dotdot = [i \in Ino |-> NoIno]
  /\ ilink = [i \in Ino |-> NoLink]
  /\ index = {rootIno}
  /\ next_ino = 1
  /\ pc = [p \in Proc |-> "idle"]
  /\ loc = [p \in Proc |-> NoLoc]
  /\ known = [p \in Proc |-> {rootIno}]
  /\ made = {}

HExists(d, n) == dirent[d][n] # NoIno
HLen(d) == Cardinality({n \in Name : HExists(d, n)}) + (IF dotdot[d] = NoIno THEN 0 ELSE 2)

Proceed(p, step) == pc' = [pc EXCEPT ![p] = step]
Return(p) == Proceed(p, "idle") /\ loc' = [loc EXCEPT ![p] = NoLoc]
Begin(p, step, args) == pc[p] = "idle" /\ Proceed(p, step) /\ loc' = [loc EXCEPT ![p] = args]

---------------------------------------------------------------------------
(* Mkdir, Create and Symlink.                                              *)

MakeCheck(p) ==
  \E d \in known[p], n \in dep.names[p], k \in {"dir", "file"} :
    /\ ~HExists(d, n)
    /\ Begin(p, "alloc", [NoLoc EXCEPT !.kind = k, !.parent = d, !.name = n])
    /\ UNCHANGED <<treeVars, next_ino, known, made>>

(* Fault: the counter is read and not raised.                              *)
allocReadOnly(p) ==
  /\ pc[p] = "alloc" /\ next_ino < MaxIno
  /\ Proceed(p, "make") /\ loc' = [loc EXCEPT ![p].ino = next_ino + 1]
  /\ UNCHANGED <<treeVars, next_ino, known, made>>

allocIno(p) ==
  /\ pc[p] = "alloc" /\ next_ino < MaxIno
  /\ next_ino' = next_ino + 1
  /\ IF dep.raft
     THEN Proceed(p, "readIno") /\ UNCHANGED loc
     ELSE Proceed(p, "make") /\ loc' = [loc EXCEPT ![p].ino = next_ino + 1]
  /\ UNCHANGED <<treeVars, known, made>>

(* Fault: a counter that is not found counts as 0.                         *)
ReadInoZero(p) ==
  /\ pc[p] = "readIno"
  /\ loc' = [loc EXCEPT ![p].ino = NoIno]
  /\ Proceed(p, "make")
  /\ UNCHANGED <<treeVars, next_ino, known, made>>

(* RaftKV.Incr reads the counter after its own increment was applied.      *)
ReadIno(p) ==
  /\ pc[p] = "readIno"
  /\ loc' = [loc EXCEPT ![p].ino = next_ino]
  /\ Proceed(p, "make")
  /\ UNCHANGED <<treeVars, next_ino, known, made>>

(* The client may get an error (a timeout) for a batch that is committed.  *)
MakeBatch(p) ==
  LET l == loc[p]
  IN  /\ pc[p] = "make"
      /\ dirent' = [dirent EXCEPT ![l.parent][l.name] = l.ino]
      /\ attr' = [attr EXCEPT ![l.ino] = l.kind]
      /\ dotdot' = IF l.kind = "dir" THEN [dotdot EXCEPT ![l.ino] = l.parent] ELSE dotdot
      /\ index' = index \union {l.ino}
      /\ ilink' = [ilink EXCEPT ![l.ino] = [parent |-> l.parent, name |-> l.name]]
      /\ \/ /\ known' = [known EXCEPT ![p] = IF l.kind = "dir" THEN @ \union {l.ino} ELSE @]
            /\ made' = made \union {[ino |-> l.ino, kind |-> l.kind, by |-> p]}
         \/ UNCHANGED <<known, made>>
      /\ Return(p) /\ UNCHANGED next_ino

---------------------------------------------------------------------------
(* Unlink and Rmdir: HGet, GetAttr, for a directory HLen, then the batch.  *)

RemoveGet(p) ==
  \E d \in known[p], n \in dep.names[p], k \in {"dir", "file"} :
    /\ HExists(d, n)
    /\ Begin(p, "removeAttr", [NoLoc EXCEPT !.kind = k, !.parent = d, !.name = n, !.ino = dirent[d][n]])
    /\ UNCHANGED <<treeVars, next_ino, known, made>>

(* ErrNotFound, ErrIsDir and ErrNotDir end the request.                    *)
RemoveAttr(p) ==
  /\ pc[p] = "removeAttr"
  /\ IF attr[loc[p].ino] = loc[p].kind
     THEN Proceed(p, IF loc[p].kind = "dir" THEN "rmdirLen" ELSE "remove") /\ UNCHANGED loc
     ELSE Return(p)
  /\ UNCHANGED <<treeVars, next_ino, known, made>>

RmdirLen(p) ==
  /\ pc[p] = "rmdirLen"
  /\ IF HLen(loc[p].ino) > 2 THEN Return(p) ELSE Proceed(p, "remove") /\ UNCHANGED loc
  /\ UNCHANGED <<treeVars, next_ino, known, made>>

(* The keys of one inode go; a directory also loses its dirent hash.       *)
DropInode(i, kind) ==
  /\ attr' = [attr EXCEPT ![i] = "none"]
  /\ index' = index \ {i}
  /\ ilink' = [ilink EXCEPT ![i] = NoLink]
  /\ dotdot' = IF kind = "dir" THEN [dotdot EXCEPT ![i] = NoIno] ELSE dotdot

RemoveBatch(p) ==
  LET l == loc[p]
  IN  /\ pc[p] = "remove"
      /\ dirent' = [d \in Ino |->
           IF d = l.ino /\ l.kind = "dir" THEN [n \in Name |-> NoIno]
           ELSE IF d = l.parent THEN [dirent[d] EXCEPT ![l.name] = NoIno] ELSE dirent[d]]
      /\ DropInode(l.ino, l.kind)
      /\ known' = [known EXCEPT ![p] = @ \ {l.ino}]
      /\ Return(p) /\ UNCHANGED <<next_ino, made>>

---------------------------------------------------------------------------
(* Rename: HGet, HExists of the target, HGet again, then the batch.  The   *)
(* kernel does not let a client move a directory below itself.             *)

Ancestors(i) ==
  LET up[k \in 0..MaxIno] ==
        IF k = 0 THEN i ELSE IF up[k - 1] = NoIno THEN NoIno ELSE ilink[up[k - 1]].parent
  IN  {up[k] : k \in 0..MaxIno} \ {NoIno}

RenameGet(p) ==
  \E d, e \in known[p], n, m \in dep.names[p] :
    /\ HExists(d, n)
    /\ dirent[d][n] \notin Ancestors(e)
    /\ Begin(p, "renameExists",
             [NoLoc EXCEPT !.parent = d, !.name = n, !.newParent = e, !.newName = m])
    /\ UNCHANGED <<treeVars, next_ino, known, made>>

RenameExists(p) ==
  /\ pc[p] = "renameExists"
  /\ IF HExists(loc[p].newParent, loc[p].newName) THEN Return(p)
     ELSE Proceed(p, "renameGet") /\ UNCHANGED loc
  /\ UNCHANGED <<treeVars, next_ino, known, made>>

RenameGetAgain(p) ==
  /\ pc[p] = "renameGet"
  /\ IF HExists(loc[p].parent, loc[p].name)
     THEN /\ Proceed(p, "rename")
          /\ loc' = [loc EXCEPT ![p].ino = dirent[loc[p].parent][loc[p].name]]
     ELSE Return(p)
  /\ UNCHANGED <<treeVars, next_ino, known, made>>

(* Fault: the link back from the inode is not moved.                       *)
RenameBatchNoLink(p) ==
  LET l == loc[p]
      removed == [dirent EXCEPT ![l.parent][l.name] = NoIno]
  IN  /\ pc[p] = "rename"
      /\ dirent' = [removed EXCEPT ![l.newParent][l.newName] = l.ino]
      /\ Return(p)
      /\ UNCHANGED <<attr, dotdot, index, ilink, next_ino, known, made>>

(* HDel, then HSet; ".." of a moved directory is not written.              *)
RenameBatch(p) ==
  LET l == loc[p]
      removed == [dirent EXCEPT ![l.parent][l.name] = NoIno]
  IN  /\ pc[p] = "rename"
      /\ dirent' = [removed EXCEPT ![l.newParent][l.newName] = l.ino]
      /\ ilink' = [ilink EXCEPT ![l.ino] = [parent |-> l.newParent, name |-> l.newName]]
      /\ Return(p)
      /\ UNCHANGED <<attr, dotdot, index, next_ino, known, made>>

---------------------------------------------------------------------------
(* PurgeInode of an expired file by the TTL worker of the leader: the link *)
(* is read, then the batch.  It takes the place of a client's request: a   *)
(* purge during a rename of the same file leaves a dangling entry.         *)

PurgeGet(p) ==
  \E i \in index :
    /\ dep.ttl /\ dep.names[p] # {} /\ attr[i] = "file"
    /\ Begin(p, "purge", [NoLoc EXCEPT !.ino = i, !.parent = ilink[i].parent, !.name = ilink[i].name])
    /\ UNCHANGED <<treeVars, next_ino, known, made>>

PurgeBatch(p) ==
  LET l == loc[p]
  IN  /\ pc[p] = "purge"
      /\ dirent' = IF l.parent = NoIno THEN dirent ELSE [dirent EXCEPT ![l.parent][l.name] = NoIno]
      /\ DropInode(l.ino, "file")
      /\ Return(p) /\ UNCHANGED <<next_ino, known, made>>

(* UpdateAttr sets the key of a file its client has open, at fsync, release *)
(* or setattr, whether the inode still exists or not.                       *)
UpdateAttr(p) ==
  \E m \in made :
    /\ pc[p] = "idle" /\ m.by = p /\ m.kind = "file"
    /\ attr' = [attr EXCEPT ![m.ino] = "file"]
    /\ UNCHANGED <<dirent, dotdot, ilink, index, next_ino, pc, loc, known, made>>

(* A Raft write fails (no leader): the request ends with an error, what    *)
(* was committed before stays.                                             *)
WriteFails(p) ==
  /\ pc[p] \in {"alloc", "make", "remove", "rename", "purge"}
  /\ Return(p)
  /\ UNCHANGED <<treeVars, next_ino, known, made>>

(* Lookup gives a client a reference to a directory.                       *)
Lookup(p) ==
  \E d \in known[p], n \in dep.names[p] :
    /\ pc[p] = "idle" /\ HExists(d, n) /\ attr[dirent[d][n]] = "dir"
    /\ known' = [known EXCEPT ![p] = @ \union {dirent[d][n]}]
    /\ UNCHANGED <<treeVars, next_ino, pc, loc, made>>

Step(p) ==
  \/ MakeCheck(p) \/ allocIno(p) \/ ReadIno(p) \/ MakeBatch(p)
  \/ RemoveGet(p) \/ RemoveAttr(p) \/ RmdirLen(p) \/ RemoveBatch(p)
  \/ RenameGet(p) \/ RenameExists(p) \/ RenameGetAgain(p) \/ RenameBatch(p)
  \/ PurgeGet(p) \/ PurgeBatch(p) \/ WriteFails(p) \/ Lookup(p) \/ UpdateAttr(p)

MetaNext == UNCHANGED dep /\ \E p \in Proc : Step(p)
MetaSpec == MetaInit /\ [][MetaNext]_metaVars

---------------------------------------------------------------------------
MetaTypeOK ==
  /\ attr \in [Ino -> {"none", "dir", "file"}]
  /\ dirent \in [Ino -> [Name -> Ino \union {NoIno}]]
  /\ dotdot \in [Ino -> Ino \union {NoIno}]
  /\ ilink \in [Ino -> [parent : Ino \union {NoIno}, name : Name]]
  /\ index \subseteq Ino /\ next_ino \in Ino
  /\ known \in [Proc -> SUBSET Ino]

(* Entries, inodes, back links and the index describe one tree: an entry   *)
(* leads to an indexed inode that links back to it, and every indexed      *)
(* inode but the root hangs in an existing directory below the root.  It   *)
(* holds when no two clients work on the same names.                       *)
TreeOK ==
  /\ \A d \in Ino, n \in Name : HExists(d, n) =>
       /\ dirent[d][n] \in index
       /\ ilink[dirent[d][n]] = [parent |-> d, name |-> n]
  /\ \A i \in index \ {rootIno} :
       /\ attr[i] # "none"
       /\ ilink[i].parent # NoIno /\ dirent[ilink[i].parent][ilink[i].name] = i
       /\ attr[ilink[i].parent] = "dir" /\ rootIno \in Ancestors(i)

(* A number is given to one inode only: no two acknowledged creations      *)
(* return the same inode (allocIno, "strongly consistent metadata").       *)
InodesUnique == \A a, b \in made : a.ino = b.ino => a = b

=============================================================================
