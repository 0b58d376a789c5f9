--------------------------------- MODULE Vfs ---------------------------------
(***************************************************************************)
(* The virtual file system (vfs.c): a tree of nodes, memory files, device  *)
(* nodes, mount points and the streams open on them.  A path is the        *)
(* sequence of what follows each of its delimiters, <<>> the path "/" of   *)
(* the root; names may be empty.  Calls come one at a time; streams, and   *)
(* what other streams do to the same file, live across them.  Memory may   *)
(* run out wherever a call allocates, and a device may refuse a request.   *)
(***************************************************************************)
EXTENDS Integers, Sequences, FiniteSets

CONSTANTS
  Streams,
  Paths,        \* sequences of names
  Modes,        \* among "r", "w" and "rw"
  Bytes,
  Blocks,       \* sequences of bytes the callers write
  MaxNodes,     \* bounds the tree
  MaxFile,      \* bounds the length of a file
  JUNK          \* an uninitialized byte

(* JUNK and the marks of FileData are no bytes. *)
ASSUME VfsAssumption ==
  /\ IsFiniteSet(Streams) /\ MaxNodes \in Nat \ {0} /\ MaxFile \in Nat
  /\ Paths \subseteq Seq(STRING) /\ Blocks \subseteq Seq(Bytes)
  /\ Bytes \cap {JUNK, "absent", "lost"} = {}

(* A name may be empty. *)
ASSUME EmptyName == "" \in STRING

VARIABLES
  node,     \* node[i]: K_VFS_NODE; 1 is vfs_root
  stream,   \* stream[s]: K_STREAM, its pos and its node, or Closed
  out,      \* the bytes the last read returned
  wild      \* why memory was corrupted or the machine stopped, "no" if not

vars == <<node, stream, out, wild>>

Ids == 1 .. MaxNodes

Closed == [node |-> 0, pos |-> 0]

Unused == [type |-> "none", name |-> "none", parent |-> 0, rwe |-> FALSE, ref |-> 0,
           size |-> 0, cap |-> 0, content |-> <<>>, ready |-> FALSE]

NewNode(type, name, parent, rwe) ==
  [Unused EXCEPT !.type = type, !.name = name, !.parent = parent, !.rwe = rwe,
                 !.ready = type \in {"device", "mount"}]

(* vfs_init *)
Init ==
  /\ node = [i \in Ids |-> IF i = 1 THEN NewNode("dir", "none", 0, FALSE) ELSE Unused]
  /\ stream = [s \in Streams |-> Closed]
  /\ out = <<>> /\ wild = "no"

-----------------------------------------------------------------------------
(* Paths and nodes *)

Children(i) == {j \in Ids : node[j].type # "none" /\ node[j].parent = i}

Child(i, name) == {j \in Children(i) : node[j].name = name}

NotFound == [found |-> FALSE, at |-> 0, crossing |-> FALSE]

Crosses(c) == node[c].type = "mount"

(* "/" is the root and not a child of it without a name. *)
Names(path) == IF path = <<"">> THEN <<>> ELSE path

(* The walk stops at the first mount point on the way. *)
Walked(path) ==
  LET walk[k \in 0 .. Len(path)] == [i \in Ids |->
        IF k = Len(path) THEN [found |-> TRUE, at |-> i, crossing |-> FALSE]
        ELSE IF Child(i, path[k + 1]) = {} THEN NotFound
        ELSE LET c == CHOOSE j \in Child(i, path[k + 1]) : TRUE
             IN IF Crosses(c) THEN [found |-> TRUE, at |-> c, crossing |-> TRUE]
                ELSE walk[k + 1][c]]
  IN walk[0][1]

vfs_parse_url(path) == Walked(Names(path))

Dirname(path) == IF path = <<>> THEN <<>> ELSE SubSeq(path, 1, Len(path) - 1)

Basename(path) == IF path = <<>> THEN "" ELSE path[Len(path)]

Free == {i \in Ids : node[i].type = "none"}

Still == wild = "no"

Silent == out' = <<>>

(* Mutant: no look for a node of that name. *)
NameTaken_never(i, name) == Child(i, name) = {} /\ name = "none"

NameTaken(i, name) == Child(i, name) # {}

AddChild(i, name, type, rwe) ==
  LET j == CHOOSE k \in Free : \A l \in Free : k <= l
  IN node' = [node EXCEPT ![j] = NewNode(type, name, i, rwe)]

(* vfsnode_add_child and its caller, which writes through a pointer that    *)
(* stays unset when the name is taken or memory runs out.                   *)
vfsnode_add_child(i, name, type, rwe, fails) ==
  IF NameTaken(i, name) \/ fails THEN wild' = "child" /\ UNCHANGED node
  ELSE AddChild(i, name, type, rwe) /\ UNCHANGED wild

-----------------------------------------------------------------------------
(* vfs_mkdir does not look for a mount point in the path, nor whether there *)
(* is a name: that of "/" is empty.                                         *)
vfs_mkdir(path, rwe, fails) ==
  LET d == vfs_parse_url(Dirname(path)) IN
  /\ Still /\ Free # {}
  /\ IF d.found THEN vfsnode_add_child(d.at, Basename(path), "dir", rwe, fails)
     ELSE UNCHANGED <<node, wild>>
  /\ Silent /\ UNCHANGED stream

(* The common part of vfs_create, vfs_mount_device and vfs_mount_fs. *)
AddAt(path, type, rwe, fails) ==
  LET d == vfs_parse_url(Dirname(path)) IN
  /\ Still /\ Free # {}
  /\ IF ~vfs_parse_url(path).found /\ d.found
     THEN vfsnode_add_child(d.at, Basename(path), type, rwe, fails)
     ELSE UNCHANGED <<node, wild>>
  /\ Silent /\ UNCHANGED stream

vfs_create(path, rwe, fails) == AddAt(path, "file", rwe, fails)

(* A device that fails to initialize stops the machine. *)
vfs_mount_device(path, fails) == AddAt(path, "device", TRUE, fails)

(* The constructor of the file system may fail, before the node is added. *)
vfs_mount_fs(path, fails) == AddAt(path, "mount", TRUE, fails)

(* The driver is finalized; the node stays. *)
vfs_unmount_device(path) ==
  LET p == vfs_parse_url(path) IN
  /\ Still
  /\ IF p.found /\ ~p.crossing /\ node[p.at].type = "device"
     THEN IF node[p.at].ready
          THEN node' = [node EXCEPT ![p.at].ready = FALSE] /\ UNCHANGED wild
          ELSE wild' = "device" /\ UNCHANGED node
     ELSE UNCHANGED <<node, wild>>
  /\ Silent /\ UNCHANGED stream

(* Mutant: the test of the path lets the mount point itself pass. *)
Unmountable_crossing(p) == p.found /\ node[p.at].type = "mount"

Unmountable(p) == p.found /\ ~p.crossing /\ node[p.at].type = "mount"

(* A path that leads to a mount point crosses it and is refused, so that no *)
(* file system is ever finalized.                                           *)
vfs_unmount_fs(path) ==
  LET p == vfs_parse_url(path) IN
  /\ Still
  /\ IF Unmountable(p) THEN node' = [node EXCEPT ![p.at].ready = FALSE] ELSE UNCHANGED node
  /\ Silent /\ UNCHANGED <<stream, wild>>

-----------------------------------------------------------------------------
(* Mutant: keeps the reference of a stream that could not be allocated. *)
RefAfterFailure_kept(i) == node[i].ref + 1

RefAfterFailure(i) == node[i].ref

Faults == {"none", "stream", "filename", "device"}

(* The first allocation that fails is noticed, the second is not.  A device *)
(* that refuses to be opened stops the machine.                             *)
vfs_open(s, path, mode, fault) ==
  LET p == vfs_parse_url(path) IN
  /\ Still /\ stream[s] = Closed
  /\ IF ~p.found \/ p.crossing \/ ~node[p.at].rwe \/ node[p.at].type = "dir"
     THEN UNCHANGED <<node, stream, wild>>
     ELSE IF fault = "stream"
     THEN node' = [node EXCEPT ![p.at].ref = RefAfterFailure(p.at)] /\ UNCHANGED <<stream, wild>>
     ELSE IF fault = "filename"
     THEN wild' = "filename" /\ UNCHANGED <<node, stream>>
     ELSE IF node[p.at].type = "device" /\ (fault = "device" \/ ~node[p.at].ready)
     THEN wild' = "device" /\ UNCHANGED <<node, stream>>
     ELSE /\ node' = [node EXCEPT ![p.at].ref = @ + 1]
          /\ stream' = [stream EXCEPT ![s] = [node |-> p.at, pos |-> 0, mode |-> mode]]
          /\ UNCHANGED wild
  /\ Silent

(* Closing asks the device, and releases the node last. *)
vfs_close(s, fails) ==
  LET n == node[stream[s].node] IN
  /\ Still /\ stream[s] # Closed
  /\ IF n.type = "device" /\ (fails \/ ~n.ready) THEN wild' = "device" /\ UNCHANGED <<node, stream>>
     ELSE IF n.ref = 0 THEN wild' = "refcount" /\ UNCHANGED <<node, stream>>
     ELSE /\ node' = [node EXCEPT ![stream[s].node].ref = @ - 1]
          /\ stream' = [stream EXCEPT ![s] = Closed]
          /\ UNCHANGED wild
  /\ Silent

OnFile(s, mode) ==
  /\ Still /\ stream[s] # Closed
  /\ node[stream[s].node].type = "file" /\ stream[s].mode \in mode

(* Mutant: does not stop at the end of the file. *)
Effective_whole(n, pos, size) == IF pos > size THEN 0 ELSE n

Effective(n, pos, size) == IF pos + n > size THEN size - pos ELSE n

vfs_file_read(s, n) ==
  LET f == node[stream[s].node]
      k == Effective(n, stream[s].pos, f.size)
  IN
  /\ OnFile(s, {"r", "rw"})
  /\ IF stream[s].pos > f.size THEN wild' = "pos" /\ Silent /\ UNCHANGED stream
     ELSE IF k = 0 THEN Silent /\ UNCHANGED <<stream, wild>>
     ELSE IF f.content = <<>> THEN wild' = "lost" /\ Silent /\ UNCHANGED stream
     ELSE /\ out' = SubSeq(f.content, stream[s].pos + 1, stream[s].pos + k)
          /\ stream' = [stream EXCEPT ![s].pos = @ + k]
          /\ UNCHANGED wild
  /\ UNCHANGED node

(* 1.2 times what is needed *)
NewCap(need) == need + (need * 2) \div 10

(* The content buffer after krealloc *)
Grown(f, cap) == [i \in 1 .. cap |-> IF i <= Len(f.content) THEN f.content[i] ELSE JUNK]

(* The buffer for a write that ends at need: allocated, grown, or kept. *)
Buffer(f, need, n) ==
  LET cap == IF f.cap = 0 THEN n ELSE f.cap
      new == IF need > cap THEN NewCap(need) ELSE cap
  IN [f EXCEPT !.cap = new, !.content = IF new = f.cap THEN @ ELSE Grown(f, new)]

(* Mutant: appends whatever the position. *)
Put_at_end(f, pos, block) ==
  [f EXCEPT !.content = [i \in 1 .. Len(@) |->
              IF i \in f.size + 1 .. f.size + Len(block) THEN block[i - f.size] ELSE @[i]],
            !.size = IF pos + Len(block) > @ THEN pos + Len(block) ELSE @]

Put(f, pos, block) ==
  [f EXCEPT !.content = [i \in 1 .. Len(@) |->
              IF i \in pos + 1 .. pos + Len(block) THEN block[i - pos] ELSE @[i]],
            !.size = IF pos + Len(block) > @ THEN pos + Len(block) ELSE @]

(* krealloc has freed the old buffer when it fails, and the capacity and the *)
(* size stay: the next access goes through a null pointer.                   *)
vfs_file_write(s, block, oom) ==
  LET i == stream[s].node
      f == node[i]
      need == stream[s].pos + Len(block)
  IN
  /\ OnFile(s, {"w", "rw"}) /\ need <= MaxFile
  /\ IF stream[s].pos > f.size THEN wild' = "pos" /\ UNCHANGED <<node, stream>>
     ELSE IF oom /\ need > f.cap
     THEN /\ node' = [node EXCEPT ![i].content = <<>>]
          /\ UNCHANGED <<stream, wild>>
     ELSE IF f.content = <<>> /\ f.cap > 0 /\ need <= f.cap
     THEN wild' = "lost" /\ UNCHANGED <<node, stream>>
     ELSE /\ node' = [node EXCEPT ![i] = Put(Buffer(f, need, Len(block)), stream[s].pos, block)]
          /\ stream' = [stream EXCEPT ![s].pos = need]
          /\ UNCHANGED wild
  /\ Silent

SeekAllowed(p, size) == p >= 0 /\ p <= size

vfs_file_seek(s, off, origin) ==
  LET size == node[stream[s].node].size
      p == CASE origin = "begin" -> off
             [] origin = "current" -> stream[s].pos + off
             [] origin = "end" -> size - off
  IN
  /\ OnFile(s, {"r", "w", "rw"})
  /\ stream' = IF SeekAllowed(p, size) THEN [stream EXCEPT ![s].pos = p] ELSE stream
  /\ Silent /\ UNCHANGED <<node, wild>>

-----------------------------------------------------------------------------
Next ==
  \/ \E path \in Paths :
       \/ \E rwe, fails \in BOOLEAN : vfs_mkdir(path, rwe, fails) \/ vfs_create(path, rwe, fails)
       \/ \E fails \in BOOLEAN : vfs_mount_device(path, fails) \/ vfs_mount_fs(path, fails)
       \/ vfs_unmount_device(path) \/ vfs_unmount_fs(path)
       \/ \E s \in Streams, mode \in Modes, fault \in Faults : vfs_open(s, path, mode, fault)
  \/ \E s \in Streams :
       \/ \E fails \in BOOLEAN : vfs_close(s, fails)
       \/ \E n \in 1 .. 2 : vfs_file_read(s, n)
       \/ \E block \in Blocks, oom \in BOOLEAN : vfs_file_write(s, block, oom)
       \/ \E off \in -1 .. 1, origin \in {"begin", "current", "end"} : vfs_file_seek(s, off, origin)

Spec == Init /\ [][Next]_vars

-----------------------------------------------------------------------------
TypeOK ==
  /\ \A i \in Ids :
       /\ node[i].type \in {"none", "dir", "file", "device", "mount"}
       /\ node[i].parent \in 0 .. MaxNodes /\ node[i].ref \in 0 .. Cardinality(Streams)
       /\ Len(node[i].content) \in {0, node[i].cap}
  /\ \A s \in Streams : stream[s] = Closed \/ stream[s].node \in Ids
  /\ wild \in {"no", "child", "filename", "device", "lost", "pos", "refcount"}

OpenOn(i) == {s \in Streams : stream[s] # Closed /\ stream[s].node = i}

(* Every open stream holds one reference on its node and nothing else does, *)
(* failed opens included: closing never drops the count below zero.         *)
RefCounts ==
  /\ \A i \in Ids : node[i].ref = Cardinality(OpenOn(i))
  /\ wild # "refcount"

(* No sequence of reads, writes and seeks, on this or other streams of the  *)
(* file, moves a position behind its end, and the bytes up to the end are   *)
(* within the buffer, so that neither reading nor writing panics.           *)
PosInFile ==
  \A i \in Ids :
    /\ \A s \in OpenOn(i) : stream[s].pos <= node[i].size
    /\ node[i].type = "file" => node[i].size <= node[i].cap

(* Nodes and the streams open on them agree. *)
StreamsAndNodes == TypeOK /\ RefCounts /\ PosInFile

Ancestors(i) ==
  LET up[j \in 0 .. MaxNodes] == IF j = 0 THEN {} ELSE {j} \cup up[node[j].parent] IN up[node[i].parent]

PathOf(i) ==
  LET up[j \in Ids] == IF node[j].parent = 0 THEN <<>> ELSE Append(up[node[j].parent], node[j].name)
  IN up[i]

(* Every node is found under its path, and under no other node's path, with *)
(* two exceptions that the calls can make: below a mount point mkdir puts   *)
(* directories that nobody will ever see, and a child of the root without a *)
(* name, the directory mkdir makes of "/", has the path of the root.        *)
PathsResolve ==
  \A i \in {j \in Ids : node[j].type # "none"} :
    LET at(j) == [found |-> TRUE, at |-> j, crossing |-> node[j].type = "mount"] IN
    IF \E a \in Ancestors(i) : node[a].type = "mount"
    THEN node[i].type = "dir"
    ELSE vfs_parse_url(PathOf(i)) = at(IF PathOf(i) = <<"">> THEN 1 ELSE i)

(* A call that crosses a mount point finds the driver it was mounted with:  *)
(* no file system is finalized and freed while its node can be reached.     *)
CrossingIsLive ==
  \A path \in Paths : vfs_parse_url(path).crossing => node[vfs_parse_url(path).at].ready

FileData(i) ==
  LET f == node[i] IN
  IF f.type # "file" THEN <<"absent">>
  ELSE IF Len(f.content) < f.size \/ \E k \in 1 .. f.size : f.content[k] = JUNK THEN <<"lost">>
  ELSE SubSeq(f.content, 1, f.size)

fileData == [i \in Ids |-> FileData(i)]

NoFile == [file |-> 0, pos |-> 0]

fileStream ==
  [s \in Streams |->
     IF stream[s] # Closed /\ node[stream[s].node].type = "file"
     THEN [file |-> stream[s].node, pos |-> stream[s].pos] ELSE NoFile]

(* Files behave as sequences of bytes with a position per stream, until     *)
(* memory runs out while one grows.                                         *)
FS == INSTANCE FileStore WITH
  Files <- Ids, Absent <- <<"absent">>, Lost <- <<"lost">>, Closed <- NoFile,
  data <- fileData, stream <- fileStream

FilesKeepData == FS!Spec
=============================================================================
