-------------------------------- MODULE Ramfs --------------------------------
(***************************************************************************)
(* The in-memory file system of kernel/src/fs.rs and the shell commands of *)
(* kernel/src/commands.rs that change it.                                  *)
(*                                                                         *)
(* A path is a record: whether it starts with a slash, and its components. *)
(* The file system starts without the base directories and files that      *)
(* fs::init makes, as after rm -rf /, and DATA_POOL counts the bytes that  *)
(* their contents left of the pool.  The field stored of the file system   *)
(* is history: what was last written to each file.                         *)
(***************************************************************************)
EXTENDS Integers, Sequences

CONSTANTS
  MAX_NODES,  \* entries of NODES
  DATA_POOL,  \* bytes of DATA
  MAX_CHAIN,  \* entries of path_of's chain, 32 in the code
  PATH_BUF,   \* bytes of the buffer that pwd gives to path_of, 256 in the code
  NAME_LEN,   \* bytes of each name
  Name,       \* names of files and directories, not empty, other than dots
  Byte,       \* contents of a byte
  Text,       \* what commands and programs write: sequences of bytes
  Path        \* the paths that are used

ROOT == 0
Node == 0 .. MAX_NODES - 1
NoNode == MAX_NODES
Component == Name \cup {".", ".."}

ASSUME RamfsAssumption ==
  /\ MAX_NODES \in Nat \ {0}
  /\ DATA_POOL \in Nat
  /\ MAX_CHAIN \in 0 .. MAX_NODES
  /\ PATH_BUF \in Nat
  /\ NAME_LEN \in [Component -> Nat \ {0}]
  /\ {"", ".", "..", "cut"} \cap Name = {}
  /\ 0 \in Byte
  /\ Text \subseteq Seq(Byte)
  /\ Path \subseteq [abs : BOOLEAN, comps : Seq(Component)]

VARIABLES
  fs,    \* nodes, data and next: NODES, DATA and DATA_NEXT; stored: history
  cwd    \* CWD

vars == <<fs, cwd>>

-----------------------------------------------------------------------------
(* Operations of fs.rs on a file system f.  Each returns the new one. *)

MkNode(kind, name, parent) ==
  [kind |-> kind, name |-> name, parent |-> parent, off |-> 0, len |-> 0, cap |-> 0]
EmptyNode == MkNode("Free", "", 0)

First(S) == IF S = {} THEN NoNode ELSE CHOOSE n \in S : \A m \in S : n <= m

(* for_each_child, whatever the kind of d *)
Children(f, d) == {n \in Node \ {d} : f.nodes[n].kind # "Free" /\ f.nodes[n].parent = d}

FindChild(f, d, name) == First({n \in Children(f, d) : f.nodes[n].name = name})

AllocNode(f) == First({n \in Node \ {ROOT} : f.nodes[n].kind = "Free"})

SetNode(f, n, node) == [f EXCEPT !.nodes[n] = node, !.stored[n] = <<>>]

(* mkdir: NoNode when the name exists, or no node is free *)
FsMkdir(f, d, name) ==
  LET n == AllocNode(f)
      ok == f.nodes[d].kind = "Dir" /\ FindChild(f, d, name) = NoNode /\ n # NoNode
  IN  [fs |-> IF ok THEN SetNode(f, n, MkNode("Dir", name, d)) ELSE f,
       node |-> IF ok THEN n ELSE NoNode]

(* create_file: an existing file is returned as it is *)
FsCreate(f, d, name) ==
  LET old == FindChild(f, d, name)
      n == AllocNode(f)
  IN  IF f.nodes[d].kind # "Dir" THEN [fs |-> f, node |-> NoNode]
      ELSE IF old # NoNode
      THEN [fs |-> f, node |-> IF f.nodes[old].kind = "File" THEN old ELSE NoNode]
      ELSE [fs |-> IF n = NoNode THEN f ELSE SetNode(f, n, MkNode("File", name, d)),
            node |-> n]

Put(data, off, text) ==
  [i \in DOMAIN data |-> IF i \in off .. off + Len(text) - 1
                         THEN text[i - off + 1] ELSE data[i]]

Get(f, n, len) == [i \in 1 .. len |-> f.data[f.nodes[n].off + i - 1]]

(* read *)
FsRead(f, n) == IF f.nodes[n].kind = "File" THEN Get(f, n, f.nodes[n].len) ELSE <<>>

(* A block of the pool for the text: the tail of write and of append *)
NewBlock(f, n, text) ==
  [f EXCEPT !.data = Put(f.data, f.next, text),
            !.next = f.next + Len(text),
            !.nodes[n] = [@ EXCEPT !.off = f.next, !.len = Len(text), !.cap = Len(text)],
            !.stored[n] = text]

(* Mutant: the last byte of a text may fall outside the pool *)
FitsOver(f, text) == f.next + Len(text) - 1 <= DATA_POOL

Fits(f, text) == f.next + Len(text) <= DATA_POOL

(* Mutant: one byte more than the capacity is written in place *)
FsWriteShort(f, n, text) ==
  IF f.nodes[n].kind # "File" THEN f
  ELSE IF Len(text) <= f.nodes[n].cap + 1
  THEN [f EXCEPT !.data = Put(f.data, f.nodes[n].off, text),
                 !.nodes[n].len = Len(text), !.stored[n] = text]
  ELSE IF Fits(f, text) THEN NewBlock(f, n, text) ELSE f

(* write: in place when the text fits, else in a new block, else not at all *)
FsWrite(f, n, text) ==
  IF f.nodes[n].kind # "File" THEN f
  ELSE IF Len(text) <= f.nodes[n].cap
  THEN [f EXCEPT !.data = Put(f.data, f.nodes[n].off, text),
                 !.nodes[n].len = Len(text), !.stored[n] = text]
  ELSE IF Fits(f, text) THEN NewBlock(f, n, text) ELSE f

(* append: always a new block, with the old contents first *)
FsAppend(f, n, text) ==
  LET whole == FsRead(f, n) \o text
  IN  IF Fits(f, whole) /\ f.nodes[n].kind = "File" THEN NewBlock(f, n, whole) ELSE f

(* Mutant: without the check that a directory is empty *)
FsUnlinkFull(f, n) ==
  IF n = ROOT \/ f.nodes[n].kind = "Free" THEN f ELSE SetNode(f, n, EmptyNode)

(* unlink: a file, or a directory without children *)
FsUnlink(f, n) ==
  IF \/ n = ROOT
     \/ f.nodes[n].kind = "Free"
     \/ f.nodes[n].kind = "Dir" /\ Children(f, n) # {}
  THEN f ELSE SetNode(f, n, EmptyNode)

(* The way from n to the root: n, its parent and so on *)
Up(f, n) ==
  LET up[k \in 0 .. MAX_NODES] == IF k = 0 THEN n ELSE f.nodes[up[k - 1]].parent
  IN  up

Ancestors(f, n) == {Up(f, n)[k] : k \in 0 .. MAX_NODES}

(* rm_recursive: nothing below d remains *)
RmRecursive(f, d) ==
  LET below == {n \in Node \ {d, ROOT} : f.nodes[n].kind # "Free" /\ d \in Ancestors(f, n)}
  IN  [f EXCEPT !.nodes = [n \in Node |-> IF n \in below THEN EmptyNode ELSE f.nodes[n]],
                !.stored = [n \in Node |-> IF n \in below THEN <<>> ELSE f.stored[n]]]

-----------------------------------------------------------------------------
(* Paths *)

Step(f, n, comp) ==
  IF n = NoNode \/ comp \in {"", "."} THEN n
  ELSE IF comp = ".." THEN f.nodes[n].parent ELSE FindChild(f, n, comp)

(* Mutant: a path that starts with a slash is taken from start, too *)
ResolveFromStart(f, start, path) ==
  LET cur[k \in 0 .. Len(path.comps)] ==
        IF k = 0 THEN start ELSE Step(f, cur[k - 1], path.comps[k])
  IN  cur[Len(path.comps)]

(* resolve_from *)
ResolveFrom(f, start, path) ==
  LET cur[k \in 0 .. Len(path.comps)] ==
        IF k = 0 THEN IF path.abs THEN ROOT ELSE start
        ELSE Step(f, cur[k - 1], path.comps[k])
  IN  cur[Len(path.comps)]

Resolve(path) == ResolveFrom(fs, cwd, path)

NoPath == [abs |-> FALSE, comps |-> <<>>]

Leaf(path) == path.comps[Len(path.comps)]

(* resolve_parent: a single relative name has the directory CWD, whatever   *)
(* CWD is by now.                                                           *)
ResolveParent(path) ==
  LET n == Len(path.comps)
      dir == Resolve([path EXCEPT !.comps = SubSeq(@, 1, n - 1)])
  IN  IF n = 0 THEN NoNode
      ELSE IF n = 1 THEN IF path.abs THEN ROOT ELSE cwd
      ELSE IF dir # NoNode /\ fs.nodes[dir].kind = "Dir" THEN dir ELSE NoNode

(* The chain of path_of: the names of at most MAX_CHAIN nodes on the way    *)
(* from n to the root, the one nearest to the root first                    *)
Chain(f, n) ==
  LET ends == {k \in 0 .. MAX_NODES : k = MAX_CHAIN \/ Up(f, n)[k] = ROOT}
      depth == CHOOSE k \in ends : \A j \in ends : k <= j
  IN  [k \in 1 .. depth |-> f.nodes[Up(f, n)[depth - k]].name]

(* The bytes that the first k names take, each with its slash *)
Bytes(names) ==
  LET at[k \in 0 .. Len(names)] ==
        IF k = 0 THEN 0 ELSE at[k - 1] + 1 + NAME_LEN[names[k]]
  IN  at

(* What is in a buffer after the names were written to it: past its end     *)
(* nothing is, so the last name may lose its end.  A name that was cut is   *)
(* taken to be the name of nothing.                                         *)
Buffered(names) ==
  LET at == Bytes(names)
      whole == {k \in 0 .. Len(names) : at[k] <= PATH_BUF}
      fit == CHOOSE k \in whole : \A j \in whole : j <= k
  IN  SubSeq(names, 1, fit) \o IF at[fit] + 1 < PATH_BUF THEN <<"cut">> ELSE <<>>

(* Mutant: the last byte of the buffer is kept for a terminating null *)
PathOfTerminated(f, n) ==
  LET names == Chain(f, n)
  IN  [abs |-> TRUE,
       comps |-> IF Bytes(names)[Len(names)] < PATH_BUF THEN names
                 ELSE SubSeq(names, 1, Len(names) - 1) \o <<"cut">>]

(* path_of, into the buffer of pwd *)
PathOf(f, n) ==
  LET names == Chain(f, n)
  IN  [abs |-> TRUE,
       comps |-> IF Bytes(names)[Len(names)] <= PATH_BUF THEN names ELSE Buffered(names)]

-----------------------------------------------------------------------------
(* Shell commands; those that report an error change nothing *)

CmdMkdir(path) ==
  /\ ResolveParent(path) # NoNode
  /\ fs' = FsMkdir(fs, ResolveParent(path), Leaf(path)).fs
  /\ UNCHANGED cwd

CmdTouch(path) ==
  /\ ResolveParent(path) # NoNode
  /\ fs' = FsCreate(fs, ResolveParent(path), Leaf(path)).fs
  /\ UNCHANGED cwd

(* cd, without an argument to the root *)
CmdCd(path) ==
  LET n == IF path = NoPath THEN ROOT ELSE Resolve(path)
  IN  /\ n # NoNode
      /\ fs.nodes[n].kind = "Dir"
      /\ cwd' = n
      /\ UNCHANGED fs

(* rm, with or without -r; a missing path after the flags is the CWD *)
CmdRm(path, recursive) ==
  LET n == Resolve(path)
  IN  /\ n # NoNode
      /\ fs' = FsUnlink(IF recursive /\ fs.nodes[n].kind = "Dir"
                        THEN RmRecursive(fs, n) ELSE fs, n)
      /\ UNCHANGED cwd

(* write <path> <text>; a write that fails leaves a new file empty *)
CmdWrite(path, text) ==
  LET made == FsCreate(fs, ResolveParent(path), Leaf(path))
  IN  /\ ResolveParent(path) # NoNode
      /\ made.node # NoNode
      /\ fs' = FsWrite(made.fs, made.node, text)
      /\ UNCHANGED cwd

(* cp: that the write may fail is ignored *)
CmdCp(src, dst) ==
  LET from == Resolve(src)
      made == FsCreate(fs, ResolveParent(dst), Leaf(dst))
  IN  /\ src # NoPath
      /\ from # NoNode
      /\ fs.nodes[from].kind = "File"
      /\ ResolveParent(dst) # NoNode
      /\ made.node # NoNode
      /\ fs' = FsWrite(made.fs, made.node, FsRead(fs, from))
      /\ UNCHANGED cwd

(* mv: cp, then unlink of the source, whether or not the write failed *)
CmdMv(src, dst) ==
  LET from == Resolve(src)
      made == FsCreate(fs, ResolveParent(dst), Leaf(dst))
  IN  /\ src # NoPath
      /\ from # NoNode
      /\ fs.nodes[from].kind = "File"
      /\ ResolveParent(dst) # NoNode
      /\ made.node # NoNode
      /\ fs' = FsUnlink(FsWrite(made.fs, made.node, FsRead(fs, from)), from)
      /\ UNCHANGED cwd

(* fs::append, which fs.rs offers and no command uses yet *)
Append_(n, text) ==
  /\ fs' = FsAppend(fs, n, text)
  /\ UNCHANGED cwd

Init ==
  /\ fs = [nodes |-> [n \in Node |-> IF n = ROOT THEN MkNode("Dir", "/", ROOT)
                                     ELSE EmptyNode],
           data |-> [i \in 0 .. DATA_POOL - 1 |-> 0],
           next |-> 0,
           stored |-> [n \in Node |-> <<>>]]
  /\ cwd = ROOT

Next ==
  \/ \E p \in Path :
       \/ CmdMkdir(p)
       \/ CmdTouch(p)
       \/ CmdCd(p)
       \/ \E r \in BOOLEAN : CmdRm(p, r)
       \/ \E t \in Text : CmdWrite(p, t)
       \/ \E q \in Path : CmdCp(p, q) \/ CmdMv(p, q)
  \/ \E n \in Node, t \in Text : Append_(n, t)

Spec == Init /\ [][Next]_vars

-----------------------------------------------------------------------------
(* Properties *)

NodeType ==
  [kind : {"Free", "Dir", "File"}, name : Component \cup {"", "/"}, parent : Node,
   off : 0 .. DATA_POOL, len : 0 .. DATA_POOL, cap : 0 .. DATA_POOL]

(* Nodes, blocks and the bump pointer stay within NODES and DATA *)
TypeOK ==
  /\ fs.nodes \in [Node -> NodeType]
  /\ fs.data \in [0 .. DATA_POOL - 1 -> Byte]
  /\ fs.next \in 0 .. DATA_POOL
  /\ cwd \in Node

Used(n) == fs.nodes[n].kind # "Free"

(* The nodes are a tree of directories below the root: no file has          *)
(* children, no child outlives its directory, nothing hangs in a cycle, so  *)
(* that rm_recursive, tree and du end.                                      *)
Tree ==
  /\ fs.nodes[ROOT].kind = "Dir" /\ fs.nodes[ROOT].parent = ROOT
  /\ \A n \in Node : Used(n) =>
       /\ fs.nodes[fs.nodes[n].parent].kind = "Dir"
       /\ ROOT \in Ancestors(fs, n)

Deep(n) == ROOT \notin {Up(fs, n)[k] : k \in 0 .. MAX_CHAIN}
Long(n) == LET names == Chain(fs, n) IN ~(Bytes(names)[Len(names)] <= PATH_BUF)
Dotted(n) == \E a \in Ancestors(fs, n) : fs.nodes[a].name \in {".", ".."}

(* The path that path_of prints for a node leads resolve back to that node, *)
(* from whichever directory: no two siblings share a name.  Excepted are    *)
(* directories that were given the name . or .., chains longer than         *)
(* path_of's array and paths longer than its buffer.                        *)
PathsResolve ==
  \A n \in Node : (Used(n) /\ ~Dotted(n) /\ ~Deep(n) /\ ~Long(n))
                     => ResolveFrom(fs, ROOT, PathOf(fs, n)) = n

(* A file reads back as what was last written to it, whatever is written,   *)
(* copied, moved or removed besides it: blocks never overlap, also when a   *)
(* file shrinks and grows again in place, and when the pool is full.        *)
FilesKeepContents ==
  \A n \in Node : fs.nodes[n].kind = "File" => FsRead(fs, n) = fs.stored[n]
=============================================================================
