------------------------------- MODULE Mount -------------------------------
(***************************************************************************)
(* How the tree of the VFS is made: VFS::init, the initrd driver's install *)
(* and mount (drivers/initrd.cpp), attach, and the walk along a path       *)
(* (vfs/vfs.cpp).  A vnode is known by the number of its inode: 0 is the   *)
(* root, the others are the entries of the archive (Files).  A path is a   *)
(* sequence of characters, as many as it takes to tell names from each     *)
(* other and from what is left of them without their last character.       *)
(***************************************************************************)
EXTENDS Files

CONSTANTS
  Paths,    \* the entries' names in the archive
  missing   \* no vnode

Root == 0
Slash == "/"

\* strsplit and split_path: the pieces of s between delimiters, without empty ones.  A
\* delimiter, or the end, ends the piece that is read.
PieceEnded(t) ==
  IF t.piece = <<>> THEN t
  ELSE [pieces |-> Append(t.pieces, t.piece), piece |-> <<>>]

Taken(t, c, delim) ==
  IF c = delim THEN PieceEnded(t) ELSE [t EXCEPT !.piece = Append(@, c)]

TakenFrom(s, delim) ==
  LET taken[n \in 0 .. Len(s)] ==
        IF n = 0 THEN [pieces |-> <<>>, piece |-> <<>>] ELSE Taken(taken[n - 1], s[n], delim)
  IN  taken[Len(s)]

Tokens(s, delim) == PieceEnded(TakenFrom(s, delim)).pieces

split_path(path) == Tokens(path, Slash)

\* tar ends the name of a directory, and of no file, in a slash.
IsEmptyFile(v) == IsDir(v) /\ Last(Paths[v]) # Slash

\* What mount makes of the name of an entry without contents.
full_path(v) == IF IsDir(v) THEN Front(Paths[v]) ELSE Paths[v]

\* The first entry of a name.
FirstCalled(path) == Min({v \in Vnodes : full_path(v) = path})

\* The path up to its last slash.
parent_path(path) ==
  LET slashes == {i \in DOMAIN path : path[i] = Slash}
  IN  IF slashes = {} THEN <<>> ELSE SubSeq(path, 1, Max(slashes) - 1)

\* The archive is one that tar makes: a directory comes before what is in it, names do
\* not begin with a slash and have no two in a row.  The last piece of the name of a file
\* without contents has more than one character: what is left is a name as well, maybe that
\* of another entry.  mount cuts the names where they are, in the headers.
ASSUME MountAssumption ==
  /\ Paths \in [Vnodes -> Seq(Bytes)]
  /\ Slash \in Bytes
  /\ Names = [v \in Vnodes |-> full_path(v)]
  /\ \A v \in Vnodes :
       /\ Paths[v] # <<>> /\ Paths[v][1] # Slash
       /\ full_path(v) # <<>> /\ Last(full_path(v)) # Slash
       /\ \/ parent_path(full_path(v)) = <<>>
          \/ \E w \in 1 .. v - 1 : full_path(w) = parent_path(full_path(v))
  /\ missing \notin Nat /\ missing # "initrd"

\* What tar writes: each header is followed by the contents, in whole blocks, and the
\* last one by blocks of zeros.
DataBlock == 0
ZeroBlock == -1
DataBlocks(v) == (Len(Archive[v]) + Block - 1) \div Block

\* The place behind each entry: there the next one starts, or the end.
Ends[v \in 0 .. Len(Archive)] == IF v = 0 THEN 0 ELSE Ends[v - 1] + 1 + DataBlocks(v)

ImageBlock(place) ==
  CASE \E v \in Vnodes : Ends[v - 1] = place -> CHOOSE v \in Vnodes : Ends[v - 1] = place
    [] place - Ends[Len(Archive)] \in {0, 1} -> ZeroBlock
    [] OTHER -> DataBlock

VARIABLES
  pc,        \* what the kernel's thread does next
  root,      \* vfs().root: whose root the VFS starts at
  at,        \* the block read_header looks at
  listed,    \* the headers it has found, then those mount has not come to
  children,  \* of the vnodes, in the order they were added
  vname      \* the vnodes' names

treeVars == <<root, at, listed, children, vname>>

MountInit ==
  /\ Init
  /\ pc = "vfs_init"
  /\ root = missing
  /\ at = 0 /\ listed = <<>>
  /\ children = [v \in Vnodes \cup {Root} |-> <<>>]
  /\ vname = [v \in Vnodes |-> <<>>]

Go(from, to) == Running /\ pc = from /\ pc' = to

(***************************************************************************)
(* find and lookup.                                                        *)
(***************************************************************************)
Child(v, name) ==
  LET i == SelectInSeq(children[v], LAMBDA c : vname[c] = name)
  IN  IF i = 0 THEN missing ELSE children[v][i]

Step(v, name) == IF v = missing THEN missing ELSE Child(v, name)

Walk(names) ==
  LET walk[n \in 0 .. Len(names)] == IF n = 0 THEN Root ELSE Step(walk[n - 1], names[n])
  IN  walk[Len(names)]

\* From the root of the archive's tree.  Without the slash in front, or a child of the
\* name, find and lookup return no value.
find(path) ==
  IF path = <<>> \/ path[1] # Slash THEN missing ELSE Walk(split_path(path))

\* From the root of the VFS; that of prepare_sysroot has no children.
lookup(path) ==
  LET v == find(path)
  IN  IF root = "initrd" \/ v = Root THEN v ELSE missing

(***************************************************************************)
(* VFS::init.  attach deletes the root there was, and VFS_t() has not set  *)
(* it: what is deleted is what the heap's memory contains.                 *)
(***************************************************************************)
InitVFS ==
  /\ Go("vfs_init", "install")
  /\ root' = "sysroot"
  /\ status' \in {"running", "wild pointer"}
  /\ UNCHANGED <<at, listed, children, vname, open_fds, size, driver, content>>

(***************************************************************************)
(* install, with the three answers a boot loader has.                      *)
(***************************************************************************)
\* The module of the command line "initrd".
InstallModule ==
  /\ Go("install", "headers")
  /\ UNCHANGED <<treeVars, vars>>

\* No module at all: the driver is not enabled, and nothing is mounted.
InstallNothing ==
  /\ Go("install", "prompt")
  /\ UNCHANGED <<treeVars, vars>>

\* Other modules only: the driver is enabled with an address that was never set.
InstallOther ==
  /\ Go("install", "headers")
  /\ status' = "wild pointer"
  /\ UNCHANGED <<treeVars, open_fds, size, driver, content>>

(***************************************************************************)
(* mount: the headers first, then the vnodes.                              *)
(***************************************************************************)
\* Mutant of BlocksOf: contents of whole blocks are given another one.
BlocksOfRounded(bytes) == bytes \div Block + 2

\* The blocks from a header to the next one.
BlocksOf(bytes) == bytes \div Block + 1 + IF bytes % Block # 0 THEN 1 ELSE 0

\* read_header; from contents taken for a header, the walk goes anywhere.
ReadHeader ==
  LET block == ImageBlock(at)
  IN  /\ Running /\ pc = "headers"
      /\ CASE block = ZeroBlock ->
                /\ pc' = "mount"
                /\ UNCHANGED <<at, listed, status>>
           [] block = DataBlock ->
                /\ status' = "wild pointer"
                /\ UNCHANGED <<pc, at, listed>>
           [] OTHER ->
                /\ listed' = Append(listed, block)
                /\ at' = at + BlocksOf(ParseSize(headers[block].size))
                /\ UNCHANGED <<pc, status>>
      /\ UNCHANGED <<root, children, vname, open_fds, size, driver, content>>

\* One entry: its vnode is named by the last piece of its path, and added to the
\* parent.  A path of no pieces, or whose parent is not there, ends in a pointer that
\* is none.
MountEntry ==
  /\ Running /\ pc = "mount" /\ listed # <<>>
  /\ LET v == Head(listed)
         split_name == split_path(full_path(v))
         parent == find(<<Slash>> \o parent_path(full_path(v)))
     IN  IF split_name = <<>> \/ parent = missing
         THEN status' = "wild pointer" /\ UNCHANGED <<children, vname>>
         ELSE /\ vname' = [vname EXCEPT ![v] = Last(split_name)]
              /\ children' = [children EXCEPT ![parent] = Append(@, v)]
              /\ UNCHANGED status
  /\ listed' = Tail(listed)
  /\ UNCHANGED <<pc, root, at, open_fds, size, driver, content>>

\* attach: the archive's root takes the place of the one that was there.
Attach ==
  /\ listed = <<>>
  /\ Go("mount", "prompt")
  /\ root' = "initrd"
  /\ UNCHANGED <<at, listed, children, vname, vars>>

MountNext ==
  \/ InitVFS
  \/ InstallModule \/ InstallNothing \/ InstallOther
  \/ ReadHeader \/ MountEntry \/ Attach

(***************************************************************************)
(* Properties.                                                             *)
(***************************************************************************)
\* The walk from header to header meets no contents, and every parent is there before
\* its children, however entries of no, of whole and of broken blocks follow one another.
\* Once mounted, each directory and file of the archive is found under the path it has
\* there, unless an earlier entry has come to the same name: mount takes files without
\* contents for directories and cuts off the last character of their names
\* (drivers/initrd.cpp:228-240).  Under those names they are found, and hide what comes
\* behind them, but what is in a hidden directory is found all the same.
EntriesFound ==
  /\ pc \in {"headers", "mount"} /\ listed # <<>> => Running
  /\ root = "initrd" =>
       \A v \in Vnodes :
         /\ lookup(<<Slash>> \o full_path(v)) = FirstCalled(full_path(v))
         /\ ~IsEmptyFile(v) => lookup(<<Slash>> \o Paths[v]) = FirstCalled(full_path(v))
=============================================================================
