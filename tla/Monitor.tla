------------------------------ MODULE Monitor ------------------------------
(***************************************************************************)
(* The monitor (libk/monitor.cpp): it reads a line, splits it and runs the *)
(* command of that name.  Those that work on files are steps here, one for *)
(* each call of the VFS, with the ELF reader (process/elf.cpp) as one of   *)
(* them; the others only print, but for listh, which takes the second      *)
(* mount point as it is.  The line's characters come from getch (Stdin).   *)
(***************************************************************************)
EXTENDS Mount

CONSTANTS
  Lines,        \* what is typed
  Value,        \* of a character, its distance from '0'
  Executables,  \* the entries that are ELF files with a table of symbols
  nothing

Space == " "

ASSUME MonitorAssumption ==
  /\ Executables \subseteq Vnodes
  /\ Lines \subseteq Seq(Bytes) /\ \A line \in Lines : Len(line) < Word
  /\ Value \in [Bytes -> Int]

VARIABLES
  args,   \* the pieces of the line, the command first
  fd,     \* the number of the descriptor the command works with
  shown   \* the contents it has printed: of which file, and how many were asked for

monitorVars == <<args, fd, shown>>
allVars == <<vars, treeVars, pc, monitorVars>>

MonitorInit == MountInit /\ args = <<>> /\ fd = nothing /\ shown = nothing

(***************************************************************************)
(* The prompt.                                                             *)
(***************************************************************************)
strsplit(line) == Tokens(line, Space)

\* An empty line is dropped; one of spaces has no pieces, and pop_head follows the
\* head of the empty vector.
Enter(line) ==
  LET split_cmd == strsplit(line)
  IN  /\ Running /\ pc = "prompt"
      /\ line # <<>>
      /\ shown' = nothing
      /\ IF split_cmd = <<>>
         THEN status' = "panic" /\ UNCHANGED <<pc, args>>
         ELSE pc' = "run" /\ args' = split_cmd /\ UNCHANGED status
      /\ UNCHANGED <<treeVars, fd, open_fds, size, driver, content>>

Command == args[1][1]
Given == Len(args) - 1
Arg(i) == args[i + 1]

\* The line names one of these commands.
Runs(commands) == Running /\ pc = "run" /\ args[1] \in {<<c>> : c \in commands}
Prompt == pc' = "prompt" /\ args' = <<>> /\ fd' = nothing

\* "usage", a message, or a table is printed.
JustPrints == Prompt /\ UNCHANGED <<treeVars, vars, shown>>

\* stat of a path that is not there: lookup returns no value, and what is in the
\* register is nullptr, or is followed.
NotThere == Prompt /\ OpenMissing /\ UNCHANGED <<treeVars, shown>>

Panics ==
  /\ status' = "panic"
  /\ UNCHANGED <<pc, treeVars, monitorVars, open_fds, size, driver, content>>

Found(path) == lookup(path) # missing
IsDirectory(v) == v \in {Root} \cup {w \in Vnodes : IsDir(w)}

\* The descriptor of the command.
Desc == CHOOSE d \in open_fds : d.fd = fd

(***************************************************************************)
(* Commands without descriptors.                                           *)
(***************************************************************************)
\* Of sections and programtable the same is left as of symbols: their tables are printed.
ElfCommands == {"symbols", "readelf"}

\* Those that have an action of their own.
OwnSteps ==
  {"inttest", "listh", "stat", "ls", "read", "write", "ropen"}
  \cup ElfCommands

\* The other commands print; what is none does nothing.
PrintOnly ==
  /\ Running /\ pc = "run" /\ args[1] \notin {<<c>> : c \in OwnSteps}
  /\ JustPrints

\* Divides by zero, for the sake of kpanic (Boot).
InterruptTest == Runs({"inttest"}) /\ Panics

\* mountpoints().at(1) is there only if the archive is.
ListHeaders ==
  /\ Runs({"listh"})
  /\ IF root = "initrd" THEN JustPrints ELSE Panics

\* The path of statcat is a fixed one, as are those of lsroot and lbin.
Stat ==
  /\ Runs({"stat"})
  /\ IF Given < 1 \/ Found(Arg(1)) THEN JustPrints ELSE NotThere

\* ls: readdir.
List ==
  /\ Runs({"ls"})
  /\ IF Given < 1 \/ Found(Arg(1)) THEN JustPrints ELSE NotThere

\* atoi, as it is cast to an unsigned integer: characters taken for digits, those below
\* '0' for negative ones.  A sign is skipped: that of a negative number is not applied.
atoi(token) ==
  LET digits == IF token[1] \in {"-", "+"} THEN Tail(token) ELSE token
      number[n \in 0 .. Len(digits)] ==
        IF n = 0 THEN 0 ELSE number[n - 1] * 10 + Value[digits[n]]
  IN  number[Len(digits)] % Word

\* Mutant of DriverRead: the header is looked for at the place mount gave it.
DriverReadByPlace(v, count) ==
  IF v = Root THEN <<>> ELSE ReadBytes(headers[v], count)

\* What the driver copies of entry v.
DriverRead(v, count) ==
  LET i == get_header_by_inode(headers, v)
  IN  IF i = 0 THEN <<>> ELSE ReadBytes(headers[i], count)

\* A buffer of count + 1 bytes, none if that wraps around, for what is read and the end
\* of the string.
Fits(bytes, count) == Len(bytes) + 1 <= (count + 1) % Word

\* read: by the inode, without a descriptor.  The root's has no header, and before the
\* archive is mounted no file system.
ReadInode ==
  /\ Runs({"read"})
  /\ LET v == lookup(Arg(1))
         count == atoi(Arg(2))
         bytes == DriverRead(v, count)
     IN  CASE Given # 2 -> JustPrints
           [] Given = 2 /\ v = missing -> NotThere
           [] Given = 2 /\ v = Root /\ root # "initrd" -> Panics
           [] OTHER ->
                /\ Prompt
                /\ shown' = IF IsDirectory(v) THEN nothing
                            ELSE [vnode |-> v, count |-> count, bytes |-> bytes]
                /\ status' = IF Fits(bytes, count) THEN status ELSE "overrun"
                /\ UNCHANGED <<treeVars, open_fds, size, driver, content>>

(***************************************************************************)
(* write, ropen and the commands about executables open their file first.  *)
(***************************************************************************)
Enough ==
  \/ Command \in {"write", "ropen"} /\ Given = 2
  \/ Command \in ElfCommands /\ Given >= 1

OpenFile ==
  /\ Runs({"write", "ropen"} \cup ElfCommands)
  /\ CASE ~Enough -> JustPrints
       [] Enough /\ ~Found(Arg(1)) -> NotThere
       [] OTHER ->
            /\ Open(lookup(Arg(1)))
            /\ IF Running'
               THEN fd' \in {d.fd : d \in open_fds' \ open_fds} /\ pc' = Command
               ELSE UNCHANGED <<fd, pc>>
            /\ UNCHANGED <<treeVars, args, shown>>

\* The calls of read and write to a directory do nothing.
SkipDirectory ==
  /\ Running /\ pc \in {"write", "ropen"}
  /\ IsDirectory(Desc.vnode)
  /\ pc' = "close"
  /\ UNCHANGED <<treeVars, monitorVars, vars>>

WriteFile ==
  /\ Go("write", "close")
  /\ ~IsDirectory(Desc.vnode)
  /\ Write(Desc, Arg(2))
  /\ UNCHANGED <<treeVars, monitorVars>>

\* The command ends here, with its descriptor open.
WriteError ==
  /\ Running /\ pc = "write"
  /\ ~IsDirectory(Desc.vnode)
  /\ WriteFails(Desc)
  /\ Prompt
  /\ UNCHANGED <<treeVars, shown>>

ReadFile ==
  LET v == Desc.vnode
      count == atoi(Arg(2))
      bytes == DriverRead(v, count)
  IN  /\ Go("ropen", "close")
      /\ ~IsDirectory(v)
      /\ IF Fits(bytes, count)
         THEN Read(Desc, count)
         ELSE /\ status' = "overrun"
              /\ UNCHANGED <<open_fds, size, driver, content>>
      /\ shown' = [vnode |-> v, count |-> count, bytes |-> bytes]
      /\ UNCHANGED <<treeVars, args, fd>>

\* Executable(path), the tables that are printed (readelf waits for a key in between), and
\* what its destructor frees.  The file is read whole.  Its tables are found through offsets in the file that nothing
\* checks: of one that is no executable, or whose read fails, they are anything.  The
\* number of symbols is set by their section: without it the loop has no bound.
WellFormed(v) ==
  v \in Executables /\ DriverRead(v, size[v]) = Archive[v]

ReadTables ==
  /\ Running /\ pc \in ElfCommands
  /\ pc' = "close"
  /\ IF IsDirectory(Desc.vnode) \/ ~WellFormed(Desc.vnode)
     THEN /\ status' \in {"running", "wild pointer"}
          /\ UNCHANGED <<open_fds, size, driver, content>>
     ELSE Read(Desc, size[Desc.vnode])
  /\ UNCHANGED <<treeVars, monitorVars>>

\* Mutant of CloseFile: what was read is printed, and the command returns.
ReturnAfterPrinting ==
  /\ Running /\ pc = "close"
  /\ IF shown = nothing THEN Close(Desc) ELSE UNCHANGED vars
  /\ Prompt
  /\ UNCHANGED <<treeVars, shown>>

CloseFile ==
  /\ Running /\ pc = "close"
  /\ Close(Desc)
  /\ Prompt
  /\ UNCHANGED <<treeVars, shown>>

MonitorEnded == Ended /\ UNCHANGED allVars

MonitorNext ==
  \/ MountNext /\ UNCHANGED monitorVars
  \/ \E line \in Lines : Enter(line)
  \/ PrintOnly \/ InterruptTest \/ ListHeaders \/ Stat \/ List \/ ReadInode
  \/ OpenFile \/ SkipDirectory \/ WriteFile \/ WriteError \/ ReadFile \/ ReadTables
  \/ CloseFile
  \/ MonitorEnded

MonitorSpec == MonitorInit /\ [][MonitorNext]_allVars
-----------------------------------------------------------------------------
(***************************************************************************)
(* Properties.                                                             *)
(***************************************************************************)
\* Between two commands no descriptor is open: read, write and the ELF reader give
\* theirs back, however they end, unless the driver has lost a file's header to another
\* of the same name, or to a name that was overwritten.  Then write returns without closing (monitor.cpp:190).
NothingLeftOpen == pc = "prompt" /\ Running /\ ~mixed_up => open_fds = {}

\* What read and ropen print is what the commands before have written, as far as the
\* file goes and no more was asked for, whatever files the driver has moved.
ShownAsWritten ==
  shown # nothing /\ Running /\ ~mixed_up =>
    LET n == Min({shown.count, size[shown.vnode]})
    IN  /\ Len(shown.bytes) >= n
        /\ SubSeq(shown.bytes, 1, n) = SubSeq(content[shown.vnode], 1, n)
=============================================================================
