------------------------------- MODULE Files -------------------------------
(***************************************************************************)
(* Files: descriptors and positions of the VFS (vfs/vfs.cpp), and the      *)
(* initrd driver behind them (drivers/initrd.cpp), which keeps a file as   *)
(* a tar header with the data behind it.  A write that stays within the    *)
(* file changes it in place; one that ends behind it drops the header,     *)
(* makes a new file in memory of the heap and copies the old data over.    *)
(*                                                                         *)
(* The system starts with the archive mounted: its entry i has the inode   *)
(* number i.  The names in the headers are only compared, and more than    *)
(* one header can have the same (Mount).  The vnodes' lists of streams,    *)
(* which nothing reads, are left out.                                      *)
(***************************************************************************)
EXTENDS Integers, Sequences, SequencesExt, FiniteSetsExt

CONSTANTS
  Archive,        \* the contents of the entries of the archive, in their order
  Names,          \* the names of the entries, as they are left in the headers
  Bytes,          \* what files consist of
  Data,           \* what one call writes
  Counts,         \* how many bytes one call reads
  Offsets,        \* what is passed to seek
  Block,          \* tar's block size
  Digits,         \* the digits of the size field of a tar header
  Word,           \* 2 to the width of an unsigned integer
  MaxSize,        \* bound of the model: no file grows longer
  MaxFd,          \* INT_MAX
  Unknown,        \* a byte nobody has written
  Junk            \* a name that was overwritten

\* mount takes an entry without contents for a directory.
Vnodes == DOMAIN Archive
IsDir(v) == Archive[v] = <<>>

\* 8 to the power of k: what counts the byte with k others to its right.
Weight[k \in 0 .. Digits] == IF k = 0 THEN 1 ELSE 8 * Weight[k - 1]

\* Sizes fit the field of a header, and what is in the field a word.  With two digits,
\* a 6 that is written to the left would be read as 0.
ASSUME FilesAssumption ==
  /\ Archive \in Seq(Seq(Bytes))
  /\ DOMAIN Names = Vnodes
  /\ Unknown \notin Bytes /\ Junk \notin Range(Names)
  /\ Digits \in Nat /\ Digits >= 3
  /\ MaxSize \in Nat /\ MaxSize < Weight[Digits]
  /\ Word \in Nat /\ Weight[Digits] <= Word
  /\ \A v \in Vnodes : Len(Archive[v]) <= MaxSize
  /\ Block \in Nat \ {0} /\ MaxFd \in Nat
  /\ Data \subseteq Seq(Bytes) /\ \A bytes \in Data : Len(bytes) < Word
  /\ Counts \subseteq 0 .. Word - 1 /\ Offsets \subseteq 0 .. Word - 1

VARIABLES
  open_fds,  \* the open descriptors
  size,      \* the inodes' sizes
  headers,   \* the driver's vector of headers, each with the data behind it
  status,    \* "running", or how the kernel came to an end
  content,   \* what the files should contain
  mixed_up   \* the driver has removed another header than it was to

driver == <<headers, mixed_up>>
vars == <<open_fds, size, driver, status, content>>

(***************************************************************************)
(* Sizes in headers are octal.                                             *)
(***************************************************************************)
\* The digit of n with so many others to its right; '0' is 48.
OctalDigit(n, place) == 48 + ((n \div Weight[place]) % 8)

\* A header of the archive has leading zeros.
Padded(n) == [i \in 1 .. Digits |-> OctalDigit(n, Digits - i)]

\* to_octal, copied into a field of zero bytes: the first digit is at the left.
ToOctal(n) ==
  LET len == CHOOSE k \in 1 .. Digits : n < Weight[k] /\ (k > 1 => n >= Weight[k - 1])
  IN  [i \in 1 .. Digits |-> IF i <= len THEN OctalDigit(n, len - i) ELSE 0]

\* parse_size, from the right: all digits of the field count, a zero byte as -48.  A
\* shorter number than the field is read as a greater one: for k of Digits digits, d zero
\* bytes behind them make of n the number 8^d * (n - 48/7) + 48/7, which is at least n
\* from 7 on, and negative below, that is, near Word.
ParseSize(field) ==
  LET parsed[k \in 0 .. Digits] ==
        IF k = 0 THEN 0
        ELSE parsed[k - 1] + (field[Digits - k + 1] - 48) * Weight[k - 1]
  IN  parsed[Digits] % Word

RoundUp(n) == ((n + Block - 1) \div Block) * Block

Header(name, inode_num, field, allocated, data) ==
  [name |-> name, inode_num |-> inode_num, size |-> field,
   driver_allocated |-> allocated, data |-> data]

\* Memory of whole blocks that starts with the given bytes.
InBlocks(bytes) ==
  [p \in 1 .. RoundUp(Len(bytes)) |-> IF p <= Len(bytes) THEN bytes[p] ELSE Unknown]

Init ==
  /\ open_fds = {}
  /\ size = [v \in Vnodes |-> Len(Archive[v])]
  /\ headers = [v \in Vnodes |->
                  Header(Names[v], v, Padded(Len(Archive[v])), FALSE, InBlocks(Archive[v]))]
  /\ status = "running"
  /\ content = Archive
  /\ mixed_up = FALSE

(***************************************************************************)
(* The driver.                                                             *)
(***************************************************************************)
\* The index of the first header of inode v, 0 if there is none.
get_header_by_inode(hs, v) == SelectInSeq(hs, LAMBDA h : h.inode_num = v)

\* What read copies: no more than the header says, and no more than asked for.
\* Behind the data comes memory nobody knows.
ReadCount(h, count) == Min({count, ParseSize(h.size)})
ReadBytes(h, count) ==
  [p \in 1 .. ReadCount(h, count) |-> IF p <= Len(h.data) THEN h.data[p] ELSE Unknown]

\* memcpy to a place in memory.
Overwritten(memory, offset, bytes) ==
  [p \in DOMAIN memory |->
     IF p > offset /\ p <= offset + Len(bytes) THEN bytes[p - offset] ELSE memory[p]]

\* The names create can find where the name of the removed header was: the one
\* passed to it points into that header.  If remove has deleted the header, the
\* strings create allocates before it copies the name can have come to lie there.
NameLeft(i, j) ==
  IF i = j /\ headers[i].driver_allocated THEN {headers[i].name, Junk}
  ELSE {headers[i].name}

\* remove drops the first header with the name of header i.
Removed(i) == SelectInSeq(headers, LAMBDA h : h.name = headers[i].name)

\* The headers once the file has been made anew with a new size.
Recreated(i, j, name, new_size) ==
  Append(RemoveAt(headers, j),
         Header(name, headers[i].inode_num, ToOctal(new_size), TRUE,
                [p \in 1 .. RoundUp(new_size) |-> Unknown]))

\* Mutant of OldData: the old data are not copied.
OldDataLost(i, v, new_size) == [p \in 1 .. new_size |-> Unknown]

\* The old data, read into a temporary buffer, in the place of the new header.
\* The copy has the new length.
OldData(i, v, new_size) ==
  LET tmp == ReadBytes(headers[i], size[v])
  IN  [p \in 1 .. new_size |-> IF p <= Len(tmp) THEN tmp[p] ELSE Unknown]

\* bytes > (ino->size - offset), on unsigned integers.
Extends(v, offset, bytes) == Len(bytes) > (size[v] - offset) % Word

WriteInPlace(v, i, offset, bytes) ==
  /\ headers' = [headers EXCEPT ![i].data = Overwritten(@, offset, bytes)]
  /\ UNCHANGED <<size, mixed_up, status>>

\* Mutant of NewSize: the offset is forgotten.
NewSizeOfBytes(offset, bytes) == Len(bytes)

NewSize(offset, bytes) == offset + Len(bytes)

\* If the header found afterwards is an old one, the copy can run over its end;
\* what becomes of the heap then is not modelled.
WriteExtending(v, i, offset, bytes) ==
  LET j == Removed(i)
      new_size == NewSize(offset, bytes)
  IN  /\ new_size <= MaxSize
      /\ size' = [size EXCEPT ![v] = new_size]
      /\ mixed_up' = (mixed_up \/ j # i)
      /\ \E name \in NameLeft(i, j) :
           LET hs == Recreated(i, j, name, new_size)
               k == get_header_by_inode(hs, v)
               copied == Overwritten(hs[k].data, 0, OldData(i, v, new_size))
           IN  IF new_size > Len(hs[k].data)
               THEN status' = "overrun" /\ UNCHANGED headers
               ELSE /\ headers' = [hs EXCEPT ![k].data = Overwritten(copied, offset, bytes)]
                    /\ UNCHANGED status

(***************************************************************************)
(* Descriptors.  Their numbers are distinct (DescriptorsDistinct), so that *)
(* their order in the vector does not matter to get_fd.                    *)
(***************************************************************************)
Running == status = "running"

Descriptor(fd, vnode, position) == [fd |-> fd, vnode |-> vnode, position |-> position]
Numbers == {d.fd : d \in open_fds}

\* file_descriptor_t::seek, on unsigned integers.
SeekBy(d, bytes) ==
  LET p == (d.position + bytes) % Word
  IN  IF p > size'[d.vnode] THEN size'[d.vnode] ELSE p

Reposition(d, position) ==
  open_fds' = (open_fds \ {d}) \cup {[d EXCEPT !.position = position]}

\* The first number that is free.
find_free_fd(fd) == fd \notin Numbers /\ 0 .. fd - 1 \subseteq Numbers

\* open of a path that exists; out of descriptors, the kernel halts.
Open(v) ==
  /\ Running
  /\ \/ \E fd \in 0 .. MaxFd - 1 :
          /\ find_free_fd(fd)
          /\ open_fds' = open_fds \cup {Descriptor(fd, v, 0)}
          /\ UNCHANGED status
     \/ /\ 0 .. MaxFd - 1 \subseteq Numbers
        /\ status' = "halted"
        /\ UNCHANGED open_fds
  /\ UNCHANGED <<size, driver, content>>

\* open of a path that does not: lookup returns without a value, and what its
\* caller finds in the register is nullptr, or is followed as a pointer.
OpenMissing ==
  /\ Running
  /\ status' \in {"running", "wild pointer"}
  /\ UNCHANGED <<open_fds, size, driver, content>>

Close(d) ==
  /\ Running
  /\ open_fds' = open_fds \ {d}
  /\ UNCHANGED <<size, driver, status, content>>

\* Mutant of SeekTarget: only the offset is checked.
SeekTargetUnchecked(d, offset, whence) ==
  IF offset > size[d.vnode] THEN -1
  ELSE CASE whence = "SEEK_SET" -> offset
         [] whence = "SEEK_CUR" -> (offset + d.position) % Word
         [] whence = "SEEK_END" -> (offset + size[d.vnode]) % Word

\* The position seek moves to, or -1.
SeekTarget(d, offset, whence) ==
  LET p == CASE whence = "SEEK_SET" -> offset
             [] whence = "SEEK_CUR" -> (offset + d.position) % Word
             [] whence = "SEEK_END" -> (offset + size[d.vnode]) % Word
  IN  IF p > size[d.vnode] THEN -1 ELSE p

Seek(d, offset, whence) ==
  LET p == SeekTarget(d, offset, whence)
  IN  /\ Running
      /\ IF p = -1 THEN UNCHANGED open_fds ELSE Reposition(d, p)
      /\ UNCHANGED <<size, driver, status, content>>

\* read of a file; of a directory it does nothing.  The driver reads from the
\* start, whatever the position, which then moves on by what was read.
Read(d, count) ==
  LET i == get_header_by_inode(headers, d.vnode)
  IN  /\ Running /\ ~IsDir(d.vnode)
      /\ UNCHANGED <<size, driver, status, content>>
      /\ \E ret \in 0 .. count :
           /\ ret = IF i = 0 THEN 0 ELSE ReadCount(headers[i], count)
           /\ Reposition(d, SeekBy(d, ret))

\* What a file should contain after a write; a gap would hold nothing known.
Updated(bytes_before, offset, bytes) ==
  [p \in 1 .. Max({Len(bytes_before), offset + Len(bytes)}) |->
     IF p > offset /\ p <= offset + Len(bytes) THEN bytes[p - offset]
     ELSE IF p <= Len(bytes_before) THEN bytes_before[p] ELSE Unknown]

\* The driver has no header for the inode: -1, and seek(-1).
WriteFails(d) ==
  /\ Running /\ ~IsDir(d.vnode)
  /\ get_header_by_inode(headers, d.vnode) = 0
  /\ UNCHANGED <<size, driver, status, content>>
  /\ Reposition(d, SeekBy(d, Word - 1))

\* write to a file; to a directory it does nothing.
Write(d, bytes) ==
  LET v == d.vnode
      i == get_header_by_inode(headers, v)
  IN  /\ Running /\ ~IsDir(v)
      /\ i # 0
      /\ IF Extends(v, d.position, bytes)
         THEN WriteExtending(v, i, d.position, bytes)
         ELSE WriteInPlace(v, i, d.position, bytes)
      /\ content' = [content EXCEPT ![v] = Updated(@, d.position, bytes)]
      /\ Reposition(d, SeekBy(d, Len(bytes)))

Ended == ~Running /\ UNCHANGED vars

Next ==
  \/ \E v \in Vnodes : Open(v)
  \/ OpenMissing
  \/ \E d \in open_fds :
       \/ Close(d)
       \/ \E offset \in Offsets, whence \in {"SEEK_SET", "SEEK_CUR", "SEEK_END"} :
            Seek(d, offset, whence)
       \/ \E n \in Counts : Read(d, n)
       \/ \E bytes \in Data : Write(d, bytes)
       \/ WriteFails(d)
  \/ Ended

Spec == Init /\ [][Next]_vars
-----------------------------------------------------------------------------
(***************************************************************************)
(* Properties.                                                             *)
(***************************************************************************)
\* Descriptors, inodes, headers and what the files should contain.
TypeOK ==
  /\ open_fds \subseteq [fd : 0 .. MaxFd - 1, vnode : Vnodes, position : 0 .. MaxSize]
  /\ size \in [Vnodes -> 0 .. MaxSize]
  /\ headers \in Seq([name : Range(Names) \cup {Junk}, inode_num : Vnodes,
                      size : [1 .. Digits -> Nat], driver_allocated : BOOLEAN,
                      data : Seq(Bytes \cup {Unknown})])
  /\ status \in {"running", "halted", "wild pointer", "overrun"}
  /\ content \in [Vnodes -> Seq(Bytes)]
  /\ mixed_up \in BOOLEAN

\* However descriptors are opened and closed, and their numbers used again, no
\* two open ones share a number: a call reaches the file its number was opened on.
DescriptorsDistinct == \A d, e \in open_fds : d.fd = e.fd => d = e

\* No sequence of seeks (also by negative offsets, which wrap around), reads, and
\* successful or failed writes, through any of several descriptors of a file, moves
\* a position behind the end of the file.  The unsigned difference of the two
\* in the driver's write relies on it.
PositionWithinFile == \A d \in open_fds : d.position <= size[d.vnode]

\* A write, at whatever position, never shortens a file.
NeverShorter == [][\A v \in Vnodes : size'[v] >= size[v]]_vars

\* Every file can be read, whole and as it was written through all of its
\* descriptors, also after it has been extended and moved any number of times, and
\* whatever was done to other files, unless the driver has removed the wrong header.
FilesIntact ==
  ~mixed_up /\ Running =>
    \A v \in Vnodes :
      LET i == get_header_by_inode(headers, v)
      IN  /\ i # 0
          /\ size[v] = Len(content[v])
          /\ ReadBytes(headers[i], size[v]) = content[v]
=============================================================================
