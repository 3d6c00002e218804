------------------------------- MODULE SataFs -------------------------------
(***************************************************************************)
(* The file server's file system on the disk: bin/fs/fs.c, and the         *)
(* requests of bin/fs/vfs.c that reach it.                                 *)
(*                                                                         *)
(* On the disk are three bitmaps, a table of inodes, a table of dentries   *)
(* and data blocks; open files live in the server's table handle_to_fd.    *)
(* The server is a single loop, so each request is one action.  init_fs    *)
(* formats the disk: nothing survives a restart.                           *)
(*                                                                         *)
(* Two dentries of 304 bytes share a sector of 512 bytes, so that the name *)
(* and number of an odd dentry (bytes 256 on) do not reach the disk.  They *)
(* stay behind in common_buf, which every access uses: what is read for    *)
(* any odd dentry is what was written last for some odd dentry.            *)
(*                                                                         *)
(* Left out: files of more than 8 blocks (four inodes of 144 bytes do not  *)
(* fit a sector either; the ninth block number of every fourth inode is    *)
(* lost the same way) and directories of more than 24 files.               *)
(***************************************************************************)
EXTENDS Integers, Sequences, FiniteSetsExt, SequencesExt

CONSTANTS
  Path,        \* the paths clients use
  Root,        \* "/"
  Up,          \* the directory part of each path
  Handle,      \* connections to the server
  BlockSize,   \* bytes of a block
  DataBits,    \* data blocks (bytes of the data bitmap)
  Formatted,   \* the first of them, which init_fs clears
  MaxFiles,    \* bound: files on the disk
  MaxPos,      \* bound: positions in a file
  Pattern,     \* the bytes clients write, a prefix of this sequence at a time
  Zero, None,
  Junk         \* a byte of a block that init_fs does not clear

ASSUME SataFsAssumption ==
  /\ Root \in Path /\ Up \in [Path -> Path \cup {None}]
  /\ {BlockSize, DataBits, Formatted, MaxFiles, MaxPos} \subseteq Nat /\ BlockSize > 0
  /\ MaxFiles \in 1 .. 24 /\ MaxPos < 8 * BlockSize
  /\ Pattern \in Seq(Range(Pattern)) /\ None \notin Nat

VARIABLES
  inode_bitmap, dentry_bitmap, data_bitmap,  \* numbers in use
  inodes,      \* file_len and i_data (its block_count is the length) of each inode
  dentries,    \* each dentry as the disk has it
  tail,        \* name and number of the odd dentry written last, in common_buf
  data,        \* the bytes of each data block
  handles,     \* handle_to_fd: the struct file or dentry_reader of each connection
  fault        \* TRUE: the server has crashed

disk == <<inode_bitmap, dentry_bitmap, data_bitmap, inodes, dentries, tail, data>>
vars == <<disk, handles, fault>>

Ino == 0 .. MaxFiles - 1
Block == 0 .. DataBits - 1

Odd(i) == i % 2 = 1
NoLabel == [name |-> None, id |-> 0]
Closed == [kind |-> "none", id |-> None, pos |-> 0]

-----------------------------------------------------------------------------
(* Dentries                                                                *)

\* get_dentry: name and number as read for dentry i.
Label(D, t, i) == IF Odd(i) THEN t ELSE [name |-> D[i].name, id |-> D[i].id]

\* Mutant: nothing of an odd dentry is stored.
StoredEven(D, i, s, l) ==
  IF Odd(i) THEN D ELSE [D EXCEPT ![i] = [name |-> l.name, id |-> l.id, subdirs |-> s]]

\* write_dentry of subdirectories s and label l as dentry i; D is the table, t
\* the end of common_buf.
Stored(D, i, s, l) ==
  [D EXCEPT ![i] = IF Odd(i) THEN [@ EXCEPT !.subdirs = s]
                   ELSE [name |-> l.name, id |-> l.id, subdirs |-> s]]
TailAfter(t, i, l) == IF Odd(i) THEN l ELSE t

\* The scan of sata_open, sata_get_parent and open_sata_dir: the first number
\* in use whose dentry reads as this name.
Named(bitmap, path) == {i \in bitmap : Label(dentries, tail, i).name = path}

-----------------------------------------------------------------------------
(* Requests                                                                *)

Runs == ~fault

FreeInode == Min(Ino \ inode_bitmap)

\* build_inode.
BuiltInode == [len |-> 0, blocks |-> <<>>]

FreeDentry == Min(Ino \ dentry_bitmap)

\* IO_OPEN of a file there is.
OpenFound(h, path) ==
  /\ Runs /\ handles[h] = Closed
  /\ Named(inode_bitmap, path) # {}
  /\ handles' = [handles EXCEPT ![h] =
       [kind |-> "file", id |-> Min(Named(inode_bitmap, path)), pos |-> 0]]
  /\ UNCHANGED <<disk, fault>>

\* IO_OPEN with O_CREAT of a file there is not: inode, dentry, and an entry in
\* the directory.  (Without O_CREAT, or without the directory, the request is
\* refused and nothing changes.)  The new dentry is put together in the server's
\* heap; an odd one (fs.c:164-165) behind the memory allocated for it, which may
\* be another object's: this damage is not modelled.
Create(h, path) ==
  LET i      == FreeInode
      d      == FreeDentry
      parent == Label(dentries, tail, Min(Named(inode_bitmap, Up[path]))).id
      label  == [name |-> path, id |-> d]
      D1     == Stored(dentries, d, <<>>, label)
      t1     == TailAfter(tail, d, label)
      plabel == Label(D1, t1, parent)
  IN  /\ Runs /\ handles[h] = Closed
      /\ Named(inode_bitmap, path) = {}
      /\ Up[path] # None /\ Named(inode_bitmap, Up[path]) # {}
      /\ Ino \ inode_bitmap # {}
      /\ inode_bitmap' = inode_bitmap \cup {i}
      /\ inodes' = [inodes EXCEPT ![i] = BuiltInode]
      /\ dentry_bitmap' = dentry_bitmap \cup {d}
      /\ dentries' = Stored(D1, parent, Append(D1[parent].subdirs, i), plabel)
      /\ tail' = TailAfter(t1, parent, plabel)
      /\ handles' = [handles EXCEPT ![h] = [kind |-> "file", id |-> i, pos |-> 0]]
      /\ UNCHANGED <<data_bitmap, data, fault>>

\* IO_OPENDIR and IO_READDIR.
OpenDir(h, path) ==
  /\ Runs /\ handles[h] = Closed
  /\ Named(dentry_bitmap, path) # {}
  /\ handles' = [handles EXCEPT ![h] =
       [kind |-> "dir", id |-> Min(Named(dentry_bitmap, path)), pos |-> 0]]
  /\ UNCHANGED <<disk, fault>>

ReadDir(h) ==
  /\ Runs /\ handles[h].kind = "dir"
  /\ handles[h].pos < Len(dentries[handles[h].id].subdirs)
  /\ handles' = [handles EXCEPT ![h].pos = @ + 1]
  /\ UNCHANGED <<disk, fault>>

\* close_handle: a client asks to open a second file on its connection.  (The
\* server never hears that the clients of a connection are gone, see Vfs.)
Close(h) ==
  /\ Runs /\ handles[h] # Closed
  /\ handles' = [handles EXCEPT ![h] = Closed]
  /\ UNCHANGED <<disk, fault>>

-----------------------------------------------------------------------------
(* Reading and writing                                                     *)

\* How read_sata_wrapper and write_sata_wrapper divide a transfer: n bytes from
\* byte number from of the buffer, at offset off of the file's block index.
Pieces(pos, count) ==
  LET first == pos \div BlockSize
      last == (pos + count) \div BlockSize
      head == BlockSize - (pos % BlockSize)
  IN  IF first = last THEN {[index |-> first, off |-> pos % BlockSize, from |-> 0, n |-> count]}
      ELSE {[index |-> first, off |-> pos % BlockSize, from |-> 0, n |-> head]}
           \cup {[index |-> i, off |-> 0, from |-> head + (i - first - 1) * BlockSize,
                  n |-> BlockSize] : i \in first + 1 .. last - 1}
           \cup {[index |-> last, off |-> 0, from |-> head + (last - first - 1) * BlockSize,
                  n |-> (pos + count) % BlockSize]}

\* Mutant: the last byte is never read.
ReadCountShort(i, pos, count) ==
  IF pos = inodes[i].len THEN 0
  ELSE IF pos + count >= inodes[i].len THEN inodes[i].len - pos - 1
  ELSE count

\* What read_sata_wrapper puts in the buffer, and its result.
ReadCount(i, pos, count) ==
  IF pos = inodes[i].len THEN 0
  ELSE IF pos + count >= inodes[i].len THEN inodes[i].len - pos
  ELSE count
ReadBuf(i, pos, count) ==
  LET n == ReadCount(i, pos, count)
      at(k) == CHOOSE p \in Pieces(pos, n) : p.from < k /\ k <= p.from + p.n
  IN  [k \in 1 .. n |-> data[inodes[i].blocks[at(k).index + 1]][at(k).off + k - at(k).from - 1]]

\* IO_READ.  Past the end of the file the count becomes negative: memcpy then
\* faults if the position and the end lie in one block; if not, the position
\* moves back to the end, and the client is told of an error.
Read(h, count) ==
  LET f == handles[h]
      n == ReadCount(f.id, f.pos, count)
  IN  /\ Runs /\ f.kind = "file"
      /\ IF n < 0 /\ f.pos \div BlockSize = (f.pos + n) \div BlockSize
         THEN fault' = TRUE /\ UNCHANGED handles
         ELSE handles' = [handles EXCEPT ![h].pos = @ + n] /\ UNCHANGED fault
      /\ UNCHANGED disk

\* Blocks a file must have before write_sata_wrapper writes.
Needed(pos, count) == ((pos + count) \div BlockSize) + 1

\* Mutant: a block is not marked.
MarkedNot(new) == data_bitmap

\* set_data_bitmap for each new block.
Marked(new) == data_bitmap \cup new

\* file_len after a write that ends at end.
NewLength(i, end) == IF end >= inodes[i].len THEN end ELSE inodes[i].len

\* The first n calls of get_free_data: each finds the first number that is not
\* marked, the numbers found before it among the marked ones.
FreeData(n) ==
  LET found[k \in 0 .. n] ==
        IF k = 0 THEN <<>>
        ELSE LET free == (Block \ data_bitmap) \ Range(found[k - 1])
             IN  IF free = {} THEN found[k - 1] ELSE Append(found[k - 1], Min(free))
  IN  found[n]

\* The blocks write_sata_wrapper adds to the file.
NewBlocks(i, pos, count) ==
  LET missing == Needed(pos, count) - Len(inodes[i].blocks)
  IN  IF missing > 0 THEN FreeData(missing) ELSE <<>>

\* Mutant: buf_ptr is not advanced between blocks.
ByteFromStart(buf, p, o) == buf[o - p.off + 1]

\* The byte of buf that piece p puts at offset o.
ByteFor(buf, p, o) == buf[p.from + o - p.off + 1]

\* IO_WRITE of buf.  If the disk is full the blocks found so far stay marked
\* and belong to no file.
Write(h, buf) ==
  LET f     == handles[h]
      count == Len(buf)
      new   == NewBlocks(f.id, f.pos, count)
      all   == inodes[f.id].blocks \o new
      here(p, b, o) == p.n > 0 /\ all[p.index + 1] = b /\ p.off <= o /\ o < p.off + p.n
      ps    == Pieces(f.pos, count)
  IN  /\ Runs /\ f.kind = "file" /\ f.pos + count <= MaxPos
      /\ data_bitmap' = Marked(Range(new))
      /\ IF Len(all) < Needed(f.pos, count)
         THEN UNCHANGED <<inodes, data, handles>>
         ELSE /\ data' = [b \in Block |-> [o \in 0 .. BlockSize - 1 |->
                   IF \E p \in ps : here(p, b, o)
                   THEN LET p == CHOOSE q \in ps : here(q, b, o) IN ByteFor(buf, p, o)
                   ELSE data[b][o]]]
              /\ inodes' = [inodes EXCEPT ![f.id] =
                   [len |-> NewLength(f.id, f.pos + count), blocks |-> all]]
              /\ handles' = [handles EXCEPT ![h].pos = @ + count]
      /\ UNCHANGED <<inode_bitmap, dentry_bitmap, dentries, tail, fault>>

\* IO_LSEEK with SEEK_SET or SEEK_CUR; SEEK_END follows the inode number as if
\* it were a pointer.
LSeek(h, to) ==
  /\ Runs /\ handles[h].kind = "file"
  /\ handles' = [handles EXCEPT ![h].pos = to]
  /\ UNCHANGED <<disk, fault>>

LSeekEnd(h) ==
  /\ Runs /\ handles[h].kind = "file"
  /\ fault' = TRUE
  /\ UNCHANGED <<disk, handles>>

Init ==
  /\ inode_bitmap = {0} /\ dentry_bitmap = {0} /\ data_bitmap = {}
  /\ inodes = [i \in Ino |-> BuiltInode]
  /\ dentries = [i \in Ino |-> [name |-> IF i = 0 THEN Root ELSE None, id |-> 0,
                                subdirs |-> <<>>]]
  /\ tail = NoLabel
  /\ data = [b \in Block |-> [o \in 0 .. BlockSize - 1 |->
                IF b < Formatted THEN Zero ELSE Junk]]
  /\ handles = [h \in Handle |-> Closed]
  /\ fault = FALSE

Buffers == {SubSeq(Pattern, 1, n) : n \in 1 .. Len(Pattern)}

Next ==
  \E h \in Handle :
    \/ \E path \in Path : OpenFound(h, path) \/ Create(h, path) \/ OpenDir(h, path)
    \/ ReadDir(h)
    \/ Close(h)
    \/ \E n \in 1 .. MaxPos : Read(h, n)
    \/ \E buf \in Buffers : Write(h, buf)
    \/ \E to \in 0 .. MaxPos : LSeek(h, to)
    \/ LSeekEnd(h)

Spec == Init /\ [][Next]_vars

-----------------------------------------------------------------------------
(* Properties                                                              *)

\* Inodes and dentries are allocated by two bitmaps, but the scans of the
\* server look up dentries by the numbers of the inode bitmap and directories
\* hold inode numbers where read_sata_dir expects dentry numbers (fs.c:250,
\* 283, 317, 486): the two numberings must never come apart.
BitmapsAgree == inode_bitmap = dentry_bitmap

\* Every file but the root is in exactly one directory, once, although the
\* directory is looked up through labels that may be another's.
ListedOnce ==
  \A i \in inode_bitmap \ {0} :
    Cardinality({e \in Ino \X (1 .. MaxFiles) :
                   /\ e[2] <= Len(dentries[e[1]].subdirs)
                   /\ dentries[e[1]].subdirs[e[2]] = i}) = 1

\* Both: what the server's lookups rely on.
Directories == BitmapsAgree /\ ListedOnce

\* No block belongs to two places, every block of a file is marked, and a file
\* has the blocks its length accounts for, through growth, holes and a full disk
\* (fs.c:392-405).
BlocksOwned ==
  \A i, j \in Ino :
    /\ Range(inodes[i].blocks) \subseteq data_bitmap
    /\ IsInjective(inodes[i].blocks)
    /\ inodes[i].len > 0 => Len(inodes[i].blocks) = (inodes[i].len \div BlockSize) + 1
    /\ i # j => Range(inodes[i].blocks) \cap Range(inodes[j].blocks) = {}

\* The bytes of a file.
Contents(i) ==
  [p \in 1 .. inodes[i].len |->
     data[inodes[i].blocks[((p - 1) \div BlockSize) + 1]][(p - 1) % BlockSize]]

\* read_sata_wrapper returns the bytes of the file from the position on, over
\* any number of blocks and to the end of the file, not beyond.
ReadExact ==
  \A i \in inode_bitmap : \A pos \in 0 .. inodes[i].len, count \in 1 .. MaxPos :
    ReadBuf(i, pos, count)
      = SubSeq(Contents(i), pos + 1, Min({pos + count, inodes[i].len}))

F == INSTANCE Files WITH
  File <- Ino, Buf <- Buffers, Hole <- {Zero, Junk},
  content <- [i \in Ino |-> Contents(i)],
  open <- [h \in Handle |-> IF handles[h].kind = "file" THEN handles[h].id ELSE None],
  pos <- [h \in Handle |-> handles[h].pos]

\* The disk implements files: a write changes the bytes it should, at the
\* position of its handle, and no other byte of this or another file; what it
\* skips is unwritten disk, never bytes of another file.
FilesKept == F!FSpec

\* get_dentry of a file's number yields the dentry with that number.  Does not
\* hold, and is checked by no run: the third file created makes the first one's
\* odd dentry read as its own.
DentryNumbers ==
  \A i \in inode_bitmap : Label(dentries, tail, i).id = i
=============================================================================
