-------------------------------- MODULE Vfs --------------------------------
(***************************************************************************)
(* The file server's loop, bin/fs/vfs.c; the file system of the initial    *)
(* archive, bin/fs/tarfs.c; and the libc functions that call the server,   *)
(* libc/rw.c, getcwd.c and exec.c.                                         *)
(*                                                                         *)
(* A path is a sequence of components, <<>> is "/".  A byte of a file is   *)
(* its place in the archive.  The disk's file system is SataFs: here its   *)
(* results are a free choice.  Ports and descriptors are Uport's: a        *)
(* connection is its descriptor in the server, whose number is the lowest  *)
(* free one and is used again after close.  The server never learns that a *)
(* program has closed its end: such a handle stays.  Once no descriptor is *)
(* left the server cannot accept, nor take a request, which needs one too. *)
(*                                                                         *)
(* Programs read, write and seek files and list directories, never the     *)
(* other way round: the server does not know which it has.  No directory   *)
(* of the archive has 30 entries: the end of d_subdirs would be missed.    *)
(***************************************************************************)
EXTENDS Integers, Sequences, FiniteSetsExt, SequencesExt

CONSTANTS
  Name,        \* what paths are made of
  Client,      \* programs
  Groups,      \* which of them run together
  MaxHandles,  \* descriptors of the server: max_fds of its table
  Does,        \* the requests each program makes of what it has opened
  BlockSize,   \* of the archive: 512
  Archives,    \* the archives considered: sequences of [name, size]
  Opens,       \* what each program opens: records [kind, abs, path]
  Dirs,        \* the absolute paths each program gives to chdir
  Steps,       \* and the relative ones
  MaxDepth,    \* bound: components of a working directory
  Counts,      \* numbers of bytes to read
  Big,         \* the number execve reads
  Offsets,     \* for lseek
  MaxPos,      \* bound: position in a file
  Null

\* What can be asked of the server.
Request ==
  [type : {"file", "dir"}, path : Seq(Name)] \cup [type : {"read", "write"}, len : Nat]
    \cup [type : {"readdir"}]
    \cup [type : {"lseek"}, len : Int, whence : {"SET", "CUR", "END"}]

\* What it answers: bytes, or a name.
Response == [err : Nat, len : Nat, data : Seq(Name) \cup Seq(Seq(Name) \X Int)]

\* A struct file or dentry_reader, what may follow the answer to an open, and what a
\* program knows of what it has opened.
Object == [kind : {"file", "dir"}, fs : 0 .. 2, index : Nat, pos : Int]
Rest   == [op : {"close"}, f : {Null}] \cup [op : {"set"}, f : Object]
Opened == [kind : {"file", "dir"}, path : Seq(Name), pos : Int]

\* Members have names of their own, and a directory has fewer than 30.
ASSUME VfsAssumption ==
  /\ {MaxHandles, BlockSize, Big, MaxPos} \cup Counts \subseteq Nat /\ BlockSize > 0
  /\ Offsets \subseteq Int /\ {"tarfs", "sata", "no_such_name"} \subseteq Name
  /\ Archives \subseteq Seq([name : Seq(Name) \ {<<>>}, size : Nat])
  /\ \A ms \in Archives :
       /\ \A i, j \in DOMAIN ms : ms[i].name = ms[j].name => i = j
       /\ \A i \in DOMAIN ms :
            Cardinality({j \in DOMAIN ms : Front(ms[j].name) = Front(ms[i].name)}) < 30
  /\ \A c \in Client :
       /\ Dirs[c] \subseteq Seq(Name) /\ Steps[c] \subseteq Seq(Name \cup {".."})
       /\ Opens[c] \subseteq [kind : {"file", "dir"}, abs : BOOLEAN, path : Seq(Name)]
       /\ \A o \in Opens[c] : o.abs \/ o.path # <<>>
  /\ Null \notin Client \cup Nat \cup Seq(Name) \cup Request \cup Response \cup Object
                  \cup Rest \cup Opened

VARIABLES
  archive,     \* the members of the archive
  header,      \* tarfs_init: the block it looks at
  entry,       \* tarfs_entry and tarfs_inode
  loop,        \* where the server is
  all_fds,     \* the handles, newest first
  rest,        \* the handles wait_on found ready that are left in this round
  todo,        \* what is left to do for the first of them, after the answer
  handle_to_fd,
  backlog,     \* connections not accepted yet
  peer,        \* the program at the other end of each handle
  inbox,       \* the request queued at each handle
  hung,        \* handles whose program has closed its end
  at,          \* each program: "absent", "idle", in "connect" or in "wait"
  cwd,         \* its __cwd
  conn,        \* its connection: a handle, or Null
  mine,        \* what it has open, as it knows it, or Null
  call,        \* the request it makes
  answer       \* the response in its cookie, or Null

server  == <<archive, header, entry, loop, all_fds, rest, todo, handle_to_fd>>
kernel  == <<backlog, peer, inbox, hung>>
program == <<at, cwd, conn, mine, call, answer>>
vfs == <<server, kernel, program>>

Handle == 1 .. MaxHandles

-----------------------------------------------------------------------------
(* The archive and its table                                               *)

Up(n, d) == (n + d - 1) \div d

\* The archive as tar writes it (external): a header, the bytes of the member
\* padded to whole blocks, and at the end two blocks of zeros.
Layout(ms) ==
  LET head(m)    == [name |-> m.name, size |-> m.size, bytes |-> <<>>]
      byte(m, k) == <<m.name, IF k < m.size THEN k ELSE -1>>
      data(m, b) == [name |-> <<>>, size |-> 0, bytes |->
                      [k \in 1 .. BlockSize |-> byte(m, (b - 1) * BlockSize + k - 1)]]
      blocks(m)  == <<head(m)>> \o [b \in 1 .. Up(m.size, BlockSize) |-> data(m, b)]
  IN  FlattenSeq([j \in DOMAIN ms |-> blocks(ms[j])])
        \o [b \in 1 .. 2 |-> [name |-> <<>>, size |-> 0, bytes |-> <<>>]]

\* get_file_index, and the loops of open_tarfs_dir and get_parent.
Lookup(table, name) ==
  LET found == {j \in DOMAIN table : table[j].name = name}
  IN  IF found = {} THEN 0 ELSE Min(found)

\* get_parent: the entry of the path up to the last "/".
GetParent(table, name) == Lookup(table, Front(name))

\* tarfs_node_init.
NodeInit(table, node) ==
  LET parent == IF node.name = <<>> THEN 0 ELSE GetParent(table, node.name)
      new    == Append(table, [node EXCEPT !.subdirs = <<>>])
  IN  IF parent = 0 \/ Len(table[parent].subdirs) = 30 THEN new
      ELSE [new EXCEPT ![parent].subdirs = Append(@, Len(new))]

\* Data blocks of a member.
BlockCount(size) ==
  IF size % BlockSize = 0 THEN size \div BlockSize ELSE size \div BlockSize + 1

RootNode == [name |-> <<>>, len |-> 0, data |-> 0, subdirs |-> <<>>]

\* One round of tarfs_init's loop, at the block header.  change_format makes an
\* absolute path of the name.
TarStep ==
  LET h == Layout(archive)[header]
  IN  /\ loop = "tar"
      /\ IF h.name # <<>>
         THEN /\ entry' = NodeInit(entry, [name |-> h.name, len |-> h.size,
                                           data |-> header + 1, subdirs |-> <<>>])
              /\ header' = header + BlockCount(h.size) + 1
              /\ UNCHANGED loop
         ELSE loop' = "wait" /\ UNCHANGED <<entry, header>>
      /\ UNCHANGED <<archive, all_fds, rest, todo, handle_to_fd, kernel, program>>

\* Byte k behind i_data[0] of an entry.
ByteAt(e, k) ==
  LET block == Layout(archive)[e.data + k \div BlockSize] IN block.bytes[(k % BlockSize) + 1]

-----------------------------------------------------------------------------
(* Requests: each yields an answer [err, len, data] and the new struct file  *)
(* or dentry_reader                                                          *)

ENOENT == 2
EBADF  == 9
EINVAL == 22
ENOSPC == 28

Answer(err, len, bytes) == [err |-> err, len |-> len, data |-> bytes]
Refused(err) == Answer(err, 0, <<>>)

\* Mutant: the position moves by what was asked for.
TarfsReadAhead(f, count) ==
  LET e == entry[f.index]
      n == IF f.pos + count >= e.len THEN e.len - f.pos ELSE count
  IN  IF f.pos = e.len THEN [res |-> Answer(0, 0, <<>>), f |-> f]
      ELSE [res |-> IF n < 0 THEN Refused(-n)
                    ELSE Answer(0, n, [k \in 1 .. n |-> ByteAt(e, f.pos + k - 1)]),
            f   |-> [f EXCEPT !.pos = @ + count]]

\* tarfs_read.  Behind the end of the file the number is negative: the error is
\* the distance, and the position goes back to the end.
TarfsRead(f, count) ==
  LET e == entry[f.index]
      n == IF f.pos + count >= e.len THEN e.len - f.pos ELSE count
  IN  IF f.pos = e.len THEN [res |-> Answer(0, 0, <<>>), f |-> f]
      ELSE [res |-> IF n < 0 THEN Refused(-n)
                    ELSE Answer(0, n, [k \in 1 .. n |-> ByteAt(e, f.pos + k - 1)]),
            f   |-> [f EXCEPT !.pos = @ + n]]

\* my_read.  What the disk gives is SataFs's.
MyRead(f, count) ==
  IF f.fs = 0 THEN {TarfsRead(f, count)}
  ELSE {[res |-> r, f |-> f] :
          r \in {Refused(EINVAL), Answer(0, 0, <<>>), Answer(0, count, <<"sata">>)}}

\* my_write: the archive is read-only.
MyWrite(f, count) ==
  IF f.fs = 0 THEN {Refused(EBADF)}
  ELSE {Refused(ENOSPC), Answer(0, count, <<>>)}

\* my_lseek.  The result is not sent.
MyLseek(f, offset, whence) ==
  [f EXCEPT !.pos = CASE whence = "SET" -> offset
                      [] whence = "CUR" -> @ + offset
                      [] whence = "END" -> IF f.fs = 0 THEN entry[f.index].len + offset ELSE @]

\* read_tarfs_dir.
ReadTarfsDir(r) ==
  LET s == entry[r.index].subdirs
  IN  IF r.pos = Len(s) THEN [res |-> Answer(0, 0, <<>>), f |-> r]
      ELSE [res |-> Answer(0, 1, entry[s[r.pos + 1]].name), f |-> [r EXCEPT !.pos = @ + 1]]

\* read_root_dir.
ReadRootDir(r) ==
  IF r.pos = 2 THEN [res |-> Answer(0, 0, <<>>), f |-> r]
  ELSE [res |-> Answer(0, 1, << <<"tarfs", "sata">>[r.pos + 1] >>),
        f   |-> [r EXCEPT !.pos = @ + 1]]

\* my_readdir.
MyReaddir(r) ==
  CASE r.fs = 2 -> {ReadRootDir(r)}
    [] r.fs = 0 -> {ReadTarfsDir(r)}
    [] OTHER    -> {[res |-> Answer(0, n, <<"sata">>), f |-> r] : n \in {0, 1}}

\* get_fs_index.
GetFsIndex(path) ==
  CASE path = <<>>                           -> 2
    [] path # <<>> /\ Head(path) = "tarfs"   -> 0
    [] path # <<>> /\ Head(path) = "sata"    -> 1
    [] OTHER                                 -> -1

\* parse_path: what follows the file system's name.
ParsePath(path) == IF GetFsIndex(path) \in {0, 1} THEN Tail(path) ELSE path

\* tarfs_open and open_tarfs_dir both look for the name, file or directory.
TarfsOpen(kind, name) ==
  LET j == Lookup(entry, name)
  IN  IF j = 0 THEN Null ELSE [kind |-> kind, fs |-> 0, index |-> j, pos |-> 0]

\* my_open and my_opendir: NULL, or a new object.  Only a directory can be "/".
MyOpen(kind, path) ==
  LET fs   == GetFsIndex(path)
      made == [kind |-> kind, fs |-> fs, index |-> 0, pos |-> 0]
  IN  CASE fs = 0                   -> {TarfsOpen(kind, ParsePath(path))}
        [] fs = 1                   -> {Null, made}
        [] fs = 2 /\ kind = "dir"   -> {made}
        [] OTHER                    -> {Null}

-----------------------------------------------------------------------------
(* The server's loop                                                       *)

\* The members of a list that are in S, in their order.
Picked(s, S) ==
  LET picked[i \in 0 .. Len(s)] ==
        IF i = 0 THEN <<>>
        ELSE IF s[i] \in S THEN Append(picked[i - 1], s[i]) ELSE picked[i - 1]
  IN  picked[Len(s)]

\* The handles wait_on reports: those with a request.  That a program has closed
\* its end is not reported.
Ready == {h \in ToSet(all_fds) : inbox[h] # Null}

\* No descriptor is free: pop_request fails with EMFILE.
Full == ToSet(all_fds) = Handle

\* The round's requests: what wait_on found, whatever comes after it.
Begin(handles) ==
  /\ rest' = Picked(handles, Ready)
  /\ loop' = IF Ready = {} THEN "wait" ELSE "serve"
  /\ UNCHANGED <<archive, header, entry, todo, handle_to_fd, inbox, hung, at, cwd, mine,
                 call, answer>>

\* pop_request for the port.  The new connection goes to the head of the list, but
\* was not waited for: its number is not in the set.
Accept ==
  LET h == Min(Handle \ ToSet(all_fds))
      c == Head(backlog)
  IN  /\ all_fds' = <<h>> \o all_fds
      /\ backlog' = Tail(backlog)
      /\ peer' = [peer EXCEPT ![h] = c] /\ conn' = [conn EXCEPT ![c] = h]

\* Mutant: connections are accepted when there is nothing else to do.
RoundBusy ==
  /\ loop = "wait" /\ (Ready # {} \/ backlog # <<>>)
  /\ IF Ready = {} /\ ~Full THEN Accept ELSE UNCHANGED <<all_fds, backlog, peer, conn>>
  /\ Begin(all_fds')

\* wait_on returns.  A connection that cannot be accepted stays where it is; the
\* error number goes on the list, where no set of descriptors ever has it.
Round ==
  /\ loop = "wait" /\ (Ready # {} \/ backlog # <<>>)
  /\ IF backlog # <<>> /\ ~Full THEN Accept ELSE UNCHANGED <<all_fds, backlog, peer, conn>>
  /\ Begin(all_fds')

\* On to the next handle, or to the next round.
Advance == rest' = Tail(rest) /\ loop' = IF Len(rest) = 1 THEN "wait" ELSE "serve"

Serves(h) == loop = "serve" /\ todo = Null /\ h = Head(rest)

\* Mutant: the table entry is left for the next user of the number.
CloseHandleDirty(h) ==
  /\ all_fds' = RemoveFirst(all_fds, h)
  /\ UNCHANGED handle_to_fd
  /\ peer' = [peer EXCEPT ![h] = Null] /\ hung' = [hung EXCEPT ![h] = FALSE]

\* close_handle.
CloseHandle(h) ==
  /\ all_fds' = RemoveFirst(all_fds, h)
  /\ handle_to_fd' = [handle_to_fd EXCEPT ![h] = Null]
  /\ peer' = [peer EXCEPT ![h] = Null] /\ hung' = [hung EXCEPT ![h] = FALSE]

\* pop_request has no descriptor for the cookie.  The loop goes on with what ureq
\* holds of an earlier request: it is not followed.
ServeFull(h) ==
  /\ Serves(h) /\ Full
  /\ loop' = "lost"
  /\ UNCHANGED <<archive, header, entry, all_fds, rest, todo, handle_to_fd, kernel, program>>

Respond(h, res) ==
  /\ inbox' = [inbox EXCEPT ![h] = Null]
  /\ answer' = [answer EXCEPT ![peer[h]] = res]
  /\ UNCHANGED <<archive, header, entry, all_fds, backlog, peer, hung,
                 at, cwd, conn, mine, call>>

\* IO_OPEN and IO_OPENDIR: refused on a handle in use.
ServeOpen(h) ==
  /\ Serves(h) /\ ~Full /\ inbox[h] # Null /\ inbox[h].type \in {"file", "dir"}
  /\ IF handle_to_fd[h] # Null
     THEN Respond(h, Refused(EINVAL)) /\ todo' = [op |-> "close", f |-> Null]
     ELSE \E f \in MyOpen(inbox[h].type, inbox[h].path) :
            IF f = Null
            THEN Respond(h, Refused(ENOENT)) /\ todo' = [op |-> "close", f |-> Null]
            ELSE Respond(h, Answer(0, 0, <<>>)) /\ todo' = [op |-> "set", f |-> f]
  /\ UNCHANGED <<loop, rest, handle_to_fd>>

\* What follows the answer.
FinishOpen(h) ==
  /\ loop = "serve" /\ todo # Null /\ h = Head(rest)
  /\ IF todo.op = "close" THEN CloseHandle(h)
     ELSE /\ handle_to_fd' = [handle_to_fd EXCEPT ![h] = todo.f]
          /\ UNCHANGED <<all_fds, peer, hung>>
  /\ todo' = Null /\ Advance
  /\ UNCHANGED <<archive, header, entry, backlog, inbox, program>>

\* IO_READ, IO_WRITE, IO_READDIR, IO_LSEEK.
Served(f, r) ==
  CASE r.type = "read"    -> MyRead(f, r.len)
    [] r.type = "write"   -> {[res |-> w, f |-> f] : w \in MyWrite(f, r.len)}
    [] r.type = "readdir" -> MyReaddir(f)
    [] r.type = "lseek"   -> {[res |-> Answer(0, 0, <<>>), f |-> MyLseek(f, r.len, r.whence)]}

ServeIo(h) ==
  /\ Serves(h) /\ ~Full /\ inbox[h] # Null /\ inbox[h].type \notin {"file", "dir"}
  /\ \E s \in Served(handle_to_fd[h], inbox[h]) :
       /\ Respond(h, s.res)
       /\ handle_to_fd' = [handle_to_fd EXCEPT ![h] = s.f]
  /\ Advance /\ UNCHANGED todo

Server ==
  \/ TarStep \/ Round
  \/ \E h \in Handle : ServeFull(h) \/ ServeOpen(h) \/ FinishOpen(h) \/ ServeIo(h)

-----------------------------------------------------------------------------
(* Programs.  mine[c] is [kind, path, pos]: pos is what the program expects  *)
(* of the archive's files, from what it was told                             *)

OnDisk(path) == path # <<>> /\ Head(path) = "sata"

\* The member of the archive that a path names; the archive's root is one too.
Named(path) == {m \in ToSet(archive) \cup {[name |-> <<>>, size |-> 0]} :
                  path # <<>> /\ Head(path) = "tarfs" /\ m.name = Tail(path)}
SizeOf(path) == (CHOOSE m \in Named(path) : TRUE).size

\* Where a seek or an answer leaves the program.
Seeked(o, r) ==
  CASE r.whence = "SET" -> r.len
    [] r.whence = "CUR" -> o.pos + r.len
    [] r.whence = "END" -> SizeOf(o.path) + r.len
PosAfter(o, r, res) ==
  IF OnDisk(o.path) \/ r.type = "write" THEN o.pos
  ELSE CASE r.type = "lseek"               -> Seeked(o, r)
         [] r.type = "read" /\ res.err # 0 -> SizeOf(o.path)
         [] OTHER                          -> o.pos + res.len

\* chdir, for a relative path: ".." fails at the root, and nothing is changed.
ChdirTo(dir, steps) ==
  LET step(d, s) == IF d = Null \/ (s = ".." /\ d = <<>>) THEN Null
                    ELSE IF s = ".." THEN Front(d) ELSE Append(d, s)
      after[i \in 0 .. Len(steps)] == IF i = 0 THEN dir ELSE step(after[i - 1], steps[i])
  IN  after[Len(steps)]

Idle(c) == at[c] = "idle"

Chdir(c) ==
  /\ Idle(c) /\ mine[c] = Null
  /\ \E d \in Dirs[c] \cup {ChdirTo(cwd[c], s) : s \in Steps[c]} :
       d # Null /\ Len(d) <= MaxDepth /\ cwd' = [cwd EXCEPT ![c] = d]
  /\ UNCHANGED <<server, kernel, at, conn, mine, call, answer>>

\* How open and opendir make a path absolute.  opendir puts no "/" between the
\* two: the path it asks for runs two names into one.
Absolute(dir, o) ==
  IF o.abs \/ dir = <<>> THEN o.path
  ELSE IF o.kind = "file" THEN dir \o o.path
  ELSE Front(dir) \o <<"no_such_name">> \o Tail(o.path)

\* open and opendir: port_connect, which fails while the port is not open.
Open(c) ==
  /\ Idle(c) /\ mine[c] = Null /\ loop # "tar"
  /\ backlog' = Append(backlog, c)
  /\ at' = [at EXCEPT ![c] = "connect"]
  /\ UNCHANGED <<server, peer, inbox, hung, cwd, conn, mine, call, answer>>

Ask(c, r) ==
  /\ inbox' = [inbox EXCEPT ![conn[c]] = r]
  /\ call' = [call EXCEPT ![c] = r]
  /\ at' = [at EXCEPT ![c] = "wait"]
  /\ UNCHANGED <<server, backlog, peer, hung, cwd, conn, mine, answer>>

\* The rest of open and opendir, once the connection is accepted: the path is
\* sent.
SendOpen(c) ==
  /\ at[c] = "connect" /\ conn[c] # Null
  /\ \E o \in Opens[c] : Ask(c, [type |-> o.kind, path |-> Absolute(cwd[c], o)])

\* Program c does what it may with an open file or directory.
Uses(c, what, kind) ==
  Idle(c) /\ mine[c] # Null /\ mine[c].kind \in kind /\ what \in Does[c]

Read(c) ==
  Uses(c, "read", {"file"}) /\ \E n \in Counts : Ask(c, [type |-> "read", len |-> n])
Write(c) ==
  Uses(c, "write", {"file"}) /\ \E n \in Counts : Ask(c, [type |-> "write", len |-> n])

\* execve's own request: the whole file at once.
Execve(c) == Uses(c, "execve", {"file"}) /\ Ask(c, [type |-> "read", len |-> Big])

Readdir(c) == Uses(c, "readdir", {"dir"}) /\ Ask(c, [type |-> "readdir"])

\* Requests libc has no function for: IO_LSEEK, and an open on a handle in use.
Lseek(c) ==
  /\ Uses(c, "lseek", {"file"}) /\ ~OnDisk(mine[c].path)
  /\ \E r \in [type : {"lseek"}, len : Offsets, whence : {"SET", "CUR", "END"}] :
       Seeked(mine[c], r) \in 0 .. MaxPos /\ Ask(c, r)
Reopen(c) ==
  /\ Uses(c, "reopen", {"file", "dir"})
  /\ Ask(c, [type |-> mine[c].kind, path |-> mine[c].path])

\* close.
Close(c) ==
  /\ Idle(c) /\ mine[c] # Null
  /\ hung' = [hung EXCEPT ![conn[c]] = TRUE]
  /\ mine' = [mine EXCEPT ![c] = Null] /\ conn' = [conn EXCEPT ![c] = Null]
  /\ UNCHANGED <<server, backlog, peer, inbox, at, cwd, call, answer>>

\* The end of each call.  A failed open keeps its descriptor, which the server
\* has closed or is about to.
Receive(c) ==
  /\ at[c] = "wait" /\ answer[c] # Null
  /\ mine' = [mine EXCEPT ![c] =
       CASE call[c].type \notin {"file", "dir"} ->
              [@ EXCEPT !.pos = PosAfter(mine[c], call[c], answer[c])]
         [] call[c].type \in {"file", "dir"} /\ answer[c].err = 0 ->
              [kind |-> call[c].type, path |-> call[c].path, pos |-> 0]
         [] OTHER -> Null]
  /\ conn' = [conn EXCEPT ![c] = IF mine'[c] = Null THEN Null ELSE @]
  /\ answer' = [answer EXCEPT ![c] = Null]
  /\ call' = [call EXCEPT ![c] = Null]
  /\ at' = [at EXCEPT ![c] = "idle"]
  /\ UNCHANGED <<server, kernel, cwd>>

Program(c) ==
  \/ Chdir(c) \/ Open(c) \/ SendOpen(c) \/ Receive(c) \/ Close(c)
  \/ Read(c) \/ Write(c) \/ Execve(c) \/ Readdir(c) \/ Lseek(c) \/ Reopen(c)

VfsInit ==
  /\ archive \in Archives /\ header = 1 /\ entry = <<RootNode>> /\ loop = "tar"
  /\ all_fds = <<>> /\ rest = <<>> /\ todo = Null
  /\ handle_to_fd = [h \in Handle |-> Null]
  /\ backlog = <<>> /\ peer = [h \in Handle |-> Null]
  /\ inbox = [h \in Handle |-> Null] /\ hung = [h \in Handle |-> FALSE]
  /\ \E g \in Groups : at = [c \in Client |-> IF c \in g THEN "idle" ELSE "absent"]
  /\ cwd = [c \in Client |-> <<>>]
  /\ conn = [c \in Client |-> Null] /\ mine = [c \in Client |-> Null]
  /\ call = [c \in Client |-> Null] /\ answer = [c \in Client |-> Null]

VfsNext == Server \/ \E c \in Client : Program(c)

VfsSpec == VfsInit /\ [][VfsNext]_vfs

-----------------------------------------------------------------------------
(* Properties                                                              *)

\* The names in a directory, in the archive's order.  A member is listed if its
\* directory's own entry comes before it.
Listing(path) ==
  LET dir == Tail(path)
      in  == {j \in DOMAIN archive :
                /\ Front(archive[j].name) = dir
                /\ dir = <<>> \/ \E k \in 1 .. j - 1 : archive[k].name = dir}
      js  == Picked([j \in DOMAIN archive |-> j], in)
  IN  IF path = <<>> THEN << <<"tarfs">>, <<"sata">> >>
      ELSE [k \in DOMAIN js |-> archive[js[k]].name]

\* The bytes from the program's position on.
Bytes(o, count) ==
  LET n == Min({count, SizeOf(o.path) - o.pos})
  IN  [k \in 1 .. n |-> <<Tail(o.path), o.pos + k - 1>>]

Expected(o, r) ==
  CASE r.type = "readdir" ->
         LET names == Listing(o.path)
         IN  IF o.pos = Len(names) THEN Answer(0, 0, <<>>) ELSE Answer(0, 1, names[o.pos + 1])
    [] r.type = "write" -> Refused(EBADF)
    [] r.type = "lseek" -> Answer(0, 0, <<>>)
    [] r.type = "read" /\ o.pos > SizeOf(o.path) -> Refused(o.pos - SizeOf(o.path))
    [] OTHER -> LET b == Bytes(o, r.len) IN Answer(0, Len(b), b)

Waits(c) == at[c] = "wait" /\ answer[c] # Null

\* A program gets the bytes of the file, and the names of the directory, that it
\* opened, in order and without a gap, whatever others read, open and close and
\* however the archive's members are laid out (tarfs.c:198-225, 51-67; vfs.c:350).
\* The program counts for itself where it is.
StreamsExact ==
  \A c \in Client :
    Waits(c) /\ call[c].type \notin {"file", "dir"} /\ ~OnDisk(mine[c].path)
      => answer[c] = Expected(mine[c], call[c])

\* What the server has at a handle, with what it is about to do.
FdOf(h) == IF todo # Null /\ h = Head(rest) THEN todo.f ELSE handle_to_fd[h]

\* handle_to_fd is indexed by descriptors, which are used again after a failed open
\* or a second one: an entry belongs to the connection its number stands for now
\* (vfs.c:313-318, 378, 396).  A program's handle is open at the server and holds what
\* the program opened; one that waits for its first answer has none yet; and open
\* fails only if there is no such path.
OwnFile ==
  /\ \A h \in Handle : handle_to_fd[h] # Null => h \in ToSet(all_fds)
  /\ \A c \in Client : mine[c] # Null =>
       LET f == FdOf(conn[c])
       IN  \/ /\ peer[conn[c]] = c /\ f # Null /\ f.kind = mine[c].kind
              /\ f.fs = GetFsIndex(mine[c].path)
              /\ f.fs = 0 => entry[f.index].name = Tail(mine[c].path)
           \/ Waits(c) /\ answer[c].err = EINVAL
  /\ \A c \in Client : at[c] = "connect" /\ conn[c] # Null => handle_to_fd[conn[c]] = Null
  /\ \A c \in Client : Waits(c) /\ mine[c] = Null /\ ~OnDisk(call[c].path) =>
       (answer[c].err = 0 <=> \/ Named(call[c].path) # {}
                              \/ call[c].type = "dir" /\ call[c].path = <<>>)

\* Every call of a program returns, as long as the server has a descriptor left: each
\* round serves every handle that was ready and accepts one connection, so that no
\* program is passed over for ever (vfs.c:336-350).
Answered == \A c \in Client : at[c] \in {"connect", "wait"} ~> (at[c] = "idle" \/ Full)

\* "All clients are gone" (uport.c:133): pop_request tells the server, which closes
\* its end (vfs.c:355-358).  A handle whose program has closed its end is released in
\* the end.
HandlesReleased == \A h \in Handle : hung[h] ~> ~hung[h]
=============================================================================
