---------------------------- MODULE MCFileServer ----------------------------
(***************************************************************************)
(* The two ends of the file server, its loop (Vfs) and its disk driver     *)
(* (Ahci).  They meet only in SataFs, which each leaves open: each is      *)
(* explored on its own.                                                    *)
(***************************************************************************)
EXTENDS Vfs, Ahci

CONSTANTS c1, c2, c3

VARIABLE part

\* A file of less than a block, an empty one and one of exactly a block.  bin/a
\* comes before its directory.
Member(name, size) == [name |-> name, size |-> size]
MCArchives ==
  { << Member(<<"bin", "a">>, 1), Member(<<"bin">>, 0), Member(<<"bin", "c">>, 0),
       Member(<<"b">>, 2) >> }

\* c1 lists directories and executes files, changing its directory; c2 also makes
\* the requests libc has no function for; c3 reads, beside either of them.
Path(kind, abs, path) == [kind |-> kind, abs |-> abs, path |-> path]
B == Path("file", TRUE, <<"tarfs", "b">>)
MCGroups == {{c1, c3}, {c2, c3}}
MCOpens ==
  c1 :> {Path("dir", TRUE, <<>>), Path("dir", FALSE, <<"tarfs", "bin">>),
         Path("file", FALSE, <<"a">>)}
  @@ c2 :> {B, Path("dir", TRUE, <<"sata">>), Path("file", TRUE, <<"sata", "f">>)}
  @@ c3 :> {B}
MCDirs == c1 :> {<<"tarfs", "bin">>} @@ c2 :> {} @@ c3 :> {}
MCSteps == c1 :> {<<"..", "..">>} @@ c2 :> {} @@ c3 :> {}
MCDoes == c1 :> {"execve", "readdir"} @@ c2 :> {"read", "write", "readdir", "lseek", "reopen"}
          @@ c3 :> {"read"}

\* The controller first, last, or twice on the bus; ports of every kind.
Machine(bus, ports) ==
  [pci |-> [d \in 0 .. 1 |-> bus[d + 1]], plug |-> [p \in 0 .. 2 |-> ports[p + 1]]]
MCMachines ==
  { Machine(<<"ahci", "none">>, <<"sata", "absent", "atapi">>),
    Machine(<<"other", "ahci">>, <<"sata", "inactive", "semb">>),
    Machine(<<"ahci", "ahci">>, <<"sata", "unimplemented", "pm">>) }

all == <<part, vfs, ahci>>

FileServerInit ==
  /\ part \in {"loop", "disk"} /\ VfsInit /\ AhciInit
  /\ part = "loop" => /\ buf = CHOOSE v \in Val : TRUE
                      /\ disk = [s \in Lba |-> buf]
                      /\ ~st /\ ~strict /\ pci[1] = "none"
  /\ part = "disk" => at[c1] = "idle"

LoopStep(A) == part = "loop" /\ A /\ UNCHANGED <<part, ahci>>
DiskStep(A) == part = "disk" /\ A /\ UNCHANGED <<part, vfs>>

FileServerNext == LoopStep(VfsNext) \/ DiskStep(AhciNext)

\* The server and the driver run, and a program whose call can go on goes on.  The
\* controller does not stop in the middle of what it does, and however often it is
\* busy it takes an issued command in the end.
FileServerSpec ==
  /\ FileServerInit /\ [][FileServerNext]_all
  /\ WF_all(LoopStep(Server))
  /\ \A c \in Client : WF_all(LoopStep(SendOpen(c) \/ Receive(c)))
  /\ WF_all(DiskStep(DriverStep))
  /\ WF_all(DiskStep(Engine)) /\ WF_all(DiskStep(Resume)) /\ SF_all(DiskStep(Fetch))
  /\ WF_all(DiskStep(Execute \/ Fail)) /\ WF_all(DiskStep(Retire))
=============================================================================
