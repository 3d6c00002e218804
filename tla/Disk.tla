-------------------------------- MODULE Disk --------------------------------
(***************************************************************************)
(* What the file system may expect of its disk: one request at a time; a   *)
(* request that reports success has moved its sector, once and before it   *)
(* returned; a request that reports failure may have moved it, or spoilt   *)
(* the target.  Nothing is moved outside a request.                        *)
(***************************************************************************)
CONSTANTS Lba, Val, None

VARIABLES disk, buf, op, moved, ret

DiskVars == <<disk, buf, op, moved, ret>>

DiskInit ==
  /\ disk \in [Lba -> Val] /\ buf \in Val
  /\ op = None /\ moved = FALSE /\ ret = FALSE

\* The file system prepares the buffer.
Prepare ==
  /\ op = None /\ buf' \in Val
  /\ UNCHANGED <<disk, op, moved, ret>>

Ask ==
  /\ op = None
  /\ op' \in [w : BOOLEAN, lba : Lba]
  /\ moved' = FALSE
  /\ UNCHANGED <<disk, buf, ret>>

Move ==
  /\ op # None /\ ~moved /\ moved' = TRUE
  /\ IF op.w THEN disk' = [disk EXCEPT ![op.lba] = buf] /\ UNCHANGED buf
     ELSE buf' = disk[op.lba] /\ UNCHANGED disk
  /\ UNCHANGED <<op, ret>>

Spoil ==
  /\ op # None /\ ~moved
  /\ IF op.w THEN (\E v \in Val : disk' = [disk EXCEPT ![op.lba] = v]) /\ UNCHANGED buf
     ELSE buf' \in Val /\ UNCHANGED disk
  /\ UNCHANGED <<op, moved, ret>>

Return ==
  /\ op # None /\ op' = None
  /\ ret' \in BOOLEAN /\ (ret' => moved)
  /\ UNCHANGED <<disk, buf, moved>>

DiskSpec == DiskInit /\ [][Prepare \/ Ask \/ Move \/ Spoil \/ Return]_DiskVars
=============================================================================
