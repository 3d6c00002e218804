-------------------------------- MODULE Ahci --------------------------------
(***************************************************************************)
(* The disk driver of the file server, bin/fs/ahci.c: the scan for the     *)
(* controller, the preparation of its port, and one command at a time.     *)
(*                                                                         *)
(* The driver polls; the controller (external, after the AHCI registers    *)
(* the driver reads and writes) takes its steps in between.  Two kinds of  *)
(* controller are allowed for: a strict one, which stops after an error    *)
(* until the port is restarted and leaves the command issued, and an       *)
(* emulated one, which retires the failed command and goes on.             *)
(*                                                                         *)
(* fs.c uses port 0 only and asks for one sector at a time: the command    *)
(* table has one entry.  The only SATA disk is at port 0 and a controller  *)
(* exists: port_rebase is given port 0 whichever port was found, so that   *)
(* a second disk would leave pdtable[0] with a list nobody reads, and      *)
(* without a controller the server maps physical address 0.                *)
(***************************************************************************)
EXTENDS Integers, FiniteSets, FiniteSetsExt

CONSTANTS
  Machines,    \* the machines considered: what is on the bus and behind each port
  NCS,         \* the field of register CAP: number of command slots, minus one
  Lba, Val,    \* sectors and what they hold
  None

\* What a port may have.
Device == {"sata", "atapi", "semb", "pm", "absent", "inactive", "unimplemented"}

ASSUME AhciAssumption ==
  /\ NCS \in Nat
  /\ \A m \in Machines : /\ \E d \in DOMAIN m.pci : m.pci[d] = "ahci"
                          /\ IsFiniteSet(DOMAIN m.plug) /\ 0 \in DOMAIN m.plug
                          /\ m.plug \in [0 .. Cardinality(DOMAIN m.plug) - 1 -> Device]
                          /\ \A p \in DOMAIN m.plug : m.plug[p] = "sata" <=> p = 0
  /\ None \notin [w : BOOLEAN, lba : Lba] \cup Nat

VARIABLES
  pci,         \* the devices on the bus: "none", "other" or "ahci"
  plug,        \* what is behind each port
  abar,        \* the controller found, None before
  i,           \* probe_port's loop
  st, fre,     \* PxCMD.ST, FRE: what the driver asks of port 0
  cr, fr,      \* PxCMD.CR, FR: whether it runs
  clb,         \* the command list the port reads: the number of an allocation
  lists,       \* the commands in each slot of each list
  pdtable,     \* the list the driver writes to, for each port
  ci, tfes, busy,  \* PxCI (slots), PxIS.TFES, PxTFD.BSY
  pc,          \* where the driver is
  req, slot,   \* the request of fs.c and its command slot
  ret,         \* the result of the last request
  run,         \* the slot the controller executes, or None
  phase,       \* how far it is: "fetched", "done" or "failed"
  strict, halted,  \* the kind of controller, and whether it has stopped
  stray,       \* TRUE: a command was written outside the command list
  disk, buf,   \* the sectors; common_buf
  moved        \* the request in progress has been executed

driver == <<pci, plug, abar, i, st, fre, clb, pdtable>>
device == <<cr, fr, run, phase, strict, halted>>
data   == <<disk, buf, moved>>
ahci == <<driver, device, data, lists, ci, tfes, busy, pc, req, slot, ret, stray>>

Ports == DOMAIN plug
NoCommand == [w |-> FALSE, lba |-> None]

-----------------------------------------------------------------------------
(* Finding the controller and its disks                                    *)

\* checkDevice: vendor and device number of an ICH9 controller.
CheckDevice(d) == pci[d] = "ahci"

\* checkAllBuses: the first one in the order of the numbers.
CheckAllBuses == Min({d \in DOMAIN pci : CheckDevice(d)})

\* get_type.  A port that is not present or not active is no device, whatever
\* its signature.
GetType(p) ==
  CASE plug[p] \in {"absent", "inactive"} -> "null"
    [] plug[p] \in {"atapi", "semb", "pm"} -> plug[p]
    [] OTHER -> "sata"

\* init_fs up to probe_port.
Scan ==
  /\ pc = "scan" /\ abar' = CheckAllBuses /\ pc' = "probe"
  /\ UNCHANGED <<pci, plug, i, st, fre, clb, pdtable, device, data, lists, ci, tfes,
                 busy, req, slot, ret, stray>>

\* One round of probe_port, up to stop_cmd's loop.
Probe ==
  /\ pc = "probe"
  /\ IF i \notin Ports THEN pc' = "idle" /\ UNCHANGED <<i, st, fre>>
     ELSE IF plug[i] = "unimplemented" \/ GetType(i) # "sata"
     THEN i' = i + 1 /\ UNCHANGED <<pc, st, fre>>
     ELSE pc' = "stop" /\ st' = FALSE /\ fre' = FALSE /\ UNCHANGED i
  /\ UNCHANGED <<pci, plug, abar, clb, pdtable, device, data, lists, ci, tfes, busy,
                 req, slot, ret, stray>>

\* Mutant: the loop waits for the command engine only.
StoppedHalf == ~cr

\* stop_cmd's loop ends.
Stopped == ~fr /\ ~cr

\* The rest of port_rebase, up to start_cmd's loop: a new list.
Rebase ==
  /\ pc = "stop" /\ Stopped
  /\ clb' = i + 1
  /\ lists' = [lists EXCEPT ![i + 1] = [s \in DOMAIN @ |-> NoCommand]]
  /\ pdtable' = [pdtable EXCEPT ![i] = i + 1]
  /\ pc' = "start"
  /\ UNCHANGED <<pci, plug, abar, i, st, fre, device, data, ci, tfes, busy, req, slot,
                 ret, stray>>

\* start_cmd.
StartCmd ==
  /\ pc = "start" /\ ~cr
  /\ fre' = TRUE /\ st' = TRUE
  /\ pc' = "probe" /\ i' = i + 1
  /\ UNCHANGED <<pci, plug, abar, clb, pdtable, device, data, lists, ci, tfes, busy, req,
                 slot, ret, stray>>

-----------------------------------------------------------------------------
(* read_sata and write_sata                                                *)

\* The number of slots find_cmdslot looks at: four bits of a five-bit field that
\* is the number minus one.
CmdSlots == NCS % 16

\* find_cmdslot.  PxSACT stays 0: queued commands are not used.
FindCmdSlot ==
  LET free == (0 .. CmdSlots - 1) \ ci
  IN  IF free = {} THEN -1 ELSE Min(free)

\* A call clears PxIS, whatever it finds there.
Called ==
  /\ pc = "idle" /\ tfes' = FALSE /\ moved' = FALSE
  /\ UNCHANGED <<driver, device, disk, buf, ci, busy>>

\* Header and table of slot s are filled in; then the loop that waits for the device.
Prepared(r, s) ==
  /\ pc' = "spin" /\ req' = r /\ slot' = s
  /\ lists' = IF s = -1 THEN lists ELSE [lists EXCEPT ![pdtable[0]][s] = r]
  /\ UNCHANGED ret

ReadSata(lba) ==
  /\ Called
  /\ IF FindCmdSlot = -1 THEN ret' = FALSE /\ UNCHANGED <<pc, req, slot, lists>>
     ELSE Prepared([w |-> FALSE, lba |-> lba], FindCmdSlot)
  /\ UNCHANGED stray

\* write_sata does not look whether there is a slot.
WriteSata(lba) ==
  /\ Called
  /\ Prepared([w |-> TRUE, lba |-> lba], FindCmdSlot)
  /\ stray' = (stray \/ FindCmdSlot = -1)

\* The device is not busy: the command is issued.
Issue ==
  /\ pc = "spin" /\ ~busy
  /\ ci' = ci \cup {slot}
  /\ pc' = "wait"
  /\ UNCHANGED <<driver, device, data, lists, tfes, busy, req, slot, ret, stray>>

Leave(result) ==
  /\ ret' = result /\ pc' = "idle" /\ req' = None
  /\ UNCHANGED <<driver, device, data, lists, ci, tfes, busy, slot, stray>>

\* "Port is hung": it was busy for 1000000 rounds.
Hung == pc = "spin" /\ busy /\ Leave(FALSE)

\* The loop that waits for completion.
WaitDone ==
  /\ pc = "wait" /\ slot \notin ci
  /\ pc' = "check"
  /\ UNCHANGED <<driver, device, data, lists, ci, tfes, busy, req, slot, ret, stray>>

\* Mutant: errors are looked for only when the command is over.
WaitErrorNot == pc = "wait" /\ slot \in ci /\ FALSE /\ Leave(FALSE)

WaitError == pc = "wait" /\ slot \in ci /\ tfes /\ Leave(FALSE)

\* Mutant: no second look at the error bit.
ResultUnchecked == TRUE

\* "Check again".
Result == ~tfes

Check == pc = "check" /\ Leave(Result)

-----------------------------------------------------------------------------
(* The controller (external) and the buffer's owner                        *)

\* The engines follow the bits the driver sets; nothing but a stop of the port
\* ends what the controller is doing.
Engine ==
  /\ \/ cr # st /\ run = None /\ cr' = st /\ UNCHANGED fr
     \/ fr # fre /\ fr' = fre /\ UNCHANGED cr
  /\ UNCHANGED <<driver, run, phase, strict, halted, data, lists, ci, tfes, busy, pc,
                 req, slot, ret, stray>>

\* The device is busy for reasons of its own.
Pause ==
  /\ run = None /\ ~halted /\ ~busy /\ busy' = TRUE
  /\ UNCHANGED <<driver, device, data, lists, ci, tfes, pc, req, slot, ret, stray>>
Resume ==
  /\ run = None /\ busy /\ busy' = FALSE
  /\ UNCHANGED <<driver, device, data, lists, ci, tfes, pc, req, slot, ret, stray>>

Fetch ==
  /\ cr /\ fr /\ ~halted /\ ~busy /\ run = None
  /\ \E s \in ci : run' = s
  /\ busy' = TRUE /\ phase' = "fetched"
  /\ UNCHANGED <<driver, cr, fr, strict, halted, data, lists, ci, tfes, pc, req, slot,
                 ret, stray>>

Command == lists[clb][run]

\* The transfer, and the end of a command.
Execute ==
  /\ run # None /\ phase = "fetched" /\ phase' = "done"
  /\ IF Command.w THEN disk' = [disk EXCEPT ![Command.lba] = buf] /\ UNCHANGED buf
     ELSE buf' = disk[Command.lba] /\ UNCHANGED disk
  /\ moved' = TRUE
  /\ UNCHANGED <<driver, cr, fr, run, strict, halted, lists, ci, tfes, busy, pc, req,
                 slot, ret, stray>>
Retire ==
  /\ run # None /\ phase # "fetched"
  /\ run' = None /\ busy' = FALSE /\ ci' = ci \ {run}
  /\ UNCHANGED <<driver, cr, fr, phase, strict, halted, data, lists, tfes, pc, req,
                 slot, ret, stray>>

\* An error spoils what the command was to change.
Fail ==
  /\ run # None /\ phase = "fetched" /\ phase' = "failed"
  /\ \E v \in Val :
       IF Command.w THEN disk' = [disk EXCEPT ![Command.lba] = v] /\ UNCHANGED buf
       ELSE buf' = v /\ UNCHANGED disk
  /\ tfes' = TRUE
  /\ IF strict THEN halted' = TRUE /\ run' = None /\ busy' = FALSE
     ELSE UNCHANGED <<halted, run, busy>>
  /\ UNCHANGED <<driver, cr, fr, strict, moved, lists, ci, pc, req, slot, ret, stray>>

\* fs.c fills common_buf.
Fill ==
  /\ pc = "idle" /\ buf' \in Val \ {buf}
  /\ UNCHANGED <<driver, device, disk, moved, lists, ci, tfes, busy, pc, req, slot, ret,
                 stray>>

AhciInit ==
  /\ \E m \in Machines : pci = m.pci /\ plug = m.plug
  /\ abar = None /\ i = 0 /\ pc = "scan"
  /\ st \in BOOLEAN /\ fre = st /\ cr = st /\ fr = st    \* as the firmware left it
  /\ clb = 0
  /\ lists = [l \in 0 .. Cardinality(Ports) |-> [s \in 0 .. NCS |-> NoCommand]]
  /\ pdtable = [p \in Ports |-> None]
  /\ ci = {} /\ tfes = FALSE /\ busy = FALSE
  /\ req = None /\ slot = 0 /\ ret = FALSE
  /\ run = None /\ phase = "done" /\ strict \in BOOLEAN /\ halted = FALSE
  /\ stray = FALSE
  /\ disk \in [Lba -> Val] /\ buf \in Val /\ moved = FALSE

DriverStep ==
  \/ Scan \/ Probe \/ Rebase \/ StartCmd
  \/ Issue \/ Hung \/ WaitDone \/ WaitError \/ Check
Controller == Engine \/ Resume \/ Fetch \/ Execute \/ Retire \/ Fail

AhciNext ==
  \/ DriverStep
  \/ \E lba \in Lba : ReadSata(lba) \/ WriteSata(lba)
  \/ Controller \/ Pause \/ Fill

AhciSpec == AhciInit /\ [][AhciNext]_ahci

-----------------------------------------------------------------------------
(* Properties                                                              *)

D == INSTANCE Disk WITH
  op <- IF pc \in {"spin", "wait", "check"} THEN req ELSE None

\* The driver and the controller together are a disk: success is reported only
\* for a sector that was moved, although completion and error are two registers
\* read at different times (ahci.c:369-389), errors of an earlier command may
\* still be there, and a failed command may hold its slot while the next one runs.
DiskKept == D!DiskSpec

\* port_rebase moves the command list only while the port reads neither it nor
\* the FIS area (ahci.c:123-141); when requests come the port runs and reads the
\* list the driver writes; and write_sata, which does not look at find_cmdslot's
\* result (ahci.c:398), always finds a slot.  A failed command may still hold one
\* slot, no more: the claim is for controllers with CmdSlots of at least two.
PortSound ==
  /\ pc = "start" => ~cr /\ ~fr
  /\ pc \in {"spin", "wait", "check"} => st /\ fre /\ clb = pdtable[0]
  /\ ~stray

\* Every request returns, unless the controller had stopped at an error before
\* the request began: nothing restarts the port, PxIS has been cleared, and the
\* loop of ahci.c:369-382 has no limit.
RequestsReturn ==
  (pc \in {"spin", "wait", "check"}) ~> (pc = "idle" \/ (halted /\ ~tfes))
=============================================================================
