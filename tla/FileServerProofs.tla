-------------------------- MODULE FileServerProofs --------------------------
(***************************************************************************)
(* The two ends of the file server.  The disk driver and the controller    *)
(* together are a disk, and the port is never moved under the controller's *)
(* feet: for any set of sectors and values, any number of ports, and every *)
(* controller on which find_cmdslot looks at two slots or more.  And every *)
(* program gets the bytes and the names of what it has opened: for any     *)
(* programs, paths and archives, any block size, and any number of         *)
(* handles.                                                                *)
(***************************************************************************)
EXTENDS Vfs, Ahci, ListLemmas, TLAPS

-----------------------------------------------------------------------------
(* The disk driver                                                         *)

\* What a slot of a command list holds, and a request of fs.c.
Cmd == [w : BOOLEAN, lba : Lba \cup {None}]
Asked == [w : BOOLEAN, lba : Lba]

\* The driver has prepared the port; a request is under way.
Work == {"idle", "spin", "wait", "check"}
Requesting == {"spin", "wait", "check"}

\* The ports are numbered from 0, where the disk is.
PlugSound ==
  /\ IsFiniteSet(Ports) /\ 0 \in Ports
  /\ plug \in [0 .. Cardinality(Ports) - 1 -> Device]
  /\ \A p \in Ports : plug[p] = "sata" <=> p = 0

BitType ==
  /\ st \in BOOLEAN /\ fre \in BOOLEAN /\ cr \in BOOLEAN /\ fr \in BOOLEAN
  /\ tfes \in BOOLEAN /\ busy \in BOOLEAN /\ halted \in BOOLEAN /\ strict \in BOOLEAN
  /\ moved \in BOOLEAN /\ stray \in BOOLEAN /\ ret \in BOOLEAN

PlaceType ==
  /\ pc \in {"scan", "probe", "stop", "start"} \cup Work
  /\ i \in Nat
  /\ ci \in SUBSET (0 .. NCS) /\ slot \in 0 .. NCS /\ run \in (0 .. NCS) \cup {None}
  /\ phase \in {"fetched", "done", "failed"}

StoreType ==
  /\ disk \in [Lba -> Val] /\ buf \in Val
  /\ pdtable \in [Ports -> Nat \cup {None}]
  /\ lists \in [0 .. Cardinality(Ports) -> [0 .. NCS -> Cmd]]
  /\ PlugSound

TypeInv == BitType /\ PlaceType /\ StoreType

\* The preparation of port 0: nothing is issued before it is over.
SetupInv ==
  /\ pc = "scan" => i = 0
  /\ pc \in {"stop", "start"} => i = 0 /\ ~st /\ ~fre
  /\ pc = "start" => ~cr /\ ~fr
  /\ pc = "start" \/ pc \in Work \/ (pc = "probe" /\ i > 0) => clb = 1 /\ pdtable[0] = 1
  /\ pc \in Work \/ (pc = "probe" /\ i > 0) => st /\ fre
  /\ pc \notin Work => ci = {} /\ run = None /\ ~halted

(***************************************************************************)
(* The commands issued, seen from where the driver is.  A command the      *)
(* controller executes is the one the driver waits for, or has failed; one *)
(* that has failed may hold its slot, and no other does.                   *)
(***************************************************************************)
CommandInv ==
  /\ run # None => busy /\ ~halted /\ ci = {run}
  /\ halted => ~busy
  /\ pc \in {"idle", "spin"} =>
       /\ \E s \in 0 .. NCS : ci \subseteq {s}
       /\ ~halted /\ run = None => ci = {}
       /\ run # None => phase = "failed"
  /\ pc = "spin" => slot \notin ci /\ ~tfes /\ ~moved
  /\ pc = "wait" =>
       /\ run # None => run = slot
       /\ ~halted => ci \subseteq {slot}
       /\ halted => slot \in ci /\ (tfes => ci = {slot})
       /\ slot \in ci /\ run = None /\ ~halted => ~tfes /\ ~moved
       /\ run # None /\ phase = "fetched" => ~tfes /\ ~moved
       /\ run # None /\ phase = "done" => ~tfes /\ moved
       /\ run # None /\ phase = "failed" => tfes
       /\ slot \notin ci => moved \/ tfes
  /\ pc = "check" => ci = {} /\ run = None /\ ~halted /\ (moved \/ tfes)
  /\ pc \in Requesting => req \in Asked
  /\ pc \in {"spin", "wait"} => lists[1][slot] = req

AhciInv == TypeInv /\ SetupInv /\ CommandInv /\ ~stray
-----------------------------------------------------------------------------
(* Port 0 exists, and its command list has room. *)
LEMMA PortZero ==
  ASSUME TypeInv
  PROVE  0 \in Ports /\ 1 \in 0 .. Cardinality(Ports)
<1>1. IsFiniteSet(Ports) /\ 0 \in Ports
  BY DEF TypeInv, StoreType, PlugSound
<1>2. Cardinality(Ports) \in Nat /\ Cardinality(Ports) # 0
  BY <1>1, FS_CardinalityType, FS_EmptySet
<1> QED BY <1>1, <1>2

(* find_cmdslot finds a slot unless failed commands hold all it looks at. *)
LEMMA SlotFound ==
  ASSUME CmdSlots >= 2, NEW s, ci \subseteq {s}
  PROVE  FindCmdSlot \in 0 .. NCS /\ FindCmdSlot \notin ci /\ FindCmdSlot # -1
<1> DEFINE free == (0 .. CmdSlots - 1) \ ci
<1>1. CmdSlots \in Nat /\ CmdSlots <= NCS
  BY AhciAssumption DEF CmdSlots
<1>2. free \in SUBSET Nat /\ free # {}
  <2>1. 0 \in 0 .. CmdSlots - 1 /\ 1 \in 0 .. CmdSlots - 1 /\ 0 # 1
    BY <1>1
  <2>2. 0 \in free \/ 1 \in free
    BY <2>1
  <2> QED BY <1>1, <2>2
<1>3. Min(free) \in free
  BY <1>2, MinMember
<1>4. FindCmdSlot = Min(free)
  BY <1>2 DEF FindCmdSlot
<1> HIDE DEF free
<1>5. FindCmdSlot \in free
  BY <1>3, <1>4
<1> QED BY <1>1, <1>5, AhciAssumption DEF free

(* What the controller is about to transfer is what the driver waits for. *)
LEMMA Transfers ==
  ASSUME AhciInv, run # None, phase = "fetched"
  PROVE  /\ pc = "wait" /\ ~moved /\ ~tfes
         /\ Command = req /\ req \in Asked
  BY DEF AhciInv, TypeInv, PlaceType, SetupInv, CommandInv, Command, Work, Requesting

(* A call of read_sata or write_sata fills in a free slot. *)
Accepted ==
  /\ pc = "idle" /\ pc' = "spin" /\ tfes' = FALSE /\ moved' = FALSE
  /\ req' \in Asked /\ slot' \in 0 .. NCS /\ slot' \notin ci
  /\ lists' = [lists EXCEPT ![1] = [@ EXCEPT ![slot'] = req']]
  /\ UNCHANGED <<driver, device, disk, buf, ci, busy, ret, stray>>

LEMMA Calls ==
  ASSUME CmdSlots >= 2, AhciInv, NEW lba \in Lba, ReadSata(lba) \/ WriteSata(lba)
  PROVE  Accepted
<1>1. pc = "idle" /\ TypeInv /\ stray = FALSE
  BY DEF ReadSata, WriteSata, Called, AhciInv, TypeInv, BitType
<1>2. pdtable[0] = 1 /\ \E s \in 0 .. NCS : ci \subseteq {s}
  BY <1>1 DEF AhciInv, SetupInv, CommandInv, Work
<1>3. FindCmdSlot \in 0 .. NCS /\ FindCmdSlot \notin ci /\ FindCmdSlot # -1
  BY <1>2, SlotFound
<1>4. PICK r \in Asked : Prepared(r, FindCmdSlot) /\ Called /\ UNCHANGED stray
  BY <1>1, <1>3 DEF ReadSata, WriteSata, Asked
<1> QED BY <1>1, <1>2, <1>3, <1>4 DEF Prepared, Called, Accepted

(* Every step keeps the bits bits, and a slot has been found. *)
LEMMA BitStep ==
  ASSUME CmdSlots >= 2, AhciInv, AhciNext
  PROVE  BitType' /\ ~stray'
<1> USE DEF Work, Requesting
<1>t. TypeInv /\ SetupInv /\ CommandInv /\ ~stray
  BY DEF AhciInv
<1>z. 0 \in Ports /\ 1 \in 0 .. Cardinality(Ports) /\ None \notin Nat /\ NCS \in Nat
  BY <1>t, PortZero, AhciAssumption
<1>1. CASE Scan
  BY <1>t, <1>z, <1>1 DEF Scan, driver, device, data, TypeInv, BitType
<1>2. CASE Probe
  BY <1>t, <1>z, <1>2 DEF Probe, driver, device, data, TypeInv, BitType
<1>3. CASE Rebase
  BY <1>t, <1>z, <1>3 DEF Rebase, driver, device, data, TypeInv, BitType
<1>4. CASE StartCmd
  BY <1>t, <1>z, <1>4 DEF StartCmd, driver, device, data, TypeInv, BitType
<1>5. CASE Issue
  BY <1>t, <1>z, <1>5 DEF Issue, driver, device, data, TypeInv, BitType
<1>6. CASE Hung
  BY <1>t, <1>z, <1>6 DEF Hung, Leave, driver, device, data, TypeInv, BitType
<1>7. CASE WaitDone
  BY <1>t, <1>z, <1>7 DEF WaitDone, driver, device, data, TypeInv, BitType
<1>8. CASE WaitError
  BY <1>t, <1>z, <1>8 DEF WaitError, Leave, driver, device, data, TypeInv, BitType
<1>9. CASE Check
  BY <1>t, <1>z, <1>9 DEF Check, Result, Leave, driver, device, data, TypeInv, BitType
<1>10. CASE Engine
  BY <1>t, <1>z, <1>10 DEF Engine, driver, device, data, TypeInv, BitType
<1>11. CASE Resume
  BY <1>t, <1>z, <1>11 DEF Resume, driver, device, data, TypeInv, BitType
<1>12. CASE Fetch
  BY <1>t, <1>z, <1>12 DEF Fetch, driver, device, data, TypeInv, BitType
<1>13. CASE Execute
  BY <1>t, <1>z, <1>13 DEF Execute, driver, device, data, TypeInv, BitType
<1>14. CASE Retire
  BY <1>t, <1>z, <1>14 DEF Retire, driver, device, data, TypeInv, BitType
<1>15. CASE Fail
  BY <1>t, <1>z, <1>15 DEF Fail, driver, device, data, TypeInv, BitType
<1>16. CASE Pause
  BY <1>t, <1>z, <1>16 DEF Pause, driver, device, data, TypeInv, BitType
<1>17. CASE Fill
  BY <1>t, <1>z, <1>17 DEF Fill, driver, device, data, TypeInv, BitType
<1>18. ASSUME NEW lba \in Lba, ReadSata(lba) \/ WriteSata(lba)
      PROVE  BitType' /\ ~stray'
  BY <1>t, <1>18, Calls DEF Accepted, driver, device, TypeInv, BitType
<1> QED BY <1>1, <1>2, <1>3, <1>4, <1>5, <1>6, <1>7, <1>8, <1>9, <1>10, <1>11, <1>12,
     <1>13, <1>14, <1>15, <1>16, <1>17, <1>18 DEF AhciNext, DriverStep, Controller

(* Every step keeps the driver at one of its places, and slots in range. *)
LEMMA PlaceStep ==
  ASSUME CmdSlots >= 2, AhciInv, AhciNext
  PROVE  PlaceType'
<1> USE DEF Work, Requesting
<1>t. TypeInv /\ SetupInv /\ CommandInv /\ ~stray
  BY DEF AhciInv
<1>z. 0 \in Ports /\ 1 \in 0 .. Cardinality(Ports) /\ None \notin Nat /\ NCS \in Nat
  BY <1>t, PortZero, AhciAssumption
<1>1. CASE Scan
  BY <1>t, <1>z, <1>1 DEF Scan, driver, device, data, TypeInv, PlaceType
<1>2. CASE Probe
  BY <1>t, <1>z, <1>2 DEF Probe, driver, device, data, TypeInv, PlaceType
<1>3. CASE Rebase
  BY <1>t, <1>z, <1>3 DEF Rebase, driver, device, data, TypeInv, PlaceType
<1>4. CASE StartCmd
  BY <1>t, <1>z, <1>4 DEF StartCmd, driver, device, data, TypeInv, PlaceType
<1>5. CASE Issue
  BY <1>t, <1>z, <1>5 DEF Issue, driver, device, data, TypeInv, PlaceType
<1>6. CASE Hung
  BY <1>t, <1>z, <1>6 DEF Hung, Leave, driver, device, data, TypeInv, PlaceType
<1>7. CASE WaitDone
  BY <1>t, <1>z, <1>7 DEF WaitDone, driver, device, data, TypeInv, PlaceType
<1>8. CASE WaitError
  BY <1>t, <1>z, <1>8 DEF WaitError, Leave, driver, device, data, TypeInv, PlaceType
<1>9. CASE Check
  BY <1>t, <1>z, <1>9 DEF Check, Leave, driver, device, data, TypeInv, PlaceType
<1>10. CASE Engine
  BY <1>t, <1>z, <1>10 DEF Engine, driver, device, data, TypeInv, PlaceType
<1>11. CASE Resume
  BY <1>t, <1>z, <1>11 DEF Resume, driver, device, data, TypeInv, PlaceType
<1>12. CASE Fetch
  BY <1>t, <1>z, <1>12 DEF Fetch, driver, device, data, TypeInv, PlaceType
<1>13. CASE Execute
  BY <1>t, <1>z, <1>13 DEF Execute, driver, device, data, TypeInv, PlaceType
<1>14. CASE Retire
  <2>1. ci' \in SUBSET (0 .. NCS)
    BY <1>t, <1>14 DEF Retire, TypeInv, PlaceType
  <2> QED BY <1>t, <1>14, <2>1 DEF Retire, driver, TypeInv, PlaceType
<1>15. CASE Fail
  BY <1>t, <1>z, <1>15 DEF Fail, driver, device, data, TypeInv, PlaceType
<1>16. CASE Pause
  BY <1>t, <1>z, <1>16 DEF Pause, driver, device, data, TypeInv, PlaceType
<1>17. CASE Fill
  BY <1>t, <1>z, <1>17 DEF Fill, driver, device, data, TypeInv, PlaceType
<1>18. ASSUME NEW lba \in Lba, ReadSata(lba) \/ WriteSata(lba)
      PROVE  PlaceType'
  BY <1>t, <1>18, Calls DEF Accepted, driver, device, TypeInv, PlaceType
<1> QED BY <1>1, <1>2, <1>3, <1>4, <1>5, <1>6, <1>7, <1>8, <1>9, <1>10, <1>11, <1>12,
     <1>13, <1>14, <1>15, <1>16, <1>17, <1>18 DEF AhciNext, DriverStep, Controller

(* Every step keeps the types of the sectors, the lists and the ports. *)
LEMMA StoreStep ==
  ASSUME CmdSlots >= 2, AhciInv, AhciNext
  PROVE  StoreType'
<1> USE DEF Work, Requesting
<1>t. TypeInv /\ SetupInv /\ CommandInv /\ ~stray
  BY DEF AhciInv
<1>z. 0 \in Ports /\ 1 \in 0 .. Cardinality(Ports) /\ None \notin Nat /\ NCS \in Nat
  BY <1>t, PortZero, AhciAssumption
<1>1. CASE Scan
  BY <1>t, <1>z, <1>1 DEF Scan, driver, device, data, TypeInv, StoreType, PlugSound,
     Ports
<1>2. CASE Probe
  BY <1>t, <1>z, <1>2 DEF Probe, driver, device, data, TypeInv, StoreType, PlugSound,
     Ports
<1>3. CASE Rebase
  <2>1. i = 0 /\ UNCHANGED <<plug, disk, buf>>
    BY <1>t, <1>3 DEF Rebase, SetupInv, data
  <2>2. pdtable' \in [Ports -> Nat \cup {None}]
    BY <1>t, <1>z, <1>3, <2>1 DEF Rebase, TypeInv, StoreType
  <2>3. NoCommand \in Cmd
    BY DEF NoCommand, Cmd
  <2>4. lists' \in [0 .. Cardinality(Ports) -> [0 .. NCS -> Cmd]]
    BY <1>t, <1>z, <1>3, <2>1, <2>3 DEF Rebase, TypeInv, StoreType
  <2> QED BY <1>t, <2>1, <2>2, <2>4 DEF TypeInv, StoreType, PlugSound, Ports
<1>4. CASE StartCmd
  BY <1>t, <1>z, <1>4 DEF StartCmd, driver, device, data, TypeInv, StoreType, PlugSound,
     Ports
<1>5. CASE Issue
  BY <1>t, <1>z, <1>5 DEF Issue, driver, device, data, TypeInv, StoreType, PlugSound,
     Ports
<1>6. CASE Hung
  BY <1>t, <1>z, <1>6 DEF Hung, Leave, driver, device, data, TypeInv, StoreType,
     PlugSound, Ports
<1>7. CASE WaitDone
  BY <1>t, <1>z, <1>7 DEF WaitDone, driver, device, data, TypeInv, StoreType, PlugSound,
     Ports
<1>8. CASE WaitError
  BY <1>t, <1>z, <1>8 DEF WaitError, Leave, driver, device, data, TypeInv, StoreType,
     PlugSound, Ports
<1>9. CASE Check
  BY <1>t, <1>z, <1>9 DEF Check, Leave, driver, device, data, TypeInv, StoreType,
     PlugSound, Ports
<1>10. CASE Engine
  BY <1>t, <1>z, <1>10 DEF Engine, driver, device, data, TypeInv, StoreType, PlugSound,
     Ports
<1>11. CASE Resume
  BY <1>t, <1>z, <1>11 DEF Resume, driver, device, data, TypeInv, StoreType, PlugSound,
     Ports
<1>12. CASE Fetch
  BY <1>t, <1>z, <1>12 DEF Fetch, driver, device, data, TypeInv, StoreType, PlugSound,
     Ports
<1>13. CASE Execute
  <2>1. Command.lba \in Lba
    BY <1>13, Transfers DEF Execute, Asked
  <2>2. disk' \in [Lba -> Val] /\ buf' \in Val
    BY <1>t, <1>13, <2>1 DEF Execute, TypeInv, StoreType
  <2> QED BY <1>t, <1>13, <2>2 DEF Execute, driver, TypeInv, StoreType, PlugSound, Ports
<1>14. CASE Retire
  BY <1>t, <1>z, <1>14 DEF Retire, driver, device, data, TypeInv, StoreType, PlugSound,
     Ports
<1>15. CASE Fail
  <2>1. Command.lba \in Lba
    BY <1>15, Transfers DEF Fail, Asked
  <2>2. disk' \in [Lba -> Val] /\ buf' \in Val
    BY <1>t, <1>15, <2>1 DEF Fail, TypeInv, StoreType
  <2> QED BY <1>t, <1>15, <2>2 DEF Fail, driver, TypeInv, StoreType, PlugSound, Ports
<1>16. CASE Pause
  BY <1>t, <1>z, <1>16 DEF Pause, driver, device, data, TypeInv, StoreType, PlugSound,
     Ports
<1>17. CASE Fill
  BY <1>t, <1>z, <1>17 DEF Fill, driver, device, data, TypeInv, StoreType, PlugSound,
     Ports
<1>18. ASSUME NEW lba \in Lba, ReadSata(lba) \/ WriteSata(lba)
      PROVE  StoreType'
  <2>1. Accepted /\ req' \in Cmd
    BY <1>18, Calls DEF Accepted, Asked, Cmd
  <2>2. lists' \in [0 .. Cardinality(Ports) -> [0 .. NCS -> Cmd]]
    BY <1>t, <1>z, <2>1 DEF Accepted, TypeInv, StoreType
  <2> QED BY <1>t, <2>1, <2>2 DEF Accepted, driver, TypeInv, StoreType, PlugSound, Ports
<1> QED BY <1>1, <1>2, <1>3, <1>4, <1>5, <1>6, <1>7, <1>8, <1>9, <1>10, <1>11, <1>12,
     <1>13, <1>14, <1>15, <1>16, <1>17, <1>18 DEF AhciNext, DriverStep, Controller

(* Every step keeps what the preparation of the port has reached. *)
LEMMA SetupStep ==
  ASSUME CmdSlots >= 2, AhciInv, AhciNext
  PROVE  SetupInv'
<1> USE DEF Work, Requesting
<1>t. TypeInv /\ SetupInv /\ CommandInv /\ ~stray
  BY DEF AhciInv
<1>z. 0 \in Ports /\ 1 \in 0 .. Cardinality(Ports) /\ None \notin Nat /\ NCS \in Nat
  BY <1>t, PortZero, AhciAssumption
<1>1. CASE Scan
  BY <1>t, <1>z, <1>1 DEF Scan, driver, device, data, TypeInv, BitType, PlaceType,
     SetupInv
<1>2. CASE Probe
  <2>1. i = 0 => ~(plug[i] = "unimplemented" \/ GetType(i) # "sata")
    BY <1>t, <1>z DEF TypeInv, StoreType, PlugSound, GetType
  <2>2. UNCHANGED <<clb, pdtable, cr, fr, ci, run, halted>> /\ pc = "probe"
    BY <1>2 DEF Probe, device
  <2>3. \/ i # 0 /\ pc' \in {"idle", "probe"} /\ i' \in {i, i + 1} /\ UNCHANGED <<st, fre>>
        \/ pc' = "stop" /\ i' = i /\ ~st' /\ ~fre' /\ i \in Ports /\ plug[i] # "unimplemented"
           /\ GetType(i) = "sata"
    BY <1>z, <1>2, <2>1 DEF Probe
  <2>4. CASE i # 0 /\ pc' \in {"idle", "probe"} /\ i' \in {i, i + 1} /\ UNCHANGED <<st, fre>>
    BY <1>t, <2>2, <2>4 DEF TypeInv, PlaceType, SetupInv
  <2>5. CASE pc' = "stop" /\ i' = i /\ ~st' /\ ~fre' /\ i \in Ports /\ plug[i] # "unimplemented"
             /\ GetType(i) = "sata"
    <3>1. plug[i] \in Device /\ (plug[i] = "sata" <=> i = 0)
      BY <1>t, <2>5 DEF TypeInv, StoreType, PlugSound, Ports
    <3>2. i = 0
      BY <2>5, <3>1 DEF GetType, Device
    <3> QED BY <1>t, <2>2, <2>5, <3>2 DEF SetupInv
  <2> QED BY <2>3, <2>4, <2>5
<1>3. CASE Rebase
  <2>1. i = 0 /\ pdtable'[0] = 1
    BY <1>t, <1>z, <1>3 DEF Rebase, TypeInv, StoreType, SetupInv
  <2> QED BY <1>t, <1>3, <2>1 DEF Rebase, Stopped, device, SetupInv
<1>4. CASE StartCmd
  BY <1>t, <1>z, <1>4 DEF StartCmd, driver, device, data, TypeInv, BitType, PlaceType,
     SetupInv
<1>5. CASE Issue
  BY <1>t, <1>z, <1>5 DEF Issue, driver, device, data, TypeInv, BitType, PlaceType,
     SetupInv
<1>6. CASE Hung
  BY <1>t, <1>z, <1>6 DEF Hung, Leave, driver, device, data, TypeInv, BitType,
     PlaceType, SetupInv
<1>7. CASE WaitDone
  BY <1>t, <1>z, <1>7 DEF WaitDone, driver, device, data, TypeInv, BitType, PlaceType,
     SetupInv
<1>8. CASE WaitError
  BY <1>t, <1>z, <1>8 DEF WaitError, Leave, driver, device, data, TypeInv, BitType,
     PlaceType, SetupInv
<1>9. CASE Check
  BY <1>t, <1>z, <1>9 DEF Check, Leave, driver, device, data, TypeInv, BitType,
     PlaceType, SetupInv
<1>10. CASE Engine
  BY <1>t, <1>z, <1>10 DEF Engine, driver, device, data, TypeInv, BitType, PlaceType,
     SetupInv
<1>11. CASE Resume
  BY <1>t, <1>z, <1>11 DEF Resume, driver, device, data, TypeInv, BitType, PlaceType,
     SetupInv
<1>12. CASE Fetch
  BY <1>t, <1>z, <1>12 DEF Fetch, driver, device, data, TypeInv, BitType, PlaceType,
     SetupInv
<1>13. CASE Execute
  BY <1>t, <1>z, <1>13 DEF Execute, driver, device, data, TypeInv, BitType, PlaceType,
     SetupInv
<1>14. CASE Retire
  BY <1>t, <1>z, <1>14 DEF Retire, driver, device, data, TypeInv, BitType, PlaceType,
     SetupInv
<1>15. CASE Fail
  BY <1>t, <1>z, <1>15 DEF Fail, driver, device, data, TypeInv, BitType, PlaceType,
     SetupInv
<1>16. CASE Pause
  BY <1>t, <1>z, <1>16 DEF Pause, driver, device, data, TypeInv, BitType, PlaceType,
     SetupInv
<1>17. CASE Fill
  BY <1>t, <1>z, <1>17 DEF Fill, driver, device, data, TypeInv, BitType, PlaceType,
     SetupInv
<1>18. ASSUME NEW lba \in Lba, ReadSata(lba) \/ WriteSata(lba)
      PROVE  SetupInv'
  BY <1>t, <1>18, Calls DEF Accepted, driver, device, SetupInv
<1> QED BY <1>1, <1>2, <1>3, <1>4, <1>5, <1>6, <1>7, <1>8, <1>9, <1>10, <1>11, <1>12,
     <1>13, <1>14, <1>15, <1>16, <1>17, <1>18 DEF AhciNext, DriverStep, Controller

(* Every step keeps what is known of the commands issued. *)
LEMMA CommandStep ==
  ASSUME CmdSlots >= 2, AhciInv, AhciNext
  PROVE  CommandInv'
<1> USE DEF Work, Requesting
<1>t. TypeInv /\ SetupInv /\ CommandInv /\ ~stray
  BY DEF AhciInv
<1>z. 0 \in Ports /\ 1 \in 0 .. Cardinality(Ports) /\ None \notin Nat /\ NCS \in Nat
  BY <1>t, PortZero, AhciAssumption
<1>1. CASE Scan
  BY <1>t, <1>z, <1>1 DEF Scan, driver, device, data, TypeInv, BitType, PlaceType,
     SetupInv, CommandInv
<1>2. CASE Probe
  BY <1>t, <1>z, <1>2 DEF Probe, driver, device, data, TypeInv, BitType, PlaceType,
     SetupInv, CommandInv
<1>3. CASE Rebase
  BY <1>t, <1>z, <1>3 DEF Rebase, driver, device, data, TypeInv, BitType, PlaceType,
     SetupInv, CommandInv
<1>4. CASE StartCmd
  BY <1>t, <1>z, <1>4 DEF StartCmd, driver, device, data, TypeInv, BitType, PlaceType,
     SetupInv, CommandInv
<1>5. CASE Issue
  BY <1>t, <1>z, <1>5 DEF Issue, driver, device, data, TypeInv, BitType, PlaceType,
     SetupInv, CommandInv
<1>6. CASE Hung
  BY <1>t, <1>z, <1>6 DEF Hung, Leave, driver, device, data, TypeInv, BitType,
     PlaceType, SetupInv, CommandInv
<1>7. CASE WaitDone
  BY <1>t, <1>z, <1>7 DEF WaitDone, driver, device, data, TypeInv, BitType, PlaceType,
     SetupInv, CommandInv
<1>8. CASE WaitError
  BY <1>t, <1>z, <1>8 DEF WaitError, Leave, driver, device, data, TypeInv, BitType,
     PlaceType, SetupInv, CommandInv
<1>9. CASE Check
  BY <1>t, <1>z, <1>9 DEF Check, Leave, driver, device, data, TypeInv, BitType,
     PlaceType, SetupInv, CommandInv
<1>10. CASE Engine
  BY <1>t, <1>z, <1>10 DEF Engine, driver, device, data, TypeInv, BitType, PlaceType,
     SetupInv, CommandInv
<1>11. CASE Resume
  BY <1>t, <1>z, <1>11 DEF Resume, driver, device, data, TypeInv, BitType, PlaceType,
     SetupInv, CommandInv
<1>12. CASE Fetch
  BY <1>t, <1>z, <1>12 DEF Fetch, driver, device, data, TypeInv, BitType, PlaceType,
     SetupInv, CommandInv
<1>13. CASE Execute
  BY <1>t, <1>z, <1>13 DEF Execute, driver, device, data, TypeInv, BitType, PlaceType,
     SetupInv, CommandInv
<1>14. CASE Retire
  BY <1>t, <1>z, <1>14 DEF Retire, driver, device, data, TypeInv, BitType, PlaceType,
     SetupInv, CommandInv
<1>15. CASE Fail
  BY <1>t, <1>z, <1>15 DEF Fail, driver, device, data, TypeInv, BitType, PlaceType,
     SetupInv, CommandInv
<1>16. CASE Pause
  BY <1>t, <1>z, <1>16 DEF Pause, driver, device, data, TypeInv, BitType, PlaceType,
     SetupInv, CommandInv
<1>17. CASE Fill
  BY <1>t, <1>z, <1>17 DEF Fill, driver, device, data, TypeInv, BitType, PlaceType,
     SetupInv, CommandInv
<1>18. ASSUME NEW lba \in Lba, ReadSata(lba) \/ WriteSata(lba)
      PROVE  CommandInv'
  <2>1. Accepted
    BY <1>18, Calls
  <2>2. lists'[1][slot'] = req'
    BY <1>t, <1>z, <2>1 DEF Accepted, TypeInv, StoreType
  <2> QED BY <1>t, <2>1, <2>2 DEF Accepted, device, CommandInv
<1> QED BY <1>1, <1>2, <1>3, <1>4, <1>5, <1>6, <1>7, <1>8, <1>9, <1>10, <1>11, <1>12,
     <1>13, <1>14, <1>15, <1>16, <1>17, <1>18 DEF AhciNext, DriverStep, Controller

LEMMA AhciInitial == AhciInit => AhciInv
<1> SUFFICES ASSUME AhciInit PROVE AhciInv
  OBVIOUS
<1>1. NoCommand \in Cmd /\ NCS \in Nat
  BY AhciAssumption DEF NoCommand, Cmd
<1>2. PICK m \in Machines : pci = m.pci /\ plug = m.plug
  BY DEF AhciInit
<1>3. PlugSound
  BY <1>2, AhciAssumption DEF PlugSound, Ports
<1>4. BitType
  BY DEF AhciInit, BitType
<1>5. PlaceType
  BY <1>1 DEF AhciInit, PlaceType, Work
<1>6. StoreType
  BY <1>1, <1>3 DEF AhciInit, StoreType
<1>7. SetupInv /\ CommandInv /\ ~stray
  BY DEF AhciInit, SetupInv, CommandInv, Work, Requesting
<1> QED BY <1>4, <1>5, <1>6, <1>7 DEF AhciInv, TypeInv

LEMMA AhciStep ==
  ASSUME CmdSlots >= 2, AhciInv, [AhciNext]_ahci
  PROVE  AhciInv'
<1>1. CASE AhciNext
  BY <1>1, BitStep, PlaceStep, StoreStep, SetupStep, CommandStep DEF AhciInv, TypeInv
<1>2. CASE UNCHANGED ahci
  BY <1>2 DEF ahci, driver, device, data, AhciInv, TypeInv, BitType, PlaceType, StoreType,
     PlugSound, SetupInv, CommandInv, Ports
<1> QED BY <1>1, <1>2

LEMMA AhciInvariant ==
  ASSUME CmdSlots >= 2
  PROVE  AhciSpec => []AhciInv
<1>1. AhciInv /\ [AhciNext]_ahci => AhciInv'
  BY AhciStep
<1> QED BY <1>1, AhciInitial, PTL DEF AhciSpec
-----------------------------------------------------------------------------
(***************************************************************************)
(* port_rebase moves the command list of a stopped port only (ahci.c:123), *)
(* requests find the port running on the list the driver writes, and       *)
(* write_sata's unchecked slot is one (ahci.c:398), whatever fails before. *)
(***************************************************************************)
THEOREM PortIsSound ==
  ASSUME CmdSlots >= 2
  PROVE  AhciSpec => []PortSound
<1>1. AhciInv => PortSound
  BY DEF AhciInv, SetupInv, Work, PortSound
<1> QED BY <1>1, AhciInvariant, PTL

(***************************************************************************)
(* The steps of driver and controller are steps of the disk, or invisible. *)
(***************************************************************************)
Visible == D!Prepare \/ D!Ask \/ D!Move \/ D!Spoil \/ D!Return

LEMMA DiskStep ==
  ASSUME CmdSlots >= 2, AhciInv, [AhciNext]_ahci
  PROVE  [Visible]_D!DiskVars
<1>u. CASE UNCHANGED ahci
  BY <1>u DEF ahci, driver, device, data, D!DiskVars
<1>t. TypeInv /\ CommandInv /\ (pc \in Requesting => req \in Asked)
  BY DEF AhciInv, CommandInv
<1>n. \A r \in Asked : r # None
  BY AhciAssumption DEF Asked
<1>1. ASSUME Scan \/ Probe \/ Rebase \/ StartCmd
      PROVE  UNCHANGED D!DiskVars
  BY <1>1 DEF Scan, Probe, Rebase, StartCmd, device, data, D!DiskVars
<1>2. ASSUME Issue \/ WaitDone
      PROVE  UNCHANGED D!DiskVars
  BY <1>2 DEF Issue, WaitDone, driver, device, data, D!DiskVars
<1>3. ASSUME Engine \/ Resume \/ Fetch \/ Retire \/ Pause
      PROVE  UNCHANGED D!DiskVars
  BY <1>3 DEF Engine, Resume, Fetch, Retire, Pause, driver, device, data, D!DiskVars
<1>4. ASSUME Fill
      PROVE  D!Prepare
  BY <1>4 DEF Fill, D!Prepare
<1>5. ASSUME Hung \/ WaitError
      PROVE  D!Return
  BY <1>5, <1>t, <1>n DEF Hung, WaitError, Leave, data, Requesting, D!Return
<1>6. ASSUME Check
      PROVE  D!Return
  BY <1>6, <1>t, <1>n DEF Check, Result, Leave, data, Requesting, TypeInv, BitType,
     CommandInv, D!Return
<1>7. ASSUME Execute
      PROVE  D!Move
  BY <1>7, <1>n, Transfers DEF Execute, D!Move
<1>8. ASSUME Fail
      PROVE  D!Spoil
  BY <1>8, <1>n, Transfers DEF Fail, D!Spoil
<1>9. ASSUME NEW lba \in Lba, ReadSata(lba) \/ WriteSata(lba)
      PROVE  D!Ask
  BY <1>9, Calls DEF Accepted, Asked, D!Ask
<1> QED BY <1>u, <1>1, <1>2, <1>3, <1>4, <1>5, <1>6, <1>7, <1>8, <1>9
     DEF Visible, AhciNext, DriverStep, Controller

(***************************************************************************)
(* read_sata and write_sata, with the controller they poll, are a disk: a  *)
(* request that returns 1 has moved its sector (ahci.c:369-389).           *)
(***************************************************************************)
THEOREM DiskImplemented ==
  ASSUME CmdSlots >= 2
  PROVE  AhciSpec => DiskKept
<1>1. AhciInit => D!DiskInit
  BY DEF AhciInit, D!DiskInit
<1>2. AhciInv /\ [AhciNext]_ahci => [Visible]_D!DiskVars
  BY DiskStep
<1> QED BY <1>1, <1>2, AhciInvariant, PTL DEF AhciSpec, DiskKept, D!DiskSpec, Visible

-----------------------------------------------------------------------------
(* The members of a list that are in a set                                 *)

Picks(p, s, S, V) ==
  /\ p \in [0 .. Len(s) -> Seq(V)] /\ p[0] = <<>>
  /\ \A v \in 1 .. Len(s) : p[v] = IF s[v] \in S THEN Append(p[v - 1], s[v]) ELSE p[v - 1]

LEMMA PickedSteps ==
  ASSUME NEW V, NEW s \in Seq(V), NEW S
  PROVE  \E p : Picks(p, s, S, V) /\ Picked(s, S) = p[Len(s)]
<1> DEFINE n == Len(s)
           One(v, q) == IF s[v] \in S THEN Append(q, s[v]) ELSE q
           Body(g) == [v \in 0 .. n |-> IF v = 0 THEN <<>>
                         ELSE IF s[v] \in S THEN Append(g[v - 1], s[v]) ELSE g[v - 1]]
           f == [z \in (1 .. n) \X Seq(V) |-> One(z[1], z[2])]
           c == CHOOSE g : g = Body(g)
<1>1. Picked(s, S) = c[n]
  BY DEF Picked
<1>2. n \in Nat /\ \A v \in 1 .. n : s[v] \in V
  OBVIOUS
<1>3. \A v \in 1 .. n, q \in Seq(V) : One(v, q) \in Seq(V)
  BY <1>2
<1>4. f \in [(1 .. n) \X Seq(V) -> Seq(V)] /\ \A v \in 1 .. n, q \in Seq(V) : f[<<v, q>>] = One(v, q)
  <2> HIDE DEF One
  <2> QED BY <1>3
<1> HIDE DEF f
<1>5a. <<>> \in Seq(V)
  OBVIOUS
<1>5. PICK e \in Seq(V) : e = <<>>
  BY <1>5a
<1>6. PICK g : Iterates(g, f, e, n, Seq(V))
  <2> HIDE DEF n
  <2> QED BY <1>2, <1>4, <1>5, Iterate
<1>7. g \in [0 .. n -> Seq(V)] /\ g[0] = e /\ \A v \in 1 .. n : g[v] = f[<<v, g[v - 1]>>]
  BY <1>6 DEF Iterates
<1>8. \A v \in 1 .. n : v - 1 \in 0 .. n /\ v \in 0 .. n /\ v # 0 /\ g[v] = One(v, g[v - 1])
  <2> SUFFICES ASSUME NEW v \in 1 .. n PROVE v - 1 \in 0 .. n /\ v \in 0 .. n /\ v # 0 /\ g[v] = One(v, g[v - 1])
    OBVIOUS
  <2>1. v - 1 \in 0 .. n /\ v \in 0 .. n /\ v # 0
    BY <1>2
  <2>2. g[v - 1] \in Seq(V)
    BY <1>7, <2>1
  <2> HIDE DEF One
  <2> QED BY <1>4, <1>7, <2>1, <2>2
<1>9. \A v \in 0 .. n : g[v] = IF v = 0 THEN <<>>
                          ELSE IF s[v] \in S THEN Append(g[v - 1], s[v]) ELSE g[v - 1]
  <2> SUFFICES ASSUME NEW v \in 0 .. n, v # 0
               PROVE  g[v] = IF s[v] \in S THEN Append(g[v - 1], s[v]) ELSE g[v - 1]
    BY <1>5, <1>7
  <2>1. v \in 1 .. n
    BY <1>2
  <2> QED BY <1>8, <2>1
<1>10. g = Body(g)
  <2>1. g = [v \in 0 .. n |-> g[v]]
    BY <1>7
  <2> HIDE DEF n
  <2> QED BY <1>9, <2>1
<1>11. c = Body(c)
  <2> HIDE DEF Body
  <2> QED BY <1>10
<1> HIDE DEF c
<1> DEFINE r(v) == IF v = 0 THEN <<>>
                   ELSE IF s[v] \in S THEN Append(c[v - 1], s[v]) ELSE c[v - 1]
<1>12. \A v \in 0 .. n : c[v] = r(v)
  <2>1. c = [v \in 0 .. n |-> r(v)]
    BY <1>11
  <2> HIDE DEF r
  <2> QED BY <2>1
<1>13. DOMAIN c = 0 .. n
  BY <1>11
<1> DEFINE T == {v \in 0 .. n : c[v] = g[v]}
<1>14. 0 .. n \subseteq T
  <2>1. 0 \in T
    BY <1>2, <1>5, <1>7, <1>12
  <2>2. ASSUME NEW v \in 1 .. n, v - 1 \in T PROVE v \in T
    BY <1>8, <1>9, <1>12, <2>2
  <2> HIDE DEF T, n
  <2> QED BY <1>2, <2>1, <2>2, UpTo
<1>15. c[n] = g[n]
  BY <1>2, <1>14
<1>16. Picks(g, s, S, V)
  BY <1>5, <1>7, <1>8 DEF Picks
<1> QED BY <1>1, <1>15, <1>16

LEMMA PickedIs ==
  ASSUME NEW V, NEW s \in Seq(V), NEW S, IsInjective(s)
  PROVE  /\ Picked(s, S) \in Seq(V) /\ IsInjective(Picked(s, S))
         /\ Range(Picked(s, S)) = Range(s) \cap S
<1>1. PICK p : Picks(p, s, S, V) /\ Picked(s, S) = p[Len(s)]
  BY PickedSteps
<1>2. Len(s) \in Nat /\ DOMAIN s = 1 .. Len(s) /\ \A v \in 1 .. Len(s) : s[v] \in V
  OBVIOUS
<1> DEFINE Sofar(v) == {s[j] : j \in 1 .. v}
           T == {v \in 0 .. Len(s) : IsInjective(p[v]) /\ Range(p[v]) = Sofar(v) \cap S}
<1>3. 0 \in T
  <2>1. p[0] = <<>>
    BY <1>1 DEF Picks
  <2> QED BY <1>2, <2>1 DEF IsInjective, Range
<1>4. ASSUME NEW v \in 1 .. Len(s), v - 1 \in T PROVE v \in T
  <2>1. v \in 0 .. Len(s) /\ v - 1 \in 0 .. Len(s)
    BY <1>2
  <2>2. p[v - 1] \in Seq(V) /\ IsInjective(p[v - 1]) /\ Range(p[v - 1]) = Sofar(v - 1) \cap S
    BY <1>1, <1>4, <2>1 DEF Picks
  <2>3. Sofar(v) = Sofar(v - 1) \cup {s[v]}
    BY <1>2
  <2>4. s[v] \notin Sofar(v - 1)
    <3> SUFFICES ASSUME NEW j \in 1 .. v - 1, s[j] = s[v] PROVE FALSE
      OBVIOUS
    <3>1. j \in DOMAIN s /\ v \in DOMAIN s /\ j # v
      BY <1>2
    <3> QED BY <3>1 DEF IsInjective
  <2> HIDE DEF Sofar
  <2>5. CASE s[v] \in S
    <3>1. p[v] = Append(p[v - 1], s[v])
      BY <1>1, <2>5 DEF Picks
    <3>2. s[v] \notin Range(p[v - 1])
      BY <2>2, <2>4
    <3>3. IsInjective(Append(p[v - 1], s[v])) /\ Range(Append(p[v - 1], s[v])) = Range(p[v - 1]) \cup {s[v]}
      BY <1>2, <2>2, <3>2, AppendDistinct
    <3> QED BY <2>1, <2>2, <2>3, <2>5, <3>1, <3>3
  <2>6. CASE s[v] \notin S
    <3>1. p[v] = p[v - 1]
      BY <1>1, <2>6 DEF Picks
    <3> QED BY <2>1, <2>2, <2>3, <2>6, <3>1
  <2> QED BY <2>5, <2>6
<1>5. Len(s) \in T
  <2> HIDE DEF T
  <2>1. 0 .. Len(s) \subseteq T
    BY <1>2, <1>3, <1>4, UpTo
  <2> QED BY <1>2, <2>1
<1>6. p[Len(s)] \in Seq(V)
  BY <1>1, <1>2 DEF Picks
<1>7. Range(s) = Sofar(Len(s))
  BY <1>2 DEF Range
<1> QED BY <1>1, <1>5, <1>6, <1>7

-----------------------------------------------------------------------------
(* Numbers                                                                 *)

(* The constants, one fact at a time. *)
LEMMA Sizes ==
  /\ BlockSize \in Nat /\ BlockSize > 0 /\ MaxHandles \in Nat /\ Big \in Nat /\ MaxPos \in Nat
  /\ Counts \subseteq Nat /\ Offsets \subseteq Int
  /\ "tarfs" \in Name /\ "sata" \in Name /\ "no_such_name" \in Name
  BY VfsAssumption

(* Multiples of the block size. *)
LEMMA Product ==
  ASSUME NEW a \in Nat
  PROVE  /\ a * BlockSize \in Nat /\ (a + 1) * BlockSize = a * BlockSize + BlockSize
<1>1. BlockSize \in Nat
  BY Sizes
<1> QED BY <1>1

LEMMA ProductLess ==
  ASSUME NEW a \in Nat, NEW b \in Nat, a < b
  PROVE  a * BlockSize + BlockSize <= b * BlockSize
<1>1. BlockSize \in Nat
  BY Sizes
<1> QED BY <1>1

(* A position is an offset in a block. *)
LEMMA Split ==
  ASSUME NEW x \in Nat
  PROVE  /\ x \div BlockSize \in Nat
         /\ x % BlockSize \in Nat /\ x % BlockSize < BlockSize
         /\ x = (x \div BlockSize) * BlockSize + (x % BlockSize)
<1>1. BlockSize \in Nat /\ BlockSize > 0
  BY Sizes
<1> QED BY <1>1

LEMMA Quotient ==
  ASSUME NEW x \in Nat, NEW q \in Nat, q * BlockSize <= x, x < q * BlockSize + BlockSize
  PROVE  x \div BlockSize = q
<1>1. PICK b \in Nat, qb \in Nat : b = BlockSize /\ qb = q * BlockSize
  BY Sizes, Product
<1>2. PICK d \in Nat, m \in Nat : d = x \div BlockSize /\ m = x % BlockSize
  BY Split
<1>3. PICK db \in Nat : db = d * BlockSize
  BY Product
<1>4. x = db + m /\ m < b
  BY <1>1, <1>2, <1>3, Split
<1>5. ~(q < d)
  <2> SUFFICES ASSUME q < d PROVE FALSE
    OBVIOUS
  <2>1. qb + b <= db
    BY <1>1, <1>3, ProductLess
  <2> QED BY <1>1, <1>4, <2>1
<1>6. ~(d < q)
  <2> SUFFICES ASSUME d < q PROVE FALSE
    OBVIOUS
  <2>1. db + b <= qb
    BY <1>1, <1>3, ProductLess
  <2> QED BY <1>1, <1>4, <2>1
<1> QED BY <1>2, <1>5, <1>6

(* The blocks tarfs_init skips are those tar writes, and they hold the member. *)
LEMMA BlocksOfSize ==
  ASSUME NEW n \in Nat
  PROVE  /\ Up(n, BlockSize) \in Nat /\ BlockCount(n) = Up(n, BlockSize)
         /\ \A k \in 0 .. n - 1 : k \div BlockSize + 1 \in 1 .. Up(n, BlockSize)
<1>1. PICK b \in Nat : b = BlockSize /\ b > 0
  BY Sizes
<1>2. PICK q \in Nat, r \in Nat, qb \in Nat :
        q = n \div BlockSize /\ r = n % BlockSize /\ qb = q * BlockSize /\ r < b /\ n = qb + r
  BY <1>1, Split, Product
<1>3. Up(n, BlockSize) = (n + b - 1) \div BlockSize /\ n + b - 1 \in Nat
  BY <1>1 DEF Up
<1>4. ASSUME r = 0 PROVE Up(n, BlockSize) = q
  <2>1. qb <= n + b - 1 /\ n + b - 1 < qb + b
    BY <1>1, <1>2, <1>4
  <2> QED BY <1>1, <1>2, <1>3, <2>1, Quotient
<1>5. ASSUME r # 0 PROVE Up(n, BlockSize) = q + 1
  <2>1. (q + 1) * BlockSize = qb + b /\ q + 1 \in Nat
    BY <1>1, <1>2, Product
  <2>2. qb + b <= n + b - 1 /\ n + b - 1 < qb + b + b
    BY <1>1, <1>2, <1>5
  <2> QED BY <1>1, <1>2, <1>3, <2>1, <2>2, Quotient
<1>6. BlockCount(n) = IF r = 0 THEN q ELSE q + 1
  BY <1>2 DEF BlockCount
<1>7. ASSUME NEW k \in 0 .. n - 1 PROVE k \div BlockSize + 1 \in 1 .. Up(n, BlockSize)
  <2>1. PICK d \in Nat, db \in Nat, e \in Nat :
          d = k \div BlockSize /\ db = d * BlockSize /\ e < b /\ k = db + e
    BY <1>1, <1>2, Split, Product
  <2>2. ~(q < d)
    <3> SUFFICES ASSUME q < d PROVE FALSE
      OBVIOUS
    <3>1. qb + b <= db
      BY <1>1, <1>2, <2>1, ProductLess
    <3> QED BY <1>1, <1>2, <2>1, <3>1
  <2>3. r = 0 => d # q
    BY <1>2, <2>1
  <2> QED BY <1>2, <1>4, <1>5, <2>1, <2>2, <2>3
<1> QED BY <1>2, <1>4, <1>5, <1>6, <1>7

-----------------------------------------------------------------------------
(* Where the members of an archive begin                                   *)

Member == [name : Seq(Name) \ {<<>>}, size : Nat]
BlockSet == [name : Seq(Name), size : Nat, bytes : Seq(Seq(Name) \X Int)]

HeadOf(m)    == [name |-> m.name, size |-> m.size, bytes |-> <<>>]
ByteOf(m, k) == <<m.name, IF k < m.size THEN k ELSE -1>>
DataOf(m, b) == [name |-> <<>>, size |-> 0, bytes |->
                   [k \in 1 .. BlockSize |-> ByteOf(m, (b - 1) * BlockSize + k - 1)]]
BlocksOf(m)  == <<HeadOf(m)>> \o [b \in 1 .. Up(m.size, BlockSize) |-> DataOf(m, b)]
Zeros        == [b \in 1 .. 2 |-> [name |-> <<>>, size |-> 0, bytes |-> <<>>]]

\* s[j] is the header of member j, the last one the first block of zeros.
Begins(s, ms) ==
  LET n == Len(ms)
  IN  /\ s \in [1 .. n + 1 -> Nat] /\ s[1] = 1
      /\ \A j \in 1 .. n :
           /\ s[j + 1] = s[j] + Up(ms[j].size, BlockSize) + 1
           /\ Layout(ms)[s[j]].name = ms[j].name /\ Layout(ms)[s[j]].size = ms[j].size
           /\ \A b \in 1 .. Up(ms[j].size, BlockSize) : Layout(ms)[s[j] + b] = DataOf(ms[j], b)
      /\ Layout(ms)[s[n + 1]].name = <<>>

(* The blocks of one member. *)
LEMMA BlocksOfMember ==
  ASSUME NEW m \in Member
  PROVE  /\ BlocksOf(m) \in Seq(BlockSet) /\ Len(BlocksOf(m)) = Up(m.size, BlockSize) + 1
         /\ BlocksOf(m)[1] = HeadOf(m)
         /\ \A b \in 1 .. Up(m.size, BlockSize) : BlocksOf(m)[b + 1] = DataOf(m, b)
<1>1. PICK u \in Nat : u = Up(m.size, BlockSize)
  BY BlocksOfSize DEF Member
<1>2. m.name \in Seq(Name) /\ m.size \in Nat
  BY DEF Member
<1>3. HeadOf(m) \in BlockSet
  <2>1. <<>> \in Seq(Seq(Name) \X Int)
    OBVIOUS
  <2> QED BY <1>2, <2>1 DEF HeadOf, BlockSet
<1>4. \A b \in 1 .. u : DataOf(m, b) \in BlockSet
  <2> SUFFICES ASSUME NEW b \in 1 .. u PROVE DataOf(m, b) \in BlockSet
    OBVIOUS
  <2>1. ASSUME NEW k \in 1 .. BlockSize
        PROVE  ByteOf(m, (b - 1) * BlockSize + k - 1) \in Seq(Name) \X Int
    <3>1. b - 1 \in Nat /\ (b - 1) * BlockSize \in Nat
      BY <1>1, Product
    <3>2. PICK y \in Nat : y = (b - 1) * BlockSize
      BY <3>1
    <3>2a. y + k - 1 \in Int
      BY Sizes
    <3>3. PICK x \in Int : x = (b - 1) * BlockSize + k - 1
      BY <3>2, <3>2a
    <3> QED BY <1>2, <3>3 DEF ByteOf
  <2> DEFINE B == [k \in 1 .. BlockSize |-> ByteOf(m, (b - 1) * BlockSize + k - 1)]
  <2>2. B \in Seq(Seq(Name) \X Int)
    <3> HIDE DEF ByteOf
    <3>1. B \in [1 .. BlockSize -> Seq(Name) \X Int] /\ BlockSize \in Nat
      BY <2>1, Sizes
    <3> HIDE DEF B
    <3> QED BY <3>1
  <2>3. DataOf(m, b) = [name |-> <<>>, size |-> 0, bytes |-> B]
    BY DEF DataOf
  <2> HIDE DEF B
  <2>4. <<>> \in Seq(Name)
    OBVIOUS
  <2> QED BY <2>2, <2>3, <2>4 DEF BlockSet
<1> DEFINE Own == [b \in 1 .. u |-> DataOf(m, b)]
<1>5. Own \in Seq(BlockSet) /\ Len(Own) = u /\ \A b \in 1 .. u : Own[b] = DataOf(m, b)
  <2> HIDE DEF DataOf
  <2> QED BY <1>1, <1>4
<1>6. <<HeadOf(m)>> \in Seq(BlockSet) /\ Len(<<HeadOf(m)>>) = 1 /\ <<HeadOf(m)>>[1] = HeadOf(m)
  BY <1>3
<1>7. BlocksOf(m) = <<HeadOf(m)>> \o Own
  BY <1>1 DEF BlocksOf
<1> HIDE DEF Own, HeadOf, DataOf
<1>8. PICK h \in Seq(BlockSet) : h = <<HeadOf(m)>> /\ Len(h) = 1 /\ h[1] = HeadOf(m)
  BY <1>6
<1> QED BY <1>1, <1>5, <1>7, <1>8

(* Archives are lists of members. *)
LEMMA ArchiveMembers ==
  ASSUME NEW ms \in Archives
  PROVE  /\ ms \in Seq(Member) /\ Len(ms) \in Nat /\ DOMAIN ms = 1 .. Len(ms)
         /\ \A j \in 1 .. Len(ms) :
              /\ ms[j] \in Member /\ ms[j].name \in Seq(Name) /\ ms[j].name # <<>>
              /\ ms[j].size \in Nat
         /\ \A v, j \in 1 .. Len(ms) : ms[v].name = ms[j].name => v = j
<1>1. ms \in Seq(Member)
  BY VfsAssumption DEF Member
<1>2. \A j \in 1 .. Len(ms) : ms[j] \in Member
  BY <1>1
<1>3. DOMAIN ms = 1 .. Len(ms) /\ Len(ms) \in Nat
  BY <1>1
<1>4. \A v, j \in 1 .. Len(ms) : ms[v].name = ms[j].name => v = j
  BY <1>3, VfsAssumption
<1> QED BY <1>1, <1>2, <1>3, <1>4 DEF Member

(* The zeros behind a layout. *)
LEMMA ZerosAre == Zeros \in Seq(BlockSet) /\ Len(Zeros) = 2 /\ Zeros[1].name = <<>>
<1>1. PICK z : z = [name |-> <<>>, size |-> 0, bytes |-> <<>>]
  OBVIOUS
<1>2. <<>> \in Seq(Name) /\ <<>> \in Seq(Seq(Name) \X Int)
  OBVIOUS
<1>3. z \in BlockSet /\ z.name = <<>>
  BY <1>1, <1>2 DEF BlockSet
<1>4. Zeros = [b \in 1 .. 2 |-> z]
  BY <1>1 DEF Zeros
<1> QED BY <1>3, <1>4

LEMMA LayoutBegins ==
  ASSUME NEW ms \in Archives
  PROVE  \E s : Begins(s, ms)
<1>1. PICK n \in Nat : n = Len(ms) /\ DOMAIN ms = 1 .. n
  BY ArchiveMembers
<1> DEFINE ss == [j \in DOMAIN ms |-> BlocksOf(ms[j])]
           U(j) == Up(ms[j].size, BlockSize)
<1>2. \A j \in 1 .. n :
         /\ ss[j] \in Seq(BlockSet) /\ Len(ss[j]) = U(j) + 1 /\ U(j) \in Nat
         /\ ss[j][1] = HeadOf(ms[j]) /\ \A b \in 1 .. U(j) : ss[j][b + 1] = DataOf(ms[j], b)
  <2> SUFFICES ASSUME NEW j \in 1 .. n
               PROVE  /\ ss[j] \in Seq(BlockSet) /\ Len(ss[j]) = U(j) + 1 /\ U(j) \in Nat
                      /\ ss[j][1] = HeadOf(ms[j])
                      /\ \A b \in 1 .. U(j) : ss[j][b + 1] = DataOf(ms[j], b)
    OBVIOUS
  <2>1. ms[j] \in Member /\ ss[j] = BlocksOf(ms[j]) /\ U(j) \in Nat
    BY <1>1, ArchiveMembers, BlocksOfSize
  <2> HIDE DEF ss
  <2> QED BY <2>1, BlocksOfMember
<1>3. ss \in Seq(Seq(BlockSet)) /\ Len(ss) = n
  <2>1. ss \in [1 .. n -> Seq(BlockSet)]
    <3>1. \A j \in DOMAIN ms : BlocksOf(ms[j]) \in Seq(BlockSet)
      BY <1>1, ArchiveMembers, BlocksOfMember
    <3> QED BY <1>1, <3>1
  <2> HIDE DEF ss
  <2> QED BY <2>1
<1>4. Layout(ms) = FlattenSeq(ss) \o Zeros
  BY DEF Layout, BlocksOf, HeadOf, DataOf, ByteOf, Zeros
<1> HIDE DEF ss, U
<1>5a. PICK f \in Seq(BlockSet) : f = FlattenSeq(ss) /\ \E p : Places(p, ss, f)
  BY <1>3, FlattenPlaces
<1>5. PICK p : f = FlattenSeq(ss) /\ Places(p, ss, f)
  BY <1>5a
<1>6. /\ p \in [1 .. n + 1 -> Nat] /\ p[1] = 0 /\ p[n + 1] = Len(f)
      /\ \A j \in 1 .. n : p[j + 1] = p[j] + Len(ss[j])
      /\ \A j \in 1 .. n : \A x \in 1 .. Len(ss[j]) :
           p[j] + x \in 1 .. Len(f) /\ f[p[j] + x] = ss[j][x]
  BY <1>3, <1>5 DEF Places
<1>7. PICK l \in Nat : l = Len(f)
  OBVIOUS
<1>8. /\ \A x \in 1 .. l : Layout(ms)[x] = f[x]
      /\ Layout(ms)[l + 1] = Zeros[1]
  <2>1. Joined(Layout(ms), f, Zeros)
    BY <1>4, <1>5, ZerosAre, Join
  <2> QED BY <1>7, <2>1, ZerosAre DEF Joined
<1> DEFINE s == [j \in 1 .. n + 1 |-> p[j] + 1]
<1>9. s \in [1 .. n + 1 -> Nat] /\ \A j \in 1 .. n + 1 : s[j] = p[j] + 1
  BY <1>6
<1> HIDE DEF s
<1>10. ASSUME NEW j \in 1 .. n
       PROVE  /\ s[j + 1] = s[j] + U(j) + 1
              /\ Layout(ms)[s[j]] = HeadOf(ms[j])
              /\ \A b \in 1 .. U(j) : Layout(ms)[s[j] + b] = DataOf(ms[j], b)
  <2>1. j \in 1 .. n + 1 /\ j + 1 \in 1 .. n + 1
    BY <1>1
  <2>2. PICK u \in Nat, a \in Nat : u = U(j) /\ a = p[j] /\ Len(ss[j]) = u + 1
    BY <1>2, <1>6, <2>1
  <2>3. s[j] = a + 1 /\ s[j + 1] = p[j + 1] + 1 /\ p[j + 1] = a + (u + 1)
    BY <1>6, <1>9, <2>1, <2>2
  <2>4. \A x \in 1 .. u + 1 : a + x \in 1 .. l /\ f[a + x] = ss[j][x]
    BY <1>6, <1>7, <2>2
  <2>5. \A x \in 1 .. u + 1 : Layout(ms)[a + x] = ss[j][x]
    BY <1>8, <2>4
  <2>6. Layout(ms)[a + 1] = HeadOf(ms[j])
    BY <1>2, <2>2, <2>5
  <2>7. ASSUME NEW b \in 1 .. u PROVE Layout(ms)[s[j] + b] = DataOf(ms[j], b)
    <3>a. s[j] = a + 1
      BY <2>3
    <3>b. b + 1 \in 1 .. u + 1 /\ (a + 1) + b = a + (b + 1)
      OBVIOUS
    <3>1. b + 1 \in 1 .. u + 1 /\ s[j] + b = a + (b + 1)
      BY <3>a, <3>b
    <3>2. Layout(ms)[a + (b + 1)] = ss[j][b + 1]
      BY <2>5, <3>1
    <3> QED BY <1>2, <2>2, <3>1, <3>2
  <2>8. s[j + 1] = s[j] + u + 1
    BY <2>3
  <2>9. Layout(ms)[s[j]] = HeadOf(ms[j])
    BY <2>3, <2>6
  <2> QED BY <2>2, <2>7, <2>8, <2>9
<1>11. Layout(ms)[s[n + 1]].name = <<>>
  <2>1. n + 1 \in 1 .. n + 1
    BY <1>1
  <2>2. s[n + 1] = l + 1
    BY <1>6, <1>7, <1>9, <2>1
  <2> QED BY <1>8, <2>2, ZerosAre
<1>12. s[1] = 1
  <2>1. 1 \in 1 .. n + 1
    BY <1>1
  <2> QED BY <1>6, <1>9, <2>1
<1>13. Begins(s, ms)
  <2>1. \A j \in 1 .. n : /\ Layout(ms)[s[j]].name = ms[j].name
                          /\ Layout(ms)[s[j]].size = ms[j].size
    <3> SUFFICES ASSUME NEW j \in 1 .. n
                 PROVE  /\ Layout(ms)[s[j]].name = ms[j].name
                        /\ Layout(ms)[s[j]].size = ms[j].size
      OBVIOUS
    <3>1. Layout(ms)[s[j]] = HeadOf(ms[j])
      BY <1>10
    <3>2. HeadOf(ms[j]).name = ms[j].name /\ HeadOf(ms[j]).size = ms[j].size
      BY DEF HeadOf
    <3> QED BY <3>1, <3>2
  <2> QED BY <1>1, <1>9, <1>10, <1>11, <1>12, <2>1 DEF Begins, U
<1> QED BY <1>13

-----------------------------------------------------------------------------
(* The table that tarfs_init makes                                         *)

Entry == [name : Seq(Name), len : Nat, data : Nat, subdirs : Seq(Nat)]

\* Where the members begin, and the members that a directory lists: among the first
\* v, they are Chosen(ms, dir)[v].
StartOf(ms) == CHOOSE s : Begins(s, ms)
Ids(ms) == [j \in DOMAIN ms |-> j]
InDir(ms, dir) ==
  {j \in DOMAIN ms : /\ Front(ms[j].name) = dir
                     /\ dir = <<>> \/ \E k \in 1 .. j - 1 : ms[k].name = dir}
Chooses(p, ms, dir) ==
  /\ Picks(p, Ids(ms), InDir(ms, dir), Nat)
  /\ Picked(Ids(ms), InDir(ms, dir)) = p[Len(ms)]
Chosen(ms, dir) == CHOOSE p : Chooses(p, ms, dir)

\* Entry numbers are those of members and one for the root in front.
Shifted(s, q) == Len(s) = Len(q) /\ \A k \in 1 .. Len(q) : s[k] = q[k] + 1

\* es is the table after the first Len(es) - 1 members of ms.
Table(ms, es) ==
  /\ es \in Seq(Entry) /\ Len(es) \in 1 .. Len(ms) + 1
  /\ es[1].name = <<>> /\ es[1].len = 0
  /\ \A j \in 1 .. Len(es) - 1 :
       /\ es[j + 1].name = ms[j].name /\ es[j + 1].len = ms[j].size
       /\ es[j + 1].data = StartOf(ms)[j] + 1
  /\ \A e \in 1 .. Len(es) : Shifted(es[e].subdirs, Chosen(ms, es[e].name)[Len(es) - 1])

LEMMA StartIs ==
  ASSUME NEW ms \in Archives
  PROVE  Begins(StartOf(ms), ms)
  BY LayoutBegins DEF StartOf

LEMMA IdsAre ==
  ASSUME NEW ms \in Archives
  PROVE  /\ Ids(ms) \in Seq(Nat) /\ Len(Ids(ms)) = Len(ms) /\ IsInjective(Ids(ms))
         /\ \A j \in 1 .. Len(ms) : Ids(ms)[j] = j
<1>1. PICK n \in Nat : n = Len(ms) /\ DOMAIN ms = 1 .. n
  BY ArchiveMembers
<1>2. Ids(ms) = [j \in 1 .. n |-> j]
  BY <1>1 DEF Ids
<1> QED BY <1>1, <1>2 DEF IsInjective

(* The members a directory lists, one by one. *)
LEMMA ChosenIs ==
  ASSUME NEW ms \in Archives, NEW dir
  PROVE  /\ Chooses(Chosen(ms, dir), ms, dir)
         /\ Chosen(ms, dir) \in [0 .. Len(ms) -> Seq(Nat)] /\ Chosen(ms, dir)[0] = <<>>
         /\ \A v \in 1 .. Len(ms) :
              Chosen(ms, dir)[v] = IF v \in InDir(ms, dir) THEN Append(Chosen(ms, dir)[v - 1], v)
                                   ELSE Chosen(ms, dir)[v - 1]
<1>1. Chooses(Chosen(ms, dir), ms, dir)
  <2>1. \E p : Chooses(p, ms, dir)
    BY IdsAre, PickedSteps DEF Chooses
  <2> QED BY <2>1 DEF Chosen
<1>2. PICK p : p = Chosen(ms, dir)
  OBVIOUS
<1>3. Picks(p, Ids(ms), InDir(ms, dir), Nat)
  BY <1>1, <1>2 DEF Chooses
<1>4. Len(Ids(ms)) = Len(ms) /\ \A j \in 1 .. Len(ms) : Ids(ms)[j] = j
  BY IdsAre
<1> QED BY <1>1, <1>2, <1>3, <1>4 DEF Picks

(* A member's directory has fewer than 30 entries before it. *)
LEMMA ChosenFew ==
  ASSUME NEW ms \in Archives, NEW v \in 0 .. Len(ms), NEW j \in 1 .. Len(ms)
  PROVE  Len(Chosen(ms, Front(ms[j].name))[v]) < 30
<1>1. PICK n \in Nat : n = Len(ms) /\ DOMAIN ms = 1 .. n
  BY ArchiveMembers
<1>2. PICK dir : dir = Front(ms[j].name)
  OBVIOUS
<1>3. PICK p : p = Chosen(ms, dir)
  OBVIOUS
<1>4. /\ p \in [0 .. n -> Seq(Nat)] /\ p[0] = <<>>
      /\ \A k \in 1 .. n : p[k] = IF k \in InDir(ms, dir) THEN Append(p[k - 1], k) ELSE p[k - 1]
  BY <1>1, <1>3, ChosenIs
<1> DEFINE Own == {k \in 1 .. n : Front(ms[k].name) = dir}
           T == {k \in 0 .. n : IsInjective(p[k]) /\ Range(p[k]) \subseteq Own \cap 1 .. k}
<1>5. InDir(ms, dir) \subseteq Own
  BY <1>1 DEF InDir
<1>6. 0 \in T
  BY <1>1, <1>4 DEF IsInjective, Range
<1>7. ASSUME NEW k \in 1 .. n, k - 1 \in T PROVE k \in T
  <2>0. k \in 0 .. n /\ k - 1 \in 0 .. n /\ k \in Nat
    BY <1>1
  <2>1. k \in 0 .. n /\ k - 1 \in 0 .. n /\ p[k - 1] \in Seq(Nat) /\ k \in Nat
    BY <1>4, <2>0
  <2>2. IsInjective(p[k - 1]) /\ Range(p[k - 1]) \subseteq Own \cap 1 .. k - 1
    BY <1>7
  <2>3. Own \cap 1 .. k - 1 \subseteq Own \cap 1 .. k
    BY <2>1
  <2>4. CASE k \in InDir(ms, dir)
    <3>1. p[k] = Append(p[k - 1], k)
      BY <1>4, <2>4
    <3>2. k \notin Range(p[k - 1])
      BY <2>1, <2>2
    <3>3. IsInjective(Append(p[k - 1], k)) /\ Range(Append(p[k - 1], k)) = Range(p[k - 1]) \cup {k}
      BY <2>1, <2>2, <3>2, AppendDistinct
    <3>4. k \in Own \cap 1 .. k
      BY <1>5, <2>1, <2>4
    <3>5. Range(p[k]) \subseteq Own \cap 1 .. k
      <4> HIDE DEF Own
      <4> QED BY <2>2, <2>3, <3>1, <3>3, <3>4
    <3> QED BY <2>1, <3>1, <3>3, <3>5
  <2>5. CASE k \notin InDir(ms, dir)
    <3>1. p[k] = p[k - 1]
      BY <1>4, <2>5
    <3> HIDE DEF Own
    <3> QED BY <2>1, <2>2, <2>3, <3>1
  <2> QED BY <2>4, <2>5
<1>8. v \in T
  <2> HIDE DEF T
  <2>1. 0 .. n \subseteq T
    BY <1>1, <1>6, <1>7, UpTo
  <2> QED BY <1>1, <2>1
<1>9. p[v] \in Seq(Nat) /\ IsInjective(p[v]) /\ Range(p[v]) \subseteq Own
  BY <1>1, <1>4, <1>8
<1>10. Cardinality(Range(p[v])) = Len(p[v])
  BY <1>9, DistinctLength
<1>11. IsFiniteSet(Own) /\ Cardinality(Own) \in Nat
  <2>1. IsFiniteSet(1 .. n) /\ Own \subseteq 1 .. n
    BY <1>1, FS_Interval
  <2> HIDE DEF Own
  <2> QED BY <2>1, FS_Subset, FS_CardinalityType
<1>12. Cardinality(Own) < 30
  <2>1. Cardinality({k \in DOMAIN ms : Front(ms[k].name) = Front(ms[j].name)}) < 30
    BY <1>1, VfsAssumption
  <2> QED BY <1>1, <1>2, <2>1
<1> HIDE DEF Own, T
<1>13. Cardinality(Range(p[v])) <= Cardinality(Own)
  BY <1>9, <1>11, FS_Subset
<1>14. Len(p[v]) \in Nat
  BY <1>9
<1> QED BY <1>2, <1>3, <1>10, <1>11, <1>12, <1>13, <1>14

(* The entries, in numbers; each has a name of its own. *)
LEMMA TableEntries ==
  ASSUME NEW ms \in Archives, NEW es, Table(ms, es)
  PROVE  /\ es \in Seq(Entry) /\ Len(es) \in Nat /\ Len(es) >= 1 /\ DOMAIN es = 1 .. Len(es)
         /\ \A e \in 1 .. Len(es) :
              /\ es[e] \in Entry /\ es[e].name \in Seq(Name) /\ es[e].len \in Nat
              /\ es[e].data \in Nat /\ es[e].subdirs \in Seq(Nat)
         /\ \A e \in 1 .. Len(es) : e = 1 \/ /\ e - 1 \in 1 .. Len(ms)
                                             /\ es[e].name = ms[e - 1].name
                                             /\ es[e].len = ms[e - 1].size
                                             /\ es[e].data = StartOf(ms)[e - 1] + 1
         /\ \A e, k \in 1 .. Len(es) : es[e].name = es[k].name => e = k
<1>1. es \in Seq(Entry) /\ Len(es) \in 1 .. Len(ms) + 1 /\ Len(ms) \in Nat
  BY ArchiveMembers DEF Table
<1>2. Len(es) \in Nat /\ Len(es) >= 1 /\ DOMAIN es = 1 .. Len(es)
  BY <1>1
<1>3. \A e \in 1 .. Len(es) : es[e] \in Entry
  BY <1>1
<1>4. \A e \in 1 .. Len(es) : /\ es[e].name \in Seq(Name) /\ es[e].len \in Nat
                              /\ es[e].data \in Nat /\ es[e].subdirs \in Seq(Nat)
  BY <1>3 DEF Entry
<1>5. ASSUME NEW e \in 1 .. Len(es), e # 1
      PROVE  /\ e - 1 \in 1 .. Len(ms) /\ es[e].name = ms[e - 1].name
             /\ es[e].len = ms[e - 1].size /\ es[e].data = StartOf(ms)[e - 1] + 1
  <2>1. e - 1 \in 1 .. Len(es) - 1 /\ (e - 1) + 1 = e /\ e - 1 \in 1 .. Len(ms)
    BY <1>1, <1>2, <1>5
  <2> QED BY <2>1 DEF Table
<1>6. es[1].name = <<>>
  BY DEF Table
<1>7. ASSUME NEW e \in 1 .. Len(es), NEW k \in 1 .. Len(es), es[e].name = es[k].name PROVE e = k
  <2>1. CASE e = 1 /\ k = 1
    BY <2>1
  <2>2. CASE e = 1 /\ k # 1
    <3>1. k - 1 \in 1 .. Len(ms) /\ ms[k - 1].name = <<>>
      BY <1>5, <1>6, <1>7, <2>2
    <3> QED BY <3>1, ArchiveMembers
  <2>3. CASE e # 1 /\ k = 1
    <3>1. e - 1 \in 1 .. Len(ms) /\ ms[e - 1].name = <<>>
      BY <1>5, <1>6, <1>7, <2>3
    <3> QED BY <3>1, ArchiveMembers
  <2>4. CASE e # 1 /\ k # 1
    <3>1. e - 1 \in 1 .. Len(ms) /\ k - 1 \in 1 .. Len(ms) /\ ms[e - 1].name = ms[k - 1].name
      BY <1>5, <1>7, <2>4
    <3>2. e - 1 = k - 1
      BY <3>1, ArchiveMembers
    <3> QED BY <1>2, <3>2
  <2> QED BY <2>1, <2>2, <2>3, <2>4
<1> QED BY <1>1, <1>2, <1>3, <1>4, <1>5, <1>7

(* The entry of a name. *)
LEMMA LookupIs ==
  ASSUME NEW ms \in Archives, NEW es, Table(ms, es), NEW name
  PROVE  /\ Lookup(es, name) \in 0 .. Len(es)
         /\ Lookup(es, name) # 0 => es[Lookup(es, name)].name = name
         /\ \A e \in 1 .. Len(es) : es[e].name = name => Lookup(es, name) = e
<1>1. Len(es) \in Nat /\ DOMAIN es = 1 .. Len(es)
  BY TableEntries
<1> DEFINE found == {j \in DOMAIN es : es[j].name = name}
<1>2. Lookup(es, name) = IF found = {} THEN 0 ELSE Min(found)
  BY DEF Lookup
<1>3. found \in SUBSET Nat
  BY <1>1
<1>4. found # {} => Min(found) \in found
  <2> HIDE DEF found
  <2> QED BY <1>3, MinMember
<1>5. \A e, k \in 1 .. Len(es) : es[e].name = es[k].name => e = k
  BY TableEntries
<1>6. PICK l : l = Lookup(es, name)
  OBVIOUS
<1>7. CASE found = {}
  BY <1>1, <1>2, <1>7
<1>8. CASE found # {}
  <2>1. l \in 1 .. Len(es) /\ es[l].name = name
    BY <1>1, <1>2, <1>4, <1>6, <1>8
  <2> HIDE DEF found
  <2>2. l \in 0 .. Len(es)
    BY <1>1, <2>1
  <2> QED BY <1>5, <1>6, <2>1, <2>2
<1> QED BY <1>7, <1>8

(* A list with its members shifted, and one more. *)
LEMMA ShiftedAppend ==
  ASSUME NEW s \in Seq(Nat), NEW q \in Seq(Nat), Shifted(s, q), NEW j \in Nat
  PROVE  Shifted(Append(s, j + 1), Append(q, j))
<1>1. PICK l \in Nat : l = Len(q) /\ l = Len(s) /\ \A k \in 1 .. l : s[k] = q[k] + 1
  BY DEF Shifted
<1>2. PICK t, r : t = Append(s, j + 1) /\ r = Append(q, j)
  OBVIOUS
<1>3. Len(t) = l + 1 /\ t[l + 1] = j + 1 /\ \A k \in 1 .. l : t[k] = s[k]
  <2>1. Len(Append(s, j + 1)) = Len(s) + 1 /\ Append(s, j + 1)[Len(s) + 1] = j + 1
    OBVIOUS
  <2>2. \A k \in 1 .. Len(s) : Append(s, j + 1)[k] = s[k]
    OBVIOUS
  <2> QED BY <1>1, <1>2, <2>1, <2>2
<1>4. Len(r) = l + 1 /\ r[l + 1] = j /\ \A k \in 1 .. l : r[k] = q[k]
  <2>1. Len(Append(q, j)) = Len(q) + 1 /\ Append(q, j)[Len(q) + 1] = j
    OBVIOUS
  <2>2. \A k \in 1 .. Len(q) : Append(q, j)[k] = q[k]
    OBVIOUS
  <2> QED BY <1>1, <1>2, <2>1, <2>2
<1>5. ASSUME NEW k \in 1 .. l + 1 PROVE t[k] = r[k] + 1
  <2>1. CASE k = l + 1
    BY <1>3, <1>4, <2>1
  <2>2. CASE k # l + 1
    <3>1. k \in 1 .. l
      BY <1>1, <2>2
    <3> QED BY <1>1, <1>3, <1>4, <3>1
  <2> QED BY <2>1, <2>2
<1> QED BY <1>2, <1>3, <1>4, <1>5 DEF Shifted

(* Nothing is listed in a directory up to its own entry. *)
LEMMA ChosenNone ==
  ASSUME NEW ms \in Archives, NEW j \in 1 .. Len(ms)
  PROVE  Chosen(ms, ms[j].name)[j] = <<>>
<1>1. PICK n \in Nat : n = Len(ms) /\ DOMAIN ms = 1 .. n
  BY ArchiveMembers
<1>2. PICK dir : dir = ms[j].name /\ dir # <<>>
  BY <1>1, ArchiveMembers
<1>3. PICK p : p = Chosen(ms, dir)
  OBVIOUS
<1>4. /\ p[0] = <<>>
      /\ \A k \in 1 .. n : p[k] = IF k \in InDir(ms, dir) THEN Append(p[k - 1], k) ELSE p[k - 1]
  BY <1>1, <1>3, ChosenIs
<1>5. \A k \in 1 .. j : k \in 1 .. n /\ k \notin InDir(ms, dir)
  <2> SUFFICES ASSUME NEW k \in 1 .. j, k \in InDir(ms, dir) PROVE FALSE
    BY <1>1
  <2>1. PICK v \in 1 .. k - 1 : ms[v].name = dir
    BY <1>2 DEF InDir
  <2>2. v \in 1 .. n /\ v # j
    BY <1>1
  <2> QED BY <1>1, <1>2, <2>1, <2>2, ArchiveMembers
<1> DEFINE T == {k \in 0 .. j : p[k] = <<>>}
<1>6. 0 \in T
  BY <1>1, <1>4
<1>7. \A k \in 1 .. j : k - 1 \in T => k \in T
  BY <1>1, <1>4, <1>5
<1> HIDE DEF T
<1>8. 0 .. j \subseteq T
  BY <1>1, <1>6, <1>7, UpTo
<1>9. j \in T
  BY <1>1, <1>8
<1> QED BY <1>2, <1>3, <1>9 DEF T

\* The entry of member j as tarfs_init makes it.
NodeOf(ms, j) ==
  [name |-> ms[j].name, len |-> ms[j].size, data |-> StartOf(ms)[j] + 1, subdirs |-> <<>>]

LEMMA NodeIs ==
  ASSUME NEW ms \in Archives, NEW j \in 1 .. Len(ms)
  PROVE  /\ NodeOf(ms, j) \in Entry /\ NodeOf(ms, j).name = ms[j].name
         /\ NodeOf(ms, j).len = ms[j].size /\ NodeOf(ms, j).data = StartOf(ms)[j] + 1
         /\ NodeOf(ms, j).subdirs = <<>>
         /\ [NodeOf(ms, j) EXCEPT !.subdirs = <<>>] = NodeOf(ms, j)
<1>1. StartOf(ms)[j] \in Nat
  <2>1. StartOf(ms) \in [1 .. Len(ms) + 1 -> Nat]
    BY StartIs DEF Begins
  <2>2. j \in 1 .. Len(ms) + 1
    BY ArchiveMembers
  <2> QED BY <2>1, <2>2
<1>2. PICK d \in Nat : d = StartOf(ms)[j] + 1
  BY <1>1
<1>3. ms[j].name \in Seq(Name) /\ ms[j].size \in Nat
  BY ArchiveMembers
<1>4. <<>> \in Seq(Nat)
  OBVIOUS
<1> QED BY <1>2, <1>3, <1>4 DEF NodeOf, Entry

\* new is es with one more entry, which the entry of its directory lists.
Adds(new, es, node, parent) ==
  /\ new \in Seq(Entry) /\ Len(new) = Len(es) + 1 /\ new[Len(es) + 1] = node
  /\ \A e \in 1 .. Len(es) :
       /\ new[e].name = es[e].name /\ new[e].len = es[e].len /\ new[e].data = es[e].data
       /\ new[e].subdirs = IF e = parent THEN Append(es[e].subdirs, Len(es) + 1)
                           ELSE es[e].subdirs

(* tarfs_node_init. *)
LEMMA NodeInitAdds ==
  ASSUME NEW ms \in Archives, NEW es, Table(ms, es), NEW j, j = Len(es), j <= Len(ms)
  PROVE  Adds(NodeInit(es, NodeOf(ms, j)), es, NodeOf(ms, j), Lookup(es, Front(ms[j].name)))
<1>1. /\ j \in Nat /\ j \in 1 .. Len(ms) /\ es \in Seq(Entry) /\ DOMAIN es = 1 .. j
      /\ \A e \in 1 .. j : es[e] \in Entry /\ es[e].subdirs \in Seq(Nat)
  BY TableEntries, ArchiveMembers
<1>2. PICK node \in Entry : /\ node = NodeOf(ms, j) /\ node.name = ms[j].name
                            /\ [node EXCEPT !.subdirs = <<>>] = node
  BY <1>1, NodeIs
<1>3. node.name # <<>>
  BY <1>1, <1>2, ArchiveMembers
<1>4. PICK parent : parent = Lookup(es, Front(node.name))
  OBVIOUS
<1>5. parent \in 0 .. j /\ parent \in Nat
  BY <1>1, <1>4, LookupIs
<1>6. PICK new \in Seq(Entry) : new = Append(es, node) /\ Len(new) = j + 1 /\ new[j + 1] = node
                                /\ \A e \in 1 .. j : new[e] = es[e]
  <2>1. /\ Append(es, node) \in Seq(Entry) /\ Len(Append(es, node)) = Len(es) + 1
        /\ Append(es, node)[Len(es) + 1] = node
    BY <1>1
  <2>2. \A e \in 1 .. Len(es) : Append(es, node)[e] = es[e]
    BY <1>1
  <2> QED BY <2>1, <2>2
<1>7. parent # 0 => Len(es[parent].subdirs) < 30 /\ Len(es[parent].subdirs) \in Nat
  <2> SUFFICES ASSUME parent # 0
               PROVE  Len(es[parent].subdirs) < 30 /\ Len(es[parent].subdirs) \in Nat
    OBVIOUS
  <2>1. parent \in 1 .. j /\ es[parent].name = Front(ms[j].name)
    BY <1>1, <1>2, <1>4, <1>5, LookupIs
  <2>2. Shifted(es[parent].subdirs, Chosen(ms, Front(ms[j].name))[j - 1])
    BY <1>1, <2>1 DEF Table
  <2>3. j - 1 \in 0 .. Len(ms)
    BY <1>1
  <2>4. Len(Chosen(ms, Front(ms[j].name))[j - 1]) < 30
    BY <1>1, <2>3, ChosenFew
  <2> QED BY <1>1, <2>1, <2>2, <2>4 DEF Shifted
<1>8. NodeInit(es, node) = IF parent = 0 \/ Len(es[parent].subdirs) = 30 THEN new
                           ELSE [new EXCEPT ![parent].subdirs = Append(@, Len(new))]
  BY <1>2, <1>3, <1>4, <1>6 DEF NodeInit, GetParent
<1>9. CASE parent = 0
  <2>1. NodeInit(es, node) = new
    BY <1>8, <1>9
  <2>2. \A e \in 1 .. j : e # parent
    BY <1>9
  <2>3. Adds(new, es, node, parent)
    BY <1>6, <2>2 DEF Adds
  <2> QED BY <1>2, <1>4, <2>1, <2>3
<1>10. CASE parent # 0
  <2>1. parent \in 1 .. j /\ parent \in 1 .. j + 1 /\ DOMAIN new = 1 .. j + 1
    BY <1>1, <1>5, <1>6, <1>10
  <2>2. NodeInit(es, node) = [new EXCEPT ![parent].subdirs = Append(@, Len(new))]
    <3>1. ~(parent = 0 \/ Len(es[parent].subdirs) = 30)
      <4>1. PICK m : m = Len(es[parent].subdirs)
        OBVIOUS
      <4>2. m \in Nat /\ m < 30
        BY <1>7, <1>10, <4>1
      <4>3. m # 30
        BY <4>2
      <4> QED BY <1>10, <4>1, <4>3
    <3> QED BY <1>8, <3>1
  <2>3. PICK r : r = [es[parent] EXCEPT !.subdirs = Append(@, j + 1)]
    OBVIOUS
  <2>4. /\ r \in Entry /\ r.name = es[parent].name /\ r.len = es[parent].len
        /\ r.data = es[parent].data /\ r.subdirs = Append(es[parent].subdirs, j + 1)
    <3>1. PICK e \in Entry : e = es[parent] /\ e.subdirs \in Seq(Nat)
      BY <1>1, <2>1
    <3>2. Append(e.subdirs, j + 1) \in Seq(Nat)
      BY <1>1, <3>1
    <3> QED BY <2>3, <3>1, <3>2 DEF Entry
  <2>5. NodeInit(es, node) = [new EXCEPT ![parent] = r]
    BY <1>6, <2>1, <2>2, <2>3
  <2>6. PICK w : w = [new EXCEPT ![parent] = r]
    OBVIOUS
  <2>7. /\ w \in Seq(Entry) /\ Len(w) = j + 1 /\ w[parent] = r
        /\ \A e \in 1 .. j + 1 : e # parent => w[e] = new[e]
    <3>1. w \in [1 .. j + 1 -> Entry]
      <4>1. new \in [1 .. Len(new) -> Entry]
        OBVIOUS
      <4>2. new \in [1 .. j + 1 -> Entry]
        BY <1>6, <4>1
      <4> QED BY <2>1, <2>4, <2>6, <4>2
    <3>2. w \in Seq(Entry) /\ Len(w) = j + 1
      BY <1>1, <3>1
    <3>3. w[parent] = r /\ \A e \in 1 .. j + 1 : e # parent => w[e] = new[e]
      BY <2>1, <2>6
    <3> QED BY <3>2, <3>3
  <2>8. w[j + 1] = node
    BY <1>1, <1>6, <2>1, <2>7
  <2>9. ASSUME NEW e \in 1 .. j
        PROVE  /\ w[e].name = es[e].name /\ w[e].len = es[e].len /\ w[e].data = es[e].data
               /\ w[e].subdirs = IF e = parent THEN Append(es[e].subdirs, j + 1)
                                 ELSE es[e].subdirs
    <3>1. CASE e = parent
      BY <2>4, <2>7, <3>1
    <3>2. CASE e # parent
      <4>1. w[e] = es[e]
        BY <1>1, <1>6, <2>7, <3>2
      <4> QED BY <3>2, <4>1
    <3> QED BY <3>1, <3>2
  <2>10. Adds(w, es, node, parent)
    BY <2>7, <2>8, <2>9 DEF Adds
  <2> QED BY <1>2, <1>4, <2>5, <2>6, <2>10
<1> QED BY <1>9, <1>10

(* The table after one more member. *)
LEMMA NodeInitTable ==
  ASSUME NEW ms \in Archives, NEW es, Table(ms, es), NEW j, j = Len(es), j <= Len(ms)
  PROVE  /\ Table(ms, NodeInit(es, NodeOf(ms, j)))
         /\ Len(NodeInit(es, NodeOf(ms, j))) = j + 1
<1>1. /\ j \in Nat /\ j \in 1 .. Len(ms) /\ Len(ms) \in Nat
      /\ \A e \in 1 .. j : /\ es[e] \in Entry /\ es[e].subdirs \in Seq(Nat)
                           /\ es[e].name \in Seq(Name)
  BY TableEntries, ArchiveMembers
<1>2. PICK new, node, parent : /\ new = NodeInit(es, NodeOf(ms, j)) /\ node = NodeOf(ms, j)
                               /\ parent = Lookup(es, Front(ms[j].name))
                               /\ Adds(new, es, node, parent)
  BY NodeInitAdds
<1>3. /\ new \in Seq(Entry) /\ Len(new) = j + 1 /\ new[j + 1] = node
      /\ \A e \in 1 .. j :
           /\ new[e].name = es[e].name /\ new[e].len = es[e].len /\ new[e].data = es[e].data
           /\ new[e].subdirs = IF e = parent THEN Append(es[e].subdirs, j + 1) ELSE es[e].subdirs
  BY <1>2 DEF Adds
<1>4. /\ node.name = ms[j].name /\ node.len = ms[j].size /\ node.data = StartOf(ms)[j] + 1
      /\ node.subdirs = <<>>
  BY <1>1, <1>2, NodeIs
<1>5. Len(new) \in 1 .. Len(ms) + 1
  BY <1>1, <1>3
<1>6. new[1].name = <<>> /\ new[1].len = 0
  BY <1>1, <1>3 DEF Table
<1>7. ASSUME NEW v \in 1 .. j
      PROVE  /\ new[v + 1].name = ms[v].name /\ new[v + 1].len = ms[v].size
             /\ new[v + 1].data = StartOf(ms)[v] + 1
  <2>1. CASE v = j
    BY <1>3, <1>4, <2>1
  <2>2. CASE v # j
    <3>1. v \in 1 .. j - 1 /\ v + 1 \in 1 .. j
      BY <1>1, <2>2
    <3> QED BY <1>3, <3>1 DEF Table
  <2> QED BY <2>1, <2>2
<1>8. ASSUME NEW e \in 1 .. j + 1 PROVE Shifted(new[e].subdirs, Chosen(ms, new[e].name)[j])
  <2>1. CASE e = j + 1
    <3>1. new[e].subdirs = <<>> /\ Chosen(ms, new[e].name)[j] = <<>>
      BY <1>1, <1>3, <1>4, <2>1, ChosenNone
    <3> QED BY <3>1 DEF Shifted
  <2>2. CASE e # j + 1
    <3>1. e \in 1 .. j
      BY <1>1, <2>2
    <3>2. PICK dir : dir = es[e].name /\ dir = new[e].name
      BY <1>3, <3>1
    <3>3. PICK p : p = Chosen(ms, dir)
      OBVIOUS
    <3>4. /\ p[j - 1] \in Seq(Nat)
          /\ p[j] = IF j \in InDir(ms, dir) THEN Append(p[j - 1], j) ELSE p[j - 1]
      <4>1. j - 1 \in 0 .. Len(ms)
        BY <1>1
      <4>2. p \in [0 .. Len(ms) -> Seq(Nat)]
        BY <3>3, ChosenIs
      <4> QED BY <1>1, <3>3, <4>1, <4>2, ChosenIs
    <3>5. Shifted(es[e].subdirs, p[j - 1]) /\ es[e].subdirs \in Seq(Nat)
      BY <1>1, <3>1, <3>2, <3>3 DEF Table
    <3>6. j \in InDir(ms, dir) <=> Front(ms[j].name) = dir
      <4>1. j \in DOMAIN ms
        BY <1>1, ArchiveMembers
      <4>2. dir = <<>> \/ \E k \in 1 .. j - 1 : ms[k].name = dir
        <5>1. CASE e = 1
          BY <3>2, <5>1 DEF Table
        <5>2. CASE e # 1
          <6>1. e - 1 \in 1 .. j - 1 /\ (e - 1) + 1 = e
            BY <1>1, <3>1, <5>2
          <6>2. es[(e - 1) + 1].name = ms[e - 1].name
            BY <6>1 DEF Table
          <6> QED BY <3>2, <6>1, <6>2
        <5> QED BY <5>1, <5>2
      <4> QED BY <4>1, <4>2 DEF InDir
    <3>7. CASE Front(ms[j].name) = dir
      <4>1. parent = e
        BY <1>2, <3>1, <3>2, <3>7, LookupIs
      <4>2. new[e].subdirs = Append(es[e].subdirs, j + 1) /\ p[j] = Append(p[j - 1], j)
        BY <1>3, <3>1, <3>4, <3>6, <3>7, <4>1
      <4>3. Shifted(Append(es[e].subdirs, j + 1), Append(p[j - 1], j))
        BY <1>1, <3>4, <3>5, ShiftedAppend
      <4> QED BY <3>2, <3>3, <4>2, <4>3
    <3>8. CASE Front(ms[j].name) # dir
      <4>1. parent # e
        <5> SUFFICES ASSUME parent = e PROVE FALSE
          OBVIOUS
        <5>1. parent # 0
          BY <1>1, <3>1
        <5>2. es[parent].name = Front(ms[j].name)
          BY <1>2, <5>1, LookupIs
        <5> QED BY <3>2, <3>8, <5>2
      <4>2. new[e].subdirs = es[e].subdirs /\ p[j] = p[j - 1]
        BY <1>3, <3>1, <3>4, <3>6, <3>8, <4>1
      <4> QED BY <3>2, <3>3, <3>5, <4>2
    <3> QED BY <3>7, <3>8
  <2> QED BY <2>1, <2>2
<1>9. Len(new) - 1 = j
  BY <1>1, <1>3
<1>10. Table(ms, new)
  BY <1>3, <1>5, <1>6, <1>7, <1>8, <1>9 DEF Table
<1> QED BY <1>2, <1>3, <1>10

\* The archive does not change, and the table is complete when programs come.
TableInv ==
  /\ archive \in Archives /\ Table(archive, entry)
  /\ header = StartOf(archive)[Len(entry)]
  /\ loop # "tar" => Len(entry) = Len(archive) + 1

(* The root comes first. *)
LEMMA TableStart ==
  ASSUME archive \in Archives, header = 1, entry = <<RootNode>>, loop = "tar"
  PROVE  TableInv
<1>1. PICK r : r = RootNode
  OBVIOUS
<1>2. r \in Entry /\ r.name = <<>> /\ r.len = 0 /\ r.subdirs = <<>>
  <2>1. <<>> \in Seq(Nat) /\ <<>> \in Seq(Name)
    OBVIOUS
  <2> QED BY <1>1, <2>1 DEF RootNode, Entry
<1>3. entry \in Seq(Entry) /\ Len(entry) = 1 /\ entry[1] = r
  BY <1>1, <1>2
<1>4. Len(archive) \in Nat
  BY ArchiveMembers
<1>5. Shifted(<<>>, Chosen(archive, <<>>)[0])
  BY ChosenIs DEF Shifted
<1>6. Table(archive, entry)
  <2>1. Len(entry) \in 1 .. Len(archive) + 1 /\ Len(entry) - 1 = 0
    BY <1>3, <1>4
  <2>2. \A j \in 1 .. Len(entry) - 1 : FALSE
    BY <2>1
  <2>3. \A e \in 1 .. Len(entry) : e = 1
    BY <1>3
  <2>4. \A e \in 1 .. Len(entry) :
           Shifted(entry[e].subdirs, Chosen(archive, entry[e].name)[Len(entry) - 1])
    BY <1>2, <1>3, <1>5, <2>1, <2>3
  <2> QED BY <1>2, <1>3, <2>1, <2>2, <2>4 DEF Table
<1>7. StartOf(archive)[1] = 1
  BY StartIs DEF Begins
<1> QED BY <1>3, <1>6, <1>7 DEF TableInv

(* tarfs_init's loop, one member after the other. *)
LEMMA TableStep ==
  ASSUME TableInv, TarStep
  PROVE  TableInv'
<1>1. /\ archive \in Archives /\ Table(archive, entry) /\ loop = "tar" /\ archive' = archive
      /\ header = StartOf(archive)[Len(entry)]
  BY DEF TableInv, TarStep
<1>2. PICK n \in Nat : n = Len(archive)
  BY <1>1, ArchiveMembers
<1>3. PICK j \in 1 .. n + 1 : j = Len(entry)
  BY <1>1, <1>2 DEF Table
<1>4. PICK s : s = StartOf(archive)
  OBVIOUS
<1>5. Begins(s, archive)
  BY <1>1, <1>4, StartIs
<1>6. PICK h : h = Layout(archive)[header]
  OBVIOUS
<1>7. CASE j = n + 1
  <2>1. h.name = <<>>
    BY <1>1, <1>2, <1>3, <1>4, <1>5, <1>6, <1>7 DEF Begins
  <2>2. loop' = "wait" /\ UNCHANGED <<entry, header>>
    BY <1>6, <2>1 DEF TarStep
  <2> QED BY <1>1, <1>2, <1>3, <1>7, <2>2 DEF TableInv
<1>8. CASE j # n + 1
  <2>1. j \in 1 .. n /\ j <= n
    BY <1>2, <1>3, <1>8
  <2>2. h.name = archive[j].name /\ h.size = archive[j].size
    BY <1>1, <1>2, <1>3, <1>4, <1>5, <1>6, <2>1 DEF Begins
  <2>3. h.name # <<>> /\ archive[j].size \in Nat
    BY <1>1, <1>2, <2>1, <2>2, ArchiveMembers
  <2>4. /\ entry' = NodeInit(entry, [name |-> h.name, len |-> h.size,
                                     data |-> header + 1, subdirs |-> <<>>])
        /\ header' = header + BlockCount(h.size) + 1 /\ loop' = loop
    BY <1>6, <2>3 DEF TarStep
  <2>5. entry' = NodeInit(entry, NodeOf(archive, j))
    BY <1>1, <1>3, <1>4, <2>2, <2>4 DEF NodeOf
  <2>6. Table(archive, entry') /\ Len(entry') = j + 1
    BY <1>1, <1>2, <1>3, <2>1, <2>5, NodeInitTable
  <2>7. header' = s[j + 1]
    <3>1. s[j + 1] = s[j] + Up(archive[j].size, BlockSize) + 1
      BY <1>2, <1>5, <2>1 DEF Begins
    <3>2. BlockCount(h.size) = Up(archive[j].size, BlockSize)
      BY <2>2, <2>3, BlocksOfSize
    <3> QED BY <1>1, <1>3, <1>4, <2>4, <3>1, <3>2
  <2> QED BY <1>1, <1>4, <2>4, <2>6, <2>7 DEF TableInv
<1> QED BY <1>7, <1>8

(* The byte k of a member is where the table says. *)
LEMMA ByteIs ==
  ASSUME TableInv, NEW e \in 1 .. Len(entry), NEW k \in 0 .. entry[e].len - 1
  PROVE  ByteAt(entry[e], k) = <<entry[e].name, k>>
<1>1. archive \in Archives /\ Table(archive, entry)
  BY DEF TableInv
<1>2. PICK n \in Nat : n = Len(archive)
  BY <1>1, ArchiveMembers
<1>3. entry[e].len \in Nat /\ Len(entry) \in Nat
  BY <1>1, TableEntries
<1>4. e # 1
  <2> SUFFICES ASSUME e = 1 PROVE FALSE
    OBVIOUS
  <2>1. entry[e].len = 0
    BY <1>1 DEF Table
  <2> QED BY <2>1
<1>5a. PICK j \in 1 .. n : j = e - 1
  BY <1>1, <1>2, <1>4, TableEntries
<1>5. PICK m : j = e - 1 /\ m = archive[j]
  BY <1>5a
<1>6. /\ entry[e].name = m.name /\ entry[e].len = m.size
      /\ entry[e].data = StartOf(archive)[j] + 1
  BY <1>1, <1>4, <1>5, TableEntries
<1>7. m \in Member /\ m.size \in Nat /\ m.name \in Seq(Name)
  BY <1>1, <1>2, <1>5, ArchiveMembers
<1>8. PICK s : s = StartOf(archive)
  OBVIOUS
<1>9. Begins(s, archive)
  BY <1>1, <1>8, StartIs
<1>10. PICK q \in Nat, r \in Nat : /\ q = k \div BlockSize /\ r = k % BlockSize
                                   /\ r < BlockSize /\ k = q * BlockSize + r
  <2>1. k \in Nat
    BY <1>3
  <2>2. PICK q \in Nat, r \in Nat : q = k \div BlockSize /\ r = k % BlockSize
    BY <2>1, Split
  <2>3. r < BlockSize /\ k = q * BlockSize + r
    BY <2>1, <2>2, Split
  <2> QED BY <2>2, <2>3
<1>11. q + 1 \in 1 .. Up(m.size, BlockSize)
  BY <1>6, <1>7, <1>10, BlocksOfSize
<1>12. s[j] \in Nat
  <2>1. j \in 1 .. n + 1
    BY <1>2
  <2> QED BY <1>2, <1>9, <2>1 DEF Begins
<1>13. Layout(archive)[s[j] + (q + 1)] = DataOf(m, q + 1)
  BY <1>2, <1>5, <1>9, <1>11 DEF Begins
<1>14. entry[e].data + k \div BlockSize = s[j] + (q + 1)
  BY <1>6, <1>8, <1>10, <1>12
<1>15. ByteAt(entry[e], k) = DataOf(m, q + 1).bytes[r + 1]
  BY <1>10, <1>13, <1>14 DEF ByteAt
<1>16. r + 1 \in 1 .. BlockSize
  BY <1>10, Sizes
<1>17. DataOf(m, q + 1).bytes[r + 1] = ByteOf(m, (q + 1 - 1) * BlockSize + (r + 1) - 1)
  BY <1>16 DEF DataOf
<1>18. (q + 1 - 1) * BlockSize + (r + 1) - 1 = k
  <2>1. PICK qb \in Nat : qb = q * BlockSize
    BY <1>10, Product
  <2>2. q + 1 - 1 = q
    BY <1>10
  <2>3. qb + (r + 1) - 1 = k
    <3>1. k = qb + r
      BY <1>10, <2>1
    <3>2. qb \in Int /\ r \in Int
      BY <1>10
    <3> QED BY <3>1, <3>2
  <2> QED BY <2>1, <2>2, <2>3
<1>19. ByteOf(m, k) = <<m.name, k>>
  <2>1. k < m.size
    BY <1>6, <1>7
  <2> QED BY <2>1 DEF ByteOf
<1> QED BY <1>6, <1>15, <1>17, <1>18, <1>19

-----------------------------------------------------------------------------
(* What programs are told of the table                                     *)

(* get_fs_index, case by case. *)
LEMMA FsIndex ==
  ASSUME NEW path
  PROVE  /\ GetFsIndex(path) \in {-1, 0, 1, 2}
         /\ GetFsIndex(path) = 2 <=> path = <<>>
         /\ GetFsIndex(path) = 0 <=> path # <<>> /\ Head(path) = "tarfs"
         /\ GetFsIndex(path) = 1 <=> OnDisk(path)
<1>1. CASE path = <<>>
  BY <1>1 DEF GetFsIndex, OnDisk
<1>2. CASE path # <<>> /\ Head(path) = "tarfs"
  BY <1>2 DEF GetFsIndex, OnDisk
<1>3. CASE path # <<>> /\ Head(path) = "sata"
  BY <1>3 DEF GetFsIndex, OnDisk
<1>4. CASE path # <<>> /\ Head(path) # "tarfs" /\ Head(path) # "sata"
  BY <1>4 DEF GetFsIndex, OnDisk
<1> QED BY <1>1, <1>2, <1>3, <1>4

(* The member that a path names is the one that the table has. *)
LEMMA NamedIs ==
  ASSUME TableInv, loop # "tar", NEW path, path # <<>>, Head(path) = "tarfs"
  PROVE  /\ Named(path) # {} <=> Lookup(entry, Tail(path)) # 0
         /\ \A e \in 1 .. Len(entry) : entry[e].name = Tail(path) => SizeOf(path) = entry[e].len
<1>1. archive \in Archives /\ Table(archive, entry) /\ Len(entry) = Len(archive) + 1
  BY DEF TableInv
<1>2. PICK n \in Nat : n = Len(archive) /\ DOMAIN archive = 1 .. n /\ Len(entry) = n + 1
  BY <1>1, ArchiveMembers
<1> DEFINE root == [name |-> <<>>, size |-> 0]
           t == Tail(path)
<1>3. \A m : m \in Named(path) <=> (m \in ToSet(archive) \/ m = root) /\ m.name = t
  BY DEF Named
<1>4. \A m : m \in ToSet(archive) <=> \E j \in 1 .. n : m = archive[j]
  BY <1>2 DEF ToSet
<1>5. root.name = <<>> /\ root.size = 0
  OBVIOUS
<1> HIDE DEF root, t
<1>6. entry[1].name = <<>> /\ entry[1].len = 0 /\ 1 \in 1 .. Len(entry)
  BY <1>1, <1>2 DEF Table
<1>7. ASSUME NEW j \in 1 .. n
      PROVE  /\ j + 1 \in 1 .. Len(entry) /\ entry[j + 1].name = archive[j].name
             /\ entry[j + 1].len = archive[j].size
  <2>1. j \in 1 .. Len(entry) - 1 /\ j + 1 \in 1 .. Len(entry)
    BY <1>2
  <2> QED BY <1>1, <2>1 DEF Table
<1>8. ASSUME NEW m \in Named(path)
      PROVE  \E e \in 1 .. Len(entry) : entry[e].name = t /\ entry[e].len = m.size
  <2>1. m.name = t /\ (m = root \/ \E j \in 1 .. n : m = archive[j])
    BY <1>3, <1>4
  <2>2. CASE m = root
    BY <1>5, <1>6, <2>1, <2>2
  <2>3. CASE \E j \in 1 .. n : m = archive[j]
    BY <1>7, <2>1, <2>3
  <2> QED BY <2>1, <2>2, <2>3
<1>9. ASSUME NEW e \in 1 .. Len(entry), entry[e].name = t PROVE Named(path) # {}
  <2>1. CASE e = 1
    <3>1. root \in Named(path)
      BY <1>3, <1>5, <1>6, <1>9, <2>1
    <3> QED BY <3>1
  <2>2. CASE e # 1
    <3>1. e - 1 \in 1 .. n /\ archive[e - 1].name = t
      <4>1. e - 1 \in 1 .. Len(archive) /\ entry[e].name = archive[e - 1].name
        BY <1>1, <2>2, TableEntries
      <4> QED BY <1>2, <1>9, <4>1
    <3>2. archive[e - 1] \in Named(path)
      BY <1>3, <1>4, <3>1
    <3> QED BY <3>2
  <2> QED BY <2>1, <2>2
<1>10. /\ Lookup(entry, t) \in 0 .. Len(entry)
       /\ Lookup(entry, t) # 0 => entry[Lookup(entry, t)].name = t
       /\ \A e \in 1 .. Len(entry) : entry[e].name = t => Lookup(entry, t) = e
  BY <1>1, LookupIs
<1>11. Named(path) # {} <=> Lookup(entry, t) # 0
  <2>1. ASSUME Named(path) # {} PROVE Lookup(entry, t) # 0
    <3>1. PICK m : m \in Named(path)
      BY <2>1
    <3>2. PICK e \in 1 .. Len(entry) : entry[e].name = t
      BY <1>8, <3>1
    <3>3. Lookup(entry, t) = e /\ e # 0
      BY <1>10, <3>2
    <3> QED BY <3>3
  <2>2. ASSUME Lookup(entry, t) # 0 PROVE Named(path) # {}
    <3>1. Lookup(entry, t) \in 1 .. Len(entry)
      BY <1>2, <1>10, <2>2
    <3> QED BY <1>9, <1>10, <2>2, <3>1
  <2> QED BY <2>1, <2>2
<1>12. ASSUME NEW e \in 1 .. Len(entry), entry[e].name = t PROVE SizeOf(path) = entry[e].len
  <2>1. PICK m : m \in Named(path) /\ m = CHOOSE x \in Named(path) : TRUE
    BY <1>9, <1>12
  <2>2. SizeOf(path) = m.size
    BY <2>1 DEF SizeOf
  <2>3. PICK f \in 1 .. Len(entry) : entry[f].name = t /\ entry[f].len = m.size
    BY <1>8, <2>1
  <2>4. f = e
    <3>1. \A j, k \in 1 .. Len(entry) : entry[j].name = entry[k].name => j = k
      BY <1>1, TableEntries
    <3> QED BY <1>12, <2>3, <3>1
  <2> QED BY <2>2, <2>3, <2>4
<1> QED BY <1>11, <1>12 DEF t

(* The names a directory has are those its entry lists. *)
LEMMA ListingIs ==
  ASSUME TableInv, loop # "tar", NEW path, path # <<>>,
         NEW e \in 1 .. Len(entry), entry[e].name = Tail(path)
  PROVE  /\ Listing(path) \in Seq(Seq(Name)) /\ Len(Listing(path)) = Len(entry[e].subdirs)
         /\ \A k \in 1 .. Len(entry[e].subdirs) :
              entry[entry[e].subdirs[k]].name = Listing(path)[k]
<1>1. archive \in Archives /\ Table(archive, entry) /\ Len(entry) = Len(archive) + 1
  BY DEF TableInv
<1>2. PICK n \in Nat : n = Len(archive) /\ DOMAIN archive = 1 .. n /\ Len(entry) = n + 1
  BY <1>1, ArchiveMembers
<1>3. PICK dir : dir = Tail(path)
  OBVIOUS
<1>4. PICK js : js = Picked(Ids(archive), InDir(archive, dir))
  OBVIOUS
<1>5. Listing(path) = [k \in DOMAIN js |-> archive[js[k]].name]
  BY <1>3, <1>4 DEF Listing, Ids, InDir
<1>6. js \in Seq(Nat) /\ Range(js) \subseteq 1 .. n
  <2>1. js \in Seq(Nat) /\ Range(js) = Range(Ids(archive)) \cap InDir(archive, dir)
    BY <1>1, <1>4, IdsAre, PickedIs
  <2>2. InDir(archive, dir) \subseteq 1 .. n
    BY <1>2 DEF InDir
  <2> QED BY <2>1, <2>2
<1>7. js = Chosen(archive, dir)[n]
  BY <1>1, <1>2, <1>4, ChosenIs DEF Chooses
<1>8. PICK l \in Nat : l = Len(js) /\ DOMAIN js = 1 .. l /\ \A k \in 1 .. l : js[k] \in 1 .. n
  <2>1. \A k \in DOMAIN js : js[k] \in 1 .. n
    BY <1>6 DEF Range
  <2>2. Len(js) \in Nat /\ DOMAIN js = 1 .. Len(js)
    BY <1>6
  <2> QED BY <2>1, <2>2
<1>9. \A k \in 1 .. l : archive[js[k]].name \in Seq(Name)
  BY <1>1, <1>2, <1>8, ArchiveMembers
<1>10. PICK f \in [1 .. l -> Seq(Name)] :
         f = Listing(path) /\ \A k \in 1 .. l : f[k] = archive[js[k]].name
  BY <1>5, <1>8, <1>9
<1>11. f \in Seq(Seq(Name)) /\ Len(f) = l
  BY <1>10
<1>12. Len(entry[e].subdirs) = l /\ \A k \in 1 .. l : entry[e].subdirs[k] = js[k] + 1
  <2>1. Shifted(entry[e].subdirs, Chosen(archive, dir)[Len(entry) - 1]) /\ Len(entry) - 1 = n
    <3>1. Len(entry) - 1 = n
      BY <1>2
    <3>2. Shifted(entry[e].subdirs, Chosen(archive, entry[e].name)[Len(entry) - 1])
      BY <1>1 DEF Table
    <3> QED BY <1>3, <3>1, <3>2
  <2> QED BY <1>7, <1>8, <2>1 DEF Shifted
<1>13. ASSUME NEW k \in 1 .. l PROVE entry[js[k] + 1].name = archive[js[k]].name
  <2>1. js[k] \in 1 .. Len(entry) - 1
    BY <1>2, <1>8
  <2> QED BY <1>1, <2>1 DEF Table
<1> QED BY <1>10, <1>11, <1>12, <1>13

(* The directory "/". *)
LEMMA RootListing ==
  /\ Len(Listing(<<>>)) = 2
  /\ Listing(<<>>)[1] = <<"tarfs">> /\ Listing(<<>>)[2] = <<"sata">>
  BY DEF Listing

-----------------------------------------------------------------------------
(* The invariant                                                           *)

\* A program is told that its open failed: its connection is closed, or will be.
Doomed(c) == Waits(c) /\ call[c].type \in {"file", "dir"} /\ answer[c].err # 0

\* A program's connection is one: the number it has is the server's handle for it.
Live(c) == conn[c] # Null /\ ~Doomed(c)

\* What the program has open once it takes the answer that is there for it.
After(c) ==
  IF ~Waits(c) THEN mine[c]
  ELSE IF call[c].type \notin {"file", "dir"}
  THEN [mine[c] EXCEPT !.pos = PosAfter(mine[c], call[c], answer[c])]
  ELSE IF answer[c].err = 0 THEN [kind |-> call[c].type, path |-> call[c].path, pos |-> 0]
  ELSE Null

\* The object f is what a program knows as o.
Same(f, o) ==
  /\ f \in Object /\ o \in Opened
  /\ f.kind = o.kind /\ f.fs = GetFsIndex(o.path) /\ (f.kind = "file" => f.fs # 2)
  /\ f.fs = 0 => f.index \in DOMAIN entry /\ entry[f.index].name = Tail(o.path)
  /\ f.fs # 1 => /\ f.pos = o.pos /\ o.pos \in Nat
                 /\ f.kind = "dir" => o.pos <= Len(Listing(o.path))

\* The requests of libc's functions, each on what it is for.
Fitting(o, r) ==
  /\ r \in Request /\ r.type \notin {"file", "dir"}
  /\ r.type \in {"read", "write", "lseek"} => o.kind = "file"
  /\ r.type = "readdir" => o.kind = "dir"
  /\ r.type = "lseek" => ~OnDisk(o.path) /\ Seeked(o, r) \in Nat

\* What a program is told: an open in use is refused and another fails only if there
\* is no such path; bytes and names are those it expects.
Told(c) ==
  IF call[c].type \notin {"file", "dir"}
  THEN /\ After(c) \in Opened
       /\ ~OnDisk(mine[c].path) => answer[c] = Expected(mine[c], call[c])
  ELSE IF mine[c] # Null THEN answer[c].err = EINVAL
  ELSE ~OnDisk(call[c].path) =>
         (answer[c].err = 0 <=> \/ Named(call[c].path) # {}
                                \/ call[c].type = "dir" /\ call[c].path = <<>>)

\* Where a program is, and what it then has.
Phase(c) ==
  /\ at[c] # "wait" => call[c] = Null /\ answer[c] = Null
  /\ at[c] = "connect" => mine[c] = Null
  /\ at[c] \in {"absent", "idle"} => (mine[c] = Null <=> conn[c] = Null)
  /\ at[c] = "wait" => conn[c] # Null /\ call[c] # Null
  /\ at[c] = "wait" /\ call[c].type \notin {"file", "dir"} =>
       mine[c] # Null /\ Fitting(mine[c], call[c])
  /\ Waits(c) => Told(c)

\* A live connection is the program's own and not closed, and the server has there
\* what the program has open.
Link(c) ==
  Live(c) => /\ peer[conn[c]] = c /\ ~hung[conn[c]]
             /\ IF After(c) = Null THEN FdOf(conn[c]) = Null ELSE Same(FdOf(conn[c]), After(c))

States == {"absent", "idle", "connect", "wait"}

ServerTypes ==
  /\ all_fds \in Seq(Handle) /\ rest \in Seq(Handle) /\ backlog \in Seq(Client)
  /\ loop \in {"tar", "wait", "serve", "lost"} /\ todo \in Rest \cup {Null}
  /\ handle_to_fd \in [Handle -> Object \cup {Null}] /\ peer \in [Handle -> Client \cup {Null}]
  /\ inbox \in [Handle -> Request \cup {Null}] /\ hung \in [Handle -> BOOLEAN]

ProgramTypes ==
  /\ at \in [Client -> States] /\ cwd \in [Client -> Seq(Name)]
  /\ conn \in [Client -> Handle \cup {Null}] /\ mine \in [Client -> Opened \cup {Null}]
  /\ call \in [Client -> Request \cup {Null}] /\ answer \in [Client -> Response \cup {Null}]

\* The handles are those with a program, and a number that is not one is clean.
HandlesInv ==
  /\ IsInjective(all_fds) /\ Range(all_fds) = {h \in Handle : peer[h] # Null}
  /\ \A h \in Handle : peer[h] = Null =>
       handle_to_fd[h] = Null /\ inbox[h] = Null /\ ~hung[h]

\* The connections not accepted are those of the programs that wait for it.
BacklogInv ==
  /\ IsInjective(backlog)
  /\ Range(backlog) = {c \in Client : at[c] = "connect" /\ conn[c] = Null}

\* A request is that of the program at the other end, which waits for the answer.
AskedInv ==
  \A h \in Handle : inbox[h] # Null =>
    /\ peer[h] \in Client /\ at[peer[h]] = "wait" /\ answer[peer[h]] = Null
    /\ conn[peer[h]] = h /\ call[peer[h]] = inbox[h]

\* What is left of a round is there to serve.
RoundInv ==
  /\ IsInjective(rest) /\ Range(rest) \subseteq Range(all_fds)
  /\ loop = "serve" => rest # <<>>
  /\ loop # "serve" => todo = Null
  /\ \A h \in Range(rest) : inbox[h] # Null \/ (todo # Null /\ h = Head(rest))

\* An open that is not finished: its connection is lost to the program, or has
\* nothing else.
TodoInv ==
  todo # Null =>
    /\ todo.op = "close" => \A c \in Client : Live(c) => conn[c] # Head(rest)
    /\ todo.op = "set" => handle_to_fd[Head(rest)] = Null

\* Nobody has a connection before the archive is read.
StartInv == loop = "tar" => \A c \in Client : at[c] \in {"absent", "idle"} /\ conn[c] = Null

ClientInv == \A c \in Client : Phase(c) /\ Link(c)

VfsInv ==
  /\ ServerTypes /\ ProgramTypes /\ TableInv /\ StartInv /\ HandlesInv /\ BacklogInv
  /\ AskedInv /\ RoundInv /\ TodoInv /\ ClientInv

-----------------------------------------------------------------------------
(* Records                                                                 *)

(* What a request has. *)
LEMMA RequestIs ==
  ASSUME NEW r \in Request
  PROVE  /\ r.type \in {"file", "dir", "read", "write", "readdir", "lseek"}
         /\ r.type \in {"file", "dir"} => r.path \in Seq(Name)
         /\ r.type \in {"read", "write"} => r.len \in Nat
         /\ r.type = "lseek" => r.len \in Int /\ r.whence \in {"SET", "CUR", "END"}
<1>1. CASE r \in [type : {"file", "dir"}, path : Seq(Name)]
  BY <1>1
<1>2. CASE r \in [type : {"read", "write"}, len : Nat]
  BY <1>2
<1>3. CASE r \in [type : {"readdir"}]
  BY <1>3
<1>4. CASE r \in [type : {"lseek"}, len : Int, whence : {"SET", "CUR", "END"}]
  BY <1>4
<1> QED BY <1>1, <1>2, <1>3, <1>4 DEF Request

(* What an object and a program's view of it have. *)
LEMMA ObjectIs ==
  ASSUME NEW f \in Object
  PROVE  f.kind \in {"file", "dir"} /\ f.fs \in 0 .. 2 /\ f.index \in Nat /\ f.pos \in Int
  BY DEF Object

LEMMA OpenedIs ==
  ASSUME NEW o \in Opened
  PROVE  o.kind \in {"file", "dir"} /\ o.path \in Seq(Name) /\ o.pos \in Int
  BY DEF Opened

(* Null is none of them. *)
LEMMA NotNull ==
  /\ Null \notin Client /\ Null \notin Nat /\ Null \notin Seq(Name) /\ Null \notin Request
  /\ Null \notin Response /\ Null \notin Object /\ Null \notin Rest /\ Null \notin Opened
  BY VfsAssumption

(* The answers. *)
LEMMA AnswerIs ==
  ASSUME NEW err \in Nat, NEW len \in Nat, NEW bytes \in Seq(Name) \cup Seq(Seq(Name) \X Int)
  PROVE  /\ Answer(err, len, bytes) \in Response
         /\ Answer(err, len, bytes).err = err /\ Answer(err, len, bytes).len = len
  BY DEF Answer, Response

LEMMA RefusedIs ==
  ASSUME NEW err \in Nat
  PROVE  Refused(err) \in Response /\ Refused(err).err = err /\ Refused(err).len = 0
<1>1. <<>> \in Seq(Name)
  OBVIOUS
<1>2. 0 \in Nat
  OBVIOUS
<1> QED BY <1>1, <1>2 DEF Refused, Answer, Response

LEMMA NothingIs ==
  /\ Answer(0, 0, <<>>) \in Response
  /\ Answer(0, 0, <<>>).err = 0 /\ Answer(0, 0, <<>>).len = 0
<1>1. <<>> \in Seq(Name) /\ 0 \in Nat
  OBVIOUS
<1> QED BY <1>1, AnswerIs

(* Both sides move on. *)
LEMMA Moved ==
  ASSUME NEW f, NEW o, Same(f, o), NEW x \in Nat,
         f.kind = "dir" => x <= Len(Listing(o.path))
  PROVE  Same([f EXCEPT !.pos = x], [o EXCEPT !.pos = x])
<1>1. f \in Object /\ o \in Opened
  BY DEF Same
<1>2. PICK g, q : g = [f EXCEPT !.pos = x] /\ q = [o EXCEPT !.pos = x]
  OBVIOUS
<1>3. /\ g \in Object /\ g.kind = f.kind /\ g.fs = f.fs /\ g.index = f.index /\ g.pos = x
      /\ q \in Opened /\ q.kind = o.kind /\ q.path = o.path /\ q.pos = x
  BY <1>1, <1>2 DEF Object, Opened
<1>4. Same(g, q)
  BY <1>3 DEF Same
<1> QED BY <1>2, <1>4

(* A seek, a read and so on that leaves the program where it is. *)
LEMMA Stays ==
  ASSUME NEW o \in Opened
  PROVE  [o EXCEPT !.pos = o.pos] = o
  BY DEF Opened

-----------------------------------------------------------------------------
(* Requests                                                                *)

\* Program and server agree after the answer res, with which the object is g.
Agrees(g, res, o, r) ==
  /\ res \in Response
  /\ Same(g, [o EXCEPT !.pos = PosAfter(o, r, res)])
  /\ ~OnDisk(o.path) => res = Expected(o, r)

(* What they agree on, in numbers. *)
LEMMA SameIs ==
  ASSUME TableInv, NEW f, NEW o, Same(f, o)
  PROVE  /\ f \in Object /\ o \in Opened /\ f.kind = o.kind /\ o.path \in Seq(Name)
         /\ OnDisk(o.path) <=> f.fs = 1
         /\ f.fs = 2 <=> o.path = <<>>
         /\ f.fs # 1 => f.pos = o.pos /\ o.pos \in Nat
         /\ f.fs = 0 => /\ f.index \in 1 .. Len(entry) /\ entry[f.index].name = Tail(o.path)
                        /\ o.path # <<>> /\ Head(o.path) = "tarfs"
<1>1. f \in Object /\ o \in Opened /\ f.kind = o.kind /\ f.fs = GetFsIndex(o.path)
  BY DEF Same
<1>2. DOMAIN entry = 1 .. Len(entry)
  BY TableEntries DEF TableInv
<1> QED BY <1>1, <1>2, FsIndex, OpenedIs DEF Same

(* Files on the disk. *)
LEMMA DiskAgrees ==
  ASSUME TableInv, NEW f, NEW o, Same(f, o), OnDisk(o.path), NEW r, NEW res \in Response
  PROVE  Agrees(f, res, o, r)
<1>1. PosAfter(o, r, res) = o.pos
  BY DEF PosAfter
<1>2. [o EXCEPT !.pos = PosAfter(o, r, res)] = o
  BY <1>1, SameIs, Stays
<1> QED BY <1>2 DEF Agrees

(* A file that is not on the disk is in the archive. *)
LEMMA ArchiveFile ==
  ASSUME TableInv, NEW f, NEW o, Same(f, o), o.kind = "file", ~OnDisk(o.path)
  PROVE  f.fs = 0
<1>1. f.fs # 1 /\ f \in Object /\ f.kind = "file"
  BY SameIs
<1>2. f.fs # 2
  BY <1>1 DEF Same
<1>3. f.fs \in 0 .. 2
  BY <1>1, ObjectIs
<1> QED BY <1>1, <1>2, <1>3

(* write. *)
LEMMA WriteAgrees ==
  ASSUME TableInv, NEW f, NEW o, Same(f, o), o.kind = "file", NEW r \in Request, r.type = "write",
         NEW res \in MyWrite(f, r.len)
  PROVE  Agrees(f, res, o, r)
<1>1. r.len \in Nat
  BY RequestIs
<1>2. Refused(EBADF) \in Response /\ Refused(ENOSPC) \in Response
  BY RefusedIs DEF EBADF, ENOSPC
<1>3. Answer(0, r.len, <<>>) \in Response
  <2>1. <<>> \in Seq(Name) /\ 0 \in Nat
    OBVIOUS
  <2> QED BY <1>1, <2>1, AnswerIs
<1>4. res \in Response
  BY <1>2, <1>3 DEF MyWrite
<1>5. [o EXCEPT !.pos = PosAfter(o, r, res)] = o
  <2>1. PosAfter(o, r, res) = o.pos
    BY DEF PosAfter
  <2> QED BY <2>1, SameIs, Stays
<1>6. ~OnDisk(o.path) => res = Expected(o, r)
  <2> SUFFICES ASSUME ~OnDisk(o.path) PROVE res = Expected(o, r)
    OBVIOUS
  <2>1. f.fs = 0
    BY ArchiveFile
  <2>2. res = Refused(EBADF)
    BY <2>1 DEF MyWrite
  <2>3. Expected(o, r) = Refused(EBADF)
    BY DEF Expected
  <2> QED BY <2>2, <2>3
<1> QED BY <1>4, <1>5, <1>6 DEF Agrees

(* lseek. *)
LEMMA LseekAgrees ==
  ASSUME TableInv, loop # "tar", NEW f, NEW o, Same(f, o), o.kind = "file", ~OnDisk(o.path),
         NEW r \in Request, r.type = "lseek", Seeked(o, r) \in Nat
  PROVE  Agrees(MyLseek(f, r.len, r.whence), Answer(0, 0, <<>>), o, r)
<1>1. f.fs = 0 /\ f.pos = o.pos /\ f.kind = "file"
  BY ArchiveFile, SameIs
<1>2. SizeOf(o.path) = entry[f.index].len
  <2>1. /\ f.index \in 1 .. Len(entry) /\ entry[f.index].name = Tail(o.path)
        /\ o.path # <<>> /\ Head(o.path) = "tarfs"
    BY <1>1, SameIs
  <2> QED BY <2>1, NamedIs
<1>3. PICK x \in Nat : x = Seeked(o, r)
  OBVIOUS
<1>4. MyLseek(f, r.len, r.whence) = [f EXCEPT !.pos = x]
  <2>1. r.whence \in {"SET", "CUR", "END"}
    BY RequestIs
  <2>2. CASE r.whence = "SET"
    BY <1>3, <2>2 DEF MyLseek, Seeked
  <2>3. CASE r.whence = "CUR"
    BY <1>1, <1>3, <2>3 DEF MyLseek, Seeked
  <2>4. CASE r.whence = "END"
    BY <1>1, <1>2, <1>3, <2>4 DEF MyLseek, Seeked
  <2> QED BY <2>1, <2>2, <2>3, <2>4
<1>5. PosAfter(o, r, Answer(0, 0, <<>>)) = x
  BY <1>3 DEF PosAfter
<1>6. Same([f EXCEPT !.pos = x], [o EXCEPT !.pos = x])
  BY <1>1, <1>3, Moved
<1>7. Expected(o, r) = Answer(0, 0, <<>>)
  BY DEF Expected
<1> QED BY <1>4, <1>5, <1>6, <1>7, NothingIs DEF Agrees

(* A read from a file of the archive. *)
LEMMA TarfsAgrees ==
  ASSUME TableInv, loop # "tar", NEW f, NEW o, Same(f, o), o.kind = "file", ~OnDisk(o.path),
         NEW r \in Request, r.type = "read"
  PROVE  Agrees(TarfsRead(f, r.len).f, TarfsRead(f, r.len).res, o, r)
<1>1. /\ f.fs = 0 /\ f.pos = o.pos /\ f.kind = "file" /\ f \in Object /\ o \in Opened
      /\ f.index \in 1 .. Len(entry) /\ entry[f.index].name = Tail(o.path)
      /\ o.path # <<>> /\ Head(o.path) = "tarfs"
  BY ArchiveFile, SameIs
<1>a. PICK e : e = entry[f.index]
  OBVIOUS
<1>b. PICK pos : pos = o.pos
  OBVIOUS
<1>c. PICK count : count = r.len
  OBVIOUS
<1>d. PICK size : size = e.len
  OBVIOUS
<1>2. /\ pos \in Nat /\ count \in Nat /\ size \in Nat
      /\ e = entry[f.index] /\ pos = o.pos /\ count = r.len /\ size = e.len
      /\ SizeOf(o.path) = size
  <2>1. o.pos \in Nat
    BY <1>1, SameIs
  <2>2. r.len \in Nat
    BY RequestIs
  <2>3. entry[f.index].len \in Nat
    BY <1>1, TableEntries DEF TableInv
  <2>4. SizeOf(o.path) = entry[f.index].len
    BY <1>1, NamedIs
  <2> QED BY <1>a, <1>b, <1>c, <1>d, <2>1, <2>2, <2>3, <2>4
<1>e. pos \in Nat /\ count \in Nat /\ size \in Nat
  BY <1>2
<1>3. PICK n \in Int : n = IF pos + count >= size THEN size - pos ELSE count
  BY <1>e
<1>4. PICK got : got = [k \in 1 .. n |-> ByteAt(e, pos + k - 1)]
  OBVIOUS
<1>5. TarfsRead(f, r.len) =
        IF pos = size THEN [res |-> Answer(0, 0, <<>>), f |-> f]
        ELSE [res |-> IF n < 0 THEN Refused(-n) ELSE Answer(0, n, got),
              f   |-> [f EXCEPT !.pos = @ + n]]
  BY <1>1, <1>2, <1>3, <1>4 DEF TarfsRead
<1>6. [f EXCEPT !.pos = @ + n] = [f EXCEPT !.pos = pos + n]
  BY <1>1, <1>2
<1>7. \A x \in Nat : Same([f EXCEPT !.pos = x], [o EXCEPT !.pos = x])
  BY <1>1, Moved
<1>8. \A res : PosAfter(o, r, res) = IF res.err # 0 THEN size ELSE pos + res.len
  BY <1>2 DEF PosAfter
<1>9. CASE pos > size
  <2>1. n = size - pos /\ n < 0 /\ -n \in Nat /\ -n = pos - size /\ pos # size /\ pos + n = size
    BY <1>e, <1>3, <1>9
  <2>2. TarfsRead(f, r.len).res = Refused(pos - size) /\ TarfsRead(f, r.len).f = [f EXCEPT !.pos = size]
    BY <1>5, <1>6, <2>1
  <2>3. Expected(o, r) = Refused(pos - size)
    BY <1>2, <1>9 DEF Expected
  <2>4. Refused(pos - size) \in Response /\ Refused(pos - size).err # 0
    BY <2>1, RefusedIs
  <2>5. PosAfter(o, r, Refused(pos - size)) = size
    BY <1>e, <1>8, <2>4
  <2> QED BY <1>e, <1>7, <2>2, <2>3, <2>4, <2>5 DEF Agrees
<1>10. CASE pos <= size
  <2> DEFINE m == Min({count, size - pos})
  <2>1. m \in Nat /\ m = IF pos + count >= size THEN size - pos ELSE count
    <3>1. {count, size - pos} \in SUBSET Nat /\ {count, size - pos} # {}
      BY <1>e, <1>10
    <3>2. PICK y : y = m
      OBVIOUS
    <3>3. y \in {count, size - pos} /\ \A v \in {count, size - pos} : y <= v
      BY <3>1, <3>2, MinMember
    <3> HIDE DEF m
    <3> QED BY <1>e, <1>10, <3>2, <3>3
  <2> HIDE DEF m
  <2>2. m = n /\ n \in Nat /\ pos + n <= size
    BY <1>e, <1>3, <1>10, <2>1
  <2>3. \A k \in 1 .. n : ByteAt(e, pos + k - 1) = <<Tail(o.path), pos + k - 1>>
    <3> SUFFICES ASSUME NEW k \in 1 .. n PROVE ByteAt(e, pos + k - 1) = <<Tail(o.path), pos + k - 1>>
      OBVIOUS
    <3>1. PICK y \in Int : y = pos + k - 1
      BY <1>e, <2>2
    <3>2. y \in 0 .. size - 1
      BY <1>e, <2>2, <3>1
    <3>3. ByteAt(e, y) = <<e.name, y>>
      BY <1>1, <1>2, <3>2, ByteIs
    <3> QED BY <1>1, <1>2, <3>1, <3>3
  <2>4. got = [k \in 1 .. n |-> <<Tail(o.path), pos + k - 1>>]
    BY <1>4, <2>3
  <2>5. Bytes(o, r.len) = got
    BY <1>2, <2>2, <2>4 DEF Bytes, m
  <2>6. got \in Seq(Seq(Name) \X Int) /\ Len(got) = n
    <3>1. Tail(o.path) \in Seq(Name)
      BY <1>1, OpenedIs
    <3>2. \A k \in 1 .. n : <<Tail(o.path), pos + k - 1>> \in Seq(Name) \X Int
      BY <1>e, <2>2, <3>1
    <3>3. got \in [1 .. n -> Seq(Name) \X Int]
      BY <2>4, <3>2
    <3> QED BY <2>2, <3>3
  <2>7. Expected(o, r) = Answer(0, n, got)
    <3>1. ~(o.pos > SizeOf(o.path))
      BY <1>2, <1>10
    <3> QED BY <2>5, <2>6, <3>1 DEF Expected
  <2>8. TarfsRead(f, r.len).res = Answer(0, n, got) /\ TarfsRead(f, r.len).f = [f EXCEPT !.pos = pos + n]
    <3>1. CASE pos = size
      <4>1. n = 0 /\ pos + n = pos
        BY <1>e, <2>1, <2>2, <3>1
      <4>2. got = <<>>
        BY <2>6, <4>1
      <4>3. f = [f EXCEPT !.pos = pos]
        BY <1>1, <1>2 DEF Object
      <4> QED BY <1>5, <3>1, <4>1, <4>2, <4>3
    <3>2. CASE pos # size
      BY <1>5, <1>6, <2>2, <3>2
    <3> QED BY <3>1, <3>2
  <2>9. /\ Answer(0, n, got) \in Response /\ Answer(0, n, got).err = 0
        /\ Answer(0, n, got).len = n
    <3>1. 0 \in Nat /\ n \in Nat /\ got \in Seq(Name) \cup Seq(Seq(Name) \X Int)
      BY <2>2, <2>6
    <3> QED BY <3>1, AnswerIs
  <2>10. PosAfter(o, r, Answer(0, n, got)) = pos + n /\ pos + n \in Nat
    BY <1>e, <1>8, <2>2, <2>9
  <2> QED BY <1>7, <2>7, <2>8, <2>9, <2>10 DEF Agrees
<1> QED BY <1>e, <1>9, <1>10

(* read_root_dir. *)
LEMMA RootDirAgrees ==
  ASSUME TableInv, NEW f, NEW o, Same(f, o), o.kind = "dir", f.fs = 2,
         NEW r \in Request, r.type = "readdir"
  PROVE  Agrees(ReadRootDir(f).f, ReadRootDir(f).res, o, r)
<1>1. f \in Object /\ o \in Opened /\ o.path = <<>> /\ f.kind = "dir" /\ ~OnDisk(o.path)
  BY SameIs
<1>2. f.pos = o.pos /\ o.pos \in Nat /\ o.pos <= 2
  BY <1>1, SameIs, RootListing DEF Same
<1>3. PICK pos \in Nat : pos = o.pos
  BY <1>2
<1>4. \A x \in Nat : x <= 2 => Same([f EXCEPT !.pos = x], [o EXCEPT !.pos = x])
  BY <1>1, Moved, RootListing
<1>5. \A res : PosAfter(o, r, res) = pos + res.len
  BY <1>1, <1>3 DEF PosAfter
<1>6. Expected(o, r) = IF pos = 2 THEN Answer(0, 0, <<>>)
                       ELSE Answer(0, 1, Listing(<<>>)[pos + 1])
  BY <1>1, <1>3, RootListing DEF Expected
<1>7. CASE pos = 2
  <2>1. ReadRootDir(f).res = Answer(0, 0, <<>>) /\ ReadRootDir(f).f = f
    BY <1>2, <1>3, <1>7 DEF ReadRootDir
  <2>2. PosAfter(o, r, Answer(0, 0, <<>>)) = o.pos
    BY <1>3, <1>5, NothingIs
  <2>3. [o EXCEPT !.pos = PosAfter(o, r, Answer(0, 0, <<>>))] = o
    BY <1>1, <2>2, Stays
  <2> QED BY <1>6, <1>7, <2>1, <2>3, NothingIs DEF Agrees
<1>8. CASE pos # 2
  <2>1. PICK name : name = << <<"tarfs", "sata">>[pos + 1] >>
    OBVIOUS
  <2>2. name = Listing(<<>>)[pos + 1] /\ name \in Seq(Name)
    <3>1. pos \in {0, 1}
      BY <1>2, <1>3, <1>8
    <3>2. CASE pos = 0
      BY <2>1, <3>2, RootListing, Sizes
    <3>3. CASE pos = 1
      BY <2>1, <3>3, RootListing, Sizes
    <3> QED BY <3>1, <3>2, <3>3
  <2>3. ReadRootDir(f).res = Answer(0, 1, name) /\ ReadRootDir(f).f = [f EXCEPT !.pos = pos + 1]
    BY <1>2, <1>3, <1>8, <2>1 DEF ReadRootDir
  <2>4. /\ Answer(0, 1, name) \in Response /\ Answer(0, 1, name).len = 1
    BY <2>2, AnswerIs
  <2>5. PosAfter(o, r, Answer(0, 1, name)) = pos + 1
    BY <1>5, <2>4
  <2>6. pos + 1 \in Nat /\ pos + 1 <= 2
    BY <1>2, <1>3, <1>8
  <2> QED BY <1>4, <1>6, <1>8, <2>2, <2>3, <2>4, <2>5, <2>6 DEF Agrees
<1> QED BY <1>7, <1>8

(* read_tarfs_dir. *)
LEMMA TarfsDirAgrees ==
  ASSUME TableInv, loop # "tar", NEW f, NEW o, Same(f, o), o.kind = "dir", f.fs = 0,
         NEW r \in Request, r.type = "readdir"
  PROVE  Agrees(ReadTarfsDir(f).f, ReadTarfsDir(f).res, o, r)
<1>1. /\ f \in Object /\ o \in Opened /\ f.kind = "dir" /\ ~OnDisk(o.path) /\ o.path # <<>>
      /\ f.index \in 1 .. Len(entry) /\ entry[f.index].name = Tail(o.path)
  BY SameIs
<1>2. PICK s : s = entry[f.index].subdirs
  OBVIOUS
<1>3. PICK ns \in Seq(Seq(Name)) : ns = Listing(o.path)
  BY <1>1, ListingIs
<1>4. Len(s) = Len(ns) /\ \A k \in 1 .. Len(s) : entry[s[k]].name = ns[k]
  BY <1>1, <1>2, <1>3, ListingIs
<1>5. PICK l \in Nat : l = Len(ns)
  BY <1>3
<1>6. f.pos = o.pos /\ o.pos \in Nat /\ o.pos <= l
  BY <1>1, <1>3, <1>5, SameIs DEF Same
<1>7. PICK pos \in Nat : pos = o.pos
  BY <1>6
<1>8. \A x \in Nat : x <= l => Same([f EXCEPT !.pos = x], [o EXCEPT !.pos = x])
  BY <1>1, <1>3, <1>5, Moved
<1>9. \A res : PosAfter(o, r, res) = pos + res.len
  BY <1>1, <1>7 DEF PosAfter
<1>10. Expected(o, r) = IF pos = l THEN Answer(0, 0, <<>>) ELSE Answer(0, 1, ns[pos + 1])
  BY <1>3, <1>5, <1>7 DEF Expected
<1>11. CASE pos = l
  <2>1. ReadTarfsDir(f).res = Answer(0, 0, <<>>) /\ ReadTarfsDir(f).f = f
    BY <1>2, <1>4, <1>5, <1>6, <1>7, <1>11 DEF ReadTarfsDir
  <2>2. PosAfter(o, r, Answer(0, 0, <<>>)) = o.pos
    BY <1>7, <1>9, NothingIs
  <2>3. [o EXCEPT !.pos = PosAfter(o, r, Answer(0, 0, <<>>))] = o
    BY <1>1, <2>2, Stays
  <2> QED BY <1>10, <1>11, <2>1, <2>3, NothingIs DEF Agrees
<1>12. CASE pos # l
  <2>1. pos + 1 \in 1 .. l /\ pos + 1 \in Nat /\ pos + 1 <= l
    BY <1>6, <1>7, <1>12
  <2>2. PICK name : name = ns[pos + 1] /\ name = entry[s[pos + 1]].name /\ name \in Seq(Name)
    BY <1>3, <1>4, <1>5, <2>1
  <2>3. ReadTarfsDir(f).res = Answer(0, 1, name) /\ ReadTarfsDir(f).f = [f EXCEPT !.pos = pos + 1]
    BY <1>2, <1>4, <1>5, <1>6, <1>7, <1>12, <2>2 DEF ReadTarfsDir
  <2>4. /\ Answer(0, 1, name) \in Response /\ Answer(0, 1, name).len = 1
    BY <2>2, AnswerIs
  <2>5. PosAfter(o, r, Answer(0, 1, name)) = pos + 1
    BY <1>9, <2>4
  <2> QED BY <1>8, <1>10, <1>12, <2>1, <2>2, <2>3, <2>4, <2>5 DEF Agrees
<1> QED BY <1>11, <1>12

(* Every request, whatever the disk answers. *)
LEMMA ServedAgrees ==
  ASSUME TableInv, loop # "tar", NEW f, NEW o, Same(f, o), NEW r, Fitting(o, r),
         NEW s \in Served(f, r)
  PROVE  Agrees(s.f, s.res, o, r)
<1>1. /\ r \in Request /\ r.type \in {"read", "write", "readdir", "lseek"}
      /\ r.type \in {"read", "write", "lseek"} => o.kind = "file"
      /\ r.type = "readdir" => o.kind = "dir"
  BY RequestIs DEF Fitting
<1>2. f \in Object /\ f.fs \in 0 .. 2 /\ (OnDisk(o.path) <=> f.fs = 1)
  BY SameIs, ObjectIs
<1>3. <<"sata">> \in Seq(Name)
  BY Sizes
<1>4. CASE r.type = "read"
  <2>1. s \in MyRead(f, r.len) /\ r.len \in Nat
    BY <1>1, <1>4, RequestIs DEF Served
  <2>2. CASE f.fs = 0
    <3>1. s = TarfsRead(f, r.len)
      BY <2>1, <2>2 DEF MyRead
    <3> QED BY <1>1, <1>2, <1>4, <2>2, <3>1, TarfsAgrees
  <2>3. CASE f.fs # 0
    <3>1. OnDisk(o.path)
      BY <1>1, <1>2, <1>4, <2>3, ArchiveFile
    <3>2. PICK res : /\ s = [res |-> res, f |-> f]
                     /\ res \in {Refused(EINVAL), Answer(0, 0, <<>>), Answer(0, r.len, <<"sata">>)}
      BY <2>1, <2>3 DEF MyRead
    <3>3. Answer(0, r.len, <<"sata">>) \in Response
      BY <1>3, <2>1, AnswerIs
    <3>4. Refused(EINVAL) \in Response
      BY RefusedIs DEF EINVAL
    <3>5. res \in Response
      BY <3>2, <3>3, <3>4, NothingIs
    <3> QED BY <3>1, <3>2, <3>5, DiskAgrees
  <2> QED BY <2>2, <2>3
<1>5. CASE r.type = "write"
  <2>1. PICK w \in MyWrite(f, r.len) : s = [res |-> w, f |-> f]
    BY <1>5 DEF Served
  <2> QED BY <1>1, <1>5, <2>1, WriteAgrees
<1>6. CASE r.type = "readdir"
  <2>1. s \in MyReaddir(f)
    BY <1>6 DEF Served
  <2>2. CASE f.fs = 2
    <3>1. s = ReadRootDir(f)
      BY <2>1, <2>2 DEF MyReaddir
    <3> QED BY <1>1, <1>6, <2>2, <3>1, RootDirAgrees
  <2>3. CASE f.fs = 0
    <3>1. s = ReadTarfsDir(f)
      BY <2>1, <2>3 DEF MyReaddir
    <3> QED BY <1>1, <1>6, <2>3, <3>1, TarfsDirAgrees
  <2>4. CASE f.fs = 1
    <3>1. PICK n \in {0, 1} : s = [res |-> Answer(0, n, <<"sata">>), f |-> f]
      BY <2>1, <2>4 DEF MyReaddir
    <3>2. Answer(0, n, <<"sata">>) \in Response
      BY <1>3, AnswerIs
    <3> QED BY <1>2, <2>4, <3>1, <3>2, DiskAgrees
  <2> QED BY <1>2, <2>2, <2>3, <2>4
<1>7. CASE r.type = "lseek"
  <2>1. s = [res |-> Answer(0, 0, <<>>), f |-> MyLseek(f, r.len, r.whence)]
    BY <1>7 DEF Served
  <2>2. ~OnDisk(o.path) /\ Seeked(o, r) \in Nat
    BY <1>7 DEF Fitting
  <2> QED BY <1>1, <1>7, <2>1, <2>2, LseekAgrees
<1> QED BY <1>1, <1>4, <1>5, <1>6, <1>7

(* What a new program's view and a new object have. *)
LEMMA NewOpened ==
  ASSUME NEW kind \in {"file", "dir"}, NEW path \in Seq(Name),
         NEW o, o = [kind |-> kind, path |-> path, pos |-> 0]
  PROVE  o \in Opened /\ o.kind = kind /\ o.path = path /\ o.pos = 0
<1>1. 0 \in Int
  OBVIOUS
<1> QED BY <1>1 DEF Opened

LEMMA NewObject ==
  ASSUME NEW kind \in {"file", "dir"}, NEW fs \in 0 .. 2, NEW j \in Nat,
         NEW f, f = [kind |-> kind, fs |-> fs, index |-> j, pos |-> 0]
  PROVE  f \in Object /\ f.kind = kind /\ f.fs = fs /\ f.index = j /\ f.pos = 0
<1>1. 0 \in Int
  OBVIOUS
<1> QED BY <1>1 DEF Object

(* A new object is what the program has asked for. *)
LEMMA NewSame ==
  ASSUME NEW f \in Object, NEW o \in Opened, f.kind = o.kind, f.fs = GetFsIndex(o.path),
         f.kind = "dir" \/ f.fs # 2, f.pos = 0, o.pos = 0,
         f.fs = 0 => f.index \in DOMAIN entry /\ entry[f.index].name = Tail(o.path),
         f.fs # 1 => Len(Listing(o.path)) \in Nat
  PROVE  Same(f, o)
<1>1. f.kind = "file" => f.fs # 2
  OBVIOUS
<1>2. f.fs # 1 => f.pos = o.pos /\ o.pos \in Nat /\ (f.kind = "dir" => o.pos <= Len(Listing(o.path)))
  OBVIOUS
<1> QED BY <1>1, <1>2 DEF Same

(* my_open and my_opendir. *)
LEMMA OpenIs ==
  ASSUME TableInv, loop # "tar", NEW kind \in {"file", "dir"}, NEW path \in Seq(Name),
         NEW f \in MyOpen(kind, path)
  PROVE  /\ f # Null => Same(f, [kind |-> kind, path |-> path, pos |-> 0])
         /\ ~OnDisk(path) => (f # Null <=> \/ Named(path) # {}
                                           \/ kind = "dir" /\ path = <<>>)
<1>1. PICK o : o = [kind |-> kind, path |-> path, pos |-> 0]
  OBVIOUS
<1>2. o \in Opened /\ o.kind = kind /\ o.path = path /\ o.pos = 0
  BY <1>1, NewOpened
<1>3. PICK fs : fs = GetFsIndex(path)
  OBVIOUS
<1>4. fs \in {-1, 0, 1, 2} /\ (fs = 1 <=> OnDisk(path)) /\ (fs = 2 <=> path = <<>>)
      /\ (fs = 0 <=> path # <<>> /\ Head(path) = "tarfs")
  BY <1>3, FsIndex
<1>5. ASSUME fs # 0 PROVE Named(path) = {}
  BY <1>4, <1>5 DEF Named
<1>6. Null \notin Object
  BY NotNull
<1>7. CASE fs = 0
  <2>1. f = TarfsOpen(kind, Tail(path))
    BY <1>3, <1>7 DEF MyOpen, ParsePath
  <2>2. PICK j : j = Lookup(entry, Tail(path))
    OBVIOUS
  <2>3. archive \in Archives /\ Table(archive, entry)
    BY DEF TableInv
  <2>4. Len(entry) \in Nat /\ DOMAIN entry = 1 .. Len(entry)
    BY <2>3, TableEntries
  <2>5. j \in 0 .. Len(entry) /\ (j # 0 => entry[j].name = Tail(path))
    BY <2>2, <2>3, LookupIs
  <2>6. Named(path) # {} <=> j # 0
    BY <1>4, <1>7, <2>2, NamedIs
  <2>7. CASE j = 0
    <3>1. f = Null
      BY <2>1, <2>2, <2>7 DEF TarfsOpen
    <3> QED BY <1>4, <1>7, <2>6, <2>7, <3>1
  <2>8. CASE j # 0
    <3>1. f = [kind |-> kind, fs |-> 0, index |-> j, pos |-> 0]
      BY <2>1, <2>2, <2>8 DEF TarfsOpen
    <3>2. j \in Nat /\ 0 \in 0 .. 2 /\ path # <<>> /\ j \in 1 .. Len(entry)
      BY <1>4, <1>7, <2>4, <2>5, <2>8
    <3>3. f \in Object /\ f.kind = kind /\ f.fs = 0 /\ f.index = j /\ f.pos = 0
      BY <3>1, <3>2, NewObject
    <3>4. Listing(path) \in Seq(Seq(Name))
      BY <1>4, <1>7, <2>5, <2>8, <3>2, ListingIs
    <3>5. Len(Listing(path)) \in Nat
      BY <3>4
    <3>6. entry[j].name = Tail(path) /\ j \in DOMAIN entry
      BY <2>4, <2>5, <2>8, <3>2
    <3>7. Same(f, o)
      <4>1. f.kind = o.kind /\ f.fs = GetFsIndex(o.path) /\ (f.kind = "dir" \/ f.fs # 2)
            /\ f \in Object /\ o \in Opened /\ f.pos = 0 /\ o.pos = 0
        BY <1>2, <1>3, <1>7, <3>3, <3>5, <3>6
      <4>2. f.fs = 0 => f.index \in DOMAIN entry /\ entry[f.index].name = Tail(o.path)
        BY <1>2, <1>3, <1>7, <3>3, <3>5, <3>6
      <4>3. f.fs # 1 => Len(Listing(o.path)) \in Nat
        BY <1>2, <1>3, <1>7, <3>3, <3>5, <3>6
      <4> QED BY <4>1, <4>2, <4>3, NewSame
    <3> QED BY <1>1, <1>6, <2>6, <2>8, <3>3, <3>7
  <2> QED BY <2>7, <2>8
<1>8. PICK made : made = [kind |-> kind, fs |-> fs, index |-> 0, pos |-> 0]
  OBVIOUS
<1>9. 0 \in Nat
  OBVIOUS
<1>10. CASE fs = 1
  <2>1. f \in {Null, made}
    BY <1>3, <1>8, <1>10 DEF MyOpen
  <2>2. made \in Object /\ made.kind = kind /\ made.fs = 1 /\ made.pos = 0
    BY <1>8, <1>9, <1>10, NewObject
  <2>3. Same(made, o)
    <3>1. made.kind = o.kind /\ made.fs = GetFsIndex(o.path) /\ (made.kind = "dir" \/ made.fs # 2)
          /\ made \in Object /\ o \in Opened /\ made.pos = 0 /\ o.pos = 0
      BY <1>2, <1>3, <1>10, <2>2
    <3>2. made.fs = 0 => made.index \in DOMAIN entry /\ entry[made.index].name = Tail(o.path)
      BY <1>2, <1>3, <1>10, <2>2
    <3>3. made.fs # 1 => Len(Listing(o.path)) \in Nat
      BY <1>2, <1>3, <1>10, <2>2
    <3> QED BY <3>1, <3>2, <3>3, NewSame
  <2> QED BY <1>1, <1>4, <1>10, <2>1, <2>3
<1>11. CASE fs = 2 /\ kind = "dir"
  <2>1. f = made
    BY <1>3, <1>8, <1>11 DEF MyOpen
  <2>2. made \in Object /\ made.kind = kind /\ made.fs = 2 /\ made.pos = 0
    BY <1>8, <1>9, <1>11, NewObject
  <2>3. Len(Listing(path)) = 2
    BY <1>4, <1>11, RootListing
  <2>4. Same(made, o)
    <3>1. made.kind = o.kind /\ made.fs = GetFsIndex(o.path) /\ (made.kind = "dir" \/ made.fs # 2)
          /\ made \in Object /\ o \in Opened /\ made.pos = 0 /\ o.pos = 0
      BY <1>2, <1>3, <1>11, <2>2, <2>3
    <3>2. made.fs = 0 => made.index \in DOMAIN entry /\ entry[made.index].name = Tail(o.path)
      BY <1>2, <1>3, <1>11, <2>2, <2>3
    <3>3. made.fs # 1 => Len(Listing(o.path)) \in Nat
      BY <1>2, <1>3, <1>11, <2>2, <2>3
    <3> QED BY <3>1, <3>2, <3>3, NewSame
  <2> QED BY <1>1, <1>4, <1>6, <1>11, <2>1, <2>2, <2>4
<1>12. CASE fs = -1 \/ (fs = 2 /\ kind # "dir")
  <2>1. f = Null
    BY <1>3, <1>12 DEF MyOpen
  <2> QED BY <1>4, <1>5, <1>12, <2>1
<1> QED BY <1>4, <1>7, <1>10, <1>11, <1>12

-----------------------------------------------------------------------------
(* What stays the same with the archive and its table                      *)

NamedIn(ms, path) ==
  {m \in ToSet(ms) \cup {[name |-> <<>>, size |-> 0]} :
     path # <<>> /\ Head(path) = "tarfs" /\ m.name = Tail(path)}
SizeIn(ms, path) == (CHOOSE m \in NamedIn(ms, path) : TRUE).size
ListingIn(ms, path) ==
  LET js == Picked(Ids(ms), InDir(ms, Tail(path)))
  IN  IF path = <<>> THEN << <<"tarfs">>, <<"sata">> >>
      ELSE [k \in DOMAIN js |-> ms[js[k]].name]

LEMMA KeptNames ==
  ASSUME archive' = archive
  PROVE  /\ \A path : Named(path)' = Named(path)
         /\ \A path : SizeOf(path)' = SizeOf(path)
         /\ \A path : Listing(path)' = Listing(path)
<1>1. \A path : Named(path) = NamedIn(archive, path)
  BY DEF Named, NamedIn
<1>2. \A path : Named(path)' = NamedIn(archive', path)
  BY DEF Named, NamedIn
<1>3. \A path : SizeOf(path) = SizeIn(archive, path)
  BY DEF SizeOf, SizeIn, Named, NamedIn
<1>4. \A path : SizeOf(path)' = SizeIn(archive', path)
  BY DEF SizeOf, SizeIn, Named, NamedIn
<1>5. \A path : Listing(path) = ListingIn(archive, path)
  BY DEF Listing, ListingIn, Ids, InDir
<1>6. \A path : Listing(path)' = ListingIn(archive', path)
  BY DEF Listing, ListingIn, Ids, InDir
<1> QED BY <1>1, <1>2, <1>3, <1>4, <1>5, <1>6

LEMMA KeptAnswers ==
  ASSUME archive' = archive
  PROVE  /\ \A o, r : Seeked(o, r)' = Seeked(o, r)
         /\ \A o, r, res : PosAfter(o, r, res)' = PosAfter(o, r, res)
         /\ \A o, r : Fitting(o, r)' <=> Fitting(o, r)
         /\ \A o, r : Expected(o, r)' = Expected(o, r)
<1>1. /\ \A path : SizeOf(path)' = SizeOf(path)
      /\ \A path : Listing(path)' = Listing(path)
  BY KeptNames
<1>2. ASSUME NEW o, NEW r PROVE Seeked(o, r)' = Seeked(o, r)
  BY <1>1 DEF Seeked
<1>3. ASSUME NEW o, NEW r, NEW res PROVE PosAfter(o, r, res)' = PosAfter(o, r, res)
  BY <1>1, <1>2 DEF PosAfter
<1>4. ASSUME NEW o, NEW r PROVE Fitting(o, r)' <=> Fitting(o, r)
  BY <1>2 DEF Fitting
<1>5. ASSUME NEW o, NEW count PROVE Bytes(o, count)' = Bytes(o, count)
  BY <1>1 DEF Bytes
<1>6. ASSUME NEW o, NEW r PROVE Expected(o, r)' = Expected(o, r)
  BY <1>1, <1>5 DEF Expected
<1> QED BY <1>2, <1>3, <1>4, <1>6

LEMMA KeptSame ==
  ASSUME archive' = archive, entry' = entry
  PROVE  \A f, o : Same(f, o)' <=> Same(f, o)
<1>1. \A path : Listing(path)' = Listing(path)
  BY KeptNames
<1> QED BY <1>1 DEF Same

-----------------------------------------------------------------------------
(* Programs that a step leaves alone                                       *)

Untouched(c) ==
  /\ at'[c] = at[c] /\ conn'[c] = conn[c] /\ mine'[c] = mine[c]
  /\ call'[c] = call[c] /\ answer'[c] = answer[c]

LEMMA KeptPhase ==
  ASSUME archive' = archive, NEW c, Untouched(c)
  PROVE  /\ Waits(c)' <=> Waits(c)
         /\ Live(c)' <=> Live(c)
         /\ After(c)' = After(c)
         /\ Phase(c)' <=> Phase(c)
<1>1. /\ \A o, r, res : PosAfter(o, r, res)' = PosAfter(o, r, res)
      /\ \A o, r : Fitting(o, r)' <=> Fitting(o, r)
      /\ \A o, r : Expected(o, r)' = Expected(o, r)
      /\ \A path : Named(path)' = Named(path)
  BY KeptAnswers, KeptNames
<1>2. Waits(c)' <=> Waits(c)
  BY DEF Waits, Untouched
<1>3. Live(c)' <=> Live(c)
  BY <1>2 DEF Live, Doomed, Untouched
<1>4. PosAfter(mine[c], call[c], answer[c])' = PosAfter(mine[c], call[c], answer[c])
  BY <1>1 DEF Untouched
<1>5. After(c)' = After(c)
  BY <1>2, <1>4 DEF After, Untouched
<1>6. Fitting(mine[c], call[c])' <=> Fitting(mine[c], call[c])
  BY <1>1 DEF Untouched
<1>7. Expected(mine[c], call[c])' = Expected(mine[c], call[c])
  BY <1>1 DEF Untouched
<1>8. Named(call[c].path)' = Named(call[c].path)
  BY <1>1 DEF Untouched
<1>9. Told(c)' <=> Told(c)
  BY <1>5, <1>7, <1>8 DEF Told, Untouched, OnDisk
<1>10. Phase(c)' <=> Phase(c)
  BY <1>2, <1>6, <1>9 DEF Phase, Untouched
<1> QED BY <1>2, <1>3, <1>5, <1>10

(* A program keeps what it has if its connection does. *)
LEMMA KeptClient ==
  ASSUME archive' = archive, entry' = entry, NEW c, Untouched(c), Phase(c), Link(c),
         Live(c) => /\ peer'[conn[c]] = peer[conn[c]] /\ hung'[conn[c]] = hung[conn[c]]
                    /\ FdOf(conn[c])' = FdOf(conn[c])
  PROVE  Phase(c)' /\ Link(c)'
<1>1. Phase(c)' /\ (Live(c)' <=> Live(c)) /\ After(c)' = After(c)
  BY KeptPhase
<1>2. \A f, o : Same(f, o)' <=> Same(f, o)
  BY KeptSame
<1>3. ASSUME Live(c) PROVE Same(FdOf(conn[c]), After(c))' <=> Same(FdOf(conn[c]), After(c))
  BY <1>1, <1>2, <1>3
<1>4. conn'[c] = conn[c]
  BY DEF Untouched
<1> QED BY <1>1, <1>3, <1>4 DEF Link

-----------------------------------------------------------------------------
(* The steps of the server                                                 *)

LEMMA VfsStart ==
  ASSUME VfsInit
  PROVE  VfsInv
<1>1. TableInv
  BY TableStart DEF VfsInit
<1>2. ServerTypes
  BY DEF VfsInit, ServerTypes
<1>3. /\ ProgramTypes
      /\ \A c \in Client : /\ at[c] \in {"absent", "idle"} /\ conn[c] = Null /\ mine[c] = Null
                           /\ call[c] = Null /\ answer[c] = Null
  <2>1. PICK g \in Groups : at = [c \in Client |-> IF c \in g THEN "idle" ELSE "absent"]
    BY DEF VfsInit
  <2>2. <<>> \in Seq(Name)
    OBVIOUS
  <2> QED BY <2>1, <2>2 DEF VfsInit, ProgramTypes, States
<1>4. Range(all_fds) = {} /\ IsInjective(all_fds)
  BY DEF VfsInit, Range, IsInjective
<1>5. Range(backlog) = {} /\ IsInjective(backlog)
  BY DEF VfsInit, Range, IsInjective
<1>6. Range(rest) = {} /\ IsInjective(rest)
  BY DEF VfsInit, Range, IsInjective
<1>7. HandlesInv /\ AskedInv
  BY <1>4 DEF VfsInit, HandlesInv, AskedInv
<1>8. BacklogInv
  BY <1>3, <1>5 DEF BacklogInv
<1>9. RoundInv /\ TodoInv
  BY <1>4, <1>6 DEF VfsInit, RoundInv, TodoInv
<1>10. StartInv
  BY <1>3 DEF StartInv
<1>11. ClientInv
  BY <1>3 DEF ClientInv, Phase, Link, Live, Waits
<1> QED BY <1>1, <1>2, <1>3, <1>7, <1>8, <1>9, <1>10, <1>11 DEF VfsInv

(* Without the loop's first part, the table stays. *)
LEMMA TableKept ==
  ASSUME TableInv, archive' = archive, entry' = entry, header' = header,
         loop = "tar" => loop' = "tar"
  PROVE  TableInv'
<1>1. archive \in Archives /\ Table(archive, entry) /\ header = StartOf(archive)[Len(entry)]
      /\ (loop # "tar" => Len(entry) = Len(archive) + 1)
  BY DEF TableInv
<1>2. archive' \in Archives /\ Table(archive', entry')
  BY <1>1
<1>3. header' = StartOf(archive')[Len(entry')]
  BY <1>1
<1>4. loop' # "tar" => Len(entry') = Len(archive') + 1
  BY <1>1
<1> QED BY <1>2, <1>3, <1>4 DEF TableInv

(* tarfs_init. *)
LEMMA TarKeeps ==
  ASSUME VfsInv, TarStep
  PROVE  VfsInv'
<1>1. /\ loop = "tar" /\ loop' \in {"tar", "wait"} /\ archive' = archive
      /\ UNCHANGED <<all_fds, rest, todo, handle_to_fd, kernel, program>>
  BY DEF TarStep
<1> USE DEF kernel, program
<1>2. TableInv'
  BY TableStep DEF VfsInv
<1>3. ServerTypes' /\ ProgramTypes' /\ HandlesInv' /\ BacklogInv' /\ AskedInv'
  BY <1>1 DEF VfsInv, ServerTypes, ProgramTypes, HandlesInv, BacklogInv, AskedInv
<1>4. RoundInv'
  BY <1>1 DEF VfsInv, RoundInv
<1>5. StartInv'
  BY <1>1 DEF VfsInv, StartInv
<1>6. TodoInv'
  BY <1>1 DEF VfsInv, RoundInv, TodoInv
<1>7. ASSUME NEW c \in Client PROVE Phase(c)' /\ Link(c)'
  <2>1. Phase(c) /\ conn[c] = Null
    BY <1>1 DEF VfsInv, ClientInv, StartInv
  <2>2. Untouched(c)
    BY <1>1 DEF Untouched
  <2>3. Phase(c)' /\ ~Live(c)'
    BY <1>1, <2>1, <2>2, KeptPhase DEF Live
  <2> QED BY <2>3 DEF Link
<1> QED BY <1>2, <1>3, <1>4, <1>5, <1>6, <1>7 DEF VfsInv, ClientInv

(* What Ready and all_fds have to do with each other. *)
LEMMA ReadyIs ==
  ASSUME ServerTypes
  PROVE  /\ ToSet(all_fds) = Range(all_fds) /\ Ready \subseteq Range(all_fds)
         /\ \A h \in Ready : inbox[h] # Null
  BY DEF Ready, ToSet, Range

(* A number that is free. *)
LEMMA FreeHandle ==
  ASSUME ServerTypes, HandlesInv, ~Full
  PROVE  LET h == Min(Handle \ ToSet(all_fds))
         IN  h \in Handle /\ h \notin Range(all_fds) /\ peer[h] = Null
<1>1. ToSet(all_fds) = Range(all_fds) /\ Range(all_fds) \subseteq Handle
  BY ReadyIs DEF HandlesInv
<1>2. Handle \subseteq Nat
  BY Sizes DEF Handle
<1>3. PICK I : I = Handle \ ToSet(all_fds)
  OBVIOUS
<1>4. I \in SUBSET Nat /\ I # {}
  BY <1>1, <1>2, <1>3 DEF Full
<1>5. Min(I) \in I
  BY <1>4, MinMember
<1> QED BY <1>1, <1>3, <1>5 DEF HandlesInv

(* What a round has to serve. *)
LEMMA BeginKeeps ==
  ASSUME ServerTypes, loop = "wait", todo = Null, Begin(all_fds'),
         all_fds' \in Seq(Handle), IsInjective(all_fds'), Range(all_fds) \subseteq Range(all_fds')
  PROVE  RoundInv' /\ TodoInv' /\ rest' \in Seq(Handle) /\ loop' \in {"wait", "serve"}
<1>1. /\ rest' = Picked(all_fds', Ready) /\ loop' = (IF Ready = {} THEN "wait" ELSE "serve")
      /\ todo' = Null /\ inbox' = inbox /\ hung' = hung
  BY DEF Begin
<1>2. /\ rest' \in Seq(Handle) /\ IsInjective(rest')
      /\ Range(rest') = Range(all_fds') \cap Ready
  BY <1>1, PickedIs
<1>3. Range(rest') = Ready
  BY <1>2, ReadyIs
<1>4. rest' = <<>> => Ready = {}
  <2>1. Range(<<>>) = {}
    BY DEF Range
  <2> QED BY <1>3, <2>1
<1>5. \A v \in Range(rest') : inbox'[v] # Null
  BY <1>1, <1>3, ReadyIs
<1>6. RoundInv'
  BY <1>1, <1>2, <1>4, <1>5 DEF RoundInv
<1>7. TodoInv'
  BY <1>1 DEF TodoInv
<1> QED BY <1>1, <1>2, <1>6, <1>7

(* The connection at the head of the backlog gets a number. *)
LEMMA AcceptKeeps ==
  ASSUME VfsInv, loop = "wait", backlog # <<>>, ~Full, Accept, Begin(all_fds')
  PROVE  VfsInv'
<1>1. /\ ServerTypes /\ ProgramTypes /\ TableInv /\ HandlesInv /\ BacklogInv /\ AskedInv
      /\ todo = Null /\ ClientInv
  BY DEF VfsInv, RoundInv
<1>2. PICK h : h = Min(Handle \ ToSet(all_fds))
  OBVIOUS
<1>3. PICK c : c = Head(backlog)
  OBVIOUS
<1>4. /\ all_fds' = <<h>> \o all_fds /\ backlog' = Tail(backlog)
      /\ peer' = [peer EXCEPT ![h] = c] /\ conn' = [conn EXCEPT ![c] = h]
  BY <1>2, <1>3 DEF Accept
<1>5. h \in Handle /\ h \notin Range(all_fds) /\ peer[h] = Null
  BY <1>1, <1>2, <1>4, FreeHandle
<1>6. /\ backlog' \in Seq(Client) /\ IsInjective(backlog') /\ c \in Client /\ c \in Range(backlog)
      /\ Range(backlog') = Range(backlog) \ {c}
  BY <1>1, <1>3, <1>4, TailDistinct DEF ServerTypes, BacklogInv
<1>7. at[c] = "connect" /\ conn[c] = Null
  BY <1>1, <1>6 DEF BacklogInv
<1>8. /\ all_fds' \in Seq(Handle) /\ IsInjective(all_fds')
      /\ Range(all_fds') = Range(all_fds) \cup {h}
  BY <1>1, <1>4, <1>5, PrependDistinct DEF ServerTypes, HandlesInv
<1>9. /\ archive' = archive /\ header' = header /\ entry' = entry /\ todo' = Null
      /\ handle_to_fd' = handle_to_fd /\ inbox' = inbox /\ hung' = hung /\ at' = at /\ cwd' = cwd
      /\ mine' = mine /\ call' = call /\ answer' = answer
  BY <1>1 DEF Begin
<1>10. RoundInv' /\ TodoInv' /\ rest' \in Seq(Handle) /\ loop' \in {"wait", "serve"}
  BY <1>1, <1>8, BeginKeeps
<1>11. peer' \in [Handle -> Client \cup {Null}] /\ conn' \in [Client -> Handle \cup {Null}]
  BY <1>1, <1>4, <1>5, <1>6 DEF ServerTypes, ProgramTypes
<1>12. peer'[h] = c /\ conn'[c] = h /\ (\A v \in Handle : v # h => peer'[v] = peer[v])
       /\ (\A d \in Client : d # c => conn'[d] = conn[d])
  BY <1>1, <1>4, <1>5, <1>6 DEF ServerTypes, ProgramTypes
<1>13. c # Null /\ h # Null
  BY <1>5, <1>6, NotNull, Sizes DEF Handle
<1>14. ServerTypes' /\ ProgramTypes'
  BY <1>1, <1>6, <1>8, <1>9, <1>10, <1>11 DEF ServerTypes, ProgramTypes
<1>15. TableInv' /\ StartInv'
  BY <1>1, <1>9, <1>10, TableKept DEF StartInv
<1>16. HandlesInv'
  <2>1. Range(all_fds') = {v \in Handle : peer'[v] # Null}
    BY <1>1, <1>5, <1>8, <1>12, <1>13 DEF HandlesInv
  <2> QED BY <1>1, <1>8, <1>9, <1>12, <1>13, <2>1 DEF HandlesInv
<1>17. BacklogInv'
  BY <1>1, <1>6, <1>9, <1>12, <1>13 DEF BacklogInv
<1>18. AskedInv'
  <2> SUFFICES ASSUME NEW v \in Handle, inbox[v] # Null
               PROVE  /\ peer'[v] \in Client /\ at[peer'[v]] = "wait" /\ answer[peer'[v]] = Null
                      /\ conn'[peer'[v]] = v /\ call[peer'[v]] = inbox[v]
    BY <1>9 DEF AskedInv
  <2>1. v # h
    BY <1>1, <1>5 DEF HandlesInv
  <2>2. /\ peer[v] \in Client /\ at[peer[v]] = "wait" /\ answer[peer[v]] = Null
        /\ conn[peer[v]] = v /\ call[peer[v]] = inbox[v]
    BY <1>1 DEF AskedInv
  <2> QED BY <1>7, <1>12, <2>1, <2>2
<1>19. ASSUME NEW d \in Client PROVE Phase(d)' /\ Link(d)'
  <2>1. Phase(d) /\ Link(d)
    BY <1>1 DEF ClientInv
  <2>2. CASE d # c
    <3>1. Untouched(d)
      BY <1>9, <1>12, <2>2 DEF Untouched
    <3>2. ASSUME Live(d)
          PROVE  /\ peer'[conn[d]] = peer[conn[d]] /\ hung'[conn[d]] = hung[conn[d]]
                 /\ FdOf(conn[d])' = FdOf(conn[d])
      <4>1. peer[conn[d]] = d /\ conn[d] \in Handle
        BY <1>1, <2>1, <3>2 DEF Link, Live, ProgramTypes
      <4>2. conn[d] # h
        BY <1>5, <4>1, NotNull
      <4> QED BY <1>1, <1>9, <1>12, <2>2, <4>1, <4>2 DEF FdOf
    <3> QED BY <1>9, <2>1, <3>1, <3>2, KeptClient
  <2>3. CASE d = c
    <3>1. /\ call[c] = Null /\ answer[c] = Null /\ mine[c] = Null
      BY <1>7, <2>1, <2>3 DEF Phase
    <3>2. Phase(c)'
      BY <1>7, <1>9, <3>1 DEF Phase, Waits
    <3>3. ~hung[h] /\ handle_to_fd[h] = Null
      BY <1>1, <1>5 DEF HandlesInv
    <3>4. After(c)' = Null
      BY <1>9, <3>1 DEF After, Waits
    <3>5. FdOf(conn[c])' = Null
      BY <1>9, <1>12, <3>3 DEF FdOf
    <3> QED BY <1>9, <1>12, <2>3, <3>2, <3>3, <3>4, <3>5 DEF Link
  <2> QED BY <2>2, <2>3
<1> QED BY <1>10, <1>14, <1>15, <1>16, <1>17, <1>18, <1>19 DEF VfsInv, ClientInv

(* wait_on returns. *)
LEMMA RoundKeeps ==
  ASSUME VfsInv, Round
  PROVE  VfsInv'
<1>1. loop = "wait" /\ Begin(all_fds')
  BY DEF Round
<1>2. CASE backlog # <<>> /\ ~Full
  BY <1>1, <1>2, AcceptKeeps DEF Round
<1>3. CASE ~(backlog # <<>> /\ ~Full)
  <2>1. /\ ServerTypes /\ ProgramTypes /\ TableInv /\ HandlesInv /\ BacklogInv /\ AskedInv
        /\ todo = Null /\ ClientInv
    BY <1>1 DEF VfsInv, RoundInv
  <2>2. /\ all_fds' = all_fds /\ backlog' = backlog /\ peer' = peer /\ conn' = conn
        /\ archive' = archive /\ header' = header /\ entry' = entry /\ todo' = Null
        /\ handle_to_fd' = handle_to_fd /\ inbox' = inbox /\ hung' = hung /\ at' = at /\ cwd' = cwd
        /\ mine' = mine /\ call' = call /\ answer' = answer
    BY <1>1, <1>3, <2>1 DEF Round, Begin
  <2>3. RoundInv' /\ TodoInv' /\ rest' \in Seq(Handle) /\ loop' \in {"wait", "serve"}
    BY <1>1, <2>1, <2>2, BeginKeeps DEF ServerTypes, HandlesInv
  <2>4. ServerTypes' /\ ProgramTypes'
    BY <2>1, <2>2, <2>3 DEF ServerTypes, ProgramTypes
  <2>5. TableInv' /\ StartInv'
    BY <1>1, <2>1, <2>2, <2>3, TableKept DEF StartInv
  <2>6. HandlesInv' /\ BacklogInv' /\ AskedInv'
    BY <2>1, <2>2 DEF HandlesInv, BacklogInv, AskedInv
  <2>7. ASSUME NEW d \in Client PROVE Phase(d)' /\ Link(d)'
    <3>1. Phase(d) /\ Link(d)
      BY <2>1 DEF ClientInv
    <3>2. Untouched(d)
      BY <2>2 DEF Untouched
    <3>3. FdOf(conn[d])' = FdOf(conn[d])
      BY <2>1, <2>2 DEF FdOf
    <3> QED BY <2>2, <3>1, <3>2, <3>3, KeptClient
  <2> QED BY <2>3, <2>4, <2>5, <2>6, <2>7 DEF VfsInv, ClientInv
<1> QED BY <1>2, <1>3

(* On to the next handle. *)
LEMMA AdvanceIs ==
  ASSUME ServerTypes, RoundInv, loop = "serve"
  PROVE  /\ Head(rest) \in Handle /\ Head(rest) \in Range(rest)
         /\ Advance => /\ rest' \in Seq(Handle) /\ IsInjective(rest')
                       /\ Range(rest') = Range(rest) \ {Head(rest)}
                       /\ loop' \in {"wait", "serve"} /\ (loop' = "serve" => rest' # <<>>)
<1>1. rest \in Seq(Handle) /\ IsInjective(rest) /\ rest # <<>>
  BY DEF ServerTypes, RoundInv
<1>2. /\ Tail(rest) \in Seq(Handle) /\ IsInjective(Tail(rest)) /\ Head(rest) \in Handle
      /\ Head(rest) \in Range(rest) /\ Range(Tail(rest)) = Range(rest) \ {Head(rest)}
  BY <1>1, TailDistinct
<1>3. Len(rest) # 1 => Tail(rest) # <<>>
  <2>1. PICK t : t = Tail(rest)
    OBVIOUS
  <2>2. Len(t) = Len(rest) - 1 /\ Len(rest) \in Nat
    BY <1>1, <2>1
  <2>3. t = <<>> => Len(t) = 0
    OBVIOUS
  <2>4. t = <<>> => Len(rest) = 1
    BY <2>2, <2>3
  <2> QED BY <2>1, <2>4
<1> QED BY <1>2, <1>3 DEF Advance

(* A handle that is no program's any more is closed. *)
LEMMA CloseKeeps ==
  ASSUME VfsInv, loop = "serve", NEW h, h = Head(rest), CloseHandle(h), Advance, todo' = Null,
         inbox[h] = Null, \A c \in Client : Live(c) => conn[c] # h,
         UNCHANGED <<archive, header, entry, backlog, inbox, program>>
  PROVE  VfsInv'
<1>1. /\ ServerTypes /\ ProgramTypes /\ TableInv /\ HandlesInv /\ BacklogInv /\ AskedInv
      /\ RoundInv /\ ClientInv
  BY DEF VfsInv
<1>2. h \in Handle /\ h \in Range(rest)
  BY <1>1, AdvanceIs
<1>3. /\ rest' \in Seq(Handle) /\ IsInjective(rest') /\ Range(rest') = Range(rest) \ {h}
      /\ loop' \in {"wait", "serve"} /\ (loop' = "serve" => rest' # <<>>)
  BY <1>1, AdvanceIs
<1>4. /\ all_fds' = RemoveFirst(all_fds, h) /\ handle_to_fd' = [handle_to_fd EXCEPT ![h] = Null]
      /\ peer' = [peer EXCEPT ![h] = Null] /\ hung' = [hung EXCEPT ![h] = FALSE]
  BY DEF CloseHandle
<1>5. /\ archive' = archive /\ header' = header /\ entry' = entry /\ backlog' = backlog
      /\ inbox' = inbox /\ at' = at /\ cwd' = cwd /\ conn' = conn /\ mine' = mine /\ call' = call
      /\ answer' = answer
  BY DEF program
<1>6. /\ all_fds' \in Seq(Handle) /\ IsInjective(all_fds')
      /\ Range(all_fds') = Range(all_fds) \ {h}
  BY <1>1, <1>4, RemoveDistinct DEF ServerTypes, HandlesInv
<1>7. /\ handle_to_fd' \in [Handle -> Object \cup {Null}] /\ peer' \in [Handle -> Client \cup {Null}]
      /\ hung' \in [Handle -> BOOLEAN]
  BY <1>1, <1>2, <1>4 DEF ServerTypes
<1>8. /\ handle_to_fd'[h] = Null /\ peer'[h] = Null /\ hung'[h] = FALSE
      /\ \A v \in Handle : v # h => /\ handle_to_fd'[v] = handle_to_fd[v]
                                    /\ peer'[v] = peer[v] /\ hung'[v] = hung[v]
  BY <1>1, <1>2, <1>4 DEF ServerTypes
<1>9. ServerTypes' /\ ProgramTypes'
  BY <1>1, <1>3, <1>5, <1>6, <1>7 DEF ServerTypes, ProgramTypes
<1>10. TableInv' /\ StartInv' /\ TodoInv'
  BY <1>1, <1>3, <1>5, TableKept DEF StartInv, TodoInv
<1>11. HandlesInv'
  <2>1. Range(all_fds') = {v \in Handle : peer'[v] # Null}
    BY <1>1, <1>2, <1>6, <1>8 DEF HandlesInv
  <2> QED BY <1>1, <1>5, <1>6, <1>8, <2>1 DEF HandlesInv
<1>12. BacklogInv'
  BY <1>1, <1>5 DEF BacklogInv
<1>13. AskedInv'
  BY <1>1, <1>5, <1>8 DEF AskedInv
<1>14. RoundInv'
  <2>1. ASSUME NEW v \in Range(rest') PROVE inbox'[v] # Null
    <3>1. v \in Range(rest) /\ v # h
      BY <1>3
    <3>2. v \in Handle
      BY <1>1, <3>1 DEF RoundInv, HandlesInv
    <3> QED BY <1>1, <1>5, <1>8, <3>1, <3>2 DEF RoundInv
  <2>2. Range(rest') \subseteq Range(all_fds')
    BY <1>1, <1>3, <1>6 DEF RoundInv
  <2> QED BY <1>3, <2>1, <2>2 DEF RoundInv
<1>15. ASSUME NEW d \in Client PROVE Phase(d)' /\ Link(d)'
  <2>1. Phase(d) /\ Link(d)
    BY <1>1 DEF ClientInv
  <2>2. Untouched(d)
    BY <1>5 DEF Untouched
  <2>3. ASSUME Live(d)
        PROVE  /\ peer'[conn[d]] = peer[conn[d]] /\ hung'[conn[d]] = hung[conn[d]]
               /\ FdOf(conn[d])' = FdOf(conn[d])
    <3>1. conn[d] \in Handle /\ conn[d] # h
      BY <1>1, <2>3 DEF Live, ProgramTypes
    <3> QED BY <1>5, <1>8, <3>1 DEF FdOf
  <2> QED BY <1>5, <2>1, <2>2, <2>3, KeptClient
<1> QED BY <1>9, <1>10, <1>11, <1>12, <1>13, <1>14, <1>15 DEF VfsInv, ClientInv

(* Who has asked still has the connection. *)
LEMMA AskerLives ==
  ASSUME AskedInv, NEW h \in Handle, inbox[h] # Null
  PROVE  /\ peer[h] \in Client /\ Live(peer[h]) /\ conn[peer[h]] = h /\ ~Waits(peer[h])
         /\ at[peer[h]] = "wait" /\ answer[peer[h]] = Null /\ call[peer[h]] = inbox[h]
<1>1. /\ peer[h] \in Client /\ at[peer[h]] = "wait" /\ answer[peer[h]] = Null
      /\ conn[peer[h]] = h /\ call[peer[h]] = inbox[h]
  BY DEF AskedInv
<1>2. h # Null
  BY NotNull, Sizes DEF Handle
<1> QED BY <1>1, <1>2 DEF Live, Doomed, Waits

(* The answer to an open is out: the table is next. *)
LEMMA FinishKeeps ==
  ASSUME VfsInv, NEW h \in Handle, FinishOpen(h)
  PROVE  VfsInv'
<1>1. /\ ServerTypes /\ ProgramTypes /\ TableInv /\ HandlesInv /\ BacklogInv /\ AskedInv
      /\ RoundInv /\ TodoInv /\ ClientInv
  BY DEF VfsInv
<1>2. /\ loop = "serve" /\ todo # Null /\ h = Head(rest) /\ todo' = Null /\ Advance
      /\ UNCHANGED <<archive, header, entry, backlog, inbox, program>>
  BY DEF FinishOpen
<1>3. CASE todo.op = "close"
  <2>1. CloseHandle(h)
    BY <1>3 DEF FinishOpen
  <2>2. \A c \in Client : Live(c) => conn[c] # h
    BY <1>1, <1>2, <1>3 DEF TodoInv
  <2>3. inbox[h] = Null
    BY <1>1, <2>2, AskerLives
  <2> QED BY <1>2, <2>1, <2>2, <2>3, CloseKeeps
<1>4. CASE todo.op # "close"
  <2>1. todo.op = "set" /\ todo.f \in Object
    BY <1>1, <1>2, <1>4 DEF ServerTypes, Rest
  <2>2. /\ handle_to_fd' = [handle_to_fd EXCEPT ![h] = todo.f]
        /\ all_fds' = all_fds /\ peer' = peer /\ hung' = hung
    BY <1>4 DEF FinishOpen
  <2>3. /\ rest' \in Seq(Handle) /\ IsInjective(rest') /\ Range(rest') = Range(rest) \ {h}
        /\ loop' \in {"wait", "serve"} /\ (loop' = "serve" => rest' # <<>>) /\ h \in Range(rest)
    BY <1>1, <1>2, AdvanceIs
  <2>4. /\ archive' = archive /\ header' = header /\ entry' = entry /\ backlog' = backlog
        /\ inbox' = inbox /\ at' = at /\ cwd' = cwd /\ conn' = conn /\ mine' = mine /\ call' = call
        /\ answer' = answer
    BY <1>2 DEF program
  <2>5. handle_to_fd' \in [Handle -> Object \cup {Null}]
    BY <1>1, <2>1, <2>2 DEF ServerTypes
  <2>6. /\ handle_to_fd'[h] = todo.f
        /\ \A v \in Handle : v # h => handle_to_fd'[v] = handle_to_fd[v]
    BY <1>1, <2>2 DEF ServerTypes
  <2>7. ServerTypes' /\ ProgramTypes'
    BY <1>1, <1>2, <2>2, <2>3, <2>4, <2>5 DEF ServerTypes, ProgramTypes
  <2>8. TableInv' /\ StartInv' /\ TodoInv'
    BY <1>1, <1>2, <2>3, <2>4, TableKept DEF StartInv, TodoInv
  <2>9. HandlesInv'
    <3>1. peer[h] # Null
      BY <1>1, <2>3 DEF RoundInv, HandlesInv
    <3> QED BY <1>1, <2>2, <2>4, <2>6, <3>1 DEF HandlesInv
  <2>10. BacklogInv' /\ AskedInv'
    BY <1>1, <2>2, <2>4 DEF BacklogInv, AskedInv
  <2>11. RoundInv'
    BY <1>1, <1>2, <2>2, <2>3, <2>4 DEF RoundInv
  <2>12. ASSUME NEW d \in Client PROVE Phase(d)' /\ Link(d)'
    <3>1. Phase(d) /\ Link(d)
      BY <1>1 DEF ClientInv
    <3>2. Untouched(d)
      BY <2>4 DEF Untouched
    <3>3. ASSUME Live(d)
          PROVE  /\ peer'[conn[d]] = peer[conn[d]] /\ hung'[conn[d]] = hung[conn[d]]
                 /\ FdOf(conn[d])' = FdOf(conn[d])
      <4>1. conn[d] \in Handle
        BY <1>1, <3>3 DEF Live, ProgramTypes
      <4> QED BY <1>2, <2>2, <2>4, <2>6, <4>1 DEF FdOf
    <3> QED BY <2>4, <3>1, <3>2, <3>3, KeptClient
  <2> QED BY <2>7, <2>8, <2>9, <2>10, <2>11, <2>12 DEF VfsInv, ClientInv
<1> QED BY <1>3, <1>4

(* The connections of others are not the one that is served. *)
LEMMA OthersElsewhere ==
  ASSUME AskedInv, ClientInv, NEW h \in Handle, inbox[h] # Null
  PROVE  /\ \A d \in Client : d # peer[h] /\ Live(d) => conn[d] # h
         /\ \A v \in Handle : inbox[v] # Null /\ v # h => peer[v] # peer[h]
<1>1. conn[peer[h]] = h
  BY AskerLives
<1>2. ASSUME NEW d \in Client, d # peer[h], Live(d) PROVE conn[d] # h
  BY <1>2 DEF ClientInv, Link
<1>3. ASSUME NEW v \in Handle, inbox[v] # Null, v # h PROVE peer[v] # peer[h]
  BY <1>1, <1>3, AskerLives
<1> QED BY <1>2, <1>3

(* An answer goes to the program that waits for it: what that leaves alone. *)
LEMMA RespondKeeps ==
  ASSUME VfsInv, NEW h \in Handle, inbox[h] # Null, NEW res \in Response, Respond(h, res)
  PROVE  /\ ProgramTypes' /\ inbox' \in [Handle -> Request \cup {Null}]
         /\ inbox'[h] = Null /\ (\A v \in Handle : v # h => inbox'[v] = inbox[v])
         /\ answer'[peer[h]] = res /\ BacklogInv' /\ AskedInv'
         /\ \A d \in Client : d # peer[h] => Untouched(d)
<1>1. ServerTypes /\ ProgramTypes /\ BacklogInv /\ AskedInv /\ ClientInv
  BY DEF VfsInv
<1>2. PICK c : c = peer[h]
  OBVIOUS
<1>3. /\ inbox' = [inbox EXCEPT ![h] = Null] /\ answer' = [answer EXCEPT ![c] = res]
      /\ backlog' = backlog /\ peer' = peer /\ at' = at /\ cwd' = cwd /\ conn' = conn
      /\ mine' = mine /\ call' = call
  BY <1>2 DEF Respond
<1>4. c \in Client
  BY <1>1, <1>2, AskerLives
<1>5. /\ inbox' \in [Handle -> Request \cup {Null}] /\ inbox'[h] = Null
      /\ \A v \in Handle : v # h => inbox'[v] = inbox[v]
  BY <1>1, <1>3 DEF ServerTypes
<1>6. /\ answer' \in [Client -> Response \cup {Null}] /\ answer'[c] = res
      /\ \A d \in Client : d # c => answer'[d] = answer[d]
  BY <1>1, <1>3, <1>4 DEF ProgramTypes
<1>7. ProgramTypes' /\ BacklogInv'
  BY <1>1, <1>3, <1>6 DEF ProgramTypes, BacklogInv
<1>8. AskedInv'
  <2> SUFFICES ASSUME NEW v \in Handle, inbox'[v] # Null
               PROVE  /\ peer[v] \in Client /\ at[peer[v]] = "wait" /\ answer'[peer[v]] = Null
                      /\ conn[peer[v]] = v /\ call[peer[v]] = inbox'[v]
    BY <1>3 DEF AskedInv
  <2>1. v # h /\ inbox[v] # Null /\ inbox'[v] = inbox[v]
    BY <1>5
  <2>2. peer[v] # c
    BY <1>1, <1>2, <2>1, OthersElsewhere
  <2> QED BY <1>1, <1>6, <2>1, <2>2 DEF AskedInv
<1>9. \A d \in Client : d # c => Untouched(d)
  BY <1>3, <1>6 DEF Untouched
<1> QED BY <1>2, <1>5, <1>6, <1>7, <1>8, <1>9

(* IO_READ and the others. *)
LEMMA IoKeeps ==
  ASSUME VfsInv, NEW h \in Handle, ServeIo(h)
  PROVE  VfsInv'
<1>1. /\ ServerTypes /\ ProgramTypes /\ TableInv /\ HandlesInv /\ BacklogInv /\ AskedInv
      /\ RoundInv /\ TodoInv /\ ClientInv
  BY DEF VfsInv
<1>2. /\ loop = "serve" /\ todo = Null /\ todo' = Null /\ h = Head(rest) /\ inbox[h] # Null
      /\ inbox[h].type \notin {"file", "dir"} /\ Advance
  BY DEF ServeIo, Serves
<1>3. PICK c : c = peer[h]
  OBVIOUS
<1>4. /\ c \in Client /\ Live(c) /\ conn[c] = h /\ ~Waits(c) /\ at[c] = "wait"
      /\ answer[c] = Null /\ call[c] = inbox[h]
  BY <1>1, <1>2, <1>3, AskerLives
<1>5. mine[c] # Null /\ Fitting(mine[c], call[c])
  BY <1>1, <1>2, <1>4 DEF ClientInv, Phase
<1>6. ~hung[h] /\ Same(handle_to_fd[h], mine[c])
  <2>1. After(c) = mine[c]
    BY <1>4 DEF After
  <2>2. FdOf(conn[c]) = handle_to_fd[h]
    BY <1>2, <1>4 DEF FdOf
  <2>3. Link(c)
    BY <1>1, <1>4 DEF ClientInv
  <2> QED BY <1>4, <1>5, <2>1, <2>2, <2>3 DEF Link
<1>7. PICK s \in Served(handle_to_fd[h], inbox[h]) :
         Respond(h, s.res) /\ handle_to_fd' = [handle_to_fd EXCEPT ![h] = s.f]
  BY DEF ServeIo
<1>8. Agrees(s.f, s.res, mine[c], call[c])
  BY <1>1, <1>2, <1>4, <1>5, <1>6, <1>7, ServedAgrees
<1>9. PICK o : o = [mine[c] EXCEPT !.pos = PosAfter(mine[c], call[c], s.res)]
  OBVIOUS
<1>10. /\ s.res \in Response /\ Same(s.f, o) /\ s.f \in Object /\ o \in Opened
       /\ ~OnDisk(mine[c].path) => s.res = Expected(mine[c], call[c])
  BY <1>8, <1>9 DEF Agrees, Same
<1>11. /\ ProgramTypes' /\ inbox' \in [Handle -> Request \cup {Null}]
       /\ inbox'[h] = Null /\ (\A v \in Handle : v # h => inbox'[v] = inbox[v])
       /\ answer'[c] = s.res /\ BacklogInv' /\ AskedInv'
       /\ \A d \in Client : d # c => Untouched(d)
  BY <1>2, <1>3, <1>7, <1>10, RespondKeeps
<1>12. /\ archive' = archive /\ header' = header /\ entry' = entry /\ all_fds' = all_fds
       /\ backlog' = backlog /\ peer' = peer /\ hung' = hung /\ at' = at /\ cwd' = cwd
       /\ conn' = conn /\ mine' = mine /\ call' = call
  BY <1>7 DEF Respond
<1>13. /\ handle_to_fd' \in [Handle -> Object \cup {Null}] /\ handle_to_fd'[h] = s.f
       /\ \A v \in Handle : v # h => handle_to_fd'[v] = handle_to_fd[v]
  BY <1>1, <1>7, <1>10 DEF ServerTypes
<1>14. /\ rest' \in Seq(Handle) /\ IsInjective(rest') /\ Range(rest') = Range(rest) \ {h}
       /\ loop' \in {"wait", "serve"} /\ (loop' = "serve" => rest' # <<>>) /\ h \in Range(rest)
  BY <1>1, <1>2, AdvanceIs
<1>15. ServerTypes'
  BY <1>1, <1>2, <1>11, <1>12, <1>13, <1>14 DEF ServerTypes
<1>16. TableInv' /\ StartInv' /\ TodoInv'
  BY <1>1, <1>2, <1>12, <1>14, TableKept DEF StartInv, TodoInv
<1>17. HandlesInv'
  <2>1. peer[h] # Null
    BY <1>3, <1>4, NotNull
  <2> QED BY <1>1, <1>11, <1>12, <1>13, <2>1 DEF HandlesInv
<1>18. RoundInv'
  <2>1. ASSUME NEW v \in Range(rest') PROVE inbox'[v] # Null
    <3>1. v \in Range(rest) /\ v # h
      BY <1>14
    <3>2. v \in Handle
      BY <1>1, <3>1 DEF RoundInv, HandlesInv
    <3> QED BY <1>1, <1>2, <1>11, <1>12, <3>1, <3>2 DEF RoundInv
  <2> QED BY <1>1, <1>2, <1>12, <1>14, <2>1 DEF RoundInv
<1>19. ASSUME NEW d \in Client PROVE Phase(d)' /\ Link(d)'
  <2>1. Phase(d) /\ Link(d)
    BY <1>1 DEF ClientInv
  <2>2. CASE d # c
    <3>1. Untouched(d)
      BY <1>11, <2>2
    <3>2. ASSUME Live(d)
          PROVE  /\ peer'[conn[d]] = peer[conn[d]] /\ hung'[conn[d]] = hung[conn[d]]
                 /\ FdOf(conn[d])' = FdOf(conn[d])
      <4>1. conn[d] \in Handle
        BY <1>1, <3>2 DEF Live, ProgramTypes
      <4>2. conn[d] # h
        BY <1>1, <1>2, <1>3, <2>2, <3>2, OthersElsewhere
      <4> QED BY <1>2, <1>12, <1>13, <4>1, <4>2 DEF FdOf
    <3> QED BY <1>12, <2>1, <3>1, <3>2, KeptClient
  <2>3. CASE d = c
    <3>1. Waits(c)' /\ ~Doomed(c)'
      <4>1. s.res # Null
        BY <1>10, NotNull
      <4> QED BY <1>2, <1>4, <1>11, <1>12, <4>1 DEF Waits, Doomed
    <3>2. After(c)' = o
      <4>1. PosAfter(mine[c], call[c], answer[c])' = PosAfter(mine[c], call[c], s.res)
        BY <1>11, <1>12, KeptAnswers
      <4> QED BY <1>2, <1>4, <1>9, <1>12, <3>1, <4>1 DEF After
    <3>3. Fitting(mine[c], call[c])'
      BY <1>5, <1>12, KeptAnswers
    <3>4. Told(c)'
      <4>1. Expected(mine[c], call[c])' = Expected(mine[c], call[c])
        BY <1>12, KeptAnswers
      <4> QED BY <1>2, <1>4, <1>10, <1>11, <1>12, <3>2, <4>1 DEF Told
    <3>5. Phase(c)'
      BY <1>4, <1>5, <1>12, <2>1, <2>3, <3>1, <3>3, <3>4 DEF Phase
    <3>6. Same(s.f, o)'
      BY <1>10, <1>12, KeptSame
    <3>7. FdOf(conn[c])' = s.f
      BY <1>2, <1>4, <1>12, <1>13 DEF FdOf
    <3>8. Same(FdOf(conn[c]), After(c))'
      BY <3>2, <3>6, <3>7
    <3>9. o # Null
      BY <1>10, NotNull
    <3> QED BY <1>3, <1>4, <1>6, <1>12, <2>3, <3>2, <3>5, <3>8, <3>9 DEF Link
  <2> QED BY <2>2, <2>3
<1> QED BY <1>11, <1>15, <1>16, <1>17, <1>18, <1>19 DEF VfsInv, ClientInv

(* The answer to an open, and what is to be done next, settle what the program  *)
(* has.                                                                         *)
Settles(c, f, res, next) ==
  \/ /\ res = Refused(EINVAL) /\ mine[c] # Null /\ next = [op |-> "close", f |-> Null]
  \/ /\ res = Refused(ENOENT) /\ mine[c] = Null /\ f = Null
     /\ next = [op |-> "close", f |-> Null]
     /\ ~OnDisk(call[c].path) => ~(\/ Named(call[c].path) # {}
                                   \/ call[c].type = "dir" /\ call[c].path = <<>>)
  \/ /\ res = Answer(0, 0, <<>>) /\ mine[c] = Null /\ next = [op |-> "set", f |-> f]
     /\ Same(f, [kind |-> call[c].type, path |-> call[c].path, pos |-> 0])
     /\ ~OnDisk(call[c].path) => \/ Named(call[c].path) # {}
                                 \/ call[c].type = "dir" /\ call[c].path = <<>>

LEMMA OpenSettles ==
  ASSUME VfsInv, NEW h \in Handle, ServeOpen(h)
  PROVE  \E f, res : /\ Respond(h, res) /\ Settles(peer[h], f, res, todo')
                     /\ todo'.op = "set" => handle_to_fd[h] = Null
<1>1. /\ loop = "serve" /\ todo = Null /\ h = Head(rest) /\ inbox[h] # Null
      /\ inbox[h].type \in {"file", "dir"}
  BY DEF ServeOpen, Serves
<1>2. TableInv /\ AskedInv /\ ClientInv /\ ServerTypes
  BY DEF VfsInv
<1>3. PICK c : c = peer[h]
  OBVIOUS
<1>4. c \in Client /\ Live(c) /\ conn[c] = h /\ ~Waits(c) /\ call[c] = inbox[h]
  BY <1>1, <1>2, <1>3, AskerLives
<1>5. IF mine[c] = Null THEN handle_to_fd[h] = Null ELSE Same(handle_to_fd[h], mine[c])
  <2>1. After(c) = mine[c]
    BY <1>4 DEF After
  <2>2. FdOf(conn[c]) = handle_to_fd[h]
    BY <1>1, <1>4 DEF FdOf
  <2>3. Link(c)
    BY <1>2, <1>4 DEF ClientInv
  <2> QED BY <1>4, <2>1, <2>2, <2>3 DEF Link
<1>6. mine[c] # Null => handle_to_fd[h] # Null
  <2>1. mine[c] # Null => handle_to_fd[h] \in Object
    BY <1>5 DEF Same
  <2> QED BY <2>1, NotNull
<1>7. CASE handle_to_fd[h] # Null
  <2>1. Respond(h, Refused(EINVAL)) /\ todo' = [op |-> "close", f |-> Null]
    BY <1>7 DEF ServeOpen
  <2>2. mine[c] # Null
    BY <1>5, <1>7
  <2>3. Settles(c, Null, Refused(EINVAL), todo')
    BY <2>1, <2>2 DEF Settles
  <2>4. todo'.op # "set"
    BY <2>1
  <2> QED BY <1>3, <2>1, <2>3, <2>4
<1>8. CASE handle_to_fd[h] = Null
  <2>1. PICK f \in MyOpen(inbox[h].type, inbox[h].path) :
           IF f = Null
           THEN Respond(h, Refused(ENOENT)) /\ todo' = [op |-> "close", f |-> Null]
           ELSE Respond(h, Answer(0, 0, <<>>)) /\ todo' = [op |-> "set", f |-> f]
    BY <1>8 DEF ServeOpen
  <2>2. inbox[h] \in Request
    BY <1>1, <1>2 DEF ServerTypes
  <2>3. inbox[h].path \in Seq(Name)
    BY <1>1, <2>2, RequestIs
  <2>4. /\ f # Null => Same(f, [kind |-> call[c].type, path |-> call[c].path, pos |-> 0])
        /\ ~OnDisk(call[c].path) =>
             (f # Null <=> \/ Named(call[c].path) # {}
                           \/ call[c].type = "dir" /\ call[c].path = <<>>)
    BY <1>1, <1>2, <1>4, <2>1, <2>3, OpenIs
  <2>5. mine[c] = Null
    BY <1>6, <1>8
  <2>6. CASE f = Null
    <3>1. Respond(h, Refused(ENOENT)) /\ todo' = [op |-> "close", f |-> Null]
      BY <2>1, <2>6
    <3>2. Settles(c, f, Refused(ENOENT), todo')
      BY <2>4, <2>5, <2>6, <3>1 DEF Settles
    <3> QED BY <1>3, <1>8, <3>1, <3>2
  <2>7. CASE f # Null
    <3>1. Respond(h, Answer(0, 0, <<>>)) /\ todo' = [op |-> "set", f |-> f]
      BY <2>1, <2>7
    <3>2. Settles(c, f, Answer(0, 0, <<>>), todo')
      BY <2>4, <2>5, <2>7, <3>1 DEF Settles
    <3> QED BY <1>3, <1>8, <3>1, <3>2
  <2> QED BY <2>6, <2>7
<1> QED BY <1>7, <1>8

(* IO_OPEN and IO_OPENDIR. *)
LEMMA OpenKeeps ==
  ASSUME VfsInv, NEW h \in Handle, ServeOpen(h)
  PROVE  VfsInv'
<1>1. /\ ServerTypes /\ ProgramTypes /\ TableInv /\ HandlesInv /\ BacklogInv /\ AskedInv
      /\ RoundInv /\ TodoInv /\ ClientInv
  BY DEF VfsInv
<1>2. /\ loop = "serve" /\ todo = Null /\ h = Head(rest) /\ inbox[h] # Null
      /\ inbox[h].type \in {"file", "dir"}
      /\ loop' = loop /\ rest' = rest /\ handle_to_fd' = handle_to_fd
  BY DEF ServeOpen, Serves
<1>3. PICK c : c = peer[h]
  OBVIOUS
<1>4. /\ c \in Client /\ Live(c) /\ conn[c] = h /\ ~Waits(c) /\ at[c] = "wait"
      /\ answer[c] = Null /\ call[c] = inbox[h]
  BY <1>1, <1>2, <1>3, AskerLives
<1>5. PICK f, res : /\ Respond(h, res) /\ Settles(c, f, res, todo')
                    /\ todo'.op = "set" => handle_to_fd[h] = Null
  BY <1>3, OpenSettles
<1>6. /\ res \in Response /\ res # Null
      /\ res = Refused(EINVAL) => res.err = EINVAL /\ res.err # 0
      /\ res = Refused(ENOENT) => res.err # 0
      /\ res = Answer(0, 0, <<>>) => res.err = 0
  <2>1. Refused(EINVAL) \in Response /\ Refused(EINVAL).err = EINVAL /\ EINVAL # 0
    BY RefusedIs DEF EINVAL
  <2>2. Refused(ENOENT) \in Response /\ Refused(ENOENT).err = ENOENT /\ ENOENT # 0
    BY RefusedIs DEF ENOENT
  <2>3. res \in Response
    BY <1>5, <2>1, <2>2, NothingIs DEF Settles
  <2> QED BY <2>1, <2>2, <2>3, NothingIs, NotNull
<1>7. /\ todo' \in Rest /\ todo' # Null
      /\ (res.err # 0 => todo'.op = "close") /\ (res.err = 0 => todo'.op = "set" /\ todo'.f = f)
  <2>1. [op |-> "close", f |-> Null] \in Rest
    BY DEF Rest
  <2>2. Same(f, [kind |-> call[c].type, path |-> call[c].path, pos |-> 0])
          => [op |-> "set", f |-> f] \in Rest
    BY DEF Rest, Same
  <2>3. todo' \in Rest
    BY <1>5, <2>1, <2>2 DEF Settles
  <2>4. (res.err # 0 => todo'.op = "close") /\ (res.err = 0 => todo'.op = "set" /\ todo'.f = f)
    BY <1>5, <1>6 DEF Settles
  <2> QED BY <2>3, <2>4, NotNull
<1>8. /\ ProgramTypes' /\ inbox' \in [Handle -> Request \cup {Null}]
      /\ inbox'[h] = Null /\ (\A v \in Handle : v # h => inbox'[v] = inbox[v])
      /\ answer'[c] = res /\ BacklogInv' /\ AskedInv'
      /\ \A d \in Client : d # c => Untouched(d)
  BY <1>2, <1>3, <1>5, <1>6, RespondKeeps
<1>9. /\ archive' = archive /\ header' = header /\ entry' = entry /\ all_fds' = all_fds
      /\ backlog' = backlog /\ peer' = peer /\ hung' = hung /\ at' = at /\ cwd' = cwd
      /\ conn' = conn /\ mine' = mine /\ call' = call
  BY <1>5 DEF Respond
<1>10. ServerTypes'
  BY <1>1, <1>2, <1>7, <1>8, <1>9 DEF ServerTypes
<1>11. TableInv' /\ StartInv'
  BY <1>1, <1>2, <1>9, TableKept DEF StartInv
<1>12. HandlesInv'
  BY <1>1, <1>2, <1>8, <1>9 DEF HandlesInv
<1>13. RoundInv'
  <2>1. ASSUME NEW v \in Range(rest'), v # h PROVE inbox'[v] # Null
    <3>1. v \in Handle /\ v \in Range(rest)
      BY <1>1, <1>2, <2>1 DEF RoundInv, HandlesInv
    <3> QED BY <1>1, <1>2, <1>8, <1>9, <2>1, <3>1 DEF RoundInv
  <2> QED BY <1>1, <1>2, <1>7, <1>9, <2>1 DEF RoundInv
<1>14. Waits(c)' /\ (Doomed(c)' <=> res.err # 0)
  BY <1>2, <1>4, <1>6, <1>8, <1>9 DEF Waits, Doomed
<1>15. \A d \in Client : d # c => (Live(d)' <=> Live(d))
  BY <1>8, <1>9, KeptPhase
<1>16. TodoInv'
  <2>1. ASSUME todo'.op = "close", NEW d \in Client, Live(d)' PROVE conn'[d] # h
    <3>1. d # c
      BY <1>7, <1>14, <2>1 DEF Live
    <3> QED BY <1>1, <1>2, <1>3, <1>9, <1>15, <2>1, <3>1, OthersElsewhere
  <2> QED BY <1>2, <1>5, <2>1 DEF TodoInv
<1>17. ASSUME NEW d \in Client PROVE Phase(d)' /\ Link(d)'
  <2>1. Phase(d) /\ Link(d)
    BY <1>1 DEF ClientInv
  <2>2. CASE d # c
    <3>1. Untouched(d)
      BY <1>8, <2>2
    <3>2. ASSUME Live(d)
          PROVE  /\ peer'[conn[d]] = peer[conn[d]] /\ hung'[conn[d]] = hung[conn[d]]
                 /\ FdOf(conn[d])' = FdOf(conn[d])
      <4>1. conn[d] # h
        BY <1>1, <1>2, <1>3, <2>2, <3>2, OthersElsewhere
      <4> QED BY <1>2, <1>9, <4>1 DEF FdOf
    <3> QED BY <1>9, <2>1, <3>1, <3>2, KeptClient
  <2>3. CASE d = c
    <3>1. call'[c].type \in {"file", "dir"} /\ call'[c] = call[c] /\ mine'[c] = mine[c]
      BY <1>2, <1>4, <1>9
    <3>2. Named(call[c].path)' = Named(call[c].path)
      BY <1>9, KeptNames
    <3>3. Told(c)'
      BY <1>5, <1>6, <1>8, <3>1, <3>2 DEF Told, Settles, OnDisk
    <3>4. Phase(c)'
      BY <1>4, <1>9, <2>1, <2>3, <3>1, <3>3 DEF Phase
    <3>5. ASSUME Live(c)' PROVE Same(FdOf(conn[c]), After(c))' /\ After(c)' # Null
      <4>1. res.err = 0
        BY <1>14, <3>5 DEF Live
      <4>2. PICK o : o = [kind |-> call[c].type, path |-> call[c].path, pos |-> 0]
        OBVIOUS
      <4>3. Same(f, o)
        BY <1>5, <1>6, <4>1, <4>2 DEF Settles
      <4>4. Same(f, o)'
        BY <1>9, <4>3, KeptSame
      <4>5. After(c)' = o
        BY <1>8, <1>14, <3>1, <4>1, <4>2 DEF After
      <4>6. FdOf(conn[c])' = f
        BY <1>2, <1>4, <1>7, <1>9, <4>1 DEF FdOf
      <4>7. o # Null
        BY <4>3, NotNull DEF Same
      <4> QED BY <4>4, <4>5, <4>6, <4>7
    <3>6. peer'[conn'[c]] = c /\ ~hung'[conn'[c]]
      BY <1>4, <1>9, <2>1, <2>3 DEF Link
    <3> QED BY <2>3, <3>4, <3>5, <3>6 DEF Link
  <2> QED BY <2>2, <2>3
<1> QED BY <1>8, <1>10, <1>11, <1>12, <1>13, <1>16, <1>17 DEF VfsInv, ClientInv

-----------------------------------------------------------------------------
(* The steps of programs                                                   *)

(* chdir: a step leads to a directory, or nowhere. *)
LEMMA ChdirIs ==
  ASSUME NEW dir \in Seq(Name), NEW steps \in Seq(Name \cup {".."})
  PROVE  ChdirTo(dir, steps) \in Seq(Name) \cup {Null}
<1> DEFINE n == Len(steps)
           X == Seq(Name) \cup {Null}
           One(d, s) == IF d = Null \/ (s = ".." /\ d = <<>>) THEN Null
                        ELSE IF s = ".." THEN Front(d) ELSE Append(d, s)
           Body(g) == [v \in 0 .. n |-> IF v = 0 THEN dir
                         ELSE IF g[v - 1] = Null \/ (steps[v] = ".." /\ g[v - 1] = <<>>) THEN Null
                         ELSE IF steps[v] = ".." THEN Front(g[v - 1])
                         ELSE Append(g[v - 1], steps[v])]
           f == [z \in (1 .. n) \X X |-> One(z[2], steps[z[1]])]
           c == CHOOSE g : g = Body(g)
<1>1. ChdirTo(dir, steps) = c[n]
  BY DEF ChdirTo
<1>2. n \in Nat /\ \A v \in 1 .. n : steps[v] \in Name \cup {".."}
  OBVIOUS
<1>3. \A v \in 1 .. n, d \in X : One(d, steps[v]) \in X
  <2> SUFFICES ASSUME NEW v \in 1 .. n, NEW d \in X, d # Null PROVE One(d, steps[v]) \in X
    OBVIOUS
  <2>1. d # <<>> => Front(d) \in Seq(Name)
    BY DEF Front
  <2>2. steps[v] # ".." => Append(d, steps[v]) \in Seq(Name)
    BY <1>2
  <2> QED BY <2>1, <2>2
<1>4. f \in [(1 .. n) \X X -> X] /\ \A v \in 1 .. n, d \in X : f[<<v, d>>] = One(d, steps[v])
  <2> HIDE DEF One, X
  <2> QED BY <1>3
<1>5. dir \in X
  OBVIOUS
<1> HIDE DEF f, X
<1>6. PICK g : Iterates(g, f, dir, n, X)
  <2> HIDE DEF n
  <2> QED BY <1>2, <1>4, <1>5, Iterate
<1>7. g \in [0 .. n -> X] /\ g[0] = dir /\ \A v \in 1 .. n : g[v] = f[<<v, g[v - 1]>>]
  BY <1>6 DEF Iterates
<1>8. ASSUME NEW v \in 1 .. n
      PROVE  v - 1 \in 0 .. n /\ v \in 0 .. n /\ v # 0 /\ g[v] = One(g[v - 1], steps[v])
  <2>1. v - 1 \in 0 .. n /\ v \in 0 .. n /\ v # 0
    BY <1>2
  <2>2. g[v - 1] \in X
    BY <1>7, <2>1
  <2> HIDE DEF One
  <2> QED BY <1>4, <1>7, <2>1, <2>2
<1> DEFINE r(h, v) == IF v = 0 THEN dir ELSE One(h[v - 1], steps[v])
<1>9. \A v \in 0 .. n : g[v] = r(g, v)
  <2> SUFFICES ASSUME NEW v \in 0 .. n, v # 0 PROVE g[v] = One(g[v - 1], steps[v])
    BY <1>7
  <2>1. v \in 1 .. n
    BY <1>2
  <2> HIDE DEF One
  <2> QED BY <1>8, <2>1
<1>10. g = Body(g)
  <2>1. g = [v \in 0 .. n |-> g[v]]
    BY <1>7
  <2>2. Body(g) = [v \in 0 .. n |-> r(g, v)]
    OBVIOUS
  <2> HIDE DEF n, r, Body
  <2> QED BY <1>9, <2>1, <2>2
<1>11. c = Body(c)
  <2> HIDE DEF Body
  <2> QED BY <1>10
<1> HIDE DEF c
<1>12. \A v \in 0 .. n : c[v] = r(c, v)
  <2>1. c = [v \in 0 .. n |-> r(c, v)]
    BY <1>11
  <2> HIDE DEF r
  <2> QED BY <2>1
<1> DEFINE T == {v \in 0 .. n : c[v] \in X}
<1>13. 0 .. n \subseteq T
  <2>1. 0 \in T
    BY <1>2, <1>5, <1>12
  <2>2. ASSUME NEW v \in 1 .. n, v - 1 \in T PROVE v \in T
    <3>1. v \in 0 .. n /\ c[v] = One(c[v - 1], steps[v]) /\ c[v - 1] \in X
      BY <1>8, <1>12, <2>2
    <3> HIDE DEF One
    <3> QED BY <1>3, <3>1
  <2> HIDE DEF T, n
  <2> QED BY <1>2, <2>1, <2>2, UpTo
<1> QED BY <1>1, <1>2, <1>13 DEF X

(* The path of an open. *)
LEMMA AbsoluteIs ==
  ASSUME NEW c \in Client, NEW dir \in Seq(Name), NEW o \in Opens[c]
  PROVE  /\ Absolute(dir, o) \in Seq(Name) /\ o.kind \in {"file", "dir"}
         /\ [type |-> o.kind, path |-> Absolute(dir, o)] \in Request
<1>1. /\ o.kind \in {"file", "dir"} /\ o.abs \in BOOLEAN /\ o.path \in Seq(Name)
      /\ o.abs \/ o.path # <<>>
  <2>1. Opens[c] \subseteq [kind : {"file", "dir"}, abs : BOOLEAN, path : Seq(Name)]
    BY VfsAssumption
  <2>2. o.abs \/ o.path # <<>>
    BY VfsAssumption
  <2> QED BY <2>1, <2>2
<1>2. Absolute(dir, o) \in Seq(Name)
  <2>1. CASE o.abs \/ dir = <<>>
    BY <1>1, <2>1 DEF Absolute
  <2>2. CASE ~(o.abs \/ dir = <<>>)
    <3>1. dir \o o.path \in Seq(Name)
      BY <1>1
    <3>2. Front(dir) \in Seq(Name)
      BY <2>2 DEF Front
    <3>3. <<"no_such_name">> \in Seq(Name)
      BY Sizes
    <3>4. Tail(o.path) \in Seq(Name)
      BY <1>1, <2>2
    <3>5. (Front(dir) \o <<"no_such_name">>) \o Tail(o.path) \in Seq(Name)
      BY <3>2, <3>3, <3>4
    <3> QED BY <2>2, <3>1, <3>5 DEF Absolute
  <2> QED BY <2>1, <2>2
<1> QED BY <1>1, <1>2 DEF Request

(* A step of a program leaves the server and the other programs alone. *)
LEMMA ProgramKeeps ==
  ASSUME VfsInv, NEW c \in Client, UNCHANGED server, peer' = peer, ServerTypes', ProgramTypes',
         \A d \in Client : d # c => Untouched(d), Phase(c)', Link(c)',
         Live(c)' => Live(c) /\ conn'[c] = conn[c],
         \A d \in Client : d # c /\ Live(d) => hung'[conn[d]] = hung[conn[d]],
         \A h \in Handle : inbox[h] # Null => inbox'[h] # Null,
         \A h \in Handle : peer[h] = Null => inbox'[h] = inbox[h] /\ hung'[h] = hung[h],
         loop # "tar" \/ (at'[c] \in {"absent", "idle"} /\ conn'[c] = Null),
         BacklogInv', AskedInv'
  PROVE  VfsInv'
<1>1. /\ ServerTypes /\ TableInv /\ StartInv /\ HandlesInv /\ RoundInv /\ TodoInv /\ ClientInv
  BY DEF VfsInv
<1>2. /\ archive' = archive /\ header' = header /\ entry' = entry /\ loop' = loop
      /\ all_fds' = all_fds /\ rest' = rest /\ todo' = todo /\ handle_to_fd' = handle_to_fd
  BY DEF server
<1>3. TableInv'
  BY <1>1, <1>2, TableKept
<1>4. StartInv'
  BY <1>1, <1>2 DEF StartInv, Untouched
<1>5. HandlesInv'
  BY <1>1, <1>2 DEF HandlesInv
<1>6. RoundInv'
  <2>1. Range(rest) \subseteq Handle
    BY <1>1 DEF RoundInv, HandlesInv
  <2> QED BY <1>1, <1>2, <2>1 DEF RoundInv
<1>7. \A d \in Client : Live(d)' => Live(d) /\ conn'[d] = conn[d]
  <2> SUFFICES ASSUME NEW d \in Client, d # c PROVE Live(d)' => Live(d) /\ conn'[d] = conn[d]
    OBVIOUS
  <2> QED BY <1>2, KeptPhase DEF Untouched
<1>8. TodoInv'
  BY <1>1, <1>2, <1>7 DEF TodoInv
<1>9. ASSUME NEW d \in Client PROVE Phase(d)' /\ Link(d)'
  <2> SUFFICES ASSUME d # c PROVE Phase(d)' /\ Link(d)'
    OBVIOUS
  <2>1. Untouched(d) /\ Phase(d) /\ Link(d)
    BY <1>1 DEF ClientInv
  <2>2. FdOf(conn[d])' = FdOf(conn[d])
    BY <1>2, <2>1 DEF FdOf, Untouched
  <2> QED BY <1>2, <2>1, <2>2, KeptClient
<1> QED BY <1>3, <1>4, <1>5, <1>6, <1>8, <1>9 DEF VfsInv, ClientInv

(* chdir. *)
LEMMA ChdirKeeps ==
  ASSUME VfsInv, NEW c \in Client, Chdir(c)
  PROVE  VfsInv'
<1>1. UNCHANGED server /\ UNCHANGED kernel /\ at' = at /\ conn' = conn /\ mine' = mine /\ call' = call
      /\ answer' = answer
  BY DEF Chdir
<1>2. /\ archive' = archive /\ header' = header /\ entry' = entry /\ loop' = loop
      /\ all_fds' = all_fds /\ rest' = rest /\ todo' = todo /\ handle_to_fd' = handle_to_fd
      /\ backlog' = backlog /\ peer' = peer /\ inbox' = inbox /\ hung' = hung
  BY <1>1 DEF server, kernel
<1>3. cwd' \in [Client -> Seq(Name)]
  <2>1. cwd \in [Client -> Seq(Name)]
    BY DEF VfsInv, ProgramTypes
  <2>2. Dirs[c] \subseteq Seq(Name) /\ Steps[c] \subseteq Seq(Name \cup {".."})
    BY VfsAssumption
  <2>3. PICK d \in Dirs[c] \cup {ChdirTo(cwd[c], s) : s \in Steps[c]} :
           d # Null /\ cwd' = [cwd EXCEPT ![c] = d]
    BY DEF Chdir
  <2>4. cwd[c] \in Seq(Name)
    BY <2>1
  <2>5. \A s \in Steps[c] : ChdirTo(cwd[c], s) \in Seq(Name) \cup {Null}
    BY <2>2, <2>4, ChdirIs
  <2>6. d \in Seq(Name)
    BY <2>2, <2>3, <2>5
  <2> QED BY <2>1, <2>3, <2>6
<1>4. ServerTypes' /\ ProgramTypes'
  BY <1>1, <1>2, <1>3 DEF VfsInv, ServerTypes, ProgramTypes
<1>5. BacklogInv' /\ AskedInv'
  BY <1>1, <1>2 DEF VfsInv, BacklogInv, AskedInv
<1>6. \A d \in Client : Untouched(d)
  BY <1>1 DEF Untouched
<1>7. Phase(c) /\ Link(c)
  BY DEF VfsInv, ClientInv
<1>8. Phase(c)' /\ Link(c)' /\ (Live(c)' => Live(c) /\ conn'[c] = conn[c])
  <2>1. FdOf(conn[c])' = FdOf(conn[c])
    BY <1>1, <1>2 DEF FdOf
  <2>2. Phase(c)' /\ Link(c)'
    BY <1>2, <1>6, <1>7, <2>1, KeptClient
  <2> QED BY <1>1, <1>2, <1>6, <2>2, KeptPhase
<1>9. loop # "tar" \/ (at'[c] \in {"absent", "idle"} /\ conn'[c] = Null)
  BY <1>1 DEF VfsInv, StartInv
<1> QED BY <1>1, <1>2, <1>4, <1>5, <1>6, <1>8, <1>9, ProgramKeeps

(* open and opendir connect. *)
LEMMA ConnectKeeps ==
  ASSUME VfsInv, NEW c \in Client, Open(c)
  PROVE  VfsInv'
<1>1. /\ ServerTypes /\ ProgramTypes /\ BacklogInv /\ AskedInv /\ Phase(c) /\ Link(c)
  BY DEF VfsInv, ClientInv
<1>2. /\ at[c] = "idle" /\ mine[c] = Null /\ loop # "tar" /\ backlog' = Append(backlog, c)
      /\ at' = [at EXCEPT ![c] = "connect"] /\ UNCHANGED server /\ peer' = peer /\ inbox' = inbox
      /\ hung' = hung /\ cwd' = cwd /\ conn' = conn /\ mine' = mine /\ call' = call
      /\ answer' = answer
  BY DEF Open, Idle
<1>3. conn[c] = Null /\ call[c] = Null /\ answer[c] = Null
  BY <1>1, <1>2 DEF Phase
<1>4. /\ at' \in [Client -> States] /\ at'[c] = "connect"
      /\ \A d \in Client : d # c => at'[d] = at[d]
  BY <1>1, <1>2 DEF ProgramTypes, States
<1>5. c \notin Range(backlog)
  BY <1>1, <1>2 DEF BacklogInv
<1>6. /\ backlog' \in Seq(Client) /\ IsInjective(backlog')
      /\ Range(backlog') = Range(backlog) \cup {c}
  BY <1>1, <1>2, <1>5, AppendDistinct DEF ServerTypes, BacklogInv
<1>7. ServerTypes' /\ ProgramTypes'
  BY <1>1, <1>2, <1>4, <1>6 DEF ServerTypes, ProgramTypes, server
<1>8. BacklogInv'
  BY <1>1, <1>2, <1>3, <1>4, <1>6 DEF BacklogInv
<1>9. AskedInv'
  BY <1>1, <1>2, <1>4 DEF AskedInv
<1>10. \A d \in Client : d # c => Untouched(d)
  BY <1>2, <1>4 DEF Untouched
<1>11. Phase(c)'
  BY <1>2, <1>3, <1>4 DEF Phase, Waits
<1>12. ~Live(c)' /\ Link(c)'
  BY <1>2, <1>3 DEF Live, Link
<1> QED BY <1>1, <1>2, <1>7, <1>8, <1>9, <1>10, <1>11, <1>12, ProgramKeeps

(* A program asks for something that fits what it has. *)
LEMMA AskKeeps ==
  ASSUME VfsInv, NEW c \in Client, NEW r \in Request, Ask(c, r), at[c] \in {"idle", "connect"},
         conn[c] # Null,
         r.type \notin {"file", "dir"} => mine[c] # Null /\ Fitting(mine[c], r)
  PROVE  VfsInv'
<1>1. /\ ServerTypes /\ ProgramTypes /\ HandlesInv /\ BacklogInv /\ AskedInv /\ StartInv
      /\ Phase(c) /\ Link(c)
  BY DEF VfsInv, ClientInv
<1>2. PICK h : h = conn[c]
  OBVIOUS
<1>3. /\ inbox' = [inbox EXCEPT ![h] = r] /\ call' = [call EXCEPT ![c] = r]
      /\ at' = [at EXCEPT ![c] = "wait"] /\ UNCHANGED server /\ backlog' = backlog /\ peer' = peer
      /\ hung' = hung /\ cwd' = cwd /\ conn' = conn /\ mine' = mine /\ answer' = answer
  BY <1>2 DEF Ask
<1>4. h \in Handle /\ h # Null /\ r # Null
  BY <1>1, <1>2, NotNull DEF ProgramTypes
<1>5. answer[c] = Null /\ ~Waits(c) /\ Live(c)
  BY <1>1 DEF Phase, Waits, Live, Doomed
<1>6. peer[h] = c /\ ~hung[h]
  BY <1>1, <1>2, <1>5 DEF Link
<1>7. /\ inbox' \in [Handle -> Request \cup {Null}] /\ inbox'[h] = r
      /\ \A v \in Handle : v # h => inbox'[v] = inbox[v]
  BY <1>1, <1>3, <1>4 DEF ServerTypes
<1>8. /\ at' \in [Client -> States] /\ call' \in [Client -> Request \cup {Null}]
      /\ at'[c] = "wait" /\ call'[c] = r
      /\ \A d \in Client : d # c => at'[d] = at[d] /\ call'[d] = call[d]
  BY <1>1, <1>3 DEF ProgramTypes, States
<1>9. ServerTypes' /\ ProgramTypes'
  BY <1>1, <1>3, <1>7, <1>8 DEF ServerTypes, ProgramTypes, server
<1>10. BacklogInv'
  BY <1>1, <1>3, <1>8 DEF BacklogInv
<1>11. AskedInv'
  <2> SUFFICES ASSUME NEW v \in Handle, inbox'[v] # Null
               PROVE  /\ peer[v] \in Client /\ at'[peer[v]] = "wait" /\ answer[peer[v]] = Null
                      /\ conn[peer[v]] = v /\ call'[peer[v]] = inbox'[v]
    BY <1>3 DEF AskedInv
  <2>1. CASE v = h
    BY <1>2, <1>5, <1>6, <1>7, <1>8, <2>1
  <2>2. CASE v # h
    <3>1. /\ peer[v] \in Client /\ at[peer[v]] = "wait" /\ answer[peer[v]] = Null
          /\ conn[peer[v]] = v /\ call[peer[v]] = inbox[v]
      BY <1>1, <1>7, <2>2 DEF AskedInv
    <3>2. peer[v] # c
      BY <3>1
    <3> QED BY <1>7, <1>8, <2>2, <3>1, <3>2
  <2> QED BY <2>1, <2>2
<1>12. \A d \in Client : d # c => Untouched(d)
  BY <1>3, <1>8 DEF Untouched
<1>13. archive' = archive /\ entry' = entry /\ rest' = rest /\ todo' = todo
       /\ handle_to_fd' = handle_to_fd
  BY <1>3 DEF server
<1>14. ~Waits(c)' /\ Live(c)'
  BY <1>3, <1>5 DEF Waits, Live, Doomed
<1>15. Phase(c)'
  <2>1. Fitting(mine[c], call[c])' <=> Fitting(mine[c], r)
    BY <1>3, <1>8, <1>13, KeptAnswers
  <2> QED BY <1>3, <1>4, <1>8, <1>14, <2>1 DEF Phase
<1>16. Link(c)'
  <2>1. After(c)' = mine[c] /\ After(c) = mine[c]
    BY <1>3, <1>5, <1>14 DEF After
  <2>2. FdOf(conn[c])' = FdOf(conn[c])
    BY <1>3, <1>13 DEF FdOf
  <2>3. Same(FdOf(conn[c]), After(c))' <=> Same(FdOf(conn[c]), After(c))
    BY <1>13, <2>1, <2>2, KeptSame
  <2>4. peer'[conn'[c]] = c /\ ~hung'[conn'[c]]
    BY <1>2, <1>3, <1>6
  <2> QED BY <1>1, <1>5, <2>1, <2>2, <2>3, <2>4 DEF Link
<1>17. loop # "tar"
  BY <1>1 DEF StartInv
<1>18. \A v \in Handle : peer[v] = Null => inbox'[v] = inbox[v]
  BY <1>4, <1>6, <1>7, NotNull
<1>19. \A v \in Handle : inbox[v] # Null => inbox'[v] # Null
  BY <1>4, <1>7
<1> QED BY <1>3, <1>5, <1>9, <1>10, <1>11, <1>12, <1>15, <1>16, <1>17, <1>18, <1>19, ProgramKeeps

(* close. *)
LEMMA CloseFileKeeps ==
  ASSUME VfsInv, NEW c \in Client, Close(c)
  PROVE  VfsInv'
<1>1. /\ ServerTypes /\ ProgramTypes /\ HandlesInv /\ BacklogInv /\ AskedInv /\ ClientInv
      /\ Phase(c) /\ Link(c)
  BY DEF VfsInv, ClientInv
<1>2. PICK h : h = conn[c]
  OBVIOUS
<1>3. /\ at[c] = "idle" /\ mine[c] # Null /\ hung' = [hung EXCEPT ![h] = TRUE]
      /\ mine' = [mine EXCEPT ![c] = Null] /\ conn' = [conn EXCEPT ![c] = Null]
      /\ UNCHANGED server /\ backlog' = backlog /\ peer' = peer /\ inbox' = inbox
      /\ at' = at /\ cwd' = cwd /\ call' = call /\ answer' = answer
  BY <1>2 DEF Close, Idle
<1>4. h # Null /\ h \in Handle
  BY <1>1, <1>2, <1>3 DEF Phase, ProgramTypes
<1>5. Live(c) /\ call[c] = Null /\ answer[c] = Null
  BY <1>1, <1>2, <1>3, <1>4 DEF Phase, Live, Doomed, Waits
<1>6. peer[h] = c
  BY <1>1, <1>2, <1>5 DEF Link
<1>7. /\ hung' \in [Handle -> BOOLEAN] /\ hung'[h] = TRUE
      /\ \A v \in Handle : v # h => hung'[v] = hung[v]
  BY <1>1, <1>3, <1>4 DEF ServerTypes
<1>8. /\ mine' \in [Client -> Opened \cup {Null}] /\ conn' \in [Client -> Handle \cup {Null}]
      /\ mine'[c] = Null /\ conn'[c] = Null
      /\ \A d \in Client : d # c => mine'[d] = mine[d] /\ conn'[d] = conn[d]
  BY <1>1, <1>3 DEF ProgramTypes
<1>9. ServerTypes' /\ ProgramTypes'
  BY <1>1, <1>3, <1>7, <1>8 DEF ServerTypes, ProgramTypes, server
<1>10. BacklogInv'
  BY <1>1, <1>3, <1>8 DEF BacklogInv
<1>11. AskedInv'
  BY <1>1, <1>3, <1>8 DEF AskedInv
<1>12. \A d \in Client : d # c => Untouched(d)
  BY <1>3, <1>8 DEF Untouched
<1>13. Phase(c)' /\ ~Live(c)' /\ Link(c)'
  BY <1>3, <1>5, <1>8 DEF Phase, Waits, Live, Link
<1>14. ASSUME NEW d \in Client, d # c, Live(d) PROVE hung'[conn[d]] = hung[conn[d]]
  <2>1. peer[conn[d]] = d /\ conn[d] \in Handle
    BY <1>1, <1>14 DEF ClientInv, Link, Live, ProgramTypes
  <2> QED BY <1>6, <1>7, <1>14, <2>1
<1>15. \A v \in Handle : peer[v] = Null => hung'[v] = hung[v]
  BY <1>6, <1>7, NotNull
<1> QED BY <1>3, <1>8, <1>9, <1>10, <1>11, <1>12, <1>13, <1>14, <1>15, ProgramKeeps

(* The end of a call: the program has what it takes from the answer. *)
LEMMA ReceiveKeeps ==
  ASSUME VfsInv, NEW c \in Client, Receive(c)
  PROVE  VfsInv'
<1>1. /\ ServerTypes /\ ProgramTypes /\ HandlesInv /\ BacklogInv /\ AskedInv /\ StartInv
      /\ Phase(c) /\ Link(c)
  BY DEF VfsInv, ClientInv
<1>2. /\ Waits(c) /\ UNCHANGED server /\ UNCHANGED kernel /\ cwd' = cwd
      /\ answer' = [answer EXCEPT ![c] = Null] /\ call' = [call EXCEPT ![c] = Null]
      /\ at' = [at EXCEPT ![c] = "idle"]
      /\ conn' = [conn EXCEPT ![c] = IF mine'[c] = Null THEN Null ELSE @]
  BY DEF Receive, Waits
<1>3. mine' = [mine EXCEPT ![c] = After(c)]
  <2>1. CASE call[c].type \notin {"file", "dir"}
    BY <1>1, <1>2, <2>1 DEF Receive, After, ProgramTypes
  <2>2. CASE call[c].type \in {"file", "dir"} /\ answer[c].err = 0
    BY <1>2, <2>2 DEF Receive, After
  <2>3. CASE call[c].type \in {"file", "dir"} /\ answer[c].err # 0
    BY <1>2, <2>3 DEF Receive, After
  <2> QED BY <2>1, <2>2, <2>3
<1>4. conn[c] # Null /\ at[c] = "wait" /\ answer[c] # Null
  BY <1>1, <1>2 DEF Phase, Waits
<1>5. /\ After(c) # Null => Live(c)
      /\ After(c) \in Opened \cup {Null}
  <2>1. Doomed(c) => After(c) = Null
    BY <1>2 DEF Doomed, After
  <2>2. After(c) # Null => Live(c)
    BY <1>4, <2>1 DEF Live
  <2>3. After(c) # Null => Same(FdOf(conn[c]), After(c))
    BY <1>1, <2>2 DEF Link
  <2> QED BY <2>2, <2>3 DEF Same
<1>6. /\ mine' \in [Client -> Opened \cup {Null}] /\ mine'[c] = After(c)
      /\ \A d \in Client : d # c => mine'[d] = mine[d]
  BY <1>1, <1>3, <1>5 DEF ProgramTypes
<1>7. /\ conn' \in [Client -> Handle \cup {Null}]
      /\ conn'[c] = (IF After(c) = Null THEN Null ELSE conn[c])
      /\ \A d \in Client : d # c => conn'[d] = conn[d]
  BY <1>1, <1>2, <1>6 DEF ProgramTypes
<1>8. /\ at' \in [Client -> States] /\ call' \in [Client -> Request \cup {Null}]
      /\ answer' \in [Client -> Response \cup {Null}]
      /\ at'[c] = "idle" /\ call'[c] = Null /\ answer'[c] = Null
      /\ \A d \in Client : d # c => at'[d] = at[d] /\ call'[d] = call[d] /\ answer'[d] = answer[d]
  BY <1>1, <1>2 DEF ProgramTypes, States
<1>9. backlog' = backlog /\ peer' = peer /\ inbox' = inbox /\ hung' = hung
      /\ archive' = archive /\ entry' = entry /\ rest' = rest /\ todo' = todo
      /\ handle_to_fd' = handle_to_fd
  BY <1>2 DEF server, kernel
<1>10. ServerTypes' /\ ProgramTypes'
  BY <1>1, <1>2, <1>6, <1>7, <1>8, <1>9 DEF ServerTypes, ProgramTypes, server
<1>11. BacklogInv'
  BY <1>1, <1>4, <1>7, <1>8, <1>9 DEF BacklogInv
<1>12. AskedInv'
  BY <1>1, <1>4, <1>7, <1>8, <1>9 DEF AskedInv
<1>13. \A d \in Client : d # c => Untouched(d)
  BY <1>6, <1>7, <1>8 DEF Untouched
<1>14. Phase(c)'
  BY <1>4, <1>6, <1>7, <1>8 DEF Phase, Waits
<1>15. Live(c)' => After(c) # Null /\ Live(c) /\ conn'[c] = conn[c]
  BY <1>5, <1>7 DEF Live
<1>16. Link(c)'
  <2> SUFFICES ASSUME Live(c)'
               PROVE  /\ peer'[conn'[c]] = c /\ ~hung'[conn'[c]]
                      /\ After(c)' # Null /\ Same(FdOf(conn[c]), After(c))'
    BY DEF Link
  <2>1. After(c) # Null /\ Live(c) /\ conn'[c] = conn[c]
    BY <1>15
  <2>2. After(c)' = After(c)
    BY <1>6, <1>8 DEF After, Waits
  <2>3. FdOf(conn[c])' = FdOf(conn[c])
    BY <1>9, <2>1 DEF FdOf
  <2>4. Same(FdOf(conn[c]), After(c))
    BY <1>1, <2>1 DEF Link
  <2>5. Same(FdOf(conn[c]), After(c))'
    BY <1>9, <2>2, <2>3, <2>4, KeptSame
  <2> QED BY <1>1, <1>9, <2>1, <2>2, <2>5 DEF Link
<1>17. loop # "tar"
  BY <1>1, <1>4 DEF StartInv
<1> QED BY <1>2, <1>9, <1>10, <1>11, <1>12, <1>13, <1>14, <1>15, <1>16, <1>17, ProgramKeeps

(* The requests that the code can make fit. *)
LEMMA RequestKeeps ==
  ASSUME VfsInv, NEW c \in Client,
         SendOpen(c) \/ Read(c) \/ Write(c) \/ Execve(c) \/ Readdir(c) \/ Lseek(c) \/ Reopen(c)
  PROVE  VfsInv'
<1>1. ProgramTypes /\ Phase(c)
  BY DEF VfsInv, ClientInv
<1>2. CASE SendOpen(c)
  <2>1. PICK o \in Opens[c] : Ask(c, [type |-> o.kind, path |-> Absolute(cwd[c], o)])
    BY <1>2 DEF SendOpen
  <2>2. PICK r : r = [type |-> o.kind, path |-> Absolute(cwd[c], o)]
    OBVIOUS
  <2>3. cwd[c] \in Seq(Name)
    BY <1>1 DEF ProgramTypes
  <2>4. r \in Request /\ r.type \in {"file", "dir"}
    BY <2>2, <2>3, AbsoluteIs
  <2> QED BY <1>2, <2>1, <2>2, <2>4, AskKeeps DEF SendOpen
<1>3. ASSUME NEW what, NEW kind, Uses(c, what, kind)
      PROVE  /\ at[c] = "idle" /\ conn[c] # Null /\ mine[c] # Null /\ mine[c] \in Opened
             /\ mine[c].kind \in kind
  BY <1>1, <1>3 DEF Uses, Idle, Phase, ProgramTypes
<1>4. ASSUME NEW n \in Nat, NEW type \in {"read", "write"}, mine[c].kind = "file",
             NEW r, r = [type |-> type, len |-> n]
      PROVE  r \in Request /\ Fitting(mine[c], r)
  BY <1>4 DEF Request, Fitting
<1>5. CASE Read(c)
  <2>1. PICK n \in Counts : Ask(c, [type |-> "read", len |-> n])
    BY <1>5 DEF Read
  <2>2. /\ at[c] = "idle" /\ conn[c] # Null /\ mine[c] # Null /\ mine[c].kind = "file"
    BY <1>3, <1>5 DEF Read
  <2>3. PICK r : r = [type |-> "read", len |-> n]
    OBVIOUS
  <2>4. n \in Nat
    BY Sizes
  <2>5. r \in Request /\ Fitting(mine[c], r)
    BY <1>4, <2>2, <2>3, <2>4
  <2> QED BY <2>1, <2>2, <2>3, <2>5, AskKeeps
<1>6. CASE Write(c)
  <2>1. PICK n \in Counts : Ask(c, [type |-> "write", len |-> n])
    BY <1>6 DEF Write
  <2>2. /\ at[c] = "idle" /\ conn[c] # Null /\ mine[c] # Null /\ mine[c].kind = "file"
    BY <1>3, <1>6 DEF Write
  <2>3. PICK r : r = [type |-> "write", len |-> n]
    OBVIOUS
  <2>4. n \in Nat
    BY Sizes
  <2>5. r \in Request /\ Fitting(mine[c], r)
    BY <1>4, <2>2, <2>3, <2>4
  <2> QED BY <2>1, <2>2, <2>3, <2>5, AskKeeps
<1>7. CASE Execve(c)
  <2>1. Ask(c, [type |-> "read", len |-> Big])
    BY <1>7 DEF Execve
  <2>2. /\ at[c] = "idle" /\ conn[c] # Null /\ mine[c] # Null /\ mine[c].kind = "file"
    BY <1>3, <1>7 DEF Execve
  <2>3. PICK r : r = [type |-> "read", len |-> Big]
    OBVIOUS
  <2>4. r \in Request /\ Fitting(mine[c], r)
    BY <1>4, <2>2, <2>3, Sizes
  <2> QED BY <2>1, <2>2, <2>3, <2>4, AskKeeps
<1>8. CASE Readdir(c)
  <2>1. Ask(c, [type |-> "readdir"])
    BY <1>8 DEF Readdir
  <2>2. /\ at[c] = "idle" /\ conn[c] # Null /\ mine[c] # Null /\ mine[c].kind = "dir"
    BY <1>3, <1>8 DEF Readdir
  <2>3. PICK r : r = [type |-> "readdir"]
    OBVIOUS
  <2>4. r \in Request /\ Fitting(mine[c], r)
    BY <2>2, <2>3 DEF Request, Fitting
  <2> QED BY <2>1, <2>2, <2>3, <2>4, AskKeeps
<1>9. CASE Lseek(c)
  <2>1. PICK r \in [type : {"lseek"}, len : Offsets, whence : {"SET", "CUR", "END"}] :
           Seeked(mine[c], r) \in 0 .. MaxPos /\ Ask(c, r)
    BY <1>9 DEF Lseek
  <2>2. /\ at[c] = "idle" /\ conn[c] # Null /\ mine[c] # Null /\ mine[c].kind = "file"
        /\ ~OnDisk(mine[c].path)
    BY <1>3, <1>9 DEF Lseek
  <2>3. r \in [type : {"lseek"}, len : Int, whence : {"SET", "CUR", "END"}] /\ r.type = "lseek"
    BY Sizes
  <2>4. r \in Request /\ Seeked(mine[c], r) \in Nat
    BY <2>1, <2>3, Sizes DEF Request
  <2>5. Fitting(mine[c], r)
    BY <2>2, <2>3, <2>4 DEF Fitting
  <2> QED BY <2>1, <2>2, <2>4, <2>5, AskKeeps
<1>10. CASE Reopen(c)
  <2>1. Ask(c, [type |-> mine[c].kind, path |-> mine[c].path])
    BY <1>10 DEF Reopen
  <2>2. at[c] = "idle" /\ conn[c] # Null /\ mine[c] \in Opened
    BY <1>3, <1>10 DEF Reopen
  <2>3. PICK r : r = [type |-> mine[c].kind, path |-> mine[c].path]
    OBVIOUS
  <2>4. mine[c].kind \in {"file", "dir"} /\ mine[c].path \in Seq(Name)
    BY <2>2, OpenedIs
  <2>5. r \in Request /\ r.type \in {"file", "dir"}
    BY <2>3, <2>4 DEF Request
  <2> QED BY <2>1, <2>2, <2>3, <2>5, AskKeeps
<1> QED BY <1>2, <1>5, <1>6, <1>7, <1>8, <1>9, <1>10

(* Nothing happens. *)
LEMMA VfsStutters ==
  ASSUME VfsInv, UNCHANGED vfs
  PROVE  VfsInv'
<1>1. /\ archive' = archive /\ header' = header /\ entry' = entry /\ loop' = loop
      /\ all_fds' = all_fds /\ rest' = rest /\ todo' = todo /\ handle_to_fd' = handle_to_fd
      /\ backlog' = backlog /\ peer' = peer /\ inbox' = inbox /\ hung' = hung
      /\ at' = at /\ cwd' = cwd /\ conn' = conn /\ mine' = mine /\ call' = call
      /\ answer' = answer
  BY DEF vfs, server, kernel, program
<1>2. ServerTypes' /\ ProgramTypes' /\ StartInv' /\ HandlesInv' /\ BacklogInv' /\ AskedInv' /\ RoundInv'
  BY <1>1 DEF VfsInv, ServerTypes, ProgramTypes, StartInv, HandlesInv, BacklogInv, AskedInv, RoundInv
<1>3. TableInv'
  BY <1>1, TableKept DEF VfsInv
<1>4. \A d \in Client : Untouched(d)
  BY <1>1 DEF Untouched
<1>5. TodoInv'
  <2>1. \A d \in Client : Live(d)' => Live(d)
    BY <1>1, <1>4, KeptPhase
  <2> QED BY <1>1, <2>1 DEF VfsInv, TodoInv
<1>6. ASSUME NEW d \in Client PROVE Phase(d)' /\ Link(d)'
  <2>1. Phase(d) /\ Link(d)
    BY DEF VfsInv, ClientInv
  <2>2. FdOf(conn[d])' = FdOf(conn[d])
    BY <1>1 DEF FdOf
  <2> QED BY <1>1, <1>4, <2>1, <2>2, KeptClient
<1> QED BY <1>2, <1>3, <1>5, <1>6 DEF VfsInv, ClientInv

(* No descriptor is left for the cookie. *)
LEMMA FullKeeps ==
  ASSUME VfsInv, NEW h \in Handle, ServeFull(h)
  PROVE  VfsInv'
<1>1. /\ archive' = archive /\ header' = header /\ entry' = entry /\ loop' = "lost"
      /\ all_fds' = all_fds /\ rest' = rest /\ todo = Null /\ todo' = todo
      /\ handle_to_fd' = handle_to_fd
      /\ backlog' = backlog /\ peer' = peer /\ inbox' = inbox /\ hung' = hung
      /\ at' = at /\ cwd' = cwd /\ conn' = conn /\ mine' = mine /\ call' = call
      /\ answer' = answer
  BY DEF ServeFull, Serves, kernel, program
<1>2. ServerTypes' /\ ProgramTypes' /\ StartInv' /\ HandlesInv' /\ BacklogInv' /\ AskedInv' /\ RoundInv'
  BY <1>1 DEF VfsInv, ServerTypes, ProgramTypes, StartInv, HandlesInv, BacklogInv, AskedInv, RoundInv
<1>3. TableInv'
  <2>1. TableInv /\ loop = "serve"
    BY DEF VfsInv, ServeFull, Serves
  <2> QED BY <1>1, <2>1, TableKept
<1>4. \A d \in Client : Untouched(d)
  BY <1>1 DEF Untouched
<1>5. TodoInv'
  BY <1>1 DEF TodoInv
<1>6. ASSUME NEW d \in Client PROVE Phase(d)' /\ Link(d)'
  <2>1. Phase(d) /\ Link(d)
    BY DEF VfsInv, ClientInv
  <2>2. FdOf(conn[d])' = FdOf(conn[d])
    BY <1>1 DEF FdOf
  <2> QED BY <1>1, <1>4, <2>1, <2>2, KeptClient
<1> QED BY <1>2, <1>3, <1>5, <1>6 DEF VfsInv, ClientInv

LEMMA VfsStep ==
  ASSUME VfsInv, [VfsNext]_vfs
  PROVE  VfsInv'
<1>1. CASE TarStep
  BY <1>1, TarKeeps
<1>2. CASE Round
  BY <1>2, RoundKeeps
<1>3. ASSUME NEW h \in Handle, ServeFull(h) \/ ServeOpen(h) \/ FinishOpen(h) \/ ServeIo(h)
      PROVE  VfsInv'
  BY <1>3, FullKeeps, OpenKeeps, FinishKeeps, IoKeeps
<1>4. ASSUME NEW c \in Client, Program(c) PROVE VfsInv'
  <2>1. CASE Chdir(c)
    BY <2>1, ChdirKeeps
  <2>2. CASE Open(c)
    BY <2>2, ConnectKeeps
  <2>3. CASE Receive(c)
    BY <2>3, ReceiveKeeps
  <2>4. CASE Close(c)
    BY <2>4, CloseFileKeeps
  <2>5. CASE SendOpen(c) \/ Read(c) \/ Write(c) \/ Execve(c) \/ Readdir(c) \/ Lseek(c) \/ Reopen(c)
    BY <2>5, RequestKeeps
  <2> QED BY <1>4, <2>1, <2>2, <2>3, <2>4, <2>5 DEF Program
<1>5. CASE UNCHANGED vfs
  BY <1>5, VfsStutters
<1> QED BY <1>1, <1>2, <1>3, <1>4, <1>5 DEF VfsNext, Server

-----------------------------------------------------------------------------
(* What the invariant says                                                 *)

LEMMA InvStreams ==
  ASSUME VfsInv
  PROVE  StreamsExact
<1> SUFFICES ASSUME NEW c \in Client, Waits(c), call[c].type \notin {"file", "dir"},
                    ~OnDisk(mine[c].path)
             PROVE  answer[c] = Expected(mine[c], call[c])
  BY DEF StreamsExact
<1>1. Told(c)
  BY DEF VfsInv, ClientInv, Phase
<1> QED BY <1>1 DEF Told

LEMMA InvOwn ==
  ASSUME VfsInv
  PROVE  OwnFile
<1>1. ServerTypes /\ ProgramTypes /\ HandlesInv /\ TodoInv /\ ClientInv
  BY DEF VfsInv
<1>2. \A h \in Handle : handle_to_fd[h] # Null => h \in ToSet(all_fds)
  BY <1>1, ReadyIs DEF HandlesInv
<1>3. ASSUME NEW c \in Client, mine[c] # Null
      PROVE  \/ /\ peer[conn[c]] = c /\ FdOf(conn[c]) # Null /\ FdOf(conn[c]).kind = mine[c].kind
                /\ FdOf(conn[c]).fs = GetFsIndex(mine[c].path)
                /\ FdOf(conn[c]).fs = 0 => entry[FdOf(conn[c]).index].name = Tail(mine[c].path)
             \/ Waits(c) /\ answer[c].err = EINVAL
  <2>1. Phase(c) /\ Link(c) /\ at[c] \in States /\ mine[c] \in Opened
    BY <1>1, <1>3 DEF ClientInv, ProgramTypes
  <2>2. conn[c] # Null
    BY <1>3, <2>1 DEF Phase, States
  <2>3. CASE Waits(c) /\ call[c].type \in {"file", "dir"}
    BY <1>3, <2>1, <2>3 DEF Phase, Told
  <2>4. CASE ~(Waits(c) /\ call[c].type \in {"file", "dir"})
    <3>1. Live(c)
      BY <2>2, <2>4 DEF Live, Doomed
    <3>2. After(c) \in Opened /\ After(c).kind = mine[c].kind /\ After(c).path = mine[c].path
      <4>1. CASE ~Waits(c)
        BY <2>1, <4>1 DEF After
      <4>2. CASE Waits(c)
        <5>1. After(c) \in Opened
          BY <2>1, <2>4, <4>2 DEF Phase, Told
        <5>2. After(c) = [mine[c] EXCEPT !.pos = PosAfter(mine[c], call[c], answer[c])]
          BY <2>4, <4>2 DEF After
        <5> QED BY <2>1, <5>1, <5>2 DEF Opened
      <4> QED BY <4>1, <4>2
    <3>3. peer[conn[c]] = c /\ Same(FdOf(conn[c]), After(c))
      BY <2>1, <3>1, <3>2, NotNull DEF Link
    <3>4. FdOf(conn[c]) # Null
      BY <3>3, NotNull DEF Same
    <3> QED BY <3>2, <3>3, <3>4 DEF Same
  <2> QED BY <2>3, <2>4
<1>4. ASSUME NEW c \in Client, at[c] = "connect", conn[c] # Null
      PROVE  handle_to_fd[conn[c]] = Null
  <2>1. Phase(c) /\ Link(c)
    BY <1>1 DEF ClientInv
  <2>2. Live(c) /\ After(c) = Null
    BY <1>4, <2>1 DEF Phase, Live, Doomed, Waits, After
  <2>3. FdOf(conn[c]) = Null
    BY <2>1, <2>2 DEF Link
  <2>4. CASE todo # Null /\ conn[c] = Head(rest)
    <3>1. todo.op \in {"close", "set"}
      BY <1>1, <2>4 DEF ServerTypes, Rest
    <3>2. todo.op # "close"
      BY <1>1, <2>2, <2>4 DEF TodoInv
    <3> QED BY <1>1, <2>4, <3>1, <3>2 DEF TodoInv
  <2>5. CASE ~(todo # Null /\ conn[c] = Head(rest))
    BY <2>3, <2>5 DEF FdOf
  <2> QED BY <2>4, <2>5
<1>5. ASSUME NEW c \in Client, Waits(c), mine[c] = Null, ~OnDisk(call[c].path)
      PROVE  answer[c].err = 0 <=> \/ Named(call[c].path) # {}
                                   \/ call[c].type = "dir" /\ call[c].path = <<>>
  BY <1>1, <1>5 DEF ClientInv, Phase, Told, Waits
<1> QED BY <1>2, <1>3, <1>4, <1>5 DEF OwnFile

(* Whatever the programs open, read, list, seek and close, and in whatever order  *)
(* their requests meet the server's rounds, each gets the bytes and the names of  *)
(* what it has opened, from where it left off (tarfs_read, read_tarfs_dir,        *)
(* my_readdir, my_lseek).                                                         *)
THEOREM StreamsAreExact == VfsSpec => []StreamsExact
<1>1. VfsInit => VfsInv
  BY VfsStart
<1>2. VfsInv /\ [VfsNext]_vfs => VfsInv'
  BY VfsStep
<1>3. VfsInv => StreamsExact
  BY InvStreams
<1> QED BY <1>1, <1>2, <1>3, PTL DEF VfsSpec

(* Numbers are used again when the server has closed a handle, after a failed or  *)
(* a second open; even so an entry of handle_to_fd belongs to the connection that *)
(* its number stands for now and is what that program opened, and an open fails   *)
(* only if there is no such path (close_handle, the loop of main in vfs.c,        *)
(* my_open, my_opendir).  The handles of closed files stay, until the table is    *)
(* full.                                                                          *)
THEOREM FilesAreTheirOwn == VfsSpec => []OwnFile
<1>1. VfsInit => VfsInv
  BY VfsStart
<1>2. VfsInv /\ [VfsNext]_vfs => VfsInv'
  BY VfsStep
<1>3. VfsInv => OwnFile
  BY InvOwn
<1> QED BY <1>1, <1>2, <1>3, PTL DEF VfsSpec

=============================================================================
