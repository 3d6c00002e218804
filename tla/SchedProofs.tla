---------------------------- MODULE SchedProofs ----------------------------
(***************************************************************************)
(* Proofs about Sched, for any number of tasks, drivers and servers.  The  *)
(* theorems hold under QuietConnect and QuietClose: the run queue is       *)
(* damaged if a device interrupt falls into port_connect or into close()   *)
(* of a port (the run SchedConnectRace shows how).                         *)
(***************************************************************************)
EXTENDS Sched, ListLemmas, FiniteSetTheorems, TLAPS

\* The points inside port_connect and close() of a port.
OpenPoint == WakePoint \cup {"closing"}

-----------------------------------------------------------------------------
(***************************************************************************)
(* The inductive invariant.  RunqSound alone is not inductive: an action   *)
(* that changes the state of the running task must know that the task is   *)
(* not on the run queue, and a wake-up must know that the task it queues   *)
(* is really asleep.                                                       *)
(***************************************************************************)

\* Only the running task can be inside port_connect or close() of a port.  The
\* port exists all the while; who closes it is its owner.
WakeSound ==
  \A t \in Task :
    /\ pc[t] \in OpenPoint => t = current /\ portOwner # Null
    /\ pc[t] \in WakePoint => wakee # Null /\ (wakee # portOwner => portOwner = t)
    /\ pc[t] = "closing" => portOwner = t

\* The idle task is in its loop, runnable or running.
IdleSound ==
  /\ pc[Idle] = "idle" /\ \A t \in Task : pc[t] # "idle"
  /\ state[Idle] \in {"RUNNABLE", "RUNNING"}

\* A process on the CPU is RUNNABLE, that is queued, only between a wake-up
\* and the schedule() it is about to call; back from schedule() it is RUNNING;
\* a ZOMBIE is on its way out.
CurrentSound ==
  current \in Task =>
    /\ pc[current] \notin {"blocking", "pblocking"}
         => state[current] \in {"RUNNING", "WAITING", "ZOMBIE"}
    /\ pc[current] \in {"resched", "presched"} => state[current] = "RUNNING"
    /\ state[current] = "ZOMBIE" => pc[current] \in {"exiting", "dying"}

\* waited_rw is set only inside wait_on; port_wait_list holds only tasks
\* inside wait_on_port and is empty while the port exists; the dead are not
\* inside a system call.
WaitersSound ==
  /\ \A t \in Task : pc[t] \notin {"blocking", "resched"} => waited[t] = {}
  /\ \A t \in portWait : pc[t] \in {"pblocking", "presched"}
  /\ PortOpen => portWait = {}
  /\ \A t \in Task : state[t] \in {"FREE", "ZOMBIE"}
                       => pc[t] \in {"user", "exiting", "dying"}

\* The half-made wake-up: the task is asleep until WakeState, and until
\* WakeLink it is the one task not yet queued.  close() has not to tell the
\* server itself.
LinkSound ==
  /\ pc[current] = "waking" => wakee # current /\ state[wakee] = "WAITING"
  /\ pc[current] = "linking" =>
       /\ link = runq
       /\ wakee \notin Range(runq)
       /\ state[wakee] = "RUNNABLE"
  /\ InClose => portOwner \notin untold

TypeInv == TypeOK /\ WakeSound

SchedInv ==
  /\ TypeInv
  /\ IdleSound
  /\ CurrentSound
  /\ WaitersSound
  /\ LinkSound
  /\ RunqSound
-----------------------------------------------------------------------------
\* Type correctness.

(* The order in which the waiters on a list are woken. *)
LEMMA OrdersType ==
  ASSUME NEW W \in SUBSET Task, NEW s \in Orders(W)
  PROVE  s \in Seq(AllTask) /\ IsInjective(s) /\ Range(s) = W
<1>1. IsFiniteSet(W)
  BY SchedAssumption, FS_Subset
<1>2. Cardinality(W) \in Nat
  BY <1>1, FS_CardinalityType
<1>3. s \in [1..Cardinality(W) -> AllTask]
  BY DEF Orders, AllTask
<1>4. s \in Seq(AllTask)
  BY <1>2, <1>3
<1> QED BY <1>4 DEF Orders

(* wake_up of several tasks changes types of nothing. *)
LEMMA WakeUpType ==
  ASSUME TypeOK, NEW W \in SUBSET Task, WakeUp(W)
  PROVE  runq' \in Seq(AllTask) /\ state' \in [AllTask -> TaskState]
<1>1. Sleepers(W) \in SUBSET Task
  BY DEF Sleepers
<1>2. PICK s \in Orders(Sleepers(W)) : runq' = s \o runq
  BY DEF WakeUp
<1>3. s \in Seq(AllTask)
  BY <1>1, OrdersType
<1>4. runq' \in Seq(AllTask)
  BY <1>2, <1>3 DEF TypeOK
<1>5. state' \in [AllTask -> TaskState]
  BY DEF WakeUp, TypeOK, TaskState
<1> QED BY <1>4, <1>5

(* Code that follows a dangling pointer goes on or is lost. *)
LEMMA OutcomesType ==
  ASSUME NEW k PROVE Outcomes(k) \subseteq {"none", "freed"}
BY DEF Outcomes

(* schedule() keeps types: the next task is the idle task or a queued one. *)
LEMMA ScheduleType ==
  ASSUME TypeInv, NEW t \in AllTask, Schedule(t)
  PROVE  TypeInv'
<1> DEFINE q == Requeued(t)
           next == IF q = <<>> THEN Idle ELSE Head(q)
<1> USE DEF TypeInv
<1>1. q \in Seq(AllTask)
  BY DEF Requeued, TypeOK
<1>2. next \in AllTask /\ (q # <<>> => Tail(q) \in Seq(AllTask))
  BY <1>1 DEF AllTask
<1>3. /\ runq' = IF q = <<>> THEN q ELSE Tail(q)
      /\ current' = next
      /\ state' = [state EXCEPT ![t] = StateOffCpu(t), ![next] = "RUNNING"]
      /\ IF state[t] = "ZOMBIE" THEN KillProcess(t)
         ELSE UNCHANGED <<ready, parent, intreq, portOwner, stale>>
      /\ pc' = [pc EXCEPT ![t] = PointOffCpu(@)]
      /\ fault' = ScheduleFault(t, next)
      /\ UNCHANGED <<waited, portWait, wakee, link, untold>>
      /\ current = t /\ pc[t] \notin OpenPoint
  BY DEF Schedule, wakeVars, OpenPoint, WakePoint
<1> HIDE DEF q, next
<1>4. runq' \in Seq(AllTask) /\ current' \in AllTask
  BY <1>1, <1>2, <1>3
<1>5. StateOffCpu(t) \in TaskState /\ PointOffCpu(pc[t]) \in Point
  BY DEF StateOffCpu, PointOffCpu, TypeOK, TaskState, Point
<1>6. state' \in [AllTask -> TaskState] /\ pc' \in [AllTask -> Point]
  BY <1>3, <1>5 DEF TypeOK, TaskState
<1>7. /\ ready' \in [Task -> SUBSET Event] /\ parent' \in [Task -> Task \cup {Null}]
      /\ intreq' \in SUBSET Task /\ portOwner' \in Task \cup {Null}
      /\ stale' \in SUBSET Leftover
  <2>1. CASE state[t] = "ZOMBIE"
    BY <1>3, <2>1 DEF KillProcess, DropNothing, Leftovers, TypeOK
  <2>2. CASE state[t] # "ZOMBIE"
    BY <1>3, <2>2 DEF TypeOK
  <2> QED BY <2>1, <2>2
<1>8. fault' \in {"none", "list", "kill_current", "freed"}
  BY <1>3 DEF ScheduleFault
<1>9. TypeOK'
  BY <1>3, <1>4, <1>6, <1>7, <1>8 DEF TypeOK
<1>10. WakeSound'
  <2>1. PointOffCpu(pc[t]) \in OpenPoint => pc[t] \in OpenPoint
    BY DEF PointOffCpu, OpenPoint, WakePoint
  <2>2. \A u \in Task : pc'[u] \notin OpenPoint
    BY <1>3, <2>1 DEF WakeSound, TypeOK
  <2> QED BY <2>2 DEF WakeSound, OpenPoint
<1> QED BY <1>9, <1>10

(* Every step keeps TypeInv. *)
LEMMA TypeStep == TypeInv /\ [Next]_vars => TypeInv'
<1> SUFFICES ASSUME TypeInv, [Next]_vars PROVE TypeInv'
  OBVIOUS
<1> USE SchedAssumption DEF TypeInv, ipcVars, wakeVars
<1>u. CASE UNCHANGED vars
  BY <1>u DEF vars, TypeOK, WakeSound
<1>1. CASE Interrupt
  <2>1. runq' \in Seq(AllTask) /\ state' \in [AllTask -> TaskState]
    BY <1>1, WakeUpType DEF Interrupt, TypeOK
  <2> QED BY <1>1, <2>1, OutcomesType DEF Interrupt, TypeOK, WakeSound, Event
<1>2. ASSUME NEW t \in AllTask, Schedule(t) PROVE TypeInv'
  BY <1>2, ScheduleType
<1>3. ASSUME NEW t \in Task, NEW W \in SUBSET Event, WaitOn(t, W) PROVE TypeInv'
  <2>1. /\ UNCHANGED <<runq, current, intreq, portOwner, portWait, parent, wakee, link,
                       untold, stale, fault>>
        /\ current = t
    BY <1>3 DEF WaitOn
  <2>2. CASE /\ state' = [state EXCEPT ![t] = "RUNNING"]
             /\ ready' = [ready EXCEPT ![t] = IF "int" \in W THEN @ \ {"int"} ELSE @]
             /\ waited' = [waited EXCEPT ![t] = {}]
             /\ pc' = [pc EXCEPT ![t] = "user"]
    BY <2>1, <2>2 DEF TypeOK, WakeSound, AllTask, TaskState, Point, WakePoint, OpenPoint
  <2>3. CASE /\ state' = [state EXCEPT ![t] = "WAITING"]
             /\ waited' = [waited EXCEPT ![t] = W]
             /\ pc' = [pc EXCEPT ![t] = "blocking"]
             /\ UNCHANGED ready
    BY <2>1, <2>3 DEF TypeOK, WakeSound, AllTask, TaskState, Point, WakePoint, OpenPoint
  <2> QED BY <1>3, <2>2, <2>3 DEF WaitOn
<1>4. ASSUME NEW t \in Task, WaitOnPort(t) PROVE TypeInv'
  BY <1>4 DEF WaitOnPort, TypeOK, WakeSound, AllTask, TaskState, Point, WakePoint,
              OpenPoint
<1>5. ASSUME NEW t \in Task, OpenPort(t) PROVE TypeInv'
  <2>1. runq' \in Seq(AllTask) /\ state' \in [AllTask -> TaskState]
    BY <1>5, WakeUpType DEF OpenPort, TypeOK
  <2>2. \A u \in Task : pc[u] \notin OpenPoint
    BY <1>5 DEF OpenPort, InUser, WakeSound, OpenPoint, WakePoint
  <2> QED BY <1>5, <2>1, <2>2 DEF OpenPort, TypeOK, WakeSound, OpenPoint
<1>6. ASSUME NEW t \in Task, NEW C \in SUBSET Task, NEW D \in SUBSET Task,
             ClosePort(t, C, D)
      PROVE  TypeInv'
  <2>1. runq' \in Seq(AllTask) /\ state' \in [AllTask -> TaskState]
    BY <1>6, WakeUpType DEF ClosePort
  <2>2. \A u \in Task : pc[u] \notin OpenPoint
    BY <1>6 DEF ClosePort, InUser, WakeSound, OpenPoint, WakePoint
  <2>3. /\ current' = t /\ (portOwner' = t \/ (pc' = pc /\ portOwner' = Null))
        /\ \/ pc' = pc
           \/ portOwner' = t /\ pc' = [pc EXCEPT ![t] = "closing"]
    BY <1>6 DEF ClosePort, InUser
  <2>4. WakeSound'
    BY <2>2, <2>3 DEF WakeSound, OpenPoint, WakePoint, TypeOK, AllTask
  <2>5. /\ pc' \in [AllTask -> Point] /\ portOwner' \in Task \cup {Null}
        /\ untold' \in SUBSET Task /\ ready' \in [Task -> SUBSET Event]
        /\ fault' \in {"none", "freed"}
    <3>1. /\ portOwner' \in Task \cup {Null} /\ untold' \in SUBSET Task
          /\ fault' \in {"none", "freed"}
      BY <1>6, OutcomesType DEF ClosePort, TypeOK
    <3>2. pc' \in [AllTask -> Point]
      BY <2>3 DEF TypeOK, Point, AllTask
    <3>3. ready' = [c \in Task |-> IF c \in C THEN ready[c] \cup {"ipc"} ELSE ready[c]]
      BY <1>6 DEF ClosePort
    <3>4. ready' \in [Task -> SUBSET Event]
      BY <3>3 DEF TypeOK, Event
    <3> QED BY <3>1, <3>2, <3>4
  <2>6. UNCHANGED <<current, waited, intreq, portWait, parent, wakee, link, stale>>
    BY <1>6 DEF ClosePort
  <2> QED BY <2>1, <2>4, <2>5, <2>6 DEF TypeOK
<1>7. ASSUME NEW t \in Task, NEW u \in Task, Post(t, u) PROVE TypeInv'
  <2>1. runq' \in Seq(AllTask) /\ state' \in [AllTask -> TaskState]
    BY <1>7, WakeUpType DEF Post
  <2> QED BY <1>7, <2>1, OutcomesType DEF Post, TypeOK, WakeSound, Event
<1>8. ASSUME NEW t \in Task, Consume(t) PROVE TypeInv'
  BY <1>8, OutcomesType DEF Consume, TypeOK, WakeSound
<1>9. ASSUME NEW t \in Task, Connect(t) PROVE TypeInv'
  <2>1. /\ current = t /\ fault' \in {"none", "freed"}
        /\ UNCHANGED <<state, runq, current, waited, intreq, portOwner, portWait, parent,
                       link, untold, stale>>
    BY <1>9, OutcomesType DEF Connect, InUser
  <2>2. CASE UNCHANGED <<ready, wakee, pc>>
    BY <2>1, <2>2 DEF TypeOK, WakeSound
  <2>3. CASE /\ portOwner # Null
             /\ ready' = [ready EXCEPT ![portOwner] = @ \cup {"ipc"}]
             /\ wakee' = portOwner
             /\ pc' = [pc EXCEPT ![t] = "testing"]
    BY <2>1, <2>3 DEF TypeOK, WakeSound, Event, AllTask, Point, WakePoint, OpenPoint
  <2> QED BY <1>9, <2>2, <2>3 DEF Connect
<1>10. ASSUME NEW t \in Task, WakeTest(t) PROVE TypeInv'
  <2>1. /\ current = t /\ pc[t] = "testing"
        /\ UNCHANGED <<state, runq, current, ready, waited, intreq, portOwner, portWait,
                       parent, link, untold, stale, fault>>
    BY <1>10 DEF WakeTest
  <2>2. CASE pc' = [pc EXCEPT ![t] = "waking"] /\ UNCHANGED wakee
    BY <2>1, <2>2 DEF TypeOK, WakeSound, AllTask, Point, WakePoint, OpenPoint
  <2>3. CASE pc' = [pc EXCEPT ![t] = AfterWakeUp] /\ wakee' = Null
    BY <2>1, <2>3 DEF AfterWakeUp, TypeOK, WakeSound, AllTask, Point, WakePoint, OpenPoint
  <2> QED BY <1>10, <2>2, <2>3 DEF WakeTest
<1>11. ASSUME NEW t \in Task, WakeState(t) PROVE TypeInv'
  BY <1>11 DEF WakeState, TypeOK, WakeSound, AllTask, TaskState, Point, WakePoint,
               OpenPoint
<1>12. ASSUME NEW t \in Task, WakeLink(t) PROVE TypeInv'
  <2>1. wakee \in AllTask
    BY <1>12 DEF WakeLink, WakeSound, WakePoint, TypeOK, AllTask
  <2>2. runq' \in Seq(AllTask)
    BY <1>12, <2>1 DEF WakeLink, TypeOK
  <2> QED BY <1>12, <2>2 DEF WakeLink, AfterWakeUp, TypeOK, WakeSound, AllTask, Point,
                             WakePoint, OpenPoint
<1>13. ASSUME NEW t \in Task, IntConnect(t) PROVE TypeInv'
  BY <1>13, OutcomesType DEF IntConnect, TypeOK, WakeSound
<1>14. ASSUME NEW t \in Task, IntClose(t) PROVE TypeInv'
  BY <1>14, OutcomesType DEF IntClose, TypeOK, WakeSound
<1>15. ASSUME NEW t \in Task, NEW c \in Task, CreateTask(t, c) PROVE TypeInv'
  <2>1. runq' \in Seq(AllTask)
    BY <1>15 DEF CreateTask, TypeOK, AllTask
  <2>2. intreq' \in SUBSET Task /\ fault' \in {"none", "list", "kill_current", "freed"}
    BY <1>15, OutcomesType DEF CreateTask, TypeOK
  <2>3. WakeSound'
    BY <1>15 DEF CreateTask, InUser, TypeOK, WakeSound, AllTask, OpenPoint, WakePoint
  <2> QED BY <1>15, <2>1, <2>2, <2>3 DEF CreateTask, TypeOK, AllTask, TaskState, Point,
                                         Event
<1>16. ASSUME NEW t \in Task, NEW how \in {"exiting", "dying"}, Die(t, how)
       PROVE  TypeInv'
  BY <1>16 DEF Die, TypeOK, WakeSound, AllTask, TaskState, Point, WakePoint, OpenPoint
<1>17. ASSUME NEW t \in Task, NEW c \in Task, CloseTell(t, c) PROVE TypeInv'
  BY <1>17 DEF CloseTell, TypeOK, WakeSound, AllTask, Event, Point, WakePoint, OpenPoint
<1>18. ASSUME NEW t \in Task, CloseEnd(t) PROVE TypeInv'
  BY <1>18 DEF CloseEnd, TypeOK, WakeSound, AllTask, Point, WakePoint, OpenPoint
<1> QED
  BY <1>u, <1>1, <1>2, <1>3, <1>4, <1>5, <1>6, <1>7, <1>8, <1>9, <1>10, <1>11, <1>12,
     <1>13, <1>14, <1>15, <1>16, <1>17, <1>18 DEF Next, Lost, Stimulus, Progress

(***************************************************************************)
(* Type correctness of the scheduler's state, whatever the programs do:    *)
(* the run queue holds tasks only, also when port_connect or close() of a  *)
(* port links a task with interrupts enabled (sched.c:70-106, 181-186;     *)
(* port.c:66; uport.c:447).                                                *)
(***************************************************************************)
THEOREM TypeCorrect == Spec => []TypeOK
<1>1. Init => TypeInv
  BY SchedAssumption DEF Init, TypeInv, TypeOK, WakeSound, AllTask, TaskState, Point,
                         Event, WakePoint, OpenPoint
<1>2. TypeInv => TypeOK
  BY DEF TypeInv
<1> QED BY <1>1, <1>2, TypeStep, PTL DEF Spec
-----------------------------------------------------------------------------
\* The run queue.

(* What wake_up does to the run queue when all its members are RUNNABLE. *)
LEMMA WakeUpQueue ==
  ASSUME TypeOK, RunqSound, NEW W \in SUBSET Task, WakeUp(W)
  PROVE  /\ IsInjective(runq')
         /\ Range(runq') = Range(runq) \cup Sleepers(W)
         /\ \A t \in AllTask :
              state'[t] = IF t \in Sleepers(W) THEN "RUNNABLE" ELSE state[t]
<1>1. Sleepers(W) \in SUBSET Task
  BY DEF Sleepers
<1>2. PICK s \in Orders(Sleepers(W)) : runq' = s \o runq
  BY DEF WakeUp
<1>3. s \in Seq(AllTask) /\ IsInjective(s) /\ Range(s) = Sleepers(W)
  BY <1>1, OrdersType
<1>4. Range(s) \cap Range(runq) = {}
  BY <1>3 DEF RunqSound, Sleepers
<1>5. /\ IsInjective(s \o runq)
      /\ Range(s \o runq) = Range(s) \cup Range(runq)
  BY <1>3, <1>4, ConcatDistinct DEF TypeOK, RunqSound
<1>6. \A t \in AllTask :
        state'[t] = IF t \in Sleepers(W) THEN "RUNNABLE" ELSE state[t]
  BY DEF WakeUp
<1> QED BY <1>2, <1>3, <1>5, <1>6

(* The members of the run queue are tasks. *)
LEMMA RunqTasks ==
  ASSUME TypeOK PROVE Range(runq) \subseteq AllTask
BY DEF TypeOK, Range

(***************************************************************************)
(* A wake-up in one step keeps the invariant if the task on the CPU,       *)
(* should it be among the woken, is about to call schedule().              *)
(***************************************************************************)
LEMMA WakeUpSound ==
  ASSUME SchedInv, NEW W \in SUBSET Task, WakeUp(W),
         UNCHANGED <<current, pc, waited>>,
         pc[current] \notin OpenPoint,
         current \in Sleepers(W) => pc[current] \in {"blocking", "pblocking"}
  PROVE  /\ IdleSound' /\ CurrentSound' /\ LinkSound' /\ RunqSound'
         /\ \A t \in Task : state'[t] \in {"FREE", "ZOMBIE"}
                              => pc'[t] \in {"user", "exiting", "dying"}
<1> USE DEF SchedInv, TypeInv
<1>1. /\ IsInjective(runq')
      /\ Range(runq') = Range(runq) \cup Sleepers(W)
      /\ \A t \in AllTask :
           state'[t] = IF t \in Sleepers(W) THEN "RUNNABLE" ELSE state[t]
  BY WakeUpQueue
<1>2. Sleepers(W) \subseteq Task /\ \A t \in Sleepers(W) : state[t] = "WAITING"
  BY DEF Sleepers
<1>3. Idle \notin Sleepers(W) /\ Idle \in AllTask /\ Task \subseteq AllTask
  BY <1>2, SchedAssumption DEF AllTask
<1>4. IdleSound'
  BY <1>1, <1>3 DEF IdleSound
<1>5. CurrentSound'
  BY <1>1, <1>2, <1>3 DEF CurrentSound
<1>6. LinkSound'
  BY DEF LinkSound, InClose, OpenPoint, WakePoint
<1>7. RunqSound'
  <2>1. \A t \in Range(runq') : state'[t] = "RUNNABLE"
    BY <1>1, <1>2, <1>3, RunqTasks DEF RunqSound
  <2>2. ASSUME NEW t \in Task, state'[t] = "RUNNABLE" PROVE t \in Range(runq')
    BY <1>1, <1>3, <2>2 DEF RunqSound, BeingLinked, OpenPoint, WakePoint
  <2> QED BY <1>1, <2>1, <2>2 DEF RunqSound
<1>8. \A t \in Task : state'[t] \in {"FREE", "ZOMBIE"}
                       => pc'[t] \in {"user", "exiting", "dying"}
  BY <1>1, <1>3 DEF WaitersSound
<1> QED BY <1>4, <1>5, <1>6, <1>7, <1>8

(* A port stays registered when its owner dies. *)
LEMMA SchedulePort ==
  ASSUME TypeInv, NEW t \in AllTask, Schedule(t)
  PROVE  PortOpen' = PortOpen
<1> USE SchedAssumption
<1>1. CASE state[t] = "ZOMBIE"
  <2>1. /\ portOwner' = IF portOwner = t THEN Null ELSE portOwner
        /\ "port" \in stale' <=> ("port" \in stale \/ t = portOwner)
    <3>1. /\ portOwner' = IF portOwner = t THEN Null ELSE portOwner
          /\ stale' \in {stale \cup Leftovers(t), stale \cup (Leftovers(t) \ {"conn"})}
      BY <1>1 DEF Schedule, KillProcess, DropNothing
    <3>2. "port" \in Leftovers(t) <=> t = portOwner
      BY DEF Leftovers, Leftover
    <3>3. "port" # "conn"
      OBVIOUS
    <3> QED BY <3>1, <3>2, <3>3
  <2>2. t # Null
    BY DEF AllTask
  <2>3. (portOwner' # Null \/ "port" \in stale') <=> (portOwner # Null \/ "port" \in stale)
    BY <2>1, <2>2
  <2> QED BY <2>3 DEF PortOpen
<1>2. CASE state[t] # "ZOMBIE"
  BY <1>2 DEF Schedule, PortOpen
<1> QED BY <1>1, <1>2

(***************************************************************************)
(* schedule() keeps the invariant: whatever state the caller is in, the    *)
(* head of the queue is dequeued exactly once and nobody else is lost.     *)
(***************************************************************************)
LEMMA ScheduleSound ==
  ASSUME SchedInv, NEW t \in AllTask, Schedule(t)
  PROVE  SchedInv'
<1> DEFINE q == Requeued(t)
           next == IF q = <<>> THEN Idle ELSE Head(q)
<1> USE SchedAssumption DEF SchedInv
<1>1. TypeInv'
  BY ScheduleType
<1>2. /\ runq' = IF q = <<>> THEN q ELSE Tail(q)
      /\ current' = next
      /\ state' = [state EXCEPT ![t] = StateOffCpu(t), ![next] = "RUNNING"]
      /\ pc' = [pc EXCEPT ![t] = PointOffCpu(@)]
      /\ UNCHANGED <<waited, portWait>>
      /\ current = t
      /\ pc[t] \in {"blocking", "pblocking", "exiting", "dying", "idle"}
  BY DEF Schedule
<1>p. PortOpen' = PortOpen
  BY SchedulePort
<1>3. /\ q \in Seq(AllTask)
      /\ IsInjective(q)
      /\ Range(q) = IF state[t] = "RUNNING" THEN Range(runq) \cup {t} ELSE Range(runq)
  <2>1. CASE state[t] = "RUNNING"
    <3>1. t \notin Range(runq) /\ IsInjective(runq) /\ runq \in Seq(AllTask)
      BY <2>1 DEF RunqSound, TypeInv, TypeOK
    <3>2. q = Append(runq, t)
      BY <2>1 DEF Requeued
    <3>3. /\ Append(runq, t) \in Seq(AllTask)
          /\ IsInjective(Append(runq, t))
          /\ Range(Append(runq, t)) = Range(runq) \cup {t}
      BY <3>1, AppendDistinct
    <3> HIDE DEF q
    <3> QED BY <2>1, <3>2, <3>3
  <2>2. CASE state[t] # "RUNNING"
    BY <2>2 DEF Requeued, RunqSound, TypeInv, TypeOK
  <2> QED BY <2>1, <2>2
<1>4. q # <<>> => Head(q) \in Range(q)
  BY <1>3, TailDistinct
<1>5. next \in AllTask
  BY <1>3, <1>4 DEF AllTask
<1>6. IsInjective(runq') /\ Range(runq') = Range(q) \ {next}
  <2>1. CASE q = <<>>
    BY <1>2, <1>3, <2>1 DEF Range
  <2>2. CASE q # <<>>
    <3>1. IsInjective(Tail(q)) /\ Range(Tail(q)) = Range(q) \ {Head(q)}
      BY <1>3, <2>2, TailDistinct
    <3> QED BY <1>2, <2>2, <3>1
  <2> QED BY <2>1, <2>2
<1> HIDE DEF q
<1>7. next = Idle \/ next \in Range(q)
  BY <1>4
<1> HIDE DEF next
<1>8. /\ \A u \in AllTask : state'[u] = IF u = next THEN "RUNNING"
                                        ELSE IF u = t THEN StateOffCpu(t) ELSE state[u]
      /\ \A u \in AllTask : pc'[u] = IF u = t THEN PointOffCpu(pc[t]) ELSE pc[u]
  BY <1>2, <1>5 DEF TypeInv, TypeOK
<1>9. /\ state[t] = "RUNNING" => StateOffCpu(t) = "RUNNABLE"
      /\ state[t] = "ZOMBIE" => StateOffCpu(t) \in {"FREE", "ZOMBIE"}
      /\ state[t] \notin {"RUNNING", "ZOMBIE"} => StateOffCpu(t) = state[t]
  BY DEF StateOffCpu
<1>10. /\ pc[t] = "blocking" => PointOffCpu(pc[t]) = "resched"
       /\ pc[t] = "pblocking" => PointOffCpu(pc[t]) = "presched"
       /\ pc[t] \in {"exiting", "dying"} => PointOffCpu(pc[t]) = "user"
       /\ pc[t] = "idle" => PointOffCpu(pc[t]) = "idle"
  BY DEF PointOffCpu
<1>11. Range(runq) \subseteq AllTask /\ Task \subseteq AllTask /\ Idle \in AllTask
  BY RunqTasks DEF TypeInv, AllTask
<1>12. IdleSound'
  BY <1>2, <1>8, <1>9, <1>10, <1>11 DEF IdleSound
<1>13. CurrentSound'
  <2>1. state'[current'] = "RUNNING"
    BY <1>2, <1>5, <1>8
  <2> QED BY <2>1 DEF CurrentSound
<1>14. WaitersSound'
  <2>1. \A u \in Task : pc'[u] \notin {"blocking", "resched"} => waited'[u] = {}
    BY <1>2, <1>8, <1>10, <1>11 DEF WaitersSound
  <2>2. \A u \in portWait' : pc'[u] \in {"pblocking", "presched"}
    BY <1>2, <1>8, <1>10, <1>11 DEF WaitersSound, TypeInv, TypeOK
  <2>3. ASSUME NEW u \in Task, state'[u] \in {"FREE", "ZOMBIE"}
        PROVE  pc'[u] \in {"user", "exiting", "dying"}
    BY <1>2, <1>8, <1>9, <1>10, <1>11, <2>3 DEF WaitersSound
  <2> QED BY <1>2, <1>p, <2>1, <2>2, <2>3 DEF WaitersSound
<1>15. pc'[current'] \notin OpenPoint
  BY <1>2, <1>5, <1>8, <1>10 DEF TypeInv, WakeSound, OpenPoint, WakePoint, IdleSound,
                                 AllTask
<1>16. LinkSound'
  BY <1>15 DEF LinkSound, InClose, OpenPoint, WakePoint
<1>17. RunqSound'
  <2>1. ASSUME NEW u \in Range(runq') PROVE state'[u] = "RUNNABLE"
    BY <1>3, <1>6, <1>8, <1>9, <1>11, <2>1 DEF RunqSound
  <2>2. ASSUME NEW u \in Task, state'[u] = "RUNNABLE" PROVE u \in Range(runq')
    <3>1. u # next
      BY <1>8, <1>11, <2>2
    <3>2. u \in Range(q)
      BY <1>2, <1>3, <1>8, <1>9, <1>11, <2>2, <3>1 DEF RunqSound, BeingLinked, IdleSound
    <3> QED BY <1>6, <3>1, <3>2
  <2> QED BY <1>6, <2>1, <2>2 DEF RunqSound
<1> QED BY <1>1, <1>12, <1>13, <1>14, <1>16, <1>17
(***************************************************************************)
(* Every step keeps SchedInv, provided no interrupt falls into             *)
(* port_connect or close() of a port.                                      *)
(***************************************************************************)
LEMMA SchedStep == QuietConnect /\ QuietClose /\ SchedInv /\ [Next]_vars => SchedInv'
<1> SUFFICES ASSUME QuietConnect, QuietClose, SchedInv, [Next]_vars PROVE SchedInv'
  OBVIOUS
<1> USE SchedAssumption DEF SchedInv, ipcVars, wakeVars
<1>t. TypeInv'
  BY TypeStep
<1>a. Task \subseteq AllTask /\ Idle \in AllTask /\ Range(runq) \subseteq AllTask
  BY RunqTasks DEF AllTask, TypeInv
<1>u. CASE UNCHANGED vars
  BY <1>u, <1>t DEF vars, IdleSound, CurrentSound, WaitersSound, LinkSound, RunqSound,
                    BeingLinked, PortOpen, InClose, InConnect
<1>1. CASE Interrupt
  <2> DEFINE W == {t \in intreq : "int" \in waited[t]}
  <2>1. W \in SUBSET Task /\ WakeUp(W) /\ UNCHANGED <<current, pc, waited, portOwner,
                                                    portWait, stale>>
    BY <1>1 DEF Interrupt, TypeInv, TypeOK
  <2>2. pc[current] \notin OpenPoint
    BY <1>1 DEF Interrupt, InterruptsEnabled, InClose, OpenPoint
  <2>3. current \in Sleepers(W) => pc[current] \in {"blocking", "pblocking"}
    BY <2>1 DEF Sleepers, WaitersSound, CurrentSound
  <2> HIDE DEF W
  <2>4. /\ IdleSound' /\ CurrentSound' /\ LinkSound' /\ RunqSound'
        /\ \A t \in Task : state'[t] \in {"FREE", "ZOMBIE"}
                              => pc'[t] \in {"user", "exiting", "dying"}
    BY <2>1, <2>2, <2>3, WakeUpSound
  <2> QED BY <1>t, <2>1, <2>4 DEF WaitersSound, PortOpen
<1>2. ASSUME NEW t \in AllTask, Schedule(t) PROVE SchedInv'
  BY <1>2, ScheduleSound
<1>3. ASSUME NEW t \in Task, NEW W \in SUBSET Event, WaitOn(t, W) PROVE SchedInv'
  <2>1. /\ UNCHANGED <<runq, current, portOwner, portWait, wakee, link, stale>>
        /\ current = t /\ pc[t] \in {"user", "resched"}
    BY <1>3 DEF WaitOn, InUser
  <2>2. \/ /\ state'[t] = "RUNNING" /\ waited'[t] = {} /\ pc'[t] = "user"
        \/ /\ state'[t] = "WAITING" /\ pc'[t] = "blocking"
    BY <1>3, <1>a DEF WaitOn, TypeInv, TypeOK
  <2>3. \A u \in AllTask \ {t} : state'[u] = state[u] /\ pc'[u] = pc[u]
    BY <1>3, <1>a DEF WaitOn, TypeInv, TypeOK
  <2>4. \A u \in Task \ {t} : waited'[u] = waited[u]
    BY <1>3 DEF WaitOn, TypeInv, TypeOK
  <2>5. t \notin Range(runq) /\ t # Idle
    BY <2>1 DEF RunqSound, CurrentSound
  <2>6. IdleSound' /\ CurrentSound' /\ LinkSound'
    BY <1>a, <2>1, <2>2, <2>3, <2>5 DEF IdleSound, CurrentSound, LinkSound, InClose, WakePoint
  <2>7. WaitersSound'
    BY <1>a, <2>1, <2>2, <2>3, <2>4 DEF WaitersSound, PortOpen, TypeInv, TypeOK
  <2>8. RunqSound'
    BY <1>a, <2>1, <2>2, <2>3, <2>5 DEF RunqSound, BeingLinked
  <2> QED BY <1>t, <2>6, <2>7, <2>8
<1>4. ASSUME NEW t \in Task, WaitOnPort(t) PROVE SchedInv'
  <2>1. /\ UNCHANGED <<runq, current, waited, portOwner, wakee, link, stale>>
        /\ current = t /\ pc[t] \in {"user", "presched"}
    BY <1>4 DEF WaitOnPort, InUser
  <2>2. \/ pc'[t] = "user" /\ PortOpen /\ portWait' = portWait
        \/ pc'[t] = "pblocking" /\ ~PortOpen /\ portWait' = portWait \cup {t}
    BY <1>4, <1>a DEF WaitOnPort, TypeInv, TypeOK
  <2>3. state'[t] \in {"RUNNING", "WAITING"}
    BY <1>4, <1>a, <2>1 DEF WaitOnPort, TypeInv, TypeOK, CurrentSound
  <2>4. \A u \in AllTask \ {t} : state'[u] = state[u] /\ pc'[u] = pc[u]
    BY <1>4, <1>a DEF WaitOnPort, TypeInv, TypeOK
  <2>5. t \notin Range(runq) /\ t # Idle
    BY <2>1 DEF RunqSound, CurrentSound
  <2>6. IdleSound' /\ CurrentSound' /\ LinkSound'
    BY <1>a, <2>1, <2>2, <2>3, <2>4, <2>5 DEF IdleSound, CurrentSound, LinkSound, InClose,
                                              WakePoint
  <2>p. PortOpen' = PortOpen
    BY <2>1 DEF PortOpen
  <2>7. WaitersSound'
    BY <1>a, <2>1, <2>2, <2>3, <2>4, <2>p DEF WaitersSound, TypeInv, TypeOK
  <2>8. RunqSound'
    BY <1>a, <2>1, <2>2, <2>3, <2>4, <2>5 DEF RunqSound, BeingLinked
  <2> QED BY <1>t, <2>6, <2>7, <2>8
<1>5. ASSUME NEW t \in Task, OpenPort(t) PROVE SchedInv'
  <2>1. /\ portWait \in SUBSET Task /\ WakeUp(portWait)
        /\ UNCHANGED <<current, pc, waited>> /\ portWait' = {}
        /\ current = t /\ pc[t] = "user"
    BY <1>5 DEF OpenPort, InUser, TypeInv, TypeOK
  <2>2. current \notin Sleepers(portWait) /\ pc[current] \notin OpenPoint
    BY <2>1 DEF Sleepers, WaitersSound, OpenPoint, WakePoint
  <2>3. /\ IdleSound' /\ CurrentSound' /\ LinkSound' /\ RunqSound'
        /\ \A u \in Task : state'[u] \in {"FREE", "ZOMBIE"}
                              => pc'[u] \in {"user", "exiting", "dying"}
    BY <2>1, <2>2, WakeUpSound
  <2> QED BY <1>t, <2>1, <2>3 DEF WaitersSound
<1>6. ASSUME NEW t \in Task, NEW C \in SUBSET Task, NEW D \in SUBSET Task,
             ClosePort(t, C, D)
      PROVE  SchedInv'
  <2> DEFINE W == {c \in C : "ipc" \in waited[c]}
  <2>1. /\ W \in SUBSET Task /\ WakeUp(W)
        /\ UNCHANGED <<current, waited, portWait, stale>>
        /\ current = t /\ pc[t] = "user" /\ portOwner = t
        /\ \/ pc' = pc /\ portOwner' = Null
           \/ /\ pc' = [pc EXCEPT ![t] = "closing"] /\ portOwner' = t
              /\ untold' = D /\ t \notin D
    BY <1>6 DEF ClosePort, InUser
  <2>2. t \notin W
    BY <2>1 DEF WaitersSound
  <2> HIDE DEF W
  <2>3. /\ IsInjective(runq')
        /\ Range(runq') = Range(runq) \cup Sleepers(W)
        /\ \A u \in AllTask :
             state'[u] = IF u \in Sleepers(W) THEN "RUNNABLE" ELSE state[u]
    BY <2>1, WakeUpQueue DEF TypeInv
  <2>4. /\ Sleepers(W) \subseteq Task /\ t \notin Sleepers(W)
        /\ \A u \in Sleepers(W) : state[u] = "WAITING"
    BY <2>1, <2>2 DEF Sleepers
  <2>5. /\ \A u \in AllTask \ {t} : pc'[u] = pc[u]
        /\ pc'[t] \in {"user", "closing"}
        /\ pc'[t] = "closing" => portOwner' \notin untold'
    BY <1>a, <2>1 DEF TypeInv, TypeOK
  <2>6. IdleSound'
    BY <1>a, <2>3, <2>4, <2>5 DEF IdleSound
  <2>7. CurrentSound'
    BY <1>a, <2>1, <2>3, <2>4, <2>5 DEF CurrentSound
  <2>8. LinkSound'
    BY <2>1, <2>5 DEF LinkSound, InClose, WakePoint
  <2>9. WaitersSound'
    <3>1. \A u \in portWait : pc'[u] \in {"pblocking", "presched"}
      BY <1>a, <2>1, <2>5 DEF WaitersSound, TypeInv, TypeOK
    <3>2. PortOpen' => PortOpen
      BY <2>1 DEF PortOpen
    <3>3. \A u \in Task : pc'[u] \notin {"blocking", "resched"} => waited'[u] = {}
      BY <1>a, <2>1, <2>5 DEF WaitersSound
    <3>4. state[t] \notin {"FREE", "ZOMBIE"}
      BY <2>1 DEF CurrentSound
    <3>5. \A u \in Task : state'[u] \in {"FREE", "ZOMBIE"}
                              => pc'[u] \in {"user", "exiting", "dying"}
      BY <1>a, <2>3, <2>5, <3>4 DEF WaitersSound
    <3> QED BY <2>1, <3>1, <3>2, <3>3, <3>5 DEF WaitersSound
  <2>10. RunqSound'
    <3>1. \A u \in Range(runq') : state'[u] = "RUNNABLE"
      BY <1>a, <2>3, <2>4 DEF RunqSound
    <3>2. ASSUME NEW u \in Task, state'[u] = "RUNNABLE" PROVE u \in Range(runq')
      BY <1>a, <2>1, <2>3, <3>2 DEF RunqSound, BeingLinked
    <3> QED BY <2>3, <3>1, <3>2 DEF RunqSound
  <2> QED BY <1>t, <2>6, <2>7, <2>8, <2>9, <2>10
<1>7. ASSUME NEW t \in Task, NEW u \in Task, Post(t, u) PROVE SchedInv'
  <2> DEFINE W == IF "ipc" \in waited[u] THEN {u} ELSE {}
  <2>1. /\ W \in SUBSET Task /\ WakeUp(W)
        /\ UNCHANGED <<current, pc, waited, portWait, portOwner, stale>>
        /\ current = t /\ pc[t] = "user" /\ t \notin W
    BY <1>7 DEF Post, InUser
  <2>2. current \notin Sleepers(W) /\ pc[current] \notin OpenPoint
    BY <2>1 DEF Sleepers, OpenPoint, WakePoint
  <2> HIDE DEF W
  <2>3. /\ IdleSound' /\ CurrentSound' /\ LinkSound' /\ RunqSound'
        /\ \A v \in Task : state'[v] \in {"FREE", "ZOMBIE"}
                              => pc'[v] \in {"user", "exiting", "dying"}
    BY <2>1, <2>2, WakeUpSound
  <2> QED BY <1>t, <2>1, <2>3 DEF WaitersSound, PortOpen
<1>8. ASSUME NEW t \in Task, Consume(t) \/ IntConnect(t) \/ IntClose(t) PROVE SchedInv'
  <2>1. UNCHANGED <<state, runq, current, pc, waited, portOwner, portWait, wakee, link,
                    untold, stale>>
    BY <1>8 DEF Consume, IntConnect, IntClose
  <2> QED BY <1>t, <2>1 DEF IdleSound, CurrentSound, WaitersSound, LinkSound, RunqSound,
                            BeingLinked, PortOpen, InClose, InConnect
<1>9. ASSUME NEW t \in Task, Connect(t) \/ WakeTest(t) \/ \E c \in Task : CloseTell(t, c)
      PROVE  SchedInv'
  <2>1. /\ UNCHANGED <<state, runq, current, waited, portOwner, portWait, link, stale>>
        /\ current = t /\ pc[t] \in {"user", "testing", "closing"}
        /\ pc' = [pc EXCEPT ![t] = pc'[t]]
        /\ \/ pc'[t] \in {"testing", "user", "closing"}
           \/ /\ pc'[t] = "waking" /\ wakee' = wakee
              /\ state[wakee] = "WAITING" /\ "ipc" \in waited[wakee]
              /\ pc[t] = "testing"
    BY <1>9, <1>a DEF Connect, WakeTest, CloseTell, AfterWakeUp, InUser, TypeInv, TypeOK
  <2>2. \A u \in AllTask \ {t} : pc'[u] = pc[u]
    BY <1>a, <2>1 DEF TypeInv, TypeOK
  <2>3. IdleSound' /\ CurrentSound'
    BY <1>a, <2>1, <2>2 DEF IdleSound, CurrentSound
  <2>4. WaitersSound'
    BY <1>a, <2>1, <2>2 DEF WaitersSound, PortOpen, CurrentSound, TypeInv, TypeOK
  <2>5. RunqSound'
    BY <2>1 DEF RunqSound, BeingLinked
  <2>6. pc'[current'] = "waking" => wakee' # current' /\ state'[wakee'] = "WAITING"
    <3>1. waited[t] = {}
      BY <2>1 DEF WaitersSound
    <3> QED BY <2>1, <3>1
  <2>7. InClose' => portOwner' \notin untold'
    <3>1. CASE Connect(t)
      BY <3>1, <1>a DEF Connect, InUser, InClose, InConnect, WakePoint, TypeInv, TypeOK
    <3>2. CASE WakeTest(t)
      BY <3>2, <1>a DEF WakeTest, AfterWakeUp, InClose, InConnect, WakePoint, LinkSound,
                        TypeInv, TypeOK
    <3>3. CASE \E c \in Task : CloseTell(t, c)
      BY <3>3 DEF CloseTell, InClose, LinkSound
    <3> QED BY <1>9, <3>1, <3>2, <3>3
  <2>8. LinkSound'
    BY <2>1, <2>6, <2>7 DEF LinkSound
  <2> QED BY <1>t, <2>3, <2>4, <2>5, <2>8
<1>10. ASSUME NEW t \in Task, WakeState(t) PROVE SchedInv'
  <2>1. /\ UNCHANGED <<runq, current, waited, portOwner, portWait, wakee, untold, stale>>
        /\ current = t /\ pc[t] = "waking" /\ link' = runq
        /\ wakee \in Task /\ state[wakee] = "WAITING" /\ wakee # t
    BY <1>10 DEF WakeState, TypeInv, TypeOK, WakeSound, WakePoint, LinkSound
  <2>2. /\ \A u \in AllTask : state'[u] = IF u = wakee THEN "RUNNABLE" ELSE state[u]
        /\ \A u \in AllTask : pc'[u] = IF u = t THEN "linking" ELSE pc[u]
    BY <1>10, <1>a, <2>1 DEF WakeState, TypeInv, TypeOK
  <2>3. wakee \notin Range(runq)
    BY <2>1 DEF RunqSound
  <2>4. IdleSound' /\ CurrentSound'
    BY <1>a, <2>1, <2>2, <2>3 DEF IdleSound, CurrentSound
  <2>5. LinkSound'
    BY <1>a, <2>1, <2>2, <2>3 DEF LinkSound, InClose, InConnect, WakePoint
  <2>6. WaitersSound'
    BY <1>a, <2>1, <2>2 DEF WaitersSound, PortOpen, TypeInv, TypeOK
  <2>7. RunqSound'
    BY <1>a, <2>1, <2>2, <2>3 DEF RunqSound, BeingLinked
  <2> QED BY <1>t, <2>4, <2>5, <2>6, <2>7
<1>11. ASSUME NEW t \in Task, WakeLink(t) PROVE SchedInv'
  <2>1. /\ UNCHANGED <<state, current, waited, portOwner, portWait, untold, stale>>
        /\ current = t /\ pc[t] = "linking" /\ runq' = <<wakee>> \o runq
        /\ wakee \in Task /\ state[wakee] = "RUNNABLE"
        /\ wakee \notin Range(runq)
    BY <1>11 DEF WakeLink, TypeInv, TypeOK, WakeSound, WakePoint, LinkSound
  <2>2. /\ \A u \in AllTask : pc'[u] = IF u = t THEN AfterWakeUp ELSE pc[u]
        /\ AfterWakeUp \in {"user", "closing"}
        /\ AfterWakeUp = "closing" => InClose
    BY <1>11, <1>a DEF WakeLink, AfterWakeUp, InClose, InConnect, WakePoint, TypeInv, TypeOK
  <2>3. /\ IsInjective(<<wakee>> \o runq)
        /\ Range(<<wakee>> \o runq) = Range(runq) \cup {wakee}
    BY <1>a, <2>1, PrependDistinct DEF RunqSound, TypeInv, TypeOK
  <2>4. IdleSound' /\ CurrentSound'
    BY <1>a, <2>1, <2>2 DEF IdleSound, CurrentSound
  <2>5. LinkSound'
    BY <1>a, <2>1, <2>2 DEF LinkSound, InClose, WakePoint
  <2>6. WaitersSound'
    BY <1>a, <2>1, <2>2 DEF WaitersSound, PortOpen, TypeInv, TypeOK
  <2>7. IsInjective(runq') /\ Range(runq') = Range(runq) \cup {wakee}
    BY <2>1, <2>3
  <2>8. RunqSound'
    BY <1>a, <2>1, <2>2, <2>7 DEF RunqSound, BeingLinked
  <2> QED BY <1>t, <2>4, <2>5, <2>6, <2>8
<1>12. ASSUME NEW t \in Task, NEW c \in Task, CreateTask(t, c) PROVE SchedInv'
  <2>1. /\ UNCHANGED <<current, portOwner, portWait, wakee, link, stale>>
        /\ current = t /\ pc[t] = "user" /\ runq' = <<c>> \o runq
        /\ state[c] = "FREE"
    BY <1>12 DEF CreateTask, InUser
  <2>2. /\ \A u \in AllTask : state'[u] = IF u = c THEN "RUNNABLE" ELSE state[u]
        /\ \A u \in AllTask : pc'[u] = IF u = c THEN "user" ELSE pc[u]
        /\ \A u \in Task : waited'[u] = IF u = c THEN {} ELSE waited[u]
    BY <1>12, <1>a DEF CreateTask, TypeInv, TypeOK
  <2>3. c # t /\ c # Idle /\ c \notin Range(runq) /\ c \notin portWait
    BY <2>1 DEF CurrentSound, RunqSound, WaitersSound
  <2>4. /\ IsInjective(<<c>> \o runq)
        /\ Range(<<c>> \o runq) = Range(runq) \cup {c}
    BY <1>a, <2>3, PrependDistinct DEF RunqSound, TypeInv, TypeOK
  <2>5. IsInjective(runq') /\ Range(runq') = Range(runq) \cup {c}
    BY <2>1, <2>4
  <2>6. IdleSound' /\ CurrentSound' /\ LinkSound'
    BY <1>a, <2>1, <2>2, <2>3 DEF IdleSound, CurrentSound, LinkSound, InClose, WakePoint
  <2>7. WaitersSound'
    BY <1>a, <2>1, <2>2, <2>3 DEF WaitersSound, PortOpen, TypeInv, TypeOK
  <2>8. RunqSound'
    BY <1>a, <2>1, <2>2, <2>3, <2>5 DEF RunqSound, BeingLinked
  <2> QED BY <1>t, <2>6, <2>7, <2>8
<1>13. ASSUME NEW t \in Task, NEW how \in {"exiting", "dying"}, Die(t, how)
       PROVE  SchedInv'
  <2>1. /\ UNCHANGED <<runq, current, waited, portOwner, portWait, wakee, link, stale>>
        /\ current = t /\ pc[t] = "user"
    BY <1>13 DEF Die, InUser
  <2>2. /\ \A u \in AllTask : state'[u] = IF u = t THEN "ZOMBIE" ELSE state[u]
        /\ \A u \in AllTask : pc'[u] = IF u = t THEN how ELSE pc[u]
    BY <1>13, <1>a DEF Die, TypeInv, TypeOK
  <2>3. t # Idle /\ t \notin Range(runq)
    BY <2>1 DEF CurrentSound, RunqSound
  <2>4. IdleSound' /\ CurrentSound' /\ LinkSound'
    BY <1>a, <2>1, <2>2, <2>3 DEF IdleSound, CurrentSound, LinkSound, InClose, WakePoint
  <2>5. WaitersSound'
    BY <1>a, <2>1, <2>2, <2>3 DEF WaitersSound, PortOpen, TypeInv, TypeOK
  <2>6. RunqSound'
    BY <1>a, <2>1, <2>2, <2>3 DEF RunqSound, BeingLinked
  <2> QED BY <1>t, <2>4, <2>5, <2>6
<1>14. ASSUME NEW t \in Task, CloseEnd(t) PROVE SchedInv'
  <2>1. /\ UNCHANGED <<state, runq, current, waited, portWait, wakee, link, stale>>
        /\ current = t /\ pc[t] = "closing" /\ portOwner' = Null
    BY <1>14 DEF CloseEnd
  <2>2. \A u \in AllTask : pc'[u] = IF u = t THEN "user" ELSE pc[u]
    BY <1>14, <1>a DEF CloseEnd, TypeInv, TypeOK
  <2>3. IdleSound' /\ CurrentSound' /\ LinkSound'
    BY <1>a, <2>1, <2>2 DEF IdleSound, CurrentSound, LinkSound, InClose, WakePoint
  <2>4. WaitersSound'
    BY <1>a, <2>1, <2>2 DEF WaitersSound, PortOpen, TypeInv, TypeOK
  <2>5. RunqSound'
    BY <1>a, <2>1, <2>2 DEF RunqSound, BeingLinked
  <2> QED BY <1>t, <2>3, <2>4, <2>5
<1> QED
  BY <1>u, <1>1, <1>2, <1>3, <1>4, <1>5, <1>6, <1>7, <1>8, <1>9, <1>10, <1>11, <1>12,
     <1>13, <1>14 DEF Next, Lost, Stimulus, Progress

(* The state in which start_init calls schedule() satisfies the invariant. *)
LEMMA SchedInit == Init => SchedInv
<1> SUFFICES ASSUME Init PROVE SchedInv
  OBVIOUS
<1> USE SchedAssumption DEF Init
<1>1. TypeInv
  BY DEF TypeInv, TypeOK, WakeSound, AllTask, TaskState, Point, Event, WakePoint, OpenPoint
<1>2. IdleSound /\ CurrentSound /\ WaitersSound /\ LinkSound
  BY DEF IdleSound, CurrentSound, WaitersSound, LinkSound, AllTask, PortOpen, InClose,
         WakePoint
<1>3. IsInjective(runq) /\ Range(runq) = {InitTask}
  BY DEF IsInjective, Range
<1>4. RunqSound
  BY <1>3 DEF RunqSound, AllTask
<1> QED BY <1>1, <1>2, <1>4 DEF SchedInv

(***************************************************************************)
(* The run queue holds every runnable process exactly once and nothing     *)
(* else (sched.c:70-106, 181-186): no wake-up, from an interrupt or from a *)
(* system call, queues a task twice or loses one, for any number of tasks, *)
(* whatever they die holding, as long as no device interrupt arrives while *)
(* port_connect or close() of a port makes a wake-up with interrupts       *)
(* enabled (port.c:66, uport.c:447).                                       *)
(***************************************************************************)
THEOREM RunQueueSound == ASSUME QuietConnect, QuietClose PROVE Spec => []RunqSound
<1>1. SchedInv => RunqSound
  BY DEF SchedInv
<1>2. SchedInv /\ [Next]_vars => SchedInv'
  BY SchedStep
<1> QED BY <1>1, <1>2, SchedInit, PTL DEF Spec
-----------------------------------------------------------------------------
(***************************************************************************)
(* No lost wake-up.  The inductive form says in addition what may be       *)
(* pending while uport_connect is about to wake the server, or close() a   *)
(* client: the event of the connection and nothing else.                   *)
(***************************************************************************)
WakeupInv ==
  \A t \in Task : state[t] = "WAITING" =>
    ready[t] \cap waited[t] \subseteq (IF BeingWoken(t) THEN {"ipc"} ELSE {})

(* Every step keeps it. *)
LEMMA WakeupStep ==
  QuietConnect /\ QuietClose /\ SchedInv /\ WakeupInv /\ [Next]_vars => WakeupInv'
<1> SUFFICES ASSUME QuietConnect, QuietClose, SchedInv, WakeupInv, [Next]_vars PROVE WakeupInv'
  OBVIOUS
<1> USE SchedAssumption DEF ipcVars, wakeVars
<1>a. /\ Task \subseteq AllTask /\ TypeOK /\ WakeSound /\ CurrentSound
      /\ WaitersSound /\ LinkSound
  BY DEF AllTask, SchedInv, TypeInv
<1>w. ASSUME NEW W \in SUBSET Task, WakeUp(W)
      PROVE  \A u \in Task : state'[u] = "WAITING" => state[u] = "WAITING" /\ u \notin W
  BY <1>w, <1>a DEF WakeUp, Sleepers
<1>u. CASE UNCHANGED vars
  BY <1>u DEF vars, WakeupInv, BeingWoken
<1>1. CASE Interrupt
  <2> DEFINE W == {t \in intreq : "int" \in waited[t]}
  <2>1. W \in SUBSET Task /\ WakeUp(W) /\ UNCHANGED <<current, pc, waited, wakee>>
    BY <1>1, <1>a DEF Interrupt, TypeOK
  <2>2. \A u \in Task : state'[u] = "WAITING" => state[u] = "WAITING" /\ u \notin W
    BY <1>w, <2>1
  <2>3. \A u \in Task : ready'[u] \subseteq ready[u] \cup (IF u \in intreq THEN {"int"} ELSE {})
    BY <1>1, <1>a DEF Interrupt, TypeOK
  <2>4. \A u \in Task : state'[u] = "WAITING" =>
          ready'[u] \cap waited'[u] \subseteq ready[u] \cap waited[u]
    BY <2>1, <2>2, <2>3
  <2> QED BY <2>1, <2>2, <2>4 DEF WakeupInv, BeingWoken
<1>2. ASSUME NEW t \in AllTask, Schedule(t) PROVE WakeupInv'
  <2>1. /\ UNCHANGED waited
        /\ current = t /\ pc[t] \notin OpenPoint
        /\ \A u \in Task : ready'[u] \subseteq ready[u]
    BY <1>2, <1>a DEF Schedule, KillProcess, DropNothing, TypeOK, OpenPoint, WakePoint
  <2>2. \A u \in Task : state'[u] = "WAITING" => state[u] = "WAITING"
    <3>1. StateOffCpu(t) = "WAITING" => state[t] = "WAITING"
      BY DEF StateOffCpu
    <3>2. PICK n : state' = [state EXCEPT ![t] = StateOffCpu(t), ![n] = "RUNNING"]
      BY <1>2 DEF Schedule
    <3> QED BY <1>a, <3>1, <3>2 DEF TypeOK
  <2> QED BY <2>1, <2>2 DEF WakeupInv, BeingWoken, OpenPoint, WakePoint
<1>3. ASSUME NEW t \in Task, NEW W \in SUBSET Event, WaitOn(t, W) PROVE WakeupInv'
  <2>1. /\ UNCHANGED <<current, wakee>> /\ current = t
        /\ pc[t] \in {"user", "resched"} /\ pc'[t] \in {"user", "blocking"}
        /\ state'[t] = "WAITING" => ready'[t] \cap waited'[t] = {}
        /\ \A u \in Task \ {t} : /\ state'[u] = state[u]
                                 /\ ready'[u] = ready[u] /\ waited'[u] = waited[u]
    BY <1>3, <1>a DEF WaitOn, InUser, TypeOK
  <2> QED BY <2>1 DEF WakeupInv, BeingWoken
<1>4. ASSUME NEW t \in Task, WaitOnPort(t) PROVE WakeupInv'
  <2>1. /\ UNCHANGED <<current, wakee, ready, waited>> /\ current = t
        /\ pc[t] \in {"user", "presched"} /\ pc'[t] \in {"user", "pblocking"}
        /\ \A u \in Task \ {t} : state'[u] = state[u]
    BY <1>4, <1>a DEF WaitOnPort, InUser, TypeOK
  <2>2. waited[t] = {}
    BY <2>1, <1>a DEF WaitersSound
  <2> QED BY <2>1, <2>2 DEF WakeupInv, BeingWoken
<1>5. ASSUME NEW t \in Task, OpenPort(t) PROVE WakeupInv'
  <2>1. /\ UNCHANGED <<current, pc, ready, waited>> /\ current = t /\ pc[t] = "user"
        /\ \A u \in Task : state'[u] = "WAITING" => state[u] = "WAITING"
    BY <1>5, <1>a, <1>w DEF OpenPort, InUser, TypeOK
  <2> QED BY <2>1 DEF WakeupInv, BeingWoken
<1>6. ASSUME NEW t \in Task, NEW C \in SUBSET Task, NEW D \in SUBSET Task,
             ClosePort(t, C, D)
      PROVE  WakeupInv'
  <2> DEFINE W == {c \in C : "ipc" \in waited[c]}
  <2>1. /\ UNCHANGED <<current, waited>> /\ current = t /\ pc[t] = "user"
        /\ W \in SUBSET Task /\ WakeUp(W)
        /\ \A u \in Task : ready'[u] \subseteq ready[u] \cup (IF u \in C THEN {"ipc"} ELSE {})
    BY <1>6, <1>a DEF ClosePort, InUser, TypeOK
  <2>2. \A u \in Task : state'[u] = "WAITING" => state[u] = "WAITING" /\ u \notin W
    BY <1>w, <2>1
  <2>3. \A u \in Task : state'[u] = "WAITING" =>
          ready'[u] \cap waited'[u] \subseteq ready[u] \cap waited[u]
    BY <2>1, <2>2
  <2>4. \A u \in Task : ~BeingWoken(u)
    BY <2>1 DEF BeingWoken
  <2> QED BY <2>2, <2>3, <2>4 DEF WakeupInv
<1>7. ASSUME NEW t \in Task, NEW v \in Task, Post(t, v) PROVE WakeupInv'
  <2> DEFINE W == IF "ipc" \in waited[v] THEN {v} ELSE {}
  <2>1. /\ UNCHANGED <<current, pc, waited>> /\ current = t /\ pc[t] = "user"
        /\ W \in SUBSET Task /\ WakeUp(W)
        /\ \A u \in Task : ready'[u] \subseteq ready[u] \cup (IF u = v THEN {"ipc"} ELSE {})
    BY <1>7, <1>a DEF Post, InUser, TypeOK
  <2>2. \A u \in Task : state'[u] = "WAITING" => state[u] = "WAITING" /\ u \notin W
    BY <1>w, <2>1
  <2>3. \A u \in Task : state'[u] = "WAITING" =>
          ready'[u] \cap waited'[u] \subseteq ready[u] \cap waited[u]
    BY <2>1, <2>2
  <2> QED BY <2>1, <2>2, <2>3 DEF WakeupInv, BeingWoken
<1>8. ASSUME NEW t \in Task, Consume(t) \/ IntConnect(t) \/ IntClose(t) PROVE WakeupInv'
  <2>1. /\ UNCHANGED <<state, current, pc, waited, wakee>>
        /\ \A u \in Task : ready'[u] \subseteq ready[u]
    <3>1. CASE Consume(t)
      BY <3>1, <1>a DEF Consume, TypeOK
    <3>2. CASE IntConnect(t)
      BY <3>2 DEF IntConnect
    <3>3. CASE IntClose(t)
      BY <3>3, <1>a DEF IntClose, TypeOK
    <3> QED BY <1>8, <3>1, <3>2, <3>3
  <2> QED BY <2>1 DEF WakeupInv, BeingWoken
<1>9. ASSUME NEW t \in Task, Connect(t) \/ \E c \in Task : CloseTell(t, c)
      PROVE  WakeupInv'
  <2>1. /\ UNCHANGED <<state, current, waited>> /\ current = t
        /\ pc[t] \in {"user", "closing"}
        /\ \/ UNCHANGED ready
           \/ /\ pc'[t] = "testing"
              /\ \A u \in Task : ready'[u] \subseteq
                    ready[u] \cup (IF u = wakee' THEN {"ipc"} ELSE {})
    <3>1. CASE Connect(t)
      BY <3>1, <1>a DEF Connect, InUser, TypeOK
    <3>2. ASSUME NEW c \in Task, CloseTell(t, c)
          PROVE  /\ UNCHANGED <<state, current, waited>> /\ current = t
                 /\ pc[t] = "closing" /\ pc'[t] = "testing"
                 /\ \A u \in Task : ready'[u] \subseteq
                       ready[u] \cup (IF u = wakee' THEN {"ipc"} ELSE {})
      BY <3>2, <1>a DEF CloseTell, TypeOK
    <3> QED BY <1>9, <3>1, <3>2
  <2>2. \A u \in Task : ~BeingWoken(u)
    BY <2>1 DEF BeingWoken
  <2> QED BY <2>1, <2>2 DEF WakeupInv, BeingWoken
<1>10. ASSUME NEW t \in Task, WakeTest(t) PROVE WakeupInv'
  <2>1. /\ UNCHANGED <<state, current, ready, waited>> /\ current = t
        /\ pc[t] = "testing"
        /\ \/ pc'[t] = "waking" /\ wakee' = wakee
           \/ state[wakee] # "WAITING" \/ "ipc" \notin waited[wakee]
    BY <1>10, <1>a DEF WakeTest, TypeOK
  <2> QED BY <2>1 DEF WakeupInv, BeingWoken
<1>11. ASSUME NEW t \in Task, WakeState(t) \/ WakeLink(t) PROVE WakeupInv'
  <2>1. /\ UNCHANGED <<current, ready, waited>> /\ current = t
        /\ \A u \in Task : state'[u] = "WAITING" => state[u] = "WAITING"
        /\ \/ pc[t] = "waking" /\ (wakee \in Task => state'[wakee] = "RUNNABLE")
           \/ pc[t] = "linking"
    BY <1>11, <1>a DEF WakeState, WakeLink, TypeOK
  <2> QED BY <2>1 DEF WakeupInv, BeingWoken
<1>12. ASSUME NEW t \in Task, NEW c \in Task, CreateTask(t, c) PROVE WakeupInv'
  <2>1. /\ UNCHANGED <<current, wakee>> /\ current = t
        /\ pc[t] = "user" /\ pc'[t] = "user"
        /\ ready'[c] = {}
        /\ \A u \in Task \ {c} : /\ state'[u] = state[u]
                                 /\ ready'[u] = ready[u] /\ waited'[u] = waited[u]
    BY <1>12, <1>a DEF CreateTask, InUser, TypeOK
  <2> QED BY <2>1 DEF WakeupInv, BeingWoken
<1>13. ASSUME NEW t \in Task, NEW how \in {"exiting", "dying"}, Die(t, how)
       PROVE  WakeupInv'
  <2>1. /\ UNCHANGED <<current, ready, waited, wakee>> /\ current = t /\ pc[t] = "user"
        /\ \A u \in Task : state'[u] = "WAITING" => state[u] = "WAITING"
    BY <1>13, <1>a DEF Die, InUser, TypeOK
  <2> QED BY <2>1 DEF WakeupInv, BeingWoken
<1>14. ASSUME NEW t \in Task, CloseEnd(t) PROVE WakeupInv'
  <2>1. /\ UNCHANGED <<state, current, ready, waited, wakee>>
        /\ current = t /\ pc[t] = "closing"
    BY <1>14 DEF CloseEnd
  <2> QED BY <2>1 DEF WakeupInv, BeingWoken
<1> QED
  BY <1>u, <1>1, <1>2, <1>3, <1>4, <1>5, <1>6, <1>7, <1>8, <1>9, <1>10, <1>11, <1>12,
     <1>13, <1>14 DEF Next, Lost, Stimulus, Progress

(***************************************************************************)
(* No wake-up is lost: a task asleep in wait_on (port.c:209-297) has none  *)
(* of its events pending, although interrupts are enabled between the test *)
(* of its descriptors and its call of schedule().                          *)
(***************************************************************************)
THEOREM NoWakeupLost == ASSUME QuietConnect, QuietClose PROVE Spec => []NoLostWakeup
<1>1. Init => WakeupInv
  BY DEF Init, WakeupInv
<1>2. SchedInv /\ WakeupInv /\ [Next]_vars => SchedInv' /\ WakeupInv'
  BY SchedStep, WakeupStep
<1>3. WakeupInv => NoLostWakeup
  BY DEF WakeupInv, NoLostWakeup
<1> QED BY <1>1, <1>2, <1>3, SchedInit, PTL DEF Spec
-----------------------------------------------------------------------------
(***************************************************************************)
(* The dead.  link, outside its use in WakeLink, is empty; so what         *)
(* DeadUnreferenced says of the lists follows from SchedInv.               *)
(***************************************************************************)
DeadInv ==
  /\ \A t \in Task : state[t] = "FREE" \/ (state[t] = "ZOMBIE" /\ t # current)
                       => \A c \in Task : parent[c] # t
  /\ pc[current] # "linking" => link = <<>>

(* Every step keeps it: no child is given to a task that is not alive. *)
LEMMA DeadStep == SchedInv /\ DeadInv /\ [Next]_vars => DeadInv'
<1> SUFFICES ASSUME SchedInv, DeadInv, [Next]_vars PROVE DeadInv'
  OBVIOUS
<1> USE SchedAssumption DEF ipcVars, wakeVars
<1>a. /\ Task \subseteq AllTask /\ TypeOK /\ WakeSound /\ CurrentSound /\ IdleSound
      /\ WaitersSound /\ LinkSound /\ RunqSound
  BY DEF AllTask, SchedInv, TypeInv
<1>w. ASSUME NEW W \in SUBSET Task, WakeUp(W)
      PROVE  \A u \in Task : state'[u] \in {"FREE", "ZOMBIE"} => state'[u] = state[u]
  BY <1>w, <1>a DEF WakeUp
<1>v. ASSUME NEW t \in Task, InUser(t) PROVE state[t] \notin {"FREE", "ZOMBIE"}
  BY <1>v, <1>a DEF InUser, CurrentSound
<1>u. CASE UNCHANGED vars
  BY <1>u DEF vars, DeadInv
<1>1. CASE Interrupt
  <2>1. {t \in intreq : "int" \in waited[t]} \in SUBSET Task
    BY <1>a DEF TypeOK
  <2> QED BY <1>1, <1>w, <2>1 DEF Interrupt, DeadInv
<1>2. ASSUME NEW t \in AllTask, Schedule(t) PROVE DeadInv'
  <2> DEFINE q == Requeued(t)
             next == IF q = <<>> THEN Idle ELSE Head(q)
  <2>1. /\ UNCHANGED link /\ current = t /\ current' = next
        /\ state' = [state EXCEPT ![t] = StateOffCpu(t), ![next] = "RUNNING"]
        /\ IF state[t] = "ZOMBIE" THEN KillProcess(t) ELSE UNCHANGED parent
        /\ pc[t] # "linking"
    BY <1>2 DEF Schedule
  <2> HIDE DEF next
  <2>2. StateOffCpu(t) \in {"FREE", "ZOMBIE"} => state[t] \in {"FREE", "ZOMBIE"}
    BY DEF StateOffCpu
  <2>3. \A u \in Task : state'[u] \in {"FREE", "ZOMBIE"} =>
          state[u] \in {"FREE", "ZOMBIE"} /\ (u # t => state'[u] = state[u])
    BY <1>a, <2>1, <2>2 DEF TypeOK
  <2>4. ASSUME NEW u \in Task, state'[u] \in {"FREE", "ZOMBIE"}, NEW c \in Task
        PROVE  parent'[c] # u
    <3>1. CASE u = t
      <4>1. state[t] = "ZOMBIE"
        BY <1>a, <2>1, <2>3, <2>4, <3>1 DEF CurrentSound, WaitersSound
      <4> QED BY <2>1, <3>1, <4>1 DEF KillProcess
    <3>2. CASE u # t
      <4>1. parent[c] # u
        BY <2>1, <2>3, <2>4, <3>2 DEF DeadInv
      <4> QED BY <2>1, <4>1 DEF KillProcess
    <3> QED BY <3>1, <3>2
  <2> QED BY <2>1, <2>3, <2>4 DEF DeadInv
<1>3. ASSUME NEW t \in Task, NEW W \in SUBSET Event, WaitOn(t, W) PROVE DeadInv'
  <2>1. /\ UNCHANGED <<parent, link, current>> /\ current = t
        /\ pc[t] \in {"user", "resched"}
        /\ \A u \in Task : state'[u] \in {"FREE", "ZOMBIE"} => state'[u] = state[u]
    BY <1>3, <1>a DEF WaitOn, InUser, TypeOK
  <2> QED BY <2>1 DEF DeadInv
<1>4. ASSUME NEW t \in Task, WaitOnPort(t) PROVE DeadInv'
  <2>1. /\ UNCHANGED <<parent, link, current>> /\ current = t
        /\ pc[t] \in {"user", "presched"}
        /\ \A u \in Task : state'[u] \in {"FREE", "ZOMBIE"} => state'[u] = state[u]
    BY <1>4, <1>a DEF WaitOnPort, InUser, TypeOK
  <2> QED BY <2>1 DEF DeadInv
<1>5. ASSUME NEW t \in Task, OpenPort(t) PROVE DeadInv'
  <2>1. \A u \in Task : state'[u] \in {"FREE", "ZOMBIE"} => state'[u] = state[u]
    BY <1>5, <1>a, <1>w DEF OpenPort, TypeOK
  <2> QED BY <1>5, <1>v, <2>1 DEF OpenPort, DeadInv
<1>6. ASSUME NEW t \in Task, NEW C \in SUBSET Task, NEW D \in SUBSET Task,
             ClosePort(t, C, D)
      PROVE  DeadInv'
  <2>1. /\ \A u \in Task : state'[u] \in {"FREE", "ZOMBIE"} => state'[u] = state[u]
        /\ pc[current] # "linking" /\ UNCHANGED <<current, link, parent>>
    BY <1>6, <1>w DEF ClosePort, InUser
  <2> QED BY <2>1 DEF DeadInv
<1>7. ASSUME NEW t \in Task, NEW v \in Task, Post(t, v) PROVE DeadInv'
  <2>1. \A u \in Task : state'[u] \in {"FREE", "ZOMBIE"} => state'[u] = state[u]
    BY <1>7, <1>w DEF Post
  <2> QED BY <1>7, <2>1 DEF Post, DeadInv
<1>8. ASSUME NEW t \in Task, Consume(t) \/ IntConnect(t) \/ IntClose(t) PROVE DeadInv'
  <2>1. CASE Consume(t)
    BY <2>1 DEF Consume, DeadInv
  <2>2. CASE IntConnect(t)
    BY <1>v, <2>2 DEF IntConnect, DeadInv
  <2>3. CASE IntClose(t)
    BY <2>3 DEF IntClose, DeadInv
  <2> QED BY <1>8, <2>1, <2>2, <2>3
<1>9. ASSUME NEW t \in Task, \/ Connect(t) \/ WakeTest(t) \/ CloseEnd(t)
                              \/ \E c \in Task : CloseTell(t, c)
      PROVE  DeadInv'
  <2>1. /\ UNCHANGED <<state, current, parent, link>>
        /\ pc[current] # "linking"
    BY <1>9 DEF Connect, WakeTest, CloseEnd, CloseTell, InUser
  <2> QED BY <2>1 DEF DeadInv
<1>10. ASSUME NEW t \in Task, WakeState(t) PROVE DeadInv'
  <2>1. /\ UNCHANGED <<current, parent>>
        /\ pc'[current] = "linking"
        /\ \A u \in Task : state'[u] \in {"FREE", "ZOMBIE"} => state'[u] = state[u]
    BY <1>10, <1>a DEF WakeState, TypeOK
  <2> QED BY <2>1 DEF DeadInv
<1>11. ASSUME NEW t \in Task, WakeLink(t) PROVE DeadInv'
  BY <1>11 DEF WakeLink, DeadInv
<1>12. ASSUME NEW t \in Task, NEW c \in Task, CreateTask(t, c) PROVE DeadInv'
  <2>1. /\ UNCHANGED <<current, link>> /\ InUser(t) /\ current = t
        /\ parent' = [parent EXCEPT ![c] = t]
        /\ state'[c] = "RUNNABLE"
        /\ \A u \in Task \ {c} : state'[u] = state[u]
        /\ pc[current] # "linking"
    BY <1>12, <1>a DEF CreateTask, InUser, TypeOK
  <2>2. state[t] \notin {"FREE", "ZOMBIE"}
    BY <1>v, <2>1
  <2>3. \A x \in Task : parent'[x] = IF x = c THEN t ELSE parent[x]
    BY <1>a, <2>1 DEF TypeOK
  <2> QED BY <2>1, <2>2, <2>3 DEF DeadInv
<1>13. ASSUME NEW t \in Task, NEW how \in {"exiting", "dying"}, Die(t, how)
       PROVE  DeadInv'
  <2>1. /\ UNCHANGED <<current, parent, link>>
        /\ current = t /\ pc[t] = "user"
        /\ \A u \in Task \ {t} : state'[u] = state[u]
        /\ state'[t] = "ZOMBIE"
    BY <1>13, <1>a DEF Die, InUser, TypeOK
  <2> QED BY <2>1 DEF DeadInv
<1> QED
  BY <1>u, <1>1, <1>2, <1>3, <1>4, <1>5, <1>6, <1>7, <1>8, <1>9, <1>10, <1>11, <1>12,
     <1>13 DEF Next, Lost, Stimulus, Progress

(***************************************************************************)
(* A dead task (sched.c:33-51) is not on the run queue, not on             *)
(* port_wait_list and nobody's parent, for any number of tasks, whatever   *)
(* it held when it died and whoever died before.                           *)
(***************************************************************************)
THEOREM NoDeadPointer ==
  ASSUME QuietConnect, QuietClose PROVE Spec => []DeadUnreferenced
<1>1. Init => DeadInv
  BY SchedAssumption DEF Init, DeadInv, AllTask
<1>2. SchedInv /\ DeadInv /\ [Next]_vars => SchedInv' /\ DeadInv'
  BY SchedStep, DeadStep
<1>3. SchedInv /\ DeadInv => DeadUnreferenced
  <2> SUFFICES ASSUME SchedInv, DeadInv, NEW t \in Task,
                      state[t] = "FREE" \/ (state[t] = "ZOMBIE" /\ t # current)
               PROVE  /\ t \notin Range(runq) \cup Range(link) \cup portWait
                      /\ \A c \in Task : parent[c] # t
    BY DEF DeadUnreferenced
  <2>1. t \notin Range(runq)
    BY DEF SchedInv, RunqSound
  <2>2. t \notin Range(link)
    <3>1. CASE pc[current] = "linking"
      BY <2>1, <3>1 DEF SchedInv, LinkSound
    <3>2. CASE pc[current] # "linking"
      BY <3>2 DEF DeadInv, Range
    <3> QED BY <3>1, <3>2
  <2>3. t \notin portWait
    BY DEF SchedInv, WaitersSound
  <2> QED BY <2>1, <2>2, <2>3 DEF DeadInv
<1> QED BY <1>1, <1>2, <1>3, SchedInit, PTL DEF Spec
-----------------------------------------------------------------------------
(***************************************************************************)
(* Who is on the CPU, and who is behind whom in the queue.  This needs     *)
(* PoliteClose: wait_on_port does not become WAITING again when it finds   *)
(* the port gone after a wake-up.                                          *)
(***************************************************************************)

\* Only the task on the CPU is RUNNING or on its way into schedule(), and on
\* its way it is no longer RUNNING.
CpuSound ==
  /\ \A t \in Task : state[t] = "RUNNING" => t = current
  /\ \A t \in Task :
       /\ pc[t] \in {"blocking", "pblocking"} => t = current /\ state[t] # "RUNNING"
       /\ pc[t] \in {"exiting", "dying"} => t = current /\ state[t] = "ZOMBIE"

\* A task inside wait_on_port is asleep, listed, and there is no port; or it
\* has been woken and the port is still there.
PortWaitSound ==
  \A t \in Task : pc[t] \in {"pblocking", "presched"} =>
    IF state[t] = "WAITING" THEN t \in portWait /\ ~PortOpen ELSE PortOpen

\* While a port is being closed nobody is inside wait_on_port.
CloseSound ==
  InClose => \A t \in Task : pc[t] \notin {"pblocking", "presched"}

\* x, if it is in q, is its last element.
AtEnd(q, x) == \A i \in DOMAIN q : q[i] = x => i = Len(q)

\* The idle task is never in front of another one.
IdleLast == AtEnd(runq, Idle)

\* Freed memory is used only if a dead task has left pointers to it.
FaultSound == fault = "none" \/ (fault = "freed" /\ stale # {})

CpuInv == CpuSound /\ PortWaitSound /\ CloseSound /\ IdleLast /\ FaultSound

(* list_add leaves the last element where it is, *)
LEMMA ConcatAtEnd ==
  ASSUME NEW S, NEW s \in Seq(S), NEW q \in Seq(S), NEW x,
         x \notin Range(s), AtEnd(q, x)
  PROVE  AtEnd(s \o q, x)
<1> SUFFICES ASSUME NEW i \in DOMAIN (s \o q), (s \o q)[i] = x
             PROVE  i = Len(s \o q)
  BY DEF AtEnd
<1>1. /\ Len(s \o q) = Len(s) + Len(q) /\ i \in 1 .. Len(s) + Len(q)
      /\ Len(s) \in Nat /\ Len(q) \in Nat
      /\ \/ i \in DOMAIN s /\ s[i] = x
         \/ i - Len(s) \in DOMAIN q /\ q[i - Len(s)] = x
  OBVIOUS
<1>2. i - Len(s) \in DOMAIN q /\ q[i - Len(s)] = x
  BY <1>1 DEF Range
<1>3. i - Len(s) = Len(q)
  BY <1>2 DEF AtEnd
<1> QED BY <1>1, <1>3

(* and so does list_del of the head; *)
LEMMA TailAtEnd ==
  ASSUME NEW S, NEW q \in Seq(S), q # <<>>, NEW x, AtEnd(q, x)
  PROVE  AtEnd(Tail(q), x)
<1> SUFFICES ASSUME NEW i \in DOMAIN Tail(q), Tail(q)[i] = x
             PROVE  i = Len(Tail(q))
  BY DEF AtEnd
<1>1. /\ Len(Tail(q)) = Len(q) - 1 /\ Len(q) \in Nat /\ i \in Nat
      /\ i + 1 \in DOMAIN q /\ q[i + 1] = x
  OBVIOUS
<1>2. i + 1 = Len(q)
  BY <1>1 DEF AtEnd
<1>3. \A m, n \in Nat : m + 1 = n => m = n - 1
  OBVIOUS
<1> QED BY <1>1, <1>2, <1>3, Zenon

(* list_add_tail makes one. *)
LEMMA AppendAtEnd ==
  ASSUME NEW S, NEW q \in Seq(S), NEW x \in S, x \notin Range(q)
  PROVE  AtEnd(Append(q, x), x)
<1> SUFFICES ASSUME NEW i \in DOMAIN Append(q, x), Append(q, x)[i] = x
             PROVE  i = Len(Append(q, x))
  BY DEF AtEnd
<1>1. /\ Len(Append(q, x)) = Len(q) + 1 /\ Len(q) \in Nat
      /\ i \in 1 .. Len(q) + 1
      /\ i \in DOMAIN q => q[i] = x
  OBVIOUS
<1>2. i \notin DOMAIN q
  BY <1>1 DEF Range
<1>3. DOMAIN q = 1 .. Len(q)
  OBVIOUS
<1> QED BY <1>1, <1>2, <1>3

(***************************************************************************)
(* wake_up of tasks that wait for an event or for the port, the port and   *)
(* its list left alone.                                                    *)
(***************************************************************************)
LEMMA WakeUpCpu ==
  ASSUME SchedInv, CpuInv, NEW W \in SUBSET Task, WakeUp(W),
         UNCHANGED <<current, pc, portOwner, portWait, stale>>, FaultSound',
         pc[current] \notin OpenPoint,
         \A t \in W : waited[t] # {}
  PROVE  CpuInv'
<1> USE SchedAssumption
<1>a. /\ Task \subseteq AllTask /\ TypeOK /\ WaitersSound /\ RunqSound
  BY DEF AllTask, SchedInv, TypeInv
<1>1. \A t \in AllTask : state'[t] = IF t \in Sleepers(W) THEN "RUNNABLE" ELSE state[t]
  BY DEF WakeUp
<1>2. \A t \in Sleepers(W) : t \in Task /\ state[t] = "WAITING"
                             /\ pc[t] \in {"blocking", "resched"}
  BY <1>a DEF Sleepers, WaitersSound
<1>3. CpuSound'
  BY <1>a, <1>1, <1>2 DEF CpuInv, CpuSound
<1>4. PortWaitSound'
  BY <1>a, <1>1, <1>2 DEF CpuInv, PortWaitSound, PortOpen
<1>c. CloseSound'
  BY DEF CloseSound, InClose, OpenPoint
<1>5. IdleLast'
  <2>1. PICK s \in Orders(Sleepers(W)) : runq' = s \o runq
    BY DEF WakeUp
  <2>2. Sleepers(W) \in SUBSET Task
    BY <1>2
  <2>3. s \in Seq(AllTask) /\ Range(s) = Sleepers(W)
    BY <2>2, OrdersType
  <2>4. Idle \notin Range(s)
    BY <2>2, <2>3
  <2>5. AtEnd(s \o runq, Idle)
    BY <1>a, <2>3, <2>4, ConcatAtEnd DEF CpuInv, IdleLast, TypeOK
  <2> QED BY <2>1, <2>5 DEF IdleLast
<1> QED BY <1>3, <1>4, <1>c, <1>5 DEF CpuInv

(***************************************************************************)
(* schedule(): its two checks succeed, and only the idle task goes to the  *)
(* tail of the queue.                                                      *)
(***************************************************************************)
LEMMA ScheduleCpu ==
  ASSUME SchedInv, CpuInv, NEW t \in AllTask, Schedule(t)
  PROVE  CpuInv'
<1> DEFINE q == Requeued(t)
           next == IF q = <<>> THEN Idle ELSE Head(q)
<1> USE SchedAssumption
<1>a. /\ Task \subseteq AllTask /\ Idle \in AllTask /\ TypeOK /\ WaitersSound
      /\ RunqSound /\ IdleSound /\ CurrentSound
  BY DEF AllTask, SchedInv, TypeInv
<1>1. /\ runq' = IF q = <<>> THEN q ELSE Tail(q)
      /\ current' = next
      /\ state' = [state EXCEPT ![t] = StateOffCpu(t), ![next] = "RUNNING"]
      /\ pc' = [pc EXCEPT ![t] = PointOffCpu(@)]
      /\ fault' = ScheduleFault(t, next)
      /\ UNCHANGED <<waited, portWait>>
      /\ current = t
      /\ pc[t] \in {"blocking", "pblocking", "exiting", "dying", "idle"}
  BY <1>a DEF Schedule
<1>p. PortOpen' = PortOpen
  BY SchedulePort DEF SchedInv
<1>2. t # Idle => state[t] # "RUNNING"
  BY <1>a, <1>1 DEF CpuInv, CpuSound, IdleSound, AllTask
<1>3. q \in Seq(AllTask) /\ AtEnd(q, Idle) /\ (q = runq \/ t = Idle)
  <2>1. CASE state[t] = "RUNNING"
    <3>1. t = Idle /\ q = Append(runq, Idle) /\ Idle \notin Range(runq)
      BY <1>a, <1>2, <2>1 DEF Requeued, RunqSound
    <3>2. AtEnd(Append(runq, Idle), Idle) /\ Append(runq, Idle) \in Seq(AllTask)
      BY <1>a, <3>1, AppendAtEnd DEF TypeOK
    <3> QED BY <3>1, <3>2
  <2>2. CASE state[t] # "RUNNING"
    BY <1>a, <2>2 DEF Requeued, CpuInv, IdleLast, TypeOK
  <2> QED BY <2>1, <2>2
<1>4. q # <<>> => /\ AtEnd(Tail(q), Idle) /\ Head(q) \in AllTask
                  /\ Head(q) = Idle \/ state[Head(q)] = "RUNNABLE"
  <2> SUFFICES ASSUME q # <<>>
               PROVE  /\ AtEnd(Tail(q), Idle) /\ Head(q) \in AllTask
                      /\ Head(q) = Idle \/ state[Head(q)] = "RUNNABLE"
    OBVIOUS
  <2>1. AtEnd(Tail(q), Idle)
    BY <1>3, TailAtEnd
  <2>2. Head(q) \in AllTask
    BY <1>3
  <2>3. CASE state[t] = "RUNNING"
    <3>1. t = Idle /\ q = Append(runq, Idle)
      BY <1>2, <2>3 DEF Requeued
    <3>2. Head(q) = Idle \/ (runq # <<>> /\ Head(q) = Head(runq))
      BY <1>a, <3>1 DEF TypeOK
    <3>3. runq # <<>> => Head(runq) \in Range(runq)
      BY <1>a DEF Range, TypeOK
    <3> QED BY <1>a, <2>1, <2>2, <3>2, <3>3 DEF RunqSound
  <2>4. CASE state[t] # "RUNNING"
    <3>1. q = runq
      BY <2>4 DEF Requeued
    <3>2. runq # <<>> => Head(runq) \in Range(runq)
      BY <1>a DEF Range, TypeOK
    <3> QED BY <1>a, <2>1, <2>2, <3>1, <3>2 DEF RunqSound
  <2> QED BY <2>3, <2>4
<1> HIDE DEF q
<1>5. next \in AllTask /\ (next = Idle \/ state[next] = "RUNNABLE")
  BY <1>a, <1>4
<1>6. IdleLast'
  BY <1>1, <1>3, <1>4 DEF IdleLast
<1> HIDE DEF next
<1>7. /\ \A u \in AllTask : state'[u] = IF u = next THEN "RUNNING"
                                        ELSE IF u = t THEN StateOffCpu(t) ELSE state[u]
      /\ \A u \in AllTask : pc'[u] = IF u = t THEN PointOffCpu(pc[t]) ELSE pc[u]
  BY <1>a, <1>1, <1>5 DEF TypeOK
<1>8. /\ StateOffCpu(t) # "RUNNING" /\ (StateOffCpu(t) = "WAITING" <=> state[t] = "WAITING")
      /\ pc[t] = "pblocking" <=> PointOffCpu(pc[t]) = "presched"
      /\ PointOffCpu(pc[t]) \notin {"blocking", "pblocking", "exiting", "dying"}
  BY <1>1 DEF StateOffCpu, PointOffCpu
<1>9. CpuSound'
  BY <1>a, <1>1, <1>5, <1>7, <1>8, ZenonT(60) DEF CpuInv, CpuSound
<1>10. PortWaitSound'
  <2> SUFFICES ASSUME NEW u \in Task, pc'[u] \in {"pblocking", "presched"}
               PROVE  IF state'[u] = "WAITING" THEN u \in portWait /\ ~PortOpen ELSE PortOpen
    BY <1>1, <1>p DEF PortWaitSound
  <2>1. pc[u] \in {"pblocking", "presched"}
    BY <1>a, <1>7, <1>8
  <2>2. state'[u] = "WAITING" <=> state[u] = "WAITING"
    BY <1>a, <1>5, <1>7, <1>8
  <2> QED BY <2>1, <2>2 DEF CpuInv, PortWaitSound
<1>11. fault' = "none"
  <2>1. ~(state[t] = "RUNNING" /\ t \in portWait)
    BY <1>a, <1>2 DEF TypeOK
  <2>2. ~(state[t] = "ZOMBIE" /\ next = t)
    BY <1>a, <1>5 DEF IdleSound
  <2> QED BY <1>1, <2>1, <2>2 DEF ScheduleFault
<1>12. CloseSound'
  <2>1. pc'[current'] \notin OpenPoint
    <3>1. \A u \in Task : pc[u] \notin OpenPoint
      BY <1>1 DEF SchedInv, TypeInv, WakeSound, OpenPoint, WakePoint
    <3>2. PointOffCpu(pc[t]) \notin OpenPoint /\ "idle" \notin OpenPoint
      BY <1>1 DEF PointOffCpu, OpenPoint, WakePoint
    <3>3. pc[Idle] = "idle"
      BY <1>a DEF IdleSound
    <3> QED BY <1>1, <1>5, <1>7, <3>1, <3>2, <3>3 DEF AllTask
  <2> QED BY <2>1 DEF CloseSound, InClose, OpenPoint
<1> QED BY <1>6, <1>9, <1>10, <1>11, <1>12 DEF CpuInv, FaultSound

(* Every step keeps CpuInv. *)
LEMMA CpuStep ==
  QuietConnect /\ QuietClose /\ PoliteClose /\ SchedInv /\ CpuInv /\ [Next]_vars
    => CpuInv'
<1> SUFFICES ASSUME QuietConnect, QuietClose, PoliteClose, SchedInv, CpuInv, [Next]_vars
             PROVE  CpuInv'
  OBVIOUS
<1> USE SchedAssumption DEF ipcVars, wakeVars
<1>a. /\ Task \subseteq AllTask /\ TypeOK /\ WakeSound /\ CurrentSound /\ IdleSound
      /\ WaitersSound /\ LinkSound /\ RunqSound
  BY DEF AllTask, SchedInv, TypeInv
<1>p. ASSUME NEW c \in Task, runq' = <<c>> \o runq PROVE IdleLast'
  <2>1. <<c>> \in Seq(AllTask) /\ Idle \notin Range(<<c>>)
    BY <1>a DEF Range
  <2>2. AtEnd(<<c>> \o runq, Idle)
    BY <1>a, <2>1, ConcatAtEnd DEF CpuInv, IdleLast, TypeOK
  <2> QED BY <1>p, <2>2 DEF IdleLast
<1>f. ASSUME NEW k, fault' \in Outcomes(k), stale' = stale PROVE FaultSound'
  BY <1>f DEF Outcomes, FaultSound
<1>s. UNCHANGED <<portOwner, stale>> => PortOpen' = PortOpen
  BY DEF PortOpen
<1>u. CASE UNCHANGED vars
  BY <1>u DEF vars, CpuInv, CpuSound, PortWaitSound, PortOpen, CloseSound, InClose,
              InConnect, IdleLast, FaultSound
<1>1. CASE Interrupt
  <2>1. {t \in intreq : "int" \in waited[t]} \in SUBSET Task
    BY <1>a DEF TypeOK
  <2>2. FaultSound'
    BY <1>1, <1>f DEF Interrupt
  <2>3. pc[current] \notin OpenPoint
    BY <1>1 DEF Interrupt, InterruptsEnabled, InClose, OpenPoint
  <2> QED BY <1>1, <2>1, <2>2, <2>3, WakeUpCpu DEF Interrupt
<1>2. ASSUME NEW t \in AllTask, Schedule(t) PROVE CpuInv'
  BY <1>2, ScheduleCpu
<1>3. ASSUME NEW t \in Task, NEW W \in SUBSET Event, WaitOn(t, W) PROVE CpuInv'
  <2>1. /\ UNCHANGED <<runq, current, portOwner, portWait, stale, fault>> /\ current = t
        /\ \/ pc'[t] = "user" /\ state'[t] = "RUNNING"
           \/ pc'[t] = "blocking" /\ state'[t] = "WAITING"
        /\ \A u \in Task \ {t} : state'[u] = state[u] /\ pc'[u] = pc[u]
    BY <1>3, <1>a DEF WaitOn, TypeOK
  <2>2. CloseSound'
    BY <2>1 DEF CloseSound, InClose, WakePoint
  <2> QED BY <1>s, <2>1, <2>2 DEF CpuInv, CpuSound, PortWaitSound, IdleLast, FaultSound
<1>4. ASSUME NEW t \in Task, WaitOnPort(t) PROVE CpuInv'
  <2>1. /\ UNCHANGED <<runq, current, portOwner, stale, fault>> /\ current = t
        /\ portWait \subseteq portWait'
        /\ \/ pc'[t] = "user" /\ PortOpen
           \/ /\ pc'[t] = "pblocking" /\ state'[t] = "WAITING"
              /\ ~PortOpen /\ t \in portWait'
           \/ pc[t] = "presched" /\ ~PortOpen
        /\ \A u \in Task \ {t} : state'[u] = state[u] /\ pc'[u] = pc[u]
    BY <1>4, <1>a DEF WaitOnPort, InUser, TypeOK
  <2>2. ~(pc[t] = "presched" /\ ~PortOpen)
    BY <1>a, <2>1 DEF CurrentSound, CpuInv, PortWaitSound
  <2>3. CloseSound'
    BY <2>1, <2>2 DEF CloseSound, InClose, WakePoint
  <2> QED BY <1>s, <2>1, <2>2, <2>3 DEF CpuInv, CpuSound, PortWaitSound, IdleLast,
                                        FaultSound
<1>5. ASSUME NEW t \in Task, OpenPort(t) PROVE CpuInv'
  <2>1. /\ UNCHANGED <<current, pc, stale, fault>> /\ ~PortOpen /\ portOwner' = t
        /\ WakeUp(portWait) /\ t # Null /\ current = t /\ pc[t] = "user"
    BY <1>5 DEF OpenPort, InUser
  <2>2. \A u \in AllTask : state'[u] = IF u \in Sleepers(portWait) THEN "RUNNABLE"
                                       ELSE state[u]
    BY <2>1 DEF WakeUp
  <2>3. \A u \in Task : pc[u] \in {"pblocking", "presched"} /\ state[u] = "WAITING"
                          => u \in Sleepers(portWait)
    BY <2>1 DEF CpuInv, PortWaitSound, Sleepers
  <2>4. Sleepers(portWait) \in SUBSET Task
        /\ \A u \in Sleepers(portWait) : state[u] = "WAITING"
    BY <1>a DEF Sleepers, TypeOK
  <2>p. PortOpen'
    BY <2>1 DEF PortOpen
  <2>5. CpuSound' /\ PortWaitSound'
    BY <1>a, <2>1, <2>2, <2>3, <2>4, <2>p DEF CpuInv, CpuSound, PortWaitSound
  <2>c. CloseSound'
    BY <2>1 DEF CloseSound, InClose, WakePoint
  <2>6. IdleLast'
    <3>1. PICK s \in Orders(Sleepers(portWait)) : runq' = s \o runq
      BY <2>1 DEF WakeUp
    <3>2. s \in Seq(AllTask) /\ Range(s) = Sleepers(portWait)
      BY <2>4, OrdersType
    <3>3. Idle \notin Range(s)
      BY <2>4, <3>2
    <3>4. AtEnd(s \o runq, Idle)
      BY <1>a, <3>2, <3>3, ConcatAtEnd DEF CpuInv, IdleLast, TypeOK
    <3> QED BY <3>1, <3>4 DEF IdleLast
  <2> QED BY <2>1, <2>5, <2>c, <2>6 DEF CpuInv, FaultSound
<1>6. ASSUME NEW t \in Task, NEW C \in SUBSET Task, NEW D \in SUBSET Task,
             ClosePort(t, C, D)
      PROVE  CpuInv'
  <2> DEFINE W == {c \in C : "ipc" \in waited[c]}
  <2>1. /\ UNCHANGED <<current, portWait, stale>> /\ WakeUp(W)
        /\ portOwner = t /\ ~PortWaiterOnItsWay
        /\ current = t /\ pc[t] = "user" /\ W \in SUBSET Task
        /\ pc' = pc \/ pc' = [pc EXCEPT ![t] = "closing"]
    BY <1>6 DEF ClosePort, InUser
  <2>f. FaultSound'
    BY <1>6, <1>f, <2>1 DEF ClosePort
  <2>2. \A u \in AllTask : state'[u] = IF u \in Sleepers(W) THEN "RUNNABLE" ELSE state[u]
    BY <2>1 DEF WakeUp
  <2>3. \A u \in Sleepers(W) : u \in Task /\ state[u] = "WAITING"
                               /\ pc[u] \in {"blocking", "resched"}
    BY <1>a DEF Sleepers, WaitersSound
  <2>p. PortOpen
    BY <2>1 DEF PortOpen
  <2>4. ASSUME NEW u \in Task PROVE pc[u] \notin {"pblocking", "presched"}
    <3>1. pc[u] \in {"pblocking", "presched"} => state[u] \notin {"RUNNABLE", "WAITING"}
      BY <2>1, <2>p DEF PortWaiterOnItsWay, CpuInv, PortWaitSound
    <3>2. pc[u] \in {"pblocking", "presched"} => state[u] \notin {"FREE", "ZOMBIE"}
      BY <1>a DEF WaitersSound
    <3>3. state[u] = "RUNNING" => pc[u] = "user"
      BY <2>1 DEF CpuInv, CpuSound
    <3>4. state[u] \in TaskState
      BY <1>a DEF TypeOK
    <3> QED BY <3>1, <3>2, <3>3, <3>4 DEF TaskState
  <2>q. \A u \in Task : pc'[u] = IF u = t THEN pc'[t] ELSE pc[u]
    BY <1>a, <2>1 DEF TypeOK
  <2>r. pc'[t] \in {"user", "closing"}
    BY <1>a, <2>1 DEF TypeOK
  <2>5. CpuSound'
    BY <1>a, <2>1, <2>2, <2>3, <2>q, <2>r DEF CpuInv, CpuSound
  <2>s. PortWaitSound' /\ CloseSound'
    BY <2>4, <2>q, <2>r DEF PortWaitSound, CloseSound
  <2>6. IdleLast'
    <3>1. PICK s \in Orders(Sleepers(W)) : runq' = s \o runq
      BY <2>1 DEF WakeUp
    <3>2. s \in Seq(AllTask) /\ Range(s) = Sleepers(W)
      BY <2>3, OrdersType
    <3>3. Idle \notin Range(s)
      BY <2>3, <3>2
    <3>4. AtEnd(s \o runq, Idle)
      BY <1>a, <3>2, <3>3, ConcatAtEnd DEF CpuInv, IdleLast, TypeOK
    <3> QED BY <3>1, <3>4 DEF IdleLast
  <2> QED BY <2>f, <2>5, <2>s, <2>6 DEF CpuInv
<1>7. ASSUME NEW t \in Task, NEW v \in Task, Post(t, v) PROVE CpuInv'
  <2> DEFINE W == IF "ipc" \in waited[v] THEN {v} ELSE {}
  <2>1. /\ UNCHANGED <<current, pc, portOwner, portWait, stale>> /\ WakeUp(W)
        /\ W \in SUBSET Task /\ \A u \in W : waited[u] # {}
        /\ pc[current] \notin OpenPoint
    BY <1>7 DEF Post, InUser, OpenPoint, WakePoint
  <2>2. FaultSound'
    BY <1>7, <1>f DEF Post
  <2> HIDE DEF W
  <2> QED BY <2>1, <2>2, WakeUpCpu
<1>8. ASSUME NEW t \in Task, Consume(t) \/ IntConnect(t) \/ IntClose(t) PROVE CpuInv'
  <2>1. UNCHANGED <<state, runq, current, pc, portOwner, portWait, wakee, stale>>
    BY <1>8 DEF Consume, IntConnect, IntClose
  <2>2. FaultSound'
    BY <1>8, <1>f DEF Consume, IntConnect, IntClose
  <2> QED BY <1>s, <2>1, <2>2 DEF CpuInv, CpuSound, PortWaitSound, CloseSound, InClose,
                                  InConnect, IdleLast
<1>9. ASSUME NEW t \in Task, Connect(t) \/ WakeTest(t) \/ \E c \in Task : CloseTell(t, c)
      PROVE  CpuInv'
  <2>1. /\ UNCHANGED <<state, runq, current, portOwner, portWait, stale>>
        /\ current = t /\ pc[t] \in {"user", "testing", "closing"}
        /\ pc'[t] \in {"user", "testing", "waking", "closing"}
        /\ \A u \in Task \ {t} : pc'[u] = pc[u]
    BY <1>9, <1>a DEF Connect, WakeTest, CloseTell, AfterWakeUp, InUser, TypeOK
  <2>2. FaultSound'
    BY <1>9, <1>f DEF Connect, WakeTest, CloseTell, CpuInv, FaultSound
  <2>3. InClose' => InClose
    <3>1. CASE Connect(t)
      BY <3>1, <1>a DEF Connect, InUser, InClose, InConnect, WakePoint, TypeOK
    <3>2. CASE WakeTest(t)
      BY <3>2, <1>a DEF WakeTest, AfterWakeUp, InClose, InConnect, WakePoint, TypeOK
    <3>3. CASE \E c \in Task : CloseTell(t, c)
      BY <3>3 DEF CloseTell, InClose
    <3> QED BY <1>9, <3>1, <3>2, <3>3
  <2>4. CloseSound'
    BY <2>1, <2>3 DEF CpuInv, CloseSound
  <2> QED BY <1>s, <2>1, <2>2, <2>4 DEF CpuInv, CpuSound, PortWaitSound, IdleLast
<1>10. ASSUME NEW t \in Task, WakeState(t) PROVE CpuInv'
  <2>1. /\ UNCHANGED <<runq, current, portOwner, portWait, wakee, stale, fault>>
        /\ current = t /\ pc'[t] = "linking" /\ pc[t] = "waking"
        /\ \A u \in Task \ {t} : pc'[u] = pc[u]
        /\ portOwner # Null /\ wakee # t
        /\ \A u \in Task : state'[u] = IF u = wakee THEN "RUNNABLE" ELSE state[u]
    BY <1>10, <1>a DEF WakeState, TypeOK, WakeSound, WakePoint, OpenPoint, LinkSound
  <2>2. PortOpen /\ PortOpen'
    BY <2>1 DEF PortOpen
  <2>3. CloseSound'
    BY <2>1 DEF CpuInv, CloseSound, InClose, InConnect, WakePoint
  <2> QED BY <2>1, <2>2, <2>3 DEF CpuInv, CpuSound, PortWaitSound, IdleLast, FaultSound
<1>11. ASSUME NEW t \in Task, WakeLink(t) PROVE CpuInv'
  <2>1. /\ UNCHANGED <<state, current, portOwner, portWait, stale>>
        /\ pc'[t] \in {"user", "closing"} /\ \A u \in Task \ {t} : pc'[u] = pc[u]
        /\ pc'[t] = "closing" => InClose
        /\ current = t /\ pc[t] = "linking"
        /\ runq' = <<wakee>> \o link
        /\ fault' = IF wakee \in Range(link) THEN "list" ELSE "none"
    BY <1>11, <1>a DEF WakeLink, AfterWakeUp, InClose, InConnect, WakePoint, TypeOK
  <2>2. link = runq /\ wakee \notin Range(runq) /\ wakee \in Task
    BY <1>a, <2>1 DEF LinkSound, WakeSound, WakePoint, TypeOK
  <2>3. IdleLast'
    BY <1>p, <2>1, <2>2
  <2>4. CloseSound'
    BY <2>1 DEF CpuInv, CloseSound, InClose, WakePoint
  <2> QED BY <1>s, <2>1, <2>2, <2>3, <2>4 DEF CpuInv, CpuSound, PortWaitSound, FaultSound
<1>12. ASSUME NEW t \in Task, NEW c \in Task, CreateTask(t, c) PROVE CpuInv'
  <2>1. /\ UNCHANGED <<current, portOwner, portWait, stale>>
        /\ runq' = <<c>> \o runq /\ state[c] = "FREE"
        /\ state'[c] = "RUNNABLE" /\ pc'[c] = "user"
        /\ \A u \in Task \ {c} : state'[u] = state[u] /\ pc'[u] = pc[u]
        /\ current = t /\ pc[t] = "user"
    BY <1>12, <1>a DEF CreateTask, InUser, TypeOK
  <2>2. IdleLast'
    BY <1>p, <2>1
  <2>3. FaultSound'
    BY <1>12, <1>f DEF CreateTask, CpuInv, FaultSound
  <2>4. CloseSound'
    BY <2>1 DEF CloseSound, InClose, WakePoint
  <2> QED BY <1>s, <2>1, <2>2, <2>3, <2>4 DEF CpuInv, CpuSound, PortWaitSound
<1>13. ASSUME NEW t \in Task, NEW how \in {"exiting", "dying"}, Die(t, how)
       PROVE  CpuInv'
  <2>1. /\ UNCHANGED <<runq, current, portOwner, portWait, stale, fault>> /\ current = t
        /\ state'[t] = "ZOMBIE" /\ pc'[t] = how
        /\ \A u \in Task \ {t} : state'[u] = state[u] /\ pc'[u] = pc[u]
    BY <1>13, <1>a DEF Die, InUser, TypeOK
  <2>2. CloseSound'
    BY <2>1 DEF CloseSound, InClose, WakePoint
  <2> QED BY <1>s, <2>1, <2>2 DEF CpuInv, CpuSound, PortWaitSound, IdleLast, FaultSound
<1>14. ASSUME NEW t \in Task, CloseEnd(t) PROVE CpuInv'
  <2>1. /\ UNCHANGED <<state, runq, current, portWait, stale, fault>>
        /\ current = t /\ pc[t] = "closing" /\ pc'[t] = "user"
        /\ \A u \in Task \ {t} : pc'[u] = pc[u]
    BY <1>14, <1>a DEF CloseEnd, TypeOK
  <2>2. \A u \in Task : pc'[u] \notin {"pblocking", "presched"}
    BY <2>1 DEF CpuInv, CloseSound, InClose
  <2> QED BY <2>1, <2>2 DEF CpuInv, CpuSound, PortWaitSound, CloseSound, IdleLast, FaultSound
<1> QED
  BY <1>u, <1>1, <1>2, <1>3, <1>4, <1>5, <1>6, <1>7, <1>8, <1>9, <1>10, <1>11, <1>12,
     <1>13, <1>14 DEF Next, Lost, Stimulus, Progress

(* The state in which start_init calls schedule() satisfies it. *)
LEMMA CpuInit == Init => CpuInv
<1> SUFFICES ASSUME Init PROVE CpuInv
  OBVIOUS
<1> USE SchedAssumption DEF Init
<1>1. CpuSound /\ PortWaitSound /\ FaultSound
  BY DEF CpuSound, PortWaitSound, FaultSound, AllTask
<1>3. CloseSound
  BY DEF CloseSound, InClose, WakePoint, AllTask
<1>2. IdleLast
  BY DEF IdleLast, AtEnd
<1> QED BY <1>1, <1>2, <1>3 DEF CpuInv

(***************************************************************************)
(* The kernel's own checks hold: no task is linked into the run queue      *)
(* while it is on another list, no server is linked to itself, and         *)
(* kill_process never meets the current task (sched.c:34, list.h:212-262). *)
(* Freed memory is used only if some task died and left pointers to its    *)
(* descriptors.  PoliteClose is needed: a port waiter that was woken and   *)
(* finds the port closed breaks the first of these (uport.c:59).           *)
(***************************************************************************)
THEOREM ChecksHold ==
  ASSUME QuietConnect, QuietClose, PoliteClose PROVE Spec => []KernelChecks
<1>1. SchedInv /\ CpuInv /\ [Next]_vars => SchedInv' /\ CpuInv'
  BY SchedStep, CpuStep
<1>2. CpuInv => KernelChecks
  BY DEF CpuInv, FaultSound, KernelChecks
<1> QED BY <1>1, <1>2, SchedInit, CpuInit, PTL DEF Spec

(***************************************************************************)
(* Whoever sleeps in wait_on_port is on port_wait_list and there is no     *)
(* port (uport.c:56-72), for any number of waiters and servers.            *)
(***************************************************************************)
THEOREM PortWaitersFound ==
  ASSUME QuietConnect, QuietClose, PoliteClose PROVE Spec => []PortSleepersListed
<1>1. SchedInv /\ CpuInv /\ [Next]_vars => SchedInv' /\ CpuInv'
  BY SchedStep, CpuStep
<1>2. CpuInv => PortSleepersListed
  BY DEF CpuInv, PortWaitSound, PortSleepersListed
<1> QED BY <1>1, <1>2, SchedInit, CpuInit, PTL DEF Spec

(***************************************************************************)
(* The CPU goes to the idle task only when no process is runnable          *)
(* (main.c:139), although the idle task is queued like any other when it   *)
(* calls schedule().                                                       *)
(***************************************************************************)
THEOREM IdleLastResort ==
  ASSUME QuietConnect, QuietClose, PoliteClose PROVE Spec => IdleOnlyWhenNothingRunnable
<1>1. SchedInv /\ CpuInv /\ [Next]_vars => SchedInv' /\ CpuInv'
  BY SchedStep, CpuStep
<1>2. SchedInv /\ CpuInv /\ [Next]_vars =>
        (current' = Idle /\ current # Idle => \A t \in Task : state'[t] # "RUNNABLE")
  <2> SUFFICES ASSUME SchedInv, CpuInv, [Next]_vars, current' = Idle, current # Idle,
                      NEW u \in Task, state'[u] = "RUNNABLE"
               PROVE  FALSE
    OBVIOUS
  <2> USE SchedAssumption
  <2>a. /\ Task \subseteq AllTask /\ Idle \in AllTask /\ TypeOK /\ RunqSound
    BY DEF AllTask, SchedInv, TypeInv
  <2>1. PICK t \in AllTask : Schedule(t)
    <3>1. UNCHANGED current \/ \E t \in AllTask : Schedule(t)
      BY DEF Next, Stimulus, Progress, vars, Interrupt, Post, CreateTask, Connect,
             OpenPort, IntConnect, ClosePort, WaitOn, WaitOnPort, Consume, IntClose,
             WakeTest, WakeState, WakeLink, CloseTell, CloseEnd, Lost, Die
    <3> QED BY <3>1
  <2>2. t \in Task /\ current = t
        /\ pc[t] \in {"blocking", "pblocking", "exiting", "dying", "idle"}
    BY <2>1 DEF Schedule, AllTask
  <2>3. state[t] # "RUNNING"
    BY <2>2 DEF CpuInv, CpuSound, SchedInv, IdleSound
  <2>4. /\ runq = <<>> \/ Head(runq) = Idle
        /\ state' = [state EXCEPT ![t] = StateOffCpu(t), ![Idle] = "RUNNING"]
    BY <2>1, <2>3 DEF Schedule, Requeued
  <2>5. state[u] = "RUNNABLE"
    <3>1. StateOffCpu(t) = "RUNNABLE" => state[t] = "RUNNABLE"
      BY <2>3 DEF StateOffCpu
    <3> QED BY <2>a, <2>2, <2>4, <3>1 DEF TypeOK
  <2>6. u \in Range(runq)
    BY <2>2, <2>5, <2>a DEF RunqSound, BeingLinked
  <2>7. PICK i \in DOMAIN runq : runq[i] = u
    BY <2>6 DEF Range
  <2>8. runq # <<>> /\ 1 \in DOMAIN runq /\ runq[1] = Idle /\ DOMAIN runq = 1 .. Len(runq)
    BY <2>4, <2>7, <2>a DEF TypeOK
  <2>9. Len(runq) = 1
    BY <2>8 DEF CpuInv, IdleLast, AtEnd
  <2> QED BY <2>7, <2>8, <2>9
<1> QED BY <1>1, <1>2, SchedInit, CpuInit, PTL DEF Spec, IdleOnlyWhenNothingRunnable
=============================================================================
