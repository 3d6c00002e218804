------------------------------- MODULE Sched -------------------------------
(***************************************************************************)
(* The task scheduler of the SadOS kernel: sys/sched.c, and the places     *)
(* that put a task to sleep or wake it (wait_on in sys/ipc/port.c,         *)
(* wait_on_port / open_port in sys/ipc/uport.c, int_handler in             *)
(* sys/interrupt.c, the fault handlers in sys/gp.c).                       *)
(*                                                                         *)
(* One CPU, no preemption: a task leaves the CPU only where it calls       *)
(* schedule().  The only concurrency is the interrupt handler, which runs  *)
(* between any two instructions executed with interrupts enabled.  A code  *)
(* section bracketed by disable_interrupts()/enable_interrupts() is one    *)
(* action; a section left open to interrupts is several, with pc naming    *)
(* the point reached.                                                      *)
(*                                                                         *)
(* A file descriptor is abstracted to the kind of event it reports: "int"  *)
(* (a device interrupt, sys/services/int.c) or "ipc" (an event of a port,  *)
(* a connection or a cookie, sys/ipc/uport.c).                             *)
(***************************************************************************)
EXTENDS Naturals, Sequences, FiniteSets, Functions

CONSTANTS
  Task,          \* the slots of tasks[] a process can occupy
  Idle,          \* tasks[0], the kernel's idle task
  InitTask,      \* tasks[1], the first process
  Null,          \* the null pointer
  Driver,        \* the slots whose program connects to the interrupt port
  Server,        \* the slots whose program opens the port
  Mortal,        \* the slots whose program may exit or be killed by a fault
  QuietConnect,  \* TRUE: no device interrupt arrives inside port_connect
  QuietClose,    \* TRUE: none arrives inside close() of a port, once that has
                 \* freed the pages of a queued message
  PoliteClose    \* TRUE: a port is not closed under a woken port waiter

ASSUME SchedAssumption ==
  /\ IsFiniteSet(Task)
  /\ InitTask \in Task
  /\ Idle \notin Task
  /\ Null \notin Task \cup {Idle}
  /\ Driver \subseteq Task
  /\ Server \subseteq Task
  /\ Mortal \subseteq Task
  /\ QuietConnect \in BOOLEAN
  /\ QuietClose \in BOOLEAN
  /\ PoliteClose \in BOOLEAN

AllTask == Task \cup {Idle}
Event == {"int", "ipc"}

\* enum task_state, and the empty slot of tasks[].
TaskState == {"FREE", "RUNNABLE", "RUNNING", "WAITING", "ZOMBIE"}

(***************************************************************************)
(* Where a task is.  "user": in user space.  "blocking"/"pblocking": about *)
(* to call schedule() from wait_on/wait_on_port, interrupts enabled.       *)
(* "resched"/"presched": inside that schedule(), or just back from it.     *)
(* "exiting": in exit(), interrupts masked.  "dying": in int_reschedule()  *)
(* after a fault.  "closing": in close() of a port, interrupts enabled     *)
(* (see ClosePort).  "testing", "waking", "linking": in a wake_up made     *)
(* with interrupts enabled, by port_connect or by that close().  "idle":   *)
(* in the idle loop.                                                       *)
(***************************************************************************)
WakePoint == {"testing", "waking", "linking"}
Point == {"user", "blocking", "resched", "pblocking", "presched", "exiting",
          "dying", "closing", "idle"} \cup WakePoint

\* What a dead task may leave pointing into its freed descriptors: requests in
\* int_wait_list, uport[] and port[], and the other ends of its connections.
Leftover == {"int", "port", "conn"}

VARIABLES
  state,      \* task->state
  runq,       \* the run queue, first element at the head of the list
  current,    \* the task on the CPU
  pc,         \* where each task is
  ready,      \* events pending at the descriptors of each task
  waited,     \* events whose descriptors have waited_rw set
  intreq,     \* tasks with a request in int_wait_list
  portOwner,  \* the task that has opened the port, or Null
  portWait,   \* tasks in port_wait_list
  parent,     \* task->parent
  wakee,      \* the task a wake_up with interrupts enabled is for, or Null
  link,       \* the list head read by its unfinished list_add(&runq, ...)
  untold,     \* clients a close() of the port has still to tell
  stale,      \* what dead tasks have left dangling
  fault       \* "none", or why the kernel stopped or is not followed further

\* What the tasks wait for, as opposed to who runs.
ipcVars == <<intreq, portOwner, portWait>>

\* The progress of port_connect and of close(), interrupts enabled.
wakeVars == <<wakee, link, untold>>

vars == <<state, runq, current, pc, ready, waited, ipcVars, parent, wakeVars,
          stale, fault>>

-----------------------------------------------------------------------------
(***************************************************************************)
(* start_init has queued the first process and is about to call            *)
(* schedule() for the first time.  create_idle_task leaves the idle task   *)
(* RUNNABLE and off the queue.                                             *)
(***************************************************************************)
Init ==
  /\ state = [t \in AllTask |-> IF t \in {Idle, InitTask} THEN "RUNNABLE"
                                                           ELSE "FREE"]
  /\ runq = <<InitTask>>
  /\ current = Idle
  /\ pc = [t \in AllTask |-> IF t = Idle THEN "idle" ELSE "user"]
  /\ ready = [t \in Task |-> {}]
  /\ waited = [t \in Task |-> {}]
  /\ intreq = {}
  /\ portOwner = Null
  /\ portWait = {}
  /\ parent = [t \in Task |-> Null]
  /\ wakee = Null
  /\ link = <<>>
  /\ untold = {}
  /\ stale = {}
  /\ fault = "none"

Alive(t) == state[t] \notin {"FREE", "ZOMBIE"}

\* A process that is executing its own instructions and may make a system call.
InUser(t) == t \in Task /\ current = t /\ pc[t] = "user"

\* port[] has an entry, which outlives a server that dies without closing it.
PortOpen == portOwner # Null \/ "port" \in stale

(***************************************************************************)
(* The outcomes of code that follows what a dead task may have left: the   *)
(* freed memory is as it was, or it is not ("freed") and nothing more is   *)
(* known of the kernel.                                                    *)
(***************************************************************************)
Outcomes(kind) == IF kind \in stale THEN {"none", "freed"} ELSE {"none"}

-----------------------------------------------------------------------------
(***************************************************************************)
(* wake_up() of every member of W, in the order of the list that holds     *)
(* them (that order is left open).  wake_up() ignores a task that is not   *)
(* WAITING and links the others at the head of the run queue.              *)
(***************************************************************************)
Orders(W) ==
  { s \in [1..Cardinality(W) -> W] : IsInjective(s) /\ Range(s) = W }

\* Mutants: the state is not tested; only tasks that have left the CPU count.
AllSleep(W) == W
SleepersOffCpu(W) ==
  { t \in W : state[t] = "WAITING" /\ pc[t] \in {"resched", "presched"} }

Sleepers(W) == { t \in W : state[t] = "WAITING" }

\* Mutant: the woken tasks are not put on the run queue.
WakeUpUnqueued(W) ==
  /\ state' = [t \in AllTask |-> IF t \in Sleepers(W) THEN "RUNNABLE"
                                                      ELSE state[t]]
  /\ UNCHANGED runq

WakeUp(W) ==
  /\ \E s \in Orders(Sleepers(W)) : runq' = s \o runq
  /\ state' = [t \in AllTask |-> IF t \in Sleepers(W) THEN "RUNNABLE"
                                                      ELSE state[t]]

(***************************************************************************)
(* int_handler: every request on the vector's list is marked, and its      *)
(* owner woken if it waits for it.  Interrupts are masked in exit() only:  *)
(* every other point of pc is reached after an sti.  port_connect wakes    *)
(* the owner of the port, close() of the port everybody else.              *)
(***************************************************************************)
InConnect == pc[current] \in WakePoint /\ wakee = portOwner
InClose == pc[current] = "closing" \/ (pc[current] \in WakePoint /\ ~InConnect)

InterruptsEnabled ==
  /\ pc[current] # "exiting"
  /\ QuietConnect => ~InConnect
  /\ QuietClose => ~InClose

Interrupt ==
  /\ InterruptsEnabled
  /\ intreq # {} \/ "int" \in stale
  /\ ready' = [t \in Task |-> IF t \in intreq THEN ready[t] \cup {"int"}
                                              ELSE ready[t]]
  /\ WakeUp({t \in intreq : "int" \in waited[t]})
  /\ fault' \in Outcomes("int")
  /\ UNCHANGED <<current, pc, waited, ipcVars, parent, wakeVars, stale>>

-----------------------------------------------------------------------------
(***************************************************************************)
(* schedule(), up to and including after_switch() on the other side of     *)
(* switch_to(): interrupts are disabled throughout.  A RUNNING caller goes *)
(* to the tail of the queue; the head of the queue, or the idle task,      *)
(* runs next; a ZOMBIE caller is killed on the new task's stack.           *)
(***************************************************************************)
Requeued(t) == IF state[t] = "RUNNING" THEN Append(runq, t) ELSE runq

(***************************************************************************)
(* kill_process destroys the pool of the descriptors without dropping      *)
(* them, and orphans the children (StateOffCpu: the slot is freed if       *)
(* nobody is the parent).  What is registered under a descriptor stays     *)
(* where it is, in freed memory: Leftovers.  Whether the task had          *)
(* connections is left open.                                               *)
(***************************************************************************)
Leftovers(t) ==
  { k \in Leftover : CASE k = "int" -> t \in intreq
                       [] k = "port" -> t = portOwner
                       [] k = "conn" -> TRUE }

DropNothing(t) ==
  /\ ready' = [ready EXCEPT ![t] = {}]
  /\ intreq' = intreq \ {t}
  /\ portOwner' = IF portOwner = t THEN Null ELSE portOwner
  /\ stale' \in {stale \cup Leftovers(t), stale \cup (Leftovers(t) \ {"conn"})}

\* Mutants: the children keep the dead parent, or are given to the idle task.
KillProcessOnly(t) == DropNothing(t) /\ UNCHANGED parent

KillProcessReparent(t) ==
  /\ DropNothing(t)
  /\ parent' = [c \in Task |-> IF parent[c] = t THEN Idle ELSE parent[c]]

KillProcess(t) ==
  /\ DropNothing(t)
  /\ parent' = [c \in Task |-> IF parent[c] = t THEN Null ELSE parent[c]]

StateOffCpu(t) ==
  CASE state[t] = "RUNNING" -> "RUNNABLE"
    [] state[t] = "ZOMBIE" -> IF parent[t] = Null THEN "FREE" ELSE "ZOMBIE"
    [] OTHER -> state[t]

\* The same list_node on the run queue and on port_wait_list; the panic of
\* kill_process.
ScheduleFault(t, next) ==
  IF state[t] = "RUNNING" /\ t \in portWait THEN "list"
  ELSE IF state[t] = "ZOMBIE" /\ next = t THEN "kill_current"
  ELSE "none"

PointOffCpu(p) == CASE p = "blocking" -> "resched"
                    [] p = "pblocking" -> "presched"
                    [] p \in {"exiting", "dying"} -> "user"
                    [] OTHER -> p

Schedule(t) ==
  LET q == Requeued(t)
      next == IF q = <<>> THEN Idle ELSE Head(q)
  IN /\ current = t
     /\ pc[t] \in {"blocking", "pblocking", "exiting", "dying", "idle"}
     /\ runq' = IF q = <<>> THEN q ELSE Tail(q)
     /\ current' = next
     /\ state' = [state EXCEPT ![t] = StateOffCpu(t), ![next] = "RUNNING"]
     /\ IF state[t] = "ZOMBIE" THEN KillProcess(t)
        ELSE UNCHANGED <<ready, parent, intreq, portOwner, stale>>
     /\ pc' = [pc EXCEPT ![t] = PointOffCpu(@)]
     /\ fault' = ScheduleFault(t, next)
     /\ UNCHANGED <<waited, portWait, wakeVars>>

-----------------------------------------------------------------------------
(***************************************************************************)
(* wait_on: mark the descriptors and look at them, with interrupts         *)
(* disabled; return if one is ready, else become WAITING, enable           *)
(* interrupts and call schedule(); when that returns look again.  Looking  *)
(* at an interrupt's descriptor clears its mark.                           *)
(***************************************************************************)
WaitOn(t, W) ==
  /\ current = t
  /\ \/ InUser(t) /\ ("int" \in W => t \in intreq)
     \/ pc[t] = "resched" /\ W = waited[t]
  /\ \/ /\ ready[t] \cap W # {}
        /\ state' = [state EXCEPT ![t] = "RUNNING"]
        /\ ready' = [ready EXCEPT ![t] = IF "int" \in W THEN @ \ {"int"} ELSE @]
        /\ waited' = [waited EXCEPT ![t] = {}]
        /\ pc' = [pc EXCEPT ![t] = "user"]
     \/ /\ ready[t] \cap W = {}
        /\ state' = [state EXCEPT ![t] = "WAITING"]
        /\ waited' = [waited EXCEPT ![t] = W]
        /\ pc' = [pc EXCEPT ![t] = "blocking"]
        /\ UNCHANGED ready
  /\ UNCHANGED <<runq, current, ipcVars, parent, wakeVars, stale, fault>>

\* Mutant: the task stays RUNNING while it is on port_wait_list.
WaitOnPortRunning(t) ==
  /\ current = t
  /\ InUser(t) \/ pc[t] = "presched"
  /\ \/ /\ PortOpen
        /\ pc' = [pc EXCEPT ![t] = "user"]
        /\ UNCHANGED portWait
     \/ /\ ~PortOpen
        /\ pc' = [pc EXCEPT ![t] = "pblocking"]
        /\ portWait' = portWait \cup {t}
  /\ UNCHANGED <<state, runq, current, ready, waited, intreq, portOwner, parent,
                 wakeVars, stale, fault>>

(***************************************************************************)
(* wait_on_port.  The task becomes WAITING before the loop and not again   *)
(* inside it; when the port exists it returns to user space in whatever    *)
(* state it is in.                                                         *)
(***************************************************************************)
WaitOnPort(t) ==
  /\ current = t
  /\ InUser(t) \/ pc[t] = "presched"
  /\ state' = IF pc[t] = "user" THEN [state EXCEPT ![t] = "WAITING"] ELSE state
  /\ \/ /\ PortOpen
        /\ pc' = [pc EXCEPT ![t] = "user"]
        /\ UNCHANGED portWait
     \/ /\ ~PortOpen
        /\ pc' = [pc EXCEPT ![t] = "pblocking"]
        /\ portWait' = portWait \cup {t}
  /\ UNCHANGED <<runq, current, ready, waited, intreq, portOwner, parent,
                 wakeVars, stale, fault>>

\* Mutant: nobody is woken.
OpenPortSilently(t) ==
  /\ InUser(t)
  /\ t \in Server
  /\ ~PortOpen
  /\ portOwner' = t
  /\ UNCHANGED <<state, runq, current, pc, ready, waited, intreq, portWait,
                 parent, wakeVars, stale, fault>>

\* open_port: register the port and wake everybody who waits for it.
OpenPort(t) ==
  /\ InUser(t)
  /\ t \in Server
  /\ ~PortOpen
  /\ portOwner' = t
  /\ WakeUp(portWait)
  /\ portWait' = {}
  /\ UNCHANGED <<current, pc, ready, waited, intreq, parent, wakeVars, stale,
                 fault>>

(***************************************************************************)
(* request, pop_request, respond and close of a connection or a cookie     *)
(* make an event of another task u ready and wake u if it waits for it,    *)
(* with interrupts disabled.                                               *)
(***************************************************************************)
Post(t, u) ==
  /\ InUser(t)
  /\ u # t /\ Alive(u)
  /\ ready' = [ready EXCEPT ![u] = @ \cup {"ipc"}]
  /\ WakeUp(IF "ipc" \in waited[u] THEN {u} ELSE {})
  /\ fault' \in Outcomes("conn")
  /\ UNCHANGED <<current, pc, waited, ipcVars, parent, wakeVars, stale>>

\* pop_request and get_response take the task's own event off its descriptor.
Consume(t) ==
  /\ InUser(t)
  /\ "ipc" \in ready[t]
  /\ ready' = [ready EXCEPT ![t] = @ \ {"ipc"}]
  /\ fault' \in Outcomes("conn")
  /\ UNCHANGED <<state, runq, current, pc, waited, ipcVars, parent, wakeVars,
                 stale>>

-----------------------------------------------------------------------------
(***************************************************************************)
(* port_connect enables interrupts before it calls uport_connect, which    *)
(* queues the message, tests the server and wakes it.  An interrupt may    *)
(* fall between any two of these; in particular inside the list_add of     *)
(* wake_up, between its read of the list head and its write.               *)
(***************************************************************************)
Connect(t) ==
  /\ InUser(t)
  /\ \/ /\ portOwner # Null
        /\ ready' = [ready EXCEPT ![portOwner] = @ \cup {"ipc"}]
        /\ wakee' = portOwner
        /\ pc' = [pc EXCEPT ![t] = "testing"]
     \/ /\ "port" \in stale
        /\ UNCHANGED <<ready, wakee, pc>>
  /\ fault' \in Outcomes("port")
  /\ UNCHANGED <<state, runq, current, waited, ipcVars, parent, link, untold, stale>>

\* Whoever makes the wake-up goes on where it was called.
AfterWakeUp == IF wakee = portOwner THEN "user" ELSE "closing"

WakeTest(t) ==
  /\ current = t /\ pc[t] = "testing"
  /\ \/ /\ "ipc" \in waited[wakee] /\ state[wakee] = "WAITING"
        /\ pc' = [pc EXCEPT ![t] = "waking"]
        /\ UNCHANGED wakee
     \/ /\ ~("ipc" \in waited[wakee] /\ state[wakee] = "WAITING")
        /\ pc' = [pc EXCEPT ![t] = AfterWakeUp]
        /\ wakee' = Null
  /\ UNCHANGED <<state, runq, current, ready, waited, ipcVars, parent, link, untold,
                 stale, fault>>

WakeState(t) ==
  /\ current = t /\ pc[t] = "waking"
  /\ state' = [state EXCEPT ![wakee] = "RUNNABLE"]
  /\ link' = runq
  /\ pc' = [pc EXCEPT ![t] = "linking"]
  /\ UNCHANGED <<runq, current, ready, waited, ipcVars, parent, wakee, untold, stale,
                 fault>>

\* The new head is linked to the head read before.  If the task has been
\* queued in the meantime it is linked to itself: the list is a cycle.
WakeLink(t) ==
  /\ current = t /\ pc[t] = "linking"
  /\ runq' = <<wakee>> \o link
  /\ fault' = IF wakee \in Range(link) THEN "list" ELSE "none"
  /\ link' = <<>>
  /\ wakee' = Null
  /\ pc' = [pc EXCEPT ![t] = AfterWakeUp]
  /\ UNCHANGED <<state, current, ready, waited, ipcVars, parent, untold, stale>>

(***************************************************************************)
(* close() of the port (uport_server_close): the clients whose connection  *)
(* is still pending are told and woken, then the port is deregistered.     *)
(* close() does not disable interrupts.  They are masked, as in every      *)
(* system call, until the first message with pages is freed: page_list_free*)
(* ends in an enable_interrupts().  The clients C in front of that message *)
(* are told at once, the clients D from it on with interrupts enabled.     *)
(* (The server itself may be a client of its port, but it is not asleep.)  *)
(***************************************************************************)
PortWaiterOnItsWay ==
  \E t \in Task : state[t] = "RUNNABLE" /\ pc[t] \in {"pblocking", "presched"}

ClosePort(t, C, D) ==
  /\ InUser(t)
  /\ portOwner = t
  /\ PoliteClose => ~PortWaiterOnItsWay
  /\ t \notin D /\ \A c \in C \cup D : Alive(c)
  /\ ready' = [c \in Task |-> IF c \in C THEN ready[c] \cup {"ipc"} ELSE ready[c]]
  /\ WakeUp({c \in C : "ipc" \in waited[c]})
  /\ fault' \in Outcomes("conn")
  /\ \/ /\ D = {}
        /\ portOwner' = Null
        /\ UNCHANGED <<pc, untold>>
     \/ /\ D # {}
        /\ pc' = [pc EXCEPT ![t] = "closing"]
        /\ untold' = D
        /\ UNCHANGED portOwner
  /\ UNCHANGED <<current, waited, intreq, portWait, parent, wakee, link, stale>>

CloseTell(t, c) ==
  /\ current = t /\ pc[t] = "closing"
  /\ c \in untold
  /\ untold' = untold \ {c}
  /\ ready' = [ready EXCEPT ![c] = @ \cup {"ipc"}]
  /\ wakee' = c
  /\ pc' = [pc EXCEPT ![t] = "testing"]
  /\ UNCHANGED <<state, runq, current, waited, ipcVars, parent, link, stale, fault>>

CloseEnd(t) ==
  /\ current = t /\ pc[t] = "closing"
  /\ untold = {}
  /\ portOwner' = Null
  /\ pc' = [pc EXCEPT ![t] = "user"]
  /\ UNCHANGED <<state, runq, current, ready, waited, intreq, portWait, parent,
                 wakeVars, stale, fault>>

-----------------------------------------------------------------------------
\* port_connect to the interrupt port (int_port_connect): the request joins
\* int_wait_list.
IntConnect(t) ==
  /\ InUser(t)
  /\ t \in Driver
  /\ t \notin intreq
  /\ intreq' = intreq \cup {t}
  /\ fault' \in Outcomes("int")
  /\ UNCHANGED <<state, runq, current, pc, ready, waited, portOwner, portWait,
                 parent, wakeVars, stale>>

\* close() of that request (int_port_drop).
IntClose(t) ==
  /\ InUser(t)
  /\ t \in intreq
  /\ intreq' = intreq \ {t}
  /\ ready' = [ready EXCEPT ![t] = @ \ {"int"}]
  /\ fault' \in Outcomes("int")
  /\ UNCHANGED <<state, runq, current, pc, waited, portOwner, portWait, parent,
                 wakeVars, stale>>

(***************************************************************************)
(* create_task without CT_SELF: the child takes a free slot, gets a copy   *)
(* of the descriptors that have a dup operation, and goes to the head of   *)
(* the run queue.                                                          *)
(***************************************************************************)
CreateTask(t, c) ==
  /\ InUser(t)
  /\ state[c] = "FREE"
  /\ state' = [state EXCEPT ![c] = "RUNNABLE"]
  /\ runq' = <<c>> \o runq
  /\ parent' = [parent EXCEPT ![c] = t]
  /\ pc' = [pc EXCEPT ![c] = "user"]
  /\ ready' = [ready EXCEPT ![c] = {}]
  /\ waited' = [waited EXCEPT ![c] = {}]
  /\ \/ /\ t \in intreq
        /\ intreq' = intreq \cup {c}
        /\ fault' \in Outcomes("int")
     \/ t \notin intreq /\ UNCHANGED <<intreq, fault>>
  /\ UNCHANGED <<current, portOwner, portWait, wakeVars, stale>>

\* exit(), or a fault in user space: kill_current, then schedule().
Die(t, how) ==
  /\ InUser(t)
  /\ t \in Mortal
  /\ how \in {"exiting", "dying"}
  /\ state' = [state EXCEPT ![t] = "ZOMBIE"]
  /\ pc' = [pc EXCEPT ![t] = how]
  /\ UNCHANGED <<runq, current, ready, waited, ipcVars, parent, wakeVars, stale, fault>>

-----------------------------------------------------------------------------
\* Steps that create work for somebody.
Stimulus ==
  \/ Interrupt
  \/ \E t, u \in Task : Post(t, u) \/ CreateTask(t, u)
  \/ \E t \in Task : Connect(t) \/ OpenPort(t) \/ IntConnect(t)
  \/ \E t \in Task, C, D \in SUBSET Task : ClosePort(t, C, D)

\* Steps in which a task goes on with its work, or waits.
Progress ==
  \/ \E t \in AllTask : Schedule(t)
  \/ \E t \in Task, W \in SUBSET Event : WaitOn(t, W)
  \/ \E t \in Task : WaitOnPort(t) \/ Consume(t) \/ IntClose(t)
  \/ \E t \in Task : WakeTest(t) \/ WakeState(t) \/ WakeLink(t)
  \/ \E t, c \in Task : CloseTell(t, c)
  \/ \E t \in Task : CloseEnd(t)
  \/ \E t \in Task, how \in {"exiting", "dying"} : Die(t, how)

\* After a use of freed memory the kernel is not followed.
Lost == fault = "freed" /\ UNCHANGED vars

Next == (fault = "none" /\ (Stimulus \/ Progress)) \/ Lost

Spec == Init /\ [][Next]_vars

-----------------------------------------------------------------------------
TypeOK ==
  /\ state \in [AllTask -> TaskState]
  /\ runq \in Seq(AllTask)
  /\ current \in AllTask
  /\ pc \in [AllTask -> Point]
  /\ ready \in [Task -> SUBSET Event]
  /\ waited \in [Task -> SUBSET Event]
  /\ intreq \in SUBSET Task
  /\ portOwner \in Task \cup {Null}
  /\ portWait \in SUBSET Task
  /\ parent \in [Task -> Task \cup {Null}]
  /\ wakee \in Task \cup {Null}
  /\ link \in Seq(AllTask)
  /\ untold \in SUBSET Task
  /\ stale \in SUBSET Leftover
  /\ fault \in {"none", "list", "kill_current", "freed"}

\* The task an unfinished list_add of port_connect or close() is linking.
BeingLinked(t) == pc[current] = "linking" /\ t = wakee

(***************************************************************************)
(* The run queue (sched.c:70-106, 181-186) holds each RUNNABLE process     *)
(* exactly once and nothing else; only the idle task may be RUNNABLE and   *)
(* off the queue.                                                          *)
(***************************************************************************)
RunqSound ==
  /\ IsInjective(runq)
  /\ \A t \in Range(runq) : state[t] = "RUNNABLE"
  /\ \A t \in Task : state[t] = "RUNNABLE" /\ ~BeingLinked(t) => t \in Range(runq)

(***************************************************************************)
(* No wake-up is lost in wait_on (port.c:209-297), although interrupts are *)
(* enabled between the test of the descriptors and schedule(): a task that *)
(* sleeps in wait_on has none of its events ready, except while            *)
(* uport_connect or close() of a port is on its way to wake it.            *)
(***************************************************************************)
BeingWoken(t) == pc[current] \in {"testing", "waking"} /\ t = wakee

NoLostWakeup ==
  \A t \in Task :
    state[t] = "WAITING" /\ ~BeingWoken(t) => ready[t] \cap waited[t] = {}

(***************************************************************************)
(* A task asleep in wait_on_port (uport.c:56-72) is on port_wait_list and  *)
(* the port does not exist: the next open_port finds it.                   *)
(***************************************************************************)
PortSleepersListed ==
  \A t \in Task :
    state[t] = "WAITING" /\ pc[t] \in {"pblocking", "presched"}
      => t \in portWait /\ ~PortOpen

(***************************************************************************)
(* A task that kill_process (sched.c:33-51) has freed or reduced to a      *)
(* zombie is on neither of the lists that hold tasks and is nobody's       *)
(* parent (getppid follows it), in whatever state it died and whatever it  *)
(* held: what it leaves behind are pointers to its descriptors (stale),    *)
(* never to the task itself through a list of the scheduler.               *)
(***************************************************************************)
DeadUnreferenced ==
  \A t \in Task :
    state[t] = "FREE" \/ (state[t] = "ZOMBIE" /\ t # current) =>
      /\ t \notin Range(runq) \cup Range(link) \cup portWait
      /\ \A c \in Task : parent[c] # t

(***************************************************************************)
(* The kernel's own checks hold: lists are consistent (the list_debug      *)
(* calls of list.h:212-262) and kill_process never meets the current task  *)
(* (sched.c:34).  Freed memory is used only after a task has died holding  *)
(* descriptors that others can reach.                                      *)
(***************************************************************************)
KernelChecks == fault = "none" \/ (fault = "freed" /\ stale # {})

(***************************************************************************)
(* "Schedule returns here when there's no runnable task" (main.c:139): the *)
(* CPU goes to the idle task only when no process could use it.            *)
(***************************************************************************)
IdleOnlyWhenNothingRunnable ==
  [][current' = Idle /\ current # Idle =>
       \A t \in Task : state'[t] # "RUNNABLE"]_vars
=============================================================================
