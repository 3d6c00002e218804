----------------------------- MODULE SchedLive -----------------------------
(***************************************************************************)
(* Liveness of the scheduler.  A woken task goes to the HEAD of the run    *)
(* queue (sched.c:184), so two tasks that keep waking each other starve    *)
(* everyone behind them: nothing can be promised under unbounded load.     *)
(* Here the load is finite (MaxWork stimuli) and every task gives the CPU  *)
(* up in the end; then whatever has been woken must run.                   *)
(***************************************************************************)
EXTENDS Sched

CONSTANT MaxWork   \* bound on the stimuli of one behaviour

ASSUME MaxWorkAssumption == MaxWork \in Nat

VARIABLE work      \* stimuli so far

liveVars == <<vars, work>>

LiveInit == Init /\ work = 0

LiveNext ==
  \/ fault = "none" /\ Stimulus /\ work < MaxWork /\ work' = work + 1
  \/ fault = "none" /\ Progress /\ UNCHANGED work
  \/ Lost /\ UNCHANGED work

(***************************************************************************)
(* Inside the kernel a task goes on by itself.  The idle loop is resumed   *)
(* from hlt by the periodic timer interrupt.  The scheduler is             *)
(* cooperative: that a process in user space makes, some day, a wait_on    *)
(* call that puts it to sleep is assumed of the processes.                 *)
(***************************************************************************)
InKernel(t) ==
  \/ Schedule(t) \/ WakeTest(t) \/ WakeState(t) \/ WakeLink(t)
  \/ CloseEnd(t) \/ \E c \in Task : CloseTell(t, c)
  \/ pc[t] = "resched" /\ \E W \in SUBSET Event : WaitOn(t, W)
  \/ pc[t] = "presched" /\ WaitOnPort(t)

GivesUpCpu(t) == \E W \in SUBSET Event : WaitOn(t, W) /\ pc'[t] = "blocking"

Goes(A) == fault = "none" /\ A /\ UNCHANGED work

Fairness ==
  /\ WF_liveVars(Goes(Schedule(Idle)))
  /\ \A t \in Task : WF_liveVars(Goes(InKernel(t)))
  /\ \A t \in Task : WF_liveVars(Goes(GivesUpCpu(t)))

LiveSpec == LiveInit /\ [][LiveNext]_liveVars /\ Fairness

(***************************************************************************)
(* wait_on returns: a task that sleeps on an event that has happened comes *)
(* back to user space (port.c:242-268 with wake_up, schedule), unless the  *)
(* kernel has used the memory of a task that died holding descriptors.     *)
(***************************************************************************)
WaitOnReturns ==
  \A t \in Task :
    (pc[t] \in {"blocking", "resched"} /\ ready[t] \cap waited[t] # {})
      ~> (pc[t] = "user" \/ fault = "freed")

\* wait_on_port returns once the port has been opened and stays open
\* (uport.c:56-109), with the same exception.
WaitOnPortReturns ==
  \A t \in Task :
    (pc[t] = "presched" /\ PortOpen)
      ~> (pc[t] = "user" \/ ~PortOpen \/ fault = "freed")
=============================================================================
