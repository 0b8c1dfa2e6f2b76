----------------------------- MODULE MpscQueue -----------------------------
(***************************************************************************)
(* The queue between two threads of the pipeline (MpscQueue in             *)
(* src/include/pipeline.h) at the grain of its mutex mu_, its condition    *)
(* variable cv_ and the atomic stop flag, with the threads that use it:    *)
(* producers that push, the loop of sendLoop or crdtLoop that pops until   *)
(* pop returns false, and the thread in Pipeline::stop, which stores the   *)
(* flag and then notifies, without mu_.                                    *)
(*                                                                         *)
(* push holds mu_ for one step, so only the consumer's hold on it is       *)
(* visible: it has the mutex between Lock and the end of the wait or of    *)
(* the pop.                                                                *)
(***************************************************************************)
EXTENDS Naturals, Sequences

CONSTANTS
  Producers,  \* the threads that push
  MaxPushes   \* bound: items pushed by each of them

ASSUME PushesAssumption == MaxPushes \in Nat

VARIABLES
  q,          \* q_
  consumer,   \* where the consumer is in pop
  notifying,  \* producers between the unlock and cv_.notify_one of a push
  pushed,     \* how many items each producer has pushed
  stopper,    \* where the thread that stops the pipeline is
  taken       \* history: what pop has returned

vars == <<q, consumer, notifying, pushed, stopper, taken>>

Items == Producers \X (1 .. MaxPushes)

\* stopped_ of the pipeline.
Stop == stopper # "running"

Init ==
  /\ q = <<>>
  /\ consumer = "locking"
  /\ notifying = {}
  /\ pushed = [p \in Producers |-> 0]
  /\ stopper = "running"
  /\ taken = <<>>

-----------------------------------------------------------------------------
(* push.                                                                   *)

\* Mutant of MutexFree: the predicate is tested without the mutex.
MutexFree_TestUnlocked == consumer \in {"locking", "blocked", "returned", "testing", "sleeping"}

MutexFree == consumer \in {"locking", "blocked", "returned"}

Push(p) ==
  /\ MutexFree
  /\ p \notin notifying
  /\ pushed[p] < MaxPushes
  /\ pushed' = [pushed EXCEPT ![p] = @ + 1]
  /\ q' = Append(q, <<p, pushed[p] + 1>>)
  /\ notifying' = notifying \cup {p}
  /\ UNCHANGED <<consumer, stopper, taken>>

\* What a notification does to the consumer: nothing unless it is blocked.
Woken == IF consumer = "blocked" THEN "locking" ELSE consumer

\* Mutant of NotifyOne: the push does not notify.
NotifyOne_Silent(p) ==
  /\ p \in notifying
  /\ notifying' = notifying \ {p}
  /\ UNCHANGED <<q, consumer, pushed, stopper, taken>>

NotifyOne(p) ==
  /\ p \in notifying
  /\ notifying' = notifying \ {p}
  /\ consumer' = Woken
  /\ UNCHANGED <<q, pushed, stopper, taken>>

-----------------------------------------------------------------------------
(* pop, in the loop of its caller.                                         *)

ConsumerStep(from, to) ==
  /\ consumer = from
  /\ consumer' = to
  /\ UNCHANGED <<q, notifying, pushed, stopper, taken>>

\* The first lock of pop and the one cv_.wait takes again after it is woken.
Lock == ConsumerStep("locking", "testing")

\* The predicate of the wait.
Test == ConsumerStep("testing", IF q # <<>> \/ Stop THEN "checking" ELSE "sleeping")

\* cv_.wait gives up the mutex and blocks, in one step.
Block == ConsumerStep("sleeping", "blocked")

\* Mutant of SpuriousWakeup: the wait does not test its predicate again.
SpuriousWakeup_NoRetest == ConsumerStep("blocked", "checking")

\* The condition variable may wake its waiter for no reason.
SpuriousWakeup == ConsumerStep("blocked", "locking")

\* The flag is read again after the wait.
Check == ConsumerStep("checking", IF Stop THEN "returned" ELSE "taking")

\* Mutant of Take: the newest item goes first.
Take_Back ==
  /\ consumer = "taking"
  /\ consumer' = "locking"
  /\ taken' = Append(taken, q[Len(q)])
  /\ q' = SubSeq(q, 1, Len(q) - 1)
  /\ UNCHANGED <<notifying, pushed, stopper>>

\* pop returns true, the loop handles the item and calls pop again.  The
\* front of an empty deque would be undefined: no item.
Take ==
  /\ consumer = "taking"
  /\ consumer' = "locking"
  /\ taken' = Append(taken, IF q = <<>> THEN <<>> ELSE Head(q))
  /\ q' = SubSeq(q, 2, Len(q))
  /\ UNCHANGED <<notifying, pushed, stopper>>

-----------------------------------------------------------------------------
(* Pipeline::stop.                                                         *)

StoreStop ==
  /\ stopper = "running"
  /\ stopper' = "waking"
  /\ UNCHANGED <<q, consumer, notifying, pushed, taken>>

\* Mutant of Wake: only the flag is set.
Wake_Silent ==
  /\ stopper = "waking"
  /\ stopper' = "joining"
  /\ UNCHANGED <<q, consumer, notifying, pushed, taken>>

\* cv_.notify_all; mu_ is not taken.
Wake ==
  /\ stopper = "waking"
  /\ stopper' = "joining"
  /\ consumer' = Woken
  /\ UNCHANGED <<q, notifying, pushed, taken>>

\* The thread is joined once pop has returned false.
Join ==
  /\ stopper = "joining"
  /\ consumer = "returned"
  /\ stopper' = "stopped"
  /\ UNCHANGED <<q, consumer, notifying, pushed, taken>>

-----------------------------------------------------------------------------
ConsumerNext == Lock \/ Test \/ Block \/ Check \/ Take

Next ==
  \/ \E p \in Producers : Push(p) \/ NotifyOne(p)
  \/ ConsumerNext
  \/ SpuriousWakeup
  \/ StoreStop
  \/ Wake
  \/ Join

Spec == Init /\ [][Next]_vars

\* Threads that can run are scheduled.  Nobody has to push or to stop the
\* pipeline, and spurious wakeups cannot be counted on.
FairSpec ==
  /\ Spec
  /\ WF_vars(ConsumerNext)
  /\ \A p \in Producers : WF_vars(NotifyOne(p))
  /\ WF_vars(Wake)
  /\ WF_vars(Join)

-----------------------------------------------------------------------------
TypeOK ==
  /\ q \in Seq(Items)
  /\ consumer \in {"locking", "testing", "sleeping", "blocked", "checking",
                   "taking", "returned"}
  /\ notifying \subseteq Producers
  /\ pushed \in [Producers -> 0 .. MaxPushes]
  /\ stopper \in {"running", "waking", "joining", "stopped"}
  /\ taken \in Seq(Items)

\* No push is missed: when the consumer is blocked although there is an item,
\* a producer is about to notify it (pipeline.h:26-32 and 39).
NoLostPush == consumer = "blocked" /\ q # <<>> => notifying # {}

\* The queue is a FIFO whose consumer is sent home only after the stop flag
\* is set (pipeline.h:17-22).
fifo == INSTANCE Fifo WITH
  contents <- q, closed <- Stop, ended <- consumer = "returned"

ImplementsFifo == fifo!Spec

\* Every item is handed to the consumer, unless the pipeline is stopped.
EveryItemTaken ==
  \A p \in Producers : \A n \in 1 .. MaxPushes :
    pushed[p] >= n ~> (Stop \/ \E i \in DOMAIN taken : taken[i] = <<p, n>>)

\* A consumer that is already blocked when the pipeline is stopped is woken,
\* and the thread joined: what test_pipeline.cpp:39-60 tries, after it has
\* given the consumer 50 ms to block.
StopWakesBlocked == stopper = "waking" /\ consumer = "blocked" ~> stopper = "stopped"

\* include/pipeline.h:20-21 says of pop: "it blocks until an item is
\* available or the *stop flag becomes true, at which point it returns false
\* immediately".  The thread then ends and Pipeline::stop joins it.
StopEndsPop == Stop ~> consumer = "returned"
=============================================================================
