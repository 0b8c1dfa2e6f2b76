-------------------------- MODULE MpscQueueProofs --------------------------
(***************************************************************************)
(* For any number of producers and of items, whatever the schedule: no     *)
(* push is missed by a blocked consumer, and the queue implements Fifo.    *)
(* What the mutex protects is said by PopInv: what the consumer has read   *)
(* of the queue stays true until it gives the mutex up.                    *)
(***************************************************************************)
EXTENDS MpscQueue, TLAPS

\* The consumer sleeps only on an empty queue, takes only from one that has
\* an item, and leaves only after the stop flag is set.
PopInv ==
  /\ consumer = "sleeping" => q = <<>>
  /\ consumer = "checking" => q # <<>> \/ Stop
  /\ consumer = "taking" => q # <<>>
  /\ consumer = "returned" => Stop

IInv == TypeOK /\ PopInv /\ NoLostPush

\* The invariant holds when the pipeline has been built.
LEMMA InitOK == Init => IInv
  BY PushesAssumption DEF Init, IInv, TypeOK, PopInv, NoLostPush, Stop, Items

\* Every step of a producer, the consumer or the stopping thread keeps the
\* invariant.
LEMMA NextOK == IInv /\ [Next]_vars => IInv'
  <1> SUFFICES ASSUME IInv, [Next]_vars PROVE IInv'
    OBVIOUS
  <1> USE DEF IInv, Stop
  <1>1. ASSUME NEW p \in Producers, Push(p) PROVE IInv'
    <2>1. <<p, pushed[p] + 1>> \in Items /\ pushed[p] + 1 \in 0 .. MaxPushes
      BY <1>1, PushesAssumption DEF Push, TypeOK, Items
    <2>2. q' \in Seq(Items) /\ q' # <<>>
      BY <1>1, <2>1 DEF Push, TypeOK
    <2>3. TypeOK'
      BY <1>1, <2>1, <2>2 DEF Push, TypeOK, Items
    <2>4. PopInv'
      BY <1>1, <2>2 DEF Push, MutexFree, PopInv
    <2> QED
      BY <1>1, <2>3, <2>4 DEF Push, NoLostPush
  <1>2. ASSUME NEW p \in Producers, NotifyOne(p) PROVE IInv'
    BY <1>2 DEF NotifyOne, Woken, TypeOK, PopInv, NoLostPush, Items
  <1>3. CASE ConsumerNext
    <2>1. CASE Take
      <3>1. q # <<>> /\ consumer = "taking"
        BY <2>1 DEF Take, PopInv
      <3>2. Head(q) \in Items /\ SubSeq(q, 2, Len(q)) \in Seq(Items)
        BY <3>1 DEF TypeOK
      <3>3. TypeOK'
        BY <2>1, <3>1, <3>2 DEF Take, TypeOK, Items
      <3> QED
        BY <2>1, <3>3 DEF Take, PopInv, NoLostPush
    <2>2. CASE Lock \/ Test
      BY <2>2 DEF Lock, Test, ConsumerStep, TypeOK, PopInv, NoLostPush, Items
    <2>3. CASE Block \/ Check
      BY <2>3 DEF Block, Check, ConsumerStep, TypeOK, PopInv, NoLostPush, Items
    <2> QED
      BY <1>3, <2>1, <2>2, <2>3 DEF ConsumerNext
  <1>4. CASE SpuriousWakeup
    BY <1>4 DEF SpuriousWakeup, ConsumerStep, TypeOK, PopInv, NoLostPush, Items
  <1>5. CASE StoreStop \/ Wake \/ Join
    BY <1>5 DEF StoreStop, Wake, Join, Woken, TypeOK, PopInv, NoLostPush, Items
  <1>6. CASE UNCHANGED vars
    BY <1>6 DEF vars, TypeOK, PopInv, NoLostPush, Items
  <1> QED
    BY <1>1, <1>2, <1>3, <1>4, <1>5, <1>6 DEF Next

\* The inductive invariant, for every number of producers and of items.
THEOREM Invariance == Spec => []IInv
  BY InitOK, NextOK, PTL DEF Spec

\* Every variable of the queue keeps its type; in particular pop never
\* returns something that was not pushed (pipeline.h:42).
THEOREM TypeCorrect == Spec => []TypeOK
  <1>1. IInv => TypeOK
    BY DEF IInv
  <1> QED
    BY Invariance, <1>1, PTL

\* A consumer that is blocked while there is an item is about to be notified
\* (pipeline.h:26-39).
THEOREM PushesNotLost == Spec => []NoLostPush
  <1>1. IInv => NoLostPush
    BY DEF IInv
  <1> QED
    BY Invariance, <1>1, PTL

-----------------------------------------------------------------------------
\* A step of the queue is a step of the FIFO or leaves the FIFO alone.
LEMMA StepSimulates == IInv /\ [Next]_vars => [fifo!Next]_(fifo!vars)
  <1> SUFFICES ASSUME IInv, [Next]_vars PROVE [fifo!Next]_(fifo!vars)
    OBVIOUS
  <1> USE DEF Stop, fifo!vars
  <1>1. ASSUME NEW p \in Producers, Push(p) PROVE fifo!Next
    <2>1. <<p, pushed[p] + 1>> \in Items
      BY <1>1, PushesAssumption DEF Push, IInv, TypeOK, Items
    <2>2. fifo!Put(<<p, pushed[p] + 1>>)
      BY <1>1 DEF Push, fifo!Put
    <2> QED
      BY <2>1, <2>2 DEF fifo!Next
  <1>2. CASE Take
    <2>1. q # <<>> /\ q \in Seq(Items)
      BY <1>2 DEF Take, IInv, PopInv, TypeOK
    <2>2. SubSeq(q, 2, Len(q)) = Tail(q)
      BY <2>1
    <2> QED
      BY <1>2, <2>1, <2>2 DEF Take, fifo!Next, fifo!Take
  <1>3. CASE Check
    BY <1>3 DEF Check, ConsumerStep, fifo!Next, fifo!End
  <1>4. CASE StoreStop
    BY <1>4 DEF StoreStop, fifo!Next, fifo!Close
  <1>5. ASSUME NEW p \in Producers, NotifyOne(p) PROVE UNCHANGED fifo!vars
    BY <1>5 DEF NotifyOne, Woken
  <1>6. CASE Lock \/ Test \/ Block \/ SpuriousWakeup
    BY <1>6 DEF Lock, Test, Block, SpuriousWakeup, ConsumerStep
  <1>7. CASE Wake \/ Join
    BY <1>7 DEF Wake, Join, Woken
  <1>8. CASE UNCHANGED vars
    BY <1>8 DEF vars
  <1> QED
    BY <1>1, <1>2, <1>3, <1>4, <1>5, <1>6, <1>7, <1>8 DEF Next, ConsumerNext

\* The queue, with its mutex, its condition variable and its flag, implements
\* the FIFO its comment describes (pipeline.h:17-22).
THEOREM Refinement == Spec => ImplementsFifo
  <1>1. Init => fifo!Init
    BY DEF Init, fifo!Init, Stop
  <1> QED
    BY Invariance, <1>1, StepSimulates, PTL DEF Spec, ImplementsFifo, fifo!Spec
=============================================================================
