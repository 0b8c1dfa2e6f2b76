------------------------------- MODULE Fifo -------------------------------
(***************************************************************************)
(* What MpscQueue (src/include/pipeline.h) promises its two users, without *)
(* the mutex and the condition variable: items leave in the order they     *)
(* entered, each once; after the stop flag is set the consumer is sent     *)
(* home for good, whatever is left inside.                                 *)
(***************************************************************************)
EXTENDS Sequences

CONSTANT Items

VARIABLES
  contents,  \* the items inside, oldest first
  taken,     \* the items handed to the consumer, in order
  closed,    \* the stop flag
  ended      \* pop has returned false

vars == <<contents, taken, closed, ended>>

Init ==
  /\ contents = <<>>
  /\ taken = <<>>
  /\ closed = FALSE
  /\ ended = FALSE

Put(x) ==
  /\ contents' = Append(contents, x)
  /\ UNCHANGED <<taken, closed, ended>>

Take ==
  /\ ~ended
  /\ contents # <<>>
  /\ contents' = Tail(contents)
  /\ taken' = Append(taken, Head(contents))
  /\ UNCHANGED <<closed, ended>>

Close ==
  /\ closed' = TRUE
  /\ UNCHANGED <<contents, taken, ended>>

End ==
  /\ closed
  /\ ended' = TRUE
  /\ UNCHANGED <<contents, taken, closed>>

Next == (\E x \in Items : Put(x)) \/ Take \/ Close \/ End

Spec == Init /\ [][Next]_vars
=============================================================================
