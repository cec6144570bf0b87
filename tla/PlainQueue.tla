----------------------------- MODULE PlainQueue -----------------------------
(***************************************************************************)
(* What queue/queue.h promises a caller: a first-in first-out queue of     *)
(* pointers that keeps its memory in order.                                *)
(***************************************************************************)
EXTENDS Sequences

CONSTANTS
  Data,  \* the pointers callers enqueue
  NULL   \* the null pointer

VARIABLES
  items,   \* the queue, oldest first
  answer,  \* of the last call
  exited,  \* the process ran out of memory
  leaked,  \* memory that is allocated and out of reach
  freed    \* memory that is in reach and not allocated

plainVars == <<items, answer, exited, leaked, freed>>

InOrder == leaked = {} /\ freed = {}

Init == InOrder /\ items = <<>> /\ answer = NULL /\ exited = FALSE

Answer(v, q) == answer' = v /\ items' = q /\ UNCHANGED exited

Enqueue == \E d \in Data : Answer(NULL, Append(items, d))

Dequeue ==
  \/ items = <<>> /\ Answer(NULL, items)
  \/ items # <<>> /\ Answer(Head(items), Tail(items))

Ask ==
  \/ Answer(IF items = <<>> THEN 1 ELSE 0, items)
  \/ Answer(IF items = <<>> THEN NULL ELSE Head(items), items)

Destroy == Answer(NULL, <<>>)

OutOfMemory == exited' = TRUE /\ UNCHANGED <<items, answer>>

Next ==
  /\ ~exited
  /\ Enqueue \/ Dequeue \/ Ask \/ Destroy \/ OutOfMemory
  /\ InOrder'

Spec == Init /\ [][Next]_plainVars
=============================================================================
