-------------------------------- MODULE Fifo --------------------------------
(***************************************************************************)
(* What queue/aqueue.h promises its callers: a linearizable first-in       *)
(* first-out queue of pointers.  A call is invoked, takes effect at one    *)
(* instant between its invocation and its return, and then returns the     *)
(* answer it got at that instant.  Nothing here knows of nodes, of the     *)
(* mutex or of the heap; AtomicQueue is shown to implement this module.    *)
(***************************************************************************)
EXTENDS Sequences

CONSTANTS
  Threads,  \* the threads of the process
  Data,     \* the pointers callers enqueue (NULL may be one of them)
  NULL      \* the null pointer: "no element", and the answer of void calls

VARIABLES
  items,    \* the queue
  op,       \* op[t]: the call thread t is in, "none" outside of any call
  val,      \* val[t]: the argument of AQ_Enqueue, later the answer of the call
  done      \* the threads whose call has taken effect and not yet returned

fifoVars == <<items, op, val, done>>

Calls == {"AQ_Enqueue", "AQ_Dequeue", "AQ_Empty", "AQ_Peek", "AQ_Destroy"}

Init ==
  /\ items = <<>>
  /\ op   = [t \in Threads |-> "none"]
  /\ val  = [t \in Threads |-> NULL]
  /\ done = {}

Invoke(t) ==
  /\ op[t] = "none"
  /\ \E c \in Calls :
       /\ op' = [op EXCEPT ![t] = c]
       /\ IF c = "AQ_Enqueue"
            THEN \E d \in Data : val' = [val EXCEPT ![t] = d]
            ELSE UNCHANGED val
  /\ UNCHANGED <<items, done>>

\* The call of t takes effect: it answers v and leaves the queue as q.
Effect(t, c, v, q) ==
  /\ op[t] = c
  /\ t \notin done
  /\ items' = q
  /\ val'   = [val EXCEPT ![t] = v]
  /\ done'  = done \cup {t}
  /\ UNCHANGED op

Enqueue(t) == Effect(t, "AQ_Enqueue", val[t], Append(items, val[t]))

Dequeue(t) ==
  \/ items = <<>> /\ Effect(t, "AQ_Dequeue", NULL, items)
  \/ items # <<>> /\ Effect(t, "AQ_Dequeue", Head(items), Tail(items))

Empty(t) == Effect(t, "AQ_Empty", IF items = <<>> THEN 1 ELSE 0, items)

Peek(t) ==
  \/ items = <<>> /\ Effect(t, "AQ_Peek", NULL, items)
  \/ items # <<>> /\ Effect(t, "AQ_Peek", Head(items), items)

\* AQ_Destroy discards what is left, oldest first, then takes effect.
Discard(t) ==
  /\ op[t] = "AQ_Destroy"
  /\ t \notin done
  /\ items # <<>>
  /\ items' = Tail(items)
  /\ UNCHANGED <<op, val, done>>

Destroy(t) == items = <<>> /\ Effect(t, "AQ_Destroy", NULL, items)

Return(t) ==
  /\ op[t] # "none"
  /\ t \in done
  /\ op'   = [op EXCEPT ![t] = "none"]
  /\ val'  = [val EXCEPT ![t] = NULL]
  /\ done' = done \ {t}
  /\ UNCHANGED items

Next ==
  \E t \in Threads :
    \/ Invoke(t)
    \/ Enqueue(t) \/ Dequeue(t) \/ Empty(t) \/ Peek(t)
    \/ Discard(t) \/ Destroy(t)
    \/ Return(t)

Spec == Init /\ [][Next]_fifoVars
=============================================================================
