------------------------------ MODULE SeqQueue ------------------------------
(***************************************************************************)
(* queue/queue.c: the linked queue for callers with a single thread.  Each *)
(* call is one step.  What free has released may be handed out again, and  *)
(* keeps its contents until then.                                          *)
(***************************************************************************)
EXTENDS SequencesExt, Naturals

CONSTANTS
  Node,  \* the addresses malloc can return: bounds the heap
  Data,  \* the pointers callers enqueue (NULL may be one of them)
  NULL   \* the null pointer

ASSUME HeapAssumption == NULL \notin Node /\ IsFiniteSet(Node)

VARIABLES
  front, rear,  \* Queue.front and .rear
  data, next,   \* QNode.data and .next, by address
  allocated,    \* the addresses malloc'ed and not yet freed
  answer,       \* of the last call
  exited        \* Q_Enqueue ran out of memory and called exit

queueVars == <<front, rear, data, next, allocated, answer, exited>>

\* Q_Init on a queue with anything in it.
QueueInit ==
  /\ front = NULL /\ rear = NULL
  /\ data = [n \in Node |-> NULL]
  /\ next = [n \in Node |-> NULL]
  /\ allocated = {}
  /\ answer = NULL
  /\ exited = FALSE

\* Following nx from the node f visits the nodes c and ends at a null pointer.
Linked(f, nx, c) ==
  /\ f = IF c = <<>> THEN NULL ELSE c[1]
  /\ \A k \in 1..Len(c) : nx[c[k]] = IF k = Len(c) THEN NULL ELSE c[k + 1]

\* The nodes from f on: at most one sequence is linked, see OneList.
Path(f, nx) ==
  CHOOSE c \in BoundedSeq(Node, Cardinality(Node)) : Linked(f, nx, c)

\* The nodes in reach of the queue, freed or not.
Chain == Path(front, next)

Q_Enqueue(d, n) ==
  /\ n \notin allocated
  /\ allocated' = allocated \cup {n}
  /\ data' = [data EXCEPT ![n] = d]
  /\ \/ /\ rear = NULL
        /\ front' = n
        /\ next' = [next EXCEPT ![n] = NULL]
     \/ /\ rear # NULL
        /\ next' = [next EXCEPT ![n] = NULL, ![rear] = n]
        /\ UNCHANGED front
  /\ rear' = n
  /\ answer' = NULL
  /\ UNCHANGED exited

\* malloc returns NULL: the library ends the process.
Q_EnqueueFails ==
  /\ exited' = TRUE
  /\ UNCHANGED <<front, rear, data, next, allocated, answer>>

\* Mutant: rear is left pointing to the last node, which is freed.
Q_Dequeue_RearStays ==
  \/ /\ front = NULL
     /\ answer' = NULL
     /\ UNCHANGED <<front, rear, data, next, allocated, exited>>
  \/ /\ front # NULL
     /\ answer' = data[front]
     /\ front' = next[front]
     /\ allocated' = allocated \ {front}
     /\ UNCHANGED <<rear, data, next, exited>>

Q_Dequeue ==
  \/ /\ front = NULL
     /\ answer' = NULL
     /\ UNCHANGED <<front, rear, data, next, allocated, exited>>
  \/ /\ front # NULL
     /\ answer' = data[front]
     /\ front' = next[front]
     /\ rear' = IF next[front] = NULL THEN NULL ELSE rear
     /\ allocated' = allocated \ {front}
     /\ UNCHANGED <<data, next, exited>>

\* Q_Empty and Q_Peek.
Q_Ask ==
  /\ \/ answer' = IF front = NULL THEN 1 ELSE 0
     \/ answer' = IF front = NULL THEN NULL ELSE data[front]
  /\ UNCHANGED <<front, rear, data, next, allocated, exited>>

\* Q_Dequeue until the queue is empty, which it still may be used as.
Q_Destroy ==
  /\ front' = NULL
  /\ rear' = IF front = NULL THEN rear ELSE NULL
  /\ allocated' = allocated \ ToSet(Chain)
  /\ answer' = NULL
  /\ UNCHANGED <<data, next, exited>>

QueueNext ==
  /\ ~exited
  /\ \/ \E d \in Data, n \in Node : Q_Enqueue(d, n)
     \/ Q_EnqueueFails
     \/ Q_Dequeue \/ Q_Ask \/ Q_Destroy

QueueSpec == QueueInit /\ [][QueueNext]_queueVars

-----------------------------------------------------------------------------

\* The caller sees a first-in first-out queue, whatever it has emptied or
\* destroyed before and whichever addresses come back from malloc, and the
\* nodes on the heap are those of the queue: none leaks, none is linked after
\* it was freed.
Plain == INSTANCE PlainQueue WITH
  items <- [k \in DOMAIN Chain |-> data[Chain[k]]],
  leaked <- allocated \ ToSet(Chain),
  freed <- ToSet(Chain) \ allocated

IsQueue == Plain!Spec
=============================================================================
