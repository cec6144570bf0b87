---------------------------- MODULE AtomicQueue ----------------------------
(***************************************************************************)
(* queue/aqueue.c: a singly linked queue of malloc'ed nodes behind one     *)
(* pthread mutex, shared by the padder registry and the test runner.       *)
(*                                                                         *)
(* A step is the code between two points at which another thread could     *)
(* tell the difference: the mutex operations, malloc and free, and every   *)
(* write to front, rear or a node that is already linked.                  *)
(*                                                                         *)
(* Client contract, which POSIX puts on pthread_mutex_destroy: AQ_Destroy  *)
(* is called while no other call is in progress, and until the next        *)
(* AQ_Init only its caller uses the queue, and only to ask AQ_Empty (the   *)
(* use queue/tests/aqueue.c:92 and unit/unit.c:39 make of it).             *)
(***************************************************************************)
EXTENDS Sequences, Naturals

CONSTANTS
  Threads,  \* the threads of the process
  Node,     \* the addresses malloc can return: bounds the heap
  Data,     \* the pointers callers enqueue (NULL may be one of them)
  NULL      \* the null pointer

ASSUME NullNotNode == NULL \notin Node
ASSUME NullNotThread == NULL \notin Threads

VARIABLES
  front, rear,  \* AtomicQueue.front and .rear
  data, next,   \* QNode.data and .next, by address
  live,         \* the addresses malloc'ed and not yet freed
  lock,         \* the thread that holds AtomicQueue.lock, or NULL
  phase,        \* "up", "closing" (in AQ_Destroy) or "down" (mutex destroyed)
  owner,        \* the thread that called AQ_Destroy
  op, pc,       \* the call each thread is in and its place in that call
  node,         \* newNode (AQ_Enqueue), temp (AQ_Dequeue), node (AQ_Destroy)
  val,          \* the parameter data of AQ_Enqueue; the answer of a call
  exited,       \* AQ_Enqueue ran out of memory and called exit
  chain         \* auxiliary: the linked nodes, oldest first (no code state)

cells == <<front, rear, data, next, live>>
calls == <<op, node, val>>
life  == <<phase, owner, exited>>
vars  == <<cells, lock, calls, pc, life, chain>>

Goto(t, place) == pc' = [pc EXCEPT ![t] = place]

\* A call returns: its locals are gone.
Return(t) ==
  /\ op'   = [op EXCEPT ![t] = "none"]
  /\ node' = [node EXCEPT ![t] = NULL]
  /\ val'  = [val EXCEPT ![t] = NULL]
  /\ Goto(t, "idle")

-----------------------------------------------------------------------------
(* AQ_Init on a zeroed static queue, as the constructors call it.          *)

Init ==
  /\ front = NULL /\ rear = NULL
  /\ data = [n \in Node |-> NULL]
  /\ next = [n \in Node |-> NULL]
  /\ live = {}
  /\ lock = NULL
  /\ phase = "up"
  /\ owner = NULL
  /\ op   = [t \in Threads |-> "none"]
  /\ pc   = [t \in Threads |-> "idle"]
  /\ node = [t \in Threads |-> NULL]
  /\ val  = [t \in Threads |-> NULL]
  /\ exited = FALSE
  /\ chain = <<>>

\* The same call on a queue that was destroyed.
AQ_Init(t) ==
  /\ pc[t] = "idle" /\ phase = "down" /\ owner = t
  /\ front' = NULL /\ rear' = NULL
  /\ phase' = "up"
  /\ owner' = NULL
  /\ UNCHANGED <<data, next, live, lock, calls, pc, exited, chain>>

-----------------------------------------------------------------------------
(* Calls.  Every call but AQ_Enqueue starts by locking the mutex.          *)

Call(t, name) ==
  /\ pc[t] = "idle"
  /\ op' = [op EXCEPT ![t] = name]
  /\ Goto(t, "lock")

\* AQ_Enqueue fills its node before it takes the mutex.
EnqueueCall(t) ==
  /\ phase = "up"
  /\ Call(t, "AQ_Enqueue")
  /\ \E d \in Data, n \in Node \ live :
       /\ live' = live \cup {n}
       /\ data' = [data EXCEPT ![n] = d]
       /\ next' = [next EXCEPT ![n] = NULL]
       /\ node' = [node EXCEPT ![t] = n]
       /\ val'  = [val EXCEPT ![t] = d]
  /\ UNCHANGED <<front, rear, lock, life, chain>>

\* malloc returns NULL: the library ends the process.
EnqueueFails(t) ==
  /\ phase = "up"
  /\ pc[t] = "idle"
  /\ exited' = TRUE
  /\ UNCHANGED <<cells, lock, calls, pc, phase, owner, chain>>

\* Mutant: AQ_Dequeue does not take the mutex.
ReadCall_Unlocked(t) ==
  /\ phase = "up"
  /\ pc[t] = "idle"
  /\ \E name \in {"AQ_Dequeue", "AQ_Empty", "AQ_Peek"} :
       /\ op' = [op EXCEPT ![t] = name]
       /\ Goto(t, IF name = "AQ_Dequeue" THEN "head" ELSE "lock")
  /\ UNCHANGED <<cells, lock, node, val, life, chain>>

ReadCall(t) ==
  /\ phase = "up"
  /\ \E name \in {"AQ_Dequeue", "AQ_Empty", "AQ_Peek"} : Call(t, name)
  /\ UNCHANGED <<cells, lock, node, val, life, chain>>

EmptyAfterDestroy(t) ==
  /\ phase = "down" /\ owner = t
  /\ Call(t, "AQ_Empty")
  /\ UNCHANGED <<cells, lock, node, val, life, chain>>

DestroyCall(t) ==
  /\ phase = "up"
  /\ \A u \in Threads : pc[u] = "idle"
  /\ Call(t, "AQ_Destroy")
  /\ phase' = "closing"
  /\ owner' = t
  /\ UNCHANGED <<cells, lock, node, val, exited, chain>>

-----------------------------------------------------------------------------
(* The mutex.  Locking or unlocking it after pthread_mutex_destroy does    *)
(* nothing but return an error, which no caller looks at.                  *)

Lock(t) ==
  /\ pc[t] = "lock"
  /\ \/ phase = "down" /\ UNCHANGED lock
     \/ phase # "down" /\ lock = NULL /\ lock' = t
  /\ Goto(t, "head")
  /\ UNCHANGED <<cells, calls, life, chain>>

\* AQ_Dequeue still has to free the node it took out, AQ_Destroy to destroy
\* the mutex; every other call returns.
Unlock(t) ==
  /\ pc[t] = "unlock"
  /\ lock' = NULL
  /\ \/ op[t] = "AQ_Dequeue" /\ node[t] # NULL /\ Goto(t, "free")
        /\ UNCHANGED calls
     \/ op[t] = "AQ_Destroy" /\ Goto(t, "mutex") /\ UNCHANGED calls
     \/ op[t] # "AQ_Destroy" /\ (op[t] = "AQ_Dequeue" => node[t] = NULL)
        /\ Return(t)
  /\ UNCHANGED <<cells, life, chain>>

-----------------------------------------------------------------------------
(* Inside the mutex.                                                       *)

\* aqueue.c:37-40, first half: rear is NULL and is set before front.
EnqueueFirst(t) ==
  /\ pc[t] = "head" /\ op[t] = "AQ_Enqueue"
  /\ rear = NULL
  /\ rear' = node[t]
  /\ Goto(t, "front")
  /\ UNCHANGED <<front, data, next, live, lock, calls, life, chain>>

EnqueueFront(t) ==
  /\ pc[t] = "front"
  /\ front' = node[t]
  /\ chain' = Append(chain, node[t])
  /\ Goto(t, "unlock")
  /\ UNCHANGED <<rear, data, next, live, lock, calls, life>>

\* aqueue.c:43-44: link behind the last node, then move rear.
EnqueueLink(t) ==
  /\ pc[t] = "head" /\ op[t] = "AQ_Enqueue"
  /\ rear # NULL
  /\ next' = [next EXCEPT ![rear] = node[t]]
  /\ chain' = Append(chain, node[t])
  /\ Goto(t, "rear")
  /\ UNCHANGED <<front, rear, data, live, lock, calls, life>>

\* Mutant: rear stays at the last node but one.
EnqueueRear_Forgotten(t) ==
  /\ pc[t] = "rear"
  /\ Goto(t, "unlock")
  /\ UNCHANGED <<cells, lock, calls, life, chain>>

EnqueueRear(t) ==
  /\ pc[t] = "rear"
  /\ rear' = node[t]
  /\ Goto(t, "unlock")
  /\ UNCHANGED <<front, data, next, live, lock, calls, life, chain>>

\* Mutant: an early return that skips the unlock.
DequeueNothing_Return(t) ==
  /\ pc[t] = "head" /\ op[t] = "AQ_Dequeue"
  /\ front = NULL
  /\ Return(t)
  /\ UNCHANGED <<cells, lock, life, chain>>

DequeueNothing(t) ==
  /\ pc[t] = "head" /\ op[t] = "AQ_Dequeue"
  /\ front = NULL
  /\ Goto(t, "unlock")
  /\ UNCHANGED <<cells, lock, calls, life, chain>>

DequeueRead(t) ==
  /\ pc[t] = "head" /\ op[t] = "AQ_Dequeue"
  /\ front # NULL
  /\ node' = [node EXCEPT ![t] = front]
  /\ val' = [val EXCEPT ![t] = data[front]]
  /\ Goto(t, "unlink")
  /\ UNCHANGED <<cells, lock, op, life, chain>>

DequeueUnlink(t) ==
  /\ pc[t] = "unlink"
  /\ front' = next[front]
  /\ chain' = Tail(chain)
  /\ Goto(t, "fixrear")
  /\ UNCHANGED <<rear, data, next, live, lock, calls, life>>

\* Mutant: rear is left at the node taken out of a queue of one.
DequeueFixRear_Forgotten(t) ==
  /\ pc[t] = "fixrear"
  /\ Goto(t, "unlock")
  /\ UNCHANGED <<cells, lock, calls, life, chain>>

DequeueFixRear(t) ==
  /\ pc[t] = "fixrear"
  /\ rear' = IF front = NULL THEN NULL ELSE rear
  /\ Goto(t, "unlock")
  /\ UNCHANGED <<front, data, next, live, lock, calls, life, chain>>

\* Mutant: the node is not freed.
DequeueFree_Leak(t) ==
  /\ pc[t] = "free"
  /\ Return(t)
  /\ UNCHANGED <<cells, lock, life, chain>>

\* The node is freed after the mutex is released.
DequeueFree(t) ==
  /\ pc[t] = "free"
  /\ live' = live \ {node[t]}
  /\ Return(t)
  /\ UNCHANGED <<front, rear, data, next, lock, life, chain>>

EmptyRead(t) ==
  /\ pc[t] = "head" /\ op[t] = "AQ_Empty"
  /\ val' = [val EXCEPT ![t] = IF front = NULL THEN 1 ELSE 0]
  /\ Goto(t, "unlock")
  /\ UNCHANGED <<cells, lock, op, node, life, chain>>

PeekRead(t) ==
  /\ pc[t] = "head" /\ op[t] = "AQ_Peek"
  /\ val' = [val EXCEPT ![t] = IF front # NULL THEN data[front] ELSE NULL]
  /\ Goto(t, "unlock")
  /\ UNCHANGED <<cells, lock, op, node, life, chain>>

\* aqueue.c:85-91: free node after node, reading next before each free.
DestroyStart(t) ==
  /\ pc[t] = "head" /\ op[t] = "AQ_Destroy"
  /\ node' = [node EXCEPT ![t] = front]
  /\ Goto(t, "sweep")
  /\ UNCHANGED <<cells, lock, op, val, life, chain>>

DestroySweep(t) ==
  /\ pc[t] = "sweep"
  /\ node[t] # NULL
  /\ live' = live \ {node[t]}
  /\ node' = [node EXCEPT ![t] = next[node[t]]]
  /\ chain' = Tail(chain)
  /\ UNCHANGED <<front, rear, data, next, lock, op, val, pc, life>>

DestroyClear(t) ==
  /\ pc[t] = "sweep"
  /\ node[t] = NULL
  /\ front' = NULL /\ rear' = NULL
  /\ Goto(t, "unlock")
  /\ UNCHANGED <<data, next, live, lock, calls, life, chain>>

DestroyMutex(t) ==
  /\ pc[t] = "mutex"
  /\ phase' = "down"
  /\ Return(t)
  /\ UNCHANGED <<cells, lock, owner, exited, chain>>

-----------------------------------------------------------------------------

Begin(t) ==
  \/ AQ_Init(t)
  \/ EnqueueCall(t) \/ EnqueueFails(t)
  \/ ReadCall(t) \/ EmptyAfterDestroy(t)
  \/ DestroyCall(t)

Continue(t) ==
  \/ Lock(t) \/ Unlock(t)
  \/ EnqueueFirst(t) \/ EnqueueFront(t) \/ EnqueueLink(t) \/ EnqueueRear(t)
  \/ DequeueNothing(t) \/ DequeueRead(t)
  \/ DequeueUnlink(t) \/ DequeueFixRear(t) \/ DequeueFree(t)
  \/ EmptyRead(t) \/ PeekRead(t)
  \/ DestroyStart(t) \/ DestroySweep(t) \/ DestroyClear(t) \/ DestroyMutex(t)

\* After exit no thread of the process runs.
Exited == exited /\ UNCHANGED vars

Next ==
  \/ ~exited /\ \E t \in Threads : Begin(t) \/ Continue(t)
  \/ Exited

Spec == Init /\ [][Next]_vars

\* A thread inside a call keeps being scheduled; no fairness is assumed of
\* the mutex and none of callers.
FairSpec == Spec /\ \A t \in Threads : WF_vars(~exited /\ Continue(t))

-----------------------------------------------------------------------------
(* Properties.                                                             *)

Places == {"idle", "lock", "head", "front", "rear", "unlink", "fixrear",
           "sweep", "unlock", "free", "mutex"}

Calls == {"AQ_Enqueue", "AQ_Dequeue", "AQ_Empty", "AQ_Peek", "AQ_Destroy"}

\* Every variable keeps its C type.
TypeOK ==
  /\ front \in Node \cup {NULL} /\ rear \in Node \cup {NULL}
  /\ data \in [Node -> Data \cup {NULL}]
  /\ next \in [Node -> Node \cup {NULL}]
  /\ live \in SUBSET Node
  /\ lock \in Threads \cup {NULL}
  /\ phase \in {"up", "closing", "down"}
  /\ owner \in Threads \cup {NULL}
  /\ op \in [Threads -> Calls \cup {"none"}]
  /\ pc \in [Threads -> Places]
  /\ node \in [Threads -> Node \cup {NULL}]
  /\ val \in [Threads -> Data \cup {NULL, 0, 1}]
  /\ exited \in BOOLEAN
  /\ chain \in Seq(Node)

\* Holding the mutex, as the code sees it: between lock and unlock.
InMutex(t) == pc[t] \in Places \ {"idle", "lock", "free", "mutex"}

\* At most one thread is between pthread_mutex_lock and pthread_mutex_unlock,
\* also once the mutex is destroyed and no longer excludes anybody.
MutualExclusion == \A t, u \in Threads : InMutex(t) /\ InMutex(u) => t = u

Cells(s) == {s[i] : i \in 1..Len(s)}

First(s) == IF s = <<>> THEN NULL ELSE s[1]
Last(s)  == IF s = <<>> THEN NULL ELSE s[Len(s)]

\* The next pointers lead through s and end after its last node.
Linked(s, nx) ==
  \A i \in 1..Len(s) : nx[s[i]] = IF i = Len(s) THEN NULL ELSE s[i + 1]

Distinct(s) == \A i, j \in 1..Len(s) : s[i] = s[j] => i = j

\* Whenever nobody is inside the mutex, front, the next pointers and rear
\* spell out the queue: no node is lost, none is reachable twice, the last one
\* ends the list, and front and rear are NULL together (aqueue.c:37, 64).
ListIntact ==
  (\A t \in Threads : ~InMutex(t)) =>
    /\ front = First(chain)
    /\ rear = Last(chain)
    /\ Linked(chain, next)
    /\ Distinct(chain)

\* The node a thread may still touch although it is not linked: the one
\* AQ_Enqueue has filled, the one AQ_Dequeue has unlinked and not yet freed.
Private(t) ==
  /\ node[t] # NULL
  /\ \/ op[t] = "AQ_Enqueue" /\ pc[t] \in {"lock", "head", "front"}
     \/ op[t] = "AQ_Dequeue" /\ pc[t] \in {"fixrear", "unlock", "free"}

\* Every allocated node is linked or private to one thread and never both, so
\* nothing leaks and no node is handed to two threads.
HeapAccounted ==
  /\ live = Cells(chain) \cup {node[t] : t \in {u \in Threads : Private(u)}}
  /\ \A t \in Threads : Private(t) => node[t] \notin Cells(chain)
  /\ \A t, u \in Threads :
       Private(t) /\ Private(u) /\ node[t] = node[u] => t = u

\* No statement reads or writes through a pointer to freed memory, and nothing
\* is freed twice: DequeueFree and DestroySweep only free live nodes.
NoUseAfterFree ==
  \A t \in Threads :
    /\ pc[t] \in {"front", "unlink", "free"} => node[t] \in live
    /\ pc[t] = "head" /\ op[t] = "AQ_Enqueue" => rear \in live \cup {NULL}
    /\ pc[t] = "head" /\ op[t] # "AQ_Enqueue" => front \in live \cup {NULL}
    /\ pc[t] = "sweep" => node[t] \in live \cup {NULL}

(* The inductive invariant behind the properties above.                    *)

\* Which places each call passes through.
CallPlaces ==
  \A t \in Threads :
    /\ pc[t] = "idle" <=> op[t] = "none"
    /\ pc[t] \in {"front", "rear"} => op[t] = "AQ_Enqueue"
    /\ pc[t] \in {"unlink", "fixrear", "free"} => op[t] = "AQ_Dequeue"
    /\ pc[t] \in {"sweep", "mutex"} => op[t] = "AQ_Destroy"

\* The mutex is held exactly by the thread between lock and unlock; while the
\* queue is being destroyed and afterwards, only the owner is in a call.
MutexInv ==
  /\ phase # "down" => \A t \in Threads : InMutex(t) <=> lock = t
  /\ phase = "down" =>
       /\ lock = NULL
       /\ \A t \in Threads : op[t] \in {"none", "AQ_Empty"}
  /\ phase # "up" => \A t \in Threads : pc[t] # "idle" => t = owner
  /\ \A t \in Threads : op[t] = "AQ_Destroy" => phase = "closing"

\* The locals of a call: the node it works on and the element it carries.
LocalsInv ==
  \A t \in Threads :
    /\ op[t] = "AQ_Enqueue" =>
         /\ node[t] \in Node
         /\ val[t] \in Data
         /\ Private(t) => data[node[t]] = val[t] /\ next[node[t]] = NULL
    /\ op[t] \in {"none", "AQ_Empty", "AQ_Peek"} => node[t] = NULL
    /\ pc[t] \in {"idle", "lock", "head"} /\ op[t] # "AQ_Enqueue" =>
         node[t] = NULL /\ val[t] = NULL
    /\ pc[t] \in {"unlink", "fixrear", "free"} => node[t] \in Node
    /\ pc[t] = "unlink" => val[t] = data[node[t]]
    /\ op[t] = "AQ_Destroy" => val[t] = NULL
    /\ op[t] = "AQ_Destroy" /\ pc[t] \in {"unlock", "mutex"} =>
         node[t] = NULL

\* The list while a thread works on it: which of front and rear lags behind.
ListInv ==
  /\ Linked(chain, next)
  /\ Distinct(chain)
  /\ (\A t \in Threads : pc[t] # "sweep") => front = First(chain)
  /\ (\A t \in Threads : pc[t] \notin {"front", "rear", "fixrear", "sweep"})
       => rear = Last(chain)
  /\ \A t \in Threads :
       /\ pc[t] = "sweep" => node[t] = First(chain)
       /\ pc[t] = "front" => rear = node[t] /\ chain = <<>>
       /\ pc[t] = "rear" => chain # <<>> /\ node[t] = Last(chain)
       /\ pc[t] = "unlink" => chain # <<>> /\ node[t] = First(chain)
       /\ pc[t] = "fixrear" =>
            rear = IF chain = <<>> THEN node[t] ELSE Last(chain)
       /\ op[t] = "AQ_Destroy" /\ pc[t] \in {"unlock", "mutex"} => chain = <<>>
  /\ phase = "down" => chain = <<>>

IInv ==
  /\ TypeOK
  /\ CallPlaces
  /\ MutexInv
  /\ LocalsInv
  /\ ListInv
  /\ HeapAccounted

\* Whoever holds the mutex lets go of it, on every path of every call, the
\* loop of AQ_Destroy included, unless the process exits.
MutexReleased ==
  \A t \in Threads : (lock = t) ~> (lock # t \/ exited)

\* The queue callers see.  An enqueue takes effect when its node becomes
\* reachable, a dequeue when front leaves the node.
Items == [i \in 1..Len(chain) |-> data[chain[i]]]

Answered(t) == pc[t] \in {"rear", "fixrear", "unlock", "free", "mutex"}

\* AQ_Dequeue has read the element before it takes effect.
Val(t) == IF pc[t] = "unlink" THEN NULL ELSE val[t]

Queue == INSTANCE Fifo WITH
  items <- Items,
  val   <- [t \in Threads |-> Val(t)],
  done  <- {t \in Threads : Answered(t)}

\* Whatever the threads interleave, callers see a first-in first-out queue:
\* each call answers as if it had run alone at one instant of its duration.
Linearizable == Queue!Spec
=============================================================================
