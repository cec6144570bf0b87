------------------------- MODULE AtomicQueueProofs -------------------------
(***************************************************************************)
(* Proofs about AtomicQueue, for every set of threads, addresses and       *)
(* payloads.  The argument: TypeOK, CallPlaces and MutexInv say who may be *)
(* where; LocalsInv and ListInv then say which pointer lags behind at each *)
(* place; HeapAccounted follows from both.  IInv is their conjunction.     *)
(***************************************************************************)
EXTENDS AtomicQueue, SequenceTheorems, TLAPS

-----------------------------------------------------------------------------
(* Linked lists as sequences of distinct addresses.                        *)

\* Appending a node that the list does not hold, behind its last one.
LEMMA AppendLast ==
  ASSUME NEW s \in Seq(Node), NEW nx \in [Node -> Node \cup {NULL}],
         NEW n \in Node, n \notin Cells(s), nx[n] = NULL, s # <<>>,
         Linked(s, nx), Distinct(s)
  PROVE  /\ Last(s) \in Node
         /\ Linked(Append(s, n), [nx EXCEPT ![Last(s)] = n])
         /\ Distinct(Append(s, n))
         /\ Cells(Append(s, n)) = Cells(s) \cup {n}
         /\ Append(s, n) # <<>>
         /\ First(Append(s, n)) = First(s)
         /\ Last(Append(s, n)) = n
<1> DEFINE a == Append(s, n)
<1>1. /\ Len(s) \in Nat \ {0}
      /\ a \in Seq(Node) /\ Len(a) = Len(s) + 1
      /\ \A i \in 1..Len(s) : a[i] = s[i] /\ s[i] \in Node
      /\ a[Len(s) + 1] = n
  OBVIOUS
<1>2. Last(s) \in Node /\ Last(s) = s[Len(s)]
  BY <1>1 DEF Last
<1>3. a # <<>> /\ First(a) = First(s) /\ Last(a) = n
  BY <1>1 DEF First, Last
<1>4. Cells(a) = Cells(s) \cup {n}
  BY <1>1 DEF Cells
<1>5. Distinct(a)
  BY <1>1 DEF Distinct, Cells
<1>6. Linked(a, [nx EXCEPT ![Last(s)] = n])
  BY <1>1, <1>2 DEF Linked, Distinct, Cells
<1>7. QED BY <1>2, <1>3, <1>4, <1>5, <1>6

\* The first node of an empty list.
LEMMA AppendFirst ==
  ASSUME NEW nx \in [Node -> Node \cup {NULL}], NEW n \in Node, nx[n] = NULL
  PROVE  /\ Linked(Append(<<>>, n), nx)
         /\ Distinct(Append(<<>>, n))
         /\ Cells(Append(<<>>, n)) = {n}
         /\ Append(<<>>, n) # <<>>
         /\ First(Append(<<>>, n)) = n
         /\ Last(Append(<<>>, n)) = n
BY DEF Linked, Distinct, Cells, First, Last

\* Taking the first node off.
LEMMA TailOfList ==
  ASSUME NEW s \in Seq(Node), NEW nx \in [Node -> Node \cup {NULL}],
         s # <<>>, Linked(s, nx), Distinct(s)
  PROVE  /\ First(s) \in Node
         /\ First(s) \in Cells(s)
         /\ Tail(s) \in Seq(Node)
         /\ Linked(Tail(s), nx)
         /\ Distinct(Tail(s))
         /\ Cells(Tail(s)) = Cells(s) \ {First(s)}
         /\ nx[First(s)] = First(Tail(s))
         /\ Tail(s) # <<>> => Last(Tail(s)) = Last(s)
         /\ Tail(s) = <<>> => Last(s) = First(s)
<1> DEFINE r == Tail(s)
<1>1. /\ Len(s) \in Nat \ {0}
      /\ r \in Seq(Node) /\ Len(r) = Len(s) - 1
      /\ \A i \in 1..Len(s) - 1 : r[i] = s[i + 1]
      /\ \A i \in 1..Len(s) : s[i] \in Node
      /\ (r = <<>>) <=> (Len(s) = 1)
  <2>1. /\ Len(s) \in Nat \ {0}
        /\ Tail(s) \in Seq(Node) /\ Len(Tail(s)) = Len(s) - 1
        /\ \A i \in 1..Len(Tail(s)) : Tail(s)[i] = s[i + 1]
    BY HeadTailProperties, EmptySeq
  <2>2. \A i \in 1..Len(s) : s[i] \in Node
    BY ElementOfSeq
  <2>3. (Tail(s) = <<>>) <=> (Len(s) = 1)
    <3>1. \A q \in Seq(Node) : (q = <<>>) <=> (Len(q) = 0)
      BY EmptySeq
    <3>2. (Tail(s) = <<>>) <=> (Len(Tail(s)) = 0)
      BY <2>1, <3>1
    <3>3. QED BY <2>1, <3>2
  <2>4. QED BY <2>1, <2>2, <2>3
<1> HIDE DEF r
<1>2. First(s) = s[1] /\ First(s) \in Node /\ First(s) \in Cells(s)
  BY <1>1 DEF First, Cells
<1>3. Linked(r, nx)
  <2>1. SUFFICES ASSUME NEW i \in 1..Len(r)
                 PROVE  nx[r[i]] =
                          IF i = Len(r) THEN NULL ELSE r[i + 1]
    BY DEF Linked
  <2>2. i \in Nat /\ i + 1 \in 1..Len(s) /\ r[i] = s[i + 1]
    BY <1>1
  <2>3. nx[s[i + 1]] = IF i + 1 = Len(s) THEN NULL ELSE s[(i + 1) + 1]
    BY <2>2 DEF Linked
  <2>4. CASE i = Len(r)
    BY <1>1, <2>2, <2>3, <2>4
  <2>5. CASE i # Len(r)
    <3>1. i + 1 \in 1..Len(s) - 1 /\ i + 1 # Len(s)
      BY <1>1, <2>2, <2>5
    <3>2. r[i + 1] = s[(i + 1) + 1]
      BY <1>1, <3>1
    <3>3. QED BY <2>2, <2>3, <2>5, <3>1, <3>2
  <2>6. QED BY <2>4, <2>5
<1>4. Distinct(r)
  BY <1>1 DEF Distinct
<1>5. Cells(r) = Cells(s) \ {First(s)}
  <2>1. ASSUME NEW n \in Cells(s) \ {First(s)} PROVE n \in Cells(r)
    <3>1. PICK i \in 1..Len(s) : n = s[i]
      BY <2>1 DEF Cells
    <3>2. i - 1 \in 1..Len(r) /\ r[i - 1] = n
      BY <1>1, <1>2, <2>1, <3>1
    <3>3. QED BY <3>2 DEF Cells
  <2>2. ASSUME NEW n \in Cells(r) PROVE n \in Cells(s) \ {First(s)}
    BY <1>1, <1>2, <2>2 DEF Cells, Distinct
  <2>3. QED BY <2>1, <2>2
<1>6. nx[First(s)] = First(r)
  <2>1. nx[s[1]] = IF 1 = Len(s) THEN NULL ELSE s[1 + 1]
    BY <1>1 DEF Linked
  <2>2. CASE Len(s) = 1
    BY <1>1, <1>2, <2>1, <2>2 DEF First
  <2>3. CASE Len(s) # 1
    <3>1. 1 \in 1..Len(s) - 1
      BY <1>1, <2>3
    <3>2. QED BY <1>1, <1>2, <2>1, <2>3, <3>1 DEF First
  <2>4. QED BY <2>2, <2>3
<1>7. /\ r # <<>> => Last(r) = Last(s)
      /\ r = <<>> => Last(s) = First(s)
  <2>1. Last(s) = s[Len(s)] /\ First(s) = s[1]
    BY <1>1 DEF Last, First
  <2>2. CASE r = <<>>
    BY <1>1, <2>1, <2>2
  <2>3. CASE r # <<>>
    <3>1. Len(s) - 1 \in 1..Len(s) - 1
      BY <1>1, <2>3
    <3>2. r[Len(s) - 1] = s[(Len(s) - 1) + 1]
      BY <1>1, <3>1
    <3>3. Last(r) = r[Len(s) - 1]
      BY <1>1, <2>3 DEF Last
    <3>4. QED BY <1>1, <2>1, <2>3, <3>2, <3>3
  <2>4. QED BY <2>2, <2>3
<1>8. QED BY <1>1, <1>2, <1>3, <1>4, <1>5, <1>6, <1>7 DEF r

\* Writing the fields of a node outside the list leaves the list alone.
LEMMA LinkedElsewhere ==
  ASSUME NEW s \in Seq(Node), NEW nx \in [Node -> Node \cup {NULL}],
         NEW n \in Node, n \notin Cells(s), NEW m, Linked(s, nx)
  PROVE  Linked(s, [nx EXCEPT ![n] = m])
BY DEF Linked, Cells

\* The ends of a list of nodes are among its cells.
LEMMA EndsOfList ==
  ASSUME NEW s \in Seq(Node)
  PROVE  /\ s = <<>> => First(s) = NULL /\ Last(s) = NULL /\ Cells(s) = {}
         /\ s # <<>> => First(s) \in Cells(s) /\ Last(s) \in Cells(s)
         /\ Cells(s) \subseteq Node
BY DEF First, Last, Cells

-----------------------------------------------------------------------------
(* IInv is inductive: one lemma per conjunct, one step per action.          *)

\* A thread inside the mutex is alone in it.
LEMMA MutexAlone ==
  ASSUME CallPlaces, MutexInv, NEW t \in Threads, NEW u \in Threads,
         InMutex(t), InMutex(u)
  PROVE  t = u
BY DEF CallPlaces, MutexInv, InMutex, Places

\* Every step leaves every variable in its C type.
LEMMA TypeStep ==
  ASSUME TypeOK, CallPlaces, MutexInv, LocalsInv, ListInv,
         NEW t \in Threads, Begin(t) \/ Continue(t)
  PROVE  TypeOK'
<1> USE DEF cells, calls, life, Goto, Return, Call
<1>1. CASE AQ_Init(t)
  BY <1>1 DEF TypeOK, AQ_Init, Places, Calls
<1>2. CASE EnqueueCall(t)
  BY <1>2 DEF TypeOK, EnqueueCall, Places, Calls
<1>3. CASE EnqueueFails(t)
  BY <1>3 DEF TypeOK, EnqueueFails, Places, Calls
<1>4. CASE ReadCall(t)
  BY <1>4 DEF TypeOK, ReadCall, Places, Calls
<1>5. CASE EmptyAfterDestroy(t)
  BY <1>5 DEF TypeOK, EmptyAfterDestroy, Places, Calls
<1>6. CASE DestroyCall(t)
  BY <1>6 DEF TypeOK, DestroyCall, Places, Calls
<1>7. CASE Lock(t)
  BY <1>7 DEF TypeOK, Lock, Places, Calls
<1>8. CASE Unlock(t)
  BY <1>8 DEF TypeOK, Unlock, Places, Calls
<1>9. CASE EnqueueFirst(t)
  BY <1>9 DEF TypeOK, EnqueueFirst, Places, Calls
<1>10. CASE EnqueueFront(t)
  <2>1. node[t] \in Node
    BY <1>10 DEF TypeOK, CallPlaces, LocalsInv, EnqueueFront
  <2>2. Append(chain, node[t]) \in Seq(Node)
    BY <2>1 DEF TypeOK
  <2>3. QED BY <1>10, <2>1, <2>2 DEF TypeOK, EnqueueFront, Places, Calls
<1>11. CASE EnqueueLink(t)
  <2>1. node[t] \in Node
    BY <1>11 DEF TypeOK, CallPlaces, LocalsInv, EnqueueLink
  <2>2. Append(chain, node[t]) \in Seq(Node)
    BY <2>1 DEF TypeOK
  <2>3. QED BY <1>11, <2>1, <2>2 DEF TypeOK, EnqueueLink, Places, Calls
<1>12. CASE EnqueueRear(t)
  BY <1>12 DEF TypeOK, EnqueueRear, Places, Calls
<1>13. CASE DequeueNothing(t)
  BY <1>13 DEF TypeOK, DequeueNothing, Places, Calls
<1>14. CASE DequeueRead(t)
  BY <1>14 DEF TypeOK, DequeueRead, Places, Calls
<1>15. CASE DequeueUnlink(t)
  <2>1. front \in Node /\ Tail(chain) \in Seq(Node)
    <3>1. chain # <<>> /\ Linked(chain, next) /\ Distinct(chain)
      BY <1>15 DEF ListInv, DequeueUnlink
    <3>2. First(chain) \in Node /\ Tail(chain) \in Seq(Node)
      BY <3>1, TailOfList DEF TypeOK
    <3>3. front = First(chain)
      BY <1>15, MutexAlone DEF ListInv, DequeueUnlink, InMutex, Places
    <3>4. QED BY <3>2, <3>3
  <2>2. QED BY <1>15, <2>1 DEF TypeOK, DequeueUnlink, Places, Calls
<1>16. CASE DequeueFixRear(t)
  BY <1>16 DEF TypeOK, DequeueFixRear, Places, Calls
<1>17. CASE DequeueFree(t)
  BY <1>17 DEF TypeOK, DequeueFree, Places, Calls
<1>18. CASE EmptyRead(t)
  BY <1>18 DEF TypeOK, EmptyRead, Places, Calls
<1>19. CASE PeekRead(t)
  BY <1>19 DEF TypeOK, PeekRead, Places, Calls
<1>20. CASE DestroyStart(t)
  BY <1>20 DEF TypeOK, DestroyStart, Places, Calls
<1>21. CASE DestroySweep(t)
  <2>1. Tail(chain) \in Seq(Node)
    <3>1. chain # <<>> /\ Linked(chain, next) /\ Distinct(chain)
      BY <1>21 DEF ListInv, DestroySweep, First
    <3>2. QED BY <3>1, TailOfList DEF TypeOK
  <2>2. QED BY <1>21, <2>1 DEF TypeOK, DestroySweep, Places, Calls
<1>22. CASE DestroyClear(t)
  BY <1>22 DEF TypeOK, DestroyClear, Places, Calls
<1>23. CASE DestroyMutex(t)
  BY <1>23 DEF TypeOK, DestroyMutex, Places, Calls
<1>24. QED
  BY <1>1, <1>2, <1>3, <1>4, <1>5, <1>6, <1>7, <1>8, <1>9, <1>10, <1>11,
     <1>12, <1>13, <1>14, <1>15, <1>16, <1>17, <1>18, <1>19, <1>20, <1>21,
     <1>22, <1>23 DEF Begin, Continue

\* Every call passes through its own places and only with the mutex.
LEMMA MutexStep ==
  ASSUME TypeOK, CallPlaces, MutexInv,
         NEW t \in Threads, Begin(t) \/ Continue(t)
  PROVE  CallPlaces' /\ MutexInv'
<1> USE DEF TypeOK, CallPlaces, MutexInv, InMutex, Places, Calls,
           cells, calls, life, Goto, Return, Call
<1>1. CASE AQ_Init(t)
  BY <1>1, NullNotThread DEF AQ_Init
<1>2. CASE EnqueueCall(t)
  BY <1>2 DEF EnqueueCall
<1>3. CASE EnqueueFails(t)
  BY <1>3 DEF EnqueueFails
<1>4. CASE ReadCall(t)
  BY <1>4 DEF ReadCall
<1>5. CASE EmptyAfterDestroy(t)
  BY <1>5 DEF EmptyAfterDestroy
<1>6. CASE DestroyCall(t)
  BY <1>6 DEF DestroyCall
<1>7. CASE Lock(t)
  BY <1>7, NullNotThread DEF Lock
<1>8. CASE Unlock(t)
  BY <1>8, NullNotThread DEF Unlock
<1>9. CASE EnqueueFirst(t)
  BY <1>9 DEF EnqueueFirst
<1>10. CASE EnqueueFront(t)
  BY <1>10 DEF EnqueueFront
<1>11. CASE EnqueueLink(t)
  BY <1>11 DEF EnqueueLink
<1>12. CASE EnqueueRear(t)
  BY <1>12 DEF EnqueueRear
<1>13. CASE DequeueNothing(t)
  BY <1>13 DEF DequeueNothing
<1>14. CASE DequeueRead(t)
  BY <1>14 DEF DequeueRead
<1>15. CASE DequeueUnlink(t)
  BY <1>15 DEF DequeueUnlink
<1>16. CASE DequeueFixRear(t)
  BY <1>16 DEF DequeueFixRear
<1>17. CASE DequeueFree(t)
  BY <1>17 DEF DequeueFree
<1>18. CASE EmptyRead(t)
  BY <1>18 DEF EmptyRead
<1>19. CASE PeekRead(t)
  BY <1>19 DEF PeekRead
<1>20. CASE DestroyStart(t)
  BY <1>20 DEF DestroyStart
<1>21. CASE DestroySweep(t)
  BY <1>21 DEF DestroySweep
<1>22. CASE DestroyClear(t)
  BY <1>22 DEF DestroyClear
<1>23. CASE DestroyMutex(t)
  BY <1>23 DEF DestroyMutex
<1>24. QED
  BY <1>1, <1>2, <1>3, <1>4, <1>5, <1>6, <1>7, <1>8, <1>9, <1>10, <1>11,
     <1>12, <1>13, <1>14, <1>15, <1>16, <1>17, <1>18, <1>19, <1>20, <1>21,
     <1>22, <1>23 DEF Begin, Continue

\* While a thread is inside the mutex the others are outside, and only
\* AQ_Empty is ever called on a destroyed queue.
LEMMA Others ==
  ASSUME TypeOK, CallPlaces, MutexInv, NEW t \in Threads, InMutex(t)
  PROVE  /\ \A u \in Threads \ {t} :
              pc[u] \in {"idle", "lock", "free", "mutex"} /\ op[u] # "AQ_Destroy"
         /\ op[t] # "AQ_Empty" => phase # "down"
<1>1. phase # "up" => owner = t
  BY DEF MutexInv, InMutex, Places
<1>2. \A u \in Threads \ {t} : ~InMutex(u)
  BY MutexAlone
<1>3. \A u \in Threads \ {t} : op[u] # "AQ_Destroy"
  BY <1>1 DEF MutexInv, CallPlaces
<1>4. op[t] # "none"
  BY DEF CallPlaces, InMutex, Places
<1>5. QED BY <1>2, <1>3, <1>4 DEF MutexInv, InMutex, Places, TypeOK

\* Every step keeps the list linked, with the lag of front and rear known.
LEMMA ListStep ==
  ASSUME TypeOK, CallPlaces, MutexInv, LocalsInv, ListInv, HeapAccounted,
         NEW t \in Threads, Begin(t) \/ Continue(t)
  PROVE  ListInv'
<1> USE DEF TypeOK, CallPlaces, ListInv, Places, Calls,
           cells, calls, life, Goto, Return, Call
<1>1. CASE AQ_Init(t)
  <2>1. chain = <<>> /\ \A u \in Threads : pc[u] = "idle"
    BY <1>1 DEF AQ_Init, MutexInv
  <2>2. QED BY <1>1, <2>1, EndsOfList DEF AQ_Init
<1>2. CASE EnqueueCall(t)
  <2>1. PICK d \in Data, n \in Node \ live :
               /\ next' = [next EXCEPT ![n] = NULL]
               /\ node' = [node EXCEPT ![t] = n]
    BY <1>2 DEF EnqueueCall
  <2>2. n \notin Cells(chain)
    BY DEF HeapAccounted
  <2>3. Linked(chain, next')
    BY <2>1, <2>2, LinkedElsewhere
  <2>4. QED BY <1>2, <2>1, <2>3 DEF EnqueueCall
<1>3. CASE EnqueueFails(t)
  BY <1>3 DEF EnqueueFails
<1>4. CASE ReadCall(t)
  BY <1>4 DEF ReadCall
<1>5. CASE EmptyAfterDestroy(t)
  BY <1>5 DEF EmptyAfterDestroy
<1>6. CASE DestroyCall(t)
  BY <1>6 DEF DestroyCall
<1>7. CASE Lock(t)
  BY <1>7 DEF Lock
<1>8. CASE Unlock(t)
  <2>1. InMutex(t)
    BY <1>8 DEF Unlock, InMutex, Places
  <2>2. QED BY <1>8, <2>1, Others, EndsOfList, NullNotNode DEF Unlock
<1>9. CASE EnqueueFirst(t)
  <2>1. InMutex(t)
    BY <1>9 DEF EnqueueFirst, InMutex, Places
  <2>2. QED BY <1>9, <2>1, Others, EndsOfList, NullNotNode DEF EnqueueFirst
<1>10. CASE EnqueueFront(t)
  <2>1. InMutex(t)
    BY <1>10 DEF EnqueueFront, InMutex, Places
  <2>2. chain = <<>> /\ rear = node[t] /\ op[t] = "AQ_Enqueue"
    BY <1>10 DEF EnqueueFront
  <2>3. node[t] \in Node /\ next[node[t]] = NULL
    BY <1>10, <2>2, NullNotNode DEF EnqueueFront, LocalsInv, Private
  <2>4. /\ Linked(chain', next)
        /\ Distinct(chain')
        /\ chain' # <<>>
        /\ First(chain') = node[t] /\ Last(chain') = node[t]
    BY <1>10, <2>2, <2>3, AppendFirst DEF EnqueueFront
  <2>5. QED BY <1>10, <2>1, <2>2, <2>4, Others DEF EnqueueFront
<1>11. CASE EnqueueLink(t)
  <2>1. InMutex(t)
    BY <1>11 DEF EnqueueLink, InMutex, Places
  <2>2. op[t] = "AQ_Enqueue" /\ rear = Last(chain) /\ front = First(chain)
    BY <1>11, <2>1, Others DEF EnqueueLink
  <2>3. chain # <<>>
    BY <1>11, <2>2, EndsOfList DEF EnqueueLink
  <2>4. Private(t) /\ node[t] \in Node
    BY <1>11, <2>2, NullNotNode DEF EnqueueLink, LocalsInv, Private
  <2>5. next[node[t]] = NULL /\ node[t] \notin Cells(chain)
    BY <2>2, <2>4 DEF LocalsInv, HeapAccounted
  <2>6. /\ Linked(chain', next')
        /\ Distinct(chain')
        /\ chain' # <<>>
        /\ First(chain') = First(chain) /\ Last(chain') = node[t]
    <3>1. /\ chain' = Append(chain, node[t])
          /\ next' = [next EXCEPT ![Last(chain)] = node[t]]
      BY <1>11, <2>2 DEF EnqueueLink
    <3>2. /\ Linked(Append(chain, node[t]),
                    [next EXCEPT ![Last(chain)] = node[t]])
          /\ Distinct(Append(chain, node[t]))
          /\ Append(chain, node[t]) # <<>>
          /\ First(Append(chain, node[t])) = First(chain)
          /\ Last(Append(chain, node[t])) = node[t]
      <4>1. /\ chain \in Seq(Node) /\ next \in [Node -> Node \cup {NULL}]
            /\ Linked(chain, next) /\ Distinct(chain)
        OBVIOUS
      <4>2. QED BY ONLY <2>3, <2>4, <2>5, <4>1, AppendLast
    <3>3. QED BY <3>1, <3>2
  <2>7. QED BY <1>11, <2>1, <2>2, <2>6, Others DEF EnqueueLink
<1>12. CASE EnqueueRear(t)
  <2>1. InMutex(t)
    BY <1>12 DEF EnqueueRear, InMutex, Places
  <2>2. QED BY <1>12, <2>1, Others, EndsOfList, NullNotNode DEF EnqueueRear
<1>13. CASE DequeueNothing(t)
  <2>1. InMutex(t)
    BY <1>13 DEF DequeueNothing, InMutex, Places
  <2>2. QED BY <1>13, <2>1, Others, EndsOfList, NullNotNode DEF DequeueNothing
<1>14. CASE DequeueRead(t)
  <2>1. InMutex(t)
    BY <1>14 DEF DequeueRead, InMutex, Places
  <2>2. QED BY <1>14, <2>1, Others, EndsOfList, NullNotNode DEF DequeueRead
<1>15. CASE DequeueUnlink(t)
  <2>1. InMutex(t)
    BY <1>15 DEF DequeueUnlink, InMutex, Places
  <2>2. /\ op[t] = "AQ_Dequeue" /\ chain # <<>>
        /\ node[t] = First(chain) /\ front = First(chain)
        /\ rear = Last(chain)
    BY <1>15, <2>1, Others DEF DequeueUnlink
  <2>3. /\ Linked(chain', next)
        /\ Distinct(chain')
        /\ next[node[t]] = First(chain')
        /\ chain' # <<>> => Last(chain') = Last(chain)
        /\ chain' = <<>> => Last(chain) = node[t]
    BY <1>15, <2>2, TailOfList DEF DequeueUnlink
  <2>4. QED BY <1>15, <2>1, <2>2, <2>3, Others DEF DequeueUnlink
<1>16. CASE DequeueFixRear(t)
  <2>1. InMutex(t)
    BY <1>16 DEF DequeueFixRear, InMutex, Places
  <2>2. QED BY <1>16, <2>1, Others, EndsOfList, NullNotNode DEF DequeueFixRear
<1>17. CASE DequeueFree(t)
  BY <1>17 DEF DequeueFree
<1>18. CASE EmptyRead(t)
  <2>1. InMutex(t)
    BY <1>18 DEF EmptyRead, InMutex, Places
  <2>2. QED BY <1>18, <2>1, Others, EndsOfList, NullNotNode DEF EmptyRead
<1>19. CASE PeekRead(t)
  <2>1. InMutex(t)
    BY <1>19 DEF PeekRead, InMutex, Places
  <2>2. QED BY <1>19, <2>1, Others, EndsOfList, NullNotNode DEF PeekRead
<1>20. CASE DestroyStart(t)
  <2>1. InMutex(t)
    BY <1>20 DEF DestroyStart, InMutex, Places
  <2>2. QED BY <1>20, <2>1, Others, EndsOfList, NullNotNode DEF DestroyStart
<1>21. CASE DestroySweep(t)
  <2>1. InMutex(t)
    BY <1>21 DEF DestroySweep, InMutex, Places
  <2>2. /\ op[t] = "AQ_Destroy" /\ node[t] = First(chain)
        /\ chain # <<>>
    BY <1>21, EndsOfList DEF DestroySweep
  <2>3. /\ Linked(chain', next)
        /\ Distinct(chain')
        /\ next[node[t]] = First(chain')
        /\ chain' # <<>> => Last(chain') = Last(chain)
        /\ chain' = <<>> => Last(chain) = node[t]
    BY <1>21, <2>2, TailOfList DEF DestroySweep
  <2>4. QED BY <1>21, <2>1, <2>2, <2>3, Others DEF DestroySweep
<1>22. CASE DestroyClear(t)
  <2>1. InMutex(t)
    BY <1>22 DEF DestroyClear, InMutex, Places
  <2>2. QED BY <1>22, <2>1, Others, EndsOfList, NullNotNode DEF DestroyClear
<1>23. CASE DestroyMutex(t)
  BY <1>23 DEF DestroyMutex
<1>24. QED
  BY <1>1, <1>2, <1>3, <1>4, <1>5, <1>6, <1>7, <1>8, <1>9, <1>10, <1>11,
     <1>12, <1>13, <1>14, <1>15, <1>16, <1>17, <1>18, <1>19, <1>20, <1>21,
     <1>22, <1>23 DEF Begin, Continue

\* Every step keeps the locals of the calls in progress meaningful.
LEMMA LocalsStep ==
  ASSUME TypeOK, CallPlaces, MutexInv, LocalsInv, ListInv, HeapAccounted,
         NEW t \in Threads, Begin(t) \/ Continue(t)
  PROVE  LocalsInv'
<1> USE DEF TypeOK, CallPlaces, LocalsInv, Private, Places, Calls,
           cells, calls, life, Goto, Return, Call
<1>1. CASE AQ_Init(t)
  BY <1>1 DEF AQ_Init
<1>2. CASE EnqueueCall(t)
  <2>1. PICK d \in Data, n \in Node \ live :
               /\ data' = [data EXCEPT ![n] = d]
               /\ next' = [next EXCEPT ![n] = NULL]
               /\ node' = [node EXCEPT ![t] = n]
               /\ val' = [val EXCEPT ![t] = d]
    BY <1>2 DEF EnqueueCall
  <2>2. \A u \in Threads : Private(u) \/ pc[u] = "unlink" => node[u] # n
    BY EndsOfList DEF HeapAccounted, ListInv
  <2>3. QED BY <1>2, <2>1, <2>2 DEF EnqueueCall
<1>3. CASE EnqueueFails(t)
  BY <1>3 DEF EnqueueFails
<1>4. CASE ReadCall(t)
  BY <1>4 DEF ReadCall
<1>5. CASE EmptyAfterDestroy(t)
  BY <1>5 DEF EmptyAfterDestroy
<1>6. CASE DestroyCall(t)
  BY <1>6 DEF DestroyCall
<1>7. CASE Lock(t)
  BY <1>7 DEF Lock
<1>8. CASE Unlock(t)
  BY <1>8 DEF Unlock
<1>9. CASE EnqueueFirst(t)
  BY <1>9 DEF EnqueueFirst
<1>10. CASE EnqueueFront(t)
  BY <1>10 DEF EnqueueFront
<1>11. CASE EnqueueLink(t)
  <2>1. rear \in Cells(chain)
    <3>1. InMutex(t)
      BY <1>11 DEF EnqueueLink, InMutex
    <3>2. rear = Last(chain)
      BY <1>11, <3>1, Others DEF EnqueueLink, ListInv
    <3>3. QED BY <1>11, <3>2, EndsOfList DEF EnqueueLink
  <2>2. \A u \in Threads : Private(u) => node[u] # rear
    BY <2>1 DEF HeapAccounted
  <2>3. QED BY <1>11, <2>2 DEF EnqueueLink
<1>12. CASE EnqueueRear(t)
  BY <1>12 DEF EnqueueRear
<1>13. CASE DequeueNothing(t)
  BY <1>13 DEF DequeueNothing
<1>14. CASE DequeueRead(t)
  BY <1>14 DEF DequeueRead
<1>15. CASE DequeueUnlink(t)
  BY <1>15 DEF DequeueUnlink
<1>16. CASE DequeueFixRear(t)
  BY <1>16 DEF DequeueFixRear
<1>17. CASE DequeueFree(t)
  BY <1>17 DEF DequeueFree
<1>18. CASE EmptyRead(t)
  BY <1>18 DEF EmptyRead
<1>19. CASE PeekRead(t)
  BY <1>19 DEF PeekRead
<1>20. CASE DestroyStart(t)
  BY <1>20 DEF DestroyStart
<1>21. CASE DestroySweep(t)
  BY <1>21 DEF DestroySweep
<1>22. CASE DestroyClear(t)
  BY <1>22 DEF DestroyClear
<1>23. CASE DestroyMutex(t)
  BY <1>23 DEF DestroyMutex
<1>24. QED
  BY <1>1, <1>2, <1>3, <1>4, <1>5, <1>6, <1>7, <1>8, <1>9, <1>10, <1>11,
     <1>12, <1>13, <1>14, <1>15, <1>16, <1>17, <1>18, <1>19, <1>20, <1>21,
     <1>22, <1>23 DEF Begin, Continue

\* Every step accounts for every allocated node.
LEMMA HeapStep ==
  ASSUME TypeOK, CallPlaces, MutexInv, LocalsInv, ListInv, HeapAccounted,
         NEW t \in Threads, Begin(t) \/ Continue(t)
  PROVE  HeapAccounted'
<1> USE DEF TypeOK, CallPlaces, HeapAccounted, Private, Places, Calls,
           cells, calls, life, Goto, Return, Call
<1>1. CASE AQ_Init(t)
  BY <1>1 DEF AQ_Init
<1>2. CASE EnqueueCall(t)
  <2>1. PICK n \in Node \ live :
               /\ live' = live \cup {n}
               /\ node' = [node EXCEPT ![t] = n]
    BY <1>2 DEF EnqueueCall
  <2>2. \A u \in Threads : Private(u)' <=> u = t \/ Private(u)
    BY <1>2, <2>1, NullNotNode DEF EnqueueCall
  <2>3. \A u \in Threads : Private(u) => u # t /\ node[u] # n
    BY <1>2 DEF EnqueueCall
  <2>4. n \notin Cells(chain) /\ chain' = chain
    BY <1>2 DEF EnqueueCall
  <2>5. QED BY <2>1, <2>2, <2>3, <2>4
<1>3. CASE EnqueueFails(t)
  BY <1>3 DEF EnqueueFails
<1>4. CASE ReadCall(t)
  BY <1>4 DEF ReadCall
<1>5. CASE EmptyAfterDestroy(t)
  BY <1>5 DEF EmptyAfterDestroy
<1>6. CASE DestroyCall(t)
  BY <1>6 DEF DestroyCall
<1>7. CASE Lock(t)
  BY <1>7 DEF Lock
<1>8. CASE Unlock(t)
  BY <1>8 DEF Unlock
<1>9. CASE EnqueueFirst(t)
  BY <1>9 DEF EnqueueFirst
<1>10. CASE EnqueueFront(t)
  <2>1. op[t] = "AQ_Enqueue" /\ Private(t) /\ node[t] \in Node
    BY <1>10, NullNotNode DEF EnqueueFront, LocalsInv
  <2>2. Cells(chain') = Cells(chain) \cup {node[t]}
    <3>1. chain = <<>> /\ next[node[t]] = NULL
      BY <1>10, <2>1 DEF EnqueueFront, ListInv, LocalsInv
    <3>2. /\ Cells(Append(<<>>, node[t])) = {node[t]}
          /\ Cells(<<>>) = {}
      BY <2>1, <3>1, AppendFirst, EndsOfList
    <3>3. QED BY <1>10, <3>1, <3>2 DEF EnqueueFront
  <2>3. \A u \in Threads : Private(u)' <=> u # t /\ Private(u)
    BY <1>10 DEF EnqueueFront
  <2>4. live' = live /\ node' = node
    BY <1>10 DEF EnqueueFront
  <2>5. QED BY <2>1, <2>2, <2>3, <2>4
<1>11. CASE EnqueueLink(t)
  <2>1. op[t] = "AQ_Enqueue" /\ Private(t) /\ node[t] \in Node
    BY <1>11, NullNotNode DEF EnqueueLink, LocalsInv
  <2>2. Cells(chain') = Cells(chain) \cup {node[t]}
    <3>1. InMutex(t)
      BY <1>11 DEF EnqueueLink, InMutex
    <3>2. rear = Last(chain)
      BY <1>11, <2>1, <3>1, Others DEF EnqueueLink, ListInv
    <3>3. chain # <<>>
      BY <1>11, <3>2, EndsOfList DEF EnqueueLink
    <3>4. Cells(Append(chain, node[t])) = Cells(chain) \cup {node[t]}
      <4>1. /\ chain \in Seq(Node) /\ next \in [Node -> Node \cup {NULL}]
            /\ Linked(chain, next) /\ Distinct(chain)
            /\ node[t] \notin Cells(chain) /\ next[node[t]] = NULL
        BY <2>1 DEF ListInv, LocalsInv
      <4>2. QED BY ONLY <2>1, <3>3, <4>1, AppendLast
    <3>5. QED BY <1>11, <3>4 DEF EnqueueLink
  <2>3. \A u \in Threads : Private(u)' <=> u # t /\ Private(u)
    BY <1>11 DEF EnqueueLink
  <2>4. live' = live /\ node' = node
    BY <1>11 DEF EnqueueLink
  <2>5. QED BY <2>1, <2>2, <2>3, <2>4
<1>12. CASE EnqueueRear(t)
  BY <1>12 DEF EnqueueRear
<1>13. CASE DequeueNothing(t)
  <2>1. node[t] = NULL
    BY <1>13 DEF DequeueNothing, LocalsInv
  <2>2. QED BY <1>13, <2>1 DEF DequeueNothing
<1>14. CASE DequeueRead(t)
  BY <1>14 DEF DequeueRead
<1>15. CASE DequeueUnlink(t)
  <2>1. /\ chain # <<>> /\ node[t] = First(chain) /\ node[t] \in Node
        /\ op[t] = "AQ_Dequeue"
    BY <1>15 DEF DequeueUnlink, ListInv, LocalsInv
  <2>2. /\ Cells(chain') = Cells(chain) \ {node[t]}
        /\ node[t] \in Cells(chain)
    BY <1>15, <2>1, TailOfList DEF DequeueUnlink, ListInv
  <2>3. \A u \in Threads : Private(u)' <=> u = t \/ Private(u)
    BY <1>15, <2>1, NullNotNode DEF DequeueUnlink
  <2>4. live' = live /\ node' = node
    BY <1>15 DEF DequeueUnlink
  <2>5. QED BY <2>1, <2>2, <2>3, <2>4
<1>16. CASE DequeueFixRear(t)
  BY <1>16 DEF DequeueFixRear
<1>17. CASE DequeueFree(t)
  <2>1. Private(t) /\ node[t] \in Node
    BY <1>17, NullNotNode DEF DequeueFree, LocalsInv
  <2>2. /\ live' = live \ {node[t]} /\ chain' = chain
        /\ \A u \in Threads \ {t} : node'[u] = node[u]
    BY <1>17 DEF DequeueFree
  <2>3. \A u \in Threads : Private(u)' <=> u # t /\ Private(u)
    BY <1>17 DEF DequeueFree
  <2>4. QED BY <2>1, <2>2, <2>3
<1>18. CASE EmptyRead(t)
  BY <1>18 DEF EmptyRead
<1>19. CASE PeekRead(t)
  BY <1>19 DEF PeekRead
<1>20. CASE DestroyStart(t)
  BY <1>20 DEF DestroyStart
<1>21. CASE DestroySweep(t)
  <2>1. /\ chain # <<>> /\ node[t] = First(chain)
        /\ op[t] = "AQ_Destroy"
    BY <1>21, EndsOfList DEF DestroySweep, ListInv
  <2>2. /\ Cells(chain') = Cells(chain) \ {node[t]}
        /\ node[t] \in Cells(chain)
    BY <1>21, <2>1, TailOfList DEF DestroySweep, ListInv
  <2>3. \A u \in Threads : Private(u)' <=> Private(u)
    BY <1>21, <2>1 DEF DestroySweep
  <2>4. /\ live' = live \ {node[t]}
        /\ \A u \in Threads : Private(u) => node'[u] = node[u]
    BY <1>21, <2>1 DEF DestroySweep
  <2>5. {node'[u] : u \in {w \in Threads : Private(w)'}}
          = {node[u] : u \in {w \in Threads : Private(w)}}
    BY <2>3, <2>4
  <2>6. live' = Cells(chain') \cup {node'[u] : u \in {w \in Threads : Private(w)'}}
    <3> DEFINE P == {node[u] : u \in {w \in Threads : Private(w)}}
    <3>1. live = Cells(chain) \cup P /\ node[t] \notin P
      BY <2>2
    <3> HIDE DEF P
    <3>2. live' = Cells(chain') \cup P
      BY ONLY <2>2, <2>4, <3>1
    <3>3. QED BY <2>5, <3>2 DEF P
  <2>7. QED BY <2>1, <2>2, <2>3, <2>4, <2>6
<1>22. CASE DestroyClear(t)
  BY <1>22 DEF DestroyClear
<1>23. CASE DestroyMutex(t)
  BY <1>23 DEF DestroyMutex
<1>24. QED
  BY <1>1, <1>2, <1>3, <1>4, <1>5, <1>6, <1>7, <1>8, <1>9, <1>10, <1>11,
     <1>12, <1>13, <1>14, <1>15, <1>16, <1>17, <1>18, <1>19, <1>20, <1>21,
     <1>22, <1>23 DEF Begin, Continue

-----------------------------------------------------------------------------
(* The theorems about every state the queue can reach.                     *)

\* The queue starts empty, with every node free.
LEMMA Initially == Init => IInv
<1> SUFFICES ASSUME Init PROVE IInv
  OBVIOUS
<1> USE DEF Init
<1>1. TypeOK
  BY EmptySeq DEF TypeOK, Calls, Places
<1>2. CallPlaces /\ MutexInv /\ LocalsInv
  BY NullNotThread DEF CallPlaces, MutexInv, LocalsInv, InMutex, Places
<1>3. ListInv
  <2>1. Linked(<<>>, next) /\ Distinct(<<>>)
    BY DEF Linked, Distinct
  <2>2. QED BY <2>1 DEF ListInv, First, Last
<1>4. HeapAccounted
  BY DEF HeapAccounted, Cells, Private
<1>5. QED BY <1>1, <1>2, <1>3, <1>4 DEF IInv

\* Every step of a thread preserves IInv: one case per action.
LEMMA Inductive == IInv /\ [Next]_vars => IInv'
<1> SUFFICES ASSUME IInv, [Next]_vars PROVE IInv'
  OBVIOUS
<1>1. ASSUME NEW t \in Threads, Begin(t) \/ Continue(t) PROVE IInv'
  BY <1>1, TypeStep, MutexStep, LocalsStep, ListStep, HeapStep DEF IInv
<1>2. CASE UNCHANGED vars
  <2> USE <1>2 DEF vars, cells, calls, life
  <2>1. TypeOK' /\ CallPlaces' /\ MutexInv' /\ LocalsInv'
    BY DEF IInv, TypeOK, CallPlaces, MutexInv, LocalsInv, InMutex, Private
  <2>2. ListInv' /\ HeapAccounted'
    BY DEF IInv, ListInv, HeapAccounted, Private
  <2>3. QED BY <2>1, <2>2 DEF IInv
<1>3. QED BY <1>1, <1>2 DEF Next, Exited

\* The inductive invariant holds in every reachable state.
THEOREM Invariance == Spec => []IInv
<1>1. QED BY Initially, Inductive, PTL DEF Spec

\* Every variable keeps its C type, for any number of threads and any heap.
THEOREM TypeCorrect == Spec => []TypeOK
<1>1. IInv => TypeOK
  BY DEF IInv
<1>2. QED BY <1>1, Invariance, PTL

\* The critical sections of aqueue.c exclude each other, also around the
\* destruction of the mutex.
THEOREM Exclusion == Spec => []MutualExclusion
<1>1. IInv => MutualExclusion
  BY MutexAlone DEF IInv, MutualExclusion
<1>2. QED BY <1>1, Invariance, PTL

\* Whenever the mutex is free the list is intact.
THEOREM ListCorrect == Spec => []ListIntact
<1>1. IInv => ListIntact
  BY DEF IInv, ListInv, ListIntact, InMutex, TypeOK, Places
<1>2. QED BY <1>1, Invariance, PTL

\* No node leaks and none is owned twice.
THEOREM HeapCorrect == Spec => []HeapAccounted
<1>1. IInv => HeapAccounted
  BY DEF IInv
<1>2. QED BY <1>1, Invariance, PTL

\* No freed node is read, written or freed again.
THEOREM MemorySafe == Spec => []NoUseAfterFree
<1>1. IInv => NoUseAfterFree
  <2> SUFFICES ASSUME IInv, NEW t \in Threads
               PROVE  /\ pc[t] \in {"front", "unlink", "free"} => node[t] \in live
                      /\ pc[t] = "head" /\ op[t] = "AQ_Enqueue" =>
                           rear \in live \cup {NULL}
                      /\ pc[t] = "head" /\ op[t] # "AQ_Enqueue" =>
                           front \in live \cup {NULL}
                      /\ pc[t] = "sweep" => node[t] \in live \cup {NULL}
    BY DEF NoUseAfterFree
  <2> USE DEF IInv
  <2>1. First(chain) \in live \cup {NULL} /\ Last(chain) \in live \cup {NULL}
    BY EndsOfList DEF HeapAccounted, TypeOK
  <2>2. \A u \in Threads : Private(u) => node[u] \in live
    BY DEF HeapAccounted
  <2>3. pc[t] \in {"front", "unlink", "free"} => node[t] \in live
    <3>1. pc[t] \in {"front", "free"} => Private(t)
      BY NullNotNode DEF Private, LocalsInv, CallPlaces
    <3>2. pc[t] = "unlink" => node[t] \in live
      BY <2>1, NullNotNode DEF ListInv, LocalsInv
    <3>3. QED BY <2>2, <3>1, <3>2
  <2>4. pc[t] = "head" =>
          rear \in live \cup {NULL} /\ front \in live \cup {NULL}
    <3>1. pc[t] = "head" => InMutex(t)
      BY DEF InMutex, Places
    <3>2. pc[t] = "head" => front = First(chain) /\ rear = Last(chain)
      BY <3>1, Others DEF ListInv
    <3>3. QED BY <2>1, <3>2
  <2>5. pc[t] = "sweep" => node[t] \in live \cup {NULL}
    BY <2>1 DEF ListInv
  <2>6. QED BY <2>3, <2>4, <2>5
<1>2. QED BY <1>1, Invariance, PTL


-----------------------------------------------------------------------------
(* AtomicQueue implements Fifo: every step of the pthread code is one step *)
(* of the first-in first-out queue or leaves it unchanged.                 *)

-----------------------------------------------------------------------------
(* The elements held by a list.                                            *)

Content(s, f) == [i \in 1..Len(s) |-> f[s[i]]]

\* Appending a node appends its payload.
LEMMA ContentAppend ==
  ASSUME NEW s \in Seq(Node), NEW n \in Node, NEW f \in [Node -> Data \cup {NULL}]
  PROVE  Content(Append(s, n), f) = Append(Content(s, f), f[n])
<1> DEFINE a == Append(s, n)
           c == Content(s, f)
<1>1. /\ Len(s) \in Nat /\ a \in Seq(Node) /\ Len(a) = Len(s) + 1
      /\ \A i \in 1..Len(s) : a[i] = s[i] /\ s[i] \in Node
      /\ a[Len(s) + 1] = n
  OBVIOUS
<1>2. c \in Seq(Data \cup {NULL}) /\ Len(c) = Len(s)
  BY <1>1 DEF Content
<1>3. \A i \in 1..Len(s) : c[i] = f[s[i]]
  BY <1>1 DEF Content
<1>4. Content(a, f) = [i \in 1..Len(s) + 1 |-> IF i = Len(s) + 1 THEN f[n] ELSE c[i]]
  BY <1>1, <1>3 DEF Content
<1> HIDE DEF c
<1>5. Append(c, f[n]) = [i \in 1..Len(s) + 1 |-> IF i = Len(s) + 1 THEN f[n] ELSE c[i]]
  BY <1>1, <1>2
<1>6. QED BY <1>4, <1>5 DEF c

\* Taking the first node out takes the first payload.
LEMMA ContentTail ==
  ASSUME NEW s \in Seq(Node), s # <<>>, NEW f \in [Node -> Data \cup {NULL}]
  PROVE  /\ Content(s, f) # <<>>
         /\ Head(Content(s, f)) = f[First(s)]
         /\ Content(Tail(s), f) = Tail(Content(s, f))
<1> DEFINE c == Content(s, f)
           r == Tail(s)
<1>1. /\ Len(s) \in Nat \ {0} /\ r \in Seq(Node) /\ Len(r) = Len(s) - 1
      /\ \A i \in 1..Len(s) - 1 : r[i] = s[i + 1]
      /\ \A i \in 1..Len(s) : s[i] \in Node
  BY HeadTailProperties, EmptySeq, ElementOfSeq
<1>2. c \in Seq(Data \cup {NULL}) /\ Len(c) = Len(s) /\ \A i \in 1..Len(s) : c[i] = f[s[i]]
  BY <1>1 DEF Content
<1> HIDE DEF c, r
<1>3. c # <<>> /\ Head(c) = c[1]
  BY <1>1, <1>2
<1>4. First(s) = s[1]
  BY DEF First
<1>5. /\ Tail(c) \in Seq(Data \cup {NULL}) /\ Len(Tail(c)) = Len(s) - 1
      /\ \A i \in 1..Len(s) - 1 : Tail(c)[i] = c[i + 1]
  BY <1>2, <1>3, HeadTailProperties
<1>6. Content(r, f) = Tail(c)
  <2>1. /\ Content(r, f) \in Seq(Data \cup {NULL}) /\ Len(Content(r, f)) = Len(s) - 1
        /\ \A i \in 1..Len(s) - 1 : Content(r, f)[i] = c[i + 1]
    BY <1>1, <1>2 DEF Content
  <2>2. QED BY <1>5, <2>1, SeqEqual
<1>7. QED BY <1>1, <1>2, <1>3, <1>4, <1>5, <1>6 DEF c, r

\* Writing to a node outside the list changes no element of it.
LEMMA ContentElsewhere ==
  ASSUME NEW s \in Seq(Node), NEW f \in [Node -> Data \cup {NULL}],
         NEW n \in Node, n \notin Cells(s), NEW d
  PROVE  Content(s, [f EXCEPT ![n] = d]) = Content(s, f)
BY DEF Content, Cells

\* There are payloads if there are nodes.
LEMMA ContentEmpty ==
  ASSUME NEW s \in Seq(Node), NEW f
  PROVE  (Content(s, f) = <<>>) <=> (s = <<>>)
<1>1. Len(s) \in Nat /\ ((s = <<>>) <=> (Len(s) = 0))
  BY EmptySeq
<1>2. CASE s = <<>>
  BY <1>1, <1>2 DEF Content
<1>3. CASE s # <<>>
  <2>1. DOMAIN Content(s, f) = 1..Len(s) /\ 1 \in 1..Len(s)
    BY <1>1, <1>3 DEF Content
  <2>2. DOMAIN <<>> = {}
    OBVIOUS
  <2>3. QED BY <1>3, <2>1, <2>2
<1>4. QED BY <1>2, <1>3

-----------------------------------------------------------------------------
(* Every step of the code is a step of the queue.                          *)

\* The payloads of the chain are the items of the queue, now and next.
LEMMA ItemsOf ==
  Items = Content(chain, data) /\ Items' = Content(chain', data')
BY DEF Items, Content

\* A step that neither links nor unlinks a node, nor fills one.
LEMMA ItemsKept ==
  ASSUME UNCHANGED <<chain, data>>
  PROVE  Items' = Items
BY DEF Items

\* One step of one thread.
LEMMA StepRefines ==
  ASSUME TypeOK, CallPlaces, MutexInv, LocalsInv, ListInv, HeapAccounted,
         NEW t \in Threads, Begin(t) \/ Continue(t)
  PROVE  Queue!Next \/ UNCHANGED Queue!fifoVars
<1> USE DEF TypeOK, CallPlaces, Val, Answered, Places, Calls,
           cells, calls, life, Goto, Return, Call
<1>1. CASE AQ_Init(t)
  BY <1>1, ItemsKept DEF AQ_Init, Queue!fifoVars
<1>2. CASE EnqueueCall(t)
  <2>1. PICK d \in Data, n \in Node \ live :
               /\ data' = [data EXCEPT ![n] = d]
               /\ val' = [val EXCEPT ![t] = d]
    BY <1>2 DEF EnqueueCall
  <2>2. n \notin Cells(chain)
    BY DEF HeapAccounted
  <2>3. Items' = Items
    <3>1. Content(chain, [data EXCEPT ![n] = d]) = Content(chain, data)
      <4>1. chain \in Seq(Node) /\ data \in [Node -> Data \cup {NULL}]
        OBVIOUS
      <4>2. QED BY ONLY <2>2, <4>1, ContentElsewhere
    <3>2. QED BY <1>2, <2>1, <3>1, ItemsOf DEF EnqueueCall
  <2>4. Queue!Invoke(t)
    <3>1. \A u \in Threads : Val(u)' = IF u = t THEN d ELSE Val(u)
      BY <1>2, <2>1 DEF EnqueueCall
    <3>2. \A u \in Threads : Answered(u)' <=> Answered(u)
      BY <1>2 DEF EnqueueCall
    <3>3. op[t] = "none" /\ op' = [op EXCEPT ![t] = "AQ_Enqueue"]
      BY <1>2 DEF EnqueueCall
    <3> HIDE DEF Answered, Val
    <3>4. [u \in Threads |-> Val(u)]'
            = [[u \in Threads |-> Val(u)] EXCEPT ![t] = d]
      BY <3>1
    <3>5. {u \in Threads : Answered(u)}' = {u \in Threads : Answered(u)}
      BY <3>2
    <3>6. QED BY <2>3, <3>3, <3>4, <3>5 DEF Queue!Invoke, Queue!Calls
  <2>5. QED BY <2>4 DEF Queue!Next
<1>3. CASE EnqueueFails(t)
  BY <1>3, ItemsKept DEF EnqueueFails, Queue!fifoVars
<1>4. CASE ReadCall(t)
  <2>1. PICK name \in {"AQ_Dequeue", "AQ_Empty", "AQ_Peek"} : Call(t, name)
    BY <1>4 DEF ReadCall
  <2>2. Queue!Invoke(t)
    <3>1. \A u \in Threads : Val(u)' = Val(u)
      BY <1>4, <2>1 DEF ReadCall
    <3>2. \A u \in Threads : Answered(u)' <=> Answered(u)
      BY <1>4, <2>1 DEF ReadCall
    <3>3. op[t] = "none" /\ op' = [op EXCEPT ![t] = name] /\ Items' = Items
      BY <1>4, <2>1, ItemsKept DEF ReadCall
    <3> HIDE DEF Answered, Val
    <3>4. QED BY <3>1, <3>2, <3>3 DEF Queue!Invoke, Queue!Calls
  <2>3. QED BY <2>2 DEF Queue!Next
<1>5. CASE EmptyAfterDestroy(t)
  <2>1. Queue!Invoke(t)
    BY <1>5, ItemsKept DEF EmptyAfterDestroy, Queue!Invoke, Queue!Calls
  <2>2. QED BY <2>1 DEF Queue!Next
<1>6. CASE DestroyCall(t)
  <2>1. Queue!Invoke(t)
    BY <1>6, ItemsKept DEF DestroyCall, Queue!Invoke, Queue!Calls
  <2>2. QED BY <2>1 DEF Queue!Next
<1>7. CASE Lock(t)
  BY <1>7, ItemsKept DEF Lock, Queue!fifoVars
<1>8. CASE Unlock(t)
  <2>1. CASE op'[t] = "none"
    <3>1. op[t] # "none" /\ Answered(t) /\ Return(t)
      BY <1>8, <2>1 DEF Unlock
    <3>2. \A u \in Threads : Val(u)' = IF u = t THEN NULL ELSE Val(u)
      BY <3>1
    <3>3. \A u \in Threads :
            Answered(u)' <=> u # t /\ Answered(u)
      BY <3>1
    <3>4. op' = [op EXCEPT ![t] = "none"] /\ Items' = Items
      BY <1>8, <3>1, ItemsKept DEF Unlock
    <3>5. Queue!Return(t)
      <4> HIDE DEF Answered, Val
      <4>1. QED BY <3>1, <3>2, <3>3, <3>4 DEF Queue!Return
    <3>6. QED BY <3>5 DEF Queue!Next
  <2>2. CASE op'[t] # "none"
    BY <1>8, <2>2, ItemsKept DEF Unlock, Queue!fifoVars
  <2>3. QED BY <2>1, <2>2
<1>9. CASE EnqueueFirst(t)
  BY <1>9, ItemsKept DEF EnqueueFirst, Queue!fifoVars
<1>10. CASE EnqueueFront(t)
  <2>1. op[t] = "AQ_Enqueue" /\ node[t] \in Node /\ data[node[t]] = val[t]
    BY <1>10, NullNotNode DEF EnqueueFront, LocalsInv, Private
  <2>2. Items' = Append(Items, val[t])
    <3>1. Content(Append(chain, node[t]), data)
            = Append(Content(chain, data), data[node[t]])
      BY <2>1, ContentAppend
    <3>2. QED BY <1>10, <2>1, <3>1, ItemsOf DEF EnqueueFront
  <2>3. Queue!Enqueue(t)
    BY <1>10, <2>1, <2>2 DEF EnqueueFront, Queue!Enqueue, Queue!Effect
  <2>4. QED BY <2>3 DEF Queue!Next
<1>11. CASE EnqueueLink(t)
  <2>1. op[t] = "AQ_Enqueue" /\ node[t] \in Node /\ data[node[t]] = val[t]
    BY <1>11, NullNotNode DEF EnqueueLink, LocalsInv, Private
  <2>2. Items' = Append(Items, val[t])
    <3>1. Content(Append(chain, node[t]), data)
            = Append(Content(chain, data), data[node[t]])
      BY <2>1, ContentAppend
    <3>2. QED BY <1>11, <2>1, <3>1, ItemsOf DEF EnqueueLink
  <2>3. Queue!Enqueue(t)
    BY <1>11, <2>1, <2>2 DEF EnqueueLink, Queue!Enqueue, Queue!Effect
  <2>4. QED BY <2>3 DEF Queue!Next
<1>12. CASE EnqueueRear(t)
  BY <1>12, ItemsKept DEF EnqueueRear, Queue!fifoVars
<1>13. CASE DequeueNothing(t)
  <2>1. InMutex(t) /\ front = First(chain)
    BY <1>13, Others DEF DequeueNothing, InMutex, ListInv
  <2>2. (front = NULL) <=> (Items = <<>>)
    BY <2>1, ItemsOf, ContentEmpty, EndsOfList, NullNotNode
  <2>3. val[t] = NULL
    BY <1>13 DEF DequeueNothing, LocalsInv
  <2>4. Queue!Dequeue(t)
    BY <1>13, <2>2, <2>3, ItemsKept DEF DequeueNothing, Queue!Dequeue, Queue!Effect
  <2>5. QED BY <2>4 DEF Queue!Next
<1>14. CASE DequeueRead(t)
  <2>1. \A u \in Threads : Val(u)' = Val(u)
    BY <1>14 DEF DequeueRead, LocalsInv
  <2>2. \A u \in Threads : Answered(u)' <=> Answered(u)
    BY <1>14 DEF DequeueRead
  <2>3. op' = op /\ Items' = Items
    BY <1>14, ItemsKept DEF DequeueRead
  <2>4. QED BY <2>1, <2>2, <2>3 DEF Queue!fifoVars
<1>15. CASE DequeueUnlink(t)
  <2>1. /\ chain # <<>> /\ node[t] = First(chain)
        /\ op[t] = "AQ_Dequeue" /\ val[t] = data[node[t]]
    BY <1>15 DEF DequeueUnlink, ListInv, LocalsInv
  <2>2. /\ Items # <<>> /\ Head(Items) = val[t]
        /\ Items' = Tail(Items)
    <3>1. /\ Content(chain, data) # <<>>
          /\ Head(Content(chain, data)) = data[First(chain)]
          /\ Content(Tail(chain), data) = Tail(Content(chain, data))
      BY <2>1, ContentTail
    <3>2. QED BY <1>15, <2>1, <3>1, ItemsOf DEF DequeueUnlink
  <2>3. Queue!Dequeue(t)
    <3>1. \A u \in Threads : Val(u)' = IF u = t THEN Head(Items) ELSE Val(u)
      BY <1>15, <2>1, <2>2 DEF DequeueUnlink
    <3>2. \A u \in Threads : Answered(u)' <=> u = t \/ Answered(u)
      BY <1>15 DEF DequeueUnlink
    <3>3. ~Answered(t) /\ op' = op
      BY <1>15 DEF DequeueUnlink
    <3> HIDE DEF Answered, Val
    <3>4. [u \in Threads |-> Val(u)]'
            = [[u \in Threads |-> Val(u)] EXCEPT ![t] = Head(Items)]
      BY <3>1
    <3>5. {u \in Threads : Answered(u)}'
            = {u \in Threads : Answered(u)} \cup {t}
      BY <3>2
    <3>6. op[t] = "AQ_Dequeue" /\ t \notin {u \in Threads : Answered(u)}
      BY <2>1, <3>3
    <3>7. Queue!Effect(t, "AQ_Dequeue", Head(Items), Tail(Items))
      BY ONLY <2>2, <3>3, <3>4, <3>5, <3>6 DEF Queue!Effect
    <3>8. QED BY <2>2, <3>7 DEF Queue!Dequeue
  <2>4. QED BY <2>3 DEF Queue!Next
<1>16. CASE DequeueFixRear(t)
  BY <1>16, ItemsKept DEF DequeueFixRear, Queue!fifoVars
<1>17. CASE DequeueFree(t)
  <2>1. op[t] # "none" /\ Answered(t)
    BY <1>17 DEF DequeueFree
  <2>2. \A u \in Threads : Val(u)' = IF u = t THEN NULL ELSE Val(u)
    BY <1>17 DEF DequeueFree
  <2>3. \A u \in Threads :
          Answered(u)' <=> u # t /\ Answered(u)
    BY <1>17 DEF DequeueFree
  <2>4. op' = [op EXCEPT ![t] = "none"] /\ Items' = Items
    BY <1>17, ItemsKept DEF DequeueFree
  <2>5. Queue!Return(t)
    <3> HIDE DEF Answered, Val
    <3>1. QED BY <2>1, <2>2, <2>3, <2>4 DEF Queue!Return
  <2>6. QED BY <2>5 DEF Queue!Next
<1>18. CASE EmptyRead(t)
  <2>1. InMutex(t) /\ front = First(chain)
    BY <1>18, Others DEF EmptyRead, InMutex, ListInv
  <2>2. (front = NULL) <=> (Items = <<>>)
    BY <2>1, ItemsOf, ContentEmpty, EndsOfList, NullNotNode
  <2>3. Queue!Empty(t)
    BY <1>18, <2>2, ItemsKept DEF EmptyRead, Queue!Empty, Queue!Effect
  <2>4. QED BY <2>3 DEF Queue!Next
<1>19. CASE PeekRead(t)
  <2>1. InMutex(t) /\ front = First(chain)
    BY <1>19, Others DEF PeekRead, InMutex, ListInv
  <2>2. (front = NULL) <=> (Items = <<>>)
    BY <2>1, ItemsOf, ContentEmpty, EndsOfList, NullNotNode
  <2>3. front # NULL => Head(Items) = data[front]
    BY <2>1, <2>2, ItemsOf, ContentTail, ContentEmpty
  <2>4. Queue!Peek(t)
    BY <1>19, <2>2, <2>3, ItemsKept DEF PeekRead, Queue!Peek, Queue!Effect
  <2>5. QED BY <2>4 DEF Queue!Next
<1>20. CASE DestroyStart(t)
  BY <1>20, ItemsKept DEF DestroyStart, Queue!fifoVars
<1>21. CASE DestroySweep(t)
  <2>1. chain # <<>> /\ op[t] = "AQ_Destroy"
    BY <1>21, EndsOfList DEF DestroySweep, ListInv
  <2>2. Items # <<>> /\ Items' = Tail(Items)
    <3>1. /\ Content(chain, data) # <<>>
          /\ Content(Tail(chain), data) = Tail(Content(chain, data))
      BY <2>1, ContentTail
    <3>2. QED BY <1>21, <3>1, ItemsOf DEF DestroySweep
  <2>3. Queue!Discard(t)
    BY <1>21, <2>1, <2>2 DEF DestroySweep, Queue!Discard
  <2>4. QED BY <2>3 DEF Queue!Next
<1>22. CASE DestroyClear(t)
  <2>1. chain = <<>> /\ op[t] = "AQ_Destroy" /\ val[t] = NULL
    BY <1>22, EndsOfList, NullNotNode DEF DestroyClear, ListInv, LocalsInv
  <2>2. Items = <<>>
    BY <2>1, ItemsOf, ContentEmpty
  <2>3. Queue!Destroy(t)
    BY <1>22, <2>1, <2>2, ItemsKept DEF DestroyClear, Queue!Destroy, Queue!Effect
  <2>4. QED BY <2>3 DEF Queue!Next
<1>23. CASE DestroyMutex(t)
  <2>1. op[t] # "none" /\ Answered(t)
    BY <1>23 DEF DestroyMutex
  <2>2. \A u \in Threads : Val(u)' = IF u = t THEN NULL ELSE Val(u)
    BY <1>23 DEF DestroyMutex
  <2>3. \A u \in Threads :
          Answered(u)' <=> u # t /\ Answered(u)
    BY <1>23 DEF DestroyMutex
  <2>4. op' = [op EXCEPT ![t] = "none"] /\ Items' = Items
    BY <1>23, ItemsKept DEF DestroyMutex
  <2>5. Queue!Return(t)
    <3> HIDE DEF Answered, Val
    <3>1. QED BY <2>1, <2>2, <2>3, <2>4 DEF Queue!Return
  <2>6. QED BY <2>5 DEF Queue!Next
<1>24. QED
  BY <1>1, <1>2, <1>3, <1>4, <1>5, <1>6, <1>7, <1>8, <1>9, <1>10, <1>11,
     <1>12, <1>13, <1>14, <1>15, <1>16, <1>17, <1>18, <1>19, <1>20, <1>21,
     <1>22, <1>23 DEF Begin, Continue

\* Callers of aqueue.c see a linearizable first-in first-out queue, for any
\* number of threads, any heap and any payloads.
THEOREM Linearizability == Spec => Linearizable
<1>1. Init => Queue!Init
  BY DEF Init, Queue!Init, Items, Val, Answered
<1>2. IInv /\ [Next]_vars => [Queue!Next]_(Queue!fifoVars)
  <2> SUFFICES ASSUME IInv, [Next]_vars
               PROVE  Queue!Next \/ UNCHANGED Queue!fifoVars
    OBVIOUS
  <2>1. ASSUME NEW t \in Threads, Begin(t) \/ Continue(t)
        PROVE  Queue!Next \/ UNCHANGED Queue!fifoVars
    BY <2>1, StepRefines DEF IInv
  <2>2. CASE UNCHANGED vars
    BY <2>2, ItemsKept
    DEF vars, cells, calls, life, Val, Answered, Queue!fifoVars
  <2>3. QED BY <2>1, <2>2 DEF Next, Exited
<1>3. QED BY <1>1, <1>2, Invariance, PTL DEF Spec, Linearizable, Queue!Spec

=============================================================================
