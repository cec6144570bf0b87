---------------------------- MODULE PadderProofs ----------------------------
(***************************************************************************)
(* Proofs about the padders and their registry.  PadBus: any number of     *)
(* threads, registrations and slots, and any names; Padding: every         *)
(* message, every block size and every width of a byte.                    *)
(***************************************************************************)
EXTENDS PadBus, Padding, FiniteSetTheorems, SequenceTheorems,
        WellFoundedInduction, TLAPS

-----------------------------------------------------------------------------
(* The inductive invariant.                                                *)

Slot == [used : {0, 1}, id : Ids, entry : Entries \cup {NULL}]

TypeInv ==
  /\ table \in [Ids -> Slot]
  /\ pending \in Seq(Entries) /\ deferred \in Seq(Entries)
  /\ making \in [Threads -> Entries \cup {NULL}]
  /\ hand \in Entries \cup {NULL}
  /\ phase \in {"constructors", "main", "exited"}
  /\ held \subseteq [slot : Ids, entry : Entries]
  /\ atOnce \subseteq Entries /\ refused \subseteq Entries
  /\ dropped \subseteq Entries /\ removed \subseteq Entries
  /\ early \subseteq Entries

\* A slot is blank, or it has its own index as its id and an entry.
SlotInv ==
  \A i \in Ids :
    table[i] = Zero \/ (/\ table[i].used = 1 /\ table[i].id = i
                        /\ table[i].entry \in Entries)

\* A registration that is being made has no fate yet, and is made once.
MakingInv ==
  \A t \in Threads : making[t] # NULL =>
    /\ making[t] \notin Accepted \cup refused
    /\ \A u \in Threads : making[u] = making[t] => u = t

\* Only what was accepted is anywhere.
AcceptedInv ==
  /\ \A e \in Entries : Tabled(e) => e \in Accepted
  /\ hand # NULL => hand \in Accepted
  /\ dropped \cup removed \subseteq Accepted

\* The queue holds the latest of the deferred registrations, in their order,
\* and PAD_Dequeue has the one before them in its hands.
QueueInv ==
  /\ \A k, l \in 1..Len(deferred) : deferred[k] = deferred[l] => k = l
  /\ phase = "exited" => pending = <<>>
  /\ phase # "exited" =>
       LET n == Len(deferred) - Len(pending) IN
       /\ n >= 0
       /\ \A k \in 1..Len(pending) : pending[k] = deferred[n + k]
       /\ hand # NULL => n >= 1 /\ hand = deferred[n]

Named(i) == NameOf(table[i].entry) # NULL

\* As long as nothing was removed, the slots with a name come first.
NamedFirst ==
  removed = {} => \A i, j \in Ids : i < j /\ Named(j) => Named(i)

\* What is accepted before main is early; something is dropped before main only
\* if more came than there are slots.
EarlyInv ==
  /\ IsFiniteSet(early)
  /\ phase = "constructors" => early = Accepted
  /\ phase = "constructors" /\ dropped # {}
       => Cardinality(early) > MaxPadders

IInv ==
  /\ TypeInv /\ SlotInv /\ MakingInv /\ AcceptedInv /\ QueueInv
  /\ NoneTwice /\ NoneLost /\ HeldStays
  /\ NamedFirst /\ DeferredInOrder
  /\ EarlyInv /\ BuiltinsPresent

-----------------------------------------------------------------------------
(* Slots.                                                                  *)

\* A set of numbers has a least one.
LEMMA Least ==
  ASSUME NEW T, T \subseteq Nat, T # {}
  PROVE  \E x \in T : \A y \in T : x <= y
<1> DEFINE R == OpToRel(<, Nat)
<1>1. \A x, y \in Nat : y < x => <<y, x>> \in R
  BY DEF OpToRel
<1>2. IsWellFoundedOn(R, Nat)
  BY NatLessThanWellFounded
<1> HIDE DEF R
<1>3. PICK x \in T : \A y \in T : ~(<<y, x>> \in R)
  BY <1>2, WFMin
<1>4. ASSUME NEW y \in T
      PROVE  x <= y
  <2>1. x \in Nat /\ y \in Nat
    OBVIOUS
  <2>2. ~(y < x)
    BY <1>1, <1>3, <2>1
  <2>3. QED BY <2>1, <2>2
<1>5. QED BY <1>4

\* The loops over the table find a slot if there is one.
LEMMA FirstFound ==
  ASSUME NEW ids, ids \subseteq Ids, ids # {}
  PROVE  First(ids) \in ids /\ \A j \in ids : First(ids) <= j
<1>1. ids \subseteq Nat
  BY PadBusAssumption DEF Ids
<1>2. \E i \in ids : \A j \in ids : i <= j
  BY <1>1, Least
<1>3. QED BY <1>2 DEF First

\* Slots are numbered by integers, and no slot is called -1.
LEMMA IdsAreNat == Ids \subseteq Nat /\ -1 \notin Ids /\ 0 \in Ids
BY PadBusAssumption DEF Ids

\* A registration that is placed takes the first slot without a name and
\* leaves the others as they are.
LEMMA Placed ==
  ASSUME TypeInv, SlotInv, NEW e \in Entries, Nameless # {},
         table' = Filled(e)
  PROVE  \E n \in Ids :
           /\ n = First(Nameless)
           /\ ~Named(n) /\ \A i \in Ids : i < n => Named(i)
           /\ table' \in [Ids -> Slot] /\ SlotInv'
           /\ table'[n].entry = e /\ table'[n].used = 1
           /\ \A i \in Ids \ {n} : table'[i] = table[i]
<1> DEFINE n == First(Nameless)
<1>1. n \in Nameless /\ \A j \in Nameless : n <= j
  BY FirstFound DEF Nameless
<1>2. n \in Ids /\ ~Named(n)
  BY <1>1 DEF Nameless, Named
<1>3. \A i \in Ids : i < n => Named(i)
  <2>1. ASSUME NEW i \in Ids, i < n, ~Named(i)
        PROVE  FALSE
    <3>1. i \in Nameless
      BY <2>1 DEF Nameless, Named
    <3>2. i \in Nat /\ n \in Nat
      BY <1>2, IdsAreNat
    <3>3. n <= i
      BY <1>1, <3>1
    <3> HIDE DEF n
    <3>4. QED BY <2>1, <3>2, <3>3
  <2>2. QED BY <2>1
<1> HIDE DEF n
<1>4. /\ table' = [table EXCEPT ![n] = [used |-> 1, id |-> n, entry |-> e]]
      /\ table \in [Ids -> Slot]
  BY DEF Filled, n, TypeInv
<1>5. /\ table'[n] = [used |-> 1, id |-> n, entry |-> e]
      /\ \A i \in Ids \ {n} : table'[i] = table[i]
  BY <1>2, <1>4
<1>6. table' \in [Ids -> Slot]
  <2>1. [used |-> 1, id |-> n, entry |-> e] \in Slot
    BY <1>2 DEF Slot
  <2>2. QED BY <1>4, <2>1
<1>7. SlotInv'
  BY <1>2, <1>5 DEF SlotInv
<1>8. QED BY <1>2, <1>3, <1>5, <1>6, <1>7 DEF n

-----------------------------------------------------------------------------
(* Sequences.                                                              *)

\* Appending adds one element.
LEMMA AppendAdds ==
  ASSUME NEW S, NEW q \in Seq(S), NEW x \in S
  PROVE  /\ Append(q, x) \in Seq(S) /\ Len(Append(q, x)) = Len(q) + 1
         /\ \A k \in 1..Len(q) : Append(q, x)[k] = q[k]
         /\ Append(q, x)[Len(q) + 1] = x
         /\ InSeq(Append(q, x)) = InSeq(q) \cup {x}
<1>1. /\ Append(q, x) \in Seq(S) /\ Len(Append(q, x)) = Len(q) + 1
      /\ \A k \in 1..Len(q) : Append(q, x)[k] = q[k]
      /\ Append(q, x)[Len(q) + 1] = x /\ Len(q) \in Nat
  OBVIOUS
<1> DEFINE a == Append(q, x)
<1> HIDE DEF a
<1>2. 1..Len(a) = (1..Len(q)) \cup {Len(q) + 1}
  BY <1>1 DEF a
<1>3. InSeq(a) = InSeq(q) \cup {x}
  BY <1>1, <1>2 DEF InSeq, a
<1>4. QED BY <1>1, <1>3 DEF a

\* Taking the first element out leaves the others, one place further.
LEMMA TailMoves ==
  ASSUME NEW S, NEW q \in Seq(S), q # <<>>
  PROVE  /\ Tail(q) \in Seq(S) /\ Len(Tail(q)) = Len(q) - 1 /\ Len(q) >= 1
         /\ \A k \in 1..Len(q) - 1 : Tail(q)[k] = q[k + 1]
         /\ Head(q) = q[1] /\ Head(q) \in S
         /\ InSeq(q) = InSeq(Tail(q)) \cup {Head(q)}
<1>1. /\ Tail(q) \in Seq(S) /\ Len(Tail(q)) = Len(q) - 1 /\ Len(q) >= 1
      /\ \A k \in 1..Len(q) - 1 : Tail(q)[k] = q[k + 1]
      /\ Head(q) = q[1] /\ Head(q) \in S /\ Len(q) \in Nat
  OBVIOUS
<1> DEFINE a == Tail(q)
<1> HIDE DEF a
<1>2. ASSUME NEW y \in InSeq(q)
      PROVE  y = Head(q) \/ y \in InSeq(a)
  <2>1. PICK k \in 1..Len(q) : y = q[k]
    BY <1>2 DEF InSeq
  <2>2. CASE k = 1
    BY <1>1, <2>1, <2>2
  <2>3. CASE k # 1
    <3>1. k - 1 \in 1..Len(q) - 1 /\ (k - 1) + 1 = k
      BY <1>1, <2>3
    <3>2. a[k - 1] = y /\ k - 1 \in 1..Len(a)
      BY <1>1, <2>1, <3>1 DEF a
    <3>3. QED BY <3>2 DEF InSeq
  <2>4. QED BY <2>2, <2>3
<1>3. \A y \in InSeq(a) : y \in InSeq(q)
  <2>1. ASSUME NEW k \in 1..Len(a)
        PROVE  a[k] \in InSeq(q)
    <3>1. k \in 1..Len(q) - 1 /\ k + 1 \in 1..Len(q)
      BY <1>1 DEF a
    <3>2. a[k] = q[k + 1]
      BY <1>1, <3>1 DEF a
    <3>3. QED BY <3>1, <3>2 DEF InSeq
  <2>2. QED BY <2>1 DEF InSeq
<1>4. Head(q) \in InSeq(q)
  BY <1>1 DEF InSeq
<1>5. QED BY <1>1, <1>2, <1>3, <1>4 DEF a

\* What is in the queue, or in the hands of PAD_Dequeue, was deferred.
LEMMA PendingDeferred ==
  ASSUME TypeInv, QueueInv
  PROVE  /\ InSeq(pending) \subseteq InSeq(deferred)
         /\ phase # "exited" /\ hand # NULL => hand \in InSeq(deferred)
         /\ InSeq(pending) \subseteq Accepted
         /\ \A x \in InSeq(deferred) : x \in Accepted
<1>1. Len(pending) \in Nat /\ Len(deferred) \in Nat
  BY DEF TypeInv
<1>2. CASE phase = "exited"
  <2>1. pending = <<>>
    BY <1>2 DEF QueueInv
  <2>2. InSeq(pending) = {}
    BY <2>1 DEF InSeq
  <2>3. QED BY <1>2, <2>2 DEF Accepted
<1>3. CASE phase # "exited"
  <2> DEFINE n == Len(deferred) - Len(pending)
  <2>1. /\ n >= 0 /\ \A k \in 1..Len(pending) : pending[k] = deferred[n + k]
        /\ hand # NULL => n >= 1 /\ hand = deferred[n]
    BY <1>3 DEF QueueInv
  <2>2. \A k \in 1..Len(pending) : n + k \in 1..Len(deferred)
    BY <1>1, <2>1
  <2>3. n >= 1 => n \in 1..Len(deferred)
    BY <1>1
  <2> HIDE DEF n
  <2>4. InSeq(pending) \subseteq InSeq(deferred)
    BY <2>1, <2>2 DEF InSeq
  <2>5. hand # NULL => hand \in InSeq(deferred)
    BY <2>1, <2>3 DEF InSeq
  <2>6. QED BY <2>4, <2>5 DEF Accepted
<1>4. QED BY <1>2, <1>3

-----------------------------------------------------------------------------
(* Placing a registration.                                                 *)

\* An accepted registration that is not in the table is placed: no slot with
\* a name is disturbed, and nobody's entry is there twice.
LEMMA PlacedKeeps ==
  ASSUME IInv, NEW e \in Entries, Nameless # {}, table' = Filled(e),
         ~Tabled(e), UNCHANGED <<removed, dropped>>
  PROVE  /\ table' \in [Ids -> Slot] /\ SlotInv' /\ Tabled(e)'
         /\ table'[First(Nameless)].entry = e
         /\ First(Nameless) \in Ids
         /\ table'[First(Nameless)].used = 1
         /\ \A x \in Entries : Tabled(x)' => Tabled(x) \/ x = e
         /\ \A x \in Entries : Tabled(x) => Tabled(x)' \/ Name[x] = NULL
         /\ \A x \in Entries : \A i, j \in Ids :
              table'[i].entry = x /\ table'[j].entry = x => i = j
         /\ NamedFirst'
         /\ \A i, j \in Ids :
              removed' = {} /\ table'[j].entry = e
                /\ table'[i].entry # e /\ Named(i)' => i < j
         /\ \A i \in Ids : table'[i].entry # e => table'[i] = table[i]
         /\ \A h \in held : HeldStays =>
              \/ table'[h.slot].used = 1 /\ table'[h.slot].entry = h.entry
              \/ h.entry \in removed
              \/ Name[h.entry] = NULL
<1>1. TypeInv /\ SlotInv /\ NoneTwice /\ NamedFirst /\ NULL \notin Entries
  BY PadBusAssumption DEF IInv
<1>2. PICK n \in Ids :
        /\ n = First(Nameless)
        /\ ~Named(n) /\ \A i \in Ids : i < n => Named(i)
        /\ table' \in [Ids -> Slot] /\ SlotInv'
        /\ table'[n].entry = e /\ table'[n].used = 1
        /\ \A i \in Ids \ {n} : table'[i] = table[i]
  BY <1>1, Placed
<1>3. \A x \in Entries : Tabled(x)' => Tabled(x) \/ x = e
  BY <1>2 DEF Tabled
<1>4. \A x \in Entries : Tabled(x) => Tabled(x)' \/ Name[x] = NULL
  <2>1. ASSUME NEW x \in Entries, NEW i \in Ids, table[i].entry = x
        PROVE  Tabled(x)' \/ Name[x] = NULL
    <3>1. CASE i = n
      BY <1>1, <1>2, <2>1, <3>1 DEF Named, NameOf
    <3>2. CASE i # n
      BY <1>2, <2>1, <3>2 DEF Tabled
    <3>3. QED BY <3>1, <3>2
  <2>2. QED BY <2>1 DEF Tabled
<1>5. \A i \in Ids \ {n} : table'[i].entry # e
  BY <1>2 DEF Tabled
<1>6. \A x \in Entries : \A i, j \in Ids :
        table'[i].entry = x /\ table'[j].entry = x => i = j
  BY <1>1, <1>2, <1>5 DEF NoneTwice
<1>7. \A i \in Ids \ {n} : Named(i)' <=> Named(i)
  BY <1>2 DEF Named
<1>8. ASSUME removed' = {}, NEW i \in Ids \ {n}, Named(i)'
      PROVE  i < n
  <2>1. Named(i) /\ removed = {}
    BY <1>7, <1>8
  <2>2. ~(n < i)
    BY <1>1, <1>2, <2>1 DEF NamedFirst
  <2>3. QED BY <2>2, IdsAreNat
<1>9. NamedFirst'
  <2>1. ASSUME removed' = {}, NEW i \in Ids, NEW j \in Ids, i < j, Named(j)'
        PROVE  Named(i)'
    <3>1. i # j /\ i \in Nat /\ j \in Nat /\ n \in Nat
      BY <2>1, IdsAreNat
    <3>2. CASE j = n
      BY <1>2, <1>7, <2>1, <3>1, <3>2
    <3>3. CASE j # n
      <4>1. j < n
        BY <1>8, <2>1, <3>3
      <4>2. i < n /\ i # n
        BY <2>1, <3>1, <4>1
      <4>3. QED BY <1>2, <1>7, <4>2
    <3>4. QED BY <3>2, <3>3
  <2>2. QED BY <2>1 DEF NamedFirst
<1>10. \A i, j \in Ids :
         removed' = {} /\ table'[j].entry = e
           /\ table'[i].entry # e /\ Named(i)' => i < j
  BY <1>2, <1>5, <1>8
<1>11. \A h \in held : HeldStays =>
         \/ table'[h.slot].used = 1 /\ table'[h.slot].entry = h.entry
         \/ h.entry \in removed
         \/ Name[h.entry] = NULL
  <2>1. ASSUME NEW h \in held, HeldStays,
               table[h.slot].used = 1, table[h.slot].entry = h.entry
        PROVE  \/ /\ table'[h.slot].used = 1
                  /\ table'[h.slot].entry = h.entry
               \/ Name[h.entry] = NULL
    <3>1. h.slot \in Ids /\ h.entry \in Entries
      BY <1>1 DEF TypeInv
    <3>2. CASE h.slot = n
      BY <1>1, <1>2, <2>1, <3>1, <3>2 DEF Named, NameOf
    <3>3. CASE h.slot # n
      BY <1>2, <2>1, <3>1, <3>3
    <3>4. QED BY <3>2, <3>3
  <2>2. QED BY <2>1 DEF HeldStays
<1>12. QED BY <1>2, <1>3, <1>4, <1>5, <1>6, <1>9, <1>10, <1>11 DEF Tabled

\* The entry of a registration that is not made yet is nowhere.
LEMMA FreshIsNowhere ==
  ASSUME IInv, NEW e \in Fresh
  PROVE  /\ e \in Entries /\ e \notin Accepted /\ e \notin refused
         /\ \A t \in Threads : making[t] # e
         /\ ~Tabled(e) /\ e # hand /\ e \notin dropped \cup removed
         /\ e \notin InSeq(pending) /\ e \notin InSeq(deferred)
<1>1. /\ e \in Entries /\ e \notin Accepted /\ e \notin refused
      /\ \A t \in Threads : making[t] # e
  BY DEF Fresh
<1>2. e # NULL
  BY <1>1, PadBusAssumption
<1>3. AcceptedInv
  BY DEF IInv
<1>4. e \notin InSeq(pending) /\ e \notin InSeq(deferred)
  BY <1>1, PendingDeferred DEF IInv
<1>5. QED BY <1>1, <1>2, <1>3, <1>4 DEF AcceptedInv

\* early has room for what was accepted.
LEMMA EarlyGrows ==
  ASSUME IInv, NEW e \in Entries, phase # "exited",
         UNCHANGED <<phase, dropped>>,
         Accepted' = Accepted \cup {e},
         early' = IF phase = "constructors" THEN early \cup {e} ELSE early
  PROVE  EarlyInv'
<1>1. EarlyInv /\ TypeInv
  BY DEF IInv
<1>2. CASE phase = "constructors"
  <2>1. early' = early \cup {e} /\ early = Accepted /\ IsFiniteSet(early)
    BY <1>1, <1>2 DEF EarlyInv
  <2>2. /\ IsFiniteSet(early')
        /\ Cardinality(early') = Cardinality(early)
             \/ Cardinality(early') = Cardinality(early) + 1
    BY <2>1, FS_AddElement
  <2>3. Cardinality(early) \in Nat /\ MaxPadders \in Nat
    BY <2>1, FS_CardinalityType, PadBusAssumption
  <2>4. dropped' # {} => Cardinality(early') > MaxPadders
    <3>1. dropped # {} => Cardinality(early) > MaxPadders
      BY <1>1, <1>2 DEF EarlyInv
    <3>2. QED BY <2>2, <2>3, <3>1
  <2>5. QED BY <1>2, <2>1, <2>2, <2>4 DEF EarlyInv
<1>3. CASE phase # "constructors"
  BY <1>1, <1>3 DEF EarlyInv
<1>4. QED BY <1>2, <1>3

-----------------------------------------------------------------------------
(* Registrations.                                                          *)

\* A registration that is refused takes its entry nowhere.
LEMMA RefuseKeeps ==
  ASSUME IInv, NEW e \in Fresh, Refuse(e),
         UNCHANGED <<table, pending, making, hand, phase, held>>
  PROVE  IInv'
<1>1. /\ refused' = refused \cup {e} /\ e \in Entries
      /\ UNCHANGED <<atOnce, deferred, dropped, removed, early>>
      /\ \A t \in Threads : making[t] # e
  BY FreshIsNowhere DEF Refuse
<1>2. TypeInv' /\ SlotInv'
  BY <1>1 DEF IInv, TypeInv, SlotInv
<1>3. MakingInv'
  BY <1>1 DEF IInv, MakingInv, Accepted
<1>4. AcceptedInv' /\ QueueInv'
  BY <1>1 DEF IInv, AcceptedInv, QueueInv, Accepted, Tabled
<1>5. NoneTwice' /\ NoneLost' /\ HeldStays'
  BY <1>1 DEF IInv, NoneTwice, NoneLost, HeldStays, Accepted, Tabled
<1>6. NamedFirst' /\ DeferredInOrder'
  BY <1>1 DEF IInv, NamedFirst, DeferredInOrder, Named
<1>7. EarlyInv' /\ BuiltinsPresent'
  BY <1>1 DEF IInv, EarlyInv, BuiltinsPresent, Accepted, Tabled
<1>8. QED BY <1>2, <1>3, <1>4, <1>5, <1>6, <1>7 DEF IInv

\* PAD_Register with an out_id.
LEMMA RegisterNowKeeps ==
  ASSUME IInv, RegisterNow
  PROVE  IInv'
<1>1. PICK e \in Fresh \ Builtins :
        \/ /\ Nameless # {} /\ table' = Filled(e)
           /\ held' = held \cup {[slot |-> First(Nameless), entry |-> e]}
           /\ atOnce' = atOnce \cup {e} /\ Accept(e)
           /\ UNCHANGED deferred
        \/ Nameless = {} /\ Refuse(e) /\ UNCHANGED <<table, held>>
  BY DEF RegisterNow
<1>2. UNCHANGED <<pending, making, hand, draining, phase>>
      /\ phase # "exited"
  BY DEF RegisterNow, Idle
<1>3. CASE Nameless = {}
  BY <1>1, <1>2, <1>3, RefuseKeeps
<1>4. CASE Nameless # {}
  <2>1. /\ table' = Filled(e)
        /\ held' = held \cup {[slot |-> First(Nameless), entry |-> e]}
        /\ atOnce' = atOnce \cup {e}
        /\ early' = IF phase = "constructors" THEN early \cup {e} ELSE early
        /\ UNCHANGED <<deferred, refused, dropped, removed>>
    BY <1>1, <1>4 DEF Accept
  <2>2. /\ e \in Entries /\ e \notin Accepted /\ e \notin refused
        /\ \A t \in Threads : making[t] # e
        /\ ~Tabled(e) /\ e # hand /\ e \notin dropped \cup removed
        /\ e \notin InSeq(pending) /\ e \notin InSeq(deferred)
        /\ e # NULL
    BY <1>1, FreshIsNowhere, PadBusAssumption
  <2>3. Accepted' = Accepted \cup {e}
    BY <2>1 DEF Accepted
  <2> DEFINE n == First(Nameless)
  <2>4. /\ table' \in [Ids -> Slot] /\ SlotInv' /\ Tabled(e)'
        /\ table'[n].entry = e /\ n \in Ids /\ table'[n].used = 1
    BY <1>4, <2>1, <2>2, PlacedKeeps
  <2>5. /\ \A x \in Entries : Tabled(x)' => Tabled(x) \/ x = e
        /\ \A x \in Entries : Tabled(x) => Tabled(x)' \/ Name[x] = NULL
        /\ \A x \in Entries : \A i, j \in Ids :
             table'[i].entry = x /\ table'[j].entry = x => i = j
        /\ NamedFirst'
        /\ \A i \in Ids : table'[i].entry # e => table'[i] = table[i]
    BY <1>4, <2>1, <2>2, PlacedKeeps
  <2>6. \A h \in held :
          \/ table'[h.slot].used = 1 /\ table'[h.slot].entry = h.entry
          \/ h.entry \in removed
          \/ Name[h.entry] = NULL
    BY <1>4, <2>1, <2>2, PlacedKeeps DEF IInv
  <2> HIDE DEF n
  <2>7. TypeInv'
    <3>1. [slot |-> First(Nameless), entry |-> e]
            \in [slot : Ids, entry : Entries]
      BY <2>2, <2>4 DEF n
    <3>2. held' \subseteq [slot : Ids, entry : Entries]
      BY <2>1, <3>1 DEF IInv, TypeInv
    <3>3. QED BY <1>2, <2>1, <2>2, <2>4, <3>2 DEF IInv, TypeInv
  <2>8. MakingInv'
    BY <1>2, <2>1, <2>2, <2>3 DEF IInv, MakingInv
  <2>9. AcceptedInv'
    BY <1>2, <2>1, <2>3, <2>5 DEF IInv, AcceptedInv
  <2>10. QueueInv'
    BY <1>2, <2>1 DEF IInv, QueueInv
  <2>11. NoneTwice'
    BY <1>2, <2>1, <2>2, <2>5 DEF IInv, NoneTwice
  <2>12. NoneLost'
    <3>1. \A x \in Accepted : x \in Entries
      BY DEF IInv, TypeInv, Accepted, InSeq
    <3>2. QED BY <1>2, <2>1, <2>3, <2>4, <2>5, <3>1 DEF IInv, NoneLost
  <2>13. HeldStays'
    BY <2>1, <2>4, <2>6 DEF HeldStays, n
  <2>14. DeferredInOrder'
    <3>1. \A k \in 1..Len(deferred) : deferred[k] # e
      BY <2>2 DEF InSeq
    <3>2. QED BY <2>1, <2>5, <3>1 DEF IInv, DeferredInOrder
  <2>15. EarlyInv'
    BY <1>2, <2>1, <2>2, <2>3, EarlyGrows
  <2>16. BuiltinsPresent'
    <3>1. \A b \in Builtins : b \in Entries /\ Name[b] # NULL
      BY PadBusAssumption
    <3>2. QED BY <1>2, <2>1, <2>5, <3>1 DEF IInv, BuiltinsPresent
  <2>17. QED BY <2>4, <2>5, <2>7, <2>8, <2>9, <2>10, <2>11, <2>12, <2>13,
             <2>14, <2>15, <2>16 DEF IInv
<1>5. QED BY <1>3, <1>4

\* PAD_Register without an out_id, until it has allocated its PAD_Pending.
LEMMA RegisterLaterKeeps ==
  ASSUME IInv, NEW t \in Threads, RegisterLater(t)
  PROVE  IInv'
<1>1. PICK e \in Fresh :
        \/ making' = [making EXCEPT ![t] = e] /\ UNCHANGED fates
        \/ Refuse(e) /\ UNCHANGED making
  BY DEF RegisterLater
<1>2. UNCHANGED <<table, pending, hand, draining, phase, held>>
      /\ making[t] = NULL
  BY DEF RegisterLater, Idle
<1>3. CASE Refuse(e) /\ UNCHANGED making
  BY <1>2, <1>3, RefuseKeeps
<1>4. CASE making' = [making EXCEPT ![t] = e] /\ UNCHANGED fates
  <2>1. UNCHANGED <<atOnce, deferred, refused, dropped, removed, early>>
    BY <1>4 DEF fates
  <2>2. /\ e \in Entries /\ e \notin Accepted /\ e \notin refused
        /\ \A u \in Threads : making[u] # e
    BY FreshIsNowhere
  <2>3. /\ making \in [Threads -> Entries \cup {NULL}]
        /\ \A u \in Threads : making'[u] = IF u = t THEN e ELSE making[u]
    BY <1>4 DEF IInv, TypeInv
  <2>4. TypeInv'
    BY <1>2, <1>4, <2>1, <2>2, <2>3 DEF IInv, TypeInv
  <2>5. MakingInv'
    BY <2>1, <2>2, <2>3 DEF IInv, MakingInv, Accepted
  <2>6. SlotInv' /\ AcceptedInv' /\ QueueInv'
    BY <1>2, <2>1 DEF IInv, SlotInv, AcceptedInv, QueueInv, Accepted, Tabled
  <2>7. NoneTwice' /\ NoneLost' /\ HeldStays'
    BY <1>2, <2>1 DEF IInv, NoneTwice, NoneLost, HeldStays, Accepted, Tabled
  <2>8. NamedFirst' /\ DeferredInOrder'
    BY <1>2, <2>1 DEF IInv, NamedFirst, DeferredInOrder, Named
  <2>9. EarlyInv' /\ BuiltinsPresent'
    BY <1>2, <2>1 DEF IInv, EarlyInv, BuiltinsPresent, Accepted, Tabled
  <2>10. QED BY <2>4, <2>5, <2>6, <2>7, <2>8, <2>9 DEF IInv
<1>5. QED BY <1>1, <1>3, <1>4

\* PAD_Register puts its PAD_Pending on the queue.
LEMMA EnqueueKeeps ==
  ASSUME IInv, NEW t \in Threads, Enqueue(t)
  PROVE  IInv'
<1> DEFINE e == making[t]
<1>1. /\ phase # "exited" /\ e # NULL
      /\ pending' = Append(pending, e)
      /\ making' = [making EXCEPT ![t] = NULL]
      /\ deferred' = Append(deferred, e)
      /\ early' = IF phase = "constructors" THEN early \cup {e} ELSE early
      /\ UNCHANGED <<atOnce, table, hand, draining, phase, held, refused,
                     dropped, removed>>
  BY DEF Enqueue, Accept
<1>2. /\ e \in Entries /\ e \notin Accepted /\ e \notin refused
      /\ \A u \in Threads : making[u] = e => u = t
  BY <1>1 DEF IInv, TypeInv, MakingInv
<1>3. /\ making \in [Threads -> Entries \cup {NULL}]
      /\ \A u \in Threads : making'[u] = IF u = t THEN NULL ELSE making[u]
  BY <1>1 DEF IInv, TypeInv
<1>4. /\ pending \in Seq(Entries) /\ deferred \in Seq(Entries)
      /\ Len(pending) \in Nat /\ Len(deferred) \in Nat
  BY DEF IInv, TypeInv
<1> HIDE DEF e
<1>5. /\ pending' \in Seq(Entries) /\ Len(pending') = Len(pending) + 1
      /\ \A k \in 1..Len(pending) : pending'[k] = pending[k]
      /\ pending'[Len(pending) + 1] = e
      /\ InSeq(pending)' = InSeq(pending) \cup {e}
  BY <1>1, <1>2, <1>4, AppendAdds
<1>6. /\ deferred' \in Seq(Entries) /\ Len(deferred') = Len(deferred) + 1
      /\ \A k \in 1..Len(deferred) : deferred'[k] = deferred[k]
      /\ deferred'[Len(deferred) + 1] = e
      /\ InSeq(deferred)' = InSeq(deferred) \cup {e}
  BY <1>1, <1>2, <1>4, AppendAdds
<1>7. Accepted' = Accepted \cup {e}
  BY <1>1, <1>6 DEF Accepted
<1>8. /\ ~Tabled(e) /\ e # hand /\ e \notin dropped \cup removed
      /\ e \notin InSeq(pending) /\ e \notin InSeq(deferred)
  BY <1>1, <1>2, PendingDeferred DEF IInv, AcceptedInv
<1>9. TypeInv' /\ SlotInv'
  BY <1>1, <1>2, <1>3, <1>5, <1>6 DEF IInv, TypeInv, SlotInv
<1>10. MakingInv'
  BY <1>1, <1>2, <1>3, <1>7 DEF IInv, MakingInv
<1>11. AcceptedInv'
  BY <1>1, <1>7 DEF IInv, AcceptedInv, Tabled
<1>12. QueueInv'
  <2>1. \A k \in 1..Len(deferred) : deferred[k] # e
    BY <1>8 DEF InSeq
  <2>2. \A k, l \in 1..Len(deferred)' :
          deferred'[k] = deferred'[l] => k = l
    <3>1. 1..Len(deferred)' = (1..Len(deferred)) \cup {Len(deferred) + 1}
      BY <1>4, <1>6
    <3>2. QED BY <1>6, <2>1, <3>1 DEF IInv, QueueInv
  <2> DEFINE n == Len(deferred) - Len(pending)
  <2>3. /\ n >= 0 /\ \A k \in 1..Len(pending) : pending[k] = deferred[n + k]
        /\ hand # NULL => n >= 1 /\ hand = deferred[n]
    BY <1>1 DEF IInv, QueueInv
  <2>4. Len(deferred)' - Len(pending)' = n /\ n \in Nat
    BY <1>4, <1>5, <1>6, <2>3
  <2>5. ASSUME NEW k \in 1..Len(pending)'
        PROVE  pending'[k] = deferred'[n + k]
    <3>1. CASE k = Len(pending) + 1
      <4>1. n + k = Len(deferred) + 1
        BY <1>4, <3>1
      <4>2. QED BY <1>5, <1>6, <3>1, <4>1
    <3>2. CASE k # Len(pending) + 1
      <4>1. k \in 1..Len(pending) /\ n + k \in 1..Len(deferred)
        BY <1>4, <1>5, <2>3, <3>2
      <4>2. pending'[k] = pending[k] /\ deferred'[n + k] = deferred[n + k]
        BY <1>5, <1>6, <4>1
      <4>3. QED BY <2>3, <4>1, <4>2
    <3>3. QED BY <3>1, <3>2
  <2>6. hand # NULL => n >= 1 /\ hand = deferred'[n]
    <3>1. n >= 1 => n \in 1..Len(deferred)
      BY <1>4
    <3>2. n >= 1 => deferred'[n] = deferred[n]
      BY <1>6, <3>1
    <3>3. QED BY <2>3, <3>2
  <2>7. QED BY <1>1, <2>2, <2>3, <2>4, <2>5, <2>6 DEF QueueInv
<1>13. NoneTwice'
  <2>1. \A k \in 1..Len(pending) : pending[k] # e
    BY <1>8 DEF InSeq
  <2>2. 1..Len(pending)' = (1..Len(pending)) \cup {Len(pending) + 1}
    BY <1>4, <1>5
  <2>3. ASSUME NEW x \in Entries
        PROVE  \A k, l \in 1..Len(pending)' :
                 pending'[k] = x /\ pending'[l] = x => k = l
    BY <1>5, <2>1, <2>2 DEF IInv, NoneTwice
  <2>4. ASSUME NEW x \in Entries
        PROVE  /\ \A i, j \in Ids :
                    table'[i].entry = x /\ table'[j].entry = x => i = j
               /\ Tabled(x)' =>
                    x \notin InSeq(pending)' \cup {hand} \cup dropped
                               \cup removed
               /\ x = hand =>
                    x \notin InSeq(pending)' \cup dropped \cup removed
               /\ x \in InSeq(pending)' => x \notin dropped \cup removed
    BY <1>1, <1>5, <1>8 DEF IInv, NoneTwice, Tabled
  <2>5. QED BY <1>1, <2>3, <2>4 DEF NoneTwice
<1>14. NoneLost'
  BY <1>1, <1>5, <1>7 DEF IInv, NoneLost, Tabled
<1>15. HeldStays' /\ NamedFirst'
  BY <1>1 DEF IInv, HeldStays, NamedFirst, Named
<1>16. DeferredInOrder'
  <2>1. 1..Len(deferred)' = (1..Len(deferred)) \cup {Len(deferred) + 1}
    BY <1>4, <1>6
  <2>2. \A i \in Ids : table[i].entry # e
    BY <1>8 DEF Tabled
  <2>3. ASSUME removed = {}, NEW i \in Ids, NEW j \in Ids,
               NEW k \in 1..Len(deferred)', NEW l \in 1..Len(deferred)', k < l,
               table[i].entry = deferred'[k], Name[deferred'[k]] # NULL,
               table[j].entry = deferred'[l], Name[deferred'[l]] # NULL
        PROVE  i < j
    <3>1. k \in 1..Len(deferred) /\ l \in 1..Len(deferred)
      BY <1>6, <2>1, <2>2, <2>3
    <3>2. deferred'[k] = deferred[k] /\ deferred'[l] = deferred[l]
      BY <1>6, <3>1
    <3>3. QED BY <2>3, <3>1, <3>2 DEF IInv, DeferredInOrder
  <2>4. QED BY <1>1, <2>3 DEF DeferredInOrder
<1>17. EarlyInv'
  BY <1>1, <1>2, <1>7, EarlyGrows
<1>18. BuiltinsPresent'
  BY <1>1 DEF IInv, BuiltinsPresent, Tabled
<1>19. QED BY <1>9, <1>10, <1>11, <1>12, <1>13, <1>14, <1>15, <1>16, <1>17,
           <1>18 DEF IInv

-----------------------------------------------------------------------------
(* PAD_Dequeue.                                                            *)

\* Calls that move no registration, and the end of the process.
LEMMA NothingMoves ==
  ASSUME IInv, UNCHANGED <<table, making, hand, fates>>,
         held' \subseteq [slot : Ids, entry : Entries], HeldStays',
         \/ UNCHANGED <<pending, phase>>
         \/ phase' = "exited" /\ pending' = <<>>
  PROVE  IInv'
<1>1. UNCHANGED <<atOnce, deferred, refused, dropped, removed, early>>
  BY DEF fates
<1>2. TypeInv' /\ SlotInv'
  <2>1. pending' \in Seq(Entries)
    <3>1. <<>> \in Seq(Entries)
      OBVIOUS
    <3>2. QED BY <3>1 DEF IInv, TypeInv
  <2>2. phase' \in {"constructors", "main", "exited"}
    BY DEF IInv, TypeInv
  <2>3. QED BY <1>1, <2>1, <2>2 DEF IInv, TypeInv, SlotInv
<1>3. MakingInv' /\ AcceptedInv'
  BY <1>1 DEF IInv, MakingInv, AcceptedInv, Accepted, Tabled
<1>4. QueueInv'
  BY <1>1 DEF IInv, QueueInv
<1>5. NoneTwice'
  <2>1. CASE UNCHANGED pending
    BY <1>1, <2>1 DEF IInv, NoneTwice, Tabled
  <2>2. CASE pending' = <<>>
    <3>1. InSeq(pending)' = {} /\ 1..Len(pending)' = {}
      BY <2>2 DEF InSeq
    <3>2. QED BY <1>1, <3>1 DEF IInv, NoneTwice, Tabled
  <2>3. QED BY <2>1, <2>2
<1>6. NoneLost'
  BY <1>1 DEF IInv, NoneLost, Accepted, Tabled
<1>7. NamedFirst' /\ DeferredInOrder'
  BY <1>1 DEF IInv, NamedFirst, DeferredInOrder, Named
<1>8. EarlyInv' /\ BuiltinsPresent'
  BY <1>1 DEF IInv, EarlyInv, BuiltinsPresent, Accepted, Tabled
<1>9. QED BY <1>2, <1>3, <1>4, <1>5, <1>6, <1>7, <1>8 DEF IInv

\* AQ_Dequeue: the oldest registration changes hands.
LEMMA TakeKeeps ==
  ASSUME IInv, DequeueTake
  PROVE  IInv'
<1>1. /\ phase # "exited" /\ hand = NULL /\ pending # <<>>
      /\ hand' = Head(pending) /\ pending' = Tail(pending)
      /\ UNCHANGED <<table, making, draining, phase, held, fates>>
  BY DEF DequeueTake
<1>2. UNCHANGED <<atOnce, deferred, refused, dropped, removed, early>>
  BY <1>1 DEF fates
<1>3. /\ pending \in Seq(Entries) /\ deferred \in Seq(Entries)
      /\ Len(pending) \in Nat /\ Len(deferred) \in Nat
  BY DEF IInv, TypeInv
<1>4. /\ pending' \in Seq(Entries) /\ Len(pending') = Len(pending) - 1
      /\ Len(pending) >= 1
      /\ \A k \in 1..Len(pending) - 1 : pending'[k] = pending[k + 1]
      /\ hand' = pending[1] /\ hand' \in Entries
      /\ InSeq(pending) = InSeq(pending)' \cup {hand'}
  BY <1>1, <1>3, TailMoves
<1>5. hand' \notin InSeq(pending)'
  <2>1. ASSUME NEW k \in 1..Len(pending'), pending'[k] = hand'
        PROVE  FALSE
    <3>1. /\ k \in 1..Len(pending) - 1 /\ k + 1 \in 1..Len(pending)
          /\ 1 \in 1..Len(pending) /\ k + 1 # 1
      BY <1>3, <1>4
    <3>2. pending[k + 1] = hand' /\ pending[1] = hand'
      BY <1>4, <2>1, <3>1
    <3>3. QED BY <1>4, <3>1, <3>2 DEF IInv, NoneTwice
  <2>2. QED BY <2>1 DEF InSeq
<1>6. TypeInv' /\ SlotInv'
  BY <1>1, <1>2, <1>4 DEF IInv, TypeInv, SlotInv
<1>7. MakingInv' /\ AcceptedInv'
  <2>1. hand' \in Accepted
    BY <1>4, PendingDeferred DEF IInv
  <2>2. QED BY <1>1, <1>2, <2>1
            DEF IInv, MakingInv, AcceptedInv, Accepted, Tabled
<1>8. QueueInv'
  <2> DEFINE n == Len(deferred) - Len(pending)
  <2>1. /\ n >= 0 /\ \A k \in 1..Len(pending) : pending[k] = deferred[n + k]
    BY <1>1 DEF IInv, QueueInv
  <2>2. /\ n + 1 = Len(deferred)' - Len(pending)' /\ n \in Nat
        /\ hand' = deferred[n + 1]
    BY <1>2, <1>3, <1>4, <2>1
  <2>3. ASSUME NEW k \in 1..Len(pending)'
        PROVE  pending'[k] = deferred'[n + 1 + k]
    <3>1. k \in 1..Len(pending) - 1 /\ k + 1 \in 1..Len(pending)
      BY <1>3, <1>4
    <3>2. n + (k + 1) = n + 1 + k
      BY <2>2, <3>1
    <3>3. QED BY <1>2, <1>4, <2>1, <3>1, <3>2
  <2> HIDE DEF n
  <2>4. QED BY <1>1, <1>2, <2>2, <2>3 DEF IInv, QueueInv
<1>9. NoneTwice'
  <2>1. \A x \in Entries : \A k, l \in 1..Len(pending)' :
          pending'[k] = x /\ pending'[l] = x => k = l
    <3>1. ASSUME NEW k \in 1..Len(pending'), NEW l \in 1..Len(pending'),
                 pending'[k] = pending'[l]
          PROVE  k = l
      <4>1. /\ k \in 1..Len(pending) - 1 /\ l \in 1..Len(pending) - 1
            /\ k + 1 \in 1..Len(pending) /\ l + 1 \in 1..Len(pending)
        BY <1>3, <1>4
      <4>2. pending[k + 1] = pending[l + 1] /\ pending[k + 1] \in Entries
        BY <1>3, <1>4, <3>1, <4>1
      <4>3. k + 1 = l + 1
        BY <4>1, <4>2 DEF IInv, NoneTwice
      <4>4. QED BY <4>1, <4>3
    <3>2. QED BY <3>1
  <2>2. \A x \in Entries :
          /\ Tabled(x)' => x \notin InSeq(pending)' \cup {hand'} \cup dropped
                                      \cup removed
          /\ x = hand' => x \notin InSeq(pending)' \cup dropped \cup removed
          /\ x \in InSeq(pending)' => x \notin dropped \cup removed
    BY <1>1, <1>4, <1>5 DEF IInv, NoneTwice, Tabled
  <2>3. QED BY <1>1, <1>2, <2>1, <2>2 DEF IInv, NoneTwice
<1>10. NoneLost'
  <2>1. \A e \in Accepted : e \in Entries
    BY DEF IInv, TypeInv, Accepted, InSeq
  <2>2. QED BY <1>1, <1>2, <1>4, <2>1, PadBusAssumption
            DEF IInv, NoneLost, Accepted, Tabled
<1>11. HeldStays' /\ NamedFirst' /\ DeferredInOrder'
  BY <1>1, <1>2 DEF IInv, HeldStays, NamedFirst, DeferredInOrder, Named
<1>12. EarlyInv' /\ BuiltinsPresent'
  BY <1>1, <1>2 DEF IInv, EarlyInv, BuiltinsPresent, Accepted, Tabled
<1>13. QED BY <1>6, <1>7, <1>8, <1>9, <1>10, <1>11, <1>12 DEF IInv

\* The entry in hand is placed.
LEMMA PlaceKeeps ==
  ASSUME IInv, DequeuePlace
  PROVE  IInv'
<1>e. PICK e \in Entries : e = hand
  BY DEF DequeuePlace, IInv, TypeInv
<1>1. /\ phase # "exited" /\ e # NULL /\ Nameless # {}
      /\ table' = Filled(e) /\ hand' = NULL
      /\ UNCHANGED <<pending, making, draining, phase, held, fates>>
  BY <1>e DEF DequeuePlace
<1>2. UNCHANGED <<atOnce, deferred, refused, dropped, removed, early>>
      /\ Accepted' = Accepted
  BY <1>1 DEF fates, Accepted
<1>3. /\ e \in Accepted /\ ~Tabled(e)
      /\ e \notin InSeq(pending) \cup dropped \cup removed
  BY <1>e, <1>1 DEF IInv, AcceptedInv, NoneTwice
<1>4. /\ table' \in [Ids -> Slot] /\ SlotInv' /\ Tabled(e)'
      /\ \A x \in Entries : Tabled(x)' => Tabled(x) \/ x = e
      /\ \A x \in Entries : Tabled(x) => Tabled(x)' \/ Name[x] = NULL
      /\ \A x \in Entries : \A i, j \in Ids :
           table'[i].entry = x /\ table'[j].entry = x => i = j
  BY <1>1, <1>2, <1>3, PlacedKeeps
<1>5. /\ NamedFirst'
      /\ \A i, j \in Ids :
           removed' = {} /\ table'[j].entry = e
             /\ table'[i].entry # e /\ Named(i)' => i < j
      /\ \A i \in Ids : table'[i].entry # e => table'[i] = table[i]
  BY <1>1, <1>2, <1>3, PlacedKeeps
<1>6. \A h \in held :
        \/ table'[h.slot].used = 1 /\ table'[h.slot].entry = h.entry
        \/ h.entry \in removed
        \/ Name[h.entry] = NULL
  BY <1>1, <1>2, <1>3, PlacedKeeps DEF IInv
<1>7. TypeInv'
  BY <1>1, <1>2, <1>4 DEF IInv, TypeInv
<1>8. MakingInv' /\ AcceptedInv'
  BY <1>e, <1>1, <1>2, <1>3, <1>4 DEF IInv, MakingInv, AcceptedInv
<1>9. QueueInv'
  BY <1>1, <1>2 DEF IInv, QueueInv
<1>10. NoneTwice'
  BY <1>e, <1>1, <1>2, <1>3, <1>4, PadBusAssumption DEF IInv, NoneTwice
<1>11. NoneLost'
  <2>1. \A x \in Accepted : x \in Entries
    BY DEF IInv, TypeInv, Accepted, InSeq
  <2>2. QED BY <1>e, <1>1, <1>2, <1>4, <2>1 DEF IInv, NoneLost
<1>12. HeldStays'
  BY <1>1, <1>2, <1>6 DEF HeldStays
<1>13. DeferredInOrder'
  <2> DEFINE n == Len(deferred) - Len(pending)
  <2>1. /\ n >= 1 /\ e = deferred[n] /\ n \in 1..Len(deferred)
        /\ \A k \in 1..Len(pending) : pending[k] = deferred[n + k]
        /\ Len(pending) \in Nat /\ Len(deferred) \in Nat
    BY <1>e, <1>1 DEF IInv, QueueInv, TypeInv
  <2>2. \A k, l \in 1..Len(deferred) : deferred[k] = deferred[l] => k = l
    BY DEF IInv, QueueInv
  <2>3. ASSUME NEW k \in 1..Len(deferred), Tabled(deferred[k])
        PROVE  k < n
    <3>1. deferred[k] \in Entries /\ deferred[k] # e
      BY <1>3, <2>3 DEF IInv, TypeInv
    <3>2. deferred[k] \notin InSeq(pending)
      BY <2>3, <3>1 DEF IInv, NoneTwice
    <3>3. ~(k > n)
      <4>1. ASSUME k > n
            PROVE  FALSE
        <5>1. k - n \in 1..Len(pending) /\ n + (k - n) = k
          BY <2>1, <4>1
        <5>2. pending[k - n] = deferred[k]
          BY <2>1, <5>1
        <5>3. QED BY <3>2, <5>1, <5>2 DEF InSeq
      <4>2. QED BY <4>1
    <3>4. k # n
      BY <2>1, <3>1
    <3>5. QED BY <2>1, <3>3, <3>4
  <2> HIDE DEF n
  <2>4. ASSUME removed = {}, NEW i \in Ids, NEW j \in Ids,
               NEW k \in 1..Len(deferred), NEW l \in 1..Len(deferred), k < l,
               table'[i].entry = deferred[k], Name[deferred[k]] # NULL,
               table'[j].entry = deferred[l], Name[deferred[l]] # NULL
        PROVE  i < j
    <3>1. CASE table'[i].entry = e
      <4>1. k = n
        BY <2>1, <2>2, <2>4, <3>1
      <4>2. table'[j].entry # e
        BY <2>1, <2>2, <2>4, <4>1
      <4>3. Tabled(deferred[l])
        BY <1>5, <2>4, <4>2 DEF Tabled
      <4>4. l < n
        BY <2>3, <4>3
      <4>5. QED BY <2>1, <2>4, <4>1, <4>4
    <3>2. CASE table'[i].entry # e /\ table'[j].entry = e
      <4>1. Named(i)'
        <5>1. deferred[k] \in Entries
          BY DEF IInv, TypeInv
        <5>2. QED BY <2>4, <5>1, PadBusAssumption DEF Named, NameOf
      <4>2. QED BY <1>2, <1>5, <2>4, <3>2, <4>1
    <3>3. CASE table'[i].entry # e /\ table'[j].entry # e
      <4>1. table[i].entry = deferred[k] /\ table[j].entry = deferred[l]
        BY <1>5, <2>4, <3>3
      <4>2. QED BY <2>4, <4>1 DEF IInv, DeferredInOrder
    <3>4. QED BY <3>1, <3>2, <3>3
  <2>5. QED BY <1>2, <2>4 DEF DeferredInOrder
<1>14. EarlyInv'
  BY <1>1, <1>2 DEF IInv, EarlyInv
<1>15. BuiltinsPresent'
  <2>1. \A b \in Builtins : b \in Entries /\ Name[b] # NULL
    BY PadBusAssumption
  <2>2. QED BY <1>1, <1>2, <1>4, <2>1 DEF IInv, BuiltinsPresent
<1>16. QED BY <1>4, <1>5, <1>7, <1>8, <1>9, <1>10, <1>11, <1>12, <1>13,
           <1>14, <1>15 DEF IInv

\* A full table and one registration more need more of them than slots.
LEMMA TooMany ==
  ASSUME IInv, phase = "constructors", Nameless = {}, hand # NULL
  PROVE  Cardinality(early) > MaxPadders
<1>1. /\ early = Accepted /\ IsFiniteSet(early)
      /\ hand \in Entries /\ hand \in early /\ ~Tabled(hand)
  BY DEF IInv, EarlyInv, TypeInv, AcceptedInv, NoneTwice
<1>2. \A i \in Ids : table[i].entry \in early \ {hand}
  <2>1. ASSUME NEW i \in Ids
        PROVE  table[i].entry \in early \ {hand}
    <3>1. table[i].entry # NULL /\ table[i] \in Slot
      BY DEF Nameless, NameOf, IInv, TypeInv
    <3>2. table[i].entry \in Entries
      BY <3>1 DEF Slot
    <3>3. QED BY <1>1, <3>2 DEF IInv, AcceptedInv, Tabled
  <2>2. QED BY <2>1
<1> DEFINE f == [i \in Ids |-> table[i].entry]
<1>3. f \in Injection(Ids, early \ {hand})
  <2>1. f \in [Ids -> early \ {hand}]
    BY <1>2
  <2>2. ASSUME NEW i \in Ids, NEW j \in Ids, f[i] = f[j]
        PROVE  i = j
    <3>1. table[i].entry = table[j].entry /\ table[i].entry \in Entries
      BY <1>2, <2>2 DEF IInv, EarlyInv, TypeInv
    <3>2. QED BY <3>1 DEF IInv, NoneTwice
  <2>3. QED BY <2>1, <2>2 DEF Injection, IsInjective
<1> HIDE DEF f
<1>4. /\ IsFiniteSet(early \ {hand})
      /\ Cardinality(early \ {hand}) = Cardinality(early) - 1
  BY <1>1, FS_RemoveElement
<1>5. Cardinality(Ids) <= Cardinality(early \ {hand})
  BY <1>3, <1>4, FS_Injection
<1>6. Cardinality(Ids) = MaxPadders
  <2>1. 0 \in Int /\ MaxPadders - 1 \in Int /\ ~(0 > MaxPadders - 1)
    BY PadBusAssumption
  <2>2. Cardinality(0..MaxPadders - 1) = (MaxPadders - 1) - 0 + 1
    BY <2>1, FS_Interval
  <2>3. QED BY <2>2, PadBusAssumption DEF Ids
<1>7. Cardinality(early) \in Nat /\ MaxPadders \in Nat
  BY <1>1, FS_CardinalityType, PadBusAssumption
<1>8. QED BY <1>4, <1>5, <1>6, <1>7

\* The entry in hand is dropped, because every slot has a name.
LEMMA DropKeeps ==
  ASSUME IInv, DequeueDrop
  PROVE  IInv'
<1>e. PICK e \in Entries : e = hand
  BY DEF DequeueDrop, IInv, TypeInv
<1>1. /\ phase # "exited" /\ hand # NULL /\ Nameless = {}
      /\ dropped' = dropped \cup {e} /\ hand' = NULL
      /\ UNCHANGED <<table, pending, making, draining, phase, held, atOnce,
                     deferred, refused, removed, early>>
      /\ Accepted' = Accepted
  BY <1>e DEF DequeueDrop, Accepted
<1>2. e \in Accepted /\ ~Tabled(e)
      /\ e \notin InSeq(pending) \cup dropped \cup removed
  BY <1>e, <1>1 DEF IInv, AcceptedInv, NoneTwice
<1>3. TypeInv' /\ SlotInv' /\ MakingInv'
  BY <1>1 DEF IInv, TypeInv, SlotInv, MakingInv
<1>4. AcceptedInv' /\ QueueInv'
  BY <1>1, <1>2 DEF IInv, AcceptedInv, QueueInv, Tabled
<1>5. NoneTwice'
  BY <1>1, <1>2, PadBusAssumption DEF IInv, NoneTwice, Tabled
<1>6. NoneLost'
  BY <1>e, <1>1 DEF IInv, NoneLost, Tabled
<1>7. HeldStays' /\ NamedFirst' /\ DeferredInOrder' /\ BuiltinsPresent'
  BY <1>1 DEF IInv, HeldStays, NamedFirst, DeferredInOrder, Named,
              BuiltinsPresent, Tabled
<1>8. EarlyInv'
  BY <1>1, TooMany DEF IInv, EarlyInv
<1>9. QED BY <1>3, <1>4, <1>5, <1>6, <1>7, <1>8 DEF IInv

\* The queue is empty, and main may start.
LEMMA EndKeeps ==
  ASSUME IInv, DequeueEnd
  PROVE  IInv'
<1>1. /\ phase # "exited" /\ hand = NULL /\ pending = <<>> /\ phase' = "main"
      /\ UNCHANGED <<table, pending, making, hand, held, atOnce, deferred,
                     refused, dropped, removed, early>>
      /\ Accepted' = Accepted
  BY DEF DequeueEnd, fates, Accepted
<1>2. TypeInv' /\ SlotInv' /\ MakingInv'
  BY <1>1 DEF IInv, TypeInv, SlotInv, MakingInv
<1>3. AcceptedInv' /\ QueueInv' /\ EarlyInv'
  BY <1>1 DEF IInv, AcceptedInv, QueueInv, EarlyInv, Tabled
<1>4. NoneTwice' /\ NoneLost'
  BY <1>1 DEF IInv, NoneTwice, NoneLost, Tabled
<1>5. HeldStays' /\ NamedFirst' /\ DeferredInOrder'
  BY <1>1 DEF IInv, HeldStays, NamedFirst, DeferredInOrder, Named
<1>6. BuiltinsPresent'
  <2>1. CASE phase = "main"
    BY <1>1, <2>1 DEF IInv, BuiltinsPresent, Tabled
  <2>2. CASE phase = "constructors"
    <3>1. SUFFICES ASSUME Cardinality(early) <= MaxPadders,
                          NEW b \in Builtins \cap early
                   PROVE  Tabled(b) \/ b \in removed
      BY <1>1 DEF BuiltinsPresent, Tabled
    <3>2. Cardinality(early) \in Nat /\ MaxPadders \in Nat
      BY FS_CardinalityType, PadBusAssumption DEF IInv, EarlyInv
    <3>3. dropped = {} /\ b \in Accepted
      BY <2>2, <3>1, <3>2 DEF IInv, EarlyInv
    <3>4. b \in Entries /\ Name[b] # NULL /\ b # NULL
      BY <3>1, PadBusAssumption
    <3>5. b \notin InSeq(pending) /\ b # hand
      BY <1>1, <3>4 DEF InSeq
    <3>6. QED BY <1>1, <3>3, <3>4, <3>5 DEF IInv, NoneLost
  <2>3. QED BY <1>1, <2>1, <2>2 DEF IInv, TypeInv
<1>7. QED BY <1>2, <1>3, <1>4, <1>5, <1>6 DEF IInv

-----------------------------------------------------------------------------
(* Look-ups and removal.                                                   *)

\* What the search for a name finds.
LEMMA FindFinds ==
  ASSUME TypeInv, SlotInv, NEW name
  PROVE  /\ Matching(name) = {} =>
              PAD_Find(name) = -1 /\ PAD_GetByName(name) = NULL
                /\ PAD_Get(PAD_Find(name)) = NULL
         /\ Matching(name) # {} =>
              /\ PAD_Find(name) \in Matching(name)
              /\ PAD_GetByName(name) = table[PAD_Find(name)].entry
              /\ PAD_Get(PAD_Find(name)) = table[PAD_Find(name)].entry
<1>1. CASE Matching(name) = {}
  BY <1>1, IdsAreNat DEF PAD_Find, PAD_GetByName, PAD_Get
<1>2. CASE Matching(name) # {}
  <2> DEFINE i == First(Matching(name))
  <2>1. i \in Matching(name)
    BY <1>2, FirstFound DEF Matching
  <2> HIDE DEF i
  <2>2. i \in Ids /\ table[i].used = 1 /\ table[i].id = i
    BY <2>1 DEF Matching, SlotInv, Zero
  <2>3. PAD_Find(name) = i
    BY <1>2, <2>2 DEF PAD_Find, i
  <2>4. PAD_GetByName(name) = table[i].entry /\ PAD_Get(i) = table[i].entry
    BY <1>2, <2>2 DEF PAD_GetByName, PAD_Get, i
  <2>5. QED BY <1>2, <2>1, <2>3, <2>4
<1>3. QED BY <1>1, <1>2

\* main keeps the id of a padder, or a pointer to it.
LEMMA GetKeeps ==
  ASSUME IInv, Get
  PROVE  IInv'
<1>1. PICK name \in {Name[e] : e \in Entries} :
        /\ PAD_Find(name) # -1
        /\ held' = held \cup {[slot |-> PAD_Find(name),
                               entry |-> PAD_Get(PAD_Find(name))]}
  BY DEF Get
<1>2. UNCHANGED <<table, pending, making, hand, draining, phase, fates>>
  BY DEF Get
<1> DEFINE i == PAD_Find(name)
           g == PAD_Get(i)
<1>3. i \in Matching(name) /\ g = table[i].entry
  BY <1>1, FindFinds DEF IInv
<1> HIDE DEF i, g
<1>4. i \in Ids /\ table[i].used = 1 /\ g \in Entries
  BY <1>3 DEF IInv, SlotInv, Matching, Zero
<1>5. held' = held \cup {[slot |-> i, entry |-> g]}
  BY <1>1 DEF i, g
<1>6. held' \subseteq [slot : Ids, entry : Entries]
  BY <1>4, <1>5 DEF IInv, TypeInv
<1>7. HeldStays'
  BY <1>2, <1>3, <1>4, <1>5 DEF IInv, HeldStays, fates
<1>8. QED BY <1>2, <1>6, <1>7, NothingMoves

\* PAD_Unregister blanks a slot, and no other.
LEMMA UnregisterKeeps ==
  ASSUME IInv, PAD_Unregister
  PROVE  IInv'
<1>1. PICK n \in Ids :
        /\ table[n] # Zero /\ table' = [table EXCEPT ![n] = Zero]
        /\ removed' = removed \cup {table[n].entry}
  BY DEF PAD_Unregister
<1>2. /\ UNCHANGED <<pending, making, hand, draining, phase, held, atOnce,
                     deferred, refused, dropped, early>>
      /\ phase # "exited" /\ Accepted' = Accepted
  BY DEF PAD_Unregister, Idle, Accepted
<1>3. PICK e \in Entries : e = table[n].entry
  BY <1>1 DEF IInv, SlotInv
<1>4. /\ removed' = removed \cup {e} /\ e \in Accepted /\ Tabled(e)
      /\ e \notin InSeq(pending) /\ e # hand /\ e \notin dropped \cup removed
  BY <1>1, <1>3 DEF IInv, AcceptedInv, NoneTwice, Tabled
<1>5. /\ table'[n] = Zero /\ \A i \in Ids \ {n} : table'[i] = table[i]
      /\ table' \in [Ids -> Slot]
  <2>1. Zero \in Slot
    BY IdsAreNat DEF Zero, Slot
  <2>2. table \in [Ids -> Slot]
    BY DEF IInv, TypeInv
  <2>3. QED BY <1>1, <2>1, <2>2
<1>6. /\ \A x \in Entries : Tabled(x)' => Tabled(x) /\ x # e
      /\ \A x \in Entries : Tabled(x) => Tabled(x)' \/ x = e
  <2>1. \A x \in Entries : Tabled(x)' => Tabled(x)
    BY <1>5, PadBusAssumption DEF Tabled, Zero
  <2>2. \A x \in Entries : Tabled(x) => Tabled(x)' \/ x = e
    BY <1>3, <1>5 DEF Tabled
  <2>3. \A i \in Ids : table'[i].entry # e
    <3>1. \A i \in Ids \ {n} : table[i].entry # e
      BY <1>3 DEF IInv, NoneTwice
    <3>2. Zero.entry # e
      BY PadBusAssumption DEF Zero
    <3>3. QED BY <1>5, <3>1, <3>2
  <2>4. ~Tabled(e)'
    BY <2>3 DEF Tabled
  <2>5. QED BY <2>1, <2>2, <2>4
<1>7. TypeInv' /\ SlotInv'
  BY <1>2, <1>4, <1>5 DEF IInv, TypeInv, SlotInv
<1>8. MakingInv' /\ AcceptedInv' /\ QueueInv'
  BY <1>2, <1>4, <1>6 DEF IInv, MakingInv, AcceptedInv, QueueInv
<1>9. NoneTwice'
  <2>1. \A x \in Entries : \A i, j \in Ids :
          table'[i].entry = x /\ table'[j].entry = x => i = j
    BY <1>5, PadBusAssumption DEF IInv, NoneTwice, Zero
  <2>2. QED BY <1>2, <1>4, <1>6, <2>1 DEF IInv, NoneTwice
<1>10. NoneLost'
  <2>1. \A x \in Accepted : x \in Entries
    BY DEF IInv, TypeInv, Accepted, InSeq
  <2>2. QED BY <1>2, <1>4, <1>6, <2>1 DEF IInv, NoneLost
<1>11. HeldStays'
  <2>1. ASSUME NEW h \in held
        PROVE  \/ table'[h.slot].used = 1 /\ table'[h.slot].entry = h.entry
               \/ h.entry \in removed'
               \/ Name[h.entry] = NULL
    <3>1. h.slot \in Ids
      BY DEF IInv, TypeInv
    <3>2. CASE h.slot = n
      BY <1>3, <1>4, <3>2 DEF IInv, HeldStays
    <3>3. CASE h.slot # n
      BY <1>4, <1>5, <3>1, <3>3 DEF IInv, HeldStays
    <3>4. QED BY <3>2, <3>3
  <2>2. QED BY <1>2, <2>1 DEF HeldStays
<1>12. NamedFirst' /\ DeferredInOrder'
  BY <1>4 DEF NamedFirst, DeferredInOrder
<1>13. EarlyInv' /\ BuiltinsPresent'
  <2>1. \A b \in Builtins : b \in Entries
    BY PadBusAssumption
  <2>2. QED BY <1>2, <1>4, <1>6, <2>1 DEF IInv, EarlyInv, BuiltinsPresent
<1>14. QED BY <1>7, <1>8, <1>9, <1>10, <1>11, <1>12, <1>13 DEF IInv

-----------------------------------------------------------------------------
(* The theorems.                                                           *)

\* Static storage is blank, and no registration has been made.
LEMMA Initially == Init => IInv
<1> SUFFICES ASSUME Init PROVE IInv
  OBVIOUS
<1>1. /\ table = [i \in Ids |-> Zero] /\ pending = <<>> /\ hand = NULL
      /\ making = [t \in Threads |-> NULL]
      /\ phase = "constructors" /\ held = {} /\ deferred = <<>>
      /\ atOnce = {} /\ refused = {} /\ dropped = {} /\ removed = {}
      /\ early = {}
  BY DEF Init
<1>2. TypeInv
  <2>1. Zero \in Slot
    BY IdsAreNat DEF Zero, Slot
  <2>2. <<>> \in Seq(Entries)
    OBVIOUS
  <2>3. QED BY <1>1, <2>1, <2>2 DEF TypeInv
<1>3. /\ \A i \in Ids : table[i] = Zero
      /\ \A e \in Entries : ~Tabled(e)
      /\ InSeq(<<>>) = {} /\ Accepted = {}
  BY <1>1, PadBusAssumption DEF Tabled, Zero, InSeq, Accepted
<1>4. SlotInv /\ MakingInv /\ AcceptedInv
  BY <1>1, <1>3 DEF SlotInv, MakingInv, AcceptedInv
<1>5. QueueInv
  BY <1>1 DEF QueueInv
<1>6. NoneTwice /\ NoneLost /\ HeldStays
  BY <1>1, <1>3, PadBusAssumption
     DEF NoneTwice, NoneLost, HeldStays, Tabled
<1>7. NamedFirst /\ DeferredInOrder
  <2>1. \A i \in Ids : ~Named(i)
    BY <1>3 DEF Named, NameOf, Zero
  <2>2. QED BY <1>1, <2>1 DEF NamedFirst, DeferredInOrder
<1>8. EarlyInv /\ BuiltinsPresent
  BY <1>1, <1>3, FS_EmptySet DEF EarlyInv, BuiltinsPresent
<1>9. QED BY <1>2, <1>4, <1>5, <1>6, <1>7, <1>8 DEF IInv

\* Every call of every thread preserves IInv.
LEMMA Inductive == IInv /\ [Next]_vars => IInv'
<1> SUFFICES ASSUME IInv, [Next]_vars PROVE IInv'
  OBVIOUS
<1>1. held \subseteq [slot : Ids, entry : Entries]
  BY DEF IInv, TypeInv
<1>2. ASSUME UNCHANGED <<table, held, removed>>
      PROVE  HeldStays'
  BY <1>2 DEF IInv, HeldStays
<1>3. ASSUME NEW t \in Threads, EnqueueFails(t)
      PROVE  IInv'
  BY <1>1, <1>2, <1>3, NothingMoves DEF EnqueueFails, fates
<1>4. CASE DequeueCall
  BY <1>1, <1>2, <1>4, NothingMoves DEF DequeueCall, fates
<1>5. CASE PAD_Shutdown
  BY <1>1, <1>2, <1>5, NothingMoves DEF PAD_Shutdown, fates
<1>6. CASE UNCHANGED vars
  BY <1>1, <1>2, <1>6, NothingMoves DEF vars, fates
<1>7. QED BY <1>3, <1>4, <1>5, <1>6, RegisterNowKeeps, RegisterLaterKeeps,
          EnqueueKeeps, TakeKeeps, PlaceKeeps, DropKeeps, EndKeeps, GetKeeps,
          UnregisterKeeps DEF Next, Drain, Exited

\* The table, the queue, the hands of PAD_Dequeue and the records of what was
\* dropped or removed fit together after every step: for any number of
\* threads, of registrations and of slots.
THEOREM Invariance == Spec => []IInv
<1>1. QED BY Initially, Inductive, PTL DEF Spec

\* No registration that was accepted is lost unless it has no name.
THEOREM NoneIsLost == Spec => []NoneLost
<1>1. IInv => NoneLost
  BY DEF IInv
<1>2. QED BY <1>1, Invariance, PTL

\* None is in two places, or in one place twice.
THEOREM NoneIsTwice == Spec => []NoneTwice
<1>1. IInv => NoneTwice
  BY DEF IInv
<1>2. QED BY <1>1, Invariance, PTL

\* Ids and pointers that callers hold keep their meaning until the padder is
\* unregistered, whatever other threads register meanwhile.
THEOREM HeldRemain == Spec => []HeldStays
<1>1. IInv => HeldStays
  BY DEF IInv
<1>2. QED BY <1>1, Invariance, PTL

\* Deferred registrations are placed in their order: the slots with a name
\* come first, so that the slot taken is after those of all earlier ones.
THEOREM OrderIsKept == Spec => []DeferredInOrder
<1>1. IInv => DeferredInOrder
  BY DEF IInv
<1>2. QED BY <1>1, Invariance, PTL

\* The padders of the library are in the table when main starts: one is dropped
\* only if more than MaxPadders registrations came before main.
THEOREM BuiltinsAreThere == Spec => []BuiltinsPresent
<1>1. IInv => BuiltinsPresent
  BY DEF IInv
<1>2. QED BY <1>1, Invariance, PTL

\* The ways of looking a name up agree with each other and with the table.
THEOREM LookupsCorrect == Spec => []LookupsAgree
<1>1. ASSUME TypeInv, SlotInv
      PROVE  LookupsAgree
  <2>1. SUFFICES ASSUME NEW name \in {Name[e] : e \in Entries} \ {NULL}
                 PROVE  /\ PAD_GetByName(name) = PAD_Get(PAD_Find(name))
                        /\ PAD_Find(name) = -1 <=>
                             \A e \in Entries : Tabled(e) => Name[e] # name
    BY DEF LookupsAgree
  <2>2. PAD_GetByName(name) = PAD_Get(PAD_Find(name))
    BY <1>1, FindFinds
  <2>3. PAD_Find(name) = -1 <=> Matching(name) = {}
    <3>1. Matching(name) \subseteq Ids
      BY DEF Matching
    <3>2. QED BY <1>1, <3>1, FindFinds, IdsAreNat
  <2>4. ASSUME NEW i \in Matching(name)
        PROVE  \E e \in Entries : Tabled(e) /\ Name[e] = name
    <3>1. i \in Ids /\ table[i].used = 1 /\ NameOf(table[i].entry) = name
      BY <2>4 DEF Matching
    <3>2. table[i].entry \in Entries
      BY <1>1, <3>1 DEF SlotInv, Zero
    <3>3. Name[table[i].entry] = name
      BY <3>1, <3>2, PadBusAssumption DEF NameOf
    <3>4. QED BY <3>1, <3>2, <3>3 DEF Tabled
  <2>5. ASSUME NEW e \in Entries, NEW i \in Ids, table[i].entry = e,
               Name[e] = name
        PROVE  i \in Matching(name)
    <3>1. e # NULL /\ name # NULL
      BY <2>1, PadBusAssumption
    <3>2. table[i].used = 1
      BY <1>1, <2>5, <3>1 DEF SlotInv, Zero
    <3>3. QED BY <2>5, <3>1, <3>2 DEF Matching, NameOf
  <2>6. Matching(name) = {} <=> \A e \in Entries : Tabled(e) => Name[e] # name
    BY <2>4, <2>5 DEF Tabled
  <2>7. QED BY <2>2, <2>3, <2>6
<1>2. IInv => LookupsAgree
  BY <1>1 DEF IInv
<1>3. QED BY <1>2, Invariance, PTL

\* PAD_CanRegister promises a slot although it looks at another field than the
\* search for one does.
THEOREM RoomIsThere == Spec => []RoomIsReal
<1>1. ASSUME SlotInv
      PROVE  RoomIsReal
  <2>1. \A i \in Ids : table[i].used = 0 <=> table[i].entry = NULL
    BY <1>1, PadBusAssumption DEF SlotInv, Zero
  <2>2. \A i \in PAD_PaddersLeft : i \in Nameless
    BY <2>1 DEF PAD_PaddersLeft, Nameless, NameOf
  <2>3. QED BY <2>1, <2>2 DEF RoomIsReal, PAD_CanRegister
<1>2. IInv => RoomIsReal
  BY <1>1 DEF IInv
<1>3. QED BY <1>2, Invariance, PTL

-----------------------------------------------------------------------------
(* Padding.                                                                *)

\* There is at least one byte of padding and at most a block.
LEMMA PadLenBounds ==
  ASSUME NEW n \in Nat, NEW b \in Nat \ {0}
  PROVE  PadLen(n, b) \in 1..b
<1>1. n % b \in 0..b - 1
  OBVIOUS
<1>2. QED BY <1>1 DEF PadLen

\* What padding appends: PadLen bytes, the last of which is their number.
LEMMA PaddedBytes ==
  ASSUME NEW p \in Padders, NEW s \in Seq(Byte), NEW b \in Nat \ {0}
  PROVE  LET n == Len(s)
             k == PadLen(n, b)
             d == Padded(p, s, b)
         IN  /\ d \in Seq(Byte) /\ Len(d) = n + k
             /\ \A i \in 1..n : d[i] = s[i]
             /\ d[n + k] = k % ByteMod
             /\ \A i \in 1..k - 1 :
                  d[n + i] = IF p = "pkcs7" THEN k % ByteMod ELSE 0
<1> DEFINE n == Len(s)
           k == PadLen(n, b)
           f == IF p = "pkcs7" THEN PKCS7_Fill(n, b) ELSE X923_Fill(n, b)
           d == Padded(p, s, b)
<1>1. n \in Nat /\ k \in Nat \ {0}
  <2>1. n \in Nat
    OBVIOUS
  <2>2. k \in 1..b
    BY <2>1, PadLenBounds
  <2>3. QED BY <2>1, <2>2
<1>2. k % ByteMod \in Byte /\ 0 \in Byte
  BY <1>1, PaddingAssumption DEF Byte
<1> HIDE DEF k
<1>3. /\ f \in Seq(Byte) /\ Len(f) = k
      /\ f[k] = k % ByteMod
      /\ \A i \in 1..k - 1 : f[i] = IF p = "pkcs7" THEN k % ByteMod ELSE 0
  <2>1. f = [i \in 1..k |-> IF p = "pkcs7" \/ i = k THEN k % ByteMod ELSE 0]
    BY DEF k, PKCS7_Fill, X923_Fill
  <2> HIDE DEF f
  <2>2. \A i \in 1..k : f[i] \in Byte
    BY <1>2, <2>1
  <2>3. f \in Seq(Byte) /\ Len(f) = k
    BY <1>1, <2>1, <2>2
  <2>4. k \in 1..k /\ \A i \in 1..k - 1 : i \in 1..k /\ i # k
    BY <1>1
  <2>5. QED BY <2>1, <2>3, <2>4
<1>4. d = s \o f
  BY DEF Padded
<1> HIDE DEF f, d
<1>5. /\ d \in Seq(Byte) /\ Len(d) = n + k
      /\ \A i \in 1..n + k : d[i] = IF i <= n THEN s[i] ELSE f[i - n]
  BY <1>1, <1>3, <1>4, ConcatProperties
<1> HIDE DEF n
<1>6. /\ \A i \in 1..n : d[i] = s[i]
      /\ d[n + k] = k % ByteMod
      /\ \A i \in 1..k - 1 : d[n + i] = IF p = "pkcs7" THEN k % ByteMod ELSE 0
  <2>1. \A i \in 1..n : d[i] = s[i]
    BY <1>1, <1>5
  <2>2. \A i \in 1..k : d[n + i] = f[i]
    <3>1. ASSUME NEW i \in 1..k PROVE d[n + i] = f[i]
      <4>1. n + i \in 1..n + k /\ ~(n + i <= n) /\ (n + i) - n = i
        BY <1>1
      <4>2. QED BY <1>5, <4>1
    <3>2. QED BY <3>1
  <2>3. k \in 1..k /\ \A i \in 1..k - 1 : i \in 1..k
    BY <1>1
  <2>4. QED BY <1>3, <2>1, <2>2, <2>3
<1>7. QED BY <1>5, <1>6 DEF d, k, n

-----------------------------------------------------------------------------
(* Unpadding.                                                              *)

\* The length of the rest, where the padding lies in the data.
LEMMA RestWithin ==
  ASSUME NEW d \in Seq(Byte), Len(d) < SizeMod,
         Last(d) \in Nat, Last(d) <= Len(d)
  PROVE  Rest(d) = Len(d) - Last(d)
<1>1. ASSUME NEW x \in Nat, x < SizeMod
      PROVE  x % SizeMod = x
  BY <1>1, PaddingAssumption
<1>2. Len(d) - Last(d) \in Nat /\ Len(d) - Last(d) < SizeMod
  BY PaddingAssumption
<1>3. QED BY <1>1, <1>2 DEF Rest

\* The same length where the padding is longer than the data: it is never
\* below that of the data.
LEMMA RestWraps ==
  ASSUME NEW d \in Seq(Byte), Last(d) \in Byte, Last(d) > Len(d)
  PROVE  Rest(d) \in Nat /\ Rest(d) >= Len(d)
<1> DEFINE n == Len(d)
           k == Last(d)
<1>1. /\ n \in Nat /\ k \in Nat /\ k < SizeMod /\ n < k
      /\ SizeMod \in Nat \ {0}
  BY PaddingAssumption DEF Byte
<1> HIDE DEF n, k
<1>2. (n - k) % SizeMod = SizeMod + n - k
  BY <1>1
<1>3. SizeMod + n - k \in Nat /\ SizeMod + n - k >= n
  BY <1>1
<1>4. QED BY <1>2, <1>3 DEF Rest, n, k

\* The last byte of data.
LEMMA LastByte ==
  ASSUME NEW d \in Seq(Byte), d # <<>>
  PROVE  Len(d) \in Nat \ {0} /\ Last(d) \in Byte /\ Last(d) \in Nat
<1>1. Len(d) \in Nat \ {0}
  BY EmptySeq
<1>2. QED BY <1>1, PaddingAssumption DEF Last, Byte

\* Unpadding takes Last(d) bytes away from d and leaves the others.
Takes(p, d, b) ==
  /\ Len(d) - Last(d) \in Nat
  /\ Last(d) \in 1..b /\ Last(d) \in Byte
  /\ Unpadded(p, d, b) \in Seq(Byte)
  /\ Len(Unpadded(p, d, b)) = Len(d) - Last(d)
  /\ \A j \in 1..Len(d) - Last(d) : Unpadded(p, d, b)[j] = d[j]
  /\ UnpadBounds(p, d, b) = {Len(d) - Last(d)}

\* What is left when a padding in the data has been found.
LEMMA TakesAway ==
  ASSUME NEW p, NEW d \in Seq(Byte), NEW b \in Nat \ {0}, Len(d) < SizeMod,
         Found(p, d, b), ~Strays(p, d, b)
  PROVE  Takes(p, d, b)
<1> DEFINE n == Len(d) - Last(d)
<1>1. /\ d # <<>> /\ Last(d) # 0 /\ Last(d) <= b /\ ~(Last(d) > Len(d))
  BY DEF Found, Plausible, Strays
<1>2. /\ Len(d) \in Nat \ {0} /\ Last(d) \in Byte /\ Last(d) \in Nat
  BY <1>1, LastByte
<1>3. /\ n \in Nat /\ Last(d) \in 1..b /\ n <= Len(d) /\ Rest(d) = n
      /\ Last(d) <= Len(d)
  BY <1>1, <1>2, RestWithin
<1> HIDE DEF n
<1>4. \A j \in 1..n : d[j] \in Byte
  BY <1>2, <1>3
<1>5. /\ SubSeq(d, 1, n) \in Seq(Byte) /\ Len(SubSeq(d, 1, n)) = n
      /\ \A j \in 1..n : SubSeq(d, 1, n)[j] = d[j]
  BY <1>3, <1>4, SubSeqProperties
<1>6. Unpadded(p, d, b) = SubSeq(d, 1, n) /\ UnpadBounds(p, d, b) = {n}
  BY <1>3 DEF Unpadded, UnpadBounds
<1>7. QED BY <1>2, <1>3, <1>5, <1>6 DEF n, Takes

\* What process leaves fits what bound has answered, and exactly if no loop
\* strays.
LEMMA UnpadFits ==
  ASSUME NEW p, NEW d \in Seq(Byte), NEW b \in Nat \ {0}, Len(d) < SizeMod,
         NEW u \in UnpadBounds(p, d, b)
  PROVE  /\ Unpadded(p, d, b) \in Seq(Byte)
         /\ u \in Nat /\ Len(Unpadded(p, d, b)) <= u
         /\ ~Strays(p, d, b) => Len(Unpadded(p, d, b)) = u
<1>0. Len(d) \in Nat
  OBVIOUS
<1>1. CASE Strays(p, d, b)
  <2>1. d # <<>> /\ Last(d) > Len(d)
    BY <1>1 DEF Strays, Found
  <2>2. Rest(d) \in Nat /\ Rest(d) >= Len(d)
    BY <2>1, LastByte, RestWraps
  <2>3. Unpadded(p, d, b) = d /\ (u = Len(d) \/ u = Rest(d))
    BY <1>1 DEF Unpadded, UnpadBounds
  <2>4. QED BY <1>0, <1>1, <2>2, <2>3
<1>2. CASE Found(p, d, b) /\ ~Strays(p, d, b)
  <2>1. Takes(p, d, b)
    BY <1>2, TakesAway
  <2>2. QED BY <1>2, <2>1 DEF Takes
<1>3. CASE ~Found(p, d, b)
  <2>1. ~Strays(p, d, b)
    BY <1>3 DEF Strays
  <2>2. Unpadded(p, d, b) = d /\ u = Len(d)
    BY <1>3, <2>1 DEF Unpadded, UnpadBounds
  <2>3. QED BY <1>0, <2>2
<1>4. QED BY <1>1, <1>2, <1>3

\* No loop leaves data of at least a block.
LEMMA StraysInShort ==
  ASSUME NEW p, NEW d \in Seq(Byte), NEW b \in Nat \ {0}, Strays(p, d, b)
  PROVE  Len(d) < b
<1>1. d # <<>> /\ Last(d) <= b /\ Last(d) > Len(d)
  BY DEF Strays, Found, Plausible
<1>2. Len(d) \in Nat /\ Last(d) \in Nat
  BY <1>1, LastByte
<1>3. QED BY <1>1, <1>2

-----------------------------------------------------------------------------
(* There and back.                                                         *)

\* Unpadding takes off what padding has put on.
LEMMA UnpadPadded ==
  ASSUME NEW p \in Padders, NEW s \in Seq(Byte), NEW b \in Nat \ {0},
         PadLen(Len(s), b) < ByteMod, Len(s) + b < SizeMod
  PROVE  Unpadded(p, Padded(p, s, b), b) = s
<1> DEFINE n == Len(s)
           k == PadLen(n, b)
           d == Padded(p, s, b)
<1>1. n \in Nat /\ k \in 1..b /\ k % ByteMod = k
  <2>1. n \in Nat /\ k \in 1..b
    BY PadLenBounds
  <2>2. k \in 0..ByteMod - 1 /\ ByteMod \in Nat \ {0, 1}
    BY <2>1, PaddingAssumption
  <2>3. QED BY <2>1, <2>2
<1>2. /\ d \in Seq(Byte) /\ Len(d) = n + k
      /\ \A i \in 1..n : d[i] = s[i]
      /\ d[n + k] = k
      /\ \A i \in 1..k - 1 : d[n + i] = IF p = "pkcs7" THEN k ELSE 0
  <2>1. /\ d \in Seq(Byte) /\ Len(d) = n + k
        /\ \A i \in 1..n : d[i] = s[i]
        /\ d[n + k] = k % ByteMod
        /\ \A i \in 1..k - 1 :
             d[n + i] = IF p = "pkcs7" THEN k % ByteMod ELSE 0
    BY PaddedBytes
  <2> HIDE DEF n, k, d
  <2>2. QED BY <1>1, <2>1
<1>3. Len(d) < SizeMod
  <2>1. n + b < SizeMod
    OBVIOUS
  <2> HIDE DEF n, k, d
  <2>2. QED BY <1>1, <1>2, <2>1, PaddingAssumption
<1> HIDE DEF n, k, d
<1>4. d # <<>> /\ Last(d) = k /\ Plausible(d, b)
  BY <1>1, <1>2 DEF Last, Plausible
<1>5. Matches(p, d)
  <2>1. \A i \in 1..k - 1 : d[Len(d) - i] = IF p = "pkcs7" THEN k ELSE 0
    <3>1. ASSUME NEW i \in 1..k - 1
          PROVE  d[Len(d) - i] = IF p = "pkcs7" THEN k ELSE 0
      <4>1. k - i \in 1..k - 1 /\ Len(d) - i = n + (k - i)
        BY <1>1, <1>2
      <4>2. QED BY <1>2, <4>1
    <3>2. QED BY <3>1
  <2>2. d[Len(d) - 0] = k
    BY <1>1, <1>2
  <2>3. QED BY <1>1, <1>4, <2>1, <2>2 DEF Matches, PKCS7_Matches, X923_Matches
<1>6. Found(p, d, b) /\ ~Strays(p, d, b)
  <2>1. ~(Last(d) > Len(d))
    BY <1>1, <1>2, <1>4
  <2>2. QED BY <1>4, <1>5, <2>1 DEF Found, Strays
<1>7. /\ Unpadded(p, d, b) \in Seq(Byte)
      /\ Len(Unpadded(p, d, b)) = Len(d) - Last(d)
      /\ \A j \in 1..Len(d) - Last(d) : Unpadded(p, d, b)[j] = d[j]
  <2>1. Takes(p, d, b)
    BY <1>2, <1>3, <1>6, TakesAway
  <2>2. QED BY <2>1 DEF Takes
<1>8. Len(d) - Last(d) = n
  BY <1>1, <1>2, <1>4
<1>9. QED BY <1>2, <1>7, <1>8, SeqEqual DEF n, d

\* Of two numbers less than b apart one only is a multiple of b.
LEMMA SameMultiple ==
  ASSUME NEW b \in Nat \ {0}, NEW x \in Int, NEW y \in Int,
         NEW r \in 0..b - 1, NEW t \in 0..b - 1, b * x + r = b * y + t
  PROVE  r = t
<1>1. b * (x - y) = t - r
  OBVIOUS
<1>2. x - y >= 1 => b * (x - y) >= b
  OBVIOUS
<1>3. x - y <= -1 => b * (x - y) <= -b
  OBVIOUS
<1>4. x - y = 0
  BY <1>1, <1>2, <1>3
<1>5. QED BY <1>1, <1>4

\* What is missing to whole blocks after k bytes were taken from them is k.
LEMMA MissingIsTaken ==
  ASSUME NEW n \in Nat, NEW b \in Nat \ {0}, n % b = 0,
         NEW k \in 1..b, k <= n
  PROVE  PadLen(n - k, b) = k
<1> DEFINE q == n \div b
           m == n - k
           r == m % b
           s == m \div b
<1>1. n = b * q /\ q \in Nat
  OBVIOUS
<1>2. m \in Nat /\ m = b * s + r /\ s \in Nat /\ r \in 0..b - 1
  OBVIOUS
<1>3. b * (q - 1) = b * q - b
  BY <1>1
<1> HIDE DEF q, r, s
<1>4. m = b * (q - 1) + (b - k) /\ b - k \in 0..b - 1 /\ q - 1 \in Int
  BY <1>1, <1>3
<1> HIDE DEF m
<1>5. r = b - k
  <2>1. b * s + r = b * (q - 1) + (b - k) /\ s \in Int
    BY <1>2, <1>4
  <2>2. QED BY <1>2, <1>4, <2>1, SameMultiple
<1>6. PadLen(m, b) = b - r
  BY DEF PadLen, r
<1>7. QED BY <1>5, <1>6 DEF m

\* Padding puts on again what unpadding took off whole blocks.
LEMMA PadUnpadded ==
  ASSUME NEW p \in Padders, NEW d \in Seq(Byte), NEW b \in Nat \ {0},
         Len(d) < SizeMod, Len(d) % b = 0,
         Found(p, d, b), ~Strays(p, d, b)
  PROVE  Padded(p, Unpadded(p, d, b), b) = d
<1> DEFINE k == Last(d)
           n == Len(d) - k
           u == Unpadded(p, d, b)
           e == Padded(p, u, b)
<1>1. /\ n \in Nat /\ k \in 1..b /\ k \in Byte
      /\ u \in Seq(Byte) /\ Len(u) = n /\ \A j \in 1..n : u[j] = d[j]
  <2>1. Takes(p, d, b)
    BY TakesAway
  <2>2. QED BY <2>1 DEF Takes
<1>2. Len(d) \in Nat /\ Len(d) = n + k /\ k <= Len(d) /\ d[n + k] = k
  <2>1. Len(d) \in Nat /\ k \in Nat
    BY <1>1
  <2>2. QED BY <1>1, <2>1 DEF Last
<1>3. PadLen(n, b) = k
  BY <1>1, <1>2, MissingIsTaken
<1>4. k % ByteMod = k
  <2>1. k \in 0..ByteMod - 1 /\ ByteMod \in Nat \ {0}
    BY <1>1, PaddingAssumption DEF Byte
  <2> HIDE DEF k
  <2>2. QED BY <2>1
<1>5. \A i \in 1..k - 1 : d[n + i] = IF p = "pkcs7" THEN k ELSE 0
  <2>1. Matches(p, d)
    BY DEF Found
  <2>2. ASSUME NEW i \in 1..k - 1
        PROVE  d[n + i] = IF p = "pkcs7" THEN k ELSE 0
    <3> DEFINE j == k - i
    <3>1. /\ j \in 0..k - 1 /\ j \in 1..k - 1 /\ j < Len(d)
          /\ Len(d) - j = n + i
      BY <1>1, <1>2
    <3> HIDE DEF j, n
    <3>2. CASE p = "pkcs7"
      BY <2>1, <3>1, <3>2 DEF Matches, PKCS7_Matches
    <3>3. CASE p # "pkcs7"
      BY <2>1, <3>1, <3>3 DEF Matches, X923_Matches
    <3>4. QED BY <3>2, <3>3
  <2>3. QED BY <2>2
<1>6. /\ e \in Seq(Byte) /\ Len(e) = n + k
      /\ \A i \in 1..n : e[i] = u[i]
      /\ e[n + k] = k
      /\ \A i \in 1..k - 1 : e[n + i] = IF p = "pkcs7" THEN k ELSE 0
  <2>1. u \in Seq(Byte)
    BY <1>1
  <2> HIDE DEF n, k, u
  <2>2. /\ e \in Seq(Byte) /\ Len(e) = Len(u) + PadLen(Len(u), b)
        /\ \A i \in 1..Len(u) : e[i] = u[i]
        /\ e[Len(u) + PadLen(Len(u), b)] = PadLen(Len(u), b) % ByteMod
        /\ \A i \in 1..PadLen(Len(u), b) - 1 :
             e[Len(u) + i] =
               IF p = "pkcs7" THEN PadLen(Len(u), b) % ByteMod ELSE 0
    BY <2>1, PaddedBytes
  <2> HIDE DEF e
  <2>3. QED BY <1>1, <1>3, <1>4, <2>2
<1> HIDE DEF n, k, e, u
<1>7. \A i \in 1..n + k : e[i] = d[i]
  <2>1. ASSUME NEW i \in 1..n + k
        PROVE  e[i] = d[i]
    <3>1. CASE i \in 1..n
      BY <1>1, <1>6, <3>1
    <3>2. CASE i = n + k
      BY <1>2, <1>6, <3>2
    <3>3. CASE i > n /\ i < n + k
      <4>1. i - n \in 1..k - 1 /\ n + (i - n) = i
        BY <1>1, <3>3
      <4> DEFINE j == i - n
      <4> HIDE DEF j
      <4>2. j \in 1..k - 1 /\ n + j = i
        BY <4>1 DEF j
      <4>3. e[n + j] = IF p = "pkcs7" THEN k ELSE 0
        BY <1>6, <4>2
      <4>4. d[n + j] = IF p = "pkcs7" THEN k ELSE 0
        BY <1>5, <4>2
      <4>5. QED BY <4>2, <4>3, <4>4
    <3>4. k \in Nat /\ n \in Nat
      BY <1>1
    <3>5. i \in 1..n \/ i = n + k \/ (i > n /\ i < n + k)
      BY <3>4
    <3>6. QED BY <3>1, <3>2, <3>3, <3>5
  <2>2. QED BY <2>1
<1>8. QED BY <1>2, <1>6, <1>7, SeqEqual DEF e, u

-----------------------------------------------------------------------------
(* Whole blocks.                                                           *)

\* Data in whole blocks that is not empty has at least one block.
LEMMA OneBlockAtLeast ==
  ASSUME NEW n \in Nat \ {0}, NEW b \in Nat \ {0}, n % b = 0
  PROVE  n >= b
<1>1. n < b => n % b = n
  OBVIOUS
<1>2. QED BY <1>1

\* The length of padded data is the next multiple of the block size.
LEMMA PadsToWholeBlocks ==
  ASSUME NEW n \in Nat, NEW b \in Nat \ {0}
  PROVE  PadBound(n, b) % b = 0
<1> DEFINE q == n \div b
           r == n % b
<1>1. n = b * q + r /\ q \in Nat /\ r \in 0..b - 1
  OBVIOUS
<1>2. PadBound(n, b) = n + (b - r)
  BY DEF PadBound, PadLen
<1> HIDE DEF q, r
<1>3. n + (b - r) = b * q + b
  BY <1>1
<1>4. b * q + b = b * (q + 1) /\ q + 1 \in Nat
  BY <1>1
<1>5. ASSUME NEW m \in Nat PROVE (b * m) % b = 0
  OBVIOUS
<1>6. QED BY <1>2, <1>3, <1>4, <1>5

\* The constants of a caller.
LEMMA CallerTypes ==
  ASSUME TypeOK
  PROVE  /\ padder \in Padders /\ bs \in Nat \ {0} /\ given \in Seq(Byte)
         /\ Len(given) \in Nat /\ Len(given) + bs < SizeMod
         /\ SizeMod \in Nat
BY PaddingAssumption DEF TypeOK

\* The data to unpad fits in memory, and only short data leads a loop astray.
LEMMA SourceFits ==
  ASSUME TypeOK
  PROVE  /\ Source \in Seq(Byte) /\ Len(Source) < SizeMod
         /\ Strays(padder, Source, bs) => Short
<1>1. /\ padder \in Padders /\ bs \in Nat \ {0} /\ given \in Seq(Byte)
      /\ Len(given) \in Nat /\ Len(given) + bs < SizeMod /\ SizeMod \in Nat
  BY CallerTypes
<1>2. CASE foreign
  <2>1. Source = given
    BY <1>2 DEF Source
  <2>2. Strays(padder, given, bs) => Len(given) < bs
    BY <1>1, StraysInShort
  <2>3. QED BY <1>1, <1>2, <2>1, <2>2 DEF Short
<1>3. CASE ~foreign
  <2> DEFINE d == Padded(padder, given, bs)
             k == PadLen(Len(given), bs)
  <2>1. Source = d
    BY <1>3 DEF Source
  <2>2. d \in Seq(Byte) /\ Len(d) = Len(given) + k /\ k \in 1..bs
    BY <1>1, PaddedBytes, PadLenBounds
  <2>3. Len(d) % bs = 0
    BY <1>1, <2>2, PadsToWholeBlocks DEF PadBound
  <2> HIDE DEF d, k
  <2>4. Len(d) \in Nat \ {0} /\ Len(d) < SizeMod
    BY <1>1, <2>2
  <2>5. Len(d) >= bs
    BY <1>1, <2>3, <2>4, OneBlockAtLeast
  <2>6. ~Strays(padder, d, bs)
    BY <1>1, <2>2, <2>4, <2>5, StraysInShort
  <2>7. QED BY <2>1, <2>2, <2>4, <2>6
<1>4. QED BY <1>2, <1>3

-----------------------------------------------------------------------------
(* The invariant.                                                          *)

\* The caller starts with the data as it was given.
LEMMA PaddingInitially == PaddingInit => PaddingInv
<1> SUFFICES ASSUME PaddingInit PROVE PaddingInv
  OBVIOUS
<1>1. data \in Seq(Byte)
  BY PaddingAssumption DEF PaddingInit
<1>2. QED BY <1>1 DEF PaddingInit, PaddingInv, TypeOK, Source

\* Each stage of the caller preserves PaddingInv.
LEMMA PaddingInductive ==
  PaddingInv /\ [PaddingNext]_paddingVars => PaddingInv'
<1> SUFFICES ASSUME PaddingInv, [PaddingNext]_paddingVars PROVE PaddingInv'
  OBVIOUS
<1>1. /\ TypeOK /\ padder \in Padders /\ bs \in Nat \ {0}
      /\ given \in Seq(Byte) /\ Len(given) \in Nat
      /\ Source \in Seq(Byte) /\ Len(Source) < SizeMod
  BY CallerTypes, SourceFits DEF PaddingInv
<1>2. CASE BoundPad
  <2>1. /\ stage = "pad" /\ stage' = "allocated" /\ data' = data
        /\ size' = PadBound(Len(data), bs)
        /\ UNCHANGED <<padder, bs, given, foreign>>
    BY <1>2 DEF BoundPad, Fixed
  <2>2. data = given /\ ~foreign
    BY <2>1 DEF PaddingInv
  <2>3. PadBound(Len(data), bs) \in Nat
    <3>1. PadLen(Len(given), bs) \in 1..bs
      BY <1>1, PadLenBounds
    <3>2. QED BY <1>1, <2>2, <3>1 DEF PadBound
  <2>4. QED BY <1>1, <2>1, <2>2, <2>3 DEF PaddingInv, TypeOK
<1>3. CASE ProcessPad
  <2>1. /\ stage = "allocated" /\ stage' = "padded"
        /\ data' = Padded(padder, data, bs)
        /\ UNCHANGED <<padder, bs, given, foreign, size>>
    BY <1>3 DEF ProcessPad, Fixed
  <2>2. data = given /\ ~foreign /\ size = PadBound(Len(given), bs)
    BY <2>1 DEF PaddingInv
  <2>3. data' = Source /\ Source' = Source
    BY <2>1, <2>2 DEF Source
  <2>4. QED BY <1>1, <2>1, <2>2, <2>3 DEF PaddingInv, TypeOK
<1>4. CASE BoundUnpad
  <2>1. /\ stage = "padded" /\ stage' = "unpad" /\ data' = data
        /\ size' \in UnpadBounds(padder, data, bs)
        /\ UNCHANGED <<padder, bs, given, foreign>>
    BY <1>4 DEF BoundUnpad, Fixed
  <2>2. data = Source /\ Source' = Source
    BY <2>1 DEF PaddingInv, Source, Padded, PKCS7_Fill, X923_Fill
  <2>3. size' \in UnpadBounds(padder, Source, bs)
    BY <2>1, <2>2
  <2>4. size' \in Nat
    BY <1>1, <2>3, UnpadFits
  <2>5. QED BY <1>1, <2>1, <2>2, <2>3, <2>4 DEF PaddingInv, TypeOK
<1>5. CASE ProcessUnpad
  <2>1. /\ stage = "unpad" /\ stage' = "done"
        /\ data' = Unpadded(padder, data, bs)
        /\ UNCHANGED <<padder, bs, given, foreign, size>>
    BY <1>5 DEF ProcessUnpad, Fixed
  <2>2. /\ data = Source /\ Source' = Source
        /\ size \in UnpadBounds(padder, Source, bs)
    BY <2>1 DEF PaddingInv, Source
  <2>3. data' = Unpadded(padder, Source, bs) /\ data' \in Seq(Byte)
    BY <1>1, <2>1, <2>2, UnpadFits
  <2>4. QED BY <1>1, <2>1, <2>2, <2>3 DEF PaddingInv, TypeOK
<1>6. CASE Overrun
  <2>1. /\ stage = "unpad" /\ stage' = "overrun"
        /\ Strays(padder, data, bs)
        /\ UNCHANGED <<padder, bs, given, foreign, data, size>>
    BY <1>6 DEF Overrun, Fixed
  <2>2. data = Source /\ Source' = Source
    BY <2>1 DEF PaddingInv, Source
  <2>3. Strays(padder, Source, bs)
    BY <2>1, <2>2
  <2>4. QED BY <1>1, <2>1, <2>2, <2>3 DEF PaddingInv, TypeOK
<1>7. CASE UNCHANGED paddingVars
  <2>1. UNCHANGED <<padder, bs, given, foreign, data, size, stage>>
    BY <1>7 DEF paddingVars
  <2>2. Source' = Source
    BY <2>1 DEF Source
  <2>3. QED BY <2>1, <2>2 DEF PaddingInv, TypeOK
<1>8. QED BY <1>2, <1>3, <1>4, <1>5, <1>6, <1>7 DEF PaddingNext

\* The data of the caller, the sizes bound answered and what process has made
\* of them fit together at every stage.
THEOREM PaddingInvariance == PaddingSpec => []PaddingInv
<1>1. PaddingInit => PaddingInv
  BY PaddingInitially
<1>2. PaddingInv /\ [PaddingNext]_paddingVars => PaddingInv'
  BY PaddingInductive
<1>3. QED BY <1>1, <1>2, PTL DEF PaddingSpec

-----------------------------------------------------------------------------
(* What follows from it.                                                   *)

\* process never writes more than bound has announced, and exactly as much
\* when padding, and when unpadding data that is not short.
THEOREM BoundsAreExact == PaddingSpec => []BoundIsExact
<1>1. PaddingInv => BoundIsExact
  <2> SUFFICES ASSUME PaddingInv PROVE BoundIsExact
    OBVIOUS
  <2>1. /\ padder \in Padders /\ given \in Seq(Byte) /\ bs \in Nat \ {0}
        /\ Source \in Seq(Byte) /\ Len(Source) < SizeMod
        /\ Strays(padder, Source, bs) => Short
    BY CallerTypes, SourceFits DEF PaddingInv
  <2>2. ASSUME stage = "padded", ~foreign
        PROVE  Len(data) = size
    <3>1. Len(Padded(padder, given, bs)) = PadBound(Len(given), bs)
      BY <2>1, PaddedBytes DEF PadBound
    <3>2. QED BY <2>2, <3>1 DEF PaddingInv, Source
  <2>3. ASSUME stage = "done"
        PROVE  Len(data) <= size /\ (Len(data) < size => Short)
    <3>1. /\ data = Unpadded(padder, Source, bs)
          /\ size \in UnpadBounds(padder, Source, bs)
      BY <2>3 DEF PaddingInv
    <3>2. /\ size \in Nat /\ Len(data) <= size
          /\ ~Strays(padder, Source, bs) => Len(data) = size
      BY <2>1, <3>1, UnpadFits
    <3>3. QED BY <2>1, <3>2
  <2>4. QED BY <2>2, <2>3 DEF BoundIsExact
<1>2. QED BY <1>1, PaddingInvariance, PTL

\* Padding makes whole blocks, adding between one byte and one block.
THEOREM PaddingIsWhole == PaddingSpec => []WholeBlocks
<1>1. PaddingInv => WholeBlocks
  <2> SUFFICES ASSUME PaddingInv, stage = "padded", ~foreign
               PROVE  /\ Len(data) % bs = 0
                      /\ Len(data) > Len(given) /\ Len(data) <= Len(given) + bs
    BY DEF WholeBlocks
  <2>1. /\ padder \in Padders /\ given \in Seq(Byte) /\ bs \in Nat \ {0}
        /\ Len(given) \in Nat
    BY CallerTypes DEF PaddingInv
  <2>2. Len(data) = Len(given) + PadLen(Len(given), bs)
    BY <2>1, PaddedBytes DEF PaddingInv, Source
  <2>3. PadLen(Len(given), bs) \in 1..bs
    BY <2>1, PadLenBounds
  <2>4. Len(data) % bs = 0
    BY <2>1, <2>2, PadsToWholeBlocks DEF PadBound
  <2>5. QED BY <2>1, <2>2, <2>3, <2>4
<1>2. QED BY <1>1, PaddingInvariance, PTL

\* Of any data to unpad, only what comes from elsewhere and is shorter than a
\* block leads bound or process in front of it.
THEOREM UnpaddingInBounds == PaddingSpec => []ReadsInBounds
<1>1. PaddingInv => ReadsInBounds
  <2> SUFFICES ASSUME PaddingInv PROVE ReadsInBounds
    OBVIOUS
  <2>1. Strays(padder, Source, bs) => Short
    BY SourceFits DEF PaddingInv
  <2>2. stage \in {"padded", "unpad"} => data = Source
    BY DEF PaddingInv
  <2>3. stage = "overrun" => Strays(padder, Source, bs)
    BY DEF PaddingInv
  <2>4. QED BY <2>1, <2>2, <2>3 DEF ReadsInBounds
<1>2. QED BY <1>1, PaddingInvariance, PTL

\* Unpadding gives back what was padded, and padding what was taken from data
\* in whole blocks.
THEOREM RoundTripCorrect == PaddingSpec => []RoundTrip
<1>1. PaddingInv => RoundTrip
  <2> SUFFICES ASSUME PaddingInv, stage = "done" PROVE RoundTrip
    BY DEF RoundTrip
  <2>1. /\ padder \in Padders /\ given \in Seq(Byte) /\ bs \in Nat \ {0}
        /\ Len(given) + bs < SizeMod
        /\ Source \in Seq(Byte) /\ Len(Source) < SizeMod
    BY CallerTypes, SourceFits DEF PaddingInv
  <2>2. data = Unpadded(padder, Source, bs)
    BY DEF PaddingInv
  <2>3. ASSUME ~foreign, PadLen(Len(given), bs) < ByteMod
        PROVE  data = given
    BY <2>1, <2>2, <2>3, UnpadPadded DEF Source
  <2>4. ASSUME foreign, Len(given) % bs = 0
        PROVE  data = given \/ given = Padded(padder, data, bs)
    <3>1. Source = given
      BY <2>4 DEF Source
    <3>2. CASE Found(padder, given, bs) /\ ~Strays(padder, given, bs)
      BY <2>1, <2>2, <2>4, <3>1, <3>2, PadUnpadded
    <3>3. CASE ~(Found(padder, given, bs) /\ ~Strays(padder, given, bs))
      BY <2>2, <3>1, <3>3 DEF Unpadded
    <3>4. QED BY <3>2, <3>3
  <2>5. QED BY <2>3, <2>4 DEF RoundTrip
<1>2. QED BY <1>1, PaddingInvariance, PTL
=============================================================================
