------------------------------- MODULE PadBus -------------------------------
(***************************************************************************)
(* padding/padbus.c: the registry of padders.  A registration with an      *)
(* out_id fills a slot of g_padders at once; one without is put on the     *)
(* queue g_pending_padders, and PAD_Dequeue moves it to the table later,   *)
(* at the latest priority of the constructors or when a caller asks.       *)
(*                                                                         *)
(* The queue is the one Fifo specifies and AtomicQueue implements: its     *)
(* calls are single steps here.  The table has no lock: as the library     *)
(* itself does, only one thread, main, uses it and calls PAD_Dequeue.      *)
(* Any thread may register without an out_id once main is running.         *)
(***************************************************************************)
EXTENDS Integers, Sequences, FiniteSets

CONSTANTS
  Threads, main,  \* the threads, and the one that runs constructors and main
  Entries,        \* the registrations made, one PAD_Entry each
  Name,           \* Name[e]: the field name of e, maybe NULL
  Builtins,       \* those of pkcs7.c and x923.c
  NULL,           \* the null pointer
  MaxPadders      \* PADBUS_MAX_PADDERS

ASSUME PadBusAssumption ==
  /\ main \in Threads
  /\ Builtins \subseteq Entries /\ NULL \notin Entries
  /\ \A b \in Builtins : Name[b] # NULL
  /\ MaxPadders \in Nat \ {0}

Ids == 0..MaxPadders - 1

VARIABLES
  table,     \* g_padders
  pending,   \* g_pending_padders, oldest first
  making,    \* making[t]: the PAD_Pending that t is about to enqueue
  hand,      \* the entry PAD_Dequeue has taken out of the queue
  draining,  \* main is in PAD_Dequeue
  phase,     \* "constructors", "main" or "exited"
  held,      \* what main has been given: an id, or a pointer into its slot,
             \* with the entry that was there
  atOnce,    \* auxiliary: the entries PAD_Register put in the table itself
  deferred,  \* auxiliary: those it put on the queue, in order
  refused,   \* auxiliary: those it answered -1 for
  dropped,   \* auxiliary: those PAD_Dequeue reported on stderr
  removed,   \* auxiliary: those that were unregistered
  early      \* auxiliary: the entries accepted before the first PAD_Dequeue

fates == <<atOnce, deferred, refused, dropped, removed, early>>
vars  == <<table, pending, making, hand, draining, phase, held, fates>>

-----------------------------------------------------------------------------
(* The table.                                                              *)

\* What memset (slot, 0, ...) leaves, and static storage holds.
Zero == [used |-> 0, id |-> 0, entry |-> NULL]

NameOf(e) == IF e = NULL THEN NULL ELSE Name[e]

First(ids) == CHOOSE i \in ids : \A j \in ids : i <= j

\* Mutant: a slot with id 0 is taken for a free one.
Nameless_ById == {i \in Ids : table[i].id = 0}

\* PAD_RegisterPadder takes the first slot without a name.
Nameless == {i \in Ids : NameOf(table[i].entry) = NULL}

\* Mutant: the id is not set.
Filled_NoId(e) ==
  [table EXCEPT ![First(Nameless)] = [@ EXCEPT !.used = 1, !.entry = e]]

Filled(e) ==
  [table EXCEPT ![First(Nameless)] =
     [used |-> 1, id |-> First(Nameless), entry |-> e]]

PAD_PaddersLeft == {i \in Ids : table[i].used = 0}
PAD_CanRegister == PAD_PaddersLeft # {}

Matching(name) ==
  {i \in Ids : table[i].used = 1 /\ name # NULL
                 /\ NameOf(table[i].entry) = name}

\* The id found, or -1.
PAD_Find(name) ==
  IF Matching(name) = {} THEN -1 ELSE table[First(Matching(name))].id

\* The entry whose padder PAD_Get points to, or NULL; PAD_GetEntryById.
PAD_Get(id) ==
  IF id \in Ids /\ table[id].used = 1 THEN table[id].entry ELSE NULL

\* PAD_GetByName and PAD_GetEntryByName.
PAD_GetByName(name) ==
  IF Matching(name) = {} THEN NULL ELSE table[First(Matching(name))].entry

-----------------------------------------------------------------------------

Init ==
  /\ table = [i \in Ids |-> Zero]
  /\ pending = <<>>
  /\ making = [t \in Threads |-> NULL]
  /\ hand = NULL
  /\ draining = FALSE
  /\ phase = "constructors"
  /\ held = {}
  /\ deferred = <<>>
  /\ atOnce = {} /\ refused = {} /\ dropped = {} /\ removed = {} /\ early = {}

InSeq(s) == {s[k] : k \in 1..Len(s)}

\* The entries PAD_Register answered 0 for.
Accepted == atOnce \cup InSeq(deferred)

\* The registrations not made yet.
Fresh == Entries \ (Accepted \cup refused \cup {making[t] : t \in Threads})

\* A thread between two calls; only main is there before main starts.
Idle(t) ==
  /\ phase # "exited"
  /\ making[t] = NULL
  /\ t # main => phase = "main"
  /\ t = main => ~draining

\* PAD_Register answers 0 for e.
Accept(e) ==
  /\ early' = IF phase = "constructors" THEN early \cup {e} ELSE early
  /\ UNCHANGED <<refused, dropped, removed>>

\* It answers -1: the table is full, or malloc failed.
Refuse(e) ==
  /\ refused' = refused \cup {e}
  /\ UNCHANGED <<atOnce, deferred, dropped, removed, early>>

-----------------------------------------------------------------------------
(* PAD_Register.                                                           *)

\* Mutant: a registration with an out_id is put on the queue as well.
RegisterNow_AlsoPends ==
  /\ Idle(main)
  /\ \E e \in Fresh \ Builtins :
       /\ Nameless # {}
       /\ table' = Filled(e)
       /\ held' = held \cup {[slot |-> First(Nameless), entry |-> e]}
       /\ atOnce' = atOnce \cup {e}
       /\ pending' = Append(pending, e)
       /\ Accept(e)
  /\ UNCHANGED <<making, hand, draining, phase, deferred>>

RegisterNow ==
  /\ Idle(main)
  /\ \E e \in Fresh \ Builtins :
       \/ /\ Nameless # {}
          /\ table' = Filled(e)
          /\ held' = held \cup {[slot |-> First(Nameless), entry |-> e]}
          /\ atOnce' = atOnce \cup {e}
          /\ Accept(e)
          /\ UNCHANGED deferred
       \/ /\ Nameless = {}
          /\ Refuse(e)
          /\ UNCHANGED <<table, held>>
  /\ UNCHANGED <<pending, making, hand, draining, phase>>

\* Without out_id: a PAD_Pending is allocated, or not.
RegisterLater(t) ==
  /\ Idle(t)
  /\ \E e \in Fresh :
       /\ e \in Builtins => phase = "constructors" /\ t = main
       /\ \/ making' = [making EXCEPT ![t] = e] /\ UNCHANGED fates
          \/ Refuse(e) /\ UNCHANGED making
  /\ UNCHANGED <<table, pending, hand, draining, phase, held>>

Enqueue(t) ==
  /\ phase # "exited"
  /\ making[t] # NULL
  /\ pending' = Append(pending, making[t])
  /\ making' = [making EXCEPT ![t] = NULL]
  /\ deferred' = Append(deferred, making[t])
  /\ Accept(making[t])
  /\ UNCHANGED <<atOnce, table, hand, draining, phase, held>>

\* AQ_Enqueue ends the process when it cannot allocate its node.
EnqueueFails(t) ==
  /\ phase # "exited"
  /\ making[t] # NULL
  /\ phase' = "exited"
  /\ pending' = <<>>
  /\ UNCHANGED <<table, making, hand, draining, held, fates>>

-----------------------------------------------------------------------------
(* PAD_Dequeue.                                                            *)

\* As a constructor it runs after the registrars of the library.
DequeueCall ==
  /\ Idle(main)
  /\ phase = "constructors" => Builtins \subseteq Accepted \cup refused
  /\ draining' = TRUE
  /\ UNCHANGED <<table, pending, making, hand, phase, held, fates>>

\* Mutant: the newest registration is taken first.
DequeueTake_Newest ==
  /\ phase # "exited"
  /\ draining /\ hand = NULL
  /\ pending # <<>>
  /\ hand' = pending[Len(pending)]
  /\ pending' = SubSeq(pending, 1, Len(pending) - 1)
  /\ UNCHANGED <<table, making, draining, phase, held, fates>>

DequeueTake ==
  /\ phase # "exited"
  /\ draining /\ hand = NULL
  /\ pending # <<>>
  /\ hand' = Head(pending)
  /\ pending' = Tail(pending)
  /\ UNCHANGED <<table, making, draining, phase, held, fates>>

DequeuePlace ==
  /\ phase # "exited"
  /\ hand # NULL
  /\ Nameless # {}
  /\ table' = Filled(hand)
  /\ hand' = NULL
  /\ UNCHANGED <<pending, making, draining, phase, held, fates>>

\* A full table: the entry is reported and thrown away.
DequeueDrop ==
  /\ phase # "exited"
  /\ hand # NULL
  /\ Nameless = {}
  /\ dropped' = dropped \cup {hand}
  /\ hand' = NULL
  /\ UNCHANGED <<table, pending, making, draining, phase, held, atOnce,
                 deferred, refused, removed, early>>

\* Mutant: the loop may stop before the queue is empty.
DequeueEnd_Early ==
  /\ phase # "exited"
  /\ draining /\ hand = NULL
  /\ draining' = FALSE
  /\ phase' = "main"
  /\ UNCHANGED <<table, pending, making, hand, held, fates>>

\* The first call ends the constructors.
DequeueEnd ==
  /\ phase # "exited"
  /\ draining /\ hand = NULL
  /\ pending = <<>>
  /\ draining' = FALSE
  /\ phase' = "main"
  /\ UNCHANGED <<table, pending, making, hand, held, fates>>

-----------------------------------------------------------------------------
(* The rest.                                                               *)

\* PAD_Find then PAD_Get, as PAD_PKCS7_Get and PAD_X923_Get do, or PAD_Get of
\* an id kept from before.
Get ==
  /\ Idle(main)
  /\ \E name \in {Name[e] : e \in Entries} :
       /\ PAD_Find(name) # -1
       /\ PAD_Get(PAD_Find(name)) # NULL
       /\ held' = held \cup {[slot |-> PAD_Find(name),
                              entry |-> PAD_Get(PAD_Find(name))]}
  /\ UNCHANGED <<table, pending, making, hand, draining, phase, fates>>

\* Mutant: the later slots move down.
PAD_Unregister_Compacts ==
  /\ Idle(main)
  /\ \E id \in Ids :
       /\ table[id] # Zero
       /\ table' = [i \in Ids |-> IF i < id THEN table[i]
                                  ELSE IF i + 1 \in Ids THEN table[i + 1]
                                  ELSE Zero]
       /\ removed' = removed \cup {table[id].entry}
  /\ UNCHANGED <<pending, making, hand, draining, phase, held, atOnce,
                 deferred, refused, dropped, early>>

\* Mutant: only the mark is cleared.
PAD_Unregister_Unmarks ==
  /\ Idle(main)
  /\ \E id \in Ids :
       /\ table[id].used = 1
       /\ table' = [table EXCEPT ![id].used = 0]
       /\ removed' = removed \cup {table[id].entry}
  /\ UNCHANGED <<pending, making, hand, draining, phase, held, atOnce,
                 deferred, refused, dropped, early>>

\* Ids outside of the table are ignored.
PAD_Unregister ==
  /\ Idle(main)
  /\ \E id \in Ids :
       /\ table[id] # Zero
       /\ table' = [table EXCEPT ![id] = Zero]
       /\ removed' = removed \cup {table[id].entry}
  /\ UNCHANGED <<pending, making, hand, draining, phase, held, atOnce,
                 deferred, refused, dropped, early>>

\* main returns: PAD_Shutdown destroys the queue with what is left in it.
PAD_Shutdown ==
  /\ Idle(main) /\ phase = "main"
  /\ phase' = "exited"
  /\ pending' = <<>>
  /\ UNCHANGED <<table, making, hand, draining, held, fates>>

Exited == phase = "exited" /\ UNCHANGED vars

Drain == DequeueTake \/ DequeuePlace \/ DequeueDrop \/ DequeueEnd

Next ==
  \/ RegisterNow
  \/ \E t \in Threads : RegisterLater(t) \/ Enqueue(t) \/ EnqueueFails(t)
  \/ DequeueCall \/ Drain
  \/ Get \/ PAD_Unregister \/ PAD_Shutdown
  \/ Exited

Spec == Init /\ [][Next]_vars

\* PAD_Dequeue, once called, keeps running.
FairSpec == Spec /\ WF_vars(Drain)

-----------------------------------------------------------------------------
(* Properties.                                                             *)

Tabled(e) == \E i \in Ids : table[i].entry = e

\* While the process runs, a registration that answered 0 is in the queue, in
\* the hands of PAD_Dequeue or in the table, or it was dropped with a report
\* or unregistered; only one without a name can be lost silently, when the
\* next registration takes its slot.
NoneLost ==
  phase # "exited" =>
    \A e \in Accepted :
      \/ e \in InSeq(pending) \/ e = hand
      \/ Tabled(e) \/ e \in dropped \/ e \in removed
      \/ Name[e] = NULL

\* And it is in one of these places only, once.
NoneTwice ==
  \A e \in Entries :
    /\ \A i, j \in Ids : table[i].entry = e /\ table[j].entry = e => i = j
    /\ \A k, l \in 1..Len(pending) : pending[k] = e /\ pending[l] = e => k = l
    /\ Tabled(e) =>
         e \notin InSeq(pending) \cup {hand} \cup dropped \cup removed
    /\ e = hand => e \notin InSeq(pending) \cup dropped \cup removed
    /\ e \in InSeq(pending) => e \notin dropped \cup removed

\* An id or a pointer main was given stands for the same entry until that is
\* unregistered, whatever is registered or unregistered meanwhile; one without
\* a name may be replaced.
HeldStays ==
  \A h \in held :
    \/ table[h.slot].used = 1 /\ table[h.slot].entry = h.entry
    \/ h.entry \in removed
    \/ Name[h.entry] = NULL

\* Looking up a name gives the same padder by either way, and one if and only
\* if an entry of that name is in the table.
LookupsAgree ==
  \A name \in {Name[e] : e \in Entries} \ {NULL} :
    /\ PAD_GetByName(name) = PAD_Get(PAD_Find(name))
    /\ PAD_Find(name) = -1 <=> \A e \in Entries : Tabled(e) => Name[e] # name

\* If PAD_CanRegister says so, a registration finds a slot, although the two
\* look at different fields; and a slot is used if it has an entry.
RoomIsReal ==
  /\ PAD_CanRegister => Nameless # {}
  /\ \A i \in Ids : table[i].used = 0 <=> table[i].entry = NULL

\* The padders of the library are in the table when main starts, until they
\* are unregistered, if PAD_Register had memory for them and the constructors
\* leave room for them: registrations on the queue count, although
\* PAD_CanRegister does not count them.
BuiltinsPresent ==
  phase = "main" /\ Cardinality(early) <= MaxPadders
    => \A b \in Builtins \cap early : Tabled(b) \/ b \in removed

\* Deferred registrations get their slots in the order they were made, so that
\* of two with one name the first is found, as long as nothing was removed.
DeferredInOrder ==
  removed = {} =>
    \A i, j \in Ids : \A k, l \in 1..Len(deferred) :
      /\ k < l
      /\ table[i].entry = deferred[k] /\ Name[deferred[k]] # NULL
      /\ table[j].entry = deferred[l] /\ Name[deferred[l]] # NULL
      => i < j

\* What is in the queue while PAD_Dequeue runs is taken out, even if other
\* threads keep adding to it.
DrainServes ==
  \A e \in Entries :
    draining /\ e \in InSeq(pending) ~> e \notin InSeq(pending)
=============================================================================
