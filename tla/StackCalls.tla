----------------------------- MODULE StackCalls -----------------------------
(***************************************************************************)
(* A caller of stack/stack.c and the stack it owns, from Stack_Init to     *)
(* Stack_Destroy and again.  The caller only uses a stack between the two, *)
(* and Stack_Init gets its memory: that function answers nothing, so a     *)
(* caller cannot tell the difference.                                      *)
(***************************************************************************)
EXTENDS Stack, Sequences

CONSTANTS
  Value,       \* what is pushed
  Capacities   \* the capacities callers ask for

ASSUME CapacitiesAreNat == Capacities \subseteq Nat

VARIABLES
  s,     \* the struct
  live,  \* between Stack_Init and Stack_Destroy
  ret,   \* the answer of the last call
  out    \* the caller's variable that Pop and Peek write to

vars == <<s, live, ret, out>>

\* The stack of a caller that has called Stack_Init.
Fresh(new) ==
  \E capacity \in Capacities : \E junk \in Array(Value, capacity) :
    new = NewStack(junk, capacity)

Init ==
  /\ Fresh(s)
  /\ live = TRUE
  /\ ret = 0
  /\ out \in Value

Stack_Init ==
  /\ ~live
  /\ Fresh(s')
  /\ live' = TRUE
  /\ UNCHANGED <<ret, out>>

Stack_Destroy ==
  /\ live
  /\ live' = FALSE
  /\ UNCHANGED <<s, ret, out>>

Stack_Push ==
  /\ live
  /\ \/ Stack_Full(s) /\ ret' = 0 /\ UNCHANGED s
     \/ ~Stack_Full(s) /\ ret' = 1 /\ \E v \in Value : s' = Pushed(s, v)
  /\ UNCHANGED <<live, out>>

\* The parameter out may be NULL.
Answer ==
  \/ Stack_Empty(s) /\ ret' = 0 /\ UNCHANGED out
  \/ ~Stack_Empty(s) /\ ret' = 1 /\ out' \in {out, TopOf(s)}

Stack_Pop ==
  /\ live
  /\ Answer
  /\ s' = IF Stack_Empty(s) THEN s ELSE Popped(s)
  /\ UNCHANGED live

Stack_Peek ==
  /\ live
  /\ Answer
  /\ UNCHANGED <<s, live>>

\* Stack_Empty, Stack_Full and Stack_Size.
Stack_Ask ==
  /\ live
  /\ \/ ret' = IF Stack_Empty(s) THEN 1 ELSE 0
     \/ ret' = IF Stack_Full(s) THEN 1 ELSE 0
     \/ ret' = Stack_Size(s)
  /\ UNCHANGED <<s, live, out>>

Next ==
  \/ Stack_Init \/ Stack_Destroy
  \/ Stack_Push \/ Stack_Pop \/ Stack_Peek \/ Stack_Ask

Spec == Init /\ [][Next]_vars

-----------------------------------------------------------------------------
(* Properties.                                                             *)

\* The struct keeps its types, and top never leaves the array, so that no
\* element is copied to or from outside of it.
TypeOK ==
  /\ s \in [data : UNION {Array(Value, c) : c \in Capacities},
            top : -1..s.capacity - 1,
            capacity : Capacities]
  /\ DOMAIN s.data = 0..s.capacity - 1
  /\ live \in BOOLEAN
  /\ ret \in Nat
  /\ out \in Value

\* The caller sees a bounded last-in first-out store: what is popped is what
\* was pushed last, a full stack refuses and stays as it is, an empty one
\* leaves the caller's variable alone, and Empty, Full and Size agree with the
\* values in it, at capacity 0 too.
Store == INSTANCE BoundedStack WITH
  items <- Elements(s), capacity <- s.capacity

IsBoundedStack == Store!Spec
=============================================================================
