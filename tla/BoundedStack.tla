---------------------------- MODULE BoundedStack ----------------------------
(***************************************************************************)
(* What stack/stack.h promises a caller: a last-in first-out store of at   *)
(* most capacity values that answers 0 instead of overflowing.             *)
(***************************************************************************)
EXTENDS Naturals, Sequences

CONSTANTS
  Value,       \* what is pushed
  Capacities   \* the capacities callers ask for

VARIABLES
  items,     \* the values held, oldest first
  capacity,
  ret,       \* the answer of the last call
  out        \* the caller's variable that Pop and Peek write to

stackVars == <<items, capacity, ret, out>>

New ==
  /\ items = <<>>
  /\ capacity \in Capacities

Init == New /\ ret = 0 /\ out \in Value

Renew == New' /\ UNCHANGED <<ret, out>>

Push(v) ==
  \/ Len(items) < capacity /\ items' = Append(items, v) /\ ret' = 1
     /\ UNCHANGED <<capacity, out>>
  \/ Len(items) = capacity /\ ret' = 0 /\ UNCHANGED <<items, capacity, out>>

\* The caller need not want the value.
Newest ==
  /\ items # <<>>
  /\ ret' = 1
  /\ out' \in {out, items[Len(items)]}

Nothing == items = <<>> /\ ret' = 0 /\ UNCHANGED <<items, out>>

Pop ==
  /\ \/ Newest /\ items' = SubSeq(items, 1, Len(items) - 1)
     \/ Nothing
  /\ UNCHANGED capacity

Peek ==
  /\ \/ Newest /\ UNCHANGED items
     \/ Nothing
  /\ UNCHANGED capacity

Ask ==
  /\ ret' \in {IF items = <<>> THEN 1 ELSE 0,
               IF Len(items) = capacity THEN 1 ELSE 0,
               Len(items)}
  /\ UNCHANGED <<items, capacity, out>>

Next == Renew \/ (\E v \in Value : Push(v)) \/ Pop \/ Peek \/ Ask

Spec == Init /\ [][Next]_stackVars
=============================================================================
