------------------------------- MODULE Stack -------------------------------
(***************************************************************************)
(* stack/stack.c: the functions of the array stack, on the fields of       *)
(* struct Stack.  data is an array of capacity elements that starts        *)
(* uninitialized; the element size only decides where elements are.        *)
(***************************************************************************)
EXTENDS Integers

Array(Value, capacity) == [0..capacity - 1 -> Value]

\* Stack_Init with the memory malloc found.
NewStack(junk, capacity) ==
  [data |-> junk, top |-> -1, capacity |-> capacity]

\* Mutants: top compared with, and taken for, a number of elements.
Stack_Full_OffByOne(s) == s.top >= s.capacity
Stack_Size_Top(s)      == s.top

Stack_Empty(s) == s.top = -1
Stack_Full(s)  == s.top >= s.capacity - 1
Stack_Size(s)  == s.top + 1

\* What Stack_Push leaves when the stack is not full.
Pushed(s, value) ==
  [data |-> [s.data EXCEPT ![s.top + 1] = value], top |-> s.top + 1,
   capacity |-> s.capacity]

\* What Stack_Pop leaves, and what it and Stack_Peek copy to out, when the
\* stack is not empty.
Popped(s) == [s EXCEPT !.top = @ - 1]
TopOf(s)  == s.data[s.top]

\* The elements, oldest first.
Elements(s) == [k \in 1..s.top + 1 |-> s.data[k - 1]]
=============================================================================
