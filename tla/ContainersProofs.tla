-------------------------- MODULE ContainersProofs --------------------------
(***************************************************************************)
(* Proofs about the containers for one thread.  The array stack: top stays *)
(* in the array, and callers see a bounded last-in first-out store, for    *)
(* every capacity and every value.  The linked queue: callers see a        *)
(* first-in first-out queue that keeps its memory in order, for every heap *)
(* and every payload.                                                      *)
(***************************************************************************)
EXTENDS Containers, SequenceTheorems, FiniteSetTheorems,
        WellFoundedInduction, TLAPS

(* ----------------------- The stack: the struct ------------------------- *)

\* The structs of a stack.
Struct(capacity) ==
  [data : Array(Value, capacity), top : -1..capacity - 1,
   capacity : {capacity}]

\* The struct has the capacity it was initialized with.
LEMMA TypedStruct ==
  ASSUME TypeOK
  PROVE  s.capacity \in Nat /\ s.capacity \in Capacities
         /\ s \in Struct(s.capacity)
<1>1. /\ s.capacity \in Capacities /\ s.capacity \in Nat
      /\ s.top \in -1..s.capacity - 1
      /\ DOMAIN s.data = 0..s.capacity - 1
      /\ s = [data |-> s.data, top |-> s.top, capacity |-> s.capacity]
  BY CapacitiesAreNat DEF TypeOK
<1>2. PICK c \in Capacities : s.data \in Array(Value, c)
  BY DEF TypeOK
<1>3. s.data \in Array(Value, s.capacity)
  BY <1>1, <1>2 DEF Array
<1>4. QED BY <1>1, <1>3 DEF Struct

\* A struct of a capacity has the types of TypeOK.
LEMMA StructTyped ==
  ASSUME NEW c \in Capacities, NEW t \in Struct(c)
  PROVE  /\ t \in [data : UNION {Array(Value, d) : d \in Capacities},
                   top : -1..t.capacity - 1,
                   capacity : Capacities]
         /\ DOMAIN t.data = 0..t.capacity - 1
BY CapacitiesAreNat DEF Struct, Array

-----------------------------------------------------------------------------
(* The operations keep the struct a stack, and act on its elements.        *)

\* Stack_Init makes an empty stack.
LEMMA FreshStack ==
  ASSUME NEW t, Fresh(t)
  PROVE  /\ t.capacity \in Capacities /\ t \in Struct(t.capacity)
         /\ Elements(t) = <<>>
<1>1. PICK c \in Capacities :
        \E junk \in Array(Value, c) : t = NewStack(junk, c)
  BY DEF Fresh
<1>2. PICK junk \in Array(Value, c) : t = NewStack(junk, c)
  BY <1>1
<1>3. c \in Nat
  BY CapacitiesAreNat
<1>4. t \in Struct(t.capacity) /\ t.capacity = c /\ t.top = -1
  BY <1>2, <1>3 DEF NewStack, Struct
<1>5. Elements(t) = <<>>
  BY <1>4 DEF Elements
<1>6. QED BY <1>4, <1>5

\* The elements are a sequence of top + 1 values.
LEMMA ElementsTyped ==
  ASSUME NEW c \in Nat, NEW t \in Struct(c)
  PROVE  Elements(t) \in Seq(Value) /\ Len(Elements(t)) = t.top + 1
<1>1. /\ t.top \in -1..c - 1 /\ t.top + 1 \in Nat
      /\ \A k \in 1..t.top + 1 : t.data[k - 1] \in Value
  BY DEF Struct, Array
<1>2. QED BY <1>1 DEF Elements

\* Stack_Push appends its element.
LEMMA PushAppends ==
  ASSUME NEW c \in Nat, NEW t \in Struct(c), NEW v \in Value, ~Stack_Full(t)
  PROVE  /\ Pushed(t, v) \in Struct(c)
         /\ Elements(Pushed(t, v)) = Append(Elements(t), v)
<1> DEFINE u == Pushed(t, v)
<1>1. t.top \in -1..c - 1 /\ t.capacity = c /\ t.data \in Array(Value, c)
  BY DEF Struct
<1>2. t.top + 1 \in 0..c - 1
  BY <1>1 DEF Stack_Full
<1>3. /\ u.top = t.top + 1 /\ u.capacity = c
      /\ u.data = [t.data EXCEPT ![t.top + 1] = v]
      /\ u = [data |-> u.data, top |-> u.top, capacity |-> u.capacity]
  BY <1>1 DEF Pushed
<1>4. u.data \in Array(Value, c)
  BY <1>1, <1>2, <1>3 DEF Array
<1>5. u \in Struct(c)
  BY <1>2, <1>3, <1>4 DEF Struct
<1>6. Elements(u) = Append(Elements(t), v)
  <2> HIDE DEF u
  <2>1. /\ Elements(t) \in Seq(Value) /\ Len(Elements(t)) = t.top + 1
        /\ Elements(u) \in Seq(Value) /\ Len(Elements(u)) = t.top + 2
    BY <1>1, <1>3, <1>5, ElementsTyped
  <2>2. /\ Append(Elements(t), v) \in Seq(Value)
        /\ Len(Append(Elements(t), v)) = t.top + 2
    BY <2>1, <1>1
  <2>3. ASSUME NEW k \in 1..t.top + 2
        PROVE  Elements(u)[k] = Append(Elements(t), v)[k]
    <3>1. Elements(u)[k] = u.data[k - 1]
      BY <1>1, <1>3 DEF Elements
    <3>2. CASE k = t.top + 2
      BY <1>1, <1>2, <1>3, <2>1, <3>1, <3>2 DEF Array
    <3>3. CASE k \in 1..t.top + 1
      <4>1. k - 1 \in 0..c - 1 /\ k - 1 # t.top + 1
        BY <1>1, <3>3
      <4>2. u.data[k - 1] = t.data[k - 1]
        BY <1>1, <1>3, <4>1 DEF Array
      <4>3. Elements(t)[k] = t.data[k - 1]
        BY <3>3 DEF Elements
      <4>4. Append(Elements(t), v)[k] = Elements(t)[k]
        BY <2>1, <3>3
      <4>5. QED BY <3>1, <4>2, <4>3, <4>4
    <3>4. k = t.top + 2 \/ k \in 1..t.top + 1
      BY <1>1
    <3>5. QED BY <3>2, <3>3, <3>4
  <2>4. QED BY <2>1, <2>2, <2>3, SeqEqual
<1>7. QED BY <1>5, <1>6

\* Stack_Pop takes away the last element.
LEMMA PopShortens ==
  ASSUME NEW c \in Nat, NEW t \in Struct(c), ~Stack_Empty(t)
  PROVE  /\ Popped(t) \in Struct(c)
         /\ Elements(Popped(t)) =
              SubSeq(Elements(t), 1, Len(Elements(t)) - 1)
         /\ Elements(t) # <<>>
         /\ TopOf(t) = Elements(t)[Len(Elements(t))]
         /\ TopOf(t) \in Value
<1> DEFINE u == Popped(t)
<1>1. t.top \in 0..c - 1 /\ t.capacity = c /\ t.data \in Array(Value, c)
  BY DEF Struct, Stack_Empty
<1>2. /\ u.top = t.top - 1 /\ u.capacity = c /\ u.data = t.data
      /\ u = [data |-> u.data, top |-> u.top, capacity |-> u.capacity]
  BY <1>1 DEF Struct, Popped
<1>3. u \in Struct(c)
  BY <1>1, <1>2 DEF Struct
<1> HIDE DEF u
<1>4. /\ Elements(t) \in Seq(Value) /\ Len(Elements(t)) = t.top + 1
      /\ Elements(u) \in Seq(Value) /\ Len(Elements(u)) = t.top
  BY <1>1, <1>2, <1>3, ElementsTyped
<1>5. Elements(u) = SubSeq(Elements(t), 1, Len(Elements(t)) - 1)
  <2>1. /\ SubSeq(Elements(t), 1, t.top) \in Seq(Value)
        /\ Len(SubSeq(Elements(t), 1, t.top)) = t.top
        /\ \A k \in 1..t.top :
             SubSeq(Elements(t), 1, t.top)[k] = Elements(t)[k]
    BY <1>1, <1>4, SubSeqProperties
  <2>2. \A k \in 1..t.top : Elements(u)[k] = Elements(t)[k]
    BY <1>1, <1>2 DEF Elements
  <2>3. Len(Elements(t)) - 1 = t.top
    BY <1>1, <1>4
  <2>4. QED BY <1>4, <2>1, <2>2, <2>3, SeqEqual
<1>6. Elements(t) # <<>>
  BY <1>1, <1>4
<1>7. TopOf(t) = Elements(t)[Len(Elements(t))]
  BY <1>1, <1>4 DEF TopOf, Elements
<1>8. TopOf(t) \in Value
  BY <1>1 DEF TopOf, Array
<1>9. QED BY <1>3, <1>5, <1>6, <1>7, <1>8 DEF u

-----------------------------------------------------------------------------
(* Type correctness.                                                       *)

\* An initialized stack is typed.
LEMMA Initially == Init => TypeOK
<1> SUFFICES ASSUME Init PROVE TypeOK
  OBVIOUS
<1>1. s.capacity \in Capacities /\ s \in Struct(s.capacity)
  BY FreshStack DEF Init
<1>2. QED BY <1>1, StructTyped DEF Init, TypeOK

\* An answer of Stack_Pop or Stack_Peek is typed.
LEMMA AnswerTyped ==
  ASSUME TypeOK, Answer
  PROVE  ret' \in Nat /\ out' \in Value
<1>1. s.capacity \in Nat /\ s \in Struct(s.capacity) /\ out \in Value
  BY TypedStruct DEF TypeOK
<1>2. QED BY <1>1, PopShortens DEF Answer

\* Every call keeps the struct typed.
LEMMA Inductive == TypeOK /\ [Next]_vars => TypeOK'
<1> SUFFICES ASSUME TypeOK, [Next]_vars PROVE TypeOK'
  OBVIOUS
<1>1. /\ s.capacity \in Nat /\ s.capacity \in Capacities
      /\ s \in Struct(s.capacity) /\ live \in BOOLEAN /\ ret \in Nat
      /\ out \in Value
  BY TypedStruct DEF TypeOK
<1>2. SUFFICES /\ \E c \in Capacities : s' \in Struct(c)
               /\ live' \in BOOLEAN /\ ret' \in Nat /\ out' \in Value
  BY StructTyped DEF TypeOK
<1>3. CASE Stack_Init
  <2>1. s'.capacity \in Capacities /\ s' \in Struct(s'.capacity)
    BY <1>3, FreshStack DEF Stack_Init
  <2>2. QED BY <1>1, <1>3, <2>1 DEF Stack_Init
<1>4. CASE Stack_Destroy
  BY <1>1, <1>4 DEF Stack_Destroy
<1>5. CASE Stack_Push
  BY <1>1, <1>5, PushAppends DEF Stack_Push
<1>6. CASE Stack_Pop
  BY <1>1, <1>6, PopShortens, AnswerTyped DEF Stack_Pop
<1>7. CASE Stack_Peek
  BY <1>1, <1>7, AnswerTyped DEF Stack_Peek
<1>8. CASE Stack_Ask
  BY <1>1, <1>8 DEF Stack_Ask, Stack_Size, Struct
<1>9. CASE UNCHANGED vars
  BY <1>1, <1>9 DEF vars
<1>10. QED BY <1>3, <1>4, <1>5, <1>6, <1>7, <1>8, <1>9 DEF Next

\* The struct keeps its types and top stays inside the array.
THEOREM TypeCorrect == Spec => []TypeOK
<1>1. QED BY Initially, Inductive, PTL DEF Spec

-----------------------------------------------------------------------------
(* Callers see a bounded stack.                                            *)

\* An initialized stack is an empty store.
LEMMA InitRefines == Init => Store!Init
BY FreshStack DEF Init, Store!Init, Store!New

\* Every call is the call of the bounded store.
LEMMA NextRefines ==
  TypeOK /\ [Next]_vars => [Store!Next]_(Store!stackVars)
<1> SUFFICES ASSUME TypeOK, [Next]_vars
             PROVE  [Store!Next]_(Store!stackVars)
  OBVIOUS
<1>1. s.capacity \in Nat /\ s \in Struct(s.capacity)
  BY TypedStruct
<1>2. /\ Elements(s) \in Seq(Value) /\ Len(Elements(s)) = s.top + 1
      /\ s.top \in -1..s.capacity - 1
  BY <1>1, ElementsTyped DEF Struct
<1>3. CASE Stack_Init
  BY <1>3, FreshStack DEF Stack_Init, Store!Next, Store!Renew, Store!New
<1>4. CASE Stack_Destroy
  BY <1>4 DEF Stack_Destroy, Store!stackVars
<1>5. CASE Stack_Push
  <2>1. CASE Stack_Full(s)
    <3>1. \E v \in Value : TRUE
      BY DEF TypeOK
    <3>2. Len(Elements(s)) = s.capacity /\ UNCHANGED <<s, out>> /\ ret' = 0
      BY <1>1, <1>2, <1>5, <2>1 DEF Stack_Push, Stack_Full
    <3>3. QED BY <3>1, <3>2 DEF Store!Next, Store!Push
  <2>2. CASE ~Stack_Full(s)
    <3>1. PICK v \in Value : s' = Pushed(s, v)
      BY <1>5, <2>2 DEF Stack_Push
    <3>2. Elements(s') = Append(Elements(s), v) /\ s' \in Struct(s.capacity)
      BY <1>1, <2>2, <3>1, PushAppends
    <3>3. s'.capacity = s.capacity
      BY <3>2 DEF Struct
    <3>4. Len(Elements(s)) < s.capacity /\ ret' = 1 /\ out' = out
      BY <1>1, <1>2, <1>5, <2>2 DEF Stack_Full, Stack_Push
    <3>5. QED BY <3>2, <3>3, <3>4 DEF Store!Next, Store!Push
  <2>3. QED BY <2>1, <2>2
<1>6. ASSUME Answer
      PROVE  IF Stack_Empty(s) THEN Elements(s) = <<>> /\ ret' = 0 /\ out' = out
             ELSE Store!Newest
  <2>1. CASE Stack_Empty(s)
    BY <1>2, <1>6, <2>1, EmptySeq DEF Answer, Stack_Empty
  <2>2. CASE ~Stack_Empty(s)
    BY <1>1, <1>6, <2>2, PopShortens DEF Answer, Store!Newest
  <2>3. QED BY <2>1, <2>2
<1>7. CASE Stack_Pop
  <2>1. CASE Stack_Empty(s)
    BY <1>6, <1>7, <2>1 DEF Stack_Pop, Store!Next, Store!Pop, Store!Nothing
  <2>2. CASE ~Stack_Empty(s)
    <3>1. /\ s' = Popped(s) /\ s' \in Struct(s.capacity)
          /\ Elements(s') = SubSeq(Elements(s), 1, Len(Elements(s)) - 1)
      BY <1>1, <1>7, <2>2, PopShortens DEF Stack_Pop
    <3>2. s'.capacity = s.capacity
      BY <3>1 DEF Struct
    <3>3. QED BY <1>6, <1>7, <2>2, <3>1, <3>2
              DEF Stack_Pop, Store!Next, Store!Pop
  <2>3. QED BY <2>1, <2>2
<1>8. CASE Stack_Peek
  BY <1>6, <1>8 DEF Stack_Peek, Store!Next, Store!Peek, Store!Nothing
<1>9. CASE Stack_Ask
  <2>1. /\ Stack_Empty(s) <=> Elements(s) = <<>>
        /\ Stack_Full(s) <=> Len(Elements(s)) = s.capacity
        /\ Stack_Size(s) = Len(Elements(s))
    BY <1>1, <1>2, EmptySeq DEF Stack_Empty, Stack_Full, Stack_Size
  <2>2. QED BY <1>9, <2>1 DEF Stack_Ask, Store!Next, Store!Ask
<1>10. CASE UNCHANGED vars
  BY <1>10 DEF vars, Store!stackVars
<1>11. QED BY <1>3, <1>4, <1>5, <1>7, <1>8, <1>9, <1>10 DEF Next

\* The stack in the array is a bounded last-in first-out store.
THEOREM StackRefines == Spec => IsBoundedStack
<1>1. TypeOK /\ [Next]_vars => [Store!Next]_(Store!stackVars)
  BY NextRefines
<1>2. QED BY <1>1, InitRefines, TypeCorrect, PTL
          DEF Spec, IsBoundedStack, Store!Spec

-----------------------------------------------------------------------------
(* The queue: linked lists.                                                *)

\* A nonempty set of numbers has a least one.
LEMMA Least ==
  ASSUME NEW T, T \subseteq Nat, T # {}
  PROVE  \E x \in T : \A y \in T : x <= y
<1> DEFINE R == OpToRel(<, Nat)
<1>1. \A x, y \in Nat : y < x => <<y, x>> \in R
  BY DEF OpToRel
<1>2. IsWellFoundedOn(R, Nat)
  BY NatLessThanWellFounded
<1> HIDE DEF R
<1>3. PICK x \in T : \A y \in T : ~(<<y, x>> \in R)
  BY <1>2, WFMin
<1>4. ASSUME NEW y \in T
      PROVE  x <= y
  <2>1. x \in Nat /\ y \in Nat
    OBVIOUS
  <2>2. ~(y < x)
    BY <1>1, <1>3, <2>1
  <2>3. QED BY <2>1, <2>2
<1>5. QED BY <1>3, <1>4

\* What a walk along the nodes e meets at its k-th step.
Met(e, k) == IF k <= Len(e) THEN e[k] ELSE NULL

\* Each pointer leads from one step of the walk to the next.
LEMMA Walk ==
  ASSUME NEW f, NEW nx, NEW e \in Seq(Node), Linked(f, nx, e)
  PROVE  /\ Met(e, 1) = f
         /\ \A k \in Nat \ {0} :
              /\ Met(e, k) = NULL <=> k > Len(e)
              /\ Met(e, k) # NULL => Met(e, k + 1) = nx[Met(e, k)]
              /\ Met(e, k) = NULL => Met(e, k + 1) = NULL
<1>1. Len(e) \in Nat /\ (e = <<>> <=> Len(e) = 0)
      /\ \A k \in 1..Len(e) : e[k] \in Node /\ e[k] # NULL
  BY HeapAssumption
<1>2. Met(e, 1) = f
  BY <1>1 DEF Met, Linked
<1>3. ASSUME NEW k \in Nat \ {0}
      PROVE  /\ Met(e, k) = NULL <=> k > Len(e)
             /\ Met(e, k) # NULL => Met(e, k + 1) = nx[Met(e, k)]
             /\ Met(e, k) = NULL => Met(e, k + 1) = NULL
  <2>1. CASE k <= Len(e)
    <3>1. k \in 1..Len(e)
      BY <1>1, <2>1
    <3>2. nx[e[k]] = IF k = Len(e) THEN NULL ELSE e[k + 1]
      BY <3>1 DEF Linked
    <3>3. Met(e, k) = e[k] /\ e[k] # NULL
      BY <1>1, <2>1, <3>1 DEF Met
    <3>4. Met(e, k + 1) = nx[e[k]]
      BY <1>1, <2>1, <3>2 DEF Met
    <3>5. QED BY <1>1, <2>1, <3>3, <3>4
  <2>2. CASE k > Len(e)
    BY <1>1, <2>2 DEF Met
  <2>3. QED BY <1>1, <2>1, <2>2
<1>4. QED BY <1>2, <1>3

\* The pointers determine the list: of two walks from one node the first step
\* at which they differ would follow the same pointer.
LEMMA OneList ==
  ASSUME NEW f, NEW nx, NEW c \in Seq(Node), NEW d \in Seq(Node),
         Linked(f, nx, c), Linked(f, nx, d)
  PROVE  c = d
<1> DEFINE T == {k \in Nat \ {0} : Met(c, k) # Met(d, k)}
<1>w. /\ Met(c, 1) = f /\ Met(d, 1) = f
      /\ \A k \in Nat \ {0} :
           /\ Met(c, k) # NULL => Met(c, k + 1) = nx[Met(c, k)]
           /\ Met(d, k) # NULL => Met(d, k + 1) = nx[Met(d, k)]
           /\ Met(c, k) = NULL => Met(c, k + 1) = NULL
           /\ Met(d, k) = NULL => Met(d, k + 1) = NULL
  BY Walk
<1>1. T = {}
  <2>1. SUFFICES ASSUME T # {} PROVE FALSE
    OBVIOUS
  <2>2. PICK m \in T : \A y \in T : m <= y
    BY <2>1, Least
  <2>3. m \in Nat \ {0} /\ Met(c, m) # Met(d, m)
    OBVIOUS
  <2>4. m # 1
    BY <1>w, <2>3
  <2>5. PICK k \in Nat \ {0} : m = k + 1
    BY <2>3, <2>4
  <2>6. ~(m <= k)
    BY <2>5
  <2>7. Met(c, k) = Met(d, k)
    BY <2>2, <2>6
  <2>8. Met(c, k + 1) = Met(d, k + 1)
    BY <1>w, <2>5, <2>7
  <2>9. QED BY <2>3, <2>5, <2>8
<1>2. ASSUME NEW k \in Nat \ {0} PROVE Met(c, k) = Met(d, k)
  BY <1>1
<1> HIDE DEF T
<1>3. Len(c) \in Nat /\ Len(d) \in Nat
  OBVIOUS
<1>4. Len(c) = Len(d)
  <2>1. Len(c) + 1 > Len(d)
    <3>1. Met(c, Len(c) + 1) = NULL
      BY <1>3, Walk
    <3>2. Met(d, Len(c) + 1) = NULL
      BY <1>2, <1>3, <3>1
    <3>3. QED BY <1>3, <3>2, Walk
  <2>2. Len(d) + 1 > Len(c)
    <3>1. Met(d, Len(d) + 1) = NULL
      BY <1>3, Walk
    <3>2. Met(c, Len(d) + 1) = NULL
      BY <1>2, <1>3, <3>1
    <3>3. QED BY <1>3, <3>2, Walk
  <2>3. QED BY <1>3, <2>1, <2>2
<1>5. ASSUME NEW k \in 1..Len(c) PROVE c[k] = d[k]
  <2>1. Met(c, k) = c[k] /\ Met(d, k) = d[k]
    BY <1>3, <1>4 DEF Met
  <2>2. QED BY <1>2, <2>1
<1>6. QED BY <1>4, <1>5, SeqEqual

\* A list without repetitions is the path that Chain chooses.
LEMMA PathIs ==
  ASSUME NEW f, NEW nx, NEW c \in Seq(Node),
         Linked(f, nx, c), IsInjective(c)
  PROVE  Path(f, nx) = c
<1> DEFINE S == BoundedSeq(Node, Cardinality(Node))
<1>1. /\ Len(c) \in Nat /\ DOMAIN c = 1..Len(c) /\ c \in [1..Len(c) -> Node]
      /\ Cardinality(Node) \in Nat /\ IsFiniteSet(Node)
  BY HeapAssumption, FS_CardinalityType
<1>2. c \in Injection(1..Len(c), Node)
  BY <1>1 DEF Injection, IsInjective
<1>3. Cardinality(1..Len(c)) <= Cardinality(Node)
  BY <1>1, <1>2, FS_Injection
<1>4. Cardinality(1..Len(c)) = Len(c)
  <2>1. PICK m \in Nat : m = Len(c)
    BY <1>1
  <2>2. m \in Int /\ (IF 1 > m THEN 0 ELSE m - 1 + 1) = m
    OBVIOUS
  <2>3. Cardinality(1..m) = IF 1 > m THEN 0 ELSE m - 1 + 1
    BY <2>2, FS_Interval
  <2>4. QED BY <2>1, <2>2, <2>3
<1>5. c \in S
  BY <1>1, <1>3, <1>4 DEF BoundedSeq, SeqOf
<1>6. ASSUME NEW d \in S PROVE d \in Seq(Node)
  BY <1>1 DEF BoundedSeq, SeqOf
<1> HIDE DEF S
<1>7. Path(f, nx) = CHOOSE d \in S : Linked(f, nx, d)
  BY DEF Path, S
<1>8. Path(f, nx) \in S /\ Linked(f, nx, Path(f, nx))
  BY <1>5, <1>7
<1>9. QED BY <1>6, <1>8, OneList

\* An appended node becomes the end of the list.
LEMMA LinkedAppend ==
  ASSUME NEW f, NEW nx, nx \in [Node -> Node \cup {NULL}],
         NEW c \in Seq(Node), Linked(f, nx, c), IsInjective(c), c # <<>>,
         NEW n \in Node, n \notin ToSet(c)
  PROVE  Linked(f, [nx EXCEPT ![n] = NULL, ![c[Len(c)]] = n], Append(c, n))
<1> DEFINE d  == Append(c, n)
           ny == [nx EXCEPT ![n] = NULL, ![c[Len(c)]] = n]
<1>1. /\ Len(c) \in Nat \ {0} /\ d \in Seq(Node) /\ Len(d) = Len(c) + 1
      /\ d[Len(c) + 1] = n /\ DOMAIN c = 1..Len(c)
      /\ \A k \in 1..Len(c) : d[k] = c[k] /\ c[k] \in Node /\ c[k] # n
  BY DEF ToSet
<1> DEFINE l == Len(c)
<1>2. l \in 1..Len(c) /\ 1 \in 1..Len(c) /\ l \in Nat \ {0}
  BY <1>1
<1>3. /\ ny[n] = NULL /\ ny[c[l]] = n
      /\ \A m \in Node : m # n /\ m # c[l] => ny[m] = nx[m]
  <2>1. c[l] \in Node /\ c[l] # n
    BY <1>1, <1>2
  <2>2. QED BY <2>1
<1>4. f = d[1] /\ d # <<>>
  <2>1. f = c[1]
    BY DEF Linked
  <2>2. d[1] = c[1]
    BY <1>1, <1>2
  <2>3. QED BY <1>1, <1>2, <2>1, <2>2, EmptySeq
<1>5. \A k \in 1..l : nx[c[k]] = IF k = l THEN NULL ELSE c[k + 1]
  BY DEF Linked
<1>6. \A j, k \in 1..l : c[j] = c[k] => j = k
  BY <1>1 DEF IsInjective
<1>7. Len(d) = l + 1 /\ d[l + 1] = n /\ d[l] = c[l]
      /\ \A k \in 1..l : d[k] = c[k] /\ c[k] \in Node /\ c[k] # n
  BY <1>1, <1>2
<1> HIDE DEF d, ny, l
<1>8. ASSUME NEW k \in 1..Len(d)
      PROVE  ny[d[k]] = IF k = Len(d) THEN NULL ELSE d[k + 1]
  <2>1. CASE k = l + 1
    BY <1>3, <1>7, <2>1
  <2>2. CASE k = l
    BY <1>2, <1>3, <1>7, <2>2
  <2>3. CASE k \in 1..l /\ k # l
    <3>1. k + 1 \in 1..l /\ l \in 1..l /\ k # Len(d)
      BY <1>2, <1>7, <2>3
    <3>2. c[k] # c[l]
      BY <1>6, <2>3, <3>1
    <3>3. ny[d[k]] = nx[c[k]]
      BY <1>3, <1>7, <2>3, <3>2
    <3>4. nx[c[k]] = c[k + 1]
      BY <1>5, <2>3
    <3>5. d[k + 1] = c[k + 1]
      BY <1>7, <3>1
    <3>6. QED BY <3>1, <3>3, <3>4, <3>5
  <2>4. k = l + 1 \/ k = l \/ (k \in 1..l /\ k # l)
    BY <1>2, <1>7
  <2>5. QED BY <2>1, <2>2, <2>3, <2>4
<1>9. QED BY <1>4, <1>8 DEF Linked, d, ny, l

\* Appending a node that is not in it keeps a list free of repetitions.
LEMMA DistinctAppend ==
  ASSUME NEW c \in Seq(Node), IsInjective(c), NEW n \in Node,
         n \notin ToSet(c)
  PROVE  /\ Append(c, n) \in Seq(Node)
         /\ IsInjective(Append(c, n))
         /\ ToSet(Append(c, n)) = ToSet(c) \cup {n}
<1> DEFINE d == Append(c, n)
<1>1. /\ Len(c) \in Nat /\ d \in Seq(Node) /\ DOMAIN d = 1..Len(c) + 1
      /\ d[Len(c) + 1] = n /\ DOMAIN c = 1..Len(c)
      /\ \A k \in 1..Len(c) : d[k] = c[k] /\ c[k] # n
  BY DEF ToSet
<1> HIDE DEF d
<1>2. 1..Len(c) + 1 = 1..Len(c) \cup {Len(c) + 1}
  BY <1>1
<1>3. IsInjective(d)
  BY <1>1, <1>2 DEF IsInjective
<1>4. ToSet(d) = ToSet(c) \cup {n}
  BY <1>1, <1>2 DEF ToSet
<1>5. QED BY <1>1, <1>3, <1>4 DEF d

\* Without its first node a list starts where that node points.
LEMMA LinkedTail ==
  ASSUME NEW f, NEW nx, NEW c \in Seq(Node), Linked(f, nx, c),
         IsInjective(c), c # <<>>
  PROVE  /\ Tail(c) \in Seq(Node)
         /\ Linked(nx[f], nx, Tail(c))
         /\ IsInjective(Tail(c))
         /\ f = c[1] /\ f \in Node
         /\ ToSet(Tail(c)) = ToSet(c) \ {f}
         /\ Tail(c) = <<>> <=> nx[f] = NULL
         /\ Tail(c) # <<>> => Tail(c)[Len(Tail(c))] = c[Len(c)]
<1> DEFINE d == Tail(c)
<1>1. /\ Len(c) \in Nat \ {0} /\ d \in Seq(Node) /\ Len(d) = Len(c) - 1
      /\ DOMAIN c = 1..Len(c) /\ DOMAIN d = 1..Len(d)
      /\ \A k \in 1..Len(c) : c[k] \in Node /\ c[k] # NULL
      /\ \A k \in 1..Len(d) : k + 1 \in 1..Len(c) /\ d[k] = c[k + 1]
      /\ d = <<>> <=> Len(d) = 0
  <2>1. /\ Len(c) \in Nat \ {0} /\ d \in Seq(Node) /\ Len(d) = Len(c) - 1
        /\ DOMAIN c = 1..Len(c) /\ DOMAIN d = 1..Len(d)
    OBVIOUS
  <2>2. \A k \in 1..Len(c) : c[k] \in Node /\ c[k] # NULL
    BY HeapAssumption
  <2>3. \A k \in 1..Len(d) : k + 1 \in 1..Len(c)
    BY <2>1
  <2>4. \A k \in 1..Len(d) : d[k] = c[k + 1]
    BY <2>1
  <2>5. d = <<>> <=> Len(d) = 0
    BY <2>1, EmptySeq
  <2>6. QED BY <2>1, <2>2, <2>3, <2>4, <2>5
<1> HIDE DEF d
<1>2. f = c[1] /\ f \in Node
  BY <1>1 DEF Linked
<1>3. nx[f] = IF Len(c) = 1 THEN NULL ELSE c[2]
  BY <1>1, <1>2 DEF Linked
<1>4. nx[f] = IF d = <<>> THEN NULL ELSE d[1]
  BY <1>1, <1>3
<1>5. ASSUME NEW k \in 1..Len(d)
      PROVE  nx[d[k]] = IF k = Len(d) THEN NULL ELSE d[k + 1]
  <2>1. nx[c[k + 1]] = IF k + 1 = Len(c) THEN NULL ELSE c[k + 1 + 1]
    BY <1>1 DEF Linked
  <2>2. CASE k = Len(d)
    BY <1>1, <2>1, <2>2
  <2>3. CASE k # Len(d)
    <3>1. k + 1 \in 1..Len(d)
      BY <1>1, <2>3
    <3>2. k + 1 # Len(c)
      BY <1>1, <2>3
    <3>3. d[k + 1] = c[k + 1 + 1]
      BY <1>1, <3>1
    <3>4. QED BY <1>1, <2>1, <2>3, <3>2, <3>3
  <2>4. QED BY <2>2, <2>3
<1>6. Linked(nx[f], nx, d)
  BY <1>4, <1>5 DEF Linked
<1>7. IsInjective(d)
  <2>1. ASSUME NEW j \in 1..Len(d), NEW k \in 1..Len(d), d[j] = d[k]
        PROVE  j = k
    <3>1. j + 1 \in 1..Len(c) /\ k + 1 \in 1..Len(c) /\ c[j + 1] = c[k + 1]
      BY <1>1, <2>1
    <3>2. j + 1 = k + 1
      BY <1>1, <3>1 DEF IsInjective
    <3>3. QED BY <3>2
  <2>2. QED BY <1>1, <2>1 DEF IsInjective
<1>8. ToSet(d) = ToSet(c) \ {f}
  <2>1. ASSUME NEW x \in ToSet(d) PROVE x \in ToSet(c) /\ x # f
    <3>1. PICK k \in 1..Len(d) : x = d[k]
      BY <1>1 DEF ToSet
    <3>2. k + 1 \in 1..Len(c) /\ x = c[k + 1] /\ 1 \in 1..Len(c) /\ k + 1 # 1
      BY <1>1, <3>1
    <3>3. QED BY <1>1, <1>2, <3>2 DEF ToSet, IsInjective
  <2>2. ASSUME NEW x \in ToSet(c), x # f PROVE x \in ToSet(d)
    <3>1. PICK k \in 1..Len(c) : x = c[k]
      BY <1>1 DEF ToSet
    <3>2. k # 1
      BY <1>2, <2>2, <3>1
    <3>3. PICK j \in 1..Len(d) : k = j + 1
      BY <1>1, <3>1, <3>2
    <3>4. x = d[j]
      BY <1>1, <3>1, <3>3
    <3>5. QED BY <1>1, <3>4 DEF ToSet
  <2>3. QED BY <2>1, <2>2
<1>9. d = <<>> <=> nx[f] = NULL
  BY <1>1, <1>3
<1>10. d # <<>> => d[Len(d)] = c[Len(c)]
  BY <1>1
<1>11. QED BY <1>1, <1>2, <1>6, <1>7, <1>8, <1>9, <1>10 DEF d

-----------------------------------------------------------------------------
(* The queue: its memory is the list from front to rear.                   *)

\* The fields of the queue and of the nodes.
QueueTypeOK ==
  /\ front \in Node \cup {NULL} /\ rear \in Node \cup {NULL}
  /\ data \in [Node -> Data \cup {NULL}]
  /\ next \in [Node -> Node \cup {NULL}]

\* The queue is the list c, each of its nodes once, and nothing else is
\* allocated; rear is its last node.
ListIs(c) ==
  /\ c \in Seq(Node)
  /\ Linked(front, next, c)
  /\ IsInjective(c)
  /\ ToSet(c) = allocated
  /\ rear = IF c = <<>> THEN NULL ELSE c[Len(c)]

QueueInv == QueueTypeOK /\ \E c \in Seq(Node) : ListIs(c)

\* front and rear are null together, when the list is empty.
LEMMA Ends ==
  ASSUME NEW c, ListIs(c)
  PROVE  /\ front = NULL <=> c = <<>>
         /\ rear = NULL <=> c = <<>>
<1>1. CASE c = <<>>
  BY <1>1 DEF ListIs, Linked
<1>2. CASE c # <<>>
  <2>1. c \in Seq(Node) /\ Len(c) \in Nat \ {0}
    BY <1>2 DEF ListIs
  <2>2. c[1] \in Node /\ c[Len(c)] \in Node
    BY <2>1
  <2>3. front = c[1] /\ rear = c[Len(c)]
    BY <1>2 DEF ListIs, Linked
  <2>4. QED BY <1>2, <2>2, <2>3, HeapAssumption
<1>3. QED BY <1>1, <1>2

\* The empty list has no node to be linked.
LEMMA EmptyList ==
  ASSUME NEW nx
  PROVE  /\ <<>> \in Seq(Node) /\ Linked(NULL, nx, <<>>)
         /\ IsInjective(<<>>) /\ ToSet(<<>>) = {}
<1>1. <<>> \in Seq(Node) /\ Len(<<>>) = 0 /\ DOMAIN <<>> = {}
  OBVIOUS
<1>2. Linked(NULL, nx, <<>>)
  BY <1>1 DEF Linked
<1>3. IsInjective(<<>>) /\ ToSet(<<>>) = {}
  BY <1>1 DEF IsInjective, ToSet
<1>4. QED BY <1>1, <1>2, <1>3

\* Q_Init makes an empty queue.
LEMMA QueueInitially == QueueInit => QueueTypeOK /\ ListIs(<<>>)
BY EmptyList DEF QueueInit, QueueTypeOK, ListIs

\* Q_Enqueue appends the node that malloc returned.
LEMMA Enqueued ==
  ASSUME QueueTypeOK, NEW c, ListIs(c),
         NEW d \in Data, NEW n \in Node, Q_Enqueue(d, n),
         NEW e, e = Append(c, n)
  PROVE  QueueTypeOK' /\ ListIs(e)'
<1>1. /\ c \in Seq(Node) /\ Linked(front, next, c) /\ IsInjective(c)
      /\ n \notin ToSet(c) /\ ToSet(c) = allocated
      /\ rear = IF c = <<>> THEN NULL ELSE c[Len(c)]
  BY DEF ListIs, Q_Enqueue
<1>2. /\ e \in Seq(Node) /\ IsInjective(e) /\ ToSet(e) = allocated'
  BY <1>1, DistinctAppend DEF Q_Enqueue
<1>3. Len(e) = Len(c) + 1 /\ e # <<>> /\ e[Len(c) + 1] = n /\ Len(c) \in Nat
  BY <1>1
<1>4. rear' = IF e = <<>> THEN NULL ELSE e[Len(e)]
  BY <1>3 DEF Q_Enqueue
<1>5. CASE c = <<>>
  <2>1. rear = NULL
    BY <1>5, Ends
  <2>2. /\ front' = n /\ next' = [next EXCEPT ![n] = NULL]
        /\ data' = [data EXCEPT ![n] = d] /\ rear' = n
    BY <2>1 DEF Q_Enqueue
  <2>3. Len(e) = 1 /\ e[1] = n /\ next'[n] = NULL
    BY <1>3, <1>5, <2>2 DEF QueueTypeOK
  <2>4. Linked(front', next', e)
    BY <1>3, <2>2, <2>3 DEF Linked
  <2>5. QueueTypeOK'
    BY <2>2 DEF QueueTypeOK
  <2>6. QED BY <1>2, <1>4, <2>4, <2>5 DEF ListIs
<1>6. CASE c # <<>>
  <2>1. rear # NULL /\ rear = c[Len(c)]
    BY <1>1, <1>6, Ends
  <2>2. /\ front' = front
        /\ next' = [next EXCEPT ![n] = NULL, ![c[Len(c)]] = n]
        /\ data' = [data EXCEPT ![n] = d] /\ rear' = n
    BY <2>1 DEF Q_Enqueue
  <2>3. Linked(front', next', e)
    BY <1>1, <1>6, <2>2, LinkedAppend DEF QueueTypeOK
  <2>4. QueueTypeOK'
    BY <2>2 DEF QueueTypeOK
  <2>5. QED BY <1>2, <1>4, <2>3, <2>4 DEF ListIs
<1>7. QED BY <1>5, <1>6

\* Q_Dequeue takes the first node away and frees it.
LEMMA Dequeued ==
  ASSUME QueueTypeOK, NEW c, ListIs(c), front # NULL, Q_Dequeue,
         NEW e, e = Tail(c)
  PROVE  QueueTypeOK' /\ ListIs(e)'
<1>1. /\ c \in Seq(Node) /\ Linked(front, next, c) /\ IsInjective(c)
      /\ ToSet(c) = allocated /\ rear = c[Len(c)] /\ c # <<>>
  BY Ends DEF ListIs
<1>2. /\ front' = next[front] /\ data' = data /\ next' = next
      /\ rear' = IF next[front] = NULL THEN NULL ELSE rear
      /\ allocated' = allocated \ {front}
  BY DEF Q_Dequeue
<1>3. /\ e \in Seq(Node) /\ Linked(next[front], next, e) /\ IsInjective(e)
      /\ front \in Node /\ ToSet(e) = ToSet(c) \ {front}
      /\ e = <<>> <=> next[front] = NULL
      /\ e # <<>> => e[Len(e)] = c[Len(c)]
  BY <1>1, LinkedTail
<1>4. ListIs(e)'
  BY <1>1, <1>2, <1>3 DEF ListIs
<1>5. QueueTypeOK'
  BY <1>2, <1>3 DEF QueueTypeOK
<1>6. QED BY <1>4, <1>5

\* Q_Destroy frees the nodes of the list, which are all there are.
LEMMA Destroyed ==
  ASSUME QueueTypeOK, NEW c, ListIs(c), Q_Destroy
  PROVE  QueueTypeOK' /\ ListIs(<<>>)'
<1>1. Chain = c
  BY PathIs DEF ListIs, Chain
<1>2. allocated' = {} /\ front' = NULL /\ next' = next /\ data' = data
  BY <1>1 DEF Q_Destroy, ListIs
<1>3. rear' = NULL
  BY Ends DEF Q_Destroy
<1>4. QueueTypeOK'
  BY <1>2, <1>3 DEF QueueTypeOK
<1>5. ListIs(<<>>)'
  BY <1>2, <1>3, EmptyList DEF ListIs
<1>6. QED BY <1>4, <1>5

\* A call that only looks, or fails, leaves the list.
LEMMA ListStays ==
  ASSUME QueueTypeOK, NEW c, ListIs(c),
         UNCHANGED <<front, rear, data, next, allocated>>
  PROVE  QueueTypeOK' /\ ListIs(c)'
BY DEF QueueTypeOK, ListIs

\* Every call keeps the memory of the queue one list.
LEMMA QueueInductive == QueueInv /\ [QueueNext]_queueVars => QueueInv'
<1> SUFFICES ASSUME QueueInv, [QueueNext]_queueVars PROVE QueueInv'
  OBVIOUS
<1>1. PICK c \in Seq(Node) : ListIs(c)
  BY DEF QueueInv
<1>2. QueueTypeOK
  BY DEF QueueInv
<1>3. SUFFICES QueueTypeOK' /\ \E e : ListIs(e)'
  BY DEF QueueInv, ListIs
<1>4. ASSUME NEW d \in Data, NEW n \in Node, Q_Enqueue(d, n)
      PROVE  QueueTypeOK' /\ \E e : ListIs(e)'
  BY <1>1, <1>2, <1>4, Enqueued
<1>5. CASE Q_Dequeue
  <2>1. CASE front = NULL
    BY <1>1, <1>2, <1>5, <2>1, ListStays DEF Q_Dequeue
  <2>2. CASE front # NULL
    BY <1>1, <1>2, <1>5, <2>2, Dequeued
  <2>3. QED BY <2>1, <2>2
<1>6. CASE Q_Destroy
  BY <1>1, <1>2, <1>6, Destroyed
<1>7. CASE UNCHANGED <<front, rear, data, next, allocated>>
  BY <1>1, <1>2, <1>7, ListStays
<1>8. Q_EnqueueFails \/ Q_Ask \/ UNCHANGED queueVars
        => UNCHANGED <<front, rear, data, next, allocated>>
  BY DEF Q_EnqueueFails, Q_Ask, queueVars
<1>9. QED BY <1>4, <1>5, <1>6, <1>7, <1>8 DEF QueueNext

\* At every call the allocated nodes are one list from front to rear, whatever
\* addresses malloc gives out and whenever the queue was emptied before.
THEOREM QueueInvariance == QueueSpec => []QueueInv
<1>1. QueueInit => QueueInv
  BY QueueInitially, EmptyList DEF QueueInv
<1>2. QED BY <1>1, QueueInductive, PTL DEF QueueSpec

-----------------------------------------------------------------------------
(* The queue: callers see a plain queue.                                   *)

\* The payloads of the nodes c.
Held(c, dt) == [k \in DOMAIN c |-> dt[c[k]]]

\* One payload for each node.
LEMMA HeldTyped ==
  ASSUME NEW c \in Seq(Node), NEW dt \in [Node -> Data \cup {NULL}]
  PROVE  /\ Held(c, dt) \in Seq(Data \cup {NULL})
         /\ Len(Held(c, dt)) = Len(c)
         /\ \A k \in 1..Len(c) : Held(c, dt)[k] = dt[c[k]]
         /\ Held(c, dt) = <<>> <=> c = <<>>
<1>1. Len(c) \in Nat /\ DOMAIN c = 1..Len(c)
      /\ \A k \in 1..Len(c) : c[k] \in Node
  OBVIOUS
<1>2. Held(c, dt) \in Seq(Data \cup {NULL}) /\ Len(Held(c, dt)) = Len(c)
  BY <1>1 DEF Held
<1>3. \A k \in 1..Len(c) : Held(c, dt)[k] = dt[c[k]]
  BY <1>1 DEF Held
<1>4. Held(c, dt) = <<>> <=> c = <<>>
  BY <1>2, EmptySeq
<1>5. QED BY <1>2, <1>3, <1>4

\* A node that is appended with its payload appends the payload.
LEMMA HeldAppend ==
  ASSUME NEW c \in Seq(Node), NEW dt \in [Node -> Data \cup {NULL}],
         NEW d \in Data, NEW n \in Node, n \notin ToSet(c)
  PROVE  Held(Append(c, n), [dt EXCEPT ![n] = d]) = Append(Held(c, dt), d)
<1> DEFINE e == Append(c, n)
           du == [dt EXCEPT ![n] = d]
           h == Held(c, dt)
           hu == Held(e, du)
<1>1. /\ Len(c) \in Nat /\ e \in Seq(Node) /\ Len(e) = Len(c) + 1
      /\ e[Len(c) + 1] = n
      /\ \A k \in 1..Len(c) : e[k] = c[k] /\ c[k] \in Node /\ c[k] # n
  BY DEF ToSet
<1>2. /\ du \in [Node -> Data \cup {NULL}] /\ du[n] = d
      /\ \A m \in Node : m # n => du[m] = dt[m]
  OBVIOUS
<1>3. /\ h \in Seq(Data \cup {NULL}) /\ Len(h) = Len(c)
      /\ \A k \in 1..Len(c) : h[k] = dt[c[k]]
  BY HeldTyped
<1> HIDE DEF e, du
<1>4. /\ hu \in Seq(Data \cup {NULL}) /\ Len(hu) = Len(c) + 1
      /\ \A k \in 1..Len(c) + 1 : hu[k] = du[e[k]]
  BY <1>1, <1>2, HeldTyped
<1> HIDE DEF h, hu
<1>5. /\ Append(h, d) \in Seq(Data \cup {NULL})
      /\ Len(Append(h, d)) = Len(c) + 1
      /\ Append(h, d)[Len(c) + 1] = d
      /\ \A k \in 1..Len(c) : Append(h, d)[k] = h[k]
  BY <1>1, <1>3
<1>6. ASSUME NEW k \in 1..Len(c) + 1 PROVE hu[k] = Append(h, d)[k]
  <2>1. CASE k = Len(c) + 1
    BY <1>1, <1>2, <1>4, <1>5, <2>1
  <2>2. CASE k \in 1..Len(c)
    BY <1>1, <1>2, <1>3, <1>4, <1>5, <2>2
  <2>3. Len(c) \in Nat
    BY <1>1
  <2>4. k = Len(c) + 1 \/ k \in 1..Len(c)
    BY <2>3
  <2>5. QED BY <2>1, <2>2, <2>4
<1>7. hu = Append(h, d)
  BY <1>4, <1>5, <1>6, SeqEqual
<1>8. QED BY <1>7 DEF e, du, h, hu

\* Without the first node the first payload is gone.
LEMMA HeldTail ==
  ASSUME NEW c \in Seq(Node), NEW dt \in [Node -> Data \cup {NULL}],
         c # <<>>
  PROVE  /\ Held(Tail(c), dt) = Tail(Held(c, dt))
         /\ Head(Held(c, dt)) = dt[c[1]]
<1> DEFINE e == Tail(c)
           h == Held(c, dt)
           hu == Held(e, dt)
<1>1. /\ Len(c) \in Nat \ {0} /\ e \in Seq(Node) /\ Len(e) = Len(c) - 1
      /\ \A k \in 1..Len(c) - 1 : e[k] = c[k + 1]
  <2>1. Len(c) \in Nat \ {0}
    OBVIOUS
  <2>2. e \in Seq(Node) /\ Len(e) = Len(c) - 1
        /\ \A k \in 1..Len(e) : e[k] = c[k + 1]
    BY HeadTailProperties
  <2>3. QED BY <2>1, <2>2
<1>2. /\ h \in Seq(Data \cup {NULL}) /\ Len(h) = Len(c) /\ h # <<>>
      /\ \A k \in 1..Len(c) : h[k] = dt[c[k]]
  BY HeldTyped
<1> HIDE DEF e
<1>3. /\ hu \in Seq(Data \cup {NULL}) /\ Len(hu) = Len(c) - 1
      /\ \A k \in 1..Len(c) - 1 : hu[k] = dt[e[k]]
  BY <1>1, HeldTyped
<1> HIDE DEF h, hu
<1>4. /\ Tail(h) \in Seq(Data \cup {NULL}) /\ Len(Tail(h)) = Len(c) - 1
      /\ \A k \in 1..Len(c) - 1 : Tail(h)[k] = h[k + 1]
  <2>1. Tail(h) \in Seq(Data \cup {NULL}) /\ Len(Tail(h)) = Len(h) - 1
        /\ \A k \in 1..Len(Tail(h)) : Tail(h)[k] = h[k + 1]
    BY <1>2, HeadTailProperties
  <2>2. QED BY <1>2, <2>1
<1>5. ASSUME NEW k \in 1..Len(c) - 1 PROVE hu[k] = Tail(h)[k]
  <2>1. k + 1 \in 1..Len(c)
    BY <1>1
  <2>2. hu[k] = dt[c[k + 1]]
    BY <1>1, <1>3
  <2>3. Tail(h)[k] = dt[c[k + 1]]
    BY <1>2, <1>4, <2>1
  <2>4. QED BY <2>2, <2>3
<1>6. hu = Tail(h)
  BY <1>3, <1>4, <1>5, SeqEqual
<1>7. Head(h) = h[1] /\ 1 \in 1..Len(c)
  BY <1>1, <1>2
<1>8. QED BY <1>2, <1>6, <1>7 DEF e, h, hu

\* The call leaves the list e, which holds q, and answers v.
Leaves(e, v, q) ==
  ListIs(e)' /\ Held(e, data') = q /\ answer' = v /\ UNCHANGED exited

\* A call is the one of the plain queue if it answers and changes the payloads
\* as that does: what the pointers lead to is the list, and its nodes are those
\* that are allocated.
LEMMA Refines ==
  ASSUME NEW c, NEW e, NEW h, ListIs(c), h = Held(c, data), ~exited,
         \/ \E d \in Data : Leaves(e, NULL, Append(h, d))
         \/ h = <<>> /\ Leaves(e, NULL, h)
         \/ h # <<>> /\ Leaves(e, Head(h), Tail(h))
         \/ Leaves(e, IF h = <<>> THEN 1 ELSE 0, h)
         \/ Leaves(e, IF h = <<>> THEN NULL ELSE Head(h), h)
         \/ Leaves(e, NULL, <<>>)
         \/ ListIs(e)' /\ exited' = TRUE /\ Held(e, data') = h
            /\ UNCHANGED answer
  PROVE  Plain!Next
<1> USE DEF Leaves
<1>1. Chain = c /\ Chain' = e
  <2>1. Path(front, next) = c
    BY PathIs DEF ListIs
  <2>2. Path(front', next') = e
    BY PathIs DEF ListIs
  <2>3. QED BY <2>1, <2>2 DEF Chain
<1>2. ToSet(c) = allocated /\ ToSet(e) = allocated'
  BY DEF ListIs
<1>3. Plain!InOrder'
  BY <1>1, <1>2 DEF Plain!InOrder
<1>4. Plain!Enqueue \/ Plain!Dequeue \/ Plain!Ask \/ Plain!Destroy
        \/ Plain!OutOfMemory
  BY <1>1 DEF Held, Plain!Enqueue, Plain!Dequeue, Plain!Ask, Plain!Destroy,
              Plain!OutOfMemory, Plain!Answer
<1>5. QED BY <1>3, <1>4 DEF Plain!Next

\* Every call is the call of the plain queue.
LEMMA QueueCallRefines ==
  QueueInv /\ [QueueNext]_queueVars => [Plain!Next]_(Plain!plainVars)
<1> SUFFICES ASSUME QueueInv, [QueueNext]_queueVars
             PROVE  [Plain!Next]_(Plain!plainVars)
  OBVIOUS
<1>1. PICK c \in Seq(Node) : ListIs(c)
  BY DEF QueueInv
<1>2. QueueTypeOK /\ data \in [Node -> Data \cup {NULL}]
  BY DEF QueueInv, QueueTypeOK
<1>3. PICK h : h = Held(c, data)
  OBVIOUS
<1>4. h = <<>> <=> front = NULL
  BY <1>1, <1>2, <1>3, HeldTyped, Ends
<1>5. c # <<>> => Head(h) = data[front]
  BY <1>1, <1>2, <1>3, HeldTail DEF ListIs, Linked
<1>6. ASSUME UNCHANGED <<front, rear, data, next, allocated>>
      PROVE  ListIs(c)' /\ Held(c, data') = h
  BY <1>1, <1>2, <1>3, <1>6, ListStays
<1>7. ASSUME NEW d \in Data, NEW n \in Node, Q_Enqueue(d, n), ~exited
      PROVE  Plain!Next
  <2>1. PICK e : e = Append(c, n)
    OBVIOUS
  <2>2. ListIs(e)'
    BY <1>1, <1>2, <1>7, <2>1, Enqueued
  <2>3. n \notin ToSet(c)
    BY <1>1, <1>7 DEF ListIs, Q_Enqueue
  <2>4. data' = [data EXCEPT ![n] = d]
    BY <1>7 DEF Q_Enqueue
  <2>5. Held(e, data') = Append(h, d)
    BY <1>1, <1>2, <1>3, <2>1, <2>3, <2>4, HeldAppend
  <2>6. Leaves(e, NULL, Append(h, d))
    BY <1>7, <2>2, <2>5 DEF Leaves, Q_Enqueue
  <2>7. QED BY <1>1, <1>3, <1>7, <2>6, Refines
<1>8. ASSUME Q_Dequeue, ~exited
      PROVE  Plain!Next
  <2>1. CASE front = NULL
    <3>1. Leaves(c, NULL, h)
      BY <1>6, <1>8, <2>1 DEF Leaves, Q_Dequeue
    <3>2. QED BY <1>1, <1>3, <1>4, <1>8, <2>1, <3>1, Refines
  <2>2. CASE front # NULL
    <3>1. PICK e : e = Tail(c)
      OBVIOUS
    <3>2. ListIs(e)'
      BY <1>1, <1>2, <1>8, <2>2, <3>1, Dequeued
    <3>3. c # <<>> /\ answer' = data[front] /\ data' = data
          /\ exited' = exited
      BY <1>1, <1>8, <2>2, Ends DEF Q_Dequeue
    <3>4. Held(e, data') = Tail(h)
      BY <1>1, <1>2, <1>3, <3>1, <3>3, HeldTail
    <3>5. Leaves(e, Head(h), Tail(h))
      BY <1>5, <3>2, <3>3, <3>4 DEF Leaves
    <3>6. QED BY <1>1, <1>3, <1>4, <1>8, <2>2, <3>5, Refines
  <2>3. QED BY <2>1, <2>2
<1>9. ASSUME Q_Ask, ~exited
      PROVE  Plain!Next
  <2>1. ListIs(c)' /\ Held(c, data') = h /\ UNCHANGED exited
    BY <1>6, <1>9 DEF Q_Ask
  <2>2. \/ answer' = IF h = <<>> THEN 1 ELSE 0
        \/ answer' = IF h = <<>> THEN NULL ELSE Head(h)
    BY <1>1, <1>4, <1>5, <1>9, Ends DEF Q_Ask
  <2>3. \/ Leaves(c, IF h = <<>> THEN 1 ELSE 0, h)
        \/ Leaves(c, IF h = <<>> THEN NULL ELSE Head(h), h)
    BY <2>1, <2>2 DEF Leaves
  <2>4. QED BY <1>1, <1>3, <1>9, <2>3, Refines
<1>10. ASSUME Q_Destroy, ~exited
       PROVE  Plain!Next
  <2>1. ListIs(<<>>)'
    BY <1>1, <1>2, <1>10, Destroyed
  <2>2. Held(<<>>, data') = <<>>
    BY DEF Held
  <2>3. Leaves(<<>>, NULL, <<>>)
    BY <1>10, <2>1, <2>2 DEF Leaves, Q_Destroy
  <2>4. QED BY <1>1, <1>3, <1>10, <2>3, Refines
<1>11. ASSUME Q_EnqueueFails, ~exited
       PROVE  Plain!Next
  <2>1. ListIs(c)' /\ Held(c, data') = h /\ exited' = TRUE
        /\ UNCHANGED answer
    BY <1>6, <1>11 DEF Q_EnqueueFails
  <2>2. QED BY <1>1, <1>3, <1>11, <2>1, Refines
<1>12. CASE UNCHANGED queueVars
  BY <1>12 DEF queueVars, Plain!plainVars, Chain
<1>13. QED BY <1>7, <1>8, <1>9, <1>10, <1>11, <1>12 DEF QueueNext

\* The linked queue is a first-in first-out queue that neither leaks memory
\* nor links what was freed.
THEOREM QueueRefines == QueueSpec => IsQueue
<1>1. QueueInit => Plain!Init
  <2>1. SUFFICES ASSUME QueueInit PROVE Plain!Init
    OBVIOUS
  <2>2. Chain = <<>>
    BY <2>1, QueueInitially, PathIs DEF ListIs, Chain
  <2>3. ToSet(<<>>) = {} /\ Held(<<>>, data) = <<>>
    BY EmptyList DEF Held
  <2>4. QED BY <2>1, <2>2, <2>3
            DEF QueueInit, Held, Plain!Init, Plain!InOrder
<1>2. QED BY <1>1, QueueCallRefines, QueueInvariance, PTL
          DEF QueueSpec, IsQueue, Plain!Spec

-----------------------------------------------------------------------------
(* A caller of both.                                                       *)

\* Calls on one container leave the other alone: a caller of both uses each
\* as if it were the only one.
THEOREM Composition == ContainersSpec => Spec /\ QueueSpec
<1>1. ContainersInit => Init /\ QueueInit
  BY DEF ContainersInit
<1>2. [ContainersNext]_<<vars, queueVars>> => [Next]_vars
  BY DEF ContainersNext, vars
<1>3. [ContainersNext]_<<vars, queueVars>> => [QueueNext]_queueVars
  BY DEF ContainersNext, queueVars
<1>4. QED BY <1>1, <1>2, <1>3, PTL DEF ContainersSpec, Spec, QueueSpec

\* A caller of both sees a bounded stack and a plain queue.
THEOREM ContainersRefine ==
  ContainersSpec => []TypeOK /\ IsBoundedStack /\ IsQueue
BY Composition, TypeCorrect, StackRefines, QueueRefines, PTL
=============================================================================
