-------------------------- MODULE UnitRunnerProofs --------------------------
(***************************************************************************)
(* Proofs about what the linker links and about the test runner that is    *)
(* started from it, for any set of tests and any priorities of their       *)
(* constructors after that of the queue.                                   *)
(***************************************************************************)
EXTENDS UnitRunner, SequenceTheorems, FiniteSetTheorems, TLAPS

-----------------------------------------------------------------------------
(* What the linker has read and bound.                                     *)

\* The files of the repository, directory by directory.
Directories == {Files.generic, Files.ni, Files.waes, Files.wcontext,
                Files.wunit, Files.unit}
AllFiles == UNION Directories

\* The directories the linker has read to the end.
Passed == Len(Sources(target)) - Len(left)

\* The position of directories is counted in Sources (target); the files of
\* all that are passed are read, and those no longer left of the one after.
Read(f, k) ==
  /\ k \in 1..Len(Sources(target)) /\ f \in Sources(target)[k]
  /\ k <= Passed \/ (k = Passed + 1 /\ f \notin left[1])

\* The directories left are those at the end of the list, the first of them
\* maybe in part.
LeftInv ==
  /\ target \in {"exe", "so"} /\ aes \in BOOLEAN
  /\ Passed \in 0..Len(Sources(target))
  /\ left \in Seq(SUBSET AllFiles)
  /\ \A k \in 2..Len(left) : left[k] = Sources(target)[Passed + k]
  /\ ~Linked => left[1] # {} /\ left[1] \subseteq Sources(target)[Passed + 1]

\* A symbol is bound to a definition that was read, if there is any; to the
\* first one unless it is weak and another is not.
BoundOk(g) ==
  /\ bound[g] # "none" =>
       /\ bound[g] \in DefinedIn[g] /\ Compiled(bound[g])
       /\ \E k \in 1..Len(Sources(target)) : Read(bound[g], k)
  /\ \A f \in DefinedIn[g] : \A j \in 1..Len(Sources(target)) :
       Compiled(f) /\ Read(f, j) =>
         /\ bound[g] # "none"
         /\ Weak(bound[g]) =>
              /\ Weak(f)
              /\ \A k \in 1..Len(Sources(target)) :
                   Read(bound[g], k) => k <= j

BoundInv == \A g \in Symbols : BoundOk(g)

LinkInv == LeftInv /\ BoundInv

-----------------------------------------------------------------------------
(* The tests, from their registration on.                                  *)

TypeInv ==
  /\ phase \in {"start", "loop", "test", "returned", "exited"}
  /\ waiting \subseteq Tests \cup {"_Init"}
  /\ queue \in Seq(Tests) /\ ran \in Seq(Tests) /\ registered \in Seq(Tests)
  /\ test \in Tests \cup {"none"}
  /\ status \in Nat

\* Constructors run once everything is linked, that of the queue first.
StartInv ==
  /\ ~Linked => phase = "start" /\ Tests \subseteq waiting /\ registered = <<>>
  /\ "_Init" \in waiting => registered = <<>>
  /\ phase = "start" => ran = <<>> /\ status = 0
  /\ phase \in {"loop", "test", "returned"} => waiting = {} /\ status = 0
  /\ phase = "exited" /\ status = 0 => waiting = {}

\* In the executable every test whose constructor has run is registered, once.
RegisteredInv ==
  /\ \A k, l \in 1..Len(registered) : registered[k] = registered[l] => k = l
  /\ \A k \in 1..Len(registered) : registered[k] \notin waiting
  /\ target = "exe" /\ status = 0 =>
       \A t \in Tests \ waiting :
         \E k \in 1..Len(registered) : registered[k] = t

\* The tests that have run, the one that runs and those in the queue are those
\* registered, in their order.
Running == IF phase = "test" THEN 1 ELSE 0

OrderInv ==
  /\ Len(ran) <= Len(registered)
  /\ \A k \in 1..Len(ran) : ran[k] = registered[k]
  /\ status = 0 =>
       /\ Len(registered) = Len(ran) + Running + Len(queue)
       /\ phase = "test" => test = registered[Len(ran) + 1]
       /\ \A k \in 1..Len(queue) :
            queue[k] = registered[Len(ran) + Running + k]
  /\ phase \in {"returned", "exited"} /\ status = 0 => queue = <<>>

IInv == LinkInv /\ TypeInv /\ StartInv /\ RegisteredInv /\ OrderInv

-----------------------------------------------------------------------------
(* The linker.                                                             *)

\* The directories of either target, one by one.
LEMMA SourcesAre ==
  ASSUME NEW t \in {"exe", "so"}
  PROVE  /\ Sources(t) \in Seq(SUBSET AllFiles)
         /\ Len(Sources(t)) = IF t = "exe" THEN 6 ELSE 5
         /\ Sources(t)[1] = Files.generic /\ Sources(t)[2] = Files.ni
         /\ Sources(t)[3] = Files.waes /\ Sources(t)[4] = Files.wcontext
         /\ Sources(t)[5] = Files.wunit
         /\ t = "exe" => Sources(t)[6] = Files.unit
<1> DEFINE first == <<Files.generic, Files.ni, Files.waes, Files.wcontext,
                      Files.wunit>>
<1>0. \A d \in Directories : d \in SUBSET AllFiles
  BY DEF AllFiles
<1>1. /\ first \in Seq(SUBSET AllFiles) /\ Len(first) = 5
      /\ first[1] = Files.generic /\ first[2] = Files.ni
      /\ first[3] = Files.waes /\ first[4] = Files.wcontext
      /\ first[5] = Files.wunit
  BY <1>0 DEF Directories
<1>2. CASE t = "exe"
  <2> DEFINE last == <<Files.unit>>
  <2>1. /\ last \in Seq(SUBSET AllFiles) /\ Len(last) = 1
        /\ last[1] = Files.unit
    BY <1>0 DEF Directories
  <2>2. Sources(t) = first \o last
    BY <1>2 DEF Sources
  <2> HIDE DEF first, last
  <2>3. Len(first) + Len(last) = 6
    BY <1>1, <2>1
  <2>4. /\ first \o last \in Seq(SUBSET AllFiles)
        /\ Len(first \o last) = Len(first) + Len(last)
        /\ \A i \in 1..Len(first) + Len(last) :
             (first \o last)[i] =
               IF i <= Len(first) THEN first[i] ELSE last[i - Len(first)]
    BY <1>1, <2>1, ConcatProperties
  <2>5. /\ Sources(t) \in Seq(SUBSET AllFiles) /\ Len(Sources(t)) = 6
        /\ \A i \in 1..6 : Sources(t)[i] =
                             IF i <= 5 THEN first[i] ELSE last[i - 5]
    BY <1>1, <2>2, <2>3, <2>4
  <2>6. QED BY <1>1, <1>2, <2>1, <2>5
<1>3. CASE t = "so"
  <2>1. Sources(t) = first \o <<>>
    BY <1>3 DEF Sources
  <2> HIDE DEF first
  <2>2. Sources(t) = first
    BY <1>1, <2>1, ConcatEmptySeq
  <2>3. QED BY <1>1, <1>3, <2>2
<1>4. QED BY <1>2, <1>3

\* No directory is empty, and no file is in two of them.
LEMMA SourcesApart ==
  ASSUME NEW t \in {"exe", "so"}
  PROVE  /\ \A k \in 1..Len(Sources(t)) : Sources(t)[k] # {}
         /\ \A j, k \in 1..Len(Sources(t)) :
              \A f \in Sources(t)[j] \cap Sources(t)[k] : j = k
<1> DEFINE S == Sources(t)
<1>1. /\ Len(S) \in {5, 6}
      /\ Len(S) = 6 => t = "exe"
      /\ S[1] = Files.generic /\ S[2] = Files.ni /\ S[3] = Files.waes
      /\ S[4] = Files.wcontext /\ S[5] = Files.wunit
      /\ t = "exe" => S[6] = Files.unit
  BY SourcesAre
<1> HIDE DEF S
<1>2. \A k \in 1..Len(S) :
        \/ k = 1 /\ S[k] = Files.generic
        \/ k = 2 /\ S[k] = Files.ni
        \/ k = 3 /\ S[k] = Files.waes
        \/ k = 4 /\ S[k] = Files.wcontext
        \/ k = 5 /\ S[k] = Files.wunit
        \/ k = 6 /\ S[k] = Files.unit
  <2>1. SUFFICES ASSUME NEW k \in 1..Len(S)
                 PROVE  \/ k = 1 /\ S[k] = Files.generic
                        \/ k = 2 /\ S[k] = Files.ni
                        \/ k = 3 /\ S[k] = Files.waes
                        \/ k = 4 /\ S[k] = Files.wcontext
                        \/ k = 5 /\ S[k] = Files.wunit
                        \/ k = 6 /\ S[k] = Files.unit
    OBVIOUS
  <2>2. k \in {1, 2, 3, 4, 5} \/ (k = 6 /\ Len(S) = 6)
    <3>1. CASE Len(S) = 5
      BY <3>1
    <3>2. CASE Len(S) = 6
      BY <3>2
    <3>3. QED BY <1>1, <3>1, <3>2
  <2>3. CASE k \in {1, 2, 3, 4, 5}
    BY <1>1, <2>3
  <2>4. CASE k = 6 /\ Len(S) = 6
    BY <1>1, <2>4
  <2>5. QED BY <2>2, <2>3, <2>4
<1>3. \A k \in 1..Len(S) : S[k] # {}
  BY <1>2 DEF Files
<1> DEFINE Home(f) ==
      IF f \in Files.generic THEN 1 ELSE IF f \in Files.ni THEN 2
      ELSE IF f \in Files.waes THEN 3 ELSE IF f \in Files.wcontext THEN 4
      ELSE IF f \in Files.wunit THEN 5 ELSE 6
<1>4. ASSUME NEW k \in 1..Len(S), NEW f \in S[k] PROVE Home(f) = k
  BY <1>2, <1>4 DEF Files
<1> HIDE DEF Home
<1>5. \A j, k \in 1..Len(S) : \A f \in S[j] \cap S[k] : j = k
  BY <1>4
<1>6. QED BY <1>3, <1>5 DEF S

\* Nothing is read at first.
LEMMA LinkInitially == LinkInit => LinkInv
<1> SUFFICES ASSUME LinkInit PROVE LinkInv
  OBVIOUS
<1>1. /\ target \in {"exe", "so"} /\ aes \in BOOLEAN /\ left = Sources(target)
      /\ \A g \in Symbols : bound[g] = "none"
  BY DEF LinkInit
<1>2. /\ Len(left) \in Nat \ {0} /\ left \in Seq(SUBSET AllFiles)
      /\ left[1] # {}
  BY <1>1, SourcesAre, SourcesApart
<1>3. Passed = 0
  BY <1>1, <1>2 DEF Passed
<1>4. LeftInv
  BY <1>1, <1>2, <1>3 DEF LeftInv
<1>5. \A f, k : ~Read(f, k)
  BY <1>1, <1>3 DEF Read
<1>6. BoundInv
  BY <1>1, <1>5 DEF BoundInv, BoundOk
<1>7. QED BY <1>4, <1>6 DEF LinkInv

\* Reading a file leaves the rest of its directory, or the next ones.
LEMMA LeftStep ==
  ASSUME LeftInv, NEW f, Link(f)
  PROVE  /\ LeftInv'
         /\ Passed + 1 \in 1..Len(Sources(target))
         /\ f \in Sources(target)[Passed + 1]
         /\ \A h, k : Read(h, k)' <=> Read(h, k) \/ (h = f /\ k = Passed + 1)
<1> DEFINE S == Sources(target)
<1>1. /\ target' = target /\ aes' = aes /\ left # <<>> /\ f \in Head(left)
      /\ left' = IF Head(left) = {f} THEN Tail(left)
                                     ELSE [left EXCEPT ![1] = @ \ {f}]
  BY DEF Link, Linked
<1>2. /\ target \in {"exe", "so"} /\ aes \in BOOLEAN
      /\ Passed \in 0..Len(S) /\ Passed = Len(S) - Len(left)
      /\ left \in Seq(SUBSET AllFiles)
      /\ \A k \in 2..Len(left) : left[k] = S[Passed + k]
      /\ left[1] # {} /\ left[1] \subseteq S[Passed + 1]
  BY <1>1 DEF LeftInv, Passed, Linked
<1>3. /\ S \in Seq(SUBSET AllFiles) /\ Len(S) \in Nat
      /\ \A k \in 1..Len(S) : S[k] # {}
      /\ \A j, k \in 1..Len(S) : \A h \in S[j] \cap S[k] : j = k
  <2>1. S \in Seq(SUBSET AllFiles)
    BY <1>2, SourcesAre
  <2>0. Len(S) \in Nat
    BY <2>1, LenProperties
  <2>2. QED BY <1>2, <2>0, <2>1, SourcesApart
<1>4. S' = S
  BY <1>1 DEF Sources
<1> HIDE DEF S
<1>5. Len(left) \in Nat \ {0} /\ Head(left) = left[1]
  BY <1>1, <1>2
<1>6. Passed + 1 \in 1..Len(S) /\ f \in S[Passed + 1]
  BY <1>1, <1>2, <1>3, <1>5
<1>7. CASE Head(left) = {f}
  <2>1. /\ left' \in Seq(SUBSET AllFiles) /\ Len(left') = Len(left) - 1
        /\ \A k \in 1..Len(left) - 1 : left'[k] = left[k + 1]
    BY <1>1, <1>2, <1>5, <1>7
  <2>2. Passed' = Passed + 1
    BY <1>2, <1>3, <1>4, <1>5, <2>1 DEF Passed, S
  <2>3. \A k \in 1..Len(left') : left'[k] = S[Passed' + k]
    BY <1>2, <1>3, <1>5, <2>1, <2>2
  <2>4. left' # <<>> => 1 \in 1..Len(left') /\ Passed' + 1 \in 1..Len(S)
    BY <1>2, <1>3, <1>5, <2>1, <2>2
  <2>5. LeftInv'
    <3>1. \A k \in 2..Len(left') : left'[k] = S'[Passed' + k]
      BY <1>4, <1>5, <2>1, <2>3
    <3>2. left' # <<>> => left'[1] # {} /\ left'[1] \subseteq S'[Passed' + 1]
      BY <1>3, <1>4, <2>3, <2>4
    <3>3. Passed' \in 0..Len(S')
      BY <1>4, <1>6, <2>2, <1>2, <1>3
    <3>4. QED BY <1>1, <1>2, <2>1, <3>1, <3>2, <3>3 DEF LeftInv, Linked, S
  <2>6. ASSUME NEW h, NEW k
        PROVE  Read(h, k)' <=> Read(h, k) \/ (h = f /\ k = Passed + 1)
    <3>1. Read(h, k)' <=> /\ k \in 1..Len(S) /\ h \in S[k]
                          /\ \/ k <= Passed + 1
                             \/ k = Passed + 2 /\ h \notin left'[1]
      BY <1>2, <1>3, <1>4, <2>2 DEF Read, S
    <3>2. Read(h, k) <=> /\ k \in 1..Len(S) /\ h \in S[k]
                         /\ \/ k <= Passed
                            \/ k = Passed + 1 /\ h \notin left[1]
      BY DEF Read, S
    <3>3. k = Passed + 2 /\ k \in 1..Len(S) => left'[1] = S[k]
      BY <1>2, <1>3, <1>5, <2>1, <2>2, <2>3
    <3>4. left[1] = {f}
      BY <1>5, <1>7
    <3>5. QED BY <1>2, <1>3, <1>6, <3>1, <3>2, <3>3, <3>4
  <2>7. QED BY <1>6, <2>5, <2>6 DEF S
<1>8. CASE Head(left) # {f}
  <2>1. /\ left' \in Seq(SUBSET AllFiles) /\ Len(left') = Len(left)
        /\ left'[1] = left[1] \ {f}
        /\ \A k \in 2..Len(left) : left'[k] = left[k]
    BY <1>1, <1>2, <1>5, <1>8
  <2>2. Passed' = Passed
    BY <1>4, <2>1 DEF Passed, S
  <2>3. left'[1] # {} /\ left'[1] \subseteq S[Passed + 1]
    BY <1>1, <1>2, <1>5, <1>8, <2>1
  <2>4. LeftInv'
    BY <1>1, <1>2, <1>4, <2>1, <2>2, <2>3 DEF LeftInv, Linked, S
  <2>5. ASSUME NEW h, NEW k
        PROVE  Read(h, k)' <=> Read(h, k) \/ (h = f /\ k = Passed + 1)
    <3>1. Read(h, k)' <=> /\ k \in 1..Len(S) /\ h \in S[k]
                          /\ \/ k <= Passed
                             \/ k = Passed + 1 /\ h \notin left[1] \ {f}
      BY <1>4, <2>1, <2>2 DEF Read, S
    <3>2. Read(h, k) <=> /\ k \in 1..Len(S) /\ h \in S[k]
                         /\ \/ k <= Passed
                            \/ k = Passed + 1 /\ h \notin left[1]
      BY DEF Read, S
    <3>3. QED BY <1>6, <3>1, <3>2
  <2>6. QED BY <1>6, <2>4, <2>5 DEF S
<1>9. QED BY <1>7, <1>8

\* Binding by the first definition, or the first that is not weak, goes on.
LEMMA BoundStep ==
  ASSUME LinkInv, NEW f, Link(f)
  PROVE  BoundInv'
<1>0. PICK S, d : S = Sources(target) /\ d = Passed + 1
  OBVIOUS
<1>1. /\ target' = target /\ aes' = aes
      /\ bound' = [g \in Symbols |->
           IF /\ f \in DefinedIn[g] /\ Compiled(f)
              /\ bound[g] = "none" \/ (Weak(bound[g]) /\ ~Weak(f))
             THEN f ELSE bound[g]]
  BY DEF Link
<1>2. /\ d \in 1..Len(S) /\ f \in S[d] /\ Passed \in 0..Len(S)
      /\ target \in {"exe", "so"}
      /\ \A h, k : Read(h, k)' <=> Read(h, k) \/ (h = f /\ k = d)
  BY <1>0, LeftStep DEF LinkInv, LeftInv
<1>3. \A h, k : Read(h, k) => k \in 1..Len(S) /\ h \in S[k] /\ k <= d
  BY <1>0, <1>2 DEF Read
<1>4. \A j, k \in 1..Len(S) : \A h \in S[j] \cap S[k] : j = k
  BY <1>0, <1>2, SourcesApart
<1>5. /\ Sources(target)' = S /\ Len(S) \in Nat
      /\ \A h : Compiled(h)' <=> Compiled(h)
  BY <1>0, <1>1, <1>2, SourcesAre DEF Compiled
<1>6. ASSUME NEW g \in Symbols, NEW old, NEW new,
             old = bound[g], new = bound'[g]
      PROVE  /\ new # "none" =>
                  /\ new \in DefinedIn[g] /\ Compiled(new)
                  /\ \E k \in 1..Len(S) : Read(new, k)'
             /\ \A h \in DefinedIn[g] : \A j \in 1..Len(S) :
                  Compiled(h) /\ Read(h, j)' =>
                    /\ new # "none"
                    /\ Weak(new) =>
                         /\ Weak(h)
                         /\ \A k \in 1..Len(S) : Read(new, k)' => k <= j
  <2>1. /\ old # "none" =>
             /\ old \in DefinedIn[g] /\ Compiled(old)
             /\ \E k \in 1..Len(S) : Read(old, k)
        /\ \A h \in DefinedIn[g] : \A j \in 1..Len(S) :
             Compiled(h) /\ Read(h, j) =>
               /\ old # "none"
               /\ Weak(old) =>
                    /\ Weak(h)
                    /\ \A k \in 1..Len(S) : Read(old, k) => k <= j
    BY <1>0, <1>6 DEF LinkInv, BoundInv, BoundOk
  <2>2. f \in DefinedIn[g] => f # "none"
    BY DEF DefinedIn, Symbols
  <2>3. CASE /\ f \in DefinedIn[g] /\ Compiled(f)
             /\ old = "none" \/ (Weak(old) /\ ~Weak(f))
    <3>1. new = f
      BY <1>1, <1>6, <2>3
    <3>2. \A k \in 1..Len(S) : Read(f, k)' => k = d
      BY <1>2, <1>3, <1>4
    <3>3. ASSUME NEW h \in DefinedIn[g], NEW j \in 1..Len(S),
                 Compiled(h), Read(h, j)', Weak(f)
          PROVE  Weak(h) /\ \A k \in 1..Len(S) : Read(f, k)' => k <= j
      <4>1. old = "none"
        BY <2>3, <3>3
      <4>2. ~Read(h, j)
        BY <2>1, <3>3, <4>1
      <4>3. h = f /\ j = d
        BY <1>2, <3>3, <4>2
      <4>4. QED BY <3>2, <3>3, <4>3, <1>2
    <3>4. Read(f, d)'
      BY <1>2
    <3>5. QED BY <1>2, <2>2, <2>3, <3>1, <3>3, <3>4
  <2>4. CASE ~ /\ f \in DefinedIn[g] /\ Compiled(f)
               /\ old = "none" \/ (Weak(old) /\ ~Weak(f))
    <3>1. new = old
      BY <1>1, <1>6, <2>4
    <3>2. \A k : Read(old, k)' => Read(old, k) \/ (old = f /\ k = d)
      BY <1>2
    <3>3. ASSUME NEW h \in DefinedIn[g], NEW j \in 1..Len(S),
                 Compiled(h), Read(h, j)'
          PROVE  /\ old # "none"
                 /\ Weak(old) =>
                      /\ Weak(h)
                      /\ \A k \in 1..Len(S) : Read(old, k)' => k <= j
      <4>1. CASE Read(h, j)
        <5>1. /\ old # "none"
              /\ Weak(old) =>
                   /\ Weak(h)
                   /\ \A k \in 1..Len(S) : Read(old, k) => k <= j
          BY <2>1, <3>3, <4>1
        <5>2. ASSUME Weak(old), NEW k \in 1..Len(S), Read(old, k)'
              PROVE  k <= j
          <6>1. PICK m \in 1..Len(S) : Read(old, m)
            BY <2>1, <5>1
          <6>2. m <= j
            BY <5>1, <5>2, <6>1
          <6>3. CASE old = f /\ k = d
            <7>1. m = d
              BY <1>2, <1>3, <1>4, <6>1, <6>3
            <7>2. QED BY <6>2, <6>3, <7>1
          <6>4. QED BY <3>2, <5>1, <5>2, <6>3
        <5>3. QED BY <5>1, <5>2
      <4>2. CASE h = f /\ j = d
        <5>1. old # "none" /\ (Weak(old) => Weak(h))
          BY <2>4, <3>3, <4>2
        <5>2. \A k \in 1..Len(S) : Read(old, k)' => k <= j
          BY <1>2, <1>3, <3>2, <4>2, <1>5
        <5>3. QED BY <5>1, <5>2
      <4>3. QED BY <1>2, <3>3, <4>1, <4>2
    <3>4. QED BY <1>2, <2>1, <3>1, <3>3
  <2>5. QED BY <2>3, <2>4
<1>7. ASSUME NEW g \in Symbols
      PROVE  BoundOk(g)'
  <2>1. PICK old, new : old = bound[g] /\ new = bound'[g]
    OBVIOUS
  <2>2. QED BY <1>5, <1>6, <2>1 DEF BoundOk
<1>8. QED BY <1>7 DEF BoundInv

\* The linker's steps preserve LinkInv.
LEMMA LinkInductive == LinkInv /\ LinkNext => LinkInv'
BY LeftStep, BoundStep DEF LinkInv, LinkNext

\* When all is read, the definitions bound are those of one build.
LEMMA LinkedWhole == LinkInv => OneBuild
<1> SUFFICES ASSUME LinkInv, Linked
             PROVE  /\ \A g \in Symbols : bound[g] # "none"
                    /\ \A g \in Ciphers :
                         bound[g] \in IF aes THEN Files.ni ELSE Files.generic
                    /\ bound["AES_Context_Init"] =
                         IF aes THEN "ni/context.c" ELSE "wcontext.c"
                    /\ bound["UT"] =
                         IF target = "exe" THEN "unit.c" ELSE "wunit.c"
  BY DEF OneBuild
<1> DEFINE S == Sources(target)
<1>1. target \in {"exe", "so"} /\ aes \in BOOLEAN
  BY DEF LinkInv, LeftInv
<1>2. /\ Len(S) = IF target = "exe" THEN 6 ELSE 5
      /\ S[1] = Files.generic /\ S[2] = Files.ni /\ S[3] = Files.waes
      /\ S[4] = Files.wcontext /\ S[5] = Files.wunit
      /\ target = "exe" => S[6] = Files.unit
  BY <1>1, SourcesAre
<1>3. Passed = Len(S)
  BY <1>2 DEF Linked, Passed
<1>4. \A f, k : Read(f, k) <=> k \in 1..Len(S) /\ f \in S[k]
  BY <1>2, <1>3 DEF Read
<1>5. \A g \in Symbols :
        /\ bound[g] # "none" =>
             /\ bound[g] \in DefinedIn[g] /\ Compiled(bound[g])
             /\ \E k \in 1..Len(S) : bound[g] \in S[k]
        /\ \A f \in DefinedIn[g] : \A j \in 1..Len(S) :
             Compiled(f) /\ f \in S[j] =>
               /\ bound[g] # "none"
               /\ Weak(bound[g]) =>
                    /\ Weak(f)
                    /\ \A k \in 1..Len(S) : bound[g] \in S[k] => k <= j
  BY <1>4 DEF LinkInv, BoundInv, BoundOk
<1>6. 1..5 \subseteq 1..Len(S) /\ (target = "exe" => 6 \in 1..Len(S))
  BY <1>1, <1>2
<1> HIDE DEF S
<1>7. ASSUME NEW g \in Symbols, NEW f \in DefinedIn[g], Compiled(f), ~Weak(f),
             NEW k \in 1..Len(S), f \in S[k]
      PROVE  bound[g] \in DefinedIn[g] /\ ~Weak(bound[g])
  BY <1>5, <1>7
<1>8. ASSUME NEW g \in Ciphers
      PROVE  bound[g] \in IF aes THEN Files.ni ELSE Files.generic
  <2>1. g \in Symbols
    BY DEF Ciphers, Symbols
  <2>2. PICK a \in Files.generic, b \in Files.ni \ {"ni/id.c"} :
          DefinedIn[g] = {"waes.c", a, b}
    BY DEF Ciphers, Symbols, DefinedIn, Files
  <2>3. CASE aes
    <3>1. Compiled(b) /\ ~Weak(b)
      BY <2>3 DEF Compiled, Weak
    <3>2. bound[g] \in DefinedIn[g] /\ ~Weak(bound[g])
      BY <1>2, <1>6, <1>7, <2>1, <2>2, <3>1
    <3>3. Weak("waes.c") /\ Weak(a)
      BY DEF Weak, Files
    <3>4. QED BY <2>2, <2>3, <3>2, <3>3
  <2>4. CASE ~aes
    <3>1. Compiled(a) /\ ~Compiled(b) /\ Weak("waes.c") /\ Weak(a)
      BY <2>4 DEF Compiled, Weak, Files
    <3>2. bound[g] \in DefinedIn[g] /\ bound[g] # b
      BY <1>2, <1>5, <1>6, <2>1, <2>2, <3>1
    <3>3. ~("waes.c" \in S[3] /\ bound[g] = "waes.c")
      <4>1. Weak(bound[g]) => \A k \in 1..Len(S) : bound[g] \in S[k] => k <= 1
        BY <1>2, <1>5, <1>6, <2>1, <2>2, <3>1
      <4>2. QED BY <1>6, <3>1, <4>1
    <3>4. "waes.c" \in S[3]
      BY <1>2 DEF Files
    <3>5. QED BY <2>2, <2>4, <3>2, <3>3, <3>4
  <2>5. QED BY <2>3, <2>4, <1>1
<1>9. bound["AES_Context_Init"] = IF aes THEN "ni/context.c" ELSE "wcontext.c"
  <2>1. /\ "AES_Context_Init" \in Symbols
        /\ DefinedIn["AES_Context_Init"] = {"wcontext.c", "ni/context.c"}
        /\ "wcontext.c" \in S[4] /\ "ni/context.c" \in S[2]
        /\ Compiled("wcontext.c") /\ Weak("wcontext.c")
        /\ Compiled("ni/context.c") <=> aes
        /\ ~Weak("ni/context.c")
    BY <1>1, <1>2 DEF Symbols, DefinedIn, Files, Compiled, Weak
  <2>2. bound["AES_Context_Init"] \in {"wcontext.c", "ni/context.c"}
    BY <1>5, <1>6, <2>1
  <2>3. QED BY <1>1, <1>5, <1>6, <1>7, <2>1, <2>2
<1>10. bound["UT"] = IF target = "exe" THEN "unit.c" ELSE "wunit.c"
  <2>1. /\ "UT" \in Symbols /\ DefinedIn["UT"] = {"wunit.c", "unit.c"}
        /\ "wunit.c" \in S[5]
        /\ Compiled("wunit.c") /\ Weak("wunit.c")
        /\ Compiled("unit.c") /\ ~Weak("unit.c")
        /\ target = "exe" => "unit.c" \in S[6]
    BY <1>2 DEF Symbols, DefinedIn, Files, Compiled, Weak
  <2>2. bound["UT"] \in {"wunit.c", "unit.c"}
    BY <1>5, <1>6, <2>1
  <2>3. CASE target = "exe"
    BY <1>6, <1>7, <2>1, <2>2, <2>3
  <2>4. CASE target = "so"
    <3>1. \A k \in 1..Len(S) : "unit.c" \notin S[k]
      <4>1. \A k \in 1..Len(S) : k \in 1..5
        BY <1>2, <2>4
      <4>2. QED BY <1>2, <4>1 DEF Files
    <3>2. QED BY <1>5, <2>1, <2>2, <2>4, <3>1
  <2>5. QED BY <1>1, <2>3, <2>4
<1>11. ASSUME NEW g \in Symbols PROVE bound[g] # "none"
  <2>1. \E f \in DefinedIn[g], j \in 1..5 : Compiled(f) /\ f \in S[j]
    <3>1. \/ "wcontext.c" \in DefinedIn[g] \/ "waes.c" \in DefinedIn[g]
          \/ "generic/id.c" \in DefinedIn[g] \/ "wunit.c" \in DefinedIn[g]
      BY DEF Symbols, DefinedIn
    <3>2. /\ Compiled("wcontext.c") /\ Compiled("waes.c")
          /\ Compiled("generic/id.c") /\ Compiled("wunit.c")
      BY DEF Compiled, Files
    <3>3. /\ "wcontext.c" \in S[4] /\ "waes.c" \in S[3]
          /\ "generic/id.c" \in S[1] /\ "wunit.c" \in S[5]
      BY <1>2 DEF Files
    <3>4. 1 \in 1..5 /\ 3 \in 1..5 /\ 4 \in 1..5 /\ 5 \in 1..5
      OBVIOUS
    <3>5. QED BY <3>1, <3>2, <3>3, <3>4
  <2>2. QED BY <1>5, <1>6, <2>1
<1>12. QED BY <1>8, <1>9, <1>10, <1>11

-----------------------------------------------------------------------------
(* The process.                                                            *)

\* All constructors wait at first, and nothing is registered.
LEMMA Initially == Init => IInv
<1> SUFFICES ASSUME Init PROVE IInv
  OBVIOUS
<1>1. LinkInv
  BY LinkInitially DEF Init
<1>2. <<>> \in Seq(Tests) /\ Len(<<>>) = 0
  OBVIOUS
<1>3. TypeInv /\ StartInv /\ OrderInv
  BY <1>2 DEF Init, TypeInv, StartInv, OrderInv, Running
<1>4. RegisteredInv
  BY <1>2 DEF Init, RegisteredInv
<1>5. QED BY <1>1, <1>3, <1>4 DEF IInv

\* The linker leaves the process alone, and the process the linker.
LEMMA LinkStep ==
  ASSUME IInv, LinkNext, UNCHANGED runVars
  PROVE  IInv'
<1>1. LinkInv'
  BY LinkInductive DEF IInv
<1>2. target' = target /\ ~Linked
  BY DEF LinkNext, Link
<1>3. QED
  BY <1>1, <1>2 DEF IInv, runVars, TypeInv, StartInv, RegisteredInv, OrderInv,
                    Running, Linked

\* A step of the process after which all is still linked.
LEMMA LinkedStays ==
  ASSUME LinkInv, UNCHANGED linkVars
  PROVE  LinkInv'
BY DEF linkVars, LinkInv, LeftInv, BoundInv, BoundOk, Passed, Read, Linked,
       Compiled

\* The executable has the test runner, the library has not.
LEMMA RunnerIsExe ==
  ASSUME LinkInv, Linked
  PROVE  Runner <=> target = "exe"
<1>1. bound["UT"] = IF target = "exe" THEN "unit.c" ELSE "wunit.c"
  BY LinkedWhole DEF OneBuild
<1>2. QED BY <1>1 DEF Runner

\* The queue is initialized before any test is put on it.
LEMMA InitQueueStep ==
  ASSUME IInv, InitQueue
  PROVE  IInv'
<1>1. /\ Linked /\ phase = "start" /\ "_Init" \in waiting
      /\ waiting' = waiting \ {"_Init"} /\ queue' = <<>>
      /\ UNCHANGED <<linkVars, phase, test, ran, status, registered>>
  BY DEF InitQueue, Construct
<1>2. /\ registered = <<>> /\ ran = <<>> /\ status = 0
      /\ waiting \subseteq Tests \cup {"_Init"} /\ "_Init" \notin Tests
  BY <1>1, RunnerAssumption DEF IInv, StartInv, TypeInv
<1>3. LinkInv'
  BY <1>1, LinkedStays DEF IInv
<1>4. <<>> \in Seq(Tests) /\ Len(<<>>) = 0
  OBVIOUS
<1>5. TypeInv' /\ StartInv'
  BY <1>1, <1>2, <1>4 DEF IInv, TypeInv, StartInv, Linked, linkVars
<1>6. RegisteredInv'
  BY <1>1, <1>2, <1>4 DEF IInv, RegisteredInv, linkVars
<1>7. OrderInv'
  BY <1>1, <1>2, <1>4 DEF OrderInv, Running
<1>8. QED BY <1>3, <1>5, <1>6, <1>7 DEF IInv

\* A test is put behind those registered before it, and registered once.
LEMMA RegisterStep ==
  ASSUME IInv, NEW t \in Tests, UT_Register(t)
  PROVE  IInv'
<1>1. /\ Linked /\ phase = "start" /\ t \in waiting
      /\ \A d \in waiting : PriorityOf(t) <= PriorityOf(d)
      /\ waiting' = waiting \ {t}
      /\ UNCHANGED <<linkVars, phase, test, ran, status>>
  BY DEF UT_Register, Construct
<1>2. /\ registered \in Seq(Tests) /\ queue \in Seq(Tests) /\ ran = <<>>
      /\ status = 0 /\ waiting \subseteq Tests \cup {"_Init"}
      /\ Len(registered) \in Nat /\ Len(queue) \in Nat
  BY <1>1 DEF IInv, StartInv, TypeInv
<1>3. LinkInv' /\ (Runner <=> target = "exe")
  BY <1>1, LinkedStays, RunnerIsExe DEF IInv
<1>4. "_Init" \notin waiting
  <2>1. SUFFICES ASSUME "_Init" \in waiting PROVE FALSE
    OBVIOUS
  <2>2. PriorityOf(t) = Priority[t] /\ PriorityOf("_Init") = 103
    BY RunnerAssumption DEF PriorityOf
  <2>3. Priority[t] \in Nat /\ Priority[t] > 103
    BY RunnerAssumption
  <2>4. QED BY <1>1, <2>1, <2>2, <2>3
<1>5. CASE Runner
  <2>1. queue' = Append(queue, t) /\ registered' = Append(registered, t)
    BY <1>5 DEF UT_Register
  <2>2. /\ registered' \in Seq(Tests) /\ Len(registered') = Len(registered) + 1
        /\ \A k \in 1..Len(registered) : registered'[k] = registered[k]
        /\ registered'[Len(registered) + 1] = t
        /\ queue' \in Seq(Tests) /\ Len(queue') = Len(queue) + 1
        /\ \A k \in 1..Len(queue) : queue'[k] = queue[k]
        /\ queue'[Len(queue) + 1] = t
    BY <1>2, <2>1, AppendProperties
  <2>3. TypeInv' /\ StartInv'
    BY <1>1, <1>2, <1>4, <2>2 DEF IInv, TypeInv, StartInv, Linked, linkVars
  <2>4. \A k \in 1..Len(registered) : registered[k] # t
    BY <1>1 DEF IInv, RegisteredInv
  <2>5. RegisteredInv'
    <3>1. \A k, l \in 1..Len(registered') :
            registered'[k] = registered'[l] => k = l
      <4>1. \A k, l \in 1..Len(registered) :
              registered[k] = registered[l] => k = l
        BY DEF IInv, RegisteredInv
      <4>2. \A k \in 1..Len(registered') :
              k \in 1..Len(registered) \/ k = Len(registered) + 1
        BY <1>2, <2>2
      <4>3. QED BY <2>2, <2>4, <4>1, <4>2
    <3>2. \A k \in 1..Len(registered') : registered'[k] \notin waiting'
      BY <1>1, <1>2, <2>2 DEF IInv, RegisteredInv
    <3>3. ASSUME target = "exe", NEW u \in Tests \ waiting'
          PROVE  \E k \in 1..Len(registered') : registered'[k] = u
      <4>1. CASE u = t
        BY <1>2, <2>2, <4>1
      <4>2. CASE u # t
        <5>1. PICK k \in 1..Len(registered) : registered[k] = u
          BY <1>1, <1>2, <3>3, <4>2 DEF IInv, RegisteredInv
        <5>2. QED BY <1>2, <2>2, <5>1
      <4>3. QED BY <4>1, <4>2
    <3>4. QED BY <1>1, <3>1, <3>2, <3>3 DEF RegisteredInv, linkVars
  <2>6. OrderInv'
    <3>1. /\ Len(ran) = 0 /\ Running = 0 /\ Running' = 0
          /\ Len(registered) = Len(queue)
          /\ \A k \in 1..Len(queue) : queue[k] = registered[k]
      BY <1>1, <1>2 DEF IInv, OrderInv, Running
    <3>2. \A k \in 1..Len(queue') : queue'[k] = registered'[k]
      BY <1>2, <2>2, <3>1
    <3>3. QED BY <1>1, <1>2, <2>2, <3>1, <3>2 DEF OrderInv
  <2>7. QED BY <1>3, <2>3, <2>5, <2>6 DEF IInv
<1>6. CASE ~Runner
  <2>1. UNCHANGED <<queue, registered>> /\ target = "so"
    BY <1>3, <1>6 DEF UT_Register, IInv, LinkInv, LeftInv
  <2>2. TypeInv' /\ StartInv'
    BY <1>1, <1>2, <1>4, <2>1 DEF IInv, TypeInv, StartInv, Linked, linkVars
  <2>3. RegisteredInv'
    BY <1>1, <2>1 DEF IInv, RegisteredInv, linkVars
  <2>4. OrderInv'
    BY <1>1, <2>1 DEF IInv, OrderInv, Running
  <2>5. QED BY <1>3, <2>2, <2>3, <2>4 DEF IInv
<1>7. QED BY <1>5, <1>6

\* The steps of UT_RunAll and of main, and the ends of the process.
LEMMA RunStep ==
  ASSUME IInv,
         \/ \E t \in Tests : UT_RegisterFails(t)
         \/ UT_RunAll \/ TestStarts \/ TestReturns \/ TestFails
         \/ RunEnds \/ MainReturns
  PROVE  IInv'
<1>0. /\ registered \in Seq(Tests) /\ queue \in Seq(Tests)
      /\ ran \in Seq(Tests) /\ waiting \subseteq Tests \cup {"_Init"}
      /\ Len(registered) \in Nat /\ Len(queue) \in Nat /\ Len(ran) \in Nat
      /\ ~Linked => phase = "start" /\ Tests \subseteq waiting
  BY DEF IInv, TypeInv, StartInv
<1>1. LinkInv'
  BY LinkedStays DEF IInv, UT_RegisterFails, UT_RunAll, TestStarts,
                     TestReturns, TestFails, RunEnds, MainReturns
<1>2. CASE \/ \E t \in Tests : UT_RegisterFails(t)
           \/ TestFails
  <2>1. /\ Linked /\ phase' = "exited" /\ status' \in {1, 134}
        /\ waiting' \subseteq waiting
        /\ UNCHANGED <<linkVars, queue, test, ran, registered>>
    BY <1>0, <1>2 DEF UT_RegisterFails, TestFails, Construct, Exit
  <2>2. TypeInv' /\ StartInv'
    BY <2>1 DEF IInv, TypeInv, StartInv, Linked, linkVars
  <2>3. RegisteredInv' /\ OrderInv'
    BY <2>1 DEF IInv, RegisteredInv, OrderInv
  <2>4. QED BY <1>1, <2>2, <2>3 DEF IInv
<1>3. CASE UT_RunAll \/ RunEnds
  <2>1. /\ Linked /\ phase \in {"start", "loop"} /\ waiting = {} /\ status = 0
        /\ phase' = "returned" => queue = <<>>
        /\ phase' \in {"returned", "loop"}
        /\ UNCHANGED <<linkVars, waiting, queue, test, ran, status,
                       registered>>
    BY <1>0, <1>3 DEF UT_RunAll, RunEnds, IInv, StartInv
  <2>2. TypeInv' /\ StartInv'
    BY <2>1 DEF IInv, TypeInv, StartInv, Linked, linkVars
  <2>3. RegisteredInv'
    BY <2>1 DEF IInv, RegisteredInv, linkVars
  <2>4. OrderInv'
    BY <2>1 DEF IInv, OrderInv, Running
  <2>5. QED BY <1>1, <2>2, <2>3, <2>4 DEF IInv
<1>4. CASE MainReturns
  <2>1. /\ Linked /\ phase = "returned" /\ phase' = "exited" /\ status' = 0
        /\ status = 0 /\ waiting = {}
        /\ UNCHANGED <<linkVars, waiting, queue, test, ran, registered>>
    BY <1>0, <1>4 DEF MainReturns, Exit, IInv, StartInv
  <2>2. TypeInv' /\ StartInv'
    BY <2>1 DEF IInv, TypeInv, StartInv, Linked, linkVars
  <2>3. RegisteredInv'
    BY <2>1 DEF IInv, RegisteredInv, linkVars
  <2>4. OrderInv'
    BY <2>1 DEF IInv, OrderInv, Running
  <2>5. QED BY <1>1, <2>2, <2>3, <2>4 DEF IInv
<1>5. CASE TestStarts
  <2>1. /\ Linked /\ phase = "loop" /\ phase' = "test" /\ status = 0
        /\ queue # <<>> /\ test' = Head(queue) /\ queue' = Tail(queue)
        /\ waiting = {}
        /\ UNCHANGED <<linkVars, waiting, ran, status, registered>>
    BY <1>0, <1>5 DEF TestStarts, IInv, StartInv
  <2>2. /\ queue' \in Seq(Tests) /\ Len(queue') = Len(queue) - 1
        /\ Len(queue) \in Nat \ {0} /\ test' = queue[1] /\ test' \in Tests
        /\ \A k \in 1..Len(queue') : queue'[k] = queue[k + 1]
    BY <1>0, <2>1, HeadTailProperties, EmptySeq
  <2>3. TypeInv' /\ StartInv'
    BY <2>1, <2>2 DEF IInv, TypeInv, StartInv, Linked, linkVars
  <2>4. RegisteredInv'
    BY <2>1 DEF IInv, RegisteredInv, linkVars
  <2>5. OrderInv'
    <3>1. /\ Len(registered) = Len(ran) + Len(queue)
          /\ \A k \in 1..Len(queue) : queue[k] = registered[Len(ran) + k]
      BY <1>0, <2>1 DEF IInv, OrderInv, Running
    <3>2. test' = registered[Len(ran) + 1]
      BY <2>2, <3>1
    <3>3. \A k \in 1..Len(queue') :
            queue'[k] = registered[Len(ran) + 1 + k]
      <4>1. ASSUME NEW k \in 1..Len(queue')
            PROVE  queue'[k] = registered[Len(ran) + 1 + k]
        <5>1. k + 1 \in 1..Len(queue)
              /\ Len(ran) + (k + 1) = Len(ran) + 1 + k
          BY <1>0, <2>2
        <5>2. QED BY <2>2, <3>1, <5>1
      <4>2. QED BY <4>1
    <3>4. Running' = 1 /\ Len(registered) = Len(ran) + 1 + Len(queue')
      BY <1>0, <2>1, <2>2, <3>1 DEF Running
    <3>5. QED BY <2>1, <3>2, <3>3, <3>4 DEF IInv, OrderInv
  <2>6. QED BY <1>1, <2>3, <2>4, <2>5 DEF IInv
<1>6. CASE TestReturns
  <2>1. /\ Linked /\ phase = "test" /\ phase' = "loop" /\ status = 0
        /\ ran' = Append(ran, test) /\ test' = "none" /\ waiting = {}
        /\ UNCHANGED <<linkVars, waiting, queue, status, registered>>
    BY <1>0, <1>6 DEF TestReturns, IInv, StartInv
  <2>2. /\ Len(registered) = Len(ran) + 1 + Len(queue)
        /\ test = registered[Len(ran) + 1]
        /\ \A k \in 1..Len(queue) : queue[k] = registered[Len(ran) + 1 + k]
        /\ \A k \in 1..Len(ran) : ran[k] = registered[k]
    BY <2>1 DEF IInv, OrderInv, Running
  <2>3. Len(ran) + 1 \in 1..Len(registered) /\ test \in Tests
    BY <1>0, <2>2, ElementOfSeq
  <2>4. /\ ran' \in Seq(Tests) /\ Len(ran') = Len(ran) + 1
        /\ \A k \in 1..Len(ran) : ran'[k] = ran[k]
        /\ ran'[Len(ran) + 1] = test
    BY <1>0, <2>1, <2>3, AppendProperties
  <2>5. TypeInv' /\ StartInv'
    BY <2>1, <2>4 DEF IInv, TypeInv, StartInv, Linked, linkVars
  <2>6. RegisteredInv'
    BY <2>1 DEF IInv, RegisteredInv, linkVars
  <2>7. OrderInv'
    <3>1. \A k \in 1..Len(ran') : ran'[k] = registered[k]
      BY <1>0, <2>2, <2>4
    <3>2. Running' = 0 /\ Len(registered) = Len(ran') + 0 + Len(queue)
      BY <1>0, <2>1, <2>2, <2>4 DEF Running
    <3>3. \A k \in 1..Len(queue) : queue[k] = registered[Len(ran') + 0 + k]
      BY <1>0, <2>2, <2>4
    <3>4. QED BY <1>0, <2>1, <2>4, <3>1, <3>2, <3>3 DEF OrderInv
  <2>8. QED BY <1>1, <2>5, <2>6, <2>7 DEF IInv
<1>7. QED BY <1>2, <1>3, <1>4, <1>5, <1>6

\* Every step of the linker and of the process preserves IInv.
LEMMA Inductive == IInv /\ [Next]_vars => IInv'
<1> SUFFICES ASSUME IInv, [Next]_vars PROVE IInv'
  OBVIOUS
<1>1. CASE LinkNext /\ UNCHANGED runVars
  BY <1>1, LinkStep
<1>2. CASE InitQueue
  BY <1>2, InitQueueStep
<1>3. CASE \E t \in Tests : UT_Register(t)
  BY <1>3, RegisterStep
<1>4. CASE \/ \E t \in Tests : UT_RegisterFails(t)
           \/ UT_RunAll \/ TestStarts \/ TestReturns \/ TestFails
           \/ RunEnds \/ MainReturns
  BY <1>4, RunStep
<1>5. CASE UNCHANGED vars
  <2>1. LinkInv'
    BY <1>5, LinkedStays DEF IInv, vars
  <2>2. QED
    BY <1>5, <2>1 DEF vars, runVars, linkVars, IInv, TypeInv, StartInv,
                      RegisteredInv, OrderInv, Running, Linked
<1>6. QED BY <1>1, <1>2, <1>3, <1>4, <1>5 DEF Next

-----------------------------------------------------------------------------
(* The theorems.                                                           *)

\* The invariant holds of every reachable state.
THEOREM Invariance == Spec => []IInv
<1>1. QED BY Initially, Inductive, PTL DEF Spec

\* Whatever the order within a directory, the functions linked are those of
\* one build, the executable has the test runner and the library has not.
THEOREM OneBuildLinked == Spec => []OneBuild
<1>1. IInv => OneBuild
  BY LinkedWhole DEF IInv
<1>2. QED BY <1>1, Invariance, PTL

\* An executable that exits with 0 has run every test once, in the order of
\* registration.
THEOREM RunIsReported == Spec => []RunReport
<1>1. ASSUME IInv PROVE RunReport
  <2>1. /\ ran \in Seq(Tests) /\ registered \in Seq(Tests)
        /\ Len(ran) \in Nat /\ Len(registered) \in Nat
        /\ Len(ran) <= Len(registered)
        /\ \A k \in 1..Len(ran) : ran[k] = registered[k]
    BY <1>1 DEF IInv, TypeInv, OrderInv
  <2>2. IsPrefix(ran, registered)
    <3>1. /\ SubSeq(ran, 1, Len(ran)) \in Seq(Tests)
          /\ Len(SubSeq(ran, 1, Len(ran))) = Len(ran)
          /\ \A k \in 1..Len(ran) : SubSeq(ran, 1, Len(ran))[k] = ran[k]
      BY <2>1
    <3>2. /\ SubSeq(registered, 1, Len(ran)) \in Seq(Tests)
          /\ Len(SubSeq(registered, 1, Len(ran))) = Len(ran)
          /\ \A k \in 1..Len(ran) :
               SubSeq(registered, 1, Len(ran))[k] = registered[k]
      BY <2>1
    <3>3. SubSeq(ran, 1, Len(ran)) = SubSeq(registered, 1, Len(ran))
      BY <2>1, <3>1, <3>2, SeqEqual
    <3>4. QED BY <2>1, <3>3 DEF IsPrefix
  <2>3. ASSUME phase = "exited", status = 0, target = "exe"
        PROVE  /\ ran = registered
               /\ Len(ran) = Cardinality(Tests)
               /\ ToSet(ran) = Tests
    <3>1. queue = <<>> /\ waiting = {} /\ Running = 0
      BY <1>1, <2>3 DEF IInv, StartInv, OrderInv, Running
    <3>2. Len(registered) = Len(ran)
      BY <1>1, <2>1, <2>3, <3>1 DEF IInv, OrderInv
    <3>3. ran = registered
      BY <2>1, <3>2, SeqEqual
    <3>4. /\ \A t \in Tests : \E k \in 1..Len(ran) : ran[k] = t
          /\ \A k, l \in 1..Len(ran) : ran[k] = ran[l] => k = l
      BY <1>1, <2>3, <3>1, <3>3 DEF IInv, RegisteredInv
    <3>5. ran \in [1..Len(ran) -> Tests] /\ DOMAIN ran = 1..Len(ran)
      BY <2>1, LenProperties
    <3>6. ToSet(ran) = Tests
      BY <3>4, <3>5 DEF ToSet
    <3>7. ran \in Bijection(1..Len(ran), Tests)
      BY <3>4, <3>5 DEF Bijection, Injection, Surjection, IsInjective
    <3>8. Cardinality(Tests) = Len(ran)
      BY <2>1, <3>7, FS_CountingElements DEF ExistsBijection
    <3>9. QED BY <3>3, <3>6, <3>8
  <2>4. QED BY <2>2, <2>3 DEF RunReport
<1>2. QED BY <1>1, Invariance, PTL
=============================================================================
