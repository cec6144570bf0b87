----------------------------- MODULE UnitRunner -----------------------------
(***************************************************************************)
(* A process that is started from what Linking has linked: unit/unit.c     *)
(* with the constructors that register tests, and etc/main.c.  The queue   *)
(* of tests is one of Fifo; a single thread uses it, call by call.         *)
(*                                                                         *)
(* The library, loaded by another program, has the same constructors, but  *)
(* their UT_Register is the empty one of wunit/wunit.c.                    *)
(***************************************************************************)
EXTENDS Linking, Naturals, SequencesExt

CONSTANTS
  Tests,    \* the tests, each registered by a constructor of its own
  Priority  \* Priority[t]: the priority of that constructor

\* Tests are registered at 150 and 200, once the queue is initialized at 103.
ASSUME RunnerAssumption ==
  /\ "_Init" \notin Tests /\ "none" \notin Tests
  /\ Priority \in [Tests -> Nat]
  /\ \A t \in Tests : Priority[t] > 103

VARIABLES
  phase,       \* "start" (constructors), "loop" and "test" (in UT_RunAll),
               \* "returned" (from it) or "exited"
  waiting,     \* the constructors that have yet to run: tests, or _Init
  queue,       \* m_tst_queue
  test,        \* the test that runs
  ran,         \* the tests that have returned
  status,      \* the exit status
  registered   \* auxiliary: the tests UT_Register has put on a queue

runVars == <<phase, waiting, queue, test, ran, status, registered>>
vars == <<linkVars, runVars>>

Runner == bound["UT"] = "unit.c"

Init ==
  /\ LinkInit
  /\ phase = "start"
  /\ waiting = Tests \cup (IF target = "exe" THEN {"_Init"} ELSE {})
  /\ queue = <<>> /\ ran = <<>> /\ registered = <<>>
  /\ test = "none"
  /\ status = 0

Exit(code) == phase' = "exited" /\ status' = code

-----------------------------------------------------------------------------
(* Before main: constructors by priority, in any order among equals.       *)

\* Mutant: the queue is initialized along with the first tests.
PriorityOf_Late(c) == IF c = "_Init" THEN 150 ELSE Priority[c]

PriorityOf(c) == IF c = "_Init" THEN 103 ELSE Priority[c]

Construct(c) ==
  /\ Linked /\ phase = "start"
  /\ c \in waiting
  /\ \A d \in waiting : PriorityOf(c) <= PriorityOf(d)
  /\ waiting' = waiting \ {c}

\* AQ_Init.
InitQueue ==
  /\ Construct("_Init")
  /\ queue' = <<>>
  /\ UNCHANGED <<linkVars, phase, test, ran, status, registered>>

UT_Register(t) ==
  /\ Construct(t)
  /\ IF Runner THEN /\ queue' = Append(queue, t)
                    /\ registered' = Append(registered, t)
               ELSE UNCHANGED <<queue, registered>>
  /\ UNCHANGED <<linkVars, phase, test, ran, status>>

\* malloc fails, for the UnitTest or for the node of the queue.
UT_RegisterFails(t) ==
  /\ Construct(t)
  /\ Runner
  /\ Exit(1)
  /\ UNCHANGED <<linkVars, queue, test, ran, registered>>

-----------------------------------------------------------------------------
(* UT_RunAll.                                                              *)

\* main calls it; without tests it answers 1, which main ignores.  The program
\* that has loaded the library calls nothing of this.
UT_RunAll ==
  /\ Linked /\ phase = "start" /\ waiting = {}
  /\ phase' = IF queue = <<>> THEN "returned" ELSE "loop"
  /\ UNCHANGED <<linkVars, waiting, queue, test, ran, status, registered>>

TestStarts ==
  /\ phase = "loop" /\ queue # <<>>
  /\ phase' = "test"
  /\ test' = Head(queue)
  /\ queue' = Tail(queue)
  /\ UNCHANGED <<linkVars, waiting, ran, status, registered>>

TestReturns ==
  /\ phase = "test"
  /\ phase' = "loop"
  /\ ran' = Append(ran, test)
  /\ test' = "none"
  /\ UNCHANGED <<linkVars, waiting, queue, status, registered>>

\* UT_BasicAssert calls exit, ferroratf and assert call abort.
TestFails ==
  /\ phase = "test"
  /\ \E code \in {1, 134} : Exit(code)
  /\ UNCHANGED <<linkVars, waiting, queue, test, ran, registered>>

\* Mutant: a test ends the run.
RunEnds_AfterOne ==
  /\ phase = "loop" /\ (queue = <<>> \/ ran # <<>>)
  /\ phase' = "returned"
  /\ UNCHANGED <<linkVars, waiting, queue, test, ran, status, registered>>

\* AQ_Destroy of a queue that is empty; failed is 0 and so is the answer.
RunEnds ==
  /\ phase = "loop" /\ queue = <<>>
  /\ phase' = "returned"
  /\ UNCHANGED <<linkVars, waiting, queue, test, ran, status, registered>>

\* main returns 0 whatever UT_RunAll has answered.
MainReturns ==
  /\ phase = "returned"
  /\ Exit(0)
  /\ UNCHANGED <<linkVars, waiting, queue, test, ran, registered>>

Next ==
  \/ (LinkNext /\ UNCHANGED runVars)
  \/ InitQueue
  \/ \E t \in Tests : UT_Register(t) \/ UT_RegisterFails(t)
  \/ UT_RunAll
  \/ TestStarts \/ TestReturns \/ TestFails \/ RunEnds
  \/ MainReturns

Spec == Init /\ [][Next]_vars

\* The linker and the process are not stopped, and a test ends.
FairSpec == Spec /\ WF_vars(Next)

-----------------------------------------------------------------------------
(* Properties.                                                             *)

\* Since nothing counts failures and main ignores the answer of UT_RunAll, the
\* exit status is all a caller has.  If it is 0, the executable has run every
\* test there is, in the order of registration and each of them once; at any
\* time, what has run is the beginning of what was registered.
RunReport ==
  /\ IsPrefix(ran, registered)
  /\ phase = "exited" /\ status = 0 /\ target = "exe" =>
       /\ ran = registered
       /\ Len(ran) = Cardinality(Tests)
       /\ ToSet(ran) = Tests

\* Every test of the executable is run in the end, unless the process ends
\* with another status than 0 before.
EveryTestRuns ==
  \A t \in Tests :
    target = "exe" ~> t \in ToSet(ran) \/ (phase = "exited" /\ status # 0)
=============================================================================
