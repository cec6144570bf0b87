----------------------------- MODULE Containers -----------------------------
(***************************************************************************)
(* A caller of the two containers that are not shared between threads: it  *)
(* owns a stack (StackCalls) and a queue (SeqQueue) and calls one or the   *)
(* other.                                                                  *)
(***************************************************************************)
EXTENDS StackCalls, SeqQueue

ContainersInit == Init /\ QueueInit

ContainersNext ==
  \/ (~exited /\ Next /\ UNCHANGED queueVars)
  \/ (QueueNext /\ UNCHANGED vars)

ContainersSpec ==
  ContainersInit /\ [][ContainersNext]_<<vars, queueVars>>
=============================================================================
