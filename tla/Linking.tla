------------------------------ MODULE Linking ------------------------------
(***************************************************************************)
(* How a build gets its functions.  The linker reads the object files in   *)
(* the order in which the Makefile lists the sources.  Of the definitions  *)
(* of a symbol it keeps the first one, unless that is weak (WEAK, api.h)   *)
(* and a later one is not.                                                 *)
(*                                                                         *)
(* aes/ni/ is compiled to nothing but id.c without __AES__; its functions  *)
(* and those of unit/ are not weak, all others here are.  The order of the *)
(* files within a directory is left open, that of the directories is the   *)
(* sorted one of make's wildcard.                                          *)
(***************************************************************************)
EXTENDS Sequences

VARIABLES
  target,  \* "exe", build/main, or "so", the shared library
  aes,     \* the compiler defines __AES__ (-march=native on such a machine)
  left,    \* the object files the linker has yet to read
  bound    \* bound[g]: the file whose definition of g is linked, or "none"

linkVars == <<target, aes, left, bound>>

\* The functions of aes.h and unit.h, those that stay together as one symbol.
Symbols ==
  {"AES_Context_Create", "AES_Context_Init", "AES_Context_Block",
   "AES_Context_ECB", "AES_Context_CBC", "AES_Context_CTR", "AES_Impl", "UT"}

Files == [
  generic |-> {"generic/block.c", "generic/cbc.c", "generic/ctr.c",
               "generic/ecb.c", "generic/id.c"},
  ni      |-> {"ni/block.c", "ni/cbc.c", "ni/context.c", "ni/ctr.c",
               "ni/ecb.c", "ni/id.c"},
  waes    |-> {"waes.c"},
  wcontext |-> {"wcontext.c"},
  wunit   |-> {"wunit.c"},
  unit    |-> {"unit.c"}]

\* Mutant: the directory is not sorted, and waes.c is found first.
Sources_Unsorted(t) ==
  <<Files.waes, Files.generic, Files.ni, Files.wcontext, Files.wunit>>
    \o (IF t = "exe" THEN <<Files.unit>> ELSE <<>>)

\* SRCS_SO and SRCS_EXE, directory by directory.
Sources(t) ==
  <<Files.generic, Files.ni, Files.waes, Files.wcontext, Files.wunit>>
    \o (IF t = "exe" THEN <<Files.unit>> ELSE <<>>)

\* The files that define g.
DefinedIn ==
  [g \in Symbols |->
     CASE g = "AES_Context_Create" -> {"wcontext.c"}
       [] g = "AES_Context_Init"   -> {"wcontext.c", "ni/context.c"}
       [] g = "AES_Context_Block"  ->
              {"waes.c", "generic/block.c", "ni/block.c"}
       [] g = "AES_Context_ECB"    -> {"waes.c", "generic/ecb.c", "ni/ecb.c"}
       [] g = "AES_Context_CBC"    -> {"waes.c", "generic/cbc.c", "ni/cbc.c"}
       [] g = "AES_Context_CTR"    -> {"waes.c", "generic/ctr.c", "ni/ctr.c"}
       [] g = "AES_Impl"           -> {"generic/id.c", "ni/id.c"}
       [] g = "UT"                 -> {"wunit.c", "unit.c"}]

\* #ifdef __AES__, which ni/id.c lacks.
Compiled(f) == f \in Files.ni \ {"ni/id.c"} => aes

Weak(f) == f \notin Files.ni \cup Files.unit

LinkInit ==
  /\ target \in {"exe", "so"}
  /\ aes \in BOOLEAN
  /\ left = Sources(target)
  /\ bound = [g \in Symbols |-> "none"]

Linked == left = <<>>

\* The linker reads f and resolves what it defines.
Link(f) ==
  /\ ~Linked
  /\ f \in Head(left)
  /\ bound' = [g \in Symbols |->
       IF /\ f \in DefinedIn[g] /\ Compiled(f)
          /\ bound[g] = "none" \/ (Weak(bound[g]) /\ ~Weak(f))
         THEN f ELSE bound[g]]
  /\ left' = IF Head(left) = {f} THEN Tail(left)
                                 ELSE [left EXCEPT ![1] = @ \ {f}]
  /\ UNCHANGED <<target, aes>>

LinkNext == \E f \in UNION {Files[d] : d \in DOMAIN Files} : Link(f)

-----------------------------------------------------------------------------
(* Properties.                                                             *)

Ciphers == {"AES_Context_Block", "AES_Context_ECB", "AES_Context_CBC",
            "AES_Context_CTR"}

\* What is linked is one build and a whole one: the key schedule, the block
\* cipher and the modes are all those of aes/ni/ or all the generic ones, never
\* the stubs of waes.c, which abort; the executable has the test runner and the
\* library has not.  AES_Impl is no part of this:
\* ni/id.c is linked in both builds.
OneBuild ==
  Linked =>
    /\ "none" \notin {bound[g] : g \in Symbols}
    /\ \A g \in Ciphers : bound[g] \in IF aes THEN Files.ni ELSE Files.generic
    /\ bound["AES_Context_Init"] = IF aes THEN "ni/context.c" ELSE "wcontext.c"
    /\ bound["UT"] = IF target = "exe" THEN "unit.c" ELSE "wunit.c"
=============================================================================
