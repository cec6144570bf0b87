-------------------------------- MODULE Log --------------------------------
(***************************************************************************)
(* log/log.c: the process-wide logger.  Four settings and a stack of saved *)
(* settings (frames) behind one mutex; LOG_Emit writes a message to the    *)
(* current stream in several stdio calls.                                  *)
(*                                                                         *)
(* A step is what happens between two stdio calls or mutex operations.     *)
(* The text of a message is left out, its parts are not: the head (colour, *)
(* time, level, file and line), the text, the colour reset, the newline.   *)
(***************************************************************************)
EXTENDS Stack, Sequences, FiniteSets

CONSTANTS
  Threads,    \* the threads of the process
  Levels,     \* the values of LogLevel in use, LOG_DEBUG and LOG_FATAL too
  LOG_DEBUG,  \* the level at the start
  LOG_FATAL,  \* the highest level, which ends the process
  Streams,    \* the FILE*s in use, stderr one of them
  stderr,
  NULL,       \* the null pointer: no stream, no thread
  Junk,       \* what the memory malloc hands out may hold, as frames
  MaxFrames,  \* the capacity of log_stack, sizeof (LogFrame) * 2
  MaxCalls    \* bound on the calls of all threads together

ASSUME LevelsAssumption ==
  /\ Levels \subseteq Nat /\ LOG_DEBUG \in Levels /\ LOG_FATAL \in Levels
  /\ \A l \in Levels : l <= LOG_FATAL
ASSUME StreamsAssumption ==
  stderr \in Streams /\ NULL \notin Streams \cup Threads
ASSUME BoundsAssumption == MaxFrames \in Nat /\ MaxCalls \in Nat

Flag == {0, 1}

LogFrame == [level : Levels, stream : Streams \cup {NULL},
             autonewl : Flag, enabled : Flag]

ASSUME JunkAssumption == Junk \subseteq LogFrame

VARIABLES
  settings,   \* g_log_lvl, g_log_stream, g_log_autonewl, g_log_enabled
  log_stack,  \* the saved frames, a struct Stack
  log_mutex,  \* the thread that holds it, or NULL
  call,       \* call[t]: the call t is in, with its arguments
  answer,     \* answer[t]: what the last getter of t has read
  pc,         \* pc[t]: the place of t in its call
  output,     \* output[f]: what was written to f, as pairs of thread and part
  process,    \* "runs", "aborted", or "crashed" by writing to a null stream
  calls,      \* the number of calls so far
  settled     \* auxiliary: a stream is set in the settings and in every frame

shared == <<settings, log_stack, output, process, settled>>
vars   == <<shared, log_mutex, call, answer, pc, calls>>

Goto(t, place) == pc' = [pc EXCEPT ![t] = place]

NoCall == [name |-> "none"]

\* The calls of log.h; the four setters and the four getters are told apart by
\* their setting, and any FILE* may be set, NULL too.
Calls ==
  [name : {"LOG_Set"}, field : {"level"}, value : Levels]
  \cup [name : {"LOG_Set"}, field : {"stream"}, value : Streams \cup {NULL}]
  \cup [name : {"LOG_Set"}, field : {"autonewl", "enabled"}, value : Flag]
  \cup [name : {"LOG_Get"}, field : {"level", "stream", "autonewl", "enabled"}]
  \cup [name : {"LOG_Emit"}, level : Levels]
  \cup [name : {"LOG_printf", "LOG_PushFrame", "LOG_PopFrame"}]

\* The static initializers, and LOG_Init, which runs before any thread does.
Init ==
  /\ settings = [level |-> LOG_DEBUG, stream |-> NULL,
                 autonewl |-> 0, enabled |-> 1]
  /\ \E junk \in Array(Junk, MaxFrames) :
       log_stack = NewStack(junk, MaxFrames)
  /\ log_mutex = NULL
  /\ call = [t \in Threads |-> NoCall]
  /\ answer = [t \in Threads |-> NULL]
  /\ pc = [t \in Threads |-> "idle"]
  /\ output = [f \in Streams |-> <<>>]
  /\ process = "runs"
  /\ calls = 0
  /\ settled = FALSE

-----------------------------------------------------------------------------
(* What every call does.                                                   *)

\* Mutant: LOG_printf does not take the mutex.
Call_Unlocked(t) ==
  /\ pc[t] = "idle"
  /\ calls < MaxCalls
  /\ \E c \in Calls :
       /\ call' = [call EXCEPT ![t] = c]
       /\ Goto(t, IF c.name = "LOG_printf" THEN "body" ELSE "lock")
  /\ calls' = calls + 1
  /\ UNCHANGED <<shared, log_mutex, answer>>

Call(t) ==
  /\ pc[t] = "idle"
  /\ calls < MaxCalls
  /\ call' \in {[call EXCEPT ![t] = c] : c \in Calls}
  /\ calls' = calls + 1
  /\ Goto(t, "lock")
  /\ UNCHANGED <<shared, log_mutex, answer>>

Lock(t) ==
  /\ pc[t] = "lock"
  /\ log_mutex = NULL
  /\ log_mutex' = t
  /\ Goto(t, "body")
  /\ UNCHANGED <<shared, call, answer, calls>>

\* A fatal message that was written ends the process after the unlock.
Unlock(t) ==
  /\ pc[t] \in {"unlock", "unlock fatal"}
  /\ log_mutex' = NULL
  /\ \/ pc[t] = "unlock" /\ Goto(t, "idle")
        /\ call' = [call EXCEPT ![t] = NoCall]
     \/ pc[t] = "unlock fatal" /\ Goto(t, "abort") /\ UNCHANGED call
  /\ UNCHANGED <<shared, answer, calls>>

Abort(t) ==
  /\ pc[t] = "abort"
  /\ process' = "aborted"
  /\ UNCHANGED <<settings, log_stack, output, settled, log_mutex, call, answer,
                 pc, calls>>

\* Inside the mutex, in the given call.
In(t, name) == pc[t] = "body" /\ call[t].name = name

\* The bookkeeping of settled.
Settle ==
  settled' = (settings'.stream # NULL /\ (settled \/ Stack_Empty(log_stack)))

\* A write to the current stream, by its stdio name.
Write(t, part) ==
  output' = [output EXCEPT ![settings'.stream] = Append(@, <<t, part>>)]

-----------------------------------------------------------------------------
(* The settings and their frames.                                          *)

Set(t) ==
  /\ In(t, "LOG_Set")
  /\ settings' = [settings EXCEPT ![call[t].field] = call[t].value]
  /\ Settle
  /\ Goto(t, "unlock")
  /\ UNCHANGED <<log_stack, output, process, log_mutex, call, answer, calls>>

Get(t) ==
  /\ In(t, "LOG_Get")
  /\ answer' = [answer EXCEPT ![t] = settings[call[t].field]]
  /\ Goto(t, "unlock")
  /\ UNCHANGED <<shared, log_mutex, call, calls>>

\* Mutant: the frame does not save the stream.
PushFrame_NoStream(t) ==
  /\ In(t, "LOG_PushFrame")
  /\ ~Stack_Full(log_stack)
  /\ log_stack' = Pushed(log_stack, [settings EXCEPT !.stream = NULL])
  /\ Goto(t, "unlock")
  /\ UNCHANGED <<settings, output, process, settled, log_mutex, call, answer,
                 calls>>

PushFrame(t) ==
  /\ In(t, "LOG_PushFrame")
  /\ ~Stack_Full(log_stack)
  /\ log_stack' = Pushed(log_stack, settings)
  /\ Goto(t, "unlock")
  /\ UNCHANGED <<settings, output, process, settled, log_mutex, call, answer,
                 calls>>

\* Mutant: Stack_Peek in place of Stack_Pop.
PopFrame_Peek(t) ==
  /\ In(t, "LOG_PopFrame")
  /\ ~Stack_Empty(log_stack)
  /\ settings' = TopOf(log_stack)
  /\ Goto(t, "unlock")
  /\ UNCHANGED <<log_stack, output, process, settled, log_mutex, call, answer,
                 calls>>

PopFrame(t) ==
  /\ In(t, "LOG_PopFrame")
  /\ ~Stack_Empty(log_stack)
  /\ settings' = TopOf(log_stack)
  /\ log_stack' = Popped(log_stack)
  /\ Goto(t, "unlock")
  /\ UNCHANGED <<output, process, settled, log_mutex, call, answer, calls>>

\* ferroratf: the error goes to stderr, then the process aborts, with the
\* mutex still held.
FrameError(t) ==
  /\ \/ In(t, "LOG_PushFrame") /\ Stack_Full(log_stack)
     \/ In(t, "LOG_PopFrame") /\ Stack_Empty(log_stack)
  /\ output' = [output EXCEPT ![stderr] = Append(@, <<t, "error">>)]
  /\ process' = "aborted"
  /\ UNCHANGED <<settings, log_stack, settled, log_mutex, call, answer, pc,
                 calls>>

-----------------------------------------------------------------------------
(* LOG_printf writes its text only, without looking at the level, and      *)
(* without a stream to fall back on.                                       *)

\* Mutant: an early return that skips the unlock.
PrintNothing_Return(t) ==
  /\ In(t, "LOG_printf")
  /\ settings.enabled = 0
  /\ Goto(t, "idle")
  /\ call' = [call EXCEPT ![t] = NoCall]
  /\ UNCHANGED <<shared, log_mutex, answer, calls>>

PrintNothing(t) ==
  /\ In(t, "LOG_printf")
  /\ settings.enabled = 0
  /\ Goto(t, "unlock")
  /\ UNCHANGED <<shared, log_mutex, call, answer, calls>>

PrintText(t) ==
  /\ In(t, "LOG_printf")
  /\ settings.enabled # 0 /\ settings.stream # NULL
  /\ UNCHANGED settings
  /\ Write(t, "print")
  /\ Goto(t, "unlock")
  /\ UNCHANGED <<log_stack, process, settled, log_mutex, call, answer, calls>>

\* vfprintf (NULL, ...) is undefined; the process crashes.
PrintNowhere(t) ==
  /\ In(t, "LOG_printf")
  /\ settings.enabled # 0 /\ settings.stream = NULL
  /\ process' = "crashed"
  /\ UNCHANGED <<settings, log_stack, output, settled, log_mutex, call, answer,
                 pc, calls>>

-----------------------------------------------------------------------------
(* LOG_Emit.                                                               *)

Wanted(level) == settings.enabled # 0 /\ level >= settings.level

\* Messages that are filtered out return, fatal ones too.
EmitNothing(t) ==
  /\ In(t, "LOG_Emit")
  /\ ~Wanted(call[t].level)
  /\ Goto(t, "unlock")
  /\ UNCHANGED <<shared, log_mutex, call, answer, calls>>

\* The first message without a stream makes stderr the stream.
EmitHead(t) ==
  /\ In(t, "LOG_Emit")
  /\ Wanted(call[t].level)
  /\ settings' = [settings EXCEPT !.stream = IF @ = NULL THEN stderr ELSE @]
  /\ Settle
  /\ Write(t, "head")
  /\ Goto(t, "text")
  /\ UNCHANGED <<log_stack, process, log_mutex, call, answer, calls>>

EmitText(t) ==
  /\ pc[t] = "text"
  /\ UNCHANGED settings
  /\ Write(t, "text")
  /\ Goto(t, "reset")
  /\ UNCHANGED <<log_stack, process, settled, log_mutex, call, answer, calls>>

\* Mutant: only levels above the highest one are fatal.
EmitEnd_Above(t) ==
  IF call[t].level > LOG_FATAL THEN "unlock fatal" ELSE "unlock"

\* Where LOG_Emit goes after its last write.
EmitEnd(t) == IF call[t].level = LOG_FATAL THEN "unlock fatal" ELSE "unlock"

EmitReset(t) ==
  /\ pc[t] = "reset"
  /\ UNCHANGED settings
  /\ Write(t, "reset")
  /\ Goto(t, IF settings.autonewl # 0 THEN "newline" ELSE EmitEnd(t))
  /\ UNCHANGED <<log_stack, process, settled, log_mutex, call, answer, calls>>

EmitNewline(t) ==
  /\ pc[t] = "newline"
  /\ UNCHANGED settings
  /\ Write(t, "newline")
  /\ Goto(t, EmitEnd(t))
  /\ UNCHANGED <<log_stack, process, settled, log_mutex, call, answer, calls>>

-----------------------------------------------------------------------------

Continue(t) ==
  \/ Lock(t) \/ Unlock(t) \/ Abort(t)
  \/ Set(t) \/ Get(t)
  \/ PushFrame(t) \/ PopFrame(t) \/ FrameError(t)
  \/ PrintNothing(t) \/ PrintText(t) \/ PrintNowhere(t)
  \/ EmitNothing(t)
  \/ EmitHead(t) \/ EmitText(t) \/ EmitReset(t) \/ EmitNewline(t)

\* The process has ended, or nobody calls any more.
Stopped ==
  /\ \/ process # "runs"
     \/ calls = MaxCalls /\ \A t \in Threads : pc[t] = "idle"
  /\ UNCHANGED vars

Next ==
  \/ process = "runs" /\ \E t \in Threads : Call(t) \/ Continue(t)
  \/ Stopped

Spec == Init /\ [][Next]_vars

\* A thread inside a call keeps being scheduled; no fairness is assumed of
\* the mutex and none of callers.
FairSpec ==
  Spec /\ \A t \in Threads : WF_vars(process = "runs" /\ Continue(t))

-----------------------------------------------------------------------------
(* Properties.                                                             *)

Places == {"idle", "lock", "body", "text", "reset", "newline", "unlock",
           "unlock fatal", "abort"}
Parts  == {"head", "text", "reset", "newline", "print", "error"}

\* Every variable keeps its type.
TypeOK ==
  /\ settings \in LogFrame
  /\ log_stack \in [data : Array(LogFrame, MaxFrames), top : -1..MaxFrames - 1,
                    capacity : {MaxFrames}]
  /\ log_mutex \in Threads \cup {NULL}
  /\ call \in [Threads -> Calls \cup {NoCall}]
  /\ answer \in [Threads -> Levels \cup Flag \cup Streams \cup {NULL}]
  /\ pc \in [Threads -> Places]
  /\ output \in [Streams -> Seq(Threads \X Parts)]
  /\ process \in {"runs", "aborted", "crashed"}
  /\ calls \in 0..MaxCalls
  /\ settled \in BOOLEAN

\* What follows a part of a message in the same stream.
Follows(part, other) ==
  \/ part = "head" /\ other = "text"
  \/ part = "text" /\ other = "reset"
  \/ part = "reset" /\ other \in {"newline", "head", "print", "error"}
  \/ part \in {"newline", "print", "error"}
     /\ other \in {"head", "print", "error"}

\* The parts of each message stand together, in order, by one thread.
Whole(parts) ==
  \A k \in 1..Len(parts) - 1 :
    LET this == parts[k]
        then == parts[k + 1]
    IN  /\ Follows(this[2], then[2])
        /\ then[2] \in {"text", "reset", "newline"} => this[1] = then[1]

\* Messages are written whole: no message of another thread, no LOG_printf and
\* no error gets between the parts of one, and changing the stream does not
\* tear one apart.
MessagesWhole == \A f \in Streams : Whole(output[f])

\* Once a stream was set while no frame was saved, no nesting of frames brings
\* the null stream back: only who sets it to NULL can make LOG_printf crash.
StreamStays ==
  settled =>
    /\ settings.stream # NULL
    /\ \A k \in 1..Stack_Size(log_stack) : Elements(log_stack)[k].stream # NULL
    /\ process # "crashed"

\* Holding the mutex, as the code sees it: between lock and unlock.
InMutex(t) == pc[t] \notin {"idle", "lock", "abort"}

\* The inductive invariant behind the invariants above.

\* The mutex is held by the thread between lock and unlock; a process that
\* aborts over its frames does so in the mutex.
MutexInv == \A t \in Threads : InMutex(t) <=> log_mutex = t

\* Which calls pass through which places.
PlacesInv ==
  \A t \in Threads :
    /\ IF pc[t] = "idle" THEN call[t] = NoCall ELSE call[t] \in Calls
    /\ pc[t] \in {"text", "reset", "newline", "unlock fatal", "abort"} =>
         call[t].name = "LOG_Emit"
    /\ pc[t] \in {"unlock fatal", "abort"} => call[t].level = LOG_FATAL

LastOf(f) == output[f][Len(output[f])]

\* The part written last, at a place within a message.
Written(place) ==
  IF place = "text" THEN "head"
  ELSE IF place = "reset" THEN "text"
  ELSE "reset"

\* A thread within a message finds its last part at the end of the stream.
WriterInv ==
  \A t \in Threads :
    pc[t] \in {"text", "reset", "newline"} =>
      /\ settings.stream # NULL
      /\ output[settings.stream] # <<>>
      /\ LastOf(settings.stream) = <<t, Written(pc[t])>>

\* A stream that ends within a message is being written to.
OpenInv ==
  \A f \in Streams :
    output[f] # <<>> /\ LastOf(f)[2] \in {"head", "text"} =>
      /\ f = settings.stream
      /\ \E t \in Threads : pc[t] \in {"text", "reset"}

IInv ==
  /\ TypeOK
  /\ MutexInv /\ PlacesInv
  /\ WriterInv /\ OpenInv
  /\ MessagesWhole
  /\ StreamStays

\* What threads see of the logger.
Done == {t \in Threads : pc[t] \notin {"idle", "lock", "body"}}

\* Where the entries of a stream are: the heads of messages, and the parts
\* that stand alone.
EntriesAt(parts) ==
  {k \in 1..Len(parts) : parts[k][2] \in {"head", "print", "error"}}

\* The n-th entry of a stream: n - 1 entries are before it.
NthEntry(parts, n) ==
  LET at == EntriesAt(parts)
      th == {k \in at : Cardinality({j \in at : j <= k}) = n}
  IN  CHOOSE entry \in {parts[k] : k \in th} : TRUE

\* The entries of a stream, in order.
Entries(parts) ==
  [n \in 1..Cardinality(EntriesAt(parts)) |-> NthEntry(parts, n)]

\* The threads that are within a fatal message, or past it.
Dying == {t \in Done : /\ call[t].name = "LOG_Emit"
                       /\ call[t].level = LOG_FATAL
                       /\ pc[t] # "unlock"}

Interface == INSTANCE Logger WITH
  frames  <- Elements(log_stack),
  written <- [f \in Streams |-> Entries(output[f])],
  done    <- Done,
  dying   <- Dying

\* Whatever the threads interleave, each call does its whole work at one
\* instant: settings are never mixed, a filter decides by the settings its
\* message is written under, frames come back in the reverse order, and after
\* a fatal message its thread does nothing but abort.
Linearizable == Interface!Spec

\* Whoever holds the mutex lets go of it on every path, unless the process
\* ends: it does when frames over- or underflow inside the mutex.
MutexReleased ==
  \A t \in Threads : (log_mutex = t) ~> (log_mutex # t \/ process # "runs")

\* A fatal message of which anything was written ends the process, whatever
\* other threads do between the unlock and the abort.
FatalEnds ==
  \A t \in Threads :
    (pc[t] = "text" /\ call[t].level = LOG_FATAL) ~> process # "runs"
=============================================================================
