------------------------------- MODULE Logger -------------------------------
(***************************************************************************)
(* What log/log.h promises the threads of a process: every call takes      *)
(* effect at one instant between its invocation and its return, frames are *)
(* restored last in first out, and a message is one entry of a stream.     *)
(* Nothing here knows of the mutex, of the array that holds the frames or  *)
(* of the several writes that make a message; Log implements this module.  *)
(***************************************************************************)
EXTENDS Naturals, Sequences

CONSTANTS
  Threads, LogFrame, Streams, stderr, NULL, LOG_DEBUG, LOG_FATAL, MaxFrames,
  Calls, NoCall  \* the calls of log.h with their arguments; no call

VARIABLES
  settings,  \* what LOG_Set... set and LOG_Get... get
  frames,    \* the settings saved, the last one on top
  written,   \* written[f]: the entries of stream f, by author and kind
  call,      \* call[t]: the call t is in
  answer,    \* answer[t]: what the last getter of t has read
  done,      \* the threads whose call has taken effect and not yet returned
  dying,     \* the threads that have written a fatal message
  process    \* "runs", "aborted" or "crashed"

loggerVars ==
  <<settings, frames, written, call, answer, done, dying, process>>

Init ==
  /\ settings = [level |-> LOG_DEBUG, stream |-> NULL,
                 autonewl |-> 0, enabled |-> 1]
  /\ frames = <<>>
  /\ written = [f \in Streams |-> <<>>]
  /\ call = [t \in Threads |-> NoCall]
  /\ answer = [t \in Threads |-> NULL]
  /\ done = {}
  /\ dying = {}
  /\ process = "runs"

Invoke(t) ==
  /\ call[t] = NoCall
  /\ \E c \in Calls : call' = [call EXCEPT ![t] = c]
  /\ UNCHANGED <<settings, frames, written, answer, done, dying, process>>

Return(t) ==
  /\ t \in done \ dying
  /\ done' = done \ {t}
  /\ call' = [call EXCEPT ![t] = NoCall]
  /\ UNCHANGED <<settings, frames, written, answer, dying, process>>

\* The call of t, of the given name, takes effect.
Effect(t, name) ==
  /\ call[t].name = name
  /\ t \notin done
  /\ done' = done \cup {t}
  /\ UNCHANGED call

Entry(f, t, kind) == written' = [written EXCEPT ![f] = Append(@, <<t, kind>>)]

Set(t) ==
  /\ Effect(t, "LOG_Set")
  /\ settings' = [settings EXCEPT ![call[t].field] = call[t].value]
  /\ UNCHANGED <<frames, written, answer, dying, process>>

Get(t) ==
  /\ Effect(t, "LOG_Get")
  /\ answer' = [answer EXCEPT ![t] = settings[call[t].field]]
  /\ UNCHANGED <<settings, frames, written, dying, process>>

PushFrame(t) ==
  /\ Effect(t, "LOG_PushFrame")
  /\ Len(frames) < MaxFrames
  /\ frames' = Append(frames, settings)
  /\ UNCHANGED <<settings, written, answer, dying, process>>

PopFrame(t) ==
  /\ Effect(t, "LOG_PopFrame")
  /\ frames # <<>>
  /\ settings' = frames[Len(frames)]
  /\ frames' = SubSeq(frames, 1, Len(frames) - 1)
  /\ UNCHANGED <<written, answer, dying, process>>

\* A frame too many, or none to restore, ends the process with an error.
FrameError(t) ==
  /\ \/ call[t].name = "LOG_PushFrame" /\ Len(frames) = MaxFrames
     \/ call[t].name = "LOG_PopFrame" /\ frames = <<>>
  /\ t \notin done
  /\ Entry(stderr, t, "error")
  /\ process' = "aborted"
  /\ UNCHANGED <<settings, frames, call, answer, done, dying>>

PrintText(t) ==
  /\ Effect(t, "LOG_printf")
  /\ \/ settings.enabled = 0 /\ UNCHANGED written
     \/ settings.enabled # 0 /\ settings.stream # NULL
        /\ Entry(settings.stream, t, "print")
  /\ UNCHANGED <<settings, frames, answer, dying, process>>

\* Printing has no stream to fall back on.
PrintNowhere(t) ==
  /\ call[t].name = "LOG_printf"
  /\ t \notin done
  /\ settings.enabled # 0 /\ settings.stream = NULL
  /\ process' = "crashed"
  /\ UNCHANGED <<settings, frames, written, call, answer, done, dying>>

Ignored(level) == settings.enabled = 0 \/ level < settings.level

Ignore(t) ==
  /\ Effect(t, "LOG_Emit")
  /\ Ignored(call[t].level)
  /\ UNCHANGED <<settings, frames, written, answer, dying, process>>

\* A message goes to the stream, which is stderr if there was none; one at the
\* fatal level is the last thing its thread does.
Emit(t) ==
  /\ Effect(t, "LOG_Emit")
  /\ ~Ignored(call[t].level)
  /\ settings' =
       IF settings.stream = NULL THEN [settings EXCEPT !.stream = stderr]
                                 ELSE settings
  /\ Entry(settings'.stream, t, "head")
  /\ dying' = IF call[t].level = LOG_FATAL THEN dying \cup {t} ELSE dying
  /\ UNCHANGED <<frames, answer, process>>

Die(t) ==
  /\ t \in dying
  /\ process' = "aborted"
  /\ UNCHANGED <<settings, frames, written, call, answer, done, dying>>

Next ==
  /\ process = "runs"
  /\ \E t \in Threads :
       \/ Invoke(t) \/ Return(t)
       \/ Set(t) \/ Get(t)
       \/ PushFrame(t) \/ PopFrame(t) \/ FrameError(t)
       \/ PrintText(t) \/ PrintNowhere(t)
       \/ Ignore(t) \/ Emit(t) \/ Die(t)

Spec == Init /\ [][Next]_loggerVars
=============================================================================
