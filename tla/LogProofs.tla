----------------------------- MODULE LogProofs -----------------------------
(***************************************************************************)
(* Proofs about the logger, for any number of threads, levels, streams and *)
(* frames.                                                                 *)
(***************************************************************************)
EXTENDS Log, SequenceTheorems, FiniteSetTheorems, TLAPS

-----------------------------------------------------------------------------
(* The output.                                                             *)

Part == Threads \X Parts

\* Appending a part that may follow the last one keeps messages whole.
LEMMA AppendWhole ==
  ASSUME NEW o \in Seq(Part), NEW t \in Threads, NEW part \in Parts,
         Whole(o),
         o # <<>> =>
           /\ Follows(o[Len(o)][2], part)
           /\ part \in {"text", "reset", "newline"} => o[Len(o)][1] = t
  PROVE  Whole(Append(o, <<t, part>>))
<1> DEFINE p == Append(o, <<t, part>>)
<1>1. /\ Len(o) \in Nat /\ Len(p) = Len(o) + 1
      /\ \A k \in 1..Len(o) : p[k] = o[k]
      /\ p[Len(o) + 1] = <<t, part>>
  OBVIOUS
<1> HIDE DEF p
<1>2. ASSUME NEW k \in 1..Len(p) - 1
      PROVE  /\ Follows(p[k][2], p[k + 1][2])
             /\ p[k + 1][2] \in {"text", "reset", "newline"} =>
                  p[k][1] = p[k + 1][1]
  <2>1. CASE k = Len(o)
    <3>1. o # <<>> /\ p[k] = o[Len(o)] /\ p[k + 1] = <<t, part>>
      BY <1>1, <2>1, EmptySeq
    <3>2. QED BY <3>1
  <2>2. CASE k \in 1..Len(o) - 1
    <3>1. p[k] = o[k] /\ p[k + 1] = o[k + 1]
      BY <1>1, <2>2
    <3>2. QED BY <2>2, <3>1 DEF Whole
  <2>3. QED BY <1>1, <2>1, <2>2
<1>3. QED BY <1>2 DEF Whole, p

\* A write to stream f of a part that may come next.
LEMMA WriteWhole ==
  ASSUME output \in [Streams -> Seq(Part)], MessagesWhole,
         NEW f \in Streams, NEW t \in Threads, NEW part \in Parts,
         output[f] # <<>> =>
           /\ Follows(LastOf(f)[2], part)
           /\ part \in {"text", "reset", "newline"} => LastOf(f)[1] = t,
         output' = [output EXCEPT ![f] = Append(@, <<t, part>>)]
  PROVE  /\ output' \in [Streams -> Seq(Part)]
         /\ MessagesWhole'
         /\ output'[f] # <<>> /\ LastOf(f)' = <<t, part>>
         /\ \A g \in Streams \ {f} : output'[g] = output[g]
<1>1. /\ <<t, part>> \in Part /\ output[f] \in Seq(Part)
      /\ output'[f] = Append(output[f], <<t, part>>)
      /\ \A g \in Streams \ {f} : output'[g] = output[g]
  BY DEF Part
<1>2. output' \in [Streams -> Seq(Part)]
  BY <1>1
<1>3. Whole(output'[f])
  BY <1>1, AppendWhole DEF MessagesWhole, LastOf
<1>4. output'[f] # <<>> /\ LastOf(f)' = <<t, part>>
  BY <1>1 DEF LastOf
<1>5. QED BY <1>1, <1>2, <1>3, <1>4 DEF MessagesWhole

\* No stream ends within a message while a thread that writes none has the
\* mutex, so that it may start one.
LEMMA NoneOpen ==
  ASSUME IInv, NEW t \in Threads, pc[t] = "body", NEW f \in Streams,
         NEW part \in {"head", "print", "error"}
  PROVE  output[f] # <<>> => Follows(LastOf(f)[2], part)
<1> SUFFICES ASSUME output[f] # <<>> PROVE Follows(LastOf(f)[2], part)
  OBVIOUS
<1>1. LastOf(f) \in Part
  BY EmptySeq DEF IInv, TypeOK, LastOf, Part
<1>2. \A u \in Threads : pc[u] \notin {"text", "reset"}
  BY DEF IInv, MutexInv, InMutex
<1>3. LastOf(f)[2] \in Parts \ {"head", "text"}
  BY <1>1, <1>2 DEF IInv, OpenInv, Part
<1>4. QED BY <1>3 DEF Follows, Parts

-----------------------------------------------------------------------------
(* The mutex and the places.                                               *)

\* Places inside the mutex are entered and left with it.
LEMMA MutexStep ==
  ASSUME IInv, NEW t \in Threads, Call(t) \/ Continue(t)
  PROVE  MutexInv' /\ PlacesInv'
<1> USE StreamsAssumption DEF MutexInv, InMutex, PlacesInv, TypeOK
<1>1. CASE Call(t)
  <2>1. PICK c \in Calls : call' = [call EXCEPT ![t] = c]
    BY <1>1 DEF Call
  <2>2. QED BY <1>1, <2>1 DEF Call, Goto, IInv
<1>2. CASE Lock(t)
  <2>1. \A u \in Threads : ~InMutex(u)
    BY <1>2 DEF Lock, IInv
  <2>2. pc' = [pc EXCEPT ![t] = "body"] /\ log_mutex' = t /\ call' = call
    BY <1>2 DEF Lock, Goto
  <2>3. MutexInv'
    BY <2>1, <2>2 DEF IInv
  <2>4. PlacesInv'
    BY <1>2, <2>2 DEF Lock, IInv
  <2>5. QED BY <2>3, <2>4
<1>3. CASE Unlock(t)
  <2>1. MutexInv'
    <3>1. /\ log_mutex' = NULL /\ pc'[t] \in {"idle", "abort"}
          /\ \A u \in Threads \ {t} : pc'[u] = pc[u]
      BY <1>3 DEF Unlock, Goto, IInv
    <3>2. \A u \in Threads \ {t} : pc[u] \in {"idle", "lock", "abort"}
      BY <1>3 DEF Unlock, IInv
    <3>3. QED BY <3>1, <3>2
  <2>2. PlacesInv'
    <3>1. CASE pc[t] = "unlock"
      <4>1. /\ pc'[t] = "idle" /\ call'[t] = NoCall
            /\ \A u \in Threads \ {t} : pc'[u] = pc[u] /\ call'[u] = call[u]
        BY <1>3, <3>1 DEF Unlock, Goto, IInv
      <4>2. QED BY <4>1 DEF IInv
    <3>2. CASE pc[t] = "unlock fatal"
      <4>1. /\ pc'[t] = "abort" /\ call' = call
            /\ \A u \in Threads \ {t} : pc'[u] = pc[u]
        BY <1>3, <3>2 DEF Unlock, Goto, IInv
      <4>2. QED BY <3>2, <4>1 DEF IInv
    <3>3. QED BY <1>3, <3>1, <3>2 DEF Unlock
  <2>3. QED BY <2>1, <2>2
<1>4. CASE Abort(t) \/ FrameError(t) \/ PrintNowhere(t)
  BY <1>4 DEF Abort, FrameError, PrintNowhere, IInv
<1>5. ASSUME NEW place \in {"text", "reset", "newline", "unlock",
                            "unlock fatal"},
             UNCHANGED <<call, log_mutex>>, Goto(t, place), InMutex(t),
             place # "unlock" => call[t].name = "LOG_Emit",
             place = "unlock fatal" => call[t].level = LOG_FATAL
      PROVE  MutexInv' /\ PlacesInv'
  <2>1. /\ pc'[t] = place /\ pc[t] \notin {"idle", "lock", "abort"}
        /\ \A u \in Threads \ {t} : pc'[u] = pc[u]
    BY <1>5 DEF Goto, IInv
  <2>2. MutexInv'
    BY <1>5, <2>1 DEF IInv
  <2>3. call[t] \in Calls
    BY <2>1 DEF IInv
  <2>4. PlacesInv'
    BY <1>5, <2>1, <2>3 DEF IInv
  <2>5. QED BY <2>2, <2>4
<1>6. CASE \/ Set(t) \/ Get(t) \/ PushFrame(t) \/ PopFrame(t)
           \/ PrintNothing(t) \/ PrintText(t) \/ EmitNothing(t)
  <2>1. UNCHANGED <<call, log_mutex>> /\ Goto(t, "unlock") /\ pc[t] = "body"
    BY <1>6 DEF Set, Get, PushFrame, PopFrame, PrintNothing, PrintText,
                EmitNothing, In
  <2>2. QED BY <1>5, <2>1
<1>7. CASE EmitHead(t) \/ EmitText(t)
  <2>1. PICK place \in {"text", "reset"} :
          Goto(t, place) /\ UNCHANGED <<call, log_mutex>>
    BY <1>7 DEF EmitHead, EmitText
  <2>2. pc[t] \in {"body", "text"} /\ call[t].name = "LOG_Emit"
    BY <1>7 DEF EmitHead, EmitText, In, IInv
  <2>3. QED BY <1>5, <2>1, <2>2
<1>8. CASE EmitReset(t) \/ EmitNewline(t)
  <2>1. PICK place \in {"newline", "unlock", "unlock fatal"} :
          /\ Goto(t, place) /\ UNCHANGED <<call, log_mutex>>
          /\ place = "unlock fatal" => call[t].level = LOG_FATAL
    BY <1>8 DEF EmitReset, EmitNewline, EmitEnd
  <2>2. pc[t] \in {"reset", "newline"} /\ call[t].name = "LOG_Emit"
    BY <1>8 DEF EmitReset, EmitNewline, IInv
  <2>3. QED BY <1>5, <2>1, <2>2
<1>9. QED
  BY <1>1, <1>2, <1>3, <1>4, <1>6, <1>7, <1>8 DEF Continue

-----------------------------------------------------------------------------
(* Settings and frames.                                                    *)

\* LOG_Set stores a value of the field's type.
LEMMA SetTyped ==
  ASSUME IInv, NEW t \in Threads, Set(t)
  PROVE  settings' \in LogFrame
<1>1. /\ settings \in LogFrame /\ call[t] \in Calls
      /\ call[t].name = "LOG_Set"
      /\ settings' = [settings EXCEPT ![call[t].field] = call[t].value]
  BY DEF IInv, TypeOK, PlacesInv, Set, In
<1>2. \/ call[t].field = "level" /\ call[t].value \in Levels
      \/ call[t].field = "stream" /\ call[t].value \in Streams \cup {NULL}
      \/ call[t].field \in {"autonewl", "enabled"} /\ call[t].value \in Flag
  BY <1>1 DEF Calls
<1>3. QED BY <1>1, <1>2 DEF LogFrame

\* LOG_Get answers a value of the field's type, or no stream.
LEMMA GetTyped ==
  ASSUME IInv, NEW t \in Threads, Get(t)
  PROVE  settings[call[t].field] \in Levels \cup Flag \cup Streams \cup {NULL}
<1>1. settings \in LogFrame /\ call[t] \in Calls /\ call[t].name = "LOG_Get"
  BY DEF IInv, TypeOK, PlacesInv, Get, In
<1>2. call[t].field \in {"level", "stream", "autonewl", "enabled"}
  BY <1>1 DEF Calls
<1>3. QED BY <1>1, <1>2 DEF LogFrame

\* The struct of the frames.
Frames == [data : Array(LogFrame, MaxFrames), top : -1..MaxFrames - 1,
           capacity : {MaxFrames}]

\* No frame that is in use holds the null stream.
NoNull(s) == \A k \in 0..s.top : s.data[k].stream # NULL

\* NoNull of the array and of the stack it represents are the same.
LEMMA NoNullFrames ==
  ASSUME NEW s \in Frames
  PROVE  NoNull(s) <=> \A k \in 1..Stack_Size(s) : Elements(s)[k].stream # NULL
<1>1. s.top \in -1..MaxFrames - 1 /\ MaxFrames \in Nat
  BY BoundsAssumption DEF Frames
<1>2. \A k \in 1..Stack_Size(s) : Elements(s)[k] = s.data[k - 1]
  BY DEF Elements, Stack_Size
<1>3. ASSUME NoNull(s), NEW k \in 1..Stack_Size(s)
      PROVE  Elements(s)[k].stream # NULL
  <2>1. k - 1 \in 0..s.top
    BY <1>1 DEF Stack_Size
  <2>2. QED BY <1>2, <1>3, <2>1 DEF NoNull
<1>4. ASSUME \A k \in 1..Stack_Size(s) : Elements(s)[k].stream # NULL,
             NEW k \in 0..s.top
      PROVE  s.data[k].stream # NULL
  <2>1. k + 1 \in 1..Stack_Size(s) /\ (k + 1) - 1 = k
    BY <1>1 DEF Stack_Size
  <2>2. QED BY <1>2, <1>4, <2>1
<1>5. QED BY <1>3, <1>4 DEF NoNull

\* Saving a frame keeps the stack typed, with the settings on top.
LEMMA PushTyped ==
  ASSUME IInv, ~Stack_Full(log_stack)
  PROVE  LET s == Pushed(log_stack, settings) IN
           /\ s \in Frames
           /\ NoNull(log_stack) /\ settings.stream # NULL => NoNull(s)
<1> DEFINE s == Pushed(log_stack, settings)
           n == log_stack.top + 1
<1>1. /\ log_stack.data \in Array(LogFrame, MaxFrames)
      /\ log_stack.top \in -1..MaxFrames - 1 /\ log_stack.capacity = MaxFrames
      /\ settings \in LogFrame /\ MaxFrames \in Nat
  BY BoundsAssumption DEF IInv, TypeOK
<1>2. n \in 0..MaxFrames - 1
  BY <1>1 DEF Stack_Full
<1>3. s = [data |-> [log_stack.data EXCEPT ![n] = settings], top |-> n,
           capacity |-> MaxFrames]
  BY <1>1 DEF Pushed
<1> HIDE DEF s
<1>4. s \in Frames
  BY <1>1, <1>2, <1>3 DEF Frames, Array
<1>5. ASSUME NoNull(log_stack), settings.stream # NULL, NEW k \in 0..n
      PROVE  s.data[k].stream # NULL
  <2>1. k = n \/ k \in 0..log_stack.top
    BY <1>1
  <2>2. s.data[k] = IF k = n THEN settings ELSE log_stack.data[k]
    BY <1>1, <1>2, <1>3 DEF Array
  <2>3. QED BY <1>5, <2>1, <2>2 DEF NoNull
<1>6. QED BY <1>3, <1>4, <1>5 DEF NoNull, s

\* Restoring a frame keeps the stack typed and yields settings.
LEMMA PopTyped ==
  ASSUME IInv, ~Stack_Empty(log_stack)
  PROVE  /\ Popped(log_stack) \in Frames
         /\ TopOf(log_stack) \in LogFrame
         /\ NoNull(log_stack) =>
              NoNull(Popped(log_stack)) /\ TopOf(log_stack).stream # NULL
<1>1. /\ log_stack \in Frames
      /\ log_stack.data \in Array(LogFrame, MaxFrames)
      /\ log_stack.top \in 0..MaxFrames - 1
      /\ MaxFrames \in Nat
  BY BoundsAssumption DEF IInv, TypeOK, Stack_Empty, Frames
<1>2. /\ Popped(log_stack).data = log_stack.data
      /\ Popped(log_stack).top = log_stack.top - 1
      /\ Popped(log_stack) \in Frames
  BY <1>1 DEF Popped, Frames
<1>3. TopOf(log_stack) \in LogFrame
  BY <1>1 DEF TopOf, Array
<1>4. QED BY <1>1, <1>2, <1>3 DEF NoNull, TopOf

-----------------------------------------------------------------------------
(* The steps that touch neither settings nor output.                       *)

\* The steps that change neither settings nor streams preserve IInv.
LEMMA QuietStep ==
  ASSUME IInv, NEW t \in Threads,
         \/ Call(t) \/ Lock(t) \/ Unlock(t) \/ Get(t)
         \/ PrintNothing(t) \/ EmitNothing(t)
  PROVE  IInv'
<1>1. MutexInv' /\ PlacesInv'
  BY MutexStep DEF Continue
<1>2. UNCHANGED shared
  BY DEF Call, Lock, Unlock, Get, PrintNothing, EmitNothing
<1>3. \A u \in Threads :
        pc'[u] \in {"text", "reset", "newline"} <=>
          pc[u] \in {"text", "reset", "newline"}
  BY DEF Call, Lock, Unlock, Get, PrintNothing, EmitNothing, Goto, In, IInv,
         TypeOK
<1>4. \A u \in Threads :
        pc[u] \in {"text", "reset", "newline"} => pc'[u] = pc[u]
  BY DEF Call, Lock, Unlock, Get, PrintNothing, EmitNothing, Goto, In, IInv,
         TypeOK
<1>5. TypeOK'
  <2>1. pc' \in [Threads -> Places] /\ log_mutex' \in Threads \cup {NULL}
    BY DEF Call, Lock, Unlock, Get, PrintNothing, EmitNothing, Goto, In, IInv,
           TypeOK, Places
  <2>2. answer' \in [Threads -> Levels \cup Flag \cup Streams \cup {NULL}]
    BY GetTyped
       DEF Call, Lock, Unlock, Get, PrintNothing, EmitNothing, IInv, TypeOK
  <2>3. call' \in [Threads -> Calls \cup {NoCall}] /\ calls' \in 0..MaxCalls
    <3>1. CASE Call(t)
      <4>1. PICK c \in Calls : call' = [call EXCEPT ![t] = c]
        BY <3>1 DEF Call
      <4>2. QED BY <3>1, <4>1, BoundsAssumption DEF Call, IInv, TypeOK
    <3>2. CASE ~Call(t)
      BY <3>2 DEF Lock, Unlock, Get, PrintNothing, EmitNothing, IInv, TypeOK
    <3>3. QED BY <3>1, <3>2
  <2>4. QED BY <1>2, <2>1, <2>2, <2>3 DEF shared, IInv, TypeOK
<1>6. WriterInv'
  BY <1>2, <1>3, <1>4 DEF shared, IInv, WriterInv, LastOf
<1>7. OpenInv'
  <2>1. ASSUME NEW f \in Streams, output[f] # <<>>,
               LastOf(f)[2] \in {"head", "text"}
        PROVE  f = settings.stream
               /\ \E u \in Threads : pc'[u] \in {"text", "reset"}
    <3>1. f = settings.stream /\ \E u \in Threads : pc[u] \in {"text", "reset"}
      BY <2>1 DEF IInv, OpenInv
    <3>2. QED BY <1>4, <3>1
  <2>2. QED BY <1>2, <2>1 DEF shared, OpenInv, LastOf
<1>8. MessagesWhole' /\ StreamStays'
  BY <1>2 DEF shared, IInv, MessagesWhole, StreamStays
<1>9. QED BY <1>1, <1>5, <1>6, <1>7, <1>8 DEF IInv

-----------------------------------------------------------------------------
(* The steps on settings and frames: the mutex is held, so nobody writes.  *)

\* While a thread is in the body of a call no other is within a message.
LEMMA NobodyWrites ==
  ASSUME IInv, NEW t \in Threads, pc[t] = "body"
  PROVE  \A u \in Threads : pc[u] \notin {"text", "reset", "newline"}
BY DEF IInv, MutexInv, InMutex

\* StreamStays, in terms of the array.
LEMMA StreamStaysIn ==
  ASSUME TypeOK
  PROVE  StreamStays <=>
           (settled =>
              /\ settings.stream # NULL /\ NoNull(log_stack)
              /\ process # "crashed")
<1>1. log_stack \in Frames
  BY DEF TypeOK, Frames
<1>2. QED BY <1>1, NoNullFrames DEF StreamStays

\* What Settle leaves, over the frames there were.
LEMMA Settled ==
  ASSUME IInv, Settle, settled'
  PROVE  settings'.stream # NULL /\ NoNull(log_stack)
<1>1. settings'.stream # NULL /\ (settled \/ Stack_Empty(log_stack))
  BY DEF Settle
<1>2. CASE settled
  BY <1>1, <1>2, StreamStaysIn DEF IInv
<1>3. CASE Stack_Empty(log_stack)
  BY <1>1, <1>3 DEF Stack_Empty, NoNull
<1>4. QED BY <1>1, <1>2, <1>3

\* The calls that change settings or frames preserve IInv.
LEMMA SettingsStep ==
  ASSUME IInv, process = "runs", NEW t \in Threads,
         Set(t) \/ PushFrame(t) \/ PopFrame(t)
  PROVE  IInv'
<1>1. MutexInv' /\ PlacesInv'
  BY MutexStep DEF Continue
<1>2. /\ pc[t] = "body" /\ pc' = [pc EXCEPT ![t] = "unlock"]
      /\ UNCHANGED <<output, process, log_mutex, call, answer, calls>>
  BY DEF Set, PushFrame, PopFrame, In, Goto
<1>3. \A u \in Threads : pc'[u] \notin {"text", "reset", "newline"}
  BY <1>2, NobodyWrites DEF IInv, TypeOK
<1>4. \A f \in Streams :
        output[f] # <<>> => LastOf(f)[2] \notin {"head", "text"}
  BY <1>2, NobodyWrites DEF IInv, OpenInv
<1>5. WriterInv' /\ OpenInv' /\ MessagesWhole'
  BY <1>2, <1>3, <1>4 DEF IInv, WriterInv, OpenInv, MessagesWhole, LastOf
<1>6. /\ log_stack \in Frames /\ settings \in LogFrame /\ settled \in BOOLEAN
      /\ settled => NoNull(log_stack) /\ settings.stream # NULL
  BY StreamStaysIn DEF IInv, TypeOK, Frames
<1>7. /\ settings' \in LogFrame /\ log_stack' \in Frames
      /\ settled' \in BOOLEAN
      /\ settled' => settings'.stream # NULL /\ NoNull(log_stack)'
  <2>1. CASE Set(t)
    <3>1. settings' \in LogFrame
      BY <2>1, SetTyped
    <3>2. Settle /\ log_stack' = log_stack
      BY <2>1 DEF Set
    <3>3. settled' \in BOOLEAN
      BY <3>2, <1>6 DEF Settle
    <3>4. settled' => settings'.stream # NULL /\ NoNull(log_stack)'
      BY <3>2, Settled
    <3>5. QED BY <1>6, <3>1, <3>2, <3>3, <3>4
  <2>2. CASE PushFrame(t)
    <3>1. /\ ~Stack_Full(log_stack) /\ log_stack' = Pushed(log_stack, settings)
          /\ UNCHANGED <<settings, settled>>
      BY <2>2 DEF PushFrame
    <3>2. QED BY <1>6, <3>1, PushTyped
  <2>3. CASE PopFrame(t)
    <3>1. /\ ~Stack_Empty(log_stack) /\ log_stack' = Popped(log_stack)
          /\ settings' = TopOf(log_stack) /\ settled' = settled
      BY <2>3 DEF PopFrame
    <3>2. QED BY <1>6, <3>1, PopTyped
  <2>4. QED BY <2>1, <2>2, <2>3
<1>8. TypeOK'
  <2>1. pc' \in [Threads -> Places]
    BY <1>2 DEF IInv, TypeOK, Places
  <2>2. QED BY <1>2, <1>7, <2>1 DEF IInv, TypeOK, Frames
<1>9. StreamStays'
  <2>1. process' # "crashed"
    BY <1>2
  <2>2. log_stack' \in Frames
    BY <1>7
  <2>3. QED BY <1>7, <2>1, <2>2, NoNullFrames DEF StreamStays
<1>10. QED BY <1>1, <1>5, <1>8, <1>9 DEF IInv

\* The process ends without a write.
LEMMA EndStep ==
  ASSUME IInv, NEW t \in Threads, Abort(t) \/ PrintNowhere(t)
  PROVE  IInv'
<1>1. MutexInv' /\ PlacesInv'
  BY MutexStep DEF Continue
<1>2. /\ UNCHANGED <<settings, log_stack, output, settled, log_mutex, call,
                     answer, pc, calls>>
      /\ process' \in {"aborted", "crashed"}
      /\ process' = "crashed" => settings.stream = NULL
  BY DEF Abort, PrintNowhere
<1>3. TypeOK' /\ WriterInv' /\ OpenInv' /\ MessagesWhole'
  BY <1>2 DEF IInv, TypeOK, WriterInv, OpenInv, MessagesWhole, LastOf
<1>4. StreamStays'
  BY <1>2 DEF IInv, StreamStays
<1>5. QED BY <1>1, <1>3, <1>4 DEF IInv

-----------------------------------------------------------------------------
(* The steps that write.                                                   *)

\* A write of one part, to the stream of the settings or of an error, from a
\* place where it may come next; then the writer is within a message or not.
LEMMA WriteStep ==
  ASSUME IInv, TypeOK', StreamStays', MutexInv', PlacesInv',
         NEW t \in Threads, NEW f \in Streams, NEW part \in Parts,
         InMutex(t),
         output[f] # <<>> =>
           /\ Follows(LastOf(f)[2], part)
           /\ part \in {"text", "reset", "newline"} => LastOf(f)[1] = t,
         output' = [output EXCEPT ![f] = Append(@, <<t, part>>)],
         \A g \in Streams \ {f} :
           output[g] # <<>> => LastOf(g)[2] \notin {"head", "text"},
         \A u \in Threads \ {t} : pc'[u] = pc[u],
         part \in {"head", "text"} => pc'[t] \in {"text", "reset"},
         pc'[t] \in {"text", "reset", "newline"} =>
           part = Written(pc'[t]),
         part \in {"head", "text", "reset"} => f = settings'.stream
  PROVE  IInv'
<1>1. output \in [Streams -> Seq(Part)] /\ MessagesWhole
  BY DEF IInv, TypeOK, Part
<1>0. /\ output[f] # <<>> =>
           /\ Follows(LastOf(f)[2], part)
           /\ part \in {"text", "reset", "newline"} => LastOf(f)[1] = t
      /\ output' = [output EXCEPT ![f] = Append(@, <<t, part>>)]
  OBVIOUS
<1>2. /\ MessagesWhole'
      /\ output'[f] # <<>> /\ LastOf(f)' = <<t, part>>
      /\ \A g \in Streams \ {f} : output'[g] = output[g]
  BY ONLY <1>0, <1>1, WriteWhole, f \in Streams, t \in Threads, part \in Parts
     DEF LastOf
<1>3. \A u \in Threads \ {t} : pc'[u] \notin {"text", "reset", "newline"}
  BY DEF IInv, MutexInv, InMutex
<1>4. WriterInv'
  <2>1. ASSUME pc'[t] \in {"text", "reset", "newline"}
        PROVE  /\ settings'.stream # NULL
               /\ output'[settings'.stream] # <<>>
               /\ LastOf(settings.stream)' = <<t, Written(pc'[t])>>
    <3>1. part \in {"head", "text", "reset"} /\ f = settings'.stream
      BY <2>1 DEF Written
    <3>2. f # NULL
      BY StreamsAssumption
    <3>3. LastOf(settings.stream)' = LastOf(f)'
      BY <3>1 DEF LastOf
    <3>4. QED BY <1>2, <2>1, <3>1, <3>2, <3>3
  <2>2. QED BY <1>3, <2>1 DEF WriterInv
<1>5. OpenInv'
  <2>1. ASSUME NEW g \in Streams, output'[g] # <<>>,
               LastOf(g)'[2] \in {"head", "text"}
        PROVE  g = settings'.stream
               /\ \E u \in Threads : pc'[u] \in {"text", "reset"}
    <3>1. CASE g = f
      <4>1. part \in {"head", "text"}
        BY <1>2, <2>1, <3>1
      <4>2. QED BY <3>1, <4>1
    <3>2. CASE g # f
      <4>1. LastOf(g)' = LastOf(g) /\ output[g] # <<>>
        BY <1>2, <2>1, <3>2 DEF LastOf
      <4>2. QED BY <2>1, <3>2, <4>1
    <3>3. QED BY <3>1, <3>2
  <2>2. QED BY <2>1 DEF OpenInv
<1>6. QED BY <1>2, <1>4, <1>5 DEF IInv

\* Streams other than the one written to do not end within a message.
LEMMA OthersClosed ==
  ASSUME IInv, NEW t \in Threads, InMutex(t),
         NEW f \in Streams,
         pc[t] \in {"text", "reset"} => f = settings.stream
  PROVE  \A g \in Streams \ {f} :
           output[g] # <<>> => LastOf(g)[2] \notin {"head", "text"}
<1>1. \A u \in Threads : pc[u] \in {"text", "reset"} => u = t
  BY DEF IInv, MutexInv, InMutex
<1>2. QED BY <1>1 DEF IInv, OpenInv

\* The next part of a message.
LEMMA ContinueMessage ==
  ASSUME IInv, NEW t \in Threads, pc[t] \in {"text", "reset", "newline"}
  PROVE  /\ settings.stream \in Streams /\ InMutex(t)
         /\ LastOf(settings.stream) = <<t, Written(pc[t])>>
         /\ Follows(Written(pc[t]), pc[t])
<1>1. settings.stream \in Streams /\ InMutex(t)
  BY DEF IInv, WriterInv, TypeOK, LogFrame, InMutex
<1>2. QED BY <1>1 DEF IInv, WriterInv, Written, Follows

\* A write within LOG_Emit after the first one.
LEMMA EmitStep ==
  ASSUME IInv, NEW t \in Threads, EmitText(t) \/ EmitReset(t) \/ EmitNewline(t)
  PROVE  IInv'
<1> DEFINE f == settings.stream
           part == pc[t]
<1>1. MutexInv' /\ PlacesInv'
  BY MutexStep DEF Continue
<1>2. /\ part \in {"text", "reset", "newline"}
      /\ UNCHANGED <<settings, log_stack, process, settled, log_mutex, call,
                     answer, calls>>
      /\ output' = [output EXCEPT ![f] = Append(@, <<t, part>>)]
  BY DEF EmitText, EmitReset, EmitNewline, Write
<1>3. /\ f \in Streams /\ InMutex(t)
      /\ LastOf(f) = <<t, Written(part)>> /\ Follows(Written(part), part)
  BY <1>2, ContinueMessage
<1>4. /\ pc' \in [Threads -> Places]
      /\ \A u \in Threads \ {t} : pc'[u] = pc[u]
      /\ part = "text" => pc'[t] = "reset"
      /\ part = "reset" => pc'[t] \in {"newline", "unlock", "unlock fatal"}
      /\ part = "newline" => pc'[t] \in {"unlock", "unlock fatal"}
  BY DEF EmitText, EmitReset, EmitNewline, EmitEnd, Goto, IInv, TypeOK, Places
<1>5. part \in Parts
  BY <1>2 DEF Parts
<1> HIDE DEF part, f
<1>6. output' \in [Streams -> Seq(Threads \X Parts)]
  BY <1>2, <1>3, <1>5 DEF IInv, TypeOK
<1>7. TypeOK'
  BY <1>2, <1>4, <1>6 DEF IInv, TypeOK
<1>8. StreamStays'
  BY <1>2 DEF IInv, StreamStays
<1>9. \A g \in Streams \ {f} :
        output[g] # <<>> => LastOf(g)[2] \notin {"head", "text"}
  BY <1>3, OthersClosed DEF f
<1>10. /\ Follows(LastOf(f)[2], part) /\ LastOf(f)[1] = t
       /\ f = settings'.stream
  BY <1>2, <1>3 DEF f
<1>11. /\ part \in {"head", "text"} => pc'[t] \in {"text", "reset"}
       /\ pc'[t] \in {"text", "reset", "newline"} => part = Written(pc'[t])
  BY <1>2, <1>4 DEF Written
<1>12. QED
  BY <1>1, <1>2, <1>3, <1>4, <1>5, <1>7, <1>8, <1>9, <1>10, <1>11, WriteStep

\* A write that starts a message, or is one.
LEMMA StartStep ==
  ASSUME IInv, process = "runs", NEW t \in Threads,
         EmitHead(t) \/ PrintText(t) \/ FrameError(t)
  PROVE  IInv'
<1> DEFINE f == IF FrameError(t) THEN stderr ELSE settings'.stream
           part == IF FrameError(t) THEN "error"
                   ELSE IF PrintText(t) THEN "print" ELSE "head"
<1>1. MutexInv' /\ PlacesInv'
  BY MutexStep DEF Continue
<1>2. /\ pc[t] = "body" /\ InMutex(t)
      /\ UNCHANGED <<log_stack, log_mutex, call, answer, calls>>
      /\ process' \in {"runs", "aborted"}
  BY DEF EmitHead, PrintText, FrameError, In, InMutex
<1>3. CASE EmitHead(t) /\ ~PrintText(t) /\ ~FrameError(t)
  <2>1. /\ settings' =
              [settings EXCEPT !.stream = IF @ = NULL THEN stderr ELSE @]
        /\ Settle
        /\ output' = [output EXCEPT ![settings'.stream] =
                        Append(@, <<t, "head">>)]
        /\ pc' = [pc EXCEPT ![t] = "text"]
    BY <1>3 DEF EmitHead, Write, Goto
  <2>2. /\ settings' \in LogFrame /\ settings'.stream \in Streams
        /\ settled' \in BOOLEAN
        /\ settled' => settings'.stream # NULL /\ NoNull(log_stack)'
    <3>1. settings \in LogFrame /\ settled \in BOOLEAN
      BY DEF IInv, TypeOK
    <3>2. settings' \in LogFrame /\ settings'.stream \in Streams
      BY <2>1, <3>1, StreamsAssumption DEF LogFrame
    <3>3. settled' \in BOOLEAN
      BY <2>1, <3>1 DEF Settle
    <3>4. settled' => settings'.stream # NULL /\ NoNull(log_stack)'
      BY <1>2, <2>1, Settled
    <3>5. QED BY <3>2, <3>3, <3>4
  <2>3. /\ \A u \in Threads \ {t} : pc'[u] = pc[u]
        /\ pc' \in [Threads -> Places] /\ pc'[t] = "text"
    BY <2>1 DEF IInv, TypeOK, Places
  <2>4. output' \in [Streams -> Seq(Threads \X Parts)] /\ "head" \in Parts
    BY <2>1, <2>2 DEF IInv, TypeOK, Parts
  <2>5. process' = process
    BY <1>3 DEF EmitHead
  <2>6. TypeOK'
    BY <1>2, <2>2, <2>3, <2>4, <2>5 DEF IInv, TypeOK
  <2>7. StreamStays'
    <3>1. log_stack' \in Frames
      BY <1>2 DEF IInv, TypeOK, Frames
    <3>2. QED BY <2>2, <2>5, <3>1, NoNullFrames DEF StreamStays
  <2>8. /\ \A g \in Streams \ {settings'.stream} :
             output[g] # <<>> => LastOf(g)[2] \notin {"head", "text"}
        /\ output[settings'.stream] # <<>> =>
             Follows(LastOf(settings'.stream)[2], "head")
    BY <1>2, <2>2, OthersClosed, NoneOpen
  <2>9. Written(pc'[t]) = "head"
    BY <2>3 DEF Written
  <2> DEFINE h == settings'.stream
  <2>10. h \in Streams /\ h = settings'.stream
    BY <2>2
  <2> HIDE DEF h
  <2>11. /\ \A g \in Streams \ {h} :
              output[g] # <<>> => LastOf(g)[2] \notin {"head", "text"}
         /\ output[h] # <<>> => Follows(LastOf(h)[2], "head")
         /\ output' = [output EXCEPT ![h] = Append(@, <<t, "head">>)]
    BY <2>1, <2>8, <2>10
  <2>12. QED
    BY <1>1, <1>2, <2>3, <2>4, <2>6, <2>7, <2>9, <2>10, <2>11, WriteStep
<1>4. CASE PrintText(t) \/ FrameError(t)
  <2>1. PICK h \in Streams, kind \in {"print", "error"} :
          /\ output' = [output EXCEPT ![h] = Append(@, <<t, kind>>)]
          /\ UNCHANGED <<settings, settled>>
          /\ pc'[t] \in {"unlock", "body"} /\ pc' \in [Threads -> Places]
          /\ \A u \in Threads \ {t} : pc'[u] = pc[u]
    <3>1. CASE PrintText(t)
      <4>1. settings.stream \in Streams
        BY <3>1 DEF PrintText, IInv, TypeOK, LogFrame
      <4>2. /\ output' = [output EXCEPT ![settings.stream] =
                            Append(@, <<t, "print">>)]
            /\ UNCHANGED <<settings, settled>>
            /\ pc' = [pc EXCEPT ![t] = "unlock"]
        BY <3>1 DEF PrintText, Write, Goto
      <4>3. pc' \in [Threads -> Places] /\ pc'[t] = "unlock"
            /\ \A u \in Threads \ {t} : pc'[u] = pc[u]
        <5>1. pc \in [Threads -> Places] /\ "unlock" \in Places
          BY DEF IInv, TypeOK, Places
        <5>2. QED BY <4>2, <5>1
      <4>4. QED BY <4>1, <4>2, <4>3
    <3>2. CASE FrameError(t)
      <4>1. /\ output' = [output EXCEPT ![stderr] = Append(@, <<t, "error">>)]
            /\ UNCHANGED <<settings, settled, pc>>
        BY <3>2 DEF FrameError
      <4>2. stderr \in Streams
        BY StreamsAssumption
      <4>3. pc' \in [Threads -> Places] /\ pc'[t] = "body"
            /\ \A u \in Threads \ {t} : pc'[u] = pc[u]
        BY <1>2, <4>1 DEF IInv, TypeOK
      <4>4. QED BY <4>1, <4>2, <4>3
    <3>3. QED BY <1>4, <3>1, <3>2
  <2>2. output' \in [Streams -> Seq(Threads \X Parts)] /\ kind \in Parts
    BY <2>1 DEF IInv, TypeOK, Parts
  <2>3. TypeOK'
    BY <1>2, <2>1, <2>2 DEF IInv, TypeOK
  <2>4. StreamStays'
    BY <1>2, <2>1 DEF IInv, StreamStays
  <2>5. /\ \A g \in Streams \ {h} :
             output[g] # <<>> => LastOf(g)[2] \notin {"head", "text"}
        /\ output[h] # <<>> => Follows(LastOf(h)[2], kind)
    BY <1>2, <2>1, OthersClosed, NoneOpen
  <2>6. QED
    BY <1>1, <1>2, <2>1, <2>2, <2>3, <2>4, <2>5, WriteStep
<1>5. QED BY <1>3, <1>4

-----------------------------------------------------------------------------
(* The theorems.                                                           *)

\* The process starts with no call under way.
LEMMA Initially == Init => IInv
<1> SUFFICES ASSUME Init PROVE IInv
  OBVIOUS
<1>1. PICK junk \in Array(Junk, MaxFrames) :
        log_stack = NewStack(junk, MaxFrames)
  BY DEF Init
<1>2. log_stack \in Frames
  BY <1>1, BoundsAssumption, JunkAssumption DEF Frames, Array, NewStack
<1>3. settings \in LogFrame
  BY LevelsAssumption DEF Init, LogFrame, Flag
<1>4. TypeOK
  <2>1. /\ call \in [Threads -> Calls \cup {NoCall}]
        /\ answer \in [Threads -> Levels \cup Flag \cup Streams \cup {NULL}]
        /\ pc \in [Threads -> Places]
    BY DEF Init, Places
  <2>2. output \in [Streams -> Seq(Threads \X Parts)]
    <3>1. <<>> \in Seq(Threads \X Parts)
      OBVIOUS
    <3>2. QED BY <3>1 DEF Init
  <2>3. calls \in 0..MaxCalls
    BY BoundsAssumption DEF Init
  <2>4. /\ log_mutex \in Threads \cup {NULL} /\ settled \in BOOLEAN
        /\ process \in {"runs", "aborted", "crashed"}
    BY DEF Init
  <2>5. QED BY <1>2, <1>3, <2>1, <2>2, <2>3, <2>4 DEF TypeOK, Frames
<1>5. MutexInv /\ PlacesInv
  BY StreamsAssumption DEF Init, MutexInv, PlacesInv, InMutex
<1>6. WriterInv /\ OpenInv /\ StreamStays
  BY DEF Init, WriterInv, OpenInv, StreamStays
<1>7. MessagesWhole
  BY DEF Init, MessagesWhole, Whole
<1>8. QED BY <1>4, <1>5, <1>6, <1>7 DEF IInv

\* Every step of a thread, and the end of the process, preserves IInv.
LEMMA Inductive == IInv /\ [Next]_vars => IInv'
<1> SUFFICES ASSUME IInv, [Next]_vars PROVE IInv'
  OBVIOUS
<1>1. ASSUME process = "runs", NEW t \in Threads, Call(t) \/ Continue(t)
      PROVE  IInv'
  <2>1. CASE \/ Call(t) \/ Lock(t) \/ Unlock(t) \/ Get(t)
             \/ PrintNothing(t) \/ EmitNothing(t)
    BY <2>1, QuietStep
  <2>2. CASE Set(t) \/ PushFrame(t) \/ PopFrame(t)
    BY <1>1, <2>2, SettingsStep
  <2>3. CASE Abort(t) \/ PrintNowhere(t)
    BY <2>3, EndStep
  <2>4. CASE EmitText(t) \/ EmitReset(t) \/ EmitNewline(t)
    BY <2>4, EmitStep
  <2>5. CASE EmitHead(t) \/ PrintText(t) \/ FrameError(t)
    BY <1>1, <2>5, StartStep
  <2>6. QED BY <1>1, <2>1, <2>2, <2>3, <2>4, <2>5 DEF Continue
<1>2. CASE UNCHANGED vars
  BY <1>2 DEF vars, shared, IInv, TypeOK, MutexInv, InMutex, PlacesInv,
              WriterInv, OpenInv, LastOf, MessagesWhole, StreamStays
<1>3. QED BY <1>1, <1>2 DEF Next, Stopped

\* The invariant holds of every reachable state.
THEOREM Invariance == Spec => []IInv
<1>1. QED BY Initially, Inductive, PTL DEF Spec

\* No message is torn apart, by any interleaving of threads, changes of the
\* stream and saved frames.
THEOREM MessagesAreWhole == Spec => []MessagesWhole
<1>1. IInv => MessagesWhole
  BY DEF IInv
<1>2. QED BY <1>1, Invariance, PTL

\* Frames never bring back the null stream once one was set below them all.
THEOREM StreamsStay == Spec => []StreamStays
<1>1. IInv => StreamStays
  BY DEF IInv
<1>2. QED BY <1>1, Invariance, PTL

\* Every variable keeps its type.
THEOREM TypeCorrect == Spec => []TypeOK
<1>1. IInv => TypeOK
  BY DEF IInv
<1>2. QED BY <1>1, Invariance, PTL

-----------------------------------------------------------------------------
(* The logger implements what log.h promises.                              *)

\* What EntriesAt finds when a part is appended.
LEMMA EntriesAtAppend ==
  ASSUME NEW o \in Seq(Part), NEW x \in Part
  PROVE  /\ EntriesAt(o) \subseteq 1..Len(o) /\ IsFiniteSet(EntriesAt(o))
         /\ Cardinality(EntriesAt(o)) \in Nat
         /\ EntriesAt(Append(o, x)) =
              IF x[2] \in {"head", "print", "error"}
                THEN EntriesAt(o) \cup {Len(o) + 1} ELSE EntriesAt(o)
<1>1. /\ Len(o) \in Nat /\ Len(Append(o, x)) = Len(o) + 1
      /\ \A k \in 1..Len(o) : Append(o, x)[k] = o[k]
      /\ Append(o, x)[Len(o) + 1] = x
  OBVIOUS
<1>2. 1..Len(o) + 1 = (1..Len(o)) \cup {Len(o) + 1}
  BY <1>1
<1>3. EntriesAt(Append(o, x)) =
        IF x[2] \in {"head", "print", "error"}
          THEN EntriesAt(o) \cup {Len(o) + 1} ELSE EntriesAt(o)
  BY <1>1, <1>2 DEF EntriesAt
<1>4. EntriesAt(o) \subseteq 1..Len(o) /\ IsFiniteSet(1..Len(o))
  BY <1>1, FS_Interval DEF EntriesAt
<1>5. IsFiniteSet(EntriesAt(o))
  BY <1>4, FS_Subset
<1>6. QED BY <1>3, <1>4, <1>5, FS_CardinalityType

\* The entries there are stay, and the one that is written comes after them.
LEMMA EntriesAppend ==
  ASSUME NEW o \in Seq(Part), NEW x \in Part
  PROVE  Entries(Append(o, x)) =
           IF x[2] \in {"head", "print", "error"}
             THEN Append(Entries(o), x) ELSE Entries(o)
<1> DEFINE p == Append(o, x)
           S == EntriesAt(o)
           T == EntriesAt(p)
           l == Len(o)
           c == Cardinality(S)
           At(R, n) == {k \in R : Cardinality({j \in R : j <= k}) = n}
<1>1. /\ l \in Nat /\ S \subseteq 1..l /\ IsFiniteSet(S) /\ c \in Nat
      /\ \A k \in 1..l : p[k] = o[k]
      /\ p[l + 1] = x
      /\ T = IF x[2] \in {"head", "print", "error"} THEN S \cup {l + 1} ELSE S
  BY EntriesAtAppend
<1>2. /\ \A n : NthEntry(o, n) = CHOOSE e \in {o[k] : k \in At(S, n)} : TRUE
      /\ \A n : NthEntry(p, n) = CHOOSE e \in {p[k] : k \in At(T, n)} : TRUE
  BY DEF NthEntry
<1>3. /\ Entries(o) = [n \in 1..c |-> NthEntry(o, n)]
      /\ Entries(p) = [n \in 1..Cardinality(T) |-> NthEntry(p, n)]
  BY DEF Entries
<1> HIDE DEF p, S, T, l, c
<1>4. CASE x[2] \notin {"head", "print", "error"}
  <2>1. T = S
    BY <1>1, <1>4
  <2>2. ASSUME NEW n
        PROVE  NthEntry(p, n) = NthEntry(o, n)
    <3>1. \A k \in At(S, n) : p[k] = o[k]
      BY <1>1
    <3>2. {p[k] : k \in At(T, n)} = {o[k] : k \in At(S, n)}
      BY <2>1, <3>1
    <3>3. QED BY <1>2, <3>2
  <2>3. Entries(p) = Entries(o)
    BY <1>3, <2>1, <2>2 DEF c
  <2>4. QED BY <1>4, <2>3 DEF p
<1>5. CASE x[2] \in {"head", "print", "error"}
  <2>1. T = S \cup {l + 1} /\ l + 1 \notin S
    BY <1>1, <1>5
  <2>2. Cardinality(T) = c + 1
    BY <1>1, <2>1, FS_AddElement DEF c
  <2>3. /\ \A k \in S : {j \in T : j <= k} = {j \in S : j <= k}
        /\ {j \in T : j <= l + 1} = T
    <3>1. \A j \in S : j \in Nat /\ j <= l
      BY <1>1
    <3>2. \A k \in S : ~(l + 1 <= k)
      BY <1>1, <3>1
    <3>3. \A j \in T : j <= l + 1
      BY <1>1, <2>1, <3>1
    <3>4. QED BY <2>1, <3>2, <3>3
  <2>4. \A k \in S : /\ Cardinality({j \in S : j <= k}) \in Nat
                     /\ Cardinality({j \in S : j <= k}) <= c
    <3>1. SUFFICES ASSUME NEW k \in S
                   PROVE  /\ Cardinality({j \in S : j <= k}) \in Nat
                          /\ Cardinality({j \in S : j <= k}) <= c
      OBVIOUS
    <3>2. {j \in S : j <= k} \in SUBSET S
      OBVIOUS
    <3>3. QED BY <1>1, <3>2, FS_Subset, FS_CardinalityType DEF c
  <2>5. At(T, c + 1) = {l + 1}
    <3>1. \A k \in S : Cardinality({j \in T : j <= k}) # c + 1
      BY <1>1, <2>3, <2>4
    <3>2. Cardinality({j \in T : j <= l + 1}) = c + 1
      BY <2>2, <2>3
    <3>3. QED BY <2>1, <3>1, <3>2
  <2>6. NthEntry(p, c + 1) = x
    <3>1. {p[k] : k \in At(T, c + 1)} = {p[l + 1]}
      BY <2>5
    <3>2. p[l + 1] = x
      BY <1>1
    <3>3. QED BY <1>2, <3>1, <3>2
  <2>7. ASSUME NEW n \in 1..c
        PROVE  NthEntry(p, n) = NthEntry(o, n)
    <3>1. At(T, n) = At(S, n)
      <4>1. Cardinality({j \in T : j <= l + 1}) # n
        <5>1. Cardinality({j \in T : j <= l + 1}) = c + 1
          BY <2>2, <2>3
        <5>2. c + 1 # n
          BY <1>1, <2>7
        <5>3. QED BY <5>1, <5>2
      <4>2. \A k \in S :
              Cardinality({j \in T : j <= k}) = Cardinality({j \in S : j <= k})
        BY <2>3
      <4>3. QED BY <2>1, <4>1, <4>2
    <3>2. \A k \in At(S, n) : p[k] = o[k]
      BY <1>1
    <3>3. {p[k] : k \in At(T, n)} = {o[k] : k \in At(S, n)}
      BY <3>1, <3>2
    <3>4. QED BY <1>2, <3>3
  <2>8. Append(Entries(o), x) = Entries(p)
    <3> DEFINE E == {NthEntry(o, n) : n \in 1..c} \cup {x}
               s == [n \in 1..c |-> NthEntry(o, n)]
               t == [n \in 1..(c + 1) |-> NthEntry(p, n)]
    <3>1. s \in Seq(E) /\ Len(s) = c
      BY <1>1
    <3>2. \A n \in 1..c : s[n] = t[n]
      BY <1>1, <2>7
    <3>3. t[c + 1] = x
      BY <1>1, <2>6
    <3>4. Entries(o) = s /\ Entries(p) = t
      BY <1>3, <2>2
    <3>5. x \in E /\ t \in Seq(E) /\ Len(t) = c + 1
      <4>1. \A n \in 1..(c + 1) : n \in 1..c \/ n = c + 1
        BY <1>1
      <4>2. \A n \in 1..(c + 1) : t[n] \in E
        BY <2>6, <2>7, <4>1
      <4>3. x \in E
        OBVIOUS
      <4>4. DOMAIN t = 1..(c + 1) /\ t = [n \in 1..(c + 1) |-> t[n]]
        OBVIOUS
      <4> HIDE DEF t, E
      <4>5. t \in Seq(E) /\ Len(t) = c + 1
        <5>1. PICK m \in Nat : m = c + 1
          BY <1>1
        <5>2. t \in [1..m -> E]
          BY <4>2, <4>4, <5>1
        <5>3. QED BY <5>1, <5>2
      <4>6. QED BY <4>3, <4>5
    <3> HIDE DEF s, t, E
    <3>6. Append(s, x) = t
      <4>1. /\ Append(s, x) \in Seq(E) /\ Len(Append(s, x)) = c + 1
            /\ \A n \in 1..(c + 1) :
                 Append(s, x)[n] = IF n <= c THEN s[n] ELSE x
        BY <3>1, <3>5, AppendProperties
      <4>2. ASSUME NEW n \in 1..(c + 1) PROVE Append(s, x)[n] = t[n]
        <5>1. CASE n = c + 1
          BY <1>1, <3>3, <4>1, <5>1
        <5>2. CASE n # c + 1
          <6>1. n \in 1..c /\ n <= c
            BY <1>1, <5>2
          <6>2. QED BY <3>2, <4>1, <6>1
        <5>3. QED BY <5>1, <5>2
      <4>3. QED BY <3>5, <4>1, <4>2, SeqEqual
    <3>7. QED BY <3>4, <3>6
  <2>9. QED BY <1>5, <2>8 DEF p
<1>6. QED BY <1>4, <1>5

\* The saved frames as a sequence.
LEMMA FramesTyped ==
  ASSUME NEW s \in Frames
  PROVE  /\ s.top \in -1..MaxFrames - 1 /\ s.capacity = MaxFrames
         /\ s.data \in Array(LogFrame, MaxFrames)
         /\ Elements(s) \in Seq(LogFrame) /\ Len(Elements(s)) = s.top + 1
<1>1. /\ s.top \in -1..MaxFrames - 1 /\ s.capacity = MaxFrames
      /\ s.data \in Array(LogFrame, MaxFrames) /\ s.top + 1 \in Nat
  BY BoundsAssumption DEF Frames
<1>2. \A k \in 1..s.top + 1 : s.data[k - 1] \in LogFrame
  BY <1>1, BoundsAssumption DEF Array
<1>3. QED BY <1>1, <1>2 DEF Elements

\* LOG_PushFrame appends the settings to the frames.
LEMMA PushAppends ==
  ASSUME NEW s \in Frames, NEW v \in LogFrame, ~Stack_Full(s),
         Pushed(s, v) \in Frames
  PROVE  /\ Elements(Pushed(s, v)) = Append(Elements(s), v)
         /\ Len(Elements(s)) < MaxFrames
<1> DEFINE u == Pushed(s, v)
<1>1. /\ s.top \in -1..MaxFrames - 1 /\ s.capacity = MaxFrames
      /\ MaxFrames \in Nat /\ s.data \in Array(LogFrame, MaxFrames)
      /\ Elements(s) \in Seq(LogFrame) /\ Len(Elements(s)) = s.top + 1
  BY FramesTyped, BoundsAssumption
<1>2. s.top + 1 \in 0..MaxFrames - 1
  BY <1>1 DEF Stack_Full
<1>3. u.top = s.top + 1 /\ u.data = [s.data EXCEPT ![s.top + 1] = v]
  BY DEF Pushed
<1> HIDE DEF u
<1>4. /\ Elements(u) \in Seq(LogFrame) /\ Len(Elements(u)) = s.top + 2
  BY <1>1, <1>3, FramesTyped DEF u
<1>5. /\ Append(Elements(s), v) \in Seq(LogFrame)
      /\ Len(Append(Elements(s), v)) = s.top + 2
  BY <1>1
<1>6. ASSUME NEW k \in 1..s.top + 2
      PROVE  Elements(u)[k] = Append(Elements(s), v)[k]
  <2>1. Elements(u)[k] = u.data[k - 1]
    BY <1>1, <1>3, <1>6 DEF Elements
  <2>2. CASE k = s.top + 2
    BY <1>1, <1>2, <1>3, <2>1, <2>2 DEF Array
  <2>3. CASE k \in 1..s.top + 1
    <3>1. k - 1 \in 0..MaxFrames - 1 /\ k - 1 # s.top + 1
      BY <1>1, <2>3
    <3>2. u.data[k - 1] = s.data[k - 1]
      BY <1>1, <1>3, <3>1 DEF Array
    <3>3. Elements(s)[k] = s.data[k - 1]
      BY <2>3 DEF Elements
    <3>4. Append(Elements(s), v)[k] = Elements(s)[k]
      BY <1>1, <2>3
    <3>5. QED BY <2>1, <3>2, <3>3, <3>4
  <2>4. QED BY <1>1, <2>2, <2>3
<1>7. Elements(u) = Append(Elements(s), v)
  BY <1>4, <1>5, <1>6, SeqEqual
<1>8. QED BY <1>1, <1>2, <1>7 DEF u

\* LOG_PopFrame takes away the last frame.
LEMMA PopShortens ==
  ASSUME NEW s \in Frames, ~Stack_Empty(s), Popped(s) \in Frames
  PROVE  /\ Elements(Popped(s)) =
              SubSeq(Elements(s), 1, Len(Elements(s)) - 1)
         /\ Elements(s) # <<>>
         /\ TopOf(s) = Elements(s)[Len(Elements(s))]
<1> DEFINE u == Popped(s)
<1>1. /\ s.top \in 0..MaxFrames - 1
      /\ Elements(s) \in Seq(LogFrame) /\ Len(Elements(s)) = s.top + 1
  BY FramesTyped, BoundsAssumption DEF Stack_Empty
<1>2. u.top = s.top - 1 /\ u.data = s.data
  BY DEF Popped, Frames
<1> HIDE DEF u
<1>3. Elements(u) \in Seq(LogFrame) /\ Len(Elements(u)) = s.top
  BY <1>1, <1>2, FramesTyped DEF u
<1>4. /\ SubSeq(Elements(s), 1, s.top) \in Seq(LogFrame)
      /\ Len(SubSeq(Elements(s), 1, s.top)) = s.top
      /\ \A k \in 1..s.top :
           SubSeq(Elements(s), 1, s.top)[k] = Elements(s)[k]
  BY <1>1, SubSeqProperties
<1>5. \A k \in 1..s.top : Elements(u)[k] = Elements(s)[k]
  BY <1>1, <1>2 DEF Elements
<1>6. Elements(u) = SubSeq(Elements(s), 1, s.top)
  BY <1>3, <1>4, <1>5, SeqEqual
<1>7. Len(Elements(s)) - 1 = s.top /\ Len(Elements(s)) \in 1..s.top + 1
  BY <1>1
<1>8. Elements(s)[Len(Elements(s))] = s.data[s.top]
  BY <1>1, <1>7 DEF Elements
<1>9. QED BY <1>1, <1>6, <1>7, <1>8 DEF u, TopOf

\* The frames are full or empty when the array is.
LEMMA FramesEnd ==
  ASSUME NEW s \in Frames
  PROVE  /\ Stack_Full(s) => Len(Elements(s)) = MaxFrames
         /\ Stack_Empty(s) => Elements(s) = <<>>
<1>1. /\ s.top \in -1..MaxFrames - 1 /\ s.capacity = MaxFrames
      /\ MaxFrames \in Nat
      /\ Elements(s) \in Seq(LogFrame) /\ Len(Elements(s)) = s.top + 1
  BY FramesTyped, BoundsAssumption
<1>2. Stack_Full(s) => Len(Elements(s)) = MaxFrames
  BY <1>1 DEF Stack_Full
<1>3. Stack_Empty(s) => Elements(s) = <<>>
  BY <1>1 DEF Stack_Empty
<1>4. QED BY <1>2, <1>3

\* A write that adds an entry, and one that adds none.
LEMMA WriteEntries ==
  ASSUME TypeOK, NEW f \in Streams, NEW t \in Threads, NEW part \in Parts,
         output' = [output EXCEPT ![f] = Append(@, <<t, part>>)]
  PROVE  [g \in Streams |-> Entries(output'[g])] =
           IF part \in {"head", "print", "error"}
             THEN [[g \in Streams |-> Entries(output[g])] EXCEPT
                     ![f] = Append(@, <<t, part>>)]
             ELSE [g \in Streams |-> Entries(output[g])]
<1>1. /\ output[f] \in Seq(Part) /\ <<t, part>> \in Part
      /\ output'[f] = Append(output[f], <<t, part>>)
      /\ \A g \in Streams : g # f => output'[g] = output[g]
  BY DEF TypeOK, Part
<1>2. Entries(output'[f]) =
        IF part \in {"head", "print", "error"}
          THEN Append(Entries(output[f]), <<t, part>>)
          ELSE Entries(output[f])
  <2>1. PICK x \in Part : x = <<t, part>>
    BY <1>1
  <2>2. x[2] = part
    BY <2>1
  <2>3. Entries(Append(output[f], x)) =
          IF x[2] \in {"head", "print", "error"}
            THEN Append(Entries(output[f]), x) ELSE Entries(output[f])
    BY <1>1, EntriesAppend
  <2>4. QED BY <1>1, <2>1, <2>2, <2>3
<1> DEFINE before == [g \in Streams |-> Entries(output[g])]
           after  == [g \in Streams |-> Entries(output'[g])]
<1>3. \A g \in Streams : after[g] = IF g = f THEN Entries(output'[f])
                                             ELSE before[g]
  BY <1>1
<1>4. CASE part \in {"head", "print", "error"}
  <2>1. after[f] = Append(before[f], <<t, part>>)
    BY <1>2, <1>4
  <2>2. after = [before EXCEPT ![f] = Append(@, <<t, part>>)]
    <3>1. DOMAIN before = Streams /\ after = [g \in Streams |-> after[g]]
      OBVIOUS
    <3> HIDE DEF before, after
    <3>2. QED BY <1>3, <2>1, <3>1
  <2>3. QED BY <1>4, <2>2
<1>5. CASE part \notin {"head", "print", "error"}
  <2>1. \A g \in Streams : Entries(output'[g]) = Entries(output[g])
    BY <1>1, <1>2, <1>5
  <2>2. QED BY <1>5, <2>1
<1>6. QED BY <1>4, <1>5

\* The places of the threads other than t, and what is seen of them.
LEMMA DoneStep ==
  ASSUME TypeOK, NEW t \in Threads,
         \A u \in Threads : u # t => pc'[u] = pc[u] /\ call'[u] = call[u]
  PROVE  /\ pc'[t] \notin {"idle", "lock", "body"} => Done' = Done \cup {t}
         /\ pc'[t] \in {"idle", "lock", "body"} => Done' = Done \ {t}
         /\ t \in Dying' => Dying' = Dying \cup {t}
         /\ t \notin Dying' => Dying' = Dying \ {t}
<1>1. \A u \in Threads : u # t => (u \in Done' <=> u \in Done)
  BY DEF Done
<1>2. t \in Done' <=> pc'[t] \notin {"idle", "lock", "body"}
  BY DEF Done
<1>3. \A u \in Threads : u # t => (u \in Dying' <=> u \in Dying)
  BY <1>1 DEF Dying
<1>4. Done \subseteq Threads /\ Done' \subseteq Threads
  BY DEF Done
<1>5. Dying \subseteq Threads /\ Dying' \subseteq Threads
  BY <1>4 DEF Dying
<1>6. QED BY <1>1, <1>2, <1>3, <1>4, <1>5

\* A call that does its work in one step, without a fatal message.
LEMMA Effective ==
  ASSUME IInv, NEW t \in Threads, pc[t] = "body",
         pc' = [pc EXCEPT ![t] = "unlock"], call' = call
  PROVE  t \notin Done /\ Done' = Done \cup {t} /\ Dying' = Dying
<1>1. TypeOK /\ pc'[t] = "unlock" /\ t \notin Done /\ t \notin Dying
  BY DEF IInv, TypeOK, Done, Dying
<1>2. \A u \in Threads : u # t => pc'[u] = pc[u] /\ call'[u] = call[u]
  BY <1>1 DEF TypeOK
<1>3. t \notin Dying'
  BY <1>1 DEF Dying
<1>4. QED BY <1>1, <1>2, <1>3, DoneStep

\* A step of a thread within a message is no step of Logger.
LEMMA WithinMessage ==
  ASSUME IInv, NEW t \in Threads, EmitText(t) \/ EmitReset(t) \/ EmitNewline(t)
  PROVE  UNCHANGED Interface!loggerVars
<1>1. TypeOK /\ WriterInv /\ PlacesInv
  BY DEF IInv
<1>2. /\ UNCHANGED <<settings, log_stack, process, call, answer>>
      /\ pc[t] \in {"text", "reset", "newline"}
  BY DEF EmitText, EmitReset, EmitNewline
<1>3. PICK part \in {"text", "reset", "newline"} : Write(t, part)
  BY DEF EmitText, EmitReset, EmitNewline
<1>4. settings.stream \in Streams
  BY <1>1, <1>2 DEF TypeOK, WriterInv, LogFrame
<1>5. [f \in Streams |-> Entries(output'[f])] =
        [f \in Streams |-> Entries(output[f])]
  <2>1. output' = [output EXCEPT ![settings.stream] = Append(@, <<t, part>>)]
    BY <1>2, <1>3 DEF Write
  <2>2. part \in Parts /\ part \notin {"head", "print", "error"}
    BY <1>3 DEF Parts
  <2>3. QED BY <1>1, <1>4, <2>1, <2>2, WriteEntries
<1>6. /\ \A u \in Threads : u # t => pc'[u] = pc[u]
      /\ pc'[t] \in {"reset", "newline", "unlock", "unlock fatal"}
      /\ pc'[t] = "unlock" => call[t].level # LOG_FATAL
  BY <1>1 DEF EmitText, EmitReset, EmitNewline, EmitEnd, Goto, TypeOK
<1>7. /\ t \in Done /\ t \in Done'
      /\ t \in Dying <=> t \in Dying'
  BY <1>1, <1>2, <1>6 DEF Done, Dying
<1>8. Done' = Done /\ Dying' = Dying
  <2>1. \A u \in Threads : u # t => pc'[u] = pc[u] /\ call'[u] = call[u]
    BY <1>2, <1>6
  <2>2. pc'[t] \notin {"idle", "lock", "body"}
    BY <1>6
  <2>3. QED BY <1>1, <1>7, <2>1, <2>2, DoneStep
<1>9. QED BY <1>2, <1>5, <1>8 DEF Interface!loggerVars

\* Setting, getting, saving and restoring are steps of Logger.
LEMMA SettingsRefine ==
  ASSUME IInv, process = "runs", NEW t \in Threads,
         Set(t) \/ Get(t) \/ PushFrame(t) \/ PopFrame(t) \/ FrameError(t)
  PROVE  Interface!Next
<1>1. TypeOK /\ pc[t] = "body" /\ log_stack \in Frames
      /\ settings \in LogFrame
  BY DEF IInv, TypeOK, Frames, Set, Get, PushFrame, PopFrame, FrameError, In
<1>2. CASE Set(t)
  <2>1. /\ t \notin Done /\ Done' = Done \cup {t} /\ Dying' = Dying
    BY <1>1, <1>2, Effective DEF Set, Goto
  <2>2. Interface!Set(t)
    BY <1>2, <2>1 DEF Set, In, Interface!Set, Interface!Effect
  <2>3. QED BY <2>2 DEF Interface!Next
<1>3. CASE Get(t)
  <2>1. /\ t \notin Done /\ Done' = Done \cup {t} /\ Dying' = Dying
    BY <1>1, <1>3, Effective DEF Get, Goto
  <2>2. Interface!Get(t)
    BY <1>3, <2>1 DEF Get, In, shared, Interface!Get, Interface!Effect
  <2>3. QED BY <2>2 DEF Interface!Next
<1>4. CASE PushFrame(t)
  <2>1. /\ t \notin Done /\ Done' = Done \cup {t} /\ Dying' = Dying
    BY <1>1, <1>4, Effective DEF PushFrame, Goto
  <2>2. /\ Elements(log_stack)' = Append(Elements(log_stack), settings)
        /\ Len(Elements(log_stack)) < MaxFrames
    <3>1. ~Stack_Full(log_stack) /\ log_stack' = Pushed(log_stack, settings)
      BY <1>4 DEF PushFrame
    <3>2. Pushed(log_stack, settings) \in Frames
      BY <3>1, PushTyped
    <3>3. QED BY <1>1, <3>1, <3>2, PushAppends
  <2>3. Interface!PushFrame(t)
    BY <1>4, <2>1, <2>2
       DEF PushFrame, In, Interface!PushFrame, Interface!Effect
  <2>4. QED BY <2>3 DEF Interface!Next
<1>5. CASE PopFrame(t)
  <2>1. /\ t \notin Done /\ Done' = Done \cup {t} /\ Dying' = Dying
    BY <1>1, <1>5, Effective DEF PopFrame, Goto
  <2>2. /\ Elements(log_stack)' =
             SubSeq(Elements(log_stack), 1, Len(Elements(log_stack)) - 1)
        /\ Elements(log_stack) # <<>>
        /\ settings' = Elements(log_stack)[Len(Elements(log_stack))]
    <3>1. /\ ~Stack_Empty(log_stack) /\ log_stack' = Popped(log_stack)
          /\ settings' = TopOf(log_stack)
      BY <1>5 DEF PopFrame
    <3>2. Popped(log_stack) \in Frames
      BY <3>1, PopTyped
    <3>3. QED BY <1>1, <3>1, <3>2, PopShortens
  <2>3. Interface!PopFrame(t)
    BY <1>5, <2>1, <2>2
       DEF PopFrame, In, Interface!PopFrame, Interface!Effect
  <2>4. QED BY <2>3 DEF Interface!Next
<1>6. CASE FrameError(t)
  <2>1. /\ t \notin Done
        /\ UNCHANGED <<settings, log_stack, call, answer, pc>>
        /\ process' = "aborted"
        /\ output' = [output EXCEPT ![stderr] = Append(@, <<t, "error">>)]
    BY <1>1, <1>6 DEF FrameError, Done
  <2>2. Done' = Done /\ Dying' = Dying
    BY <2>1 DEF Done, Dying
  <2>3. [f \in Streams |-> Entries(output'[f])] =
          [[f \in Streams |-> Entries(output[f])] EXCEPT
             ![stderr] = Append(@, <<t, "error">>)]
    <3>1. stderr \in Streams /\ "error" \in Parts
      BY StreamsAssumption DEF Parts
    <3>2. QED BY <1>1, <2>1, <3>1, WriteEntries
  <2>4. \/ /\ call[t].name = "LOG_PushFrame"
           /\ Len(Elements(log_stack)) = MaxFrames
        \/ call[t].name = "LOG_PopFrame" /\ Elements(log_stack) = <<>>
    BY <1>1, <1>6, FramesEnd DEF FrameError, In
  <2>5. Interface!FrameError(t)
    BY <2>1, <2>2, <2>3, <2>4 DEF Interface!FrameError, Interface!Entry
  <2>6. QED BY <2>5 DEF Interface!Next
<1>7. QED BY <1>2, <1>3, <1>4, <1>5, <1>6

\* Printing, and the head of a message, are steps of Logger; so is finding
\* that there is nothing to print.
LEMMA OutputRefines ==
  ASSUME IInv, process = "runs", NEW t \in Threads,
         \/ PrintNothing(t) \/ PrintText(t) \/ PrintNowhere(t)
         \/ EmitNothing(t) \/ EmitHead(t)
  PROVE  Interface!Next
<1>1. /\ TypeOK /\ PlacesInv /\ pc[t] = "body" /\ settings \in LogFrame
      /\ t \notin Done /\ call[t] \in Calls
  BY DEF IInv, TypeOK, PlacesInv, PrintNothing, PrintText, PrintNowhere,
         EmitNothing, EmitHead, In, Done
<1>2. CASE PrintNothing(t)
  <2>1. Done' = Done \cup {t} /\ Dying' = Dying
    BY <1>1, <1>2, Effective DEF PrintNothing, Goto
  <2>2. Interface!PrintText(t)
    BY <1>1, <1>2, <2>1
       DEF PrintNothing, In, shared, Interface!PrintText, Interface!Effect
  <2>3. QED BY <2>2 DEF Interface!Next
<1>3. CASE PrintText(t)
  <2>1. Done' = Done \cup {t} /\ Dying' = Dying
    BY <1>1, <1>3, Effective DEF PrintText, Goto
  <2>2. [f \in Streams |-> Entries(output'[f])] =
          [[f \in Streams |-> Entries(output[f])] EXCEPT
             ![settings.stream] = Append(@, <<t, "print">>)]
    <3>1. settings.stream \in Streams /\ "print" \in Parts
      BY <1>1, <1>3 DEF PrintText, LogFrame, Parts
    <3>2. output' = [output EXCEPT ![settings.stream] =
                       Append(@, <<t, "print">>)]
      BY <1>3 DEF PrintText, Write
    <3>3. QED BY <1>1, <3>1, <3>2, WriteEntries
  <2>3. Interface!PrintText(t)
    BY <1>1, <1>3, <2>1, <2>2
       DEF PrintText, In, Interface!PrintText, Interface!Effect,
           Interface!Entry
  <2>4. QED BY <2>3 DEF Interface!Next
<1>4. CASE PrintNowhere(t)
  <2>1. Done' = Done /\ Dying' = Dying
    BY <1>4 DEF PrintNowhere, Done, Dying
  <2>2. Interface!PrintNowhere(t)
    BY <1>1, <1>4, <2>1 DEF PrintNowhere, In, Interface!PrintNowhere
  <2>3. QED BY <2>2 DEF Interface!Next
<1>5. /\ call[t].name = "LOG_Emit" => call[t].level \in Levels
      /\ settings.level \in Levels /\ Levels \subseteq Nat
  BY <1>1, LevelsAssumption DEF Calls, LogFrame
<1>6. call[t].name = "LOG_Emit" =>
        (Wanted(call[t].level) <=> ~Interface!Ignored(call[t].level))
  <2>1. SUFFICES ASSUME NEW l \in Nat, l = call[t].level
                 PROVE  Wanted(l) <=> ~Interface!Ignored(l)
    BY <1>5
  <2>2. settings.level \in Nat
    BY <1>5
  <2>3. QED BY <2>2 DEF Wanted, Interface!Ignored
<1>7. CASE EmitNothing(t)
  <2>1. Done' = Done \cup {t} /\ Dying' = Dying
    BY <1>1, <1>7, Effective DEF EmitNothing, Goto
  <2>2. Interface!Ignored(call[t].level)
    BY <1>6, <1>7 DEF EmitNothing, In
  <2>3. Interface!Ignore(t)
    BY <1>1, <1>7, <2>1, <2>2
       DEF EmitNothing, In, shared, Interface!Ignore, Interface!Effect
  <2>4. QED BY <2>3 DEF Interface!Next
<1>8. CASE EmitHead(t)
  <2>1. /\ call[t].name = "LOG_Emit" /\ ~Interface!Ignored(call[t].level)
        /\ pc' = [pc EXCEPT ![t] = "text"]
        /\ UNCHANGED <<log_stack, process, call, answer>>
        /\ settings' = [settings EXCEPT !.stream =
                          IF @ = NULL THEN stderr ELSE @]
        /\ output' = [output EXCEPT ![settings'.stream] =
                        Append(@, <<t, "head">>)]
    BY <1>6, <1>8 DEF EmitHead, In, Goto, Write
  <2>2. settings' = IF settings.stream = NULL
                      THEN [settings EXCEPT !.stream = stderr] ELSE settings
    BY <1>1, <2>1 DEF LogFrame
  <2>3. settings'.stream \in Streams
    BY <1>1, <2>2, StreamsAssumption DEF LogFrame
  <2>4. [f \in Streams |-> Entries(output'[f])] =
          [[f \in Streams |-> Entries(output[f])] EXCEPT
             ![settings'.stream] = Append(@, <<t, "head">>)]
    <3>1. "head" \in Parts
      BY DEF Parts
    <3>2. PICK h \in Streams : h = settings'.stream
      BY <2>3
    <3>3. output' = [output EXCEPT ![h] = Append(@, <<t, "head">>)]
      BY <2>1, <3>2
    <3>4. QED BY <1>1, <3>1, <3>2, <3>3, WriteEntries
  <2>5. /\ pc'[t] = "text"
        /\ \A u \in Threads : u # t => pc'[u] = pc[u] /\ call'[u] = call[u]
    BY <1>1, <2>1 DEF TypeOK
  <2>6. t \in Dying' <=> call[t].level = LOG_FATAL
    BY <2>1, <2>5 DEF Dying, Done
  <2>7. t \notin Dying
    BY <1>1 DEF Dying
  <2>8. /\ Done' = Done \cup {t}
        /\ Dying' = IF call[t].level = LOG_FATAL THEN Dying \cup {t}
                                                 ELSE Dying
    BY <1>1, <2>5, <2>6, <2>7, DoneStep
  <2>9. Interface!Emit(t)
    BY <1>1, <2>1, <2>2, <2>4, <2>8
       DEF Interface!Emit, Interface!Effect, Interface!Entry
  <2>10. QED BY <2>9 DEF Interface!Next
<1>9. QED BY <1>2, <1>3, <1>4, <1>7, <1>8

\* Beginning and ending a call are steps of Logger, and so is the abort after
\* a fatal message; taking the mutex is none.
LEMMA CallRefines ==
  ASSUME IInv, process = "runs", NEW t \in Threads,
         Call(t) \/ Lock(t) \/ Unlock(t) \/ Abort(t)
  PROVE  Interface!Next \/ UNCHANGED Interface!loggerVars
<1>1. TypeOK /\ PlacesInv
  BY DEF IInv
<1>2. CASE Call(t)
  <2>1. PICK c \in Calls : call' = [call EXCEPT ![t] = c]
    BY <1>2 DEF Call
  <2>2. call[t] = NoCall
    BY <1>1, <1>2 DEF PlacesInv, Call
  <2>3. pc'[t] = "lock" /\ pc[t] = "idle"
        /\ \A u \in Threads : u # t => pc'[u] = pc[u] /\ call'[u] = call[u]
    BY <1>1, <1>2, <2>1 DEF Call, Goto, TypeOK
  <2>4. t \notin Done /\ t \notin Dying /\ t \notin Dying'
    BY <2>3 DEF Done, Dying
  <2>5. Done' = Done /\ Dying' = Dying
    BY <1>1, <2>3, <2>4, DoneStep
  <2>6. Interface!Invoke(t)
    BY <1>2, <2>1, <2>2, <2>5 DEF Call, shared, Interface!Invoke
  <2>7. QED BY <2>6 DEF Interface!Next
<1>3. CASE Lock(t)
  <2>1. pc'[t] = "body" /\ pc[t] = "lock"
        /\ \A u \in Threads : u # t => pc'[u] = pc[u] /\ call'[u] = call[u]
    BY <1>1, <1>3 DEF Lock, Goto, TypeOK
  <2>2. t \notin Done /\ t \notin Dying /\ t \notin Dying'
    BY <2>1 DEF Done, Dying
  <2>3. Done' = Done /\ Dying' = Dying
    BY <1>1, <2>1, <2>2, DoneStep
  <2>4. QED BY <1>3, <2>3 DEF Lock, shared, Interface!loggerVars
<1>4. CASE Unlock(t) /\ pc[t] = "unlock"
  <2>1. /\ pc'[t] = "idle" /\ call' = [call EXCEPT ![t] = NoCall]
        /\ UNCHANGED <<shared, answer>>
        /\ \A u \in Threads : u # t => pc'[u] = pc[u] /\ call'[u] = call[u]
    BY <1>1, <1>4 DEF Unlock, Goto, TypeOK
  <2>2. t \in Done /\ t \notin Dying /\ t \notin Dying'
    BY <1>4, <2>1 DEF Done, Dying
  <2>3. Done' = Done \ {t} /\ Dying' = Dying
    BY <1>1, <2>1, <2>2, DoneStep
  <2>4. Interface!Return(t)
    BY <2>1, <2>2, <2>3 DEF shared, Interface!Return
  <2>5. QED BY <2>4 DEF Interface!Next
<1>5. CASE Unlock(t) /\ pc[t] = "unlock fatal"
  <2>1. /\ pc'[t] = "abort" /\ UNCHANGED <<shared, answer, call>>
        /\ \A u \in Threads : u # t => pc'[u] = pc[u] /\ call'[u] = call[u]
    BY <1>1, <1>5 DEF Unlock, Goto, TypeOK
  <2>2. t \in Done /\ t \in Dying /\ t \in Dying'
    BY <1>1, <1>5, <2>1 DEF Done, Dying, PlacesInv
  <2>3. Done' = Done /\ Dying' = Dying
    BY <1>1, <2>1, <2>2, DoneStep
  <2>4. QED BY <2>1, <2>3 DEF shared, Interface!loggerVars
<1>6. CASE Abort(t)
  <2>1. t \in Dying
    BY <1>1, <1>6 DEF Abort, Done, Dying, PlacesInv
  <2>2. Done' = Done /\ Dying' = Dying
    BY <1>6 DEF Abort, Done, Dying
  <2>3. Interface!Die(t)
    BY <1>6, <2>1, <2>2 DEF Abort, Interface!Die
  <2>4. QED BY <2>3 DEF Interface!Next
<1>7. QED BY <1>2, <1>3, <1>4, <1>5, <1>6 DEF Unlock

\* Linearizable of Log: threads see what log.h promises, whatever they
\* interleave.
THEOREM Linearizability == Spec => Linearizable
<1>1. Init => Interface!Init
  <2>1. SUFFICES ASSUME Init PROVE Interface!Init
    OBVIOUS
  <2>2. log_stack.top = -1
    BY <2>1 DEF Init, NewStack
  <2>3. Elements(log_stack) = <<>>
    BY <2>2 DEF Elements
  <2>4. [f \in Streams |-> Entries(output[f])] = [f \in Streams |-> <<>>]
    <3>1. \A f \in Streams : output[f] = <<>>
      BY <2>1 DEF Init
    <3>2. Entries(<<>>) = <<>>
      <4>1. EntriesAt(<<>>) = {}
        BY DEF EntriesAt
      <4>2. Entries(<<>>) = [n \in 1..0 |-> NthEntry(<<>>, n)]
        BY <4>1, FS_EmptySet DEF Entries
      <4>3. \A n \in 1..0 : FALSE
        OBVIOUS
      <4>4. [n \in 1..0 |-> NthEntry(<<>>, n)] = <<>>
        BY <4>3
      <4>5. QED BY <4>2, <4>4
    <3>3. QED BY <3>1, <3>2
  <2>5. Done = {} /\ Dying = {}
    BY <2>1 DEF Init, Done, Dying
  <2>6. QED BY <2>1, <2>3, <2>4, <2>5 DEF Init, Interface!Init
<1>2. IInv /\ [Next]_vars => [Interface!Next]_(Interface!loggerVars)
  <2> SUFFICES ASSUME IInv, [Next]_vars
               PROVE  Interface!Next \/ UNCHANGED Interface!loggerVars
    OBVIOUS
  <2>1. ASSUME process = "runs", NEW t \in Threads, Call(t) \/ Continue(t)
        PROVE  Interface!Next \/ UNCHANGED Interface!loggerVars
    BY <2>1, CallRefines, SettingsRefine, OutputRefines, WithinMessage
       DEF Continue
  <2>2. CASE UNCHANGED vars
    BY <2>2 DEF vars, shared, Done, Dying, Interface!loggerVars
  <2>3. QED BY <2>1, <2>2 DEF Next, Stopped
<1>3. QED BY <1>1, <1>2, Invariance, PTL
             DEF Spec, Linearizable, Interface!Spec

=============================================================================
