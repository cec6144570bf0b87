# A TLA+ model of cryptone

cryptone is a small C library: AES in ECB, CBC and CTR mode in a portable and
an AES-NI build, a registry of padders, and the utilities both rest on (a
thread-safe queue, a stack, a logger, a test runner). This directory holds TLA+
specifications of it, the TLC configurations that check them on small instances
and TLAPS proofs of their main properties for all instances.

Paths below are relative to the root of the repository.

## The system

| Component | State | Operations | Interacts with |
| --- | --- | --- | --- |
| Thread-safe queue, `queue/aqueue.c` | `front`, `rear`, the nodes on the heap, one mutex | `AQ_Init`, `AQ_Enqueue`, `AQ_Dequeue`, `AQ_Peek`, `AQ_Empty`, `AQ_Destroy` | used by the registry and the test runner |
| Sequential queue, `queue/queue.c` | the same without a mutex | `Q_...`, the same | its tests only |
| Stack, `stack/stack.c` | an array, `top`, `capacity` | `Stack_Init`, `Push`, `Pop`, `Peek`, `Empty`, `Full`, `Size`, `Destroy` | holds the frames of the logger |
| Logger, `log/log.c` | four settings, the stack of saved settings, one mutex, the streams | setters and getters, `LOG_PushFrame`, `LOG_PopFrame`, `LOG_printf`, `LOG_Emit` | stdio, `error/error.c`; used by tests and `etc/main.c` |
| Error reporting, `error/error.c` | none | `ferroratf` and its relatives: write, then `abort` | logger, AES contexts |
| Padder registry, `padding/padbus.c` | the table `g_padders`, the queue `g_pending_padders` | `PAD_Register` (at once or deferred), `PAD_Dequeue`, `PAD_Find`, `PAD_Get...`, `PAD_Unregister` | the queue; filled by constructors of the padders |
| Padders, `padding/pkcs7.c`, `padding/x923.c` | none | `bound` and `process`, each for padding and unpadding | registered as callbacks; used before the block modes |
| AES block modes, `aes/*/ecb.c`, `aes/*/cbc.c` | the caller's `iv` and buffers | `AES_Context_ECB_...`, `AES_Context_CBC_...` | the block cipher |
| AES counter mode, `aes/*/ctr.c` | the caller's nonce | `AES_Context_CTR_Encrypt` | the block cipher |
| AES context and key schedule, `aes/wcontext.c`, `aes/ni/context.c`, `aes/*/impl.c` | the round keys and their number | `Create`, `Init`, `FlushInit`, `Flush`, `Destroy` | read by the block functions |
| AES block cipher, `aes/*/block.c`, `aes/generic/impl.c`, `aes/generic/helpers.c`, `include/cryptone/aes.h` | none | `EncryptBlock`, `DecryptBlock` | the context, the modes |
| Build selection: `Makefile`, weak symbols, `aes/waes.c` | which definition of a function is linked | the linker | all of `aes/`, `wunit/` |
| Test runner, `unit/unit.c`, `wunit/wunit.c`, `etc/main.c` | a queue of tests | `UT_Register`, `UT_RunAll`, `UT_BasicAssert` | the queue; tests register in constructors |
| Process start and exit | | constructors by priority (102 logger and registry, 103 tests, 105 padders, 150 and 200 tests, 32767 `PAD_Dequeue`), destructors | all of the above |

What is hard in this code, and where it is listed (`PROJECT.json`, `hazards`):

- *Concurrency.* The queue and the logger are shared by threads. The queue
  updates two words and frees outside of its mutex; a log message is four or
  five writes.
- *Order.* Constructors defer registrations to a queue that the last
  constructor empties; the first of two padders with one name wins; decryption
  in place overwrites what the next block still needs.
- *Two builds of one cipher.* They keep the round keys in words and in
  registers, and decrypt with different round keys; a wrong schedule still
  decrypts what it has encrypted, so a test of a build against itself sees
  nothing. Which build a program has is left to the linker and the order of the
  files it reads.
- *Stale state.* Frames of the logger may bring back a null stream; ids and
  pointers into the table outlive an unregistration; the two builds of CTR
  disagree on what a call leaves in the nonce.
- *Limits.* A stack that is full, or of capacity 0; a table that fills up in
  the middle of `PAD_Dequeue`; the carry of a counter; a padding length that
  does not fit in a byte, or is longer than the data; a partial last block.
- *Failure.* `malloc` may fail; `AQ_Enqueue` then exits, `PAD_Register`
  answers -1; frames that over- or underflow abort.

What makes each component correct:

- queue: it is a linearizable FIFO queue, its list is intact whenever the mutex
  is free, nothing leaks or is used after `free`, the mutex is always released;
- stack: it is a bounded LIFO store;
- logger: calls are atomic, messages are not torn, a stream once set stays, a
  fatal message that was written ends the process;
- registry: no registration that was accepted disappears silently or is
  duplicated, what a look-up handed out stays until it is unregistered, the
  padders of the library are there when `main` starts;
- padders: `process` fills what `bound` announced, unpadding undoes padding;
- modes: the ciphertext is the one the standard prescribes, by either build and
  however a message is cut into calls; decryption restores the message;
- cipher and schedule: what a context holds is the schedule of the standard for
  the key of the last `Init`, the two builds agree on every block, decryption
  undoes encryption;
- linking: a program gets one build, whole, and never the stubs that abort;
- test runner: exit status 0 means that every test has run, once and in order.

## The modules

| Module | Models | Checked by | Proved in |
| --- | --- | --- | --- |
| `Fifo` | what `queue/aqueue.h` promises | | |
| `AtomicQueue` | `queue/aqueue.c`; implements `Fifo` | `queue` | `AtomicQueueProofs` |
| `BoundedStack` | what `stack/stack.h` promises | | |
| `Stack`, `StackCalls` | `stack/stack.c` and a caller; implements `BoundedStack` | `containers` | `ContainersProofs` |
| `PlainQueue` | what `queue/queue.h` promises | | |
| `SeqQueue` | `queue/queue.c`; implements `PlainQueue` | `containers` | `ContainersProofs` |
| `Containers` | a caller of both | `containers` | `ContainersProofs` |
| `Logger` | what `log/log.h` promises | | |
| `Log` | `log/log.c` on `Stack`; implements `Logger` | `log` | `LogProofs` |
| `PadBus` | `padding/padbus.c` on the queue of `Fifo` | `padbus` | `PadderProofs` |
| `Padding` | `padding/pkcs7.c`, `padding/x923.c` and a caller | `padding` | `PadderProofs` |
| `AesModes` | ECB and CBC in both builds | `aes_modes`, `aes_modes_tail` | `AesModesProofs` |
| `AesCtr` | CTR in both builds | `aes_ctr`, `aes_ctr_example` | `AesCtrProofs` |
| `AesBytes` | bytes and words | | |
| `AesTables` | the tables of `aes.h`, `gmul` | `aes_cipher` | |
| `AesContext` | a context and the key schedules of both builds | `aes_cipher` | `AesCipherProofs` |
| `AesCipher` | the block functions of both builds, on `AesContext` | `aes_cipher`, `aes_cipher_192` | `AesCipherProofs` (not `KnownAnswers`) |
| `Linking` | which definitions a program gets | `unit_runner` | `UnitRunnerProofs` |
| `UnitRunner` | `unit/unit.c`, constructors and `main`, on `Linking` | `unit_runner` | `UnitRunnerProofs` |
| `MC...` | small instances for TLC | | |

The last column names what TLAPS proves; see below. The composition is by
`EXTENDS`: `AesCipher` reads the context that `AesContext` fills, `UnitRunner`
runs what `Linking` has bound, `Log` keeps its frames in a `Stack`.

Names of actions are those of the functions where a function is one step.
Operators called `X_...` under a comment "Mutant" are plausible bugs in `X`:
replacing the body of `X` by one of them must make TLC find a violation of the
property `PROJECT.json` pairs it with. They are no part of the model.

### AtomicQueue

A step is the code between two mutex operations, calls of `malloc` and `free`,
or writes to memory another thread can reach. `front`, `rear`, `data`, `next`
are the fields; `live` is what is allocated; `pc`, `op`, `node`, `val` are the
place, the call and the locals of each thread. `EnqueueFirst` and
`EnqueueFront` are the two assignments of `q->front = q->rear = newNode`, in
the order C evaluates them. `malloc` may hand out any free address, also one
freed a moment ago, or fail (`EnqueueFails`: the library calls `exit`).
`AQ_Destroy` is called while no other call is in progress, as
`pthread_mutex_destroy` requires; afterwards its caller may ask `AQ_Empty`, as
`queue/tests/aqueue.c:92` and a second `UT_RunAll` do, with a mutex that
excludes nobody, or call `AQ_Init` again. `chain` is auxiliary: the linked
nodes in order.

`Fifo` is the specification callers rely on: calls are invoked, take effect at
one instant, and return. The refinement takes an enqueue to the step that makes
its node reachable and a dequeue to the one that moves `front`.

### Stack, StackCalls, BoundedStack

`Stack` has the functions as operators on a record with the fields of the
struct; the array starts with arbitrary contents. `StackCalls` is a caller that
creates, uses and destroys a stack, again and again. `BoundedStack` says the
same with a sequence. Elements are copied whole, so `elem_size` plays no role.

### SeqQueue, PlainQueue, Containers

A call is one step: there is one thread. Memory is what matters here, so nodes
have addresses, `malloc` may hand out one that was freed, a freed node keeps
its contents, and `Chain` is what the pointers lead to from `front`, up to the
first null pointer, whether those nodes are allocated or not. `PlainQueue` adds
to a FIFO queue that nothing is allocated and out of reach, and nothing in
reach and freed. `Containers` lets one caller have a queue and a stack.

### Log, Logger

A step is one stdio call or mutex operation. `settings` are the four globals,
as one record, which is also what a frame saves; `log_stack` is the struct
`Stack` with junk in it at first. The setters are one action, told apart by the
setting, and so are the getters. A stream is a sequence of parts, each with its
author. `FrameError` is `ferroratf`, which aborts with the mutex held;
`PrintNowhere` is `vfprintf (NULL, ...)`, undefined, taken as a crash. The
auxiliary `settled` remembers that a stream was set while no frame was saved.
In `Logger` a message is one entry and there is no mutex. The refinement mapping
reads the elements of the stack as the frames, and of each stream its `Entries`:
a message counts as one entry from its first part on. `Done` are the threads
whose call has taken effect; `Dying` are those of them that are writing a fatal
message, which the settings did not filter, or have written it.

### PadBus

`table` is `g_padders`, `pending` the queue, whose calls are single steps here
because `AtomicQueue` implements `Fifo`. A deferred registration is two steps
(`RegisterLater`: the allocation, `Enqueue`) and so is each round of
`PAD_Dequeue` (`DequeueTake`, then `DequeuePlace` or `DequeueDrop`). `phase` goes
from the constructors to `main` to the exit, `PAD_Dequeue` being the last
constructor. One thread, `main`, uses the table, the others only register
without an `out_id`: the table has no lock and racing on it is undefined.
`Name[e]` is the only part of an entry the code looks at; it may be null.

### Padding

Padding and unpadding as operators on sequences of bytes, and a caller that
chains `bound` and `process` as `padding/tests/e2e.c:20-90` does. The data to
unpad is what was padded, or any other data of any length. `% ByteMod` is the
cast to `uint8_t`, `% SizeMod` the arithmetic of `size_t`.

The padders do not compare the length of the data with that of the padding its
last byte announces: if all of the data looks like a padding that is longer
still, the loops read on in front of it (`Strays`). What is there is not the
caller's and may be something else at the next call, so each call chooses: the
bytes end the padding, and the data is left as it is, or they go on with it,
and `len - pad_val` wraps around. `bound` then answers the wrapped length
(`UnpadBounds`), for which the caller's `malloc` may fail and the caller stop;
`process` passes it to `memcpy`, and the model stops there (`Overrun`).

### AesModes

One caller encrypts, another decrypts what was handed over so far; each has its
build, its own `iv`, and cuts the message into calls of its own. Buffers may be
the same (in place). The generic CBC functions are modelled statement by
statement because `iv` and the output are updated in memory; the AES-NI ones
load and store once per block and keep the chaining value in a register. A
block is a value, the cipher and XOR are operators of which only "decryption
undoes encryption" and "XOR undoes itself" are assumed. `ref` is auxiliary: the
ciphertext of NIST SP 800-38A.

### AesCtr

The same two callers in counter mode, down to bytes, because counters and
partial blocks are. The decrypting caller takes the same packets, which are recorded as
the places in the message where the encryption calls ended. They share a
nonce array (`README.md`, `examples/aes128ctr.c`) or have copies
(`aes/tests/e2e.c`). Two variables are auxiliary: `used`, the blocks of keystream
made from a nonce array, each with its counter and the bytes it was for, and
`begun`, the nonces the calls started from.

### AesContext, AesCipher, AesBytes, AesTables

One program is run on both builds at once, each expanding the key and crypting
blocks at its own pace. `rndk` and `rndn` are the fields of the context; it
starts with whatever `malloc` finds and may be initialized again with a longer
or shorter key, with or without `Flush`. The generic schedule is made word by
word, the AES-NI one register by register (`NiExpand192`: six words of the
registers `key1`, `key2` at a time). The schedule functions are pure, so that
their arguments and results are values and only the loop is steps. A block
function is one step before, in and after its loop; `DecryptBlock` is called on
what `EncryptBlock` gave. `trace` is auxiliary: the states of encryption, which
decryption has to meet again in reverse.

A byte is the set of its bits, so XOR is the symmetric difference. The tables
and the product are parameters, with what decryption needs of them as
assumptions (`TablesUndo`, `gmulAdds`, `MatricesInverse`); `AesTables` gives the
real ones, and assumptions of its own compare them with FIPS 197 for every
byte. The instructions of AES-NI are external, by their definition in Intel's
manual.

`AES_Context_Create` answering NULL is left out, and so is the alignment of the
context, which the AES-NI build accesses through `__m128i` pointers.

### Linking, UnitRunner

`Linking` is the linker reading object files in the order of the Makefile, with
or without `__AES__`, for the executable or the library. Files of one directory
may come in any order, the directories are sorted, as GNU make sorts them
(versions 3.82 to 4.2 do not: the mutant `Sources_Unsorted` is what then
happens). `UnitRunner` starts the linked program: constructors by priority,
equal priorities in any order, then `main`. A test returns or ends the process,
with `exit` or `abort`. What tests compute is left out.

## What the runs show

| Run | Instance | Shows |
| --- | --- | --- |
| `queue` | 3 threads, 2 nodes, 2 payloads and null | the inductive invariant, `ListIntact`, `HeapAccounted`, `NoUseAfterFree`; `MutexReleased`; `Linearizable`: implements `Fifo` |
| `containers` | stacks of 0, 1 and 3, two values; 3 nodes, 1 payload and null | the stack implements `BoundedStack` and stays in its array; the queue implements `PlainQueue` |
| `log` | 2 threads, 4 calls, 2 streams, 2 levels, 2 frames | the inductive invariant, `MessagesWhole`, `StreamStays`; `MutexReleased`, `FatalEnds`; `Linearizable`: implements `Logger` |
| `padbus` | 2 threads, 4 registrations, a table of 3 | what becomes of every registration, id, pointer and look-up; `DrainServes` |
| `padding` | 4 byte values, data up to 5 bytes, block sizes 1 to 5 | `bound` is exact, paddings are whole, padding and unpadding are inverse; reads are in bounds and lengths do not wrap, except on data from elsewhere that is shorter than a block |
| `aes_modes` | 2-bit blocks, messages up to 3 blocks, every pair of builds | the inductive invariant, `CipherText`, `RoundTrip` |
| `aes_ctr` | blocks of two 1-bit bytes, messages up to 6 bytes | `RoundTrip`, `KeyStreamFresh`, `BuildsAgree` |
| `aes_cipher` | the keys of FIPS 197, C.1 to C.3, one of 20 bytes, two `Init` calls | `FollowsStandard`, `RoundTrip`, `BuildsAgree`, `KnownAnswers` |
| `unit_runner` | the six tests of the repository | `OneBuild`, `RunReport`, `EveryTestRuns` |
| `aes_modes_tail` | as `aes_modes` | a violation, see below |
| `aes_ctr_example` | as `aes_ctr`, AES-NI, one nonce array | a violation, see below |
| `aes_cipher_192` | as `aes_cipher`, the key of 24 bytes | a violation, see below |

Why the bounds are enough. The queue's cases are a list of none, one or more
nodes with one thread inside the mutex, one waiting and one between unlock and
`free`: three threads and two nodes have them all, the heap runs out, and the
proofs cover any number. The sequential queue has three nodes, so that there is
one between the ends.
A stack of 3 has a bottom, a middle and a top. Four calls let one thread push,
the other change settings or emit, and the first pop again; with a stack of two
frames also both limits are met. Four registrations overfill three slots with
two padders of one name, one without a name and one that is immediate. With
four byte values a padding length of 4 or 5 no longer fits in a byte, and data
of one or two bytes may announce a padding longer than itself. In
messages of three blocks a call has a first, a middle and a last block and
every cut into calls occurs; the cipher is a permutation that is not its own
inverse. Two 1-bit bytes have four counters, so six bytes go through carry and
wrap-around. Two `Init` calls put every length of key after every other, the
longer and the shorter; the known answers take every byte of key and block
through all rounds, and the assumptions on the tables go through all bytes.

Bounds: `Node` bounds the heap of the queue, `MaxCalls` the calls on the logger,
`Entries` the registrations, `MaxCalls` of `AesContext` the calls of `Init`;
`MaxPadders` and `MaxFrames` are 16 and 48 in the code. `CHECK_DEADLOCK FALSE`
is used where the system ends: the caller of `Padding`, the process of
`Containers` (out of memory), `AesCipher` (a key length that aborts) and
`UnitRunner`.

Fairness. `AtomicQueue` and `Log` assume that a thread inside a call keeps
being scheduled (weak fairness of its steps, which is what a preemptive
scheduler gives), nothing about the mutex, so a waiting thread may wait for
ever, and nothing about callers. `PadBus` assumes the same of `PAD_Dequeue`, and
`UnitRunner` that the linker and the process are not stopped and that a test
ends.

Three runs end in a violation, because two places of the repository disagree
or the code does not do what its tests assert:

- `aes_ctr_example`. `examples/aes128ctr.c:38` asserts that encrypting and
  decrypting with one nonce array gives the plaintext back, and `README.md`
  shows the same use. `aes/ni/ctr.c:70` writes the counter back to that array,
  so the second call uses different keystream. The generic build does not write
  back.
- `aes_modes_tail`. `aes/generic/cbc.c:12` (and `ecb.c:10`) asserts that lengths
  are whole blocks; the AES-NI build accepts others and leaves the rest of the
  output unwritten.
- `aes_cipher_192`. With the key of FIPS 197, C.2, the AES-NI build gives another
  ciphertext than the standard, OpenSSL and the generic build:
  `aes/ni/impl.c:30` takes the word to carry over from the wrong register, and
  `aes/ni/context.c:57` selects a word twice. `aes/tests/e2e.c:34-50` prepares
  the comparison with OpenSSL for such keys, but no test passes one. That this
  build still decrypts what it encrypts is `RoundTrip`.

Some things the models make visible and that properties exempt: an entry
without a name is overwritten by the next registration (`NoneLost`,
`HeldStays`); a block size above 255 does not survive the round trip
(`RoundTrip` of `Padding`); unpadding data that is shorter than a block may
read and copy what is not part of it (`ReadsInBounds`, `BoundIsExact`);
`aes/ni/id.c` is compiled without `__AES__` too, so that the generic build calls
itself `aes/ni` (`OneBuild`); `LOG_printf` crashes if no stream was ever set, or
if it was set only inside a frame (`StreamStays` says when it does not).

## What is proved

Each proof is of the specification TLC checks, for every value of the
constants that satisfies the named assumptions of the module.

- `AtomicQueueProofs`: `IInv` is inductive; mutual exclusion, `ListIntact`,
  `HeapAccounted` and `NoUseAfterFree` follow. None of these is inductive by
  itself: that `rear` is the last node after a dequeue needs which of `front`
  and `rear` lags behind at each place (`ListInv`), that a freed node is not
  linked needs which nodes are private to a thread (`HeapAccounted`,
  `LocalsInv`), and both need that the places inside the mutex are occupied by
  its holder only (`MutexInv`). Lemmas on linked lists say what appending and
  taking the first node do to `Linked` and `Distinct`. From `IInv` the
  refinement `Spec => Queue!Spec` follows step by step.
- `ContainersProofs`: of the stack, `TypeOK` is inductive and each call is the
  one of `BoundedStack`. Of the queue, `QueueInv`: the allocated nodes are one
  list, each of them once, and `rear` is its last. `Chain` chooses a sequence
  that the pointers link; that there is one is the invariant, that there is no
  other is `OneList` (of two walks from `front` the first step at which they
  differ would follow the same pointer). So what a call does to the pointers
  it does to `Chain`, and each call is the one of `PlainQueue`; that nothing
  leaks and nothing in reach is freed is the invariant itself.
  `HeapAssumption` is that memory is finite and the null pointer no address. A
  caller of both has both (`Composition`).
- `LogProofs`: `IInv` is inductive, with it `MessagesWhole` and `StreamStays`.
  A message stays whole because a stream ends within a message only while a
  thread is at that place of `LOG_Emit` (`OpenInv`), that thread finds its own
  last part at the end (`WriterInv`), and it holds the mutex (`MutexInv`).
  `Linearizability` is that `Log` implements `Logger`. A part written to a
  stream adds one entry at its end if it is the first of its message, and none
  otherwise (`EntriesAppend`, `WriteEntries`): `Entries` numbers the places
  where messages begin. A call takes effect at its first step under the mutex,
  the rest of `LOG_Emit` being invisible to callers (`WithinMessage`) until
  the unlock or the abort (`DoneStep`, from `PlacesInv`). A frame pushed or
  popped is one element of the struct of `Stack`, whatever junk lies above
  `top` (`PushAppends`, `PopShortens`).
- `PadderProofs`: of the registry, all seven safety properties, for any number
  of threads, registrations and slots and any names. `IInv` adds to them that
  a slot is blank or carries its own index (`SlotInv`), that a registration
  under way has no fate yet (`MakingInv`), that the queue is the latest part
  of what was deferred, after the entry in the hands of `PAD_Dequeue`
  (`QueueInv`), that the slots with a name come first until something is
  removed (`NamedFirst`, without which `DeferredInOrder` is not inductive: a
  slot in the middle could be taken), and that before `main` something is
  dropped only after more registrations than slots (`EarlyInv`, by the
  pigeonhole principle), from which `BuiltinsPresent` follows when `main`
  starts. Of the padders, the four properties for every block size, byte range
  and message and all data to unpad. `PaddingInv` says of each stage what the
  data is (`Source`, `Unpadded`) and which answers of `bound` are left. The
  lemmas: padded data is whole blocks (`PadsToWholeBlocks`), so a loop that
  strays is on short data from elsewhere (`StraysInShort`, `SourceFits`); a
  length that wraps around is not below that of the data (`RestWraps`), so
  that `process` stays within what was allocated whatever each of the two
  calls finds (`UnpadFits`); and of whole blocks, what is missing after a
  padding was taken off is that padding (`MissingIsTaken`, `PadUnpadded`).
- `AesModesProofs`: `IInv` is inductive, for every cipher and message; with it
  `CipherText`, `RoundTrip` and `IvCarried`. It says of each buffer which
  blocks are input, ciphertext or output at each place, and that the chaining
  value, in memory or in the register, is the previous ciphertext block
  although that may be overwritten by then.
- `AesCipherProofs`: `RoundTrip`, `FollowsStandard` and `BuildsAgree`, for
  every key and block, every history of a context, and any interleaving of the
  two builds. The tables and the product of bytes are parameters: of them the
  proofs use `TablesUndo`, `gmulAdds` and `MatricesInverse` (with their
  types), which TLC evaluates for the tables of `aes.h` and the code of
  `gmul`.
  - The steps of both builds, in-place loops here and instructions there, are
    reduced to the same functions of a matrix (`Forth`, `Back` and those of
    the last round); `InvMixColumns` undoes `MixColumns` because it is linear
    (`gmulAdds`) and the two matrices are inverse (`MatricesInverse`).
  - `IInv` says that the states recorded in `trace` follow each other by
    `Forth`, and which of them each place of the decryption is back at. That
    the AES-NI build applies `aesimc` to the round keys and adds them after
    the inverse mixing is the same by linearity. It asks nothing of the words
    of the context, so it holds of the wrong 192-bit schedule as well.
  - `ScheduleInv` adds that the words made so far are those of the standard:
    each word depends on words before it only (`StandardLocal`), hence those
    already made stay right while the next are stored, one at a time or four.
  - `BuildsAgree` needs that a key has one schedule (`OneSchedule`): of two,
    the first word in which they differ would depend on words in which they do
    not. The same argument over the rounds makes the traces equal.
  - `Encipher` and `Decipher` are the cipher as functions of the words of a
    context and a block, without state or build. `CipherIsPermutation`: each
    undoes the other, for any words. One order is the rounds undone one by one
    (`BackThroughStates`); the other follows because there are finitely many
    blocks (`RegistersFinite`, from `BitAssumption`: the places of a byte are
    finitely many) and a function of a finite set into itself that is one to
    one reaches all of it. This is what `AesModes` assumes of its cipher
    (`CipherUndoes`) and `AesCtr` of its `KeyStream`.
  - `BlockFunctions`: whatever came before in a context, what the two builds
    write is the value of these functions. `FunctionOfKey`: so the ciphertext
    is a function of key and block, `Encipher` with the schedule of FIPS 197
    (`ScheduleOf`), which exists and is unique (`ScheduleExists`,
    `OneSchedule`). `KnownAnswers` says what it is for the keys and blocks of
    the standard. The AES-NI build is exempt with 192 bits, as in the run
    `aes_cipher_192`.
  - What a recursion over rounds or words computes is shown by the least index
    at which it would fail (`Least`, `UpTo`), since the induction theorems of
    the library can not be cited here.
- `AesCtrProofs`: `RoundTrip`, `KeyStreamFresh` and `BuildsAgree` for every
  size of blocks and bytes, every cipher and every way to cut a message into
  calls.
  - `Increment` goes through all counters in one cycle. `Number` chooses a
    numbering of the counters in which it adds one modulo their number; that
    there is one is shown place by place, from the last on, by the least
    number of places for which it could not be done. `Ahead` counts the
    increments between two counters.
  - `IInv` says where each caller is in the message (`PlaceInv`); that every
    byte written was made from a block of keystream that is as long as its
    call allows (`BlocksInv`); that the blocks of encryption follow each other
    in the text and, within a call, by `Increment`, the first being the nonce
    the call started from (`EncryptInv`); that two generic callers leave all
    nonces as they are (`GenericInv`); that decryption makes the same blocks
    over again, up to where it is, and is about to make the next one
    (`DecryptInv`), provided its call started from the same nonce; and that
    the counters to come are ahead of those used before from the same array,
    by as many increments as blocks were made since (`FreshInv`).
  - None of the three properties is inductive: `RoundTrip` looks at whole
    calls, and at the bytes only; it follows because the same block of
    keystream added twice gives the byte back. `KeyStreamFresh` follows from
    `FreshInv` since a counter returns only after a full cycle.
  - `CounterMode`: each call is counter mode as NIST SP 800-38A defines it.
    `CounterBlock(c, n)` is `Increment` applied n times to c, and byte p of
    the text is the input byte plus the byte of the keystream of
    `CounterBlock` at the place of p in its call. `StreamInv`, inductive
    together with `IInv`, says that each block was made from the counter of
    its place.
  - `OneStream`: where only the AES-NI build uses a nonce array, the counters
    enciphered from it are `CounterBlock(nonce0, 0)`, `(nonce0, 1)` and so on
    through all calls and callers (`ArrayInv`: the array, or the call at work,
    has the next one). `OneCall`: so if the calls before the last are of whole
    blocks, the text is that of one call over the whole message (`WholeInv`;
    without whole blocks the rest of a block of keystream is dropped at the
    end of a call, and the generic build starts each call from the same
    nonce).
- `UnitRunnerProofs`: `OneBuild` and `RunReport`, for any order of the files
  in a directory, any set of tests and any priorities of their constructors
  after 103, that of the runner's own (`unit/unit.c:15`; the tests of the
  repository have 150 and 200). `LeftInv` and `BoundInv` say what the linker
  has read and that a symbol is bound to the first definition among it that is
  not weak, or is weak if none is there; when all is read, the flags decide
  which that is. `RegisteredInv` says that the tests registered are those
  whose constructors have run, each once, and `OrderInv` that what has run and
  what waits is what was registered, in the order of registration.

Every safety property, every refinement and every invariant of the runs is
thus a theorem, but one: `KnownAnswers`, which is about the real tables and
keys of the standard and for which the run is the proof. Everything else that
is only model-checked is under fairness (`MutexReleased`, `FatalEnds`,
`DrainServes`, `EveryTestRuns`) and out of the prover's reach. Some proved
properties are not in a run. `MutualExclusion` of the queue and `IvCarried` of
the modes are contained in the invariant of the run; `QueueInv` of the
sequential queue is implied by what `IsQueue` says of `leaked` and `freed`,
but for `rear`. Of the cipher and of counter mode, `BlockFunctions`,
`FunctionOfKey`, `CounterMode`, `OneStream` and `OneCall` are stated in the
proof modules, with the functions they are about: for the real tables these
functions take TLC too long, and the run `aes_ctr` checks what the users of a
message see. The three of counter mode and their invariants hold in every
state of that run's instance, and `Encipher` gives the ciphertexts of FIPS
197, appendix C, which TLC evaluated while the proofs were written.

## What is not modelled

- The text of messages, colours, times; the contents of test data.
- `Stack_Init` when `malloc` fails: it frees the struct of its caller, and every
  later use of that is undefined.
- Races on the table of the registry, see above.
- Destructors (`LOG_Shutdown`, `PAD_Shutdown` beside running threads): the exit
  ends the models. The programs of the repository have one thread by then.
- A padder composed with a mode: no code of the repository but the tests does
  that, and the two are checked by themselves for all messages.
- What the examples print and the tests compute.

## Plan

Done: all components of the table above are modelled and checked, every safety
property but `KnownAnswers` is proved, and the two standards behind the code,
FIPS 197 and counter mode of SP 800-38A, are theorems. What could follow:

1. CBC and ECB as functions of key, chaining value and message, as `OneCall`
   is for counter mode; `CipherText` says it block by block.
2. That the queue of `PadBus`, modelled as single steps, may be replaced by
   `AtomicQueue`: the two are linked by `Fifo`, not by a theorem on the product.
3. The safety parts of the properties under fairness, such as that the mutex of
   the logger is given back at the end of each call (now in `MutexInv`).
