# A verification development for v8monkey

v8monkey puts the V8 API (`include/v8.h`) on top of SpiderMonkey's JSAPI.
Clients may use V8 from any thread, initialize it explicitly or not at all,
and never need to shut it down; SpiderMonkey wants one `JS_Init` before
anything else, a `JSRuntime` of its own for each thread, the first of them made
while nobody else makes one, and one `JS_ShutDown` after the last is gone.
Most of what can go wrong in v8monkey lies between the two.

At this commit the project has been reset: whole files, and the lower part of
others, are commented out below the line "Project reset: 16 July".  What is
compiled is the engine's life cycle, isolates and fatal errors, the platform
layer and the test harness.  These come first.  The rest of the library stands
in the same files, to be brought back part by part; what of it is complete
enough to be read as a program is modelled too, and marked *(reset)* in the
table and in the head of its module.  All paths below are relative to the
repository.

## 1. Inventory

| Part | Source | State | Operations |
|---|---|---|---|
| Engine life cycle | `src/utils/SpiderMonkeyUtils.{h,cpp}`, `src/engine/init.cpp` | two `OneShot`s, the static `tearDown`, `spiderMonkeyDestroyed`, the atomic `runtimeCount`, one TLS slot per thread | `V8::Initialize`, `EnsureRuntimeAndContext`, `V8::Dispose`, exit of a thread, exit of the process |
| Isolates | `src/runtime/isolate.{h,cpp}`, `src/runtime/IsolateAPI.cpp` | a TLS slot with the current isolate of each thread; in every isolate a vector `previousIsolates`, an error callback, `hasFatalError` | `New`, `Enter`, `Exit`, `Dispose`, `GetCurrent`, `SetFatalErrorHandler`, `IsDead` |
| Fatal errors | `src/engine/init.cpp`, `src/utils/V8MonkeyCommon.h` | none of its own; reads `V8MONKEY_NOABORTONASSERT` | `Abort`, `TriggerFatalError`, `V8MONKEY_ASSERT` |
| Test cleanup | `src/utils/test.h`, `src/runtime/isolate.cpp` | none of its own | `~AutoIsolateCleanup`, `~AutoTestCleanup` |
| Platform | `src/platform/platform.{h,cpp}` | a native handle inside each object | `Mutex`, `OneShot`, `Thread`, `TLSKey` and their moves |
| Test harness | `test/harness/` | two maps of registered tests; per run the tests executed and the failures | argument parsing, selecting, forking and judging tests |
| Version | `src/engine/version.cpp` | none | `V8::GetVersion` |
| Lockers *(reset)* | `src/threads/locker.cpp`, `src/runtime/isolate.cpp` | per isolate a mutex and the ID of the thread that locked it; per thread an ID; per `Locker` whether it took the lock | `Locker`, `Unlocker`, `Isolate::Lock`, `Unlock`, `IsLockedForThisThread`, assignment of IDs |
| Handle scopes *(reset)* | `src/runtime/handlescope.cpp`, `src/types/objectblock.h`, `src/types/base_types.h`, `src/data_structures/smart_pointer.h` | slabs of slots, the limits of what is in use, the limits each scope found; a count in every object | opening, leaving and closing a scope, creating a handle, smart pointers |
| Persistent and weak handles *(reset)* | `src/runtime/persistent.cpp`, `src/types/v8monkeyobject.cpp`, `src/types/base_types.h` | a cell per handle; a strong and a weak count and a callback list per object | `New`, `MakeWeak`, `ClearWeak`, `Dispose`, tracing with callbacks, disposal of the isolate |
| GC rooters *(reset)* | `src/utils/SpiderMonkeyUtils.{h,cpp}`, `src/runtime/isolate.{h,cpp}`, `src/types/base_types.h` | the vector `rooterRegistrations`, SpiderMonkey's tables of roots; per isolate `isRegisteredForGC` and its handles | `AddIsolateRooter`, `RemoveRooter` for an isolate and for a runtime; `Enter`, `Exit`, `Dispose`, `~Isolate` and `Trace` as they use them |
| `DestructingList` *(reset)* | `src/data_structures/destruct_list.h` | a doubly linked list | `Add`, `Delete`, the destructor |
| Values and numbers *(reset)* | `src/types/number.cpp`, `value.cpp`, `value_types.h`, `primitives.cpp` | none that changes | classification, conversions, comparisons |
| Encodings *(reset)* | `src/utils/utf8.cpp`, `src/utils/Encoding.h` | none | two decoders of UTF-8, a Latin-1 encoder |
| Strings *(reset)* | `src/types/string.cpp` | an encoding, an array and a length in every `SMEncodedString` | construction from UTF-8 and UTF-16, copy, move, destruction |
| Helpers | `src/threads/autolock.h`, `src/utils/MiscUtils.h` | none | a scoped lock; lengths of strings |
| Public headers | `include/v8.h`, `include/v8config.h` | none | V8's own declarations |

How they interact: `V8::Initialize` and `V8::Dispose` call straight into
SpiderMonkeyUtils.  The engine's two `OneShot`s are `pthread_once`; the first
runs inside the second when a client never called `V8::Initialize`.  A thread's
runtime is destroyed by the destructor of a TLS key, or by `V8::Dispose`.  When
the process exits, the destructor of a static object takes the engine down if
nobody did.  `Isolate::Dispose` reports misuse through `TriggerFatalError`,
which calls client code in the middle.  Threads meet inside isolates: each
isolate keeps the way back of *all* its visitors in one vector.

Which behaviours are hard, and what makes each part correct:

* **Engine.**  Threads race through two nested one-shots, an atomic counter and
  a plain flag; disposal reads the counter and acts on it later; a thread may
  exit, the client may dispose, and the process may end, in any order; three
  JSAPI calls may fail, and `Abort()` may or may not return.  Correct means:
  SpiderMonkey sees the order it demands, no thread gets two runtimes or none,
  nobody waits forever, the counter agrees with the runtimes, and a process
  that ends has taken down what it brought up.
* **Isolates.**  The vector is a stack, yet its users are many threads; its
  entries and the TLS slots are pointers to objects that may be deleted and
  whose addresses may be reused; a client callback runs between the lookup of
  an isolate and a write to it.  Correct means: leaving restores the isolate
  this thread came from, an isolate is deleted only when nobody is inside, and
  nothing follows a pointer to a deleted isolate.
* **Test cleanup.**  Loops that run until the thread is outside every isolate,
  deleting on the way what refuses to be deleted while it is entered again
  further down.
* **Platform.**  Move constructors of types that hold native handles; `Thread`
  remembers that it ran in a flag a move does not carry.
  Correct means: a handle has one owner, and is released once.
* **Lockers.**  `IsLockedForThisThread` reads, without a lock, an `int` that
  another thread writes in two steps of its `Lock` or `Unlock`; lockers and
  unlockers of several isolates nest.  Correct means: a thread never believes it
  holds an isolate that it does not, the innermost scope decides, and threads
  that lock in order never wait in a circle.
* **Handle scopes.**  Where the block ends is kept three times; a scope may
  begin in one slab and end in another; a value that escapes moves with its
  reference.  Correct means: a scope takes its own handles with it and no
  others, and an object goes with its last reference.
* **Weak handles.**  A trace walks a list of callbacks that those callbacks
  change; handles turn weak and strong again meanwhile.  Correct means: the two
  counts and the list describe the handles, a cell never points to a deleted
  object, and only a collection clears a cell behind the client's back.
* **GC rooters.**  Isolates and runtimes go in any order, on any thread; the
  data of a registration is owned by whoever registered first; an isolate asks
  a flag, which no end of a thread clears, whether it is registered.  Correct
  means: what a collection calls still exists, nothing leaks, and every object
  in a handle is found by the collections of its runtime.
* **Lists, values, encodings, strings.**  Pointers both ways and a destructor that may
  come after `Delete`; numbers on the boundaries of three integer types; text
  cut off anywhere.  Correct means: everything destroyed once; a conversion
  gives what ECMA-262 says and comparisons agree; decoding is Unicode's; a
  string shows what it was made from and owns its array alone.
* **Harness.**  Requests from the command line are merged, forked children
  return through the same code as their parent, results come back as exit
  statuses.  Correct means: what was asked for runs, once, and an exit status
  of 0 means that it passed.

`PROJECT.json` lists the hazards one by one, at their lines.

## 2. Modules

```
EngineLifecycle   what SpiderMonkey demands            (abstract)
      ^ refines
Engine  <- EngineClient <- MCEngine                    (TLC)
                  ^------- EngineProofs                (TLAPS)

ThreadStacks      what the API promises of isolates    (abstract)
      ^ refines
Isolates <- IsolateHistory <- MCIsolates               (TLC)
                  ^ ^----- IsolateHistoryProofs        (TLAPS)
                  |                 ^
            IsolateCleanup <- IsolateCleanupProofs     (TLAPS)
                  ^----------------------------+
HarnessArgs <- TestHarness <- MCHarness <- MCTesting   (TLC)
                  ^------- HarnessProofs               (TLAPS)

HandleStack       what HandleScope promises            (abstract)
      ^ refines
LocalHandles   <-+  <-+
PlatformHandles<-+  <- PlatformProofs                  (TLAPS)
IsolateLocks   <-+  <- IsolateLockProofs               (TLAPS)
WeakHandles    <-+  <- WeakHandleProofs                (TLAPS)
IsolateRooters <-+  <-+
DestructList   <-+  <-+
Values         <-+  <-+-- LibraryProofs                (TLAPS)
Encodings <- EncodedStrings <-+
EncodedStrings <-+-- MCLibrary                         (TLC)
```

An arrow points from a module to what it extends, or to what it refines.  The
modules were written in this order, the heart of the program first.  The
nine that `MCLibrary` takes together share no state with each other or with
the rest: each has a specification of its own.  What is left to do
is at the end of 4 and in 5: what is only model-checked, and the parts of the
library that are not complete at this commit.

A definition called `Name_Slip` is `Name` with a slip in it.  No specification
uses one; each is there to show that a property depends on the right version.

### Engine

One thread is a program counter (`pc`) and the API call it is inside (`call`).
One step is one access to something another thread can see: a `pthread_once`,
the counter, the flag, the `tearDown` pointer, one JSAPI call.  Accesses to the
thread's own slot are merged into the neighbouring step.

| Variable | In the code |
|---|---|
| `engineOnce`, `firstOnce` | `spiderMonkeyInit`, `firstThreadInit` (new, running, done) |
| `tearDown`, `destroyed`, `runtimeCount` | the statics of the same purpose |
| `data` | the threads whose `smDataKey` slot is set |
| `engine`, `runtimes` | SpiderMonkey's own state, which the code does not keep |
| `process` | running, aborted (`Abort`, an assertion), exited |

The steps follow the functions: `EnsureSpiderMonkey`, `InitSpiderMonkey`,
`PublishTearDown` (the end of `initSpiderMonkey`), `FirstThreadInit`,
`CheckAlive`, `NewRuntime`, `NewContext`, `RecordConstruction`
(`assignRuntimeAndContext`), `CheckRuntime`, `CheckTearDown`,
`StaticDestructor`, `AttemptDispose`, `DestroyRuntime`, `RecordDestruction`,
`ShutDown`, `MarkDestroyed`.  The client's steps are `Spawn`, the three calls,
`ThreadExits` and `ProcessExits`.  A thread identity is used again after its
thread ended, so a run is not limited to as many threads as there are
identities, only to as many at a time.

`EngineClient` states the properties, and four rules a client may keep:
`DisposeAlone` (nobody else is inside the library during `V8::Dispose`),
`DisposeByOwner` (the disposer has a runtime, or nobody has), `JoinsThreads`
(other threads are joined before the process ends), `NoReuse` (nothing is
called after disposal, which `v8.h` calls permanent).  `SafeSpec` keeps all
four.  They are not written down in the repository; they are what the proofs
needed, and the two runs that drop one of the first two show the disposal going
wrong.

`EngineLifecycle` is the life SpiderMonkey asks for: down, up, shut; runtimes
come and go while it is up, one per thread; it is shut once, when none is left.
The refinement maps its `phase` to `engine` and its `owners` to `runtimes`.

### Isolates

A call is one step, since `v8.h` asks callers to hold the isolate's lock; only
`TriggerFatalError` is two, around the client's callback (`reporting` holds the
callbacks a thread is inside, which may nest).  An isolate is an address: after
`Dispose` the same address may come back from `New`.  When the library follows
a pointer it kept to an isolate that is gone, the outcome is `undefined`.

`IsolateHistory` adds what the program does not record: the isolates each
thread is inside (`stacks`) and who is inside each isolate (`visits`).
`ApiSpec` is a client that keeps the rules of `v8.h`: it leaves only its
current isolate, a thread leaves everything before it ends, and a callback does
not delete the isolate it is called for.  `LifoSpec` also keeps the order that
a comment in `isolate.h` takes for granted: of the threads inside an isolate
the last to enter is the first to leave.  `ThreadStacks` is the promise of
`v8.h`: one stack per thread.  Its `current` maps to the TLS slots; its
`stacks` is the history variable of that name.

### IsolateCleanup

A thread enters isolates in any order, which may leave one isolate on its way
several times, and then the scope ends: `~AutoTestCleanup` or
`~AutoIsolateCleanup` runs.  Each turn of a loop is a step.  `inside` notes what
the thread was inside when it began, and the history of `IsolateHistory` goes
along, for the sake of the proof.

### HarnessArgs and TestHarness

`HarnessArgs` is `parseArgs`: one turn of its loop a step, and what stands on
the command line is decided as it is read.  Of a word only its role is kept;
the brackets that `-n` strips are left out.  `TestHarness` is `main` from there:
it answers, or starts a run that goes through the stages *files*, *names*,
*all*, *report*.  A process is a record with its place in those loops, its set
of failures and the last `TestResult`; `fork` copies the record, and as a parent
waits at once, the processes form a stack (`processes`).  A child's test
returns, throws or crashes; a child that is out of its test leaves the loops by
`processIsChild` (`LeavesLoop`, which stands for the same test in the runners'
loops) and then `main` (`Decide`).  A `TestResult` that was declared and not
assigned is `Unset`, and a branch on it may go either way.  `ran` and `broken`
are history: which tests were started and which went wrong.

### PlatformHandles

The four classes of `platform.h`, one place for each C++ object (`object`: its
class, `privateData`, and the flags `hasExecuted` and `hasFunction`), and the
native handles of the system (`native`: free, or what it is used for).  Each
constructor, move constructor, move assignment and destructor is an action, with `Run`
and `Join`, and with `Lock` and `Unlock` (`UseMutex`) only where they assert.  A
handle that was released may be handed out again, which is what makes a stale
copy dangerous.  `process` says how a bad call ended: an assertion, a failed
constructor's `terminate`, or what POSIX leaves undefined.  `movedClasses` is
history, for what holds only while no object of a class was moved.
`OneShot` keeps no native handle: its word is `hasExecuted`.

### IsolateLocks *(reset)*

A thread's `scopes` are its `Locker`s and `Unlocker`s, innermost last; `lockPC`
is where it is inside `Isolate::Lock` (`AcquireMutex`, `NoteThread`) or
`Isolate::Unlock` (`ClearThread`, `ReleaseMutex`).  `lockingMutex` and
`lockingThread` are the two fields of an isolate, `threadID` and `idCount` the
IDs of `fetchOrAssignThreadID`.  `orderly` is history: whether the client locked in
ascending order and unlocked temporarily only what it locked last, which is what
`NoDeadlock` needs.  IDs are taken not to overflow.

### LocalHandles and HandleStack *(reset)*

`slabs` are the slots of an `ObjectBlock`, slab by slab, `limits` is
`localHandleLimits` and `openScopes` what each scope saved of it.  `scopeSeen`
is `level # 0`: no code lowers the level.  `refCount` and `smart` are the
reference counts and the smart pointers; one may be pointed at a new object,
which begins to exist by that.  `CloseHandleScope` is `InternalClose`:
it nulls the slot that escapes, leaves the scope, which passes over null slots,
and puts the value into the frame below.  `handlescope.cpp` was written for an
earlier `ObjectBlock`; the module's head says where the model takes the newer one.
A slot (`Filled`, `From`) is a slab and an offset, its address.  `HandleStack`
promises a stack of frames, each a function from handles to the objects they
refer to, and that an object exists exactly as long as something refers to it.
A new handle may be any that is not in use.  The refinement (`Frames`) cuts the
slots into frames at the saved limits: a handle is the address of its slot, so
that a slot which changed its object, or moved, would be seen.

### WeakHandles *(reset)*

`cell` and `given` are the isolate's persistent storage; `strongCount`,
`weakCount`, `weakList` and `nearDeath` are the fields of an object, `localCount`
the handles that scopes hold.  `ShouldTrace` is `StartTrace`, a `VisitNext` for
each turn of its loop, `CallbackReturns`, and `FinishTrace`; between `VisitNext`
and `CallbackReturns` the client may do all it does between calls, which is how
callbacks change the list that is being walked (`trace.next` is the element
looked up before the call).  One rule is the client's (`MayTouch`): a callback
leaves the *other* weak handles of its object alone, since one of them may be
the element looked up.  The rule is written nowhere: a comment says that
callbacks are free to dispose.  `FreeWeakSpec` adds callbacks that delete any
handle (`DeleteInCallback`), and its run shows the element gone that the trace
goes on with.  The cells of a deleted handle are not reused.

### IsolateRooters *(reset)*

`registrations` is the vector, `tracers` SpiderMonkey's table of extra roots
(external: a set of a runtime and the data it is called with), `tracerData` what
is allocated.  An address of an isolate, a runtime or a `TracerData` may come
back after it was freed.  `registeredForGC` holds the isolates whose flag is
set, `inside` who is inside which isolate, `handles` whose objects the handles
of which isolate refer to; a thread is its runtime.

`EnterRooted` is the part of `Enter` that registers, each time with new data;
`ExitRooted` deliberately leaves the registration; `DisposeRooted` removes what
there is if the flag says so, and `RemoveRuntime`, the end of a thread, removes
without touching the flag.  `Traces` follows a collection from the tracer
through `Isolate::Trace` to `Object::Trace`, which passes over objects of other
runtimes.  `RegistryAgrees` says that all of this fits together.

Nothing in the code protects the vector, so one thread at a time is assumed, as
it is in the code.  A thread leaves every isolate before it ends, as V8 demands
of its client, and that it may be inside one several times is left out.

### DestructList *(reset)*

`head` and `elem` are the pointers of `DestructingList`; `members`, `stores` and
`destroyed` are history: what should be in it, and how often each value came in
and was destroyed.

### Values *(reset)*

Each handle (`slotValue`) refers to a value with its type, its double and
`V8Number`'s tag.  `Small` is the limit `0x10000000`, and the sizes of the integers
are the multiples of it that they are in the code: `Half` is 2^31, `Size` 2^32,
`Half64` 2^63.  A double is a special value or
a whole number of halves, which is what the code tells apart.  A cast that
C++ leaves undefined gives what x86-64 gives.  `NewValue` makes any value,
`Convert` any conversion of one, so conversions compose; the properties compare
with `ToInt32` and `ToUint32` of ECMA-262, written down independently.
`ClassificationRight` says that `IsUint32` is exact, and that `IsInt32` never
says wrongly that a number is of its type and recognizes all below `Small`; of
`IsInt32` above `Small` it says nothing (see 3).

### Encodings *(reset)*

`text` grows by a byte at a time, so each text and each way to cut it off is a
state.  `Utf16Encode`, `Latin1Encode` and what they use are the classifier of
`utf8.cpp`; `EncodeToUTF16` is `Encoding.h`.  Each loop is a `Walk`: a turn at a
position (`Turn`, `Utf16At`, `Latin1At`) says what is written there and how many
bytes are taken.  Both decoders are compared with `UnicodeDecode`, the definition
of UTF-8 by scalar values and shortest forms.  The classifier rejects all that
begins with 0xED, not only the surrogates; what is said of it is about texts
without that byte.

### EncodedStrings *(reset)*

`strings` holds the `SMEncodedString`s that are alive, `cells` the arrays that
are allocated, `origin` (history) what each string was made from.  The contents
are those that the operators of `Encodings` compute.  The length of a string
made from UTF-8 is the number of its *bytes*, and a copy copies as many cells:
from an array that is shorter it also reads what lies behind (`Garbage`), and
keeps it behind the zero.  `StringsKeepText` says what holds all the same: a
string shows, up to its zero, the text it was made from, and owns its array
alone.  Copying or moving from a string that was moved fails an assertion, so
no action does it.

## 3. Runs

| Run | Instance | Shows |
|---|---|---|
| `engine_any` | 3 threads, any client, every JSAPI failure | counter, single initialization, the first runtime alone, no second runtime |
| `engine_live` | 2 threads, `Abort` returns, every failure, `FairSpec` | every call returns |
| `engine_safe` | 4 threads, `SafeSpec` | the life cycle is implemented, no assertion fails, exits are clean |
| `engine_foreign_runtime` | violation | disposal by a thread without a runtime shuts down under the one that has it |
| `engine_dispose_race` | violation | a runtime appears between the count's reading and the shutdown |
| `isolate_lifo` | 2 threads, 3 isolates, 2 entries each, 1 callback | with LIFO exits the vectors implement the stacks, nothing dangles; `HistoryInv`, the invariant of the proof, holds |
| `isolate_not_lifo` | violation | with the rules of `v8.h` alone, a thread lands in an isolate it never was in |
| `testing` | the harness: 4 requests, 3 tests in 2 files, a file without tests, an unknown name; the cleanup: 1 thread, 3 isolates; one of them per behaviour | the line is parsed as documented unless an error is reported; children leave; report and exit status are true; runs end. The destructors' loops end, and delete what was entered |
| `harness_dropped` | violation | `-f a -n t -f b` does not run `t` |
| `harness_twice` | violation | a test named by file and by name runs twice |
| `weak_free_callbacks` | violation; 2 cells | a callback deletes the element that the trace looked up as the next |
| `library` | the nine parts of `MCLibrary`, one per behaviour | native handles are owned once; a noted ID means ownership, scopes decide, no deadlock; slabs, limits and counts keep the promise of `HandleScope`; weak counts, lists and cells agree in the middle of a trace; the registry agrees with SpiderMonkey's tables; the list destroys once; conversions and comparisons are right; decoders decode; strings own their arrays and keep their text |

Bounds.  Two threads are enough for every race on a one-shot, three for a
disposal that two others overtake, four so that somebody is left over in the
refinement run.  The engine has no other bound: `runtimeCount` is bounded by
the number of threads, which `TypeOK` says and the run checks.  For isolates,
three let a thread come from one, and a second thread from another, into a
third; two entries in one vector are two visitors or one visitor twice; one
callback at a time per thread leaves the other thread free to act in between.
`MaxEntries` and `MaxErrors` name these bounds, and the code has neither.  Three
requests are the fewest of which one can overwrite another's slot, and four
leave one more; two tests in one file and one in another let a child find work
left in the inner loop and in the outer one.  `MaxArgs` names the bound.

`library` starts in a state for each of its parts (`part`), and only that part
moves: the run is the sum of nine state spaces, not their product, and
a property of one part is checked on all of its states.  The parts share
interchangeable model values, over which symmetry is taken.  In each the bounds
let the interesting case happen: three places and two native handles move a
handle on while a released one is handed out again; two threads, two isolates and three scopes
nest a locker in an unlocker in a locker, and cross two threads; slabs of two, five handles and
three scopes make a scope begin in one slab, end in another, and another
fill a slab exactly; three cells on two objects leave an element after the one whose
callback runs; two isolates and two runtimes register in all four ways, and while
fewer do, further `TracerData` is refused; three elements have a middle; the doubles lie
up to two halves to both sides of 0, 2^28, 2^31, 2^32 and 2^63, scaled to an `int32_t` of 6 bits;
four bytes are the longest sequence, of 16 code units that are first or
last of their kind; and three strings let a copy of a copy outlive both.  `MaxScopes`, `MaxHandles`, `MaxOpen`, `MaxLocals`,
`MaxStores` and `MaxBytes` name the bounds; the code has none of them.  Deadlock
is not checked: at their bounds the texts and the lists stop, a disposed isolate
has no successor, a process that aborted neither, and that the locks do not
deadlock is `NoDeadlock`, which names the threads.

Fairness.  `engine_live` assumes weak fairness of each thread's library steps:
the operating system runs every thread, and `pthread_once` wakes those who wait
when the one-time function returns.  The client owes nothing: its calls, and
the end of a thread, are never forced.  `testing` assumes weak fairness of the
cleanup destructor's own loop, which is sequential code, and, of the harness,
that a process that can go on does and that every test ends; the harness itself
has no timeout.

Where the code and its comments disagree, the run is expected to fail, and
`PROJECT.json` quotes the comment.  Both disposal races need a client that
calls `V8::Dispose` while others still use V8, or from a thread that has no
runtime; the comments promise to handle either.  Three smaller disagreements
have no run of their own.  `TearDownSpiderMonkey`, refusing to shut down while
others have runtimes, returns without the error that SpiderMonkeyUtils.h:77
announces.  With `V8MONKEY_NOABORTONASSERT=1`, `EnsureRuntimeAndContext` may
return to a thread without a runtime, which is why `Assigned` below assumes
`~NoAbort`.  And after `-h` a further `-l` is an error, though
run_v8monkey_tests.cpp:82 says that parsing stops at a request for help.

`weak_free_callbacks` is of the same kind, and below the reset line.

Six oddities are kept in the models, named beside the properties, which say
what holds around them, and have no run of their own.  In the platform layer a
`TLSKey` that was moved is deleted twice, a moved `Mutex` asserts in its
destructor, and a moved `Thread` carries its handle without `hasExecuted`, so
nobody can join it; nothing in the repository moves any of them after its use.
The other three are below the reset line.  `ToInteger` makes `INT32_MIN` of a whole
number beyond 32 bits.  `V8Number` calls numbers in [2^28, 2^31) unsigned only,
though `v8.h:1644` says of `IsInt32` that it recognizes a 32-bit signed integer.
The classifier of `utf8.cpp` rejects all of 0xED, although its comment calls
0x800 to 0xffff three bytes long.  (That a copy of an `SMEncodedString` takes the
number of bytes for that of the characters is said in 2.)

Several hazards of `PROJECT.json` have a note in place of a property.  A second
disposal, a callback that deletes the isolate it is called for, a thread that
ends inside an isolate, the data race on the flag, 256 failures and a `TLSKey`
moved are excluded by a client's rule or by a condition of the property, and a
property that assumes them away would not catch them; the note names the rule.
A moved `Mutex` or `Thread`, and a `Join` after a `Run` that failed, are steps of
`PlatformHandles`, but no property says more of them than the code does.

In the harness two of the faults hide a third.  `runTestsByName` returns a
`TestResult` without a value if it skipped every test, and `main` would branch
on it; it never does, only because `runTestsByFile` forgets what it ran.
`ResultIsKnown` holds, and its slip, which repairs the forgetting, breaks it.

## 4. Proofs

For every number of threads, not only three or four:

`EngineProofs` (any client)
: `Invariance` is the inductive invariant `IInv`: for each thread, `CallFits`
  (the labels at which it can be inside each call), `OnceFits` (what a label
  says of the one-shots and of the engine) and `SlotFits` (when a thread owns a
  runtime, and when its slot says so), with `OneRunner` (each one-shot has one
  runner) and `OnceDone`.  None of the properties is inductive without it: that
  `JS_Init` meets a fresh engine depends on who may be at `jsInit`, that a
  thread gets no second runtime depends on its slot being empty at every label
  up to `NewRuntime`, and so on.  On it rest `FirstAlone`, `OnceEach`,
  `RuntimeKept`, and `Assigned`, which needs `Abort` to abort (`~NoAbort`).
: `Counting` proves `runtimeCount = Cardinality(Counted)`, where `Counted`
  allows for the step between a slot and the counter, and from it that the
  counter stays between zero and the number of threads (`TypesHold`).  The lemmas `CountAdds`
  and `CountDrops` are about one thread entering or leaving that set.

`EngineProofs`, second part (a client that keeps the four rules)
: `SafeInvariance` adds `SafeInv`: while a thread disposes everybody else is
  outside, and the only runtime left is its own.  Its heart is `LastRuntime`: a
  count of at most one, and a runtime of one's own, leave nobody else's.
: `Refinement` proves `SafeSpec => ImplementsLifecycle`, initial state and
  step by step, if `JS_Init` does not fail (`"init" \notin Failures`).
: `NoAssertionFails` proves that no assertion fails, if no JSAPI call fails.
: `ExitsClean` proves that a process that ended left nothing behind.  It needs
  one more invariant, `Carried`: an engine that is up has a `tearDown`.

`IsolateHistoryProofs` (a client that leaves in LIFO order)
: `HistoryInvAlways` proves the inductive invariant `HistoryInv`.  Its parts say
  that the visits of an isolate and the entries of its vector match
  (`VisitsMatch`: each visit is a place in some thread's stack, the entry it
  left is what stands below, and a thread's later visits are deeper), that the TLS slot is the top of the stack
  (`StackMatches`), and that a callback's isolate is alive (`ReportedAlive`).
  The step that matters is `Exit`: a client that leaves in order is the last
  visitor of its current isolate, so the newest entry of the vector is the one it
  made, and what it made it from is what its stack has below.  On it rest
  `NeverUndefinedAlways`, `NoStaleEntryAlways`, `LifoExitRestores` (an exit lands
  where the thread came from) and `LifoImplementsThreadStacks`, the refinement.

`IsolateCleanupProofs` (a test that calls what it likes, then a destructor)
: `CleanupDeletesAlways`, from `CleanupInv`.  LIFO is no rule here, it follows: a
  thread that is alone in the isolates is the last visitor of whichever it is in
  (`NobodyElse`), so the lemmas about stacks and vectors of `IsolateHistoryProofs`
  apply; that part of them, `StoriesAgree`, does not depend on what callbacks do,
  and a test may delete an isolate from its own callback.  Once the test is over,
  each isolate it was inside is gone, or its vector has entries, or it is the one
  the loop has in hand; so when the thread is outside, and all vectors are empty,
  all of them are gone.  A refusal cannot abort: a vector that has entries has its
  thread inside some isolate, which takes the report.

`HarnessProofs`
: `ArgsInvAlways` is what `parseArgs` knows between two words: what it has
  collected is what the words before asked for, but for what a later word took the
  slot of.  `PrecedenceHoldsAlways` and `RequestsBackedAlways` follow.
: `RunInvAlways` is about the processes.  There are one or two (`Stacked`): a
  harness alone, or a harness and the child whose verdict it waits for (`Waiting`,
  `Alone`).  Of each it says that what it holds fits its stage (`Sound`), that
  everything requested was dealt with or lies ahead, in this loop or a later one
  (`Ahead`), and that a child holds nothing but its verdict.  Without the last a
  child could run the rest of its parent's work, which `ChildrenOnlyLeaveAlways`
  excludes; `ReportIsTrueAlways`, `ResultIsKnownAlways` and
  `ZeroMeansPassedAlways` rest on the others.  `ZeroMeansPassed` is said of runs
  with fewer failures than there are exit codes: 256 of them exit with 0.

`PlatformProofs`
: `HandlesOwnedOnceAlways`: whatever is moved, each native mutex has one owner
  and no `Mutex` names one that is gone; the same of keys until a `TLSKey` is
  moved.  The invariant says it per class and kind, and each action is shown to
  change at most one handle's owner.

`IsolateLockProofs`
: `LockInvAlways` proves `LockInv`: IDs are distinct and below the counter
  (`IDsInv`), what each label says of mutex and noted ID (`MutexInv`), that
  ownership is what the scopes say, up to the call under way (`ScopesInv`), and
  that the scopes of an isolate which decide alternate between taking and giving
  up (`AlternateInv`), without which the end of a locker could not be told from
  the end of the lock.  From it `LockedMeansOwnerAlways`,
  `OwnershipFollowsScopesAlways` and `OwnerReleasesAlways`.
: `NoDeadlockAlways`.  `OrderInv` says of orderly clients that what a thread waits
  for comes after all it holds, and, because an unlocker gives up something in the
  middle and takes it back later, that what each scope took or gave up comes after
  all that the scopes around it hold.  In a circle of waiting threads the greatest
  isolate waited for is held by one that waits for a greater; that there is a
  greatest needs finitely many threads.

`WeakHandleProofs`
: `WeakInvAlways` is the inductive invariant `WeakInv`: for each object a book
  (`BookOf`: the strong count is that of local handles, strong cells and the trace,
  the weak count is the length of the list, and the list has no cell twice), what
  is given out (`GivenInv`), and what the trace has still to visit (`TraceInv`: the
  element looked up before a callback is still listed, or there is none).
  `WeakBooksAgreeAlways` and `PresentIfReferencedAlways` are its parts.
  `WeakClearedByCollectionAlways`, an action property, needs it for the end of a
  trace: only there a cell loses its object unasked, and then every cell of the
  object is in the list and nothing strong refers to it.

`LibraryProofs`, GC rooters
: `RootInvAlways` and `RegistryAgreesAlways`.  The vector, SpiderMonkey's tables
  and the allocated data are three views of one set: `RootInv` says that the
  tables are the image of the vector, that data tells registrations apart, that
  a pair of isolate and runtime does, that both of them are alive, that the flag
  of an isolate covers all its registrations (without which `Dispose` could skip
  one), and that whoever is inside an isolate, or has objects in its handles, is
  registered (without which `ObjectsTraced` could not survive an `Enter`).

`LibraryProofs`, lists
: `ListKeepsBooksAlways`, from `ListInv`: each pointer has its inverse (`Chained`),
  what can be reached from the head is all there is, and no value is in the list
  twice.  What is reachable is defined without recursion, as the least set that
  has the head and is closed under `next`; that nothing becomes unreachable when
  an element is taken out is then a matter of adding it back to a closed set, and
  an element that followed itself (`NoLoop`) would be one no walk comes to.

`LibraryProofs`, strings
: `ArraysOwnedOnceAlways`, from an invariant that says that each string is as a
  constructor or a move leaves it (`Shaped`), and that arrays and the strings
  that have them correspond one to one.
: `StringsKeepTextAlways` adds the text.  Of an array it says (`Shows`) that its
  first zero comes no later than behind as many cells as the string's length, which a
  copy keeps (`CopiedShows`), whatever it reads beyond the end of the array.  That
  the encoders make such arrays, with no more units than bytes, is `KeepsAll`,
  of the encodings.

`LibraryProofs`, encodings
: `DecodesUnicodeAlways` and `EncodersKeepTextAlways`, for texts of any bytes and
  any length.  The first half is about one position.  `TwoBytes`, `ThreeBytes` and
  `FourBytes` turn Unicode's definition, by the scalar that the bits give, into
  the comparisons of bytes that the code makes; `TurnIs` and `OlderAt` then say
  that a turn of either loop reads the character that is there, and
  `PairOf` that the surrogates, which the code takes from the bits of four bytes,
  are those of the scalar.
: The second half is about the loops.  A `Walk` is a recursive function
  whose recursion goes up to the end of the text, so that it exists, and obeys its
  equation, has to be proved (`LoopEnds`, `WalkIs`), by a well-founded recursion on
  what is left.  What holds at the end, and before each turn if it holds
  after it, holds at every position (`Downwards`: else there is a last position
  where it fails).  By that, the second pass of `Utf16Encode` writes as many
  units as the first counted (`WritesAll`), and Latin-1 and UTF-16 agree where
  each character fits into a byte (`Latin1All`).

`LibraryProofs`, values
: `ConversionsRightAlways` and `ComparisonsAgreeAlways`, for any `Small`, so for integers of
  any width, and any doubles.  The invariant, `AllPossible`, is that a number has the
  tag of its constructor (`Possible`); it is what the cached tags rest on, since a
  conversion may return the value it was given.  Beneath it are lemmas on
  casts: division with remainder by `Size` (`ModIs`, `ModSize`), what each cast gives and when
  (`CastsFit`), and what a tag says of the number (`Classified`).  The sizes
  need no powers of two, only their ratios.  For the comparisons,
  `EqualsOfTwo` restates `Equals` without its receiver, from which the symmetry follows.

`LibraryProofs`, handle scopes
: `AccountsAgreeAlways`, from `HandleInv`.  Beside the accounts it says that
  every slab but the last is full (`SlabsFit`, which `NumberOfItems` takes for granted),
  that what each open scope kept is still an end in the block (`EndsKept`), and
  that inner scopes kept no earlier end than outer ones (`EndsRise`); without
  these the slots from a kept limit on would not be what came after.  Counts of
  slots are cardinalities: adding a slot adds one, and what `Leave` releases and
  what it keeps are two parts of one set.
: `HandlesImplementStack`, the refinement of `HandleStack`.  Between two limits the
  slots of a frame are those after its own and not after the next; a step leaves
  the lower frames alone because their ends lie no later than the end it cuts at
  (`LeftFrames`) or adds behind (`AddedFrames`).  That what is referred to are exactly
  the slots' objects needs that each slot lies in some frame, the last that
  begins before it.

Assumptions: `EngineAssumption` (finitely many threads, one of them is the
main thread), `LockAssumption` (isolates are numbers, threads finitely many),
`HarnessAssumption` (finitely many tests; exit statuses tell more than two
apart), `ListAssumption` (finitely many places for elements), `SlabAssumption` (a slab has
a slot), `SmallAssumption` and `DoublesAssumption` (doubles are of the form that the
model gives them), `TextsAssumption` (texts are bytes, or units other than zero, and without
the byte 0xed, which the older classifier misreads), `CodeUnitsAssumption` (bytes are bytes), `SmartPtrsAssumption` (finitely many smart pointers, as a count of
references must count them), `NullIsNoHandle`
and the like, which TLC evaluates on every run that uses them, and those named
above.

Every invariant and every action property of the passing runs is stated by a theorem.
Only model-checked: liveness (`CallsReturn`, `CleanupEnds`, `RunEnds`), which is
out of the prover's reach, as anything with ENABLED.

## 5. Not modelled

* V8's own headers, `v8.h` and `v8config.h`: declarations, more than half of
  the lines of the repository's C++.  They were read for what they promise.
* Of what is commented out: in `string.cpp`, `String::New`, which makes a
  number where it wants an encoded string, the assignments that its tests use and
  no source defines, and the second half, an older copy of `number.cpp`; `AutoLock` and `MiscUtils`, which
  keep no state; the default isolate, the list of `ThreadData` and
  what is left of the locks' interplay with them, whose bodies are incomplete at
  this commit.
* Strings as operands of the conversions and comparisons; `CheckDeath`, which
  answers for a dead isolate before any of it; the isolate's cache of primitives.
  `EncodeToUTF16` for input that is UTF-16 already, and its null iterators,
  which give an empty text.
* A collection that runs on another thread than the client, a `Release` from two
  threads at once (base_types.h:90 says that it is not safe), the temporaries of
  `AutoGCMutex`, concurrent use of the rooter registry.
* `Object::Trace` tells runtimes apart by their address, so an object left in a
  handle after its runtime ended could be taken for one of a new runtime that
  lives at the same address.  In `IsolateRooters` the objects go with their
  runtime.
* The result of `smDataKey.Set`, which the code ignores: `pthread_setspecific`
  fails only when it must allocate the second level of keys, beyond the first
  32 keys of the process.
* `Version`: a constant.
* In the platform layer: what two threads see of one `Mutex` (it is
  `pthread_mutex_t`), and moves of an object onto itself.
* In the harness: the order of the tests, their output, the registration of
  tests by static constructors (`Registered` is what it results in), empty
  arguments, on which `arg.front()` is undefined.
* Weak memory: steps are sequentially consistent.  `spiderMonkeyDestroyed` is a
  plain `bool` read by one thread and written by another; the rules of
  `SafeSpec` order the two, and without them the model reads the flag before or
  after the write, but no third way.
