# A verification project for node-webcl

node-webcl binds OpenCL 1.1 to JavaScript for Node: a C++ addon (`src/src/*.cc`)
with one class per OpenCL object, and a JavaScript file (`src/webcl.js`) that
checks argument types and forwards. This directory holds TLA+ models of the
addon, the TLC runs that check them and the theorems TLAPS proves about them.

Each model is translated from the code; the OpenCL runtime, V8, NAN and libuv
are not in the repository and are modelled by what the code relies on (the
`external` entries of `PROJECT.json`).

## 1. Inventory

| component | state | operations | interacts with |
|---|---|---|---|
| Object table (`manager.cc`, `webcl.cc`) | `Manager::objects`, `Manager::references`, the flag `atExit` | `add`, `remove`, `find`, `clear`; `releaseAll`, `onExit` | every class registers its wrappers; `getInfo` looks handles up; `src/webcl.js` calls `releaseAll(1)` on exit |
| Wrapper classes (`context.cc`, `commandqueue.cc`, `memoryobject.cc`, `kernel.cc`, `program.cc`, `sampler.cc`, `event.cc`, `device.cc`, `platform.cc`) | the native handle | creation, `getInfo`, `retain`, `release`, `Destructor()`; deletion by V8 | the runtime's reference counts; the table; the collector |
| Events (`event.cc`) | `Event::event`, `Event::status`, batons | `setEvent`, `setCallback`, `Event::callback`, `UserEvent::setStatus`, workers | runtime threads, libuv's pool and loop, `MakeEventWaitList` |
| Waiting (`webcl.cc`, `commandqueue.cc`) | none | `waitForEvents`, `finish`, `flush`, each with or without callback | blocks the event loop's thread |
| Command queue (`commandqueue.cc`) | the handle | 20 enqueue operations, each with a wait list and an event | events, memory objects, kernels |
| Program build (`program.cc`) | the handle, a baton | `build` with or without callback, `createKernel(s)`, `release` | the compiler; a runtime thread calls `Program::callback`, which queues a worker |
| Memory checks (`cl_checks.cc`, `commandqueue.cc`) | none | `bufferRectSize`, `imageRectSize`, typed arrays, overlap | pure functions |
| Kernel arguments (`kernel.cc`) | in the runtime | `setArg` | memory objects, samplers |
| Context creation (`webcl.cc`, `context.cc`) | handle, the WebGL object of a context | `createContext` in all its forms, `createCommandQueue`'s choice of a device, `createFromGL*` | platforms, devices, OpenGL |
| Platforms, devices, extensions (`platform.cc`, `device.cc`, `webcl.js`) | handle, available and enabled extensions of a wrapper; the table of the prototype | queries, `getSupportedExtensions`, `enableExtension` | the object table; `createContext`; the OpenGL calls |
| Exceptions, bindings, `lib/clUtils.js` | none of interest | tables and helpers | |

### What is hard

* Three parties change an object's life: the script, V8's collector and the
  runtime's threads. `Destructor()` reads a reference count, releases, and acts
  on what it read.
* A table entry lives on the wrapper's address and a handle the runtime may
  reuse. `find` ignores the type it is asked for.
* `getInfo` makes wrappers that own no reference; `create*` makes wrappers that
  own one; the class is the same.
* The exit hook releases what is in the table, in table order, while the
  runtime is still running commands.
* An event callback crosses from a runtime thread through libuv's pool to the
  loop, with an unlocked insertion on the way.
* `waitForEvents` and `finish` stop the only thread that can set a user event.
* A WebCLEvent can be passed to one command after another; its status is that
  of whichever callback was served last, and a wait list means the command it
  stands for at the call.
* An out-of-order queue runs commands in any order that wait lists, barriers,
  markers and waits leave open; non-blocking transfers use the script's arrays
  after the call.
* A build with a callback goes on beside the script, which may build again or
  let the program go; the callback reads what the program is by then.
* Lengths are computed in `unsigned`, `int` and `size_t` from numbers of the
  script, and compared across them.
* Whether an extension is enabled is kept twice, in a device's wrapper and in a
  table all devices share, with different lives.
* `createCommandQueue` searches an array it has filled in part.

### What makes each component correct

* Table: exact (an entry per wrapper with a handle, with that handle, counted
  once), never dangling, one wrapper per native object, emptied at exit.
* Wrappers: nobody releases a reference of the runtime's; after exit nothing
  remains that the script cannot account for.
* Events: a callback is called at most once, after its event got there, with a
  true status, and eventually; a status a wrapper shows was real.
* Waiting: a script that does not wait for itself is not stuck; asynchronous
  waits do not stop the loop.
* Queue: commands start in the promised order; what a blocking call waited for is
  over; a script that orders conflicting commands sees a sequential execution.
* Build: a callback is told the result of its build, once; success is only told
  when there was one.
* Memory checks and arguments: what passes stays within the array or buffer,
  what is in order passes.
* Devices: the default queue is a GPU's, and stale memory does not decide it;
  what was enabled stays enabled; OpenGL is open only after it was granted.

## 2. Modules

### `WebCLObjects`: the life of wrappers and of what they stand for

Components: the object table and the lifetime half of every wrapper class.

| TLA+ | code |
|---|---|
| `class`, `field` | the C++ object at an address; its `context`, `command_queue`, ... member |
| `objects`, `references`, `Register`, `Unregister`, `Found` | `Manager` and its `add`, `remove`, `find` |
| `atExit`, `mode`, `left`, `StartClear`, `ClearVisit`, `ClearDone`, `CollectDone` | `releaseAll`, `onExit`, `Manager::clear` and the garbage collection it forces |
| `dtor`, `DestructorQuery`, `DestructorRelease` | one `Destructor()` call: a native query, a native release; the runtime may act between the two |
| `Create*`, `*GetInfo`, `GetPlatforms`, `GetDevices`, `NewEvent`, `Retain`, `Release`, `Enqueue` | the methods of these names |
| `SetEventAssign` | `Event::setEvent`, after its `Destructor()` |
| `Collect`, `DeleteWrapper` | V8 deletes a wrapper: `~X`, `~WebCLObject` |
| `refs`, `hclass`, `retains`, `running`, `AllocateNative`, `CompleteCommand`, `FreeNative` | the OpenCL runtime: counts, classes, references between its objects, commands |

Choices of the model:

* A handle is a member of a small set and can be allocated again once it is
  free, as an address can.
* When the runtime rejects a handle, `count` stays uninitialized: the model
  takes 1 or another value.
* In `Manager::clear` a `Destructor()` that erases the entry under the iterator
  is undefined behaviour: the loop may reach any subset of the rest, or crash.
* `Collect` may take any wrapper: which ones the script can still reach is the
  script's affair. Wrappers pinned by a callback are collected too, which only
  adds behaviours.
* `CarefulClient` restricts the script, not the code: it releases an object
  when the runtime has no reference to it and nothing is done after
  `releaseAll`, the order the examples use (`src/examples/saxpy.js`).
* `cleared` and `leaky` are history variables for the properties.
* `Event::release` forces a collection first: a series of `Collect` steps.
* Buffers and images are one class; sub-buffers are not divided again. Devices
  handed out by `getInfo` are `GetDevices` steps, platforms `GetPlatforms`.

### `CallbackContract`: what `setCallback` promises

The abstract specification: a callback is pending, and is called once, when its
event has reached its status, with that status or the failure. The process may
exit at any time and then nothing is called any more.

### `EventLoop`: libuv and the workers

What `WebCLEvents` and `ProgramBuild` share: `NanAsyncQueueWorker` from the main
thread (`QueueWork`) and from a thread of the runtime (`StartQueueing`,
`EndQueueing`), the empty `Execute()` on the pool, `HandleOKCallback` on the loop
(`Serve`), the end of a turn of the script (`Return`), the end of the loop
(`Leave`). All but the few lines of a worker and a callback in `event.cc` is
external.

`active` is libuv's list of active requests, which keeps the loop alive. It has
no lock, and `event.cc:274` and `program.cc:378` insert from threads of the
runtime. Such an insertion is therefore two steps, with the thread in `inserting`
between them. When any other thread, the main thread or a second one of the
runtime, uses the list meanwhile (`Touch`: it inserts, or removes what it has
served), the list may come out damaged (`intact`): either thread's entry may be
missing, or a pointer lead to a freed one. What a damaged list does is undefined
behaviour; the model lets the process leave the loop at any time, with whatever
is waiting unserved, or go on.

### `WebCLEvents`: events, callbacks, waiting

| TLA+ | code |
|---|---|
| `event`, `wstatus` | `Event::event`, `Event::status` |
| `baton` | a `Baton` inside an `EventWorker`, `WaitForEventsWorker` or `FinishWorker`, with the place it has reached |
| `SetCallback`, `EventCallback` and `CallbackReturns`, `Execute`, `HandleEvent` | `Event::setCallback`, `Event::callback` on a runtime thread up to its insertion and after it, the worker on a pool thread, the worker on the loop |
| `Enqueue`, `AcceptsWaitList` | any enqueue operation with a wait list and an event; `MakeEventWaitList` |
| `WaitForEvents`, `WaitForEventsAsync`, `HandleWait` | `waitForEvents`, its worker |
| `Finish`, `Unblock`, `HandleFinish` | `CommandQueue::finish`, its worker |
| `SetStatus`, `CreateUserEvent`, `Release`, `Flush` | the methods of these names |
| `mode`, `block` | the main thread: in a turn of the script, polling, blocked in a native call, gone |
| `status`, `deps`, `user`, `flushed`, `Submit`, `Start`, `End`, `Abort` | the runtime's commands |
| `EventLoop`: `pool`, `done`, `active`, `inserting`, `intact`, `mode` | libuv's pool and loop, NAN's workers |

Choices of the model:

* `LoopWorkServed` is about processes whose list was never used by two threads at
  once. Nothing in the code rules the overlap out, and with it nothing is
  promised: `events_async` reaches exits with a queued worker unserved, of the
  main thread as of the runtime's.
* `Release` is the case where nothing of the runtime uses the event any more;
  `WebCLObjects` has the others. Garbage collection is left to `WebCLObjects`.
* A command that is rejected changes nothing, so a rejection is no step.
* The script does not call `waitForEvents` or `finish` when what it waits for
  hangs on a user event that it has not set: nobody else could set it.

`CallbacksKept` says that `WebCLEvents` implements `CallbackContract` under a
mapping that collects batons of kind `event` by stage: `PendingCalls` and `CallsMade`.

### `CommandQueue`: the enqueue operations

| TLA+ | code |
|---|---|
| `EnqueueNDRangeKernel` ... `EnqueueReleaseGLObjects` | the 20 methods of these names |
| `SameContext`, `AcceptsWaitList`, `WaitList`, `Blocking`, `SetEvent` | what each of them does: the context check, `MakeEventWaitList`, the blocking flag, `Event::setEvent` |
| `EnqueueBarrierAlone`, `EnqueueBarrierAndWait` | `enqueueBarrier` without and with wait list: one or two native commands |
| `Finish`, `WaitForEvents`, `Unblock` | `finish`, `waitForEvents` and their return |
| `Store` | the script writes into its array or a mapped Buffer |
| `cmd`, `content`, `OrderedOn`, `Precedes`, `Start`, `End` | the OpenCL runtime: commands, memory, execution |
| `mapped`, `View` | the node Buffers over mapped memory |

The history variables are the script's side of the contract: `named`, the command
it takes a WebCLEvent for; `order`, what must be over before a command starts,
directly or not; `known`, what blocking calls have told it; `expected`, memory
and arrays as if each command had run at its call. `OrderKept`, `KnownIsOver`
and `ReadsAreSequential` compare them with what happens.

Choices of the model:

* A command moves all of its operand (a copy within one object makes a new
  content), reading at its start and writing at its
  end, so that commands that are not ordered race. Rectangles, offsets and
  lengths are left to `ArgumentChecks`; a rejected call changes nothing and is
  no step, but for `enqueueBarrier`, which may fail half way.
* A native event is named by its command. Commands do not fail and the runtime
  needs no flush: `WebCLEvents` has both.
* A value is the number of the command or store that made it; stores of the
  script take a number of their own.
* The event is stored when the command is enqueued; the code stores it when a
  blocking call returns, and the script cannot look in between.
* `Careful` restricts the script: commands that touch the same data are ordered
  by events, barriers, markers or blocking calls, and an array is not written
  while a command may use it. Arrays stay alive while they are used.

### `ProgramBuild`: building with a callback

| TLA+ | code |
|---|---|
| `Build`, `DevicesOfProgram`, `BuildStarts`, `BuildRejected` | `Program::build`: its check of the device list, `clBuildProgram`, its errors |
| `build[b]` | one call: its baton, the devices still compiling, `baton->error`, the place `Program::callback` has reached |
| `ReadStatus`, `OrStatus`, `QueueWorker`, `CallbackReturns` | `Program::callback`: one query per device, `baton->error \|= err`, the worker, whose insertion begins and ends |
| `HandleBuild`, `PoolRuns`, `ScriptReturns` | `ProgramWorker` |
| `CreateKernel`, `ReleaseKernel`, `Release`, `Collect` | kernels, `Program::release`, `~Program` |
| `status`, `live`, `refs`, `kernels`, `Compile`, `FreeProgram`, `RuntimeBuilds` | the runtime's program and compiler |

Choices of the model:

* `Program::callback` runs on a thread of the runtime: between two of its
  queries the script may do anything, so each query is a step.
* A query of a freed program fails and leaves its variable as it was
  initialized: no devices, or `CL_SUCCESS`. `lost` records it.
* `|=` is on negative numbers in two's complement: `OrStatus` is the table of
  the four values of `cl_build_status`.
* The build log, the options string and the callback's second argument carry
  nothing the properties need. No device list and the list of all are one.
* `careful` is a variable set at the start: a careful script builds for all
  devices, one build at a time, and releases the program between builds. It
  restricts the script of `BuildsKept` only; `SuccessIsReal` is about both.

`BuildsKept` is the refinement of `CallbackContract` by builds: an event is a
build, which fails when the compiler does.

### `ArgumentChecks`: lengths, rectangles, kernel arguments

A module of functions. Its state is one call, its arguments and whether it
passed, so that each operation with its checks is an action.

| TLA+ | code |
|---|---|
| `Int32`, `SizeT`, `UInt32` | conversions to `int`, arithmetic in `size_t`, `Uint32Value()` |
| `HostLength`, `ElementBytes` | `getPtrAndLen`, `getTypedArrayBytes` |
| `BufferRectSize`, `ImageRectSize` | `bufferRectSize`, `imageRectSize` |
| `WriteBuffer` ... `CopyBufferToImage` | the checks of the enqueue operations of these names, before `MakeEventWaitList` |
| `SetArg`, `ArgLength`, `ArgBytes`, `Quotient`, `TypeNames`, `ArgSizes`, `ReservesLocal`, `LocalSizes` | `Kernel::setArg` with an array: `len` and `bytes`, the product and the quotient, in `int`; the name of the parameter's type; `__local` |

Choices of the model: widths are parameters (`HalfWord` is 2^31 in the code);
`size_t` is as wide as two `unsigned`, as on a 64-bit machine. One typed array
of each element size stands for all of that size. A type name that the runtime
could not give is uninitialized memory and may look like any. A product of `int`
that overflows is undefined behaviour in C++; the model has the wrapped product
of the machine's instruction.

The properties compare the code's sums with sets of bytes and elements:
`CopyBufferExact` and `ImageCopiesExact` say which calls pass, no more and no
less; `TransfersFitArray` that what passes fits the script's array, where the
code promises it; `LegalCallsPass` that no call in order is refused;
`ArgSizeRight` what `setArg` passes: the size of a vector for parameters of the
table's types, and the array's own size for one element or a `Buffer`, where the
type's name must not matter. Each states where it does not hold; section 5 says
why.

### `Devices`: extensions, contexts, the default queue

| TLA+ | code |
|---|---|
| `wrapper`, `Show`, `Found`, `GetDevices`, `ContextDevices`, `QueueDevice` | device wrappers and who hands them out |
| `available`, `enabled`, `EnableExtension`, `GetSupportedExtensions`, `Asked` | the fields of `Device` and its methods |
| `Drop`, `Collect`, `DropAside`, `ReleaseAll` | the script drops a wrapper, V8 deletes it, `webcl.releaseAll()` empties the table |
| `named`, `NamedAfter`, `Keys` | `WebCLDevice.prototype.enable_extensions` in `webcl.js` |
| `FromType`, `FromDevice`, `FromDevices`, `NewContext` | the cases of `createContext` |
| `CreateCommandQueue`, `Arrays`, `FirstGPU`, `FirstWith`, `Chosen`, `Checked` | `Context::createCommandQueue` |
| `CreateFromGL` | `createFromGLBuffer`, `createFromGLTexture`, `createFromGLRenderbuffer` |
| `Listing`, `Supports`, `GPUs`, `QueueProps`, `Accepted` | the runtime |

Choices of the model: a wrapper is named by its device, which `OneWrapperPerObject`
of `WebCLObjects` justifies for devices found in the table. `releaseAll()` takes
all of them out of it, while the script goes on with those it holds (`aside`).
A device it then asks for again has two wrappers, of which the model follows the
new one. The contexts that `releaseAll()` releases are any, since
`Manager::clear` may skip entries. Two extensions stand
for all, one of them guarding calls. The array of `createCommandQueue` holds the
context's devices and, in its remaining places, any device or a value that is
none. `Slots` is the size in bytes of the number of devices, which the code takes
for that number: 4 there, a parameter here.

## Proofs

Each proof module is about all values of the constants its module's assumptions
allow: any number of objects, handles, devices, commands, builds and any word
size. `SequentialReads` assumes `Careful` besides, and the theorems of
`WebCLOwnership_proofs` assume `CarefulClient`: their properties do not hold for
a careless script.

The assumptions on constants, and why the code meets them:

* `ConstantsAssumption` (`WebCLObjects`): addresses of native objects, platforms
  and devices differ and none is 0; there are finitely many, so that the
  references to one can be counted. `FramesAssumption`: a call on the stack is
  not 0.
* `ChecksAssumption` (`ArgumentChecks`): numbers and pitches are of 32 bits,
  images and buffers are not empty, and an image has no more bytes than a
  `size_t` counts, as it has been allocated. Without the last one a runtime
  could name an image whose size in bytes wraps around, and
  `enqueueCopyImageToBuffer` would take it for a small one.
* The assumptions of the other modules give the constants their types.

### `WebCLObjects_proofs`

`TypeCorrect` (`Spec => []TypeOK`) goes action by action; lemmas about the
table's operators, native allocation and frames are stated once. Creators and
getInfo queries are reduced to `CreateObject` and `GetInfo` by `CreateCases`
and `QueryCases`.

`TableIsExact` (`Spec => []TableExact`): `TableExact` is not inductive. The step
that removes an entry acts on the wrapper of the frame on the stack, so the
frame must name an existing wrapper, a WebCLEvent if `setEvent` is the caller
(`FrameExact`); a WebCLEvent has no entry (`EventsUntabled`), or `setEvent`
would leave one with the old handle; and with `atExit` set nothing is
unregistered, so outside the exit hook's loop the table must be empty
(`ModeExact`). `TableInv` is the conjunction. `UnregisterTable` is the core:
an exact entry is counted once, so removing it once removes it.

Both rest on the module's assumptions only: wrappers, handles and their number
are arbitrary, and so is `CarefulClient`.

### `WebCLOwnership_proofs`

The runs of `objects_careful` ask of a careful script whether a `Destructor()`
ever releases a reference that is the runtime's (`RuntimeRefsIntact`), whether
an entry of the table dangles (`RegisteredIsLive`) and whether two name one
object (`OneWrapperPerObject`). None is inductive. What is behind them is who
owns what, `OwnInv`, proved invariant as `OwnershipKept`:

* `OwnersExact`, `OwnersDistinct`: a wrapper with a handle is an `Owner` of one
  reference beside the runtime's own, and no other wrapper is of the same.
  Collection does not end that, since only user events release when they are
  deleted. Between the release in `setEvent` and its assignment the wrapper owns
  nothing (`Replacing`); after `releaseAll` only those still to be visited do.
* `FrameOwns`: a `Destructor()` on the stack releases what its wrapper owns, the
  event that `setEvent` will assign is nobody's yet, and the count that was read
  is still the count when it is acted upon. This is where the interleaving with
  the runtime's threads is harmless, and only for a careful script: `release()`
  is called when the runtime has no reference left.
* `ParentsOwed`: what is alive can be handed out by `getInfo` though its wrapper
  was collected, and then a new wrapper owns what the old one left.
* `EventsUnretained`, `UserEventsSingle`: only a command keeps an event, so the
  collector may release a user event.
* `FieldsExact`, `DevicesDistinct`, `ClearedEmpty` relate class and handle, make
  devices unique, and empty the table once the exit hook is through. `TableInv`
  of the previous module is part of it.

`AllocateCounts` and its companions count the runtime's references through each
native step (`RuntimeRefs` is the cardinality of the set of those who retain).
From `OwnInv` each of the three properties follows in a few lines.

### `WebCLEvents_proofs`

`EventInvariant`: `EventInv` is inductive. `FailureIsReal` alone is not: a
wrapper takes its failure from a baton, so batons must carry what their event
reached (`BatonExact`, `ToldRight`), and an event that failed must stay failed.
`LoopWorkServed` needs that what libuv has is there once and waits to be served,
that every worker queued, by the main thread or by one of the runtime, is on the
list of active requests, and that those in `inserting` are not queued yet
(`QueuesExact`), as well as that the baton a blocked `finish` will use is not in
use (`BlockExact`). The loop leaves with the list empty or damaged, so with the
list intact no worker is waiting. `EventTypes`, `FailuresAreReal` and
`WorkIsServed` follow.

`CallbacksAreSafe` is the step simulation: under the mapping of `CallbacksKept`
the initial state is one of `CallbackContract`, and every step is a step of it or
a stutter. `ToldRight` gives the guard of the contract's call. The contract's
liveness is for TLC.

### `CommandQueue_proofs` and `CommandQueueData_proofs`

`QueueInvariant`: `OrderKept` says that all of `order[c]` is over when `c`
starts, but `Start` looks only at what holds `c` back directly. The bridge is
`OrderGrounded`: everything in `order[c]` holds `c` back, or is in the order of
something that does. The same for blocking calls (`BlockGrounded`), whose return
teaches the script what the awaited commands come after. `EventsExact` says that
script and addon mean the same command by a WebCLEvent. `TypesKept`,
`StartsInOrder` and `BlockingWaits` follow, for careless scripts too.

`SequentialReads` builds on it. `RaceFree` is what `Careful` gives: of two
commands in conflict one is in the order of the other, or was over. The
invariant names a value for each command, the one it writes when each command
runs at its call (`ValueOf`), and says that memory holds the value of the last
command that is over (`Written`) and `expected` that of the last one issued.
When the script may read a place, the two sets are the same.

### `ProgramBuild_proofs`

`BuildInvariant`: while `Program::callback` has found no failure, each device
before the next one it asks has been built for (`ReadRight`), since `OrStatus` is 0 only
of two zeros (`OrIsZero`) and a status `CL_SUCCESS` is never there without a
build (`built`). `BuildTypes` and `SuccessToldIsReal` follow.

`BuildsAreSafe` is the step simulation of `BuildsKept`: every step is one of
`CallbackContract` or a stutter. It needs `PromiseInv`, about careful scripts:
one build is in flight at a time and keeps the program; and the outcome of the
build is, from start to call, in one place after another (`OutcomeExact`): in
the statuses of the devices that are compiled, of those that were read, in
`baton->error`. Without the second part a callback could lose a failure between
two queries; without the first another build would overwrite it.

### `ArgumentChecks_proofs`

`CopiesAreExact` rests on two lemmas about ranges of bytes: one lies within a
buffer exactly when its end does, two of one length meet exactly when the code's
test says so. `ArgSizesAreRight` computes the size `setArg` passes, parameter
type by parameter type: below half a word the conversions to `int` change neither
the length nor the product (`BytesAreExact`, `LengthIsExact`), so the quotient is
exact (`ArgBytesRight`).

`CallTypes`, `ImageCopiesAreExact`, `TransfersFit` and `LegalCallsPassChecks`
hold of each call as it is made, so the work is in arithmetic modulo two word
sizes, and in products, which the solvers do not find alone:

* `SizeTIsRest`, `Int32OfSize`, `RestIsSmall`: what `size_t` and `int` do to a
  number; a sum that fits is not changed, one that wraps only gets smaller.
* `PlacedIsBounded`, `ImageRectPlaces`, `PlacedFits`: a flat region is placed
  exactly when the sums of its corner are within the image, which `imageRectSize`
  asks first; then its bytes are no more than the image's, so nothing wraps.
* `RectEnds`, `VolumeIsBounded`: the last byte of a rectangle, and that a
  rectangle within a length has no larger volume; with them `RectPassed` (what
  passes fits the array) and `RectInOrderFits` (what is in order passes, with any
  pitches: `bufferRectSize` never overestimates the extent).
* `HostLengths`, `LongerFits`: the length of an array as the code sees it is never
  more than the array's, so wrapping never makes room that is not there.

### `Devices_proofs`

`EnabledStays` and `SharingWasGranted` share `ExtInv`: the table of the prototype
names sharing only when some device was given it. `EnabledStays` covers the step
of `releaseAll()` itself; its exception is the next request for a device the
script held through it. `DefaultIsFirstGPU`: the array
begins with the context's devices, so its first GPU is the context's first if
there is one; if there is none, a GPU from stale memory is not of the context
and the runtime refuses it. The proof needs that the first GPU of a list exists
(`IsFiniteSet`, and that the naturals are well-founded).

`DeviceTypesHold` proves the types, which say more than types here: what is
enabled is known, and nothing is left of a collected wrapper. `TypeInv` adds
that the two fields are functions on the devices, without which an update at a
device is not an update.

## 3. Runs

| run | question | bounds | result |
|---|---|---|---|
| `objects_table` | is the table exact whatever the script does? | 3 wrappers, 2 handles, a platform, a device, 6 classes, careless script | `TypeOK`, `TableExact` hold |
| `objects_careful` | are table and reference counts right for a careful script, is there one wrapper per object? | 3 wrappers, 3 handles, contexts, memory objects, queues, events, 2 references by `retain` | `RegisteredIsLive`, `RuntimeRefsIntact`, `OneWrapperPerObject` hold |
| `objects_exit` | does the exit hook free everything it should? | 2 wrappers, 3 handles, contexts, queues, events | `ExitReleasesAll` holds |
| `objects_release_all` | does `releaseAll` visit every entry? | 2 wrappers, 2 handles | violated |
| `events_callbacks` | are callbacks delivered as promised, do waits return? | a WebCLEvent, a user event object, 2 native events, 2 batons, callbacks for RUNNING (a failure or a later status may overtake them) | `CallbacksKept`, `BlockedReturns` hold |
| `events_async` | what holds with asynchronous waits, and with overlapping insertions? | the same, type COMPLETE | `TypeOK`, `FailureIsReal`, `LoopWorkServed` hold |
| `events_async_wait` | are the events over when the wait's worker is served? | 1 baton | violated |
| `queue_order` | do commands start in the promised order, do blocking calls wait? | an in-order and an out-of-order queue, a buffer shared with OpenGL, a kernel of a second context, 2 WebCLEvents, 3 commands, careless script | `TypeOK`, `OrderKept`, `KnownIsOver` hold |
| `queue_data` | does a careful script see a sequential execution? | an out-of-order queue, a buffer and an image, one mapped at a time, a kernel, an array, a WebCLEvent, 3 commands and stores | `ReadsAreSequential` holds |
| `program_build` | is a build's callback told the truth, is it called? | a program of 2 devices, a third device that is not of it, 2 builds, careful and careless scripts | `TypeOK`, `SuccessIsReal`, `BuildsKept` hold |
| `argument_checks` | which transfers, copies and arguments pass, and should they? | 6-bit `unsigned`, 12-bit `size_t`; numbers, corners, regions, pitches and sizes around the boundaries | `TypeOK`, `CopyBufferExact`, `ImageCopiesExact`, `TransfersFitArray`, `LegalCallsPass`, `ArgSizeRight` hold |
| `devices` | is the default queue a GPU's, do extensions stay, who opens OpenGL? | a platform with a CPU, a GPU that can share and an accelerator, in this order, a second platform with a GPU that cannot share; one context, 2 places for devices, `releaseAll` at any time | `TypeOK`, `DefaultPrefersGPU`, `GLNeedsEnabling`, `EnablingSticks` hold |

Why these bounds are enough to be interesting: two handles suffice for a parent
to be freed and its address reused while a child lives, three for a chain
(context, queue, event); three wrappers for an object, its parent and a second
wrapper of either. Two native events give a command gated by a user event, or a
wrapper used for two commands; two batons give two callbacks that overtake one
another, or a callback beside a wait. Three commands are a barrier, its wait and a
command after both, or a command between two that conflict. Two WebCLEvents give
a list of which one is over. `MaxCommands`, `MaxRefs`, `MaxEvents`, `MaxBatons`
and `MaxBuilds` bound what a run of the program does without bound: commands,
calls of `retain`, native events, asynchronous calls and builds. Two builds of
two devices are a callback that reads one device before and one after a second
build. The numbers of `argument_checks` are those next to 0, to the sizes of the
buffers and arrays, to half the word and to the word: sums wrap in `unsigned`
and look negative as `int`. Two places and up to three devices are a list that
is shorter than the array, one that fills it and one that does not fit. Runs
with liveness use no symmetry.

The `queue_*` runs stop when `MaxCommands` is used up, so they do not check
deadlock. `events_async` does not check deadlock either: the program can deadlock
there, in the way `events_async_wait` shows.

### Fairness

* `WebCLObjects`: native calls in progress return, commands end, dead objects
  are freed. Neither the script nor the collector has to do anything.
* `WebCLEvents`: weak fairness for the runtime (only commands that have been
  flushed are submitted: `setCallback` does not flush, waiting does), for its
  callbacks, the pool and the loop. Strong fairness for the end of a script's
  turn: the turn may be interrupted by blocking calls, each of which returns.
  No fairness for calls of the script or for the loop's exit.
* `ProgramBuild`: weak fairness for the compiler, the runtime's callback, the
  pool and the loop; strong fairness for the end of a turn, which a build
  without a callback interrupts.
* The other modules have safety properties only and state no fairness.

### Findings

1. `objects_release_all`: `Manager::clear` erases under its own iterator.
2. `events_async_wait`: an asynchronous wait blocks the event loop, for ever if
   the script was to set the user event in a later turn.

## 4. Only model-checked, not modelled

Liveness is for TLC only: `ExitReleasesAll`, `BlockedReturns`, and the liveness
in `CallbacksKept` and `BuildsKept`: they rest on fairness, which TLAPS does not
reason about here. Every safety property of a passing run is proved for all values
of the constants, and of the two refinements the initial states and steps.

Not modelled:

* `Context::releaseAll`, which registers a null exit callback with node: the
  process is past its last step when that is called.
* The collection of arrays that a command still uses: scripts are taken to keep
  them.
* Native memory of the addon: batons of rejected calls and arrays of rejected
  wait lists that are never freed.
* The parsing of the options string of `build`, `validateMemFlags` and the other
  checks of creation arguments against lists of constants.
* `getSupportedImageFormats`, `getGLContextInfo` and the queries that convert a
  native value; profiling; exceptions (a table and a value class); the bindings
  (exported once, at load time); the helpers for scripts in `lib/`, which keep no state.
* Argument types in `src/webcl.js`, which throws before it forwards a call. It
  wants a number where `CommandQueue::enqueueMapImage` wants an array as origin
  (`src/webcl.js:430`) and so refuses every call in order; `CommandQueue` models
  the C++ method.
* A device's first wrapper, once a second one was made after `releaseAll()`.

## 5. Consequences of the design, and limits of the properties

What follows was met while modelling. It follows from the code by itself, or
depends on the runtime, and is why some properties exclude a case.

Objects:

* A wrapper collected without `release()` leaks its native object, which the
  exit hook does not see: `ExitReleasesAll` excuses it (`leaky`).
* A careless script that releases an object in use leaves the wrapper its handle
  and its entry; with the address reused `getInfo` may hand out the wrong wrapper,
  so `OneWrapperPerObject` is checked for careful scripts only.

Events and queues:

* `setEvent` does not reset `status`: a WebCLEvent reused after a failure is
  refused in wait lists though its event has not failed. `FailureIsReal` speaks
  of some event of the wrapper.
* No property says in which order statuses that are not failures reach a wrapper:
  `setStatus` writes them as the workers are served.
* Insertions into libuv's list from threads of the runtime (`event.cc:274`,
  `program.cc:378`) may damage it; the loop may then end with callbacks, asynchronous
  waits and `finish` callbacks unserved. `LoopWorkServed` holds without that.
* `enqueueBarrier` never stores its event.
* The copy operations compare the queue's context with the source's, not with
  the destination's.
* Out-of-order queues presuppose a runtime that accepts a query of
  `CL_DEVICE_QUEUE_PROPERTIES` with a result of four bytes instead of eight. One
  that checks sizes refuses every such queue: `Devices` has such a runtime,
  `CommandQueue` the other.

Transfers (`ArgumentChecks`):

* `enqueueReadBuffer` compares the array's length with the offset in the buffer
  and not with the size: `TransfersFitArray` is about writes of buffers.
* `enqueueWriteBuffer` adds the offset in the buffer to the size and refuses legal
  calls: `LegalCallsPass` excludes it.
* The rectangle transfers compare both rectangles with the array and refuse a
  pitch that is as long as the array; with explicit pitches `bufferRectSize`
  underestimates the extent, and `TransfersFitArray`, which leaves them out, does
  not catch what that lets through.
* An array of 2^31 bytes or more has a negative length, which `imageRectSize`
  takes for no array.
* `enqueueCopyImageToBuffer` leaves the offset out of its check;
  `enqueueCopyBufferToImage` compares corner and region with the image one by
  one. What they let through is for the runtime to refuse.
* `createSubBuffer` refuses a region whose origin is not less than its size.

Kernel arguments (`ArgumentChecks`):

* Vectors of three elements are passed with three quarters of their size; a
  64-bit integer parameter has no typed array and gets half of it.
* `len` and `bytes` are `int`, and `bytes*=vecSize` comes before `bytes/=len`. From
  a product of 2^31 on it overflows: a `float4` argument set with a `Float32Array`
  of 2^28 elements has the product 2^32, and the size comes out 0 and not 16.
  `ArgSizeRight` needs the product to be less than 2^31.
* Without argument info from the runtime (programs made from binaries) `typeName`
  is not initialized, and the size passed for an array of several elements
  depends on what it looks like. `ArgSizeRight` then speaks only of one
  element and of a `Buffer`, whose size does not depend on the name.

Builds:

* A build for some of the program's devices reads the status of all, and
  `CL_BUILD_NONE` of the others is told as an error.
* A careless script that releases the program during a build may be told
  success: the query of a freed program leaves `CL_SUCCESS` (`lost`).
* The baton of a rejected build is never freed.

Devices:

* `createCommandQueue` takes the size of `CL_CONTEXT_NUM_DEVICES`, 4, for the
  number. In a context of fewer devices the rest of its array is uninitialized:
  with a device left there by an earlier call, a context without a GPU may be
  refused its default queue, which `src/test/test.createQ_no_device.js` relies on;
  any other value is used as a device. With more than four devices the list does
  not fit and the call is refused.
* `createContext(devices)` does not look at enabled sharing; only
  `createContext(gl, device)` keeps the WebGL object, without which
  `createFromGL*` refuses.
* `releaseAll()` empties the table of objects (`manager.cc:53`) and devices stay
  usable: one asked for again comes with a second wrapper, on which nothing is
  enabled, the exception in `EnablingSticks`.
* What was enabled is lost with the device's wrapper, while the prototype's table
  still says enabled. This, the missing WebGL object and the `TypeError` below are
  refusals or disagreements, which `GLNeedsEnabling`, about openings, does not
  notice.
* `enableExtension` with an OpenCL name, which the table does not have, throws
  after the device was changed.
* What `WebCL.enableExtension` and `Platform.enableExtension` store is never read.

## 6. Plan

1. `WebCLObjects`, its types and the exact table proved. Done.
2. `CallbackContract`, `EventLoop`, `WebCLEvents`; types, failures, served work
   and the step simulation proved. Done.
3. `CommandQueue`; types, order, blocking calls and sequential reads proved. Done.
4. `ProgramBuild`; types, told successes and the step simulation of `BuildsKept`
   proved. Done.
5. `ArgumentChecks`; all its properties proved. Done.
6. `Devices`; all its properties proved. Done.
7. Proofs for the careful script: an ownership invariant, from which
   `RuntimeRefsIntact`, `RegisteredIsLive` and `OneWrapperPerObject` follow. Done.
