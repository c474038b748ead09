------------------------------ MODULE WebCLObjects ------------------------------
(***************************************************************************)
(* Lifecycle of the JavaScript objects of node-webcl and of the OpenCL     *)
(* objects behind them.                                                    *)
(*                                                                         *)
(* A wrapper is the C++ half of a JavaScript object (a WebCLObject, see    *)
(* src/src/common.h); its field holds the native handle.  The Manager of   *)
(* src/src/manager.cc keeps a table from wrappers to native handles, used  *)
(* by getInfo to hand out the wrapper that already exists for a handle and *)
(* by the exit hook of src/webcl.js to release what is left.               *)
(*                                                                         *)
(* Three parties act: the JavaScript thread, V8's garbage collector (which *)
(* deletes unreachable wrappers, on the same thread), and the threads of   *)
(* the OpenCL runtime, which hold references of their own while commands   *)
(* run and until they get round to freeing a dead object.  A Destructor()  *)
(* reads the reference count and releases the handle in two native calls,  *)
(* and the runtime's threads can run in between.                           *)
(***************************************************************************)
EXTENDS Naturals, FiniteSets

CONSTANTS
  Wrappers,      \* addresses at which C++ wrapper objects can be allocated
  Handles,       \* addresses at which the runtime can allocate native objects
  PlatformIds,   \* cl_platform_id values: they live as long as the process
  DeviceIds,     \* cl_device_id values: the same
  Kinds,         \* the wrapper classes in use
  MaxRefs,       \* retain() is not called on an object with this many references
  CarefulClient, \* does the script follow the release discipline of the examples?
  NULL

AllKinds == {"platform", "device", "context", "queue", "mem", "program",
             "kernel", "sampler", "event", "userEvent"}

ASSUME ConstantsAssumption ==
  /\ Kinds \subseteq AllKinds
  /\ MaxRefs \in Nat
  /\ CarefulClient \in BOOLEAN
  /\ NULL \notin Wrappers \cup Handles \cup PlatformIds \cup DeviceIds
  /\ NULL \notin AllKinds
  /\ IsFiniteSet(Handles)
  /\ Handles \cap (PlatformIds \cup DeviceIds) = {}   \* addresses of different objects

Ids == Handles \cup PlatformIds \cup DeviceIds

VARIABLES
  class,       \* class[w]: C++ class of the object at address w, NULL if none
  field,       \* field[w]: its native handle member, NULL for 0
  objects,     \* Manager::objects, NULL where the map has no entry
  references,  \* Manager::references, 0 where the map has no entry
  atExit,      \* the static flag of src/src/webcl.cc
  mode,        \* what the JavaScript thread is doing
  left,        \* the entries Manager::clear() has still to visit
  dtor,        \* the Destructor() call in progress, NULL if none
  refs,        \* refs[h]: reference count of native object h, 0 when it is free
  hclass,      \* hclass[h]: what kind of object h is (or was)
  retains,     \* retains[h]: native objects h keeps a reference to
  running,     \* commands that are queued or executing: their event handles
  cleared,     \* history: releaseAll() has been called
  leaky        \* history: handles with a reference that no exit hook will drop

tableVars  == <<objects, references>>
nativeVars == <<refs, hclass, retains, running>>
threadVars == <<atExit, mode, left, dtor>>
historyVars == <<cleared, leaky>>
vars == <<class, field, tableVars, threadVars, nativeVars, historyVars>>

\* The history of leaks is kept for careful scripts only: the properties of
\* the others do not speak of it.
Leaking(hs) == IF CarefulClient THEN leaky \cup hs ELSE leaky

-----------------------------------------------------------------------------
(* Classes *)

StaticKinds == {"platform", "device"}

\* Mutation: CommandQueue without an override of Destructor().
ReleasableButQueue == AllKinds \ (StaticKinds \cup {"queue"})

\* The classes that override Destructor().
Releasable == AllKinds \ StaticKinds

\* Mutation: every class's C++ destructor calls Destructor().
DestroysAlways(k) == k \in Releasable

\* The classes whose C++ destructor calls Destructor(): the call is commented
\* out in all others, which drop the handle.
DestroysOnDelete(k) == k = "userEvent"

\* The kind of native object a wrapper class stands for.
NativeKind(k) == IF k = "userEvent" THEN "event" ELSE k

-----------------------------------------------------------------------------
(* The native runtime *)

Dec(n) == IF n > 0 THEN n - 1 ELSE 0

\* Is the handle in w's field one the runtime accepts for w's class?
Valid(w) ==
  /\ field[w] \in Handles
  /\ refs[field[w]] > 0
  /\ hclass[field[w]] = NativeKind(class[w])

\* The references to h that belong to the runtime itself.
Retainers(h) == {k \in Handles : h \in retains[k]}
RuntimeRefs(h) == Cardinality(Retainers(h)) + (IF h \in running THEN 1 ELSE 0)

Fresh(h) == refs[h] = 0 /\ retains[h] = {} /\ h \notin running

\* The handles a native object created from hs keeps alive, directly or not.
Closure(hs) == hs \cup UNION {retains[h] : h \in hs}

\* The runtime allocates h with n references of the caller's, retaining deps.
AllocateNative(h, k, n, deps) ==
  /\ Fresh(h)
  /\ refs' = [g \in Handles |-> IF g = h THEN n
                                ELSE IF g \in deps THEN refs[g] + 1 ELSE refs[g]]
  /\ hclass' = [hclass EXCEPT ![h] = k]
  /\ retains' = [retains EXCEPT ![h] = deps]

\* A command ends: the runtime drops its arguments and its own reference.
CompleteCommand(h) ==
  LET args == {g \in retains[h] : hclass[g] \notin {"queue", "context"}}
  IN  /\ h \in running
      /\ running' = running \ {h}
      /\ refs' = [g \in Handles |-> IF g = h \/ g \in args THEN Dec(refs[g]) ELSE refs[g]]
      /\ retains' = [retains EXCEPT ![h] = @ \ args]
      /\ UNCHANGED <<class, field, tableVars, threadVars, hclass, historyVars>>

\* A native object without references lets go of what it retains.
FreeNative(h) ==
  /\ refs[h] = 0 /\ h \notin running /\ retains[h] # {}
  /\ refs' = [g \in Handles |-> IF g \in retains[h] THEN Dec(refs[g]) ELSE refs[g]]
  /\ retains' = [retains EXCEPT ![h] = {}]
  /\ UNCHANGED <<class, field, tableVars, threadVars, hclass, running, historyVars>>

-----------------------------------------------------------------------------
(* The table: Manager::add, remove and find *)

Registered == {w \in Wrappers : objects[w] # NULL}

\* registerCLObj: an existing entry keeps its id and gains a reference.
Register(w, id) ==
  /\ objects' = [objects EXCEPT ![w] = IF @ = NULL THEN id ELSE @]
  /\ references' = [references EXCEPT ![w] = @ + 1]

\* Mutation: Manager::remove without its test for the end of the map.
UnregisterUnchecked(w) ==
  IF atExit
  THEN UNCHANGED tableVars
  ELSE /\ references' = [references EXCEPT ![w] = @ - 1]
       /\ objects' = [objects EXCEPT ![w] = IF references[w] = 1 THEN NULL ELSE @]

\* unregisterCLObj: nothing happens at exit or for a wrapper without an entry.
Unregister(w) ==
  IF atExit \/ references[w] = 0
  THEN UNCHANGED tableVars
  ELSE /\ references' = [references EXCEPT ![w] = @ - 1]
       /\ objects' = [objects EXCEPT ![w] = IF references[w] = 1 THEN NULL ELSE @]

\* Mutations: a Destructor() that only forgets its handle, or does neither.
RetireHandleOnly(w) == field' = [field EXCEPT ![w] = NULL] /\ UNCHANGED tableVars
RetireNothing(w) == UNCHANGED <<field, tableVars>>

\* The end of a Destructor() that read a count of 1.
Retire(w) == Unregister(w) /\ field' = [field EXCEPT ![w] = NULL]

\* Mutation: getInfo does not look for a wrapper that exists.
FoundNever(id) == FALSE

\* findCLObj ignores the class it is asked for and compares ids only.
Found(id) == \E w \in Registered : objects[w] = id

\* X::New(handle): a new wrapper, registered under its handle.
NewWrapper(w, k, id) ==
  /\ class[w] = NULL
  /\ class' = [class EXCEPT ![w] = k]
  /\ field' = [field EXCEPT ![w] = id]
  /\ Register(w, id)

-----------------------------------------------------------------------------
(* Calls from JavaScript *)

\* The script's turn: no native call is on the stack.
ScriptRuns == mode = "script" /\ dtor = NULL

\* A careful script is done with WebCL once it has called releaseAll().
ScriptMayCall == ScriptRuns /\ (CarefulClient => ~cleared)

GetPlatforms(w, id) ==
  /\ ScriptMayCall
  /\ "platform" \in Kinds /\ id \in PlatformIds
  /\ NewWrapper(w, "platform", id)
  /\ UNCHANGED <<threadVars, nativeVars, historyVars>>

GetDevices(w, id) ==
  /\ ScriptMayCall
  /\ "device" \in Kinds /\ id \in DeviceIds
  /\ ~Found(id)
  /\ NewWrapper(w, "device", id)
  /\ UNCHANGED <<threadVars, nativeVars, historyVars>>

CreateContext(w, h) ==
  /\ ScriptMayCall
  /\ "context" \in Kinds
  /\ AllocateNative(h, "context", 1, {})
  /\ NewWrapper(w, "context", h)
  /\ leaky' = leaky \ {h}
  /\ UNCHANGED <<threadVars, running, cleared>>

\* A method of p, of one of the classes in makers, creates an object of class k.
CreateObject(p, makers, k, w, h) ==
  /\ ScriptMayCall
  /\ k \in Kinds
  /\ class[p] \in makers /\ Valid(p)
  /\ AllocateNative(h, NativeKind(k), 1, Closure({field[p]}))
  /\ NewWrapper(w, k, h)
  /\ leaky' = leaky \ {h}
  /\ UNCHANGED <<threadVars, running, cleared>>

CreateCommandQueue(p, w, h) == CreateObject(p, {"context"}, "queue", w, h)
CreateProgram(p, w, h)      == CreateObject(p, {"context"}, "program", w, h)
CreateSampler(p, w, h)      == CreateObject(p, {"context"}, "sampler", w, h)
CreateUserEvent(p, w, h)    == CreateObject(p, {"context"}, "userEvent", w, h)
CreateKernel(p, w, h)       == CreateObject(p, {"program"}, "kernel", w, h)

\* Buffers and images share a class (and the memory objects made from OpenGL
\* ones are created the same way).
CreateBuffer(p, w, h) == CreateObject(p, {"context"}, "mem", w, h)
CreateImage(p, w, h)  == CreateObject(p, {"context"}, "mem", w, h)

\* A sub-buffer cannot be divided further.
CreateSubBuffer(p, w, h) ==
  /\ CreateObject(p, {"mem"}, "mem", w, h)
  /\ \A g \in retains[field[p]] : hclass[g] # "mem"

\* getInfo for a native object of class k that p, of one of the classes in
\* askers, refers to: when the table has no wrapper for it a new one is made,
\* without retaining the handle.  (A wrapper that is found is returned as it
\* is.  Devices and platforms are handed out as by GetDevices and GetPlatforms.)
GetInfo(p, askers, k, w, h) ==
  /\ ScriptMayCall
  /\ class[p] \in askers /\ Valid(p)
  /\ h \in retains[field[p]] /\ hclass[h] = k
  /\ ~Found(h)
  /\ NewWrapper(w, k, h)
  /\ UNCHANGED <<threadVars, nativeVars, historyVars>>

QueueGetInfo(p, w, h)   == GetInfo(p, {"queue"}, "context", w, h)
SamplerGetInfo(p, w, h) == GetInfo(p, {"sampler"}, "context", w, h)
ProgramGetInfo(p, w, h) == GetInfo(p, {"program"}, "context", w, h)
KernelGetInfo(p, w, h) ==
  \/ GetInfo(p, {"kernel"}, "context", w, h)
  \/ GetInfo(p, {"kernel"}, "program", w, h)
MemoryObjectGetInfo(p, w, h) ==
  \/ GetInfo(p, {"mem"}, "context", w, h)
  \/ GetInfo(p, {"mem"}, "mem", w, h)
EventGetInfo(p, w, h) ==
  \/ GetInfo(p, {"event", "userEvent"}, "context", w, h)
  \/ GetInfo(p, {"event"}, "queue", w, h)

\* new WebCLEvent(): no native object yet, and no entry in the table ever.
NewEvent(w) ==
  /\ ScriptMayCall
  /\ "event" \in Kinds
  /\ class[w] = NULL
  /\ class' = [class EXCEPT ![w] = "event"]
  /\ UNCHANGED <<field, tableVars, threadVars, nativeVars, historyVars>>

\* retain() of a context or a program.
Retain(w) ==
  /\ ScriptMayCall
  /\ class[w] \in {"context", "program"}
  /\ Valid(w) /\ refs[field[w]] < MaxRefs
  /\ refs' = [refs EXCEPT ![field[w]] = @ + 1]
  /\ leaky' = Leaking({field[w]})
  /\ UNCHANGED <<class, field, tableVars, threadVars, hclass, retains, running, cleared>>

-----------------------------------------------------------------------------
(* Destructor(): if(handle) { query the count; release; if(count==1) {...} } *)

\* The call frame: then is what follows the Destructor call in its caller.
Frame(w, stage, count, then, ev) ==
  [w |-> w, stage |-> stage, count |-> count, then |-> then, ev |-> ev]

\* The JavaScript thread is in a Destructor() call, at this stage of it.
InDestructor(stage) == mode # "crashed" /\ dtor # NULL /\ dtor.stage = stage

Frames ==
  {f \in [w : Wrappers, stage : {"query", "release", "done"}, count : Nat,
          then : {"return", "assign", "delete"}, ev : Handles \cup {NULL}] :
     f.ev \in Handles <=> f.then = "assign"}

\* No frame is the absence of one.
ASSUME FramesAssumption == NULL \notin Frames

CallDestructor(w, then, ev) ==
  dtor' = Frame(w, IF field[w] = NULL THEN "done" ELSE "query", 0, then, ev)

\* The reference count query.  For a handle the runtime rejects, count is
\* read uninitialized: it may be 1 or anything else.
DestructorQuery ==
  /\ InDestructor("query")
  /\ \E n \in IF Valid(dtor.w) THEN {refs[field[dtor.w]]} ELSE {0, 1} :
       dtor' = [dtor EXCEPT !.stage = "release", !.count = n]
  /\ UNCHANGED <<class, field, tableVars, atExit, mode, left, nativeVars, historyVars>>

\* Manager::clear() goes on with an iterator to an erased element: it may
\* reach the rest of the table, part of it, or crash.
IteratorInvalidated ==
  \/ \E rest \in SUBSET left :
       /\ left' = rest
       /\ leaky' = Leaking({field[w] : w \in left \ rest} \cap Handles)
       /\ mode' = mode
  \/ mode' = "crashed" /\ UNCHANGED <<left, leaky>>

\* The release and, when the count that was read is 1, the end of the entry.
DestructorRelease ==
  LET w == dtor.w
  IN  /\ InDestructor("release")
      /\ refs' = IF Valid(w) THEN [refs EXCEPT ![field[w]] = @ - 1] ELSE refs
      /\ dtor' = [dtor EXCEPT !.stage = "done"]
      /\ IF dtor.count = 1
         THEN Retire(w)
         ELSE UNCHANGED <<field, tableVars>>
      /\ IF mode = "clearing" /\ dtor.count = 1 /\ ~atExit
         THEN IteratorInvalidated
         ELSE UNCHANGED <<mode, left, leaky>>
      /\ UNCHANGED <<class, atExit, hclass, retains, running, cleared>>

\* release(), or the visit of Manager::clear(), returns.
DestructorReturn ==
  /\ InDestructor("done") /\ dtor.then = "return"
  /\ dtor' = NULL
  /\ UNCHANGED <<class, field, tableVars, atExit, mode, left, nativeVars, historyVars>>

\* X.release().  CommandQueue::release flushes first and throws if that fails.
\* A careful script releases an object when the runtime no longer uses it.
Release(w) ==
  /\ ScriptMayCall
  /\ class[w] \in Releasable
  /\ class[w] = "queue" => Valid(w)
  /\ (CarefulClient /\ field[w] # NULL) => RuntimeRefs(field[w]) = 0
  /\ CallDestructor(w, "return", NULL)
  /\ UNCHANGED <<class, field, tableVars, atExit, mode, left, nativeVars, historyVars>>

\* queue.enqueueX(..., event): the native command, then, if an event object
\* was passed, Event::setEvent on it.
Enqueue(q, args, ev, h) ==
  /\ ScriptMayCall
  /\ class[q] = "queue" /\ Valid(q)
  /\ \A a \in args : class[a] \in {"kernel", "mem"} /\ Valid(a)
  /\ ev # NULL => class[ev] = "event"
  /\ AllocateNative(h, "event", IF ev = NULL THEN 1 ELSE 2,
                    Closure({field[x] : x \in {q} \cup args}))
  /\ running' = running \cup {h}
  /\ IF ev = NULL
     THEN UNCHANGED dtor
     ELSE CallDestructor(ev, "assign", h)
  /\ leaky' = leaky \ {h}
  /\ UNCHANGED <<class, field, tableVars, atExit, mode, left, cleared>>

\* The rest of Event::setEvent: event = e.
SetEventAssign ==
  /\ InDestructor("done") /\ dtor.then = "assign"
  /\ field' = [field EXCEPT ![dtor.w] = dtor.ev]
  /\ leaky' = Leaking({dtor.ev})
  /\ dtor' = NULL
  /\ UNCHANGED <<class, tableVars, atExit, mode, left, nativeVars, cleared>>

-----------------------------------------------------------------------------
(* Garbage collection *)

\* V8 may collect any wrapper while the script or the final GC runs.
Collect(w) ==
  /\ mode \in {"script", "collect"} /\ dtor = NULL
  /\ class[w] # NULL
  /\ dtor' = Frame(w, IF DestroysOnDelete(class[w]) /\ field[w] # NULL THEN "query" ELSE "done",
                   0, "delete", NULL)
  /\ leaky' = IF ~DestroysOnDelete(class[w]) /\ field[w] \in Handles /\ ~cleared
              THEN Leaking({field[w]}) ELSE leaky
  /\ UNCHANGED <<class, field, tableVars, atExit, mode, left, nativeVars, cleared>>

\* ~WebCLObject: the base Destructor() does nothing; the entry goes.
DeleteWrapper ==
  /\ InDestructor("done") /\ dtor.then = "delete"
  /\ class' = [class EXCEPT ![dtor.w] = NULL]
  /\ field' = [field EXCEPT ![dtor.w] = NULL]
  /\ Unregister(dtor.w)
  /\ dtor' = NULL
  /\ UNCHANGED <<atExit, mode, left, nativeVars, historyVars>>

-----------------------------------------------------------------------------
(* webcl.releaseAll() and process exit: onExit() = clear(), then a full GC *)

StartClear(exiting) ==
  /\ ScriptRuns
  /\ atExit' = exiting
  /\ mode' = "clearing"
  /\ left' = Registered
  /\ cleared' = TRUE
  /\ UNCHANGED <<class, field, tableVars, dtor, nativeVars, leaky>>

ReleaseAll  == StartClear(FALSE)   \* a script's webcl.releaseAll()
ProcessExit == StartClear(TRUE)    \* process.on('exit') of src/webcl.js

\* One iteration of Manager::clear(): the class's own Destructor() runs.
ClearVisit(w) ==
  /\ mode = "clearing" /\ dtor = NULL
  /\ w \in left
  /\ left' = left \ {w}
  /\ IF class[w] \in Releasable
     THEN CallDestructor(w, "return", NULL)
     ELSE UNCHANGED dtor
  /\ UNCHANGED <<class, field, tableVars, atExit, mode, nativeVars, historyVars>>

ClearDone ==
  /\ mode = "clearing" /\ dtor = NULL /\ left = {}
  /\ objects' = [w \in Wrappers |-> NULL]
  /\ references' = [w \in Wrappers |-> 0]
  /\ mode' = "collect"
  /\ UNCHANGED <<class, field, atExit, left, dtor, nativeVars, historyVars>>

\* The forced GC ends; at exit nothing of the addon runs any more.
CollectDone ==
  /\ mode = "collect" /\ dtor = NULL
  /\ mode' = IF atExit THEN "exited" ELSE "script"
  /\ UNCHANGED <<class, field, tableVars, atExit, left, dtor, nativeVars, historyVars>>

\* The process is gone (exit handlers done, or crashed).
Terminated == mode \in {"exited", "crashed"} /\ UNCHANGED vars

-----------------------------------------------------------------------------

Init ==
  /\ class = [w \in Wrappers |-> NULL]
  /\ field = [w \in Wrappers |-> NULL]
  /\ objects = [w \in Wrappers |-> NULL]
  /\ references = [w \in Wrappers |-> 0]
  /\ atExit = FALSE /\ mode = "script" /\ left = {} /\ dtor = NULL
  /\ refs = [h \in Handles |-> 0]
  /\ hclass = [h \in Handles |-> "context"]
  /\ retains = [h \in Handles |-> {}]
  /\ running = {}
  /\ cleared = FALSE /\ leaky = {}

Create(p, w, h) ==
  \/ CreateCommandQueue(p, w, h) \/ CreateProgram(p, w, h) \/ CreateSampler(p, w, h)
  \/ CreateUserEvent(p, w, h) \/ CreateKernel(p, w, h)
  \/ CreateBuffer(p, w, h) \/ CreateImage(p, w, h) \/ CreateSubBuffer(p, w, h)

Query(p, w, h) ==
  \/ QueueGetInfo(p, w, h) \/ SamplerGetInfo(p, w, h) \/ ProgramGetInfo(p, w, h)
  \/ KernelGetInfo(p, w, h) \/ MemoryObjectGetInfo(p, w, h) \/ EventGetInfo(p, w, h)

Script ==
  \/ \E w \in Wrappers, id \in PlatformIds : GetPlatforms(w, id)
  \/ \E w \in Wrappers, id \in DeviceIds : GetDevices(w, id)
  \/ \E w \in Wrappers, h \in Handles : CreateContext(w, h)
  \/ \E p, w \in Wrappers, h \in Handles : Create(p, w, h) \/ Query(p, w, h)
  \/ \E w \in Wrappers : NewEvent(w) \/ Retain(w) \/ Release(w)
  \/ \E q \in Wrappers, ev \in Wrappers \cup {NULL}, h \in Handles :
       \E args \in {{}} \cup {{a} : a \in Wrappers} : Enqueue(q, args, ev, h)
  \/ ReleaseAll
  \/ ProcessExit

\* Native calls in progress, which run to their end.
Native ==
  \/ DestructorQuery \/ DestructorRelease \/ DestructorReturn
  \/ SetEventAssign \/ DeleteWrapper
  \/ \E w \in Wrappers : ClearVisit(w)
  \/ ClearDone
  \/ CollectDone

Runtime == \E h \in Handles : CompleteCommand(h) \/ FreeNative(h)

Next ==
  \/ Script
  \/ Native
  \/ Runtime
  \/ \E w \in Wrappers : Collect(w)
  \/ Terminated

Spec == Init /\ [][Next]_vars

\* The JavaScript thread finishes the native calls it is in, and the runtime
\* finishes commands and frees dead objects.  The script itself and the
\* garbage collector owe nothing.
Fairness ==
  /\ WF_vars(Native)
  /\ \A h \in Handles : WF_vars(CompleteCommand(h)) /\ WF_vars(FreeNative(h))

FairSpec == Spec /\ Fairness

-----------------------------------------------------------------------------
(* Properties *)

TypeOK ==
  /\ class \in [Wrappers -> AllKinds \cup {NULL}]
  /\ field \in [Wrappers -> Ids \cup {NULL}]
  /\ objects \in [Wrappers -> Ids \cup {NULL}]
  /\ references \in [Wrappers -> Nat]
  /\ atExit \in BOOLEAN
  /\ mode \in {"script", "clearing", "collect", "exited", "crashed"}
  /\ left \in SUBSET Wrappers
  /\ dtor \in Frames \cup {NULL}
  /\ refs \in [Handles -> Nat]
  /\ hclass \in [Handles -> AllKinds]
  /\ retains \in [Handles -> SUBSET Handles]
  /\ running \in SUBSET Handles
  /\ cleared \in BOOLEAN
  /\ leaky \in SUBSET Handles

\* The table is exact (src/src/manager.cc with src/src/webcl.cc): an entry
\* belongs to a wrapper that exists, carries that wrapper's current handle and
\* was counted once; and until the table is first cleared every wrapper that
\* has a handle has an entry, except the WebCLEvents, which never do.  Only the
\* exit hook's own loop, which erases nothing, may see entries without handle.
TableExact ==
  ~(atExit /\ mode = "clearing") =>
    \A w \in Wrappers :
      /\ references[w] = IF objects[w] = NULL THEN 0 ELSE 1
      /\ objects[w] # NULL => class[w] # NULL /\ objects[w] = field[w]
      /\ (~cleared /\ class[w] # "event") => objects[w] = field[w]

\* Every entry names a native object that exists and is of the wrapper's class
\* (the handle findCLObj compares with is never dangling).
RegisteredIsLive ==
  mode = "script" => \A w \in Registered : field[w] \in Handles => Valid(w)

\* Two wrappers never stand for one native object: what getInfo returns for it
\* is the object the script already has (kernel.getInfo(KERNEL_CONTEXT) ===
\* context).  Platforms are excluded, getPlatforms makes new wrappers per call.
OneWrapperPerObject ==
  mode = "script" => \A v, w \in Registered :
    (objects[v] = objects[w] /\ objects[v] \notin PlatformIds) => v = w

\* A native object has at least the references the runtime itself took on it:
\* no wrapper releases a reference it does not own, so that nothing is freed
\* while a queue, kernel, program or command still uses it.
RuntimeRefsIntact == \A h \in Handles : refs[h] >= RuntimeRefs(h)

\* Objects that survive the exit hook for a reason the script can name: the
\* wrapper was collected unreleased, is a WebCLEvent still holding its event,
\* or was retained; or one of those keeps the object alive.
Excused(h) == h \in leaky \/ \E k \in leaky : h \in retains[k]

\* After the exit hook every native object is eventually freed but for these.
ExitReleasesAll ==
  atExit ~> \A h \in Handles : refs[h] > 0 => Excused(h)

\* src/test/test.memory.js: webcl.releaseAll() is to "release all CL objects".
\* Manager::clear() goes through the table entry by entry and survives.
ReleaseAllVisitsEach ==
  [][mode = "clearing" => /\ mode' # "crashed"
                          /\ Cardinality(left) <= Cardinality(left') + 1]_vars

=============================================================================
