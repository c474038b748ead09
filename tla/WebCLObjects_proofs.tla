-------------------------- MODULE WebCLObjects_proofs --------------------------
(***************************************************************************)
(* Proofs about WebCLObjects: its type invariant, and that the Manager's   *)
(* table stays exact, for every script (careful or not), every set of      *)
(* wrappers and handles and whatever the native runtime does.              *)
(***************************************************************************)
EXTENDS WebCLObjects, TLAPS

USE DEF vars, tableVars, nativeVars, threadVars, historyVars

\* A wrapper class stands for a native object of a known class.
LEMMA KindsTyped ==
  \A k \in AllKinds : NativeKind(k) \in AllKinds
BY DEF AllKinds, NativeKind

-----------------------------------------------------------------------------
(* Type correctness, action by action *)

LEMMA InitTyped == Init => TypeOK
<1> SUFFICES ASSUME Init PROVE TypeOK
  OBVIOUS
<1>1. /\ class \in [Wrappers -> AllKinds \cup {NULL}]
      /\ field \in [Wrappers -> Ids \cup {NULL}]
      /\ objects \in [Wrappers -> Ids \cup {NULL}]
      /\ references \in [Wrappers -> Nat]
  BY DEF Init
<1>2. /\ refs \in [Handles -> Nat]
      /\ hclass \in [Handles -> AllKinds]
      /\ retains \in [Handles -> SUBSET Handles]
  BY DEF Init, AllKinds
<1>3. /\ atExit \in BOOLEAN /\ cleared \in BOOLEAN
      /\ mode \in {"script", "clearing", "collect", "exited", "crashed"}
      /\ left \in SUBSET Wrappers
      /\ dtor \in Frames \cup {NULL}
      /\ running \in SUBSET Handles /\ leaky \in SUBSET Handles
  BY DEF Init
<1> QED
  BY <1>1, <1>2, <1>3 DEF TypeOK

\* Frames of a Destructor() call are well typed.
LEMMA CallDestructorTyped ==
  ASSUME TypeOK, NEW w \in Wrappers, NEW then \in {"return", "assign", "delete"},
         NEW ev \in Handles \cup {NULL}, ev \in Handles <=> then = "assign",
         CallDestructor(w, then, ev)
  PROVE  dtor' \in Frames
BY DEF CallDestructor, Frame, Frames

\* Registering and unregistering keep the two maps well typed.
LEMMA TableTyped ==
  ASSUME TypeOK, NEW w \in Wrappers
  PROVE  /\ \A id \in Ids : Register(w, id) =>
              /\ objects' \in [Wrappers -> Ids \cup {NULL}]
              /\ references' \in [Wrappers -> Nat]
         /\ Unregister(w) =>
              /\ objects' \in [Wrappers -> Ids \cup {NULL}]
              /\ references' \in [Wrappers -> Nat]
BY DEF TypeOK, Register, Unregister

LEMMA NewWrapperTyped ==
  ASSUME TypeOK, NEW w \in Wrappers, NEW k \in AllKinds, NEW id \in Ids, NewWrapper(w, k, id)
  PROVE  /\ class' \in [Wrappers -> AllKinds \cup {NULL}]
         /\ field' \in [Wrappers -> Ids \cup {NULL}]
         /\ objects' \in [Wrappers -> Ids \cup {NULL}]
         /\ references' \in [Wrappers -> Nat]
BY TableTyped DEF TypeOK, NewWrapper

LEMMA AllocateTyped ==
  ASSUME TypeOK, NEW h \in Handles, NEW k \in AllKinds, NEW n \in Nat, NEW deps,
         deps \subseteq Handles, AllocateNative(h, k, n, deps)
  PROVE  /\ refs' \in [Handles -> Nat]
         /\ hclass' \in [Handles -> AllKinds]
         /\ retains' \in [Handles -> SUBSET Handles]
BY DEF TypeOK, AllocateNative

LEMMA ClosureTyped ==
  ASSUME TypeOK, NEW hs, hs \subseteq Handles
  PROVE  Closure(hs) \subseteq Handles
BY DEF TypeOK, Closure

\* The creators are instances of one action, none of which makes a WebCLEvent.
LEMMA CreateCases ==
  ASSUME NEW p \in Wrappers, NEW w \in Wrappers, NEW h \in Handles, Create(p, w, h)
  PROVE  \E makers \in SUBSET {"context", "program", "mem"},
            k \in AllKinds \ {"event", "platform", "device"} :
           CreateObject(p, makers, k, w, h)
<1>1. {"queue", "program", "sampler", "userEvent", "kernel", "mem"}
        \subseteq AllKinds \ {"event", "platform", "device"}
  BY DEF AllKinds
<1>2. /\ {"context"} \in SUBSET {"context", "program", "mem"}
      /\ {"program"} \in SUBSET {"context", "program", "mem"}
      /\ {"mem"} \in SUBSET {"context", "program", "mem"}
  OBVIOUS
<1>3. CASE CreateCommandQueue(p, w, h)
  BY <1>1, <1>2, <1>3 DEF CreateCommandQueue
<1>4. CASE CreateProgram(p, w, h)
  BY <1>1, <1>2, <1>4 DEF CreateProgram
<1>5. CASE CreateSampler(p, w, h)
  BY <1>1, <1>2, <1>5 DEF CreateSampler
<1>6. CASE CreateUserEvent(p, w, h)
  BY <1>1, <1>2, <1>6 DEF CreateUserEvent
<1>7. CASE CreateKernel(p, w, h)
  BY <1>1, <1>2, <1>7 DEF CreateKernel
<1>8. CASE CreateBuffer(p, w, h) \/ CreateImage(p, w, h)
  BY <1>1, <1>2, <1>8 DEF CreateBuffer, CreateImage
<1>9. CASE CreateSubBuffer(p, w, h)
  BY <1>1, <1>2, <1>9 DEF CreateSubBuffer
<1> QED
  BY <1>3, <1>4, <1>5, <1>6, <1>7, <1>8, <1>9 DEF Create

\* So are the queries that hand out a native object, never an event.
LEMMA QueryCases ==
  ASSUME NEW p \in Wrappers, NEW w \in Wrappers, NEW h \in Handles, Query(p, w, h)
  PROVE  \E askers \in SUBSET AllKinds, k \in {"context", "program", "mem", "queue"} :
           GetInfo(p, askers, k, w, h)
<1>1. /\ {"queue"} \in SUBSET AllKinds /\ {"sampler"} \in SUBSET AllKinds
      /\ {"program"} \in SUBSET AllKinds /\ {"kernel"} \in SUBSET AllKinds
      /\ {"mem"} \in SUBSET AllKinds /\ {"event"} \in SUBSET AllKinds
      /\ {"event", "userEvent"} \in SUBSET AllKinds
  BY DEF AllKinds
<1>3. CASE QueueGetInfo(p, w, h)
  BY <1>1, <1>3 DEF QueueGetInfo
<1>4. CASE SamplerGetInfo(p, w, h)
  BY <1>1, <1>4 DEF SamplerGetInfo
<1>5. CASE ProgramGetInfo(p, w, h)
  BY <1>1, <1>5 DEF ProgramGetInfo
<1>6. CASE KernelGetInfo(p, w, h)
  BY <1>1, <1>6 DEF KernelGetInfo
<1>7. CASE MemoryObjectGetInfo(p, w, h)
  BY <1>1, <1>7 DEF MemoryObjectGetInfo
<1>8. CASE EventGetInfo(p, w, h)
  BY <1>1, <1>8 DEF EventGetInfo
<1> QED
  BY <1>3, <1>4, <1>5, <1>6, <1>7, <1>8 DEF Query

LEMMA CreateTyped ==
  ASSUME TypeOK, NEW p \in Wrappers, NEW makers, NEW k \in AllKinds,
         NEW w \in Wrappers, NEW h \in Handles, CreateObject(p, makers, k, w, h)
  PROVE  TypeOK'
<1>1. NewWrapper(w, k, h) /\ h \in Ids
  BY DEF CreateObject, Ids
<1>2. NativeKind(k) \in AllKinds
  BY KindsTyped
<1>3. Closure({field[p]}) \subseteq Handles
  BY ClosureTyped DEF CreateObject, Valid
<1>4. /\ refs' \in [Handles -> Nat]
      /\ hclass' \in [Handles -> AllKinds]
      /\ retains' \in [Handles -> SUBSET Handles]
  BY <1>2, <1>3, AllocateTyped DEF CreateObject
<1> QED
  BY <1>1, <1>4, NewWrapperTyped DEF TypeOK, CreateObject

-----------------------------------------------------------------------------

\* Every call of the script keeps the types.
LEMMA ScriptTyped == TypeOK /\ Script => TypeOK'
<1> SUFFICES ASSUME TypeOK, Script PROVE TypeOK'
  OBVIOUS
<1>1. ASSUME NEW w \in Wrappers, NEW id \in PlatformIds, GetPlatforms(w, id)
      PROVE  TypeOK'
  <2>1. "platform" \in AllKinds /\ NewWrapper(w, "platform", id) /\ id \in Ids
    BY <1>1 DEF GetPlatforms, Ids, AllKinds
  <2> QED
    BY <1>1, <2>1, NewWrapperTyped DEF TypeOK, GetPlatforms
<1>2. ASSUME NEW w \in Wrappers, NEW id \in DeviceIds, GetDevices(w, id)
      PROVE  TypeOK'
  <2>1. "device" \in AllKinds /\ NewWrapper(w, "device", id) /\ id \in Ids
    BY <1>2 DEF GetDevices, Ids, AllKinds
  <2> QED
    BY <1>2, <2>1, NewWrapperTyped DEF TypeOK, GetDevices
<1>3. ASSUME NEW w \in Wrappers, NEW h \in Handles, CreateContext(w, h)
      PROVE  TypeOK'
  <2>1. "context" \in AllKinds /\ NewWrapper(w, "context", h) /\ h \in Ids
    BY <1>3 DEF CreateContext, Ids, AllKinds
  <2>2. AllocateNative(h, "context", 1, {}) /\ "context" \in AllKinds
    BY <1>3 DEF CreateContext, AllKinds
  <2>3. /\ refs' \in [Handles -> Nat]
        /\ hclass' \in [Handles -> AllKinds]
        /\ retains' \in [Handles -> SUBSET Handles]
    BY <2>2, AllocateTyped
  <2> QED
    BY <1>3, <2>1, <2>3, NewWrapperTyped DEF TypeOK, CreateContext
<1>4. ASSUME NEW p \in Wrappers, NEW w \in Wrappers, NEW h \in Handles, Create(p, w, h)
      PROVE  TypeOK'
  <2>1. PICK makers \in SUBSET {"context", "program", "mem"},
            k \in AllKinds \ {"event", "platform", "device"} :
          CreateObject(p, makers, k, w, h)
    BY <1>4, CreateCases
  <2> QED
    BY <2>1, CreateTyped
<1>5. ASSUME NEW p \in Wrappers, NEW w \in Wrappers, NEW h \in Handles, Query(p, w, h)
      PROVE  TypeOK'
  <2>1. PICK askers \in SUBSET AllKinds, k \in {"context", "program", "mem", "queue"} :
          GetInfo(p, askers, k, w, h)
    BY <1>5, QueryCases
  <2>2. NewWrapper(w, k, h) /\ h \in Ids /\ k \in AllKinds
    BY <2>1 DEF GetInfo, Ids, AllKinds
  <2> QED
    BY <2>1, <2>2, NewWrapperTyped DEF TypeOK, GetInfo
<1>6. ASSUME NEW w \in Wrappers, NewEvent(w)
      PROVE  TypeOK'
  BY <1>6 DEF TypeOK, NewEvent, AllKinds
<1>7. ASSUME NEW w \in Wrappers, Retain(w)
      PROVE  TypeOK'
  BY <1>7 DEF TypeOK, Retain, Valid, Leaking
<1>8. ASSUME NEW w \in Wrappers, Release(w)
      PROVE  TypeOK'
  <2>1. dtor' \in Frames
    BY <1>8, CallDestructorTyped, ConstantsAssumption DEF Release
  <2> QED
    BY <1>8, <2>1 DEF TypeOK, Release
<1>9. ASSUME NEW q \in Wrappers, NEW ev \in Wrappers \cup {NULL}, NEW h \in Handles,
             NEW args \in {{}} \cup {{a} : a \in Wrappers}, Enqueue(q, args, ev, h)
      PROVE  TypeOK'
  <2>1. \A x \in {q} \cup args : x \in Wrappers /\ field[x] \in Handles
    BY <1>9 DEF Enqueue, Valid
  <2>2. Closure({field[x] : x \in {q} \cup args}) \subseteq Handles
    BY <2>1, ClosureTyped
  <2>3. /\ refs' \in [Handles -> Nat]
        /\ hclass' \in [Handles -> AllKinds]
        /\ retains' \in [Handles -> SUBSET Handles]
    <3>1. "event" \in AllKinds /\ (IF ev = NULL THEN 1 ELSE 2) \in Nat
      BY DEF AllKinds
    <3> QED
      BY <1>9, <2>2, <3>1, AllocateTyped DEF Enqueue
  <2>4. dtor' \in Frames \cup {NULL}
    BY <1>9, CallDestructorTyped, ConstantsAssumption DEF Enqueue, TypeOK
  <2> QED
    BY <1>9, <2>3, <2>4 DEF TypeOK, Enqueue
<1>10. ASSUME NEW exiting \in BOOLEAN, StartClear(exiting)
       PROVE  TypeOK'
  BY <1>10 DEF TypeOK, StartClear, Registered
<1> QED
  BY <1>1, <1>2, <1>3, <1>4, <1>5, <1>6, <1>7, <1>8, <1>9, <1>10
  DEF Script, ReleaseAll, ProcessExit

\* So does every step of a native call, of the runtime and of the collector.
LEMMA NativeTyped == TypeOK /\ Native => TypeOK'
<1> SUFFICES ASSUME TypeOK, Native PROVE TypeOK'
  OBVIOUS
<1>f. ASSUME dtor # NULL PROVE dtor \in Frames
  BY <1>f DEF TypeOK
<1>1. CASE DestructorQuery
  <2>1. dtor \in Frames
    BY <1>1, <1>f DEF DestructorQuery, InDestructor
  <2>2. ASSUME NEW n \in IF Valid(dtor.w) THEN {refs[field[dtor.w]]} ELSE {0, 1}
        PROVE  n \in Nat
    BY <2>2 DEF TypeOK, Valid
  <2>3. dtor' \in Frames
    BY <1>1, <2>1, <2>2 DEF DestructorQuery, Frames
  <2> QED
    BY <1>1, <2>3 DEF TypeOK, DestructorQuery
<1>2. CASE DestructorRelease
  <2>1. dtor \in Frames
    BY <1>2, <1>f DEF DestructorRelease, InDestructor
  <2>2. dtor.w \in Wrappers /\ dtor' \in Frames
    BY <1>2, <2>1 DEF DestructorRelease, Frames
  <2>3. refs' \in [Handles -> Nat]
    BY <1>2, <2>2 DEF TypeOK, DestructorRelease, Valid
  <2>4. /\ objects' \in [Wrappers -> Ids \cup {NULL}]
        /\ references' \in [Wrappers -> Nat]
        /\ field' \in [Wrappers -> Ids \cup {NULL}]
    BY <1>2, <2>2, TableTyped DEF TypeOK, DestructorRelease, Retire
  <2>5. /\ mode' \in {"script", "clearing", "collect", "exited", "crashed"}
        /\ left' \in SUBSET Wrappers
        /\ leaky' \in SUBSET Handles
    BY <1>2, <2>2 DEF TypeOK, DestructorRelease, IteratorInvalidated, Leaking
  <2> QED
    BY <1>2, <2>2, <2>3, <2>4, <2>5 DEF TypeOK, DestructorRelease
<1>3. CASE DestructorReturn
  BY <1>3 DEF TypeOK, DestructorReturn
<1>4. CASE SetEventAssign
  <2>1. dtor \in Frames /\ dtor.w \in Wrappers
    BY <1>4, <1>f DEF SetEventAssign, InDestructor, Frames
  <2>2. dtor.ev \in Handles
    BY <1>4, <2>1 DEF SetEventAssign, Frames
  <2> QED
    BY <1>4, <2>1, <2>2 DEF TypeOK, SetEventAssign, Ids, Leaking
<1>5. CASE DeleteWrapper
  <2>1. dtor.w \in Wrappers
    BY <1>5, <1>f DEF DeleteWrapper, InDestructor, Frames
  <2>2. /\ objects' \in [Wrappers -> Ids \cup {NULL}]
        /\ references' \in [Wrappers -> Nat]
    BY <1>5, <2>1, TableTyped DEF DeleteWrapper
  <2> QED
    BY <1>5, <2>1, <2>2 DEF TypeOK, DeleteWrapper
<1>6. ASSUME NEW w \in Wrappers, ClearVisit(w)
      PROVE  TypeOK'
  <2>1. dtor' \in Frames \cup {NULL}
    BY <1>6, CallDestructorTyped, ConstantsAssumption DEF TypeOK, ClearVisit
  <2> QED
    BY <1>6, <2>1 DEF TypeOK, ClearVisit
<1>7. CASE ClearDone
  BY <1>7 DEF TypeOK, ClearDone
<1>8. CASE CollectDone
  BY <1>8 DEF TypeOK, CollectDone
<1> QED
  BY <1>1, <1>2, <1>3, <1>4, <1>5, <1>6, <1>7, <1>8 DEF Native

LEMMA RuntimeTyped == TypeOK /\ Runtime => TypeOK'
BY DEF TypeOK, Runtime, CompleteCommand, FreeNative, Dec

LEMMA CollectTyped ==
  ASSUME TypeOK, NEW w \in Wrappers, Collect(w)
  PROVE  TypeOK'
<1>1. dtor' \in Frames
  BY ConstantsAssumption DEF Collect, Frame, Frames
<1> QED
  BY <1>1 DEF TypeOK, Collect, Leaking

\* In every run of the addon each variable keeps its type.
THEOREM TypeCorrect == Spec => []TypeOK
<1>1. TypeOK /\ [Next]_vars => TypeOK'
  <2> SUFFICES ASSUME TypeOK, [Next]_vars PROVE TypeOK'
    OBVIOUS
  <2>1. CASE UNCHANGED vars
    BY <2>1 DEF TypeOK
  <2> QED
    BY <2>1, ScriptTyped, NativeTyped, RuntimeTyped, CollectTyped DEF Next, Terminated
<1> QED
  BY <1>1, InitTyped, PTL DEF Spec

-----------------------------------------------------------------------------
(***************************************************************************)
(* The table stays exact.  TableExact alone is not inductive: the entry a  *)
(* step removes is that of the wrapper whose Destructor() is on the stack, *)
(* so the frame has to name an existing wrapper, and one of class WebCLEvent *)
(* when setEvent is what called; WebCLEvents have no entry; and only the   *)
(* exit hook, which empties the table, runs with atExit set.               *)
(***************************************************************************)
FrameExact ==
  dtor # NULL => /\ class[dtor.w] # NULL
                 /\ dtor.then = "assign" => class[dtor.w] = "event"

EventsUntabled == \A w \in Wrappers : class[w] = "event" => objects[w] = NULL

ModeExact ==
  /\ atExit => mode \in {"clearing", "collect", "exited"}
  /\ (atExit /\ mode # "clearing") => \A w \in Wrappers : objects[w] = NULL
  /\ mode \in {"clearing", "collect"} => cleared

TableInv == TypeOK /\ TableExact /\ FrameExact /\ EventsUntabled /\ ModeExact

LEMMA InitTable == Init => TableInv
<1> SUFFICES ASSUME Init PROVE TableInv
  OBVIOUS
<1>1. TypeOK
  BY InitTyped
<1> QED
  BY <1>1 DEF Init, TableInv, TableExact, FrameExact, EventsUntabled, ModeExact

\* A new wrapper's entry is exact: its address had none before.
LEMMA NewWrapperTable ==
  ASSUME TableInv, ScriptMayCall, NEW w \in Wrappers, NEW k \in AllKinds \ {"event"},
         NEW id \in Ids, NewWrapper(w, k, id),
         UNCHANGED <<threadVars, cleared>>, TypeOK'
  PROVE  TableInv'
<1> USE DEF TableInv, ScriptMayCall, ScriptRuns
<1>1. class[w] = NULL /\ objects[w] = NULL /\ references[w] = 0 /\ ~atExit
  BY DEF NewWrapper, TableExact, ModeExact
<1>2. /\ objects' = [objects EXCEPT ![w] = id]
      /\ references' = [references EXCEPT ![w] = 1]
      /\ class' = [class EXCEPT ![w] = k]
      /\ field' = [field EXCEPT ![w] = id]
  BY <1>1 DEF NewWrapper, Register, TypeOK
<1>3. id # NULL /\ k # NULL
  BY ConstantsAssumption DEF Ids
<1>4. TableExact'
  BY <1>1, <1>2, <1>3 DEF TableExact, TypeOK
<1>5. EventsUntabled'
  BY <1>2 DEF EventsUntabled, TypeOK
<1>6. FrameExact' /\ ModeExact'
  BY <1>1 DEF FrameExact, ModeExact
<1> QED
  BY <1>4, <1>5, <1>6

LEMMA ScriptTable == TableInv /\ Script => TableInv'
<1> SUFFICES ASSUME TableInv, Script PROVE TableInv'
  OBVIOUS
<1>t. TypeOK /\ TypeOK'
  BY ScriptTyped DEF TableInv
<1>n. \A k \in AllKinds : k # NULL
  BY ConstantsAssumption
<1>1. ASSUME NEW w \in Wrappers, NEW id \in PlatformIds, GetPlatforms(w, id)
      PROVE  TableInv'
  BY <1>1, <1>t, NewWrapperTable DEF GetPlatforms, Ids, AllKinds
<1>2. ASSUME NEW w \in Wrappers, NEW id \in DeviceIds, GetDevices(w, id)
      PROVE  TableInv'
  BY <1>2, <1>t, NewWrapperTable DEF GetDevices, Ids, AllKinds
<1>3. ASSUME NEW w \in Wrappers, NEW h \in Handles, CreateContext(w, h)
      PROVE  TableInv'
  BY <1>3, <1>t, NewWrapperTable DEF CreateContext, Ids, AllKinds
<1>4. ASSUME NEW p \in Wrappers, NEW w \in Wrappers, NEW h \in Handles, Create(p, w, h)
      PROVE  TableInv'
  <2>1. PICK makers \in SUBSET {"context", "program", "mem"},
            k \in AllKinds \ {"event", "platform", "device"} :
          CreateObject(p, makers, k, w, h)
    BY <1>4, CreateCases
  <2> QED
    BY <1>t, <2>1, NewWrapperTable DEF CreateObject, Ids
<1>5. ASSUME NEW p \in Wrappers, NEW w \in Wrappers, NEW h \in Handles, Query(p, w, h)
      PROVE  TableInv'
  <2>1. PICK askers \in SUBSET AllKinds, k \in {"context", "program", "mem", "queue"} :
          GetInfo(p, askers, k, w, h)
    BY <1>5, QueryCases
  <2>2. k \in AllKinds \ {"event"}
    BY DEF AllKinds
  <2> QED
    BY <1>t, <2>1, <2>2, NewWrapperTable DEF GetInfo, Ids
<1>6. ASSUME NEW w \in Wrappers, NewEvent(w)
      PROVE  TableInv'
  <2>1. class[w] = NULL /\ objects[w] = NULL /\ dtor = NULL /\ ~atExit
    BY <1>6 DEF NewEvent, TableInv, TableExact, ModeExact, ScriptMayCall, ScriptRuns
  <2>2. class' = [class EXCEPT ![w] = "event"]
    BY <1>6 DEF NewEvent
  <2> QED
    BY <1>6, <1>t, <1>n, <2>1, <2>2
    DEF NewEvent, TableInv, TableExact, FrameExact, EventsUntabled, ModeExact, TypeOK
<1>7. ASSUME NEW w \in Wrappers, Retain(w)
      PROVE  TableInv'
  BY <1>7, <1>t DEF Retain, TableInv, TableExact, FrameExact, EventsUntabled, ModeExact
<1>8. ASSUME NEW w \in Wrappers, Release(w)
      PROVE  TableInv'
  <2>1. class[w] # NULL /\ dtor'.w = w /\ dtor'.then = "return"
    BY <1>8, <1>n DEF Release, Releasable, CallDestructor, Frame
  <2> QED
    BY <1>8, <1>t, <2>1 DEF Release, TableInv, TableExact, FrameExact, EventsUntabled, ModeExact
<1>9. ASSUME NEW q \in Wrappers, NEW ev \in Wrappers \cup {NULL}, NEW h \in Handles,
             NEW args \in {{}} \cup {{a} : a \in Wrappers}, Enqueue(q, args, ev, h)
      PROVE  TableInv'
  <2>1. FrameExact'
    <3>1. CASE ev = NULL
      BY <1>9, <3>1 DEF Enqueue, ScriptMayCall, ScriptRuns, FrameExact
    <3>2. CASE ev # NULL
      <4>1. class[ev] = "event" /\ dtor'.w = ev
        BY <1>9, <3>2 DEF Enqueue, CallDestructor, Frame
      <4> QED
        BY <1>9, <1>n, <4>1 DEF Enqueue, FrameExact, AllKinds
    <3> QED
      BY <3>1, <3>2
  <2> QED
    BY <1>9, <1>t, <2>1 DEF Enqueue, TableInv, TableExact, EventsUntabled, ModeExact
<1>10. ASSUME NEW exiting \in BOOLEAN, StartClear(exiting)
       PROVE  TableInv'
  <2>1. ~atExit /\ mode = "script" /\ mode' = "clearing"
    BY <1>10 DEF StartClear, ScriptRuns, TableInv, ModeExact
  <2>2. /\ \A w \in Wrappers : /\ references[w] = IF objects[w] = NULL THEN 0 ELSE 1
                               /\ objects[w] # NULL => class[w] # NULL /\ objects[w] = field[w]
        /\ UNCHANGED <<class, field, tableVars, dtor>> /\ cleared'
    BY <1>10, <2>1 DEF StartClear, TableInv, TableExact
  <2> QED
    BY <1>10, <1>t, <2>1, <2>2
    DEF StartClear, TableInv, TableExact, FrameExact, EventsUntabled, ModeExact
<1> QED
  BY <1>1, <1>2, <1>3, <1>4, <1>5, <1>6, <1>7, <1>8, <1>9, <1>10
  DEF Script, ReleaseAll, ProcessExit

\* Removing w's entry, outside the exit hook's loop, leaves none for w and
\* disturbs no other.
LEMMA UnregisterTable ==
  ASSUME TableInv, ~(atExit /\ mode = "clearing"), NEW w \in Wrappers, Unregister(w)
  PROVE  /\ objects'[w] = NULL /\ references'[w] = 0
         /\ \A v \in Wrappers : v # w => objects'[v] = objects[v] /\ references'[v] = references[v]
<1>1. references[w] = (IF objects[w] = NULL THEN 0 ELSE 1)
  BY DEF TableInv, TableExact
<1>2. CASE atExit
  BY <1>1, <1>2 DEF Unregister, TableInv, ModeExact
<1>3. CASE references[w] = 0
  BY <1>1, <1>3 DEF Unregister
<1>4. CASE ~atExit /\ references[w] = 1
  BY <1>4 DEF Unregister, TableInv, TypeOK
<1> QED
  BY <1>1, <1>2, <1>3, <1>4

\* So does every step of a native call: the release erases the entry and the
\* handle together, or leaves both.
LEMMA NativeTable == TableInv /\ Native => TableInv'
<1> SUFFICES ASSUME TableInv, Native PROVE TableInv'
  OBVIOUS
<1>t. TypeOK /\ TypeOK'
  BY NativeTyped DEF TableInv
<1>f. ASSUME dtor # NULL
      PROVE  dtor \in Frames /\ dtor.w \in Wrappers /\ class[dtor.w] # NULL
  BY <1>f, <1>t DEF TypeOK, Frames, TableInv, FrameExact
<1>n. \A k \in AllKinds : k # NULL
  BY ConstantsAssumption
<1>1. CASE DestructorQuery
  <2>1. dtor # NULL /\ dtor'.w = dtor.w /\ dtor'.then = dtor.then
    BY <1>1, <1>f DEF DestructorQuery, InDestructor, Frames
  <2> QED
    BY <1>1, <1>t, <2>1
    DEF DestructorQuery, TableInv, TableExact, FrameExact, EventsUntabled, ModeExact
<1>2. CASE DestructorRelease
  <2> DEFINE w == dtor.w
  <2>1. w \in Wrappers /\ dtor # NULL /\ dtor'.w = w /\ dtor'.then = dtor.then
    BY <1>2, <1>f DEF DestructorRelease, InDestructor, Frames
  <2>2. FrameExact'
    BY <1>2, <2>1 DEF DestructorRelease, TableInv, FrameExact
  <2>3. mode' \in {mode, "crashed"} /\ (atExit => mode' = mode)
    BY <1>2 DEF DestructorRelease, IteratorInvalidated
  <2>4. UNCHANGED <<class, atExit, cleared>>
    BY <1>2 DEF DestructorRelease
  <2>5. CASE dtor.count # 1
    <3>1. UNCHANGED <<field, objects, references>>
      BY <1>2, <2>5 DEF DestructorRelease
    <3> QED
      BY <1>t, <2>2, <2>3, <2>4, <3>1 DEF TableInv, TableExact, EventsUntabled, ModeExact
  <2>6. CASE dtor.count = 1 /\ atExit /\ mode = "clearing"
    <3>1. UNCHANGED <<objects, references>> /\ mode' = mode
      BY <1>2, <2>3, <2>6 DEF DestructorRelease, Retire, Unregister
    <3> QED
      BY <1>t, <2>2, <2>4, <2>6, <3>1 DEF TableInv, TableExact, EventsUntabled, ModeExact
  <2>7. CASE dtor.count = 1 /\ ~(atExit /\ mode = "clearing")
    <3>1. /\ objects'[w] = NULL /\ references'[w] = 0
          /\ \A v \in Wrappers : v # w => objects'[v] = objects[v] /\ references'[v] = references[v]
      BY <1>2, <2>1, <2>7, UnregisterTable DEF DestructorRelease, Retire
    <3>2. field'[w] = NULL /\ \A v \in Wrappers : v # w => field'[v] = field[v]
      BY <1>2, <1>t, <2>1, <2>7 DEF DestructorRelease, Retire, TypeOK
    <3>3. TableExact'
      BY <2>3, <2>4, <2>7, <3>1, <3>2 DEF TableInv, TableExact
    <3>4. EventsUntabled' /\ ModeExact'
      BY <2>3, <2>4, <2>7, <3>1 DEF TableInv, EventsUntabled, ModeExact
    <3> QED
      BY <1>t, <2>2, <3>3, <3>4 DEF TableInv
  <2> QED
    BY <2>5, <2>6, <2>7
<1>3. CASE DestructorReturn
  BY <1>3, <1>t DEF DestructorReturn, TableInv, TableExact, FrameExact, EventsUntabled, ModeExact
<1>4. CASE SetEventAssign
  <2>1. dtor.w \in Wrappers /\ class[dtor.w] = "event" /\ objects[dtor.w] = NULL
    BY <1>4, <1>f DEF SetEventAssign, InDestructor, TableInv, FrameExact, EventsUntabled
  <2>2. \A v \in Wrappers : v # dtor.w => field'[v] = field[v]
    BY <1>4, <1>t DEF SetEventAssign, TypeOK
  <2>3. UNCHANGED <<class, objects, references, atExit, mode, cleared>> /\ dtor' = NULL
    BY <1>4 DEF SetEventAssign
  <2>4. TableExact'
    BY <2>1, <2>2, <2>3 DEF TableInv, TableExact
  <2> QED
    BY <1>t, <2>3, <2>4 DEF TableInv, FrameExact, EventsUntabled, ModeExact
<1>5. CASE DeleteWrapper
  <2> DEFINE w == dtor.w
  <2>1. w \in Wrappers /\ Unregister(w)
    BY <1>5, <1>f DEF DeleteWrapper, InDestructor
  <2>2. /\ class'[w] = NULL /\ field'[w] = NULL
        /\ \A v \in Wrappers : v # w => class'[v] = class[v] /\ field'[v] = field[v]
        /\ UNCHANGED <<atExit, mode, cleared>> /\ dtor' = NULL
    BY <1>5, <1>t, <2>1 DEF DeleteWrapper, TypeOK
  <2>3. CASE atExit /\ mode = "clearing"
    <3>1. UNCHANGED <<objects, references>>
      BY <2>1, <2>3 DEF Unregister
    <3>2. EventsUntabled'
      BY <1>n, <2>2, <3>1 DEF TableInv, EventsUntabled, AllKinds
    <3> QED
      BY <1>t, <2>2, <2>3, <3>1, <3>2 DEF TableInv, TableExact, FrameExact, ModeExact
  <2>4. CASE ~(atExit /\ mode = "clearing")
    <3>1. /\ objects'[w] = NULL /\ references'[w] = 0
          /\ \A v \in Wrappers : v # w => objects'[v] = objects[v] /\ references'[v] = references[v]
      BY <2>1, <2>4, UnregisterTable
    <3>2. TableExact'
      BY <2>2, <2>4, <3>1 DEF TableInv, TableExact
    <3> QED
      BY <1>t, <2>2, <3>1, <3>2 DEF TableInv, FrameExact, EventsUntabled, ModeExact
  <2> QED
    BY <2>3, <2>4
<1>6. ASSUME NEW w \in Wrappers, ClearVisit(w)
      PROVE  TableInv'
  <2>1. FrameExact'
    <3>1. CASE class[w] \in Releasable
      BY <1>6, <1>n, <3>1 DEF ClearVisit, CallDestructor, Frame, FrameExact, Releasable
    <3>2. CASE class[w] \notin Releasable
      BY <1>6, <3>2 DEF ClearVisit, FrameExact
    <3> QED
      BY <3>1, <3>2
  <2> QED
    BY <1>6, <1>t, <2>1 DEF ClearVisit, TableInv, TableExact, EventsUntabled, ModeExact
<1>7. CASE ClearDone
  BY <1>7, <1>t DEF ClearDone, TableInv, TableExact, FrameExact, EventsUntabled, ModeExact
<1>8. CASE CollectDone
  BY <1>8, <1>t DEF CollectDone, TableInv, TableExact, FrameExact, EventsUntabled, ModeExact
<1> QED
  BY <1>1, <1>2, <1>3, <1>4, <1>5, <1>6, <1>7, <1>8 DEF Native

\* The runtime's own threads never touch the table.
LEMMA RuntimeTable == TableInv /\ Runtime => TableInv'
<1> SUFFICES ASSUME TableInv, Runtime PROVE TableInv'
  OBVIOUS
<1>1. UNCHANGED <<class, field, tableVars, threadVars, cleared>>
  BY DEF Runtime, CompleteCommand, FreeNative
<1>2. TypeOK'
  BY RuntimeTyped DEF TableInv
<1> QED
  BY <1>1, <1>2 DEF TableInv, TableExact, FrameExact, EventsUntabled, ModeExact

LEMMA CollectTable ==
  ASSUME TableInv, NEW w \in Wrappers, Collect(w)
  PROVE  TableInv'
<1>1. TypeOK'
  BY CollectTyped DEF TableInv
<1>2. FrameExact'
  BY DEF Collect, Frame, FrameExact
<1> QED
  BY <1>1, <1>2 DEF Collect, TableInv, TableExact, EventsUntabled, ModeExact

\* Every step keeps the table exact.
LEMMA NextTable == TableInv /\ [Next]_vars => TableInv'
<1> SUFFICES ASSUME TableInv, [Next]_vars PROVE TableInv'
  OBVIOUS
<1>1. CASE UNCHANGED vars
  BY <1>1 DEF TableInv, TypeOK, TableExact, FrameExact, EventsUntabled, ModeExact
<1> QED
  BY <1>1, ScriptTable, NativeTable, RuntimeTable, CollectTable DEF Next, Terminated

\* The Manager's table is exact in every run: no script, collection or runtime
\* step leaves an entry without its wrapper, with another handle or counted
\* twice, or a wrapper that has a handle without its entry.
THEOREM TableIsExact == Spec => []TableExact
<1>1. TableInv => TableExact
  BY DEF TableInv
<1> QED
  BY <1>1, NextTable, InitTable, PTL DEF Spec

=============================================================================
