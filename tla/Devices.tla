-------------------------------- MODULE Devices --------------------------------
(***************************************************************************)
(* Devices, their extensions, and what is created from them: contexts,     *)
(* command queues and buffers made from OpenGL objects.                    *)
(*                                                                         *)
(* An extension is enabled in two places: in the C++ wrapper of one device *)
(* (Device::enableExtensions), which createContext reads, and in one table *)
(* all devices share (WebCLDevice.prototype.enable_extensions), which      *)
(* guards the OpenGL calls.  The wrapper goes when the script has no more  *)
(* references to it; the table stays.                                      *)
(*                                                                         *)
(* Whoever shows a device to the script looks its wrapper up first, so a   *)
(* device has one wrapper, which is named here by its device.  Only when   *)
(* releaseAll() has emptied the table of objects does a device the script  *)
(* holds get a second one; the model then follows the second.              *)
(***************************************************************************)
EXTENDS Naturals, Sequences, SequencesExt, FiniteSetsExt

CONSTANTS
  Platforms,    \* cl_platform_id values
  Listing,      \* Listing[p]: p's devices, in the order of clGetDeviceIDs
  Supports,     \* Supports[d]: extensions the runtime has for device d
  GPUs,         \* devices whose type is CL_DEVICE_TYPE_GPU
  QueueProps,   \* QueueProps[d]: queue properties d supports
  Contexts,     \* WebCLContext objects that can be created
  Slots,        \* places for devices in createCommandQueue: sizeof(cl_uint) there
  Garbage,      \* a value that is no handle of the runtime
  NULL

DeviceIds == UNION {Range(Listing[p]) : p \in Platforms}

ASSUME DevicesAssumption ==
  /\ \A p \in Platforms : Listing[p] # <<>> /\ IsInjective(Listing[p])
  /\ \A p, q \in Platforms : p # q => Range(Listing[p]) \cap Range(Listing[q]) = {}
  /\ IsFiniteSet(DeviceIds) /\ GPUs \subseteq DeviceIds
  /\ Slots \in Nat \ {0}
  /\ Garbage \notin DeviceIds /\ NULL \notin DeviceIds \cup {Garbage}

PlatformOf(d) == CHOOSE p \in Platforms : d \in Range(Listing[p])

Extensions == {"gl_sharing", "fp64"}
Properties == {"outOfOrder", "profiling"}

\* Names scripts use for extensions: those of WebCL are keys of the prototype's
\* table, those of OpenCL are not, and the C++ code accepts both.
Names == [KHR_gl_sharing |-> "gl_sharing", cl_khr_gl_sharing |-> "gl_sharing",
          KHR_fp64 |-> "fp64"]
Keys == {"KHR_gl_sharing", "KHR_fp64"}

VARIABLES
  wrapper,    \* wrapper[d]: "none"; "held" by the script; "loose", to be collected;
              \* "aside", held and no longer in the table of objects
  available,  \* available[d]: Device::availableExtensions of d's wrapper
  enabled,    \* enabled[d]: Device::enableExtensions of d's wrapper
  named,      \* the keys of prototype.enable_extensions that are enabled
  contexts,   \* contexts[c]: its devices, whether it shares with OpenGL, whether
              \* it keeps the WebGL object; NULL when there is none
  answer,     \* the last createCommandQueue call: its context, whether it left the
              \* choice to the code, and the device of the queue it returned
  shared,     \* contexts with a buffer made from an OpenGL object
  granted     \* history: extensions some device was given

NoAnswer == [ctx |-> NULL, default |-> FALSE, device |-> NULL]

deviceVars == <<wrapper, available, enabled, granted>>
vars == <<deviceVars, named, contexts, answer, shared>>

Held == {d \in DeviceIds : wrapper[d] \in {"held", "aside"}}

-----------------------------------------------------------------------------
(* Wrappers and extensions *)

\* Mutation: a new wrapper each time, the way getPlatforms() makes them.
NeverFound(d) == FALSE

\* findCLObj: is there a wrapper for d in the table of objects?
Found(d) == wrapper[d] \in {"held", "loose"}

\* A call that returns devices: each is looked up, and wrapped when not found.
Show(D) ==
  /\ wrapper' = [d \in DeviceIds |-> IF d \in D THEN "held" ELSE wrapper[d]]
  /\ available' = [d \in DeviceIds |-> IF d \in D /\ ~Found(d) THEN {} ELSE available[d]]
  /\ enabled' = [d \in DeviceIds |-> IF d \in D /\ ~Found(d) THEN {} ELSE enabled[d]]
  /\ UNCHANGED <<granted, named, contexts, answer, shared>>

GetDevices(p) == \E D \in SUBSET Range(Listing[p]) : D # {} /\ Show(D)
ContextDevices(c) == contexts[c] # NULL /\ Show(Range(contexts[c].devices))
QueueDevice == answer.device # NULL /\ Show({answer.device})

\* The script drops its last reference to a wrapper; the collector deletes the
\* wrapper, whose destructor takes it out of the table, at some later time.
Drop(d) ==
  /\ wrapper[d] = "held"
  /\ wrapper' = [wrapper EXCEPT ![d] = "loose"]
  /\ UNCHANGED <<available, enabled, granted, named, contexts, answer, shared>>

Collect(d) ==
  /\ wrapper[d] = "loose"
  /\ wrapper' = [wrapper EXCEPT ![d] = "none"]
  /\ available' = [available EXCEPT ![d] = {}]
  /\ enabled' = [enabled EXCEPT ![d] = {}]
  /\ UNCHANGED <<granted, named, contexts, answer, shared>>

\* A wrapper that is in no table and that the script no longer holds is gone for
\* the program, whenever it is collected.
DropAside(d) ==
  /\ wrapper[d] = "aside"
  /\ wrapper' = [wrapper EXCEPT ![d] = "none"]
  /\ available' = [available EXCEPT ![d] = {}]
  /\ enabled' = [enabled EXCEPT ![d] = {}]
  /\ UNCHANGED <<granted, named, contexts, answer, shared>>

\* The script's releaseAll(): the table is emptied, the contexts the iterator of
\* Manager::clear gets to are released.  Destructor() of a device does nothing:
\* wrappers the script holds go on as they are.
ReleaseAll ==
  /\ wrapper' = [d \in DeviceIds |-> IF d \in Held THEN "aside" ELSE "none"]
  /\ available' = [d \in DeviceIds |-> IF d \in Held THEN available[d] ELSE {}]
  /\ enabled' = [d \in DeviceIds |-> IF d \in Held THEN enabled[d] ELSE {}]
  /\ \E kept \in SUBSET Contexts :
       /\ contexts' = [c \in Contexts |-> IF c \in kept THEN contexts[c] ELSE NULL]
       /\ answer' = IF answer.ctx \in kept THEN answer ELSE NoAnswer
  /\ UNCHANGED <<granted, named, shared>>

\* Mutation: the platform is asked for its devices' extensions.
AskedPlatform(d) == UNION {Supports[e] : e \in Range(Listing[PlatformOf(d)])}

\* availableExtensions after the runtime has been asked: by enableExtension only
\* when nothing is known yet, by getSupportedExtensions always.
Asked(d) == IF available[d] = {} THEN Supports[d] ELSE available[d]

GetSupportedExtensions(d) ==
  /\ d \in Held
  /\ available' = [available EXCEPT ![d] = @ \cup Supports[d]]
  /\ UNCHANGED <<wrapper, enabled, granted, named, contexts, answer, shared>>

\* Mutation: the name is entered whatever the C++ half returned.
NamedAnyway(name, ret) == named \cup ({name} \cap Keys)

\* The table of the prototype after the C++ half of enableExtension returned
\* ret.  A name that is no key is a TypeError, thrown after the device has been
\* changed.
NamedAfter(name, ret) == IF ret THEN named \cup ({name} \cap Keys) ELSE named

EnableExtension(d, name) ==
  LET x   == Names[name]
      ret == x \in Asked(d)
  IN  /\ d \in Held
      /\ available' = [available EXCEPT ![d] = Asked(d)]
      /\ enabled' = [enabled EXCEPT ![d] = IF ret THEN @ \cup {x} ELSE @]
      /\ granted' = IF ret THEN granted \cup {x} ELSE granted
      /\ named' = NamedAfter(name, ret)
      /\ UNCHANGED <<wrapper, contexts, answer, shared>>

-----------------------------------------------------------------------------
(* Contexts *)

\* The runtime makes a context of devices ds.  It shares with OpenGL when asked
\* to while an OpenGL context is current, which needs devices that can.
NewContext(c, ds, asks, keeps) ==
  \E current \in BOOLEAN :
    /\ contexts[c] = NULL
    /\ asks /\ current => \A d \in Range(ds) : "gl_sharing" \in Supports[d]
    /\ contexts' = [contexts EXCEPT ![c] =
         [devices |-> ds, shares |-> asks /\ current, webgl |-> keeps]]
    /\ UNCHANGED <<deviceVars, named, answer, shared>>

\* createContext([type]), (platform, [type]), (gl, [type]), (gl, platform, [type]):
\* the devices of that type on the platform, which is the first when none is
\* given, in the runtime's order.
FromType(c) ==
  \E p \in Platforms, asks \in BOOLEAN :
    \E ds \in SetToAllKPermutations(Range(Listing[p])) :
      ds # <<>> /\ NewContext(c, ds, asks, FALSE)

\* createContext(device) shares when that device's wrapper says so; only
\* createContext(gl, device) keeps the WebGL object.
FromDevice(c) ==
  \E d \in Held :
    \/ NewContext(c, <<d>>, "gl_sharing" \in enabled[d], FALSE)
    \/ NewContext(c, <<d>>, TRUE, TRUE)

\* createContext(devices) and (gl, devices): of the platform of the first, or
\* the runtime refuses.
FromDevices(c) ==
  \E p \in Platforms, asks \in BOOLEAN :
    \E ds \in SetToAllKPermutations(Held \cap Range(Listing[p])) :
      ds # <<>> /\ NewContext(c, ds, asks, FALSE)

-----------------------------------------------------------------------------
(* Command queues *)

\* Contents of the array createCommandQueue allocates: the context's devices,
\* and whatever was left in the memory behind them.  There is none when the
\* devices do not fit.
Arrays(c) ==
  LET ds == contexts[c].devices
  IN  IF Len(ds) > Slots THEN {}
      ELSE {ds \o rest : rest \in [1..(Slots - Len(ds)) -> DeviceIds \cup {Garbage}]}

\* Mutation: the search goes on after the first GPU.
LastGPU(slots) ==
  LET gpus == {i \in 1..Slots : slots[i] \in GPUs}
  IN  slots[IF gpus = {} THEN 1 ELSE Max(gpus)]

\* No property is asked for: the first GPU, or the first device.
FirstGPU(slots) ==
  LET gpus == {i \in 1..Slots : slots[i] \in GPUs}
  IN  slots[IF gpus = {} THEN 1 ELSE Min(gpus)]

\* The first device with one of the properties; NULL when there is none or a
\* value that is no device comes first.
FirstWith(slots, props) ==
  LET stops == {i \in 1..Slots : slots[i] = Garbage \/ QueueProps[slots[i]] \cap props # {}}
  IN  IF stops = {} \/ slots[Min(stops)] = Garbage THEN NULL ELSE slots[Min(stops)]

\* The device createCommandQueue uses when called with no device ("none", the
\* properties may come first) or with null.
Chosen(how, slots, props) ==
  IF props = {} THEN FirstGPU(slots)
  ELSE IF how = "none" THEN FirstWith(slots, props)
  ELSE slots[1]

\* The runtime fails the query for out-of-order execution, whose result it is
\* given four bytes for, and the call is refused when it asks for that.
Checked(props) == "outOfOrder" \notin props

\* The last step: the runtime accepts devices of the context that can do it.
Accepted(c, d, props) ==
  Checked(props) /\ d \in Range(contexts[c].devices) /\ props \subseteq QueueProps[d]

Answer(c, how, props, d) ==
  /\ answer' = [ctx |-> c, default |-> how # "device" /\ props = {},
                device |-> IF Accepted(c, d, props) THEN d ELSE NULL]
  /\ UNCHANGED <<deviceVars, named, contexts, shared>>

CreateCommandQueue(c) ==
  /\ contexts[c] # NULL
  /\ \E props \in SUBSET Properties :
       \/ \E d \in Held : Answer(c, "device", props, d)
       \/ \E how \in {"none", "null"} :
            \/ \E slots \in Arrays(c) : Answer(c, how, props, Chosen(how, slots, props))
            \/ Arrays(c) = {} /\ Answer(c, how, props, NULL)

-----------------------------------------------------------------------------
(* OpenGL objects *)

\* createFromGLBuffer, createFromGLTexture and createFromGLRenderbuffer.
CreateFromGL(c) ==
  /\ "KHR_gl_sharing" \in named
  /\ contexts[c] # NULL /\ contexts[c].webgl /\ contexts[c].shares
  /\ shared' = shared \cup {c}
  /\ UNCHANGED <<deviceVars, named, contexts, answer>>

-----------------------------------------------------------------------------
Init ==
  /\ wrapper = [d \in DeviceIds |-> "none"]
  /\ available = [d \in DeviceIds |-> {}]
  /\ enabled = [d \in DeviceIds |-> {}]
  /\ named = {}
  /\ contexts = [c \in Contexts |-> NULL]
  /\ answer = NoAnswer
  /\ shared = {}
  /\ granted = {}

Next ==
  \/ \E p \in Platforms : GetDevices(p)
  \/ \E c \in Contexts : ContextDevices(c)
  \/ QueueDevice
  \/ ReleaseAll
  \/ \E d \in DeviceIds : Drop(d) \/ DropAside(d) \/ Collect(d) \/ GetSupportedExtensions(d)
  \/ \E d \in DeviceIds, name \in DOMAIN Names : EnableExtension(d, name)
  \/ \E c \in Contexts : FromType(c) \/ FromDevice(c) \/ FromDevices(c)
  \/ \E c \in Contexts : CreateCommandQueue(c) \/ CreateFromGL(c)

Spec == Init /\ [][Next]_vars

-----------------------------------------------------------------------------
(* Properties *)

ContextType == [devices : SetToAllKPermutations(DeviceIds) \ {<<>>},
                shares : BOOLEAN, webgl : BOOLEAN]

\* What a device wrapper knows and has enabled is what the runtime has for that
\* device, and nothing is left of a wrapper that was collected.
TypeOK ==
  /\ wrapper \in [DeviceIds -> {"none", "held", "loose", "aside"}]
  /\ \A d \in DeviceIds :
       /\ enabled[d] \subseteq available[d]
       /\ available[d] \subseteq Supports[d]
       /\ wrapper[d] = "none" => available[d] = {}
  /\ named \subseteq Keys
  /\ contexts \in [Contexts -> ContextType \cup {NULL}]
  /\ answer \in [ctx : Contexts \cup {NULL}, default : BOOLEAN, device : DeviceIds \cup {NULL}]
  /\ shared \subseteq Contexts
  /\ granted \subseteq Extensions

DefaultAsked == answer.ctx # NULL /\ answer.default

\* createCommandQueue() without a device or properties prefers a GPU of the
\* context, the first, to its first device, and a context with a GPU is never
\* refused a queue unless its devices do not fit: whatever the memory behind the
\* context's devices held, it decides nothing there.
DefaultPrefersGPU ==
  DefaultAsked =>
    LET ds   == contexts[answer.ctx].devices
        gpus == {i \in 1..Len(ds) : ds[i] \in GPUs}
    IN  /\ answer.device # NULL => answer.device = ds[IF gpus = {} THEN 1 ELSE Min(gpus)]
        /\ gpus # {} /\ Len(ds) <= Slots => answer.device # NULL

\* What the script enabled on a device stays enabled as long as the script keeps
\* the device, however often and in whatever way it is asked for again.  The one
\* exception is a device that the script held through releaseAll() and asks for
\* again: the table no longer has its wrapper.
EnablingSticks ==
  [][\A d \in Held \cap Held' :
       (wrapper'[d] = "held" => wrapper[d] = "held") => enabled[d] \subseteq enabled'[d]]_vars

\* The OpenGL calls are open only after some device was given the extension: no
\* refused or unknown name opens them.
GLNeedsEnabling == shared # {} => "gl_sharing" \in granted

=============================================================================
