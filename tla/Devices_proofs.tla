---------------------------- MODULE Devices_proofs ----------------------------
(***************************************************************************)
(* Proofs about Devices, for any platforms, devices and contexts: what the *)
(* script enabled stays enabled, the OpenGL calls are open only after some *)
(* device was given the extension, the default queue is the first GPU's,   *)
(* and no wrapper, context or queue has what its device has not.           *)
(***************************************************************************)
EXTENDS Devices, FiniteSetTheorems, WellFoundedInduction, TLAPS

-----------------------------------------------------------------------------
(* Extensions *)

\* The table of the prototype names sharing only when some device was given it.
ExtInv ==
  /\ wrapper \in [DeviceIds -> {"none", "held", "loose", "aside"}]
  /\ DOMAIN enabled = DeviceIds /\ enabled = [d \in DeviceIds |-> enabled[d]]
  /\ "KHR_gl_sharing" \in named => "gl_sharing" \in granted
  /\ GLNeedsEnabling

\* A step of EnablingSticks.
KeepsEnabled ==
  \A d \in Held \cap Held' :
    (wrapper'[d] = "held" => wrapper[d] = "held") => enabled[d] \subseteq enabled'[d]

\* The steps that leave the wrappers and the extensions alone.
Elsewhere ==
  \/ \E c \in Contexts : FromType(c) \/ FromDevice(c) \/ FromDevices(c)
  \/ \E c \in Contexts : CreateCommandQueue(c)

LEMMA ElsewhereStep ==
  ASSUME Elsewhere
  PROVE  UNCHANGED <<wrapper, enabled, granted, named, shared>>
BY DEF Elsewhere, FromType, FromDevice, FromDevices, NewContext, CreateCommandQueue, Answer, deviceVars

LEMMA ShowStep ==
  ASSUME ExtInv, NEW D, Show(D)
  PROVE  ExtInv' /\ KeepsEnabled
BY DEF ExtInv, Show, Found, Held, GLNeedsEnabling, KeepsEnabled

LEMMA ExtensionStep ==
  ASSUME ExtInv, NEW d \in DeviceIds, NEW name \in DOMAIN Names, EnableExtension(d, name)
  PROVE  ExtInv' /\ KeepsEnabled
<1>1. PICK ret :
        /\ ret = (Names[name] \in Asked(d))
        /\ enabled' = [enabled EXCEPT ![d] = IF ret THEN @ \cup {Names[name]} ELSE @]
        /\ granted' = IF ret THEN granted \cup {Names[name]} ELSE granted
        /\ named' = NamedAfter(name, ret)
        /\ UNCHANGED <<wrapper, shared>>
  BY DEF EnableExtension
<1>2. name = "KHR_gl_sharing" => Names[name] = "gl_sharing"
  BY DEF Names
<1>3. "KHR_gl_sharing" \in named' => "gl_sharing" \in granted'
  BY <1>1, <1>2 DEF NamedAfter, ExtInv
<1>4. granted \subseteq granted'
  BY <1>1
<1>. QED BY <1>1, <1>3, <1>4 DEF ExtInv, Held, GLNeedsEnabling, KeepsEnabled

LEMMA ReleaseAllStep ==
  ASSUME ExtInv, ReleaseAll
  PROVE  ExtInv' /\ KeepsEnabled
BY DEF ExtInv, ReleaseAll, Held, GLNeedsEnabling, KeepsEnabled

LEMMA ExtNext ==
  ASSUME ExtInv, [Next]_vars
  PROVE  ExtInv' /\ KeepsEnabled
<1>1. CASE \E D : Show(D)
  BY <1>1, ShowStep
<1>2. CASE \E d \in DeviceIds : Drop(d) \/ DropAside(d) \/ Collect(d) \/ GetSupportedExtensions(d)
  <2>1. PICK d \in DeviceIds : Drop(d) \/ DropAside(d) \/ Collect(d) \/ GetSupportedExtensions(d)
    BY <1>2
  <2>2. CASE Drop(d) \/ GetSupportedExtensions(d)
    BY <2>2 DEF ExtInv, Drop, GetSupportedExtensions, Held, GLNeedsEnabling, KeepsEnabled
  <2>3. CASE Collect(d) \/ DropAside(d)
    BY <2>3 DEF ExtInv, Collect, DropAside, Held, GLNeedsEnabling, KeepsEnabled
  <2>. QED BY <2>1, <2>2, <2>3
<1>3. CASE \E d \in DeviceIds, name \in DOMAIN Names : EnableExtension(d, name)
  BY <1>3, ExtensionStep
<1>4. CASE Elsewhere \/ UNCHANGED vars
  <2>1. UNCHANGED <<wrapper, enabled, granted, named, shared>>
    BY <1>4, ElsewhereStep DEF vars, deviceVars
  <2>. QED BY <2>1 DEF ExtInv, GLNeedsEnabling, KeepsEnabled
<1>5. CASE \E c \in Contexts : CreateFromGL(c)
  <2>1. "gl_sharing" \in granted /\ UNCHANGED <<wrapper, enabled, granted, named>>
    BY <1>5 DEF CreateFromGL, ExtInv, deviceVars
  <2>. QED BY <2>1 DEF ExtInv, GLNeedsEnabling, KeepsEnabled
<1>. QED BY <1>1, <1>2, <1>3, <1>4, <1>5, ReleaseAllStep
         DEF Next, Elsewhere, GetDevices, ContextDevices, QueueDevice

LEMMA ExtInit == Init => ExtInv
BY DEF Init, ExtInv, GLNeedsEnabling

\* No refused or unknown name, and no loss of a wrapper, opens the OpenGL calls:
\* an object made from an OpenGL one means that some device was given the
\* extension.
THEOREM SharingWasGranted == Spec => []GLNeedsEnabling
<1>1. ExtInv /\ [Next]_vars => ExtInv'
  BY ExtNext
<1>2. ExtInv => GLNeedsEnabling
  BY DEF ExtInv
<1>. QED BY <1>1, <1>2, ExtInit, PTL DEF Spec

\* No call and no collection takes back what was enabled on a device the script
\* keeps, not even releaseAll(); only a device that is asked for again after
\* releaseAll() comes with a new wrapper, on which nothing is enabled.
THEOREM EnabledStays == Spec => EnablingSticks
<1>1. ExtInv /\ [Next]_vars => ExtInv'
  BY ExtNext
<1>2. ExtInv /\ [Next]_vars =>
        [\A d \in Held \cap Held' :
           (wrapper'[d] = "held" => wrapper[d] = "held") => enabled[d] \subseteq enabled'[d]]_vars
  BY ExtNext DEF KeepsEnabled
<1>. QED BY <1>1, <1>2, ExtInit, PTL DEF Spec, EnablingSticks

-----------------------------------------------------------------------------
(* Least numbers *)

LEMMA LeastNat ==
  ASSUME NEW S \in SUBSET Nat, S # {}
  PROVE  \E x \in S : \A y \in S : x <= y
<1>1. \E x \in S : \A y \in S : ~ (<<y, x>> \in OpToRel(<, Nat))
  BY NatLessThanWellFounded, WFMin
<1>2. \A x, y \in S : ~ (<<y, x>> \in OpToRel(<, Nat)) => x <= y
  BY DEF OpToRel
<1>. QED BY <1>1, <1>2

\* The least number of a set of positions.
LEMMA MinIsLeast ==
  ASSUME NEW S \in SUBSET Nat, S # {}
  PROVE  Min(S) \in S /\ \A y \in S : Min(S) <= y
BY LeastNat DEF Min

-----------------------------------------------------------------------------
(* The default queue *)

Positions(ds) == {i \in 1..Len(ds) : ds[i] \in GPUs}

ContextsExact ==
  \A c \in Contexts : contexts[c] # NULL =>
    contexts[c].devices \in Seq(DeviceIds) /\ contexts[c].devices # <<>>

\* The last answer is about a context that was there.
DefaultInv ==
  /\ contexts = [c \in Contexts |-> contexts[c]]
  /\ ContextsExact
  /\ answer.ctx # NULL => answer.ctx \in Contexts /\ contexts[answer.ctx] # NULL
  /\ DefaultPrefersGPU

LEMMA PermutationsAreSeqs ==
  ASSUME NEW S \in SUBSET DeviceIds, NEW ds \in SetToAllKPermutations(S)
  PROVE  ds \in Seq(DeviceIds)
<1>1. PICK s \in SUBSET S : ds \in [1..Cardinality(s) -> s]
  BY DEF SetToAllKPermutations, SetToSeqs
<1>2. Cardinality(s) \in Nat
  BY DevicesAssumption, FS_Subset, FS_CardinalityType
<1>3. PICK n \in Nat : n = Cardinality(s)
  BY <1>2
<1>4. ds \in [1..n -> DeviceIds]
  BY <1>1, <1>3
<1>. QED BY <1>4

\* The contents of createCommandQueue's array begin with the context's devices.
LEMMA ArrayBegins ==
  ASSUME NEW c, NEW ds \in Seq(DeviceIds), contexts[c].devices = ds, NEW slots \in Arrays(c)
  PROVE  Len(ds) <= Slots /\ \A i \in 1..Len(ds) : slots[i] = ds[i]
<1>1. Len(ds) \in Nat /\ Slots \in Nat
  BY DevicesAssumption
<1>2. Len(ds) <= Slots
  BY <1>1 DEF Arrays
<1>3. PICK rest \in [1..(Slots - Len(ds)) -> DeviceIds \cup {Garbage}] : slots = ds \o rest
  BY <1>1, <1>2 DEF Arrays
<1>4. PICK n \in Nat : n = Slots - Len(ds)
  <2>1. \A k, m \in Nat : k <= m => m - k \in Nat
    OBVIOUS
  <2>. QED BY <1>1, <1>2, <2>1
<1>5. PICK S : S = DeviceIds \cup {Garbage} /\ ds \in Seq(S)
  <2>1. \A S : DeviceIds \subseteq S => ds \in Seq(S)
    <3>. SUFFICES ASSUME NEW S, DeviceIds \subseteq S PROVE ds \in Seq(S)
      OBVIOUS
    <3>1. ds \in [1..Len(ds) -> S] /\ Len(ds) \in Nat
      OBVIOUS
    <3>. QED BY <3>1
  <2>. QED BY <2>1
<1>6. rest \in [1..n -> S]
  BY <1>3, <1>4, <1>5
<1>7. rest \in Seq(S)
  BY <1>6
<1>8. \A i \in 1..Len(ds) : slots[i] = ds[i]
  BY <1>3, <1>5, <1>7
<1>. QED BY <1>2, <1>8

LEMMA ArrayFits ==
  ASSUME NEW c, NEW ds \in Seq(DeviceIds), contexts[c].devices = ds, Arrays(c) = {}
  PROVE  Len(ds) > Slots
<1>1. Len(ds) \in Nat /\ Slots \in Nat
  BY DevicesAssumption
<1>2. SUFFICES ASSUME Len(ds) <= Slots PROVE FALSE
  BY <1>1
<1>3. PICK rest : rest \in [1..(Slots - Len(ds)) -> DeviceIds \cup {Garbage}]
  <2>1. [i \in 1..(Slots - Len(ds)) |-> Garbage] \in [1..(Slots - Len(ds)) -> DeviceIds \cup {Garbage}]
    OBVIOUS
  <2>. QED BY <2>1
<1>4. ~(Len(ds) > Slots)
  BY <1>1, <1>2
<1>5. ds \o rest \in Arrays(c)
  BY <1>3, <1>4, Zenon DEF Arrays
<1>. QED BY <1>5

\* The search over the array finds the context's first GPU; when the context
\* has none, what it finds behind the devices is none of the context's.
LEMMA FirstIsRight ==
  ASSUME NEW ds \in Seq(DeviceIds), ds # <<>>, NEW slots, Len(ds) <= Slots,
         \A i \in 1..Len(ds) : slots[i] = ds[i]
  PROVE  /\ Positions(ds) # {} => FirstGPU(slots) = ds[Min(Positions(ds))] /\ FirstGPU(slots) \in Range(ds)
         /\ Positions(ds) = {} /\ FirstGPU(slots) \in Range(ds) => FirstGPU(slots) = ds[1]
<1>. DEFINE gpus == {i \in 1..Slots : slots[i] \in GPUs}
<1>1. Len(ds) \in Nat /\ Len(ds) >= 1 /\ Slots \in Nat
  BY DevicesAssumption
<1>2. Positions(ds) \in SUBSET Nat /\ gpus \in SUBSET Nat /\ Positions(ds) \subseteq gpus
  BY <1>1 DEF Positions
<1>3. FirstGPU(slots) = slots[IF gpus = {} THEN 1 ELSE Min(gpus)]
  BY DEF FirstGPU
<1>4. ASSUME Positions(ds) # {}
      PROVE  FirstGPU(slots) = ds[Min(Positions(ds))] /\ FirstGPU(slots) \in Range(ds)
  <2>1. /\ Min(Positions(ds)) \in Positions(ds)
        /\ \A y \in Positions(ds) : Min(Positions(ds)) <= y
    BY <1>2, <1>4, MinIsLeast
  <2>2. gpus # {}
    BY <1>2, <1>4
  <2>3. Min(gpus) \in gpus /\ \A y \in gpus : Min(gpus) <= y
    BY <1>2, <2>2, MinIsLeast
  <2>4. PICK m, n : m = Min(Positions(ds)) /\ n = Min(gpus)
    OBVIOUS
  <2>5. n <= m /\ m \in 1..Len(ds) /\ n \in 1..Slots /\ slots[n] \in GPUs
    BY <1>2, <2>1, <2>3, <2>4 DEF Positions
  <2>6. n \in 1..Len(ds)
    BY <1>1, <2>5
  <2>7. n \in Positions(ds)
    BY <2>5, <2>6 DEF Positions
  <2>8. n = m
    BY <2>1, <2>4, <2>5, <2>7
  <2>9. FirstGPU(slots) = ds[m] /\ m \in 1..Len(ds)
    BY <1>3, <2>2, <2>4, <2>6, <2>8
  <2>. QED BY <2>4, <2>9 DEF Range
<1>5. ASSUME Positions(ds) = {}, FirstGPU(slots) \in Range(ds)
      PROVE  FirstGPU(slots) = ds[1]
  <2>1. CASE gpus = {}
    BY <1>1, <1>3, <2>1
  <2>2. CASE gpus # {}
    <3>1. Min(gpus) \in gpus
      BY <1>2, <2>2, MinIsLeast
    <3>2. FirstGPU(slots) \in GPUs
      BY <1>3, <2>2, <3>1
    <3>3. PICK i \in 1..Len(ds) : FirstGPU(slots) = ds[i]
      BY <1>5 DEF Range
    <3>4. i \in Positions(ds)
      BY <3>2, <3>3 DEF Positions
    <3>. QED BY <1>5, <3>4
  <2>. QED BY <2>1, <2>2
<1>. QED BY <1>4, <1>5

LEMMA QueueStep ==
  ASSUME DefaultInv, NEW c \in Contexts, CreateCommandQueue(c)
  PROVE  DefaultInv'
<1>1. /\ contexts' = contexts /\ contexts[c] # NULL
      /\ contexts[c].devices \in Seq(DeviceIds) /\ contexts[c].devices # <<>>
  BY DEF CreateCommandQueue, Answer, DefaultInv, ContextsExact
<1>2. PICK ds : ds = contexts[c].devices
  OBVIOUS
<1>3. PICK how, props, d :
        /\ Answer(c, how, props, d)
        /\ how # "device" => \/ \E slots \in Arrays(c) : d = Chosen(how, slots, props)
                             \/ Arrays(c) = {} /\ d = NULL
  BY DEF CreateCommandQueue
<1>4. PICK dev : dev = IF Accepted(c, d, props) THEN d ELSE NULL
  OBVIOUS
<1>5. answer' = [ctx |-> c, default |-> how # "device" /\ props = {}, device |-> dev]
  BY <1>3, <1>4 DEF Answer
<1>6. DefaultPrefersGPU'
  <2>0. answer'.ctx = c /\ answer'.device = dev /\ (answer'.default <=> how # "device" /\ props = {})
    BY <1>5
  <2>1. SUFFICES ASSUME how # "device", props = {}
                 PROVE  /\ dev # NULL => dev = ds[IF Positions(ds) = {} THEN 1 ELSE Min(Positions(ds))]
                        /\ Positions(ds) # {} /\ Len(ds) <= Slots => dev # NULL
    BY <1>1, <1>2, <2>0 DEF DefaultPrefersGPU, DefaultAsked, Positions
  <2>2. CASE \E slots \in Arrays(c) : d = Chosen(how, slots, props)
    <3>1. PICK slots \in Arrays(c) : d = Chosen(how, slots, {})
      BY <2>1, <2>2
    <3>0. d = FirstGPU(slots)
      BY <3>1 DEF Chosen
    <3>2. Len(ds) <= Slots /\ \A i \in 1..Len(ds) : slots[i] = ds[i]
      BY <1>1, <1>2, ArrayBegins
    <3>3. /\ Positions(ds) # {} => d = ds[Min(Positions(ds))] /\ d \in Range(ds)
          /\ Positions(ds) = {} /\ d \in Range(ds) => d = ds[1]
      BY <1>1, <1>2, <3>0, <3>2, FirstIsRight
    <3>4. dev = IF d \in Range(ds) THEN d ELSE NULL
      BY <1>2, <1>4, <2>1 DEF Accepted, Checked
    <3>5. d \in Range(ds) => d # NULL
      <4>1. ASSUME NEW i \in DOMAIN ds PROVE ds[i] # NULL
        <5>1. ds[i] \in DeviceIds
          BY <1>1, <1>2
        <5>. QED BY <5>1, DevicesAssumption
      <4>. QED BY <4>1 DEF Range
    <3>. QED BY <3>3, <3>4, <3>5
  <2>3. CASE Arrays(c) = {} /\ d = NULL
    <3>1. dev = NULL
      BY <1>4, <2>3
    <3>2. Len(ds) > Slots
      BY <1>1, <1>2, <2>3, ArrayFits
    <3>3. Len(ds) \in Nat /\ Slots \in Nat
      BY <1>1, <1>2, DevicesAssumption
    <3>. QED BY <3>1, <3>2, <3>3
  <2>. QED BY <1>3, <2>1, <2>2, <2>3
<1>. QED BY <1>1, <1>5, <1>6 DEF DefaultInv, ContextsExact

LEMMA ContextStep ==
  ASSUME DefaultInv, NEW c \in Contexts, FromType(c) \/ FromDevice(c) \/ FromDevices(c)
  PROVE  DefaultInv'
<1>1. PICK ds, asks, keeps : ds \in Seq(DeviceIds) \ {<<>>} /\ NewContext(c, ds, asks, keeps)
  <2>1. CASE FromType(c)
    <3>1. PICK p \in Platforms, asks \in BOOLEAN :
            \E ds \in SetToAllKPermutations(Range(Listing[p])) : ds # <<>> /\ NewContext(c, ds, asks, FALSE)
      BY <2>1 DEF FromType
    <3>2. Range(Listing[p]) \in SUBSET DeviceIds
      BY DEF DeviceIds
    <3>. QED BY <3>1, <3>2, PermutationsAreSeqs
  <2>2. CASE FromDevice(c)
    <3>1. PICK d, asks, keeps : d \in DeviceIds /\ NewContext(c, <<d>>, asks, keeps)
      BY <2>2 DEF FromDevice, Held
    <3>2. <<d>> \in Seq(DeviceIds) \ {<<>>}
      BY <3>1
    <3>. QED BY <3>1, <3>2
  <2>3. CASE FromDevices(c)
    <3>1. PICK p \in Platforms, asks \in BOOLEAN :
            \E ds \in SetToAllKPermutations(Held \cap Range(Listing[p])) : ds # <<>> /\ NewContext(c, ds, asks, FALSE)
      BY <2>3 DEF FromDevices
    <3>2. Held \cap Range(Listing[p]) \in SUBSET DeviceIds
      BY DEF Held
    <3>. QED BY <3>1, <3>2, PermutationsAreSeqs
  <2>. QED BY <2>1, <2>2, <2>3
<1>2. PICK shares : contexts' = [contexts EXCEPT ![c] = [devices |-> ds, shares |-> shares, webgl |-> keeps]]
  BY <1>1 DEF NewContext
<1>3. contexts[c] = NULL /\ answer' = answer /\ contexts'[c].devices = ds
  BY <1>1, <1>2 DEF NewContext, DefaultInv
<1>4. \A e \in Contexts : e # c => contexts'[e] = contexts[e]
  BY <1>2 DEF DefaultInv
<1>5. ContextsExact'
  BY <1>1, <1>3, <1>4 DEF ContextsExact, DefaultInv
<1>6. answer.ctx # NULL => answer.ctx \in Contexts /\ answer.ctx # c /\ contexts'[answer.ctx] = contexts[answer.ctx]
  BY <1>3, <1>4 DEF DefaultInv
<1>7. DefaultPrefersGPU'
  BY <1>3, <1>6 DEF DefaultInv, DefaultPrefersGPU, DefaultAsked
<1>. QED BY <1>2, <1>3, <1>5, <1>6, <1>7 DEF DefaultInv

LEMMA ClearStep ==
  ASSUME DefaultInv, ReleaseAll
  PROVE  DefaultInv'
<1>1. PICK kept \in SUBSET Contexts :
        /\ contexts' = [c \in Contexts |-> IF c \in kept THEN contexts[c] ELSE NULL]
        /\ answer' = IF answer.ctx \in kept THEN answer ELSE NoAnswer
  BY DEF ReleaseAll
<1>2. ContextsExact'
  BY <1>1 DEF DefaultInv, ContextsExact
<1>3. CASE answer.ctx \in kept
  BY <1>1, <1>2, <1>3 DEF DefaultInv, DefaultPrefersGPU, DefaultAsked
<1>4. CASE answer.ctx \notin kept
  BY <1>1, <1>2, <1>4 DEF DefaultInv, DefaultPrefersGPU, DefaultAsked, NoAnswer
<1>. QED BY <1>3, <1>4

LEMMA DefaultNext ==
  ASSUME DefaultInv, [Next]_vars
  PROVE  DefaultInv'
<1>1. CASE \E c \in Contexts : FromType(c) \/ FromDevice(c) \/ FromDevices(c)
  BY <1>1, ContextStep
<1>2. CASE \E c \in Contexts : CreateCommandQueue(c)
  BY <1>2, QueueStep
<1>3. ASSUME UNCHANGED <<contexts, answer>> PROVE DefaultInv'
  BY <1>3 DEF DefaultInv, ContextsExact, DefaultPrefersGPU, DefaultAsked
<1>. HIDE DEF DefaultInv
<1>. QED BY <1>1, <1>2, <1>3, ClearStep
     DEF Next, GetDevices, ContextDevices, QueueDevice, Show, Drop, DropAside, Collect, GetSupportedExtensions,
         EnableExtension, CreateFromGL, vars

LEMMA DefaultInit == Init => DefaultInv
BY DEF Init, DefaultInv, ContextsExact, DefaultPrefersGPU, DefaultAsked, NoAnswer

\* createCommandQueue() with neither device nor properties uses the context's
\* first GPU, or else its first device, or refuses; a context with a GPU, of no
\* more devices than the array has places, is not refused.  This holds for every
\* number of devices and whatever the memory behind them contains.
THEOREM DefaultIsFirstGPU == Spec => []DefaultPrefersGPU
<1>1. DefaultInv /\ [Next]_vars => DefaultInv'
  BY DefaultNext
<1>2. DefaultInv => DefaultPrefersGPU
  BY DEF DefaultInv
<1>. QED BY <1>1, <1>2, DefaultInit, PTL DEF Spec

-----------------------------------------------------------------------------
(* Types *)

\* The wrappers' sets of extensions are there for each device.
TypeInv ==
  /\ TypeOK
  /\ available = [d \in DeviceIds |-> available[d]]
  /\ enabled = [d \in DeviceIds |-> enabled[d]]

LEMMA PermutationsGrow ==
  ASSUME NEW S \in SUBSET DeviceIds
  PROVE  SetToAllKPermutations(S) \subseteq SetToAllKPermutations(DeviceIds)
BY DEF SetToAllKPermutations

LEMMA OneIsPermutation ==
  ASSUME NEW d \in DeviceIds
  PROVE  <<d>> \in SetToAllKPermutations(DeviceIds)
<1>1. Cardinality({d}) = 1
  BY FS_Singleton
<1>2. <<d>> \in [1..1 -> {d}]
  OBVIOUS
<1>3. <<d>> \in SetToSeqs({d})
  BY <1>1, <1>2 DEF SetToSeqs
<1>. QED BY <1>3 DEF SetToAllKPermutations

\* Steps that leave contexts and answers alone.
LEMMA WrapperTypes ==
  ASSUME TypeInv, UNCHANGED <<contexts, answer, shared>>,
         wrapper' \in [DeviceIds -> {"none", "held", "loose", "aside"}],
         available' = [d \in DeviceIds |-> available'[d]],
         enabled' = [d \in DeviceIds |-> enabled'[d]],
         \A d \in DeviceIds :
           /\ enabled'[d] \subseteq available'[d] /\ available'[d] \subseteq Supports[d]
           /\ wrapper'[d] = "none" => available'[d] = {},
         named' \subseteq Keys, granted' \subseteq Extensions
  PROVE  TypeInv'
BY DEF TypeInv, TypeOK

LEMMA ShowTypes ==
  ASSUME TypeInv, NEW D, Show(D)
  PROVE  TypeInv'
<1>1. /\ wrapper' \in [DeviceIds -> {"none", "held", "loose", "aside"}]
      /\ available' = [d \in DeviceIds |-> available'[d]]
      /\ enabled' = [d \in DeviceIds |-> enabled'[d]]
  BY DEF Show, TypeInv, TypeOK
<1>2. ASSUME NEW d \in DeviceIds
      PROVE  /\ enabled'[d] \subseteq available'[d] /\ available'[d] \subseteq Supports[d]
             /\ wrapper'[d] = "none" => available'[d] = {}
  BY <1>2 DEF Show, TypeInv, TypeOK
<1>3. UNCHANGED <<contexts, answer, shared, named, granted>>
  BY DEF Show
<1>. QED BY <1>1, <1>2, <1>3, WrapperTypes DEF TypeInv, TypeOK

LEMMA DeviceTypes ==
  ASSUME TypeInv, NEW d \in DeviceIds, Drop(d) \/ DropAside(d) \/ Collect(d) \/ GetSupportedExtensions(d)
  PROVE  TypeInv'
<1>1. UNCHANGED <<contexts, answer, shared, named, granted>>
  BY DEF Drop, DropAside, Collect, GetSupportedExtensions
<1>2. /\ wrapper' \in [DeviceIds -> {"none", "held", "loose", "aside"}]
      /\ available' = [e \in DeviceIds |-> available'[e]]
      /\ enabled' = [e \in DeviceIds |-> enabled'[e]]
  BY DEF Drop, DropAside, Collect, GetSupportedExtensions, TypeInv, TypeOK
<1>3. ASSUME NEW e \in DeviceIds
      PROVE  /\ enabled'[e] \subseteq available'[e] /\ available'[e] \subseteq Supports[e]
             /\ wrapper'[e] = "none" => available'[e] = {}
  <2>1. CASE Drop(d)
    BY <2>1 DEF Drop, TypeInv, TypeOK
  <2>2. CASE Collect(d) \/ DropAside(d)
    <3>1. CASE e = d
      BY <2>2, <3>1 DEF Collect, DropAside, TypeInv, TypeOK
    <3>2. CASE e # d
      BY <2>2, <3>2 DEF Collect, DropAside, TypeInv, TypeOK
    <3>. QED BY <3>1, <3>2
  <2>3. CASE GetSupportedExtensions(d)
    <3>1. CASE e = d
      BY <2>3, <3>1 DEF GetSupportedExtensions, Held, TypeInv, TypeOK
    <3>2. CASE e # d
      BY <2>3, <3>2 DEF GetSupportedExtensions, TypeInv, TypeOK
    <3>. QED BY <3>1, <3>2
  <2>. QED BY <2>1, <2>2, <2>3
<1>. QED BY <1>1, <1>2, <1>3, WrapperTypes DEF TypeInv, TypeOK

LEMMA EnableTypes ==
  ASSUME TypeInv, NEW d \in DeviceIds, NEW name \in DOMAIN Names, EnableExtension(d, name)
  PROVE  TypeInv'
<1>1. PICK x, ret : x = Names[name] /\ ret = (x \in Asked(d))
  OBVIOUS
<1>0. x \in Extensions
  BY <1>1 DEF Names, Extensions
<1>2. /\ wrapper[d] \in {"held", "aside"}
      /\ available' = [available EXCEPT ![d] = Asked(d)]
      /\ enabled' = [enabled EXCEPT ![d] = IF ret THEN @ \cup {x} ELSE @]
      /\ granted' = IF ret THEN granted \cup {x} ELSE granted
      /\ named' = NamedAfter(name, ret)
      /\ UNCHANGED <<wrapper, contexts, answer, shared>>
  BY <1>1 DEF EnableExtension, Held
<1>3. /\ enabled[d] \subseteq Asked(d) /\ Asked(d) \subseteq Supports[d]
      /\ named \subseteq Keys /\ granted \subseteq Extensions
      /\ wrapper \in [DeviceIds -> {"none", "held", "loose", "aside"}]
  BY DEF TypeInv, TypeOK, Asked
<1>4. named' \subseteq Keys /\ granted' \subseteq Extensions
  BY <1>0, <1>2, <1>3 DEF NamedAfter
<1>5. /\ available' = [e \in DeviceIds |-> available'[e]]
      /\ enabled' = [e \in DeviceIds |-> enabled'[e]]
  BY <1>2 DEF TypeInv
<1>6. ASSUME NEW e \in DeviceIds
      PROVE  /\ enabled'[e] \subseteq available'[e] /\ available'[e] \subseteq Supports[e]
             /\ wrapper'[e] = "none" => available'[e] = {}
  <2>1. CASE e = d
    BY <1>1, <1>2, <1>3, <2>1 DEF TypeInv
  <2>2. CASE e # d
    BY <1>2, <2>2 DEF TypeInv, TypeOK
  <2>. QED BY <2>1, <2>2
<1>. QED BY <1>2, <1>3, <1>4, <1>5, <1>6, WrapperTypes

LEMMA ContextTypes ==
  ASSUME TypeInv, NEW c \in Contexts, FromType(c) \/ FromDevice(c) \/ FromDevices(c)
  PROVE  TypeInv'
<1>1. PICK ds, asks : /\ ds \in SetToAllKPermutations(DeviceIds) \ {<<>>}
                      /\ NewContext(c, ds, asks, FALSE) \/ NewContext(c, ds, asks, TRUE)
  <2>1. CASE FromType(c)
    <3>1. PICK p \in Platforms, asks \in BOOLEAN :
            \E ds \in SetToAllKPermutations(Range(Listing[p])) : ds # <<>> /\ NewContext(c, ds, asks, FALSE)
      BY <2>1 DEF FromType
    <3>2. Range(Listing[p]) \in SUBSET DeviceIds
      BY DEF DeviceIds
    <3>. QED BY <3>1, <3>2, PermutationsGrow
  <2>2. CASE FromDevice(c)
    <3>1. PICK d, asks : d \in DeviceIds /\ (NewContext(c, <<d>>, asks, FALSE) \/ NewContext(c, <<d>>, asks, TRUE))
      BY <2>2 DEF FromDevice, Held
    <3>2. <<d>> \in SetToAllKPermutations(DeviceIds) \ {<<>>}
      BY <3>1, OneIsPermutation
    <3>. QED BY <3>1, <3>2
  <2>3. CASE FromDevices(c)
    <3>1. PICK p \in Platforms, asks \in BOOLEAN :
            \E ds \in SetToAllKPermutations(Held \cap Range(Listing[p])) : ds # <<>> /\ NewContext(c, ds, asks, FALSE)
      BY <2>3 DEF FromDevices
    <3>2. Held \cap Range(Listing[p]) \in SUBSET DeviceIds
      BY DEF Held
    <3>. QED BY <3>1, <3>2, PermutationsGrow
  <2>. QED BY <2>1, <2>2, <2>3
<1>2. PICK shares \in BOOLEAN, keeps \in BOOLEAN :
        contexts' = [contexts EXCEPT ![c] = [devices |-> ds, shares |-> shares, webgl |-> keeps]]
  <2>1. PICK current \in BOOLEAN :
          \/ contexts' = [contexts EXCEPT ![c] = [devices |-> ds, shares |-> asks /\ current, webgl |-> FALSE]]
          \/ contexts' = [contexts EXCEPT ![c] = [devices |-> ds, shares |-> asks /\ current, webgl |-> TRUE]]
    BY <1>1 DEF NewContext
  <2>2. PICK shares \in BOOLEAN : shares = (asks /\ current)
    OBVIOUS
  <2>3. CASE contexts' = [contexts EXCEPT ![c] = [devices |-> ds, shares |-> asks /\ current, webgl |-> FALSE]]
    BY <2>2, <2>3
  <2>4. CASE contexts' = [contexts EXCEPT ![c] = [devices |-> ds, shares |-> asks /\ current, webgl |-> TRUE]]
    BY <2>2, <2>4
  <2>. QED BY <2>1, <2>3, <2>4
<1>3. [devices |-> ds, shares |-> shares, webgl |-> keeps] \in ContextType
  BY <1>1 DEF ContextType
<1>4. contexts' \in [Contexts -> ContextType \cup {NULL}]
  BY <1>2, <1>3 DEF TypeInv, TypeOK
<1>5. UNCHANGED <<deviceVars, named, answer, shared>>
  BY <1>1 DEF NewContext
<1>. QED BY <1>4, <1>5 DEF TypeInv, TypeOK, deviceVars

\* A queue the runtime has accepted is on one of the context's devices: what was
\* left in the memory behind them is never taken for a device.
LEMMA QueueTypes ==
  ASSUME TypeInv, NEW c \in Contexts, CreateCommandQueue(c)
  PROVE  TypeInv'
<1>1. PICK how, props, d : /\ how \in {"none", "null", "device"} /\ props \in SUBSET Properties
                          /\ Answer(c, how, props, d)
  BY DEF CreateCommandQueue
<1>2. PICK dev : dev = IF Accepted(c, d, props) THEN d ELSE NULL
  OBVIOUS
<1>3. /\ answer' = [ctx |-> c, default |-> how # "device" /\ props = {}, device |-> dev]
      /\ UNCHANGED <<deviceVars, named, contexts, shared>>
  BY <1>1, <1>2 DEF Answer
<1>4. dev \in DeviceIds \cup {NULL}
  <2>1. contexts[c] # NULL /\ contexts[c] \in ContextType
    BY DEF CreateCommandQueue, TypeInv, TypeOK
  <2>2. contexts[c].devices \in Seq(DeviceIds)
    BY <2>1, PermutationsAreSeqs DEF ContextType
  <2>3. Range(contexts[c].devices) \subseteq DeviceIds
    BY <2>2 DEF Range
  <2>. QED BY <1>2, <2>3 DEF Accepted
<1>. QED BY <1>1, <1>3, <1>4 DEF TypeInv, TypeOK, deviceVars

LEMMA ReleaseAllTypes ==
  ASSUME TypeInv, ReleaseAll
  PROVE  TypeInv'
<1>1. PICK kept \in SUBSET Contexts :
        /\ contexts' = [c \in Contexts |-> IF c \in kept THEN contexts[c] ELSE NULL]
        /\ answer' = IF answer.ctx \in kept THEN answer ELSE NoAnswer
  BY DEF ReleaseAll
<1>2. /\ wrapper' = [d \in DeviceIds |-> IF d \in Held THEN "aside" ELSE "none"]
      /\ available' = [d \in DeviceIds |-> IF d \in Held THEN available[d] ELSE {}]
      /\ enabled' = [d \in DeviceIds |-> IF d \in Held THEN enabled[d] ELSE {}]
      /\ UNCHANGED <<granted, named, shared>>
  BY DEF ReleaseAll
<1>3. \A d \in DeviceIds :
        /\ enabled'[d] \subseteq available'[d] /\ available'[d] \subseteq Supports[d]
        /\ wrapper'[d] = "none" => available'[d] = {}
  BY <1>2 DEF TypeInv, TypeOK
<1>4. /\ contexts' \in [Contexts -> ContextType \cup {NULL}]
      /\ answer' \in [ctx : Contexts \cup {NULL}, default : BOOLEAN, device : DeviceIds \cup {NULL}]
  BY <1>1 DEF TypeInv, TypeOK, NoAnswer
<1>. QED BY <1>2, <1>3, <1>4 DEF TypeInv, TypeOK

LEMMA TypeNext ==
  ASSUME TypeInv, [Next]_vars
  PROVE  TypeInv'
<1>1. CASE \E D : Show(D)
  BY <1>1, ShowTypes
<1>2. CASE \E d \in DeviceIds : Drop(d) \/ DropAside(d) \/ Collect(d) \/ GetSupportedExtensions(d)
  BY <1>2, DeviceTypes
<1>3. CASE \E d \in DeviceIds, name \in DOMAIN Names : EnableExtension(d, name)
  BY <1>3, EnableTypes
<1>4. CASE \E c \in Contexts : FromType(c) \/ FromDevice(c) \/ FromDevices(c)
  BY <1>4, ContextTypes
<1>5. CASE \E c \in Contexts : CreateCommandQueue(c)
  BY <1>5, QueueTypes
<1>6. CASE \E c \in Contexts : CreateFromGL(c)
  BY <1>6 DEF CreateFromGL, TypeInv, TypeOK, deviceVars
<1>7. CASE UNCHANGED vars
  BY <1>7 DEF vars, deviceVars, TypeInv, TypeOK
<1>. HIDE DEF TypeInv
<1>. QED BY <1>1, <1>2, <1>3, <1>4, <1>5, <1>6, <1>7, ReleaseAllTypes DEF Next, GetDevices, ContextDevices, QueueDevice

LEMMA TypeInit == Init => TypeInv
BY DEF Init, TypeInv, TypeOK, NoAnswer, ContextType, Properties

\* A wrapper never has an extension enabled that it does not know, nor knows one
\* the device has not, and nothing is left of a wrapper that was collected; a
\* context has its own devices, and a queue is on a device.
THEOREM DeviceTypesHold == Spec => []TypeOK
<1>1. TypeInv /\ [Next]_vars => TypeInv'
  BY TypeNext
<1>2. TypeInv => TypeOK
  BY DEF TypeInv
<1>. QED BY <1>1, <1>2, TypeInit, PTL DEF Spec

=============================================================================
