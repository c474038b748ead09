------------------------- MODULE WebCLOwnership_proofs -------------------------
(***************************************************************************)
(* Proofs about WebCLObjects for a careful script: each wrapper that stands *)
(* for a native object owns one of its references, so no wrapper releases  *)
(* a reference of the runtime's, no entry of the table is dangling, and a  *)
(* native object has one wrapper.  For any number of wrappers and objects. *)
(***************************************************************************)
EXTENDS WebCLObjects_proofs, FiniteSetTheorems

USE DEF vars, tableVars, nativeVars, threadVars, historyVars

-----------------------------------------------------------------------------
(* Who owns what *)

\* Beside the references of the runtime's, h has one of somebody else's.
Owed(h) == refs[h] >= RuntimeRefs(h) + 1

\* The Destructor() call on the stack is w's, and has still to release.
Releasing(w) == dtor # NULL /\ dtor.w = w /\ dtor.stage \in {"query", "release"}

\* setEvent has released what w stood for, and assigns the new event next.
Replacing(w) == dtor # NULL /\ dtor.w = w /\ dtor.stage = "done" /\ dtor.then = "assign"

\* w counts on a reference to its native object.  Once releaseAll() or the exit
\* hook have begun, only wrappers they have still to visit do, and user events,
\* which the collector releases.
Owner(w) ==
  /\ field[w] \in Handles
  /\ IF cleared THEN w \in left \/ Releasing(w) \/ class[w] = "userEvent"
     ELSE ~Replacing(w)

OwnersExact == \A w \in Wrappers : Owner(w) => Valid(w) /\ Owed(field[w])

OwnersDistinct == \A v, w \in Wrappers : Owner(v) /\ Owner(w) /\ field[v] = field[w] => v = w

\* Which wrappers have which handles.
FieldsExact ==
  \A w \in Wrappers :
    /\ class[w] = NULL => field[w] = NULL
    /\ class[w] = "platform" => field[w] \in PlatformIds
    /\ class[w] = "device" => field[w] \in DeviceIds
    /\ class[w] \in Releasable => field[w] \in Handles \cup {NULL}

DevicesDistinct ==
  ~cleared => \A v, w \in Wrappers :
    class[v] = "device" /\ class[w] = "device" /\ field[v] = field[w] => v = w

\* Nothing of the runtime's keeps an event but its command, and nobody else
\* has a reference to a user event.
EventsUnretained == \A g, h \in Handles : h \in retains[g] => hclass[h] # "event"

UserEventsSingle ==
  \A w \in Wrappers : class[w] = "userEvent" /\ field[w] \in Handles => refs[field[w]] = 1

\* What is alive can be handed out by getInfo, so somebody owns it, perhaps a
\* wrapper that was collected.
ParentsOwed == ~cleared => \A h \in Handles : hclass[h] # "event" /\ refs[h] > 0 => Owed(h)

\* A Destructor() releases what its wrapper owns.  When release() called it the
\* runtime has no reference, so the count it has read is right.
FrameOwns ==
  dtor # NULL =>
    /\ dtor.w \notin left
    /\ Releasing(dtor.w) => Owner(dtor.w)
    /\ dtor.then = "assign" => /\ ~cleared /\ hclass[dtor.ev] = "event" /\ Owed(dtor.ev)
                               /\ \A w \in Wrappers : Owner(w) => field[w] # dtor.ev
    /\ dtor.then = "delete" /\ Releasing(dtor.w) => class[dtor.w] = "userEvent"
    /\ dtor.then = "return" /\ ~cleared /\ Releasing(dtor.w) => RuntimeRefs(field[dtor.w]) = 0
    /\ dtor.stage = "release" /\ (dtor.then = "return" => ~cleared \/ class[dtor.w] = "userEvent")
         => dtor.then = "assign" \/ dtor.count = refs[field[dtor.w]]

\* Only Manager::clear() has entries to visit, and it leaves none in the table.
ClearedEmpty ==
  mode \notin {"clearing", "crashed"} => left = {} /\ (cleared => Registered = {})

OwnInv ==
  /\ TableInv /\ FieldsExact /\ OwnersExact /\ OwnersDistinct /\ DevicesDistinct
  /\ EventsUnretained /\ UserEventsSingle /\ ParentsOwed
  /\ FrameOwns /\ ClearedEmpty /\ RuntimeRefsIntact

-----------------------------------------------------------------------------
(* Counting the runtime's references *)

LEMMA RetainersFinite ==
  ASSUME NEW h
  PROVE  /\ IsFiniteSet(Retainers(h)) /\ Cardinality(Retainers(h)) \in Nat
         /\ IsFiniteSet(Retainers(h)') /\ Cardinality(Retainers(h)') \in Nat
<1>1. Retainers(h) \in SUBSET Handles /\ Retainers(h)' \in SUBSET Handles
  BY DEF Retainers
<1> QED
  BY <1>1, ConstantsAssumption, FS_Subset, FS_CardinalityType

\* The count is a natural number.
LEMMA RuntimeRefsNat ==
  ASSUME NEW h
  PROVE  RuntimeRefs(h) \in Nat /\ RuntimeRefs(h)' \in Nat
BY RetainersFinite DEF RuntimeRefs

\* The runtime has a reference to an object exactly when another one retains it
\* or its command runs.
LEMMA RuntimeRefsPositive ==
  ASSUME NEW h \in Handles
  PROVE  RuntimeRefs(h) = 0 <=> h \notin running /\ \A g \in Handles : h \notin retains[g]
<1>1. Cardinality(Retainers(h)) = 0 <=> Retainers(h) = {}
  BY RetainersFinite, FS_EmptySet
<1>2. Retainers(h) = {} <=> \A g \in Handles : h \notin retains[g]
  BY DEF Retainers
<1> QED
  BY <1>1, <1>2, RetainersFinite DEF RuntimeRefs

\* What the runtime refers to is alive, and what is not it does not retain.
LEMMA ReferredAlive ==
  ASSUME TypeOK, RuntimeRefsIntact, NEW h \in Handles
  PROVE  /\ refs[h] = 0 => RuntimeRefs(h) = 0
         /\ \A g \in Handles : h \in retains[g] => refs[h] > 0
         /\ h \in running => refs[h] > 0
BY RuntimeRefsPositive, RuntimeRefsNat DEF RuntimeRefsIntact, TypeOK

\* An allocation adds a reference of the new object's to each of deps, and no
\* other: what the others can spare is as it was.
LEMMA AllocateCounts ==
  ASSUME TypeOK, RuntimeRefsIntact, NEW h \in Handles, NEW k, NEW n \in Nat, NEW deps,
         deps \subseteq Handles, \A g \in deps : refs[g] > 0,
         AllocateNative(h, k, n, deps), running' \in {running, running \cup {h}}
  PROVE  /\ refs'[h] = n /\ hclass'[h] = k
         /\ RuntimeRefs(h)' = (IF h \in running' THEN 1 ELSE 0)
         /\ \A g \in Handles \ {h} :
              /\ hclass'[g] = hclass[g]
              /\ refs'[g] >= refs[g]
              /\ refs'[g] > 0 => refs[g] > 0
              /\ g \notin deps => refs'[g] = refs[g]
              /\ refs'[g] - RuntimeRefs(g)' = refs[g] - RuntimeRefs(g)
<1> USE DEF AllocateNative, Fresh
<1>1. refs[h] = 0 /\ h \notin deps /\ \A g \in Handles : h \notin retains[g]
  BY ReferredAlive DEF TypeOK
<1>2. refs'[h] = n /\ hclass'[h] = k
  BY DEF TypeOK
<1>3. RuntimeRefs(h)' = (IF h \in running' THEN 1 ELSE 0)
  <2>1. Retainers(h)' = {}
    BY <1>1 DEF Retainers, TypeOK
  <2> QED
    BY <2>1, FS_EmptySet DEF RuntimeRefs
<1>4. ASSUME NEW g \in Handles \ {h}
      PROVE  /\ hclass'[g] = hclass[g]
             /\ refs'[g] >= refs[g]
             /\ refs'[g] > 0 => refs[g] > 0
             /\ g \notin deps => refs'[g] = refs[g]
             /\ refs'[g] - RuntimeRefs(g)' = refs[g] - RuntimeRefs(g)
  <2>1. refs[g] \in Nat /\ refs'[g] = (IF g \in deps THEN refs[g] + 1 ELSE refs[g])
    BY <1>4 DEF TypeOK
  <2>2. h \notin Retainers(g)
    BY DEF Retainers
  <2>3. Retainers(g)' = IF g \in deps THEN Retainers(g) \cup {h} ELSE Retainers(g)
    BY <1>4 DEF Retainers, TypeOK
  <2>4. Cardinality(Retainers(g)') = Cardinality(Retainers(g)) + (IF g \in deps THEN 1 ELSE 0)
    <3> DEFINE R == Retainers(g)
    <3>1. IsFiniteSet(R) /\ h \notin R /\ Cardinality(R) \in Nat
      BY <2>2, RetainersFinite
    <3> HIDE DEF R
    <3>2. Cardinality(R \cup {h}) = Cardinality(R) + 1
      BY <3>1, FS_AddElement
    <3>3. Retainers(g)' = IF g \in deps THEN R \cup {h} ELSE R
      BY <2>3 DEF R
    <3>4. Cardinality(Retainers(g)') = Cardinality(R) + (IF g \in deps THEN 1 ELSE 0)
      BY ONLY <3>1, <3>2, <3>3
    <3> QED
      BY <3>4 DEF R
  <2>5. g \in running' <=> g \in running
    BY <1>4
  <2>6. RuntimeRefs(g)' = RuntimeRefs(g) + (IF g \in deps THEN 1 ELSE 0)
    BY <2>4, <2>5, RetainersFinite DEF RuntimeRefs
  <2> QED
    BY <1>4, <2>1, <2>6, RuntimeRefsNat DEF TypeOK
<1> QED
  BY <1>2, <1>3, <1>4

\* h lets go of drop: each of them loses the one reference that was h's.
LEMMA DropCounts ==
  ASSUME TypeOK, NEW h \in Handles, NEW drop, drop \subseteq retains[h],
         retains' = [retains EXCEPT ![h] = @ \ drop], NEW g \in Handles
  PROVE  Cardinality(Retainers(g)') = Cardinality(Retainers(g)) - (IF g \in drop THEN 1 ELSE 0)
<1> DEFINE R == Retainers(g)
<1>1. IsFiniteSet(R) /\ Cardinality(R) \in Nat
  BY RetainersFinite
<1>2. g \in drop => h \in R
  BY DEF Retainers
<1>3. Retainers(g)' = IF g \in drop THEN R \ {h} ELSE R
  BY DEF Retainers, TypeOK
<1> HIDE DEF R
<1>4. h \in R => Cardinality(R \ {h}) = Cardinality(R) - 1
  BY <1>1, FS_RemoveElement
<1>5. Cardinality(Retainers(g)') = Cardinality(R) - (IF g \in drop THEN 1 ELSE 0)
  BY ONLY <1>1, <1>2, <1>3, <1>4
<1> QED
  BY <1>5 DEF R

\* The runtime's own steps give back no more references than the runtime has.
LEMMA RuntimeCounts ==
  ASSUME TypeOK, NEW h \in Handles, CompleteCommand(h) \/ FreeNative(h), NEW g \in Handles
  PROVE  /\ hclass'[g] = hclass[g] /\ retains'[g] \subseteq retains[g]
         /\ refs'[g] \in Nat /\ refs'[g] <= refs[g]
         /\ RuntimeRefs(g)' <= RuntimeRefs(g)
         /\ refs[g] - RuntimeRefs(g) <= refs'[g] - RuntimeRefs(g)'
         /\ RuntimeRefs(g) = 0 => refs'[g] = refs[g]
<1>1. PICK drop : /\ drop \subseteq retains[h]
                  /\ retains' = [retains EXCEPT ![h] = @ \ drop]
                  /\ \/ /\ h \in running /\ running' = running \ {h}
                        /\ refs' = [k \in Handles |-> IF k = h \/ k \in drop THEN Dec(refs[k]) ELSE refs[k]]
                     \/ /\ running' = running
                        /\ refs' = [k \in Handles |-> IF k \in drop THEN Dec(refs[k]) ELSE refs[k]]
  <2>1. CASE CompleteCommand(h)
    <3> DEFINE args == {k \in retains[h] : hclass[k] \notin {"queue", "context"}}
    <3>1. /\ args \subseteq retains[h]
          /\ retains' = [retains EXCEPT ![h] = @ \ args]
          /\ h \in running /\ running' = running \ {h}
          /\ refs' = [k \in Handles |-> IF k = h \/ k \in args THEN Dec(refs[k]) ELSE refs[k]]
      BY <2>1 DEF CompleteCommand
    <3> HIDE DEF args
    <3> QED
      BY <3>1
  <2>2. CASE FreeNative(h)
    <3>1. retains' = [retains EXCEPT ![h] = @ \ retains[h]]
      BY <2>2 DEF FreeNative, TypeOK
    <3> QED
      BY <2>2, <3>1 DEF FreeNative
  <2> QED
    BY <2>1, <2>2
<1>2. Cardinality(Retainers(g)') = Cardinality(Retainers(g)) - (IF g \in drop THEN 1 ELSE 0)
  BY <1>1, DropCounts
<1>3. /\ refs[g] \in Nat /\ Cardinality(Retainers(g)) \in Nat /\ Cardinality(Retainers(g)') \in Nat
  BY RetainersFinite DEF TypeOK
<1>4. CASE g = h /\ h \in running /\ h \notin running'
  <2>1. RuntimeRefs(g) = Cardinality(Retainers(g)) + 1 /\ RuntimeRefs(g)' = Cardinality(Retainers(g)')
    BY <1>3, <1>4 DEF RuntimeRefs
  <2>2. refs'[g] = Dec(refs[g])
    BY <1>1, <1>4
  <2> QED
    BY <1>1, <1>2, <1>3, <2>1, <2>2
    DEF Dec, TypeOK, CompleteCommand, FreeNative
<1>5. CASE ~(g = h /\ h \in running /\ h \notin running')
  <2>1. RuntimeRefs(g)' - RuntimeRefs(g) = Cardinality(Retainers(g)') - Cardinality(Retainers(g))
    BY <1>1, <1>3, <1>5 DEF RuntimeRefs
  <2>2. refs'[g] = IF g \in drop THEN Dec(refs[g]) ELSE refs[g]
    BY <1>1, <1>5
  <2>3. RuntimeRefs(g) >= Cardinality(Retainers(g))
    BY <1>3 DEF RuntimeRefs
  <2> QED
    BY <1>1, <1>2, <1>3, <2>1, <2>2, <2>3, RuntimeRefsNat
    DEF Dec, TypeOK, CompleteCommand, FreeNative
<1> QED
  BY <1>4, <1>5

-----------------------------------------------------------------------------
(* The invariant, action by action *)

\* A step with no new owners, that takes nothing from what is owed, keeps both
\* facts about owners.
LEMMA OwnersKept ==
  ASSUME TypeOK', OwnersExact, OwnersDistinct,
         \A w \in Wrappers : Owner(w)' => /\ Owner(w)
                                          /\ class'[w] = class[w] /\ field'[w] = field[w],
         \A h \in Handles : Owed(h) => /\ hclass'[h] = hclass[h]
                                       /\ refs'[h] >= RuntimeRefs(h)' + 1
  PROVE  OwnersExact' /\ OwnersDistinct'
<1>1. ASSUME NEW w \in Wrappers, Owner(w)'
      PROVE  Valid(w)' /\ Owed(field[w])'
  <2> DEFINE h == field[w]
  <2>1. Valid(w) /\ Owed(h) /\ h \in Handles /\ field'[w] = h /\ class'[w] = class[w]
    BY <1>1 DEF OwnersExact, Owner
  <2>2. hclass'[h] = hclass[h] /\ refs'[h] >= RuntimeRefs(h)' + 1
    BY <2>1
  <2>3. refs'[h] > 0
    BY <2>1, <2>2, RuntimeRefsNat DEF TypeOK
  <2> QED
    BY <2>1, <2>2, <2>3 DEF Valid, Owed
<1>2. OwnersDistinct'
  BY DEF OwnersDistinct
<1> QED
  BY <1>1, <1>2 DEF OwnersExact

\* A user event that its wrapper owns has that reference only.
LEMMA UserEventUnused ==
  ASSUME OwnInv, NEW w \in Wrappers, class[w] = "userEvent", field[w] \in Handles
  PROVE  Owner(w) /\ Valid(w) /\ RuntimeRefs(field[w]) = 0 /\ refs[field[w]] = 1
<1>1. ~Replacing(w)
  BY DEF Replacing, OwnInv, TableInv, FrameExact
<1>2. Owner(w)
  BY <1>1 DEF Owner
<1> QED
  BY <1>2, RuntimeRefsNat DEF OwnInv, OwnersExact, Owed, UserEventsSingle

\* The runtime drops its own references only.
LEMMA RuntimeOwn ==
  ASSUME OwnInv, NEW h \in Handles, CompleteCommand(h) \/ FreeNative(h), TableInv'
  PROVE  OwnInv'
<1> USE DEF OwnInv
<1>1. UNCHANGED <<class, field, tableVars, threadVars, cleared>>
  BY DEF CompleteCommand, FreeNative
<1>t. TypeOK /\ TypeOK'
  BY DEF TableInv
<1>2. \A g \in Handles : /\ hclass'[g] = hclass[g] /\ retains'[g] \subseteq retains[g]
                         /\ refs'[g] \in Nat /\ refs'[g] <= refs[g] /\ refs[g] \in Nat
                         /\ RuntimeRefs(g)' \in Nat /\ RuntimeRefs(g) \in Nat
                         /\ RuntimeRefs(g)' <= RuntimeRefs(g)
                         /\ refs[g] - RuntimeRefs(g) <= refs'[g] - RuntimeRefs(g)'
                         /\ RuntimeRefs(g) = 0 => refs'[g] = refs[g]
  BY <1>t, RuntimeCounts, RuntimeRefsNat DEF TypeOK
<1>3. \A g \in Handles : Owed(g) => refs'[g] >= RuntimeRefs(g)' + 1
  BY <1>2 DEF Owed
<1>4. \A w \in Wrappers : (Owner(w)' <=> Owner(w)) /\ (Releasing(w)' <=> Releasing(w))
  BY <1>1 DEF Owner, Releasing, Replacing
<1>5. OwnersExact' /\ OwnersDistinct'
  BY <1>t, <1>1, <1>2, <1>3, <1>4, OwnersKept
<1>6. FieldsExact' /\ DevicesDistinct' /\ ClearedEmpty'
  BY <1>1 DEF FieldsExact, DevicesDistinct, ClearedEmpty, Registered
<1>7. EventsUnretained' /\ RuntimeRefsIntact'
  BY <1>2 DEF EventsUnretained, RuntimeRefsIntact
<1>8. UserEventsSingle'
  BY <1>1, <1>2, UserEventUnused DEF UserEventsSingle
<1>9. ParentsOwed'
  <2> SUFFICES ASSUME ~cleared, NEW g \in Handles, hclass'[g] # "event", refs'[g] > 0
               PROVE  refs'[g] >= RuntimeRefs(g)' + 1
    BY <1>1 DEF ParentsOwed, Owed
  <2>1. hclass[g] # "event" /\ refs[g] > 0
    BY <1>2
  <2> QED
    BY <1>3, <2>1 DEF ParentsOwed
<1>10. FrameOwns'
  <2> SUFFICES ASSUME dtor # NULL PROVE FrameOwns'
    BY <1>1 DEF FrameOwns
  <2> DEFINE w == dtor.w
  <2>1. w \in Wrappers /\ (dtor.then = "assign" => dtor.ev \in Handles)
        /\ dtor.then \in {"return", "assign", "delete"}
    BY <1>t DEF TypeOK, Frames
  <2>2. Releasing(w) => Owner(w) /\ field[w] \in Handles
    BY DEF FrameOwns, Owner
  <2>3. dtor.then = "assign" => /\ ~cleared /\ hclass'[dtor.ev] = "event" /\ Owed(dtor.ev)'
                                /\ \A v \in Wrappers : Owner(v)' => field'[v] # dtor.ev
    <3> SUFFICES ASSUME dtor.then = "assign"
                 PROVE  /\ ~cleared /\ hclass'[dtor.ev] = "event" /\ Owed(dtor.ev)'
                        /\ \A v \in Wrappers : Owner(v)' => field'[v] # dtor.ev
      OBVIOUS
    <3>0. PICK e \in Handles : e = dtor.ev
      BY <2>1
    <3>1. e \in Handles /\ ~cleared /\ hclass[e] = "event" /\ Owed(e) /\ e = dtor'.ev
          /\ \A v \in Wrappers : Owner(v) => field[v] # e
      BY <1>1, <3>0 DEF FrameOwns
    <3>2. hclass'[e] = "event" /\ refs'[e] >= RuntimeRefs(e)' + 1
      BY <1>2, <1>3, <3>1
    <3> QED
      BY <1>1, <1>4, <3>0, <3>1, <3>2 DEF Owed
  <2>4. ~cleared /\ dtor.then = "return" /\ Releasing(w) =>
          /\ RuntimeRefs(field[w]) = 0
          /\ RuntimeRefs(field[w])' = 0
    <3> SUFFICES ASSUME ~cleared, dtor.then = "return", Releasing(w)
                 PROVE  RuntimeRefs(field[w]) = 0 /\ RuntimeRefs(field[w])' = 0
      OBVIOUS
    <3>0. PICK f \in Handles : f = field[w]
      BY <2>2
    <3>1. f \in Handles /\ RuntimeRefs(f) = 0 /\ field'[w] = f
      BY <1>1, <2>1, <3>0 DEF FrameOwns
    <3>2. RuntimeRefs(f)' = 0
      BY <1>2, <3>1
    <3> QED
      BY <1>1, <3>0, <3>1, <3>2
  <2>5. dtor.stage = "release" /\ (dtor.then = "return" => ~cleared \/ class[w] = "userEvent")
         => dtor.then = "assign" \/ dtor.count = refs'[field[w]]
    <3> SUFFICES ASSUME dtor.stage = "release", dtor.then # "assign",
                        dtor.then = "return" => ~cleared \/ class[w] = "userEvent"
                 PROVE  dtor.count = refs'[field[w]]
      OBVIOUS
    <3>1. Releasing(w) /\ dtor.count = refs[field[w]]
      BY DEF FrameOwns, Releasing
    <3>2. RuntimeRefs(field[w]) = 0
      <4>1. CASE class[w] = "userEvent"
        BY <2>1, <2>2, <3>1, <4>1, UserEventUnused
      <4>2. CASE dtor.then = "return" /\ ~cleared
        BY <2>4, <3>1, <4>2
      <4>3. CASE dtor.then = "delete"
        BY <3>1, <4>1, <4>3 DEF FrameOwns
      <4> QED
        BY <2>1, <4>1, <4>2, <4>3
    <3> QED
      BY <1>2, <2>2, <3>1, <3>2
  <2> QED
    BY <1>1, <1>4, <2>1, <2>3, <2>4, <2>5 DEF FrameOwns
<1> QED
  BY <1>5, <1>6, <1>7, <1>8, <1>9, <1>10

\* A step that leaves the native objects alone and makes no owner keeps all that
\* is said of them.
LEMMA NativesKept ==
  ASSUME OwnInv, TypeOK', UNCHANGED nativeVars,
         \A w \in Wrappers : Owner(w)' => /\ Owner(w)
                                          /\ class'[w] = class[w] /\ field'[w] = field[w]
  PROVE  /\ OwnersExact' /\ OwnersDistinct' /\ EventsUnretained' /\ RuntimeRefsIntact'
         /\ (cleared' = cleared => ParentsOwed')
         /\ \A h \in Handles : RuntimeRefs(h)' = RuntimeRefs(h) /\ (Owed(h)' <=> Owed(h))
<1>1. \A h \in Handles : RuntimeRefs(h)' = RuntimeRefs(h)
  BY DEF RuntimeRefs, Retainers
<1>2. \A h \in Handles : Owed(h)' <=> Owed(h)
  BY <1>1 DEF Owed
<1>3. OwnersExact' /\ OwnersDistinct'
  BY <1>1, OwnersKept DEF OwnInv, Owed
<1> QED
  BY <1>1, <1>2, <1>3 DEF OwnInv, EventsUnretained, RuntimeRefsIntact, ParentsOwed

\* getPlatforms and getDevices: the new wrapper has no native object.
LEMMA NewStaticOwn ==
  ASSUME OwnInv, TableInv', CarefulClient, ScriptMayCall, NEW w \in Wrappers,
         NEW k \in {"platform", "device"}, NEW id,
         k = "platform" => id \in PlatformIds,
         k = "device" => id \in DeviceIds /\ ~Found(id),
         NewWrapper(w, k, id), UNCHANGED <<threadVars, nativeVars, historyVars>>
  PROVE  OwnInv'
<1> USE DEF OwnInv, TableInv
<1>1. ~cleared /\ ~cleared' /\ dtor = NULL /\ dtor' = NULL
  BY DEF ScriptMayCall, ScriptRuns
<1>2. /\ class[w] = NULL /\ class' = [class EXCEPT ![w] = k]
      /\ field' = [field EXCEPT ![w] = id]
      /\ id \notin Handles /\ id # NULL
  BY ConstantsAssumption DEF NewWrapper
<1>3. \A v \in Wrappers : Owner(v)' => Owner(v) /\ class'[v] = class[v] /\ field'[v] = field[v]
  BY <1>1, <1>2 DEF Owner, Replacing, TypeOK
<1>4. OwnersExact' /\ OwnersDistinct' /\ EventsUnretained' /\ RuntimeRefsIntact' /\ ParentsOwed'
  BY <1>1, <1>3, NativesKept
<1>5. FieldsExact'
  BY <1>2, ConstantsAssumption DEF FieldsExact, TypeOK, Releasable, StaticKinds, AllKinds
<1>6. UserEventsSingle'
  BY <1>2 DEF UserEventsSingle, TypeOK
<1>7. DevicesDistinct'
  <2>1. ASSUME NEW v \in Wrappers, class[v] = "device", k = "device"
        PROVE  field[v] # id
    <3>1. objects[v] = field[v]
      BY <1>1, <2>1 DEF TableExact, ScriptMayCall, ScriptRuns, ModeExact
    <3> QED
      BY <1>2, <2>1, <3>1 DEF Found, Registered
  <2> QED
    BY <1>1, <1>2, <2>1, ConstantsAssumption DEF DevicesDistinct, TypeOK, AllKinds
<1>8. FrameOwns' /\ ClearedEmpty'
  BY <1>1 DEF FrameOwns, ClearedEmpty
<1> QED
  BY <1>4, <1>5, <1>6, <1>7, <1>8

\* getInfo: the new wrapper takes over the reference of one that was collected.
LEMMA GetInfoOwn ==
  ASSUME OwnInv, TableInv', CarefulClient, NEW p \in Wrappers, NEW askers, NEW w \in Wrappers,
         NEW k \in {"context", "program", "mem", "queue"}, NEW h \in Handles,
         GetInfo(p, askers, k, w, h)
  PROVE  OwnInv'
<1> USE DEF OwnInv, TableInv, GetInfo
<1>1. ~cleared /\ ~cleared' /\ dtor = NULL /\ dtor' = NULL /\ ~atExit
  BY DEF ScriptMayCall, ScriptRuns, ModeExact
<1>2. /\ class[w] = NULL /\ class' = [class EXCEPT ![w] = k]
      /\ field' = [field EXCEPT ![w] = h] /\ UNCHANGED nativeVars
  BY DEF NewWrapper
<1>k. k \in Releasable /\ k \notin {"event", "userEvent", "device", "platform"}
      /\ NativeKind(k) = k /\ k # NULL /\ h # NULL
  BY ConstantsAssumption DEF Releasable, StaticKinds, AllKinds, NativeKind
<1>3. refs[h] > 0 /\ Owed(h)
  BY <1>1, <1>k, ReferredAlive DEF Valid, ParentsOwed
<1>4. ASSUME NEW v \in Wrappers, Owner(v)
      PROVE  field[v] # h
  <2>1. Valid(v)
    BY <1>4 DEF OwnersExact
  <2>2. CASE class[v] = "event"
    BY <1>k, <2>1, <2>2 DEF Valid, NativeKind
  <2>3. CASE class[v] # "event"
    <3>1. objects[v] = field[v]
      BY <1>1, <2>3 DEF TableExact
    <3> QED
      BY <1>k, <3>1 DEF Found, Registered
  <2> QED
    BY <2>2, <2>3
<1>5. \A g \in Handles : RuntimeRefs(g)' = RuntimeRefs(g) /\ (Owed(g)' <=> Owed(g))
  BY <1>2 DEF RuntimeRefs, Retainers, Owed
<1>6. \A v \in Wrappers : v # w => (Owner(v)' <=> Owner(v)) /\ class'[v] = class[v] /\ field'[v] = field[v]
  BY <1>1, <1>2 DEF Owner, Replacing, TypeOK
<1>7. class'[w] = k /\ field'[w] = h
  BY <1>2 DEF TypeOK
<1>8. OwnersExact' /\ OwnersDistinct'
  <2>1. ASSUME NEW v \in Wrappers, Owner(v)'
        PROVE  Valid(v)' /\ Owed(field[v])'
    <3>1. CASE v = w
      BY <1>2, <1>3, <1>5, <1>7, <1>k, <3>1 DEF Valid, Owed
    <3>2. CASE v # w
      <4>1. Valid(v) /\ Owed(field[v]) /\ field[v] \in Handles
        BY <1>6, <2>1, <3>2 DEF OwnersExact, Owner
      <4> QED
        BY <1>2, <1>5, <1>6, <3>2, <4>1 DEF Valid, Owed
    <3> QED
      BY <3>1, <3>2
  <2>2. OwnersDistinct'
    BY <1>4, <1>6, <1>7 DEF OwnersDistinct
  <2> QED
    BY <2>1, <2>2 DEF OwnersExact
<1>9. EventsUnretained' /\ RuntimeRefsIntact' /\ ParentsOwed'
  BY <1>1, <1>2, <1>5 DEF EventsUnretained, RuntimeRefsIntact, ParentsOwed
<1>10. FieldsExact' /\ UserEventsSingle' /\ DevicesDistinct'
  BY <1>1, <1>2, <1>k DEF FieldsExact, UserEventsSingle, DevicesDistinct, TypeOK
<1>11. FrameOwns' /\ ClearedEmpty'
  BY <1>1 DEF FrameOwns, ClearedEmpty
<1> QED
  BY <1>8, <1>9, <1>10, <1>11

\* What is created from live objects retains live objects, none of them an event.
LEMMA ClosureAlive ==
  ASSUME OwnInv, NEW hs, hs \subseteq Handles,
         \A h \in hs : refs[h] > 0 /\ hclass[h] # "event"
  PROVE  /\ Closure(hs) \subseteq Handles
         /\ \A g \in Closure(hs) : refs[g] > 0 /\ hclass[g] # "event"
<1>t. TypeOK
  BY DEF OwnInv, TableInv
<1>1. Closure(hs) \subseteq Handles
  BY <1>t, ClosureTyped
<1>2. ASSUME NEW g \in Closure(hs), g \notin hs
      PROVE  refs[g] > 0 /\ hclass[g] # "event"
  <2>1. PICK h \in hs : g \in retains[h]
    BY <1>2 DEF Closure
  <2> QED
    BY <1>t, <1>1, <2>1, ReferredAlive DEF OwnInv, EventsUnretained
<1> QED
  BY <1>1, <1>2

\* createX: the new wrapper has the new object's only reference.
LEMMA NewObjectOwn ==
  ASSUME OwnInv, TableInv', CarefulClient, ScriptMayCall, NEW w \in Wrappers, NEW h \in Handles,
         NEW k \in AllKinds \ {"event", "platform", "device"},
         NEW deps, deps \subseteq Handles, \A g \in deps : refs[g] > 0 /\ hclass[g] # "event",
         AllocateNative(h, NativeKind(k), 1, deps), NewWrapper(w, k, h),
         UNCHANGED <<threadVars, running, cleared>>
  PROVE  OwnInv'
<1> USE DEF OwnInv, TableInv
<1>1. ~cleared /\ ~cleared' /\ dtor = NULL /\ dtor' = NULL
  BY DEF ScriptMayCall, ScriptRuns
<1>2. /\ class[w] = NULL /\ class' = [class EXCEPT ![w] = k]
      /\ field' = [field EXCEPT ![w] = h]
  BY DEF NewWrapper
<1>k. k \in Releasable /\ k \notin {"event", "device", "platform"} /\ k # NULL /\ h # NULL
  BY ConstantsAssumption DEF Releasable, StaticKinds, AllKinds
<1>3. /\ refs'[h] = 1 /\ hclass'[h] = NativeKind(k)
      /\ RuntimeRefs(h)' = (IF h \in running' THEN 1 ELSE 0)
      /\ \A g \in Handles \ {h} :
              /\ hclass'[g] = hclass[g]
              /\ refs'[g] >= refs[g]
              /\ refs'[g] > 0 => refs[g] > 0
              /\ g \notin deps => refs'[g] = refs[g]
              /\ refs'[g] - RuntimeRefs(g)' = refs[g] - RuntimeRefs(g)
  BY AllocateCounts
<1>4. refs[h] = 0 /\ h \notin running' /\ h \notin deps
  BY DEF AllocateNative, Fresh
<1>5. Owed(h)' /\ RuntimeRefs(h)' = 0
  BY <1>3, <1>4 DEF Owed
<1>6. \A g \in Handles \ {h} : Owed(g)' <=> Owed(g)
  BY <1>3, RuntimeRefsNat DEF Owed, TypeOK
<1>7. \A v \in Wrappers : v # w => (Owner(v)' <=> Owner(v)) /\ class'[v] = class[v] /\ field'[v] = field[v]
  BY <1>1, <1>2 DEF Owner, Replacing, TypeOK
<1>8. class'[w] = k /\ field'[w] = h
  BY <1>2 DEF TypeOK
<1>9. ASSUME NEW v \in Wrappers, Owner(v)
      PROVE  Valid(v) /\ Owed(field[v]) /\ field[v] \in Handles \ {h}
  BY <1>4, <1>9 DEF OwnersExact, Valid
<1>10. OwnersExact' /\ OwnersDistinct'
  <2>1. ASSUME NEW v \in Wrappers, Owner(v)'
        PROVE  Valid(v)' /\ Owed(field[v])'
    <3>1. CASE v = w
      BY <1>3, <1>5, <1>8, <3>1 DEF Valid, Owed
    <3>2. CASE v # w
      <4>1. Valid(v) /\ Owed(field[v]) /\ field[v] \in Handles \ {h}
        BY <1>7, <1>9, <2>1, <3>2
      <4>2. PICK f \in Handles \ {h} : f = field[v]
        BY <4>1
      <4> QED
        BY <1>3, <1>6, <1>7, <3>2, <4>1, <4>2 DEF Valid, Owed, TypeOK
    <3> QED
      BY <3>1, <3>2
  <2>2. OwnersDistinct'
    BY <1>7, <1>8, <1>9 DEF OwnersDistinct
  <2> QED
    BY <2>1, <2>2 DEF OwnersExact
<1>11. EventsUnretained'
  <2>1. ASSUME NEW g \in Handles, NEW f \in Handles, f \in retains'[g]
        PROVE  hclass'[f] # "event"
    <3>1. CASE g = h
      BY <1>3, <1>4, <2>1, <3>1 DEF AllocateNative, TypeOK
    <3>2. CASE g # h
      <4>1. f \in retains[g]
        BY <2>1, <3>2 DEF AllocateNative, TypeOK
      <4>2. f # h
        BY <1>4, <4>1, ReferredAlive DEF TypeOK
      <4> QED
        BY <1>3, <4>1, <4>2 DEF EventsUnretained
    <3> QED
      BY <3>1, <3>2
  <2> QED
    BY <2>1 DEF EventsUnretained
<1>12. RuntimeRefsIntact'
  BY <1>3, <1>5, RuntimeRefsNat DEF RuntimeRefsIntact, TypeOK
<1>13. ParentsOwed'
  BY <1>1, <1>3, <1>5, <1>6 DEF ParentsOwed, TypeOK
<1>14. FieldsExact' /\ DevicesDistinct'
  BY <1>1, <1>2, <1>k DEF FieldsExact, DevicesDistinct, TypeOK
<1>15. UserEventsSingle'
  <2>1. ASSUME NEW v \in Wrappers, v # w, class[v] = "userEvent", field[v] \in Handles
        PROVE  refs'[field[v]] = 1
    <3>1. Owner(v) /\ Valid(v) /\ refs[field[v]] = 1
      BY <2>1, UserEventUnused
    <3>2. hclass[field[v]] = "event" /\ field[v] # h
      BY <1>4, <2>1, <3>1 DEF Valid, NativeKind
    <3> QED
      BY <1>3, <2>1, <3>1, <3>2
  <2> QED
    BY <1>3, <1>7, <1>8, <2>1 DEF UserEventsSingle
<1>16. FrameOwns' /\ ClearedEmpty'
  BY <1>1 DEF FrameOwns, ClearedEmpty
<1> QED
  BY <1>10, <1>11, <1>12, <1>13, <1>14, <1>15, <1>16

\* retain() takes a reference that no wrapper counts on.
LEMMA RetainOwn ==
  ASSUME OwnInv, TableInv', CarefulClient, NEW w \in Wrappers, Retain(w)
  PROVE  OwnInv'
<1> USE DEF OwnInv, TableInv, Retain
<1>1. ~cleared /\ dtor = NULL /\ UNCHANGED <<class, field, tableVars, threadVars, hclass, retains, running, cleared>>
  BY DEF ScriptMayCall, ScriptRuns
<1>2. \A g \in Handles : RuntimeRefs(g)' = RuntimeRefs(g) /\ RuntimeRefs(g) \in Nat
  BY <1>1, RuntimeRefsNat DEF RuntimeRefs, Retainers
<1>3. field[w] \in Handles /\ refs' = [refs EXCEPT ![field[w]] = @ + 1]
  BY DEF Valid
<1>4. \A g \in Handles : /\ refs[g] \in Nat /\ refs'[g] >= refs[g]
                         /\ g # field[w] => refs'[g] = refs[g]
  BY <1>3 DEF TypeOK
<1>5. Owner(w) /\ \A v \in Wrappers : Owner(v)' <=> Owner(v)
  BY <1>1, <1>3 DEF Owner, Replacing
<1>6. OwnersExact' /\ OwnersDistinct'
  BY <1>1, <1>2, <1>4, <1>5, OwnersKept DEF Owed
<1>7. RuntimeRefsIntact' /\ EventsUnretained' /\ FieldsExact' /\ DevicesDistinct' /\ ClearedEmpty' /\ FrameOwns'
  BY <1>1, <1>2, <1>4
  DEF RuntimeRefsIntact, EventsUnretained, FieldsExact, DevicesDistinct, ClearedEmpty, Registered, FrameOwns
<1>8. UserEventsSingle'
  <2>1. ASSUME NEW v \in Wrappers, class[v] = "userEvent", field[v] \in Handles
        PROVE  refs'[field[v]] = 1
    <3>1. Owner(v) /\ refs[field[v]] = 1
      BY <2>1, UserEventUnused
    <3>2. field[v] # field[w]
      BY <1>5, <2>1, <3>1 DEF OwnersDistinct
    <3> QED
      BY <1>4, <2>1, <3>1, <3>2
  <2> QED
    BY <1>1, <2>1 DEF UserEventsSingle
<1>9. ParentsOwed'
  <2>1. Owed(field[w])
    BY <1>5 DEF OwnersExact
  <2>2. ASSUME NEW g \in Handles, hclass[g] # "event", refs'[g] > 0
        PROVE  refs'[g] >= RuntimeRefs(g)' + 1
    <3>1. Owed(g)
      BY <1>1, <1>4, <2>1, <2>2 DEF ParentsOwed
    <3> QED
      BY <1>2, <1>4, <3>1 DEF Owed
  <2> QED
    BY <1>1, <2>2 DEF ParentsOwed, Owed
<1> QED
  BY <1>6, <1>7, <1>8, <1>9

LEMMA CreateObjectOwn ==
  ASSUME OwnInv, TableInv', CarefulClient, NEW p \in Wrappers, NEW w \in Wrappers, NEW h \in Handles,
         NEW makers \in SUBSET {"context", "program", "mem"},
         NEW k \in AllKinds \ {"event", "platform", "device"},
         CreateObject(p, makers, k, w, h)
  PROVE  OwnInv'
<1> DEFINE f == field[p]
<1>1. f \in Handles /\ refs[f] > 0 /\ hclass[f] # "event"
  BY DEF CreateObject, Valid, NativeKind
<1>2. /\ Closure({f}) \subseteq Handles
      /\ \A g \in Closure({f}) : refs[g] > 0 /\ hclass[g] # "event"
  BY <1>1, ClosureAlive
<1>3. /\ ScriptMayCall /\ AllocateNative(h, NativeKind(k), 1, Closure({f})) /\ NewWrapper(w, k, h)
      /\ UNCHANGED <<threadVars, running, cleared>>
  BY DEF CreateObject
<1> QED
  BY <1>2, <1>3, NewObjectOwn

LEMMA CreateContextOwn ==
  ASSUME OwnInv, TableInv', CarefulClient, NEW w \in Wrappers, NEW h \in Handles, CreateContext(w, h)
  PROVE  OwnInv'
<1>1. NativeKind("context") = "context" /\ "context" \in AllKinds \ {"event", "platform", "device"}
  BY DEF NativeKind, AllKinds
<1> QED
  BY <1>1, NewObjectOwn DEF CreateContext

\* new WebCLEvent() stands for no native object yet.
LEMMA NewEventOwn ==
  ASSUME OwnInv, TableInv', CarefulClient, NEW w \in Wrappers, NewEvent(w)
  PROVE  OwnInv'
<1> USE DEF OwnInv, TableInv, NewEvent
<1>1. /\ ~cleared /\ dtor = NULL /\ class[w] = NULL /\ field[w] = NULL /\ NULL \notin Handles
      /\ class' = [class EXCEPT ![w] = "event"]
      /\ UNCHANGED <<field, tableVars, threadVars, nativeVars, cleared>>
  BY ConstantsAssumption DEF ScriptMayCall, ScriptRuns, FieldsExact
<1>2. \A v \in Wrappers : Owner(v)' => Owner(v) /\ class'[v] = class[v] /\ field'[v] = field[v]
  BY <1>1 DEF Owner, Replacing, TypeOK
<1>3. /\ OwnersExact' /\ OwnersDistinct' /\ EventsUnretained' /\ RuntimeRefsIntact' /\ ParentsOwed'
  BY <1>1, <1>2, NativesKept
<1>4. FieldsExact' /\ UserEventsSingle' /\ DevicesDistinct'
  BY <1>1, ConstantsAssumption DEF FieldsExact, UserEventsSingle, DevicesDistinct, TypeOK, AllKinds
<1>5. FrameOwns' /\ ClearedEmpty'
  BY <1>1 DEF FrameOwns, ClearedEmpty, Registered
<1> QED
  BY <1>3, <1>4, <1>5

\* release() of an object the runtime does not use.
LEMMA ReleaseOwn ==
  ASSUME OwnInv, TableInv', CarefulClient, NEW w \in Wrappers, Release(w)
  PROVE  OwnInv'
<1> USE DEF OwnInv, TableInv, Release
<1>1. /\ ~cleared /\ dtor = NULL /\ mode = "script" /\ left = {}
      /\ UNCHANGED <<class, field, tableVars, atExit, mode, left, nativeVars, cleared>>
  BY DEF ScriptMayCall, ScriptRuns, ClearedEmpty
<1>2. /\ dtor'.w = w /\ dtor'.then = "return"
      /\ dtor'.stage = (IF field[w] = NULL THEN "done" ELSE "query")
  BY DEF CallDestructor, Frame
<1>3. field[w] \in Handles \cup {NULL} /\ (field[w] # NULL => RuntimeRefs(field[w]) = 0)
  BY DEF FieldsExact
<1>4. \A v \in Wrappers : Owner(v)' <=> Owner(v)
  BY <1>1, <1>2 DEF Owner, Replacing
<1>5. /\ OwnersExact' /\ OwnersDistinct' /\ EventsUnretained' /\ RuntimeRefsIntact' /\ ParentsOwed'
      /\ \A h \in Handles : RuntimeRefs(h)' = RuntimeRefs(h)
  BY <1>1, <1>4, NativesKept
<1>6. FieldsExact' /\ UserEventsSingle' /\ DevicesDistinct' /\ ClearedEmpty'
  BY <1>1 DEF FieldsExact, UserEventsSingle, DevicesDistinct, ClearedEmpty, Registered
<1>7. FrameOwns'
  <2>1. Releasing(w)' => field[w] \in Handles /\ Owner(w) /\ RuntimeRefs(field[w]) = 0
    BY <1>1, <1>2, <1>3 DEF Releasing, Owner, Replacing
  <2>2. Releasing(w)' => Owner(w)' /\ RuntimeRefs(field[w])' = 0
    <3> SUFFICES ASSUME Releasing(w)' PROVE Owner(w)' /\ RuntimeRefs(field[w])' = 0
      OBVIOUS
    <3>1. PICK f \in Handles : f = field[w] /\ f = field'[w] /\ RuntimeRefs(f) = 0
      BY <1>1, <2>1
    <3> QED
      BY <1>4, <1>5, <2>1, <3>1
  <2>3. dtor'.w \notin left' /\ dtor'.then = "return" /\ dtor'.stage # "release"
    BY <1>1, <1>2
  <2> QED
    BY <1>1, <1>2, <2>2, <2>3 DEF FrameOwns
<1> QED
  BY <1>5, <1>6, <1>7

\* releaseAll() and the exit hook start on the wrappers that are in the table:
\* from here on only those and the user events own anything.
LEMMA StartClearOwn ==
  ASSUME OwnInv, TableInv', NEW exiting, StartClear(exiting)
  PROVE  OwnInv'
<1> USE DEF OwnInv, TableInv, StartClear
<1>1. /\ dtor = NULL /\ mode = "script" /\ cleared' /\ mode' = "clearing" /\ left' = Registered
      /\ UNCHANGED <<class, field, tableVars, dtor, nativeVars>>
  BY DEF ScriptRuns
<1>2. \A v \in Wrappers : Owner(v)' => Owner(v)
  BY <1>1 DEF Owner, Replacing, Releasing, ClearedEmpty
<1>3. OwnersExact' /\ OwnersDistinct' /\ EventsUnretained' /\ RuntimeRefsIntact'
  BY <1>1, <1>2, NativesKept
<1>4. FieldsExact' /\ UserEventsSingle' /\ DevicesDistinct' /\ ClearedEmpty' /\ FrameOwns' /\ ParentsOwed'
  BY <1>1 DEF FieldsExact, UserEventsSingle, DevicesDistinct, ClearedEmpty, FrameOwns, ParentsOwed
<1> QED
  BY <1>3, <1>4

\* enqueueX: the command's event has one reference of the runtime's, and when an
\* event object was passed another one that setEvent is about to give to it.
LEMMA EnqueueOwn ==
  ASSUME OwnInv, TableInv', CarefulClient, NEW q \in Wrappers, NEW ev \in Wrappers \cup {NULL},
         NEW h \in Handles, NEW args \in {{}} \cup {{a} : a \in Wrappers}, Enqueue(q, args, ev, h)
  PROVE  OwnInv'
<1> USE DEF OwnInv, TableInv
<1>1. /\ ~cleared /\ dtor = NULL /\ mode = "script" /\ left = {}
      /\ UNCHANGED <<class, field, tableVars, atExit, mode, left, cleared>>
  BY DEF Enqueue, ScriptMayCall, ScriptRuns, ClearedEmpty
<1> DEFINE fs == {field[x] : x \in {q} \cup args}
           deps == Closure(fs)
           n == IF ev = NULL THEN 1 ELSE 2
<1>2. \A x \in {q} \cup args : x \in Wrappers /\ Valid(x) /\ NativeKind(class[x]) # "event"
  BY DEF Enqueue, NativeKind
<1>3. fs \subseteq Handles /\ \A g \in fs : refs[g] > 0 /\ hclass[g] # "event"
  BY <1>2 DEF Valid
<1>4. deps \subseteq Handles /\ \A g \in deps : refs[g] > 0 /\ hclass[g] # "event"
  BY <1>3, ClosureAlive
<1>5. AllocateNative(h, "event", n, deps) /\ running' = running \cup {h} /\ n \in Nat
  BY DEF Enqueue
<1>6. ev # NULL => class[ev] = "event" /\ CallDestructor(ev, "assign", h)
  BY DEF Enqueue
<1>7. ev = NULL => dtor' = NULL
  BY <1>1 DEF Enqueue
<1> HIDE DEF deps
<1>8. /\ refs'[h] = n /\ hclass'[h] = "event"
      /\ RuntimeRefs(h)' = 1
      /\ \A g \in Handles \ {h} :
              /\ hclass'[g] = hclass[g]
              /\ refs'[g] >= refs[g]
              /\ refs'[g] > 0 => refs[g] > 0
              /\ g \notin deps => refs'[g] = refs[g]
              /\ refs'[g] - RuntimeRefs(g)' = refs[g] - RuntimeRefs(g)
  BY <1>4, <1>5, AllocateCounts
<1>9. refs[h] = 0 /\ h \notin deps
  BY <1>5, <1>4 DEF AllocateNative, Fresh
<1>10. \A g \in Handles \ {h} : Owed(g)' <=> Owed(g)
  BY <1>8, RuntimeRefsNat DEF Owed, TypeOK
<1>11. \A v \in Wrappers : Owner(v)' => Owner(v)
  BY <1>1 DEF Owner, Replacing
<1>12. \A v \in Wrappers : Owner(v) => field[v] # h
  BY <1>9 DEF OwnersExact, Valid
<1>13. ~Owed(h)
  BY <1>9, RuntimeRefsNat DEF Owed
<1>14. OwnersExact' /\ OwnersDistinct'
  <2>1. \A g \in Handles : Owed(g) => hclass'[g] = hclass[g] /\ refs'[g] >= RuntimeRefs(g)' + 1
    BY <1>8, <1>10, <1>13 DEF Owed
  <2> QED
    BY <1>1, <1>11, <2>1, OwnersKept
<1>15. EventsUnretained'
  <2>1. ASSUME NEW g \in Handles, NEW f \in Handles, f \in retains'[g]
        PROVE  hclass'[f] # "event"
    <3>1. CASE g = h
      BY <1>4, <1>5, <1>8, <1>9, <2>1, <3>1 DEF AllocateNative, TypeOK
    <3>2. CASE g # h
      <4>1. f \in retains[g]
        BY <1>5, <2>1, <3>2 DEF AllocateNative, TypeOK
      <4>2. f # h
        BY <1>9, <4>1, ReferredAlive DEF TypeOK
      <4> QED
        BY <1>8, <4>1, <4>2 DEF EventsUnretained
    <3> QED
      BY <3>1, <3>2
  <2> QED
    BY <2>1 DEF EventsUnretained
<1>16. RuntimeRefsIntact'
  BY <1>8, RuntimeRefsNat DEF RuntimeRefsIntact, TypeOK
<1>17. ParentsOwed'
  BY <1>1, <1>8, <1>10 DEF ParentsOwed, TypeOK
<1>18. FieldsExact' /\ DevicesDistinct' /\ ClearedEmpty'
  BY <1>1 DEF FieldsExact, DevicesDistinct, ClearedEmpty, Registered
<1>19. UserEventsSingle'
  <2>1. ASSUME NEW v \in Wrappers, class[v] = "userEvent", field[v] \in Handles
        PROVE  refs'[field[v]] = 1
    <3>1. Owner(v) /\ Valid(v) /\ refs[field[v]] = 1
      BY <2>1, UserEventUnused
    <3>2. hclass[field[v]] = "event" /\ field[v] # h
      BY <1>12, <2>1, <3>1 DEF Valid, NativeKind
    <3> QED
      BY <1>4, <1>8, <2>1, <3>1, <3>2
  <2> QED
    BY <1>1, <2>1 DEF UserEventsSingle
<1>20. FrameOwns'
  <2>1. CASE ev = NULL
    BY <1>7, <2>1 DEF FrameOwns
  <2>2. CASE ev # NULL
    <3>1. /\ dtor'.w = ev /\ dtor'.then = "assign" /\ dtor'.ev = h /\ ev \in Wrappers
          /\ dtor'.stage = (IF field[ev] = NULL THEN "done" ELSE "query")
      BY <1>6, <2>2 DEF CallDestructor, Frame
    <3>2. Owed(h)'
      BY <1>8, <2>2 DEF Owed
    <3>3. Releasing(ev)' => Owner(ev)'
      <4>1. field[ev] \in Handles \cup {NULL}
        BY <1>6, <2>2, <3>1 DEF FieldsExact, Releasable, StaticKinds, AllKinds
      <4> QED
        BY <1>1, <3>1, <4>1 DEF Releasing, Owner, Replacing
    <3>4. \A v \in Wrappers : Owner(v)' => field'[v] # h
      BY <1>1, <1>11, <1>12
    <3> QED
      BY <1>1, <1>8, <3>1, <3>2, <3>3, <3>4 DEF FrameOwns
  <2> QED
    BY <2>1, <2>2
<1> QED
  BY <1>14, <1>15, <1>16, <1>17, <1>18, <1>19, <1>20

\* The query reads the count of an object its wrapper owns: the handle is valid.
LEMMA DestructorQueryOwn ==
  ASSUME OwnInv, TableInv', DestructorQuery
  PROVE  OwnInv'
<1> USE DEF OwnInv, TableInv, DestructorQuery
<1> DEFINE w == dtor.w
<1>1. dtor # NULL /\ dtor.stage = "query" /\ dtor \in Frames /\ w \in Wrappers
  BY DEF InDestructor, TypeOK, Frames
<1>2. Releasing(w) /\ Owner(w) /\ Valid(w)
  BY <1>1 DEF Releasing, FrameOwns, OwnersExact
<1>3. dtor' = [dtor EXCEPT !.stage = "release", !.count = refs[field[w]]]
  BY <1>2
<1>4. /\ dtor'.w = w /\ dtor'.then = dtor.then /\ dtor'.ev = dtor.ev
      /\ dtor'.stage = "release" /\ dtor'.count = refs[field[w]]
  BY <1>1, <1>3 DEF Frames
<1>5. UNCHANGED <<class, field, tableVars, atExit, mode, left, nativeVars, cleared>>
  OBVIOUS
<1>6. \A v \in Wrappers : Owner(v)' => Owner(v)
  BY <1>1, <1>2, <1>4, <1>5 DEF Owner, Replacing, Releasing
<1>7. /\ OwnersExact' /\ OwnersDistinct' /\ EventsUnretained' /\ RuntimeRefsIntact' /\ ParentsOwed'
      /\ \A h \in Handles : RuntimeRefs(h)' = RuntimeRefs(h) /\ (Owed(h)' <=> Owed(h))
  BY <1>5, <1>6, NativesKept
<1>8. FieldsExact' /\ UserEventsSingle' /\ DevicesDistinct' /\ ClearedEmpty'
  BY <1>5 DEF FieldsExact, UserEventsSingle, DevicesDistinct, ClearedEmpty, Registered
<1>9. FrameOwns'
  <2> SUFFICES ASSUME dtor' # NULL PROVE FrameOwns'
    BY DEF FrameOwns
  <2>1. Owner(w)'
    BY <1>2, <1>4, <1>5 DEF Owner, Replacing, Releasing
  <2>2. dtor.then = "assign" => Owed(dtor.ev)' /\ \A v \in Wrappers : Owner(v)' => field[v] # dtor.ev
    <3> SUFFICES ASSUME dtor.then = "assign"
                 PROVE  Owed(dtor.ev)' /\ \A v \in Wrappers : Owner(v)' => field[v] # dtor.ev
      OBVIOUS
    <3>1. PICK e \in Handles : e = dtor.ev /\ e = dtor'.ev
      BY <1>1, <1>4 DEF Frames
    <3>2. Owed(e) /\ \A v \in Wrappers : Owner(v) => field[v] # e
      BY <1>1, <3>1 DEF FrameOwns
    <3> QED
      BY <1>6, <1>7, <3>1, <3>2
  <2>3. dtor.then = "return" /\ ~cleared => RuntimeRefs(field[w])' = 0
    <3> SUFFICES ASSUME dtor.then = "return", ~cleared PROVE RuntimeRefs(field[w])' = 0
      OBVIOUS
    <3>1. PICK f \in Handles : f = field[w] /\ f = field'[dtor'.w] /\ RuntimeRefs(f) = 0
      BY <1>1, <1>2, <1>4, <1>5 DEF Valid, FrameOwns
    <3> QED
      BY <1>4, <1>7, <3>1
  <2> QED
    BY <1>1, <1>2, <1>4, <1>5, <2>1, <2>2, <2>3 DEF FrameOwns
<1> QED
  BY <1>7, <1>8, <1>9

LEMMA DestructorReturnOwn ==
  ASSUME OwnInv, TableInv', DestructorReturn
  PROVE  OwnInv'
<1> USE DEF OwnInv, TableInv, DestructorReturn
<1>1. /\ dtor # NULL /\ dtor.stage = "done" /\ dtor.then = "return" /\ dtor' = NULL
      /\ UNCHANGED <<class, field, tableVars, atExit, mode, left, nativeVars, cleared>>
  BY DEF InDestructor
<1>2. \A v \in Wrappers : Owner(v)' => Owner(v)
  BY <1>1 DEF Owner, Replacing, Releasing
<1>3. OwnersExact' /\ OwnersDistinct' /\ EventsUnretained' /\ RuntimeRefsIntact' /\ ParentsOwed'
  BY <1>1, <1>2, NativesKept
<1>4. FieldsExact' /\ UserEventsSingle' /\ DevicesDistinct' /\ ClearedEmpty' /\ FrameOwns'
  BY <1>1 DEF FieldsExact, UserEventsSingle, DevicesDistinct, ClearedEmpty, Registered, FrameOwns
<1> QED
  BY <1>3, <1>4

\* setEvent assigns the new event, of which it has a reference to give.
LEMMA SetEventAssignOwn ==
  ASSUME OwnInv, TableInv', SetEventAssign
  PROVE  OwnInv'
<1> USE DEF OwnInv, TableInv, SetEventAssign
<1> DEFINE w == dtor.w
<1>1. /\ dtor # NULL /\ dtor.stage = "done" /\ dtor.then = "assign" /\ dtor' = NULL
      /\ UNCHANGED <<class, tableVars, atExit, mode, left, nativeVars, cleared>>
      /\ w \in Wrappers /\ class[w] = "event"
  BY DEF InDestructor, TypeOK, Frames, FrameExact
<1>2. PICK e \in Handles : e = dtor.ev
  BY <1>1 DEF TypeOK, Frames
<1>3. ~cleared /\ hclass[e] = "event" /\ Owed(e) /\ \A v \in Wrappers : Owner(v) => field[v] # e
  BY <1>1, <1>2 DEF FrameOwns
<1>4. field'[w] = e /\ \A v \in Wrappers : v # w => field'[v] = field[v]
  BY <1>2 DEF TypeOK
<1>5. \A v \in Wrappers : v # w => (Owner(v)' <=> Owner(v))
  BY <1>1, <1>3, <1>4 DEF Owner, Replacing, Releasing
<1>6. \A h \in Handles : RuntimeRefs(h)' = RuntimeRefs(h) /\ (Owed(h)' <=> Owed(h))
  BY <1>1 DEF RuntimeRefs, Retainers, Owed
<1>7. refs[e] > 0
  BY <1>3, RuntimeRefsNat DEF Owed, TypeOK
<1>8. OwnersExact'
  <2>1. ASSUME NEW v \in Wrappers, Owner(v)'
        PROVE  Valid(v)' /\ Owed(field[v])'
    <3>1. CASE v = w
      BY <1>1, <1>3, <1>4, <1>6, <1>7, <3>1 DEF Valid, NativeKind
    <3>2. CASE v # w
      <4>1. Valid(v) /\ Owed(field[v]) /\ field[v] \in Handles
        BY <1>5, <2>1, <3>2 DEF OwnersExact, Owner
      <4> QED
        BY <1>1, <1>4, <1>6, <3>2, <4>1 DEF Valid
    <3> QED
      BY <3>1, <3>2
  <2> QED
    BY <2>1 DEF OwnersExact
<1>9. OwnersDistinct'
  BY <1>3, <1>4, <1>5 DEF OwnersDistinct
<1>10. EventsUnretained' /\ RuntimeRefsIntact' /\ ParentsOwed'
  BY <1>1, <1>6 DEF EventsUnretained, RuntimeRefsIntact, ParentsOwed
<1>11. FieldsExact' /\ UserEventsSingle' /\ DevicesDistinct'
  BY <1>1, <1>4, ConstantsAssumption DEF FieldsExact, UserEventsSingle, DevicesDistinct, AllKinds
<1>12. ClearedEmpty' /\ FrameOwns'
  BY <1>1 DEF ClearedEmpty, Registered, FrameOwns
<1> QED
  BY <1>8, <1>9, <1>10, <1>11, <1>12

\* A deleted wrapper owns nothing any more; what it owned stays owed.
LEMMA DeleteWrapperOwn ==
  ASSUME OwnInv, TableInv', DeleteWrapper
  PROVE  OwnInv'
<1> USE DEF OwnInv, TableInv, DeleteWrapper
<1> DEFINE w == dtor.w
<1>1. /\ dtor # NULL /\ dtor.stage = "done" /\ dtor.then = "delete" /\ dtor' = NULL
      /\ UNCHANGED <<atExit, mode, left, nativeVars, cleared>> /\ w \in Wrappers
  BY DEF InDestructor, TypeOK, Frames
<1>2. /\ class'[w] = NULL /\ field'[w] = NULL
      /\ \A v \in Wrappers : v # w => class'[v] = class[v] /\ field'[v] = field[v]
  BY <1>1 DEF TypeOK
<1>3. \A v \in Wrappers : Owner(v)' => Owner(v) /\ class'[v] = class[v] /\ field'[v] = field[v]
  BY <1>1, <1>2, ConstantsAssumption DEF Owner, Replacing, Releasing
<1>4. OwnersExact' /\ OwnersDistinct' /\ EventsUnretained' /\ RuntimeRefsIntact' /\ ParentsOwed'
  BY <1>1, <1>3, NativesKept
<1>5. FieldsExact' /\ UserEventsSingle' /\ DevicesDistinct'
  BY <1>1, <1>2, ConstantsAssumption
  DEF FieldsExact, UserEventsSingle, DevicesDistinct, AllKinds, Releasable
<1>6. Registered' \subseteq Registered
  BY <1>1 DEF Unregister, Registered, TypeOK
<1>7. ClearedEmpty' /\ FrameOwns'
  BY <1>1, <1>6 DEF ClearedEmpty, FrameOwns
<1> QED
  BY <1>4, <1>5, <1>7

\* Only the wrapper of a user event releases when it is collected, and it owns
\* what it releases.
LEMMA CollectOwn ==
  ASSUME OwnInv, TableInv', NEW w \in Wrappers, Collect(w)
  PROVE  OwnInv'
<1> USE DEF OwnInv, TableInv, Collect
<1>1. /\ dtor = NULL /\ mode \in {"script", "collect"} /\ left = {}
      /\ UNCHANGED <<class, field, tableVars, atExit, mode, left, nativeVars, cleared>>
  BY DEF ClearedEmpty
<1>2. /\ dtor'.w = w /\ dtor'.then = "delete"
      /\ dtor'.stage = (IF class[w] = "userEvent" /\ field[w] # NULL THEN "query" ELSE "done")
  BY DEF Frame, DestroysOnDelete
<1>3. class[w] = "userEvent" /\ field[w] # NULL => field[w] \in Handles
  BY DEF FieldsExact, Releasable, StaticKinds, AllKinds
<1>4. \A v \in Wrappers : Owner(v)' <=> Owner(v)
  BY <1>1, <1>2, <1>3 DEF Owner, Replacing, Releasing
<1>5. OwnersExact' /\ OwnersDistinct' /\ EventsUnretained' /\ RuntimeRefsIntact' /\ ParentsOwed'
  BY <1>1, <1>4, NativesKept
<1>6. FieldsExact' /\ UserEventsSingle' /\ DevicesDistinct' /\ ClearedEmpty'
  BY <1>1 DEF FieldsExact, UserEventsSingle, DevicesDistinct, ClearedEmpty, Registered
<1>7. FrameOwns'
  <2>1. Releasing(w)' => class'[w] = "userEvent" /\ Owner(w)'
    BY <1>1, <1>2, <1>3 DEF Releasing, Owner, Replacing
  <2>2. dtor'.w \notin left' /\ dtor'.then = "delete" /\ dtor'.stage # "release"
    BY <1>1, <1>2
  <2> QED
    BY <1>2, <2>1, <2>2 DEF FrameOwns
<1> QED
  BY <1>5, <1>6, <1>7

\* One visit of Manager::clear(): what the entry's wrapper owned, its
\* Destructor() call owns now.
LEMMA ClearVisitOwn ==
  ASSUME OwnInv, TableInv', NEW w \in Wrappers, ClearVisit(w)
  PROVE  OwnInv'
<1> USE DEF OwnInv, TableInv, ClearVisit
<1>1. /\ cleared /\ dtor = NULL /\ mode = "clearing" /\ w \in left /\ left' = left \ {w}
      /\ UNCHANGED <<class, field, tableVars, atExit, mode, nativeVars, cleared>>
  BY DEF ModeExact
<1>2. CASE class[w] \in Releasable
  <2>1. /\ dtor'.w = w /\ dtor'.then = "return"
        /\ dtor'.stage = (IF field[w] = NULL THEN "done" ELSE "query")
    BY <1>2 DEF CallDestructor, Frame
  <2>2. field[w] \in Handles \cup {NULL}
    BY <1>2 DEF FieldsExact
  <2>3. \A v \in Wrappers : Owner(v)' => Owner(v)
    BY <1>1, <2>1, <2>2 DEF Owner, Replacing, Releasing
  <2>4. OwnersExact' /\ OwnersDistinct' /\ EventsUnretained' /\ RuntimeRefsIntact' /\ ParentsOwed'
    BY <1>1, <2>3, NativesKept
  <2>5. FrameOwns'
    <3>1. Releasing(w)' => Owner(w)'
      BY <1>1, <2>1, <2>2 DEF Releasing, Owner, Replacing
    <3>2. dtor'.w \notin left' /\ dtor'.then = "return" /\ dtor'.stage # "release"
      BY <1>1, <2>1
    <3> QED
      BY <1>1, <2>1, <3>1, <3>2 DEF FrameOwns
  <2>6. FieldsExact' /\ UserEventsSingle' /\ DevicesDistinct' /\ ClearedEmpty'
    BY <1>1 DEF FieldsExact, UserEventsSingle, DevicesDistinct, ClearedEmpty
  <2> QED
    BY <2>4, <2>5, <2>6
<1>3. CASE class[w] \notin Releasable
  <2>1. dtor' = NULL
    BY <1>1, <1>3
  <2>2. \A v \in Wrappers : Owner(v)' => Owner(v)
    BY <1>1, <2>1 DEF Owner, Replacing, Releasing
  <2>3. OwnersExact' /\ OwnersDistinct' /\ EventsUnretained' /\ RuntimeRefsIntact' /\ ParentsOwed'
    BY <1>1, <2>2, NativesKept
  <2>4. FieldsExact' /\ UserEventsSingle' /\ DevicesDistinct' /\ ClearedEmpty' /\ FrameOwns'
    BY <1>1, <2>1 DEF FieldsExact, UserEventsSingle, DevicesDistinct, ClearedEmpty, FrameOwns
  <2> QED
    BY <2>3, <2>4
<1> QED
  BY <1>2, <1>3

\* The ends of the clear and of the collection.
LEMMA ClearEndOwn ==
  ASSUME OwnInv, TableInv', ClearDone \/ CollectDone
  PROVE  OwnInv'
<1> USE DEF OwnInv, TableInv, ClearDone, CollectDone
<1>1. /\ dtor = NULL /\ dtor' = NULL /\ left = {} /\ left' = {}
      /\ UNCHANGED <<class, field, nativeVars, cleared>>
  BY DEF ClearedEmpty
<1>2. \A v \in Wrappers : Owner(v)' => Owner(v)
  BY <1>1 DEF Owner, Replacing, Releasing
<1>3. OwnersExact' /\ OwnersDistinct' /\ EventsUnretained' /\ RuntimeRefsIntact' /\ ParentsOwed'
  BY <1>1, <1>2, NativesKept
<1>4. FieldsExact' /\ UserEventsSingle' /\ DevicesDistinct' /\ FrameOwns'
  BY <1>1 DEF FieldsExact, UserEventsSingle, DevicesDistinct, FrameOwns
<1>5. ClearedEmpty'
  BY <1>1 DEF ClearedEmpty, Registered
<1> QED
  BY <1>3, <1>4, <1>5

\* The release gives back the reference that the wrapper owns and no other.  The
\* wrapper forgets the handle, unless the script retained the object or the
\* exit hook is done with it.
LEMMA DestructorReleaseOwn ==
  ASSUME OwnInv, TableInv', DestructorRelease
  PROVE  OwnInv'
<1> USE DEF OwnInv, TableInv
<1>1. PICK w \in Wrappers :
        /\ w = dtor.w /\ w \notin left
        /\ dtor # NULL /\ dtor \in Frames /\ dtor.stage = "release"
        /\ dtor.then \in {"return", "assign", "delete"}
  BY DEF DestructorRelease, InDestructor, TypeOK, Frames, FrameOwns
<1>2. Releasing(w) /\ Owner(w) /\ Valid(w) /\ Owed(field[w])
  BY <1>1 DEF Releasing, FrameOwns, OwnersExact
<1>3. PICK f \in Handles : f = field[w]
  BY <1>2 DEF Valid
<1>4. refs' = [refs EXCEPT ![f] = @ - 1] /\ dtor' = [dtor EXCEPT !.stage = "done"]
      /\ UNCHANGED <<class, atExit, hclass, retains, running, cleared>>
  BY <1>1, <1>2, <1>3 DEF DestructorRelease
<1>5. /\ refs[f] > 0 /\ refs[f] >= RuntimeRefs(f) + 1 /\ refs'[f] = refs[f] - 1
      /\ \A g \in Handles : g # f => refs'[g] = refs[g]
  BY <1>2, <1>3, <1>4 DEF TypeOK, Owed, Valid
<1>6. /\ \A g \in Handles : RuntimeRefs(g)' = RuntimeRefs(g)
      /\ \A g \in Handles : g # f => (Owed(g)' <=> Owed(g))
  BY <1>4, <1>5 DEF RuntimeRefs, Retainers, Owed
<1>7. /\ dtor'.w = w /\ dtor'.then = dtor.then /\ dtor'.ev = dtor.ev /\ dtor'.stage = "done"
      /\ dtor' # NULL
  <2>1. dtor' \in Frames
    BY <1>1, <1>4 DEF Frames
  <2> QED
    BY <1>1, <1>4, <2>1, FramesAssumption DEF Frames
<1>8. /\ left' \subseteq left /\ mode' \in {mode, "crashed"} /\ (mode # "clearing" => left' = left)
  BY DEF DestructorRelease, IteratorInvalidated
<1>9. /\ \A v \in Wrappers : v # w => field'[v] = field[v]
      /\ dtor.count = 1 => field'[w] = NULL
      /\ dtor.count # 1 => field'[w] = f
      /\ Registered' \subseteq Registered
  <2>1. CASE dtor.count = 1
    <3>1. Retire(w)
      BY <1>1, <2>1 DEF DestructorRelease
    <3>2. field' = [field EXCEPT ![w] = NULL] /\ Unregister(w)
      BY <3>1 DEF Retire
    <3>3. Registered' \subseteq Registered
      BY <1>1, <3>2 DEF Unregister, Registered, TypeOK
    <3> QED
      BY <1>1, <2>1, <3>2, <3>3 DEF TypeOK
  <2>2. CASE dtor.count # 1
    BY <1>1, <1>3, <2>2 DEF DestructorRelease, Registered
  <2> QED
    BY <2>1, <2>2
<1>n. NULL \notin Handles
  BY ConstantsAssumption
<1>10. \A v \in Wrappers : v # w /\ Owner(v)' => Owner(v)
  BY <1>1, <1>4, <1>7, <1>8, <1>9 DEF Owner, Releasing, Replacing
<1>11. \A v \in Wrappers : v # w /\ Owner(v) => field[v] # f
  BY <1>1, <1>2, <1>3 DEF OwnersDistinct
<1>12. class[w] = "userEvent" => dtor.count = 1
  <2>1. class[w] = "userEvent" => refs[f] = 1
    BY <1>1, <1>3 DEF UserEventsSingle
  <2>2. class[w] = "userEvent" => dtor.then # "assign"
    BY <1>1 DEF FrameExact
  <2> QED
    BY <1>1, <1>3, <2>1, <2>2 DEF FrameOwns
<1>13. dtor.then = "delete" => class[w] = "userEvent"
  BY <1>1, <1>2 DEF FrameOwns
<1>14. ~cleared /\ dtor.then = "return" => RuntimeRefs(f) = 0 /\ dtor.count = refs[f]
  <2> SUFFICES ASSUME ~cleared, dtor.then = "return"
               PROVE  RuntimeRefs(f) = 0 /\ dtor.count = refs[f]
    OBVIOUS
  <2>1. RuntimeRefs(field[w]) = 0 /\ dtor.count = refs[field[w]]
    BY <1>1, <1>2 DEF FrameOwns
  <2> QED
    BY <1>3, <2>1
<1>15. Owner(w)' => ~cleared /\ dtor.then = "return" /\ dtor.count # 1 /\ field'[w] = f
  BY <1>1, <1>4, <1>7, <1>8, <1>9, <1>n, <1>12, <1>13 DEF Owner, Releasing, Replacing
<1>16. Owner(w)' => Owed(f)' /\ refs'[f] > 0
  BY <1>5, <1>6, <1>14, <1>15 DEF Owed, TypeOK
<1>17. OwnersExact' /\ OwnersDistinct'
  <2>1. ASSUME NEW v \in Wrappers, Owner(v)'
        PROVE  Valid(v)' /\ Owed(field[v])'
    <3>1. CASE v = w
      BY <1>2, <1>3, <1>4, <1>15, <1>16, <2>1, <3>1 DEF Valid
    <3>2. CASE v # w
      <4>1. Valid(v) /\ Owed(field[v]) /\ field[v] \in Handles /\ field[v] # f
        BY <1>10, <1>11, <2>1, <3>2 DEF OwnersExact, Owner
      <4>2. PICK g \in Handles : g = field[v] /\ g # f
        BY <4>1
      <4>3. Owed(g)' /\ refs'[g] > 0 /\ hclass'[g] = NativeKind(class[v])
        BY <1>4, <1>5, <1>6, <4>1, <4>2 DEF Valid
      <4>4. field'[v] = g /\ class'[v] = class[v]
        BY <1>4, <1>9, <3>2, <4>2
      <4> QED
        BY <4>3, <4>4 DEF Valid
    <3> QED
      BY <3>1, <3>2
  <2>2. OwnersDistinct'
    BY <1>1, <1>9, <1>10, <1>11, <1>15 DEF OwnersDistinct
  <2> QED
    BY <2>1, <2>2 DEF OwnersExact
<1>18. EventsUnretained' /\ RuntimeRefsIntact'
  BY <1>4, <1>5, <1>6, RuntimeRefsNat DEF EventsUnretained, RuntimeRefsIntact, TypeOK
<1>19. UserEventsSingle'
  <2>1. ASSUME NEW v \in Wrappers, class[v] = "userEvent", field'[v] \in Handles
        PROVE  refs'[field'[v]] = 1
    <3>1. v # w
      BY <1>9, <1>12, <1>n, <2>1
    <3>2. Owner(v) /\ refs[field[v]] = 1 /\ field'[v] = field[v]
      BY <1>9, <2>1, <3>1, UserEventUnused
    <3> QED
      BY <1>5, <1>11, <2>1, <3>1, <3>2
  <2> QED
    BY <1>4, <2>1 DEF UserEventsSingle
<1>20. ParentsOwed'
  <2> SUFFICES ASSUME ~cleared, NEW g \in Handles, hclass[g] # "event", refs'[g] > 0
               PROVE  Owed(g)'
    BY <1>4 DEF ParentsOwed
  <2>1. CASE g # f
    BY <1>5, <1>6, <2>1 DEF ParentsOwed
  <2>2. CASE g = f
    <3>1. class[w] \notin {"event", "userEvent"}
      BY <1>2, <1>3, <2>2 DEF Valid, NativeKind
    <3>2. dtor.then = "return"
      BY <1>1, <1>13, <3>1 DEF FrameExact
    <3> QED
      BY <1>5, <1>6, <1>14, <2>2, <3>2 DEF Owed, TypeOK
  <2> QED
    BY <2>1, <2>2
<1>21. FrameOwns'
  <2>1. dtor.then = "assign" => /\ ~cleared /\ hclass[dtor.ev] = "event" /\ Owed(dtor.ev)'
                                /\ \A v \in Wrappers : Owner(v)' => field'[v] # dtor.ev
    <3> SUFFICES ASSUME dtor.then = "assign"
                 PROVE  /\ ~cleared /\ hclass[dtor.ev] = "event" /\ Owed(dtor.ev)'
                        /\ \A v \in Wrappers : Owner(v)' => field'[v] # dtor.ev
      OBVIOUS
    <3>1. PICK e \in Handles : e = dtor.ev /\ e = dtor'.ev
      BY <1>1, <1>7 DEF Frames
    <3>2. ~cleared /\ hclass[e] = "event" /\ Owed(e) /\ \A v \in Wrappers : Owner(v) => field[v] # e
      BY <1>1, <3>1 DEF FrameOwns
    <3>3. e # f
      BY <1>1, <1>2, <1>3, <3>2
    <3>4. \A v \in Wrappers : Owner(v)' => field'[v] # e
      BY <1>9, <1>10, <1>15, <3>2
    <3> QED
      BY <1>6, <3>1, <3>2, <3>3, <3>4
  <2>2. ~Releasing(w)' /\ dtor'.w \notin left' /\ dtor'.stage # "release"
    BY <1>1, <1>7, <1>8 DEF Releasing
  <2> QED
    BY <1>4, <1>7, <2>1, <2>2 DEF FrameOwns
<1>22. FieldsExact' /\ DevicesDistinct'
  <2>1. class[w] \notin {"platform", "device"} \/ field[w] \notin Handles
    BY ConstantsAssumption, <1>1 DEF FieldsExact
  <2>2. class[w] # "device" /\ class[w] # "platform"
    BY <1>3, <2>1
  <2>3. field'[w] \in {f, NULL}
    BY <1>9
  <2>4. class[w] # NULL
    BY <1>1, <1>3, <1>n DEF FieldsExact
  <2> QED
    BY <1>3, <1>4, <1>9, <2>2, <2>3, <2>4 DEF FieldsExact, DevicesDistinct
<1>23. ClearedEmpty'
  BY <1>4, <1>8, <1>9 DEF ClearedEmpty
<1> QED
  BY <1>17, <1>18, <1>19, <1>20, <1>21, <1>22, <1>23

-----------------------------------------------------------------------------
(* All steps together *)

LEMMA InitOwn == Init => OwnInv
<1> SUFFICES ASSUME Init PROVE OwnInv
  OBVIOUS
<1>1. TableInv
  BY InitTable
<1>2. ASSUME NEW h \in Handles
      PROVE  RuntimeRefs(h) = 0 /\ refs[h] = 0
  BY <1>2, RuntimeRefsPositive DEF Init
<1>3. \A w \in Wrappers : ~Owner(w)
  BY ConstantsAssumption DEF Init, Owner
<1>4. OwnersExact /\ OwnersDistinct /\ RuntimeRefsIntact /\ ParentsOwed
  BY <1>2, <1>3 DEF OwnersExact, OwnersDistinct, RuntimeRefsIntact, ParentsOwed
<1>5. FieldsExact /\ DevicesDistinct /\ UserEventsSingle
  BY ConstantsAssumption DEF Init, FieldsExact, DevicesDistinct, UserEventsSingle, AllKinds
<1>6. EventsUnretained /\ FrameOwns /\ ClearedEmpty
  BY DEF Init, EventsUnretained, FrameOwns, ClearedEmpty
<1> QED
  BY <1>1, <1>4, <1>5, <1>6 DEF OwnInv

LEMMA ScriptOwn ==
  ASSUME CarefulClient, OwnInv, Script, TableInv'
  PROVE  OwnInv'
<1>1. ASSUME NEW w \in Wrappers, NEW id \in PlatformIds, GetPlatforms(w, id)
      PROVE  OwnInv'
  BY <1>1, NewStaticOwn DEF GetPlatforms
<1>2. ASSUME NEW w \in Wrappers, NEW id \in DeviceIds, GetDevices(w, id)
      PROVE  OwnInv'
  BY <1>2, NewStaticOwn DEF GetDevices
<1>3. ASSUME NEW w \in Wrappers, NEW h \in Handles, CreateContext(w, h)
      PROVE  OwnInv'
  BY <1>3, CreateContextOwn
<1>4. ASSUME NEW p \in Wrappers, NEW w \in Wrappers, NEW h \in Handles, Create(p, w, h)
      PROVE  OwnInv'
  BY <1>4, CreateCases, CreateObjectOwn
<1>5. ASSUME NEW p \in Wrappers, NEW w \in Wrappers, NEW h \in Handles, Query(p, w, h)
      PROVE  OwnInv'
  BY <1>5, QueryCases, GetInfoOwn
<1>6. ASSUME NEW w \in Wrappers, NewEvent(w) \/ Retain(w) \/ Release(w)
      PROVE  OwnInv'
  BY <1>6, NewEventOwn, RetainOwn, ReleaseOwn
<1>7. ASSUME NEW q \in Wrappers, NEW ev \in Wrappers \cup {NULL}, NEW h \in Handles,
             NEW args \in {{}} \cup {{a} : a \in Wrappers}, Enqueue(q, args, ev, h)
      PROVE  OwnInv'
  BY <1>7, EnqueueOwn
<1>8. ASSUME ReleaseAll \/ ProcessExit
      PROVE  OwnInv'
  BY <1>8, StartClearOwn DEF ReleaseAll, ProcessExit
<1> QED
  BY <1>1, <1>2, <1>3, <1>4, <1>5, <1>6, <1>7, <1>8 DEF Script

LEMMA NextOwn ==
  ASSUME CarefulClient, OwnInv, [Next]_vars
  PROVE  OwnInv'
<1>1. TableInv'
  BY NextTable DEF OwnInv
<1>2. CASE Script
  BY <1>1, <1>2, ScriptOwn
<1>3. CASE Native
  BY <1>1, <1>3, DestructorQueryOwn, DestructorReleaseOwn, DestructorReturnOwn,
     SetEventAssignOwn, DeleteWrapperOwn, ClearVisitOwn, ClearEndOwn DEF Native
<1>4. CASE Runtime
  BY <1>1, <1>4, RuntimeOwn DEF Runtime
<1>5. ASSUME NEW w \in Wrappers, Collect(w)
      PROVE  OwnInv'
  BY <1>1, <1>5, CollectOwn
<1>6. CASE UNCHANGED vars
  <2>1. \A w \in Wrappers : Owner(w)' => Owner(w) /\ class'[w] = class[w] /\ field'[w] = field[w]
    BY <1>6 DEF Owner, Releasing, Replacing
  <2>2. /\ OwnersExact' /\ OwnersDistinct' /\ EventsUnretained' /\ RuntimeRefsIntact' /\ ParentsOwed'
    BY <1>1, <1>6, <2>1, NativesKept DEF TableInv
  <2>3. FieldsExact' /\ UserEventsSingle' /\ DevicesDistinct' /\ ClearedEmpty'
    BY <1>6 DEF OwnInv, FieldsExact, UserEventsSingle, DevicesDistinct, ClearedEmpty, Registered
  <2>4. FrameOwns'
    BY <1>6 DEF OwnInv, FrameOwns, Releasing, Owner, Replacing, Owed, RuntimeRefs, Retainers
  <2> QED
    BY <1>1, <2>2, <2>3, <2>4 DEF OwnInv
<1> QED
  BY <1>2, <1>3, <1>4, <1>5, <1>6 DEF Next, Terminated

-----------------------------------------------------------------------------

\* What each native object is referred to by, in every run of a careful script:
\* the wrappers own what OwnInv says, through every release, collection, clear
\* and step of the runtime's threads.
THEOREM OwnershipKept == ASSUME CarefulClient PROVE Spec => []OwnInv
<1>1. OwnInv /\ [Next]_vars => OwnInv'
  BY NextOwn
<1> QED
  BY <1>1, InitOwn, PTL DEF Spec

\* No Destructor() releases a reference of the runtime's: a native object always
\* has at least those that queues, kernels, programs and commands took on it.
THEOREM RuntimeRefsAreIntact == ASSUME CarefulClient PROVE Spec => []RuntimeRefsIntact
<1>1. OwnInv => RuntimeRefsIntact
  BY DEF OwnInv
<1> QED
  BY <1>1, OwnershipKept, PTL

\* Every entry of the Manager's table names a live native object of its
\* wrapper's class whenever the script runs: findCLObj compares with nothing
\* that is dangling.
THEOREM EntriesAreLive == ASSUME CarefulClient PROVE Spec => []RegisteredIsLive
<1>1. OwnInv => RegisteredIsLive
  <2> SUFFICES ASSUME OwnInv, mode = "script", NEW w \in Registered, field[w] \in Handles
               PROVE  Valid(w)
    BY DEF RegisteredIsLive
  <2>1. ~cleared /\ class[w] # "event" /\ w \in Wrappers
    BY DEF OwnInv, ClearedEmpty, TableInv, EventsUntabled, Registered
  <2>2. ~Replacing(w)
    BY <2>1 DEF Replacing, OwnInv, TableInv, FrameExact
  <2> QED
    BY <2>1, <2>2 DEF Owner, OwnInv, OwnersExact
<1> QED
  BY <1>1, OwnershipKept, PTL

\* getInfo never makes a second wrapper for an object that has one: two entries
\* of the table never have the same handle or device.
THEOREM WrappersAreUnique == ASSUME CarefulClient PROVE Spec => []OneWrapperPerObject
<1>1. OwnInv => OneWrapperPerObject
  <2> SUFFICES ASSUME OwnInv, mode = "script", NEW v \in Registered, NEW w \in Registered,
                      objects[v] = objects[w], objects[v] \notin PlatformIds
               PROVE  v = w
    BY DEF OneWrapperPerObject
  <2>1. ~cleared /\ v \in Wrappers /\ w \in Wrappers /\ objects[v] # NULL /\ objects[w] # NULL
    BY DEF OwnInv, ClearedEmpty, Registered
  <2>2. \A u \in {v, w} : /\ class[u] \notin {NULL, "event"} /\ objects[u] = field[u]
                          /\ class[u] \in AllKinds /\ field[u] \notin PlatformIds \cup {NULL}
    BY <2>1 DEF OwnInv, TableInv, TableExact, EventsUntabled, TypeOK
  <2>3. \A u \in {v, w} : \/ class[u] = "device" /\ field[u] \in DeviceIds
                          \/ field[u] \in Handles /\ Owner(u)
    <3> SUFFICES ASSUME NEW u \in {v, w}, class[u] # "device"
                 PROVE  field[u] \in Handles /\ Owner(u)
      BY <2>1 DEF OwnInv, FieldsExact
    <3>1. field[u] \in Handles
      BY <2>1, <2>2 DEF OwnInv, FieldsExact, Releasable, StaticKinds
    <3>2. ~Replacing(u)
      BY <2>2 DEF Replacing, OwnInv, TableInv, FrameExact
    <3> QED
      BY <2>1, <3>1, <3>2 DEF Owner
  <2>4. Handles \cap DeviceIds = {}
    BY ConstantsAssumption
  <2> QED
    BY <2>1, <2>2, <2>3, <2>4 DEF OwnInv, OwnersDistinct, DevicesDistinct
<1> QED
  BY <1>1, OwnershipKept, PTL

=============================================================================
