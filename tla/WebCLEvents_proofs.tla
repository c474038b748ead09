--------------------------- MODULE WebCLEvents_proofs ---------------------------
(***************************************************************************)
(* Proofs about WebCLEvents: types, FailureIsReal, LoopWorkServed, and     *)
(* that every step is one CallbackContract allows, for any number of       *)
(* events, wrappers and callbacks.                                         *)
(***************************************************************************)
EXTENDS WebCLEvents, TLAPS

\* A wrapper with a handle stands for an event that was created; that of a
\* user event object for a user event.
WrappersExact ==
  /\ \A w \in Objects : event[w] # NULL => status[event[w]] # Free
  /\ \A w \in UserWrappers : event[w] # NULL => event[w] \in user

\* The callback's baton carries a status its event had: the type asked for, or
\* the status the event ended with.
ToldRight(b, e) ==
  /\ status[e] <= baton[b].type
  /\ \/ baton[b].error = status[e] /\ (baton[b].type = 0 \/ status[e] < 0)
     \/ baton[b].error = baton[b].type /\ baton[b].type > 0

BatonExact(b) ==
  /\ baton[b].stage = "unused" => baton[b] = Unused
  /\ baton[b].kind = "none" => baton[b].stage = "unused"
  /\ baton[b].kind \in {"wait", "finish"} => baton[b].stage \in {"queued", "called"}
  /\ baton[b].kind = "event" /\ baton[b].stage = "leaked" => baton[b].on = {}
  /\ baton[b].kind = "event" /\ baton[b].stage \in {"registered", "queueing", "queued", "called"} =>
       \E e \in Events : /\ baton[b].on = {e} /\ status[e] # Free
                         /\ baton[b].stage # "registered" => ToldRight(b, e)

BatonsExact == \A b \in Batons : BatonExact(b)

\* What libuv has is waiting to be served, and is there once; it is counted, so
\* the loop does not end before it is served, unless its list was damaged.
QueuesExact ==
  /\ \A b \in pool : baton[b].stage = "queued"
  /\ \A i \in 1..Len(done) : baton[done[i]].stage = "queued" /\ done[i] \notin pool
  /\ \A i, j \in 1..Len(done) : done[i] = done[j] => i = j
  /\ \A b \in Batons : baton[b].stage = "queued" => b \in active
  /\ (~Alive /\ intact) => active = {}

\* A blocked finish(f) has a baton of its own to come.
BlockExact ==
  mode = "blocked" /\ block.then # NULL => baton[block.then] = Unused

EventInv == /\ TypeOK /\ WrappersExact /\ BatonsExact
            /\ QueuesExact /\ BlockExact /\ FailureIsReal

-----------------------------------------------------------------------------
(* Steps of the native events *)

\* An event gets on: what batons were told stays right, since an event that
\* reached an end keeps it.
Advance(e, s) == s < status[e] /\ status[e] > 0 /\ status' = [status EXCEPT ![e] = s]

LEMMA BatonsAdvance ==
  ASSUME TypeOK, BatonsExact, NEW e \in Events, NEW s \in -1..3, Advance(e, s), baton' = baton
  PROVE  BatonsExact'
<1>. SUFFICES ASSUME NEW b \in Batons PROVE BatonExact(b)'
  BY DEF BatonsExact
<1>1. /\ baton'[b] = baton[b] /\ BatonExact(b)
      /\ status \in [Events -> -1..4] /\ baton[b].type \in {0, 1, 2}
  BY DEF BatonsExact, TypeOK, Batonic
<1>2. ASSUME NEW d \in Events
      PROVE  /\ status[d] # Free => status'[d] # Free
             /\ ToldRight(b, d) => ToldRight(b, d)'
  BY <1>1 DEF Advance, Free, ToldRight
<1>. QED BY <1>1, <1>2 DEF BatonExact

LEMMA FailureStays ==
  ASSUME TypeOK, FailureIsReal, NEW e \in Events, NEW s \in -1..3, Advance(e, s), baton' = baton,
         user \subseteq user',
         \A w \in Objects : wstatus'[w] < 0 =>
           wstatus[w] < 0 \/ (w \in UserWrappers /\ \E d \in user' : status'[d] < 0)
  PROVE  FailureIsReal'
<1>1. \A d \in Events : status[d] < 0 => status'[d] < 0
  BY DEF TypeOK, Advance
<1>2. \A b \in Batons : baton[b].on \subseteq Events
  BY DEF TypeOK, Batonic
<1>3. user \subseteq Events
  BY DEF TypeOK
<1>. QED BY <1>1, <1>2, <1>3 DEF FailureIsReal

LEMMA AdvanceStep ==
  ASSUME EventInv, NEW e \in Events, NEW s \in -1..3, Advance(e, s),
         UNCHANGED <<baton, block, loopVars>>, deps' \in [Events -> SUBSET Events],
         user' \in SUBSET Events, flushed' \in SUBSET Events,
         event' \in [Objects -> Events \cup {NULL}], wstatus' \in [Objects -> -1..2],
         user \subseteq user', WrappersExact',
         \A w \in Objects : wstatus'[w] < 0 =>
           wstatus[w] < 0 \/ (w \in UserWrappers /\ \E d \in user' : status'[d] < 0)
  PROVE  EventInv'
<1>1. TypeOK'
  <2>1. status' \in [Events -> -1..4]
    BY DEF EventInv, TypeOK, Advance
  <2>2. baton' \in [Batons -> Batonic] /\ block' \in [on : SUBSET Events, then : Batons \cup {NULL}]
    BY DEF EventInv, TypeOK
  <2>3. LoopTypeOK(Batons)'
    BY DEF EventInv, TypeOK, LoopTypeOK, loopVars, queueVars
  <2>. QED BY <2>1, <2>2, <2>3 DEF TypeOK
<1>2. BatonsExact' /\ FailureIsReal'
  BY BatonsAdvance, FailureStays DEF EventInv
<1>3. QueuesExact' /\ BlockExact'
  BY DEF EventInv, QueuesExact, BlockExact, Alive, loopVars, queueVars
<1>. QED BY <1>1, <1>2, <1>3 DEF EventInv

LEMMA EnqueueStep ==
  ASSUME EventInv, NEW w \in Wrappers, NEW L \in SUBSET Objects, NEW e \in Events,
         FreshEvent(e), Enqueue(w, L, e)
  PROVE  EventInv' /\ Advance(e, 3)
<1>1. status[e] = 4 /\ Advance(e, 3)
  BY DEF FreshEvent, Free, Enqueue, Queued, Advance
<1>2. deps' \in [Events -> SUBSET Events]
  <2>1. {event[v] : v \in L} \subseteq Events
    BY DEF Enqueue, AcceptsWaitList, EventInv, TypeOK
  <2>2. \A d \in Events : deps[d] \subseteq Events
    BY DEF EventInv, TypeOK
  <2>3. ({event[v] : v \in L} \cup UNION {deps[d] : d \in {event[v] : v \in L}}) \in SUBSET Events
    BY <2>1, <2>2
  <2>. QED BY <2>3 DEF Enqueue, EventInv, TypeOK
<1>3. event' = [event EXCEPT ![w] = e] /\ w \in Objects /\ event \in [Objects -> Events \cup {NULL}]
  BY DEF Enqueue, EventInv, TypeOK, Objects
<1>4. WrappersExact'
  <2>1. \A d \in Events : status[d] # Free => status'[d] # Free
    BY <1>1 DEF Advance, Free, EventInv, TypeOK
  <2>2. status'[e] # Free /\ status \in [Events -> -1..4]
    BY <1>1 DEF Advance, Free, EventInv, TypeOK
  <2>3. w \notin UserWrappers /\ user' = user
    BY EventsAssumption DEF Enqueue
  <2>. QED BY <1>3, <2>1, <2>2, <2>3 DEF WrappersExact, EventInv, Objects
<1>5. /\ UNCHANGED <<baton, block, loopVars>> /\ user' \in SUBSET Events /\ flushed' \in SUBSET Events
      /\ event' \in [Objects -> Events \cup {NULL}] /\ wstatus' \in [Objects -> -1..2]
      /\ user \subseteq user' /\ wstatus' = wstatus
  BY <1>3 DEF Enqueue, EventInv, TypeOK
<1>. QED BY <1>1, <1>2, <1>4, <1>5, AdvanceStep

LEMMA CreateUserEventStep ==
  ASSUME EventInv, NEW w \in UserWrappers, NEW e \in Events, FreshEvent(e), CreateUserEvent(w, e)
  PROVE  EventInv' /\ Advance(e, 2)
<1>1. status[e] = 4 /\ Advance(e, 2)
  BY DEF FreshEvent, Free, CreateUserEvent, Submitted, Advance
<1>2. /\ event' = [event EXCEPT ![w] = e] /\ wstatus' = [wstatus EXCEPT ![w] = 0]
      /\ user' = user \cup {e} /\ w \in Objects
      /\ UNCHANGED <<deps, flushed, baton, block, loopVars>>
  BY DEF CreateUserEvent, Complete, Objects
<1>3. WrappersExact'
  <2>1. \A d \in Events : status[d] # Free => status'[d] # Free
    BY <1>1 DEF Advance, Free, EventInv, TypeOK
  <2>2. status'[e] # Free /\ event \in [Objects -> Events \cup {NULL}] /\ UserWrappers \subseteq Objects
    BY <1>1 DEF Advance, Free, EventInv, TypeOK, Objects
  <2>. QED BY <1>2, <2>1, <2>2 DEF WrappersExact, EventInv
<1>4. /\ deps' \in [Events -> SUBSET Events] /\ user' \in SUBSET Events /\ flushed' \in SUBSET Events
      /\ event' \in [Objects -> Events \cup {NULL}] /\ wstatus' \in [Objects -> -1..2]
      /\ user \subseteq user' /\ \A v \in Objects : wstatus'[v] < 0 => wstatus[v] < 0
  BY <1>2 DEF EventInv, TypeOK
<1>. QED BY <1>1, <1>2, <1>3, <1>4, AdvanceStep

LEMMA SetStatusStep ==
  ASSUME EventInv, NEW w \in UserWrappers, NEW s \in {Complete, Failed}, SetStatus(w, s)
  PROVE  EventInv' /\ event[w] \in Events /\ Advance(event[w], s)
<1>1. /\ event[w] \in user /\ event[w] \in Events /\ w \in Objects
      /\ status \in [Events -> -1..4] /\ event \in [Objects -> Events \cup {NULL}]
  BY DEF SetStatus, EventInv, WrappersExact, TypeOK, Objects
<1>2. s \in -1..3 /\ Advance(event[w], s)
  BY <1>1 DEF SetStatus, Complete, Failed, Advance, Over
<1>3. /\ wstatus' = [wstatus EXCEPT ![w] = s] /\ status'[event[w]] = s
      /\ UNCHANGED <<deps, user, flushed, event, baton, block, loopVars>>
  BY <1>1 DEF SetStatus
<1>4. WrappersExact'
  BY <1>1, <1>2, <1>3 DEF WrappersExact, EventInv, Advance, Free
<1>5. \A v \in Objects : wstatus'[v] < 0 =>
        wstatus[v] < 0 \/ (v \in UserWrappers /\ \E d \in user' : status'[d] < 0)
  BY <1>1, <1>3 DEF EventInv, TypeOK
<1>6. /\ deps' \in [Events -> SUBSET Events] /\ user' \in SUBSET Events /\ flushed' \in SUBSET Events
      /\ event' \in [Objects -> Events \cup {NULL}] /\ wstatus' \in [Objects -> -1..2]
  <2>1. s \in -1..2
    BY DEF Complete, Failed
  <2>2. wstatus' \in [Objects -> -1..2]
    BY <1>3, <2>1 DEF EventInv, TypeOK
  <2>. QED BY <1>3, <2>2 DEF EventInv, TypeOK
<1>. QED BY <1>1, <1>2, <1>3, <1>4, <1>5, <1>6, AdvanceStep

LEMMA CommandStepStep ==
  ASSUME EventInv, NEW e \in Commands, NEW s \in -1..3, s < status[e], status[e] > 0, CommandStep(e, s)
  PROVE  EventInv' /\ e \in Events /\ Advance(e, s)
<1>1. e \in Events /\ Advance(e, s)
  BY DEF Commands, CommandStep, Advance
<1>2. UNCHANGED <<deps, user, event, wstatus, baton, block, loopVars>> /\ flushed' = flushed \ {e}
  BY DEF CommandStep, objectVars
<1>3. WrappersExact'
  BY <1>1, <1>2 DEF WrappersExact, EventInv, Advance, Free, TypeOK
<1>4. /\ deps' \in [Events -> SUBSET Events] /\ user' \in SUBSET Events /\ flushed' \in SUBSET Events
      /\ event' \in [Objects -> Events \cup {NULL}] /\ wstatus' \in [Objects -> -1..2]
  BY <1>2 DEF EventInv, TypeOK
<1>. QED BY <1>1, <1>2, <1>3, <1>4, AdvanceStep

LEMMA ReleaseStep ==
  ASSUME EventInv, NEW w \in Objects, Release(w)
  PROVE  EventInv'
<1>1. /\ event' = [event EXCEPT ![w] = NULL]
      /\ UNCHANGED <<status, deps, user, flushed, wstatus, baton, block, mode, pool, done, active, inserting, intact>>
  BY DEF Release, nativeVars, loopVars, queueVars
<1>2. TypeOK'
  BY <1>1 DEF EventInv, TypeOK, LoopTypeOK
<1>3. WrappersExact'
  BY <1>1 DEF EventInv, WrappersExact, TypeOK, Objects
<1>4. BatonsExact'
  BY <1>1 DEF EventInv, BatonsExact, BatonExact, ToldRight
<1>5. QueuesExact' /\ BlockExact' /\ FailureIsReal'
  BY <1>1 DEF EventInv, QueuesExact, BlockExact, FailureIsReal, Alive
<1>. QED BY <1>2, <1>3, <1>4, <1>5 DEF EventInv

-----------------------------------------------------------------------------
(* Steps of the main thread that leave the batons alone *)

LEMMA ModeStep ==
  ASSUME EventInv, UNCHANGED <<status, deps, user, objectVars, baton, queueVars>>,
         flushed' \in SUBSET Events, block' \in [on : SUBSET Events, then : Batons \cup {NULL}],
         mode' \in {"script", "poll", "blocked"} \/ (mode' = "exited" /\ (intact => active = {})),
         BlockExact'
  PROVE  EventInv'
<1>1. UNCHANGED <<status, deps, user, event, wstatus, baton, pool, done, active, inserting, intact>>
  BY DEF objectVars, queueVars
<1>2. TypeOK'
  <2>1. LoopTypeOK(Batons)'
    BY <1>1 DEF EventInv, TypeOK, LoopTypeOK
  <2>. QED BY <1>1, <2>1 DEF EventInv, TypeOK
<1>3. BatonsExact'
  BY <1>1 DEF EventInv, BatonsExact, BatonExact, ToldRight
<1>4. QueuesExact'
  BY <1>1 DEF EventInv, QueuesExact, Alive
<1>5. WrappersExact' /\ FailureIsReal'
  BY <1>1 DEF EventInv, WrappersExact, FailureIsReal
<1>. QED BY <1>2, <1>3, <1>4, <1>5 DEF EventInv

LEMMA WaitingAreEvents == Waiting \in SUBSET Events /\ Commands \in SUBSET Events
BY DEF Waiting, Commands

LEMMA FlushStep ==
  ASSUME EventInv, InScript, Flush
  PROVE  EventInv'
<1>1. /\ UNCHANGED <<status, deps, user, objectVars, baton, queueVars, block, mode>>
      /\ flushed' \in SUBSET Events /\ mode' = "script"
  BY WaitingAreEvents DEF Flush, loopVars, InScript
<1>2. block' \in [on : SUBSET Events, then : Batons \cup {NULL}] /\ BlockExact'
  BY <1>1 DEF EventInv, TypeOK, BlockExact
<1>. QED BY <1>1, <1>2, ModeStep

LEMMA WaitStep ==
  ASSUME EventInv, NEW L \in SUBSET Objects, WaitForEvents(L)
  PROVE  EventInv'
<1>1. /\ UNCHANGED <<status, deps, user, objectVars, baton, queueVars>>
      /\ flushed' \in SUBSET Events /\ mode' = "blocked"
      /\ block' = [on |-> {event[v] : v \in L}, then |-> NULL]
  BY WaitingAreEvents DEF WaitForEvents, BlockOn
<1>2. {event[v] : v \in L} \subseteq Events
  BY DEF WaitForEvents, EventInv, TypeOK
<1>3. block' \in [on : SUBSET Events, then : Batons \cup {NULL}] /\ BlockExact'
  BY <1>1, <1>2 DEF BlockExact
<1>. QED BY <1>1, <1>3, ModeStep

LEMMA FinishStep ==
  ASSUME EventInv, NEW then \in Batons \cup {NULL}, Finish(then)
  PROVE  EventInv'
<1>1. /\ UNCHANGED <<status, deps, user, objectVars, baton, queueVars>>
      /\ flushed' \in SUBSET Events /\ mode' = "blocked"
      /\ block' = [on |-> Commands, then |-> then]
      /\ then # NULL => baton[then] = Unused
  BY WaitingAreEvents DEF Finish, BlockOn, FreshBaton
<1>2. block' \in [on : SUBSET Events, then : Batons \cup {NULL}]
  BY <1>1, WaitingAreEvents
<1>3. BlockExact'
  BY <1>1 DEF BlockExact
<1>. QED BY <1>1, <1>2, <1>3, ModeStep

LEMMA ReturnStep ==
  ASSUME EventInv, ScriptReturns \/ Exit
  PROVE  EventInv'
<1>1. /\ UNCHANGED <<status, deps, user, flushed, objectVars, baton, queueVars, block>>
      /\ mode' = "poll" \/ (mode' = "exited" /\ (intact => active = {}))
  BY DEF ScriptReturns, Exit, Return, Leave, LoopIsDead, nativeVars
<1>2. /\ flushed' \in SUBSET Events /\ block' \in [on : SUBSET Events, then : Batons \cup {NULL}]
      /\ BlockExact'
  BY <1>1 DEF EventInv, TypeOK, BlockExact
<1>. QED BY <1>1, <1>2, ModeStep

-----------------------------------------------------------------------------
(* Steps that write a baton *)

\* What a step that writes one baton does to the others.
OnlyBaton(b) ==
  /\ \A c \in Batons : c # b => baton'[c] = baton[c]
  /\ UNCHANGED <<status, deps, user, event>>

LEMMA OtherBatons ==
  ASSUME EventInv, NEW b \in Batons, OnlyBaton(b), BatonExact(b)'
  PROVE  BatonsExact' /\ WrappersExact'
<1>1. \A c \in Batons : c # b => BatonExact(c)'
  BY DEF EventInv, BatonsExact, BatonExact, OnlyBaton, ToldRight
<1>2. WrappersExact'
  BY DEF EventInv, WrappersExact, OnlyBaton
<1>. QED BY <1>1, <1>2 DEF BatonsExact

\* A baton that has not been called is no wrapper's witness.
LEMMA WitnessesStay ==
  ASSUME EventInv, NEW b \in Batons, OnlyBaton(b), baton[b].stage # "called", wstatus' = wstatus
  PROVE  FailureIsReal'
<1>. SUFFICES ASSUME NEW w \in Objects, wstatus[w] < 0
     PROVE  \/ \E c \in Batons : /\ baton'[c].stage = "called" /\ w \in baton'[c].ws
                                 /\ \E e \in baton'[c].on : status[e] < 0
            \/ w \in UserWrappers /\ \E e \in user : status[e] < 0
  BY DEF FailureIsReal, OnlyBaton
<1>1. CASE w \in UserWrappers /\ \E e \in user : status[e] < 0
  BY <1>1
<1>2. CASE \E c \in Batons : /\ baton[c].stage = "called" /\ w \in baton[c].ws
                             /\ \E e \in baton[c].on : status[e] < 0
  <2>1. PICK c \in Batons : /\ baton[c].stage = "called" /\ w \in baton[c].ws
                            /\ \E e \in baton[c].on : status[e] < 0
    BY <1>2
  <2>2. baton'[c] = baton[c]
    BY <2>1 DEF OnlyBaton
  <2>. QED BY <2>1, <2>2
<1>. QED BY <1>1, <1>2 DEF EventInv, FailureIsReal

LEMMA SetCallbackStep ==
  ASSUME EventInv, InScript, NEW w \in Objects, NEW type \in Types, NEW b \in Batons,
         FreshBaton(b), SetCallback(w, type, b)
  PROVE  EventInv'
<1>. DEFINE on == IF event[w] = NULL THEN {} ELSE {event[w]}
            stage == IF event[w] = NULL THEN "leaked" ELSE "registered"
            n == NewBatonOf("event", stage, {w}, on, type)
<1>1. baton[b] = Unused /\ baton[b].stage = "unused" /\ baton \in [Batons -> Batonic]
  BY DEF FreshBaton, Unused, NewBatonOf, EventInv, TypeOK
<1>2. /\ baton' = [baton EXCEPT ![b] = n]
      /\ UNCHANGED <<status, deps, user, flushed, event, wstatus, block, mode, pool, done, active, inserting, intact>>
  <2>2. /\ RegisteredStage(w) = stage
        /\ (IF RegisteredStage(w) = "registered" THEN {event[w]} ELSE {}) = on
    BY DEF RegisteredStage
  <2>3. baton' = [baton EXCEPT ![b] = n]
    BY <2>2 DEF SetCallback
  <2>. QED BY <2>3 DEF SetCallback, nativeVars, objectVars, loopVars, queueVars
<1>3. event[w] \in Events \cup {NULL} /\ (event[w] # NULL => status[event[w]] # Free)
  BY DEF EventInv, TypeOK, WrappersExact
<1>4. TypeOK'
  <2>1. n \in Batonic
    BY <1>3, EventsAssumption DEF Batonic, NewBatonOf
  <2>2. baton' \in [Batons -> Batonic]
    BY <1>1, <1>2, <2>1
  <2>. QED BY <1>2, <2>2 DEF EventInv, TypeOK, LoopTypeOK
<1>5. baton'[b] = n /\ OnlyBaton(b)
  BY <1>1, <1>2 DEF OnlyBaton
<1>6. BatonExact(b)'
  BY <1>2, <1>3, <1>5 DEF BatonExact, NewBatonOf
<1>7. BatonsExact' /\ WrappersExact' /\ FailureIsReal'
  BY <1>1, <1>2, <1>5, <1>6, OtherBatons, WitnessesStay
<1>8. QueuesExact'
  <2>1. \A c \in pool : c \in Batons /\ c # b
    BY <1>1 DEF EventInv, QueuesExact, TypeOK, LoopTypeOK
  <2>2. \A i \in 1..Len(done) : done[i] \in Batons /\ done[i] # b
    BY <1>1 DEF EventInv, QueuesExact, TypeOK, LoopTypeOK
  <2>3. baton'[b].stage # "queued"
    BY <1>5 DEF NewBatonOf
  <2>4. \A c \in Batons : c # b => baton'[c] = baton[c]
    BY <1>5 DEF OnlyBaton
  <2>. HIDE DEF n
  <2>5. /\ \A c \in pool' : baton'[c].stage = "queued"
        /\ \A i \in 1..Len(done') : baton'[done'[i]].stage = "queued" /\ done'[i] \notin pool'
    BY <1>2, <2>1, <2>2, <2>4 DEF EventInv, QueuesExact
  <2>6. \A c \in Batons : baton'[c].stage = "queued" => c \in active'
    BY <1>2, <2>3, <2>4 DEF EventInv, QueuesExact
  <2>. QED BY <1>2, <2>5, <2>6 DEF EventInv, QueuesExact, Alive
<1>9. BlockExact'
  BY <1>2 DEF BlockExact, InScript
<1>. QED BY <1>4, <1>7, <1>8, <1>9 DEF EventInv

\* A baton the main thread gives to libuv.
LEMMA QueueBatonStep ==
  ASSUME EventInv, NEW b \in Batons, baton[b] = Unused, NEW kind \in {"wait", "finish"},
         NEW ws \in SUBSET Objects, NEW on \in SUBSET Events, QueueBaton(b, kind, ws, on),
         UNCHANGED <<nativeVars, objectVars>>, mode # "exited", mode' = "script",
         block' \in [on : SUBSET Events, then : Batons \cup {NULL}]
  PROVE  EventInv'
<1>. DEFINE n == NewBatonOf(kind, "queued", ws, on, 0)
<1>1. /\ baton' = [baton EXCEPT ![b] = n] /\ baton \in [Batons -> Batonic]
      /\ baton[b].stage = "unused"
      /\ pool' = pool \cup {b} /\ active' = active \cup {b} /\ done' = done
      /\ inserting' = inserting /\ intact' \in {intact, FALSE}
      /\ UNCHANGED <<status, deps, user, flushed, event, wstatus>>
  <2>2. baton' = [baton EXCEPT ![b] = n]
    BY DEF QueueBaton
  <2>3. baton[b].stage = "unused" /\ baton \in [Batons -> Batonic]
    BY DEF Unused, NewBatonOf, EventInv, TypeOK
  <2>. QED BY <2>2, <2>3 DEF QueueBaton, QueueWork, Enter, Touch, nativeVars, objectVars
<1>2. TypeOK'
  <2>1. n \in Batonic
    BY DEF Batonic, NewBatonOf
  <2>2. baton' \in [Batons -> Batonic]
    BY <1>1, <2>1
  <2>3. LoopTypeOK(Batons)'
    BY <1>1 DEF EventInv, TypeOK, LoopTypeOK
  <2>. QED BY <1>1, <2>2, <2>3 DEF EventInv, TypeOK
<1>3. baton'[b] = n /\ OnlyBaton(b)
  BY <1>1 DEF OnlyBaton
<1>4. BatonExact(b)'
  BY <1>3 DEF BatonExact, NewBatonOf
<1>5. BatonsExact' /\ WrappersExact' /\ FailureIsReal'
  BY <1>1, <1>3, <1>4, OtherBatons, WitnessesStay
<1>6. QueuesExact'
  <2>1. /\ \A c \in pool : c \in Batons /\ c # b /\ baton[c].stage = "queued"
        /\ \A i \in 1..Len(done) : done[i] \in Batons /\ done[i] # b
    BY <1>1 DEF EventInv, QueuesExact, TypeOK, LoopTypeOK
  <2>2. \A c \in pool' : baton'[c].stage = "queued"
    BY <1>1, <1>3, <2>1 DEF OnlyBaton, NewBatonOf
  <2>3. \A i \in 1..Len(done') : baton'[done'[i]].stage = "queued" /\ done'[i] \notin pool'
    <3>1. \A c \in Batons : c # b => baton'[c] = baton[c]
      BY <1>3 DEF OnlyBaton
    <3>2. \A i \in 1..Len(done) : baton[done[i]].stage = "queued" /\ done[i] \notin pool
      BY DEF EventInv, QueuesExact
    <3>. QED BY <1>1, <2>1, <3>1, <3>2
  <2>4. \A i, j \in 1..Len(done') : done'[i] = done'[j] => i = j
    BY <1>1 DEF EventInv, QueuesExact
  <2>5. \A c \in Batons : baton'[c].stage = "queued" => c \in active'
    BY <1>1, <1>3 DEF OnlyBaton, EventInv, QueuesExact
  <2>. QED BY <2>2, <2>3, <2>4, <2>5 DEF QueuesExact, Alive
<1>7. BlockExact'
  BY DEF BlockExact
<1>. QED BY <1>2, <1>5, <1>6, <1>7 DEF EventInv

LEMMA AsyncWaitStep ==
  ASSUME EventInv, InScript, NEW L \in SUBSET Objects, NEW b \in Batons, FreshBaton(b),
         WaitForEventsAsync(L, b)
  PROVE  EventInv'
<1>1. {event[v] : v \in L} \in SUBSET Events
  BY DEF WaitForEventsAsync, EventInv, TypeOK
<1>2. /\ QueueBaton(b, "wait", L, {event[v] : v \in L}) /\ baton[b] = Unused
      /\ UNCHANGED <<nativeVars, objectVars, mode, block>> /\ mode = "script"
      /\ block \in [on : SUBSET Events, then : Batons \cup {NULL}]
  BY DEF WaitForEventsAsync, FreshBaton, InScript, EventInv, TypeOK
<1>. QED BY <1>1, <1>2, QueueBatonStep

LEMMA UnblockStep ==
  ASSUME EventInv, Unblock
  PROVE  EventInv'
<1>1. /\ mode = "blocked" /\ mode' = "script" /\ UNCHANGED <<nativeVars, objectVars>>
      /\ block' = [on |-> {}, then |-> NULL]
  BY DEF Unblock, NotBlocked
<1>2. block' \in [on : SUBSET Events, then : Batons \cup {NULL}]
  BY <1>1
<1>3. CASE block.then = NULL
  <2>1. UNCHANGED <<baton, queueVars>>
    BY <1>3 DEF Unblock
  <2>2. flushed' \in SUBSET Events /\ BlockExact' /\ UNCHANGED <<status, deps, user, objectVars>>
    BY <1>1 DEF EventInv, TypeOK, BlockExact, nativeVars
  <2>. QED BY <1>1, <1>2, <2>1, <2>2, ModeStep
<1>4. CASE block.then # NULL
  <2>1. /\ block.then \in Batons /\ block.on \in SUBSET Events /\ baton[block.then] = Unused
        /\ QueueBaton(block.then, "finish", {}, block.on)
    BY <1>1, <1>4 DEF Unblock, EventInv, TypeOK, BlockExact
  <2>. QED BY <1>1, <1>2, <2>1, QueueBatonStep
<1>. QED BY <1>3, <1>4

\* The callback on the runtime's thread: the baton is told right.
LEMMA RegisteredBaton ==
  ASSUME EventInv, NEW b \in Batons, baton[b].stage \in {"registered", "queueing", "queued", "called"},
         baton[b].kind \notin {"wait", "finish"}
  PROVE  baton[b].kind = "event" /\ \E e \in Events : baton[b].on = {e} /\ status[e] # Free
<1>1. BatonExact(b) /\ baton[b] \in Batonic
  BY DEF EventInv, BatonsExact, TypeOK
<1>. QED BY <1>1 DEF BatonExact, Batonic

LEMMA EventCallbackStep ==
  ASSUME EventInv, NEW b \in Batons, EventCallback(b)
  PROVE  EventInv'
<1>1. BatonExact(b) /\ baton[b] \in Batonic /\ baton[b].stage = "registered"
      /\ baton \in [Batons -> Batonic] /\ mode # "exited"
  BY DEF EventCallback, EventInv, BatonsExact, TypeOK, Alive
<1>2. PICK e \in Events : baton[b].on = {e} /\ status[e] # Free /\ baton[b].kind = "event"
  BY <1>1, RegisteredBaton DEF BatonExact
<1>3. (CHOOSE d \in baton[b].on : TRUE) = e
  BY <1>2
<1>4. /\ status[e] <= baton[b].type
      /\ baton' = [baton EXCEPT ![b].stage = "queueing", ![b].error = Told(e, baton[b].type)]
      /\ inserting' = inserting \cup {b} /\ intact' \in {intact, FALSE}
      /\ UNCHANGED <<status, deps, user, flushed, event, wstatus, mode, block, pool, done, active>>
  BY <1>3 DEF EventCallback, StartQueueing, Touch, nativeVars, objectVars
<1>5. /\ baton'[b].kind = "event" /\ baton'[b].stage = "queueing" /\ baton'[b].on = {e}
      /\ baton'[b].ws = baton[b].ws /\ baton'[b].type = baton[b].type
      /\ baton'[b].error = Told(e, baton[b].type)
      /\ OnlyBaton(b)
  BY <1>1, <1>2, <1>4 DEF OnlyBaton, Batonic
<1>6. baton[b].type \in {0, 1, 2} /\ status[e] \in -1..4 /\ Told(e, baton[b].type) \in -1..2
  <2>1. baton[b].type \in {0, 1, 2} /\ status[e] \in -1..4
    BY <1>1 DEF Batonic, EventInv, TypeOK
  <2>. QED BY <2>1 DEF Told
<1>7. TypeOK'
  <2>1. baton' \in [Batons -> Batonic]
    BY <1>1, <1>4, <1>6 DEF Batonic
  <2>2. LoopTypeOK(Batons)'
    BY <1>4 DEF EventInv, TypeOK, LoopTypeOK
  <2>. QED BY <1>4, <2>1, <2>2 DEF EventInv, TypeOK
<1>8. ToldRight(b, e)'
  BY <1>4, <1>5, <1>6 DEF ToldRight, Told
<1>9. BatonExact(b)'
  BY <1>2, <1>4, <1>5, <1>8 DEF BatonExact
<1>10. BatonsExact' /\ WrappersExact' /\ FailureIsReal'
  BY <1>1, <1>4, <1>5, <1>9, OtherBatons, WitnessesStay
<1>11. QueuesExact'
  <2>1. /\ \A c \in pool : c \in Batons /\ c # b
        /\ \A i \in 1..Len(done) : done[i] \in Batons /\ done[i] # b
    BY <1>1 DEF EventInv, QueuesExact, TypeOK, LoopTypeOK
  <2>2. /\ \A c \in Batons : c # b => baton'[c] = baton[c]
        /\ pool' = pool /\ done' = done /\ active' = active /\ baton'[b].stage # "queued"
    BY <1>4, <1>5 DEF OnlyBaton
  <2>. QED BY <1>1, <1>4, <2>1, <2>2 DEF EventInv, QueuesExact, Alive
<1>12. BlockExact'
  <2>1. baton[b] # Unused
    BY <1>1 DEF Unused, NewBatonOf
  <2>. QED BY <1>4, <1>5, <2>1 DEF BlockExact, EventInv, OnlyBaton, TypeOK
<1>. QED BY <1>7, <1>10, <1>11, <1>12 DEF EventInv

LEMMA CallbackReturnsStep ==
  ASSUME EventInv, NEW b \in Batons, CallbackReturns(b)
  PROVE  EventInv'
<1>1. /\ BatonExact(b) /\ baton[b] \in Batonic /\ baton[b].stage = "queueing"
      /\ baton \in [Batons -> Batonic] /\ mode # "exited"
  BY DEF CallbackReturns, EventInv, BatonsExact, TypeOK, Alive
<1>2. /\ baton' = [baton EXCEPT ![b].stage = "queued"]
      /\ pool' = pool \cup {b} /\ active' = active \cup {b} /\ inserting' = inserting \ {b}
      /\ UNCHANGED <<status, deps, user, flushed, event, wstatus, mode, block, done, intact>>
  BY DEF CallbackReturns, EndQueueing, Enter, nativeVars, objectVars
<1>3. /\ baton'[b].kind = baton[b].kind /\ baton'[b].stage = "queued"
      /\ baton'[b].on = baton[b].on /\ baton'[b].type = baton[b].type
      /\ baton'[b].error = baton[b].error /\ OnlyBaton(b)
  BY <1>1, <1>2 DEF OnlyBaton, Batonic
<1>4. TypeOK'
  <2>1. baton' \in [Batons -> Batonic]
    BY <1>1, <1>2 DEF Batonic
  <2>2. LoopTypeOK(Batons)'
    BY <1>2 DEF EventInv, TypeOK, LoopTypeOK
  <2>. QED BY <1>2, <2>1, <2>2 DEF EventInv, TypeOK
<1>5. BatonExact(b)'
  <2>1. PICK e \in Events : baton[b].on = {e} /\ status[e] # Free /\ ToldRight(b, e)
                            /\ baton[b].kind = "event"
    BY <1>1, RegisteredBaton DEF BatonExact
  <2>2. ToldRight(b, e)' /\ baton'[b].on = {e} /\ status'[e] # Free /\ baton'[b].kind = "event"
    BY <1>2, <1>3, <2>1 DEF ToldRight
  <2>. QED BY <1>3, <2>2 DEF BatonExact
<1>6. BatonsExact' /\ WrappersExact' /\ FailureIsReal'
  BY <1>1, <1>2, <1>3, <1>5, OtherBatons, WitnessesStay
<1>7. QueuesExact'
  <2>1. /\ \A c \in pool : c \in Batons /\ baton[c].stage = "queued"
        /\ \A i \in 1..Len(done) : /\ done[i] \in Batons /\ done[i] # b
                                   /\ baton[done[i]].stage = "queued" /\ done[i] \notin pool
        /\ \A i, j \in 1..Len(done) : done[i] = done[j] => i = j
        /\ \A c \in Batons : baton[c].stage = "queued" => c \in active
    BY <1>1 DEF EventInv, QueuesExact, TypeOK, LoopTypeOK
  <2>2. \A c \in Batons : c # b => baton'[c] = baton[c]
    BY <1>3 DEF OnlyBaton
  <2>3. \A c \in pool' : baton'[c].stage = "queued"
    BY <1>2, <1>3, <2>1, <2>2
  <2>4. \A i \in 1..Len(done') : baton'[done'[i]].stage = "queued" /\ done'[i] \notin pool'
    BY <1>2, <2>1, <2>2
  <2>5. \A c \in Batons : baton'[c].stage = "queued" => c \in active'
    BY <1>2, <2>1, <2>2
  <2>. QED BY <1>1, <1>2, <2>1, <2>3, <2>4, <2>5 DEF QueuesExact, Alive
<1>8. BlockExact'
  <2>1. baton[b] # Unused
    BY <1>1 DEF Unused, NewBatonOf
  <2>. QED BY <1>2, <1>3, <2>1 DEF BlockExact, EventInv, OnlyBaton, TypeOK
<1>. QED BY <1>4, <1>6, <1>7, <1>8 DEF EventInv

-----------------------------------------------------------------------------
(* Steps of the pool and the loop *)

LEMMA PoolStep ==
  ASSUME EventInv, NEW b \in pool, PoolRuns(b)
  PROVE  EventInv'
<1>1. /\ b \in Batons /\ done \in Seq(Batons) /\ baton[b].stage = "queued"
      /\ \A c \in Batons : baton[c].stage = "queued" => c \in active
  BY DEF EventInv, QueuesExact, TypeOK, LoopTypeOK
<1>2. /\ pool' = pool \ {b} /\ done' = Append(done, b) /\ mode # "exited"
      /\ UNCHANGED <<status, deps, user, flushed, event, wstatus, baton, block, mode, active, inserting, intact>>
  BY DEF PoolRuns, Execute, Alive, nativeVars, objectVars
<1>3. TypeOK'
  <2>1. LoopTypeOK(Batons)'
    BY <1>1, <1>2 DEF EventInv, TypeOK, LoopTypeOK
  <2>. QED BY <1>2, <2>1 DEF EventInv, TypeOK
<1>4. QueuesExact'
  <2>1. /\ \A c \in pool : baton[c].stage = "queued"
        /\ \A i \in 1..Len(done) : baton[done[i]].stage = "queued" /\ done[i] \notin pool
        /\ \A i, j \in 1..Len(done) : done[i] = done[j] => i = j
    BY DEF EventInv, QueuesExact
  <2>2. /\ Len(done') = Len(done) + 1 /\ Len(done) \in Nat /\ done'[Len(done')] = b
        /\ \A i \in 1..Len(done) : done'[i] = done[i]
    BY <1>1, <1>2
  <2>3. \A i \in 1..Len(done') : i \in 1..Len(done) \/ i = Len(done')
    BY <2>2
  <2>4. \A i \in 1..Len(done') : baton'[done'[i]].stage = "queued" /\ done'[i] \notin pool'
    BY <1>1, <1>2, <2>1, <2>2, <2>3
  <2>5. \A i, j \in 1..Len(done') : done'[i] = done'[j] => i = j
    BY <2>1, <2>2, <2>3
  <2>. QED BY <1>1, <1>2, <2>1, <2>4, <2>5 DEF QueuesExact, Alive
<1>5. BatonsExact' /\ WrappersExact' /\ FailureIsReal'
  BY <1>2 DEF EventInv, BatonsExact, BatonExact, ToldRight, WrappersExact, FailureIsReal
<1>6. BlockExact'
  BY <1>2 DEF EventInv, BlockExact
<1>. QED BY <1>3, <1>4, <1>5, <1>6 DEF EventInv

\* What Take does to the lists.
LEMMA TakeStep ==
  ASSUME EventInv, NEW b \in Batons, NEW kind \in {"event", "wait", "finish"},
         NEW next \in {"script", "blocked"}, Take(b, kind, next),
         UNCHANGED <<status, deps, user, event>>, flushed' \in SUBSET Events,
         wstatus' \in [Objects -> -1..2], FailureIsReal',
         block' \in [on : SUBSET Events, then : Batons \cup {NULL}], BlockExact'
  PROVE  EventInv'
<1>1. /\ mode' = next /\ done # <<>> /\ b = Head(done) /\ done' = Tail(done)
      /\ active' = active \ {b} /\ pool' = pool /\ mode = "poll" /\ baton[b].kind = kind
      /\ inserting' = inserting /\ intact' \in {intact, FALSE}
      /\ baton' = [baton EXCEPT ![b].stage = "called"]
  BY DEF Take, Serve, Touch
<1>2. /\ done \in Seq(Batons) /\ baton \in [Batons -> Batonic] /\ baton[b] \in Batonic
  BY DEF EventInv, TypeOK, LoopTypeOK
<1>3. /\ Len(done) \in Nat /\ Len(done) > 0 /\ b = done[1] /\ Len(done') = Len(done) - 1
      /\ \A i \in 1..Len(done') : done'[i] = done[i + 1]
  BY <1>1, <1>2
<1>4. /\ baton'[b].kind = kind /\ baton'[b].stage = "called"
      /\ baton'[b].on = baton[b].on /\ baton'[b].type = baton[b].type
      /\ baton'[b].ws = baton[b].ws /\ baton'[b].error = baton[b].error
      /\ OnlyBaton(b)
  BY <1>1, <1>2 DEF OnlyBaton, Batonic
<1>5. /\ \A c \in pool : baton[c].stage = "queued" /\ c \in Batons
      /\ \A i \in 1..Len(done) : baton[done[i]].stage = "queued" /\ done[i] \notin pool
      /\ \A i, j \in 1..Len(done) : done[i] = done[j] => i = j
      /\ \A c \in Batons : baton[c].stage = "queued" => c \in active
  BY DEF EventInv, QueuesExact, TypeOK, LoopTypeOK
<1>6. TypeOK'
  <2>1. baton' \in [Batons -> Batonic]
    BY <1>1, <1>2 DEF Batonic
  <2>2. LoopTypeOK(Batons)'
    <3>1. done' \in Seq(Batons)
      BY <1>1, <1>2
    <3>2. intact' \in BOOLEAN /\ mode' \in {"script", "poll", "blocked", "exited"}
      BY <1>1 DEF EventInv, TypeOK, LoopTypeOK
    <3>3. /\ pool' \in SUBSET Batons /\ active' \in SUBSET Batons
          /\ inserting' \in SUBSET Batons
      BY <1>1 DEF EventInv, TypeOK, LoopTypeOK
    <3>. QED BY <3>1, <3>2, <3>3 DEF LoopTypeOK
  <2>. QED BY <2>1, <2>2 DEF EventInv, TypeOK
<1>7. BatonExact(b)'
  <2>1. BatonExact(b) /\ baton[b].stage = "queued"
    BY <1>3, <1>5 DEF EventInv, BatonsExact
  <2>2. CASE kind = "event"
    <3>1. PICK e \in Events : baton[b].on = {e} /\ status[e] # Free /\ ToldRight(b, e)
      BY <1>4, <1>1, <2>1, <2>2 DEF BatonExact
    <3>2. ToldRight(b, e)' /\ baton'[b].on = {e} /\ status'[e] # Free
      BY <1>4, <3>1 DEF ToldRight
    <3>. QED BY <1>4, <2>2, <3>2 DEF BatonExact
  <2>3. CASE kind # "event"
    BY <1>4, <2>3 DEF BatonExact
  <2>. QED BY <2>2, <2>3
<1>8. BatonsExact' /\ WrappersExact'
  BY <1>7, <1>4, OtherBatons
<1>9. QueuesExact'
  <2>1. \A i \in 1..Len(done') : i + 1 \in 1..Len(done) /\ done[i + 1] # b /\ done[i + 1] \in Batons
    BY <1>2, <1>3, <1>5
  <2>2. \A c \in Batons : c # b => baton'[c] = baton[c]
    BY <1>4 DEF OnlyBaton
  <2>3. \A c \in pool : c # b
    BY <1>3, <1>5
  <2>4. \A c \in pool' : baton'[c].stage = "queued"
    BY <1>1, <1>5, <2>2, <2>3
  <2>5. \A i \in 1..Len(done') : baton'[done'[i]].stage = "queued" /\ done'[i] \notin pool'
    BY <1>1, <1>3, <1>5, <2>1, <2>2
  <2>6. \A i, j \in 1..Len(done') : done'[i] = done'[j] => i = j
    BY <1>3, <1>5, <2>1
  <2>7. \A c \in Batons : baton'[c].stage = "queued" => c \in active'
    BY <1>1, <1>4, <1>5, <2>2
  <2>. QED BY <1>1, <2>4, <2>5, <2>6, <2>7 DEF QueuesExact, Alive
<1>. QED BY <1>6, <1>8, <1>9 DEF EventInv

\* The baton the loop takes was queued, so it is no witness yet.
LEMMA TakenIsQueued ==
  ASSUME EventInv, NEW b \in Batons, NEW kind, NEW next, Take(b, kind, next),
         UNCHANGED <<status, deps, user, event>>
  PROVE  /\ baton[b].stage = "queued" /\ baton[b].kind = kind /\ OnlyBaton(b)
         /\ baton'[b] = [baton[b] EXCEPT !.stage = "called"]
<1>1. /\ done # <<>> /\ b = Head(done) /\ done \in Seq(Batons) /\ baton[b].kind = kind
      /\ baton' = [baton EXCEPT ![b].stage = "called"] /\ baton \in [Batons -> Batonic]
  BY DEF Take, Serve, EventInv, TypeOK, LoopTypeOK
<1>2. 1 \in 1..Len(done) /\ b = done[1]
  BY <1>1
<1>3. baton[b].stage = "queued"
  BY <1>2 DEF EventInv, QueuesExact
<1>. QED BY <1>1, <1>3 DEF OnlyBaton

LEMMA HandleEventStep ==
  ASSUME EventInv, NEW b \in Batons, HandleEvent(b)
  PROVE  EventInv'
<1>1. /\ Take(b, "event", "script") /\ UNCHANGED <<status, deps, user, event, flushed, block>>
      /\ wstatus' = [w \in Objects |-> IF w \in baton[b].ws THEN baton[b].error ELSE wstatus[w]]
  BY DEF HandleEvent, nativeVars
<1>2. /\ baton[b].stage = "queued" /\ baton[b].kind = "event" /\ OnlyBaton(b)
      /\ baton'[b] = [baton[b] EXCEPT !.stage = "called"] /\ baton[b] \in Batonic
  BY <1>1, TakenIsQueued DEF EventInv, TypeOK
<1>3. wstatus' \in [Objects -> -1..2]
  BY <1>1, <1>2 DEF EventInv, TypeOK, Batonic
<1>4. FailureIsReal'
  <2>. SUFFICES ASSUME NEW w \in Objects, wstatus'[w] < 0
       PROVE  \/ \E c \in Batons : /\ baton'[c].stage = "called" /\ w \in baton'[c].ws
                                   /\ \E e \in baton'[c].on : status[e] < 0
              \/ w \in UserWrappers /\ \E e \in user : status[e] < 0
    BY <1>1 DEF FailureIsReal
  <2>1. CASE w \in baton[b].ws
    <3>1. baton[b].error < 0
      BY <1>1, <2>1
    <3>2. BatonExact(b)
      BY DEF EventInv, BatonsExact
    <3>3. PICK e \in Events : baton[b].on = {e} /\ ToldRight(b, e)
      BY <1>2, <3>2 DEF BatonExact
    <3>4. status[e] < 0
      <4>1. baton[b].type \in {0, 1, 2} /\ baton[b].error \in -1..2
        BY <1>2 DEF Batonic
      <4>. QED BY <3>1, <3>3, <4>1 DEF ToldRight
    <3>5. baton'[b].stage = "called" /\ w \in baton'[b].ws /\ e \in baton'[b].on
      BY <1>2, <2>1, <3>3 DEF Batonic
    <3>. QED BY <3>4, <3>5
  <2>2. CASE w \notin baton[b].ws
    <3>1. wstatus[w] < 0
      BY <1>1, <2>2
    <3>2. \/ \E c \in Batons : /\ baton[c].stage = "called" /\ w \in baton[c].ws
                               /\ \E e \in baton[c].on : status[e] < 0
          \/ w \in UserWrappers /\ \E e \in user : status[e] < 0
      BY <3>1 DEF EventInv, FailureIsReal
    <3>3. \A c \in Batons : baton[c].stage = "called" => baton'[c] = baton[c]
      BY <1>2 DEF OnlyBaton
    <3>. QED BY <3>2, <3>3
  <2>. QED BY <2>1, <2>2
<1>5. BlockExact' /\ block' \in [on : SUBSET Events, then : Batons \cup {NULL}] /\ flushed' \in SUBSET Events
  BY <1>1 DEF BlockExact, Take, Serve, EventInv, TypeOK
<1>. QED BY <1>1, <1>3, <1>4, <1>5, TakeStep

LEMMA HandleWaitStep ==
  ASSUME EventInv, NEW b \in Batons, HandleWait(b)
  PROVE  EventInv'
<1>. DEFINE on == {event[w] : w \in baton[b].ws}
<1>1. /\ UNCHANGED <<status, deps, user, event, wstatus>>
      /\ \/ NULL \in on /\ Take(b, "wait", "script") /\ block' = block /\ flushed' = flushed
         \/ /\ NULL \notin on /\ Take(b, "wait", "blocked")
            /\ block' = [on |-> on, then |-> NULL] /\ flushed' = Waiting
  BY DEF HandleWait, BlockOn, objectVars
<1>2. baton[b].ws \subseteq Objects /\ event \in [Objects -> Events \cup {NULL}]
  BY DEF EventInv, TypeOK, Batonic
<1>3. NULL \notin on => on \in SUBSET Events
  BY <1>2
<1>. HIDE DEF on
<1>4. /\ flushed' \in SUBSET Events /\ wstatus' \in [Objects -> -1..2]
      /\ block' \in [on : SUBSET Events, then : Batons \cup {NULL}]
  BY <1>1, <1>3, WaitingAreEvents DEF EventInv, TypeOK
<1>5. PICK next \in {"script", "blocked"} :
        Take(b, "wait", next) /\ (next = "blocked" => block'.then = NULL)
  BY <1>1
<1>6. mode' = next
  BY <1>5 DEF Take, Serve
<1>7. BlockExact'
  BY <1>5, <1>6 DEF BlockExact
<1>8. OnlyBaton(b) /\ baton[b].stage # "called"
  BY <1>1, <1>5, TakenIsQueued
<1>9. FailureIsReal'
  BY <1>1, <1>8, WitnessesStay
<1>. QED BY <1>1, <1>4, <1>5, <1>7, <1>9, TakeStep

LEMMA HandleFinishStep ==
  ASSUME EventInv, NEW b \in Batons, HandleFinish(b)
  PROVE  EventInv'
<1>1. /\ Take(b, "finish", "script")
      /\ UNCHANGED <<status, deps, user, event, flushed, wstatus, block>>
  BY DEF HandleFinish, nativeVars, objectVars
<1>2. OnlyBaton(b) /\ baton[b].stage # "called"
  BY <1>1, TakenIsQueued
<1>3. FailureIsReal'
  BY <1>1, <1>2, WitnessesStay
<1>4. /\ BlockExact' /\ block' \in [on : SUBSET Events, then : Batons \cup {NULL}]
      /\ flushed' \in SUBSET Events /\ wstatus' \in [Objects -> -1..2]
  BY <1>1 DEF BlockExact, Take, Serve, EventInv, TypeOK
<1>. QED BY <1>1, <1>3, <1>4, TakeStep

-----------------------------------------------------------------------------
(* The invariant *)

LEMMA InitHolds == Init => EventInv
<1>. SUFFICES ASSUME Init PROVE EventInv
  OBVIOUS
<1>1. TypeOK
  BY EventsAssumption
  DEF Init, LoopInit, TypeOK, LoopTypeOK, Batonic, Unused, NewBatonOf, NotBlocked, Free, Complete
<1>2. BatonsExact /\ WrappersExact
  BY DEF Init, BatonsExact, BatonExact, WrappersExact, Unused, NewBatonOf, Objects
<1>3. QueuesExact /\ BlockExact
  BY DEF Init, LoopInit, QueuesExact, BlockExact, Alive, Unused, NewBatonOf
<1>4. FailureIsReal
  BY DEF Init, FailureIsReal, Complete
<1>. QED BY <1>1, <1>2, <1>3, <1>4 DEF EventInv

LEMMA ScriptStep ==
  ASSUME EventInv, Script
  PROVE  EventInv'
<1>1. InScript
  BY DEF Script
<1>2. CASE \E e \in Events : NewCommand(e)
  BY <1>2, EnqueueStep, CreateUserEventStep DEF NewCommand
<1>3. CASE \E b \in Batons : NewBaton(b)
  BY <1>1, <1>3, SetCallbackStep, AsyncWaitStep DEF NewBaton
<1>4. CASE \E w \in UserWrappers, s \in {Complete, Failed} : SetStatus(w, s)
  BY <1>4, SetStatusStep
<1>5. CASE \E w \in Objects : Release(w)
  BY <1>5, ReleaseStep
<1>6. CASE \E L \in SUBSET Objects : WaitForEvents(L)
  BY <1>6, WaitStep
<1>7. CASE \E then \in Batons \cup {NULL} : Finish(then)
  BY <1>7, FinishStep
<1>8. CASE Flush
  BY <1>1, <1>8, FlushStep
<1>. HIDE DEF EventInv
<1>. QED BY <1>2, <1>3, <1>4, <1>5, <1>6, <1>7, <1>8 DEF Script

\* Submission, start, end and abort of a command all advance it.
LEMMA RuntimeStep ==
  ASSUME EventInv, Submission \/ Command
  PROVE  \E e \in Commands, s \in -1..3 : s < status[e] /\ status[e] > 0 /\ CommandStep(e, s)
<1>1. CASE Submission
  <2>1. PICK e \in Waiting : CommandStep(e, 2)
    BY <1>1 DEF Submission, Submit, Submitted
  <2>2. e \in Commands /\ status[e] = 3 /\ 2 \in -1..3
    BY DEF Waiting, Queued
  <2>. QED BY <2>1, <2>2
<1>2. CASE Command
  <2>1. PICK e \in Commands : Start(e) \/ End(e) \/ Abort(e)
    BY <1>2 DEF Command
  <2>2. CASE Start(e)
    BY <2>2 DEF Start, Submitted, Running
  <2>3. CASE End(e)
    BY <2>3 DEF End, Running, Complete, Failed
  <2>4. CASE Abort(e)
    BY <2>4 DEF Abort, Submitted, Failed
  <2>. QED BY <2>1, <2>2, <2>3, <2>4
<1>. QED BY <1>1, <1>2

LEMMA NextStep ==
  ASSUME EventInv, [Next]_vars
  PROVE  EventInv'
<1>1. CASE Script
  BY <1>1, ScriptStep
<1>2. CASE Unblock
  BY <1>2, UnblockStep
<1>3. CASE ScriptReturns \/ Exit
  BY <1>3, ReturnStep
<1>4. CASE Submission \/ Command
  BY <1>4, RuntimeStep, CommandStepStep
<1>5. CASE Callback
  BY <1>5, EventCallbackStep, CallbackReturnsStep DEF Callback
<1>6. CASE Pool
  BY <1>6, PoolStep DEF Pool
<1>7. CASE Handle
  BY <1>7, HandleEventStep, HandleWaitStep, HandleFinishStep DEF Handle
<1>8. CASE Terminated \/ UNCHANGED vars
  <2>1. UNCHANGED <<status, deps, user, flushed, event, wstatus, baton, block, mode, pool, done, active, inserting, intact>>
    BY <1>8 DEF Terminated, vars, nativeVars, objectVars, loopVars, queueVars
  <2>2. /\ UNCHANGED <<status, deps, user, objectVars, baton, queueVars>>
        /\ flushed' \in SUBSET Events /\ block' \in [on : SUBSET Events, then : Batons \cup {NULL}]
        /\ mode' \in {"script", "poll", "blocked"} \/ (mode' = "exited" /\ (intact => active = {}))
        /\ BlockExact'
    BY <2>1 DEF EventInv, TypeOK, LoopTypeOK, QueuesExact, BlockExact, Alive, objectVars, queueVars
  <2>. QED BY <2>2, ModeStep
<1>. HIDE DEF EventInv
<1>. QED BY <1>1, <1>2, <1>3, <1>4, <1>5, <1>6, <1>7, <1>8 DEF Next

\* Every state of every run of the script satisfies the invariant.
THEOREM EventInvariant == Spec => []EventInv
<1>1. Init => EventInv
  BY InitHolds
<1>2. EventInv /\ [Next]_vars => EventInv'
  BY NextStep
<1>. QED BY <1>1, <1>2, PTL DEF Spec

\* The types of WebCLEvents, for any number of events, wrappers and batons.
THEOREM EventTypes == Spec => []TypeOK
<1>1. EventInv => TypeOK
  BY DEF EventInv
<1>. QED BY <1>1, EventInvariant, PTL

\* Event::status of a wrapper is negative only if the wrapper stood for an event
\* that failed: HandleOKCallback never copies a wrong status, and the status a
\* callback brought never becomes wrong later.
THEOREM FailuresAreReal == Spec => []FailureIsReal
<1>1. EventInv => FailureIsReal
  BY DEF EventInv
<1>. QED BY <1>1, EventInvariant, PTL

\* The loop does not end before it has served what libuv was given, the callbacks
\* of waitForEvents(list, f), finish(f) and setCallback, as long as no insertion by
\* a thread of the runtime met another use of the loop's list.
THEOREM WorkIsServed == Spec => []LoopWorkServed
<1>1. EventInv => LoopWorkServed
  BY DEF EventInv, LoopWorkServed, QueuesExact
<1>. QED BY <1>1, EventInvariant, PTL

-----------------------------------------------------------------------------
(* Every step is one CallbackContract allows *)

LEMMA PendingIs ==
  \A x : x \in PendingCalls <=>
    \E b \in Batons : \E e \in baton[b].on :
      /\ baton[b].kind = "event" /\ baton[b].stage \in {"registered", "queueing", "queued"}
      /\ x = <<b, e, baton[b].type>>
BY DEF PendingCalls, EventBatons

LEMMA MadeIs ==
  \A x : x \in CallsMade <=>
    \E b \in Batons : \E e \in baton[b].on :
      /\ baton[b].kind = "event" /\ baton[b].stage = "called"
      /\ x = <<b, e, baton[b].type, baton[b].error>>
BY DEF CallsMade, EventBatons

\* A step that leaves what the contract sees of every baton leaves its sets.
SameCalls(b) ==
  /\ baton[b].kind = "event" <=> baton'[b].kind = "event"
  /\ baton[b].kind = "event" =>
       /\ baton'[b].on = baton[b].on /\ baton'[b].type = baton[b].type
       /\ baton[b].stage \in {"registered", "queueing", "queued"} <=> baton'[b].stage \in {"registered", "queueing", "queued"}
       /\ baton[b].stage = "called" <=> baton'[b].stage = "called"
       /\ baton[b].stage = "called" => baton'[b].error = baton[b].error

LEMMA CallsStay ==
  ASSUME \A b \in Batons : SameCalls(b)
  PROVE  PendingCalls' = PendingCalls /\ CallsMade' = CallsMade
<1>1. EventBatons({"registered", "queueing", "queued"})' = EventBatons({"registered", "queueing", "queued"})
  BY DEF EventBatons, SameCalls
<1>2. EventBatons({"called"})' = EventBatons({"called"})
  BY DEF EventBatons, SameCalls
<1>3. \A b \in EventBatons({"registered", "queueing", "queued"}) :
        baton'[b].on = baton[b].on /\ baton'[b].type = baton[b].type
  BY DEF EventBatons, SameCalls
<1>4. \A b \in EventBatons({"called"}) :
        baton'[b].on = baton[b].on /\ baton'[b].type = baton[b].type /\ baton'[b].error = baton[b].error
  BY DEF EventBatons, SameCalls
<1>. QED BY <1>1, <1>2, <1>3, <1>4 DEF PendingCalls, CallsMade

\* A step on another kind of baton, or none, that leaves the events.
LEMMA StutterStep ==
  ASSUME status' = status, Alive' = Alive, \A b \in Batons : SameCalls(b)
  PROVE  UNCHANGED Promise!cvars
BY CallsStay DEF Promise!cvars

LEMMA ProgressStep ==
  ASSUME NEW e \in Events, NEW s \in -1..3, Advance(e, s), UNCHANGED <<baton, loopVars>>
  PROVE  Promise!ContractNext
<1>1. PendingCalls' = PendingCalls /\ CallsMade' = CallsMade
  BY CallsStay DEF SameCalls
<1>2. Alive' = Alive
  BY DEF Alive, loopVars
<1>. QED BY <1>1, <1>2 DEF Promise!ContractNext, Promise!Progress, Advance

LEMMA CallsNext ==
  /\ \A x : x \in PendingCalls' <=>
       \E b \in Batons : \E e \in baton'[b].on :
         /\ baton'[b].kind = "event" /\ baton'[b].stage \in {"registered", "queueing", "queued"}
         /\ x = <<b, e, baton'[b].type>>
  /\ \A x : x \in CallsMade' <=>
       \E b \in Batons : \E e \in baton'[b].on :
         /\ baton'[b].kind = "event" /\ baton'[b].stage = "called"
         /\ x = <<b, e, baton'[b].type, baton'[b].error>>
BY DEF PendingCalls, CallsMade, EventBatons

\* Registration on a wrapper with a handle is the contract's SetCallback; one
\* without is leaked, which the contract does not see.
LEMMA RegistrationStep ==
  ASSUME EventInv, InScript, NEW w \in Objects, NEW type \in Types, NEW b \in Batons,
         FreshBaton(b), SetCallback(w, type, b)
  PROVE  Promise!ContractNext \/ UNCHANGED Promise!cvars
<1>1. baton[b].kind = "none" /\ baton \in [Batons -> Batonic]
  BY DEF FreshBaton, Unused, NewBatonOf, EventInv, TypeOK
<1>2. /\ status' = status /\ mode' = mode /\ Alive' = Alive /\ Alive
      /\ \A c \in Batons : c # b => baton'[c] = baton[c]
  BY <1>1 DEF SetCallback, nativeVars, loopVars, Alive, InScript
<1>3. /\ baton'[b].kind = "event" /\ baton'[b].type = type /\ baton'[b].stage = RegisteredStage(w)
      /\ event[w] # NULL => baton'[b].on = {event[w]}
      /\ event[w] = NULL => baton'[b].on = {}
  BY <1>1 DEF SetCallback, NewBatonOf, RegisteredStage
<1>4. CASE event[w] # NULL
  <2>1. PICK e \in Events : e = event[w] /\ status[e] # 4
    BY <1>4 DEF EventInv, WrappersExact, TypeOK, Free
  <2>2. baton'[b].stage = "registered" /\ baton'[b].on = {e}
    BY <1>3, <1>4, <2>1 DEF RegisteredStage
  <2>3. CallsMade' = CallsMade
    <3>1. \A x : x \in CallsMade' <=> x \in CallsMade
      BY <1>1, <1>2, <2>2, MadeIs, CallsNext
    <3>. QED BY <3>1
  <2>4. PendingCalls' = PendingCalls \cup {<<b, e, type>>}
    <3>1. \A x : x \in PendingCalls => x \in PendingCalls'
      BY <1>1, <1>2, PendingIs, CallsNext
    <3>2. <<b, e, type>> \in PendingCalls'
      BY <1>3, <2>2, CallsNext
    <3>3. ASSUME NEW x \in PendingCalls' PROVE x \in PendingCalls \/ x = <<b, e, type>>
      <4>1. PICK c \in Batons : \E d \in baton'[c].on :
              /\ baton'[c].kind = "event" /\ baton'[c].stage \in {"registered", "queueing", "queued"}
              /\ x = <<c, d, baton'[c].type>>
        BY <3>3, CallsNext
      <4>2. CASE c = b
        BY <1>3, <2>2, <4>1, <4>2
      <4>3. CASE c # b
        BY <1>2, <4>1, <4>3, PendingIs
      <4>. QED BY <4>2, <4>3
    <3>. QED BY <3>1, <3>2, <3>3
  <2>5. Promise!Fresh(b)
    <3>1. \A p \in PendingCalls : p[1] # b
      BY <1>1, PendingIs
    <3>2. \A p \in CallsMade : p[1] # b
      BY <1>1, MadeIs
    <3>. QED BY <3>1, <3>2 DEF Promise!Fresh
  <2>6. type \in 0..2
    BY EventsAssumption
  <2>7. Promise!SetCallback(b, e, type)
    BY <1>2, <2>1, <2>4, <2>5 DEF Promise!SetCallback, Promise!NoEvent
  <2>. QED BY <1>2, <2>3, <2>6, <2>7 DEF Promise!ContractNext
<1>5. CASE event[w] = NULL
  <2>1. baton'[b].on = {}
    BY <1>3, <1>5
  <2>2. \A x : x \in CallsMade' <=> x \in CallsMade
    BY <1>1, <1>2, <2>1, MadeIs, CallsNext
  <2>3. \A x : x \in PendingCalls' <=> x \in PendingCalls
    BY <1>1, <1>2, <2>1, PendingIs, CallsNext
  <2>4. CallsMade' = CallsMade /\ PendingCalls' = PendingCalls
    BY <2>2, <2>3
  <2>. QED BY <1>2, <2>4 DEF Promise!cvars
<1>. QED BY <1>4, <1>5

\* HandleOKCallback of an EventWorker is the contract's Answer.
LEMMA AnswerStep ==
  ASSUME EventInv, NEW b \in Batons, HandleEvent(b)
  PROVE  Promise!ContractNext
<1>1. /\ Take(b, "event", "script") /\ UNCHANGED <<status, deps, user, event>>
      /\ mode = "poll" /\ mode' = "script"
  BY DEF HandleEvent, Take, Serve, nativeVars
<1>2. /\ baton[b].stage = "queued" /\ baton[b].kind = "event" /\ OnlyBaton(b)
      /\ baton'[b] = [baton[b] EXCEPT !.stage = "called"]
      /\ baton[b] \in Batonic /\ BatonExact(b)
  BY <1>1, TakenIsQueued DEF EventInv, TypeOK, BatonsExact
<1>3. PICK e \in Events : baton[b].on = {e} /\ ToldRight(b, e)
  BY <1>2 DEF BatonExact
<1>4. PICK type, error : type = baton[b].type /\ error = baton[b].error
  OBVIOUS
<1>5. /\ baton'[b].kind = "event" /\ baton'[b].stage = "called" /\ baton'[b].on = {e}
      /\ baton'[b].type = type /\ baton'[b].error = error
      /\ \A c \in Batons : c # b => baton'[c] = baton[c]
  BY <1>2, <1>3, <1>4 DEF OnlyBaton, Batonic
<1>6. <<b, e, type>> \in PendingCalls
  BY <1>2, <1>3, <1>4, PendingIs
<1>7. PendingCalls' = PendingCalls \ {<<b, e, type>>}
  <2>1. ASSUME NEW x \in PendingCalls' PROVE x \in PendingCalls /\ x # <<b, e, type>>
    BY <1>5, CallsNext, PendingIs
  <2>2. ASSUME NEW x \in PendingCalls, x # <<b, e, type>> PROVE x \in PendingCalls'
    <3>1. PICK c \in Batons : \E d \in baton[c].on :
            /\ baton[c].kind = "event" /\ baton[c].stage \in {"registered", "queueing", "queued"}
            /\ x = <<c, d, baton[c].type>>
      BY <2>2, PendingIs
    <3>2. c # b
      BY <1>3, <1>4, <2>2, <3>1
    <3>. QED BY <1>5, <3>1, <3>2, CallsNext
  <2>. QED BY <2>1, <2>2
<1>8. CallsMade' = CallsMade \cup {<<b, e, type, error>>}
  <2>1. <<b, e, type, error>> \in CallsMade'
    BY <1>5, CallsNext
  <2>2. \A x : x \in CallsMade => x \in CallsMade'
    BY <1>2, <1>5, MadeIs, CallsNext
  <2>3. ASSUME NEW x \in CallsMade' PROVE x \in CallsMade \/ x = <<b, e, type, error>>
    <3>1. PICK c \in Batons : \E d \in baton'[c].on :
            /\ baton'[c].kind = "event" /\ baton'[c].stage = "called"
            /\ x = <<c, d, baton'[c].type, baton'[c].error>>
      BY <2>3, CallsNext
    <3>2. CASE c = b
      BY <1>5, <3>1, <3>2
    <3>3. CASE c # b
      BY <1>5, <3>1, <3>3, MadeIs
    <3>. QED BY <3>2, <3>3
  <2>. QED BY <2>1, <2>2, <2>3
<1>9. error \in Promise!Truthful(type, status[e]) /\ status[e] <= type
  <2>1. type \in {0, 1, 2} /\ status[e] \in -1..4
    BY <1>2, <1>4 DEF Batonic, EventInv, TypeOK
  <2>. QED BY <1>3, <1>4, <2>1 DEF Promise!Truthful, ToldRight
<1>10. Promise!Call(<<b, e, type>>)
  BY <1>7, <1>8, <1>9 DEF Promise!Call
<1>11. Promise!Answer
  BY <1>1, <1>6, <1>10 DEF Promise!Answer, Alive
<1>. QED BY <1>11 DEF Promise!ContractNext

\* A worker of another kind is served, queued or run: nothing the contract sees.
LEMMA OtherBatonStep ==
  ASSUME NEW b \in Batons, \A c \in Batons : c # b => baton'[c] = baton[c],
         baton[b].kind # "event", baton'[b].kind # "event", status' = status, Alive' = Alive
  PROVE  UNCHANGED Promise!cvars
<1>1. \A c \in Batons : SameCalls(c)
  BY DEF SameCalls
<1>. QED BY <1>1, StutterStep

LEMMA SameBatonsStep ==
  ASSUME status' = status, Alive' = Alive, baton' = baton
  PROVE  UNCHANGED Promise!cvars
<1>1. \A c \in Batons : SameCalls(c)
  BY DEF SameCalls
<1>. QED BY <1>1, StutterStep

LEMMA QueuedBatonStep ==
  ASSUME EventInv, NEW b \in Batons, baton[b] = Unused, NEW kind \in {"wait", "finish"}, NEW ws, NEW on,
         QueueBaton(b, kind, ws, on), status' = status, Alive' = Alive
  PROVE  UNCHANGED Promise!cvars
<1>1. baton' = [baton EXCEPT ![b] = NewBatonOf(kind, "queued", ws, on, 0)]
  BY DEF QueueBaton
<1>2. baton[b].kind # "event" /\ baton \in [Batons -> Batonic]
  BY DEF Unused, NewBatonOf, EventInv, TypeOK
<1>3. baton'[b].kind # "event"
  BY <1>1, <1>2 DEF NewBatonOf
<1>. QED BY <1>1, <1>2, <1>3, OtherBatonStep

LEMMA CallbackStep ==
  ASSUME EventInv, NEW b \in Batons, EventCallback(b)
  PROVE  UNCHANGED Promise!cvars
<1>1. /\ baton \in [Batons -> Batonic] /\ baton[b] \in Batonic /\ baton[b].stage = "registered"
      /\ status' = status /\ Alive' = Alive
  BY DEF EventCallback, EventInv, TypeOK, nativeVars, Alive
<1>2. PICK error : baton' = [baton EXCEPT ![b].stage = "queueing", ![b].error = error]
  BY DEF EventCallback
<1>3. /\ baton'[b].kind = baton[b].kind /\ baton'[b].on = baton[b].on
      /\ baton'[b].type = baton[b].type /\ baton'[b].stage = "queueing"
      /\ \A c \in Batons : c # b => baton'[c] = baton[c]
  BY <1>1, <1>2 DEF Batonic
<1>4. \A c \in Batons : SameCalls(c)
  BY <1>1, <1>3 DEF SameCalls
<1>. QED BY <1>1, <1>4, StutterStep

LEMMA ReturningStep ==
  ASSUME EventInv, NEW b \in Batons, CallbackReturns(b)
  PROVE  UNCHANGED Promise!cvars
<1>1. /\ baton \in [Batons -> Batonic] /\ baton[b].stage = "queueing"
      /\ baton' = [baton EXCEPT ![b].stage = "queued"]
      /\ status' = status /\ Alive' = Alive
  BY DEF CallbackReturns, EventInv, TypeOK, nativeVars, Alive
<1>2. \A c \in Batons : SameCalls(c)
  BY <1>1 DEF SameCalls, Batonic
<1>. QED BY <1>1, <1>2, StutterStep

LEMMA ServedStep ==
  ASSUME EventInv, NEW b \in Batons, HandleWait(b) \/ HandleFinish(b)
  PROVE  UNCHANGED Promise!cvars
<1>1. PICK kind \in {"wait", "finish"}, next \in {"script", "blocked"} :
        Take(b, kind, next) /\ UNCHANGED <<status, deps, user, event>>
  BY DEF HandleWait, HandleFinish, nativeVars, objectVars
<1>2. /\ baton[b].kind = kind /\ OnlyBaton(b) /\ baton'[b] = [baton[b] EXCEPT !.stage = "called"]
      /\ baton[b] \in Batonic
  BY <1>1, TakenIsQueued DEF EventInv, TypeOK
<1>3. baton[b].kind # "event" /\ baton'[b].kind # "event"
  BY <1>2 DEF Batonic
<1>4. status' = status /\ Alive' = Alive
  BY <1>1 DEF Alive, Take, Serve
<1>. QED BY <1>2, <1>3, <1>4, OtherBatonStep DEF OnlyBaton

LEMMA StepAllowed ==
  ASSUME EventInv, [Next]_vars
  PROVE  [Promise!ContractNext]_(Promise!cvars)
<1>. SUFFICES Promise!ContractNext \/ UNCHANGED Promise!cvars
  OBVIOUS
<1>1. CASE Script
  <2>1. InScript
    BY <1>1 DEF Script
  <2>2. CASE \E e \in Events : NewCommand(e)
    <3>1. PICK e \in Events, s \in -1..3 : Advance(e, s) /\ UNCHANGED <<baton, loopVars>>
      <4>1. PICK e \in Events : FreshEvent(e) /\
              ((\E w \in Wrappers, L \in SUBSET Objects : Enqueue(w, L, e))
               \/ \E w \in UserWrappers : CreateUserEvent(w, e))
        BY <2>2 DEF NewCommand
      <4>2. CASE \E w \in Wrappers, L \in SUBSET Objects : Enqueue(w, L, e)
        <5>1. PICK w \in Wrappers, L \in SUBSET Objects : Enqueue(w, L, e)
          BY <4>2
        <5>2. Advance(e, 3) /\ UNCHANGED <<baton, loopVars>>
          BY <4>1, <5>1, EnqueueStep DEF Enqueue
        <5>. QED BY <5>2
      <4>3. CASE \E w \in UserWrappers : CreateUserEvent(w, e)
        <5>1. PICK w \in UserWrappers : CreateUserEvent(w, e)
          BY <4>3
        <5>2. Advance(e, 2) /\ UNCHANGED <<baton, loopVars>>
          BY <4>1, <5>1, CreateUserEventStep DEF CreateUserEvent
        <5>. QED BY <5>2
      <4>. QED BY <4>1, <4>2, <4>3
    <3>. QED BY <3>1, ProgressStep
  <2>3. CASE \E b \in Batons : NewBaton(b)
    <3>1. PICK b \in Batons : FreshBaton(b) /\
            ((\E w \in Objects, type \in Types : SetCallback(w, type, b))
             \/ \E L \in SUBSET Objects : WaitForEventsAsync(L, b))
      BY <2>3 DEF NewBaton
    <3>2. CASE \E w \in Objects, type \in Types : SetCallback(w, type, b)
      BY <2>1, <3>1, <3>2, RegistrationStep
    <3>3. CASE \E L \in SUBSET Objects : WaitForEventsAsync(L, b)
      <4>1. PICK L \in SUBSET Objects : WaitForEventsAsync(L, b)
        BY <3>3
      <4>2. /\ QueueBaton(b, "wait", L, {event[v] : v \in L}) /\ baton[b] = Unused
            /\ status' = status /\ Alive' = Alive
        BY <3>1, <4>1 DEF WaitForEventsAsync, nativeVars, Alive, FreshBaton
      <4>. QED BY <4>2, QueuedBatonStep
    <3>. QED BY <3>1, <3>2, <3>3
  <2>4. CASE \E w \in UserWrappers, s \in {Complete, Failed} : SetStatus(w, s)
    <3>1. PICK w \in UserWrappers, s \in {Complete, Failed} : SetStatus(w, s)
      BY <2>4
    <3>2. event[w] \in Events /\ Advance(event[w], s) /\ s \in -1..3
      BY <3>1, SetStatusStep DEF Complete, Failed
    <3>3. UNCHANGED <<baton, loopVars>>
      BY <3>1 DEF SetStatus
    <3>. QED BY <3>2, <3>3, ProgressStep
  <2>5. CASE \E w \in Objects : Release(w)
    BY <2>5, SameBatonsStep DEF Release, nativeVars, loopVars, Alive
  <2>6. CASE \E L \in SUBSET Objects : WaitForEvents(L)
    BY <2>1, <2>6, SameBatonsStep DEF WaitForEvents, BlockOn, InScript, Alive
  <2>7. CASE \E then \in Batons \cup {NULL} : Finish(then)
    BY <2>1, <2>7, SameBatonsStep DEF Finish, BlockOn, InScript, Alive
  <2>8. CASE Flush
    BY <2>8, SameBatonsStep DEF Flush, loopVars, Alive
  <2>. HIDE DEF EventInv
  <2>. QED BY <1>1, <2>2, <2>3, <2>4, <2>5, <2>6, <2>7, <2>8 DEF Script
<1>2. CASE Unblock
  <2>1. status' = status /\ Alive' = Alive
    BY <1>2 DEF Unblock, nativeVars, Alive
  <2>2. CASE block.then = NULL
    BY <1>2, <2>1, <2>2, SameBatonsStep DEF Unblock
  <2>3. CASE block.then # NULL
    <3>1. /\ block.then \in Batons /\ baton[block.then] = Unused
          /\ QueueBaton(block.then, "finish", {}, block.on)
      BY <1>2, <2>3 DEF Unblock, EventInv, TypeOK, BlockExact
    <3>. QED BY <2>1, <3>1, QueuedBatonStep
  <2>. QED BY <2>2, <2>3
<1>3. CASE ScriptReturns
  <2>1. status' = status /\ Alive' = Alive /\ baton' = baton
    BY <1>3 DEF ScriptReturns, Return, InScript, nativeVars, Alive
  <2>. QED BY <2>1, SameBatonsStep
<1>4. CASE Exit
  <2>1. status' = status /\ Alive /\ Alive' = FALSE /\ baton' = baton
    BY <1>4 DEF Exit, Leave, nativeVars, Alive
  <2>2. PendingCalls' = PendingCalls /\ CallsMade' = CallsMade
    BY <2>1, CallsStay DEF SameCalls
  <2>. QED BY <2>1, <2>2 DEF Promise!ContractNext, Promise!Exit
<1>5. CASE Submission \/ Command
  <2>1. PICK e \in Commands, s \in -1..3 : s < status[e] /\ status[e] > 0 /\ CommandStep(e, s)
    BY <1>5, RuntimeStep
  <2>2. e \in Events /\ Advance(e, s) /\ UNCHANGED <<baton, loopVars>>
    BY <2>1 DEF Commands, CommandStep, Advance
  <2>. QED BY <2>2, ProgressStep
<1>6. CASE Callback
  BY <1>6, CallbackStep, ReturningStep DEF Callback
<1>7. CASE Pool
  <2>1. status' = status /\ Alive' = Alive /\ baton' = baton
    BY <1>7 DEF Pool, PoolRuns, Execute, nativeVars, Alive
  <2>. QED BY <2>1, SameBatonsStep
<1>8. CASE Handle
  BY <1>8, AnswerStep, ServedStep DEF Handle
<1>9. CASE Terminated \/ UNCHANGED vars
  <2>1. status' = status /\ Alive' = Alive /\ baton' = baton
    BY <1>9 DEF Terminated, vars, nativeVars, loopVars, Alive
  <2>. QED BY <2>1, SameBatonsStep
<1>. HIDE DEF EventInv
<1>. QED BY <1>1, <1>2, <1>3, <1>4, <1>5, <1>6, <1>7, <1>8, <1>9 DEF Next

LEMMA InitAllowed == Init => Promise!ContractInit
<1>. SUFFICES ASSUME Init PROVE Promise!ContractInit
  OBVIOUS
<1>1. \A b \in Batons : baton[b].kind = "none"
  BY DEF Init, Unused, NewBatonOf
<1>2. PendingCalls = {} /\ CallsMade = {}
  BY <1>1 DEF PendingCalls, CallsMade, EventBatons
<1>3. Alive = TRUE
  BY DEF Init, LoopInit, Alive
<1>. QED BY <1>2, <1>3 DEF Init, Free, Promise!ContractInit, Promise!NoEvent

\* The threads implement what setCallback promises, but for its liveness: each
\* callback is called at most once, not before its event is there, and with a
\* status the event had.
THEOREM CallbacksAreSafe == Spec => Promise!ContractInit /\ [][Promise!ContractNext]_(Promise!cvars)
<1>1. Init => Promise!ContractInit
  BY InitAllowed
<1>2. EventInv /\ [Next]_vars => [Promise!ContractNext]_(Promise!cvars)
  BY StepAllowed
<1>. QED BY <1>1, <1>2, EventInvariant, PTL DEF Spec

=============================================================================
