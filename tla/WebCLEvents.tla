------------------------------ MODULE WebCLEvents ------------------------------
(***************************************************************************)
(* Events, event callbacks and waiting in node-webcl.                      *)
(*                                                                         *)
(* Four kinds of threads meet here.  The main thread runs the event loop   *)
(* and, in it, the script's turns; it is the only one that may touch V8.   *)
(* The OpenCL runtime's threads execute commands and call Event::callback, *)
(* which hands the call to libuv's thread pool as a worker (a Baton inside *)
(* a NanAsyncWorker); the pool runs Execute(), empty in every worker of    *)
(* this addon, and puts the worker on the loop's list of completed work;   *)
(* the loop takes it from there and runs HandleOKCallback, which calls the *)
(* script.  waitForEvents and finish block the main thread.                *)
(***************************************************************************)
EXTENDS EventLoop, FiniteSets

CONSTANTS
  Wrappers,       \* WebCLEvent objects of the script, made with new WebCLEvent()
  UserWrappers,   \* WebCLUserEvent objects
  MaxEvents,      \* bound: native events created in a run
  MaxBatons,      \* bound: asynchronous calls made in a run
  Types,          \* the statuses setCallback is called for
  AsyncWaits,     \* does the script pass a callback to waitForEvents?
  NULL

ASSUME EventsAssumption ==
  /\ MaxEvents \in Nat /\ MaxBatons \in Nat
  /\ Wrappers \cap UserWrappers = {}
  /\ Types \subseteq {0, 1, 2}
  /\ AsyncWaits \in BOOLEAN
  /\ NULL \notin 1..MaxEvents \cup 1..MaxBatons

Objects == Wrappers \cup UserWrappers
Events  == 1..MaxEvents
Batons  == 1..MaxBatons

\* cl_int execution statuses; Free is that of an event not created yet.
Failed    == -1
Complete  == 0
Running   == 1
Submitted == 2
Queued    == 3
Free      == 4

VARIABLES
  status,     \* status[e]: execution status of native event e
  deps,       \* deps[e]: events e's command waits for, directly or not
  user,       \* the native events that are user events
  flushed,    \* queued commands the runtime has been told to get on with
  event,      \* event[w]: the wrapper's native handle, NULL for 0
  wstatus,    \* wstatus[w]: Event::status, what JavaScript reads as ev.status
  baton,      \* baton[b]: a Baton with its worker
  block       \* what a blocked main thread waits for, and the finish() callback

nativeVars == <<status, deps, user, flushed>>
objectVars == <<event, wstatus>>
vars == <<nativeVars, objectVars, baton, block, loopVars>>

\* A Baton as it is made, its error still CL_SUCCESS.
NewBatonOf(kind, stage, ws, on, type) ==
  [kind |-> kind, stage |-> stage, ws |-> ws, on |-> on, type |-> type, error |-> 0]
Unused == NewBatonOf("none", "unused", {}, {}, 0)
NotBlocked == [on |-> {}, then |-> NULL]

FreshEvent(e) == status[e] = Free /\ \A d \in 1..(e - 1) : status[d] # Free
FreshBaton(b) == baton[b] = Unused /\ \A c \in 1..(b - 1) : baton[c] # Unused

Commands == {e \in Events : status[e] # Free} \ user
Waiting  == {e \in Commands : status[e] = Queued}
\* clWaitForEvents and clFinish wait until the event has completed or failed.
Over(e) == status[e] <= Complete

\* Events that cannot end before the script sets a user event.
Gated(e) == \E d \in {e} \cup deps[e] : d \in user /\ ~Over(d)

\* Callbacks the runtime has still to call for event e, or is in.
Registered(e) ==
  {b \in Batons : baton[b].stage \in {"registered", "queueing"} /\ e \in baton[b].on}

-----------------------------------------------------------------------------
(* The script's calls, made in its turns (Script, below) *)

\* MakeEventWaitList: every event of the list has a handle and none has failed,
\* as far as the wrapper knows.  The context check is not modelled.
AcceptsWaitList(L) == \A v \in L : event[v] # NULL /\ wstatus[v] >= 0

\* queue.enqueueX(..., waitList, w): on a rejected list the call throws and
\* nothing changes.  setEvent overwrites the handle and leaves the status.
Enqueue(w, L, e) ==
  LET on == {event[v] : v \in L}
  IN  /\ AcceptsWaitList(L)
      /\ status' = [status EXCEPT ![e] = Queued]
      /\ deps' = [deps EXCEPT ![e] = on \cup UNION {deps[d] : d \in on}]
      /\ event' = [event EXCEPT ![w] = e]
      /\ UNCHANGED <<user, flushed, wstatus, baton, block, loopVars>>

\* context.createUserEvent()
CreateUserEvent(w, e) ==
  /\ event[w] = NULL
  /\ status' = [status EXCEPT ![e] = Submitted]
  /\ user' = user \cup {e}
  /\ event' = [event EXCEPT ![w] = e]
  /\ wstatus' = [wstatus EXCEPT ![w] = Complete]
  /\ UNCHANGED <<deps, flushed, baton, block, loopVars>>

\* Mutation: the wrapper's status is set before the native call's result is known.
SetStatusUnchecked(w, s) ==
  /\ event[w] # NULL
  /\ status' = [status EXCEPT ![event[w]] = IF Over(event[w]) THEN @ ELSE s]
  /\ wstatus' = [wstatus EXCEPT ![w] = s]
  /\ UNCHANGED <<deps, user, flushed, event, baton, block, loopVars>>

\* userEvent.setStatus(s): a second call throws and changes nothing.
SetStatus(w, s) ==
  /\ event[w] # NULL /\ ~Over(event[w])
  /\ status' = [status EXCEPT ![event[w]] = s]
  /\ wstatus' = [wstatus EXCEPT ![w] = s]
  /\ UNCHANGED <<deps, user, flushed, event, baton, block, loopVars>>

\* Mutation: setCallback takes the registration for granted.
RegisteredStageAlways(w) == "registered"

\* What becomes of the baton: the runtime rejects a wrapper without handle.
RegisteredStage(w) == IF event[w] = NULL THEN "leaked" ELSE "registered"

\* ev.setCallback(type, f): the baton keeps the wrapper from being collected.
\* When the runtime rejects the call (no handle) the baton is leaked.
SetCallback(w, type, b) ==
  /\ baton' = [baton EXCEPT ![b] =
       NewBatonOf("event", RegisteredStage(w), {w},
                  IF RegisteredStage(w) = "registered" THEN {event[w]} ELSE {}, type)]
  /\ UNCHANGED <<nativeVars, objectVars, block, loopVars>>

\* ev.release(), called once nothing of the runtime uses the event any more.
\* (WebCLObjects has the general case.)
Release(w) ==
  /\ event[w] # NULL /\ Over(event[w]) /\ Registered(event[w]) = {}
  /\ event' = [event EXCEPT ![w] = NULL]
  /\ UNCHANGED <<nativeVars, wstatus, baton, block, loopVars>>

\* queue.flush()
Flush ==
  /\ flushed' = Waiting
  /\ UNCHANGED <<status, deps, user, objectVars, baton, block, loopVars>>

\* A baton made and given to libuv on the main thread.
QueueBaton(b, kind, ws, on) ==
  /\ baton' = [baton EXCEPT ![b] = NewBatonOf(kind, "queued", ws, on, 0)]
  /\ QueueWork(b)

\* clWaitForEvents and clFinish submit what is queued and stop the thread.
BlockOn(on, then) ==
  /\ block' = [on |-> on, then |-> then]
  /\ flushed' = Waiting

\* Mutation: the wait spins on getInfo instead of calling clWaitForEvents.
WaitForEventsSpinning(L) ==
  /\ L # {} /\ \A v \in L : event[v] # NULL /\ ~Gated(event[v])
  /\ mode' = "blocked"
  /\ block' = [on |-> {event[v] : v \in L}, then |-> NULL]
  /\ UNCHANGED <<nativeVars, objectVars, baton, queueVars>>

\* webcl.waitForEvents(list).  The script does not wait for itself: no event of
\* the list hangs on a user event it has still to set.
WaitForEvents(L) ==
  /\ L # {} /\ \A v \in L : event[v] # NULL /\ ~Gated(event[v])
  /\ mode' = "blocked"
  /\ BlockOn({event[v] : v \in L}, NULL)
  /\ UNCHANGED <<status, deps, user, objectVars, baton, queueVars>>

\* webcl.waitForEvents(list, f)
WaitForEventsAsync(L, b) ==
  /\ L # {} /\ \A v \in L : event[v] # NULL
  /\ QueueBaton(b, "wait", L, {event[v] : v \in L})
  /\ UNCHANGED <<nativeVars, objectVars, mode, block>>

\* queue.finish() and queue.finish(f): clFinish comes first in both.
Finish(then) ==
  /\ \A e \in Commands : ~Gated(e)
  /\ then # NULL => FreshBaton(then)
  /\ mode' = "blocked"
  /\ BlockOn(Commands, then)
  /\ UNCHANGED <<status, deps, user, objectVars, baton, queueVars>>

\* The blocking native call returns.
Unblock ==
  /\ mode = "blocked"
  /\ \A e \in block.on : Over(e)
  /\ mode' = "script"
  /\ block' = NotBlocked
  /\ IF block.then = NULL
     THEN UNCHANGED <<baton, queueVars>>
     ELSE QueueBaton(block.then, "finish", {}, block.on)
  /\ UNCHANGED <<nativeVars, objectVars>>

-----------------------------------------------------------------------------
(* The runtime and its callback *)

CommandStep(e, s) ==
  /\ status' = [status EXCEPT ![e] = s]
  /\ flushed' = flushed \ {e}
  /\ UNCHANGED <<deps, user, objectVars, baton, block, loopVars>>

Submit(e) == e \in Waiting /\ CommandStep(e, Submitted)

Start(e) ==
  /\ e \in Commands /\ status[e] = Submitted
  /\ \A d \in deps[e] : status[d] = Complete
  /\ CommandStep(e, Running)

End(e) ==
  /\ e \in Commands /\ status[e] = Running
  /\ CommandStep(e, Complete) \/ CommandStep(e, Failed)

\* A command that waits for a failed event fails.
Abort(e) ==
  /\ e \in Commands /\ status[e] = Submitted
  /\ \E d \in deps[e] : status[d] = Failed
  /\ CommandStep(e, Failed)

\* Mutation: the status is not copied to the baton, which keeps CL_SUCCESS.
ToldSuccess(e, type) == Complete

\* The status the runtime passes to the callback.
Told(e, type) == IF status[e] < 0 THEN status[e] ELSE type

\* Event::callback, on a thread of the runtime: it writes the status and comes to
\* the loop's list,
EventCallback(b) ==
  LET e == CHOOSE d \in baton[b].on : TRUE
  IN  /\ Alive
      /\ baton[b].stage = "registered" /\ status[e] <= baton[b].type
      /\ baton' = [baton EXCEPT
           ![b].stage = "queueing",
           ![b].error = Told(e, baton[b].type)]
      /\ StartQueueing(b)
      /\ UNCHANGED <<nativeVars, objectVars, mode, block>>

\* and it has queued the worker and returns.
CallbackReturns(b) ==
  /\ Alive
  /\ baton[b].stage = "queueing"
  /\ baton' = [baton EXCEPT ![b].stage = "queued"]
  /\ EndQueueing(b)
  /\ UNCHANGED <<nativeVars, objectVars, mode, block>>

-----------------------------------------------------------------------------
(* The event loop *)

PoolRuns(b) == Execute(b) /\ UNCHANGED <<nativeVars, objectVars, baton, block>>

\* The loop takes a worker of this kind and leaves the main thread in mode next.
Take(b, kind, next) ==
  /\ Serve(b, next)
  /\ baton[b].kind = kind
  /\ baton' = [baton EXCEPT ![b].stage = "called"]

\* EventWorker::HandleOKCallback: e->setStatus(baton->error), then the script.
HandleEvent(b) ==
  /\ Take(b, "event", "script")
  /\ wstatus' = [w \in Objects |-> IF w \in baton[b].ws THEN baton[b].error ELSE wstatus[w]]
  /\ UNCHANGED <<nativeVars, event, block>>

\* WaitForEventsWorker::HandleOKCallback: the handles are read now, and it is
\* now that clWaitForEvents is called; it rejects a list with a released event.
HandleWait(b) ==
  LET on == {event[w] : w \in baton[b].ws}
  IN  /\ IF NULL \in on
         THEN Take(b, "wait", "script") /\ UNCHANGED <<block, flushed>>
         ELSE Take(b, "wait", "blocked") /\ BlockOn(on, NULL)
      /\ UNCHANGED <<status, deps, user, objectVars>>

\* FinishWorker::HandleOKCallback
HandleFinish(b) ==
  /\ Take(b, "finish", "script")
  /\ UNCHANGED <<nativeVars, objectVars, block>>

ScriptReturns == Return /\ UNCHANGED <<nativeVars, objectVars, baton, block>>

Exit == Leave /\ UNCHANGED <<nativeVars, objectVars, baton, block>>

Terminated == ~Alive /\ UNCHANGED vars

-----------------------------------------------------------------------------

Init ==
  /\ status = [e \in Events |-> Free]
  /\ deps = [e \in Events |-> {}]
  /\ user = {} /\ flushed = {}
  /\ event = [w \in Objects |-> NULL]
  /\ wstatus = [w \in Objects |-> Complete]
  /\ baton = [b \in Batons |-> Unused]
  /\ block = NotBlocked
  /\ LoopInit

NewCommand(e) ==
  /\ FreshEvent(e)
  /\ \/ \E w \in Wrappers, L \in SUBSET Objects : Enqueue(w, L, e)
     \/ \E w \in UserWrappers : CreateUserEvent(w, e)

NewBaton(b) ==
  /\ FreshBaton(b)
  /\ \/ \E w \in Objects, type \in Types : SetCallback(w, type, b)
     \/ AsyncWaits /\ \E L \in SUBSET Objects : WaitForEventsAsync(L, b)

Script ==
  /\ InScript
  /\ \/ \E e \in Events : NewCommand(e)
     \/ \E b \in Batons : NewBaton(b)
     \/ \E w \in UserWrappers, s \in {Complete, Failed} : SetStatus(w, s)
     \/ \E w \in Objects : Release(w)
     \/ \E L \in SUBSET Objects : WaitForEvents(L)
     \/ \E then \in Batons \cup {NULL} : Finish(then)
     \/ Flush

Submission == Alive /\ \E e \in Waiting : Submit(e)
Command    == Alive /\ \E e \in Commands : Start(e) \/ End(e) \/ Abort(e)
Callback   == \E b \in Batons : EventCallback(b) \/ CallbackReturns(b)
Pool       == \E b \in pool : PoolRuns(b)

Handle == \E b \in Batons : HandleEvent(b) \/ HandleWait(b) \/ HandleFinish(b)

Next ==
  \/ Script
  \/ Unblock
  \/ ScriptReturns
  \/ Submission
  \/ Command
  \/ Callback
  \/ Pool
  \/ Handle
  \/ Exit
  \/ Terminated

\* The runtime submits what was flushed, runs commands that can run and calls
\* back; the pool and the loop go on while they have work; a turn of the script
\* ends.  No event, worker or callback needs to be preferred: their number is
\* finite.  The script owes no call, and the loop no exit.
Fairness ==
  /\ WF_vars(Alive /\ \E e \in flushed : Submit(e))
  /\ WF_vars(Command) /\ WF_vars(Callback) /\ WF_vars(Pool)
  /\ WF_vars(Unblock) /\ WF_vars(Handle)
  /\ SF_vars(ScriptReturns)

Spec == Init /\ [][Next]_vars /\ Fairness

-----------------------------------------------------------------------------
(* Properties *)

Batonic == [kind : {"none", "event", "wait", "finish"},
            stage : {"unused", "leaked", "registered", "queueing", "queued", "called"},
            ws : SUBSET Objects, on : SUBSET Events, type : {0, 1, 2}, error : -1..2]

TypeOK ==
  /\ status \in [Events -> -1..4]
  /\ deps \in [Events -> SUBSET Events]
  /\ user \in SUBSET Events /\ flushed \in SUBSET Events
  /\ event \in [Objects -> Events \cup {NULL}]
  /\ wstatus \in [Objects -> -1..2]
  /\ baton \in [Batons -> Batonic]
  /\ LoopTypeOK(Batons)
  /\ block \in [on : SUBSET Events, then : Batons \cup {NULL}]

\* What setCallback promises (CallbackContract) is what the runtime's threads,
\* the pool and the loop do between them.
EventBatons(stages) == {b \in Batons : baton[b].kind = "event" /\ baton[b].stage \in stages}

PendingCalls == UNION {{<<b, e, baton[b].type>> : e \in baton[b].on} :
                         b \in EventBatons({"registered", "queueing", "queued"})}
CallsMade    == UNION {{<<b, e, baton[b].type, baton[b].error>> : e \in baton[b].on} :
                         b \in EventBatons({"called"})}

Promise == INSTANCE CallbackContract WITH
  Callbacks <- Batons,
  status    <- status,
  pending   <- PendingCalls,
  called    <- CallsMade,
  alive     <- Alive

CallbacksKept == Promise!Contract

\* A wrapper that says "failed" has stood for an event that did: it was told so
\* by a callback, or the script failed the user event itself.
FailureIsReal ==
  \A w \in Objects : wstatus[w] < 0 =>
    \/ \E b \in Batons : /\ baton[b].stage = "called" /\ w \in baton[b].ws
                         /\ \E e \in baton[b].on : status[e] < 0
    \/ w \in UserWrappers /\ \E e \in user : status[e] < 0

\* A worker that was given to libuv, by the main thread or by one of the runtime,
\* is served before the loop ends, unless an unlocked insertion by a thread of the
\* runtime met another use of the loop's list.
LoopWorkServed ==
  (~Alive /\ intact) => \A b \in Batons : baton[b].stage # "queued"

\* A script that does not wait for itself is never stuck in waitForEvents or
\* finish.
BlockedReturns == mode = "blocked" ~> mode # "blocked"

\* src/src/webcl.cc: HandleOKCallback is "Executed when the async work is
\* complete": the events of waitForEvents(list, f) are over when it starts.
AsyncWaitIsDone ==
  \A b \in Batons : (baton[b].kind = "wait" /\ baton[b].stage = "called") =>
    \A e \in baton[b].on : Over(e)

=============================================================================
