------------------------------- MODULE EventLoop -------------------------------
(***************************************************************************)
(* The event loop that serves the workers of this addon, as the addon uses *)
(* it: NanAsyncQueueWorker gives a worker to libuv's pool, a thread of the *)
(* pool runs its empty Execute() and puts it on the loop's list of         *)
(* completed work, the loop calls HandleOKCallback and deletes the worker. *)
(* WebCLEvents and ProgramBuild say what the workers do.                   *)
(***************************************************************************)
EXTENDS Integers, Sequences

VARIABLES
  mode,       \* the main thread: "script", "poll", "blocked" or "exited"
  pool,       \* workers a thread of the pool has still to run
  done,       \* the loop's list of completed workers
  active,     \* workers on the loop's list of active requests: they keep it alive
  inserting,  \* workers a thread of the runtime is putting on that list
  intact      \* no two threads have damaged that list by using it at once

queueVars == <<pool, done, active, inserting, intact>>
loopVars  == <<mode, queueVars>>

InScript == mode = "script"
Alive    == mode # "exited"

\* The list of active requests has no lock.  An operation on it while a thread of
\* the runtime is at it may leave it well, or lose entries, of either thread, or
\* point to freed ones.
Touch == intact' \in IF inserting = {} THEN {intact} ELSE {intact, FALSE}

\* The request of worker b, on the lists of libuv.
Enter(b) ==
  /\ pool' = pool \cup {b}
  /\ active' = active \cup {b}

\* NanAsyncQueueWorker, on the main thread.  One step stands for the whole call:
\* where it overlaps that of another thread, it falls between the other's two.
QueueWork(b) ==
  /\ Enter(b) /\ Touch
  /\ UNCHANGED <<done, inserting>>

\* NanAsyncQueueWorker, on a thread of the OpenCL runtime: it comes to the list,
\* and it leaves it.
StartQueueing(b) ==
  /\ inserting' = inserting \cup {b}
  /\ Touch
  /\ UNCHANGED <<pool, done, active>>

EndQueueing(b) ==
  /\ b \in inserting
  /\ inserting' = inserting \ {b}
  /\ Enter(b)
  /\ UNCHANGED <<done, intact>>

\* A thread of the pool runs the empty Execute().
Execute(b) ==
  /\ Alive
  /\ b \in pool
  /\ pool' = pool \ {b}
  /\ done' = Append(done, b)
  /\ UNCHANGED <<mode, active, inserting, intact>>

\* The loop takes the next completed worker off its lists, calls its
\* HandleOKCallback and leaves the main thread in mode next.
Serve(b, next) ==
  /\ mode = "poll" /\ done # <<>>
  /\ b = Head(done)
  /\ done' = Tail(done)
  /\ active' = active \ {b}
  /\ mode' = next
  /\ Touch
  /\ UNCHANGED <<pool, inserting>>

\* The script's turn ends: the worker is deleted, the loop goes on.
Return ==
  /\ InScript
  /\ mode' = "poll"
  /\ UNCHANGED queueVars

\* Mutation: the loop ends whatever requests are active.
LoopAlways == TRUE

\* The loop ends when no request is active: a callback the runtime has still to
\* call does not keep it alive.  (Timers and sockets of the script may: then
\* this step is not taken.)
LoopIsDead == active = {}

\* A damaged list may look empty, and may bring the process down anywhere.
Leave ==
  /\ \/ mode = "poll" /\ LoopIsDead
     \/ Alive /\ ~intact
  /\ mode' = "exited"
  /\ UNCHANGED queueVars

LoopInit ==
  /\ mode = "script"
  /\ pool = {} /\ done = <<>> /\ active = {}
  /\ inserting = {} /\ intact = TRUE

LoopTypeOK(Workers) ==
  /\ mode \in {"script", "poll", "blocked", "exited"}
  /\ pool \in SUBSET Workers
  /\ done \in Seq(Workers)
  /\ active \in SUBSET Workers /\ inserting \in SUBSET Workers
  /\ intact \in BOOLEAN

=============================================================================
