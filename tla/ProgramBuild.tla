------------------------------ MODULE ProgramBuild ------------------------------
(***************************************************************************)
(* Building a program (program.cc): WebCLProgram.build with and without a  *)
(* callback, the runtime's compilation for each device, Program::callback  *)
(* on a thread of the runtime, which reads the devices' statuses one by    *)
(* one, and the ProgramWorker that brings the result to the event loop.    *)
(* Meanwhile the script may build again, make kernels, release the program *)
(* or lose its wrapper, which the baton does not keep alive.               *)
(***************************************************************************)
EXTENDS EventLoop

CONSTANTS
  NumDevices,   \* devices of the program; one more exists that is not of it
  MaxBuilds     \* bound: calls of build that reach the runtime

ASSUME BuildAssumption == NumDevices \in Nat \ {0} /\ MaxBuilds \in Nat

Devices    == 1..NumDevices
AllDevices == 1..(NumDevices + 1)
Builds     == 1..MaxBuilds

\* cl_build_status
Success    == 0
None       == -1
Error      == -2
InProgress == -3

VARIABLES
  status,     \* status[d]: the program's CL_PROGRAM_BUILD_STATUS on device d
  live,       \* the native program exists
  refs,       \* references to it that belong to the script: 1 or 0
  kernels,    \* its kernels
  handle,     \* Program::program of a wrapper the script can still reach
  build,      \* build[b]: a call of build, with its baton and worker
  built,      \* history: devices the program was once built for
  careful     \* the script: does it build for all devices, one build at a time,
              \* and release the program only between builds?

nativeVars == <<status, live, refs, kernels>>
vars == <<nativeVars, handle, build, built, careful, loopVars>>

Unused == [stage |-> "unused", notify |-> FALSE, left |-> {}, failed |-> FALSE,
           next |-> 1, error |-> Success, lost |-> FALSE]

FreshBuild(b) == build[b] = Unused /\ \A c \in 1..(b - 1) : build[c] # Unused
InFlight(b)   == build[b].stage \in {"building", "reading", "queueing", "queued"}
BuildsRest    == \A b \in Builds : ~InFlight(b)

-----------------------------------------------------------------------------
(* The script's calls, made in its turns *)

\* build's check: each device of the list is one of the program's.  (No list at
\* all stands for Devices: the check has nothing to compare then, and the runtime
\* builds for all.)
DevicesOfProgram(on) == on \subseteq Devices

\* clBuildProgram's own conditions: a list that is there is not empty, no
\* kernel is attached, no device of it is being built for.
RuntimeBuilds(on) ==
  /\ live /\ kernels = 0
  /\ on # {} /\ \A d \in on : status[d] # InProgress

\* A call the runtime rejects throws; the baton, if there is one, is leaked.
BuildRejected(b, notify) ==
  /\ notify
  /\ build' = [build EXCEPT ![b] = [Unused EXCEPT !.stage = "leaked", !.notify = TRUE]]
  /\ UNCHANGED <<status, mode>>

\* Without a callback clBuildProgram returns when the build is over.
BuildStarts(b, on, notify) ==
  /\ build' = [build EXCEPT ![b] =
       [Unused EXCEPT !.stage = "building", !.notify = notify, !.left = on]]
  /\ status' = [d \in Devices |-> IF d \in on THEN InProgress ELSE status[d]]
  /\ mode' = IF notify THEN "script" ELSE "blocked"

\* program.build(on, options, f): f may be left out.
Build(b, on, notify) ==
  /\ handle
  /\ DevicesOfProgram(on)
  /\ careful => on = Devices /\ BuildsRest /\ refs = 1
  /\ IF RuntimeBuilds(on) THEN BuildStarts(b, on, notify) ELSE BuildRejected(b, notify)
  /\ UNCHANGED <<live, refs, kernels, handle, built, careful, queueVars>>

\* program.createKernel, createKernelsInProgram: some device has an executable.
CreateKernel ==
  /\ handle /\ live /\ kernels = 0
  /\ \E d \in Devices : status[d] = Success
  /\ kernels' = 1
  /\ UNCHANGED <<status, live, refs, handle, build, built, careful, loopVars>>

ReleaseKernel ==
  /\ kernels = 1
  /\ kernels' = 0
  /\ UNCHANGED <<status, live, refs, handle, build, built, careful, loopVars>>

\* program.release(): the count that was read says 1 when nothing else, such as
\* a kernel or a build, has a reference.  Which of them do is the runtime's
\* affair, as is the moment the program is freed.
Release ==
  /\ handle /\ refs = 1
  /\ careful => BuildsRest
  /\ refs' = 0
  /\ handle' \in IF kernels = 0 /\ BuildsRest THEN {FALSE} ELSE BOOLEAN
  /\ UNCHANGED <<status, live, kernels, build, built, careful, loopVars>>

\* Mutation: ~Program calls Destructor().
CollectAndRelease ==
  /\ handle
  /\ handle' = FALSE /\ refs' = 0
  /\ UNCHANGED <<status, live, kernels, build, built, careful, loopVars>>

\* The collector deletes the wrapper: the reference stays.
Collect ==
  /\ handle
  /\ handle' = FALSE
  /\ UNCHANGED <<nativeVars, build, built, careful, loopVars>>

-----------------------------------------------------------------------------
(* The runtime *)

\* The runtime frees a program no one has a reference to, not while it compiles.
FreeProgram ==
  /\ live /\ refs = 0 /\ kernels = 0
  /\ \A d \in Devices : status[d] # InProgress
  /\ live' = FALSE
  /\ UNCHANGED <<status, refs, kernels, handle, build, built, careful, loopVars>>

\* The compiler is done for one device.  After the last one a build with a
\* callback goes on to it, and build() without one returns, or throws.
Compile(b, d, ok) ==
  LET left == build[b].left \ {d}
      next == IF left # {} THEN "building" ELSE IF build[b].notify THEN "reading" ELSE "over"
  IN  /\ Alive
      /\ build[b].stage = "building" /\ d \in build[b].left
      /\ status' = [status EXCEPT ![d] = IF ok THEN Success ELSE Error]
      /\ built' = IF ok THEN built \cup {d} ELSE built
      /\ build' = [build EXCEPT ![b].left = left, ![b].stage = next,
                                ![b].failed = @ \/ ~ok]
      /\ mode' = IF next = "over" THEN "script" ELSE mode
      /\ UNCHANGED <<live, refs, kernels, handle, careful, queueVars>>

\* Mutations: the statuses are added, or the last one is taken.
AddStatus(error, err) == error + err
TakeStatus(error, err) == err

\* baton->error |= err, on cl_build_status in two's complement: -1 absorbs, and
\* -2 | -3 = -1.
OrStatus(error, err) ==
  CASE error = 0 -> err
    [] err = 0 \/ err = error -> error
    [] OTHER -> -1

\* Program::callback asks for the devices, then for each device's status.  When
\* a query fails its variable keeps its initial value: no devices, CL_SUCCESS.
ReadStatus(b) ==
  /\ Alive
  /\ build[b].stage = "reading" /\ build[b].next <= NumDevices
  /\ build' = [build EXCEPT
       ![b].next = IF live \/ @ > 1 THEN @ + 1 ELSE NumDevices + 1,
       ![b].error = OrStatus(@, IF live THEN status[build[b].next] ELSE Success),
       ![b].lost = @ \/ ~live]
  /\ UNCHANGED <<nativeVars, handle, built, careful, loopVars>>

\* It ends by queueing the worker: it comes to the loop's list, and it returns.
QueueWorker(b) ==
  /\ Alive
  /\ build[b].stage = "reading" /\ build[b].next > NumDevices
  /\ build' = [build EXCEPT ![b].stage = "queueing"]
  /\ StartQueueing(b)
  /\ UNCHANGED <<nativeVars, handle, built, careful, mode>>

CallbackReturns(b) ==
  /\ Alive
  /\ build[b].stage = "queueing"
  /\ build' = [build EXCEPT ![b].stage = "queued"]
  /\ EndQueueing(b)
  /\ UNCHANGED <<nativeVars, handle, built, careful, mode>>

-----------------------------------------------------------------------------
(* The event loop *)

PoolRuns(b) == Execute(b) /\ UNCHANGED <<nativeVars, handle, build, built, careful>>

\* ProgramWorker::HandleOKCallback calls the script with baton->error.
HandleBuild(b) ==
  /\ Serve(b, "script")
  /\ build' = [build EXCEPT ![b].stage = "called"]
  /\ UNCHANGED <<nativeVars, handle, built, careful>>

ScriptReturns == Return /\ UNCHANGED <<nativeVars, handle, build, built, careful>>

Exit == Leave /\ UNCHANGED <<nativeVars, handle, build, built, careful>>

Terminated == ~Alive /\ UNCHANGED vars

-----------------------------------------------------------------------------

\* context.createProgram has made the program and its wrapper.
Init ==
  /\ status = [d \in Devices |-> None]
  /\ live = TRUE /\ refs = 1 /\ kernels = 0 /\ handle = TRUE
  /\ build = [b \in Builds |-> Unused]
  /\ built = {}
  /\ careful \in BOOLEAN
  /\ LoopInit

Script ==
  /\ InScript
  /\ \/ \E b \in Builds : /\ FreshBuild(b)
                          /\ \E on \in SUBSET AllDevices, notify \in BOOLEAN : Build(b, on, notify)
     \/ CreateKernel
     \/ ReleaseKernel
     \/ Release
     \/ Collect

Compiler == \E b \in Builds, d \in Devices, ok \in BOOLEAN : Compile(b, d, ok)
Callback == \E b \in Builds : ReadStatus(b) \/ QueueWorker(b) \/ CallbackReturns(b)
Pool     == \E b \in pool : PoolRuns(b)
Handle   == \E b \in Builds : HandleBuild(b)

Next ==
  \/ Script
  \/ FreeProgram
  \/ Compiler
  \/ Callback
  \/ Pool
  \/ Handle
  \/ ScriptReturns
  \/ Exit
  \/ Terminated

\* The compiler, the runtime's threads, the pool and the loop go on while they
\* have work; a turn of the script ends.
Fairness ==
  /\ WF_vars(Compiler) /\ WF_vars(Callback) /\ WF_vars(Pool) /\ WF_vars(Handle)
  /\ SF_vars(ScriptReturns)

Spec == Init /\ [][Next]_vars /\ Fairness

-----------------------------------------------------------------------------
(* Properties *)

BuildRecord == [stage : {"unused", "leaked", "building", "reading", "queueing", "queued", "called", "over"},
                notify : BOOLEAN, left : SUBSET Devices,
                failed : BOOLEAN, next : 1..(NumDevices + 1),
                error : InProgress..Success, lost : BOOLEAN]

TypeOK ==
  /\ status \in [Devices -> InProgress..Success]
  /\ live \in BOOLEAN /\ refs \in {0, 1} /\ kernels \in {0, 1} /\ handle \in BOOLEAN
  /\ build \in [Builds -> BuildRecord]
  /\ built \in SUBSET Devices
  /\ careful \in BOOLEAN
  /\ LoopTypeOK(Builds)

\* To a careful script build promises what CallbackContract says: a build with
\* a callback is an event, which fails if the compiler fails for some device,
\* and the callback is told so, whatever the collector does meanwhile.
Promised(stages) ==
  {b \in Builds : careful /\ build[b].notify /\ build[b].stage \in stages}

BuildStatus(b) ==
  IF b \notin Promised({"building", "reading", "queueing", "queued", "called"}) THEN 4
  ELSE IF build[b].left # {} THEN 3
  ELSE IF build[b].failed THEN -1 ELSE 0

Told(b) == IF build[b].error < 0 THEN -1 ELSE 0

Promise == INSTANCE CallbackContract WITH
  Events <- Builds, Callbacks <- Builds,
  status  <- [b \in Builds |-> BuildStatus(b)],
  pending <- {<<b, b, 0>> : b \in Promised({"building", "reading", "queueing", "queued"})},
  called  <- {<<b, b, 0, Told(b)>> : b \in Promised({"called"})},
  alive   <- Alive

BuildsKept == Promise!Contract

\* Whatever the script does beside, a callback that is told CL_SUCCESS tells the
\* truth of the program: for each of its devices some build has succeeded.  Only
\* a program freed while its statuses were read is taken for built.
SuccessIsReal ==
  \A b \in Builds :
    (build[b].stage \in {"queueing", "queued", "called"} /\ build[b].error = Success /\ ~build[b].lost)
      => built = Devices

=============================================================================
