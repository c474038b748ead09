-------------------------- MODULE ProgramBuild_proofs --------------------------
(***************************************************************************)
(* Proofs about ProgramBuild, for any number of devices and builds: types, *)
(* that a callback told of success tells the truth, and that every step is *)
(* one the contract of CallbackContract allows.                            *)
(***************************************************************************)
EXTENDS ProgramBuild, TLAPS

\* Program::callback has found the devices before the next one built for, if
\* all it has read is CL_SUCCESS; the worker is queued when it has read all.
ReadRight(b) ==
  /\ build[b].stage = "building" => build[b].next = 1
  /\ build[b].stage \in {"queueing", "queued", "called"} => build[b].next = NumDevices + 1
  /\ build[b].stage \in {"building", "reading", "queueing", "queued", "called"}
     /\ build[b].error = 0 /\ ~build[b].lost
       => \A d \in Devices : d < build[b].next => d \in built

BuildInv ==
  /\ TypeOK
  /\ \A d \in Devices : status[d] = 0 => d \in built
  /\ \A b \in Builds : ReadRight(b)
  /\ \A b \in pool : build[b].stage = "queued" \/ build[b].stage = "called"
  /\ \A i \in 1..Len(done) : build[done[i]].stage = "queued" \/ build[done[i]].stage = "called"

\* Statuses are never positive, and the or of two is zero only if both are.
LEMMA OrIsZero ==
  ASSUME NEW x \in -3..0, NEW y \in -3..0
  PROVE  OrStatus(x, y) \in -3..0 /\ (OrStatus(x, y) = 0 <=> x = 0 /\ y = 0)
<1>1. CASE x = 0
  BY <1>1 DEF OrStatus
<1>2. CASE x # 0 /\ (y = 0 \/ y = x)
  BY <1>2 DEF OrStatus
<1>3. CASE x # 0 /\ y # 0 /\ y # x
  BY <1>3 DEF OrStatus
<1>. QED BY <1>1, <1>2, <1>3

\* Steps that change no build, and take nothing from what was built.
LEMMA SameBuilds ==
  ASSUME BuildInv, TypeOK', UNCHANGED <<status, build, built, pool, done>>
  PROVE  BuildInv'
BY DEF BuildInv, ReadRight

\* Steps that write one build.
LEMMA OneBuild ==
  ASSUME BuildInv, TypeOK', NEW b \in Builds, built \subseteq built', ReadRight(b)',
         \A c \in Builds : c # b => build'[c] = build[c],
         \A d \in Devices : status'[d] = 0 => d \in built',
         \A c \in pool' : c \in pool \/ c = b,
         \A i \in 1..Len(done') : \E j \in 1..Len(done) : done'[i] = done[j],
         build[b].stage \in {"queued", "called"} \/ b \in pool' => build'[b].stage \in {"queued", "called"}
  PROVE  BuildInv'
<1>1. \A c \in Builds : ReadRight(c)'
  BY DEF BuildInv, ReadRight
<1>2. \A c \in Builds : build[c].stage \in {"queued", "called"} => build'[c].stage \in {"queued", "called"}
  OBVIOUS
<1>3. \A c \in pool : c \in Builds /\ build[c].stage \in {"queued", "called"}
  BY DEF BuildInv, TypeOK, LoopTypeOK
<1>4. \A j \in 1..Len(done) : done[j] \in Builds /\ build[done[j]].stage \in {"queued", "called"}
  BY DEF BuildInv, TypeOK, LoopTypeOK
<1>5. \A c \in pool' : build'[c].stage \in {"queued", "called"}
  BY <1>2, <1>3
<1>6. \A i \in 1..Len(done') : build'[done'[i]].stage \in {"queued", "called"}
  BY <1>2, <1>4
<1>. QED BY <1>1, <1>5, <1>6 DEF BuildInv

-----------------------------------------------------------------------------
(* The script *)

LEMMA BuildStep ==
  ASSUME BuildInv, InScript, NEW b \in Builds, FreshBuild(b), NEW on \in SUBSET AllDevices,
         NEW notify \in BOOLEAN, Build(b, on, notify)
  PROVE  BuildInv'
<1>1. /\ build[b] = Unused /\ build \in [Builds -> BuildRecord] /\ on \in SUBSET Devices
      /\ UNCHANGED <<live, refs, kernels, handle, built, careful, pool, done, active, inserting, intact>>
      /\ status \in [Devices -> -3..0]
  BY DEF FreshBuild, Build, DevicesOfProgram, BuildInv, TypeOK, InProgress, Success, queueVars
<1>2. build[b].stage = "unused"
  BY <1>1 DEF Unused
<1>3. CASE RuntimeBuilds(on)
  <2>1. PICK r : r = [Unused EXCEPT !.stage = "building", !.notify = notify, !.left = on]
    OBVIOUS
  <2>2. /\ r \in BuildRecord /\ r.stage = "building" /\ r.next = 1
    BY <1>1, <2>1, BuildAssumption DEF Unused, BuildRecord, Success, InProgress, None
  <2>3. /\ build' = [build EXCEPT ![b] = r] /\ mode' \in {"script", "blocked"}
        /\ status' = [d \in Devices |-> IF d \in on THEN -3 ELSE status[d]]
    BY <1>3, <2>1 DEF Build, BuildStarts, InProgress
  <2>4. status' \in [Devices -> -3..0] /\ build' \in [Builds -> BuildRecord]
    BY <1>1, <2>2, <2>3
  <2>5. TypeOK'
    BY <1>1, <2>3, <2>4 DEF BuildInv, TypeOK, LoopTypeOK, InProgress, Success
  <2>6. ReadRight(b)'
    <3>1. build'[b] = r /\ \A d \in Devices : d \in Nat /\ d >= 1
      BY <1>1, <2>3, BuildAssumption DEF Devices
    <3>. QED BY <2>2, <3>1 DEF ReadRight
  <2>7. \A d \in Devices : status'[d] = 0 => d \in built'
    BY <1>1, <2>3 DEF BuildInv
  <2>8. /\ \A c \in Builds : c # b => build'[c] = build[c]
        /\ \A c \in pool' : c \in pool /\ c # b
        /\ done' = done
    BY <1>1, <1>2, <2>3 DEF BuildInv
  <2>. QED BY <1>1, <1>2, <2>5, <2>6, <2>7, <2>8, OneBuild
<1>4. CASE ~RuntimeBuilds(on)
  <2>1. PICK r : r = [Unused EXCEPT !.stage = "leaked", !.notify = TRUE]
    OBVIOUS
  <2>2. /\ r \in BuildRecord /\ r.stage = "leaked"
    BY <1>1, <2>1, BuildAssumption DEF Unused, BuildRecord, Success, InProgress, None
  <2>3. build' = [build EXCEPT ![b] = r] /\ mode' = mode /\ status' = status
    BY <1>4, <2>1 DEF Build, BuildRejected
  <2>4. build' \in [Builds -> BuildRecord]
    BY <1>1, <2>2, <2>3
  <2>5. TypeOK'
    BY <1>1, <2>3, <2>4 DEF BuildInv, TypeOK, LoopTypeOK
  <2>6. ReadRight(b)'
    BY <1>1, <2>2, <2>3 DEF ReadRight
  <2>7. \A d \in Devices : status'[d] = 0 => d \in built'
    BY <1>1, <2>3 DEF BuildInv
  <2>8. /\ \A c \in Builds : c # b => build'[c] = build[c]
        /\ \A c \in pool' : c \in pool /\ c # b
        /\ done' = done
    BY <1>1, <1>2, <2>3 DEF BuildInv
  <2>. QED BY <1>1, <1>2, <2>5, <2>6, <2>7, <2>8, OneBuild
<1>. QED BY <1>3, <1>4

LEMMA ScriptStep ==
  ASSUME BuildInv, Script
  PROVE  BuildInv'
<1>1. CASE \E b \in Builds : /\ FreshBuild(b)
                             /\ \E on \in SUBSET AllDevices, notify \in BOOLEAN : Build(b, on, notify)
  BY <1>1, BuildStep DEF Script
<1>2. CASE CreateKernel \/ ReleaseKernel \/ Release \/ Collect
  <2>1. UNCHANGED <<status, build, built, pool, done, active, inserting, intact, mode, live, careful>>
    BY <1>2 DEF CreateKernel, ReleaseKernel, Release, Collect, nativeVars, loopVars, queueVars
  <2>2. kernels' \in {0, 1} /\ refs' \in {0, 1} /\ handle' \in BOOLEAN
    BY <1>2 DEF CreateKernel, ReleaseKernel, Release, Collect, nativeVars, BuildInv, TypeOK
  <2>3. TypeOK'
    BY <2>1, <2>2 DEF BuildInv, TypeOK, LoopTypeOK
  <2>. QED BY <2>1, <2>3, SameBuilds
<1>. QED BY <1>1, <1>2 DEF Script

-----------------------------------------------------------------------------
(* The runtime *)

LEMMA FreeStep ==
  ASSUME BuildInv, FreeProgram
  PROVE  BuildInv'
<1>1. /\ UNCHANGED <<status, build, built, pool, done, active, inserting, intact, mode, careful, kernels, refs, handle>>
      /\ live' \in BOOLEAN
  BY DEF FreeProgram, loopVars, queueVars
<1>2. TypeOK'
  BY <1>1 DEF BuildInv, TypeOK, LoopTypeOK
<1>. QED BY <1>1, <1>2, SameBuilds

LEMMA CompileStep ==
  ASSUME BuildInv, NEW b \in Builds, NEW d \in Devices, NEW ok \in BOOLEAN, Compile(b, d, ok)
  PROVE  BuildInv'
<1>1. PICK left, next :
        /\ left = build[b].left \ {d}
        /\ next = IF left # {} THEN "building" ELSE IF build[b].notify THEN "reading" ELSE "over"
  OBVIOUS
<1>2. PICK failed : failed = (build[b].failed \/ ~ok)
  OBVIOUS
<1>3. /\ build[b].stage = "building" /\ build[b] \in BuildRecord /\ build \in [Builds -> BuildRecord]
      /\ status' = [status EXCEPT ![d] = IF ok THEN 0 ELSE -2]
      /\ built' = IF ok THEN built \cup {d} ELSE built
      /\ build' = [build EXCEPT ![b].left = left, ![b].stage = next, ![b].failed = failed]
      /\ mode' \in {"script", mode}
      /\ UNCHANGED <<live, refs, kernels, handle, careful, pool, done, active, inserting, intact>>
  BY <1>1, <1>2 DEF Compile, queueVars, BuildInv, TypeOK, Success, Error
<1>4. /\ left \in SUBSET Devices /\ next \in {"building", "reading", "over"} /\ failed \in BOOLEAN
  BY <1>1, <1>2, <1>3 DEF BuildRecord
<1>5. /\ build'[b].stage = next /\ build'[b].next = build[b].next
      /\ build' \in [Builds -> BuildRecord]
      /\ \A c \in Builds : c # b => build'[c] = build[c]
  BY <1>3, <1>4 DEF BuildRecord
<1>6. TypeOK'
  <2>1. status' \in [Devices -> InProgress..Success] /\ built' \in SUBSET Devices
    BY <1>3 DEF BuildInv, TypeOK, InProgress, Success
  <2>. QED BY <1>3, <1>5, <2>1 DEF BuildInv, TypeOK, LoopTypeOK
<1>7. ReadRight(b)'
  <2>1. build[b].next = 1
    BY <1>3 DEF BuildInv, ReadRight
  <2>. QED BY <1>4, <1>5, <2>1 DEF ReadRight, Devices
<1>8. \A e \in Devices : status'[e] = 0 => e \in built'
  BY <1>3 DEF BuildInv, TypeOK
<1>9. b \notin pool
  BY <1>3 DEF BuildInv
<1>10. built \subseteq built'
  BY <1>3
<1>. QED BY <1>3, <1>5, <1>6, <1>7, <1>8, <1>9, <1>10, OneBuild

LEMMA ReadStep ==
  ASSUME BuildInv, NEW b \in Builds, ReadStatus(b)
  PROVE  BuildInv'
<1>1. PICK next, error, lost :
        /\ next = IF live \/ build[b].next > 1 THEN build[b].next + 1 ELSE NumDevices + 1
        /\ error = OrStatus(build[b].error, IF live THEN status[build[b].next] ELSE 0)
        /\ lost = (build[b].lost \/ ~live)
  OBVIOUS
<1>2. /\ build[b].stage = "reading" /\ build[b].next <= NumDevices
      /\ build[b] \in BuildRecord /\ build \in [Builds -> BuildRecord]
      /\ build' = [build EXCEPT ![b].next = next, ![b].error = error, ![b].lost = lost]
      /\ UNCHANGED <<status, live, refs, kernels, handle, built, careful, mode, pool, done, active, inserting, intact>>
  BY <1>1 DEF ReadStatus, BuildInv, TypeOK, nativeVars, loopVars, queueVars, Success
<1>3. /\ build[b].next \in Devices /\ build[b].error \in -3..0 /\ build[b].lost \in BOOLEAN
      /\ status[build[b].next] \in -3..0 /\ NumDevices \in Nat /\ live \in BOOLEAN
  BY <1>2, BuildAssumption DEF BuildRecord, Devices, BuildInv, TypeOK, InProgress, Success
<1>4. /\ error \in -3..0 /\ next \in 1..(NumDevices + 1) /\ lost \in BOOLEAN
      /\ error = 0 => build[b].error = 0 /\ (live => status[build[b].next] = 0)
  BY <1>1, <1>3, OrIsZero DEF Devices
<1>5. /\ build'[b].stage = "reading" /\ build'[b].next = next /\ build'[b].error = error
      /\ build'[b].lost = lost
      /\ build' \in [Builds -> BuildRecord]
      /\ \A c \in Builds : c # b => build'[c] = build[c]
  BY <1>2, <1>4 DEF BuildRecord, InProgress, Success
<1>6. TypeOK'
  BY <1>2, <1>5 DEF BuildInv, TypeOK, LoopTypeOK
<1>7. ReadRight(b)'
  <2>1. SUFFICES ASSUME error = 0, ~lost, NEW d \in Devices, d < next PROVE d \in built
    BY <1>2, <1>5 DEF ReadRight
  <2>2. live /\ ~build[b].lost /\ next = build[b].next + 1 /\ status[build[b].next] = 0 /\ build[b].error = 0
    BY <1>1, <1>3, <1>4, <2>1
  <2>3. build[b].next \in built
    BY <1>3, <2>2 DEF BuildInv
  <2>4. \A e \in Devices : e < build[b].next => e \in built
    BY <1>2, <2>2 DEF BuildInv, ReadRight
  <2>. QED BY <1>3, <2>1, <2>2, <2>3, <2>4 DEF Devices
<1>8. b \notin pool /\ \A d \in Devices : status'[d] = 0 => d \in built'
  BY <1>2 DEF BuildInv
<1>. QED BY <1>2, <1>5, <1>6, <1>7, <1>8, OneBuild

\* The callback comes to the loop's list, and it returns.
QueueingStages(b, from, to) ==
  /\ build[b].stage = from /\ build' = [build EXCEPT ![b].stage = to]
  /\ <<from, to>> \in {<<"reading", "queueing">>, <<"queueing", "queued">>}
  /\ from = "reading" => build[b].next > NumDevices
  /\ UNCHANGED <<status, live, refs, kernels, handle, built, careful, mode>>

LEMMA QueueingIs ==
  ASSUME NEW b, QueueWorker(b) \/ CallbackReturns(b)
  PROVE  \E from, to : QueueingStages(b, from, to)
BY DEF QueueWorker, CallbackReturns, QueueingStages, nativeVars

LEMMA QueueStep ==
  ASSUME BuildInv, NEW b \in Builds, QueueWorker(b) \/ CallbackReturns(b)
  PROVE  BuildInv'
<1>1. PICK from, to : QueueingStages(b, from, to)
  BY QueueingIs
<1>2. /\ build[b] \in BuildRecord /\ build \in [Builds -> BuildRecord]
      /\ done' = done /\ pool' \in {pool, pool \cup {b}} /\ active' \in {active, active \cup {b}}
      /\ inserting' \in {inserting \ {b}, inserting \cup {b}} /\ intact' \in {intact, FALSE}
      /\ to = "queueing" => pool' = pool
  BY <1>1 DEF QueueWorker, CallbackReturns, StartQueueing, EndQueueing, Enter, Touch,
              BuildInv, TypeOK, QueueingStages
<1>3. /\ build'[b].stage = to /\ build'[b].next = build[b].next
      /\ build'[b].error = build[b].error /\ build'[b].lost = build[b].lost
      /\ build' \in [Builds -> BuildRecord]
      /\ \A c \in Builds : c # b => build'[c] = build[c]
  BY <1>1, <1>2 DEF BuildRecord, QueueingStages
<1>4. TypeOK'
  BY <1>1, <1>2, <1>3 DEF BuildInv, TypeOK, LoopTypeOK, QueueingStages
<1>5. ReadRight(b)'
  <2>1. build[b].next = NumDevices + 1
    BY <1>1, <1>2, BuildAssumption DEF BuildRecord, BuildInv, ReadRight, QueueingStages
  <2>2. ReadRight(b)
    BY DEF BuildInv
  <2>. QED BY <1>1, <1>3, <2>1, <2>2 DEF ReadRight, QueueingStages
<1>6. \A d \in Devices : status'[d] = 0 => d \in built'
  BY <1>1 DEF BuildInv, QueueingStages
<1>7. b \notin pool
  BY <1>1 DEF BuildInv, QueueingStages
<1>8. b \in pool' => to = "queued"
  BY <1>1, <1>2, <1>7 DEF QueueingStages
<1>9. built' = built /\ build[b].stage \notin {"queued", "called"}
  BY <1>1 DEF QueueingStages
<1>. QED BY <1>2, <1>3, <1>4, <1>5, <1>6, <1>8, <1>9, OneBuild

-----------------------------------------------------------------------------
(* The event loop *)

LEMMA PoolStep ==
  ASSUME BuildInv, NEW b \in pool, PoolRuns(b)
  PROVE  BuildInv'
<1>1. /\ pool' = pool \ {b} /\ done' = Append(done, b) /\ b \in Builds /\ done \in Seq(Builds)
      /\ build[b].stage \in {"queued", "called"}
      /\ UNCHANGED <<status, live, refs, kernels, handle, build, built, careful, mode, active, inserting, intact>>
  BY DEF PoolRuns, Execute, nativeVars, BuildInv, TypeOK, LoopTypeOK
<1>2. TypeOK'
  BY <1>1 DEF BuildInv, TypeOK, LoopTypeOK
<1>3. \A i \in 1..Len(done') : build[done'[i]].stage \in {"queued", "called"}
  <2>1. /\ Len(done') = Len(done) + 1 /\ Len(done) \in Nat /\ done'[Len(done')] = b
        /\ \A i \in 1..Len(done) : done'[i] = done[i]
    BY <1>1
  <2>2. \A i \in 1..Len(done') : i \in 1..Len(done) \/ i = Len(done')
    BY <2>1
  <2>. QED BY <1>1, <2>1, <2>2 DEF BuildInv
<1>. QED BY <1>1, <1>2, <1>3 DEF BuildInv, ReadRight

LEMMA HandleStep ==
  ASSUME BuildInv, NEW b \in Builds, HandleBuild(b)
  PROVE  BuildInv'
<1>1. /\ done # <<>> /\ b = Head(done) /\ done' = Tail(done) /\ active' = active \ {b}
      /\ pool' = pool /\ mode' = "script" /\ done \in Seq(Builds)
      /\ inserting' = inserting /\ intact' \in {intact, FALSE}
      /\ build' = [build EXCEPT ![b].stage = "called"]
      /\ build[b] \in BuildRecord /\ build \in [Builds -> BuildRecord]
      /\ UNCHANGED <<status, live, refs, kernels, handle, built, careful>>
  BY DEF HandleBuild, Serve, Touch, BuildInv, TypeOK, LoopTypeOK, nativeVars
<1>2. /\ Len(done) \in Nat /\ 1 \in 1..Len(done) /\ b = done[1] /\ Len(done') = Len(done) - 1
      /\ \A i \in 1..Len(done') : i + 1 \in 1..Len(done) /\ done'[i] = done[i + 1]
  BY <1>1
<1>3. build[b].stage \in {"queued", "called"}
  BY <1>2 DEF BuildInv
<1>4. /\ build'[b].stage = "called" /\ build'[b].next = build[b].next
      /\ build'[b].error = build[b].error /\ build'[b].lost = build[b].lost
      /\ build' \in [Builds -> BuildRecord]
      /\ \A c \in Builds : c # b => build'[c] = build[c]
  BY <1>1 DEF BuildRecord
<1>5. TypeOK'
  <2>1. LoopTypeOK(Builds)'
    <3>1. done' \in Seq(Builds)
      BY <1>1
    <3>2. intact' \in BOOLEAN /\ mode' \in {"script", "poll", "blocked", "exited"}
      BY <1>1 DEF BuildInv, TypeOK, LoopTypeOK
    <3>3. /\ pool' \in SUBSET Builds /\ active' \in SUBSET Builds
          /\ inserting' \in SUBSET Builds
      BY <1>1 DEF BuildInv, TypeOK, LoopTypeOK
    <3>. QED BY <3>1, <3>2, <3>3 DEF LoopTypeOK
  <2>. QED BY <1>1, <1>4, <2>1 DEF BuildInv, TypeOK
<1>6. ReadRight(b)'
  <2>1. ReadRight(b)
    BY DEF BuildInv
  <2>. QED BY <1>1, <1>3, <1>4, <2>1 DEF ReadRight
<1>7. \A d \in Devices : status'[d] = 0 => d \in built'
  BY <1>1 DEF BuildInv
<1>. QED BY <1>1, <1>2, <1>4, <1>5, <1>6, <1>7, OneBuild

-----------------------------------------------------------------------------
(* The invariant *)

LEMMA InitHolds == Init => BuildInv
<1>. SUFFICES ASSUME Init PROVE BuildInv
  OBVIOUS
<1>1. TypeOK
  BY BuildAssumption
  DEF Init, LoopInit, TypeOK, LoopTypeOK, BuildRecord, Unused, Success, None, InProgress
<1>. QED BY <1>1 DEF Init, LoopInit, BuildInv, ReadRight, Unused, None

LEMMA NextStep ==
  ASSUME BuildInv, [Next]_vars
  PROVE  BuildInv'
<1>1. CASE Script
  BY <1>1, ScriptStep
<1>2. CASE FreeProgram
  BY <1>2, FreeStep
<1>3. CASE Compiler
  BY <1>3, CompileStep DEF Compiler
<1>4. CASE Callback
  BY <1>4, ReadStep, QueueStep DEF Callback
<1>5. CASE Pool
  BY <1>5, PoolStep DEF Pool
<1>6. CASE Handle
  BY <1>6, HandleStep DEF Handle
<1>7. CASE ScriptReturns \/ Exit \/ Terminated \/ UNCHANGED vars
  <2>1. /\ UNCHANGED <<status, live, refs, kernels, handle, build, built, careful, pool, done, active, inserting, intact>>
        /\ mode' \in {"poll", "exited", mode}
    BY <1>7 DEF ScriptReturns, Return, Exit, Leave, Terminated, vars, nativeVars, loopVars, queueVars
  <2>2. TypeOK'
    BY <2>1 DEF BuildInv, TypeOK, LoopTypeOK
  <2>. QED BY <2>1, <2>2, SameBuilds
<1>. HIDE DEF BuildInv
<1>. QED BY <1>1, <1>2, <1>3, <1>4, <1>5, <1>6, <1>7 DEF Next

THEOREM BuildInvariant == Spec => []BuildInv
<1>. QED BY InitHolds, NextStep, PTL DEF Spec

\* The types of ProgramBuild, for any number of devices and of calls of build.
THEOREM BuildTypes == Spec => []TypeOK
<1>1. BuildInv => TypeOK
  BY DEF BuildInv
<1>. QED BY <1>1, BuildInvariant, PTL

\* A callback of build that is told CL_SUCCESS is told so after some build
\* succeeded for every device of the program, unless the program was freed under
\* the callback's eyes.
THEOREM SuccessToldIsReal == Spec => []SuccessIsReal
<1>1. BuildInv => SuccessIsReal
  <2>. SUFFICES ASSUME BuildInv, NEW b \in Builds, build[b].stage \in {"queueing", "queued", "called"},
                       build[b].error = 0, ~build[b].lost
       PROVE  built = Devices
    BY DEF SuccessIsReal, Success
  <2>1. \A d \in Devices : d < build[b].next => d \in built
    BY DEF BuildInv, ReadRight
  <2>2. build[b].next = NumDevices + 1 /\ built \subseteq Devices
    BY DEF BuildInv, ReadRight, TypeOK
  <2>3. \A d \in Devices : d < NumDevices + 1
    BY BuildAssumption DEF Devices
  <2>4. Devices \subseteq built
    BY <2>1, <2>2, <2>3
  <2>. QED BY <2>2, <2>4
<1>. QED BY <1>1, BuildInvariant, PTL

-----------------------------------------------------------------------------
(* What a careful script is told *)

\* From the build's start to the callback's call its outcome is in one place
\* after another: the statuses of the devices that are compiled, then of those
\* that are read, then the baton's error.
OutcomeExact(b) ==
  /\ build[b].stage = "building" =>
       /\ build[b].error = 0
       /\ build[b].failed <=> \E d \in Devices \ build[b].left : status[d] # 0
  /\ build[b].stage = "reading" =>
       /\ build[b].left = {}
       /\ build[b].failed <=> \E d \in Devices : status[d] # 0
       /\ build[b].error = 0 <=> \A d \in Devices : d < build[b].next => status[d] = 0
  /\ build[b].stage \in {"queueing", "queued", "called"} =>
       /\ build[b].left = {}
       /\ build[b].error = 0 <=> ~build[b].failed

\* The statuses are those of one build only, and of a program that is there.
PromiseInv ==
  careful =>
    /\ refs = 1 => live
    /\ \A b \in Builds : InFlight(b) => refs = 1
    /\ \A b, c \in Builds : InFlight(b) /\ InFlight(c) => b = c
    /\ \A b \in Builds : OutcomeExact(b)

\* Steps that change no build and no status.
LEMMA SameOutcomes ==
  ASSUME PromiseInv, careful' = careful, status' = status, build' = build,
         careful => (refs' = 1 => live'),
         careful => BuildsRest \/ refs' = refs
  PROVE  PromiseInv'
<1>. SUFFICES ASSUME careful, careful' PROVE PromiseInv'
  BY DEF PromiseInv
<1>1. \A b \in Builds : InFlight(b)' = InFlight(b) /\ OutcomeExact(b)' = OutcomeExact(b)
  BY DEF InFlight, OutcomeExact
<1>. QED BY <1>1 DEF PromiseInv, BuildsRest

\* Steps that write one build, and statuses only if no other is in flight.
LEMMA OneOutcome ==
  ASSUME PromiseInv, careful, NEW b \in Builds, UNCHANGED <<live, refs, careful>>,
         \A c \in Builds : c # b => build'[c] = build[c],
         status' = status \/ InFlight(b) \/ BuildsRest,
         InFlight(b)' => InFlight(b) \/ (BuildsRest /\ refs = 1),
         OutcomeExact(b)'
  PROVE  PromiseInv'
<1>1. \A c \in Builds : c # b => InFlight(c)' = InFlight(c)
  BY DEF InFlight
<1>2. ASSUME NEW c \in Builds, c # b PROVE OutcomeExact(c)'
  <2>1. OutcomeExact(c) /\ build'[c] = build[c]
    BY <1>2 DEF PromiseInv
  <2>2. CASE status' = status
    BY <2>1, <2>2 DEF OutcomeExact
  <2>3. CASE InFlight(b) \/ BuildsRest
    <3>1. ~InFlight(c)
      BY <1>2, <2>3 DEF PromiseInv, BuildsRest
    <3>. QED BY <2>1, <3>1 DEF OutcomeExact, InFlight
  <2>. QED BY <2>2, <2>3
<1>3. \A c \in Builds : OutcomeExact(c)'
  BY <1>2
<1>4. (refs = 1 => live)' /\ \A c \in Builds : InFlight(c)' => refs' = 1
  BY <1>1 DEF PromiseInv
<1>5. ASSUME NEW c \in Builds, NEW d \in Builds, InFlight(c)', InFlight(d)' PROVE c = d
  BY <1>1, <1>5 DEF PromiseInv, BuildsRest
<1>. QED BY <1>3, <1>4, <1>5 DEF PromiseInv

LEMMA BuildOutcome ==
  ASSUME BuildInv, PromiseInv, NEW b \in Builds, FreshBuild(b), NEW on \in SUBSET AllDevices,
         NEW notify \in BOOLEAN, Build(b, on, notify), careful
  PROVE  PromiseInv'
<1>1. /\ on = Devices /\ BuildsRest /\ refs = 1 /\ build \in [Builds -> BuildRecord]
      /\ UNCHANGED <<live, refs, careful>>
  BY DEF Build, BuildInv, TypeOK
<1>2. CASE RuntimeBuilds(on)
  <2>1. PICK r : r = [Unused EXCEPT !.stage = "building", !.notify = notify, !.left = on]
    OBVIOUS
  <2>2. build' = [build EXCEPT ![b] = r]
    BY <1>2, <2>1 DEF Build, BuildStarts
  <2>3. build'[b].stage = "building" /\ build'[b].error = 0 /\ ~build'[b].failed /\ build'[b].left = Devices
    BY <1>1, <2>1, <2>2 DEF Unused, Success
  <2>4. OutcomeExact(b)'
    BY <2>3 DEF OutcomeExact
  <2>. QED BY <1>1, <2>2, <2>4, OneOutcome
<1>3. CASE ~RuntimeBuilds(on)
  <2>1. PICK r : r = [Unused EXCEPT !.stage = "leaked", !.notify = TRUE]
    OBVIOUS
  <2>2. build' = [build EXCEPT ![b] = r]
    BY <1>3, <2>1 DEF Build, BuildRejected
  <2>3. build'[b].stage = "leaked"
    BY <1>1, <2>1, <2>2 DEF Unused
  <2>4. OutcomeExact(b)' /\ ~InFlight(b)'
    BY <2>3 DEF OutcomeExact, InFlight
  <2>. QED BY <1>1, <2>2, <2>4, OneOutcome
<1>. QED BY <1>2, <1>3

LEMMA ScriptOutcome ==
  ASSUME BuildInv, PromiseInv, Script, careful
  PROVE  PromiseInv'
<1>1. CASE \E b \in Builds : /\ FreshBuild(b)
                             /\ \E on \in SUBSET AllDevices, notify \in BOOLEAN : Build(b, on, notify)
  BY <1>1, BuildOutcome
<1>2. CASE CreateKernel \/ ReleaseKernel \/ Collect
  <2>1. UNCHANGED <<careful, status, build, refs, live>>
    BY <1>2 DEF CreateKernel, ReleaseKernel, Collect, nativeVars
  <2>. QED BY <2>1, SameOutcomes DEF PromiseInv
<1>3. CASE Release
  <2>1. UNCHANGED <<careful, status, build, live>> /\ refs' = 0 /\ BuildsRest
    BY <1>3 DEF Release
  <2>. QED BY <2>1, SameOutcomes
<1>. QED BY <1>1, <1>2, <1>3 DEF Script

LEMMA FreeOutcome ==
  ASSUME PromiseInv, FreeProgram, careful
  PROVE  PromiseInv'
<1>1. UNCHANGED <<careful, status, build, refs>> /\ refs = 0
  BY DEF FreeProgram
<1>. QED BY <1>1, SameOutcomes

LEMMA CompileOutcome ==
  ASSUME BuildInv, PromiseInv, NEW b \in Builds, NEW d \in Devices, NEW ok \in BOOLEAN,
         Compile(b, d, ok), careful
  PROVE  PromiseInv'
<1>1. PICK left, next :
        /\ left = build[b].left \ {d}
        /\ next = IF left # {} THEN "building" ELSE IF build[b].notify THEN "reading" ELSE "over"
  OBVIOUS
<1>2. PICK failed : failed = (build[b].failed \/ ~ok)
  OBVIOUS
<1>3. /\ build[b].stage = "building" /\ build[b] \in BuildRecord /\ build \in [Builds -> BuildRecord]
      /\ d \in build[b].left
      /\ status \in [Devices -> -3..0] /\ status' = [status EXCEPT ![d] = IF ok THEN 0 ELSE -2]
      /\ build' = [build EXCEPT ![b].left = left, ![b].stage = next, ![b].failed = failed]
      /\ UNCHANGED <<live, refs, careful>>
  BY <1>1, <1>2 DEF Compile, BuildInv, TypeOK, Success, Error, InProgress
<1>4. /\ build'[b].stage = next /\ build'[b].left = left /\ build'[b].failed = failed
      /\ build'[b].error = build[b].error /\ build'[b].next = build[b].next
      /\ \A c \in Builds : c # b => build'[c] = build[c]
      /\ build[b].failed \in BOOLEAN /\ build[b].left \subseteq Devices
  BY <1>3 DEF BuildRecord
<1>5. /\ build[b].error = 0 /\ build[b].next = 1
      /\ build[b].failed <=> \E e \in Devices \ build[b].left : status[e] # 0
  BY <1>3 DEF PromiseInv, OutcomeExact, BuildInv, ReadRight
<1>6. failed <=> \E e \in Devices \ left : status'[e] # 0
  <2>1. Devices \ left = (Devices \ build[b].left) \cup {d}
    BY <1>1, <1>3, <1>4
  <2>2. \A e \in Devices \ build[b].left : status'[e] = status[e]
    BY <1>3
  <2>3. status'[d] # 0 <=> ~ok
    BY <1>3
  <2>. QED BY <1>2, <1>5, <2>1, <2>2, <2>3
<1>7. OutcomeExact(b)'
  <2>1. CASE left # {}
    BY <1>1, <1>4, <1>5, <1>6, <2>1 DEF OutcomeExact
  <2>2. CASE left = {}
    <3>1. \A e \in Devices : ~(e < 1)
      BY DEF Devices
    <3>. QED BY <1>1, <1>4, <1>5, <1>6, <2>2, <3>1 DEF OutcomeExact
  <2>. QED BY <2>1, <2>2
<1>8. InFlight(b)
  BY <1>3 DEF InFlight
<1>. QED BY <1>3, <1>4, <1>7, <1>8, OneOutcome

LEMMA ReadOutcome ==
  ASSUME BuildInv, PromiseInv, NEW b \in Builds, ReadStatus(b), careful
  PROVE  PromiseInv'
<1>1. /\ build[b].stage = "reading" /\ build[b].next <= NumDevices /\ live
      /\ build[b] \in BuildRecord /\ build \in [Builds -> BuildRecord]
      /\ InFlight(b) /\ OutcomeExact(b)
  BY DEF ReadStatus, BuildInv, TypeOK, PromiseInv, InFlight
<1>2. PICK next, error, lost :
        /\ next = build[b].next + 1
        /\ error = OrStatus(build[b].error, status[build[b].next])
        /\ lost = (build[b].lost \/ ~live)
  OBVIOUS
<1>3. /\ build' = [build EXCEPT ![b].next = next, ![b].error = error, ![b].lost = lost]
      /\ UNCHANGED <<status, live, refs, careful>>
  BY <1>1, <1>2 DEF ReadStatus, nativeVars
<1>4. /\ build[b].next \in Devices /\ build[b].error \in -3..0
      /\ status[build[b].next] \in -3..0
  BY <1>1, BuildAssumption DEF BuildRecord, Devices, BuildInv, TypeOK, InProgress, Success
<1>5. error = 0 <=> build[b].error = 0 /\ status[build[b].next] = 0
  BY <1>2, <1>4, OrIsZero
<1>6. /\ build'[b].stage = "reading" /\ build'[b].next = next /\ build'[b].error = error
      /\ build'[b].left = build[b].left /\ build'[b].failed = build[b].failed
      /\ \A c \in Builds : c # b => build'[c] = build[c]
  BY <1>1, <1>3 DEF BuildRecord
<1>7. \A d \in Devices : d < next <=> d < build[b].next \/ d = build[b].next
  BY <1>2, <1>4 DEF Devices
<1>8. error = 0 <=> \A d \in Devices : d < next => status[d] = 0
  BY <1>1, <1>4, <1>5, <1>7 DEF OutcomeExact
<1>9. OutcomeExact(b)'
  BY <1>1, <1>3, <1>6, <1>8 DEF OutcomeExact
<1>. QED BY <1>1, <1>3, <1>6, <1>9, OneOutcome

LEMMA QueueOutcome ==
  ASSUME BuildInv, PromiseInv, NEW b \in Builds, QueueWorker(b) \/ CallbackReturns(b), careful
  PROVE  PromiseInv'
<1>1. PICK from, to : QueueingStages(b, from, to)
  BY QueueingIs
<1>2. build[b] \in BuildRecord /\ build \in [Builds -> BuildRecord]
  BY DEF BuildInv, TypeOK
<1>3. /\ build'[b].stage = to /\ build'[b].error = build[b].error
      /\ build'[b].left = build[b].left /\ build'[b].failed = build[b].failed
      /\ \A c \in Builds : c # b => build'[c] = build[c]
      /\ build[b].failed \in BOOLEAN
      /\ UNCHANGED <<status, live, refs, careful>>
  BY <1>1, <1>2 DEF BuildRecord, QueueingStages
<1>4. from = "reading" => \A d \in Devices : d < build[b].next
  BY <1>1, <1>2, BuildAssumption DEF Devices, BuildRecord, QueueingStages
<1>5. InFlight(b) /\ OutcomeExact(b)
  BY <1>1 DEF InFlight, PromiseInv, QueueingStages
<1>6. OutcomeExact(b)'
  BY <1>1, <1>3, <1>4, <1>5 DEF OutcomeExact, QueueingStages
<1>. QED BY <1>3, <1>5, <1>6, OneOutcome

\* The worker of the list of completed work is that of a build that was read.
LEMMA ServedBuild ==
  ASSUME BuildInv, NEW b \in Builds, HandleBuild(b)
  PROVE  /\ build[b].stage \in {"queued", "called"}
         /\ build[b] \in BuildRecord
         /\ build'[b].stage = "called" /\ build'[b].error = build[b].error
         /\ build'[b].left = build[b].left /\ build'[b].failed = build[b].failed
         /\ build'[b].notify = build[b].notify
         /\ \A c \in Builds : c # b => build'[c] = build[c]
         /\ UNCHANGED <<status, live, refs, careful>> /\ Alive /\ Alive'
<1>1. /\ done # <<>> /\ b = Head(done) /\ done \in Seq(Builds)
      /\ build' = [build EXCEPT ![b].stage = "called"]
      /\ build[b] \in BuildRecord /\ build \in [Builds -> BuildRecord]
      /\ UNCHANGED <<status, live, refs, careful>> /\ Alive /\ Alive'
  BY DEF HandleBuild, Serve, BuildInv, TypeOK, LoopTypeOK, nativeVars, Alive
<1>2. 1 \in 1..Len(done) /\ b = done[1]
  BY <1>1
<1>3. build[b].stage \in {"queued", "called"}
  BY <1>2 DEF BuildInv
<1>. QED BY <1>1, <1>3 DEF BuildRecord

LEMMA HandleOutcome ==
  ASSUME BuildInv, PromiseInv, NEW b \in Builds, HandleBuild(b), careful
  PROVE  PromiseInv'
<1>1. OutcomeExact(b)'
  BY ServedBuild DEF PromiseInv, OutcomeExact
<1>2. ~InFlight(b)'
  BY ServedBuild DEF InFlight
<1>. QED BY <1>1, <1>2, ServedBuild, OneOutcome

LEMMA PromiseInit == Init => PromiseInv
BY DEF Init, PromiseInv, InFlight, OutcomeExact, Unused

LEMMA PromiseStep ==
  ASSUME BuildInv, PromiseInv, [Next]_vars
  PROVE  PromiseInv'
<1>1. careful' = careful
  BY DEF Next, Script, Build, CreateKernel, ReleaseKernel, Release, Collect, FreeProgram, Compiler,
         Compile, Callback, ReadStatus, QueueWorker, CallbackReturns, Pool, PoolRuns, Handle, HandleBuild,
         ScriptReturns, Exit, Terminated, vars
<1>. SUFFICES ASSUME careful PROVE PromiseInv'
  BY <1>1 DEF PromiseInv
<1>2. CASE Script
  BY <1>2, ScriptOutcome
<1>3. CASE FreeProgram
  BY <1>3, FreeOutcome
<1>4. CASE Compiler
  BY <1>4, CompileOutcome DEF Compiler
<1>5. CASE Callback
  BY <1>5, ReadOutcome, QueueOutcome DEF Callback
<1>6. CASE Handle
  BY <1>6, HandleOutcome DEF Handle
<1>7. CASE Pool \/ ScriptReturns \/ Exit \/ Terminated \/ UNCHANGED vars
  <2>1. UNCHANGED <<careful, status, build, refs, live>>
    BY <1>7 DEF Pool, PoolRuns, ScriptReturns, Exit, Terminated, vars, nativeVars
  <2>. QED BY <2>1, SameOutcomes DEF PromiseInv
<1>. HIDE DEF BuildInv, PromiseInv
<1>. QED BY <1>2, <1>3, <1>4, <1>5, <1>6, <1>7 DEF Next

\* The two invariants together.
LEMMA PromiseInvariant == Spec => [](BuildInv /\ PromiseInv)
<1>1. Init => BuildInv /\ PromiseInv
  BY InitHolds, PromiseInit
<1>2. BuildInv /\ PromiseInv /\ [Next]_vars => (BuildInv /\ PromiseInv)'
  BY NextStep, PromiseStep
<1>. QED BY <1>1, <1>2, PTL DEF Spec

-----------------------------------------------------------------------------
(* The contract *)

\* A build the contract knows: started for a careful script with a callback.
Waits(b) ==
  careful /\ build[b].notify /\ build[b].stage \in {"building", "reading", "queueing", "queued"}
Got(b)   == careful /\ build[b].notify /\ build[b].stage = "called"

StatusOf == [b \in Builds |-> BuildStatus(b)]
Pending  == {<<b, b, 0>> : b \in Promised({"building", "reading", "queueing", "queued"})}
Called   == {<<b, b, 0, Told(b)>> : b \in Promised({"called"})}

LEMMA StatusIs ==
  ASSUME NEW b \in Builds
  PROVE  /\ ~Waits(b) /\ ~Got(b) => BuildStatus(b) = 4
         /\ Waits(b) \/ Got(b) =>
              BuildStatus(b) = IF build[b].left # {} THEN 3 ELSE IF build[b].failed THEN -1 ELSE 0
BY DEF BuildStatus, Promised, Waits, Got

\* What the contract sees of build b is as it was.
SameView(b) ==
  /\ Waits(b)' <=> Waits(b)
  /\ Got(b)' <=> Got(b)
  /\ Waits(b) \/ Got(b) => /\ build'[b].left = build[b].left
                           /\ build'[b].failed = build[b].failed
  /\ Got(b) => build'[b].error = build[b].error

LEMMA SameStatus ==
  ASSUME NEW b \in Builds, SameView(b)
  PROVE  BuildStatus(b)' = BuildStatus(b)
<1>1. /\ ~Waits(b)' /\ ~Got(b)' => BuildStatus(b)' = 4
      /\ Waits(b)' \/ Got(b)' =>
           BuildStatus(b)' = IF build'[b].left # {} THEN 3 ELSE IF build'[b].failed THEN -1 ELSE 0
  BY DEF BuildStatus, Promised, Waits, Got
<1>2. CASE Waits(b) \/ Got(b)
  BY <1>1, <1>2, StatusIs DEF SameView
<1>3. CASE ~Waits(b) /\ ~Got(b)
  BY <1>1, <1>3, StatusIs DEF SameView
<1>. QED BY <1>2, <1>3

LEMMA PendingIs ==
  /\ Pending = {<<b, b, 0>> : b \in {c \in Builds : Waits(c)}}
  /\ Pending' = {<<b, b, 0>> : b \in {c \in Builds : Waits(c)'}}
  /\ Called = {<<b, b, 0, Told(b)>> : b \in {c \in Builds : Got(c)}}
  /\ Called' = {<<b, b, 0, Told(b)'>> : b \in {c \in Builds : Got(c)'}}
BY DEF Pending, Called, Promised, Waits, Got

LEMMA StutterStep ==
  ASSUME \A b \in Builds : SameView(b), Alive' = Alive
  PROVE  UNCHANGED Promise!cvars
<1>1. StatusOf' = StatusOf
  BY SameStatus DEF StatusOf
<1>2. Pending' = Pending
  BY PendingIs DEF SameView
<1>3. \A b \in Builds : Got(b) => Told(b)' = Told(b)
  BY DEF SameView, Told
<1>4. Called' = Called
  BY <1>3, PendingIs DEF SameView
<1>. QED BY <1>1, <1>2, <1>4 DEF Promise!cvars, StatusOf, Pending, Called

\* A step that is none of build's, as to the builds.
LEMMA SameBuildsStep ==
  ASSUME UNCHANGED <<build, careful>>, Alive' = Alive
  PROVE  UNCHANGED Promise!cvars
<1>1. \A b \in Builds : SameView(b)
  BY DEF SameView, Waits, Got
<1>. QED BY <1>1, StutterStep

\* A step of one build the contract does not know, or sees nothing of.
LEMMA UnseenStep ==
  ASSUME NEW b \in Builds, careful' = careful, Alive' = Alive,
         \A c \in Builds : c # b => build'[c] = build[c], SameView(b)
  PROVE  UNCHANGED Promise!cvars
<1>1. \A c \in Builds : SameView(c)
  BY DEF SameView, Waits, Got
<1>. QED BY <1>1, StutterStep

\* build(devices, options, f) registers f with the event it is.
LEMMA RegistrationStep ==
  ASSUME BuildInv, InScript, NEW b \in Builds, FreshBuild(b), NEW on \in SUBSET AllDevices,
         NEW notify \in BOOLEAN, Build(b, on, notify)
  PROVE  Promise!ContractNext \/ UNCHANGED Promise!cvars
<1>1. /\ careful' = careful /\ Alive' = Alive /\ Alive
      /\ build \in [Builds -> BuildRecord] /\ build[b] = Unused /\ ~Waits(b) /\ ~Got(b)
  BY DEF Build, BuildStarts, BuildRejected, InScript, Alive, BuildInv, TypeOK, FreshBuild, Waits, Got, Unused
<1>2. CASE RuntimeBuilds(on) /\ notify /\ careful
  <2>1. PICK r : r = [Unused EXCEPT !.stage = "building", !.notify = notify, !.left = on]
    OBVIOUS
  <2>2. build' = [build EXCEPT ![b] = r] /\ on # {}
    BY <1>2, <2>1 DEF Build, BuildStarts, RuntimeBuilds
  <2>3. /\ build'[b].stage = "building" /\ build'[b].notify /\ build'[b].left # {}
        /\ \A c \in Builds : c # b => build'[c] = build[c]
    BY <1>1, <1>2, <2>1, <2>2 DEF Unused
  <2>4. Waits(b)' /\ ~Got(b)' /\ \A c \in Builds : c # b => SameView(c)
    BY <1>1, <1>2, <2>3 DEF Waits, Got, SameView
  <2>5. Called' = Called
    <3>1. \A c \in Builds : Got(c)' <=> Got(c)
      BY <1>1, <2>4 DEF SameView
    <3>2. \A c \in Builds : Got(c) => Told(c)' = Told(c)
      BY <1>1, <2>4 DEF SameView, Told
    <3>. QED BY <3>1, <3>2, PendingIs
  <2>6. Pending' = Pending \cup {<<b, b, 0>>}
    <3>1. {c \in Builds : Waits(c)'} = {c \in Builds : Waits(c)} \cup {b}
      BY <2>4 DEF SameView
    <3>. QED BY <3>1, PendingIs
  <2>7. BuildStatus(b)' = 3
    BY <2>3, <2>4 DEF BuildStatus, Promised, Waits
  <2>8. StatusOf' = [StatusOf EXCEPT ![b] = 3] /\ StatusOf[b] = 4
    BY <1>1, <2>4, <2>7, SameStatus, StatusIs DEF StatusOf
  <2>9. (\A p \in Pending : p[1] # b) /\ (\A p \in Called : p[1] # b)
    BY <1>1, PendingIs
  <2>10. Promise!SetCallback(b, b, 0)
    BY <2>6, <2>8, <2>9 DEF Promise!SetCallback, Promise!Fresh, Promise!NoEvent, StatusOf, Pending, Called
  <2>. QED BY <1>1, <2>5, <2>10 DEF Promise!ContractNext, Called
<1>3. CASE ~(RuntimeBuilds(on) /\ notify /\ careful)
  <2>1. PICK r \in {[Unused EXCEPT !.stage = "building", !.notify = notify, !.left = on],
                    [Unused EXCEPT !.stage = "leaked", !.notify = TRUE]} :
          build' = [build EXCEPT ![b] = r] /\ (r.stage = "leaked" \/ ~r.notify \/ ~careful)
    BY <1>3 DEF Build, BuildStarts, BuildRejected, Unused
  <2>2. build'[b] = r /\ \A c \in Builds : c # b => build'[c] = build[c]
    BY <1>1, <2>1
  <2>3. ~Waits(b)' /\ ~Got(b)'
    BY <1>1, <2>1, <2>2 DEF Waits, Got, Unused
  <2>4. SameView(b)
    BY <1>1, <2>3 DEF SameView
  <2>. QED BY <1>1, <2>2, <2>4, UnseenStep
<1>. QED BY <1>2, <1>3

\* The last device's compiler ends the build, or fails it.
LEMMA CompileStepAllowed ==
  ASSUME BuildInv, NEW b \in Builds, NEW d \in Devices, NEW ok \in BOOLEAN, Compile(b, d, ok)
  PROVE  Promise!ContractNext \/ UNCHANGED Promise!cvars
<1>1. PICK left, next :
        /\ left = build[b].left \ {d}
        /\ next = IF left # {} THEN "building" ELSE IF build[b].notify THEN "reading" ELSE "over"
  OBVIOUS
<1>2. PICK failed : failed = (build[b].failed \/ ~ok)
  OBVIOUS
<1>3. /\ build[b].stage = "building" /\ build[b] \in BuildRecord /\ build \in [Builds -> BuildRecord]
      /\ d \in build[b].left
      /\ build' = [build EXCEPT ![b].left = left, ![b].stage = next, ![b].failed = failed]
      /\ careful' = careful /\ Alive' = Alive
  BY <1>1, <1>2 DEF Compile, BuildInv, TypeOK, Alive
<1>4. /\ build'[b].stage = next /\ build'[b].left = left /\ build'[b].failed = failed
      /\ build'[b].notify = build[b].notify
      /\ \A c \in Builds : c # b => build'[c] = build[c]
  BY <1>3 DEF BuildRecord
<1>5. \A c \in Builds : c # b => SameView(c)
  BY <1>3, <1>4 DEF SameView, Waits, Got
<1>6. CASE ~Waits(b)
  <2>1. ~Waits(b)' /\ ~Got(b) /\ ~Got(b)'
    BY <1>1, <1>3, <1>4, <1>6 DEF Waits, Got
  <2>2. SameView(b)
    BY <1>6, <2>1 DEF SameView
  <2>. QED BY <1>3, <1>4, <2>2, UnseenStep
<1>7. CASE Waits(b)
  <2>1. Waits(b)' /\ ~Got(b) /\ ~Got(b)'
    <3>1. next \in {"building", "reading"} /\ next # "called"
      BY <1>1, <1>7 DEF Waits
    <3>2. careful' /\ build'[b].notify
      BY <1>3, <1>4, <1>7 DEF Waits
    <3>. QED BY <1>3, <1>4, <3>1, <3>2 DEF Waits, Got
  <2>2. Pending' = Pending
    BY <1>5, <1>7, <2>1, PendingIs DEF SameView
  <2>3. Called' = Called
    <3>1. \A c \in Builds : Got(c)' <=> Got(c)
      BY <1>5, <2>1 DEF SameView
    <3>2. \A c \in Builds : Got(c) => Told(c)' = Told(c)
      BY <1>5, <2>1 DEF SameView, Told
    <3>. QED BY <3>1, <3>2, PendingIs
  <2>4. BuildStatus(b) = 3 /\ BuildStatus(b)' \in {3, 0, -1}
    <3>1. BuildStatus(b) = 3
      BY <1>3, <1>7, StatusIs
    <3>2. BuildStatus(b)' = IF left # {} THEN 3 ELSE IF failed THEN -1 ELSE 0
      BY <1>4, <2>1 DEF BuildStatus, Promised, Waits
    <3>. QED BY <3>1, <3>2
  <2>5. PICK s : s = BuildStatus(b)'
    OBVIOUS
  <2>6. StatusOf' = [StatusOf EXCEPT ![b] = s] /\ StatusOf[b] = 3
    BY <1>5, <2>4, <2>5, SameStatus DEF StatusOf
  <2>7. CASE s = 3
    <3>1. StatusOf' = StatusOf
      BY <2>6, <2>7 DEF StatusOf
    <3>. QED BY <1>3, <2>2, <2>3, <3>1 DEF Promise!cvars, StatusOf, Pending, Called
  <2>8. CASE s \in {0, -1}
    <3>1. s \in -1..3 /\ s < StatusOf[b] /\ StatusOf[b] > 0
      BY <2>6, <2>8
    <3>2. Promise!Progress
      BY <1>3, <2>2, <2>3, <2>6, <3>1 DEF Promise!Progress, StatusOf, Pending, Called
    <3>. QED BY <3>2 DEF Promise!ContractNext
  <2>. QED BY <2>4, <2>5, <2>7, <2>8
<1>. QED BY <1>6, <1>7

\* Program::callback reads and queues: nothing the contract sees.
LEMMA CallbackStepAllowed ==
  ASSUME BuildInv, NEW b \in Builds, ReadStatus(b) \/ QueueWorker(b) \/ CallbackReturns(b)
  PROVE  UNCHANGED Promise!cvars
<1>1. /\ build[b].stage \in {"reading", "queueing"} /\ build[b] \in BuildRecord
      /\ build \in [Builds -> BuildRecord] /\ careful' = careful /\ Alive' = Alive
  BY DEF ReadStatus, QueueWorker, CallbackReturns, BuildInv, TypeOK, Alive, loopVars
<1>2. /\ build'[b].stage \in {"reading", "queueing", "queued"} /\ build'[b].left = build[b].left
      /\ build'[b].failed = build[b].failed /\ build'[b].notify = build[b].notify
      /\ \A c \in Builds : c # b => build'[c] = build[c]
  <2>1. CASE ReadStatus(b)
    <3>1. PICK next, error, lost :
            build' = [build EXCEPT ![b].next = next, ![b].error = error, ![b].lost = lost]
      BY <2>1 DEF ReadStatus
    <3>. QED BY <1>1, <3>1 DEF BuildRecord
  <2>2. CASE QueueWorker(b) \/ CallbackReturns(b)
    <3>1. PICK from, to : QueueingStages(b, from, to)
      BY <2>2, QueueingIs
    <3>. QED BY <1>1, <3>1 DEF BuildRecord, QueueingStages
  <2>. QED BY <2>1, <2>2
<1>3. SameView(b)
  BY <1>1, <1>2 DEF SameView, Waits, Got
<1>. QED BY <1>1, <1>2, <1>3, UnseenStep

\* ProgramWorker::HandleOKCallback answers, with the outcome of the build.
LEMMA AnswerStep ==
  ASSUME BuildInv, PromiseInv, NEW b \in Builds, HandleBuild(b)
  PROVE  Promise!ContractNext \/ UNCHANGED Promise!cvars
<1>1. CASE ~Waits(b)
  <2>1. build'[b].stage = "called" /\ build'[b].notify = build[b].notify /\ careful' = careful
    BY ServedBuild
  <2>2. build[b].stage = "queued" \/ build[b].stage = "called"
    BY ServedBuild
  <2>3. ~Waits(b)' /\ (Got(b)' <=> Got(b))
    BY <1>1, <2>1, <2>2 DEF Waits, Got
  <2>4. SameView(b)
    BY <1>1, <2>3, ServedBuild DEF SameView
  <2>5. Alive' = Alive
    BY ServedBuild DEF Alive
  <2>. QED BY <2>4, <2>5, ServedBuild, UnseenStep
<1>2. CASE Waits(b)
  <2>1. /\ build[b].stage = "queued" /\ careful /\ ~Waits(b)' /\ Got(b)' /\ ~Got(b)
        /\ \A c \in Builds : c # b => SameView(c)
    BY <1>2, ServedBuild DEF Waits, Got, SameView
  <2>2. /\ build[b].left = {} /\ (build[b].error = 0 <=> ~build[b].failed)
        /\ build[b].error \in -3..0
    BY <2>1, ServedBuild DEF PromiseInv, OutcomeExact, BuildRecord, InProgress, Success
  <2>3. PICK s : s = BuildStatus(b)
    OBVIOUS
  <2>4. s \in {0, -1} /\ s = Told(b)' /\ s = BuildStatus(b)'
    <3>1. s = IF build[b].failed THEN -1 ELSE 0
      BY <1>2, <2>2, <2>3, StatusIs
    <3>2. build'[b].error = build[b].error /\ build'[b].left = {} /\ build'[b].failed = build[b].failed
      BY <2>2, ServedBuild
    <3>3. Told(b)' = IF build[b].error < 0 THEN -1 ELSE 0
      BY <3>2 DEF Told
    <3>4. Told(b)' = s
      BY <2>2, <3>1, <3>3
    <3>5. BuildStatus(b)' = s
      BY <2>1, <3>1, <3>2 DEF BuildStatus, Promised, Got
    <3>. QED BY <3>1, <3>4, <3>5
  <2>5. StatusOf' = StatusOf /\ StatusOf[b] = s
    BY <2>1, <2>3, <2>4, SameStatus DEF StatusOf
  <2>6. Pending' = Pending \ {<<b, b, 0>>} /\ <<b, b, 0>> \in Pending
    <3>1. {c \in Builds : Waits(c)'} = {c \in Builds : Waits(c)} \ {b}
      BY <2>1 DEF SameView
    <3>. QED BY <1>2, <3>1, PendingIs
  <2>7. Called' = Called \cup {<<b, b, 0, s>>}
    <3>1. {c \in Builds : Got(c)'} = {c \in Builds : Got(c)} \cup {b}
      BY <2>1 DEF SameView
    <3>2. \A c \in Builds : Got(c) => Told(c)' = Told(c)
      BY <2>1 DEF SameView, Told
    <3>. QED BY <2>1, <2>4, <3>1, <3>2, PendingIs
  <2>8. s \in Promise!Truthful(0, s)
    BY DEF Promise!Truthful
  <2>9. Promise!Call(<<b, b, 0>>)
    BY <2>4, <2>5, <2>6, <2>7, <2>8 DEF Promise!Call, StatusOf, Pending, Called
  <2>10. Alive /\ Alive' = Alive
    BY ServedBuild DEF Alive
  <2>11. Promise!Answer
    BY <2>5, <2>6, <2>9, <2>10 DEF Promise!Answer, StatusOf, Pending
  <2>. QED BY <2>11 DEF Promise!ContractNext
<1>. QED BY <1>1, <1>2

LEMMA StepAllowed ==
  ASSUME BuildInv, PromiseInv, [Next]_vars
  PROVE  [Promise!ContractNext]_(Promise!cvars)
<1>. SUFFICES Promise!ContractNext \/ UNCHANGED Promise!cvars
  OBVIOUS
<1>1. CASE Script
  <2>1. InScript
    BY <1>1 DEF Script
  <2>2. CASE \E b \in Builds : /\ FreshBuild(b)
                               /\ \E on \in SUBSET AllDevices, notify \in BOOLEAN : Build(b, on, notify)
    BY <2>1, <2>2, RegistrationStep
  <2>3. CASE CreateKernel \/ ReleaseKernel \/ Release \/ Collect
    <3>1. UNCHANGED <<build, careful>> /\ Alive' = Alive
      BY <2>3 DEF CreateKernel, ReleaseKernel, Release, Collect, loopVars, Alive
    <3>. QED BY <3>1, SameBuildsStep
  <2>. HIDE DEF BuildInv, PromiseInv
  <2>. QED BY <1>1, <2>2, <2>3 DEF Script
<1>2. CASE Compiler
  BY <1>2, CompileStepAllowed DEF Compiler
<1>3. CASE Callback
  BY <1>3, CallbackStepAllowed DEF Callback
<1>4. CASE Handle
  BY <1>4, AnswerStep DEF Handle
<1>5. CASE Exit
  <2>1. UNCHANGED <<build, careful>> /\ Alive /\ Alive' = FALSE
    BY <1>5 DEF Exit, Leave, Alive
  <2>2. \A b \in Builds : SameView(b)
    BY <2>1 DEF SameView, Waits, Got
  <2>3. StatusOf' = StatusOf /\ Pending' = Pending /\ Called' = Called
    <3>1. \A b \in Builds : Told(b)' = Told(b)
      BY <2>1 DEF Told
    <3>. QED BY <2>2, <3>1, SameStatus, PendingIs DEF StatusOf, SameView
  <2>. QED BY <2>1, <2>3 DEF Promise!ContractNext, Promise!Exit, StatusOf, Pending, Called
<1>6. CASE FreeProgram \/ Pool \/ ScriptReturns \/ Terminated \/ UNCHANGED vars
  <2>1. UNCHANGED <<build, careful>> /\ Alive' = Alive
    BY <1>6 DEF FreeProgram, Pool, PoolRuns, Execute, ScriptReturns, Return, Terminated, vars, loopVars,
                InScript, Alive
  <2>. QED BY <2>1, SameBuildsStep
<1>. HIDE DEF BuildInv, PromiseInv
<1>. QED BY <1>1, <1>2, <1>3, <1>4, <1>5, <1>6 DEF Next

LEMMA InitAllowed == Init => Promise!ContractInit
<1>. SUFFICES ASSUME Init PROVE Promise!ContractInit
  OBVIOUS
<1>1. \A b \in Builds : ~Waits(b) /\ ~Got(b)
  BY DEF Init, Waits, Got, Unused
<1>2. StatusOf = [b \in Builds |-> 4] /\ Pending = {} /\ Called = {}
  BY <1>1, StatusIs, PendingIs DEF StatusOf
<1>3. Alive = TRUE
  BY DEF Init, LoopInit, Alive
<1>. QED BY <1>2, <1>3 DEF Promise!ContractInit, Promise!NoEvent, StatusOf, Pending, Called

\* Compiler, threads and collector implement what build promises a careful
\* script, but for its liveness: f is called at most once, not before every
\* device is done, and told of a failure exactly if the compiler failed.
THEOREM BuildsAreSafe == Spec => Promise!ContractInit /\ [][Promise!ContractNext]_(Promise!cvars)
<1>1. Init => Promise!ContractInit
  BY InitAllowed
<1>2. BuildInv /\ PromiseInv /\ [Next]_vars => [Promise!ContractNext]_(Promise!cvars)
  BY StepAllowed
<1>. QED BY <1>1, <1>2, PromiseInvariant, PTL DEF Spec

=============================================================================
