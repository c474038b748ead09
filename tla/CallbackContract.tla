---------------------------- MODULE CallbackContract ----------------------------
(***************************************************************************)
(* What WebCLEvent.setCallback(type, f) promises to a script, without the  *)
(* threads that carry it out: f is called at most once, after the event    *)
(* the callback was registered on has reached the status asked for (or has *)
(* failed), with that status; and once the event is there f is called, if  *)
(* the process lives.  WebCLProgram.build(devices, options, f) promises    *)
(* the same of the build, whose callback is registered with its start.     *)
(***************************************************************************)
EXTENDS Integers

CONSTANTS Events, Callbacks

Statuses  == -1..4      \* failed, complete, running, submitted, queued; 4: no such event
NoEvent   == 4

VARIABLES
  status,     \* status[e]: execution status of the native event
  pending,    \* callbacks registered and not called: <<callback, event, type>>
  called,     \* callbacks called: <<callback, event, type, status passed>>
  alive       \* has the process not exited?

cvars == <<status, pending, called, alive>>

ContractInit ==
  /\ status = [e \in Events |-> NoEvent]
  /\ pending = {} /\ called = {}
  /\ alive = TRUE

\* An event comes into being, or its command gets on (or fails).
Progress ==
  /\ \E e \in Events, s \in -1..3 :
       s < status[e] /\ status[e] > 0 /\ status' = [status EXCEPT ![e] = s]
  /\ UNCHANGED <<pending, called, alive>>

Fresh(c) == (\A p \in pending : p[1] # c) /\ (\A p \in called : p[1] # c)

\* A callback is registered, on an event that is there or begins now.
SetCallback(c, e, type) ==
  /\ Fresh(c)
  /\ pending' = pending \cup {<<c, e, type>>}
  /\ \/ status[e] # NoEvent /\ UNCHANGED status
     \/ status[e] = NoEvent /\ status' = [status EXCEPT ![e] = 3]

\* The status a callback for type may be told of an event that has reached s:
\* an event may fail after it got to a status before the last.
Truthful(type, s) ==
  IF type = 0 THEN {s} ELSE {type} \cup (IF s < 0 THEN {s} ELSE {})

\* The callback of p is called, and is pending no more.
Call(p) ==
  /\ status[p[2]] <= p[3]
  /\ pending' = pending \ {p}
  /\ \E told \in Truthful(p[3], status[p[2]]) :
       called' = called \cup {<<p[1], p[2], p[3], told>>}

Exit == alive /\ alive' = FALSE /\ UNCHANGED <<status, pending, called>>

\* The process calls back: the contract's one duty.
Answer ==
  /\ alive /\ UNCHANGED <<status, alive>>
  /\ \E p \in pending : Call(p)

ContractNext ==
  \/ Progress
  \/ /\ alive /\ UNCHANGED <<called, alive>>
     /\ \E c \in Callbacks, e \in Events, type \in 0..2 : SetCallback(c, e, type)
  \/ Answer
  \/ Exit

\* No callback needs to be preferred: each is called once, their number is finite.
Contract == ContractInit /\ [][ContractNext]_cvars /\ WF_cvars(Answer)

=============================================================================
