----------------------------- MODULE CommandQueue -----------------------------
(***************************************************************************)
(* The enqueue operations of WebCLCommandQueue.                            *)
(*                                                                         *)
(* Each operation checks that queue and operand are of one context, turns  *)
(* the script's list of WebCLEvents into native events, enqueues a native  *)
(* command, stops the main thread until the command is over when asked to, *)
(* and stores the command's event in the WebCLEvent the script passed.     *)
(* The OpenCL runtime executes commands in any order these calls allow.    *)
(*                                                                         *)
(* What the script may rely on is kept in history variables: which command *)
(* it takes a WebCLEvent for, which commands must be over before another   *)
(* starts, which it knows to be over, and what memory and arrays would     *)
(* hold if every command had run at the call that enqueued it.             *)
(***************************************************************************)
EXTENDS Naturals, FiniteSets

CONSTANTS
  InOrder, OutOfOrder,  \* command queues, by CL_QUEUE_OUT_OF_ORDER_EXEC_MODE_ENABLE
  Buffers, Images,      \* memory objects whose data the script moves
  Mappable,             \* bound: the memory objects that are mapped in a run
  View,                 \* View[m]: the node Buffer over the mapped memory of m
  Shared,               \* memory objects the script shares with OpenGL
  Kernels,              \* kernels
  ArgOf,                \* ArgOf[k]: the memory object kernel k was given to write
  ContextOf,            \* ContextOf[x]: context of a queue, memory object or kernel
  Arrays,               \* typed arrays of the script
  Wrappers,             \* WebCLEvents of the script
  MaxCommands,          \* bound: native commands and stores of the script in a run
  Careful,              \* does the script order commands that touch the same data?
  NULL

Queues   == InOrder \cup OutOfOrder
Mems     == Buffers \cup Images \cup Shared
Commands == 1..MaxCommands

Views    == {View[m] : m \in Mappable}
Places   == Mems \cup Arrays \cup Views

ASSUME QueueAssumption ==
  /\ MaxCommands \in Nat
  /\ Mappable \subseteq Mems /\ Mappable \subseteq DOMAIN View
  /\ ArgOf \in [Kernels -> Mems]
  /\ Queues \cup Mems \cup Kernels \subseteq DOMAIN ContextOf
  /\ Careful \in BOOLEAN
  /\ NULL \notin Queues \cup Places \cup Wrappers \cup Commands

VARIABLES
  cmd,        \* cmd[c]: a native command
  content,    \* content[p]: who wrote what place p holds
  event,      \* event[w]: the wrapper's native event, named after its command
  mapped,     \* memory objects with a mapping the script has not given back
  block,      \* what stops the main thread; NULL if nothing does
  named,      \* history: the command the script takes wrapper w for
  order,      \* history: the commands promised to be over before c starts
  known,      \* history: the commands the script knows to be over
  expected    \* history: the places after the calls made, run one by one

history == <<named, order, known, expected>>
vars == <<cmd, content, event, mapped, block, history>>

Unused == [state |-> "unused", queue |-> NULL, kind |-> "none", on |-> {},
           src |-> NULL, dst |-> NULL, val |-> NULL]

Issued   == {c \in Commands : cmd[c].state # "unused"}
Over(c)  == cmd[c].state = "over"
Fresh(c) == cmd[c] = Unused /\ \A d \in 1..(c - 1) : cmd[d] # Unused
InScript == block = NULL

-----------------------------------------------------------------------------
(* The script's side: what it may rely on *)

\* Does a command of this kind on q come after d, which is on q already?
OrderedOn(q, kind, d) ==
  /\ cmd[d].queue = q
  /\ \/ q \in InOrder
     \/ kind \in {"marker", "barrier"}
     \/ cmd[d].kind \in {"barrier", "fence"}

\* What the script is promised of a command enqueued on q with wait list L.
Promised(q, kind, L) ==
  LET direct == {named[v] : v \in L} \cup {d \in Issued : OrderedOn(q, kind, d)}
  IN  direct \cup UNION {order[d] : d \in direct}

\* Commands not known to be over that read or write p, or write it.
Touching(p) == {d \in Issued \ known : p \in {cmd[d].src, cmd[d].dst}}
Writing(p)  == {d \in Issued \ known : p = cmd[d].dst}

\* A careful script lets a command wait for those that touch its data, and does
\* not use a memory object while it is mapped.
Orders(promised, src, dst) ==
  /\ src # NULL => Writing(src) \subseteq promised
  /\ dst # NULL => Touching(dst) \subseteq promised
  /\ \A m \in mapped : m \notin {src, dst} \/ src = View[m]

-----------------------------------------------------------------------------
(* The addon's side *)

SameContext(q, x) == ContextOf[q] = ContextOf[x]

\* MakeEventWaitList: every event has a handle and is of the queue's context.
\* (No command fails here; WebCLEvents has the check of the status.)
AcceptsWaitList(q, L) ==
  \A v \in L : event[v] # NULL /\ SameContext(q, cmd[event[v]].queue)

\* Mutation: the number of events handed to the runtime stays 0.
NoWaitList(L) == {}

WaitList(L) == {event[v] : v \in L}

\* Mutation: the event is stored before the native call has made it.
SetEventEarly(w, c) == event' = IF w = NULL THEN event ELSE [event EXCEPT ![w] = 0]

\* Event::setEvent on the event passed last, if any.
SetEvent(w, c) == event' = IF w = NULL THEN event ELSE [event EXCEPT ![w] = c]

\* Mutation: the blocking flag is not passed on; the script still relies on it.
IgnoreBlocking(blocking, c, promised) ==
  /\ block' = NULL
  /\ known' = IF blocking THEN known \cup {c} \cup promised ELSE known

\* CL_TRUE for blocking_read, blocking_write, blocking: the call returns when
\* the command is over, and the script then knows that it is.
Blocking(blocking, c, promised) ==
  /\ block' = IF blocking THEN [on |-> {c}, learn |-> {c} \cup promised] ELSE NULL
  /\ known' = known

\* The common part of the enqueue operations: the wait list is checked, the
\* command enqueued and the event stored.  When anything is rejected the call
\* throws and nothing changes.
Enqueue(q, kind, L, w, src, dst, blocking) ==
  \E c \in Commands :
    LET promised == Promised(q, kind, L)
    IN  /\ InScript /\ Fresh(c)
        /\ AcceptsWaitList(q, L)
        /\ Careful => Orders(promised, src, dst)
        /\ cmd' = [cmd EXCEPT ![c] = [Unused EXCEPT
             !.state = "queued", !.queue = q, !.kind = kind, !.on = WaitList(L),
             !.src = src, !.dst = dst]]
        /\ SetEvent(w, c)
        /\ Blocking(blocking, c, promised)
        /\ named' = IF w = NULL THEN named ELSE [named EXCEPT ![w] = c]
        /\ order' = [order EXCEPT ![c] = promised]
        /\ expected' = IF dst = NULL THEN expected
                       ELSE [expected EXCEPT ![dst] = IF src = NULL THEN c ELSE expected[src]]
        /\ content' = content

EnqueueNDRangeKernel(q, k, L, w) ==
  /\ SameContext(q, k)
  /\ Enqueue(q, "data", L, w, NULL, ArgOf[k], FALSE)
  /\ UNCHANGED mapped

EnqueueTask(q, k, L, w) ==
  /\ SameContext(q, k)
  /\ Enqueue(q, "data", L, w, NULL, ArgOf[k], FALSE)
  /\ UNCHANGED mapped

\* The checks of lengths and rectangles reject calls, which then change nothing.
EnqueueWriteBuffer(q, m, a, L, w, blocking) ==
  /\ SameContext(q, m)
  /\ Enqueue(q, "data", L, w, a, m, blocking)
  /\ UNCHANGED mapped

EnqueueWriteBufferRect(q, m, a, L, w, blocking) ==
  /\ SameContext(q, m)
  /\ Enqueue(q, "data", L, w, a, m, blocking)
  /\ UNCHANGED mapped

EnqueueWriteImage(q, m, a, L, w, blocking) ==
  /\ SameContext(q, m)
  /\ Enqueue(q, "data", L, w, a, m, blocking)
  /\ UNCHANGED mapped

EnqueueReadBuffer(q, m, a, L, w, blocking) ==
  /\ SameContext(q, m)
  /\ Enqueue(q, "data", L, w, m, a, blocking)
  /\ UNCHANGED mapped

EnqueueReadBufferRect(q, m, a, L, w, blocking) ==
  /\ SameContext(q, m)
  /\ Enqueue(q, "data", L, w, m, a, blocking)
  /\ UNCHANGED mapped

EnqueueReadImage(q, m, a, L, w, blocking) ==
  /\ SameContext(q, m)
  /\ Enqueue(q, "data", L, w, m, a, blocking)
  /\ UNCHANGED mapped

\* A copy within one object, between disjoint ranges, leaves it with a content
\* of its own, as a kernel would.
Source(m, n) == IF m = n THEN NULL ELSE m

\* The copy operations compare the queue's context with the source's only.
EnqueueCopyBuffer(q, m, n, L, w) ==
  /\ SameContext(q, m)
  /\ Enqueue(q, "data", L, w, Source(m, n), n, FALSE)
  /\ UNCHANGED mapped

EnqueueCopyBufferRect(q, m, n, L, w) ==
  /\ SameContext(q, m)
  /\ Enqueue(q, "data", L, w, Source(m, n), n, FALSE)
  /\ UNCHANGED mapped

EnqueueCopyImage(q, m, n, L, w) ==
  /\ SameContext(q, m)
  /\ Enqueue(q, "data", L, w, Source(m, n), n, FALSE)
  /\ UNCHANGED mapped

EnqueueCopyImageToBuffer(q, m, n, L, w) ==
  /\ SameContext(q, m)
  /\ Enqueue(q, "data", L, w, m, n, FALSE)
  /\ UNCHANGED mapped

EnqueueCopyBufferToImage(q, m, n, L, w) ==
  /\ SameContext(q, m)
  /\ Enqueue(q, "data", L, w, m, n, FALSE)
  /\ UNCHANGED mapped

\* The Buffer over the mapped memory is returned at once, blocking or not.
\* Bound: one mapping at a time.
EnqueueMapBuffer(q, m, L, w, blocking) ==
  /\ mapped = {} /\ SameContext(q, m)
  /\ Enqueue(q, "data", L, w, m, View[m], blocking)
  /\ mapped' = mapped \cup {m}

EnqueueMapImage(q, m, L, w, blocking) ==
  /\ mapped = {} /\ SameContext(q, m)
  /\ Enqueue(q, "data", L, w, m, View[m], blocking)
  /\ mapped' = mapped \cup {m}

EnqueueUnmapMemObject(q, m, L, w) ==
  /\ m \in mapped /\ SameContext(q, m)
  /\ Enqueue(q, "data", L, w, View[m], m, FALSE)
  /\ mapped' = mapped \ {m}

\* No comparison of contexts; an array of objects is as good as one.
EnqueueAcquireGLObjects(q, m, L, w) ==
  /\ Enqueue(q, "data", L, w, m, NULL, FALSE)
  /\ UNCHANGED mapped

EnqueueReleaseGLObjects(q, m, L, w) ==
  /\ Enqueue(q, "data", L, w, m, NULL, FALSE)
  /\ UNCHANGED mapped

EnqueueMarker(q, w) ==
  /\ Enqueue(q, "marker", {}, w, NULL, NULL, FALSE)
  /\ UNCHANGED mapped

\* The runtime rejects an empty list.
EnqueueWaitForEvents(q, L) ==
  /\ L # {}
  /\ Enqueue(q, "fence", L, NULL, NULL, NULL, FALSE)
  /\ UNCHANGED mapped

\* enqueueBarrier stores no event: its variable event stays NULL, so a WebCLEvent
\* passed to it keeps what it had, and the script does not take it for the
\* barrier's.  Without a wait list:
EnqueueBarrierAlone(q) ==
  \E c \in Commands :
    /\ InScript /\ Fresh(c)
    /\ cmd' = [cmd EXCEPT ![c] =
         [Unused EXCEPT !.state = "queued", !.queue = q, !.kind = "barrier"]]
    /\ order' = [order EXCEPT ![c] = Promised(q, "barrier", {})]
    /\ UNCHANGED <<content, event, mapped, block, named, known, expected>>

\* Mutation: with a wait list only the wait for the list is enqueued.
WaitInsteadOfBarrier(q, L) ==
  \E c \in Commands :
    /\ InScript /\ Fresh(c)
    /\ L # {} /\ AcceptsWaitList(q, L)
    /\ cmd' = [cmd EXCEPT ![c] = [Unused EXCEPT
         !.state = "queued", !.queue = q, !.kind = "fence", !.on = WaitList(L)]]
    /\ order' = [order EXCEPT ![c] = Promised(q, "barrier", L)]
    /\ UNCHANGED <<content, event, mapped, block, named, known, expected>>

\* ... with one: a barrier, then a wait for the events.  When the runtime
\* rejects the second the call throws with the barrier enqueued.
EnqueueBarrierAndWait(q, L) ==
  \E c \in Commands :
    /\ InScript /\ Fresh(c) /\ c < MaxCommands
    /\ L # {} /\ AcceptsWaitList(q, L)
    /\ \E both \in BOOLEAN :
         /\ cmd' = [d \in Commands |->
              CASE d = c -> [Unused EXCEPT !.state = "queued", !.queue = q,
                                           !.kind = "barrier"]
                [] d = c + 1 /\ both ->
                     [Unused EXCEPT !.state = "queued", !.queue = q,
                                    !.kind = "fence", !.on = WaitList(L)]
                [] OTHER -> cmd[d]]
         /\ order' = [d \in Commands |->
              CASE d = c -> Promised(q, "barrier", {})
                [] d = c + 1 /\ both -> Promised(q, "barrier", L) \cup {c}
                [] OTHER -> order[d]]
    /\ UNCHANGED <<content, event, mapped, block, named, known, expected>>

EnqueueBarrier(q, L) ==
  IF L = {} THEN EnqueueBarrierAlone(q) ELSE EnqueueBarrierAndWait(q, L)

\* clFinish and clWaitForEvents: the main thread stops until the commands on
\* are over; learned is what the script makes of it.
BlockOn(on, learned) ==
  /\ block' = [on |-> on, learn |-> learned \cup UNION {order[d] : d \in learned}]
  /\ UNCHANGED <<cmd, content, event, mapped, history>>

\* queue.finish()
Finish(q) ==
  /\ InScript
  /\ LET mine == {c \in Issued : cmd[c].queue = q} IN BlockOn(mine, mine)

\* Mutation: the wait returns at the first event that is over.
WaitForAny(L) ==
  /\ InScript /\ L # {} /\ \A v \in L : event[v] # NULL
  /\ \E v \in L : BlockOn({event[v]}, {named[x] : x \in L})

\* webcl.waitForEvents(list)
WaitForEvents(L) ==
  /\ InScript /\ L # {} /\ \A v \in L : event[v] # NULL
  /\ \A v, x \in L : SameContext(cmd[event[v]].queue, cmd[event[x]].queue)
  /\ BlockOn(WaitList(L), {named[v] : v \in L})

\* The script stores into an array or a mapped Buffer of its own.
Store(p) ==
  \E c \in Commands :
    /\ InScript /\ Fresh(c)
    /\ Careful => Touching(p) = {}
    /\ cmd' = [cmd EXCEPT ![c] = [Unused EXCEPT !.state = "over", !.kind = "store", !.dst = p]]
    /\ content' = [content EXCEPT ![p] = c]
    /\ expected' = [expected EXCEPT ![p] = c]
    /\ known' = known \cup {c}
    /\ UNCHANGED <<event, mapped, block, named, order>>

-----------------------------------------------------------------------------
(* The OpenCL runtime *)

\* Must d be over before c starts?
Precedes(d, c) ==
  \/ d \in cmd[c].on
  \/ d < c /\ OrderedOn(cmd[c].queue, cmd[c].kind, d)

\* A command reads its source when it starts ...
Start(c) ==
  /\ cmd[c].state = "queued"
  /\ \A d \in Issued : Precedes(d, c) => Over(d)
  /\ cmd' = [cmd EXCEPT ![c].state = "running",
                        ![c].val = IF cmd[c].dst = NULL THEN NULL
                                   ELSE IF cmd[c].src = NULL THEN c
                                   ELSE content[cmd[c].src]]
  /\ UNCHANGED <<content, event, mapped, block, history>>

\* ... and writes its destination when it ends.
End(c) ==
  /\ cmd[c].state = "running"
  /\ cmd' = [cmd EXCEPT ![c].state = "over", ![c].val = NULL]
  /\ content' = IF cmd[c].dst = NULL THEN content
                ELSE [content EXCEPT ![cmd[c].dst] = cmd[c].val]
  /\ UNCHANGED <<event, mapped, block, history>>

\* The blocking call returns to the script.
Unblock ==
  /\ block # NULL
  /\ \A c \in block.on : Over(c)
  /\ block' = NULL
  /\ known' = known \cup block.learn
  /\ UNCHANGED <<cmd, content, event, mapped, named, order, expected>>

-----------------------------------------------------------------------------
Init ==
  /\ cmd = [c \in Commands |-> Unused]
  /\ content = [p \in Places |-> p]
  /\ event = [w \in Wrappers |-> NULL]
  /\ mapped = {}
  /\ block = NULL
  /\ named = [w \in Wrappers |-> NULL]
  /\ order = [c \in Commands |-> {}]
  /\ known = {}
  /\ expected = [p \in Places |-> p]

Launch(q, L, w) ==
  \E k \in Kernels : EnqueueNDRangeKernel(q, k, L, w) \/ EnqueueTask(q, k, L, w)

Transfer(q, L, w) ==
  \E a \in Arrays, blocking \in BOOLEAN :
    \/ \E m \in Buffers :
         \/ EnqueueWriteBuffer(q, m, a, L, w, blocking)
         \/ EnqueueWriteBufferRect(q, m, a, L, w, blocking)
         \/ EnqueueReadBuffer(q, m, a, L, w, blocking)
         \/ EnqueueReadBufferRect(q, m, a, L, w, blocking)
    \/ \E m \in Images :
         \/ EnqueueWriteImage(q, m, a, L, w, blocking)
         \/ EnqueueReadImage(q, m, a, L, w, blocking)

Copy(q, L, w) ==
  \/ \E m, n \in Buffers :
       \/ EnqueueCopyBuffer(q, m, n, L, w)
       \/ EnqueueCopyBufferRect(q, m, n, L, w)
  \/ \E m, n \in Images : EnqueueCopyImage(q, m, n, L, w)
  \/ \E m \in Images, n \in Buffers : EnqueueCopyImageToBuffer(q, m, n, L, w)
  \/ \E m \in Buffers, n \in Images : EnqueueCopyBufferToImage(q, m, n, L, w)

Map(q, L, w) ==
  \/ \E m \in Mappable, blocking \in BOOLEAN :
       \/ m \in Buffers /\ EnqueueMapBuffer(q, m, L, w, blocking)
       \/ m \in Images /\ EnqueueMapImage(q, m, L, w, blocking)
  \/ \E m \in Mappable : EnqueueUnmapMemObject(q, m, L, w)

ShareGL(q, L, w) ==
  \E m \in Shared : EnqueueAcquireGLObjects(q, m, L, w) \/ EnqueueReleaseGLObjects(q, m, L, w)

Synchronize(q, L, w) ==
  \/ w # NULL /\ L = {} /\ EnqueueMarker(q, w)
  \/ w = NULL /\ EnqueueWaitForEvents(q, L)
  \/ w = NULL /\ EnqueueBarrier(q, L)

\* A turn of the script; MaxCommands bounds what it enqueues.
Script ==
  /\ InScript
  /\ \/ /\ Issued # Commands
        /\ \E q \in Queues, L \in SUBSET Wrappers, w \in Wrappers \cup {NULL} :
             \/ Launch(q, L, w)
             \/ Transfer(q, L, w)
             \/ Copy(q, L, w)
             \/ Map(q, L, w)
             \/ ShareGL(q, L, w)
             \/ Synchronize(q, L, w)
     \/ \E q \in Queues : Finish(q)
     \/ \E L \in SUBSET Wrappers : WaitForEvents(L)
     \/ \E p \in Arrays \cup {View[m] : m \in mapped} : Store(p)

Runtime == \E c \in Commands : Start(c) \/ End(c)

Next == Script \/ Runtime \/ Unblock

Spec == Init /\ [][Next]_vars

-----------------------------------------------------------------------------
\* Types of the variables: what the addon and the runtime keep about commands,
\* events and mappings, and what the script remembers of its calls.
TypeOK ==
  /\ cmd \in [Commands -> [
       state : {"unused", "queued", "running", "over"},
       queue : Queues \cup {NULL},
       kind  : {"none", "data", "marker", "barrier", "fence", "store"},
       on    : SUBSET Commands,
       src   : Places \cup {NULL},
       dst   : Places \cup {NULL},
       val   : Commands \cup Places \cup {NULL}]]
  /\ content \in [Places -> Commands \cup Places]
  /\ event \in [Wrappers -> Commands \cup {NULL}]
  /\ mapped \subseteq Mappable
  /\ block \in [on : SUBSET Commands, learn : SUBSET Commands] \cup {NULL}
  /\ named \in [Wrappers -> Commands \cup {NULL}]
  /\ order \in [Commands -> SUBSET Commands]
  /\ known \subseteq Commands
  /\ expected \in [Places -> Commands \cup Places]

\* A command starts only when everything that had to come before it is over:
\* the wait list given to the call (MakeEventWaitList and setEvent must agree
\* on which command a WebCLEvent stands for), the earlier commands of an
\* in-order queue, and across enqueueBarrier, enqueueWaitForEvents and
\* enqueueMarker those of any queue, directly or through other commands.
OrderKept ==
  \A c \in Commands :
    cmd[c].state \in {"running", "over"} => \A d \in order[c] : Over(d)

\* When a blocking read, write or map, finish or waitForEvents has returned,
\* the commands the script waited for are over, and so are those before them.
KnownIsOver == \A c \in known : Over(c)

\* A script that orders the commands touching the same data finds in an array
\* or a mapped Buffer, once the commands writing it are known to be over, what
\* it would find if every command had been executed at the call enqueuing it.
ReadsAreSequential ==
  InScript => \A p \in Arrays \cup {View[m] : m \in mapped} :
                Writing(p) = {} => content[p] = expected[p]

=============================================================================
