-------------------------- MODULE CommandQueue_proofs --------------------------
(***************************************************************************)
(* Proofs about CommandQueue: types, OrderKept and KnownIsOver, for any    *)
(* queues, memory objects, events and number of commands, whether the      *)
(* script is careful or not.                                               *)
(***************************************************************************)
EXTENDS CommandQueue, TLAPS

Kinds == {"none", "data", "marker", "barrier", "fence", "store"}

CommandRecord == [
  state : {"unused", "queued", "running", "over"},
  queue : Queues \cup {NULL},
  kind  : Kinds,
  on    : SUBSET Commands,
  src   : Places \cup {NULL},
  dst   : Places \cup {NULL},
  val   : Commands \cup Places \cup {NULL}]

\* Commands are used one after the other; what a command or a blocked call
\* waits for, and what a WebCLEvent stands for, has been issued; a running
\* command holds a value for the place it will write.
CommandsExact ==
  /\ \A c \in Commands : cmd[c].state = "unused" => cmd[c] = Unused /\ order[c] = {}
  /\ \A c \in Issued : \A d \in Commands : d < c => d \in Issued
  /\ \A c \in Issued : cmd[c].on \subseteq Issued /\ order[c] \subseteq Issued
  /\ \A c \in Commands : cmd[c].state = "running" /\ cmd[c].dst # NULL => cmd[c].val # NULL

\* The script and the addon agree on the command a WebCLEvent stands for.
EventsExact ==
  /\ event = named
  /\ \A w \in Wrappers : event[w] # NULL => event[w] \in Issued

Direct(d, c) == d \in Issued /\ Precedes(d, c)

\* What is promised to be over before c is held back by the runtime itself, or
\* promised to something that is.
Grounded(c) ==
  \A d \in order[c] : \/ Direct(d, c)
                      \/ \E e \in Issued : Direct(e, c) /\ d \in order[e]

OrderGrounded == \A c \in Issued : Grounded(c)

\* The same for what the script will know when its blocking call returns.
BlockGrounded ==
  block # NULL =>
    /\ block.on \subseteq Issued
    /\ \A d \in block.learn : d \in block.on \/ \E e \in block.on : d \in order[e]

QueueInv == /\ TypeOK /\ CommandsExact /\ EventsExact
            /\ OrderGrounded /\ OrderKept
            /\ BlockGrounded /\ KnownIsOver

-----------------------------------------------------------------------------
(* Frames: what a step leaves of the commands issued before *)

\* Commands keep queue, kind, wait list and promises, and never undo their state.
Kept ==
  \A c \in Issued :
    /\ c \in Issued'
    /\ cmd'[c].queue = cmd[c].queue /\ cmd'[c].kind = cmd[c].kind
    /\ cmd'[c].on = cmd[c].on /\ order'[c] = order[c]
    /\ Over(c) => Over(c)'

\* Nothing that was issued before starts or ends.
Still == Kept /\ \A c \in Issued : cmd'[c].state = cmd[c].state

LEMMA DirectKept ==
  ASSUME Kept, NEW c \in Issued, NEW d, Direct(d, c)
  PROVE  Direct(d, c)'
BY DEF Kept, Direct, Precedes, OrderedOn

LEMMA GroundedKept ==
  ASSUME Kept, NEW c \in Issued, Grounded(c), order[c] \subseteq Issued
  PROVE  Grounded(c)'
<1>. SUFFICES ASSUME NEW d \in order[c]
              PROVE  (Direct(d, c) \/ \E e \in Issued : Direct(e, c) /\ d \in order[e])'
  BY DEF Kept, Grounded
<1>1. CASE Direct(d, c)
  BY <1>1, DirectKept
<1>2. CASE \E e \in Issued : Direct(e, c) /\ d \in order[e]
  <2>1. PICK e \in Issued : Direct(e, c) /\ d \in order[e]
    BY <1>2
  <2>2. e \in Issued' /\ Direct(e, c)' /\ d \in order'[e]
    BY <2>1, DirectKept DEF Kept
  <2>. QED BY <2>2
<1>. QED BY <1>1, <1>2 DEF Grounded

LEMMA BlockKept ==
  ASSUME Kept, BlockGrounded, block' = block
  PROVE  BlockGrounded'
BY DEF Kept, BlockGrounded

LEMMA KnownKept ==
  ASSUME Kept, KnownIsOver, known \subseteq Commands, known' = known
  PROVE  KnownIsOver'
BY DEF Kept, KnownIsOver, Over, Issued

\* A step in which nothing starts keeps the order: what was started was after
\* commands that are over.
LEMMA OrderStill ==
  ASSUME Still, OrderKept, CommandsExact, order' \in [Commands -> SUBSET Commands],
         \A c \in Commands : c \notin Issued => cmd'[c].state \in {"unused", "queued"}
                                                \/ order'[c] = {}
  PROVE  OrderKept'
<1>. SUFFICES ASSUME NEW c \in Commands, cmd'[c].state \in {"running", "over"},
                     NEW d \in order'[c]
              PROVE  Over(d)'
  BY DEF OrderKept
<1>1. c \in Issued
  OBVIOUS
<1>2. order'[c] = order[c] /\ cmd[c].state = cmd'[c].state
  BY <1>1 DEF Still, Kept
<1>3. Over(d) /\ d \in Issued
  BY <1>1, <1>2 DEF OrderKept, CommandsExact
<1>. QED BY <1>3 DEF Still, Kept

-----------------------------------------------------------------------------
(* The next command *)

LEMMA FreshIsNext ==
  ASSUME TypeOK, CommandsExact, NEW c \in Commands, Fresh(c)
  PROVE  /\ c \notin Issued /\ order[c] = {}
         /\ \A d \in Commands : d < c => d \in Issued
         /\ \A d \in Issued : d < c
<1>1. c \notin Issued /\ order[c] = {}
  BY DEF Fresh, Issued, CommandsExact, Unused
<1>2. ASSUME NEW d \in Commands, d < c PROVE d \in Issued
  BY <1>2, QueueAssumption DEF Fresh, CommandsExact, Issued, Commands
<1>3. ASSUME NEW d \in Issued PROVE d < c
  <2>1. d \in Commands /\ d # c
    BY <1>1, <1>3 DEF Issued
  <2>2. ~(c < d)
    BY <1>1, <1>3 DEF CommandsExact
  <2>. QED BY <2>1, <2>2, QueueAssumption DEF Commands
<1>. QED BY <1>1, <1>2, <1>3

LEMMA PromisedIsIssued ==
  ASSUME TypeOK, CommandsExact, EventsExact, NEW q \in Queues, NEW kind \in Kinds,
         NEW L \in SUBSET Wrappers, AcceptsWaitList(q, L)
  PROVE  Promised(q, kind, L) \subseteq Issued /\ WaitList(L) \subseteq Issued
<1>1. \A v \in L : event[v] \in Issued /\ named[v] = event[v]
  BY DEF EventsExact, AcceptsWaitList
<1>2. \A d \in Issued : order[d] \subseteq Issued
  BY DEF CommandsExact
<1>. QED BY <1>1, <1>2 DEF Promised, WaitList

\* A command that is enqueued with what it was promised is grounded.
LEMMA PromiseGrounded ==
  ASSUME TypeOK, CommandsExact, EventsExact, Kept,
         NEW q \in Queues, NEW kind \in Kinds, NEW L \in SUBSET Wrappers,
         AcceptsWaitList(q, L), NEW c \in Commands, \A d \in Issued : d < c,
         cmd'[c].queue = q, cmd'[c].kind = kind, cmd'[c].on = WaitList(L),
         order'[c] = Promised(q, kind, L)
  PROVE  Grounded(c)'
<1> DEFINE direct == {named[v] : v \in L} \cup {d \in Issued : OrderedOn(q, kind, d)}
<1>1. direct \subseteq Issued
  BY DEF EventsExact, AcceptsWaitList
<1>2. ASSUME NEW d \in direct PROVE Direct(d, c)'
  <2>1. d \in Issued /\ d \in Issued' /\ d < c
    BY <1>1, <1>2 DEF Kept
  <2>2. CASE d \in {named[v] : v \in L}
    BY <2>1, <2>2 DEF EventsExact, WaitList, Direct, Precedes
  <2>3. CASE OrderedOn(q, kind, d)
    BY <2>1, <2>3 DEF Kept, OrderedOn, Direct, Precedes
  <2>. QED BY <1>2, <2>2, <2>3
<1>3. ASSUME NEW e \in direct, NEW d \in order[e]
      PROVE  e \in Issued' /\ Direct(e, c)' /\ d \in order'[e]
  BY <1>1, <1>2, <1>3 DEF Kept
<1>4. order'[c] = direct \cup UNION {order[d] : d \in direct}
  BY DEF Promised
<1>. QED BY <1>2, <1>3, <1>4 DEF Grounded

LEMMA EnqueueStep ==
  ASSUME QueueInv, NEW q \in Queues, NEW kind \in Kinds, NEW L \in SUBSET Wrappers,
         NEW w \in Wrappers \cup {NULL}, NEW src \in Places \cup {NULL},
         NEW dst \in Places \cup {NULL}, NEW blocking \in BOOLEAN,
         Enqueue(q, kind, L, w, src, dst, blocking), mapped' \subseteq Mappable
  PROVE  QueueInv'
<1> DEFINE promised == Promised(q, kind, L)
           record   == [Unused EXCEPT !.state = "queued", !.queue = q, !.kind = kind,
                                      !.on = WaitList(L), !.src = src, !.dst = dst]
<1>. USE DEF QueueInv
<1>1. PICK c \in Commands :
        /\ InScript /\ Fresh(c)
        /\ AcceptsWaitList(q, L)
        /\ cmd' = [cmd EXCEPT ![c] = record]
        /\ SetEvent(w, c)
        /\ Blocking(blocking, c, promised)
        /\ named' = IF w = NULL THEN named ELSE [named EXCEPT ![w] = c]
        /\ order' = [order EXCEPT ![c] = promised]
        /\ expected' = IF dst = NULL THEN expected
                       ELSE [expected EXCEPT ![dst] = IF src = NULL THEN c ELSE expected[src]]
        /\ content' = content
  BY Zenon DEF Enqueue
<1>2. /\ c \notin Issued /\ order[c] = {}
      /\ \A d \in Commands : d < c => d \in Issued
      /\ \A d \in Issued : d < c
  BY <1>1, FreshIsNext
<1>3. promised \subseteq Issued /\ WaitList(L) \subseteq Issued /\ Issued \subseteq Commands
  BY <1>1, PromisedIsIssued DEF Issued
<1>4. /\ record \in CommandRecord
      /\ record.state = "queued" /\ record.queue = q /\ record.kind = kind
      /\ record.on = WaitList(L)
  BY <1>3 DEF Unused, CommandRecord, Kinds
<1>5. cmd \in [Commands -> CommandRecord] /\ order \in [Commands -> SUBSET Commands]
  BY DEF TypeOK, CommandRecord, Kinds
<1>6. /\ cmd' \in [Commands -> CommandRecord] /\ order' \in [Commands -> SUBSET Commands]
      /\ cmd'[c] = record /\ order'[c] = promised
      /\ \A d \in Commands : d # c => cmd'[d] = cmd[d] /\ order'[d] = order[d]
  <2>. HIDE DEF record, promised
  <2>. QED BY <1>1, <1>3, <1>4, <1>5
<1>7. Issued' = Issued \cup {c}
  <2>. HIDE DEF record, promised
  <2>. QED BY <1>4, <1>6 DEF Issued
<1>8. Still /\ Kept
  <2>. HIDE DEF record, promised
  <2>. QED BY <1>2, <1>3, <1>6, <1>7 DEF Still, Kept, Over
<1>9. TypeOK'
  <2>1. event' \in [Wrappers -> Commands \cup {NULL}] /\ named' \in [Wrappers -> Commands \cup {NULL}]
    BY <1>1 DEF TypeOK, SetEvent
  <2>2. /\ block' \in [on : SUBSET Commands, learn : SUBSET Commands] \cup {NULL}
        /\ known' = known
    <3>. HIDE DEF promised
    <3>. QED BY <1>1, <1>3 DEF Blocking
  <2>3. expected' \in [Places -> Commands \cup Places]
    BY <1>1 DEF TypeOK
  <2>. HIDE DEF record, promised
  <2>. QED BY <1>1, <1>6, <2>1, <2>2, <2>3 DEF TypeOK, CommandRecord, Kinds
<1>10. CommandsExact'
  <2>. HIDE DEF record, promised
  <2>. QED BY <1>2, <1>3, <1>4, <1>6, <1>7 DEF CommandsExact
<1>11. EventsExact'
  BY <1>1, <1>7 DEF EventsExact, SetEvent, TypeOK
<1>12. OrderGrounded'
  <2>1. Grounded(c)'
    <3>. HIDE DEF record
    <3>. QED BY <1>1, <1>2, <1>4, <1>6, <1>8, PromiseGrounded
  <2>2. ASSUME NEW d \in Issued PROVE Grounded(d)'
    BY <1>8, GroundedKept DEF OrderGrounded, CommandsExact
  <2>. QED BY <1>7, <2>1, <2>2 DEF OrderGrounded
<1>13. OrderKept'
  <2>. HIDE DEF record, promised
  <2>. QED BY <1>4, <1>6, <1>8, OrderStill DEF Issued
<1>14. BlockGrounded'
  <2>. HIDE DEF record
  <2>1. CASE ~blocking
    BY <1>1, <2>1 DEF Blocking, BlockGrounded
  <2>2. CASE blocking
    <3>1. block' = [on |-> {c}, learn |-> {c} \cup promised]
      BY <1>1, <2>2 DEF Blocking
    <3>. HIDE DEF promised
    <3>. QED BY <1>6, <1>7, <3>1 DEF BlockGrounded
  <2>. QED BY <2>1, <2>2
<1>15. KnownIsOver'
  <2>. HIDE DEF record, promised
  <2>. QED BY <1>1, <1>8, KnownKept DEF Blocking, TypeOK
<1>. QED BY <1>9, <1>10, <1>11, <1>12, <1>13, <1>14, <1>15

-----------------------------------------------------------------------------
(* Barriers *)

LEMMA BarrierAloneStep ==
  ASSUME QueueInv, NEW q \in Queues, EnqueueBarrierAlone(q)
  PROVE  QueueInv'
<1> DEFINE promised == Promised(q, "barrier", {})
           record   == [Unused EXCEPT !.state = "queued", !.queue = q, !.kind = "barrier"]
<1>. USE DEF QueueInv
<1>1. PICK c \in Commands :
        /\ InScript /\ Fresh(c)
        /\ cmd' = [cmd EXCEPT ![c] = record]
        /\ order' = [order EXCEPT ![c] = promised]
        /\ UNCHANGED <<content, event, mapped, block, named, known, expected>>
  BY Zenon DEF EnqueueBarrierAlone
<1>2. /\ c \notin Issued /\ order[c] = {}
      /\ \A d \in Commands : d < c => d \in Issued
      /\ \A d \in Issued : d < c
  BY <1>1, FreshIsNext
<1>3. AcceptsWaitList(q, {}) /\ WaitList({}) = {} /\ "barrier" \in Kinds
  BY DEF AcceptsWaitList, WaitList, Kinds
<1>4. promised \subseteq Issued /\ Issued \subseteq Commands
  BY <1>3, PromisedIsIssued DEF Issued
<1>5. /\ record \in CommandRecord
      /\ record.state = "queued" /\ record.queue = q /\ record.kind = "barrier"
      /\ record.on = {}
  BY DEF Unused, CommandRecord, Kinds
<1>6. cmd \in [Commands -> CommandRecord] /\ order \in [Commands -> SUBSET Commands]
  BY DEF TypeOK, CommandRecord, Kinds
<1>7. /\ cmd' \in [Commands -> CommandRecord] /\ order' \in [Commands -> SUBSET Commands]
      /\ cmd'[c] = record /\ order'[c] = promised
      /\ \A d \in Commands : d # c => cmd'[d] = cmd[d] /\ order'[d] = order[d]
  <2>. HIDE DEF record, promised
  <2>. QED BY <1>1, <1>4, <1>5, <1>6
<1>. HIDE DEF record
<1>8. Issued' = Issued \cup {c}
  BY <1>5, <1>7 DEF Issued
<1>9. Still /\ Kept
  <2>. HIDE DEF promised
  <2>. QED BY <1>2, <1>4, <1>7, <1>8 DEF Still, Kept, Over
<1>10. TypeOK'
  BY <1>1, <1>7 DEF TypeOK, CommandRecord, Kinds
<1>11. CommandsExact'
  <2>. HIDE DEF promised
  <2>. QED BY <1>2, <1>4, <1>5, <1>7, <1>8 DEF CommandsExact
<1>12. EventsExact'
  BY <1>1, <1>8 DEF EventsExact
<1>13. OrderGrounded'
  <2>1. /\ {} \in SUBSET Wrappers /\ cmd'[c].queue = q /\ cmd'[c].kind = "barrier"
        /\ cmd'[c].on = WaitList({}) /\ order'[c] = Promised(q, "barrier", {})
    BY <1>3, <1>5, <1>7
  <2>2. Grounded(c)'
    <3>. HIDE DEF promised, QueueInv
    <3>. QED BY <1>2, <1>3, <1>9, <2>1, PromiseGrounded DEF QueueInv
  <2>3. ASSUME NEW d \in Issued PROVE Grounded(d)'
    BY <1>9, GroundedKept DEF OrderGrounded, CommandsExact
  <2>. QED BY <1>8, <2>2, <2>3 DEF OrderGrounded
<1>14. OrderKept'
  <2>. HIDE DEF promised
  <2>. QED BY <1>5, <1>7, <1>9, OrderStill DEF Issued
<1>15. BlockGrounded' /\ KnownIsOver'
  BY <1>1, <1>9, BlockKept, KnownKept DEF TypeOK
<1>. QED BY <1>10, <1>11, <1>12, <1>13, <1>14, <1>15

\* The wait after a barrier does not itself wait for the commands before the
\* barrier: it is promised to come after them because the barrier is.
LEMMA BarrierAndWaitStep ==
  ASSUME QueueInv, NEW q \in Queues, NEW L \in SUBSET Wrappers,
         EnqueueBarrierAndWait(q, L)
  PROVE  QueueInv'
<1> DEFINE before == Promised(q, "barrier", {})
           after(c) == Promised(q, "barrier", L) \cup {c}
           barrier == [Unused EXCEPT !.state = "queued", !.queue = q, !.kind = "barrier"]
           fence   == [Unused EXCEPT !.state = "queued", !.queue = q, !.kind = "fence",
                                     !.on = WaitList(L)]
<1>. USE DEF QueueInv
<1>1. PICK c \in Commands, both \in BOOLEAN :
        /\ InScript /\ Fresh(c) /\ c < MaxCommands
        /\ AcceptsWaitList(q, L)
        /\ cmd' = [d \in Commands |-> CASE d = c -> barrier
                                        [] d = c + 1 /\ both -> fence
                                        [] OTHER -> cmd[d]]
        /\ order' = [d \in Commands |-> CASE d = c -> before
                                          [] d = c + 1 /\ both -> after(c)
                                          [] OTHER -> order[d]]
        /\ UNCHANGED <<content, event, mapped, block, named, known, expected>>
  BY Zenon DEF EnqueueBarrierAndWait
<1>2. /\ c \notin Issued /\ order[c] = {}
      /\ \A d \in Commands : d < c => d \in Issued
      /\ \A d \in Issued : d < c
  BY <1>1, FreshIsNext
<1>3. PICK n \in Commands : n = c + 1 /\ n \notin Issued /\ n # c /\ c < n
  <2>1. c + 1 \in Commands /\ c + 1 # c /\ c < c + 1 /\ ~(c + 1 < c)
    BY <1>1, QueueAssumption DEF Commands
  <2>. QED BY <1>2, <2>1
<1>4. AcceptsWaitList(q, {}) /\ WaitList({}) = {} /\ "barrier" \in Kinds /\ "fence" \in Kinds
  BY DEF AcceptsWaitList, WaitList, Kinds
<1>5. /\ before \subseteq Issued /\ after(c) \subseteq Issued \cup {c}
      /\ WaitList(L) \subseteq Issued /\ Issued \subseteq Commands
  BY <1>1, <1>4, PromisedIsIssued DEF Issued
<1>6. /\ barrier \in CommandRecord /\ fence \in CommandRecord
      /\ barrier.state = "queued" /\ barrier.queue = q /\ barrier.kind = "barrier"
      /\ barrier.on = {}
      /\ fence.state = "queued" /\ fence.queue = q /\ fence.kind = "fence"
      /\ fence.on = WaitList(L)
  BY <1>5 DEF Unused, CommandRecord, Kinds
<1>7. cmd \in [Commands -> CommandRecord] /\ order \in [Commands -> SUBSET Commands]
  BY DEF TypeOK, CommandRecord, Kinds
<1>8. /\ cmd' \in [Commands -> CommandRecord] /\ order' \in [Commands -> SUBSET Commands]
      /\ cmd'[c] = barrier /\ order'[c] = before
      /\ both => cmd'[n] = fence /\ order'[n] = after(c)
      /\ ~both => cmd'[n] = cmd[n] /\ order'[n] = order[n]
      /\ \A d \in Commands : d # c /\ d # n => cmd'[d] = cmd[d] /\ order'[d] = order[d]
  <2>. HIDE DEF barrier, fence, before, after
  <2>. QED BY <1>1, <1>3, <1>5, <1>6, <1>7
<1>. HIDE DEF barrier, fence
<1>9. Issued' = IF both THEN Issued \cup {c, n} ELSE Issued \cup {c}
  BY <1>3, <1>6, <1>8 DEF Issued
<1>10. Still /\ Kept
  <2>. HIDE DEF before, after
  <2>. QED BY <1>2, <1>3, <1>5, <1>8, <1>9 DEF Still, Kept, Over
<1>11. TypeOK'
  BY <1>1, <1>8 DEF TypeOK, CommandRecord, Kinds
<1>12. CommandsExact'
  <2>. HIDE DEF before, after
  <2>1. \A d \in Commands : d < n => d < c \/ d = c
    BY <1>3, QueueAssumption DEF Commands
  <2>2. \A d \in Commands : cmd'[d].state = "unused" => cmd'[d] = Unused /\ order'[d] = {}
    BY <1>3, <1>6, <1>8 DEF CommandsExact
  <2>3. \A e \in Issued' : \A d \in Commands : d < e => d \in Issued'
    <3>. SUFFICES ASSUME NEW e \in Issued', NEW d \in Commands, d < e PROVE d \in Issued'
      OBVIOUS
    <3>1. CASE e \in Issued
      BY <1>9, <3>1 DEF CommandsExact
    <3>2. CASE e = c
      BY <1>2, <1>9, <3>2
    <3>3. CASE both /\ e = n
      BY <1>2, <1>9, <2>1, <3>3
    <3>. QED BY <1>9, <3>1, <3>2, <3>3
  <2>4. \A d \in Issued' : cmd'[d].on \subseteq Issued' /\ order'[d] \subseteq Issued'
    <3>1. ASSUME NEW d \in Issued PROVE cmd'[d] = cmd[d] /\ order'[d] = order[d]
      BY <1>2, <1>3, <1>5, <1>8, <3>1
    <3>2. ASSUME NEW d \in Issued PROVE cmd[d].on \subseteq Issued /\ order[d] \subseteq Issued
      BY <3>2 DEF CommandsExact
    <3>3. cmd'[c].on \subseteq Issued /\ order'[c] \subseteq Issued
      BY <1>5, <1>6, <1>8
    <3>4. both => cmd'[n].on \subseteq Issued /\ order'[n] \subseteq Issued \cup {c}
      BY <1>5, <1>6, <1>8
    <3>. HIDE DEF QueueInv
    <3>. QED BY <1>9, <3>1, <3>2, <3>3, <3>4
  <2>5. \A d \in Commands : cmd'[d].state = "running" /\ cmd'[d].dst # NULL => cmd'[d].val # NULL
    BY <1>3, <1>6, <1>8 DEF CommandsExact
  <2>. HIDE DEF QueueInv
  <2>. QED BY <2>2, <2>3, <2>4, <2>5 DEF CommandsExact
<1>13. EventsExact'
  BY <1>1, <1>9 DEF EventsExact
<1>14. Grounded(c)'
  <2>1. /\ {} \in SUBSET Wrappers /\ cmd'[c].queue = q /\ cmd'[c].kind = "barrier"
        /\ cmd'[c].on = WaitList({}) /\ order'[c] = Promised(q, "barrier", {})
    BY <1>4, <1>6, <1>8
  <2>. HIDE DEF before, after, QueueInv
  <2>. QED BY <1>2, <1>4, <1>10, <2>1, PromiseGrounded DEF QueueInv
<1>15. ASSUME both PROVE Grounded(n)'
  <2>. SUFFICES ASSUME NEW d \in after(c)
                PROVE  (Direct(d, n) \/ \E e \in Issued : Direct(e, n) /\ d \in order[e])'
    BY <1>8, <1>15 DEF Grounded
  <2>1. c \in Issued' /\ Direct(c, n)' /\ order'[c] = before
    BY <1>3, <1>6, <1>8, <1>9, <1>15 DEF Direct, Precedes, OrderedOn
  <2>2. ASSUME NEW e, NEW v \in L, e = named[v] PROVE e \in Issued /\ Direct(e, n)'
    BY <1>1, <1>6, <1>8, <1>9, <1>15, <2>2 DEF Direct, Precedes, EventsExact, AcceptsWaitList, WaitList
  <2>3. CASE d = c
    BY <2>1, <2>3
  <2>4. CASE \E v \in L : d = named[v]
    BY <2>2, <2>4
  <2>5. CASE \E v \in L : d \in order[named[v]]
    <3>1. PICK e : d \in order[e] /\ \E v \in L : e = named[v]
      BY <2>5
    <3>2. e \in Issued' /\ Direct(e, n)' /\ d \in order'[e]
      BY <1>10, <2>2, <3>1 DEF Kept
    <3>. QED BY <3>2
  <2>6. CASE d \in before
    BY <2>1, <2>6
  <2>7. d = c \/ d \in before \/ \E v \in L : d = named[v] \/ d \in order[named[v]]
    BY DEF Promised
  <2>. QED BY <2>3, <2>4, <2>5, <2>6, <2>7
<1>16. OrderGrounded'
  <2>1. ASSUME NEW d \in Issued PROVE Grounded(d)'
    BY <1>10, GroundedKept DEF OrderGrounded, CommandsExact
  <2>. QED BY <1>9, <1>14, <1>15, <2>1 DEF OrderGrounded
<1>17. OrderKept'
  <2>. HIDE DEF before, after
  <2>. QED BY <1>3, <1>6, <1>8, <1>10, OrderStill DEF Issued, CommandsExact
<1>18. BlockGrounded' /\ KnownIsOver'
  BY <1>1, <1>10, BlockKept, KnownKept DEF TypeOK
<1>. QED BY <1>11, <1>12, <1>13, <1>16, <1>17, <1>18

-----------------------------------------------------------------------------
(* Blocking calls, stores of the script, the runtime *)

LEMMA BlockOnStep ==
  ASSUME QueueInv, NEW on \in SUBSET Issued, BlockOn(on, on)
  PROVE  QueueInv'
<1>. USE DEF QueueInv
<1>1. /\ block' = [on |-> on, learn |-> on \cup UNION {order[d] : d \in on}]
      /\ UNCHANGED <<cmd, content, event, mapped, named, order, known, expected>>
  BY DEF BlockOn, history
<1>2. on \in SUBSET Commands /\ (on \cup UNION {order[d] : d \in on}) \in SUBSET Commands
  BY DEF Issued, TypeOK
<1>3. TypeOK'
  BY <1>1, <1>2 DEF TypeOK
<1>4. Kept /\ Issued' = Issued
  BY <1>1 DEF Kept, Issued, Over
<1>5. CommandsExact' /\ EventsExact' /\ OrderKept' /\ KnownIsOver'
  BY <1>1, <1>4 DEF CommandsExact, EventsExact, OrderKept, KnownIsOver, Over
<1>6. OrderGrounded'
  BY <1>4, GroundedKept DEF OrderGrounded, CommandsExact
<1>7. BlockGrounded'
  BY <1>1, <1>4 DEF BlockGrounded
<1>. QED BY <1>3, <1>5, <1>6, <1>7

LEMMA StoreStep ==
  ASSUME QueueInv, NEW p \in Arrays \cup {View[m] : m \in mapped}, Store(p)
  PROVE  QueueInv'
<1> DEFINE record == [Unused EXCEPT !.state = "over", !.kind = "store", !.dst = p]
<1>. USE DEF QueueInv
<1>1. PICK c \in Commands :
        /\ InScript /\ Fresh(c)
        /\ cmd' = [cmd EXCEPT ![c] = record]
        /\ content' = [content EXCEPT ![p] = c]
        /\ expected' = [expected EXCEPT ![p] = c]
        /\ known' = known \cup {c}
        /\ UNCHANGED <<event, mapped, block, named, order>>
  BY Zenon DEF Store
<1>2. /\ c \notin Issued /\ order[c] = {}
      /\ \A d \in Commands : d < c => d \in Issued
      /\ \A d \in Issued : d < c
  BY <1>1, FreshIsNext
<1>3. p \in Places
  BY DEF TypeOK, Places, Views
<1>4. /\ record \in CommandRecord /\ record.state = "over" /\ record.on = {}
  BY <1>3 DEF Unused, CommandRecord, Kinds
<1>5. cmd \in [Commands -> CommandRecord] /\ order \in [Commands -> SUBSET Commands]
  BY DEF TypeOK, CommandRecord, Kinds
<1>. HIDE DEF record
<1>6. /\ cmd' \in [Commands -> CommandRecord] /\ cmd'[c] = record /\ order' = order
      /\ \A d \in Commands : d # c => cmd'[d] = cmd[d]
  BY <1>1, <1>4, <1>5
<1>7. Issued' = Issued \cup {c} /\ Over(c)'
  BY <1>4, <1>6 DEF Issued, Over
<1>8. Still /\ Kept
  BY <1>2, <1>6, <1>7 DEF Still, Kept, Over, Issued
<1>9. TypeOK'
  <2>1. /\ content' \in [Places -> Commands \cup Places]
        /\ expected' \in [Places -> Commands \cup Places]
        /\ known' \in SUBSET Commands
    BY <1>1, <1>3 DEF TypeOK
  <2>2. TypeOK /\ UNCHANGED <<event, mapped, block, named, order>>
    BY <1>1
  <2>. HIDE DEF QueueInv
  <2>. QED BY <1>5, <1>6, <2>1, <2>2 DEF TypeOK, CommandRecord, Kinds
<1>10. CommandsExact'
  <2>1. \A d \in Commands : cmd'[d].state = "unused" => cmd'[d] = Unused /\ order'[d] = {}
    BY <1>4, <1>6 DEF CommandsExact
  <2>2. \A e \in Issued' : \A d \in Commands : d < e => d \in Issued'
    BY <1>2, <1>7 DEF CommandsExact
  <2>3. \A d \in Issued' : cmd'[d].on \subseteq Issued' /\ order'[d] \subseteq Issued'
    BY <1>2, <1>4, <1>6, <1>7 DEF CommandsExact, Issued
  <2>4. \A d \in Commands : cmd'[d].state = "running" /\ cmd'[d].dst # NULL => cmd'[d].val # NULL
    BY <1>4, <1>6 DEF CommandsExact
  <2>. HIDE DEF QueueInv
  <2>. QED BY <2>1, <2>2, <2>3, <2>4 DEF CommandsExact
<1>11. EventsExact'
  <2>1. EventsExact /\ UNCHANGED <<event, named>>
    BY <1>1
  <2>. HIDE DEF QueueInv
  <2>. QED BY <1>7, <2>1 DEF EventsExact
<1>12. OrderGrounded'
  <2>1. Grounded(c)'
    BY <1>2, <1>6 DEF Grounded
  <2>2. ASSUME NEW d \in Issued PROVE Grounded(d)'
    BY <1>8, GroundedKept DEF OrderGrounded, CommandsExact
  <2>. QED BY <1>7, <2>1, <2>2 DEF OrderGrounded
<1>13. OrderKept'
  <2>1. \A d \in Commands : d \notin Issued => cmd'[d].state \in {"unused", "queued"} \/ order'[d] = {}
    BY <1>6 DEF CommandsExact, Issued
  <2>. QED BY <1>5, <1>6, <1>8, <2>1, OrderStill
<1>14. BlockGrounded'
  BY <1>1, <1>8, BlockKept
<1>15. KnownIsOver'
  BY <1>1, <1>7, <1>8 DEF KnownIsOver, Kept, Over, Issued, TypeOK
<1>. QED BY <1>9, <1>10, <1>11, <1>12, <1>13, <1>14, <1>15

\* A step of the runtime: only the state and the value of one command change.
LEMMA RuntimeKeeps ==
  ASSUME QueueInv, NEW c \in Issued, NEW record \in CommandRecord,
         cmd' = [cmd EXCEPT ![c] = record], UNCHANGED <<event, mapped, block, history>>,
         record.queue = cmd[c].queue, record.kind = cmd[c].kind, record.on = cmd[c].on,
         record.state # "unused", ~Over(c),
         record.state = "running" /\ record.dst # NULL => record.val # NULL,
         content' \in [Places -> Commands \cup Places]
  PROVE  TypeOK' /\ CommandsExact' /\ EventsExact' /\ OrderGrounded'
         /\ BlockGrounded' /\ KnownIsOver' /\ Kept
<1>. USE DEF QueueInv
<1>1. /\ cmd \in [Commands -> CommandRecord] /\ order \in [Commands -> SUBSET Commands]
      /\ c \in Commands
  BY DEF TypeOK, CommandRecord, Kinds, Issued
<1>2. /\ cmd' \in [Commands -> CommandRecord] /\ cmd'[c] = record /\ order' = order
      /\ \A d \in Commands : d # c => cmd'[d] = cmd[d]
  BY <1>1 DEF history
<1>3. Issued' = Issued
  BY <1>1, <1>2 DEF Issued
<1>4. Kept
  BY <1>1, <1>2, <1>3 DEF Kept, Over, Issued
<1>5. TypeOK'
  BY <1>2 DEF TypeOK, CommandRecord, Kinds, history
<1>6. CommandsExact' /\ EventsExact'
  <2>1. \A d \in Commands : cmd'[d].state = "unused" => cmd'[d] = Unused /\ order'[d] = {}
    BY <1>2 DEF CommandsExact
  <2>2. \A e \in Issued' : \A d \in Commands : d < e => d \in Issued'
    BY <1>3 DEF CommandsExact
  <2>3. \A d \in Issued' : cmd'[d].on \subseteq Issued' /\ order'[d] \subseteq Issued'
    BY <1>1, <1>2, <1>3 DEF CommandsExact, Issued
  <2>4. \A d \in Commands : cmd'[d].state = "running" /\ cmd'[d].dst # NULL => cmd'[d].val # NULL
    BY <1>2 DEF CommandsExact
  <2>5. EventsExact'
    BY <1>3 DEF EventsExact, history
  <2>. HIDE DEF QueueInv
  <2>. QED BY <2>1, <2>2, <2>3, <2>4, <2>5 DEF CommandsExact
<1>7. OrderGrounded'
  <2>1. ASSUME NEW d \in Issued PROVE Grounded(d)'
    BY <1>4, GroundedKept DEF OrderGrounded, CommandsExact
  <2>. HIDE DEF QueueInv
  <2>. QED BY <1>3, <2>1 DEF OrderGrounded
<1>8. BlockGrounded' /\ KnownIsOver'
  BY <1>4, BlockKept, KnownKept DEF TypeOK, history
<1>. QED BY <1>4, <1>5, <1>6, <1>7, <1>8

\* The core: when c starts, what holds it back is over, and then so is what was
\* promised to be over before that.
LEMMA StartStep ==
  ASSUME QueueInv, NEW c \in Commands, Start(c)
  PROVE  QueueInv'
<1> DEFINE val == IF cmd[c].dst = NULL THEN NULL
                  ELSE IF cmd[c].src = NULL THEN c ELSE content[cmd[c].src]
           record == [cmd[c] EXCEPT !.state = "running", !.val = val]
<1>. USE DEF QueueInv
<1>1. /\ cmd[c].state = "queued" /\ cmd[c] \in CommandRecord
      /\ \A d \in Issued : Precedes(d, c) => Over(d)
      /\ UNCHANGED <<content, event, mapped, block, history>>
  BY DEF Start, TypeOK, CommandRecord, Kinds
<1>2. /\ val \in Commands \cup Places \cup {NULL}
      /\ cmd[c].dst # NULL => val # NULL
  BY <1>1, QueueAssumption DEF TypeOK, CommandRecord
<1>3. cmd' = [cmd EXCEPT ![c] = record]
  <2>. HIDE DEF val
  <2>1. cmd' = [cmd EXCEPT ![c].state = "running", ![c].val = val]
    BY Zenon DEF Start, val
  <2>. QED BY <1>1, <2>1 DEF TypeOK, CommandRecord
<1>4. /\ record \in CommandRecord
      /\ record.queue = cmd[c].queue /\ record.kind = cmd[c].kind /\ record.on = cmd[c].on
      /\ record.state = "running" /\ record.dst = cmd[c].dst /\ record.val = val
  <2>. HIDE DEF val
  <2>. QED BY <1>1, <1>2 DEF CommandRecord
<1>5. c \in Issued /\ ~Over(c)
  BY <1>1 DEF Issued, Over
<1>. HIDE DEF record
<1>6. /\ TypeOK' /\ CommandsExact' /\ EventsExact' /\ OrderGrounded'
      /\ BlockGrounded' /\ KnownIsOver' /\ Kept
  <2>. HIDE DEF val
  <2>1. content' \in [Places -> Commands \cup Places]
    BY <1>1 DEF TypeOK
  <2>2. UNCHANGED <<event, mapped, block, history>>
    BY <1>1
  <2>. HIDE DEF QueueInv
  <2>. QED BY <1>2, <1>3, <1>4, <1>5, <2>1, <2>2, RuntimeKeeps
<1>7. ASSUME NEW d \in order[c] PROVE Over(d) /\ d \in Issued
  <2>1. Grounded(c) /\ order[c] \subseteq Issued
    BY <1>5 DEF OrderGrounded, CommandsExact
  <2>2. CASE Direct(d, c)
    BY <1>1, <2>1, <2>2 DEF Direct
  <2>3. CASE \E e \in Issued : Direct(e, c) /\ d \in order[e]
    <3>1. PICK e \in Issued : Direct(e, c) /\ d \in order[e]
      BY <2>3
    <3>2. Over(e) /\ e \in Commands
      BY <1>1, <3>1 DEF Direct, Issued
    <3>. QED BY <2>1, <3>1, <3>2 DEF OrderKept, Over
  <2>. QED BY <2>1, <2>2, <2>3 DEF Grounded
<1>8. OrderKept'
  <2>. SUFFICES ASSUME NEW e \in Commands, cmd'[e].state \in {"running", "over"},
                       NEW d \in order'[e]
                PROVE  Over(d)'
    BY DEF OrderKept
  <2>1. order' = order
    BY <1>1 DEF history
  <2>2. CASE e = c
    BY <1>6, <1>7, <2>1, <2>2 DEF Kept
  <2>3. CASE e # c
    <3>1. cmd'[e] = cmd[e] /\ e \in Issued
      BY <1>3, <2>3 DEF Issued, TypeOK
    <3>2. Over(d) /\ d \in Issued
      BY <2>1, <3>1 DEF OrderKept, CommandsExact
    <3>. QED BY <1>6, <3>2 DEF Kept
  <2>. QED BY <2>2, <2>3
<1>. QED BY <1>6, <1>8

LEMMA EndStep ==
  ASSUME QueueInv, NEW c \in Commands, End(c)
  PROVE  QueueInv'
<1> DEFINE record == [cmd[c] EXCEPT !.state = "over", !.val = NULL]
<1>. USE DEF QueueInv
<1>1. /\ cmd[c].state = "running" /\ cmd[c] \in CommandRecord
      /\ UNCHANGED <<event, mapped, block, history>>
  BY DEF End, TypeOK, CommandRecord, Kinds
<1>2. cmd' = [cmd EXCEPT ![c] = record]
  BY <1>1 DEF End, TypeOK, CommandRecord
<1>3. /\ record \in CommandRecord
      /\ record.queue = cmd[c].queue /\ record.kind = cmd[c].kind /\ record.on = cmd[c].on
      /\ record.state = "over"
  BY <1>1 DEF CommandRecord
<1>4. content' \in [Places -> Commands \cup Places]
  <2>1. cmd[c].dst # NULL => cmd[c].val \in Commands \cup Places
    BY <1>1 DEF CommandsExact, CommandRecord
  <2>. QED BY <1>1, <2>1 DEF End, TypeOK, CommandRecord
<1>5. c \in Issued /\ ~Over(c)
  BY <1>1 DEF Issued, Over
<1>. HIDE DEF record
<1>6. /\ TypeOK' /\ CommandsExact' /\ EventsExact' /\ OrderGrounded'
      /\ BlockGrounded' /\ KnownIsOver' /\ Kept
  <2>. HIDE DEF QueueInv
  <2>. QED BY <1>1, <1>2, <1>3, <1>4, <1>5, RuntimeKeeps
<1>7. OrderKept'
  <2>. SUFFICES ASSUME NEW e \in Commands, cmd'[e].state \in {"running", "over"},
                       NEW d \in order'[e]
                PROVE  Over(d)'
    BY DEF OrderKept
  <2>1. order' = order /\ cmd[e].state \in {"running", "over"}
    BY <1>1, <1>2 DEF history, TypeOK
  <2>2. Over(d) /\ d \in Issued
    BY <2>1 DEF OrderKept, CommandsExact, Issued
  <2>. QED BY <1>6, <2>2 DEF Kept
<1>. QED BY <1>6, <1>7

LEMMA UnblockStep ==
  ASSUME QueueInv, Unblock
  PROVE  QueueInv'
<1>. USE DEF QueueInv
<1>1. /\ block # NULL /\ \A c \in block.on : Over(c)
      /\ block' = NULL /\ known' = known \cup block.learn
      /\ UNCHANGED <<cmd, content, event, mapped, named, order, expected>>
  BY DEF Unblock
<1>2. block \in [on : SUBSET Commands, learn : SUBSET Commands]
  BY <1>1 DEF TypeOK
<1>3. ASSUME NEW d \in block.learn PROVE Over(d)
  <2>1. CASE d \in block.on
    BY <1>1, <2>1
  <2>2. CASE \E e \in block.on : d \in order[e]
    BY <1>1, <1>2, <2>2 DEF OrderKept, Over
  <2>. QED BY <1>1, <2>1, <2>2 DEF BlockGrounded
<1>4. TypeOK'
  BY <1>1, <1>2 DEF TypeOK
<1>5. Kept /\ Issued' = Issued
  BY <1>1 DEF Kept, Issued, Over
<1>6. CommandsExact' /\ EventsExact' /\ OrderKept' /\ BlockGrounded'
  BY <1>1, <1>5 DEF CommandsExact, EventsExact, OrderKept, BlockGrounded, Over
<1>7. OrderGrounded'
  BY <1>5, GroundedKept DEF OrderGrounded, CommandsExact
<1>8. KnownIsOver'
  BY <1>1, <1>3 DEF KnownIsOver, Over
<1>. QED BY <1>4, <1>6, <1>7, <1>8

-----------------------------------------------------------------------------
(* The specification *)

LEMMA QueueInvInit == Init => QueueInv
<1>. SUFFICES ASSUME Init PROVE QueueInv
  OBVIOUS
<1>1. \A c \in Commands : cmd[c] = Unused /\ order[c] = {}
  BY DEF Init
<1>2. Issued = {}
  BY <1>1 DEF Issued, Unused
<1>3. TypeOK
  BY DEF Init, TypeOK, Unused
<1>4. CommandsExact /\ EventsExact /\ OrderGrounded /\ BlockGrounded /\ KnownIsOver
  BY <1>1, <1>2 DEF Init, CommandsExact, EventsExact, OrderGrounded, BlockGrounded,
                    KnownIsOver, Unused
<1>5. OrderKept
  BY <1>1 DEF OrderKept
<1>. QED BY <1>3, <1>4, <1>5 DEF QueueInv

\* Nineteen of the operations are Enqueue, with a frame for the mappings.
LEMMA CallsEnqueue ==
  ASSUME TypeOK, NEW q \in Queues, NEW L \in SUBSET Wrappers, NEW w \in Wrappers \cup {NULL},
         \/ Launch(q, L, w) \/ Transfer(q, L, w) \/ Copy(q, L, w) \/ Map(q, L, w)
         \/ ShareGL(q, L, w) \/ EnqueueMarker(q, w) \/ EnqueueWaitForEvents(q, L)
  PROVE  /\ \E kind \in Kinds, K \in SUBSET Wrappers, v \in Wrappers \cup {NULL},
               src \in Places \cup {NULL}, dst \in Places \cup {NULL}, blocking \in BOOLEAN :
               Enqueue(q, kind, K, v, src, dst, blocking)
         /\ mapped' \subseteq Mappable
<1>. USE DEF Kinds
<1> DEFINE Enqueues == \E kind \in Kinds, K \in SUBSET Wrappers, v \in Wrappers \cup {NULL},
               src \in Places \cup {NULL}, dst \in Places \cup {NULL}, blocking \in BOOLEAN :
               Enqueue(q, kind, K, v, src, dst, blocking)
<1>1. ASSUME NEW src \in Places \cup {NULL}, NEW dst \in Places \cup {NULL},
             NEW blocking \in BOOLEAN, Enqueue(q, "data", L, w, src, dst, blocking)
      PROVE  Enqueues
  BY <1>1
<1>2. mapped \subseteq Mappable /\ Mems \subseteq Places /\ Arrays \subseteq Places
      /\ \A m \in Mappable : View[m] \in Places /\ m \in Places
  BY QueueAssumption DEF TypeOK, Places, Views
<1>3. Buffers \subseteq Mems /\ Images \subseteq Mems /\ Shared \subseteq Mems
  BY DEF Mems
<1>. HIDE DEF Enqueues
<1>4. CASE Launch(q, L, w)
  BY <1>1, <1>2, <1>4, QueueAssumption DEF Launch, EnqueueNDRangeKernel, EnqueueTask
<1>5. CASE Transfer(q, L, w)
  <2>1. PICK a \in Arrays, blocking \in BOOLEAN, m \in Buffers \cup Images :
          /\ \/ Enqueue(q, "data", L, w, a, m, blocking)
             \/ Enqueue(q, "data", L, w, m, a, blocking)
          /\ UNCHANGED mapped
    BY <1>5 DEF Transfer, EnqueueWriteBuffer, EnqueueWriteBufferRect, EnqueueReadBuffer,
       EnqueueReadBufferRect, EnqueueWriteImage, EnqueueReadImage
  <2>2. a \in Places \cup {NULL} /\ m \in Places \cup {NULL}
    BY <1>2, <1>3
  <2>. QED BY <1>1, <1>2, <2>1, <2>2
<1>6. CASE Copy(q, L, w)
  BY <1>1, <1>2, <1>3, <1>6 DEF Copy, Source, EnqueueCopyBuffer, EnqueueCopyBufferRect,
     EnqueueCopyImage, EnqueueCopyImageToBuffer, EnqueueCopyBufferToImage
<1>7. CASE Map(q, L, w)
  <2>1. PICK m \in Mappable : \E src, dst \in {m, View[m]}, blocking \in BOOLEAN :
          /\ Enqueue(q, "data", L, w, src, dst, blocking)
          /\ mapped' \in {mapped \cup {m}, mapped \ {m}}
    BY <1>7 DEF Map, EnqueueMapBuffer, EnqueueMapImage, EnqueueUnmapMemObject
  <2>2. m \in Places \cup {NULL} /\ View[m] \in Places \cup {NULL}
    BY <1>2
  <2>. QED BY <1>1, <1>2, <2>1, <2>2
<1>8. CASE ShareGL(q, L, w)
  BY <1>1, <1>2, <1>3, <1>8 DEF ShareGL, EnqueueAcquireGLObjects, EnqueueReleaseGLObjects
<1>9. CASE EnqueueMarker(q, w)
  BY <1>2, <1>9 DEF EnqueueMarker, Enqueues
<1>10. CASE EnqueueWaitForEvents(q, L)
  BY <1>2, <1>10 DEF EnqueueWaitForEvents, Enqueues
<1>. QED BY <1>4, <1>5, <1>6, <1>7, <1>8, <1>9, <1>10 DEF Enqueues

LEMMA QueueInvStep == QueueInv /\ [Next]_vars => QueueInv'
<1>. SUFFICES ASSUME QueueInv, [Next]_vars PROVE QueueInv'
  OBVIOUS
<1>1. CASE UNCHANGED vars
  <2>1. UNCHANGED <<cmd, content, event, mapped, block, named, order, known, expected>>
    BY <1>1 DEF vars, history
  <2>2. TypeOK' /\ CommandsExact' /\ EventsExact' /\ OrderKept' /\ KnownIsOver'
    BY <2>1 DEF QueueInv, TypeOK, CommandsExact, EventsExact, OrderKept, KnownIsOver, Issued, Over
  <2>3. Kept /\ Issued' = Issued
    BY <2>1 DEF Kept, Issued, Over
  <2>4. OrderGrounded' /\ BlockGrounded'
    BY <2>1, <2>3, GroundedKept, BlockKept DEF QueueInv, OrderGrounded, CommandsExact
  <2>. QED BY <2>2, <2>4 DEF QueueInv
<1>2. ASSUME NEW q \in Queues, NEW L \in SUBSET Wrappers, NEW w \in Wrappers \cup {NULL},
             \/ Launch(q, L, w) \/ Transfer(q, L, w) \/ Copy(q, L, w) \/ Map(q, L, w)
             \/ ShareGL(q, L, w) \/ Synchronize(q, L, w)
      PROVE  QueueInv'
  <2>1. CASE EnqueueBarrier(q, L)
    BY <2>1, BarrierAloneStep, BarrierAndWaitStep DEF EnqueueBarrier
  <2>2. CASE ~EnqueueBarrier(q, L)
    <3>1. TypeOK
      BY DEF QueueInv
    <3>2. \/ Launch(q, L, w) \/ Transfer(q, L, w) \/ Copy(q, L, w) \/ Map(q, L, w)
          \/ ShareGL(q, L, w) \/ EnqueueMarker(q, w) \/ EnqueueWaitForEvents(q, L)
      BY <1>2, <2>2 DEF Synchronize
    <3>3. /\ \E kind \in Kinds, K \in SUBSET Wrappers, v \in Wrappers \cup {NULL},
                src \in Places \cup {NULL}, dst \in Places \cup {NULL}, blocking \in BOOLEAN :
                Enqueue(q, kind, K, v, src, dst, blocking)
          /\ mapped' \subseteq Mappable
      BY <3>1, <3>2, CallsEnqueue
    <3>. QED BY <3>3, EnqueueStep
  <2>. QED BY <2>1, <2>2
<1>3. ASSUME NEW q \in Queues, Finish(q) PROVE QueueInv'
  BY <1>3, BlockOnStep DEF Finish
<1>4. ASSUME NEW L \in SUBSET Wrappers, WaitForEvents(L) PROVE QueueInv'
  <2>1. \A v \in L : event[v] \in Issued /\ named[v] = event[v]
    BY <1>4 DEF WaitForEvents, QueueInv, EventsExact
  <2>2. WaitList(L) = {named[v] : v \in L} /\ WaitList(L) \in SUBSET Issued
    BY <2>1 DEF WaitList
  <2>. QED BY <1>4, <2>2, BlockOnStep DEF WaitForEvents
<1>5. CASE Script
  BY <1>2, <1>3, <1>4, <1>5, StoreStep DEF Script
<1>6. CASE Runtime
  BY <1>6, StartStep, EndStep DEF Runtime
<1>7. CASE Unblock
  BY <1>7, UnblockStep
<1>. QED BY <1>1, <1>5, <1>6, <1>7 DEF Next

THEOREM QueueInvariant == Spec => []QueueInv
BY QueueInvInit, QueueInvStep, PTL DEF Spec

\* The records of commands, events, mappings and promises keep their types,
\* whatever the script enqueues.
THEOREM TypesKept == Spec => []TypeOK
<1>1. QueueInv => TypeOK
  BY DEF QueueInv
<1>. QED BY <1>1, QueueInvariant, PTL

\* A command starts only when all that MakeEventWaitList, in-order queues,
\* markers, barriers and waits put before it is over, directly or not.
THEOREM StartsInOrder == Spec => []OrderKept
<1>1. QueueInv => OrderKept
  BY DEF QueueInv
<1>. QED BY <1>1, QueueInvariant, PTL

\* When a blocking transfer, finish or waitForEvents has returned, what it was
\* for is over, and what had to come before that.
THEOREM BlockingWaits == Spec => []KnownIsOver
<1>1. QueueInv => KnownIsOver
  BY DEF QueueInv
<1>. QED BY <1>1, QueueInvariant, PTL

=============================================================================
