------------------------ MODULE CommandQueueData_proofs ------------------------
(***************************************************************************)
(* A careful script finds in its arrays and mapped Buffers what it would   *)
(* find if every command had run at the call that enqueued it: the proof   *)
(* of ReadsAreSequential for any number of commands, places and queues.    *)
(***************************************************************************)
EXTENDS CommandQueue_proofs

Values == Commands \cup Places

\* Do d and c touch one place, and does one of them write it?
Conflict(d, c) ==
  \/ cmd[d].dst # NULL /\ cmd[d].dst \in {cmd[c].src, cmd[c].dst}
  \/ cmd[d].src # NULL /\ cmd[d].src = cmd[c].dst

\* What carefulness gives: of two commands in conflict the second was promised
\* to come after the first, or enqueued when the first was over.
RaceFree ==
  \A c, d \in Issued : d < c /\ Conflict(d, c) => d \in order[c] \/ Over(d)

Writers(p)    == {c \in Issued : cmd[c].dst = p}
Earlier(p, c) == {d \in Writers(p) : d < c}
Written(p)    == {c \in Writers(p) : Over(c)}

\* x is what the last command of S writes, or what place p held at the start.
LastOf(V, S, p, x) ==
  \/ S = {} /\ x = p
  \/ \E c \in S : (\A d \in S : d <= c) /\ x = V[c]

\* V[c] is the value command c writes when each runs at its call.
ValueOf(V, c) ==
  IF cmd[c].src = NULL THEN V[c] = c
  ELSE LastOf(V, Earlier(cmd[c].src, c), cmd[c].src, V[c])

DataExact(V) ==
  /\ V \in [Commands -> Values]
  /\ \A c \in Issued : cmd[c].dst # NULL => ValueOf(V, c)
  /\ \A p \in Places : /\ LastOf(V, Written(p), p, content[p])
                       /\ LastOf(V, Writers(p), p, expected[p])
  /\ \A c \in Issued : cmd[c].state = "running" /\ cmd[c].dst # NULL => cmd[c].val = V[c]

DataInv == RaceFree /\ \E V \in [Commands -> Values] : DataExact(V)

-----------------------------------------------------------------------------

\* A command starts when all the earlier commands in conflict with it are over.
LEMMA ConflictsOver ==
  ASSUME QueueInv, RaceFree
  PROVE  \A c, d \in Issued : /\ d < c /\ Conflict(d, c)
                              /\ cmd[c].state \in {"running", "over"}
                              => Over(d)
BY DEF QueueInv, OrderKept, RaceFree, Issued

LEMMA LastOfKept ==
  ASSUME NEW V, NEW U, NEW S, NEW p, NEW x, \A c \in S : U[c] = V[c], LastOf(V, S, p, x)
  PROVE  LastOf(U, S, p, x)
BY DEF LastOf

\* With one writer c more, later than the others, c's value is the last one.
LEMMA LastOfNext ==
  ASSUME NEW V, NEW S \in SUBSET Commands, NEW p, NEW c \in Commands, c \in S,
         \A d \in S : d # c => d < c
  PROVE  LastOf(V, S, p, V[c])
<1>1. \A d \in S : d <= c
  BY QueueAssumption DEF Commands
<1>. QED BY <1>1 DEF LastOf

LEMMA CommandTypes ==
  ASSUME TypeOK
  PROVE  /\ Issued \subseteq Commands /\ Commands \subseteq Nat
         /\ \A c \in Commands : /\ cmd[c] \in CommandRecord
                                /\ cmd[c].src \in Places \cup {NULL}
                                /\ cmd[c].dst \in Places \cup {NULL}
         /\ content \in [Places -> Values] /\ expected \in [Places -> Values]
         /\ NULL \notin Places
<1>1. cmd \in [Commands -> CommandRecord]
  BY DEF TypeOK, CommandRecord, Kinds
<1>. QED BY <1>1, QueueAssumption DEF TypeOK, CommandRecord, Issued, Values, Commands

\* A step that moves no data: the commands issued before stay as they are, what
\* is new neither reads nor writes.
LEMMA NoDataStep ==
  ASSUME QueueInv, DataInv, Issued \subseteq Issued',
         \A c \in Issued : cmd'[c] = cmd[c] /\ order'[c] = order[c],
         \A c \in Issued' : c \notin Issued =>
           cmd'[c].src = NULL /\ cmd'[c].dst = NULL,
         UNCHANGED <<content, expected>>
  PROVE  DataInv'
<1>1. NULL \notin Places
  BY CommandTypes DEF QueueInv
<1>2. \A c, d \in Issued' : Conflict(d, c)' => c \in Issued /\ d \in Issued /\ Conflict(d, c)
  BY DEF Conflict
<1>3. \A c \in Issued : Over(c)' <=> Over(c)
  BY DEF Over
<1>4. RaceFree'
  BY <1>2, <1>3 DEF RaceFree, DataInv
<1>5. PICK V \in [Commands -> Values] : DataExact(V)
  BY DEF DataInv
<1>6. \A p \in Places : Writers(p)' = Writers(p) /\ Written(p)' = Written(p)
  BY <1>1, <1>3 DEF Writers, Written
<1>7. \A p \in Places, c \in Issued : Earlier(p, c)' = Earlier(p, c)
  BY <1>6 DEF Earlier
<1>8. ASSUME NEW c \in Issued', cmd'[c].dst # NULL PROVE ValueOf(V, c)'
  <2>1. c \in Issued /\ cmd'[c] = cmd[c] /\ ValueOf(V, c)
    BY <1>5, <1>8 DEF DataExact
  <2>2. cmd[c].src = NULL \/ cmd[c].src \in Places
    BY <2>1, CommandTypes DEF QueueInv
  <2>. QED BY <1>7, <2>1, <2>2 DEF ValueOf
<1>9. \A p \in Places : LastOf(V, Written(p), p, content[p])' /\ LastOf(V, Writers(p), p, expected[p])'
  <2>1. \A p \in Places : LastOf(V, Written(p), p, content[p]) /\ LastOf(V, Writers(p), p, expected[p])
    BY <1>5 DEF DataExact
  <2>. QED BY <1>6, <2>1 DEF LastOf
<1>10. \A c \in Issued' : cmd'[c].state = "running" /\ cmd'[c].dst # NULL => cmd'[c].val = V[c]
  BY <1>5 DEF DataExact
<1>11. DataExact(V)'
  BY <1>8, <1>9, <1>10 DEF DataExact, Values
<1>. QED BY <1>4, <1>11 DEF DataInv, Values

-----------------------------------------------------------------------------
(* The commands and stores of a careful script *)

\* A new command c, from src to dst, after all the others: when those that touch
\* its data are promised to come first, or over, the data stay exact.
LEMMA NewCommandData ==
  ASSUME QueueInv, DataInv, NEW c \in Commands, c \notin Issued,
         \A d \in Issued : d < c, Issued' = Issued \cup {c},
         \A d \in Issued : cmd'[d] = cmd[d] /\ order'[d] = order[d],
         NEW src \in Places \cup {NULL}, NEW dst \in Places \cup {NULL},
         cmd'[c].src = src, cmd'[c].dst = dst, cmd'[c].state # "running",
         \A d \in Issued :
           \/ cmd[d].dst # NULL /\ cmd[d].dst \in {src, dst}
           \/ cmd[d].src # NULL /\ cmd[d].src = dst
           => d \in order'[c] \/ Over(d),
         NEW x, src = NULL => x = c, src # NULL => x = expected[src],
         dst = NULL => expected' = expected,
         dst # NULL => expected' = [expected EXCEPT ![dst] = x],
         \/ ~Over(c)' /\ content' = content
         \/ /\ Over(c)' /\ dst # NULL /\ \A d \in Writers(dst) : Over(d)
            /\ content' = [content EXCEPT ![dst] = x]
  PROVE  DataInv'
<1>1. /\ NULL \notin Places /\ Issued \subseteq Commands /\ Commands \subseteq Nat
      /\ content \in [Places -> Values] /\ expected \in [Places -> Values]
      /\ \A d \in Issued : cmd[d].src \in Places \cup {NULL}
  BY CommandTypes DEF QueueInv
<1>2. \A d \in Issued : Over(d)' <=> Over(d)
  BY DEF Over
<1>3. RaceFree'
  <2>. SUFFICES ASSUME NEW e \in Issued', NEW d \in Issued', d < e, Conflict(d, e)'
                PROVE  d \in order'[e] \/ Over(d)'
    BY DEF RaceFree
  <2>1. d \in Issued
    BY <1>1
  <2>2. CASE e = c
    BY <1>2, <2>1, <2>2 DEF Conflict
  <2>3. CASE e \in Issued
    BY <1>2, <2>1, <2>3 DEF Conflict, RaceFree, DataInv
  <2>. QED BY <2>2, <2>3
<1>4. PICK V \in [Commands -> Values] : DataExact(V)
  BY DEF DataInv
<1>5. x \in Values
  BY <1>1 DEF Values
<1>6. PICK U \in [Commands -> Values] : U[c] = x /\ \A d \in Issued : U[d] = V[d]
  <2>1. [V EXCEPT ![c] = x] \in [Commands -> Values]
    BY <1>5
  <2>2. [V EXCEPT ![c] = x][c] = x /\ \A d \in Issued : [V EXCEPT ![c] = x][d] = V[d]
    BY <1>1
  <2>. QED BY <2>1, <2>2
<1>7. \A p \in Places : /\ Writers(p)' = IF p = dst THEN Writers(p) \cup {c} ELSE Writers(p)
                        /\ Written(p)' = IF p = dst /\ Over(c)' THEN Written(p) \cup {c} ELSE Written(p)
  BY <1>2 DEF Writers, Written
<1>8. \A p \in Places : /\ \A d \in Issued : Earlier(p, d)' = Earlier(p, d)
                        /\ Earlier(p, c)' = Writers(p)
  <2>1. \A d \in Issued : ~(c < d)
    BY <1>1
  <2>2. \A p \in Places : Writers(p) \subseteq Issued
    BY DEF Writers
  <2>3. ~(c < c)
    BY <1>1
  <2>. SUFFICES ASSUME NEW p \in Places
                PROVE  /\ \A d \in Issued : Earlier(p, d)' = Earlier(p, d)
                       /\ Earlier(p, c)' = Writers(p)
    OBVIOUS
  <2>4. Writers(p)' = Writers(p) \/ Writers(p)' = Writers(p) \cup {c}
    BY <1>7
  <2>. QED BY <2>1, <2>2, <2>3, <2>4 DEF Earlier
<1>9. \A p \in Places : /\ Writers(p) \subseteq Issued /\ Written(p) \subseteq Issued
                        /\ LastOf(V, Written(p), p, content[p])
                        /\ LastOf(V, Writers(p), p, expected[p])
  BY <1>4 DEF DataExact, Writers, Written
<1>10. \A p \in Places : /\ LastOf(U, Written(p), p, content[p])
                         /\ LastOf(U, Writers(p), p, expected[p])
  BY <1>6, <1>9, LastOfKept
<1>11. ASSUME NEW d \in Issued', cmd'[d].dst # NULL PROVE ValueOf(U, d)'
  <2>1. CASE d \in Issued
    <3>1. ValueOf(V, d) /\ cmd'[d] = cmd[d]
      BY <1>4, <1>11, <2>1 DEF DataExact
    <3>2. CASE cmd[d].src = NULL
      BY <1>6, <2>1, <3>1, <3>2 DEF ValueOf
    <3>3. CASE cmd[d].src \in Places
      <4>1. /\ LastOf(V, Earlier(cmd[d].src, d), cmd[d].src, V[d])
            /\ \A e \in Earlier(cmd[d].src, d) : U[e] = V[e]
        BY <1>1, <1>6, <3>1, <3>3 DEF ValueOf, Earlier, Writers
      <4>2. LastOf(U, Earlier(cmd[d].src, d), cmd[d].src, V[d])
        BY <4>1, LastOfKept
      <4>3. Earlier(cmd[d].src, d)' = Earlier(cmd[d].src, d) /\ U[d] = V[d]
        BY <1>6, <1>8, <2>1, <3>1, <3>3
      <4>. QED BY <1>1, <3>1, <3>3, <4>2, <4>3 DEF ValueOf, LastOf
    <3>. QED BY <1>1, <2>1, <3>2, <3>3
  <2>2. CASE d = c /\ src = NULL
    BY <1>6, <2>2 DEF ValueOf
  <2>3. CASE d = c /\ src # NULL
    <3>1. LastOf(U, Writers(src), src, expected[src]) /\ Earlier(src, c)' = Writers(src)
      BY <1>8, <1>10, <2>3
    <3>. QED BY <1>6, <2>3, <3>1 DEF ValueOf, LastOf
  <2>. QED BY <2>1, <2>2, <2>3
<1>12. ASSUME NEW p \in Places PROVE LastOf(U, Writers(p), p, expected[p])'
  <2>1. CASE p = dst
    <3>1. Writers(p)' = Writers(p) \cup {c} /\ expected'[p] = U[c]
      BY <1>1, <1>6, <1>7, <2>1
    <3>2. LastOf(U, Writers(p) \cup {c}, p, U[c])
      BY <1>1, <1>9, LastOfNext
    <3>. QED BY <3>1, <3>2 DEF LastOf
  <2>2. CASE p # dst
    BY <1>1, <1>7, <1>10, <2>2 DEF LastOf
  <2>. QED BY <2>1, <2>2
<1>13. ASSUME NEW p \in Places PROVE LastOf(U, Written(p), p, content[p])'
  <2>1. CASE p = dst /\ Over(c)'
    <3>1. Written(p)' = Written(p) \cup {c} /\ content'[p] = U[c]
      BY <1>1, <1>6, <1>7, <2>1
    <3>2. LastOf(U, Written(p) \cup {c}, p, U[c])
      BY <1>1, <1>9, LastOfNext
    <3>. QED BY <3>1, <3>2 DEF LastOf
  <2>2. CASE p # dst \/ ~Over(c)'
    <3>1. Written(p)' = Written(p) /\ content'[p] = content[p]
      BY <1>1, <1>7, <2>2
    <3>. QED BY <1>10, <3>1 DEF LastOf
  <2>. QED BY <2>1, <2>2
<1>14. \A d \in Issued' : cmd'[d].state = "running" /\ cmd'[d].dst # NULL => cmd'[d].val = U[d]
  BY <1>4, <1>6 DEF DataExact
<1>15. DataExact(U)'
  BY <1>6, <1>11, <1>12, <1>13, <1>14 DEF DataExact, Values
<1>. QED BY <1>3, <1>6, <1>15 DEF DataInv, Values

LEMMA EnqueueData ==
  ASSUME Careful, QueueInv, DataInv, NEW q \in Queues, NEW kind \in Kinds,
         NEW L \in SUBSET Wrappers, NEW w \in Wrappers \cup {NULL},
         NEW src \in Places \cup {NULL}, NEW dst \in Places \cup {NULL},
         NEW blocking \in BOOLEAN, Enqueue(q, kind, L, w, src, dst, blocking)
  PROVE  DataInv'
<1> DEFINE promised == Promised(q, kind, L)
           record   == [Unused EXCEPT !.state = "queued", !.queue = q, !.kind = kind,
                                      !.on = WaitList(L), !.src = src, !.dst = dst]
<1>1. PICK c \in Commands :
        /\ Fresh(c)
        /\ Orders(promised, src, dst)
        /\ cmd' = [cmd EXCEPT ![c] = record]
        /\ order' = [order EXCEPT ![c] = promised]
        /\ expected' = IF dst = NULL THEN expected
                       ELSE [expected EXCEPT ![dst] = IF src = NULL THEN c ELSE expected[src]]
        /\ content' = content
  BY Zenon DEF Enqueue
<1>2. c \notin Issued /\ \A d \in Issued : d < c
  BY <1>1, FreshIsNext DEF QueueInv
<1>3. record.src = src /\ record.dst = dst /\ record.state = "queued"
  BY DEF Unused
<1>4. cmd \in [Commands -> CommandRecord] /\ order \in [Commands -> SUBSET Commands]
  BY DEF QueueInv, TypeOK, CommandRecord, Kinds
<1>. HIDE DEF promised, record
<1>5. /\ cmd'[c] = record /\ order'[c] = promised
      /\ \A d \in Commands : d # c => cmd'[d] = cmd[d] /\ order'[d] = order[d]
  BY <1>1, <1>4
<1>6. Issued' = Issued \cup {c} /\ \A d \in Issued : cmd'[d] = cmd[d] /\ order'[d] = order[d]
  BY <1>2, <1>3, <1>5 DEF Issued
<1>7. ASSUME NEW d \in Issued, \/ cmd[d].dst # NULL /\ cmd[d].dst \in {src, dst}
                               \/ cmd[d].src # NULL /\ cmd[d].src = dst
      PROVE  d \in order'[c] \/ Over(d)
  <2>1. CASE d \in known
    BY <2>1 DEF QueueInv, KnownIsOver
  <2>2. CASE d \notin known
    BY <1>1, <1>5, <1>7, <2>2 DEF Orders, Writing, Touching
  <2>. QED BY <2>1, <2>2
<1>8. ~Over(c)' /\ content' = content
  BY <1>1, <1>3, <1>5 DEF Over
<1> DEFINE x == IF src = NULL THEN c ELSE expected[src]
<1>9. /\ src = NULL => x = c
      /\ src # NULL => x = expected[src]
      /\ dst = NULL => expected' = expected
      /\ dst # NULL => expected' = [expected EXCEPT ![dst] = x]
  BY <1>1
<1>10. cmd'[c].src = src /\ cmd'[c].dst = dst /\ cmd'[c].state # "running"
  BY <1>3, <1>5
<1>. HIDE DEF x
<1>. QED BY <1>2, <1>6, <1>7, <1>8, <1>9, <1>10, NewCommandData

LEMMA StoreData ==
  ASSUME Careful, QueueInv, DataInv, NEW p \in Places, Store(p)
  PROVE  DataInv'
<1> DEFINE record == [Unused EXCEPT !.state = "over", !.kind = "store", !.dst = p]
<1>1. PICK c \in Commands :
        /\ Fresh(c)
        /\ Touching(p) = {}
        /\ cmd' = [cmd EXCEPT ![c] = record]
        /\ content' = [content EXCEPT ![p] = c]
        /\ expected' = [expected EXCEPT ![p] = c]
        /\ order' = order
  BY Zenon DEF Store
<1>2. c \notin Issued /\ \A d \in Issued : d < c
  BY <1>1, FreshIsNext DEF QueueInv
<1>3. record.src = NULL /\ record.dst = p /\ record.state = "over"
  BY DEF Unused
<1>4. cmd \in [Commands -> CommandRecord] /\ NULL \notin Places
  BY CommandTypes DEF QueueInv, TypeOK, CommandRecord, Kinds
<1>. HIDE DEF record
<1>5. cmd'[c] = record /\ \A d \in Commands : d # c => cmd'[d] = cmd[d]
  BY <1>1, <1>4
<1>6. /\ Issued' = Issued \cup {c} /\ Over(c)'
      /\ \A d \in Issued : cmd'[d] = cmd[d] /\ order'[d] = order[d]
  BY <1>1, <1>2, <1>3, <1>5 DEF Issued, Over
<1>7. ASSUME NEW d \in Issued, p \in {cmd[d].src, cmd[d].dst} PROVE Over(d)
  BY <1>1, <1>7 DEF Touching, QueueInv, KnownIsOver
<1>8. \A d \in Writers(p) : Over(d)
  BY <1>7 DEF Writers
<1>9. /\ NULL \in Places \cup {NULL} /\ p \in Places \cup {NULL} /\ p # NULL
      /\ cmd'[c].src = NULL /\ cmd'[c].dst = p /\ cmd'[c].state # "running"
  BY <1>3, <1>4, <1>5
<1>. QED BY <1>1, <1>2, <1>6, <1>7, <1>8, <1>9, NewCommandData

-----------------------------------------------------------------------------
(* The runtime *)

LEMMA LastOfUnique ==
  ASSUME NEW V, NEW S \in SUBSET Commands, NEW p, NEW x, NEW y,
         LastOf(V, S, p, x), LastOf(V, S, p, y)
  PROVE  x = y
<1>1. \A c, d \in S : c <= d /\ d <= c => c = d
  BY QueueAssumption DEF Commands
<1>. QED BY <1>1 DEF LastOf

\* Nothing that conflicts with a command that is not over was overtaken.
LEMMA NoneOvertakes ==
  ASSUME QueueInv, RaceFree, NEW c \in Issued, ~Over(c), NEW d \in Issued, Over(d),
         \/ cmd[c].dst # NULL /\ cmd[c].dst = cmd[d].dst
         \/ cmd[c].src # NULL /\ cmd[c].src = cmd[d].dst
  PROVE  d < c
<1>1. c \in Nat /\ d \in Nat /\ c # d
  BY CommandTypes DEF QueueInv
<1>2. ~(c < d)
  BY ConflictsOver DEF Conflict, Over
<1>. QED BY <1>1, <1>2

\* What stays when command c goes on to its next state.
LEMMA CommandGoesOn ==
  ASSUME QueueInv, RaceFree, NEW V \in [Commands -> Values], DataExact(V), NEW c \in Issued,
         cmd'[c].state # "unused", cmd'[c].src = cmd[c].src, cmd'[c].dst = cmd[c].dst, ~Over(c),
         \A d \in Commands : d # c => cmd'[d] = cmd[d], order' = order, expected' = expected
  PROVE  /\ RaceFree' /\ Issued' = Issued
         /\ \A p \in Places : Writers(p)' = Writers(p)
         /\ \A d \in Issued' : cmd'[d].dst # NULL => ValueOf(V, d)'
         /\ \A p \in Places : LastOf(V, Writers(p), p, expected[p])'
<1>1. Issued' = Issued /\ NULL \notin Places /\ \A d \in Issued : cmd[d].src \in Places \cup {NULL}
  BY CommandTypes DEF Issued, QueueInv
<1>2. \A d \in Issued : cmd'[d].src = cmd[d].src /\ cmd'[d].dst = cmd[d].dst /\ (Over(d) => Over(d)')
  BY DEF Issued, Over
<1>3. RaceFree'
  BY <1>1, <1>2 DEF RaceFree, Conflict
<1>4. \A p \in Places : Writers(p)' = Writers(p)
  BY <1>1, <1>2 DEF Writers
<1>5. \A p \in Places, d \in Issued : Earlier(p, d)' = Earlier(p, d)
  BY <1>4 DEF Earlier
<1>6. ASSUME NEW d \in Issued', cmd'[d].dst # NULL PROVE ValueOf(V, d)'
  <2>1. /\ d \in Issued /\ ValueOf(V, d) /\ cmd'[d].src = cmd[d].src
        /\ cmd[d].src \in Places \cup {NULL}
    BY <1>1, <1>2, <1>6 DEF DataExact
  <2>. QED BY <1>5, <2>1 DEF ValueOf
<1>7. \A p \in Places : LastOf(V, Writers(p), p, expected[p])'
  <2>1. \A p \in Places : LastOf(V, Writers(p), p, expected[p])
    BY DEF DataExact
  <2>. QED BY <1>4, <2>1 DEF LastOf
<1>. QED BY <1>1, <1>3, <1>4, <1>6, <1>7

\* When a command starts, the writers of its source that are over are those
\* enqueued before it: it reads what it would have read at its call.
LEMMA StartData ==
  ASSUME QueueInv, DataInv, NEW c \in Commands, Start(c)
  PROVE  DataInv'
<1> DEFINE val == IF cmd[c].dst = NULL THEN NULL
                  ELSE IF cmd[c].src = NULL THEN c ELSE content[cmd[c].src]
<1>1. /\ cmd[c].state = "queued" /\ c \in Issued /\ ~Over(c)
      /\ UNCHANGED <<content, order, expected>>
  BY DEF Start, Issued, Over, history
<1>2. /\ cmd'[c].state = "running" /\ cmd'[c].val = val
      /\ cmd'[c].src = cmd[c].src /\ cmd'[c].dst = cmd[c].dst
      /\ \A d \in Commands : d # c => cmd'[d] = cmd[d]
  <2>. HIDE DEF val
  <2>1. cmd' = [cmd EXCEPT ![c].state = "running", ![c].val = val]
    BY Zenon DEF Start, val
  <2>2. cmd \in [Commands -> CommandRecord]
    BY DEF QueueInv, TypeOK, CommandRecord, Kinds
  <2>. QED BY <2>1, <2>2 DEF CommandRecord
<1>3. PICK V \in [Commands -> Values] : DataExact(V) /\ RaceFree
  BY DEF DataInv
<1>4. /\ RaceFree' /\ Issued' = Issued
      /\ \A p \in Places : Writers(p)' = Writers(p)
      /\ \A d \in Issued' : cmd'[d].dst # NULL => ValueOf(V, d)'
      /\ \A p \in Places : LastOf(V, Writers(p), p, expected[p])'
  <2>. HIDE DEF val
  <2>1. cmd'[c].state # "unused"
    BY <1>2
  <2>. QED BY <1>1, <1>2, <1>3, <2>1, CommandGoesOn
<1>5. \A p \in Places : LastOf(V, Written(p), p, content[p])'
  <2>1. \A d \in Issued : Over(d)' <=> Over(d)
    BY <1>1, <1>2 DEF Over, Issued
  <2>2. \A p \in Places : Written(p)' = Written(p)
    BY <1>4, <2>1 DEF Written, Writers
  <2>3. \A p \in Places : LastOf(V, Written(p), p, content[p])
    BY <1>3 DEF DataExact
  <2>. QED BY <1>1, <2>2, <2>3 DEF LastOf
<1>6. ASSUME cmd[c].dst # NULL PROVE val = V[c]
  <2>1. ValueOf(V, c) /\ cmd[c].src \in Places \cup {NULL}
    BY <1>1, <1>3, <1>6, CommandTypes DEF DataExact, QueueInv
  <2>2. CASE cmd[c].src = NULL
    BY <1>6, <2>1, <2>2 DEF ValueOf
  <2>3. CASE cmd[c].src # NULL
    <3> DEFINE p == cmd[c].src
    <3>1. p \in Places /\ val = content[p] /\ LastOf(V, Earlier(p, c), p, V[c])
      BY <1>6, <2>1, <2>3 DEF ValueOf
    <3>2. LastOf(V, Written(p), p, content[p])
      BY <1>3, <3>1 DEF DataExact
    <3>3. ASSUME NEW d \in Writers(p), d < c PROVE Over(d)
      <4>1. d \in Issued /\ d # c /\ (d \in order[c] \/ Over(d))
        BY <1>1, <1>3, <2>3, <3>3, CommandTypes DEF Writers, Conflict, RaceFree, QueueInv
      <4>2. CASE d \in order[c]
        <5>1. OrderKept' /\ c \in Commands
          BY StartStep DEF QueueInv
        <5>2. Over(d)'
          BY <1>1, <1>2, <4>2, <5>1 DEF OrderKept
        <5>. QED BY <1>2, <4>1, <5>2 DEF Over, Issued
      <4>. QED BY <4>1, <4>2
    <3>4. ASSUME NEW d \in Written(p) PROVE d < c
      BY <1>1, <1>3, <2>3, <3>4, NoneOvertakes DEF Written, Writers
    <3>5. Earlier(p, c) = Written(p) /\ Written(p) \in SUBSET Commands
      BY <3>3, <3>4 DEF Earlier, Written, Writers, Issued
    <3>. HIDE DEF p
    <3>. QED BY <3>1, <3>2, <3>5, LastOfUnique
  <2>. QED BY <2>2, <2>3
<1>7. \A d \in Issued' : cmd'[d].state = "running" /\ cmd'[d].dst # NULL => cmd'[d].val = V[d]
  <2>. HIDE DEF val
  <2>1. \A d \in Issued : cmd[d].state = "running" /\ cmd[d].dst # NULL => cmd[d].val = V[d]
    BY <1>3 DEF DataExact
  <2>. QED BY <1>2, <1>4, <1>6, <2>1 DEF Issued
<1>8. DataExact(V)'
  BY <1>4, <1>5, <1>7 DEF DataExact, Values
<1>. QED BY <1>4, <1>8 DEF DataInv, Values

\* When it ends, no later writer of its destination is over: it is the last.
LEMMA EndData ==
  ASSUME QueueInv, DataInv, NEW c \in Commands, End(c)
  PROVE  DataInv'
<1>1. /\ cmd[c].state = "running" /\ c \in Issued /\ ~Over(c)
      /\ UNCHANGED <<order, expected>>
  BY DEF End, Issued, Over, history
<1>2. /\ cmd'[c].state = "over" /\ cmd'[c].src = cmd[c].src /\ cmd'[c].dst = cmd[c].dst
      /\ \A d \in Commands : d # c => cmd'[d] = cmd[d]
  <2>1. cmd \in [Commands -> CommandRecord]
    BY DEF QueueInv, TypeOK, CommandRecord, Kinds
  <2>. QED BY <2>1 DEF End, CommandRecord
<1>3. PICK V \in [Commands -> Values] : DataExact(V) /\ RaceFree
  BY DEF DataInv
<1>4. /\ RaceFree' /\ Issued' = Issued
      /\ \A p \in Places : Writers(p)' = Writers(p)
      /\ \A d \in Issued' : cmd'[d].dst # NULL => ValueOf(V, d)'
      /\ \A p \in Places : LastOf(V, Writers(p), p, expected[p])'
  <2>1. cmd'[c].state # "unused"
    BY <1>2
  <2>. QED BY <1>1, <1>2, <1>3, <2>1, CommandGoesOn
<1>5. ASSUME NEW p \in Places PROVE LastOf(V, Written(p), p, content[p])'
  <2>1. /\ LastOf(V, Written(p), p, content[p]) /\ Written(p) \subseteq Issued
        /\ content \in [Places -> Values] /\ NULL \notin Places /\ Issued \subseteq Commands
    BY <1>3, CommandTypes DEF DataExact, Written, Writers, QueueInv
  <2>2. CASE p = cmd[c].dst
    <3>1. Written(p)' = Written(p) \cup {c}
      BY <1>1, <1>2, <1>4, <2>2 DEF Written, Writers, Over, Issued
    <3>2. content'[p] = V[c]
      BY <1>1, <1>3, <2>1, <2>2 DEF End, DataExact
    <3>3. \A d \in Written(p) : d < c
      BY <1>1, <1>3, <2>1, <2>2, NoneOvertakes DEF Written, Writers
    <3>4. LastOf(V, Written(p) \cup {c}, p, V[c])
      BY <2>1, <3>3, LastOfNext
    <3>. QED BY <3>1, <3>2, <3>4 DEF LastOf
  <2>3. CASE p # cmd[c].dst
    <3>1. Written(p)' = Written(p)
      BY <1>1, <1>2, <1>4, <2>3 DEF Written, Writers, Over, Issued
    <3>2. content'[p] = content[p]
      BY <2>1, <2>3 DEF End
    <3>. QED BY <2>1, <3>1, <3>2 DEF LastOf
  <2>. QED BY <2>2, <2>3
<1>6. \A d \in Issued' : cmd'[d].state = "running" /\ cmd'[d].dst # NULL => cmd'[d].val = V[d]
  BY <1>2, <1>3, <1>4 DEF DataExact, Issued
<1>7. DataExact(V)'
  BY <1>4, <1>5, <1>6 DEF DataExact, Values
<1>. QED BY <1>4, <1>7 DEF DataInv, Values

-----------------------------------------------------------------------------
(* The specification *)

LEMMA DataInit == Init => DataInv
<1>. SUFFICES ASSUME Init PROVE DataInv
  OBVIOUS
<1>1. Issued = {}
  BY DEF Init, Issued, Unused
<1>2. RaceFree /\ \A p \in Places : Written(p) = {} /\ Writers(p) = {}
  BY <1>1 DEF RaceFree, Written, Writers
<1>3. \A p \in Places : content[p] = p /\ expected[p] = p
  BY DEF Init
<1>4. PICK V \in [Commands -> Values] : TRUE
  <2>1. [c \in Commands |-> c] \in [Commands -> Values]
    BY DEF Values
  <2>. QED BY <2>1
<1>5. DataExact(V)
  BY <1>1, <1>2, <1>3 DEF DataExact, LastOf
<1>. QED BY <1>2, <1>5 DEF DataInv

\* A step that leaves commands and data alone.
LEMMA IdleData ==
  ASSUME QueueInv, DataInv, UNCHANGED <<cmd, order, content, expected>>
  PROVE  DataInv'
<1>1. Issued' = Issued
  BY DEF Issued
<1>. QED BY <1>1, NoDataStep

LEMMA BarrierData ==
  ASSUME QueueInv, DataInv, NEW q \in Queues, NEW L \in SUBSET Wrappers, EnqueueBarrier(q, L)
  PROVE  DataInv'
<1>1. cmd \in [Commands -> CommandRecord] /\ order \in [Commands -> SUBSET Commands]
  BY DEF QueueInv, TypeOK, CommandRecord, Kinds
<1> DEFINE barrier == [Unused EXCEPT !.state = "queued", !.queue = q, !.kind = "barrier"]
           fence   == [Unused EXCEPT !.state = "queued", !.queue = q, !.kind = "fence",
                                     !.on = WaitList(L)]
<1>2. barrier.src = NULL /\ barrier.dst = NULL /\ fence.src = NULL /\ fence.dst = NULL
      /\ barrier.state = "queued" /\ fence.state = "queued"
  BY DEF Unused
<1>3. CASE EnqueueBarrierAlone(q)
  <2>1. PICK c \in Commands :
          /\ Fresh(c) /\ cmd' = [cmd EXCEPT ![c] = barrier]
          /\ order' = [order EXCEPT ![c] = Promised(q, "barrier", {})]
          /\ UNCHANGED <<content, expected>>
    BY <1>3, Zenon DEF EnqueueBarrierAlone
  <2>2. c \notin Issued
    BY <2>1, FreshIsNext DEF QueueInv
  <2>. HIDE DEF barrier, fence
  <2>3. /\ cmd'[c] = barrier
        /\ \A d \in Commands : d # c => cmd'[d] = cmd[d] /\ order'[d] = order[d]
    BY <1>1, <2>1
  <2>4. Issued' = Issued \cup {c}
    BY <1>2, <2>3 DEF Issued
  <2>. QED BY <1>2, <2>1, <2>2, <2>3, <2>4, NoDataStep DEF Issued
<1>4. CASE EnqueueBarrierAndWait(q, L)
  <2>1. PICK c \in Commands, both \in BOOLEAN :
          /\ Fresh(c) /\ c < MaxCommands
          /\ cmd' = [d \in Commands |-> CASE d = c -> barrier
                                          [] d = c + 1 /\ both -> fence
                                          [] OTHER -> cmd[d]]
          /\ order' = [d \in Commands |->
               CASE d = c -> Promised(q, "barrier", {})
                 [] d = c + 1 /\ both -> Promised(q, "barrier", L) \cup {c}
                 [] OTHER -> order[d]]
          /\ UNCHANGED <<content, expected>>
    BY <1>4, Zenon DEF EnqueueBarrierAndWait
  <2>2. c \notin Issued /\ \A d \in Issued : d < c
    BY <2>1, FreshIsNext DEF QueueInv
  <2>3. PICK n \in Commands : n = c + 1 /\ n \notin Issued
    <3>1. c + 1 \in Commands /\ ~(c + 1 < c)
      BY <2>1, QueueAssumption DEF Commands
    <3>. QED BY <2>2, <3>1
  <2>. HIDE DEF barrier, fence
  <2>4. /\ \A d \in Commands : d # c /\ d # n => cmd'[d] = cmd[d] /\ order'[d] = order[d]
        /\ cmd'[c] = barrier
        /\ cmd'[n] = fence \/ cmd'[n] = cmd[n]
    <3>1. n # c
      BY <2>3, QueueAssumption DEF Commands
    <3>. QED BY <2>1, <2>3, <3>1
  <2>5. Issued \subseteq Issued' /\ Issued' \subseteq Issued \cup {c, n}
    BY <1>2, <2>2, <2>3, <2>4 DEF Issued
  <2>6. \A d \in Issued : cmd'[d] = cmd[d] /\ order'[d] = order[d]
    BY <2>2, <2>3, <2>4 DEF Issued
  <2>7. ASSUME NEW d \in Issued', d \notin Issued PROVE cmd'[d].src = NULL /\ cmd'[d].dst = NULL
    <3>1. d \in {c, n} /\ d \in Commands
      BY <2>5, <2>7
    <3>2. cmd'[d] = barrier \/ cmd'[d] = fence
      BY <2>4, <2>7, <3>1 DEF Issued
    <3>. QED BY <1>2, <3>2
  <2>. QED BY <2>1, <2>5, <2>6, <2>7, NoDataStep
<1>. QED BY <1>3, <1>4 DEF EnqueueBarrier

LEMMA DataStep ==
  ASSUME Careful, QueueInv, DataInv, [Next]_vars
  PROVE  DataInv'
<1>1. CASE UNCHANGED vars
  BY <1>1, IdleData DEF vars, history
<1>2. ASSUME NEW q \in Queues, NEW L \in SUBSET Wrappers, NEW w \in Wrappers \cup {NULL},
             \/ Launch(q, L, w) \/ Transfer(q, L, w) \/ Copy(q, L, w) \/ Map(q, L, w)
             \/ ShareGL(q, L, w) \/ Synchronize(q, L, w)
      PROVE  DataInv'
  <2>1. CASE EnqueueBarrier(q, L)
    BY <2>1, BarrierData
  <2>2. CASE ~EnqueueBarrier(q, L)
    <3>1. \/ Launch(q, L, w) \/ Transfer(q, L, w) \/ Copy(q, L, w) \/ Map(q, L, w)
          \/ ShareGL(q, L, w) \/ EnqueueMarker(q, w) \/ EnqueueWaitForEvents(q, L)
      BY <1>2, <2>2 DEF Synchronize
    <3>2. TypeOK
      BY DEF QueueInv
    <3>3. \E kind \in Kinds, K \in SUBSET Wrappers, v \in Wrappers \cup {NULL},
             src \in Places \cup {NULL}, dst \in Places \cup {NULL}, blocking \in BOOLEAN :
             Enqueue(q, kind, K, v, src, dst, blocking)
      BY <3>1, <3>2, CallsEnqueue
    <3>. QED BY <3>3, EnqueueData
  <2>. QED BY <2>1, <2>2
<1>3. ASSUME NEW on, NEW learned, BlockOn(on, learned) PROVE DataInv'
  BY <1>3, IdleData DEF BlockOn, history
<1>4. ASSUME NEW p \in Arrays \cup {View[m] : m \in mapped}, Store(p) PROVE DataInv'
  <2>1. p \in Places
    BY <1>4 DEF QueueInv, TypeOK, Places, Views
  <2>. QED BY <1>4, <2>1, StoreData
<1>5. CASE Script
  <2>1. ASSUME NEW q \in Queues, Finish(q) PROVE DataInv'
    BY <1>3, <2>1 DEF Finish
  <2>2. ASSUME NEW L \in SUBSET Wrappers, WaitForEvents(L) PROVE DataInv'
    BY <1>3, <2>2 DEF WaitForEvents
  <2>3. \/ \E q \in Queues, L \in SUBSET Wrappers, w \in Wrappers \cup {NULL} :
             \/ Launch(q, L, w) \/ Transfer(q, L, w) \/ Copy(q, L, w) \/ Map(q, L, w)
             \/ ShareGL(q, L, w) \/ Synchronize(q, L, w)
        \/ \E q \in Queues : Finish(q)
        \/ \E L \in SUBSET Wrappers : WaitForEvents(L)
        \/ \E p \in Arrays \cup {View[m] : m \in mapped} : Store(p)
    BY <1>5 DEF Script
  <2>. QED BY <1>2, <1>4, <2>1, <2>2, <2>3
<1>6. CASE Runtime
  BY <1>6, StartData, EndData DEF Runtime
<1>7. CASE Unblock
  BY <1>7, IdleData DEF Unblock
<1>. QED BY <1>1, <1>5, <1>6, <1>7 DEF Next

LEMMA DataReads ==
  ASSUME QueueInv, DataInv
  PROVE  ReadsAreSequential
<1>. SUFFICES ASSUME NEW p \in Arrays \cup {View[m] : m \in mapped}, Writing(p) = {}
              PROVE  content[p] = expected[p]
  BY DEF ReadsAreSequential
<1>1. p \in Places
  BY DEF QueueInv, TypeOK, Places, Views
<1>2. PICK V \in [Commands -> Values] : DataExact(V)
  BY DEF DataInv
<1>3. Written(p) = Writers(p) /\ Writers(p) \in SUBSET Commands
  BY DEF Written, Writers, Writing, QueueInv, KnownIsOver, Issued
<1>. QED BY <1>1, <1>2, <1>3, LastOfUnique DEF DataExact

\* Non-blocking transfers, maps and stores of a script that orders what touches
\* the same data, by events, barriers, markers or blocking calls, give the
\* result of the calls run one by one, whatever the runtime reorders.
THEOREM SequentialReads == ASSUME Careful PROVE Spec => []ReadsAreSequential
<1>1. QueueInv /\ DataInv /\ [Next]_vars => DataInv'
  BY DataStep
<1>2. QueueInv /\ DataInv => ReadsAreSequential
  BY DataReads
<1>. QED BY <1>1, <1>2, DataInit, QueueInvariant, PTL DEF Spec

=============================================================================
