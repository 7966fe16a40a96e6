---------------------------- MODULE StreamProofs ----------------------------
(***************************************************************************)
(* Theorems about the log websocket, for any number of sockets, containers *)
(* and threads: the handler counts right, and sends all that was read.     *)
(***************************************************************************)
EXTENDS FrontEnd, FiniteSetTheorems, TLAPS

LEMMA StreamSteps ==
    ASSUME [FrontNext]_allVars
    PROVE  Next \/ UNCHANGED vars
BY DEF FrontNext, allVars

-----------------------------------------------------------------------------
(* Queues and their sentinels.                                             *)

Items == {"line", "done"}
Sentinels(q) == {k \in DOMAIN q : q[k] = "done"}

LEMMA SentinelsFinite ==
    ASSUME NEW q \in Seq(Items)
    PROVE  IsFiniteSet(Sentinels(q)) /\ Cardinality(Sentinels(q)) \in Nat
<1>1. Len(q) \in Nat /\ DOMAIN q = 1..Len(q)
  OBVIOUS
<1>2. IsFiniteSet(1..Len(q))
  BY <1>1, FS_Interval
<1>3. Sentinels(q) \subseteq 1..Len(q)
  BY <1>1 DEF Sentinels
<1> QED BY <1>2, <1>3, FS_Subset, FS_CardinalityType

LEMMA SentinelsOfEmpty == Cardinality(Sentinels(<<>>)) = 0
<1>1. Sentinels(<<>>) = {}
  BY DEF Sentinels
<1> QED BY <1>1, FS_EmptySet

\* An item at the end.
LEMMA SentinelsAppended ==
    ASSUME NEW q \in Seq(Items), NEW x \in Items
    PROVE  Cardinality(Sentinels(q \o <<x>>))
              = Cardinality(Sentinels(q)) + (IF x = "done" THEN 1 ELSE 0)
<1>1. /\ Len(q) \in Nat /\ DOMAIN q = 1..Len(q)
      /\ q \o <<x>> \in Seq(Items)
      /\ Len(q \o <<x>>) = Len(q) + 1
      /\ DOMAIN (q \o <<x>>) = 1..(Len(q) + 1)
      /\ (q \o <<x>>)[Len(q) + 1] = x
      /\ \A k \in 1..Len(q) : (q \o <<x>>)[k] = q[k]
  OBVIOUS
<1>2. CASE x = "done"
  <2>1. Sentinels(q \o <<x>>) = Sentinels(q) \cup {Len(q) + 1}
    BY <1>1, <1>2 DEF Sentinels
  <2>2. Len(q) + 1 \notin Sentinels(q)
    BY <1>1 DEF Sentinels
  <2> QED BY <1>2, <2>1, <2>2, SentinelsFinite, FS_AddElement
<1>3. CASE x # "done"
  <2>1. Sentinels(q \o <<x>>) = Sentinels(q)
    BY <1>1, <1>3 DEF Sentinels
  <2> QED BY <1>3, <2>1, SentinelsFinite
<1> QED BY <1>2, <1>3

\* An item taken from the front.
LEMMA SentinelsTail ==
    ASSUME NEW q \in Seq(Items), q # <<>>
    PROVE  Cardinality(Sentinels(q))
              = Cardinality(Sentinels(Tail(q))) + (IF Head(q) = "done" THEN 1 ELSE 0)
<1>1. /\ Len(q) \in Nat \ {0} /\ DOMAIN q = 1..Len(q)
      /\ Tail(q) \in Seq(Items) /\ Len(Tail(q)) = Len(q) - 1
      /\ DOMAIN Tail(q) = 1..(Len(q) - 1)
      /\ \A k \in 1..(Len(q) - 1) : Tail(q)[k] = q[k + 1]
      /\ Head(q) = q[1]
  OBVIOUS
<1> DEFINE S == Sentinels(Tail(q))
           T == Sentinels(q) \ {1}
           f == [k \in S |-> k + 1]
<1>2. S \subseteq 1..(Len(q) - 1) /\ \A k \in S : q[k + 1] = "done"
  BY <1>1 DEF Sentinels
<1>3. \A k \in T : k - 1 \in S /\ k \in Nat
  BY <1>1 DEF Sentinels
<1>4. f \in Bijection(S, T)
  <2>1. \A k \in S : k + 1 \in T
    BY <1>1, <1>2 DEF Sentinels
  <2>2. f \in [S -> T]
    BY <2>1
  <2>3. \A k, l \in S : f[k] = f[l] => k = l
    BY <1>1, <1>2
  <2>4. \A t \in T : \E k \in S : f[k] = t
    <3> TAKE t \in T
    <3>1. t - 1 \in S /\ f[t - 1] = t
      BY <1>3
    <3> QED BY <3>1
  <2> QED BY <2>2, <2>3, <2>4 DEF Bijection, Injection, Surjection, IsInjective
<1>5. IsFiniteSet(S) /\ IsFiniteSet(Sentinels(q))
  BY <1>1, SentinelsFinite
<1>6. Cardinality(T) = Cardinality(S)
  <2>1. ExistsBijection(S, T)
    BY <1>4 DEF ExistsBijection
  <2> QED BY <1>5, <2>1, FS_Bijection
<1>7. Cardinality(S) \in Nat /\ Cardinality(Sentinels(q)) \in Nat
  BY <1>1, SentinelsFinite
<1>8. 1 \in Sentinels(q) <=> Head(q) = "done"
  BY <1>1 DEF Sentinels
<1>9. Cardinality(T) = IF 1 \in Sentinels(q) THEN Cardinality(Sentinels(q)) - 1
                                           ELSE Cardinality(Sentinels(q))
  BY <1>5, FS_RemoveElement
<1> QED BY <1>6, <1>7, <1>8, <1>9

-----------------------------------------------------------------------------
(* The invariant.                                                          *)

AtWork(p) == {c \in Containers : p[c].pc \in {"queued", "reading"}}

\* What holds of one websocket: nothing is read before it opens; while it
\* streams the handler waits for as many pumps as are at work or have left a
\* sentinel, and once none is at work the last item is a sentinel.
Counted(k, p, q) ==
    /\ k.pc = "new" => q = <<>> /\ AtWork(p) = {} /\ \A c \in Containers : p[c].pc = "none"
    /\ k.pc = "stream" =>
         /\ k.pending = Cardinality(AtWork(p)) + Cardinality(Sentinels(q))
         /\ AtWork(p) = {} /\ q # <<>> => q[Len(q)] = "done"

SocketSet == [pc: {"new", "stream", "over"}, gone: BOOLEAN, pending: Int]
PumpSet == [pc: {"none", "queued", "reading", "finished"}, backlog: Int]

StreamType ==
    /\ socket \in [Sockets -> SocketSet]
    /\ pump \in [Sockets -> [Containers -> PumpSet]]
    /\ inbox \in [Sockets -> Seq(Items)]

StreamInv == StreamType /\ \A s \in Sockets : Counted(socket[s], pump[s], inbox[s])

LEMMA AtWorkFinite ==
    ASSUME NEW p
    PROVE  IsFiniteSet(AtWork(p)) /\ Cardinality(AtWork(p)) \in Nat
<1>1. AtWork(p) \subseteq Containers
  BY DEF AtWork
<1> QED BY <1>1, StreamAssumption, FS_Subset, FS_CardinalityType

\* A step that touches one websocket.
LEMMA OneSocket ==
    ASSUME StreamInv, NEW s \in Sockets, StreamType',
           Counted(socket'[s], pump'[s], inbox'[s]),
           \A r \in Sockets : r # s => /\ socket'[r] = socket[r]
                                      /\ pump'[r] = pump[r] /\ inbox'[r] = inbox[r]
    PROVE  StreamInv'
<1>1. ASSUME NEW r \in Sockets
      PROVE  Counted(socket'[r], pump'[r], inbox'[r])
  <2>1. CASE r = s
    BY <2>1
  <2>2. CASE r # s
    BY <2>2 DEF StreamInv
  <2> QED BY <2>1, <2>2
<1> QED BY <1>1 DEF StreamInv

LEMMA Elements ==
    ASSUME StreamInv, NEW s \in Sockets
    PROVE  /\ socket[s] \in SocketSet /\ inbox[s] \in Seq(Items)
           /\ pump[s] \in [Containers -> PumpSet]
           /\ \A c \in Containers : pump[s][c] \in PumpSet
           /\ Counted(socket[s], pump[s], inbox[s])
BY DEF StreamInv, StreamType

LEMMA SocketFields ==
    ASSUME NEW k \in SocketSet, NEW n \in Int
    PROVE  /\ k.pc \in {"new", "stream", "over"} /\ k.pending \in Int
           /\ [k EXCEPT !.pc = "over", !.pending = n] \in SocketSet
           /\ [k EXCEPT !.pc = "over", !.pending = n].pc = "over"
           /\ [k EXCEPT !.gone = TRUE] \in SocketSet
           /\ [k EXCEPT !.gone = TRUE].pc = k.pc
           /\ [k EXCEPT !.gone = TRUE].pending = k.pending
BY DEF SocketSet

LEMMA SocketPending ==
    ASSUME NEW k \in SocketSet, NEW n \in Int, NEW m, m = [k EXCEPT !.pending = n]
    PROVE  m \in SocketSet /\ m.pc = k.pc /\ m.pending = n
BY DEF SocketSet

\* One pump changes, with its number of lines or its end.
LEMMA OnePump ==
    ASSUME StreamType, NEW s \in Sockets, NEW c \in Containers, NEW p \in PumpSet,
           pump' = [pump EXCEPT ![s][c] = p]
    PROVE  /\ pump' \in [Sockets -> [Containers -> PumpSet]]
           /\ pump'[s][c] = p
           /\ \A d \in Containers : d # c => pump'[s][d] = pump[s][d]
           /\ \A r \in Sockets : r # s => pump'[r] = pump[r]
BY DEF StreamType

LEMMA PumpFields ==
    ASSUME NEW p \in PumpSet
    PROVE  /\ p.pc \in {"none", "queued", "reading", "finished"} /\ p.backlog \in Int
           /\ \A x \in {"none", "queued", "reading", "finished"} :
                 [p EXCEPT !.pc = x] \in PumpSet /\ [p EXCEPT !.pc = x].pc = x
BY DEF PumpSet

LEMMA PumpBacklog ==
    ASSUME NEW p \in PumpSet, NEW n \in Int
    PROVE  [p EXCEPT !.backlog = n] \in PumpSet /\ [p EXCEPT !.backlog = n].pc = p.pc
BY DEF PumpSet

\* A queue takes a line or a sentinel.
LEMMA QueueGrows ==
    ASSUME NEW q \in Seq(Items), NEW x \in Items
    PROVE  q \o <<x>> \in Seq(Items)
OBVIOUS

\* The handler is over: nothing is counted any more.
LEMMA FinishKeeps ==
    ASSUME StreamInv, NEW s \in Sockets, Finish(s)
    PROVE  StreamInv'
<1>1. StreamType'
  <2>0. socket[s] \in SocketSet /\ 0 \in Int
    BY Elements
  <2>1. [socket[s] EXCEPT !.pc = "over", !.pending = 0] \in SocketSet
    BY <2>0, SocketFields
  <2>2. socket' \in [Sockets -> SocketSet]
    BY <2>1 DEF StreamInv, StreamType, Finish
  <2> DEFINE gives == [c \in Containers |->
                        IF pump[s][c].pc = "queued"
                        THEN [pump[s][c] EXCEPT !.pc = "finished"] ELSE pump[s][c]]
  <2>3. gives \in [Containers -> PumpSet]
    <3>1. \A c \in Containers : [pump[s][c] EXCEPT !.pc = "finished"] \in PumpSet
      BY Elements, PumpFields
    <3> QED BY <3>1, Elements
  <2>4. pump' = [pump EXCEPT ![s] = gives]
    BY DEF Finish, Abandon
  <2>5. pump' \in [Sockets -> [Containers -> PumpSet]]
    BY <2>3, <2>4 DEF StreamInv, StreamType
  <2>6. inbox' \in [Sockets -> Seq(Items)]
    BY DEF StreamInv, StreamType, Finish
  <2> QED BY <2>2, <2>5, <2>6 DEF StreamType
<1>2. socket'[s].pc = "over"
  BY DEF StreamInv, StreamType, SocketSet, Finish
<1>3. Counted(socket'[s], pump'[s], inbox'[s])
  BY <1>2 DEF Counted
<1>4. \A r \in Sockets : r # s => /\ socket'[r] = socket[r]
                                  /\ pump'[r] = pump[r] /\ inbox'[r] = inbox[r]
  BY DEF StreamInv, StreamType, Finish, Abandon
<1> QED BY <1>1, <1>3, <1>4, OneSocket

-----------------------------------------------------------------------------
(* The containers and the pumps.                                           *)

LEMMA WriteKeeps ==
    ASSUME StreamInv, NEW c \in Containers, Write(c)
    PROVE  StreamInv'
<1>1. ASSUME NEW s \in Sockets
      PROVE  /\ pump'[s] \in [Containers -> PumpSet]
             /\ \A d \in Containers : pump'[s][d].pc = pump[s][d].pc
  <2> DEFINE n == IF pump[s][c].pc \in {"queued", "reading"} /\ pump[s][c].backlog < MaxBacklog
                  THEN pump[s][c].backlog + 1 ELSE pump[s][c].backlog
  <2>1. pump[s] \in [Containers -> PumpSet]
    BY DEF StreamInv, StreamType
  <2>a. pump[s][c] \in PumpSet
    BY <2>1
  <2>2. n \in Int
    <3>1. pump[s][c].backlog \in Int /\ pump[s][c].backlog + 1 \in Int
      BY <2>a DEF PumpSet
    <3> QED BY <3>1
  <2>3. pump'[s] = [pump[s] EXCEPT ![c].backlog = n]
    BY DEF Write
  <2>4. pump'[s] = [pump[s] EXCEPT ![c] = [pump[s][c] EXCEPT !.backlog = n]]
    BY <2>3
  <2> HIDE DEF n
  <2>5. /\ [pump[s][c] EXCEPT !.backlog = n] \in PumpSet
        /\ [pump[s][c] EXCEPT !.backlog = n].pc = pump[s][c].pc
    BY <2>a, <2>2, PumpBacklog
  <2> DEFINE p == [pump[s][c] EXCEPT !.backlog = n]
  <2> HIDE DEF p
  <2>6. pump'[s] = [pump[s] EXCEPT ![c] = p] /\ p \in PumpSet /\ p.pc = pump[s][c].pc
    BY <2>4, <2>5 DEF p
  <2> QED BY <2>1, <2>6
<1>2. StreamType'
  BY <1>1 DEF StreamInv, StreamType, Write
<1>3. ASSUME NEW s \in Sockets
      PROVE  Counted(socket'[s], pump'[s], inbox'[s])
  <2>1. AtWork(pump'[s]) = AtWork(pump[s])
    BY <1>1 DEF AtWork
  <2>2. Counted(socket[s], pump[s], inbox[s])
    BY DEF StreamInv
  <2>3. UNCHANGED <<socket, inbox>>
    BY DEF Write
  <2> QED BY <1>1, <2>1, <2>2, <2>3 DEF Counted
<1> QED BY <1>2, <1>3 DEF StreamInv

LEMMA StartPumpKeeps ==
    ASSUME StreamInv, NEW s \in Sockets, NEW c \in Containers, StartPump(s, c)
    PROVE  StreamInv'
<1> DEFINE p == [pump[s][c] EXCEPT !.pc = "reading"]
<1>0. p \in PumpSet /\ p.pc = "reading"
  <2>1. pump[s][c] \in PumpSet
    BY Elements
  <2> QED BY <2>1, PumpFields
<1>1. pump' = [pump EXCEPT ![s][c] = p]
  BY DEF StartPump
<1> HIDE DEF p
<1>2. /\ pump[s][c].pc = "queued" /\ pump'[s][c].pc = "reading"
      /\ \A d \in Containers : d # c => pump'[s][d] = pump[s][d]
      /\ \A r \in Sockets : r # s => pump'[r] = pump[r]
      /\ pump' \in [Sockets -> [Containers -> PumpSet]]
  <2>1. pump[s][c].pc = "queued" /\ StreamType
    BY DEF StreamInv, StartPump
  <2>2. /\ pump'[s][c] = p
        /\ \A d \in Containers : d # c => pump'[s][d] = pump[s][d]
        /\ \A r \in Sockets : r # s => pump'[r] = pump[r]
        /\ pump' \in [Sockets -> [Containers -> PumpSet]]
    BY <1>0, <1>1, <2>1, OnePump
  <2> QED BY <1>0, <2>1, <2>2
<1>a. StreamType'
  BY <1>2 DEF StreamInv, StreamType, StartPump
<1>3. AtWork(pump'[s]) = AtWork(pump[s]) /\ c \in AtWork(pump[s])
  BY <1>2 DEF AtWork
<1>4. Counted(socket'[s], pump'[s], inbox'[s])
  BY <1>3 DEF StreamInv, Counted, StartPump
<1>5. \A r \in Sockets : r # s => /\ socket'[r] = socket[r]
                                  /\ pump'[r] = pump[r] /\ inbox'[r] = inbox[r]
  BY <1>2 DEF StartPump
<1> QED BY <1>a, <1>4, <1>5, OneSocket

\* A pump that reads belongs to a websocket that is open.
LEMMA ReadingIsOpen ==
    ASSUME StreamInv, NEW s \in Sockets, NEW c \in Containers, pump[s][c].pc = "reading"
    PROVE  /\ c \in AtWork(pump[s])
           /\ Stopped(s) <=> socket[s].pc # "stream"
           /\ inbox[s] \in Seq(Items)
<1>1. c \in AtWork(pump[s])
  BY DEF AtWork
<1>2. socket[s].pc \in {"new", "stream", "over"} /\ inbox[s] \in Seq(Items)
  <2>1. socket[s] \in SocketSet /\ inbox[s] \in Seq(Items)
    BY Elements
  <2> QED BY <2>1 DEF SocketSet
<1>3. socket[s].pc # "new"
  BY Elements DEF Counted
<1> QED BY <1>1, <1>2, <1>3 DEF Stopped

LEMMA PumpLineKeeps ==
    ASSUME StreamInv, NEW s \in Sockets, NEW c \in Containers, PumpLine(s, c)
    PROVE  StreamInv'
<1>1. /\ c \in AtWork(pump[s]) /\ inbox[s] \in Seq(Items)
      /\ Stopped(s) <=> socket[s].pc # "stream"
  BY ReadingIsOpen DEF PumpLine
<1>2. \A r \in Sockets : r # s => /\ socket'[r] = socket[r]
                                  /\ pump'[r] = pump[r] /\ inbox'[r] = inbox[r]
  BY DEF StreamInv, StreamType, PumpLine, Put
<1>3. CASE Stopped(s)
  <2> DEFINE p == [pump[s][c] EXCEPT !.pc = "finished"]
  <2>0. pump[s][c] \in PumpSet
    BY Elements
  <2>a. p \in PumpSet
    BY <2>0, PumpFields
  <2>b. pump' = [pump EXCEPT ![s][c] = p]
    BY <1>3 DEF PumpLine
  <2> HIDE DEF p
  <2>c. inbox' = inbox /\ socket' = socket
    BY <1>3 DEF StreamInv, StreamType, PumpLine, Put
  <2>1. StreamType'
    BY <2>a, <2>b, <2>c, OnePump DEF StreamInv, StreamType
  <2>2. socket'[s].pc = "over"
    BY <1>3 DEF PumpLine, Stopped
  <2>3. Counted(socket'[s], pump'[s], inbox'[s])
    BY <2>2 DEF Counted
  <2> QED BY <1>2, <2>1, <2>3, OneSocket
<1>4. CASE ~Stopped(s)
  <2>0. inbox' = [inbox EXCEPT ![s] = inbox[s] \o <<"line">>] /\ "line" \in Items
    BY <1>4 DEF PumpLine, Put, Items
  <2>1. inbox'[s] = inbox[s] \o <<"line">> /\ inbox'[s] \in Seq(Items)
    BY <1>1, <2>0, QueueGrows DEF StreamInv, StreamType
  <2>2. inbox' \in [Sockets -> Seq(Items)]
    BY <1>2, <2>1 DEF StreamInv, StreamType, PumpLine, Put
  <2> DEFINE p == [pump[s][c] EXCEPT !.backlog = pump[s][c].backlog - 1]
  <2>c. pump[s][c] \in PumpSet
    BY Elements
  <2>d. pump[s][c].backlog - 1 \in Int
    BY <2>c DEF PumpSet
  <2>a. p \in PumpSet /\ p.pc = pump[s][c].pc
    BY <2>c, <2>d, PumpBacklog
  <2>b. pump' = [pump EXCEPT ![s][c] = p]
    BY <1>4 DEF PumpLine
  <2> HIDE DEF p
  <2>3. StreamType' /\ \A d \in Containers : pump'[s][d].pc = pump[s][d].pc
    BY <2>2, <2>a, <2>b, OnePump DEF StreamInv, StreamType, PumpLine
  <2>4. AtWork(pump'[s]) = AtWork(pump[s])
    BY <2>3 DEF AtWork
  <2>5. Cardinality(Sentinels(inbox'[s])) = Cardinality(Sentinels(inbox[s]))
    BY <1>1, <2>1, SentinelsAppended, SentinelsFinite DEF Items
  <2>6. Counted(socket'[s], pump'[s], inbox'[s])
    BY <1>1, <1>4, <2>4, <2>5 DEF StreamInv, Counted, PumpLine
  <2> QED BY <1>2, <2>3, <2>6, OneSocket
<1> QED BY <1>3, <1>4

\* A pump that ends takes one from those at work and leaves one sentinel.
LEMMA LastWordsCount ==
    ASSUME StreamInv, NEW s \in Sockets, NEW c \in Containers, c \in AtWork(pump[s]),
           socket[s].pc = "stream", socket'[s] = socket[s],
           NEW q \in Seq(Items), Cardinality(Sentinels(q)) = Cardinality(Sentinels(inbox[s])),
           inbox'[s] = q \o <<"done">>,
           pump'[s][c].pc = "finished",
           \A d \in Containers : d # c => pump'[s][d] = pump[s][d]
    PROVE  Counted(socket'[s], pump'[s], inbox'[s])
<1>1. AtWork(pump'[s]) = AtWork(pump[s]) \ {c}
  BY DEF AtWork
<1>2. Cardinality(AtWork(pump'[s])) = Cardinality(AtWork(pump[s])) - 1
  BY <1>1, AtWorkFinite, FS_RemoveElement
<1>3. Cardinality(Sentinels(inbox'[s])) = Cardinality(Sentinels(inbox[s])) + 1
  BY SentinelsAppended DEF Items
<1>4. inbox'[s][Len(inbox'[s])] = "done"
  OBVIOUS
<1>5. socket[s].pending = Cardinality(AtWork(pump[s])) + Cardinality(Sentinels(inbox[s]))
  BY DEF StreamInv, Counted
<1>6. Cardinality(AtWork(pump[s])) \in Nat /\ Cardinality(Sentinels(inbox[s])) \in Nat
  BY AtWorkFinite, SentinelsFinite DEF StreamInv, StreamType
<1> QED BY <1>2, <1>3, <1>4, <1>5, <1>6 DEF Counted

LEMMA PumpEndsKeeps ==
    ASSUME StreamInv, NEW s \in Sockets, NEW c \in Containers, PumpEnds(s, c)
    PROVE  StreamInv'
<1> DEFINE p == [pump[s][c] EXCEPT !.pc = "finished"]
<1>1. /\ c \in AtWork(pump[s]) /\ inbox[s] \in Seq(Items)
      /\ Stopped(s) <=> socket[s].pc # "stream"
  BY ReadingIsOpen DEF PumpEnds
<1>2. p \in PumpSet /\ p.pc = "finished"
  <2>1. pump[s][c] \in PumpSet
    BY Elements
  <2> QED BY <2>1, PumpFields
<1>3. pump' = [pump EXCEPT ![s][c] = p] /\ StreamType /\ UNCHANGED socket
  BY DEF PumpEnds, StreamInv
<1> HIDE DEF p
<1>4. /\ pump'[s][c] = p
      /\ \A d \in Containers : d # c => pump'[s][d] = pump[s][d]
      /\ \A r \in Sockets : r # s => pump'[r] = pump[r]
      /\ pump' \in [Sockets -> [Containers -> PumpSet]]
  BY <1>2, <1>3, OnePump
<1>5. \A r \in Sockets : r # s => inbox'[r] = inbox[r]
  BY <1>3 DEF PumpEnds, Put, StreamType
<1>6. CASE Stopped(s)
  <2>1. inbox' = inbox
    BY <1>3, <1>6 DEF PumpEnds, Put, StreamType
  <2>2. StreamType' /\ socket'[s].pc = "over"
    BY <1>3, <1>4, <1>6, <2>1 DEF StreamType, Stopped
  <2>3. Counted(socket'[s], pump'[s], inbox'[s])
    BY <2>2 DEF Counted
  <2> QED BY <1>3, <1>4, <1>5, <2>2, <2>3, OneSocket
<1>7. CASE ~Stopped(s)
  <2>1. inbox' = [inbox EXCEPT ![s] = inbox[s] \o <<"done">>] /\ "done" \in Items
    BY <1>7 DEF PumpEnds, Put, LastWords, Items
  <2>2. inbox'[s] = inbox[s] \o <<"done">> /\ inbox' \in [Sockets -> Seq(Items)]
    BY <1>1, <1>3, <2>1, QueueGrows DEF StreamType
  <2>3. StreamType'
    BY <1>3, <1>4, <2>2 DEF StreamType
  <2>4. Counted(socket'[s], pump'[s], inbox'[s])
    BY <1>1, <1>2, <1>3, <1>4, <1>7, <2>2, LastWordsCount
  <2> QED BY <1>3, <1>4, <1>5, <2>3, <2>4, OneSocket
<1> QED BY <1>6, <1>7

LEMMA PumpFailsKeeps ==
    ASSUME StreamInv, NEW s \in Sockets, NEW c \in Containers, PumpFails(s, c)
    PROVE  StreamInv'
<1> DEFINE p == [pc |-> "finished", backlog |-> 0]
<1>1. /\ c \in AtWork(pump[s]) /\ inbox[s] \in Seq(Items)
      /\ Stopped(s) <=> socket[s].pc # "stream"
  BY ReadingIsOpen DEF PumpFails
<1>2. p \in PumpSet /\ p.pc = "finished"
  BY DEF PumpSet
<1>3. pump' = [pump EXCEPT ![s][c] = p] /\ StreamType /\ UNCHANGED socket
  BY DEF PumpFails, StreamInv
<1> HIDE DEF p
<1>4. /\ pump'[s][c] = p
      /\ \A d \in Containers : d # c => pump'[s][d] = pump[s][d]
      /\ \A r \in Sockets : r # s => pump'[r] = pump[r]
      /\ pump' \in [Sockets -> [Containers -> PumpSet]]
  BY <1>2, <1>3, OnePump
<1>5. \A r \in Sockets : r # s => inbox'[r] = inbox[r]
  BY <1>3 DEF PumpFails, Put, StreamType
<1>6. CASE Stopped(s)
  <2>1. inbox' = inbox
    BY <1>3, <1>6 DEF PumpFails, Put, StreamType
  <2>2. StreamType' /\ socket'[s].pc = "over"
    BY <1>3, <1>4, <1>6, <2>1 DEF StreamType, Stopped
  <2>3. Counted(socket'[s], pump'[s], inbox'[s])
    BY <2>2 DEF Counted
  <2> QED BY <1>3, <1>4, <1>5, <2>2, <2>3, OneSocket
<1>7. CASE ~Stopped(s)
  <2> DEFINE q == inbox[s] \o <<"line">>
  <2>1. q \in Seq(Items) /\ Cardinality(Sentinels(q)) = Cardinality(Sentinels(inbox[s]))
    BY <1>1, QueueGrows, SentinelsAppended, SentinelsFinite DEF Items
  <2>2. inbox[s] \o LastWords(<<"line">>) = q \o <<"done">>
    BY <1>1 DEF LastWords
  <2>3. inbox' = [inbox EXCEPT ![s] = inbox[s] \o LastWords(<<"line">>)]
    BY <1>7 DEF PumpFails, Put
  <2> HIDE DEF q
  <2>4. q \o <<"done">> \in Seq(Items)
    BY <2>1, QueueGrows DEF Items
  <2>5. inbox'[s] = q \o <<"done">> /\ inbox' \in [Sockets -> Seq(Items)]
    BY <1>3, <2>2, <2>3, <2>4 DEF StreamType
  <2>6. StreamType'
    BY <1>3, <1>4, <2>5 DEF StreamType
  <2>7. Counted(socket'[s], pump'[s], inbox'[s])
    BY <1>1, <1>2, <1>3, <1>4, <1>7, <2>1, <2>5, LastWordsCount
  <2> QED BY <1>3, <1>4, <1>5, <2>6, <2>7, OneSocket
<1> QED BY <1>6, <1>7

-----------------------------------------------------------------------------
(* The handler and its client.                                             *)

LEMMA OpenKeeps ==
    ASSUME StreamInv, NEW s \in Sockets, NEW ids \in Installations, Open(s, ids)
    PROVE  StreamInv'
<1>1. ids \subseteq Containers /\ IsFiniteSet(ids) /\ Cardinality(ids) \in Nat
  BY StreamAssumption, FS_Subset, FS_CardinalityType
<1>2. /\ socket[s] \in SocketSet /\ pump[s] \in [Containers -> PumpSet]
      /\ inbox[s] = <<>> /\ \A c \in Containers : pump[s][c].pc = "none"
  BY Elements DEF Open, Counted
<1> DEFINE k == [socket[s] EXCEPT !.pc = "stream", !.pending = Cardinality(ids)]
           p == [c \in Containers |-> IF c \in ids THEN [pump[s][c] EXCEPT !.pc = "queued"]
                                                   ELSE pump[s][c]]
<1>3. k \in SocketSet /\ k.pc = "stream" /\ k.pending = Cardinality(ids)
  <2>1. Cardinality(ids) \in Int
    BY <1>1
  <2> QED BY <1>2, <2>1 DEF SocketSet
<1>4. \A c \in Containers : /\ [pump[s][c] EXCEPT !.pc = "queued"] \in PumpSet
                            /\ [pump[s][c] EXCEPT !.pc = "queued"].pc = "queued"
  BY <1>2, PumpFields
<1>5. p \in [Containers -> PumpSet] /\ AtWork(p) = ids
  BY <1>1, <1>2, <1>4 DEF AtWork
<1>6. socket' = [socket EXCEPT ![s] = k] /\ pump' = [pump EXCEPT ![s] = p] /\ inbox' = inbox
  BY DEF Open
<1> HIDE DEF k, p
<1>7. StreamType' /\ socket'[s] = k /\ pump'[s] = p /\ inbox'[s] = <<>>
  BY <1>2, <1>3, <1>5, <1>6 DEF StreamInv, StreamType
<1>8. \A r \in Sockets : r # s => /\ socket'[r] = socket[r]
                                  /\ pump'[r] = pump[r] /\ inbox'[r] = inbox[r]
  BY <1>6 DEF StreamInv, StreamType
<1>9. Counted(socket'[s], pump'[s], inbox'[s])
  BY <1>1, <1>3, <1>5, <1>7, SentinelsOfEmpty DEF Counted
<1> QED BY <1>7, <1>8, <1>9, OneSocket

\* An item is taken and the loop goes on.
LEMMA TakeKeeps ==
    ASSUME StreamInv, NEW s \in Sockets, NEW n \in Int,
           socket[s].pc = "stream", inbox[s] # <<>>,
           n = socket[s].pending - (IF Head(inbox[s]) = "done" THEN 1 ELSE 0),
           socket' = [socket EXCEPT ![s] = [socket[s] EXCEPT !.pending = n]],
           inbox' = [inbox EXCEPT ![s] = Tail(inbox[s])],
           UNCHANGED pump
    PROVE  StreamInv'
<1>1. socket[s] \in SocketSet /\ inbox[s] \in Seq(Items)
  BY Elements
<1> DEFINE k == [socket[s] EXCEPT !.pending = n]
<1>2. k \in SocketSet /\ k.pc = "stream" /\ k.pending = n
  BY <1>1, SocketPending
<1>3. Tail(inbox[s]) \in Seq(Items)
  BY <1>1
<1>4. socket' = [socket EXCEPT ![s] = k]
  OBVIOUS
<1> HIDE DEF k
<1>5. StreamType' /\ socket'[s] = k /\ inbox'[s] = Tail(inbox[s])
  BY <1>2, <1>3, <1>4 DEF StreamInv, StreamType
<1>6. \A r \in Sockets : r # s => /\ socket'[r] = socket[r]
                                  /\ pump'[r] = pump[r] /\ inbox'[r] = inbox[r]
  BY <1>4 DEF StreamInv, StreamType
<1>7. /\ socket[s].pending = Cardinality(AtWork(pump[s])) + Cardinality(Sentinels(inbox[s]))
      /\ AtWork(pump[s]) = {} => inbox[s][Len(inbox[s])] = "done"
  BY Elements DEF Counted
<1>8. k.pending = Cardinality(AtWork(pump[s])) + Cardinality(Sentinels(inbox'[s]))
  <2>1. Cardinality(AtWork(pump[s])) \in Nat /\ Cardinality(Sentinels(inbox'[s])) \in Nat
    BY <1>3, <1>5, AtWorkFinite, SentinelsFinite
  <2>2. Cardinality(Sentinels(inbox[s])) =
          Cardinality(Sentinels(inbox'[s])) + (IF Head(inbox[s]) = "done" THEN 1 ELSE 0)
    BY <1>1, <1>5, SentinelsTail
  <2> QED BY <1>2, <1>7, <2>1, <2>2
<1>9. AtWork(pump[s]) = {} /\ inbox'[s] # <<>> => inbox'[s][Len(inbox'[s])] = "done"
  BY <1>1, <1>5, <1>7
<1>10. Counted(socket'[s], pump'[s], inbox'[s])
  BY <1>2, <1>5, <1>8, <1>9 DEF Counted
<1> QED BY <1>5, <1>6, <1>10, OneSocket

LEMMA HandlerKeeps ==
    ASSUME StreamInv, NEW s \in Sockets, Handler(s)
    PROVE  StreamInv'
<1>1. socket[s] \in SocketSet /\ socket[s].pending \in Int /\ StreamType
      /\ socket[s].pc = "stream" /\ inbox[s] # <<>>
  BY Elements DEF StreamInv, Handler, CountDone, SendLine, Awaits, SocketSet
<1>2. CASE Finish(s)
  BY <1>2, FinishKeeps
<1>3. CASE CountDone(s) /\ ~LastOne(s)
  <2>1. /\ socket' = [socket EXCEPT ![s].pending = socket[s].pending - 1]
        /\ inbox' = [inbox EXCEPT ![s] = Tail(inbox[s])]
        /\ UNCHANGED pump
        /\ Head(inbox[s]) = "done"
    BY <1>3 DEF CountDone
  <2>2. socket[s].pending - 1 \in Int
    BY <1>1
  <2> DEFINE n == socket[s].pending - 1
  <2>3. /\ socket' = [socket EXCEPT ![s] = [socket[s] EXCEPT !.pending = n]]
        /\ n = socket[s].pending - (IF Head(inbox[s]) = "done" THEN 1 ELSE 0)
        /\ n \in Int
    BY <2>1, <2>2
  <2> HIDE DEF n
  <2> QED BY <1>1, <2>1, <2>3, TakeKeeps
<1>4. CASE SendLine(s) /\ ~socket[s].gone
  <2>1. /\ socket' = socket /\ UNCHANGED pump
        /\ inbox' = [inbox EXCEPT ![s] = Tail(inbox[s])]
        /\ Head(inbox[s]) = "line"
    BY <1>4 DEF SendLine
  <2> DEFINE n == socket[s].pending
  <2>2. [socket[s] EXCEPT !.pending = n] = socket[s]
    BY <1>1 DEF SocketSet
  <2>3. socket' = [socket EXCEPT ![s] = [socket[s] EXCEPT !.pending = n]]
    BY <1>1, <2>1, <2>2 DEF StreamType
  <2>4. n = socket[s].pending - (IF Head(inbox[s]) = "done" THEN 1 ELSE 0) /\ n \in Int
    BY <1>1, <2>1
  <2> HIDE DEF n
  <2> QED BY <1>1, <2>1, <2>3, <2>4, TakeKeeps
<1> QED BY <1>2, <1>3, <1>4 DEF Handler, CountDone, SendLine

LEMMA LeaveKeeps ==
    ASSUME StreamInv, NEW s \in Sockets, Leave(s)
    PROVE  StreamInv'
<1> DEFINE k == [socket[s] EXCEPT !.gone = TRUE]
<1>1. socket[s] \in SocketSet /\ 0 \in Int
  BY Elements
<1>2. k \in SocketSet /\ k.pc = socket[s].pc /\ k.pending = socket[s].pending
  BY <1>1, SocketFields
<1>3. socket' = [socket EXCEPT ![s] = k] /\ pump' = pump /\ inbox' = inbox
  BY DEF Leave
<1> HIDE DEF k
<1>4. StreamType' /\ socket'[s] = k
  BY <1>2, <1>3 DEF StreamInv, StreamType
<1>5. \A r \in Sockets : r # s => socket'[r] = socket[r]
  BY <1>3 DEF StreamInv, StreamType
<1>6. Counted(socket[s], pump[s], inbox[s])
  BY Elements
<1>7. Counted(socket'[s], pump'[s], inbox'[s])
  BY <1>2, <1>3, <1>4, <1>6 DEF Counted
<1> QED BY <1>3, <1>4, <1>5, <1>7, OneSocket

-----------------------------------------------------------------------------
(* The theorems.                                                           *)

LEMMA StreamStarts ==
    ASSUME FrontInit
    PROVE  StreamInv
<1>1. NoStreams
  BY DEF FrontInit, Init, StreamsAtRest
<1>2. StreamType
  BY <1>1 DEF NoStreams, StreamType, SocketSet, PumpSet, Items
<1>3. ASSUME NEW s \in Sockets
      PROVE  Counted(socket[s], pump[s], inbox[s])
  BY <1>1 DEF NoStreams, Counted, AtWork
<1> QED BY <1>2, <1>3 DEF StreamInv

LEMMA StreamStep ==
    ASSUME StreamInv, [FrontNext]_allVars
    PROVE  StreamInv'
<1>1. CASE UNCHANGED vars
  BY <1>1 DEF vars, StreamInv, StreamType, Counted, AtWork, Sentinels
<1>2. CASE \E c \in Containers : Write(c) \/ EndContainer(c)
  <2>1. PICK c \in Containers : Write(c) \/ EndContainer(c)
    BY <1>2
  <2>2. CASE EndContainer(c)
    BY <2>2 DEF EndContainer, StreamInv, StreamType, Counted, AtWork, Sentinels
  <2> QED BY <2>1, <2>2, WriteKeeps
<1>3. CASE \E s \in Sockets, c \in Containers : PumpStep(s, c) \/ PumpFails(s, c)
  BY <1>3, StartPumpKeeps, PumpLineKeeps, PumpEndsKeeps, PumpFailsKeeps DEF PumpStep
<1>4. CASE \E s \in Sockets, ids \in Installations : Open(s, ids)
  BY <1>4, OpenKeeps
<1>5. CASE \E s \in Sockets : Handler(s) \/ Leave(s)
  BY <1>5, HandlerKeeps, LeaveKeeps
<1> QED BY <1>1, <1>2, <1>3, <1>4, <1>5, StreamSteps DEF Next

LEMMA StreamAlways == FrontSpec => []StreamInv
BY StreamStarts, StreamStep, PTL DEF FrontSpec

\* The log handler (api/v1/logs.py) counts right, for any number of websockets,
\* containers and threads: it waits for as many pumps as have not been counted.
THEOREM SentinelsCountHolds == FrontSpec => []SentinelsCount
<1>1. StreamInv => SentinelsCount
  BY DEF StreamInv, Counted, AtWork, Sentinels, SentinelsCount
<1> QED BY <1>1, StreamAlways, PTL

\* The last sentinel is the only item left.
LEMMA LastOneIsAlone ==
    ASSUME StreamInv, NEW s \in Sockets, CountDone(s), LastOne(s)
    PROVE  Len(inbox[s]) = 1 /\ AtWork(pump[s]) = {}
<1>1. /\ socket[s].pc = "stream" /\ socket[s].pending = 1
      /\ inbox[s] # <<>> /\ inbox[s] \in Seq(Items) /\ Head(inbox[s]) = "done"
  BY Elements DEF CountDone, Awaits, LastOne
<1>2. /\ 1 = Cardinality(AtWork(pump[s])) + Cardinality(Sentinels(inbox[s]))
      /\ AtWork(pump[s]) = {} => inbox[s][Len(inbox[s])] = "done"
  BY <1>1, Elements DEF Counted
<1>3. 1 \in Sentinels(inbox[s])
  BY <1>1 DEF Sentinels
<1>4. /\ IsFiniteSet(Sentinels(inbox[s])) /\ Cardinality(Sentinels(inbox[s])) \in Nat
      /\ IsFiniteSet(AtWork(pump[s])) /\ Cardinality(AtWork(pump[s])) \in Nat
  BY <1>1, SentinelsFinite, AtWorkFinite
<1>5. /\ Cardinality(Sentinels(inbox[s]) \ {1}) = Cardinality(Sentinels(inbox[s])) - 1
      /\ IsFiniteSet(Sentinels(inbox[s]) \ {1})
      /\ Cardinality(Sentinels(inbox[s]) \ {1}) \in Nat
  BY <1>3, <1>4, FS_RemoveElement, FS_CardinalityType
<1>6. Cardinality(AtWork(pump[s])) = 0 /\ Cardinality(Sentinels(inbox[s]) \ {1}) = 0
  BY <1>2, <1>4, <1>5
<1>7. AtWork(pump[s]) = {} /\ Sentinels(inbox[s]) \ {1} = {}
  BY <1>4, <1>5, <1>6, FS_EmptySet
<1>8. Len(inbox[s]) \in Sentinels(inbox[s])
  BY <1>1, <1>2, <1>7 DEF Sentinels
<1> QED BY <1>7, <1>8

\* A handler whose client is there ends by counting its last pump.
LEMMA EndsByCounting ==
    ASSUME StreamInv, [FrontNext]_allVars, NEW s \in Sockets,
           socket[s].pc = "stream", socket'[s].pc = "over", ~socket[s].gone
    PROVE  CountDone(s) /\ LastOne(s)
<1>1. socket' # socket /\ socket'[s] # socket[s] /\ StreamType
  BY DEF StreamInv
<1>2. Next
  BY <1>1, StreamSteps DEF vars
<1>3. ASSUME NEW r \in Sockets, NEW ids \in Installations, Open(r, ids)
      PROVE  FALSE
  BY <1>1, <1>3 DEF StreamType, Open
<1>4. ASSUME NEW r \in Sockets, Leave(r)
      PROVE  FALSE
  <2>1. r = s /\ socket[s] \in SocketSet /\ 0 \in Int
    BY <1>1, <1>4 DEF StreamType, Leave
  <2>2. socket' = [socket EXCEPT ![s] = [socket[s] EXCEPT !.gone = TRUE]]
    BY <1>4, <2>1 DEF Leave
  <2>3. socket'[s].pc = socket[s].pc
    BY <1>1, <2>1, <2>2, SocketFields DEF StreamType
  <2> QED BY <2>3
<1>5. \E r \in Sockets : Handler(r)
  BY <1>1, <1>2, <1>3, <1>4
     DEF Next, Write, EndContainer, PumpStep, StartPump, PumpLine, PumpEnds, PumpFails
<1>6. PICK r \in Sockets : Handler(r)
  BY <1>5
<1>7. r = s
  BY <1>1, <1>6 DEF StreamType, Handler, CountDone, SendLine, Finish
<1>8. CASE SendLine(s)
  BY <1>1, <1>8 DEF SendLine
<1>9. CASE CountDone(s) /\ ~LastOne(s)
  <2>1. socket[s] \in SocketSet
    BY <1>1 DEF StreamType
  <2>2. socket[s].pending - 1 \in Int
    BY <2>1 DEF SocketSet
  <2>3. socket'[s] = [socket[s] EXCEPT !.pending = socket[s].pending - 1]
    BY <1>1, <1>9 DEF CountDone, StreamType
  <2>4. socket'[s].pc = socket[s].pc
    BY <2>1, <2>2, <2>3, SocketPending
  <2> QED BY <2>4
<1> QED BY <1>6, <1>7, <1>8, <1>9 DEF Handler

\* A handler that ends with its client there has sent all its pumps have read.
THEOREM NothingUnsentHolds == FrontSpec => NothingUnsent
<1>1. ASSUME StreamInv, [FrontNext]_allVars, NEW s \in Sockets,
             socket[s].pc = "stream", socket'[s].pc = "over", ~socket[s].gone
      PROVE  /\ Len(inbox[s]) = 1
             /\ \A c \in Containers : pump[s][c].pc \in {"none", "finished"}
  <2>1. Len(inbox[s]) = 1 /\ AtWork(pump[s]) = {}
    BY <1>1, EndsByCounting, LastOneIsAlone
  <2>2. ASSUME NEW c \in Containers
        PROVE  pump[s][c].pc \in {"none", "finished"}
    <3>1. pump[s][c] \in PumpSet
      BY <1>1, Elements
    <3>2. pump[s][c].pc \in {"none", "queued", "reading", "finished"}
      BY <3>1 DEF PumpSet
    <3> QED BY <2>1, <3>2 DEF AtWork
  <2> QED BY <2>1, <2>2
<1> DEFINE AllSent == \A s \in Sockets :
                      socket[s].pc = "stream" /\ socket'[s].pc = "over" /\ ~socket[s].gone
                      => /\ Len(inbox[s]) = 1
                         /\ \A c \in Containers : pump[s][c].pc \in {"none", "finished"}
<1>2. StreamInv /\ [FrontNext]_allVars => [AllSent]_vars
  BY <1>1
<1> QED BY <1>2, StreamAlways, PTL DEF FrontSpec, NothingUnsent
=============================================================================
