----------------------------- MODULE LogStream ------------------------------
(***************************************************************************)
(* The websocket that follows the logs of an installation (api/v1/logs).   *)
(* One blocking pump per container reads in a thread of the event loop's   *)
(* default executor, and hands lines and a final sentinel to the handler   *)
(* through a queue; the handler sends them, and learns that its client is  *)
(* gone only when it sends.                                                *)
(***************************************************************************)
EXTENDS Naturals, Sequences, FiniteSets

CONSTANTS
    Containers,     \* containers that can be followed
    Chatty,         \* those of them that keep writing lines
    Installations,  \* the stored container ids of some installations
    Sockets,        \* websockets that may be opened
    PoolSize,       \* threads of the executor
    MaxBacklog,     \* lines of a container that are not read yet (saturates)
    MaxInbox        \* items that wait for a handler

ASSUME StreamAssumption ==
    /\ IsFiniteSet(Containers)
    /\ Chatty \subseteq Containers
    /\ Installations \subseteq SUBSET Containers
    /\ {} \notin Installations
    /\ PoolSize \in Nat /\ MaxBacklog \in Nat \ {0} /\ MaxInbox \in Nat \ {0}

VARIABLES
    ended,   \* containers whose log stream has closed
    socket,  \* websocket -> its handler and its client
    pump,    \* websocket -> container -> the thread that follows it
    inbox    \* websocket -> the queue between its pumps and its handler

vars == <<ended, socket, pump, inbox>>

\* A handler that was not started yet, that streams, or that is over.
Socket == [pc: {"new", "stream", "over"}, gone: BOOLEAN,
           pending: 0..Cardinality(Containers)]
Pump == [pc: {"none", "queued", "reading", "finished"}, backlog: 0..MaxBacklog]

NoStreams ==
    /\ socket = [s \in Sockets |-> [pc |-> "new", gone |-> FALSE, pending |-> 0]]
    /\ pump = [s \in Sockets |->
                 [c \in Containers |-> [pc |-> "none", backlog |-> 0]]]
    /\ inbox = [s \in Sockets |-> <<>>]

Init == ended = {} /\ NoStreams

Streams(s) == {c \in Containers : pump[s][c].pc # "none"}
Reading == {q \in Sockets \X Containers : pump[q[1]][q[2]].pc = "reading"}
FreeThread == Cardinality(Reading) < PoolSize

\* Faulty variant: nobody sets stop.
StopForgotten(s) == FALSE

\* stop.is_set(): the handler has come to its finally clause.
Stopped(s) == socket[s].pc = "over"

-----------------------------------------------------------------------------
(* The containers.                                                         *)

\* The line waits in every stream that follows the container.
Write(c) ==
    /\ c \notin ended
    /\ pump' = [s \in Sockets |->
                  [pump[s] EXCEPT ![c].backlog =
                      IF pump[s][c].pc \in {"queued", "reading"} /\ @ < MaxBacklog
                      THEN @ + 1 ELSE @]]
    /\ UNCHANGED <<ended, socket, inbox>>

\* The container stops or is removed, which closes its streams.
EndContainer(c) ==
    /\ c \notin Chatty \cup ended
    /\ ended' = ended \cup {c}
    /\ UNCHANGED <<socket, pump, inbox>>

-----------------------------------------------------------------------------
(* The pumps.                                                              *)

Put(s, items) == inbox' = [inbox EXCEPT ![s] = IF Stopped(s) THEN @ ELSE @ \o items]
HasRoom(s, n) == Len(inbox[s]) + n <= MaxInbox

StartPump(s, c) ==
    /\ pump[s][c].pc = "queued"
    /\ FreeThread
    /\ pump' = [pump EXCEPT ![s][c].pc = "reading"]
    /\ UNCHANGED <<ended, socket, inbox>>

\* The generator yields a line: stop is looked at first, and a pump that stops
\* puts its sentinel all the same.
PumpLine(s, c) ==
    /\ pump[s][c].pc = "reading"
    /\ pump[s][c].backlog > 0
    /\ HasRoom(s, 1)
    /\ IF Stopped(s)
       THEN /\ pump' = [pump EXCEPT ![s][c].pc = "finished"]
            /\ Put(s, <<"done">>)
       ELSE /\ pump' = [pump EXCEPT ![s][c].backlog = @ - 1]
            /\ Put(s, <<"line">>)
    /\ UNCHANGED <<ended, socket>>

\* Faulty variant: an error leaves the pump without a sentinel.
LastWordsNoDone(items) == items

\* The finally clause of the pump: the sentinel comes last.
LastWords(items) == items \o <<"done">>

\* The stream closes after its last line.
PumpEnds(s, c) ==
    /\ pump[s][c].pc = "reading"
    /\ pump[s][c].backlog = 0 /\ c \in ended
    /\ HasRoom(s, 1)
    /\ pump' = [pump EXCEPT ![s][c].pc = "finished"]
    /\ Put(s, LastWords(<<>>))
    /\ UNCHANGED <<ended, socket>>

\* containers.get or the stream raises: the error becomes a line.
PumpFails(s, c) ==
    /\ pump[s][c].pc = "reading"
    /\ HasRoom(s, 2)
    /\ pump' = [pump EXCEPT ![s][c] = [pc |-> "finished", backlog |-> 0]]
    /\ Put(s, LastWords(<<"line">>))
    /\ UNCHANGED <<ended, socket>>

-----------------------------------------------------------------------------
(* The handler and its client.                                             *)

\* The token is valid and the row has containers: one pump for each.
Open(s, ids) ==
    /\ socket[s].pc = "new"
    /\ socket' = [socket EXCEPT ![s].pc = "stream", ![s].pending = Cardinality(ids)]
    /\ pump' = [pump EXCEPT ![s] =
                  [c \in Containers |->
                     IF c \in ids THEN [@[c] EXCEPT !.pc = "queued"] ELSE @[c]]]
    /\ UNCHANGED <<ended, inbox>>

\* The finally clause: stop.set(), and cancel() for the producers.  A pump that
\* is queued never starts; one that reads is not interrupted.
Abandon(s) ==
    pump' = [pump EXCEPT ![s] =
               [c \in Containers |->
                  IF @[c].pc = "queued" THEN [@[c] EXCEPT !.pc = "finished"]
                                        ELSE @[c]]]

Finish(s) ==
    /\ socket' = [socket EXCEPT ![s].pc = "over", ![s].pending = 0]
    /\ Abandon(s)
    /\ inbox' = [inbox EXCEPT ![s] = <<>>]

Awaits(s) == socket[s].pc = "stream" /\ inbox[s] # <<>>

\* Faulty variant: the first sentinel ends the loop.
FirstOne(s) == TRUE

LastOne(s) == socket[s].pending = 1

\* A pump is done; the loop ends with the last one.
CountDone(s) ==
    /\ Awaits(s) /\ Head(inbox[s]) = "done"
    /\ IF LastOne(s)
       THEN Finish(s)
       ELSE /\ socket' = [socket EXCEPT ![s].pending = @ - 1]
            /\ inbox' = [inbox EXCEPT ![s] = Tail(@)]
            /\ UNCHANGED pump
    /\ UNCHANGED ended

\* A line is sent, or sending it shows that the client is gone.
SendLine(s) ==
    /\ Awaits(s) /\ Head(inbox[s]) = "line"
    /\ IF socket[s].gone
       THEN Finish(s)
       ELSE /\ inbox' = [inbox EXCEPT ![s] = Tail(@)]
            /\ UNCHANGED <<socket, pump>>
    /\ UNCHANGED ended

Leave(s) ==
    /\ socket[s].pc # "new" /\ ~socket[s].gone
    /\ socket' = [socket EXCEPT ![s].gone = TRUE]
    /\ UNCHANGED <<ended, pump, inbox>>

-----------------------------------------------------------------------------
Handler(s) == CountDone(s) \/ SendLine(s)
PumpStep(s, c) == StartPump(s, c) \/ PumpLine(s, c) \/ PumpEnds(s, c)

Next ==
    \/ \E c \in Containers : Write(c) \/ EndContainer(c)
    \/ \E s \in Sockets, c \in Containers : PumpStep(s, c) \/ PumpFails(s, c)
    \/ \E s \in Sockets, ids \in Installations : Open(s, ids)
    \/ \E s \in Sockets : Handler(s) \/ Leave(s)

\* A chatty container keeps writing, its pumps run, the event loop goes on.
ChattyFairness ==
    /\ \A c \in Chatty : WF_vars(Write(c)) /\ \A s \in Sockets : WF_vars(PumpLine(s, c))
    /\ \A s \in Sockets : WF_vars(Handler(s))

\* The same of the silent ones, and free threads are given to the waiting calls
\* in turn.
Fairness ==
    /\ ChattyFairness
    /\ \A s \in Sockets, c \in Containers :
           SF_vars(StartPump(s, c)) /\ WF_vars(PumpLine(s, c)) /\ WF_vars(PumpEnds(s, c))

Spec == Init /\ [][Next]_vars
FairSpec == Spec /\ Fairness

-----------------------------------------------------------------------------
\* Every variable has its type, and the executor runs no more calls than it has
\* threads.
TypeOK ==
    /\ ended \subseteq Containers
    /\ socket \in [Sockets -> Socket]
    /\ pump \in [Sockets -> [Containers -> Pump]]
    /\ \A s \in Sockets : inbox[s] \in Seq({"line", "done"})
    /\ Cardinality(Reading) <= PoolSize

\* The handler counts right: as long as it streams it waits for as many pumps
\* as have not been counted, those at work and those whose sentinel is queued,
\* and a sentinel is the last item of its pump.
SentinelsCount ==
    \A s \in Sockets :
        socket[s].pc = "stream" =>
            socket[s].pending =
                Cardinality({c \in Containers : pump[s][c].pc \in {"queued", "reading"}})
                + Cardinality({k \in DOMAIN inbox[s] : inbox[s][k] = "done"})

\* A handler that comes to its end with its client there has sent every line
\* its pumps have read: nothing is left in the queue when the last one is done.
NothingUnsent ==
    [][\A s \in Sockets :
           socket[s].pc = "stream" /\ socket'[s].pc = "over" /\ ~socket[s].gone
               => /\ Len(inbox[s]) = 1
                  /\ \A c \in Containers : pump[s][c].pc \in {"none", "finished"}]_vars

\* The comment in pump: "a closed socket lets the thread exit promptly on
\* active containers": no thread goes on reading a chatty container for a
\* client that is gone.
ThreadsReleased ==
    \A s \in Sockets, c \in Chatty :
        []<>(~socket[s].gone \/ pump[s][c].pc # "reading")

\* The comment at the producers: "One blocking thread per container".  Every
\* pump whose client stays gets its thread.
OneThreadPerContainer ==
    \A s \in Sockets, c \in Containers :
        pump[s][c].pc = "queued" ~> pump[s][c].pc # "queued" \/ socket[s].gone
=============================================================================
