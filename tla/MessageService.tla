--------------------------- MODULE MessageService ---------------------------
(***************************************************************************)
(* The goroutines of two clients and the Go channels between them: the run *)
(* loop of each engine, the TestMessageService that carries its messages   *)
(* and the event handler that tells the application which objectives are   *)
(* completed or failed.  A goroutine that writes to a full channel waits.  *)
(* What a message says is left out: only how many there are matters here.  *)
(***************************************************************************)
EXTENDS Integers

CONSTANTS
  BufferSize,    \* of fromPeers and out, 5 in the code
  ApiBufferSize, \* of toApi, completedObjectives and failedObjectives, 100 in the code
  MaxSends,      \* bound: the messages one event makes an engine send
  MaxCompleted,  \* bound: the objectives one event completes
  Load,          \* bound: the messages that are not handled yet, at any time
  MaxUnread      \* bound: the objectives each application was not told of yet

Clients == {"alice", "bob"}
Peer(c) == IF c = "alice" THEN "bob" ELSE "alice"

ASSUME BuffersAssumption ==
  /\ BufferSize \in Nat \ {0} /\ ApiBufferSize \in Nat \ {0}
  /\ MaxSends \in Nat /\ MaxCompleted \in Nat /\ Load \in Nat
  /\ MaxUnread \in [Clients -> Nat]

\* The most messages and reports that the channels hold without everyone waiting.
ASSUME LoadAssumption ==
  /\ Load <= 4 * BufferSize + 3
  /\ \A c \in Clients : MaxUnread[c] <= 2 * ApiBufferSize + 1

\* The channels of a Client that an application reads.
Outlets == {"completedObjectives", "failedObjectives"}

VARIABLES
  sends,     \* the messages each run loop has yet to send for the event it handles
  completes, \* the objectives it has to report when that is done
  fromPeers, \* the messages in each service's fromPeers
  routing,   \* the message routeFromPeers holds, 0 or 1
  out,       \* the messages in each service's out
  toApi,     \* the events in each engine's toApi
  reported,  \* and the objectives in those events
  handling,  \* what handleEngineEvents has yet to dispatch of the event it holds
  outlets    \* the objectives in the channels the application reads

vars == <<sends, completes, fromPeers, routing, out, toApi, reported, handling, outlets>>

None == [c \in Clients |-> 0]

Init ==
  /\ sends = None /\ completes = None
  /\ fromPeers = None /\ routing = None /\ out = None
  /\ toApi = None /\ reported = None
  /\ handling = [c \in Clients |-> [outlet |-> "completedObjectives", left |-> 0]]
  /\ outlets = [c \in Clients |-> [o \in Outlets |-> 0]]

\* The run loop is at its select.
Idle(c) == sends[c] = 0 /\ completes[c] = 0

\* The messages to c that wait to be handled, and all messages.
Waiting(c) == fromPeers[c] + routing[c] + out[c]
Outstanding == Waiting("alice") + Waiting("bob") + sends["alice"] + sends["bob"]

\* The objectives c's application does not know of yet.
Unread(c) ==
  completes[c] + reported[c] + handling[c].left
    + outlets[c]["completedObjectives"] + outlets[c]["failedObjectives"]

-----------------------------------------------------------------------------
(* The run loop *)

\* What a handler makes its client do: send n messages, then report m objectives.
Starts(c, n, m) ==
  /\ sends' = [sends EXCEPT ![c] = n]
  /\ completes' = [completes EXCEPT ![c] = m]
  /\ UNCHANGED <<fromPeers, routing, toApi, reported, handling, outlets>>
  /\ Outstanding' <= Load /\ Unread(c)' <= MaxUnread[c]

\* The application calls the API, or the chain has an event.
HandleEvent(c) ==
  /\ Idle(c)
  /\ UNCHANGED out
  /\ \E n \in 0..MaxSends, m \in 0..MaxCompleted : Starts(c, n, m)

HandleMessage(c) ==
  /\ Idle(c)
  /\ out[c] > 0
  /\ out' = [out EXCEPT ![c] = @ - 1]
  /\ \E n \in 0..MaxSends, m \in 0..MaxCompleted : Starts(c, n, m)

CanSend(c) == sends[c] > 0 /\ fromPeers[Peer(c)] < BufferSize

\* dispatchMessage writes to the peer's channel.
Send(c) ==
  /\ CanSend(c)
  /\ sends' = [sends EXCEPT ![c] = @ - 1]
  /\ fromPeers' = [fromPeers EXCEPT ![Peer(c)] = @ + 1]
  /\ UNCHANGED <<completes, routing, out, toApi, reported, handling, outlets>>

CanReport(c) == sends[c] = 0 /\ completes[c] > 0 /\ toApi[c] < ApiBufferSize

\* All that one event completed is one event for the API.
Report(c) ==
  /\ CanReport(c)
  /\ completes' = [completes EXCEPT ![c] = 0]
  /\ toApi' = [toApi EXCEPT ![c] = @ + 1]
  /\ reported' = [reported EXCEPT ![c] = @ + completes[c]]
  /\ UNCHANGED <<sends, fromPeers, routing, out, handling, outlets>>

-----------------------------------------------------------------------------
(* The message service and the client's event handler *)

CanTake(c) == routing[c] = 0 /\ fromPeers[c] > 0

\* A mutation of CanDeliver: the channel out has one place less.
CanDeliverToSmaller(c) == routing[c] = 1 /\ out[c] < BufferSize - 1

CanDeliver(c) == routing[c] = 1 /\ out[c] < BufferSize

routeFromPeers(c) ==
  /\ \/ /\ CanTake(c)
        /\ routing' = [routing EXCEPT ![c] = 1]
        /\ fromPeers' = [fromPeers EXCEPT ![c] = @ - 1]
        /\ UNCHANGED out
     \/ /\ CanDeliver(c)
        /\ routing' = [routing EXCEPT ![c] = 0]
        /\ out' = [out EXCEPT ![c] = @ + 1]
        /\ UNCHANGED fromPeers
  /\ UNCHANGED <<sends, completes, toApi, reported, handling, outlets>>

\* A mutation of CanPick: the handler waits until the application has read everything.
CanPickWhenRead(c) ==
  handling[c].left = 0 /\ toApi[c] > 0 /\ \A o \in Outlets : outlets[c][o] = 0

CanPick(c) == handling[c].left = 0 /\ toApi[c] > 0
CanDispatch(c) == handling[c].left > 0 /\ outlets[c][handling[c].outlet] < ApiBufferSize

\* The handler picks an event, which reports some of the objectives (all of them when
\* it is the last event), and dispatches those one by one.
handleEngineEvents(c) ==
  /\ \/ /\ CanPick(c)
        /\ \E o \in Outlets, m \in 1..MaxCompleted :
             /\ m <= reported[c] - (toApi[c] - 1)
             /\ toApi[c] = 1 => m = reported[c]
             /\ o = "failedObjectives" => m = 1
             /\ handling' = [handling EXCEPT ![c] = [outlet |-> o, left |-> m]]
             /\ reported' = [reported EXCEPT ![c] = @ - m]
        /\ toApi' = [toApi EXCEPT ![c] = @ - 1]
        /\ UNCHANGED outlets
     \/ /\ CanDispatch(c)
        /\ outlets' = [outlets EXCEPT ![c][handling[c].outlet] = @ + 1]
        /\ handling' = [handling EXCEPT ![c].left = @ - 1]
        /\ UNCHANGED <<toApi, reported>>
  /\ UNCHANGED <<sends, completes, fromPeers, routing, out>>

\* The application reads, or never does.
Read(c) ==
  /\ \E o \in Outlets : outlets[c][o] > 0 /\ outlets' = [outlets EXCEPT ![c][o] = @ - 1]
  /\ UNCHANGED <<sends, completes, fromPeers, routing, out, toApi, reported, handling>>

Next ==
  \E c \in Clients :
    \/ HandleEvent(c) \/ HandleMessage(c) \/ Send(c) \/ Report(c)
    \/ routeFromPeers(c) \/ handleEngineEvents(c) \/ Read(c)

\* Every goroutine that can go on does, and a select that often finds a message chooses
\* it some time.
Fairness ==
  \A c \in Clients :
    /\ WF_vars(Send(c)) /\ WF_vars(Report(c))
    /\ WF_vars(routeFromPeers(c)) /\ WF_vars(handleEngineEvents(c))
    /\ SF_vars(HandleMessage(c))

Spec == Init /\ [][Next]_vars /\ Fairness

-----------------------------------------------------------------------------
(* Properties *)

\* Every variable has its type, and no Go channel holds more than its capacity.
TypeOK ==
  /\ sends \in [Clients -> Nat] /\ completes \in [Clients -> Nat]
  /\ fromPeers \in [Clients -> 0..BufferSize]
  /\ routing \in [Clients -> 0..1]
  /\ out \in [Clients -> 0..BufferSize]
  /\ toApi \in [Clients -> 0..ApiBufferSize]
  /\ reported \in [Clients -> Nat]
  /\ handling \in [Clients -> [outlet : Outlets, left : Nat]]
  /\ outlets \in [Clients -> [Outlets -> 0..ApiBufferSize]]

\* A goroutine of c can go on.
CanGoOn(c) ==
  \/ CanSend(c) \/ CanReport(c) \/ (Idle(c) /\ out[c] > 0)
  \/ CanTake(c) \/ CanDeliver(c)
  \/ CanPick(c) \/ CanDispatch(c)

\* The clients never all wait for each other: as long as a message is on its way or an
\* objective is to be reported, a goroutine can go on, even if no application reads.
\* Both run loops in dispatchMessage, writing to channels that are full because the
\* other one does not read, would wait for ever.
NotAllBlocked ==
  (\E c \in Clients : Waiting(c) > 0 \/ ~ Idle(c)) => \E c \in Clients : CanGoOn(c)

\* Every message is handled: no run loop waits for ever, in Send or for its application,
\* while messages to it are on their way.
EveryMessageHandled ==
  \A c \in Clients : []<>(Waiting(c) = 0) \/ []<><<HandleMessage(c)>>_vars
=============================================================================
