------------------------ MODULE MessageServiceProofs ------------------------
(***************************************************************************)
(* The clients never all wait for each other, for any sizes of the buffers *)
(* and any load they are large enough for.                                 *)
(***************************************************************************)
EXTENDS MessageService, TLAPS

-----------------------------------------------------------------------------
(* The inductive invariant *)

\* Every event in toApi reports an objective, and no bound is exceeded.
Inv ==
  /\ TypeOK
  /\ Outstanding <= Load
  /\ \A c \in Clients : Unread(c) <= MaxUnread[c] /\ toApi[c] <= reported[c]

\* The invariant holds when the clients start.
LEMMA InitInv == Init => Inv
  BY BuffersAssumption
     DEF Init, Inv, TypeOK, None, Clients, Outlets, Outstanding, Waiting, Unread

\* A handler stays within the bounds.
LEMMA HandleInv ==
  ASSUME Inv, NEW c \in Clients, HandleEvent(c) \/ HandleMessage(c)
  PROVE  Inv'
<1>1. PICK n \in 0..MaxSends, m \in 0..MaxCompleted : Starts(c, n, m)
  BY DEF HandleEvent, HandleMessage
<1>2. n \in Nat /\ m \in Nat
  BY BuffersAssumption
<1>3. out' \in [Clients -> 0..BufferSize]
  BY BuffersAssumption DEF HandleEvent, HandleMessage, Inv, TypeOK
<1>4. TypeOK'
  BY <1>1, <1>2, <1>3 DEF Inv, TypeOK, Starts
<1>5. \A d \in Clients : Unread(d)' <= MaxUnread[d] /\ toApi'[d] <= reported'[d]
  BY <1>1, <1>2 DEF Inv, TypeOK, Starts, Unread
<1> QED BY <1>1, <1>4, <1>5 DEF Inv, Starts

\* Sending a message moves it.
LEMMA SendInv == ASSUME Inv, NEW c \in Clients, Send(c) PROVE Inv'
<1>1. TypeOK'
  BY BuffersAssumption DEF Inv, TypeOK, Send, CanSend, Peer, Clients
<1>2. Outstanding' = Outstanding
  BY BuffersAssumption DEF Inv, TypeOK, Send, CanSend, Peer, Clients, Outstanding, Waiting
<1>3. \A d \in Clients : Unread(d)' = Unread(d) /\ toApi'[d] = toApi[d] /\ reported'[d] = reported[d]
  BY DEF Send, Unread
<1> QED BY <1>1, <1>2, <1>3 DEF Inv

\* So does routing it.
LEMMA RouteInv == ASSUME Inv, NEW c \in Clients, routeFromPeers(c) PROVE Inv'
<1>1. TypeOK'
  BY BuffersAssumption DEF Inv, TypeOK, routeFromPeers, CanTake, CanDeliver, Clients
<1>2. Outstanding' = Outstanding
  BY BuffersAssumption
     DEF Inv, TypeOK, routeFromPeers, CanTake, CanDeliver, Clients, Outstanding, Waiting
<1>3. \A d \in Clients : Unread(d)' = Unread(d) /\ toApi'[d] = toApi[d] /\ reported'[d] = reported[d]
  BY DEF routeFromPeers, Unread
<1> QED BY <1>1, <1>2, <1>3 DEF Inv

\* Reporting objectives leaves the messages alone and moves the objectives.
LEMMA ReportInv == ASSUME Inv, NEW c \in Clients, Report(c) PROVE Inv'
<1>1. TypeOK'
  BY BuffersAssumption DEF Inv, TypeOK, Report, CanReport, Clients
<1>2. Outstanding' = Outstanding
  BY DEF Report, Outstanding, Waiting
<1>3. \A d \in Clients : Unread(d)' = Unread(d) /\ toApi'[d] <= reported'[d]
  BY BuffersAssumption DEF Inv, TypeOK, Report, CanReport, Unread, Outlets
<1> QED BY <1>1, <1>2, <1>3 DEF Inv

\* So do picking an event and dispatching what it reports.
LEMMA EventsInv == ASSUME Inv, NEW c \in Clients, handleEngineEvents(c) PROVE Inv'
<1>1. Outstanding' = Outstanding
  BY DEF handleEngineEvents, Outstanding, Waiting
<1>2. CASE CanPick(c) /\ UNCHANGED outlets
  <2>1. PICK o \in Outlets, m \in 1..MaxCompleted :
          /\ m <= reported[c] - (toApi[c] - 1)
          /\ handling' = [handling EXCEPT ![c] = [outlet |-> o, left |-> m]]
          /\ reported' = [reported EXCEPT ![c] = @ - m]
          /\ toApi' = [toApi EXCEPT ![c] = @ - 1]
    BY <1>2 DEF handleEngineEvents, CanPick, CanDispatch
  <2>2. TypeOK'
    BY <1>2, <2>1, BuffersAssumption DEF Inv, TypeOK, handleEngineEvents, CanPick
  <2>3. \A d \in Clients : Unread(d)' = Unread(d) /\ toApi'[d] <= reported'[d]
    BY <1>2, <2>1, BuffersAssumption DEF Inv, TypeOK, handleEngineEvents, CanPick, Unread, Outlets
  <2> QED BY <1>1, <2>2, <2>3 DEF Inv, handleEngineEvents
<1>3. CASE CanDispatch(c) /\ UNCHANGED <<toApi, reported>>
  <2>1. /\ outlets' = [outlets EXCEPT ![c][handling[c].outlet] = @ + 1]
        /\ handling' = [handling EXCEPT ![c].left = @ - 1]
        /\ handling[c].outlet \in Outlets
    BY <1>3 DEF handleEngineEvents, CanPick, CanDispatch, Inv, TypeOK
  <2>2. TypeOK'
    BY <1>3, <2>1, BuffersAssumption DEF Inv, TypeOK, handleEngineEvents, CanDispatch
  <2>3. ASSUME NEW d \in Clients PROVE Unread(d)' = Unread(d)
    <3>1. completes' = completes /\ reported' = reported
      BY <1>3 DEF handleEngineEvents
    <3>2. CASE d # c
      BY <2>1, <3>1, <3>2 DEF Inv, TypeOK, Unread
    <3>3. CASE d = c
      <4>1. handling'[c].left = handling[c].left - 1
        BY <2>1 DEF Inv, TypeOK
      <4>2. CASE handling[c].outlet = "completedObjectives"
        <5>1. /\ outlets'[c]["completedObjectives"] = outlets[c]["completedObjectives"] + 1
              /\ outlets'[c]["failedObjectives"] = outlets[c]["failedObjectives"]
          BY <2>1, <4>2 DEF Inv, TypeOK, Outlets
        <5> QED BY <3>1, <3>3, <4>1, <5>1, BuffersAssumption DEF Inv, TypeOK, Unread, Outlets
      <4>3. CASE handling[c].outlet = "failedObjectives"
        <5>1. /\ outlets'[c]["failedObjectives"] = outlets[c]["failedObjectives"] + 1
              /\ outlets'[c]["completedObjectives"] = outlets[c]["completedObjectives"]
          BY <2>1, <4>3 DEF Inv, TypeOK, Outlets
        <5> QED BY <3>1, <3>3, <4>1, <5>1, BuffersAssumption DEF Inv, TypeOK, Unread, Outlets
      <4> QED BY <2>1, <4>2, <4>3 DEF Outlets
    <3> QED BY <3>2, <3>3
  <2> QED BY <1>1, <1>3, <2>2, <2>3 DEF Inv, handleEngineEvents
<1> QED BY <1>2, <1>3 DEF handleEngineEvents

\* An application that reads makes room.
LEMMA ReadInv == ASSUME Inv, NEW c \in Clients, Read(c) PROVE Inv'
<1>1. PICK o \in Outlets : outlets[c][o] > 0 /\ outlets' = [outlets EXCEPT ![c][o] = @ - 1]
  BY DEF Read
<1>2. TypeOK'
  BY <1>1, BuffersAssumption DEF Inv, TypeOK, Read
<1>3. \A d \in Clients : Unread(d)' <= Unread(d)
  BY <1>1, BuffersAssumption DEF Inv, TypeOK, Read, Unread, Outlets
<1>4. \A d \in Clients : Unread(d) \in Nat /\ Unread(d)' \in Nat /\ MaxUnread[d] \in Nat
  BY <1>2, BuffersAssumption DEF Inv, TypeOK, Unread, Outlets
<1> QED BY <1>2, <1>3, <1>4 DEF Inv, Read, Outstanding, Waiting

-----------------------------------------------------------------------------
(* Why they never all wait *)

\* A run loop that reports waits for at most 2 * ApiBufferSize + 1 other objectives.
LEMMA ReportsOrOthersDo ==
  ASSUME Inv, NEW c \in Clients, ~ CanReport(c), ~ CanPick(c), ~ CanDispatch(c), sends[c] = 0
  PROVE  completes[c] = 0
<1> SUFFICES ASSUME completes[c] > 0 PROVE FALSE
  BY DEF Inv, TypeOK
<1>1. /\ completes[c] \in Nat /\ toApi[c] \in Nat /\ reported[c] \in Nat
      /\ handling[c].left \in Nat /\ handling[c].outlet \in Outlets
      /\ outlets[c]["completedObjectives"] \in Nat /\ outlets[c]["failedObjectives"] \in Nat
      /\ toApi[c] <= ApiBufferSize /\ toApi[c] <= reported[c]
      /\ Unread(c) <= MaxUnread[c]
      /\ ApiBufferSize \in Nat \ {0} /\ MaxUnread[c] \in Nat
      /\ MaxUnread[c] <= 2 * ApiBufferSize + 1
  BY BuffersAssumption, LoadAssumption DEF Inv, TypeOK, Outlets
<1>2. toApi[c] = ApiBufferSize
  BY <1>1 DEF CanReport
<1>3. handling[c].left > 0
  BY <1>1, <1>2 DEF CanPick
<1>4. outlets[c][handling[c].outlet] >= ApiBufferSize
  BY <1>1, <1>3 DEF CanDispatch, Outlets
<1>5. outlets[c]["completedObjectives"] >= ApiBufferSize
        \/ outlets[c]["failedObjectives"] >= ApiBufferSize
  BY <1>1, <1>4 DEF Outlets
<1> QED BY <1>1, <1>2, <1>3, <1>5 DEF Unread

\* A run loop that waits in dispatchMessage waits for a peer with messages in all places.
LEMMA WaitsForFullPeer ==
  ASSUME Inv, NEW c \in Clients, sends[c] > 0, ~ CanSend(c),
         ~ CanTake(Peer(c)), ~ CanDeliver(Peer(c))
  PROVE  Waiting(Peer(c)) = 2 * BufferSize + 1 /\ out[Peer(c)] > 0
<1> DEFINE d == Peer(c)
<1>1. /\ d \in Clients
      /\ fromPeers[d] \in 0..BufferSize /\ routing[d] \in 0..1 /\ out[d] \in 0..BufferSize
      /\ BufferSize \in Nat \ {0}
  BY BuffersAssumption DEF Inv, TypeOK, Peer, Clients
<1>2. fromPeers[d] = BufferSize
  BY <1>1 DEF CanSend
<1>3. routing[d] = 1
  BY <1>1, <1>2 DEF CanTake
<1>4. out[d] = BufferSize
  BY <1>1, <1>3 DEF CanDeliver
<1> QED BY <1>1, <1>2, <1>3, <1>4 DEF Waiting

\* The invariant excludes that all wait: two run loops that wait for each other need
\* 2 * (2 * BufferSize + 1) messages in the channels and two more to send.
LEMMA InvNotAllBlocked == Inv => NotAllBlocked
<1> SUFFICES ASSUME Inv, \A c \in Clients : ~ CanGoOn(c)
             PROVE  \A c \in Clients : Waiting(c) = 0 /\ Idle(c)
  BY DEF NotAllBlocked, Inv, TypeOK, Waiting, Idle
<1>1. \A c \in Clients : /\ sends[c] \in Nat /\ completes[c] \in Nat
                         /\ fromPeers[c] \in Nat /\ routing[c] \in 0..1 /\ out[c] \in Nat
                         /\ Waiting(c) \in Nat /\ Peer(c) \in Clients /\ Peer(Peer(c)) = c
  BY BuffersAssumption DEF Inv, TypeOK, Waiting, Peer, Clients
<1>2. \A c \in Clients : sends[c] = 0 => completes[c] = 0
  BY ReportsOrOthersDo DEF CanGoOn
<1>3. ASSUME NEW c \in Clients, sends[c] > 0
      PROVE  Waiting(Peer(c)) = 2 * BufferSize + 1 /\ sends[Peer(c)] > 0
  <2>1. Waiting(Peer(c)) = 2 * BufferSize + 1 /\ out[Peer(c)] > 0
    BY <1>1, <1>3, WaitsForFullPeer DEF CanGoOn
  <2>2. ~ Idle(Peer(c))
    BY <1>1, <2>1 DEF CanGoOn
  <2> QED BY <1>1, <1>2, <2>1, <2>2 DEF Idle
<1>4. \A c \in Clients : sends[c] = 0
  <2> SUFFICES ASSUME NEW c \in Clients, sends[c] > 0 PROVE FALSE
    BY <1>1
  <2>1. Waiting(Peer(c)) = 2 * BufferSize + 1 /\ sends[Peer(c)] > 0
    BY <1>3
  <2>2. Waiting(c) = 2 * BufferSize + 1
    BY <1>1, <1>3, <2>1
  <2>3. Outstanding = Waiting(c) + Waiting(Peer(c)) + sends[c] + sends[Peer(c)]
    BY <1>1 DEF Outstanding, Peer, Clients
  <2> QED BY <1>1, <2>1, <2>2, <2>3, BuffersAssumption, LoadAssumption DEF Inv
<1>5. \A c \in Clients : Idle(c)
  BY <1>2, <1>4 DEF Idle
<1>6. ASSUME NEW c \in Clients PROVE Waiting(c) = 0
  <2>1. out[c] = 0
    BY <1>1, <1>5 DEF CanGoOn
  <2>2. routing[c] = 0
    BY <1>1, <2>1, BuffersAssumption DEF CanGoOn, CanDeliver
  <2>3. fromPeers[c] = 0
    BY <1>1, <2>2 DEF CanGoOn, CanTake
  <2> QED BY <2>1, <2>2, <2>3 DEF Waiting
<1> QED BY <1>5, <1>6

-----------------------------------------------------------------------------
(* The theorems *)

\* Every step preserves the invariant.
LEMMA StepInv == Inv /\ [Next]_vars => Inv'
<1> SUFFICES ASSUME Inv, [Next]_vars PROVE Inv'
  OBVIOUS
<1>1. CASE UNCHANGED vars
  BY <1>1 DEF vars, Inv, TypeOK, Outstanding, Waiting, Unread
<1>2. CASE Next
  BY <1>2, HandleInv, SendInv, ReportInv, RouteInv, EventsInv, ReadInv DEF Next
<1> QED BY <1>1, <1>2

\* The counts stay in their ranges: no Go channel holds more than its buffer.
THEOREM BuffersNeverExceeded == Spec => []TypeOK
<1>1. Inv => TypeOK
  BY DEF Inv
<1> QED BY <1>1, InitInv, StepInv, PTL DEF Spec

\* Two clients never all wait for each other, whatever the sizes of the buffers, as long
\* as at most 4 * BufferSize + 3 messages are outstanding and each application leaves at
\* most 2 * ApiBufferSize + 1 objectives unread.
THEOREM NeverAllBlocked == Spec => []NotAllBlocked
  BY InitInv, StepInv, InvNotAllBlocked, PTL DEF Spec
=============================================================================
