------------------------------- MODULE WsHub -------------------------------
(***************************************************************************)
(* The WebSocket hub of the main server (cmd/main-server/ws_hub.go): one     *)
(* goroutine, Run, owns the set of clients and is reached over three         *)
(* channels; every connection has a handler goroutine that reads until the   *)
(* connection fails and a write pump that drains the client's send channel.  *)
(*                                                                           *)
(* Messages are numbered in the order they enter the broadcast channel, so   *)
(* that the properties can say which of them a client was given.  A send on  *)
(* a closed channel and a second close panic in Go: crashed records either.  *)
(***************************************************************************)
EXTENDS Naturals, Sequences, FiniteSets

CONSTANTS
    Clients,       \* the connections
    Callers,       \* goroutines that broadcast (handlers of /register)
    BroadcastCap,  \* capacity of Hub.broadcast, 32 in the code
    SendCap,       \* capacity of Client.send, 16 in the code
    MaxEvents      \* bound: connections and messages together

ASSUME CapAssumption ==
    BroadcastCap \in Nat \ {0} /\ SendCap \in Nat \ {0} /\ MaxEvents \in Nat

VARIABLES
    clients,    \* Hub.clients
    fanout,     \* clients Run has still to hand its message to
    msg,        \* the message Run is handing out
    broadcast,  \* Hub.broadcast
    caller,     \* what each broadcaster is doing
    handler,    \* where each WebSocketHandler is
    pump,       \* where each WritePump is
    conn,       \* the state of each connection
    send,       \* what Client.send holds
    closed,     \* Client.send is closed
    crashed,    \* the process has panicked
    taken,      \* history: messages given out so far
    given       \* history: messages put into each client's channel

vars == <<clients, fanout, msg, broadcast, caller, handler, pump, conn, send,
          closed, crashed, taken, given>>

Init ==
    /\ clients = {} /\ fanout = {} /\ msg = 0
    /\ broadcast = <<>>
    /\ caller = [b \in Callers |-> "idle"]
    /\ handler = [c \in Clients |-> "none"]
    /\ pump = [c \in Clients |-> "none"]
    /\ conn = [c \in Clients |-> "none"]
    /\ send = [c \in Clients |-> <<>>]
    /\ closed = [c \in Clients |-> FALSE]
    /\ crashed = FALSE
    /\ taken = 0
    /\ given = [c \in Clients |-> <<>>]

\* What counts against the bound MaxEvents: connections and messages so far.
Events ==
    Cardinality({c \in Clients : handler[c] # "none"})
    + taken + Len(broadcast) + Cardinality({d \in Callers : caller[d] = "send"})

\* Run waits in its select.
Selecting == fanout = {} /\ ~crashed

\* close(client.send)
Close(c) == closed' = [closed EXCEPT ![c] = TRUE] /\ crashed' = closed[c]
-----------------------------------------------------------------------------
(* The handler of one connection, WebSocketHandler and AddClient. *)

Connect(c) ==
    /\ handler[c] = "none" /\ ~crashed /\ Events < MaxEvents
    /\ handler' = [handler EXCEPT ![c] = "register"]
    /\ conn' = [conn EXCEPT ![c] = "open"]
    /\ UNCHANGED <<clients, fanout, msg, broadcast, caller, pump, send, closed,
                   crashed, taken, given>>

\* h.register <- client meets the first case of Run's select.
Register(c) ==
    /\ handler[c] = "register" /\ Selecting
    /\ clients' = clients \cup {c}
    /\ handler' = [handler EXCEPT ![c] = "start"]
    /\ UNCHANGED <<fanout, msg, broadcast, caller, pump, conn, send, closed,
                   crashed, taken, given>>

\* go client.WritePump(); the handler goes on to read.
StartPump(c) ==
    /\ handler[c] = "start" /\ ~crashed
    /\ handler' = [handler EXCEPT ![c] = "read"]
    /\ pump' = [pump EXCEPT ![c] = "ready"]
    /\ UNCHANGED <<clients, fanout, msg, broadcast, caller, conn, send, closed,
                   crashed, taken, given>>

\* ReadMessage fails once the connection is closed by either side.
ReadFailsAlone(c) ==    \* mutant: RemoveClient is not deferred
    /\ handler[c] = "read" /\ conn[c] = "closed" /\ ~crashed
    /\ handler' = [handler EXCEPT ![c] = "done"]
    /\ UNCHANGED <<clients, fanout, msg, broadcast, caller, pump, conn, send,
                   closed, crashed, taken, given>>

ReadFails(c) ==
    /\ handler[c] = "read" /\ conn[c] = "closed" /\ ~crashed
    /\ handler' = [handler EXCEPT ![c] = "unregister"]
    /\ UNCHANGED <<clients, fanout, msg, broadcast, caller, pump, conn, send,
                   closed, crashed, taken, given>>

\* The deferred h.unregister <- client meets the second case.
UnregisterUnchecked(c) ==   \* mutant: no test whether the client is there
    /\ handler[c] = "unregister" /\ Selecting
    /\ clients' = clients \ {c}
    /\ Close(c)
    /\ handler' = [handler EXCEPT ![c] = "done"]
    /\ UNCHANGED <<fanout, msg, broadcast, caller, pump, conn, send, taken, given>>

Unregister(c) ==
    /\ handler[c] = "unregister" /\ Selecting
    /\ clients' = clients \ {c}
    /\ IF c \in clients THEN Close(c) ELSE UNCHANGED <<closed, crashed>>
    /\ handler' = [handler EXCEPT ![c] = "done"]
    /\ UNCHANGED <<fanout, msg, broadcast, caller, pump, conn, send, taken, given>>

\* The peer goes away or the network fails.
Disconnect(c) ==
    /\ conn[c] = "open"
    /\ conn' = [conn EXCEPT ![c] = "closed"]
    /\ UNCHANGED <<clients, fanout, msg, broadcast, caller, handler, pump, send,
                   closed, crashed, taken, given>>
-----------------------------------------------------------------------------
(* WritePump *)

PumpTakes(c) ==
    /\ pump[c] = "ready" /\ send[c] # <<>> /\ ~crashed
    /\ pump' = [pump EXCEPT ![c] = "write"]
    /\ send' = [send EXCEPT ![c] = Tail(@)]
    /\ UNCHANGED <<clients, fanout, msg, broadcast, caller, handler, conn,
                   closed, crashed, taken, given>>

\* WriteMessage has no deadline: on an open connection it may take for ever.
PumpWrites(c) ==
    /\ pump[c] = "write" /\ conn[c] = "open" /\ ~crashed
    /\ pump' = [pump EXCEPT ![c] = "ready"]
    /\ UNCHANGED <<clients, fanout, msg, broadcast, caller, handler, conn, send,
                   closed, crashed, taken, given>>

\* A write error, or a closed and drained channel, ends the pump; its
\* deferred Close ends the connection.
PumpEnds(c) ==
    /\ \/ pump[c] = "write" /\ conn[c] = "closed"
       \/ pump[c] = "ready" /\ closed[c] /\ send[c] = <<>>
    /\ ~crashed
    /\ pump' = [pump EXCEPT ![c] = "done"]
    /\ conn' = [conn EXCEPT ![c] = "closed"]
    /\ UNCHANGED <<clients, fanout, msg, broadcast, caller, handler, send,
                   closed, crashed, taken, given>>
-----------------------------------------------------------------------------
(* Broadcasting *)

\* BroadcastMessage is called, then gets room in the channel.
CallBroadcast(b) ==
    /\ caller[b] = "idle" /\ ~crashed
    /\ Events < MaxEvents
    /\ caller' = [caller EXCEPT ![b] = "send"]
    /\ UNCHANGED <<clients, fanout, msg, broadcast, handler, pump, conn, send,
                   closed, crashed, taken, given>>

BroadcastMessage(b) ==
    /\ caller[b] = "send" /\ Len(broadcast) < BroadcastCap /\ ~crashed
    /\ broadcast' = Append(broadcast, taken + Len(broadcast) + 1)
    /\ caller' = [caller EXCEPT ![b] = "idle"]
    /\ UNCHANGED <<clients, fanout, msg, handler, pump, conn, send, closed,
                   crashed, taken, given>>

\* The third case of Run's select: the range over the clients begins.
TakeMessage ==
    /\ Selecting /\ broadcast # <<>>
    /\ msg' = Head(broadcast)
    /\ broadcast' = Tail(broadcast)
    /\ fanout' = clients
    /\ taken' = taken + 1
    /\ UNCHANGED <<clients, caller, handler, pump, conn, send, closed, crashed, given>>

HasRoom(c) == Len(send[c]) < SendCap

\* client.send <- msg, without waiting.
HandOut(c) ==
    /\ c \in fanout /\ ~crashed /\ HasRoom(c)
    /\ send' = [send EXCEPT ![c] = Append(@, msg)]
    /\ given' = [given EXCEPT ![c] = Append(@, msg)]
    /\ fanout' = fanout \ {c}
    /\ crashed' = closed[c]
    /\ UNCHANGED <<clients, msg, broadcast, caller, handler, pump, conn, closed, taken>>

\* default: a client that does not read is dropped.
DropSkips(c) ==     \* mutant: the message is passed over, the client stays
    /\ c \in fanout /\ ~crashed /\ ~HasRoom(c)
    /\ fanout' = fanout \ {c}
    /\ UNCHANGED <<clients, msg, broadcast, caller, handler, pump, conn, send,
                   closed, crashed, taken, given>>

DropWaits(c) == FALSE   \* mutant: a plain send, which waits for room

Drop(c) ==
    /\ c \in fanout /\ ~crashed /\ ~HasRoom(c)
    /\ Close(c)
    /\ clients' = clients \ {c}
    /\ fanout' = fanout \ {c}
    /\ UNCHANGED <<msg, broadcast, caller, handler, pump, conn, send, taken, given>>

Handler(c) == Connect(c) \/ Register(c) \/ StartPump(c) \/ ReadFails(c) \/ Unregister(c)
Pump(c)    == PumpTakes(c) \/ PumpWrites(c) \/ PumpEnds(c)
Hub        == TakeMessage \/ \E c \in Clients : HandOut(c) \/ Drop(c)

Next ==
    \/ \E c \in Clients : Handler(c) \/ Pump(c) \/ Disconnect(c)
    \/ \E b \in Callers : CallBroadcast(b) \/ BroadcastMessage(b)
    \/ Hub

Spec == Init /\ [][Next]_vars

\* Goroutines that can go on do, and Go's select passes over no ready case for
\* ever.  A write on an open connection has no deadline: nothing makes it end.
LiveSpec ==
    /\ Spec
    /\ WF_vars(Hub)
    /\ \A b \in Callers : WF_vars(BroadcastMessage(b))
    /\ \A c \in Clients :
         /\ WF_vars(StartPump(c)) /\ WF_vars(ReadFails(c))
         /\ SF_vars(Register(c)) /\ SF_vars(Unregister(c))
         /\ WF_vars(PumpTakes(c)) /\ WF_vars(PumpEnds(c))
-----------------------------------------------------------------------------
Handlers == {"none", "register", "start", "read", "unregister", "done"}

\* No interleaving of a slow client's removal, its own unregistering and a
\* running fan-out sends on a closed channel or closes one twice
\* (ws_hub.go:58-60, 67-74).
NeverCrashes == ~crashed

\* A client that is registered has been given every message the hub took since
\* its first one, in order; a client that is dropped has missed none before
\* (ws_hub.go:65-75).
NoGaps ==
    \A c \in Clients :
        /\ \A k \in 1 .. Len(given[c]) : given[c][k] = given[c][1] + (k - 1)
        /\ c \in clients \ fanout /\ given[c] # <<>>
             => given[c][Len(given[c])] = taken

\* BroadcastMessage returns, however slow the clients are: the hub waits for
\* none of them ("client not reading, remove", ws_hub.go:71).
BroadcastReturns == \A b \in Callers : caller[b] = "send" ~> caller[b] = "idle"

\* A client whose connection has ended leaves the hub and its handler returns
\* (ws_handler.go:24-34).
DeadClientsLeave ==
    \A c \in Clients : conn[c] = "closed" ~> c \notin clients /\ handler[c] = "done"
=============================================================================
