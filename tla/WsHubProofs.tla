---------------------------- MODULE WsHubProofs ----------------------------
(* That the hub never sends on a closed channel and never closes one twice,  *)
(* and that no registered client misses a message: for any number of         *)
(* connections and broadcasters and any channel sizes.                       *)
EXTENDS WsHub, TLAPS

\* The strengthening: the hub knows only clients whose channel is open, and a
\* connection that has not been registered yet is not among them and has never
\* had its channel closed.
OpenInHub == \A c \in clients : ~closed[c]
Unknown   == \A c \in Clients :
                 handler[c] \in {"none", "register"} => c \notin clients /\ ~closed[c]

IInv ==
    /\ clients \subseteq Clients /\ fanout \subseteq clients
    /\ handler \in [Clients -> Handlers]
    /\ closed \in [Clients -> BOOLEAN]
    /\ OpenInHub /\ Unknown
    /\ NeverCrashes

LEMMA InitInv == Init => IInv
BY DEF Init, IInv, OpenInHub, Unknown, NeverCrashes, Handlers

\* What the invariant speaks of.
watched == <<clients, fanout, handler, closed, crashed>>

LEMMA Untouched == IInv /\ UNCHANGED watched => IInv'
BY DEF IInv, watched, OpenInHub, Unknown, NeverCrashes

LEMMA StepInv == IInv /\ [Next]_vars => IInv'
<1> SUFFICES ASSUME IInv, [Next]_vars PROVE IInv'
  OBVIOUS
<1> USE DEF IInv, OpenInHub, Unknown, NeverCrashes
<1>1. ASSUME NEW c \in Clients, Connect(c) PROVE IInv'
  BY <1>1 DEF Connect, Handlers
<1>2. ASSUME NEW c \in Clients, Register(c) PROVE IInv'
  \* The channel of a client that registers is still open.
  BY <1>2 DEF Register, Selecting, Handlers
<1>3. ASSUME NEW c \in Clients, StartPump(c) PROVE IInv'
  BY <1>3 DEF StartPump, Handlers
<1>4. ASSUME NEW c \in Clients, ReadFails(c) PROVE IInv'
  BY <1>4 DEF ReadFails, Handlers
<1>5. ASSUME NEW c \in Clients, Unregister(c) PROVE IInv'
  <2>1. CASE c \in clients
    <3>1. closed' = [closed EXCEPT ![c] = TRUE] /\ ~crashed'
      BY <1>5, <2>1 DEF Unregister, Close
    <3> QED BY <1>5, <3>1 DEF Unregister, Selecting, Handlers
  <2>2. CASE c \notin clients
    BY <1>5, <2>2 DEF Unregister, Selecting, Handlers
  <2> QED BY <2>1, <2>2
<1>6. ASSUME NEW c \in Clients, HandOut(c) PROVE IInv'
  \* A client the fan-out has still to serve is registered, hence open.
  BY <1>6 DEF HandOut
<1>7. ASSUME NEW c \in Clients, Drop(c) PROVE IInv'
  <2>1. handler[c] \notin {"none", "register"}
    BY <1>7 DEF Drop
  <2>2. closed' = [closed EXCEPT ![c] = TRUE] /\ ~crashed'
    BY <1>7 DEF Drop, Close
  <2> QED BY <1>7, <2>1, <2>2 DEF Drop
<1>8. CASE TakeMessage
  BY <1>8 DEF TakeMessage, Selecting
<1>9. ASSUME NEW c \in Clients, Pump(c) \/ Disconnect(c) PROVE IInv'
  <2>1. UNCHANGED watched
    BY <1>9 DEF Pump, PumpTakes, PumpWrites, PumpEnds, Disconnect, watched
  <2> QED BY <2>1, Untouched
<1>10. ASSUME NEW b \in Callers, CallBroadcast(b) \/ BroadcastMessage(b) PROVE IInv'
  <2>1. UNCHANGED watched
    BY <1>10 DEF CallBroadcast, BroadcastMessage, watched
  <2> QED BY <2>1, Untouched
<1>11. CASE UNCHANGED vars
  BY <1>11, Untouched DEF vars, watched
<1> QED
  BY <1>1, <1>2, <1>3, <1>4, <1>5, <1>6, <1>7, <1>8, <1>9, <1>10, <1>11
     DEF Next, Handler, Hub

\* The hub never panics on a channel: no interleaving of dropping a slow
\* client, its own unregistering and a fan-out sends on a closed channel or
\* closes one again (ws_hub.go:56-76).
THEOREM NeverCrashesHolds == Spec => []NeverCrashes
<1>1. IInv => NeverCrashes
  BY DEF IInv
<1> QED
  BY InitInv, StepInv, <1>1, PTL DEF Spec
-----------------------------------------------------------------------------
(* No gaps in what a client is given.                                        *)

\* The messages in Hub.broadcast are those after the last one taken, in order,
\* and during a fan-out it is the last one taken that is handed out.
Numbered ==
    /\ \A i \in 1 .. Len(broadcast) : broadcast[i] = taken + i
    /\ fanout # {} => msg = taken

Contiguous(s) == \A k \in 1 .. Len(s) : s[k] = s[1] + (k - 1)

LastGiven(c) == given[c][Len(given[c])]

\* A client whose turn is still to come has been given all but the last.
UpToDate ==
    \A c \in clients : given[c] # <<>> =>
        LastGiven(c) = IF c \in fanout THEN taken - 1 ELSE taken

GapInv ==
    /\ IInv
    /\ taken \in Nat /\ broadcast \in Seq(Nat)
    /\ given \in [Clients -> Seq(Nat)]
    /\ Numbered
    /\ \A c \in Clients : Contiguous(given[c])
    /\ UpToDate
    /\ \A c \in Clients : handler[c] \in {"none", "register"} => given[c] = <<>>

LEMMA NextContiguous ==
    ASSUME NEW s \in Seq(Nat), Contiguous(s), NEW n \in Nat,
           s # <<>> => s[Len(s)] = n - 1
    PROVE  /\ Append(s, n) \in Seq(Nat) /\ Contiguous(Append(s, n))
           /\ Append(s, n)[Len(Append(s, n))] = n
<1> DEFINE t == Append(s, n)
<1>1. /\ t \in Seq(Nat) /\ Len(s) \in Nat /\ Len(t) = Len(s) + 1
      /\ \A k \in 1 .. Len(s) : t[k] = s[k] /\ s[k] \in Nat
      /\ t[Len(s) + 1] = n
  OBVIOUS
<1>2. CASE s = <<>>
  BY <1>1, <1>2 DEF Contiguous
<1>3. CASE s # <<>>
  <2>1. Len(s) \in 1 .. Len(s) /\ 1 \in 1 .. Len(s)
    BY <1>1, <1>3
  <2>2. n = s[1] + Len(s)
    <3>1. s[Len(s)] = s[1] + (Len(s) - 1) /\ s[1] \in Nat
      BY <1>1, <2>1 DEF Contiguous
    <3> QED BY <1>1, <1>3, <3>1
  <2>3. ASSUME NEW k \in 1 .. Len(t) PROVE t[k] = t[1] + (k - 1)
    <3>1. CASE k = Len(s) + 1
      BY <1>1, <2>1, <2>2, <3>1
    <3>2. CASE k # Len(s) + 1
      <4>1. k \in 1 .. Len(s)
        BY <1>1, <3>2
      <4> QED BY <1>1, <2>1, <4>1 DEF Contiguous
    <3> QED BY <3>1, <3>2
  <2> QED BY <1>1, <2>3 DEF Contiguous
<1> QED BY <1>2, <1>3

LEMMA GapInit == Init => GapInv
BY InitInv DEF Init, GapInv, Numbered, Contiguous, UpToDate

\* The steps that touch no message leave the rest of the invariant alone.
LEMMA SameMessages ==
    ASSUME GapInv, IInv', UNCHANGED <<taken, broadcast, given, msg, fanout>>,
           \A c \in clients' \ clients : given[c] = <<>>,
           \A c \in Clients : handler'[c] \in {"none", "register"} =>
                                 handler[c] \in {"none", "register"}
    PROVE  GapInv'
<1>1. UpToDate'
  BY DEF GapInv, UpToDate, LastGiven
<1> QED BY <1>1 DEF GapInv, Numbered

LEMMA GapStep == GapInv /\ [Next]_vars => GapInv'
<1> SUFFICES ASSUME GapInv, [Next]_vars PROVE GapInv'
  OBVIOUS
<1>1. IInv /\ IInv'
  BY StepInv DEF GapInv
<1>2. /\ handler \in [Clients -> Handlers] /\ clients \subseteq Clients
      /\ fanout \subseteq clients
      /\ taken \in Nat /\ broadcast \in Seq(Nat) /\ given \in [Clients -> Seq(Nat)]
  BY <1>1 DEF IInv, GapInv
<1>3. ASSUME NEW c \in Clients, Handler(c) PROVE GapInv'
  <2>1. UNCHANGED <<taken, broadcast, given, msg, fanout>>
    BY <1>3 DEF Handler, Connect, Register, StartPump, ReadFails, Unregister
  <2>2. \A d \in Clients : handler'[d] \in {"none", "register"} =>
                             handler[d] \in {"none", "register"}
    BY <1>2, <1>3 DEF Handler, Connect, Register, StartPump, ReadFails, Unregister
  <2>3. \A d \in clients' \ clients : given[d] = <<>>
    \* A client is registered once, before anything is given to it.
    BY <1>3 DEF Handler, Connect, Register, StartPump, ReadFails, Unregister, GapInv
  <2> QED BY <1>1, <2>1, <2>2, <2>3, SameMessages
<1>4. ASSUME NEW c \in Clients, Pump(c) \/ Disconnect(c) PROVE GapInv'
  <2>1. UNCHANGED <<taken, broadcast, given, msg, fanout, clients, handler>>
    BY <1>4 DEF Pump, PumpTakes, PumpWrites, PumpEnds, Disconnect
  <2> QED BY <1>1, <2>1, SameMessages
<1>5. ASSUME NEW b \in Callers, CallBroadcast(b) PROVE GapInv'
  <2>1. UNCHANGED <<taken, broadcast, given, msg, fanout, clients, handler>>
    BY <1>5 DEF CallBroadcast
  <2> QED BY <1>1, <2>1, SameMessages
<1>6. ASSUME NEW b \in Callers, BroadcastMessage(b) PROVE GapInv'
  <2>1. /\ broadcast' = Append(broadcast, taken + Len(broadcast) + 1)
        /\ UNCHANGED <<taken, given, msg, fanout, clients, handler>>
    BY <1>6 DEF BroadcastMessage
  <2>2. broadcast' \in Seq(Nat) /\ \A i \in 1 .. Len(broadcast') : broadcast'[i] = taken + i
    <3>1. /\ Len(broadcast) \in Nat /\ Len(broadcast') = Len(broadcast) + 1
          /\ \A i \in 1 .. Len(broadcast) : broadcast'[i] = broadcast[i]
          /\ broadcast'[Len(broadcast) + 1] = taken + (Len(broadcast) + 1)
          /\ \A i \in 1 .. Len(broadcast) + 1 : i \in 1 .. Len(broadcast) \/ i = Len(broadcast) + 1
      BY <1>2, <2>1
    <3>2. \A i \in 1 .. Len(broadcast) : broadcast[i] = taken + i
      BY DEF GapInv, Numbered
    <3>3. broadcast' \in Seq(Nat)
      BY <1>2, <2>1
    <3> QED BY <3>1, <3>2, <3>3
  <2> QED BY <1>1, <2>1, <2>2 DEF GapInv, Numbered, UpToDate, LastGiven
<1>7. CASE TakeMessage
  <2>1. /\ fanout = {} /\ broadcast # <<>> /\ msg' = Head(broadcast)
        /\ broadcast' = Tail(broadcast) /\ fanout' = clients /\ taken' = taken + 1
        /\ UNCHANGED <<clients, handler, given>>
    BY <1>7 DEF TakeMessage, Selecting
  <2>2. /\ Len(broadcast) \in Nat /\ 1 \in 1 .. Len(broadcast) /\ Head(broadcast) = broadcast[1]
        /\ broadcast' \in Seq(Nat)
        /\ \A i \in 1 .. Len(broadcast') :
              i + 1 \in 1 .. Len(broadcast) /\ broadcast'[i] = broadcast[i + 1]
    BY <1>2, <2>1
  <2>3. msg' = taken' /\ \A i \in 1 .. Len(broadcast') : broadcast'[i] = taken' + i
    BY <1>2, <2>1, <2>2 DEF GapInv, Numbered
  <2>4. UpToDate'
    \* No turn was left over from the message before.
    BY <1>2, <2>1 DEF GapInv, UpToDate, LastGiven
  <2> QED BY <1>1, <1>2, <2>1, <2>2, <2>3, <2>4 DEF GapInv, Numbered
<1>8. ASSUME NEW c \in Clients, HandOut(c) PROVE GapInv'
  <2>1. /\ c \in fanout /\ given' = [given EXCEPT ![c] = Append(given[c], msg)]
        /\ fanout' = fanout \ {c} /\ UNCHANGED <<clients, msg, broadcast, handler, taken>>
    BY <1>8 DEF HandOut
  <2>2. c \in clients /\ msg = taken /\ (given[c] # <<>> => given[c][Len(given[c])] = taken - 1)
    BY <1>2, <2>1 DEF GapInv, Numbered, UpToDate, LastGiven
  <2>3. /\ Append(given[c], taken) \in Seq(Nat) /\ Contiguous(Append(given[c], taken))
        /\ Append(given[c], taken)[Len(Append(given[c], taken))] = taken
    BY <1>2, <2>2, NextContiguous DEF GapInv
  <2>4. given' = [given EXCEPT ![c] = Append(given[c], taken)]
    BY <2>1, <2>2
  <2>5. UpToDate'
    BY <1>2, <2>1, <2>3, <2>4 DEF GapInv, UpToDate, LastGiven
  <2>6. handler[c] \notin {"none", "register"}
    BY <1>1, <2>2 DEF IInv, Unknown
  <2> QED BY <1>1, <1>2, <2>1, <2>3, <2>4, <2>5, <2>6 DEF GapInv, Numbered
<1>9. ASSUME NEW c \in Clients, Drop(c) PROVE GapInv'
  <2>1. /\ clients' = clients \ {c} /\ fanout' = fanout \ {c}
        /\ UNCHANGED <<msg, broadcast, handler, taken, given>>
    BY <1>9 DEF Drop
  <2>2. UpToDate'
    BY <2>1 DEF GapInv, UpToDate, LastGiven
  <2> QED BY <1>1, <2>1, <2>2 DEF GapInv, Numbered
<1>10. CASE UNCHANGED vars
  BY <1>1, <1>10, SameMessages DEF vars
<1> QED
  BY <1>3, <1>4, <1>5, <1>6, <1>7, <1>8, <1>9, <1>10 DEF Next, Hub

\* A registered client has every message since its first, in order, and a
\* dropped one has missed none before it was dropped (ws_hub.go:65-75).
THEOREM NoGapsHolds == Spec => []NoGaps
<1>1. GapInv => NoGaps
  BY DEF GapInv, NoGaps, Contiguous, UpToDate, LastGiven
<1> QED
  BY GapInit, GapStep, <1>1, PTL DEF Spec
=============================================================================
