----------------------------- MODULE RetryQueue -----------------------------
(***************************************************************************)
(* The main-server client of the collector (pkg/mainserverclient): send     *)
(* posts a request once and, on a transient failure, hands it to an         *)
(* in-memory retry queue; Flush posts the queued requests again.            *)
(*                                                                          *)
(* The threads are the goroutines that share one Client: the background     *)
(* flusher (StartFlusher), the heartbeat goroutine and the cron jobs.  The  *)
(* mutex of the queue is held only for the short sections below, so a step  *)
(* here is one critical section.  An HTTP exchange touches no shared state  *)
(* of the client; it is taken together with the section that follows it.    *)
(*                                                                          *)
(* Time is abstracted: whether an item's nextTry has passed is a choice     *)
(* made when Flush looks at it; once passed it stays so, and fairness says  *)
(* it passes in the end.                                                    *)
(***************************************************************************)
EXTENDS Naturals, Sequences, FiniteSets

CONSTANTS
    Posts,        \* the requests the program hands to send, once each
    NoPost,       \* stands for no request
    Threads,      \* goroutines that share the client
    Senders,      \* those that call send
    Flushers,     \* those that call Flush
    Cancellable,  \* those that pass the program context c.ctx, not Background
    MaxQueueLen,  \* maxQueueLen, 50 in the code
    MaxRetries,   \* maxRetries, 5 in the code
    Replies       \* what an HTTP exchange can come to in this environment

\* "retry" is a 5xx, a 429 or a network error (the reply may be lost after
\* the server has acted); "reject" is any other non-2xx reply but 401.
AllReplies == {"ok", "retry", "auth", "reject"}

ASSUME ThreadAssumption == Senders \subseteq Threads /\ Flushers \subseteq Threads
ASSUME LimitAssumption  == MaxQueueLen \in Nat \ {0} /\ MaxRetries \in Nat \ {0}
ASSUME PostAssumption   == NoPost \notin Posts
ASSUME ReplyAssumption  == Replies \subseteq AllReplies

VARIABLES
    items,        \* RetryQueue.items
    authBlocked,  \* RetryQueue.authBlocked
    ctxDone,      \* c.ctx has been cancelled
    pc,           \* what each thread is doing
    body,         \* the request a thread inside send is posting
    pending,      \* Flush's copy of the queue, the part not looked at yet
    remaining,    \* Flush's list of the items to keep
    ripe,         \* the items whose nextTry is known to have passed
    unsent,       \* history: requests not handed to send yet
    enqueued,     \* history: requests in the order Enqueue appended them
    tries,        \* history: HTTP exchanges made for each request
    acked,        \* history: requests a 2xx reply was read for
    dropped       \* history: requests given up with an error or a log line

flushVars == <<pending, remaining, ripe>>
history   == <<unsent, enqueued, tries, acked, dropped>>
vars == <<items, authBlocked, ctxDone, pc, body, pending, remaining, ripe,
          unsent, enqueued, tries, acked, dropped>>

Item == [post : Posts, attempts : 0 .. MaxRetries - 1]

\* The requests a list of items holds.
PostsOf(s) == {s[i].post : i \in 1 .. Len(s)}

Init ==
    /\ items = <<>>
    /\ authBlocked = FALSE
    /\ ctxDone = FALSE
    /\ pc = [t \in Threads |-> "idle"]
    /\ body = [t \in Threads |-> NoPost]
    /\ pending = [t \in Threads |-> <<>>]
    /\ remaining = [t \in Threads |-> <<>>]
    /\ ripe = {}
    /\ unsent = Posts
    /\ enqueued = <<>>
    /\ tries = [p \in Posts |-> 0]
    /\ acked = {}
    /\ dropped = {}

-----------------------------------------------------------------------------
(* Client.send *)

CancelSeen(t) == ctxDone /\ t \in Cancellable

\* An exchange under a cancelled context fails as a network error does.
ReplyTo(t, r) ==
    r \in (IF CancelSeen(t) THEN {"retry"} ELSE Replies)

\* The guards of send and Flush.
MaySend == ~authBlocked

MayFlushMany == ~authBlocked /\ Len(items) > 1   \* mutant: off by one
MayFlush == ~authBlocked /\ items # <<>>

\* send while the client is auth blocked: a 401 APIError without a request.
SendRefused(t, p) ==
    /\ t \in Senders /\ pc[t] = "idle" /\ p \in unsent
    /\ authBlocked
    /\ unsent' = unsent \ {p}
    /\ dropped' = dropped \cup {p}
    /\ UNCHANGED <<items, authBlocked, ctxDone, pc, body, flushVars,
                   enqueued, tries, acked>>

\* send passes its AuthBlocked check and goes on to postDirect.
SendStart(t, p) ==
    /\ t \in Senders /\ pc[t] = "idle" /\ p \in unsent
    /\ MaySend
    /\ pc' = [pc EXCEPT ![t] = "send"]
    /\ body' = [body EXCEPT ![t] = p]
    /\ unsent' = unsent \ {p}
    /\ UNCHANGED <<items, authBlocked, ctxDone, flushVars, enqueued, tries,
                   acked, dropped>>

Returned(t) ==
    /\ pc' = [pc EXCEPT ![t] = "idle"]
    /\ body' = [body EXCEPT ![t] = NoPost]
Tried(p)    == tries' = [tries EXCEPT ![p] = @ + 1]

SendOk(t) ==
    /\ pc[t] = "send" /\ ReplyTo(t, "ok")
    /\ Returned(t) /\ Tried(body[t])
    /\ acked' = acked \cup {body[t]}
    /\ UNCHANGED <<items, authBlocked, ctxDone, flushVars, unsent,
                   enqueued, dropped>>

SendAuthError(t) ==
    /\ pc[t] = "send" /\ ReplyTo(t, "auth")
    /\ Returned(t) /\ Tried(body[t])
    /\ authBlocked' = TRUE
    /\ dropped' = dropped \cup {body[t]}
    /\ UNCHANGED <<items, ctxDone, flushVars, unsent, enqueued, acked>>

SendRejected(t) ==
    /\ pc[t] = "send" /\ ReplyTo(t, "reject")
    /\ Returned(t) /\ Tried(body[t])
    /\ dropped' = dropped \cup {body[t]}
    /\ UNCHANGED <<items, authBlocked, ctxDone, flushVars, unsent,
                   enqueued, acked>>

\* The oldest item makes room in a full queue.
MakeNoRoom(s) == s            \* mutant: the queue is allowed to grow
MakeRoom(s) == IF Len(s) >= MaxQueueLen THEN Tail(s) ELSE s

EnqueueUnchecked(p) ==      \* mutant: Enqueue relies on the check in send
    /\ items' = Append(MakeRoom(items), [post |-> p, attempts |-> 0])
    /\ dropped' = dropped \cup (PostsOf(items) \ PostsOf(MakeRoom(items)))
    /\ enqueued' = Append(enqueued, p)

\* RetryQueue.Enqueue: nothing once blocked.
Enqueue(p) ==
    IF authBlocked
    THEN dropped' = dropped \cup {p} /\ UNCHANGED <<items, enqueued>>
    ELSE EnqueueUnchecked(p)

SendRetryable(t) ==
    /\ pc[t] = "send" /\ ReplyTo(t, "retry")
    /\ Returned(t) /\ Tried(body[t])
    /\ Enqueue(body[t])
    /\ UNCHANGED <<authBlocked, ctxDone, flushVars, unsent, acked>>

-----------------------------------------------------------------------------
(* RetryQueue.Flush *)

\* Flush takes its copy of the queue; blocked or empty, it returns at once.
\* The flusher's loop ends with its context.  (When a tick and the
\* cancellation are both ready select may take the tick; such a flush keeps
\* every item, as one that the cancellation overtakes does.)
FlushStart(t) ==
    /\ t \in Flushers /\ pc[t] = "idle" /\ ~CancelSeen(t)
    /\ MayFlush
    /\ pc' = [pc EXCEPT ![t] = "flush"]
    /\ pending' = [pending EXCEPT ![t] = items]
    /\ UNCHANGED <<items, authBlocked, ctxDone, body, remaining, ripe, history>>

Looking(t) == pc[t] = "flush" /\ pending[t] # <<>>
Passed(t)  == pending' = [pending EXCEPT ![t] = Tail(@)]

\* remaining = append(remaining, item)
KeepNot(t, item) == UNCHANGED remaining     \* mutant: an item passed over is lost
Keep(t, item) == remaining' = [remaining EXCEPT ![t] = Append(@, item)]

\* The context is cancelled, or nextTry is still ahead: the item is kept.
FlushKeep(t) ==
    /\ Looking(t)
    /\ CancelSeen(t) \/ Head(pending[t]) \notin ripe
    /\ Passed(t)
    /\ Keep(t, Head(pending[t]))
    /\ UNCHANGED <<items, authBlocked, ctxDone, pc, body, ripe, history>>

\* An item found due under a live context is posted.
Posted(t) ==
    /\ Looking(t) /\ ~CancelSeen(t)
    /\ Tried(Head(pending[t]).post)

\* Mutant: the delivered item is kept too.
FlushOkKept(t) ==
    /\ Posted(t) /\ Passed(t) /\ "ok" \in Replies
    /\ ripe' = ripe \cup {Head(pending[t])}
    /\ acked' = acked \cup {Head(pending[t]).post}
    /\ Keep(t, Head(pending[t]))
    /\ UNCHANGED <<items, authBlocked, ctxDone, pc, body, unsent,
                   enqueued, dropped>>

FlushOk(t) ==
    /\ Posted(t) /\ Passed(t) /\ "ok" \in Replies
    /\ ripe' = ripe \cup {Head(pending[t])}
    /\ acked' = acked \cup {Head(pending[t]).post}
    /\ UNCHANGED <<items, authBlocked, ctxDone, pc, body, remaining, unsent,
                   enqueued, dropped>>

\* A 401 ends the flush: it returns without writing the queue back.
FlushAuthError(t) ==
    /\ Posted(t) /\ Returned(t) /\ "auth" \in Replies
    /\ authBlocked' = TRUE
    /\ ripe' = ripe \cup {Head(pending[t])}
    /\ pending' = [pending EXCEPT ![t] = <<>>]
    /\ remaining' = [remaining EXCEPT ![t] = <<>>]
    /\ UNCHANGED <<items, ctxDone, unsent, enqueued, acked, dropped>>

\* A failed attempt is counted, and ends the retries with the last one allowed
\* or with an error that no retry can mend.
Counted(item) == [item EXCEPT !.attempts = @ + 1]

GivenUpLate(item, r) == item.attempts > MaxRetries \/ r = "reject"  \* mutant
GivenUp(item, r) == item.attempts >= MaxRetries \/ r = "reject"

\* An item kept after a failure has a new nextTry.
FlushFailed(t, r) ==
    LET old == Head(pending[t])
        new == Counted(old)
    IN  /\ Posted(t) /\ Passed(t) /\ r \in Replies
        /\ IF GivenUp(new, r)
           THEN /\ dropped' = dropped \cup {old.post}
                /\ ripe' = ripe \cup {old}
                /\ UNCHANGED remaining
           ELSE /\ Keep(t, new)
                /\ ripe' = (ripe \cup {old}) \ {new}
                /\ UNCHANGED dropped
        /\ UNCHANGED <<items, authBlocked, ctxDone, pc, body, unsent, enqueued,
                       acked>>

\* Flush replaces the queue by what it kept of its copy.
WriteBackMerged(t) == remaining[t] \o items    \* mutant: a careless merge
WriteBack(t) == remaining[t]

FlushEnd(t) ==
    /\ pc[t] = "flush" /\ pending[t] = <<>>
    /\ items' = WriteBack(t)
    /\ Returned(t)
    /\ remaining' = [remaining EXCEPT ![t] = <<>>]
    /\ UNCHANGED <<authBlocked, ctxDone, pending, ripe, history>>

-----------------------------------------------------------------------------
\* cancel() in cronHelper.Run, on SIGINT or SIGTERM.
Cancel ==
    /\ ~ctxDone
    /\ ctxDone' = TRUE
    /\ UNCHANGED <<items, authBlocked, pc, body, flushVars, history>>

Reply(t) == SendOk(t) \/ SendAuthError(t) \/ SendRejected(t) \/ SendRetryable(t)
Attempt(t) ==
    \/ FlushOk(t)
    \/ FlushAuthError(t)
    \/ \E r \in {"retry", "reject"} : FlushFailed(t, r)
FlushStep(t) == FlushKeep(t) \/ Attempt(t) \/ FlushEnd(t)
Send(t) == \E p \in Posts : SendRefused(t, p) \/ SendStart(t, p)

Next ==
    \/ \E t \in Threads : Send(t) \/ Reply(t) \/ FlushStart(t) \/ FlushStep(t)
    \/ Cancel

Spec == Init /\ [][Next]_vars

\* The HTTP client has a timeout, the flusher's ticker keeps ticking, and an
\* item looked at again and again is due in the end (at most 60 seconds).
Fairness ==
    \A t \in Threads :
        /\ WF_vars(Reply(t))
        /\ WF_vars(FlushStart(t))
        /\ WF_vars(FlushStep(t))
        /\ SF_vars(Attempt(t))

LiveSpec == Spec /\ Fairness

-----------------------------------------------------------------------------
(* What the client should guarantee. *)

TypeOK ==
    /\ items \in Seq(Item)
    /\ authBlocked \in BOOLEAN /\ ctxDone \in BOOLEAN
    /\ pc \in [Threads -> {"idle", "send", "flush"}]
    /\ body \in [Threads -> Posts \cup {NoPost}]
    /\ \A t \in Threads : body[t] \in Posts <=> pc[t] = "send"
    /\ pending \in [Threads -> Seq(Item)]
    /\ remaining \in [Threads -> Seq(Item)]
    /\ ripe \in SUBSET Item
    /\ unsent \in SUBSET Posts /\ enqueued \in Seq(Posts)
    /\ tries \in [Posts -> Nat]
    /\ acked \in SUBSET Posts /\ dropped \in SUBSET Posts

\* The queue never holds more than maxQueueLen items, although Flush replaces
\* it without looking at what it holds by then (retry.go:67, 118).
QueueBounded == Len(items) <= MaxQueueLen

\* Whatever flushes and failed sends overlap, the queue holds each request
\* once and the older ones first: Enqueue drops the oldest from the front
\* (retry.go:67-71) and Flush must keep the order it found.
QueueInOrder ==
    \A i, j \in 1 .. Len(items) : i < j =>
        \E k, l \in 1 .. Len(enqueued) :
            k < l /\ enqueued[k] = items[i].post /\ enqueued[l] = items[j].post

\* After a 401 nothing new is started and nothing more is queued, not even for
\* a send that passed its check before another goroutine met the 401
\* (retry.go:59, 77, client.go:238; "stopping API retries until token fixed",
\* retry.go:101).
BlockedIsQuiet ==
    [][authBlocked =>
         /\ enqueued' = enqueued
         /\ \A t \in Threads : pc[t] = "idle" => pc'[t] = "idle"]_vars

\* With at most one goroutine flushing, a request whose 2xx was read is never
\* posted again, even when other goroutines send meanwhile (retry.go:82-118).
NoRepost ==
    [][\A p \in acked : tries'[p] = tries[p]]_vars

\* With at most one goroutine flushing, a request is posted once by send and
\* at most maxRetries times by Flush (retry.go:104-105).
RetryBudget == \A p \in Posts : tries[p] <= MaxRetries + 1

InFlush(p) ==
    \E t \in Threads : p \in PostsOf(pending[t]) \cup PostsOf(remaining[t])
InSend(p) == \E t \in Threads : body[t] = p

\* A request handed to send is being sent, waits in the queue or in a running
\* flush, was acknowledged, or was given up with an error or a log line:
\* "Enqueue adds a failed post for later retry" (retry.go:55).
NothingLost ==
    \A p \in Posts \ unsent :
        InSend(p) \/ p \in PostsOf(items) \/ InFlush(p) \/ p \in acked \cup dropped

\* The status of a request as PostLedger sees it.
Status ==
    [p \in Posts |->
        CASE p \in acked   -> "acked"
          [] p \in dropped \ acked -> "dropped"
          [] p \in unsent  -> "unsent"
          [] InSend(p)     -> "sending"
          [] p \notin unsent \cup acked \cup dropped /\ ~InSend(p) ->
               IF p \in PostsOf(items) \/ InFlush(p) THEN "waiting" ELSE "lost"]

Ledger == INSTANCE PostLedger WITH status <- Status

\* A goroutine that has the client for itself (a manual scan makes a fresh
\* client for every push, main.go:113-197) gets what PostLedger promises.
KeepsLedger == Ledger!LedgerSpec

\* The flusher works the queue off, unless the client is blocked (retry.go:124);
\* and a 401 leads to silence: what is under way returns and nothing starts.
QueueDrains ==
    /\ []<>(items = <<>> \/ authBlocked \/ ctxDone)
    /\ authBlocked ~> [](\A t \in Threads : pc[t] = "idle")
=============================================================================
