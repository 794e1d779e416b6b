-------------------------- MODULE RetryQueueProofs --------------------------
(* What the retry queue guarantees for any requests, goroutines and limits.  *)
EXTENDS RetryQueue, TLAPS

-----------------------------------------------------------------------------
(* The queue stays within its limit.                                         *)

\* A flush keeps at most what it copied, and what it copied was within the
\* limit: without this the write-back could bring back more.
FlushBounded ==
    \A t \in Threads : Len(pending[t]) + Len(remaining[t]) <= MaxQueueLen

\* A goroutine that is not in Flush has no copy and no list.
IdleEmpty ==
    \A t \in Threads : pc[t] # "flush" => pending[t] = <<>> /\ remaining[t] = <<>>

BoundInv == TypeOK /\ QueueBounded /\ FlushBounded /\ IdleEmpty

LEMMA ItemFacts ==
    /\ \A p \in Posts : [post |-> p, attempts |-> 0] \in Item
    /\ \A item \in Item : item.post \in Posts /\ item.attempts \in 0 .. MaxRetries - 1
BY LimitAssumption DEF Item

LEMMA HeadTail ==
    ASSUME NEW s \in Seq(Item), s # <<>>
    PROVE  /\ Head(s) \in Item /\ Tail(s) \in Seq(Item)
           /\ Len(s) \in Nat /\ Len(s) > 0 /\ Len(Tail(s)) = Len(s) - 1
OBVIOUS

LEMMA AppendFacts ==
    ASSUME NEW s \in Seq(Item), NEW item \in Item
    PROVE  Append(s, item) \in Seq(Item) /\ Len(Append(s, item)) = Len(s) + 1
OBVIOUS

LEMMA RoomFacts ==
    ASSUME NEW s \in Seq(Item), Len(s) <= MaxQueueLen
    PROVE  MakeRoom(s) \in Seq(Item) /\ Len(MakeRoom(s)) + 1 <= MaxQueueLen
<1>1. CASE Len(s) >= MaxQueueLen
  <2>1. s # <<>>
    BY <1>1, LimitAssumption
  <2> QED BY <1>1, <2>1, HeadTail, LimitAssumption DEF MakeRoom
<1>2. CASE ~(Len(s) >= MaxQueueLen)
  BY <1>2, LimitAssumption DEF MakeRoom
<1> QED BY <1>1, <1>2

\* The item a failed attempt keeps is one the queue may hold.
LEMMA CountedFacts ==
    ASSUME NEW item \in Item, NEW r, ~GivenUp(Counted(item), r)
    PROVE  Counted(item) \in Item /\ Counted(item).post = item.post
BY LimitAssumption DEF Item, Counted, GivenUp

LEMMA TriedType ==
    ASSUME tries \in [Posts -> Nat], NEW p \in Posts, Tried(p)
    PROVE  tries' \in [Posts -> Nat]
BY DEF Tried

LEMMA BoundInit == Init => BoundInv
<1> SUFFICES ASSUME Init PROVE BoundInv
  OBVIOUS
<1>0. tries \in [Posts -> Nat] /\ enqueued \in Seq(Posts) /\ items \in Seq(Item)
  BY DEF Init
<1>1. TypeOK
  BY <1>0, PostAssumption DEF Init, TypeOK
<1>2. QueueBounded /\ FlushBounded /\ IdleEmpty
  BY LimitAssumption DEF Init, QueueBounded, FlushBounded, IdleEmpty
<1> QED BY <1>1, <1>2 DEF BoundInv

\* Calls of send touch neither the flushes nor, but for Enqueue, the queue.
LEMMA SendBound ==
    ASSUME BoundInv, NEW t \in Threads, Send(t) \/ Reply(t)
    PROVE  BoundInv'
<1> USE DEF BoundInv, QueueBounded, FlushBounded, IdleEmpty
<1>1. ASSUME NEW p \in Posts, SendRefused(t, p) PROVE BoundInv'
  BY <1>1 DEF SendRefused, TypeOK, flushVars
<1>2. ASSUME NEW p \in Posts, SendStart(t, p) PROVE BoundInv'
  BY <1>2, PostAssumption DEF SendStart, TypeOK, flushVars
<1>3. ASSUME pc[t] = "send" PROVE body[t] \in Posts
  BY <1>3 DEF TypeOK
<1>4. ASSUME SendOk(t) \/ SendAuthError(t) \/ SendRejected(t) PROVE BoundInv'
  <2>1. body[t] \in Posts /\ Tried(body[t]) /\ Returned(t)
    BY <1>3, <1>4 DEF SendOk, SendAuthError, SendRejected
  <2>2. tries' \in [Posts -> Nat]
    BY <2>1, TriedType DEF TypeOK
  <2>3. TypeOK'
    BY <1>4, <2>1, <2>2, PostAssumption
       DEF SendOk, SendAuthError, SendRejected, Returned, TypeOK, flushVars
  <2>4. IdleEmpty'
    BY <1>4, <2>1 DEF SendOk, SendAuthError, SendRejected, Returned, TypeOK, flushVars
  <2> QED BY <1>4, <2>3, <2>4 DEF SendOk, SendAuthError, SendRejected, flushVars
<1>5. ASSUME SendRetryable(t) PROVE BoundInv'
  <2>1. body[t] \in Posts /\ Tried(body[t]) /\ Returned(t) /\ Enqueue(body[t])
    BY <1>3, <1>5 DEF SendRetryable
  <2>2. tries' \in [Posts -> Nat]
    BY <2>1, TriedType DEF TypeOK
  <2>3. /\ items' \in Seq(Item) /\ Len(items') <= MaxQueueLen
        /\ enqueued' \in Seq(Posts) /\ dropped' \in SUBSET Posts
    <3>1. CASE authBlocked
      BY <2>1, <3>1 DEF Enqueue, TypeOK
    <3>2. CASE ~authBlocked
      <4> DEFINE new == [post |-> body[t], attempts |-> 0]
      <4>1. new \in Item
        BY <2>1, ItemFacts
      <4>2. items' = Append(MakeRoom(items), new) /\ enqueued' = Append(enqueued, body[t])
        BY <2>1, <3>2 DEF Enqueue, EnqueueUnchecked
      <4>3. MakeRoom(items) \in Seq(Item) /\ Len(MakeRoom(items)) + 1 <= MaxQueueLen
        BY RoomFacts DEF TypeOK
      <4>4. PostsOf(items) \subseteq Posts
        BY ItemFacts DEF PostsOf, TypeOK
      <4>5. dropped' \in SUBSET Posts
        BY <2>1, <3>2, <4>4 DEF Enqueue, EnqueueUnchecked, TypeOK
      <4>6. items' \in Seq(Item) /\ Len(items') <= MaxQueueLen
        BY <4>1, <4>2, <4>3, AppendFacts
      <4> QED BY <2>1, <4>2, <4>5, <4>6 DEF TypeOK
    <3> QED BY <3>1, <3>2
  <2>4. TypeOK'
    BY <1>5, <2>1, <2>2, <2>3, PostAssumption
       DEF SendRetryable, Returned, TypeOK, flushVars
  <2>5. IdleEmpty'
    BY <1>5, <2>1 DEF SendRetryable, Returned, TypeOK, flushVars
  <2> QED BY <1>5, <2>3, <2>4, <2>5 DEF SendRetryable, flushVars
<1> QED BY <1>1, <1>2, <1>4, <1>5 DEF Send, Reply

LEMMA FlushBound ==
    ASSUME BoundInv, NEW t \in Threads, FlushStart(t) \/ FlushStep(t)
    PROVE  BoundInv'
<1> USE DEF BoundInv, QueueBounded, FlushBounded, IdleEmpty
<1> DEFINE item == Head(pending[t])
<1>1. /\ pending[t] \in Seq(Item) /\ remaining[t] \in Seq(Item)
      /\ Len(pending[t]) \in Nat /\ Len(remaining[t]) \in Nat
      /\ MaxQueueLen \in Nat
  BY LimitAssumption DEF TypeOK
<1>2. ASSUME Looking(t)
      PROVE  /\ item \in Item /\ item.post \in Posts
             /\ Tail(pending[t]) \in Seq(Item)
             /\ Len(Tail(pending[t])) = Len(pending[t]) - 1
  BY <1>1, <1>2, HeadTail, ItemFacts DEF Looking
<1>3. ASSUME FlushStart(t) PROVE BoundInv'
  <2>1. /\ pending' = [pending EXCEPT ![t] = items] /\ UNCHANGED remaining
        /\ pc[t] # "flush" /\ pc' = [pc EXCEPT ![t] = "flush"]
    BY <1>3 DEF FlushStart
  <2>2. remaining[t] = <<>>
    BY <2>1
  <2>3. TypeOK'
    BY <1>3 DEF FlushStart, TypeOK, history
  <2>4. FlushBounded' /\ IdleEmpty'
    BY <1>1, <2>1, <2>2, <2>3 DEF TypeOK
  <2> QED BY <1>3, <2>3, <2>4 DEF FlushStart
<1>4. ASSUME FlushKeep(t) PROVE BoundInv'
  <2>1. Looking(t) /\ Passed(t) /\ Keep(t, item)
    BY <1>4 DEF FlushKeep
  <2>2. /\ Append(remaining[t], item) \in Seq(Item)
        /\ Len(Append(remaining[t], item)) = Len(remaining[t]) + 1
    BY <1>1, <1>2, <2>1, AppendFacts
  <2>3. /\ pending' = [pending EXCEPT ![t] = Tail(pending[t])]
        /\ remaining' = [remaining EXCEPT ![t] = Append(remaining[t], item)]
    BY <2>1 DEF Passed, Keep
  <2>4. TypeOK'
    BY <1>2, <1>4, <2>1, <2>2, <2>3 DEF FlushKeep, TypeOK, history
  <2>5. FlushBounded' /\ IdleEmpty'
    BY <1>1, <1>2, <1>4, <2>1, <2>2, <2>3, SMTT(40) DEF FlushKeep, Looking, TypeOK
  <2> QED BY <1>4, <2>4, <2>5 DEF FlushKeep
<1>5. ASSUME FlushOk(t) PROVE BoundInv'
  <2>1. Looking(t) /\ Passed(t) /\ Tried(item.post)
    BY <1>5 DEF FlushOk, Posted
  <2>2. pending' = [pending EXCEPT ![t] = Tail(pending[t])] /\ UNCHANGED remaining
    BY <1>5, <2>1 DEF Passed, FlushOk
  <2>3. tries' \in [Posts -> Nat]
    BY <1>2, <2>1, TriedType DEF TypeOK
  <2>4. TypeOK'
    BY <1>2, <1>5, <2>1, <2>2, <2>3 DEF FlushOk, TypeOK
  <2>5. FlushBounded' /\ IdleEmpty'
    BY <1>1, <1>2, <1>5, <2>1, <2>2 DEF FlushOk, Looking, TypeOK
  <2> QED BY <1>5, <2>4, <2>5 DEF FlushOk
<1>6. ASSUME FlushAuthError(t) PROVE BoundInv'
  <2>1. Looking(t) /\ Returned(t) /\ Tried(item.post)
    BY <1>6 DEF FlushAuthError, Posted
  <2>2. tries' \in [Posts -> Nat]
    BY <1>2, <2>1, TriedType DEF TypeOK
  <2>3. TypeOK'
    BY <1>2, <1>6, <2>1, <2>2, PostAssumption DEF FlushAuthError, Returned, TypeOK
  <2>4. FlushBounded' /\ IdleEmpty'
    BY <1>1, <1>6, <2>1 DEF FlushAuthError, Returned, TypeOK
  <2> QED BY <1>6, <2>3, <2>4 DEF FlushAuthError
<1>7. ASSUME NEW r \in {"retry", "reject"}, FlushFailed(t, r) PROVE BoundInv'
  <2> DEFINE new == Counted(item)
  <2>1. Looking(t) /\ Passed(t) /\ Tried(item.post)
    BY <1>7 DEF FlushFailed, Posted
  <2>2. tries' \in [Posts -> Nat]
    BY <1>2, <2>1, TriedType DEF TypeOK
  <2>3. pending' = [pending EXCEPT ![t] = Tail(pending[t])]
    BY <2>1 DEF Passed
  <2>4. CASE GivenUp(new, r)
    <3>1. UNCHANGED remaining /\ dropped' = dropped \cup {item.post}
                              /\ ripe' = ripe \cup {item}
      BY <1>7, <2>4 DEF FlushFailed
    <3>2. TypeOK'
      BY <1>2, <1>7, <2>1, <2>2, <2>3, <3>1 DEF FlushFailed, TypeOK
    <3>3. FlushBounded' /\ IdleEmpty'
      BY <1>1, <1>2, <1>7, <2>1, <2>3, <3>1 DEF FlushFailed, Looking, TypeOK
    <3> QED BY <1>7, <3>2, <3>3 DEF FlushFailed
  <2>5. CASE ~GivenUp(new, r)
    <3>1. new \in Item
      BY <1>2, <2>1, <2>5, CountedFacts
    <3>2. /\ remaining' = [remaining EXCEPT ![t] = Append(remaining[t], new)]
          /\ UNCHANGED dropped /\ ripe' = (ripe \cup {item}) \ {new}
      BY <1>7, <2>5 DEF FlushFailed, Keep
    <3>3. /\ Append(remaining[t], new) \in Seq(Item)
          /\ Len(Append(remaining[t], new)) = Len(remaining[t]) + 1
      BY <1>1, <3>1, AppendFacts
    <3>4. TypeOK'
      BY <1>2, <1>7, <2>1, <2>2, <2>3, <3>2, <3>3 DEF FlushFailed, TypeOK
    <3>5. FlushBounded' /\ IdleEmpty'
      BY <1>1, <1>2, <1>7, <2>1, <2>3, <3>2, <3>3, SMTT(40) DEF FlushFailed, Looking, TypeOK
    <3> QED BY <1>7, <3>4, <3>5 DEF FlushFailed
  <2> QED BY <2>4, <2>5
<1>8. ASSUME FlushEnd(t) PROVE BoundInv'
  \* What is written back was part of a copy within the limit.
  <2>1. /\ items' = remaining[t] /\ pc[t] = "flush" /\ pending[t] = <<>> /\ Returned(t)
        /\ remaining' = [remaining EXCEPT ![t] = <<>>] /\ UNCHANGED pending
    BY <1>8 DEF FlushEnd, WriteBack
  <2>2. Len(remaining[t]) <= MaxQueueLen
    <3>1. Len(pending[t]) + Len(remaining[t]) <= MaxQueueLen /\ Len(pending[t]) = 0
      BY <2>1
    <3> QED BY <1>1, <3>1
  <2>3. TypeOK'
    BY <1>1, <1>8, <2>1, PostAssumption DEF FlushEnd, Returned, TypeOK, history
  <2>4. FlushBounded' /\ IdleEmpty'
    BY <1>1, <2>1 DEF Returned, TypeOK
  <2> QED BY <2>1, <2>2, <2>3, <2>4
<1> QED BY <1>3, <1>4, <1>5, <1>6, <1>7, <1>8 DEF FlushStep, Attempt

LEMMA BoundStep == BoundInv /\ [Next]_vars => BoundInv'
<1> SUFFICES ASSUME BoundInv, [Next]_vars PROVE BoundInv'
  OBVIOUS
<1>1. CASE Cancel \/ UNCHANGED vars
  BY <1>1 DEF Cancel, vars, flushVars, history, BoundInv, TypeOK, QueueBounded,
              FlushBounded, IdleEmpty
<1> QED
  BY <1>1, SendBound, FlushBound DEF Next

\* The queue never outgrows maxQueueLen, although a flush that ends replaces
\* it without looking at what was enqueued meanwhile (retry.go:67-71, 117-118).
THEOREM QueueBoundedHolds == Spec => []QueueBounded
<1>1. BoundInv => QueueBounded
  BY DEF BoundInv
<1> QED
  BY BoundInit, BoundStep, <1>1, PTL DEF Spec

\* The type invariant: with it, every queued item has retries left.
THEOREM TypeCorrect == Spec => []TypeOK
<1>1. BoundInv => TypeOK
  BY DEF BoundInv
<1> QED
  BY BoundInit, BoundStep, <1>1, PTL DEF Spec
-----------------------------------------------------------------------------
(* Lists of items as sets of requests.                                       *)

\* A list that holds no request twice.
NoDup(s) == \A i, j \in 1 .. Len(s) : s[i].post = s[j].post => i = j

LEMMA EmptyPosts == PostsOf(<<>>) = {} /\ NoDup(<<>>)
BY DEF PostsOf, NoDup

LEMMA TailPosts ==
    ASSUME NEW s \in Seq(Item), s # <<>>
    PROVE  /\ PostsOf(s) = {Head(s).post} \cup PostsOf(Tail(s))
           /\ NoDup(s) => NoDup(Tail(s)) /\ Head(s).post \notin PostsOf(Tail(s))
<1>1. /\ Len(s) \in Nat /\ Len(s) > 0 /\ Head(s) = s[1]
      /\ Len(Tail(s)) = Len(s) - 1
      /\ \A i \in 1 .. Len(s) - 1 : Tail(s)[i] = s[i + 1]
  OBVIOUS
<1>2. PostsOf(s) \subseteq {Head(s).post} \cup PostsOf(Tail(s))
  <2> SUFFICES ASSUME NEW i \in 1 .. Len(s), s[i].post # Head(s).post
               PROVE  s[i].post \in PostsOf(Tail(s))
    BY DEF PostsOf
  <2>1. i - 1 \in 1 .. Len(Tail(s)) /\ Tail(s)[i - 1] = s[i]
    BY <1>1
  <2> QED BY <2>1 DEF PostsOf
<1>3. {Head(s).post} \cup PostsOf(Tail(s)) \subseteq PostsOf(s)
  <2>1. Head(s).post \in PostsOf(s)
    BY <1>1 DEF PostsOf
  <2>2. ASSUME NEW i \in 1 .. Len(Tail(s)) PROVE Tail(s)[i].post \in PostsOf(s)
    <3>1. i + 1 \in 1 .. Len(s) /\ Tail(s)[i] = s[i + 1]
      BY <1>1
    <3> QED BY <3>1 DEF PostsOf
  <2> QED BY <2>1, <2>2 DEF PostsOf
<1>4. ASSUME NoDup(s)
      PROVE  NoDup(Tail(s)) /\ Head(s).post \notin PostsOf(Tail(s))
  <2>1. ASSUME NEW i \in 1 .. Len(Tail(s))
        PROVE  i + 1 \in 1 .. Len(s) /\ Tail(s)[i] = s[i + 1] /\ i + 1 # 1 /\ 1 \in 1 .. Len(s)
    BY <1>1
  <2>2. NoDup(Tail(s))
    <3> SUFFICES ASSUME NEW i \in 1 .. Len(Tail(s)), NEW j \in 1 .. Len(Tail(s)),
                        Tail(s)[i].post = Tail(s)[j].post
                 PROVE  i = j
      BY DEF NoDup
    <3>1. i + 1 = j + 1
      BY <1>4, <2>1 DEF NoDup
    <3> QED BY <1>1, <3>1
  <2>3. Head(s).post \notin PostsOf(Tail(s))
    BY <1>1, <1>4, <2>1 DEF NoDup, PostsOf
  <2> QED BY <2>2, <2>3
<1> QED BY <1>2, <1>3, <1>4

LEMMA AppendPosts ==
    ASSUME NEW s \in Seq(Item), NEW item \in Item
    PROVE  /\ PostsOf(Append(s, item)) = PostsOf(s) \cup {item.post}
           /\ NoDup(s) /\ item.post \notin PostsOf(s) => NoDup(Append(s, item))
<1>1. /\ Len(s) \in Nat /\ Len(Append(s, item)) = Len(s) + 1
      /\ \A i \in 1 .. Len(s) : Append(s, item)[i] = s[i]
      /\ Append(s, item)[Len(s) + 1] = item
  OBVIOUS
<1>2. \A i \in 1 .. Len(s) + 1 : i \in 1 .. Len(s) \/ i = Len(s) + 1
  BY <1>1
<1>3. 1 .. Len(s) \subseteq 1 .. Len(s) + 1 /\ Len(s) + 1 \in 1 .. Len(s) + 1
  BY <1>1
<1>4. PostsOf(Append(s, item)) = PostsOf(s) \cup {item.post}
  BY <1>1, <1>2, <1>3 DEF PostsOf
<1>5. ASSUME NoDup(s), item.post \notin PostsOf(s) PROVE NoDup(Append(s, item))
  <2>1. \A i \in 1 .. Len(s) : s[i].post # item.post
    BY <1>5 DEF PostsOf
  <2> QED BY <1>1, <1>2, <1>5, <2>1 DEF NoDup
<1> QED BY <1>4, <1>5

LEMMA RoomPosts ==
    ASSUME NEW s \in Seq(Item)
    PROVE  /\ PostsOf(MakeRoom(s)) \subseteq PostsOf(s)
           /\ NoDup(s) => NoDup(MakeRoom(s))
<1>1. CASE Len(s) >= MaxQueueLen
  <2>1. s # <<>>
    BY <1>1, LimitAssumption
  <2> QED BY <1>1, <2>1, TailPosts DEF MakeRoom
<1>2. CASE ~(Len(s) >= MaxQueueLen)
  BY <1>2 DEF MakeRoom
<1> QED BY <1>1, <1>2
-----------------------------------------------------------------------------
(* The order of the queue.                                                   *)

\* Request p was enqueued, and before q.
Known(p)     == \E k \in 1 .. Len(enqueued) : enqueued[k] = p
Before(p, q) == \E k, l \in 1 .. Len(enqueued) :
                    k < l /\ enqueued[k] = p /\ enqueued[l] = q

Ordered(s) == \A i, j \in 1 .. Len(s) : i < j => Before(s[i].post, s[j].post)

\* A flush looks at its copy from the front, so what it has kept so far comes
\* before what it has not looked at.
FlushOrdered(t) ==
    /\ Ordered(pending[t]) /\ Ordered(remaining[t])
    /\ \A p \in PostsOf(remaining[t]), q \in PostsOf(pending[t]) : Before(p, q)

AllKnown ==
    /\ \A p \in PostsOf(items) : Known(p)
    /\ \A t \in Threads : \A p \in PostsOf(pending[t]) \cup PostsOf(remaining[t]) : Known(p)

OrderInv ==
    /\ BoundInv
    /\ AllKnown
    /\ Ordered(items)
    /\ \A t \in Threads : FlushOrdered(t)

LEMMA EmptyOrdered == Ordered(<<>>)
BY DEF Ordered

LEMMA TailOrdered ==
    ASSUME NEW s \in Seq(Item), s # <<>>, Ordered(s)
    PROVE  /\ Ordered(Tail(s))
           /\ \A q \in PostsOf(Tail(s)) : Before(Head(s).post, q)
<1>1. /\ Len(s) \in Nat /\ Len(s) > 0 /\ Head(s) = s[1]
      /\ Len(Tail(s)) = Len(s) - 1
      /\ \A i \in 1 .. Len(s) - 1 : Tail(s)[i] = s[i + 1]
  OBVIOUS
<1>2. \A i \in 1 .. Len(Tail(s)) :
         /\ i + 1 \in 1 .. Len(s) /\ Tail(s)[i] = s[i + 1]
         /\ 1 \in 1 .. Len(s) /\ 1 < i + 1
  BY <1>1
<1>3. Ordered(Tail(s))
  <2> SUFFICES ASSUME NEW i \in 1 .. Len(Tail(s)), NEW j \in 1 .. Len(Tail(s)), i < j
               PROVE  Before(Tail(s)[i].post, Tail(s)[j].post)
    BY DEF Ordered
  <2>1. i + 1 < j + 1
    BY <1>1
  <2>2. Before(s[i + 1].post, s[j + 1].post)
    BY <1>2, <2>1 DEF Ordered
  <2> QED BY <1>2, <2>2
<1>4. \A q \in PostsOf(Tail(s)) : Before(Head(s).post, q)
  <2> SUFFICES ASSUME NEW i \in 1 .. Len(Tail(s))
               PROVE  Before(s[1].post, Tail(s)[i].post)
    BY <1>1 DEF PostsOf
  <2> QED BY <1>2 DEF Ordered
<1> QED BY <1>3, <1>4

LEMMA AppendOrdered ==
    ASSUME NEW s \in Seq(Item), NEW item \in Item, Ordered(s),
           \A p \in PostsOf(s) : Before(p, item.post)
    PROVE  Ordered(Append(s, item))
<1>1. /\ Len(s) \in Nat /\ Len(Append(s, item)) = Len(s) + 1
      /\ \A i \in 1 .. Len(s) : Append(s, item)[i] = s[i]
      /\ Append(s, item)[Len(s) + 1] = item
  OBVIOUS
<1> SUFFICES ASSUME NEW i \in 1 .. Len(s) + 1, NEW j \in 1 .. Len(s) + 1, i < j
             PROVE  Before(Append(s, item)[i].post, Append(s, item)[j].post)
  BY <1>1 DEF Ordered
<1>2. i \in 1 .. Len(s)
  BY <1>1
<1>3. CASE j = Len(s) + 1
  BY <1>1, <1>2, <1>3 DEF PostsOf
<1>4. CASE j # Len(s) + 1
  <2>1. j \in 1 .. Len(s)
    BY <1>1, <1>4
  <2> QED BY <1>1, <1>2, <2>1 DEF Ordered
<1> QED BY <1>3, <1>4

\* What was enqueued stays so, and a new request comes after all others.
LEMMA EnqueuedGrows ==
    ASSUME enqueued \in Seq(Posts), NEW p \in Posts, enqueued' = Append(enqueued, p)
    PROVE  /\ Known(p)'
           /\ \A q : Known(q) => Known(q)' /\ Before(q, p)'
           /\ \A q, r : Before(q, r) => Before(q, r)'
<1>1. /\ Len(enqueued) \in Nat /\ Len(enqueued') = Len(enqueued) + 1
      /\ \A k \in 1 .. Len(enqueued) : enqueued'[k] = enqueued[k]
      /\ enqueued'[Len(enqueued) + 1] = p
  OBVIOUS
<1>2. /\ Len(enqueued) + 1 \in 1 .. Len(enqueued')
      /\ \A k \in 1 .. Len(enqueued) : k \in 1 .. Len(enqueued') /\ k < Len(enqueued) + 1
  BY <1>1
<1> QED BY <1>1, <1>2 DEF Known, Before

LEMMA SameOrder ==
    ASSUME UNCHANGED enqueued
    PROVE  /\ \A q : Known(q)' <=> Known(q)
           /\ \A q, r : Before(q, r)' <=> Before(q, r)
           /\ \A s : Ordered(s)' <=> Ordered(s)
BY DEF Known, Before, Ordered

LEMMA OrderInit == Init => OrderInv
BY BoundInit, EmptyOrdered, EmptyPosts DEF Init, OrderInv, AllKnown, FlushOrdered

\* Of the calls of send only one that fails for the moment touches the queue.
LEMMA SendOrder ==
    ASSUME OrderInv, NEW t \in Threads, Send(t) \/ Reply(t)
    PROVE  OrderInv'
<1>1. BoundInv' /\ UNCHANGED <<pending, remaining>>
  BY SendBound DEF OrderInv, Send, Reply, SendRefused, SendStart, SendOk, SendAuthError,
                   SendRejected, SendRetryable, flushVars
<1>2. CASE UNCHANGED <<items, enqueued>>
  BY <1>1, <1>2, SameOrder DEF OrderInv, AllKnown, FlushOrdered
<1>3. CASE SendRetryable(t) /\ ~authBlocked
  <2>0. PICK p \in Posts : p = body[t]
    BY <1>3 DEF SendRetryable, OrderInv, BoundInv, TypeOK
  <2> DEFINE new == [post |-> p, attempts |-> 0]
             kept == MakeRoom(items)
  <2>1. enqueued \in Seq(Posts) /\ items \in Seq(Item)
    BY DEF OrderInv, BoundInv, TypeOK
  <2>2. items' = Append(kept, new) /\ enqueued' = Append(enqueued, p)
    BY <1>3, <2>0 DEF SendRetryable, Enqueue, EnqueueUnchecked
  <2>3. new \in Item /\ new.post = p
    BY <2>1, ItemFacts
  <2>4. kept \in Seq(Item) /\ PostsOf(kept) \subseteq PostsOf(items)
    BY <2>1, RoomFacts, RoomPosts DEF OrderInv, BoundInv, QueueBounded
  <2>5. Ordered(kept)
    <3>1. CASE Len(items) >= MaxQueueLen
      BY <2>1, <3>1, TailOrdered, LimitAssumption DEF MakeRoom, OrderInv
    <3>2. CASE ~(Len(items) >= MaxQueueLen)
      BY <3>2 DEF MakeRoom, OrderInv
    <3> QED BY <3>1, <3>2
  <2>6. /\ Known(p)'
        /\ \A q : Known(q) => Known(q)' /\ Before(q, p)'
        /\ \A q, r : Before(q, r) => Before(q, r)'
    BY <2>1, <2>2, EnqueuedGrows
  <2>7. \A s : Ordered(s) => Ordered(s)'
    BY <2>1, <2>2, EnqueuedGrows DEF Ordered
  <2>8. Ordered(items)'
    <3> SUFFICES ASSUME NEW i \in 1 .. Len(items'), NEW j \in 1 .. Len(items'), i < j
                 PROVE  Before(items[i].post, items[j].post)'
      BY DEF Ordered
    <3>1. /\ Len(kept) \in Nat /\ Len(items') = Len(kept) + 1
          /\ \A k \in 1 .. Len(kept) : items'[k] = kept[k]
          /\ items'[Len(kept) + 1] = new
      BY <2>2, <2>3, <2>4
    <3>2. i \in 1 .. Len(kept) /\ items'[i] = kept[i]
      BY <3>1
    <3>3. CASE j = Len(kept) + 1
      <4>1. kept[i].post \in PostsOf(kept)
        BY <3>2 DEF PostsOf
      <4>2. Known(kept[i].post)
        BY <2>4, <4>1 DEF OrderInv, AllKnown
      <4> QED BY <2>3, <2>6, <3>1, <3>2, <3>3, <4>2
    <3>4. CASE j # Len(kept) + 1
      <4>1. j \in 1 .. Len(kept) /\ items'[j] = kept[j]
        BY <3>1, <3>4
      <4>2. Before(kept[i].post, kept[j].post)
        BY <2>5, <3>2, <4>1 DEF Ordered
      <4> QED BY <2>6, <3>2, <4>1, <4>2
    <3> QED BY <3>3, <3>4
  <2>9. PostsOf(items') \subseteq PostsOf(items) \cup {p}
    BY <2>2, <2>3, <2>4, AppendPosts
  <2>10. AllKnown'
    BY <1>1, <2>6, <2>9 DEF OrderInv, AllKnown
  <2>11. \A u \in Threads : FlushOrdered(u)'
    BY <1>1, <2>6, <2>7 DEF OrderInv, FlushOrdered
  <2> QED BY <1>1, <2>8, <2>10, <2>11 DEF OrderInv
<1> QED
  BY <1>2, <1>3 DEF Send, Reply, SendRefused, SendStart, SendOk, SendAuthError,
                    SendRejected, SendRetryable, Enqueue

LEMMA FlushOrder ==
    ASSUME OrderInv, NEW t \in Threads, FlushStart(t) \/ FlushStep(t)
    PROVE  OrderInv'
<1> DEFINE item == Head(pending[t])
<1>1. BoundInv' /\ UNCHANGED enqueued
  BY FlushBound DEF OrderInv, FlushStart, FlushStep, Attempt, FlushKeep, FlushOk,
                    FlushAuthError, FlushFailed, FlushEnd, history
<1>2. /\ pending \in [Threads -> Seq(Item)] /\ remaining \in [Threads -> Seq(Item)]
      /\ pending[t] \in Seq(Item) /\ remaining[t] \in Seq(Item)
  BY DEF OrderInv, BoundInv, TypeOK
<1>3. ASSUME Looking(t)
      PROVE  /\ item \in Item
             /\ PostsOf(pending[t]) = {item.post} \cup PostsOf(Tail(pending[t]))
             /\ Ordered(Tail(pending[t]))
             /\ \A q \in PostsOf(Tail(pending[t])) : Before(item.post, q)
  BY <1>2, <1>3, HeadTail, TailPosts, TailOrdered DEF Looking, OrderInv, FlushOrdered
<1>4. ASSUME FlushStart(t) PROVE OrderInv'
  <2>1. /\ pending' = [pending EXCEPT ![t] = items]
        /\ UNCHANGED <<items, remaining>> /\ remaining[t] = <<>>
    BY <1>4 DEF FlushStart, OrderInv, BoundInv, IdleEmpty
  <2> QED BY <1>1, <1>2, <2>1, SameOrder, EmptyPosts DEF OrderInv, AllKnown, FlushOrdered
\* The item goes to the end of the list of those to keep.
<1>5. ASSUME NEW kept \in Item, Looking(t), Passed(t), Keep(t, kept),
             kept.post = item.post, UNCHANGED items
      PROVE  OrderInv'
  <2>1. /\ pending' = [pending EXCEPT ![t] = Tail(pending[t])]
        /\ remaining' = [remaining EXCEPT ![t] = Append(remaining[t], kept)]
    BY <1>5 DEF Passed, Keep
  <2>2. PostsOf(Append(remaining[t], kept)) = PostsOf(remaining[t]) \cup {item.post}
    BY <1>2, <1>5, AppendPosts
  <2>3. Ordered(Append(remaining[t], kept))
    BY <1>2, <1>3, <1>5, AppendOrdered DEF OrderInv, FlushOrdered
  <2>4. \A p \in PostsOf(remaining[t]) \cup {item.post}, q \in PostsOf(Tail(pending[t])) :
           Before(p, q)
    BY <1>3, <1>5 DEF OrderInv, FlushOrdered
  <2>5. AllKnown'
    BY <1>1, <1>2, <1>3, <1>5, <2>1, <2>2, SameOrder DEF OrderInv, AllKnown
  <2>6. \A u \in Threads : FlushOrdered(u)'
    BY <1>1, <1>2, <1>3, <1>5, <2>1, <2>2, <2>3, <2>4, SameOrder DEF OrderInv, FlushOrdered
  <2> QED BY <1>1, <1>5, <2>5, <2>6, SameOrder DEF OrderInv
\* The item leaves the flush.
<1>6. ASSUME Looking(t), Passed(t), UNCHANGED <<items, remaining>> PROVE OrderInv'
  <2>1. pending' = [pending EXCEPT ![t] = Tail(pending[t])]
    BY <1>6 DEF Passed
  <2>2. AllKnown'
    BY <1>1, <1>2, <1>3, <1>6, <2>1, SameOrder DEF OrderInv, AllKnown
  <2>3. \A u \in Threads : FlushOrdered(u)'
    BY <1>1, <1>2, <1>3, <1>6, <2>1, SameOrder DEF OrderInv, FlushOrdered
  <2> QED BY <1>1, <1>6, <2>2, <2>3, SameOrder DEF OrderInv
<1>7. ASSUME FlushKeep(t) PROVE OrderInv'
  BY <1>3, <1>5, <1>7 DEF FlushKeep
<1>8. ASSUME FlushOk(t) PROVE OrderInv'
  BY <1>6, <1>8 DEF FlushOk, Posted
<1>9. ASSUME NEW r \in {"retry", "reject"}, FlushFailed(t, r) PROVE OrderInv'
  <2>1. Looking(t) /\ Passed(t) /\ UNCHANGED items
    BY <1>9 DEF FlushFailed, Posted
  <2>2. CASE GivenUp(Counted(item), r)
    BY <1>6, <1>9, <2>1, <2>2 DEF FlushFailed
  <2>3. CASE ~GivenUp(Counted(item), r)
    BY <1>3, <1>5, <1>9, <2>1, <2>3, CountedFacts DEF FlushFailed
  <2> QED BY <2>2, <2>3
<1>10. ASSUME FlushAuthError(t) PROVE OrderInv'
  <2>1. /\ pending' = [pending EXCEPT ![t] = <<>>]
        /\ remaining' = [remaining EXCEPT ![t] = <<>>] /\ UNCHANGED items
    BY <1>10 DEF FlushAuthError
  <2> QED BY <1>1, <1>2, <2>1, SameOrder, EmptyPosts, EmptyOrdered
          DEF OrderInv, AllKnown, FlushOrdered
<1>11. ASSUME FlushEnd(t) PROVE OrderInv'
  <2>1. /\ items' = remaining[t] /\ UNCHANGED pending
        /\ remaining' = [remaining EXCEPT ![t] = <<>>]
    BY <1>11 DEF FlushEnd, WriteBack
  <2> QED BY <1>1, <1>2, <2>1, SameOrder, EmptyPosts, EmptyOrdered
          DEF OrderInv, AllKnown, FlushOrdered
<1> QED
  BY <1>4, <1>7, <1>8, <1>9, <1>10, <1>11 DEF FlushStep, Attempt

LEMMA OrderStep == OrderInv /\ [Next]_vars => OrderInv'
<1> SUFFICES ASSUME OrderInv, [Next]_vars PROVE OrderInv'
  OBVIOUS
<1>1. CASE Cancel \/ UNCHANGED vars
  <2>1. BoundInv'
    BY <1>1, BoundStep DEF OrderInv, Next
  <2>2. UNCHANGED <<items, pending, remaining, enqueued>>
    BY <1>1 DEF Cancel, vars, flushVars, history
  <2> QED BY <2>1, <2>2, SameOrder DEF OrderInv, AllKnown, FlushOrdered
<1> QED
  BY <1>1, SendOrder, FlushOrder DEF Next

\* However many goroutines flush and send at once, the queue keeps requests in
\* the order in which Enqueue took them, each once (retry.go:67-71, 82-118).
THEOREM QueueInOrderHolds == Spec => []QueueInOrder
<1>1. OrderInv => QueueInOrder
  BY DEF OrderInv, Ordered, Before, QueueInOrder
<1> QED
  BY OrderInit, OrderStep, <1>1, PTL DEF Spec

-----------------------------------------------------------------------------
(* Silence after a 401.                                                      *)

\* A blocked client starts nothing: each thread that changes its state returns.
LEMMA BlockedStep ==
    ASSUME TypeOK, authBlocked, [Next]_vars
    PROVE  /\ enqueued' = enqueued
           /\ \A t \in Threads : pc[t] = "idle" => pc'[t] = "idle"
<1>1. pc \in [Threads -> {"idle", "send", "flush"}]
  BY DEF TypeOK
<1>2. ASSUME NEW t \in Threads, NEW p \in Posts, SendRefused(t, p) \/ SendStart(t, p)
      PROVE  UNCHANGED <<enqueued, pc>>
  BY <1>2 DEF SendRefused, SendStart, MaySend
<1>3. ASSUME NEW t \in Threads, Reply(t) PROVE UNCHANGED enqueued /\ Returned(t)
  \* Enqueue asks again: the 401 may have come after send's own check.
  BY <1>3 DEF Reply, SendOk, SendAuthError, SendRejected, SendRetryable, Enqueue
<1>4. ASSUME NEW t \in Threads PROVE ~FlushStart(t)
  BY DEF FlushStart, MayFlush
<1>5. ASSUME NEW t \in Threads, FlushStep(t)
      PROVE  UNCHANGED enqueued /\ (UNCHANGED pc \/ Returned(t))
  BY <1>5 DEF FlushStep, Attempt, FlushKeep, FlushOk, FlushAuthError, FlushFailed,
              FlushEnd, history
<1>6. ASSUME NEW t \in Threads, Returned(t)
      PROVE  \A u \in Threads : pc[u] = "idle" => pc'[u] = "idle"
  BY <1>1, <1>6 DEF Returned
<1>7. CASE Cancel \/ UNCHANGED vars
  BY <1>7 DEF Cancel, vars, history
<1> QED
  BY <1>2, <1>3, <1>4, <1>5, <1>6, <1>7 DEF Next, Send

\* After a 401 no send and no flush begins and nothing is queued any more
\* (retry.go:59, 77, 101, client.go:238).
THEOREM BlockedIsQuietHolds == Spec => BlockedIsQuiet
<1>1. TypeOK /\ [Next]_vars =>
        [authBlocked =>
           /\ enqueued' = enqueued
           /\ \A t \in Threads : pc[t] = "idle" => pc'[t] = "idle"]_vars
  BY BlockedStep
<1> QED
  BY TypeCorrect, <1>1, PTL DEF Spec, BlockedIsQuiet
-----------------------------------------------------------------------------
(* What a client guarantees only when not too many goroutines share it, for  *)
(* any requests and limits: with one goroutine flushing, no request is posted *)
(* again after its 2xx reply was read, nor more often than the budget allows; *)
(* with one goroutine in all, the client implements PostLedger.              *)

OneFlusher == \A s, t \in Flushers : s = t

\* Requests that send has passed on.
Handled == acked \cup PostsOf(items) \cup {p \in Posts : InFlush(p)}

OnlyFlushers == \A t \in Threads : pc[t] = "flush" => t \in Flushers

NotYet ==
    /\ \A p \in unsent : p \notin Handled
    /\ \A t \in Threads : body[t] \in Posts => body[t] \notin Handled \cup unsent
    /\ \A t, u \in Threads : body[t] \in Posts /\ body[t] = body[u] => t = u

Distinct ==
    /\ NoDup(items)
    /\ \A t \in Threads :
         /\ NoDup(pending[t]) /\ NoDup(remaining[t])
         /\ PostsOf(pending[t]) \cap PostsOf(remaining[t]) = {}

\* What a flush has still to post or means to keep is not acknowledged; the
\* queue may be out of date only while a flush runs, or for good after a 401.
Unacked ==
    /\ \A t \in Threads : (PostsOf(pending[t]) \cup PostsOf(remaining[t])) \cap acked = {}
    /\ \/ authBlocked
       \/ \E t \in Threads : pc[t] = "flush"
       \/ PostsOf(items) \cap acked = {}

OnceInv == BoundInv /\ OnlyFlushers /\ NotYet /\ Distinct /\ Unacked
-----------------------------------------------------------------------------
(* The invariant holds at the start and every step keeps it.                 *)

LEMMA OnceInit == Init => OnceInv
<1> SUFFICES ASSUME Init PROVE OnceInv
  OBVIOUS
<1>1. BoundInv
  BY BoundInit
<1>2. /\ Handled = {} /\ PostsOf(items) = {}
      /\ \A t \in Threads : PostsOf(pending[t]) = {} /\ PostsOf(remaining[t]) = {}
      /\ \A t \in Threads : body[t] \notin Posts
  BY EmptyPosts, PostAssumption DEF Init, Handled, InFlush
<1>3. OnlyFlushers /\ NotYet
  BY <1>2 DEF Init, OnlyFlushers, NotYet
<1>4. Distinct /\ Unacked
  BY <1>2, EmptyPosts DEF Init, Distinct, Unacked
<1> QED BY <1>1, <1>3, <1>4 DEF OnceInv

\* A call of send leaves the flushes alone.
LEMMA SendOnce ==
    ASSUME OnceInv, NEW t \in Threads, Send(t) \/ Reply(t)
    PROVE  OnceInv'
<1>1. BoundInv'
  BY SendBound DEF OnceInv
<1>2. /\ UNCHANGED <<pending, remaining>>
      /\ \A u \in Threads : pc'[u] = "flush" <=> pc[u] = "flush"
  BY DEF OnceInv, BoundInv, TypeOK, Send, Reply, SendRefused, SendStart, SendOk,
         SendAuthError, SendRejected, SendRetryable, Returned, flushVars
<1>3. OnlyFlushers'
  BY <1>2 DEF OnceInv, OnlyFlushers
<1>4. \A p : InFlush(p)' <=> InFlush(p)
  BY <1>2 DEF InFlush
<1>5. body \in [Threads -> Posts \cup {NoPost}] /\ NoPost \notin Posts
  BY PostAssumption DEF OnceInv, BoundInv, TypeOK
<1>6. ASSUME NEW p \in Posts, SendRefused(t, p) PROVE OnceInv'
  <2>1. Handled' = Handled
    BY <1>4, <1>6 DEF SendRefused, Handled
  <2>2. NotYet'
    BY <1>6, <2>1 DEF SendRefused, OnceInv, NotYet
  <2>3. Distinct' /\ Unacked'
    BY <1>2, <1>6 DEF SendRefused, OnceInv, Distinct, Unacked
  <2> QED BY <1>1, <1>3, <2>2, <2>3 DEF OnceInv
<1>7. ASSUME NEW p \in Posts, SendStart(t, p) PROVE OnceInv'
  <2>1. Handled' = Handled
    BY <1>4, <1>7 DEF SendStart, Handled
  <2>2. body' = [body EXCEPT ![t] = p] /\ p \in unsent /\ unsent' = unsent \ {p}
    BY <1>7 DEF SendStart
  <2>3. NotYet'
    BY <1>5, <2>1, <2>2 DEF OnceInv, NotYet
  <2>4. Distinct' /\ Unacked'
    BY <1>2, <1>7 DEF SendStart, OnceInv, Distinct, Unacked
  <2> QED BY <1>1, <1>3, <2>3, <2>4 DEF OnceInv
<1>8. ASSUME SendAuthError(t) \/ SendRejected(t) PROVE OnceInv'
  <2>1. Handled' = Handled
    BY <1>4, <1>8 DEF SendAuthError, SendRejected, Handled
  <2>2. body' = [body EXCEPT ![t] = NoPost] /\ UNCHANGED unsent
    BY <1>8 DEF SendAuthError, SendRejected, Returned
  <2>3. NotYet'
    BY <1>5, <2>1, <2>2 DEF OnceInv, NotYet
  <2>4. Distinct' /\ Unacked'
    BY <1>2, <1>8 DEF SendAuthError, SendRejected, OnceInv, Distinct, Unacked
  <2> QED BY <1>1, <1>3, <2>3, <2>4 DEF OnceInv
<1>9. ASSUME pc[t] = "send" PROVE body[t] \in Posts /\ body[t] \notin Handled
  BY <1>9 DEF OnceInv, BoundInv, TypeOK, NotYet
\* What the request leaves send for is the request itself.
<1>10. ASSUME body' = [body EXCEPT ![t] = NoPost], UNCHANGED unsent, body[t] \in Posts,
              Handled' \subseteq Handled \cup {body[t]}
       PROVE  NotYet'
  BY <1>5, <1>10 DEF OnceInv, NotYet
<1>11. ASSUME SendOk(t) PROVE OnceInv'
  <2>1. /\ body[t] \in Posts /\ body[t] \notin Handled
        /\ acked' = acked \cup {body[t]} /\ UNCHANGED <<items, unsent, authBlocked>>
        /\ body' = [body EXCEPT ![t] = NoPost]
    BY <1>9, <1>11 DEF SendOk, Returned
  <2>2. Handled' \subseteq Handled \cup {body[t]}
    BY <1>4, <2>1 DEF Handled
  <2>3. NotYet'
    BY <1>10, <2>1, <2>2
  <2>4. Distinct'
    BY <1>2, <2>1 DEF OnceInv, Distinct
  <2>5. body[t] \notin PostsOf(items)
        /\ \A u \in Threads : body[t] \notin PostsOf(pending[u]) \cup PostsOf(remaining[u])
    BY <2>1 DEF Handled, InFlush
  <2>6. Unacked'
    BY <1>2, <2>1, <2>5 DEF OnceInv, Unacked
  <2> QED BY <1>1, <1>3, <2>3, <2>4, <2>6 DEF OnceInv
<1>12. ASSUME SendRetryable(t) PROVE OnceInv'
  <2>1. /\ body[t] \in Posts /\ body[t] \notin Handled
        /\ UNCHANGED <<unsent, acked, authBlocked>> /\ Enqueue(body[t])
        /\ body' = [body EXCEPT ![t] = NoPost]
    BY <1>9, <1>12 DEF SendRetryable, Returned
  <2>2. /\ PostsOf(items') \subseteq PostsOf(items) \cup {body[t]}
        /\ NoDup(items')
    <3>1. CASE authBlocked
      BY <2>1, <3>1 DEF Enqueue, OnceInv, Distinct
    <3>2. CASE ~authBlocked
      <4> DEFINE new == [post |-> body[t], attempts |-> 0]
                 kept == MakeRoom(items)
      <4>1. items' = Append(kept, new)
        BY <2>1, <3>2 DEF Enqueue, EnqueueUnchecked
      <4>2. new \in Item /\ new.post = body[t]
        BY <2>1, ItemFacts
      <4>3. items \in Seq(Item) /\ Len(items) <= MaxQueueLen
        BY DEF OnceInv, BoundInv, TypeOK, QueueBounded
      <4>4. kept \in Seq(Item) /\ PostsOf(kept) \subseteq PostsOf(items) /\ NoDup(kept)
        BY <4>3, RoomFacts, RoomPosts DEF OnceInv, Distinct
      <4>5. body[t] \notin PostsOf(kept)
        BY <2>1, <4>4 DEF Handled
      <4> QED BY <4>1, <4>2, <4>4, <4>5, AppendPosts
    <3> QED BY <3>1, <3>2
  <2>3. Handled' \subseteq Handled \cup {body[t]}
    BY <1>4, <2>1, <2>2 DEF Handled
  <2>4. NotYet'
    BY <1>10, <2>1, <2>3
  <2>5. Distinct'
    BY <1>2, <2>2 DEF OnceInv, Distinct
  <2>6. body[t] \notin acked
    BY <2>1 DEF Handled
  <2>7. Unacked'
    BY <1>2, <2>1, <2>2, <2>6 DEF OnceInv, Unacked
  <2> QED BY <1>1, <1>3, <2>4, <2>5, <2>7 DEF OnceInv
<1> QED BY <1>6, <1>7, <1>8, <1>11, <1>12 DEF Send, Reply

LEMMA FlushOnce ==
    ASSUME OneFlusher, OnceInv, NEW t \in Threads, FlushStart(t) \/ FlushStep(t)
    PROVE  OnceInv'
<1> DEFINE item == Head(pending[t])
<1>1. BoundInv'
  BY FlushBound DEF OnceInv
<1>2. /\ items \in Seq(Item) /\ pending[t] \in Seq(Item) /\ remaining[t] \in Seq(Item)
      /\ pending \in [Threads -> Seq(Item)] /\ remaining \in [Threads -> Seq(Item)]
      /\ pc \in [Threads -> {"idle", "send", "flush"}]
      /\ body \in [Threads -> Posts \cup {NoPost}] /\ NoPost \notin Posts
  BY PostAssumption DEF OnceInv, BoundInv, TypeOK
<1>3. \A s \in Seq(Item) : PostsOf(s) \subseteq Posts
  BY ItemFacts DEF PostsOf
\* What a step brings into the lists it takes from the lists.
<1>4. ASSUME UNCHANGED unsent, Handled' \subseteq Handled,
             \A u \in Threads : body'[u] \in Posts => body'[u] = body[u]
      PROVE  NotYet'
  BY <1>4 DEF OnceInv, NotYet
\* The step from a list with the item at its head.
<1>5. ASSUME Looking(t)
      PROVE  /\ item \in Item /\ item.post \in Posts
             /\ PostsOf(pending[t]) = {item.post} \cup PostsOf(Tail(pending[t]))
             /\ NoDup(Tail(pending[t])) /\ item.post \notin PostsOf(Tail(pending[t]))
             /\ item.post \notin PostsOf(remaining[t])
             /\ item.post \notin acked
             /\ pc[t] = "flush"
  BY <1>2, <1>5, TailPosts, HeadTail, ItemFacts DEF Looking, OnceInv, Distinct, Unacked
<1>6. ASSUME FlushStart(t) PROVE OnceInv'
  <2>1. /\ pending' = [pending EXCEPT ![t] = items] /\ ~authBlocked /\ t \in Flushers
        /\ pc[t] = "idle" /\ pc' = [pc EXCEPT ![t] = "flush"]
        /\ UNCHANGED <<items, authBlocked, body, remaining, unsent, acked>>
    BY <1>6 DEF FlushStart, MayFlush, history
  <2>2. remaining[t] = <<>> /\ PostsOf(remaining[t]) = {} /\ NoDup(remaining[t])
    BY <2>1, EmptyPosts DEF OnceInv, BoundInv, IdleEmpty
  <2>3. PostsOf(items) \cap acked = {}
    \* No other goroutine flushes, and the client is not blocked.
    BY <2>1 DEF OnceInv, Unacked, OnlyFlushers, OneFlusher
  <2>4. Handled' \subseteq Handled
    BY <1>2, <2>1 DEF Handled, InFlush
  <2>5. NotYet'
    BY <1>4, <2>1, <2>4
  <2>6. Distinct'
    BY <1>2, <2>1, <2>2 DEF OnceInv, Distinct
  <2>7. Unacked' /\ OnlyFlushers'
    BY <1>2, <2>1, <2>2, <2>3 DEF OnceInv, Unacked, OnlyFlushers
  <2> QED BY <1>1, <2>5, <2>6, <2>7 DEF OnceInv
\* The item goes to the list of those to keep.
<1>7. ASSUME NEW kept \in Item, Looking(t), Passed(t), Keep(t, kept),
             kept.post = item.post,
             UNCHANGED <<items, authBlocked, pc, body, unsent, acked>>
      PROVE  OnceInv'
  <2>1. /\ pending' = [pending EXCEPT ![t] = Tail(pending[t])]
        /\ remaining' = [remaining EXCEPT ![t] = Append(remaining[t], kept)]
    BY <1>7 DEF Passed, Keep
  <2>2. /\ PostsOf(Append(remaining[t], kept)) = PostsOf(remaining[t]) \cup {item.post}
        /\ NoDup(Append(remaining[t], kept))
    BY <1>2, <1>5, <1>7, AppendPosts, ZenonT(40) DEF OnceInv, Distinct
  <2>3. \A p : InFlush(p)' => InFlush(p)
    BY <1>2, <1>5, <1>7, <2>1, <2>2 DEF InFlush
  <2>4. NotYet'
    BY <1>4, <1>7, <2>3 DEF Handled
  <2>5. Distinct'
    BY <1>2, <1>5, <1>7, <2>1, <2>2 DEF OnceInv, Distinct
  <2>6. Unacked' /\ OnlyFlushers'
    BY <1>2, <1>5, <1>7, <2>1, <2>2 DEF OnceInv, Unacked, OnlyFlushers
  <2> QED BY <1>1, <2>4, <2>5, <2>6 DEF OnceInv
\* The item is done with: delivered, or given up.
<1>8. ASSUME Looking(t), Passed(t), acked' \subseteq acked \cup {item.post},
             UNCHANGED <<items, authBlocked, pc, body, unsent, remaining>>
      PROVE  OnceInv'
  <2>1. pending' = [pending EXCEPT ![t] = Tail(pending[t])]
    BY <1>8 DEF Passed
  <2>2. \A p : InFlush(p)' => InFlush(p)
    BY <1>2, <1>5, <1>8, <2>1 DEF InFlush
  <2>3. InFlush(item.post)
    BY <1>5, <1>8 DEF InFlush
  <2>4. NotYet'
    BY <1>4, <1>5, <1>8, <2>2, <2>3 DEF Handled
  <2>5. Distinct'
    BY <1>2, <1>5, <1>8, <2>1 DEF OnceInv, Distinct
  <2>6. ASSUME NEW u \in Threads
        PROVE  (PostsOf(pending'[u]) \cup PostsOf(remaining'[u])) \cap acked' = {}
    <3>1. CASE u = t
      BY <1>2, <1>5, <1>8, <2>1, <3>1 DEF OnceInv, Unacked
    <3>2. CASE u # t
      \* Another goroutine is not in a flush and has empty lists.
      <4>1. pc[u] # "flush"
        BY <1>5, <1>8, <3>2 DEF OnceInv, OnlyFlushers, OneFlusher
      <4>2. pending[u] = <<>> /\ remaining[u] = <<>>
        BY <4>1 DEF OnceInv, BoundInv, IdleEmpty
      <4> QED BY <1>2, <1>8, <2>1, <3>2, <4>2, EmptyPosts
    <3> QED BY <3>1, <3>2
  <2>7. Unacked' /\ OnlyFlushers'
    BY <1>5, <1>8, <2>6 DEF OnceInv, Unacked, OnlyFlushers
  <2> QED BY <1>1, <2>4, <2>5, <2>7 DEF OnceInv
<1>9. ASSUME FlushKeep(t) PROVE OnceInv'
  BY <1>5, <1>7, <1>9 DEF FlushKeep, history, Looking
<1>10. ASSUME FlushOk(t) PROVE OnceInv'
  BY <1>8, <1>10 DEF FlushOk, Posted
<1>11. ASSUME NEW r \in {"retry", "reject"}, FlushFailed(t, r) PROVE OnceInv'
  <2>1. CASE GivenUp(Counted(item), r)
    BY <1>8, <1>11, <2>1 DEF FlushFailed, Posted
  <2>2. CASE ~GivenUp(Counted(item), r)
    <3>1. Looking(t)
      BY <1>11 DEF FlushFailed, Posted
    <3>2. Counted(item) \in Item /\ Counted(item).post = item.post
      BY <1>5, <2>2, <3>1, CountedFacts
    <3> QED BY <1>7, <1>11, <2>2, <3>2 DEF FlushFailed, Posted
  <2> QED BY <2>1, <2>2
<1>12. ASSUME FlushAuthError(t) PROVE OnceInv'
  <2>1. /\ pending' = [pending EXCEPT ![t] = <<>>]
        /\ remaining' = [remaining EXCEPT ![t] = <<>>]
        /\ authBlocked' = TRUE /\ UNCHANGED <<items, unsent, acked>>
        /\ pc' = [pc EXCEPT ![t] = "idle"] /\ body' = [body EXCEPT ![t] = NoPost]
    BY <1>12 DEF FlushAuthError, Returned
  <2>2. \A p : InFlush(p)' => InFlush(p)
    BY <1>2, <2>1, EmptyPosts DEF InFlush
  <2>3. NotYet'
    BY <1>2, <1>4, <2>1, <2>2 DEF Handled
  <2>4. Distinct' /\ Unacked' /\ OnlyFlushers'
    BY <1>2, <2>1, EmptyPosts DEF OnceInv, Distinct, Unacked, OnlyFlushers
  <2> QED BY <1>1, <2>3, <2>4 DEF OnceInv
<1>13. ASSUME FlushEnd(t) PROVE OnceInv'
  <2>1. /\ items' = remaining[t] /\ UNCHANGED <<authBlocked, pending, unsent, acked>>
        /\ remaining' = [remaining EXCEPT ![t] = <<>>]
        /\ pc' = [pc EXCEPT ![t] = "idle"] /\ body' = [body EXCEPT ![t] = NoPost]
    BY <1>13 DEF FlushEnd, WriteBack, Returned, history
  <2>2. \A p : InFlush(p)' => InFlush(p)
    BY <1>2, <2>1, EmptyPosts DEF InFlush
  <2>3. PostsOf(items') \subseteq {p \in Posts : InFlush(p)}
    BY <1>2, <1>3, <2>1 DEF InFlush
  <2>4. NotYet'
    BY <1>2, <1>4, <2>1, <2>2, <2>3 DEF Handled
  <2>5. Distinct' /\ Unacked' /\ OnlyFlushers'
    BY <1>2, <2>1, EmptyPosts DEF OnceInv, Distinct, Unacked, OnlyFlushers
  <2> QED BY <1>1, <2>4, <2>5 DEF OnceInv
<1> QED
  BY <1>6, <1>9, <1>10, <1>11, <1>12, <1>13 DEF FlushStep, Attempt

LEMMA OnceStep == OneFlusher /\ OnceInv /\ [Next]_vars => OnceInv'
<1> SUFFICES ASSUME OneFlusher, OnceInv, [Next]_vars PROVE OnceInv'
  OBVIOUS
<1>1. CASE Cancel \/ UNCHANGED vars
  <2>1. BoundInv'
    BY <1>1, BoundStep DEF OnceInv, Next
  <2>2. UNCHANGED <<items, authBlocked, pc, body, pending, remaining, unsent, acked>>
    BY <1>1 DEF Cancel, vars, flushVars, history
  <2> QED BY <2>1, <2>2
         DEF OnceInv, OnlyFlushers, NotYet, Distinct, Unacked, Handled, InFlush
<1> QED
  BY <1>1, SendOnce, FlushOnce DEF Next

\* No step of the invariant's states posts an acknowledged request.
LEMMA NoRepostStep ==
    OnceInv /\ [Next]_vars => [\A p \in acked : tries'[p] = tries[p]]_vars
<1> SUFFICES ASSUME OnceInv, [Next]_vars, NEW p \in acked
             PROVE  tries'[p] = tries[p]
  BY DEF vars
<1>1. p \in Posts /\ tries \in [Posts -> Nat]
  BY DEF OnceInv, BoundInv, TypeOK
<1>2. ASSUME NEW q \in Posts, Tried(q), q \notin acked PROVE tries'[p] = tries[p]
  BY <1>1, <1>2 DEF Tried
<1>3. ASSUME NEW t \in Threads, Reply(t) PROVE tries'[p] = tries[p]
  <2>1. Tried(body[t]) /\ pc[t] = "send"
    BY <1>3 DEF Reply, SendOk, SendAuthError, SendRejected, SendRetryable
  <2>2. body[t] \in Posts /\ body[t] \notin acked
    BY <2>1 DEF OnceInv, BoundInv, TypeOK, NotYet, Handled
  <2> QED BY <1>2, <2>1, <2>2
<1>4. ASSUME NEW t \in Threads, Attempt(t) PROVE tries'[p] = tries[p]
  <2>1. Looking(t) /\ Tried(Head(pending[t]).post)
    BY <1>4 DEF Attempt, FlushOk, FlushAuthError, FlushFailed, Posted
  <2>2. Head(pending[t]) \in Item /\ Head(pending[t]).post \in PostsOf(pending[t])
    BY <2>1, HeadTail, TailPosts DEF Looking, OnceInv, BoundInv, TypeOK
  <2>3. Head(pending[t]).post \in Posts /\ Head(pending[t]).post \notin acked
    BY <2>2, ItemFacts DEF OnceInv, Unacked
  <2> QED BY <1>2, <2>1, <2>3
<1>5. ASSUME NEW t \in Threads,
             Send(t) \/ FlushStart(t) \/ FlushKeep(t) \/ FlushEnd(t)
      PROVE  tries'[p] = tries[p]
  BY <1>5 DEF Send, SendRefused, SendStart, FlushStart, FlushKeep, FlushEnd, history
<1>6. CASE Cancel \/ UNCHANGED vars
  BY <1>6 DEF Cancel, vars, history
<1> QED BY <1>3, <1>4, <1>5, <1>6 DEF Next, FlushStep

\* While one goroutine flushes, as between two cron jobs, no request is posted
\* again after its 2xx was read, whatever the other goroutines send meanwhile
\* (retry.go:82-118).  The condition is needed: two flushes that overlap each
\* work on a copy of their own.
THEOREM NoRepostHolds ==
    ASSUME OneFlusher
    PROVE  Spec => NoRepost
<1>1. Init => OnceInv
  BY OnceInit
<1>2. OnceInv /\ [Next]_vars => OnceInv'
  BY OnceStep
<1> QED
  BY <1>1, <1>2, NoRepostStep, PTL DEF Spec, NoRepost
-----------------------------------------------------------------------------
(* The attempts made.                                                        *)

\* An item in use counts the attempts of Flush; with that of send they are all
\* the exchanges made for its request.
Tallied(count, s) == \A i \in 1 .. Len(s) : count[s[i].post] = s[i].attempts + 1

\* The queue's counts are out of date only while they cannot be used: during a
\* flush, which replaces them, and after a 401, when nothing is posted again.
TallyInv ==
    /\ \A p \in unsent : tries[p] = 0
    /\ \A t \in Threads : body[t] \in Posts => tries[body[t]] = 0
    /\ \A t \in Threads : Tallied(tries, pending[t]) /\ Tallied(tries, remaining[t])
    /\ \/ authBlocked
       \/ \E t \in Threads : pc[t] = "flush"
       \/ Tallied(tries, items)

BudgetInv == OnceInv /\ TallyInv /\ RetryBudget

LEMMA EmptyTallied == \A count : Tallied(count, <<>>)
BY DEF Tallied

LEMMA TailTallied ==
    ASSUME NEW s \in Seq(Item), s # <<>>, Tallied(tries, s)
    PROVE  Tallied(tries, Tail(s)) /\ tries[Head(s).post] = Head(s).attempts + 1
<1>1. /\ Len(s) \in Nat /\ Len(s) > 0 /\ Head(s) = s[1] /\ 1 \in 1 .. Len(s)
      /\ \A i \in 1 .. Len(Tail(s)) : Tail(s)[i] = s[i + 1] /\ i + 1 \in 1 .. Len(s)
  OBVIOUS
<1> QED BY <1>1 DEF Tallied

LEMMA AppendTallied ==
    ASSUME NEW count, NEW s \in Seq(Item), NEW item \in Item,
           Tallied(count, s), count[item.post] = item.attempts + 1
    PROVE  Tallied(count, Append(s, item))
<1>1. /\ Len(s) \in Nat /\ Len(Append(s, item)) = Len(s) + 1
      /\ \A i \in 1 .. Len(s) : Append(s, item)[i] = s[i]
      /\ Append(s, item)[Len(s) + 1] = item
      /\ \A i \in 1 .. Len(s) + 1 : i \in 1 .. Len(s) \/ i = Len(s) + 1
  OBVIOUS
<1> QED BY <1>1 DEF Tallied

\* An attempt for a request that a list does not hold leaves its tally right.
LEMMA OthersTallied ==
    ASSUME tries \in [Posts -> Nat], NEW p \in Posts, Tried(p),
           NEW s \in Seq(Item), Tallied(tries, s), p \notin PostsOf(s)
    PROVE  Tallied(tries', s)
<1>1. \A i \in 1 .. Len(s) : s[i].post \in Posts /\ s[i].post # p
  BY ItemFacts DEF PostsOf
<1> QED BY <1>1 DEF Tallied, Tried

LEMMA TriedCount ==
    ASSUME tries \in [Posts -> Nat], NEW p \in Posts, Tried(p)
    PROVE  /\ tries'[p] = tries[p] + 1
           /\ \A q \in Posts \ {p} : tries'[q] = tries[q]
BY DEF Tried

LEMMA BudgetInit == Init => BudgetInv
<1> SUFFICES ASSUME Init PROVE BudgetInv
  OBVIOUS
<1>1. RetryBudget
  BY LimitAssumption DEF Init, RetryBudget
<1>2. TallyInv
  BY EmptyTallied, PostAssumption DEF Init, TallyInv
<1> QED BY <1>1, <1>2, OnceInit DEF BudgetInv

LEMMA SendBudget ==
    ASSUME BudgetInv, NEW t \in Threads, Send(t) \/ Reply(t)
    PROVE  BudgetInv'
<1>1. OnceInv'
  BY SendOnce DEF BudgetInv
<1>2. /\ tries \in [Posts -> Nat] /\ items \in Seq(Item)
      /\ \A u \in Threads : pending[u] \in Seq(Item) /\ remaining[u] \in Seq(Item)
      /\ body \in [Threads -> Posts \cup {NoPost}] /\ NoPost \notin Posts
      /\ unsent \subseteq Posts /\ MaxRetries \in Nat \ {0}
  BY PostAssumption, LimitAssumption DEF BudgetInv, OnceInv, BoundInv, TypeOK
<1>3. /\ UNCHANGED <<pending, remaining>> /\ (authBlocked => authBlocked')
      /\ \A u \in Threads : pc'[u] = "flush" <=> pc[u] = "flush"
  BY DEF BudgetInv, OnceInv, BoundInv, TypeOK, Send, Reply, SendRefused, SendStart, SendOk,
         SendAuthError, SendRejected, SendRetryable, Returned, flushVars
<1>4. CASE Send(t)
  <2>1. UNCHANGED <<tries, items, authBlocked>> /\ unsent' \subseteq unsent
    BY <1>4 DEF Send, SendRefused, SendStart
  <2>2. \A u \in Threads : body'[u] \in Posts => body'[u] = body[u] \/ body'[u] \in unsent
    BY <1>2, <1>4 DEF Send, SendRefused, SendStart
  <2>3. TallyInv'
    BY <1>3, <2>1, <2>2 DEF BudgetInv, TallyInv
  <2> QED BY <1>1, <2>1, <2>3 DEF BudgetInv, RetryBudget
<1>5. CASE Reply(t)
  <2>1. /\ body[t] \in Posts /\ UNCHANGED unsent
        /\ Tried(body[t]) /\ body' = [body EXCEPT ![t] = NoPost]
    BY <1>5 DEF Reply, SendOk, SendAuthError, SendRejected, SendRetryable, Returned,
                BudgetInv, OnceInv, BoundInv, TypeOK
  <2> PICK p \in Posts : p = body[t]
    BY <2>1
  <2>2. /\ p \notin Handled /\ p \notin unsent /\ tries[p] = 0
        /\ \A u \in Threads \ {t} : body[u] # p
    BY DEF BudgetInv, OnceInv, NotYet, TallyInv
  <2>3. tries'[p] = 1 /\ \A q \in Posts \ {p} : tries'[q] = tries[q]
    BY <1>2, <2>1, <2>2, TriedCount
  <2>4. /\ p \notin PostsOf(items)
        /\ \A u \in Threads : p \notin PostsOf(pending[u]) \cup PostsOf(remaining[u])
    BY <2>2 DEF Handled, InFlush
  <2>5. \A s \in Seq(Item) : Tallied(tries, s) /\ p \notin PostsOf(s) => Tallied(tries', s)
    BY <1>2, <2>1, OthersTallied
  <2>6. RetryBudget'
    BY <1>2, <2>3 DEF BudgetInv, RetryBudget
  <2>7. /\ \A q \in unsent' : tries'[q] = 0
        /\ \A u \in Threads : body'[u] \in Posts => tries'[body'[u]] = 0
    BY <1>2, <2>1, <2>2, <2>3 DEF BudgetInv, TallyInv
  <2>8. \A u \in Threads : Tallied(tries', pending'[u]) /\ Tallied(tries', remaining'[u])
    BY <1>2, <1>3, <2>4, <2>5 DEF BudgetInv, TallyInv
  <2>9. ASSUME ~authBlocked', \A u \in Threads : pc'[u] # "flush"
        PROVE  Tallied(tries', items')
    <3>1. Tallied(tries, items) /\ ~authBlocked
      BY <1>3, <2>9 DEF BudgetInv, TallyInv
    <3>2. Tallied(tries', items') \/ SendRetryable(t)
      BY <1>2, <1>5, <2>4, <2>5, <3>1 DEF Reply, SendOk, SendAuthError, SendRejected
    <3>3. CASE SendRetryable(t)
      <4> DEFINE new == [post |-> p, attempts |-> 0]
                 kept == MakeRoom(items)
      <4>1. items' = Append(kept, new)
        BY <3>1, <3>3 DEF SendRetryable, Enqueue, EnqueueUnchecked
      <4>2. new \in Item /\ new.post = p /\ new.attempts = 0
        BY ItemFacts
      <4>3. kept \in Seq(Item) /\ PostsOf(kept) \subseteq PostsOf(items)
        BY <1>2, RoomFacts, RoomPosts DEF BudgetInv, OnceInv, BoundInv, QueueBounded
      <4>4. Tallied(tries, kept)
        <5>1. CASE Len(items) >= MaxQueueLen
          BY <1>2, <3>1, <5>1, TailTallied, LimitAssumption DEF MakeRoom
        <5>2. CASE ~(Len(items) >= MaxQueueLen)
          BY <3>1, <5>2 DEF MakeRoom
        <5> QED BY <5>1, <5>2
      <4>5. \A i \in 1 .. Len(kept) : tries'[kept[i].post] = kept[i].attempts + 1
        <5>1. ASSUME NEW i \in 1 .. Len(kept) PROVE kept[i].post \in Posts \ {p}
          <6>1. kept[i] \in Item /\ kept[i].post \in PostsOf(kept)
            BY <4>3 DEF PostsOf
          <6> QED BY <2>4, <4>3, <6>1, ItemFacts
        <5> QED BY <2>3, <4>4, <5>1 DEF Tallied
      <4>6. /\ Len(kept) \in Nat /\ Len(items') = Len(kept) + 1
            /\ \A i \in 1 .. Len(kept) : items'[i] = kept[i]
            /\ items'[Len(kept) + 1] = new
            /\ \A i \in 1 .. Len(kept) + 1 : i \in 1 .. Len(kept) \/ i = Len(kept) + 1
        BY <4>1, <4>2, <4>3
      <4> QED BY <2>3, <4>2, <4>5, <4>6 DEF Tallied
    <3> QED BY <3>2, <3>3
  <2>10. TallyInv'
    BY <2>7, <2>8, <2>9 DEF TallyInv
  <2> QED BY <1>1, <2>6, <2>10 DEF BudgetInv
<1> QED BY <1>4, <1>5

LEMMA FlushBudget ==
    ASSUME OneFlusher, BudgetInv, NEW t \in Threads, FlushStart(t) \/ FlushStep(t)
    PROVE  BudgetInv'
<1> DEFINE item == Head(pending[t])
<1>1. OnceInv'
  BY FlushOnce DEF BudgetInv
<1>2. /\ tries \in [Posts -> Nat] /\ items \in Seq(Item)
      /\ pending \in [Threads -> Seq(Item)] /\ remaining \in [Threads -> Seq(Item)]
      /\ pending[t] \in Seq(Item) /\ remaining[t] \in Seq(Item)
      /\ pc \in [Threads -> {"idle", "send", "flush"}]
      /\ body \in [Threads -> Posts \cup {NoPost}] /\ NoPost \notin Posts
      /\ unsent \subseteq Posts /\ MaxRetries \in Nat \ {0}
  BY PostAssumption, LimitAssumption DEF BudgetInv, OnceInv, BoundInv, TypeOK
<1>3. TallyInv /\ RetryBudget
  BY DEF BudgetInv
<1>4. ASSUME FlushStart(t) PROVE BudgetInv'
  <2>1. /\ pending' = [pending EXCEPT ![t] = items] /\ ~authBlocked
        /\ pc[t] = "idle" /\ t \in Flushers /\ pc' = [pc EXCEPT ![t] = "flush"]
        /\ UNCHANGED <<items, authBlocked, body, remaining, unsent, tries>>
    BY <1>4 DEF FlushStart, MayFlush, history
  <2>2. Tallied(tries, items)
    \* The only goroutine that flushes was idle.
    BY <1>3, <2>1 DEF TallyInv, BudgetInv, OnceInv, OnlyFlushers, OneFlusher
  <2>3. TallyInv'
    BY <1>2, <1>3, <2>1, <2>2 DEF TallyInv
  <2> QED BY <1>1, <1>3, <2>1, <2>3 DEF BudgetInv, RetryBudget
<1>5. ASSUME Looking(t)
      PROVE  /\ item \in Item /\ item.post \in Posts
             /\ tries[item.post] = item.attempts + 1 /\ item.attempts \in 0 .. MaxRetries - 1
             /\ Tail(pending[t]) \in Seq(Item) /\ Tallied(tries, Tail(pending[t]))
             /\ item.post \notin PostsOf(Tail(pending[t])) \cup PostsOf(remaining[t])
             /\ item.post \notin unsent
             /\ \A u \in Threads : body[u] # item.post
             /\ pc[t] = "flush"
             /\ \A u \in Threads \ {t} : pending[u] = <<>> /\ remaining[u] = <<>>
  <2>1. /\ item \in Item /\ item.post \in Posts /\ item.attempts \in 0 .. MaxRetries - 1
        /\ Tail(pending[t]) \in Seq(Item) /\ pc[t] = "flush" /\ pending[t] # <<>>
    BY <1>2, <1>5, HeadTail, ItemFacts DEF Looking
  <2>2. Tallied(tries, Tail(pending[t])) /\ tries[item.post] = item.attempts + 1
    BY <1>2, <1>3, <2>1, TailTallied DEF TallyInv
  <2>3. /\ item.post \in PostsOf(pending[t])
        /\ item.post \notin PostsOf(Tail(pending[t])) \cup PostsOf(remaining[t])
    BY <1>2, <2>1, TailPosts DEF BudgetInv, OnceInv, Distinct
  <2>4. item.post \in Handled
    BY <2>1, <2>3 DEF Handled, InFlush
  <2>5. item.post \notin unsent /\ \A u \in Threads : body[u] # item.post
    BY <2>1, <2>4 DEF BudgetInv, OnceInv, NotYet
  <2>6. \A u \in Threads \ {t} : pending[u] = <<>> /\ remaining[u] = <<>>
    BY <2>1 DEF BudgetInv, OnceInv, OnlyFlushers, OneFlusher, BoundInv, IdleEmpty
  <2> QED BY <2>1, <2>2, <2>3, <2>5, <2>6
\* The item is posted: the lists left are tallied as before, and its own count
\* stays within the budget.
<1>6. ASSUME Posted(t)
      PROVE  /\ tries'[item.post] = item.attempts + 2
             /\ RetryBudget'
             /\ \A q \in unsent : tries'[q] = 0
             /\ \A u \in Threads : body[u] \in Posts => tries'[body[u]] = 0
             /\ Tallied(tries', Tail(pending[t])) /\ Tallied(tries', remaining[t])
  <2>1. Looking(t) /\ Tried(item.post)
    BY <1>6 DEF Posted
  <2>2. /\ tries'[item.post] = tries[item.post] + 1
        /\ \A q \in Posts \ {item.post} : tries'[q] = tries[q]
    BY <1>2, <1>5, <2>1, TriedCount
  <2>3. tries'[item.post] = item.attempts + 2 /\ tries'[item.post] <= MaxRetries + 1
    BY <1>2, <1>5, <2>1, <2>2, SMTT(40)
  <2>4. RetryBudget'
    BY <1>3, <2>2, <2>3 DEF RetryBudget
  <2>5. /\ \A q \in unsent : tries'[q] = 0
        /\ \A u \in Threads : body[u] \in Posts => tries'[body[u]] = 0
    BY <1>2, <1>3, <1>5, <2>1, <2>2, SMTT(40) DEF TallyInv
  <2>6. Tallied(tries', Tail(pending[t])) /\ Tallied(tries', remaining[t])
    BY <1>2, <1>3, <1>5, <2>1, OthersTallied DEF TallyInv
  <2> QED
    BY <2>3, <2>4, <2>5, <2>6
\* What a step of the flush that leaves the goroutine flushing has to show.
<1>7. ASSUME Looking(t), UNCHANGED <<items, authBlocked, pc, body, unsent>>, Passed(t),
             Tallied(tries', Tail(pending[t])), Tallied(tries', remaining'[t]),
             \A u \in Threads \ {t} : remaining'[u] = remaining[u],
             \A q \in unsent : tries'[q] = 0,
             \A u \in Threads : body[u] \in Posts => tries'[body[u]] = 0,
             RetryBudget'
      PROVE  BudgetInv'
  <2>1. pending' = [pending EXCEPT ![t] = Tail(pending[t])] /\ pc'[t] = "flush"
    BY <1>5, <1>7 DEF Passed
  <2>2. \A u \in Threads : Tallied(tries', pending'[u]) /\ Tallied(tries', remaining'[u])
    BY <1>2, <1>5, <1>7, <2>1, EmptyTallied, SMTT(40) DEF Tallied
  <2>3. TallyInv'
    BY <1>7, <2>1, <2>2 DEF TallyInv
  <2> QED BY <1>1, <1>7, <2>3 DEF BudgetInv
<1>8. ASSUME FlushKeep(t) PROVE BudgetInv'
  <2>1. /\ Looking(t) /\ Passed(t) /\ UNCHANGED <<items, authBlocked, pc, body, unsent, tries>>
        /\ remaining' = [remaining EXCEPT ![t] = Append(remaining[t], item)]
    BY <1>8 DEF FlushKeep, Keep, history
  <2>2. Tallied(tries, Append(remaining[t], item))
    BY <1>2, <1>3, <1>5, <2>1, AppendTallied DEF TallyInv
  <2> QED BY <1>2, <1>3, <1>5, <1>7, <2>1, <2>2 DEF TallyInv, RetryBudget
<1>9. ASSUME FlushOk(t) PROVE BudgetInv'
  BY <1>6, <1>7, <1>9 DEF FlushOk, Posted
<1>10. ASSUME NEW r \in {"retry", "reject"}, FlushFailed(t, r) PROVE BudgetInv'
  <2>1. /\ Looking(t) /\ Posted(t) /\ Passed(t)
        /\ UNCHANGED <<items, authBlocked, pc, body, unsent>>
    BY <1>10 DEF FlushFailed, Posted
  <2>2. CASE GivenUp(Counted(item), r)
    BY <1>6, <1>7, <1>10, <2>1, <2>2 DEF FlushFailed
  <2>3. CASE ~GivenUp(Counted(item), r)
    <3> DEFINE new == Counted(item)
    <3>1. new \in Item /\ new.post = item.post /\ new.attempts = item.attempts + 1
      BY <1>5, <2>1, <2>3, CountedFacts DEF Counted, Item
    <3>2. remaining' = [remaining EXCEPT ![t] = Append(remaining[t], new)]
      BY <1>10, <2>3 DEF FlushFailed, Keep
    <3>3. Tallied(tries', Append(remaining[t], new))
      <4>1. Tallied(tries', remaining[t]) /\ tries'[new.post] = new.attempts + 1
        BY <1>5, <1>6, <2>1, <3>1
      <4> QED BY <1>2, <3>1, <4>1, AppendTallied
    <3> QED BY <1>2, <1>6, <1>7, <2>1, <3>2, <3>3
  <2> QED BY <2>2, <2>3
<1>11. ASSUME FlushAuthError(t) PROVE BudgetInv'
  <2>1. /\ pending' = [pending EXCEPT ![t] = <<>>]
        /\ remaining' = [remaining EXCEPT ![t] = <<>>]
        /\ authBlocked' = TRUE /\ UNCHANGED unsent /\ Looking(t) /\ Posted(t)
        /\ body' = [body EXCEPT ![t] = NoPost]
    BY <1>11 DEF FlushAuthError, Returned, Posted
  <2>2. \A u \in Threads : pending'[u] = <<>> /\ remaining'[u] = <<>>
    BY <1>2, <1>5, <2>1
  <2>3. TallyInv'
    BY <1>2, <1>6, <2>1, <2>2, EmptyTallied DEF TallyInv, Tallied
  <2> QED BY <1>1, <1>6, <2>1, <2>3 DEF BudgetInv
<1>12. ASSUME FlushEnd(t) PROVE BudgetInv'
  <2>1. /\ items' = remaining[t] /\ UNCHANGED <<authBlocked, pending, unsent, tries>>
        /\ remaining' = [remaining EXCEPT ![t] = <<>>]
        /\ body' = [body EXCEPT ![t] = NoPost]
    BY <1>12 DEF FlushEnd, WriteBack, Returned, history
  <2>2. TallyInv'
    BY <1>2, <1>3, <2>1, EmptyTallied DEF TallyInv
  <2> QED BY <1>1, <1>3, <2>1, <2>2 DEF BudgetInv, RetryBudget
<1> QED
  BY <1>4, <1>8, <1>9, <1>10, <1>11, <1>12 DEF FlushStep, Attempt

LEMMA BudgetStep == OneFlusher /\ BudgetInv /\ [Next]_vars => BudgetInv'
<1> SUFFICES ASSUME OneFlusher, BudgetInv, [Next]_vars PROVE BudgetInv'
  OBVIOUS
<1>1. CASE Cancel \/ UNCHANGED vars
  <2>1. OnceInv'
    BY <1>1, OnceStep DEF BudgetInv, Next
  <2>2. UNCHANGED <<items, authBlocked, pc, body, pending, remaining, unsent, tries>>
    BY <1>1 DEF Cancel, vars, flushVars, history
  <2> QED BY <2>1, <2>2 DEF BudgetInv, TallyInv, RetryBudget
<1> QED
  BY <1>1, SendBudget, FlushBudget DEF Next

\* While one goroutine flushes, a request is posted once by send and at most
\* maxRetries times by Flush, whatever is enqueued during a flush and lost by
\* its write-back (retry.go:104-118).
THEOREM RetryBudgetHolds ==
    ASSUME OneFlusher
    PROVE  Spec => []RetryBudget
<1>1. Init => BudgetInv
  BY BudgetInit
<1>2. BudgetInv /\ [Next]_vars => BudgetInv'
  BY BudgetStep
<1>3. BudgetInv => RetryBudget
  BY DEF BudgetInv
<1> QED
  BY <1>1, <1>2, <1>3, PTL DEF Spec

-----------------------------------------------------------------------------
(* A goroutine that has the client for itself keeps the ledger.              *)

OneThread == \A s, t \in Threads : s = t

\* A verdict is about a request that is in nobody's hands any more.
Settled ==
    /\ dropped \cap unsent = {}
    /\ \A t \in Threads : body[t] \notin dropped
    /\ \A t \in Threads : (PostsOf(pending[t]) \cup PostsOf(remaining[t])) \cap dropped = {}
    /\ \/ authBlocked
       \/ \E t \in Threads : pc[t] = "flush"
       \/ PostsOf(items) \cap dropped = {}

\* Nobody else touches the queue during a flush: what the flush holds is still
\* there, should it end early, and it holds or has settled all that is there.
InStep ==
    \A t \in Threads : pc[t] = "flush" =>
        /\ PostsOf(pending[t]) \cup PostsOf(remaining[t]) \subseteq PostsOf(items)
        /\ PostsOf(items) \subseteq PostsOf(pending[t]) \cup PostsOf(remaining[t])
                                    \cup acked \cup dropped

LedgerInv == OnceInv /\ Settled /\ InStep /\ NothingLost

\* What becomes of request q when the sets that decide its status change.
StatusIs(q, a, d, u, s) ==
    CASE q \in a -> "acked"
      [] q \notin a /\ q \in d -> "dropped"
      [] q \notin a \cup d /\ q \in u -> "unsent"
      [] q \notin a \cup d \cup u /\ s -> "sending"
      [] q \notin a \cup d \cup u /\ ~s -> "waiting"

LEMMA StatusValue ==
    LedgerInv => Status = [q \in Posts |-> StatusIs(q, acked, dropped, unsent, InSend(q))]
<1> SUFFICES ASSUME LedgerInv, NEW q \in Posts
             PROVE  Status[q] = StatusIs(q, acked, dropped, unsent, InSend(q))
  BY DEF Status
<1>1. unsent \cap acked = {} /\ dropped \cap unsent = {}
  BY DEF LedgerInv, Settled, OnceInv, NotYet, Handled
<1>2. InSend(q) => q \notin acked \cup dropped \cup unsent
  BY DEF LedgerInv, Settled, OnceInv, NotYet, Handled, InSend
<1>3. q \notin unsent \cup acked \cup dropped /\ ~InSend(q) =>
        q \in PostsOf(items) \/ InFlush(q)
  BY DEF LedgerInv, NothingLost
<1>4. CASE q \in acked
  BY <1>1, <1>2, <1>4 DEF Status, StatusIs
<1>5. CASE q \in dropped \ acked
  BY <1>1, <1>2, <1>5 DEF Status, StatusIs
<1>6. CASE q \in unsent
  BY <1>1, <1>2, <1>6 DEF Status, StatusIs
<1>7. CASE q \notin unsent \cup acked \cup dropped
  BY <1>1, <1>2, <1>3, <1>7 DEF Status, StatusIs
<1> QED BY <1>4, <1>5, <1>6, <1>7

LEMMA StatusNext ==
    LedgerInv' => (Status = [q \in Posts |-> StatusIs(q, acked, dropped, unsent, InSend(q))])'
BY StatusValue, PTL

\* A step keeps the invariant and takes each request a way the ledger allows.
Moved(q) ==
    LET from == StatusIs(q, acked, dropped, unsent, InSend(q))
        to   == StatusIs(q, acked', dropped', unsent', InSend(q)')
    IN  to = from \/ <<from, to>> \in Ledger!Moves

LEMMA LedgerInvInit == Init => LedgerInv
<1> SUFFICES ASSUME Init PROVE LedgerInv
  OBVIOUS
<1>1. Settled /\ InStep /\ NothingLost
  BY EmptyPosts DEF Init, Settled, InStep, NothingLost
<1> QED BY <1>1, OnceInit DEF LedgerInv

LEMMA OneThreadFlushes == OneThread => OneFlusher
BY ThreadAssumption DEF OneThread, OneFlusher

LEMMA SendLedger ==
    ASSUME OneThread, LedgerInv, NEW t \in Threads, Send(t) \/ Reply(t)
    PROVE  LedgerInv' /\ \A q \in Posts : Moved(q)
<1>1. OnceInv /\ OnceInv' /\ pc[t] # "flush" /\ Threads = {t}
  BY SendOnce DEF OneThread, LedgerInv, Send, Reply, SendRefused, SendStart, SendOk,
                  SendAuthError, SendRejected, SendRetryable
<1>2. /\ UNCHANGED <<pending, remaining>> /\ pc' \in [Threads -> {"idle", "send", "flush"}]
      /\ pending[t] = <<>> /\ remaining[t] = <<>>
      /\ body \in [Threads -> Posts \cup {NoPost}] /\ NoPost \notin Posts
      /\ items \in Seq(Item)
      /\ unsent \subseteq Posts /\ dropped \subseteq Posts /\ acked \subseteq Posts
      /\ pc \in [Threads -> {"idle", "send", "flush"}] /\ (pc[t] = "send" <=> body[t] \in Posts)
  BY <1>1, PostAssumption
     DEF OnceInv, BoundInv, TypeOK, IdleEmpty, Send, Reply, SendRefused, SendStart, SendOk,
         SendAuthError, SendRejected, SendRetryable, Returned, flushVars
<1>3. \A q : ~InFlush(q) /\ ~InFlush(q)'
  BY <1>1, <1>2, EmptyPosts DEF InFlush
<1>4. \A q : (InSend(q) <=> body[t] = q) /\ (InSend(q)' <=> body'[t] = q)
  BY <1>1 DEF InSend
<1>5. pc'[t] # "flush"
  BY <1>1, <1>2 DEF Send, Reply, SendRefused, SendStart, SendOk, SendAuthError,
                    SendRejected, SendRetryable, Returned
<1>6. InStep'
  BY <1>1, <1>5 DEF InStep
<1>7. /\ unsent \cap (acked \cup dropped \cup PostsOf(items)) = {}
      /\ body[t] \in Posts => body[t] \notin unsent \cup acked \cup dropped \cup PostsOf(items)
  BY <1>1 DEF LedgerInv, Settled, OnceInv, NotYet, Handled
<1>8. \A q \in Posts \ unsent :
        body[t] = q \/ q \in PostsOf(items) \/ q \in acked \cup dropped
  BY <1>3, <1>4 DEF LedgerInv, NothingLost
<1>9. authBlocked \/ PostsOf(items) \cap dropped = {}
  BY <1>1 DEF LedgerInv, Settled
\* With one goroutine the parts of the invariant come down to these.
<1>10. ASSUME dropped' \cap unsent' = {}, body'[t] \notin dropped',
              authBlocked' \/ PostsOf(items') \cap dropped' = {},
              \A q \in Posts \ unsent' :
                 body'[t] = q \/ q \in PostsOf(items') \/ q \in acked' \cup dropped',
              \A q \in Posts : Moved(q)
       PROVE  LedgerInv' /\ \A q \in Posts : Moved(q)
  <2>1. Settled'
    BY <1>1, <1>2, <1>10, EmptyPosts DEF Settled
  <2>2. NothingLost'
    BY <1>4, <1>10 DEF NothingLost
  <2> QED BY <1>1, <1>6, <1>10, <2>1, <2>2 DEF LedgerInv
<1>11. ASSUME NEW p \in Posts, SendRefused(t, p) \/ SendStart(t, p)
       PROVE  LedgerInv' /\ \A q \in Posts : Moved(q)
  <2>1. /\ p \in unsent /\ unsent' = unsent \ {p} /\ UNCHANGED <<items, authBlocked, acked>>
        /\ body[t] \notin Posts
        /\ \/ dropped' = dropped \cup {p} /\ UNCHANGED body /\ authBlocked
           \/ dropped' = dropped /\ body' = [body EXCEPT ![t] = p]
    BY <1>2, <1>11 DEF SendRefused, SendStart
  <2>2. \A q \in Posts : Moved(q)
    BY <1>2, <1>4, <1>7, <2>1 DEF Moved, StatusIs, Ledger!Moves
  <2> QED BY <1>2, <1>7, <1>8, <1>9, <1>10, <2>1, <2>2
<1>12. ASSUME SendOk(t) \/ SendAuthError(t) \/ SendRejected(t)
       PROVE  LedgerInv' /\ \A q \in Posts : Moved(q)
  <2>1. /\ body[t] \in Posts /\ body' = [body EXCEPT ![t] = NoPost]
        /\ UNCHANGED <<items, unsent>> /\ (authBlocked => authBlocked')
        /\ \/ acked' = acked \cup {body[t]} /\ UNCHANGED dropped
           \/ dropped' = dropped \cup {body[t]} /\ UNCHANGED acked
    BY <1>2, <1>12 DEF SendOk, SendAuthError, SendRejected, Returned
  <2>2. \A q \in Posts : Moved(q)
    BY <1>2, <1>4, <1>7, <2>1 DEF Moved, StatusIs, Ledger!Moves
  <2> QED BY <1>2, <1>7, <1>8, <1>9, <1>10, <2>1, <2>2
<1>13. ASSUME SendRetryable(t)
       PROVE  LedgerInv' /\ \A q \in Posts : Moved(q)
  <2>1. /\ body[t] \in Posts /\ body' = [body EXCEPT ![t] = NoPost]
        /\ UNCHANGED <<unsent, authBlocked, acked>>
    BY <1>2, <1>13 DEF SendRetryable, Returned
  <2>2. CASE authBlocked
    <3>1. dropped' = dropped \cup {body[t]} /\ UNCHANGED items
      BY <1>13, <2>2 DEF SendRetryable, Enqueue
    <3>2. \A q \in Posts : Moved(q)
      BY <1>2, <1>4, <1>7, <2>1, <3>1 DEF Moved, StatusIs, Ledger!Moves
    <3> QED BY <1>2, <1>7, <1>8, <1>10, <2>1, <2>2, <3>1, <3>2
  <2>3. CASE ~authBlocked
    <3> DEFINE new  == [post |-> body[t], attempts |-> 0]
               kept == MakeRoom(items)
               out  == PostsOf(items) \ PostsOf(kept)
    <3>1. items' = Append(kept, new) /\ dropped' = dropped \cup out
      BY <1>13, <2>3 DEF SendRetryable, Enqueue, EnqueueUnchecked
    <3>2. kept \in Seq(Item) /\ PostsOf(kept) \subseteq PostsOf(items)
      BY <1>1, <1>2, RoomFacts, RoomPosts DEF OnceInv, BoundInv, QueueBounded
    <3>3. PostsOf(items') = PostsOf(kept) \cup {body[t]}
      BY <2>1, <3>1, <3>2, ItemFacts, AppendPosts
    <3>4. out \cap PostsOf(items') = {} /\ out \cap (unsent \cup {body[t]}) = {}
      BY <1>7, <2>1, <3>3
    \* The request driven out was waiting; the one that failed waits now.
    <3>5. \A q \in Posts : Moved(q)
      BY <1>2, <1>4, <1>7, <1>8, <2>1, <3>1, <3>4 DEF Moved, StatusIs, Ledger!Moves
    <3>6. PostsOf(items') \cap dropped' = {}
      BY <1>7, <1>9, <2>1, <2>3, <3>1, <3>2, <3>3, <3>4
    <3>7. body'[t] \notin dropped' /\ dropped' \cap unsent' = {}
      <4>1. PostsOf(items) \subseteq Posts
        BY <1>2, ItemFacts DEF PostsOf
      <4> QED BY <1>2, <1>7, <2>1, <3>1, <4>1
    <3> QED BY <1>8, <1>10, <2>1, <3>1, <3>3, <3>5, <3>6, <3>7
  <2> QED BY <2>2, <2>3
<1> QED BY <1>11, <1>12, <1>13 DEF Send, Reply

LEMMA FlushLedger ==
    ASSUME OneThread, LedgerInv, NEW t \in Threads, FlushStart(t) \/ FlushStep(t)
    PROVE  LedgerInv' /\ \A q \in Posts : Moved(q)
<1> DEFINE item == Head(pending[t])
           rest == PostsOf(Tail(pending[t]))
           kept == PostsOf(remaining[t])
<1>1. OnceInv /\ OnceInv' /\ Threads = {t}
  BY OneThreadFlushes, FlushOnce DEF OneThread, LedgerInv
<1>2. /\ items \in Seq(Item) /\ pending[t] \in Seq(Item) /\ remaining[t] \in Seq(Item)
      /\ pending \in [Threads -> Seq(Item)] /\ remaining \in [Threads -> Seq(Item)]
      /\ pc \in [Threads -> {"idle", "send", "flush"}]
      /\ body \in [Threads -> Posts \cup {NoPost}] /\ NoPost \notin Posts
      /\ pc[t] = "send" <=> body[t] \in Posts
      /\ dropped \subseteq Posts
  BY <1>1, PostAssumption DEF OnceInv, BoundInv, TypeOK
\* The goroutine is flushing, or begins to: it is not in send, then or after.
<1>3. \A q \in Posts : ~InSend(q) /\ ~InSend(q)'
  <2>1. pc[t] # "send" /\ (UNCHANGED body \/ body' = [body EXCEPT ![t] = NoPost])
    BY DEF FlushStart, FlushStep, Attempt, FlushKeep, FlushOk, FlushAuthError,
           FlushFailed, FlushEnd, Posted, Looking, Returned
  <2> QED BY <1>1, <1>2, <2>1 DEF InSend
<1>4. /\ \A q : InFlush(q) <=> q \in PostsOf(pending[t]) \cup kept
      /\ \A q : InFlush(q)' <=> q \in PostsOf(pending'[t]) \cup PostsOf(remaining'[t])
  BY <1>1 DEF InFlush
<1>5. body[t] \notin dropped /\ body'[t] \notin Posts
  BY <1>1, <1>2, <1>3 DEF InSend, OnceInv, BoundInv, TypeOK
<1>6. /\ unsent \cap (acked \cup dropped \cup PostsOf(items)) = {}
      /\ (PostsOf(pending[t]) \cup kept) \cap (dropped \cup acked \cup unsent) = {}
  <2>1. PostsOf(pending[t]) \cup kept \subseteq Posts
    BY <1>2, ItemFacts DEF PostsOf
  <2>2. unsent \cap (acked \cup PostsOf(items) \cup PostsOf(pending[t]) \cup kept) = {}
    BY <1>1, <1>4, <2>1 DEF OnceInv, NotYet, Handled
  <2> QED BY <1>1, <2>2 DEF LedgerInv, Settled, OnceInv, Unacked
<1>7. \A q \in Posts \ unsent :
        q \in PostsOf(items) \/ q \in PostsOf(pending[t]) \cup kept \/ q \in acked \cup dropped
  BY <1>3, <1>4 DEF LedgerInv, NothingLost
<1>8. ASSUME Looking(t)
      PROVE  /\ item \in Item /\ item.post \in Posts
             /\ PostsOf(pending[t]) = {item.post} \cup rest
             /\ item.post \notin rest \cup kept
             /\ pc[t] = "flush"
  BY <1>1, <1>2, <1>8, TailPosts, HeadTail, ItemFacts
     DEF Looking, LedgerInv, OnceInv, Distinct
<1>9. ASSUME pc[t] = "flush"
      PROVE  /\ PostsOf(pending[t]) \cup kept \subseteq PostsOf(items)
             /\ PostsOf(items) \subseteq PostsOf(pending[t]) \cup kept \cup acked \cup dropped
  BY <1>9 DEF LedgerInv, InStep
<1>10. ASSUME FlushStart(t) PROVE LedgerInv' /\ \A q \in Posts : Moved(q)
  <2>1. /\ pending' = [pending EXCEPT ![t] = items] /\ ~authBlocked
        /\ pc[t] = "idle" /\ pc' = [pc EXCEPT ![t] = "flush"]
        /\ UNCHANGED <<items, authBlocked, body, remaining, unsent, acked, dropped>>
    BY <1>10 DEF FlushStart, MayFlush, history
  <2>2. PostsOf(pending[t]) = {} /\ kept = {} /\ PostsOf(items) \cap dropped = {}
    BY <1>1, <2>1, EmptyPosts DEF LedgerInv, Settled, OnceInv, BoundInv, IdleEmpty
  <2>3. \A q \in Posts : Moved(q)
    BY <1>3, <2>1 DEF Moved, StatusIs
  <2>4. Settled'
    BY <1>1, <1>2, <1>5, <1>6, <2>1, <2>2 DEF LedgerInv, Settled
  <2>5. PostsOf(pending'[t]) = PostsOf(items') /\ PostsOf(remaining'[t]) = {}
    BY <1>2, <2>1, <2>2
  <2>6. InStep'
    BY <1>1, <2>5 DEF InStep
  <2>7. NothingLost'
    BY <1>4, <1>7, <2>1, <2>2, <2>5 DEF NothingLost
  <2> QED BY <1>1, <2>3, <2>4, <2>6, <2>7 DEF LedgerInv
\* A step with one item leaves the goroutine flushing.  Either the item is kept,
\* or it is acknowledged or given up, as a waiting request may be.
<1>11. ASSUME Looking(t), Passed(t), UNCHANGED <<items, authBlocked, pc, body, unsent>>,
              \/ /\ PostsOf(remaining'[t]) = kept \cup {item.post}
                 /\ UNCHANGED <<acked, dropped>>
              \/ /\ PostsOf(remaining'[t]) = kept
                 /\ acked' = acked \cup {item.post} /\ UNCHANGED dropped
              \/ /\ PostsOf(remaining'[t]) = kept
                 /\ dropped' = dropped \cup {item.post} /\ UNCHANGED acked
       PROVE  LedgerInv' /\ \A q \in Posts : Moved(q)
  <2>1. PostsOf(pending'[t]) = rest /\ pc'[t] = "flush"
    BY <1>2, <1>8, <1>11 DEF Passed
  <2>2. \A q \in Posts : Moved(q)
    BY <1>3, <1>6, <1>8, <1>11 DEF Moved, StatusIs, Ledger!Moves
  <2>3. Settled'
    BY <1>1, <1>2, <1>5, <1>6, <1>8, <1>11, <2>1 DEF Settled, LedgerInv
  <2>4. InStep'
    BY <1>1, <1>8, <1>9, <1>11, <2>1 DEF InStep
  <2>5. NothingLost'
    BY <1>1, <1>4, <1>7, <1>8, <1>11, <2>1 DEF NothingLost
  <2> QED BY <1>1, <2>2, <2>3, <2>4, <2>5 DEF LedgerInv
<1>12. ASSUME NEW same \in Item, Keep(t, same), same.post = item.post
       PROVE  PostsOf(remaining'[t]) = kept \cup {item.post}
  BY <1>2, <1>12, AppendPosts DEF Keep
<1>13. ASSUME FlushKeep(t) PROVE LedgerInv' /\ \A q \in Posts : Moved(q)
  BY <1>8, <1>11, <1>12, <1>13 DEF FlushKeep, history
<1>14. ASSUME FlushOk(t) PROVE LedgerInv' /\ \A q \in Posts : Moved(q)
  BY <1>11, <1>14 DEF FlushOk, Posted
<1>15. ASSUME NEW r \in {"retry", "reject"}, FlushFailed(t, r)
       PROVE  LedgerInv' /\ \A q \in Posts : Moved(q)
  <2>1. /\ Looking(t) /\ Passed(t)
        /\ UNCHANGED <<items, authBlocked, pc, body, unsent, acked>>
    BY <1>15 DEF FlushFailed, Posted
  <2>2. CASE GivenUp(Counted(item), r)
    BY <1>11, <1>15, <2>1, <2>2 DEF FlushFailed
  <2>3. CASE ~GivenUp(Counted(item), r)
    <3>1. Counted(item) \in Item /\ Counted(item).post = item.post
      BY <1>8, <2>1, <2>3, CountedFacts
    <3>2. Keep(t, Counted(item)) /\ UNCHANGED dropped
      BY <1>15, <2>3 DEF FlushFailed
    <3> QED BY <1>11, <1>12, <2>1, <3>1, <3>2
  <2> QED BY <2>2, <2>3
<1>16. ASSUME FlushAuthError(t) PROVE LedgerInv' /\ \A q \in Posts : Moved(q)
  \* The queue still holds what the flush had in hand.
  <2>1. /\ pending' = [pending EXCEPT ![t] = <<>>] /\ remaining' = [remaining EXCEPT ![t] = <<>>]
        /\ authBlocked' = TRUE /\ UNCHANGED <<items, unsent, acked, dropped>>
        /\ pc[t] = "flush" /\ pc' = [pc EXCEPT ![t] = "idle"]
    BY <1>16 DEF FlushAuthError, Returned, Posted, Looking
  <2>2. PostsOf(pending'[t]) = {} /\ PostsOf(remaining'[t]) = {} /\ pc'[t] = "idle"
    BY <1>2, <2>1, EmptyPosts
  <2>3. \A q \in Posts : Moved(q)
    BY <1>3, <2>1 DEF Moved, StatusIs
  <2>4. Settled' /\ InStep' /\ NothingLost'
    BY <1>1, <1>2, <1>5, <1>6, <1>7, <1>9, <2>1, <2>2 DEF Settled, InStep, NothingLost
  <2> QED BY <1>1, <2>3, <2>4 DEF LedgerInv
<1>17. ASSUME FlushEnd(t) PROVE LedgerInv' /\ \A q \in Posts : Moved(q)
  \* What the queue held besides is settled.
  <2>1. /\ items' = remaining[t] /\ UNCHANGED <<authBlocked, pending, unsent, acked, dropped>>
        /\ remaining' = [remaining EXCEPT ![t] = <<>>] /\ pending[t] = <<>>
        /\ pc[t] = "flush" /\ pc' = [pc EXCEPT ![t] = "idle"]
    BY <1>17 DEF FlushEnd, WriteBack, Returned, history
  <2>2. /\ PostsOf(pending[t]) = {} /\ PostsOf(pending'[t]) = {}
        /\ PostsOf(remaining'[t]) = {} /\ pc'[t] = "idle"
    BY <1>2, <2>1, EmptyPosts
  <2>3. \A q \in Posts : Moved(q)
    BY <1>3, <2>1 DEF Moved, StatusIs
  <2>4. Settled' /\ InStep' /\ NothingLost'
    BY <1>1, <1>2, <1>5, <1>6, <1>7, <1>9, <2>1, <2>2 DEF Settled, InStep, NothingLost
  <2> QED BY <1>1, <2>3, <2>4 DEF LedgerInv
<1> QED
  BY <1>10, <1>13, <1>14, <1>15, <1>16, <1>17 DEF FlushStep, Attempt

LEMMA LedgerStep ==
    OneThread /\ LedgerInv /\ [Next]_vars => LedgerInv' /\ [Ledger!LedgerNext]_Status
<1> SUFFICES ASSUME OneThread, LedgerInv, [Next]_vars
             PROVE  LedgerInv' /\ [Ledger!LedgerNext]_Status
  OBVIOUS
<1>1. LedgerInv' /\ \A q \in Posts : Moved(q)
  <2>1. CASE Cancel \/ UNCHANGED vars
    <3>1. OnceInv'
      BY <2>1, OneThreadFlushes, OnceStep DEF LedgerInv, Next
    <3>2. UNCHANGED <<items, authBlocked, pc, body, pending, remaining, unsent, acked, dropped>>
      BY <2>1 DEF Cancel, vars, flushVars, history
    <3>3. LedgerInv'
      BY <3>1, <3>2 DEF LedgerInv, Settled, InStep, NothingLost, InSend, InFlush
    <3>4. \A q \in Posts : Moved(q)
      BY <3>2 DEF Moved, InSend
    <3> QED BY <3>3, <3>4
  <2> QED
    BY <2>1, SendLedger, FlushLedger DEF Next
<1>2. /\ Status = [q \in Posts |-> StatusIs(q, acked, dropped, unsent, InSend(q))]
      /\ Status' = [q \in Posts |-> StatusIs(q, acked', dropped', unsent', InSend(q)')]
  BY <1>1, StatusValue, StatusNext
<1>3. Status' \in [Posts -> Ledger!States]
  BY <1>2 DEF StatusIs, Ledger!States
<1>4. \A q \in Posts : Status'[q] = Status[q] \/ <<Status[q], Status'[q]>> \in Ledger!Moves
  BY <1>1, <1>2 DEF Moved
<1> QED BY <1>1, <1>3, <1>4 DEF Ledger!LedgerNext

\* A goroutine that has the client for itself, as a manual scan's push has,
\* keeps the promise of PostLedger: a request waits until it is acknowledged or
\* given up in the open, and no verdict is taken back (retry.go:55-118,
\* main.go:113-197).  With a second goroutine it does not (NothingLost).
THEOREM KeepsLedgerHolds ==
    ASSUME OneThread
    PROVE  Spec => KeepsLedger
<1>1. Init => LedgerInv /\ Ledger!LedgerInit
  <2>1. ASSUME Init PROVE Status = [p \in Posts |-> "unsent"]
    BY <2>1, LedgerInvInit, StatusValue DEF Init, StatusIs
  <2> QED BY <2>1, LedgerInvInit DEF Ledger!LedgerInit
<1>2. LedgerInv /\ [Next]_vars => LedgerInv' /\ [Ledger!LedgerNext]_Status
  BY LedgerStep
<1> QED
  BY <1>1, <1>2, PTL DEF Spec, KeepsLedger, Ledger!LedgerSpec

\* Then no failed request disappears, as the comment on Enqueue promises
\* (retry.go:55); the goroutine that enqueues during another's flush is what
\* breaks it.
THEOREM NothingLostAlone ==
    ASSUME OneThread
    PROVE  Spec => []NothingLost
<1>1. Init => LedgerInv
  BY LedgerInvInit
<1>2. LedgerInv /\ [Next]_vars => LedgerInv'
  BY LedgerStep
<1>3. LedgerInv => NothingLost
  BY DEF LedgerInv
<1> QED
  BY <1>1, <1>2, <1>3, PTL DEF Spec
=============================================================================
