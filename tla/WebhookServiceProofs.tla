------------------------- MODULE WebhookServiceProofs -------------------------
(***************************************************************************)
(* Proofs about WebhookService, for any number of hooks, deliveries, retries *)
(* and redeliveries.  The inductive invariant places every delivery: it says *)
(* where an unfinished one is, how many attempts it has left there, and how  *)
(* many POSTs were made for it.  It is stated over the arguments of          *)
(* ProcessQueue, which sees the queue and the records in the middle of a     *)
(* step.                                                                     *)
(***************************************************************************)
EXTENDS WebhookService, SequenceTheorems, TLAPS

Members(q) == {q[i] : i \in 1 .. Len(q)}

NoRepeats(q) == \A i, j \in 1 .. Len(q) : q[i] = q[j] => i = j

Unfinished(rec) == rec.status \in {"pending", "retrying"}

Typed(q, recs, flying, waiting, posts, again, n) ==
    /\ n \in 0 .. MaxDeliveries
    /\ recs \in [Deliveries -> Delivery]
    /\ q \in Seq(Deliveries)
    /\ flying \in SUBSET Deliveries
    /\ waiting \in SUBSET Deliveries
    /\ posts \in [Deliveries -> Nat]
    /\ again \in [Deliveries -> 0 .. MaxRedeliveries]

\* Nothing is in two places, or twice in the queue.
Apart(q, flying, waiting) ==
    /\ NoRepeats(q)
    /\ Members(q) \cap flying = {}
    /\ Members(q) \cap waiting = {}
    /\ flying \cap waiting = {}

\* A delivery that may still be posted has an attempt left.
AttemptsLeft(q, recs, flying, waiting) ==
    /\ \A d \in Members(q) : recs[d].attempts < Tries
    /\ \A d \in waiting : recs[d].attempts < Tries

\* Records beyond the created ones are untouched.
Fresh(recs, n) ==
    \A d \in Deliveries :
        /\ recs[d].status = "none" <=> d > n
        /\ recs[d].status = "none" => recs[d].attempts = 0

Budget(recs, posts, again) ==
    \A d \in Deliveries : posts[d] <= Tries * again[d] + recs[d].attempts

Placed(q, recs, flying, waiting) ==
    \A d \in Deliveries :
        Unfinished(recs[d]) <=> d \in Members(q) \cup flying \cup waiting

Good(q, recs, flying, waiting, posts, again, n) ==
    /\ Typed(q, recs, flying, waiting, posts, again, n)
    /\ Apart(q, flying, waiting)
    /\ AttemptsLeft(q, recs, flying, waiting)
    /\ Fresh(recs, n)
    /\ Budget(recs, posts, again)

Rest ==
    /\ registered \in 0 .. MaxHooks
    /\ hooks \in [Hooks -> Hook]
    /\ isProcessing \in BOOLEAN
    /\ resting \in Nat
    /\ alive \in BOOLEAN
    /\ threw \in BOOLEAN

IndInv ==
    /\ Rest
    /\ Good(queue, deliveries, inflight, timers, sent, redelivered, created)
    /\ alive => Placed(queue, deliveries, inflight, timers)
    /\ SingleLoop
    /\ IdleMeansDrained

-----------------------------------------------------------------------------
\* The arithmetic of the bounds.
LEMMA TriesPositive == Tries \in Nat /\ Tries >= 1 /\ MaxRetries <= Tries
BY WebhookAssumption DEF Tries

\* What Append does to the members of a queue.
LEMMA AppendMembers ==
    ASSUME NEW S, NEW q \in Seq(S), NEW e \in S
    PROVE  /\ Append(q, e) \in Seq(S)
           /\ Members(Append(q, e)) = Members(q) \cup {e}
           /\ (NoRepeats(q) /\ e \notin Members(q)) => NoRepeats(Append(q, e))
<1> DEFINE r == Append(q, e)
<1>1. /\ r \in Seq(S)
      /\ Len(r) = Len(q) + 1
      /\ \A i \in 1 .. Len(q) : r[i] = q[i]
      /\ r[Len(q) + 1] = e
  BY AppendProperties
<1>2. Len(q) \in Nat
  BY LenProperties
<1>3. Members(r) \subseteq Members(q) \cup {e}
  BY <1>1, <1>2 DEF Members
<1>4. Members(q) \subseteq Members(r)
  <2> SUFFICES ASSUME NEW i \in 1 .. Len(q) PROVE q[i] \in Members(r)
    BY DEF Members
  <2> i \in 1 .. Len(r) /\ r[i] = q[i]
    BY <1>1, <1>2
  <2> QED BY DEF Members
<1>5. e \in Members(r)
  <2> Len(q) + 1 \in 1 .. Len(r)
    BY <1>1, <1>2
  <2> QED BY <1>1 DEF Members
<1>6. ASSUME NoRepeats(q), e \notin Members(q)
      PROVE  NoRepeats(r)
  <2> SUFFICES ASSUME NEW i \in 1 .. Len(r), NEW j \in 1 .. Len(r), r[i] = r[j]
               PROVE  i = j
    BY DEF NoRepeats
  <2>1. CASE i \in 1 .. Len(q) /\ j \in 1 .. Len(q)
    BY <2>1, <1>1, <1>6 DEF NoRepeats
  <2>2. CASE i = Len(q) + 1 /\ j = Len(q) + 1
    BY <2>2
  <2>3. CASE i \in 1 .. Len(q) /\ j = Len(q) + 1
    <3> q[i] = e
      BY <2>3, <1>1
    <3> QED BY <2>3, <1>6 DEF Members
  <2>4. CASE i = Len(q) + 1 /\ j \in 1 .. Len(q)
    <3> q[j] = e
      BY <2>4, <1>1
    <3> QED BY <2>4, <1>6 DEF Members
  <2> QED BY <2>1, <2>2, <2>3, <2>4, <1>1, <1>2
<1> HIDE DEF r
<1>7. Members(r) = Members(q) \cup {e}
  BY <1>3, <1>4, <1>5
<1> QED BY <1>1, <1>6, <1>7 DEF r

\* What shift() takes from a queue, and what it leaves.
LEMMA TailMembers ==
    ASSUME NEW S, NEW q \in Seq(S), q # <<>>, NoRepeats(q)
    PROVE  /\ Tail(q) \in Seq(S)
           /\ Head(q) \in S
           /\ Head(q) \in Members(q)
           /\ Members(Tail(q)) = Members(q) \ {Head(q)}
           /\ NoRepeats(Tail(q))
<1> DEFINE r == Tail(q)
<1>1. /\ Head(q) \in S
      /\ r \in Seq(S)
      /\ Len(r) = Len(q) - 1
      /\ \A i \in 1 .. Len(r) : r[i] = q[i + 1]
      /\ Head(q) = q[1]
  BY HeadTailProperties
<1>2. Len(q) \in Nat /\ Len(q) >= 1
  BY EmptySeq, LenProperties
<1>3. Head(q) \in Members(q)
  <2> 1 \in 1 .. Len(q)
    BY <1>2
  <2> QED BY <1>1 DEF Members
<1>4. \A i \in 1 .. Len(r) : i + 1 \in 1 .. Len(q) /\ i + 1 # 1
  BY <1>1, <1>2
<1>5. Members(r) \subseteq Members(q) \ {Head(q)}
  <2> SUFFICES ASSUME NEW i \in 1 .. Len(r)
               PROVE  r[i] \in Members(q) /\ r[i] # Head(q)
    BY DEF Members
  <2>1. r[i] = q[i + 1] /\ i + 1 \in 1 .. Len(q) /\ i + 1 # 1 /\ 1 \in 1 .. Len(q)
    BY <1>1, <1>2, <1>4
  <2> QED BY <2>1, <1>1 DEF Members, NoRepeats
<1>6. Members(q) \ {Head(q)} \subseteq Members(r)
  <2> SUFFICES ASSUME NEW i \in 1 .. Len(q), q[i] # Head(q)
               PROVE  q[i] \in Members(r)
    BY DEF Members
  <2>1. i # 1
    BY <1>1
  <2>2. i - 1 \in 1 .. Len(r) /\ (i - 1) + 1 = i
    BY <2>1, <1>1, <1>2
  <2>3. r[i - 1] = q[i]
    BY <2>2, <1>1
  <2> HIDE DEF r
  <2> QED BY <2>2, <2>3 DEF Members
<1>7. NoRepeats(r)
  <2> SUFFICES ASSUME NEW i \in 1 .. Len(r), NEW j \in 1 .. Len(r), r[i] = r[j]
               PROVE  i = j
    BY DEF NoRepeats
  <2>1. q[i + 1] = q[j + 1] /\ i + 1 \in 1 .. Len(q) /\ j + 1 \in 1 .. Len(q)
    BY <1>1, <1>4
  <2>2. i + 1 = j + 1
    BY <2>1 DEF NoRepeats
  <2> QED BY <2>2, <1>1, <1>2
<1> HIDE DEF r
<1>8. Members(r) = Members(q) \ {Head(q)}
  BY <1>5, <1>6
<1> QED BY <1>1, <1>3, <1>7, <1>8 DEF r

-----------------------------------------------------------------------------
\* Moving one delivery's record: its status, and the attempt counted with it.
LEMMA StatusMoves ==
    ASSUME NEW recs \in [Deliveries -> Delivery], NEW d \in Deliveries,
           NEW s \in DeliveryStatus
    PROVE  /\ Marked(recs, d, s) \in [Deliveries -> Delivery]
           /\ Marked(recs, d, s)[d].attempts = recs[d].attempts
           /\ Marked(recs, d, s)[d].status = s
           /\ \A e \in Deliveries \ {d} : Marked(recs, d, s)[e] = recs[e]
<1>1. recs[d] \in Delivery
  OBVIOUS
<1>2. [recs[d] EXCEPT !.status = s] \in Delivery
  BY <1>1 DEF Delivery
<1> QED BY <1>1, <1>2 DEF Delivery, Marked

LEMMA AttemptCounted ==
    ASSUME NEW recs \in [Deliveries -> Delivery], NEW d \in Deliveries,
           recs[d].attempts < Tries
    PROVE  /\ Attempted(recs, d) \in [Deliveries -> Delivery]
           /\ Attempted(recs, d)[d].attempts = recs[d].attempts + 1
           /\ Attempted(recs, d)[d].status = "retrying"
           /\ \A e \in Deliveries \ {d} : Attempted(recs, d)[e] = recs[e]
<1> DEFINE new == Attempted(recs, d)
           tried == [recs[d] EXCEPT !.status = "retrying", !.attempts = @ + 1]
<1>1. recs[d] \in Delivery
  OBVIOUS
<1>2. recs[d].attempts \in 0 .. Tries /\ recs[d].attempts + 1 \in 0 .. Tries
  BY <1>1, TriesPositive DEF Delivery
<1>3. tried \in Delivery
  BY <1>1, <1>2 DEF Delivery, DeliveryStatus
<1>4. new = [recs EXCEPT ![d] = tried]
  BY <1>1 DEF Delivery, Attempted
<1>5. new[d] = tried /\ \A e \in Deliveries \ {d} : new[e] = recs[e]
  BY <1>4
<1>6. new \in [Deliveries -> Delivery]
  BY <1>3, <1>4
<1>7. new[d].attempts = recs[d].attempts + 1 /\ new[d].status = "retrying"
  BY <1>1, <1>5 DEF Delivery
<1> QED BY <1>5, <1>6, <1>7

LEMMA RecordReopened ==
    ASSUME NEW recs \in [Deliveries -> Delivery], NEW d \in Deliveries
    PROVE  /\ Reopened(recs, d) \in [Deliveries -> Delivery]
           /\ Reopened(recs, d)[d].attempts = 0
           /\ Reopened(recs, d)[d].status = "pending"
           /\ \A e \in Deliveries \ {d} : Reopened(recs, d)[e] = recs[e]
<1> DEFINE new == Reopened(recs, d)
           fresh == [recs[d] EXCEPT !.status = "pending", !.attempts = 0]
<1>1. recs[d] \in Delivery
  OBVIOUS
<1>2. fresh \in Delivery
  <2>1. 0 \in 0 .. Tries /\ "pending" \in DeliveryStatus
    BY TriesPositive DEF DeliveryStatus
  <2> QED BY <1>1, <2>1 DEF Delivery
<1>3. new = [recs EXCEPT ![d] = fresh]
  BY <1>1 DEF Delivery, Reopened
<1>4. new[d] = fresh /\ \A e \in Deliveries \ {d} : new[e] = recs[e]
  BY <1>3
<1>5. new[d].attempts = 0 /\ new[d].status = "pending"
  BY <1>1, <1>4 DEF Delivery
<1>6. new \in [Deliveries -> Delivery]
  BY <1>2, <1>3
<1> QED BY <1>4, <1>5, <1>6

\* The one step of the loop keeps the invariant, whatever the rest of the step
\* has done to the queue, the records and the timers before it.
LEMMA ProcessQueueKeeps ==
    ASSUME NEW q, NEW recs,
           Rest, alive, inflight = {},
           Good(q, recs, inflight, timers', sent, redelivered', created'),
           Placed(q, recs, inflight, timers'),
           ProcessQueue(q, recs, 0),
           hooks' \in [Hooks -> Hook], registered' \in 0 .. MaxHooks, threw' \in BOOLEAN
    PROVE  IndInv'
<1> USE DEF Good
<1>0. /\ q \in Seq(Deliveries) /\ recs \in [Deliveries -> Delivery]
      /\ NoRepeats(q)
      /\ timers' \in SUBSET Deliveries
      /\ created' \in 0 .. MaxDeliveries
      /\ sent \in [Deliveries -> Nat]
      /\ redelivered' \in [Deliveries -> 0 .. MaxRedeliveries]
  BY DEF Typed, Apart
<1>m. Members(q) \subseteq Deliveries
  BY <1>0 DEF Members
<1>1. CASE q = <<>>
  <2>1. /\ isProcessing' = FALSE /\ queue' = q /\ deliveries' = recs /\ resting' = 0
        /\ inflight' = {} /\ alive' = alive /\ sent' = sent
    BY <1>1 DEF ProcessQueue
  <2>2. Rest'
    BY <2>1 DEF Rest
  <2>3. Good(queue, deliveries, inflight, timers, sent, redelivered, created)'
    BY <2>1
  <2>4. Placed(queue, deliveries, inflight, timers)'
    BY <2>1
  <2>5. SingleLoop' /\ IdleMeansDrained'
    BY <2>1, <1>1 DEF SingleLoop, IdleMeansDrained
  <2> QED BY <2>2, <2>3, <2>4, <2>5 DEF IndInv
<1>2. CASE q # <<>>
  <2> DEFINE d == Head(q)
  <2>1. /\ isProcessing' = TRUE /\ queue' = Tail(q) /\ ProcessDelivery(d, recs, 0)
    BY <1>2 DEF ProcessQueue
  <2>2. /\ queue' \in Seq(Deliveries) /\ d \in Deliveries /\ d \in Members(q)
        /\ Members(queue') = Members(q) \ {d} /\ NoRepeats(queue')
    BY <1>0, <1>2, <2>1, TailMembers
  <2> HIDE DEF d
  <2>3. /\ d \notin timers' /\ Unfinished(recs[d]) /\ recs[d].attempts < Tries
        /\ recs[d].status # "none"
    BY <2>2 DEF Apart, AttemptsLeft, Placed, Unfinished
  <2>4. recs[d].attempts \in 0 .. Tries /\ recs[d].attempts + 1 \in 0 .. Tries
    BY <1>0, <2>2, <2>3, TriesPositive DEF Delivery
  <2>5. CASE SkipInactive(d, recs, 0)
    <3>1. /\ deliveries' = Marked(recs, d, "failed")
          /\ resting' = 1 /\ inflight' = {} /\ alive' = alive /\ sent' = sent
      BY <2>5 DEF SkipInactive
    <3>2. /\ deliveries' \in [Deliveries -> Delivery]
          /\ deliveries'[d].attempts = recs[d].attempts
          /\ deliveries'[d].status = "failed"
          /\ \A e \in Deliveries \ {d} : deliveries'[e] = recs[e]
      <4>1. "failed" \in DeliveryStatus
        BY DEF DeliveryStatus
      <4> QED BY <3>1, <1>0, <2>2, <4>1, StatusMoves
    <3>3. Rest'
      BY <2>1, <3>1 DEF Rest
    <3>4. Typed(queue, deliveries, inflight, timers, sent, redelivered, created)'
      BY <1>0, <2>2, <3>1, <3>2 DEF Typed
    <3>5. Apart(queue, inflight, timers)'
      BY <2>2, <3>1 DEF Apart
    <3>6. AttemptsLeft(queue, deliveries, inflight, timers)'
      <4>1. \A e \in Members(queue') \cup timers' :
                recs[e].attempts < Tries /\ e \in Deliveries \ {d}
        BY <1>0, <1>m, <2>2, <2>3 DEF AttemptsLeft
      <4> QED BY <4>1, <3>2 DEF AttemptsLeft
    <3>7. Fresh(deliveries, created)'
      BY <2>2, <2>3, <3>2 DEF Fresh
    <3>8. Budget(deliveries, sent, redelivered)'
      BY <2>2, <3>1, <3>2 DEF Budget
    <3>9. Placed(queue, deliveries, inflight, timers)'
      BY <2>2, <2>3, <3>1, <3>2 DEF Placed, Unfinished
    <3>10. SingleLoop' /\ IdleMeansDrained'
      BY <2>1, <3>1 DEF SingleLoop, IdleMeansDrained
    <3> QED BY <3>3, <3>4, <3>5, <3>6, <3>7, <3>8, <3>9, <3>10 DEF IndInv
  <2>6. CASE Post(d, recs, 0) \/ SignatureThrows(d, recs, 0)
    <3>0. \/ /\ inflight' = {d} /\ alive' = alive
             /\ sent' = [sent EXCEPT ![d] = @ + 1]
          \/ /\ inflight' = {} /\ alive' = FALSE /\ sent' = sent
      BY <2>6 DEF Post, SignatureThrows
    <3>1. /\ deliveries' = Attempted(recs, d)
          /\ resting' = 0
      BY <2>6 DEF Post, SignatureThrows
    <3>2. /\ deliveries' \in [Deliveries -> Delivery]
          /\ deliveries'[d].attempts = recs[d].attempts + 1
          /\ deliveries'[d].status = "retrying"
          /\ \A e \in Deliveries \ {d} : deliveries'[e] = recs[e]
      BY <3>1, <1>0, <2>2, <2>3, AttemptCounted
    <3>3. Rest'
      BY <2>1, <3>0, <3>1 DEF Rest
    <3>a. /\ sent' \in [Deliveries -> Nat] /\ inflight' \in SUBSET {d}
          /\ \A e \in Deliveries \ {d} : sent'[e] = sent[e]
          /\ sent'[d] \in {sent[d], sent[d] + 1}
      <4>1. CASE sent' = sent /\ inflight' = {}
        BY <4>1, <1>0, <2>2
      <4>2. CASE sent' = [sent EXCEPT ![d] = @ + 1] /\ inflight' = {d}
        BY <4>2, <1>0, <2>2
      <4> QED BY <4>1, <4>2, <3>0
    <3>4. Typed(queue, deliveries, inflight, timers, sent, redelivered, created)'
      BY <1>0, <2>2, <3>2, <3>a DEF Typed
    <3>5. Apart(queue, inflight, timers)'
      BY <2>2, <2>3, <3>a DEF Apart
    <3>6. AttemptsLeft(queue, deliveries, inflight, timers)'
      <4>1. \A e \in Members(queue') \cup timers' :
                recs[e].attempts < Tries /\ e \in Deliveries \ {d}
        BY <1>0, <1>m, <2>2, <2>3 DEF AttemptsLeft
      <4> QED BY <4>1, <3>2 DEF AttemptsLeft
    <3>7. Fresh(deliveries, created)'
      BY <2>2, <2>3, <3>2 DEF Fresh
    <3>8. Budget(deliveries, sent, redelivered)'
      <4> SUFFICES ASSUME NEW e \in Deliveries
                   PROVE  sent'[e] <= Tries * redelivered'[e] + deliveries'[e].attempts
        BY DEF Budget
      <4>1. sent[e] <= Tries * redelivered'[e] + recs[e].attempts
        BY DEF Budget
      <4>2. CASE e # d
        BY <4>1, <4>2, <3>2, <3>a
      <4>3. CASE e = d
        <5>1. Tries * redelivered'[d] \in Nat
          BY <1>0, <2>2, TriesPositive, WebhookAssumption
        <5> QED BY <4>1, <4>3, <3>2, <3>a, <2>4, <5>1, <1>0, <2>2
      <4> QED BY <4>2, <4>3
    <3>9. alive' => Placed(queue, deliveries, inflight, timers)'
      BY <2>2, <2>3, <3>0, <3>2 DEF Placed, Unfinished
    <3>10. SingleLoop' /\ IdleMeansDrained'
      <4>1. CASE inflight' = {d}
        BY <2>1, <4>1, <3>1 DEF SingleLoop, IdleMeansDrained
      <4>2. CASE alive' = FALSE
        BY <4>2 DEF SingleLoop, IdleMeansDrained
      <4> QED BY <4>1, <4>2, <3>0
    <3> QED BY <3>3, <3>4, <3>5, <3>6, <3>7, <3>8, <3>9, <3>10 DEF IndInv
  <2> QED BY <2>1, <2>5, <2>6 DEF ProcessDelivery
<1> QED BY <1>1, <1>2

\* Queueing and waking keep it too.
LEMMA WakeKeeps ==
    ASSUME NEW q, NEW recs,
           IndInv, alive,
           Good(q, recs, inflight, timers', sent, redelivered', created'),
           Placed(q, recs, inflight, timers'),
           Wake(q, recs),
           hooks' \in [Hooks -> Hook], registered' \in 0 .. MaxHooks, threw' \in BOOLEAN
    PROVE  IndInv'
<1>1. CASE ~isProcessing
  <2>1. inflight = {} /\ resting = 0
    BY <1>1 DEF IndInv, Rest, SingleLoop
  <2>2. ProcessQueue(q, recs, 0)
    BY <1>1, <2>1 DEF Wake
  <2> QED BY <2>1, <2>2, ProcessQueueKeeps DEF IndInv
<1>2. CASE isProcessing
  <2>1. /\ queue' = q /\ deliveries' = recs /\ isProcessing' = isProcessing
        /\ inflight' = inflight /\ resting' = resting /\ alive' = alive /\ sent' = sent
    BY <1>2 DEF Wake
  <2>2. Rest'
    BY <2>1 DEF IndInv, Rest
  <2>3. Good(queue, deliveries, inflight, timers, sent, redelivered, created)'
    BY <2>1
  <2>4. Placed(queue, deliveries, inflight, timers)'
    BY <2>1
  <2>5. SingleLoop' /\ IdleMeansDrained'
    BY <2>1, <1>2 DEF IndInv, SingleLoop, IdleMeansDrained
  <2> QED BY <2>2, <2>3, <2>4, <2>5 DEF IndInv
<1> QED BY <1>1, <1>2

-----------------------------------------------------------------------------
\* The records and the queue after a batch of deliveries is created.
LEMMA BatchKeeps ==
    ASSUME IndInv, alive, NEW f \in Batches, Subscribers(f), created' = created + Len(f)
    PROVE  /\ Good(QueueBatch(f), WithBatch(f), inflight, timers, sent, redelivered,
                   created')
           /\ Placed(QueueBatch(f), WithBatch(f), inflight, timers)
<1> DEFINE n == Len(f)
           b == [i \in 1 .. n |-> created + i]
           q == QueueBatch(f)
           recs == WithBatch(f)
           new == created + 1 .. created + n
<1>1. PICK k \in 0 .. MaxHooks : f \in [1 .. k -> Hooks]
  BY DEF Batches
<1>2. n = k /\ n \in Nat
  BY <1>1
<1>3. /\ created \in 0 .. MaxDeliveries /\ deliveries \in [Deliveries -> Delivery]
      /\ queue \in Seq(Deliveries) /\ hooks \in [Hooks -> Hook]
      /\ inflight \in SUBSET Deliveries /\ timers \in SUBSET Deliveries
      /\ sent \in [Deliveries -> Nat] /\ redelivered \in [Deliveries -> 0 .. MaxRedeliveries]
  BY DEF IndInv, Good, Typed, Rest
<1>4. created' \in 0 .. MaxDeliveries /\ created' = created + n
  BY <1>2, <1>3, WebhookAssumption DEF Subscribers
<1>5. new \subseteq Deliveries
  BY <1>2, <1>3, WebhookAssumption DEF Subscribers, Deliveries
<1>6. /\ Members(queue) \subseteq Deliveries
      /\ \A d \in Members(queue) \cup inflight \cup timers : d <= created
  <2>1. Members(queue) \subseteq Deliveries
    BY <1>3 DEF Members
  <2>2. \A d \in Members(queue) \cup inflight \cup timers :
            d \in Deliveries /\ deliveries[d].status # "none"
    BY <1>3, <2>1 DEF IndInv, Placed, Unfinished
  <2> QED BY <1>3, <2>1, <2>2 DEF IndInv, Good, Fresh, Deliveries
<1>7. /\ b \in Seq(Deliveries) /\ Len(b) = n
      /\ \A i \in 1 .. n : b[i] = created + i
  <2>1. \A i \in 1 .. n : created + i \in Deliveries
    BY <1>2, <1>3, <1>5
  <2>2. b \in [1 .. n -> Deliveries]
    BY <2>1
  <2> QED BY <1>2, <2>2
<1>8. /\ q \in Seq(Deliveries) /\ Len(q) = Len(queue) + n
      /\ \A i \in 1 .. Len(queue) : q[i] = queue[i]
      /\ \A i \in 1 .. Len(q) : i > Len(queue) => q[i] = created + (i - Len(queue))
  <2> HIDE DEF b
  <2>1. q = queue \o b
    BY DEF QueueBatch, b, q
  <2> HIDE DEF q
  <2>2. /\ q \in Seq(Deliveries) /\ Len(q) = Len(queue) + Len(b)
        /\ \A i \in 1 .. Len(queue) + Len(b) :
              q[i] = IF i <= Len(queue) THEN queue[i] ELSE b[i - Len(queue)]
    BY <1>3, <1>7, <2>1, ConcatProperties, Zenon
  <2>3. Len(queue) \in Nat
    BY <1>3, LenProperties
  <2> QED BY <1>2, <1>7, <2>2, <2>3
<1>len. Len(queue) \in Nat
  BY <1>3, LenProperties
<1> HIDE DEF b, q
<1>9. Members(q) = Members(queue) \cup new
  <2>1. Members(q) \subseteq Members(queue) \cup new
    <3> SUFFICES ASSUME NEW i \in 1 .. Len(q) PROVE q[i] \in Members(queue) \cup new
      BY DEF Members
    <3>1. CASE i <= Len(queue)
      BY <3>1, <1>8, <1>len DEF Members
    <3>2. CASE i > Len(queue)
      BY <3>2, <1>2, <1>3, <1>8, <1>len
    <3> QED BY <3>1, <3>2, <1>8, <1>2, <1>len
  <2>2. Members(queue) \subseteq Members(q)
    <3> SUFFICES ASSUME NEW i \in 1 .. Len(queue) PROVE queue[i] \in Members(q)
      BY DEF Members
    <3> i \in 1 .. Len(q) /\ q[i] = queue[i]
      BY <1>2, <1>8, <1>len
    <3> QED BY DEF Members
  <2>3. new \subseteq Members(q)
    <3> SUFFICES ASSUME NEW d \in new PROVE d \in Members(q)
      OBVIOUS
    <3> DEFINE i == Len(queue) + (d - created)
    <3>1. i \in 1 .. Len(q) /\ i > Len(queue) /\ created + (i - Len(queue)) = d
      BY <1>2, <1>3, <1>8, <1>len
    <3>2. q[i] = d
      BY <3>1, <1>8
    <3> HIDE DEF i
    <3> QED BY <3>1, <3>2 DEF Members
  <2> QED BY <2>1, <2>2, <2>3
<1>10. NoRepeats(q)
  <2> SUFFICES ASSUME NEW i \in 1 .. Len(q), NEW j \in 1 .. Len(q), q[i] = q[j]
               PROVE  i = j
    BY DEF NoRepeats
  <2>0. \A m \in 1 .. Len(queue) : queue[m] \in Members(queue) /\ queue[m] <= created
    BY <1>6 DEF Members
  <2>1. CASE i <= Len(queue) /\ j <= Len(queue)
    BY <2>1, <1>8, <1>len DEF IndInv, Good, Apart, NoRepeats
  <2>2. CASE i > Len(queue) /\ j > Len(queue)
    BY <2>2, <1>8, <1>len, <1>3, <1>2
  <2>5. \A m \in 1 .. Len(q) : m <= Len(queue) => q[m] <= created
    <3> SUFFICES ASSUME NEW m \in 1 .. Len(q), m <= Len(queue) PROVE q[m] <= created
      OBVIOUS
    <3>1. m \in 1 .. Len(queue)
      BY <1>len
    <3> QED BY <3>1, <2>0, <1>8
  <2>6. \A m \in 1 .. Len(q) : m > Len(queue) => q[m] > created /\ q[m] \in Nat
    <3> SUFFICES ASSUME NEW m \in 1 .. Len(q), m > Len(queue)
                 PROVE  q[m] > created /\ q[m] \in Nat
      OBVIOUS
    <3>1. q[m] = created + (m - Len(queue))
      BY <1>8
    <3> QED BY <3>1, <1>3, <1>len
  <2>3. CASE i <= Len(queue) /\ j > Len(queue)
    <3>1. q[i] <= created
      BY <2>3, <2>5
    <3>2. q[j] > created /\ q[j] \in Nat
      BY <2>3, <2>6
    <3>3. q[j] <= created
      BY <3>1
    <3> QED BY <3>2, <3>3, <1>3
  <2>4. CASE i > Len(queue) /\ j <= Len(queue)
    <3>1. q[j] <= created
      BY <2>4, <2>5
    <3>2. q[i] > created /\ q[i] \in Nat
      BY <2>4, <2>6
    <3>3. q[i] <= created
      BY <3>1
    <3> QED BY <3>2, <3>3, <1>3
  <2>7. /\ i <= Len(queue) \/ i > Len(queue)
        /\ j <= Len(queue) \/ j > Len(queue)
    <3>1. Len(q) \in Nat
      BY <1>2, <1>8, <1>len
    <3> QED BY <3>1, <1>len
  <2> QED BY <2>1, <2>2, <2>3, <2>4, <2>7
<1>11. \A d \in Deliveries :
          /\ d \in new => /\ recs[d].status = "pending" /\ recs[d].attempts = 0
                          /\ recs[d] \in Delivery
          /\ d \notin new => recs[d] = deliveries[d]
  <2> SUFFICES ASSUME NEW d \in Deliveries, d \in new
               PROVE  /\ recs[d].status = "pending" /\ recs[d].attempts = 0
                      /\ recs[d] \in Delivery
    BY DEF WithBatch
  <2>1. d - created \in 1 .. k
    BY <1>2, <1>3
  <2>2. hooks[f[d - created]].id \in Hooks \cup {UnknownId}
    BY <1>1, <1>3, <2>1 DEF Hook
  <2>3. recs[d] = [hook |-> hooks[f[d - created]].id, status |-> "pending", attempts |-> 0]
    BY DEF WithBatch
  <2>4. 0 \in 0 .. Tries /\ "pending" \in DeliveryStatus
    BY TriesPositive DEF DeliveryStatus
  <2> QED BY <2>2, <2>3, <2>4 DEF Delivery
<1>12. recs \in [Deliveries -> Delivery]
  <2>1. \A d \in Deliveries : recs[d] \in Delivery
    BY <1>3, <1>11
  <2> QED BY <2>1 DEF WithBatch
<1> HIDE DEF recs
<1>13. \A d \in new : /\ d > created /\ d <= created' /\ d \in Deliveries
                      /\ deliveries[d].status = "none"
                      /\ d \notin Members(queue) \cup inflight \cup timers
  BY <1>2, <1>3, <1>4, <1>5, <1>6 DEF IndInv, Good, Fresh
<1>14. Apart(q, inflight, timers)
  BY <1>9, <1>10, <1>13 DEF IndInv, Good, Apart
<1>15. AttemptsLeft(q, recs, inflight, timers)
  <2> SUFFICES ASSUME NEW d \in Members(q) \cup timers PROVE recs[d].attempts < Tries
    BY DEF AttemptsLeft
  <2>1. d \in Deliveries
    BY <1>3, <1>5, <1>6, <1>9
  <2>2. CASE d \in new
    BY <2>1, <2>2, <1>11, TriesPositive
  <2>3. CASE d \notin new
    BY <2>1, <2>3, <1>9, <1>11 DEF IndInv, Good, AttemptsLeft
  <2> QED BY <2>2, <2>3
<1>16. Fresh(recs, created')
  <2> SUFFICES ASSUME NEW d \in Deliveries
               PROVE  /\ recs[d].status = "none" <=> d > created'
                      /\ recs[d].status = "none" => recs[d].attempts = 0
    BY DEF Fresh
  <2>1. CASE d \in new
    BY <2>1, <1>11, <1>13, <1>4
  <2>2. CASE d \notin new
    <3>1. /\ deliveries[d].status = "none" <=> d > created
          /\ deliveries[d].status = "none" => deliveries[d].attempts = 0
      BY DEF IndInv, Good, Fresh
    <3>2. d > created <=> d > created'
      BY <2>2, <1>2, <1>3, <1>4 DEF Deliveries
    <3> QED BY <2>2, <3>1, <3>2, <1>11
  <2> QED BY <2>1, <2>2
<1>17. Budget(recs, sent, redelivered)
  <2> SUFFICES ASSUME NEW d \in Deliveries
               PROVE  sent[d] <= Tries * redelivered[d] + recs[d].attempts
    BY DEF Budget
  <2>0. sent[d] <= Tries * redelivered[d] + deliveries[d].attempts
    BY DEF IndInv, Good, Budget
  <2>1. CASE d \in new
    BY <2>0, <2>1, <1>11, <1>13 DEF IndInv, Good, Fresh
  <2>2. CASE d \notin new
    BY <2>0, <2>2, <1>11
  <2> QED BY <2>1, <2>2
<1>18. Placed(q, recs, inflight, timers)
  <2> SUFFICES ASSUME NEW d \in Deliveries
               PROVE  Unfinished(recs[d]) <=> d \in Members(q) \cup inflight \cup timers
    BY DEF Placed
  <2>1. CASE d \in new
    BY <2>1, <1>9, <1>11 DEF Unfinished
  <2>2. CASE d \notin new
    BY <2>2, <1>9, <1>11 DEF IndInv, Placed
  <2> QED BY <2>1, <2>2
<1> QED BY <1>3, <1>4, <1>8, <1>12, <1>14, <1>15, <1>16, <1>17, <1>18
        DEF Good, Typed, q, recs

-----------------------------------------------------------------------------
\* One lemma per kind of step.
LEMMA InitGood == Init => IndInv
<1> SUFFICES ASSUME Init PROVE IndInv
  OBVIOUS
<1> USE DEF Init
<1>1. Members(queue) = {} /\ NoRepeats(queue)
  BY DEF Members, NoRepeats
<1>2. Rest
  <2>1. hooks \in [Hooks -> Hook]
    BY DEF Hook, HookStatus
  <2>2. registered \in 0 .. MaxHooks /\ resting \in Nat
    BY WebhookAssumption
  <2> QED BY <2>1, <2>2 DEF Rest
<1>3. Typed(queue, deliveries, inflight, timers, sent, redelivered, created)
  <2>1. 0 \in 0 .. Tries /\ 0 \in 0 .. MaxRedeliveries /\ 0 \in 0 .. MaxDeliveries
    BY TriesPositive, WebhookAssumption
  <2>2. deliveries \in [Deliveries -> Delivery]
    BY <2>1 DEF Delivery, DeliveryStatus
  <2> QED BY <2>1, <2>2 DEF Typed
<1>4. Apart(queue, inflight, timers) /\ AttemptsLeft(queue, deliveries, inflight, timers)
  BY <1>1 DEF Apart, AttemptsLeft
<1>5. Fresh(deliveries, created)
  BY DEF Fresh, Deliveries
<1>6. Budget(deliveries, sent, redelivered)
  BY TriesPositive DEF Budget
<1>7. Placed(queue, deliveries, inflight, timers)
  BY <1>1 DEF Placed, Unfinished
<1>8. SingleLoop /\ IdleMeansDrained
  BY DEF SingleLoop, IdleMeansDrained
<1> QED BY <1>2, <1>3, <1>4, <1>5, <1>6, <1>7, <1>8 DEF IndInv, Good

\* The hooks are no part of the invariant's argument.
LEMMA HookStep ==
    ASSUME IndInv,
           (\E ok \in BOOLEAN : RegisterWebhook(ok))
               \/ \E h \in Hooks : UpdateWebhook(h) \/ DeleteWebhook(h)
    PROVE  IndInv'
<1>1. /\ UNCHANGED <<queueVars, alive, history>>
      /\ hooks' \in [Hooks -> Hook] /\ registered' \in 0 .. MaxHooks
  <2>0. hooks \in [Hooks -> Hook] /\ registered \in 0 .. MaxHooks
    BY DEF IndInv, Rest
  <2>1. ASSUME NEW ok \in BOOLEAN, RegisterWebhook(ok)
        PROVE  /\ UNCHANGED <<queueVars, alive, history>>
               /\ hooks' \in [Hooks -> Hook] /\ registered' \in 0 .. MaxHooks
    <3> DEFINE h == registered + 1
    <3>1. h \in Hooks /\ registered' = h /\ h \in 0 .. MaxHooks
      BY <2>0, <2>1, WebhookAssumption DEF RegisterWebhook, Hooks
    <3>2. hooks' = [hooks EXCEPT ![h].status = "active", ![h].signs = ok]
      BY <2>1 DEF RegisterWebhook
    <3>3. UNCHANGED <<queueVars, alive, history>>
      BY <2>1 DEF RegisterWebhook
    <3> HIDE DEF h
    <3>4. hooks' \in [Hooks -> Hook]
      BY <2>0, <3>1, <3>2 DEF Hook, HookStatus
    <3> QED BY <3>1, <3>3, <3>4
  <2>2. ASSUME NEW h \in Hooks, UpdateWebhook(h)
        PROVE  /\ UNCHANGED <<queueVars, alive, history>>
               /\ hooks' \in [Hooks -> Hook] /\ registered' \in 0 .. MaxHooks
    BY <2>0, <2>2 DEF UpdateWebhook, Hook, HookStatus
  <2>3. ASSUME NEW h \in Hooks, DeleteWebhook(h)
        PROVE  /\ UNCHANGED <<queueVars, alive, history>>
               /\ hooks' \in [Hooks -> Hook] /\ registered' \in 0 .. MaxHooks
    BY <2>0, <2>3 DEF DeleteWebhook, Hook, HookStatus
  <2> QED BY <2>1, <2>2, <2>3
<1>2. Rest'
  BY <1>1 DEF IndInv, Rest, queueVars, history
<1>3. Good(queue, deliveries, inflight, timers, sent, redelivered, created)'
  BY <1>1 DEF IndInv, queueVars, history
<1>4. alive' => Placed(queue, deliveries, inflight, timers)'
  BY <1>1 DEF IndInv, queueVars
<1>5. SingleLoop' /\ IdleMeansDrained'
  BY <1>1 DEF IndInv, SingleLoop, IdleMeansDrained, queueVars, history
<1> QED BY <1>2, <1>3, <1>4, <1>5 DEF IndInv

LEMMA TriggerStep ==
    ASSUME IndInv, NEW f \in Batches,
           TriggerEvent(f) \/ \E h \in Hooks : TriggerThrows(f, h)
    PROVE  IndInv'
<1>1. alive /\ Subscribers(f) /\ created' = created + Len(f) /\ timers' = timers
      /\ hooks' = hooks /\ registered' = registered /\ redelivered' = redelivered
  BY DEF TriggerEvent, TriggerThrows
<1>2. /\ Good(QueueBatch(f), WithBatch(f), inflight, timers', sent, redelivered', created')
      /\ Placed(QueueBatch(f), WithBatch(f), inflight, timers')
  BY <1>1, BatchKeeps
<1>3. hooks' \in [Hooks -> Hook] /\ registered' \in 0 .. MaxHooks
  BY <1>1 DEF IndInv, Rest
<1>4. CASE TriggerEvent(f)
  <2>1. Wake(QueueBatch(f), WithBatch(f)) /\ threw' \in BOOLEAN
    BY <1>4 DEF TriggerEvent, IndInv, Rest
  <2> QED BY <1>1, <1>2, <1>3, <2>1, WakeKeeps
<1>5. ASSUME NEW h \in Hooks, TriggerThrows(f, h) PROVE IndInv'
  <2>1. /\ queue' = QueueBatch(f) /\ deliveries' = WithBatch(f) /\ threw' = TRUE
        /\ UNCHANGED <<isProcessing, inflight, resting, alive, sent>>
    BY <1>5 DEF TriggerThrows
  <2>2. Rest'
    BY <1>3, <2>1 DEF IndInv, Rest
  <2>3. Good(queue, deliveries, inflight, timers, sent, redelivered, created)'
    BY <1>2, <2>1
  <2>4. Placed(queue, deliveries, inflight, timers)'
    BY <1>2, <2>1
  <2>5. SingleLoop' /\ IdleMeansDrained'
    BY <2>1 DEF IndInv, SingleLoop, IdleMeansDrained
  <2> QED BY <2>2, <2>3, <2>4, <2>5 DEF IndInv
<1> QED BY <1>4, <1>5

LEMMA ResumeStep == ASSUME IndInv, LoopResumes PROVE IndInv'
<1>1. /\ alive /\ inflight = {} /\ resting - 1 = 0
  BY DEF IndInv, SingleLoop, LoopResumes, Rest
<1>2. /\ ProcessQueue(queue, deliveries, 0) /\ timers' = timers
      /\ redelivered' = redelivered /\ created' = created
  BY <1>1 DEF LoopResumes
<1>3. /\ Good(queue, deliveries, inflight, timers', sent, redelivered', created')
      /\ Placed(queue, deliveries, inflight, timers')
  BY <1>1, <1>2 DEF IndInv
<1>4. hooks' \in [Hooks -> Hook] /\ registered' \in 0 .. MaxHooks /\ threw' \in BOOLEAN
  BY DEF IndInv, Rest, LoopResumes
<1> QED BY <1>1, <1>2, <1>3, <1>4, ProcessQueueKeeps DEF IndInv

LEMMA FetchStep ==
    ASSUME IndInv, NEW d \in Deliveries, FetchOk(d) \/ FetchFails(d)
    PROVE  IndInv'
<1>1. /\ alive /\ d \in inflight /\ inflight' = inflight \ {d} /\ resting' = resting + 1
      /\ UNCHANGED <<registered, hooks, created, queue, isProcessing, alive, sent,
                     redelivered, threw>>
  BY DEF FetchOk, FetchFails, FetchDone, history
<1>2. resting = 0 /\ inflight' = {} /\ isProcessing = TRUE
  BY <1>1 DEF IndInv, SingleLoop, Rest
<1>3. /\ deliveries \in [Deliveries -> Delivery] /\ d \notin Members(queue)
      /\ Members(queue) \subseteq Deliveries /\ d \notin timers
      /\ timers \in SUBSET Deliveries /\ Unfinished(deliveries[d])
  BY <1>1 DEF IndInv, Good, Typed, Apart, Placed, Members
<1>4. /\ deliveries' \in [Deliveries -> Delivery]
      /\ deliveries'[d].attempts = deliveries[d].attempts
      /\ deliveries'[d].status # "none"
      /\ \A e \in Deliveries \ {d} : deliveries'[e] = deliveries[e]
      /\ \/ timers' = timers /\ ~Unfinished(deliveries'[d])
         \/ /\ timers' = timers \cup {d} /\ deliveries' = deliveries
            /\ deliveries[d].attempts < MaxRetries
  <2>1. \/ deliveries' = Marked(deliveries, d, "delivered") /\ timers' = timers
        \/ deliveries' = Marked(deliveries, d, "failed") /\ timers' = timers
        \/ /\ deliveries' = deliveries /\ timers' = timers \cup {d}
           /\ deliveries[d].attempts < MaxRetries
    BY DEF FetchOk, FetchFails
  <2>2. \A s \in {"delivered", "failed"} :
            /\ Marked(deliveries, d, s) \in [Deliveries -> Delivery]
            /\ Marked(deliveries, d, s)[d].attempts = deliveries[d].attempts
            /\ Marked(deliveries, d, s)[d].status = s
            /\ \A e \in Deliveries \ {d} : Marked(deliveries, d, s)[e] = deliveries[e]
    BY <1>3, StatusMoves DEF DeliveryStatus
  <2> QED BY <1>3, <2>1, <2>2 DEF Unfinished
<1>5. Rest'
  BY <1>1 DEF IndInv, Rest
<1>6. Typed(queue, deliveries, inflight, timers, sent, redelivered, created)'
  BY <1>1, <1>3, <1>4 DEF IndInv, Good, Typed
<1>7. Apart(queue, inflight, timers)'
  BY <1>1, <1>2, <1>3, <1>4 DEF IndInv, Good, Apart
<1>8. AttemptsLeft(queue, deliveries, inflight, timers)'
  <2>1. deliveries[d].attempts \in Nat
    BY <1>3 DEF Delivery
  <2>2. \A e \in Members(queue) \cup timers : deliveries'[e].attempts < Tries
    BY <1>3, <1>4 DEF IndInv, Good, AttemptsLeft
  <2>3. timers' # timers => deliveries'[d].attempts < Tries
    BY <1>4, <2>1, TriesPositive, WebhookAssumption
  <2> QED BY <1>1, <1>4, <2>2, <2>3 DEF AttemptsLeft
<1>9. Fresh(deliveries, created)'
  BY <1>1, <1>3, <1>4 DEF IndInv, Good, Fresh, Unfinished
<1>10. Budget(deliveries, sent, redelivered)'
  BY <1>1, <1>4 DEF IndInv, Good, Budget
<1>11. Placed(queue, deliveries, inflight, timers)'
  BY <1>1, <1>2, <1>3, <1>4 DEF IndInv, Placed
<1>12. SingleLoop' /\ IdleMeansDrained'
  BY <1>1, <1>2 DEF SingleLoop, IdleMeansDrained
<1> QED BY <1>5, <1>6, <1>7, <1>8, <1>9, <1>10, <1>11, <1>12 DEF IndInv, Good

\* The queue and the timers when a timer's callback wakes the loop.
LEMMA TimerQueues ==
    ASSUME IndInv, NEW d \in Deliveries, RetryTimer(d)
    PROVE  /\ Good(Append(queue, d), deliveries, inflight, timers', sent, redelivered',
                   created')
           /\ Placed(Append(queue, d), deliveries, inflight, timers')
<1> DEFINE q == Append(queue, d)
<1>1. /\ alive /\ d \in timers /\ timers' = timers \ {d} /\ Wake(q, deliveries)
      /\ UNCHANGED <<registered, hooks, created, redelivered, threw>>
  BY DEF RetryTimer
<1>2. queue \in Seq(Deliveries) /\ NoRepeats(queue) /\ d \notin Members(queue)
  BY <1>1 DEF IndInv, Good, Typed, Apart
<1>3. q \in Seq(Deliveries) /\ Members(q) = Members(queue) \cup {d} /\ NoRepeats(q)
  BY <1>2, AppendMembers
<1> HIDE DEF q
<1>4. Typed(q, deliveries, inflight, timers', sent, redelivered', created')
  BY <1>1, <1>3 DEF IndInv, Good, Typed
<1>5. Apart(q, inflight, timers')
  BY <1>1, <1>3 DEF IndInv, Good, Apart
<1>6. AttemptsLeft(q, deliveries, inflight, timers')
  BY <1>1, <1>3 DEF IndInv, Good, AttemptsLeft
<1>7. Fresh(deliveries, created') /\ Budget(deliveries, sent, redelivered')
  BY <1>1 DEF IndInv, Good
<1>8. Placed(q, deliveries, inflight, timers')
  BY <1>1, <1>3 DEF IndInv, Placed
<1>9. Good(q, deliveries, inflight, timers', sent, redelivered', created')
  BY <1>4, <1>5, <1>6, <1>7 DEF Good
<1> QED BY <1>8, <1>9 DEF q

LEMMA TimerStep ==
    ASSUME IndInv, NEW d \in Deliveries, RetryTimer(d)
    PROVE  IndInv'
<1> DEFINE q == Append(queue, d)
<1>1. alive /\ Wake(q, deliveries)
  BY DEF RetryTimer
<1>2. /\ Good(q, deliveries, inflight, timers', sent, redelivered', created')
      /\ Placed(q, deliveries, inflight, timers')
  BY TimerQueues
<1>3. hooks' \in [Hooks -> Hook] /\ registered' \in 0 .. MaxHooks /\ threw' \in BOOLEAN
  BY DEF IndInv, Rest, RetryTimer
<1> HIDE DEF q
<1> QED BY <1>1, <1>2, <1>3, WakeKeeps

\* The queue and the records when a retry by hand wakes the loop.
LEMMA RetryQueues ==
    ASSUME IndInv, NEW d \in Deliveries, RetryDelivery(d)
    PROVE  /\ Good(Append(queue, d), Reopened(deliveries, d), inflight, timers', sent,
                   redelivered', created')
           /\ Placed(Append(queue, d), Reopened(deliveries, d), inflight, timers')
<1> DEFINE q == Append(queue, d)
           recs == Reopened(deliveries, d)
<1>1. /\ alive /\ deliveries[d].status = "failed" /\ Wake(q, recs)
      /\ redelivered[d] < MaxRedeliveries
      /\ redelivered' = [redelivered EXCEPT ![d] = @ + 1]
      /\ UNCHANGED <<registered, hooks, created, timers, threw>>
  BY DEF RetryDelivery
<1>2. /\ queue \in Seq(Deliveries) /\ NoRepeats(queue)
      /\ Members(queue) \subseteq Deliveries
      /\ d \notin Members(queue) \cup inflight \cup timers
      /\ deliveries \in [Deliveries -> Delivery]
      /\ sent \in [Deliveries -> Nat]
      /\ redelivered \in [Deliveries -> 0 .. MaxRedeliveries]
  <2>1. /\ queue \in Seq(Deliveries) /\ NoRepeats(queue)
        /\ deliveries \in [Deliveries -> Delivery]
        /\ sent \in [Deliveries -> Nat]
        /\ redelivered \in [Deliveries -> 0 .. MaxRedeliveries]
    BY DEF IndInv, Good, Typed, Apart
  <2>2. Members(queue) \subseteq Deliveries
    BY <2>1 DEF Members
  <2>3. d \notin Members(queue) \cup inflight \cup timers
    BY <1>1 DEF IndInv, Placed, Unfinished
  <2> QED BY <2>1, <2>2, <2>3
<1>3. q \in Seq(Deliveries) /\ Members(q) = Members(queue) \cup {d} /\ NoRepeats(q)
  BY <1>2, AppendMembers
<1>4. /\ recs \in [Deliveries -> Delivery]
      /\ recs[d].attempts = 0 /\ recs[d].status = "pending"
      /\ \A e \in Deliveries \ {d} : recs[e] = deliveries[e]
  BY <1>2, RecordReopened
<1>5. /\ redelivered' \in [Deliveries -> 0 .. MaxRedeliveries]
      /\ redelivered'[d] = redelivered[d] + 1
      /\ \A e \in Deliveries \ {d} : redelivered'[e] = redelivered[e]
  BY <1>1, <1>2, WebhookAssumption
<1> HIDE DEF q, recs
<1>6. Typed(q, recs, inflight, timers', sent, redelivered', created')
  BY <1>1, <1>3, <1>4, <1>5 DEF IndInv, Good, Typed
<1>7. Apart(q, inflight, timers')
  BY <1>1, <1>2, <1>3 DEF IndInv, Good, Apart
<1>8. AttemptsLeft(q, recs, inflight, timers')
  <2>1. \A e \in Members(queue) \cup timers :
            e \in Deliveries \ {d} /\ deliveries[e].attempts < Tries
    BY <1>2 DEF IndInv, Good, AttemptsLeft, Typed
  <2> QED BY <1>1, <1>3, <1>4, <2>1, TriesPositive DEF AttemptsLeft
<1>9. Fresh(recs, created')
  BY <1>1, <1>4 DEF IndInv, Good, Fresh
<1>10. Budget(recs, sent, redelivered')
  <2> SUFFICES ASSUME NEW e \in Deliveries
               PROVE  sent[e] <= Tries * redelivered'[e] + recs[e].attempts
    BY DEF Budget
  <2>1. sent[e] <= Tries * redelivered[e] + deliveries[e].attempts
    BY DEF IndInv, Good, Budget
  <2>2. CASE e # d
    BY <2>1, <2>2, <1>4, <1>5
  <2>3. CASE e = d
    <3>1. /\ Tries * (redelivered[d] + 1) = Tries * redelivered[d] + Tries
          /\ Tries * redelivered[d] \in Nat
      BY <1>2, TriesPositive, WebhookAssumption
    <3>2. deliveries[d].attempts \in 0 .. Tries
      BY <1>2 DEF Delivery
    <3> QED BY <2>1, <2>3, <3>1, <3>2, <1>2, <1>4, <1>5, TriesPositive
  <2> QED BY <2>2, <2>3
<1>11. Placed(q, recs, inflight, timers')
  BY <1>1, <1>2, <1>3, <1>4 DEF IndInv, Placed, Unfinished
<1>12. Good(q, recs, inflight, timers', sent, redelivered', created')
  BY <1>6, <1>7, <1>8, <1>9, <1>10 DEF Good
<1> QED BY <1>11, <1>12 DEF q, recs

LEMMA RetryStep ==
    ASSUME IndInv, NEW d \in Deliveries, RetryDelivery(d)
    PROVE  IndInv'
<1> DEFINE q == Append(queue, d)
           recs == Reopened(deliveries, d)
<1>1. alive /\ Wake(q, recs)
  BY DEF RetryDelivery
<1>2. /\ Good(q, recs, inflight, timers', sent, redelivered', created')
      /\ Placed(q, recs, inflight, timers')
  BY RetryQueues
<1>3. hooks' \in [Hooks -> Hook] /\ registered' \in 0 .. MaxHooks /\ threw' \in BOOLEAN
  BY DEF IndInv, Rest, RetryDelivery
<1> HIDE DEF q, recs
<1> QED BY <1>1, <1>2, <1>3, WakeKeeps

LEMMA StutterStep == ASSUME IndInv, UNCHANGED vars PROVE IndInv'
<1>1. UNCHANGED <<registered, hooks, created, deliveries, queue, isProcessing, inflight,
                  resting, timers, alive, sent, redelivered, threw>>
  BY DEF vars, queueVars, history
<1>2. Rest'
  BY <1>1 DEF IndInv, Rest
<1>3. Good(queue, deliveries, inflight, timers, sent, redelivered, created)'
  BY <1>1 DEF IndInv
<1>4. alive' => Placed(queue, deliveries, inflight, timers)'
  BY <1>1 DEF IndInv
<1>5. SingleLoop' /\ IdleMeansDrained'
  BY <1>1 DEF IndInv, SingleLoop, IdleMeansDrained
<1> QED BY <1>2, <1>3, <1>4, <1>5 DEF IndInv

-----------------------------------------------------------------------------
\* The inductive invariant holds of every reachable state.
THEOREM WebhookInvariance == Spec => []IndInv
<1>1. Init => IndInv
  BY InitGood
<1>2. IndInv /\ [Next]_vars => IndInv'
  <2> SUFFICES ASSUME IndInv, [Next]_vars PROVE IndInv'
    OBVIOUS
  <2>1. CASE \/ \E ok \in BOOLEAN : RegisterWebhook(ok)
             \/ \E h \in Hooks : UpdateWebhook(h) \/ DeleteWebhook(h)
    BY <2>1, HookStep
  <2>2. ASSUME NEW f \in Batches, TriggerEvent(f) \/ \E h \in Hooks : TriggerThrows(f, h)
        PROVE  IndInv'
    BY <2>2, TriggerStep
  <2>3. CASE LoopResumes
    BY <2>3, ResumeStep
  <2>4. ASSUME NEW d \in Deliveries, FetchOk(d) \/ FetchFails(d) PROVE IndInv'
    BY <2>4, FetchStep
  <2>5. ASSUME NEW d \in Deliveries, RetryTimer(d) PROVE IndInv'
    BY <2>5, TimerStep
  <2>6. ASSUME NEW d \in Deliveries, RetryDelivery(d) PROVE IndInv'
    BY <2>6, RetryStep
  <2>7. CASE UNCHANGED vars
    BY <2>7, StutterStep
  <2> QED BY <2>1, <2>2, <2>3, <2>4, <2>5, <2>6, <2>7 DEF Next
<1> QED BY <1>1, <1>2, PTL DEF Spec

\* Every variable keeps its type, and no record counts more attempts than
\* maxRetries allows, for any number of hooks, deliveries and retries.
THEOREM WebhookTypes == Spec => []TypeOK
<1>1. IndInv => TypeOK
  BY DEF IndInv, Rest, Good, Typed, TypeOK
<1> QED BY <1>1, WebhookInvariance, PTL

\* An unfinished delivery is in exactly one of the queue, the loop and the
\* timers; a finished one is in none of them.
THEOREM WebhookResidence == Spec => []Residence
<1>1. IndInv => Residence
  BY DEF IndInv, Good, Apart, Placed, Unfinished, Residence, NoRepeats, Members, Queued
<1> QED BY <1>1, WebhookInvariance, PTL

\* isProcessing guards the queue: there is never a second processQueue loop.
THEOREM WebhookSingleLoop == Spec => []SingleLoop
<1>1. IndInv => SingleLoop
  BY DEF IndInv
<1> QED BY <1>1, WebhookInvariance, PTL

\* No wakeup is lost, unless a triggerEvent threw.
THEOREM WebhookNoLostWakeup == Spec => []IdleMeansDrained
<1>1. IndInv => IdleMeansDrained
  BY DEF IndInv
<1> QED BY <1>1, WebhookInvariance, PTL

\* The number of POSTs of one delivery is bounded by its attempts and its
\* explicit retries, however timers, pauses, deletions and retries interleave.
THEOREM WebhookPostsBounded == Spec => []PostsBounded
<1>1. IndInv => PostsBounded
  <2> SUFFICES ASSUME IndInv, NEW d \in Deliveries
               PROVE  sent[d] <= Tries * (1 + redelivered[d])
    BY DEF PostsBounded
  <2>1. /\ sent[d] <= Tries * redelivered[d] + deliveries[d].attempts
        /\ sent[d] \in Nat /\ redelivered[d] \in Nat
        /\ deliveries[d].attempts \in 0 .. Tries
    BY WebhookAssumption DEF IndInv, Good, Budget, Typed, Delivery
  <2>2. /\ Tries * (1 + redelivered[d]) = Tries + Tries * redelivered[d]
        /\ Tries * redelivered[d] \in Nat
    BY <2>1, TriesPositive
  <2> QED BY <2>1, <2>2, TriesPositive
<1> QED BY <1>1, WebhookInvariance, PTL

-----------------------------------------------------------------------------
(* Proofs about the order of WebhookService's POSTs, on top of the           *)
(* inductive invariant of WebhookServiceProofs: finished deliveries stay     *)
(* finished, and first attempts follow the order of the events.              *)

-----------------------------------------------------------------------------
\* What a step does to a delivery that is not in the queue it runs on: nothing.
LEMMA ProcessQueueSpares ==
    ASSUME NEW q \in Seq(Deliveries), NEW recs \in [Deliveries -> Delivery], NEW idle,
           sent \in [Deliveries -> Nat], NoRepeats(q),
           ProcessQueue(q, recs, idle),
           NEW d \in Deliveries, d \notin Members(q)
    PROVE  deliveries'[d] = recs[d] /\ sent'[d] = sent[d]
<1>1. CASE q = <<>>
  BY <1>1 DEF ProcessQueue
<1>2. CASE q # <<>>
  <2> DEFINE h == Head(q)
  <2>1. h \in Deliveries /\ h # d
    BY <1>2, TailMembers
  <2>2. ProcessDelivery(h, recs, idle)
    BY <1>2 DEF ProcessQueue
  <2> HIDE DEF h
  <2>3. CASE SkipInactive(h, recs, idle)
    BY <2>1, <2>3 DEF SkipInactive, Marked
  <2>4. CASE Post(h, recs, idle)
    BY <2>1, <2>4 DEF Post, Attempted
  <2>5. CASE SignatureThrows(h, recs, idle)
    BY <2>1, <2>5 DEF SignatureThrows, Attempted
  <2> QED
    BY <2>2, <2>3, <2>4, <2>5 DEF ProcessDelivery
<1> QED
  BY <1>1, <1>2

LEMMA WakeSpares ==
    ASSUME NEW q \in Seq(Deliveries), NEW recs \in [Deliveries -> Delivery],
           sent \in [Deliveries -> Nat], NoRepeats(q),
           Wake(q, recs),
           NEW d \in Deliveries, d \notin Members(q)
    PROVE  deliveries'[d] = recs[d] /\ sent'[d] = sent[d]
BY ProcessQueueSpares DEF Wake

\* A finished delivery is in no place a step takes deliveries from; only a retry
\* by hand puts it back into the queue, and that only when it failed.
LEMMA FinishedStays ==
    ASSUME IndInv, [Next]_vars, NEW d \in Deliveries, deliveries[d].status \in Finished
    PROVE  \/ deliveries'[d] = deliveries[d] /\ sent'[d] = sent[d]
           \/ deliveries[d].status = "failed" /\ redelivered'[d] # redelivered[d]
<1> DEFINE Same == deliveries'[d] = deliveries[d] /\ sent'[d] = sent[d]
<1>1. /\ queue \in Seq(Deliveries) /\ deliveries \in [Deliveries -> Delivery]
      /\ sent \in [Deliveries -> Nat] /\ NoRepeats(queue)
      /\ redelivered \in [Deliveries -> 0 .. MaxRedeliveries]
  BY DEF IndInv, Good, Typed, Apart
<1>2. alive => d \notin Members(queue) \cup inflight \cup timers
  BY DEF IndInv, Placed, Unfinished, Finished
<1>3. ASSUME NEW f \in Batches, TriggerEvent(f) \/ \E h \in Hooks : TriggerThrows(f, h)
      PROVE  Same
  <2>1. alive /\ Subscribers(f) /\ created' = created + Len(f)
    BY <1>3 DEF TriggerEvent, TriggerThrows
  <2>2. /\ Good(QueueBatch(f), WithBatch(f), inflight, timers, sent, redelivered, created')
        /\ Placed(QueueBatch(f), WithBatch(f), inflight, timers)
    BY <2>1, BatchKeeps
  <2>3. WithBatch(f)[d] = deliveries[d]
    <3>1. ~(d > created) /\ created \in Nat
      BY <1>1 DEF IndInv, Good, Fresh, Finished, Typed
    <3> QED
      BY <3>1 DEF WithBatch, Deliveries
  <2>4. d \notin Members(QueueBatch(f))
    BY <2>2, <2>3 DEF Placed, Unfinished, Finished
  <2>5. CASE TriggerEvent(f)
    <3>1. /\ Wake(QueueBatch(f), WithBatch(f)) /\ QueueBatch(f) \in Seq(Deliveries)
          /\ WithBatch(f) \in [Deliveries -> Delivery] /\ NoRepeats(QueueBatch(f))
      BY <2>2, <2>5 DEF TriggerEvent, Good, Typed, Apart
    <3> QED
      BY <1>1, <2>3, <2>4, <3>1, WakeSpares
  <2>6. CASE \E h \in Hooks : TriggerThrows(f, h)
    BY <2>3, <2>6 DEF TriggerThrows
  <2> QED
    BY <1>3, <2>5, <2>6
<1>4. CASE LoopResumes
  BY <1>1, <1>2, <1>4, ProcessQueueSpares DEF LoopResumes
<1>5. ASSUME NEW e \in Deliveries, FetchOk(e) \/ FetchFails(e) PROVE Same
  <2>1. e # d /\ UNCHANGED sent
    BY <1>2, <1>5 DEF FetchOk, FetchFails, FetchDone, history
  <2> QED
    BY <1>1, <1>5, <2>1 DEF FetchOk, FetchFails, Marked
<1>6. ASSUME NEW e \in Deliveries, RetryTimer(e) PROVE Same
  <2>1. alive /\ e \in timers /\ Wake(Append(queue, e), deliveries)
    BY <1>6 DEF RetryTimer
  <2>2. /\ Append(queue, e) \in Seq(Deliveries)
        /\ Members(Append(queue, e)) = Members(queue) \cup {e}
        /\ NoRepeats(Append(queue, e))
    BY <1>1, <2>1, AppendMembers DEF IndInv, Good, Apart
  <2>3. d \notin Members(Append(queue, e))
    BY <1>2, <2>1, <2>2
  <2> QED
    BY <1>1, <2>1, <2>2, <2>3, WakeSpares
<1>7. ASSUME NEW e \in Deliveries, RetryDelivery(e)
      PROVE  \/ Same
             \/ deliveries[d].status = "failed" /\ redelivered'[d] # redelivered[d]
  <2>1. /\ alive /\ deliveries[e].status = "failed"
        /\ Wake(Append(queue, e), Reopened(deliveries, e))
        /\ redelivered' = [redelivered EXCEPT ![e] = @ + 1]
    BY <1>7 DEF RetryDelivery
  <2>2. CASE e = d
    BY <1>1, <2>1, <2>2
  <2>3. CASE e # d
    <3>1. e \notin Members(queue)
      BY <2>1 DEF IndInv, Placed, Unfinished
    <3>2. /\ Append(queue, e) \in Seq(Deliveries)
          /\ Members(Append(queue, e)) = Members(queue) \cup {e}
          /\ NoRepeats(Append(queue, e))
      BY <1>1, <3>1, AppendMembers
    <3>3. /\ Reopened(deliveries, e) \in [Deliveries -> Delivery]
          /\ Reopened(deliveries, e)[d] = deliveries[d]
      BY <1>1, <2>3, RecordReopened
    <3>4. d \notin Members(Append(queue, e))
      BY <1>2, <2>1, <2>3, <3>2
    <3>5. deliveries'[d] = Reopened(deliveries, e)[d] /\ sent'[d] = sent[d]
      <4> DEFINE q == Append(queue, e)
                 recs == Reopened(deliveries, e)
      <4>1. /\ q \in Seq(Deliveries) /\ recs \in [Deliveries -> Delivery]
            /\ NoRepeats(q) /\ Wake(q, recs) /\ d \notin Members(q)
        BY <2>1, <3>2, <3>3, <3>4
      <4> HIDE DEF q, recs
      <4>2. deliveries'[d] = recs[d] /\ sent'[d] = sent[d]
        BY <1>1, <4>1, WakeSpares
      <4> QED
        BY <4>2 DEF recs
    <3> QED
      BY <3>3, <3>5
  <2> QED
    BY <2>2, <2>3
<1>8. CASE \/ \E ok \in BOOLEAN : RegisterWebhook(ok)
           \/ \E h \in Hooks : UpdateWebhook(h) \/ DeleteWebhook(h)
           \/ UNCHANGED vars
  BY <1>8 DEF RegisterWebhook, UpdateWebhook, DeleteWebhook, vars, queueVars, history
<1> QED
  BY <1>3, <1>4, <1>5, <1>6, <1>7, <1>8 DEF Next

\* A delivered event is never posted again, and one given up only by a retry by
\* hand, whatever timers, batches and loops interleave.
THEOREM WebhookFinality == Spec => FinishedIsFinal
<1>1. IndInv /\ [Next]_vars =>
          [\A d \in Deliveries :
              /\ deliveries[d].status = "delivered" =>
                    deliveries'[d] = deliveries[d] /\ sent'[d] = sent[d]
              /\ (deliveries[d].status = "failed" /\ redelivered'[d] = redelivered[d]) =>
                    deliveries'[d] = deliveries[d] /\ sent'[d] = sent[d]]_vars
  BY FinishedStays DEF Finished
<1> QED
  BY <1>1, WebhookInvariance, PTL DEF Spec, FinishedIsFinal

-----------------------------------------------------------------------------
\* Never posted, given up or retried by hand: its first attempt is to come.
Untried(d, recs, posts, again) ==
    posts[d] = 0 /\ again[d] = 0 /\ recs[d].status # "failed"

\* Behind a delivery that was never tried everything newer is untried too, and
\* comes later in the queue; what is under way or delivered was posted.
InOrder(q, recs, flying, waiting, posts, again, n) ==
    /\ \A d \in Deliveries :
          d \in flying \cup waiting \/ recs[d].status = "delivered" => posts[d] > 0
    /\ \A d \in Deliveries : d > n => posts[d] = 0 /\ again[d] = 0
    /\ \A d, e \in Deliveries :
          (d < e /\ Untried(d, recs, posts, again)) =>
              /\ Untried(e, recs, posts, again)
              /\ \A i, j \in 1 .. Len(q) : (q[i] = d /\ q[j] = e) => i < j

OrderInv == InOrder(queue, deliveries, inflight, timers, sent, redelivered, created)

\* Appending to the queue a delivery that is not untried, or newer than all of it,
\* keeps the order.
LEMMA AppendOrder ==
    ASSUME NEW q \in Seq(Deliveries), NEW x \in Deliveries, NoRepeats(q),
           NEW d, NEW e, d # x,
           \A k, l \in 1 .. Len(q) : (q[k] = d /\ q[l] = e) => k < l
    PROVE  \A i, j \in 1 .. Len(Append(q, x)) :
               (Append(q, x)[i] = d /\ Append(q, x)[j] = e) => i < j
<1> DEFINE r == Append(q, x)
<1> SUFFICES ASSUME NEW i \in 1 .. Len(r), NEW j \in 1 .. Len(r), r[i] = d, r[j] = e
             PROVE  i < j
  OBVIOUS
<1>1. /\ Len(r) = Len(q) + 1 /\ Len(q) \in Nat
      /\ \A k \in 1 .. Len(q) : r[k] = q[k]
      /\ r[Len(q) + 1] = x
  BY AppendProperties, LenProperties
<1> HIDE DEF r
<1>2. i \in 1 .. Len(r) /\ j \in 1 .. Len(r) /\ r[i] = d /\ r[j] = e
  BY DEF r
<1>3. i \in 1 .. Len(q)
  BY <1>1, <1>2
<1>4. CASE j \in 1 .. Len(q)
  BY <1>1, <1>2, <1>3, <1>4
<1>5. CASE j = Len(q) + 1
  BY <1>1, <1>3, <1>5
<1> QED
  BY <1>1, <1>2, <1>4, <1>5

\* The loop takes the head of the queue: nothing older waits there untried.
LEMMA ProcessQueueOrder ==
    ASSUME NEW q, NEW recs,
           alive, inflight = {},
           Good(q, recs, inflight, timers', sent, redelivered', created'),
           Placed(q, recs, inflight, timers'),
           InOrder(q, recs, inflight, timers', sent, redelivered', created'),
           ProcessQueue(q, recs, 0)
    PROVE  OrderInv'
<1> DEFINE again == redelivered'
<1>0. /\ q \in Seq(Deliveries) /\ recs \in [Deliveries -> Delivery] /\ NoRepeats(q)
      /\ sent \in [Deliveries -> Nat] /\ created' \in Nat
      /\ timers' \subseteq Deliveries /\ again \in [Deliveries -> 0 .. MaxRedeliveries]
  BY DEF Good, Typed, Apart
<1>1. CASE q = <<>>
  <2>1. /\ queue' = q /\ deliveries' = recs /\ inflight' = inflight /\ sent' = sent
    BY <1>1 DEF ProcessQueue
  <2> QED
    BY <2>1 DEF OrderInv
<1>2. CASE q # <<>>
  <2> DEFINE h == Head(q)
  <2>1. /\ queue' = Tail(q) /\ ProcessDelivery(h, recs, 0)
    BY <1>2 DEF ProcessQueue
  <2>2. /\ h \in Deliveries /\ h \in Members(q) /\ h = q[1]
        /\ Members(queue') = Members(q) \ {h} /\ NoRepeats(queue')
        /\ Len(queue') = Len(q) - 1 /\ Len(q) \in Nat \ {0}
        /\ \A i \in 1 .. Len(queue') : queue'[i] = q[i + 1]
    BY <1>0, <1>2, <2>1, TailMembers, HeadTailProperties, EmptySeq, LenProperties
  <2> HIDE DEF h
  <2>3. Unfinished(recs[h]) /\ h <= created' /\ h \notin timers'
    BY <1>0, <2>2 DEF Placed, Good, Fresh, Unfinished, Apart, Deliveries
  \* An older untried delivery would be in the queue, before the head of it.
  <2>4. \A d \in Deliveries : d < h => ~Untried(d, recs, sent, again)
    <3> SUFFICES ASSUME NEW d \in Deliveries, d < h, Untried(d, recs, sent, again)
                 PROVE  FALSE
      OBVIOUS
    <3>1. d <= created' /\ sent[d] = 0
      BY <1>0, <2>2, <2>3 DEF Untried, Deliveries
    <3>2. recs[d].status # "none" /\ recs[d].status # "failed"
      BY <1>0, <3>1 DEF Good, Fresh, Untried, Deliveries
    <3>3. recs[d].status # "delivered"
      BY <3>1 DEF InOrder
    <3>4. Unfinished(recs[d])
      BY <1>0, <3>2, <3>3 DEF Delivery, DeliveryStatus, Unfinished
    <3>5. d \in Members(q)
      BY <3>1, <3>4 DEF Placed, InOrder
    <3>6. PICK i \in 1 .. Len(q) : q[i] = d
      BY <3>5 DEF Members
    <3>7. i < 1
      BY <2>2, <3>6 DEF InOrder
    <3> QED
      BY <2>2, <3>7
  <2>5. /\ deliveries' \in [Deliveries -> Delivery] /\ sent' \in [Deliveries -> Nat]
        /\ \A x \in Deliveries \ {h} : deliveries'[x] = recs[x] /\ sent'[x] = sent[x]
        /\ sent'[h] >= sent[h]
        /\ deliveries'[h].status \in {"failed", "retrying"}
        /\ inflight' = {} \/ (inflight' = {h} /\ sent'[h] > 0)
    <3>0. recs[h].attempts < Tries
      BY <2>2 DEF Good, AttemptsLeft
    <3>1. \/ deliveries' = Marked(recs, h, "failed")
          \/ deliveries' = Attempted(recs, h)
      BY <2>1 DEF ProcessDelivery, SkipInactive, Post, SignatureThrows
    <3>2. /\ deliveries' \in [Deliveries -> Delivery]
          /\ \A x \in Deliveries \ {h} : deliveries'[x] = recs[x]
          /\ deliveries'[h].status \in {"failed", "retrying"}
      <4>1. "failed" \in DeliveryStatus
        BY DEF DeliveryStatus
      <4>2. CASE deliveries' = Marked(recs, h, "failed")
        <5>0. h \in Deliveries /\ recs \in [Deliveries -> Delivery]
          BY <1>0, <2>2
        <5>1. /\ Marked(recs, h, "failed") \in [Deliveries -> Delivery]
              /\ Marked(recs, h, "failed")[h].status = "failed"
              /\ \A x \in Deliveries \ {h} : Marked(recs, h, "failed")[x] = recs[x]
          BY <4>1, <5>0, StatusMoves
        <5> QED
          BY <4>2, <5>1
      <4>3. CASE deliveries' = Attempted(recs, h)
        BY <1>0, <2>2, <3>0, <4>3, AttemptCounted
      <4> QED
        BY <3>1, <4>2, <4>3
    <3>3. \/ sent' = sent /\ inflight' = {}
          \/ sent' = [sent EXCEPT ![h] = @ + 1] /\ inflight' = {h}
      BY <2>1 DEF ProcessDelivery, SkipInactive, Post, SignatureThrows
    <3>4. /\ sent' \in [Deliveries -> Nat]
          /\ \A x \in Deliveries \ {h} : sent'[x] = sent[x]
          /\ sent'[h] >= sent[h]
          /\ inflight' = {} \/ (inflight' = {h} /\ sent'[h] > 0)
      <4>1. CASE sent' = sent /\ inflight' = {}
        BY <1>0, <2>2, <4>1
      <4>2. CASE sent' = [sent EXCEPT ![h] = @ + 1] /\ inflight' = {h}
        BY <1>0, <2>2, <4>2
      <4> QED
        BY <3>3, <4>1, <4>2
    <3> QED
      BY <3>2, <3>4
  <2>6. \A d \in Deliveries :
          (d \in inflight' \cup timers' \/ deliveries'[d].status = "delivered") => sent'[d] > 0
    BY <1>0, <2>2, <2>3, <2>5 DEF InOrder
  <2>7. \A d \in Deliveries : d > created' => sent'[d] = 0 /\ again[d] = 0
    BY <1>0, <2>2, <2>3, <2>5 DEF InOrder, Deliveries
  <2>8. ASSUME NEW d \in Deliveries, NEW e \in Deliveries, d < e,
               Untried(d, deliveries', sent', again)
        PROVE  /\ Untried(e, deliveries', sent', again)
               /\ \A i, j \in 1 .. Len(queue') : (queue'[i] = d /\ queue'[j] = e) => i < j
    <3>1. Untried(d, recs, sent, again)
      <4>1. CASE d = h
        <5>1. sent'[h] = 0 /\ again[h] = 0
          BY <2>8, <4>1 DEF Untried
        <5>2. sent[h] = 0
          BY <1>0, <2>2, <2>5, <5>1
        <5> QED
          BY <2>3, <4>1, <5>1, <5>2 DEF Untried, Unfinished
      <4>2. CASE d # h
        BY <2>5, <2>8, <4>2 DEF Untried
      <4> QED
        BY <4>1, <4>2
    <3>2. e # h
      BY <2>4, <2>8, <3>1
    <3>3. /\ Untried(e, recs, sent, again)
          /\ \A i, j \in 1 .. Len(q) : (q[i] = d /\ q[j] = e) => i < j
      BY <2>8, <3>1 DEF InOrder
    <3>4. \A i \in 1 .. Len(queue') : i + 1 \in 1 .. Len(q) /\ queue'[i] = q[i + 1]
      BY <2>2
    <3>5. ASSUME NEW i \in 1 .. Len(queue'), NEW j \in 1 .. Len(queue'),
                 queue'[i] = d, queue'[j] = e
          PROVE  i < j
      <4>1. i + 1 < j + 1
        BY <3>3, <3>4, <3>5
      <4> QED
        BY <2>2, <4>1
    <3> QED
      BY <2>5, <3>2, <3>3, <3>5 DEF Untried
  <2> QED
    BY <2>6, <2>7, <2>8 DEF OrderInv, InOrder
<1> QED
  BY <1>1, <1>2

LEMMA WakeOrder ==
    ASSUME NEW q, NEW recs, IndInv, alive,
           Good(q, recs, inflight, timers', sent, redelivered', created'),
           Placed(q, recs, inflight, timers'),
           InOrder(q, recs, inflight, timers', sent, redelivered', created'),
           Wake(q, recs)
    PROVE  OrderInv'
<1>1. CASE ~isProcessing
  <2>1. inflight = {} /\ resting = 0
    BY <1>1 DEF IndInv, Rest, SingleLoop
  <2>2. ProcessQueue(q, recs, 0)
    BY <1>1, <2>1 DEF Wake
  <2> QED
    BY <2>1, <2>2, ProcessQueueOrder
<1>2. CASE isProcessing
  <2>1. queue' = q /\ deliveries' = recs /\ inflight' = inflight /\ sent' = sent
    BY <1>2 DEF Wake
  <2> QED
    BY <2>1 DEF OrderInv
<1> QED
  BY <1>1, <1>2

-----------------------------------------------------------------------------
\* A batch of new deliveries goes to the end of the queue, in order.
LEMMA BatchOrder ==
    ASSUME IndInv, OrderInv, alive, NEW f \in Batches, Subscribers(f),
           created' = created + Len(f)
    PROVE  InOrder(QueueBatch(f), WithBatch(f), inflight, timers, sent, redelivered, created')
<1> DEFINE q == QueueBatch(f)
           recs == WithBatch(f)
           n == Len(f)
<1>0. /\ created \in Nat /\ n \in Nat /\ queue \in Seq(Deliveries) /\ Len(queue) \in Nat
      /\ deliveries \in [Deliveries -> Delivery]
  BY LenProperties, WebhookAssumption DEF IndInv, Good, Typed, Batches
<1>1. /\ Len(q) = Len(queue) + n
      /\ \A i \in 1 .. Len(queue) : q[i] = queue[i]
      /\ \A i \in 1 .. Len(q) : i > Len(queue) => q[i] = created + (i - Len(queue))
  <2> DEFINE b == [i \in 1 .. n |-> created + i]
  <2>1. b \in Seq(Deliveries) /\ Len(b) = n /\ \A i \in 1 .. n : b[i] = created + i
    <3>1. \A i \in 1 .. n : created + i \in Deliveries
      BY <1>0, WebhookAssumption DEF Subscribers, Deliveries
    <3>2. b \in [1 .. n -> Deliveries]
      BY <3>1
    <3> QED
      BY <1>0, <3>2
  <2> HIDE DEF b
  <2>3. q = queue \o b
    BY DEF QueueBatch, b
  <2> HIDE DEF q, n
  <2>4. /\ Len(q) = Len(queue) + Len(b)
        /\ \A i \in 1 .. Len(queue) + Len(b) :
              q[i] = IF i <= Len(queue) THEN queue[i] ELSE b[i - Len(queue)]
    BY <1>0, <2>1, <2>3, ConcatProperties, Zenon
  <2> QED
    BY <1>0, <2>1, <2>4
<1>2. \A d \in Deliveries :
          /\ d <= created => recs[d] = deliveries[d]
          /\ d > created /\ d <= created + n => recs[d].status = "pending"
          /\ d > created + n => recs[d] = deliveries[d]
  BY <1>0 DEF WithBatch, Deliveries
<1>3. \A d \in Deliveries : d > created =>
          sent[d] = 0 /\ redelivered[d] = 0 /\ deliveries[d].status = "none"
  BY DEF OrderInv, InOrder, IndInv, Good, Fresh
<1>4. \A i \in 1 .. Len(queue) : queue[i] <= created /\ queue[i] \in Deliveries
  <2> SUFFICES ASSUME NEW i \in 1 .. Len(queue)
               PROVE  queue[i] <= created /\ queue[i] \in Deliveries
    OBVIOUS
  <2>1. queue[i] \in Deliveries /\ queue[i] \in Members(queue)
    BY <1>0 DEF Members
  <2>2. deliveries[queue[i]].status # "none"
    BY <2>1 DEF IndInv, Placed, Unfinished
  <2> QED
    BY <1>0, <2>1, <2>2 DEF IndInv, Good, Fresh, Deliveries
<1> HIDE DEF q, recs, n
<1>5. \A d \in Deliveries :
          Untried(d, recs, sent, redelivered) <=> Untried(d, deliveries, sent, redelivered)
  BY <1>0, <1>2, <1>3 DEF Untried, Deliveries
<1>6. \A d \in Deliveries :
          d \in inflight \cup timers \/ recs[d].status = "delivered" => sent[d] > 0
  <2> SUFFICES ASSUME NEW d \in Deliveries,
                      d \in inflight \cup timers \/ recs[d].status = "delivered"
               PROVE  sent[d] > 0
    OBVIOUS
  <2>1. d \in inflight \cup timers \/ deliveries[d].status = "delivered"
    BY <1>0, <1>2 DEF Deliveries
  <2> QED
    BY <2>1 DEF OrderInv, InOrder
<1>7. \A d \in Deliveries : d > created' => sent[d] = 0 /\ redelivered[d] = 0
  BY <1>0, <1>3 DEF n, Deliveries
<1>8. ASSUME NEW d \in Deliveries, NEW e \in Deliveries, d < e,
             Untried(d, recs, sent, redelivered)
      PROVE  /\ Untried(e, recs, sent, redelivered)
             /\ \A i, j \in 1 .. Len(q) : (q[i] = d /\ q[j] = e) => i < j
  <2>1. /\ Untried(e, deliveries, sent, redelivered)
        /\ \A i, j \in 1 .. Len(queue) : (queue[i] = d /\ queue[j] = e) => i < j
    BY <1>5, <1>8 DEF OrderInv, InOrder
  <2>2. ASSUME NEW i \in 1 .. Len(q), NEW j \in 1 .. Len(q), q[i] = d, q[j] = e
        PROVE  i < j
    <3>1. CASE i <= Len(queue) /\ j <= Len(queue)
      BY <1>0, <1>1, <2>1, <2>2, <3>1
    <3>2. CASE i <= Len(queue) /\ j > Len(queue)
      BY <1>0, <1>1, <3>2
    <3>3. CASE i > Len(queue) /\ j <= Len(queue)
      <4>1. j \in 1 .. Len(queue)
        BY <1>0, <3>3
      <4>2. e <= created
        BY <1>1, <1>4, <2>2, <4>1
      <4>3. d > created
        BY <1>0, <1>1, <2>2, <3>3
      <4> QED
        BY <1>0, <1>8, <4>2, <4>3 DEF Deliveries
    <3>4. CASE i > Len(queue) /\ j > Len(queue)
      <4>1. d = created + (i - Len(queue)) /\ e = created + (j - Len(queue))
        BY <1>1, <2>2, <3>4
      <4> QED
        BY <1>0, <1>8, <4>1
    <3> QED
      BY <1>0, <1>1, <3>1, <3>2, <3>3, <3>4
  <2> QED
    BY <1>5, <2>1, <2>2
<1> QED
  BY <1>6, <1>7, <1>8 DEF InOrder, q, recs

\* The order survives every step.
LEMMA OrderStep ==
    ASSUME IndInv, OrderInv, [Next]_vars
    PROVE  OrderInv'
<1>1. /\ queue \in Seq(Deliveries) /\ deliveries \in [Deliveries -> Delivery]
      /\ sent \in [Deliveries -> Nat] /\ NoRepeats(queue)
      /\ redelivered \in [Deliveries -> 0 .. MaxRedeliveries]
      /\ created \in Nat /\ inflight \subseteq Deliveries /\ timers \subseteq Deliveries
  BY DEF IndInv, Good, Typed, Apart
<1>2. ASSUME NEW f \in Batches, TriggerEvent(f) \/ \E h \in Hooks : TriggerThrows(f, h)
      PROVE  OrderInv'
  <2> DEFINE q == QueueBatch(f)
             recs == WithBatch(f)
  <2>1. /\ alive /\ Subscribers(f) /\ created' = created + Len(f)
        /\ timers' = timers /\ redelivered' = redelivered
    BY <1>2 DEF TriggerEvent, TriggerThrows
  <2>2. /\ Good(q, recs, inflight, timers', sent, redelivered', created')
        /\ Placed(q, recs, inflight, timers')
        /\ InOrder(q, recs, inflight, timers', sent, redelivered', created')
    BY <2>1, BatchKeeps, BatchOrder
  <2>3. CASE TriggerEvent(f)
    <3>1. Wake(q, recs)
      BY <2>3 DEF TriggerEvent
    <3> HIDE DEF q, recs
    <3> QED
      BY <2>1, <2>2, <3>1, WakeOrder
  <2>4. CASE \E h \in Hooks : TriggerThrows(f, h)
    <3>1. /\ queue' = q /\ deliveries' = recs /\ inflight' = inflight /\ sent' = sent
      BY <2>4 DEF TriggerThrows
    <3> HIDE DEF q, recs
    <3> QED
      BY <2>2, <3>1 DEF OrderInv
  <2> QED
    BY <1>2, <2>3, <2>4
<1>3. CASE LoopResumes
  <2>1. /\ alive /\ inflight = {} /\ resting - 1 = 0 /\ timers' = timers
        /\ redelivered' = redelivered /\ created' = created
    BY <1>3 DEF IndInv, SingleLoop, LoopResumes, Rest
  <2>2. ProcessQueue(queue, deliveries, 0)
    BY <1>3, <2>1 DEF LoopResumes
  <2>3. /\ Good(queue, deliveries, inflight, timers', sent, redelivered', created')
        /\ Placed(queue, deliveries, inflight, timers')
        /\ InOrder(queue, deliveries, inflight, timers', sent, redelivered', created')
    BY <2>1 DEF IndInv, OrderInv
  <2> QED
    BY <2>1, <2>2, <2>3, ProcessQueueOrder
\* The outcome of a POST: the delivery was posted, so that it is not untried.
<1>4. ASSUME NEW x \in Deliveries, FetchOk(x) \/ FetchFails(x)
      PROVE  OrderInv'
  <2>1. /\ x \in inflight /\ inflight' = inflight \ {x}
        /\ UNCHANGED <<queue, sent, redelivered, created>>
        /\ timers' \subseteq timers \cup {x}
    BY <1>4 DEF FetchOk, FetchFails, FetchDone, history
  <2>2. sent[x] > 0
    BY <2>1 DEF OrderInv, InOrder
  <2>3. \A d \in Deliveries \ {x} : deliveries'[d] = deliveries[d]
    BY <1>1, <1>4 DEF FetchOk, FetchFails, Marked
  <2>4. \A d \in Deliveries :
            d \in inflight' \cup timers' \/ deliveries'[d].status = "delivered" => sent[d] > 0
    BY <2>1, <2>2, <2>3 DEF OrderInv, InOrder
  <2>5. \A d \in Deliveries : Untried(d, deliveries, sent, redelivered)
                              <=> Untried(d, deliveries', sent, redelivered)
    <3>1. sent[x] # 0
      BY <1>1, <2>2
    <3> QED
      BY <2>3, <3>1 DEF Untried
  <2> QED
    BY <2>1, <2>4, <2>5 DEF OrderInv, InOrder
<1>5. ASSUME NEW x \in Deliveries, RetryTimer(x)
      PROVE  OrderInv'
  <2> DEFINE q == Append(queue, x)
  <2>1. /\ alive /\ x \in timers /\ timers' = timers \ {x} /\ Wake(q, deliveries)
        /\ UNCHANGED <<created, redelivered>>
    BY <1>5 DEF RetryTimer
  <2>2. sent[x] > 0
    BY <2>1 DEF OrderInv, InOrder
  <2>3. /\ Good(q, deliveries, inflight, timers', sent, redelivered', created')
        /\ Placed(q, deliveries, inflight, timers')
    BY <1>5, TimerQueues
  <2>4. InOrder(q, deliveries, inflight, timers', sent, redelivered', created')
    <3>1. ASSUME NEW d \in Deliveries, NEW e \in Deliveries, d < e,
                 Untried(d, deliveries, sent, redelivered)
          PROVE  /\ Untried(e, deliveries, sent, redelivered)
                 /\ \A i, j \in 1 .. Len(q) : (q[i] = d /\ q[j] = e) => i < j
      <4>1. /\ Untried(e, deliveries, sent, redelivered)
            /\ \A k, l \in 1 .. Len(queue) : (queue[k] = d /\ queue[l] = e) => k < l
        BY <3>1 DEF OrderInv, InOrder
      <4>2. d # x
        BY <2>2, <3>1 DEF Untried
      <4>3. \A i, j \in 1 .. Len(q) : (q[i] = d /\ q[j] = e) => i < j
        BY <1>1, <4>1, <4>2, AppendOrder
      <4> QED
        BY <4>1, <4>3
    <3> HIDE DEF q
    <3> QED
      BY <2>1, <3>1 DEF OrderInv, InOrder
  <2> HIDE DEF q
  <2> QED
    BY <2>1, <2>3, <2>4, WakeOrder
\* A retry by hand: nothing older is untried, for the delivery was given up.
<1>6. ASSUME NEW x \in Deliveries, RetryDelivery(x)
      PROVE  OrderInv'
  <2> DEFINE q == Append(queue, x)
             recs == Reopened(deliveries, x)
             again == redelivered'
  <2>1. /\ alive /\ deliveries[x].status = "failed" /\ Wake(q, recs) /\ x <= created
        /\ redelivered' = [redelivered EXCEPT ![x] = @ + 1]
        /\ UNCHANGED <<created, timers>>
    BY <1>6 DEF RetryDelivery
  <2>2. /\ again[x] # 0
        /\ \A d \in Deliveries \ {x} : again[d] = redelivered[d]
    BY <1>1, <2>1
  <2>3. /\ recs[x].status = "pending"
        /\ \A d \in Deliveries \ {x} : recs[d] = deliveries[d]
    BY <1>1, RecordReopened
  <2>4. /\ Good(q, recs, inflight, timers', sent, redelivered', created')
        /\ Placed(q, recs, inflight, timers')
    BY <1>6, RetryQueues
  <2>5. InOrder(q, recs, inflight, timers', sent, redelivered', created')
    <3>1. ASSUME NEW d \in Deliveries, NEW e \in Deliveries, d < e,
                 Untried(d, recs, sent, again)
          PROVE  /\ Untried(e, recs, sent, again)
                 /\ \A i, j \in 1 .. Len(q) : (q[i] = d /\ q[j] = e) => i < j
      <4>1. d # x /\ Untried(d, deliveries, sent, redelivered)
        BY <2>2, <2>3, <3>1 DEF Untried
      <4>2. /\ Untried(e, deliveries, sent, redelivered)
            /\ \A k, l \in 1 .. Len(queue) : (queue[k] = d /\ queue[l] = e) => k < l
        BY <3>1, <4>1 DEF OrderInv, InOrder
      <4>3. e # x
        BY <2>1, <4>2 DEF Untried
      <4>4. Untried(e, recs, sent, again)
        BY <2>2, <2>3, <4>2, <4>3 DEF Untried
      <4>5. \A i, j \in 1 .. Len(q) : (q[i] = d /\ q[j] = e) => i < j
        BY <1>1, <4>1, <4>2, AppendOrder
      <4> QED
        BY <4>4, <4>5
    <3>2. \A d \in Deliveries :
              d \in inflight \cup timers \/ recs[d].status = "delivered" => sent[d] > 0
      BY <2>3 DEF OrderInv, InOrder
    <3>3. \A d \in Deliveries : d > created => sent[d] = 0 /\ again[d] = 0
      BY <1>1, <2>1, <2>2 DEF OrderInv, InOrder, Deliveries
    <3> HIDE DEF q, recs
    <3> QED
      BY <2>1, <3>1, <3>2, <3>3 DEF InOrder
  <2> HIDE DEF q, recs
  <2> QED
    BY <2>1, <2>4, <2>5, WakeOrder
<1>7. CASE \/ \E ok \in BOOLEAN : RegisterWebhook(ok)
           \/ \E h \in Hooks : UpdateWebhook(h) \/ DeleteWebhook(h)
           \/ UNCHANGED vars
  <2>1. UNCHANGED <<queue, deliveries, inflight, timers, sent, redelivered, created>>
    BY <1>7 DEF RegisterWebhook, UpdateWebhook, DeleteWebhook, vars, queueVars, history
  <2> QED
    BY <2>1 DEF OrderInv
<1> QED
  BY <1>2, <1>3, <1>4, <1>5, <1>6, <1>7 DEF Next

LEMMA InitOrder == Init => OrderInv
BY DEF Init, OrderInv, InOrder, Untried

\* Deliveries are first posted in the order of the events, however failed ones,
\* retries and new events fill the queue meanwhile.
THEOREM WebhookFirstAttempts == Spec => []FirstAttemptsInOrder
<1>1. IndInv /\ OrderInv /\ [Next]_vars => OrderInv'
  BY OrderStep
<1>2. IndInv /\ OrderInv => FirstAttemptsInOrder
  <2> SUFFICES ASSUME IndInv, OrderInv, NEW d \in Deliveries, NEW e \in Deliveries,
                      d < e, sent[e] > 0
               PROVE  sent[d] > 0 \/ deliveries[d].status = "failed" \/ redelivered[d] > 0
    BY DEF FirstAttemptsInOrder
  <2>1. sent[d] \in Nat /\ redelivered[d] \in Nat /\ sent[e] # 0
    BY WebhookAssumption DEF IndInv, Good, Typed
  <2>2. ~Untried(d, deliveries, sent, redelivered)
    BY <2>1 DEF OrderInv, InOrder, Untried
  <2> QED
    BY <2>1, <2>2 DEF Untried
<1> QED
  BY <1>1, <1>2, InitOrder, WebhookInvariance, PTL DEF Spec

=============================================================================
