---------------------------- MODULE WebhookService ----------------------------
(***************************************************************************)
(* webhooks/webhook-service.ts, driven through webhook-middleware.ts: the    *)
(* registered hooks, the queue of deliveries, the processQueue() loop that   *)
(* empties it one POST at a time, and the timers of failed attempts.  Code   *)
(* between two awaits is one step; the loop is suspended while a POST is in  *)
(* flight and, for one microtask, after every delivery.                      *)
(***************************************************************************)
EXTENDS Naturals, Sequences

CONSTANTS
    MaxHooks,        \* hooks registered in a behaviour (bound)
    MaxDeliveries,   \* deliveries created in a behaviour (bound)
    MaxRetries,      \* config.maxRetries: attempts of one delivery
    MaxRedeliveries, \* retryDelivery calls on one delivery (bound)
    Edits            \* which hook's field the bodies of POST and PUT give (bound)

ASSUME WebhookAssumption ==
    /\ MaxHooks \in Nat
    /\ MaxDeliveries \in Nat
    /\ MaxRetries \in Nat
    /\ MaxRedeliveries \in Nat
    /\ Edits \subseteq Nat \X {"status", "secret", "id"}

Hooks == 1 .. MaxHooks            \* in the order of the webhooks Map
Deliveries == 1 .. MaxDeliveries  \* in the order of creation

\* The id of no hook: what a caller may write over a record's own id.
UnknownId == 0

VARIABLES
    registered,    \* hooks registered so far
    hooks,         \* the webhooks Map
    created,       \* deliveries created so far
    deliveries,    \* the delivery records
    queue,         \* deliveryQueue
    isProcessing,
    inflight,      \* deliveries whose fetch() a processQueue loop awaits
    resting,       \* loops whose awaited delivery is done, not yet resumed
    timers,        \* deliveries with a pending retry setTimeout
    alive,         \* the process runs
    sent,          \* history: fetch() calls made for each delivery
    redelivered,   \* history: successful retryDelivery calls
    threw          \* history: some triggerEvent threw halfway

queueVars == <<created, deliveries, queue, isProcessing, inflight, resting, timers>>
history == <<sent, redelivered, threw>>
vars == <<registered, hooks, queueVars, alive, history>>

-----------------------------------------------------------------------------
\* "inactive" stands for 'paused', 'disabled' and any other value a PUT writes;
\* `signs` tells whether createHmac accepts the secret, `id` is the record's own
\* idea of its key.
HookStatus == {"absent", "active", "inactive"}
Hook == [status : HookStatus, signs : BOOLEAN, id : Hooks \cup {UnknownId}]

DeliveryStatus == {"none", "pending", "retrying", "delivered", "failed"}
Finished == {"delivered", "failed"}

\* The attempt that reaches maxAttempts is the last; with maxRetries 0 there is
\* still one.
Tries == IF MaxRetries = 0 THEN 1 ELSE MaxRetries

Delivery == [hook : Hooks \cup {UnknownId}, status : DeliveryStatus, attempts : 0 .. Tries]

Queued == {queue[i] : i \in 1 .. Len(queue)}

Exists(h) == h \in Hooks /\ hooks[h].status # "absent"
Active(h) == h \in Hooks /\ hooks[h].status = "active"

\* The writes to a delivery record: its status, a new attempt, a fresh start.
Marked(recs, d, status) == [recs EXCEPT ![d].status = status]
Attempted(recs, d) == [recs EXCEPT ![d].status = "retrying", ![d].attempts = @ + 1]
Reopened(recs, d) == [recs EXCEPT ![d].status = "pending", ![d].attempts = 0]

Init ==
    /\ registered = 0
    /\ hooks = [h \in Hooks |-> [status |-> "absent", signs |-> TRUE, id |-> h]]
    /\ created = 0
    /\ deliveries = [d \in Deliveries |->
                        [hook |-> UnknownId, status |-> "none", attempts |-> 0]]
    /\ queue = <<>>
    /\ isProcessing = FALSE
    /\ inflight = {}
    /\ resting = 0
    /\ timers = {}
    /\ alive = TRUE
    /\ sent = [d \in Deliveries |-> 0]
    /\ redelivered = [d \in Deliveries |-> 0]
    /\ threw = FALSE

-----------------------------------------------------------------------------
(* The processQueue loop.  The arguments are the queue, the records and the  *)
(* number of resting loops as the rest of the step leaves them.              *)

\* The hook was paused or deleted meanwhile: the delivery fails at once.
SkipInactive(d, recs, idle) ==
    /\ ~Active(recs[d].hook)
    /\ deliveries' = Marked(recs, d, "failed")
    /\ resting' = idle + 1
    /\ UNCHANGED <<inflight, alive, sent>>

\* Sign and POST: the loop awaits fetch().
Post(d, recs, idle) ==
    /\ Active(recs[d].hook)
    /\ hooks[recs[d].hook].signs
    /\ deliveries' = Attempted(recs, d)
    /\ inflight' = inflight \cup {d}
    /\ sent' = [sent EXCEPT ![d] = @ + 1]
    /\ resting' = idle
    /\ UNCHANGED alive

\* createHmac throws on a secret that is no string, outside the try: nobody
\* awaits processQueue(), so the rejection is unhandled and the process exits.
SignatureThrows(d, recs, idle) ==
    /\ Active(recs[d].hook)
    /\ ~hooks[recs[d].hook].signs
    /\ deliveries' = Attempted(recs, d)
    /\ alive' = FALSE
    /\ resting' = idle
    /\ UNCHANGED <<inflight, sent>>

ProcessDelivery(d, recs, idle) ==
    \/ SkipInactive(d, recs, idle)
    \/ Post(d, recs, idle)
    \/ SignatureThrows(d, recs, idle)

ProcessQueue(q, recs, idle) ==
    \/ /\ q = <<>>
       /\ isProcessing' = FALSE
       /\ queue' = q
       /\ deliveries' = recs
       /\ resting' = idle
       /\ UNCHANGED <<inflight, alive, sent>>
    \/ /\ q # <<>>
       /\ isProcessing' = TRUE
       /\ queue' = Tail(q)
       /\ ProcessDelivery(Head(q), recs, idle)

\* if (!this.isProcessing) this.processQueue();
Wake(q, recs) ==
    \/ /\ isProcessing
       /\ queue' = q
       /\ deliveries' = recs
       /\ UNCHANGED <<isProcessing, inflight, resting, alive, sent>>
    \/ /\ ~isProcessing
       /\ ProcessQueue(q, recs, resting)

\* The awaited delivery is done: the loop takes the next one or ends.
LoopResumes ==
    /\ alive
    /\ resting > 0
    /\ ProcessQueue(queue, deliveries, resting - 1)
    /\ UNCHANGED <<registered, hooks, created, timers, redelivered, threw>>

-----------------------------------------------------------------------------
(* The hooks.                                                                *)

\* The body of the POST gives the secret, too; a missing one is drawn.
RegisterWebhook(ok) ==
    /\ alive
    /\ registered < MaxHooks
    /\ ok \/ <<registered + 1, "secret">> \in Edits
    /\ registered' = registered + 1
    /\ hooks' = [hooks EXCEPT ![registered + 1].status = "active",
                              ![registered + 1].signs = ok]
    /\ UNCHANGED <<queueVars, alive, history>>

\* The body of the PUT is spread over the record: any field may change, the id
\* and the secret included.
UpdateWebhook(h) ==
    /\ alive
    /\ Exists(h)
    /\ \/ /\ <<h, "status">> \in Edits
          /\ \E s \in {"active", "inactive"} : hooks' = [hooks EXCEPT ![h].status = s]
       \/ /\ <<h, "secret">> \in Edits
          /\ \E ok \in BOOLEAN : hooks' = [hooks EXCEPT ![h].signs = ok]
       \/ /\ <<h, "id">> \in Edits
          /\ \E i \in Hooks \cup {UnknownId} : hooks' = [hooks EXCEPT ![h].id = i]
    /\ UNCHANGED <<registered, queueVars, alive, history>>

DeleteWebhook(h) ==
    /\ alive
    /\ Exists(h)
    /\ hooks' = [hooks EXCEPT ![h].status = "absent"]
    /\ UNCHANGED <<registered, queueVars, alive, history>>

-----------------------------------------------------------------------------
(* The events.  f lists, in the order of the Map, the active hooks           *)
(* subscribed to the event for which a delivery is created.                  *)

Subscribers(f) ==
    /\ created + Len(f) <= MaxDeliveries
    /\ \A i \in 1 .. Len(f) : Active(f[i]) /\ Exists(hooks[f[i]].id)
    /\ \A i, j \in 1 .. Len(f) : i < j => f[i] < f[j]

\* createDelivery looks the record's own id up, and files the delivery there.
WithBatch(f) ==
    [d \in Deliveries |->
        IF d \in created + 1 .. created + Len(f)
        THEN [hook |-> hooks[f[d - created]].id, status |-> "pending", attempts |-> 0]
        ELSE deliveries[d]]

\* Mistake: new deliveries jump the queue.
QueueBatchFirst(f) == [i \in 1 .. Len(f) |-> created + i] \o queue

QueueBatch(f) == queue \o [i \in 1 .. Len(f) |-> created + i]

TriggerEvent(f) ==
    /\ alive
    /\ Subscribers(f)
    /\ created' = created + Len(f)
    /\ Wake(QueueBatch(f), WithBatch(f))
    /\ UNCHANGED <<registered, hooks, timers, redelivered, threw>>

\* The next subscriber's id names no hook: createDelivery throws, what was
\* queued before stays queued and the loop is not woken.
TriggerThrows(f, h) ==
    /\ alive
    /\ Subscribers(f)
    /\ Active(h)
    /\ ~Exists(hooks[h].id)
    /\ \A i \in 1 .. Len(f) : f[i] < h
    /\ created' = created + Len(f)
    /\ queue' = QueueBatch(f)
    /\ deliveries' = WithBatch(f)
    /\ threw' = TRUE
    /\ UNCHANGED <<registered, hooks, isProcessing, inflight, resting, timers,
                   alive, sent, redelivered>>

-----------------------------------------------------------------------------
(* The outcome of a POST.                                                    *)

FetchDone(d) ==
    /\ alive
    /\ d \in inflight
    /\ inflight' = inflight \ {d}
    /\ resting' = resting + 1
    /\ UNCHANGED <<registered, hooks, created, queue, isProcessing, alive, history>>

FetchOk(d) ==
    /\ FetchDone(d)
    /\ deliveries' = Marked(deliveries, d, "delivered")
    /\ UNCHANGED timers

\* Mistake: the last attempt is followed by one more.
FetchFailsOnceMore(d) ==
    /\ FetchDone(d)
    /\ \/ /\ deliveries[d].attempts <= MaxRetries
          /\ timers' = timers \cup {d}
          /\ UNCHANGED deliveries
       \/ /\ deliveries[d].attempts > MaxRetries
          /\ deliveries' = Marked(deliveries, d, "failed")
          /\ UNCHANGED timers

\* Mistake: a delivery given up keeps its retry timer.
FetchFailsTwice(d) ==
    /\ FetchDone(d)
    /\ timers' = timers \cup {d}
    /\ \/ /\ deliveries[d].attempts < MaxRetries
          /\ UNCHANGED deliveries
       \/ /\ deliveries[d].attempts >= MaxRetries
          /\ deliveries' = Marked(deliveries, d, "failed")

\* An HTTP error, a network error, or the deadline: the receiver may have heard
\* the event all the same.
FetchFails(d) ==
    /\ FetchDone(d)
    /\ \/ /\ deliveries[d].attempts < MaxRetries
          /\ timers' = timers \cup {d}
          /\ UNCHANGED deliveries
       \/ /\ deliveries[d].attempts >= MaxRetries
          /\ deliveries' = Marked(deliveries, d, "failed")
          /\ UNCHANGED timers

\* Mistake: the timer's callback queues the delivery and wakes nobody.
RetryTimerSilent(d) ==
    /\ alive
    /\ d \in timers
    /\ timers' = timers \ {d}
    /\ queue' = Append(queue, d)
    /\ UNCHANGED <<registered, hooks, created, deliveries, isProcessing, inflight,
                   resting, alive, history>>

RetryTimer(d) ==
    /\ alive
    /\ d \in timers
    /\ timers' = timers \ {d}
    /\ Wake(Append(queue, d), deliveries)
    /\ UNCHANGED <<registered, hooks, created, redelivered, threw>>

\* Mistake: a delivered event may be sent again, too.
RetryFinished(d) ==
    /\ alive
    /\ d <= created
    /\ deliveries[d].status \in Finished
    /\ redelivered[d] < MaxRedeliveries
    /\ redelivered' = [redelivered EXCEPT ![d] = @ + 1]
    /\ Wake(Append(queue, d), Reopened(deliveries, d))
    /\ UNCHANGED <<registered, hooks, created, timers, threw>>

\* POST /webhooks/deliveries/:id/retry.
RetryDelivery(d) ==
    /\ alive
    /\ d <= created
    /\ deliveries[d].status = "failed"
    /\ redelivered[d] < MaxRedeliveries
    /\ redelivered' = [redelivered EXCEPT ![d] = @ + 1]
    /\ Wake(Append(queue, d), Reopened(deliveries, d))
    /\ UNCHANGED <<registered, hooks, created, timers, threw>>

-----------------------------------------------------------------------------
Batches == UNION {[1 .. n -> Hooks] : n \in 0 .. MaxHooks}

Next ==
    \/ \E ok \in BOOLEAN : RegisterWebhook(ok)
    \/ \E h \in Hooks : UpdateWebhook(h) \/ DeleteWebhook(h)
    \/ \E f \in Batches : TriggerEvent(f)
    \/ \E f \in Batches, h \in Hooks : TriggerThrows(f, h)
    \/ LoopResumes
    \/ \E d \in Deliveries :
          FetchOk(d) \/ FetchFails(d) \/ RetryTimer(d) \/ RetryDelivery(d)

Spec == Init /\ [][Next]_vars

\* Microtasks and timers run; a fetch ends, by its AbortController at the
\* latest.  Nobody has to trigger, update or retry anything.
FairSpec ==
    /\ Spec
    /\ WF_vars(LoopResumes)
    /\ \A d \in Deliveries :
          WF_vars(FetchOk(d) \/ FetchFails(d)) /\ WF_vars(RetryTimer(d))

-----------------------------------------------------------------------------
(* Properties.                                                               *)

\* Every variable keeps its shape, and no delivery record counts more attempts
\* than maxRetries allows.
TypeOK ==
    /\ registered \in 0 .. MaxHooks
    /\ hooks \in [Hooks -> Hook]
    /\ created \in 0 .. MaxDeliveries
    /\ deliveries \in [Deliveries -> Delivery]
    /\ queue \in Seq(Deliveries)
    /\ isProcessing \in BOOLEAN
    /\ inflight \in SUBSET Deliveries
    /\ resting \in Nat
    /\ timers \in SUBSET Deliveries
    /\ alive \in BOOLEAN
    /\ sent \in [Deliveries -> Nat]
    /\ redelivered \in [Deliveries -> 0 .. MaxRedeliveries]
    /\ threw \in BOOLEAN

\* While the process runs, an unfinished delivery is in exactly one place: once
\* in the queue, in flight, or waiting for its timer; a finished one is nowhere,
\* so that no late timer or queue entry posts it again.
Residence ==
    /\ \A i, j \in 1 .. Len(queue) : queue[i] = queue[j] => i = j
    /\ Queued \cap inflight = {}
    /\ Queued \cap timers = {}
    /\ inflight \cap timers = {}
    /\ alive => \A d \in Deliveries :
          (deliveries[d].status \in {"pending", "retrying"})
              <=> d \in Queued \cup inflight \cup timers

\* At most one processQueue loop exists, and isProcessing tells whether it does:
\* deliveries are posted one at a time.
SingleLoop ==
    alive =>
      /\ \A d, e \in inflight : d = e
      /\ resting > 0 => resting = 1 /\ inflight = {}
      /\ isProcessing <=> (resting > 0 \/ inflight # {})

\* No wakeup is lost: with no loop running nothing is queued, unless a
\* triggerEvent threw between queueing and waking the loop.
IdleMeansDrained ==
    (alive /\ ~threw /\ ~isProcessing) => queue = <<>>

\* The budget of POSTs: maxRetries for the delivery and as many again for every
\* explicit retry, whatever timers, pauses and retries interleave.
PostsBounded ==
    \A d \in Deliveries : sent[d] <= Tries * (1 + redelivered[d])

\* First attempts are made in the order of the events: a delivery is not posted
\* while an older one that nobody retried by hand was never tried.
FirstAttemptsInOrder ==
    \A d, e \in Deliveries :
        (d < e /\ sent[e] > 0)
            => sent[d] > 0 \/ deliveries[d].status = "failed" \/ redelivered[d] > 0

\* A delivered event is never posted again, and a failed one only by a retry.
FinishedIsFinal ==
    [][\A d \in Deliveries :
        /\ deliveries[d].status = "delivered" =>
              deliveries'[d] = deliveries[d] /\ sent'[d] = sent[d]
        /\ (deliveries[d].status = "failed" /\ redelivered'[d] = redelivered[d]) =>
              deliveries'[d] = deliveries[d] /\ sent'[d] = sent[d]]_vars

\* Every delivery is eventually delivered or given up, unless a bad secret took
\* the process down or a trigger that threw left the queue without a loop.
DeliveriesSettle ==
    \A d \in Deliveries :
        (d <= created) ~> (deliveries[d].status \in Finished \/ ~alive \/ threw)

============================================================================
