--------------------------- MODULE EventConsumer ---------------------------
(***************************************************************************)
(* The auth.login stream: login() publishes with XADD, every API process    *)
(* runs one _consumer_loop, and all loops read in the same group under the  *)
(* same consumer name.  An entry is its position in the stream.  Each Redis *)
(* command is one step; a command that raises may or may not have been      *)
(* applied, and the loop then drops its batch and starts over.              *)
(***************************************************************************)
EXTENDS Integers, Sequences, FiniteSets

CONSTANTS
    Logins,             \* login() calls that publish
    Loops,              \* API processes, one _consumer_loop each
    EVENT_MAX_RETRIES,
    EVENT_STREAM_MAXLEN,
    NewCount,           \* XREADGROUP count: 10 in the code
    PendingCount,       \* XPENDING count: 100 in the code
    MaxFaults           \* bound: commands that raise, crashes and expired keys

ASSUME LoginsAssumption == IsFiniteSet(Logins)
ASSUME CountsAssumption ==
    /\ EVENT_MAX_RETRIES \in Nat
    /\ EVENT_STREAM_MAXLEN \in Nat \ {0}
    /\ NewCount \in Nat \ {0}
    /\ PendingCount \in Nat \ {0}
    /\ MaxFaults \in Nat

VARIABLES
    stream,     \* the logins in the order of their XADDs, trimmed ones too
    trim,       \* entries 1 .. trim are gone from the stream
    delivered,  \* the group's last delivered entry
    pel,        \* its pending entries
    retries,    \* event_retry:{entry}; 0 where there is no key
    dlq,        \* entries appended to the dead letter stream
    handled,    \* entries whose handler has returned
    failures,   \* entry -> how often its handler has raised, up to the limit
    publish,    \* login -> where its publication is
    pc,         \* loop -> where it is
    seen,       \* loop -> the entries its XPENDING returned
    batch,      \* loop -> the entries it has still to process
    count,      \* loop -> the retry_count it read
    faults

streamVars == <<stream, trim>>
groupVars == <<delivered, pel>>
outcomeVars == <<dlq, handled, failures>>
loopVars == <<pc, seen, batch, count>>
vars == <<streamVars, groupVars, retries, outcomeVars, publish, loopVars, faults>>

\* login() publishes at most twice, so a login has at most two entries.
Entries == 1 .. 2 * Cardinality(Logins)
LoopStates == {"down", "pending", "claiming", "new", "next", "handling",
               "dlq", "cleanup", "ack"}

Init ==
    /\ stream = <<>> /\ trim = 0 /\ delivered = 0 /\ pel = {}
    /\ retries = [e \in Entries |-> 0]
    /\ dlq = {} /\ handled = {}
    /\ failures = [e \in Entries |-> 0]
    /\ publish = [g \in Logins |-> "first"]
    /\ pc = [l \in Loops |-> "pending"]
    /\ seen = [l \in Loops |-> {}]
    /\ batch = [l \in Loops |-> {}]
    /\ count = [l \in Loops |-> 0]
    /\ faults = 0

Goto(l, label) == pc' = [pc EXCEPT ![l] = label]

\* A Redis command raises, a process dies or a key expires.
Fault == faults < MaxFaults /\ faults' = faults + 1

\* An exception reaches the loop, which forgets its batch and starts over.
StartOver(l) ==
    /\ Goto(l, "pending")
    /\ batch' = [batch EXCEPT ![l] = {}]
    /\ seen' = [seen EXCEPT ![l] = {}]
    /\ count' = [count EXCEPT ![l] = 0]

-----------------------------------------------------------------------------
(* login(): publish *)

\* MAXLEN ~ trims when it can drop whole nodes, so it may also keep more.
Append1(g) ==
    /\ stream' = Append(stream, g)
    /\ trim' \in {trim} \cup {n \in {Len(stream') - EVENT_STREAM_MAXLEN} : n > trim}

Unchanged1 == UNCHANGED <<groupVars, retries, outcomeVars, loopVars>>

Publish(g) ==
    /\ publish[g] \in {"first", "second"}
    /\ Append1(g)
    /\ publish' = [publish EXCEPT ![g] = "done"]
    /\ UNCHANGED faults /\ Unchanged1

\* publish() raises RedisOutageError: once it is repeated, twice it is logged.
PublishRaises(g) ==
    /\ publish[g] \in {"first", "second"}
    /\ Fault
    /\ Append1(g) \/ UNCHANGED streamVars
    /\ publish' = [publish EXCEPT ![g] = IF @ = "first" THEN "second" ELSE "done"]
    /\ Unchanged1

-----------------------------------------------------------------------------
(* read_pending and read_new *)

Unchanged2 == UNCHANGED <<streamVars, retries, outcomeVars, publish>>

\* XPENDING lists the oldest pending entries of every consumer of the group.
Oldest == {e \in pel : Cardinality({f \in pel : f < e}) < PendingCount}

XPending(l) ==
    /\ pc[l] = "pending"
    /\ seen' = [seen EXCEPT ![l] = Oldest]
    /\ Goto(l, IF pel = {} THEN "new" ELSE "claiming")
    /\ UNCHANGED <<groupVars, batch, count, faults>> /\ Unchanged2

\* XCLAIM with no minimum idle time takes whatever is still pending, out of
\* the hands of another loop too, and drops pending entries that were trimmed.
XClaim(l) ==
    /\ pc[l] = "claiming"
    /\ LET claimed == {e \in seen[l] \cap pel : e > trim}
       IN  /\ batch' = [batch EXCEPT ![l] = claimed]
           /\ Goto(l, IF claimed = {} THEN "new" ELSE "next")
    /\ pel' = {e \in pel : e \in seen[l] => e > trim}
    /\ seen' = [seen EXCEPT ![l] = {}]
    /\ UNCHANGED <<delivered, count, faults>> /\ Unchanged2

\* The entries XREADGROUP would deliver.
Undelivered ==
    LET from == IF trim > delivered THEN trim ELSE delivered
    IN  {e \in Entries : from < e /\ e <= Len(stream) /\ e <= from + NewCount}

Deliver ==
    /\ Undelivered # {}
    /\ delivered' \in Undelivered
    /\ \A e \in Undelivered : e <= delivered'
    /\ pel' = pel \cup Undelivered

XReadGroup(l) ==
    /\ pc[l] = "new"
    /\ Deliver
    /\ batch' = [batch EXCEPT ![l] = Undelivered]
    /\ Goto(l, "next")
    /\ UNCHANGED <<seen, count, faults>> /\ Unchanged2

XReadGroupTimesOut(l) ==
    /\ pc[l] = "new"
    /\ Undelivered = {}
    /\ StartOver(l)
    /\ UNCHANGED <<groupVars, faults>> /\ Unchanged2

\* The reply is lost: the entries are pending and in nobody's hands.
ReadRaises(l) ==
    /\ pc[l] \in {"pending", "claiming", "new"}
    /\ Fault
    /\ (pc[l] = "new" /\ Deliver) \/ UNCHANGED groupVars
    /\ StartOver(l)
    /\ Unchanged2

-----------------------------------------------------------------------------
(* _dispatch_event and ack, entry by entry *)

IsNext(l, e) == e \in batch[l] /\ \A f \in batch[l] : e <= f

Unchanged3 == UNCHANGED <<streamVars, delivered, publish, seen>>

\* A read that raises falls back to the fresh payload, which has no count.
ReadCount(l) ==
    /\ pc[l] = "next"
    /\ \E e \in batch[l] :
        /\ IsNext(l, e)
        /\ \/ /\ count' = [count EXCEPT ![l] = retries[e]]
              /\ UNCHANGED faults
           \/ /\ Fault
              /\ count' = [count EXCEPT ![l] = 0]
    /\ Goto(l, "handling")
    /\ UNCHANGED <<pel, retries, outcomeVars, batch>> /\ Unchanged3

BatchDone(l) ==
    /\ pc[l] = "next" /\ batch[l] = {}
    /\ Goto(l, "pending")
    /\ UNCHANGED <<pel, retries, outcomeVars, batch, count, faults>> /\ Unchanged3

HandlerReturns(l) ==
    /\ pc[l] = "handling"
    /\ \E e \in batch[l] : IsNext(l, e) /\ handled' = handled \cup {e}
    /\ Goto(l, "cleanup")
    /\ UNCHANGED <<pel, retries, dlq, failures, batch, count, faults>> /\ Unchanged3

\* The history of failures stops counting where nothing depends on it.
Failed(e) ==
    failures' = [failures EXCEPT ![e] = IF @ > EVENT_MAX_RETRIES THEN @ ELSE @ + 1]

\* Mutant: the retry count lives in the payload the loop is about to drop.
HandlerRaisesInMemory(l) ==
    /\ pc[l] = "handling" /\ count[l] < EVENT_MAX_RETRIES
    /\ \E e \in batch[l] : IsNext(l, e) /\ Failed(e)
    /\ StartOver(l)
    /\ UNCHANGED <<streamVars, groupVars, retries, dlq, handled, publish, faults>>

\* HINCRBY, then the handler's exception is raised again.
HandlerRaises(l) ==
    /\ pc[l] = "handling" /\ count[l] < EVENT_MAX_RETRIES
    /\ \E e \in batch[l] :
        /\ IsNext(l, e)
        /\ Failed(e)
        /\ \/ /\ retries' = [retries EXCEPT ![e] = @ + 1]
              /\ UNCHANGED faults
           \/ /\ Fault
              /\ UNCHANGED retries
    /\ StartOver(l)
    /\ UNCHANGED <<streamVars, groupVars, dlq, handled, publish>>

\* Mutant: the limit is off by one.
ExhaustedOffByOne(l) ==
    /\ pc[l] = "handling" /\ count[l] + 1 >= EVENT_MAX_RETRIES
    /\ \E e \in batch[l] : IsNext(l, e) /\ Failed(e)
    /\ Goto(l, "dlq")
    /\ UNCHANGED <<pel, retries, dlq, handled, batch, count, faults>> /\ Unchanged3

\* Mutant: the retry count is dropped before the dead letter is durable.
ExhaustedForgets(l) ==
    /\ pc[l] = "handling" /\ count[l] >= EVENT_MAX_RETRIES
    /\ \E e \in batch[l] :
        IsNext(l, e) /\ Failed(e) /\ retries' = [retries EXCEPT ![e] = 0]
    /\ Goto(l, "dlq")
    /\ UNCHANGED <<pel, dlq, handled, batch, count, faults>> /\ Unchanged3

HandlerExhausted(l) ==
    /\ pc[l] = "handling" /\ count[l] >= EVENT_MAX_RETRIES
    /\ \E e \in batch[l] : IsNext(l, e) /\ Failed(e)
    /\ Goto(l, "dlq")
    /\ UNCHANGED <<pel, retries, dlq, handled, batch, count, faults>> /\ Unchanged3

AppendToDlq(l) ==
    /\ pc[l] = "dlq"
    /\ \E e \in batch[l] : IsNext(l, e) /\ dlq' = dlq \cup {e}
    /\ Goto(l, "cleanup")
    /\ UNCHANGED <<pel, retries, handled, failures, batch, count, faults>> /\ Unchanged3

\* Mutant: a failed append is logged and the entry acknowledged.
DlqRaisesSwallowed(l) ==
    /\ pc[l] = "dlq"
    /\ Fault
    /\ Goto(l, "cleanup")
    /\ UNCHANGED <<pel, retries, outcomeVars, batch, count>> /\ Unchanged3

DlqRaises(l) ==
    /\ pc[l] = "dlq"
    /\ Fault
    /\ \/ \E e \in batch[l] : IsNext(l, e) /\ dlq' = dlq \cup {e}
       \/ UNCHANGED dlq
    /\ StartOver(l)
    /\ UNCHANGED <<streamVars, groupVars, retries, handled, failures, publish>>

\* _cleanup_retry_key is best effort.
CleanupRetryKey(l) ==
    /\ pc[l] = "cleanup"
    /\ \/ /\ \E e \in batch[l] : IsNext(l, e) /\ retries' = [retries EXCEPT ![e] = 0]
          /\ UNCHANGED faults
       \/ Fault /\ UNCHANGED retries
    /\ Goto(l, "ack")
    /\ UNCHANGED <<pel, outcomeVars, batch, count>> /\ Unchanged3

Ack(l) ==
    /\ pc[l] = "ack"
    /\ \E e \in batch[l] :
        /\ IsNext(l, e)
        /\ pel' = pel \ {e}
        /\ batch' = [batch EXCEPT ![l] = @ \ {e}]
    /\ Goto(l, "next")
    /\ count' = [count EXCEPT ![l] = 0]
    /\ UNCHANGED <<retries, outcomeVars, faults>> /\ Unchanged3

AckRaises(l) ==
    /\ pc[l] = "ack"
    /\ Fault
    /\ \/ \E e \in batch[l] : IsNext(l, e) /\ pel' = pel \ {e}
       \/ UNCHANGED pel
    /\ StartOver(l)
    /\ UNCHANGED <<streamVars, delivered, retries, outcomeVars, publish>>

-----------------------------------------------------------------------------
(* The processes and the clock *)

\* The process dies, or lifespan stops or cancels the loop.
Stop(l) ==
    /\ pc[l] # "down"
    /\ Fault
    /\ Goto(l, "down")
    /\ batch' = [batch EXCEPT ![l] = {}]
    /\ seen' = [seen EXCEPT ![l] = {}]
    /\ count' = [count EXCEPT ![l] = 0]
    /\ UNCHANGED groupVars /\ Unchanged2

Restart(l) ==
    /\ pc[l] = "down"
    /\ Goto(l, "pending")
    /\ UNCHANGED <<groupVars, batch, seen, count, faults>> /\ Unchanged2

\* EVENT_RETRY_TTL_SECONDS pass without another failure.
ExpireRetryKey(e) ==
    /\ retries[e] > 0
    /\ Fault
    /\ retries' = [retries EXCEPT ![e] = 0]
    /\ UNCHANGED <<streamVars, groupVars, outcomeVars, publish, loopVars>>

Step(l) ==
    \/ XPending(l) \/ XClaim(l) \/ XReadGroup(l) \/ XReadGroupTimesOut(l)
    \/ ReadCount(l) \/ BatchDone(l)
    \/ HandlerReturns(l) \/ HandlerRaises(l) \/ HandlerExhausted(l)
    \/ AppendToDlq(l) \/ CleanupRetryKey(l) \/ Ack(l)
    \/ Restart(l)

Next ==
    \/ \E g \in Logins : Publish(g) \/ PublishRaises(g)
    \/ \E l \in Loops : Step(l) \/ ReadRaises(l) \/ DlqRaises(l) \/ AckRaises(l) \/ Stop(l)
    \/ \E e \in Entries : ExpireRetryKey(e)

Spec == Init /\ [][Next]_vars

\* A loop that runs goes on, and a process that is down is restarted.  Nothing
\* makes a login happen, a command fail or a process stop.
FairSpec == Spec /\ \A l \in Loops : WF_vars(Step(l))

-----------------------------------------------------------------------------
(* Properties *)

TypeOK ==
    /\ stream \in Seq(Logins)
    /\ trim \in 0 .. Len(stream)
    /\ delivered \in 0 .. Len(stream)
    /\ pel \subseteq Entries
    /\ retries \in [Entries -> Nat]
    /\ dlq \subseteq Entries /\ handled \subseteq Entries
    /\ failures \in [Entries -> 0 .. EVENT_MAX_RETRIES + 1]
    /\ publish \in [Logins -> {"first", "second", "done"}]
    /\ pc \in [Loops -> LoopStates]
    /\ seen \in [Loops -> SUBSET Entries]
    /\ batch \in [Loops -> SUBSET Entries]
    /\ count \in [Loops -> Nat]
    /\ faults \in 0 .. MaxFaults

\* The _consumer_loop docstring: messages stranded by a crash are not lost.  An
\* entry the group has delivered leaves the pending list only when its handler
\* returned, it is in the dead letter stream, or MAXLEN dropped it.
NoSilentLoss ==
    \A e \in 1 .. delivered :
        e \in pel \/ e \in handled \/ e \in dlq \/ e <= trim

\* An entry is in the dead letter stream only when its handler raised once more
\* than EVENT_MAX_RETRIES: concurrent loops, crashes and lost replies never
\* charge an entry a retry that did not happen.
DeadOnlyAfterRetries ==
    \A e \in dlq : failures[e] > EVENT_MAX_RETRIES

\* A stored retry count counts handlers that raised.
CountsFailures ==
    \A e \in Entries : failures[e] > EVENT_MAX_RETRIES \/ retries[e] <= failures[e]

\* What a loop may rely on about the entry it is processing: its count is
\* covered by failures, and it acknowledges only what has an outcome.
Knows(l) ==
    \A e \in batch[l] : IsNext(l, e) =>
        /\ pc[l] = "handling" => failures[e] > EVENT_MAX_RETRIES \/ count[l] <= failures[e]
        /\ pc[l] = "dlq" => failures[e] > EVENT_MAX_RETRIES
        /\ pc[l] \in {"cleanup", "ack"} => e \in handled \cup dlq

Inv ==
    /\ TypeOK /\ NoSilentLoss /\ DeadOnlyAfterRetries /\ CountsFailures
    /\ \A l \in Loops : Knows(l)

\* "Clear the counter only after durable DLQ persistence": a retry count goes
\* down only for an entry that is handled or in the dead letter stream, or by
\* its expiry.
ExhaustionIsRemembered ==
    [][\A e \in Entries :
        retries'[e] < retries[e] => e \in handled \cup dlq \/ ExpireRetryKey(e)]_vars

\* Every entry is eventually handled, dead lettered or trimmed: a handler that
\* keeps raising never blocks the entries behind it for ever.
EventSettled ==
    \A e \in Entries : e <= Len(stream) ~> e \in handled \cup dlq \/ e <= trim

=============================================================================
