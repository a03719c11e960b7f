------------------------ MODULE EventConsumerProofs ------------------------
(***************************************************************************)
(* No event of the stream is lost and none is dead lettered early, for any  *)
(* number of API processes, logins and faults and for every retry limit.    *)
(***************************************************************************)
EXTENDS EventConsumer, FiniteSetTheorems, TLAPS

\* Entries are positions of the stream.
LEMMA EntriesAreNat == Entries \subseteq Nat
BY LoginsAssumption, FS_CardinalityType DEF Entries

\* The stream is empty, so is everything that is said of its entries.
LEMMA InitInv == Init => Inv
BY CountsAssumption
DEF Init, Inv, TypeOK, NoSilentLoss, DeadOnlyAfterRetries, CountsFailures,
    Knows, LoopStates

\* What is said of loops and counts depends on nothing but these variables.
LEMMA CountsUnchanged ==
    ASSUME DeadOnlyAfterRetries, CountsFailures, \A k \in Loops : Knows(k),
           UNCHANGED <<retries, dlq, handled, failures, pc, batch, count>>
    PROVE  DeadOnlyAfterRetries' /\ CountsFailures' /\ \A k \in Loops : Knows(k)'
BY DEF DeadOnlyAfterRetries, CountsFailures, Knows, IsNext

\* What a loop relies on survives the steps of the others: outcomes and failures
\* only accumulate.
LEMMA OthersKnow ==
    ASSUME TypeOK, TypeOK', NEW k \in Loops, Knows(k),
           pc'[k] = pc[k], batch'[k] = batch[k], count'[k] = count[k],
           handled \subseteq handled', dlq \subseteq dlq',
           \A e \in Entries : failures[e] <= failures'[e]
    PROVE  Knows(k)'
<1> SUFFICES ASSUME NEW e \in batch'[k], IsNext(k, e)'
             PROVE  /\ pc'[k] = "handling" => failures'[e] > EVENT_MAX_RETRIES
                                               \/ count'[k] <= failures'[e]
                    /\ pc'[k] = "dlq" => failures'[e] > EVENT_MAX_RETRIES
                    /\ pc'[k] \in {"cleanup", "ack"} => e \in handled' \cup dlq'
  BY DEF Knows
<1>1. e \in batch[k] /\ IsNext(k, e)
  BY DEF IsNext
<1>2. /\ e \in Entries /\ count[k] \in Nat
      /\ failures[e] \in Int /\ failures'[e] \in Int /\ failures[e] <= failures'[e]
  BY <1>1, CountsAssumption DEF TypeOK
<1> QED
  BY <1>1, <1>2, CountsAssumption DEF Knows

\* A loop that is between entries relies on nothing.
LEMMA IdleKnows ==
    ASSUME NEW l \in Loops, pc'[l] \notin {"handling", "dlq", "cleanup", "ack"}
    PROVE  Knows(l)'
BY DEF Knows

\* Publishing appends to the stream and trims it, and touches nothing else.
LEMMA PublishInv ==
    ASSUME Inv, NEW g \in Logins, Publish(g) \/ PublishRaises(g)
    PROVE  Inv'
<1>1. stream \in Seq(Logins) /\ trim \in 0 .. Len(stream) /\ delivered \in 0 .. Len(stream)
  BY DEF Inv, TypeOK
<1>2. /\ stream' \in Seq(Logins) /\ Len(stream') >= Len(stream)
      /\ trim' \in trim .. Len(stream')
  <2>1. CASE Append1(g)
    <3>1. stream' \in Seq(Logins) /\ Len(stream') = Len(stream) + 1
      BY <1>1, <2>1 DEF Append1
    <3> QED
      BY <1>1, <2>1, <3>1, CountsAssumption DEF Append1
  <2>2. CASE UNCHANGED streamVars
    BY <1>1, <2>2 DEF streamVars
  <2> QED
    BY <2>1, <2>2 DEF Publish, PublishRaises
<1>3. Unchanged1
  BY DEF Publish, PublishRaises
<1>4. /\ publish' \in [Logins -> {"first", "second", "done"}]
      /\ faults' \in 0 .. MaxFaults
  <2>1. publish \in [Logins -> {"first", "second", "done"}] /\ faults \in 0 .. MaxFaults
    BY DEF Inv, TypeOK
  <2>2. \E x \in {"second", "done"} : publish' = [publish EXCEPT ![g] = x]
    BY DEF Publish, PublishRaises
  <2> QED
    BY <2>1, <2>2, CountsAssumption DEF Publish, PublishRaises, Fault
<1>5. TypeOK'
  BY <1>1, <1>2, <1>3, <1>4
  DEF Unchanged1, groupVars, outcomeVars, loopVars, Inv, TypeOK
<1>6. NoSilentLoss'
  BY <1>1, <1>2, <1>3 DEF Unchanged1, groupVars, outcomeVars, Inv, NoSilentLoss
<1>7. DeadOnlyAfterRetries' /\ CountsFailures' /\ \A k \in Loops : Knows(k)'
  BY <1>3, CountsUnchanged DEF Unchanged1, loopVars, outcomeVars, Inv
<1> QED
  BY <1>5, <1>6, <1>7 DEF Inv

\* What XREADGROUP delivers is pending, and what it passes over was trimmed.
LEMMA DeliverFacts ==
    ASSUME TypeOK, NoSilentLoss, Deliver
    PROVE  /\ delivered' \in 0 .. Len(stream)
           /\ Undelivered \subseteq Entries
           /\ pel' = pel \cup Undelivered
           /\ \A e \in 1 .. delivered' :
                 e \in pel' \/ e \in handled \/ e \in dlq \/ e <= trim
<1> USE CountsAssumption, EntriesAreNat
<1> DEFINE from == IF trim > delivered THEN trim ELSE delivered
<1>1. /\ Len(stream) \in Nat /\ trim \in Nat /\ delivered \in Nat /\ from \in Nat
  BY DEF TypeOK
<1>2. /\ delivered' \in Entries /\ from < delivered'
      /\ delivered' <= Len(stream) /\ delivered' <= from + NewCount
  BY DEF Deliver, Undelivered
<1>3. ASSUME NEW e \in 1 .. delivered', ~(e <= delivered), ~(e <= trim)
      PROVE  e \in Undelivered
  <2>1. e \in Entries
    BY <1>2, LoginsAssumption, FS_CardinalityType DEF Entries
  <2> QED
    BY <1>1, <1>2, <1>3, <2>1 DEF Undelivered
<1>4. ASSUME NEW e \in 1 .. delivered'
      PROVE  e \in pel' \/ e \in handled \/ e \in dlq \/ e <= trim
  <2>1. CASE e <= delivered
    BY <2>1, <1>1 DEF NoSilentLoss, Deliver
  <2>2. CASE ~(e <= delivered) /\ ~(e <= trim)
    BY <2>2, <1>3 DEF Deliver
  <2> QED
    BY <2>1, <2>2
<1> QED
  BY <1>1, <1>2, <1>4 DEF Deliver, Undelivered

\* The steps that read the stream or go back to reading it.
LEMMA ReadInv ==
    ASSUME Inv, NEW l \in Loops,
           \/ XPending(l) \/ XClaim(l) \/ XReadGroup(l) \/ XReadGroupTimesOut(l)
           \/ ReadRaises(l) \/ Stop(l) \/ Restart(l) \/ BatchDone(l)
    PROVE  Inv'
<1> USE CountsAssumption
<1>1. TypeOK /\ NoSilentLoss
  BY DEF Inv
<1>2. UNCHANGED <<stream, trim, retries, dlq, handled, failures, publish>>
  BY DEF XPending, XClaim, XReadGroup, XReadGroupTimesOut, ReadRaises, Stop, Restart,
         BatchDone, Unchanged2, Unchanged3, streamVars, outcomeVars
<1>3. /\ pc'[l] \in {"down", "pending", "claiming", "new", "next"}
      /\ pc' \in [Loops -> LoopStates]
      /\ \A k \in Loops \ {l} : /\ pc'[k] = pc[k] /\ batch'[k] = batch[k]
                                /\ count'[k] = count[k]
  BY <1>1
  DEF XPending, XClaim, XReadGroup, XReadGroupTimesOut, ReadRaises, Stop, Restart,
      BatchDone, Goto, StartOver, TypeOK, LoopStates
<1>4. faults' \in 0 .. MaxFaults /\ count' \in [Loops -> Nat]
  BY <1>1
  DEF XPending, XClaim, XReadGroup, XReadGroupTimesOut, ReadRaises, Stop, Restart,
      BatchDone, StartOver, Fault, TypeOK
<1>5. /\ delivered' \in 0 .. Len(stream) /\ pel' \subseteq Entries
      /\ seen' \in [Loops -> SUBSET Entries] /\ batch' \in [Loops -> SUBSET Entries]
      /\ NoSilentLoss'
  <2> USE <1>1, <1>2
  <2>1. CASE XPending(l)
    BY <2>1 DEF XPending, Oldest, groupVars, TypeOK, NoSilentLoss
  <2>2. CASE XClaim(l)
    <3>1. pel' \subseteq pel /\ \A e \in pel \ pel' : e <= trim
      BY <2>2, EntriesAreNat DEF XClaim, TypeOK
    <3> QED
      BY <2>2, <3>1 DEF XClaim, TypeOK, NoSilentLoss
  <2>3. CASE XReadGroup(l)
    BY <2>3, DeliverFacts DEF XReadGroup, TypeOK, NoSilentLoss
  <2>4. CASE ReadRaises(l) /\ Deliver
    BY <2>4, DeliverFacts DEF ReadRaises, StartOver, TypeOK, NoSilentLoss
  <2>5. CASE /\ XReadGroupTimesOut(l) \/ ReadRaises(l) \/ Stop(l) \/ Restart(l) \/ BatchDone(l)
             /\ UNCHANGED groupVars
    BY <2>5
    DEF XReadGroupTimesOut, ReadRaises, Stop, Restart, BatchDone, StartOver, Unchanged3,
        groupVars, TypeOK, NoSilentLoss
  <2> QED
    BY <2>1, <2>2, <2>3, <2>4, <2>5
    DEF XReadGroupTimesOut, ReadRaises, Stop, Restart, BatchDone, Unchanged3, groupVars
<1>6. TypeOK'
  BY <1>1, <1>2, <1>3, <1>4, <1>5 DEF TypeOK
<1>7. \A e \in Entries : failures[e] <= failures'[e]
  BY <1>1, <1>2 DEF TypeOK
<1>8. \A k \in Loops : Knows(k)'
  <2> TAKE k \in Loops
  <2>1. CASE k = l
    BY <2>1, <1>3, IdleKnows
  <2>2. CASE k # l
    BY <2>2, <1>1, <1>2, <1>3, <1>6, <1>7, OthersKnow DEF Inv
  <2> QED
    BY <2>1, <2>2
<1> QED
  BY <1>2, <1>5, <1>6, <1>8 DEF Inv, DeadOnlyAfterRetries, CountsFailures

\* A loop has one next entry.
LEMMA NextIsUnique ==
    ASSUME TypeOK, NEW l \in Loops, NEW e, NEW f, IsNext(l, e), IsNext(l, f)
    PROVE  e = f
BY EntriesAreNat DEF TypeOK, IsNext

\* The steps that process one entry.
LEMMA DispatchInv ==
    ASSUME Inv, NEW l \in Loops,
           \/ ReadCount(l) \/ HandlerReturns(l) \/ HandlerRaises(l)
           \/ HandlerExhausted(l) \/ AppendToDlq(l) \/ DlqRaises(l)
           \/ CleanupRetryKey(l) \/ Ack(l) \/ AckRaises(l)
    PROVE  Inv'
<1> USE CountsAssumption
<1>1. TypeOK /\ NoSilentLoss /\ DeadOnlyAfterRetries /\ CountsFailures /\ Knows(l)
  BY DEF Inv
<1>2. UNCHANGED <<stream, trim, delivered, publish>>
  BY DEF ReadCount, HandlerReturns, HandlerRaises, HandlerExhausted, AppendToDlq,
         DlqRaises, CleanupRetryKey, Ack, AckRaises, Unchanged3, streamVars, groupVars
<1>3. /\ pc' \in [Loops -> LoopStates] /\ count' \in [Loops -> Nat]
      /\ faults' \in 0 .. MaxFaults
      /\ batch' \in [Loops -> SUBSET Entries] /\ seen' \in [Loops -> SUBSET Entries]
      /\ \A k \in Loops \ {l} : /\ pc'[k] = pc[k] /\ batch'[k] = batch[k]
                                /\ count'[k] = count[k]
  <2> USE <1>1 DEF TypeOK, LoopStates, Goto, Fault
  <2>1. CASE ReadCount(l)
    <3>1. PICK n \in Nat : count' = [count EXCEPT ![l] = n]
      BY <2>1 DEF ReadCount
    <3>2. UNCHANGED <<batch, seen>> /\ faults' \in 0 .. MaxFaults
      BY <2>1 DEF ReadCount, Unchanged3
    <3>3. pc' = [pc EXCEPT ![l] = "handling"]
      BY <2>1 DEF ReadCount
    <3> QED
      BY <3>1, <3>2, <3>3
  <2>2. CASE HandlerReturns(l) \/ HandlerExhausted(l) \/ AppendToDlq(l)
    <3>1. UNCHANGED <<batch, seen, count, faults>>
      BY <2>2 DEF HandlerReturns, HandlerExhausted, AppendToDlq, Unchanged3
    <3>2. PICK x \in {"cleanup", "dlq"} : pc' = [pc EXCEPT ![l] = x]
      BY <2>2 DEF HandlerReturns, HandlerExhausted, AppendToDlq
    <3> QED
      BY <3>1, <3>2
  <2>3. CASE HandlerRaises(l) \/ DlqRaises(l) \/ AckRaises(l)
    <3>1. StartOver(l)
      BY <2>3 DEF HandlerRaises, DlqRaises, AckRaises
    <3>2. faults' \in 0 .. MaxFaults
      BY <2>3 DEF HandlerRaises, DlqRaises, AckRaises
    <3> QED
      BY <3>1, <3>2 DEF StartOver
  <2>4. CASE CleanupRetryKey(l)
    BY <2>4 DEF CleanupRetryKey, Unchanged3
  <2>5. CASE Ack(l)
    BY <2>5 DEF Ack, Unchanged3
  <2> QED
    BY <2>1, <2>2, <2>3, <2>4, <2>5
<1>4. /\ pel' \subseteq pel /\ handled \subseteq handled' /\ dlq \subseteq dlq'
      /\ handled' \subseteq Entries /\ dlq' \subseteq Entries
      /\ retries' \in [Entries -> Nat]
  BY <1>1
  DEF ReadCount, HandlerReturns, HandlerRaises, HandlerExhausted, AppendToDlq, DlqRaises,
      CleanupRetryKey, Ack, AckRaises, Unchanged3, groupVars, outcomeVars, TypeOK
<1>5. /\ failures' \in [Entries -> 0 .. EVENT_MAX_RETRIES + 1]
      /\ \A f \in Entries : failures[f] <= failures'[f]
  <2>1. failures \in [Entries -> 0 .. EVENT_MAX_RETRIES + 1] /\ batch[l] \subseteq Entries
    BY <1>1 DEF TypeOK
  <2>2. CASE UNCHANGED failures
    BY <2>1, <2>2
  <2>3. ASSUME NEW e \in batch[l], Failed(e)
        PROVE  /\ failures' \in [Entries -> 0 .. EVENT_MAX_RETRIES + 1]
               /\ \A f \in Entries : failures[f] <= failures'[f]
    BY <2>1, <2>3 DEF Failed
  <2> QED
    BY <2>2, <2>3
    DEF ReadCount, HandlerReturns, HandlerRaises, HandlerExhausted, AppendToDlq,
        DlqRaises, CleanupRetryKey, Ack, AckRaises, outcomeVars
<1>6. TypeOK'
  BY <1>1, <1>2, <1>3, <1>4, <1>5 DEF TypeOK
<1>7. ASSUME NEW k \in Loops, k # l PROVE Knows(k)'
  BY <1>1, <1>3, <1>4, <1>5, <1>6, <1>7, OthersKnow DEF Inv
<1>8. NoSilentLoss'
  <2>1. \A e \in pel \ pel' : e \in handled \cup dlq
    BY <1>1
    DEF ReadCount, HandlerReturns, HandlerRaises, HandlerExhausted, AppendToDlq,
        DlqRaises, CleanupRetryKey, Ack, AckRaises, Unchanged3, groupVars, Knows
  <2> QED
    BY <1>1, <1>2, <1>4, <2>1 DEF NoSilentLoss
<1>9. DeadOnlyAfterRetries'
  <2>1. \A e \in dlq' : e \in dlq \/ failures[e] > EVENT_MAX_RETRIES
    BY <1>1
    DEF ReadCount, HandlerReturns, HandlerRaises, HandlerExhausted, AppendToDlq,
        DlqRaises, CleanupRetryKey, Ack, AckRaises, outcomeVars, Knows
  <2>2. \A e \in Entries : failures[e] \in Int /\ failures'[e] \in Int
    BY <1>1, <1>5 DEF TypeOK
  <2> QED
    BY <1>1, <1>4, <1>5, <2>1, <2>2 DEF DeadOnlyAfterRetries
<1>10. CountsFailures'
  <2> SUFFICES ASSUME NEW f \in Entries
               PROVE  failures'[f] > EVENT_MAX_RETRIES \/ retries'[f] <= failures'[f]
    BY DEF CountsFailures
  <2>1. /\ failures[f] \in Nat /\ failures'[f] \in Nat /\ failures[f] <= failures'[f]
        /\ retries[f] \in Nat
        /\ failures[f] > EVENT_MAX_RETRIES \/ retries[f] <= failures[f]
    BY <1>1, <1>5 DEF TypeOK, CountsFailures
  <2>2. CASE HandlerRaises(l)
    BY <1>1, <2>1, <2>2 DEF HandlerRaises, Failed, TypeOK
  <2>3. CASE ~HandlerRaises(l)
    <3>1. retries'[f] = retries[f] \/ retries'[f] = 0
      BY <1>1, <2>3
      DEF ReadCount, HandlerReturns, HandlerExhausted, AppendToDlq, DlqRaises,
          CleanupRetryKey, Ack, AckRaises, TypeOK
    <3> QED
      BY <2>1, <3>1
  <2> QED
    BY <2>2, <2>3
<1>11. Knows(l)'
  <2>1. CASE ReadCount(l)
    <3>1. batch' = batch /\ pc'[l] = "handling" /\ failures' = failures
      BY <1>1, <2>1 DEF ReadCount, Goto, TypeOK, outcomeVars
    <3>2. ASSUME NEW f \in batch[l], IsNext(l, f)
          PROVE  failures[f] > EVENT_MAX_RETRIES \/ count'[l] <= failures[f]
      <4>1. count'[l] = retries[f] \/ count'[l] = 0
        BY <1>1, <2>1, <3>2, NextIsUnique DEF ReadCount, TypeOK
      <4> QED
        BY <1>1, <3>2, <4>1 DEF TypeOK, CountsFailures
    <3> QED
      BY <3>1, <3>2 DEF Knows, IsNext
  <2>2. CASE HandlerReturns(l) \/ AppendToDlq(l)
    <3>1. batch' = batch /\ pc'[l] = "cleanup"
      BY <1>1, <2>2 DEF HandlerReturns, AppendToDlq, Goto, TypeOK
    <3>2. \A f \in batch[l] : IsNext(l, f) => f \in handled' \cup dlq'
      BY <1>1, <2>2, NextIsUnique DEF HandlerReturns, AppendToDlq
    <3> QED
      BY <3>1, <3>2 DEF Knows, IsNext
  <2>3. CASE HandlerExhausted(l)
    <3>1. batch' = batch /\ pc'[l] = "dlq"
      BY <1>1, <2>3 DEF HandlerExhausted, Goto, TypeOK
    <3>2. ASSUME NEW f \in batch[l], IsNext(l, f)
          PROVE  failures'[f] > EVENT_MAX_RETRIES
      <4>1. Failed(f) /\ count[l] >= EVENT_MAX_RETRIES /\ pc[l] = "handling"
        BY <1>1, <2>3, <3>2, NextIsUnique DEF HandlerExhausted
      <4>2. failures[f] > EVENT_MAX_RETRIES \/ count[l] <= failures[f]
        BY <1>1, <3>2, <4>1 DEF Knows
      <4> QED
        BY <1>1, <3>2, <4>1, <4>2 DEF Failed, TypeOK
    <3> QED
      BY <3>1, <3>2 DEF Knows, IsNext
  <2>4. CASE CleanupRetryKey(l)
    <3>1. batch' = batch /\ pc[l] = "cleanup" /\ pc'[l] = "ack"
      BY <1>1, <2>4 DEF CleanupRetryKey, Goto, TypeOK
    <3> QED
      BY <1>1, <1>4, <3>1 DEF Knows, IsNext
  <2>5. CASE HandlerRaises(l) \/ DlqRaises(l) \/ Ack(l) \/ AckRaises(l)
    <3>1. pc'[l] \in {"pending", "next"}
      BY <1>1, <2>5 DEF HandlerRaises, DlqRaises, Ack, AckRaises, StartOver, Goto, TypeOK
    <3> QED
      BY <3>1, IdleKnows
  <2> QED
    BY <2>1, <2>2, <2>3, <2>4, <2>5
<1> QED
  BY <1>6, <1>7, <1>8, <1>9, <1>10, <1>11 DEF Inv

\* An expired retry count only restarts the count.
LEMMA ExpireInv ==
    ASSUME Inv, NEW e \in Entries, ExpireRetryKey(e)
    PROVE  Inv'
<1>1. TypeOK' /\ NoSilentLoss' /\ DeadOnlyAfterRetries' /\ CountsFailures'
  BY CountsAssumption
  DEF Inv, TypeOK, NoSilentLoss, DeadOnlyAfterRetries, CountsFailures, ExpireRetryKey,
      Fault, streamVars, groupVars, outcomeVars, loopVars
<1>2. \A k \in Loops : Knows(k)'
  BY DEF Inv, Knows, IsNext, ExpireRetryKey, outcomeVars, loopVars
<1> QED
  BY <1>1, <1>2 DEF Inv

\* Inv is inductive.
LEMMA NextInv == Inv /\ [Next]_vars => Inv'
<1> SUFFICES ASSUME Inv, [Next]_vars PROVE Inv'
  OBVIOUS
<1>1. CASE UNCHANGED vars
  BY <1>1, CountsUnchanged
  DEF Inv, TypeOK, NoSilentLoss, vars, streamVars, groupVars, outcomeVars, loopVars
<1>2. CASE Next
  BY <1>2, PublishInv, ReadInv, DispatchInv, ExpireInv DEF Next, Step
<1> QED
  BY <1>1, <1>2

\* The inductive invariant holds in every state.
THEOREM Invariance == Spec => []Inv
BY InitInv, NextInv, PTL DEF Spec

\* No delivered event leaves the pending list without an outcome, whatever the
\* processes, crashes and lost replies of _consumer_loop.
THEOREM NothingLost == Spec => []NoSilentLoss
BY Invariance, PTL DEF Inv

\* _dispatch_event dead letters an event only after EVENT_MAX_RETRIES retries.
THEOREM NothingDeadEarly == Spec => []DeadOnlyAfterRetries
BY Invariance, PTL DEF Inv

\* A retry count is dropped only for a settled event or by its TTL.
THEOREM ExhaustionKept == Spec => ExhaustionIsRemembered
<1> DEFINE Kept == \A e \in Entries :
               retries'[e] < retries[e] => e \in handled \cup dlq \/ ExpireRetryKey(e)
<1>1. Inv /\ [Next]_vars => [Kept]_vars
  <2> SUFFICES ASSUME Inv, Next PROVE Kept
    OBVIOUS
  <2>1. retries \in [Entries -> Nat]
    BY DEF Inv, TypeOK
  <2>2. CASE UNCHANGED retries
    BY <2>1, <2>2
  <2>3. ASSUME NEW l \in Loops, CleanupRetryKey(l) PROVE Kept
    BY <2>1, <2>3 DEF CleanupRetryKey, Inv, Knows
  <2>4. ASSUME NEW l \in Loops, HandlerRaises(l) PROVE Kept
    BY <2>1, <2>4 DEF HandlerRaises
  <2>5. ASSUME NEW e \in Entries, ExpireRetryKey(e) PROVE Kept
    <3>1. \A f \in Entries \ {e} : retries'[f] = retries[f]
      BY <2>1, <2>5 DEF ExpireRetryKey
    <3> QED
      BY <2>1, <2>5, <3>1
  <2> QED
    BY <2>2, <2>3, <2>4, <2>5
    DEF Next, Step, Publish, PublishRaises, Unchanged1, XPending, XClaim, XReadGroup,
        XReadGroupTimesOut, ReadRaises, Stop, Restart, Unchanged2, ReadCount, BatchDone,
        HandlerReturns, HandlerExhausted, AppendToDlq, DlqRaises, Ack, AckRaises
<1> QED
  BY <1>1, Invariance, PTL DEF Spec, ExhaustionIsRemembered, Kept
=============================================================================
