------------------------------ MODULE Counters ------------------------------
(***************************************************************************)
(* The billing core of the marketplace agent (crates/lb/src/marketplace/   *)
(* agent.rs): how the requests a provider answered become counter records  *)
(* on the chain, and stay right when the answer to a write is lost, a      *)
(* write lands late, an agreement ends or the process stops or crashes.    *)
(*                                                                         *)
(* The agent is one task; between two of its awaits the proxy counts       *)
(* answered requests and the chain moves.  Every await of the code is a    *)
(* boundary between two actions here.                                      *)
(*                                                                         *)
(* Time is abstracted: a record's `over' says that its settlement period   *)
(* is over, and an agreement simply expires.  A transaction is a set of    *)
(* operations and atomic.  Transactions of one key land in the order they  *)
(* were sent (the sidecar's queue, then the nonce).                        *)
(***************************************************************************)
EXTENDS Integers, Sequences, FiniteSets, FiniteSetsExt

CONSTANTS
    Agreement,      \* agreement keys
    MaxAnswered,    \* bound: requests answered per agreement
    MaxRecords,     \* bound: a flush starts with fewer records than this
    MaxPending,     \* bound: transactions sent and not yet in a block
    Splits,         \* the node may refuse a batch as too large
    Stalls          \* a flush's transaction may outlast a flush interval

ASSUME CountersAssumption ==
    /\ MaxAnswered \in Nat /\ MaxRecords \in Nat /\ MaxPending \in Nat
    /\ Splits \in BOOLEAN /\ Stalls \in BOOLEAN

VARIABLES
    records,    \* chain: each agreement's counter records, oldest first
    live,       \* chain: agreements whose record has not expired
    spent,      \* chain: agreements accepted so far
    pending,    \* transactions sent and not yet in a block, in nonce order
    task,       \* what the agent's task is doing
    pc,         \* where in that the task is
    known,      \* memory: the agreements (KnownAgreements)
    counter,    \* memory: Live.counter, 0 for None
    served,     \* memory: Provider.served
    read,       \* the open counter records as this reconcile read them
    batch,      \* operations still to send
    closing,    \* the closes in this flush's first batch (Closing)
    landed,     \* records an answered transaction patched (Landed.patched)
    answered    \* history: requests relayed to clients, per agreement

chainVars == <<records, live, spent, pending>>
memVars   == <<known, counter, served>>
flushVars == <<read, batch, closing, landed>>
vars == <<records, live, spent, pending, task, pc, known, counter, served,
          read, batch, closing, landed, answered>>

Task == {"down", "start", "idle", "poll", "flush", "stop"}
Pc   == {"rest", "ended", "counters", "match", "offers", "accept",
         "counts", "successors", "done"}

(***************************************************************************)
(* Records and operations.  `stamped' is the presence of closed_block in   *)
(* the payload.                                                            *)
(***************************************************************************)
CounterRecord == [state: {"open", "closed", "deleted"}, count: Nat,
                  stamped: BOOLEAN, over: BOOLEAN]

Operation == [kind: {"create", "count", "close", "delete"},
              agr: Agreement, rec: Nat, count: Nat]

Create(a)      == [kind |-> "create", agr |-> a, rec |-> 0, count |-> 0]
Count(a, n, c) == [kind |-> "count",  agr |-> a, rec |-> n, count |-> c]
Close(a, n, c) == [kind |-> "close",  agr |-> a, rec |-> n, count |-> c]
Delete(a, n)   == [kind |-> "delete", agr |-> a, rec |-> n, count |-> 0]

FreshRecord == [state |-> "open", count |-> 0, stamped |-> FALSE, over |-> FALSE]

(* A patch of an open record writes the payload alone; one that closes it
   writes the payload and the state attribute. *)
Patched(r, op) ==
    IF op.kind = "delete" THEN [r EXCEPT !.state = "deleted"]
    ELSE [r EXCEPT !.count = op.count, !.stamped = (op.kind = "close"),
                   !.state = IF op.kind = "close" THEN "closed" ELSE r.state]

(* A transaction is all or nothing: a key that is gone reverts it. *)
Applies(tx, recs) ==
    \A op \in {o \in tx : o.kind # "create"} : recs[op.agr][op.rec].state # "deleted"

Apply(tx, recs) ==
    IF ~Applies(tx, recs) THEN recs ELSE
    [a \in Agreement |->
        LET onto(n) == {op \in tx : op.agr = a /\ op.kind # "create" /\ op.rec = n}
            old == [n \in DOMAIN recs[a] |->
                      IF onto(n) = {} THEN recs[a][n]
                      ELSE Patched(recs[a][n], CHOOSE op \in onto(n) : TRUE)]
        IN IF Create(a) \in tx THEN Append(old, FreshRecord) ELSE old]

(* Variant for the checks: a subtraction that goes below zero. *)
PlainSub(x, y) == x - y

SaturatingSub(x, y) == IF x > y THEN x - y ELSE 0

(***************************************************************************)
(* What a read of the open counter records holds (oldest_per_agreement).   *)
(***************************************************************************)
Open(recs, a) == {n \in DOMAIN recs[a] : recs[a][n].state = "open"}

(* Variant for the checks: the youngest record counts. *)
Youngest(recs, a) ==
    IF Open(recs, a) = {} THEN 0
    ELSE CHOOSE n \in Open(recs, a) : \A m \in Open(recs, a) : m <= n

Oldest(recs, a) ==
    IF Open(recs, a) = {} THEN 0
    ELSE CHOOSE n \in Open(recs, a) : \A m \in Open(recs, a) : n <= m

Duplicates(recs, a) == Open(recs, a) \ {Oldest(recs, a)}

Strays(recs) == {a \in Agreement \ known : Oldest(recs, a) # 0}

NoRead == [a \in Agreement |-> <<>>]

-----------------------------------------------------------------------------
Init ==
    /\ records = NoRead /\ live = {} /\ spent = {} /\ pending = <<>>
    /\ task = "down" /\ pc = "rest"
    /\ known = {}
    /\ counter = [a \in Agreement |-> 0] /\ served = [a \in Agreement |-> 0]
    /\ read = NoRead /\ batch = {} /\ closing = {} /\ landed = {}
    /\ answered = [a \in Agreement |-> 0]

(***************************************************************************)
(* The proxy and the chain.                                                *)
(***************************************************************************)

(* A client gets a provider's answer, while the listeners are up or, during
   a stop, as one of the requests that were in flight. *)
RecordServed(a) ==
    /\ task \notin {"down", "start"}
    /\ a \in known /\ answered[a] < MaxAnswered
    /\ served' = [served EXCEPT ![a] = @ + 1]
    /\ answered' = [answered EXCEPT ![a] = @ + 1]
    /\ UNCHANGED <<chainVars, task, pc, known, counter, flushVars>>

PeriodEnds(a, n) ==
    /\ n \in Open(records, a) /\ ~records[a][n].over
    /\ records' = [records EXCEPT ![a][n].over = TRUE]
    /\ UNCHANGED <<live, spent, pending, task, pc, memVars, flushVars, answered>>

AgreementExpires(a) ==
    /\ a \in live
    /\ live' = live \ {a}
    /\ UNCHANGED <<records, spent, pending, task, pc, memVars, flushVars, answered>>

(* A transaction whose answer the LB did not wait for lands, or reverts. *)
PendingLands ==
    /\ pending # <<>>
    /\ records' = Apply(Head(pending).ops, records)
    /\ pending' = Tail(pending)
    /\ UNCHANGED <<live, spent, task, pc, memVars, flushVars, answered>>

(* It never lands: dropped by the node, or lost with the sidecar's queue. *)
PendingDropped ==
    /\ pending # <<>>
    /\ pending' = Tail(pending)
    /\ UNCHANGED <<records, live, spent, task, pc, memVars, flushVars, answered>>

(***************************************************************************)
(* The agent's task: what it waits on, and the reads.                      *)
(***************************************************************************)
Forget == /\ known' = {} /\ counter' = [a \in Agreement |-> 0]
          /\ served' = [a \in Agreement |-> 0]

NoFlush == read' = NoRead /\ batch' = {} /\ closing' = {} /\ landed' = {}

(* start: nothing is remembered, and everything live is read. *)
Start ==
    /\ task = "down"
    /\ task' = "start" /\ pc' = "counters"
    /\ known' = live
    /\ UNCHANGED <<chainVars, counter, served, flushVars, answered>>

Crash ==
    /\ task # "down"
    /\ task' = "down" /\ pc' = "rest"
    /\ Forget /\ NoFlush
    /\ UNCHANGED <<chainVars, answered>>

(* reconcile_agreements: end_agreements, adopt_agreements, and the batch
   close_ended sends. *)
ReconcileAgreements ==
    /\ task = "idle"
    /\ task' = "poll" /\ pc' = "ended"
    /\ known' = live
    /\ served'  = [a \in Agreement |-> IF a \in known \cap live THEN served[a] ELSE 0]
    /\ counter' = [a \in Agreement |-> IF a \in known \cap live THEN counter[a] ELSE 0]
    /\ batch' = {IF served[a] = 0 THEN Delete(a, counter[a])
                 ELSE Close(a, counter[a], served[a]) :
                    a \in {b \in known \ live : counter[b] # 0}}
    /\ UNCHANGED <<chainVars, read, closing, landed, answered>>

(* More agreement records than a page holds: the poll leaves them alone and
   goes on to the counters and the offers. *)
SkipAgreements ==
    /\ task = "idle"
    /\ task' = "poll" /\ pc' = "counters"
    /\ UNCHANGED <<chainVars, memVars, flushVars, answered>>

(* The scheduled flush, an interval after the one before it. *)
Flush ==
    /\ task = "idle"
    /\ \A a \in Agreement : Len(records[a]) < MaxRecords
    /\ Stalls \/ \A i \in DOMAIN pending : pending[i].by = "poll"
    /\ task' = "flush" /\ pc' = "counters"
    /\ UNCHANGED <<chainVars, memVars, flushVars, answered>>

(* shutdown_flush: the stop signal may come at any time. *)
ShutdownFlush ==
    /\ task = "idle"
    /\ task' = "stop" /\ pc' = "counters"
    /\ UNCHANGED <<chainVars, memVars, flushVars, answered>>

AboutToRead == pc = "counters" \/ (pc = "ended" /\ batch = {})

(* A chain read that fails: a start gives up, a poll goes on to the offers
   with memory as it is, a flush is skipped. *)
ReadFails ==
    /\ AboutToRead \/ pc = "match"
    /\ \/ /\ task = "start" /\ task' = "down" /\ pc' = "rest" /\ Forget
       \/ /\ task = "poll"  /\ task' = task   /\ pc' = "offers" /\ UNCHANGED memVars
       \/ /\ task = "flush" /\ task' = "idle" /\ pc' = "rest" /\ UNCHANGED memVars
       \/ /\ task = "stop"  /\ task' = task   /\ pc' = "done" /\ UNCHANGED memVars
    /\ NoFlush
    /\ UNCHANGED <<chainVars, answered>>

ReadOpenCounters ==
    /\ AboutToRead
    /\ read' = records
    /\ pc' = "match"
    /\ UNCHANGED <<chainVars, task, memVars, batch, closing, landed, answered>>

(***************************************************************************)
(* reconcile_counters after its first read, and the flush's first batch.   *)
(***************************************************************************)

(* A record memory held, not among the open ones, and closed on the chain. *)
ForgottenCount(a) ==
    IF /\ counter[a] # 0 /\ Oldest(read, a) = 0
       /\ records[a][counter[a]].state = "closed"
    THEN records[a][counter[a]].count
    ELSE 0

(* Variant for the checks: a record memory already held is seeded again. *)
SeededAgain(a) ==
    IF Oldest(read, a) # 0 THEN read[a][Oldest(read, a)].count ELSE 0

(* Only an agreement that held no record counts on from what one carries. *)
SeededCount(a) ==
    IF counter[a] = 0 /\ Oldest(read, a) # 0 THEN read[a][Oldest(read, a)].count ELSE 0

MatchedServed ==
    [a \in Agreement |-> IF a \in known
                         THEN SaturatingSub(served[a], ForgottenCount(a)) + SeededCount(a)
                         ELSE served[a]]

MatchedCounter ==
    [a \in Agreement |-> IF a \in known THEN Oldest(read, a) ELSE counter[a]]

(* Variant for the checks: a record that counted nothing is closed too. *)
PeriodIsOverAtZero(a, s) ==
    /\ task = "flush" /\ Oldest(read, a) # 0
    /\ read[a][Oldest(read, a)].over

(* A scheduled flush finds the record's period over; one that counted
   nothing waits for a count. *)
PeriodIsOver(a, s) ==
    /\ task = "flush" /\ Oldest(read, a) # 0
    /\ s > 0 /\ read[a][Oldest(read, a)].over

CountOperations(a, s) ==
    LET n == Oldest(read, a) IN
    IF n = 0 THEN IF task = "stop" THEN {} ELSE {Create(a)}
    ELSE IF PeriodIsOver(a, s) THEN {Close(a, n, s)}
    ELSE IF read[a][n].count = s THEN {} ELSE {Count(a, n, s)}

StrayOperation(a) ==
    LET n == Oldest(read, a) IN
    IF read[a][n].count = 0 THEN Delete(a, n) ELSE Close(a, n, read[a][n].count)

StrayOperations == {StrayOperation(a) : a \in Strays(read)}

DuplicateOperations(a) == {Delete(a, n) : n \in Duplicates(read, a)}

DuplicateDeletes == UNION {DuplicateOperations(a) : a \in Agreement}

(* What a flush does besides counting; a stop leaves it to the next start. *)
Housekeeping == IF task = "stop" THEN {} ELSE DuplicateDeletes \cup StrayOperations

CountsBatch(s) ==
    Housekeeping \cup UNION {CountOperations(a, s[a]) : a \in known}

Closings(s) == {Close(a, Oldest(read, a), s[a]) :
                    a \in {b \in known : PeriodIsOver(b, s[b])}}

ReconcileCounters ==
    /\ pc = "match"
    /\ served' = MatchedServed /\ counter' = MatchedCounter
    /\ \/ /\ task = "start" /\ task' = "idle" /\ pc' = "rest"
          /\ UNCHANGED <<batch, closing>>
       \/ /\ task = "poll" /\ task' = task /\ pc' = "offers"
          /\ UNCHANGED <<batch, closing>>
       \/ /\ task \in {"flush", "stop"} /\ task' = task /\ pc' = "counts"
          /\ batch' = CountsBatch(MatchedServed)
          /\ closing' = Closings(MatchedServed)
    /\ read' = NoRead
    /\ UNCHANGED <<chainVars, known, landed, answered>>

(***************************************************************************)
(* The writes.  A batch goes as one transaction, or in parts once the node *)
(* refuses it as too large.                                                *)
(***************************************************************************)
Sending == batch # {} /\ pc \in {"ended", "accept", "counts", "successors"}

Chunks == IF Splits THEN SUBSET batch \ {{}} ELSE {batch}

PatchedKeys(tx) == {<<op.agr, op.rec>> : op \in {o \in tx : o.kind \in {"count", "close"}}}

(* It landed, and the answer says so.  A transaction in a block has every
   earlier one of its key before it, so nothing is pending any more. *)
SendAnswered(tx) ==
    /\ Sending /\ pending = <<>>
    /\ Applies(tx, records)
    /\ records' = Apply(tx, records)
    /\ batch' = batch \ tx
    /\ landed' = IF pc = "counts" THEN landed \cup PatchedKeys(tx) ELSE landed
    /\ counter' = [a \in Agreement |-> IF pc = "accept" /\ Create(a) \in tx
                                       THEN Len(records[a]) + 1 ELSE counter[a]]
    /\ UNCHANGED <<live, spent, pending, task, pc, known, served, read, closing, answered>>

(* It failed and will never land. *)
SendFailed(tx) ==
    /\ Sending
    /\ batch' = batch \ tx
    /\ UNCHANGED <<chainVars, task, pc, memVars, read, closing, landed, answered>>

(* It was sent and its answer is lost: it may land at any later time. *)
SendUnresolved(tx) ==
    /\ Sending /\ Len(pending) < MaxPending
    /\ pending' = Append(pending, [ops |-> tx, by |-> task])
    /\ batch' = batch \ tx
    /\ UNCHANGED <<records, live, spent, task, pc, memVars, read, closing, landed, answered>>

(***************************************************************************)
(* What follows a write.                                                   *)
(***************************************************************************)

(* end_periods: a successor for every close answered as landed. *)
EndPeriods ==
    /\ pc = "counts" /\ batch = {}
    /\ LET ended == {c \in closing : <<c.agr, c.rec>> \in landed}
           count(a) == (CHOOSE c \in ended : c.agr = a).count
           agrs == {c.agr : c \in ended}
       IN /\ served'  = [a \in Agreement |-> IF a \in agrs
                            THEN SaturatingSub(served[a], count(a)) ELSE served[a]]
          /\ counter' = [a \in Agreement |-> IF a \in agrs THEN 0 ELSE counter[a]]
          /\ batch' = {Create(a) : a \in agrs}
    /\ pc' = "successors" /\ closing' = {}
    /\ UNCHANGED <<chainVars, task, known, read, landed, answered>>

EndFlush ==
    /\ pc = "successors" /\ batch = {}
    /\ \/ task = "flush" /\ task' = "idle" /\ pc' = "rest" /\ landed' = {}
       \/ task = "stop"  /\ task' = task   /\ pc' = "done" /\ UNCHANGED landed
    /\ UNCHANGED <<chainVars, memVars, read, batch, closing, answered>>

(* The process ends once every task has returned. *)
Exit ==
    /\ pc = "done"
    /\ task' = "down" /\ pc' = "rest"
    /\ Forget /\ NoFlush
    /\ UNCHANGED <<chainVars, answered>>

(* accept, its agreement's write answered: the counter record follows. *)
Accept(a) ==
    /\ pc = "offers" /\ a \notin spent
    /\ live' = live \cup {a} /\ spent' = spent \cup {a}
    /\ known' = known \cup {a}
    /\ batch' = {Create(a)} /\ pc' = "accept"
    /\ UNCHANGED <<records, pending, task, counter, served, read, closing, landed, answered>>

(* accept, its agreement's write landed and the answer lost: a later poll
   adopts it. *)
AcceptUnresolved(a) ==
    /\ pc = "offers" /\ a \notin spent
    /\ live' = live \cup {a} /\ spent' = spent \cup {a}
    /\ UNCHANGED <<records, pending, task, pc, memVars, flushVars, answered>>

Accepted ==
    /\ pc = "accept" /\ batch = {}
    /\ pc' = "offers"
    /\ UNCHANGED <<chainVars, task, memVars, flushVars, answered>>

EndPoll ==
    /\ pc = "offers"
    /\ task' = "idle" /\ pc' = "rest"
    /\ UNCHANGED <<chainVars, memVars, flushVars, answered>>

Next ==
    \/ \E a \in Agreement : RecordServed(a)
    \/ \E a \in Agreement : \E n \in DOMAIN records[a] : PeriodEnds(a, n)
    \/ \E a \in Agreement : AgreementExpires(a)
    \/ PendingLands \/ PendingDropped
    \/ Start \/ Crash \/ Exit
    \/ ReconcileAgreements \/ SkipAgreements \/ Flush \/ ShutdownFlush
    \/ ReadFails \/ ReadOpenCounters \/ ReconcileCounters
    \/ \E tx \in Chunks : SendAnswered(tx) \/ SendFailed(tx) \/ SendUnresolved(tx)
    \/ EndPeriods \/ EndFlush
    \/ \E a \in Agreement : Accept(a) \/ AcceptUnresolved(a)
    \/ Accepted \/ EndPoll

Spec == Init /\ [][Next]_vars
-----------------------------------------------------------------------------
(* Types of the chain, of memory and of the flush in progress. *)
TypeOK ==
    /\ records \in [Agreement -> Seq(CounterRecord)]
    /\ live \subseteq spent /\ spent \subseteq Agreement
    /\ pending \in Seq([ops: SUBSET Operation, by: Task])
    /\ task \in Task /\ pc \in Pc
    /\ known \subseteq Agreement
    /\ counter \in [Agreement -> Nat] /\ served \in [Agreement -> Nat]
    /\ read \in [Agreement -> Seq(CounterRecord)]
    /\ batch \subseteq Operation /\ closing \subseteq Operation
    /\ landed \subseteq Agreement \X Nat
    /\ answered \in [Agreement -> Nat]

(* What the records of an agreement bill: every count that is closed, or
   open and will be closed. *)
Billed(a) ==
    LET carried == [n \in DOMAIN records[a] |->
                      IF records[a][n].state = "deleted" THEN 0 ELSE records[a][n].count]
    IN MapThenSumSet(LAMBDA n : carried[n], DOMAIN carried)

(* A provider is never billed for more requests than its clients got
   answers to, whatever answers were lost, whenever a lost write landed, and
   however often the process crashed or stopped (reconcile_counters and
   end_periods: the count of a period leaves the entry exactly once). *)
NoOverbilling == \A a \in Agreement : Billed(a) <= answered[a]

(* Of two open records of an agreement the younger carries no count, which
   is why a flush may delete it (counts_batch: "a count is only ever written
   into the record this LB counts into, the oldest"). *)
YoungerCarryNothing ==
    \A a \in Agreement : \A m, n \in Open(records, a) :
        m < n => records[a][n].count = 0

(* No record is closed at zero, so settle never writes a receipt for nothing
   (close_ended, the strays and the served > 0 of counts_batch). *)
NoClosedAtZero ==
    \A a \in Agreement : \A n \in DOMAIN records[a] :
        records[a][n].state = "closed" => records[a][n].count > 0

(* A closed record never changes again (docs/MARKETPLACE.md, Counting). *)
ClosedIsFinal ==
    [][\A a \in Agreement : \A n \in DOMAIN records[a] :
          records[a][n].state = "closed" => records'[a][n] = records[a][n]]_records

(* A deliberate stop whose write was answered as landed leaves on the chain
   what the entry holds when the process ends (shutdown_flush: "the counts
   alone, so a restart loses none of them"). *)
StopWritesCounts ==
    pc = "done" => \A a \in known :
        <<a, counter[a]>> \in landed => records[a][counter[a]].count = served[a]
=============================================================================
