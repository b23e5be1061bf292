--------------------------- MODULE Counters_proofs ---------------------------
(***************************************************************************)
(* For any agreements and any bounds, and whether or not batches are split *)
(* or transactions outlast a flush: Counters is type correct, and of two   *)
(* open records of one agreement the younger carries no count.  As long as *)
(* no transaction outlasts a flush, no record is closed at zero either;    *)
(* and if also batches go whole and at most one write is unresolved at a   *)
(* time, a provider is billed for no more than its clients got.            *)
(***************************************************************************)
EXTENDS Counters, TLAPS, WellFoundedInduction, SequenceTheorems, FiniteSetTheorems

(* The operations that may still be written. *)
Pend(i) == pending[i].ops

Queued(op) == \/ op \in batch \/ op \in closing
              \/ \E i \in DOMAIN pending : op \in Pend(i)

(* No older record of the agreement is open.  It stays so: nothing reopens a
   record, and a new one is younger. *)
Eldest(recs, a, n) == \A m \in 1..(n - 1) : recs[a][m].state # "open"

(* Everything the agent holds names a record that was created. *)
RefsExist ==
    /\ known \subseteq spent
    /\ \A a \in Agreement : counter[a] \in 0..Len(records[a])
    /\ \A op \in Operation : Queued(op) =>
          /\ op.agr \in spent
          /\ op.kind # "create" => op.rec \in 1..Len(records[op.agr])

(* A read is of the past: what it did not show open is not open now. *)
ReadIsPast ==
    \A a \in Agreement :
        /\ Len(read[a]) <= Len(records[a])
        /\ \A m \in 1..Len(read[a]) :
              read[a][m].state # "open" => records[a][m].state # "open"

(* Counts are written, about to be written or held for eldest records only. *)
EldestCount ==
    /\ \A a \in Agreement : \A n \in 1..Len(records[a]) :
          records[a][n].count # 0 => Eldest(records, a, n)
    /\ \A a \in Agreement : counter[a] # 0 => Eldest(records, a, counter[a])
    /\ \A op \in Operation :
          Queued(op) /\ op.kind \in {"count", "close"} => Eldest(records, op.agr, op.rec)

(* An agreement not yet accepted has no record, and the one being accepted
   has only its first create under way. *)
Unborn(a) ==
    /\ records[a] = <<>>
    /\ \A i \in DOMAIN pending : \A op \in Pend(i) : op.agr # a

FirstRecord ==
    /\ \A a \in Agreement \ spent : Unborn(a)
    /\ pc = "accept" => \A op \in batch : op = Create(op.agr) /\ Unborn(op.agr)

IInv == TypeOK /\ RefsExist /\ ReadIsPast /\ EldestCount /\ FirstRecord

Records == [Agreement -> Seq(CounterRecord)]

-----------------------------------------------------------------------------
(* A nonempty set of naturals has a least element. *)
LEMMA LeastExists ==
    ASSUME NEW S, S \subseteq Nat, S # {}
    PROVE  \E n \in S : \A m \in S : n <= m
<1>1. PICK n \in S : \A m \in S : ~(<<m, n>> \in OpToRel(<, Nat))
  BY NatLessThanWellFounded, WFMin
<1>2. ASSUME NEW m \in S PROVE n <= m
  <2>1. <<m, n>> \in Nat \X Nat
    OBVIOUS
  <2>2. ~(m < n)
    BY <1>1, <2>1 DEF OpToRel
  <2> QED BY <2>2
<1> QED BY <1>2

(* A function on 1..n with values in S is a sequence over S: what rebuilding an
   agreement's records (Apply) rests on. *)
LEMMA FunctionIsSeq ==
    ASSUME NEW S, NEW n \in Nat, NEW f \in [1..n -> S]
    PROVE  f \in Seq(S) /\ Len(f) = n
<1>1. f \in Seq(S)
  BY SeqDef
<1>2. DOMAIN f = 1..n /\ DOMAIN f = 1..Len(f) /\ Len(f) \in Nat
  BY <1>1, LenProperties
<1> QED BY <1>1, <1>2

(* The head of a nonempty sequence is its first element, and one over the
   sequence's set: the transaction PendingLands takes. *)
LEMMA FirstOfSeq ==
    ASSUME NEW S, NEW q \in Seq(S), q # <<>>
    PROVE  1 \in DOMAIN q /\ Head(q) = q[1] /\ q[1] \in S
<1>1. Len(q) \in Nat \ {0} /\ DOMAIN q = 1..Len(q)
  BY EmptySeq, LenProperties
<1>2. 1 \in 1..Len(q)
  BY <1>1
<1> QED BY <1>1, <1>2, ElementOfSeq

(* The record an agreement counts into is one of its open ones, and none of
   them is older. *)
LEMMA OldestIsOpen ==
    ASSUME NEW recs \in Records, NEW a \in Agreement, Oldest(recs, a) # 0
    PROVE  /\ Oldest(recs, a) \in 1..Len(recs[a])
           /\ recs[a][Oldest(recs, a)] \in CounterRecord
           /\ recs[a][Oldest(recs, a)].state = "open"
           /\ \A m \in 1..(Oldest(recs, a) - 1) : recs[a][m].state # "open"
<1>1. recs[a] \in Seq(CounterRecord) /\ DOMAIN recs[a] = 1..Len(recs[a])
      /\ Len(recs[a]) \in Nat
  BY DEF Records
<1>2. Open(recs, a) \subseteq 1..Len(recs[a]) /\ Open(recs, a) # {}
  BY <1>1 DEF Open, Oldest
<1>3. \E n \in Open(recs, a) : \A m \in Open(recs, a) : n <= m
  BY <1>1, <1>2, LeastExists
<1>4. Oldest(recs, a) \in Open(recs, a)
      /\ \A m \in Open(recs, a) : Oldest(recs, a) <= m
  BY <1>2, <1>3 DEF Oldest
<1>5. \A m \in 1..(Oldest(recs, a) - 1) : m \in 1..Len(recs[a]) /\ ~(Oldest(recs, a) <= m)
  BY <1>1, <1>2, <1>4
<1> QED BY <1>1, <1>2, <1>4, <1>5 DEF Open

(* What a transaction does to the records: none is reopened or lost, and a
   count appears only where the transaction writes one. *)
Advances(recs, new, tx) ==
    \A a \in Agreement :
        /\ Len(new[a]) >= Len(recs[a])
        /\ (\A op \in tx : op.agr # a) => Len(new[a]) = Len(recs[a])
        /\ \A m \in 1..Len(recs[a]) :
              recs[a][m].state # "open" => new[a][m].state # "open"
        /\ \A n \in 1..Len(new[a]) : new[a][n].count # 0 =>
              /\ n \in 1..Len(recs[a])
              /\ \/ recs[a][n].count # 0
                 \/ \E op \in tx : /\ op.agr = a /\ op.rec = n
                                   /\ op.kind \in {"count", "close"}

(* A patch keeps the type of a counter record and reopens none, and a delete
   leaves the count as it was (patch_record). *)
LEMMA PatchedRecord ==
    ASSUME NEW r \in CounterRecord, NEW op \in Operation, op.kind # "create"
    PROVE  /\ Patched(r, op) \in CounterRecord
           /\ r.state # "open" => Patched(r, op).state # "open"
           /\ op.kind = "delete" => Patched(r, op).count = r.count
BY DEF Patched, CounterRecord, Operation

(* A transaction advances the records, whether it lands or reverts, and one
   that lands adds a record to every agreement it creates one for. *)
LEMMA ApplyAdvances ==
    ASSUME NEW recs \in Records, NEW tx, tx \subseteq Operation
    PROVE  /\ Apply(tx, recs) \in Records
           /\ Advances(recs, Apply(tx, recs), tx)
           /\ Applies(tx, recs) => \A a \in Agreement :
                 Create(a) \in tx => Len(Apply(tx, recs)[a]) = Len(recs[a]) + 1
<1>0. \A a \in Agreement : /\ recs[a] \in Seq(CounterRecord) /\ Len(recs[a]) \in Nat
                           /\ DOMAIN recs[a] = 1..Len(recs[a])
                           /\ \A n \in 1..Len(recs[a]) : recs[a][n] \in CounterRecord
  BY DEF Records
<1>1. CASE ~Applies(tx, recs)
  <2>1. Apply(tx, recs) = recs
    BY <1>1 DEF Apply
  <2> QED BY <1>0, <1>1, <2>1 DEF Advances
<1>2. CASE Applies(tx, recs)
  <2> DEFINE onto(a, n) == {op \in tx : op.agr = a /\ op.kind # "create" /\ op.rec = n}
             old(a) == [n \in DOMAIN recs[a] |->
                          IF onto(a, n) = {} THEN recs[a][n]
                          ELSE Patched(recs[a][n], CHOOSE op \in onto(a, n) : TRUE)]
             new == Apply(tx, recs)
  <2>1. ASSUME NEW a \in Agreement, NEW n \in 1..Len(recs[a])
        PROVE  /\ old(a)[n] \in CounterRecord
               /\ recs[a][n].state # "open" => old(a)[n].state # "open"
               /\ old(a)[n].count # 0 =>
                     \/ recs[a][n].count # 0
                     \/ \E op \in tx : /\ op.agr = a /\ op.rec = n
                                       /\ op.kind \in {"count", "close"}
    <3>1. CASE onto(a, n) = {}
      BY <1>0, <3>1
    <3>2. CASE onto(a, n) # {}
      <4> DEFINE op == CHOOSE o \in onto(a, n) : TRUE
      <4>1. op \in onto(a, n)
        BY <3>2
      <4>2. op \in Operation /\ op \in tx /\ op.kind # "create" /\ op.agr = a /\ op.rec = n
        BY <4>1
      <4>3. op.kind \in {"count", "close", "delete"}
        BY <4>2 DEF Operation
      <4>4. old(a)[n] = Patched(recs[a][n], op)
        BY <1>0, <3>2
      <4>5. Patched(recs[a][n], op) \in CounterRecord
            /\ (recs[a][n].state # "open" => Patched(recs[a][n], op).state # "open")
            /\ (op.kind = "delete" => Patched(recs[a][n], op).count = recs[a][n].count)
        BY <1>0, <4>2, PatchedRecord
      <4> HIDE DEF op, old
      <4> QED BY <4>2, <4>3, <4>4, <4>5
    <3> QED BY <3>1, <3>2
  <2>2. ASSUME NEW a \in Agreement
        PROVE  old(a) \in Seq(CounterRecord) /\ Len(old(a)) = Len(recs[a])
    <3>1. old(a) \in [1..Len(recs[a]) -> CounterRecord]
      BY <1>0, <2>1
    <3> HIDE DEF old
    <3> QED BY <1>0, <3>1, FunctionIsSeq
  <2>3. ASSUME NEW a \in Agreement
        PROVE  new[a] = IF Create(a) \in tx THEN Append(old(a), FreshRecord) ELSE old(a)
    BY <1>2, Zenon DEF Apply
  <2>4. FreshRecord \in CounterRecord /\ FreshRecord.count = 0
    BY DEF FreshRecord, CounterRecord
  <2> HIDE DEF old
  <2>5. ASSUME NEW a \in Agreement
        PROVE  /\ new[a] \in Seq(CounterRecord)
               /\ Len(new[a]) = IF Create(a) \in tx THEN Len(recs[a]) + 1 ELSE Len(recs[a])
               /\ \A n \in 1..Len(recs[a]) : new[a][n] = old(a)[n]
               /\ Create(a) \in tx => new[a][Len(recs[a]) + 1] = FreshRecord
    <3> HIDE DEF new
    <3>1. CASE Create(a) \in tx
      <4>1. new[a] = Append(old(a), FreshRecord)
        BY <2>3, <3>1
      <4> QED BY <1>0, <2>2, <2>4, <3>1, <4>1, AppendProperties
    <3>2. CASE Create(a) \notin tx
      BY <2>2, <2>3, <3>2
    <3> QED BY <3>1, <3>2
  <2>6. new = [a \in Agreement |-> new[a]]
    BY <1>2 DEF Apply
  <2>7. \A a \in Agreement : Create(a).agr = a
    BY DEF Create
  <2> HIDE DEF new
  <2>8. Advances(recs, new, tx)
    <3> SUFFICES ASSUME NEW a \in Agreement
                 PROVE  /\ Len(new[a]) >= Len(recs[a])
                        /\ (\A op \in tx : op.agr # a) => Len(new[a]) = Len(recs[a])
                        /\ \A m \in 1..Len(recs[a]) :
                              recs[a][m].state # "open" => new[a][m].state # "open"
                        /\ \A n \in 1..Len(new[a]) : new[a][n].count # 0 =>
                              /\ n \in 1..Len(recs[a])
                              /\ \/ recs[a][n].count # 0
                                 \/ \E op \in tx : /\ op.agr = a /\ op.rec = n
                                                   /\ op.kind \in {"count", "close"}
      BY DEF Advances
    <3>1. Len(new[a]) >= Len(recs[a]) /\ Len(new[a]) \in Nat
      BY <1>0, <2>5
    <3>2. (\A op \in tx : op.agr # a) => Len(new[a]) = Len(recs[a])
      BY <2>5, <2>7
    <3>3. \A m \in 1..Len(recs[a]) : recs[a][m].state # "open" => new[a][m].state # "open"
      BY <2>1, <2>5
    <3>4. ASSUME NEW n \in 1..Len(new[a]), new[a][n].count # 0
          PROVE  n \in 1..Len(recs[a])
      BY <1>0, <2>4, <2>5, <3>4
    <3>5. ASSUME NEW n \in 1..Len(new[a]), new[a][n].count # 0
          PROVE  \/ recs[a][n].count # 0
                 \/ \E op \in tx : /\ op.agr = a /\ op.rec = n
                                   /\ op.kind \in {"count", "close"}
      BY <2>1, <2>5, <3>4, <3>5
    <3> QED BY <3>1, <3>2, <3>3, <3>4, <3>5
  <2>9. new \in Records
    BY <2>5, <2>6 DEF Records
  <2> QED BY <2>5, <2>8, <2>9 DEF new
<1> QED BY <1>1, <1>2

-----------------------------------------------------------------------------
(* The record a read makes an agreement count into. *)
LEMMA ReadOldest ==
    ASSUME IInv, NEW a \in Agreement, Oldest(read, a) # 0
    PROVE  /\ Oldest(read, a) \in 1..Len(records[a])
           /\ Eldest(records, a, Oldest(read, a))
           /\ read[a][Oldest(read, a)].count \in Nat
           /\ a \in spent
<1>1. read \in Records /\ records \in Records
  BY DEF IInv, TypeOK, Records
<1>2. Len(read[a]) \in Nat /\ Len(records[a]) \in Nat /\ Len(read[a]) <= Len(records[a])
  BY <1>1 DEF IInv, ReadIsPast, Records
<1>3. /\ Oldest(read, a) \in 1..Len(read[a])
      /\ read[a][Oldest(read, a)] \in CounterRecord
      /\ \A m \in 1..(Oldest(read, a) - 1) : read[a][m].state # "open"
  BY <1>1, OldestIsOpen
<1>4. Eldest(records, a, Oldest(read, a))
  BY <1>2, <1>3 DEF Eldest, IInv, ReadIsPast
<1>5. records[a] # <<>>
  BY <1>2, <1>3
<1> QED BY <1>2, <1>3, <1>4, <1>5 DEF CounterRecord, IInv, FirstRecord, Unborn

(* Every operation built has the type of one. *)
LEMMA OperationTypes ==
    ASSUME NEW a \in Agreement, NEW n \in Nat, NEW c \in Nat
    PROVE  /\ Create(a) \in Operation /\ Count(a, n, c) \in Operation
           /\ Close(a, n, c) \in Operation /\ Delete(a, n) \in Operation
BY DEF Operation, Create, Count, Close, Delete

(* What a step lands or leaves pending was pending, or it takes it off the
   batch. *)
Sent(op) == \/ \E i \in DOMAIN pending : op \in Pend(i)
            \/ op \in batch /\ op \notin batch'

(* A step changes the records as a transaction sent does, or not at all. *)
LEMMA RecordsStep ==
    ASSUME IInv, [Next]_vars
    PROVE  \E tx : /\ tx \subseteq Operation /\ \A op \in tx : Sent(op)
                   /\ records' \in Records /\ Advances(records, records', tx)
<1>0. records \in Records
  BY DEF IInv, TypeOK, Records
<1>1. CASE UNCHANGED records
  <2>1. Advances(records, records', {})
    BY <1>0, <1>1 DEF Advances, Records
  <2> QED BY <1>0, <1>1, <2>1
<1>2. ASSUME NEW a \in Agreement, NEW n \in DOMAIN records[a], PeriodEnds(a, n)
      PROVE  records' \in Records /\ Advances(records, records', {})
  <2>0. /\ records[a] \in Seq(CounterRecord) /\ DOMAIN records[a] = 1..Len(records[a])
        /\ records[a][n] \in CounterRecord
    BY <1>0 DEF Records
  <2> DEFINE r == [records[a][n] EXCEPT !.over = TRUE]
  <2>1. r \in CounterRecord /\ r.count = records[a][n].count /\ r.state = records[a][n].state
    BY <2>0 DEF CounterRecord
  <2>2. records' = [records EXCEPT ![a] = [records[a] EXCEPT ![n] = r]]
    BY <1>0, <1>2, <2>0 DEF PeriodEnds, Records
  <2> HIDE DEF r
  <2> DEFINE s == [records[a] EXCEPT ![n] = r]
  <2>3. s \in Seq(CounterRecord) /\ Len(s) = Len(records[a])
        /\ \A j \in 1..Len(records[a]) : s[j] = IF j = n THEN r ELSE records[a][j]
    BY <2>0, <2>1, ExceptSeq
  <2> HIDE DEF s
  <2>4. records' = [records EXCEPT ![a] = s]
    BY <2>2 DEF s
  <2>5. records' \in Records
    BY <1>0, <2>3, <2>4 DEF Records
  <2>6. \A b \in Agreement : records'[b] = IF b = a THEN s ELSE records[b]
    BY <1>0, <2>4 DEF Records
  <2>7. \A b \in Agreement :
           /\ Len(records'[b]) = Len(records[b])
           /\ \A j \in 1..Len(records[b]) : /\ records'[b][j].count = records[b][j].count
                                            /\ records'[b][j].state = records[b][j].state
    BY <2>0, <2>1, <2>3, <2>6
  <2>8. Advances(records, records', {})
    <3>1. \A b \in Agreement : Len(records[b]) \in Nat
      BY <1>0 DEF Records
    <3> QED BY <2>7, <3>1 DEF Advances
  <2> QED BY <2>5, <2>8
<1>3. ASSUME PendingLands
      PROVE  \E tx : /\ tx \subseteq Operation /\ \A op \in tx : Sent(op)
                     /\ records' \in Records /\ Advances(records, records', tx)
  <2>1. pending \in Seq([ops: SUBSET Operation, by: Task]) /\ pending # <<>>
    BY <1>3 DEF IInv, TypeOK, PendingLands
  <2>2. 1 \in DOMAIN pending /\ Head(pending) = pending[1]
        /\ pending[1] \in [ops: SUBSET Operation, by: Task]
    BY <2>1, FirstOfSeq
  <2>3. Pend(1) \subseteq Operation /\ \A op \in Pend(1) : Sent(op)
    BY <2>2 DEF Pend, Sent
  <2>4. records' = Apply(Pend(1), records)
    BY <1>3, <2>2 DEF PendingLands, Pend
  <2> QED BY <1>0, <2>3, <2>4, ApplyAdvances
<1>4. ASSUME NEW tx \in Chunks, SendAnswered(tx)
      PROVE  /\ tx \subseteq Operation /\ \A op \in tx : Sent(op)
             /\ records' \in Records /\ Advances(records, records', tx)
  <2>1. tx \subseteq batch /\ batch \subseteq Operation
    BY DEF Chunks, IInv, TypeOK
  <2>2. records' = Apply(tx, records) /\ batch' = batch \ tx
    BY <1>4 DEF SendAnswered
  <2> QED BY <1>0, <2>1, <2>2, ApplyAdvances DEF Sent
<1> QED
  BY <1>1, <1>2, <1>3, <1>4 DEF Next, vars, chainVars, RecordServed, AgreementExpires,
     PendingDropped, Start, Crash, Exit, ReconcileAgreements, SkipAgreements, Flush,
     ShutdownFlush, ReadFails, ReadOpenCounters, ReconcileCounters, SendFailed,
     SendUnresolved, EndPeriods, EndFlush, Accept, AcceptUnresolved, Accepted, EndPoll

(* What is still pending after a step was pending or is sent by it. *)
LEMMA PendingStep ==
    ASSUME IInv, [Next]_vars
    PROVE  /\ pending' \in Seq([ops: SUBSET Operation, by: Task])
           /\ \A i \in DOMAIN pending' : \A op \in pending'[i].ops : Sent(op)
<1> DEFINE Tx == [ops: SUBSET Operation, by: Task]
<1>0. pending \in Seq(Tx) /\ DOMAIN pending = 1..Len(pending) /\ Len(pending) \in Nat
  BY LenProperties DEF IInv, TypeOK
<1>1. CASE UNCHANGED pending
  BY <1>0, <1>1 DEF Sent, Pend
<1>2. CASE pending # <<>> /\ pending' = Tail(pending)
  <2>1. /\ Tail(pending) \in Seq(Tx) /\ Len(Tail(pending)) = Len(pending) - 1
        /\ \A i \in 1..Len(Tail(pending)) : Tail(pending)[i] = pending[i + 1]
    BY <1>0, <1>2, HeadTailProperties
  <2>2. DOMAIN Tail(pending) = 1..Len(Tail(pending))
    BY <2>1, LenProperties
  <2>3. \A i \in DOMAIN Tail(pending) : i + 1 \in DOMAIN pending
    BY <1>0, <2>1, <2>2
  <2> QED BY <1>2, <2>1, <2>2, <2>3 DEF Sent, Pend
<1>3. ASSUME NEW tx \in Chunks, SendUnresolved(tx)
      PROVE  /\ pending' \in Seq(Tx)
             /\ \A i \in DOMAIN pending' : \A op \in pending'[i].ops : Sent(op)
  <2> DEFINE new == [ops |-> tx, by |-> task]
  <2>1. tx \subseteq batch /\ batch \subseteq Operation /\ task \in Task
    BY DEF Chunks, IInv, TypeOK
  <2>2. new \in Tx /\ new.ops = tx
    BY <2>1
  <2>3. pending' = Append(pending, new) /\ batch' = batch \ tx
    BY <1>3 DEF SendUnresolved
  <2> HIDE DEF new, Tx
  <2>4. /\ pending' \in Seq(Tx) /\ Len(pending') = Len(pending) + 1
        /\ \A i \in 1..Len(pending) : pending'[i] = pending[i]
        /\ pending'[Len(pending) + 1] = new
    BY <1>0, <2>2, <2>3, AppendProperties
  <2>5. DOMAIN pending' = 1..Len(pending')
    BY <2>4, LenProperties
  <2>6. \A i \in DOMAIN pending' : i \in DOMAIN pending \/ i = Len(pending) + 1
    BY <1>0, <2>4, <2>5
  <2> QED BY <1>0, <2>1, <2>2, <2>3, <2>4, <2>6 DEF Sent, Pend
<1> QED
  BY <1>1, <1>2, <1>3 DEF Next, vars, chainVars, RecordServed, PeriodEnds, AgreementExpires,
     PendingLands, PendingDropped, Start, Crash, Exit, ReconcileAgreements, SkipAgreements,
     Flush, ShutdownFlush, ReadFails, ReadOpenCounters, ReconcileCounters, SendAnswered,
     SendFailed, EndPeriods, EndFlush, Accept, AcceptUnresolved, Accepted, EndPoll

(* An operation a step builds names an existing record, and writes a count
   only into an eldest one. *)
Built(op) ==
    /\ op \in Operation /\ op.agr \in spent'
    /\ op.kind # "create" => op.rec \in 1..Len(records[op.agr])
    /\ op.kind \in {"count", "close"} => Eldest(records, op.agr, op.rec)

(* An operation on an existing record is well formed, one that writes a count
   if the record is eldest (what counts_batch and close_ended push). *)
LEMMA BuiltOperations ==
    ASSUME IInv, spent \subseteq spent', NEW a \in spent, NEW n \in 1..Len(records[a]),
           NEW c \in Nat
    PROVE  /\ Built(Create(a)) /\ Built(Delete(a, n))
           /\ Eldest(records, a, n) => Built(Count(a, n, c)) /\ Built(Close(a, n, c))
<1>1. a \in Agreement /\ n \in Nat
  BY DEF IInv, TypeOK
<1> QED BY <1>1, OperationTypes DEF Built, Create, Count, Close, Delete

(* A create names no record, so it may be sent at any time (accept,
   end_periods). *)
LEMMA BuiltCreate ==
    ASSUME NEW a \in Agreement, a \in spent'
    PROVE  Built(Create(a))
BY OperationTypes DEF Built, Create

(* subtract_served stays a natural number. *)
LEMMA SaturatingSubType ==
    ASSUME NEW x \in Nat, NEW y
    PROVE  y \in Nat => SaturatingSub(x, y) \in Nat
BY DEF SaturatingSub

(* The counts a reconcile leaves in memory. *)
LEMMA MatchedTypes ==
    ASSUME IInv
    PROVE  MatchedServed \in [Agreement -> Nat]
<1>1. ASSUME NEW a \in Agreement PROVE ForgottenCount(a) \in Nat
  <2>1. counter[a] # 0 => records[a][counter[a]] \in CounterRecord
    BY ElementOfSeq DEF IInv, TypeOK, RefsExist
  <2> QED BY <2>1 DEF ForgottenCount, CounterRecord
<1>2. ASSUME NEW a \in Agreement PROVE SeededCount(a) \in Nat
  BY ReadOldest DEF SeededCount
<1>3. ASSUME NEW a \in Agreement PROVE served[a] \in Nat
  BY DEF IInv, TypeOK
<1>4. ASSUME NEW a \in Agreement
      PROVE  SaturatingSub(served[a], ForgottenCount(a)) + SeededCount(a) \in Nat
  BY <1>1, <1>2, <1>3, SaturatingSubType
<1> QED BY <1>3, <1>4 DEF MatchedServed

(* Every operation of a flush's batch is well formed against the records as
   they are when it is built (counts_batch). *)
LEMMA CountsBuilt ==
    ASSUME IInv, spent' = spent, NEW s \in [Agreement -> Nat]
    PROVE  /\ \A op \in CountsBatch(s) : Built(op)
           /\ \A op \in Closings(s) : Built(op)
<1>0. known \subseteq spent /\ spent \subseteq Agreement
  BY DEF IInv, TypeOK, RefsExist
<1>1. ASSUME NEW a \in Agreement, NEW n \in Duplicates(read, a)
      PROVE  Built(Delete(a, n))
  <2>1. n \in 1..Len(read[a]) /\ Len(read[a]) <= Len(records[a])
        /\ Len(read[a]) \in Nat /\ Len(records[a]) \in Nat
    BY LenProperties DEF Duplicates, Open, IInv, TypeOK, ReadIsPast
  <2>2. n \in 1..Len(records[a]) /\ records[a] # <<>>
    BY <2>1, EmptySeq
  <2>3. a \in spent
    BY <2>2 DEF IInv, FirstRecord, Unborn
  <2> QED BY <2>2, <2>3, BuiltOperations
<1>2. ASSUME NEW a \in Strays(read)
      PROVE  Built(StrayOperation(a))
  <2>1. a \in Agreement /\ Oldest(read, a) # 0
    BY DEF Strays
  <2> QED BY <2>1, ReadOldest, BuiltOperations DEF StrayOperation
<1>3. ASSUME NEW a \in known, NEW op \in CountOperations(a, s[a])
      PROVE  Built(op)
  <2>1. a \in Agreement /\ a \in spent /\ a \in spent' /\ s[a] \in Nat
    BY <1>0
  <2>2. CASE Oldest(read, a) = 0
    <3>1. op = Create(a)
      BY <2>2 DEF CountOperations
    <3> QED BY <2>1, <3>1, BuiltCreate
  <2>3. CASE Oldest(read, a) # 0
    <3>1. op \in {Close(a, Oldest(read, a), s[a]), Count(a, Oldest(read, a), s[a])}
      BY <2>3 DEF CountOperations
    <3>2. Oldest(read, a) \in 1..Len(records[a]) /\ Eldest(records, a, Oldest(read, a))
      BY <2>1, <2>3, ReadOldest
    <3> QED BY <2>1, <3>1, <3>2, BuiltOperations
  <2> QED BY <2>2, <2>3
<1>4. ASSUME NEW op \in Closings(s) PROVE Built(op)
  <2>1. PICK a \in known : PeriodIsOver(a, s[a]) /\ op = Close(a, Oldest(read, a), s[a])
    BY DEF Closings
  <2>2. Oldest(read, a) # 0 /\ a \in Agreement /\ a \in spent /\ s[a] \in Nat
    BY <1>0, <2>1 DEF PeriodIsOver
  <2>3. Oldest(read, a) \in 1..Len(records[a]) /\ Eldest(records, a, Oldest(read, a))
    BY <2>2, ReadOldest
  <2> QED BY <2>1, <2>2, <2>3, BuiltOperations
<1>5. ASSUME NEW op \in Housekeeping PROVE Built(op)
  <2>0. op \in DuplicateDeletes \/ op \in StrayOperations
    BY <1>5 DEF Housekeeping
  <2>1. \/ \E a \in Agreement : op \in DuplicateOperations(a)
        \/ \E a \in Strays(read) : op = StrayOperation(a)
    BY <2>0, Zenon DEF DuplicateDeletes, StrayOperations
  <2>2. \/ \E a \in Agreement : \E n \in Duplicates(read, a) : op = Delete(a, n)
        \/ \E a \in Strays(read) : op = StrayOperation(a)
    BY <2>1 DEF DuplicateOperations
  <2> QED BY <1>1, <1>2, <2>2
<1> QED BY <1>3, <1>4, <1>5 DEF CountsBatch

(* What a step leaves to send was queued before it or is built by it. *)
LEMMA BatchStep ==
    ASSUME IInv, [Next]_vars
    PROVE  /\ \A op \in batch' : op \in Operation /\ (Queued(op) \/ Built(op))
           /\ \A op \in closing' : op \in Operation /\ (Queued(op) \/ Built(op))
<1>0. batch \subseteq Operation /\ closing \subseteq Operation
  BY DEF IInv, TypeOK
<1>1. CASE batch' \subseteq batch /\ closing' \subseteq closing
  BY <1>0, <1>1 DEF Queued
<1>2. ASSUME ReconcileAgreements
      PROVE  closing' = closing /\ \A op \in batch' : Built(op)
  <2>1. closing' = closing /\ spent' = spent
    BY <1>2 DEF ReconcileAgreements, chainVars
  <2>2. ASSUME NEW op \in batch' PROVE Built(op)
    <3>1. PICK a \in known : /\ counter[a] # 0
                             /\ op \in {Delete(a, counter[a]), Close(a, counter[a], served[a])}
      BY <1>2, <2>2 DEF ReconcileAgreements
    <3>2. /\ a \in spent /\ a \in Agreement
          /\ counter[a] \in 1..Len(records[a]) /\ Eldest(records, a, counter[a])
          /\ served[a] \in Nat
      BY <3>1 DEF IInv, TypeOK, RefsExist, EldestCount
    <3> QED BY <2>1, <3>1, <3>2, BuiltOperations
  <2> QED BY <2>1, <2>2
<1>3. ASSUME ReconcileCounters
      PROVE  \/ batch' = batch /\ closing' = closing
             \/ /\ \A op \in batch' : Built(op)
                /\ \A op \in closing' : Built(op)
  BY <1>3, MatchedTypes, CountsBuilt DEF ReconcileCounters, chainVars
<1>4. ASSUME EndPeriods
      PROVE  closing' = {} /\ \A op \in batch' : Built(op)
  <2>1. closing' = {} /\ spent' = spent
    BY <1>4 DEF EndPeriods, chainVars
  <2>2. ASSUME NEW op \in batch' PROVE Built(op)
    <3>1. PICK c \in closing : op = Create(c.agr)
      BY <1>4, <2>2 DEF EndPeriods
    <3>2. c.agr \in spent /\ c.agr \in Agreement
      BY <1>0, <3>1 DEF IInv, RefsExist, Queued, Operation
    <3> QED BY <2>1, <3>1, <3>2, BuiltCreate
  <2> QED BY <2>1, <2>2
<1>5. ASSUME NEW a \in Agreement, Accept(a)
      PROVE  closing' = closing /\ \A op \in batch' : Built(op)
  BY <1>5, BuiltCreate DEF Accept
<1>6. \A op : Built(op) => op \in Operation
  BY DEF Built
<1> HIDE DEF IInv
<1> QED
  <2>1. CASE ReconcileAgreements
    BY <1>0, <1>2, <1>6, <2>1 DEF Queued
  <2>2. CASE ReconcileCounters
    BY <1>0, <1>1, <1>3, <1>6, <2>2
  <2>3. CASE EndPeriods
    BY <1>4, <1>6, <2>3
  <2>4. CASE \E a \in Agreement : Accept(a)
    BY <1>0, <1>5, <1>6, <2>4 DEF Queued
  <2>5. CASE ~(ReconcileAgreements \/ ReconcileCounters \/ EndPeriods
               \/ \E a \in Agreement : Accept(a))
    BY <1>1, <2>5 DEF Next, vars, flushVars, NoFlush, RecordServed, PeriodEnds,
       AgreementExpires, PendingLands, PendingDropped, Start, Crash, Exit, SkipAgreements,
       Flush, ShutdownFlush, ReadFails, ReadOpenCounters, SendAnswered, SendFailed,
       SendUnresolved, EndFlush, AcceptUnresolved, Accepted, EndPoll
  <2> QED BY <2>1, <2>2, <2>3, <2>4, <2>5

-----------------------------------------------------------------------------
(* What the records of a step's successor state keep of being eldest. *)
LEMMA EldestKept ==
    ASSUME IInv, NEW tx, records' \in Records, Advances(records, records', tx),
           NEW a \in Agreement, NEW n \in 0..(Len(records[a]) + 1), Eldest(records, a, n)
    PROVE  Eldest(records', a, n)
<1>1. Len(records[a]) \in Nat
  BY DEF IInv, TypeOK
<1>2. ASSUME NEW m \in 1..(n - 1) PROVE records'[a][m].state # "open"
  <2>1. m \in 1..Len(records[a]) /\ records[a][m].state # "open"
    BY <1>1 DEF Eldest
  <2> QED BY <2>1 DEF Advances
<1> QED BY <1>2 DEF Eldest

(* Queued operations keep naming existing records, and eldest ones where
   they write a count. *)
LEMMA QueueStep ==
    ASSUME IInv, [Next]_vars, NEW op \in Operation, Queued(op)'
    PROVE  /\ op.agr \in spent'
           /\ op.kind # "create" => op.rec \in 1..Len(records'[op.agr])
           /\ op.kind \in {"count", "close"} => Eldest(records', op.agr, op.rec)
<1>1. Queued(op) \/ Built(op)
  <2>1. CASE op \in batch' \/ op \in closing'
    BY <2>1, BatchStep
  <2>2. CASE \E i \in DOMAIN pending' : op \in pending'[i].ops
    BY <2>2, PendingStep DEF Sent, Queued
  <2> QED BY <2>1, <2>2 DEF Queued, Pend
<1>2. spent \subseteq spent'
  BY DEF Next, vars, chainVars, RecordServed, PeriodEnds, AgreementExpires,
     PendingLands, PendingDropped, Start, Crash, Exit, ReconcileAgreements, SkipAgreements,
     Flush, ShutdownFlush, ReadFails, ReadOpenCounters, ReconcileCounters, SendAnswered,
     SendFailed, SendUnresolved, EndPeriods, EndFlush, Accept, AcceptUnresolved, Accepted,
     EndPoll
<1>3. /\ op.agr \in spent'
      /\ op.kind # "create" => op.rec \in 1..Len(records[op.agr])
      /\ op.kind \in {"count", "close"} => Eldest(records, op.agr, op.rec)
  BY <1>1, <1>2 DEF Built, IInv, RefsExist, EldestCount
<1>4. PICK tx : records' \in Records /\ Advances(records, records', tx)
  BY RecordsStep
<1>5. /\ op.agr \in Agreement /\ Len(records[op.agr]) \in Nat
      /\ Len(records'[op.agr]) \in Nat /\ Len(records'[op.agr]) >= Len(records[op.agr])
  BY <1>4 DEF Operation, Advances, Records, IInv, TypeOK
<1>6. op.kind # "create" => op.rec \in 1..Len(records'[op.agr])
  BY <1>3, <1>5
<1>7. ASSUME op.kind \in {"count", "close"} PROVE Eldest(records', op.agr, op.rec)
  <2>1. op.rec \in 0..(Len(records[op.agr]) + 1) /\ Eldest(records, op.agr, op.rec)
    BY <1>3, <1>5, <1>7
  <2> QED BY <1>4, <1>5, <2>1, EldestKept
<1> QED BY <1>3, <1>6, <1>7

(* The record memory counts into exists and is eldest. *)
LEMMA CounterStep ==
    ASSUME IInv, [Next]_vars
    PROVE  /\ counter' \in [Agreement -> Nat]
           /\ \A a \in Agreement : counter'[a] \in 0..Len(records'[a])
           /\ \A a \in Agreement : counter'[a] # 0 => Eldest(records', a, counter'[a])
<1>0. /\ counter \in [Agreement -> Nat] /\ records \in Records
      /\ \A a \in Agreement : /\ counter[a] \in 0..Len(records[a])
                              /\ counter[a] # 0 => Eldest(records, a, counter[a])
                              /\ Len(records[a]) \in Nat
  BY DEF IInv, TypeOK, RefsExist, EldestCount, Records
<1>1. PICK tx0 : records' \in Records /\ Advances(records, records', tx0)
  BY RecordsStep
<1>2. \A a \in Agreement : /\ Len(records'[a]) \in Nat
                           /\ Len(records'[a]) >= Len(records[a])
  BY <1>0, <1>1 DEF Advances, Records
<1>3. ASSUME NEW a \in Agreement, NEW n \in 0..Len(records[a]), n # 0 => Eldest(records, a, n)
      PROVE  n \in 0..Len(records'[a]) /\ (n # 0 => Eldest(records', a, n))
  <2>1. n \in 0..(Len(records[a]) + 1) /\ n \in 0..Len(records'[a])
    BY <1>0, <1>2
  <2> QED BY <1>1, <1>3, <2>1, EldestKept
<1>4. CASE /\ counter' \in [Agreement -> Nat]
           /\ \A a \in Agreement : counter'[a] \in {0, counter[a]}
  <2>1. \A a \in Agreement : 0 \in 0..Len(records[a])
    BY <1>0
  <2>2. ASSUME NEW a \in Agreement
        PROVE  /\ counter'[a] \in 0..Len(records[a])
               /\ counter'[a] # 0 => Eldest(records, a, counter'[a])
    BY <1>0, <1>4, <2>1
  <2> QED BY <1>3, <1>4, <2>2
<1>5. CASE ReconcileCounters
  <2>1. counter' = MatchedCounter
    BY <1>5 DEF ReconcileCounters
  <2>2. ASSUME NEW a \in Agreement
        PROVE  /\ MatchedCounter[a] \in 0..Len(records[a])
               /\ MatchedCounter[a] # 0 => Eldest(records, a, MatchedCounter[a])
    <3>1. MatchedCounter[a] = IF a \in known THEN Oldest(read, a) ELSE counter[a]
      BY DEF MatchedCounter
    <3> QED BY <1>0, <3>1, ReadOldest
  <2>3. MatchedCounter \in [Agreement -> Nat]
    <3>1. MatchedCounter = [a \in Agreement |-> MatchedCounter[a]]
      BY DEF MatchedCounter
    <3>2. \A a \in Agreement : MatchedCounter[a] \in Nat
      BY <1>0, <2>2
    <3> QED BY <3>1, <3>2
  <2> QED BY <1>3, <2>1, <2>2, <2>3
<1>6. ASSUME NEW tx \in Chunks, SendAnswered(tx)
      PROVE  /\ counter' \in [Agreement -> Nat]
             /\ \A a \in Agreement : counter'[a] \in 0..Len(records'[a])
             /\ \A a \in Agreement : counter'[a] # 0 => Eldest(records', a, counter'[a])
  <2>1. tx \subseteq batch /\ batch \subseteq Operation
    BY DEF Chunks, IInv, TypeOK
  <2>2. ASSUME NEW a \in Agreement, pc = "accept", Create(a) \in tx
        PROVE  Len(records[a]) = 0 /\ Len(records'[a]) = 1
    <3>1. Unborn(a) /\ Len(records[a]) = 0
      BY <2>1, <2>2 DEF IInv, FirstRecord, Create, Unborn
    <3>2. records' = Apply(tx, records) /\ Applies(tx, records)
      BY <1>6 DEF SendAnswered
    <3>3. tx \subseteq Operation /\ records \in Records
      BY <1>0, <2>1
    <3>4. Len(Apply(tx, records)[a]) = Len(records[a]) + 1
      BY <2>2, <3>2, <3>3, ApplyAdvances
    <3> QED BY <3>1, <3>2, <3>4
  <2>3. /\ counter' \in [Agreement -> Nat]
        /\ \A a \in Agreement : counter'[a] =
              IF pc = "accept" /\ Create(a) \in tx THEN Len(records[a]) + 1 ELSE counter[a]
    BY <1>0, <1>6 DEF SendAnswered
  <2>4. ASSUME NEW a \in Agreement
        PROVE  /\ counter'[a] \in 0..Len(records'[a])
               /\ counter'[a] # 0 => Eldest(records', a, counter'[a])
    <3>1. CASE pc = "accept" /\ Create(a) \in tx
      <4>1. counter'[a] = 1 /\ Len(records'[a]) = 1
        BY <2>2, <2>3, <3>1
      <4>2. Eldest(records', a, 1)
        BY DEF Eldest
      <4> QED BY <4>1, <4>2
    <3>2. CASE ~(pc = "accept" /\ Create(a) \in tx)
      BY <1>0, <1>3, <2>3, <3>2
    <3> QED BY <3>1, <3>2
  <2> QED BY <2>3, <2>4
<1>7. CASE ReconcileAgreements \/ EndPeriods
  <2>1. /\ counter' \in [Agreement -> Nat]
        /\ \A a \in Agreement : counter'[a] \in {0, counter[a]}
    <3>1. CASE ReconcileAgreements
      BY <1>0, <3>1 DEF ReconcileAgreements
    <3>2. CASE EndPeriods
      <4> DEFINE agrs == {c.agr : c \in {d \in closing : <<d.agr, d.rec>> \in landed}}
      <4>1. counter' = [a \in Agreement |-> IF a \in agrs THEN 0 ELSE counter[a]]
        BY <3>2 DEF EndPeriods
      <4> HIDE DEF agrs
      <4> QED BY <1>0, <4>1
    <3> QED BY <1>7, <3>1, <3>2
  <2> QED BY <1>4, <2>1
<1>8. CASE \/ UNCHANGED counter
           \/ counter' = [a \in Agreement |-> 0]
  BY <1>0, <1>4, <1>8
<1> QED
  BY <1>5, <1>6, <1>7, <1>8 DEF Next, vars, memVars, Forget, RecordServed, PeriodEnds,
     AgreementExpires, PendingLands, PendingDropped, Start, Crash, Exit,
     SkipAgreements, Flush, ShutdownFlush, ReadFails,
     ReadOpenCounters, SendFailed, SendUnresolved, EndFlush, Accept,
     AcceptUnresolved, Accepted, EndPoll

(* The agreements. *)
LEMMA AgreementsStep ==
    ASSUME IInv, [Next]_vars
    PROVE  /\ spent' \subseteq Agreement /\ live' \subseteq spent'
           /\ known' \subseteq spent' /\ known' \subseteq Agreement
BY DEF IInv, TypeOK, RefsExist, Next, vars, chainVars, memVars, Forget, RecordServed,
   PeriodEnds, AgreementExpires, PendingLands, PendingDropped, Start, Crash, Exit,
   ReconcileAgreements, SkipAgreements, Flush, ShutdownFlush, ReadFails, ReadOpenCounters,
   ReconcileCounters, SendAnswered, SendFailed, SendUnresolved, EndPeriods, EndFlush,
   Accept, AcceptUnresolved, Accepted, EndPoll

(* A read stays one of the past. *)
LEMMA ReadStep ==
    ASSUME IInv, [Next]_vars
    PROVE  read' \in Records /\ ReadIsPast'
<1> USE DEF Records
<1>0. /\ read \in Records /\ records \in Records
      /\ \A a \in Agreement : Len(records[a]) \in Nat /\ Len(read[a]) \in Nat
  BY DEF IInv, TypeOK
<1>1. PICK tx0 : records' \in Records /\ Advances(records, records', tx0)
  BY RecordsStep
<1>2. \A a \in Agreement : /\ Len(records'[a]) \in Nat
                           /\ Len(records'[a]) >= Len(records[a])
  BY <1>0, <1>1 DEF Advances
<1>3. CASE read' = read
  BY <1>0, <1>1, <1>2, <1>3 DEF IInv, ReadIsPast, Advances
<1>4. CASE read' = records /\ records' = records
  BY <1>0, <1>4 DEF ReadIsPast
<1>5. CASE read' = NoRead
  <2>1. NoRead \in Records /\ \A a \in Agreement : Len(NoRead[a]) = 0
    BY DEF NoRead
  <2> QED BY <1>2, <1>5, <2>1 DEF ReadIsPast
<1>6. read' = read \/ (read' = records /\ records' = records) \/ read' = NoRead
  BY DEF Next, vars, chainVars, flushVars, NoFlush, RecordServed, PeriodEnds,
     AgreementExpires, PendingLands, PendingDropped, Start, Crash, Exit,
     ReconcileAgreements, SkipAgreements, Flush, ShutdownFlush, ReadFails,
     ReadOpenCounters, ReconcileCounters, SendAnswered, SendFailed, SendUnresolved,
     EndPeriods, EndFlush, Accept, AcceptUnresolved, Accepted, EndPoll
<1> QED BY <1>3, <1>4, <1>5, <1>6

(* Memory's counts and what a flush remembers keep their types. *)
LEMMA MemoryTypes ==
    ASSUME IInv, [Next]_vars
    PROVE  /\ task' \in Task /\ pc' \in Pc
           /\ served' \in [Agreement -> Nat] /\ answered' \in [Agreement -> Nat]
           /\ landed' \subseteq Agreement \X Nat
<1>0. /\ task \in Task /\ pc \in Pc
      /\ served \in [Agreement -> Nat] /\ answered \in [Agreement -> Nat]
      /\ landed \subseteq Agreement \X Nat
      /\ batch \subseteq Operation /\ closing \subseteq Operation
  BY DEF IInv, TypeOK
<1>1. task' \in Task /\ pc' \in Pc
  BY <1>0 DEF Task, Pc, Next, vars, RecordServed, PeriodEnds, AgreementExpires,
     PendingLands, PendingDropped, Start, Crash, Exit, ReconcileAgreements, SkipAgreements,
     Flush, ShutdownFlush, ReadFails, ReadOpenCounters, ReconcileCounters, SendAnswered,
     SendFailed, SendUnresolved, EndPeriods, EndFlush, Accept, AcceptUnresolved, Accepted,
     EndPoll
<1>5. ASSUME NEW a \in Agreement, RecordServed(a)
      PROVE  answered' \in [Agreement -> Nat] /\ served' \in [Agreement -> Nat]
  BY <1>0, <1>5 DEF RecordServed
<1>2. answered' \in [Agreement -> Nat]
  BY <1>0, <1>5 DEF Next, vars, PeriodEnds, AgreementExpires,
     PendingLands, PendingDropped, Start, Crash, Exit, ReconcileAgreements, SkipAgreements,
     Flush, ShutdownFlush, ReadFails, ReadOpenCounters, ReconcileCounters, SendAnswered,
     SendFailed, SendUnresolved, EndPeriods, EndFlush, Accept, AcceptUnresolved, Accepted,
     EndPoll
<1>3. landed' \subseteq Agreement \X Nat
  <2>1. ASSUME NEW tx \in Chunks PROVE PatchedKeys(tx) \subseteq Agreement \X Nat
    <3>1. tx \subseteq Operation
      BY <1>0 DEF Chunks
    <3> QED BY <3>1 DEF PatchedKeys, Operation
  <2>2. ASSUME NEW tx \in Chunks, SendAnswered(tx) PROVE landed' \subseteq Agreement \X Nat
    BY <1>0, <2>1, <2>2 DEF SendAnswered
  <2> QED BY <1>0, <2>2 DEF Next, vars, flushVars, NoFlush, RecordServed, PeriodEnds,
     AgreementExpires, PendingLands, PendingDropped, Start, Crash, Exit,
     ReconcileAgreements, SkipAgreements, Flush, ShutdownFlush, ReadFails,
     ReadOpenCounters, ReconcileCounters, SendFailed, SendUnresolved, EndPeriods,
     EndFlush, Accept, AcceptUnresolved, Accepted, EndPoll
<1>4. served' \in [Agreement -> Nat]
  <2>1. CASE EndPeriods
    <3> DEFINE ended == {c \in closing : <<c.agr, c.rec>> \in landed}
               agrs == {c.agr : c \in ended}
               count(a) == (CHOOSE c \in ended : c.agr = a).count
    <3>1. served' = [a \in Agreement |-> IF a \in agrs
                        THEN SaturatingSub(served[a], count(a)) ELSE served[a]]
      BY <2>1 DEF EndPeriods
    <3>2. ASSUME NEW a \in agrs PROVE count(a) \in Nat
      <4>1. \E c \in ended : c.agr = a
        OBVIOUS
      <4>2. (CHOOSE c \in ended : c.agr = a) \in Operation
        BY <1>0, <4>1
      <4> QED BY <4>2 DEF Operation
    <3> HIDE DEF agrs, count
    <3>3. \A a \in Agreement :
             (IF a \in agrs THEN SaturatingSub(served[a], count(a)) ELSE served[a]) \in Nat
      BY <1>0, <3>2, SaturatingSubType
    <3> QED BY <3>1, <3>3
  <2>2. CASE ReconcileCounters
    BY <2>2, MatchedTypes DEF ReconcileCounters
  <2>3. CASE ReconcileAgreements
    BY <1>0, <2>3 DEF ReconcileAgreements
  <2>4. CASE UNCHANGED served \/ served' = [a \in Agreement |-> 0]
    BY <1>0, <2>4
  <2> QED BY <1>5, <2>1, <2>2, <2>3, <2>4 DEF Next, vars, memVars, Forget, PeriodEnds,
     AgreementExpires, PendingLands, PendingDropped, Start, Crash, Exit,
     SkipAgreements, Flush, ShutdownFlush, ReadFails,
     ReadOpenCounters, SendAnswered, SendFailed, SendUnresolved,
     EndFlush, Accept, AcceptUnresolved, Accepted, EndPoll
<1> QED BY <1>1, <1>2, <1>3, <1>4

(* An agreement nothing sent speaks of stays without a record. *)
LEMMA UnbornKept ==
    ASSUME IInv, [Next]_vars, NEW a \in Agreement, Unborn(a),
           \A op \in Operation : Sent(op) => op.agr # a
    PROVE  Unborn(a)'
<1>1. PICK tx : /\ tx \subseteq Operation /\ \A op \in tx : Sent(op)
                /\ records' \in Records /\ Advances(records, records', tx)
  BY RecordsStep
<1>2. Len(records'[a]) = 0 /\ records'[a] \in Seq(CounterRecord)
  BY <1>1 DEF Advances, Unborn, Records
<1>3. records'[a] = <<>>
  BY <1>2, EmptySeq
<1>4. ASSUME NEW i \in DOMAIN pending', NEW op \in pending'[i].ops PROVE op.agr # a
  <2>1. Sent(op) /\ pending' \in Seq([ops: SUBSET Operation, by: Task])
    BY PendingStep
  <2>2. pending'[i] \in [ops: SUBSET Operation, by: Task]
    BY <2>1, LenProperties, ElementOfSeq
  <2>3. op \in Operation
    BY <2>2
  <2> QED BY <2>1, <2>3
<1> QED BY <1>3, <1>4 DEF Unborn, Pend

(* Every step keeps an agreement not yet accepted without records, and an
   acceptance under way with its first create alone (accept). *)
LEMMA FirstRecordStep ==
    ASSUME IInv, [Next]_vars
    PROVE  FirstRecord'
<1>0. spent \subseteq spent'
  BY DEF Next, vars, chainVars, RecordServed, PeriodEnds, AgreementExpires,
     PendingLands, PendingDropped, Start, Crash, Exit, ReconcileAgreements, SkipAgreements,
     Flush, ShutdownFlush, ReadFails, ReadOpenCounters, ReconcileCounters, SendAnswered,
     SendFailed, SendUnresolved, EndPeriods, EndFlush, Accept, AcceptUnresolved, Accepted,
     EndPoll
<1>1. ASSUME NEW a \in Agreement \ spent' PROVE Unborn(a)'
  <2>1. a \in Agreement \ spent /\ Unborn(a)
    BY <1>0 DEF IInv, FirstRecord
  <2>2. \A op \in Operation : Sent(op) => op.agr # a
    BY <2>1 DEF IInv, RefsExist, Sent, Queued
  <2> QED BY <2>1, <2>2, UnbornKept
<1>2. ASSUME NEW op \in batch', pc' = "accept"
      PROVE  op = Create(op.agr) /\ Unborn(op.agr)'
  <2>1. CASE pc = "accept" /\ batch' \subseteq batch
    <3>1. op = Create(op.agr) /\ Unborn(op.agr) /\ op.agr \in Agreement
      BY <2>1, <1>2 DEF IInv, FirstRecord, TypeOK, Operation
    <3>2. ASSUME NEW o \in Operation, Sent(o) PROVE o.agr # op.agr
      <4>1. o \in batch => o = Create(o.agr)
        BY <2>1 DEF IInv, FirstRecord
      <4> QED BY <3>1, <3>2, <4>1 DEF Sent, Unborn
    <3> QED BY <3>1, <3>2, UnbornKept
  <2>2. ASSUME NEW a \in Agreement, Accept(a)
        PROVE  op = Create(op.agr) /\ Unborn(op.agr)'
    <3>1. /\ op = Create(a) /\ a \in Agreement \ spent
          /\ records' = records /\ pending' = pending
      BY <1>2, <2>2 DEF Accept
    <3>2. op.agr = a /\ Unborn(a)
      BY <3>1 DEF IInv, FirstRecord, Create
    <3> QED BY <3>1, <3>2 DEF Unborn, Pend
  <2> QED BY <1>2, <2>1, <2>2 DEF Next, vars, flushVars, NoFlush, RecordServed, PeriodEnds,
     AgreementExpires, PendingLands, PendingDropped, Start, Crash, Exit,
     ReconcileAgreements, SkipAgreements, Flush, ShutdownFlush, ReadFails,
     ReadOpenCounters, ReconcileCounters, SendAnswered, SendFailed, SendUnresolved,
     EndPeriods, EndFlush, AcceptUnresolved, Accepted, EndPoll
<1> QED BY <1>1, <1>2 DEF FirstRecord

-----------------------------------------------------------------------------
(* The invariant holds of an empty chain and an LB that is down. *)
LEMMA InitIInv == Init => IInv
<1> SUFFICES ASSUME Init PROVE IInv
  OBVIOUS
<1>1. \A a \in Agreement : records[a] = <<>> /\ read[a] = <<>>
  BY DEF Init, NoRead
<1>2. TypeOK
  BY DEF Init, NoRead, TypeOK, Task, Pc
<1>3. \A op : ~Queued(op)
  BY DEF Init, Queued
<1>4. RefsExist
  BY <1>1, <1>3 DEF Init, RefsExist
<1>5. ReadIsPast
  BY <1>1 DEF ReadIsPast
<1>6. EldestCount
  BY <1>1, <1>3 DEF Init, EldestCount
<1>7. FirstRecord
  BY <1>1 DEF Init, FirstRecord, Unborn
<1> QED BY <1>2, <1>4, <1>5, <1>6, <1>7 DEF IInv

(* Every step of the agent, the proxy and the chain keeps the invariant. *)
LEMMA NextIInv == IInv /\ [Next]_vars => IInv'
<1> SUFFICES ASSUME IInv, [Next]_vars PROVE IInv'
  OBVIOUS
<1>1. PICK tx : /\ tx \subseteq Operation /\ \A op \in tx : Sent(op)
                /\ records' \in Records /\ Advances(records, records', tx)
  BY RecordsStep
<1>2. TypeOK'
  <2>1. batch' \subseteq Operation /\ closing' \subseteq Operation
    BY BatchStep
  <2> QED BY <1>1, <2>1, PendingStep, AgreementsStep, CounterStep, ReadStep, MemoryTypes
          DEF TypeOK, Records
<1>3. RefsExist'
  BY AgreementsStep, CounterStep, QueueStep DEF RefsExist
<1>4. ReadIsPast'
  BY ReadStep
<1>5. EldestCount'
  <2>1. ASSUME NEW a \in Agreement, NEW n \in 1..Len(records'[a]), records'[a][n].count # 0
        PROVE  Eldest(records', a, n)
    <3>1. /\ n \in 1..Len(records[a])
          /\ \/ records[a][n].count # 0
             \/ \E op \in tx : /\ op.agr = a /\ op.rec = n
                               /\ op.kind \in {"count", "close"}
      BY <1>1, <2>1 DEF Advances
    <3>2. ASSUME NEW op \in tx, op.agr = a, op.rec = n, op.kind \in {"count", "close"}
          PROVE  Eldest(records, a, n)
      BY <1>1, <3>2 DEF IInv, EldestCount, Sent, Queued
    <3>3. Eldest(records, a, n)
      BY <3>1, <3>2 DEF IInv, EldestCount
    <3>4. n \in 0..(Len(records[a]) + 1)
      <4>1. Len(records[a]) \in Nat
        BY DEF IInv, TypeOK
      <4> QED BY <3>1, <4>1
    <3> QED BY <1>1, <3>3, <3>4, EldestKept
  <2> QED BY <2>1, CounterStep, QueueStep DEF EldestCount
<1>6. FirstRecord'
  BY FirstRecordStep
<1> QED BY <1>2, <1>3, <1>4, <1>5, <1>6 DEF IInv

(* The invariant the theorems below follow from holds of every behaviour of
   the agent (agent.rs): memory counts into an eldest open record, and every
   write of a count, queued or pending, is into an eldest one. *)
THEOREM Inductive == Spec => []IInv
BY InitIInv, NextIInv, PTL DEF Spec

(* The chain, memory and the flush in progress keep their types through every
   interleaving of writes, lost answers, crashes and restarts (agent.rs). *)
THEOREM CountersTypeOK == Spec => []TypeOK
<1>1. IInv => TypeOK
  BY DEF IInv
<1> QED BY <1>1, Inductive, PTL

(* counts_batch deletes an agreement's younger open records unread: "a count
   is only ever written into the record this LB counts into, the oldest".
   It is so for every number of agreements, records and pending transactions. *)
THEOREM YoungerNeverCount == Spec => []YoungerCarryNothing
<1>1. IInv => YoungerCarryNothing
  <2> SUFFICES ASSUME IInv, NEW a \in Agreement, NEW m \in Open(records, a),
                      NEW n \in Open(records, a), m < n
               PROVE  records[a][n].count = 0
    BY DEF YoungerCarryNothing
  <2>1. /\ DOMAIN records[a] = 1..Len(records[a]) /\ Len(records[a]) \in Nat
        /\ m \in 1..Len(records[a]) /\ n \in 1..Len(records[a])
        /\ records[a][m].state = "open"
    BY LenProperties DEF Open, IInv, TypeOK
  <2>2. m \in 1..(n - 1)
    BY <2>1
  <2>3. ~Eldest(records, a, n)
    BY <2>1, <2>2 DEF Eldest
  <2> QED BY <2>1, <2>3 DEF IInv, EldestCount
<1> QED BY <1>1, Inductive, PTL

-----------------------------------------------------------------------------
(* The operations that write a count, and those that write zero. *)
Writes(op) == op.kind \in {"count", "close"}
Zero(op) == op.kind = "count" /\ op.count = 0

ClosePending(a, n) ==
    \E i \in DOMAIN pending : \E c \in Pend(i) : c.kind = "close" /\ c.agr = a /\ c.rec = n

(* Where the task is, and what it then holds. *)
Phases ==
    /\ task \in {"down", "idle"} => pc = "rest"
    /\ task = "down" => \A a \in Agreement : counter[a] = 0
    /\ pc \in {"ended", "offers", "accept"} => task = "poll"
    /\ pc \in {"counts", "successors"} => task \in {"flush", "stop"}
    /\ pc \in {"rest", "counters", "match", "offers", "done"} => batch = {}

(* A flush begins with nothing of an earlier flush under way. *)
FlushAlone ==
    task = "flush" /\ pc \in {"counters", "match"} =>
        \A i \in DOMAIN pending : pending[i].by = "poll"

(* A poll writes of agreements that ended, and creates; memory counts for
   the agreements it knows; one it does not know yet has nothing. *)
PollWrites ==
    /\ pc = "accept" => \A op \in batch : op.agr \in known
    /\ pc = "ended" => \A op \in batch : op.agr \notin live \cup known
    /\ \A i \in DOMAIN pending : pending[i].by = "poll" =>
          \A op \in Pend(i) : op.kind # "create" => op.agr \notin live \cup known

CountsKnown == \A a \in Agreement : counter[a] # 0 => a \in known

NewUntouched ==
    task # "down" =>
        \A a \in live \ known : Unborn(a) /\ \A op \in batch \cup closing : op.agr # a

(* A close carries a count. *)
ClosesCount ==
    /\ \A c \in batch : c.kind = "close" => c.count > 0
    /\ \A i \in DOMAIN pending : \A c \in Pend(i) : c.kind = "close" => c.count > 0

(* The close of a period is the only write of its agreement that a flush
   sends, and no other was under way before it. *)
CloseAlone ==
    \A c \in batch : c.kind = "close" /\ c.agr \in known =>
        /\ served[c.agr] > 0
        /\ \A o \in batch : Writes(o) /\ o.agr = c.agr => o = c
        /\ \A i \in DOMAIN pending : \A o \in Pend(i) : Writes(o) => o.agr # c.agr

CloseFirst ==
    \A j \in DOMAIN pending : \A c \in Pend(j) :
        c.kind = "close" /\ c.agr \in live \cup known =>
            \A i \in 1..(j - 1) : \A o \in Pend(i) : Writes(o) => o.agr # c.agr

(* A zero is written into a record that is not closed, nor will be before. *)
ZeroPending ==
    \A j \in DOMAIN pending : \A o \in Pend(j) : Zero(o) =>
        /\ records[o.agr][o.rec].state # "closed"
        /\ \A i \in 1..(j - 1) : \A c \in Pend(i) :
              c.kind = "close" /\ c.agr = o.agr => c.rec # o.rec

ZeroBatch ==
    \A o \in batch : Zero(o) =>
        /\ records[o.agr][o.rec].state # "closed" /\ ~ClosePending(o.agr, o.rec)
        /\ \A c \in batch : c.kind = "close" /\ c.agr = o.agr => c.rec # o.rec

(* Memory counts on from zero beside a pending close only if the record
   carries zero as well; so does a read, also once the close has landed. *)
ZeroServed ==
    \A a \in Agreement : \A n \in 1..Len(records[a]) :
        counter[a] # 0 /\ served[a] = 0 /\ records[a][n].state = "open" /\ ClosePending(a, n)
            => records[a][n].count = 0

ReadZero ==
    pc = "match" => \A a \in Agreement : \A n \in 1..Len(read[a]) :
        read[a][n].state = "open" /\ counter[a] # 0 /\ served[a] = 0
            => \/ records[a][n].state # "closed" /\ ~ClosePending(a, n)
               \/ read[a][n].count = 0

(* A read of a record whose close is pending is not outdated while it is
   open, and no older one was open. *)
ReadSame ==
    pc = "match" =>
        /\ \A a \in known : \A n \in 1..Len(read[a]) :
              records[a][n].state = "open" /\ ClosePending(a, n)
                  => records[a][n].count = read[a][n].count
        /\ \A i \in DOMAIN pending : \A c \in Pend(i) :
              c.kind = "close" => Eldest(read, c.agr, c.rec) /\ c.rec \in 1..Len(read[c.agr])

ZInv == /\ Phases /\ FlushAlone /\ PollWrites /\ CountsKnown /\ NewUntouched /\ ClosesCount
        /\ CloseAlone /\ CloseFirst /\ ZeroPending /\ ZeroBatch /\ ZeroServed /\ ReadZero
        /\ ReadSame /\ NoClosedAtZero

-----------------------------------------------------------------------------
(* What is under way are sets of operations, in order. *)
LEMMA PendingType ==
    ASSUME IInv
    PROVE  /\ DOMAIN pending = 1..Len(pending) /\ Len(pending) \in Nat
           /\ \A i \in DOMAIN pending : Pend(i) \subseteq Operation
<1>1. pending \in Seq([ops: SUBSET Operation, by: Task])
  BY DEF IInv, TypeOK
<1>2. DOMAIN pending = 1..Len(pending) /\ Len(pending) \in Nat
  BY <1>1, LenProperties
<1>3. \A i \in DOMAIN pending : pending[i] \in [ops: SUBSET Operation, by: Task]
  BY <1>1, <1>2, ElementOfSeq
<1> QED BY <1>2, <1>3 DEF Pend

(* The first transaction is gone. *)
LEMMA PendingShorter ==
    ASSUME IInv, pending # <<>>, pending' = Tail(pending)
    PROVE  /\ DOMAIN pending' = 1..(Len(pending) - 1)
           /\ 1 \in DOMAIN pending /\ Head(pending) = pending[1]
           /\ \A i \in DOMAIN pending' : /\ i + 1 \in DOMAIN pending /\ i + 1 # 1 /\ i \in Nat
                                         /\ pending'[i] = pending[i + 1]
<1>1. pending \in Seq([ops: SUBSET Operation, by: Task])
  BY DEF IInv, TypeOK
<1>2. /\ Tail(pending) \in Seq([ops: SUBSET Operation, by: Task])
      /\ Len(Tail(pending)) = Len(pending) - 1
      /\ \A i \in 1..Len(Tail(pending)) : Tail(pending)[i] = pending[i + 1]
  BY <1>1, HeadTailProperties
<1>3. DOMAIN Tail(pending) = 1..(Len(pending) - 1)
  BY <1>2, LenProperties
<1>4. 1 \in DOMAIN pending /\ Head(pending) = pending[1]
  BY <1>1, FirstOfSeq
<1>5. DOMAIN pending = 1..Len(pending) /\ Len(pending) \in Nat
  BY PendingType
<1> QED BY <1>2, <1>3, <1>4, <1>5

(* A transaction more, the last. *)
LEMMA PendingLonger ==
    ASSUME IInv, NEW tx \in Chunks, SendUnresolved(tx)
    PROVE  /\ tx \subseteq batch /\ batch' = batch \ tx /\ batch \subseteq Operation
           /\ \E k \in DOMAIN pending' :
                /\ k \notin DOMAIN pending /\ pending'[k].ops = tx /\ pending'[k].by = task
                /\ DOMAIN pending' = DOMAIN pending \cup {k} /\ 1..(k - 1) = DOMAIN pending
                /\ \A i \in DOMAIN pending : pending'[i] = pending[i] /\ k \notin 1..(i - 1)
<1> DEFINE new == [ops |-> tx, by |-> task]
           Tx == [ops: SUBSET Operation, by: Task]
           k == Len(pending) + 1
<1>1. tx \subseteq batch /\ batch \subseteq Operation /\ task \in Task
  BY DEF Chunks, IInv, TypeOK
<1>2. new \in Tx /\ new.ops = tx /\ new.by = task /\ pending \in Seq(Tx)
  BY <1>1 DEF IInv, TypeOK
<1>3. pending' = Append(pending, new) /\ batch' = batch \ tx
  BY DEF SendUnresolved
<1> HIDE DEF new, Tx
<1>4. /\ pending' \in Seq(Tx) /\ Len(pending') = Len(pending) + 1
      /\ \A i \in 1..Len(pending) : pending'[i] = pending[i]
      /\ pending'[Len(pending) + 1] = new
  BY <1>2, <1>3, AppendProperties
<1>5. DOMAIN pending' = 1..Len(pending')
  BY <1>4, LenProperties
<1>6. DOMAIN pending = 1..Len(pending) /\ Len(pending) \in Nat
  BY PendingType
<1>7. /\ k \in DOMAIN pending' /\ k \notin DOMAIN pending
      /\ DOMAIN pending' = DOMAIN pending \cup {k} /\ 1..(k - 1) = DOMAIN pending
      /\ \A i \in DOMAIN pending : k \notin 1..(i - 1)
  BY <1>4, <1>5, <1>6
<1>8. /\ pending'[k].ops = tx /\ pending'[k].by = task
      /\ \A i \in DOMAIN pending : pending'[i] = pending[i]
  BY <1>2, <1>4, <1>6
<1> HIDE DEF k
<1> QED BY <1>1, <1>3, <1>7, <1>8

(* How the transactions under way change. *)
LEMMA PendingMoves ==
    ASSUME [Next]_vars
    PROVE  \/ pending' = pending
           \/ (PendingLands \/ PendingDropped) /\ pending # <<>> /\ pending' = Tail(pending)
           \/ \E tx \in Chunks : SendUnresolved(tx)
BY DEF Next, vars, chainVars, RecordServed, PeriodEnds, AgreementExpires,
   PendingLands, PendingDropped, Start, Crash, Exit, ReconcileAgreements, SkipAgreements,
   Flush, ShutdownFlush, ReadFails, ReadOpenCounters, ReconcileCounters, SendAnswered,
   SendFailed, EndPeriods, EndFlush, Accept, AcceptUnresolved, Accepted, EndPoll

(* What is pending after a step was pending, or the step sent it. *)
LEMMA PendingFrom ==
    ASSUME IInv, [Next]_vars, NEW i \in DOMAIN pending'
    PROVE  \/ \E j \in DOMAIN pending : pending'[i] = pending[j]
           \/ \E tx \in Chunks : /\ SendUnresolved(tx) /\ tx \subseteq batch
                                 /\ pending'[i].ops = tx /\ pending'[i].by = task
<1>1. CASE pending' = pending
  BY <1>1
<1>2. CASE pending # <<>> /\ pending' = Tail(pending)
  BY <1>2, PendingShorter
<1>3. CASE \E tx \in Chunks : SendUnresolved(tx)
  <2>1. PICK tx \in Chunks : SendUnresolved(tx)
    BY <1>3
  <2>2. PICK k \in DOMAIN pending' :
          /\ pending'[k].ops = tx /\ pending'[k].by = task /\ tx \subseteq batch
          /\ DOMAIN pending' = DOMAIN pending \cup {k}
          /\ \A j \in DOMAIN pending : pending'[j] = pending[j]
    BY <2>1, PendingLonger
  <2>3. CASE i \in DOMAIN pending
    BY <2>2, <2>3
  <2>4. CASE i = k
    BY <2>1, <2>2, <2>4
  <2> QED BY <2>2, <2>3, <2>4
<1> QED BY <1>1, <1>2, <1>3, PendingMoves

(* Every action keeps the task and its place in step. *)
LEMMA PhasesStep ==
    ASSUME IInv, Phases, [Next]_vars
    PROVE  Phases'
<1>0. \A tx \in Chunks : batch \ tx \subseteq batch
  OBVIOUS
<1>1. (pc \in {"ended", "offers", "accept"} => task = "poll")'
  BY DEF Phases, Next, vars, AboutToRead, Sending, RecordServed, PeriodEnds,
     AgreementExpires,
     PendingLands, PendingDropped, Start, Crash, Exit, ReconcileAgreements, SkipAgreements,
     Flush, ShutdownFlush, ReadFails, ReadOpenCounters, ReconcileCounters, SendAnswered,
     SendFailed, SendUnresolved, EndPeriods, EndFlush, Accept, AcceptUnresolved, Accepted,
     EndPoll
<1>2. (pc \in {"counts", "successors"} => task \in {"flush", "stop"})'
  BY DEF Phases, Next, vars, AboutToRead, Sending, RecordServed, PeriodEnds,
     AgreementExpires,
     PendingLands, PendingDropped, Start, Crash, Exit, ReconcileAgreements, SkipAgreements,
     Flush, ShutdownFlush, ReadFails, ReadOpenCounters, ReconcileCounters, SendAnswered,
     SendFailed, SendUnresolved, EndPeriods, EndFlush, Accept, AcceptUnresolved, Accepted,
     EndPoll
<1>3. (pc \in {"rest", "counters", "match", "offers", "done"} => batch = {})'
  <2>1. CASE pc' = pc /\ batch' \subseteq batch
    BY <2>1 DEF Phases
  <2>2. ASSUME NEW tx \in Chunks, SendAnswered(tx) \/ SendFailed(tx) \/ SendUnresolved(tx)
        PROVE  pc' = pc /\ batch' \subseteq batch
    BY <2>2 DEF SendAnswered, SendFailed, SendUnresolved
  <2>3. CASE ReconcileCounters
    <3>1. batch = {} /\ (pc' = "counts" \/ batch' = batch)
      BY <2>3 DEF Phases, ReconcileCounters
    <3> QED BY <3>1
  <2>4. CASE EndPeriods \/ ReconcileAgreements \/ \E a \in Agreement : Accept(a)
    BY <2>4 DEF EndPeriods, ReconcileAgreements, Accept
  <2> QED BY <2>1, <2>2, <2>3, <2>4 DEF Phases, Next, vars, flushVars, NoFlush, AboutToRead,
     RecordServed, PeriodEnds, AgreementExpires, PendingLands, PendingDropped, Start, Crash,
     Exit, SkipAgreements, Flush, ShutdownFlush, ReadFails, ReadOpenCounters, EndFlush,
     AcceptUnresolved, Accepted, EndPoll
<1>4. (task \in {"down", "idle"} => pc = "rest")'
  BY DEF Phases, Next, vars, flushVars, NoFlush, AboutToRead, Sending, RecordServed,
     PeriodEnds, AgreementExpires,
     PendingLands, PendingDropped, Start, Crash, Exit, ReconcileAgreements, SkipAgreements,
     Flush, ShutdownFlush, ReadFails, ReadOpenCounters, ReconcileCounters, SendAnswered,
     SendFailed, SendUnresolved, EndPeriods, EndFlush, Accept, AcceptUnresolved, Accepted,
     EndPoll
<1>5. (task = "down" => \A a \in Agreement : counter[a] = 0)'
  BY <1>4 DEF Phases, Next, vars, memVars, Forget, AboutToRead, Sending, RecordServed,
     PeriodEnds, AgreementExpires,
     PendingLands, PendingDropped, Start, Crash, Exit, ReconcileAgreements, SkipAgreements,
     Flush, ShutdownFlush, ReadFails, ReadOpenCounters, ReconcileCounters, SendAnswered,
     SendFailed, SendUnresolved, EndPeriods, EndFlush, Accept, AcceptUnresolved, Accepted,
     EndPoll
<1> QED BY <1>1, <1>2, <1>3, <1>4, <1>5 DEF Phases

(* A flush waits until what an earlier one sent has landed or is gone; only
   a stalled transaction would be left. *)
LEMMA FlushAloneStep ==
    ASSUME IInv, Phases, FlushAlone, [Next]_vars, ~Stalls
    PROVE  FlushAlone'
<1> SUFFICES ASSUME task' = "flush", pc' \in {"counters", "match"}, NEW i \in DOMAIN pending'
             PROVE  pending'[i].by = "poll"
  BY DEF FlushAlone
<1>1. \A j \in DOMAIN pending : pending[j].by = "poll"
  BY DEF Phases, FlushAlone, Next, vars, AboutToRead, Sending, RecordServed, PeriodEnds,
     AgreementExpires,
     PendingLands, PendingDropped, Start, Crash, Exit, ReconcileAgreements, SkipAgreements,
     Flush, ShutdownFlush, ReadFails, ReadOpenCounters, ReconcileCounters, SendAnswered,
     SendFailed, SendUnresolved, EndPeriods, EndFlush, Accept, AcceptUnresolved, Accepted,
     EndPoll
<1>2. ASSUME NEW tx \in Chunks, SendUnresolved(tx) PROVE FALSE
  BY <1>2 DEF SendUnresolved, Sending
<1> QED BY <1>1, <1>2, PendingFrom

(* An agreement that ended does not come back. *)
LEMMA KnownSpent ==
    ASSUME IInv, [Next]_vars, NEW a \in spent
    PROVE  /\ a \in live' => a \in live
           /\ a \in known' => a \in live \cup known
BY DEF IInv, TypeOK, Next, vars, chainVars, memVars, Forget, RecordServed, PeriodEnds,
   AgreementExpires,
     PendingLands, PendingDropped, Start, Crash, Exit, ReconcileAgreements, SkipAgreements,
     Flush, ShutdownFlush, ReadFails, ReadOpenCounters, ReconcileCounters, SendAnswered,
     SendFailed, SendUnresolved, EndPeriods, EndFlush, Accept, AcceptUnresolved, Accepted,
     EndPoll

(* Polls keep to agreements that ended and to creates. *)
LEMMA PollWritesStep ==
    ASSUME IInv, Phases, PollWrites, [Next]_vars
    PROVE  PollWrites'
<1>0. \A op \in batch : op \in Operation /\ op.agr \in spent
  BY DEF IInv, TypeOK, RefsExist, Queued
<1>1. ASSUME NEW op \in batch', pc' = "accept" PROVE op.agr \in known'
  <2>1. CASE pc = "accept" /\ batch' \subseteq batch /\ known \subseteq known'
    BY <1>1, <2>1 DEF PollWrites
  <2>2. ASSUME NEW a \in Agreement, Accept(a) PROVE op.agr \in known'
    BY <1>1, <2>2 DEF Accept, Create
  <2> QED BY <1>1, <2>1, <2>2 DEF Next, vars, memVars, flushVars, RecordServed, PeriodEnds,
             AgreementExpires,
     PendingLands, PendingDropped, Start, Crash, Exit, ReconcileAgreements, SkipAgreements,
     Flush, ShutdownFlush, ReadFails, ReadOpenCounters, ReconcileCounters, SendAnswered,
     SendFailed, SendUnresolved, EndPeriods, EndFlush, Accept, AcceptUnresolved, Accepted,
     EndPoll
<1>2. ASSUME NEW op \in batch', pc' = "ended" PROVE op.agr \notin live' \cup known'
  <2>1. CASE pc = "ended" /\ batch' \subseteq batch
    <3>1. op.agr \in spent /\ op.agr \notin live \cup known
      BY <1>0, <1>2, <2>1 DEF PollWrites
    <3> QED BY <3>1, KnownSpent
  <2>2. CASE ReconcileAgreements
    <3>1. PICK a \in known \ live : op \in {Delete(a, counter[a]), Close(a, counter[a], served[a])}
      BY <1>2, <2>2 DEF ReconcileAgreements
    <3>2. op.agr = a
      BY <3>1 DEF Delete, Close
    <3> QED BY <2>2, <3>1, <3>2 DEF ReconcileAgreements, chainVars
  <2> QED BY <1>2, <2>1, <2>2 DEF Next, vars, flushVars, RecordServed, PeriodEnds,
             AgreementExpires,
     PendingLands, PendingDropped, Start, Crash, Exit, ReconcileAgreements, SkipAgreements,
     Flush, ShutdownFlush, ReadFails, ReadOpenCounters, ReconcileCounters, SendAnswered,
     SendFailed, SendUnresolved, EndPeriods, EndFlush, Accept, AcceptUnresolved, Accepted,
     EndPoll
<1>3. ASSUME NEW i \in DOMAIN pending', pending'[i].by = "poll",
             NEW op \in pending'[i].ops, op.kind # "create"
      PROVE  op.agr \notin live' \cup known'
  <2>1. CASE \E j \in DOMAIN pending : pending'[i] = pending[j]
    <3>1. PICK j \in DOMAIN pending : pending'[i] = pending[j]
      BY <2>1
    <3>2. op \in Pend(j) /\ op \in Operation
      BY <1>3, <3>1, PendingType DEF Pend
    <3>3. op.agr \in spent /\ op.agr \notin live \cup known
      BY <1>3, <3>1, <3>2 DEF IInv, RefsExist, Queued, PollWrites
    <3> QED BY <3>3, KnownSpent
  <2>2. ASSUME NEW tx \in Chunks, SendUnresolved(tx), tx \subseteq batch, pending'[i].ops = tx,
               pending'[i].by = task
        PROVE  op.agr \notin live' \cup known'
    <3>1. op \in batch /\ task = "poll" /\ op.agr \in spent
      BY <1>0, <1>3, <2>2
    <3>2. pc # "accept"
      BY <1>3, <3>1 DEF IInv, FirstRecord, Create
    <3>3. pc = "ended"
      BY <2>2, <3>1, <3>2 DEF SendUnresolved, Sending, Phases
    <3> QED BY <3>1, <3>3, KnownSpent DEF PollWrites
  <2> QED BY <2>1, <2>2, PendingFrom
<1> QED BY <1>1, <1>2, <1>3 DEF PollWrites, Pend

(* Memory forgets the counts of the agreements it forgets. *)
LEMMA CountsKnownStep ==
    ASSUME IInv, Phases, PollWrites, CountsKnown, [Next]_vars
    PROVE  CountsKnown'
<1> SUFFICES ASSUME NEW a \in Agreement, counter'[a] # 0 PROVE a \in known'
  BY DEF CountsKnown
<1>0. counter \in [Agreement -> Nat]
  BY DEF IInv, TypeOK
<1>1. CASE counter'[a] = counter[a] /\ known \subseteq known'
  BY <1>1 DEF CountsKnown
<1>2. CASE Start
  BY <1>2 DEF Start, Phases
<1>3. CASE Crash \/ Exit \/ ReadFails
  BY <1>1, <1>3 DEF Crash, Exit, ReadFails, Forget, memVars
<1>4. CASE ReconcileAgreements
  BY <1>4 DEF ReconcileAgreements
<1>5. CASE ReconcileCounters
  BY <1>1, <1>5 DEF ReconcileCounters, MatchedCounter
<1>6. ASSUME NEW tx \in Chunks, SendAnswered(tx) PROVE a \in known'
  <2>1. tx \subseteq batch
    BY DEF Chunks
  <2>2. Create(a).agr = a
    BY DEF Create
  <2> QED BY <1>1, <1>6, <2>1, <2>2 DEF SendAnswered, PollWrites
<1>7. CASE EndPeriods
  <2> DEFINE agrs == {c.agr : c \in {d \in closing : <<d.agr, d.rec>> \in landed}}
  <2>1. counter' = [b \in Agreement |-> IF b \in agrs THEN 0 ELSE counter[b]] /\ known' = known
    BY <1>7 DEF EndPeriods
  <2> HIDE DEF agrs
  <2> QED BY <1>1, <2>1
<1> QED BY <1>1, <1>2, <1>3, <1>4, <1>5, <1>6, <1>7
  DEF Next, vars, memVars, RecordServed, PeriodEnds, AgreementExpires, PendingLands, PendingDropped,
     SkipAgreements, Flush, ShutdownFlush, ReadOpenCounters, SendFailed, SendUnresolved, EndFlush,
     Accept, AcceptUnresolved, Accepted, EndPoll

(* Nothing is written of an agreement before the agent knows it. *)
LEMMA NewUntouchedStep ==
    ASSUME IInv, Phases, NewUntouched, [Next]_vars
    PROVE  NewUntouched'
<1> SUFFICES ASSUME task' # "down", NEW a \in live' \ known'
             PROVE  Unborn(a)' /\ \A op \in batch' \cup closing' : op.agr # a
  BY DEF NewUntouched
<1>0. a \in Agreement
  BY AgreementsStep
<1>1. Unborn(a) /\ \A op \in batch \cup closing : op.agr # a
  <2>1. CASE a \in spent
    <3>0. a \in live /\ task # "down" /\ ~ReconcileAgreements
      <4>1. a \in live
        BY <2>1, KnownSpent
      <4>2. ~Start /\ ~ReconcileAgreements
        BY DEF Start, ReconcileAgreements, chainVars
      <4>3. task # "down"
        BY <4>2 DEF Phases, Next, vars, AboutToRead, Sending, RecordServed, PeriodEnds,
           AgreementExpires,
     PendingLands, PendingDropped, Start, Crash, Exit, ReconcileAgreements, SkipAgreements,
     Flush, ShutdownFlush, ReadFails, ReadOpenCounters, ReconcileCounters, SendAnswered,
     SendFailed, SendUnresolved, EndPeriods, EndFlush, Accept, AcceptUnresolved, Accepted,
     EndPoll
      <4> QED BY <4>1, <4>2, <4>3
    <3>1. a \in live /\ a \notin known /\ task # "down"
      BY <2>1, <3>0 DEF Phases, Next, vars, chainVars, memVars, Forget, RecordServed,
         PeriodEnds, AgreementExpires,
     PendingLands, PendingDropped, Start, Crash, Exit, ReconcileAgreements, SkipAgreements,
     Flush, ShutdownFlush, ReadFails, ReadOpenCounters, ReconcileCounters, SendAnswered,
     SendFailed, SendUnresolved, EndPeriods, EndFlush, Accept, AcceptUnresolved, Accepted,
     EndPoll
    <3> QED BY <3>1 DEF NewUntouched
  <2>2. CASE a \notin spent
    BY <1>0, <2>2 DEF IInv, TypeOK, FirstRecord, RefsExist, Queued
  <2> QED BY <2>1, <2>2
<1>2. ASSUME NEW op \in Operation, Sent(op) PROVE op.agr # a
  BY <1>1, <1>2 DEF Sent, Unborn
<1>3. Unborn(a)'
  BY <1>0, <1>1, <1>2, UnbornKept
<1>4. ASSUME NEW op \in batch', op.agr = a PROVE FALSE
  <2>1. CASE op \in batch
    BY <1>1, <1>4, <2>1
  <2>2. CASE ReconcileAgreements
    BY <2>2 DEF ReconcileAgreements, chainVars
  <2>3. CASE ReconcileCounters
    <3>1. batch' = CountsBatch(MatchedServed) /\ known' = known
      BY <1>4, <2>1, <2>3 DEF ReconcileCounters
    <3>2. Len(read[a]) = 0
      <4>1. records[a] = <<>> /\ Len(read[a]) <= Len(records[a]) /\ Len(read[a]) \in Nat
        BY <1>0, <1>1 DEF Unborn, IInv, ReadIsPast, TypeOK
      <4> QED BY <4>1
    <3>3. Open(read, a) = {} /\ Oldest(read, a) = 0
      <4>1. DOMAIN read[a] = {}
        BY <1>0, <3>2, LenProperties DEF IInv, TypeOK
      <4> QED BY <4>1 DEF Open, Oldest
    <3>4. CASE op \in Housekeeping
      <4>0. op \in DuplicateDeletes \/ op \in StrayOperations
        BY <3>4 DEF Housekeeping
      <4>1. \/ \E b \in Agreement : op \in DuplicateOperations(b)
            \/ \E b \in Strays(read) : op = StrayOperation(b)
        BY <4>0, Zenon DEF DuplicateDeletes, StrayOperations
      <4>2. \/ \E b \in Agreement : \E n \in Duplicates(read, b) : op = Delete(b, n)
            \/ \E b \in Strays(read) : op = StrayOperation(b)
        BY <4>1 DEF DuplicateOperations
      <4> QED BY <1>4, <3>3, <4>2 DEF Strays, StrayOperation, Delete, Close, Duplicates
    <3>5. CASE \E b \in known : op \in CountOperations(b, MatchedServed[b])
      <4>1. PICK b \in known : op \in CountOperations(b, MatchedServed[b])
        BY <3>5
      <4>2. op.agr = b
        BY <4>1 DEF CountOperations, Create, Close, Count
      <4> QED BY <1>4, <3>1, <4>2
    <3> QED BY <1>4, <3>1, <3>4, <3>5 DEF CountsBatch
  <2>4. CASE EndPeriods
    <3>1. PICK c \in closing : op = Create(c.agr)
      BY <1>4, <2>4 DEF EndPeriods
    <3> QED BY <1>1, <1>4, <3>1 DEF Create
  <2>5. ASSUME NEW b \in Agreement, Accept(b) PROVE FALSE
    BY <1>4, <2>5 DEF Accept, Create
  <2> QED BY <2>1, <2>2, <2>3, <2>4, <2>5, <1>4
    DEF Next, vars, flushVars, NoFlush, RecordServed, PeriodEnds, AgreementExpires,
     PendingLands, PendingDropped,
     Start, Crash, Exit, ReadFails, SendAnswered,
     SkipAgreements, Flush, ShutdownFlush, ReadOpenCounters, SendFailed, SendUnresolved, EndFlush,
     AcceptUnresolved, Accepted, EndPoll
<1>5. ASSUME NEW op \in closing', op.agr = a PROVE FALSE
  <2>1. CASE op \in closing
    BY <1>1, <1>5, <2>1
  <2>2. CASE ReconcileCounters
    <3>1. PICK b \in known : op = Close(b, Oldest(read, b), MatchedServed[b])
      BY <1>5, <2>1, <2>2 DEF ReconcileCounters, Closings
    <3>2. op.agr = b /\ known' = known
      BY <2>2, <3>1 DEF Close, ReconcileCounters
    <3> QED BY <1>5, <3>1, <3>2
  <2> QED BY <1>5, <2>1, <2>2
    DEF Next, vars, flushVars, NoFlush, RecordServed, PeriodEnds, AgreementExpires,
     PendingLands, PendingDropped, Start, Crash, Exit, ReconcileAgreements, SkipAgreements,
     Flush, ShutdownFlush, ReadFails, ReadOpenCounters, ReconcileCounters, SendAnswered,
     SendFailed, SendUnresolved, EndPeriods, EndFlush, Accept, AcceptUnresolved, Accepted,
     EndPoll
<1> QED BY <1>3, <1>4, <1>5


-----------------------------------------------------------------------------
(* What counts_batch puts into a batch: one operation for an agreement the
   agent knows, a close only of a count. *)
LEMMA CountsShape ==
    ASSUME IInv, NEW s \in [Agreement -> Nat], NEW op \in CountsBatch(s)
    PROVE  /\ op.kind = "close" => op.count > 0
           /\ Writes(op) /\ op.agr \in known => op \in CountOperations(op.agr, s[op.agr])
           /\ Zero(op) => op.agr \in known
<1>0. known \subseteq Agreement
  BY DEF IInv, TypeOK
<1>1. CASE op \in Housekeeping
  <2>0. op \in DuplicateDeletes \/ op \in StrayOperations
    BY <1>1 DEF Housekeeping
  <2>1. \/ \E b \in Agreement : op \in DuplicateOperations(b)
        \/ \E b \in Strays(read) : op = StrayOperation(b)
    BY <2>0, Zenon DEF DuplicateDeletes, StrayOperations
  <2>2. CASE \E b \in Agreement : op \in DuplicateOperations(b)
    BY <2>2 DEF DuplicateOperations, Delete, Writes, Zero
  <2>3. ASSUME NEW b \in Strays(read), op = StrayOperation(b)
        PROVE  b \notin known /\ op.agr = b /\ ~Zero(op) /\ (op.kind = "close" => op.count > 0)
    <3>1. b \in Agreement /\ Oldest(read, b) # 0 /\ b \notin known
      BY DEF Strays
    <3>2. read[b][Oldest(read, b)].count \in Nat
      BY <3>1, ReadOldest
    <3> DEFINE r == read[b][Oldest(read, b)].count
    <3>3. op = IF r = 0 THEN Delete(b, Oldest(read, b)) ELSE Close(b, Oldest(read, b), r)
      BY <2>3 DEF StrayOperation
    <3> HIDE DEF r
    <3> QED BY <3>1, <3>2, <3>3 DEF Delete, Close, Zero, r
  <2> QED BY <2>1, <2>2, <2>3
<1>2. ASSUME NEW b \in known, op \in CountOperations(b, s[b])
      PROVE  op.agr = b /\ (op.kind = "close" => op.count > 0)
  <2>1. s[b] \in Nat
    BY <1>0
  <2> QED BY <1>2, <2>1 DEF CountOperations, PeriodIsOver, Create, Close, Count
<1> QED BY <1>1, <1>2 DEF CountsBatch

(* The one operation of an agreement that counts_batch counts. *)
LEMMA CountOperationsShape ==
    ASSUME NEW a, NEW s, NEW op \in CountOperations(a, s)
    PROVE  /\ \A o \in CountOperations(a, s) : o = op
           /\ Writes(op) => op.agr = a /\ op.rec = Oldest(read, a) /\ op.rec # 0 /\ op.count = s
           /\ op.kind = "close" => task = "flush" /\ s > 0
           /\ op.kind = "count" => read[a][Oldest(read, a)].count # s
BY DEF CountOperations, PeriodIsOver, Create, Close, Count, Writes

(* What reconcile_agreements puts into one. *)
LEMMA EndedShape ==
    ASSUME IInv, ReconcileAgreements, NEW op \in batch'
    PROVE  /\ op.kind = "close" => op.count > 0
           /\ op.agr \notin known' /\ ~Zero(op)
<1>1. PICK a \in known \ live : op = IF served[a] = 0 THEN Delete(a, counter[a])
                                     ELSE Close(a, counter[a], served[a])
  BY DEF ReconcileAgreements
<1>2. served[a] \in Nat /\ known' = live
  BY DEF IInv, TypeOK, ReconcileAgreements
<1> QED BY <1>1, <1>2 DEF Delete, Close, Zero

(* A batch is new, or what is left of the one before. *)
LEMMA BatchFrom ==
    ASSUME IInv, Phases, [Next]_vars
    PROVE  \/ ReconcileAgreements
           \/ ReconcileCounters /\ pc' = "counts" /\ batch' = CountsBatch(MatchedServed)
           \/ \A op \in batch' : \E a : op = Create(a)
           \/ /\ batch' \subseteq batch /\ known' \subseteq known
              /\ \A a \in Agreement : served'[a] >= served[a] /\ served'[a] \in Nat
<1>0. served \in [Agreement -> Nat]
  BY DEF IInv, TypeOK
<1>1. CASE ReconcileCounters
  <2>1. batch = {}
    BY <1>1 DEF Phases, ReconcileCounters
  <2> QED BY <1>1, <2>1 DEF ReconcileCounters
<1>2. CASE EndPeriods \/ \E a \in Agreement : Accept(a)
  BY <1>2 DEF EndPeriods, Accept
<1>3. CASE Start
  BY <1>3 DEF Phases, Start, flushVars
<1>4. CASE batch' = {}
  BY <1>4
<1>5. CASE batch' \subseteq batch /\ known' = known /\ served' = served
  BY <1>0, <1>5
<1>6. ASSUME NEW a \in Agreement, RecordServed(a)
      PROVE  /\ batch' \subseteq batch /\ known' \subseteq known
             /\ \A b \in Agreement : served'[b] >= served[b] /\ served'[b] \in Nat
  BY <1>0, <1>6 DEF RecordServed, flushVars
<1>7. ASSUME NEW tx \in Chunks, SendAnswered(tx) \/ SendFailed(tx) \/ SendUnresolved(tx)
      PROVE  batch' \subseteq batch /\ known' = known /\ served' = served
  BY <1>7 DEF SendAnswered, SendFailed, SendUnresolved, memVars
<1> QED BY <1>1, <1>2, <1>3, <1>4, <1>5, <1>6, <1>7 DEF Next, vars, memVars, flushVars,
           NoFlush,
     PeriodEnds, AgreementExpires, PendingLands, PendingDropped, Crash,
     Exit, SkipAgreements, Flush, ShutdownFlush, ReadFails, ReadOpenCounters, EndFlush,
     AcceptUnresolved, Accepted, EndPoll

(* Closes of the flush and of the poll are of counts above zero. *)
LEMMA ClosesCountStep ==
    ASSUME IInv, Phases, ClosesCount, [Next]_vars
    PROVE  ClosesCount'
<1>1. ASSUME NEW c \in batch', c.kind = "close" PROVE c.count > 0
  <2>1. CASE ReconcileAgreements
    BY <1>1, <2>1, EndedShape
  <2>2. CASE batch' = CountsBatch(MatchedServed)
    BY <1>1, <2>2, CountsShape, MatchedTypes
  <2>3. CASE \E a : c = Create(a)
    BY <1>1, <2>3 DEF Create
  <2>4. CASE batch' \subseteq batch
    BY <1>1, <2>4 DEF ClosesCount
  <2> QED BY <2>1, <2>2, <2>3, <2>4, BatchFrom
<1>2. ASSUME NEW i \in DOMAIN pending', NEW c \in pending'[i].ops, c.kind = "close"
      PROVE  c.count > 0
  BY <1>2, PendingFrom DEF ClosesCount, Pend
<1> QED BY <1>1, <1>2 DEF ClosesCount, Pend

(* counts_batch has one operation for an agreement, and a flush that closes
   found nothing of an earlier flush under way. *)
LEMMA CloseAloneStep ==
    ASSUME IInv, Phases, FlushAlone, PollWrites, CloseAlone, [Next]_vars
    PROVE  CloseAlone'
<1> SUFFICES ASSUME NEW c \in batch', c.kind = "close", c.agr \in known'
             PROVE  /\ served'[c.agr] > 0
                    /\ \A o \in batch' : Writes(o) /\ o.agr = c.agr => o = c
                    /\ \A i \in DOMAIN pending' : \A o \in pending'[i].ops :
                          Writes(o) => o.agr # c.agr
  BY DEF CloseAlone, Pend
<1>1. CASE ReconcileAgreements
  BY <1>1, EndedShape
<1>2. CASE ReconcileCounters /\ pc' = "counts" /\ batch' = CountsBatch(MatchedServed)
  <2> DEFINE s == MatchedServed
  <2>0. /\ s \in [Agreement -> Nat] /\ served' = s
        /\ known' = known /\ pending' = pending /\ pc = "match"
    BY <1>2, MatchedTypes DEF ReconcileCounters, chainVars
  <2> HIDE DEF s
  <2>1. ASSUME NEW o \in batch', Writes(o), o.agr = c.agr
        PROVE  o \in CountOperations(c.agr, s[c.agr])
    <3>1. o \in CountsBatch(s) /\ o.agr \in known
      BY <1>2, <2>0, <2>1 DEF s
    <3> QED BY <2>0, <2>1, <3>1, CountsShape
  <2>2. c \in CountOperations(c.agr, s[c.agr])
    BY <2>1 DEF Writes
  <2>3. task = "flush" /\ s[c.agr] > 0 /\ \A o \in CountOperations(c.agr, s[c.agr]) : o = c
    BY <2>2, CountOperationsShape
  <2>4. ASSUME NEW i \in DOMAIN pending, NEW o \in pending[i].ops, Writes(o)
        PROVE  o.agr \notin known
    <3>1. pending[i].by = "poll" /\ o.kind # "create"
      BY <2>0, <2>3, <2>4 DEF FlushAlone, Writes
    <3> QED BY <3>1 DEF PollWrites, Pend
  <2> QED BY <2>0, <2>1, <2>3, <2>4
<1>3. CASE \E a : c = Create(a)
  BY <1>3 DEF Create
<1>4. CASE /\ batch' \subseteq batch /\ known' \subseteq known
           /\ \A a \in Agreement : served'[a] >= served[a] /\ served'[a] \in Nat
  <2>1. /\ served[c.agr] > 0
        /\ \A o \in batch : Writes(o) /\ o.agr = c.agr => o = c
        /\ \A i \in DOMAIN pending : \A o \in Pend(i) : Writes(o) => o.agr # c.agr
    BY <1>4 DEF CloseAlone
  <2>2. c.agr \in Agreement /\ served[c.agr] \in Nat
    BY <1>4 DEF IInv, TypeOK, Operation
  <2>3. served'[c.agr] > 0
    <3>1. PICK x \in Nat : x = served'[c.agr]
      BY <1>4, <2>2
    <3> QED BY <1>4, <2>1, <2>2, <3>1
  <2>4. ASSUME NEW i \in DOMAIN pending', NEW o \in pending'[i].ops, Writes(o), o.agr = c.agr
        PROVE  FALSE
    <3>1. PICK tx \in Chunks : SendUnresolved(tx) /\ tx \subseteq batch /\ pending'[i].ops = tx
      BY <2>1, <2>4, PendingFrom DEF Pend
    <3>2. o \in tx /\ o = c /\ batch' = batch \ tx
      BY <2>1, <2>4, <3>1 DEF SendUnresolved
    <3> QED BY <3>2
  <2> QED BY <1>4, <2>1, <2>3, <2>4
<1> QED BY <1>1, <1>2, <1>3, <1>4, BatchFrom

(* So no other write of the agreement lands before the close does. *)
LEMMA CloseFirstStep ==
    ASSUME IInv, Phases, NewUntouched, CloseAlone, CloseFirst, [Next]_vars
    PROVE  CloseFirst'
<1> SUFFICES ASSUME NEW j \in DOMAIN pending', NEW c \in pending'[j].ops,
                    c.kind = "close", c.agr \in live' \cup known',
                    NEW i \in 1..(j - 1), NEW o \in pending'[i].ops, Writes(o), o.agr = c.agr
             PROVE  FALSE
  BY DEF CloseFirst, Pend
<1>0. DOMAIN pending = 1..Len(pending) /\ Len(pending) \in Nat
  BY PendingType
<1>1. c.agr \in live \cup known
  <2>1. c \in Operation
    <3>1. \A k \in DOMAIN pending : pending[k].ops \subseteq Operation
      BY PendingType DEF Pend
    <3>2. batch \subseteq Operation
      BY DEF IInv, TypeOK
    <3> QED BY <3>1, <3>2, PendingFrom
  <2>2. c.agr \in spent
    BY <2>1, PendingFrom DEF IInv, RefsExist, Queued, Pend
  <2> QED BY <2>2, KnownSpent
<1>2. CASE pending' = pending
  BY <1>1, <1>2 DEF CloseFirst, Pend
<1>3. CASE pending # <<>> /\ pending' = Tail(pending)
  <2>1. /\ j + 1 \in DOMAIN pending /\ pending'[j] = pending[j + 1] /\ j \in Nat
        /\ i \in DOMAIN pending' /\ pending'[i] = pending[i + 1]
    BY <1>0, <1>3, PendingShorter
  <2>2. i + 1 \in 1..((j + 1) - 1)
    BY <2>1
  <2> QED BY <1>1, <2>1, <2>2 DEF CloseFirst, Pend
<1>4. ASSUME NEW tx \in Chunks, SendUnresolved(tx) PROVE FALSE
  <2>1. PICK k \in DOMAIN pending' :
          /\ tx \subseteq batch
          /\ k \notin DOMAIN pending /\ pending'[k].ops = tx
          /\ DOMAIN pending' = DOMAIN pending \cup {k} /\ 1..(k - 1) = DOMAIN pending
          /\ \A l \in DOMAIN pending : pending'[l] = pending[l] /\ k \notin 1..(l - 1)
    BY <1>4, PendingLonger
  <2>2. CASE j \in DOMAIN pending
    <3>1. i \in DOMAIN pending
      BY <1>0, <2>2
    <3> QED BY <1>1, <2>1, <2>2, <3>1 DEF CloseFirst, Pend
  <2>3. CASE j = k
    <3>1. i \in DOMAIN pending /\ c \in batch /\ o \in Pend(i)
      BY <2>1, <2>3 DEF Pend
    <3>2. task # "down"
      BY <1>4 DEF SendUnresolved, Sending, Phases
    <3>3. c.agr \in known
      BY <1>1, <3>1, <3>2 DEF NewUntouched
    <3> QED BY <3>1, <3>3 DEF CloseAlone
  <2> QED BY <2>1, <2>2, <2>3
<1> QED BY <1>2, <1>3, <1>4, PendingMoves


-----------------------------------------------------------------------------
(* What a transaction writes: a record stays, is deleted, or takes the count
   of an operation, and is closed by a close alone. *)
Lands(recs, new, tx) ==
    \A a \in Agreement :
        /\ \A n \in 1..Len(recs[a]) :
              \/ new[a][n].state = recs[a][n].state /\ new[a][n].count = recs[a][n].count
              \/ new[a][n].state = "deleted"
              \/ \E op \in tx : /\ Writes(op) /\ op.agr = a /\ op.rec = n
                                /\ new[a][n].count = op.count
                                /\ op.kind = "count" => new[a][n].state = recs[a][n].state
        /\ \A n \in 1..Len(new[a]) : n \notin 1..Len(recs[a]) => new[a][n].state = "open"

(* A patch writes its count, or deletes. *)
LEMMA PatchedLands ==
    ASSUME NEW r \in CounterRecord, NEW op \in Operation, op.kind # "create"
    PROVE  \/ op.kind = "delete" /\ Patched(r, op).state = "deleted"
           \/ /\ Writes(op) /\ Patched(r, op).count = op.count
              /\ op.kind = "count" => Patched(r, op).state = r.state
BY DEF Patched, CounterRecord, Operation, Writes

(* A transaction changes a record only as one of its operations says. *)
LEMMA ApplyLands ==
    ASSUME NEW recs \in Records, NEW tx, tx \subseteq Operation
    PROVE  Lands(recs, Apply(tx, recs), tx)
<1>0. \A a \in Agreement : /\ recs[a] \in Seq(CounterRecord) /\ Len(recs[a]) \in Nat
                           /\ DOMAIN recs[a] = 1..Len(recs[a])
                           /\ \A n \in 1..Len(recs[a]) : recs[a][n] \in CounterRecord
  BY DEF Records
<1>1. CASE ~Applies(tx, recs)
  <2>1. Apply(tx, recs) = recs
    BY <1>1 DEF Apply
  <2> QED BY <2>1 DEF Lands
<1>2. CASE Applies(tx, recs)
  <2> DEFINE onto(a, n) == {op \in tx : op.agr = a /\ op.kind # "create" /\ op.rec = n}
             old(a) == [n \in DOMAIN recs[a] |->
                          IF onto(a, n) = {} THEN recs[a][n]
                          ELSE Patched(recs[a][n], CHOOSE op \in onto(a, n) : TRUE)]
             new == Apply(tx, recs)
  <2>1. ASSUME NEW a \in Agreement, NEW n \in 1..Len(recs[a])
        PROVE  /\ old(a)[n] \in CounterRecord
               /\ \/ old(a)[n] = recs[a][n]
                  \/ old(a)[n].state = "deleted"
                  \/ \E op \in tx : /\ Writes(op) /\ op.agr = a /\ op.rec = n
                                    /\ old(a)[n].count = op.count
                                    /\ op.kind = "count" => old(a)[n].state = recs[a][n].state
    <3>1. CASE onto(a, n) = {}
      BY <1>0, <3>1
    <3>2. CASE onto(a, n) # {}
      <4> DEFINE op == CHOOSE o \in onto(a, n) : TRUE
      <4>1. op \in onto(a, n)
        BY <3>2
      <4>2. op \in Operation /\ op \in tx /\ op.kind # "create" /\ op.agr = a /\ op.rec = n
        BY <4>1
      <4>3. old(a)[n] = Patched(recs[a][n], op)
        BY <1>0, <3>2
      <4>4. Patched(recs[a][n], op) \in CounterRecord
        BY <1>0, <4>2, PatchedRecord
      <4>5. \/ op.kind = "delete" /\ Patched(recs[a][n], op).state = "deleted"
            \/ /\ Writes(op) /\ Patched(recs[a][n], op).count = op.count
               /\ op.kind = "count" => Patched(recs[a][n], op).state = recs[a][n].state
        BY <1>0, <4>2, PatchedLands
      <4> HIDE DEF op, old
      <4> QED BY <4>2, <4>3, <4>4, <4>5
    <3> QED BY <3>1, <3>2
  <2>2. ASSUME NEW a \in Agreement
        PROVE  old(a) \in Seq(CounterRecord) /\ Len(old(a)) = Len(recs[a])
    <3>1. old(a) \in [1..Len(recs[a]) -> CounterRecord]
      BY <1>0, <2>1
    <3> HIDE DEF old
    <3> QED BY <1>0, <3>1, FunctionIsSeq
  <2>3. ASSUME NEW a \in Agreement
        PROVE  new[a] = IF Create(a) \in tx THEN Append(old(a), FreshRecord) ELSE old(a)
    BY <1>2, Zenon DEF Apply
  <2>4. FreshRecord \in CounterRecord /\ FreshRecord.state = "open"
    BY DEF FreshRecord, CounterRecord
  <2> HIDE DEF old
  <2>5. ASSUME NEW a \in Agreement
        PROVE  /\ \A n \in 1..Len(recs[a]) : new[a][n] = old(a)[n]
               /\ \A n \in 1..Len(new[a]) : n \notin 1..Len(recs[a]) => new[a][n] = FreshRecord
    <3> HIDE DEF new
    <3>1. CASE Create(a) \in tx
      <4>1. new[a] = Append(old(a), FreshRecord)
        BY <2>3, <3>1
      <4>2. /\ Len(new[a]) = Len(recs[a]) + 1 /\ new[a][Len(recs[a]) + 1] = FreshRecord
            /\ \A n \in 1..Len(recs[a]) : new[a][n] = old(a)[n]
        BY <2>2, <2>4, <4>1, AppendProperties
      <4>3. \A n \in 1..(Len(recs[a]) + 1) : n \notin 1..Len(recs[a]) => n = Len(recs[a]) + 1
        BY <1>0
      <4> QED BY <4>2, <4>3
    <3>2. CASE Create(a) \notin tx
      BY <2>2, <2>3, <3>2
    <3> QED BY <3>1, <3>2
  <2> HIDE DEF new, onto
  <2>6. Lands(recs, new, tx)
    BY <2>1, <2>4, <2>5 DEF Lands
  <2> QED BY <2>6 DEF new
<1> QED BY <1>1, <1>2

(* How a step changes the records: not at all but for a period that is over,
   as the first transaction under way does, or as the one it is answered for. *)
LEMMA RecordsLand ==
    ASSUME IInv, [Next]_vars
    PROVE  \E tx : /\ tx \subseteq Operation /\ Lands(records, records', tx)
                   /\ \/ tx = {}
                      \/ /\ PendingLands /\ pending # <<>> /\ pending' = Tail(pending)
                         /\ 1 \in DOMAIN pending /\ tx = Pend(1)
                      \/ tx \in Chunks /\ SendAnswered(tx) /\ tx \subseteq batch /\ pending = <<>>
<1>0. records \in Records
  BY DEF IInv, TypeOK, Records
<1>1. CASE UNCHANGED records
  <2>1. Lands(records, records', {})
    BY <1>1 DEF Lands
  <2> QED BY <2>1
<1>2. ASSUME NEW a \in Agreement, NEW n \in DOMAIN records[a], PeriodEnds(a, n)
      PROVE  Lands(records, records', {})
  <2>0. /\ records[a] \in Seq(CounterRecord) /\ DOMAIN records[a] = 1..Len(records[a])
        /\ records[a][n] \in CounterRecord
    BY <1>0 DEF Records
  <2> DEFINE r == [records[a][n] EXCEPT !.over = TRUE]
  <2>1. r \in CounterRecord /\ r.count = records[a][n].count /\ r.state = records[a][n].state
    BY <2>0 DEF CounterRecord
  <2>2. records' = [records EXCEPT ![a] = [records[a] EXCEPT ![n] = r]]
    BY <1>0, <1>2, <2>0 DEF PeriodEnds, Records
  <2> HIDE DEF r
  <2> DEFINE s == [records[a] EXCEPT ![n] = r]
  <2>3. s \in Seq(CounterRecord) /\ Len(s) = Len(records[a])
        /\ \A j \in 1..Len(records[a]) : s[j] = IF j = n THEN r ELSE records[a][j]
    BY <2>0, <2>1, ExceptSeq
  <2> HIDE DEF s
  <2>4. \A b \in Agreement : records'[b] = IF b = a THEN s ELSE records[b]
    BY <1>0, <2>2 DEF Records, s
  <2>5. \A b \in Agreement :
           /\ Len(records'[b]) = Len(records[b])
           /\ \A j \in 1..Len(records[b]) : /\ records'[b][j].count = records[b][j].count
                                            /\ records'[b][j].state = records[b][j].state
    BY <2>1, <2>3, <2>4
  <2> QED BY <2>5 DEF Lands
<1>3. ASSUME PendingLands
      PROVE  /\ pending # <<>> /\ pending' = Tail(pending) /\ 1 \in DOMAIN pending
             /\ Pend(1) \subseteq Operation /\ Lands(records, records', Pend(1))
  <2>1. pending # <<>> /\ pending' = Tail(pending) /\ records' = Apply(Head(pending).ops, records)
    BY <1>3 DEF PendingLands
  <2>2. 1 \in DOMAIN pending /\ Head(pending) = pending[1]
    BY <2>1, PendingShorter
  <2>3. Pend(1) \subseteq Operation /\ records' = Apply(Pend(1), records)
    BY <2>1, <2>2, PendingType DEF Pend
  <2> QED BY <1>0, <2>1, <2>2, <2>3, ApplyLands
<1>4. ASSUME NEW tx \in Chunks, SendAnswered(tx)
      PROVE  /\ tx \subseteq Operation /\ tx \subseteq batch /\ pending = <<>>
             /\ Lands(records, records', tx)
  <2>1. tx \subseteq batch /\ tx \subseteq Operation
    BY DEF Chunks, IInv, TypeOK
  <2>2. records' = Apply(tx, records) /\ pending = <<>>
    BY <1>4 DEF SendAnswered
  <2> QED BY <1>0, <2>1, <2>2, ApplyLands
<1>5. CASE \E a \in Agreement : \E n \in DOMAIN records[a] : PeriodEnds(a, n)
  <2>1. Lands(records, records', {})
    BY <1>2, <1>5
  <2> QED BY <2>1
<1>6. CASE PendingLands
  BY <1>3, <1>6
<1>7. CASE \E tx \in Chunks : SendAnswered(tx)
  BY <1>4, <1>7
<1> QED BY <1>1, <1>5, <1>6, <1>7 DEF Next, vars, chainVars, RecordServed, AgreementExpires,
     PendingDropped, Start, Crash, Exit, ReconcileAgreements, SkipAgreements,
     Flush, ShutdownFlush, ReadFails, ReadOpenCounters, ReconcileCounters,
     SendFailed, SendUnresolved, EndPeriods, EndFlush, Accept, AcceptUnresolved, Accepted,
     EndPoll

(* An operation sent names a record there is. *)
LEMMA SentRefs ==
    ASSUME IInv, NEW op, Queued(op), op.kind # "create"
    PROVE  op \in Operation /\ op.agr \in Agreement /\ op.rec \in 1..Len(records[op.agr])
<1>1. op \in Operation
  BY PendingType DEF IInv, TypeOK, Queued
<1> QED BY <1>1 DEF IInv, RefsExist, Operation

(* A closed record is never rewritten to zero, nor closed at zero. *)
LEMMA NoClosedAtZeroStep ==
    ASSUME IInv, ClosesCount, ZeroPending, ZeroBatch, NoClosedAtZero, [Next]_vars
    PROVE  NoClosedAtZero'
<1> SUFFICES ASSUME NEW a \in Agreement, NEW n \in DOMAIN records'[a],
                    records'[a][n].state = "closed"
             PROVE  records'[a][n].count > 0
  BY DEF NoClosedAtZero
<1>1. PICK tx : /\ tx \subseteq Operation /\ Lands(records, records', tx)
                /\ \/ tx = {}
                   \/ 1 \in DOMAIN pending /\ tx = Pend(1)
                   \/ tx \subseteq batch
  BY RecordsLand
<1>2. records' \in Records /\ records \in Records
  BY RecordsStep DEF IInv, TypeOK, Records
<1>3. DOMAIN records'[a] = 1..Len(records'[a]) /\ DOMAIN records[a] = 1..Len(records[a])
  BY <1>2, LenProperties DEF Records
<1>4. n \in 1..Len(records[a])
  BY <1>1, <1>3 DEF Lands
<1>5. CASE records'[a][n].state = records[a][n].state /\ records'[a][n].count = records[a][n].count
  BY <1>3, <1>4, <1>5 DEF NoClosedAtZero
<1>6. ASSUME NEW op \in tx, Writes(op), op.agr = a, op.rec = n, records'[a][n].count = op.count,
             op.kind = "count" => records'[a][n].state = records[a][n].state
      PROVE  op.count > 0
  <2>1. op.count \in Nat
    BY <1>1 DEF Operation
  <2>2. CASE op.kind = "close"
    BY <1>1, <2>2 DEF ClosesCount
  <2>3. CASE op.kind = "count"
    <3>1. ~Zero(op)
      BY <1>1, <1>6, <2>3 DEF ZeroPending, ZeroBatch
    <3> QED BY <2>1, <2>3, <3>1 DEF Zero
  <2> QED BY <1>6, <2>2, <2>3 DEF Writes
<1> QED BY <1>1, <1>4, <1>5, <1>6 DEF Lands

(* A close pending after a step was pending, or the step sent it. *)
LEMMA CloseFrom ==
    ASSUME IInv, [Next]_vars, NEW a, NEW n, ClosePending(a, n)'
    PROVE  \/ ClosePending(a, n)
           \/ \E tx \in Chunks : /\ SendUnresolved(tx) /\ tx \subseteq batch
                                 /\ \E c \in tx : c.kind = "close" /\ c.agr = a /\ c.rec = n
<1>1. PICK i \in DOMAIN pending' :
        \E c \in pending'[i].ops : c.kind = "close" /\ c.agr = a /\ c.rec = n
  BY DEF ClosePending, Pend
<1> QED BY <1>1, PendingFrom DEF ClosePending, Pend

(* A record that is closed by a step was to be closed. *)
LEMMA ClosedBy ==
    ASSUME IInv, [Next]_vars, NEW a \in Agreement, NEW n \in 1..Len(records[a]),
           records'[a][n].state = "closed", records[a][n].state # "closed"
    PROVE  \/ /\ PendingLands /\ pending # <<>> /\ pending' = Tail(pending) /\ 1 \in DOMAIN pending
              /\ \E c \in Pend(1) : c.kind = "close" /\ c.agr = a /\ c.rec = n
           \/ \E tx \in Chunks : /\ SendAnswered(tx) /\ tx \subseteq batch /\ pending = <<>>
                                 /\ \E c \in tx : c.kind = "close" /\ c.agr = a /\ c.rec = n
<1>1. PICK tx : /\ Lands(records, records', tx)
                /\ \/ tx = {}
                   \/ /\ PendingLands /\ pending # <<>> /\ pending' = Tail(pending)
                      /\ 1 \in DOMAIN pending /\ tx = Pend(1)
                   \/ tx \in Chunks /\ SendAnswered(tx) /\ tx \subseteq batch /\ pending = <<>>
  BY RecordsLand
<1>2. \E c \in tx : c.kind = "close" /\ c.agr = a /\ c.rec = n
  BY <1>1 DEF Lands, Writes
<1> QED BY <1>1, <1>2

(* A zero under way lands before any close that is sent after it. *)
LEMMA ZeroPendingStep ==
    ASSUME IInv, ZeroPending, ZeroBatch, [Next]_vars
    PROVE  ZeroPending'
<1> SUFFICES ASSUME NEW j \in DOMAIN pending', NEW o \in pending'[j].ops, Zero(o)
             PROVE  /\ records'[o.agr][o.rec].state # "closed"
                    /\ \A i \in 1..(j - 1) : \A c \in pending'[i].ops :
                          c.kind = "close" /\ c.agr = o.agr => c.rec # o.rec
  BY DEF ZeroPending, Pend
<1>0. DOMAIN pending = 1..Len(pending) /\ Len(pending) \in Nat
  BY PendingType
<1>1. o.agr \in Agreement /\ o.rec \in 1..Len(records[o.agr])
  <2>1. Queued(o) /\ o.kind # "create"
    BY PendingFrom DEF Queued, Pend, Zero
  <2> QED BY <2>1, SentRefs
<1>2. CASE pending' = pending
  <2>1. o \in Pend(j) /\ j \in DOMAIN pending
    BY <1>2 DEF Pend
  <2>2. records[o.agr][o.rec].state # "closed"
    BY <2>1 DEF ZeroPending
  <2>3. pending # <<>> /\ pending' # Tail(pending)
    <3>1. pending # <<>>
      BY <2>1
    <3>2. pending' = Tail(pending) => DOMAIN pending' = 1..(Len(pending) - 1)
      BY <3>1, PendingShorter
    <3>3. Len(pending) \in DOMAIN pending /\ Len(pending) \notin 1..(Len(pending) - 1)
      BY <1>0, <2>1
    <3> QED BY <1>2, <3>1, <3>2, <3>3
  <2>4. records'[o.agr][o.rec].state # "closed"
    BY <1>1, <2>2, <2>3, ClosedBy
  <2> QED BY <1>2, <2>1, <2>4 DEF ZeroPending, Pend
<1>3. CASE pending # <<>> /\ pending' = Tail(pending)
  <2>1. /\ j + 1 \in DOMAIN pending /\ pending'[j] = pending[j + 1] /\ j \in Nat /\ j # 0
        /\ \A i \in 1..(j - 1) : i \in DOMAIN pending' /\ pending'[i] = pending[i + 1]
    BY <1>0, <1>3, PendingShorter
  <2>2. o \in Pend(j + 1) /\ (j + 1) - 1 = j /\ 1 \in 1..j /\ \A i \in 1..(j - 1) : i + 1 \in 1..j
    BY <2>1 DEF Pend
  <2>3. /\ records[o.agr][o.rec].state # "closed"
        /\ \A i \in 1..j : \A c \in Pend(i) : c.kind = "close" /\ c.agr = o.agr => c.rec # o.rec
    BY <2>1, <2>2 DEF ZeroPending
  <2>4. records'[o.agr][o.rec].state # "closed"
    BY <1>1, <1>3, <2>2, <2>3, ClosedBy
  <2>5. \A i \in 1..(j - 1) : \A c \in pending'[i].ops :
           c.kind = "close" /\ c.agr = o.agr => c.rec # o.rec
    BY <2>1, <2>2, <2>3 DEF Pend
  <2> QED BY <2>4, <2>5
<1>4. ASSUME NEW tx \in Chunks, SendUnresolved(tx)
      PROVE  /\ records'[o.agr][o.rec].state # "closed"
             /\ \A i \in 1..(j - 1) : \A c \in pending'[i].ops :
                   c.kind = "close" /\ c.agr = o.agr => c.rec # o.rec
  <2>1. PICK k \in DOMAIN pending' :
          /\ tx \subseteq batch
          /\ k \notin DOMAIN pending /\ pending'[k].ops = tx
          /\ DOMAIN pending' = DOMAIN pending \cup {k} /\ 1..(k - 1) = DOMAIN pending
          /\ \A l \in DOMAIN pending : pending'[l] = pending[l] /\ k \notin 1..(l - 1)
    BY <1>4, PendingLonger
  <2>2. records' = records
    BY <1>4 DEF SendUnresolved
  <2>3. CASE j \in DOMAIN pending
    <3>1. \A i \in 1..(j - 1) : i \in DOMAIN pending
      BY <1>0, <2>3
    <3> QED BY <2>1, <2>2, <2>3, <3>1 DEF ZeroPending, Pend
  <2>4. CASE j = k
    BY <2>1, <2>2, <2>4 DEF ZeroBatch, ClosePending, Pend
  <2> QED BY <2>1, <2>3, <2>4
<1> QED BY <1>2, <1>3, <1>4, PendingMoves


(* What a flush writes as zero counted nothing, and so did the record when
   it was read. *)
LEMMA ZeroCounted ==
    ASSUME IInv, NEW a \in known, NEW op \in CountOperations(a, MatchedServed[a]), Zero(op)
    PROVE  /\ Oldest(read, a) # 0 /\ op.agr = a /\ op.rec = Oldest(read, a)
           /\ counter[a] # 0 /\ served[a] = 0 /\ read[a][Oldest(read, a)].count # 0
<1>0. a \in Agreement /\ served[a] \in Nat
  BY DEF IInv, TypeOK
<1>1. /\ op.agr = a /\ op.rec = Oldest(read, a) /\ op.rec # 0 /\ op.count = MatchedServed[a]
      /\ read[a][Oldest(read, a)].count # MatchedServed[a]
  BY CountOperationsShape DEF Zero, Writes
<1>2. MatchedServed[a] = 0
  BY <1>1 DEF Zero
<1>3. read[a][Oldest(read, a)].count \in Nat
  BY <1>0, <1>1, ReadOldest
<1>4. ForgottenCount(a) = 0
  BY <1>1 DEF ForgottenCount
<1>5. SaturatingSub(served[a], ForgottenCount(a)) = served[a]
  BY <1>0, <1>4 DEF SaturatingSub
<1>6. served[a] + SeededCount(a) = 0
  BY <1>0, <1>2, <1>5 DEF MatchedServed
<1>7. SeededCount(a) \in Nat
  BY <1>3 DEF SeededCount
<1>8. served[a] = 0 /\ SeededCount(a) = 0
  BY <1>0, <1>6, <1>7
<1> QED BY <1>1, <1>2, <1>8 DEF SeededCount

(* A flush writes zero only over a count it read, so not into a record that
   is closed or about to be. *)
LEMMA ZeroBatchStep ==
    ASSUME IInv, Phases, ZeroBatch, ReadZero, [Next]_vars
    PROVE  ZeroBatch'
<1> SUFFICES ASSUME NEW o \in batch', Zero(o)
             PROVE  /\ records'[o.agr][o.rec].state # "closed" /\ ~ClosePending(o.agr, o.rec)'
                    /\ \A c \in batch' : c.kind = "close" /\ c.agr = o.agr => c.rec # o.rec
  BY DEF ZeroBatch
<1>1. CASE ReconcileAgreements
  BY <1>1, EndedShape
<1>2. CASE \E a : o = Create(a)
  BY <1>2 DEF Create, Zero
<1>3. CASE ReconcileCounters /\ batch' = CountsBatch(MatchedServed)
  <2> DEFINE s == MatchedServed
             a == o.agr
  <2>0. s \in [Agreement -> Nat] /\ pc = "match" /\ records' = records /\ pending' = pending
    BY <1>3, MatchedTypes DEF ReconcileCounters, chainVars
  <2> HIDE DEF s
  <2>1. a \in known /\ o \in CountOperations(a, s[a])
    BY <1>3, <2>0, CountsShape DEF Zero, Writes, s
  <2>2. /\ Oldest(read, a) # 0 /\ o.rec = Oldest(read, a)
        /\ counter[a] # 0 /\ served[a] = 0 /\ read[a][Oldest(read, a)].count # 0
    BY <2>1, ZeroCounted DEF s
  <2>3. a \in Agreement /\ read \in Records
    BY <2>1 DEF IInv, TypeOK, Records
  <2>4. Oldest(read, a) \in 1..Len(read[a]) /\ read[a][Oldest(read, a)].state = "open"
    BY <2>2, <2>3, OldestIsOpen
  <2>5. records[a][o.rec].state # "closed" /\ ~ClosePending(a, o.rec)
    BY <2>0, <2>2, <2>3, <2>4 DEF ReadZero
  <2>6. ASSUME NEW c \in batch', c.kind = "close", c.agr = a PROVE FALSE
    <3>1. c \in CountsBatch(s) /\ c.agr \in known
      BY <1>3, <2>1, <2>6 DEF s
    <3>2. c \in CountOperations(a, s[a])
      BY <2>0, <2>6, <3>1, CountsShape DEF Writes
    <3>3. c = o
      BY <2>1, <3>2, CountOperationsShape
    <3> QED BY <2>6, <3>3 DEF Zero
  <2>7. ~ClosePending(a, o.rec)'
    BY <2>0, <2>5 DEF ClosePending, Pend
  <2> QED BY <2>0, <2>5, <2>6, <2>7
<1>4. CASE batch' \subseteq batch
  <2>1. /\ records[o.agr][o.rec].state # "closed" /\ ~ClosePending(o.agr, o.rec)
        /\ \A c \in batch : c.kind = "close" /\ c.agr = o.agr => c.rec # o.rec
    BY <1>4 DEF ZeroBatch
  <2>2. o.agr \in Agreement /\ o.rec \in 1..Len(records[o.agr])
    BY <1>4, SentRefs DEF Queued, Zero
  <2>3. records'[o.agr][o.rec].state # "closed"
    BY <2>1, <2>2, ClosedBy DEF ClosePending
  <2>4. ~ClosePending(o.agr, o.rec)'
    BY <2>1, CloseFrom
  <2> QED BY <1>4, <2>1, <2>3, <2>4
<1> QED BY <1>1, <1>2, <1>3, <1>4, BatchFrom

(* Memory that counts from zero did so before, but for a reconcile. *)
LEMMA ZeroFrom ==
    ASSUME IInv, [Next]_vars, NEW a \in Agreement, counter'[a] # 0, served'[a] = 0
    PROVE  \/ ReconcileCounters \/ pending' = <<>>
           \/ counter[a] # 0 /\ served[a] = 0
<1>0. served \in [Agreement -> Nat] /\ counter \in [Agreement -> Nat]
  BY DEF IInv, TypeOK
<1>1. CASE UNCHANGED <<counter, served>>
  BY <1>1
<1>2. ASSUME NEW b \in Agreement, RecordServed(b) PROVE counter[a] # 0 /\ served[a] = 0
  <2>1. counter' = counter /\ served' = [served EXCEPT ![b] = served[b] + 1]
    BY <1>2 DEF RecordServed
  <2>2. served'[a] = IF a = b THEN served[a] + 1 ELSE served[a]
    BY <1>0, <2>1
  <2> QED BY <1>0, <2>1, <2>2
<1>3. CASE ReconcileAgreements
  BY <1>3 DEF ReconcileAgreements
<1>4. ASSUME NEW tx \in Chunks, SendAnswered(tx) PROVE pending' = <<>>
  BY <1>4 DEF SendAnswered
<1>5. CASE EndPeriods
  <2> DEFINE ended == {c \in closing : <<c.agr, c.rec>> \in landed}
             agrs == {c.agr : c \in ended}
             count(b) == (CHOOSE c \in ended : c.agr = b).count
  <2>1. served' = [b \in Agreement |-> IF b \in agrs
                       THEN SaturatingSub(served[b], count(b)) ELSE served[b]]
    BY <1>5 DEF EndPeriods
  <2>2. counter' = [b \in Agreement |-> IF b \in agrs THEN 0 ELSE counter[b]]
    BY <1>5 DEF EndPeriods
  <2> HIDE DEF agrs, count
  <2> QED BY <2>1, <2>2
<1>6. CASE counter' = [b \in Agreement |-> 0]
  BY <1>6
<1> QED BY <1>1, <1>2, <1>3, <1>4, <1>5, <1>6 DEF Next, vars, memVars, Forget, PeriodEnds,
     AgreementExpires, PendingLands, PendingDropped, Start, Crash, Exit,
     SkipAgreements, Flush, ShutdownFlush, ReadFails, ReadOpenCounters, SendFailed,
     SendUnresolved, EndFlush, Accept, AcceptUnresolved, Accepted, EndPoll

(* While a close of an agreement's record is pending, nothing else changes
   the record's count. *)
LEMMA CountStays ==
    ASSUME IInv, CloseFirst, [Next]_vars, NEW a \in known, NEW n \in 1..Len(records[a]),
           ClosePending(a, n)', ~(\E tx \in Chunks : SendUnresolved(tx)),
           records'[a][n].state = "open"
    PROVE  /\ ClosePending(a, n) /\ records[a][n].state = "open"
           /\ records'[a][n].count = records[a][n].count
<1>0. a \in Agreement
  BY DEF IInv, TypeOK
<1>1. ClosePending(a, n)
  BY CloseFrom
<1>2. PICK i \in DOMAIN pending' :
        \E c \in pending'[i].ops : c.kind = "close" /\ c.agr = a /\ c.rec = n
  BY DEF ClosePending, Pend
<1>3. PICK tx : /\ Lands(records, records', tx)
                /\ \/ tx = {}
                   \/ /\ PendingLands /\ pending # <<>> /\ pending' = Tail(pending)
                      /\ 1 \in DOMAIN pending /\ tx = Pend(1)
                   \/ tx \in Chunks /\ SendAnswered(tx) /\ tx \subseteq batch /\ pending = <<>>
  BY RecordsLand
<1>4. ASSUME NEW op \in tx, Writes(op), op.agr = a PROVE FALSE
  <2>1. pending # <<>>
    BY <1>1 DEF ClosePending
  <2>2. pending' = Tail(pending) /\ tx = Pend(1)
    BY <1>3, <1>4, <2>1
  <2>3. i + 1 \in DOMAIN pending /\ pending'[i] = pending[i + 1] /\ i \in Nat /\ i # 0
    <3>1. i \in 1..(Len(pending) - 1)
      BY <2>1, <2>2, PendingShorter
    <3>2. Len(pending) \in Nat
      BY PendingType
    <3> QED BY <2>1, <2>2, <3>1, <3>2, PendingShorter
  <2>4. 1 \in 1..((i + 1) - 1)
    BY <2>3
  <2> QED BY <1>2, <1>4, <2>2, <2>3, <2>4 DEF CloseFirst, Pend
<1>5. records'[a][n].state = records[a][n].state /\ records'[a][n].count = records[a][n].count
  BY <1>0, <1>3, <1>4 DEF Lands
<1> QED BY <1>1, <1>5

(* Only a reconcile seeds memory, and it seeds it from the record. *)
LEMMA ZeroServedStep ==
    ASSUME IInv, CountsKnown, CloseAlone, CloseFirst, ZeroServed, ReadSame, [Next]_vars
    PROVE  ZeroServed'
<1> SUFFICES ASSUME NEW a \in Agreement, NEW n \in 1..Len(records'[a]), counter'[a] # 0,
                    served'[a] = 0, records'[a][n].state = "open", ClosePending(a, n)'
             PROVE  records'[a][n].count = 0
  BY DEF ZeroServed
<1>1. n \in 1..Len(records[a])
  <2>1. \E c : Queued(c) /\ c.kind = "close" /\ c.agr = a /\ c.rec = n
    BY CloseFrom DEF ClosePending, Queued
  <2> QED BY <2>1, SentRefs
<1>2. CASE ReconcileCounters
  <2>1. /\ pc = "match" /\ records' = records /\ pending' = pending
        /\ served' = MatchedServed /\ counter' = MatchedCounter
    BY <1>2 DEF ReconcileCounters, chainVars
  <2>2. ClosePending(a, n)
    BY <2>1 DEF ClosePending, Pend
  <2>3. served[a] \in Nat
    BY DEF IInv, TypeOK
  <2>4. CASE a \notin known
    BY <2>1, <2>2, <2>4, <1>1 DEF MatchedServed, MatchedCounter, ZeroServed
  <2>5. CASE a \in known
    <3> DEFINE m == Oldest(read, a)
    <3>1. m # 0 /\ served'[a] = SaturatingSub(served[a], ForgottenCount(a)) + SeededCount(a)
      BY <2>1, <2>5 DEF MatchedServed, MatchedCounter
    <3>2. ForgottenCount(a) = 0
      BY <3>1 DEF ForgottenCount
    <3>3. SaturatingSub(served[a], ForgottenCount(a)) = served[a]
      BY <2>3, <3>2 DEF SaturatingSub
    <3>4. SeededCount(a) \in Nat
      BY <3>1, ReadOldest DEF SeededCount
    <3>5. served[a] = 0 /\ SeededCount(a) = 0
      BY <2>3, <3>1, <3>3, <3>4
    <3>6. CASE counter[a] # 0
      BY <1>1, <2>1, <2>2, <3>5, <3>6 DEF ZeroServed
    <3>7. CASE counter[a] = 0
      <4>1. read[a][m].count = 0
        BY <3>1, <3>5, <3>7 DEF SeededCount
      <4>2. Eldest(read, a, n) /\ n \in 1..Len(read[a])
        BY <2>1, <2>2 DEF ReadSame, ClosePending
      <4>3. read[a][n].state = "open"
        BY <2>1, <4>2 DEF IInv, ReadIsPast
      <4>4. /\ m \in 1..Len(read[a]) /\ read[a][m].state = "open"
            /\ \A k \in 1..(m - 1) : read[a][k].state # "open"
        BY <3>1, OldestIsOpen DEF IInv, TypeOK, Records
      <4> HIDE DEF m
      <4>5. n \notin 1..(m - 1) /\ m \notin 1..(n - 1)
        BY <4>2, <4>3, <4>4 DEF Eldest
      <4>6. Len(read[a]) \in Nat
        BY DEF IInv, TypeOK
      <4>7. n = m
        BY <4>2, <4>4, <4>5, <4>6
      <4>8. records[a][n].count = read[a][n].count
        BY <2>1, <2>2, <2>5, <4>2 DEF ReadSame
      <4> QED BY <2>1, <4>1, <4>7, <4>8
    <3> QED BY <3>6, <3>7
  <2> QED BY <2>4, <2>5
<1>3. CASE counter[a] # 0 /\ served[a] = 0
  <2>1. a \in known
    BY <1>3 DEF CountsKnown
  <2>2. ASSUME NEW tx \in Chunks, SendUnresolved(tx) PROVE records'[a][n].count = 0
    <3>1. ASSUME NEW t \in Chunks, t \subseteq batch, NEW c \in t, c.kind = "close", c.agr = a
          PROVE FALSE
      <4>1. served[a] > 0
        BY <2>1, <3>1 DEF CloseAlone
      <4> QED BY <1>3, <4>1
    <3>2. ClosePending(a, n)
      BY <3>1, CloseFrom
    <3>3. records' = records
      BY <2>2 DEF SendUnresolved
    <3> QED BY <1>1, <1>3, <3>2, <3>3 DEF ZeroServed
  <2>3. CASE ~(\E tx \in Chunks : SendUnresolved(tx))
    <3>1. /\ ClosePending(a, n) /\ records[a][n].state = "open"
          /\ records'[a][n].count = records[a][n].count
      BY <1>1, <2>1, <2>3, CountStays
    <3> QED BY <1>1, <1>3, <3>1 DEF ZeroServed
  <2> QED BY <2>2, <2>3
<1>4. pending' # <<>>
  BY DEF ClosePending
<1> QED BY <1>2, <1>3, <1>4, ZeroFrom

(* Where a reconcile has read and not yet matched. *)
LEMMA MatchFrom ==
    ASSUME IInv, [Next]_vars, pc' = "match"
    PROVE  \/ ReadOpenCounters
           \/ /\ pc = "match" /\ read' = read /\ known' = known /\ counter' = counter
              /\ \A a \in Agreement : served'[a] = 0 => served[a] = 0
              /\ ~(\E tx \in Chunks : SendUnresolved(tx) \/ SendAnswered(tx))
<1>0. served \in [Agreement -> Nat]
  BY DEF IInv, TypeOK
<1>1. ASSUME NEW b \in Agreement, RecordServed(b)
      PROVE  \A a \in Agreement : served'[a] = 0 => served[a] = 0
  BY <1>0, <1>1 DEF RecordServed
<1>2. ASSUME NEW tx \in Chunks, SendUnresolved(tx) \/ SendAnswered(tx) PROVE FALSE
  BY <1>2 DEF SendUnresolved, SendAnswered, Sending
<1>3. CASE \E b \in Agreement : RecordServed(b)
  BY <1>1, <1>2, <1>3 DEF RecordServed, flushVars
<1> QED BY <1>2, <1>3 DEF Next, vars, memVars, flushVars, Sending, PeriodEnds,
           AgreementExpires,
     PendingLands, PendingDropped, Start, Crash, Exit, ReconcileAgreements, SkipAgreements,
     Flush, ShutdownFlush, ReadFails, ReconcileCounters,
     SendFailed, EndPeriods, EndFlush, Accept, AcceptUnresolved, Accepted, EndPoll

(* A read is at zero where memory is and a close came between. *)
LEMMA ReadZeroStep ==
    ASSUME IInv, ZeroServed, ReadZero, [Next]_vars
    PROVE  ReadZero'
<1> SUFFICES ASSUME pc' = "match", NEW a \in Agreement, NEW n \in 1..Len(read'[a]),
                    read'[a][n].state = "open", counter'[a] # 0, served'[a] = 0,
                    records'[a][n].state = "closed" \/ ClosePending(a, n)'
             PROVE  read'[a][n].count = 0
  BY DEF ReadZero
<1>1. CASE ReadOpenCounters
  <2>1. /\ read' = records /\ records' = records /\ pending' = pending
        /\ counter' = counter /\ served' = served
    BY <1>1 DEF ReadOpenCounters, chainVars, memVars
  <2>2. ClosePending(a, n)
    BY <2>1 DEF ClosePending, Pend
  <2> QED BY <2>1, <2>2 DEF ZeroServed
<1>2. CASE /\ pc = "match" /\ read' = read /\ known' = known /\ counter' = counter
           /\ \A b \in Agreement : served'[b] = 0 => served[b] = 0
           /\ ~(\E tx \in Chunks : SendUnresolved(tx) \/ SendAnswered(tx))
  <2>1. n \in 1..Len(records[a])
    <3>1. Len(read[a]) <= Len(records[a]) /\ Len(read[a]) \in Nat /\ Len(records[a]) \in Nat
      BY DEF IInv, ReadIsPast, TypeOK
    <3> QED BY <1>2, <3>1
  <2>2. records[a][n].state = "closed" \/ ClosePending(a, n)
    <3>1. CASE ClosePending(a, n)'
      BY <1>2, <3>1, CloseFrom
    <3>2. CASE records'[a][n].state = "closed" /\ records[a][n].state # "closed"
      BY <1>2, <2>1, <3>2, ClosedBy DEF ClosePending
    <3> QED BY <3>1, <3>2
  <2> QED BY <1>2, <2>2 DEF ReadZero
<1> QED BY <1>1, <1>2, MatchFrom

(* Nothing changes the count of a record that was read while its close is
   under way. *)
LEMMA ReadSameStep ==
    ASSUME IInv, CloseFirst, ReadSame, [Next]_vars
    PROVE  ReadSame'
<1> SUFFICES ASSUME pc' = "match"
             PROVE  /\ \A a \in known' : \A n \in 1..Len(read'[a]) :
                          records'[a][n].state = "open" /\ ClosePending(a, n)'
                              => records'[a][n].count = read'[a][n].count
                    /\ \A i \in DOMAIN pending' : \A c \in pending'[i].ops :
                          c.kind = "close" => /\ Eldest(read', c.agr, c.rec)
                                              /\ c.rec \in 1..Len(read'[c.agr])
  BY DEF ReadSame, Pend, Eldest
<1>1. CASE ReadOpenCounters
  <2>1. read' = records /\ records' = records /\ pending' = pending
    BY <1>1 DEF ReadOpenCounters, chainVars
  <2>2. ASSUME NEW i \in DOMAIN pending, NEW c \in Pend(i), c.kind = "close"
        PROVE  Eldest(records, c.agr, c.rec) /\ c.rec \in 1..Len(records[c.agr])
    <3>1. Queued(c)
      BY DEF Queued
    <3>2. c \in Operation /\ c.rec \in 1..Len(records[c.agr])
      BY <2>2, <3>1, SentRefs
    <3> QED BY <2>2, <3>1, <3>2 DEF IInv, EldestCount
  <2> QED BY <2>1, <2>2 DEF Pend
<1>2. CASE /\ pc = "match" /\ read' = read /\ known' = known
           /\ ~(\E tx \in Chunks : SendUnresolved(tx) \/ SendAnswered(tx))
  <2>1. ASSUME NEW a \in known, NEW n \in 1..Len(read[a]),
               records'[a][n].state = "open", ClosePending(a, n)'
        PROVE  records'[a][n].count = read[a][n].count
    <3>1. n \in 1..Len(records[a])
      <4>1. a \in Agreement
        BY DEF IInv, TypeOK
      <4>2. Len(read[a]) <= Len(records[a]) /\ Len(read[a]) \in Nat /\ Len(records[a]) \in Nat
        BY <4>1 DEF IInv, ReadIsPast, TypeOK
      <4> QED BY <4>2
    <3>2. /\ ClosePending(a, n) /\ records[a][n].state = "open"
          /\ records'[a][n].count = records[a][n].count
      BY <1>2, <2>1, <3>1, CountStays
    <3> QED BY <1>2, <3>2 DEF ReadSame
  <2>2. ASSUME NEW i \in DOMAIN pending', NEW c \in pending'[i].ops, c.kind = "close"
        PROVE  Eldest(read, c.agr, c.rec) /\ c.rec \in 1..Len(read[c.agr])
    <3>1. PICK j \in DOMAIN pending : pending'[i] = pending[j]
      BY <1>2, PendingFrom
    <3> QED BY <1>2, <2>2, <3>1 DEF ReadSame, Pend
  <2> QED BY <1>2, <2>1, <2>2
<1> QED BY <1>1, <1>2, MatchFrom

(* Nothing is recorded or held at first. *)
LEMMA InitZInv == Init => ZInv
<1> SUFFICES ASSUME Init PROVE ZInv
  OBVIOUS
<1>1. DOMAIN pending = {} /\ batch = {} /\ closing = {} /\ task = "down" /\ pc = "rest"
  BY DEF Init
<1>2. \A a \in Agreement : counter[a] = 0 /\ Len(records[a]) = 0 /\ DOMAIN records[a] = {}
  BY DEF Init, NoRead
<1> QED BY <1>1, <1>2 DEF ZInv, Phases, FlushAlone, PollWrites, CountsKnown, NewUntouched,
     ClosesCount, CloseAlone, CloseFirst, ZeroPending, ZeroBatch, ZeroServed, ReadZero, ReadSame,
     NoClosedAtZero

(* Each part is kept by every step. *)
LEMMA NextZInv ==
    ASSUME ~Stalls
    PROVE  IInv /\ ZInv /\ [Next]_vars => ZInv'
<1> SUFFICES ASSUME IInv, ZInv, [Next]_vars PROVE ZInv'
  OBVIOUS
<1>1. Phases' /\ FlushAlone' /\ PollWrites' /\ CountsKnown' /\ NewUntouched'
  BY PhasesStep, FlushAloneStep, PollWritesStep, CountsKnownStep, NewUntouchedStep DEF ZInv
<1>2. ClosesCount' /\ CloseAlone' /\ CloseFirst'
  BY ClosesCountStep, CloseAloneStep, CloseFirstStep DEF ZInv
<1>3. ZeroPending' /\ ZeroBatch' /\ ZeroServed' /\ ReadZero' /\ ReadSame' /\ NoClosedAtZero'
  BY ZeroPendingStep, ZeroBatchStep, ZeroServedStep, ReadZeroStep, ReadSameStep,
     NoClosedAtZeroStep DEF ZInv
<1> QED BY <1>1, <1>2, <1>3 DEF ZInv

(* No record is closed at zero, for any agreements, records and transactions
   under way, whether or not batches are split: a late close and a late zero
   never meet, as long as a flush's transaction does not outlast a flush
   interval (close_ended, the strays and the served > 0 of counts_batch). *)
THEOREM NeverClosedAtZero ==
    ASSUME ~Stalls
    PROVE  Spec => []NoClosedAtZero
<1>1. ZInv => NoClosedAtZero
  BY DEF ZInv
<1>2. Spec => []ZInv
  BY InitZInv, NextZInv, Inductive, PTL DEF Spec
<1> QED BY <1>1, <1>2, PTL

-----------------------------------------------------------------------------
(* What the records of an agreement bill is a sum over them.  The fold is the
   value of a recursive function on the sets of its indices; that there is
   one, and what it sums, is shown along the sizes of those sets. *)
Sum(f) == MapThenSumSet(LAMBDA n : f[n], DOMAIN f)

Rest(s) == s \ {CHOOSE x \in s : TRUE}

Sums(f, g, s) == g[s] = IF s = {} THEN 0 ELSE f[CHOOSE x \in s : TRUE] + g[Rest(s)]

Solves(D, f, g) == g \in [SUBSET D -> Int] /\ \A s \in SUBSET D : Sums(f, g, s)

(* What a fold has left after one element is smaller. *)
LEMMA RestSmaller ==
    ASSUME NEW s, IsFiniteSet(s), s # {}
    PROVE  /\ IsFiniteSet(Rest(s)) /\ Rest(s) \subseteq s
           /\ (CHOOSE x \in s : TRUE) \in s /\ (CHOOSE x \in s : TRUE) \notin Rest(s)
           /\ Cardinality(s) \in Nat /\ Cardinality(Rest(s)) = Cardinality(s) - 1
<1>1. (CHOOSE x \in s : TRUE) \in s
  OBVIOUS
<1> QED BY <1>1, FS_RemoveElement, FS_CardinalityType DEF Rest

(* The function a fold over the parts of a finite set describes exists. *)
LEMMA SumExists ==
    ASSUME NEW D, IsFiniteSet(D), NEW f \in [D -> Int]
    PROVE  \E g \in [SUBSET D -> Int] : \A s \in SUBSET D : Sums(f, g, s)
<1> DEFINE upTo(k) == \E g \in [SUBSET D -> Int] :
                        \A s \in SUBSET D : Cardinality(s) <= k => Sums(f, g, s)
           bad == {k \in Nat : ~upTo(k)}
<1>0. \A s \in SUBSET D : IsFiniteSet(s) /\ Cardinality(s) \in Nat
  BY FS_Subset, FS_CardinalityType
<1>1. ASSUME bad # {} PROVE FALSE
  <2>1. PICK k \in bad : \A j \in bad : k <= j
    BY <1>1, LeastExists
  <2>2. CASE k = 0
    <3> DEFINE g == [s \in SUBSET D |-> 0]
    <3>1. \A s \in SUBSET D : Cardinality(s) <= 0 => s = {}
      BY <1>0, FS_EmptySet
    <3>2. \A s \in SUBSET D : Cardinality(s) <= 0 => Sums(f, g, s)
      BY <3>1 DEF Sums
    <3>3. g \in [SUBSET D -> Int]
      OBVIOUS
    <3> HIDE DEF g
    <3> QED BY <2>1, <2>2, <3>2, <3>3
  <2>3. CASE k # 0
    <3>1. k - 1 \in Nat /\ k - 1 \notin bad
      <4>1. k \in Nat
        BY <2>1
      <4>2. k - 1 \in Nat /\ ~(k <= k - 1)
        BY <2>3, <4>1
      <4> QED BY <2>1, <4>2
    <3>2. PICK g \in [SUBSET D -> Int] :
             \A s \in SUBSET D : Cardinality(s) <= k - 1 => Sums(f, g, s)
      BY <3>1
    <3> DEFINE h == [s \in SUBSET D |-> IF Cardinality(s) <= k - 1 THEN g[s]
                                        ELSE f[CHOOSE x \in s : TRUE] + g[Rest(s)]]
    <3>3. ASSUME NEW s \in SUBSET D, s # {}
          PROVE  /\ Rest(s) \in SUBSET D /\ f[CHOOSE x \in s : TRUE] \in Int
                 /\ Cardinality(Rest(s)) = Cardinality(s) - 1
      BY <1>0, <3>3, RestSmaller
    <3>4. ASSUME NEW s \in SUBSET D, ~(Cardinality(s) <= k - 1) PROVE s # {}
      <4>1. Cardinality({}) = 0
        BY FS_EmptySet
      <4>2. s = {} => Cardinality(s) <= k - 1
        BY <3>1, <4>1
      <4> QED BY <3>4, <4>2
    <3>5. h \in [SUBSET D -> Int]
      BY <3>3, <3>4
    <3>6. ASSUME NEW s \in SUBSET D, Cardinality(s) <= k PROVE Sums(f, h, s)
      <4>1. CASE s = {}
        <5>1. Cardinality(s) = 0
          BY <4>1, FS_EmptySet
        <5>2. h[s] = g[s] /\ Sums(f, g, s)
          BY <3>1, <3>2, <5>1
        <5> QED BY <4>1, <5>2 DEF Sums
      <4>2. CASE s # {}
        <5>1. /\ Rest(s) \in SUBSET D /\ Cardinality(Rest(s)) = Cardinality(s) - 1
              /\ Cardinality(s) \in Nat
          BY <1>0, <3>3, <4>2
        <5>2. h[Rest(s)] = g[Rest(s)]
          BY <3>1, <3>6, <5>1
        <5>3. h[s] = f[CHOOSE x \in s : TRUE] + g[Rest(s)]
          BY <3>2, <4>2 DEF Sums
        <5> HIDE DEF h
        <5> QED BY <4>2, <5>2, <5>3 DEF Sums
      <4> QED BY <4>1, <4>2
    <3> HIDE DEF h
    <3>7. upTo(k)
      BY <3>5, <3>6
    <3> QED BY <2>1, <3>7
  <2> QED BY <2>2, <2>3
<1>2. upTo(Cardinality(D))
  BY <1>0, <1>1
<1>3. \A s \in SUBSET D : Cardinality(s) <= Cardinality(D)
  BY FS_Subset
<1> QED BY <1>2, <1>3

(* The equations of the sum. *)
LEMMA SumIsFold ==
    ASSUME NEW D, IsFiniteSet(D), NEW f \in [D -> Int]
    PROVE  \E g : Solves(D, f, g) /\ Sum(f) = g[D]
<1> DEFINE eq(g) == [s \in SUBSET D |-> IF s = {} THEN 0
                       ELSE f[CHOOSE x \in s : TRUE] + g[s \ {CHOOSE x \in s : TRUE}]]
           it == CHOOSE g : g = eq(g)
<1>1. PICK g \in [SUBSET D -> Int] : \A s \in SUBSET D : Sums(f, g, s)
  BY SumExists
<1>2. g = eq(g)
  BY <1>1 DEF Sums, Rest
<1>3. it = eq(it)
  BY <1>2
<1>4. Sum(f) = it[D]
  BY DEF Sum, MapThenSumSet, MapThenFoldSet
<1>5. ASSUME NEW s \in SUBSET D PROVE Sums(f, it, s)
  <2> HIDE DEF it
  <2> QED BY <1>3 DEF Sums, Rest
<1>6. ASSUME NEW s \in SUBSET D PROVE it[s] \in Int
  <2> HIDE DEF it
  <2> DEFINE sizes == {Cardinality(t) : t \in {u \in SUBSET D : it[u] \notin Int}}
  <2>1. SUFFICES ASSUME it[s] \notin Int PROVE FALSE
    OBVIOUS
  <2>2. \A u \in SUBSET D : IsFiniteSet(u) /\ Cardinality(u) \in Nat
    BY FS_Subset, FS_CardinalityType
  <2>3. sizes \subseteq Nat /\ sizes # {}
    BY <2>1, <2>2
  <2>4. PICK n \in sizes : \A m \in sizes : n <= m
    BY <2>3, LeastExists
  <2>5. PICK u \in SUBSET D : it[u] \notin Int /\ Cardinality(u) = n
    BY <2>4
  <2>6. u # {}
    BY <1>5, <2>5 DEF Sums
  <2>7. /\ Rest(u) \in SUBSET D /\ f[CHOOSE x \in u : TRUE] \in Int
        /\ Cardinality(Rest(u)) = Cardinality(u) - 1 /\ Cardinality(u) \in Nat
    BY <2>2, <2>6, RestSmaller
  <2>8. it[Rest(u)] \in Int
    <3>1. ~(n <= Cardinality(Rest(u)))
      BY <2>5, <2>7
    <3>2. Cardinality(Rest(u)) \notin sizes
      BY <2>4, <3>1
    <3> QED BY <2>7, <3>2
  <2> QED BY <1>5, <2>5, <2>6, <2>7, <2>8 DEF Sums
<1>7. it \in [SUBSET D -> Int]
  <2> HIDE DEF it
  <2>1. it = [s \in SUBSET D |-> it[s]]
    BY <1>3
  <2> QED BY <1>6, <2>1
<1> HIDE DEF it
<1> QED BY <1>4, <1>5, <1>7 DEF Solves



(* The place of an element in the sum does not matter. *)
LEMMA SumTakesOut ==
    ASSUME NEW D, IsFiniteSet(D), NEW f \in [D -> Int], NEW F, Solves(D, f, F),
           NEW x \in D
    PROVE  F[D] = f[x] + F[D \ {x}]
<1> USE DEF Solves
<1> DEFINE right(s) == \A y \in s : F[s] = f[y] + F[s \ {y}]
           sizes == {Cardinality(t) : t \in {u \in SUBSET D : ~right(u)}}
<1>1. \A u \in SUBSET D : IsFiniteSet(u) /\ Cardinality(u) \in Nat
  BY FS_Subset, FS_CardinalityType
<1>2. ASSUME sizes # {} PROVE FALSE
  <2>1. sizes \subseteq Nat
    BY <1>1
  <2>2. PICK n \in sizes : \A m \in sizes : n <= m
    BY <1>2, <2>1, LeastExists
  <2>3. PICK u \in SUBSET D : ~right(u) /\ Cardinality(u) = n
    BY <2>2
  <2>4. PICK z \in u : F[u] # f[z] + F[u \ {z}]
    BY <2>3
  <2>5. PICK c \in u : c = CHOOSE y \in u : TRUE
    BY <2>4
  <2>6. /\ F[u] = f[c] + F[u \ {c}]
        /\ Rest(u) = u \ {c}
    BY <2>5 DEF Rest, Sums
  <2>7. ASSUME NEW y \in u PROVE right(u \ {y})
    <3>1. u \ {y} \in SUBSET D /\ Cardinality(u \ {y}) = Cardinality(u) - 1 /\ Cardinality(u) \in Nat
      BY <1>1, FS_RemoveElement
    <3>2. ~(n <= Cardinality(u \ {y}))
      BY <2>3, <3>1
    <3> HIDE DEF right
    <3> QED BY <2>2, <3>1, <3>2
  <2>8. c # z /\ z \in u \ {c} /\ c \in u \ {z} /\ (u \ {c}) \ {z} = (u \ {z}) \ {c}
    BY <2>4, <2>6
  <2>9. F[u \ {c}] = f[z] + F[(u \ {c}) \ {z}] /\ F[u \ {z}] = f[c] + F[(u \ {z}) \ {c}]
    BY <2>7, <2>8
  <2>10. PICK r \in Int : r = F[(u \ {z}) \ {c}]
    OBVIOUS
  <2>11. f[z] \in Int /\ f[c] \in Int /\ F[u] = f[c] + (f[z] + r) /\ F[u \ {z}] = f[c] + r
    BY <2>6, <2>8, <2>9, <2>10
  <2>12. f[z] + (f[c] + r) = f[c] + (f[z] + r)
    BY <2>11
  <2> QED BY <2>4, <2>11, <2>12
<1>3. right(D)
  BY <1>2
<1> QED BY <1>3

(* Two sums, one of them at most the other but at n. *)
LEMMA FoldAtMost ==
    ASSUME NEW D, IsFiniteSet(D), NEW E, D \subseteq E, NEW f \in [D -> Int], NEW g \in [E -> Int],
           NEW F, Solves(D, f, F), NEW G, Solves(E, g, G),
           NEW n, \A m \in D : m # n => g[m] <= f[m]
    PROVE  /\ n \notin D => G[D] <= F[D]
           /\ n \in D => G[D] - g[n] <= F[D] - f[n]
<1> USE DEF Solves
<1> DEFINE right(s) == /\ n \notin s => G[s] <= F[s]
                       /\ n \in s => G[s] - g[n] <= F[s] - f[n]
           sizes == {Cardinality(t) : t \in {u \in SUBSET D : ~right(u)}}
<1>3. \A u \in SUBSET D : IsFiniteSet(u) /\ Cardinality(u) \in Nat
  BY FS_Subset, FS_CardinalityType
<1>4. ASSUME sizes # {} PROVE FALSE
  <2>1. sizes \subseteq Nat
    BY <1>3
  <2>2. PICK k \in sizes : \A m \in sizes : k <= m
    BY <1>4, <2>1, LeastExists
  <2>3. PICK u \in SUBSET D : ~right(u) /\ Cardinality(u) = k
    BY <2>2
  <2>4. CASE u = {}
    <3>1. F[u] = 0 /\ G[u] = 0
      BY <2>4 DEF Sums
    <3> QED BY <2>3, <2>4, <3>1
  <2>5. CASE u # {}
    <3>0. PICK c \in u : c = CHOOSE y \in u : TRUE
      BY <2>5
    <3>1. /\ Rest(u) \in SUBSET D /\ Rest(u) = u \ {c}
          /\ Cardinality(Rest(u)) = Cardinality(u) - 1 /\ Cardinality(u) \in Nat
      BY <1>3, <2>5, <3>0, RestSmaller DEF Rest
    <3>2. right(Rest(u))
      <4>1. ~(k <= Cardinality(Rest(u)))
        BY <2>3, <3>1
      <4> HIDE DEF right
      <4> QED BY <2>2, <3>1, <4>1
    <3>3. G[u] = g[c] + G[Rest(u)] /\ F[u] = f[c] + F[Rest(u)]
      BY <2>5, <3>0 DEF Sums
    <3>4. /\ F[u] \in Int /\ F[Rest(u)] \in Int /\ G[u] \in Int /\ G[Rest(u)] \in Int
          /\ f[c] \in Int /\ g[c] \in Int /\ c \in D /\ (c # n => g[c] <= f[c])
      BY <3>1
    <3>5. n \in u <=> (n = c \/ n \in Rest(u))
      BY <3>1
    <3>6. n = c => n \notin Rest(u)
      BY <3>1
    <3> QED BY <2>3, <3>2, <3>3, <3>4, <3>5, <3>6
  <2> QED BY <2>4, <2>5
<1>5. right(D)
  BY <1>4
<1> QED BY <1>5

(* A sum is monotonic, also beside one of its terms. *)
LEMMA SumAtMost ==
    ASSUME NEW D, IsFiniteSet(D), NEW f \in [D -> Int], NEW x, x \notin D,
           NEW g, g \in [D -> Int] \/ (g \in [D \cup {x} -> Int] /\ g[x] = 0),
           NEW n, \A m \in D : m # n => g[m] <= f[m]
    PROVE  /\ Sum(f) \in Int /\ Sum(g) \in Int
           /\ n \notin D => Sum(g) <= Sum(f)
           /\ n \in D => Sum(g) - g[n] <= Sum(f) - f[n]
<1>1. PICK F : Solves(D, f, F) /\ Sum(f) = F[D]
  BY SumIsFold
<1>2. CASE g \in [D -> Int]
  <2>1. PICK G : Solves(D, g, G) /\ Sum(g) = G[D]
    BY <1>2, SumIsFold
  <2>2. F[D] \in Int /\ G[D] \in Int
    BY <1>1, <2>1 DEF Solves
  <2>3. /\ n \notin D => G[D] <= F[D]
        /\ n \in D => G[D] - g[n] <= F[D] - f[n]
    BY <1>1, <1>2, <2>1, FoldAtMost
  <2> QED BY <1>1, <2>1, <2>2, <2>3
<1>3. CASE g \in [D \cup {x} -> Int] /\ g[x] = 0
  <2>0. PICK E : E = D \cup {x}
    OBVIOUS
  <2>1. /\ IsFiniteSet(E) /\ E \ {x} = D /\ D \subseteq E /\ x \in E /\ D \in SUBSET E
        /\ g \in [E -> Int]
    BY <1>3, <2>0, FS_AddElement
  <2>2. PICK G : Solves(E, g, G) /\ Sum(g) = G[E]
    BY <2>1, SumIsFold
  <2>3. F[D] \in Int /\ G[D] \in Int
    BY <1>1, <2>1, <2>2 DEF Solves
  <2>4. /\ n \notin D => G[D] <= F[D]
        /\ n \in D => G[D] - g[n] <= F[D] - f[n]
    BY <1>1, <2>1, <2>2, FoldAtMost
  <2>5. G[E] = g[x] + G[E \ {x}]
    BY <2>1, <2>2, SumTakesOut
  <2>6. G[E] = G[D]
    BY <1>3, <2>1, <2>3, <2>5
  <2> QED BY <1>1, <2>2, <2>3, <2>4, <2>6
<1> QED BY <1>2, <1>3

(* What a record bills in the records recs, and all records of an agreement. *)
Carried(recs, a, n) ==
    IF n \in DOMAIN recs[a] /\ recs[a][n].state # "deleted" THEN recs[a][n].count ELSE 0

Bills(recs, a) == [n \in DOMAIN recs[a] |-> Carried(recs, a, n)]

Bill(recs, a) == Sum(Bills(recs, a))

(* The one transaction under way, and the records once it has landed. *)
Flying == IF pending = <<>> THEN {} ELSE pending[1].ops

Landing == Apply(Flying, records)

(* Records that bill at most q, also with w in record n. *)
Within(recs, a, n, w, q) ==
    Bill(recs, a) <= q /\ Bill(recs, a) - Carried(recs, a, n) + w <= q

(* The records bill no more than was answered; nor would they if memory
   wrote what it counts into the record it counts into. *)
Fair(recs, a) == Within(recs, a, counter[a], served[a], answered[a])

(* It is so now and once what is under way or about to be sent has landed. *)
Worlds == {records, Landing, Apply(batch, records), Apply(batch, Landing)}

AllFair == \A recs \in Worlds : \A a \in Agreement : Fair(recs, a)

(* The same for a record that is read and that memory does not hold yet. *)
ReadFair ==
    pc = "match" => \A a \in Agreement :
        counter[a] = 0 /\ Oldest(read, a) # 0 =>
            \A recs \in {records, Landing} :
                Within(recs, a, Oldest(read, a),
                       read[a][Oldest(read, a)].count + served[a], answered[a])

Alone == Len(pending) <= 1

ServedKnown == /\ task = "down" => known = {}
               /\ \A a \in Agreement : served[a] # 0 => a \in known

Same(r, s) == /\ Len(r) = Len(s)
              /\ \A n \in 1..Len(r) : r[n].state = s[n].state /\ r[n].count = s[n].count

(* Records with the same states and counts. *)
Alike(recs, new) == \A a \in Agreement : Same(recs[a], new[a])

(* Nothing has landed since a read while something is still under way. *)
ReadNow ==
    pc = "match" =>
        /\ pending # <<>> => Alike(read, records)
        /\ \A a \in Agreement : \A n \in 1..Len(read[a]) :
              read[a][n].state = "deleted" => records[a][n].state = "deleted"

(* Memory's record in a read. *)
ReadCounter ==
    pc = "match" => \A a \in Agreement : counter[a] # 0 =>
        /\ counter[a] \in 1..Len(read[a])
        /\ \/ Oldest(read, a) = counter[a]
           \/ read[a][counter[a]].state = "closed" /\ Oldest(read, a) = 0
           \/ read[a][counter[a]].state = "deleted"

(* What a flush read of an agreement it knows does not change until it has
   written. *)
FlushRead ==
    task = "flush" /\ pc = "match" => \A a \in known : Oldest(read, a) # 0 =>
        /\ Same(read[a], records[a])
        /\ \A o \in Flying : o.agr # a

FlushWrites ==
    task = "flush" => \A o \in batch : Writes(o) /\ o.agr \in known =>
        /\ records[o.agr][o.rec].state # "closed"
        /\ \A p \in Flying : p.agr # o.agr

OneWrite(tx) == \A o, p \in tx : Writes(o) /\ Writes(p) /\ o.agr = p.agr => o = p

OneWrites == OneWrite(batch) /\ OneWrite(Flying)

(* A record deleted beside one that is written carries nothing. *)
DeletesNothing(tx) ==
    \A o, d \in tx : Writes(o) /\ d.kind = "delete" /\ d.agr = o.agr =>
        records[d.agr][d.rec].count = 0

DuplicateRead ==
    pc = "match" => \A a \in Agreement : \A n \in Duplicates(read, a) :
        /\ records[a][n].count = 0
        /\ \A o \in Flying : Writes(o) /\ o.agr = a => o.rec # n

DeletesZero ==
    /\ DeletesNothing(batch) /\ DeletesNothing(Flying)
    /\ \A o, d \in batch : Writes(o) /\ d.kind = "delete" /\ d.agr = o.agr =>
          \A p \in Flying : Writes(p) /\ p.agr = d.agr => p.rec # d.rec

(* A close leaves its agreement without an open record. *)
Tidy(tx) ==
    \A c \in tx : c.kind = "close" /\ c.agr \in live \cup known =>
        /\ Create(c.agr) \notin tx
        /\ \A m \in Open(records, c.agr) :
              m # c.rec => \E d \in tx : d.kind = "delete" /\ d.agr = c.agr /\ d.rec = m

ClosesTidy ==
    /\ Tidy(batch) /\ Tidy(Flying)
    /\ \A c \in batch : c.kind = "close" /\ c.agr \in live \cup known =>
          \A p \in Flying : p.agr # c.agr

(* So if the record memory counts into is closed, no other is open. *)
ClosedClean ==
    \A a \in Agreement : counter[a] # 0 /\ records[a][counter[a]].state = "closed" =>
        Open(records, a) = {}

ReadClean ==
    pc = "match" => \A a \in known :
        Oldest(read, a) # 0 /\ records[a][Oldest(read, a)].state = "closed" =>
            Open(records, a) = {}

(* Records are created for agreements whose record is gone. *)
Creates ==
    /\ \A o \in batch \cup Flying : o.kind = "create" => o = Create(o.agr)
    /\ pc = "ended" => \A o \in batch : o.kind # "create"
    /\ \A a \in Agreement : Create(a) \in batch => counter[a] = 0
    /\ \A a \in Agreement : Create(a) \in Flying =>
          counter[a] = 0 \/ records[a][counter[a]].state # "closed"
    /\ pending # <<>> /\ pending[1].by = "poll" =>
          \A a \in Agreement : Create(a) \in Flying => records[a] = <<>>

(* Only a stop writes into a closed record that memory holds. *)
FlyingClosed ==
    \A o \in Flying :
        (/\ Writes(o) /\ counter[o.agr] = o.rec /\ o.rec # 0
         /\ records[o.agr][o.rec].state = "closed")
            => task = "stop" /\ pc \in {"counts", "successors", "done"}

(* A close that was answered as landed is of the record memory holds. *)
Ended ==
    /\ pc \notin {"counts", "successors", "done"} => landed = {}
    /\ pc # "counts" => closing = {}
    /\ pc = "counts" =>
          /\ batch # {} => closing \subseteq batch /\ landed = {}
          /\ landed # {} => pending = <<>>
          /\ \A c \in closing : /\ c.kind = "close" /\ counter[c.agr] = c.rec /\ c.rec # 0
                                /\ \A d \in closing : d.agr = c.agr => d = c
                                /\ <<c.agr, c.rec>> \in landed =>
                                      Carried(records, c.agr, c.rec) <= c.count

OInv == /\ AllFair /\ ReadFair /\ Alone /\ ServedKnown /\ ReadNow /\ ReadCounter /\ FlushRead
        /\ FlushWrites /\ OneWrites /\ DuplicateRead /\ DeletesZero /\ ClosesTidy /\ ClosedClean
        /\ ReadClean /\ Creates /\ FlyingClosed /\ Ended

-----------------------------------------------------------------------------
(* What a transaction that applies does, record by record. *)
Onto(tx, a, n) == {op \in tx : op.agr = a /\ op.kind # "create" /\ op.rec = n}

Effect(recs, new, tx) ==
    \A a \in Agreement :
        /\ Len(new[a]) = IF Create(a) \in tx THEN Len(recs[a]) + 1 ELSE Len(recs[a])
        /\ Create(a) \in tx => new[a][Len(recs[a]) + 1] = FreshRecord
        /\ \A n \in 1..Len(recs[a]) :
              new[a][n] = IF Onto(tx, a, n) = {} THEN recs[a][n]
                          ELSE Patched(recs[a][n], CHOOSE op \in Onto(tx, a, n) : TRUE)

(* Apply keeps the types, and a transaction has its effect or none. *)
LEMMA ApplyEffect ==
    ASSUME NEW recs \in Records, NEW tx, tx \subseteq Operation
    PROVE  /\ Apply(tx, recs) \in Records
           /\ ~Applies(tx, recs) => Apply(tx, recs) = recs
           /\ Applies(tx, recs) => Effect(recs, Apply(tx, recs), tx)
<1>0. \A a \in Agreement : /\ recs[a] \in Seq(CounterRecord) /\ Len(recs[a]) \in Nat
                           /\ DOMAIN recs[a] = 1..Len(recs[a])
                           /\ \A n \in 1..Len(recs[a]) : recs[a][n] \in CounterRecord
  BY DEF Records
<1>1. Apply(tx, recs) \in Records
  BY ApplyAdvances
<1>2. ~Applies(tx, recs) => Apply(tx, recs) = recs
  BY DEF Apply
<1>3. ASSUME Applies(tx, recs) PROVE Effect(recs, Apply(tx, recs), tx)
  <2> DEFINE old(a) == [n \in DOMAIN recs[a] |->
                          IF Onto(tx, a, n) = {} THEN recs[a][n]
                          ELSE Patched(recs[a][n], CHOOSE op \in Onto(tx, a, n) : TRUE)]
             new == Apply(tx, recs)
  <2>1. ASSUME NEW a \in Agreement, NEW n \in 1..Len(recs[a])
        PROVE  old(a)[n] \in CounterRecord
    <3>1. CASE Onto(tx, a, n) = {}
      BY <1>0, <3>1
    <3>2. CASE Onto(tx, a, n) # {}
      <4>1. PICK op : op \in Onto(tx, a, n) /\ op = CHOOSE o \in Onto(tx, a, n) : TRUE
        BY <3>2
      <4>2. op \in Operation /\ op.kind # "create"
        BY <4>1 DEF Onto
      <4>3. Patched(recs[a][n], op) \in CounterRecord
        BY <1>0, <4>2, PatchedRecord
      <4> QED BY <1>0, <3>2, <4>1, <4>3
    <3> QED BY <3>1, <3>2
  <2>2. ASSUME NEW a \in Agreement
        PROVE  old(a) \in Seq(CounterRecord) /\ Len(old(a)) = Len(recs[a])
    <3>1. old(a) \in [1..Len(recs[a]) -> CounterRecord]
      BY <1>0, <2>1
    <3> HIDE DEF old
    <3> QED BY <1>0, <3>1, FunctionIsSeq
  <2>3. ASSUME NEW a \in Agreement
        PROVE  new[a] = IF Create(a) \in tx THEN Append(old(a), FreshRecord) ELSE old(a)
    BY <1>3, Zenon DEF Apply, Onto
  <2>4. FreshRecord \in CounterRecord
    BY DEF FreshRecord, CounterRecord
  <2>5. ASSUME NEW a \in Agreement
        PROVE  \A n \in 1..Len(recs[a]) :
                  old(a)[n] = IF Onto(tx, a, n) = {} THEN recs[a][n]
                              ELSE Patched(recs[a][n], CHOOSE op \in Onto(tx, a, n) : TRUE)
    BY <1>0
  <2> HIDE DEF old
  <2>6. ASSUME NEW a \in Agreement
        PROVE  /\ Len(new[a]) = IF Create(a) \in tx THEN Len(recs[a]) + 1 ELSE Len(recs[a])
               /\ Create(a) \in tx => new[a][Len(recs[a]) + 1] = FreshRecord
               /\ \A n \in 1..Len(recs[a]) : new[a][n] = old(a)[n]
    <3> HIDE DEF new
    <3>1. CASE Create(a) \in tx
      <4>1. new[a] = Append(old(a), FreshRecord)
        BY <2>3, <3>1
      <4> QED BY <1>0, <2>2, <2>4, <3>1, <4>1, AppendProperties
    <3>2. CASE Create(a) \notin tx
      BY <2>2, <2>3, <3>2
    <3> QED BY <3>1, <3>2
  <2> HIDE DEF new
  <2>7. Effect(recs, new, tx)
    BY <2>5, <2>6 DEF Effect
  <2> QED BY <2>7 DEF new
<1> QED BY <1>1, <1>2, <1>3

(* Records are finitely many, and what they carry and bill are numbers. *)
LEMMA RecordsType ==
    ASSUME NEW recs \in Records, NEW a \in Agreement
    PROVE  /\ Len(recs[a]) \in Nat /\ DOMAIN recs[a] = 1..Len(recs[a])
           /\ \A n \in 1..Len(recs[a]) : recs[a][n] \in CounterRecord
           /\ \A n : Carried(recs, a, n) \in Nat
           /\ Bills(recs, a) \in [1..Len(recs[a]) -> Int]
           /\ IsFiniteSet(1..Len(recs[a]))
           /\ Bill(recs, a) \in Int
<1>1. /\ Len(recs[a]) \in Nat /\ DOMAIN recs[a] = 1..Len(recs[a])
      /\ \A n \in 1..Len(recs[a]) : recs[a][n] \in CounterRecord
  BY DEF Records
<1>2. \A n : Carried(recs, a, n) \in Nat
  BY <1>1 DEF Carried, CounterRecord
<1>3. Bills(recs, a) \in [1..Len(recs[a]) -> Int]
  BY <1>1, <1>2 DEF Bills
<1>4. IsFiniteSet(1..Len(recs[a]))
  BY <1>1, FS_Interval
<1>5. Bill(recs, a) \in Int
  <2>1. PICK f \in [1..Len(recs[a]) -> Int] : f = Bills(recs, a)
    BY <1>3
  <2>2. Sum(f) \in Int
    <3>1. Len(recs[a]) + 1 \notin 1..Len(recs[a]) /\ \A m \in 1..Len(recs[a]) : f[m] <= f[m]
      BY <1>1
    <3> QED BY <1>4, <3>1, SumAtMost
  <2> QED BY <2>1, <2>2 DEF Bill
<1> QED BY <1>1, <1>2, <1>3, <1>4, <1>5

(* The bill of records that carry at most as much, but for one of them. *)
LEMMA BillMoves ==
    ASSUME NEW recs \in Records, NEW new \in Records, NEW a \in Agreement, NEW n,
           \/ Len(new[a]) = Len(recs[a])
           \/ Len(new[a]) = Len(recs[a]) + 1 /\ Carried(new, a, Len(recs[a]) + 1) = 0,
           \A m \in 1..Len(recs[a]) : m # n => Carried(new, a, m) <= Carried(recs, a, m)
    PROVE  Bill(new, a) - Carried(new, a, n) <= Bill(recs, a) - Carried(recs, a, n)
<1>1. PICK D : D = 1..Len(recs[a])
  OBVIOUS
<1>2. PICK f \in [D -> Int] : /\ f = Bills(recs, a)
                              /\ \A m \in D : f[m] = Carried(recs, a, m)
  BY <1>1, RecordsType DEF Bills
<1>3. PICK x : x = Len(recs[a]) + 1
  OBVIOUS
<1>4. PICK g : /\ g = Bills(new, a) /\ \A m \in 1..Len(new[a]) : g[m] = Carried(new, a, m)
               /\ g \in [1..Len(new[a]) -> Int]
  BY RecordsType DEF Bills
<1>5. IsFiniteSet(D) /\ x \notin D /\ Len(recs[a]) \in Nat
  BY <1>1, <1>3, RecordsType
<1>6. /\ g \in [D -> Int] \/ (g \in [D \cup {x} -> Int] /\ g[x] = 0)
      /\ \A m \in D : g[m] = Carried(new, a, m)
      /\ Len(new[a]) = Len(recs[a]) => 1..Len(new[a]) = D
      /\ Len(new[a]) = Len(recs[a]) + 1 => 1..Len(new[a]) = D \cup {x}
  <2>1. CASE Len(new[a]) = Len(recs[a])
    BY <1>1, <1>4, <1>5, <2>1
  <2>2. CASE Len(new[a]) = Len(recs[a]) + 1 /\ Carried(new, a, Len(recs[a]) + 1) = 0
    <3>1. 1..Len(new[a]) = D \cup {x}
      BY <1>1, <1>3, <1>5, <2>2
    <3> QED BY <1>3, <1>4, <1>5, <2>2, <3>1
  <2> QED BY <2>1, <2>2
<1>7. \A m \in D : m # n => g[m] <= f[m]
  BY <1>1, <1>2, <1>6
<1>8. /\ Sum(f) \in Int /\ Sum(g) \in Int
      /\ n \notin D => Sum(g) <= Sum(f)
      /\ n \in D => Sum(g) - g[n] <= Sum(f) - f[n]
  BY <1>5, <1>6, <1>7, SumAtMost
<1>9. CASE n \in D
  BY <1>2, <1>4, <1>6, <1>8, <1>9 DEF Bill
<1>10. CASE n \notin D
  <2>1. Carried(recs, a, n) = 0 /\ Carried(new, a, n) = 0
    BY <1>1, <1>3, <1>6, <1>10, RecordsType DEF Carried
  <2> QED BY <1>2, <1>4, <1>8, <1>10, <2>1 DEF Bill
<1> QED BY <1>9, <1>10

(* A record a transaction does not write keeps its count or is deleted. *)
LEMMA CarriedApply ==
    ASSUME NEW recs \in Records, NEW tx, tx \subseteq Operation, NEW a \in Agreement, NEW n
    PROVE  \/ Carried(Apply(tx, recs), a, n) = Carried(recs, a, n)
           \/ Carried(Apply(tx, recs), a, n) = 0
           \/ \E op \in tx : /\ Writes(op) /\ op.agr = a /\ op.rec = n
                             /\ Carried(Apply(tx, recs), a, n) = op.count
<1>1. PICK new \in Records : new = Apply(tx, recs)
  BY ApplyEffect
<1>2. /\ Len(recs[a]) \in Nat /\ DOMAIN recs[a] = 1..Len(recs[a])
      /\ Len(new[a]) \in Nat /\ DOMAIN new[a] = 1..Len(new[a])
  BY RecordsType
<1>3. CASE n \in 1..Len(recs[a])
  <2>1. \/ new[a][n].state = recs[a][n].state /\ new[a][n].count = recs[a][n].count
        \/ new[a][n].state = "deleted"
        \/ \E op \in tx : Writes(op) /\ op.agr = a /\ op.rec = n /\ new[a][n].count = op.count
    BY <1>1, <1>3, ApplyLands DEF Lands
  <2>2. n \in 1..Len(new[a])
    <3>1. Len(recs[a]) <= Len(new[a])
      BY <1>1, <1>2, ApplyAdvances DEF Advances
    <3> QED BY <1>2, <1>3, <3>1
  <2> QED BY <1>1, <1>2, <1>3, <2>1, <2>2 DEF Carried
<1>4. CASE n \notin 1..Len(recs[a])
  <2>1. Carried(recs, a, n) = 0
    BY <1>2, <1>4 DEF Carried
  <2>2. n \in 1..Len(new[a]) => new[a][n].count = 0
    BY <1>1, <1>4, ApplyAdvances DEF Advances
  <2> QED BY <1>1, <1>2, <2>1, <2>2 DEF Carried
<1> QED BY <1>3, <1>4

(* What a transaction that writes only record n of an agreement bills. *)
LEMMA BillApply ==
    ASSUME NEW recs \in Records, NEW tx, tx \subseteq Operation, NEW a \in Agreement, NEW n,
           \A op \in tx : Writes(op) /\ op.agr = a => op.rec = n
    PROVE  Bill(Apply(tx, recs), a) - Carried(Apply(tx, recs), a, n)
              <= Bill(recs, a) - Carried(recs, a, n)
<1>1. PICK new \in Records : new = Apply(tx, recs)
  BY ApplyEffect
<1>2. Len(recs[a]) \in Nat /\ DOMAIN new[a] = 1..Len(new[a])
  BY RecordsType
<1>3. \/ Len(new[a]) = Len(recs[a])
      \/ Len(new[a]) = Len(recs[a]) + 1 /\ Carried(new, a, Len(recs[a]) + 1) = 0
  <2>1. CASE ~Applies(tx, recs)
    BY <1>1, <2>1, ApplyEffect
  <2>2. CASE Applies(tx, recs)
    <3>1. /\ Len(new[a]) = IF Create(a) \in tx THEN Len(recs[a]) + 1 ELSE Len(recs[a])
          /\ Create(a) \in tx => new[a][Len(recs[a]) + 1] = FreshRecord
      BY <1>1, <2>2, ApplyEffect DEF Effect
    <3> QED BY <1>2, <3>1 DEF Carried, FreshRecord
  <2> QED BY <2>1, <2>2
<1>4. ASSUME NEW m \in 1..Len(recs[a]), m # n PROVE Carried(new, a, m) <= Carried(recs, a, m)
  <2>1. Carried(new, a, m) = Carried(recs, a, m) \/ Carried(new, a, m) = 0
    BY <1>1, <1>4, CarriedApply
  <2>2. Carried(recs, a, m) \in Nat
    BY RecordsType
  <2> QED BY <2>1, <2>2
<1>5. Bill(new, a) - Carried(new, a, n) <= Bill(recs, a) - Carried(recs, a, n)
  BY <1>3, <1>4, BillMoves
<1> QED BY <1>1, <1>5

(* Records within a bound stay so when a transaction writes what was allowed. *)
LEMMA WithinApply ==
    ASSUME NEW recs \in Records, NEW tx, tx \subseteq Operation, NEW a \in Agreement, NEW n,
           NEW w \in Nat, NEW q \in Nat, Within(recs, a, n, w, q),
           \A op \in tx : Writes(op) /\ op.agr = a => op.rec = n /\ op.count = w
    PROVE  Within(Apply(tx, recs), a, n, w, q)
<1>1. PICK new \in Records : new = Apply(tx, recs)
  BY ApplyEffect
<1>2. Bill(new, a) - Carried(new, a, n) <= Bill(recs, a) - Carried(recs, a, n)
  BY <1>1, BillApply
<1>3. Carried(new, a, n) = Carried(recs, a, n) \/ Carried(new, a, n) = 0 \/ Carried(new, a, n) = w
  BY <1>1, CarriedApply
<1>4. /\ Bill(new, a) \in Int /\ Bill(recs, a) \in Int
      /\ Carried(new, a, n) \in Nat /\ Carried(recs, a, n) \in Nat
  BY RecordsType
<1>5. Within(new, a, n, w, q)
  BY <1>2, <1>3, <1>4 DEF Within
<1> QED BY <1>1, <1>5

(* Records that are alike bill the same, now and after a transaction. *)
LEMMA AlikeBills ==
    ASSUME NEW recs \in Records, NEW new \in Records, Alike(recs, new), NEW a \in Agreement
    PROVE  /\ Bill(new, a) = Bill(recs, a)
           /\ \A n : Carried(new, a, n) = Carried(recs, a, n)
<1>1. /\ Len(recs[a]) \in Nat /\ DOMAIN recs[a] = 1..Len(recs[a])
      /\ Len(new[a]) \in Nat /\ DOMAIN new[a] = 1..Len(new[a])
  BY RecordsType
<1>2. \A n : Carried(new, a, n) = Carried(recs, a, n)
  BY <1>1 DEF Carried, Alike, Same
<1>3. Bills(new, a) = Bills(recs, a)
  BY <1>1, <1>2 DEF Bills, Alike, Same
<1> QED BY <1>2, <1>3 DEF Bill

(* A transaction makes of records that are alike records that are alike. *)
LEMMA AlikeApply ==
    ASSUME NEW recs \in Records, NEW new \in Records, Alike(recs, new),
           NEW tx, tx \subseteq Operation,
           \A op \in tx : op.kind # "create" => op.rec \in 1..Len(recs[op.agr])
    PROVE  Alike(Apply(tx, recs), Apply(tx, new))
<1>1. Applies(tx, recs) <=> Applies(tx, new)
  BY DEF Applies, Alike, Same, Operation
<1>2. PICK r \in Records : r = Apply(tx, recs)
  BY ApplyEffect
<1>3. PICK s \in Records : s = Apply(tx, new)
  BY ApplyEffect
<1>4. CASE ~Applies(tx, recs)
  BY <1>1, <1>4, ApplyEffect
<1>5. CASE Applies(tx, recs)
  <2>1. Effect(recs, r, tx) /\ Effect(new, s, tx)
    BY <1>1, <1>2, <1>3, <1>5, ApplyEffect
  <2>2. ASSUME NEW a \in Agreement PROVE Same(r[a], s[a])
    <3>0. /\ Len(recs[a]) \in Nat /\ Len(recs[a]) = Len(new[a])
          /\ \A n \in 1..Len(recs[a]) : recs[a][n] \in CounterRecord /\ new[a][n] \in CounterRecord
      BY RecordsType DEF Alike, Same
    <3>1. /\ Len(r[a]) = IF Create(a) \in tx THEN Len(recs[a]) + 1 ELSE Len(recs[a])
          /\ Len(s[a]) = Len(r[a])
      BY <2>1, <3>0 DEF Effect
    <3>2. ASSUME NEW n \in 1..Len(recs[a])
          PROVE  r[a][n].state = s[a][n].state /\ r[a][n].count = s[a][n].count
      <4>0. /\ recs[a][n].state = new[a][n].state /\ recs[a][n].count = new[a][n].count
            /\ n \in 1..Len(new[a])
        BY <3>0 DEF Alike, Same
      <4>1. CASE Onto(tx, a, n) = {}
        BY <2>1, <4>0, <4>1 DEF Effect
      <4>2. CASE Onto(tx, a, n) # {}
        <5>1. PICK op : op \in Onto(tx, a, n) /\ op = CHOOSE o \in Onto(tx, a, n) : TRUE
          BY <4>2
        <5>2. r[a][n] = Patched(recs[a][n], op) /\ s[a][n] = Patched(new[a][n], op)
          BY <2>1, <4>0, <4>2, <5>1 DEF Effect
        <5>3. op \in Operation /\ op.kind # "create"
          BY <5>1 DEF Onto
        <5> QED BY <3>0, <4>0, <5>2, <5>3 DEF Patched, CounterRecord, Operation
      <4> QED BY <4>1, <4>2
    <3>3. ASSUME NEW n \in 1..Len(r[a]), n \notin 1..Len(recs[a])
          PROVE  r[a][n] = FreshRecord /\ s[a][n] = FreshRecord
      <4>1. Create(a) \in tx /\ n = Len(recs[a]) + 1
        BY <3>0, <3>1, <3>3
      <4> QED BY <2>1, <3>0, <4>1 DEF Effect
    <3> QED BY <3>1, <3>2, <3>3 DEF Same
  <2> QED BY <1>2, <1>3, <2>2 DEF Alike
<1> QED BY <1>4, <1>5

(* A transaction without operations changes nothing. *)
LEMMA ApplyNothing ==
    ASSUME NEW recs \in Records
    PROVE  Apply({}, recs) = recs
<1>1. \A a \in Agreement : recs[a] = [n \in DOMAIN recs[a] |-> recs[a][n]]
  BY DEF Records
<1>2. recs = [a \in Agreement |-> recs[a]]
  BY DEF Records
<1>3. Apply({}, recs) = [a \in Agreement |-> [n \in DOMAIN recs[a] |-> recs[a][n]]]
  BY DEF Apply, Applies
<1> QED BY <1>1, <1>2, <1>3

-----------------------------------------------------------------------------
(* How the chain, what is under way and what is to be sent change together. *)
Rests == /\ Alike(records, records') /\ pending' = pending /\ Flying' = Flying /\ batch' = batch
         /\ records' = records \/ (pc' = pc /\ read' = read)
GivesUp == records' = records /\ pending' = pending /\ Flying' = Flying /\ batch' = {}
Arrives == /\ pending # <<>> /\ records' = Landing /\ pending' = <<>> /\ Flying' = {}
          /\ batch' = batch /\ PendingLands
GetsLost == /\ pending # <<>> /\ records' = records /\ pending' = <<>> /\ Flying' = {}
        /\ batch' = batch /\ PendingDropped
IsAnswered == /\ pending = <<>> /\ Flying = {} /\ pending' = <<>> /\ Flying' = {} /\ batch' = {}
            /\ records' = Apply(batch, records) /\ Applies(batch, records)
            /\ SendAnswered(batch)
GoesUnresolved == /\ pending = <<>> /\ Flying = {} /\ pending' # <<>> /\ Flying' = batch
              /\ batch' = {} /\ pending'[1].by = task /\ records' = records
              /\ SendUnresolved(batch)
NewBatch == /\ batch = {} /\ records' = records /\ pending' = pending /\ Flying' = Flying
            /\ \/ ReconcileAgreements \/ (ReconcileCounters /\ pc' = "counts")
               \/ EndPeriods \/ \E a \in Agreement : Accept(a)

(* What is under way is the one pending transaction, if there is one. *)
LEMMA FlyingFacts ==
    ASSUME IInv, Alone
    PROVE  /\ Flying \subseteq Operation
           /\ \A op \in Flying : Queued(op)
           /\ pending # <<>> => 1 \in DOMAIN pending /\ Flying = Pend(1)
           /\ pending = <<>> => Flying = {}
           /\ \A i \in DOMAIN pending : i = 1 /\ pending # <<>>
           /\ records \in Records /\ Landing \in Records /\ batch \subseteq Operation
           /\ Apply(batch, records) \in Records /\ Apply(batch, Landing) \in Records
<1>1. /\ DOMAIN pending = 1..Len(pending) /\ Len(pending) \in Nat
      /\ \A i \in DOMAIN pending : Pend(i) \subseteq Operation
  BY PendingType
<1>2. pending # <<>> => 1 \in DOMAIN pending
  BY FirstOfSeq DEF IInv, TypeOK
<1>3. \A i \in DOMAIN pending : i = 1 /\ pending # <<>>
  BY <1>1 DEF Alone
<1>4. Flying \subseteq Operation /\ \A op \in Flying : Queued(op)
  BY <1>1, <1>2 DEF Flying, Queued, Pend
<1>5. records \in Records /\ batch \subseteq Operation
  BY DEF IInv, TypeOK, Records
<1> QED BY <1>2, <1>3, <1>4, <1>5, ApplyEffect DEF Flying, Landing, Pend

(* Every step is one of these moves, and at most one write stays unresolved. *)
LEMMA Moves ==
    ASSUME IInv, Phases, Alone, MaxPending <= 1, ~Splits, [Next]_vars
    PROVE  /\ Rests \/ GivesUp \/ Arrives \/ GetsLost \/ IsAnswered \/ GoesUnresolved \/ NewBatch
           /\ Alone'
<1>0. pending \in Seq([ops: SUBSET Operation, by: Task]) /\ Len(pending) \in Nat
  BY LenProperties DEF IInv, TypeOK
<1>1. pending' = pending => Flying' = Flying
  BY DEF Flying
<1>2. ASSUME pending # <<>>, pending' = Tail(pending)
      PROVE  pending' = <<>> /\ Flying' = {} /\ Head(pending) = pending[1]
  <2>1. Len(pending) = 1
    <3>1. 1 \in 1..Len(pending)
      BY <1>2, FlyingFacts, PendingType
    <3>2. PICK k \in Nat : k = Len(pending)
      BY <1>0
    <3>3. k <= 1 /\ 1 \in 1..k
      BY <3>1, <3>2 DEF Alone
    <3>4. k = 1
      BY ONLY <3>3, k \in Nat
    <3> QED BY <3>2, <3>4
  <2>2. Len(Tail(pending)) = 0 /\ Tail(pending) \in Seq([ops: SUBSET Operation, by: Task])
    BY <1>0, <1>2, <2>1, HeadTailProperties
  <2>3. pending' = <<>>
    BY <1>2, <2>2, EmptySeq
  <2> QED BY <1>2, <2>3, PendingShorter DEF Flying
<1>3. CASE PendingLands
  <2>1. pending # <<>> /\ records' = Apply(Head(pending).ops, records) /\ pending' = Tail(pending)
        /\ batch' = batch
    BY <1>3 DEF PendingLands, flushVars
  <2>2. records' = Landing /\ pending' = <<>> /\ Flying' = {}
    BY <1>2, <2>1 DEF Landing, Flying
  <2> QED BY <1>3, <2>1, <2>2 DEF Arrives, Alone
<1>4. CASE PendingDropped
  <2>1. pending # <<>> /\ records' = records /\ pending' = Tail(pending) /\ batch' = batch
    BY <1>4 DEF PendingDropped, flushVars
  <2> QED BY <1>2, <1>4, <2>1 DEF GetsLost, Alone
<1>5. Chunks = {batch} /\ batch \ batch = {}
  BY DEF Chunks
<1>6. CASE SendAnswered(batch)
  <2>1. pending = <<>> /\ pending' = pending /\ batch' = {}
    BY <1>5, <1>6 DEF SendAnswered
  <2> QED BY <1>1, <1>6, <2>1 DEF IsAnswered, SendAnswered, Flying, Alone
<1>7. CASE SendUnresolved(batch)
  <2>1. Len(pending) = 0
    <3>1. Len(pending) < MaxPending
      BY <1>7 DEF SendUnresolved
    <3> QED BY <1>0, <3>1, CountersAssumption
  <2>2. pending = <<>>
    BY <1>0, <2>1, EmptySeq
  <2>3. pending' = <<[ops |-> batch, by |-> task]>>
    BY <1>7, <2>2 DEF SendUnresolved
  <2>4. pending' # <<>> /\ pending'[1].ops = batch /\ pending'[1].by = task /\ Len(pending') = 1
    BY <2>3
  <2> QED BY <1>5, <1>7, <2>2, <2>4 DEF GoesUnresolved, SendUnresolved, Flying, Alone
<1>8. CASE SendFailed(batch)
  BY <1>1, <1>5, <1>8 DEF GivesUp, SendFailed, chainVars, Alone
<1>9. CASE Crash \/ Exit \/ ReadFails
  BY <1>1, <1>9 DEF GivesUp, Crash, Exit, ReadFails, NoFlush, chainVars, Alone
<1>10. CASE \E a \in Agreement : \E n \in DOMAIN records[a] : PeriodEnds(a, n)
  <2>0. PICK a \in Agreement : \E n \in DOMAIN records[a] : PeriodEnds(a, n)
    BY <1>10
  <2>1. PICK n \in DOMAIN records[a] : PeriodEnds(a, n)
    BY <2>0
  <2>2. records \in Records /\ records[a] \in Seq(CounterRecord)
        /\ DOMAIN records[a] = 1..Len(records[a]) /\ records[a][n] \in CounterRecord
    BY DEF IInv, TypeOK, Records
  <2>3. PICK r : r = [records[a][n] EXCEPT !.over = TRUE]
    OBVIOUS
  <2>4. r \in CounterRecord /\ r.count = records[a][n].count /\ r.state = records[a][n].state
    BY <2>2, <2>3 DEF CounterRecord
  <2>5. records' = [records EXCEPT ![a] = [records[a] EXCEPT ![n] = r]]
    BY <2>1, <2>2, <2>3 DEF PeriodEnds, Records
  <2>6. PICK s : s = [records[a] EXCEPT ![n] = r]
    OBVIOUS
  <2>7. s \in Seq(CounterRecord) /\ Len(s) = Len(records[a])
        /\ \A j \in 1..Len(records[a]) : s[j] = IF j = n THEN r ELSE records[a][j]
    BY <2>2, <2>4, <2>6, ExceptSeq
  <2>8. \A b \in Agreement : records'[b] = IF b = a THEN s ELSE records[b]
    BY <2>2, <2>5, <2>6 DEF Records
  <2>9. Alike(records, records')
    BY <2>4, <2>7, <2>8 DEF Alike, Same
  <2> QED BY <1>1, <2>1, <2>9 DEF Rests, PeriodEnds, flushVars, Alone
<1>11. Alike(records, records)
  BY DEF Alike, Same
<1>12. CASE ReconcileAgreements \/ EndPeriods \/ (\E a \in Agreement : Accept(a))
            \/ (ReconcileCounters /\ pc' = "counts")
  <2>1. batch = {} /\ records' = records /\ pending' = pending
    BY <1>12 DEF ReconcileAgreements, EndPeriods, Accept, ReconcileCounters, chainVars,
       Phases
  <2> QED BY <1>1, <1>12, <2>1 DEF NewBatch, Alone
<1>13. CASE UNCHANGED <<records, pending, batch>>
  BY <1>1, <1>11, <1>13 DEF Rests, Alone
<1> QED BY <1>3, <1>4, <1>5, <1>6, <1>7, <1>8, <1>9, <1>10, <1>12, <1>13
  DEF Next, vars, chainVars, flushVars, RecordServed, AgreementExpires, Start, SkipAgreements,
      Flush, ShutdownFlush, ReadOpenCounters, ReconcileCounters, EndFlush, AcceptUnresolved,
      Accepted, EndPoll

-----------------------------------------------------------------------------
(* A transaction that applies has the effect of an operation on each record it
   names. *)
LEMMA OntoEffect ==
    ASSUME NEW recs \in Records, NEW tx, tx \subseteq Operation, Applies(tx, recs),
           NEW a \in Agreement, NEW n \in 1..Len(recs[a]),
           NEW op \in tx, op.kind # "create", op.agr = a, op.rec = n
    PROVE  \E o \in tx : /\ o.kind # "create" /\ o.agr = a /\ o.rec = n
                         /\ Apply(tx, recs)[a][n] = Patched(recs[a][n], o)
<1>1. op \in Onto(tx, a, n)
  BY DEF Onto
<1>2. PICK o : o \in Onto(tx, a, n) /\ o = CHOOSE p \in Onto(tx, a, n) : TRUE
  BY <1>1
<1>3. Apply(tx, recs)[a][n] = Patched(recs[a][n], o)
  BY <1>1, <1>2, ApplyEffect DEF Effect
<1> QED BY <1>2, <1>3 DEF Onto

(* A deleted record stays deleted. *)
LEMMA DeletedStays ==
    ASSUME NEW recs \in Records, NEW tx, tx \subseteq Operation,
           NEW a \in Agreement, NEW n \in 1..Len(recs[a]), recs[a][n].state = "deleted"
    PROVE  Apply(tx, recs)[a][n].state = "deleted"
<1>1. CASE ~Applies(tx, recs)
  BY <1>1, ApplyEffect
<1>2. CASE Applies(tx, recs)
  <2>1. Onto(tx, a, n) = {}
    BY <1>2 DEF Onto, Applies
  <2> QED BY <1>2, <2>1, ApplyEffect DEF Effect
<1> QED BY <1>1, <1>2

(* A transaction leaves the agreements alone that it does not name. *)
LEMMA OthersStay ==
    ASSUME NEW recs \in Records, NEW tx, tx \subseteq Operation, NEW a \in Agreement,
           \A op \in tx : op.agr # a
    PROVE  Same(recs[a], Apply(tx, recs)[a])
<1>1. CASE ~Applies(tx, recs)
  BY <1>1, ApplyEffect DEF Same
<1>2. CASE Applies(tx, recs)
  <2>1. Create(a) \notin tx /\ \A n : Onto(tx, a, n) = {}
    BY DEF Create, Onto
  <2>2. /\ Len(Apply(tx, recs)[a]) = Len(recs[a])
        /\ \A n \in 1..Len(recs[a]) : Apply(tx, recs)[a][n] = recs[a][n]
    BY <1>2, <2>1, ApplyEffect DEF Effect
  <2> QED BY <2>2 DEF Same
<1> QED BY <1>1, <1>2

(* A close that deletes what else is open leaves nothing open. *)
LEMMA TidyCloses ==
    ASSUME NEW recs \in Records, NEW tx, tx \subseteq Operation, Applies(tx, recs),
           OneWrite(tx), NEW a \in Agreement,
           NEW c \in tx, c.kind = "close", c.agr = a, Create(a) \notin tx,
           \A m \in Open(recs, a) : m # c.rec =>
               \E d \in tx : d.kind = "delete" /\ d.agr = a /\ d.rec = m
    PROVE  Open(Apply(tx, recs), a) = {}
<1>1. PICK new \in Records : new = Apply(tx, recs)
  BY ApplyEffect
<1>2. /\ Len(recs[a]) \in Nat /\ DOMAIN recs[a] = 1..Len(recs[a])
      /\ DOMAIN new[a] = 1..Len(new[a]) /\ Len(new[a]) = Len(recs[a])
      /\ \A n \in 1..Len(recs[a]) : recs[a][n] \in CounterRecord
  BY <1>1, RecordsType, ApplyEffect DEF Effect
<1>3. ASSUME NEW m \in 1..Len(recs[a]), new[a][m].state = "open" PROVE FALSE
  <2>1. recs[a][m].state = "open"
    BY <1>1, <1>3, ApplyAdvances DEF Advances
  <2>2. PICK d \in tx : d.kind \in {"delete", "close"} /\ d.agr = a /\ d.rec = m
    BY <1>2, <2>1 DEF Open
  <2>3. PICK o \in tx : /\ o.kind # "create" /\ o.agr = a /\ o.rec = m
                        /\ new[a][m] = Patched(recs[a][m], o)
    BY <1>1, <2>2, OntoEffect
  <2>4. o.kind = "count" => o = c
    BY <2>3 DEF OneWrite, Writes
  <2>5. o.kind \in {"delete", "close"}
    BY <2>3, <2>4 DEF Operation
  <2> QED BY <1>2, <1>3, <2>3, <2>5 DEF Patched, CounterRecord
<1> QED BY <1>1, <1>2, <1>3 DEF Open

(* What a batch of counts holds. *)
LEMMA CountsBatchShape ==
    ASSUME IInv, NEW s, NEW op \in CountsBatch(s)
    PROVE  \/ op.agr \in known /\ op \in CountOperations(op.agr, s[op.agr])
           \/ op.kind = "delete" /\ op.agr \in Agreement /\ op.rec \in Duplicates(read, op.agr)
              /\ task # "stop"
           \/ op.agr \in Agreement \ known /\ Oldest(read, op.agr) # 0
              /\ op = StrayOperation(op.agr) /\ task # "stop"
<1>0. known \subseteq Agreement
  BY DEF IInv, TypeOK
<1>1. CASE op \in DuplicateDeletes /\ task # "stop"
  BY <1>1 DEF DuplicateDeletes, DuplicateOperations, Delete
<1>2. CASE op \in StrayOperations /\ task # "stop"
  BY <1>2 DEF StrayOperations, Strays, StrayOperation, Delete, Close
<1>3. ASSUME NEW a \in known, op \in CountOperations(a, s[a]) PROVE op.agr = a
  BY <1>3 DEF CountOperations, Create, Close, Count
<1> QED BY <1>1, <1>2, <1>3 DEF CountsBatch, Housekeeping

(* The operation of an agreement that is counted, and of a stray. *)
LEMMA CountedShape ==
    ASSUME NEW a, NEW s, NEW op \in CountOperations(a, s)
    PROVE  /\ op.agr = a /\ op.kind # "delete"
           /\ op.kind = "create" => op = Create(a) /\ Oldest(read, a) = 0
           /\ Writes(op) => op.rec = Oldest(read, a) /\ op.rec # 0 /\ op.count = s
           /\ op.kind = "close" => task = "flush"
BY DEF CountOperations, PeriodIsOver, Create, Close, Count, Writes

(* The operation of a stray closes its record with what it carries. *)
LEMMA StrayShape ==
    ASSUME NEW a, NEW op, op = StrayOperation(a)
    PROVE  /\ op.agr = a /\ op.kind \in {"delete", "close"} /\ op.rec = Oldest(read, a)
           /\ Writes(op) => op.count = read[a][Oldest(read, a)].count
BY DEF StrayOperation, Delete, Close, Writes

-----------------------------------------------------------------------------
(* What memory does while a reconcile has read and not yet matched. *)
LEMMA MatchMoves ==
    ASSUME IInv, Phases, Alone, MaxPending <= 1, ~Splits, [Next]_vars, pc' = "match"
    PROVE  \/ /\ ReadOpenCounters /\ read' = records /\ records' = records
              /\ pending' = pending /\ Flying' = Flying /\ task' = task /\ known' = known
              /\ counter' = counter /\ served' = served /\ answered' = answered
           \/ /\ pc = "match" /\ read' = read /\ known' = known /\ counter' = counter
              /\ task' = task
              /\ Rests \/ Arrives \/ GetsLost
              /\ \/ served' = served /\ answered' = answered
                 \/ \E b \in Agreement : RecordServed(b)
<1>1. CASE ReadOpenCounters
  BY <1>1 DEF ReadOpenCounters, chainVars, memVars, Flying
<1>2. CASE ~ReadOpenCounters
  <2>1. pc = "match" /\ batch = {}
    BY <1>2, MatchFrom DEF Phases
  <2>2. /\ read' = read /\ known' = known /\ counter' = counter
    BY <1>2, MatchFrom
  <2>3. /\ task' = task
        /\ \/ served' = served /\ answered' = answered
           \/ \E b \in Agreement : RecordServed(b)
        /\ ~NewBatch
    BY <1>2, <2>1 DEF Next, vars, memVars, flushVars, Sending, PeriodEnds, AgreementExpires,
     RecordServed, PendingLands, PendingDropped, Start, Crash, Exit, ReconcileAgreements,
     SkipAgreements, Flush, ShutdownFlush, ReadFails, ReconcileCounters, SendFailed,
     SendAnswered, SendUnresolved, EndPeriods, EndFlush, Accept, AcceptUnresolved, Accepted,
     EndPoll, NewBatch
  <2>4. ~IsAnswered /\ ~GoesUnresolved
    BY <2>1 DEF IsAnswered, GoesUnresolved, SendAnswered, SendUnresolved, Sending
  <2>5. GivesUp => Rests
    BY <2>1 DEF GivesUp, Rests, Alike, Same
  <2> QED BY <2>1, <2>2, <2>3, <2>4, <2>5, Moves
<1> QED BY <1>1, <1>2

(* Memory holds a record it held, one that was read, or the one it created. *)
LEMMA CounterFrom ==
    ASSUME IInv, ~Splits, [Next]_vars, NEW a \in Agreement, counter'[a] # 0
    PROVE  \/ counter'[a] = counter[a]
           \/ /\ ReconcileCounters /\ a \in known /\ counter'[a] = Oldest(read, a)
              /\ records' = records
           \/ /\ SendAnswered(batch) /\ pc = "accept" /\ Create(a) \in batch
              /\ counter'[a] = Len(records[a]) + 1
<1>1. CASE Crash \/ Exit \/ ReadFails
  BY <1>1 DEF Crash, Exit, ReadFails, Forget, memVars
<1>2. CASE ReconcileAgreements
  BY <1>2 DEF ReconcileAgreements
<1>3. CASE ReconcileCounters
  BY <1>3 DEF ReconcileCounters, MatchedCounter, chainVars
<1>4. ASSUME NEW tx \in Chunks, SendAnswered(tx)
      PROVE  \/ counter'[a] = counter[a]
             \/ /\ SendAnswered(batch) /\ pc = "accept" /\ Create(a) \in batch
                /\ counter'[a] = Len(records[a]) + 1
  <2>1. tx = batch
    BY DEF Chunks
  <2>2. SendAnswered(batch)
    BY <1>4, <2>1
  <2>3. counter'[a] = IF pc = "accept" /\ Create(a) \in batch THEN Len(records[a]) + 1
                      ELSE counter[a]
    BY <2>2 DEF SendAnswered
  <2> QED BY <2>2, <2>3
<1>5. CASE EndPeriods
  <2> DEFINE agrs == {c.agr : c \in {d \in closing : <<d.agr, d.rec>> \in landed}}
  <2>1. counter' = [b \in Agreement |-> IF b \in agrs THEN 0 ELSE counter[b]]
    BY <1>5 DEF EndPeriods
  <2> HIDE DEF agrs
  <2> QED BY <2>1
<1>6. CASE counter' = counter
  BY <1>6
<1> QED BY <1>1, <1>2, <1>3, <1>4, <1>5, <1>6
  DEF Next, vars, memVars, RecordServed, PeriodEnds, AgreementExpires, PendingLands, PendingDropped,
     Start, SkipAgreements, Flush, ShutdownFlush, ReadOpenCounters, SendFailed, SendUnresolved,
     EndFlush, Accept, AcceptUnresolved, Accepted, EndPoll

(* Alike records are alike through a third. *)
LEMMA AlikeOn ==
    ASSUME NEW r, NEW s, NEW t, Same(r, s), Same(s, t)
    PROVE  Same(r, t)
BY DEF Same

(* Nothing is counted for an agreement memory does not know. *)
LEMMA ServedKnownStep ==
    ASSUME IInv, Phases, ServedKnown, [Next]_vars
    PROVE  ServedKnown'
<1>0. served \in [Agreement -> Nat] /\ closing \subseteq Operation
  BY DEF IInv, TypeOK
<1>1. task' = "down" => known' = {}
  BY DEF Phases, ServedKnown, Next, vars, memVars, flushVars, PeriodEnds, AgreementExpires,
     RecordServed, PendingLands, PendingDropped, Start, Crash, Exit, Forget, ReconcileAgreements,
     SkipAgreements, Flush, ShutdownFlush, ReadFails, ReadOpenCounters, ReconcileCounters,
     SendFailed, SendAnswered, SendUnresolved, EndPeriods, EndFlush, Accept, AcceptUnresolved,
     Accepted, EndPoll
<1>2. ASSUME NEW a \in Agreement, served'[a] # 0 PROVE a \in known'
  <2>1. CASE served'[a] = served[a] /\ known \subseteq known'
    BY <1>2, <2>1 DEF ServedKnown
  <2>2. CASE Start
    BY <1>2, <2>2 DEF Start, ServedKnown
  <2>3. CASE Crash \/ Exit \/ ReadFails
    BY <1>2, <2>1, <2>3 DEF Crash, Exit, ReadFails, Forget, memVars
  <2>4. CASE ReconcileAgreements
    BY <1>2, <2>4 DEF ReconcileAgreements
  <2>5. CASE ReconcileCounters
    BY <1>2, <2>1, <2>5 DEF ReconcileCounters, MatchedServed
  <2>6. ASSUME NEW b \in Agreement, RecordServed(b) PROVE a \in known'
    BY <1>0, <1>2, <2>1, <2>6 DEF RecordServed
  <2>7. CASE EndPeriods
    <3> DEFINE ended == {c \in closing : <<c.agr, c.rec>> \in landed}
               agrs == {c.agr : c \in ended}
               x == (CHOOSE c \in ended : c.agr = a).count
    <3>1. /\ served'[a] = IF a \in agrs THEN SaturatingSub(served[a], x) ELSE served[a]
          /\ known' = known
      BY <2>7 DEF EndPeriods
    <3>2. ASSUME a \in agrs PROVE x \in Nat
      <4>1. \E c \in ended : c.agr = a
        BY <3>2
      <4>2. (CHOOSE c \in ended : c.agr = a) \in ended
        BY <4>1
      <4> QED BY <1>0, <4>2 DEF Operation
    <3> HIDE DEF ended, agrs, x
    <3>3. served[a] # 0
      BY <1>0, <1>2, <3>1, <3>2 DEF SaturatingSub
    <3> QED BY <3>1, <3>3 DEF ServedKnown
  <2> QED BY <2>1, <2>2, <2>3, <2>4, <2>5, <2>6, <2>7
    DEF Next, vars, memVars, PeriodEnds, AgreementExpires, PendingLands, PendingDropped,
     SkipAgreements, Flush, ShutdownFlush, ReadOpenCounters, SendFailed, SendAnswered,
     SendUnresolved, EndFlush, Accept, AcceptUnresolved, Accepted, EndPoll
<1> QED BY <1>1, <1>2 DEF ServedKnown

(* What was read is what is there, or nothing is under way any more. *)
LEMMA ReadNowStep ==
    ASSUME IInv, Phases, Alone, ReadNow, MaxPending <= 1, ~Splits, [Next]_vars
    PROVE  ReadNow'
<1> SUFFICES ASSUME pc' = "match"
             PROVE  /\ pending' # <<>> => Alike(read', records')
                    /\ \A a \in Agreement : \A n \in 1..Len(read'[a]) :
                          read'[a][n].state = "deleted" => records'[a][n].state = "deleted"
  BY DEF ReadNow, Alike, Same
<1>1. CASE read' = records /\ records' = records
  BY <1>1 DEF Alike, Same
<1>2. CASE pc = "match" /\ read' = read /\ (Rests \/ Arrives \/ GetsLost)
  <2>1. ASSUME NEW a \in Agreement, NEW n \in 1..Len(read[a])
        PROVE  n \in 1..Len(records[a])
    <3>1. Len(read[a]) <= Len(records[a]) /\ Len(read[a]) \in Nat /\ Len(records[a]) \in Nat
      BY DEF IInv, ReadIsPast, TypeOK
    <3> QED BY <3>1
  <2>2. CASE Rests
    <3>1. ASSUME Alike(read, records) PROVE Alike(read, records')
      BY <2>2, <3>1, AlikeOn DEF Alike, Rests
    <3>2. ASSUME NEW a \in Agreement, NEW n \in 1..Len(read[a]), read[a][n].state = "deleted"
          PROVE  records'[a][n].state = "deleted"
      <4>1. records[a][n].state = "deleted" /\ n \in 1..Len(records[a])
        BY <1>2, <2>1, <3>2 DEF ReadNow
      <4> QED BY <2>2, <4>1 DEF Rests, Alike, Same
    <3> QED BY <1>2, <2>2, <3>1, <3>2 DEF ReadNow, Rests
  <2>3. CASE Arrives
    <3>1. ASSUME NEW a \in Agreement, NEW n \in 1..Len(read[a]), read[a][n].state = "deleted"
          PROVE  records'[a][n].state = "deleted"
      <4>1. records[a][n].state = "deleted" /\ n \in 1..Len(records[a])
        BY <1>2, <2>1, <3>1 DEF ReadNow
      <4>2. records \in Records /\ Flying \subseteq Operation
        BY FlyingFacts
      <4> QED BY <2>3, <4>1, <4>2, DeletedStays DEF Arrives, Landing
    <3> QED BY <1>2, <2>3, <3>1 DEF Arrives
  <2>4. CASE GetsLost
    BY <1>2, <2>4 DEF ReadNow, GetsLost
  <2> QED BY <1>2, <2>2, <2>3, <2>4
<1> QED BY <1>1, <1>2, MatchMoves

(* An eldest record that is open is the oldest of a read. *)
LEMMA EldestIsOldest ==
    ASSUME NEW recs \in Records, NEW a \in Agreement, NEW n \in 1..Len(recs[a]),
           recs[a][n].state = "open", Eldest(recs, a, n)
    PROVE  Oldest(recs, a) = n
<1>1. n \in Open(recs, a) /\ Open(recs, a) \subseteq 1..Len(recs[a]) /\ Len(recs[a]) \in Nat
  BY RecordsType DEF Open
<1>2. ASSUME NEW m \in Open(recs, a) PROVE n <= m
  <2>1. recs[a][m].state = "open" /\ m \in Nat
    BY <1>1 DEF Open
  <2>2. ~(m \in 1..(n - 1))
    BY <2>1 DEF Eldest
  <2>3. m \in 1..Len(recs[a])
    BY <1>1
  <2> QED BY <1>1, <2>2, <2>3
<1>3. PICK k : k = CHOOSE j \in Open(recs, a) : \A m \in Open(recs, a) : j <= m
  OBVIOUS
<1>4. k \in Open(recs, a) /\ \A m \in Open(recs, a) : k <= m
  BY <1>1, <1>2, <1>3
<1>5. Oldest(recs, a) = k
  BY <1>1, <1>3 DEF Oldest
<1>6. k \in Nat /\ n \in Nat /\ k <= n /\ n <= k
  BY <1>1, <1>2, <1>4
<1> QED BY <1>5, <1>6

(* A read shows memory's record as the oldest, or closed or deleted. *)
LEMMA ReadCounterStep ==
    ASSUME IInv, Phases, Alone, ClosedClean, ReadCounter, MaxPending <= 1, ~Splits, [Next]_vars
    PROVE  ReadCounter'
<1> SUFFICES ASSUME pc' = "match", NEW a \in Agreement, counter'[a] # 0
             PROVE  /\ counter'[a] \in 1..Len(read'[a])
                    /\ \/ Oldest(read', a) = counter'[a]
                       \/ read'[a][counter'[a]].state = "closed" /\ Oldest(read', a) = 0
                       \/ read'[a][counter'[a]].state = "deleted"
  BY DEF ReadCounter, Oldest, Open
<1>1. CASE read' = records /\ counter' = counter
  <2>0. records \in Records
    BY DEF IInv, TypeOK, Records
  <2>1. /\ counter[a] \in 1..Len(records[a]) /\ Eldest(records, a, counter[a])
        /\ Len(records[a]) \in Nat
    BY <1>1, <2>0, RecordsType DEF IInv, RefsExist, EldestCount
  <2>2. records[a][counter[a]].state \in {"open", "closed", "deleted"}
    BY <2>0, <2>1, RecordsType DEF CounterRecord
  <2>3. records[a][counter[a]].state = "closed" => Oldest(records, a) = 0
    BY <1>1 DEF ClosedClean, Oldest
  <2>4. records[a][counter[a]].state = "open" => Oldest(records, a) = counter[a]
    BY <2>0, <2>1, EldestIsOldest
  <2> QED BY <1>1, <2>1, <2>2, <2>3, <2>4
<1>2. CASE pc = "match" /\ read' = read /\ counter' = counter
  BY <1>2 DEF ReadCounter
<1> QED BY <1>1, <1>2, MatchMoves

(* A flush finds nothing under way of an agreement it counts for. *)
LEMMA FlushReadStep ==
    ASSUME IInv, Phases, FlushAlone, PollWrites, Alone, Creates, FlushRead,
           MaxPending <= 1, ~Splits, [Next]_vars
    PROVE  FlushRead'
<1> SUFFICES ASSUME task' = "flush", pc' = "match", NEW a \in known', Oldest(read', a) # 0
             PROVE  /\ Same(read'[a], records'[a])
                    /\ \A o \in Flying' : o.agr # a
  BY DEF FlushRead, Same, Oldest, Open
<1>0. known \subseteq Agreement
  BY DEF IInv, TypeOK
<1>1. CASE /\ ReadOpenCounters /\ read' = records /\ records' = records /\ pending' = pending
           /\ Flying' = Flying /\ task' = task /\ known' = known
  <2>1. pc = "counters"
    BY <1>1 DEF ReadOpenCounters, AboutToRead, Phases
  <2>2. ASSUME NEW o \in Flying, o.agr = a PROVE FALSE
    <3>1. /\ pending # <<>> /\ 1 \in DOMAIN pending /\ o \in Pend(1) /\ o \in Operation
      BY FlyingFacts
    <3>2. pending[1].by = "poll"
      BY <1>1, <2>1, <3>1 DEF FlushAlone
    <3>3. o.kind = "create"
      BY <1>1, <2>2, <3>1, <3>2 DEF PollWrites
    <3>4. records[a] = <<>>
      BY <1>0, <1>1, <2>2, <3>1, <3>2, <3>3 DEF Creates
    <3>5. a \in Agreement /\ records \in Records
      BY <1>0, <1>1, FlyingFacts
    <3>6. Oldest(records, a) \in 1..Len(records[a])
      BY <1>1, <3>5, OldestIsOpen
    <3> QED BY <3>4, <3>6
  <2> QED BY <1>1, <2>2 DEF Same
<1>2. CASE /\ pc = "match" /\ read' = read /\ known' = known /\ task' = task
           /\ Rests \/ Arrives \/ GetsLost
  <2>1. Same(read[a], records[a]) /\ \A o \in Flying : o.agr # a
    BY <1>2 DEF FlushRead
  <2>2. a \in Agreement
    BY <1>0, <1>2
  <2>3. CASE Rests
    BY <1>2, <2>1, <2>2, <2>3, AlikeOn DEF Rests, Alike
  <2>4. CASE Arrives
    <3>1. Same(records[a], Landing[a])
      BY <2>1, <2>2, FlyingFacts, OthersStay DEF Landing
    <3> QED BY <1>2, <2>1, <2>4, <3>1, AlikeOn DEF Arrives
  <2>5. CASE GetsLost
    BY <1>2, <2>1, <2>5 DEF GetsLost
  <2> QED BY <1>2, <2>3, <2>4, <2>5
<1> QED BY <1>1, <1>2, MatchMoves

(* A record that carries nothing and is not written carries nothing. *)
LEMMA UnwrittenStays ==
    ASSUME NEW recs \in Records, NEW tx, tx \subseteq Operation, NEW a \in Agreement,
           NEW n \in 1..Len(recs[a]), recs[a][n].count = 0,
           \A o \in tx : Writes(o) /\ o.agr = a => o.rec # n
    PROVE  Apply(tx, recs)[a][n].count = 0
<1>1. PICK new : new = Apply(tx, recs)
  OBVIOUS
<1>2. Advances(recs, new, tx) /\ new \in Records
  BY <1>1, ApplyAdvances
<1>3. n \in 1..Len(new[a])
  <2>1. Len(new[a]) >= Len(recs[a]) /\ Len(new[a]) \in Nat /\ Len(recs[a]) \in Nat
    BY <1>2, RecordsType DEF Advances
  <2> QED BY <2>1
<1>4. new[a][n].count = 0
  BY <1>2, <1>3 DEF Advances, Writes
<1> QED BY <1>1, <1>4

(* Records that are alike have the same records open. *)
LEMMA SameOpen ==
    ASSUME NEW recs \in Records, NEW new \in Records, NEW a \in Agreement,
           Same(recs[a], new[a])
    PROVE  Open(recs, a) = Open(new, a)
BY RecordsType DEF Same, Open

(* What is under way and to be sent names records that exist. *)
LEMMA HeldRefs ==
    ASSUME IInv, Alone, NEW o \in batch \cup Flying
    PROVE  /\ o \in Operation /\ o.agr \in Agreement /\ o.agr \in spent
           /\ o.kind # "create" => o.rec \in 1..Len(records[o.agr])
           /\ Writes(o) => Eldest(records, o.agr, o.rec)
<1>1. Queued(o) /\ o \in Operation
  BY FlyingFacts DEF Queued
<1> QED BY <1>1 DEF IInv, RefsExist, EldestCount, Operation, Writes

(* A flush does not write into a closed record, nor beside what is under way. *)
LEMMA FlushWritesStep ==
    ASSUME IInv, Phases, Alone, FlushRead, FlushWrites, MaxPending <= 1, ~Splits, [Next]_vars
    PROVE  FlushWrites'
<1> SUFFICES ASSUME task' = "flush", NEW o \in batch', Writes(o), o.agr \in known'
             PROVE  /\ records'[o.agr][o.rec].state # "closed"
                    /\ \A p \in Flying' : p.agr # o.agr
  BY DEF FlushWrites, Writes
<1>0. MatchedServed \in [Agreement -> Nat] /\ known \subseteq Agreement /\ records \in Records
  BY MatchedTypes DEF IInv, TypeOK, Records
<1>1. CASE ReconcileAgreements
  BY <1>1 DEF ReconcileAgreements
<1>2. CASE ReconcileCounters /\ pc' = "counts" /\ batch' = CountsBatch(MatchedServed)
  <2>1. /\ known' = known /\ records' = records /\ pending' = pending /\ Flying' = Flying
        /\ pc = "match" /\ task = "flush"
    BY <1>2 DEF ReconcileCounters, chainVars, Flying
  <2>2. o \in CountOperations(o.agr, MatchedServed[o.agr])
    BY <1>0, <1>2, <2>1, CountsShape
  <2>3. o.rec = Oldest(read, o.agr) /\ o.rec # 0
    BY <2>2, CountedShape
  <2>4. Same(read[o.agr], records[o.agr]) /\ \A p \in Flying : p.agr # o.agr
    BY <2>1, <2>3 DEF FlushRead
  <2>5. read \in Records /\ o.agr \in Agreement
    BY <1>0, <2>1 DEF IInv, TypeOK, Records
  <2>6. o.rec \in 1..Len(read[o.agr]) /\ read[o.agr][o.rec].state = "open"
    BY <2>3, <2>5, OldestIsOpen
  <2> QED BY <2>1, <2>4, <2>6 DEF Same
<1>3. CASE \A op \in batch' : \E a : op = Create(a)
  BY <1>3 DEF Create, Writes
<1>4. CASE batch' \subseteq batch /\ known' \subseteq known
  <2>1. task = "flush"
    <3>1. batch # {}
      BY <1>4
    <3> QED BY <3>1 DEF Phases, Next, vars, PeriodEnds, AgreementExpires,
     RecordServed, PendingLands, PendingDropped, Start, Crash, Exit, ReconcileAgreements,
     SkipAgreements, Flush, ShutdownFlush, ReadFails, ReadOpenCounters, ReconcileCounters,
     SendFailed, SendAnswered, SendUnresolved, EndPeriods, EndFlush, Accept, AcceptUnresolved,
     Accepted, EndPoll
  <2>2. records[o.agr][o.rec].state # "closed" /\ \A p \in Flying : p.agr # o.agr
    BY <1>4, <2>1 DEF FlushWrites
  <2>3. o.agr \in Agreement /\ o.rec \in 1..Len(records[o.agr])
    BY <1>4, HeldRefs DEF Writes
  <2>4. CASE Rests
    BY <2>2, <2>3, <2>4 DEF Rests, Alike, Same
  <2>5. CASE Arrives
    <3>1. Same(records[o.agr], Landing[o.agr])
      BY <2>2, <2>3, FlyingFacts, OthersStay DEF Landing
    <3> QED BY <2>2, <2>3, <2>5, <3>1 DEF Arrives, Same
  <2>6. CASE GetsLost
    BY <2>2, <2>6 DEF GetsLost
  <2>7. ~GivesUp /\ ~IsAnswered /\ ~GoesUnresolved /\ ~NewBatch
    BY <1>4 DEF GivesUp, IsAnswered, GoesUnresolved, NewBatch
  <2> QED BY <2>4, <2>5, <2>6, <2>7, Moves
<1> QED BY <1>1, <1>2, <1>3, <1>4, BatchFrom

(* A batch writes one record of an agreement. *)
LEMMA OneWritesStep ==
    ASSUME IInv, Phases, Alone, OneWrites, MaxPending <= 1, ~Splits, [Next]_vars
    PROVE  OneWrites'
<1>1. Flying' \in {Flying, {}, batch}
  BY Moves DEF Rests, GivesUp, Arrives, GetsLost, IsAnswered, GoesUnresolved, NewBatch
<1>2. OneWrite(Flying')
  BY <1>1 DEF OneWrites, OneWrite
<1>3. OneWrite(batch')
  <2>1. CASE ReconcileAgreements
    <3> DEFINE end(a) == IF served[a] = 0 THEN Delete(a, counter[a])
                         ELSE Close(a, counter[a], served[a])
    <3>1. \A o \in batch' : \E a : o = end(a)
      BY <2>1 DEF ReconcileAgreements
    <3>2. \A a : end(a).agr = a
      BY DEF Delete, Close
    <3> HIDE DEF end
    <3> QED BY <3>1, <3>2 DEF OneWrite
  <2>2. CASE batch' = CountsBatch(MatchedServed)
    <3> SUFFICES ASSUME NEW o \in batch', NEW p \in batch', Writes(o), Writes(p), o.agr = p.agr
                 PROVE  o = p
      BY DEF OneWrite
    <3>1. \A x \in {o, p} :
             \/ x.agr \in known /\ x \in CountOperations(x.agr, MatchedServed[x.agr])
             \/ x.agr \notin known /\ x = StrayOperation(x.agr)
      <4> TAKE x \in {o, p}
      <4>1. x \in CountsBatch(MatchedServed) /\ x.kind # "delete"
        BY <2>2 DEF Writes
      <4> QED BY <4>1, CountsBatchShape
    <3>2. CASE o.agr \in known
      BY <3>1, <3>2, CountOperationsShape
    <3>3. CASE o.agr \notin known
      BY <3>1, <3>3
    <3> QED BY <3>2, <3>3
  <2>3. CASE \A op \in batch' : \E a : op = Create(a)
    BY <2>3 DEF OneWrite, Writes, Create
  <2>4. CASE batch' \subseteq batch
    BY <2>4 DEF OneWrite, OneWrites
  <2> QED BY <2>1, <2>2, <2>3, <2>4, BatchFrom
<1> QED BY <1>2, <1>3 DEF OneWrites, OneWrite, Writes

(* The younger records of a read carry nothing and are not written. *)
LEMMA DuplicateReadStep ==
    ASSUME IInv, Phases, Alone, DuplicateRead, MaxPending <= 1, ~Splits, [Next]_vars
    PROVE  DuplicateRead'
<1> SUFFICES ASSUME pc' = "match", NEW a \in Agreement, NEW n \in Duplicates(read', a)
             PROVE  /\ records'[a][n].count = 0
                    /\ \A o \in Flying' : Writes(o) /\ o.agr = a => o.rec # n
  BY DEF DuplicateRead, Duplicates, Oldest, Open, Writes
<1>0. records \in Records /\ read \in Records
  BY DEF IInv, TypeOK, Records
<1>1. CASE read' = records /\ records' = records /\ Flying' = Flying
  <2>1. n \in Open(records, a) /\ n # Oldest(records, a)
    BY <1>1 DEF Duplicates
  <2>2. n \in 1..Len(records[a]) /\ records[a][n].state = "open"
    BY <1>0, <2>1, RecordsType DEF Open
  <2>3. ~Eldest(records, a, n)
    BY <1>0, <2>1, <2>2, EldestIsOldest
  <2>4. records[a][n].count = 0
    BY <2>2, <2>3 DEF IInv, EldestCount
  <2>5. ASSUME NEW o \in Flying, Writes(o), o.agr = a PROVE o.rec # n
    BY <2>3, <2>5, HeldRefs
  <2> QED BY <1>1, <2>4, <2>5
<1>2. CASE pc = "match" /\ read' = read /\ (Rests \/ Arrives \/ GetsLost)
  <2>1. n \in Duplicates(read, a)
    BY <1>2 DEF Duplicates, Oldest, Open
  <2>2. records[a][n].count = 0 /\ \A o \in Flying : Writes(o) /\ o.agr = a => o.rec # n
    BY <1>2, <2>1 DEF DuplicateRead
  <2>3. n \in 1..Len(records[a])
    <3>1. n \in 1..Len(read[a])
      BY <1>0, <2>1, RecordsType DEF Duplicates, Open
    <3>2. Len(read[a]) <= Len(records[a]) /\ Len(read[a]) \in Nat /\ Len(records[a]) \in Nat
      BY DEF IInv, ReadIsPast, TypeOK
    <3> QED BY <3>1, <3>2
  <2>4. CASE Rests
    BY <2>2, <2>3, <2>4 DEF Rests, Alike, Same
  <2>5. CASE Arrives
    <3>1. Landing[a][n].count = 0
      BY <2>2, <2>3, FlyingFacts, UnwrittenStays DEF Landing
    <3> QED BY <2>5, <3>1 DEF Arrives
  <2>6. CASE GetsLost
    BY <2>2, <2>6 DEF GetsLost
  <2> QED BY <1>2, <2>4, <2>5, <2>6
<1> QED BY <1>1, <1>2, MatchMoves

(* A batch that ends agreements has one operation for each. *)
LEMMA EndedOnce ==
    ASSUME IInv, ReconcileAgreements
    PROVE  /\ \A o, p \in batch' : o.agr = p.agr => o = p
           /\ \A o \in batch' : /\ o.agr \in known \ live /\ counter[o.agr] # 0
                                /\ \/ o = Delete(o.agr, counter[o.agr])
                                   \/ o = Close(o.agr, counter[o.agr], served[o.agr])
<1> DEFINE end(a) == IF served[a] = 0 THEN Delete(a, counter[a])
                     ELSE Close(a, counter[a], served[a])
<1>1. \A o \in batch' : \E a \in known \ live : o = end(a) /\ counter[a] # 0
  BY DEF ReconcileAgreements
<1>2. \A a : end(a).agr = a
  BY DEF Delete, Close
<1>3. \A a : end(a) = Delete(a, counter[a]) \/ end(a) = Close(a, counter[a], served[a])
  OBVIOUS
<1> HIDE DEF end
<1> QED BY <1>1, <1>2, <1>3

(* What is deleted beside a write of the same agreement carries nothing. *)
LEMMA DeletesZeroStep ==
    ASSUME IInv, Phases, Alone, DuplicateRead, DeletesZero, MaxPending <= 1, ~Splits, [Next]_vars
    PROVE  DeletesZero'
<1> DEFINE zero(d) == records'[d.agr][d.rec].count = 0
           apart(d) == \A p \in Flying' : Writes(p) /\ p.agr = d.agr => p.rec # d.rec
<1> SUFFICES
      /\ \A o, d \in batch' : Writes(o) /\ d.kind = "delete" /\ d.agr = o.agr => zero(d) /\ apart(d)
      /\ \A o, d \in Flying' : Writes(o) /\ d.kind = "delete" /\ d.agr = o.agr => zero(d)
  BY DEF DeletesZero, DeletesNothing, Writes
<1>1. CASE Rests
  <2>1. ASSUME NEW d \in batch \cup Flying, d.kind = "delete", records[d.agr][d.rec].count = 0
        PROVE  zero(d)
    <3>1. d.agr \in Agreement /\ d.rec \in 1..Len(records[d.agr])
      BY <2>1, HeldRefs
    <3> QED BY <1>1, <2>1, <3>1 DEF Rests, Alike, Same
  <2> HIDE DEF zero
  <2>2. batch' = batch /\ Flying' = Flying
    BY <1>1 DEF Rests
  <2> QED BY <2>1, <2>2 DEF DeletesZero, DeletesNothing
<1>2. CASE GivesUp \/ GetsLost \/ IsAnswered \/ GoesUnresolved
  BY <1>2 DEF GivesUp, GetsLost, IsAnswered, GoesUnresolved, DeletesZero, DeletesNothing
<1>3. CASE Arrives
  <2>1. ASSUME NEW o \in batch, NEW d \in batch, Writes(o), d.kind = "delete", d.agr = o.agr
        PROVE  zero(d)
    <3>1. d.agr \in Agreement /\ d.rec \in 1..Len(records[d.agr])
      BY <2>1, HeldRefs
    <3>2. /\ records[d.agr][d.rec].count = 0
          /\ \A p \in Flying : Writes(p) /\ p.agr = d.agr => p.rec # d.rec
      BY <2>1 DEF DeletesZero, DeletesNothing
    <3>3. Landing[d.agr][d.rec].count = 0
      BY <3>1, <3>2, FlyingFacts, UnwrittenStays DEF Landing
    <3> QED BY <1>3, <3>3 DEF Arrives
  <2> QED BY <1>3, <2>1 DEF Arrives
<1>4. CASE NewBatch
  <2>1. records' = records /\ Flying' = Flying
    BY <1>4 DEF NewBatch
  <2>2. ASSUME NEW o \in batch', NEW d \in batch', Writes(o), d.kind = "delete", d.agr = o.agr
        PROVE  zero(d) /\ apart(d)
    <3>1. CASE ReconcileAgreements
      <4>1. o = d
        BY <2>2, <3>1, EndedOnce
      <4> QED BY <2>2, <4>1 DEF Writes
    <3>2. CASE ReconcileCounters /\ pc' = "counts" /\ batch' = CountsBatch(MatchedServed)
      <4>1. pc = "match"
        BY <3>2 DEF ReconcileCounters
      <4>2. CASE d.agr \in Agreement /\ d.rec \in Duplicates(read, d.agr)
        BY <2>1, <4>1, <4>2 DEF DuplicateRead
      <4>3. CASE d.agr \in Agreement \ known /\ d = StrayOperation(d.agr)
        <5>1. o.kind # "delete" /\ o.agr \notin known
          BY <2>2, <4>3 DEF Writes
        <5>2. o = StrayOperation(o.agr)
          BY <3>2, <5>1, CountsBatchShape
        <5> QED BY <2>2, <4>3, <5>1, <5>2
      <4>4. CASE d \in CountOperations(d.agr, MatchedServed[d.agr])
        BY <2>2, <4>4, CountedShape
      <4> QED BY <3>2, <4>2, <4>3, <4>4, CountsBatchShape
    <3>3. CASE \A op \in batch' : \E a : op = Create(a)
      BY <2>2, <3>3 DEF Create, Writes
    <3>4. ~(batch' \subseteq batch)
      BY <1>4 DEF NewBatch
    <3> QED BY <3>1, <3>2, <3>3, <3>4, BatchFrom
  <2> QED BY <2>1, <2>2 DEF DeletesZero, DeletesNothing
<1> QED BY <1>1, <1>2, <1>3, <1>4, Moves

(* The close of an agreement that has not ended leaves none of its records
   open. *)
LEMMA ClosesTidyStep ==
    ASSUME IInv, IInv', Phases, NewUntouched, Alone, FlushRead, ClosesTidy, MaxPending <= 1, ~Splits,
           [Next]_vars
    PROVE  ClosesTidy'
<1> DEFINE tidy(tx, c) ==
             /\ Create(c.agr) \notin tx
             /\ \A m \in Open(records', c.agr) :
                   m # c.rec => \E d \in tx : d.kind = "delete" /\ d.agr = c.agr /\ d.rec = m
           apart(c) == \A p \in Flying' : p.agr # c.agr
<1> SUFFICES
      /\ \A c \in batch' : c.kind = "close" /\ c.agr \in live' \cup known'
            => tidy(batch', c) /\ apart(c)
      /\ \A c \in Flying' : c.kind = "close" /\ c.agr \in live' \cup known' => tidy(Flying', c)
  BY DEF ClosesTidy, Tidy, Create, Open
<1>0. ASSUME NEW c \in batch \cup Flying, c.agr \in live' \cup known'
      PROVE  c.agr \in live \cup known /\ c.agr \in Agreement
  BY <1>0, HeldRefs, KnownSpent
<1>a. records \in Records /\ records' \in Records /\ read \in Records
  BY DEF IInv, TypeOK, Records
<1>1. CASE Rests
  <2>1. \A a \in Agreement : Open(records, a) = Open(records', a)
    BY <1>1, <1>a, SameOpen DEF Rests, Alike
  <2>2. batch' = batch /\ Flying' = Flying
    BY <1>1 DEF Rests
  <2> QED BY <1>0, <2>1, <2>2 DEF ClosesTidy, Tidy
<1>2. CASE GivesUp \/ GetsLost \/ IsAnswered \/ GoesUnresolved
  <2>1. batch' # {} => batch' = batch /\ records' = records /\ Flying' = {}
    BY <1>2 DEF GivesUp, GetsLost, IsAnswered, GoesUnresolved
  <2>2. Flying' # {} => Flying' \in {Flying, batch} /\ records' = records
    BY <1>2 DEF GivesUp, GetsLost, IsAnswered, GoesUnresolved
  <2>3. ASSUME NEW c \in batch', c.kind = "close", c.agr \in live' \cup known'
        PROVE  tidy(batch', c) /\ apart(c)
    BY <1>0, <2>1, <2>3 DEF ClosesTidy, Tidy
  <2>4. ASSUME NEW c \in Flying', c.kind = "close", c.agr \in live' \cup known'
        PROVE  tidy(Flying', c)
    BY <1>0, <2>2, <2>4 DEF ClosesTidy, Tidy
  <2> QED BY <2>3, <2>4
<1>3. CASE Arrives
  <2>1. batch' = batch /\ Flying' = {} /\ records' = Landing
    BY <1>3 DEF Arrives
  <2>2. ASSUME NEW c \in batch, c.kind = "close", c.agr \in live' \cup known'
        PROVE  tidy(batch, c)
    <3>1. c.agr \in live \cup known /\ c.agr \in Agreement
      BY <1>0, <2>2
    <3>2. \A p \in Flying : p.agr # c.agr
      BY <2>2, <3>1 DEF ClosesTidy
    <3>3. Open(records', c.agr) = Open(records, c.agr)
      BY <1>a, <2>1, <3>1, <3>2, FlyingFacts, OthersStay, SameOpen DEF Landing
    <3> QED BY <2>2, <3>1, <3>3 DEF ClosesTidy, Tidy
  <2> QED BY <2>1, <2>2
<1>4. CASE NewBatch
  <2>1. records' = records /\ Flying' = Flying
    BY <1>4 DEF NewBatch
  <2>2. ASSUME NEW c \in Flying, c.kind = "close", c.agr \in live' \cup known'
        PROVE  tidy(Flying, c)
    BY <1>0, <2>1, <2>2 DEF ClosesTidy, Tidy
  <2>3. ASSUME NEW c \in batch', c.kind = "close", c.agr \in live' \cup known'
        PROVE  tidy(batch', c) /\ apart(c)
    <3>1. CASE ReconcileAgreements
      <4>1. c.agr \in known \ live
        BY <2>3, <3>1, EndedOnce
      <4> QED BY <2>3, <3>1, <4>1 DEF ReconcileAgreements, chainVars
    <3>2. CASE ReconcileCounters /\ pc' = "counts" /\ batch' = CountsBatch(MatchedServed)
      <4>1. pc = "match" /\ live' = live /\ known' = known /\ task # "down"
        BY <3>2 DEF ReconcileCounters, chainVars, Phases
      <4>2. CASE c.agr \in known /\ c \in CountOperations(c.agr, MatchedServed[c.agr])
        <5>1. /\ task = "flush" /\ c.rec = Oldest(read, c.agr) /\ c.rec # 0
          BY <2>3, <4>2, CountedShape DEF Writes
        <5>2. Same(read[c.agr], records[c.agr]) /\ \A p \in Flying : p.agr # c.agr
          BY <4>1, <4>2, <5>1 DEF FlushRead
        <5>3. c.agr \in Agreement
          BY <4>2 DEF IInv, TypeOK
        <5>4. Open(records, c.agr) = Open(read, c.agr)
          BY <1>a, <5>2, <5>3, SameOpen
        <5>5. Create(c.agr) \notin batch'
          <6> SUFFICES ASSUME Create(c.agr) \in batch' PROVE FALSE
            OBVIOUS
          <6>1. Create(c.agr).kind = "create" /\ Create(c.agr).agr = c.agr
            BY DEF Create
          <6>2. Create(c.agr) \in CountOperations(c.agr, MatchedServed[c.agr])
            BY <3>2, <4>2, <6>1, CountsBatchShape
          <6> QED BY <5>1, <6>1, <6>2, CountedShape
        <5>6. ASSUME NEW m \in Open(read, c.agr), m # c.rec
              PROVE  \E d \in batch' : d.kind = "delete" /\ d.agr = c.agr /\ d.rec = m
          <6>1. m \in Duplicates(read, c.agr)
            BY <5>1, <5>6 DEF Duplicates
          <6>2. Delete(c.agr, m) \in DuplicateDeletes
            BY <5>3, <6>1 DEF DuplicateDeletes, DuplicateOperations
          <6>3. Delete(c.agr, m) \in batch'
            BY <3>2, <5>1, <6>2 DEF CountsBatch, Housekeeping
          <6> QED BY <6>3 DEF Delete
        <5> QED BY <2>1, <5>2, <5>4, <5>5, <5>6
      <4>3. CASE c.agr \in Agreement \ known /\ Oldest(read, c.agr) # 0
        <5>1. records[c.agr] = <<>>
          BY <2>3, <4>1, <4>3 DEF NewUntouched, Unborn
        <5>2. Oldest(read, c.agr) \in 1..Len(records[c.agr])
          BY <4>3, ReadOldest
        <5> QED BY <5>1, <5>2
      <4> QED BY <2>3, <3>2, <4>2, <4>3, CountsBatchShape
    <3>3. CASE \A op \in batch' : \E a : op = Create(a)
      BY <2>3, <3>3 DEF Create
    <3>4. ~(batch' \subseteq batch)
      BY <1>4 DEF NewBatch
    <3> QED BY <3>1, <3>2, <3>3, <3>4, BatchFrom
  <2> QED BY <2>1, <2>2, <2>3
<1> QED BY <1>1, <1>2, <1>3, <1>4, Moves

(* Once all records of an agreement are not open, none opens unless created. *)
LEMMA NoneOpens ==
    ASSUME NEW recs \in Records, NEW tx, tx \subseteq Operation, NEW a \in Agreement,
           Open(recs, a) = {}, Create(a) \notin tx
    PROVE  Open(Apply(tx, recs), a) = {}
<1>1. PICK new : new = Apply(tx, recs)
  OBVIOUS
<1>2. Advances(recs, new, tx) /\ new \in Records
  BY <1>1, ApplyAdvances
<1>3. Len(new[a]) = Len(recs[a])
  BY <1>1, ApplyEffect DEF Effect
<1>4. Open(new, a) = {}
  BY <1>2, <1>3, RecordsType DEF Advances, Open
<1> QED BY <1>1, <1>4

(* A transaction that closes a record of an agreement that has not ended
   leaves none open. *)
LEMMA TidyTransaction ==
    ASSUME NEW tx, tx \subseteq Operation, records \in Records, Tidy(tx), OneWrite(tx),
           NEW a \in live \cup known, a \in Agreement, NEW n \in 1..Len(records[a]),
           Apply(tx, records)[a][n].state = "closed", records[a][n].state # "closed"
    PROVE  Open(Apply(tx, records), a) = {}
<1>1. Applies(tx, records)
  BY ApplyEffect
<1>2. Onto(tx, a, n) # {} /\ Apply(tx, records)[a][n] =
                               Patched(records[a][n], CHOOSE op \in Onto(tx, a, n) : TRUE)
  BY <1>1, ApplyEffect DEF Effect
<1>3. PICK c : c = CHOOSE op \in Onto(tx, a, n) : TRUE
  OBVIOUS
<1>4. c \in tx /\ c.agr = a /\ c.rec = n
  BY <1>2, <1>3 DEF Onto
<1>5. records[a][n] \in CounterRecord
  BY RecordsType
<1>6. c.kind = "close"
  BY <1>2, <1>3, <1>5 DEF Patched, CounterRecord
<1>7. /\ Create(a) \notin tx
      /\ \A m \in Open(records, a) : m # c.rec =>
            \E d \in tx : d.kind = "delete" /\ d.agr = a /\ d.rec = m
  BY <1>4, <1>6 DEF Tidy
<1> QED BY <1>1, <1>4, <1>6, <1>7, TidyCloses

(* Once the record memory counts into is closed, no other is open. *)
LEMMA ClosedCleanStep ==
    ASSUME IInv, IInv', Phases, CountsKnown, Alone, OneWrites, ClosesTidy, ClosedClean, ReadClean,
           Creates, MaxPending <= 1, ~Splits, [Next]_vars
    PROVE  ClosedClean'
<1> SUFFICES ASSUME NEW a \in Agreement, counter'[a] # 0,
                    records'[a][counter'[a]].state = "closed"
             PROVE  Open(records', a) = {}
  BY DEF ClosedClean, Open
<1>0. records \in Records /\ records' \in Records
  BY DEF IInv, TypeOK, Records
<1>1. CASE counter'[a] = counter[a]
  <2>1. counter[a] \in 1..Len(records[a]) /\ a \in known
    <3>1. counter[a] \in 0..Len(records[a]) /\ Len(records[a]) \in Nat /\ counter[a] \in Nat
      BY <1>0, RecordsType DEF IInv, RefsExist, TypeOK
    <3> QED BY <1>1, <3>1 DEF CountsKnown
  <2>2. CASE Rests
    <3>1. Same(records[a], records'[a])
      BY <2>2 DEF Rests, Alike
    <3>2. records[a][counter[a]].state = "closed"
      BY <1>1, <2>1, <3>1 DEF Same
    <3> QED BY <1>0, <1>1, <3>1, <3>2, SameOpen DEF ClosedClean
  <2>3. CASE records' = records
    BY <1>1, <2>3 DEF ClosedClean
  <2>4. ASSUME NEW tx, tx \subseteq Operation, records' = Apply(tx, records), Tidy(tx), OneWrite(tx),
               records[a][counter[a]].state = "closed" => Create(a) \notin tx
        PROVE  Open(records', a) = {}
    <3>1. CASE records[a][counter[a]].state = "closed"
      BY <1>0, <1>1, <2>4, <3>1, NoneOpens DEF ClosedClean
    <3>2. CASE records[a][counter[a]].state # "closed"
      BY <1>0, <1>1, <2>1, <2>4, <3>2, TidyTransaction
    <3> QED BY <3>1, <3>2
  <2>5. CASE Arrives
    <3>1. records[a][counter[a]].state = "closed" => Create(a) \notin Flying
      BY <1>1 DEF Creates
    <3> QED BY <2>4, <2>5, <3>1, FlyingFacts DEF Arrives, Landing, ClosesTidy, OneWrites
  <2>6. CASE IsAnswered
    <3>1. Create(a) \notin batch
      BY <1>1 DEF Creates
    <3> QED BY <2>4, <2>6, <3>1, FlyingFacts DEF IsAnswered, ClosesTidy, OneWrites
  <2>7. GivesUp \/ GetsLost \/ GoesUnresolved \/ NewBatch => records' = records
    BY DEF GivesUp, GetsLost, GoesUnresolved, NewBatch
  <2> QED BY <2>2, <2>3, <2>5, <2>6, <2>7, Moves
<1>2. CASE /\ ReconcileCounters /\ a \in known /\ counter'[a] = Oldest(read, a)
           /\ records' = records
  BY <1>2 DEF ReconcileCounters, ReadClean
<1>3. CASE /\ SendAnswered(batch) /\ pc = "accept" /\ Create(a) \in batch
           /\ counter'[a] = Len(records[a]) + 1
  <2>1. batch \subseteq Operation /\ Applies(batch, records) /\ records' = Apply(batch, records)
    BY <1>3, FlyingFacts DEF SendAnswered
  <2>2. records'[a][Len(records[a]) + 1] = FreshRecord
    BY <1>0, <1>3, <2>1, ApplyEffect DEF Effect
  <2> QED BY <1>3, <2>2 DEF FreshRecord
<1> QED BY <1>1, <1>2, <1>3, CounterFrom

(* Nor is one once the record a reconcile has read is closed. *)
LEMMA ReadCleanStep ==
    ASSUME IInv, IInv', Phases, Alone, OneWrites, ClosesTidy, ReadNow, ReadClean,
           MaxPending <= 1, ~Splits, [Next]_vars
    PROVE  ReadClean'
<1> SUFFICES ASSUME pc' = "match", NEW a \in known', Oldest(read', a) # 0,
                    records'[a][Oldest(read', a)].state = "closed"
             PROVE  Open(records', a) = {}
  BY DEF ReadClean, Open, Oldest
<1>0. records \in Records /\ records' \in Records /\ read \in Records /\ known \subseteq Agreement
  BY DEF IInv, TypeOK, Records
<1>1. CASE read' = records /\ records' = records /\ known' = known
  <2>1. Oldest(read', a) = Oldest(records, a)
    BY <1>1 DEF Oldest, Open
  <2>2. a \in Agreement /\ records[a][Oldest(records, a)].state = "closed"
    BY <1>0, <1>1, <2>1
  <2> QED BY <1>0, <2>1, <2>2, OldestIsOpen
<1>2. CASE /\ pc = "match" /\ read' = read /\ known' = known
           /\ Rests \/ Arrives \/ GetsLost
  <2>1. PICK n : n = Oldest(read, a)
    OBVIOUS
  <2>2. Oldest(read', a) = n
    BY <1>2, <2>1 DEF Oldest, Open
  <2>3. /\ a \in Agreement /\ n \in 1..Len(records[a]) /\ n \in 1..Len(read[a])
        /\ read[a][n].state = "open" /\ n # 0
    BY <1>0, <1>2, <2>1, <2>2, ReadOldest, OldestIsOpen
  <2>4. CASE Rests
    <3>1. Same(records[a], records'[a])
      BY <2>3, <2>4 DEF Rests, Alike
    <3>2. records[a][n].state = "closed"
      BY <2>2, <2>3, <3>1 DEF Same
    <3> QED BY <1>0, <1>2, <2>1, <2>3, <3>1, <3>2, SameOpen DEF ReadClean
  <2>5. CASE Arrives
    <3>1. records[a][n].state # "closed"
      BY <1>2, <2>3, <2>5 DEF Arrives, ReadNow, Alike, Same
    <3>2. Flying \subseteq Operation /\ records' = Apply(Flying, records)
      BY <2>5, FlyingFacts DEF Arrives, Landing
    <3> QED BY <1>0, <1>2, <2>2, <2>3, <3>1, <3>2, TidyTransaction DEF ClosesTidy, OneWrites
  <2>6. CASE GetsLost
    BY <1>2, <2>1, <2>2, <2>6 DEF GetsLost, ReadClean
  <2> QED BY <1>2, <2>4, <2>5, <2>6
<1> QED BY <1>1, <1>2, MatchMoves

(* Records are created for agreements whose record is gone. *)
LEMMA CreatesStep ==
    ASSUME IInv, IInv', Phases, CountsKnown, Alone, ReadNow, Creates, MaxPending <= 1, ~Splits,
           [Next]_vars
    PROVE  Creates'
<1>0. /\ counter \in [Agreement -> Nat] /\ read \in Records /\ records \in Records
      /\ records' \in Records /\ known \subseteq spent
  BY DEF IInv, TypeOK, Records, RefsExist
<1>1. Flying' \in {Flying, {}, batch}
  BY Moves DEF Rests, GivesUp, Arrives, GetsLost, IsAnswered, GoesUnresolved, NewBatch
<1>2. ASSUME NEW o \in batch', o.kind = "create" PROVE o = Create(o.agr)
  <2>1. CASE ReconcileAgreements
    BY <1>2, <2>1, EndedOnce DEF Delete, Close
  <2>2. CASE batch' = CountsBatch(MatchedServed)
    BY <1>2, <2>2, CountsBatchShape, CountedShape, StrayShape
  <2>3. CASE \A op \in batch' : \E a : op = Create(a)
    BY <2>3 DEF Create
  <2>4. CASE batch' \subseteq batch
    BY <1>2, <2>4 DEF Creates
  <2> QED BY <2>1, <2>2, <2>3, <2>4, BatchFrom
<1>3. ASSUME NEW o \in Flying', o.kind = "create" PROVE o = Create(o.agr)
  BY <1>1, <1>3 DEF Creates
<1>4. ASSUME pc' = "ended", NEW o \in batch' PROVE o.kind # "create"
  <2>1. CASE ReconcileAgreements
    BY <2>1, EndedOnce DEF Delete, Close
  <2>2. CASE pc = "ended" /\ batch' \subseteq batch
    BY <1>4, <2>2 DEF Creates
  <2> QED BY <1>4, <2>1, <2>2 DEF Next, vars, flushVars, PeriodEnds, AgreementExpires,
     RecordServed, PendingLands, PendingDropped, Start, Crash, Exit,
     SkipAgreements, Flush, ShutdownFlush, ReadFails, ReadOpenCounters, ReconcileCounters,
     SendFailed, SendAnswered, SendUnresolved, EndPeriods, EndFlush, Accept, AcceptUnresolved,
     Accepted, EndPoll
<1>5. ASSUME NEW a \in Agreement, Create(a) \in batch', counter'[a] # 0 PROVE FALSE
  <2>0. Create(a).agr = a /\ Create(a).kind = "create"
    BY DEF Create
  <2>1. CASE NewBatch
    <3>1. CASE ReconcileAgreements
      BY <1>5, <2>0, <3>1, EndedOnce DEF Delete, Close
    <3>2. CASE ReconcileCounters /\ pc' = "counts"
      <4>1. batch' = CountsBatch(MatchedServed) /\ counter' = MatchedCounter
        BY <3>2, <2>0 DEF ReconcileCounters
      <4>2. a \in known /\ Create(a) \in CountOperations(a, MatchedServed[a])
        BY <1>5, <2>0, <4>1, CountsBatchShape, StrayShape
      <4>3. Oldest(read, a) = 0
        BY <2>0, <4>2, CountedShape
      <4> QED BY <1>5, <4>1, <4>2, <4>3 DEF MatchedCounter
    <3>3. CASE EndPeriods
      <4> DEFINE agrs == {c.agr : c \in {d \in closing : <<d.agr, d.rec>> \in landed}}
      <4>1. /\ counter' = [b \in Agreement |-> IF b \in agrs THEN 0 ELSE counter[b]]
            /\ batch' = {Create(b) : b \in agrs}
        BY <3>3 DEF EndPeriods
      <4> HIDE DEF agrs
      <4>2. a \in agrs
        BY <1>5, <4>1 DEF Create
      <4> QED BY <1>5, <4>1, <4>2
    <3>4. ASSUME NEW b \in Agreement, Accept(b) PROVE FALSE
      <4>1. batch' = {Create(b)} /\ counter' = counter /\ b \notin spent
        BY <3>4 DEF Accept
      <4>2. a = b
        BY <1>5, <4>1 DEF Create
      <4> QED BY <1>0, <1>5, <4>1, <4>2 DEF CountsKnown
    <3> QED BY <2>1, <3>1, <3>2, <3>3, <3>4 DEF NewBatch
  <2>2. CASE batch' = batch
    <3>1. counter[a] = 0 /\ batch # {}
      BY <1>5, <2>2 DEF Creates
    <3>2. ~ReconcileCounters
      BY <3>1 DEF ReconcileCounters, Phases
    <3>3. ~SendAnswered(batch)
      BY <2>2, <3>1 DEF SendAnswered
    <3> QED BY <1>5, <3>1, <3>2, <3>3, CounterFrom
  <2>3. CASE batch' = {}
    BY <1>5, <2>3
  <2> QED BY <2>1, <2>2, <2>3, Moves
        DEF Rests, GivesUp, Arrives, GetsLost, IsAnswered, GoesUnresolved
<1>6. ASSUME NEW a \in Agreement, Create(a) \in Flying', counter'[a] # 0
      PROVE  records'[a][counter'[a]].state # "closed"
  <2>1. CASE GoesUnresolved
    BY <1>6, <2>1 DEF GoesUnresolved, Creates, SendUnresolved, memVars
  <2>2. CASE Flying' = Flying /\ Alike(records, records')
    <3>1. pending # <<>> /\ Create(a) \in Flying
      BY <1>6, <2>2, FlyingFacts
    <3>2. CASE counter'[a] = counter[a]
      <4>1. counter[a] \in 1..Len(records[a])
        <5>1. counter[a] \in 0..Len(records[a]) /\ Len(records[a]) \in Nat /\ counter[a] \in Nat
          BY <1>0, RecordsType DEF IInv, RefsExist
        <5> QED BY <1>6, <3>2, <5>1
      <4>2. records[a][counter[a]].state # "closed"
        BY <1>6, <3>1, <3>2 DEF Creates
      <4> QED BY <2>2, <3>2, <4>1, <4>2 DEF Alike, Same
    <3>3. CASE /\ ReconcileCounters /\ counter'[a] = Oldest(read, a) /\ records' = records
      <4>1. Alike(read, records)
        BY <3>1, <3>3 DEF ReconcileCounters, ReadNow
      <4>2. Oldest(read, a) \in 1..Len(read[a]) /\ read[a][Oldest(read, a)].state = "open"
        BY <1>0, <1>6, <3>3, OldestIsOpen
      <4> QED BY <3>3, <4>1, <4>2 DEF Alike, Same
    <3>4. ~SendAnswered(batch)
      BY <3>1 DEF SendAnswered
    <3> QED BY <1>6, <3>2, <3>3, <3>4, CounterFrom
  <2>3. records' = records => Alike(records, records')
    BY DEF Alike, Same
  <2>4. Flying' # {}
    BY <1>6
  <2> QED BY <2>1, <2>2, <2>3, <2>4, Moves
        DEF Rests, GivesUp, Arrives, GetsLost, IsAnswered, NewBatch
<1>7. ASSUME pending' # <<>>, pending'[1].by = "poll", NEW a \in Agreement, Create(a) \in Flying'
      PROVE  records'[a] = <<>>
  <2>0. Create(a).agr = a /\ Create(a).kind = "create"
    BY DEF Create
  <2>1. CASE GoesUnresolved
    <3>1. /\ task = "poll" /\ Create(a) \in batch /\ records' = records
          /\ pc \in {"ended", "accept", "counts", "successors"}
      BY <1>7, <2>1 DEF GoesUnresolved, SendUnresolved, Sending
    <3>2. pc = "accept"
      BY <2>0, <3>1 DEF Phases, Creates
    <3> QED BY <2>0, <3>1, <3>2 DEF IInv, FirstRecord, Unborn
  <2>2. CASE Flying' = Flying /\ pending' = pending /\ Alike(records, records')
    <3>1. records[a] = <<>>
      BY <1>7, <2>2 DEF Creates
    <3>2. Len(records[a]) = 0
      BY <3>1
    <3>3. Len(records'[a]) = 0
      BY <2>2, <3>2 DEF Alike, Same
    <3>4. records'[a] \in Seq(CounterRecord)
      BY <1>0 DEF Records
    <3> QED BY <3>3, <3>4, EmptySeq
  <2>3. records' = records => Alike(records, records')
    BY DEF Alike, Same
  <2> QED BY <1>7, <2>1, <2>2, <2>3, Moves
        DEF Rests, GivesUp, Arrives, GetsLost, IsAnswered, NewBatch
<1>8. \A a \in Agreement : Create(a) \in Flying' =>
         counter'[a] = 0 \/ records'[a][counter'[a]].state # "closed"
  BY <1>6
<1> QED BY <1>2, <1>3, <1>4, <1>5, <1>7, <1>8 DEF Creates, Create

(* Only a stop writes into a closed record that memory holds. *)
LEMMA FlyingClosedStep ==
    ASSUME IInv, Phases, PollWrites, CountsKnown, Alone, ReadNow, FlushWrites, FlyingClosed,
           MaxPending <= 1, ~Splits, [Next]_vars
    PROVE  FlyingClosed'
<1> SUFFICES ASSUME NEW o \in Flying', Writes(o), counter'[o.agr] = o.rec, o.rec # 0,
                    records'[o.agr][o.rec].state = "closed"
             PROVE  task' = "stop" /\ pc' \in {"counts", "successors", "done"}
  BY DEF FlyingClosed, Writes
<1>0. read \in Records /\ records \in Records
  BY DEF IInv, TypeOK, Records
<1>1. CASE GoesUnresolved
  <2>1. /\ o \in batch /\ records' = records /\ counter' = counter /\ task' = task /\ pc' = pc
        /\ pc \in {"ended", "accept", "counts", "successors"}
    BY <1>1 DEF GoesUnresolved, SendUnresolved, Sending, memVars
  <2>2. o.agr \in Agreement /\ o.agr \in known
    BY <2>1, HeldRefs DEF CountsKnown
  <2>3. pc # "ended"
    BY <2>1, <2>2 DEF PollWrites
  <2>4. pc # "accept"
    BY <2>1 DEF IInv, FirstRecord, Create, Writes
  <2>5. task # "flush"
    BY <2>1, <2>2 DEF FlushWrites
  <2> QED BY <2>1, <2>3, <2>4, <2>5 DEF Phases
<1>2. CASE Flying' = Flying /\ Alike(records, records')
  <2>1. /\ o \in Flying /\ pending # <<>> /\ o.agr \in Agreement
        /\ o.rec \in 1..Len(records[o.agr])
    BY <1>2, FlyingFacts, HeldRefs DEF Writes
  <2>2. records[o.agr][o.rec].state = "closed"
    BY <1>2, <2>1 DEF Alike, Same
  <2>3. CASE counter'[o.agr] = counter[o.agr]
    <3>1. task = "stop" /\ pc \in {"counts", "successors", "done"}
      BY <2>1, <2>2, <2>3 DEF FlyingClosed
    <3>2. ~Crash /\ ~Exit
      BY <2>1 DEF Crash, Exit, Forget
    <3> QED BY <3>1, <3>2 DEF Next, vars, PeriodEnds, AgreementExpires,
     RecordServed, PendingLands, PendingDropped, Start, ReconcileAgreements,
     SkipAgreements, Flush, ShutdownFlush, ReadFails, AboutToRead, ReadOpenCounters,
     ReconcileCounters, SendFailed, SendAnswered, SendUnresolved, EndPeriods, EndFlush, Accept,
     AcceptUnresolved, Accepted, EndPoll
  <2>4. CASE ReconcileCounters /\ counter'[o.agr] = Oldest(read, o.agr)
    <3>1. Alike(read, records)
      BY <2>1, <2>4 DEF ReconcileCounters, ReadNow
    <3>2. o.rec \in 1..Len(read[o.agr]) /\ read[o.agr][o.rec].state = "open"
      BY <1>0, <2>1, <2>4, OldestIsOpen
    <3> QED BY <2>1, <2>2, <3>1, <3>2 DEF Alike, Same
  <2>5. ~SendAnswered(batch)
    BY <2>1 DEF SendAnswered
  <2> QED BY <2>1, <2>3, <2>4, <2>5, CounterFrom
<1>3. records' = records => Alike(records, records')
  BY DEF Alike, Same
<1> QED BY <1>1, <1>2, <1>3, Moves
      DEF Rests, GivesUp, Arrives, GetsLost, IsAnswered, NewBatch

(* The closes of a flush, and what its one answered transaction left. *)
LEMMA EndedStep ==
    ASSUME IInv, IInv', Phases, Alone, OneWrites, Ended, MaxPending <= 1, ~Splits, [Next]_vars
    PROVE  Ended'
<1> DEFINE after == {"counts", "successors", "done"}
           small(c) == Carried(records', c.agr, c.rec) <= c.count
<1>0. /\ records \in Records /\ records' \in Records /\ batch \subseteq Operation
      /\ closing \subseteq Operation
  BY DEF IInv, TypeOK, Records
<1>1. pc' \notin after => landed' = {}
  BY DEF Ended, Phases, Next, vars, flushVars, PeriodEnds, AgreementExpires, RecordServed,
     PendingLands, PendingDropped, Start, Crash, Exit, NoFlush, ReconcileAgreements,
     SkipAgreements, Flush, ShutdownFlush, ReadFails, AboutToRead, ReadOpenCounters,
     ReconcileCounters, Sending, SendFailed, SendAnswered, SendUnresolved, EndPeriods, EndFlush,
     Accept, AcceptUnresolved, Accepted, EndPoll
<1>2. pc' # "counts" => closing' = {}
  BY DEF Ended, Phases, Next, vars, flushVars, PeriodEnds, AgreementExpires, RecordServed,
     PendingLands, PendingDropped, Start, Crash, Exit, NoFlush, ReconcileAgreements,
     SkipAgreements, Flush, ShutdownFlush, ReadFails, AboutToRead, ReadOpenCounters,
     ReconcileCounters, Sending, SendFailed, SendAnswered, SendUnresolved, EndPeriods, EndFlush,
     Accept, AcceptUnresolved, Accepted, EndPoll
<1>3. ASSUME pc' = "counts"
      PROVE  /\ batch' # {} => closing' \subseteq batch' /\ landed' = {}
             /\ landed' # {} => pending' = <<>>
             /\ \A c \in closing' :
                   /\ c.kind = "close" /\ counter'[c.agr] = c.rec /\ c.rec # 0
                   /\ \A d \in closing' : d.agr = c.agr => d = c
                   /\ <<c.agr, c.rec>> \in landed' => small(c)
  <2>1. CASE ReconcileCounters
    <3>1. /\ batch' = CountsBatch(MatchedServed) /\ closing' = Closings(MatchedServed)
          /\ counter' = MatchedCounter /\ landed' = {} /\ known \subseteq Agreement
      BY <1>3, <2>1 DEF ReconcileCounters, Ended, IInv, TypeOK
    <3>2. ASSUME NEW c \in closing'
          PROVE  /\ c.agr \in known /\ PeriodIsOver(c.agr, MatchedServed[c.agr])
                 /\ c = Close(c.agr, Oldest(read, c.agr), MatchedServed[c.agr])
      BY <3>1 DEF Closings, Close
    <3>3. ASSUME NEW c \in closing' PROVE c \in batch'
      <4>1. c \in CountOperations(c.agr, MatchedServed[c.agr])
        BY <3>2 DEF CountOperations, PeriodIsOver
      <4> QED BY <3>1, <3>2, <4>1 DEF CountsBatch
    <3>4. ASSUME NEW c \in closing'
          PROVE  /\ c.kind = "close" /\ counter'[c.agr] = c.rec /\ c.rec # 0
                 /\ \A d \in closing' : d.agr = c.agr => d = c
      <4>1. c.kind = "close" /\ c.rec = Oldest(read, c.agr)
        BY <3>2 DEF Close
      <4> QED BY <3>1, <3>2, <4>1 DEF MatchedCounter, PeriodIsOver
    <3> QED BY <3>1, <3>3, <3>4
  <2>2. CASE IsAnswered /\ pc = "counts"
    <3>1. /\ closing' = closing /\ counter' = counter /\ batch' = {} /\ pending' = <<>>
      <4>1. /\ closing' = closing /\ counter \in [Agreement -> Nat]
            /\ counter' = [a \in Agreement |-> IF pc = "accept" /\ Create(a) \in batch
                                       THEN Len(records[a]) + 1 ELSE counter[a]]
        BY <2>2 DEF IsAnswered, SendAnswered, IInv, TypeOK
      <4>2. counter' = [a \in Agreement |-> counter[a]]
        BY <2>2, <4>1
      <4> QED BY <2>2, <4>1, <4>2 DEF IsAnswered
    <3>2. closing \subseteq batch
      BY <2>2 DEF IsAnswered, SendAnswered, Sending, Ended
    <3>3. ASSUME NEW c \in closing PROVE small(c)
      <4>1. c \in batch /\ c.kind = "close" /\ c.agr \in Agreement
        BY <1>0, <2>2, <3>2 DEF Ended, Operation
      <4>2. c.rec \in 1..Len(records[c.agr])
        BY <4>1, HeldRefs
      <4>3. PICK o \in batch : /\ o.kind # "create" /\ o.agr = c.agr /\ o.rec = c.rec
                               /\ Apply(batch, records)[c.agr][c.rec]
                                     = Patched(records[c.agr][c.rec], o)
        BY <1>0, <2>2, <4>1, <4>2, OntoEffect DEF IsAnswered
      <4>4. records[c.agr][c.rec] \in CounterRecord /\ o \in Operation /\ c.count \in Nat
        BY <1>0, <4>1, <4>2, RecordsType DEF Operation
      <4>5. records'[c.agr][c.rec] = Patched(records[c.agr][c.rec], o)
        BY <2>2, <4>3 DEF IsAnswered
      <4>6. CASE o.kind = "delete"
        <5>1. records'[c.agr][c.rec].state = "deleted"
          BY <4>4, <4>5, <4>6 DEF Patched, CounterRecord
        <5>2. Carried(records', c.agr, c.rec) = 0
          BY <5>1 DEF Carried
        <5> QED BY <4>4, <5>2
      <4>7. CASE o.kind # "delete"
        <5>1. Writes(o) /\ Writes(c)
          BY <4>1, <4>3, <4>4, <4>7 DEF Writes, Operation
        <5>2. o = c
          BY <4>1, <4>3, <5>1 DEF OneWrites, OneWrite
        <5>3. records'[c.agr][c.rec].count = c.count
          BY <4>1, <4>4, <4>5, <5>2 DEF Patched, CounterRecord
        <5>4. Carried(records', c.agr, c.rec) \in {0, c.count}
          BY <5>3 DEF Carried
        <5> QED BY <4>4, <5>4
      <4> QED BY <4>6, <4>7
    <3> HIDE DEF small
    <3> QED BY <2>2, <3>1, <3>3 DEF Ended
  <2>3. CASE /\ pc = "counts" /\ closing' = closing /\ counter' = counter /\ landed' = landed
             /\ batch' = batch \/ batch' = {}
    <3>1. landed # {} => batch = {} /\ pending = <<>>
      BY <2>3 DEF Ended
    <3>2. landed # {} => ~IsAnswered /\ ~GoesUnresolved /\ ~Arrives
      BY <3>1 DEF IsAnswered, GoesUnresolved, SendAnswered, SendUnresolved, Sending, Arrives
    <3>3. records' = records => Alike(records, records')
      BY DEF Alike, Same
    <3>4. landed # {} => pending' = <<>> /\ Alike(records, records')
      BY <3>1, <3>2, <3>3, Moves DEF Rests, GivesUp, GetsLost, NewBatch
    <3>5. ASSUME NEW c \in closing, <<c.agr, c.rec>> \in landed PROVE small(c)
      <4>1. c.agr \in Agreement /\ Carried(records, c.agr, c.rec) <= c.count
        BY <1>0, <2>3, <3>5 DEF Ended, Operation
      <4>2. Carried(records', c.agr, c.rec) = Carried(records, c.agr, c.rec)
        BY <1>0, <3>4, <3>5, <4>1, AlikeBills
      <4> QED BY <4>1, <4>2
    <3> HIDE DEF small
    <3> QED BY <2>3, <3>4, <3>5 DEF Ended
  <2>4. ~ReconcileCounters => pc = "counts"
    BY <1>3 DEF Next, vars, PeriodEnds, AgreementExpires, RecordServed,
     PendingLands, PendingDropped, Start, Crash, Exit, ReconcileAgreements,
     SkipAgreements, Flush, ShutdownFlush, ReadFails, ReadOpenCounters,
     SendFailed, SendAnswered, SendUnresolved, EndPeriods, EndFlush,
     Accept, AcceptUnresolved, Accepted, EndPoll
  <2>5. ASSUME ~ReconcileCounters, ~IsAnswered, pc = "counts"
        PROVE  closing' = closing /\ counter' = counter /\ landed' = landed
    <3>1. ASSUME NEW tx \in Chunks, SendAnswered(tx) PROVE FALSE
      <4>1. tx = batch /\ SendAnswered(batch)
        BY <3>1 DEF Chunks
      <4>2. batch' = {} /\ pending = <<>> /\ pending' = <<>> /\ Applies(batch, records)
        BY <4>1 DEF SendAnswered
      <4>3. Flying = {} /\ Flying' = {} /\ records' = Apply(batch, records)
        BY <4>1, <4>2 DEF SendAnswered, Flying
      <4> QED BY <2>5, <4>1, <4>2, <4>3 DEF IsAnswered
    <3> QED BY <1>3, <2>5, <3>1 DEF Next, vars, memVars, flushVars, PeriodEnds,
               AgreementExpires,
     RecordServed, PendingLands, PendingDropped, Start, Crash, Exit, ReconcileAgreements,
     SkipAgreements, Flush, ShutdownFlush, ReadFails, ReadOpenCounters,
     SendFailed, SendUnresolved, EndPeriods, EndFlush,
     Accept, AcceptUnresolved, Accepted, EndPoll
  <2>6. ~ReconcileCounters => batch' = batch \/ batch' = {}
    BY <1>3, <2>4, Moves DEF Rests, GivesUp, Arrives, GetsLost, IsAnswered, GoesUnresolved,
       NewBatch,
      ReconcileAgreements, EndPeriods, Accept
  <2> QED BY <2>1, <2>2, <2>3, <2>4, <2>5, <2>6
<1> HIDE DEF small
<1>4. Ended' = (/\ pc' \notin after => landed' = {}
                /\ pc' # "counts" => closing' = {}
                /\ pc' = "counts" =>
                      /\ batch' # {} => closing' \subseteq batch' /\ landed' = {}
                      /\ landed' # {} => pending' = <<>>
                      /\ \A c \in closing' :
                            /\ c.kind = "close" /\ counter'[c.agr] = c.rec /\ c.rec # 0
                            /\ \A d \in closing' : d.agr = c.agr => d = c
                            /\ <<c.agr, c.rec>> \in landed' => small(c))
  BY DEF Ended, small, Carried
<1> QED BY <1>1, <1>2, <1>3, <1>4

-----------------------------------------------------------------------------
(* What keeps records within what was answered. *)
LEMMA WithinMemory ==
    ASSUME NEW recs \in Records, NEW a \in Agreement, NEW n, NEW w \in Nat, NEW q \in Nat,
           Within(recs, a, n, w, q)
    PROVE  /\ Within(recs, a, 0, 0, q)
           /\ Within(recs, a, n, w + 1, q + 1)
           /\ \A m : Carried(recs, a, n) = 0 => Within(recs, a, m, w, q)
<1>1. /\ Bill(recs, a) \in Int /\ \A m : Carried(recs, a, m) \in Nat
      /\ DOMAIN recs[a] = 1..Len(recs[a])
  BY RecordsType
<1>2. Carried(recs, a, 0) = 0
  BY <1>1 DEF Carried
<1> QED BY <1>1, <1>2 DEF Within

(* A record that is none carries nothing. *)
LEMMA NoneCarries ==
    ASSUME NEW recs \in Records, NEW a \in Agreement
    PROVE  Carried(recs, a, 0) = 0
BY RecordsType DEF Carried

(* Records that are alike are within the same bound. *)
LEMMA WithinAlike ==
    ASSUME NEW recs \in Records, NEW new \in Records, Alike(recs, new), NEW a \in Agreement,
           NEW n, NEW w, NEW q, Within(recs, a, n, w, q)
    PROVE  Within(new, a, n, w, q)
BY AlikeBills DEF Within

(* What a step that starts no batch leaves of the records that may be. *)
LEMMA WorldsFrom ==
    ASSUME IInv, IInv', Phases, Alone, MaxPending <= 1, ~Splits, [Next]_vars, ~NewBatch,
           NEW new \in Worlds'
    PROVE  new \in Records /\ \E recs \in Worlds : recs \in Records /\ Alike(recs, new)
<1>0. /\ records \in Records /\ records' \in Records /\ Landing \in Records
      /\ Flying \subseteq Operation /\ batch \subseteq Operation
      /\ Apply(batch, records) \in Records /\ Apply(batch, Landing) \in Records
      /\ Landing = Apply(Flying, records)
  BY FlyingFacts DEF IInv, TypeOK, Records, Landing
<1>1. new \in {records', Apply(Flying', records'), Apply(batch', records'),
               Apply(batch', Apply(Flying', records'))}
  BY DEF Worlds, Landing
<1>2. \A recs : Alike(recs, recs)
  BY DEF Alike, Same
<1>3. CASE Rests
  <2>1. \A o \in batch \cup Flying : o.kind # "create" =>
           o.rec \in 1..Len(records[o.agr]) /\ o.agr \in Agreement
    BY HeldRefs
  <2>2. Apply(Flying, records') \in Records /\ Alike(Landing, Apply(Flying, records'))
    BY <1>0, <1>3, <2>1, AlikeApply, ApplyEffect DEF Rests
  <2>3. Apply(batch, records') \in Records /\ Alike(Apply(batch, records), Apply(batch, records'))
    BY <1>0, <1>3, <2>1, AlikeApply, ApplyEffect DEF Rests
  <2>4. \A o \in batch : o.kind # "create" => o.rec \in 1..Len(Landing[o.agr])
    <3> SUFFICES ASSUME NEW o \in batch, o.kind # "create" PROVE o.rec \in 1..Len(Landing[o.agr])
      OBVIOUS
    <3>1. o.rec \in 1..Len(records[o.agr]) /\ o.agr \in Agreement
      BY <2>1
    <3>2. Advances(records, Landing, Flying)
      BY <1>0, ApplyAdvances
    <3>3. /\ Len(Landing[o.agr]) >= Len(records[o.agr])
          /\ Len(Landing[o.agr]) \in Nat /\ Len(records[o.agr]) \in Nat
      BY <1>0, <3>1, <3>2, RecordsType DEF Advances
    <3> QED BY <3>1, <3>3
  <2>5. /\ Apply(batch, Apply(Flying, records')) \in Records
        /\ Alike(Apply(batch, Landing), Apply(batch, Apply(Flying, records')))
    BY <1>0, <2>2, <2>4, AlikeApply, ApplyEffect
  <2>6. Alike(records, records') /\ batch' = batch /\ Flying' = Flying
    BY <1>3 DEF Rests
  <2> QED BY <1>0, <1>1, <2>2, <2>3, <2>5, <2>6 DEF Worlds
<1>4. \A recs \in Records : Apply({}, recs) = recs
  BY ApplyNothing
<1>5. CASE GivesUp
  BY <1>0, <1>1, <1>2, <1>4, <1>5 DEF GivesUp, Worlds
<1>6. CASE Arrives
  BY <1>0, <1>1, <1>2, <1>4, <1>6 DEF Arrives, Worlds
<1>7. CASE GetsLost
  BY <1>0, <1>1, <1>2, <1>4, <1>7 DEF GetsLost, Worlds
<1>8. CASE IsAnswered
  BY <1>0, <1>1, <1>2, <1>4, <1>8 DEF IsAnswered, Worlds
<1>9. CASE GoesUnresolved
  BY <1>0, <1>1, <1>2, <1>4, <1>9 DEF GoesUnresolved, Worlds
<1> QED BY <1>3, <1>5, <1>6, <1>7, <1>8, <1>9, Moves

(* Memory's moves that take nothing from a chain read keep it so. *)
LEMMA MemoryKeeps ==
    ASSUME IInv, IInv', Creates, ~Splits, [Next]_vars,
           ~ReconcileCounters, ~ReconcileAgreements, ~EndPeriods,
           NEW recs \in Records, NEW a \in Agreement, Fair(recs, a)
    PROVE  Within(recs, a, counter'[a], served'[a], answered'[a])
<1>0. /\ counter \in [Agreement -> Nat] /\ served \in [Agreement -> Nat]
      /\ answered \in [Agreement -> Nat]
  BY DEF IInv, TypeOK
<1>1. Within(recs, a, counter[a], served[a], answered[a])
  BY DEF Fair
<1>2. CASE counter'[a] = counter[a] /\ served'[a] = served[a] /\ answered'[a] = answered[a]
  BY <1>1, <1>2
<1>3. CASE Crash \/ Exit \/ ReadFails
  <2>1. \/ counter'[a] = 0 /\ served'[a] = 0 /\ answered' = answered
        \/ counter' = counter /\ served' = served /\ answered' = answered
    BY <1>3 DEF Crash, Exit, ReadFails, Forget, memVars
  <2> QED BY <1>0, <1>1, <2>1, WithinMemory
<1>4. ASSUME NEW b \in Agreement, RecordServed(b)
      PROVE  Within(recs, a, counter'[a], served'[a], answered'[a])
  <2>1. CASE a = b
    <3>1. /\ counter'[a] = counter[a] /\ served'[a] = served[a] + 1
          /\ answered'[a] = answered[a] + 1
      BY <1>0, <1>4, <2>1 DEF RecordServed
    <3> QED BY <1>0, <1>1, <3>1, WithinMemory
  <2>2. CASE a # b
    BY <1>0, <1>2, <1>4, <2>2 DEF RecordServed
  <2> QED BY <2>1, <2>2
<1>5. ASSUME NEW tx \in Chunks, SendAnswered(tx)
      PROVE  Within(recs, a, counter'[a], served'[a], answered'[a])
  <2>1. tx = batch
    BY DEF Chunks
  <2>2. served' = served /\ answered' = answered
    BY <1>5 DEF SendAnswered
  <2>3. counter'[a] = counter[a] \/ Create(a) \in batch
    BY <1>5, <2>1 DEF SendAnswered
  <2>4. CASE Create(a) \in batch
    <3>1. counter[a] = 0
      BY <2>4 DEF Creates
    <3>2. Carried(recs, a, counter[a]) = 0
      BY <3>1, NoneCarries
    <3> QED BY <1>0, <1>1, <2>2, <3>2, WithinMemory
  <2> QED BY <1>2, <2>2, <2>3, <2>4
<1> QED BY <1>2, <1>3, <1>4, <1>5
  DEF Next, vars, memVars, PeriodEnds, AgreementExpires, PendingLands, PendingDropped,
     Start, SkipAgreements, Flush, ShutdownFlush, ReadOpenCounters, SendFailed, SendUnresolved,
     EndFlush, Accept, AcceptUnresolved, Accepted, EndPoll

(* What a match makes of memory. *)
LEMMA MatchFair ==
    ASSUME IInv, pc = "match", Alone, AllFair, ReadFair, ReadNow, ReadCounter, FlyingClosed,
           NEW recs \in {records, Landing}, NEW a \in Agreement
    PROVE  Within(recs, a, MatchedCounter[a], MatchedServed[a], answered[a])
<1>0. /\ counter \in [Agreement -> Nat] /\ served \in [Agreement -> Nat]
      /\ answered \in [Agreement -> Nat] /\ read \in Records /\ records \in Records
  BY DEF IInv, TypeOK, Records
<1>1. /\ recs \in Records /\ Flying \subseteq Operation
      /\ recs = records \/ recs = Apply(Flying, records)
  BY FlyingFacts DEF Landing
<1>2. Within(recs, a, counter[a], served[a], answered[a])
  BY DEF AllFair, Worlds, Fair
<1>3. CASE a \notin known
  BY <1>2, <1>3 DEF MatchedCounter, MatchedServed
<1>4. ASSUME a \in known, ForgottenCount(a) = 0
      PROVE  MatchedServed[a] = served[a] + SeededCount(a) /\ MatchedCounter[a] = Oldest(read, a)
  <2>1. SaturatingSub(served[a], 0) = served[a]
    BY <1>0 DEF SaturatingSub
  <2> QED BY <1>4, <2>1 DEF MatchedServed, MatchedCounter
<1>5. CASE a \in known /\ counter[a] = 0
  <2>1. ForgottenCount(a) = 0
    BY <1>5 DEF ForgottenCount
  <2>2. CASE Oldest(read, a) = 0
    <3>1. SeededCount(a) = 0
      BY <2>2 DEF SeededCount
    <3> QED BY <1>0, <1>2, <1>4, <1>5, <2>1, <2>2, <3>1
  <2>3. CASE Oldest(read, a) # 0
    <3>1. SeededCount(a) = read[a][Oldest(read, a)].count
      BY <1>5, <2>3 DEF SeededCount
    <3>2. read[a][Oldest(read, a)].count \in Nat
      BY <2>3, ReadOldest
    <3>3. Within(recs, a, Oldest(read, a), read[a][Oldest(read, a)].count + served[a],
                 answered[a])
      BY <1>5, <2>3 DEF ReadFair
    <3>4. read[a][Oldest(read, a)].count + served[a] = served[a] + read[a][Oldest(read, a)].count
      BY <1>0, <3>2
    <3> QED BY <1>4, <1>5, <2>1, <3>1, <3>3, <3>4
  <2> QED BY <2>2, <2>3
<1>6. CASE a \in known /\ counter[a] # 0
  <2>1. SeededCount(a) = 0
    BY <1>6 DEF SeededCount
  <2>2. /\ counter[a] \in 1..Len(read[a])
        /\ \/ Oldest(read, a) = counter[a]
           \/ read[a][counter[a]].state = "closed" /\ Oldest(read, a) = 0
           \/ read[a][counter[a]].state = "deleted"
    BY <1>6 DEF ReadCounter
  <2>3. counter[a] \in 1..Len(records[a])
    <3>1. counter[a] \in 0..Len(records[a]) /\ Len(records[a]) \in Nat
      BY <1>0, RecordsType DEF IInv, RefsExist
    <3> QED BY <1>0, <1>6, <3>1
  <2>4. CASE Oldest(read, a) = counter[a]
    <3>1. ForgottenCount(a) = 0
      BY <1>6, <2>4 DEF ForgottenCount
    <3> QED BY <1>0, <1>2, <1>4, <1>6, <2>1, <2>4, <3>1
  <2>5. CASE records[a][counter[a]].state = "deleted"
    <3>1. ForgottenCount(a) = 0
      BY <2>5 DEF ForgottenCount
    <3>2. recs[a][counter[a]].state = "deleted"
      <4>1. Apply(Flying, records)[a][counter[a]].state = "deleted"
        BY <1>0, <1>1, <2>3, <2>5, DeletedStays
      <4> QED BY <1>1, <2>5, <4>1
    <3>3. Carried(recs, a, counter[a]) = 0
      BY <3>2 DEF Carried
    <3>4. Within(recs, a, Oldest(read, a), served[a], answered[a])
      BY <1>0, <1>1, <1>2, <3>3, WithinMemory
    <3> QED BY <1>0, <1>4, <1>6, <2>1, <3>1, <3>4
  <2>6. CASE records[a][counter[a]].state = "closed" /\ Oldest(read, a) = 0
    <3>1. PICK f : f = records[a][counter[a]].count
      OBVIOUS
    <3>2. ForgottenCount(a) = f /\ f \in Nat
      BY <1>0, <1>6, <2>3, <2>6, <3>1, RecordsType DEF ForgottenCount, CounterRecord
    <3>3. MatchedServed[a] = SaturatingSub(served[a], f) /\ MatchedCounter[a] = 0
      <4>1. SaturatingSub(served[a], f) \in Nat
        BY <1>0, <3>2 DEF SaturatingSub
      <4> QED BY <1>6, <2>1, <2>6, <3>2, <4>1 DEF MatchedServed, MatchedCounter
    <3>4. Carried(records, a, counter[a]) = f
      BY <1>0, <2>3, <2>6, <3>1, RecordsType DEF Carried
    <3>5. ASSUME NEW o \in Flying, Writes(o), o.agr = a, o.rec = counter[a] PROVE FALSE
      BY <1>6, <2>6, <3>5 DEF FlyingClosed
    <3>6. Carried(recs, a, counter[a]) \in {f, 0}
      BY <1>0, <1>1, <3>4, <3>5, CarriedApply
    <3>7. Bill(recs, a) \in Int /\ Carried(recs, a, 0) = 0
      BY <1>1, RecordsType, NoneCarries
    <3>8. Within(recs, a, 0, SaturatingSub(served[a], f), answered[a])
      BY <1>0, <1>2, <3>2, <3>6, <3>7 DEF Within, SaturatingSub
    <3> QED BY <3>3, <3>8
  <2>7. read[a][counter[a]].state = "closed" => records[a][counter[a]].state \in {"closed", "deleted"}
    <3>1. records[a][counter[a]] \in CounterRecord
      BY <1>0, <2>3, RecordsType
    <3> QED BY <2>2, <3>1 DEF IInv, ReadIsPast, CounterRecord
  <2>8. read[a][counter[a]].state = "deleted" => records[a][counter[a]].state = "deleted"
    BY <2>2 DEF ReadNow
  <2> QED BY <2>2, <2>4, <2>5, <2>6, <2>7, <2>8
<1> QED BY <1>3, <1>5, <1>6

(* A new batch leaves the records that may be within what was answered. *)
LEMMA BatchFair ==
    ASSUME IInv, Alone, records' = records, Flying' = Flying,
           \A recs \in {records, Landing} : \A a \in Agreement :
              /\ Within(recs, a, counter'[a], served'[a], answered'[a])
              /\ Within(Apply(batch', recs), a, counter'[a], served'[a], answered'[a])
    PROVE  AllFair'
<1>1. Worlds' = {records, Landing, Apply(batch', records), Apply(batch', Landing)}
  BY DEF Worlds, Landing
<1>2. \A recs \in Worlds' : \A a \in Agreement :
         Within(recs, a, counter'[a], served'[a], answered'[a])
  BY <1>1
<1> QED BY <1>2 DEF AllFair, Fair

(* The records bill no more than was answered, whatever of what is under way
   or about to be sent lands. *)
LEMMA AllFairStep ==
    ASSUME IInv, IInv', Phases, CountsKnown, Alone, AllFair, ReadFair, ReadNow, ReadCounter,
           FlyingClosed, ServedKnown, Creates, Ended, MaxPending <= 1, ~Splits, [Next]_vars
    PROVE  AllFair'
<1>0. /\ counter \in [Agreement -> Nat] /\ served \in [Agreement -> Nat]
      /\ answered \in [Agreement -> Nat] /\ records \in Records /\ Landing \in Records
      /\ batch' \subseteq Operation /\ known \subseteq Agreement
      /\ counter' \in [Agreement -> Nat] /\ served' \in [Agreement -> Nat]
  BY FlyingFacts DEF IInv, TypeOK
<1>1. \A recs \in {records, Landing} : \A a \in Agreement :
         Within(recs, a, counter[a], served[a], answered[a])
  BY DEF AllFair, Worlds, Fair
<1>2. CASE ReconcileAgreements
  <2>1. records' = records /\ Flying' = Flying /\ answered' = answered
    BY <1>2 DEF ReconcileAgreements, chainVars, Flying
  <2>2. ASSUME NEW recs \in {records, Landing}, NEW a \in Agreement
        PROVE  /\ Within(recs, a, counter'[a], served'[a], answered'[a])
               /\ Within(Apply(batch', recs), a, counter'[a], served'[a], answered'[a])
    <3>1. \/ counter'[a] = counter[a] /\ served'[a] = served[a]
          \/ counter'[a] = 0 /\ served'[a] = 0
      BY <1>2 DEF ReconcileAgreements
    <3>2. \A o \in batch' : Writes(o) /\ o.agr = a => o.rec = counter[a] /\ o.count = served[a]
      BY <1>2, EndedOnce DEF Delete, Close, Writes
    <3>3. Within(recs, a, counter[a], served[a], answered[a])
      BY <1>1
    <3>4. Within(Apply(batch', recs), a, counter[a], served[a], answered[a])
      BY <1>0, <3>2, <3>3, WithinApply
    <3>5. Apply(batch', recs) \in Records
      BY <1>0, ApplyEffect
    <3> QED BY <1>0, <2>1, <3>1, <3>3, <3>4, <3>5, WithinMemory
  <2> QED BY <2>1, <2>2, BatchFair
<1>3. CASE ReconcileCounters
  <2>1. /\ records' = records /\ Flying' = Flying /\ answered' = answered /\ pc = "match"
        /\ served' = MatchedServed /\ counter' = MatchedCounter /\ batch = {}
        /\ batch' = {} \/ batch' = CountsBatch(MatchedServed)
    BY <1>3 DEF ReconcileCounters, chainVars, Flying, Phases
  <2>2. ASSUME NEW recs \in {records, Landing}, NEW a \in Agreement
        PROVE  /\ Within(recs, a, counter'[a], served'[a], answered'[a])
               /\ Within(Apply(batch', recs), a, counter'[a], served'[a], answered'[a])
    <3>1. Within(recs, a, counter'[a], served'[a], answered[a])
      BY <2>1, MatchFair
    <3>2. CASE batch' = {}
      BY <1>0, <2>1, <3>1, <3>2, ApplyNothing
    <3>3. CASE batch' = CountsBatch(MatchedServed) /\ a \in known
      <4>1. ASSUME NEW o \in batch', Writes(o), o.agr = a
            PROVE  o.rec = counter'[a] /\ o.count = served'[a]
        <5>1. o \in CountOperations(a, MatchedServed[a])
          BY <3>3, <4>1, CountsBatchShape DEF Writes
        <5> QED BY <2>1, <3>3, <4>1, <5>1, CountedShape DEF MatchedCounter
      <4> QED BY <1>0, <2>1, <3>1, <4>1, WithinApply
    <3>4. CASE batch' = CountsBatch(MatchedServed) /\ a \notin known
      <4>1. counter[a] = 0 /\ served[a] = 0
        BY <3>4 DEF CountsKnown, ServedKnown
      <4>2. counter'[a] = 0 /\ served'[a] = 0
        BY <2>1, <3>4, <4>1 DEF MatchedCounter, MatchedServed
      <4>3. ASSUME NEW o \in batch', o.agr = a, Writes(o)
            PROVE  /\ Oldest(read, a) # 0 /\ o.rec = Oldest(read, a)
                   /\ o.count = read[a][Oldest(read, a)].count
        BY <3>4, <4>3, CountsBatchShape, StrayShape DEF Writes
      <4>4. Apply(batch', recs) \in Records
        BY <1>0, ApplyEffect
      <4>5. CASE Oldest(read, a) = 0
        <5>1. \A o \in batch' : Writes(o) /\ o.agr = a => o.rec = counter'[a] /\ o.count = served'[a]
          BY <4>3, <4>5
        <5> QED BY <1>0, <2>1, <3>1, <5>1, WithinApply
      <4>6. CASE Oldest(read, a) # 0
        <5>1. PICK w \in Nat : w = read[a][Oldest(read, a)].count
          BY <4>6, ReadOldest
        <5>2. w + served[a] = w
          BY <4>1
        <5>3. Within(recs, a, Oldest(read, a), w, answered[a])
          BY <2>1, <4>1, <4>6, <5>1, <5>2 DEF ReadFair
        <5>4. \A o \in batch' : Writes(o) /\ o.agr = a => o.rec = Oldest(read, a) /\ o.count = w
          BY <4>3, <5>1
        <5>5. Within(Apply(batch', recs), a, Oldest(read, a), w, answered[a])
          BY <1>0, <5>3, <5>4, WithinApply
        <5> QED BY <1>0, <2>1, <3>1, <4>2, <4>4, <5>5, WithinMemory
      <4> QED BY <4>5, <4>6
    <3> QED BY <2>1, <3>1, <3>2, <3>3, <3>4
  <2> QED BY <2>1, <2>2, BatchFair
<1>4. CASE EndPeriods
  <2> DEFINE ended == {c \in closing : <<c.agr, c.rec>> \in landed}
             agrs == {c.agr : c \in ended}
             count(a) == (CHOOSE c \in ended : c.agr = a).count
  <2>1. /\ records' = records /\ Flying' = Flying /\ answered' = answered /\ pc = "counts"
        /\ counter' = [a \in Agreement |-> IF a \in agrs THEN 0 ELSE counter[a]]
        /\ served' = [a \in Agreement |-> IF a \in agrs
                         THEN SaturatingSub(served[a], count(a)) ELSE served[a]]
        /\ \A o \in batch' : \E a : o = Create(a)
    BY <1>4 DEF EndPeriods, chainVars, Flying
  <2>2. ASSUME NEW a \in agrs, a \in Agreement
        PROVE  /\ count(a) \in Nat /\ Landing = records
               /\ Carried(records, a, counter[a]) <= count(a)
    <3>1. PICK c : c = CHOOSE d \in ended : d.agr = a
      OBVIOUS
    <3>2. c \in ended /\ c.agr = a
      BY <2>2, <3>1
    <3>3. c \in closing /\ <<c.agr, c.rec>> \in landed
      BY <3>2
    <3>4. c \in Operation
      BY <3>3 DEF IInv, TypeOK
    <3>5. pending = <<>> /\ counter[c.agr] = c.rec /\ Carried(records, c.agr, c.rec) <= c.count
      BY <2>1, <3>3 DEF Ended
    <3>6. Landing = records
      BY <1>0, <3>5, FlyingFacts, ApplyNothing DEF Landing
    <3> QED BY <3>1, <3>2, <3>4, <3>5, <3>6 DEF Operation
  <2> HIDE DEF ended, agrs, count
  <2>3. ASSUME NEW recs \in {records, Landing}, NEW a \in Agreement
        PROVE  /\ Within(recs, a, counter'[a], served'[a], answered'[a])
               /\ Within(Apply(batch', recs), a, counter'[a], served'[a], answered'[a])
    <3>1. Within(recs, a, counter'[a], served'[a], answered[a])
      <4>1. CASE a \notin agrs
        BY <1>1, <2>1, <4>1
      <4>2. CASE a \in agrs
        <5>1. /\ count(a) \in Nat /\ recs = records
              /\ Carried(records, a, counter[a]) <= count(a)
          BY <2>2, <4>2
        <5>2. /\ Bill(records, a) \in Int /\ Carried(records, a, 0) = 0
              /\ Carried(records, a, counter[a]) \in Nat
          BY <1>0, RecordsType, NoneCarries
        <5>3. Within(records, a, counter[a], served[a], answered[a])
          BY <1>1
        <5>4. Within(records, a, 0, SaturatingSub(served[a], count(a)), answered[a])
          BY <1>0, <5>1, <5>2, <5>3 DEF Within, SaturatingSub
        <5> QED BY <2>1, <4>2, <5>1, <5>4
      <4> QED BY <4>1, <4>2
    <3>2. \A o \in batch' : Writes(o) /\ o.agr = a => o.rec = counter'[a] /\ o.count = served'[a]
      BY <2>1 DEF Create, Writes
    <3> QED BY <1>0, <2>1, <3>1, <3>2, WithinApply
  <2> QED BY <2>1, <2>3, BatchFair
<1>5. ASSUME NEW b \in Agreement, Accept(b) PROVE AllFair'
  <2>1. /\ records' = records /\ Flying' = Flying /\ answered' = answered
        /\ counter' = counter /\ served' = served /\ batch' = {Create(b)}
    BY <1>5 DEF Accept, Flying
  <2>2. ASSUME NEW recs \in {records, Landing}, NEW a \in Agreement
        PROVE  /\ Within(recs, a, counter'[a], served'[a], answered'[a])
               /\ Within(Apply(batch', recs), a, counter'[a], served'[a], answered'[a])
    <3>1. \A o \in batch' : ~Writes(o)
      BY <2>1 DEF Create, Writes
    <3>2. Within(recs, a, counter[a], served[a], answered[a])
      BY <1>1
    <3> QED BY <1>0, <2>1, <3>1, <3>2, WithinApply
  <2> QED BY <2>1, <2>2, BatchFair
<1>6. CASE /\ ~ReconcileAgreements /\ ~ReconcileCounters /\ ~EndPeriods
           /\ ~\E b \in Agreement : Accept(b)
  <2>1. ~NewBatch
    BY <1>6 DEF NewBatch
  <2>2. ASSUME NEW new \in Worlds', NEW a \in Agreement
        PROVE  Within(new, a, counter'[a], served'[a], answered'[a])
    <3>1. new \in Records /\ \E recs \in Worlds : recs \in Records /\ Alike(recs, new)
      BY <2>1, WorldsFrom
    <3>2. PICK recs \in Worlds : recs \in Records /\ Alike(recs, new)
      BY <3>1
    <3>3. Fair(recs, a)
      BY DEF AllFair
    <3>4. Within(recs, a, counter'[a], served'[a], answered'[a])
      BY <1>6, <3>2, <3>3, MemoryKeeps
    <3> QED BY <3>1, <3>2, <3>4, WithinAlike
  <2> QED BY <2>2 DEF AllFair, Fair
<1> QED BY <1>2, <1>3, <1>4, <1>5, <1>6

(* So do they if memory counts on from what it has read. *)
LEMMA ReadFairStep ==
    ASSUME IInv, IInv', Phases, Alone, AllFair, ReadFair, OneWrites, DeletesZero,
           MaxPending <= 1, ~Splits, [Next]_vars
    PROVE  ReadFair'
<1> SUFFICES ASSUME pc' = "match", NEW a \in Agreement, counter'[a] = 0, Oldest(read', a) # 0,
                    NEW recs \in {records', Landing'}
             PROVE  Within(recs, a, Oldest(read', a),
                           read'[a][Oldest(read', a)].count + served'[a], answered'[a])
  BY DEF ReadFair
<1>0. /\ served \in [Agreement -> Nat] /\ answered \in [Agreement -> Nat]
      /\ records \in Records /\ records' \in Records /\ Landing \in Records /\ read \in Records
      /\ Flying \subseteq Operation /\ Landing = Apply(Flying, records)
      /\ Landing' = Apply(Flying', records')
  BY FlyingFacts DEF IInv, TypeOK, Landing, Records
<1>1. CASE /\ read' = records /\ records' = records /\ Flying' = Flying
           /\ counter' = counter /\ served' = served /\ answered' = answered
  <2>1. PICK n : n = Oldest(records, a)
    OBVIOUS
  <2>2. Oldest(read', a) = n
    BY <1>1, <2>1
  <2>3. /\ n \in 1..Len(records[a]) /\ records[a][n].state = "open"
        /\ records[a][n] \in CounterRecord
    BY <1>0, <2>1, <2>2, OldestIsOpen
  <2>4. PICK k \in Nat : k = records[a][n].count
    BY <2>3 DEF CounterRecord
  <2>5. Carried(records, a, n) = k
    BY <1>0, <2>3, <2>4, RecordsType DEF Carried
  <2>6. /\ Bill(records, a) \in Int /\ Bill(Landing, a) \in Int
        /\ Carried(Landing, a, n) \in Nat
        /\ Carried(records, a, 0) = 0 /\ Carried(Landing, a, 0) = 0
    BY <1>0, RecordsType, NoneCarries
  <2>7. /\ Bill(records, a) <= answered[a] /\ Bill(records, a) + served[a] <= answered[a]
        /\ Bill(Landing, a) <= answered[a] /\ Bill(Landing, a) + served[a] <= answered[a]
    <3>1. Fair(records, a) /\ Fair(Landing, a) /\ counter[a] = 0
      BY <1>1 DEF AllFair, Worlds
    <3> QED BY <1>0, <2>6, <3>1 DEF Fair, Within
  <2>8. Within(records, a, n, k + served[a], answered[a])
    BY <1>0, <2>4, <2>5, <2>6, <2>7 DEF Within
  <2>9. Within(Landing, a, n, k + served[a], answered[a])
    <3>1. CASE \A o \in Flying : Writes(o) /\ o.agr = a => o.rec = n
      <4>1. Bill(Landing, a) - Carried(Landing, a, n) <= Bill(records, a) - Carried(records, a, n)
        BY <1>0, <3>1, BillApply
      <4> QED BY <1>0, <2>4, <2>5, <2>6, <2>7, <4>1 DEF Within
    <3>2. ASSUME NEW o \in Flying, Writes(o), o.agr = a, o.rec # n
          PROVE  Within(Landing, a, n, k + served[a], answered[a])
      <4>1. \A p \in Flying : Writes(p) /\ p.agr = a => p.rec # n
        BY <3>2 DEF OneWrites, OneWrite
      <4>2. CASE \E d \in Flying : d.kind = "delete" /\ d.agr = a /\ d.rec = n
        <5>1. k = 0
          BY <2>4, <3>2, <4>2 DEF DeletesZero, DeletesNothing
        <5> QED BY <1>0, <2>4, <2>6, <2>7, <5>1 DEF Within
      <4>3. CASE ~\E d \in Flying : d.kind = "delete" /\ d.agr = a /\ d.rec = n
        <5>1. Onto(Flying, a, n) = {}
          BY <1>0, <4>1, <4>3 DEF Onto, Writes, Operation
        <5>2. Landing[a][n] = records[a][n]
          <6>1. Landing = records \/ Effect(records, Landing, Flying)
            BY <1>0, ApplyEffect
          <6> QED BY <2>3, <5>1, <6>1 DEF Effect
        <5>3. n \in DOMAIN Landing[a]
          <6>1. Len(Landing[a]) >= Len(records[a])
            BY <1>0, ApplyAdvances DEF Advances
          <6>2. /\ Len(Landing[a]) \in Nat /\ Len(records[a]) \in Nat
                /\ DOMAIN Landing[a] = 1..Len(Landing[a])
            BY <1>0, RecordsType
          <6> QED BY <2>3, <6>1, <6>2
        <5>4. Carried(Landing, a, n) = k
          BY <2>3, <2>4, <5>2, <5>3 DEF Carried
        <5> QED BY <1>0, <2>4, <2>6, <2>7, <5>4 DEF Within
      <4> QED BY <4>2, <4>3
    <3> QED BY <3>1, <3>2
  <2> QED BY <1>0, <1>1, <2>2, <2>4, <2>8, <2>9
<1>2. CASE /\ pc = "match" /\ read' = read /\ counter' = counter
           /\ Rests \/ Arrives \/ GetsLost
           /\ \/ served' = served /\ answered' = answered
              \/ \E b \in Agreement : RecordServed(b)
  <2>1. PICK n : n = Oldest(read, a)
    OBVIOUS
  <2>2. Oldest(read', a) = n
    BY <1>2, <2>1
  <2>3. PICK k \in Nat : k = read[a][n].count
    BY <2>1, <2>2, ReadOldest
  <2>4. \A old \in {records, Landing} : Within(old, a, n, k + served[a], answered[a])
    BY <1>2, <2>1, <2>2, <2>3 DEF ReadFair
  <2>5. recs \in Records /\ \E old \in {records, Landing} : Alike(old, recs)
    <3>1. \A old : Alike(old, old)
      BY DEF Alike, Same
    <3>2. CASE Rests
      <4>1. /\ Alike(records, records') /\ Flying' = Flying
            /\ \A o \in Flying : o.kind # "create" => o.rec \in 1..Len(records[o.agr])
        BY <3>2, HeldRefs DEF Rests
      <4>2. Landing' \in Records /\ Alike(Landing, Landing')
        BY <1>0, <4>1, AlikeApply, ApplyEffect
      <4> QED BY <1>0, <4>1, <4>2
    <3>3. CASE Arrives
      <4>1. records' = Landing /\ Landing' = Landing
        BY <1>0, <3>3, ApplyNothing DEF Arrives
      <4> QED BY <1>0, <3>1, <4>1
    <3>4. CASE GetsLost
      <4>1. records' = records /\ Landing' = records
        BY <1>0, <3>4, ApplyNothing DEF GetsLost
      <4> QED BY <1>0, <3>1, <4>1
    <3> QED BY <1>2, <3>2, <3>3, <3>4
  <2>6. Within(recs, a, n, k + served[a], answered[a])
    BY <1>0, <2>4, <2>5, WithinAlike
  <2>7. \/ served'[a] = served[a] /\ answered'[a] = answered[a]
        \/ served'[a] = served[a] + 1 /\ answered'[a] = answered[a] + 1
    BY <1>0, <1>2 DEF RecordServed
  <2>8. Within(recs, a, n, (k + served[a]) + 1, answered[a] + 1)
    <3>1. PICK w \in Nat : w = k + served[a]
      BY <1>0
    <3>2. answered[a] \in Nat
      BY <1>0
    <3>3. Within(recs, a, n, w + 1, answered[a] + 1)
      BY <2>5, <2>6, <3>1, <3>2, WithinMemory
    <3> QED BY <3>1, <3>3
  <2>9. k + (served[a] + 1) = (k + served[a]) + 1
    BY <1>0
  <2> QED BY <1>2, <2>2, <2>3, <2>6, <2>7, <2>8, <2>9
<1> QED BY <1>1, <1>2, MatchMoves

(* Initially nothing is recorded, counted or under way. *)
LEMMA InitOInv == Init => OInv
<1> SUFFICES ASSUME Init PROVE OInv
  OBVIOUS
<1>1. /\ pending = <<>> /\ Flying = {} /\ batch = {} /\ closing = {} /\ landed = {}
      /\ task = "down" /\ pc = "rest" /\ known = {} /\ records = NoRead /\ Len(pending) = 0
  BY DEF Init, Flying
<1>2. \A a \in Agreement : counter[a] = 0 /\ served[a] = 0 /\ answered[a] = 0
  BY DEF Init
<1>3. NoRead \in Records /\ \A a \in Agreement : Len(NoRead[a]) = 0
  BY DEF NoRead, Records
<1>4. Worlds = {NoRead}
  BY <1>1, <1>3, ApplyNothing DEF Worlds, Landing
<1>5. ASSUME NEW a \in Agreement PROVE Bill(NoRead, a) = 0
  <2>1. PICK f : f = Bills(NoRead, a)
    OBVIOUS
  <2>2. f \in [{} -> Int] /\ IsFiniteSet({})
    BY <1>3, <2>1, RecordsType, FS_EmptySet
  <2>3. PICK g : Solves({}, f, g) /\ Sum(f) = g[{}]
    BY <2>2, SumIsFold
  <2>4. g[{}] = 0
    BY <2>3 DEF Solves, Sums
  <2> QED BY <2>1, <2>3, <2>4 DEF Bill
<1>6. AllFair
  <2>1. ASSUME NEW a \in Agreement PROVE Fair(NoRead, a)
    BY <1>2, <1>3, <1>5, NoneCarries DEF Fair, Within
  <2> QED BY <1>4, <2>1 DEF AllFair
<1>7. OneWrites /\ DeletesZero /\ ClosesTidy /\ ClosedClean /\ Creates /\ FlyingClosed /\ Ended
  BY <1>1, <1>2 DEF OneWrites, OneWrite, DeletesZero, DeletesNothing, ClosesTidy, Tidy,
     ClosedClean, Creates, FlyingClosed, Ended
<1>8. /\ ReadFair /\ Alone /\ ServedKnown /\ ReadNow /\ ReadCounter /\ FlushRead /\ FlushWrites
      /\ DuplicateRead /\ ReadClean
  BY <1>1, <1>2 DEF ReadFair, Alone, ServedKnown, ReadNow, ReadCounter, FlushRead,
     FlushWrites,
     DuplicateRead, ReadClean
<1> QED BY <1>6, <1>7, <1>8 DEF OInv

(* Each part is kept by every step. *)
LEMMA NextOInv ==
    ASSUME MaxPending <= 1, ~Splits
    PROVE  IInv /\ IInv' /\ ZInv /\ OInv /\ [Next]_vars => OInv'
<1> SUFFICES ASSUME IInv, IInv', ZInv, OInv, [Next]_vars PROVE OInv'
  OBVIOUS
<1>0. Phases /\ FlushAlone /\ PollWrites /\ CountsKnown /\ NewUntouched
  BY DEF ZInv
<1>1. AllFair' /\ ReadFair'
  BY <1>0, AllFairStep, ReadFairStep DEF OInv
<1>2. Alone' /\ ServedKnown' /\ ReadNow' /\ ReadCounter'
  BY <1>0, Moves, ServedKnownStep, ReadNowStep, ReadCounterStep DEF OInv
<1>3. FlushRead' /\ FlushWrites' /\ OneWrites' /\ DuplicateRead' /\ DeletesZero'
  BY <1>0, FlushReadStep, FlushWritesStep, OneWritesStep, DuplicateReadStep, DeletesZeroStep
  DEF OInv
<1>4. ClosesTidy' /\ ClosedClean' /\ ReadClean'
  BY <1>0, ClosesTidyStep, ClosedCleanStep, ReadCleanStep DEF OInv
<1>5. Creates' /\ FlyingClosed' /\ Ended'
  BY <1>0, CreatesStep, FlyingClosedStep, EndedStep DEF OInv
<1> QED BY <1>1, <1>2, <1>3, <1>4, <1>5 DEF OInv

(* A provider is billed for no more than its clients got answers to, for any
   agreements and any number of requests and records, whichever answers are
   lost, whenever a lost write lands, and however often the process crashes or
   stops (reconcile_counters, counts_batch and end_periods: the count of a
   period leaves the entry exactly once).  At most one write is unresolved at
   a time, batches go whole, and no flush's write outlasts a flush interval:
   without any one of the three it is false. *)
THEOREM NeverOverbilled ==
    ASSUME MaxPending <= 1, ~Splits, ~Stalls
    PROVE  Spec => []NoOverbilling
<1>1. IInv /\ OInv => NoOverbilling
  <2> SUFFICES ASSUME IInv, OInv, NEW a \in Agreement PROVE Billed(a) <= answered[a]
    BY DEF NoOverbilling
  <2>1. Bill(records, a) <= answered[a]
    BY DEF OInv, AllFair, Worlds, Fair, Within
  <2> DEFINE carried == [n \in DOMAIN records[a] |->
                           IF records[a][n].state = "deleted" THEN 0 ELSE records[a][n].count]
  <2>2. carried = Bills(records, a)
    BY DEF Bills, Carried
  <2>3. Billed(a) = Sum(carried)
    BY DEF Billed, Sum
  <2> HIDE DEF carried
  <2> QED BY <2>1, <2>2, <2>3 DEF Bill
<1>2. Spec => []ZInv
  BY InitZInv, NextZInv, Inductive, PTL DEF Spec
<1>3. Spec => []OInv
  BY InitOInv, NextOInv, Inductive, <1>2, PTL DEF Spec
<1> QED BY <1>1, <1>3, Inductive, PTL
=============================================================================
