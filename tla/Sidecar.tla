------------------------------ MODULE Sidecar -------------------------------
(***************************************************************************)
(* The LB's writes, from a batch to the chain: send splits a batch the     *)
(* node refuses as too large (crates/lb/src/chain/writer.rs), the client   *)
(* posts a part and gives up after its timeout, and the sidecar            *)
(* (writer/src/service.ts) queues what it is given and makes one           *)
(* transaction at a time.  Several tasks write: the agent's loop, and one  *)
(* for each tunnel that was admitted.                                      *)
(*                                                                         *)
(* Time passes in ticks, as long as anything is queued: while a write is   *)
(* priced, signed and sent, and while it waits to be mined.  Every         *)
(* operation is a value of its own, so a part of a batch is known by its   *)
(* operations.                                                             *)
(***************************************************************************)
EXTENDS Integers, Sequences, FiniteSets, SequencesExt

CONSTANTS
    Caller,       \* tasks of the LB that write
    BatchOf,      \* the operations each has to write
    BodyFits,     \* operations the sidecar takes in one body
    Fits,         \* operations the node takes in one transaction
    ReceiptWait,  \* the sidecar's wait for a receipt, in ticks
    Timeout,      \* the client's, in ticks
    Restarts      \* bound: how often sidecar or node may restart

ASSUME SidecarAssumption ==
    /\ BatchOf \in [Caller -> Seq(Nat)] /\ \A c \in Caller : IsInjective(BatchOf[c])
    /\ \A c, d \in Caller : c # d => Range(BatchOf[c]) \cap Range(BatchOf[d]) = {}
    /\ Fits \in Nat \ {0} /\ BodyFits \in Nat \ {0}
    /\ ReceiptWait \in Nat /\ Timeout \in Nat /\ ReceiptWait < Timeout
    /\ Restarts \in Nat

VARIABLES
    todo,     \* per caller: parts of its batch still to send, in order
    waiting,  \* per caller: the part whose answer it waits for, <<>> if none
    age,      \* per caller: ticks since it posted that part
    reports,  \* per caller: parts settled, with what the client was told
    queue,    \* the sidecar's queue, the write in progress included
    active,   \* writes in progress: their nonce, where they are, ticks since sent
    mempool,  \* transactions the node holds
    mined,    \* transactions mined so far
    landed,   \* the parts that landed, in order
    restarts, \* restarts so far
    unheard   \* history: parts sent, and the sidecar did not hear how they ended

callerVars == <<todo, waiting, age, reports>>
nodeVars == <<mempool, mined, landed>>
vars == <<todo, waiting, age, reports, queue, active, mempool, mined, landed, restarts,
          unheard>>

Init ==
    /\ todo = [c \in Caller |-> IF BatchOf[c] = <<>> THEN <<>> ELSE <<BatchOf[c]>>]
    /\ waiting = [c \in Caller |-> <<>>] /\ age = [c \in Caller |-> 0]
    /\ reports = [c \in Caller |-> <<>>]
    /\ queue = <<>> /\ active = {} /\ mempool = {} /\ mined = 0 /\ landed = <<>>
    /\ restarts = 0 /\ unheard = {}

(***************************************************************************)
(* The caller: send, execute_batch, post.                                  *)
(***************************************************************************)

(* Variant for the checks: the second half begins one operation late. *)
HalvesWithGap(ops) == <<SubSeq(ops, 1, Len(ops) \div 2),
                        SubSeq(ops, (Len(ops) + 1) \div 2 + 1, Len(ops))>>

Halves(ops) == <<SubSeq(ops, 1, Len(ops) \div 2),
                 SubSeq(ops, Len(ops) \div 2 + 1, Len(ops))>>

Report(part, result) == [part |-> part, result |-> result]

(* A body that decodes takes its place in the queue at once. *)
Post(c) ==
    /\ waiting[c] = <<>> /\ todo[c] # <<>> /\ Len(Head(todo[c])) <= BodyFits
    /\ waiting' = [waiting EXCEPT ![c] = Head(todo[c])]
    /\ todo' = [todo EXCEPT ![c] = Tail(@)] /\ age' = [age EXCEPT ![c] = 0]
    /\ queue' = Append(queue, Head(todo[c]))
    /\ UNCHANGED <<reports, active, nodeVars, restarts, unheard>>

(* 400 and the sidecar's own 413: a body that does not decode or is over
   MAX_BODY_BYTES is answered without a place in the queue. *)
Bounce(c) ==
    /\ waiting[c] = <<>> /\ todo[c] # <<>>
    /\ LET part == Head(todo[c])
           result == IF Len(part) > BodyFits THEN "too_large" ELSE "refused"
           split == result = "too_large" /\ Len(part) > 1
       IN /\ todo' = [todo EXCEPT ![c] = (IF split THEN Halves(part) ELSE <<>>) \o Tail(@)]
          /\ reports' = IF split THEN reports
                        ELSE [reports EXCEPT ![c] = Append(@, Report(part, result))]
    /\ UNCHANGED <<waiting, age, queue, active, nodeVars, restarts, unheard>>

(* The callers after these parts were answered: a part that is too large
   and can be split is, and the halves are sent next; any other answer is
   reported.  A caller that gave up is not there to be told. *)
Told(parts, result) ==
    LET is(c) == waiting[c] \in parts
        split(c) == is(c) /\ result = "too_large" /\ Len(waiting[c]) > 1
    IN /\ todo' = [c \in Caller |-> IF split(c) THEN Halves(waiting[c]) \o todo[c]
                                    ELSE todo[c]]
       /\ reports' = [c \in Caller |->
                        IF is(c) /\ ~split(c)
                        THEN Append(reports[c], Report(waiting[c], result))
                        ELSE reports[c]]
       /\ waiting' = [c \in Caller |-> IF is(c) THEN <<>> ELSE waiting[c]]
       /\ age' = [c \in Caller |-> IF is(c) THEN 0 ELSE age[c]]

(* Variant for the checks: the client tries again what it got no answer to. *)
GiveUpRetry(c) ==
    /\ waiting[c] # <<>> /\ age[c] = Timeout
    /\ todo' = [todo EXCEPT ![c] = <<waiting[c]>> \o @]
    /\ waiting' = [waiting EXCEPT ![c] = <<>>] /\ age' = [age EXCEPT ![c] = 0]
    /\ UNCHANGED <<reports, queue, active, nodeVars, restarts, unheard>>

(* The client's timeout: the part stays where it is in the sidecar. *)
GiveUp(c) ==
    /\ waiting[c] # <<>> /\ age[c] = Timeout
    /\ reports' = [reports EXCEPT ![c] = Append(@, Report(waiting[c], "gave_up"))]
    /\ waiting' = [waiting EXCEPT ![c] = <<>>] /\ age' = [age EXCEPT ![c] = 0]
    /\ UNCHANGED <<todo, queue, active, nodeVars, restarts, unheard>>

(***************************************************************************)
(* The sidecar: enqueue, and what a write does.                            *)
(***************************************************************************)

(* Variant for the checks: a write begins whatever else is in progress. *)
AtOnce(w) == \A a \in active : a.part # w

(* tail.then: a write begins when the one before it is over. *)
Turn(w) == active = {} /\ w = Head(queue)

(* The first nonce the node neither mined nor holds. *)
PendingNonce ==
    CHOOSE n \in mined + 1 .. mined + Cardinality(mempool) + 1 :
        /\ \A t \in mempool : t.nonce # n
        /\ \A k \in mined + 1 .. n - 1 : \E t \in mempool : t.nonce = k

(* The node prices the transaction and gives its nonce. *)
Begin(w) ==
    /\ w \in Range(queue) /\ Turn(w) /\ Len(w) <= Fits
    /\ active' = active \cup {[part |-> w, nonce |-> PendingNonce,
                               at |-> "signed", waited |-> 0]}
    /\ UNCHANGED <<callerVars, queue, nodeVars, restarts, unheard>>

(* Variant for the checks: a write that failed keeps its place. *)
ProceedUnlessFailed(result) ==
    queue' = IF result = "failed" THEN queue ELSE Tail(queue)

(* tail = result.catch: whatever became of it, the next one's turn. *)
Proceed(result) == queue' = Tail(queue)

Over(w, result) == /\ Proceed(result)
                   /\ active' = {a \in active : a.part # w}
                   /\ Told({w}, result)

(* 413: refused for its size, nothing was sent. *)
Oversized(w) ==
    /\ w \in Range(queue) /\ Turn(w) /\ Len(w) > Fits
    /\ Over(w, "too_large")
    /\ UNCHANGED <<nodeVars, restarts, unheard>>

(* 500: it cannot be priced, signed or sent. *)
NotSent(a) ==
    /\ a.at = "signed"
    /\ Over(a.part, "failed")
    /\ UNCHANGED <<nodeVars, restarts, unheard>>

Entered(a) == mempool \cup {[part |-> a.part, nonce |-> a.nonce]}

Send(a) ==
    /\ a.at = "signed"
    /\ mempool' = Entered(a)
    /\ active' = (active \ {a}) \cup {[a EXCEPT !.at = "sent"]}
    /\ UNCHANGED <<callerVars, queue, mined, landed, restarts, unheard>>

(* 500 as well: sent, and the node's answer to the send is lost. *)
SendUnheard(a) ==
    /\ a.at = "signed"
    /\ mempool' = Entered(a)
    /\ unheard' = unheard \cup {a.part}
    /\ Over(a.part, "failed")
    /\ UNCHANGED <<mined, landed, restarts>>

(* 200, or 500 when it reverted. *)
Receipt(a) ==
    /\ a.at \in {"landed", "reverted"}
    /\ Over(a.part, IF a.at = "landed" THEN "written" ELSE "failed")
    /\ UNCHANGED <<nodeVars, restarts, unheard>>

(* Variant for the checks: a write nobody saw mined is a write that failed. *)
TimeoutFails(a) ==
    /\ a.at = "sent" /\ a.waited = ReceiptWait
    /\ Over(a.part, "failed")
    /\ UNCHANGED <<nodeVars, restarts, unheard>>

(* 504: no receipt in time, by pendingTxHash; the transaction may be mined
   since the last poll. *)
NoReceipt(a) ==
    /\ a.at # "signed" /\ a.waited = ReceiptWait
    /\ Over(a.part, "unresolved")
    /\ UNCHANGED <<nodeVars, restarts, unheard>>

(* 500 again: the wait for the receipt ends in an error that is not its
   timeout, whatever became of the transaction. *)
ReceiptWaitFails(a) ==
    /\ a.at # "signed"
    /\ unheard' = unheard \cup {a.part}
    /\ Over(a.part, "failed")
    /\ UNCHANGED <<nodeVars, restarts>>

(* The sidecar restarts: its queue is gone, and its callers are cut off. *)
Restart ==
    /\ restarts < Restarts /\ restarts' = restarts + 1
    /\ queue' = <<>> /\ active' = {} /\ Told(Range(queue), "cut_off")
    /\ UNCHANGED <<nodeVars, unheard>>

(***************************************************************************)
(* The node, and time.                                                     *)
(***************************************************************************)
Watched(w, fate) == {IF a.part = w /\ a.at = "sent" THEN [a EXCEPT !.at = fate] ELSE a :
                       a \in active}

Mine ==
    \E t \in mempool :
        /\ t.nonce = mined + 1 /\ mined' = t.nonce /\ mempool' = mempool \ {t}
        /\ \/ landed' = Append(landed, t.part) /\ active' = Watched(t.part, "landed")
           \/ UNCHANGED landed /\ active' = Watched(t.part, "reverted")
        /\ UNCHANGED <<callerVars, queue, restarts, unheard>>

(* A restart of the node may empty its mempool. *)
Forget ==
    /\ restarts < Restarts /\ restarts' = restarts + 1 /\ mempool # {}
    /\ mempool' = {}
    /\ UNCHANGED <<callerVars, queue, active, mined, landed, unheard>>

(* Only the wait for the receipt has an end of the sidecar's own; the
   client's age runs through everything. *)
Tick ==
    /\ queue # <<>> /\ \A a \in active : a.waited < ReceiptWait
    /\ \A c \in Caller : waiting[c] # <<>> => age[c] < Timeout
    /\ active' = {IF a.at = "signed" THEN a ELSE [a EXCEPT !.waited = @ + 1] : a \in active}
    /\ age' = [c \in Caller |-> IF waiting[c] # <<>> THEN age[c] + 1 ELSE age[c]]
    /\ UNCHANGED <<todo, waiting, reports, queue, nodeVars, restarts, unheard>>

(* What the sidecar does with the write whose turn it is. *)
Serve ==
    \/ \E w \in Range(queue) : Begin(w) \/ Oversized(w)
    \/ \E a \in active : NotSent(a) \/ Send(a) \/ SendUnheard(a) \/ Receipt(a) \/ NoReceipt(a)

Next ==
    \/ \E c \in Caller : Post(c) \/ Bounce(c) \/ GiveUp(c)
    \/ Serve \/ Restart \/ Mine \/ Forget \/ Tick
    \/ \E a \in active : ReceiptWaitFails(a)

Spec == Init /\ [][Next]_vars

(* Promises settle when they can, time passes, and clients have timeouts. *)
FairSpec == Spec /\ WF_vars(Serve) /\ WF_vars(Tick) /\ \A c \in Caller : WF_vars(GiveUp(c))
-----------------------------------------------------------------------------
Result == {"written", "refused", "too_large", "failed", "unresolved", "gave_up", "cut_off"}

(* Types; one write at a time. *)
TypeOK ==
    /\ todo \in [Caller -> Seq(Seq(Nat))] /\ waiting \in [Caller -> Seq(Nat)]
    /\ age \in [Caller -> 0..Timeout]
    /\ reports \in [Caller -> Seq([part: Seq(Nat), result: Result])]
    /\ queue \in Seq(Seq(Nat)) /\ Cardinality(active) <= 1
    /\ \A a \in active : /\ a.part \in Seq(Nat) /\ a.nonce \in Nat
                         /\ a.at \in {"signed", "sent", "landed", "reverted"}
                         /\ a.waited \in 0..ReceiptWait
    /\ \A t \in mempool : t \in [part: Seq(Nat), nonce: Nat]
    /\ mined \in Nat
    /\ landed \in Seq(Seq(Nat)) /\ restarts \in Nat

(* No transaction takes the nonce of another: those the node holds have
   nonces of their own, none mined before, over timeouts, restarts of the
   sidecar, and a node that forgets what it held between the moment a write
   takes its nonce and the moment it is sent (service.ts: "One write in
   flight at a time"). *)
OneNonceEach ==
    \A t \in mempool : /\ t.nonce > mined
                       /\ \A u \in mempool : u.nonce = t.nonce => u = t

Held(part) == \E t \in mempool : t.part = part

(* A caller is told the truth: what it is told is written has landed, and
   what it is told was refused or failed neither has nor can, unless the
   sidecar lost the node's answer: to the send, or in the wait for the
   receipt. *)
AnswerIsTrue ==
    \A c \in Caller : \A i \in DOMAIN reports[c] :
        LET r == reports[c][i] IN
        /\ r.result = "written" => r.part \in Range(landed)
        /\ r.result \in {"refused", "failed", "too_large"} =>
              r.part \in unheard \/ (r.part \notin Range(landed) /\ ~Held(r.part))

(* What docs/CHAIN_WRITER.md says of a 500: "the write failed: the
   transaction reverted or could not be sent", so it never lands.  The code
   answers 500 to a lost answer too, and what was sent may land. *)
FailedNeverLands ==
    \A c \in Caller : \A i \in DOMAIN reports[c] :
        reports[c][i].result = "failed" => reports[c][i].part \notin Range(landed)

(* Splitting loses no operation and sends none twice: what was reported,
   what is being sent and what is still to send are together the batch, in
   its order (send: "split in halves and those are sent, in order"). *)
BatchAccounted ==
    \A c \in Caller :
        LET done == [i \in DOMAIN reports[c] |-> reports[c][i].part]
        IN FlattenSeq(done) \o waiting[c] \o FlattenSeq(todo[c]) = BatchOf[c]

(* No operation lands twice, also when the client gave up on it, the sidecar
   restarted or the batch was split meanwhile. *)
LandsOnce ==
    \A i, j \in DOMAIN landed : i # j => Range(landed[i]) \cap Range(landed[j]) = {}

(* What TIMEOUT's comment says: "Above the sidecar's own 180 s receipt wait,
   so its 504 arrives before this client gives up".  TLC refutes it also
   where the queue cannot delay a write, with one caller and one operation:
   the calls that price and send it count against the client's time too. *)
NeverGivesUp ==
    \A c \in Caller : \A i \in DOMAIN reports[c] : reports[c][i].result # "gave_up"

(* Every write that was queued leaves the queue, whatever became of the
   ones before it (enqueue: "a failed write never blocks the next"). *)
QueueDrains == queue # <<>> ~> queue = <<>>
=============================================================================
