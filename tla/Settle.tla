------------------------------- MODULE Settle -------------------------------
(***************************************************************************)
(* Settlement (settle/src): a run reads the closed counter records and the *)
(* receipts, page by page, makes one transfer per provider on the payout   *)
(* chain, and writes the receipts that tell the next run not to pay again. *)
(* A transfer can be lost sight of and mined later, a batch of receipts    *)
(* can be refused, and the process can die between any two steps.          *)
(*                                                                         *)
(* Runs do not overlap (docs/LIMITATIONS.md asks for it).  After a run     *)
(* that did not exit 0 a person checks the transfers it made before the    *)
(* next one, as docs/RUNBOOK.md has it.  The keys of rows are numbers.     *)
(***************************************************************************)
EXTENDS Integers, Sequences, FiniteSets, FiniteSetsExt

CONSTANTS
    Record,      \* counter records, numbered by key
    ProviderOf,  \* provider of each, numbered by address
    Page,        \* rows of a page
    BatchSize,   \* RECEIPTS_PER_BATCH
    MaxLife,     \* the chain's longest lifetime, and a receipt's
    Lag,         \* least blocks from a record's creation to its close
    MaxHead,     \* bound: the chain's height
    MaxRuns,     \* bound: runs
    MaxKey,      \* bound: settle keys, the current one and earlier ones
    Crashes      \* the process may die in a run

ASSUME SettleAssumption ==
    /\ Record \subseteq Nat \ {0} /\ IsFiniteSet(Record) /\ ProviderOf \in [Record -> Nat]
    /\ Page \in Nat \ {0} /\ BatchSize \in Nat \ {0}
    /\ MaxLife \in Nat /\ Lag \in Nat \ {0} /\ Lag < MaxLife
    /\ MaxHead \in Nat /\ MaxRuns \in Nat /\ MaxKey \in Nat \ {0}
    /\ Crashes \in BOOLEAN

VARIABLES
    head,      \* Arkiv's height
    expires,   \* Arkiv: each record's expiry, 0 until it is closed
    receipts,  \* Arkiv: receipts written, with their expiry
    flights,   \* payout chain: transfers sent and not mined
    landed,    \* payout chain: the records of each transfer mined, in order
    key,       \* the settle key in use; the ones before it are configured
    clear,     \* the last run exited 0, or a person has checked after it
    runs,      \* runs started
    pc,        \* where the run is
    began,     \* head when the run began
    rows,      \* rows of the query being read
    after,     \* the last key read
    found,     \* closed records the run read
    asked,     \* provider and payer whose receipts are being read
    plan,      \* records of the ledger that are owed
    tried,     \* providers the run has come to
    batch,     \* records whose receipts are still to be written
    missing,   \* receipts that were refused
    due        \* history: what a run beginning now has to find

chainVars == <<head, expires, receipts, flights, landed, key>>
runVars == <<began, rows, after, found, asked, plan, tried, batch, missing, due>>
vars == <<head, expires, receipts, flights, landed, key, clear, runs, pc, began, rows,
          after, found, asked, plan, tried, batch, missing, due>>

Live(r) == expires[r] > head

(* A receipt of this payer that a query for the provider finds. *)
Receipted(p, k) == {x.counter : x \in {y \in receipts : y.payer = k /\ y.expires > head
                                                        /\ ProviderOf[y.counter] = p}}

Providers(R) == {ProviderOf[r] : r \in R}

Of(p, R) == {r \in R : ProviderOf[r] = p}

(* Records a transfer that was mined covered. *)
PaidFor == UNION {landed[i] : i \in DOMAIN landed}

NoRun == /\ began = 0 /\ rows = {} /\ after = 0 /\ found = {} /\ asked = <<0, 0>>
         /\ plan = {} /\ tried = {} /\ batch = {} /\ missing = 0 /\ due = {}

Init ==
    /\ head = 0 /\ expires = [r \in Record |-> 0] /\ receipts = {}
    /\ flights = {} /\ landed = <<>> /\ key = 1
    /\ clear = TRUE /\ runs = 0 /\ pc = "rest" /\ NoRun

(***************************************************************************)
(* The two chains.                                                         *)
(***************************************************************************)

(* The reads of a run take fewer blocks than a record is open for. *)
HeadAdvances ==
    /\ head < MaxHead
    /\ pc \in {"closed", "receipts"} => head < began + Lag
    /\ head' = head + 1
    /\ UNCHANGED <<expires, receipts, flights, landed, key, clear, runs, pc, runVars>>

(* The LB closes a record, which lives on for what is left of its life. *)
Close(r) ==
    /\ expires[r] = 0
    /\ \E left \in 1..(MaxLife - Lag) : expires' = [expires EXCEPT ![r] = head + left]
    /\ UNCHANGED <<head, receipts, flights, landed, key, clear, runs, pc, runVars>>

Mine(f) ==
    /\ f \in flights
    /\ flights' = flights \ {f} /\ landed' = Append(landed, f)
    /\ UNCHANGED <<head, expires, receipts, key, clear, runs, pc, runVars>>

(* Reverted, or never mined. *)
Drop(f) ==
    /\ f \in flights
    /\ flights' = flights \ {f}
    /\ UNCHANGED <<head, expires, receipts, landed, key, clear, runs, pc, runVars>>

(***************************************************************************)
(* A run's end.                                                            *)
(***************************************************************************)
Stop(exit) == /\ clear' = (exit = 0) /\ pc' = "rest"
              /\ began' = 0 /\ rows' = {} /\ after' = 0 /\ found' = {} /\ asked' = <<0, 0>>
              /\ plan' = {} /\ tried' = {} /\ batch' = {} /\ missing' = 0 /\ due' = {}

(* An error before the first transfer: a read that fails, a page out of
   order, a record that does not decode, a balance that is short. *)
Refuse ==
    /\ pc \in {"closed", "receipts", "balances"}
    /\ Stop(1)
    /\ UNCHANGED <<chainVars, runs>>

(* The process dies, wherever it is. *)
Crash ==
    /\ Crashes /\ pc # "rest"
    /\ Stop(1)
    /\ UNCHANGED <<chainVars, runs>>

(* After a run that did not exit 0 a person waits for its transfers and
   writes the receipts that are missing. *)
Reconcile ==
    /\ pc = "rest" /\ ~clear /\ flights = {}
    /\ clear' = TRUE
    /\ receipts' = receipts \cup
         {[counter |-> r, payer |-> key, expires |-> head + MaxLife] :
            r \in {s \in PaidFor : Live(s) /\ \A x \in receipts : x.counter # s}}
    /\ UNCHANGED <<head, expires, flights, landed, key, runs, pc, runVars>>

RotateKey ==
    /\ pc = "rest" /\ key < MaxKey
    /\ key' = key + 1
    /\ UNCHANGED <<head, expires, receipts, flights, landed, clear, runs, pc, runVars>>

(***************************************************************************)
(* The ledger.                                                             *)
(***************************************************************************)
Start ==
    /\ pc = "rest" /\ clear /\ runs < MaxRuns
    /\ pc' = "closed" /\ runs' = runs + 1 /\ began' = head
    /\ due' = {r \in Record : Live(r)} \ PaidFor
    /\ UNCHANGED <<chainVars, clear, rows, after, found, asked, plan, tried, batch, missing>>

(* What the query has after the last key read. *)
Beyond(S) == {k \in S : k > after}

(* everyPage: a page is the next rows in key order, as many as the node
   cares to return. *)
PageOf(S, n) == {k \in Beyond(S) : Cardinality({j \in Beyond(S) : j < k}) < n}

(* Variant for the checks: a page that is not full is taken for the last. *)
ShortPageEnds(S) == Beyond(S) = {} \/ (after # 0 /\ Cardinality(rows) % Page # 0)

(* Only an empty page is the end. *)
LastPage(S) == Beyond(S) = {}

More(S) ==
    /\ ~LastPage(S)
    /\ \E n \in 1..Page : /\ rows' = rows \cup PageOf(S, n)
                          /\ after' = Max(PageOf(S, n))

ClosedPage ==
    /\ pc = "closed" /\ More({r \in Record : Live(r)})
    /\ UNCHANGED <<chainVars, clear, runs, pc, began, found, asked, plan, tried, batch,
                   missing, due>>

(* Every closed record was read: on to the receipts of the first provider. *)
ClosedRead ==
    /\ pc = "closed" /\ LastPage({r \in Record : Live(r)})
    /\ found' = rows /\ rows' = {} /\ after' = 0
    /\ IF rows = {}
       THEN pc' = "balances" /\ UNCHANGED asked
       ELSE pc' = "receipts" /\ asked' = <<Min(Providers(rows)), key>>
    /\ UNCHANGED <<chainVars, clear, runs, began, plan, tried, batch, missing, due>>

ReceiptsPage ==
    /\ pc = "receipts" /\ More(Receipted(asked[1], asked[2]))
    /\ UNCHANGED <<chainVars, clear, runs, pc, began, found, asked, plan, tried, batch,
                   missing, due>>

(* Variant for the checks: the receipts of earlier keys are not read. *)
OwnKeyOnly(k) == 0

(* Variant for the checks: the list of payers is walked the wrong way. *)
LaterPayer(k) == k + 1

(* The payer whose receipts come next, 0 after the last: this run's own
   key, then the earlier ones. *)
NextPayer(k) == k - 1

(* What this payer's receipts name is settled: it leaves the records found.
   After the last payer the rest of the provider's are owed. *)
ReceiptsRead ==
    /\ pc = "receipts" /\ LastPage(Receipted(asked[1], asked[2]))
    /\ rows' = {} /\ after' = 0
    /\ LET p == asked[1]
           unpaid == found \ rows
           rest == unpaid \ Of(p, unpaid)
       IN IF NextPayer(asked[2]) > 0
          THEN /\ asked' = <<p, NextPayer(asked[2])>> /\ found' = unpaid
               /\ UNCHANGED <<pc, plan>>
          ELSE /\ plan' = plan \cup Of(p, unpaid) /\ found' = rest
               /\ IF rest = {} THEN pc' = "balances" /\ asked' = <<0, 0>>
                  ELSE asked' = <<Min(Providers(rest)), key>> /\ UNCHANGED pc
    /\ UNCHANGED <<chainVars, clear, runs, began, tried, batch, missing, due>>

(* A rehearsal, or nothing to pay: the run ends and nothing was sent. *)
Rehearsed ==
    /\ pc = "balances"
    /\ Stop(0)
    /\ UNCHANGED <<chainVars, runs>>

(* problems finds none: the run pays. *)
Balanced ==
    /\ pc = "balances" /\ plan # {}
    /\ pc' = "pay"
    /\ UNCHANGED <<chainVars, clear, runs, runVars>>

(***************************************************************************)
(* pay and payOne.                                                         *)
(***************************************************************************)

(* The provider whose turn it is. *)
Payee == Min(Providers(plan) \ tried)

Broadcast ==
    /\ pc = "pay"
    /\ flights' = flights \cup {Of(Payee, plan)}
    /\ batch' = Of(Payee, plan) /\ tried' = tried \cup {Payee} /\ pc' = "wait"
    /\ UNCHANGED <<head, expires, receipts, landed, key, clear, runs, began, rows, after,
                   found, asked, plan, missing, due>>

(* It cannot be prepared or signed: nothing left, and the run ends. *)
NotSent ==
    /\ pc = "pay"
    /\ Stop(1)
    /\ UNCHANGED <<chainVars, runs>>

(* The transfer's receipt says success. *)
SeenMined ==
    /\ pc = "wait" /\ batch \notin flights
    /\ landed # <<>> /\ landed[Len(landed)] = batch

Paid ==
    /\ SeenMined
    /\ pc' = "write"
    /\ UNCHANGED <<chainVars, clear, runs, runVars>>

(* Reverted; or lost sight of (Unresolved), mined or not, now or later. *)
Failed ==
    /\ pc = "wait"
    /\ Stop(1)
    /\ UNCHANGED <<chainVars, runs>>

(* A batch at a time, in the ledger's order: oldest period first, numbers here. *)
BatchOf(R) == {r \in R : Cardinality({s \in R : s < r}) < BatchSize}

(* Variant for the checks: a receipt that lives as long as a block. *)
ShortReceipts(R) == {[counter |-> r, payer |-> key, expires |-> head + 1] : r \in R}

(* receiptFor: written after the record, with the longest life there is. *)
ReceiptsFor(R) == {[counter |-> r, payer |-> key, expires |-> head + MaxLife] : r \in R}

WriteReceipts ==
    /\ pc = "write" /\ batch # {}
    /\ receipts' = receipts \cup ReceiptsFor(BatchOf(batch))
    /\ batch' = batch \ BatchOf(batch)
    /\ UNCHANGED <<head, expires, flights, landed, key, clear, runs, pc, began, rows,
                   after, found, asked, plan, tried, missing, due>>

(* It fails, or its answer is lost: counted missing, and the next batch is
   tried all the same. *)
WriteFails ==
    /\ pc = "write" /\ batch # {}
    /\ \/ receipts' = receipts \cup ReceiptsFor(BatchOf(batch))
       \/ UNCHANGED receipts
    /\ missing' = missing + Cardinality(BatchOf(batch))
    /\ batch' = batch \ BatchOf(batch)
    /\ UNCHANGED <<head, expires, flights, landed, key, clear, runs, pc, began, rows,
                   after, found, asked, plan, tried, due>>

NextProvider ==
    /\ pc = "write" /\ batch = {} /\ missing = 0 /\ Providers(plan) # tried
    /\ pc' = "pay"
    /\ UNCHANGED <<chainVars, clear, runs, runVars>>

(* The exit code: everybody paid, and every receipt written. *)
ExitCode == IF Providers(plan) = tried /\ missing = 0 THEN 0 ELSE 1

(* The last provider, or PAID BUT NOT RECEIPTED. *)
Finish ==
    /\ pc = "write" /\ batch = {} /\ (missing > 0 \/ Providers(plan) = tried)
    /\ Stop(ExitCode)
    /\ UNCHANGED <<chainVars, runs>>

Next ==
    \/ HeadAdvances \/ \E r \in Record : Close(r)
    \/ \E f \in flights : Mine(f) \/ Drop(f)
    \/ Refuse \/ Crash \/ Reconcile \/ RotateKey
    \/ Start \/ ClosedPage \/ ClosedRead \/ ReceiptsPage \/ ReceiptsRead
    \/ Rehearsed \/ Balanced \/ Broadcast \/ NotSent \/ Paid \/ Failed
    \/ WriteReceipts \/ WriteFails \/ NextProvider \/ Finish

Spec == Init /\ [][Next]_vars
-----------------------------------------------------------------------------
(* Types. *)
TypeOK ==
    /\ head \in Nat /\ expires \in [Record -> Nat]
    /\ receipts \subseteq [counter: Record, payer: 1..MaxKey, expires: Nat]
    /\ flights \subseteq SUBSET Record /\ landed \in Seq(SUBSET Record) /\ key \in 1..MaxKey
    /\ clear \in BOOLEAN /\ runs \in Nat
    /\ pc \in {"rest", "closed", "receipts", "balances", "pay", "wait", "write"}
    /\ began \in Nat /\ rows \subseteq Record /\ after \in Nat /\ found \subseteq Record
    /\ asked \in Nat \X (0..MaxKey) /\ plan \subseteq Record /\ tried \subseteq Providers(plan)
    /\ batch \subseteq Record /\ missing \in Nat /\ due \subseteq Record

Promise == INSTANCE Payments WITH
    closed <- {r \in Record : expires[r] # 0},
    payments <- landed,
    receipted <- {x.counter : x \in receipts}

(* Settlement keeps its promise: no record is paid twice and no receipt is
   written before the money moved, whatever was lost or refused, however
   the node cuts its pages, across crashes, rotated keys and receipts that
   expire, as long as a person looks after every run that did not exit 0
   (pay.ts: "the receipts are how a later run knows not to pay again"). *)
PromiseKept == Promise!Spec

(* A run pays what it had to find: every record that was closed, unpaid and
   without a receipt when it began and is still there when it has read
   everything (ledger: "every closed counter record the LB wrote that no
   receipt of ours, or of an earlier settle key, names yet"). *)
PlanComplete ==
    pc \in {"balances", "pay", "wait", "write"} =>
        \A r \in due : Live(r) => r \in plan

(* Between runs that exited 0, money and receipts agree: a record that was
   paid and still exists has a receipt that does, and no transfer is out. *)
ClearMeansSettled ==
    (pc = "rest" /\ clear) =>
        /\ flights = {}
        /\ \A r \in PaidFor : Live(r) => \E k \in 1..key : r \in Receipted(ProviderOf[r], k)

(* Every provider the ledger names is come to before a run ends that began
   to pay, also after a transfer that failed (docs/RUNBOOK.md: "the run says
   so, moves to the next provider"). *)
MovesOn ==
    [][(pc \in {"pay", "wait"} /\ pc' = "rest") =>
         Providers(plan) \ tried \subseteq (IF pc = "pay" THEN {Payee} ELSE {})]_vars
=============================================================================
