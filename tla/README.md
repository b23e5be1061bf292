# A TLA+ model of the Arkiv community load balancer

The load balancer (LB) answers JSON-RPC requests from a pool of provider
nodes. It decides all the time which of them are fit to serve, and, with
its marketplace on, it recruits providers through records on a chain, counts
what each of them served and writes those counts to the chain, where a
separate program pays them. These modules model the parts where that goes
wrong in ways a test hardly reaches: threads that update one entry, writes
whose answer is lost, crashes and restarts, timers that race.

Paths below are relative to the repository; `agent.rs`, `pool.rs` and so on
are the files under `crates/lb/src`.

## 1. Inventory of the system

| part | code | state | operations | modelled by |
|---|---|---|---|---|
| Counting and billing | `marketplace/agent.rs` | per agreement: the counter record in use, `served`; on chain: counter records | start, counter reconcile, flush, stop flush, end of an agreement | `Counters` |
| Discovery and acceptance | `marketplace/agent.rs` | `KnownAgreements`; on chain: offers, agreement records | poll: reconcile, adopt, end, walk the offers, accept | `Acceptance` |
| Refresh, admission's extend | `marketplace/agent.rs` | expiries in memory and on chain, admission tasks | batch of extends, one extend at admission, `ensure_listing` | `Tenure` |
| Tunnel admission | `marketplace/admission.rs`, `admin.rs` | none of its own | decide_admission, `admitted` | `Tenure`; its probe: `Probing` |
| Pool entry | `pool.rs` | two gates, health streak, chain verdict, next probe, counters | record_health, quarantine, record_integrity, schedule_probe_now | `Eligibility` |
| Rotation | `pool.rs` | members, cursor | add, remove, next_eligible | `Failover` |
| Health Monitor | `monitor.rs` | timer, reference height, chain round | sweep: chain check, probe, backoff | `Eligibility`, `Probing` |
| Proxy, request filtering | `proxy.rs`, `forwarder.rs`, `denylist.rs` | a request's attempts and deadline, `LbOutcomes` | check, attempt, fail over, answer | `Failover`; what an attempt does to a gate: `Eligibility` |
| Integrity checker | `integrity.rs` | findings of a round | round, judge, confirm, record; a check at admission | `Eligibility` |
| Chain writer client | `chain/writer.rs` | parts of a batch still to send | send (splits batches), timeout, classes of errors | `Sidecar`; seen from the agent: `Counters`, `Acceptance` |
| Writer sidecar | `writer/src/service.ts`, `writer.ts` | queue of writes | enqueue, send, receipt or 504 | `Sidecar` |
| Settle | `settle/src` | ledger of closed records and receipts | read, pay, write receipts | `Settle`, abstractly `Payments` |
| Statistics | `stats.rs`, the report in `admin.rs` | rings of hours, their file | tick, stop, save, load, report | `Stats` |
| Chain reader, records, config, JSON-RPC errors, service, main | | | reads, decoding, validation, start and stop | as reads that may fail, assumptions, and the order of a stop |
| Test rig, tunnel server, deployment | `crates/rig`, `tunnel`, `deploy` | | | not modelled |

**How the parts interact.** The proxy, the Monitor and the integrity checker
run at the same time and share the pool's entries, through atomics; requests
share one cursor. The agent is one task (poll, refresh and flush take turns)
plus one short task per admitted tunnel; it shares entries with the proxy
(`served`) and memory of the agreements with the admin server. All of them
write through the sidecar, which sends transactions of one key in order and
answers 504 when no receipt came in time. The chain outlives every process: an
LB that starts rebuilds everything from its own records. Settle is a process of
its own, run by hand, that reads what the LB closed.

**What is hard.** (1) A write whose answer is lost may land much later. (2)
`served` moves while a write of it is in flight. (3) A decision about a gate
is taken in one atomic step and applied in another. (4) A crash can fall
between any two awaits. (5) Timers, a slow reference and a request for an
immediate probe race. (6) What memory holds of an expiry is as old as the last
poll. (7) Money moves on one chain and is recorded on another. (8) Members of
the pool come and go under a request's selection. `PROJECT.json` lists these
hazards at their lines.

**What makes each part correct.** Billing: no request is billed twice, nothing
closed is changed, a deliberate stop loses nothing. Eligibility: a provider on
the wrong chain is out; the gate follows the results; the dead leave and the
good return. Probing: silence is bounded, the backoff never slows the first
probes, an admitted tunnel is probed next. Acceptance: one agreement per
provider, one port per agreement, one acceptance per offer. Tenure: a record
that is refreshed in time stays. Failover: nobody is called unavailable while an
eligible member stood by, and every request ends and is counted. Sidecar: no
operation lands twice and answers are true. Settle: no record is paid twice and
none is forgotten. Stats: an answer is in one bucket, and the file survives.

## 2. Modules

| module | what it is |
|---|---|
| `Counters` | the billing core: agreements, counter records, flushes |
| `Eligibility` | one provider's gates and the threads that set them |
| `Probing` | when one provider is probed, with time |
| `Acceptance` | offers, agreements, ports and slots |
| `Tenure` | how long a record lives: admission, extends, refreshes |
| `Failover` | client requests, the rotation and the attempts |
| `Sidecar` | a batch on its way to the chain: client, queue, node |
| `Payments` | what settlement promises, abstractly |
| `Settle` | settlement runs; implements `Payments` |
| `Stats` | the statistics' rings and their file |
| `MC*` | the instances TLC checks |
| `*_proofs` | theorems and their proofs |

`... for the checks` in a comment marks a variant of the definition after it, as
a plausible bug would write it; no specification uses one. The runs' properties
are each shown to fail under one of these variants.

### Counters

The agent's task is a program counter: `task` says what it is doing (`start`,
`poll`, `flush`, `stop`) and `pc` which await it is at. Between two awaits the
proxy counts (`RecordServed`) and the chain moves. A flush is
`ReadOpenCounters` (the page), `ReconcileCounters` (`forget_closed_counters`
with its reads by key, `match_to_agreements`, `counts_batch`), the sends,
`EndPeriods` (the successors), their sends, `EndFlush`. A poll is
`ReconcileAgreements` (`end_agreements`, `adopt_agreements`, and the batch of
`close_ended`), its sends, the counter reconcile, and acceptances. Each send
ends in one of three ways: answered as landed, failed, or sent with its answer
lost; in the last case the transaction goes to `pending`, from where it lands
or is dropped at any later time, in order. A transaction is atomic, and reverts
when a key it names is gone.

Abstractions. A record's `over` stands for `head >= opened_block + period`,
and becomes true at any time; it is read with the record, not at the head the
flush read just before. An agreement expires at any time. A split batch goes
in any parts, where the code halves a list whose order is a hash map's.
`PendingDropped` may drop any transaction, also where the chain would hold
later ones back. An acceptance's agreement record lands within the poll or is
found by a later one; its whole story is in `Acceptance`. Not modelled: the
expiry of counter records (`counter_record_life`), and reads that omit a
record the chain has.

### Eligibility

One entry. Each action is one atomic operation or one await: `RecordHealth`
moves the streak, `SetHealth` the gate, with a thread's decision kept in `at`
between them; `QuarantineStreak` and `QuarantineGate` do the same for the wrong
chain, and `RecordIntegrity` sets the other gate by a finding that may be old.
The Monitor handles a provider in one task; client attempts are separate
recorders, which only ever fail a provider, or record nothing when the client
hangs up. Integrity checks are the timer's, one at a time, and those of
admissions, each a check of its own beside it (`Checks`); `saw` is history, the
looks of a check in a row that met data which really was wrong. Of the four
verdicts those that leave the gate alone, `Stale` and `Unknown`, are one, and
the last verdict, which the entry keeps for the admin view and nothing decides
on, is left out. `node` and `data` say how the provider behaves and may change
at any time; `Blocks` is what it then answers when a check asks for the
finalized block, and `Judge` the verdict on it, a missing block included, which
is a divergence only for a provider whose probes reached that height. When a
probe or a chain round is due is left open. `MaxStreak` stands for `i64::MAX`.

### Probing

One provider, one clock. Times are relative to the present. The reference is
read first, then `now` is taken (`ProbeAll`), then the provider waits until the
members before it in the list have left it one of the slots (`SlotOpens`), where
who is due is decided against that `now`; an unanswered probe stores
`next_probe`. `Longest` bounds what each phase may take, `SlotWait` the wait for
a slot. A tunnel admitted during that wait sets `next_probe` to a time after the
sweep's `now`, which puts a provider that was due off to the next sweep. No chain
identity is configured here, so what a slot holds is one probe and its timeout.

### Acceptance

The chain (offers, agreement records, the head), memory (`known`) and one poll.
`Losses` lets an acceptance's answer be lost without a 504 (the LB's own
timeout, `chain/writer.rs` `post`); `Late` lets an unresolved write land after
the next poll began. `loose` is history: it is set once an acceptance is on its
way that no poll holds a port for, and the properties about ports and second
acceptances are stated for behaviours where it never was. Stale tunnels make
any free port unusable for a poll. Extends move the expiry of any set of live
agreements at any time; which ones is `Tenure`'s subject.

### Tenure

A record's creation and expiry on the chain, and what memory believes of them.
A tunnel's admission (`Admission`, over every combination of agreement, signer
and port asked with) starts a task: it waits for the probes until its deadline,
asks for a check, extends. The agent's loop polls (`PollReads`, `Reconcile`,
`Accept`) or refreshes (`RefreshBegins`, then it lands, fails or is lost sight
of); a tick is a block, and `HeadAdvances` lets neither a job nor a late refresh
take longer than `Delay` and `Late` allow. A poll's page is read in one step and
applied in a later one, so a task's extend can land in between. The gates are
open: which providers are eligible at a refresh is chosen each time, and the
history variables say whose absence excuses an expiry.

What the assumptions say beyond the configuration's validation (`Validate`).
Validation asks only that an offer's life is shorter than an agreement's; if
the difference is not larger than the blocks an acceptance takes, the estimate of
the creation block makes `was_extended` true of a record that never was.
And `KeptAlive` needs a life that survives the refreshes it forgives:
`(Forgiven + 1) * (Interval + Late + Delay) < Life`. Memory learns the
listing's expiry at a start only, so a listing inherited with a longer life is
left out of the batches for the rest of the process.

### Failover

Each step is one the code does atomically: a load of the member list, a
`fetch_add` on the cursor, one read of an eligibility byte. A selection samples
as many positions as its list has and then scans the list once. The classes of
request bodies and of answers are records, and `CheckRequest` and `Outcome` say
what becomes of each. A client can go away during an attempt (`Hangup`): the
server drops the handler at its await, and what would follow is not done. A gate
flips `MaxFlips` times for reasons outside these
requests. The history variables say which members were eligible ever since a
selection began (`steady`), and who held an entry when it was removed.

### Sidecar

`send`'s queue of parts and the client's timeout on one side, the sidecar's
promise chain and the node on the other. A write takes its nonce, is sent, and
waits for its receipt; the reply to the send can be lost, the receipt's wait can
time out (504) or fail in another way (`ReceiptWaitFails`, 500), the node can
forget its mempool, the sidecar can restart with what it had queued. The client's
time runs from its post on, through the queue, the pricing and the sending; only
the wait for the receipt has an end of the sidecar's own. `unheard` is history:
the parts whose send or receipt the sidecar lost sight of and answered 500 for.

### Settle and Payments

A run reads the closed records and then each provider's receipts per settle key,
a page at a time, a page being as short as the node likes; then rehearses or
pays: one transfer per provider, its receipts in batches, and an exit code. The
process dies anywhere. A transfer lost sight of is mined or dropped at any later
time. After a run that did not exit 0 nobody starts another before the operator
has reconciled it (`Reconcile`, external: `docs/RUNBOOK.md`), and runs do not
overlap; both are the repository's own conditions (`docs/LIMITATIONS.md`).
Records expire, and a receipt lives the chain's longest life.
`PromiseKept` is the refinement: `closed`, `payments` and `receipted` of
`Payments` are the records closed, the transfers mined and the receipts written.
Records are taken oldest first by their number, and amounts are left out: a
provider's transfer is the set of records it covers.

### Stats

One provider's counter and one of the LB's own (the code keeps two and three of
each, which move alike). A process starts, ticks at the end of an hour or stops
within one, saves, or dies; the file is replaced whole. A file that is there and
cannot be read or parsed (`StartWithout`) starts an empty history, and the next
save replaces it: `unread` is history, what the file held of each counter.
`answered` is what was really answered, `Accounted` what the rings show plus
what the documented losses explain. `Report` is the places of the buckets the
route serves: the filter keeps their order. Time is in hours, and a tick comes
at most `MaxLate` hours late.

## 3. Runs

`cd tla; tlc -config X.cfg MCModule` for each. Deadlock is checked in `billing`,
`eligibility`, `probing` and `acceptance`; the others say `CHECK_DEADLOCK
FALSE`, since their systems may come to rest: all requests answered, all batches
reported, or the bounds on runs, hours and blocks reached.

| run | bounds | shows |
|---|---|---|
| `billing` | 1 agreement, 4 requests, 3 records, 1 unresolved write | `NoOverbilling`, `NoClosedAtZero`, `YoungerCarryNothing`, types |
| `eligibility` | flip_after 2, 1 attempt, the timer's check and an admission's, fairness | `WrongChainIsOut`, `WrongDataTwice`, `DeadLeaves`, `GoodReturns`, types |
| `probing` | interval 3, cap 8, timeout 2, reference 1, 2 slots, 3 members ahead | `SilenceBounded`, types |
| `acceptance` | 2 providers' offers, 2 slots, 3 records over a page of 2, 3 blocks, all losses | `OnePerProvider`, `HeldPortsDistinct`, `AcceptedOnce`, types |
| `failover` | 1 static entry and 1 that comes and goes, 2 requests of 2 attempts, a cursor that wraps at 3, 1 flip, fairness | `NoneMeansNone`, `GoneHeldByHolders`, `FailoverMovesOn`, `EveryEndCounted`, `RequestEnds`, types |
| `settle` | 3 records of 2 providers, pages of up to 2 rows, batches of 1, 2 runs, 2 keys, lives of 3 blocks, crashes | `PlanComplete`, `ClearMeansSettled`, `PromiseKept` (the refinement), types |
| `sidecar` | batches of 3 and 1, bodies up to 2 and transactions up to 1 operation, receipt wait 1, timeout 2, 1 restart, fairness | `OneNonceEach`, `AnswerIsTrue`, `BatchAccounted`, `LandsOnce`, `QueueDrains` |
| `stats` | 1 provider and the LB, rings of 2 hours, 5 hours, 2 answers, 2 processes, 2 joins | `CountedOnce`, `OneBucketAnHour`, `WholeMeansWhole`, `FileKeeps`, types |
| `tenure` | 1 agreement and an inherited listing, lives 2, 5 and 8, refresh every block, jobs of 1 block, 8 blocks, 1 fault | `RefusalExplained`, `KeptAlive`, `ExtendedMeansExtended`, types |

Why the bounds are enough to matter. `billing`: three records are one closed,
one open and a duplicate or successor; a lost close needs one pending write and
its effect two more flushes. `eligibility`: a stale decision needs the Monitor
and one attempt, and two checks are what it takes for an old finding to be
written over a newer one. `probing`: three members ahead of two slots have the
provider wait for one. `acceptance`: three blocks let an agreement that lives
two expire while the offer behind it could still be read, and three records with
a page of two make the reconcile skip. `failover`: two requests move each
other's cursor, a word of three wraps where a list of two does not, and one
entry that leaves can be held. `settle`: two records of one provider make a page
short, two batches and a partial receipt; two runs and two keys are what paying
twice takes, and three blocks let a record or a short-lived receipt expire.
`sidecar`: three operations split twice, first by the body and then by the node,
while another caller's write stands in between. `stats`: a ring of two hours
overflows in three, and two processes share an hour. `tenure`: the head passes
an agreement's first life, its extended one, and the listing's longer one; one
fault is a lost answer or a restart.

The `billing` run assumes that at most one write is unresolved at a time
(`MaxPending = 1`), that batches are not split and that nothing a flush sent
outlasts the flush interval, a day by default. Each assumption is needed:
`overbilling_split` drops the second, and dropping either of the others leads to
the same outcome.

### Disagreements between the code and what is said of it

Each of these runs checks one property, the sentence quoted in `PROJECT.json`,
and TLC finds a behaviour of the code that breaks it.

| run | property | what happens |
|---|---|---|
| `closed_changes` | `ClosedIsFinal` | an ended agreement's close lands after a flush read the record as a stray at zero; the flush deletes the closed record |
| `overbilling_split` | `NoOverbilling` | a split batch closes a record and fails to delete its duplicate; the close lands unanswered, its count is not subtracted and is written again |
| `stats_rejoin` | `RejoinIsCounted` | a provider that left and joined again counts from zero: its new answers up to the old reading are in no bucket |

Further disagreements are stated as properties of the modules, each with the
sentence it takes from the repository. Naming one in a configuration makes TLC
show the behaviour.

| property | module | what happens |
|---|---|---|
| `StopWritesCounts` | `Counters` | a request in flight is answered after the stop's flush took the counts (`docs/MARKETPLACE.md:229`, "a deliberate stop writes them first") |
| `FlipNeedsRun` | `Eligibility` | an overtaken thread applies its old decision to the gate (`docs/PROXY.md:169`) |
| `AdmittedEndsWait` | `Probing` | the backoff of a probe in flight overwrites the immediate probe an admitted tunnel asked for (`docs/MARKETPLACE.md:133`) |
| `NobodyOnArrival` | `Failover` | a request that was sent to a provider and failed finds nobody for its next attempt, and is counted in `no_healthy_provider` ("No provider was eligible when the request arrived", `pool.rs:549`) |
| `FailedNeverLands` | `Sidecar` | a write whose send or receipt the sidecar lost sight of is answered 500 and may be mined (`docs/CHAIN_WRITER.md:134`) |
| `NeverGivesUp` | `Sidecar` | pricing and sending take the time that the client's timeout has beyond the receipt's wait: it gives up before the 504, also where it is alone (one caller, `BatchOf <- SingleWrite`; `chain/writer.rs:14`) |
| `PortsDistinct` | `Acceptance` | an acceptance with no answer holds no port; two agreements get one (`docs/MARKETPLACE.md:100`) |
| `MovesOn` | `Settle` | a transfer that fails ends the run (`pay.ts` says so; `docs/RUNBOOK.md:464` says it "moves to the next provider") |
| `InProgressNotServed` | `Stats` | a stop and a start within the hour leave its bucket in the report (`docs/STATS.md`, "The hour in progress is not served") |
| `ToldIsKnown` | `Tenure` | a poll that read before an extend landed puts the old expiry back, and a tunnel that reconnects starts a second extend (`agent.rs:173`) |

All but the billing ones correct themselves at a later result, check, sweep,
poll or expiry, or are a matter of wording; what the model shows is that the
sentence is not a guarantee. That `GoodReturns` and `DeadLeaves` hold with the
same threads says that no stale decision is final. Two more are not properties. Two
checks that overlap may leave the gate closed beside a verdict that is a match, until
a later check, where `pool.rs:332` says "no passing round since"; and a `Stop` that
wins over a due tick leaves that hour without a bucket of its own, where
`docs/STATS.md:74-75` gives every hour one.

### Fairness

`eligibility`: the Monitor's steps are weakly fair: an interval timer fires and
each of its calls has a timeout. A chain round is strongly fair: one comes
whenever `chainid_check_interval` has passed, also if sweeps in between find
nothing due. A thread that moved the streak reaches the gate, since no await
lies between. The timer's checks begin and go on (weakly fair), with its look
strongly fair, since rounds run on a timer and the reference is taken to be
readable again and again. A check at an admission goes on once it has begun, and
nothing makes one begin. Client traffic and the provider are not fair.
`failover`: each request's own steps are weakly fair, since the runtime polls a
task that can run and an attempt ends with its timeout; members and gates are
not. `sidecar`: the sidecar's steps, the clock and the client's timeout are
weakly fair; that a transaction is mined, or that a wait for a receipt fails, is
not assumed.

## 4. Proofs

All theorems hold for every value of the constants that the modules' assumptions
allow. `tlapm X_proofs.tla` checks them. What is proved of `Eligibility` and of
`Probing` is in `Monitor_proofs`, which extends both: hence the names of
`Probing` (`ProbingSpec`; `BackoffAfter` for flip_after), none of `Eligibility`'s.

**`YoungerNeverCount`** (`Spec => []YoungerCarryNothing`) and
**`CountersTypeOK`**. A flush deletes an agreement's younger open records
unread, and the comment beside it says why that is safe. It is not inductive:
a count in `pending` may be written long after the record it names stopped
being the one memory uses. The invariant `IInv` adds that everything the agent
holds names a record that exists (`RefsExist`), that a read is of the past
(`ReadIsPast`), that counts on chain, in memory, queued or pending are for
records with no older open one (`EldestCount`; being eldest is stable, because
nothing reopens a record and new ones are younger), and that an agreement being
accepted has no record yet (`FirstRecord`, for the record number an answered
create is given). The proof has a lemma per variable group: what a transaction
does to the records, what a step sends, what it leaves queued and pending.

**`NeverClosedAtZero`** (`NoClosedAtZero`, assuming `~Stalls`: no transaction of
a flush outlasts the flush interval; with it and two unresolved writes TLC shows
a count of zero, written after a restart, landing behind a close). `ZInv` adds to
`IInv` where the task is and what it then holds (`Phases`), what a poll may have
under way (`PollWrites`), that closes carry a count and come first and alone of
their agreement (`ClosesCount`, `CloseFirst`, `CloseAlone`), that a zero has no
close of its record before it (`ZeroPending`, `ZeroBatch`), and that memory, or a
read, beside a pending close holds a count or the record carries none
(`ZeroServed`, `ReadZero`, `ReadSame`).

**`NeverOverbilled`** (`NoOverbilling`, assuming `MaxPending <= 1`, `~Splits` and
`~Stalls`, as the `billing` run does; without any one of them TLC finds a
behaviour that bills too much). The bill may be right while a write that will
make it wrong is already under way, so `AllFair`, the heart of `OInv`, is about
four chains: the records as they are, as they will be once the pending
transaction lands, and both again once the batch still to send lands behind. On
each of them the records bill no more than was answered, and still do if memory
writes what it counts into the record it counts into. Most steps choose among
these chains or leave them; a new batch must be shown to write what was allowed.
For that the other parts say what a read still tells: it is up to date while
anything is under way (`ReadNow`), memory's record is its oldest, or closed with
none open, or gone (`ReadCounter`, `ClosedClean`, `ReadClean`), a record read and
not yet held can be counted on from (`ReadFair`), a flush finds nothing under way
for what it counts (`FlushRead`, `FlushWrites`), an agreement has one write in a
transaction and what is deleted beside it carries nothing (`OneWrites`,
`DuplicateRead`, `DeletesZero`), a close leaves no record open (`ClosesTidy`),
creates are for agreements without one (`Creates`), only a stop writes into a
closed record that memory holds (`FlyingClosed`), and a close that was answered
carries no more than memory then subtracts (`Ended`). The sums are treated as for
`EndsAreCounted` below: what a transaction does to a bill is at most what it does
to the one record it writes (`BillApply`).

**`NeverOnTheWrongChain`** (`Spec => []WrongChainIsOut`) and
**`EligibilityTypeOK`**. `EInv` adds that a client's thread never carries a
decision to open the gate (`TrafficOnlyCloses`: a failure leaves the streak
negative, whatever it was), and that the Monitor is past its chain check only
when the chain is verified (`ProbedIsVerified`).

**`WrongAtBothLooks`** (`Spec => []WrongDataTwice`), for any number of checks at
once on a provider that changes between any two steps. `SeenByPhase` of `EInv`
ties what a check found, at each of its steps, to how many of its looks met
wrong data. It rests on what a look can bring (`Looks`): an honest node has
every block up to its own head, so being late is never a divergence.

**`OneAgreementPerProvider`** (`Spec => []OnePerProvider`) and
**`AcceptanceTypeOK`**. `AInv` adds that, while a poll walks the offers, what it
may not take covers every provider in memory, and that an acceptance being
written has a slot and a provider not among those (`TakenCovers`).

**`HeldPortsAreDistinct`** and **`NoOfferTwice`**. `PInv` adds to `AInv` that
while nothing is loose every record on the chain has a provider and a port that
memory knows of or the poll holds (`PollHolds`), that an agreement's first life
covers its offer's, so an offer that can still be read has its agreement beside
it (`OffersCovered`), and that the poll at rest holds nothing (`RestIsEmpty`).

**`SettleKeepsPromise`** (`PromiseKept`, the refinement of `Payments`),
**`PlanMissesNothing`**, **`ClearIsSettled`**, **`SettleTypeOK`**. The initial
states map to initial states and each step to `Close`, `Pay`, `Receipt` or a
stutter; that a payment covers nothing paid before is what needs an invariant.
`SInv` carries it through a run, one part for each phase: what the closed pages
showed (`ClosedInv`), what a payer's receipts took away (`PayersInv`,
`ReadsInv`), what the plan holds (`PlanInv`, `PlanComplete`), which transfer may
be out (`FlightsInv`), that receipts outlive their records and belong to known
keys (`ReceiptsInv`), and that, when a run may begin, all that was paid and still
exists has its receipt (`SettledInv`).

**`FailoverMoves`**, **`NoneIsNone`**, **`GoneIsOnlyHeld`**,
**`EndsAreCounted`**, **`FailoverTypeOK`**. `FInv` says where in its lap a
selection is (`AtItsPlace`), that the fallback scan has the members eligible
throughout still before it (`SteadyAhead`), and that what left the pool is in no
list (`GoneLeft`). `FailoverMoves` needs more: while nobody else moves the
cursor, the positions a lap sampled are those the cursor passed since, also
where the counter wraps. `QuietLap` counts, for each position, how many advances
ago the cursor was there (`Ago`). `EndsAreCounted` needs no more of the state
than its types, but the sum of the counters over any number of entries: that a
sum exists, is a number, and moves with one of its terms is shown on the sizes
of the sets summed, a least counterexample having a smaller one. It is why
`FailoverAssumption` says that the requests are finitely many.

**`OperationLandsOnce`**, **`AnswersAreTrue`**, **`NonceEach`**,
**`BatchIsAccounted`**. In `WInv` every part still to send shares no operation
with any part given away (`TodoApart`), what is queued, held or landed is
pairwise apart (`SentApart`), a caller waits for a part that is queued
(`WaitsForQueued`), an answered part is in the queue no more (`ToldIsOver`), and
a signed write's nonce is free (`NonceIsFree`). Assumed of the constants:
operations are distinct, within a batch and between callers
(`SidecarAssumption`), as values of their own are. `BatchIsAccounted` follows
from the types alone, once a concatenation of any number of parts is known to be
that of its first part and the rest.

**`SilenceIsBounded`** and **`ProbingKeepsTypes`**. `BInv` adds that a wait
still running was earned by the last probe (`DelayEarned`) and bounds the
silence in each phase by what is left of the timer, which runs beside the sweep
(`SilenceInPhase`): the two are not added up. The wait for a slot is counted in
two sweeps, the one whose backoff is counted from its `now` and the next. Of the
doubling only the cap is used.

**`AnswersCountedOnce`** (`CountedOnce`), **`HoursInOrder`**
(`OneBucketAnHour`), **`WholeHours`** (`WholeMeansWhole`),
**`FileNeverShrinks`** (`FileKeeps`, an action property) and **`StatsTypeOK`**,
for any length of a ring and any run of processes. First what `Ring::close` does
to one ring (`Closes`): it is counted up by what the reading grew by, stays in
order and within `HOURS`, and each of its buckets was there, is partial, or is
of an hour that a close began and ended. Count is a recursive function over the
buckets; that its sums exist, and what a bucket appended, dropped or added to
does to them, is shown by least counterexamples. `HInv` then says that a counter
shows its last close and what is fresh (`FreshIsRead`; less if its provider came
back within the process, which is the `stats_rejoin` finding), that the rings
balance with what is fresh and the file with what is not saved (`RingsAccount`,
`FileAccounts`: a crash falls back from the one to the other), that the rings
are behind the file by no more than what the process could not read
(`FileBehind`), that buckets are in order up to the hour being closed
(`InOrder`), and that hours marked whole are over and were not cut
(`WholeIsPast`), for which the hour being counted must not have been cut for a
counter that was closed before (`NotCut`).

**`RecordsKeptAlive`**, **`RefusalIsExplained`**, **`ExtendedWasExtended`**,
**`TenureTypeOK`**. In `TInv` the loop and the refresh keep their time
(`InTime`), memory and a page are behind the chain and expiries only grow
(`MemoryBehind`), what was read since the last extend is exact (`SeenIsRead`),
and a record outlives the next refresh and all those it may still miss
(`LifeLeft`): each refresh that is lost costs it one period of the room that
`TenureAssumption` says a life has. That assumption is the operator's part, which
`Marketplace::validate` does not check.

Each of these invariants was checked with TLC on the run's instance before it
was proved.

Only model-checked, and why. Liveness (`DeadLeaves`, `GoodReturns`,
`RequestEnds`, `QueueDrains`) needs fairness and is beyond the prover. Every
other property of a passing run has a theorem.

## 5. Not modelled

The chain reader's HTTP, encodings and decoding, the text scans of the request
filter, the rendering of JSON-RPC errors, configuration parsing (its checks are
`Validate` and the modules' assumptions), the admin API's views (the reason it
shows combines two loads of the gates) and its forwarding to one node, the
test rig, the tunnel server. These change no state the program decides on, or
are not the program's own. Of what is modelled: a reference that answers without
a record it has (documented by the repository as a limitation), counter records
that expire, the integrity checker's entity check, which the service leaves off,
two settlement runs at once, which the repository forbids, and amounts of money,
which are sums over the records a transfer covers.

## 6. Plan

Done: the modules above and the proofs of section 4. Left:

1. A `Ledger`, an abstract specification of billing (requests are answered, then
   billed at most once), that `Counters` implements under the assumptions of
   `billing`.
2. Counter records that expire, with the settlement period against their life.
3. `pending` of `Counters` and `Acceptance` as what `Sidecar` leaves of a write.
