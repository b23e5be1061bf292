------------------------------- MODULE Tenure -------------------------------
(***************************************************************************)
(* How agreements and the listing stay alive (marketplace/agent.rs, with   *)
(* marketplace/admission.rs and the admission route of admin.rs).  A       *)
(* record lives until its expiry.  The agent's loop extends the listing    *)
(* and the eligible providers' records at every refresh, in one            *)
(* transaction; an admitted tunnel starts a task of its own that extends a *)
(* record not extended so far; and the discovery poll reads the expiries   *)
(* back, accepts offers, and drops what is gone.  The loop does one of its *)
(* jobs at a time, the tasks run beside it.                                *)
(*                                                                         *)
(* Time is the chain's height, in blocks.  A write lands in a block after  *)
(* the one it was asked in, and the sidecar lands one at a time; only a    *)
(* write whose answer was not waited for may share a block with another.   *)
(* A process that ends is replaced at once.                                *)
(***************************************************************************)
EXTENDS Integers, FiniteSets, FiniteSetsExt

CONSTANTS
    Agreement,    \* agreements, each with a provider and a port of its own
    Listing,      \* the LB's listing
    Inherited,    \* records an earlier process extended
    OfferLife,    \* marketplace.offer_max_lifetime: an accepted record's life
    Life,         \* marketplace.agreement_life, and listing_life
    LongLife,     \* the life configured when the inherited were extended
    Interval,     \* marketplace.refresh_interval
    Late,         \* how late a refresh may begin: the loop is busy
    Delay,        \* how long a poll, a refresh or an acceptance may take
    Forgiven,     \* refreshes in a row a record may miss
    MaxHead,      \* bound: the chain's height
    MaxFaults     \* bound: restarts and answers not waited for

(* Marketplace::validate, of what is here. *)
Validate ==
    /\ OfferLife > 0 /\ OfferLife < Life
    /\ Interval >= 1 /\ Interval < Life

(* And what it leaves to the operator: the offer's life is shorter than an *)
(* agreement's by more than an acceptance takes, and a life is longer than *)
(* the refreshes it has to survive.                                        *)
ASSUME TenureAssumption ==
    /\ Listing \notin Agreement /\ Inherited \subseteq Agreement \cup {Listing}
    /\ OfferLife \in Nat /\ Life \in Nat /\ LongLife \in Nat /\ Life <= LongLife
    /\ Interval \in Nat /\ Late \in Nat /\ Delay \in Nat \ {0} /\ Forgiven \in Nat
    /\ Validate
    /\ OfferLife + Delay < Life
    /\ (Forgiven + 1) * (Interval + Late + Delay) < Life
    /\ MaxHead \in Nat /\ MaxFaults \in Nat

Key == Agreement \cup {Listing}
Unread == -1   \* the head could not be read

VARIABLES
    head,      \* the chain's height
    chain,     \* records on the chain: block of creation, expiry
    known,     \* memory: the agreements (KnownAgreements)
    memory,    \* memory: what it holds of each record, the listing's included
    task,      \* the admission task of each agreement
    deadline,  \* until when it waits for the probes
    asking,    \* the ones that asked for the extend in this block
    loop,      \* what the agent's loop is doing
    began,     \* the head when it began
    asof,      \* the head it read
    page,      \* the poll: the records it read
    batch,     \* the refresh: the records it extends
    due,       \* when the next refresh is due
    used,      \* the sidecar has landed a write in this block
    loose,     \* a write whose answer was not waited for: its records
    faults,    \* restarts and answers not waited for, so far
    extended,  \* history: records that were extended
    seen,      \* history: what memory holds was read after the last extend
    missed,    \* history: refreshes lost since a record's last extend
    skipped    \* history: records whose provider was ineligible at a refresh since

chainVars == <<head, chain, used, loose>>
taskVars == <<task, deadline, asking>>
loopVars == <<loop, began, asof, page, batch, due>>
memoryVars == <<known, memory>>
history == <<extended, seen, missed, skipped>>
vars == <<chainVars, memoryVars, taskVars, loopVars, faults, history>>

(* Variant for the checks: a lifetime in seconds taken for blocks. *)
BornInSeconds(h, life) == [created |-> h, expires |-> h + 2 * life]

NoRecord == [created |-> 0, expires |-> 0]
Born(h, life) == [created |-> h, expires |-> h + life]
Live(k) == chain[k].expires > head

Init ==
    /\ head = 0
    /\ chain = [k \in Key |-> IF k \in Inherited THEN Born(0, LongLife)
                              ELSE IF k = Listing THEN Born(0, Life) ELSE NoRecord]
    /\ known = Inherited \cap Agreement /\ memory = chain
    /\ task = [a \in Agreement |-> "none"]
    /\ deadline = [a \in Agreement |-> 0] /\ asking = {}
    /\ loop = "rest" /\ began = 0 /\ asof = 0 /\ page = {} /\ batch = {} /\ due = Interval
    /\ used = FALSE /\ loose = {} /\ faults = 0
    /\ extended = Inherited \cup {Listing} /\ seen = Key
    /\ missed = [k \in Key |-> 0] /\ skipped = {}

(***************************************************************************)
(* The chain.                                                              *)
(***************************************************************************)

(* The timers fire and the loop's jobs end in time. *)
HeadAdvances ==
    /\ head < MaxHead /\ head < due + Late
    /\ loop # "rest" => head < began + Delay
    /\ head' = head + 1 /\ used' = FALSE /\ asking' = {}
    /\ UNCHANGED <<chain, loose, memoryVars, task, deadline, loopVars, faults,
                   history>>

(* A transaction of extends lands whole or not at all: each record has to  *)
(* be there, and an expiry only moves later.                               *)
Applies(ks) == \A k \in ks : Live(k) /\ chain[k].expires < head + Life

ExtendRecords(ks) ==
    /\ chain' = [k \in Key |-> IF k \in ks THEN [chain[k] EXCEPT !.expires = head + Life]
                               ELSE chain[k]]
    /\ extended' = extended \cup ks
    /\ missed' = [k \in Key |-> IF k \in ks THEN 0 ELSE missed[k]]
    /\ skipped' = skipped \ ks

LooseLands ==
    /\ loose # {} /\ Applies(loose)
    /\ ExtendRecords(loose)
    /\ loose' = {} /\ seen' = seen \ (loose \ {Listing})
    /\ UNCHANGED <<head, used, memoryVars, taskVars, loopVars, faults>>

LooseDropped ==
    /\ loose # {}
    /\ loose' = {}
    /\ UNCHANGED <<head, chain, used, memoryVars, taskVars, loopVars, faults,
                   history>>

(***************************************************************************)
(* A tunnel is admitted, and its task.                                     *)
(***************************************************************************)

(* What the tunnel server asks with: the agreement, the one whose provider *)
(* signed the token, and the one whose port and proxy name is wanted.  A   *)
(* login wants none.                                                       *)
Ask == [agreement : Agreement, signer : Agreement \cup {"nobody"},
        port : Agreement \cup {"another", "login"}]

(* decide_admission *)
Admits(ask) ==
    /\ ask.agreement \in known
    /\ ask.signer = ask.agreement
    /\ ask.port \in {"login", ask.agreement}

(* Variant for the checks: told by the life an accepted record has. *)
OutlivesTheOffer(r) == r.expires - r.created >= OfferLife

(* was_extended *)
WasExtended(r) == r.expires - r.created >= Life

(* The admission route and `admitted'.  A login, a client turned away and  *)
(* a tunnel that reconnects change nothing here; the probe due at once is  *)
(* ScheduleProbeNow of Probing.                                            *)
Admission(ask) ==
    LET a == ask.agreement IN
    /\ Admits(ask) /\ ask.port # "login"
    /\ ~WasExtended(memory[a]) /\ task[a] = "none"
    /\ task' = [task EXCEPT ![a] = "waiting"]
    /\ deadline' = [deadline EXCEPT ![a] = head + OfferLife]
    /\ UNCHANGED <<chainVars, memoryVars, asking, loopVars, faults, history>>

TaskIs(a, now) == task' = [task EXCEPT ![a] = now]

(* The task waits for the Monitor's verdict, then for a check: the gates   *)
(* change at any time (Eligibility), so whichever way it finds them.       *)
TaskEnds(a) ==
    /\ TaskIs(a, "none")
    /\ deadline' = [deadline EXCEPT ![a] = 0] /\ asking' = asking \ {a}

GivesUp(a) ==
    /\ task[a] = "waiting" /\ head >= deadline[a]
    /\ TaskEnds(a)
    /\ UNCHANGED <<chainVars, memoryVars, loopVars, faults, history>>

ProbesPass(a) ==
    /\ task[a] = "waiting"
    /\ TaskIs(a, "checking") /\ deadline' = [deadline EXCEPT ![a] = 0]
    /\ UNCHANGED <<chainVars, memoryVars, asking, loopVars, faults, history>>

FoundWrong(a) ==
    /\ task[a] = "checking"
    /\ TaskEnds(a)
    /\ UNCHANGED <<chainVars, memoryVars, loopVars, faults, history>>

AskExtend(a) ==
    /\ task[a] = "checking"
    /\ TaskIs(a, "extending") /\ asking' = asking \cup {a}
    /\ UNCHANGED <<chainVars, memoryVars, deadline, loopVars, faults, history>>

(* The answer brings the expiry, for an entry that is still there; an      *)
(* answer that is lost does not.                                           *)
ExtendLands(a, heard) ==
    /\ task[a] = "extending" /\ a \notin asking /\ ~used /\ Applies({a})
    /\ ExtendRecords({a}) /\ used' = TRUE
    /\ memory' = IF heard /\ a \in known
                 THEN [memory EXCEPT ![a].expires = head + Life] ELSE memory
    /\ seen' = IF heard THEN seen \cup {a} ELSE seen \ {a}
    /\ TaskEnds(a)
    /\ UNCHANGED <<head, loose, known, loopVars, faults>>

(* Refused, or not sent. *)
ExtendFails(a) ==
    /\ task[a] = "extending"
    /\ TaskEnds(a)
    /\ UNCHANGED <<chainVars, memoryVars, loopVars, faults, history>>

ExtendUnresolved(a) ==
    /\ task[a] = "extending" /\ loose = {} /\ faults < MaxFaults
    /\ loose' = {a} /\ faults' = faults + 1 /\ TaskEnds(a)
    /\ UNCHANGED <<head, chain, used, memoryVars, loopVars, history>>

(***************************************************************************)
(* The loop: the discovery poll.                                           *)
(***************************************************************************)
Rest == loop' = "rest" /\ began' = 0 /\ asof' = 0 /\ page' = {} /\ batch' = {}

PollReads ==
    /\ loop = "rest"
    /\ loop' = "poll" /\ began' = head /\ asof' = head
    /\ page' = {[key |-> a, record |-> chain[a]] : a \in {b \in Agreement : Live(b)}}
    /\ UNCHANGED <<chainVars, memoryVars, taskVars, batch, due, faults, history>>

(* The agreements in the page, and what it says of one. *)
Listed == {r.key : r \in page}
Read(a) == (CHOOSE r \in page : r.key = a).record

(* Variant for the checks: a record memory has is not looked at again. *)
AdoptedOnly ==
    [k \in Key |-> IF k \in Listed \ known THEN Read(k)
                   ELSE IF k \in Listed \cup {Listing} THEN memory[k] ELSE NoRecord]

(* adopt_agreements: the expiry moved, and the creation was an estimate. *)
Adopted ==
    [k \in Key |-> IF k \in Listed THEN Read(k)
                   ELSE IF k = Listing THEN memory[k] ELSE NoRecord]

(* end_agreements and adopt_agreements.  A provider's new entry is not in  *)
(* rotation; a task of one that left is not stopped.                       *)
Reconcile ==
    /\ loop = "poll"
    /\ memory' = Adopted /\ known' = Listed
    /\ seen' = {k \in Key : k \in Listed => Read(k) = chain[k]}
    /\ loop' = "offers" /\ page' = {}
    /\ UNCHANGED <<chainVars, taskVars, began, asof, batch, due, faults, extended,
                   missed, skipped>>

(* accept: the answer says when the record expires, and not in which block *)
(* it was made; an answer that is lost leaves it to the next poll.         *)
Accept(a, heard) ==
    /\ loop = "offers" /\ head > asof /\ ~used
    /\ a \notin known /\ chain[a] = NoRecord
    /\ chain' = [chain EXCEPT ![a] = Born(head, OfferLife)] /\ used' = TRUE
    /\ known' = IF heard THEN known \cup {a} ELSE known
    /\ memory' = IF heard
                 THEN [memory EXCEPT ![a] = [created |-> asof, expires |-> head + OfferLife]]
                 ELSE memory
    /\ seen' = seen \cup {a}
    /\ UNCHANGED <<head, loose, taskVars, loopVars, faults, extended, missed,
                   skipped>>

PollEnds ==
    /\ loop \in {"poll", "offers"}   \* at "poll": a read that failed
    /\ Rest
    /\ UNCHANGED <<chainVars, memoryVars, taskVars, due, faults, history>>

(***************************************************************************)
(* The loop: the refresh.                                                  *)
(***************************************************************************)

(* Variant for the checks: a record is only left out when it is gone. *)
NeverLater(k, h) == FALSE

(* Written under a longer life than is configured now. *)
ExpiresLater(k, h) == h # Unread /\ memory[k].expires > h + Life

Expired(k, h) == h # Unread /\ memory[k].expires <= h

(* refresh_batch *)
RefreshBatch(h, eligible) ==
    {k \in eligible \cup {Listing} :
        /\ k # Listing => ~Expired(k, h)
        /\ ~ExpiresLater(k, h)}

(* History: a refresh is lost to some records; beyond Forgiven it is all one. *)
Lost(ks) ==
    [k \in Key |-> IF k \in ks \cap (extended \ skipped) /\ missed[k] <= Forgiven
                   THEN missed[k] + 1 ELSE missed[k]]

RefreshBegins(h, eligible) ==
    /\ loop = "rest" /\ head >= due /\ h \in {head, Unread}
    /\ loop' = "refresh" /\ began' = head /\ asof' = h /\ due' = head + Interval
    /\ batch' = RefreshBatch(h, eligible)
    /\ skipped' = skipped \cup (Agreement \ eligible)
    /\ missed' = Lost(Key \ (seen \cup batch'))
    /\ UNCHANGED <<chainVars, memoryVars, taskVars, page, faults, extended, seen>>

(* Whatever the answer, memory learns the new expiries at the next poll. *)
RefreshLands ==
    /\ loop = "refresh" /\ batch # {} /\ head > began /\ ~used /\ Applies(batch)
    /\ ExtendRecords(batch) /\ used' = TRUE
    /\ seen' = seen \ (batch \ {Listing})
    /\ Rest
    /\ UNCHANGED <<head, loose, memoryVars, taskVars, due, faults>>

(* Refused by the chain, or not sent; also when there was nothing to send. *)
RefreshFails ==
    /\ loop = "refresh"
    /\ missed' = Lost(batch)
    /\ Rest
    /\ UNCHANGED <<chainVars, memoryVars, taskVars, due, faults, extended, seen,
                   skipped>>

RefreshUnresolved ==
    /\ loop = "refresh" /\ loose = {} /\ faults < MaxFaults
    /\ loose' = batch /\ faults' = faults + 1 /\ missed' = Lost(batch)
    /\ Rest
    /\ UNCHANGED <<head, chain, used, memoryVars, taskVars, due, extended, seen,
                   skipped>>

(* Agent::start: a poll with nothing remembered, then ensure_listing; the  *)
(* timers' first ticks are skipped.  What was in flight may still land.    *)
Restart ==
    /\ faults < MaxFaults
    /\ faults' = faults + 1
    /\ chain' = IF Live(Listing) THEN chain ELSE [chain EXCEPT ![Listing] = Born(head, Life)]
    /\ known' = {a \in Agreement : Live(a)} /\ memory' = chain'
    /\ task' = [a \in Agreement |-> "none"]
    /\ deadline' = [a \in Agreement |-> 0] /\ asking' = {}
    /\ loose' \in {loose, batch} \cup {{a} : a \in {b \in Agreement : task[b] = "extending"}}
    /\ due' = head + Interval /\ Rest
    /\ seen' = Key
    /\ missed' = IF Live(Listing) THEN Lost(Key) ELSE [Lost(Agreement) EXCEPT ![Listing] = 0]
    /\ UNCHANGED <<head, used, extended, skipped>>

Next ==
    \/ HeadAdvances \/ LooseLands \/ LooseDropped
    \/ \E a \in Agreement :
        \/ GivesUp(a) \/ ProbesPass(a) \/ FoundWrong(a) \/ AskExtend(a)
        \/ ExtendFails(a) \/ ExtendUnresolved(a)
        \/ \E heard \in BOOLEAN : ExtendLands(a, heard) \/ Accept(a, heard)
    \/ \E ask \in Ask : Admission(ask)
    \/ PollReads \/ Reconcile \/ PollEnds
    \/ \E h \in {head, Unread}, eligible \in SUBSET known : RefreshBegins(h, eligible)
    \/ RefreshLands \/ RefreshFails \/ RefreshUnresolved
    \/ Restart

Spec == Init /\ [][Next]_vars

(***************************************************************************)
(* What the agent promises.                                                *)
(***************************************************************************)
Record == [created : 0..MaxHead, expires : 0..(MaxHead + LongLife)]

(* The records, memory, the tasks and the loop keep their types, and the   *)
(* loop's job and the refresh's date stay within the time given them.      *)
TypeOK ==
    /\ head \in 0..MaxHead /\ chain \in [Key -> Record]
    /\ \A k \in Key : chain[k].expires <= head + LongLife
    /\ known \subseteq Agreement /\ memory \in [Key -> Record]
    /\ task \in [Agreement -> {"none", "waiting", "checking", "extending"}]
    /\ deadline \in [Agreement -> 0..(MaxHead + OfferLife)]
    /\ asking \subseteq Agreement
    /\ loop \in {"rest", "poll", "offers", "refresh"}
    /\ began \in 0..head /\ asof \in {Unread} \cup 0..head
    /\ page \subseteq [key : Agreement, record : Record] /\ batch \subseteq Key
    /\ due \in 0..(MaxHead + Interval) /\ used \in BOOLEAN /\ loose \subseteq Key
    /\ faults \in 0..MaxFaults /\ extended \subseteq Key
    /\ seen \subseteq Key /\ missed \in [Key -> 0..(Forgiven + 1)] /\ skipped \subseteq Key

(* One extend the chain refuses fails the whole batch (refresh_batch).  A  *)
(* refresh that read the head is only refused for a record that expired    *)
(* after that read, for one extended in the very block it lands in, or for *)
(* a listing that is gone: never for one that was gone when it was put in  *)
(* or that already expires later, stale as memory's expiries may be.       *)
RefusalExplained ==
    loop = "refresh" /\ asof # Unread /\ head > began /\ ~Applies(batch) =>
        \E k \in batch :
            \/ chain[k].expires \in (asof + 1)..head
            \/ chain[k].expires = head + Life
            \/ k = Listing /\ ~Live(Listing)

(* A record that was extended, whose provider was eligible at every        *)
(* refresh since, is alive, unless more refreshes were lost to failed      *)
(* writes, restarts and polls that did not come than its life leaves room  *)
(* for (config.rs: "the next refresh has to come before that life runs     *)
(* out").                                                                  *)
KeptAlive ==
    \A k \in extended \ skipped : missed[k] <= Forgiven => Live(k)

(* A record memory takes for extended was extended: otherwise the tunnel's *)
(* admission would start nothing, and a good provider would end with its   *)
(* first life (was_extended).                                              *)
ExtendedMeansExtended ==
    \A a \in known : WasExtended(memory[a]) => a \in extended

(* What agent.rs:173 says, "a tunnel that reconnects after the extend      *)
(* starts nothing": memory knows of an extend it was told of.  A poll that *)
(* read the record before the extend landed puts the old expiry back.      *)
ToldIsKnown ==
    [][\A a \in Agreement : a \in known \cap known' /\ WasExtended(memory[a])
                            => WasExtended(memory'[a])]_vars
=============================================================================
