----------------------------- MODULE Acceptance -----------------------------
(***************************************************************************)
(* How offers become agreements (crates/lb/src/marketplace/agent.rs): the  *)
(* discovery poll reads the LB's agreement records back, ends and adopts   *)
(* agreements, and accepts offers one at a time, each with a free slot and *)
(* a free tunnel port.  An acceptance is a write, and its answer may say   *)
(* that it landed, that it failed, that it is unresolved (the sidecar's    *)
(* 504), or be lost on the way.                                            *)
(*                                                                         *)
(* A record is live while its expiry lies above the head.  Offers are      *)
(* numbered in the order they were posted.                                 *)
(***************************************************************************)
EXTENDS Integers, Sequences, FiniteSets, FiniteSetsExt

CONSTANTS
    Offer,          \* offers, numbered as posted
    ProviderOf,     \* who posted each
    MaxProviders,   \* marketplace.max_providers
    PageLimit,      \* records a page holds
    OfferLife,      \* marketplace.offer_max_lifetime, in blocks
    AgreementLife,  \* marketplace.agreement_life, in blocks
    MaxHead,        \* bound: the chain's height
    MaxRecords,     \* bound: agreement records
    Losses,         \* an answer may be lost without a 504
    Late            \* a lost write may land after the next poll began

ASSUME AcceptanceAssumption ==
    /\ Offer \subseteq Nat \ {0} /\ ProviderOf \in [Offer -> STRING]
    /\ MaxProviders \in Nat /\ PageLimit \in Nat /\ MaxProviders <= PageLimit
    /\ OfferLife \in Nat \ {0} /\ AgreementLife \in Nat /\ OfferLife < AgreementLife
    /\ MaxHead \in Nat /\ MaxRecords \in Nat
    /\ Losses \in BOOLEAN /\ Late \in BOOLEAN

VARIABLES
    head,       \* the chain's height
    offers,     \* chain: each offer's expiry, 0 while it is not posted
    agreements, \* chain: agreement records in the order they landed
    pending,    \* acceptances sent whose answer was lost, in nonce order
    known,      \* memory: the agreements (KnownAgreements), by record
    pc,         \* where the poll is
    pollHead,   \* the head this poll reads at
    todo,       \* offers this poll has still to look at
    free,       \* slots this poll may fill
    takenProviders, takenOffers, usedPorts,  \* what this poll may not take
    writing,    \* the acceptance being written: its offer and port
    loose       \* history: an acceptance may land that no poll holds a port for

pollVars == <<pollHead, todo, free, takenProviders, takenOffers, usedPorts, writing>>
vars == <<head, offers, agreements, pending, known, pc, pollHead, todo, free,
          takenProviders, takenOffers, usedPorts, writing, loose>>

Nothing == [offer |-> 0, port |-> 0]

Provider(k) == ProviderOf[agreements[k].offer]

LiveRecords == {k \in DOMAIN agreements : agreements[k].expires > head}

(* Variant for the checks: one port too many. *)
OnePortMore == 1..(MaxProviders + 1)

(* One port per slot. *)
RemotePorts == 1..MaxProviders

Init ==
    /\ head = 0 /\ offers = [o \in Offer |-> 0]
    /\ agreements = <<>> /\ pending = <<>> /\ known = {}
    /\ pc = "rest" /\ pollHead = 0 /\ todo = {} /\ free = 0
    /\ takenProviders = {} /\ takenOffers = {} /\ usedPorts = {}
    /\ writing = Nothing /\ loose = FALSE

(***************************************************************************)
(* The chain.                                                              *)
(***************************************************************************)
HeadAdvances ==
    /\ head < MaxHead
    /\ head' = head + 1
    /\ UNCHANGED <<offers, agreements, pending, known, pc, pollVars, loose>>

PostOffer(o) ==
    /\ offers[o] = 0 /\ \A p \in Offer : p < o => offers[p] # 0
    /\ \E life \in 1..AgreementLife : offers' = [offers EXCEPT ![o] = head + life]
    /\ UNCHANGED <<head, agreements, pending, known, pc, pollVars, loose>>

(* Variant for the checks: a first life a block short. *)
ShortLived(w) == Append(agreements, [offer |-> w.offer, port |-> w.port,
                                     expires |-> head + OfferLife - 1])

(* The agreement record of an acceptance, with its first life. *)
Landed(w) == Append(agreements, [offer |-> w.offer, port |-> w.port,
                                 expires |-> head + OfferLife])

PendingLands ==
    /\ pending # <<>>
    /\ agreements' = Landed(Head(pending)) /\ pending' = Tail(pending)
    /\ UNCHANGED <<head, offers, known, pc, pollVars, loose>>

PendingDropped ==
    /\ pending # <<>>
    /\ pending' = Tail(pending)
    /\ UNCHANGED <<head, offers, agreements, known, pc, pollVars, loose>>

(***************************************************************************)
(* The poll: the reconcile.                                                *)
(***************************************************************************)

(* Variant for the checks: every live record is adopted. *)
AdoptedAll(kept) == LiveRecords \ kept

(* adopt_agreements: oldest first, one agreement per provider. *)
Adopted(kept) ==
    {k \in LiveRecords \ kept :
        /\ \A h \in kept : Provider(h) # Provider(k)
        /\ \A h \in LiveRecords \ kept : h < k => Provider(h) # Provider(k)}

(* reconcile_agreements: what the chain no longer has is over. *)
Reconcile ==
    /\ pc = "rest" /\ (Late \/ pending = <<>>)
    /\ Cardinality(LiveRecords) <= PageLimit
    /\ known' = LET kept == known \cap LiveRecords IN kept \cup Adopted(kept)
    /\ pc' = "read" /\ pollHead' = head
    /\ loose' = (loose \/ pending # <<>>)
    /\ UNCHANGED <<head, offers, agreements, pending, todo, free, takenProviders,
                   takenOffers, usedPorts, writing>>

(* More records than a page holds: memory stays as it is. *)
SkipReconcile ==
    /\ pc = "rest" /\ (Late \/ pending = <<>>)
    /\ Cardinality(LiveRecords) > PageLimit
    /\ pc' = "read" /\ pollHead' = head
    /\ loose' = (loose \/ pending # <<>>)
    /\ UNCHANGED <<head, offers, agreements, pending, known, todo, free, takenProviders,
                   takenOffers, usedPorts, writing>>

(***************************************************************************)
(* The poll: the offers.                                                   *)
(***************************************************************************)
EndPoll == /\ pc' = "rest" /\ pollHead' = 0 /\ todo' = {} /\ free' = 0
           /\ takenProviders' = {} /\ takenOffers' = {} /\ usedPorts' = {}
           /\ writing' = Nothing

ReadFails ==
    /\ pc = "read"
    /\ EndPoll
    /\ UNCHANGED <<head, offers, agreements, pending, known, loose>>

(* Variant for the checks: an agreement not extended yet holds no port. *)
PortsOfExtended == {agreements[k].port :
                      k \in {h \in known : agreements[h].expires > pollHead + OfferLife}}

PortsHeld == {agreements[k].port : k \in known}

ProvidersHeld == {Provider(k) : k \in known}

FreeSlots == IF Cardinality(known) < MaxProviders
             THEN MaxProviders - Cardinality(known) ELSE 0

(* discover_offers: the offers alive at the poll's head that expire within
   offer_max_lifetime of it, and what the agreements in memory hold. *)
DiscoverOffers ==
    /\ pc = "read"
    /\ pc' = "offers"
    /\ todo' = {o \in Offer : offers[o] > pollHead /\ offers[o] <= pollHead + OfferLife}
    /\ free' = FreeSlots
    /\ takenProviders' = ProvidersHeld
    /\ takenOffers' = {agreements[k].offer : k \in known}
    /\ usedPorts' = PortsHeld
    /\ UNCHANGED <<head, offers, agreements, pending, known, pollHead, writing, loose>>

Passed(o) == free = 0 \/ o \in takenOffers \/ ProviderOf[o] \in takenProviders

PassOver(o) ==
    /\ pc = "offers" /\ todo # {} /\ o = Min(todo)
    /\ Passed(o)
    /\ todo' = todo \ {o}
    /\ UNCHANGED <<head, offers, agreements, pending, known, pc, pollHead, free,
                   takenProviders, takenOffers, usedPorts, writing, loose>>

(* The lowest port nobody holds, the ones a stale tunnel still binds passed
   over for the rest of this poll. *)
PickPort(o, p) ==
    /\ pc = "offers" /\ todo # {} /\ o = Min(todo) /\ ~Passed(o)
    /\ p \in RemotePorts \ usedPorts
    /\ usedPorts' = usedPorts \cup {q \in RemotePorts : q < p}
    /\ writing' = [offer |-> o, port |-> p]
    /\ todo' = todo \ {o} /\ pc' = "write"
    /\ UNCHANGED <<head, offers, agreements, pending, known, pollHead, free,
                   takenProviders, takenOffers, loose>>

(* Every port is held, or bound by a stale tunnel. *)
NoPort(o) ==
    /\ pc = "offers" /\ todo # {} /\ o = Min(todo) /\ ~Passed(o)
    /\ EndPoll
    /\ UNCHANGED <<head, offers, agreements, pending, known, loose>>

PollEnds ==
    /\ pc = "offers" /\ todo = {}
    /\ EndPoll
    /\ UNCHANGED <<head, offers, agreements, pending, known, loose>>

(***************************************************************************)
(* accept: the agreement's write.  (The counter record's, which follows,   *)
(* is in Counters.)                                                        *)
(***************************************************************************)
Hold == /\ takenProviders' = takenProviders \cup {ProviderOf[writing.offer]}
        /\ usedPorts' = usedPorts \cup {writing.port}
        /\ free' = free - 1

Written == pc = "write" /\ pc' = "offers" /\ writing' = Nothing

Room == Len(agreements) + Len(pending) < MaxRecords

(* It landed and the answer says so: everything sent before it has too. *)
AcceptLands ==
    /\ Written /\ pending = <<>> /\ Room
    /\ agreements' = Landed(writing)
    /\ known' = known \cup {Len(agreements) + 1}
    /\ Hold
    /\ UNCHANGED <<head, offers, pending, pollHead, todo, takenOffers, loose>>

AcceptFails ==
    /\ Written
    /\ UNCHANGED <<head, offers, agreements, pending, known, pollHead, todo, free,
                   takenProviders, takenOffers, usedPorts, loose>>

(* Sent, no receipt in time: it may have landed, so port and slot are held. *)
AcceptUnresolved ==
    /\ Written /\ Room
    /\ pending' = Append(pending, writing)
    /\ Hold
    /\ UNCHANGED <<head, offers, agreements, known, pollHead, todo, takenOffers, loose>>

(* Sent, and the answer never arrives: the LB's own timeout, or the sidecar
   gone.  An error like any other, so nothing is held. *)
AcceptLost ==
    /\ Losses /\ Written /\ Room
    /\ pending' = Append(pending, writing) /\ loose' = TRUE
    /\ UNCHANGED <<head, offers, agreements, known, pollHead, todo, free,
                   takenProviders, takenOffers, usedPorts>>

(***************************************************************************)
(* Extends (refresh, and the one at a tunnel's admission): the records of  *)
(* some of the providers, as one transaction.  Which are eligible is       *)
(* Eligibility's; a key that is gone reverts them all.                     *)
(***************************************************************************)
Refresh(K) ==
    /\ K # {} /\ K \subseteq LiveRecords
    /\ agreements' = [k \in DOMAIN agreements |->
                        IF k \in K THEN [agreements[k] EXCEPT !.expires = head + AgreementLife]
                        ELSE agreements[k]]
    /\ UNCHANGED <<head, offers, pending, known, pc, pollVars, loose>>

(* The process stops or crashes, and forgets. *)
Restart ==
    /\ known' = {} /\ EndPoll
    /\ UNCHANGED <<head, offers, agreements, pending, loose>>

Next ==
    \/ HeadAdvances \/ PendingLands \/ PendingDropped
    \/ \E o \in Offer : \/ PostOffer(o) \/ PassOver(o) \/ NoPort(o)
                        \/ \E p \in RemotePorts : PickPort(o, p)
    \/ Reconcile \/ SkipReconcile \/ ReadFails \/ DiscoverOffers \/ PollEnds
    \/ AcceptLands \/ AcceptFails \/ AcceptUnresolved \/ AcceptLost
    \/ \E K \in SUBSET known : Refresh(K)
    \/ Restart

Spec == Init /\ [][Next]_vars
-----------------------------------------------------------------------------
AgreementRecord == [offer: Offer, port: 1..MaxProviders, expires: Nat]

(* Types of the chain, of memory and of the poll in progress. *)
TypeOK ==
    /\ head \in Nat /\ offers \in [Offer -> Nat]
    /\ agreements \in Seq(AgreementRecord)
    /\ pending \in Seq([offer: Offer, port: 1..MaxProviders])
    /\ known \subseteq DOMAIN agreements
    /\ pc \in {"rest", "read", "offers", "write"} /\ pollHead \in Nat
    /\ todo \subseteq Offer /\ free \in Nat
    /\ takenOffers \subseteq Offer /\ usedPorts \subseteq 1..MaxProviders
    /\ writing \in [offer: Offer, port: 1..MaxProviders] \cup {Nothing}
    /\ loose \in BOOLEAN

(* No two agreements in memory share a provider, whatever answers were lost
   and whichever records a restart finds (adopt_agreements: "One agreement
   per provider"). *)
OnePerProvider ==
    \A h, k \in known : h # k => Provider(h) # Provider(k)

(* No two agreements in memory share a tunnel port: decide_admission admits
   a client to the port its record names, so the second one's requests would
   go to the first one's node (discover_offers: "The lowest port no live
   agreement holds"). *)
PortsDistinct ==
    \A h, k \in known : h # k => agreements[h].port # agreements[k].port

(* While every acceptance was answered, or landed or died before the poll
   after it, no two agreements in memory share a port: holding the port for
   the rest of the poll is enough (discover_offers, accept). *)
HeldPortsDistinct == ~loose => PortsDistinct

(* And an offer is then accepted once: its agreement record outlives it, also
   when the provider never connects and nothing is refreshed (accept: "a
   provider that never connects is not accepted a second time from the same
   offer"). *)
AcceptedOnce ==
    ~loose => \A h, k \in DOMAIN agreements :
                 h # k => agreements[h].offer # agreements[k].offer
=============================================================================
