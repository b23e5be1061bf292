-------------------------- MODULE Acceptance_proofs --------------------------
(***************************************************************************)
(* For any offers, caps and lifetimes, and whatever answers are lost: the  *)
(* poll is type correct, and no two agreements in memory share a provider. *)
(* While no acceptance is out that nothing holds a port for, no two share  *)
(* a tunnel port either, and no offer is accepted twice.                   *)
(***************************************************************************)
EXTENDS Acceptance, TLAPS, SequenceTheorems, FiniteSetTheorems, WellFoundedInduction

Writing == [offer: Offer, port: 1..MaxProviders]

(* The poll may take no provider under agreement, and the acceptance being
   written has a slot and is for a provider that is free. *)
TakenCovers ==
    /\ pc \in {"offers", "write"} => \A k \in known : Provider(k) \in takenProviders
    /\ pc = "write" => /\ writing \in Writing /\ free > 0
                       /\ ProviderOf[writing.offer] \notin takenProviders

AInv == TypeOK /\ TakenCovers /\ OnePerProvider

-----------------------------------------------------------------------------
(* A landed acceptance appends its record and leaves the others (accept). *)
LEMMA LandedRecords ==
    ASSUME TypeOK, NEW w \in Writing
    PROVE  /\ Landed(w) \in Seq(AgreementRecord)
           /\ DOMAIN agreements = 1..Len(agreements) /\ Len(agreements) \in Nat
           /\ DOMAIN Landed(w) = 1..(Len(agreements) + 1)
           /\ \A k \in 1..Len(agreements) : Landed(w)[k] = agreements[k]
           /\ Landed(w)[Len(agreements) + 1].offer = w.offer
<1> DEFINE r == [offer |-> w.offer, port |-> w.port, expires |-> head + OfferLife]
<1>1. r \in AgreementRecord
  BY AcceptanceAssumption DEF TypeOK, AgreementRecord, Writing
<1>2. agreements \in Seq(AgreementRecord) /\ Landed(w) = Append(agreements, r)
  BY DEF TypeOK, Landed
<1> HIDE DEF r
<1>3. /\ Append(agreements, r) \in Seq(AgreementRecord)
      /\ Len(Append(agreements, r)) = Len(agreements) + 1
      /\ \A k \in 1..Len(agreements) : Append(agreements, r)[k] = agreements[k]
      /\ Append(agreements, r)[Len(agreements) + 1] = r
  BY <1>1, <1>2, AppendProperties
<1>4. /\ DOMAIN agreements = 1..Len(agreements) /\ Len(agreements) \in Nat
      /\ DOMAIN Append(agreements, r) = 1..(Len(agreements) + 1)
  BY <1>2, <1>3, LenProperties
<1>5. r.offer = w.offer
  BY DEF r
<1> QED BY <1>2, <1>3, <1>4, <1>5

(* The slots a poll may fill are a natural number (discover_offers:
   saturating_sub), memory being finite. *)
LEMMA SlotsAreNat == TypeOK => FreeSlots \in Nat
<1> SUFFICES ASSUME TypeOK PROVE FreeSlots \in Nat
  OBVIOUS
<1>1. DOMAIN agreements = 1..Len(agreements) /\ Len(agreements) \in Nat
  BY LenProperties DEF TypeOK
<1>2. IsFiniteSet(1..Len(agreements))
  BY <1>1, FS_Interval
<1>2a. IsFiniteSet(known)
  BY <1>1, <1>2, FS_Subset DEF TypeOK
<1>3. Cardinality(known) \in Nat
  BY <1>2a, FS_CardinalityType
<1> QED BY <1>3, AcceptanceAssumption DEF FreeSlots

(* The invariant holds before anything is posted. *)
LEMMA InitAInv == Init => AInv
<1> SUFFICES ASSUME Init PROVE AInv
  OBVIOUS
<1>1. <<>> \in Seq(AgreementRecord) /\ <<>> \in Seq(Writing)
  OBVIOUS
<1> QED BY <1>1 DEF Init, AInv, TypeOK, TakenCovers, OnePerProvider, Nothing, Writing

(* The chain's own steps: memory and the poll stay, and so do the records
   memory holds. *)
LEMMA ChainKeeps ==
    ASSUME AInv, \/ HeadAdvances \/ PendingLands \/ PendingDropped
                 \/ \E o \in Offer : PostOffer(o)
    PROVE  AInv'
<1>1. CASE HeadAdvances
  BY <1>1 DEF AInv, TypeOK, TakenCovers, OnePerProvider, Provider, HeadAdvances, pollVars
<1>2. CASE PendingLands
  <2>1. pending \in Seq(Writing) /\ pending # <<>>
    BY <1>2 DEF AInv, TypeOK, Writing, PendingLands
  <2>2. Head(pending) \in Writing /\ Tail(pending) \in Seq(Writing)
    BY <2>1, HeadTailProperties
  <2>2a. TypeOK /\ agreements' = Landed(Head(pending)) /\ known \subseteq DOMAIN agreements
    BY <1>2 DEF AInv, TypeOK, PendingLands
  <2>2b. /\ agreements' \in Seq(AgreementRecord)
         /\ DOMAIN agreements = 1..Len(agreements) /\ Len(agreements) \in Nat
         /\ DOMAIN agreements' = 1..(Len(agreements) + 1)
         /\ \A k \in 1..Len(agreements) : agreements'[k] = agreements[k]
    BY <2>2, <2>2a, LandedRecords
  <2>2c. \A k \in DOMAIN agreements : k \in DOMAIN agreements'
    BY <2>2b
  <2>3. /\ agreements' \in Seq(AgreementRecord)
        /\ known \subseteq DOMAIN agreements'
        /\ \A k \in known : agreements'[k] = agreements[k]
    BY <2>2a, <2>2b, <2>2c
  <2>4. TypeOK'
    BY <1>2, <2>2, <2>3 DEF AInv, TypeOK, PendingLands, pollVars, Writing
  <2>5. TakenCovers'
    BY <1>2, <2>3 DEF AInv, TakenCovers, Provider, PendingLands, pollVars
  <2>6. OnePerProvider'
    BY <1>2, <2>3 DEF AInv, OnePerProvider, Provider, PendingLands
  <2> QED BY <2>4, <2>5, <2>6 DEF AInv
<1>3. CASE PendingDropped
  <2>1. pending \in Seq(Writing) /\ pending # <<>>
    BY <1>3 DEF AInv, TypeOK, Writing, PendingDropped
  <2>2. Tail(pending) \in Seq(Writing)
    BY <2>1, HeadTailProperties
  <2> QED BY <1>3, <2>2 DEF AInv, TypeOK, TakenCovers, OnePerProvider, Provider,
             PendingDropped, pollVars, Writing
<1>4. ASSUME NEW o \in Offer, PostOffer(o) PROVE AInv'
  <2>1. offers' \in [Offer -> Nat]
    BY <1>4, AcceptanceAssumption DEF AInv, TypeOK, PostOffer
  <2> QED BY <1>4, <2>1 DEF AInv, TypeOK, TakenCovers, OnePerProvider, Provider,
             PostOffer, pollVars
<1> QED BY <1>1, <1>2, <1>3, <1>4

(* A poll's reconcile: oldest first, one agreement per provider
   (adopt_agreements). *)
LEMMA ReconcileKeeps ==
    ASSUME AInv, Reconcile \/ SkipReconcile
    PROVE  AInv'
<1>1. CASE Reconcile
  <2> DEFINE kept == known \cap LiveRecords
  <2>1. known' = kept \cup Adopted(kept) /\ pc' = "read" /\ pollHead' = head
    BY <1>1 DEF Reconcile
  <2>2. LiveRecords \subseteq DOMAIN agreements /\ DOMAIN agreements \subseteq Nat
    BY LenProperties DEF LiveRecords, AInv, TypeOK
  <2>3. known' \subseteq DOMAIN agreements
    BY <2>1, <2>2 DEF Adopted, AInv, TypeOK
  <2>4. ASSUME NEW h \in known', NEW k \in known', h # k
        PROVE  Provider(h) # Provider(k)
    <3>1. CASE h \in kept /\ k \in kept
      BY <2>4, <3>1 DEF AInv, OnePerProvider
    <3>2. CASE h \in kept /\ k \in Adopted(kept)
      BY <3>2 DEF Adopted
    <3>3. CASE h \in Adopted(kept) /\ k \in kept
      BY <3>3 DEF Adopted
    <3>4. CASE h \in Adopted(kept) /\ k \in Adopted(kept)
      <4>1. h \in LiveRecords \ kept /\ k \in LiveRecords \ kept /\ (h < k \/ k < h)
        BY <2>2, <2>4, <3>4 DEF Adopted
      <4> QED BY <3>4, <4>1 DEF Adopted
    <3> QED BY <2>1, <3>1, <3>2, <3>3, <3>4
  <2>5. OnePerProvider'
    BY <1>1, <2>4 DEF OnePerProvider, Provider, Reconcile
  <2> QED BY <1>1, <2>1, <2>3, <2>5 DEF AInv, TypeOK, TakenCovers, Reconcile
<1>2. CASE SkipReconcile
  BY <1>2 DEF AInv, TypeOK, TakenCovers, OnePerProvider, Provider, SkipReconcile
<1> QED BY <1>1, <1>2

(* The poll's walk over the offers (discover_offers). *)
LEMMA DiscoveryKeeps ==
    ASSUME AInv, \/ ReadFails \/ DiscoverOffers \/ PollEnds
                 \/ \E o \in Offer : \/ PassOver(o) \/ NoPort(o)
                                     \/ \E p \in RemotePorts : PickPort(o, p)
    PROVE  AInv'
<1>1. CASE ReadFails \/ PollEnds \/ \E o \in Offer : NoPort(o)
  BY <1>1 DEF AInv, TypeOK, TakenCovers, OnePerProvider, Provider, ReadFails, PollEnds,
     NoPort, EndPoll, Nothing
<1>2. CASE DiscoverOffers
  <2>1. free' \in Nat
    BY <1>2, SlotsAreNat DEF AInv, DiscoverOffers
  <2>2. takenOffers' \subseteq Offer /\ usedPorts' \subseteq 1..MaxProviders
    <3>1. \A k \in known : agreements[k] \in AgreementRecord
      BY DEF AInv, TypeOK
    <3> QED BY <1>2, <3>1 DEF DiscoverOffers, PortsHeld, AgreementRecord
  <2>3. \A k \in known : Provider(k) \in takenProviders'
    BY <1>2 DEF DiscoverOffers, ProvidersHeld
  <2> QED BY <1>2, <2>1, <2>2, <2>3 DEF AInv, TypeOK, TakenCovers, OnePerProvider,
             Provider, DiscoverOffers
<1>3. ASSUME NEW o \in Offer, PassOver(o) PROVE AInv'
  BY <1>3 DEF AInv, TypeOK, TakenCovers, OnePerProvider, Provider, PassOver
<1>4. ASSUME NEW o \in Offer, NEW p \in RemotePorts, PickPort(o, p) PROVE AInv'
  <2>1. writing' \in Writing /\ writing'.offer = o /\ usedPorts' \subseteq 1..MaxProviders
    BY <1>4 DEF AInv, TypeOK, PickPort, RemotePorts, Writing
  <2>2. free > 0 /\ ProviderOf[o] \notin takenProviders
    BY <1>4 DEF AInv, TypeOK, PickPort, Passed
  <2> QED BY <1>4, <2>1, <2>2 DEF AInv, TypeOK, TakenCovers, OnePerProvider, Provider,
             PickPort, Writing
<1> QED BY <1>1, <1>2, <1>3, <1>4

(* The acceptance's write and its four outcomes (accept). *)
LEMMA AcceptKeeps ==
    ASSUME AInv, AcceptLands \/ AcceptFails \/ AcceptUnresolved \/ AcceptLost
    PROVE  AInv'
<1>1. /\ writing \in Writing /\ free > 0 /\ ProviderOf[writing.offer] \notin takenProviders
      /\ \A k \in known : Provider(k) \in takenProviders
  BY DEF AInv, TakenCovers, AcceptLands, AcceptFails, AcceptUnresolved, AcceptLost, Written
<1>2. free - 1 \in Nat
  BY <1>1 DEF AInv, TypeOK
<1>3. pending \in Seq(Writing) /\ Append(pending, writing) \in Seq(Writing)
  BY <1>1, AppendProperties DEF AInv, TypeOK, Writing
<1>4. writing.port \in 1..MaxProviders
  BY <1>1 DEF Writing
<1>5. CASE AcceptLands
  <2>1. /\ agreements' \in Seq(AgreementRecord)
        /\ DOMAIN agreements = 1..Len(agreements) /\ Len(agreements) \in Nat
        /\ DOMAIN agreements' = 1..(Len(agreements) + 1)
        /\ \A k \in 1..Len(agreements) : agreements'[k] = agreements[k]
        /\ agreements'[Len(agreements) + 1].offer = writing.offer
    BY <1>1, <1>5, LandedRecords DEF AInv, AcceptLands
  <2>2. known' = known \cup {Len(agreements) + 1} /\ known \subseteq 1..Len(agreements)
    BY <1>5, <2>1 DEF AInv, TypeOK, AcceptLands
  <2> DEFINE prov(k) == ProviderOf[agreements'[k].offer]
  <2>3. /\ \A k \in known : prov(k) = Provider(k)
        /\ prov(Len(agreements) + 1) = ProviderOf[writing.offer]
    BY <2>1, <2>2 DEF Provider
  <2>4. ASSUME NEW h \in known', NEW k \in known', h # k PROVE prov(h) # prov(k)
    <3>1. CASE h \in known /\ k \in known
      BY <2>3, <2>4, <3>1 DEF AInv, OnePerProvider
    <3>2. CASE h = Len(agreements) + 1 \/ k = Len(agreements) + 1
      BY <1>1, <2>2, <2>3, <2>4, <3>2
    <3> QED BY <2>2, <3>1, <3>2
  <2>5. OnePerProvider'
    BY <2>4 DEF OnePerProvider, Provider
  <2>6. \A k \in known' : prov(k) \in takenProviders'
    BY <1>1, <1>5, <2>2, <2>3 DEF AcceptLands, Hold
  <2>7. TakenCovers'
    BY <1>5, <2>6 DEF TakenCovers, Provider, AcceptLands, Written
  <2>8. known' \subseteq DOMAIN agreements'
    <3>1. ASSUME NEW k \in known' PROVE k \in 1..(Len(agreements) + 1)
      BY <2>1, <2>2
    <3> QED BY <2>1, <3>1
  <2>9. TypeOK'
    BY <1>2, <1>4, <1>5, <2>1, <2>8 DEF AInv, TypeOK, AcceptLands, Written, Hold
  <2> QED BY <2>5, <2>7, <2>9 DEF AInv
<1>6. CASE AcceptFails
  BY <1>6 DEF AInv, TypeOK, TakenCovers, OnePerProvider, Provider, AcceptFails, Written
<1>7. CASE AcceptUnresolved
  BY <1>1, <1>2, <1>3, <1>4, <1>7 DEF AInv, TypeOK, TakenCovers, OnePerProvider, Provider,
     AcceptUnresolved, Written, Hold, Writing
<1>8. CASE AcceptLost
  BY <1>3, <1>8 DEF AInv, TypeOK, TakenCovers, OnePerProvider, Provider, AcceptLost,
     Written, Writing
<1> QED BY <1>5, <1>6, <1>7, <1>8

(* A refresh moves expiries alone, and a restart forgets everything
   (refresh_batch, start). *)
LEMMA OtherSteps ==
    ASSUME AInv, Restart \/ \E K \in SUBSET known : Refresh(K)
    PROVE  AInv'
<1>1. CASE Restart
  BY <1>1 DEF AInv, TypeOK, TakenCovers, OnePerProvider, Provider, Restart, EndPoll, Nothing
<1>2. ASSUME NEW K \in SUBSET known, Refresh(K) PROVE AInv'
  <2>1. /\ agreements \in Seq(AgreementRecord) /\ DOMAIN agreements = 1..Len(agreements)
        /\ Len(agreements) \in Nat
        /\ \A k \in DOMAIN agreements : agreements[k] \in AgreementRecord
    BY LenProperties DEF AInv, TypeOK
  <2>2. /\ agreements' \in [1..Len(agreements) -> AgreementRecord]
        /\ \A k \in DOMAIN agreements : agreements'[k].offer = agreements[k].offer
    <3>1. head + AgreementLife \in Nat
      BY AcceptanceAssumption DEF AInv, TypeOK
    <3>2. \A r \in AgreementRecord :
            /\ [r EXCEPT !.expires = head + AgreementLife] \in AgreementRecord
            /\ [r EXCEPT !.expires = head + AgreementLife].offer = r.offer
      BY <3>1 DEF AgreementRecord
    <3> HIDE DEF AgreementRecord
    <3> QED BY <1>2, <2>1, <3>2 DEF Refresh
  <2>3. agreements' \in Seq(AgreementRecord) /\ DOMAIN agreements' = DOMAIN agreements
    BY <2>1, <2>2, SeqDef
  <2>4. TypeOK'
    BY <1>2, <2>3 DEF AInv, TypeOK, Refresh, pollVars
  <2>5. TakenCovers'
    BY <1>2, <2>2 DEF AInv, TypeOK, TakenCovers, Provider, Refresh, pollVars
  <2>6. OnePerProvider'
    BY <1>2, <2>2 DEF AInv, TypeOK, OnePerProvider, Provider, Refresh
  <2> QED BY <2>4, <2>5, <2>6 DEF AInv
<1> QED BY <1>1, <1>2

(* Every step keeps the invariant. *)
LEMMA NextAInv == AInv /\ [Next]_vars => AInv'
<1> SUFFICES ASSUME AInv, [Next]_vars PROVE AInv'
  OBVIOUS
<1>1. CASE UNCHANGED vars
  BY <1>1 DEF AInv, TypeOK, TakenCovers, OnePerProvider, Provider, vars
<1>2. CASE Next
  BY <1>2, ChainKeeps, ReconcileKeeps, DiscoveryKeeps, AcceptKeeps, OtherSteps DEF Next
<1> QED BY <1>1, <1>2

(* The chain, memory and the poll keep their types whatever becomes of the
   acceptances' answers; the slots a poll may fill never go below zero
   (discover_offers, accept). *)
THEOREM AcceptanceTypeOK == Spec => []TypeOK
<1>1. AInv => TypeOK
  BY DEF AInv
<1> QED BY <1>1, InitAInv, NextAInv, PTL DEF Spec

(* No two agreements in memory share a provider, for any number of offers,
   any cap and page, any lifetimes, and with answers lost or late: the
   discovery passes over whoever memory holds, and adoption keeps the oldest
   record (discover_offers, adopt_agreements). *)
THEOREM OneAgreementPerProvider == Spec => []OnePerProvider
<1>1. AInv => OnePerProvider
  BY DEF AInv
<1> QED BY <1>1, InitAInv, NextAInv, PTL DEF Spec

-----------------------------------------------------------------------------
(* An agreement record, and an acceptance whose answer is out, are for an
   offer that was posted and expires within offer_max_lifetime of the head, so
   the record's first life covers it; and so are the offers of this poll. *)
OffersCovered ==
    /\ \A k \in DOMAIN agreements :
         LET o == agreements[k].offer
         IN offers[o] # 0 /\ offers[o] <= head + OfferLife /\ offers[o] <= agreements[k].expires
    /\ \A i \in DOMAIN pending :
         offers[pending[i].offer] # 0 /\ offers[pending[i].offer] <= head + OfferLife
    /\ pollHead <= head
    /\ \A o \in todo : offers[o] # 0 /\ offers[o] <= pollHead + OfferLife
    /\ pc = "write" => /\ offers[writing.offer] # 0
                       /\ offers[writing.offer] <= pollHead + OfferLife

(* Records that are live or in memory. *)
Active == known \cup LiveRecords

PendingProvider(i) == ProviderOf[pending[i].offer]

(* Until an acceptance is out that nothing holds a port for: the records that
   are live or in memory, and the acceptances whose answer is out, differ in
   provider and port, and no two are for one offer, also when expired. *)
Distinct ==
    /\ \A h, k \in Active : h # k => /\ Provider(h) # Provider(k)
                                     /\ agreements[h].port # agreements[k].port
    /\ \A h \in Active : \A i \in DOMAIN pending : /\ Provider(h) # PendingProvider(i)
                                                   /\ agreements[h].port # pending[i].port
    /\ \A i, j \in DOMAIN pending : i # j => /\ PendingProvider(i) # PendingProvider(j)
                                             /\ pending[i].port # pending[j].port
    /\ \A h, k \in DOMAIN agreements : h # k => agreements[h].offer # agreements[k].offer
    /\ \A h \in DOMAIN agreements : \A i \in DOMAIN pending :
         agreements[h].offer # pending[i].offer

(* And what a poll may take is held by none of them. *)
PollHolds ==
    /\ pc = "read" => /\ pending = <<>>
                      /\ \A k \in DOMAIN agreements :
                           agreements[k].expires > pollHead => k \in known
    /\ pc \in {"offers", "write"} =>
         /\ \A k \in Active : agreements[k].port \in usedPorts /\ Provider(k) \in takenProviders
         /\ \A k \in DOMAIN agreements :
              agreements[k].offer \in todo => Provider(k) \in takenProviders
         /\ \A i \in DOMAIN pending : /\ pending[i].port \in usedPorts
                                      /\ PendingProvider(i) \in takenProviders
    /\ pc = "write" => /\ writing.port \notin usedPorts
                       /\ \A k \in DOMAIN agreements : agreements[k].offer # writing.offer

(* Between polls nothing of one is left. *)
RestIsEmpty == pc = "rest" => todo = {}

PInv == AInv /\ OffersCovered /\ RestIsEmpty /\ (~loose => Distinct /\ PollHolds)

(* The acceptances whose answer is out, oldest first. *)
LEMMA PendingTypes ==
    ASSUME TypeOK
    PROVE  /\ pending \in Seq(Writing) /\ DOMAIN pending = 1..Len(pending) /\ Len(pending) \in Nat
           /\ \A i \in DOMAIN pending : pending[i] \in Writing
           /\ DOMAIN agreements = 1..Len(agreements) /\ Len(agreements) \in Nat
           /\ \A k \in DOMAIN agreements : agreements[k] \in AgreementRecord
<1>1. pending \in Seq(Writing) /\ agreements \in Seq(AgreementRecord)
  BY DEF TypeOK, Writing
<1> QED BY <1>1, LenProperties

(* What the oldest of them is, and what is left without it. *)
LEMMA PendingTail ==
    ASSUME TypeOK, pending # <<>>
    PROVE  /\ 1 \in DOMAIN pending /\ Head(pending) = pending[1] /\ Head(pending) \in Writing
           /\ \A i \in DOMAIN Tail(pending) :
                i \in Nat /\ i + 1 \in DOMAIN pending /\ i + 1 # 1
                /\ Tail(pending)[i] = pending[i + 1]
<1>1. pending \in Seq(Writing) /\ DOMAIN pending = 1..Len(pending) /\ Len(pending) \in Nat
  BY PendingTypes
<1>2. Len(pending) # 0
  BY <1>1
<1>3. /\ Tail(pending) \in Seq(Writing) /\ Len(Tail(pending)) = Len(pending) - 1
      /\ \A i \in 1..Len(Tail(pending)) : Tail(pending)[i] = pending[i + 1]
      /\ Head(pending) \in Writing /\ Head(pending) = pending[1]
  BY <1>1, <1>2, HeadTailProperties
<1>4. DOMAIN Tail(pending) = 1..(Len(pending) - 1)
  BY <1>3, LenProperties
<1> QED BY <1>1, <1>2, <1>3, <1>4

(* A landed acceptance's record, field by field (accept). *)
LEMMA LandedFields ==
    ASSUME TypeOK, NEW w \in Writing, agreements' = Landed(w)
    PROVE  LET n == Len(agreements) + 1
           IN /\ DOMAIN agreements' = DOMAIN agreements \cup {n} /\ n \notin DOMAIN agreements
              /\ \A k \in DOMAIN agreements : agreements'[k] = agreements[k]
              /\ agreements'[n].offer = w.offer /\ agreements'[n].port = w.port
              /\ agreements'[n].expires = head + OfferLife
<1> DEFINE r == [offer |-> w.offer, port |-> w.port, expires |-> head + OfferLife]
           n == Len(agreements) + 1
<1>1. /\ agreements' = Append(agreements, r)
      /\ r.offer = w.offer /\ r.port = w.port /\ r.expires = head + OfferLife
  BY DEF Landed
<1>2. r \in AgreementRecord
  BY AcceptanceAssumption DEF TypeOK, AgreementRecord, Writing
<1> HIDE DEF r
<1>3. /\ DOMAIN agreements = 1..Len(agreements) /\ Len(agreements) \in Nat
      /\ DOMAIN agreements' = 1..n
      /\ \A k \in 1..Len(agreements) : agreements'[k] = agreements[k]
      /\ agreements'[n] = r
  <2>1. agreements \in Seq(AgreementRecord)
    BY DEF TypeOK
  <2> QED BY <1>1, <1>2, <2>1, AppendProperties, LenProperties
<1>4. 1..n = 1..Len(agreements) \cup {n} /\ n \notin 1..Len(agreements)
  BY <1>3
<1> QED BY <1>1, <1>3, <1>4

(* At most as many records are live as there are ports, so a page holds them
   all and the reconcile is not skipped. *)
LEMMA LiveFitAPage ==
    ASSUME TypeOK, Distinct
    PROVE  Cardinality(LiveRecords) <= PageLimit
<1> DEFINE P == 1..MaxProviders
           f == [k \in LiveRecords |-> agreements[k].port]
<1>1. IsFiniteSet(P) /\ Cardinality(P) = MaxProviders
  BY AcceptanceAssumption, FS_Interval
<1>2. IsFiniteSet(LiveRecords)
  <2>1. LiveRecords \in SUBSET (1..Len(agreements)) /\ Len(agreements) \in Nat
    BY PendingTypes DEF LiveRecords
  <2>2. IsFiniteSet(1..Len(agreements))
    BY <2>1, FS_Interval
  <2> QED BY <2>1, <2>2, FS_Subset
<1>3. \A k \in LiveRecords : agreements[k].port \in P
  BY PendingTypes DEF LiveRecords, AgreementRecord
<1>4. f \in Injection(LiveRecords, P)
  <2>1. f \in [LiveRecords -> P]
    BY <1>3
  <2>2. \A h, k \in LiveRecords : f[h] = f[k] => h = k
    BY DEF Distinct, Active
  <2> QED BY <2>1, <2>2 DEF Injection, IsInjective
<1>5. Cardinality(LiveRecords) <= Cardinality(P)
  BY <1>1, <1>2, <1>4, FS_Injection
<1>6. Cardinality(LiveRecords) \in Nat
  BY <1>2, FS_CardinalityType
<1> QED BY <1>1, <1>5, <1>6, AcceptanceAssumption

-----------------------------------------------------------------------------
(* The least-number principle, for sets (the provers cannot instantiate the
   library's operator form): the oldest offer of a poll exists. *)
LEMMA LeastNat ==
    ASSUME NEW S \in SUBSET Nat, S # {}
    PROVE  \E m \in S : \A k \in S : m <= k
<1>1. PICK m \in S : \A k \in S : ~ (<<k, m>> \in OpToRel(<, Nat))
  BY NatLessThanWellFounded, WFMin
<1>2. \A k \in S : ~ (k < m)
  BY <1>1 DEF OpToRel
<1>3. m \in Nat /\ \A k \in S : k \in Nat
  OBVIOUS
<1> QED BY <1>2, <1>3

(* The offer a poll looks at next (discover_offers sorts them) is one of them. *)
LEMMA MinIn ==
    ASSUME NEW S \in SUBSET Nat, S # {}
    PROVE  Min(S) \in S /\ \A k \in S : Min(S) <= k
BY LeastNat DEF Min

(* It holds before anything is posted. *)
LEMMA InitPInv == Init => PInv
<1> SUFFICES ASSUME Init PROVE PInv
  OBVIOUS
<1>1. AInv /\ DOMAIN agreements = {} /\ DOMAIN pending = {}
  BY InitAInv DEF Init
<1>2. LiveRecords = {} /\ Active = {}
  BY <1>1 DEF LiveRecords, Active, Init
<1> QED BY <1>1, <1>2 DEF Init, PInv, OffersCovered, Distinct, PollHolds,
           RestIsEmpty

(* The chain advances, and an offer is posted. *)
LEMMA BlocksKeepPInv ==
    ASSUME PInv, AInv', HeadAdvances \/ \E o \in Offer : PostOffer(o)
    PROVE  PInv'
<1>0. TypeOK
  BY DEF PInv, AInv
<1>t. /\ \A k \in DOMAIN agreements : agreements[k] \in AgreementRecord
      /\ \A i \in DOMAIN pending : pending[i] \in Writing
      /\ head \in Nat /\ offers \in [Offer -> Nat] /\ OfferLife \in Nat /\ pollHead \in Nat
      /\ todo \subseteq Offer
  BY <1>0, PendingTypes, AcceptanceAssumption DEF TypeOK
<1>1. CASE HeadAdvances
  <2>1. /\ head' = head + 1
        /\ UNCHANGED <<offers, agreements, pending, known, pc, pollVars, loose>>
    BY <1>1 DEF HeadAdvances
  <2>2. LiveRecords' \subseteq LiveRecords
    BY <1>t, <2>1 DEF LiveRecords, AgreementRecord
  <2>3. Active' \subseteq Active
    BY <2>1, <2>2 DEF Active
  <2>4. OffersCovered'
    <3>1. \A o \in Offer : offers[o] \in Nat
      BY <1>t
    <3>2. /\ \A k \in DOMAIN agreements : agreements[k].offer \in Offer
          /\ \A i \in DOMAIN pending : pending[i].offer \in Offer
      BY <1>t DEF AgreementRecord, Writing
    <3> QED BY <1>t, <2>1, <3>1, <3>2 DEF PInv, OffersCovered, pollVars
  <2>5. ~loose' => Distinct'
    BY <2>1, <2>3 DEF PInv, Distinct, Provider, PendingProvider
  <2>6. ~loose' => PollHolds'
    BY <2>1, <2>3 DEF PInv, PollHolds, Provider, PendingProvider, pollVars
  <2>7. RestIsEmpty'
    BY <2>1 DEF PInv, RestIsEmpty, pollVars
  <2> QED BY <2>4, <2>5, <2>6, <2>7 DEF PInv
<1>2. ASSUME NEW o \in Offer, PostOffer(o) PROVE PInv'
  <2>1. /\ offers[o] = 0
        /\ UNCHANGED <<head, agreements, pending, known, pc, pollVars, loose>>
    BY <1>2 DEF PostOffer
  <2>2. \A p \in Offer : offers[p] # 0 => offers'[p] = offers[p]
    BY <1>2, <1>t DEF PostOffer
  <2>3. Active' = Active
    BY <2>1 DEF Active, LiveRecords
  <2>4. OffersCovered'
    <3>2. /\ \A k \in DOMAIN agreements : agreements[k].offer \in Offer
          /\ \A i \in DOMAIN pending : pending[i].offer \in Offer
          /\ pc = "write" => writing.offer \in Offer
      BY <1>t DEF AgreementRecord, Writing, PInv, AInv, TakenCovers
    <3> QED BY <1>t, <2>1, <2>2, <3>2 DEF PInv, OffersCovered, pollVars
  <2>5. ~loose' => Distinct'
    BY <2>1, <2>3 DEF PInv, Distinct, Provider, PendingProvider
  <2>6. ~loose' => PollHolds'
    BY <2>1, <2>3 DEF PInv, PollHolds, Provider, PendingProvider, pollVars
  <2>7. RestIsEmpty'
    BY <2>1 DEF PInv, RestIsEmpty, pollVars
  <2> QED BY <2>4, <2>5, <2>6, <2>7 DEF PInv
<1> QED BY <1>1, <1>2

(* An acceptance whose answer is out lands, or dies. *)
LEMMA PendingKeepsPInv ==
    ASSUME PInv, AInv', PendingLands \/ PendingDropped
    PROVE  PInv'
<1>0. TypeOK /\ pending # <<>> /\ pending' = Tail(pending)
  BY DEF PInv, AInv, PendingLands, PendingDropped
<1>u. UNCHANGED <<head, offers, known, pc, pollVars, loose>>
  BY DEF PendingLands, PendingDropped
<1>t. /\ 1 \in DOMAIN pending /\ Head(pending) = pending[1] /\ Head(pending) \in Writing
      /\ \A i \in DOMAIN pending' : /\ i \in Nat /\ i + 1 \in DOMAIN pending /\ i + 1 # 1
                                    /\ pending'[i] = pending[i + 1]
      /\ \A i, j \in DOMAIN pending' : i # j => i + 1 # j + 1
  BY <1>0, PendingTail
<1>1. CASE PendingLands
  <2> DEFINE n == Len(agreements) + 1
             w == Head(pending)
  <2>1. /\ DOMAIN agreements' = DOMAIN agreements \cup {n} /\ n \notin DOMAIN agreements
        /\ \A k \in DOMAIN agreements : agreements'[k] = agreements[k]
        /\ agreements'[n].offer = w.offer /\ agreements'[n].port = w.port
        /\ agreements'[n].expires = head + OfferLife
    <3>1. agreements' = Landed(w)
      BY <1>1 DEF PendingLands
    <3> QED BY <1>0, <1>t, <3>1, LandedFields
  <2>2. known \subseteq DOMAIN agreements /\ Active \subseteq DOMAIN agreements
    BY <1>0 DEF TypeOK, Active, LiveRecords
  <2>3. Active' \subseteq Active \cup {n}
    BY <1>u, <2>1, <2>2 DEF Active, LiveRecords
  <2> HIDE DEF n
  <2>4. OffersCovered'
    BY <1>u, <1>t, <2>1 DEF PInv, OffersCovered, pollVars
  <2>5. ~loose' => Distinct'
    BY <1>u, <1>t, <2>1, <2>2, <2>3 DEF PInv, Distinct, Provider, PendingProvider
  <2>6. ~loose' => PollHolds'
    <3>1. pc # "read" \/ loose
      BY <1>0 DEF PInv, PollHolds
    <3>2. ASSUME ~loose, pc \in {"offers", "write"}
          PROVE  /\ \A k \in Active' : agreements'[k].port \in usedPorts /\ Provider(k)' \in takenProviders
                 /\ \A k \in DOMAIN agreements' :
                      agreements'[k].offer \in todo => Provider(k)' \in takenProviders
                 /\ \A i \in DOMAIN pending' : /\ pending'[i].port \in usedPorts
                                               /\ PendingProvider(i)' \in takenProviders
      BY <1>u, <1>t, <2>1, <2>2, <2>3, <3>2 DEF PInv, PollHolds, Provider, PendingProvider
    <3>3. ASSUME ~loose, pc = "write"
          PROVE  \A k \in DOMAIN agreements' : agreements'[k].offer # writing.offer
      BY <1>t, <2>1, <3>3 DEF PInv, AInv, TakenCovers, PollHolds, PendingProvider
    <3>4. pc = "write" /\ ~loose => writing.port \notin usedPorts
      BY DEF PInv, PollHolds
    <3> QED BY <1>u, <3>1, <3>2, <3>3, <3>4 DEF PollHolds, pollVars
  <2>7. RestIsEmpty'
    BY <1>u DEF PInv, RestIsEmpty, pollVars
  <2> QED BY <2>4, <2>5, <2>6, <2>7 DEF PInv
<1>2. CASE PendingDropped
  <2>1. agreements' = agreements /\ Active' = Active
    BY <1>2, <1>u DEF PendingDropped, Active, LiveRecords
  <2>2. OffersCovered'
    BY <1>u, <1>t, <2>1 DEF PInv, OffersCovered, pollVars
  <2>3. ~loose' => Distinct'
    BY <1>u, <1>t, <2>1 DEF PInv, Distinct, Provider, PendingProvider
  <2>4. ~loose' => PollHolds'
    BY <1>0, <1>u, <1>t, <2>1 DEF PInv, PollHolds, Provider, PendingProvider, pollVars
  <2>5. RestIsEmpty'
    BY <1>u DEF PInv, RestIsEmpty, pollVars
  <2> QED BY <2>2, <2>3, <2>4, <2>5 DEF PInv
<1> QED BY <1>1, <1>2

(* The reconcile: it is not skipped and memory is then every live record, since
   live records differ in provider (reconcile_agreements, adopt_agreements). *)
LEMMA ReconcileKeepsPInv ==
    ASSUME PInv, AInv', Reconcile \/ SkipReconcile
    PROVE  PInv'
<1>0. TypeOK /\ pc = "rest" /\ pc' = "read" /\ pollHead' = head /\ head \in Nat
  BY DEF PInv, AInv, TypeOK, Reconcile, SkipReconcile
<1>u. UNCHANGED <<head, offers, agreements, pending, todo, free, takenProviders, takenOffers,
                  usedPorts, writing>>
  BY DEF Reconcile, SkipReconcile
<1>1. LiveRecords' = LiveRecords /\ (~loose' => ~loose /\ pending = <<>>)
  BY <1>u DEF LiveRecords, Reconcile, SkipReconcile
<1>2. OffersCovered'
  <2>1. /\ \A k \in DOMAIN agreements : agreements[k] \in AgreementRecord
        /\ OfferLife \in Nat /\ todo = {}
    BY <1>0, PendingTypes, AcceptanceAssumption DEF PInv, RestIsEmpty
  <2> QED BY <1>0, <1>u, <2>1 DEF PInv, OffersCovered
<1>3. ASSUME ~loose' PROVE known' = LiveRecords
  <2>1. Distinct
    BY <1>1, <1>3 DEF PInv
  <2>2. Reconcile
    <3>1. Cardinality(LiveRecords) <= PageLimit
      BY <1>0, <2>1, LiveFitAPage
    <3>2. Cardinality(LiveRecords) \in Nat /\ PageLimit \in Nat
      <4>1. IsFiniteSet(1..Len(agreements)) /\ LiveRecords \in SUBSET (1..Len(agreements))
        BY <1>0, PendingTypes, FS_Interval DEF LiveRecords
      <4> QED BY <4>1, FS_Subset, FS_CardinalityType, AcceptanceAssumption
    <3> QED BY <3>1, <3>2 DEF SkipReconcile
  <2> DEFINE kept == known \cap LiveRecords
  <2>3. known' = kept \cup Adopted(kept)
    BY <2>2 DEF Reconcile
  <2>4. LiveRecords \subseteq Nat
    BY <1>0, PendingTypes DEF LiveRecords
  <2>5. Adopted(kept) = LiveRecords \ kept
    BY <2>1, <2>4 DEF Adopted, Distinct, Active
  <2> QED BY <2>3, <2>5
<1>4. ~loose' => Distinct'
  <2>1. ~loose' => Active' \subseteq Active
    BY <1>1, <1>3 DEF Active
  <2> QED BY <1>1, <1>u, <2>1 DEF PInv, Distinct, Provider, PendingProvider
<1>5. ~loose' => PollHolds'
  <2>1. \A k \in DOMAIN agreements : agreements[k].expires > head => k \in LiveRecords
    BY DEF LiveRecords
  <2> QED BY <1>0, <1>1, <1>3, <1>u, <2>1 DEF PollHolds
<1> QED BY <1>2, <1>4, <1>5, <1>0 DEF PInv, RestIsEmpty

(* A poll ends, or the process does. *)
LEMMA EndKeepsPInv ==
    ASSUME PInv, AInv', \/ ReadFails \/ PollEnds \/ Restart
                        \/ \E o \in Offer : NoPort(o)
    PROVE  PInv'
<1>0. TypeOK /\ head \in Nat
  BY DEF PInv, AInv, TypeOK
<1>u. /\ UNCHANGED <<head, offers, agreements, pending, loose>> /\ known' \subseteq known
      /\ pc' = "rest" /\ pollHead' = 0 /\ todo' = {}
  BY DEF ReadFails, PollEnds, NoPort, Restart, EndPoll
<1>1. Active' \subseteq Active
  BY <1>u DEF Active, LiveRecords
<1>2. OffersCovered' /\ RestIsEmpty'
  BY <1>0, <1>u DEF PInv, OffersCovered, RestIsEmpty
<1>3. ~loose' => Distinct'
  BY <1>1, <1>u DEF PInv, Distinct, Provider, PendingProvider
<1>4. PollHolds'
  BY <1>u DEF PollHolds
<1> QED BY <1>2, <1>3, <1>4 DEF PInv

(* What the poll may take: an offer alive at its head whose record exists has
   that record in memory, since the record outlives the offer. *)
LEMMA DiscoverKeepsPInv ==
    ASSUME PInv, AInv', DiscoverOffers
    PROVE  PInv'
<1>0. /\ TypeOK /\ pc = "read" /\ pc' = "offers"
      /\ todo' = {o \in Offer : offers[o] > pollHead /\ offers[o] <= pollHead + OfferLife}
      /\ takenProviders' = ProvidersHeld /\ usedPorts' = PortsHeld
      /\ UNCHANGED <<head, offers, agreements, pending, known, pollHead, writing, loose>>
  BY DEF PInv, AInv, DiscoverOffers
<1>t. /\ \A k \in DOMAIN agreements : agreements[k] \in AgreementRecord
      /\ head \in Nat /\ offers \in [Offer -> Nat] /\ pollHead \in Nat /\ pollHead <= head
  BY <1>0, PendingTypes DEF TypeOK, PInv, OffersCovered
<1>1. Active' = Active
  BY <1>0 DEF Active, LiveRecords
<1>2. OffersCovered'
  <2>1. \A o \in todo' : offers[o] # 0 /\ offers[o] <= pollHead + OfferLife
    BY <1>0, <1>t
  <2> QED BY <1>0, <2>1 DEF PInv, OffersCovered
<1>3. ~loose' => Distinct'
  BY <1>0, <1>1 DEF PInv, Distinct, Provider, PendingProvider
<1>4. ASSUME ~loose PROVE PollHolds'
  <2>1. /\ pending = <<>> /\ \A k \in DOMAIN agreements : agreements[k].expires > pollHead => k \in known
    BY <1>0, <1>4 DEF PInv, PollHolds
  <2>2. Active \subseteq known
    BY <1>t, <2>1 DEF Active, LiveRecords, AgreementRecord
  <2>3. \A k \in known : agreements[k].port \in usedPorts' /\ Provider(k) \in takenProviders'
    BY <1>0 DEF PortsHeld, ProvidersHeld
  <2>4. ASSUME NEW k \in DOMAIN agreements, agreements[k].offer \in todo' PROVE k \in known
    <3>1. /\ agreements[k].expires \in Nat /\ agreements[k].offer \in Offer
          /\ offers[agreements[k].offer] \in Nat
      BY <1>t DEF AgreementRecord
    <3>2. offers[agreements[k].offer] <= agreements[k].expires
      BY DEF PInv, OffersCovered
    <3>3. offers[agreements[k].offer] > pollHead
      BY <1>0, <2>4
    <3> QED BY <1>t, <2>1, <3>1, <3>2, <3>3
  <2>5. DOMAIN pending = {}
    BY <2>1
  <2> QED BY <1>0, <1>1, <2>2, <2>3, <2>4, <2>5 DEF PollHolds, Provider
<1> QED BY <1>0, <1>2, <1>3, <1>4 DEF PInv, RestIsEmpty

(* An offer is passed over, or given a port nobody holds. *)
LEMMA WalkKeepsPInv ==
    ASSUME PInv, AInv', NEW o \in Offer, PassOver(o) \/ \E p \in RemotePorts : PickPort(o, p)
    PROVE  PInv'
<1>0. /\ pc = "offers" /\ todo # {} /\ o = Min(todo) /\ todo' = todo \ {o}
      /\ UNCHANGED <<head, offers, agreements, pending, known, pollHead, takenProviders, loose>>
  BY DEF PassOver, PickPort
<1>1. Active' = Active
  BY <1>0 DEF Active, LiveRecords
<1>2. ~loose' => Distinct'
  BY <1>0, <1>1 DEF PInv, Distinct, Provider, PendingProvider
<1>3. CASE PassOver(o)
  <2>1. pc' = "offers" /\ usedPorts' = usedPorts
    BY <1>0, <1>3 DEF PassOver
  <2>2. OffersCovered' /\ RestIsEmpty'
    BY <1>0, <2>1 DEF PInv, OffersCovered, RestIsEmpty
  <2>3. ~loose' => PollHolds'
    BY <1>0, <1>1, <2>1 DEF PInv, PollHolds, Provider, PendingProvider
  <2> QED BY <1>2, <2>2, <2>3 DEF PInv
<1>4. ASSUME NEW p \in RemotePorts, PickPort(o, p) PROVE PInv'
  <2>1. /\ pc' = "write" /\ ~Passed(o) /\ p \notin usedPorts /\ p \in Nat
        /\ usedPorts' = usedPorts \cup {q \in RemotePorts : q < p}
        /\ writing' = [offer |-> o, port |-> p]
    BY <1>4 DEF PickPort, RemotePorts
  <2>2. writing'.offer = o /\ writing'.port = p /\ p \notin usedPorts' /\ usedPorts \subseteq usedPorts'
    BY <2>1
  <2>3. o \in todo
    <3>1. todo \in SUBSET Nat
      BY AcceptanceAssumption DEF PInv, AInv, TypeOK
    <3> QED BY <1>0, <3>1, MinIn
  <2>4. OffersCovered' /\ RestIsEmpty'
    BY <1>0, <2>1, <2>2, <2>3 DEF PInv, OffersCovered, RestIsEmpty
  <2>5. ~loose' => PollHolds'
    <3>1. ASSUME ~loose, NEW k \in DOMAIN agreements PROVE agreements[k].offer # o
      BY <1>0, <2>1, <2>3, <3>1 DEF PInv, PollHolds, Passed, Provider
    <3> QED BY <1>0, <1>1, <2>1, <2>2, <3>1 DEF PInv, PollHolds, Provider, PendingProvider
  <2> QED BY <1>2, <2>4, <2>5 DEF PInv
<1> QED BY <1>3, <1>4

(* The acceptance's answer: landed, refused, unresolved and held, or lost. *)
LEMMA AcceptKeepsPInv ==
    ASSUME PInv, AInv', AcceptLands \/ AcceptFails \/ AcceptUnresolved \/ AcceptLost
    PROVE  PInv'
<1>0. /\ TypeOK /\ pc = "write" /\ pc' = "offers" /\ writing \in Writing
      /\ ProviderOf[writing.offer] \notin takenProviders
      /\ UNCHANGED <<head, offers, pollHead, todo>>
  BY DEF PInv, AInv, TakenCovers, AcceptLands, AcceptFails, AcceptUnresolved, AcceptLost,
     Written
<1>t. /\ head \in Nat /\ pollHead \in Nat /\ pollHead <= head /\ OfferLife \in Nat
      /\ writing.offer \in Offer /\ offers[writing.offer] \in Nat /\ offers[writing.offer] # 0
      /\ offers[writing.offer] <= pollHead + OfferLife
  BY <1>0, AcceptanceAssumption DEF TypeOK, PInv, OffersCovered, Writing
<1>w. offers[writing.offer] <= head + OfferLife
  BY <1>t
<1>r. RestIsEmpty'
  BY <1>0 DEF RestIsEmpty
<1>1. CASE AcceptLands
  <2> DEFINE n == Len(agreements) + 1
  <2>1. /\ DOMAIN agreements' = DOMAIN agreements \cup {n} /\ n \notin DOMAIN agreements
        /\ \A k \in DOMAIN agreements : agreements'[k] = agreements[k]
        /\ agreements'[n].offer = writing.offer /\ agreements'[n].port = writing.port
        /\ agreements'[n].expires = head + OfferLife
    <3>1. agreements' = Landed(writing)
      BY <1>1 DEF AcceptLands
    <3> QED BY <1>0, <3>1, LandedFields
  <2>2. /\ known' = known \cup {n} /\ pending = <<>> /\ pending' = pending /\ loose' = loose
        /\ takenProviders' = takenProviders \cup {ProviderOf[writing.offer]}
        /\ usedPorts' = usedPorts \cup {writing.port}
    BY <1>1 DEF AcceptLands, Hold
  <2> HIDE DEF n
  <2>3. Active \subseteq DOMAIN agreements /\ Active' \subseteq Active \cup {n}
    BY <1>0, <2>1, <2>2 DEF TypeOK, Active, LiveRecords
  <2>4. DOMAIN pending = {}
    BY <2>2
  <2>5. OffersCovered'
    BY <1>0, <1>t, <1>w, <2>1, <2>2, <2>4 DEF PInv, OffersCovered
  <2>6. ~loose' => Distinct'
    BY <1>0, <2>1, <2>2, <2>3, <2>4 DEF PInv, Distinct, PollHolds, Provider
  <2>7. ~loose' => PollHolds'
    BY <1>0, <2>1, <2>2, <2>3, <2>4 DEF PInv, PollHolds, Provider
  <2> QED BY <1>r, <2>5, <2>6, <2>7 DEF PInv
<1>2. CASE AcceptFails
  <2>1. UNCHANGED <<agreements, pending, known, takenProviders, usedPorts, loose>>
    BY <1>2 DEF AcceptFails
  <2>2. Active' = Active
    BY <1>0, <2>1 DEF Active, LiveRecords
  <2>3. OffersCovered'
    BY <1>0, <2>1 DEF PInv, OffersCovered
  <2>4. ~loose' => Distinct'
    BY <2>1, <2>2 DEF PInv, Distinct, Provider, PendingProvider
  <2>5. ~loose' => PollHolds'
    BY <1>0, <2>1, <2>2 DEF PInv, PollHolds, Provider, PendingProvider
  <2> QED BY <1>r, <2>3, <2>4, <2>5 DEF PInv
<1>3. CASE AcceptUnresolved \/ AcceptLost
  <2> DEFINE n == Len(pending) + 1
  <2>1. pending' = Append(pending, writing) /\ UNCHANGED <<agreements, known>>
    BY <1>3 DEF AcceptUnresolved, AcceptLost
  <2>2. /\ DOMAIN pending' = DOMAIN pending \cup {n} /\ n \notin DOMAIN pending
        /\ \A i \in DOMAIN pending : pending'[i] = pending[i]
        /\ pending'[n] = writing
    <3>1. pending \in Seq(Writing) /\ DOMAIN pending = 1..Len(pending) /\ Len(pending) \in Nat
      BY <1>0, PendingTypes
    <3>2. /\ pending' \in Seq(Writing) /\ Len(pending') = n
          /\ \A i \in 1..Len(pending) : pending'[i] = pending[i]
          /\ pending'[n] = writing
      BY <1>0, <2>1, <3>1, AppendProperties
    <3>3. DOMAIN pending' = 1..n
      BY <3>2, LenProperties
    <3>4. 1..n = 1..Len(pending) \cup {n} /\ n \notin 1..Len(pending)
      BY <3>1
    <3> QED BY <3>1, <3>2, <3>3, <3>4
  <2> HIDE DEF n
  <2>3. Active' = Active
    BY <1>0, <2>1 DEF Active, LiveRecords
  <2>4. OffersCovered'
    BY <1>0, <1>t, <1>w, <2>1, <2>2 DEF PInv, OffersCovered
  <2>5. ASSUME ~loose' PROVE /\ ~loose /\ takenProviders' = takenProviders \cup {ProviderOf[writing.offer]}
                             /\ usedPorts' = usedPorts \cup {writing.port}
    BY <1>3, <2>5 DEF AcceptUnresolved, AcceptLost, Hold
  <2>6. ~loose' => Distinct'
    BY <1>0, <2>1, <2>2, <2>3, <2>5 DEF PInv, Distinct, PollHolds, Provider, PendingProvider
  <2>7. ~loose' => PollHolds'
    BY <1>0, <2>1, <2>2, <2>3, <2>5 DEF PInv, PollHolds, Provider, PendingProvider
  <2> QED BY <1>r, <2>4, <2>6, <2>7 DEF PInv
<1> QED BY <1>1, <1>2, <1>3

(* A refresh: the records it extends were live and in memory. *)
LEMMA RefreshKeepsPInv ==
    ASSUME PInv, AInv', NEW K \in SUBSET known, Refresh(K)
    PROVE  PInv'
<1>0. /\ TypeOK /\ K \subseteq LiveRecords /\ K \subseteq known
      /\ UNCHANGED <<head, offers, pending, known, pc, pollVars, loose>>
  BY DEF PInv, AInv, Refresh
<1>t. /\ \A k \in DOMAIN agreements : agreements[k] \in AgreementRecord
      /\ head \in Nat /\ offers \in [Offer -> Nat] /\ OfferLife \in Nat /\ AgreementLife \in Nat
      /\ OfferLife < AgreementLife
  BY <1>0, PendingTypes, AcceptanceAssumption DEF TypeOK
<1>1. /\ DOMAIN agreements' = DOMAIN agreements
      /\ \A k \in DOMAIN agreements :
           /\ agreements'[k].offer = agreements[k].offer /\ agreements'[k].port = agreements[k].port
           /\ k \notin K => agreements'[k].expires = agreements[k].expires
           /\ k \in K => agreements'[k].expires = head + AgreementLife
  <2>1. agreements' = [k \in DOMAIN agreements |->
                         IF k \in K THEN [agreements[k] EXCEPT !.expires = head + AgreementLife]
                         ELSE agreements[k]]
    BY DEF Refresh
  <2>2. \A r \in AgreementRecord :
          LET q == [r EXCEPT !.expires = head + AgreementLife]
          IN q.offer = r.offer /\ q.port = r.port /\ q.expires = head + AgreementLife
    BY DEF AgreementRecord
  <2> QED BY <1>t, <2>1, <2>2
<1>2. Active' \subseteq Active /\ Active \subseteq DOMAIN agreements
  BY <1>0, <1>1 DEF Active, LiveRecords, TypeOK
<1>3. OffersCovered'
  <2>1. ASSUME NEW k \in DOMAIN agreements
        PROVE  /\ offers[agreements[k].offer] # 0 /\ offers[agreements[k].offer] <= head + OfferLife
               /\ offers[agreements[k].offer] <= agreements'[k].expires
    <3>1. /\ offers[agreements[k].offer] # 0 /\ offers[agreements[k].offer] <= head + OfferLife
          /\ offers[agreements[k].offer] <= agreements[k].expires
      BY DEF PInv, OffersCovered
    <3>2. offers[agreements[k].offer] \in Nat
      BY <1>t DEF AgreementRecord
    <3> QED BY <1>1, <1>t, <3>1, <3>2
  <2> QED BY <1>0, <1>1, <2>1 DEF PInv, OffersCovered, pollVars
<1>4. ~loose' => Distinct'
  BY <1>0, <1>1, <1>2 DEF PInv, Distinct, Provider, PendingProvider
<1>5. ~loose' => PollHolds'
  BY <1>0, <1>1, <1>2 DEF PInv, PollHolds, Provider, PendingProvider, pollVars
<1>6. RestIsEmpty'
  BY <1>0 DEF PInv, RestIsEmpty, pollVars
<1> QED BY <1>3, <1>4, <1>5, <1>6 DEF PInv

(* Every step keeps it. *)
LEMMA NextPInv == PInv /\ [Next]_vars => PInv'
<1> SUFFICES ASSUME PInv, [Next]_vars PROVE PInv'
  OBVIOUS
<1>0. AInv'
  BY NextAInv DEF PInv
<1>1. CASE UNCHANGED vars
  <2>1. Active' = Active
    BY <1>1 DEF Active, LiveRecords, vars
  <2> QED BY <1>0, <1>1, <2>1 DEF PInv, OffersCovered, RestIsEmpty, Distinct, PollHolds,
             Provider,
             PendingProvider, vars
<1>2. CASE Next
  BY <1>0, <1>2, BlocksKeepPInv, PendingKeepsPInv, ReconcileKeepsPInv, EndKeepsPInv,
     DiscoverKeepsPInv, WalkKeepsPInv, AcceptKeepsPInv, RefreshKeepsPInv DEF Next
<1> QED BY <1>1, <1>2

(* Holding an unresolved acceptance's port for the rest of the poll is enough:
   as long as every answer that is out is settled before the next poll, no two
   agreements in memory share a tunnel port, across restarts, expiries and
   refreshes (discover_offers: "The lowest port no live agreement holds"). *)
THEOREM HeldPortsAreDistinct == Spec => []HeldPortsDistinct
<1>1. PInv => HeldPortsDistinct
  BY DEF PInv, Distinct, Active, HeldPortsDistinct, PortsDistinct
<1> QED BY <1>1, InitPInv, NextPInv, PTL DEF Spec

(* And no offer is then ever accepted twice: the record's first life covers what
   is left of the offer's, so a poll that can still see the offer has its record
   in memory (accept: "a provider that never connects is not accepted a second
   time from the same offer"). *)
THEOREM NoOfferTwice == Spec => []AcceptedOnce
<1>1. PInv => AcceptedOnce
  BY DEF PInv, Distinct, AcceptedOnce
<1> QED BY <1>1, InitPInv, NextPInv, PTL DEF Spec
=============================================================================
