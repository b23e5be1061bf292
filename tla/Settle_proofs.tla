---------------------------- MODULE Settle_proofs ----------------------------
(***************************************************************************)
(* For any records, providers, page and batch sizes, lifetimes, keys and   *)
(* number of runs, with or without crashes: settlement is type correct, a  *)
(* run plans everything it had to find, money and receipts agree between   *)
(* runs that exited 0, and Settle implements Payments.                     *)
(***************************************************************************)
EXTENDS Settle, TLAPS, SequenceTheorems, FiniteSetTheorems, WellFoundedInduction

(* A receipt was written for the record, whoever paid and whenever. *)
HasReceipt(r) == \E x \in receipts : x.counter = r

(* At most one transfer is out, and only while a run waits for it or after
   a run that did not exit 0; it covers closed, unpaid records of one
   provider. *)
FlightsInv ==
    /\ \A f, g \in flights : f = g
    /\ \A f \in flights : \A r \in f : /\ r \notin PaidFor /\ expires[r] # 0
                                       /\ \A s \in f : ProviderOf[r] = ProviderOf[s]
    /\ pc = "wait" => flights \subseteq {batch}
    /\ flights # {} => pc = "wait" \/ (pc = "rest" /\ ~clear)

(* A receipt is for a record that was paid, by a key the next run knows, and
   outlives its record by at least Lag blocks. *)
ReceiptsInv ==
    /\ \A x \in receipts : /\ x.counter \in PaidFor /\ x.payer <= key
                           /\ x.expires >= expires[x.counter] + Lag
    /\ \A r \in Record : expires[r] + Lag <= head + MaxLife
    /\ \A r \in PaidFor : expires[r] # 0

(* Of what was paid and still exists, only the transfer a run is busy with,
   or left behind when it did not exit 0, may lack its receipt. *)
SettledInv ==
    /\ (pc = "rest" /\ clear) \/ pc \in {"closed", "receipts", "balances", "pay"} =>
         \A r \in PaidFor : Live(r) => HasReceipt(r)
    /\ pc = "wait" \/ (pc = "write" /\ missing = 0) =>
         \A r \in PaidFor \ batch : Live(r) => HasReceipt(r)

(* While the run reads the closed records. *)
ClosedInv ==
    pc = "closed" =>
        /\ found = {} /\ plan = {}
        /\ \A r \in rows : expires[r] > began
        /\ \A r \in due : Live(r) /\ r <= after => r \in rows

(* While it reads receipts: of the provider asked about, nothing is left in
   found that a payer already read has a receipt for. *)
PayersInv ==
    pc = "receipts" =>
        /\ asked[2] \in 1..key /\ rows \subseteq PaidFor
        /\ \A r \in found : expires[r] > began
        /\ \A r \in due : Live(r) => r \in found \cup plan
        /\ \A x \in receipts : ProviderOf[x.counter] = asked[1] =>
             /\ x.payer > asked[2] => x.counter \notin found
             /\ x.payer = asked[2] /\ x.expires > head /\ x.counter <= after =>
                  x.counter \in rows

(* While it reads at all: the reads take at most Lag blocks, and what was paid
   and was there when they began has its receipt. *)
ReadsInv ==
    pc \in {"closed", "receipts"} =>
        /\ began <= head /\ head <= began + Lag
        /\ \A r \in PaidFor : /\ expires[r] > began => HasReceipt(r)
                              /\ r \notin due

(* What the run had to find is closed, and what it will still pay for is closed
   and unpaid. *)
PlanInv ==
    /\ \A r \in due : expires[r] # 0
    /\ pc # "rest" => clear
    /\ pc \in {"closed", "receipts", "balances"} => tried = {}
    /\ \A r \in plan : expires[r] # 0 /\ (ProviderOf[r] \notin tried => r \notin PaidFor)
    /\ pc = "pay" => tried # Providers(plan)
    /\ pc = "wait" => \A r \in batch : ProviderOf[r] \in tried
    /\ pc = "write" => batch \subseteq PaidFor

(* Nothing of a run is left when it has ended. *)
RestInv ==
    pc = "rest" => /\ rows = {} /\ after = 0 /\ found = {} /\ plan = {} /\ tried = {}
                   /\ batch = {} /\ missing = 0 /\ due = {}

SInv == /\ RestInv /\ TypeOK /\ FlightsInv /\ ReceiptsInv /\ SettledInv /\ ClosedInv /\ PayersInv
        /\ ReadsInv /\ PlanInv /\ PlanComplete

-----------------------------------------------------------------------------
(* The least-number principle, for sets (the provers cannot instantiate the
   library's operator form): every minimum of settle's ledger exists. *)
LEMMA LeastNat ==
    ASSUME NEW S \in SUBSET Nat, S # {}
    PROVE  \E m \in S : \A k \in S : m <= k
<1>1. PICK m \in S : \A k \in S : ~ (<<k, m>> \in OpToRel(<, Nat))
  BY NatLessThanWellFounded, WFMin
<1>2. \A k \in S : ~ (k < m)
  BY <1>1 DEF OpToRel
<1>3. m \in Nat /\ \A k \in S : k \in Nat
  OBVIOUS
<1> QED BY <1>2, <1>3

(* A finite set of numbers is bounded: a smallest unbounded part would stay
   unbounded without one of its elements. *)
LEMMA FiniteIsBounded ==
    ASSUME NEW S \in SUBSET Nat, IsFiniteSet(S)
    PROVE  \E b \in Nat : \A k \in S : k <= b
<1> DEFINE U(T) == \A b \in Nat : \E k \in T : k > b
           N == {Cardinality(T) : T \in {X \in SUBSET S : U(X)}}
<1>1. \A T \in SUBSET S : IsFiniteSet(T) /\ Cardinality(T) \in Nat
  BY FS_Subset, FS_CardinalityType
<1>2. SUFFICES ASSUME N # {} PROVE FALSE
  <2>1. U(S) \/ \E b \in Nat : \A k \in S : k <= b
    OBVIOUS
  <2> QED BY <1>2
<1>3. N \in SUBSET Nat
  BY <1>1
<1> HIDE DEF N
<1>4. PICK n \in N : \A k \in N : n <= k
  BY <1>2, <1>3, LeastNat
<1>5. PICK T \in SUBSET S : U(T) /\ n = Cardinality(T)
  BY <1>4 DEF N
<1>6. PICK x \in T : x > 0
  BY <1>5
<1>7. IsFiniteSet(T \ {x}) /\ Cardinality(T \ {x}) = Cardinality(T) - 1
  BY <1>1, <1>6, FS_RemoveElement
<1>8. ~ U(T \ {x})
  <2>1. SUFFICES ASSUME U(T \ {x}) PROVE FALSE
    OBVIOUS
  <2>2. T \ {x} \in {X \in SUBSET S : U(X)}
    BY <2>1
  <2>3. Cardinality(T \ {x}) \in N
    BY <2>2 DEF N
  <2> QED BY <1>1, <1>3, <1>4, <1>5, <1>7, <2>3
<1>9. PICK b \in Nat : \A k \in T \ {x} : ~ (k > b)
  BY <1>8
<1>10. x \in Nat /\ b + x \in Nat /\ \A k \in T : k \in Nat
  OBVIOUS
<1>11. \A k \in T : ~ (k > b + x)
  BY <1>9, <1>10
<1> QED BY <1>5, <1>10, <1>11

(* The last key of a page (everyPage) is one of its keys. *)
LEMMA MaxIn ==
    ASSUME NEW S \in SUBSET Nat, IsFiniteSet(S), S # {}
    PROVE  Max(S) \in S /\ \A k \in S : k <= Max(S)
<1> DEFINE B == {b \in Nat : \A k \in S : k <= b}
<1>1. PICK b \in B : \A c \in B : b <= c
  BY FiniteIsBounded, LeastNat
<1>2. b \in S
  <2>1. SUFFICES ASSUME b \notin S PROVE FALSE
    OBVIOUS
  <2>0. b \in Nat /\ \A k \in S : k \in Nat /\ k <= b /\ k # b
    BY <2>1
  <2>2. \A k \in S : k <= b - 1 /\ b - 1 \in Nat
    BY <2>0
  <2>3. b - 1 \in B
    BY <2>2
  <2> QED BY <1>1, <2>3
<1>3. \E x \in S : \A y \in S : x >= y
  BY <1>1, <1>2
<1> QED BY <1>3 DEF Max

(* The next provider (ledger and pay walk them in order) is one of them. *)
LEMMA MinIn ==
    ASSUME NEW S \in SUBSET Nat, S # {}
    PROVE  Min(S) \in S /\ \A k \in S : Min(S) <= k
BY LeastNat DEF Min

-----------------------------------------------------------------------------
(* everyPage: a page is never empty before the last, its last key moves the
   cursor forward, and it skips nothing up to that key. *)
LEMMA PageSkipsNothing ==
    ASSUME TypeOK, NEW S \in SUBSET Record, ~LastPage(S), NEW n \in 1..Page
    PROVE  /\ PageOf(S, n) \subseteq S /\ Max(PageOf(S, n)) \in Nat
           /\ \A k \in S : k <= Max(PageOf(S, n)) => k <= after \/ k \in PageOf(S, n)
<1> DEFINE B == Beyond(S)
           Before(k) == {j \in B : j < k}
           P == PageOf(S, n)
<1>0. Record \subseteq Nat /\ Page \in Nat /\ after \in Nat
  BY SettleAssumption DEF TypeOK
<1>a. S \subseteq Nat /\ n \in Nat /\ n > 0
  BY <1>0
<1>1. B \subseteq Nat /\ IsFiniteSet(B) /\ B # {} /\ B \subseteq S
  <2>1. B \in SUBSET Record
    BY DEF Beyond
  <2>2. IsFiniteSet(B)
    BY <2>1, SettleAssumption, FS_Subset
  <2> QED BY <1>0, <2>2 DEF Beyond, LastPage
<1>b. \A k \in S : k \in Nat /\ (~(k <= after) => k \in B)
  BY <1>0, <1>a DEF Beyond
<1>2. P = {k \in B : Cardinality(Before(k)) < n}
  BY DEF PageOf
<1> HIDE DEF B, P
<1>3. \A k \in B : Before(k) \in SUBSET B /\ IsFiniteSet(Before(k)) /\ Cardinality(Before(k)) \in Nat
  <2> SUFFICES ASSUME NEW k \in B
               PROVE  Before(k) \in SUBSET B /\ IsFiniteSet(Before(k)) /\ Cardinality(Before(k)) \in Nat
    OBVIOUS
  <2>1. Before(k) \in SUBSET B
    OBVIOUS
  <2> QED BY <1>1, FS_Subset, FS_CardinalityType
<1>4. PICK m \in B : \A k \in B : m <= k
  BY <1>1, LeastNat
<1>5. Before(m) = {}
  <2>1. \A k \in B : k \in Nat /\ m \in Nat
    BY <1>1
  <2> QED BY <1>4, <2>1
<1>6. m \in P
  BY <1>a, <1>2, <1>5, FS_EmptySet
<1>7. P \in SUBSET Nat /\ IsFiniteSet(P) /\ P \subseteq B
  <2>1. P \in SUBSET B
    BY <1>2
  <2> QED BY <1>1, <2>1, FS_Subset
<1>8. Max(P) \in P /\ \A k \in P : k <= Max(P)
  BY <1>6, <1>7, MaxIn
<1>9. ASSUME NEW k \in S, k <= Max(P), ~(k <= after) PROVE k \in P
  <2>1. k \in B /\ Max(P) \in B
    BY <1>7, <1>8, <1>9, <1>b
  <2>2. Before(k) \in SUBSET Before(Max(P))
    <3>1. k \in Nat /\ Max(P) \in Nat /\ \A j \in B : j \in Nat
      BY <1>1, <2>1
    <3> QED BY <1>9, <3>1
  <2>3. Cardinality(Before(k)) <= Cardinality(Before(Max(P)))
    BY <1>3, <2>1, <2>2, FS_Subset
  <2>4. Cardinality(Before(Max(P))) < n
    BY <1>2, <1>8
  <2>5. Cardinality(Before(k)) < n
    <3>1. Cardinality(Before(k)) \in Nat /\ Cardinality(Before(Max(P))) \in Nat
      BY <1>3, <2>1
    <3> QED BY <1>a, <2>3, <2>4, <3>1
  <2> QED BY <1>2, <2>1, <2>5
<1>10. P \subseteq S /\ Max(P) \in Nat
  BY <1>1, <1>7, <1>8
<1> QED BY <1>9, <1>10 DEF P

(* A transfer that is mined pays for what it covers and for nothing else. *)
LEMMA MinedIsPaid ==
    ASSUME TypeOK, NEW f \in SUBSET Record, landed' = Append(landed, f)
    PROVE  landed' \in Seq(SUBSET Record) /\ PaidFor' = PaidFor \cup f
<1>1. landed \in Seq(SUBSET Record)
  BY DEF TypeOK
<1>2. /\ Append(landed, f) \in Seq(SUBSET Record)
      /\ Len(Append(landed, f)) = Len(landed) + 1
      /\ \A k \in 1..Len(landed) : Append(landed, f)[k] = landed[k]
      /\ Append(landed, f)[Len(landed) + 1] = f
  BY <1>1, AppendProperties
<1>3. /\ DOMAIN landed = 1..Len(landed) /\ Len(landed) \in Nat
      /\ DOMAIN landed' = 1..(Len(landed) + 1)
  BY <1>1, <1>2, LenProperties
<1>4. \A r : r \in PaidFor' <=> \E k \in 1..(Len(landed) + 1) : r \in landed'[k]
  BY <1>3 DEF PaidFor
<1>5. \A r : r \in PaidFor <=> \E k \in 1..Len(landed) : r \in landed[k]
  BY <1>3 DEF PaidFor
<1>6. \A k \in 1..(Len(landed) + 1) : k \in 1..Len(landed) \/ k = Len(landed) + 1
  BY <1>3
<1>7. /\ Len(landed) + 1 \in 1..(Len(landed) + 1)
      /\ \A k \in 1..Len(landed) : k \in 1..(Len(landed) + 1)
  BY <1>3
<1> QED BY <1>2, <1>4, <1>5, <1>6, <1>7

(* Only records are paid for. *)
LEMMA PaidForRecords == TypeOK => PaidFor \subseteq Record
<1> SUFFICES ASSUME TypeOK PROVE PaidFor \subseteq Record
  OBVIOUS
<1>1. \A i \in DOMAIN landed : landed[i] \in SUBSET Record
  <2>1. landed \in Seq(SUBSET Record)
    BY DEF TypeOK
  <2> QED BY <2>1, LenProperties, ElementOfSeq
<1> QED BY <1>1 DEF PaidFor

(* The invariant holds before the first run. *)
LEMMA InitSInv == Init => SInv
<1> SUFFICES ASSUME Init PROVE SInv
  OBVIOUS
<1>1. TypeOK
  BY SettleAssumption DEF Init, NoRun, TypeOK, Providers
<1>2. PaidFor = {}
  BY DEF Init, PaidFor
<1>3. /\ FlightsInv /\ ReceiptsInv /\ SettledInv /\ ClosedInv /\ PayersInv
      /\ ReadsInv /\ PlanInv /\ PlanComplete /\ RestInv
  BY <1>2, SettleAssumption DEF Init, NoRun, FlightsInv, ReceiptsInv, SettledInv, ClosedInv,
     PayersInv, ReadsInv, PlanInv, PlanComplete, RestInv
<1> QED BY <1>1, <1>3 DEF SInv

(* The two chains' own steps: what expires, what is closed and what is mined
   while a run is anywhere. *)
LEMMA ChainKeeps ==
    ASSUME SInv, \/ HeadAdvances \/ \E r \in Record : Close(r)
                 \/ \E f \in flights : Mine(f) \/ Drop(f)
    PROVE  SInv'
<1>1. CASE HeadAdvances
  <2>p. PaidFor' = PaidFor
    BY <1>1 DEF HeadAdvances, PaidFor
  <2>t. /\ head \in Nat /\ head' = head + 1 /\ Lag \in Nat /\ MaxLife \in Nat
        /\ \A r \in Record : expires[r] \in Nat
        /\ \A x \in receipts : x.counter \in Record /\ x.expires \in Nat
        /\ PaidFor \subseteq Record /\ due \subseteq Record /\ began \in Nat
    BY <1>1, PaidForRecords, SettleAssumption DEF HeadAdvances, SInv, TypeOK
  <2>v. \A r \in Record : Live(r)' => Live(r)
    BY <1>1, <2>t DEF Live, HeadAdvances
  <2>c1. TypeOK'
    BY <1>1 DEF SInv, TypeOK, HeadAdvances, runVars, Providers
  <2>c2. FlightsInv'
    BY <1>1, <2>p, <2>v DEF SInv, FlightsInv, HeadAdvances, runVars
  <2>c3. ReceiptsInv'
    BY <1>1, <2>p, <2>t, <2>v DEF SInv, ReceiptsInv, HeadAdvances, runVars
  <2>c4. SettledInv'
    BY <1>1, <2>p, <2>t, <2>v DEF SInv, SettledInv, HasReceipt, HeadAdvances, runVars
  <2>c5. ClosedInv'
    BY <1>1, <2>t, <2>v DEF SInv, ClosedInv, HeadAdvances, runVars
  <2>c6. PayersInv'
    BY <1>1, <2>p, <2>t, <2>v DEF SInv, PayersInv, HeadAdvances, runVars
  <2>c7. ReadsInv'
    BY <1>1, <2>p, <2>t, <2>v DEF SInv, ReadsInv, HasReceipt, HeadAdvances, runVars
  <2>c8. PlanInv'
    BY <1>1, <2>p, <2>v DEF SInv, PlanInv, RestInv, HeadAdvances, runVars
  <2>c9. PlanComplete'
    BY <1>1, <2>t, <2>v DEF SInv, PlanComplete, HeadAdvances, runVars
  <2>c10. RestInv'
    BY <1>1, <2>v DEF SInv, RestInv, HeadAdvances, runVars
  <2> QED BY <2>c1, <2>c2, <2>c3, <2>c4, <2>c5, <2>c6, <2>c7, <2>c8, <2>c9, <2>c10 DEF SInv
<1>2. ASSUME NEW r \in Record, Close(r) PROVE SInv'
  <2>p. PaidFor' = PaidFor
    BY <1>2 DEF Close, PaidFor
  <2>e. PICK left \in 1..(MaxLife - Lag) : expires' = [expires EXCEPT ![r] = head + left]
    BY <1>2 DEF Close
  <2>x. /\ expires' \in [Record -> Nat] /\ expires[r] = 0 /\ expires'[r] # 0
        /\ expires'[r] + Lag <= head + MaxLife /\ expires'[r] > head
        /\ \A s \in Record : s # r => expires'[s] = expires[s]
    BY <1>2, <2>e, SettleAssumption DEF SInv, TypeOK, Close
  <2>r. /\ PaidFor \subseteq Record /\ r \notin PaidFor
        /\ \A x \in receipts : x.counter \in Record
        /\ due \subseteq Record /\ r \notin due /\ found \subseteq Record /\ rows \subseteq Record
    BY <1>2, PaidForRecords DEF SInv, TypeOK, ReceiptsInv, PlanInv, Close
  <2>v. /\ \A s \in Record : s # r => (Live(s)' <=> Live(s))
        /\ pc = "receipts" => r \notin found
        /\ pc = "closed" => r \notin rows
    <3>1. began \in Nat /\ head \in Nat /\ ~(expires[r] > began)
      BY <2>x DEF SInv, TypeOK
    <3> QED BY <1>2, <2>x, <3>1 DEF Live, Close, SInv, PayersInv, ClosedInv
  <2>c1. TypeOK'
    BY <1>2, <2>x DEF SInv, TypeOK, Close, runVars, Providers
  <2>c2. FlightsInv'
    BY <1>2, <2>p, <2>x DEF SInv, FlightsInv, Close, runVars
  <2>c3. ReceiptsInv'
    BY <1>2, <2>p, <2>x DEF SInv, ReceiptsInv, Close, runVars
  <2>c4. SettledInv'
    BY <1>2, <2>p, <2>x, <2>r DEF SInv, SettledInv, Live, HasReceipt, Close, runVars
  <2>c5. ClosedInv'
    BY <1>2, <2>x, <2>r, <2>v DEF SInv, ClosedInv, Close, runVars
  <2>c6. PayersInv'
    BY <1>2, <2>p, <2>x, <2>r, <2>v DEF SInv, PayersInv, Close, runVars
  <2>c7. ReadsInv'
    BY <1>2, <2>p, <2>x, <2>r DEF SInv, ReadsInv, HasReceipt, Close, runVars
  <2>c8. PlanInv'
    BY <1>2, <2>p, <2>x DEF SInv, PlanInv, RestInv, Close, runVars
  <2>c9. PlanComplete'
    BY <1>2, <2>x, <2>r, <2>v DEF SInv, PlanComplete, Close, runVars
  <2>c10. RestInv'
    BY <1>2, <2>x DEF SInv, RestInv, Close, runVars
  <2> QED BY <2>c1, <2>c2, <2>c3, <2>c4, <2>c5, <2>c6, <2>c7, <2>c8, <2>c9, <2>c10 DEF SInv
<1>3. ASSUME NEW f \in flights, Mine(f) PROVE SInv'
  <2>p. /\ landed' \in Seq(SUBSET Record) /\ PaidFor' = PaidFor \cup f
        /\ f \subseteq Record /\ flights' = {}
    <3>1. f \in SUBSET Record /\ flights' = flights \ {f} /\ landed' = Append(landed, f)
      BY <1>3 DEF SInv, TypeOK, Mine
    <3>2. \A g \in flights : g = f
      BY DEF SInv, FlightsInv
    <3> QED BY <3>1, <3>2, MinedIsPaid DEF SInv
  <2>q. (pc = "wait" /\ batch = f) \/ (pc = "rest" /\ ~clear)
    BY DEF SInv, FlightsInv
  <2>c1. TypeOK'
    BY <1>3 DEF SInv, TypeOK, Mine, runVars, Providers
  <2>c2. FlightsInv'
    BY <1>3, <2>q DEF SInv, FlightsInv, Mine, runVars, FlightsInv
  <2>c3. ReceiptsInv'
    BY <1>3, <2>p, <2>q DEF SInv, ReceiptsInv, Mine, runVars, FlightsInv
  <2>c4. SettledInv'
    BY <1>3, <2>p, <2>q DEF SInv, SettledInv, Live, HasReceipt, Mine, runVars, FlightsInv
  <2>c5. ClosedInv'
    BY <1>3, <2>q DEF SInv, ClosedInv, Live, Mine, runVars, FlightsInv
  <2>c6. PayersInv'
    BY <1>3, <2>q DEF SInv, PayersInv, Live, Mine, runVars, FlightsInv
  <2>c7. ReadsInv'
    BY <1>3, <2>q DEF SInv, ReadsInv, HasReceipt, Mine, runVars, FlightsInv
  <2>c8. PlanInv'
    BY <1>3, <2>p, <2>q DEF SInv, PlanInv, RestInv, Mine, runVars, FlightsInv
  <2>c9. PlanComplete'
    BY <1>3, <2>q DEF SInv, PlanComplete, Live, Mine, runVars, FlightsInv
  <2>c10. RestInv'
    BY <1>3, <2>q DEF SInv, RestInv, Mine, runVars, FlightsInv
  <2> QED BY <2>c1, <2>c2, <2>c3, <2>c4, <2>c5, <2>c6, <2>c7, <2>c8, <2>c9, <2>c10 DEF SInv
<1>4. ASSUME NEW f \in flights, Drop(f) PROVE SInv'
  <2>p. PaidFor' = PaidFor
    BY <1>4 DEF Drop, PaidFor
  <2>c1. TypeOK'
    BY <1>4 DEF SInv, TypeOK, Drop, runVars, Providers
  <2>c2. FlightsInv'
    BY <1>4 DEF SInv, FlightsInv, Drop, runVars
  <2>c3. ReceiptsInv'
    BY <1>4, <2>p DEF SInv, ReceiptsInv, Drop, runVars
  <2>c4. SettledInv'
    BY <1>4, <2>p DEF SInv, SettledInv, Live, HasReceipt, Drop, runVars
  <2>c5. ClosedInv'
    BY <1>4 DEF SInv, ClosedInv, Live, Drop, runVars
  <2>c6. PayersInv'
    BY <1>4, <2>p DEF SInv, PayersInv, Live, Drop, runVars
  <2>c7. ReadsInv'
    BY <1>4, <2>p DEF SInv, ReadsInv, HasReceipt, Drop, runVars
  <2>c8. PlanInv'
    BY <1>4, <2>p DEF SInv, PlanInv, RestInv, Drop, runVars
  <2>c9. PlanComplete'
    BY <1>4 DEF SInv, PlanComplete, Live, Drop, runVars
  <2>c10. RestInv'
    BY <1>4 DEF SInv, RestInv, Drop, runVars
  <2> QED BY <2>c1, <2>c2, <2>c3, <2>c4, <2>c5, <2>c6, <2>c7, <2>c8, <2>c9, <2>c10 DEF SInv
<1> QED BY <1>1, <1>2, <1>3, <1>4

(* However a run ends, it leaves what the next one relies on, if an exit code
   of 0 means that no transfer is out and nothing paid lacks its receipt. *)
LEMMA StopKeeps ==
    ASSUME SInv, NEW exit, Stop(exit), UNCHANGED <<chainVars, runs>>,
           exit = 0 => flights = {} /\ \A r \in PaidFor : Live(r) => HasReceipt(r)
    PROVE  SInv'
<1>p. PaidFor' = PaidFor
  BY DEF chainVars, PaidFor
<1>r. pc' = "rest" /\ (clear' <=> exit = 0) /\ clear' \in BOOLEAN
  BY DEF Stop
<1>1. TypeOK'
  <2>1. Providers({}) = {}
    BY DEF Providers
  <2> QED BY <1>r, SettleAssumption DEF SInv, TypeOK, Stop, chainVars
<1>2. FlightsInv'
  BY <1>p, <1>r DEF SInv, FlightsInv, chainVars
<1>3. ReceiptsInv' /\ ClosedInv' /\ PayersInv' /\ ReadsInv' /\ PlanComplete'
  BY <1>p, <1>r DEF SInv, ReceiptsInv, ClosedInv, PayersInv, ReadsInv, PlanComplete,
     chainVars
<1>4. SettledInv'
  BY <1>p, <1>r DEF SettledInv, Live, HasReceipt, chainVars
<1>5. PlanInv' /\ RestInv'
  BY <1>p, <1>r DEF PlanInv, RestInv, Stop
<1> QED BY <1>1, <1>2, <1>3, <1>4, <1>5 DEF SInv

(* A run's last step: an error, a death, a rehearsal, or Finish with its exit
   code. *)
LEMMA EndKeeps ==
    ASSUME SInv, Refuse \/ Crash \/ NotSent \/ Failed \/ Rehearsed \/ Finish
    PROVE  SInv'
<1>1. CASE Refuse \/ Crash \/ NotSent \/ Failed
  <2>1. Stop(1) /\ UNCHANGED <<chainVars, runs>>
    BY <1>1 DEF Refuse, Crash, NotSent, Failed
  <2> QED BY <2>1, StopKeeps
<1>2. CASE Rehearsed
  <2>1. Stop(0) /\ UNCHANGED <<chainVars, runs>> /\ pc = "balances"
    BY <1>2 DEF Rehearsed
  <2>2. flights = {} /\ \A r \in PaidFor : Live(r) => HasReceipt(r)
    BY <2>1 DEF SInv, FlightsInv, SettledInv
  <2> QED BY <2>1, <2>2, StopKeeps
<1>3. CASE Finish
  <2>1. Stop(ExitCode) /\ UNCHANGED <<chainVars, runs>> /\ pc = "write" /\ batch = {}
    BY <1>3 DEF Finish
  <2>2. ExitCode = 0 => flights = {} /\ \A r \in PaidFor : Live(r) => HasReceipt(r)
    BY <2>1 DEF ExitCode, SInv, FlightsInv, SettledInv
  <2> QED BY <2>1, <2>2, StopKeeps
<1> QED BY <1>1, <1>2, <1>3

(* Between runs: a person's check, a new settle key, and the start of a run. *)
LEMMA RestKeeps ==
    ASSUME SInv, Reconcile \/ RotateKey \/ Start
    PROVE  SInv'
<1>1. CASE Reconcile
  <2>p. PaidFor' = PaidFor
    BY <1>1 DEF Reconcile, PaidFor
  <2> DEFINE S == {s \in PaidFor : Live(s) /\ \A x \in receipts : x.counter # s}
             R == {[counter |-> r, payer |-> key, expires |-> head + MaxLife] : r \in S}
  <2>r. receipts' = receipts \cup R /\ pc = "rest" /\ pc' = "rest" /\ clear' = TRUE /\ flights = {}
    BY <1>1 DEF Reconcile
  <2>t. /\ S \subseteq Record /\ S \subseteq PaidFor /\ head + MaxLife \in Nat
        /\ key \in 1..MaxKey /\ key <= key
        /\ \A r \in Record : head + MaxLife >= expires[r] + Lag
    BY PaidForRecords, SettleAssumption DEF SInv, TypeOK, ReceiptsInv
  <2>x. \A x \in R : /\ x \in [counter: Record, payer: 1..MaxKey, expires: Nat]
                     /\ x.counter \in S /\ x.payer = key /\ x.expires = head + MaxLife
    BY <2>t
  <2>y. ASSUME NEW s \in S PROVE \E x \in R : x.counter = s
    <3>1. [counter |-> s, payer |-> key, expires |-> head + MaxLife] \in R
      OBVIOUS
    <3> QED BY <3>1
  <2>h. \A r \in PaidFor : Live(r) => \E x \in receipts \cup R : x.counter = r
    BY <2>y
  <2> HIDE DEF R, S
  <2>c1. TypeOK'
    BY <1>1, <2>r, <2>x DEF SInv, TypeOK, Reconcile, runVars, Providers
  <2>c2. FlightsInv'
    BY <1>1 DEF SInv, FlightsInv, Reconcile, runVars
  <2>c3. ReceiptsInv'
    BY <1>1, <2>p, <2>r, <2>x DEF SInv, ReceiptsInv, Reconcile
  <2>c4. SettledInv'
    BY <1>1, <2>p, <2>r, <2>h DEF SettledInv, Live, HasReceipt, Reconcile
  <2>c5. ClosedInv'
    BY <1>1 DEF SInv, ClosedInv, Live, Reconcile, runVars
  <2>c6. PayersInv'
    BY <1>1 DEF SInv, PayersInv, Live, Reconcile, runVars
  <2>c7. ReadsInv'
    BY <1>1 DEF SInv, ReadsInv, HasReceipt, Reconcile, runVars
  <2>c8. PlanInv'
    BY <1>1 DEF SInv, PlanInv, RestInv, Reconcile, runVars
  <2>c9. PlanComplete'
    BY <1>1 DEF SInv, PlanComplete, Live, Reconcile, runVars
  <2>c10. RestInv'
    BY <1>1 DEF SInv, RestInv, Reconcile, runVars
  <2> QED BY <2>c1, <2>c2, <2>c3, <2>c4, <2>c5, <2>c6, <2>c7, <2>c8, <2>c9, <2>c10 DEF SInv
<1>2. CASE RotateKey
  <2>p. PaidFor' = PaidFor
    BY <1>2 DEF RotateKey, PaidFor
  <2>k. pc = "rest" /\ key \in Nat /\ key' = key + 1 /\ key' \in 1..MaxKey
    BY <1>2, SettleAssumption DEF SInv, TypeOK, RotateKey
  <2>x. \A x \in receipts : x.payer \in Nat
    BY DEF SInv, TypeOK
  <2>c1. TypeOK'
    BY <1>2, <2>k DEF SInv, TypeOK, RotateKey, runVars, Providers
  <2>c2. FlightsInv'
    BY <1>2, <2>p, <2>k, <2>x DEF SInv, FlightsInv, RotateKey, runVars
  <2>c3. ReceiptsInv'
    BY <1>2, <2>p, <2>k, <2>x DEF SInv, ReceiptsInv, RotateKey, runVars
  <2>c4. SettledInv'
    BY <1>2, <2>p, <2>k, <2>x DEF SInv, SettledInv, Live, HasReceipt, RotateKey, runVars
  <2>c5. ClosedInv'
    BY <1>2, <2>k, <2>x DEF SInv, ClosedInv, Live, RotateKey, runVars
  <2>c6. PayersInv'
    BY <1>2, <2>k, <2>x DEF SInv, PayersInv, Live, RotateKey, runVars
  <2>c7. ReadsInv'
    BY <1>2, <2>k, <2>x DEF SInv, ReadsInv, HasReceipt, RotateKey, runVars
  <2>c8. PlanInv'
    BY <1>2, <2>k, <2>x DEF SInv, PlanInv, RestInv, RotateKey, runVars
  <2>c9. PlanComplete'
    BY <1>2, <2>k, <2>x DEF SInv, PlanComplete, Live, RotateKey, runVars
  <2>c10. RestInv'
    BY <1>2, <2>k, <2>x DEF SInv, RestInv, RotateKey, runVars
  <2> QED BY <2>c1, <2>c2, <2>c3, <2>c4, <2>c5, <2>c6, <2>c7, <2>c8, <2>c9, <2>c10 DEF SInv
<1>3. CASE Start
  <2>p. PaidFor' = PaidFor
    BY <1>3 DEF Start, chainVars, PaidFor
  <2>d. /\ pc = "rest" /\ clear /\ pc' = "closed" /\ began' = head /\ head \in Nat /\ Lag \in Nat
        /\ due' = {r \in Record : Live(r)} \ PaidFor
    BY <1>3, SettleAssumption DEF SInv, TypeOK, Start
  <2>l. \A r \in Record : Live(r) => expires[r] # 0
    BY <2>d DEF Live, SInv, TypeOK
  <2>n. rows = {} /\ found = {} /\ plan = {} /\ tried = {} /\ batch = {} /\ missing = 0 /\ after = 0
    BY <2>d DEF SInv, RestInv
  <2>r. Record \subseteq Nat \ {0} /\ \A r \in Record : expires[r] \in Nat
    BY SettleAssumption DEF SInv, TypeOK
  <2>c1. TypeOK'
    BY <1>3, <2>d DEF SInv, TypeOK, Start, chainVars, Providers
  <2>c2. FlightsInv'
    BY <1>3, <2>d DEF SInv, FlightsInv, Start, chainVars
  <2>c3. ReceiptsInv'
    BY <1>3, <2>p, <2>d DEF SInv, ReceiptsInv, Start, chainVars
  <2>c4. SettledInv'
    BY <1>3, <2>p, <2>d DEF SInv, SettledInv, Live, HasReceipt, Start, chainVars
  <2>c5. ClosedInv'
    BY <1>3, <2>d, <2>n, <2>r DEF SInv, ClosedInv, Live, Start, chainVars
  <2>c6. PayersInv'
    BY <1>3, <2>d DEF SInv, PayersInv, Live, Start, chainVars
  <2>c7. ReadsInv'
    BY <1>3, <2>p, <2>d, PaidForRecords DEF SInv, ReadsInv, SettledInv, Live, HasReceipt,
       Start, chainVars
  <2>c8. PlanInv'
    BY <1>3, <2>d, <2>n, <2>l DEF SInv, PlanInv, Start, chainVars
  <2>c9. PlanComplete'
    BY <1>3, <2>d DEF SInv, PlanComplete, Live, Start, chainVars
  <2>c10. RestInv'
    BY <1>3, <2>d DEF SInv, RestInv, Start, chainVars
  <2> QED BY <2>c1, <2>c2, <2>c3, <2>c4, <2>c5, <2>c6, <2>c7, <2>c8, <2>c9, <2>c10 DEF SInv
<1> QED BY <1>1, <1>2, <1>3

(* The pages of the closed records, and the turn to the receipts. *)
LEMMA ClosedKeeps ==
    ASSUME SInv, ClosedPage \/ ClosedRead
    PROVE  SInv'
<1>1. CASE ClosedPage
  <2>p. PaidFor' = PaidFor
    BY <1>1 DEF ClosedPage, chainVars, PaidFor
  <2> DEFINE S == {r \in Record : Live(r)}
  <2>1. pc = "closed" /\ pc' = "closed" /\ ~LastPage(S) /\ S \in SUBSET Record
    BY <1>1 DEF ClosedPage, More
  <2>2. PICK n \in 1..Page : rows' = rows \cup PageOf(S, n) /\ after' = Max(PageOf(S, n))
    BY <1>1 DEF ClosedPage, More
  <2>3. /\ PageOf(S, n) \subseteq S /\ after' \in Nat
        /\ \A k \in S : k <= after' => k <= after \/ k \in PageOf(S, n)
    BY <2>1, <2>2, PageSkipsNothing DEF SInv
  <2>4. /\ rows \subseteq rows' /\ rows' \subseteq rows \cup S
        /\ \A k \in S : k <= after' => k <= after \/ k \in rows'
    BY <2>2, <2>3
  <2>5. /\ began \in Nat /\ head \in Nat /\ began <= head /\ due \subseteq Record
        /\ \A r \in Record : expires[r] \in Nat
    BY <2>1 DEF SInv, TypeOK, ReadsInv
  <2>c1. TypeOK'
    BY <1>1, <2>3, <2>4 DEF SInv, TypeOK, ClosedPage, chainVars, Providers
  <2>c2. FlightsInv'
    BY <1>1 DEF SInv, FlightsInv, ClosedPage, chainVars
  <2>c3. ReceiptsInv'
    BY <1>1, <2>p DEF SInv, ReceiptsInv, ClosedPage, chainVars
  <2>c4. SettledInv'
    BY <1>1, <2>p DEF SInv, SettledInv, Live, HasReceipt, ClosedPage, chainVars
  <2>c5. ClosedInv'
    BY <1>1, <2>4, <2>5 DEF SInv, ClosedInv, Live, ClosedPage, chainVars
  <2>c6. PayersInv'
    BY <1>1 DEF SInv, PayersInv, Live, ClosedPage, chainVars
  <2>c7. ReadsInv'
    BY <1>1, <2>p DEF SInv, ReadsInv, HasReceipt, ClosedPage, chainVars
  <2>c8. PlanInv'
    BY <1>1, <2>p DEF SInv, PlanInv, RestInv, ClosedPage, chainVars
  <2>c9. PlanComplete'
    BY <1>1 DEF SInv, PlanComplete, Live, ClosedPage, chainVars
  <2>c10. RestInv'
    BY <1>1 DEF SInv, RestInv, ClosedPage, chainVars
  <2> QED BY <2>c1, <2>c2, <2>c3, <2>c4, <2>c5, <2>c6, <2>c7, <2>c8, <2>c9, <2>c10 DEF SInv
<1>2. CASE ClosedRead
  <2>p. PaidFor' = PaidFor
    BY <1>2 DEF ClosedRead, chainVars, PaidFor
  <2>1. /\ pc = "closed" /\ found' = rows /\ rows' = {} /\ after' = 0
        /\ \/ rows = {} /\ pc' = "balances" /\ asked' = asked
           \/ rows # {} /\ pc' = "receipts" /\ asked' = <<Min(Providers(rows)), key>>
    BY <1>2 DEF ClosedRead
  <2>2. \A r \in Record : Live(r) => r <= after
    <3>1. \A r \in Record : Live(r) => ~(r > after)
      BY <1>2 DEF ClosedRead, LastPage, Beyond
    <3>2. after \in Nat /\ \A r \in Record : r \in Nat
      BY SettleAssumption DEF SInv, TypeOK
    <3> QED BY <3>1, <3>2
  <2>3. rows # {} => Min(Providers(rows)) \in Nat
    <3>1. rows # {} => Providers(rows) # {}
      BY DEF Providers
    <3>2. Providers(rows) \in SUBSET Nat
      BY SettleAssumption DEF SInv, TypeOK, Providers
    <3> QED BY <3>1, <3>2, MinIn
  <2>4. /\ key \in Nat /\ key >= 1 /\ key \in 0..MaxKey
        /\ due \subseteq Record /\ \A x \in receipts : x.payer <= key /\ x.payer \in Nat
        /\ \A x \in receipts : x.counter \in Record /\ x.counter # 0 /\ x.counter \in Nat
    <3>1. MaxKey \in Nat /\ key \in 1..MaxKey /\ due \subseteq Record
      BY SettleAssumption DEF SInv, TypeOK
    <3>2. \A x \in receipts : x.payer <= key /\ x.payer \in Nat /\ x.counter \in Record
      BY DEF SInv, TypeOK, ReceiptsInv
    <3>3. \A r \in Record : r # 0 /\ r \in Nat
      BY SettleAssumption
    <3> QED BY <3>1, <3>2, <3>3
  <2>5. pc' = "receipts" => asked'[1] = Min(Providers(rows)) /\ asked'[2] = key
    BY <2>1
  <2>c1. TypeOK'
    BY <1>2, <2>3, <2>4 DEF SInv, TypeOK, ClosedRead, chainVars, Providers
  <2>c2. FlightsInv'
    BY <1>2 DEF SInv, FlightsInv, ClosedRead, chainVars
  <2>c3. ReceiptsInv'
    BY <1>2, <2>p DEF SInv, ReceiptsInv, ClosedRead, chainVars
  <2>c4. SettledInv'
    BY <1>2, <2>p DEF SInv, SettledInv, Live, HasReceipt, ClosedRead, chainVars
  <2>c5. ClosedInv'
    BY <1>2 DEF SInv, ClosedInv, Live, ClosedRead, chainVars
  <2>c6. PayersInv'
    BY <1>2, <2>2, <2>4, <2>5 DEF SInv, ClosedInv, PayersInv, Live, ClosedRead, chainVars
  <2>c7. ReadsInv'
    BY <1>2, <2>p DEF SInv, ReadsInv, HasReceipt, ClosedRead, chainVars
  <2>c8. PlanInv'
    BY <1>2 DEF SInv, ClosedInv, PlanInv, ClosedRead, chainVars
  <2>c9. PlanComplete'
    BY <1>2, <2>2, <2>4 DEF SInv, ClosedInv, PlanComplete, Live, ClosedRead, chainVars
  <2>c10. RestInv'
    BY <1>2 DEF SInv, RestInv, ClosedRead, chainVars
  <2> QED BY <2>c1, <2>c2, <2>c3, <2>c4, <2>c5, <2>c6, <2>c7, <2>c8, <2>c9, <2>c10 DEF SInv
<1> QED BY <1>1, <1>2

(* The pages of a payer's receipts, and what they take out of the records
   found: a receipt of a record found is always still there to be read. *)
LEMMA ReceiptsKeep ==
    ASSUME SInv, ReceiptsPage \/ ReceiptsRead
    PROVE  SInv'
<1> DEFINE S == Receipted(asked[1], asked[2])
<1>1. /\ S \in SUBSET Record /\ S \subseteq PaidFor
      /\ \A x \in receipts : x.payer = asked[2] /\ x.expires > head /\ ProviderOf[x.counter] = asked[1]
                               => x.counter \in S
  BY DEF Receipted, SInv, TypeOK, ReceiptsInv
<1> HIDE DEF S
<1>2. CASE ReceiptsPage
  <2>p. PaidFor' = PaidFor
    BY <1>2 DEF ReceiptsPage, chainVars, PaidFor
  <2>1. pc = "receipts" /\ pc' = "receipts" /\ ~LastPage(S)
    BY <1>2 DEF ReceiptsPage, More, S
  <2>2. PICK n \in 1..Page : rows' = rows \cup PageOf(S, n) /\ after' = Max(PageOf(S, n))
    BY <1>2 DEF ReceiptsPage, More, S
  <2>3. /\ PageOf(S, n) \subseteq S /\ after' \in Nat
        /\ \A k \in S : k <= after' => k <= after \/ k \in PageOf(S, n)
    BY <1>1, <2>1, <2>2, PageSkipsNothing DEF SInv
  <2>4. /\ rows \subseteq rows' /\ rows' \subseteq rows \cup S
        /\ \A k \in S : k <= after' => k <= after \/ k \in rows'
    BY <2>2, <2>3
  <2>c1. TypeOK'
    BY <1>1, <1>2, <2>3, <2>4 DEF SInv, TypeOK, ReceiptsPage, chainVars, Providers
  <2>c2. FlightsInv'
    BY <1>2 DEF SInv, FlightsInv, ReceiptsPage, chainVars
  <2>c3. ReceiptsInv'
    BY <1>2, <2>p DEF SInv, ReceiptsInv, ReceiptsPage, chainVars
  <2>c4. SettledInv'
    BY <1>2, <2>p DEF SInv, SettledInv, Live, HasReceipt, ReceiptsPage, chainVars
  <2>c5. ClosedInv'
    BY <1>2 DEF SInv, ClosedInv, Live, ReceiptsPage, chainVars
  <2>c6. PayersInv'
    BY <1>1, <1>2, <2>p, <2>4 DEF SInv, PayersInv, Live, ReceiptsPage, chainVars
  <2>c7. ReadsInv'
    BY <1>2, <2>p DEF SInv, ReadsInv, HasReceipt, ReceiptsPage, chainVars
  <2>c8. PlanInv'
    BY <1>2, <2>p DEF SInv, PlanInv, RestInv, ReceiptsPage, chainVars
  <2>c9. PlanComplete'
    BY <1>2 DEF SInv, PlanComplete, Live, ReceiptsPage, chainVars
  <2>c10. RestInv'
    BY <1>2 DEF SInv, RestInv, ReceiptsPage, chainVars
  <2> QED BY <2>c1, <2>c2, <2>c3, <2>c4, <2>c5, <2>c6, <2>c7, <2>c8, <2>c9, <2>c10 DEF SInv
<1>3. CASE ReceiptsRead
  <2>p. PaidFor' = PaidFor
    BY <1>3 DEF ReceiptsRead, chainVars, PaidFor
  <2> DEFINE p == asked[1]
             unpaid == found \ rows
             rest == unpaid \ Of(p, unpaid)
  <2>1. /\ pc = "receipts" /\ rows' = {} /\ after' = 0 /\ found \subseteq Record
        /\ key \in Nat /\ asked[2] \in 1..key /\ p \in Nat /\ plan \subseteq Record
        /\ \A r \in Record : r \in Nat /\ r # 0
        /\ \A x \in receipts : /\ x.counter \in Record /\ x.payer \in Nat /\ x.payer >= 1 
                               /\ x.payer <= key
    BY <1>3, SettleAssumption DEF ReceiptsRead, SInv, TypeOK, PayersInv, ReceiptsInv
  <2>2. \A k \in S : k <= after
    <3>1. \A k \in S : ~(k > after)
      BY <1>3 DEF ReceiptsRead, LastPage, Beyond, S
    <3>2. after \in Nat /\ \A k \in S : k \in Nat
      BY <1>1 DEF SInv, TypeOK
    <3> QED BY <3>1, <3>2
  <2>3. ASSUME NEW x \in receipts, x.counter \in found PROVE x.expires > head
    <3>1. /\ x.expires \in Nat /\ expires[x.counter] \in Nat /\ head \in Nat /\ began \in Nat
          /\ Lag \in Nat
      BY SettleAssumption DEF SInv, TypeOK
    <3>2. /\ x.expires >= expires[x.counter] + Lag /\ expires[x.counter] > began
          /\ head <= began + Lag
      BY <2>1, <2>3 DEF SInv, ReceiptsInv, PayersInv, ReadsInv
    <3> QED BY <3>1, <3>2
  <2>4. \A x \in receipts : ProviderOf[x.counter] = p /\ x.payer >= asked[2] => x.counter \notin unpaid
    <3> SUFFICES ASSUME NEW x \in receipts, ProviderOf[x.counter] = p, x.payer >= asked[2],
                        x.counter \in found
                 PROVE  x.counter \in rows
      OBVIOUS
    <3>1. x.expires > head
      BY <2>3
    <3>2. x.payer = asked[2]
      BY <2>1 DEF SInv, PayersInv
    <3>3. x.counter \in S
      BY <1>1, <3>1, <3>2
    <3> QED BY <2>1, <2>2, <3>1, <3>2, <3>3 DEF SInv, PayersInv
  <2>5. \A r \in due : Live(r) => r \in unpaid \cup plan
    BY <2>1 DEF SInv, PayersInv, ReadsInv
  <2>6. ASSUME ~(NextPayer(asked[2]) > 0), NEW r \in Of(p, unpaid) PROVE r \notin PaidFor
    <3>1. SUFFICES ASSUME r \in PaidFor PROVE FALSE
      OBVIOUS
    <3>2. r \in found /\ ProviderOf[r] = p /\ r \in unpaid
      BY DEF Of
    <3>3. PICK x \in receipts : x.counter = r
      BY <2>1, <3>1, <3>2 DEF SInv, PayersInv, ReadsInv, HasReceipt
    <3>4. asked[2] = 1
      BY <2>1, <2>6 DEF NextPayer
    <3> QED BY <2>1, <2>4, <3>2, <3>3, <3>4
  <2>7. \A r \in unpaid : /\ r \in Record /\ expires[r] > began /\ expires[r] # 0
                          /\ (r \in Of(p, unpaid) \/ r \in rest)
    <3>1. began \in Nat /\ \A r \in Record : expires[r] \in Nat
      BY DEF SInv, TypeOK
    <3>2. \A r \in found : expires[r] > began
      BY <2>1 DEF SInv, PayersInv
    <3> QED BY <2>1, <3>1, <3>2
  <2>8. \/ /\ NextPayer(asked[2]) > 0 /\ asked' = <<p, NextPayer(asked[2])>> /\ found' = unpaid
           /\ pc' = pc /\ plan' = plan
        \/ /\ ~(NextPayer(asked[2]) > 0) /\ plan' = plan \cup Of(p, unpaid) /\ found' = rest
           /\ \/ rest = {} /\ pc' = "balances" /\ asked' = <<0, 0>>
              \/ rest # {} /\ pc' = pc /\ asked' = <<Min(Providers(rest)), key>>
    BY <1>3 DEF ReceiptsRead
  <2>9. Of(p, unpaid) \subseteq unpaid /\ rest \subseteq unpaid /\ unpaid \subseteq found
    BY DEF Of
  <2>10. rest # {} => Min(Providers(rest)) \in Nat
    <3>1. rest # {} => Providers(rest) # {}
      BY DEF Providers
    <3>2. Providers(rest) \in SUBSET Nat
      BY <2>1, SettleAssumption DEF Providers
    <3> QED BY <3>1, <3>2, MinIn
  <2> HIDE DEF p, unpaid, rest
  <2>c1. TypeOK'
    <3>1. pc' \in {"receipts", "balances"} /\ plan' \subseteq Record /\ found' \subseteq Record
      BY <2>1, <2>8, <2>9
    <3>2. tried = {} /\ tried' = {}
      BY <1>3 DEF SInv, PlanInv, ReceiptsRead
    <3>3. asked' \in Nat \X (0..MaxKey)
      <4>1. key \in 0..MaxKey /\ (NextPayer(asked[2]) > 0 => NextPayer(asked[2]) \in 0..MaxKey)
        BY SettleAssumption DEF SInv, TypeOK, NextPayer
      <4>2. p \in Nat /\ 0 \in 0..MaxKey
        BY <2>1, SettleAssumption
      <4>3. CASE NextPayer(asked[2]) > 0
        BY <2>8, <4>1, <4>2, <4>3
      <4>4. CASE ~(NextPayer(asked[2]) > 0)
        BY <2>8, <2>10, <4>1, <4>2, <4>4
      <4> QED BY <4>3, <4>4
    <3> QED BY <1>3, <3>1, <3>2, <3>3 DEF SInv, TypeOK, ReceiptsRead, chainVars
  <2>c2. FlightsInv'
    BY <1>3, <2>8 DEF SInv, FlightsInv, ReceiptsRead, chainVars
  <2>c3. ReceiptsInv'
    BY <1>3, <2>p, <2>8 DEF SInv, ReceiptsInv, ReceiptsRead, chainVars
  <2>c4. SettledInv'
    BY <1>3, <2>p, <2>8 DEF SInv, SettledInv, Live, HasReceipt, ReceiptsRead, chainVars
  <2>c5. ClosedInv'
    BY <1>3, <2>8 DEF SInv, ClosedInv, Live, ReceiptsRead, chainVars
  <2>c6. PayersInv'
    <3>1. CASE NextPayer(asked[2]) > 0
      <4>1. /\ pc' = "receipts" /\ asked'[1] = p /\ asked'[2] = asked[2] - 1
            /\ found' = unpaid /\ plan' = plan
        BY <2>1, <2>8, <3>1 DEF NextPayer
      <4>2. asked'[2] \in 1..key
        BY <2>1, <3>1, <4>1 DEF NextPayer
      <4>3. \A x \in receipts : x.payer > asked'[2] => x.payer >= asked[2]
        BY <2>1, <4>1
      <4>4. \A x \in receipts : ~(x.counter <= after')
        BY <2>1
      <4> QED BY <1>3, <2>4, <2>5, <2>7, <4>1, <4>2, <4>3, <4>4
             DEF PayersInv, Live, ReceiptsRead, chainVars
    <3>2. CASE ~(NextPayer(asked[2]) > 0) /\ rest = {}
      BY <2>8, <3>2 DEF PayersInv
    <3>3. CASE ~(NextPayer(asked[2]) > 0) /\ rest # {}
      <4>1. /\ pc' = "receipts" /\ asked'[2] = key /\ found' = rest
            /\ plan' = plan \cup Of(p, unpaid)
        BY <2>1, <2>8, <3>3
      <4>2. \A r \in due : Live(r) => r \in found' \cup plan'
        BY <2>5, <2>7, <4>1
      <4>3. \A x \in receipts : ~(x.payer > key) /\ ~(x.counter <= after')
        BY <2>1
      <4>4. asked'[2] \in 1..key
        BY <2>1, <4>1
      <4> QED BY <1>3, <2>7, <2>9, <4>1, <4>2, <4>3, <4>4
             DEF PayersInv, Live, ReceiptsRead, chainVars
    <3> QED BY <3>1, <3>2, <3>3
  <2>c7. ReadsInv'
    BY <1>3, <2>p DEF SInv, ReadsInv, HasReceipt, ReceiptsRead, chainVars
  <2>c8. PlanInv'
    <3>1. plan' \subseteq plan \cup Of(p, unpaid) /\ pc' \in {"receipts", "balances"}
      BY <2>1, <2>8
    <3>2. tried = {} /\ tried' = {}
      BY <1>3 DEF SInv, PlanInv, ReceiptsRead
    <3>3. \A r \in plan' : expires[r] # 0 /\ r \notin PaidFor
      BY <2>6, <2>7, <2>8, <2>9, <3>2 DEF SInv, PlanInv
    <3> QED BY <1>3, <2>p, <3>1, <3>2, <3>3 DEF SInv, PlanInv, ReceiptsRead, chainVars
  <2>c9. PlanComplete'
    <3>1. pc' = "balances" => plan' = plan \cup Of(p, unpaid) /\ rest = {}
      BY <2>1, <2>8
    <3> QED BY <1>3, <2>5, <2>7, <2>8, <3>1 DEF PlanComplete, Live, ReceiptsRead, chainVars
  <2>c10. RestInv'
    BY <1>3, <2>8 DEF SInv, RestInv, ReceiptsRead, chainVars
  <2> QED BY <2>c1, <2>c2, <2>c3, <2>c4, <2>c5, <2>c6, <2>c7, <2>c8, <2>c9, <2>c10 DEF SInv
<1> QED BY <1>2, <1>3

(* The money: one transfer at a time, and receipts for what was seen mined. *)
LEMMA PayKeeps ==
    ASSUME SInv, Balanced \/ Broadcast \/ Paid \/ NextProvider
    PROVE  SInv'
<1>1. CASE Balanced
  <2>p. PaidFor' = PaidFor
    BY <1>1 DEF Balanced, chainVars, PaidFor
  <2>1. pc = "balances" /\ pc' = "pay" /\ plan # {} /\ tried = {}
    BY <1>1 DEF Balanced, SInv, PlanInv
  <2>2. Providers(plan) # {}
    BY <2>1 DEF Providers
  <2>c1. TypeOK'
    BY <1>1 DEF SInv, TypeOK, Balanced, chainVars, runVars, Providers
  <2>c2. FlightsInv'
    BY <1>1 DEF SInv, FlightsInv, Balanced, chainVars, runVars
  <2>c3. ReceiptsInv'
    BY <1>1, <2>p DEF SInv, ReceiptsInv, Balanced, chainVars, runVars
  <2>c4. SettledInv'
    BY <1>1, <2>p DEF SInv, SettledInv, Live, HasReceipt, Balanced, chainVars, runVars
  <2>c5. ClosedInv'
    BY <1>1 DEF SInv, ClosedInv, Live, Balanced, chainVars, runVars
  <2>c6. PayersInv'
    BY <1>1 DEF SInv, PayersInv, Live, Balanced, chainVars, runVars
  <2>c7. ReadsInv'
    BY <1>1 DEF SInv, ReadsInv, HasReceipt, Balanced, chainVars, runVars
  <2>c8. PlanInv'
    BY <1>1, <2>p, <2>2 DEF SInv, PlanInv, Providers, Balanced, chainVars, runVars
  <2>c9. PlanComplete'
    BY <1>1 DEF SInv, PlanComplete, Live, Balanced, chainVars, runVars
  <2>c10. RestInv'
    BY <1>1 DEF SInv, RestInv, Balanced, chainVars, runVars
  <2> QED BY <2>c1, <2>c2, <2>c3, <2>c4, <2>c5, <2>c6, <2>c7, <2>c8, <2>c9, <2>c10 DEF SInv
<1>2. CASE Broadcast
  <2>p. PaidFor' = PaidFor
    BY <1>2 DEF Broadcast, PaidFor
  <2> DEFINE f == Of(Payee, plan)
  <2>1. /\ pc = "pay" /\ pc' = "wait" /\ flights = {} /\ flights' = {f} /\ batch' = f
        /\ tried' = tried \cup {Payee}
    BY <1>2 DEF Broadcast, SInv, FlightsInv
  <2>2. Payee \in Providers(plan) \ tried
    <3>1. Providers(plan) \ tried # {}
      BY <2>1 DEF SInv, TypeOK, PlanInv
    <3>2. Providers(plan) \ tried \in SUBSET Nat
      BY SettleAssumption DEF SInv, TypeOK, Providers
    <3> QED BY <3>1, <3>2, MinIn DEF Payee
  <2>3. \A r \in f : r \in plan /\ ProviderOf[r] = Payee /\ r \in Record
    BY DEF Of, SInv, TypeOK
  <2> HIDE DEF f
  <2>4. \A r \in f : r \notin PaidFor /\ expires[r] # 0
    BY <2>2, <2>3 DEF SInv, PlanInv
  <2>c1. TypeOK'
    BY <1>2, <2>1, <2>2, <2>3 DEF SInv, TypeOK, Broadcast, Providers
  <2>c2. FlightsInv'
    BY <1>2, <2>p, <2>1, <2>3, <2>4 DEF FlightsInv, Broadcast
  <2>c3. ReceiptsInv'
    BY <1>2, <2>p DEF SInv, ReceiptsInv, Broadcast
  <2>c4. SettledInv'
    BY <1>2, <2>p DEF SInv, SettledInv, Live, HasReceipt, Broadcast
  <2>c5. ClosedInv'
    BY <1>2 DEF SInv, ClosedInv, Live, Broadcast
  <2>c6. PayersInv'
    BY <1>2 DEF SInv, PayersInv, Live, Broadcast
  <2>c7. ReadsInv'
    BY <1>2 DEF SInv, ReadsInv, HasReceipt, Broadcast
  <2>c8. PlanInv'
    BY <1>2, <2>p, <2>1, <2>3 DEF SInv, PlanInv, Broadcast
  <2>c9. PlanComplete'
    BY <1>2 DEF SInv, PlanComplete, Live, Broadcast
  <2>c10. RestInv'
    BY <1>2 DEF SInv, RestInv, Broadcast
  <2> QED BY <2>c1, <2>c2, <2>c3, <2>c4, <2>c5, <2>c6, <2>c7, <2>c8, <2>c9, <2>c10 DEF SInv
<1>3. CASE Paid
  <2>p. PaidFor' = PaidFor
    BY <1>3 DEF Paid, chainVars, PaidFor
  <2>1. /\ pc = "wait" /\ pc' = "write" /\ batch \notin flights /\ landed # <<>>
        /\ landed[Len(landed)] = batch
    BY <1>3 DEF Paid, SeenMined
  <2>2. flights = {}
    BY <2>1 DEF SInv, FlightsInv
  <2>3. batch \subseteq PaidFor
    <3>1. landed \in Seq(SUBSET Record)
      BY DEF SInv, TypeOK
    <3>2. Len(landed) \in DOMAIN landed
      BY <2>1, <3>1
    <3> QED BY <2>1, <3>2 DEF PaidFor
  <2>c1. TypeOK'
    BY <1>3 DEF SInv, TypeOK, Paid, chainVars, runVars, Providers
  <2>c2. FlightsInv'
    BY <1>3, <2>2, <2>3 DEF SInv, FlightsInv, Paid, chainVars, runVars
  <2>c3. ReceiptsInv'
    BY <1>3, <2>p, <2>2, <2>3 DEF SInv, ReceiptsInv, Paid, chainVars, runVars
  <2>c4. SettledInv'
    BY <1>3, <2>p, <2>1, <2>2, <2>3 DEF SInv, SettledInv, Live, HasReceipt, Paid, chainVars,
       runVars
  <2>c5. ClosedInv'
    BY <1>3, <2>2, <2>3 DEF SInv, ClosedInv, Live, Paid, chainVars, runVars
  <2>c6. PayersInv'
    BY <1>3, <2>2, <2>3 DEF SInv, PayersInv, Live, Paid, chainVars, runVars
  <2>c7. ReadsInv'
    BY <1>3, <2>2, <2>3 DEF SInv, ReadsInv, HasReceipt, Paid, chainVars, runVars
  <2>c8. PlanInv'
    BY <1>3, <2>p, <2>1, <2>2, <2>3 DEF SInv, PlanInv, RestInv, Paid, chainVars, runVars
  <2>c9. PlanComplete'
    BY <1>3, <2>1, <2>2, <2>3 DEF SInv, PlanComplete, Live, Paid, chainVars, runVars
  <2>c10. RestInv'
    BY <1>3, <2>2, <2>3 DEF SInv, RestInv, Paid, chainVars, runVars
  <2> QED BY <2>c1, <2>c2, <2>c3, <2>c4, <2>c5, <2>c6, <2>c7, <2>c8, <2>c9, <2>c10 DEF SInv
<1>4. CASE NextProvider
  <2>p. PaidFor' = PaidFor
    BY <1>4 DEF NextProvider, chainVars, PaidFor
  <2>1. pc = "write" /\ pc' = "pay" /\ batch = {} /\ missing = 0 /\ Providers(plan) # tried
    BY <1>4 DEF NextProvider
  <2>c1. TypeOK'
    BY <1>4 DEF SInv, TypeOK, NextProvider, chainVars, runVars, Providers
  <2>c2. FlightsInv'
    BY <1>4 DEF SInv, FlightsInv, NextProvider, chainVars, runVars
  <2>c3. ReceiptsInv'
    BY <1>4, <2>p DEF SInv, ReceiptsInv, NextProvider, chainVars, runVars
  <2>c4. SettledInv'
    BY <1>4, <2>p DEF SInv, SettledInv, Live, HasReceipt, NextProvider, chainVars, runVars
  <2>c5. ClosedInv'
    BY <1>4 DEF SInv, ClosedInv, Live, NextProvider, chainVars, runVars
  <2>c6. PayersInv'
    BY <1>4 DEF SInv, PayersInv, Live, NextProvider, chainVars, runVars
  <2>c7. ReadsInv'
    BY <1>4 DEF SInv, ReadsInv, HasReceipt, NextProvider, chainVars, runVars
  <2>c8. PlanInv'
    BY <1>4, <2>p DEF SInv, PlanInv, Providers, NextProvider, chainVars, runVars
  <2>c9. PlanComplete'
    BY <1>4 DEF SInv, PlanComplete, Live, NextProvider, chainVars, runVars
  <2>c10. RestInv'
    BY <1>4 DEF SInv, RestInv, NextProvider, chainVars, runVars
  <2> QED BY <2>c1, <2>c2, <2>c3, <2>c4, <2>c5, <2>c6, <2>c7, <2>c8, <2>c9, <2>c10 DEF SInv
<1> QED BY <1>1, <1>2, <1>3, <1>4

(* A batch of receipts: they are for what was paid, in the key's name, and
   outlive their records by Lag blocks (receiptFor). *)
LEMMA BatchReceipts ==
    ASSUME SInv, pc = "write"
    PROVE  /\ BatchOf(batch) \subseteq batch /\ BatchOf(batch) \subseteq PaidFor
           /\ IsFiniteSet(BatchOf(batch)) /\ Cardinality(BatchOf(batch)) \in Nat
           /\ \A x \in ReceiptsFor(BatchOf(batch)) :
                /\ x \in [counter: Record, payer: 1..MaxKey, expires: Nat]
                /\ x.counter \in BatchOf(batch) /\ x.payer <= key
                /\ x.expires >= expires[x.counter] + Lag
           /\ \A r \in BatchOf(batch) : \E x \in ReceiptsFor(BatchOf(batch)) : x.counter = r
<1> DEFINE B == BatchOf(batch)
<1>1. B \subseteq batch /\ B \subseteq PaidFor /\ B \in SUBSET Record
  BY DEF BatchOf, SInv, PlanInv, TypeOK
<1>2. IsFiniteSet(B) /\ Cardinality(B) \in Nat
  BY <1>1, SettleAssumption, FS_Subset, FS_CardinalityType
<1> HIDE DEF B
<1>3. /\ head + MaxLife \in Nat /\ key \in 1..MaxKey /\ key <= key
      /\ \A r \in Record : head + MaxLife >= expires[r] + Lag
  BY SettleAssumption DEF SInv, TypeOK, ReceiptsInv
<1>4. \A x \in ReceiptsFor(B) : /\ x \in [counter: Record, payer: 1..MaxKey, expires: Nat]
                                /\ x.counter \in B /\ x.payer <= key
                                /\ x.expires >= expires[x.counter] + Lag
  BY <1>1, <1>3 DEF ReceiptsFor
<1>5. ASSUME NEW r \in B PROVE \E x \in ReceiptsFor(B) : x.counter = r
  <2>1. [counter |-> r, payer |-> key, expires |-> head + MaxLife] \in ReceiptsFor(B)
    BY DEF ReceiptsFor
  <2> QED BY <2>1
<1> QED BY <1>1, <1>2, <1>4, <1>5 DEF B

(* Writing the receipts, and failing to. *)
LEMMA WriteKeeps ==
    ASSUME SInv, WriteReceipts \/ WriteFails
    PROVE  SInv'
<1> DEFINE B == BatchOf(batch)
           R == ReceiptsFor(B)
<1>1. /\ pc = "write" /\ pc' = "write" /\ batch' = batch \ B
      /\ UNCHANGED <<head, expires, flights, landed, key, clear, runs, began, rows, after,
                     found, asked, plan, tried, due>>
      /\ \/ receipts' = receipts \cup R /\ missing' = missing
         \/ /\ receipts' = receipts \cup R \/ receipts' = receipts
            /\ missing' = missing + Cardinality(B) /\ B # {}
  <2>1. CASE WriteReceipts
    BY <2>1 DEF WriteReceipts
  <2>2. CASE WriteFails
    <3>1. pc = "write" /\ batch # {}
      BY <2>2 DEF WriteFails
    <3>2. B # {}
      <4>1. batch \in SUBSET Nat /\ BatchSize \in Nat \ {0}
        BY SettleAssumption DEF SInv, TypeOK
      <4>2. PICK m \in batch : \A k \in batch : m <= k
        BY <3>1, <4>1, LeastNat
      <4>3. {s \in batch : s < m} = {}
        <5>1. \A s \in batch : s \in Nat /\ m \in Nat
          BY <4>1
        <5> QED BY <4>2, <5>1
      <4>4. m \in B
        BY <4>1, <4>3, FS_EmptySet DEF BatchOf
      <4> QED BY <4>4
    <3> QED BY <2>2, <3>2 DEF WriteFails
  <2> QED BY <2>1, <2>2
<1>2. /\ B \subseteq batch /\ B \subseteq PaidFor
      /\ Cardinality(B) \in Nat /\ (B # {} => Cardinality(B) # 0)
      /\ \A x \in R : /\ x \in [counter: Record, payer: 1..MaxKey, expires: Nat]
                      /\ x.counter \in B /\ x.payer <= key
                      /\ x.expires >= expires[x.counter] + Lag
      /\ \A r \in B : \E x \in R : x.counter = r
  BY <1>1, BatchReceipts, FS_EmptySet
<1> HIDE DEF B, R
<1>3. PaidFor' = PaidFor
  BY <1>1 DEF PaidFor
<1>4. missing \in Nat /\ missing' \in Nat /\ (missing' = 0 => missing = 0 /\ receipts' = receipts \cup R)
  BY <1>1, <1>2 DEF SInv, TypeOK
<1>5. /\ TypeOK'
  BY <1>1, <1>2, <1>4 DEF SInv, TypeOK, Providers
<1>6. FlightsInv'
  BY <1>1, <1>3 DEF SInv, FlightsInv
<1>7. ReceiptsInv'
  BY <1>1, <1>2, <1>3 DEF SInv, ReceiptsInv
<1>8. SettledInv'
  BY <1>1, <1>2, <1>3, <1>4 DEF SInv, SettledInv, Live, HasReceipt
<1>9. ClosedInv' /\ PayersInv' /\ ReadsInv' /\ RestInv'
  BY <1>1 DEF ClosedInv, PayersInv, ReadsInv, RestInv
<1>10. PlanInv'
  BY <1>1, <1>2, <1>3 DEF SInv, PlanInv, Providers
<1>11. PlanComplete'
  BY <1>1 DEF SInv, PlanComplete, Live
<1> QED BY <1>5, <1>6, <1>7, <1>8, <1>9, <1>10, <1>11 DEF SInv

(* Every step of the chains, of a run and of the person between runs keeps the
   invariant. *)
LEMMA NextSInv == SInv /\ [Next]_vars => SInv'
<1> SUFFICES ASSUME SInv, [Next]_vars PROVE SInv'
  OBVIOUS
<1>1. CASE UNCHANGED vars
  <2>1. PaidFor' = PaidFor
    BY <1>1 DEF vars, PaidFor
  <2> QED BY <1>1, <2>1 DEF SInv, TypeOK, FlightsInv, ReceiptsInv, SettledInv, ClosedInv,
             PayersInv,
             ReadsInv, PlanInv, PlanComplete, RestInv, Live, HasReceipt, Providers, vars
<1>2. CASE Next
  BY <1>2, ChainKeeps, EndKeeps, RestKeeps, ClosedKeeps, ReceiptsKeep, PayKeeps, WriteKeeps
     DEF Next
<1> QED BY <1>1, <1>2

(* In every reachable state. *)
LEMMA AlwaysSInv == Spec => []SInv
<1> QED BY InitSInv, NextSInv, PTL DEF Spec

(* Settlement is type correct: in particular the provider asked about and the
   provider paid next always exist. *)
THEOREM SettleTypeOK == Spec => []TypeOK
<1>1. SInv => TypeOK
  BY DEF SInv
<1> QED BY <1>1, AlwaysSInv, PTL

(* A run's plan misses nothing the ledger had to find, however the pages are
   cut and whatever is closed or expires under the reads (ledger). *)
THEOREM PlanMissesNothing == Spec => []PlanComplete
<1>1. SInv => PlanComplete
  BY DEF SInv
<1> QED BY <1>1, AlwaysSInv, PTL

(* Between runs that exited 0, or that a person has checked after, no transfer
   is out and everything paid that still exists has a receipt that a run with
   the present keys will read. *)
THEOREM ClearIsSettled == Spec => []ClearMeansSettled
<1>1. SInv => ClearMeansSettled
  <2> SUFFICES ASSUME SInv, pc = "rest", clear PROVE
               /\ flights = {}
               /\ \A r \in PaidFor : Live(r) => \E k \in 1..key : r \in Receipted(ProviderOf[r], k)
    BY DEF ClearMeansSettled
  <2>1. flights = {}
    BY DEF SInv, FlightsInv
  <2>2. ASSUME NEW r \in PaidFor, Live(r) PROVE \E k \in 1..key : r \in Receipted(ProviderOf[r], k)
    <3>1. PICK x \in receipts : x.counter = r
      BY <2>2 DEF SInv, SettledInv, HasReceipt
    <3>2. /\ x.expires \in Nat /\ expires[r] \in Nat /\ head \in Nat /\ Lag \in Nat
          /\ x.payer \in 1..MaxKey /\ key \in Nat
      <4>1. /\ expires \in [Record -> Nat] /\ head \in Nat /\ key \in 1..MaxKey /\ Lag \in Nat
            /\ MaxKey \in Nat /\ x \in [counter: Record, payer: 1..MaxKey, expires: Nat]
        BY SettleAssumption DEF SInv, TypeOK
      <4> QED BY <3>1, <4>1
    <3>3. x.expires >= expires[r] + Lag /\ x.payer <= key /\ expires[r] > head
      BY <2>2, <3>1 DEF SInv, ReceiptsInv, Live
    <3>4. x.expires > head /\ x.payer \in 1..key
      BY <3>2, <3>3
    <3>5. r \in Receipted(ProviderOf[r], x.payer)
      BY <3>1, <3>4 DEF Receipted
    <3> QED BY <3>4, <3>5
  <2> QED BY <2>1, <2>2
<1> QED BY <1>1, AlwaysSInv, PTL

-----------------------------------------------------------------------------
(* What the abstract specification sees of a state. *)
closedRecords == {r \in Record : expires[r] # 0}
receiptedRecords == {x.counter : x \in receipts}

(* Every step of Settle is a step of Payments, or changes nothing it sees:
   Close closes, Mine pays, and the two ways to write receipts, and a person's
   check, receipt what was paid. *)
LEMMA StepKeepsPromise ==
    ASSUME SInv, [Next]_vars
    PROVE  [Promise!Next]_<<closedRecords, landed, receiptedRecords>>
<1>p. PaidFor = Promise!Paid
  BY DEF PaidFor, Promise!Paid
<1>1. ASSUME NEW r \in Record, Close(r) PROVE Promise!Close(r)
  <2>1. PICK left \in 1..(MaxLife - Lag) : expires' = [expires EXCEPT ![r] = head + left]
    BY <1>1 DEF Close
  <2>2. expires'[r] # 0 /\ \A s \in Record : s # r => expires'[s] = expires[s]
    BY <2>1 DEF SInv, TypeOK
  <2> QED BY <1>1, <2>2 DEF Close, Promise!Close
<1>2. ASSUME NEW f \in flights, Mine(f) PROVE f \in SUBSET Record /\ Promise!Pay(f)
  <2>1. f \in SUBSET Record
    BY DEF SInv, TypeOK
  <2>2. f \subseteq {r \in Record : expires[r] # 0} \ Promise!Paid
    BY <1>p, <2>1 DEF SInv, FlightsInv
  <2> QED BY <1>2, <2>2 DEF Mine, Promise!Pay, SInv, FlightsInv
<1>4. CASE WriteReceipts \/ (WriteFails /\ receipts' # receipts)
  <2> DEFINE B == BatchOf(batch)
             R == ReceiptsFor(B)
  <2>1. pc = "write" /\ receipts' = receipts \cup R /\ UNCHANGED <<expires, landed>>
    BY <1>4 DEF WriteReceipts, WriteFails
  <2>2. B = {x.counter : x \in R} /\ B \in SUBSET PaidFor
    BY <2>1, BatchReceipts
  <2> HIDE DEF B, R
  <2>3. {x.counter : x \in receipts'} = {x.counter : x \in receipts} \cup B
    BY <2>1, <2>2
  <2>4. B \in SUBSET Record /\ B \subseteq Promise!Paid
    BY <1>p, <2>2, PaidForRecords DEF SInv
  <2>5. Promise!Receipt(B)
    BY <2>1, <2>3, <2>4 DEF Promise!Receipt
  <2> QED BY <2>4, <2>5 DEF Promise!Next, Promise!Receipt
<1>5. CASE Reconcile
  <2> DEFINE S == {s \in PaidFor : Live(s) /\ \A x \in receipts : x.counter # s}
             R == {[counter |-> r, payer |-> key, expires |-> head + MaxLife] : r \in S}
  <2>1. receipts' = receipts \cup R /\ UNCHANGED <<expires, landed>> /\ S \in SUBSET PaidFor
    BY <1>5 DEF Reconcile
  <2>2. S = {x.counter : x \in R}
    <3> HIDE DEF S
    <3>1. ASSUME NEW s \in S PROVE \E x \in R : x.counter = s
      <4>1. [counter |-> s, payer |-> key, expires |-> head + MaxLife] \in R
        OBVIOUS
      <4> QED BY <4>1
    <3>2. \A x \in R : x.counter \in S
      OBVIOUS
    <3> HIDE DEF R
    <3> QED BY <3>1, <3>2
  <2> HIDE DEF S, R
  <2>3. {x.counter : x \in receipts'} = {x.counter : x \in receipts} \cup S
    BY <2>1, <2>2
  <2>4. S \in SUBSET Record /\ S \subseteq Promise!Paid
    BY <1>p, <2>2, <2>1, PaidForRecords DEF SInv
  <2>5. Promise!Receipt(S)
    BY <2>1, <2>3, <2>4 DEF Promise!Receipt
  <2> QED BY <2>4, <2>5 DEF Promise!Next, Promise!Receipt
<1>6. ASSUME UNCHANGED <<expires, receipts, landed>>
      PROVE  UNCHANGED <<closedRecords, landed, receiptedRecords>>
  BY <1>6 DEF closedRecords, receiptedRecords
<1>7. CASE UNCHANGED <<expires, receipts, landed>>
  BY <1>6, <1>7
<1>8. CASE \E r \in Record : Close(r)
  BY <1>1, <1>8 DEF Promise!Next
<1>9. CASE \E f \in flights : Mine(f)
  BY <1>2, <1>9 DEF Promise!Next
<1>10. \/ UNCHANGED <<expires, receipts, landed>> \/ \E r \in Record : Close(r)
       \/ (\E f \in flights : Mine(f)) \/ Reconcile \/ WriteReceipts
       \/ (WriteFails /\ receipts' # receipts)
  BY DEF Next, vars, chainVars, HeadAdvances, Drop, Refuse, Crash, RotateKey, Start,
     ClosedPage,
     ClosedRead, ReceiptsPage, ReceiptsRead, Rehearsed, Balanced, Broadcast, NotSent, Paid, Failed,
     WriteFails, NextProvider, Finish
<1> QED BY <1>4, <1>5, <1>7, <1>8, <1>9, <1>10

(* Settle implements Payments: no record is paid twice, a payment is for
   closed records of one provider, and no receipt is written before the money
   moved, through every crash, lost transfer, refused batch, expiry and key. *)
THEOREM SettleKeepsPromise == Spec => PromiseKept
<1>1. Init => Promise!Init
  BY DEF Init, Promise!Init
<1>2. SInv /\ [Next]_vars => [Promise!Next]_<<closedRecords, landed, receiptedRecords>>
  BY StepKeepsPromise
<1> QED BY <1>1, <1>2, AlwaysSInv, PTL DEF Spec, PromiseKept, Promise!Spec, closedRecords,
           receiptedRecords
=============================================================================
