-------------------------- MODULE Failover_proofs ---------------------------
(***************************************************************************)
(* For any number of providers and requests, any budget and any width of   *)
(* the cursor: the proxy is type correct, a selection finds nobody only if *)
(* nobody was eligible throughout, an entry that left is held only by the  *)
(* requests that held it, an undisturbed failover moves on, and each       *)
(* request that ended is counted once.                                     *)
(***************************************************************************)
EXTENDS Failover, TLAPS, SequenceTheorems, FiniteSetTheorems, WellFoundedInduction

(* What the histories hold. *)
HistoryTypes ==
    /\ holders \in [Entry -> SUBSET Request] /\ steady \in [Request -> SUBSET Entry]
    /\ last \in [Request -> SUBSET Entry] /\ quiet \in [Request -> BOOLEAN]

(* A selection has a list, a position of it where it looks, and an attempt
   to make; the lap ends with its list. *)
AtItsPlace ==
    \A r \in Request :
        /\ Looking(r) => attempts[r] < MaxAttempts /\ lap[r] <= Len(snapshot[r])
        /\ pc[r] = "advance" => lap[r] > 0
        /\ pc[r] \in {"look", "scan", "attempt"} => at[r] > 0 /\ lap[r] < Len(snapshot[r])

(* What left the pool is in no list a selection may still load. *)
GoneLeft == \A i \in DOMAIN members : members[i] \notin gone

(* What was eligible throughout still is, and a scan has it before it. *)
SteadyAhead ==
    \A r \in Request :
        /\ steady[r] \subseteq eligible
        /\ Looking(r) \/ pc[r] = "attempt" =>
              \A e \in steady[r] : \E i \in DOMAIN snapshot[r] :
                 snapshot[r][i] = e /\ (pc[r] = "scan" => i >= at[r])

FInv == /\ TypeOK /\ HistoryTypes /\ AtItsPlace /\ GoneLeft /\ SteadyAhead
        /\ NoneMeansNone /\ GoneHeldByHolders

(* How many positions ago the cursor, at position p of n, was at i. *)
Ago(p, i, n) == IF i < p THEN p - 1 - i ELSE p - 1 - i + n

(* Positions the lap has sampled. *)
Sampled(r) == Len(snapshot[r]) - lap[r]

(* A request that nothing disturbed has the list of the pool, and its lap
   goes from where its last attempt was through the positions after it:
   those behind it were not eligible when it looked, and still are not. *)
InLap(r) ==
    /\ pc[r] = "select" /\ last[r] # {} =>
         /\ snapshot[r] = members /\ at[r] > 0 /\ last[r] = {Current(r)}
         /\ Ago(Position(r), at[r], Len(members)) = 0
    /\ Looking(r) \/ pc[r] = "attempt" => snapshot[r] = members
    /\ pc[r] = "scan" => \A i \in DOMAIN members : members[i] \notin eligible
    /\ pc[r] = "advance" =>
         \A i \in DOMAIN members :
            /\ Ago(Position(r), i, Len(members)) < Sampled(r) => members[i] \notin eligible
            /\ members[i] \in last[r] => Ago(Position(r), i, Len(members)) = Sampled(r)
    /\ pc[r] \in {"look", "attempt"} =>
         /\ Ago(Position(r), at[r], Len(members)) = 0
         /\ \A i \in DOMAIN members :
              /\ Ago(Position(r), i, Len(members)) \in 1..(Sampled(r) - 1)
                    => members[i] \notin eligible
              /\ members[i] \in last[r] =>
                    \/ Ago(Position(r), i, Len(members)) = Sampled(r)
                    \/ Ago(Position(r), i, Len(members)) = 0 /\ lap[r] = 0

QuietLap ==
    \A r \in Request : /\ pc[r] = "idle" => last[r] = {}
                       /\ quiet[r] => InLap(r)

(* A list has the positions from 1 to its length, and entries in them. *)
LEMMA ListFacts ==
    ASSUME NEW S, NEW s \in Seq(S)
    PROVE  /\ Len(s) \in Nat /\ DOMAIN s = 1..Len(s)
           /\ \A i \in 1..Len(s) : s[i] \in S
           /\ s = <<>> <=> Len(s) = 0
<1>1. Len(s) \in Nat /\ DOMAIN s = 1..Len(s)
  BY LenProperties
<1>2. \A i \in 1..Len(s) : s[i] \in S
  BY ElementOfSeq
<1>3. s = <<>> <=> Len(s) = 0
  BY EmptySeq
<1> QED BY <1>1, <1>2, <1>3

(* Pool::add: the new entry comes last, the others stay where they are. *)
LEMMA AppendedList ==
    ASSUME NEW s \in Seq(Entry), IsInjective(s), NEW e \in Entry,
           \A i \in DOMAIN s : s[i] # e
    PROVE  /\ Append(s, e) \in Seq(Entry) /\ IsInjective(Append(s, e))
           /\ \A i \in DOMAIN Append(s, e) :
                 Append(s, e)[i] = e \/ \E k \in DOMAIN s : Append(s, e)[i] = s[k]
<1> DEFINE t == Append(s, e)
<1>1. /\ t \in Seq(Entry) /\ Len(t) = Len(s) + 1
      /\ \A i \in 1..Len(s) : t[i] = s[i]
      /\ t[Len(s) + 1] = e
  BY AppendProperties
<1>2. Len(s) \in Nat /\ DOMAIN s = 1..Len(s) /\ DOMAIN t = 1..(Len(s) + 1)
  BY <1>1, ListFacts
<1> HIDE DEF t
<1>3. ASSUME NEW i \in DOMAIN t PROVE i \in 1..Len(s) \/ i = Len(s) + 1
  BY <1>2
<1>4. IsInjective(t)
  BY <1>1, <1>2, <1>3 DEF IsInjective
<1>5. \A i \in DOMAIN t : t[i] = e \/ \E k \in DOMAIN s : t[i] = s[k]
  BY <1>1, <1>2, <1>3
<1> QED BY <1>1, <1>4, <1>5 DEF t

Without(s, i) == SubSeq(s, 1, i - 1) \o SubSeq(s, i + 1, Len(s))

(* Pool::remove: the others close up, and it is not among them. *)
LEMMA RemovedList ==
    ASSUME NEW s \in Seq(Entry), IsInjective(s), NEW i \in DOMAIN s
    PROVE  /\ Without(s, i) \in Seq(Entry) /\ IsInjective(Without(s, i))
           /\ \A j \in DOMAIN Without(s, i) :
                 /\ Without(s, i)[j] # s[i]
                 /\ \E k \in DOMAIN s : Without(s, i)[j] = s[k]
<1> DEFINE f == SubSeq(s, 1, i - 1)
           g == SubSeq(s, i + 1, Len(s))
           t == f \o g
<1>1. Len(s) \in Nat /\ DOMAIN s = 1..Len(s) /\ i \in 1..Len(s)
  BY ListFacts
<1>2. \A j \in 1..Len(s) : s[j] \in Entry
  BY ListFacts
<1>3. /\ f \in Seq(Entry) /\ Len(f) = i - 1
      /\ \A j \in 1..(i - 1) : f[j] = s[j]
  <2>1. i - 1 \in Int /\ 1 \in Int /\ \A j \in 1..(i - 1) : s[j] \in Entry
    BY <1>1, <1>2
  <2>2. /\ f \in Seq(Entry) /\ Len(f) = IF 1 <= i - 1 THEN i - 1 - 1 + 1 ELSE 0
        /\ \A j \in 1 .. (i - 1) - 1 + 1 : f[j] = s[1 + j - 1]
    BY <2>1, SubSeqProperties
  <2> QED BY <1>1, <2>2
<1>4. /\ g \in Seq(Entry) /\ Len(g) = Len(s) - i
      /\ \A j \in 1..(Len(s) - i) : g[j] = s[i + j]
  <2>1. i + 1 \in Int /\ Len(s) \in Int /\ \A j \in (i + 1)..Len(s) : s[j] \in Entry
    BY <1>1, <1>2
  <2>2. /\ g \in Seq(Entry) /\ Len(g) = IF i + 1 <= Len(s) THEN Len(s) - (i + 1) + 1 ELSE 0
        /\ \A j \in 1 .. Len(s) - (i + 1) + 1 : g[j] = s[i + 1 + j - 1]
    BY <2>1, SubSeqProperties
  <2> QED BY <1>1, <2>2
<1> HIDE DEF f, g
<1>5. /\ t \in Seq(Entry) /\ Len(t) = Len(f) + Len(g)
      /\ \A j \in 1..(Len(f) + Len(g)) : t[j] = IF j <= Len(f) THEN f[j] ELSE g[j - Len(f)]
  BY <1>3, <1>4, ConcatProperties
<1> HIDE DEF t
<1>6. DOMAIN t = 1..(Len(s) - 1)
  BY <1>1, <1>3, <1>4, <1>5, ListFacts
<1> DEFINE from(j) == IF j < i THEN j ELSE j + 1
<1>7. \A j \in 1..(Len(s) - 1) : t[j] = s[from(j)] /\ from(j) \in 1..Len(s) /\ from(j) # i
  <2> TAKE j \in 1..(Len(s) - 1)
  <2>1. CASE j < i
    BY <1>1, <1>3, <1>4, <1>5, <2>1
  <2>2. CASE ~(j < i)
    <3>1. j - (i - 1) \in 1..(Len(s) - i) /\ i + (j - (i - 1)) = j + 1
      BY <1>1, <2>2
    <3>2. t[j] = g[j - (i - 1)]
      BY <1>1, <1>3, <1>4, <1>5, <2>2
    <3> QED BY <1>1, <1>4, <2>2, <3>1, <3>2
  <2> QED BY <2>1, <2>2
<1>8. \A j, k \in 1..(Len(s) - 1) : from(j) = from(k) => j = k
  BY <1>1
<1> HIDE DEF from
<1>9. IsInjective(t)
  BY <1>1, <1>6, <1>7, <1>8 DEF IsInjective
<1>10. \A j \in DOMAIN t : t[j] # s[i] /\ \E k \in DOMAIN s : t[j] = s[k]
  BY <1>1, <1>6, <1>7 DEF IsInjective
<1> QED BY <1>5, <1>9, <1>10 DEF Without, t, f, g

LEMMA Remainder ==
    ASSUME NEW a \in Nat, NEW n \in Nat \ {0}
    PROVE  a % n \in 0..(n - 1)
  OBVIOUS

(* The lists of the selections, as positions. *)
LEMMA Lists ==
    ASSUME TypeOK
    PROVE  /\ Len(members) \in Nat /\ DOMAIN members = 1..Len(members)
           /\ \A i \in 1..Len(members) : members[i] \in Entry
           /\ members = <<>> <=> Len(members) = 0
           /\ \A r \in Request :
                /\ Len(snapshot[r]) \in Nat /\ DOMAIN snapshot[r] = 1..Len(snapshot[r])
                /\ \A i \in 1..Len(snapshot[r]) : snapshot[r][i] \in Entry
                /\ at[r] \in 0..Len(snapshot[r]) /\ lap[r] \in Nat
<1>1. members \in Seq(Entry) /\ \A r \in Request : snapshot[r] \in Seq(Entry)
  BY DEF TypeOK
<1>2. \A r \in Request : at[r] \in Nat /\ at[r] <= Len(snapshot[r]) /\ lap[r] \in Nat
  BY DEF TypeOK
<1>3. /\ Len(members) \in Nat /\ DOMAIN members = 1..Len(members)
      /\ \A i \in 1..Len(members) : members[i] \in Entry
      /\ members = <<>> <=> Len(members) = 0
  BY <1>1, ListFacts
<1>4. ASSUME NEW r \in Request
      PROVE  /\ Len(snapshot[r]) \in Nat /\ DOMAIN snapshot[r] = 1..Len(snapshot[r])
             /\ \A i \in 1..Len(snapshot[r]) : snapshot[r][i] \in Entry
             /\ at[r] \in 0..Len(snapshot[r]) /\ lap[r] \in Nat
  <2>1. snapshot[r] \in Seq(Entry)
    BY <1>1
  <2>2. /\ Len(snapshot[r]) \in Nat /\ DOMAIN snapshot[r] = 1..Len(snapshot[r])
        /\ \A i \in 1..Len(snapshot[r]) : snapshot[r][i] \in Entry
    BY <2>1, ListFacts
  <2> QED BY <1>2, <2>2
<1> QED BY <1>3, <1>4

(* No request yet, and nothing left the pool. *)
LEMMA InitFInv == Init => FInv
<1> SUFFICES ASSUME Init PROVE FInv
  OBVIOUS
<1>1. <<>> \in Seq(Entry) /\ Len(<<>>) = 0
  BY EmptySeq
<1>2. Static \in Seq(Entry) /\ IsInjective(Static)
  BY FailoverAssumption
<1>3. Range(Static) \subseteq Entry
  BY <1>2, ListFacts DEF Range
<1>4. TypeOK
  BY <1>1, <1>2, <1>3, FailoverAssumption DEF Init, TypeOK
<1>5. HistoryTypes
  BY DEF Init, HistoryTypes
<1>6. AtItsPlace /\ GoneLeft /\ SteadyAhead /\ NoneMeansNone /\ GoneHeldByHolders
  BY DEF Init, AtItsPlace, GoneLeft, SteadyAhead, NoneMeansNone, GoneHeldByHolders, Looking
<1> QED BY <1>4, <1>5, <1>6 DEF FInv

(* An agreement begins: no selection has its entry yet. *)
LEMMA AddKeeps ==
    ASSUME FInv, NEW e \in Entry, Add(e)
    PROVE  FInv'
<1>1. /\ members' = Append(members, e) /\ e \notin gone
      /\ members \in Seq(Entry) /\ IsInjective(members)
      /\ \A i \in DOMAIN members : members[i] # e
  BY DEF Add, FInv, TypeOK
<1>2. /\ members' \in Seq(Entry) /\ IsInjective(members)'
      /\ \A i \in DOMAIN members' : members'[i] = e \/ \E k \in DOMAIN members : members'[i] = members[k]
  BY <1>1, AppendedList DEF IsInjective
<1>3. TypeOK'
  BY <1>2 DEF FInv, TypeOK, Add, counts
<1>4. HistoryTypes' /\ AtItsPlace' /\ SteadyAhead' /\ NoneMeansNone' /\ GoneHeldByHolders'
  BY DEF FInv, HistoryTypes, AtItsPlace, SteadyAhead, NoneMeansNone, GoneHeldByHolders,
         Holds, Looking, Current, Add
<1>5. GoneLeft'
  BY <1>1, <1>2 DEF FInv, GoneLeft, Add
<1> QED BY <1>3, <1>4, <1>5 DEF FInv

(* An agreement ends: whoever may still return its entry is written down. *)
LEMMA RemoveKeeps ==
    ASSUME FInv, NEW e \in Entry, Remove(e)
    PROVE  FInv'
<1>1. PICK i \in DOMAIN members : members[i] = e /\ members' = Without(members, i)
  BY DEF Remove, Without
<1>2. members \in Seq(Entry) /\ IsInjective(members) /\ e \notin gone
  BY <1>1 DEF FInv, TypeOK, GoneLeft
<1>3. /\ members' \in Seq(Entry) /\ IsInjective(members')
      /\ \A j \in DOMAIN members' :
            members'[j] # e /\ \E k \in DOMAIN members : members'[j] = members[k]
  BY <1>1, <1>2, RemovedList
<1>4. TypeOK'
  BY <1>3 DEF FInv, TypeOK, Remove, counts, IsInjective
<1>5. HistoryTypes' /\ AtItsPlace' /\ SteadyAhead' /\ NoneMeansNone'
  BY DEF FInv, HistoryTypes, AtItsPlace, SteadyAhead, NoneMeansNone, Looking, Remove
<1>6. GoneLeft'
  BY <1>3 DEF FInv, GoneLeft, Remove
<1>7. GoneHeldByHolders'
  <2>1. \A q \in Request, d \in Entry : Holds(q, d)' <=> Holds(q, d)
    BY DEF Remove, Holds, Looking, Current
  <2>2. /\ gone' = gone \cup {e} /\ holders \in [Entry -> SUBSET Request]
        /\ holders' = [holders EXCEPT ![e] = {q \in Request : Holds(q, e)}]
        /\ gone \subseteq Entry
    BY DEF Remove, FInv, HistoryTypes, TypeOK
  <2> QED BY <1>2, <2>1, <2>2 DEF FInv, GoneHeldByHolders
<1> QED BY <1>4, <1>5, <1>6, <1>7 DEF FInv

(* A gate changes: the entry is not eligible throughout for anybody. *)
LEMMA FlipKeeps ==
    ASSUME FInv, NEW e \in Entry, Flip(e)
    PROVE  FInv'
<1>1. TypeOK'
  BY DEF FInv, TypeOK, Flip, counts
<1>2. HistoryTypes' /\ AtItsPlace' /\ GoneLeft' /\ GoneHeldByHolders'
  BY DEF FInv, HistoryTypes, AtItsPlace, GoneLeft, GoneHeldByHolders, Holds, Looking,
         Current, Flip
<1>3. \A r \in Request : steady'[r] = steady[r] \ {e}
  BY DEF Flip
<1>4. SteadyAhead' /\ NoneMeansNone'
  BY <1>3 DEF FInv, SteadyAhead, NoneMeansNone, Looking, Flip
<1> QED BY <1>1, <1>2, <1>4 DEF FInv

(* An answer, of a provider's or the proxy's own: the request is over. *)
LEMMA EndKeeps ==
    ASSUME FInv, NEW r \in Request, End(r), UNCHANGED <<pool, cursor, attempts, holders>>,
           served' \in Nat, failures' \in Nat,
           outcomes' \in [no_healthy_provider: Nat, timed_out: Nat, no_provider_answered: Nat]
    PROVE  FInv'
<1>1. <<>> \in Seq(Entry) /\ Len(<<>>) = 0 /\ Len(<<>>) \in Nat
  BY EmptySeq
<1>2. TypeOK'
  BY <1>1 DEF FInv, TypeOK, End, Drop, pool
<1>3. HistoryTypes'
  BY DEF FInv, HistoryTypes, End, Drop
<1>4. /\ pc'[r] = "done" /\ steady'[r] = {}
      /\ \A q \in Request \ {r} :
            /\ pc'[q] = pc[q] /\ snapshot'[q] = snapshot[q] /\ lap'[q] = lap[q]
            /\ at'[q] = at[q] /\ steady'[q] = steady[q]
  BY DEF FInv, TypeOK, HistoryTypes, End, Drop
<1>5. AtItsPlace'
  BY <1>4 DEF FInv, AtItsPlace, Looking
<1>6. GoneLeft' /\ SteadyAhead' /\ NoneMeansNone'
  BY <1>4 DEF FInv, GoneLeft, SteadyAhead, NoneMeansNone, Looking, pool
<1>7. GoneHeldByHolders'
  BY <1>4 DEF FInv, GoneHeldByHolders, Holds, Looking, Current, pool
<1> QED BY <1>2, <1>3, <1>5, <1>6, <1>7 DEF FInv

(* A request that passes the checks has selected nobody yet. *)
LEMMA ArriveKeeps ==
    ASSUME FInv, NEW r \in Request, Arrive(r)
    PROVE  FInv'
<1>1. CASE Refuse(r)
  BY <1>1, EndKeeps DEF Refuse, FInv, TypeOK
<1>2. CASE Pass(r)
  <2>1. TypeOK' /\ HistoryTypes'
    BY <1>2 DEF FInv, TypeOK, HistoryTypes, Pass, pool, counts
  <2>2. pc'[r] = "select" /\ pc[r] = "idle" /\ \A q \in Request \ {r} : pc'[q] = pc[q]
    BY <1>2 DEF FInv, TypeOK, Pass
  <2>3. AtItsPlace' /\ GoneLeft' /\ SteadyAhead' /\ NoneMeansNone' /\ GoneHeldByHolders'
    BY <1>2, <2>2 DEF FInv, AtItsPlace, GoneLeft, SteadyAhead, NoneMeansNone,
        GoneHeldByHolders, Holds, Looking, Current, Pass, pool
  <2> QED BY <2>1, <2>3 DEF FInv
<1> QED BY <1>1, <1>2 DEF Arrive

(* A selection begins with the list of this moment, which nobody that left
   is in. *)
LEMMA LoadKeeps ==
    ASSUME FInv, NEW r \in Request, Load(r)
    PROVE  FInv'
<1>0. TypeOK /\ Len(members) \in Nat /\ (members = <<>> <=> Len(members) = 0)
  BY Lists DEF FInv
<1>1. TypeOK'
  BY <1>0 DEF FInv, TypeOK, Load, pool, counts
<1>2. HistoryTypes'
  BY DEF FInv, HistoryTypes, TypeOK, Load
<1>3. /\ pc'[r] = (IF members = <<>> THEN "none" ELSE "advance") /\ attempts[r] < MaxAttempts
      /\ snapshot'[r] = members /\ lap'[r] = Len(members)
      /\ steady'[r] = eligible \cap Range(members)
      /\ \A q \in Request \ {r} :
            /\ pc'[q] = pc[q] /\ snapshot'[q] = snapshot[q] /\ lap'[q] = lap[q]
            /\ at'[q] = at[q] /\ steady'[q] = steady[q]
  BY DEF FInv, TypeOK, HistoryTypes, Load
<1>4. AtItsPlace'
  BY <1>0, <1>3 DEF FInv, AtItsPlace, Looking, Load
<1>5. GoneLeft'
  BY DEF FInv, GoneLeft, Load, pool
<1>6. SteadyAhead'
  BY <1>3 DEF FInv, SteadyAhead, Looking, Load, pool, Range
<1>7. NoneMeansNone'
  BY <1>3 DEF FInv, NoneMeansNone, Range
<1>8. GoneHeldByHolders'
  BY <1>3 DEF FInv, GoneHeldByHolders, GoneLeft, Holds, Looking, Current, Load, pool
<1> QED BY <1>1, <1>2, <1>4, <1>5, <1>6, <1>7, <1>8 DEF FInv

(* The cursor's value means a position of the selection's own list. *)
LEMMA PositionInList ==
    ASSUME TypeOK, NEW r \in Request, Len(snapshot[r]) > 0
    PROVE  Position(r) \in 1..Len(snapshot[r])
<1>1. Len(snapshot[r]) \in Nat \ {0} /\ cursor \in Nat
  BY Lists, FailoverAssumption DEF TypeOK
<1>2. cursor % Len(snapshot[r]) \in 0..(Len(snapshot[r]) - 1)
  BY <1>1, Remainder
<1> HIDE DEF Position
<1>3. \A m \in 0..(Len(snapshot[r]) - 1) : m + 1 \in 1..Len(snapshot[r])
  BY <1>1
<1> QED BY <1>2, <1>3 DEF Position

LEMMA AdvanceKeeps ==
    ASSUME FInv, NEW r \in Request, Advance(r)
    PROVE  FInv'
<1>0. /\ TypeOK /\ lap[r] \in Nat /\ lap[r] > 0 /\ lap[r] <= Len(snapshot[r])
      /\ Len(snapshot[r]) \in Nat
  BY Lists DEF FInv, AtItsPlace, Looking, Advance
<1>1. Position(r) \in 1..Len(snapshot[r])
  BY <1>0, PositionInList
<1>2. cursor' \in 0..(CursorSize - 1)
  BY FailoverAssumption DEF FInv, TypeOK, Advance
<1>3. /\ pc[r] = "advance" /\ pc'[r] = "look" /\ at'[r] = Position(r) /\ lap'[r] = lap[r] - 1
      /\ \A q \in Request \ {r} : pc'[q] = pc[q] /\ lap'[q] = lap[q] /\ at'[q] = at[q]
  BY DEF FInv, TypeOK, Advance
<1>4. /\ \A q \in Request : at'[q] \in Nat /\ at'[q] <= Len(snapshot[q])
      /\ at' \in [Request -> Nat] /\ lap' \in [Request -> Nat]
  BY <1>0, <1>1, <1>3 DEF FInv, TypeOK, Advance
<1>5. TypeOK'
  BY <1>2, <1>4 DEF FInv, TypeOK, Advance, pool, counts
<1>6. HistoryTypes'
  BY DEF FInv, HistoryTypes, Advance, Stirred
<1>7. AtItsPlace'
  BY <1>0, <1>1, <1>3 DEF FInv, AtItsPlace, Looking, Advance
<1>8. GoneLeft' /\ SteadyAhead' /\ NoneMeansNone'
  BY <1>3 DEF FInv, GoneLeft, SteadyAhead, NoneMeansNone, Looking, Advance, pool
<1>9. GoneHeldByHolders'
  BY <1>3 DEF FInv, GoneHeldByHolders, Holds, Looking, Current, Advance, pool
<1> QED BY <1>5, <1>6, <1>7, <1>8, <1>9 DEF FInv

(* An attempt is on an entry the selection already had. *)
LEMMA LookHitKeeps ==
    ASSUME FInv, NEW r \in Request, LookHit(r)
    PROVE  FInv'
<1>0. /\ TypeOK /\ at[r] \in DOMAIN snapshot[r] /\ attempts[r] < MaxAttempts
      /\ attempts[r] \in Nat
  BY Lists, FailoverAssumption DEF FInv, TypeOK, AtItsPlace, Looking, LookHit
<1>1. TypeOK'
  BY <1>0, FailoverAssumption DEF FInv, TypeOK, LookHit, pool, counts
<1>2. HistoryTypes'
  BY DEF FInv, HistoryTypes, LookHit
<1>3. /\ pc[r] \in {"look", "scan"} /\ pc'[r] = "attempt"
      /\ \A q \in Request \ {r} : pc'[q] = pc[q] /\ attempts'[q] = attempts[q]
  BY DEF FInv, TypeOK, LookHit
<1>4. AtItsPlace'
  BY <1>3 DEF FInv, AtItsPlace, Looking, LookHit
<1>5. GoneLeft' /\ SteadyAhead' /\ NoneMeansNone'
  BY <1>3 DEF FInv, GoneLeft, SteadyAhead, NoneMeansNone, Looking, LookHit, pool
<1>6. GoneHeldByHolders'
  BY <1>0, <1>3 DEF FInv, GoneHeldByHolders, Holds, Looking, Current, LookHit, pool
<1> QED BY <1>1, <1>2, <1>4, <1>5, <1>6 DEF FInv

LEMMA LookLateKeeps ==
    ASSUME FInv, NEW r \in Request, LookLate(r)
    PROVE  FInv'
<1>1. TypeOK'
  BY DEF FInv, TypeOK, LookLate, Drop, pool, counts
<1>2. HistoryTypes'
  BY DEF FInv, HistoryTypes, LookLate, Drop
<1>3. /\ pc[r] \in {"look", "scan"} /\ pc'[r] = "spent" /\ steady'[r] = {}
      /\ \A q \in Request \ {r} :
            pc'[q] = pc[q] /\ lap'[q] = lap[q] /\ steady'[q] = steady[q]
  BY DEF FInv, TypeOK, HistoryTypes, LookLate, Drop
<1>4. AtItsPlace'
  BY <1>3 DEF FInv, AtItsPlace, Looking, LookLate
<1>5. GoneLeft' /\ SteadyAhead' /\ NoneMeansNone'
  BY <1>3 DEF FInv, GoneLeft, SteadyAhead, NoneMeansNone, Looking, LookLate, pool
<1>6. GoneHeldByHolders'
  BY <1>3 DEF FInv, GoneHeldByHolders, Holds, Looking, Current, LookLate, pool
<1> QED BY <1>1, <1>2, <1>4, <1>5, <1>6 DEF FInv

(* The scan begins at the list's first position: all of it is ahead. *)
LEMMA LookMissKeeps ==
    ASSUME FInv, NEW r \in Request, LookMiss(r)
    PROVE  FInv'
<1>0. /\ TypeOK /\ at[r] \in 1..Len(snapshot[r]) /\ lap[r] \in Nat /\ Len(snapshot[r]) \in Nat
      /\ DOMAIN snapshot[r] = 1..Len(snapshot[r]) /\ lap[r] < Len(snapshot[r])
      /\ attempts[r] < MaxAttempts
  BY Lists DEF FInv, AtItsPlace, Looking, LookMiss
<1>1. TypeOK'
  <2>1. /\ at' \in [Request -> Nat]
        /\ \A q \in Request : at'[q] <= Len(snapshot[q])
    BY <1>0 DEF FInv, TypeOK, LookMiss
  <2> QED BY <2>1 DEF FInv, TypeOK, LookMiss, pool, counts
<1>2. HistoryTypes'
  BY DEF FInv, HistoryTypes, LookMiss
<1>3. /\ pc[r] = "look" /\ pc'[r] = (IF lap[r] > 0 THEN "advance" ELSE "scan")
      /\ at'[r] = (IF lap[r] > 0 THEN at[r] ELSE 1)
      /\ \A q \in Request \ {r} : pc'[q] = pc[q] /\ at'[q] = at[q]
  BY DEF FInv, TypeOK, LookMiss
<1>4. AtItsPlace'
  BY <1>0, <1>3 DEF FInv, AtItsPlace, Looking, LookMiss
<1>5. GoneLeft' /\ NoneMeansNone'
  BY <1>3 DEF FInv, GoneLeft, NoneMeansNone, LookMiss, pool
<1>6. SteadyAhead'
  BY <1>0, <1>3 DEF FInv, SteadyAhead, Looking, LookMiss, pool
<1>7. GoneHeldByHolders'
  BY <1>3 DEF FInv, GoneHeldByHolders, Holds, Looking, Current, LookMiss, pool
<1> QED BY <1>1, <1>2, <1>4, <1>5, <1>6, <1>7 DEF FInv

(* A scan leaves nobody behind who was eligible throughout. *)
LEMMA ScanMissKeeps ==
    ASSUME FInv, NEW r \in Request, ScanMiss(r)
    PROVE  FInv'
<1>0. /\ TypeOK /\ at[r] \in 1..Len(snapshot[r]) /\ Len(snapshot[r]) \in Nat
      /\ DOMAIN snapshot[r] = 1..Len(snapshot[r])
  BY Lists DEF FInv, AtItsPlace, ScanMiss
<1>1. ASSUME NEW e \in steady[r]
      PROVE  \E i \in DOMAIN snapshot[r] : snapshot[r][i] = e /\ i > at[r]
  <2>1. PICK i \in DOMAIN snapshot[r] : snapshot[r][i] = e /\ i >= at[r]
    BY DEF FInv, SteadyAhead, Looking, ScanMiss
  <2>2. i # at[r]
    BY <2>1 DEF FInv, SteadyAhead, ScanMiss, Current
  <2> QED BY <1>0, <2>1, <2>2
<1>2. /\ pc[r] = "scan" /\ pc'[r] = (IF at[r] = Len(snapshot[r]) THEN "none" ELSE "scan")
      /\ at'[r] = (IF at[r] = Len(snapshot[r]) THEN at[r] ELSE at[r] + 1)
      /\ \A q \in Request \ {r} : pc'[q] = pc[q] /\ at'[q] = at[q]
  BY DEF FInv, TypeOK, ScanMiss
<1>3. TypeOK'
  <2>1. /\ at' \in [Request -> Nat]
        /\ \A q \in Request : at'[q] <= Len(snapshot[q])
    <3>1. CASE at[r] = Len(snapshot[r])
      BY <3>1 DEF FInv, TypeOK, ScanMiss
    <3>2. CASE at[r] # Len(snapshot[r])
      <4>1. at' = [at EXCEPT ![r] = at[r] + 1] /\ at \in [Request -> Nat]
        BY <3>2 DEF FInv, TypeOK, ScanMiss
      <4>2. at[r] + 1 \in Nat /\ at[r] + 1 <= Len(snapshot[r])
        BY <1>0, <3>2
      <4> QED BY <4>1, <4>2 DEF FInv, TypeOK
    <3> QED BY <3>1, <3>2
  <2>2. pc' \in [Request -> {"idle", "select", "advance", "look", "scan", "none",
                             "attempt", "spent", "done"}]
    BY DEF FInv, TypeOK, ScanMiss
  <2> QED BY <2>1, <2>2 DEF FInv, TypeOK, ScanMiss, pool, counts
<1>4. HistoryTypes'
  BY DEF FInv, HistoryTypes, ScanMiss
<1>5. AtItsPlace'
  BY <1>0, <1>2 DEF FInv, AtItsPlace, Looking, ScanMiss
<1>6. GoneLeft'
  BY DEF FInv, GoneLeft, ScanMiss, pool
<1>7. SteadyAhead'
  BY <1>0, <1>1, <1>2 DEF FInv, SteadyAhead, Looking, ScanMiss, pool
<1>8. NoneMeansNone'
  BY <1>0, <1>1, <1>2 DEF FInv, NoneMeansNone, ScanMiss
<1>9. GoneHeldByHolders'
  BY <1>2 DEF FInv, GoneHeldByHolders, Holds, Looking, Current, ScanMiss, pool
<1> QED BY <1>3, <1>4, <1>5, <1>6, <1>7, <1>8, <1>9 DEF FInv

(* No answer: the entry may be taken out, and the next selection is new. *)
LEMMA NoAnswerKeeps ==
    ASSUME FInv, NEW r \in Request, NoAnswer(r)
    PROVE  FInv'
<1>1. PICK down \in SUBSET {Current(r)} :
        /\ eligible' = eligible \ down
        /\ steady' = [q \in Request |-> IF q = r THEN {} ELSE steady[q] \ down]
  BY DEF NoAnswer
<1>2. TypeOK'
  BY <1>1 DEF FInv, TypeOK, NoAnswer
<1>3. HistoryTypes'
  <2>1. Current(r) \in Entry
    BY Lists DEF FInv, AtItsPlace, NoAnswer, Current
  <2>2. steady' \in [Request -> SUBSET Entry]
    BY <1>1 DEF FInv, HistoryTypes
  <2> QED BY <2>1, <2>2 DEF FInv, HistoryTypes, NoAnswer
<1>4. /\ pc'[r] \in {"select", "spent"} /\ steady'[r] = {}
      /\ \A q \in Request \ {r} :
            pc'[q] = pc[q] /\ lap'[q] = lap[q] /\ steady'[q] = steady[q] \ down
  BY <1>1 DEF FInv, TypeOK, NoAnswer
<1>5. AtItsPlace'
  BY <1>4 DEF FInv, AtItsPlace, Looking, NoAnswer
<1>6. GoneLeft' /\ SteadyAhead' /\ NoneMeansNone'
  BY <1>1, <1>4 DEF FInv, GoneLeft, SteadyAhead, NoneMeansNone, Looking, NoAnswer
<1>7. GoneHeldByHolders'
  BY <1>4 DEF FInv, GoneHeldByHolders, Holds, Looking, Current, NoAnswer
<1> QED BY <1>2, <1>3, <1>5, <1>6, <1>7 DEF FInv

(* The ends that a counter is for, and those that none is for. *)
LEMMA EndsKeep ==
    ASSUME FInv, NEW r \in Request,
           NoHealthy(r) \/ Answer(r) \/ TooLarge(r) \/ Hangup(r) \/ Spent(r)
    PROVE  FInv'
<1>1. /\ served \in Nat /\ failures \in Nat
      /\ outcomes \in [no_healthy_provider: Nat, timed_out: Nat, no_provider_answered: Nat]
  BY DEF FInv, TypeOK
<1>2. CASE NoHealthy(r)
  BY <1>1, <1>2, EndKeeps DEF NoHealthy
<1>3. CASE Answer(r)
  BY <1>1, <1>3, EndKeeps DEF Answer
<1>4. CASE TooLarge(r)
  BY <1>1, <1>4, EndKeeps DEF TooLarge
<1>5. CASE Spent(r)
  BY <1>1, <1>5, EndKeeps DEF Spent
<1>6. CASE Hangup(r)
  BY <1>1, <1>6, EndKeeps DEF Hangup
<1> QED BY <1>2, <1>3, <1>4, <1>5, <1>6

LEMMA NextFInv == FInv /\ [Next]_vars => FInv'
<1> SUFFICES ASSUME FInv, [Next]_vars PROVE FInv'
  OBVIOUS
<1>1. CASE \E e \in Entry : Add(e) \/ Remove(e) \/ Flip(e)
  BY <1>1, AddKeeps, RemoveKeeps, FlipKeeps
<1>2. ASSUME NEW r \in Request, Arrive(r) \/ Hangup(r) PROVE FInv'
  BY <1>2, ArriveKeeps, EndsKeep
<1>3. ASSUME NEW r \in Request, Step(r) PROVE FInv'
  <2>1. CASE Attempted(r)
    BY <2>1, EndsKeep, NoAnswerKeeps DEF Attempted
  <2> QED BY <1>3, <2>1, LoadKeeps, AdvanceKeeps, LookHitKeeps, LookLateKeeps,
             LookMissKeeps, ScanMissKeeps, EndsKeep DEF Step
<1>4. CASE UNCHANGED vars
  BY <1>4 DEF FInv, TypeOK, HistoryTypes, AtItsPlace, GoneLeft, SteadyAhead, NoneMeansNone,
     GoneHeldByHolders, Holds, Looking, Current, vars
<1> QED BY <1>1, <1>2, <1>3, <1>4 DEF Next

(* The invariant FInv says of every state what the run checks of it. *)
LEMMA FInvHolds == Spec => []FInv
<1> QED BY InitFInv, NextFInv, PTL DEF Spec

(* Types; a selection looks at a position its own list has. *)
THEOREM FailoverTypeOK == Spec => []TypeOK
<1>1. FInv => TypeOK
  BY DEF FInv
<1> QED BY <1>1, FInvHolds, PTL

(* However many requests move the cursor, and wherever it wraps: a selection
   returns None only if no member of its list was eligible throughout
   (next_eligible: the scan after the lap). *)
THEOREM NoneIsNone == Spec => []NoneMeansNone
<1>1. FInv => NoneMeansNone
  BY DEF FInv
<1> QED BY <1>1, FInvHolds, PTL

(* No selection that begins after an entry left the pool picks it: only the
   requests that held it then may (Pool::remove). *)
THEOREM GoneIsOnlyHeld == Spec => []GoneHeldByHolders
<1>1. FInv => GoneHeldByHolders
  BY DEF FInv
<1> QED BY <1>1, FInvHolds, PTL

-----------------------------------------------------------------------------
(* The cursor and its remainder: one step on is the next position, and the
   first after the last. *)
LEMMA Division ==
    ASSUME NEW a \in Nat, NEW n \in Nat \ {0}
    PROVE  a = n * (a \div n) + (a % n) /\ a \div n \in Int
  OBVIOUS

LEMMA Multiple ==
    ASSUME NEW n \in Nat \ {0}, NEW d \in Int, d > 0
    PROVE  n * d >= n
  OBVIOUS

LEMMA OneRemainder ==
    ASSUME NEW n \in Nat \ {0}, NEW p \in Int, NEW q \in Int,
           NEW m \in 0..(n - 1), NEW k \in 0..(n - 1), n * p + m = n * q + k
    PROVE  m = k
<1>1. n * (p - q) = k - m /\ n * (q - p) = m - k
  OBVIOUS
<1>2. ~(p - q > 0)
  BY <1>1, Multiple
<1>3. ~(q - p > 0)
  BY <1>1, Multiple
<1>4. p = q
  BY <1>2, <1>3
<1> QED BY <1>4

LEMMA NextRemainder ==
    ASSUME NEW a \in Nat, NEW n \in Nat \ {0}
    PROVE  (a + 1) % n = IF a % n = n - 1 THEN 0 ELSE (a % n) + 1
<1> DEFINE q == a \div n
           m == a % n
           p == (a + 1) \div n
           k == (a + 1) % n
<1>1. a = n * q + m /\ q \in Int /\ m \in 0..(n - 1)
  BY Division, Remainder
<1>2. a + 1 = n * p + k /\ p \in Int /\ k \in 0..(n - 1)
  BY Division, Remainder, a + 1 \in Nat
<1> HIDE DEF q, m, p, k
<1>3. CASE m = n - 1
  <2>1. n * (q + 1) + 0 = n * p + k
    BY <1>1, <1>2, <1>3
  <2>2. q + 1 \in Int /\ 0 \in 0..(n - 1)
    BY <1>1
  <2>3. k = 0
    BY <1>2, <2>1, <2>2, OneRemainder
  <2> QED BY <1>3, <2>3 DEF k, m
<1>4. CASE m # n - 1
  <2>1. m + 1 \in 0..(n - 1) /\ n * q + (m + 1) = n * p + k
    BY <1>1, <1>2, <1>4
  <2>2. k = m + 1
    BY <1>1, <1>2, <2>1, OneRemainder
  <2> QED BY <1>4, <2>2 DEF k, m
<1> QED BY <1>3, <1>4

LEMMA SmallRemainder ==
    ASSUME NEW n \in Nat \ {0}, NEW a \in 0..(n - 1)
    PROVE  a % n = a
<1>1. a = n * (a \div n) + (a % n) /\ a \div n \in Int /\ a % n \in 0..(n - 1)
  BY Division, Remainder
<1>2. n * 0 + a = n * (a \div n) + (a % n)
  BY <1>1
<1> QED BY <1>1, <1>2, OneRemainder

(* How long ago is less than a lap, and only one position was the last. *)
LEMMA AgoInLap ==
    ASSUME NEW n \in Nat \ {0}, NEW p \in 1..n, NEW i \in 1..n
    PROVE  /\ Ago(p, i, n) \in 0..(n - 1)
           /\ \A j \in 1..n : Ago(p, i, n) = 0 /\ Ago(p, j, n) = 0 => i = j
  BY DEF Ago

(* A step of the cursor: its position was the last, the others one more. *)
LEMMA AgoSteps ==
    ASSUME NEW n \in Nat \ {0}, NEW p \in 1..n, NEW i \in 1..n,
           NEW s \in 1..n, p = n => s = 1, p # n => s = p + 1
    PROVE  IF i = p THEN Ago(p, i, n) = n - 1 /\ Ago(s, i, n) = 0
                    ELSE Ago(s, i, n) = Ago(p, i, n) + 1
  BY DEF Ago

(* A step that leaves alone what a request has and sees. *)
LEMMA Undisturbed ==
    ASSUME NEW q \in Request, InLap(q), UNCHANGED <<members, cursor, eligible>>,
           pc'[q] = pc[q], snapshot'[q] = snapshot[q], lap'[q] = lap[q], at'[q] = at[q],
           last'[q] = last[q]
    PROVE  InLap(q)'
  BY DEF InLap, Looking, Current, Position, Sampled

LEMMA InitQuiet == Init => QuietLap
  BY DEF Init, QuietLap

(* The pool's steps, and the ends: nobody is undisturbed, or it is over. *)
LEMMA PoolQuiet ==
    ASSUME FInv, QuietLap, NEW e \in Entry, Add(e) \/ Remove(e) \/ Flip(e)
    PROVE  QuietLap'
<1>1. pc' = pc /\ last' = last /\ \A r \in Request : ~quiet'[r]
  BY DEF Add, Remove, Flip
<1> QED BY <1>1 DEF QuietLap

LEMMA EndQuiet ==
    ASSUME FInv, QuietLap, NEW r \in Request, End(r), UNCHANGED <<pool, cursor>>
    PROVE  QuietLap'
<1>1. /\ ~quiet'[r] /\ pc'[r] = "done"
      /\ \A q \in Request \ {r} :
            /\ pc'[q] = pc[q] /\ snapshot'[q] = snapshot[q] /\ lap'[q] = lap[q]
            /\ at'[q] = at[q] /\ last'[q] = last[q] /\ quiet'[q] = quiet[q]
  BY DEF FInv, TypeOK, HistoryTypes, End, Drop
<1>2. UNCHANGED <<members, cursor, eligible>>
  BY DEF pool
<1>3. ASSUME NEW q \in Request, q # r, quiet'[q] PROVE InLap(q)'
  BY <1>1, <1>2, <1>3, Undisturbed DEF QuietLap
<1> QED BY <1>1, <1>3 DEF QuietLap

LEMMA ArriveQuiet ==
    ASSUME FInv, QuietLap, NEW r \in Request, Arrive(r)
    PROVE  QuietLap'
<1>1. CASE Refuse(r)
  BY <1>1, EndQuiet DEF Refuse
<1>2. CASE Pass(r)
  <2>1. /\ pc[r] = "idle" /\ pc'[r] = "select" /\ last' = last
        /\ \A q \in Request \ {r} : pc'[q] = pc[q] /\ quiet'[q] = quiet[q]
        /\ UNCHANGED <<members, cursor, eligible, snapshot, lap, at>>
    BY <1>2 DEF FInv, TypeOK, HistoryTypes, Pass, pool
  <2>2. InLap(r)'
    BY <2>1 DEF QuietLap, InLap, Looking
  <2>3. ASSUME NEW q \in Request, q # r, quiet'[q] PROVE InLap(q)'
    BY <2>1, <2>3, Undisturbed DEF QuietLap
  <2> QED BY <2>1, <2>2, <2>3 DEF QuietLap
<1> QED BY <1>1, <1>2 DEF Arrive

(* A selection begins where the last attempt's ended. *)
LEMMA LoadQuiet ==
    ASSUME FInv, QuietLap, NEW r \in Request, Load(r)
    PROVE  QuietLap'
<1>1. /\ pc[r] = "select" /\ snapshot'[r] = members /\ lap'[r] = Len(members)
      /\ pc'[r] = (IF members = <<>> THEN "none" ELSE "advance")
      /\ quiet' = quiet /\ last' = last /\ UNCHANGED <<members, cursor, eligible>>
      /\ \A q \in Request \ {r} :
            /\ pc'[q] = pc[q] /\ snapshot'[q] = snapshot[q] /\ lap'[q] = lap[q]
            /\ at'[q] = at[q]
  BY DEF FInv, TypeOK, Load, pool
<1>2. ASSUME NEW q \in Request, q # r, quiet'[q] PROVE InLap(q)'
  BY <1>1, <1>2, Undisturbed DEF QuietLap
<1>3. ASSUME quiet'[r] PROVE InLap(r)'
  <2>1. CASE members = <<>>
    BY <1>1, <2>1 DEF InLap, Looking
  <2>2. CASE members # <<>>
    <3> DEFINE n == Len(members)
               p == Position(r)'
    <3>1. n \in Nat \ {0} /\ DOMAIN members = 1..n
      BY <2>2, Lists DEF FInv
    <3>2. TypeOK' /\ Len(snapshot'[r]) > 0 /\ Len(snapshot'[r]) = n
      BY <1>1, <3>1, LoadKeeps DEF FInv
    <3>3. p \in 1..n
      <4>1. p = (cursor % n) + 1 /\ cursor \in Nat
        BY <1>1, FailoverAssumption DEF FInv, TypeOK, Position
      <4>2. cursor % n \in 0..(n - 1)
        BY <3>1, <4>1, Remainder
      <4>3. \A m \in 0..(n - 1) : m + 1 \in 1..n
        BY <3>1
      <4> HIDE DEF n, p
      <4> QED BY <4>1, <4>2, <4>3
    <3>4. Sampled(r)' = 0
      BY <1>1, <3>1 DEF Sampled
    <3>5. ASSUME NEW i \in DOMAIN members, members[i] \in last[r]
          PROVE  Ago(p, i, n) = 0
      <4>1. /\ snapshot[r] = members /\ at[r] > 0 /\ last[r] = {members[at[r]]}
            /\ Ago(Position(r), at[r], n) = 0
        BY <1>1, <1>3, <3>5 DEF QuietLap, InLap, Current
      <4>2. Position(r) = p /\ at[r] \in DOMAIN members
        BY <1>1, <3>1, <4>1, Lists DEF Position, FInv
      <4>3. i = at[r]
        BY <3>5, <4>1, <4>2 DEF FInv, TypeOK, IsInjective
      <4> QED BY <4>1, <4>2, <4>3
    <3> HIDE DEF p
    <3>6. \A i \in DOMAIN members : ~(Ago(p, i, n) < 0)
      <4> TAKE i \in DOMAIN members
      <4>1. i \in 1..n /\ Ago(p, i, n) \in 0..(n - 1)
        BY <3>1, <3>3, AgoInLap
      <4> QED BY <3>1, <4>1
    <3> QED BY <1>1, <2>2, <3>4, <3>5, <3>6 DEF InLap, Looking, p
  <2> QED BY <2>1, <2>2
<1> QED BY <1>1, <1>2, <1>3 DEF QuietLap

(* One position on; the others' requests are disturbed. *)
LEMMA AdvanceQuiet ==
    ASSUME FInv, QuietLap, NEW r \in Request, Advance(r)
    PROVE  QuietLap'
<1>1. /\ pc[r] = "advance" /\ pc'[r] = "look" /\ snapshot' = snapshot
      /\ lap'[r] = lap[r] - 1 /\ at'[r] = Position(r)
      /\ cursor' = (cursor + 1) % CursorSize
      /\ last' = last /\ UNCHANGED <<members, eligible>>
      /\ \A q \in Request : quiet'[q] <=> quiet[q] /\ q = r /\ cursor + 1 < CursorSize
      /\ \A q \in Request \ {r} : pc'[q] = pc[q]
  BY DEF FInv, TypeOK, Advance, pool, Stirred
<1>2. ASSUME quiet'[r] PROVE InLap(r)'
  <2> DEFINE n == Len(members)
             p == Position(r)
             s == Position(r)'
  <2>1. /\ snapshot[r] = members /\ lap[r] \in Nat /\ lap[r] > 0 /\ lap[r] <= n
        /\ n \in Nat \ {0} /\ DOMAIN members = 1..n
        /\ InLap(r) /\ TypeOK
    BY <1>1, <1>2, Lists DEF QuietLap, InLap, FInv, AtItsPlace, Looking
  <2>2. cursor \in Nat /\ cursor' = cursor + 1
    <3>1. cursor \in Nat /\ cursor + 1 \in 0..(CursorSize - 1) /\ CursorSize \in Nat \ {0}
      BY <1>1, <1>2, FailoverAssumption DEF FInv, TypeOK
    <3> QED BY <1>1, <3>1, SmallRemainder
  <2>3. /\ p \in 1..n /\ s \in 1..n
        /\ p = n => s = 1
        /\ p # n => s = p + 1
    <3>1. p = (cursor % n) + 1 /\ s = ((cursor + 1) % n) + 1
      BY <1>1, <2>1, <2>2 DEF Position
    <3>2. (cursor + 1) % n = (IF cursor % n = n - 1 THEN 0 ELSE (cursor % n) + 1)
      BY <2>1, <2>2, NextRemainder
    <3>3. cursor % n \in 0..(n - 1)
      BY <2>1, <2>2, Remainder
    <3> HIDE DEF n, p, s
    <3> QED BY <2>1, <3>1, <3>2, <3>3
  <2>4. Sampled(r)' = Sampled(r) + 1 /\ Sampled(r) = n - lap[r]
    BY <1>1, <2>1 DEF Sampled
  <2>5. \A i \in DOMAIN members :
            /\ Ago(p, i, n) < Sampled(r) => members[i] \notin eligible
            /\ members[i] \in last[r] => Ago(p, i, n) = Sampled(r)
    BY <1>1, <2>1 DEF InLap
  <2> HIDE DEF p, s
  <2>6. \A i \in 1..n :
            /\ Ago(p, i, n) \in 0..(n - 1)
            /\ i = p => Ago(p, i, n) = n - 1 /\ Ago(s, i, n) = 0
            /\ i # p => Ago(s, i, n) = Ago(p, i, n) + 1
    <3> TAKE i \in 1..n
    <3>1. Ago(p, i, n) \in 0..(n - 1)
      BY <2>1, <2>3, AgoInLap
    <3>2. IF i = p THEN Ago(p, i, n) = n - 1 /\ Ago(s, i, n) = 0
                   ELSE Ago(s, i, n) = Ago(p, i, n) + 1
      BY <2>1, <2>3, AgoSteps
    <3> QED BY <3>1, <3>2
  <2>7. Ago(s, p, n) = 0
    BY <2>3, <2>6
  <2>8. ASSUME NEW i \in DOMAIN members
        PROVE  /\ Ago(s, i, n) \in 1..(Sampled(r) + 1 - 1) => members[i] \notin eligible
               /\ members[i] \in last[r] =>
                    Ago(s, i, n) = Sampled(r) + 1 \/ (Ago(s, i, n) = 0 /\ lap[r] - 1 = 0)
    BY <2>1, <2>4, <2>5, <2>6, <2>8
  <2>9. /\ pc'[r] = "look" /\ at'[r] = p /\ snapshot'[r] = members' /\ members' = members
        /\ last'[r] = last[r] /\ eligible' = eligible /\ lap'[r] = lap[r] - 1
    BY <1>1, <2>1 DEF p
  <2>10. /\ Ago(s, at'[r], Len(members')) = 0
         /\ \A i \in DOMAIN members' :
              /\ Ago(s, i, Len(members')) \in 1..(Sampled(r)' - 1)
                    => members'[i] \notin eligible'
              /\ members'[i] \in last'[r] =>
                    \/ Ago(s, i, Len(members')) = Sampled(r)'
                    \/ Ago(s, i, Len(members')) = 0 /\ lap'[r] = 0
    <3>1. Ago(s, at'[r], Len(members')) = 0
      BY <2>7, <2>9
    <3>2. ASSUME NEW i \in DOMAIN members'
          PROVE  /\ Ago(s, i, Len(members')) \in 1..(Sampled(r)' - 1)
                       => members'[i] \notin eligible'
                 /\ members'[i] \in last'[r] =>
                       \/ Ago(s, i, Len(members')) = Sampled(r)'
                       \/ Ago(s, i, Len(members')) = 0 /\ lap'[r] = 0
      <4>1. i \in DOMAIN members /\ Len(members') = n /\ Sampled(r)' - 1 = Sampled(r) + 1 - 1
        BY <2>1, <2>4, <2>9
      <4>2. /\ Ago(s, i, n) \in 1..(Sampled(r) + 1 - 1) => members[i] \notin eligible
            /\ members[i] \in last[r] =>
                 Ago(s, i, n) = Sampled(r) + 1 \/ (Ago(s, i, n) = 0 /\ lap[r] - 1 = 0)
        BY <2>8, <4>1
      <4> HIDE DEF n
      <4> QED BY <2>4, <2>9, <4>1, <4>2
    <3> QED BY <3>1, <3>2
  <2> QED BY <2>9, <2>10 DEF InLap, s
<1> QED BY <1>1, <1>2 DEF QuietLap

(* The steps that leave the cursor and the lap alone. *)
LEMMA LookQuiet ==
    ASSUME FInv, QuietLap, NEW r \in Request,
           LookHit(r) \/ LookLate(r) \/ LookMiss(r) \/ ScanMiss(r)
    PROVE  QuietLap'
<1>1. /\ UNCHANGED <<members, cursor, eligible, snapshot, last, quiet>>
      /\ pc[r] \in {"look", "scan"} /\ pc'[r] # "idle"
      /\ \A q \in Request \ {r} : pc'[q] = pc[q] /\ lap'[q] = lap[q] /\ at'[q] = at[q]
  BY DEF FInv, TypeOK, LookHit, LookLate, LookMiss, ScanMiss, Drop, pool
<1>2. ASSUME NEW q \in Request, q # r, quiet'[q] PROVE InLap(q)'
  BY <1>1, <1>2, Undisturbed DEF QuietLap
<1>3. ASSUME quiet'[r] PROVE InLap(r)'
  <2> DEFINE n == Len(members)
             p == Position(r)
  <2>1. /\ InLap(r) /\ snapshot[r] = members /\ TypeOK /\ n \in Nat /\ DOMAIN members = 1..n
        /\ lap[r] \in Nat /\ at[r] \in 1..n /\ lap[r] < n
    BY <1>1, <1>3, Lists DEF QuietLap, InLap, FInv, AtItsPlace, Looking
  <2>2. p \in 1..n /\ n \in Nat \ {0}
    BY <2>1, PositionInList
  <2>3. Position(r)' = p /\ snapshot'[r] = members'
    BY <1>1, <2>1 DEF Position
  <2>4. CASE LookHit(r)
    <3>1. pc[r] = "look"
      BY <1>1, <2>1, <2>4 DEF LookHit, InLap, Current
    <3>2. pc'[r] = "attempt" /\ lap' = lap /\ at' = at
      BY <2>4 DEF LookHit, FInv, TypeOK
    <3> QED BY <1>1, <2>1, <2>3, <3>1, <3>2 DEF InLap, Looking, Sampled
  <2>5. CASE LookLate(r)
    <3>1. pc'[r] = "spent"
      BY <2>5 DEF LookLate, FInv, TypeOK
    <3> QED BY <3>1 DEF InLap, Looking
  <2>6. CASE LookMiss(r)
    <3>1. /\ pc[r] = "look" /\ members[at[r]] \notin eligible /\ lap' = lap
          /\ pc'[r] = (IF lap[r] > 0 THEN "advance" ELSE "scan")
      BY <2>1, <2>6 DEF LookMiss, FInv, TypeOK, Current
    <3>2. /\ Ago(p, at[r], n) = 0
          /\ \A i \in DOMAIN members :
                /\ Ago(p, i, n) \in 1..(Sampled(r) - 1) => members[i] \notin eligible
                /\ members[i] \in last[r] =>
                     Ago(p, i, n) = Sampled(r) \/ (Ago(p, i, n) = 0 /\ lap[r] = 0)
      BY <2>1, <3>1 DEF InLap
    <3>3. Sampled(r) = n - lap[r] /\ Sampled(r)' = Sampled(r)
      BY <1>1, <2>1, <3>1 DEF Sampled
    <3> HIDE DEF p
    <3>4. \A i \in 1..n : Ago(p, i, n) \in 0..(n - 1) /\ (Ago(p, i, n) = 0 => i = at[r])
      BY <2>1, <2>2, <3>2, AgoInLap
    <3>5. \A i \in DOMAIN members : Ago(p, i, n) < Sampled(r) => members[i] \notin eligible
      BY <2>1, <3>1, <3>2, <3>3, <3>4
    <3>6. CASE lap[r] > 0
      <4>1. \A i \in DOMAIN members : members[i] \in last[r] => Ago(p, i, n) = Sampled(r)
        BY <2>1, <3>2, <3>6
      <4> QED BY <1>1, <2>3, <3>1, <3>3, <3>5, <3>6, <4>1 DEF InLap, Looking, p
    <3>7. CASE ~(lap[r] > 0)
      <4>1. \A i \in DOMAIN members : members[i] \notin eligible
        BY <2>1, <3>3, <3>4, <3>5, <3>7
      <4> QED BY <1>1, <2>3, <3>1, <3>7, <4>1 DEF InLap, Looking
    <3> QED BY <3>6, <3>7
  <2>7. CASE ScanMiss(r)
    <3>1. pc[r] = "scan" /\ pc'[r] \in {"scan", "none"}
      BY <2>7 DEF ScanMiss, FInv, TypeOK
    <3> QED BY <1>1, <2>1, <2>3, <3>1 DEF InLap, Looking
  <2> QED BY <2>4, <2>5, <2>6, <2>7
<1> QED BY <1>1, <1>2, <1>3 DEF QuietLap

(* The attempt that failed was on the position the cursor left last. *)
LEMMA NoAnswerQuiet ==
    ASSUME FInv, QuietLap, NEW r \in Request, NoAnswer(r)
    PROVE  QuietLap'
<1>1. /\ UNCHANGED <<members, cursor, snapshot, at>>
      /\ pc[r] = "attempt" /\ pc'[r] \in {"select", "spent"} /\ last'[r] = {Current(r)}
      /\ \A q \in Request : quiet'[q] => quiet[q] /\ (q = r \/ eligible' = eligible)
      /\ \A q \in Request \ {r} : pc'[q] = pc[q] /\ lap'[q] = lap[q] /\ last'[q] = last[q]
  BY DEF FInv, TypeOK, HistoryTypes, NoAnswer
<1>2. ASSUME NEW q \in Request, q # r, quiet'[q] PROVE InLap(q)'
  BY <1>1, <1>2, Undisturbed DEF QuietLap
<1>3. ASSUME quiet'[r] PROVE InLap(r)'
  <2>1. /\ snapshot[r] = members /\ Ago(Position(r), at[r], Len(members)) = 0
        /\ at[r] > 0
    BY <1>1, <1>3 DEF QuietLap, InLap, FInv, AtItsPlace
  <2>2. Position(r)' = Position(r) /\ Current(r)' = Current(r)
    BY <1>1 DEF Position, Current
  <2> QED BY <1>1, <2>1, <2>2 DEF InLap, Looking
<1> QED BY <1>1, <1>2, <1>3 DEF QuietLap

LEMMA NextQuiet == FInv /\ QuietLap /\ [Next]_vars => QuietLap'
<1> SUFFICES ASSUME FInv, QuietLap, [Next]_vars PROVE QuietLap'
  OBVIOUS
<1>1. CASE \E e \in Entry : Add(e) \/ Remove(e) \/ Flip(e)
  BY <1>1, PoolQuiet
<1>2. ASSUME NEW r \in Request, Arrive(r) \/ Hangup(r) PROVE QuietLap'
  BY <1>2, ArriveQuiet, EndQuiet DEF Hangup
<1>3. ASSUME NEW r \in Request, Step(r) PROVE QuietLap'
  <2>1. CASE NoHealthy(r) \/ Answer(r) \/ TooLarge(r) \/ Spent(r)
    BY <2>1, EndQuiet DEF NoHealthy, Answer, TooLarge, Spent
  <2>2. CASE Attempted(r)
    BY <2>1, <2>2, NoAnswerQuiet DEF Attempted
  <2> QED BY <1>3, <2>1, <2>2, LoadQuiet, AdvanceQuiet, LookQuiet DEF Step
<1>4. CASE UNCHANGED vars
  BY <1>4, Undisturbed DEF QuietLap, vars
<1> QED BY <1>1, <1>2, <1>3, <1>4 DEF Next

(* A request that comes back to the provider that failed it went once round
   the list, and all it passed were out of rotation. *)
LEMMA MovesOn == FInv /\ QuietLap => FailoverMovesOn
<1> SUFFICES ASSUME FInv, QuietLap, NEW r \in Request,
                    pc[r] = "attempt", quiet[r], Current(r) \in last[r], NEW e \in steady[r]
             PROVE  e \in last[r]
  BY DEF FailoverMovesOn
<1> DEFINE n == Len(members)
           p == Position(r)
<1>1. /\ InLap(r) /\ snapshot[r] = members /\ TypeOK /\ n \in Nat /\ DOMAIN members = 1..n
      /\ lap[r] \in Nat /\ at[r] \in 1..n /\ lap[r] < n
  BY Lists DEF QuietLap, InLap, FInv, AtItsPlace
<1>2. p \in 1..n /\ n \in Nat \ {0}
  BY <1>1, PositionInList
<1>3. /\ Ago(p, at[r], n) = 0
      /\ \A i \in DOMAIN members :
            /\ Ago(p, i, n) \in 1..(Sampled(r) - 1) => members[i] \notin eligible
            /\ members[i] \in last[r] =>
                 Ago(p, i, n) = Sampled(r) \/ (Ago(p, i, n) = 0 /\ lap[r] = 0)
  BY <1>1 DEF InLap
<1>4. Sampled(r) = n - lap[r] /\ members[at[r]] \in last[r]
  BY <1>1 DEF Sampled, Current
<1> HIDE DEF p
<1>5. lap[r] = 0
  BY <1>1, <1>2, <1>3, <1>4
<1>6. \A i \in 1..n : Ago(p, i, n) \in 0..(n - 1) /\ (Ago(p, i, n) = 0 => i = at[r])
  BY <1>1, <1>2, <1>3, AgoInLap
<1>7. \A i \in 1..n : i # at[r] => members[i] \notin eligible
  BY <1>1, <1>3, <1>4, <1>5, <1>6
<1>8. PICK i \in DOMAIN members : members[i] = e
  BY <1>1 DEF FInv, SteadyAhead
<1>9. e \in eligible
  BY DEF FInv, SteadyAhead
<1> QED BY <1>1, <1>4, <1>7, <1>8, <1>9

(* Undisturbed at the cursor, a failover goes to every other eligible member
   before it comes back to the one that failed it (next_eligible: the cursor
   is the next position to examine). *)
THEOREM FailoverMoves == Spec => []FailoverMovesOn
<1>1. Spec => [](FInv /\ QuietLap)
  <2>1. Init => FInv /\ QuietLap
    BY InitFInv, InitQuiet
  <2>2. FInv /\ QuietLap /\ [Next]_vars => (FInv /\ QuietLap)'
    BY NextFInv, NextQuiet
  <2> QED BY <2>1, <2>2, PTL DEF Spec
<1> QED BY <1>1, MovesOn, PTL

-----------------------------------------------------------------------------
(* Sums of any length.  A fold is the value of a recursive function on the
   subsets of its domain; that there is one, and what it sums, is shown along
   the sizes of the subsets: a least counterexample has a smaller one. *)

Rest(s) == s \ {CHOOSE x \in s : TRUE}

Sums(f, g, s) == g[s] = IF s = {} THEN 0 ELSE f[CHOOSE x \in s : TRUE] + g[Rest(s)]

(* A set of numbers has a least one. *)
LEMMA LeastExists ==
    ASSUME NEW S, S \subseteq Nat, S # {}
    PROVE  \E n \in S : \A m \in S : n <= m
<1>1. PICK n \in S : \A m \in S : ~(<<m, n>> \in OpToRel(<, Nat))
  BY NatLessThanWellFounded, WFMin
<1>2. ASSUME NEW m \in S PROVE n <= m
  <2>1. <<m, n>> \in Nat \X Nat
    OBVIOUS
  <2>2. ~(m < n)
    BY <1>1, <2>1 DEF OpToRel
  <2> QED BY <2>2
<1> QED BY <1>2

(* What a fold has left after one element is smaller. *)
LEMMA RestSmaller ==
    ASSUME NEW s, IsFiniteSet(s), s # {}
    PROVE  /\ IsFiniteSet(Rest(s)) /\ Rest(s) \subseteq s
           /\ (CHOOSE x \in s : TRUE) \in s /\ (CHOOSE x \in s : TRUE) \notin Rest(s)
           /\ Cardinality(s) \in Nat /\ Cardinality(Rest(s)) = Cardinality(s) - 1
<1>1. (CHOOSE x \in s : TRUE) \in s
  OBVIOUS
<1> QED BY <1>1, FS_RemoveElement, FS_CardinalityType DEF Rest

(* The function a fold over the parts of a finite set describes exists. *)
LEMMA SumExists ==
    ASSUME NEW D, IsFiniteSet(D), NEW f \in [D -> Int]
    PROVE  \E g \in [SUBSET D -> Int] : \A s \in SUBSET D : Sums(f, g, s)
<1> DEFINE upTo(k) == \E g \in [SUBSET D -> Int] :
                        \A s \in SUBSET D : Cardinality(s) <= k => Sums(f, g, s)
           bad == {k \in Nat : ~upTo(k)}
<1>0. \A s \in SUBSET D : IsFiniteSet(s) /\ Cardinality(s) \in Nat
  BY FS_Subset, FS_CardinalityType
<1>1. ASSUME bad # {} PROVE FALSE
  <2>1. PICK k \in bad : \A j \in bad : k <= j
    BY <1>1, LeastExists
  <2>2. CASE k = 0
    <3> DEFINE g == [s \in SUBSET D |-> 0]
    <3>1. \A s \in SUBSET D : Cardinality(s) <= 0 => s = {}
      BY <1>0, FS_EmptySet
    <3>2. \A s \in SUBSET D : Cardinality(s) <= 0 => Sums(f, g, s)
      BY <3>1 DEF Sums
    <3>3. g \in [SUBSET D -> Int]
      OBVIOUS
    <3> HIDE DEF g
    <3> QED BY <2>1, <2>2, <3>2, <3>3
  <2>3. CASE k # 0
    <3>1. k - 1 \in Nat /\ k - 1 \notin bad
      <4>1. k \in Nat
        BY <2>1
      <4>2. k - 1 \in Nat /\ ~(k <= k - 1)
        BY <2>3, <4>1
      <4> QED BY <2>1, <4>2
    <3>2. PICK g \in [SUBSET D -> Int] :
             \A s \in SUBSET D : Cardinality(s) <= k - 1 => Sums(f, g, s)
      BY <3>1
    <3> DEFINE h == [s \in SUBSET D |-> IF Cardinality(s) <= k - 1 THEN g[s]
                                        ELSE f[CHOOSE x \in s : TRUE] + g[Rest(s)]]
    <3>3. ASSUME NEW s \in SUBSET D, s # {}
          PROVE  /\ Rest(s) \in SUBSET D /\ f[CHOOSE x \in s : TRUE] \in Int
                 /\ Cardinality(Rest(s)) = Cardinality(s) - 1
      BY <1>0, <3>3, RestSmaller
    <3>4. ASSUME NEW s \in SUBSET D, ~(Cardinality(s) <= k - 1) PROVE s # {}
      <4>1. Cardinality({}) = 0
        BY FS_EmptySet
      <4>2. s = {} => Cardinality(s) <= k - 1
        BY <3>1, <4>1
      <4> QED BY <3>4, <4>2
    <3>5. h \in [SUBSET D -> Int]
      BY <3>3, <3>4
    <3>6. ASSUME NEW s \in SUBSET D, Cardinality(s) <= k PROVE Sums(f, h, s)
      <4>1. CASE s = {}
        <5>1. Cardinality(s) = 0
          BY <4>1, FS_EmptySet
        <5>2. h[s] = g[s] /\ Sums(f, g, s)
          BY <3>1, <3>2, <5>1
        <5> QED BY <4>1, <5>2 DEF Sums
      <4>2. CASE s # {}
        <5>1. /\ Rest(s) \in SUBSET D /\ Cardinality(Rest(s)) = Cardinality(s) - 1
              /\ Cardinality(s) \in Nat
          BY <1>0, <3>3, <4>2
        <5>2. h[Rest(s)] = g[Rest(s)]
          BY <3>1, <3>6, <5>1
        <5>3. h[s] = f[CHOOSE x \in s : TRUE] + g[Rest(s)]
          BY <3>2, <4>2 DEF Sums
        <5> HIDE DEF h
        <5> QED BY <4>2, <5>2, <5>3 DEF Sums
      <4> QED BY <4>1, <4>2
    <3> HIDE DEF h
    <3>7. upTo(k)
      BY <3>5, <3>6
    <3> QED BY <2>1, <3>7
  <2> QED BY <2>2, <2>3
<1>2. upTo(Cardinality(D))
  BY <1>0, <1>1
<1>3. \A s \in SUBSET D : Cardinality(s) <= Cardinality(D)
  BY FS_Subset
<1> QED BY <1>2, <1>3

(* The equations of the sum. *)
LEMMA TotalIsSum ==
    ASSUME NEW D, IsFiniteSet(D), NEW f \in [D -> Int]
    PROVE  \E g \in [SUBSET D -> Int] :
              Total(f) = g[D] /\ \A s \in SUBSET D : Sums(f, g, s)
<1> DEFINE eq(g) == [s \in SUBSET D |-> IF s = {} THEN 0
                       ELSE f[CHOOSE x \in s : TRUE] + g[s \ {CHOOSE x \in s : TRUE}]]
           it == CHOOSE g : g = eq(g)
<1>1. PICK g \in [SUBSET D -> Int] : \A s \in SUBSET D : Sums(f, g, s)
  BY SumExists
<1>2. g = eq(g)
  BY <1>1 DEF Sums, Rest
<1>3. it = eq(it)
  BY <1>2
<1>4. Total(f) = it[D]
  BY DEF Total, FoldFunction, FoldFunctionOnSet, MapThenFoldSet
<1>5. ASSUME NEW s \in SUBSET D PROVE Sums(f, it, s)
  <2> HIDE DEF it
  <2> QED BY <1>3 DEF Sums, Rest
<1>6. ASSUME NEW s \in SUBSET D PROVE it[s] \in Int
  <2> HIDE DEF it
  <2> DEFINE sizes == {Cardinality(t) : t \in {u \in SUBSET D : it[u] \notin Int}}
  <2>1. SUFFICES ASSUME it[s] \notin Int PROVE FALSE
    OBVIOUS
  <2>2. \A u \in SUBSET D : IsFiniteSet(u) /\ Cardinality(u) \in Nat
    BY FS_Subset, FS_CardinalityType
  <2>3. sizes \subseteq Nat /\ sizes # {}
    BY <2>1, <2>2
  <2>4. PICK n \in sizes : \A m \in sizes : n <= m
    BY <2>3, LeastExists
  <2>5. PICK u \in SUBSET D : it[u] \notin Int /\ Cardinality(u) = n
    BY <2>4
  <2>6. u # {}
    BY <1>5, <2>5 DEF Sums
  <2>7. /\ Rest(u) \in SUBSET D /\ f[CHOOSE x \in u : TRUE] \in Int
        /\ Cardinality(Rest(u)) = Cardinality(u) - 1 /\ Cardinality(u) \in Nat
    BY <2>2, <2>6, RestSmaller
  <2>8. it[Rest(u)] \in Int
    <3>1. ~(n <= Cardinality(Rest(u)))
      BY <2>5, <2>7
    <3>2. Cardinality(Rest(u)) \notin sizes
      BY <2>4, <3>1
    <3> QED BY <2>7, <3>2
  <2> QED BY <1>5, <2>5, <2>6, <2>7, <2>8 DEF Sums
<1>7. it \in [SUBSET D -> Int]
  <2> HIDE DEF it
  <2>1. it = [s \in SUBSET D |-> it[s]]
    BY <1>3
  <2> QED BY <1>6, <2>1
<1> HIDE DEF it
<1> QED BY <1>4, <1>5, <1>7

(* A total of integers is an integer. *)
LEMMA TotalIsInt ==
    ASSUME NEW D, IsFiniteSet(D), NEW f \in [D -> Int]
    PROVE  Total(f) \in Int
<1>1. PICK g \in [SUBSET D -> Int] : Total(f) = g[D]
  BY TotalIsSum
<1>2. D \in SUBSET D
  OBVIOUS
<1> QED BY <1>1, <1>2

(* Two functions that agree but at one place. *)
LEMMA TotalDiffers ==
    ASSUME NEW D, IsFiniteSet(D), NEW f \in [D -> Int], NEW x \in D, NEW v \in Int
    PROVE  /\ Total(f) \in Int
           /\ Total([f EXCEPT ![x] = v]) = Total(f) - f[x] + v
<1> DEFINE h == [f EXCEPT ![x] = v]
<1>1. h \in [D -> Int] /\ \A y \in D : h[y] = IF y = x THEN v ELSE f[y]
  OBVIOUS
<1> HIDE DEF h
<1>2. PICK F \in [SUBSET D -> Int] : Total(f) = F[D] /\ \A s \in SUBSET D : Sums(f, F, s)
  BY TotalIsSum
<1>3. PICK H \in [SUBSET D -> Int] : Total(h) = H[D] /\ \A s \in SUBSET D : Sums(h, H, s)
  BY <1>1, TotalIsSum
<1> DEFINE right(s) == H[s] = F[s] + (IF x \in s THEN v - f[x] ELSE 0)
           sizes == {Cardinality(t) : t \in {u \in SUBSET D : ~right(u)}}
<1>4. \A u \in SUBSET D : IsFiniteSet(u) /\ Cardinality(u) \in Nat
  BY FS_Subset, FS_CardinalityType
<1>5. ASSUME sizes # {} PROVE FALSE
  <2>1. sizes \subseteq Nat
    BY <1>4
  <2>2. PICK n \in sizes : \A m \in sizes : n <= m
    BY <1>5, <2>1, LeastExists
  <2>3. PICK u \in SUBSET D : ~right(u) /\ Cardinality(u) = n
    BY <2>2
  <2>4. CASE u = {}
    BY <1>2, <1>3, <2>3, <2>4 DEF Sums
  <2>5. CASE u # {}
    <3> DEFINE c == CHOOSE y \in u : TRUE
    <3>1. /\ Rest(u) \in SUBSET D /\ c \in u /\ Rest(u) = u \ {c}
          /\ Cardinality(Rest(u)) = Cardinality(u) - 1 /\ Cardinality(u) \in Nat
      BY <1>4, <2>5, RestSmaller DEF Rest
    <3>2. right(Rest(u))
      BY <2>2, <2>3, <3>1
    <3>3. H[u] = h[c] + H[Rest(u)] /\ F[u] = f[c] + F[Rest(u)]
      BY <1>2, <1>3, <2>5 DEF Sums
    <3>4. /\ F[u] \in Int /\ F[Rest(u)] \in Int /\ H[u] \in Int /\ H[Rest(u)] \in Int
          /\ f[c] \in Int /\ f[x] \in Int /\ h[c] = IF c = x THEN v ELSE f[c]
      BY <1>1, <3>1
    <3> HIDE DEF c
    <3> QED BY <2>3, <3>1, <3>2, <3>3, <3>4
  <2> QED BY <2>4, <2>5
<1>6. right(D)
  BY <1>5
<1>7. F[D] \in Int /\ H[D] \in Int /\ f[x] \in Int
  OBVIOUS
<1>8. Total(h) = Total(f) - f[x] + v
  BY <1>2, <1>3, <1>6, <1>7
<1> QED BY <1>2, <1>7, <1>8 DEF h

(* Nothing counted adds up to nothing. *)
LEMMA TotalOfZero ==
    ASSUME NEW D, IsFiniteSet(D)
    PROVE  Total([x \in D |-> 0]) = 0
<1> DEFINE f == [x \in D |-> 0]
<1>1. f \in [D -> Int] /\ \A x \in D : f[x] = 0
  OBVIOUS
<1> HIDE DEF f
<1>2. PICK F \in [SUBSET D -> Int] : Total(f) = F[D] /\ \A s \in SUBSET D : Sums(f, F, s)
  BY <1>1, TotalIsSum
<1> DEFINE sizes == {Cardinality(t) : t \in {u \in SUBSET D : F[u] # 0}}
<1>3. \A u \in SUBSET D : IsFiniteSet(u) /\ Cardinality(u) \in Nat
  BY FS_Subset, FS_CardinalityType
<1>4. ASSUME sizes # {} PROVE FALSE
  <2>1. sizes \subseteq Nat
    BY <1>3
  <2>2. PICK n \in sizes : \A m \in sizes : n <= m
    BY <1>4, <2>1, LeastExists
  <2>3. PICK u \in SUBSET D : F[u] # 0 /\ Cardinality(u) = n
    BY <2>2
  <2>4. u # {}
    BY <1>2, <2>3 DEF Sums
  <2>5. /\ Rest(u) \in SUBSET D /\ f[CHOOSE x \in u : TRUE] = 0
        /\ Cardinality(Rest(u)) = Cardinality(u) - 1 /\ Cardinality(u) \in Nat
    BY <1>1, <1>3, <2>4, RestSmaller
  <2>6. Cardinality(Rest(u)) \notin sizes
    <3>1. ~(n <= Cardinality(Rest(u)))
      BY <2>3, <2>5
    <3> QED BY <2>2, <3>1
  <2> QED BY <1>2, <2>3, <2>4, <2>5, <2>6 DEF Sums
<1> QED BY <1>2, <1>4 DEF f

-----------------------------------------------------------------------------
(* Every end is counted. *)
Outcome3 == {"no_healthy_provider", "timed_out", "no_provider_answered"}

Place == {"idle", "select", "advance", "look", "scan", "none", "attempt", "spent", "done"}

AtAttempt == {r \in Request : pc[r] = "attempt"}

CInv == EveryEndCounted /\ refused \in Nat /\ oversized \in Nat /\ cancelled \in Nat

(* A request joins a set of requests, or leaves it. *)
LEMMA OneMore ==
    ASSUME NEW S, S \subseteq Request, NEW r \in Request
    PROVE  /\ Cardinality(S) \in Nat
           /\ r \notin S => Cardinality(S \cup {r}) = Cardinality(S) + 1
           /\ r \in S => Cardinality(S \ {r}) = Cardinality(S) - 1
<1>1. IsFiniteSet(S)
  BY FailoverAssumption, FS_Subset
<1> QED BY <1>1, FS_AddElement, FS_RemoveElement, FS_CardinalityType

(* The outcomes are finitely many. *)
LEMMA ThreeOutcomes == IsFiniteSet(Outcome3)
<1>1. \A x, y, z : IsFiniteSet({x, y, z})
  <2> TAKE x, y, z
  <2>1. IsFiniteSet({x} \cup {y}) /\ IsFiniteSet({z})
    BY FS_Singleton, FS_Union
  <2>2. IsFiniteSet(({x} \cup {y}) \cup {z})
    BY <2>1, FS_Union
  <2>3. {x, y, z} = ({x} \cup {y}) \cup {z}
    OBVIOUS
  <2> QED BY <2>2, <2>3
<1> QED BY <1>1 DEF Outcome3

(* An outcome is counted once. *)
LEMMA OutcomeCounted ==
    ASSUME TypeOK, NEW o \in Outcome3, outcomes' = [outcomes EXCEPT ![o] = @ + 1]
    PROVE  Total(outcomes) \in Int /\ Total(outcomes') = Total(outcomes) + 1
<1>1. outcomes \in [Outcome3 -> Int]
  BY DEF TypeOK, Outcome3
<1>2. IsFiniteSet(Outcome3)
  BY ThreeOutcomes
<1>3. outcomes[o] \in Int /\ outcomes[o] + 1 \in Int
  BY <1>1
<1>4. /\ Total(outcomes) \in Int
      /\ Total([outcomes EXCEPT ![o] = outcomes[o] + 1])
            = Total(outcomes) - outcomes[o] + (outcomes[o] + 1)
  BY <1>1, <1>2, <1>3, TotalDiffers
<1> QED BY <1>3, <1>4

(* A request ends: it is one more of those that did, and what counts it is
   one more too. *)
LEMMA EndCounted ==
    ASSUME FInv, CInv, NEW r \in Request, End(r), UNCHANGED attempts, pc[r] # "done",
           failures' = failures, NEW s \in Nat, served' = s, NEW n \in Nat, refused' = n,
           NEW o \in Nat, oversized' = o, NEW c \in Nat, cancelled' = c,
           NEW t \in Int, Total(outcomes') = t, Total(outcomes) \in Int,
           s + t + n + o + c
               = served + Total(outcomes) + refused + oversized + cancelled + 1,
           pc[r] = "attempt" => s + o + c = served + oversized + cancelled + 1,
           pc[r] # "attempt" => s + o + c = served + oversized + cancelled
    PROVE  CInv'
<1>1. pc \in [Request -> Place] /\ pc' = [pc EXCEPT ![r] = "done"]
  BY DEF FInv, TypeOK, End, Place
<1>2. Ended \subseteq Request /\ r \notin Ended /\ Ended' = Ended \cup {r}
  BY <1>1 DEF Ended
<1>3. /\ AtAttempt \subseteq Request /\ AtAttempt' = AtAttempt \ {r}
      /\ r \in AtAttempt <=> pc[r] = "attempt"
  BY <1>1 DEF AtAttempt
<1>4. Cardinality(Ended) \in Nat /\ Cardinality(Ended') = Cardinality(Ended) + 1
  BY <1>2, OneMore
<1>5. /\ Cardinality(AtAttempt) \in Nat
      /\ pc[r] = "attempt" => Cardinality(AtAttempt') = Cardinality(AtAttempt) - 1
      /\ pc[r] # "attempt" => Cardinality(AtAttempt') = Cardinality(AtAttempt)
  <2>1. CASE pc[r] = "attempt"
    BY <1>3, <2>1, OneMore
  <2>2. CASE pc[r] # "attempt"
    <3>1. AtAttempt' = AtAttempt
      BY <1>3, <2>2
    <3>2. Cardinality(AtAttempt) \in Nat
      BY <1>3, OneMore
    <3> QED BY <2>2, <3>1, <3>2
  <2> QED BY <2>1, <2>2
<1>6. /\ Cardinality(Ended) = served + Total(outcomes) + refused + oversized + cancelled
      /\ Total(attempts) = served + failures + oversized + cancelled + Cardinality(AtAttempt)
      /\ served \in Nat /\ failures \in Nat /\ refused \in Nat /\ oversized \in Nat
      /\ cancelled \in Nat
  BY DEF CInv, EveryEndCounted, AtAttempt, FInv, TypeOK
<1>7. Cardinality(Ended') = served' + Total(outcomes') + refused' + oversized' + cancelled'
  BY <1>4, <1>6
<1>8. Total(attempts') = served' + failures' + oversized' + cancelled'
                         + Cardinality(AtAttempt')
  <2>1. Total(attempts') = Total(attempts)
    OBVIOUS
  <2>2. CASE pc[r] = "attempt"
    BY <1>5, <1>6, <2>1, <2>2
  <2>3. CASE pc[r] # "attempt"
    BY <1>5, <1>6, <2>1, <2>3
  <2> QED BY <2>2, <2>3
<1> QED BY <1>7, <1>8 DEF CInv, EveryEndCounted, AtAttempt, Ended

(* A step that ends nothing, and begins no attempt nor loses one. *)
LEMMA OthersCounted ==
    ASSUME FInv, CInv, UNCHANGED <<counts, attempts>>,
           \A r \in Request : /\ pc'[r] = "done" <=> pc[r] = "done"
                              /\ pc'[r] = "attempt" <=> pc[r] = "attempt"
    PROVE  CInv'
<1>1. Ended' = Ended /\ AtAttempt' = AtAttempt
  BY DEF Ended, AtAttempt
<1> QED BY <1>1 DEF CInv, EveryEndCounted, AtAttempt, counts

LEMMA InitCInv == Init => CInv
<1> SUFFICES ASSUME Init PROVE CInv
  OBVIOUS
<1>1. Ended = {} /\ AtAttempt = {} /\ Cardinality({}) = 0
  BY FS_EmptySet DEF Init, Ended, AtAttempt
<1>2. Total([r \in Request |-> 0]) = 0
  BY FailoverAssumption, TotalOfZero
<1>3. Total(outcomes) = 0
  <2>1. outcomes = [o \in Outcome3 |-> 0]
    BY DEF Init, Outcome3
  <2> QED BY <2>1, ThreeOutcomes, TotalOfZero
<1>4. Total(attempts) = 0
  BY <1>2 DEF Init
<1>5. served = 0 /\ failures = 0 /\ refused = 0 /\ oversized = 0 /\ cancelled = 0
  BY DEF Init
<1>6. Cardinality(Ended) = 0 /\ Cardinality(AtAttempt) = 0
  BY <1>1
<1>7. /\ Cardinality(Ended) = served + Total(outcomes) + refused + oversized + cancelled
      /\ Total(attempts) = served + failures + oversized + cancelled + Cardinality(AtAttempt)
  BY <1>3, <1>4, <1>5, <1>6
<1> QED BY <1>5, <1>7 DEF CInv, EveryEndCounted, AtAttempt

LEMMA NextCInv == FInv /\ CInv /\ [Next]_vars => CInv'
<1> SUFFICES ASSUME FInv, CInv, [Next]_vars PROVE CInv'
  OBVIOUS
<1>0. /\ TypeOK /\ served \in Nat /\ failures \in Nat /\ refused \in Nat /\ oversized \in Nat
      /\ cancelled \in Nat /\ Total(outcomes) \in Int
      /\ pc \in [Request -> Place] /\ attempts \in [Request -> Int]
      /\ IsFiniteSet(Request)
  <2>1. TypeOK
    BY DEF FInv
  <2>2. outcomes \in [Outcome3 -> Int]
    BY <2>1 DEF TypeOK, Outcome3
  <2>3. Total(outcomes) \in Int
    BY <2>2, ThreeOutcomes, TotalIsInt
  <2>4. pc \in [Request -> Place]
    BY <2>1 DEF TypeOK, Place
  <2>5. attempts \in [Request -> Int]
    BY <2>1, FailoverAssumption DEF TypeOK
  <2>6. /\ served \in Nat /\ failures \in Nat /\ refused \in Nat /\ oversized \in Nat
        /\ cancelled \in Nat
    BY <2>1 DEF CInv, TypeOK
  <2> QED BY <2>1, <2>3, <2>4, <2>5, <2>6, FailoverAssumption
<1>1. ASSUME NEW e \in Entry, Add(e) \/ Remove(e) \/ Flip(e) PROVE CInv'
  BY <1>1, OthersCounted DEF Add, Remove, Flip
<1>2. ASSUME NEW r \in Request, Arrive(r) PROVE CInv'
  <2>1. CASE Pass(r)
    BY <1>0, <2>1, OthersCounted DEF Pass
  <2>2. CASE Refuse(r)
    BY <1>0, <2>2, EndCounted DEF Refuse
  <2> QED BY <1>2, <2>1, <2>2 DEF Arrive
<1>3. ASSUME NEW r \in Request, Load(r) \/ Advance(r) \/ LookLate(r) \/ LookMiss(r) \/ ScanMiss(r)
      PROVE  CInv'
  BY <1>0, <1>3, OthersCounted DEF Load, Advance, LookLate, LookMiss, ScanMiss
<1>4. ASSUME NEW r \in Request, LookHit(r) PROVE CInv'
  <2>1. Ended' = Ended /\ UNCHANGED counts
    BY <1>0, <1>4 DEF LookHit, Ended
  <2>2. AtAttempt \subseteq Request /\ r \notin AtAttempt /\ AtAttempt' = AtAttempt \cup {r}
    BY <1>0, <1>4 DEF LookHit, AtAttempt
  <2>3. Cardinality(AtAttempt) \in Nat /\ Cardinality(AtAttempt') = Cardinality(AtAttempt) + 1
    BY <2>2, OneMore
  <2>4. Total(attempts') = Total(attempts) + 1 /\ Total(attempts) \in Int
    <3>1. attempts' = [attempts EXCEPT ![r] = attempts[r] + 1] /\ attempts[r] \in Int
      BY <1>0, <1>4 DEF LookHit
    <3>2. attempts[r] + 1 \in Int
      BY <3>1
    <3>3. /\ Total(attempts) \in Int
          /\ Total([attempts EXCEPT ![r] = attempts[r] + 1])
                = Total(attempts) - attempts[r] + (attempts[r] + 1)
      BY <1>0, <3>2, TotalDiffers
    <3> QED BY <3>1, <3>3
  <2> QED BY <1>0, <2>1, <2>3, <2>4 DEF CInv, EveryEndCounted, AtAttempt, counts
<1>5. ASSUME NEW r \in Request, NoAnswer(r) PROVE CInv'
  <2>1. Ended' = Ended
    BY <1>0, <1>5 DEF NoAnswer, Ended
  <2>2. AtAttempt \subseteq Request /\ r \in AtAttempt /\ AtAttempt' = AtAttempt \ {r}
    BY <1>0, <1>5 DEF NoAnswer, AtAttempt
  <2>3. Cardinality(AtAttempt) \in Nat /\ Cardinality(AtAttempt') = Cardinality(AtAttempt) - 1
    BY <2>2, OneMore
  <2>4. /\ failures' = failures + 1
        /\ UNCHANGED <<served, outcomes, refused, oversized, cancelled, attempts>>
    BY <1>5 DEF NoAnswer
  <2> QED BY <1>0, <2>1, <2>3, <2>4 DEF CInv, EveryEndCounted, AtAttempt
<1>6. ASSUME NEW r \in Request, NoHealthy(r) \/ Spent(r) PROVE CInv'
  <2>1. PICK o \in Outcome3 : outcomes' = [outcomes EXCEPT ![o] = @ + 1]
    BY <1>6 DEF NoHealthy, Spent, Outcome3
  <2>2. Total(outcomes') = Total(outcomes) + 1
    BY <1>0, <2>1, OutcomeCounted
  <2>3. /\ End(r) /\ UNCHANGED <<attempts, served, failures, refused, oversized, cancelled>>
        /\ pc[r] \notin {"done", "attempt"}
    BY <1>6 DEF NoHealthy, Spent
  <2> QED BY <1>0, <2>2, <2>3, EndCounted
<1>7. ASSUME NEW r \in Request, Answer(r) \/ TooLarge(r) \/ Hangup(r) PROVE CInv'
  <2>1. /\ End(r) /\ UNCHANGED <<attempts, failures, outcomes, refused>> /\ pc[r] = "attempt"
        /\ \/ served' = served + 1 /\ UNCHANGED <<oversized, cancelled>>
           \/ oversized' = oversized + 1 /\ UNCHANGED <<served, cancelled>>
           \/ cancelled' = cancelled + 1 /\ UNCHANGED <<served, oversized>>
    BY <1>7 DEF Answer, TooLarge, Hangup
  <2> QED BY <1>0, <2>1, EndCounted
<1>8. ASSUME NEW r \in Request, Step(r) PROVE CInv'
  BY <1>3, <1>4, <1>5, <1>6, <1>7, <1>8 DEF Step, Attempted
<1>9. CASE UNCHANGED vars
  BY <1>9, OthersCounted DEF vars, counts
<1> QED BY <1>1, <1>2, <1>7, <1>8, <1>9 DEF Next

(* No end of a request is lost or counted twice, and no attempt either: the
   counters of the entries and of the LB, the refusals, the oversized answers
   and what clients abandoned add up to the requests that ended, for any
   number of them in flight (forward_with_failover and LbOutcomes). *)
THEOREM EndsAreCounted == Spec => []EveryEndCounted
<1>1. Spec => [](FInv /\ CInv)
  <2>1. Init => FInv /\ CInv
    BY InitFInv, InitCInv
  <2>2. FInv /\ CInv /\ [Next]_vars => (FInv /\ CInv)'
    BY NextFInv, NextCInv
  <2> QED BY <2>1, <2>2, PTL DEF Spec
<1>2. FInv /\ CInv => EveryEndCounted
  BY DEF CInv
<1> QED BY <1>1, <1>2, PTL
=============================================================================
