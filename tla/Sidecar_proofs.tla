--------------------------- MODULE Sidecar_proofs ---------------------------
(***************************************************************************)
(* For any callers and batches, any limits and any number of restarts: no  *)
(* transaction takes the nonce of another, no operation lands twice, a     *)
(* caller is told the truth, and has every operation of its batch settled, *)
(* under way or still to send.                                             *)
(***************************************************************************)
EXTENDS Sidecar, TLAPS, SequenceTheorems, FiniteSetTheorems, WellFoundedInduction

(* A part of a batch: operations, none of them twice. *)
Part == {p \in Seq(Nat) : p # <<>> /\ IsInjective(p)}

Apart(p, q) == Range(p) \cap Range(q) = {}
Separate(s) == \A i, j \in DOMAIN s : i # j => Apart(s[i], s[j])

Writing == [part: Part, nonce: Nat, at: {"signed", "sent", "landed", "reverted"},
            waited: 0..ReceiptWait]

(* The state in terms of parts; one write at a time, the queue's first. *)
Types ==
    /\ todo \in [Caller -> Seq(Part)] /\ waiting \in [Caller -> Part \cup {<<>>}]
    /\ age \in [Caller -> Nat] /\ reports \in [Caller -> Seq([part: Part, result: Result])]
    /\ queue \in Seq(Part)
    /\ mempool \subseteq [part: Part, nonce: Nat] /\ IsFiniteSet(mempool)
    /\ mined \in Nat /\ landed \in Seq(Part) /\ unheard \subseteq Part
    /\ active = {} \/ \E a \in Writing : active = {a} /\ queue # <<>> /\ a.part = Head(queue)

(* A nonce taken is free until it is sent. *)
NonceIsFree ==
    \A a \in active : a.at = "signed" =>
        a.nonce > mined /\ \A t \in mempool : t.nonce # a.nonce

(* The parts the callers have given away. *)
Reports == UNION {Range(reports[c]) : c \in Caller}
Given == Range(queue) \cup {t.part : t \in mempool} \cup Range(landed)
         \cup {r.part : r \in Reports}

(* Nothing still to send was ever given away, or is to be sent twice. *)
TodoApart ==
    \A c \in Caller :
        /\ Separate(todo[c])
        /\ \A p \in Range(todo[c]) :
            /\ \A q \in Given : Apart(p, q)
            /\ \A d \in Caller : d # c => \A q \in Range(todo[d]) : Apart(p, q)

(* What is queued was not sent, unless it is the write in progress. *)
SentApart ==
    /\ Separate(queue)
    /\ \A t \in mempool : /\ \A u \in mempool : u # t => Apart(t.part, u.part)
                          /\ \A p \in Range(landed) : Apart(t.part, p)
    /\ \A p \in Range(queue) :
        /\ \A t \in mempool :
            Apart(p, t.part) \/ (p = t.part /\ \E a \in active : a.part = p /\ a.at = "sent")
        /\ \A q \in Range(landed) :
            Apart(p, q) \/ (p = q /\ \E a \in active : a.part = p /\ a.at = "landed")
    /\ \A a \in active : a.at = "landed" => a.part \in Range(landed)

(* A caller waits for what is queued, and for nothing it was told of. *)
WaitsForQueued ==
    \A c \in Caller : waiting[c] # <<>> =>
        /\ waiting[c] \in Range(queue)
        /\ \A d \in Caller : waiting[d] = waiting[c] => d = c
        /\ \A r \in Reports : Apart(r.part, waiting[c])

ToldIsOver ==
    \A r \in Reports : r.result # "gave_up" => \A p \in Range(queue) : Apart(r.part, p)

(* AnswerIsTrue, of a report. *)
IsTrue(r) ==
    /\ r.result = "written" => r.part \in Range(landed)
    /\ r.result \in {"refused", "failed", "too_large"} =>
          r.part \in unheard \/ (r.part \notin Range(landed) /\ ~Held(r.part))
ReportsTrue == \A r \in Reports : IsTrue(r)

WInv == /\ Types /\ NonceIsFree /\ OneNonceEach /\ TodoApart /\ SentApart /\ WaitsForQueued
        /\ ToldIsOver /\ Separate(landed) /\ ReportsTrue
-----------------------------------------------------------------------------
LEMMA SeqFacts ==
    ASSUME NEW S, NEW s \in Seq(S)
    PROVE  /\ Len(s) \in Nat /\ DOMAIN s = 1..Len(s)
           /\ \A i \in 1..Len(s) : s[i] \in S
           /\ s = <<>> <=> Len(s) = 0
           /\ Range(s) \subseteq S
<1>1. Len(s) \in Nat /\ DOMAIN s = 1..Len(s)
  BY LenProperties
<1>2. \A i \in 1..Len(s) : s[i] \in S
  BY ElementOfSeq
<1>3. s = <<>> <=> Len(s) = 0
  BY EmptySeq
<1>4. Range(s) \subseteq S
  BY <1>1, <1>2 DEF Range
<1> QED BY <1>1, <1>2, <1>3, <1>4

(* Appending a part that is apart from the others. *)
LEMMA Appended ==
    ASSUME NEW S, NEW s \in Seq(S), NEW e \in S
    PROVE  /\ Append(s, e) \in Seq(S)
           /\ Range(Append(s, e)) = Range(s) \cup {e}
           /\ Append(s, e) # <<>> /\ (s # <<>> => Head(Append(s, e)) = Head(s))
           /\ s = <<>> => Head(Append(s, e)) = e
           /\ Separate(s) /\ (\A p \in Range(s) : Apart(p, e)) => Separate(Append(s, e))
<1> DEFINE t == Append(s, e)
<1>1. /\ t \in Seq(S) /\ Len(t) = Len(s) + 1
      /\ \A i \in 1..Len(s) : t[i] = s[i]
      /\ t[Len(s) + 1] = e
  BY AppendProperties
<1>2. /\ Len(s) \in Nat /\ DOMAIN s = 1..Len(s) /\ DOMAIN t = 1..(Len(s) + 1)
      /\ s = <<>> <=> Len(s) = 0
      /\ t = <<>> <=> Len(t) = 0
  BY <1>1, SeqFacts
<1>3. Head(t) = t[1] /\ Head(s) = s[1]
  OBVIOUS
<1> HIDE DEF t
<1>4. Range(t) = Range(s) \cup {e}
  BY <1>1, <1>2 DEF Range
<1>5. t # <<>> /\ (s # <<>> => Head(t) = Head(s)) /\ (s = <<>> => Head(t) = e)
  BY <1>1, <1>2, <1>3
<1>6. ASSUME Separate(s), \A p \in Range(s) : Apart(p, e) PROVE Separate(t)
  <2>1. \A i \in DOMAIN s : Apart(s[i], e) /\ Apart(e, s[i])
    BY <1>6 DEF Range, Apart
  <2>2. \A i \in DOMAIN t : i \in DOMAIN s \/ i = Len(s) + 1
    BY <1>2
  <2> QED BY <1>1, <1>2, <1>6, <2>1, <2>2 DEF Separate
<1> QED BY <1>1, <1>4, <1>5, <1>6 DEF t

(* Taking the first of a list. *)
LEMMA FirstTaken ==
    ASSUME NEW S, NEW s \in Seq(S), s # <<>>
    PROVE  /\ Head(s) \in S /\ Tail(s) \in Seq(S)
           /\ Range(s) = Range(Tail(s)) \cup {Head(s)}
           /\ Separate(s) => Separate(Tail(s)) /\ \A p \in Range(Tail(s)) : Apart(p, Head(s))
<1>1. /\ Head(s) \in S /\ Tail(s) \in Seq(S) /\ Len(Tail(s)) = Len(s) - 1
      /\ \A i \in 1..Len(Tail(s)) : Tail(s)[i] = s[i + 1]
  BY HeadTailProperties
<1>2. /\ Len(s) \in Nat \ {0} /\ DOMAIN s = 1..Len(s) /\ DOMAIN Tail(s) = 1..(Len(s) - 1)
      /\ Head(s) = s[1]
  BY <1>1, SeqFacts
<1> DEFINE t == Tail(s)
<1> HIDE DEF t
<1>3. \A i \in DOMAIN t : t[i] = s[i + 1] /\ i + 1 \in DOMAIN s /\ i + 1 # 1
  BY <1>1, <1>2 DEF t
<1>4. \A i \in DOMAIN s : i = 1 \/ (i - 1 \in DOMAIN t /\ s[i] = t[i - 1])
  BY <1>1, <1>2 DEF t
<1>5. 1 \in DOMAIN s
  BY <1>2
<1>6. Range(s) = Range(t) \cup {s[1]}
  BY <1>3, <1>4, <1>5 DEF Range
<1>7. ASSUME Separate(s) PROVE Separate(t) /\ \A p \in Range(t) : Apart(p, s[1])
  <2>1. \A i, j \in DOMAIN t : i # j => i + 1 # j + 1
    BY <1>2 DEF t
  <2>2. Separate(t)
    BY <1>3, <1>7, <2>1 DEF Separate
  <2> QED BY <1>3, <1>5, <1>7, <2>2 DEF Separate, Range
<1> QED BY <1>1, <1>2, <1>6, <1>7 DEF t

(* What is to be sent next, before what was. *)
LEMMA Prepended ==
    ASSUME NEW S, NEW s \in Seq(S), NEW t \in Seq(S)
    PROVE  /\ s \o t \in Seq(S) /\ Range(s \o t) = Range(s) \cup Range(t)
           /\ Separate(s) /\ Separate(t) /\ (\A p \in Range(s), q \in Range(t) : Apart(p, q))
                => Separate(s \o t)
<1> DEFINE u == s \o t
<1>1. /\ u \in Seq(S) /\ Len(u) = Len(s) + Len(t)
      /\ \A i \in 1..(Len(s) + Len(t)) : u[i] = IF i <= Len(s) THEN s[i] ELSE t[i - Len(s)]
  BY ConcatProperties
<1>2. Range(u) = Range(s) \cup Range(t)
  BY RangeConcatenation
<1>3. /\ Len(s) \in Nat /\ DOMAIN s = 1..Len(s) /\ Len(t) \in Nat /\ DOMAIN t = 1..Len(t)
      /\ DOMAIN u = 1..(Len(s) + Len(t))
  BY <1>1, SeqFacts
<1> HIDE DEF u
<1>4. ASSUME Separate(s), Separate(t), \A p \in Range(s), q \in Range(t) : Apart(p, q)
      PROVE  Separate(u)
  <2>1. \A i \in DOMAIN s, j \in DOMAIN t : Apart(s[i], t[j]) /\ Apart(t[j], s[i])
    <3>1. \A i \in DOMAIN s : s[i] \in Range(s)
      BY DEF Range
    <3>2. \A j \in DOMAIN t : t[j] \in Range(t)
      BY DEF Range
    <3>3. \A p \in Range(s), q \in Range(t) : Apart(p, q) /\ Apart(q, p)
      BY <1>4 DEF Apart
    <3> QED BY <3>1, <3>2, <3>3
  <2>2. ASSUME NEW i \in DOMAIN u
        PROVE  \/ i \in DOMAIN s /\ u[i] = s[i]
               \/ i > Len(s) /\ i - Len(s) \in DOMAIN t /\ u[i] = t[i - Len(s)]
    BY <1>1, <1>3, <2>2
  <2>3. ASSUME NEW i \in DOMAIN u, NEW j \in DOMAIN u, i # j PROVE Apart(u[i], u[j])
    <3>1. i \in Int /\ j \in Int /\ Len(s) \in Int
      BY <1>3
    <3>2. i - Len(s) # j - Len(s)
      BY <2>3, <3>1
    <3> QED BY <1>4, <2>1, <2>2, <2>3, <3>2 DEF Separate
  <2> QED BY <2>3 DEF Separate
<1> QED BY <1>1, <1>2, <1>4 DEF u

(* A list of two. *)
LEMMA Pair ==
    ASSUME NEW S, NEW f \in S, NEW g \in S
    PROVE  <<f, g>> \in Seq(S) /\ Range(<<f, g>>) = {f, g} /\ DOMAIN <<f, g>> = {1, 2}
<1>1. <<f, g>> \in Seq(S) /\ Len(<<f, g>>) = 2 /\ <<f, g>>[1] = f /\ <<f, g>>[2] = g
  OBVIOUS
<1>2. DOMAIN <<f, g>> = {1, 2}
  OBVIOUS
<1> QED BY <1>1, <1>2 DEF Range

(* A piece of a part: at least one operation of it, and none twice. *)
LEMMA Piece ==
    ASSUME NEW w \in Part, NEW m \in 1..Len(w), NEW n \in m..Len(w)
    PROVE  /\ SubSeq(w, m, n) \in Part
           /\ Range(SubSeq(w, m, n)) = {w[i] : i \in m..n}
<1> DEFINE f == SubSeq(w, m, n)
<1>1. /\ Len(w) \in Nat /\ DOMAIN w = 1..Len(w) /\ \A i \in 1..Len(w) : w[i] \in Nat
      /\ IsInjective(w)
  BY SeqFacts DEF Part
<1>2. m \in Int /\ n \in Int /\ m <= n /\ \A i \in m..n : w[i] \in Nat /\ i \in 1..Len(w)
  BY <1>1
<1>3. /\ f \in Seq(Nat) /\ Len(f) = (IF m <= n THEN n - m + 1 ELSE 0)
      /\ \A i \in 1..(n - m + 1) : f[i] = w[m + i - 1]
  BY <1>2, SubSeqProperties
<1> HIDE DEF f
<1>4. DOMAIN f = 1..(n - m + 1) /\ f # <<>>
  BY <1>2, <1>3, SeqFacts
<1>5. \A i \in DOMAIN f : m + i - 1 \in m..n /\ m + i - 1 \in DOMAIN w /\ i \in Int
  BY <1>1, <1>2, <1>4
<1>6. \A i, j \in DOMAIN f : f[i] = f[j] => m + i - 1 = m + j - 1
  BY <1>1, <1>3, <1>4, <1>5 DEF IsInjective
<1>7. IsInjective(f)
  BY <1>2, <1>5, <1>6 DEF IsInjective
<1>8. \A i \in m..n : i - m + 1 \in DOMAIN f /\ f[i - m + 1] = w[i]
  <2> TAKE i \in m..n
  <2>1. i - m + 1 \in 1..(n - m + 1) /\ m + (i - m + 1) - 1 = i
    BY <1>2
  <2> QED BY <1>3, <1>4, <2>1
<1>9. Range(f) = {w[i] : i \in m..n}
  <2>1. \A i \in DOMAIN f : f[i] \in {w[k] : k \in m..n}
    BY <1>3, <1>4, <1>5
  <2>2. \A i \in m..n : w[i] \in Range(f)
    BY <1>8 DEF Range
  <2> QED BY <2>1, <2>2 DEF Range
<1> QED BY <1>3, <1>4, <1>7, <1>9 DEF Part, f

(* send: the halves of a part are parts, apart from each other and each
   less than the whole. *)
LEMMA HalvesAreParts ==
    ASSUME NEW w \in Part, Len(w) > 1
    PROVE  /\ Halves(w) \in Seq(Part) /\ Separate(Halves(w))
           /\ \A p \in Range(Halves(w)) :
                Range(p) \subseteq Range(w) /\ ~(Range(w) \subseteq Range(p))
<1> DEFINE n == Len(w)
           h == n \div 2
           f == SubSeq(w, 1, h)
           g == SubSeq(w, h + 1, n)
<1>1. n \in Nat /\ DOMAIN w = 1..n /\ IsInjective(w)
  BY SeqFacts DEF Part
<1>2. h \in 1..(n - 1)
  BY <1>1
<1> HIDE DEF n, h
<1>3. 1 \in 1..n /\ h \in 1..n /\ h + 1 \in 1..n /\ n \in (h + 1)..n
  BY <1>1, <1>2
<1>4. f \in Part /\ Range(f) = {w[i] : i \in 1..h}
  BY <1>3, Piece DEF n
<1>5. g \in Part /\ Range(g) = {w[i] : i \in (h + 1)..n}
  BY <1>3, Piece DEF n
<1> HIDE DEF f, g
<1>6. \A i \in 1..h, j \in (h + 1)..n : w[i] # w[j]
  BY <1>1, <1>2 DEF IsInjective
<1>7. Apart(f, g) /\ Apart(g, f)
  BY <1>4, <1>5, <1>6 DEF Apart
<1>8. \A i \in 1..n : i \in 1..h \/ i \in (h + 1)..n
  BY <1>1, <1>2
<1>9. 1..h \subseteq 1..n /\ (h + 1)..n \subseteq 1..n /\ 1 \in 1..h
  BY <1>1, <1>2
<1>10. Range(f) \subseteq Range(w) /\ Range(g) \subseteq Range(w)
  BY <1>1, <1>4, <1>5, <1>9 DEF Range
<1>11. w[1] \in Range(f) /\ w[n] \in Range(g)
  BY <1>3, <1>4, <1>5, <1>9
<1>12. ~(Range(w) \subseteq Range(f)) /\ ~(Range(w) \subseteq Range(g))
  BY <1>7, <1>10, <1>11 DEF Apart
<1>13. Halves(w) = <<f, g>>
  BY DEF Halves, f, g, h, n
<1>14. <<f, g>> \in Seq(Part) /\ Range(<<f, g>>) = {f, g} /\ DOMAIN <<f, g>> = {1, 2}
  BY <1>4, <1>5, Pair
<1>15. Separate(<<f, g>>)
  BY <1>7, <1>14 DEF Separate
<1> QED BY <1>10, <1>12, <1>13, <1>14, <1>15

(* A part has an operation, so it is not apart from itself. *)
LEMMA NotApartFromItself ==
    ASSUME NEW p \in Part, NEW q, Apart(p, q) \/ Apart(q, p)
    PROVE  p # q /\ ~(Range(p) \subseteq Range(q))
<1>1. Len(p) \in Nat \ {0} /\ DOMAIN p = 1..Len(p)
  BY SeqFacts DEF Part
<1>2. 1 \in DOMAIN p
  BY <1>1
<1> QED BY <1>2 DEF Apart, Range

LEMMA LeastNat ==
    ASSUME NEW S \in SUBSET Nat, S # {}
    PROVE  \E m \in S : \A k \in S : m <= k
<1>1. PICK m \in S : \A k \in S : ~ (<<k, m>> \in OpToRel(<, Nat))
  BY NatLessThanWellFounded, WFMin
<1>2. \A k \in S : ~ (k < m)
  BY <1>1 DEF OpToRel
<1>3. m \in Nat /\ \A k \in S : k \in Nat
  OBVIOUS
<1> QED BY <1>2, <1>3

(* The node has a nonce to give, and it is neither mined nor held: among one
   more than it holds, one is free. *)
LEMMA NonceGiven ==
    ASSUME Types
    PROVE  /\ PendingNonce \in Nat /\ PendingNonce > mined
           /\ \A t \in mempool : t.nonce # PendingNonce
<1> DEFINE c == Cardinality(mempool)
           N == mined + 1 .. mined + c + 1
           Free(n) == \A t \in mempool : t.nonce # n
           F == {n \in N : Free(n)}
<1>1. mined \in Nat /\ c \in Nat /\ \A t \in mempool : t.nonce \in Nat
  BY FS_CardinalityType DEF Types
<1>2. F # {}
  <2> SUFFICES ASSUME \A n \in N : \E t \in mempool : t.nonce = n PROVE FALSE
    OBVIOUS
  <2> DEFINE holder == [n \in N |-> CHOOSE t \in mempool : t.nonce = n]
  <2>1. \A n \in N : holder[n] \in mempool /\ holder[n].nonce = n
    OBVIOUS
  <2> HIDE DEF holder
  <2>2. holder \in [N -> mempool]
    BY <2>1 DEF holder
  <2>3. holder \in Injection(N, mempool)
    BY <2>1, <2>2 DEF Injection, IsInjective
  <2>4. IsFiniteSet(mempool)
    BY DEF Types
  <2>5. Cardinality(N) <= c
    BY <2>3, <2>4, FS_Injection
  <2>6. Cardinality(N) = c + 1
    BY <1>1, FS_Interval
  <2> QED BY <1>1, <2>5, <2>6
<1>3. F \in SUBSET Nat
  BY <1>1
<1>4. PICK n \in F : \A k \in F : n <= k
  BY <1>2, <1>3, LeastNat
<1>5. n \in N /\ Free(n) /\ \A k \in mined + 1 .. n - 1 : \E t \in mempool : t.nonce = k
  <2>1. n \in N /\ Free(n)
    BY <1>4
  <2>2. ASSUME NEW k \in mined + 1 .. n - 1 PROVE k \in N /\ ~(n <= k)
    BY <1>1, <2>1
  <2> QED BY <1>4, <2>1, <2>2
<1>6. \E m \in mined + 1 .. mined + Cardinality(mempool) + 1 :
        /\ \A t \in mempool : t.nonce # m
        /\ \A k \in mined + 1 .. m - 1 : \E t \in mempool : t.nonce = k
  BY <1>5
<1>7. /\ PendingNonce \in mined + 1 .. mined + Cardinality(mempool) + 1
      /\ \A t \in mempool : t.nonce # PendingNonce
  BY <1>6 DEF PendingNonce
<1> QED BY <1>1, <1>7

-----------------------------------------------------------------------------
(* The parts in their places are parts. *)
LEMMA PartsInPlace ==
    ASSUME Types
    PROVE  /\ Range(queue) \subseteq Part /\ Range(landed) \subseteq Part
           /\ \A c \in Caller : Range(todo[c]) \subseteq Part
           /\ \A t \in mempool : t.part \in Part /\ t.nonce \in Nat
           /\ \A r \in Reports : r.part \in Part /\ r.result \in Result
           /\ \A c \in Caller : waiting[c] # <<>> => waiting[c] \in Part
           /\ <<>> \notin Part
<1>1. Range(queue) \subseteq Part /\ Range(landed) \subseteq Part
  BY SeqFacts DEF Types
<1>2. \A c \in Caller : Range(todo[c]) \subseteq Part
  BY SeqFacts DEF Types
<1>3. \A c \in Caller : Range(reports[c]) \subseteq [part: Part, result: Result]
  BY SeqFacts DEF Types
<1>4. \A r \in Reports : r.part \in Part /\ r.result \in Result
  BY <1>3 DEF Reports
<1> QED BY <1>1, <1>2, <1>4 DEF Types, Part

(* Two parts of the queue are apart. *)
LEMMA QueueApart ==
    ASSUME Separate(queue)
    PROVE  \A p, q \in Range(queue) : p # q => Apart(p, q)
  BY DEF Separate, Range

LEMMA ApartSym == \A p, q : Apart(p, q) => Apart(q, p)
  BY DEF Apart

(* The write in progress is the queue's first. *)
LEMMA InProgress ==
    ASSUME Types, NEW a \in active
    PROVE  /\ a \in Writing /\ active = {a} /\ queue # <<>>
           /\ a.part = Head(queue) /\ a.part \in Part /\ a.part \in Range(queue)
<1>1. a \in Writing /\ active = {a} /\ queue # <<>> /\ a.part = Head(queue)
  BY DEF Types
<1>2. queue \in Seq(Part)
  BY DEF Types
<1>3. Head(queue) \in Part /\ Head(queue) \in Range(queue)
  BY <1>1, <1>2, FirstTaken
<1> QED BY <1>1, <1>3

LEMMA TodoStays ==
    ASSUME TodoApart, todo' = todo, Given' \subseteq Given
    PROVE  TodoApart'
  BY DEF TodoApart

LEMMA InitWInv == Init => WInv
<1> SUFFICES ASSUME Init PROVE WInv
  OBVIOUS
<1>1. <<>> \in Seq(Part) /\ <<>> \in Seq([part: Part, result: Result]) /\ Range(<<>>) = {}
      /\ Separate(<<>>)
  <2>1. DOMAIN <<>> = {}
    OBVIOUS
  <2> QED BY <2>1 DEF Range, Separate
<1>2. \A c \in Caller : BatchOf[c] \in Seq(Nat) /\ IsInjective(BatchOf[c])
  BY SidecarAssumption
<1>3. ASSUME NEW c \in Caller
      PROVE  /\ todo[c] \in Seq(Part) /\ Separate(todo[c])
             /\ \A p \in Range(todo[c]) : p = BatchOf[c]
  <2>1. CASE BatchOf[c] = <<>>
    <3>1. todo[c] = <<>>
      BY <2>1 DEF Init
    <3> QED BY <1>1, <3>1
  <2>2. CASE BatchOf[c] # <<>>
    <3>1. todo[c] = <<BatchOf[c]>> /\ BatchOf[c] \in Part
      BY <1>2, <2>2 DEF Init, Part
    <3>2. \A p \in Part : <<p>> \in Seq(Part) /\ DOMAIN <<p>> = {1} /\ <<p>>[1] = p
      OBVIOUS
    <3> QED BY <3>1, <3>2 DEF Separate, Range
  <2> QED BY <2>1, <2>2
<1>4. Types
  <2>1. todo \in [Caller -> Seq(Part)]
    BY <1>3 DEF Init
  <2>2. IsFiniteSet({})
    BY FS_EmptySet
  <2> QED BY <1>1, <2>1, <2>2 DEF Init, Types
<1>5. \A c \in Caller : Range(reports[c]) = {}
  BY <1>1 DEF Init
<1>6. Reports = {} /\ Given = {}
  BY <1>1, <1>5 DEF Init, Reports, Given
<1>7. TodoApart
  <2>1. \A c, d \in Caller : d # c => Apart(BatchOf[c], BatchOf[d])
    BY SidecarAssumption DEF Apart
  <2>2. ASSUME NEW c \in Caller, NEW d \in Caller, d # c,
               NEW p \in Range(todo[c]), NEW q \in Range(todo[d])
        PROVE  Apart(p, q)
    BY <1>3, <2>1, <2>2
  <2> QED BY <1>3, <1>6, <2>2 DEF TodoApart
<1>8. SentApart /\ Separate(landed)
  BY <1>1 DEF Init, SentApart
<1>9. WaitsForQueued /\ ToldIsOver /\ ReportsTrue /\ NonceIsFree /\ OneNonceEach
  BY <1>6 DEF Init, WaitsForQueued, ToldIsOver, ReportsTrue, NonceIsFree,
              OneNonceEach
<1> QED BY <1>4, <1>7, <1>8, <1>9 DEF WInv

(* A write begins: its nonce is free, and nothing of it was sent. *)
LEMMA BeginKeeps ==
    ASSUME WInv, NEW w \in Range(queue), Begin(w)
    PROVE  WInv'
<1> DEFINE b == [part |-> w, nonce |-> PendingNonce, at |-> "signed", waited |-> 0]
<1>0. Types
  BY DEF WInv
<1>1. /\ active = {} /\ w = Head(queue) /\ active' = {b}
      /\ UNCHANGED <<todo, waiting, age, reports, queue, mempool, mined, landed, unheard>>
  BY DEF Begin, Turn, callerVars, nodeVars
<1>2. w \in Part /\ queue # <<>>
  <2>1. Range(<<>>) = {}
    BY DEF Range
  <2> QED BY <1>0, <2>1, PartsInPlace
<1>3. /\ PendingNonce \in Nat /\ PendingNonce > mined
      /\ \A t \in mempool : t.nonce # PendingNonce
  BY <1>0, NonceGiven
<1>4. b \in Writing
  BY <1>2, <1>3, SidecarAssumption DEF Writing
<1>5. Types'
  BY <1>0, <1>1, <1>2, <1>4 DEF Types
<1>6. NonceIsFree' /\ OneNonceEach'
  BY <1>1, <1>3 DEF WInv, NonceIsFree, OneNonceEach
<1>7. Reports' = Reports /\ Given' = Given
  BY <1>1 DEF Reports, Given
<1>8. TodoApart'
  BY <1>1, <1>7, TodoStays DEF WInv
<1>9. SentApart' /\ Separate(landed)'
  BY <1>1 DEF WInv, SentApart, Separate
<1>10. WaitsForQueued' /\ ToldIsOver' /\ ReportsTrue'
  BY <1>1, <1>7 DEF WInv, WaitsForQueued, ToldIsOver, ReportsTrue, IsTrue, Held
<1> QED BY <1>5, <1>6, <1>8, <1>9, <1>10 DEF WInv

(* What the write in progress enters into the mempool. *)
Tx(a) == [part |-> a.part, nonce |-> a.nonce]

(* A signed write is not in the mempool, has not landed, and nobody was told
   of it. *)
LEMMA SignedIsNew ==
    ASSUME WInv, NEW a \in active, a.at \in {"signed", "reverted"}
    PROVE  /\ \A t \in mempool : Apart(a.part, t.part)
           /\ \A q \in Range(landed) : Apart(a.part, q)
           /\ \A p \in Range(queue), t \in mempool : Apart(p, t.part)
           /\ \A p \in Range(queue), q \in Range(landed) : Apart(p, q)
<1>1. Types /\ active = {a} /\ a.part \in Range(queue)
  BY InProgress DEF WInv
<1> QED BY <1>1 DEF WInv, SentApart

LEMMA SendKeeps ==
    ASSUME WInv, NEW a \in active, Send(a)
    PROVE  WInv'
<1> DEFINE b == [a EXCEPT !.at = "sent"]
           t0 == Tx(a)
<1>0. /\ Types /\ a \in Writing /\ active = {a} /\ queue # <<>> /\ a.part = Head(queue)
      /\ a.part \in Part /\ a.part \in Range(queue) /\ a.at = "signed"
  BY InProgress DEF WInv, Send
<1>1. /\ active' = {b} /\ mempool' = mempool \cup {t0}
      /\ UNCHANGED <<todo, waiting, age, reports, queue, mined, landed, unheard>>
  BY <1>0 DEF Send, Entered, Tx, callerVars
<1>2. b \in Writing /\ b.part = a.part /\ b.at = "sent" /\ b.waited = a.waited
  BY <1>0 DEF Writing
<1>3. t0 \in [part: Part, nonce: Nat] /\ t0.part = a.part /\ t0.nonce = a.nonce
  BY <1>0 DEF Writing, Tx
<1> HIDE DEF b, t0
<1>4. IsFiniteSet(mempool')
  BY <1>0, <1>1, FS_AddElement DEF Types
<1>5. Types'
  BY <1>0, <1>1, <1>2, <1>3, <1>4 DEF Types
<1>6. NonceIsFree' /\ OneNonceEach'
  <2>1. a.nonce > mined /\ \A t \in mempool : t.nonce # a.nonce
    BY <1>0 DEF WInv, NonceIsFree
  <2> QED BY <1>1, <1>2, <1>3, <2>1 DEF WInv, NonceIsFree, OneNonceEach
<1>7. Reports' = Reports /\ Given' \subseteq Given
  BY <1>0, <1>1, <1>3 DEF Reports, Given
<1>8. TodoApart'
  BY <1>1, <1>7, TodoStays DEF WInv
<1>9. /\ \A t \in mempool : Apart(a.part, t.part) /\ Apart(t.part, a.part)
      /\ \A q \in Range(landed) : Apart(a.part, q)
      /\ \A p \in Range(queue), t \in mempool : Apart(p, t.part)
      /\ \A p \in Range(queue), q \in Range(landed) : Apart(p, q)
      /\ \A p \in Range(queue) : p # a.part => Apart(p, a.part)
  BY <1>0, SignedIsNew, QueueApart, ApartSym DEF WInv, SentApart
<1>10. SentApart'
  <2>1. \A t \in mempool' : t \in mempool \/ (t = t0 /\ t.part = a.part)
    BY <1>1, <1>3
  <2>2. \A t \in mempool' : /\ \A u \in mempool' : u # t => Apart(t.part, u.part)
                            /\ \A p \in Range(landed) : Apart(t.part, p)
    BY <1>9, <2>1 DEF WInv, SentApart
  <2>3. ASSUME NEW p \in Range(queue), NEW t \in mempool'
        PROVE  Apart(p, t.part) \/ (p = t.part /\ \E d \in active' : d.part = p /\ d.at = "sent")
    BY <1>1, <1>2, <1>9, <2>1, <2>3
  <2>4. \A d \in active' : d.at # "landed"
    BY <1>1, <1>2
  <2> QED BY <1>1, <1>9, <2>2, <2>3, <2>4 DEF WInv, SentApart, Separate
<1>11. WaitsForQueued' /\ ToldIsOver'
  BY <1>1, <1>7 DEF WInv, WaitsForQueued, ToldIsOver
<1>12. ReportsTrue'
  <2>1. ASSUME NEW r \in Reports, r.result \in {"refused", "failed", "too_large"}
        PROVE  r.part # a.part
    <3>1. Apart(r.part, a.part)
      BY <1>0, <2>1 DEF WInv, ToldIsOver
    <3> QED BY <1>0, <3>1, NotApartFromItself
  <2>2. \A r \in Reports : Held(r.part)' => Held(r.part) \/ r.part = a.part
    BY <1>1, <1>3 DEF Held
  <2> QED BY <1>1, <1>7, <2>1, <2>2 DEF WInv, ReportsTrue, IsTrue
<1>14. Separate(landed)'
  BY <1>1 DEF WInv, Separate
<1> QED BY <1>5, <1>6, <1>8, <1>10, <1>11, <1>12, <1>14 DEF WInv

(* A transaction is mined: what it brought is not queued, or is the write in
   progress, which sees it. *)
LEMMA MineKeeps ==
    ASSUME WInv, Mine
    PROVE  WInv'
<1>1. PICK t \in mempool :
        /\ t.nonce = mined + 1 /\ mined' = t.nonce /\ mempool' = mempool \ {t}
        /\ \/ landed' = Append(landed, t.part) /\ active' = Watched(t.part, "landed")
           \/ landed' = landed /\ active' = Watched(t.part, "reverted")
        /\ UNCHANGED <<todo, waiting, age, reports, queue, unheard>>
  BY DEF Mine, callerVars
<1>2. Types /\ t.part \in Part /\ t.nonce \in Nat /\ mined \in Nat /\ landed \in Seq(Part)
  BY PartsInPlace DEF WInv, Types
<1> DEFINE fate == IF landed' = landed THEN "reverted" ELSE "landed"
<1>3. Append(landed, t.part) # landed
  BY <1>2, AppendProperties, SeqFacts
<1>4. /\ fate \in {"landed", "reverted"} /\ active' = Watched(t.part, fate)
      /\ landed' = (IF fate = "landed" THEN Append(landed, t.part) ELSE landed)
  BY <1>1, <1>3
<1> HIDE DEF fate
<1>5. /\ \A u \in mempool : u # t => Apart(t.part, u.part) /\ Apart(u.part, t.part)
      /\ \A q \in Range(landed) : Apart(t.part, q) /\ Apart(q, t.part)
  BY ApartSym DEF WInv, SentApart
<1>6. /\ landed' \in Seq(Part) /\ Separate(landed') /\ Range(landed) \subseteq Range(landed')
      /\ Range(landed') \subseteq Range(landed) \cup {t.part}
      /\ fate = "landed" => t.part \in Range(landed')
  BY <1>2, <1>4, <1>5, Appended DEF WInv
<1>7. \A a \in active : active' = {IF a.part = t.part /\ a.at = "sent"
                                   THEN [a EXCEPT !.at = fate] ELSE a}
  BY <1>2, <1>4, InProgress DEF Watched
<1>8. active = {} => active' = {}
  BY <1>4 DEF Watched
<1>9. ASSUME NEW a \in active
      PROVE  \E b \in Writing : /\ active' = {b} /\ b.part = a.part /\ b.nonce = a.nonce
                                /\ b.waited = a.waited
                                /\ IF a.part = t.part /\ a.at = "sent"
                                   THEN b.at = fate ELSE b.at = a.at
  <2>1. a \in Writing
    BY <1>2, InProgress
  <2>2. CASE a.part = t.part /\ a.at = "sent"
    <3>1. [a EXCEPT !.at = fate] \in Writing
      BY <1>4, <2>1 DEF Writing
    <3>2. active' = {[a EXCEPT !.at = fate]}
      BY <1>7, <2>2
    <3> QED BY <2>1, <2>2, <3>1, <3>2 DEF Writing
  <2>3. CASE ~(a.part = t.part /\ a.at = "sent")
    BY <1>7, <2>1, <2>3
  <2> QED BY <2>2, <2>3
<1>10. Types'
  <2>1. IsFiniteSet(mempool')
    BY <1>1, <1>2, FS_RemoveElement DEF Types
  <2>2. active' = {} \/ \E b \in Writing : active' = {b} /\ queue # <<>> /\ b.part = Head(queue)
    BY <1>2, <1>8, <1>9, InProgress
  <2> QED BY <1>1, <1>2, <1>6, <2>1, <2>2 DEF Types
<1>11. NonceIsFree' /\ OneNonceEach'
  <2>1. ASSUME NEW b \in active', b.at = "signed"
        PROVE  b.nonce > mined' /\ \A u \in mempool' : u.nonce # b.nonce
    <3>1. PICK a \in active : a \in Writing /\ a.nonce = b.nonce /\ a.at = "signed"
      BY <1>2, <1>4, <1>8, <1>9, <2>1, InProgress
    <3>2. a.nonce > mined /\ \A u \in mempool : u.nonce # a.nonce
      BY <3>1 DEF WInv, NonceIsFree
    <3>3. a.nonce \in Nat
      BY <3>1 DEF Writing
    <3> QED BY <1>1, <1>2, <3>1, <3>2, <3>3
  <2>2. \A u \in mempool : u.nonce \in Nat
    BY <1>2, PartsInPlace
  <2>3. \A u \in mempool' : u.nonce > mined'
    BY <1>1, <1>2, <2>2 DEF WInv, OneNonceEach
  <2> QED BY <1>1, <2>1, <2>3 DEF WInv, NonceIsFree, OneNonceEach
<1>12. Reports' = Reports /\ Given' \subseteq Given
  <2>1. Reports' = Reports
    BY <1>1 DEF Reports
  <2>2. {u.part : u \in mempool'} \subseteq {u.part : u \in mempool}
    BY <1>1
  <2> QED BY <1>1, <1>6, <2>1, <2>2 DEF Given
<1>13. TodoApart'
  BY <1>1, <1>12, TodoStays DEF WInv
<1>14. SentApart'
  <2>1. \A u \in mempool' : /\ \A v \in mempool' : v # u => Apart(u.part, v.part)
                            /\ \A p \in Range(landed') : Apart(u.part, p)
    BY <1>1, <1>5, <1>6 DEF WInv, SentApart
  <2>2. ASSUME NEW p \in Range(queue), NEW u \in mempool'
        PROVE  Apart(p, u.part) \/ (p = u.part /\ \E b \in active' : b.part = p /\ b.at = "sent")
    <3>1. CASE Apart(p, u.part)
      BY <3>1
    <3>2. ASSUME NEW a \in active, p = u.part, a.part = p, a.at = "sent"
          PROVE  \E b \in active' : b.part = p /\ b.at = "sent"
      <4>1. Apart(u.part, t.part) /\ u.part \in Part
        BY <1>1, <1>2, <1>5, PartsInPlace
      <4>2. u.part # t.part
        BY <4>1, NotApartFromItself
      <4> QED BY <1>9, <3>2, <4>2
    <3> QED BY <1>1, <3>1, <3>2 DEF WInv, SentApart
  <2>3. ASSUME NEW p \in Range(queue), NEW q \in Range(landed')
        PROVE  Apart(p, q) \/ (p = q /\ \E b \in active' : b.part = p /\ b.at = "landed")
    <3>1. CASE q \in Range(landed)
      <4>1. ASSUME NEW a \in active, p = q, a.part = p, a.at = "landed"
            PROVE  \E b \in active' : b.part = p /\ b.at = "landed"
        BY <1>9, <4>1
      <4> QED BY <3>1, <4>1 DEF WInv, SentApart
    <3>2. CASE q \notin Range(landed)
      <4>1. q = t.part /\ fate = "landed"
        BY <1>4, <1>6, <3>2
      <4>2. ASSUME NEW a \in active, p = q, a.part = p, a.at = "sent"
            PROVE  \E b \in active' : b.part = p /\ b.at = "landed"
        BY <1>9, <4>1, <4>2
      <4> QED BY <4>1, <4>2 DEF WInv, SentApart
    <3> QED BY <3>1, <3>2
  <2>4. ASSUME NEW b \in active', b.at = "landed" PROVE b.part \in Range(landed')
    <3>1. PICK a \in active : /\ b.part = a.part
                              /\ IF a.part = t.part /\ a.at = "sent"
                                 THEN b.at = fate ELSE b.at = a.at
      BY <1>8, <1>9
    <3> QED BY <1>6, <2>4, <3>1 DEF WInv, SentApart
  <2> QED BY <1>1, <2>1, <2>2, <2>3, <2>4 DEF WInv, SentApart, Separate
<1>15. WaitsForQueued' /\ ToldIsOver'
  BY <1>1, <1>12 DEF WInv, WaitsForQueued, ToldIsOver
<1>16. ReportsTrue'
  <2>1. \A r \in Reports : Held(r.part)' => Held(r.part)
    BY <1>1 DEF Held
  <2>2. \A r \in Reports : ~Held(r.part) => r.part # t.part
    BY DEF Held
  <2> QED BY <1>1, <1>6, <1>12, <2>1, <2>2 DEF WInv, ReportsTrue, IsTrue
<1> QED BY <1>6, <1>10, <1>11, <1>13, <1>14, <1>15, <1>16 DEF WInv

(* The node forgets. *)
LEMMA ForgetKeeps ==
    ASSUME WInv, Forget
    PROVE  WInv'
<1>1. /\ mempool' = {}
      /\ UNCHANGED <<todo, waiting, age, reports, queue, active, mined, landed, unheard>>
  BY DEF Forget, callerVars
<1>2. Types'
  BY <1>1, FS_EmptySet DEF WInv, Types
<1>3. Reports' = Reports /\ Given' \subseteq Given
  BY <1>1 DEF Reports, Given
<1>4. TodoApart'
  BY <1>1, <1>3, TodoStays DEF WInv
<1>5. SentApart' /\ Separate(landed)' /\ NonceIsFree' /\ OneNonceEach'
  BY <1>1 DEF WInv, SentApart, Separate, NonceIsFree, OneNonceEach
<1>6. WaitsForQueued' /\ ToldIsOver' /\ ReportsTrue'
  BY <1>1, <1>3 DEF WInv, WaitsForQueued, ToldIsOver, ReportsTrue, IsTrue, Held
<1> QED BY <1>2, <1>4, <1>5, <1>6 DEF WInv

(* Time passes: the write in progress stays what it is. *)
LEMMA TickKeeps ==
    ASSUME WInv, Tick
    PROVE  WInv'
<1>1. /\ age' = [c \in Caller |-> IF waiting[c] # <<>> THEN age[c] + 1 ELSE age[c]]
      /\ UNCHANGED <<todo, waiting, reports, queue, mempool, mined, landed, unheard>>
  BY DEF Tick, nodeVars
<1>2. Types
  BY DEF WInv
<1>3. age' \in [Caller -> Nat]
  BY <1>1, <1>2 DEF Types
<1>4. \/ active = {} /\ active' = {}
      \/ \E a, b \in Writing : /\ active = {a} /\ active' = {b} /\ queue # <<>>
                              /\ a.part = Head(queue) /\ b.part = a.part
                              /\ b.at = a.at /\ b.nonce = a.nonce
  <2>1. CASE active = {}
    BY <2>1 DEF Tick
  <2>2. ASSUME NEW a \in active
        PROVE  \E b \in Writing : active' = {b} /\ b.part = a.part /\ b.at = a.at
                                  /\ b.nonce = a.nonce
    <3> DEFINE b == IF a.at = "signed" THEN a ELSE [a EXCEPT !.waited = @ + 1]
    <3>1. a \in Writing /\ active = {a} /\ a.waited < ReceiptWait
      BY <1>2, InProgress DEF Tick
    <3>2. active' = {b}
      BY <3>1 DEF Tick
    <3>3. b \in Writing /\ b.part = a.part /\ b.at = a.at /\ b.nonce = a.nonce
      BY <3>1, SidecarAssumption DEF Writing
    <3> QED BY <3>2, <3>3
  <2> QED BY <1>2, <2>1, <2>2, InProgress
<1>5. Types'
  BY <1>1, <1>2, <1>3, <1>4 DEF Types
<1>6. Reports' = Reports /\ Given' = Given
  BY <1>1 DEF Reports, Given
<1>7. TodoApart'
  BY <1>1, <1>6, TodoStays DEF WInv
<1>8. SentApart' /\ Separate(landed)' /\ NonceIsFree' /\ OneNonceEach'
  BY <1>1, <1>4 DEF WInv, SentApart, Separate, NonceIsFree, OneNonceEach
<1>9. WaitsForQueued' /\ ToldIsOver' /\ ReportsTrue'
  BY <1>1, <1>6 DEF WInv, WaitsForQueued, ToldIsOver, ReportsTrue, IsTrue, Held
<1> QED BY <1>5, <1>7, <1>8, <1>9 DEF WInv

(* One caller's report more. *)
LEMMA Reported ==
    ASSUME Types, NEW c \in Caller, NEW r \in [part: Part, result: Result],
           reports' = [reports EXCEPT ![c] = Append(@, r)]
    PROVE  /\ reports' \in [Caller -> Seq([part: Part, result: Result])]
           /\ Reports' = Reports \cup {r}
<1>1. \A d \in Caller : reports[d] \in Seq([part: Part, result: Result])
  BY DEF Types
<1>2. /\ Append(reports[c], r) \in Seq([part: Part, result: Result])
      /\ Range(Append(reports[c], r)) = Range(reports[c]) \cup {r}
  <2> DEFINE S == [part: Part, result: Result]
  <2>1. reports[c] \in Seq(S) /\ r \in S
    BY <1>1
  <2> HIDE DEF S
  <2>2. Append(reports[c], r) \in Seq(S) /\ Range(Append(reports[c], r)) = Range(reports[c]) \cup {r}
    BY <2>1, Appended
  <2> QED BY <2>2 DEF S
<1>3. /\ reports'[c] = Append(reports[c], r)
      /\ \A d \in Caller \ {c} : reports'[d] = reports[d]
  BY DEF Types
<1>4. reports' \in [Caller -> Seq([part: Part, result: Result])]
  BY <1>1, <1>2 DEF Types
<1>5. Reports' = Reports \cup {r}
  BY <1>2, <1>3 DEF Reports
<1> QED BY <1>4, <1>5

(* The part a caller sends next was never given away. *)
LEMMA NextPart ==
    ASSUME WInv, NEW c \in Caller, todo[c] # <<>>
    PROVE  LET part == Head(todo[c]) IN
           /\ part \in Part /\ part \in Range(todo[c])
           /\ Tail(todo[c]) \in Seq(Part) /\ Separate(Tail(todo[c]))
           /\ Range(todo[c]) = Range(Tail(todo[c])) \cup {part}
           /\ \A p \in Range(Tail(todo[c])) : Apart(p, part)
           /\ \A q \in Given : Apart(part, q) /\ Apart(q, part)
           /\ \A d \in Caller : d # c => \A q \in Range(todo[d]) : Apart(part, q) /\ Apart(q, part)
<1>1. todo[c] \in Seq(Part) /\ Separate(todo[c])
  BY DEF WInv, Types, TodoApart
<1>2. /\ Head(todo[c]) \in Part /\ Tail(todo[c]) \in Seq(Part)
      /\ Range(todo[c]) = Range(Tail(todo[c])) \cup {Head(todo[c])}
      /\ Separate(Tail(todo[c])) /\ \A p \in Range(Tail(todo[c])) : Apart(p, Head(todo[c]))
  BY <1>1, FirstTaken
<1> QED BY <1>2, ApartSym DEF WInv, TodoApart

(* A part is posted. *)
LEMMA PostKeeps ==
    ASSUME WInv, NEW c \in Caller, Post(c)
    PROVE  WInv'
<1> DEFINE w == Head(todo[c])
<1>1. /\ waiting[c] = <<>> /\ todo[c] # <<>>
      /\ waiting' = [waiting EXCEPT ![c] = w] /\ todo' = [todo EXCEPT ![c] = Tail(todo[c])]
      /\ age' = [age EXCEPT ![c] = 0] /\ queue' = Append(queue, w)
      /\ UNCHANGED <<reports, active, mempool, mined, landed, unheard>>
  BY DEF Post, nodeVars
<1>2. /\ w \in Part /\ w \in Range(todo[c])
      /\ Tail(todo[c]) \in Seq(Part) /\ Separate(Tail(todo[c]))
      /\ Range(todo[c]) = Range(Tail(todo[c])) \cup {w}
      /\ \A p \in Range(Tail(todo[c])) : Apart(p, w)
      /\ \A q \in Given : Apart(w, q) /\ Apart(q, w)
      /\ \A d \in Caller : d # c => \A q \in Range(todo[d]) : Apart(w, q) /\ Apart(q, w)
  BY <1>1, NextPart
<1> HIDE DEF w
<1>3. Types
  BY DEF WInv
<1>4. /\ todo'[c] = Tail(todo[c]) /\ waiting'[c] = w /\ age'[c] = 0
      /\ \A d \in Caller \ {c} :
            todo'[d] = todo[d] /\ waiting'[d] = waiting[d] /\ age'[d] = age[d]
  BY <1>1, <1>3 DEF Types
<1>5. /\ queue' \in Seq(Part) /\ Range(queue') = Range(queue) \cup {w} /\ queue' # <<>>
      /\ (queue # <<>> => Head(queue') = Head(queue)) /\ (queue = <<>> => Head(queue') = w)
      /\ Separate(queue')
  <2>1. queue \in Seq(Part) /\ Separate(queue) /\ \A p \in Range(queue) : Apart(p, w)
    BY <1>2, <1>3 DEF WInv, SentApart, Types, Given
  <2> QED BY <1>1, <1>2, <2>1, Appended
<1>6. queue = <<>> => active = {} /\ \A d \in Caller : waiting[d] = <<>>
  <2>1. Range(<<>>) = {}
    BY DEF Range
  <2> QED BY <1>3, <2>1, InProgress DEF WInv, WaitsForQueued
<1>7. Types'
  <2>1. todo' \in [Caller -> Seq(Part)] /\ waiting' \in [Caller -> Part \cup {<<>>}]
    BY <1>1, <1>2, <1>3 DEF Types
  <2>2. age' \in [Caller -> Nat]
    BY <1>1, <1>2, <1>3 DEF Types
  <2>3. active' = {} \/ \E a \in Writing : active' = {a} /\ queue' # <<>> /\ a.part = Head(queue')
    BY <1>1, <1>3, <1>5 DEF Types
  <2> QED BY <1>1, <1>3, <1>5, <2>1, <2>2, <2>3 DEF Types
<1>8. NonceIsFree' /\ OneNonceEach' /\ Separate(landed)'
  BY <1>1 DEF WInv, NonceIsFree, OneNonceEach, Separate
<1>9. Reports' = Reports /\ Given' = Given \cup {w}
  BY <1>1, <1>5 DEF Reports, Given
<1>10. \A d \in Caller : Range(todo'[d]) \subseteq Range(todo[d])
  BY <1>2, <1>4
<1>11. \A d \in Caller : \A p \in Range(todo'[d]) : Apart(p, w)
  BY <1>2, <1>4
<1>12. TodoApart'
  <2>1. \A d \in Caller : Separate(todo'[d])
    BY <1>2, <1>4 DEF WInv, TodoApart
  <2>2. \A d \in Caller : \A p \in Range(todo'[d]) : \A q \in Given' : Apart(p, q)
    BY <1>9, <1>10, <1>11 DEF WInv, TodoApart
  <2>3. \A d, e \in Caller : e # d =>
            \A p \in Range(todo'[d]), q \in Range(todo'[e]) : Apart(p, q)
    BY <1>10 DEF WInv, TodoApart
  <2> QED BY <2>1, <2>2, <2>3 DEF TodoApart
<1>13. SentApart'
  <2>1. \A t \in mempool : Apart(w, t.part)
    BY <1>2 DEF Given
  <2>2. \A q \in Range(landed) : Apart(w, q)
    BY <1>2 DEF Given
  <2> QED BY <1>1, <1>5, <2>1, <2>2 DEF WInv, SentApart
<1>14. WaitsForQueued'
  <2>1. \A r \in Reports : Apart(r.part, w)
    BY <1>2 DEF Given
  <2>2. ASSUME NEW d \in Caller, d # c PROVE waiting[d] # w
    <3>1. CASE waiting[d] = <<>>
      BY <1>2, <3>1 DEF Part
    <3>2. CASE waiting[d] # <<>>
      <4>1. waiting[d] \in Given
        BY <3>2 DEF WInv, WaitsForQueued, Given
      <4> QED BY <1>2, <4>1, NotApartFromItself
    <3> QED BY <3>1, <3>2
  <2> QED BY <1>4, <1>5, <1>9, <2>1, <2>2 DEF WInv, WaitsForQueued
<1>15. ToldIsOver'
  BY <1>2, <1>5, <1>9 DEF WInv, ToldIsOver, Given
<1>16. ReportsTrue'
  <2>1. \A r \in Reports : r.part # w
    BY <1>2, NotApartFromItself DEF Given
  <2> QED BY <1>1, <1>9, <2>1 DEF WInv, ReportsTrue, IsTrue, Held
<1> QED BY <1>7, <1>8, <1>12, <1>13, <1>14, <1>15, <1>16 DEF WInv

(* A body the sidecar does not take: split, or reported. *)
LEMMA BounceKeeps ==
    ASSUME WInv, NEW c \in Caller, Bounce(c)
    PROVE  WInv'
<1> DEFINE w == Head(todo[c])
           result == IF Len(w) > BodyFits THEN "too_large" ELSE "refused"
           split == result = "too_large" /\ Len(w) > 1
<1>1. /\ todo[c] # <<>>
      /\ todo' = [todo EXCEPT ![c] = (IF split THEN Halves(w) ELSE <<>>) \o Tail(todo[c])]
      /\ reports' = IF split THEN reports
                    ELSE [reports EXCEPT ![c] = Append(@, Report(w, result))]
      /\ UNCHANGED <<waiting, age, queue, active, mempool, mined, landed, unheard>>
  BY DEF Bounce, nodeVars
<1>2. /\ w \in Part /\ w \in Range(todo[c])
      /\ Tail(todo[c]) \in Seq(Part) /\ Separate(Tail(todo[c]))
      /\ Range(todo[c]) = Range(Tail(todo[c])) \cup {w}
      /\ \A p \in Range(Tail(todo[c])) : Apart(p, w)
      /\ \A q \in Given : Apart(w, q) /\ Apart(q, w)
      /\ \A d \in Caller : d # c => \A q \in Range(todo[d]) : Apart(w, q) /\ Apart(q, w)
  BY <1>1, NextPart
<1>3. Types /\ result \in {"too_large", "refused"}
  BY DEF WInv
<1> DEFINE h == IF split THEN Halves(w) ELSE <<>>
<1>4. /\ h \in Seq(Part) /\ Separate(h)
      /\ \A p \in Range(h) : Range(p) \subseteq Range(w)
  <2>1. CASE split
    BY <1>2, <2>1, HalvesAreParts
  <2>2. CASE ~split
    <3>1. h = <<>> /\ DOMAIN <<>> = {} /\ <<>> \in Seq(Part)
      BY <2>2
    <3> HIDE DEF h
    <3> QED BY <3>1 DEF Separate, Range
  <2> QED BY <2>1, <2>2
<1>5. todo' = [todo EXCEPT ![c] = h \o Tail(todo[c])]
  BY <1>1
<1>6. /\ ~split => reports' = [reports EXCEPT ![c] = Append(@, Report(w, result))]
      /\ split => reports' = reports
  BY <1>1
<1> HIDE DEF h, w, split, result
<1>7. \A p \in Range(h) : \A q : Apart(w, q) => Apart(p, q) /\ Apart(q, p)
  BY <1>4 DEF Apart
<1>8. /\ h \o Tail(todo[c]) \in Seq(Part)
      /\ Range(h \o Tail(todo[c])) = Range(h) \cup Range(Tail(todo[c]))
      /\ Separate(h \o Tail(todo[c]))
  <2>1. \A p \in Range(h), q \in Range(Tail(todo[c])) : Apart(p, q)
    BY <1>2, <1>7, ApartSym
  <2> DEFINE t == Tail(todo[c])
  <2>2. /\ t \in Seq(Part) /\ Separate(t) /\ h \in Seq(Part) /\ Separate(h)
        /\ \A p \in Range(h), q \in Range(t) : Apart(p, q)
    BY <1>2, <1>4, <2>1
  <2> HIDE DEF t
  <2>3. h \o t \in Seq(Part) /\ Range(h \o t) = Range(h) \cup Range(t) /\ Separate(h \o t)
    BY <2>2, Prepended
  <2> QED BY <2>3 DEF t
<1>9. /\ todo' \in [Caller -> Seq(Part)] /\ todo'[c] = h \o Tail(todo[c])
      /\ \A d \in Caller \ {c} : todo'[d] = todo[d]
  BY <1>3, <1>5, <1>8 DEF Types
<1>10. \A d \in Caller : \A p \in Range(todo'[d]) :
          p \in Range(todo[d]) \/ (d = c /\ p \in Range(h))
  BY <1>2, <1>8, <1>9
<1>11. /\ reports' \in [Caller -> Seq([part: Part, result: Result])]
       /\ Reports \subseteq Reports'
       /\ \A r \in Reports' : r \in Reports \/ (~split /\ r = Report(w, result))
  <2>1. CASE split
    <3>1. reports' = reports
      BY <1>6, <2>1
    <3>2. Reports' = Reports
      BY <3>1 DEF Reports
    <3> QED BY <1>3, <3>1, <3>2 DEF Types
  <2>2. CASE ~split
    <3>1. Report(w, result) \in [part: Part, result: Result]
      BY <1>2, <1>3 DEF Report, Result
    <3> QED BY <1>3, <1>6, <2>2, <3>1, Reported
  <2> QED BY <2>1, <2>2
<1>12. Types'
  BY <1>1, <1>3, <1>9, <1>11 DEF Types
<1>13. Given' \subseteq Given \cup (IF split THEN {} ELSE {w})
  BY <1>1, <1>11 DEF Given, Report
<1>14. TodoApart'
  <2>1. \A d \in Caller : Separate(todo'[d])
    BY <1>8, <1>9 DEF WInv, TodoApart
  <2>2. ASSUME NEW d \in Caller, NEW p \in Range(todo'[d]), NEW q \in Given' PROVE Apart(p, q)
    <3>1. CASE q \in Given
      BY <1>2, <1>7, <1>10, <3>1 DEF WInv, TodoApart
    <3>2. CASE q \notin Given
      <4>1. q = w /\ ~split
        BY <1>13, <3>2
      <4>2. h = <<>> /\ Range(<<>>) = {}
        BY <4>1 DEF h, Range
      <4> QED BY <1>2, <1>8, <1>9, <4>1, <4>2
    <3> QED BY <3>1, <3>2
  <2>3. ASSUME NEW d \in Caller, NEW e \in Caller, e # d,
               NEW p \in Range(todo'[d]), NEW q \in Range(todo'[e])
        PROVE  Apart(p, q)
    <3>1. CASE p \in Range(todo[d]) /\ q \in Range(todo[e])
      BY <2>3, <3>1 DEF WInv, TodoApart
    <3>2. CASE p \in Range(h) /\ d = c
      BY <1>2, <1>7, <1>9, <2>3, <3>2
    <3>3. CASE q \in Range(h) /\ e = c
      BY <1>2, <1>7, <1>9, <2>3, <3>3
    <3> QED BY <1>10, <3>1, <3>2, <3>3
  <2> QED BY <2>1, <2>2, <2>3 DEF TodoApart
<1>15. SentApart' /\ Separate(landed)' /\ NonceIsFree' /\ OneNonceEach'
  BY <1>1 DEF WInv, SentApart, Separate, NonceIsFree, OneNonceEach
<1>16. Report(w, result).part = w /\ Report(w, result).result \in {"too_large", "refused"}
  BY <1>3 DEF Report
<1>17. \A p \in Range(queue) : Apart(w, p)
  BY <1>2 DEF Given
<1>18. WaitsForQueued' /\ ToldIsOver'
  BY <1>1, <1>11, <1>16, <1>17 DEF WInv, WaitsForQueued, ToldIsOver
<1>19. ReportsTrue'
  <2>1. w \notin Range(landed) /\ ~Held(w)
    <3>1. w \notin Given
      BY <1>2, NotApartFromItself
    <3> QED BY <3>1 DEF Given, Held
  <2> QED BY <1>1, <1>11, <1>16, <2>1 DEF WInv, ReportsTrue, IsTrue, Held
<1> QED BY <1>12, <1>14, <1>15, <1>18, <1>19 DEF WInv

(* The client gives up: its part stays where it is. *)
LEMMA GiveUpKeeps ==
    ASSUME WInv, NEW c \in Caller, GiveUp(c)
    PROVE  WInv'
<1> DEFINE w == waiting[c]
           r0 == Report(w, "gave_up")
<1>0. Types
  BY DEF WInv
<1>1. /\ w # <<>> /\ age[c] = Timeout
      /\ reports' = [reports EXCEPT ![c] = Append(@, r0)]
      /\ waiting' = [waiting EXCEPT ![c] = <<>>] /\ age' = [age EXCEPT ![c] = 0]
      /\ UNCHANGED <<todo, queue, active, mempool, mined, landed, unheard>>
  BY DEF GiveUp, nodeVars
<1>2. w \in Part /\ w \in Range(queue) /\ \A r \in Reports : Apart(r.part, w)
  BY <1>0, <1>1, PartsInPlace DEF WInv, WaitsForQueued
<1>3. r0 \in [part: Part, result: Result] /\ r0.part = w /\ r0.result = "gave_up"
  BY <1>2 DEF Report, Result
<1>5. \A d \in Caller \ {c} : /\ waiting'[d] = waiting[d] /\ age'[d] = age[d]
                              /\ waiting[d] # <<>> => Apart(w, waiting[d])
  <2>1. \A d \in Caller \ {c} : waiting'[d] = waiting[d] /\ age'[d] = age[d]
    BY <1>0, <1>1 DEF Types
  <2>2. \A d \in Caller \ {c} : waiting[d] # <<>> => waiting[d] # w /\ waiting[d] \in Range(queue)
    BY DEF WInv, WaitsForQueued
  <2> QED BY <1>2, <2>1, <2>2, QueueApart DEF WInv, SentApart
<1>6. waiting'[c] = <<>>
  BY <1>0, <1>1 DEF Types
<1> HIDE DEF w, r0
<1>7. /\ reports' \in [Caller -> Seq([part: Part, result: Result])]
      /\ Reports' = Reports \cup {r0}
  BY <1>0, <1>1, <1>3, Reported
<1>8. Types'
  <2>1. waiting' \in [Caller -> Part \cup {<<>>}] /\ age' \in [Caller -> Nat]
    BY <1>0, <1>1 DEF Types
  <2> QED BY <1>0, <1>1, <1>7, <2>1 DEF Types
<1>9. Given' \subseteq Given
  BY <1>1, <1>2, <1>3, <1>7 DEF Given
<1>10. TodoApart'
  BY <1>1, <1>9, TodoStays DEF WInv
<1>11. SentApart' /\ Separate(landed)' /\ NonceIsFree' /\ OneNonceEach'
  BY <1>1 DEF WInv, SentApart, Separate, NonceIsFree, OneNonceEach
<1>12. WaitsForQueued'
  BY <1>1, <1>3, <1>5, <1>6, <1>7 DEF WInv, WaitsForQueued
<1>13. ToldIsOver' /\ ReportsTrue'
  BY <1>1, <1>3, <1>7 DEF WInv, ToldIsOver, ReportsTrue, IsTrue, Held
<1> QED BY <1>8, <1>10, <1>11, <1>12, <1>13 DEF WInv

(* The answer to some parts: their callers wait no more, and are told, or
   split theirs. *)
LEMMA ToldFacts ==
    ASSUME Types, NEW ws \in SUBSET Part, NEW res \in Result, Told(ws, res)
    PROVE  /\ waiting' \in [Caller -> Part \cup {<<>>}] /\ age' \in [Caller -> Nat]
           /\ \A c \in Caller : waiting[c] \in ws => waiting'[c] = <<>>
           /\ \A c \in Caller : waiting[c] \notin ws =>
                  waiting'[c] = waiting[c] /\ age'[c] = age[c]
           /\ todo' \in [Caller -> Seq(Part)]
           /\ \A c \in Caller :
                \/ todo'[c] = todo[c]
                \/ /\ waiting[c] \in ws /\ Len(waiting[c]) > 1 /\ res = "too_large"
                   /\ todo'[c] = Halves(waiting[c]) \o todo[c]
           /\ reports' \in [Caller -> Seq([part: Part, result: Result])]
           /\ \A r \in Reports' :
                \/ r \in Reports
                \/ \E c \in Caller : /\ waiting[c] \in ws /\ todo'[c] = todo[c]
                                     /\ r.part = waiting[c] /\ r.result = res
<1> DEFINE split(c) == waiting[c] \in ws /\ res = "too_large" /\ Len(waiting[c]) > 1
           S == [part: Part, result: Result]
<1>1. /\ todo' = [c \in Caller |-> IF split(c) THEN Halves(waiting[c]) \o todo[c] ELSE todo[c]]
      /\ reports' = [c \in Caller |-> IF waiting[c] \in ws /\ ~split(c)
                                      THEN Append(reports[c], Report(waiting[c], res))
                                      ELSE reports[c]]
      /\ waiting' = [c \in Caller |-> IF waiting[c] \in ws THEN <<>> ELSE waiting[c]]
      /\ age' = [c \in Caller |-> IF waiting[c] \in ws THEN 0 ELSE age[c]]
  BY DEF Told
<1>2. /\ \A c \in Caller : todo[c] \in Seq(Part) /\ waiting[c] \in Part \cup {<<>>}
      /\ \A c \in Caller : age[c] \in Nat /\ reports[c] \in Seq(S)
  BY DEF Types
<1>3. ASSUME NEW c \in Caller, split(c) PROVE Halves(waiting[c]) \o todo[c] \in Seq(Part)
  <2>1. waiting[c] \in Part /\ Len(waiting[c]) > 1 /\ todo[c] \in Seq(Part)
    BY <1>2, <1>3
  <2>2. Halves(waiting[c]) \in Seq(Part)
    BY <2>1, HalvesAreParts
  <2> QED BY <2>1, <2>2, Prepended
<1>4. ASSUME NEW c \in Caller, waiting[c] \in ws
      PROVE  /\ Append(reports[c], Report(waiting[c], res)) \in Seq(S)
             /\ Range(Append(reports[c], Report(waiting[c], res))) =
                   Range(reports[c]) \cup {Report(waiting[c], res)}
  <2>1. Report(waiting[c], res) \in S /\ reports[c] \in Seq(S)
    BY <1>2, <1>4 DEF Report
  <2> HIDE DEF S
  <2> QED BY <2>1, Appended
<1> HIDE DEF S
<1>5. todo' \in [Caller -> Seq(Part)]
  BY <1>1, <1>2, <1>3
<1>6. reports' \in [Caller -> Seq(S)]
  BY <1>1, <1>2, <1>4
<1>7. waiting' \in [Caller -> Part \cup {<<>>}] /\ age' \in [Caller -> Nat]
  BY <1>1, <1>2
<1>8. ASSUME NEW r \in Reports'
      PROVE  \/ r \in Reports
             \/ \E c \in Caller : /\ waiting[c] \in ws /\ todo'[c] = todo[c]
                                  /\ r.part = waiting[c] /\ r.result = res
  <2>1. PICK c \in Caller : r \in Range(reports'[c])
    BY <1>8 DEF Reports
  <2>2. CASE r \in Range(reports[c])
    BY <2>2 DEF Reports
  <2>3. CASE r \notin Range(reports[c])
    <3>1. waiting[c] \in ws /\ ~split(c)
      BY <1>1, <2>1, <2>3
    <3>2. reports'[c] = Append(reports[c], Report(waiting[c], res)) /\ todo'[c] = todo[c]
      BY <1>1, <3>1
    <3>3. r = Report(waiting[c], res)
      BY <1>4, <2>1, <2>3, <3>1, <3>2
    <3>4. r.part = waiting[c] /\ r.result = res
      BY <3>3 DEF Report
    <3> QED BY <3>1, <3>2, <3>4
  <2> QED BY <2>2, <2>3
<1> QED BY <1>1, <1>5, <1>6, <1>7, <1>8 DEF S

(* What the callers make of the answer to one part. *)
OneTold(w, res) ==
    /\ waiting' \in [Caller -> Part \cup {<<>>}] /\ age' \in [Caller -> Nat]
    /\ \A c \in Caller : waiting[c] = w => waiting'[c] = <<>>
    /\ \A c \in Caller : waiting[c] # w => waiting'[c] = waiting[c] /\ age'[c] = age[c]
    /\ todo' \in [Caller -> Seq(Part)]
    /\ \A c \in Caller :
         \/ todo'[c] = todo[c]
         \/ /\ waiting[c] = w /\ Len(w) > 1 /\ res = "too_large"
            /\ todo'[c] = Halves(w) \o todo[c]
    /\ reports' \in [Caller -> Seq([part: Part, result: Result])]
    /\ \A r \in Reports' :
         \/ r \in Reports
         \/ \E c \in Caller : /\ waiting[c] = w /\ todo'[c] = todo[c]
                              /\ r.part = w /\ r.result = res

LEMMA ToldOne ==
    ASSUME Types, NEW w \in Part, NEW res \in Result, Told({w}, res)
    PROVE  OneTold(w, res)
<1> DEFINE ws == {w}
<1>1. \A p : p \in ws <=> p = w
  OBVIOUS
<1>2. ws \in SUBSET Part /\ Told(ws, res)
  OBVIOUS
<1> HIDE DEF ws
<1>3. /\ waiting' \in [Caller -> Part \cup {<<>>}] /\ age' \in [Caller -> Nat]
      /\ \A c \in Caller : waiting[c] \in ws => waiting'[c] = <<>>
      /\ \A c \in Caller : waiting[c] \notin ws =>
             waiting'[c] = waiting[c] /\ age'[c] = age[c]
      /\ todo' \in [Caller -> Seq(Part)]
      /\ \A c \in Caller :
           \/ todo'[c] = todo[c]
           \/ /\ waiting[c] \in ws /\ Len(waiting[c]) > 1 /\ res = "too_large"
              /\ todo'[c] = Halves(waiting[c]) \o todo[c]
      /\ reports' \in [Caller -> Seq([part: Part, result: Result])]
      /\ \A r \in Reports' :
           \/ r \in Reports
           \/ \E c \in Caller : /\ waiting[c] \in ws /\ todo'[c] = todo[c]
                                /\ r.part = waiting[c] /\ r.result = res
  BY <1>2, ToldFacts
<1>4. ASSUME NEW c \in Caller
      PROVE  \/ todo'[c] = todo[c]
             \/ /\ waiting[c] = w /\ Len(w) > 1 /\ res = "too_large"
                /\ todo'[c] = Halves(w) \o todo[c]
  BY <1>1, <1>3
<1>5. ASSUME NEW r \in Reports', r \notin Reports
      PROVE  \E c \in Caller : /\ waiting[c] = w /\ todo'[c] = todo[c]
                              /\ r.part = w /\ r.result = res
  BY <1>1, <1>3, <1>5
<1> QED BY <1>1, <1>3, <1>4, <1>5 DEF OneTold

(* The write in progress is over, with an answer that is not its size. *)
LEMMA OverKeeps ==
    ASSUME WInv, NEW a \in active, NEW res \in {"written", "failed", "unresolved"},
           Over(a.part, res), UNCHANGED <<mined, landed>>,
           \/ mempool' = mempool
           \/ a.at = "signed" /\ mempool' = Entered(a),
           unheard' = unheard \/ unheard' = unheard \cup {a.part},
           res = "written" => a.at = "landed",
           res = "failed" =>
              \/ a.at \in {"signed", "reverted"} /\ mempool' = mempool
              \/ a.part \in unheard'
    PROVE  WInv'
<1> DEFINE w == a.part
           t0 == Tx(a)
<1>0. /\ Types /\ a \in Writing /\ active = {a} /\ queue # <<>> /\ w = Head(queue)
      /\ w \in Part /\ w \in Range(queue) /\ queue \in Seq(Part) /\ Separate(queue)
  BY InProgress DEF WInv, Types, SentApart
<1>1. queue' = Tail(queue) /\ active' = {} /\ Told({w}, res)
  BY <1>0 DEF Over, Proceed
<1>2. /\ queue' \in Seq(Part) /\ Range(queue) = Range(queue') \cup {w}
      /\ Separate(queue') /\ \A p \in Range(queue') : Apart(p, w)
  BY <1>0, <1>1, FirstTaken
<1>3. t0 \in [part: Part, nonce: Nat] /\ t0.part = w /\ t0.nonce = a.nonce
  BY <1>0 DEF Writing, Tx
<1>4. mempool' \subseteq mempool \cup {t0} /\ (a.at # "signed" => mempool' = mempool)
  BY DEF Entered, Tx
<1>5. /\ waiting' \in [Caller -> Part \cup {<<>>}] /\ age' \in [Caller -> Nat]
      /\ \A c \in Caller : waiting[c] = w => waiting'[c] = <<>>
      /\ \A c \in Caller : waiting[c] # w => waiting'[c] = waiting[c] /\ age'[c] = age[c]
      /\ todo' \in [Caller -> Seq(Part)]
      /\ \A c \in Caller : todo'[c] = todo[c]
      /\ reports' \in [Caller -> Seq([part: Part, result: Result])]
      /\ \A r \in Reports' : r \in Reports \/ (r.part = w /\ r.result = res)
  <2>1. res \in Result /\ res # "too_large"
    BY DEF Result
  <2> HIDE DEF w
  <2>2. OneTold(w, res)
    BY <1>0, <1>1, <2>1, ToldOne
  <2> QED BY <2>1, <2>2 DEF OneTold
<1>6. todo' = todo
  BY <1>0, <1>5 DEF Types
<1>7. Types'
  <2>1. IsFiniteSet(mempool \cup {t0})
    BY <1>0, FS_AddElement DEF Types
  <2>2. IsFiniteSet(mempool')
    BY <1>4, <2>1, FS_Subset
  <2>3. mempool' \subseteq [part: Part, nonce: Nat] /\ unheard' \subseteq Part
    BY <1>0, <1>3, <1>4 DEF Types
  <2> QED BY <1>0, <1>1, <1>2, <1>5, <2>2, <2>3 DEF Types
<1> HIDE DEF w, t0
<1>8. NonceIsFree' /\ OneNonceEach'
  <2>1. a.at = "signed" => a.nonce > mined /\ \A t \in mempool : t.nonce # a.nonce
    BY DEF WInv, NonceIsFree
  <2> QED BY <1>1, <1>3, <1>4, <2>1 DEF WInv, NonceIsFree, OneNonceEach
<1>9. Given' \subseteq Given
  <2>1. \A t \in mempool' : t \in mempool \/ t.part = w
    BY <1>3, <1>4
  <2> QED BY <1>0, <1>2, <1>5, <2>1 DEF Given
<1>10. TodoApart'
  BY <1>6, <1>9, TodoStays DEF WInv
<1>11. /\ \A p \in Range(queue') : p # w /\ p \in Range(queue)
       /\ \A p \in Range(queue'), t \in mempool : Apart(p, t.part)
       /\ \A p \in Range(queue'), q \in Range(landed) : Apart(p, q)
  <2>1. \A p \in Range(queue') : p # w /\ p \in Range(queue)
    BY <1>0, <1>2, NotApartFromItself
  <2> QED BY <1>0, <2>1 DEF WInv, SentApart, w
<1>12. SentApart'
  <2>1. CASE a.at = "signed"
    <3>1. /\ \A t \in mempool : Apart(w, t.part) /\ Apart(t.part, w)
          /\ \A q \in Range(landed) : Apart(w, q)
      BY <2>1, SignedIsNew, ApartSym DEF w
    <3>2. \A t \in mempool' : t \in mempool \/ (t = t0 /\ t.part = w)
      BY <1>3, <1>4
    <3>3. \A t \in mempool' : /\ \A u \in mempool' : u # t => Apart(t.part, u.part)
                              /\ \A p \in Range(landed) : Apart(t.part, p)
      BY <3>1, <3>2 DEF WInv, SentApart
    <3>4. \A p \in Range(queue'), t \in mempool' : Apart(p, t.part)
      BY <1>2, <1>11, <3>2
    <3> QED BY <1>1, <1>2, <1>11, <3>3, <3>4 DEF SentApart
  <2>2. CASE a.at # "signed"
    BY <1>1, <1>2, <1>4, <1>11, <2>2 DEF WInv, SentApart
  <2> QED BY <2>1, <2>2
<1>13. ASSUME NEW c \in Caller, waiting'[c] # <<>>
       PROVE  /\ waiting'[c] = waiting[c] /\ waiting[c] # w /\ waiting[c] # <<>>
              /\ waiting[c] \in Range(queue') /\ Apart(w, waiting[c])
  <2>1. waiting'[c] = waiting[c] /\ waiting[c] # w /\ waiting[c] # <<>>
    BY <1>5, <1>13
  <2>2. waiting[c] \in Range(queue')
    BY <1>2, <2>1 DEF WInv, WaitsForQueued
  <2> QED BY <1>2, <2>1, <2>2, ApartSym
<1>14. WaitsForQueued'
  <2>1. ASSUME NEW c \in Caller, waiting'[c] # <<>>, NEW d \in Caller, waiting'[d] = waiting'[c]
        PROVE  d = c
    BY <1>13, <2>1 DEF WInv, WaitsForQueued
  <2>2. ASSUME NEW c \in Caller, waiting'[c] # <<>>, NEW r \in Reports'
        PROVE  Apart(r.part, waiting'[c])
    BY <1>5, <1>13, <2>2 DEF WInv, WaitsForQueued
  <2> QED BY <1>13, <2>1, <2>2 DEF WaitsForQueued
<1>15. ToldIsOver'
  <2>1. \A p \in Range(queue') : Apart(w, p)
    BY <1>2, ApartSym
  <2> QED BY <1>5, <1>11, <2>1 DEF WInv, ToldIsOver
<1>16. ReportsTrue'
  <2>1. ASSUME NEW r \in Reports, r.result \in {"refused", "failed", "too_large"}
        PROVE  r.part # w
    <3>1. Apart(r.part, w)
      BY <1>0, <2>1 DEF WInv, ToldIsOver
    <3> QED BY <1>0, <3>1, NotApartFromItself
  <2>2. \A r \in Reports : Held(r.part)' => Held(r.part) \/ r.part = w
    BY <1>3, <1>4 DEF Held
  <2>3. ASSUME NEW r \in Reports'
        PROVE  IsTrue(r)'
    <3>1. CASE r \in Reports
      <4>1. IsTrue(r)
        BY <3>1 DEF WInv, ReportsTrue
      <4>2. unheard \subseteq unheard'
        OBVIOUS
      <4> QED BY <2>1, <2>2, <3>1, <4>1, <4>2 DEF IsTrue
    <3>2. CASE r.part = w /\ r.result = res
      <4>1. res = "written" => w \in Range(landed')
        BY DEF WInv, SentApart, w
      <4>2. ASSUME a.at \in {"signed", "reverted"}, mempool' = mempool
            PROVE  w \notin Range(landed') /\ ~Held(w)'
        <5>1. /\ \A t \in mempool : Apart(w, t.part)
              /\ \A q \in Range(landed) : Apart(w, q)
          BY <4>2, SignedIsNew DEF w
        <5> QED BY <1>0, <4>2, <5>1, NotApartFromItself DEF Held
      <4>3. res = "failed" => w \in unheard' \/ (w \notin Range(landed') /\ ~Held(w)')
        BY <4>2 DEF w
      <4> QED BY <3>2, <4>1, <4>3 DEF IsTrue, Held
    <3> QED BY <1>5, <3>1, <3>2
  <2> QED BY <2>3 DEF ReportsTrue
<1>18. Separate(landed)'
  BY DEF WInv, Separate
<1> QED BY <1>7, <1>8, <1>10, <1>12, <1>14, <1>15, <1>16, <1>18 DEF WInv

(* The sidecar restarts: what was sent may still land, and no one waits. *)
LEMMA RestartKeeps ==
    ASSUME WInv, Restart
    PROVE  WInv'
<1>0. Types /\ Range(queue) \in SUBSET Part
  BY PartsInPlace DEF WInv
<1>1. /\ queue' = <<>> /\ active' = {} /\ Told(Range(queue), "cut_off")
      /\ UNCHANGED <<mempool, mined, landed, unheard>>
  BY DEF Restart, nodeVars
<1>2. Range(queue') = {} /\ Separate(queue') /\ queue' \in Seq(Part)
  <2>1. DOMAIN <<>> = {} /\ <<>> \in Seq(Part)
    OBVIOUS
  <2> QED BY <1>1, <2>1 DEF Range, Separate
<1>3. "cut_off" \in Result /\ "cut_off" # "too_large"
  BY DEF Result
<1>4. /\ waiting' \in [Caller -> Part \cup {<<>>}] /\ age' \in [Caller -> Nat]
      /\ \A c \in Caller : waiting[c] \in Range(queue) => waiting'[c] = <<>>
      /\ \A c \in Caller : waiting[c] \notin Range(queue) => waiting'[c] = waiting[c]
      /\ todo' \in [Caller -> Seq(Part)]
      /\ \A c \in Caller : todo'[c] = todo[c]
      /\ reports' \in [Caller -> Seq([part: Part, result: Result])]
      /\ \A r \in Reports' :
            r \in Reports \/ (r.result = "cut_off" /\ r.part \in Range(queue))
  BY <1>0, <1>1, <1>3, ToldFacts
<1>5. todo' = todo /\ \A c \in Caller : waiting'[c] = <<>>
  BY <1>0, <1>4 DEF Types, WInv, WaitsForQueued
<1>6. Types'
  BY <1>0, <1>1, <1>2, <1>4 DEF Types
<1>7. NonceIsFree' /\ OneNonceEach' /\ Separate(landed)'
  BY <1>1 DEF WInv, NonceIsFree, OneNonceEach, Separate
<1>8. Given' \subseteq Given
  BY <1>1, <1>2, <1>4 DEF Given
<1>9. TodoApart'
  BY <1>5, <1>8, TodoStays DEF WInv
<1>10. SentApart'
  BY <1>1, <1>2 DEF WInv, SentApart
<1>11. WaitsForQueued' /\ ToldIsOver'
  BY <1>2, <1>5 DEF WaitsForQueued, ToldIsOver
<1>12. ReportsTrue'
  BY <1>1, <1>4 DEF WInv, ReportsTrue, IsTrue, Held
<1> QED BY <1>6, <1>7, <1>9, <1>10, <1>11, <1>12 DEF WInv

(* Refused for its size: nothing of it was sent, so its halves are as new as
   it was. *)
LEMMA OversizedKeeps ==
    ASSUME WInv, NEW w \in Range(queue), Oversized(w)
    PROVE  WInv'
<1>0. /\ Types /\ w \in Part /\ queue # <<>> /\ w = Head(queue) /\ active = {}
      /\ queue \in Seq(Part) /\ Separate(queue)
  <2>1. Range(<<>>) = {}
    BY DEF Range
  <2> QED BY <2>1, PartsInPlace DEF WInv, Types, SentApart, Oversized, Turn
<1>1. /\ queue' = Tail(queue) /\ active' = {} /\ Told({w}, "too_large")
      /\ UNCHANGED <<mempool, mined, landed, unheard>>
  BY <1>0 DEF Oversized, Over, Proceed, nodeVars
<1>2. /\ queue' \in Seq(Part) /\ Range(queue) = Range(queue') \cup {w}
      /\ Separate(queue') /\ \A p \in Range(queue') : Apart(p, w) /\ Apart(w, p)
  BY <1>0, <1>1, FirstTaken, ApartSym
<1>3. "too_large" \in Result
  BY DEF Result
<1>4. /\ waiting' \in [Caller -> Part \cup {<<>>}] /\ age' \in [Caller -> Nat]
      /\ \A c \in Caller : waiting[c] = w => waiting'[c] = <<>>
      /\ \A c \in Caller : waiting[c] # w => waiting'[c] = waiting[c] /\ age'[c] = age[c]
      /\ todo' \in [Caller -> Seq(Part)]
      /\ \A c \in Caller : \/ todo'[c] = todo[c]
                           \/ /\ waiting[c] = w /\ Len(w) > 1
                              /\ todo'[c] = Halves(w) \o todo[c]
      /\ reports' \in [Caller -> Seq([part: Part, result: Result])]
      /\ \A r \in Reports' :
            \/ r \in Reports
            \/ \E c \in Caller : /\ waiting[c] = w /\ todo'[c] = todo[c]
                                 /\ r.part = w /\ r.result = "too_large"
  <2>1. OneTold(w, "too_large")
    BY <1>0, <1>1, <1>3, ToldOne
  <2> QED BY <2>1 DEF OneTold
<1>5. Types'
  BY <1>0, <1>1, <1>2, <1>4 DEF Types
<1>6. NonceIsFree' /\ OneNonceEach' /\ Separate(landed)'
  BY <1>1 DEF WInv, NonceIsFree, OneNonceEach, Separate
<1>7. /\ \A t \in mempool : Apart(w, t.part)
      /\ \A q \in Range(landed) : Apart(w, q)
  BY <1>0 DEF WInv, SentApart
<1>8. ASSUME NEW c \in Caller, todo'[c] # todo[c]
      PROVE  /\ waiting[c] = w /\ \A d \in Caller : d # c => todo'[d] = todo[d]
             /\ \A q \in Given' : Apart(w, q)
             /\ \A d \in Caller : \A p \in Range(todo[d]) : Apart(w, p) /\ Apart(p, w)
             /\ Range(todo'[c]) = Range(Halves(w)) \cup Range(todo[c])
             /\ Separate(todo'[c])
             /\ \A p \in Range(Halves(w)) :
                   Range(p) \subseteq Range(w) /\ ~(Range(w) \subseteq Range(p))
  <2>1. waiting[c] = w /\ Len(w) > 1 /\ todo'[c] = Halves(w) \o todo[c]
    BY <1>4, <1>8
  <2>2. \A d \in Caller : waiting[d] = w => d = c
    BY <1>0, <2>1 DEF WInv, WaitsForQueued, Part
  <2>3. \A d \in Caller : d # c => todo'[d] = todo[d]
    BY <1>4, <2>2
  <2>4. \A r \in Reports' : Apart(w, r.part)
    <3>1. Reports' \subseteq Reports
      BY <1>4, <1>8, <2>2
    <3>2. \A r \in Reports : Apart(r.part, w)
      BY <1>0, <2>1 DEF WInv, WaitsForQueued, Part
    <3> QED BY <3>1, <3>2, ApartSym
  <2>5. \A q \in Given' : Apart(w, q)
    BY <1>1, <1>2, <1>7, <2>4 DEF Given
  <2>6. w \in Given
    BY DEF Given
  <2>7. \A d \in Caller : \A p \in Range(todo[d]) : Apart(w, p) /\ Apart(p, w)
    BY <2>6, ApartSym DEF WInv, TodoApart
  <2>8. /\ Halves(w) \in Seq(Part) /\ Separate(Halves(w))
        /\ \A p \in Range(Halves(w)) :
              Range(p) \subseteq Range(w) /\ ~(Range(w) \subseteq Range(p))
    BY <1>0, <2>1, HalvesAreParts
  <2>9. todo[c] \in Seq(Part) /\ Separate(todo[c])
    BY <1>0 DEF WInv, Types, TodoApart
  <2>10. \A p \in Range(Halves(w)), q \in Range(todo[c]) : Apart(p, q)
    BY <2>7, <2>8 DEF Apart
  <2> DEFINE h == Halves(w)
             s == todo[c]
  <2> HIDE DEF h, s
  <2>11. /\ h \in Seq(Part) /\ s \in Seq(Part) /\ Separate(h) /\ Separate(s)
         /\ \A p \in Range(h), q \in Range(s) : Apart(p, q)
    BY <2>8, <2>9, <2>10 DEF h, s
  <2>12. Range(h \o s) = Range(h) \cup Range(s) /\ Separate(h \o s)
    BY <2>11, Prepended
  <2> QED BY <2>1, <2>3, <2>5, <2>7, <2>8, <2>12 DEF h, s
<1>9. \A r \in Reports' : r.part \in {q.part : q \in Reports} \cup Range(queue)
  BY <1>4
<1>10. Given' \subseteq Given
  BY <1>1, <1>2, <1>9 DEF Given
<1>11. TodoApart'
  <2>1. ASSUME NEW c \in Caller PROVE Separate(todo'[c])
    BY <1>8 DEF WInv, TodoApart
  <2>2. ASSUME NEW c \in Caller, NEW p \in Range(todo'[c]), NEW q \in Given' PROVE Apart(p, q)
    <3>1. CASE p \in Range(todo[c])
      BY <1>10, <3>1 DEF WInv, TodoApart
    <3>2. CASE p \notin Range(todo[c])
      <4>1. todo'[c] # todo[c]
        BY <3>2
      <4>2. p \in Range(Halves(w)) /\ Range(p) \subseteq Range(w) /\ Apart(w, q)
        BY <1>8, <2>2, <3>2, <4>1
      <4> QED BY <4>2 DEF Apart
    <3> QED BY <3>1, <3>2
  <2>3. ASSUME NEW c \in Caller, NEW d \in Caller, d # c,
               NEW p \in Range(todo'[c]), NEW q \in Range(todo'[d])
        PROVE  Apart(p, q)
    <3>1. CASE p \in Range(todo[c]) /\ q \in Range(todo[d])
      BY <2>3, <3>1 DEF WInv, TodoApart
    <3>2. CASE p \notin Range(todo[c])
      <4>1. todo'[c] # todo[c]
        BY <3>2
      <4>2. p \in Range(Halves(w)) /\ Range(p) \subseteq Range(w)
        BY <1>8, <2>3, <3>2, <4>1
      <4>3. q \in Range(todo[d]) /\ Apart(w, q)
        BY <1>8, <2>3, <4>1
      <4> QED BY <4>2, <4>3 DEF Apart
    <3>3. CASE q \notin Range(todo[d])
      <4>1. todo'[d] # todo[d]
        BY <3>3
      <4>2. q \in Range(Halves(w)) /\ Range(q) \subseteq Range(w)
        BY <1>8, <2>3, <3>3, <4>1
      <4>3. p \in Range(todo[c]) /\ Apart(w, p)
        BY <1>8, <2>3, <4>1
      <4> QED BY <4>2, <4>3 DEF Apart
    <3> QED BY <3>1, <3>2, <3>3
  <2> QED BY <2>1, <2>2, <2>3 DEF TodoApart
<1>12. SentApart'
  BY <1>0, <1>1, <1>2 DEF WInv, SentApart
<1>13. ASSUME NEW c \in Caller, waiting'[c] # <<>>
       PROVE  /\ waiting'[c] = waiting[c] /\ waiting[c] # w /\ waiting[c] # <<>>
              /\ waiting[c] \in Range(queue') /\ Apart(w, waiting[c])
  <2>1. waiting'[c] = waiting[c] /\ waiting[c] # w /\ waiting[c] # <<>>
    BY <1>4, <1>13
  <2>2. waiting[c] \in Range(queue')
    BY <1>2, <2>1 DEF WInv, WaitsForQueued
  <2> QED BY <1>2, <2>1, <2>2
<1>14. WaitsForQueued'
  <2>1. ASSUME NEW c \in Caller, waiting'[c] # <<>>, NEW d \in Caller, waiting'[d] = waiting'[c]
        PROVE  d = c
    BY <1>13, <2>1 DEF WInv, WaitsForQueued
  <2>2. ASSUME NEW c \in Caller, waiting'[c] # <<>>, NEW r \in Reports'
        PROVE  Apart(r.part, waiting'[c])
    BY <1>4, <1>13, <2>2 DEF WInv, WaitsForQueued
  <2> QED BY <1>13, <2>1, <2>2 DEF WaitsForQueued
<1>15. ToldIsOver'
  BY <1>2, <1>4 DEF WInv, ToldIsOver
<1>16. ReportsTrue'
  <2>1. w \notin Range(landed) /\ ~Held(w)
    BY <1>0, <1>7, NotApartFromItself DEF Held
  <2> QED BY <1>1, <1>4, <2>1 DEF WInv, ReportsTrue, IsTrue, Held
<1> QED BY <1>5, <1>6, <1>11, <1>12, <1>14, <1>15, <1>16 DEF WInv

LEMMA ServeKeeps ==
    ASSUME WInv, Serve
    PROVE  WInv'
<1>1. CASE \E w \in Range(queue) : Begin(w) \/ Oversized(w)
  BY <1>1, BeginKeeps, OversizedKeeps
<1>2. ASSUME NEW a \in active, NotSent(a) PROVE WInv'
  BY <1>2, OverKeeps DEF NotSent, nodeVars
<1>3. ASSUME NEW a \in active, SendUnheard(a) PROVE WInv'
  BY <1>3, OverKeeps DEF SendUnheard
<1>4. ASSUME NEW a \in active, Receipt(a) PROVE WInv'
  <2>1. CASE a.at = "landed"
    BY <1>4, <2>1, OverKeeps DEF Receipt, nodeVars
  <2>2. CASE a.at = "reverted"
    BY <1>4, <2>2, OverKeeps DEF Receipt, nodeVars
  <2> QED BY <1>4, <2>1, <2>2 DEF Receipt
<1>5. ASSUME NEW a \in active, NoReceipt(a) PROVE WInv'
  BY <1>5, OverKeeps DEF NoReceipt, nodeVars
<1> QED BY <1>1, <1>2, <1>3, <1>4, <1>5, SendKeeps DEF Serve

(* The wait for the receipt fails: its write may have landed, or may yet. *)
LEMMA ReceiptWaitFailsKeeps ==
    ASSUME WInv, NEW a \in active, ReceiptWaitFails(a)
    PROVE  WInv'
  BY OverKeeps DEF ReceiptWaitFails, nodeVars

LEMMA NextWInv == WInv /\ [Next]_vars => WInv'
<1> SUFFICES ASSUME WInv, [Next]_vars PROVE WInv'
  OBVIOUS
<1>1. CASE \E c \in Caller : Post(c) \/ Bounce(c) \/ GiveUp(c)
  BY <1>1, PostKeeps, BounceKeeps, GiveUpKeeps
<1>2. CASE Serve \/ Restart \/ Mine \/ Forget \/ Tick
  BY <1>2, ServeKeeps, RestartKeeps, MineKeeps, ForgetKeeps, TickKeeps
<1>3. CASE UNCHANGED vars
  <2>1. /\ UNCHANGED <<todo, waiting, age, reports, queue, active, mempool, mined, landed,
                       unheard>>
    BY <1>3 DEF vars
  <2>2. Reports' = Reports /\ Given' = Given
    BY <2>1 DEF Reports, Given
  <2>3. Types' /\ NonceIsFree' /\ OneNonceEach' /\ SentApart' /\ Separate(landed)'
    BY <2>1 DEF WInv, Types, NonceIsFree, OneNonceEach, SentApart, Separate
  <2>4. TodoApart' /\ WaitsForQueued' /\ ToldIsOver' /\ ReportsTrue'
    BY <2>1, <2>2 DEF WInv, TodoApart, WaitsForQueued, ToldIsOver, ReportsTrue,
       IsTrue, Held
  <2> QED BY <2>3, <2>4 DEF WInv
<1> QED BY <1>1, <1>2, <1>3, ReceiptWaitFailsKeeps DEF Next

LEMMA WInvHolds == Spec => []WInv
<1> QED BY InitWInv, NextWInv, PTL DEF Spec

-----------------------------------------------------------------------------
(* Whatever restarts and is forgotten: no two transactions of the writer
   share a nonce, and none takes a mined one's (service.ts: "One write in
   flight at a time"). *)
THEOREM NonceEach == Spec => []OneNonceEach
<1>1. WInv => OneNonceEach
  BY DEF WInv
<1> QED BY <1>1, WInvHolds, PTL

(* No operation lands twice, over timeouts, restarts and splits: a caller
   never sends again what it once gave away (send, post). *)
THEOREM OperationLandsOnce == Spec => []LandsOnce
<1>1. WInv => LandsOnce
  BY DEF WInv, Separate, Apart, LandsOnce
<1> QED BY <1>1, WInvHolds, PTL

(* A 200 is a write that landed; a 400, a 413 or a 500 one that did not and
   will not, unless the sidecar lost the node's answer, to the send or in the
   wait for the receipt (respond, respondError, pendingTxHash). *)
THEOREM AnswersAreTrue == Spec => []AnswerIsTrue
<1>1. WInv => AnswerIsTrue
  <2> SUFFICES ASSUME WInv, NEW c \in Caller, NEW i \in DOMAIN reports[c]
               PROVE  IsTrue(reports[c][i])
    BY DEF AnswerIsTrue, IsTrue
  <2>1. reports[c][i] \in Reports
    BY DEF Reports, Range
  <2> QED BY <2>1 DEF WInv, ReportsTrue
<1> QED BY <1>1, WInvHolds, PTL

-----------------------------------------------------------------------------
(***************************************************************************)
(* BatchAccounted: what FlattenSeq makes of a list with one part more, at  *)
(* its end or at its front, and of a part in halves.                       *)
(***************************************************************************)
(* g[i] is the first i of the sequences in q, joined. *)
Joins(g, q, i) == g[i] = IF i = 1 THEN q[i] ELSE g[i - 1] \o q[i]

(* There is such a g: the least length up to which there were none would
   extend the one before it. *)
LEMMA JoinExists ==
    ASSUME NEW S, NEW q \in Seq(Seq(S)), q # <<>>
    PROVE  \E g \in [1..Len(q) -> Seq(S)] : \A i \in 1..Len(q) : Joins(g, q, i)
<1> DEFINE n == Len(q)
           upTo(k) == \E g \in [1..n -> Seq(S)] : \A i \in 1..n : i <= k => Joins(g, q, i)
           bad == {k \in Nat : ~upTo(k)}
<1>1. n \in Nat \ {0} /\ \A i \in 1..n : q[i] \in Seq(S)
  BY EmptySeq, ElementOfSeq
<1> HIDE DEF n
<1>2. ASSUME bad # {} PROVE FALSE
  <2>1. PICK k \in bad : \A j \in bad : k <= j
    BY <1>2, LeastNat
  <2>2. k \in Nat /\ ~upTo(k)
    BY <2>1
  <2>3. CASE k = 0
    <3> DEFINE g == [i \in 1..n |-> q[i]]
    <3>1. g \in [1..n -> Seq(S)]
      BY <1>1
    <3>2. \A i \in 1..n : i <= k => Joins(g, q, i)
      BY <1>1, <2>3
    <3> HIDE DEF g
    <3> QED BY <2>2, <3>1, <3>2
  <2>4. CASE k # 0
    <3>1. k - 1 \in Nat /\ ~(k <= k - 1)
      BY <2>2, <2>4
    <3>2. upTo(k - 1)
      BY <2>1, <3>1
    <3>3. PICK g \in [1..n -> Seq(S)] : \A i \in 1..n : i <= k - 1 => Joins(g, q, i)
      BY <3>2
    <3> DEFINE h == [i \in 1..n |-> IF i <= k - 1 THEN g[i]
                                    ELSE IF i = 1 THEN q[i] ELSE g[i - 1] \o q[i]]
    <3>4. ASSUME NEW i \in 1..n, i # 1 PROVE i - 1 \in 1..n /\ g[i - 1] \o q[i] \in Seq(S)
      <4>1. i - 1 \in 1..n
        BY <1>1, <3>4
      <4> QED BY <1>1, <4>1, ConcatProperties
    <3>5. h \in [1..n -> Seq(S)]
      BY <1>1, <3>4
    <3>6. ASSUME NEW i \in 1..n, i <= k PROVE Joins(h, q, i)
      <4>1. CASE i = 1
        <5>1. h[i] = q[i]
          BY <3>3, <4>1 DEF Joins
        <5> HIDE DEF h
        <5> QED BY <4>1, <5>1 DEF Joins
      <4>2. CASE i # 1
        <5>1. i - 1 \in 1..n /\ i - 1 <= k - 1
          BY <1>1, <2>2, <3>6, <4>2
        <5>2. h[i - 1] = g[i - 1]
          BY <5>1
        <5>3. h[i] = g[i - 1] \o q[i]
          BY <3>3, <4>2 DEF Joins
        <5> HIDE DEF h
        <5> QED BY <4>2, <5>2, <5>3 DEF Joins
      <4> QED BY <4>1, <4>2
    <3> HIDE DEF h
    <3> QED BY <2>2, <3>5, <3>6
  <2> QED BY <2>3, <2>4
<1>3. upTo(n)
  BY <1>1, <1>2
<1> QED BY <1>1, <1>3 DEF n

(* FlattenSeq takes such a g by CHOOSE, and its last. *)
LEMMA FlattenIsJoin ==
    ASSUME NEW S, NEW q \in Seq(Seq(S)), q # <<>>
    PROVE  \E g \in [1..Len(q) -> Seq(S)] :
              FlattenSeq(q) = g[Len(q)] /\ \A i \in 1..Len(q) : Joins(g, q, i)
<1> DEFINE n == Len(q)
           eq(g) == [i \in 1..n |-> IF i = 1 THEN q[i] ELSE g[i - 1] \o q[i]]
           it == CHOOSE g : g = eq(g)
<1>1. n \in Nat \ {0} /\ \A i \in 1..n : q[i] \in Seq(S)
  BY EmptySeq, ElementOfSeq
<1>2. PICK g \in [1..n -> Seq(S)] : \A i \in 1..n : Joins(g, q, i)
  BY JoinExists
<1>3. g = eq(g)
  BY <1>2 DEF Joins
<1>4. it = eq(it)
  BY <1>3
<1>5. FlattenSeq(q) = it[n]
  BY <1>1 DEF FlattenSeq
<1> HIDE DEF n, it
<1>6. ASSUME NEW i \in 1..n PROVE Joins(it, q, i)
  BY <1>4 DEF Joins
<1>7. ASSUME NEW i \in 1..n PROVE it[i] \in Seq(S)
  <2> DEFINE bad == {k \in Nat : k \in 1..n /\ it[k] \notin Seq(S)}
  <2>1. ASSUME bad # {} PROVE FALSE
    <3>1. PICK k \in bad : \A j \in bad : k <= j
      BY <2>1, LeastNat
    <3>2. k \in 1..n /\ it[k] \notin Seq(S) /\ k \in Nat
      BY <3>1
    <3>3. k # 1
      BY <1>1, <1>6, <3>2 DEF Joins
    <3>4. k - 1 \in 1..n /\ k - 1 \in Nat /\ ~(k <= k - 1)
      BY <1>1, <3>2, <3>3
    <3>5. it[k - 1] \in Seq(S)
      BY <3>1, <3>4
    <3>6. it[k - 1] \o q[k] \in Seq(S)
      BY <1>1, <3>2, <3>5, ConcatProperties
    <3> QED BY <1>6, <3>2, <3>3, <3>6 DEF Joins
  <2>2. i \in Nat
    BY <1>1
  <2> QED BY <2>1, <2>2
<1>8. it \in [1..n -> Seq(S)]
  <2>1. it = [i \in 1..n |-> it[i]]
    BY <1>4
  <2> QED BY <1>7, <2>1
<1> QED BY <1>5, <1>6, <1>8 DEF n

LEMMA FlattenType ==
    ASSUME NEW S, NEW q \in Seq(Seq(S))
    PROVE  FlattenSeq(q) \in Seq(S) /\ (q = <<>> => FlattenSeq(q) = <<>>)
<1>1. CASE q = <<>>
  <2>1. Len(q) = 0
    BY <1>1
  <2>2. FlattenSeq(q) = q
    BY <2>1 DEF FlattenSeq
  <2> QED BY <1>1, <2>2, EmptySeq
<1>2. CASE q # <<>>
  <2>1. PICK g \in [1..Len(q) -> Seq(S)] : FlattenSeq(q) = g[Len(q)]
    BY <1>2, FlattenIsJoin
  <2>2. Len(q) \in Nat \ {0}
    BY <1>2, EmptySeq
  <2>3. Len(q) \in 1..Len(q)
    BY <2>2
  <2> QED BY <1>2, <2>1, <2>3
<1> QED BY <1>1, <1>2

(* One sequence more at the end. *)
LEMMA FlattenAppend ==
    ASSUME NEW S, NEW q \in Seq(Seq(S)), NEW x \in Seq(S)
    PROVE  FlattenSeq(Append(q, x)) = FlattenSeq(q) \o x
<1> DEFINE w == Append(q, x)
           n == Len(q)
<1>1. /\ w \in Seq(Seq(S)) /\ w # <<>> /\ Len(w) = n + 1 /\ n \in Nat
      /\ \A i \in 1..n : w[i] = q[i] /\ w[n + 1] = x
  BY AppendProperties
<1>w. w[n + 1] = x
  BY AppendProperties
<1> HIDE DEF w
<1>2. PICK h \in [1..Len(w) -> Seq(S)] :
         FlattenSeq(w) = h[Len(w)] /\ \A i \in 1..Len(w) : Joins(h, w, i)
  BY <1>1, FlattenIsJoin
<1>3. CASE q = <<>>
  <2>1. n = 0 /\ FlattenSeq(q) = <<>>
    BY <1>3, FlattenType
  <2>2. 1 \in 1..Len(w) /\ Len(w) = 1
    BY <1>1, <2>1
  <2>3. FlattenSeq(w) = x
    BY <1>2, <1>w, <2>1, <2>2 DEF Joins
  <2> QED BY <2>1, <2>3, ConcatEmptySeq DEF w
<1>4. CASE q # <<>>
  <2>1. PICK g \in [1..n -> Seq(S)] :
           FlattenSeq(q) = g[n] /\ \A i \in 1..n : Joins(g, q, i)
    BY <1>4, FlattenIsJoin
  <2>2. n \in Nat \ {0}
    BY <1>4, EmptySeq
  <2> HIDE DEF n
  <2> DEFINE bad == {k \in Nat : k \in 1..n /\ h[k] # g[k]}
  <2>3. ASSUME bad # {} PROVE FALSE
    <3>1. PICK k \in bad : \A j \in bad : k <= j
      BY <2>3, LeastNat
    <3>2. k \in 1..n /\ h[k] # g[k] /\ k \in Nat /\ k \in 1..Len(w)
      BY <1>1, <3>1
    <3>3. Joins(h, w, k) /\ Joins(g, q, k) /\ w[k] = q[k]
      BY <1>1, <1>2, <2>1, <3>2
    <3>4. k # 1
      BY <3>2, <3>3 DEF Joins
    <3>5. k - 1 \in 1..n /\ k - 1 \in Nat /\ ~(k <= k - 1)
      BY <2>2, <3>2, <3>4
    <3>6. h[k - 1] = g[k - 1]
      BY <3>1, <3>5
    <3> QED BY <3>2, <3>3, <3>4, <3>6 DEF Joins
  <2>4. h[n] = g[n]
    <3>1. n \in Nat /\ n \in 1..n
      BY <2>2
    <3> QED BY <2>3, <3>1
  <2>5. PICK m \in 1..Len(w) : m = n + 1 /\ m # 1 /\ m - 1 = n /\ m = Len(w)
    BY <1>1, <2>2
  <2>6. h[m] = h[n] \o w[m] /\ w[m] = x
    BY <1>2, <1>w, <2>5 DEF Joins
  <2> QED BY <1>2, <2>1, <2>4, <2>5, <2>6 DEF w
<1> QED BY <1>3, <1>4

(* Concatenation as an operator of its own: the provers take only what the
   lemmas below say of it. *)
Cat(s, t) == s \o t

LEMMA CatAlike ==
    ASSUME NEW S, NEW x \in Seq(S)
    PROVE  \A a, b \in Seq(S) : Cat(Cat(x, a), b) = Cat(x, Cat(a, b))
BY ConcatAssociative DEF Cat

(* h joins x and the sequences of e, g those of e. *)
Run(S, n, x, e, g, h) ==
    /\ n \in Nat \ {0} /\ x \in Seq(S) /\ e \in [1..n -> Seq(S)] /\ g \in [1..n -> Seq(S)]
    /\ \A k \in 1..n : Joins(g, e, k) /\ h[k + 1] = Cat(h[k], e[k])
    /\ h[1] = x

Ends(n, x, g, h) == h[n + 1] = Cat(x, g[n])

LEMMA JoinShifted ==
    ASSUME NEW S, NEW n, NEW x, NEW e, NEW g, NEW h, Run(S, n, x, e, g, h)
    PROVE  Ends(n, x, g, h)
<1> USE DEF Run, Ends
<1>0. \A a, b \in Seq(S) : Cat(Cat(x, a), b) = Cat(x, Cat(a, b))
  BY CatAlike
<1> DEFINE bad == {k \in Nat : k \in 1..n /\ h[k + 1] # Cat(x, g[k])}
<1>1. ASSUME bad # {} PROVE FALSE
  <2>1. PICK k \in bad : \A j \in bad : k <= j
    BY <1>1, LeastNat
  <2>2. k \in Nat /\ k \in 1..n /\ h[k + 1] # Cat(x, g[k]) /\ h[k + 1] = Cat(h[k], e[k])
    BY <2>1, Zenon
  <2>3. CASE k = 1
    <3>1. Joins(g, e, 1) /\ h[1] = x
      BY <2>2, <2>3
    <3> QED BY <2>2, <2>3, <3>1 DEF Joins, Cat
  <2>4. CASE k # 1
    <3>1. k - 1 \in 1..n /\ k - 1 \in Nat /\ ~(k <= k - 1) /\ k - 1 + 1 = k
      BY <2>2, <2>4
    <3>2. h[k - 1 + 1] = Cat(x, g[k - 1])
      BY <2>1, <3>1
    <3>3. h[k] = Cat(x, g[k - 1]) /\ g[k] = Cat(g[k - 1], e[k])
      BY <2>2, <2>4, <3>1, <3>2 DEF Joins, Cat
    <3>4. g[k - 1] \in Seq(S) /\ e[k] \in Seq(S)
      BY <2>2, <3>1
    <3> HIDE DEF bad
    <3>5. Cat(Cat(x, g[k - 1]), e[k]) = Cat(x, Cat(g[k - 1], e[k]))
      BY <1>0, <3>4
    <3> QED BY <2>2, <3>3, <3>5, Zenon
  <2> QED BY <2>3, <2>4
<1>2. n \in Nat /\ n \in 1..n
  OBVIOUS
<1> QED BY <1>1, <1>2

(* One sequence more at the front. *)
LEMMA FlattenPrepend ==
    ASSUME NEW S, NEW q \in Seq(Seq(S)), NEW x \in Seq(S), NEW w \in Seq(Seq(S)),
           w # <<>>, Head(w) = x, Tail(w) = q
    PROVE  FlattenSeq(w) = x \o FlattenSeq(q)
<1> DEFINE n == Len(q)
<1>1. /\ Len(w) = n + 1 /\ n \in Nat
      /\ \A i \in 1..n : w[i + 1] = q[i] /\ q[i] \in Seq(S)
  <2>1. Len(q) = Len(w) - 1 /\ \A i \in 1..Len(q) : q[i] = w[i + 1]
    BY HeadTailProperties
  <2> QED BY <2>1, ElementOfSeq
<1>w. w[1] = x
  OBVIOUS
<1>2. PICK h \in [1..Len(w) -> Seq(S)] :
         FlattenSeq(w) = h[Len(w)] /\ \A i \in 1..Len(w) : Joins(h, w, i)
  BY <1>1, FlattenIsJoin
<1>3. h[1] = x
  <2>1. 1 \in 1..Len(w)
    BY <1>1
  <2> QED BY <1>2, <1>w, <2>1 DEF Joins
<1>4. CASE q = <<>>
  <2>1. n = 0 /\ FlattenSeq(q) = <<>>
    BY <1>4, FlattenType
  <2>2. FlattenSeq(w) = x
    BY <1>1, <1>2, <1>3, <2>1
  <2> QED BY <2>1, <2>2, ConcatEmptySeq
<1>5. CASE q # <<>>
  <2>1. PICK g \in [1..n -> Seq(S)] :
           FlattenSeq(q) = g[n] /\ \A i \in 1..n : Joins(g, q, i)
    BY <1>5, FlattenIsJoin
  <2>2. n \in Nat \ {0}
    BY <1>5, EmptySeq
  <2> HIDE DEF n
  <2>3. \A k \in 1..n : h[k + 1] = h[k] \o q[k]
    <3> SUFFICES ASSUME NEW k \in 1..n PROVE h[k + 1] = h[k] \o q[k]
      OBVIOUS
    <3>1. PICK m \in 1..Len(w) : m = k + 1 /\ m # 1 /\ m - 1 = k
      <4>1. Len(w) = n + 1
        BY <1>1 DEF n
      <4>2. k + 1 \in 1..(n + 1) /\ k + 1 # 1 /\ k + 1 - 1 = k
        BY <2>2
      <4> QED BY <4>1, <4>2
    <3>2. Joins(h, w, m) /\ w[m] = q[k]
      BY <1>1, <1>2, <3>1 DEF n
    <3> QED BY <3>1, <3>2 DEF Joins
  <2>4. h[n + 1] = x \o g[n]
    <3>1. PICK l \in Nat \ {0} : l = n
      BY <2>2
    <3>2. PICK e \in [1..l -> Seq(S)] : e = q
      BY <1>1, <3>1 DEF n
    <3>3. PICK f \in [1..l -> Seq(S)] : f = g
      BY <3>1
    <3>4. Run(S, l, x, e, f, h)
      BY <1>3, <2>1, <2>3, <3>1, <3>2, <3>3 DEF Run, Cat
    <3>5. Ends(l, x, f, h)
      BY <3>4, JoinShifted
    <3> QED BY <3>1, <3>3, <3>5 DEF Cat, Ends
  <2> QED BY <1>1, <1>2, <2>1, <2>4 DEF n
<1> QED BY <1>4, <1>5

-----------------------------------------------------------------------------
(* A caller's batch put together again: settled, waited for, to send. *)
Done(rs) == [i \in DOMAIN rs |-> rs[i].part]
Whole(rs, w, t) == Cat(Cat(FlattenSeq(Done(rs)), w), FlattenSeq(t))
Settled == [part: Part, result: Result]

LEMMA CatFacts ==
    ASSUME NEW S
    PROVE  /\ \A a, b, d \in Seq(S) : Cat(Cat(a, b), d) = Cat(a, Cat(b, d))
           /\ \A a, b \in Seq(S) : Cat(a, b) \in Seq(S)
           /\ \A a \in Seq(S) : Cat(a, <<>>) = a /\ Cat(<<>>, a) = a
           /\ <<>> \in Seq(S)
<1>1. \A a \in Seq(S) : \A b, d \in Seq(S) : Cat(Cat(a, b), d) = Cat(a, Cat(b, d))
  BY CatAlike
<1>2. \A a, b \in Seq(S) : Cat(a, b) \in Seq(S)
  BY ConcatProperties DEF Cat
<1>3. \A a \in Seq(S) : Cat(a, <<>>) = a /\ Cat(<<>>, a) = a
  BY ConcatEmptySeq DEF Cat
<1> QED BY <1>1, <1>2, <1>3

LEMMA PartsAreSeqs ==
    /\ Part \subseteq Seq(Nat)
    /\ \A t \in Seq(Part) : t \in Seq(Seq(Nat)) /\ FlattenSeq(t) \in Seq(Nat)
<1>1. Part \subseteq Seq(Nat)
  BY DEF Part
<1>2. ASSUME NEW t \in Seq(Part) PROVE t \in Seq(Seq(Nat))
  BY <1>1, SeqMonotonic
<1> QED BY <1>1, <1>2, FlattenType

(* A report more is a part more. *)
LEMMA DoneFacts ==
    ASSUME NEW rs \in Seq(Settled), NEW r \in Settled
    PROVE  /\ Done(rs) \in Seq(Part) /\ Append(rs, r) \in Seq(Settled)
           /\ Done(Append(rs, r)) = Append(Done(rs), r.part)
<1>1. ASSUME NEW s \in Seq(Settled)
      PROVE  /\ Done(s) \in Seq(Part) /\ Len(Done(s)) = Len(s)
             /\ Len(s) \in Nat
             /\ \A i \in 1..Len(s) : Done(s)[i] = s[i].part /\ s[i].part \in Part
  <2>1. Len(s) \in Nat /\ DOMAIN s = 1..Len(s) /\ \A i \in 1..Len(s) : s[i] \in Settled
    BY SeqFacts
  <2>2. \A i \in 1..Len(s) : s[i].part \in Part
    BY <2>1 DEF Settled
  <2>3. Done(s) = [i \in 1..Len(s) |-> s[i].part]
    BY <2>1 DEF Done
  <2>4. Done(s) \in [1..Len(s) -> Part] /\ \A i \in 1..Len(s) : Done(s)[i] = s[i].part
    BY <2>2, <2>3
  <2>5. Done(s) \in Seq(Part) /\ Len(Done(s)) = Len(s)
    BY <2>1, <2>4
  <2> QED BY <2>1, <2>2, <2>4, <2>5
<1> DEFINE u == Append(rs, r)
           v == Append(Done(rs), r.part)
<1>2. r.part \in Part
  BY DEF Settled
<1>3. /\ u \in Seq(Settled) /\ Len(u) = Len(rs) + 1 /\ u[Len(rs) + 1] = r
      /\ \A i \in 1..Len(rs) : u[i] = rs[i]
  BY AppendProperties
<1>4. /\ Done(rs) \in Seq(Part) /\ Len(Done(rs)) = Len(rs) /\ Len(rs) \in Nat
      /\ \A i \in 1..Len(rs) : Done(rs)[i] = rs[i].part
  BY <1>1
<1>5. /\ v \in Seq(Part) /\ Len(v) = Len(Done(rs)) + 1 /\ v[Len(Done(rs)) + 1] = r.part
      /\ \A i \in 1..Len(Done(rs)) : v[i] = Done(rs)[i]
  BY <1>2, <1>4, AppendProperties
<1> HIDE DEF u, v
<1>6. /\ Done(u) \in Seq(Part) /\ Len(Done(u)) = Len(u)
      /\ \A i \in 1..Len(u) : Done(u)[i] = u[i].part
  BY <1>1, <1>3
<1>7. ASSUME NEW i \in 1..Len(Done(u)) PROVE Done(u)[i] = v[i]
  <2>1. i \in 1..(Len(rs) + 1) /\ i \in 1..Len(u)
    BY <1>3, <1>6
  <2>2. CASE i = Len(rs) + 1
    BY <1>3, <1>4, <1>5, <1>6, <2>1, <2>2
  <2>3. CASE i \in 1..Len(rs)
    BY <1>3, <1>4, <1>5, <1>6, <2>1, <2>3
  <2> QED BY <1>4, <2>1, <2>2, <2>3
<1>8. Len(Done(u)) = Len(v)
  BY <1>3, <1>4, <1>5, <1>6
<1>9. Done(u) = v
  BY <1>5, <1>6, <1>7, <1>8, SeqEqual
<1> QED BY <1>3, <1>4, <1>9 DEF u, v

(* post: the first part still to send is the one an answer is waited for. *)
LEMMA WholePosted ==
    ASSUME NEW rs \in Seq(Settled), NEW t \in Seq(Part), t # <<>>
    PROVE  Whole(rs, Head(t), Tail(t)) = Whole(rs, <<>>, t)
<1> DEFINE d == FlattenSeq(Done(rs))
           f == FlattenSeq(Tail(t))
           g == FlattenSeq(t)
           h == Head(t)
<1>1. Head(t) \in Part /\ Tail(t) \in Seq(Part)
  BY FirstTaken
<1>2. Done(rs) \in Seq(Part)
  <2>1. PICK r : r \in [part: Part, result: Result]
    <3>1. [part |-> Head(t), result |-> "written"] \in [part: Part, result: Result]
      BY <1>1 DEF Result
    <3> QED BY <3>1
  <2> QED BY <2>1, DoneFacts DEF Settled
<1>3. d \in Seq(Nat) /\ f \in Seq(Nat) /\ h \in Seq(Nat)
  BY <1>1, <1>2, PartsAreSeqs
<1>4. g = h \o f
  BY <1>1, PartsAreSeqs, FlattenPrepend
<1>5. g = Cat(h, f)
  BY <1>4 DEF Cat
<1> HIDE DEF d, f, g, h
<1>6. Cat(Cat(d, h), f) = Cat(Cat(d, <<>>), g)
  BY <1>3, <1>5, CatFacts
<1> QED BY <1>6 DEF Whole, d, f, g, h

(* A part is settled. *)
LEMMA WholeReported ==
    ASSUME NEW rs \in Seq(Settled), NEW t \in Seq(Part), NEW w \in Part, NEW res \in Result
    PROVE  Whole(Append(rs, Report(w, res)), <<>>, t) = Whole(rs, w, t)
<1> DEFINE d == FlattenSeq(Done(rs))
           u == Append(rs, Report(w, res))
           e == FlattenSeq(Done(u))
           f == FlattenSeq(t)
<1>1. Report(w, res) \in Settled /\ Report(w, res).part = w
  BY DEF Report, Settled
<1>2. Done(rs) \in Seq(Part) /\ Done(u) = Append(Done(rs), w)
  BY <1>1, DoneFacts
<1>3. d \in Seq(Nat) /\ f \in Seq(Nat) /\ w \in Seq(Nat)
  BY <1>2, PartsAreSeqs
<1>4. e = d \o w
  BY <1>2, PartsAreSeqs, FlattenAppend
<1>5. e = Cat(d, w)
  BY <1>4 DEF Cat
<1> HIDE DEF d, u, e, f
<1>6. Cat(Cat(e, <<>>), f) = Cat(Cat(d, w), f)
  BY <1>3, <1>5, CatFacts
<1> QED BY <1>6 DEF Whole, d, u, e, f

(* send: the halves of a part are the part. *)
LEMMA HalvesJoin ==
    ASSUME NEW w \in Part, Len(w) > 1
    PROVE  /\ Halves(w) \in Seq(Part)
           /\ \E f, g \in Part : Halves(w) = <<f, g>> /\ Cat(f, g) = w
<1>1. Halves(w) \in Seq(Part)
  BY HalvesAreParts
<1> DEFINE n == Len(w)
           h == n \div 2
<1>2. w \in Seq(Nat) /\ n \in Nat
  BY SeqFacts DEF Part
<1>3. h \in 1..(n - 1)
  BY <1>2
<1> HIDE DEF h, n
<1>4. 1 \in 1..n + 1 /\ h \in 1 - 1 .. n /\ n \in h .. n
  BY <1>2, <1>3
<1>5. SubSeq(w, 1, h) \o SubSeq(w, h + 1, n) = SubSeq(w, 1, n)
  BY <1>2, <1>4, ConcatAdjacentSubSeq DEF n
<1>6. SubSeq(w, 1, n) = w
  BY <1>2, SubSeqFull DEF n
<1>7. 1 \in 1..n /\ h \in 1..n /\ h + 1 \in 1..n /\ n \in (h + 1)..n
  BY <1>2, <1>3
<1>8. SubSeq(w, 1, h) \in Part /\ SubSeq(w, h + 1, n) \in Part
  BY <1>7, Piece DEF n
<1>9. Halves(w) = <<SubSeq(w, 1, h), SubSeq(w, h + 1, n)>>
  BY DEF Halves, h, n
<1>10. Cat(SubSeq(w, 1, h), SubSeq(w, h + 1, n)) = w
  BY <1>5, <1>6 DEF Cat
<1> QED BY <1>1, <1>8, <1>9, <1>10

(* Two parts before others. *)
Leads(f, g, t, u) == u = <<f, g>> \o t
Leaves(S, f, g, t, u) ==
    /\ u \in Seq(S) /\ u # <<>> /\ Head(u) = f /\ Tail(u) \in Seq(S)
    /\ Tail(u) # <<>> /\ Head(Tail(u)) = g /\ Tail(Tail(u)) = t

LEMMA PairPrepended ==
    ASSUME NEW S, NEW f \in S, NEW g \in S, NEW t \in Seq(S), NEW u, Leads(f, g, t, u)
    PROVE  Leaves(S, f, g, t, u)
<1> DEFINE p == <<f, g>>
           v == Tail(u)
           x == Tail(v)
<1>1. p \in Seq(S) /\ Len(p) = 2 /\ p[1] = f /\ p[2] = g
  OBVIOUS
<1>2. Len(t) \in Nat
  BY LenProperties
<1> HIDE DEF p
<1>3. /\ u \in Seq(S) /\ Len(u) = Len(p) + Len(t)
      /\ \A i \in 1..(Len(p) + Len(t)) : u[i] = IF i <= Len(p) THEN p[i] ELSE t[i - Len(p)]
  <2>1. u = p \o t
    BY DEF p, Leads
  <2> QED BY <1>1, <2>1, ConcatProperties
<1>4. Len(u) = 2 + Len(t) /\ u[1] = f /\ u[2] = g
  <2>1. 1 \in 1..(2 + Len(t)) /\ 2 \in 1..(2 + Len(t))
    BY <1>2
  <2> QED BY <1>1, <1>3, <2>1
<1>5. \A i \in 1..Len(t) : u[i + 2] = t[i]
  <2> TAKE i \in 1..Len(t)
  <2>1. i + 2 \in 1..(2 + Len(t)) /\ ~(i + 2 <= 2) /\ i + 2 - 2 = i
    BY <1>2
  <2> QED BY <1>1, <1>3, <2>1
<1>6. u # <<>>
  BY <1>2, <1>3, <1>4, EmptySeq
<1>7. Head(u) = f /\ v \in Seq(S) /\ Len(v) = Len(u) - 1 /\ \A i \in 1..Len(v) : v[i] = u[i + 1]
  BY <1>3, <1>4, <1>6, HeadTailProperties
<1> HIDE DEF v
<1>8. v # <<>> /\ Len(v) = Len(t) + 1
  BY <1>2, <1>4, <1>7, EmptySeq
<1>9. v[1] = g
  <2>1. 1 \in 1..Len(v) /\ 1 + 1 = 2
    BY <1>2, <1>8
  <2> QED BY <1>4, <1>7, <2>1
<1>10. Head(v) = g /\ x \in Seq(S) /\ Len(x) = Len(v) - 1 /\ \A i \in 1..Len(x) : x[i] = v[i + 1]
  BY <1>7, <1>8, <1>9, HeadTailProperties
<1> HIDE DEF x
<1>11. Len(x) = Len(t)
  BY <1>2, <1>8, <1>10
<1>12. \A i \in 1..Len(x) : x[i] = t[i]
  <2> TAKE i \in 1..Len(x)
  <2>1. i + 1 \in 1..Len(v) /\ i + 1 + 1 = i + 2 /\ i \in 1..Len(t)
    BY <1>2, <1>8, <1>11
  <2> QED BY <1>5, <1>7, <1>10, <2>1
<1>13. x = t
  BY <1>10, <1>11, <1>12, SeqEqual
<1> QED BY <1>3, <1>6, <1>7, <1>8, <1>10, <1>13 DEF v, x, Leaves

(* The halves are sent next. *)
LEMMA WholeSplit ==
    ASSUME NEW rs \in Seq(Settled), NEW t \in Seq(Part), NEW w \in Part, Len(w) > 1
    PROVE  Whole(rs, <<>>, Halves(w) \o t) = Whole(rs, w, t)
<1>1. PICK f, g \in Part : Halves(w) = <<f, g>> /\ Cat(f, g) = w
  BY HalvesJoin
<1>0. PICK u : Leads(f, g, t, u)
  BY DEF Leads
<1>2. /\ u \in Seq(Part) /\ u # <<>> /\ Head(u) = f /\ Tail(u) \in Seq(Part)
      /\ Tail(u) # <<>> /\ Head(Tail(u)) = g /\ Tail(Tail(u)) = t
  <2>1. Leaves(Part, f, g, t, u)
    BY <1>0, PairPrepended
  <2> QED BY <2>1 DEF Leaves
<1>3. Halves(w) \o t = u
  BY <1>0, <1>1 DEF Leads
<1> DEFINE a == FlattenSeq(u)
           b == FlattenSeq(Tail(u))
           d == FlattenSeq(Done(rs))
           e == FlattenSeq(t)
<1>4. a = f \o b
  BY <1>2, PartsAreSeqs, FlattenPrepend
<1>5. b = g \o e
  BY <1>2, PartsAreSeqs, FlattenPrepend
<1>6. Done(rs) \in Seq(Part)
  <2>1. [part |-> w, result |-> "written"] \in Settled
    BY DEF Settled, Result
  <2> QED BY <2>1, DoneFacts
<1>7. d \in Seq(Nat) /\ e \in Seq(Nat) /\ f \in Seq(Nat) /\ g \in Seq(Nat)
  BY <1>6, PartsAreSeqs
<1>8. a = Cat(f, b) /\ b = Cat(g, e)
  BY <1>4, <1>5 DEF Cat
<1> HIDE DEF a, b, d, e
<1>9. b \in Seq(Nat) /\ a = Cat(Cat(f, g), e)
  BY <1>7, <1>8, CatFacts
<1>10. Cat(Cat(d, <<>>), a) = Cat(Cat(d, Cat(f, g)), e)
  BY <1>7, <1>9, CatFacts
<1> QED BY <1>1, <1>3, <1>10 DEF Whole, a, d, e

-----------------------------------------------------------------------------
(* What a step leaves of every caller's batch. *)
Kept == \A c \in Caller :
    Whole(reports'[c], waiting'[c], todo'[c]) = Whole(reports[c], waiting[c], todo[c])

LEMMA AccountedIsWhole ==
    BatchAccounted <=> \A c \in Caller : Whole(reports[c], waiting[c], todo[c]) = BatchOf[c]
BY DEF BatchAccounted, Whole, Done, Cat

LEMMA CallerTypes ==
    ASSUME Types, NEW c \in Caller
    PROVE  reports[c] \in Seq(Settled) /\ todo[c] \in Seq(Part) /\ waiting[c] \in Part \cup {<<>>}
BY DEF Types, Settled

LEMMA PostAccounted ==
    ASSUME Types, NEW c \in Caller, Post(c)
    PROVE  Kept
<1>1. /\ waiting[c] = <<>> /\ todo[c] # <<>> /\ reports' = reports
      /\ waiting' = [waiting EXCEPT ![c] = Head(todo[c])]
      /\ todo' = [todo EXCEPT ![c] = Tail(todo[c])]
  BY DEF Post
<1>2. /\ waiting'[c] = Head(todo[c]) /\ todo'[c] = Tail(todo[c])
      /\ \A d \in Caller : d # c => waiting'[d] = waiting[d] /\ todo'[d] = todo[d]
  BY <1>1 DEF Types
<1>3. Whole(reports[c], Head(todo[c]), Tail(todo[c])) = Whole(reports[c], <<>>, todo[c])
  BY <1>1, CallerTypes, WholePosted
<1> QED BY <1>1, <1>2, <1>3 DEF Kept

LEMMA GiveUpAccounted ==
    ASSUME Types, NEW c \in Caller, GiveUp(c)
    PROVE  Kept
<1>1. /\ waiting[c] # <<>> /\ todo' = todo
      /\ waiting' = [waiting EXCEPT ![c] = <<>>]
      /\ reports' = [reports EXCEPT ![c] = Append(reports[c], Report(waiting[c], "gave_up"))]
  BY DEF GiveUp
<1>2. /\ waiting'[c] = <<>> /\ reports'[c] = Append(reports[c], Report(waiting[c], "gave_up"))
      /\ \A d \in Caller : d # c => waiting'[d] = waiting[d] /\ reports'[d] = reports[d]
  BY <1>1 DEF Types
<1>3. waiting[c] \in Part /\ "gave_up" \in Result
  BY <1>1, CallerTypes DEF Result
<1>4. Whole(Append(reports[c], Report(waiting[c], "gave_up")), <<>>, todo[c]) =
          Whole(reports[c], waiting[c], todo[c])
  BY <1>3, CallerTypes, WholeReported
<1> QED BY <1>1, <1>2, <1>4 DEF Kept

LEMMA BounceAccounted ==
    ASSUME Types, NEW c \in Caller, Bounce(c)
    PROVE  Kept
<1> DEFINE part == Head(todo[c])
           rest == Tail(todo[c])
           result == IF Len(part) > BodyFits THEN "too_large" ELSE "refused"
           split == result = "too_large" /\ Len(part) > 1
<1>1. waiting[c] = <<>> /\ todo[c] # <<>> /\ waiting' = waiting
  BY DEF Bounce
<1>2. reports[c] \in Seq(Settled) /\ todo[c] \in Seq(Part)
  BY CallerTypes
<1>3. part \in Part /\ rest \in Seq(Part) /\ result \in Result
  BY <1>1, <1>2, FirstTaken DEF Result
<1>4. todo' = [todo EXCEPT ![c] = (IF split THEN Halves(part) ELSE <<>>) \o rest]
  BY DEF Bounce
<1>5. reports' = IF split THEN reports
                 ELSE [reports EXCEPT ![c] = Append(reports[c], Report(part, result))]
  BY DEF Bounce
<1>6. Whole(reports[c], part, rest) = Whole(reports[c], <<>>, todo[c])
  BY <1>1, <1>2, WholePosted
<1>7. \A d \in Caller : d # c => todo'[d] = todo[d] /\ reports'[d] = reports[d]
  BY <1>4, <1>5 DEF Types
<1>8. Whole(reports'[c], <<>>, todo'[c]) = Whole(reports[c], part, rest)
  <2>1. CASE split
    <3>1. Len(part) > 1 /\ reports'[c] = reports[c]
      BY <1>5, <2>1
    <3>2. todo'[c] = Halves(part) \o rest
      BY <1>4, <2>1 DEF Types
    <3> HIDE DEF part, rest, result
    <3> QED BY <1>2, <1>3, <3>1, <3>2, WholeSplit
  <2>2. CASE ~split
    <3>1. todo'[c] = <<>> \o rest
      BY <1>4, <2>2 DEF Types
    <3>2. reports'[c] = Append(reports[c], Report(part, result))
      BY <1>5, <2>2 DEF Types
    <3> HIDE DEF part, rest, result
    <3>3. <<>> \o rest = rest
      BY <1>3, ConcatEmptySeq
    <3>4. Whole(Append(reports[c], Report(part, result)), <<>>, rest) =
            Whole(reports[c], part, rest)
      BY <1>2, <1>3, WholeReported
    <3> QED BY <3>1, <3>2, <3>3, <3>4
  <2> QED BY <2>1, <2>2
<1> HIDE DEF part, rest
<1> QED BY <1>1, <1>6, <1>7, <1>8 DEF Kept

(* An answer, also to a caller that waits for none of these parts. *)
LEMMA ToldAccounted ==
    ASSUME Types, NEW ws \in SUBSET Part, NEW res \in Result, Told(ws, res)
    PROVE  Kept
<1> SUFFICES ASSUME NEW c \in Caller
             PROVE  Whole(reports'[c], waiting'[c], todo'[c]) =
                       Whole(reports[c], waiting[c], todo[c])
  BY DEF Kept
<1> DEFINE split == waiting[c] \in ws /\ res = "too_large" /\ Len(waiting[c]) > 1
<1>1. todo'[c] = IF split THEN Halves(waiting[c]) \o todo[c] ELSE todo[c]
  BY DEF Told
<1>2. reports'[c] = IF waiting[c] \in ws /\ ~split
                    THEN Append(reports[c], Report(waiting[c], res)) ELSE reports[c]
  BY DEF Told
<1>3. waiting'[c] = IF waiting[c] \in ws THEN <<>> ELSE waiting[c]
  BY DEF Told
<1>4. reports[c] \in Seq(Settled) /\ todo[c] \in Seq(Part)
  BY CallerTypes
<1>5. CASE waiting[c] \notin ws
  BY <1>1, <1>2, <1>3, <1>5
<1>6. CASE waiting[c] \in ws /\ ~split
  <2>1. waiting[c] \in Part
    BY <1>6
  <2>2. Whole(Append(reports[c], Report(waiting[c], res)), <<>>, todo[c]) =
          Whole(reports[c], waiting[c], todo[c])
    BY <1>4, <2>1, WholeReported
  <2> QED BY <1>1, <1>2, <1>3, <1>6, <2>2
<1>7. CASE split
  <2>1. waiting[c] \in Part /\ Len(waiting[c]) > 1
    BY <1>7
  <2>2. Whole(reports[c], <<>>, Halves(waiting[c]) \o todo[c]) =
          Whole(reports[c], waiting[c], todo[c])
    BY <1>4, <2>1, WholeSplit
  <2> QED BY <1>1, <1>2, <1>3, <1>7, <2>2
<1> QED BY <1>5, <1>6, <1>7

LEMMA OverAccounted ==
    ASSUME Types, NEW w \in Range(queue), NEW res \in Result, Over(w, res)
    PROVE  Kept
<1>1. {w} \in SUBSET Part
  BY PartsInPlace
<1>2. Told({w}, res)
  BY DEF Over
<1> QED BY <1>1, <1>2, ToldAccounted

LEMMA NextAccounted ==
    ASSUME Types, [Next]_vars
    PROVE  Kept
<1> USE DEF Result
<1>1. CASE \E c \in Caller : Post(c) \/ Bounce(c) \/ GiveUp(c)
  BY <1>1, PostAccounted, BounceAccounted, GiveUpAccounted
<1>2. CASE UNCHANGED <<todo, waiting, reports>>
  BY <1>2 DEF Kept
<1>3. CASE Restart
  <2>1. Range(queue) \in SUBSET Part
    BY PartsInPlace
  <2> QED BY <1>3, <2>1, ToldAccounted DEF Restart
<1>4. CASE \E w \in Range(queue) : Begin(w) \/ Oversized(w)
  <2>1. ASSUME NEW w \in Range(queue), Begin(w) PROVE Kept
    BY <1>2, <2>1 DEF Begin, callerVars
  <2>2. ASSUME NEW w \in Range(queue), Oversized(w) PROVE Kept
    BY <2>2, OverAccounted DEF Oversized
  <2> QED BY <1>4, <2>1, <2>2
<1>5. ASSUME NEW a \in active,
             NotSent(a) \/ Send(a) \/ SendUnheard(a) \/ Receipt(a) \/ NoReceipt(a)
             \/ ReceiptWaitFails(a)
      PROVE  Kept
  <2>1. a.part \in Range(queue)
    BY InProgress
  <2>2. CASE Send(a)
    BY <1>2, <2>2 DEF Send, callerVars
  <2>3. CASE NotSent(a) \/ SendUnheard(a) \/ Receipt(a) \/ NoReceipt(a) \/ ReceiptWaitFails(a)
    <3>1. \E res \in Result : Over(a.part, res)
      BY <2>3 DEF NotSent, SendUnheard, Receipt, NoReceipt, ReceiptWaitFails
    <3> QED BY <2>1, <3>1, OverAccounted
  <2> QED BY <1>5, <2>2, <2>3
<1>6. CASE Mine \/ Forget \/ Tick \/ UNCHANGED vars
  BY <1>2, <1>6 DEF Mine, Forget, Tick, vars, callerVars
<1> QED BY <1>1, <1>3, <1>4, <1>5, <1>6 DEF Next, Serve

LEMMA InitAccounted == Init => BatchAccounted
<1> SUFFICES ASSUME Init, NEW c \in Caller
             PROVE  Whole(reports[c], waiting[c], todo[c]) = BatchOf[c]
  BY AccountedIsWhole
<1> DEFINE b == BatchOf[c]
<1>1. reports[c] = <<>> /\ waiting[c] = <<>> /\ todo[c] = IF b = <<>> THEN <<>> ELSE <<b>>
  BY DEF Init
<1>2. b \in Seq(Nat)
  BY SidecarAssumption
<1>3. Done(<<>>) = <<>>
  BY DEF Done
<1> HIDE DEF b
<1>4. FlattenSeq(<<>>) = <<>> /\ <<>> \in Seq(Seq(Nat))
  <2>1. PICK e \in Seq(Seq(Nat)) : e = <<>>
    <3>1. \A S : <<>> \in Seq(S)
      BY EmptySeq
    <3> QED BY <3>1
  <2>2. FlattenSeq(e) = <<>>
    BY <2>1, FlattenType
  <2> QED BY <2>1, <2>2
<1>5. FlattenSeq(<<b>>) = b
  <2>1. Append(<<>>, b) = <<b>>
    OBVIOUS
  <2>2. FlattenSeq(<<b>>) = FlattenSeq(<<>>) \o b
    BY <1>2, <1>4, <2>1, FlattenAppend
  <2> QED BY <1>2, <1>4, <2>2, ConcatEmptySeq
<1>6. FlattenSeq(todo[c]) = b
  BY <1>1, <1>4, <1>5
<1>7. Cat(Cat(<<>>, <<>>), b) = b
  BY <1>2, CatFacts
<1> QED BY <1>1, <1>3, <1>4, <1>6, <1>7 DEF Whole, b

(* Splitting loses no operation and sends none twice: what was reported,
   what is being sent and what is still to send are together the batch, in
   its order, whatever was refused, given up on or cut off (writer.rs: send). *)
THEOREM BatchIsAccounted == Spec => []BatchAccounted
<1>1. WInv /\ BatchAccounted /\ [Next]_vars => BatchAccounted'
  <2> SUFFICES ASSUME WInv, BatchAccounted, [Next]_vars PROVE BatchAccounted'
    OBVIOUS
  <2>1. Kept
    BY NextAccounted DEF WInv
  <2>2. \A c \in Caller : Whole(reports[c], waiting[c], todo[c]) = BatchOf[c]
    BY AccountedIsWhole
  <2>3. \A c \in Caller : Whole(reports'[c], waiting'[c], todo'[c]) = BatchOf[c]
    BY <2>1, <2>2 DEF Kept
  <2> QED BY <2>3 DEF BatchAccounted, Whole, Done, Cat
<1> QED BY <1>1, InitAccounted, WInvHolds, PTL DEF Spec
=============================================================================
