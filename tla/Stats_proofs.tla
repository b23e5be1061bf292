---------------------------- MODULE Stats_proofs ----------------------------
(***************************************************************************)
(* Stats for any providers, length of a ring and run of ticks, stops,      *)
(* crashes, failed saves, joins and leaves: no answer is counted twice or  *)
(* missed without need, a report has one row an hour, an hour not marked   *)
(* partial was whole, and the file loses only what could not be read.      *)
(***************************************************************************)
EXTENDS Stats, TLAPS, SequenceTheorems, WellFoundedInduction

(* A counter's ring, as it is in `rings' and in the file. *)
Ring == [buckets: Seq(Bucket), last: Nat \cup {None}, gone: Nat]

(* The histories and the file. *)
HistoryTypes ==
    /\ answered \in [Key -> Nat] /\ missed \in [Key -> Nat]
    /\ unread \in [Key -> Nat]
    /\ \A k \in Key : Len(file[k].buckets) <= Hours
    /\ cut \in [Key -> SUBSET Nat]

(* Without a process there is no pool, and nothing counts. *)
OffIsEmpty ==
    ~Running => /\ members = {} /\ fresh = Zeros /\ unsaved = Zeros /\ reading = Zeros
                /\ unread = Zeros

(* The counters there are. *)
Counted == members \cup {Lb}

(* What a counter shows beyond its last close is fresh.  One that left and
   came back shows less. *)
ReadsFresh(k) ==
    IF rings[k].last = None THEN reading[k] = fresh[k]
    ELSE /\ reading[k] <= fresh[k] + rings[k].last
         /\ k \notin rejoined => reading[k] = fresh[k] + rings[k].last

FreshIsRead ==
    /\ \A k \in Key : fresh[k] <= unsaved[k]
    /\ \A k \in Key \ Counted : fresh[k] = 0 /\ reading[k] = 0
    /\ \A k \in Counted : ReadsFresh(k)

(* The rings with what their process could not read, and the file, account
   for what was answered. *)
Balanced(k, ring, left) ==
    /\ Total(ring) + left + missed[k] <= answered[k]
    /\ k \notin rejoined => Total(ring) + left + missed[k] = answered[k]

RingsAccount == Running => \A k \in Key : Balanced(k, rings[k], fresh[k] + unread[k])
FileAccounts == \A k \in Key : Balanced(k, file[k], unsaved[k])

(* The rings of a process have at least what it read of the file. *)
FileBehind == Running => \A k \in Key : Total(file[k]) <= Total(rings[k]) + unread[k]

(* Buckets are in the order of their hours, none past the one being closed,
   in the rings as in the file. *)
Rising(bs) == \A i, j \in 1..Len(bs) : i < j => bs[i].start < bs[j].start
Bounded(bs, h) == \A i \in 1..Len(bs) : bs[i].start <= h
Ordered(ring, h) == Rising(ring.buckets) /\ Bounded(ring.buckets, h)

Closing == IF task \in {"waiting", "saving"} THEN open ELSE hour

InOrder == \A k \in Key : Ordered(rings[k], Closing) /\ Ordered(file[k], Closing)

(* A bucket that is not partial is of an earlier hour than the one that is
   counted, and of one that was not cut. *)
Past(ring, h, c) ==
    \A i \in 1..Len(ring.buckets) : \/ ring.buckets[i].partial
                                    \/ /\ ring.buckets[i].start < h
                                       /\ ring.buckets[i].start \notin c

Cuts(k) == IF k \in rejoined THEN {} ELSE cut[k]

WholeIsPast ==
    \A k \in Key : Past(rings[k], Counting, Cuts(k)) /\ Past(file[k], Counting, Cuts(k))

(* The hour being counted was not cut for a counter that was closed before. *)
NotCut ==
    /\ \A k \in Key : \A h \in cut[k] : h <= Counting
    /\ task \in {"waiting", "saving"} =>
          \A k \in Counted \ rejoined : rings[k].last # None => Counting \notin cut[k]

HInv == /\ TypeOK /\ HistoryTypes /\ OffIsEmpty /\ FreshIsRead /\ RingsAccount /\ FileAccounts
        /\ FileBehind /\ InOrder /\ WholeIsPast /\ NotCut
-----------------------------------------------------------------------------
(* A nonempty set of naturals has a least element: every argument by a least
   counterexample below starts from it. *)
LEMMA LeastExists ==
    ASSUME NEW S, S \subseteq Nat, S # {}
    PROVE  \E n \in S : \A m \in S : n <= m
<1>1. PICK n \in S : \A m \in S : ~(<<m, n>> \in OpToRel(<, Nat))
  BY NatLessThanWellFounded, WFMin
<1>2. ASSUME NEW m \in S PROVE n <= m
  <2>1. <<m, n>> \in Nat \X Nat
    OBVIOUS
  <2>2. ~(m < n)
    BY <1>1, <2>1 DEF OpToRel
  <2> QED BY <2>2
<1> QED BY <1>2

(* The partial sums of the counts of bs, up to n. *)
Sums(f, bs, n) ==
    /\ f \in [0..n -> Nat] /\ f[0] = 0
    /\ \A i \in 1..n : f[i] = f[i - 1] + bs[i].count

(* Every ring's buckets have partial sums: a least length without them would
   extend the sums of one bucket fewer. *)
LEMMA SumsExist ==
    ASSUME NEW bs \in Seq(Bucket)
    PROVE  \A n \in 0..Len(bs) : \E f : Sums(f, bs, n)
<1> DEFINE Bad == {n \in 0..Len(bs) : ~ \E f : Sums(f, bs, n)}
<1> SUFFICES ASSUME Bad # {} PROVE FALSE
  OBVIOUS
<1>1. Len(bs) \in Nat /\ Bad \subseteq Nat
  OBVIOUS
<1>2. PICK n \in Bad : \A m \in Bad : n <= m
  BY <1>1, LeastExists
<1>3. n \in 0..Len(bs) /\ ~ \E f : Sums(f, bs, n)
  OBVIOUS
<1>4. CASE n = 0
  <2>1. Sums([i \in 0..0 |-> 0], bs, 0)
    BY DEF Sums
  <2> QED BY <2>1, <1>3, <1>4
<1>5. CASE n # 0
  <2>1. n - 1 \in 0..Len(bs) /\ n - 1 \notin Bad
    BY <1>1, <1>2, <1>3, <1>5
  <2>2. PICK f : Sums(f, bs, n - 1)
    BY <2>1
  <2>3. bs[n] \in Bucket /\ bs[n].count \in Nat /\ n \in Nat /\ n \in 1..Len(bs)
    <3>1. n \in 1..Len(bs)
      BY <1>1, <1>3, <1>5
    <3>2. bs[n] \in Bucket
      BY <3>1
    <3> QED BY <3>1, <3>2, <1>1 DEF Bucket
  <2> DEFINE g == [i \in 0..n |-> IF i = n THEN f[n - 1] + bs[n].count ELSE f[i]]
  <2>4. f \in [0..(n - 1) -> Nat] /\ f[0] = 0
        /\ \A i \in 1..(n - 1) : f[i] = f[i - 1] + bs[i].count
    BY <2>2 DEF Sums
  <2>5. g \in [0..n -> Nat]
    BY <2>3, <2>4, <1>5
  <2>6. g[0] = 0
    BY <2>3, <2>4, <1>5
  <2>7. ASSUME NEW i \in 1..n PROVE g[i] = g[i - 1] + bs[i].count
    <3>1. CASE i = n
      BY <3>1, <2>3, <1>5
    <3>2. CASE i # n
      <4>1. i \in 1..(n - 1) /\ i - 1 \in 0..n /\ i - 1 # n
        BY <3>2, <2>3
      <4> QED BY <4>1, <2>4, <3>2
    <3> QED BY <3>1, <3>2
  <2>8. Sums(g, bs, n)
    BY <2>5, <2>6, <2>7 DEF Sums
  <2> QED BY <2>8, <1>3
<1> QED BY <1>4, <1>5

(* Count is the last of the partial sums. *)
LEMMA CountSums ==
    ASSUME NEW bs \in Seq(Bucket)
    PROVE  \E f : Sums(f, bs, Len(bs)) /\ Count(bs) = f[Len(bs)]
<1> DEFINE eq(g) == [i \in 0..Len(bs) |-> IF i = 0 THEN 0 ELSE g[i - 1] + bs[i].count]
<1>1. Len(bs) \in Nat
  OBVIOUS
<1>2. PICK f : Sums(f, bs, Len(bs))
  BY <1>1, SumsExist
<1>3. f = eq(f)
  BY <1>1, <1>2 DEF Sums
<1>4. PICK g : g = CHOOSE h : h = eq(h)
  OBVIOUS
<1>5. g = eq(g)
  BY <1>3, <1>4
<1>6. Count(bs) = g[Len(bs)]
  BY <1>4 DEF Count
<1>7. \A i \in 0..Len(bs) : g[i] = IF i = 0 THEN 0 ELSE g[i - 1] + bs[i].count
  BY <1>5, <1>1
<1>8. DOMAIN g = 0..Len(bs)
  BY <1>5
<1>9. ASSUME NEW i \in 0..Len(bs), g[i] # f[i] PROVE FALSE
  <2> DEFINE Bad == {j \in 0..Len(bs) : g[j] # f[j]}
  <2>1. Bad \subseteq Nat /\ Bad # {}
    BY <1>1, <1>9
  <2>2. PICK j \in Bad : \A m \in Bad : j <= m
    BY <2>1, LeastExists
  <2>3. j \in 0..Len(bs) /\ g[j] # f[j]
    OBVIOUS
  <2>4. j # 0
    BY <1>1, <1>2, <1>7, <2>3 DEF Sums
  <2>5. j - 1 \in 0..Len(bs) /\ j \in 1..Len(bs) /\ j - 1 \notin Bad
    BY <1>1, <2>2, <2>3, <2>4
  <2>6. g[j - 1] = f[j - 1]
    BY <2>5
  <2> QED BY <1>2, <1>7, <2>3, <2>4, <2>5, <2>6 DEF Sums
<1>10. Len(bs) \in 0..Len(bs)
  BY <1>1
<1> QED BY <1>2, <1>6, <1>9, <1>10

(* The first k counts of t are those of s after p. *)
Agree(s, t, p, k) == \A i \in 1..k : s[i + p].count = t[i].count /\ t[i].count \in Nat

(* Where the counts agree from p on, so do the partial sums. *)
LEMMA SumsShift ==
    ASSUME NEW f, NEW g, NEW s, NEW t, NEW m \in Nat, NEW n \in Nat, NEW p \in Nat,
           NEW k \in Nat, Sums(f, s, m), Sums(g, t, n), p + k <= m, k <= n,
           Agree(s, t, p, k)
    PROVE  f[k + p] = f[p] + g[k]
<1> DEFINE Bad == {j \in 0..k : f[j + p] # f[p] + g[j]}
<1> SUFFICES ASSUME Bad # {} PROVE FALSE
  <2>1. k \in 0..k
    OBVIOUS
  <2> QED BY <2>1
<1>1. Bad \subseteq Nat
  OBVIOUS
<1>2. PICK j \in Bad : \A i \in Bad : j <= i
  BY <1>1, LeastExists
<1>3. j \in 0..k /\ f[j + p] # f[p] + g[j]
  OBVIOUS
<1>4. f \in [0..m -> Nat] /\ g \in [0..n -> Nat] /\ g[0] = 0
      /\ (\A i \in 1..m : f[i] = f[i - 1] + s[i].count)
      /\ (\A i \in 1..n : g[i] = g[i - 1] + t[i].count)
  BY DEF Sums
<1>5. f[p] \in Nat
  BY <1>4
<1>6. j # 0
  BY <1>3, <1>4, <1>5
<1>7. j - 1 \in 0..k /\ j \in 1..k /\ j - 1 \notin Bad /\ j \in 1..n /\ j + p \in 1..m
  BY <1>2, <1>3, <1>6
<1>8. f[j - 1 + p] = f[p] + g[j - 1]
  BY <1>7
<1>9. f[j + p] = f[j + p - 1] + s[j + p].count
  BY <1>4, <1>7
<1>10. j + p - 1 = j - 1 + p
  BY <1>7
<1>11. g[j] = g[j - 1] + t[j].count /\ s[j + p].count = t[j].count
  BY <1>4, <1>7 DEF Agree
<1>12. j + p \in 0..m /\ j + p - 1 \in 0..m /\ j - 1 \in 0..n /\ j \in 0..n
  BY <1>7
<1>13. f[j + p] \in Nat /\ f[j + p - 1] \in Nat /\ g[j] \in Nat /\ g[j - 1] \in Nat
  BY <1>4, <1>12
<1>14. PICK c \in Nat : c = t[j].count
  BY <1>7 DEF Agree
<1>15. f[j + p] = (f[p] + g[j - 1]) + c /\ g[j] = g[j - 1] + c
  BY <1>8, <1>9, <1>10, <1>11, <1>14
<1> QED BY <1>3, <1>5, <1>13, <1>15

(* A count is a number. *)
LEMMA CountType ==
    ASSUME NEW bs \in Seq(Bucket)
    PROVE  Count(bs) \in Nat
<1>1. PICK f : Sums(f, bs, Len(bs)) /\ Count(bs) = f[Len(bs)]
  BY CountSums
<1>2. Len(bs) \in Nat
  OBVIOUS
<1> QED BY <1>1, <1>2 DEF Sums

(* What is in a ring is a bucket. *)
LEMMA BucketFields ==
    ASSUME NEW bs \in Seq(Bucket), NEW i \in 1..Len(bs)
    PROVE  bs[i] \in Bucket /\ bs[i].count \in Nat /\ bs[i].start \in Nat /\ bs[i].partial \in BOOLEAN
<1>1. bs[i] \in Bucket
  OBVIOUS
<1> QED BY <1>1 DEF Bucket

(* A ring without buckets counts nothing. *)
LEMMA CountEmpty == Count(<<>>) = 0
<1>1. <<>> \in Seq(Bucket) /\ Len(<<>>) = 0
  OBVIOUS
<1>2. PICK f : Sums(f, <<>>, Len(<<>>)) /\ Count(<<>>) = f[Len(<<>>)]
  BY <1>1, CountSums
<1> QED BY <1>1, <1>2 DEF Sums

(* A new bucket (close) adds its count. *)
LEMMA CountAppend ==
    ASSUME NEW bs \in Seq(Bucket), NEW b \in Bucket
    PROVE  Count(Append(bs, b)) = Count(bs) + b.count
<1>1. PICK n \in Nat : n = Len(bs)
  OBVIOUS
<1>2. PICK s : s = Append(bs, b)
  OBVIOUS
<1>3. s \in Seq(Bucket) /\ Len(s) = n + 1 /\ s[n + 1] = b /\ \A i \in 1..n : s[i] = bs[i]
  BY <1>1, <1>2
<1>4. PICK f : Sums(f, s, n + 1) /\ Count(s) = f[n + 1]
  BY <1>3, CountSums
<1>5. PICK g : Sums(g, bs, n) /\ Count(bs) = g[n]
  BY <1>1, CountSums
<1>6. ASSUME NEW i \in 1..n PROVE s[i + 0].count = bs[i].count /\ bs[i].count \in Nat
  <2>1. i + 0 = i /\ i \in 1..Len(bs)
    BY <1>1
  <2> QED BY <2>1, <1>3, BucketFields
<1>7. f[n + 0] = f[0] + g[n]
  <2>1. 0 + n <= n + 1 /\ n <= n /\ 0 \in Nat /\ n + 1 \in Nat
    OBVIOUS
  <2>2. Agree(s, bs, 0, n)
    BY <1>6 DEF Agree
  <2> QED BY <2>1, <1>4, <1>5, <2>2, SumsShift
<1>8. f[n + 1] = f[n] + s[n + 1].count /\ f[0] = 0 /\ g[n] \in Nat /\ n + 0 = n
  <2>1. n + 1 \in 1..(n + 1) /\ n + 1 - 1 = n /\ n \in 0..n /\ n + 0 = n
    OBVIOUS
  <2> QED BY <2>1, <1>4, <1>5 DEF Sums
<1>9. f[n] = g[n]
  BY <1>7, <1>8
<1> QED BY <1>2, <1>3, <1>4, <1>5, <1>8, <1>9

(* The bucket that makes room (pop_front) takes its count away. *)
LEMMA CountTail ==
    ASSUME NEW bs \in Seq(Bucket), bs # <<>>
    PROVE  /\ Tail(bs) \in Seq(Bucket) /\ Len(Tail(bs)) = Len(bs) - 1
           /\ \A i \in 1..Len(Tail(bs)) : i + 1 \in 1..Len(bs) /\ Tail(bs)[i] = bs[i + 1]
           /\ Head(bs) = bs[1] /\ bs[1].count \in Nat
           /\ Count(bs) = Count(Tail(bs)) + bs[1].count
<1>1. PICK n \in Nat : n + 1 = Len(bs)
  <2>1. Len(bs) \in Nat /\ Len(bs) # 0
    OBVIOUS
  <2>2. Len(bs) - 1 \in Nat /\ Len(bs) - 1 + 1 = Len(bs)
    BY <2>1
  <2> QED BY <2>2
<1>2. PICK t : t = Tail(bs)
  OBVIOUS
<1>3. t \in Seq(Bucket) /\ Len(t) = n /\ \A i \in 1..n : t[i] = bs[i + 1]
  BY <1>1, <1>2
<1>4. PICK f : Sums(f, bs, n + 1) /\ Count(bs) = f[n + 1]
  BY <1>1, CountSums
<1>5. PICK g : Sums(g, t, n) /\ Count(t) = g[n]
  BY <1>3, CountSums
<1>6. ASSUME NEW i \in 1..n PROVE bs[i + 1].count = t[i].count /\ t[i].count \in Nat
  BY <1>3, BucketFields
<1>7. f[n + 1] = f[1] + g[n]
  <2>1. 1 + n <= n + 1 /\ n <= n /\ 1 \in Nat /\ n + 1 \in Nat
    OBVIOUS
  <2>2. Agree(bs, t, 1, n)
    BY <1>6 DEF Agree
  <2> QED BY <2>1, <1>4, <1>5, <2>2, SumsShift
<1>8. bs[1].count \in Nat /\ 1 \in 1..(n + 1) /\ 1 - 1 = 0
  <2>1. 1 \in 1..Len(bs) /\ 1 \in 1..(n + 1) /\ 1 - 1 = 0
    BY <1>1
  <2> QED BY <2>1, BucketFields
<1>9. f[1] = f[0] + bs[1].count /\ f[0] = 0
  BY <1>4, <1>8 DEF Sums
<1>10. f[1] = bs[1].count /\ g[n] \in Nat
  BY <1>3, <1>5, <1>8, <1>9, CountType
<1>11. Count(bs) = Count(Tail(bs)) + bs[1].count
  BY <1>2, <1>4, <1>5, <1>7, <1>8, <1>10
<1>12. Head(bs) = bs[1]
  OBVIOUS
<1>13. \A i \in 1..n : i + 1 \in 1..Len(bs)
  BY <1>1
<1> QED BY <1>1, <1>2, <1>3, <1>8, <1>11, <1>12, <1>13

(* What is added to the newest bucket is added to the count. *)
LEMMA CountLast ==
    ASSUME NEW bs \in Seq(Bucket), NEW t \in Seq(Bucket), bs # <<>>, Len(t) = Len(bs),
           NEW c \in Nat,
           \A i \in 1..(Len(bs) - 1) : t[i] = bs[i],
           t[Len(bs)].count = bs[Len(bs)].count + c
    PROVE  Count(t) = Count(bs) + c
<1>1. PICK n \in Nat : n + 1 = Len(bs)
  <2>1. Len(bs) \in Nat /\ Len(bs) # 0
    OBVIOUS
  <2>2. Len(bs) - 1 \in Nat /\ Len(bs) - 1 + 1 = Len(bs)
    BY <2>1
  <2> QED BY <2>2
<1>2. \A i \in 1..n : t[i] = bs[i]
  BY <1>1
<1>3. PICK f : Sums(f, t, n + 1) /\ Count(t) = f[n + 1]
  BY <1>1, CountSums
<1>4. PICK g : Sums(g, bs, n + 1) /\ Count(bs) = g[n + 1]
  BY <1>1, CountSums
<1>5. ASSUME NEW i \in 1..n PROVE t[i + 0].count = bs[i].count /\ bs[i].count \in Nat
  <2>1. i + 0 = i /\ i \in 1..Len(bs)
    BY <1>1
  <2> QED BY <2>1, <1>2, BucketFields
<1>6. f[n + 0] = f[0] + g[n]
  <2>1. 0 + n <= n + 1 /\ n <= n + 1 /\ 0 \in Nat /\ n + 1 \in Nat
    OBVIOUS
  <2>2. Agree(t, bs, 0, n)
    BY <1>5 DEF Agree
  <2> QED BY <2>1, <1>3, <1>4, <2>2, SumsShift
<1>7. n + 1 \in 1..(n + 1) /\ n + 1 - 1 = n /\ n \in 0..(n + 1) /\ n + 0 = n
  OBVIOUS
<1>8. /\ f[n + 1] = f[n] + t[n + 1].count /\ f[0] = 0
      /\ g[n + 1] = g[n] + bs[n + 1].count /\ g[n] \in Nat
  <2>1. f[n + 1] = f[n + 1 - 1] + t[n + 1].count /\ f[0] = 0
    BY <1>3, <1>7 DEF Sums
  <2>2. g[n + 1] = g[n + 1 - 1] + bs[n + 1].count /\ g[n] \in Nat
    BY <1>4, <1>7 DEF Sums
  <2> QED BY <2>1, <2>2, <1>7
<1>9. f[n] = g[n]
  BY <1>6, <1>7, <1>8
<1>10. PICK d \in Nat : d = bs[n + 1].count
  <2>1. n + 1 \in 1..Len(bs)
    BY <1>1
  <2> QED BY <2>1, BucketFields
<1>11. t[n + 1].count = d + c
  BY <1>1, <1>10
<1> QED BY <1>3, <1>4, <1>8, <1>9, <1>10, <1>11

(* A bucket of a ring after a close: it was there, is partial, or is of the
   whole hour. *)
Explained(b, ring, start, stopping) ==
    \/ b.partial
    \/ \E j \in 1..Len(ring.buckets) : b = ring.buckets[j]
    \/ b.start = start /\ ~stopping /\ ring.last # None

(* The fields of a ring have their types, and what it counted is a number. *)
LEMMA RingFields ==
    ASSUME NEW ring \in Ring
    PROVE  /\ ring.buckets \in Seq(Bucket) /\ Len(ring.buckets) \in Nat
           /\ ring.last \in Nat \cup {None} /\ ring.gone \in Nat
           /\ Count(ring.buckets) \in Nat /\ Total(ring) \in Nat
<1>1. ring.buckets \in Seq(Bucket) /\ ring.last \in Nat \cup {None} /\ ring.gone \in Nat
  BY DEF Ring
<1>2. Len(ring.buckets) \in Nat /\ Count(ring.buckets) \in Nat
  BY <1>1, CountType
<1> QED BY <1>1, <1>2 DEF Total

(* What a close counts is a number: the difference saturates. *)
LEMMA SinceType ==
    ASSUME NEW ring \in Ring, NEW now \in Nat
    PROVE  Since(ring, now) \in Nat
BY RingFields DEF Since, None

(* What CloseRing promises. *)
Closes(new, ring, start, now, stopping) ==
    /\ new \in Ring /\ new.last = now /\ Total(new) = Total(ring) + Since(ring, now)
    /\ Len(ring.buckets) <= Hours => Len(new.buckets) <= Hours
    /\ Len(new.buckets) \in Nat \ {0} /\ new.buckets[Len(new.buckets)].start = start
    /\ Rising(ring.buckets) /\ Bounded(ring.buckets, start)
          => Rising(new.buckets) /\ Bounded(new.buckets, start)
    /\ \A i \in 1..Len(new.buckets) : Explained(new.buckets[i], ring, start, stopping)

(* A bucket's count replaced, field by field. *)
LEMMA BucketExcept ==
    ASSUME NEW o \in Bucket, NEW x
    PROVE  [o EXCEPT !.count = x] = [start |-> o.start, count |-> x, partial |-> o.partial]
<1>1. \A r, s, q, p : r = [start |-> s, count |-> q, partial |-> p]
                         => [r EXCEPT !.count = x] = [start |-> s, count |-> x, partial |-> p]
  OBVIOUS
<1>2. o = [start |-> o.start, count |-> o.count, partial |-> o.partial]
  BY DEF Bucket
<1> QED BY <1>1, <1>2, Zenon

(* A close in the hour of the newest bucket, left there by a stop, keeps the
   promise. *)
LEMMA MergeCloses ==
    ASSUME NEW ring \in Ring, NEW start \in Nat, NEW now \in Nat, NEW stopping \in BOOLEAN,
           SameHour(ring, start)
    PROVE  Closes(CloseRing(ring, start, now, stopping), ring, start, now, stopping)
<1>1. PICK bs \in Seq(Bucket) : bs = ring.buckets
  BY RingFields
<1>2. PICK n \in Nat : n = Len(bs)
  OBVIOUS
<1>3. PICK c \in Nat : c = Since(ring, now)
  BY SinceType
<1>4. bs # <<>> /\ bs[n].start = start
  BY <1>1, <1>2 DEF SameHour, Last
<1>5. n \in 1..n /\ n # 0
  BY <1>2, <1>4
<1>6. bs[n] \in Bucket /\ bs[n].count \in Nat /\ bs[n].start \in Nat
  BY <1>2, <1>5, BucketFields
<1>7. PICK b \in Bucket : b = [start |-> start, count |-> bs[n].count + c, partial |-> TRUE]
  <2>1. PICK x \in Nat : x = bs[n].count + c
    BY <1>6
  <2>2. [start |-> start, count |-> x, partial |-> TRUE] \in Bucket
    BY DEF Bucket
  <2> QED BY <2>1, <2>2
<1>8. PICK t : t = [bs EXCEPT ![n] = b]
  OBVIOUS
<1>9. t \in Seq(Bucket) /\ Len(t) = n /\ \A j \in 1..n : t[j] = IF j = n THEN b ELSE bs[j]
  <2>1. n \in 1..Len(bs)
    BY <1>2, <1>5
  <2> QED BY <1>2, <1>8, <2>1, ExceptSeq
<1>10. t = [bs EXCEPT ![n].count = @ + c, ![n].partial = TRUE]
  <2>1. b = [[bs[n] EXCEPT !.count = @ + c] EXCEPT !.partial = TRUE]
    <3>1. PICK o \in Bucket : o = bs[n]
      BY <1>6
    <3>2. o.start = start
      BY <3>1, <1>4
    <3>3. b = [start |-> start, count |-> o.count + c, partial |-> TRUE]
      BY <3>1, <1>7
    <3>4. [[o EXCEPT !.count = @ + c] EXCEPT !.partial = TRUE]
              = [start |-> o.start, count |-> o.count + c, partial |-> TRUE]
      <4>1. PICK x : x = o.count + c
        OBVIOUS
      <4>2. [o EXCEPT !.count = x] = [start |-> o.start, count |-> x, partial |-> o.partial]
        BY BucketExcept
      <4>3. [[start |-> o.start, count |-> x, partial |-> o.partial] EXCEPT !.partial = TRUE]
                = [start |-> o.start, count |-> x, partial |-> TRUE]
        <5>1. \A v : [[start |-> o.start, count |-> x, partial |-> o.partial] EXCEPT !.partial = v]
                        = [start |-> o.start, count |-> x, partial |-> v]
          OBVIOUS
        <5> QED BY <5>1, Zenon
      <4> QED BY <4>1, <4>2, <4>3
    <3> QED BY <3>1, <3>2, <3>3, <3>4
  <2>2. DOMAIN bs = 1..n
    BY <1>2
  <2> QED BY <1>5, <1>8, <2>1, <2>2
<1>11. CloseRing(ring, start, now, stopping) = [ring EXCEPT !.buckets = t, !.last = now]
  BY <1>1, <1>2, <1>3, <1>10 DEF CloseRing
<1>12. PICK new : new = [buckets |-> t, last |-> now, gone |-> ring.gone]
  OBVIOUS
<1>13. CloseRing(ring, start, now, stopping) = new
  BY <1>11, <1>12 DEF Ring
<1>14. new \in Ring /\ new.last = now /\ new.buckets = t /\ new.gone = ring.gone
  BY <1>9, <1>12, RingFields DEF Ring
<1>15. Count(t) = Count(bs) + c
  <2>1. \A i \in 1..(Len(bs) - 1) : t[i] = bs[i]
    BY <1>2, <1>9
  <2>2. t[Len(bs)].count = bs[Len(bs)].count + c
    BY <1>2, <1>5, <1>7, <1>9
  <2>3. Len(t) = Len(bs)
    BY <1>2, <1>9
  <2> QED BY <1>4, <1>9, <2>1, <2>2, <2>3, CountLast
<1>16. Total(new) = Total(ring) + c
  <2>1. Count(bs) \in Nat /\ ring.gone \in Nat
    BY CountType, RingFields
  <2> QED BY <1>1, <1>14, <1>15, <2>1 DEF Total
<1>17. \A i \in 1..n : t[i].start = bs[i].start
  BY <1>4, <1>7, <1>9
<1>18. Rising(bs) => Rising(t)
  BY <1>2, <1>9, <1>17 DEF Rising
<1>19. Bounded(bs, start) => Bounded(t, start)
  BY <1>2, <1>9, <1>17 DEF Bounded
<1>20. ASSUME NEW i \in 1..n PROVE Explained(t[i], ring, start, stopping)
  BY <1>1, <1>2, <1>7, <1>9 DEF Explained
<1>21. t[n].start = start
  BY <1>5, <1>7, <1>9
<1>22. Closes(new, ring, start, now, stopping)
  BY <1>1, <1>2, <1>3, <1>5, <1>9, <1>14, <1>16, <1>18, <1>19, <1>20, <1>21 DEF Closes
<1> QED BY <1>13, <1>22

(* A close in a new hour does, and makes room in a full ring. *)
LEMMA AppendCloses ==
    ASSUME NEW ring \in Ring, NEW start \in Nat, NEW now \in Nat, NEW stopping \in BOOLEAN,
           ~SameHour(ring, start)
    PROVE  Closes(CloseRing(ring, start, now, stopping), ring, start, now, stopping)
<1> PICK bs \in Seq(Bucket) : bs = ring.buckets
  BY RingFields
<1> PICK c \in Nat : c = Since(ring, now)
  BY SinceType
<1>1. Hours \in Nat \ {0}
  BY StatsAssumption
<1>2. PICK b \in Bucket : b = [start |-> start, count |-> c, partial |-> Partial(ring, stopping)]
  <2>1. Partial(ring, stopping) \in BOOLEAN
    BY DEF Partial
  <2> QED BY <2>1 DEF Bucket
<1>3. PICK room : room = IF Full(ring) THEN Tail(bs) ELSE bs
  OBVIOUS
<1>4. PICK gone : gone = ring.gone + (IF Full(ring) THEN Head(bs).count ELSE 0)
  OBVIOUS
<1>5. Full(ring) => bs # <<>>
  BY <1>1 DEF Full
<1>6. PICK d \in {0, 1} : d = IF Full(ring) THEN 1 ELSE 0
  OBVIOUS
<1>7. Len(bs) \in Nat /\ (d = 1 => bs # <<>>)
  BY <1>5, <1>6
<1>8. /\ room \in Seq(Bucket) /\ Len(room) = Len(bs) - d
      /\ \A i \in 1..Len(room) : i + d \in 1..Len(bs) /\ room[i] = bs[i + d]
  <2>1. CASE Full(ring)
    BY <2>1, <1>3, <1>5, <1>6, CountTail
  <2>2. CASE ~Full(ring)
    <3>1. \A i \in 1..Len(bs) : i + 0 = i
      OBVIOUS
    <3> QED BY <2>2, <3>1, <1>3, <1>6, <1>7
  <2> QED BY <2>1, <2>2
<1>9. gone \in Nat /\ Count(room) + gone = Total(ring) /\ Count(room) \in Nat
  <2>1. ring.gone \in Nat /\ Count(bs) \in Nat /\ Count(room) \in Nat
    BY <1>8, RingFields, CountType
  <2>2. CASE Full(ring)
    <3>1. PICK e \in Nat : e = Head(bs).count /\ Count(bs) = Count(room) + e
      BY <2>2, <1>3, <1>5, CountTail
    <3>2. gone = ring.gone + e
      BY <2>2, <3>1, <1>4
    <3>3. Total(ring) = Count(bs) + ring.gone
      BY DEF Total
    <3>4. PICK x \in Nat : x = Count(room)
      BY <2>1
    <3>5. PICK y \in Nat : y = ring.gone
      BY <2>1
    <3>6. gone = y + e /\ Total(ring) = (x + e) + y
      BY <3>1, <3>2, <3>3, <3>4, <3>5
    <3>7. gone \in Nat /\ x + gone = Total(ring)
      BY <3>6
    <3> QED BY <3>4, <3>7
  <2>3. CASE ~Full(ring)
    BY <2>3, <2>1, <1>3, <1>4 DEF Total
  <2> QED BY <2>2, <2>3
<1>10. PICK t : t = Append(room, b)
  OBVIOUS
<1>11. PICK n \in Nat : n = Len(room)
  <2>1. room \in Seq(Bucket)
    BY <1>8
  <2> QED BY <2>1, LenProperties
<1>12. t \in Seq(Bucket) /\ Len(t) = n + 1 /\ t[n + 1] = b /\ \A i \in 1..n : t[i] = room[i]
  BY <1>8, <1>10, <1>11
<1>13. Count(t) = Count(room) + c
  BY <1>2, <1>8, <1>10, CountAppend
<1>14. PICK new : new = [buckets |-> t, last |-> now, gone |-> gone]
  OBVIOUS
<1>15. CloseRing(ring, start, now, stopping) = new
  BY <1>2, <1>3, <1>4, <1>10, <1>14 DEF CloseRing
<1>16. new \in Ring /\ new.last = now /\ new.buckets = t /\ new.gone = gone
  BY <1>9, <1>12, <1>14 DEF Ring
<1>17. Total(new) = Total(ring) + c
  BY <1>9, <1>13, <1>16 DEF Total
<1>18. Len(bs) <= Hours => n + 1 <= Hours
  <2>1. n = Len(bs) - d
    BY <1>8, <1>11
  <2>2. Full(ring) <=> Len(bs) = Hours
    BY DEF Full
  <2>3. (Len(bs) = Hours => d = 1) /\ (Len(bs) # Hours => d = 0)
    BY <2>2, <1>6
  <2> QED BY <2>1, <2>3, <1>1, <1>7
<1>19. ASSUME Rising(bs), Bounded(bs, start) PROVE Rising(t) /\ Bounded(t, start)
  <2>1. ASSUME NEW i \in 1..Len(bs) PROVE bs[i].start < start
    <3>1. bs # <<>> /\ Len(bs) \in 1..Len(bs) /\ i \in Nat
      BY <1>7, <2>1
    <3>2. bs[Len(bs)].start # start
      BY <3>1 DEF SameHour, Last
    <3>3. bs[Len(bs)].start \in Nat /\ bs[i].start \in Nat
      BY <3>1, BucketFields
    <3>4. bs[Len(bs)].start <= start
      BY <1>19, <3>1 DEF Bounded
    <3>5. i = Len(bs) \/ bs[i].start < bs[Len(bs)].start
      BY <1>19, <3>1, <1>7 DEF Rising
    <3> QED BY <3>2, <3>3, <3>4, <3>5
  <2>2. ASSUME NEW i \in 1..n PROVE t[i].start < start /\ t[i].start \in Nat
    BY <2>1, <1>8, <1>11, <1>12, BucketFields
  <2>3. b.start = start
    BY <1>2
  <2>4. Bounded(t, start)
    <3>1. ASSUME NEW i \in 1..Len(t) PROVE t[i].start <= start
      <4>1. i \in 1..n \/ i = n + 1
        BY <1>12
      <4> QED BY <4>1, <2>2, <2>3, <1>12
    <3> QED BY <3>1 DEF Bounded
  <2>5. Rising(t)
    <3>1. ASSUME NEW i \in 1..Len(t), NEW j \in 1..Len(t), i < j PROVE t[i].start < t[j].start
      <4>1. i \in 1..n
        BY <1>12, <3>1
      <4>2. CASE j = n + 1
        BY <4>1, <4>2, <2>2, <2>3, <1>12
      <4>3. CASE j \in 1..n
        <5>1. i + d \in 1..Len(bs) /\ j + d \in 1..Len(bs) /\ t[i] = bs[i + d] /\ t[j] = bs[j + d]
          BY <4>1, <4>3, <1>8, <1>11, <1>12
        <5>2. i + d < j + d
          BY <3>1, <4>1, <4>3
        <5> QED BY <5>1, <5>2, <1>19 DEF Rising
      <4> QED BY <4>2, <4>3, <1>12
    <3> QED BY <3>1 DEF Rising
  <2> QED BY <2>4, <2>5
<1>20. ASSUME NEW i \in 1..(n + 1) PROVE Explained(t[i], ring, start, stopping)
  <2>1. CASE i = n + 1
    <3>1. t[i] = b /\ b.start = start /\ b.partial = Partial(ring, stopping)
      BY <2>1, <1>2, <1>12
    <3>2. Partial(ring, stopping) \/ (~stopping /\ ring.last # None)
      BY Zenon DEF Partial
    <3>3. b.partial \/ (b.start = start /\ ~stopping /\ ring.last # None)
      BY <3>1, <3>2, Zenon
    <3> QED BY <3>1, <3>3, Zenon DEF Explained
  <2>2. CASE i \in 1..n
    <3>1. i + d \in 1..Len(bs) /\ t[i] = bs[i + d]
      BY <2>2, <1>8, <1>11, <1>12
    <3> QED BY <3>1 DEF Explained
  <2> QED BY <2>1, <2>2
<1>21. n + 1 \in Nat \ {0} /\ t[n + 1].start = start
  BY <1>2, <1>12
<1>22. Closes(new, ring, start, now, stopping)
  BY <1>12, <1>16, <1>17, <1>18, <1>19, <1>20, <1>21 DEF Closes
<1> QED BY <1>15, <1>22

(* Ring::close does what it promises. *)
LEMMA CloseRingCloses ==
    ASSUME NEW ring \in Ring, NEW start \in Nat, NEW now \in Nat, NEW stopping \in BOOLEAN
    PROVE  Closes(CloseRing(ring, start, now, stopping), ring, start, now, stopping)
BY MergeCloses, AppendCloses

(* A ring that Retain drops: what it counted is gone. *)
Dropped(new, ring) ==
    /\ new \in Ring /\ new.buckets = <<>> /\ new.last = None /\ Total(new) = Total(ring)

(* What a close at an hour does to the rings. *)
CloseEffect(start, stopping) ==
    \A k \in Key : IF k \in Counted THEN Closes(rings'[k], rings[k], start, reading[k], stopping)
                   ELSE rings'[k] = rings[k] \/ Dropped(rings'[k], rings[k])

(* The types, counter by counter. *)
LEMMA KeyTypes ==
    ASSUME TypeOK, NEW k \in Key
    PROVE  /\ rings[k] \in Ring /\ file[k] \in Ring
           /\ reading[k] \in Nat /\ fresh[k] \in Nat /\ unsaved[k] \in Nat
           /\ Total(rings[k]) \in Nat /\ Total(file[k]) \in Nat
           /\ Len(rings[k].buckets) <= Hours
<1>1. rings[k] \in Ring /\ file[k] \in Ring
  BY DEF TypeOK, Rings, Ring
<1>2. reading[k] \in Nat /\ fresh[k] \in Nat /\ unsaved[k] \in Nat
      /\ Len(rings[k].buckets) <= Hours
  BY DEF TypeOK
<1> QED BY <1>1, <1>2, RingFields

(* The clock's. *)
LEMMA ClockTypes ==
    TypeOK => hour \in Nat /\ open \in Nat /\ open <= hour /\ hour <= MaxHour /\ Hours \in Nat
<1> SUFFICES ASSUME TypeOK
             PROVE  hour \in Nat /\ open \in Nat /\ open <= hour /\ hour <= MaxHour
                    /\ Hours \in Nat
  OBVIOUS
<1>1. hour \in 0..MaxHour /\ open \in 0..hour
  BY DEF TypeOK
<1>2. MaxHour \in Nat /\ Hours \in Nat
  BY StatsAssumption
<1> QED BY <1>1, <1>2

(* The counters there are have rings. *)
LEMMA CountedKeys == TypeOK => Counted \subseteq Key /\ Lb \in Counted
BY DEF TypeOK, Counted, Key

(* Retain leaves a ring as it is or drops a provider's whose newest hour is
   too old. *)
LEMMA RetainDrops ==
    ASSUME NEW r \in [Key -> Ring], NEW start \in Nat, NEW k \in Key
    PROVE  \/ Retain(r, start)[k] = r[k]
           \/ /\ Dropped(Retain(r, start)[k], r[k]) /\ k # Lb
              /\ r[k].buckets[Len(r[k].buckets)].start < start - Hours
<1>1. PICK ring \in Ring : ring = r[k]
  OBVIOUS
<1>2. PICK new : new = [buckets |-> <<>>, last |-> None, gone |-> Total(ring)]
  OBVIOUS
<1>3. new = [EmptyRing EXCEPT !.gone = Total(r[k])]
  BY <1>1, <1>2 DEF EmptyRing
<1>4. Retain(r, start)[k] = IF k = Lb \/ ring.buckets = <<>> THEN ring
                            ELSE IF ring.buckets[Len(ring.buckets)].start >= start - Hours
                            THEN ring ELSE new
  BY <1>1, <1>3 DEF Retain, Last
<1>5. Dropped(new, ring)
  <2>2. PICK g \in Nat : g = Total(ring)
    BY RingFields
  <2>3. <<>> \in Seq(Bucket)
    OBVIOUS
  <2>4. new \in Ring /\ new.buckets = <<>> /\ new.last = None /\ new.gone = g
    BY <1>2, <2>2, <2>3 DEF Ring
  <2>5. Total(new) = 0 + g
    BY <2>4, CountEmpty DEF Total
  <2> QED BY <2>2, <2>4, <2>5 DEF Dropped
<1>6. CASE k = Lb \/ ring.buckets = <<>>
  BY <1>1, <1>4, <1>6
<1>7. CASE k # Lb /\ ring.buckets # <<>>
  <2>1. ring.buckets \in Seq(Bucket) /\ Len(ring.buckets) \in 1..Len(ring.buckets)
    BY <1>7, RingFields
  <2>2. PICK x \in Nat : x = ring.buckets[Len(ring.buckets)].start
    BY <2>1, BucketFields
  <2>3. Hours \in Nat
    BY StatsAssumption
  <2>4. x >= start - Hours \/ x < start - Hours
    BY <2>3
  <2> QED BY <1>1, <1>4, <1>5, <1>7, <2>2, <2>4
<1> QED BY <1>6, <1>7

(* Stats::close closes the ring of every counter of the pool, and no other. *)
LEMMA CloseCloses ==
    ASSUME TypeOK, NEW start \in Nat, NEW stopping \in BOOLEAN
    PROVE  /\ Close(start, stopping) \in [Key -> Ring]
           /\ \A k \in Key :
                 IF k \in Counted
                 THEN Closes(Close(start, stopping)[k], rings[k], start, reading[k], stopping)
                 ELSE Close(start, stopping)[k] = rings[k]
<1>1. ASSUME NEW k \in Key
      PROVE  /\ Close(start, stopping)[k] \in Ring
             /\ IF k \in Counted
                THEN Closes(Close(start, stopping)[k], rings[k], start, reading[k], stopping)
                ELSE Close(start, stopping)[k] = rings[k]
  <2>1. rings[k] \in Ring /\ reading[k] \in Nat
    BY KeyTypes
  <2>2. CASE k \in Counted
    <3>1. Close(start, stopping)[k] = CloseRing(rings[k], start, reading[k], stopping)
      BY <2>2 DEF Close, Counted
    <3>2. Closes(Close(start, stopping)[k], rings[k], start, reading[k], stopping)
      BY <2>1, <3>1, CloseRingCloses
    <3> QED BY <2>2, <3>2 DEF Closes
  <2>3. CASE k \notin Counted
    BY <2>1, <2>3 DEF Close, Counted
  <2> QED BY <2>2, <2>3
<1>2. Close(start, stopping) = [k \in Key |-> Close(start, stopping)[k]]
  BY DEF Close
<1> QED BY <1>1, <1>2

(* A tick closes the hour it waited for, and drops none of the rings it
   closed. *)
LEMMA TickCloses == TypeOK /\ Tick => CloseEffect(open, FALSE)
<1> SUFFICES ASSUME TypeOK, Tick, NEW k \in Key
             PROVE  IF k \in Counted
                    THEN Closes(rings'[k], rings[k], open, reading[k], FALSE)
                    ELSE rings'[k] = rings[k] \/ Dropped(rings'[k], rings[k])
  BY DEF CloseEffect
<1>1. open \in Nat /\ hour \in Nat /\ Hours \in Nat
  BY ClockTypes
<1>2. PICK r \in [Key -> Ring] : r = Close(open, FALSE)
  BY <1>1, CloseCloses
<1>3. rings'[k] = Retain(r, open)[k]
  BY <1>2 DEF Tick
<1>4. IF k \in Counted THEN Closes(r[k], rings[k], open, reading[k], FALSE) ELSE r[k] = rings[k]
  BY <1>1, <1>2, CloseCloses
<1>5. CASE k \in Counted
  <2>1. r[k].buckets[Len(r[k].buckets)].start = open
    BY <1>4, <1>5 DEF Closes
  <2>2. ~(open < open - Hours)
    BY <1>1
  <2>3. Retain(r, open)[k] = r[k]
    BY <1>1, <2>1, <2>2, RetainDrops
  <2> QED BY <1>3, <1>4, <1>5, <2>3
<1>6. CASE k \notin Counted
  BY <1>1, <1>3, <1>4, <1>6, RetainDrops
<1> QED BY <1>5, <1>6

(* A stop closes the hour it comes in. *)
LEMMA StopCloses == TypeOK /\ Stop => CloseEffect(hour, TRUE)
<1> SUFFICES ASSUME TypeOK, Stop PROVE CloseEffect(hour, TRUE)
  OBVIOUS
<1>1. hour \in Nat
  BY ClockTypes
<1>2. rings' = Close(hour, TRUE)
  BY DEF Stop
<1> QED BY <1>1, <1>2, CloseCloses DEF CloseEffect

(* A close takes a counter's fresh answers, and of one that came back no
   more than those. *)
LEMMA SinceIsFresh ==
    ASSUME TypeOK, FreshIsRead, NEW k \in Counted
    PROVE  /\ Since(rings[k], reading[k]) \in Nat
           /\ Since(rings[k], reading[k]) <= fresh[k]
           /\ k \notin rejoined => Since(rings[k], reading[k]) = fresh[k]
<1>1. k \in Key
  BY CountedKeys
<1>2. rings[k] \in Ring /\ reading[k] \in Nat /\ fresh[k] \in Nat
  BY <1>1, KeyTypes
<1>3. rings[k].last \in Nat \cup {None}
  BY <1>2, RingFields
<1>4. ReadsFresh(k)
  BY DEF FreshIsRead
<1> QED BY <1>2, <1>3, <1>4 DEF ReadsFresh, Since, None

(* Load: the rings of the file, of which no close is known. *)
LEMMA StartLoads ==
    ASSUME TypeOK, HistoryTypes, NEW k \in Key
    PROVE  /\ Load[k] \in Ring /\ Load[k].buckets = file[k].buckets
           /\ Load[k].last = None /\ Total(Load[k]) = Total(file[k])
<1>1. PICK ring \in Ring : ring = file[k]
  BY KeyTypes
<1>2. PICK new : new = [ring EXCEPT !.last = None]
  OBVIOUS
<1>3. Load[k] = new
  BY <1>1, <1>2 DEF Load
<1>4. new \in Ring /\ new.buckets = ring.buckets /\ new.last = None /\ new.gone = ring.gone
  BY <1>2 DEF Ring
<1> QED BY <1>1, <1>3, <1>4 DEF Total

(* A ring that counted nothing. *)
LEMMA EmptyIsRing ==
    /\ EmptyRing \in Ring /\ EmptyRing.buckets = <<>> /\ EmptyRing.last = None
    /\ Total(EmptyRing) = 0 /\ \A k \in Key : NoRings[k] = EmptyRing
<1>1. <<>> \in Seq(Bucket)
  OBVIOUS
<1>2. EmptyRing \in Ring /\ EmptyRing.buckets = <<>> /\ EmptyRing.last = None
      /\ EmptyRing.gone = 0
  BY <1>1 DEF EmptyRing, Ring
<1> QED BY <1>2, CountEmpty DEF Total, NoRings

(* A process starts with the history of the file, or without one: what it
   has and what it could not read are together the file's. *)
LEMMA StartRings ==
    ASSUME TypeOK, HistoryTypes, OffIsEmpty, Start \/ StartWithout
    PROVE  /\ rings' = [k \in Key |-> rings'[k]] /\ unread' \in [Key -> Nat]
           /\ \A k \in Key : /\ rings'[k] \in Ring /\ rings'[k].last = None
                             /\ rings'[k].buckets \in {file[k].buckets, <<>>}
                             /\ Total(rings'[k]) + unread'[k] = Total(file[k])
<1>1. \A k \in Key : Total(file[k]) \in Nat
  BY KeyTypes
<1>2. CASE Start
  <2>1. rings' = Load /\ unread' = Zeros
    BY <1>2 DEF Start, StartWith, OffIsEmpty, Running
  <2>2. Load = [k \in Key |-> Load[k]]
    BY DEF Load
  <2>3. \A k \in Key : unread'[k] = 0
    BY <2>1 DEF Zeros
  <2>4. unread' \in [Key -> Nat]
    BY <2>1 DEF Zeros
  <2>5. \A k \in Key : Total(Load[k]) + 0 = Total(file[k])
    BY <1>1, StartLoads
  <2> QED BY <2>1, <2>2, <2>3, <2>4, <2>5, StartLoads
<1>3. CASE StartWithout
  <2>1. rings' = NoRings /\ unread' = [k \in Key |-> Total(file[k])]
    BY <1>3 DEF StartWithout, StartWith
  <2>2. NoRings = [k \in Key |-> NoRings[k]]
    BY DEF NoRings
  <2>3. \A k \in Key : unread'[k] = Total(file[k])
    BY <2>1
  <2>4. unread' \in [Key -> Nat]
    BY <1>1, <2>1
  <2>5. \A k \in Key : Total(NoRings[k]) + Total(file[k]) = Total(file[k])
    BY <1>1, EmptyIsRing
  <2> QED BY <2>1, <2>2, <2>3, <2>4, <2>5, EmptyIsRing
<1> QED BY <1>2, <1>3

(* What an answer counts, its bound left out. *)
LEMMA AnswerEffect ==
    ASSUME NEW k \in Key, Answer(k)
    PROVE  /\ Running /\ k \in Counted
           /\ reading' = [reading EXCEPT ![k] = @ + 1]
           /\ answered' = [answered EXCEPT ![k] = @ + 1]
           /\ fresh' = [fresh EXCEPT ![k] = @ + 1] /\ unsaved' = [unsaved EXCEPT ![k] = @ + 1]
           /\ UNCHANGED <<hour, task, open, members, rings, file, starts, missed, unread,
                          cut, rejoined, joins>>
BY DEF Answer, Counted

(* The rings after a step. *)
RingsStep == rings' \in Rings /\ \A k \in Key : Len(rings'[k].buckets) <= Hours

(* Rings, one by one, are Rings. *)
LEMMA RingsSuffice ==
    ASSUME NEW r, r = [k \in Key |-> r[k]], \A k \in Key : r[k] \in Ring
    PROVE  r \in Rings
BY DEF Rings, Ring

(* Every step keeps the rings' type, and none longer than HOURS. *)
LEMMA RingsTyped ==
    ASSUME TypeOK, HistoryTypes, OffIsEmpty, [Next]_vars
    PROVE  RingsStep
<1> USE DEF RingsStep
<1>1. \A k \in Key : rings[k] \in Ring /\ Len(rings[k].buckets) <= Hours
  BY KeyTypes
<1>2. rings \in Rings
  BY DEF TypeOK
<1>3. CASE rings' = rings
  BY <1>1, <1>2, <1>3
<1>4. ASSUME NEW start, NEW stopping, CloseEffect(start, stopping)
      PROVE  \A k \in Key : rings'[k] \in Ring /\ Len(rings'[k].buckets) <= Hours
  <2> SUFFICES ASSUME NEW k \in Key
               PROVE  rings'[k] \in Ring /\ Len(rings'[k].buckets) <= Hours
    OBVIOUS
  <2>1. CASE k \in Counted
    BY <1>1, <1>4, <2>1 DEF CloseEffect, Closes
  <2>2. CASE k \notin Counted
    <3>1. rings'[k] = rings[k] \/ Dropped(rings'[k], rings[k])
      BY <1>4, <2>2 DEF CloseEffect
    <3>2. Len(<<>>) <= Hours
      BY StatsAssumption
    <3> QED BY <1>1, <3>1, <3>2 DEF Dropped
  <2> QED BY <2>1, <2>2
<1>5. CASE Tick
  <2>1. rings' = [k \in Key |-> rings'[k]]
    BY <1>5 DEF Tick, Retain
  <2> QED BY <1>4, <1>5, <2>1, TickCloses, RingsSuffice
<1>6. CASE Stop
  <2>1. rings' = [k \in Key |-> rings'[k]]
    BY <1>6 DEF Stop, Close
  <2> QED BY <1>4, <1>6, <2>1, StopCloses, RingsSuffice
<1>7. CASE Start \/ StartWithout
  <2>1. \A k \in Key : Len(file[k].buckets) <= Hours
    BY DEF HistoryTypes
  <2>2. Len(<<>>) <= Hours
    BY StatsAssumption
  <2> QED BY <1>7, <2>1, <2>2, StartRings, RingsSuffice
<1>8. CASE End
  <2>1. rings' = NoRings
    BY <1>8 DEF End
  <2>2. NoRings = [k \in Key |-> NoRings[k]]
    BY DEF NoRings
  <2>3. Len(<<>>) <= Hours
    BY StatsAssumption
  <2> QED BY <2>1, <2>2, <2>3, EmptyIsRing, RingsSuffice
<1>9. CASE Save \/ SaveFails \/ NextHour \/ UNCHANGED vars
  BY <1>3, <1>9 DEF Save, SaveFails, NextHour, vars
<1>10. CASE \E p \in Provider : Join(p) \/ Leave(p)
  BY <1>3, <1>10 DEF Join, Leave
<1>11. CASE \E k \in Key : Answer(k)
  BY <1>3, <1>11, AnswerEffect
<1> QED BY <1>5, <1>6, <1>7, <1>8, <1>9, <1>10, <1>11 DEF Next

(* Every step keeps the clock's and the task's types. *)
LEMMA ClockSteps ==
    ASSUME TypeOK, [Next]_vars
    PROVE  /\ hour' \in 0..MaxHour /\ open' \in 0..hour'
           /\ task' \in {"off", "waiting", "saving", "last save", "stopped"}
<1>1. hour \in Nat /\ open \in Nat /\ open <= hour /\ hour <= MaxHour /\ MaxHour \in Nat
  BY ClockTypes, StatsAssumption
<1>2. task \in {"off", "waiting", "saving", "last save", "stopped"}
  BY DEF TypeOK
<1>3. \/ hour' = hour /\ open' \in {open, hour}
      \/ hour < MaxHour /\ hour' = hour + 1 /\ open' = open
  <2>1. CASE Tick \/ Stop \/ Start \/ StartWithout \/ End \/ NextHour \/ UNCHANGED vars
    BY <2>1 DEF Tick, Stop, Start, StartWithout, StartWith, End, NextHour, vars
  <2>2. CASE Save \/ SaveFails
    BY <2>2 DEF Save, SaveFails, Continue
  <2>3. CASE \E p \in Provider : Join(p) \/ Leave(p)
    BY <2>3 DEF Join, Leave
  <2>4. CASE \E k \in Key : Answer(k)
    BY <2>4, AnswerEffect
  <2> QED BY <2>1, <2>2, <2>3, <2>4 DEF Next
<1>4. hour' \in 0..MaxHour /\ open' \in 0..hour'
  BY <1>1, <1>3
<1>5. task' \in {task, "off", "waiting", "saving", "last save", "stopped"}
  <2>1. CASE Tick \/ Stop \/ Start \/ StartWithout \/ End \/ NextHour \/ UNCHANGED vars
    BY <2>1 DEF Tick, Stop, Start, StartWithout, StartWith, End, NextHour, vars
  <2>2. CASE Save \/ SaveFails
    BY <2>2 DEF Save, SaveFails, Continue
  <2>3. CASE \E p \in Provider : Join(p) \/ Leave(p)
    BY <2>3 DEF Join, Leave
  <2>4. CASE \E k \in Key : Answer(k)
    BY <2>4, AnswerEffect
  <2> QED BY <2>1, <2>2, <2>3, <2>4 DEF Next
<1> QED BY <1>2, <1>4, <1>5

(* Counters at zero are counters. *)
LEMMA ZerosType == Zeros \in [Key -> Nat]
BY DEF Zeros

(* Every step keeps the counters and their histories natural: what leaves
   with an entry was not saved. *)
LEMMA CountersTyped ==
    ASSUME TypeOK, HistoryTypes, OffIsEmpty, FreshIsRead, [Next]_vars
    PROVE  /\ members' \subseteq Provider /\ reading' \in [Key -> Nat]
           /\ fresh' \in [Key -> Nat] /\ unsaved' \in [Key -> Nat]
           /\ answered' \in [Key -> Nat] /\ missed' \in [Key -> Nat]
<1>1. /\ members \subseteq Provider /\ reading \in [Key -> Nat]
      /\ fresh \in [Key -> Nat] /\ unsaved \in [Key -> Nat]
  BY DEF TypeOK
<1>2. answered \in [Key -> Nat] /\ missed \in [Key -> Nat]
  BY DEF HistoryTypes
<1>3. CASE UNCHANGED <<members, reading, fresh, unsaved, answered, missed>>
  BY <1>1, <1>2, <1>3
<1>4. CASE \/ UNCHANGED vars \/ NextHour \/ SaveFails \/ Start \/ StartWithout
           \/ \E p \in Provider : Join(p)
  <2>1. CASE \E p \in Provider : Join(p)
    <3>1. PICK p \in Provider : Join(p)
      BY <2>1
    <3> QED BY <1>1, <1>2, <3>1 DEF Join, countVars
  <2>2. CASE UNCHANGED vars \/ NextHour \/ SaveFails \/ Start \/ StartWithout
    BY <1>3, <2>2 DEF vars, NextHour, SaveFails, Start, StartWithout, StartWith, poolVars,
       countVars
  <2> QED BY <1>4, <2>1, <2>2
<1>5. CASE Tick \/ Stop
  <2>1. Closed /\ UNCHANGED <<members, reading, unsaved, answered, missed>>
    BY <1>5 DEF Tick, Stop, poolVars
  <2>2. fresh' \in [Key -> Nat]
    BY <1>1, <2>1 DEF Closed
  <2> QED BY <1>1, <1>2, <2>1, <2>2
<1>6. CASE Save
  <2>1. missed' = [k \in Key |-> missed[k] + unread[k]] /\ unread \in [Key -> Nat]
    BY <1>6 DEF Save, HistoryTypes
  <2>2. missed' \in [Key -> Nat]
    BY <1>2, <2>1
  <2> QED BY <1>1, <1>2, <1>6, <2>2 DEF Save, poolVars
<1>7. CASE End
  <2>1. missed' \in [Key -> Nat]
    BY <1>1, <1>2, <1>7 DEF End
  <2> QED BY <1>1, <1>2, <1>7, <2>1, ZerosType DEF End
<1>8. ASSUME NEW p \in Provider, Leave(p)
      PROVE  /\ members' \subseteq Provider /\ reading' \in [Key -> Nat]
             /\ fresh' \in [Key -> Nat] /\ unsaved' \in [Key -> Nat]
             /\ answered' \in [Key -> Nat] /\ missed' \in [Key -> Nat]
  <2>1. p \in Key
    BY DEF Key
  <2>2. PICK f \in Nat : f = fresh[p]
    BY <1>1, <2>1
  <2>3. PICK u \in Nat : u = unsaved[p] /\ f <= u
    BY <1>1, <2>1, <2>2 DEF FreshIsRead
  <2>4. u - f \in Nat
    BY <2>3
  <2>5. unsaved' = [unsaved EXCEPT ![p] = u - f]
    BY <1>8, <2>2, <2>3 DEF Leave
  <2>6. unsaved' \in [Key -> Nat]
    BY <1>1, <2>4, <2>5
  <2>7. missed' = [missed EXCEPT ![p] = missed[p] + f] /\ missed[p] + f \in Nat
    BY <1>2, <1>8, <2>1, <2>2 DEF Leave
  <2>8. missed' \in [Key -> Nat]
    BY <1>2, <2>7
  <2>9. reading' \in [Key -> Nat] /\ fresh' \in [Key -> Nat]
    BY <1>1, <1>8 DEF Leave
  <2> QED BY <1>1, <1>2, <1>8, <2>6, <2>8, <2>9 DEF Leave
<1>9. ASSUME NEW k \in Key, Answer(k)
      PROVE  /\ members' \subseteq Provider /\ reading' \in [Key -> Nat]
             /\ fresh' \in [Key -> Nat] /\ unsaved' \in [Key -> Nat]
             /\ answered' \in [Key -> Nat] /\ missed' \in [Key -> Nat]
  <2>1. /\ reading' = [reading EXCEPT ![k] = reading[k] + 1]
        /\ answered' = [answered EXCEPT ![k] = answered[k] + 1]
        /\ fresh' = [fresh EXCEPT ![k] = fresh[k] + 1]
        /\ unsaved' = [unsaved EXCEPT ![k] = unsaved[k] + 1]
        /\ missed' = missed /\ members' = members
    BY <1>9, AnswerEffect
  <2>2. reading[k] + 1 \in Nat /\ answered[k] + 1 \in Nat /\ fresh[k] + 1 \in Nat
        /\ unsaved[k] + 1 \in Nat
    BY <1>1, <1>2
  <2> QED BY <1>1, <1>2, <2>1, <2>2
<1> QED BY <1>4, <1>5, <1>6, <1>7, <1>8, <1>9 DEF Next

(* The rings in the file have their type after every step. *)
LEMMA FileTyped ==
    ASSUME TypeOK, HistoryTypes, [Next]_vars
    PROVE  /\ file' \in Rings
           /\ \A k \in Key : Len(file'[k].buckets) <= Hours
<1>1. file' = file \/ file' = rings
  <2>1. CASE \/ UNCHANGED vars \/ Tick \/ Stop \/ SaveFails \/ Start \/ StartWithout
             \/ End \/ NextHour
    BY <2>1 DEF vars, Tick, Stop, SaveFails, Start, StartWithout, StartWith, End, NextHour
  <2>2. CASE Save
    BY <2>2 DEF Save, Replace
  <2>3. CASE \E p \in Provider : Join(p) \/ Leave(p)
    BY <2>3 DEF Join, Leave
  <2>4. CASE \E k \in Key : Answer(k)
    BY <2>4, AnswerEffect
  <2> QED BY <2>1, <2>2, <2>3, <2>4 DEF Next
<1>2. rings \in Rings /\ file \in Rings /\ \A k \in Key : Len(rings[k].buckets) <= Hours
  BY DEF TypeOK
<1>3. \A k \in Key : Len(file[k].buckets) <= Hours
  BY DEF HistoryTypes
<1> QED BY <1>1, <1>2, <1>3

(* The hours that are cut are hours. *)
LEMMA CutTyped ==
    ASSUME TypeOK, HistoryTypes, [Next]_vars
    PROVE  cut' \in [Key -> SUBSET Nat]
<1>1. cut \in [Key -> SUBSET Nat]
  BY DEF HistoryTypes
<1>2. hour \in Nat /\ Counting \in Nat
  BY ClockTypes DEF Counting
<1>3. CASE UNCHANGED vars \/ Tick \/ Save \/ SaveFails \/ NextHour
  BY <1>1, <1>3 DEF vars, Tick, Save, SaveFails, NextHour
<1>4. CASE Stop \/ Start \/ StartWithout \/ End
  BY <1>1, <1>2, <1>4 DEF Stop, Start, StartWithout, StartWith, End
<1>5. CASE \E p \in Provider : Join(p) \/ Leave(p)
  <2>1. PICK p \in Provider : Join(p) \/ Leave(p)
    BY <1>5
  <2>2. cut' = [cut EXCEPT ![p] = cut[p] \cup {Counting}] /\ p \in Key
    BY <2>1 DEF Join, Leave, Key
  <2> QED BY <1>1, <1>2, <2>2
<1>6. CASE \E k \in Key : Answer(k)
  BY <1>1, <1>6, AnswerEffect
<1> QED BY <1>3, <1>4, <1>5, <1>6 DEF Next

(* What was not read is a number of answers, and is accounted for by the
   first save. *)
LEMMA UnreadStep ==
    ASSUME TypeOK, HistoryTypes, OffIsEmpty, [Next]_vars
    PROVE  unread' \in [Key -> Nat]
<1>1. unread \in [Key -> Nat]
  BY DEF HistoryTypes
<1>2. CASE Start \/ StartWithout
  BY <1>2, StartRings
<1>3. CASE Save \/ End
  BY <1>3, ZerosType DEF Save, End
<1>4. CASE Tick \/ Stop \/ SaveFails \/ NextHour \/ UNCHANGED vars
  BY <1>1, <1>4 DEF Tick, Stop, SaveFails, NextHour, vars, countVars
<1>5. CASE \E p \in Provider : Join(p) \/ Leave(p)
  BY <1>1, <1>5 DEF Join, Leave, countVars
<1>6. CASE \E k \in Key : Answer(k)
  BY <1>1, <1>6, AnswerEffect
<1> QED BY <1>2, <1>3, <1>4, <1>5, <1>6 DEF Next

(* Every step keeps the types. *)
LEMMA TypesStep ==
    ASSUME TypeOK, HistoryTypes, OffIsEmpty, FreshIsRead, [Next]_vars
    PROVE  TypeOK' /\ HistoryTypes'
<1>1. TypeOK'
  BY RingsTyped, ClockSteps, CountersTyped, FileTyped DEF TypeOK, RingsStep
<1>2. HistoryTypes'
  BY CountersTyped, FileTyped, CutTyped, UnreadStep DEF HistoryTypes
<1> QED BY <1>1, <1>2

(* A process that ends leaves no pool and no counts behind. *)
LEMMA OffStep ==
    ASSUME OffIsEmpty, [Next]_vars
    PROVE  OffIsEmpty'
<1> USE DEF OffIsEmpty, Running
<1>1. CASE Tick \/ Stop \/ Start \/ StartWithout
  BY <1>1 DEF Tick, Stop, Start, StartWithout, StartWith
<1>2. CASE Save \/ SaveFails
  BY <1>2 DEF Save, SaveFails, Saving, Continue
<1>3. CASE End
  BY <1>3 DEF End
<1>4. CASE UNCHANGED vars \/ NextHour
  BY <1>4 DEF vars, NextHour, poolVars, countVars
<1>5. CASE \E p \in Provider : Join(p) \/ Leave(p)
  BY <1>5 DEF Join, Leave
<1>6. CASE \E k \in Key : Answer(k)
  BY <1>6, AnswerEffect
<1> QED BY <1>1, <1>2, <1>3, <1>4, <1>5, <1>6 DEF Next

(* What a tick and a stop have in common. *)
LEMMA CloseStep ==
    ASSUME TypeOK, Tick \/ Stop
    PROVE  /\ \E start, stopping : CloseEffect(start, stopping)
           /\ \A k \in Key : fresh'[k] = IF k \in Counted THEN 0 ELSE fresh[k]
           /\ UNCHANGED <<members, reading, unsaved, unread, answered, missed, file, rejoined>>
           /\ Running /\ Running'
<1>1. \E start, stopping : CloseEffect(start, stopping)
  BY TickCloses, StopCloses
<1>2. \A k \in Key : fresh'[k] = IF k \in Counted THEN 0 ELSE fresh[k]
  BY DEF Tick, Stop, Closed, Counted
<1>3. UNCHANGED <<members, reading, unsaved, unread, answered, missed, file, rejoined>>
  BY DEF Tick, Stop, poolVars
<1>4. Running /\ Running'
  BY DEF Tick, Stop, Running
<1> QED BY <1>1, <1>2, <1>3, <1>4

(* Every step keeps the relation of a counter to its last close. *)
LEMMA FreshStep ==
    ASSUME TypeOK, HistoryTypes, OffIsEmpty, FreshIsRead, [Next]_vars
    PROVE  FreshIsRead'
<1>1. \A k \in Key : fresh[k] \in Nat /\ unsaved[k] \in Nat /\ reading[k] \in Nat
                     /\ fresh[k] <= unsaved[k] /\ rings[k].last \in Nat \cup {None}
  BY KeyTypes, RingFields DEF FreshIsRead
<1>2. \A k \in Key \ Counted : fresh[k] = 0 /\ reading[k] = 0
  BY DEF FreshIsRead
<1>3. \A k \in Counted : ReadsFresh(k)
  BY DEF FreshIsRead
<1>4. Counted \subseteq Key /\ Lb \in Counted
  BY CountedKeys
<1>5. CASE UNCHANGED vars \/ NextHour \/ SaveFails
  BY <1>1, <1>2, <1>3, <1>5
     DEF FreshIsRead, ReadsFresh, Counted, vars, NextHour, SaveFails, poolVars, countVars
<1>6. CASE Save
  <2>1. UNCHANGED <<members, reading, rings, fresh, rejoined>> /\ unsaved' = fresh
    BY <1>6 DEF Save, poolVars
  <2>2. \A k \in Key : fresh'[k] <= unsaved'[k]
    BY <1>1, <2>1
  <2> QED BY <1>2, <1>3, <2>1, <2>2 DEF FreshIsRead, ReadsFresh, Counted
<1>7. CASE Tick \/ Stop
  <2>1. /\ \A k \in Key : fresh'[k] = IF k \in Counted THEN 0 ELSE fresh[k]
        /\ UNCHANGED <<members, reading, unsaved, rejoined>>
    BY <1>7, CloseStep
  <2>2. Counted' = Counted
    BY <2>1 DEF Counted
  <2>3. PICK start, stopping : CloseEffect(start, stopping)
    BY <1>7, CloseStep
  <2>4. ASSUME NEW k \in Counted PROVE ReadsFresh(k)'
    <3>1. rings'[k].last = reading[k]
      BY <1>4, <2>3, <2>4 DEF CloseEffect, Closes
    <3>2. fresh'[k] = 0 /\ reading'[k] = reading[k] /\ reading[k] \in Nat
      BY <1>1, <1>4, <2>1
    <3> QED BY <3>1, <3>2 DEF ReadsFresh, None
  <2>5. \A k \in Key : fresh'[k] <= unsaved'[k]
    BY <1>1, <2>1
  <2>6. \A k \in Key \ Counted : fresh'[k] = 0 /\ reading'[k] = 0
    BY <1>2, <2>1
  <2> QED BY <2>2, <2>4, <2>5, <2>6 DEF FreshIsRead
<1>8. CASE Start \/ StartWithout
  <2>1. members = {} /\ fresh = Zeros /\ reading = Zeros
    BY <1>8 DEF Start, StartWithout, StartWith, OffIsEmpty, Running
  <2>2. UNCHANGED <<members, reading, fresh, unsaved, rejoined>>
    BY <1>8 DEF Start, StartWithout, StartWith, poolVars
  <2>3. Counted' = Counted
    BY <2>2 DEF Counted
  <2>4. ASSUME NEW k \in Counted PROVE ReadsFresh(k)'
    <3>1. rings'[k].last = None
      BY <1>4, <1>8, StartRings
    <3>2. reading'[k] = fresh'[k]
      BY <2>1, <2>2
    <3> QED BY <3>1, <3>2 DEF ReadsFresh
  <2> QED BY <1>1, <1>2, <2>2, <2>3, <2>4 DEF FreshIsRead
<1>9. CASE End
  <2>1. members' = {} /\ fresh' = Zeros /\ unsaved' = Zeros /\ reading' = Zeros
        /\ rings' = NoRings
    BY <1>9 DEF End
  <2>2. Counted' = {Lb}
    BY <2>1 DEF Counted
  <2>3. \A k \in Key : fresh'[k] = 0 /\ unsaved'[k] = 0 /\ reading'[k] = 0
    BY <2>1 DEF Zeros
  <2>4. ReadsFresh(Lb)'
    <3>1. rings'[Lb].last = None
      BY <1>4, <2>1, EmptyIsRing
    <3>2. reading'[Lb] = fresh'[Lb]
      BY <2>1
    <3> QED BY <3>1, <3>2 DEF ReadsFresh
  <2> QED BY <2>2, <2>3, <2>4 DEF FreshIsRead
<1>10. ASSUME NEW p \in Provider, Join(p) PROVE FreshIsRead'
  <2>1. /\ UNCHANGED <<reading, rings, fresh, unsaved>> /\ members' = members \cup {p}
        /\ rejoined' = IF rings[p].last # None THEN rejoined \cup {p} ELSE rejoined
        /\ p \notin members
    BY <1>10 DEF Join, countVars
  <2>2. Counted' = Counted \cup {p}
    BY <2>1 DEF Counted
  <2>3. p \in Key \ Counted
    BY <2>1, StatsAssumption DEF Counted, Key
  <2>4. ReadsFresh(p)'
    <3>1. fresh[p] = 0 /\ reading[p] = 0 /\ rings[p].last \in Nat \cup {None}
      BY <1>1, <1>2, <2>3
    <3>2. CASE rings[p].last = None
      BY <2>1, <3>1, <3>2 DEF ReadsFresh
    <3>3. CASE rings[p].last # None
      <4>1. p \in rejoined'
        BY <2>1, <3>3
      <4>2. reading[p] <= fresh[p] + rings[p].last
        BY <3>1, <3>3
      <4> QED BY <2>1, <3>3, <4>1, <4>2 DEF ReadsFresh
    <3> QED BY <3>2, <3>3
  <2>5. rejoined \subseteq rejoined'
    BY <2>1
  <2>6. ASSUME NEW k \in Counted PROVE ReadsFresh(k)'
    <3>1. ReadsFresh(k)
      BY <1>3
    <3> QED BY <2>1, <2>5, <3>1 DEF ReadsFresh
  <2> QED BY <1>1, <1>2, <2>1, <2>2, <2>4, <2>6 DEF FreshIsRead
<1>11. ASSUME NEW p \in Provider, Leave(p) PROVE FreshIsRead'
  <2>1. /\ UNCHANGED <<rings, rejoined>> /\ members' = members \ {p}
        /\ reading' = [reading EXCEPT ![p] = 0] /\ fresh' = [fresh EXCEPT ![p] = 0]
        /\ unsaved' = [unsaved EXCEPT ![p] = @ - fresh[p]]
    BY <1>11 DEF Leave
  <2>2. p \in Key /\ p # Lb
    BY StatsAssumption DEF Key
  <2>3. Counted' = Counted \ {p}
    BY <2>1, <2>2 DEF Counted
  <2>4. /\ reading \in [Key -> Nat] /\ fresh \in [Key -> Nat] /\ unsaved \in [Key -> Nat]
    BY DEF TypeOK
  <2>5. /\ reading'[p] = 0 /\ fresh'[p] = 0 /\ unsaved'[p] = unsaved[p] - fresh[p]
        /\ \A k \in Key \ {p} : reading'[k] = reading[k] /\ fresh'[k] = fresh[k]
                                /\ unsaved'[k] = unsaved[k]
    BY <2>1, <2>2, <2>4
  <2>6. ASSUME NEW k \in Counted \ {p} PROVE ReadsFresh(k)'
    <3>1. ReadsFresh(k)
      BY <1>3
    <3>2. reading'[k] = reading[k] /\ fresh'[k] = fresh[k]
      BY <1>4, <2>5
    <3> QED BY <2>1, <3>1, <3>2 DEF ReadsFresh
  <2>7. \A k \in Key : fresh'[k] <= unsaved'[k]
    BY <1>1, <2>2, <2>5
  <2>8. \A k \in Key \ Counted' : fresh'[k] = 0 /\ reading'[k] = 0
    BY <1>2, <2>3, <2>5
  <2> QED BY <2>3, <2>6, <2>7, <2>8 DEF FreshIsRead
<1>12. ASSUME NEW k \in Key, Answer(k) PROVE FreshIsRead'
  <2>1. /\ k \in Counted /\ UNCHANGED <<members, rings, rejoined>>
        /\ reading' = [reading EXCEPT ![k] = @ + 1] /\ fresh' = [fresh EXCEPT ![k] = @ + 1]
        /\ unsaved' = [unsaved EXCEPT ![k] = @ + 1]
    BY <1>12, AnswerEffect
  <2>2. Counted' = Counted
    BY <2>1 DEF Counted
  <2>3. /\ reading \in [Key -> Nat] /\ fresh \in [Key -> Nat] /\ unsaved \in [Key -> Nat]
    BY DEF TypeOK
  <2>4. /\ reading'[k] = reading[k] + 1 /\ fresh'[k] = fresh[k] + 1
        /\ unsaved'[k] = unsaved[k] + 1
        /\ \A j \in Key \ {k} : reading'[j] = reading[j] /\ fresh'[j] = fresh[j]
                                /\ unsaved'[j] = unsaved[j]
    BY <2>1, <2>3
  <2>5. ASSUME NEW j \in Counted PROVE ReadsFresh(j)'
    <3>1. ReadsFresh(j) /\ j \in Key
      BY <1>3, <1>4
    <3>2. CASE j = k
      <4>1. PICK l \in Nat \cup {None} : l = rings[k].last
        BY <1>1
      <4>2. PICK r \in Nat, f \in Nat : r = reading[k] /\ f = fresh[k]
        BY <1>1
      <4>3. IF l = None THEN r = f ELSE r <= f + l /\ (k \notin rejoined => r = f + l)
        BY <3>1, <3>2, <4>1, <4>2 DEF ReadsFresh
      <4>4. IF l = None THEN r + 1 = f + 1
            ELSE r + 1 <= f + 1 + l /\ (k \notin rejoined => r + 1 = f + 1 + l)
        BY <4>3 DEF None
      <4> QED BY <2>1, <2>4, <3>2, <4>1, <4>2, <4>4 DEF ReadsFresh
    <3>3. CASE j # k
      BY <2>1, <2>4, <3>1, <3>3 DEF ReadsFresh
    <3> QED BY <3>2, <3>3
  <2>6. \A j \in Key : fresh'[j] <= unsaved'[j]
    BY <1>1, <2>4
  <2>7. \A j \in Key \ Counted : fresh'[j] = 0 /\ reading'[j] = 0
    BY <1>2, <2>1, <2>4
  <2> QED BY <2>2, <2>5, <2>6, <2>7 DEF FreshIsRead
<1> QED BY <1>5, <1>6, <1>7, <1>8, <1>9, <1>10, <1>11, <1>12 DEF Next

(* The sums are of numbers. *)
LEMMA SumTypes ==
    ASSUME TypeOK, HistoryTypes, NEW k \in Key
    PROVE  /\ Total(rings[k]) \in Nat /\ Total(file[k]) \in Nat /\ fresh[k] \in Nat
           /\ unsaved[k] \in Nat /\ missed[k] \in Nat /\ answered[k] \in Nat
           /\ unread[k] \in Nat
BY KeyTypes DEF HistoryTypes

(* A close adds to what a ring counted what is no longer fresh. *)
LEMMA CloseMoves ==
    ASSUME TypeOK, HistoryTypes, FreshIsRead, Tick \/ Stop, NEW k \in Key
    PROVE  \E c \in Nat : /\ Total(rings'[k]) = Total(rings[k]) + c
                          /\ c + fresh'[k] <= fresh[k]
                          /\ k \notin rejoined => c + fresh'[k] = fresh[k]
<1>1. PICK start, stopping : CloseEffect(start, stopping)
  BY CloseStep
<1>2. fresh'[k] = IF k \in Counted THEN 0 ELSE fresh[k]
  BY CloseStep
<1>3. fresh[k] \in Nat /\ Total(rings[k]) \in Nat
  BY KeyTypes
<1>4. CASE k \in Counted
  <2>1. PICK c \in Nat : /\ c = Since(rings[k], reading[k]) /\ c <= fresh[k]
                         /\ k \notin rejoined => c = fresh[k]
    BY <1>4, SinceIsFresh
  <2>2. Total(rings'[k]) = Total(rings[k]) + c
    BY <1>1, <1>4, <2>1 DEF CloseEffect, Closes
  <2> QED BY <1>2, <1>3, <1>4, <2>1, <2>2
<1>5. CASE k \notin Counted
  <2>1. Total(rings'[k]) = Total(rings[k])
    BY <1>1, <1>5 DEF CloseEffect, Dropped
  <2>2. 0 \in Nat /\ Total(rings'[k]) = Total(rings[k]) + 0 /\ 0 + fresh'[k] = fresh[k]
    BY <1>2, <1>3, <1>5, <2>1
  <2> QED BY <1>3, <2>2
<1> QED BY <1>4, <1>5

(* Every step keeps the balance of a process's rings. *)
LEMMA RingsAccountStep ==
    ASSUME TypeOK, HistoryTypes, OffIsEmpty, FreshIsRead, RingsAccount, FileAccounts,
           [Next]_vars
    PROVE  RingsAccount'
<1> SUFFICES ASSUME Running', NEW k \in Key PROVE Balanced(k, rings[k], fresh[k] + unread[k])'
  BY DEF RingsAccount
<1>1. /\ Total(rings[k]) \in Nat /\ fresh[k] \in Nat /\ missed[k] \in Nat /\ answered[k] \in Nat
      /\ unread[k] \in Nat
  BY SumTypes
<1>2. Running => Balanced(k, rings[k], fresh[k] + unread[k])
  BY DEF RingsAccount
<1>3. CASE Running /\ UNCHANGED <<rings, fresh, unread, missed, answered, rejoined>>
  BY <1>2, <1>3 DEF Balanced
<1>4. CASE UNCHANGED vars \/ NextHour
  BY <1>3, <1>4 DEF vars, NextHour, Running, countVars
<1>5. CASE SaveFails
  BY <1>3, <1>5 DEF SaveFails, Running, Saving, countVars
<1>12. CASE Save
  <2>1. UNCHANGED <<rings, fresh, answered, rejoined>> /\ Running
    BY <1>12 DEF Save, Saving, Running
  <2>2. missed'[k] = missed[k] + unread[k] /\ unread'[k] = 0
    BY <1>12 DEF Save, Zeros
  <2>3. PICK t \in Nat, f \in Nat, u \in Nat, m \in Nat, a \in Nat :
           /\ t = Total(rings[k]) /\ f = fresh[k] /\ u = unread[k]
           /\ m = missed[k] /\ a = answered[k]
    BY <1>1
  <2>4. t + (f + u) + m <= a /\ (k \notin rejoined => t + (f + u) + m = a)
    BY <1>2, <2>1, <2>3 DEF Balanced
  <2>5. t + (f + 0) + (m + u) <= a /\ (k \notin rejoined => t + (f + 0) + (m + u) = a)
    BY <2>4
  <2> QED BY <2>1, <2>2, <2>3, <2>5 DEF Balanced
<1>6. CASE Tick \/ Stop
  <2>1. PICK c \in Nat : /\ Total(rings'[k]) = Total(rings[k]) + c
                         /\ c + fresh'[k] <= fresh[k]
                         /\ k \notin rejoined => c + fresh'[k] = fresh[k]
    BY <1>6, CloseMoves
  <2>2. UNCHANGED <<missed, unread, answered, rejoined>> /\ Running
    BY <1>6, CloseStep
  <2>3. fresh'[k] \in Nat
    BY <1>1, <1>6, CloseStep
  <2>4. PICK t \in Nat, m \in Nat, f \in Nat, g \in Nat, a \in Nat, u \in Nat :
           /\ t = Total(rings[k]) /\ m = missed[k] /\ f = fresh[k] /\ g = fresh'[k]
           /\ a = answered[k] /\ u = unread[k]
    BY <1>1, <2>3
  <2>5. t + (f + u) + m <= a /\ (k \notin rejoined => t + (f + u) + m = a)
    BY <1>2, <2>2, <2>4 DEF Balanced
  <2>6. (t + c) + (g + u) + m <= a /\ (k \notin rejoined => (t + c) + (g + u) + m = a)
    BY <2>1, <2>4, <2>5
  <2> QED BY <2>1, <2>2, <2>4, <2>6 DEF Balanced
<1>7. CASE Start \/ StartWithout
  <2>1. fresh = Zeros /\ unsaved = Zeros
    BY <1>7 DEF Start, StartWithout, StartWith, OffIsEmpty, Running
  <2>2. UNCHANGED <<fresh, missed, answered, rejoined>>
    BY <1>7 DEF Start, StartWithout, StartWith
  <2>3. fresh'[k] = 0 /\ unsaved[k] = 0
    BY <2>1, <2>2 DEF Zeros
  <2>4. PICK t \in Nat, u \in Nat : /\ t = Total(rings'[k]) /\ u = unread'[k]
                                   /\ t + u = Total(file[k])
    BY <1>7, StartRings, RingFields
  <2>5. Balanced(k, file[k], unsaved[k])
    BY DEF FileAccounts
  <2>6. t + (0 + u) + missed[k] = (t + u) + 0 + missed[k]
    BY <1>1
  <2> QED BY <2>2, <2>3, <2>4, <2>5, <2>6 DEF Balanced
<1>8. CASE End
  BY <1>8 DEF End, Running
<1>9. ASSUME NEW p \in Provider, Join(p) PROVE Balanced(k, rings[k], fresh[k] + unread[k])'
  BY <1>2, <1>9 DEF Join, Balanced, countVars
<1>10. ASSUME NEW p \in Provider, Leave(p) PROVE Balanced(k, rings[k], fresh[k] + unread[k])'
  <2>1. /\ UNCHANGED <<rings, unread, answered, rejoined>> /\ Running
        /\ missed' = [missed EXCEPT ![p] = @ + fresh[p]] /\ fresh' = [fresh EXCEPT ![p] = 0]
    BY <1>10 DEF Leave
  <2>2. fresh \in [Key -> Nat] /\ missed \in [Key -> Nat]
    BY DEF TypeOK, HistoryTypes
  <2>3. CASE k = p
    <3>1. fresh'[k] = 0 /\ missed'[k] = missed[k] + fresh[k]
      BY <2>1, <2>2, <2>3
    <3>2. PICK t \in Nat, f \in Nat, u \in Nat, m \in Nat, a \in Nat :
             /\ t = Total(rings[k]) /\ f = fresh[k] /\ u = unread[k]
             /\ m = missed[k] /\ a = answered[k]
      BY <1>1
    <3>3. t + (f + u) + m <= a /\ (k \notin rejoined => t + (f + u) + m = a)
      BY <1>2, <2>1, <3>2 DEF Balanced
    <3>4. t + (0 + u) + (m + f) <= a /\ (k \notin rejoined => t + (0 + u) + (m + f) = a)
      BY <3>3
    <3> QED BY <2>1, <3>1, <3>2, <3>4 DEF Balanced
  <2>4. CASE k # p
    BY <1>2, <2>1, <2>2, <2>4 DEF Balanced
  <2> QED BY <2>3, <2>4
<1>11. ASSUME NEW j \in Key, Answer(j) PROVE Balanced(k, rings[k], fresh[k] + unread[k])'
  <2>1. /\ UNCHANGED <<rings, unread, missed, rejoined>> /\ Running
        /\ fresh' = [fresh EXCEPT ![j] = @ + 1] /\ answered' = [answered EXCEPT ![j] = @ + 1]
    BY <1>11, AnswerEffect
  <2>2. fresh \in [Key -> Nat] /\ answered \in [Key -> Nat]
    BY DEF TypeOK, HistoryTypes
  <2>3. CASE k = j
    <3>1. fresh'[k] = fresh[k] + 1 /\ answered'[k] = answered[k] + 1
      BY <2>1, <2>2, <2>3
    <3>2. PICK t \in Nat, f \in Nat, u \in Nat, m \in Nat, a \in Nat :
             /\ t = Total(rings[k]) /\ f = fresh[k] /\ u = unread[k]
             /\ m = missed[k] /\ a = answered[k]
      BY <1>1
    <3>3. t + (f + u) + m <= a /\ (k \notin rejoined => t + (f + u) + m = a)
      BY <1>2, <2>1, <3>2 DEF Balanced
    <3>4. t + ((f + 1) + u) + m <= a + 1 /\ (k \notin rejoined => t + ((f + 1) + u) + m = a + 1)
      BY <3>3
    <3> QED BY <2>1, <3>1, <3>2, <3>4 DEF Balanced
  <2>4. CASE k # j
    BY <1>2, <2>1, <2>2, <2>4 DEF Balanced
  <2> QED BY <2>3, <2>4
<1> QED BY <1>4, <1>5, <1>6, <1>7, <1>8, <1>9, <1>10, <1>11, <1>12 DEF Next

(* Every step keeps the balance of the file. *)
LEMMA FileAccountsStep ==
    ASSUME TypeOK, HistoryTypes, FreshIsRead, RingsAccount, FileAccounts, [Next]_vars
    PROVE  FileAccounts'
<1> SUFFICES ASSUME NEW k \in Key PROVE Balanced(k, file[k], unsaved[k])'
  BY DEF FileAccounts
<1>1. /\ Total(file[k]) \in Nat /\ unsaved[k] \in Nat /\ missed[k] \in Nat
      /\ answered[k] \in Nat /\ fresh[k] \in Nat
  BY SumTypes
<1>2. Balanced(k, file[k], unsaved[k])
  BY DEF FileAccounts
<1>3. CASE UNCHANGED <<file, unsaved, missed, answered, rejoined>>
  BY <1>2, <1>3 DEF Balanced
<1>4. CASE UNCHANGED vars \/ NextHour \/ SaveFails \/ Start \/ StartWithout
  BY <1>3, <1>4 DEF vars, NextHour, SaveFails, Start, StartWithout, StartWith, countVars
<1>5. CASE Tick \/ Stop
  BY <1>3, <1>5, CloseStep
<1>6. CASE Save
  <2>1. UNCHANGED <<answered, rejoined>> /\ file' = rings /\ unsaved' = fresh /\ Running
    BY <1>6 DEF Save, Replace, Saving, Running
  <2>2. missed'[k] = missed[k] + unread[k]
    BY <1>6 DEF Save
  <2>3. Balanced(k, rings[k], fresh[k] + unread[k])
    BY <2>1 DEF RingsAccount
  <2>4. Total(rings[k]) \in Nat /\ unread[k] \in Nat
    BY SumTypes
  <2>5. PICK t \in Nat, f \in Nat, u \in Nat, m \in Nat, a \in Nat :
           /\ t = Total(rings[k]) /\ f = fresh[k] /\ u = unread[k]
           /\ m = missed[k] /\ a = answered[k]
    BY <1>1, <2>4
  <2>6. t + (f + u) + m <= a /\ (k \notin rejoined => t + (f + u) + m = a)
    BY <2>3, <2>5 DEF Balanced
  <2>7. t + f + (m + u) <= a /\ (k \notin rejoined => t + f + (m + u) = a)
    BY <2>6
  <2> QED BY <2>1, <2>2, <2>5, <2>7 DEF Balanced
<1>7. CASE End
  <2>1. UNCHANGED <<file, answered, rejoined>>
    BY <1>7 DEF End
  <2>2. unsaved'[k] = 0 /\ missed'[k] = missed[k] + unsaved[k]
    BY <1>7 DEF End, Zeros
  <2>3. PICK t \in Nat, n \in Nat, f \in Nat, m \in Nat, a \in Nat :
           /\ t = Total(file[k]) /\ n = unsaved[k] /\ f = fresh[k]
           /\ m = missed[k] /\ a = answered[k]
    BY <1>1
  <2>4. t + n + m <= a /\ (k \notin rejoined => t + n + m = a)
    BY <1>2, <2>3 DEF Balanced
  <2>5. t + 0 + (m + n) <= a /\ (k \notin rejoined => t + 0 + (m + n) = a)
    BY <2>4
  <2> QED BY <2>1, <2>2, <2>3, <2>5 DEF Balanced
<1>8. ASSUME NEW p \in Provider, Join(p) PROVE Balanced(k, file[k], unsaved[k])'
  BY <1>2, <1>8 DEF Join, Balanced, countVars
<1>9. ASSUME NEW p \in Provider, Leave(p) PROVE Balanced(k, file[k], unsaved[k])'
  <2>1. /\ UNCHANGED <<file, answered, rejoined>>
        /\ missed' = [missed EXCEPT ![p] = @ + fresh[p]]
        /\ unsaved' = [unsaved EXCEPT ![p] = @ - fresh[p]]
    BY <1>9 DEF Leave
  <2>2. unsaved \in [Key -> Nat] /\ missed \in [Key -> Nat]
    BY DEF TypeOK, HistoryTypes
  <2>3. CASE k = p
    <3>1. unsaved'[k] = unsaved[k] - fresh[k] /\ missed'[k] = missed[k] + fresh[k]
      BY <2>1, <2>2, <2>3
    <3>2. PICK t \in Nat, n \in Nat, f \in Nat, m \in Nat, a \in Nat :
             /\ t = Total(file[k]) /\ n = unsaved[k] /\ f = fresh[k]
             /\ m = missed[k] /\ a = answered[k]
      BY <1>1
    <3>3. t + n + m <= a /\ (k \notin rejoined => t + n + m = a)
      BY <1>2, <3>2 DEF Balanced
    <3>4. t + (n - f) + (m + f) <= a /\ (k \notin rejoined => t + (n - f) + (m + f) = a)
      BY <3>3
    <3> QED BY <2>1, <3>1, <3>2, <3>4 DEF Balanced
  <2>4. CASE k # p
    BY <1>2, <2>1, <2>2, <2>4 DEF Balanced
  <2> QED BY <2>3, <2>4
<1>10. ASSUME NEW j \in Key, Answer(j) PROVE Balanced(k, file[k], unsaved[k])'
  <2>1. /\ UNCHANGED <<file, missed, rejoined>>
        /\ unsaved' = [unsaved EXCEPT ![j] = @ + 1] /\ answered' = [answered EXCEPT ![j] = @ + 1]
    BY <1>10, AnswerEffect
  <2>2. unsaved \in [Key -> Nat] /\ answered \in [Key -> Nat]
    BY DEF TypeOK, HistoryTypes
  <2>3. CASE k = j
    <3>1. unsaved'[k] = unsaved[k] + 1 /\ answered'[k] = answered[k] + 1
      BY <2>1, <2>2, <2>3
    <3>2. PICK t \in Nat, n \in Nat, f \in Nat, m \in Nat, a \in Nat :
             /\ t = Total(file[k]) /\ n = unsaved[k] /\ f = fresh[k]
             /\ m = missed[k] /\ a = answered[k]
      BY <1>1
    <3>3. t + n + m <= a /\ (k \notin rejoined => t + n + m = a)
      BY <1>2, <3>2 DEF Balanced
    <3>4. t + (n + 1) + m <= a + 1 /\ (k \notin rejoined => t + (n + 1) + m = a + 1)
      BY <3>3
    <3> QED BY <2>1, <3>1, <3>2, <3>4 DEF Balanced
  <2>4. CASE k # j
    BY <1>2, <2>1, <2>2, <2>4 DEF Balanced
  <2> QED BY <2>3, <2>4
<1> QED BY <1>4, <1>5, <1>6, <1>7, <1>8, <1>9, <1>10 DEF Next

(* Every step keeps the rings at or past what the file has. *)
LEMMA FileBehindStep ==
    ASSUME TypeOK, HistoryTypes, OffIsEmpty, FreshIsRead, FileBehind, [Next]_vars
    PROVE  FileBehind'
<1> SUFFICES ASSUME Running', NEW k \in Key
             PROVE  Total(file'[k]) <= Total(rings'[k]) + unread'[k]
  BY DEF FileBehind
<1>1. Total(file[k]) \in Nat /\ Total(rings[k]) \in Nat /\ unread[k] \in Nat
  BY SumTypes
<1>2. Running => Total(file[k]) <= Total(rings[k]) + unread[k]
  BY DEF FileBehind
<1>3. CASE Running /\ UNCHANGED <<rings, file, unread>>
  BY <1>2, <1>3
<1>4. CASE UNCHANGED vars \/ NextHour
  BY <1>3, <1>4 DEF vars, NextHour, Running, countVars
<1>5. CASE SaveFails
  BY <1>3, <1>5 DEF SaveFails, Saving, Running, countVars
<1>6. CASE Save
  <2>1. file' = rings /\ rings' = rings /\ unread'[k] = 0
    BY <1>6 DEF Save, Replace, Zeros
  <2> QED BY <1>1, <2>1
<1>7. CASE Tick \/ Stop
  <2>1. file' = file /\ unread' = unread /\ Running
    BY <1>7, CloseStep
  <2>2. PICK c \in Nat : Total(rings'[k]) = Total(rings[k]) + c
    BY <1>7, CloseMoves
  <2> QED BY <1>1, <1>2, <2>1, <2>2
<1>8. CASE Start \/ StartWithout
  <2>1. file' = file
    BY <1>8 DEF Start, StartWithout, StartWith
  <2>2. Total(rings'[k]) + unread'[k] = Total(file[k])
    BY <1>8, StartRings
  <2> QED BY <1>1, <2>1, <2>2
<1>9. CASE End
  BY <1>9 DEF End, Running
<1>10. CASE \E p \in Provider : Join(p) \/ Leave(p)
  BY <1>3, <1>10 DEF Join, Leave, countVars
<1>11. CASE \E j \in Key : Answer(j)
  BY <1>3, <1>11, AnswerEffect
<1> QED BY <1>4, <1>5, <1>6, <1>7, <1>8, <1>9, <1>10, <1>11 DEF Next

(* The hour that is counted and the one that is closed only go on. *)
LEMMA HoursGoOn ==
    ASSUME TypeOK, [Next]_vars
    PROVE  /\ Counting \in Nat /\ Counting' \in Nat /\ Closing \in Nat /\ Closing' \in Nat
           /\ Counting <= Counting' /\ Closing <= Closing' /\ Counting <= hour
<1>1. hour \in Nat /\ open \in Nat /\ open <= hour
  BY ClockTypes
<1>2. CASE Tick \/ Stop \/ Start \/ StartWithout \/ End
  <2>1. Counting \in {open, hour} /\ Closing \in {open, hour}
    BY DEF Counting, Closing
  <2>2. CASE Tick
    <3>1. Counting = open /\ Closing = open /\ Counting' = hour /\ Closing' = open
      BY <2>2 DEF Tick, Counting, Closing
    <3> QED BY <1>1, <3>1
  <2>3. CASE Stop \/ Start \/ StartWithout \/ End
    <3>1. Counting' = hour /\ Closing' = hour
      BY <2>3 DEF Stop, Start, StartWithout, StartWith, End, Counting, Closing
    <3> QED BY <1>1, <2>1, <3>1
  <2> QED BY <1>2, <2>2, <2>3
<1>3. CASE Save \/ SaveFails
  <2>1. Saving /\ Continue /\ hour' = hour
    BY <1>3 DEF Save, SaveFails
  <2>2. Counting \in {open, hour} /\ Closing \in {open, hour}
    BY DEF Counting, Closing
  <2>3. Counting' = hour /\ Closing' = hour
    BY <2>1 DEF Continue, Counting, Closing
  <2> QED BY <1>1, <2>2, <2>3
<1>4. CASE NextHour
  BY <1>1, <1>4 DEF NextHour, Counting, Closing
<1>5. CASE UNCHANGED <<hour, open, task>>
  BY <1>1, <1>5 DEF Counting, Closing
<1>6. CASE UNCHANGED vars \/ \E p \in Provider : Join(p) \/ Leave(p)
  BY <1>5, <1>6 DEF vars, Join, Leave
<1>7. CASE \E k \in Key : Answer(k)
  BY <1>5, <1>7, AnswerEffect
<1> QED BY <1>2, <1>3, <1>4, <1>6, <1>7 DEF Next

(* Where the buckets of a ring come from, but for a close. *)
LEMMA RingsOrigin ==
    ASSUME TypeOK, HistoryTypes, OffIsEmpty, [Next]_vars, NEW k \in Key
    PROVE  \/ (Tick \/ Stop) /\ k \in Counted
           \/ rings'[k].buckets \in {rings[k].buckets, file[k].buckets, <<>>}
<1>1. CASE (Tick \/ Stop) /\ k \notin Counted
  <2>1. PICK start, stopping : CloseEffect(start, stopping)
    BY <1>1, CloseStep
  <2> QED BY <1>1, <2>1 DEF CloseEffect, Dropped
<1>2. CASE Start \/ StartWithout
  BY <1>2, StartRings
<1>3. CASE End
  <2>1. rings' = NoRings
    BY <1>3 DEF End
  <2> QED BY <2>1, EmptyIsRing
<1>4. CASE UNCHANGED vars \/ NextHour \/ Save \/ SaveFails
  BY <1>4 DEF vars, NextHour, Save, SaveFails
<1>5. CASE \E p \in Provider : Join(p) \/ Leave(p)
  BY <1>5 DEF Join, Leave
<1>6. CASE \E j \in Key : Answer(j)
  BY <1>6, AnswerEffect
<1> QED BY <1>1, <1>2, <1>3, <1>4, <1>5, <1>6 DEF Next

(* A save writes the rings, and nothing else changes the file's. *)
LEMMA FileOrigin ==
    ASSUME [Next]_vars
    PROVE  file' \in {file, rings}
<1>1. CASE \/ UNCHANGED vars \/ Tick \/ Stop \/ SaveFails \/ Start \/ StartWithout
           \/ End \/ NextHour
  BY <1>1 DEF vars, Tick, Stop, SaveFails, Start, StartWithout, StartWith, End, NextHour
<1>2. CASE Save
  BY <1>2 DEF Save, Replace
<1>3. CASE \E p \in Provider : Join(p) \/ Leave(p)
  BY <1>3 DEF Join, Leave
<1>4. CASE \E k \in Key : Answer(k)
  BY <1>4, AnswerEffect
<1> QED BY <1>1, <1>2, <1>3, <1>4 DEF Next

(* The order depends on the buckets alone, and survives a later hour. *)
LEMMA OrderedLater ==
    ASSUME NEW ring \in Ring, NEW new, NEW h \in Nat, NEW g \in Nat, h <= g,
           Ordered(ring, h), new.buckets = ring.buckets
    PROVE  Ordered(new, g)
<1>1. Rising(ring.buckets) /\ Bounded(ring.buckets, h)
  BY DEF Ordered
<1>2. ASSUME NEW i \in 1..Len(ring.buckets) PROVE ring.buckets[i].start <= g
  <2>1. ring.buckets[i].start \in Nat
    BY RingFields, BucketFields
  <2>2. ring.buckets[i].start <= h
    BY <1>1 DEF Bounded
  <2> QED BY <2>1, <2>2
<1>3. Bounded(ring.buckets, g)
  BY <1>2 DEF Bounded
<1> QED BY <1>1, <1>3 DEF Ordered

(* A ring without buckets is in order, and all of its hours were whole. *)
LEMMA EmptyIsFine ==
    ASSUME NEW new, NEW h, NEW c, new.buckets = <<>>
    PROVE  Ordered(new, h) /\ Past(new, h, c)
BY DEF Ordered, Rising, Bounded, Past

(* Every step keeps the buckets in the order of their hours. *)
LEMMA InOrderStep ==
    ASSUME TypeOK, HistoryTypes, OffIsEmpty, InOrder, [Next]_vars
    PROVE  InOrder'
<1>1. Closing \in Nat /\ Closing' \in Nat /\ Closing <= Closing'
  BY HoursGoOn
<1> SUFFICES ASSUME NEW k \in Key
             PROVE  Ordered(rings'[k], Closing') /\ Ordered(file'[k], Closing')
  BY DEF InOrder
<1>2. /\ rings[k] \in Ring /\ file[k] \in Ring
      /\ Ordered(rings[k], Closing) /\ Ordered(file[k], Closing)
  BY KeyTypes DEF InOrder
<1>3. Ordered(rings[k], Closing') /\ Ordered(file[k], Closing')
  BY <1>1, <1>2, OrderedLater
<1>4. Ordered(file'[k], Closing')
  BY <1>3, FileOrigin
<1>5. CASE rings'[k].buckets \in {rings[k].buckets, file[k].buckets, <<>>}
  <2>1. Ordered(rings'[k], Closing')
    BY <1>1, <1>2, <1>5, OrderedLater, EmptyIsFine
  <2> QED BY <1>4, <2>1
<1>6. CASE (Tick \/ Stop) /\ k \in Counted
  <2>1. PICK start, stopping : Closes(rings'[k], rings[k], start, reading[k], stopping)
                               /\ start = Closing'
    <3>1. CASE Tick
      <4>1. Closing' = open
        BY <3>1 DEF Tick, Closing
      <4> QED BY <1>6, <3>1, <4>1, TickCloses DEF CloseEffect
    <3>2. CASE Stop
      <4>1. Closing' = hour
        BY <3>2 DEF Stop, Closing
      <4> QED BY <1>6, <3>2, <4>1, StopCloses DEF CloseEffect
    <3> QED BY <1>6, <3>1, <3>2
  <2>2. Rising(rings[k].buckets) /\ Bounded(rings[k].buckets, start)
    BY <1>3, <2>1 DEF Ordered
  <2>3. Rising(rings'[k].buckets) /\ Bounded(rings'[k].buckets, start)
    BY <2>1, <2>2 DEF Closes
  <2>4. Ordered(rings'[k], Closing')
    BY <2>1, <2>3 DEF Ordered
  <2> QED BY <1>4, <2>4
<1> QED BY <1>4, <1>5, <1>6, RingsOrigin

(* Only hours that are not over are cut anew. *)
LEMMA CutsLater ==
    ASSUME TypeOK, HistoryTypes, [Next]_vars, NEW k \in Key
    PROVE  /\ rejoined \subseteq rejoined' /\ cut'[k] \subseteq cut[k] \cup {hour, Counting}
           /\ Cuts(k)' \subseteq Cuts(k) \cup {hour, Counting}
<1>1. cut \in [Key -> SUBSET Nat]
  BY DEF HistoryTypes
<1>2. rejoined \subseteq rejoined' /\ cut'[k] \subseteq cut[k] \cup {hour, Counting}
  <2>1. CASE UNCHANGED vars \/ Tick \/ Save \/ SaveFails \/ NextHour
    BY <2>1 DEF vars, Tick, Save, SaveFails, NextHour
  <2>2. CASE Stop \/ Start \/ StartWithout \/ End
    <3>1. rejoined' = rejoined
      BY <2>2 DEF Stop, Start, StartWithout, StartWith, End
    <3>2. \/ cut' = [j \in Key |-> cut[j] \cup {hour}]
          \/ cut' = [j \in Key |-> cut[j] \cup {Counting}]
      BY <2>2 DEF Stop, Start, StartWithout, StartWith, End
    <3>3. cut'[k] = cut[k] \cup {hour} \/ cut'[k] = cut[k] \cup {Counting}
      BY <3>2
    <3> QED BY <3>1, <3>3
  <2>3. CASE \E p \in Provider : Join(p) \/ Leave(p)
    <3>1. PICK p \in Provider : Join(p) \/ Leave(p)
      BY <2>3
    <3>2. cut' = [cut EXCEPT ![p] = cut[p] \cup {Counting}] /\ rejoined \subseteq rejoined'
      BY <3>1 DEF Join, Leave
    <3> QED BY <1>1, <3>2
  <2>4. CASE \E j \in Key : Answer(j)
    BY <2>4, AnswerEffect
  <2> QED BY <2>1, <2>2, <2>3, <2>4 DEF Next
<1> QED BY <1>2 DEF Cuts

(* That a bucket's hour was whole depends on the buckets alone, and is not
   undone by cutting an hour that is not over. *)
LEMMA PastLater ==
    ASSUME NEW ring \in Ring, NEW new, NEW h \in Nat, NEW g \in Nat, NEW m \in Nat, h <= g, h <= m,
           NEW c, NEW d, d \subseteq c \cup {m, h}, Past(ring, h, c), new.buckets = ring.buckets
    PROVE  Past(new, g, d)
<1> SUFFICES ASSUME NEW i \in 1..Len(ring.buckets), ~ring.buckets[i].partial
             PROVE  ring.buckets[i].start < g /\ ring.buckets[i].start \notin d
  BY Zenon DEF Past
<1>1. PICK s \in Nat : s = ring.buckets[i].start
  BY RingFields, BucketFields
<1>2. s < h /\ s \notin c
  BY <1>1 DEF Past
<1> QED BY <1>1, <1>2

(* Every step keeps the hours not marked partial whole. *)
LEMMA WholeIsPastStep ==
    ASSUME TypeOK, HistoryTypes, OffIsEmpty, WholeIsPast, NotCut, [Next]_vars
    PROVE  WholeIsPast'
<1>1. /\ Counting \in Nat /\ Counting' \in Nat /\ Counting <= Counting' /\ Counting <= hour
      /\ hour \in Nat
  BY HoursGoOn, ClockTypes
<1> SUFFICES ASSUME NEW k \in Key
             PROVE  Past(rings'[k], Counting', Cuts(k)') /\ Past(file'[k], Counting', Cuts(k)')
  BY DEF WholeIsPast
<1>2. /\ rings[k] \in Ring /\ file[k] \in Ring
      /\ Past(rings[k], Counting, Cuts(k)) /\ Past(file[k], Counting, Cuts(k))
  BY KeyTypes DEF WholeIsPast
<1>3. Cuts(k)' \subseteq Cuts(k) \cup {hour, Counting}
  BY CutsLater
<1>4. ASSUME NEW new, new.buckets \in {rings[k].buckets, file[k].buckets, <<>>}
      PROVE  Past(new, Counting', Cuts(k)')
  <2>1. CASE new.buckets = rings[k].buckets
    BY <1>1, <1>2, <1>3, <2>1, PastLater
  <2>2. CASE new.buckets = file[k].buckets
    BY <1>1, <1>2, <1>3, <2>2, PastLater
  <2>3. CASE new.buckets = <<>>
    BY <2>3, EmptyIsFine
  <2> QED BY <1>4, <2>1, <2>2, <2>3
<1>5. Past(file'[k], Counting', Cuts(k)')
  BY <1>4, FileOrigin
<1>6. Past(rings[k], Counting', Cuts(k)')
  BY <1>4
<1>7. CASE (Tick \/ Stop) /\ k \in Counted
  <2>1. PICK start, stopping :
           /\ Closes(rings'[k], rings[k], start, reading[k], stopping)
           /\ ~stopping /\ rings[k].last # None => start < Counting' /\ start \notin Cuts(k)'
    <3>1. CASE Tick
      <4>1. Counting' = hour /\ Counting = open /\ open < hour /\ task = "waiting"
        BY <3>1 DEF Tick, Counting
      <4>2. Cuts(k)' = Cuts(k)
        BY <3>1 DEF Tick, Cuts
      <4>3. rings[k].last # None => open \notin Cuts(k)
        BY <1>7, <4>1 DEF NotCut, Cuts
      <4>4. Closes(rings'[k], rings[k], open, reading[k], FALSE)
        BY <1>7, <3>1, TickCloses DEF CloseEffect
      <4> QED BY <4>1, <4>2, <4>3, <4>4
    <3>2. CASE Stop
      <4>1. Closes(rings'[k], rings[k], hour, reading[k], TRUE)
        BY <1>7, <3>2, StopCloses DEF CloseEffect
      <4> QED BY <4>1
    <3> QED BY <1>7, <3>1, <3>2
  <2>2. ASSUME NEW i \in 1..Len(rings'[k].buckets), ~rings'[k].buckets[i].partial
        PROVE  rings'[k].buckets[i].start < Counting' /\ rings'[k].buckets[i].start \notin Cuts(k)'
    <3>1. PICK b : b = rings'[k].buckets[i]
      OBVIOUS
    <3>2. Explained(b, rings[k], start, stopping)
      BY <2>1, <3>1, Zenon DEF Closes
    <3>3. CASE \E j \in 1..Len(rings[k].buckets) : b = rings[k].buckets[j]
      <4>1. PICK j \in 1..Len(rings[k].buckets) : b = rings[k].buckets[j]
        BY <3>3
      <4> QED BY <1>6, <2>2, <3>1, <4>1, Zenon DEF Past
    <3>4. CASE b.start = start /\ ~stopping /\ rings[k].last # None
      BY <2>1, <3>1, <3>4
    <3> QED BY <2>2, <3>1, <3>2, <3>3, <3>4, Zenon DEF Explained
  <2>3. Past(rings'[k], Counting', Cuts(k)')
    BY <2>2, Zenon DEF Past
  <2> QED BY <1>5, <2>3
<1>8. CASE rings'[k].buckets \in {rings[k].buckets, file[k].buckets, <<>>}
  BY <1>4, <1>5, <1>8
<1> QED BY <1>7, <1>8, RingsOrigin

(* Every step keeps the hour being counted whole for a counter closed before. *)
LEMMA NotCutStep ==
    ASSUME TypeOK, HistoryTypes, OffIsEmpty, NotCut, [Next]_vars
    PROVE  NotCut'
<1>1. /\ Counting \in Nat /\ Counting' \in Nat /\ Counting <= Counting' /\ Counting <= hour
      /\ hour \in Nat /\ open \in Nat /\ open <= hour
  BY HoursGoOn, ClockTypes
<1>2. \A k \in Key : cut[k] \subseteq Nat /\ \A h \in cut[k] : h <= Counting
  BY DEF HistoryTypes, NotCut
<1>3. Counted \subseteq Key /\ Lb \in Counted
  BY CountedKeys
<1>4. \A k \in Key : rejoined \subseteq rejoined' /\ cut'[k] \subseteq cut[k] \cup {hour, Counting}
  BY CutsLater
<1>5. ASSUME NEW k \in Key, NEW h \in cut'[k] PROVE h <= Counting'
  <2>1. CASE h \in cut[k]
    BY <1>1, <1>2, <2>1
  <2>2. CASE h \notin cut[k]
    <3>1. CASE Stop \/ Start \/ StartWithout \/ End
      <4>1. Counting' = hour /\ h \in {hour, Counting}
        BY <1>4, <1>5, <2>2, <3>1 DEF Stop, Start, StartWithout, StartWith, End, Counting
      <4> QED BY <1>1, <4>1
    <3>2. CASE UNCHANGED vars \/ Tick \/ Save \/ SaveFails \/ NextHour
      BY <1>5, <2>2, <3>2 DEF vars, Tick, Save, SaveFails, NextHour
    <3>3. CASE \E p \in Provider : Join(p) \/ Leave(p)
      <4>1. PICK p \in Provider : Join(p) \/ Leave(p)
        BY <3>3
      <4>2. cut' = [cut EXCEPT ![p] = cut[p] \cup {Counting}] /\ Counting' = Counting
        BY <4>1 DEF Join, Leave, Counting
      <4>3. cut \in [Key -> SUBSET Nat]
        BY DEF HistoryTypes
      <4>4. h = Counting
        BY <1>5, <2>2, <4>2, <4>3
      <4> QED BY <1>1, <4>2, <4>4
    <3>4. CASE \E j \in Key : Answer(j)
      BY <1>5, <2>2, <3>4, AnswerEffect
    <3> QED BY <3>1, <3>2, <3>3, <3>4 DEF Next
  <2> QED BY <2>1, <2>2
<1>6. ASSUME task' \in {"waiting", "saving"}, NEW k \in Counted' \ rejoined', rings'[k].last # None
      PROVE  Counting' \notin cut'[k]
  <2>1. k \in Key
    <3>1. members' \subseteq Provider
      <4>1. members \subseteq Provider
        BY DEF TypeOK
      <4>2. CASE UNCHANGED members
        BY <4>1, <4>2
      <4>3. CASE \E p \in Provider : Join(p) \/ Leave(p)
        BY <4>1, <4>3 DEF Join, Leave
      <4>4. CASE \E j \in Key : Answer(j)
        BY <4>2, <4>4, AnswerEffect
      <4>5. CASE \/ UNCHANGED vars \/ Tick \/ Stop \/ Save \/ SaveFails \/ Start \/ StartWithout
                 \/ End \/ NextHour
        BY <4>1, <4>5 DEF vars, Tick, Stop, Save, SaveFails, Start, StartWithout, StartWith,
           End, NextHour, poolVars
      <4> QED BY <4>3, <4>4, <4>5 DEF Next
    <3> QED BY <1>6, <3>1 DEF Counted, Key
  <2>2. ASSUME Counting < Counting', UNCHANGED cut PROVE Counting' \notin cut'[k]
    BY <1>1, <1>2, <2>1, <2>2
  <2>3. CASE UNCHANGED <<task, open, hour, members, rings, cut, rejoined>>
    BY <1>6, <2>3 DEF NotCut, Counting, Counted
  <2>4. CASE Tick
    <3>1. Counting = open /\ Counting' = hour /\ open < hour /\ cut' = cut
      BY <2>4 DEF Tick, Counting
    <3> QED BY <2>2, <3>1
  <2>5. CASE Stop \/ End
    BY <1>6, <2>5 DEF Stop, End
  <2>6. CASE Save \/ SaveFails
    <3>1. Saving /\ Continue /\ UNCHANGED <<hour, members, rings, cut, rejoined>>
      BY <2>6 DEF Save, SaveFails, poolVars
    <3>2. task = "saving" /\ Counting = hour /\ Counting' = hour
      BY <1>6, <3>1 DEF Saving, Continue, Counting
    <3> QED BY <1>6, <3>1, <3>2 DEF NotCut, Counted
  <2>7. CASE Start \/ StartWithout
    BY <1>6, <2>1, <2>7, StartRings
  <2>8. CASE NextHour
    <3>1. UNCHANGED <<task, open, members, rings, cut, rejoined>> /\ hour' = hour + 1
      BY <2>8 DEF NextHour, poolVars
    <3>2. CASE task = "waiting"
      <4>1. Counting' = Counting
        BY <3>1, <3>2 DEF Counting
      <4> QED BY <1>6, <3>1, <4>1 DEF NotCut, Counted
    <3>3. CASE task # "waiting"
      <4>1. Counting = hour /\ Counting' = hour + 1
        BY <3>1, <3>3 DEF Counting
      <4> QED BY <1>1, <2>2, <3>1, <4>1
    <3> QED BY <3>2, <3>3
  <2>9. CASE UNCHANGED vars
    BY <2>3, <2>9 DEF vars
  <2>10. ASSUME NEW p \in Provider, Join(p) \/ Leave(p) PROVE Counting' \notin cut'[k]
    <3>1. /\ UNCHANGED <<task, open, hour, rings>> /\ rejoined \subseteq rejoined'
          /\ cut' = [cut EXCEPT ![p] = cut[p] \cup {Counting}]
          /\ members' \in {members \cup {p}, members \ {p}}
      BY <2>10 DEF Join, Leave
    <3>2. k # p
      <4>1. CASE Join(p)
        <5>1. rings[p].last # None => p \in rejoined'
          BY <4>1 DEF Join
        <5> QED BY <1>6, <3>1, <5>1
      <4>2. CASE Leave(p)
        <5>1. p \notin members'
          BY <4>2 DEF Leave
        <5> QED BY <1>6, <5>1, StatsAssumption DEF Counted
      <4> QED BY <2>10, <4>1, <4>2
    <3>3. k \in Counted \ rejoined /\ Counting' = Counting /\ cut'[k] = cut[k]
      BY <1>6, <3>1, <3>2 DEF Counted, Counting
    <3> QED BY <1>6, <3>1, <3>3 DEF NotCut
  <2>11. CASE \E j \in Key : Answer(j)
    BY <2>3, <2>11, AnswerEffect
  <2> QED BY <2>4, <2>5, <2>6, <2>7, <2>8, <2>9, <2>10, <2>11 DEF Next
<1> QED BY <1>5, <1>6 DEF NotCut

(* The first process finds no file, and nothing is counted. *)
LEMMA InitHInv == Init => HInv
<1> SUFFICES ASSUME Init PROVE HInv
  OBVIOUS
<1>1. /\ hour = 0 /\ task = "off" /\ open = 0 /\ members = {} /\ reading = Zeros
      /\ rings = NoRings /\ file = NoRings /\ answered = Zeros /\ missed = Zeros
      /\ fresh = Zeros /\ unsaved = Zeros /\ unread = Zeros /\ cut = [k \in Key |-> {}]
      /\ rejoined = {}
  BY DEF Init
<1>3. NoRings \in Rings
  <2>1. NoRings = [k \in Key |-> NoRings[k]]
    BY DEF NoRings
  <2> QED BY <2>1, EmptyIsRing, RingsSuffice
<1>4. \A k \in Key : /\ NoRings[k] \in Ring /\ NoRings[k].buckets = <<>> /\ NoRings[k].last = None
                     /\ Total(NoRings[k]) = 0 /\ Zeros[k] = 0
  BY EmptyIsRing DEF Zeros
<1>5. \A k \in Key : Len(NoRings[k].buckets) <= Hours
  BY <1>4, StatsAssumption
<1>6. TypeOK
  <2>1. hour \in 0..MaxHour /\ open \in 0..hour
    BY <1>1, StatsAssumption
  <2> QED BY <1>1, <1>3, <1>5, <2>1, ZerosType DEF TypeOK
<1>7. HistoryTypes
  BY <1>1, <1>5, ZerosType DEF HistoryTypes
<1>8. OffIsEmpty /\ RingsAccount /\ FileBehind
  BY <1>1 DEF OffIsEmpty, RingsAccount, FileBehind, Running
<1>9. FreshIsRead
  <2>1. Counted = {Lb} /\ Lb \in Key
    BY <1>1 DEF Counted, Key
  <2>2. ReadsFresh(Lb)
    BY <1>1, <1>4, <2>1 DEF ReadsFresh
  <2>3. \A k \in Key : fresh[k] <= unsaved[k] /\ fresh[k] = 0 /\ reading[k] = 0
    BY <1>1, <1>4
  <2> QED BY <2>1, <2>2, <2>3 DEF FreshIsRead
<1>10. FileAccounts
  BY <1>1, <1>4 DEF FileAccounts, Balanced
<1>11. InOrder /\ WholeIsPast
  BY <1>1, <1>4, EmptyIsFine DEF InOrder, WholeIsPast
<1>12. NotCut
  BY <1>1 DEF NotCut
<1> QED BY <1>6, <1>7, <1>8, <1>9, <1>10, <1>11, <1>12 DEF HInv

(* HInv is inductive: one step above for each of its parts. *)
LEMMA StepHInv == HInv /\ [Next]_vars => HInv'
<1> SUFFICES ASSUME HInv, [Next]_vars PROVE HInv'
  OBVIOUS
<1>1. /\ TypeOK /\ HistoryTypes /\ OffIsEmpty /\ FreshIsRead /\ RingsAccount /\ FileAccounts
      /\ FileBehind /\ InOrder /\ WholeIsPast /\ NotCut
  BY DEF HInv
<1>2. TypeOK' /\ HistoryTypes'
  BY <1>1, TypesStep
<1>3. OffIsEmpty' /\ FreshIsRead'
  BY <1>1, OffStep, FreshStep
<1>4. RingsAccount' /\ FileAccounts' /\ FileBehind'
  BY <1>1, RingsAccountStep, FileAccountsStep, FileBehindStep
<1>5. InOrder' /\ WholeIsPast' /\ NotCut'
  BY <1>1, InOrderStep, WholeIsPastStep, NotCutStep
<1> QED BY <1>2, <1>3, <1>4, <1>5 DEF HInv

(* HInv is an invariant of the specification. *)
LEMMA HInvHolds == Spec => []HInv
BY InitHInv, StepHInv, PTL DEF Spec

(* What is kept, by a process or in the file, balances. *)
LEMMA HInvCounted == HInv => CountedOnce
<1> SUFFICES ASSUME HInv, NEW k \in Key
             PROVE  /\ Accounted(k) <= answered[k]
                    /\ k \notin rejoined => Accounted(k) = answered[k]
  BY DEF CountedOnce
<1>1. TypeOK /\ HistoryTypes /\ OffIsEmpty /\ RingsAccount /\ FileAccounts
  BY DEF HInv
<1>2. PICK ring : ring = Kept[k]
  OBVIOUS
<1>3. Balanced(k, ring, fresh[k] + unread[k])
  <2>1. CASE Running
    BY <1>1, <1>2, <2>1 DEF Kept, RingsAccount
  <2>2. CASE ~Running
    <3>1. Total(ring) = Total(file[k])
      BY <1>1, <1>2, <2>2, StartLoads DEF Kept
    <3>2. fresh[k] + unread[k] = unsaved[k]
      BY <1>1, <2>2 DEF OffIsEmpty, Zeros
    <3> QED BY <1>1, <3>1, <3>2 DEF FileAccounts, Balanced
  <2> QED BY <2>1, <2>2
<1>4. Accounted(k) = Total(ring) + (fresh[k] + unread[k]) + missed[k]
  <2>1. Total(ring) \in Nat
    BY <1>1, <1>2, StartLoads, KeyTypes, RingFields DEF Kept
  <2> QED BY <1>1, <1>2, <2>1, SumTypes DEF Accounted
<1> QED BY <1>3, <1>4 DEF Balanced

(* Stats keeps its types, and no ring is ever longer than HOURS (TypeOK). *)
THEOREM StatsTypeOK == Spec => []TypeOK
<1>1. HInv => TypeOK
  BY DEF HInv
<1> QED BY HInvHolds, <1>1, PTL

(* No answer is in two buckets, and none is missing that need not be, over
   any starts, stops, crashes, failed saves and files that cannot be read
   (CountedOnce). *)
THEOREM AnswersCountedOnce == Spec => []CountedOnce
BY HInvHolds, HInvCounted, PTL

(* A step that changes the file is a save, of rings at or past what was read
   of it. *)
LEMMA FileStep ==
    HInv /\ HInv' /\ [Next]_vars =>
        [\A k \in Key : Total(file'[k]) + (unread[k] - unread'[k]) >= Total(file[k])]_file
<1> SUFFICES ASSUME HInv, HInv', [Next]_vars, file' # file, NEW k \in Key
             PROVE  Total(file'[k]) + (unread[k] - unread'[k]) >= Total(file[k])
  OBVIOUS
<1>2. Save
  <2>1. CASE \/ UNCHANGED vars \/ Tick \/ Stop \/ SaveFails \/ Start \/ StartWithout
             \/ End \/ NextHour
    BY <2>1 DEF vars, Tick, Stop, SaveFails, Start, StartWithout, StartWith, End, NextHour
  <2>2. CASE \E p \in Provider : Join(p) \/ Leave(p)
    BY <2>2 DEF Join, Leave
  <2>3. CASE \E j \in Key : Answer(j)
    BY <2>3, AnswerEffect
  <2> QED BY <2>1, <2>2, <2>3 DEF Next
<1>3. Running /\ file' = rings /\ unread'[k] = 0
  BY <1>2 DEF Save, Saving, Running, Replace, Zeros
<1>4. Total(file[k]) <= Total(rings[k]) + unread[k]
  BY <1>3 DEF HInv, FileBehind
<1>5. Total(file[k]) \in Nat /\ Total(rings[k]) \in Nat /\ unread[k] \in Nat
  BY SumTypes DEF HInv
<1> QED BY <1>3, <1>4, <1>5

(* The file never loses a count that its writer had read: a save forgets at
   most what the process could not read when it started, and only the first
   one does (FileKeeps). *)
THEOREM FileNeverShrinks == Spec => FileKeeps
BY HInvHolds, FileStep, PTL DEF Spec, FileKeeps

(* The buckets that are kept are those of the rings or of the file. *)
LEMMA KeptBuckets ==
    ASSUME HInv, NEW k \in Key
    PROVE  Kept[k].buckets \in {rings[k].buckets, file[k].buckets}
<1>1. TypeOK /\ HistoryTypes
  BY DEF HInv
<1> QED BY <1>1, StartLoads DEF Kept

(* The order of the rings is that of the report. *)
LEMMA HInvOneBucket == HInv => OneBucketAnHour
<1> SUFFICES ASSUME HInv, NEW k \in Key, NEW i \in Report(k, 0), NEW j \in Report(k, 0), i < j
             PROVE  Kept[k].buckets[i].start < Kept[k].buckets[j].start
  BY DEF OneBucketAnHour
<1>1. PICK bs \in Seq(Bucket) : bs = Kept[k].buckets /\ Rising(bs)
  <2>1. rings[k] \in Ring /\ file[k] \in Ring
    BY KeyTypes DEF HInv
  <2>2. rings[k].buckets \in Seq(Bucket) /\ file[k].buckets \in Seq(Bucket)
    BY <2>1, RingFields
  <2>3. Rising(rings[k].buckets) /\ Rising(file[k].buckets)
    BY DEF HInv, InOrder, Ordered
  <2> QED BY <2>2, <2>3, KeptBuckets
<1>2. i \in 1..Len(bs) /\ j \in 1..Len(bs)
  BY <1>1 DEF Report
<1> QED BY <1>1, <1>2 DEF Rising

(* What the rings say of whole hours, the report says. *)
LEMMA HInvWhole == HInv => WholeMeansWhole
<1> SUFFICES ASSUME HInv, NEW k \in Key \ rejoined, NEW i \in Report(k, 0),
                    ~Kept[k].buckets[i].partial
             PROVE  Kept[k].buckets[i].start \notin cut[k]
  BY Zenon DEF WholeMeansWhole
<1>1. PICK ring : /\ ring \in {rings[k], file[k]} /\ ring.buckets = Kept[k].buckets
                  /\ ring.buckets \in Seq(Bucket)
  <2>1. rings[k] \in Ring /\ file[k] \in Ring
    BY KeyTypes DEF HInv
  <2> QED BY <2>1, RingFields, KeptBuckets
<1>2. Past(ring, Counting, cut[k])
  BY <1>1 DEF HInv, WholeIsPast, Cuts
<1>3. i \in 1..Len(ring.buckets)
  BY <1>1 DEF Report
<1> QED BY <1>1, <1>2, <1>3, Zenon DEF Past

(* A report has one row an hour, in order, also when a process stopped and
   another started within it (OneBucketAnHour). *)
THEOREM HoursInOrder == Spec => []OneBucketAnHour
BY HInvHolds, HInvOneBucket, PTL

(* A bucket not marked partial is of an hour that the process ran and the
   provider was in the pool for the whole of (WholeMeansWhole). *)
THEOREM WholeHours == Spec => []WholeMeansWhole
BY HInvHolds, HInvWhole, PTL
=============================================================================
